------------------------------ MODULE WorkSlot ------------------------------
(***************************************************************************)
(* What the control center can expect of its miner, without the thread and *)
(* the lock.                                                               *)
(*                                                                         *)
(* There is one slot of work.  The owner puts a job in it, replaces it,    *)
(* empties it, and may pause the whole thing.  A worker hashes one job at  *)
(* a time: it starts on the job that is in the slot, never while paused,   *)
(* but it may take a job for the one it copied last if the two are alike.  *)
(* When a hash is good enough the worker reports the job it hashed; the    *)
(* owner takes the reports in order.                                       *)
(***************************************************************************)
EXTENDS Naturals, Sequences

CONSTANTS Jobs,        \* what can be put in the slot
          Idle,        \* nothing: an empty slot, a worker without a job yet
          Alike(_, _), \* two jobs the worker may take for one another
          MaxReports   \* reports not yet taken, at most

VARIABLES slot,        \* the job to work on, or Idle
          paused,
          copy,        \* the job the worker copied last, or Idle
          busy,        \* it is being hashed
          reports      \* jobs a hash was found for, not yet taken

vars == <<slot, paused, copy, busy, reports>>

TypeOK == /\ slot \in Jobs \cup {Idle}
          /\ paused \in BOOLEAN
          /\ copy \in Jobs \cup {Idle}
          /\ busy \in BOOLEAN
          /\ reports \in Seq(Jobs)

Init == /\ slot = Idle
        /\ paused = FALSE
        /\ copy = Idle
        /\ busy = FALSE
        /\ reports = <<>>

Put(w) == /\ slot' = w
          /\ UNCHANGED <<paused, copy, busy, reports>>

TogglePause == /\ paused' = ~paused
               /\ UNCHANGED <<slot, copy, busy, reports>>

Start == /\ ~busy
         /\ slot # Idle
         /\ ~paused
         /\ \/ copy' = slot
            \/ copy # Idle /\ Alike(copy, slot) /\ UNCHANGED copy
         /\ busy' = TRUE
         /\ UNCHANGED <<slot, paused, reports>>

Finish(found) == /\ busy
                 /\ busy' = FALSE
                 /\ IF found
                      THEN /\ Len(reports) < MaxReports
                           /\ reports' = Append(reports, copy)
                      ELSE UNCHANGED reports
                 /\ UNCHANGED <<slot, paused, copy>>

Take == /\ reports # <<>>
        /\ reports' = Tail(reports)
        /\ UNCHANGED <<slot, paused, copy, busy>>

Next == \/ \E w \in Jobs \cup {Idle} : Put(w)
        \/ TogglePause
        \/ Start
        \/ \E found \in BOOLEAN : Finish(found)
        \/ Take

Spec == Init /\ [][Next]_vars
=============================================================================
