-------------------------------- MODULE Miner --------------------------------
(***************************************************************************)
(* control-center/src/miner.cpp: one mining thread and the Qt main thread, *)
(* a mutex and a condition variable.                                       *)
(*                                                                         *)
(* The main thread hands over work (set_hashing_blob, update, stop),       *)
(* pauses and resumes.  The mining thread copies the work under the lock,  *)
(* hashes without it, and reports hashes and hash rates by Qt signals that *)
(* are queued to the main thread.  Each action below is one stretch of     *)
(* code that the other thread cannot see the middle of: a critical section *)
(* or the code between two of them.                                        *)
(*                                                                         *)
(* A job stands for what one server reply described: its page, its work    *)
(* (hashing blob, difficulty, height and top hash, always assigned and     *)
(* copied together here) and its cookie.  Nonces and hash values are left  *)
(* out: whether a hash is good enough is a free choice.  So is whether the *)
(* one-second window of the hash rate has elapsed: pause() and an empty    *)
(* blob start it anew, but a single hash may last longer than the window.  *)
(***************************************************************************)
EXTENDS Naturals, Sequences

CONSTANTS Jobs,         \* [page, work, cookie] records that can be handed over
          NoPage,       \* the empty mining page
          NoWork,       \* the work fields while there is none
          ZeroCookie,   \* cookie 0: initially, and after stop()
          AllOnes,      \* 0xffffffff: the mining thread's first local_cookie
          MaxFound      \* bound: found hashes queued to the main thread

NoJob == [page |-> NoPage, work |-> NoWork, cookie |-> ZeroCookie]

NoLocalJob == [NoJob EXCEPT !.cookie = AllOnes]

\* set_hashing_blob is only given pages of database entries, which are not empty.
\* Of cookies nothing is assumed: two jobs may share one, and a job may have
\* 0xffffffff, which is what becomes of a header X-Primo-Cookie: -1 (Wire).
ASSUME JobsAssumption ==
  /\ \A j \in Jobs : /\ j.page # NoPage
                     /\ j = [page |-> j.page, work |-> j.work, cookie |-> j.cookie]
  /\ AllOnes # ZeroCookie

ASSUME BoundsAssumption == MaxFound \in Nat \ {0}

\* The mining thread compares nothing else.
SameCookie(j, k) == j.cookie = k.cookie

VARIABLES job,      \* the shared work: mining_page, difficulty, height, top_hash, cookie
          ready,    \* hashing_blob is not empty (and raw_hashing_blob decodes it)
          paused,   \* is_paused
          rated,    \* hash_rate_history is not empty
          local,    \* the mining thread's local_* copies
          pc,       \* where the mining thread is
          found,    \* hashFound signals queued to the main thread
          rateSent, \* hashRateChanged signals are queued to the main thread: one or
                    \* several make no difference, each only reads the rate again
          label,    \* the window says "Mining for ..." and not "Not mining"
          owner     \* the main thread: its event loop, in ~Miner, past it, killed

shared == <<job, ready, paused, rated>>
thread == <<local, pc>>
vars == <<job, ready, paused, rated, local, pc, found, rateSent, label, owner>>

ThreadStates == {"check",    \* about to take the lock at the top of the loop
                 "waiting",  \* in cond.wait
                 "hash",     \* hashing local_raw_hashing_blob, lock released
                 "count",    \* hashed, about to take the lock to count it
                 "emit",     \* lock released, about to emit hashRateChanged
                 "exited", "killed"}

OwnerStates == {"running", "joining", "gone", "killed"}

TypeOK == /\ job \in Jobs \cup {NoJob}
          /\ ready \in BOOLEAN
          /\ paused \in BOOLEAN
          /\ rated \in BOOLEAN
          /\ local \in Jobs \cup {NoLocalJob}
          /\ pc \in ThreadStates
          /\ found \in Seq(Jobs)
          /\ rateSent \in BOOLEAN
          /\ label \in BOOLEAN
          /\ owner \in OwnerStates

Init == /\ job = NoJob
        /\ ready = FALSE
        /\ paused = FALSE
        /\ rated = FALSE
        /\ local = NoLocalJob
        /\ pc = "check"
        /\ found = <<>>
        /\ rateSent = FALSE
        /\ label = FALSE
        /\ owner = "running"

-----------------------------------------------------------------------------
(* The mining thread *)

\* Faulty: hashing goes on while paused.
CanHashIgnoringPause == ready

\* The critical section at the top of the loop: leave, wait, or pick up the
\* shared job if its cookie is not the one already being worked on.
CanHash == ready /\ ~paused

Leave == /\ owner # "running"
         /\ pc' = "exited"
         /\ UNCHANGED local

Wait == /\ owner = "running"
        /\ ~CanHash
        /\ pc' = "waiting"
        /\ UNCHANGED local

\* Faulty: the cookie is remembered and the rest of the job is not copied.
PickUpCookieOnly == [local EXCEPT !.cookie = job.cookie]

PickUp == IF SameCookie(job, local) THEN local ELSE job

StartHash == /\ owner = "running"
             /\ CanHash
             /\ local' = PickUp
             /\ pc' = "hash"

CheckWork == /\ pc = "check"
             /\ Leave \/ Wait \/ StartHash
             /\ UNCHANGED <<shared, found, rateSent, label, owner>>

\* cond.wait may return without a notify.
SpuriousWake == /\ pc = "waiting"
                /\ pc' = "check"
                /\ UNCHANGED <<shared, local, found, rateSent, label, owner>>

\* One slow hash, then hashFound when it meets the difficulty.
FinishHash(good) == /\ pc = "hash"
                    /\ local # NoLocalJob
                    /\ pc' = "count"
                    /\ IF good
                         THEN /\ Len(found) < MaxFound
                              /\ found' = Append(found, local)
                         ELSE UNCHANGED found
                    /\ UNCHANGED <<shared, local, rateSent, label, owner>>

\* Nothing was ever copied, as the first job's cookie is the one that local_cookie
\* starts with: byte 0 of an empty vector is read, whose data() is null, and the
\* process is killed, both threads of it.
Fault == /\ pc = "hash"
         /\ local = NoLocalJob
         /\ pc' = "killed"
         /\ owner' = "killed"
         /\ UNCHANGED <<shared, local, found, rateSent, label>>

\* Counting takes the lock again; at the end of a window a rate is recorded.
CountHash(elapsed) == /\ pc = "count"
                      /\ IF elapsed
                           THEN rated' = TRUE /\ pc' = "emit"
                           ELSE UNCHANGED rated /\ pc' = "check"
                      /\ UNCHANGED <<job, ready, paused, local, found, rateSent, label, owner>>

EmitRate == /\ pc = "emit"
            /\ rateSent' = TRUE
            /\ pc' = "check"
            /\ UNCHANGED <<shared, local, found, label, owner>>

MiningThread == \/ CheckWork
                \/ \E good \in BOOLEAN : FinishHash(good)
                \/ Fault
                \/ \E elapsed \in BOOLEAN : CountHash(elapsed)
                \/ EmitRate

-----------------------------------------------------------------------------
(* The main thread: direct calls *)

\* Faulty: nobody wakes the mining thread.
NotifyNobody == UNCHANGED pc

Notify == pc' = IF pc = "waiting" THEN "check" ELSE pc

\* Faulty: the history is cleared only when mining stops, not when it is already
\* stopped and a late rate has come in.
ReplaceClearingOnce(j, decodes) ==
  /\ job' = j
  /\ ready' = decodes
  /\ Notify
  /\ IF decodes \/ ~ready
       THEN UNCHANGED <<rated, label>>
       ELSE rated' = FALSE /\ label' = FALSE
  /\ UNCHANGED <<paused, local, found, rateSent, owner>>

\* The body of set_hashing_blob once it has decided not to return early.
\* decodes: the blob is hexadecimal and at least 43 bytes long.  Without a
\* usable blob the history is cleared and hashRateChanged emitted, a direct
\* call on this thread: the window reads the rate again.
Replace(j, decodes) ==
  /\ job' = j
  /\ ready' = decodes
  /\ Notify
  /\ IF decodes
       THEN UNCHANGED <<rated, label>>
       ELSE rated' = FALSE /\ label' = FALSE
  /\ UNCHANGED <<paused, local, found, rateSent, owner>>

SetHashingBlob(j, decodes) == owner = "running" /\ Replace(j, decodes)

\* keep_mining_page: news about another page than the one mined is dropped.
Update(j, decodes) == /\ owner = "running"
                      /\ job.page = j.page
                      /\ Replace(j, decodes)

Stop == owner = "running" /\ Replace(NoJob, FALSE)

\* Faulty: pausing clears the history without emitting hashRateChanged.
PauseSilently == /\ owner = "running"
                 /\ paused' = ~paused
                 /\ rated' = IF paused' THEN FALSE ELSE rated
                 /\ UNCHANGED <<job, ready, local, pc, found, rateSent, label, owner>>

\* The window's only call is paused = !paused.  No notify when resuming.
Pause == /\ owner = "running"
         /\ paused' = ~paused
         /\ IF paused'
              THEN rated' = FALSE /\ label' = FALSE
              ELSE UNCHANGED <<rated, label>>
         /\ UNCHANGED <<job, ready, local, pc, found, rateSent, owner>>

\* Faulty: the destructor joins without waking the thread.
DestroyWithoutNotify == /\ owner = "running"
                        /\ owner' = "joining"
                        /\ UNCHANGED <<shared, thread, found, rateSent, label>>

\* ~Miner: running = false and notify under the lock, then join.
Destroy == /\ owner = "running"
           /\ owner' = "joining"
           /\ Notify
           /\ UNCHANGED <<shared, local, found, rateSent, label>>

Join == /\ owner = "joining"
        /\ pc = "exited"
        /\ owner' = "gone"
        /\ UNCHANGED <<shared, thread, found, rateSent, label>>

(* The main thread: queued signals *)

\* Executor::onHashFound takes the oldest one (Executor.tla says what it does).
DeliverFound == /\ owner = "running"
                /\ found # <<>>
                /\ found' = Tail(found)
                /\ UNCHANGED <<shared, thread, rateSent, label, owner>>

\* The window's binding reads hashRate() again, not the value in the signal.
DeliverRate == /\ owner = "running"
               /\ rateSent
               /\ rateSent' = FALSE
               /\ label' = rated
               /\ UNCHANGED <<shared, thread, found, owner>>

\* What the one-second timer may do: hand over the site it chose, or stop.
Timer == \/ \E j \in Jobs, decodes \in BOOLEAN : SetHashingBlob(j, decodes)
         \/ Stop

Gone == owner \in {"gone", "killed"} /\ UNCHANGED vars

Next == \/ MiningThread
        \/ SpuriousWake
        \/ Timer
        \/ \E j \in Jobs, decodes \in BOOLEAN : Update(j, decodes)
        \/ Pause
        \/ Destroy
        \/ Join
        \/ DeliverFound
        \/ DeliverRate
        \/ Gone

Spec == Init /\ [][Next]_vars

\* The scheduler runs the thread, the event loop delivers what is queued and
\* fires its timer, and a destructor that can go on does.
Fairness == /\ WF_vars(MiningThread)
            /\ WF_vars(Timer)
            /\ WF_vars(DeliverFound)
            /\ WF_vars(DeliverRate)
            /\ WF_vars(Join)

FairSpec == Spec /\ Fairness

-----------------------------------------------------------------------------
(* Safety *)

\* A hash begins on a job that was copied, although nothing but the cookies says
\* whether there is a copy: the empty vector that local_raw_hashing_blob starts as
\* is only taken for a job whose cookie is 0xffffffff, before any job was copied.
HashesCopiedBlob ==
  [][pc # "hash" /\ pc' = "hash" =>
       \/ local' \in Jobs
       \/ local = NoLocalJob /\ job.cookie = AllOnes]_vars

\* Once no rate signal is on its way, the window says "Mining for" exactly when
\* the miner has a hash rate: the clearing in pause() and set_hashing_blob()
\* and the thread's late rates never leave the label behind.
LabelSettles == (~rateSent /\ pc # "emit") => label = rated

\* The destructor never misses the thread: whoever goes to wait before it is woken by
\* it, and nobody goes to wait after it, although running is only looked at under the
\* lock and the notify is sent but once.
NobodySleepsThroughJoin == owner # "running" => pc # "waiting"

\* The window never says "Mining for" while paused, once the mining thread
\* waits and no rate signal is on its way ("you can see when your computer is
\* mining").  The code does not have this.
PausedShowsNotMining ==
  (paused /\ pc = "waiting" /\ ~rateSent /\ owner = "running") => ~label

\* A hash that begins is for the page the miner was told to mine for.  The code
\* does not have this: two sites' cookies may be the same number.
HashesChosenPage ==
  [][pc # "hash" /\ pc' = "hash" => local'.page = job.page]_vars

\* The miner is a work slot: every hash is on the job in the slot when it starts,
\* or on the job copied last if that has the same cookie, never starts while
\* paused, and each found hash is reported once, in order, for exactly the job that
\* was hashed.  A thread without a copy hashes nothing (Fault).
Slot == INSTANCE WorkSlot
          WITH Idle <- NoJob,
               Alike <- SameCookie,
               MaxReports <- MaxFound,
               slot <- IF ready THEN job ELSE NoJob,
               copy <- IF local = NoLocalJob THEN NoJob ELSE local,
               busy <- pc = "hash" /\ local # NoLocalJob,
               reports <- found

ImplementsWorkSlot == Slot!Spec

-----------------------------------------------------------------------------
(* Liveness *)

\* A miner with a usable job that is not paused keeps hashing: although
\* pause(false) does not notify, the timer's next set_hashing_blob does.
MinesWhenItCan == <>[](CanHash /\ owner = "running") => []<>(pc = "hash")

\* The destructor's join returns, wherever the thread is when it is called, unless
\* the process is killed meanwhile.
JoinReturns == (owner = "joining") ~> (owner \in {"gone", "killed"})

\* When there is nothing to mine for any more the window ends up saying so, a
\* late rate of the last hash included: the timer keeps calling stop().
IdleLabelClears == <>[](~ready /\ owner = "running") => <>[](~label)
=============================================================================
