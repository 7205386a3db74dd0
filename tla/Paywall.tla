------------------------------- MODULE Paywall -------------------------------
(***************************************************************************)
(* What a paid page promises: it is shown to those who paid for it, and    *)
(* nobody pays twice for one request.  A request that was charged for may  *)
(* still be refused, as the charge and the page are in different hands:    *)
(* how far mod_primo goes in that is said in ModPrimo.                     *)
(***************************************************************************)
CONSTANT Requests

VARIABLES phase,     \* of each request
          charged    \* the requests that were charged for

Init == /\ phase = [r \in Requests |-> "none"]
        /\ charged = {}

Move(r, from, to) == /\ phase[r] \in from
                     /\ phase' = [phase EXCEPT ![r] = to]

Open(r) == /\ Move(r, {"none"}, "open")
           /\ UNCHANGED charged

\* A request that cannot pay is refused at once.
TurnAway(r) == /\ Move(r, {"none"}, "refused")
               /\ UNCHANGED charged

Charge(r) == /\ phase[r] = "open"
             /\ r \notin charged
             /\ charged' = charged \cup {r}
             /\ UNCHANGED phase

Serve(r) == /\ Move(r, {"open"}, "served")
            /\ r \in charged
            /\ UNCHANGED charged

Refuse(r) == /\ Move(r, {"open"}, "refused")
             /\ UNCHANGED charged

Close(r) == /\ Move(r, {"served", "refused"}, "none")
            /\ charged' = charged \ {r}

Next == \E r \in Requests :
          Open(r) \/ TurnAway(r) \/ Charge(r) \/ Serve(r) \/ Refuse(r) \/ Close(r)

Spec == Init /\ [][Next]_<<phase, charged>>
=============================================================================
