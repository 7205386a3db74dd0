-------------------------- MODULE MCMinerSaturated --------------------------
(* Two sites whose daemons sent different cookies, both above INT_MAX (here *)
(* 3, so that 0..7 are the unsigned numbers).                               *)
EXTENDS Miner, Wire

CONSTANTS siteA, siteB, none

ServerJobs == {[page |-> siteA, work |-> 1, cookie |-> 5],
               [page |-> siteB, work |-> 2, cookie |-> 6]}

MCJobs == {[j EXCEPT !.cookie = Unsigned(ValueInt(@))] : j \in ServerJobs}
=============================================================================
