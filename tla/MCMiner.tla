------------------------------ MODULE MCMiner ------------------------------
(* Two sites; the first one's daemon hands out two jobs in turn, both sites  *)
(* follow the same chain.  Among the cookies are 0, which is also what       *)
(* stop() stores, two above INT_MAX, which arrive as the same number, and a  *)
(* server's own -1, which arrives as the largest unsigned number.            *)
EXTENDS Miner, Wire

CONSTANTS siteA, siteB, none

ServerJobs == {[page |-> siteA, work |-> 1, cookie |-> 0],
               [page |-> siteA, work |-> 2, cookie |-> 5],
               [page |-> siteB, work |-> 1, cookie |-> 6],
               [page |-> siteB, work |-> 2, cookie |-> -1]}

MCJobs == {[j EXCEPT !.cookie = Unsigned(ValueInt(@))] : j \in ServerJobs}
=============================================================================
