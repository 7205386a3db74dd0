----------------------------- MODULE MCModPrimo -----------------------------
EXTENDS ModPrimo

CONSTANTS v, w     \* workers

\* A server that passes unpaid requests on, one whose cost was forgotten, and one
\* whose mining page lies outside its location.
MCConfigs == {[sane |-> TRUE, cost |-> 1, passthrough |-> TRUE],
              [sane |-> TRUE, cost |-> 0, passthrough |-> FALSE],
              [sane |-> FALSE, cost |-> 1, passthrough |-> FALSE]}
=============================================================================
