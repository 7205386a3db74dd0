-------------------------------- MODULE Wire --------------------------------
(***************************************************************************)
(* How a number of a server's reply reaches the control center.  mod_primo *)
(* and Executor::execute both read it from JSON as cJSON's valueint, an    *)
(* int that saturates at both ends.  IntMax is INT_MAX, scaled down in the *)
(* models; the cookies a Monero daemon sends are unsigned 32-bit numbers   *)
(* and go up to twice that, and what a server puts in a header itself may  *)
(* be any number, as the extension relays headers as they are.             *)
(***************************************************************************)
EXTENDS Integers

CONSTANT IntMax

ASSUME IntMaxAssumption == IntMax \in Nat

IntMin == -IntMax - 1

ValueInt(number) == IF number >= IntMax THEN IntMax
                    ELSE IF number <= IntMin THEN IntMin
                    ELSE number

\* An int assigned to a uint32_t, as a cookie is: -1 becomes 0xffffffff.
Unsigned(int) == int % (2 * (IntMax + 1))
=============================================================================
