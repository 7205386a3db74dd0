------------------------------- MODULE Headers -------------------------------
(***************************************************************************)
(* The response headers of mod_primo that the browser extension relays to  *)
(* the control center, and the sets of them that a reply may carry.  The   *)
(* mining page itself, X-Primo-MiningPage, is in every reply; payment,     *)
(* location (always with the name) and credits per hash found (next to the *)
(* difficulty) decide nothing in the models and are left out.              *)
(***************************************************************************)
EXTENDS Sequences, SequencesExt

\* What describes the work a server hands out.
WorkFields == {"top_hash", "cookie", "hashing_blob", "difficulty", "height"}

Fields == {"name", "credits"} \cup WorkFields

\* mod_primo adds its response headers one by one and gives up at the first
\* field the daemon did not send: what arrives is a prefix of this list.
HeaderOrder ==
  <<"name", "credits", "top_hash", "cookie", "hashing_blob", "difficulty", "height">>

MiningPageShapes == {ToSet(s) : s \in Prefixes(HeaderOrder)} \ {{}}

\* A page behind the paywall names the mining page and the credits, if the
\* daemon answered.
PaywallShapes == {{}, {"credits"}}
=============================================================================
