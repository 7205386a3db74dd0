--------------------------- MODULE MCControlCenter ---------------------------
(* Two sites, the second one's mining page and an article it charges for    *)
(* within the location of the first.                                         *)
(* Words of two bits, and the two hashes next to 2^256 at difficulty 3: the  *)
(* carries of the first one's product stop short of an overflow, the second  *)
(* one's run through a word that is all ones.                                *)
EXTENDS ControlCenter

CONSTANTS siteA, siteB, article, none

MCSite == (siteA :> siteA) @@ (siteB :> siteB) @@ (article :> siteB)

MCWithin == (siteA :> {siteA}) @@ (siteB :> {siteA, siteB})
              @@ (article :> {siteA, siteB})

HashOf(n) == [i \in 0..3 |-> (n \div 4^i) % 4]

MCSamples == {HashOf(85), HashOf(86)}
=============================================================================
