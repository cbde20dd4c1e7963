--------------------------- MODULE MCSyncProtocol ---------------------------
(* Instances of SyncProtocol for TLC. *)
EXTENDS SyncProtocol, TLC

CONSTANTS n1, n2, n3, n4

(* Two peers, three that all know each other, and an author at the tail of *)
(* such a ring.                                                            *)
Pair     == n1 :> n2 @@ n2 :> None
Triangle == n1 :> n2 @@ n2 :> n3 @@ n3 :> n1
Kite     == n1 :> n2 @@ n2 :> n3 @@ n3 :> n4 @@ n4 :> n2

(* Who makes how many blocks. *)
Makes(n, count)  == [m \in Nodes |-> IF m = n THEN count ELSE 0]
OneOfOne         == Makes(n1, 1)
TwoOfOne         == Makes(n1, 2)
ThreeOfOne       == Makes(n1, 3)
ThreeOfListener  == Makes(n2, 3)
TwoAndOne        == [Makes(n1, 2) EXCEPT ![n2] = 1]

=============================================================================
