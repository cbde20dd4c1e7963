----------------------------- MODULE MCSigchain -----------------------------
(* Instances of Sigchain for TLC. *)
EXTENDS Sigchain, TLC

CONSTANTS h1, h2, a, b, cell1, cell2

(* Each pair has a cell of its own, or the two pairs collide in one, or     *)
(* there is one pair only.                                                  *)
Exact     == a :> cell1 @@ b :> cell2
Colliding == a :> cell1 @@ b :> cell1
OneSP     == a :> cell1

(* Handlers are interchangeable: no definition tells one from another. *)
Symmetry == Permutations(Handlers)

=============================================================================
