----------------------------- MODULE MCReadModel -----------------------------
(* Instances of ReadModel for TLC. *)
EXTENDS ReadModel

OneRow == <<[sp \in SPs |-> sp]>>

T(sp, obj, ver) == [sp |-> sp, obj |-> obj, ver |-> ver]

(* Three versions of one pair, the last one back to the first object. *)
Back == {T(1, 1, 1), T(1, 2, 2), T(1, 1, 3)}

(* Updates of two pairs: one to a lesser object, which loses a tie against   *)
(* the greater one before it; one that begins with a version 0, as the pair  *)
(* of the genesis blocks does. *)
TwoPairs == {T(1, 2, 1), T(1, 1, 2), T(2, 1, 0), T(2, 1, 1), T(2, 2, 2)}

OneSubject  == [sp \in SPs |-> 1]
TwoSubjects == [sp \in SPs |-> sp]

=============================================================================
