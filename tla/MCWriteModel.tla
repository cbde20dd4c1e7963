---------------------------- MODULE MCWriteModel ----------------------------
(* Instances of WriteModel for TLC. *)
EXTENDS WriteModel

(* The pairs collide in the first row of the sketch; or in both. *)
TwoRows  == <<[sp \in SPs |-> 0], [sp \in SPs |-> sp]>>
Colliding == <<[sp \in SPs |-> 0], [sp \in SPs |-> 0]>>

T(sp, obj, ver) == [sp |-> sp, obj |-> obj, ver |-> ver]

(* Three versions of one pair, the last one back to the first object. *)
Back == {T(1, 1, 1), T(1, 2, 2), T(1, 1, 3)}

(* An update of one pair beside the tuple of the genesis blocks. *)
Beside == {T(1, 1, 1), T(1, 2, 2), T(2, 1, 0)}

(* Two versions of two pairs, neither of which is new in the last. *)
TwoPairs == {T(1, 1, 1), T(1, 1, 2), T(2, 1, 1), T(2, 2, 2)}

(* Two authors, who gave the same version to different objects. *)
Tied == {T(1, 1, 1), T(1, 2, 1)}

Calm(tuples) == [tuples |-> tuples, copies |-> 1, restarts |-> 0, faults |-> 0]
Twice(t)     == [t EXCEPT !.copies = 2]
Restarted(t) == [t EXCEPT !.restarts = 1]
Failing(t)   == [t EXCEPT !.faults = 1]

(* Each block comes from two neighbours (or two authors), or the node is    *)
(* restarted, or a publication fails.                                      *)
OneTrouble == {Twice(Calm(Back)), Restarted(Calm(Back)), Failing(Twice(Calm(Beside)))}

(* Instances of the README: most of them show where a property fails. *)
TwoPairsTrial       == {Calm(TwoPairs)}
TwoPairsTroubled    == {Failing(Restarted(Calm(TwoPairs)))}
TwoPairsFailing     == {Failing(Calm(TwoPairs))}
BesideTrial         == {Calm(Beside)}
TiedTrial           == {Calm(Tied)}
FailingTrial        == {Failing(Calm(Back))}
RestartedTrial      == {Restarted(Calm(Back))}
FailingAndRestarted == {Failing(Restarted(Calm(Back)))}
TwiceAndRestarted   == {Twice(Restarted(Calm(Back)))}

=============================================================================
