---------------------------- MODULE VersionedLog ----------------------------
(***************************************************************************)
(* What a sigchain promises to those who read it: one log, rooted in a      *)
(* genesis entry, that only grows at its end, and in which the versions of  *)
(* a subject/predicate pair strictly increase.                              *)
(***************************************************************************)
EXTENDS Naturals, Sequences, SequencesExt

CONSTANT Genesis

VARIABLE log    \* a sequence of [sp, ver]

Rooted(l) == l # <<>> => l[1] = [sp |-> Genesis, ver |-> 0]

Increasing(l) == \A i, j \in DOMAIN l :
                    i < j /\ l[i].sp = l[j].sp => l[i].ver < l[j].ver

Init == log = <<>>

Grow ==
    /\ IsStrictPrefix(log, log')
    /\ Rooted(log')
    /\ Increasing(log')

Spec == Init /\ [][Grow]_log

=============================================================================
