------------------------------ MODULE Batches ------------------------------
(***************************************************************************)
(* Commands on tuples, and the batches of them that each store takes from  *)
(* "filteredfeed". A subject/predicate pair and an object are numbers, in  *)
(* the order of the strings they stand for: contexts are part of a pair.   *)
(*                                                                         *)
(* A batch is a set: sort.Sort puts it in the order of pair and Sequence,  *)
(* and two commands that agree on both are copies of one, since they stem  *)
(* from one message of the feed.                                           *)
(***************************************************************************)
EXTENDS Naturals, Sequences, FiniteSets

CONSTANTS SPs, Objects, None

ASSUME PairAssumption == SPs \subseteq Nat /\ Objects \subseteq Nat /\ None \notin Nat

Tuple   == [sp : SPs, obj : Objects, ver : Nat]
Command == [verb : {"put", "delete"}, sp : SPs, obj : Objects, seq : Nat]

Batch(slice) == {slice[i] : i \in DOMAIN slice}

Pairs(B)     == {c.sp : c \in B}
Group(B, sp) == {c \in B : c.sp = sp}

(* The first and the last command of the group of a pair. *)
First(B, sp) == CHOOSE c \in Group(B, sp) : \A d \in Group(B, sp) : c.seq <= d.seq
Last(B, sp)  == CHOOSE c \in Group(B, sp) : \A d \in Group(B, sp) : d.seq <= c.seq

Deletes(B, sp) == First(B, sp).verb = "delete"

(* What the stores rely on in the stream: the commands come in the order of *)
(* their Sequence, and a put comes right after a delete of its pair, or is  *)
(* the first command on it, or all commands on the pair put its object.    *)
Numbered(s)  == \A i, j \in DOMAIN s : i < j => s[i].seq < s[j].seq
Replacing(s) == \A j \in DOMAIN s : s[j].verb = "put" =>
    \/ j > 1 /\ s[j - 1].verb = "delete" /\ s[j - 1].sp = s[j].sp
    \/ \A i \in DOMAIN s : i < j => s[i].sp # s[j].sp
    \/ \A i \in DOMAIN s : s[i].sp = s[j].sp => s[i].verb = "put" /\ s[i].obj = s[j].obj

(* Whose delete the variable tmp holds when the loop is at the last command *)
(* of the group of sp: each group that issues one sets tmp, none resets it. *)
Tmp(issued, sp) ==
    {x \in issued : x <= sp /\ \A y \in issued : y <= sp => y <= x}

=============================================================================
