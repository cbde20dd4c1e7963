----------------------------- MODULE CommandLog -----------------------------
(***************************************************************************)
(* What a store fed by batches of commands promises: it shows the effect   *)
(* of some prefix of the commands, executed one by one in their order, and *)
(* goes from one prefix to a longer one.                                   *)
(***************************************************************************)
EXTENDS Naturals, Sequences

CONSTANTS SPs, None

VARIABLES
    log,    \* the commands published so far
    done,   \* how many of them have taken effect
    view,   \* the object of each pair, or None
    stale   \* whether the log has been read from its start again

(* The positions of the commands on sp among the first k. *)
On(sp, k) == {i \in 1..k : log[i].sp = sp}

(* The last of them decides. *)
Effect(sp, k) ==
    IF On(sp, k) = {} THEN None
    ELSE LET i == CHOOSE x \in On(sp, k) : \A y \in On(sp, k) : y <= x
         IN IF log[i].verb = "put" THEN log[i].obj ELSE None

Init == log = <<>> /\ done = 0 /\ view = [sp \in SPs |-> None] /\ ~stale

Publish ==
    /\ Len(log') = Len(log) + 1 /\ SubSeq(log', 1, Len(log)) = log
    /\ UNCHANGED <<done, view>>

Execute ==
    /\ done' \in (done + 1)..Len(log)
    /\ view' = [sp \in SPs |-> Effect(sp, done')]
    /\ UNCHANGED log

(* Commands are executed again on a store that has moved on: from then on   *)
(* it shows the effect of no prefix, and nothing is promised.              *)
Replay == stale'

Next ==
    \/ ~stale /\ ~stale' /\ (Publish \/ Execute)
    \/ Replay

Spec == Init /\ [][Next]_<<log, done, view, stale>>

=============================================================================
