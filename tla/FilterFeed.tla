----------------------------- MODULE FilterFeed -----------------------------
(***************************************************************************)
(* The conflict resolver between the streams "feed" and "filteredfeed": a  *)
(* tuple is passed on if its version is later than any seen for its pair,  *)
(* as a "put" command, after a "delete" command if there was an earlier    *)
(* version. What was seen is a count-min sketch in memory.                 *)
(***************************************************************************)
EXTENDS CountMinSketch

VARIABLES
    feed,          \* the stream "feed", persisted by the broker
    seen,          \* how many of its messages the callback has had
    hexaCMS,       \* the count-min sketch of the versions of each pair
    cmsFile,       \* hexastore.cms
    todo,          \* the commands the callback has yet to publish
    filter,        \* "on", or "off" once an error has ended the goroutine
    filteredfeed,  \* the stream "filteredfeed", persisted by the broker
    current        \* the object stored under each SP key of the hexastore

(* A block is published on the feed by a web handler or by a stream reader. *)
Arrive(t) ==
    /\ feed' = Append(feed, t)
    /\ UNCHANGED <<seen, hexaCMS, cmsFile, todo, filter, filteredfeed>>

Copies(t) == Cardinality({i \in DOMAIN feed : feed[i] = t})

lastVer(t) == Estimate(hexaCMS, t.sp)

(* Mutant: the version is not compared. *)
CommitsMutant(t) == TRUE

(* For equal versions the stored object is looked up, although the commands *)
(* published before may not have been executed yet: the greater one wins.   *)
Commits(t) ==
    \/ lastVer(t) < t.ver
    \/ /\ lastVer(t) = t.ver
       /\ current[t.sp] # None => t.obj > current[t.sp]

(* Mutant: the offsets of the two commands are swapped. *)
CommandsForMutant(t, i) ==
    LET delete == [verb |-> "delete", sp |-> t.sp, obj |-> t.obj, seq |-> 2 * i + 1]
        put    == [verb |-> "put", sp |-> t.sp, obj |-> t.obj, seq |-> 2 * i]
    IN IF lastVer(t) > 0 THEN <<delete, put>> ELSE <<put>>

(* Mutant: the delete carries no object. *)
CommandsForBareMutant(t, i) ==
    LET delete == [verb |-> "delete", sp |-> t.sp, seq |-> 2 * i]
        put    == [verb |-> "put", sp |-> t.sp, obj |-> t.obj, seq |-> 2 * i + 1]
    IN IF lastVer(t) > 0 THEN <<delete, put>> ELSE <<put>>

(* Mutant: the first update of a tuple has no delete. *)
CommandsForLateMutant(t, i) ==
    LET delete == [verb |-> "delete", sp |-> t.sp, obj |-> t.obj, seq |-> 2 * i]
        put    == [verb |-> "put", sp |-> t.sp, obj |-> t.obj, seq |-> 2 * i + 1]
    IN IF lastVer(t) > 1 THEN <<delete, put>> ELSE <<put>>

(* The commands for message number i: its Sequence is doubled, so that the  *)
(* delete comes before the put.                                            *)
CommandsFor(t, i) ==
    LET delete == [verb |-> "delete", sp |-> t.sp, obj |-> t.obj, seq |-> 2 * i]
        put    == [verb |-> "put", sp |-> t.sp, obj |-> t.obj, seq |-> 2 * i + 1]
    IN IF lastVer(t) > 0 THEN <<delete, put>> ELSE <<put>>

Current == feed[seen]

CanTake == filter = "on" /\ todo = <<>> /\ seen < Len(feed)

Decide ==
    /\ CanTake /\ Commits(feed[seen + 1])
    /\ seen' = seen + 1
    /\ todo' = CommandsFor(feed[seen + 1], seen + 1)
    /\ UNCHANGED <<feed, hexaCMS, cmsFile, filter, filteredfeed>>

PassOver ==
    /\ CanTake /\ ~Commits(feed[seen + 1])
    /\ seen' = seen + 1
    /\ UNCHANGED <<feed, hexaCMS, cmsFile, todo, filter, filteredfeed>>

(* Mutant: a "frequency increment" of one. *)
CountedMutant == Updated(hexaCMS, Current.sp, 1)

Counted == Updated(hexaCMS, Current.sp, Current.ver - lastVer(Current))

Publish ==
    /\ filter = "on" /\ todo # <<>>
    /\ filteredfeed' = Append(filteredfeed, Head(todo))
    /\ todo' = Tail(todo)
    /\ hexaCMS' = IF Tail(todo) = <<>> THEN Counted ELSE hexaCMS
    /\ UNCHANGED <<feed, seen, cmsFile, filter>>

(* The error ends the subscription and saves the sketch. The callback goes  *)
(* on to Update meanwhile: the file may or may not have it.                *)
PublishFails ==
    /\ filter = "on" /\ todo # <<>>
    /\ filter' = "off"
    /\ todo' = <<>>
    /\ hexaCMS' = Counted
    /\ cmsFile' \in {hexaCMS, Counted}
    /\ UNCHANGED <<feed, seen, filteredfeed>>

(* The process ends, in a crash or on a signal, and starts again: only the  *)
(* error path above ever saves the sketch. The subscription is not durable. *)
Restart ==
    /\ seen' = 0
    /\ todo' = <<>>
    /\ hexaCMS' = cmsFile
    /\ filter' = "on"
    /\ UNCHANGED <<feed, cmsFile, filteredfeed>>

Init ==
    /\ feed = <<>> /\ filteredfeed = <<>>
    /\ seen = 0 /\ todo = <<>> /\ filter = "on"
    /\ hexaCMS = NewSketch /\ cmsFile = NewSketch

Callback == Decide \/ PassOver \/ Publish

Next == (\E t \in Tuple : Arrive(t)) \/ Callback \/ PublishFails

(* Every message the feed holds has been dealt with. *)
Idle == filter = "on" /\ todo = <<>> /\ seen = Len(feed)

TypeOK ==
    /\ feed \in Seq(Tuple) /\ seen \in 0..Len(feed)
    /\ hexaCMS \in Sketch /\ cmsFile \in Sketch
    /\ filteredfeed \in Seq(Command) /\ todo \in Seq(Command)
    /\ todo # <<>> => seen > 0
    /\ filter \in {"on", "off"}

=============================================================================
