----------------------------- MODULE WriteModel -----------------------------
(***************************************************************************)
(* The write side of a node: FilterFeed and the hexastore in one process.  *)
(* They share the persisted stream "filteredfeed", and the filter reads    *)
(* the database that the hexastore writes.                                 *)
(***************************************************************************)
EXTENDS CountMinSketch

(* Bounds. A behaviour is given one of the Trials: the tuples of the blocks *)
(* that reach the feed, how often each of them arrives, how often the node  *)
(* stops and starts, how many publications and transactions fail.          *)
CONSTANT Trials

ASSUME TrialsAssumption == Trials \subseteq
    [tuples : SUBSET Tuple, copies : Nat, restarts : Nat, faults : Nat]

VARIABLES
    feed, seen, hexaCMS, cmsFile, todo, filter,   \* of the filter
    filteredfeed,
    taken, commands, db,                          \* of the hexastore
    trial,                                        \* never changes
    restarts, faults,
    dropped                                       \* history: a batch was lost

filterVars == <<feed, seen, hexaCMS, cmsFile, todo, filter>>
hexaVars   == <<taken, commands, db>>
vars       == <<filterVars, filteredfeed, hexaVars, trial, restarts, faults, dropped>>

Hexa   == INSTANCE Hexastore
Filter == INSTANCE FilterFeed WITH current <- Hexa!current

Init ==
    /\ Filter!Init /\ Hexa!Init
    /\ trial \in Trials /\ restarts = 0 /\ faults = 0 /\ dropped = FALSE

Filtering(A) == A /\ UNCHANGED <<hexaVars, trial, restarts, faults, dropped>>
Storing(A)   == A /\ UNCHANGED <<filterVars, trial, restarts, faults, dropped>>

Arrive(t) == Filter!Copies(t) < trial.copies /\ Filtering(Filter!Arrive(t))

PublishFails ==
    /\ faults < trial.faults
    /\ faults' = faults + 1
    /\ Filter!PublishFails
    /\ UNCHANGED <<hexaVars, trial, restarts, dropped>>

update_fails ==
    /\ faults < trial.faults
    /\ faults' = faults + 1
    /\ dropped' = TRUE
    /\ Hexa!update_fails
    /\ UNCHANGED <<filterVars, trial, restarts>>

Restart ==
    /\ restarts < trial.restarts
    /\ restarts' = restarts + 1
    /\ Filter!Restart /\ Hexa!Restart
    /\ UNCHANGED <<trial, faults, dropped>>

Drained == Filter!Idle /\ Hexa!Idle

(* Nothing is left to do, or nobody is left to do it. *)
Stopped == (Filter!Idle \/ filter = "off") /\ Hexa!Idle /\ UNCHANGED vars

Next ==
    \/ \E t \in trial.tuples : Arrive(t)
    \/ Filtering(Filter!Decide)
    \/ Filtering(Filter!PassOver)
    \/ Filtering(Filter!Publish)
    \/ PublishFails
    \/ Storing(Hexa!Deliver)
    \/ Storing(Hexa!update_batch)
    \/ update_fails
    \/ Restart
    \/ Stopped

Spec == Init /\ [][Next]_vars

(* The callbacks and the goroutine that sends the batches keep running. *)
FairSpec ==
    /\ Spec
    /\ WF_vars(Filtering(Filter!Callback))
    /\ WF_vars(Storing(Hexa!Deliver))
    /\ WF_vars(Storing(Hexa!update_batch))

-----------------------------------------------------------------------------
(* Properties *)

TypeOK ==
    /\ Filter!TypeOK /\ Hexa!TypeOK
    /\ trial \in Trials /\ {restarts, faults} \subseteq Nat /\ dropped \in BOOLEAN

(* The database has been given every command, once. *)
Whole == restarts = 0 /\ ~dropped

(* "any SP can only have a single O value in the database" (hexastore.go:   *)
(* 175): a tuple is stored under all six permutations of its key or under   *)
(* none, and it is stored exactly when the SP key holds its object. A query *)
(* by any prefix thus finds one object for a pair, and finds it by each.    *)
OneObject == \A sp \in SPs, o \in Objects, perm \in Hexa!Perms :
    Hexa!Key(perm, sp, o) \in DOMAIN db <=> Hexa!current[sp] = o

IndexConsistent == Whole => OneObject

(* Nothing disappears from the database without a trace: an object that a   *)
(* batch removes has its tombstone, and tombstones stay.                   *)
TombstonesStay == [][\A sp \in SPs, o \in Objects :
    \/ Hexa!TombKey(sp, o) \in DOMAIN db
    \/ Hexa!Key("SPO", sp, o) \in DOMAIN db /\ Hexa!Key("SPO", sp, o) \notin DOMAIN db'
    => Hexa!TombKey(sp, o) \in DOMAIN db']_vars

(* The versions of a pair that have reached the feed, and the tuple that    *)
(* should be left of them: the latest version, the greatest object of it.   *)
Posted(sp) == {t \in {feed[i] : i \in DOMAIN feed} : t.sp = sp}
Winner(sp) == CHOOSE t \in Posted(sp) : \A u \in Posted(sp) :
    u.ver < t.ver \/ (u.ver = t.ver /\ u.obj <= t.obj)

(* When all is done the database shows the latest version of every pair,    *)
(* in whatever order, and however often, the blocks came.                  *)
LatestWins == Drained /\ ~dropped => \A sp \in SPs :
    Posted(sp) # {} => Hexa!current[sp] = Winner(sp).obj

(* "timestamp := m.Sequence * 2" (filterfeed.go:114): the commands of a pair  *)
(* are published in the order of their Sequence and in the order of the    *)
(* versions they stem from, whichever pairs collide in the sketch.         *)
VersionAt(i) == feed[filteredfeed[i].seq \div 2].ver
PassedInOrder == restarts = 0 => \A i, j \in DOMAIN filteredfeed :
    i < j /\ filteredfeed[i].sp = filteredfeed[j].sp =>
        filteredfeed[i].seq < filteredfeed[j].seq /\ VersionAt(i) <= VersionAt(j)

(* "we will multiply seq number by two, to interleave deletes and puts"     *)
(* (filterfeed.go:113): the stores take for granted that no two commands    *)
(* share a number and that no put replaces an object without a delete,      *)
(* though blocks are received twice and publications fail in between.      *)
StreamReplaces == restarts = 0 => Numbered(filteredfeed) /\ Replacing(filteredfeed)

(* Batching cannot be told from executing the commands one by one, until a  *)
(* batch is lost or a restart has the commands read again.                 *)
Log == INSTANCE CommandLog WITH
           log <- filteredfeed, done <- taken - Len(commands), view <- Hexa!current,
           stale <- ~Whole
ImplementsLog == Log!Spec

(* The database comes to show the latest version of each pair, and stays so. *)
SettlesOnLatest == <>[](filter = "off" \/ dropped \/ \A sp \in SPs :
    Posted(sp) # {} => Hexa!current[sp] = Winner(sp).obj)

=============================================================================
