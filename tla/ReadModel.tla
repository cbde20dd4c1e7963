----------------------------- MODULE ReadModel -----------------------------
(***************************************************************************)
(* A read model fed by the conflict resolver: the influx or the mongo      *)
(* store, behind the same subscription and the same batches as the write   *)
(* model. filter_batch chooses the commands of a batch that count, and the *)
(* store, a process of its own, executes them in their order.              *)
(***************************************************************************)
EXTENDS CountMinSketch

CONSTANTS
    Store,         \* "influx" or "mongo"
    Subject,       \* the subject of each pair: in mongo, its document
    Tuples,        \* the tuples of the blocks that reach the feed
    MaxCopies,     \* bound: how often each tuple arrives
    MaxRestarts,   \* bound: crashes and shutdowns of the node
    MaxFaults      \* bound: publications of the filter and calls to mongo that fail

ASSUME StoreAssumption ==
    /\ Store \in {"influx", "mongo"}
    /\ Subject \in [SPs -> Nat]
    /\ \A x, y \in SPs : x <= y => Subject[x] <= Subject[y]
    /\ Tuples \subseteq Tuple
    /\ {MaxCopies, MaxRestarts, MaxFaults} \subseteq Nat

VARIABLES
    feed, seen, hexaCMS, cmsFile, todo, filter,   \* of the filter
    filteredfeed,
    taken,         \* how many of its messages the callback has had
    commands,      \* the slice the callback appends to
    stored,        \* the object the store has for each pair, or None
    restarts, faults,
    damaged        \* history: a call has failed since the node started

filterVars == <<feed, seen, hexaCMS, cmsFile, todo, filter>>
storeVars  == <<taken, commands, stored, damaged>>
bounded    == <<restarts, faults>>
vars       == <<filterVars, filteredfeed, storeVars, bounded>>

Filter == INSTANCE FilterFeed WITH current <- [sp \in SPs |-> None]

(* For equal versions the filter asks the hexastore, whose state is not a   *)
(* part of this module: it may have executed what was put or not. If        *)
(* nothing is stored the tuple is passed on, as Filter has it; if an object *)
(* is that is not smaller, it is passed over.                              *)
PassOverTie ==
    /\ Filter!CanTake
    /\ Filter!lastVer(feed[seen + 1]) = feed[seen + 1].ver
    /\ \E c \in Batch(filteredfeed) :
          c.verb = "put" /\ c.sp = feed[seen + 1].sp /\ c.obj >= feed[seen + 1].obj
    /\ seen' = seen + 1
    /\ UNCHANGED <<feed, hexaCMS, cmsFile, todo, filter, filteredfeed>>

-----------------------------------------------------------------------------
(* filter_batch *)

Issued(B) == {sp \in Pairs(B) : Deletes(B, sp)}

(* Mutant: the delete is enforced only if the group ends with a delete. *)
UndoneMutant(B, sp) == IF Last(B, sp).verb = "delete" THEN Tmp(Issued(B), sp) ELSE {}

(* The pair whose delete goes out at the end of the group of sp. *)
Undone(B, sp) ==
    IF Last(B, sp).verb = "delete" \/ sp \in Issued(B) THEN Tmp(Issued(B), sp) ELSE {}

(* mongo.go takes every put after a delete for one that undoes it. *)
Passes(B, sp) ==
    /\ Last(B, sp).verb = "put"
    /\ Store = "mongo" => sp \notin Issued(B)

(* What the commands leave for sp. They go out group by group, the delete   *)
(* of a group before its put, and a delete that tmp kept for a later group  *)
(* after both.                                                             *)
Effect(B, sp) ==
    LET later == {y \in Pairs(B) \ {sp} : sp \in Undone(B, y)}
    IN IF later # {} THEN None
       ELSE IF sp \notin Pairs(B) THEN stored[sp]
       ELSE IF Passes(B, sp) THEN Last(B, sp).obj
       ELSE IF sp \in Undone(B, sp) THEN None ELSE stored[sp]

-----------------------------------------------------------------------------
Deliver ==
    /\ taken < Len(filteredfeed)
    /\ commands' = Append(commands, filteredfeed[taken + 1])
    /\ taken' = taken + 1
    /\ UNCHANGED <<filteredfeed, stored, damaged>>

update_batch ==
    /\ commands # <<>>
    /\ stored' = [sp \in SPs |-> Effect(Batch(commands), sp)]
    /\ commands' = <<>>
    /\ UNCHANGED <<filteredfeed, taken, damaged>>

(* update_object takes a document out of mongo and puts the changed one in. *)
(* If a call fails the document stays as it was or is gone, the rest of the *)
(* batch is dropped, and update_batch returns nil. (With three documents a  *)
(* delete that tmp kept could fall into the part that is dropped; instances *)
(* of this module with failing calls have two.)                            *)
update_fails ==
    /\ Store = "mongo" /\ commands # <<>> /\ faults < MaxFaults
    /\ faults' = faults + 1
    /\ damaged' = TRUE
    /\ \E at \in Pairs(Batch(commands)) : \E left \in {None, stored[at]} :
          stored' = [sp \in SPs |->
              IF Subject[sp] < Subject[at] THEN Effect(Batch(commands), sp)
              ELSE IF Subject[sp] = Subject[at] /\ left = None THEN None
              ELSE stored[sp]]
    /\ commands' = <<>>
    /\ UNCHANGED <<filterVars, filteredfeed, taken, restarts>>

Filtering(A) == A /\ UNCHANGED <<storeVars, bounded>>
Storing(A)   == A /\ UNCHANGED <<filterVars, bounded>>

PublishFails ==
    /\ faults < MaxFaults
    /\ faults' = faults + 1
    /\ Filter!PublishFails
    /\ UNCHANGED <<storeVars, restarts>>

(* The store lives on. The subscription starts from the first message, and  *)
(* the filter with the sketch of the last publication that failed, if any. *)
Restart ==
    /\ restarts < MaxRestarts
    /\ restarts' = restarts + 1
    /\ Filter!Restart
    /\ taken' = 0 /\ commands' = <<>> /\ damaged' = FALSE
    /\ UNCHANGED <<stored, faults>>

Init ==
    /\ Filter!Init
    /\ taken = 0 /\ commands = <<>> /\ stored = [sp \in SPs |-> None]
    /\ restarts = 0 /\ faults = 0 /\ damaged = FALSE

Idle    == taken = Len(filteredfeed) /\ commands = <<>>
Drained == Filter!Idle /\ Idle

(* Nothing is left to do, or the filter is not left to do it. *)
Stopped == (Filter!Idle \/ filter = "off") /\ Idle /\ UNCHANGED vars

Next ==
    \/ \E t \in Tuples : Filter!Copies(t) < MaxCopies /\ Filtering(Filter!Arrive(t))
    \/ Filtering(Filter!Decide)
    \/ Filtering(Filter!PassOver)
    \/ Filtering(PassOverTie)
    \/ Filtering(Filter!Publish)
    \/ PublishFails
    \/ Storing(Deliver)
    \/ Storing(update_batch)
    \/ update_fails
    \/ Restart
    \/ Stopped

Spec == Init /\ [][Next]_vars

-----------------------------------------------------------------------------
(* Properties *)

TypeOK ==
    /\ Filter!TypeOK
    /\ taken \in 0..Len(filteredfeed) /\ commands \in Seq(Command)
    /\ stored \in [SPs -> Objects \cup {None}]
    /\ {restarts, faults} \subseteq Nat /\ damaged \in BOOLEAN

Posted(sp) == {feed[i] : i \in {j \in DOMAIN feed : feed[j].sp = sp}}
Latest(sp) == CHOOSE t \in Posted(sp) : \A u \in Posted(sp) : u.ver <= t.ver

(* "If the last command is a put ... pass it through" (influx.go:43,        *)
(* mongo.go:55): when all is done the store has the latest version of every *)
(* pair, wherever the batches were cut and however often the node stopped.  *)
LatestWins == Drained => \A sp \in SPs :
    Posted(sp) # {} => stored[sp] = Latest(sp).obj

(* When all is done the store shows another object than the latest.        *)
OutOfDate(sp) ==
    stored[sp] # None /\ (Posted(sp) # {} => stored[sp] # Latest(sp).obj)

(* A publication failed, and the sketch that was saved counts the latest    *)
(* version of the pair, whose put is not the last command published on it: *)
(* every start passes the version over.                                    *)
Swallowed(sp) ==
    /\ 0 < Estimate(cmsFile, sp) /\ Latest(sp).ver <= Estimate(cmsFile, sp)
    /\ ~ \E j \in DOMAIN filteredfeed :
          /\ filteredfeed[j].verb = "put" /\ feed[filteredfeed[j].seq \div 2] = Latest(sp)
          /\ \A k \in (j + 1)..Len(filteredfeed) : filteredfeed[k].sp # sp

(* Where LatestWins fails the value is missing, never out of date, although *)
(* deletes carry no version and are replayed, unless the latest version was *)
(* swallowed by an error: that of another pair leaves it what it is. After  *)
(* a failed call, which may drop a delete, the replay of the next start    *)
(* makes up for it.                                                        *)
NeverStale == Drained /\ ~damaged =>
    \A sp \in SPs : OutOfDate(sp) => Swallowed(sp)

(* The same without exception.                                             *)
NothingOutOfDate == Drained /\ ~damaged => \A sp \in SPs : ~OutOfDate(sp)

=============================================================================
