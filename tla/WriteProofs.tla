----------------------------- MODULE WriteProofs -----------------------------
(***************************************************************************)
(* Proofs about the write model, for all pairs, objects, hash functions    *)
(* and trials: the types; nothing disappears without a tombstone; the      *)
(* order of the commands on "filteredfeed"; what the hexastore shows, under *)
(* every permutation of the key; and in the end the latest version.        *)
(***************************************************************************)
EXTENDS WriteModel, CountMinSketchProofs, SequenceTheorems, FiniteSetTheorems

USE PairAssumption

(* The instances of Filter and Hexa have the operators of their own.       *)
LEMMA SameOperators ==
    /\ Filter!Tuple = Tuple /\ Filter!Command = Command /\ Hexa!Command = Command
    /\ Filter!Sketch = Sketch /\ Filter!NewSketch = NewSketch
    /\ \A cms, key : Filter!Estimate(cms, key) = Estimate(cms, key)
    /\ \A cms, key, count : Filter!Updated(cms, key, count) = Updated(cms, key, count)
<1>1. Filter!Tuple = Tuple /\ Filter!Command = Command /\ Hexa!Command = Command
  BY DEF Filter!Tuple, Tuple, Filter!Command, Command, Hexa!Command
<1>2. Filter!Rows = Rows /\ Filter!Cells = Cells
  BY DEF Filter!Rows, Rows, Filter!Cells, Cells
<1>3. Filter!Sketch = Sketch /\ Filter!NewSketch = NewSketch
  BY <1>2 DEF Filter!Sketch, Sketch, Filter!NewSketch, NewSketch
<1>4. \A cms, key : Filter!Counters(cms, key) = Counters(cms, key)
  BY <1>2 DEF Filter!Counters, Counters
<1>5. \A cms, key : Filter!Estimate(cms, key) = Estimate(cms, key)
  BY <1>4 DEF Filter!Estimate, Estimate
<1>6. \A cms, key, count : Filter!Updated(cms, key, count) = Updated(cms, key, count)
  BY <1>2 DEF Filter!Updated, Updated
<1> QED
  BY <1>1, <1>3, <1>5, <1>6

(* So has the instance of Hexastore whose lemmas are used here.            *)
Hx == INSTANCE HexastoreProofs

LEMMA SameHexa ==
    /\ Hx!Command = Command /\ Hx!Perms = Hexa!Perms /\ Hx!AllKeys = Hexa!AllKeys
    /\ \A x : Hx!SPKey(x) = Hexa!SPKey(x)
    /\ \A p, x, o : Hx!Key(p, x, o) = Hexa!Key(p, x, o)
    /\ \A x, o : Hx!TombKey(x, o) = Hexa!TombKey(x, o)
    /\ Hx!current = Hexa!current
    /\ Hx!Init <=> Hexa!Init
    /\ Hx!Deliver <=> Hexa!Deliver
    /\ Hx!update_batch <=> Hexa!update_batch
    /\ \A s : (Hx!Numbered(s) <=> Numbered(s)) /\ (Hx!Replacing(s) <=> Replacing(s))
<1>1. Hx!Command = Command /\ Hx!Perms = Hexa!Perms
  BY DEF Hx!Command, Command, Hx!Perms, Hexa!Perms
<1>2. /\ \A x : Hx!SPKey(x) = Hexa!SPKey(x)
      /\ \A p, x, o : Hx!Key(p, x, o) = Hexa!Key(p, x, o)
      /\ \A x, o : Hx!TombKey(x, o) = Hexa!TombKey(x, o)
  BY DEF Hx!SPKey, Hexa!SPKey, Hx!Key, Hexa!Key, Hx!TombKey, Hexa!TombKey
<1>3. \A x, o : Hx!Keys(x, o) = Hexa!Keys(x, o)
  BY <1>1, <1>2 DEF Hx!Keys, Hexa!Keys
<1>4. Hx!AllKeys = Hexa!AllKeys
  BY <1>2, <1>3 DEF Hx!AllKeys, Hexa!AllKeys
<1>5. Hx!current = Hexa!current
  BY <1>2 DEF Hx!current, Hexa!current
<1>6. /\ \A s : Hx!Batch(s) = Hexa!Batch(s)
      /\ \A B : Hx!Pairs(B) = Hexa!Pairs(B)
      /\ \A B, x : Hx!Group(B, x) = Hexa!Group(B, x)
      /\ \A S, x : Hx!Tmp(S, x) = Hexa!Tmp(S, x)
  BY DEF Hx!Batch, Hexa!Batch, Hx!Pairs, Hexa!Pairs, Hx!Group, Hexa!Group, Hx!Tmp, Hexa!Tmp
<1>7. \A B, x : Hx!First(B, x) = Hexa!First(B, x) /\ Hx!Last(B, x) = Hexa!Last(B, x)
  BY <1>6 DEF Hx!First, Hexa!First, Hx!Last, Hexa!Last
<1>8. \A B : Hx!Issued(B) = Hexa!Issued(B)
  BY <1>2, <1>6, <1>7 DEF Hx!Issued, Hexa!Issued, Hx!Deletes, Hexa!Deletes
<1>9. \A B, x : Hx!Unstore(B, x) = Hexa!Unstore(B, x)
  <2>1. \A x, o, seq : Hx!cmdUnstore(x, o, seq) = Hexa!cmdUnstore(x, o, seq)
    BY <1>3 DEF Hx!cmdUnstore, Hexa!cmdUnstore, Hx!HxCommand, Hexa!HxCommand
  <2>2. \A x, o, seq : Hx!cmdStoreSingleKey(x, o, seq) = Hexa!cmdStoreSingleKey(x, o, seq)
    BY <1>2 DEF Hx!cmdStoreSingleKey, Hexa!cmdStoreSingleKey, Hx!HxCommand, Hexa!HxCommand
  <2> QED
    BY <1>2, <1>7, <2>1, <2>2 DEF Hx!Unstore, Hexa!Unstore
<1>10. \A B, x : Hx!Restores(B, x) <=> Hexa!Restores(B, x)
  BY <1>2, <1>7, <1>8 DEF Hx!Restores, Hexa!Restores
<1>11. \A B, x : Hx!Enforced(B, x) = Hexa!Enforced(B, x)
  BY <1>6, <1>7, <1>8, <1>9, <1>10 DEF Hx!Enforced, Hexa!Enforced
<1>12. \A B, x : Hx!Stored(B, x) = Hexa!Stored(B, x)
  <2>1. \A c : Hx!cmdStore(c) = Hexa!cmdStore(c)
    BY <1>3 DEF Hx!cmdStore, Hexa!cmdStore, Hx!HxCommand, Hexa!HxCommand
  <2> QED
    BY <1>7, <1>10, <2>1 DEF Hx!Stored, Hexa!Stored
<1>13. \A B : Hx!Out(B) = Hexa!Out(B)
  BY <1>6, <1>11, <1>12 DEF Hx!Out, Hexa!Out
<1>14. \A out : Hx!Executed(out) = Hexa!Executed(out)
  BY DEF Hx!Executed, Hexa!Executed
<1>15. Hx!update_batch <=> Hexa!update_batch
  BY <1>6, <1>13, <1>14 DEF Hx!update_batch, Hexa!update_batch
<1>16. (Hx!Init <=> Hexa!Init) /\ (Hx!Deliver <=> Hexa!Deliver)
  BY DEF Hx!Init, Hexa!Init, Hx!Deliver, Hexa!Deliver
<1>17. \A s : (Hx!Numbered(s) <=> Numbered(s)) /\ (Hx!Replacing(s) <=> Replacing(s))
  BY DEF Hx!Numbered, Numbered, Hx!Replacing, Replacing
<1> QED
  BY <1>1, <1>2, <1>4, <1>5, <1>15, <1>16, <1>17

Current == feed[seen]

Seqs(s, bound) == \A i \in DOMAIN s : s[i].seq <= bound

(* While commands wait to be published their tuple is not yet counted, and  *)
(* the sketch gives it no later version. Sequence numbers have a bound: so  *)
(* each group has a last command.                                          *)
TypeInv ==
    /\ TypeOK
    /\ todo # <<>> => Estimate(hexaCMS, Current.sp) <= Current.ver
    /\ Seqs(filteredfeed, 2 * Len(feed) + 1)
    /\ Seqs(todo, 2 * Len(feed) + 1)
    /\ Seqs(commands, 2 * Len(feed) + 1)

FilterTypes ==
    /\ feed \in Seq(Tuple) /\ seen \in 0..Len(feed)
    /\ hexaCMS \in Sketch /\ cmsFile \in Sketch
    /\ filteredfeed \in Seq(Command) /\ todo \in Seq(Command)
    /\ todo # <<>> => seen > 0
    /\ filter \in {"on", "off"}

OtherTypes ==
    /\ taken \in 0..Len(filteredfeed) /\ commands \in Seq(Command)
    /\ trial \in Trials /\ restarts \in Nat /\ faults \in Nat
    /\ dropped \in BOOLEAN

LEMMA TypeParts == TypeOK <=> FilterTypes /\ Hx!DbTypes /\ OtherTypes
<1>1. Filter!TypeOK <=> FilterTypes
  BY SameOperators DEF Filter!TypeOK, FilterTypes
<1>2. Hexa!TypeOK <=> /\ taken \in 0..Len(filteredfeed) /\ commands \in Seq(Command)
                      /\ Hx!DbTypes
  BY SameOperators, SameHexa DEF Hexa!TypeOK, Hx!DbTypes
<1> QED
  BY <1>1, <1>2 DEF TypeOK, OtherTypes

LEMMA TypePartsNext == TypeOK' <=> FilterTypes' /\ Hx!DbTypes' /\ OtherTypes'
BY TypeParts, PTL

(* The tuple to count, and the sketch that results. *)
LEMMA CurrentIsTuple ==
    ASSUME TypeInv, todo # <<>>
    PROVE  /\ Current \in Tuple /\ seen \in 1..Len(feed)
           /\ Estimate(hexaCMS, Current.sp) \in Nat
           /\ Current.ver - Estimate(hexaCMS, Current.sp) \in Nat
<1>1. feed \in Seq(Tuple) /\ seen \in 1..Len(feed) /\ hexaCMS \in Sketch
  BY TypeParts DEF TypeInv, FilterTypes
<1>2. Current \in Tuple
  BY <1>1, ElementOfSeq DEF Current
<1>3. Current.sp \in SPs /\ Current.ver \in Nat
  BY <1>2 DEF Tuple
<1>4. Estimate(hexaCMS, Current.sp) \in Nat
  BY <1>1, <1>3, EstimateIsLeast
<1> QED
  BY <1>1, <1>2, <1>3, <1>4 DEF TypeInv

LEMMA CountedIs ==
    ASSUME TypeInv, todo # <<>>
    PROVE  /\ Filter!Counted = Updated(hexaCMS, Current.sp,
                                       Current.ver - Estimate(hexaCMS, Current.sp))
           /\ Filter!Counted \in Sketch
           /\ Estimate(Filter!Counted, Current.sp) = Current.ver
           /\ \A k \in SPs : Estimate(hexaCMS, k) <= Estimate(Filter!Counted, k)
<1>1. Filter!Counted = Updated(hexaCMS, Current.sp,
                               Current.ver - Estimate(hexaCMS, Current.sp))
  BY SameOperators DEF Filter!Counted, Filter!lastVer, Filter!Current, Current
<1>2. hexaCMS \in Sketch /\ Current.sp \in SPs /\ Current.ver \in Nat
  BY CurrentIsTuple, TypeParts DEF TypeInv, FilterTypes, Tuple
<1>3. Current.ver - Estimate(hexaCMS, Current.sp) \in Nat
      /\ Estimate(hexaCMS, Current.sp) \in Nat
  BY CurrentIsTuple
<1> DEFINE key == Current.sp
           count == Current.ver - Estimate(hexaCMS, Current.sp)
<1>4. key \in SPs /\ count \in Nat /\ Estimate(hexaCMS, key) + count = Current.ver
  BY <1>2, <1>3
<1>5. Filter!Counted = Updated(hexaCMS, key, count)
  BY <1>1
<1> HIDE DEF key, count
<1>6. /\ Updated(hexaCMS, key, count) \in Sketch
      /\ Estimate(Updated(hexaCMS, key, count), key) = Estimate(hexaCMS, key) + count
      /\ \A k \in SPs : Estimate(hexaCMS, k) <= Estimate(Updated(hexaCMS, key, count), k)
  BY <1>2, <1>4, UpdatedType, NeverUnderestimates
<1> QED
  BY <1>1, <1>4, <1>5, <1>6 DEF key

-----------------------------------------------------------------------------
(* Types *)

LEMMA InitType == Init => TypeInv
<1> SUFFICES ASSUME Init PROVE TypeInv
  OBVIOUS
<1>1. /\ feed = <<>> /\ filteredfeed = <<>> /\ seen = 0 /\ todo = <<>>
      /\ filter = "on" /\ hexaCMS = NewSketch /\ cmsFile = NewSketch
  BY SameOperators DEF Init, Filter!Init
<1>2. taken = 0 /\ commands = <<>> /\ db = <<>>
  BY DEF Init, Hexa!Init
<1>3. trial \in Trials /\ restarts = 0 /\ faults = 0 /\ dropped = FALSE
  BY DEF Init
<1>4. FilterTypes
  BY <1>1, NewSketchType, EmptySeq DEF FilterTypes
<1>5. Hx!DbTypes
  BY <1>2 DEF Hx!DbTypes
<1>6. OtherTypes
  <2>1. taken \in 0..Len(filteredfeed) /\ commands \in Seq(Command)
    BY <1>1, <1>2, EmptySeq
  <2>2. dropped \in BOOLEAN
    BY <1>3
  <2> QED
    BY <1>3, <2>1, <2>2 DEF OtherTypes
<1>7. TypeOK
  BY <1>4, <1>5, <1>6, TypeParts
<1>8. \A bound : Seqs(<<>>, bound)
  BY DEF Seqs
<1> QED
  BY <1>1, <1>2, <1>7, <1>8 DEF TypeInv

LEMMA MoreSeqs ==
    ASSUME NEW s \in Seq(Command), NEW c \in Command, NEW bound \in Nat, NEW more \in Nat,
           bound <= more, Seqs(s, bound), c.seq <= more
    PROVE  Seqs(s, more) /\ Seqs(Append(s, c), more) /\ Append(s, c) \in Seq(Command)
<1>1. \A i \in DOMAIN s : s[i] \in Command
  BY ElementOfSeq
<1>2. \A i \in DOMAIN s : s[i].seq \in Nat /\ s[i].seq <= bound
  BY <1>1 DEF Seqs, Command
<1>3. \A i \in DOMAIN s : s[i].seq <= more
  BY <1>2
<1>4. /\ Append(s, c) \in Seq(Command)
      /\ Len(Append(s, c)) = Len(s) + 1
      /\ \A i \in 1..Len(s) : Append(s, c)[i] = s[i]
      /\ Append(s, c)[Len(s) + 1] = c
  BY AppendProperties
<1>5. DOMAIN Append(s, c) = 1..(Len(s) + 1) /\ DOMAIN s = 1..Len(s) /\ Len(s) \in Nat
  BY <1>4, LenProperties
<1>6. \A i \in DOMAIN Append(s, c) : i \in DOMAIN s \/ i = Len(s) + 1
  BY <1>5
<1>7. Seqs(Append(s, c), more)
  BY <1>3, <1>4, <1>5, <1>6 DEF Seqs
<1> QED
  BY <1>3, <1>4, <1>7 DEF Seqs

LEMMA LongerFeed ==
    ASSUME NEW s, NEW n \in Nat, NEW m \in Nat, n <= m, s \in Seq(Command),
           Seqs(s, 2 * n + 1)
    PROVE  Seqs(s, 2 * m + 1)
<1>1. \A i \in DOMAIN s : s[i] \in Command
  BY ElementOfSeq
<1>2. \A i \in DOMAIN s : s[i].seq \in Nat
  BY <1>1 DEF Command
<1> QED
  BY <1>2 DEF Seqs

LEMMA ArriveType == ASSUME TypeInv, NEW t \in trial.tuples, Arrive(t) PROVE TypeInv'
<1>1. FilterTypes /\ Hx!DbTypes /\ OtherTypes
  BY TypeParts DEF TypeInv
<1>2. feed' = Append(feed, t)
      /\ UNCHANGED <<seen, hexaCMS, cmsFile, todo, filter, filteredfeed>>
      /\ UNCHANGED <<hexaVars, trial, restarts, faults, dropped>>
  BY DEF Arrive, Filtering, Filter!Arrive
<1>3. t \in Tuple
  BY <1>1, TrialsAssumption DEF OtherTypes
<1>4. /\ feed' \in Seq(Tuple) /\ Len(feed') = Len(feed) + 1 /\ Len(feed) \in Nat
      /\ \A i \in 1..Len(feed) : feed'[i] = feed[i]
  BY <1>1, <1>2, <1>3, AppendProperties, LenProperties DEF FilterTypes
<1>5. FilterTypes'
  BY <1>1, <1>2, <1>4 DEF FilterTypes
<1>6. Hx!DbTypes' /\ OtherTypes'
  BY <1>1, <1>2 DEF Hx!DbTypes, OtherTypes, hexaVars
<1>7. todo # <<>> => Current' = Current
  BY <1>1, <1>2, <1>4 DEF Current, FilterTypes
<1>8. /\ Seqs(filteredfeed', 2 * Len(feed') + 1) /\ Seqs(todo', 2 * Len(feed') + 1)
      /\ Seqs(commands', 2 * Len(feed') + 1)
  <2>1. Len(feed) <= Len(feed') /\ Len(feed') \in Nat
    BY <1>4
  <2>2. filteredfeed' = filteredfeed /\ todo' = todo /\ commands' = commands
    BY <1>2 DEF hexaVars
  <2> QED
    BY <1>1, <1>4, <2>1, <2>2, LongerFeed DEF TypeInv, FilterTypes, OtherTypes
<1> QED
  BY <1>2, <1>5, <1>6, <1>7, <1>8, TypePartsNext DEF TypeInv

LEMMA CommandsForType ==
    ASSUME FilterTypes, NEW i \in 1..Len(feed)
    PROVE  /\ Filter!CommandsFor(feed[i], i) \in Seq(Command)
           /\ Seqs(Filter!CommandsFor(feed[i], i), 2 * Len(feed) + 1)
<1> DEFINE del == [verb |-> "delete", sp |-> feed[i].sp, obj |-> feed[i].obj, seq |-> 2 * i]
           put == [verb |-> "put", sp |-> feed[i].sp, obj |-> feed[i].obj, seq |-> 2 * i + 1]
<1>1. feed[i].sp \in SPs /\ feed[i].obj \in Objects
  <2>1. feed[i] \in Tuple
    BY ElementOfSeq DEF FilterTypes
  <2> QED
    BY <2>1 DEF Tuple
<1>2. i \in Nat /\ Len(feed) \in Nat /\ i <= Len(feed)
  BY LenProperties DEF FilterTypes
<1>3. del \in Command /\ put \in Command
  BY <1>1, <1>2 DEF Command
<1>4. del.seq <= 2 * Len(feed) + 1 /\ put.seq <= 2 * Len(feed) + 1
  BY <1>2
<1>5. Filter!CommandsFor(feed[i], i) \in {<<del, put>>, <<put>>}
  BY DEF Filter!CommandsFor
<1> HIDE DEF del, put
<1>6. <<del, put>> \in Seq(Command) /\ <<put>> \in Seq(Command)
  BY <1>3
<1>7. Seqs(<<del, put>>, 2 * Len(feed) + 1)
  BY <1>4 DEF Seqs
<1>8. Seqs(<<put>>, 2 * Len(feed) + 1)
  BY <1>4 DEF Seqs
<1> QED
  BY <1>5, <1>6, <1>7, <1>8

LEMMA DecideType == ASSUME TypeInv, Filtering(Filter!Decide) PROVE TypeInv'
<1> DEFINE t == feed[seen + 1]
<1>1. FilterTypes /\ Hx!DbTypes /\ OtherTypes
  BY TypeParts DEF TypeInv
<1>2. /\ seen < Len(feed) /\ Filter!Commits(t)
      /\ seen' = seen + 1 /\ todo' = Filter!CommandsFor(t, seen + 1)
      /\ UNCHANGED <<feed, hexaCMS, cmsFile, filter, filteredfeed>>
      /\ UNCHANGED <<hexaVars, trial, restarts, faults, dropped>>
  BY DEF Filtering, Filter!Decide, Filter!CanTake
<1>3. seen + 1 \in 1..Len(feed) /\ Len(feed) \in Nat
  BY <1>1, <1>2, LenProperties DEF FilterTypes
<1>4. todo' \in Seq(Command) /\ Seqs(todo', 2 * Len(feed) + 1)
  BY <1>1, <1>2, <1>3, CommandsForType
<1>5. FilterTypes'
  BY <1>1, <1>2, <1>3, <1>4 DEF FilterTypes
<1>6. Hx!DbTypes' /\ OtherTypes'
  BY <1>1, <1>2 DEF Hx!DbTypes, OtherTypes, hexaVars
<1>7. Current' = t /\ hexaCMS' = hexaCMS
  BY <1>2 DEF Current
<1>8. Estimate(hexaCMS, t.sp) <= t.ver
  <2>1. t \in Tuple
    BY <1>1, <1>3, ElementOfSeq DEF FilterTypes
  <2>2. t.sp \in SPs /\ t.ver \in Nat /\ hexaCMS \in Sketch
    BY <1>1, <2>1 DEF Tuple, FilterTypes
  <2>3. Estimate(hexaCMS, t.sp) \in Nat
    BY <2>2, EstimateIsLeast
  <2>4. Estimate(hexaCMS, t.sp) < t.ver \/ Estimate(hexaCMS, t.sp) = t.ver
    BY <1>2, SameOperators DEF Filter!Commits, Filter!lastVer
  <2> QED
    BY <2>2, <2>3, <2>4
<1>9. Seqs(filteredfeed', 2 * Len(feed') + 1) /\ Seqs(commands', 2 * Len(feed') + 1)
  BY <1>2 DEF TypeInv, hexaVars
<1> QED
  BY <1>2, <1>4, <1>5, <1>6, <1>7, <1>8, <1>9, TypePartsNext DEF TypeInv

LEMMA PassOverType == ASSUME TypeInv, Filtering(Filter!PassOver) PROVE TypeInv'
<1>1. FilterTypes /\ Hx!DbTypes /\ OtherTypes
  BY TypeParts DEF TypeInv
<1>2. /\ seen < Len(feed) /\ todo = <<>> /\ seen' = seen + 1
      /\ UNCHANGED <<feed, hexaCMS, cmsFile, todo, filter, filteredfeed>>
      /\ UNCHANGED <<hexaVars, trial, restarts, faults, dropped>>
  BY DEF Filtering, Filter!PassOver, Filter!CanTake
<1>3. FilterTypes'
  BY <1>1, <1>2, LenProperties DEF FilterTypes
<1>4. Hx!DbTypes' /\ OtherTypes'
  BY <1>1, <1>2 DEF Hx!DbTypes, OtherTypes, hexaVars
<1> QED
  BY <1>2, <1>3, <1>4, TypePartsNext DEF TypeInv, hexaVars

LEMMA TodoParts ==
    ASSUME TypeInv, todo # <<>>
    PROVE  /\ Head(todo) \in Command /\ Head(todo).seq <= 2 * Len(feed) + 1
           /\ Tail(todo) \in Seq(Command) /\ Seqs(Tail(todo), 2 * Len(feed) + 1)
<1>1. todo \in Seq(Command) /\ Seqs(todo, 2 * Len(feed) + 1)
  BY TypeParts DEF TypeInv, FilterTypes
<1>2. /\ Head(todo) \in Command /\ Tail(todo) \in Seq(Command)
      /\ Len(Tail(todo)) = Len(todo) - 1
      /\ \A i \in 1..Len(Tail(todo)) : Tail(todo)[i] = todo[i + 1]
  BY <1>1, HeadTailProperties
<1>3. Len(todo) \in Nat /\ Len(todo) # 0 /\ DOMAIN todo = 1..Len(todo)
      /\ DOMAIN Tail(todo) = 1..Len(Tail(todo))
  BY <1>1, <1>2, LenProperties, EmptySeq
<1>4. Head(todo) = todo[1]
  OBVIOUS
<1>5. Head(todo).seq <= 2 * Len(feed) + 1
  BY <1>1, <1>3, <1>4 DEF Seqs
<1>6. Seqs(Tail(todo), 2 * Len(feed) + 1)
  BY <1>1, <1>2, <1>3 DEF Seqs
<1> QED
  BY <1>2, <1>5, <1>6

LEMMA PublishType == ASSUME TypeInv, Filtering(Filter!Publish) PROVE TypeInv'
<1>1. FilterTypes /\ Hx!DbTypes /\ OtherTypes
  BY TypeParts DEF TypeInv
<1>2. /\ todo # <<>>
      /\ filteredfeed' = Append(filteredfeed, Head(todo)) /\ todo' = Tail(todo)
      /\ hexaCMS' = IF Tail(todo) = <<>> THEN Filter!Counted ELSE hexaCMS
      /\ UNCHANGED <<feed, seen, cmsFile, filter>>
      /\ UNCHANGED <<hexaVars, trial, restarts, faults, dropped>>
  BY DEF Filtering, Filter!Publish
<1>3. 2 * Len(feed) + 1 \in Nat
  BY <1>1, LenProperties DEF FilterTypes
<1>4. filteredfeed' \in Seq(Command) /\ Seqs(filteredfeed', 2 * Len(feed) + 1)
  BY <1>1, <1>2, <1>3, TodoParts, MoreSeqs DEF FilterTypes, TypeInv
<1>5. Len(filteredfeed') = Len(filteredfeed) + 1 /\ Len(filteredfeed) \in Nat
  BY <1>1, <1>2, TodoParts, AppendProperties, LenProperties DEF FilterTypes
<1>6. todo' \in Seq(Command) /\ Seqs(todo', 2 * Len(feed) + 1)
  BY <1>2, TodoParts
<1>7. hexaCMS' \in Sketch
  BY <1>1, <1>2, CountedIs DEF FilterTypes
<1>8. FilterTypes'
  BY <1>1, <1>2, <1>4, <1>6, <1>7 DEF FilterTypes
<1>9. Hx!DbTypes' /\ OtherTypes'
  BY <1>1, <1>2, <1>5 DEF Hx!DbTypes, OtherTypes, hexaVars
<1>10. todo' # <<>> => hexaCMS' = hexaCMS /\ Current' = Current
  BY <1>2 DEF Current
<1> QED
  BY <1>2, <1>4, <1>6, <1>8, <1>9, <1>10, TypePartsNext DEF TypeInv, hexaVars

LEMMA PublishFailsType == ASSUME TypeInv, PublishFails PROVE TypeInv'
<1>1. FilterTypes /\ Hx!DbTypes /\ OtherTypes
  BY TypeParts DEF TypeInv
<1>2. /\ todo # <<>> /\ filter' = "off" /\ todo' = <<>>
      /\ hexaCMS' = Filter!Counted /\ cmsFile' \in {hexaCMS, Filter!Counted}
      /\ UNCHANGED <<feed, seen, filteredfeed>>
      /\ UNCHANGED <<hexaVars, trial, restarts, dropped>>
      /\ faults' = faults + 1
  BY DEF PublishFails, Filter!PublishFails
<1>3. hexaCMS' \in Sketch /\ cmsFile' \in Sketch
  BY <1>1, <1>2, CountedIs DEF FilterTypes
<1>4. FilterTypes'
  BY <1>1, <1>2, <1>3, EmptySeq DEF FilterTypes
<1>5. Hx!DbTypes' /\ OtherTypes'
  BY <1>1, <1>2 DEF Hx!DbTypes, OtherTypes, hexaVars
<1>6. Seqs(todo', 2 * Len(feed') + 1)
  BY <1>2 DEF Seqs
<1> QED
  BY <1>2, <1>4, <1>5, <1>6, TypePartsNext DEF TypeInv, hexaVars

LEMMA RestartType == ASSUME TypeInv, Restart PROVE TypeInv'
<1>1. FilterTypes /\ Hx!DbTypes /\ OtherTypes
  BY TypeParts DEF TypeInv
<1>2. /\ seen' = 0 /\ todo' = <<>> /\ hexaCMS' = cmsFile /\ filter' = "on"
      /\ UNCHANGED <<feed, cmsFile, filteredfeed>>
      /\ taken' = 0 /\ commands' = <<>> /\ UNCHANGED db
      /\ restarts' = restarts + 1 /\ UNCHANGED <<trial, faults, dropped>>
  BY DEF Restart, Filter!Restart, Hexa!Restart
<1>3. Len(feed) \in Nat /\ Len(filteredfeed) \in Nat
  BY <1>1, LenProperties DEF FilterTypes
<1>4. FilterTypes'
  BY <1>1, <1>2, <1>3, EmptySeq DEF FilterTypes
<1>5. commands' \in Seq(Command)
  BY <1>2, EmptySeq
<1>6. Hx!DbTypes' /\ OtherTypes'
  BY <1>1, <1>2, <1>3, <1>5 DEF Hx!DbTypes, OtherTypes
<1>7. Seqs(todo', 2 * Len(feed') + 1) /\ Seqs(commands', 2 * Len(feed') + 1)
  BY <1>2 DEF Seqs
<1> QED
  BY <1>2, <1>4, <1>6, <1>7, TypePartsNext DEF TypeInv

LEMMA DeliverType == ASSUME TypeInv, Storing(Hexa!Deliver) PROVE TypeInv'
<1>1. FilterTypes /\ Hx!DbTypes /\ OtherTypes
  BY TypeParts DEF TypeInv
<1>2. /\ taken < Len(filteredfeed) /\ taken' = taken + 1
      /\ commands' = Append(commands, filteredfeed[taken + 1])
      /\ UNCHANGED <<filteredfeed, db>>
      /\ UNCHANGED <<filterVars, trial, restarts, faults, dropped>>
  BY DEF Storing, Hexa!Deliver
<1>3. taken + 1 \in 1..Len(filteredfeed) /\ Len(filteredfeed) \in Nat
  BY <1>1, <1>2, LenProperties DEF FilterTypes, OtherTypes
<1>4. /\ filteredfeed[taken + 1] \in Command
      /\ filteredfeed[taken + 1].seq <= 2 * Len(feed) + 1
  BY <1>1, <1>3, ElementOfSeq, LenProperties DEF FilterTypes, TypeInv, Seqs
<1>5. 2 * Len(feed) + 1 \in Nat
  BY <1>1, LenProperties DEF FilterTypes
<1>6. commands' \in Seq(Command) /\ Seqs(commands', 2 * Len(feed) + 1)
  BY <1>1, <1>2, <1>4, <1>5, MoreSeqs DEF OtherTypes, TypeInv
<1>7. FilterTypes'
  BY <1>1, <1>2 DEF FilterTypes, filterVars
<1>8. Hx!DbTypes' /\ OtherTypes'
  BY <1>1, <1>2, <1>3, <1>6 DEF Hx!DbTypes, OtherTypes
<1>9. Current' = Current
  BY <1>2 DEF Current, filterVars
<1> QED
  BY <1>2, <1>6, <1>7, <1>8, <1>9, TypePartsNext DEF TypeInv, filterVars

LEMMA UpdateType == ASSUME TypeInv, Storing(Hexa!update_batch) PROVE TypeInv'
<1>1. FilterTypes /\ Hx!DbTypes /\ OtherTypes
  BY TypeParts DEF TypeInv
<1>2. /\ commands' = <<>> /\ UNCHANGED <<filteredfeed, taken>> /\ Hx!update_batch
      /\ UNCHANGED <<filterVars, trial, restarts, faults, dropped>>
  BY SameHexa DEF Storing, Hexa!update_batch
<1>3. commands \in Seq(Hx!Command)
  BY <1>1, SameHexa DEF OtherTypes
<1>4. Hx!DbTypes'
  BY <1>1, <1>2, <1>3, Hx!UpdateDb
<1>5. FilterTypes'
  BY <1>1, <1>2 DEF FilterTypes, filterVars
<1>6. commands' \in Seq(Command) /\ Seqs(commands', 2 * Len(feed') + 1)
  BY <1>2, EmptySeq DEF Seqs
<1>7. OtherTypes'
  BY <1>1, <1>2, <1>6 DEF OtherTypes
<1>8. Current' = Current
  BY <1>2 DEF Current, filterVars
<1> QED
  BY <1>2, <1>4, <1>5, <1>6, <1>7, <1>8, TypePartsNext DEF TypeInv, filterVars

LEMMA UpdateFailsType == ASSUME TypeInv, update_fails PROVE TypeInv'
<1>1. FilterTypes /\ Hx!DbTypes /\ OtherTypes
  BY TypeParts DEF TypeInv
<1>2. /\ commands' = <<>> /\ UNCHANGED <<filteredfeed, taken, db>>
      /\ UNCHANGED <<filterVars, trial, restarts>>
      /\ faults' = faults + 1 /\ dropped' = TRUE
  BY DEF update_fails, Hexa!update_fails
<1>3. FilterTypes' /\ Hx!DbTypes'
  BY <1>1, <1>2 DEF FilterTypes, Hx!DbTypes, filterVars
<1>4. commands' \in Seq(Command) /\ Seqs(commands', 2 * Len(feed') + 1)
  BY <1>2, EmptySeq DEF Seqs
<1>5. dropped' \in BOOLEAN
  BY <1>2
<1>6. OtherTypes'
  BY <1>1, <1>2, <1>4, <1>5 DEF OtherTypes
<1>7. Current' = Current
  BY <1>2 DEF Current, filterVars
<1> QED
  BY <1>2, <1>3, <1>4, <1>6, <1>7, TypePartsNext DEF TypeInv, filterVars

LEMMA StutterType == ASSUME TypeInv, UNCHANGED vars PROVE TypeInv'
<1>1. FilterTypes /\ Hx!DbTypes /\ OtherTypes
  BY TypeParts DEF TypeInv
<1>2. FilterTypes' /\ Hx!DbTypes' /\ OtherTypes'
  BY <1>1 DEF vars, filterVars, hexaVars, FilterTypes, Hx!DbTypes, OtherTypes
<1>3. Current' = Current
  BY DEF Current, vars, filterVars
<1> QED
  BY <1>2, <1>3, TypePartsNext DEF TypeInv, vars, filterVars, hexaVars

LEMMA NextType == TypeInv /\ [Next]_vars => TypeInv'
BY ArriveType, DecideType, PassOverType, PublishType, PublishFailsType, DeliverType,
   UpdateType, UpdateFailsType, RestartType, StutterType DEF Next, Stopped

LEMMA TypeInvariant == Spec => []TypeInv
BY InitType, NextType, PTL DEF Spec

(* Every variable keeps its type. Above all, what the filter adds to its    *)
(* sketch is never negative, whichever pairs collide, and every key of the *)
(* database belongs to a tuple and holds an object.                        *)
THEOREM WriteTypeCorrect == Spec => []TypeOK
<1>1. TypeInv => TypeOK
  BY DEF TypeInv
<1> QED
  BY TypeInvariant, <1>1, PTL

-----------------------------------------------------------------------------
(* Tombstones *)

TombstonesStep == \A sp \in SPs, o \in Objects :
    \/ Hexa!TombKey(sp, o) \in DOMAIN db
    \/ Hexa!Key("SPO", sp, o) \in DOMAIN db /\ Hexa!Key("SPO", sp, o) \notin DOMAIN db'
    => Hexa!TombKey(sp, o) \in DOMAIN db'

LEMMA OthersLeaveDb ==
    ASSUME [Next]_vars, ~Storing(Hexa!update_batch)
    PROVE  db' = db
<1>1. CASE \E t \in trial.tuples : Arrive(t)
  BY <1>1 DEF Arrive, Filtering, hexaVars
<1>2. CASE Filtering(Filter!Decide) \/ Filtering(Filter!PassOver) \/ Filtering(Filter!Publish)
  BY <1>2 DEF Filtering, hexaVars
<1>3. CASE PublishFails
  BY <1>3 DEF PublishFails, hexaVars
<1>4. CASE Storing(Hexa!Deliver)
  BY <1>4 DEF Storing, Hexa!Deliver
<1>5. CASE update_fails
  BY <1>5 DEF update_fails, Hexa!update_fails
<1>6. CASE Restart
  BY <1>6 DEF Restart, Hexa!Restart
<1>7. CASE Stopped \/ UNCHANGED vars
  BY <1>7 DEF Stopped, vars, hexaVars
<1> QED
  BY <1>1, <1>2, <1>3, <1>4, <1>5, <1>6, <1>7 DEF Next

LEMMA NextTombstones == ASSUME TypeInv, [Next]_vars PROVE TombstonesStep
<1>1. CASE Storing(Hexa!update_batch)
  <2>1. Hx!update_batch
    BY <1>1, SameHexa DEF Storing
  <2>2. commands \in Seq(Hx!Command)
    BY TypeParts, SameHexa DEF TypeInv, OtherTypes
  <2> QED
    BY <2>1, <2>2, SameHexa, Hx!TombstonesKept DEF TombstonesStep
<1>2. CASE ~Storing(Hexa!update_batch)
  BY <1>2, OthersLeaveDb DEF TombstonesStep
<1> QED
  BY <1>1, <1>2

(* No batch removes an object without leaving its tombstone, and none       *)
(* removes a tombstone: through restarts, failures and replays.            *)
THEOREM TombstonesAreKept == Spec => TombstonesStay
<1>1. TypeInv /\ [Next]_vars => [TombstonesStep]_vars
  BY NextTombstones
<1>2. Spec => [][TombstonesStep]_vars
  BY TypeInvariant, <1>1, PTL DEF Spec
<1>3. [TombstonesStep]_vars <=> [\A sp \in SPs, o \in Objects :
          \/ Hexa!TombKey(sp, o) \in DOMAIN db
          \/ Hexa!Key("SPO", sp, o) \in DOMAIN db /\ Hexa!Key("SPO", sp, o) \notin DOMAIN db'
          => Hexa!TombKey(sp, o) \in DOMAIN db']_vars
  BY DEF TombstonesStep
<1> QED
  BY <1>2, <1>3, PTL DEF TombstonesStay

-----------------------------------------------------------------------------
(* The stream *)

(* The message of the feed that a command stems from. *)
Message(c) == c.seq \div 2
Tells(c)   == c.sp = feed[Message(c)].sp /\ c.obj = feed[Message(c)].obj

Est(sp) == Estimate(hexaCMS, sp)

Sourced ==
    /\ \A i \in DOMAIN feed : feed[i] \in trial.tuples
    /\ \A j \in DOMAIN filteredfeed :
          Message(filteredfeed[j]) \in 1..seen /\ Tells(filteredfeed[j])
    /\ \A k \in DOMAIN todo : Message(todo[k]) = seen /\ Tells(todo[k])

Ordered ==
    /\ \A i, j \in DOMAIN filteredfeed :
          i < j => filteredfeed[i].seq < filteredfeed[j].seq
    /\ \A i \in DOMAIN filteredfeed, k \in DOMAIN todo : filteredfeed[i].seq < todo[k].seq
    /\ \A k, l \in DOMAIN todo : k < l => todo[k].seq < todo[l].seq
    /\ \A k \in DOMAIN todo : todo[k].verb = "put" <=> k = Len(todo)

(* What has been published is in the sketch, or is about to be counted.    *)
InSketch ==
    /\ \A j \in DOMAIN filteredfeed :
          \/ feed[Message(filteredfeed[j])].ver <= Est(filteredfeed[j].sp)
          \/ todo # <<>> /\ Message(filteredfeed[j]) = seen
    /\ \A j \in DOMAIN filteredfeed : filteredfeed[j].verb = "delete" =>
          /\ Est(filteredfeed[j].sp) > 0
          /\ feed[Message(filteredfeed[j])].ver > 0
    /\ \A k \in DOMAIN todo : todo[k].verb = "delete" => Est(Current.sp) > 0

InOrder == \A i, j \in DOMAIN filteredfeed :
    i < j /\ filteredfeed[i].sp = filteredfeed[j].sp =>
        feed[Message(filteredfeed[i])].ver <= feed[Message(filteredfeed[j])].ver

(* A restart has the feed filtered again, with the sketch that was saved.  *)
StreamInv == restarts = 0 => Sourced /\ Ordered /\ InSketch /\ InOrder

LEMMA MessageBounds ==
    /\ \A c : c.seq \in Nat =>
          Message(c) \in Nat /\ 2 * Message(c) <= c.seq /\ c.seq <= 2 * Message(c) + 1
    /\ \A c, i : i \in Nat /\ (c.seq = 2 * i \/ c.seq = 2 * i + 1) => Message(c) = i
<1>1. \A n \in Nat : n \div 2 \in Nat /\ 2 * (n \div 2) <= n /\ n <= 2 * (n \div 2) + 1
  OBVIOUS
<1>2. \A i \in Nat : (2 * i) \div 2 = i /\ (2 * i + 1) \div 2 = i
  OBVIOUS
<1> QED
  BY <1>1, <1>2 DEF Message

LEMMA StreamFacts ==
    ASSUME TypeInv
    PROVE  /\ feed \in Seq(Tuple) /\ Len(feed) \in Nat /\ DOMAIN feed = 1..Len(feed)
           /\ \A i \in DOMAIN feed : feed[i].sp \in SPs /\ feed[i].ver \in Nat
           /\ seen \in 0..Len(feed)
           /\ filteredfeed \in Seq(Command) /\ Len(filteredfeed) \in Nat
           /\ DOMAIN filteredfeed = 1..Len(filteredfeed)
           /\ \A j \in DOMAIN filteredfeed :
                 /\ filteredfeed[j].sp \in SPs /\ filteredfeed[j].seq \in Nat
                 /\ filteredfeed[j].verb \in {"put", "delete"}
           /\ todo \in Seq(Command) /\ Len(todo) \in Nat /\ DOMAIN todo = 1..Len(todo)
           /\ \A k \in DOMAIN todo : /\ todo[k].sp \in SPs /\ todo[k].seq \in Nat
                                     /\ todo[k].verb \in {"put", "delete"}
           /\ \A sp \in SPs : Est(sp) \in Nat
<1>1. /\ feed \in Seq(Tuple) /\ seen \in 0..Len(feed) /\ hexaCMS \in Sketch
      /\ filteredfeed \in Seq(Command) /\ todo \in Seq(Command)
  BY TypeParts DEF TypeInv, FilterTypes
<1>2. /\ Len(feed) \in Nat /\ DOMAIN feed = 1..Len(feed)
      /\ Len(filteredfeed) \in Nat /\ DOMAIN filteredfeed = 1..Len(filteredfeed)
      /\ Len(todo) \in Nat /\ DOMAIN todo = 1..Len(todo)
  BY <1>1, LenProperties
<1>3. /\ \A i \in DOMAIN feed : feed[i] \in Tuple
      /\ \A j \in DOMAIN filteredfeed : filteredfeed[j] \in Command
      /\ \A k \in DOMAIN todo : todo[k] \in Command
  BY <1>1, <1>2, ElementOfSeq
<1>4. \A sp \in SPs : Est(sp) \in Nat
  BY <1>1, EstimateIsLeast DEF Est
<1>5. \A t \in Tuple : t.sp \in SPs /\ t.ver \in Nat
  BY DEF Tuple
<1>6. \A c \in Command : c.sp \in SPs /\ c.seq \in Nat /\ c.verb \in {"put", "delete"}
  BY DEF Command
<1> QED
  BY <1>1, <1>2, <1>3, <1>4, <1>5, <1>6

-----------------------------------------------------------------------------
LEMMA InitStream == Init => StreamInv
<1> SUFFICES ASSUME Init PROVE StreamInv
  OBVIOUS
<1>1. feed = <<>> /\ filteredfeed = <<>> /\ todo = <<>>
  BY DEF Init, Filter!Init
<1> QED
  BY <1>1 DEF StreamInv, Sourced, Ordered, InSketch, InOrder

LEMMA ArriveStream ==
    ASSUME TypeInv, StreamInv, restarts = 0, NEW t \in trial.tuples, Arrive(t)
    PROVE  StreamInv'
<1>1. feed' = Append(feed, t)
      /\ UNCHANGED <<seen, hexaCMS, todo, filteredfeed, trial, restarts>>
  BY DEF Arrive, Filtering, Filter!Arrive
<1>2. t \in Tuple
  BY TypeParts, TrialsAssumption DEF TypeInv, OtherTypes
<1>3. /\ feed' \in Seq(Tuple) /\ Len(feed') = Len(feed) + 1
      /\ \A i \in 1..Len(feed) : feed'[i] = feed[i]
      /\ feed'[Len(feed) + 1] = t
  BY <1>1, <1>2, StreamFacts, AppendProperties
<1>4. DOMAIN feed' = 1..(Len(feed) + 1)
  BY <1>3, LenProperties
<1>5. Len(feed) \in Nat /\ seen \in 0..Len(feed) /\ DOMAIN feed = 1..Len(feed)
  BY StreamFacts
<1>6. \A i \in 1..seen : feed'[i] = feed[i]
  BY <1>3, <1>5
<1>7. Sourced /\ Ordered /\ InSketch /\ InOrder
  BY DEF StreamInv
<1>8. todo # <<>> => seen \in 1..seen
  BY CurrentIsTuple, <1>5
<1>9. \A k \in DOMAIN todo : todo # <<>>
  BY StreamFacts
<1>10. Sourced'
  <2>1. \A i \in DOMAIN feed' : feed'[i] \in trial.tuples
    BY <1>3, <1>4, <1>5, <1>7 DEF Sourced
  <2>2. \A j \in DOMAIN filteredfeed :
            /\ Message(filteredfeed[j]) \in 1..seen
            /\ filteredfeed[j].sp = feed'[Message(filteredfeed[j])].sp
            /\ filteredfeed[j].obj = feed'[Message(filteredfeed[j])].obj
    BY <1>6, <1>7 DEF Sourced, Tells
  <2>3. \A k \in DOMAIN todo :
            /\ Message(todo[k]) = seen
            /\ todo[k].sp = feed'[Message(todo[k])].sp
            /\ todo[k].obj = feed'[Message(todo[k])].obj
    BY <1>6, <1>7, <1>8, <1>9 DEF Sourced, Tells
  <2> QED
    BY <1>1, <2>1, <2>2, <2>3 DEF Sourced, Tells, Message
<1>11. Ordered'
  BY <1>1, <1>7 DEF Ordered
<1>12. \A j \in DOMAIN filteredfeed :
           feed'[Message(filteredfeed[j])] = feed[Message(filteredfeed[j])]
  BY <1>6, <1>7 DEF Sourced
<1>13. todo # <<>> => Current' = Current
  BY <1>1, <1>6, <1>8 DEF Current
<1>14. Est(Current.sp)' = Estimate(hexaCMS, Current'.sp)
       /\ \A sp : Est(sp)' = Est(sp)
  BY <1>1 DEF Est
<1>15. InSketch'
  BY <1>1, <1>7, <1>9, <1>12, <1>13, <1>14 DEF InSketch, Message, Est
<1>16. InOrder'
  BY <1>1, <1>7, <1>12 DEF InOrder, Message
<1> QED
  BY <1>10, <1>11, <1>15, <1>16 DEF StreamInv

LEMMA DecideStream ==
    ASSUME TypeInv, StreamInv, restarts = 0, Filtering(Filter!Decide)
    PROVE  StreamInv'
<1> DEFINE t == feed[seen + 1]
           i == seen + 1
           del == [verb |-> "delete", sp |-> t.sp, obj |-> t.obj, seq |-> 2 * i]
           put == [verb |-> "put", sp |-> t.sp, obj |-> t.obj, seq |-> 2 * i + 1]
<1>1. /\ seen < Len(feed) /\ todo = <<>> /\ seen' = i
      /\ todo' = IF Est(t.sp) > 0 THEN <<del, put>> ELSE <<put>>
      /\ UNCHANGED <<feed, hexaCMS, filteredfeed, trial, restarts>>
  BY SameOperators
     DEF Filtering, Filter!Decide, Filter!CanTake, Filter!CommandsFor, Filter!lastVer, Est
<1>2. /\ seen \in Nat /\ i \in Nat /\ i \in DOMAIN feed
      /\ DOMAIN filteredfeed = 1..Len(filteredfeed)
      /\ \A j \in DOMAIN filteredfeed : filteredfeed[j].seq \in Nat
  BY <1>1, StreamFacts
<1>3. Sourced /\ Ordered /\ InSketch /\ InOrder
  BY DEF StreamInv
<1>4. /\ del.verb = "delete" /\ del.sp = t.sp /\ del.obj = t.obj /\ del.seq = 2 * i
      /\ put.verb = "put" /\ put.sp = t.sp /\ put.obj = t.obj /\ put.seq = 2 * i + 1
  OBVIOUS
<1>5. Message(del) = i /\ Message(put) = i
  BY <1>2, <1>4, MessageBounds
<1>6. /\ todo' # <<>> /\ DOMAIN todo' = 1..Len(todo') /\ Len(todo') \in {1, 2}
      /\ \A k \in DOMAIN todo' : todo'[k] = IF k = Len(todo') THEN put ELSE del
      /\ \A k \in DOMAIN todo' : k # Len(todo') => Est(t.sp) > 0 /\ k = 1
  <2>1. CASE Est(t.sp) > 0
    <3> HIDE DEF del, put
    <3>1. todo' = <<del, put>>
      BY <1>1, <2>1
    <3> QED
      BY <3>1, <2>1
  <2>2. CASE ~ (Est(t.sp) > 0)
    <3> HIDE DEF del, put
    <3>1. todo' = <<put>>
      BY <1>1, <2>2
    <3> QED
      BY <3>1
  <2> QED
    BY <2>1, <2>2
<1>7. Current' = t /\ \A x : Est(x)' = Est(x)
  BY <1>1 DEF Current, Est
<1> HIDE DEF i, t, del, put
<1>8. \A k \in DOMAIN todo' : todo'[k] = put \/ todo'[k] = del
  BY <1>6
<1>9. \A j \in DOMAIN filteredfeed : filteredfeed[j].seq <= 2 * seen + 1
  <2> TAKE j \in DOMAIN filteredfeed
  <2>1. Message(filteredfeed[j]) \in 1..seen /\ filteredfeed[j].seq \in Nat
    BY <1>2, <1>3 DEF Sourced
  <2> QED
    BY <1>2, <2>1, MessageBounds
<1>10. Sourced'
  <2>1. \A k \in DOMAIN todo' : Message(todo'[k]) = i /\ todo'[k].sp = t.sp
                                /\ todo'[k].obj = t.obj
    BY <1>4, <1>5, <1>8
  <2>2. \A n \in 1..seen : n \in 1..i
    BY <1>2 DEF i
  <2> QED
    BY <1>1, <1>3, <2>1, <2>2 DEF Sourced, Tells, Message, i, t
<1>11. Ordered'
  <2>1. 2 * seen + 1 < 2 * i /\ 2 * i < 2 * i + 1
    BY <1>2 DEF i
  <2>2. \A k \in DOMAIN todo' : todo'[k].seq = 2 * i \/ todo'[k].seq = 2 * i + 1
    BY <1>4, <1>8
  <2>3. \A j \in DOMAIN filteredfeed, k \in DOMAIN todo' : filteredfeed[j].seq < todo'[k].seq
    BY <1>2, <1>9, <2>1, <2>2
  <2>4. \A k, l \in DOMAIN todo' : k < l => todo'[k].seq < todo'[l].seq
    <3> TAKE k, l \in DOMAIN todo'
    <3> HAVE k < l
    <3>1. k # Len(todo') /\ l # 1
      BY <1>6
    <3>2. l = Len(todo')
      BY <1>6, <3>1
    <3> QED
      BY <1>4, <1>6, <2>1, <3>1, <3>2
  <2>5. \A k \in DOMAIN todo' : todo'[k].verb = "put" <=> k = Len(todo')
    BY <1>4, <1>6
  <2> QED
    BY <1>1, <1>3, <2>3, <2>4, <2>5 DEF Ordered
<1>12. InSketch'
  <2>1. \A k \in DOMAIN todo' : todo'[k].verb = "delete" => Est(t.sp) > 0
    BY <1>4, <1>6
  <2>2. \A j \in DOMAIN filteredfeed : feed[Message(filteredfeed[j])].ver <= Est(filteredfeed[j].sp)
    BY <1>1, <1>3 DEF InSketch
  <2> QED
    BY <1>1, <1>3, <1>7, <2>1, <2>2 DEF InSketch, Message, Est
<1>13. InOrder'
  BY <1>1, <1>3 DEF InOrder, Message
<1> QED
  BY <1>10, <1>11, <1>12, <1>13 DEF StreamInv

LEMMA PassOverStream ==
    ASSUME TypeInv, StreamInv, restarts = 0, Filtering(Filter!PassOver)
    PROVE  StreamInv'
<1>1. /\ todo = <<>> /\ seen' = seen + 1
      /\ UNCHANGED <<feed, hexaCMS, todo, filteredfeed, trial, restarts>>
  BY DEF Filtering, Filter!PassOver, Filter!CanTake
<1>2. Sourced /\ Ordered /\ InSketch /\ InOrder
  BY DEF StreamInv
<1>3. \A n \in 1..seen : n \in 1..(seen + 1)
  BY StreamFacts
<1>4. DOMAIN todo = {} /\ todo' = <<>>
  BY <1>1
<1>5. Sourced'
  BY <1>1, <1>2, <1>3, <1>4 DEF Sourced, Tells, Message
<1>6. Ordered'
  BY <1>1, <1>2, <1>4 DEF Ordered
<1>7. InSketch'
  BY <1>1, <1>2, <1>4 DEF InSketch, Message, Est
<1>8. InOrder'
  BY <1>1, <1>2 DEF InOrder, Message
<1> QED
  BY <1>5, <1>6, <1>7, <1>8 DEF StreamInv

(* What counting the current tuple does to the sketch.                     *)
LEMMA CountedStream ==
    ASSUME TypeInv, StreamInv, restarts = 0, todo # <<>>
    PROVE  /\ Estimate(Filter!Counted, Current.sp) = Current.ver
           /\ \A x \in SPs : /\ Estimate(Filter!Counted, x) \in Nat /\ Est(x) \in Nat
                             /\ Est(x) <= Estimate(Filter!Counted, x)
           /\ \A j \in DOMAIN filteredfeed :
                 feed[Message(filteredfeed[j])].ver
                     <= Estimate(Filter!Counted, filteredfeed[j].sp)
<1>1. Estimate(Filter!Counted, Current.sp) = Current.ver
      /\ Filter!Counted \in Sketch
      /\ \A k \in SPs : Estimate(hexaCMS, k) <= Estimate(Filter!Counted, k)
  BY CountedIs
<1>2. \A x \in SPs : /\ Estimate(Filter!Counted, x) \in Nat /\ Est(x) \in Nat
                     /\ Est(x) <= Estimate(Filter!Counted, x)
  BY <1>1, StreamFacts, EstimateIsLeast DEF Est
<1>3. ASSUME NEW j \in DOMAIN filteredfeed
      PROVE  feed[Message(filteredfeed[j])].ver
                 <= Estimate(Filter!Counted, filteredfeed[j].sp)
  <2>1. Sourced /\ InSketch
    BY DEF StreamInv
  <2>2. /\ Message(filteredfeed[j]) \in 1..seen
        /\ filteredfeed[j].sp = feed[Message(filteredfeed[j])].sp
    BY <2>1 DEF Sourced, Tells
  <2>3. Message(filteredfeed[j]) \in DOMAIN feed /\ filteredfeed[j].sp \in SPs
    BY <2>2, StreamFacts
  <2>4. feed[Message(filteredfeed[j])].ver \in Nat
    BY <2>3, StreamFacts
  <2>5. CASE Message(filteredfeed[j]) = seen
    <3>1. feed[Message(filteredfeed[j])] = Current
      BY <2>5 DEF Current
    <3>2. filteredfeed[j].sp = Current.sp /\ feed[Message(filteredfeed[j])].ver = Current.ver
      BY <2>2, <3>1
    <3> QED
      BY <1>1, <2>4, <3>2
  <2>6. CASE Message(filteredfeed[j]) # seen
    <3>1. feed[Message(filteredfeed[j])].ver <= Est(filteredfeed[j].sp)
      BY <2>1, <2>6 DEF InSketch
    <3>2. /\ Est(filteredfeed[j].sp) \in Nat
          /\ Estimate(Filter!Counted, filteredfeed[j].sp) \in Nat
          /\ Est(filteredfeed[j].sp) <= Estimate(Filter!Counted, filteredfeed[j].sp)
      BY <1>2, <2>3
    <3> QED
      BY <2>4, <3>1, <3>2
  <2> QED
    BY <2>5, <2>6
<1> QED
  BY <1>1, <1>2, <1>3

LEMMA PublishStream ==
    ASSUME TypeInv, StreamInv, restarts = 0, Filtering(Filter!Publish)
    PROVE  StreamInv'
<1> DEFINE n == Len(filteredfeed) + 1
           c == todo[1]
<1>1. /\ todo # <<>>
      /\ filteredfeed' = Append(filteredfeed, Head(todo)) /\ todo' = Tail(todo)
      /\ hexaCMS' = IF Tail(todo) = <<>> THEN Filter!Counted ELSE hexaCMS
      /\ UNCHANGED <<feed, seen, trial, restarts>>
  BY DEF Filtering, Filter!Publish
<1>2. Sourced /\ Ordered /\ InSketch /\ InOrder
  BY DEF StreamInv
<1>3. /\ todo \in Seq(Command) /\ DOMAIN todo = 1..Len(todo) /\ Len(todo) \in Nat
      /\ filteredfeed \in Seq(Command) /\ Len(filteredfeed) \in Nat
      /\ DOMAIN filteredfeed = 1..Len(filteredfeed)
  BY StreamFacts
<1>4. Len(todo) # 0
  BY <1>1, <1>3, EmptySeq
<1>5. 1 \in DOMAIN todo /\ Head(todo) = c
  BY <1>3, <1>4
<1>6. /\ todo' \in Seq(Command) /\ Len(todo') = Len(todo) - 1
      /\ \A k \in 1..Len(todo') : todo'[k] = todo[k + 1]
      /\ DOMAIN todo' = 1..Len(todo')
  BY <1>1, <1>3, HeadTailProperties, LenProperties
<1>7. /\ DOMAIN filteredfeed' = 1..n
      /\ \A j \in DOMAIN filteredfeed : filteredfeed'[j] = filteredfeed[j]
      /\ filteredfeed'[n] = c
  <2>1. c \in Command
    BY <1>3, <1>5, ElementOfSeq
  <2>2. /\ filteredfeed' \in Seq(Command)
        /\ Len(filteredfeed') = n
        /\ \A j \in 1..Len(filteredfeed) : filteredfeed'[j] = filteredfeed[j]
        /\ filteredfeed'[n] = c
    BY <1>1, <1>3, <1>5, <2>1, AppendProperties
  <2> QED
    BY <1>3, <2>2, LenProperties
<1>8. \A j \in DOMAIN filteredfeed' : j \in DOMAIN filteredfeed \/ j = n
  BY <1>3, <1>7
<1>9. n \notin DOMAIN filteredfeed /\ \A j \in DOMAIN filteredfeed : j < n
  BY <1>3
<1>10. \A k \in DOMAIN todo' : k + 1 \in DOMAIN todo /\ todo'[k] = todo[k + 1] /\ 1 < k + 1
  BY <1>3, <1>4, <1>6
<1>11. Message(c) = seen /\ c.sp = Current.sp /\ c.obj = Current.obj
  BY <1>2, <1>5 DEF Sourced, Tells, Current
<1>12. /\ Current \in Tuple /\ seen \in 1..Len(feed) /\ Current.sp \in SPs
       /\ Current.ver \in Nat /\ Est(Current.sp) \in Nat /\ Est(Current.sp) <= Current.ver
  <2>1. Current \in Tuple /\ seen \in 1..Len(feed)
    BY <1>1, CurrentIsTuple
  <2>2. Current.sp \in SPs /\ Current.ver \in Nat
    BY <2>1 DEF Tuple
  <2> QED
    BY <1>1, <2>1, <2>2, StreamFacts DEF TypeInv, Est
<1>13. \A j \in DOMAIN filteredfeed : Message(filteredfeed[j]) \in 1..seen /\ Tells(filteredfeed[j])
  BY <1>2 DEF Sourced
<1> HIDE DEF c, n
<1>14. Sourced'
  <2>1. \A j \in DOMAIN filteredfeed' :
            /\ Message(filteredfeed'[j]) \in 1..seen
            /\ Tells(filteredfeed'[j])
    <3> TAKE j \in DOMAIN filteredfeed'
    <3>1. CASE j \in DOMAIN filteredfeed
      BY <1>7, <1>13, <3>1
    <3>2. CASE j = n
      BY <1>7, <1>11, <1>12, <3>2 DEF Tells, Current
    <3> QED
      BY <1>8, <3>1, <3>2
  <2>2. \A k \in DOMAIN todo' : Message(todo'[k]) = seen /\ Tells(todo'[k])
    BY <1>2, <1>10 DEF Sourced
  <2> QED
    BY <1>1, <1>2, <2>1, <2>2 DEF Sourced, Tells, Message
<1>15. Ordered'
  <2>1. \A i, j \in DOMAIN filteredfeed' :
            i < j => filteredfeed'[i].seq < filteredfeed'[j].seq
    <3> TAKE i, j \in DOMAIN filteredfeed'
    <3> HAVE i < j
    <3>1. i \in DOMAIN filteredfeed
      BY <1>3, <1>7 DEF n
    <3>2. CASE j \in DOMAIN filteredfeed
      BY <1>2, <1>7, <3>1, <3>2 DEF Ordered
    <3>3. CASE j = n
      BY <1>2, <1>5, <1>7, <3>1, <3>3 DEF Ordered, c
    <3> QED
      BY <1>8, <3>2, <3>3
  <2>2. \A j \in DOMAIN filteredfeed', k \in DOMAIN todo' :
            filteredfeed'[j].seq < todo'[k].seq
    <3> TAKE j \in DOMAIN filteredfeed', k \in DOMAIN todo'
    <3>1. CASE j \in DOMAIN filteredfeed
      BY <1>2, <1>7, <1>10, <3>1 DEF Ordered
    <3>2. CASE j = n
      BY <1>2, <1>5, <1>7, <1>10, <3>2 DEF Ordered, c
    <3> QED
      BY <1>8, <3>1, <3>2
  <2>3. \A k, l \in DOMAIN todo' : k < l => todo'[k].seq < todo'[l].seq
    <3> TAKE k, l \in DOMAIN todo'
    <3> HAVE k < l
    <3>1. k + 1 \in DOMAIN todo /\ l + 1 \in DOMAIN todo /\ k + 1 < l + 1
      BY <1>6, <1>10
    <3>2. todo[k + 1].seq < todo[l + 1].seq
      BY <1>2, <3>1 DEF Ordered
    <3> QED
      BY <1>10, <3>2
  <2>4. \A k \in DOMAIN todo' : todo'[k].verb = "put" <=> k = Len(todo')
    <3> TAKE k \in DOMAIN todo'
    <3>1. todo[k + 1].verb = "put" <=> k + 1 = Len(todo)
      BY <1>2, <1>10 DEF Ordered
    <3>2. k + 1 = Len(todo) <=> k = Len(todo')
      BY <1>3, <1>6
    <3> QED
      BY <1>10, <3>1, <3>2
  <2> QED
    BY <2>1, <2>2, <2>3, <2>4 DEF Ordered
<1>16. \A j \in DOMAIN filteredfeed : /\ feed[Message(filteredfeed[j])].ver \in Nat
                                      /\ filteredfeed[j].sp \in SPs
  <2>1. \A j \in DOMAIN filteredfeed : Message(filteredfeed[j]) \in DOMAIN feed
    BY <1>13, StreamFacts
  <2> QED
    BY <2>1, StreamFacts
<1>17. InOrder'
  <2>1. ASSUME NEW i \in DOMAIN filteredfeed', NEW j \in DOMAIN filteredfeed', i < j,
               filteredfeed'[i].sp = filteredfeed'[j].sp
        PROVE  feed[Message(filteredfeed'[i])].ver <= feed[Message(filteredfeed'[j])].ver
    <3>1. i \in DOMAIN filteredfeed
      BY <1>3, <1>7, <2>1 DEF n
    <3>2. CASE j \in DOMAIN filteredfeed
      BY <1>2, <1>7, <2>1, <3>1, <3>2 DEF InOrder
    <3>3. CASE j = n
      <4>1. filteredfeed[i].sp = Current.sp
        BY <1>7, <1>11, <2>1, <3>1, <3>3
      <4>2. feed[Message(filteredfeed[i])].ver <= Est(Current.sp) \/ Message(filteredfeed[i]) = seen
        BY <1>2, <3>1, <4>1 DEF InSketch
      <4>3. feed[Message(filteredfeed[i])].ver <= Current.ver
        BY <1>12, <1>16, <3>1, <4>2 DEF Current
      <4> QED
        BY <1>7, <1>11, <3>1, <3>3, <4>3 DEF Current
    <3> QED
      BY <1>8, <3>2, <3>3
  <2> QED
    BY <1>1, <2>1 DEF InOrder, Message
<1>18. CASE Len(todo) = 1
  <2>1. todo' = <<>>
    BY <1>6, <1>18, EmptySeq
  <2>2. hexaCMS' = Filter!Counted
    BY <1>1, <2>1
  <2>3. \A x : Est(x)' = Estimate(Filter!Counted, x)
    BY <2>2 DEF Est
  <2>4. c.verb = "put"
    BY <1>2, <1>5, <1>18 DEF Ordered, c
  <2>5. feed[Message(c)] = Current
    BY <1>11 DEF Current
  <2>6. \A j \in DOMAIN filteredfeed' :
            feed[Message(filteredfeed'[j])].ver <= Estimate(Filter!Counted, filteredfeed'[j].sp)
    <3> TAKE j \in DOMAIN filteredfeed'
    <3>1. CASE j \in DOMAIN filteredfeed
      BY <1>1, <1>7, <3>1, CountedStream
    <3>2. CASE j = n
      <4>1. Estimate(Filter!Counted, c.sp) = Current.ver
        BY <1>1, <1>11, CountedStream
      <4> QED
        BY <1>7, <1>12, <2>5, <3>2, <4>1
    <3> QED
      BY <1>8, <3>1, <3>2
  <2>7. ASSUME NEW j \in DOMAIN filteredfeed', filteredfeed'[j].verb = "delete"
        PROVE  /\ Estimate(Filter!Counted, filteredfeed'[j].sp) > 0
               /\ feed[Message(filteredfeed'[j])].ver > 0
    <3>1. j # n
      BY <1>7, <2>4, <2>7
    <3>2. j \in DOMAIN filteredfeed /\ filteredfeed'[j] = filteredfeed[j]
      BY <1>7, <1>8, <3>1
    <3>3. Est(filteredfeed[j].sp) > 0 /\ feed[Message(filteredfeed[j])].ver > 0
      BY <1>2, <2>7, <3>2 DEF InSketch
    <3>4. /\ Estimate(Filter!Counted, filteredfeed[j].sp) \in Nat
          /\ Est(filteredfeed[j].sp) \in Nat
          /\ Est(filteredfeed[j].sp) <= Estimate(Filter!Counted, filteredfeed[j].sp)
      BY <1>1, <1>16, <3>2, CountedStream
    <3> QED
      BY <3>2, <3>3, <3>4
  <2>8. InSketch'
    <3>1. /\ \A j \in DOMAIN filteredfeed' :
                feed[Message(filteredfeed'[j])].ver <= Estimate(hexaCMS', filteredfeed'[j].sp)
          /\ \A j \in DOMAIN filteredfeed' : filteredfeed'[j].verb = "delete" =>
                /\ Estimate(hexaCMS', filteredfeed'[j].sp) > 0
                /\ feed[Message(filteredfeed'[j])].ver > 0
      BY <2>2, <2>6, <2>7
    <3>2. DOMAIN todo' = {}
      BY <2>1
    <3> QED
      BY <1>1, <3>1, <3>2 DEF InSketch, Message, Est
  <2> QED
    BY <1>1, <1>14, <1>15, <1>17, <2>8 DEF StreamInv
<1>19. CASE Len(todo) # 1
  <2>1. todo' # <<>>
    BY <1>3, <1>4, <1>6, <1>19, EmptySeq
  <2>2. \A x : Est(x)' = Est(x)
    BY <1>1, <2>1 DEF Est
  <2>3. c.verb = "delete"
    <3>1. c.verb # "put"
      BY <1>2, <1>5, <1>19 DEF Ordered, c
    <3> QED
      BY <1>5, <3>1, StreamFacts DEF c
  <2>4. Est(Current.sp) > 0 /\ Current.ver > 0
    <3>1. Est(Current.sp) > 0
      BY <1>2, <1>5, <2>3 DEF InSketch, c
    <3> QED
      BY <1>12, <3>1
  <2>5. feed[Message(c)] = Current
    BY <1>11 DEF Current
  <2>6. ASSUME NEW j \in DOMAIN filteredfeed'
        PROVE  /\ \/ feed[Message(filteredfeed'[j])].ver <= Est(filteredfeed'[j].sp)
                  \/ Message(filteredfeed'[j]) = seen
               /\ filteredfeed'[j].verb = "delete" =>
                      /\ Est(filteredfeed'[j].sp) > 0
                      /\ feed[Message(filteredfeed'[j])].ver > 0
    <3>1. CASE j \in DOMAIN filteredfeed
      BY <1>2, <1>7, <3>1 DEF InSketch
    <3>2. CASE j = n
      BY <1>7, <1>11, <2>4, <2>5, <3>2
    <3> QED
      BY <1>8, <3>1, <3>2
  <2>7. \A k \in DOMAIN todo' : todo'[k].verb = "delete" => Est(Current.sp) > 0
    BY <2>4
  <2>8. Current' = Current
    BY <1>1 DEF Current
  <2>9. InSketch'
    BY <1>1, <2>1, <2>2, <2>6, <2>7, <2>8 DEF InSketch, Message, Est
  <2> QED
    BY <1>1, <1>14, <1>15, <1>17, <2>9 DEF StreamInv
<1> QED
  BY <1>18, <1>19

LEMMA PublishFailsStream ==
    ASSUME TypeInv, StreamInv, restarts = 0, PublishFails
    PROVE  StreamInv'
<1>1. /\ todo # <<>> /\ todo' = <<>> /\ hexaCMS' = Filter!Counted
      /\ UNCHANGED <<feed, seen, filteredfeed, trial, restarts>>
  BY DEF PublishFails, Filter!PublishFails
<1>2. Sourced /\ Ordered /\ InSketch /\ InOrder
  BY DEF StreamInv
<1>3. DOMAIN todo' = {}
  BY <1>1
<1>4. Sourced'
  BY <1>1, <1>2, <1>3 DEF Sourced, Tells, Message
<1>5. Ordered'
  BY <1>1, <1>2, <1>3 DEF Ordered
<1>6. \A j \in DOMAIN filteredfeed :
          /\ filteredfeed[j].sp \in SPs
          /\ feed[Message(filteredfeed[j])].ver <= Estimate(Filter!Counted, filteredfeed[j].sp)
          /\ Estimate(Filter!Counted, filteredfeed[j].sp) \in Nat
          /\ Est(filteredfeed[j].sp) \in Nat
          /\ Est(filteredfeed[j].sp) <= Estimate(Filter!Counted, filteredfeed[j].sp)
  BY <1>1, CountedStream, StreamFacts
<1>7. \A j \in DOMAIN filteredfeed : filteredfeed[j].verb = "delete" =>
          /\ Estimate(Filter!Counted, filteredfeed[j].sp) > 0
          /\ feed[Message(filteredfeed[j])].ver > 0
  <2> TAKE j \in DOMAIN filteredfeed
  <2> HAVE filteredfeed[j].verb = "delete"
  <2>1. Est(filteredfeed[j].sp) > 0 /\ feed[Message(filteredfeed[j])].ver > 0
    BY <1>2 DEF InSketch
  <2> QED
    BY <1>6, <2>1
<1>8. InSketch'
  <2>1. /\ \A j \in DOMAIN filteredfeed :
              feed[Message(filteredfeed[j])].ver <= Estimate(hexaCMS', filteredfeed[j].sp)
        /\ \A j \in DOMAIN filteredfeed : filteredfeed[j].verb = "delete" =>
              /\ Estimate(hexaCMS', filteredfeed[j].sp) > 0
              /\ feed[Message(filteredfeed[j])].ver > 0
    BY <1>1, <1>6, <1>7
  <2> QED
    BY <1>1, <1>3, <2>1 DEF InSketch, Message, Est
<1>9. InOrder'
  BY <1>1, <1>2 DEF InOrder, Message
<1> QED
  BY <1>4, <1>5, <1>8, <1>9 DEF StreamInv

(* The steps that touch neither stream. *)
LEMMA OtherStream ==
    ASSUME StreamInv,
           UNCHANGED <<feed, seen, hexaCMS, todo, filteredfeed, trial, restarts>>
    PROVE  StreamInv'
<1>1. Current' = Current
  BY DEF Current
<1>2. Sourced => Sourced'
  BY DEF Sourced, Tells, Message
<1>3. Ordered => Ordered'
  BY DEF Ordered
<1>4. InSketch => InSketch'
  BY <1>1 DEF InSketch, Message, Est
<1>5. InOrder => InOrder'
  BY DEF InOrder, Message
<1> QED
  BY <1>2, <1>3, <1>4, <1>5 DEF StreamInv

LEMMA RestartsGrow ==
    ASSUME TypeInv, [Next]_vars, restarts' = 0
    PROVE  ~Restart /\ restarts = 0
<1>1. restarts \in Nat
  BY TypeParts DEF TypeInv, OtherTypes
<1>2. ~Restart
  BY <1>1 DEF Restart
<1>3. restarts' = restarts
  BY <1>2 DEF Next, Arrive, Filtering, Storing, PublishFails, update_fails, Stopped, vars
<1> QED
  BY <1>2, <1>3

LEMMA NextStream == ASSUME TypeInv, StreamInv, [Next]_vars PROVE StreamInv'
<1>1. CASE restarts' # 0
  BY <1>1 DEF StreamInv
<1>2. CASE restarts' = 0
  <2>1. ~Restart /\ restarts = 0
    BY <1>2, RestartsGrow
  <2>2. CASE \E t \in trial.tuples : Arrive(t)
    BY <2>1, <2>2, ArriveStream
  <2>3. CASE Filtering(Filter!Decide) \/ Filtering(Filter!PassOver) \/ Filtering(Filter!Publish)
    BY <2>1, <2>3, DecideStream, PassOverStream, PublishStream
  <2>4. CASE PublishFails
    BY <2>1, <2>4, PublishFailsStream
  <2>5. CASE Storing(Hexa!Deliver) \/ Storing(Hexa!update_batch)
    BY <2>5, OtherStream DEF Storing, Hexa!Deliver, Hexa!update_batch, filterVars
  <2>6. CASE update_fails
    BY <2>6, OtherStream DEF update_fails, Hexa!update_fails, filterVars
  <2>7. CASE Stopped \/ UNCHANGED vars
    BY <2>7, OtherStream DEF Stopped, vars, filterVars
  <2> QED
    BY <2>1, <2>2, <2>3, <2>4, <2>5, <2>6, <2>7 DEF Next
<1> QED
  BY <1>1, <1>2

LEMMA StreamInvariant == Spec => []StreamInv
<1>1. TypeInv /\ StreamInv /\ [Next]_vars => StreamInv'
  BY NextStream
<1> QED
  BY InitStream, TypeInvariant, <1>1, PTL DEF Spec

(* The commands of a pair are published in the order of their Sequence and  *)
(* in that of their versions, with any hash functions in the sketch: until *)
(* a restart.                                                              *)
THEOREM PassesInOrder == Spec => []PassedInOrder
<1>1. StreamInv => PassedInOrder
  BY DEF StreamInv, Ordered, InOrder, PassedInOrder, VersionAt, Message
<1> QED
  BY StreamInvariant, <1>1, PTL

-----------------------------------------------------------------------------
(* The commands on a pair *)

(* A tuple with version 0, as in the genesis blocks, is alone with its pair. *)
GenesisAlone == \A tr \in Trials : \A t, u \in tr.tuples :
    t.ver = 0 /\ t.sp = u.sp => t = u

(* A put is the first command of its pair, or comes after a delete of the   *)
(* pair, or has version 0.                                                 *)
Paired ==
    /\ \A j \in DOMAIN filteredfeed : filteredfeed[j].verb = "put" =>
          \/ /\ j > 1 /\ filteredfeed[j - 1].verb = "delete"
             /\ filteredfeed[j - 1].sp = filteredfeed[j].sp
          \/ \A i \in DOMAIN filteredfeed : i < j => filteredfeed[i].sp # filteredfeed[j].sp
          \/ feed[Message(filteredfeed[j])].ver = 0
    /\ Len(todo) = 1 =>
          \/ Est(Current.sp) = 0
          \/ /\ Len(filteredfeed) \in DOMAIN filteredfeed
             /\ filteredfeed[Len(filteredfeed)].verb = "delete"
             /\ filteredfeed[Len(filteredfeed)].sp = Current.sp

OddPuts ==
    /\ \A j \in DOMAIN filteredfeed : filteredfeed[j].verb = "put" =>
          filteredfeed[j].seq = 2 * Message(filteredfeed[j]) + 1
    /\ \A k \in DOMAIN todo : todo[k].verb = "put" =>
          todo[k].seq = 2 * Message(todo[k]) + 1

PairedInv == restarts = 0 => Paired /\ OddPuts

LEMMA InitPaired == Init => PairedInv
<1> SUFFICES ASSUME Init PROVE PairedInv
  OBVIOUS
<1>1. filteredfeed = <<>> /\ todo = <<>> /\ Len(todo) = 0
  BY DEF Init, Filter!Init
<1> QED
  BY <1>1 DEF PairedInv, Paired, OddPuts

LEMMA ArrivePaired ==
    ASSUME TypeInv, StreamInv, PairedInv, restarts = 0, NEW t \in trial.tuples, Arrive(t)
    PROVE  PairedInv'
<1>1. feed' = Append(feed, t)
      /\ UNCHANGED <<seen, hexaCMS, todo, filteredfeed, trial, restarts>>
  BY DEF Arrive, Filtering, Filter!Arrive
<1>2. t \in Tuple
  BY TypeParts, TrialsAssumption DEF TypeInv, OtherTypes
<1>3. \A i \in 1..Len(feed) : feed'[i] = feed[i]
  BY <1>1, <1>2, StreamFacts, AppendProperties
<1>4. \A j \in DOMAIN filteredfeed : Message(filteredfeed[j]) \in 1..Len(feed)
  BY StreamFacts DEF StreamInv, Sourced
<1>5. Len(todo) = 1 => Current' = Current
  <2>1. Len(todo) = 1 => seen \in 1..Len(feed)
    BY CurrentIsTuple, StreamFacts
  <2> QED
    BY <1>1, <1>3, <2>1 DEF Current
<1>6. Paired /\ OddPuts
  BY DEF PairedInv
<1>7. \A j \in DOMAIN filteredfeed :
          feed'[Message(filteredfeed[j])] = feed[Message(filteredfeed[j])]
  BY <1>3, <1>4
<1>8. Paired'
  BY <1>1, <1>5, <1>6, <1>7 DEF Paired, Message, Est
<1>9. OddPuts'
  BY <1>1, <1>6 DEF OddPuts, Message
<1> QED
  BY <1>8, <1>9 DEF PairedInv

LEMMA DecidePaired ==
    ASSUME TypeInv, StreamInv, PairedInv, restarts = 0, Filtering(Filter!Decide)
    PROVE  PairedInv'
<1> DEFINE t == feed[seen + 1]
           i == seen + 1
           del == [verb |-> "delete", sp |-> t.sp, obj |-> t.obj, seq |-> 2 * i]
           put == [verb |-> "put", sp |-> t.sp, obj |-> t.obj, seq |-> 2 * i + 1]
<1>1. /\ seen < Len(feed) /\ todo = <<>> /\ seen' = i
      /\ todo' = IF Est(t.sp) > 0 THEN <<del, put>> ELSE <<put>>
      /\ UNCHANGED <<feed, hexaCMS, filteredfeed, trial, restarts>>
  BY SameOperators
     DEF Filtering, Filter!Decide, Filter!CanTake, Filter!CommandsFor, Filter!lastVer, Est
<1>2. i \in Nat /\ i \in DOMAIN feed
  BY <1>1, StreamFacts
<1>3. Paired /\ OddPuts
  BY DEF PairedInv
<1>4. put.verb = "put" /\ del.verb = "delete" /\ put.seq = 2 * i + 1
  OBVIOUS
<1>5. Message(put) = i
  BY <1>2, <1>4, MessageBounds
<1>6. Est(t.sp) \in Nat
  BY <1>2, StreamFacts
<1>7. Current' = t /\ \A x : Est(x)' = Est(x)
  BY <1>1 DEF Current, Est
<1> HIDE DEF i, t, del, put
<1>8. /\ \A k \in DOMAIN todo' : todo'[k] = put \/ todo'[k] = del
      /\ Len(todo') = 1 => Est(t.sp) = 0
  <2>1. CASE Est(t.sp) > 0
    <3>1. todo' = <<del, put>>
      BY <1>1, <2>1
    <3> QED
      BY <3>1
  <2>2. CASE ~ (Est(t.sp) > 0)
    <3>1. todo' = <<put>> /\ Est(t.sp) = 0
      BY <1>1, <1>6, <2>2
    <3> QED
      BY <3>1
  <2> QED
    BY <2>1, <2>2
<1>9. Len(todo') = 1 => Estimate(hexaCMS', Current'.sp) = 0
  BY <1>1, <1>7, <1>8 DEF Est
<1>10. Paired'
  BY <1>1, <1>3, <1>9 DEF Paired, Message, Est
<1>11. OddPuts'
  <2>1. \A k \in DOMAIN todo' : todo'[k].verb = "put" => todo'[k].seq = 2 * Message(todo'[k]) + 1
    BY <1>4, <1>5, <1>8
  <2> QED
    BY <1>1, <1>3, <2>1 DEF OddPuts, Message
<1> QED
  BY <1>10, <1>11 DEF PairedInv

(* While a put waits to be published, earlier commands of its pair are      *)
(* ruled out, unless its delete is the last of them or its version is 0.   *)
LEMMA PutIsPaired ==
    ASSUME TypeInv, StreamInv, PairedInv, restarts = 0, GenesisAlone,
           todo # <<>>, todo[1].verb = "put", Len(todo) = 1
    PROVE  \/ /\ Len(filteredfeed) \in DOMAIN filteredfeed
              /\ filteredfeed[Len(filteredfeed)].verb = "delete"
              /\ filteredfeed[Len(filteredfeed)].sp = Current.sp
           \/ \A i \in DOMAIN filteredfeed : filteredfeed[i].sp # Current.sp
           \/ Current.ver = 0
<1> SUFFICES ASSUME Est(Current.sp) = 0, Current.ver # 0,
                    NEW i \in DOMAIN filteredfeed, filteredfeed[i].sp = Current.sp
             PROVE  FALSE
  BY DEF PairedInv, Paired
<1>1. Sourced /\ Ordered /\ InSketch
  BY DEF StreamInv
<1>2. /\ 1 \in DOMAIN todo /\ todo[1].seq \in Nat /\ filteredfeed[i].seq \in Nat
      /\ filteredfeed[i].verb \in {"put", "delete"}
  BY StreamFacts
<1>3. filteredfeed[i].verb = "put"
  BY <1>1, <1>2 DEF InSketch
<1>4. Message(filteredfeed[i]) # seen
  <2> SUFFICES ASSUME Message(filteredfeed[i]) = seen PROVE FALSE
    OBVIOUS
  <2>1. filteredfeed[i].seq = 2 * seen + 1
    BY <1>3 DEF PairedInv, OddPuts
  <2>2. todo[1].seq = 2 * seen + 1
    BY <1>1, <1>2 DEF PairedInv, OddPuts, Sourced
  <2>3. filteredfeed[i].seq < todo[1].seq
    BY <1>1, <1>2 DEF Ordered
  <2> QED
    BY <1>2, <2>1, <2>2, <2>3
<1> DEFINE u == feed[Message(filteredfeed[i])]
<1>5. u.ver <= 0
  BY <1>1, <1>4 DEF InSketch
<1>6. Message(filteredfeed[i]) \in DOMAIN feed /\ u.sp = Current.sp
  BY <1>1, StreamFacts DEF Sourced, Tells
<1>7. seen \in DOMAIN feed
  BY CurrentIsTuple, StreamFacts
<1>8. u \in trial.tuples /\ Current \in trial.tuples /\ trial \in Trials
  BY <1>1, <1>6, <1>7, TypeParts DEF Sourced, Current, TypeInv, OtherTypes
<1>9. u.ver = 0
  BY <1>5, <1>6, StreamFacts
<1>10. u = Current
  BY <1>6, <1>8, <1>9 DEF GenesisAlone
<1> QED
  BY <1>9, <1>10

LEMMA PublishPaired ==
    ASSUME TypeInv, StreamInv, PairedInv, restarts = 0, GenesisAlone,
           Filtering(Filter!Publish)
    PROVE  PairedInv'
<1> DEFINE n == Len(filteredfeed) + 1
           c == todo[1]
<1>1. /\ todo # <<>>
      /\ filteredfeed' = Append(filteredfeed, Head(todo)) /\ todo' = Tail(todo)
      /\ hexaCMS' = IF Tail(todo) = <<>> THEN Filter!Counted ELSE hexaCMS
      /\ UNCHANGED <<feed, seen, trial, restarts>>
  BY DEF Filtering, Filter!Publish
<1>2. Sourced /\ Ordered /\ Paired /\ OddPuts
  BY DEF StreamInv, PairedInv
<1>3. /\ todo \in Seq(Command) /\ DOMAIN todo = 1..Len(todo) /\ Len(todo) \in Nat
      /\ filteredfeed \in Seq(Command) /\ Len(filteredfeed) \in Nat
      /\ DOMAIN filteredfeed = 1..Len(filteredfeed)
  BY StreamFacts
<1>4. Len(todo) # 0
  BY <1>1, <1>3, EmptySeq
<1>5. 1 \in DOMAIN todo /\ Head(todo) = c
  BY <1>3, <1>4
<1>6. /\ todo' \in Seq(Command) /\ Len(todo') = Len(todo) - 1
      /\ \A k \in 1..Len(todo') : todo'[k] = todo[k + 1]
      /\ DOMAIN todo' = 1..Len(todo')
  BY <1>1, <1>3, HeadTailProperties, LenProperties
<1>7. /\ DOMAIN filteredfeed' = 1..n /\ Len(filteredfeed') = n
      /\ \A j \in DOMAIN filteredfeed : filteredfeed'[j] = filteredfeed[j]
      /\ filteredfeed'[n] = c
  <2>1. c \in Command
    BY <1>3, <1>5, ElementOfSeq
  <2>2. /\ filteredfeed' \in Seq(Command)
        /\ Len(filteredfeed') = n
        /\ \A j \in 1..Len(filteredfeed) : filteredfeed'[j] = filteredfeed[j]
        /\ filteredfeed'[n] = c
    BY <1>1, <1>3, <1>5, <2>1, AppendProperties
  <2> QED
    BY <1>3, <2>2, LenProperties
<1>8. \A j \in DOMAIN filteredfeed' : j \in DOMAIN filteredfeed \/ j = n
  BY <1>3, <1>7
<1>9. n \in Nat /\ n > 0 /\ n - 1 = Len(filteredfeed)
  BY <1>3
<1>10. Message(c) = seen /\ c.sp = Current.sp /\ c.verb \in {"put", "delete"}
  BY <1>2, <1>5, StreamFacts DEF Sourced, Tells, Current
<1>11. c.verb = "put" <=> Len(todo) = 1
  BY <1>2, <1>5 DEF Ordered
<1>12. Current' = Current
  BY <1>1 DEF Current
<1> HIDE DEF c, n
<1>13. OddPuts'
  <2>1. \A k \in DOMAIN todo' : todo'[k].verb = "put" => todo'[k].seq = 2 * Message(todo'[k]) + 1
    <3>1. \A k \in DOMAIN todo' : k + 1 \in DOMAIN todo /\ todo'[k] = todo[k + 1]
      BY <1>3, <1>6
    <3> QED
      BY <1>2, <3>1 DEF OddPuts
  <2>2. \A j \in DOMAIN filteredfeed' : filteredfeed'[j].verb = "put" =>
            filteredfeed'[j].seq = 2 * Message(filteredfeed'[j]) + 1
    <3> TAKE j \in DOMAIN filteredfeed'
    <3>1. CASE j \in DOMAIN filteredfeed
      BY <1>2, <1>7, <3>1 DEF OddPuts
    <3>2. CASE j = n
      BY <1>2, <1>5, <1>7, <3>2 DEF OddPuts, c
    <3> QED
      BY <1>8, <3>1, <3>2
  <2> QED
    BY <2>1, <2>2 DEF OddPuts, Message
<1>14. ASSUME NEW j \in DOMAIN filteredfeed', filteredfeed'[j].verb = "put"
       PROVE  \/ /\ j > 1 /\ filteredfeed'[j - 1].verb = "delete"
                 /\ filteredfeed'[j - 1].sp = filteredfeed'[j].sp
              \/ \A i \in DOMAIN filteredfeed' :
                     i < j => filteredfeed'[i].sp # filteredfeed'[j].sp
              \/ feed[Message(filteredfeed'[j])].ver = 0
  <2>1. \A i \in DOMAIN filteredfeed' : i < j =>
            i \in DOMAIN filteredfeed /\ filteredfeed'[i] = filteredfeed[i]
    BY <1>3, <1>7 DEF n
  <2>2. CASE j \in DOMAIN filteredfeed
    <3>1. filteredfeed'[j] = filteredfeed[j]
          /\ (j > 1 => filteredfeed'[j - 1] = filteredfeed[j - 1])
      BY <1>3, <1>7, <2>2
    <3> QED
      BY <1>2, <1>14, <2>1, <2>2, <3>1 DEF Paired
  <2>3. CASE j = n
    <3>1. filteredfeed'[j] = c /\ Len(todo) = 1
      BY <1>7, <1>11, <1>14, <2>3
    <3>2. \/ /\ Len(filteredfeed) \in DOMAIN filteredfeed
             /\ filteredfeed[Len(filteredfeed)].verb = "delete"
             /\ filteredfeed[Len(filteredfeed)].sp = Current.sp
          \/ \A i \in DOMAIN filteredfeed : filteredfeed[i].sp # Current.sp
          \/ Current.ver = 0
      BY <1>1, <1>14, <3>1, PutIsPaired DEF c
    <3>3. Len(filteredfeed) \in DOMAIN filteredfeed => n > 1
      BY <1>3 DEF n
    <3> QED
      BY <1>7, <1>9, <1>10, <2>1, <2>3, <3>1, <3>2, <3>3 DEF Current
  <2> QED
    BY <1>8, <2>2, <2>3
<1>15. Len(todo') = 1 => /\ Len(filteredfeed') \in DOMAIN filteredfeed'
                         /\ filteredfeed'[Len(filteredfeed')].verb = "delete"
                         /\ filteredfeed'[Len(filteredfeed')].sp = Current.sp
  <2> SUFFICES ASSUME Len(todo') = 1
               PROVE  /\ Len(filteredfeed') \in DOMAIN filteredfeed'
                      /\ filteredfeed'[Len(filteredfeed')].verb = "delete"
                      /\ filteredfeed'[Len(filteredfeed')].sp = Current.sp
    OBVIOUS
  <2>1. Len(todo') = Len(todo) - 1 /\ Len(todo) \in Nat
    BY <1>3, <1>6
  <2>2. Len(todo) # 1
    BY <2>1
  <2> QED
    BY <1>7, <1>9, <1>10, <1>11, <2>2
<1>16. Paired'
  BY <1>1, <1>12, <1>14, <1>15 DEF Paired, Message
<1> QED
  BY <1>13, <1>16 DEF PairedInv

(* The steps that publish nothing and leave no put to be published. *)
LEMMA OtherPaired ==
    ASSUME PairedInv, UNCHANGED <<feed, filteredfeed, restarts>>,
           \/ todo' = <<>>
           \/ UNCHANGED <<seen, hexaCMS, todo>>
    PROVE  PairedInv'
<1>1. restarts' = 0 => Paired /\ OddPuts
  BY DEF PairedInv
<1>2. ASSUME OddPuts PROVE OddPuts'
  <2>1. CASE todo' = <<>>
    BY <1>2, <2>1 DEF OddPuts, Message
  <2>2. CASE UNCHANGED <<seen, hexaCMS, todo>>
    BY <1>2, <2>2 DEF OddPuts, Message
  <2> QED
    BY <2>1, <2>2
<1>3. ASSUME Paired PROVE Paired'
  <2>1. CASE todo' = <<>>
    <3>1. Len(todo') # 1
      BY <2>1
    <3> QED
      BY <1>3, <3>1 DEF Paired, Message
  <2>2. CASE UNCHANGED <<seen, hexaCMS, todo>>
    BY <1>3, <2>2 DEF Paired, Message, Est, Current
  <2> QED
    BY <2>1, <2>2
<1> QED
  BY <1>1, <1>2, <1>3 DEF PairedInv

LEMMA NextPaired ==
    ASSUME TypeInv, StreamInv, PairedInv, GenesisAlone, [Next]_vars
    PROVE  PairedInv'
<1>1. CASE restarts' # 0
  BY <1>1 DEF PairedInv
<1>2. CASE restarts' = 0
  <2>1. ~Restart /\ restarts = 0
    BY <1>2, RestartsGrow
  <2>2. CASE \E t \in trial.tuples : Arrive(t)
    BY <2>1, <2>2, ArrivePaired
  <2>3. CASE Filtering(Filter!Decide) \/ Filtering(Filter!Publish)
    BY <2>1, <2>3, DecidePaired, PublishPaired
  <2>4. CASE Filtering(Filter!PassOver)
    BY <2>4, OtherPaired DEF Filtering, Filter!PassOver, Filter!CanTake
  <2>5. CASE PublishFails
    BY <2>5, OtherPaired DEF PublishFails, Filter!PublishFails
  <2>6. CASE Storing(Hexa!Deliver) \/ Storing(Hexa!update_batch)
    BY <2>6, OtherPaired DEF Storing, Hexa!Deliver, Hexa!update_batch, filterVars
  <2>7. CASE update_fails
    BY <2>7, OtherPaired DEF update_fails, Hexa!update_fails, filterVars
  <2>8. CASE Stopped \/ UNCHANGED vars
    BY <2>8, OtherPaired DEF Stopped, vars, filterVars
  <2> QED
    BY <2>1, <2>2, <2>3, <2>4, <2>5, <2>6, <2>7, <2>8 DEF Next
<1> QED
  BY <1>1, <1>2

LEMMA PairedInvariant == GenesisAlone /\ Spec => []PairedInv
<1>1. GenesisAlone /\ TypeInv /\ StreamInv /\ PairedInv /\ [Next]_vars => PairedInv'
  BY NextPaired
<1> SUFFICES ASSUME GenesisAlone PROVE Spec => []PairedInv
  OBVIOUS
<1>2. TypeInv /\ StreamInv /\ PairedInv /\ [Next]_vars => PairedInv'
  BY <1>1
<1> QED
  BY InitPaired, TypeInvariant, StreamInvariant, <1>2, PTL DEF Spec

-----------------------------------------------------------------------------
(* The database *)

IndexInv == Whole => Hx!StoreInv

LEMMA IndexFacts ==
    ASSUME TypeInv
    PROVE  /\ taken \in 0..Len(filteredfeed)
           /\ commands \in Seq(Command) /\ Len(commands) \in Nat
           /\ DOMAIN commands = 1..Len(commands)
BY TypeParts, LenProperties DEF TypeInv, OtherTypes

LEMMA StoreTypes == ASSUME TypeInv PROVE Hx!HexaTypes
<1>1. Hx!TypeOK
  BY TypeParts, SameHexa DEF TypeInv, OtherTypes, Hx!TypeOK, Hx!DbTypes
<1> QED
  BY <1>1, StreamFacts, SameHexa DEF Hx!HexaTypes

(* What the hexastore asks of the stream, the conflict resolver provides.   *)
LEMMA StreamServes ==
    ASSUME TypeInv, StreamInv, PairedInv, GenesisAlone, restarts = 0
    PROVE  Numbered(filteredfeed) /\ Replacing(filteredfeed)
<1>1. Sourced /\ Ordered /\ InSketch /\ Paired
  BY DEF StreamInv, PairedInv
<1>2. Numbered(filteredfeed)
  BY <1>1 DEF Ordered, Numbered
<1>3. ASSUME NEW j \in DOMAIN filteredfeed, feed[Message(filteredfeed[j])].ver = 0,
             NEW k \in DOMAIN filteredfeed, filteredfeed[k].sp = filteredfeed[j].sp
      PROVE  filteredfeed[k].verb = "put" /\ filteredfeed[k].obj = filteredfeed[j].obj
  <2> DEFINE t == feed[Message(filteredfeed[j])]
             u == feed[Message(filteredfeed[k])]
  <2>1. /\ u.sp = filteredfeed[k].sp /\ u.obj = filteredfeed[k].obj
        /\ t.sp = filteredfeed[j].sp /\ t.obj = filteredfeed[j].obj
    BY <1>1 DEF Sourced, Tells
  <2>2. Message(filteredfeed[k]) \in DOMAIN feed /\ Message(filteredfeed[j]) \in DOMAIN feed
    BY <1>1, StreamFacts DEF Sourced
  <2>3. u \in trial.tuples /\ t \in trial.tuples /\ trial \in Trials
    BY <1>1, <2>2, TypeParts DEF Sourced, TypeInv, OtherTypes
  <2>4. t = u
    BY <1>3, <2>1, <2>3 DEF GenesisAlone
  <2>5. ~ (u.ver > 0)
    BY <1>3, <2>4
  <2>6. filteredfeed[k].verb # "delete"
    BY <1>1, <2>5 DEF InSketch
  <2> QED
    BY <2>1, <2>4, <2>6, StreamFacts
<1>4. Replacing(filteredfeed)
  BY <1>1, <1>3 DEF Paired, Replacing
<1> QED
  BY <1>2, <1>4

(* The commands are published in the order of their numbers, and no put     *)
(* takes the place of an object before a delete: however often the blocks   *)
(* come, whichever pairs collide in the sketch and whatever fails.         *)
THEOREM PutsReplace == GenesisAlone /\ Spec => []StreamReplaces
<1> SUFFICES ASSUME GenesisAlone PROVE Spec => []StreamReplaces
  OBVIOUS
<1>1. TypeInv /\ StreamInv /\ PairedInv => StreamReplaces
  BY StreamServes DEF StreamReplaces
<1>2. Spec => []PairedInv
  BY PairedInvariant
<1> QED
  BY <1>1, <1>2, TypeInvariant, StreamInvariant, PTL

(* So what is proved of a hexastore holds of this one.                     *)
LEMMA BatchIs ==
    ASSUME TypeInv, StreamInv, IndexInv, Whole
    PROVE  /\ Hx!HexaTypes /\ Hx!StoreInv /\ Hx!Numbered(filteredfeed)
           /\ Hx!Done \in Nat /\ taken \in Nat
           /\ \A c : c \in Hx!Batch(commands) <=>
                         \E k \in (Hx!Done + 1)..taken : c = filteredfeed[k]
           /\ \A i, j \in 1..taken : i < j => filteredfeed[i].seq < filteredfeed[j].seq
           /\ \A j \in 1..taken : j \in DOMAIN filteredfeed /\ filteredfeed[j].seq \in Nat
           /\ \A c, d \in Hx!Batch(commands) : c.sp = d.sp /\ c.seq = d.seq => c = d
           /\ \E bound \in Nat : Hx!Bounded(Hx!Batch(commands), bound)
<1>1. Hx!HexaTypes /\ Hx!StoreInv /\ Hx!Numbered(filteredfeed)
  BY StoreTypes, SameHexa DEF IndexInv, StreamInv, Ordered, Whole, Numbered
<1>2. \E bound \in Nat : Hx!Bounded(Hx!Batch(commands), bound)
  BY IndexFacts, SameHexa, Hx!BatchIsBounded
<1> QED
  BY <1>1, <1>2, Hx!BatchIs

LEMMA LastIs ==
    ASSUME TypeInv, StreamInv, IndexInv, Whole, NEW x \in Hx!Pairs(Hx!Batch(commands))
    PROVE  \E r \in 1..taken : /\ filteredfeed[r] = Hx!Last(Hx!Batch(commands), x)
                               /\ \A k \in (r + 1)..taken : filteredfeed[k].sp # x
BY BatchIs, Hx!LastIs

LEMMA CurrentIs ==
    Hexa!current = [sp \in SPs |-> IF Hx!SPKey(sp) \in DOMAIN db THEN db[Hx!SPKey(sp)] ELSE None]
BY SameHexa DEF Hexa!current

LEMMA SameCurrent == ASSUME db' = db PROVE Hexa!current' = Hexa!current
BY DEF Hexa!current, Hexa!SPKey

LEMMA InitIndex == Init => IndexInv
BY SameHexa, Hx!InitStore DEF Init, IndexInv

(* The steps of the filter: the stream may have grown.                     *)
LEMMA FilterIndex ==
    ASSUME TypeInv, IndexInv, UNCHANGED <<taken, commands, db, restarts, dropped>>,
           \A j \in DOMAIN filteredfeed : filteredfeed'[j] = filteredfeed[j]
    PROVE  IndexInv'
BY StoreTypes, Hx!GrowStore DEF IndexInv, Whole

LEMMA DeliverIndex ==
    ASSUME TypeInv, IndexInv, Storing(Hexa!Deliver)
    PROVE  IndexInv'
BY StoreTypes, SameHexa, Hx!DeliverStore DEF IndexInv, Whole, Storing

LEMMA UpdateIndex ==
    ASSUME TypeInv, StreamInv, PairedInv, IndexInv, GenesisAlone,
           Storing(Hexa!update_batch)
    PROVE  IndexInv'
<1>1. UNCHANGED <<restarts, dropped>> /\ Hx!update_batch
  BY SameHexa DEF Storing
<1>2. ASSUME Whole PROVE Hx!StoreInv'
  <2>1. Hx!Numbered(filteredfeed) /\ Hx!Replacing(filteredfeed)
    BY <1>2, StreamServes, SameHexa DEF Whole
  <2> QED
    BY <1>1, <1>2, <2>1, BatchIs, Hx!UpdateStore
<1> QED
  BY <1>1, <1>2 DEF IndexInv, Whole

LEMMA FilterSteps ==
    ASSUME TypeInv,
           \/ \E t \in trial.tuples : Arrive(t)
           \/ Filtering(Filter!Decide) \/ Filtering(Filter!PassOver)
           \/ Filtering(Filter!Publish)
           \/ PublishFails \/ Stopped \/ UNCHANGED vars
    PROVE  /\ UNCHANGED <<taken, commands, db, restarts, dropped>>
           /\ \A j \in DOMAIN filteredfeed : filteredfeed'[j] = filteredfeed[j]
<1>1. UNCHANGED <<taken, commands, db, restarts, dropped>>
  BY DEF Arrive, Filtering, PublishFails, Stopped, hexaVars, vars
<1>2. CASE Filtering(Filter!Publish)
  <2>1. todo # <<>> /\ filteredfeed' = Append(filteredfeed, Head(todo))
    BY <1>2 DEF Filtering, Filter!Publish
  <2>2. Head(todo) \in Command /\ filteredfeed \in Seq(Command)
    BY <2>1, TodoParts, StreamFacts
  <2>3. \A j \in 1..Len(filteredfeed) : filteredfeed'[j] = filteredfeed[j]
    BY <2>1, <2>2, AppendProperties
  <2> QED
    BY <1>1, <2>3, StreamFacts
<1>3. CASE ~Filtering(Filter!Publish)
  <2>1. filteredfeed' = filteredfeed
    BY <1>3 DEF Arrive, Filtering, PublishFails, Stopped, vars, Filter!Arrive,
                Filter!Decide, Filter!PassOver, Filter!PublishFails
  <2> QED
    BY <1>1, <2>1
<1> QED
  BY <1>2, <1>3

LEMMA NextIndex ==
    ASSUME TypeInv, StreamInv, PairedInv, IndexInv, GenesisAlone, [Next]_vars
    PROVE  IndexInv'
<1>1. CASE \/ \E t \in trial.tuples : Arrive(t)
           \/ Filtering(Filter!Decide) \/ Filtering(Filter!PassOver)
           \/ Filtering(Filter!Publish)
           \/ PublishFails \/ Stopped \/ UNCHANGED vars
  BY <1>1, FilterSteps, FilterIndex
<1>2. CASE Storing(Hexa!Deliver) \/ Storing(Hexa!update_batch)
  BY <1>2, DeliverIndex, UpdateIndex
<1>3. CASE update_fails \/ Restart
  <2>1. ~Whole'
    <3>1. restarts \in Nat
      BY TypeParts DEF TypeInv, OtherTypes
    <3> QED
      BY <1>3, <3>1 DEF update_fails, Restart, Whole
  <2> QED
    BY <2>1 DEF IndexInv
<1> QED
  BY <1>1, <1>2, <1>3 DEF Next

LEMMA IndexInvariant == GenesisAlone /\ Spec => []IndexInv
<1> SUFFICES ASSUME GenesisAlone PROVE Spec => []IndexInv
  OBVIOUS
<1>1. TypeInv /\ StreamInv /\ PairedInv /\ IndexInv /\ [Next]_vars => IndexInv'
  BY NextIndex
<1>2. Spec => []PairedInv
  BY PairedInvariant
<1> QED
  BY InitIndex, TypeInvariant, StreamInvariant, <1>1, <1>2, PTL DEF Spec

(* A query finds one object of a pair, and finds it by every permutation,   *)
(* whatever the batches are and whichever pairs collide in the sketch.     *)
THEOREM IndexIsConsistent == GenesisAlone /\ Spec => []IndexConsistent
<1>1. IndexInv => IndexConsistent
  <2> SUFFICES ASSUME IndexInv, Whole, NEW x \in SPs, NEW o \in Objects, NEW p \in Hx!Perms
               PROVE  Hx!Key(p, x, o) \in DOMAIN db <=> Hexa!current[x] = o
    BY SameHexa DEF IndexConsistent, OneObject
  <2>1. Hx!Key(p, x, o) \in DOMAIN db <=>
            Hx!SPKey(x) \in DOMAIN db /\ db[Hx!SPKey(x)] = o
    BY DEF IndexInv, Hx!StoreInv, Hx!AllOrNone
  <2>2. o # None
    BY PairAssumption
  <2>3. Hexa!current[x] = IF Hx!SPKey(x) \in DOMAIN db THEN db[Hx!SPKey(x)] ELSE None
    BY CurrentIs
  <2> QED
    BY <2>1, <2>2, <2>3
<1> SUFFICES ASSUME GenesisAlone PROVE Spec => []IndexConsistent
  OBVIOUS
<1>2. Spec => []IndexInv
  BY IndexInvariant
<1> QED
  BY <1>1, <1>2, PTL

-----------------------------------------------------------------------------
(* Objects that come back *)


(* The object of a pair may come back to an earlier one.                   *)
Returns(tr, x) ==
    \/ tr.copies > 1
    \/ \E t, u \in tr.tuples : t # u /\ t.sp = x /\ u.sp = x /\ t.obj = u.obj

(* It does so for no pair that sorts before a pair with versions.          *)
NoneReturnsBeside == \A tr \in Trials : \A t, u \in tr.tuples :
    t.sp < u.sp /\ u.ver > 0 => ~Returns(tr, t.sp)

(* Without copies, a tuple reaches the feed once.                          *)
OnceInv == trial.copies <= 1 =>
    \A i, j \in DOMAIN feed : feed[i] = feed[j] => i = j

LEMMA CopiesAre ==
    ASSUME TypeInv, NEW t
    PROVE  Filter!Copies(t) \in Nat /\ (Filter!Copies(t) = 0 => \A i \in DOMAIN feed : feed[i] # t)
<1> DEFINE S == {i \in DOMAIN feed : feed[i] = t}
<1>1. DOMAIN feed = 1..Len(feed) /\ Len(feed) \in Nat
  BY StreamFacts
<1>2. IsFiniteSet(1..Len(feed)) /\ S \subseteq 1..Len(feed)
  BY <1>1, FS_Interval
<1>3. IsFiniteSet(S)
  BY <1>2, FS_Subset
<1>4. Cardinality(S) \in Nat /\ (Cardinality(S) = 0 => S = {})
  BY <1>3, FS_CardinalityType, FS_EmptySet
<1>5. Filter!Copies(t) = Cardinality(S)
  <2>1. Filter!Cardinality(S) = Cardinality(S)
    BY DEF Filter!Cardinality, Cardinality
  <2> QED
    BY <2>1, Zenon DEF Filter!Copies
<1> QED
  BY <1>4, <1>5

LEMMA OnceInvariant == Spec => []OnceInv
<1>1. Init => OnceInv
  BY DEF Init, Filter!Init, OnceInv
<1>2. ASSUME TypeInv, OnceInv, [Next]_vars PROVE OnceInv'
  <2>1. CASE \E t \in trial.tuples : Arrive(t)
    <3>1. PICK t \in trial.tuples : Arrive(t)
      BY <2>1
    <3>2. feed' = Append(feed, t) /\ trial' = trial /\ Filter!Copies(t) < trial.copies
      BY <3>1 DEF Arrive, Filtering, Filter!Arrive
    <3>3. t \in Tuple /\ trial.copies \in Nat
      BY <1>2, TypeParts, TrialsAssumption DEF TypeInv, OtherTypes
    <3>4. /\ feed \in Seq(Tuple) /\ Len(feed) \in Nat /\ DOMAIN feed = 1..Len(feed)
          /\ DOMAIN feed' = 1..(Len(feed) + 1)
          /\ \A i \in 1..Len(feed) : feed'[i] = feed[i]
          /\ feed'[Len(feed) + 1] = t
      BY <1>2, <3>2, <3>3, StreamFacts, AppendProperties, LenProperties
    <3>5. SUFFICES ASSUME trial.copies <= 1 PROVE OnceInv'
      BY <3>2 DEF OnceInv
    <3>6. \A i \in DOMAIN feed : feed[i] # t
      <4>1. Filter!Copies(t) = 0
        BY <1>2, <3>2, <3>3, <3>5, CopiesAre
      <4> QED
        BY <1>2, <4>1, CopiesAre
    <3>7. \A i, j \in DOMAIN feed : feed[i] = feed[j] => i = j
      BY <1>2, <3>5 DEF OnceInv
    <3> QED
      BY <3>4, <3>6, <3>7 DEF OnceInv
  <2>2. CASE UNCHANGED <<feed, trial>>
    BY <1>2, <2>2 DEF OnceInv
  <2>3. (\E t \in trial.tuples : Arrive(t)) \/ UNCHANGED <<feed, trial>>
    BY <1>2 DEF Next, Filtering, Filter!Decide, Filter!PassOver, Filter!Publish,
        PublishFails, Filter!PublishFails, Storing, filterVars, update_fails,
        Restart, Filter!Restart, Stopped, vars
  <2> QED
    BY <2>1, <2>2, <2>3
<1> QED
  BY <1>1, <1>2, TypeInvariant, PTL DEF Spec

-----------------------------------------------------------------------------
(* What the database does not show. *)

(* The last command on x among the first n, if there is one, is a delete.  *)
Gone(x, n) == \A j \in 1..n :
    filteredfeed[j].sp = x /\ filteredfeed[j].verb = "put" =>
        \E k \in (j + 1)..n : filteredfeed[k].sp = x
GoneInv == Whole => \A x \in SPs : Hx!SPKey(x) \notin DOMAIN db => Gone(x, Hx!Done)

(* A pair that is put back to its object is not deleted by another group.  *)
LEMMA RestoredStays ==
    ASSUME TypeInv, StreamInv, PairedInv, IndexInv, OnceInv, Whole, NoneReturnsBeside,
           NEW x \in SPs, Hx!Restores(Hx!Batch(commands), x)
    PROVE  ~Hx!Unstores(Hx!Batch(commands), x)
<1> DEFINE B == Hx!Batch(commands)
           key == Hx!SPKey(x)
<1> SUFFICES ASSUME Hx!Unstores(B, x) PROVE FALSE
  OBVIOUS
<1>0. PICK bound \in Nat : Hx!Bounded(B, bound)
  BY BatchIs
<1>1. Sourced /\ Ordered /\ InSketch /\ OddPuts /\ Hx!Shown
  BY DEF StreamInv, PairedInv, IndexInv, Hx!StoreInv, Whole
<1>2. /\ x \in Hx!Issued(B) /\ Hx!Last(B, x).verb = "put"
      /\ Hx!Last(B, x).obj = db[key] /\ x \in Hx!Pairs(B) /\ key \in DOMAIN db
  BY DEF Hx!Restores, Hx!Issued
<1>3. PICK y \in Hx!Pairs(B) :
          /\ x \in Hx!Tmp(Hx!Issued(B), y)
          /\ \/ Hx!Last(B, y).verb = "delete"
             \/ y \in Hx!Issued(B) /\ ~Hx!Restores(B, y)
  BY DEF Hx!Unstores
<1>4. y \in SPs /\ x <= y /\ (y \in Hx!Issued(B) => y <= x)
  <2>2. y \in SPs
    BY <1>0 DEF Hx!Bounded, Hx!Pairs, Hx!Command
  <2>3. y <= y
    BY <2>2
  <2> QED
    BY <1>3, <2>2, <2>3 DEF Hx!Tmp
<1>5. y # x
  BY <1>2, <1>3
<1>6. x < y /\ Hx!Last(B, y).verb = "delete"
  BY <1>3, <1>4, <1>5
<1> HIDE DEF B
(* The tuple deleted in the group of y has a version. *)
<1>7. PICK m \in DOMAIN filteredfeed : filteredfeed[m] = Hx!Last(B, y)
  BY BatchIs, LastIs DEF B
<1>8. filteredfeed[m].sp = y
  BY <1>3, <1>7, <1>0, Hx!FirstAndLast DEF B
<1> DEFINE u == feed[Message(filteredfeed[m])]
<1>9. u \in trial.tuples /\ u.sp = y /\ u.ver > 0
  <2>1. Message(filteredfeed[m]) \in DOMAIN feed /\ u.sp = y
    BY <1>1, <1>8, StreamFacts DEF Sourced, Tells
  <2> QED
    BY <1>1, <1>6, <1>7, <2>1 DEF Sourced, InSketch
(* The put that stored x and the one that restores it. *)
<1>10. PICK j \in 1..Hx!Done : Hx!ShownAt(x, j, Hx!Done)
  BY <1>1, <1>2 DEF Hx!Shown
<1>11. PICK r \in (Hx!Done + 1)..taken : filteredfeed[r] = Hx!Last(B, x)
  <2>1. Hx!Last(B, x) \in B
    BY <1>2, <1>0, Hx!FirstAndLast DEF B
  <2> QED
    BY <2>1, BatchIs DEF B
<1>12. /\ j \in DOMAIN filteredfeed /\ r \in DOMAIN filteredfeed /\ j < r
       /\ filteredfeed[j].seq \in Nat /\ filteredfeed[r].seq \in Nat
  BY BatchIs
<1>13. /\ filteredfeed[j].sp = x /\ filteredfeed[j].verb = "put"
       /\ filteredfeed[j].obj = db[key]
       /\ filteredfeed[r].sp = x /\ filteredfeed[r].verb = "put"
       /\ filteredfeed[r].obj = db[key]
  BY <1>2, <1>10, <1>11, <1>0, Hx!FirstAndLast DEF Hx!ShownAt, B
<1> DEFINE s == feed[Message(filteredfeed[j])]
           t == feed[Message(filteredfeed[r])]
<1>14. Message(filteredfeed[j]) # Message(filteredfeed[r])
  <2>1. filteredfeed[j].seq < filteredfeed[r].seq
    BY <1>1, <1>12 DEF Ordered
  <2> QED
    BY <1>1, <1>12, <1>13, <2>1 DEF OddPuts
<1>15. Message(filteredfeed[j]) \in DOMAIN feed /\ Message(filteredfeed[r]) \in DOMAIN feed
  BY <1>1, <1>12, StreamFacts DEF Sourced
<1>16. /\ s \in trial.tuples /\ s.sp = x /\ t \in trial.tuples /\ t.sp = x
       /\ s.obj = t.obj
  BY <1>1, <1>12, <1>13, <1>15 DEF Sourced, Tells
<1>17. trial \in Trials /\ trial.copies \in Nat
  BY TypeParts, TrialsAssumption DEF TypeInv, OtherTypes
<1>18. ~Returns(trial, x)
  BY <1>6, <1>9, <1>16, <1>17 DEF NoneReturnsBeside
<1>19. trial.copies <= 1 /\ s = t
  BY <1>16, <1>17, <1>18 DEF Returns
<1> QED
  BY <1>14, <1>15, <1>19 DEF OnceInv

LEMMA GoneAfter ==
    ASSUME TypeInv, StreamInv, PairedInv, IndexInv, OnceInv, GoneInv, Whole,
           GenesisAlone, NoneReturnsBeside,
           NEW new, new = Hx!Executed(Hx!Out(Hx!Batch(commands))), NEW x \in SPs,
           Hx!SPKey(x) \notin DOMAIN new
    PROVE  Gone(x, taken)
<1> DEFINE B == Hx!Batch(commands)
           key == Hx!SPKey(x)
<1>1. Hx!AllOrNone(db, x)
  BY DEF IndexInv, Hx!StoreInv
<1>0. PICK bound \in Nat : Hx!Bounded(B, bound)
  BY BatchIs
<1>2. /\ bound \in Nat /\ Hx!Bounded(B, bound)
      /\ \A c, d \in B : c.sp = d.sp /\ c.seq = d.seq => c = d
      /\ Hx!Done \in Nat /\ taken \in Nat
  BY <1>0, BatchIs
<1>3. new = Hx!Executed(Hx!Out(B))
  OBVIOUS
<1>4. ASSUME x \in Hx!Pairs(B), Hx!Last(B, x).verb = "delete" PROVE Gone(x, taken)
  <2>1. PICK r \in 1..taken : /\ filteredfeed[r] = Hx!Last(B, x)
                              /\ \A k \in (r + 1)..taken : filteredfeed[k].sp # x
    BY <1>4, LastIs
  <2>2. Hx!Last(B, x).sp = x
    BY <1>2, <1>4, Hx!FirstAndLast
  <2> SUFFICES ASSUME NEW j \in 1..taken, filteredfeed[j].sp = x, filteredfeed[j].verb = "put"
               PROVE  r \in (j + 1)..taken
    BY <2>1, <2>2 DEF Gone
  <2>3. j # r
    BY <1>4, <2>1
  <2>4. j \notin (r + 1)..taken
    BY <2>1
  <2> QED
    BY <1>2, <2>3, <2>4
<1>5. x \in Hx!Pairs(B) => Hx!Last(B, x).verb \in {"put", "delete"}
  BY <1>2, Hx!FirstAndLast DEF Hx!Bounded, Hx!Command
<1>6. ~Hx!Stores(B, x)
  <2> SUFFICES ASSUME Hx!Stores(B, x) PROVE FALSE
    OBVIOUS
  <2> HIDE DEF B
  <2>1. key \in Hx!PairKeys(x) /\ key \in Hx!Keys(x, Hx!Last(B, x).obj)
    BY Hx!KeysHave DEF Hx!PairKeys
  <2> QED
    BY <1>2, <1>3, <2>1, Hx!KeyAfter
<1>7. CASE Hx!Unstores(B, x)
  <2>1. x \in Hx!Issued(B) /\ x \in Hx!Pairs(B)
    BY <1>7, Hx!UnstoresIssued DEF Hx!Issued
  <2>2. ~Hx!Restores(B, x)
    BY <1>7, RestoredStays
  <2>3. Hx!Last(B, x).verb = "delete"
    BY <1>5, <1>6, <2>1, <2>2 DEF Hx!Stores
  <2> QED
    BY <1>4, <2>1, <2>3
<1>8. CASE ~Hx!Unstores(B, x)
  <2>1. key \notin DOMAIN db
    <3> HIDE DEF B
    <3> QED
      BY <1>1, <1>2, <1>3, <1>6, <1>8, Hx!PairUntouched
  <2>2. CASE x \in Hx!Pairs(B)
    <3>1. ~Hx!Restores(B, x)
      BY <2>1 DEF Hx!Restores, Hx!Issued
    <3>2. Hx!Last(B, x).verb = "delete"
      BY <1>5, <1>6, <2>2, <3>1 DEF Hx!Stores
    <3> QED
      BY <1>4, <2>2, <3>2
  <2>3. CASE x \notin Hx!Pairs(B)
    <3>1. Gone(x, Hx!Done)
      BY <2>1 DEF GoneInv
    <3>2. \A k \in (Hx!Done + 1)..taken : filteredfeed[k].sp # x
      BY <2>3, BatchIs DEF Hx!Pairs
    <3>3. Hx!Done <= taken
      BY IndexFacts, <1>2 DEF Hx!Done
    <3> SUFFICES ASSUME NEW j \in 1..taken, filteredfeed[j].sp = x, filteredfeed[j].verb = "put"
                 PROVE  \E k \in (j + 1)..taken : filteredfeed[k].sp = x
      BY DEF Gone
    <3>4. j \in 1..Hx!Done
      BY <1>2, <3>2
    <3>5. PICK k \in (j + 1)..Hx!Done : filteredfeed[k].sp = x
      BY <3>1, <3>4 DEF Gone
    <3>6. k \in (j + 1)..taken
      BY <1>2, <3>3
    <3> QED
      BY <3>5, <3>6
  <2> QED
    BY <2>2, <2>3
<1> QED
  BY <1>7, <1>8


LEMMA GoneKept ==
    ASSUME TypeInv, IndexInv, GoneInv, UNCHANGED <<db, restarts, dropped>>,
           Hx!Done' = Hx!Done, \A j \in DOMAIN filteredfeed : filteredfeed'[j] = filteredfeed[j]
    PROVE  GoneInv'
<1> SUFFICES ASSUME Whole, NEW x \in SPs, Hx!SPKey(x) \notin DOMAIN db
             PROVE  Gone(x, Hx!Done)'
  BY DEF GoneInv, Whole, Hx!SPKey
<1>1. Gone(x, Hx!Done)
  BY DEF GoneInv
<1>2. \A j \in 1..Hx!Done : j \in DOMAIN filteredfeed
  BY IndexFacts, StreamFacts DEF IndexInv, Hx!StoreInv, Hx!Collected, Hx!Done
<1>3. Hx!Done \in Nat
  BY DEF IndexInv, Hx!StoreInv, Hx!Collected
<1>4. \A j \in 1..Hx!Done : filteredfeed'[j] = filteredfeed[j]
  BY <1>2
<1> SUFFICES ASSUME NEW j \in 1..Hx!Done, filteredfeed[j].sp = x, filteredfeed[j].verb = "put"
             PROVE  \E k \in (j + 1)..Hx!Done : filteredfeed'[k].sp = x
  BY <1>4 DEF Gone
<1>5. PICK k \in (j + 1)..Hx!Done : filteredfeed[k].sp = x
  BY <1>1 DEF Gone
<1> QED
  BY <1>3, <1>4, <1>5

(* The hexastore takes a command: it is collected, not yet executed.       *)
LEMMA DeliverDone ==
    ASSUME TypeInv, Storing(Hexa!Deliver)
    PROVE  Hx!Done' = Hx!Done
<1>1. /\ taken' = taken + 1
      /\ commands' = Append(commands, filteredfeed[taken + 1])
      /\ taken < Len(filteredfeed)
  BY DEF Storing, Hexa!Deliver
<1>2. /\ taken \in Nat /\ Len(commands) \in Nat
      /\ commands \in Seq(Command) /\ filteredfeed[taken + 1] \in Command
  BY <1>1, IndexFacts, StreamFacts, ElementOfSeq
<1>3. Len(commands') = Len(commands) + 1
  BY <1>1, <1>2, AppendProperties
<1>4. (taken + 1) - (Len(commands) + 1) = taken - Len(commands)
  BY <1>2
<1> QED
  BY <1>1, <1>3, <1>4, Zenon DEF Hx!Done

(* All that is collected is executed.                                      *)
LEMMA UpdateDone ==
    ASSUME TypeInv, IndexInv, Whole, Storing(Hexa!update_batch)
    PROVE  /\ Hx!Done' = taken /\ Hx!Done \in Nat /\ taken \in (Hx!Done + 1)..Len(filteredfeed)
           /\ db' = Hx!Executed(Hx!Out(Hx!Batch(commands)))
           /\ UNCHANGED <<filteredfeed, restarts, dropped>>
<1>1. /\ commands # <<>> /\ commands' = <<>>
      /\ db' = Hx!Executed(Hx!Out(Hx!Batch(commands)))
      /\ UNCHANGED <<filteredfeed, taken, restarts, dropped>>
  BY SameHexa, Hx!BatchStep DEF Storing
<1>2. /\ taken \in Nat /\ Len(commands) \in Nat /\ commands \in Seq(Command)
      /\ taken \in 0..Len(filteredfeed) /\ Len(filteredfeed) \in Nat
  BY IndexFacts, StreamFacts
<1>3. Len(commands') = 0 /\ Len(commands) # 0
  BY <1>1, <1>2, EmptySeq
<1>4. taken - 0 = taken
  BY <1>2
<1>5. Hx!Done' = taken
  BY <1>1, <1>3, <1>4, Zenon DEF Hx!Done
<1>6. Hx!Done \in Nat /\ Hx!Done < taken
  BY <1>2, <1>3 DEF Hx!Done, IndexInv, Hx!StoreInv, Hx!Collected
<1> QED
  BY <1>1, <1>2, <1>5, <1>6

LEMMA NextGone ==
    ASSUME TypeInv, StreamInv, PairedInv, IndexInv, OnceInv, GoneInv,
           GenesisAlone, NoneReturnsBeside, [Next]_vars
    PROVE  GoneInv'
<1>1. CASE \/ \E t \in trial.tuples : Arrive(t)
           \/ Filtering(Filter!Decide) \/ Filtering(Filter!PassOver)
           \/ Filtering(Filter!Publish)
           \/ PublishFails \/ Stopped \/ UNCHANGED vars
  <2>1. Hx!Done' = Hx!Done
    BY <1>1, FilterSteps DEF Hx!Done
  <2> QED
    BY <1>1, <2>1, FilterSteps, GoneKept
<1>2. CASE Storing(Hexa!Deliver)
  <2>1. UNCHANGED <<db, restarts, dropped, filteredfeed>>
    BY <1>2 DEF Storing, Hexa!Deliver
  <2> QED
    BY <1>2, <2>1, DeliverDone, GoneKept
<1>3. CASE Storing(Hexa!update_batch)
  <2> SUFFICES ASSUME Whole', NEW x \in SPs, Hx!SPKey(x) \notin DOMAIN db'
               PROVE  Gone(x, Hx!Done)'
    BY DEF GoneInv, Hx!SPKey
  <2>1. Whole
    BY <1>3 DEF Whole, Storing
  <2>2. Gone(x, taken)
    BY <1>3, <2>1, GoneAfter, UpdateDone
  <2> QED
    BY <1>3, <2>1, <2>2, UpdateDone DEF Gone
<1>4. CASE update_fails \/ Restart
  <2>1. ~Whole'
    <3>1. restarts \in Nat
      BY TypeParts DEF TypeInv, OtherTypes
    <3> QED
      BY <1>4, <3>1 DEF update_fails, Restart, Whole
  <2> QED
    BY <2>1 DEF GoneInv
<1> QED
  BY <1>1, <1>2, <1>3, <1>4 DEF Next

LEMMA GoneInvariant == GenesisAlone /\ NoneReturnsBeside /\ Spec => []GoneInv
<1> SUFFICES ASSUME GenesisAlone, NoneReturnsBeside PROVE Spec => []GoneInv
  OBVIOUS
<1>1. Init => GoneInv
  <2> SUFFICES ASSUME Init PROVE GoneInv
    OBVIOUS
  <2>1. taken = 0 /\ commands = <<>> /\ Len(commands) = 0 /\ 0 - 0 = 0
    BY DEF Init, Hexa!Init
  <2>2. Hx!Done = 0
    BY <2>1, Zenon DEF Hx!Done
  <2> QED
    BY <2>2 DEF GoneInv, Gone
<1>2. /\ TypeInv /\ StreamInv /\ PairedInv /\ IndexInv /\ OnceInv /\ GoneInv /\ [Next]_vars
      => GoneInv'
  BY NextGone
<1>3. Spec => []PairedInv
  BY PairedInvariant
<1>4. Spec => []IndexInv
  BY IndexInvariant
<1> QED
  BY <1>1, <1>2, <1>3, <1>4, TypeInvariant, StreamInvariant, OnceInvariant, PTL DEF Spec

-----------------------------------------------------------------------------
(* The log of commands *)

(* The last command on a pair decides its effect.                          *)
LEMMA EffectIs ==
    ASSUME NEW x, NEW n \in Nat
    PROVE  /\ (\A i \in 1..n : filteredfeed[i].sp # x) => Log!Effect(x, n) = None
           /\ \A j \in 1..n :
                filteredfeed[j].sp = x /\ (\A k \in (j + 1)..n : filteredfeed[k].sp # x)
                => Log!Effect(x, n) = IF filteredfeed[j].verb = "put"
                                      THEN filteredfeed[j].obj ELSE None
<1> DEFINE On == Log!On(x, n)
           last == CHOOSE i \in On : \A y \in On : y <= i
<1>1. /\ \A i : i \in On <=> i \in 1..n /\ filteredfeed[i].sp = x
      /\ Log!Effect(x, n) =
             IF On = {} THEN None
             ELSE IF filteredfeed[last].verb = "put" THEN filteredfeed[last].obj ELSE None
  BY DEF Log!On, Log!Effect
<1> HIDE DEF On
<1>2. ASSUME NEW j \in 1..n, filteredfeed[j].sp = x,
             \A k \in (j + 1)..n : filteredfeed[k].sp # x
      PROVE  On # {} /\ last = j
  <2>1. j \in On /\ \A y \in On : y <= j /\ y \in Nat
    BY <1>1, <1>2
  <2>2. \A i \in On : (\A y \in On : y <= i) => i = j
    BY <2>1
  <2> QED
    BY <2>1, <2>2
<1> QED
  BY <1>1, <1>2

(* The last command on a pair, if there is one.                            *)
LEMMA LastOn ==
    ASSUME NEW x, NEW n \in Nat, NEW i \in 1..n, filteredfeed[i].sp = x
    PROVE  \E j \in 1..n : /\ filteredfeed[j].sp = x
                           /\ \A k \in (j + 1)..n : filteredfeed[k].sp # x
<1> DEFINE S == {k \in 1..n : filteredfeed[k].sp = x}
<1>1. PICK j \in S : \A k \in S : k <= j
  <2>1. S \in SUBSET Nat /\ S # {} /\ \A k \in S : k <= n
    OBVIOUS
  <2> QED
    BY <2>1, GreatestOf
<1>2. \A k \in (j + 1)..n : k \notin S /\ k \in 1..n
  BY <1>1
<1> QED
  BY <1>1, <1>2

(* The database shows the effect of the commands executed so far.          *)
ViewInv == Whole => Hexa!current = [sp \in SPs |-> Log!Effect(sp, Hx!Done)]

LEMMA ViewIsEffect == ASSUME TypeInv, IndexInv, GoneInv PROVE ViewInv
<1> SUFFICES ASSUME Whole PROVE Hexa!current = [sp \in SPs |-> Log!Effect(sp, Hx!Done)]
  BY DEF ViewInv
<1>1. Hx!Done \in Nat /\ Hx!Shown
  BY DEF IndexInv, Hx!StoreInv, Hx!Collected
<1>2. ASSUME NEW x \in SPs
      PROVE  (IF Hx!SPKey(x) \in DOMAIN db THEN db[Hx!SPKey(x)] ELSE None)
                 = Log!Effect(x, Hx!Done)
  <2>1. CASE Hx!SPKey(x) \in DOMAIN db
    <3>1. PICK j \in 1..Hx!Done : Hx!ShownAt(x, j, Hx!Done)
      BY <1>1, <2>1 DEF Hx!Shown
    <3>2. Log!Effect(x, Hx!Done) = filteredfeed[j].obj
      BY <1>1, <3>1, EffectIs DEF Hx!ShownAt
    <3> QED
      BY <2>1, <3>1, <3>2 DEF Hx!ShownAt
  <2>2. CASE Hx!SPKey(x) \notin DOMAIN db
    <3>1. Gone(x, Hx!Done)
      BY <2>2 DEF GoneInv
    <3>2. CASE \A i \in 1..Hx!Done : filteredfeed[i].sp # x
      BY <1>1, <2>2, <3>2, EffectIs
    <3>3. CASE \E i \in 1..Hx!Done : filteredfeed[i].sp = x
      <4>1. PICK j \in 1..Hx!Done : /\ filteredfeed[j].sp = x
                                 /\ \A k \in (j + 1)..Hx!Done : filteredfeed[k].sp # x
        BY <1>1, <3>3, LastOn
      <4>2. filteredfeed[j].verb # "put"
        BY <3>1, <4>1 DEF Gone
      <4> QED
        BY <1>1, <2>2, <4>1, <4>2, EffectIs
    <3> QED
      BY <3>2, <3>3
  <2> QED
    BY <2>1, <2>2
<1> QED
  BY <1>2, CurrentIs

LEMMA LogStarts == Init => Log!Init
<1> SUFFICES ASSUME Init PROVE Log!Init
  OBVIOUS
<1>1. /\ filteredfeed = <<>> /\ taken = 0 /\ commands = <<>> /\ db = <<>>
      /\ restarts = 0 /\ dropped = FALSE
  BY DEF Init, Filter!Init, Hexa!Init
<1>2. Len(commands) = 0 /\ 0 - 0 = 0 /\ DOMAIN db = {}
  BY <1>1
<1>3. taken - Len(commands) = 0
  BY <1>1, <1>2, Zenon
<1> QED
  BY <1>1, <1>2, <1>3, CurrentIs DEF Log!Init, Whole

LEMMA PublishIsPublish ==
    ASSUME TypeInv, Filtering(Filter!Publish)
    PROVE  Log!Publish
<1>1. /\ todo # <<>> /\ filteredfeed' = Append(filteredfeed, Head(todo))
      /\ UNCHANGED <<taken, commands, db>>
  BY DEF Filtering, Filter!Publish, hexaVars
<1>2. Head(todo) \in Command /\ filteredfeed \in Seq(Command) /\ Len(filteredfeed) \in Nat
  BY <1>1, TodoParts, StreamFacts
<1>3. Len(filteredfeed') = Len(filteredfeed) + 1
      /\ \A j \in 1..Len(filteredfeed) : filteredfeed'[j] = filteredfeed[j]
      /\ filteredfeed' \in Seq(Command)
  BY <1>1, <1>2, AppendProperties
<1>4. SubSeq(filteredfeed', 1, Len(filteredfeed)) = filteredfeed
  BY <1>1, <1>2, <1>3
<1>5. Hexa!current' = Hexa!current
  BY <1>1, SameCurrent
<1> QED
  BY <1>1, <1>3, <1>4, <1>5 DEF Log!Publish

LEMMA UpdateIsExecute ==
    ASSUME TypeInv, IndexInv, ViewInv', Whole, Storing(Hexa!update_batch)
    PROVE  Log!Execute
<1>1. /\ Hx!Done' = taken /\ Hx!Done \in Nat /\ taken \in (Hx!Done + 1)..Len(filteredfeed)
      /\ UNCHANGED <<filteredfeed, restarts, dropped>>
  BY UpdateDone
<1>2. Hexa!current' = [sp \in SPs |-> Log!Effect(sp, Hx!Done)]'
  BY <1>1 DEF ViewInv, Whole
<1> QED
  BY <1>1, <1>2 DEF Log!Execute, Hx!Done, Log!Effect, Log!On

LEMMA NextLogs ==
    ASSUME TypeInv, IndexInv, ViewInv', [Next]_vars
    PROVE  [Log!Next]_<<filteredfeed, Hx!Done, Hexa!current, ~Whole>>
<1>1. CASE ~Whole'
  BY <1>1 DEF Log!Next, Log!Replay
<1>2. CASE Whole'
  <2>1. Whole
    <3>1. restarts \in Nat /\ dropped \in BOOLEAN
      BY TypeParts DEF TypeInv, OtherTypes
    <3>2. restarts' \in {restarts, restarts + 1} /\ (dropped => dropped')
      BY DEF Next, Arrive, Filtering, Storing, PublishFails, update_fails, Restart,
             Stopped, vars
    <3> QED
      BY <1>2, <3>1, <3>2 DEF Whole
  <2>2. ~Restart /\ ~update_fails
    <3>1. restarts \in Nat
      BY TypeParts DEF TypeInv, OtherTypes
    <3> QED
      BY <1>2, <3>1 DEF Restart, update_fails, Whole
  <2>3. CASE Filtering(Filter!Publish)
    BY <1>2, <2>1, <2>3, PublishIsPublish DEF Log!Next
  <2>4. CASE Storing(Hexa!update_batch)
    BY <1>2, <2>1, <2>4, UpdateIsExecute DEF Log!Next
  <2>5. CASE Storing(Hexa!Deliver)
    <3>1. UNCHANGED <<db, restarts, dropped, filteredfeed>>
      BY <2>5 DEF Storing, Hexa!Deliver
    <3>2. Hexa!current' = Hexa!current
      BY <3>1, SameCurrent
    <3> QED
      BY <2>5, <3>1, <3>2, DeliverDone DEF Whole
  <2>6. CASE \/ \E t \in trial.tuples : Arrive(t)
             \/ Filtering(Filter!Decide) \/ Filtering(Filter!PassOver)
             \/ PublishFails \/ Stopped \/ UNCHANGED vars
    <3>1. UNCHANGED <<taken, commands, db, restarts, dropped>>
      BY <2>6, FilterSteps
    <3>2. filteredfeed' = filteredfeed
      BY <2>6 DEF Arrive, Filtering, PublishFails, Stopped, vars, Filter!Arrive,
                  Filter!Decide, Filter!PassOver, Filter!PublishFails
    <3>3. Hexa!current' = Hexa!current
      BY <3>1, SameCurrent
    <3> QED
      BY <3>1, <3>2, <3>3 DEF Hx!Done, Whole
  <2> QED
    BY <2>2, <2>3, <2>4, <2>5, <2>6 DEF Next
<1> QED
  BY <1>1, <1>2

(* Taking commands in batches, in each of which only the first and the last *)
(* command of a pair count, cannot be told from executing them one by one,  *)
(* until a batch is lost or a restart has them read again: if no object of  *)
(* a pair comes back while a pair that sorts after it has versions.        *)
THEOREM WriteImplementsLog ==
    ASSUME GenesisAlone, NoneReturnsBeside PROVE Spec => ImplementsLog
<1>1. Spec => []TypeInv /\ []IndexInv /\ []GoneInv
  BY TypeInvariant, IndexInvariant, GoneInvariant
<1>2. TypeInv /\ IndexInv /\ GoneInv => ViewInv
  BY ViewIsEffect
<1>3. TypeInv /\ IndexInv /\ ViewInv' /\ [Next]_vars
      => [Log!Next]_<<filteredfeed, taken - Len(commands), Hexa!current, ~Whole>>
  BY NextLogs DEF Hx!Done
<1> QED
  BY <1>1, <1>2, <1>3, LogStarts, PTL DEF Spec, ImplementsLog, Log!Spec

-----------------------------------------------------------------------------
(* The latest version *)

(* One pair has one tuple of each version.                                 *)
VersionsTell == \A tr \in Trials : \A t, u \in tr.tuples :
    t.sp = u.sp /\ t.ver = u.ver => t = u

-----------------------------------------------------------------------------
Version(j) == feed[Message(filteredfeed[j])].ver
IsPut(j, x) == filteredfeed[j].verb = "put" /\ filteredfeed[j].sp = x

(* The sketch knows of no version that was not put.                        *)
EstimatesPut == \A x \in SPs : Est(x) = 0 \/
    \E j \in DOMAIN filteredfeed : IsPut(j, x) /\ Est(x) <= Version(j)

(* Of the pair of each message dealt with, as late a version was put.      *)
DealtWith == \A i \in DOMAIN feed : i < seen \/ (i = seen /\ todo = <<>>) =>
    \E j \in DOMAIN filteredfeed : IsPut(j, feed[i].sp) /\ feed[i].ver <= Version(j)

(* No delete is the last command of its pair for long.                     *)
PutFollows == \A j \in DOMAIN filteredfeed : filteredfeed[j].verb = "delete" =>
    \/ j + 1 \in DOMAIN filteredfeed /\ filteredfeed[j + 1].sp = filteredfeed[j].sp
    \/ j = Len(filteredfeed) /\ todo # <<>> /\ filteredfeed[j].sp = Current.sp

Latest == ExactLeast(hexaCMS) /\ EstimatesPut /\ DealtWith /\ PutFollows
LatestInv == Whole /\ filter = "on" => Latest

LEMMA InitLatest == Init => LatestInv
<1> SUFFICES ASSUME Init PROVE Latest
  BY DEF LatestInv
<1>1. filteredfeed = <<>> /\ feed = <<>> /\ todo = <<>> /\ hexaCMS = NewSketch
  BY SameOperators DEF Init, Filter!Init
<1>2. ExactLeast(hexaCMS)
  BY <1>1, NewSketchIsExact
<1>3. \A x \in SPs : Est(x) = 0
  BY <1>1, NewSketchIsEmpty DEF Est
<1>4. EstimatesPut
  BY <1>3 DEF EstimatesPut
<1>5. DealtWith /\ PutFollows
  BY <1>1 DEF DealtWith, PutFollows
<1> QED
  BY <1>2, <1>4, <1>5 DEF Latest

LEMMA ArriveLatest ==
    ASSUME TypeInv, StreamInv, Latest, restarts = 0, NEW t \in trial.tuples, Arrive(t)
    PROVE  Latest'
<1>1. feed' = Append(feed, t)
      /\ UNCHANGED <<seen, hexaCMS, todo, filteredfeed, trial, restarts>>
  BY DEF Arrive, Filtering, Filter!Arrive
<1>2. t \in Tuple
  BY TypeParts, TrialsAssumption DEF TypeInv, OtherTypes
<1>3. /\ feed \in Seq(Tuple) /\ Len(feed) \in Nat /\ DOMAIN feed = 1..Len(feed)
      /\ \A i \in 1..Len(feed) : feed'[i] = feed[i]
      /\ feed' \in Seq(Tuple) /\ DOMAIN feed' = 1..(Len(feed) + 1)
      /\ seen \in 0..Len(feed)
  BY <1>1, <1>2, StreamFacts, AppendProperties, LenProperties
<1>4. \A j \in DOMAIN filteredfeed : Version(j)' = Version(j)
  <2>1. \A j \in DOMAIN filteredfeed : Message(filteredfeed[j]) \in 1..Len(feed)
    BY StreamFacts DEF StreamInv, Sourced
  <2> QED
    BY <1>1, <1>3, <2>1 DEF Version, Message
<1>5. todo # <<>> => Current' = Current
  BY <1>1, <1>3, CurrentIsTuple DEF Current
<1>6. ExactLeast(hexaCMS)'
  BY <1>1 DEF Latest, ExactLeast, Exact, Rows
<1>7. EstimatesPut'
  BY <1>1, <1>4 DEF Latest, EstimatesPut, Est, IsPut
<1>8. DealtWith'
  <2> SUFFICES ASSUME NEW i \in DOMAIN feed', i < seen \/ (i = seen /\ todo = <<>>)
               PROVE  \E j \in DOMAIN filteredfeed : IsPut(j, feed[i].sp)' /\ feed'[i].ver <= Version(j)'
    BY <1>1 DEF DealtWith
  <2>1. i \in DOMAIN feed /\ feed'[i] = feed[i]
    BY <1>3
  <2>2. PICK j \in DOMAIN filteredfeed : IsPut(j, feed[i].sp) /\ feed[i].ver <= Version(j)
    BY <2>1 DEF Latest, DealtWith
  <2> QED
    BY <1>1, <1>4, <2>1, <2>2 DEF IsPut
<1>9. PutFollows'
  BY <1>1, <1>5 DEF Latest, PutFollows
<1> QED
  BY <1>6, <1>7, <1>8, <1>9 DEF Latest

(* A message is taken from the feed: the last one was dealt with.          *)
LEMMA DecideLatest ==
    ASSUME TypeInv, StreamInv, Latest, restarts = 0, Filtering(Filter!Decide)
    PROVE  Latest'
<1>1. /\ seen < Len(feed) /\ todo = <<>> /\ seen' = seen + 1
      /\ UNCHANGED <<feed, hexaCMS, filteredfeed, trial, restarts>>
  BY DEF Filtering, Filter!Decide, Filter!CanTake
<1>2. todo' # <<>>
  BY DEF Filtering, Filter!Decide, Filter!CommandsFor
<1>3. seen \in Nat /\ DOMAIN feed = 1..Len(feed) /\ Len(feed) \in Nat
  BY StreamFacts
<1>4. ExactLeast(hexaCMS)' /\ EstimatesPut'
  BY <1>1 DEF Latest, ExactLeast, Exact, Rows, EstimatesPut, Est, IsPut, Version, Message
<1>5. DealtWith'
  BY <1>1, <1>2, <1>3 DEF Latest, DealtWith, IsPut, Version, Message
<1>6. PutFollows'
  BY <1>1 DEF Latest, PutFollows
<1> QED
  BY <1>4, <1>5, <1>6 DEF Latest

(* A message is passed over for a version that was put, or for an object.  *)
LEMMA PassOverLatest ==
    ASSUME TypeInv, StreamInv, IndexInv, Latest, Whole, Filtering(Filter!PassOver)
    PROVE  Latest'
<1> DEFINE t == feed[seen + 1]
<1>1. /\ seen < Len(feed) /\ todo = <<>> /\ seen' = seen + 1 /\ ~Filter!Commits(t)
      /\ UNCHANGED <<feed, hexaCMS, filteredfeed, todo, trial, restarts>>
  BY DEF Filtering, Filter!PassOver, Filter!CanTake
<1>2. seen \in Nat /\ DOMAIN feed = 1..Len(feed) /\ Len(feed) \in Nat
  BY StreamFacts
<1>3. t.sp \in SPs /\ t.ver \in Nat /\ Est(t.sp) \in Nat
  <2>1. seen + 1 \in DOMAIN feed
    BY <1>1, <1>2
  <2>2. t.sp \in SPs /\ t.ver \in Nat
    BY <2>1, StreamFacts
  <2> QED
    BY <2>2, StreamFacts
<1>4. ExactLeast(hexaCMS)' /\ EstimatesPut'
  BY <1>1 DEF Latest, ExactLeast, Exact, Rows, EstimatesPut, Est, IsPut, Version, Message
<1>5. \/ Est(t.sp) > 0 /\ t.ver <= Est(t.sp)
      \/ t.ver = 0 /\ Hexa!current[t.sp] # None
  <2>1. ~ (Est(t.sp) < t.ver) /\ (Est(t.sp) = t.ver => Hexa!current[t.sp] # None)
    BY <1>1, SameOperators DEF Filter!Commits, Filter!lastVer, Est
  <2> QED
    BY <1>3, <2>1
<1>6. \E j \in DOMAIN filteredfeed : IsPut(j, t.sp) /\ t.ver <= Version(j)
  <2>1. CASE Est(t.sp) > 0 /\ t.ver <= Est(t.sp)
    <3>1. PICK j \in DOMAIN filteredfeed : IsPut(j, t.sp) /\ Est(t.sp) <= Version(j)
      <4>1. EstimatesPut /\ Est(t.sp) # 0
        BY <1>3, <2>1 DEF Latest
      <4> HIDE DEF t
      <4> QED
        BY <1>3, <4>1 DEF EstimatesPut
    <3>2. Version(j) \in Nat
      BY StreamFacts DEF StreamInv, Whole, Sourced, Version
    <3> QED
      BY <1>3, <2>1, <3>1, <3>2
  <2>2. CASE t.ver = 0 /\ Hexa!current[t.sp] # None
    <3>1. Hx!SPKey(t.sp) \in DOMAIN db
      BY <1>3, <2>2, CurrentIs
    <3>2. PICK j \in 1..Hx!Done : Hx!ShownAt(t.sp, j, Hx!Done)
      BY <1>3, <3>1 DEF IndexInv, Hx!StoreInv, Hx!Shown
    <3>3. j \in DOMAIN filteredfeed /\ IsPut(j, t.sp)
      BY <3>2, IndexFacts, StreamFacts DEF IndexInv, Hx!StoreInv, Hx!Collected, Hx!Done, Hx!ShownAt, IsPut
    <3>4. Version(j) \in Nat
      BY SMTT(20), <3>3, StreamFacts DEF StreamInv, Whole, Sourced, Version
    <3> QED
      BY <2>2, <3>3, <3>4
  <2> QED
    BY <1>5, <2>1, <2>2
<1>7. DealtWith'
  <2> SUFFICES ASSUME NEW i \in DOMAIN feed, i <= seen + 1
               PROVE  \E j \in DOMAIN filteredfeed :
                          IsPut(j, feed[i].sp) /\ feed[i].ver <= Version(j)
    BY <1>1, <1>2 DEF DealtWith, IsPut, Version, Message
  <2>1. CASE i = seen + 1
    BY <1>6, <2>1
  <2>2. CASE i < seen \/ i = seen
    BY <1>1, <2>2 DEF Latest, DealtWith
  <2> QED
    BY <1>2, <2>1, <2>2
<1>8. PutFollows'
  BY <1>1 DEF Latest, PutFollows
<1> QED
  BY <1>4, <1>7, <1>8 DEF Latest

(* A command is published; with the put its message has been dealt with.   *)
LEMMA PublishLatest ==
    ASSUME TypeInv, StreamInv, Latest, restarts = 0, Exact # {}, Filtering(Filter!Publish)
    PROVE  Latest'
<1> DEFINE c == todo[1]
<1>0. PICK n : n = Len(filteredfeed) + 1
  OBVIOUS
<1>1. /\ todo # <<>>
      /\ filteredfeed' = Append(filteredfeed, Head(todo)) /\ todo' = Tail(todo)
      /\ hexaCMS' = IF Tail(todo) = <<>> THEN Filter!Counted ELSE hexaCMS
      /\ UNCHANGED <<feed, seen, trial, restarts>>
  BY DEF Filtering, Filter!Publish
<1>2. Sourced /\ Ordered
  BY DEF StreamInv
<1>3. /\ todo \in Seq(Command) /\ DOMAIN todo = 1..Len(todo) /\ Len(todo) \in Nat
      /\ filteredfeed \in Seq(Command) /\ Len(filteredfeed) \in Nat
      /\ DOMAIN filteredfeed = 1..Len(filteredfeed)
      /\ DOMAIN feed = 1..Len(feed) /\ Len(feed) \in Nat
  BY StreamFacts
<1>4. Len(todo) # 0
  BY <1>1, <1>3, EmptySeq
<1>5. 1 \in DOMAIN todo /\ Head(todo) = c /\ c \in Command
  BY <1>3, <1>4, ElementOfSeq
<1>6. Tail(todo) = <<>> <=> Len(todo) = 1
  <2>1. Tail(todo) \in Seq(Command) /\ Len(Tail(todo)) = Len(todo) - 1
    BY <1>1, <1>3, HeadTailProperties
  <2>2. Tail(todo) = <<>> <=> Len(Tail(todo)) = 0
    BY <2>1, EmptySeq
  <2> QED
    BY <1>3, <2>1, <2>2
<1>7. /\ DOMAIN filteredfeed' = 1..n /\ Len(filteredfeed') = n
      /\ \A j \in DOMAIN filteredfeed : filteredfeed'[j] = filteredfeed[j]
      /\ filteredfeed'[n] = c
  <2>1. /\ filteredfeed' \in Seq(Command)
        /\ Len(filteredfeed') = n
        /\ \A j \in 1..Len(filteredfeed) : filteredfeed'[j] = filteredfeed[j]
        /\ filteredfeed'[n] = c
    BY <1>0, <1>1, <1>3, <1>5, AppendProperties
  <2> QED
    BY <1>3, <2>1, LenProperties
<1>8. /\ \A j \in DOMAIN filteredfeed' : j \in DOMAIN filteredfeed \/ j = n
      /\ \A j \in DOMAIN filteredfeed : j \in DOMAIN filteredfeed'
      /\ n \in DOMAIN filteredfeed' /\ n \in Nat /\ n - 1 = Len(filteredfeed)
  BY <1>0, <1>3, <1>7
<1>9. /\ Message(c) = seen /\ c.sp = Current.sp
      /\ c.verb = "put" <=> Len(todo) = 1
  BY <1>2, <1>5 DEF Sourced, Tells, Current, Ordered
<1>10. Current' = Current /\ Current \in Tuple /\ seen \in 1..Len(feed)
  BY <1>1, CurrentIsTuple DEF Current
<1>11. /\ \A j \in DOMAIN filteredfeed : Version(j)' = Version(j)
       /\ \A j \in DOMAIN filteredfeed : \A x : IsPut(j, x) => IsPut(j, x)'
       /\ Version(n)' = Current.ver
       /\ c.verb = "put" => \A x : x = Current.sp => IsPut(n, x)'
  <2>1. \A j \in DOMAIN filteredfeed : Version(j)' = Version(j)
    BY <1>1, <1>7 DEF Version, Message
  <2>2. \A j \in DOMAIN filteredfeed : \A x : IsPut(j, x) => IsPut(j, x)'
    BY <1>7 DEF IsPut
  <2>3. Version(n)' = Current.ver
    BY <1>1, <1>7, <1>9 DEF Version, Message, Current
  <2>4. c.verb = "put" => \A x : x = Current.sp => IsPut(n, x)'
    <3> HIDE DEF c
    <3>1. (filteredfeed[n])' = c
      BY <1>7
    <3> QED
      BY <1>9, <1>10, <3>1 DEF IsPut
  <2> QED
    BY <2>1, <2>2, <2>3, <2>4
<1> HIDE DEF c
<1>12. CASE Len(todo) # 1
  <2>1. hexaCMS' = hexaCMS /\ todo' # <<>>
    BY <1>1, <1>6, <1>12
  <2>2. ExactLeast(hexaCMS)' /\ EstimatesPut'
    <3>1. ExactLeast(hexaCMS)'
      BY <2>1 DEF Latest, ExactLeast, Exact, Rows
    <3>2. ASSUME NEW x \in SPs, Est(x)' # 0
          PROVE  \E j \in DOMAIN filteredfeed' : IsPut(j, x)' /\ Est(x)' <= Version(j)'
      <4>1. Est(x)' = Est(x)
        BY <2>1 DEF Est
      <4>2. PICK j \in DOMAIN filteredfeed : IsPut(j, x) /\ Est(x) <= Version(j)
        BY <3>2, <4>1 DEF Latest, EstimatesPut
      <4> QED
        BY <1>8, <1>11, <4>1, <4>2
    <3> QED
      BY <3>1, <3>2 DEF EstimatesPut
  <2>3. DealtWith'
    <3> SUFFICES ASSUME NEW i \in DOMAIN feed, i < seen
                 PROVE  \E j \in DOMAIN filteredfeed' :
                            IsPut(j, feed[i].sp)' /\ feed[i].ver <= Version(j)'
      BY <1>1, <2>1 DEF DealtWith, IsPut, Version, Message
    <3>1. PICK j \in DOMAIN filteredfeed : IsPut(j, feed[i].sp) /\ feed[i].ver <= Version(j)
      BY DEF Latest, DealtWith
    <3> QED
      BY <1>1, <1>8, <1>11, <3>1 DEF IsPut
  <2>4. PutFollows'
    <3> SUFFICES ASSUME NEW j \in DOMAIN filteredfeed', filteredfeed'[j].verb = "delete"
                 PROVE  \/ /\ j + 1 \in DOMAIN filteredfeed'
                           /\ filteredfeed'[j + 1].sp = filteredfeed'[j].sp
                        \/ j = n /\ filteredfeed'[j].sp = Current'.sp
      BY <1>7, <2>1 DEF PutFollows
    <3>1. CASE j = n
      BY <1>7, <1>9, <1>10, <3>1
    <3>2. CASE j \in DOMAIN filteredfeed
      <4>1. \/ j + 1 \in DOMAIN filteredfeed /\ filteredfeed[j + 1].sp = filteredfeed[j].sp
            \/ j = Len(filteredfeed) /\ filteredfeed[j].sp = Current.sp
        BY <1>7, <3>2 DEF Latest, PutFollows
      <4> QED
        BY <1>0, <1>3, <1>7, <1>8, <1>9, <3>2, <4>1
    <3> QED
      BY <1>8, <3>1, <3>2
  <2> QED
    BY <2>2, <2>3, <2>4 DEF Latest
<1>13. CASE Len(todo) = 1
  <2>1. hexaCMS' = Filter!Counted /\ c.verb = "put" /\ todo' = <<>>
    BY <1>1, <1>6, <1>9, <1>13
  <2>2. /\ Filter!Counted = Updated(hexaCMS, Current.sp, Current.ver - Est(Current.sp))
        /\ Estimate(Filter!Counted, Current.sp) = Current.ver
        /\ Current.ver - Est(Current.sp) \in Nat /\ hexaCMS \in Sketch
        /\ Current.sp \in SPs /\ Current.ver \in Nat
    BY <1>1, <1>10, CountedIs, CurrentIsTuple, TypeParts DEF Est, TypeInv, FilterTypes, Tuple
  <2>3. /\ ExactLeast(hexaCMS)
        /\ ExactLeast(Filter!Counted)
        /\ \A x \in SPs : x # Current.sp => Estimate(Filter!Counted, x) = Est(x)
    BY <2>2, ExactUpdated DEF Latest, Est
  <2>4. ExactLeast(hexaCMS)'
    BY <2>1, <2>3 DEF ExactLeast, Exact, Rows
  <2>5. EstimatesPut'
    <3> SUFFICES ASSUME NEW x \in SPs, Estimate(Filter!Counted, x) # 0
                 PROVE  \E j \in DOMAIN filteredfeed' :
                            IsPut(j, x)' /\ Estimate(Filter!Counted, x) <= Version(j)'
      BY <2>1 DEF EstimatesPut, Est, IsPut
    <3>1. CASE x = Current.sp
      <4>1. IsPut(n, x)' /\ Estimate(Filter!Counted, x) <= Version(n)'
        BY <1>11, <2>1, <2>2, <3>1
      <4> QED
        BY <1>8, <4>1
    <3>2. CASE x # Current.sp
      <4>1. Estimate(Filter!Counted, x) = Est(x)
        BY <2>3, <3>2
      <4>2. PICK j \in DOMAIN filteredfeed : IsPut(j, x) /\ Est(x) <= Version(j)
        BY <4>1 DEF Latest, EstimatesPut
      <4> QED
        BY <1>8, <1>11, <4>1, <4>2
    <3> QED
      BY <3>1, <3>2
  <2>6. DealtWith'
    <3> SUFFICES ASSUME NEW i \in DOMAIN feed, i < seen \/ i = seen
                 PROVE  \E j \in DOMAIN filteredfeed' :
                            IsPut(j, feed[i].sp)' /\ feed[i].ver <= Version(j)'
      BY <1>1 DEF DealtWith, IsPut, Version, Message
    <3>1. CASE i = seen
      <4>1. feed[i] = Current
        BY <3>1 DEF Current
      <4>2. /\ filteredfeed'[n].verb = "put" /\ filteredfeed'[n].sp = feed'[i].sp
            /\ feed[i].ver <= Version(n)'
        BY <1>1, <1>7, <1>9, <1>11, <2>1, <2>2, <4>1
      <4> QED
        BY <1>8, <4>2 DEF IsPut
    <3>2. CASE i < seen
      <4>1. PICK j \in DOMAIN filteredfeed : IsPut(j, feed[i].sp) /\ feed[i].ver <= Version(j)
        BY <3>2 DEF Latest, DealtWith
      <4> QED
        BY <1>1, <1>8, <1>11, <4>1 DEF IsPut
    <3> QED
      BY <3>1, <3>2
  <2>7. PutFollows'
    <3> SUFFICES ASSUME NEW j \in DOMAIN filteredfeed', filteredfeed'[j].verb = "delete"
                 PROVE  /\ j + 1 \in DOMAIN filteredfeed'
                        /\ filteredfeed'[j + 1].sp = filteredfeed'[j].sp
      BY DEF PutFollows
    <3>1. j \in DOMAIN filteredfeed
      BY <1>7, <1>8, <2>1
    <3>2. \/ j + 1 \in DOMAIN filteredfeed /\ filteredfeed[j + 1].sp = filteredfeed[j].sp
          \/ j = Len(filteredfeed) /\ filteredfeed[j].sp = Current.sp
      BY <1>7, <3>1 DEF Latest, PutFollows
    <3> QED
      BY <1>0, <1>3, <1>7, <1>8, <1>9, <3>1, <3>2
  <2> QED
    BY <2>4, <2>5, <2>6, <2>7 DEF Latest
<1> QED
  BY <1>12, <1>13

LEMMA NextLatest ==
    ASSUME TypeInv, StreamInv, IndexInv, LatestInv, Exact # {}, [Next]_vars
    PROVE  LatestInv'
<1> SUFFICES ASSUME Whole', filter' = "on" PROVE Latest'
  BY DEF LatestInv
<1>1. restarts \in Nat /\ dropped \in BOOLEAN /\ filter \in {"on", "off"}
  BY TypeParts DEF TypeInv, OtherTypes, FilterTypes
<1>2. ~Restart /\ ~PublishFails /\ ~update_fails
  BY <1>1 DEF Restart, PublishFails, Filter!PublishFails, update_fails, Whole
<1>3. Whole /\ filter = "on"
  BY <1>1, <1>2 DEF Next, Arrive, Filtering, Filter!Arrive, Filter!Decide, Filter!PassOver,
     Filter!Publish, Storing, filterVars, Stopped, vars, Whole
<1>4. Latest /\ restarts = 0
  BY <1>3 DEF LatestInv, Whole
<1>5. CASE \E t \in trial.tuples : Arrive(t)
  BY <1>4, <1>5, ArriveLatest
<1>6. CASE Filtering(Filter!Decide) \/ Filtering(Filter!PassOver) \/ Filtering(Filter!Publish)
  BY <1>3, <1>4, <1>6, DecideLatest, PassOverLatest, PublishLatest
<1>7. CASE Storing(Hexa!Deliver) \/ Storing(Hexa!update_batch) \/ Stopped \/ UNCHANGED vars
  <2>1. UNCHANGED <<feed, seen, hexaCMS, todo, filteredfeed>>
    BY <1>7 DEF Storing, Hexa!Deliver, Hexa!update_batch, filterVars, Stopped, vars
  <2> QED
    BY <1>4, <2>1 DEF Latest, ExactLeast, Exact, Rows, EstimatesPut, DealtWith, PutFollows,
       Est, IsPut, Version, Message, Current
<1> QED
  BY <1>2, <1>5, <1>6, <1>7 DEF Next

LEMMA LatestInvariant ==
    GenesisAlone /\ Exact # {} /\ Spec => []LatestInv
<1> SUFFICES ASSUME GenesisAlone, Exact # {} PROVE Spec => []LatestInv
  OBVIOUS
<1>1. TypeInv /\ StreamInv /\ IndexInv /\ LatestInv /\ [Next]_vars => LatestInv'
  BY NextLatest
<1>2. Spec => []IndexInv
  BY IndexInvariant
<1> QED
  BY InitLatest, TypeInvariant, StreamInvariant, <1>1, <1>2, PTL DEF Spec

(* The winner of a pair is the tuple of the version that no other reaches.  *)
LEMMA WinnerIs ==
    ASSUME TypeInv, StreamInv, VersionsTell, restarts = 0, NEW x \in SPs,
           NEW w \in Posted(x), \A u \in Posted(x) : u.ver <= w.ver
    PROVE  Winner(x) = w
<1>1. \A u \in Posted(x) : u \in trial.tuples /\ u \in Tuple /\ u.sp = x
  BY TypeParts, TrialsAssumption DEF StreamInv, Sourced, Posted, TypeInv, OtherTypes
<1>2. trial \in Trials
  BY TypeParts DEF TypeInv, OtherTypes
<1>3. \A u \in Posted(x) : u.ver \in Nat /\ u.obj \in Nat
  BY <1>1, PairAssumption DEF Tuple
<1>4. \A u \in Posted(x) : u.ver = w.ver => u = w
  BY <1>1, <1>2 DEF VersionsTell
<1>5. \A u \in Posted(x) : u.ver < w.ver \/ (u.ver = w.ver /\ u.obj <= w.obj)
  BY <1>3, <1>4
<1>6. ASSUME NEW t \in Posted(x),
             \A u \in Posted(x) : u.ver < t.ver \/ (u.ver = t.ver /\ u.obj <= t.obj)
      PROVE  t = w
  BY <1>3, <1>4, <1>6
<1> QED
  BY <1>5, <1>6 DEF Winner

LEMMA DrainedShowsLatest ==
    ASSUME TypeInv, StreamInv, IndexInv, ViewInv, LatestInv, VersionsTell, restarts = 0
    PROVE  LatestWins
<1> DEFINE n == Len(filteredfeed)
<1> SUFFICES ASSUME Drained, ~dropped, NEW x \in SPs, Posted(x) # {}
             PROVE  Hexa!current[x] = Winner(x).obj
  BY DEF LatestWins
<1>1. /\ filter = "on" /\ todo = <<>> /\ seen = Len(feed)
      /\ taken = n /\ commands = <<>> /\ Whole
  BY DEF Drained, Filter!Idle, Hexa!Idle, Whole
<1>2. /\ n \in Nat /\ DOMAIN filteredfeed = 1..n
      /\ DOMAIN feed = 1..seen /\ seen \in Nat
  BY <1>1, StreamFacts
<1>3. Hx!Done = n
  <2>1. Len(commands) = 0 /\ n - 0 = n
    BY <1>1, <1>2
  <2> QED
    BY <1>1, <2>1, Zenon DEF Hx!Done
<1>4. Latest /\ Sourced /\ InOrder
  BY <1>1 DEF LatestInv, StreamInv
<1> HIDE DEF n
<1>5. \A u \in Posted(x) : \E j \in 1..n : IsPut(j, x) /\ u.ver <= Version(j)
  <2> SUFFICES ASSUME NEW i \in DOMAIN feed, feed[i].sp = x
               PROVE  \E j \in 1..n : IsPut(j, x) /\ feed[i].ver <= Version(j)
    BY DEF Posted
  <2>1. i < seen \/ i = seen
    BY <1>2
  <2> QED
    BY <1>1, <1>2, <1>4, <2>1 DEF Latest, DealtWith
<1>6. PICK r \in 1..n : /\ filteredfeed[r].sp = x
                        /\ \A k \in (r + 1)..n : filteredfeed[k].sp # x
  <2>1. \E j \in 1..n : filteredfeed[j].sp = x
    BY <1>5 DEF IsPut
  <2> QED
    BY <1>2, <2>1, LastOn
<1>7. filteredfeed[r].verb = "put"
  <2>1. filteredfeed[r].verb # "delete"
    <3> SUFFICES ASSUME filteredfeed[r].verb = "delete" PROVE FALSE
      OBVIOUS
    <3>1. r + 1 \in 1..n /\ filteredfeed[r + 1].sp = x
      BY <1>1, <1>2, <1>4, <1>6 DEF Latest, PutFollows
    <3>2. r + 1 \in (r + 1)..n
      BY <1>2, <3>1
    <3> QED
      BY <1>6, <3>1, <3>2
  <2> QED
    BY <1>2, <2>1, StreamFacts
<1> DEFINE w == feed[Message(filteredfeed[r])]
<1>8. Message(filteredfeed[r]) \in DOMAIN feed /\ w.sp = x /\ w.obj = filteredfeed[r].obj
  BY <1>2, <1>4, <1>6 DEF Sourced, Tells
<1>9. w \in Posted(x)
  BY <1>8 DEF Posted
<1>10. ASSUME NEW u \in Posted(x) PROVE u.ver <= w.ver
  <2>1. PICK j \in 1..n : IsPut(j, x) /\ u.ver <= Version(j)
    BY <1>5
  <2>2. j = r \/ j < r
    <3>1. j \notin (r + 1)..n
      BY <1>6, <2>1 DEF IsPut
    <3> QED
      BY <1>2, <3>1
  <2>3. Version(j) <= w.ver
    <3>1. CASE j = r
      BY <1>8, <3>1, StreamFacts DEF Version
    <3>2. CASE j < r
      BY <1>2, <1>4, <1>6, <2>1, <3>2 DEF InOrder, IsPut, Version
    <3> QED
      BY <2>2, <3>1, <3>2
  <2>4. u.ver \in Nat /\ Version(j) \in Nat /\ w.ver \in Nat
    BY <1>2, <1>4, <1>8, StreamFacts DEF Posted, Sourced, Version
  <2> QED
    BY <2>1, <2>3, <2>4
<1>11. Winner(x) = w
  <2> HIDE DEF w
  <2> QED
    BY <1>9, <1>10, WinnerIs
<1>12. Hexa!current[x] = Log!Effect(x, n)
  BY <1>1, <1>3 DEF ViewInv
<1>13. Log!Effect(x, n) = filteredfeed[r].obj
  BY <1>2, <1>6, <1>7, EffectIs
<1> QED
  BY <1>8, <1>11, <1>12, <1>13

(* The database comes to show the latest version of each pair, in whatever  *)
(* order and however often the blocks came, however they were batched and  *)
(* whichever pairs collide in other rows of the sketch: if one row tells    *)
(* the pairs apart and a version the tuples of a pair, until a restart.    *)
THEOREM LatestVersionWins ==
    ASSUME GenesisAlone, NoneReturnsBeside, VersionsTell, Exact # {}
    PROVE  Spec => [](restarts = 0 => LatestWins)
<1>1. Spec => []TypeInv /\ []StreamInv /\ []IndexInv /\ []GoneInv /\ []LatestInv
  BY TypeInvariant, StreamInvariant, IndexInvariant, GoneInvariant, LatestInvariant
<1>2. /\ TypeInv /\ StreamInv /\ IndexInv /\ GoneInv /\ LatestInv
      => (restarts = 0 => LatestWins)
  BY ViewIsEffect, DrainedShowsLatest
<1> QED
  BY <1>1, <1>2, PTL

=============================================================================
