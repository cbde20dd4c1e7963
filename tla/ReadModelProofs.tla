-------------------------- MODULE ReadModelProofs ---------------------------
(***************************************************************************)
(* Proofs about a read model behind the conflict resolver, for both stores, *)
(* all pairs, tuples and hash functions, any number of restarts and of     *)
(* failed calls: every variable keeps its type, and what the store shows   *)
(* when all is done is the latest version, or nothing.                     *)
(***************************************************************************)
EXTENDS ReadModel, CountMinSketchProofs, SequenceTheorems, FiniteSetTheorems

USE PairAssumption, StoreAssumption

(* The instance of FilterFeed has operators of its own.                    *)
LEMMA SameOperators ==
    /\ Filter!Tuple = Tuple /\ Filter!Command = Command
    /\ Filter!Sketch = Sketch /\ Filter!NewSketch = NewSketch
    /\ \A cms, key : Filter!Estimate(cms, key) = Estimate(cms, key)
    /\ \A cms, key, count : Filter!Updated(cms, key, count) = Updated(cms, key, count)
    /\ \A S : Filter!Cardinality(S) = Cardinality(S)
<1>1. Filter!Tuple = Tuple /\ Filter!Command = Command
  BY DEF Filter!Tuple, Tuple, Filter!Command, Command
<1>2. Filter!Rows = Rows /\ Filter!Cells = Cells
  BY DEF Filter!Rows, Rows, Filter!Cells, Cells
<1>3. Filter!Sketch = Sketch /\ Filter!NewSketch = NewSketch
  BY <1>2 DEF Filter!Sketch, Sketch, Filter!NewSketch, NewSketch
<1>4. \A cms, key : Filter!Counters(cms, key) = Counters(cms, key)
  BY <1>2 DEF Filter!Counters, Counters
<1>5. \A cms, key : Filter!Estimate(cms, key) = Estimate(cms, key)
  BY <1>4 DEF Filter!Estimate, Estimate
<1>6. \A cms, key, count : Filter!Updated(cms, key, count) = Updated(cms, key, count)
  BY <1>2 DEF Filter!Updated, Updated
<1>7. \A S : Filter!Cardinality(S) = Cardinality(S)
  BY DEF Filter!Cardinality, Cardinality
<1> QED
  BY <1>1, <1>3, <1>5, <1>6, <1>7

Current == feed[seen]
Est(x)  == Estimate(hexaCMS, x)
Base(x) == Estimate(cmsFile, x)

(* The numbers of the commands for the first n messages of the feed.       *)
Seqs(s, n) == \A i \in DOMAIN s : s[i].seq <= 2 * n + 1

(* While commands wait to be published the sketch gives their tuple no later *)
(* version. Numbers have a bound: so each group has a last command.        *)
TypeInv ==
    /\ TypeOK
    /\ todo # <<>> => Est(Current.sp) <= Current.ver
    /\ Seqs(filteredfeed, Len(feed)) /\ Seqs(todo, Len(feed)) /\ Seqs(commands, Len(feed))

FilterTypes ==
    /\ feed \in Seq(Tuple) /\ seen \in 0..Len(feed)
    /\ hexaCMS \in Sketch /\ cmsFile \in Sketch
    /\ filteredfeed \in Seq(Command) /\ todo \in Seq(Command)
    /\ todo # <<>> => seen > 0
    /\ filter \in {"on", "off"}

StoreTypes ==
    /\ taken \in 0..Len(filteredfeed) /\ commands \in Seq(Command)
    /\ stored \in [SPs -> Objects \cup {None}]
    /\ {restarts, faults} \subseteq Nat /\ damaged \in BOOLEAN

LEMMA TypeParts == TypeOK <=> FilterTypes /\ StoreTypes
<1>1. Filter!TypeOK <=> FilterTypes
  BY SameOperators DEF Filter!TypeOK, FilterTypes
<1> QED
  BY <1>1 DEF TypeOK, StoreTypes

LEMMA TypePartsNext == TypeOK' <=> FilterTypes' /\ StoreTypes'
BY TypeParts, PTL

LEMMA Facts ==
    ASSUME TypeInv
    PROVE  /\ feed \in Seq(Tuple) /\ Len(feed) \in Nat /\ DOMAIN feed = 1..Len(feed)
           /\ \A i \in DOMAIN feed : /\ feed[i] \in Tuple /\ feed[i].sp \in SPs
                                     /\ feed[i].obj \in Objects /\ feed[i].ver \in Nat
           /\ seen \in 0..Len(feed) /\ hexaCMS \in Sketch
           /\ filteredfeed \in Seq(Command) /\ Len(filteredfeed) \in Nat
           /\ DOMAIN filteredfeed = 1..Len(filteredfeed)
           /\ \A j \in DOMAIN filteredfeed :
                 /\ filteredfeed[j] \in Command
                 /\ filteredfeed[j].sp \in SPs /\ filteredfeed[j].seq \in Nat
                 /\ filteredfeed[j].verb \in {"put", "delete"}
           /\ todo \in Seq(Command) /\ Len(todo) \in Nat /\ DOMAIN todo = 1..Len(todo)
           /\ commands \in Seq(Command) /\ Len(commands) \in Nat
           /\ DOMAIN commands = 1..Len(commands)
           /\ taken \in 0..Len(filteredfeed)
           /\ \A x \in SPs : Est(x) \in Nat
<1>1. /\ feed \in Seq(Tuple) /\ seen \in 0..Len(feed) /\ hexaCMS \in Sketch
      /\ filteredfeed \in Seq(Command) /\ todo \in Seq(Command)
      /\ commands \in Seq(Command) /\ taken \in 0..Len(filteredfeed)
  BY TypeParts DEF TypeInv, FilterTypes, StoreTypes
<1>2. /\ Len(feed) \in Nat /\ DOMAIN feed = 1..Len(feed)
      /\ Len(filteredfeed) \in Nat /\ DOMAIN filteredfeed = 1..Len(filteredfeed)
      /\ Len(todo) \in Nat /\ DOMAIN todo = 1..Len(todo)
      /\ Len(commands) \in Nat /\ DOMAIN commands = 1..Len(commands)
  BY <1>1, LenProperties
<1>3. /\ \A i \in DOMAIN feed : feed[i] \in Tuple
      /\ \A j \in DOMAIN filteredfeed : filteredfeed[j] \in Command
  BY <1>1, <1>2, ElementOfSeq
<1>4. \A x \in SPs : Est(x) \in Nat
  BY <1>1, EstimateIsLeast DEF Est
<1>5. \A t \in Tuple : t.sp \in SPs /\ t.obj \in Objects /\ t.ver \in Nat
  BY DEF Tuple
<1>6. \A c \in Command : c.sp \in SPs /\ c.seq \in Nat /\ c.verb \in {"put", "delete"}
  BY DEF Command
<1> QED
  BY <1>1, <1>2, <1>3, <1>4, <1>5, <1>6

-----------------------------------------------------------------------------
(* Sequences that grow at one end, or lose the other *)

LEMMA Grown ==
    ASSUME NEW S, NEW s \in Seq(S), NEW e \in S, NEW t, t = Append(s, e)
    PROVE  /\ t \in Seq(S) /\ Len(s) \in Nat /\ Len(t) = Len(s) + 1
           /\ DOMAIN s = 1..Len(s) /\ DOMAIN t = 1..(Len(s) + 1)
           /\ \A i \in 1..Len(s) : t[i] = s[i]
           /\ t[Len(s) + 1] = e
BY AppendProperties, LenProperties

LEMMA Shorter ==
    ASSUME NEW S, NEW s \in Seq(S), s # <<>>
    PROVE  /\ Head(s) \in S /\ Head(s) = s[1] /\ 1 \in DOMAIN s
           /\ Tail(s) \in Seq(S) /\ Len(Tail(s)) = Len(s) - 1
           /\ DOMAIN Tail(s) = 1..(Len(s) - 1)
           /\ \A i \in DOMAIN Tail(s) : i + 1 \in DOMAIN s /\ Tail(s)[i] = s[i + 1]
           /\ Tail(s) = <<>> <=> Len(s) = 1
<1>1. /\ Len(s) \in Nat /\ DOMAIN s = 1..Len(s)
  BY LenProperties
<1>2. Len(s) # 0
  BY <1>1, EmptySeq
<1>3. /\ Head(s) \in S /\ Tail(s) \in Seq(S) /\ Len(Tail(s)) = Len(s) - 1
      /\ \A i \in 1..Len(Tail(s)) : Tail(s)[i] = s[i + 1]
  BY HeadTailProperties
<1>4. DOMAIN Tail(s) = 1..Len(Tail(s))
  BY <1>3, LenProperties
<1>5. Tail(s) = <<>> <=> Len(Tail(s)) = 0
  BY <1>3, EmptySeq
<1>6. Head(s) = s[1]
  OBVIOUS
<1> QED
  BY <1>1, <1>2, <1>3, <1>4, <1>5, <1>6

LEMMA SeqsGrown ==
    ASSUME NEW s \in Seq(Command), NEW c \in Command, NEW n \in Nat,
           Seqs(s, n), c.seq <= 2 * n + 1
    PROVE  Seqs(Append(s, c), n)
<1> DEFINE t == Append(s, c)
<1>1. /\ Len(s) \in Nat /\ DOMAIN s = 1..Len(s) /\ DOMAIN t = 1..(Len(s) + 1)
      /\ \A i \in 1..Len(s) : t[i] = s[i]
      /\ t[Len(s) + 1] = c
  BY Grown
<1> HIDE DEF t
<1>2. \A i \in DOMAIN t : i \in DOMAIN s \/ i = Len(s) + 1
  BY <1>1
<1>3. Seqs(t, n)
  BY <1>1, <1>2 DEF Seqs
<1> QED
  BY <1>3 DEF t

LEMMA SeqsLonger ==
    ASSUME NEW s \in Seq(Command), NEW n \in Nat, Seqs(s, n)
    PROVE  Seqs(s, n + 1)
<1>1. \A i \in DOMAIN s : s[i] \in Command
  BY ElementOfSeq, LenProperties
<1>2. \A i \in DOMAIN s : s[i].seq \in Nat
  BY <1>1 DEF Command
<1> QED
  BY <1>2 DEF Seqs

-----------------------------------------------------------------------------
(* A batch *)

LEMMA BatchIs ==
    ASSUME TypeInv
    PROVE  \A c \in Batch(commands) : c \in Command /\ c.sp \in SPs /\ c.seq \in Nat
                                      /\ c.seq <= 2 * Len(feed) + 1
<1>1. \A i \in DOMAIN commands : commands[i] \in Command
  BY Facts, ElementOfSeq
<1> QED
  BY <1>1 DEF Batch, TypeInv, Seqs, Command

LEMMA LastIs ==
    ASSUME TypeInv, NEW x \in Pairs(Batch(commands))
    PROVE  LET B == Batch(commands) IN
           /\ x \in SPs /\ Last(B, x) \in B /\ Last(B, x) \in Command /\ Last(B, x).sp = x
           /\ \A c \in B : c.sp = x => c.seq <= Last(B, x).seq
<1> DEFINE B == Batch(commands)
           G == Group(B, x)
           S == {c.seq : c \in G}
           bound == 2 * Len(feed) + 1
<1>1. /\ G # {} /\ G \subseteq B /\ \A c \in G : c.sp = x
      /\ \A c \in B : c.sp = x => c \in G
  BY DEF Pairs, Group
<1>2. bound \in Nat /\ \A c \in B : c \in Command /\ c.sp \in SPs /\ c.seq \in Nat /\ c.seq <= bound
  BY BatchIs, Facts
<1> HIDE DEF B, G, bound
<1>3. S \in SUBSET Nat /\ S # {} /\ \A n \in S : n <= bound
  BY <1>1, <1>2
<1>4. \E m \in S : \A n \in S : n <= m
  BY <1>2, <1>3, GreatestOf
<1>5. \E c \in G : \A d \in G : d.seq <= c.seq
  BY <1>4
<1>6. Last(B, x) \in G /\ \A d \in G : d.seq <= Last(B, x).seq
  BY <1>5 DEF Last, G
<1> QED
  BY <1>1, <1>2, <1>6 DEF B

LEMMA EffectType ==
    ASSUME TypeInv, NEW x \in SPs
    PROVE  Effect(Batch(commands), x) \in Objects \cup {None}
<1>1. stored[x] \in Objects \cup {None}
  BY TypeParts DEF TypeInv, StoreTypes
<1>2. x \in Pairs(Batch(commands)) => Last(Batch(commands), x).obj \in Objects
  BY LastIs DEF Command
<1> QED
  BY <1>1, <1>2 DEF Effect

-----------------------------------------------------------------------------
(* Types *)

LEMMA InitType == Init => TypeInv
<1> SUFFICES ASSUME Init PROVE TypeInv
  OBVIOUS
<1>1. /\ feed = <<>> /\ filteredfeed = <<>> /\ seen = 0 /\ todo = <<>>
      /\ filter = "on" /\ hexaCMS = NewSketch /\ cmsFile = NewSketch
  BY SameOperators DEF Init, Filter!Init
<1>2. /\ taken = 0 /\ commands = <<>> /\ stored = [x \in SPs |-> None]
      /\ restarts = 0 /\ faults = 0 /\ damaged = FALSE
  BY DEF Init
<1>3. FilterTypes
  BY <1>1, NewSketchType, EmptySeq DEF FilterTypes
<1>4. StoreTypes
  <2>1. taken \in 0..Len(filteredfeed) /\ commands \in Seq(Command)
    BY <1>1, <1>2, EmptySeq
  <2>2. damaged \in BOOLEAN
    BY <1>2
  <2> QED
    BY <1>2, <2>1, <2>2 DEF StoreTypes
<1>5. TypeOK
  BY <1>3, <1>4, TypeParts
<1>6. \A n : Seqs(<<>>, n)
  BY DEF Seqs
<1> QED
  BY <1>1, <1>2, <1>5, <1>6 DEF TypeInv

LEMMA ArriveType ==
    ASSUME TypeInv, NEW t \in Tuples, Filtering(Filter!Arrive(t)) PROVE TypeInv'
<1>1. FilterTypes /\ StoreTypes
  BY TypeParts DEF TypeInv
<1>2. feed' = Append(feed, t)
      /\ UNCHANGED <<seen, hexaCMS, cmsFile, todo, filter, filteredfeed>>
      /\ UNCHANGED <<taken, commands, stored, damaged, restarts, faults>>
  BY DEF Filtering, Filter!Arrive, storeVars, bounded
<1>3. t \in Tuple
  OBVIOUS
<1>4. /\ feed' \in Seq(Tuple) /\ Len(feed') = Len(feed) + 1 /\ Len(feed) \in Nat
      /\ \A i \in 1..Len(feed) : feed'[i] = feed[i]
  BY <1>2, <1>3, Facts, Grown
<1>5. FilterTypes'
  BY <1>1, <1>2, <1>4 DEF FilterTypes
<1>6. StoreTypes'
  BY <1>1, <1>2 DEF StoreTypes
<1>7. todo # <<>> => Current' = Current /\ Est(Current.sp)' = Est(Current.sp)
  BY <1>1, <1>2, <1>4 DEF Current, FilterTypes, Est
<1>8. Seqs(filteredfeed', Len(feed')) /\ Seqs(todo', Len(feed')) /\ Seqs(commands', Len(feed'))
  BY <1>1, <1>2, <1>4, SeqsLonger DEF TypeInv, FilterTypes, StoreTypes
<1> QED
  BY <1>2, <1>5, <1>6, <1>7, <1>8, TypePartsNext DEF TypeInv

LEMMA CommandsForType ==
    ASSUME FilterTypes, NEW i \in 1..Len(feed)
    PROVE  /\ Filter!CommandsFor(feed[i], i) \in Seq(Command)
           /\ Seqs(Filter!CommandsFor(feed[i], i), Len(feed))
<1> DEFINE del == [verb |-> "delete", sp |-> feed[i].sp, obj |-> feed[i].obj, seq |-> 2 * i]
           put == [verb |-> "put", sp |-> feed[i].sp, obj |-> feed[i].obj, seq |-> 2 * i + 1]
<1>1. feed[i].sp \in SPs /\ feed[i].obj \in Objects
  <2>1. feed[i] \in Tuple
    BY ElementOfSeq DEF FilterTypes
  <2> QED
    BY <2>1 DEF Tuple
<1>2. i \in Nat /\ Len(feed) \in Nat /\ i <= Len(feed)
  BY LenProperties DEF FilterTypes
<1>3. del \in Command /\ put \in Command
  BY <1>1, <1>2 DEF Command
<1>4. del.seq <= 2 * Len(feed) + 1 /\ put.seq <= 2 * Len(feed) + 1
  BY <1>2
<1>5. Filter!CommandsFor(feed[i], i) \in {<<del, put>>, <<put>>}
  BY DEF Filter!CommandsFor
<1> HIDE DEF del, put
<1>6. <<del, put>> \in Seq(Command) /\ <<put>> \in Seq(Command)
  BY <1>3
<1>7. Seqs(<<del, put>>, Len(feed)) /\ Seqs(<<put>>, Len(feed))
  BY <1>4 DEF Seqs
<1> QED
  BY <1>5, <1>6, <1>7

LEMMA DecideType == ASSUME TypeInv, Filtering(Filter!Decide) PROVE TypeInv'
<1> DEFINE t == feed[seen + 1]
<1>1. FilterTypes /\ StoreTypes
  BY TypeParts DEF TypeInv
<1>2. /\ seen < Len(feed) /\ Filter!Commits(t)
      /\ seen' = seen + 1 /\ todo' = Filter!CommandsFor(t, seen + 1)
      /\ UNCHANGED <<feed, hexaCMS, cmsFile, filter, filteredfeed>>
      /\ UNCHANGED <<taken, commands, stored, damaged, restarts, faults>>
  BY DEF Filtering, Filter!Decide, Filter!CanTake, storeVars, bounded
<1>3. seen + 1 \in 1..Len(feed) /\ Len(feed) \in Nat
  BY <1>2, Facts
<1>4. todo' \in Seq(Command) /\ Seqs(todo', Len(feed))
  BY <1>1, <1>2, <1>3, CommandsForType
<1>5. FilterTypes'
  BY <1>1, <1>2, <1>3, <1>4 DEF FilterTypes
<1>6. StoreTypes'
  BY <1>1, <1>2 DEF StoreTypes
<1>7. Current' = t /\ hexaCMS' = hexaCMS
  BY <1>2 DEF Current
<1>8. Est(t.sp) <= t.ver
  <2>1. t.ver \in Nat /\ Est(t.sp) \in Nat
    BY <1>3, Facts
  <2>2. Est(t.sp) < t.ver \/ Est(t.sp) = t.ver
    BY <1>2, SameOperators DEF Filter!Commits, Filter!lastVer, Est
  <2> QED
    BY <2>1, <2>2
<1>9. Seqs(filteredfeed', Len(feed')) /\ Seqs(commands', Len(feed'))
  BY <1>2 DEF TypeInv
<1> QED
  BY <1>2, <1>4, <1>5, <1>6, <1>7, <1>8, <1>9, TypePartsNext DEF TypeInv, Est

LEMMA PassOverType ==
    ASSUME TypeInv, Filtering(Filter!PassOver) \/ Filtering(PassOverTie)
    PROVE  TypeInv'
<1>1. FilterTypes /\ StoreTypes
  BY TypeParts DEF TypeInv
<1>2. /\ seen < Len(feed) /\ todo = <<>> /\ seen' = seen + 1
      /\ UNCHANGED <<feed, hexaCMS, cmsFile, todo, filter, filteredfeed>>
      /\ UNCHANGED <<taken, commands, stored, damaged, restarts, faults>>
  BY DEF Filtering, Filter!PassOver, PassOverTie, Filter!CanTake, storeVars, bounded
<1>3. FilterTypes'
  BY <1>1, <1>2, LenProperties DEF FilterTypes
<1>4. StoreTypes'
  BY <1>1, <1>2 DEF StoreTypes
<1> QED
  BY <1>2, <1>3, <1>4, TypePartsNext DEF TypeInv

(* The tuple to count, and the sketch that results.                        *)
LEMMA CountedIs ==
    ASSUME TypeInv, todo # <<>>
    PROVE  /\ Current \in Tuple /\ seen \in 1..Len(feed)
           /\ Current.sp \in SPs /\ Current.ver \in Nat
           /\ Current.ver - Est(Current.sp) \in Nat
           /\ Filter!Counted = Updated(hexaCMS, Current.sp, Current.ver - Est(Current.sp))
           /\ Filter!Counted \in Sketch
           /\ Estimate(Filter!Counted, Current.sp) = Current.ver
<1> DEFINE key == Current.sp
           count == Current.ver - Est(Current.sp)
<1>1. seen \in 1..Len(feed) /\ hexaCMS \in Sketch
  BY TypeParts DEF TypeInv, FilterTypes
<1>2. Current \in Tuple /\ Current.sp \in SPs /\ Current.ver \in Nat
  BY <1>1, Facts DEF Current
<1>3. Est(key) \in Nat /\ Est(key) <= Current.ver
  BY <1>2, Facts DEF TypeInv
<1>4. key \in SPs /\ count \in Nat /\ Est(key) + count = Current.ver
  BY <1>2, <1>3
<1>5. Filter!Counted = Updated(hexaCMS, key, count)
  BY SameOperators DEF Filter!Counted, Filter!lastVer, Filter!Current, Current, Est
<1> HIDE DEF key, count
<1>6. /\ Updated(hexaCMS, key, count) \in Sketch
      /\ Estimate(Updated(hexaCMS, key, count), key) = Estimate(hexaCMS, key) + count
  BY <1>1, <1>4, UpdatedType, NeverUnderestimates
<1> QED
  BY <1>1, <1>2, <1>4, <1>5, <1>6 DEF key, count, Est

LEMMA PublishType == ASSUME TypeInv, Filtering(Filter!Publish) PROVE TypeInv'
<1>1. FilterTypes /\ StoreTypes
  BY TypeParts DEF TypeInv
<1>2. /\ todo # <<>>
      /\ filteredfeed' = Append(filteredfeed, Head(todo)) /\ todo' = Tail(todo)
      /\ hexaCMS' = IF Tail(todo) = <<>> THEN Filter!Counted ELSE hexaCMS
      /\ UNCHANGED <<feed, seen, cmsFile, filter>>
      /\ UNCHANGED <<taken, commands, stored, damaged, restarts, faults>>
  BY DEF Filtering, Filter!Publish, storeVars, bounded
<1>3. /\ Head(todo) \in Command /\ Head(todo) = todo[1] /\ 1 \in DOMAIN todo
      /\ Tail(todo) \in Seq(Command)
      /\ \A i \in DOMAIN Tail(todo) : i + 1 \in DOMAIN todo /\ Tail(todo)[i] = todo[i + 1]
  BY <1>2, Facts, Shorter
<1>4. Head(todo).seq <= 2 * Len(feed) + 1 /\ Seqs(Tail(todo), Len(feed))
  BY <1>3 DEF TypeInv, Seqs
<1>5. filteredfeed' \in Seq(Command) /\ Seqs(filteredfeed', Len(feed))
      /\ Len(filteredfeed') = Len(filteredfeed) + 1 /\ Len(filteredfeed) \in Nat
  BY <1>2, <1>3, <1>4, Facts, Grown, SeqsGrown DEF TypeInv
<1>6. hexaCMS' \in Sketch
  BY <1>1, <1>2, CountedIs DEF FilterTypes
<1>7. FilterTypes'
  BY <1>1, <1>2, <1>3, <1>5, <1>6 DEF FilterTypes
<1>8. StoreTypes'
  BY <1>1, <1>2, <1>5 DEF StoreTypes
<1>9. todo' # <<>> => hexaCMS' = hexaCMS /\ Current' = Current
  BY <1>2 DEF Current
<1> QED
  BY <1>2, <1>4, <1>5, <1>7, <1>8, <1>9, TypePartsNext DEF TypeInv, Est

LEMMA PublishFailsType == ASSUME TypeInv, PublishFails PROVE TypeInv'
<1>1. FilterTypes /\ StoreTypes
  BY TypeParts DEF TypeInv
<1>2. /\ todo # <<>> /\ todo' = <<>> /\ filter' = "off"
      /\ hexaCMS' = Filter!Counted /\ cmsFile' \in {hexaCMS, Filter!Counted}
      /\ UNCHANGED <<feed, seen, filteredfeed>>
      /\ faults' = faults + 1
      /\ UNCHANGED <<taken, commands, stored, damaged, restarts>>
  BY DEF PublishFails, Filter!PublishFails, storeVars
<1>3. hexaCMS' \in Sketch /\ cmsFile' \in Sketch
  BY <1>1, <1>2, CountedIs DEF FilterTypes
<1>4. FilterTypes'
  BY <1>1, <1>2, <1>3, EmptySeq DEF FilterTypes
<1>5. StoreTypes'
  BY <1>1, <1>2 DEF StoreTypes
<1>6. Seqs(todo', Len(feed'))
  BY <1>2 DEF Seqs
<1> QED
  BY <1>2, <1>4, <1>5, <1>6, TypePartsNext DEF TypeInv

LEMMA DeliverType == ASSUME TypeInv, Storing(Deliver) PROVE TypeInv'
<1>1. FilterTypes /\ StoreTypes
  BY TypeParts DEF TypeInv
<1>2. /\ taken < Len(filteredfeed) /\ taken' = taken + 1
      /\ commands' = Append(commands, filteredfeed[taken + 1])
      /\ UNCHANGED <<filteredfeed, stored, damaged>>
      /\ UNCHANGED <<feed, seen, hexaCMS, cmsFile, todo, filter, restarts, faults>>
  BY DEF Storing, Deliver, filterVars, bounded
<1>3. taken + 1 \in DOMAIN filteredfeed /\ taken + 1 \in 0..Len(filteredfeed)
  BY <1>2, Facts
<1>4. /\ filteredfeed[taken + 1] \in Command
      /\ filteredfeed[taken + 1].seq <= 2 * Len(feed) + 1
  BY <1>3, Facts DEF TypeInv, Seqs
<1>5. commands' \in Seq(Command) /\ Seqs(commands', Len(feed))
  BY <1>2, <1>4, Facts, Grown, SeqsGrown DEF TypeInv
<1>6. FilterTypes' /\ StoreTypes'
  BY <1>1, <1>2, <1>3, <1>5 DEF FilterTypes, StoreTypes
<1> QED
  BY <1>2, <1>5, <1>6, TypePartsNext DEF TypeInv, Current, Est

LEMMA UpdateType ==
    ASSUME TypeInv, Storing(update_batch) \/ update_fails PROVE TypeInv'
<1>1. FilterTypes /\ StoreTypes
  BY TypeParts DEF TypeInv
<1>2. /\ commands' = <<>> /\ UNCHANGED <<filteredfeed, taken>>
      /\ UNCHANGED <<feed, seen, hexaCMS, cmsFile, todo, filter, restarts>>
  BY DEF Storing, update_batch, update_fails, filterVars, bounded
<1>3. faults' \in Nat
  BY <1>1 DEF Storing, update_batch, update_fails, StoreTypes, bounded
<1>4. damaged' \in BOOLEAN
  <2>1. damaged \in BOOLEAN
    BY <1>1 DEF StoreTypes
  <2>2. damaged' = damaged \/ damaged' = TRUE
    BY DEF Storing, update_batch, update_fails
  <2> QED
    BY <2>1, <2>2
<1>5. stored' \in [SPs -> Objects \cup {None}]
  <2>1. \A x \in SPs : stored[x] \in Objects \cup {None}
    BY <1>1 DEF StoreTypes
  <2>2. CASE Storing(update_batch)
    BY <2>2, EffectType DEF Storing, update_batch
  <2>3. CASE update_fails
    <3>1. PICK at \in Pairs(Batch(commands)) : \E left \in {None, stored[at]} :
              stored' = [sp \in SPs |->
                  IF Subject[sp] < Subject[at] THEN Effect(Batch(commands), sp)
                  ELSE IF Subject[sp] = Subject[at] /\ left = None THEN None
                  ELSE stored[sp]]
      BY <2>3 DEF update_fails
    <3> QED
      BY <2>1, <3>1, EffectType
  <2> QED
    BY <2>2, <2>3
<1>6. commands' \in Seq(Command) /\ Seqs(commands', Len(feed))
  BY <1>2, EmptySeq DEF Seqs
<1>7. FilterTypes' /\ StoreTypes'
  BY <1>1, <1>2, <1>3, <1>4, <1>5, <1>6 DEF FilterTypes, StoreTypes
<1> QED
  BY <1>2, <1>6, <1>7, TypePartsNext DEF TypeInv, Current, Est

LEMMA RestartType == ASSUME TypeInv, Restart PROVE TypeInv'
<1>1. FilterTypes /\ StoreTypes
  BY TypeParts DEF TypeInv
<1>2. /\ seen' = 0 /\ todo' = <<>> /\ hexaCMS' = cmsFile /\ filter' = "on"
      /\ UNCHANGED <<feed, cmsFile, filteredfeed>>
      /\ taken' = 0 /\ commands' = <<>> /\ damaged' = FALSE
      /\ restarts' = restarts + 1 /\ UNCHANGED <<stored, faults>>
  BY DEF Restart, Filter!Restart
<1>3. Len(feed) \in Nat /\ Len(filteredfeed) \in Nat
  BY Facts
<1>4. FilterTypes'
  BY <1>1, <1>2, <1>3, EmptySeq DEF FilterTypes
<1>5. commands' \in Seq(Command)
  BY <1>2, EmptySeq
<1>6. StoreTypes'
  <2>1. taken' \in 0..Len(filteredfeed')
    BY <1>2, <1>3
  <2>2. damaged' \in BOOLEAN
    BY <1>2
  <2>3. {restarts', faults'} \subseteq Nat /\ stored' \in [SPs -> Objects \cup {None}]
    BY <1>1, <1>2 DEF StoreTypes
  <2> QED
    BY <1>5, <2>1, <2>2, <2>3 DEF StoreTypes
<1>7. Seqs(todo', Len(feed')) /\ Seqs(commands', Len(feed'))
  BY <1>2 DEF Seqs
<1> QED
  BY <1>2, <1>4, <1>6, <1>7, TypePartsNext DEF TypeInv

LEMMA StutterType == ASSUME TypeInv, UNCHANGED vars PROVE TypeInv'
<1>1. FilterTypes /\ StoreTypes
  BY TypeParts DEF TypeInv
<1>2. FilterTypes' /\ StoreTypes'
  BY <1>1 DEF FilterTypes, StoreTypes, vars, filterVars, storeVars, bounded
<1> QED
  BY <1>2, TypePartsNext DEF TypeInv, vars, filterVars, storeVars, Current, Est

LEMMA NextType == TypeInv /\ [Next]_vars => TypeInv'
BY ArriveType, DecideType, PassOverType, PublishType, PublishFailsType, DeliverType,
   UpdateType, RestartType, StutterType DEF Next, Stopped

LEMMA TypeInvariant == Spec => []TypeInv
BY InitType, NextType, PTL DEF Spec

(* Every variable keeps its type, through restarts and failed calls. Above  *)
(* all, what the filter adds to its sketch is never negative, and the store *)
(* has an object of a pair or none, however its batches are cut.           *)
THEOREM ReadTypeCorrect == Spec => []TypeOK
<1>1. TypeInv => TypeOK
  BY DEF TypeInv
<1> QED
  BY <1>1, TypeInvariant, PTL

-----------------------------------------------------------------------------
(* The filter, when no tuple arrives twice and versions tell the tuples of *)
(* a pair apart                                                            *)

OneCopy      == MaxCopies <= 1
VersionsTell == \A t, u \in Tuples : t.sp = u.sp /\ t.ver = u.ver => t = u

Once ==
    /\ \A i \in DOMAIN feed : feed[i] \in Tuples
    /\ \A i, j \in DOMAIN feed : feed[i].sp = feed[j].sp /\ feed[i].ver = feed[j].ver => i = j

(* The message a command stems from. It was later than all before it.      *)
Message(c) == c.seq \div 2
Record(m)  == \A h \in DOMAIN feed :
    h < m /\ feed[h].sp = feed[m].sp => feed[h].ver < feed[m].ver

Stems(c) ==
    /\ Message(c) \in DOMAIN feed /\ Record(Message(c))
    /\ c.sp = feed[Message(c)].sp /\ c.obj = feed[Message(c)].obj
    /\ c.verb = "put" <=> c.seq = 2 * Message(c) + 1

Published == \A j \in DOMAIN filteredfeed : Stems(filteredfeed[j])
Decided   == \A k \in DOMAIN todo : /\ Stems(todo[k]) /\ Message(todo[k]) = seen
                                    /\ todo[k].verb = "put" <=> k = Len(todo)
Sourced   == Published /\ Decided

(* The messages on x whose commands are all published, since the start.    *)
Dealt(i) == i < seen \/ (i = seen /\ todo = <<>>)
Of(x)    == {i \in DOMAIN feed : Dealt(i) /\ feed[i].sp = x}

(* The sketch knows the latest version among them, or what was saved.      *)
Counted == \A x \in SPs :
    /\ \A i \in Of(x) : feed[i].ver <= Est(x)
    /\ Est(x) = Base(x) \/ \E i \in Of(x) : feed[i].ver = Est(x)

(* Command j is the last on x among the first n.                           *)
IsLast(j, x, n) == filteredfeed[j].sp = x /\ \A k \in (j + 1)..n : filteredfeed[k].sp # x

(* And the last command on x puts it, whatever an earlier life published.  *)
(* (A version 0, and one that a saved sketch has counted, may be passed     *)
(* over.)                                                                  *)
Ends == \A x \in SPs :
    filter = "on" /\ (todo = <<>> \/ x # Current.sp) /\ Est(x) # Base(x) =>
    \E j \in DOMAIN filteredfeed :
        /\ IsLast(j, x, Len(filteredfeed)) /\ filteredfeed[j].verb = "put"
        /\ \A i \in Of(x) : feed[i].ver <= feed[Message(filteredfeed[j])].ver

FilterInv ==
    /\ ExactLeast(hexaCMS) /\ ExactLeast(cmsFile)
    /\ Once /\ Sourced /\ Counted /\ Ends

LEMMA MessageIs ==
    ASSUME NEW c, c.seq \in Nat
    PROVE  Message(c) \in Nat /\ c.seq \in {2 * Message(c), 2 * Message(c) + 1}
BY DEF Message

LEMMA InitFilter == Init => FilterInv
<1> SUFFICES ASSUME Init PROVE FilterInv
  OBVIOUS
<1>1. /\ feed = <<>> /\ filteredfeed = <<>> /\ seen = 0 /\ todo = <<>>
      /\ filter = "on" /\ hexaCMS = NewSketch /\ cmsFile = NewSketch
  BY SameOperators DEF Init, Filter!Init
<1>2. Once /\ Sourced
  BY <1>1 DEF Once, Sourced, Published, Decided
<1>3. \A x \in SPs : Of(x) = {} /\ Est(x) = Base(x)
  BY <1>1 DEF Of, Est, Base
<1>4. Counted /\ Ends
  BY <1>3 DEF Counted, Ends
<1> QED
  BY <1>1, <1>2, <1>4, NewSketchIsExact DEF FilterInv

(* The feed only grows, which leaves the records what they are.            *)
LEMMA StemsKept ==
    ASSUME NEW t, feed' = Append(feed, t), TypeInv, t \in Tuples
    PROVE  /\ Len(feed) \in Nat /\ Len(feed') = Len(feed) + 1
           /\ DOMAIN feed = 1..Len(feed) /\ DOMAIN feed' = 1..(Len(feed) + 1)
           /\ feed'[Len(feed) + 1] = t
           /\ \A i \in DOMAIN feed : feed'[i] = feed[i]
           /\ \A c : Stems(c) => Stems(c)'
<1>1. t \in Tuple
  OBVIOUS
<1>2. /\ Len(feed) \in Nat /\ Len(feed') = Len(feed) + 1
      /\ DOMAIN feed = 1..Len(feed) /\ DOMAIN feed' = 1..(Len(feed) + 1)
      /\ feed'[Len(feed) + 1] = t
      /\ \A i \in DOMAIN feed : feed'[i] = feed[i]
  BY <1>1, Facts, Grown
<1>3. ASSUME NEW m \in DOMAIN feed, Record(m) PROVE Record(m)'
  <2>1. \A h \in DOMAIN feed' : h < m => h \in DOMAIN feed
    BY <1>2
  <2> QED
    BY <1>2, <1>3, <2>1 DEF Record
<1>4. ASSUME NEW c, Stems(c) PROVE Stems(c)'
  <2>1. Message(c) \in DOMAIN feed /\ Record(Message(c)) /\ Message(c)' = Message(c)
    BY <1>4 DEF Stems, Message
  <2>2. Record(Message(c))'
    BY <2>1, <1>3
  <2> QED
    BY <1>2, <1>4, <2>1, <2>2 DEF Stems
<1> QED
  BY <1>2, <1>4

LEMMA CopiesAre ==
    ASSUME TypeInv, NEW t, Filter!Copies(t) < MaxCopies, OneCopy
    PROVE  \A i \in DOMAIN feed : feed[i] # t
<1> DEFINE S == {i \in DOMAIN feed : feed[i] = t}
<1>1. IsFiniteSet(1..Len(feed)) /\ S \subseteq 1..Len(feed)
  BY Facts, FS_Interval
<1>2. IsFiniteSet(S)
  BY <1>1, FS_Subset
<1>3. Cardinality(S) \in Nat /\ (Cardinality(S) = 0 <=> S = {})
  BY <1>2, FS_CardinalityType, FS_EmptySet
<1>4. Filter!Copies(t) = Cardinality(S)
  BY SameOperators DEF Filter!Copies
<1>5. Cardinality(S) < MaxCopies /\ MaxCopies \in Nat
  BY <1>4, StoreAssumption
<1> HIDE DEF S
<1>6. S = {}
  BY <1>3, <1>5 DEF OneCopy
<1> QED
  BY <1>6 DEF S

LEMMA ArriveFilter ==
    ASSUME TypeInv, FilterInv, OneCopy, VersionsTell,
           NEW t \in Tuples, Filter!Copies(t) < MaxCopies, Filtering(Filter!Arrive(t))
    PROVE  FilterInv'
<1>1. feed' = Append(feed, t)
      /\ UNCHANGED <<seen, hexaCMS, cmsFile, todo, filter, filteredfeed>>
  BY DEF Filtering, Filter!Arrive
<1>2. /\ Len(feed) \in Nat /\ Len(feed') = Len(feed) + 1
      /\ DOMAIN feed = 1..Len(feed) /\ DOMAIN feed' = 1..(Len(feed) + 1)
      /\ feed'[Len(feed) + 1] = t
      /\ \A i \in DOMAIN feed : feed'[i] = feed[i]
      /\ \A c : Stems(c) => Stems(c)'
  BY <1>1, StemsKept
<1>3. \A i \in DOMAIN feed : ~(feed[i].sp = t.sp /\ feed[i].ver = t.ver)
  BY CopiesAre DEF FilterInv, Once, VersionsTell
<1>4. \A i \in DOMAIN feed' : i \in DOMAIN feed \/ i = Len(feed) + 1
  BY <1>2
<1>5. Once'
  BY <1>2, <1>3, <1>4 DEF FilterInv, Once
<1>6. Sourced'
  BY <1>1, <1>2 DEF FilterInv, Sourced, Published, Decided, Message
<1>7. seen \in 0..Len(feed)
  BY Facts
<1>8. \A x \in SPs : Of(x)' = Of(x)
  BY <1>1, <1>2, <1>4, <1>7 DEF Of, Dealt
<1>9. \A x : \A i \in Of(x) : feed'[i] = feed[i]
  BY <1>2 DEF Of
<1>10. Counted'
  BY ZenonT(20), <1>1, <1>8, <1>9 DEF FilterInv, Counted, Est, Base
<1>11. todo # <<>> => Current' = Current
  BY <1>1, <1>2, <1>7, CountedIs DEF Current
<1>12. \A j \in DOMAIN filteredfeed : Message(filteredfeed[j]) \in DOMAIN feed
  BY DEF FilterInv, Sourced, Published, Stems
<1>13. \A x, j, n : IsLast(j, x, n)' <=> IsLast(j, x, n)
  BY <1>1 DEF IsLast
<1>14. Ends'
  <2> SUFFICES ASSUME NEW x \in SPs, filter = "on", todo = <<>> \/ x # Current'.sp,
                      Est(x) # Base(x)
               PROVE  (\E j \in DOMAIN filteredfeed :
                         /\ IsLast(j, x, Len(filteredfeed)) /\ filteredfeed[j].verb = "put"
                         /\ \A i \in Of(x) : feed[i].ver <= feed[Message(filteredfeed[j])].ver)'
    BY <1>1 DEF Ends, Est, Base
  <2>1. PICK j \in DOMAIN filteredfeed :
             /\ IsLast(j, x, Len(filteredfeed)) /\ filteredfeed[j].verb = "put"
             /\ \A i \in Of(x) : feed[i].ver <= feed[Message(filteredfeed[j])].ver
    BY <1>11 DEF FilterInv, Ends
  <2>2. \A i \in Of(x) : feed'[i].ver <= feed'[Message(filteredfeed[j])].ver
    BY <1>2, <1>9, <1>12, <2>1
  <2>3. filteredfeed' = filteredfeed /\ Message(filteredfeed[j])' = Message(filteredfeed[j])
    BY <1>1 DEF Message
  <2> QED
    BY <1>8, <1>13, <2>1, <2>2, <2>3
<1> QED
  BY <1>1, <1>5, <1>6, <1>10, <1>14 DEF FilterInv, ExactLeast

LEMMA StemsSame == feed' = feed => \A c : (Stems(c)' <=> Stems(c)) /\ Message(c)' = Message(c)
BY DEF Stems, Record, Message

(* A message is passed on if it is a record, and passed over if it is not. *)
LEMMA DecideFilter ==
    ASSUME TypeInv, FilterInv, Filtering(Filter!Decide)
    PROVE  FilterInv'
<1>n. PICK n : n = seen + 1
  OBVIOUS
<1>t. PICK t : t = feed[n]
  OBVIOUS
<1>d. PICK del : del = [verb |-> "delete", sp |-> t.sp, obj |-> t.obj, seq |-> 2 * n]
  OBVIOUS
<1>p. PICK put : put = [verb |-> "put", sp |-> t.sp, obj |-> t.obj, seq |-> 2 * n + 1]
  OBVIOUS
<1>1. /\ seen < Len(feed) /\ Filter!Commits(t) /\ todo = <<>>
      /\ seen' = n /\ todo' = Filter!CommandsFor(t, n)
      /\ UNCHANGED <<feed, hexaCMS, cmsFile, filter, filteredfeed>>
  BY <1>n, <1>t DEF Filtering, Filter!Decide, Filter!CanTake
<1>2. todo' \in {<<del, put>>, <<put>>}
  BY <1>1, <1>d, <1>p DEF Filter!CommandsFor
<1>3. n \in Nat /\ n \in DOMAIN feed /\ seen \in Nat /\ DOMAIN feed = 1..Len(feed)
  BY <1>1, <1>n, Facts
<1>4. t.sp \in SPs /\ t.ver \in Nat /\ Est(t.sp) \in Nat
  BY <1>3, <1>t, Facts
<1>5. Est(t.sp) <= t.ver
  <2>1. Est(t.sp) < t.ver \/ Est(t.sp) = t.ver
    BY <1>1, SameOperators DEF Filter!Commits, Filter!lastVer, Est
  <2> QED
    BY <1>4, <2>1
<1>6. Record(n)
  <2> SUFFICES ASSUME NEW h \in DOMAIN feed, h < n, feed[h].sp = t.sp
               PROVE  feed[h].ver < t.ver
    BY <1>t DEF Record
  <2>1. h \in Of(t.sp)
    BY <1>1, <1>3, <1>n DEF Of, Dealt
  <2>2. feed[h].ver <= Est(t.sp)
    BY <1>4, <2>1 DEF FilterInv, Counted
  <2>3. feed[h].ver # t.ver
    BY <1>3, <1>t DEF FilterInv, Once
  <2>4. feed[h].ver \in Nat
    BY Facts
  <2> QED
    BY <1>4, <1>5, <2>2, <2>3, <2>4
<1>7. /\ Message(del) = n /\ Message(put) = n
      /\ del.sp = t.sp /\ del.obj = t.obj /\ del.verb = "delete" /\ del.seq = 2 * n
      /\ put.sp = t.sp /\ put.obj = t.obj /\ put.verb = "put" /\ put.seq = 2 * n + 1
  BY <1>3, <1>d, <1>p DEF Message
<1>8. Stems(del)' /\ Stems(put)'
  <2>1. Stems(del) /\ Stems(put)
    BY <1>3, <1>6, <1>7, <1>t DEF Stems
  <2> QED
    BY <1>1, <2>1, StemsSame
<1>9. Published'
  BY <1>1, StemsSame DEF FilterInv, Sourced, Published, Decided
<1>10. Decided'
  <2>1. \A c : Message(c)' = Message(c)
    BY DEF Message
  <2>2. CASE todo' = <<del, put>>
    BY <1>1, <1>7, <1>8, <2>1, <2>2 DEF Decided
  <2>3. CASE todo' = <<put>>
    BY <1>1, <1>7, <1>8, <2>1, <2>3 DEF Decided
  <2> QED
    BY <1>2, <2>2, <2>3
<1>11. Sourced'
  BY <1>9, <1>10 DEF Sourced
<1>12. todo' # <<>>
  <2>1. <<del, put>> # <<>> /\ <<put>> # <<>>
    OBVIOUS
  <2> QED
    BY <1>2, <2>1, Zenon
<1>13. \A x : Of(x)' = Of(x)
  BY <1>1, <1>3, <1>n, <1>12 DEF Of, Dealt
<1>14. Counted'
  BY <1>1, <1>13 DEF FilterInv, Counted, Est, Base
<1>15. Ends'
  <2> SUFFICES ASSUME NEW x \in SPs, filter = "on", Est(x) # Base(x)
               PROVE  \E j \in DOMAIN filteredfeed :
                         /\ IsLast(j, x, Len(filteredfeed)) /\ filteredfeed[j].verb = "put"
                         /\ \A i \in Of(x)' : feed[i].ver <= feed[Message(filteredfeed[j])].ver
    BY <1>1 DEF Ends, IsLast, Message, Est, Base
  <2> QED
    BY <1>1, <1>13 DEF FilterInv, Ends
<1>16. Once'
  BY <1>1 DEF FilterInv, Once
<1> QED
  BY <1>1, <1>11, <1>14, <1>15, <1>16 DEF FilterInv, ExactLeast

LEMMA PassOverFilter ==
    ASSUME TypeInv, FilterInv, Filtering(Filter!PassOver)
    PROVE  FilterInv'
<1>n. PICK n : n = seen + 1
  OBVIOUS
<1>t. PICK t : t = feed[n]
  OBVIOUS
<1>1. /\ seen < Len(feed) /\ ~Filter!Commits(t) /\ todo = <<>>
      /\ seen' = n
      /\ UNCHANGED <<feed, hexaCMS, cmsFile, todo, filter, filteredfeed>>
  BY <1>n, <1>t DEF Filtering, Filter!PassOver, Filter!CanTake
<1>2. n \in Nat /\ n \in DOMAIN feed /\ seen \in Nat /\ DOMAIN feed = 1..Len(feed)
  BY <1>1, <1>n, Facts
<1>3. t.sp \in SPs /\ t.ver \in Nat /\ Est(t.sp) \in Nat
  BY <1>2, <1>t, Facts
<1>4. t.ver < Est(t.sp)
  <2>1. ~(Est(t.sp) < t.ver) /\ Est(t.sp) # t.ver
    BY <1>1, <1>3, SameOperators DEF Filter!Commits, Filter!lastVer, Est
  <2> QED
    BY <1>3, <2>1
<1>5. Est(t.sp) = Base(t.sp) \/ \E e \in Of(t.sp) : feed[e].ver = Est(t.sp)
  BY <1>3 DEF FilterInv, Counted
<1>6. \A x \in SPs : Of(x) \subseteq Of(x)'
  BY <1>1, <1>2, <1>n, <1>t DEF Of, Dealt
<1>7. \A x \in SPs : \A i \in Of(x)' : i \in Of(x) \/ (i = n /\ x = t.sp)
  BY <1>1, <1>2, <1>n, <1>t DEF Of, Dealt
<1>8. Counted'
  <2> SUFFICES ASSUME NEW x \in SPs
               PROVE  /\ \A i \in Of(x)' : feed[i].ver <= Est(x)
                      /\ Est(x) = Base(x) \/ \E i \in Of(x)' : feed[i].ver = Est(x)
    BY <1>1 DEF Counted, Est, Base
  <2>1. \A i \in Of(x) : feed[i].ver <= Est(x)
    BY DEF FilterInv, Counted
  <2>2. \A i \in Of(x)' : feed[i].ver <= Est(x)
    BY <1>3, <1>4, <1>7, <1>t, <2>1
  <2>3. Est(x) = Base(x) \/ \E i \in Of(x) : feed[i].ver = Est(x)
    BY DEF FilterInv, Counted
  <2> QED
    BY <1>6, <2>2, <2>3
<1>9. Ends'
  <2> SUFFICES ASSUME NEW x \in SPs, filter = "on", Est(x) # Base(x)
               PROVE  \E j \in DOMAIN filteredfeed :
                         /\ IsLast(j, x, Len(filteredfeed)) /\ filteredfeed[j].verb = "put"
                         /\ \A i \in Of(x)' : feed[i].ver <= feed[Message(filteredfeed[j])].ver
    BY <1>1 DEF Ends, IsLast, Message, Est, Base
  <2>2. PICK j \in DOMAIN filteredfeed :
             /\ IsLast(j, x, Len(filteredfeed)) /\ filteredfeed[j].verb = "put"
             /\ \A i \in Of(x) : feed[i].ver <= feed[Message(filteredfeed[j])].ver
    BY <1>1 DEF FilterInv, Ends
  <2>3. Message(filteredfeed[j]) \in DOMAIN feed
    BY DEF FilterInv, Sourced, Published, Stems
  <2>4. feed[Message(filteredfeed[j])].ver \in Nat
    BY <2>3, Facts
  <2>5. ASSUME x = t.sp PROVE t.ver <= feed[Message(filteredfeed[j])].ver
    <3>1. PICK e \in Of(x) : feed[e].ver = Est(x)
      BY <1>5, <2>5
    <3> QED
      BY <1>3, <1>4, <2>2, <2>4, <2>5, <3>1
  <2> QED
    BY <1>7, <1>t, <2>2, <2>5
<1>10. Sourced'
  <2>1. todo' = <<>>
    BY <1>1
  <2> QED
    BY <1>1, <2>1, StemsSame DEF FilterInv, Sourced, Published, Decided
<1>11. Once'
  BY <1>1 DEF FilterInv, Once
<1> QED
  BY <1>1, <1>8, <1>9, <1>10, <1>11 DEF FilterInv, ExactLeast

(* What the hexastore is asked for is a tuple with version 0, the first of  *)
(* its pair, or one that a saved sketch has counted.                       *)
LEMMA PassOverTieFilter ==
    ASSUME TypeInv, FilterInv, Filtering(PassOverTie)
    PROVE  FilterInv'
<1>n. PICK n : n = seen + 1
  OBVIOUS
<1>t. PICK t : t = feed[n]
  OBVIOUS
<1>1. /\ seen < Len(feed) /\ Filter!lastVer(t) = t.ver /\ todo = <<>>
      /\ seen' = n
      /\ UNCHANGED <<feed, hexaCMS, cmsFile, todo, filter, filteredfeed>>
  BY <1>n, <1>t DEF Filtering, PassOverTie, Filter!CanTake
<1>2. n \in Nat /\ n \in DOMAIN feed /\ seen \in Nat /\ DOMAIN feed = 1..Len(feed)
  BY <1>1, <1>n, Facts
<1>3. t.sp \in SPs /\ t.ver \in Nat /\ Est(t.sp) = t.ver
  BY <1>1, <1>2, <1>t, Facts, SameOperators DEF Filter!lastVer, Est
<1>4. Est(t.sp) = Base(t.sp)
  <2> SUFFICES ASSUME Est(t.sp) # Base(t.sp) PROVE FALSE
    OBVIOUS
  <2>1. PICK e \in Of(t.sp) : feed[e].ver = Est(t.sp)
    BY <1>3 DEF FilterInv, Counted
  <2>2. e \in DOMAIN feed /\ feed[e].sp = t.sp /\ e # n
    BY <1>1, <1>2, <1>n, <2>1 DEF Of, Dealt
  <2> QED
    BY <1>2, <1>3, <1>t, <2>1, <2>2 DEF FilterInv, Once
<1>5. \A x \in SPs : Of(x) \subseteq Of(x)'
  BY <1>1, <1>2, <1>n, <1>t DEF Of, Dealt
<1>6. \A x \in SPs : \A i \in Of(x)' : i \in Of(x) \/ (i = n /\ x = t.sp)
  BY <1>1, <1>2, <1>n, <1>t DEF Of, Dealt
<1>7. Counted'
  <2> SUFFICES ASSUME NEW x \in SPs
               PROVE  /\ \A i \in Of(x)' : feed[i].ver <= Est(x)
                      /\ Est(x) = Base(x) \/ \E i \in Of(x)' : feed[i].ver = Est(x)
    BY <1>1 DEF Counted, Est, Base
  <2>1. /\ \A i \in Of(x) : feed[i].ver <= Est(x)
        /\ Est(x) = Base(x) \/ \E i \in Of(x) : feed[i].ver = Est(x)
    BY DEF FilterInv, Counted
  <2>2. \A i \in Of(x)' : feed[i].ver <= Est(x)
    BY <1>3, <1>6, <1>t, <2>1
  <2> QED
    BY <1>5, <2>1, <2>2
<1>8. Ends'
  <2> SUFFICES ASSUME NEW x \in SPs, filter = "on", Est(x) # Base(x)
               PROVE  \E j \in DOMAIN filteredfeed :
                         /\ IsLast(j, x, Len(filteredfeed)) /\ filteredfeed[j].verb = "put"
                         /\ \A i \in Of(x)' : feed[i].ver <= feed[Message(filteredfeed[j])].ver
    BY <1>1 DEF Ends, IsLast, Message, Est, Base
  <2>1. Of(x)' = Of(x)
    BY <1>4, <1>5, <1>6
  <2> QED
    BY <1>1, <2>1 DEF FilterInv, Ends
<1>9. Sourced'
  <2>1. todo' = <<>>
    BY <1>1
  <2> QED
    BY <1>1, <2>1, StemsSame DEF FilterInv, Sourced, Published, Decided
<1>10. Once'
  BY <1>1 DEF FilterInv, Once
<1> QED
  BY <1>1, <1>7, <1>8, <1>9, <1>10 DEF FilterInv, ExactLeast

(* The put that ends a message's commands is the last on its pair.         *)
LEMMA PublishFilter ==
    ASSUME TypeInv, FilterInv, Exact # {}, Filtering(Filter!Publish)
    PROVE  FilterInv'
<1>y. PICK y : y = Current.sp
  OBVIOUS
<1>c. PICK c : c = todo[1]
  OBVIOUS
<1>n. PICK n : n = Len(filteredfeed)
  OBVIOUS
<1>m. PICK m : m = seen
  OBVIOUS
<1>1. /\ todo # <<>>
      /\ filteredfeed' = Append(filteredfeed, Head(todo)) /\ todo' = Tail(todo)
      /\ hexaCMS' = IF Tail(todo) = <<>> THEN Filter!Counted ELSE hexaCMS
      /\ UNCHANGED <<feed, seen, cmsFile, filter>>
  BY DEF Filtering, Filter!Publish
<1>2. /\ c \in Command /\ Head(todo) = c /\ 1 \in DOMAIN todo
      /\ DOMAIN todo' = 1..(Len(todo) - 1) /\ Len(todo') = Len(todo) - 1
      /\ \A k \in DOMAIN todo' : k + 1 \in DOMAIN todo /\ todo'[k] = todo[k + 1]
      /\ todo' = <<>> <=> Len(todo) = 1
      /\ Len(todo) \in Nat
  <2>1. todo \in Seq(Command) /\ Len(todo) \in Nat
    BY Facts
  <2>2. /\ Head(todo) \in Command /\ Head(todo) = todo[1] /\ 1 \in DOMAIN todo
        /\ Len(Tail(todo)) = Len(todo) - 1 /\ DOMAIN Tail(todo) = 1..(Len(todo) - 1)
        /\ \A k \in DOMAIN Tail(todo) : k + 1 \in DOMAIN todo /\ Tail(todo)[k] = todo[k + 1]
        /\ Tail(todo) = <<>> <=> Len(todo) = 1
    BY <1>1, <2>1, Shorter
  <2> QED
    BY <1>1, <1>c, <2>1, <2>2
<1>3. /\ n \in Nat /\ DOMAIN filteredfeed = 1..n
      /\ Len(filteredfeed') = n + 1 /\ DOMAIN filteredfeed' = 1..(n + 1)
      /\ \A j \in DOMAIN filteredfeed : filteredfeed'[j] = filteredfeed[j]
      /\ filteredfeed'[n + 1] = c
  BY <1>1, <1>2, <1>n, Facts, Grown
<1>4. /\ m \in DOMAIN feed /\ Current = feed[m] /\ y \in SPs /\ feed[m].sp = y
      /\ feed[m].ver \in Nat
      /\ feed[m].ver - Est(y) \in Nat
      /\ Filter!Counted = Updated(hexaCMS, y, feed[m].ver - Est(y))
      /\ Estimate(Filter!Counted, y) = feed[m].ver
  BY <1>1, <1>m, <1>y, CountedIs, Facts DEF Current
<1>5. /\ Stems(c) /\ Message(c) = m /\ c.sp = y
      /\ c.verb = "put" <=> Len(todo) = 1
  BY <1>2, <1>4, <1>c, <1>m DEF FilterInv, Sourced, Decided, Stems
<1>6. Sourced'
  <2>1. Published'
    <3>1. \A j \in DOMAIN filteredfeed' : j \in DOMAIN filteredfeed \/ j = n + 1
      BY <1>3
    <3> QED
      BY <1>1, <1>3, <1>5, <3>1, StemsSame DEF FilterInv, Sourced, Published
  <2>2. ASSUME NEW k \in DOMAIN todo'
        PROVE  /\ Stems(todo'[k]) /\ Message(todo'[k]) = seen
               /\ todo'[k].verb = "put" <=> k = Len(todo')
    <3>1. todo[k + 1].verb = "put" <=> k + 1 = Len(todo)
      BY <1>2 DEF FilterInv, Sourced, Decided
    <3>2. k + 1 = Len(todo) <=> k = Len(todo')
      BY <1>2
    <3> QED
      BY <1>2, <3>1, <3>2 DEF FilterInv, Sourced, Decided
  <2>3. Decided'
    BY <1>1, <2>2, StemsSame DEF Decided
  <2> QED
    BY <2>1, <2>3 DEF Sourced
<1>7. Once'
  BY <1>1 DEF FilterInv, Once
<1>8. hexaCMS' # hexaCMS => hexaCMS' = Updated(hexaCMS, y, feed[m].ver - Est(y))
  BY <1>1, <1>4
<1>9. /\ ExactLeast(hexaCMS)'
      /\ \A x \in SPs : x # y => Est(x)' = Est(x)
  <2>1. hexaCMS \in Sketch /\ ExactLeast(hexaCMS)
    BY Facts DEF FilterInv
  <2>2. /\ ExactLeast(Updated(hexaCMS, y, feed[m].ver - Est(y)))
        /\ \A x \in SPs : x # y =>
              Estimate(Updated(hexaCMS, y, feed[m].ver - Est(y)), x) = Estimate(hexaCMS, x)
    BY <1>4, <2>1, ExactUpdated
  <2>3. /\ ExactLeast(hexaCMS')
        /\ \A x \in SPs : x # y => Estimate(hexaCMS', x) = Estimate(hexaCMS, x)
    BY <1>8, <2>1, <2>2
  <2>4. ExactLeast(hexaCMS)'
    BY <2>3 DEF ExactLeast
  <2> QED
    BY <2>3, <2>4 DEF Est
<1>10. /\ \A x \in SPs : x # y \/ todo' # <<>> => Of(x)' = Of(x)
       /\ todo' = <<>> => /\ m \in Of(y)' /\ \A i \in Of(y)' : i \in Of(y) \/ i = m
                         /\ Of(y) \subseteq Of(y)'
  BY <1>1, <1>4, <1>m DEF Of, Dealt
<1>11. \A i \in Of(y) : feed[i].ver <= feed[m].ver
  <2>1. Record(m)
    BY <1>5 DEF Stems
  <2>2. \A i \in Of(y) : i \in DOMAIN feed /\ i < m /\ feed[i].sp = feed[m].sp
    BY <1>1, <1>4, <1>m DEF Of, Dealt
  <2>3. \A i \in Of(y) : feed[i].ver \in Nat
    BY <2>2, Facts
  <2> QED
    BY <1>4, <2>1, <2>2, <2>3 DEF Record
<1>12. Counted'
  <2> SUFFICES ASSUME NEW x \in SPs
               PROVE  /\ \A i \in Of(x)' : feed[i].ver <= Est(x)'
                      /\ Est(x)' = Base(x) \/ \E i \in Of(x)' : feed[i].ver = Est(x)'
    BY <1>1 DEF Counted, Base
  <2>1. /\ \A i \in Of(x) : feed[i].ver <= Est(x)
        /\ Est(x) = Base(x) \/ \E i \in Of(x) : feed[i].ver = Est(x)
    BY DEF FilterInv, Counted
  <2>2. CASE todo' = <<>> /\ x = y
    <3>1. Est(x)' = feed[m].ver
      BY <1>1, <1>4, <2>2 DEF Est
    <3>2. \A i \in Of(x)' : feed[i].ver <= feed[m].ver
      BY <1>4, <1>10, <1>11, <2>2
    <3> QED
      BY <1>10, <2>2, <3>1, <3>2
  <2>3. CASE ~(todo' = <<>> /\ x = y)
    <3>1. Est(x)' = Est(x)
      BY <1>1, <1>9, <2>3 DEF Est
    <3> QED
      BY <1>10, <2>1, <2>3, <3>1
  <2> QED
    BY <2>2, <2>3
<1>13. Ends'
  <2>a. Current' = Current
    BY <1>1 DEF Current
  <2>b. Len(filteredfeed)' = n + 1 /\ y = Current'.sp
    BY <1>3, <1>y, <2>a
  <2>c. \A j : Message(filteredfeed[j])' = Message(filteredfeed'[j])
    BY DEF Message
  <2> SUFFICES ASSUME NEW x \in SPs, filter = "on", todo' = <<>> \/ x # y,
                      Est(x)' # Base(x)
               PROVE  \E j \in DOMAIN filteredfeed' :
                         /\ IsLast(j, x, n + 1)' /\ filteredfeed'[j].verb = "put"
                         /\ \A i \in Of(x)' : feed[i].ver <= feed[Message(filteredfeed'[j])].ver
    <3> SUFFICES ASSUME NEW x \in SPs, filter' = "on", todo' = <<>> \/ x # Current'.sp,
                        Est(x)' # Base(x)'
                 PROVE  (\E j \in DOMAIN filteredfeed :
                         /\ IsLast(j, x, Len(filteredfeed)) /\ filteredfeed[j].verb = "put"
                         /\ \A i \in Of(x) : feed[i].ver <= feed[Message(filteredfeed[j])].ver)'
      BY DEF Ends
    <3>0. Base(x)' = Base(x)
      BY <1>1 DEF Base
    <3>1. PICK j \in DOMAIN filteredfeed' :
             /\ IsLast(j, x, n + 1)' /\ filteredfeed'[j].verb = "put"
             /\ \A i \in Of(x)' : feed[i].ver <= feed[Message(filteredfeed'[j])].ver
      BY <1>1, <2>b, <3>0
    <3>2. IsLast(j, x, Len(filteredfeed))'
      BY <2>b, <3>1 DEF IsLast
    <3> QED
      BY <1>1, <2>c, <3>1, <3>2
  <2>1. CASE x = y
    <3>1. Len(todo) = 1 /\ c.verb = "put"
      BY <1>2, <1>5, <2>1
    <3>2. n + 1 \in DOMAIN filteredfeed'
      BY <1>3
    <3>3. filteredfeed'[n + 1].sp = x /\ filteredfeed'[n + 1].verb = "put"
          /\ Message(filteredfeed'[n + 1]) = m
      BY <1>3, <1>5, <2>1, <3>1
    <3>4. \A k \in (n + 1 + 1)..(n + 1) : FALSE
      BY <1>3
    <3>5. (\A k \in (n + 1 + 1)..(n + 1) : filteredfeed[k].sp # x)'
      BY <3>4
    <3>6. IsLast(n + 1, x, n + 1)'
      BY <3>3, <3>5 DEF IsLast
    <3>7. \A i \in Of(x)' : feed[i].ver <= feed[m].ver
      BY <1>2, <1>4, <1>10, <1>11, <2>1, <3>1
    <3> QED
      BY <3>2, <3>3, <3>6, <3>7
  <2>2. CASE x # y
    <3>1. Of(x)' = Of(x)
      BY <1>10, <2>2
    <3>2. PICK j \in DOMAIN filteredfeed :
             /\ IsLast(j, x, n) /\ filteredfeed[j].verb = "put"
             /\ \A i \in Of(x) : feed[i].ver <= feed[Message(filteredfeed[j])].ver
      BY <1>n, <1>y, <1>9, <2>2 DEF FilterInv, Ends
    <3>3. \A k \in (j + 1)..(n + 1) : filteredfeed'[k].sp # x
      <4> TAKE k \in (j + 1)..(n + 1)
      <4>1. j \in 1..n
        BY <1>3
      <4>2. k = n + 1 \/ (k \in (j + 1)..n /\ k \in DOMAIN filteredfeed)
        BY <1>3, <4>1
      <4> QED
        BY <1>3, <1>5, <2>2, <3>2, <4>2 DEF IsLast
    <3>4. j \in DOMAIN filteredfeed' /\ filteredfeed'[j] = filteredfeed[j]
      BY <1>3
    <3>5. IsLast(j, x, n + 1)'
      BY <3>2, <3>3, <3>4 DEF IsLast
    <3> QED
      BY <3>1, <3>2, <3>4, <3>5
  <2> QED
    BY <2>1, <2>2
<1> QED
  BY <1>1, <1>6, <1>7, <1>9, <1>12, <1>13 DEF FilterInv, ExactLeast

(* What an error leaves of a message's commands is counted all the same,    *)
(* and the sketch that is saved has counted it or not.                     *)
LEMMA PublishFailsFilter ==
    ASSUME TypeInv, FilterInv, Exact # {}, PublishFails
    PROVE  FilterInv'
<1>m. PICK m : m = seen
  OBVIOUS
<1>y. PICK y : y = Current.sp
  OBVIOUS
<1>1. /\ todo # <<>> /\ todo' = <<>> /\ filter' = "off"
      /\ hexaCMS' = Filter!Counted /\ cmsFile' \in {hexaCMS, Filter!Counted}
      /\ UNCHANGED <<feed, seen, filteredfeed>>
  BY DEF PublishFails, Filter!PublishFails
<1>2. /\ m \in DOMAIN feed /\ Current = feed[m] /\ y \in SPs /\ feed[m].sp = y
      /\ feed[m].ver \in Nat
      /\ feed[m].ver - Est(y) \in Nat
      /\ Filter!Counted = Updated(hexaCMS, y, feed[m].ver - Est(y))
      /\ Estimate(Filter!Counted, y) = feed[m].ver
  BY <1>1, <1>m, <1>y, CountedIs, Facts DEF Current
<1>3. /\ ExactLeast(Filter!Counted)
      /\ \A x \in SPs : x # y => Estimate(Filter!Counted, x) = Estimate(hexaCMS, x)
  <2>1. hexaCMS \in Sketch /\ ExactLeast(hexaCMS)
    BY Facts DEF FilterInv
  <2> QED
    BY <1>2, <2>1, ExactUpdated
<1>4. ExactLeast(hexaCMS)' /\ ExactLeast(cmsFile)'
  BY <1>1, <1>3 DEF FilterInv, ExactLeast
<1>5. Est(y)' = feed[m].ver /\ \A x \in SPs : x # y => Est(x)' = Est(x) /\ Base(x)' = Est(x)
  BY <1>1, <1>2, <1>3 DEF Est, Base
<1>6. /\ \A x \in SPs : x # y => Of(x)' = Of(x)
      /\ m \in Of(y)' /\ \A i \in Of(y)' : i \in Of(y) \/ i = m
  BY <1>1, <1>2, <1>m DEF Of, Dealt
<1>7. \A i \in Of(y) : feed[i].ver <= feed[m].ver
  <2>1. 1 \in DOMAIN todo
    BY <1>1, Facts
  <2>2. Record(m)
    BY <1>m, <2>1 DEF FilterInv, Sourced, Decided, Stems
  <2>3. \A i \in Of(y) : i \in DOMAIN feed /\ i < m /\ feed[i].sp = feed[m].sp
    BY <1>1, <1>2, <1>m DEF Of, Dealt
  <2>4. \A i \in Of(y) : feed[i].ver \in Nat
    BY <2>3, Facts
  <2> QED
    BY <1>2, <2>2, <2>3, <2>4 DEF Record
<1>8. Counted'
  <2> SUFFICES ASSUME NEW x \in SPs
               PROVE  /\ \A i \in Of(x)' : feed[i].ver <= Est(x)'
                      /\ Est(x)' = Base(x)' \/ \E i \in Of(x)' : feed[i].ver = Est(x)'
    BY <1>1 DEF Counted
  <2>1. CASE x = y
    <3>1. \A i \in Of(x)' : feed[i].ver <= feed[m].ver
      BY <1>2, <1>6, <1>7, <2>1
    <3> QED
      BY <1>5, <1>6, <2>1, <3>1
  <2>2. CASE x # y
    <3>1. \A i \in Of(x) : feed[i].ver <= Est(x)
      BY DEF FilterInv, Counted
    <3> QED
      BY <1>5, <1>6, <2>2, <3>1
  <2> QED
    BY <2>1, <2>2
<1>9. Ends'
  BY <1>1 DEF Ends
<1>10. Sourced'
  BY <1>1, StemsSame DEF FilterInv, Sourced, Published, Decided
<1>11. Once'
  BY <1>1 DEF FilterInv, Once
<1> QED
  BY <1>4, <1>8, <1>9, <1>10, <1>11 DEF FilterInv

(* The start begins the feed again, with the sketch that was saved. What    *)
(* was published stays.                                                    *)
LEMMA RestartFilter ==
    ASSUME TypeInv, FilterInv, Restart
    PROVE  FilterInv'
<1>1. /\ seen' = 0 /\ todo' = <<>> /\ hexaCMS' = cmsFile /\ filter' = "on"
      /\ UNCHANGED <<feed, cmsFile, filteredfeed>>
  BY DEF Restart, Filter!Restart, FilterInv
<1>2. \A x \in SPs : Of(x)' = {} /\ Est(x)' = Base(x)'
  <2>1. \A i \in DOMAIN feed : ~(i < 0) /\ i # 0
    BY Facts
  <2> QED
    BY <1>1, <2>1 DEF Of, Dealt, Est, Base
<1>3. Counted' /\ Ends'
  BY <1>2 DEF Counted, Ends
<1>4. Sourced'
  BY <1>1, StemsSame DEF FilterInv, Sourced, Published, Decided
<1>5. Once'
  BY <1>1 DEF FilterInv, Once
<1>6. ExactLeast(hexaCMS)' /\ ExactLeast(cmsFile)'
  BY <1>1 DEF FilterInv, ExactLeast
<1> QED
  BY <1>3, <1>4, <1>5, <1>6 DEF FilterInv

LEMMA StoreFilter ==
    ASSUME TypeInv, FilterInv, UNCHANGED <<filterVars, filteredfeed>>
    PROVE  FilterInv'
<1>1. UNCHANGED <<feed, seen, hexaCMS, cmsFile, todo, filter, filteredfeed>>
  BY DEF filterVars
<1>2. Sourced'
  BY <1>1, StemsSame DEF FilterInv, Sourced, Published, Decided
<1>3. \A x \in SPs : Of(x)' = Of(x) /\ Est(x)' = Est(x) /\ Base(x)' = Base(x)
  BY <1>1 DEF Of, Dealt, Est, Base
<1>4. Counted' /\ Once'
  BY <1>1, <1>3 DEF FilterInv, Counted, Once
<1>5. Ends'
  <2> SUFFICES ASSUME NEW x \in SPs, filter = "on", todo = <<>> \/ x # Current.sp,
                      Est(x) # Base(x)
               PROVE  \E j \in DOMAIN filteredfeed :
                         /\ IsLast(j, x, Len(filteredfeed)) /\ filteredfeed[j].verb = "put"
                         /\ \A i \in Of(x)' : feed[i].ver <= feed[Message(filteredfeed[j])].ver
    BY <1>1 DEF Ends, IsLast, Message, Current, Est, Base
  <2> QED
    BY <1>3 DEF FilterInv, Ends
<1>6. ExactLeast(hexaCMS)' /\ ExactLeast(cmsFile)'
  BY <1>1 DEF FilterInv, ExactLeast
<1> QED
  BY <1>2, <1>4, <1>5, <1>6 DEF FilterInv

LEMMA NextFilter ==
    ASSUME TypeInv, FilterInv, OneCopy, VersionsTell, Exact # {}, [Next]_vars
    PROVE  FilterInv'
<1>1. ASSUME Storing(Deliver) \/ Storing(update_batch) \/ update_fails
             \/ UNCHANGED vars
      PROVE  UNCHANGED <<filterVars, filteredfeed>>
  BY <1>1 DEF Storing, Deliver, update_batch, update_fails, vars
<1> QED
  BY <1>1, ArriveFilter, DecideFilter, PassOverFilter, PassOverTieFilter, PublishFilter,
     PublishFailsFilter, RestartFilter, StoreFilter DEF Next, Stopped

LEMMA FilterInvariant ==
    ASSUME OneCopy, VersionsTell, Exact # {} PROVE Spec => [](TypeInv /\ FilterInv)
<1>1. TypeInv /\ FilterInv /\ [Next]_vars => FilterInv'
  BY NextFilter
<1> QED
  BY <1>1, InitFilter, InitType, NextType, PTL DEF Spec

-----------------------------------------------------------------------------
(* The store behind it *)

(* How many commands are executed. The slice has the next ones.            *)
Done      == taken - Len(commands)
Collected == Done \in Nat /\ \A i \in DOMAIN commands : commands[i] = filteredfeed[Done + i]

(* If the last command on x is a put, and of the latest message so far, the *)
(* store has its object or none: the deletes around it may take it away,   *)
(* and no other command can be executed after it.                          *)
Decides(j, x, n) ==
    /\ IsLast(j, x, n) /\ filteredfeed[j].verb = "put"
    /\ \A i \in 1..n : filteredfeed[i].sp = x => filteredfeed[i].seq <= filteredfeed[j].seq
Follows == ~damaged => \A x \in SPs, j \in 1..Done :
    Decides(j, x, Done) => stored[x] \in {None, filteredfeed[j].obj}

(* What is stored is an object that some command named.                    *)
Named(j, x, obj) == filteredfeed[j].sp = x /\ filteredfeed[j].obj = obj
Wanted == \A x \in SPs : stored[x] # None =>
    \E j \in DOMAIN filteredfeed : Named(j, x, stored[x])

StoreInv == Collected /\ Follows /\ Wanted

LEMMA InitStore == Init => StoreInv
<1> SUFFICES ASSUME Init PROVE StoreInv
  OBVIOUS
<1>1. taken = 0 /\ commands = <<>> /\ \A x \in SPs : stored[x] = None
  BY DEF Init
<1>2. Done = 0
  <2>1. Len(commands) = 0 /\ taken = 0
    BY <1>1
  <2> QED
    BY <2>1 DEF Done
<1>3. Collected
  BY <1>1, <1>2 DEF Collected
<1>4. Follows /\ Wanted
  BY <1>1, <1>2 DEF Follows, Wanted
<1> QED
  BY <1>3, <1>4 DEF StoreInv

(* The stream only grows.                                                  *)
LEMMA FilterStore ==
    ASSUME TypeInv, StoreInv, UNCHANGED storeVars,
           filteredfeed' = filteredfeed \/
               (todo # <<>> /\ filteredfeed' = Append(filteredfeed, Head(todo)))
    PROVE  StoreInv'
<1>1. UNCHANGED <<taken, commands, stored, damaged>>
  BY DEF storeVars
<1>2. /\ DOMAIN filteredfeed \subseteq DOMAIN filteredfeed'
      /\ \A j \in DOMAIN filteredfeed : filteredfeed'[j] = filteredfeed[j]
  <2>1. CASE todo # <<>> /\ filteredfeed' = Append(filteredfeed, Head(todo))
    <3>1. Head(todo) \in Command
      BY <2>1, Facts, Shorter
    <3>2. filteredfeed \in Seq(Command)
      BY Facts
    <3>3. /\ Len(filteredfeed) \in Nat /\ DOMAIN filteredfeed = 1..Len(filteredfeed)
          /\ DOMAIN filteredfeed' = 1..(Len(filteredfeed) + 1)
          /\ \A i \in 1..Len(filteredfeed) : filteredfeed'[i] = filteredfeed[i]
      BY <2>1, <3>1, <3>2, Grown
    <3> QED
      BY <3>3
  <2> QED
    BY <2>1
<1>3. Done' = Done /\ Done \in Nat
  BY <1>1 DEF Done, StoreInv, Collected
<1>4. 1..Done \subseteq DOMAIN filteredfeed
  BY <1>3, Facts DEF Done
<1>5. \A i \in DOMAIN commands : Done + i \in DOMAIN filteredfeed
  BY <1>3, Facts DEF Done
<1>6. Collected'
  BY <1>1, <1>2, <1>3, <1>5 DEF StoreInv, Collected
<1>7. ASSUME NEW x \in SPs, NEW j \in 1..Done, Decides(j, x, Done)'
      PROVE  Decides(j, x, Done)
  <2>1. \A k \in 1..Done : filteredfeed'[k] = filteredfeed[k]
    BY <1>2, <1>4
  <2>2. \A k \in (j + 1)..Done : k \in 1..Done
    BY <1>3
  <2> QED
    BY <1>3, <1>7, <2>1, <2>2 DEF Decides, IsLast
<1>8. Follows'
  BY <1>1, <1>2, <1>3, <1>4, <1>7 DEF StoreInv, Follows
<1>9. Wanted'
  BY <1>1, <1>2 DEF StoreInv, Wanted, Named
<1> QED
  BY <1>6, <1>8, <1>9 DEF StoreInv

LEMMA DeliverStore ==
    ASSUME TypeInv, StoreInv, Storing(Deliver)
    PROVE  StoreInv'
<1>1. /\ taken < Len(filteredfeed) /\ taken' = taken + 1
      /\ commands' = Append(commands, filteredfeed[taken + 1])
      /\ UNCHANGED <<filteredfeed, stored, damaged>>
  BY DEF Storing, Deliver
<1>2. filteredfeed[taken + 1] \in Command /\ taken \in Nat /\ Len(commands) \in Nat
  BY <1>1, Facts
<1>3. /\ Len(commands') = Len(commands) + 1 /\ DOMAIN commands' = 1..(Len(commands) + 1)
      /\ DOMAIN commands = 1..Len(commands)
      /\ \A i \in DOMAIN commands : commands'[i] = commands[i]
      /\ commands'[Len(commands) + 1] = filteredfeed[taken + 1]
  BY <1>1, <1>2, Facts, Grown
<1>4. Done' = Done /\ Done \in Nat /\ taken = Done + Len(commands)
  BY <1>1, <1>2, <1>3 DEF Done, StoreInv, Collected
<1>5. Collected'
  <2>1. ASSUME NEW i \in DOMAIN commands' PROVE commands'[i] = filteredfeed[Done + i]
    <3>1. CASE i \in DOMAIN commands
      BY <1>3, <3>1 DEF StoreInv, Collected
    <3>2. CASE i = Len(commands) + 1
      <4>1. Done + i = taken + 1
        BY <1>2, <1>4, <3>2
      <4> QED
        BY <1>3, <3>2, <4>1
    <3> QED
      BY <1>2, <1>3, <3>1, <3>2
  <2> QED
    BY <1>1, <1>4, <2>1 DEF Collected
<1>6. Follows' /\ Wanted'
  BY ZenonT(40), <1>1, <1>4 DEF StoreInv, Follows, Wanted, Named, Decides, IsLast
<1> QED
  BY <1>5, <1>6 DEF StoreInv

(* The batch is what was published between the two.                        *)
LEMMA SliceIs ==
    ASSUME TypeInv, StoreInv
    PROVE  /\ Done \in Nat /\ taken \in Nat /\ Done <= taken
           /\ 1..taken \subseteq DOMAIN filteredfeed
           /\ Batch(commands) = {filteredfeed[j] : j \in (Done + 1)..taken}
<1>1. /\ Done \in Nat /\ taken \in Nat /\ Len(commands) \in Nat
      /\ DOMAIN commands = 1..Len(commands) /\ taken = Done + Len(commands)
      /\ \A i \in DOMAIN commands : commands[i] = filteredfeed[Done + i]
  BY Facts DEF StoreInv, Collected, Done
<1>2. 1..taken \subseteq DOMAIN filteredfeed
  BY Facts
<1>3. \A i \in DOMAIN commands : Done + i \in (Done + 1)..taken
  BY <1>1
<1>4. \A j \in (Done + 1)..taken : j - Done \in DOMAIN commands /\ Done + (j - Done) = j
  BY <1>1
<1>5. \A c \in Batch(commands) : \E j \in (Done + 1)..taken : c = filteredfeed[j]
  BY <1>1, <1>3 DEF Batch
<1>6. \A j \in (Done + 1)..taken : filteredfeed[j] \in Batch(commands)
  <2> TAKE j \in (Done + 1)..taken
  <2>1. filteredfeed[j] = commands[j - Done] /\ j - Done \in DOMAIN commands
    BY <1>1, <1>4
  <2> QED
    BY <2>1 DEF Batch
<1> QED
  BY <1>1, <1>2, <1>5, <1>6

(* What a batch can leave of a pair.                                       *)
LEMMA EffectIs ==
    ASSUME NEW B, NEW x \in SPs
    PROVE  /\ x \notin Pairs(B) => Effect(B, x) \in {None, stored[x]}
           /\ x \in Pairs(B) /\ Last(B, x).verb = "put"
                  => Effect(B, x) \in {None, Last(B, x).obj}
           /\ Effect(B, x) # None =>
                  Effect(B, x) = stored[x] \/ (x \in Pairs(B) /\ Effect(B, x) = Last(B, x).obj)
<1>1. ASSUME x \in Issued(B) PROVE x \in Undone(B, x)
  <2>1. x <= x
    BY PairAssumption
  <2> QED
    BY <1>1, <2>1 DEF Undone, Tmp
<1>2. Last(B, x).verb = "put" /\ ~Passes(B, x) => x \in Issued(B)
  BY DEF Passes
<1>3. x \notin Pairs(B) => Effect(B, x) \in {None, stored[x]}
  BY DEF Effect
<1>4. x \in Pairs(B) /\ Last(B, x).verb = "put" => Effect(B, x) \in {None, Last(B, x).obj}
  BY <1>1, <1>2 DEF Effect
<1>5. Effect(B, x) # None =>
          Effect(B, x) = stored[x] \/ (x \in Pairs(B) /\ Effect(B, x) = Last(B, x).obj)
  BY DEF Effect
<1> QED
  BY <1>3, <1>4, <1>5

(* Commands on one pair with equal numbers are copies.                     *)
LEMMA CopiesAgree ==
    ASSUME TypeInv, FilterInv, NEW i \in DOMAIN filteredfeed, NEW j \in DOMAIN filteredfeed,
           filteredfeed[i].seq = filteredfeed[j].seq
    PROVE  /\ filteredfeed[i].obj = filteredfeed[j].obj
           /\ filteredfeed[i].verb = "put" <=> filteredfeed[j].verb = "put"
<1>1. Message(filteredfeed[i]) = Message(filteredfeed[j])
  BY DEF Message
<1> QED
  BY <1>1 DEF FilterInv, Sourced, Published, Stems

LEMMA UpdateStore ==
    ASSUME TypeInv, FilterInv, StoreInv, Storing(update_batch) \/ update_fails
    PROVE  StoreInv'
<1>b. PICK B : B = Batch(commands)
  OBVIOUS
<1>1. commands' = <<>> /\ UNCHANGED <<filteredfeed, taken>>
  BY DEF Storing, update_batch, update_fails
<1>2. /\ Done \in Nat /\ taken \in Nat /\ Done <= taken
      /\ 1..taken \subseteq DOMAIN filteredfeed
      /\ B = {filteredfeed[j] : j \in (Done + 1)..taken}
  BY <1>b, SliceIs
<1>3. Done' = taken
  BY <1>1, <1>2 DEF Done
<1>4. Collected'
  BY <1>1, <1>2, <1>3 DEF Collected
<1>5. Wanted'
  <2> SUFFICES ASSUME NEW x \in SPs, stored'[x] # None
               PROVE  \E j \in DOMAIN filteredfeed : Named(j, x, stored'[x])
    BY <1>1 DEF Wanted, Named
  <2>1. ASSUME x \in Pairs(B)
        PROVE  \E j \in DOMAIN filteredfeed : Named(j, x, Last(B, x).obj)
    <3>1. Last(B, x) \in B /\ Last(B, x).sp = x
      BY <1>b, <2>1, LastIs
    <3>2. PICK j \in (Done + 1)..taken : Last(B, x) = filteredfeed[j]
      BY <1>2, <3>1
    <3>3. j \in DOMAIN filteredfeed
      BY <1>2, <3>2
    <3> QED
      BY <3>1, <3>2, <3>3 DEF Named
  <2>2. stored'[x] = stored[x] \/ (x \in Pairs(B) /\ stored'[x] = Last(B, x).obj)
    <3>1. CASE Storing(update_batch)
      BY <1>b, <3>1, EffectIs DEF Storing, update_batch
    <3>2. CASE update_fails
      <4>1. PICK at \in Pairs(B) : \E left \in {None, stored[at]} :
                stored' = [sp \in SPs |->
                    IF Subject[sp] < Subject[at] THEN Effect(B, sp)
                    ELSE IF Subject[sp] = Subject[at] /\ left = None THEN None
                    ELSE stored[sp]]
        BY <1>b, <3>2 DEF update_fails
      <4>2. stored'[x] \in {Effect(B, x), None, stored[x]}
        BY <4>1
      <4> QED
        BY <4>2, EffectIs
    <3> QED
      BY <3>1, <3>2
  <2> QED
    BY <2>1, <2>2 DEF StoreInv, Wanted
<1>6. Follows'
  <2> SUFFICES ASSUME ~damaged', NEW x \in SPs, NEW j \in 1..taken, Decides(j, x, taken)
               PROVE  stored'[x] \in {None, filteredfeed[j].obj}
    <3> SUFFICES ASSUME ~damaged', NEW x \in SPs, NEW j \in 1..taken, Decides(j, x, taken)'
                 PROVE  stored'[x] \in {None, filteredfeed[j].obj}
      BY <1>1, <1>3 DEF Follows
    <3>1. Decides(j, x, taken)
      BY <1>1 DEF Decides, IsLast
    <3> QED
      BY <3>1
  <2>1. Storing(update_batch) /\ ~damaged /\ stored'[x] = Effect(B, x)
    BY <1>b DEF Storing, update_batch, update_fails
  <2>2. j \in DOMAIN filteredfeed /\ filteredfeed[j].sp = x /\ filteredfeed[j].seq \in Nat
        /\ filteredfeed[j].verb = "put"
    BY <1>2, Facts DEF Decides, IsLast
  <2>3. CASE x \in Pairs(B)
    <3>1. PICK k \in (Done + 1)..taken : filteredfeed[k].sp = x
      BY <1>2, <2>3 DEF Pairs
    <3>2. Done < j
      BY <1>2, <3>1 DEF Decides, IsLast
    <3>3. filteredfeed[j] \in B
      BY <1>2, <3>2
    <3>4. /\ Last(B, x) \in B /\ Last(B, x).sp = x
          /\ filteredfeed[j].seq <= Last(B, x).seq
      BY <1>b, <2>2, <2>3, <3>3, LastIs
    <3>5. PICK i \in (Done + 1)..taken : Last(B, x) = filteredfeed[i]
      BY <1>2, <3>4
    <3>6. i \in 1..taken /\ i \in DOMAIN filteredfeed
      BY <1>2, <3>5
    <3>7. filteredfeed[i].seq <= filteredfeed[j].seq /\ filteredfeed[i].seq \in Nat
      BY <3>4, <3>5, <3>6, Facts DEF Decides
    <3>8. filteredfeed[i].seq = filteredfeed[j].seq
      BY <2>2, <3>4, <3>5, <3>7
    <3>9. Last(B, x).obj = filteredfeed[j].obj /\ Last(B, x).verb = "put"
      BY <2>2, <3>5, <3>6, <3>8, CopiesAgree
    <3> QED
      BY <2>1, <2>3, <3>9, EffectIs
  <2>4. CASE x \notin Pairs(B)
    <3>1. \A k \in (Done + 1)..taken : filteredfeed[k].sp # x
      BY <1>2, <2>4 DEF Pairs
    <3>2. j \in 1..Done
      BY <1>2, <2>2, <3>1
    <3>3. Decides(j, x, Done)
      <4>1. \A k \in (j + 1)..Done : k \in (j + 1)..taken
        BY <1>2, <3>2
      <4>2. \A k \in 1..Done : k \in 1..taken
        BY <1>2
      <4> QED
        BY <4>1, <4>2 DEF Decides, IsLast
    <3>4. stored[x] \in {None, filteredfeed[j].obj}
      BY <2>1, <3>2, <3>3 DEF StoreInv, Follows
    <3> QED
      BY <2>1, <2>4, <3>4, EffectIs
  <2> QED
    BY <2>3, <2>4
<1> QED
  BY <1>4, <1>5, <1>6 DEF StoreInv

LEMMA RestartStore ==
    ASSUME TypeInv, StoreInv, Restart
    PROVE  StoreInv'
<1>1. /\ taken' = 0 /\ commands' = <<>>
      /\ UNCHANGED <<filteredfeed, stored>>
  BY DEF Restart, Filter!Restart
<1>2. Done' = 0
  <2>1. Len(commands') = 0 /\ taken' = 0
    BY <1>1
  <2> QED
    BY <2>1 DEF Done
<1>3. Collected' /\ Follows'
  BY <1>1, <1>2 DEF Collected, Follows
<1>4. Wanted'
  BY <1>1 DEF StoreInv, Wanted, Named
<1> QED
  BY <1>3, <1>4 DEF StoreInv

LEMMA NextStore ==
    ASSUME TypeInv, FilterInv, StoreInv, [Next]_vars
    PROVE  StoreInv'
<1>1. ASSUME NEW t, Filtering(Filter!Arrive(t)) PROVE StoreInv'
  BY <1>1, FilterStore DEF Filtering, Filter!Arrive
<1>2. ASSUME Filtering(Filter!Decide) \/ Filtering(Filter!PassOver) \/ Filtering(PassOverTie)
      PROVE  StoreInv'
  BY <1>2, FilterStore DEF Filtering, Filter!Decide, Filter!PassOver, PassOverTie
<1>3. ASSUME Filtering(Filter!Publish) PROVE StoreInv'
  BY <1>3, FilterStore DEF Filtering, Filter!Publish
<1>4. ASSUME UNCHANGED vars PROVE StoreInv'
  BY <1>4, FilterStore DEF vars
<1>5. ASSUME PublishFails PROVE StoreInv'
  BY <1>5, FilterStore DEF PublishFails, Filter!PublishFails
<1> QED
  BY <1>1, <1>2, <1>3, <1>4, <1>5, DeliverStore, UpdateStore, RestartStore
     DEF Next, Stopped

(* If the last command on a pair puts its latest version, no command on it  *)
(* has a greater number, and the store shows that version.                 *)
LEMMA PutIsLatest ==
    ASSUME TypeInv, FilterInv, StoreInv, Drained, ~damaged,
           NEW x \in SPs, stored[x] # None,
           NEW j \in DOMAIN filteredfeed,
           IsLast(j, x, Len(filteredfeed)), filteredfeed[j].verb = "put",
           \A i \in Of(x) : feed[i].ver <= feed[Message(filteredfeed[j])].ver
    PROVE  Posted(x) # {} /\ stored[x] = Latest(x).obj
<1>1. /\ todo = <<>> /\ seen = Len(feed)
      /\ taken = Len(filteredfeed) /\ commands = <<>>
  BY DEF Drained, Filter!Idle, Idle
<1>2. Done = Len(filteredfeed) /\ Len(filteredfeed) \in Nat
      /\ DOMAIN filteredfeed = 1..Done
  BY <1>1, Facts DEF Done
<1>3. \A i \in DOMAIN feed : feed[i].sp = x => i \in Of(x)
  BY <1>1, Facts DEF Of, Dealt
<1>m. PICK m : m = Message(filteredfeed[j])
  OBVIOUS
<1>7. /\ m \in DOMAIN feed /\ m \in Nat /\ feed[m].sp = x /\ feed[m].ver \in Nat
      /\ filteredfeed[j].obj = feed[m].obj /\ filteredfeed[j].seq = 2 * m + 1
  <2>1. Stems(filteredfeed[j]) /\ filteredfeed[j].sp = x
    BY DEF FilterInv, Sourced, Published, IsLast
  <2>2. m \in DOMAIN feed
    BY <2>1, <1>m DEF Stems
  <2> QED
    BY <1>m, <2>1, <2>2, Facts DEF Stems
<1>8. ASSUME NEW i \in DOMAIN filteredfeed, filteredfeed[i].sp = x
      PROVE  filteredfeed[i].seq <= filteredfeed[j].seq
  <2>h. PICK h : h = Message(filteredfeed[i])
    OBVIOUS
  <2>1. h \in DOMAIN feed /\ Record(h) /\ feed[h].sp = x
    BY <1>8, <2>h DEF FilterInv, Sourced, Published, Stems
  <2>2. h \in Nat /\ feed[h].ver \in Nat /\ filteredfeed[i].seq \in Nat
    BY <2>1, Facts
  <2>3. filteredfeed[i].seq <= 2 * h + 1
    <3>1. filteredfeed[i].seq \in {2 * h, 2 * h + 1}
      BY <2>2, <2>h, MessageIs
    <3> QED
      BY <2>2, <3>1
  <2>4. feed[h].ver <= feed[m].ver
    BY <1>3, <1>m, <2>1
  <2>5. ~(m < h)
    BY <1>7, <2>1, <2>2, <2>4 DEF Record
  <2> QED
    BY <1>7, <2>2, <2>3, <2>5
<1>9. Decides(j, x, Done) /\ j \in 1..Done
  BY <1>2, <1>8 DEF Decides
<1>10. stored[x] = feed[m].obj
  BY <1>7, <1>9 DEF StoreInv, Follows
<1>11. feed[m] \in Posted(x) /\ \A u \in Posted(x) : u.ver <= feed[m].ver
  BY <1>3, <1>7, <1>m DEF Posted
<1>12. Latest(x) \in Posted(x) /\ \A u \in Posted(x) : u.ver <= Latest(x).ver
  BY <1>11 DEF Latest
<1>13. PICK h \in DOMAIN feed : Latest(x) = feed[h] /\ feed[h].sp = x
  BY <1>12 DEF Posted
<1>14. feed[h].ver = feed[m].ver
  <2>1. feed[h].ver \in Nat
    BY Facts
  <2> QED
    BY <1>7, <1>11, <1>12, <1>13, <2>1
<1>15. h = m
  BY <1>7, <1>13, <1>14 DEF FilterInv, Once
<1> QED
  BY <1>10, <1>11, <1>13, <1>15

(* What the sketch has counted since the start ends in such a put.         *)
LEMMA LaterIsLatest ==
    ASSUME TypeInv, FilterInv, StoreInv, Drained, ~damaged,
           NEW x \in SPs, stored[x] # None, Est(x) # Base(x)
    PROVE  Posted(x) # {} /\ stored[x] = Latest(x).obj
<1>1. filter = "on" /\ todo = <<>>
  BY DEF Drained, Filter!Idle
<1>2. PICK j \in DOMAIN filteredfeed :
           /\ IsLast(j, x, Len(filteredfeed)) /\ filteredfeed[j].verb = "put"
           /\ \A i \in Of(x) : feed[i].ver <= feed[Message(filteredfeed[j])].ver
  BY <1>1 DEF FilterInv, Ends
<1> QED
  BY <1>2, PutIsLatest

(* And if it has counted no more than what was saved, the versions of the   *)
(* pair are all passed over: either that swallows the latest, or its put is *)
(* the last command on the pair all the same.                              *)
LEMMA SavedIsLatest ==
    ASSUME TypeInv, FilterInv, StoreInv, Drained, ~damaged,
           NEW x \in SPs, stored[x] # None, Est(x) = Base(x), Est(x) # 0, ~Swallowed(x)
    PROVE  Posted(x) # {} /\ stored[x] = Latest(x).obj
<1>1. todo = <<>> /\ seen = Len(feed)
  BY DEF Drained, Filter!Idle
<1>2. ASSUME NEW i \in DOMAIN feed, feed[i].sp = x
      PROVE  i \in Of(x) /\ feed[i].ver \in Nat /\ feed[i].ver <= Est(x)
  <2>1. i \in Of(x) /\ feed[i].ver \in Nat
    BY <1>1, <1>2, Facts DEF Of, Dealt
  <2> QED
    BY <2>1 DEF FilterInv, Counted
<1>3. Posted(x) # {}
  <2>1. PICK j \in DOMAIN filteredfeed : Named(j, x, stored[x])
    BY DEF StoreInv, Wanted
  <2>2. feed[Message(filteredfeed[j])] \in Posted(x)
    BY <2>1 DEF FilterInv, Sourced, Published, Stems, Named, Posted
  <2> QED
    BY <2>2
<1>4. PICK l \in DOMAIN feed : /\ feed[l].sp = x /\ Latest(x) = feed[l]
                               /\ \A i \in Of(x) : feed[i].ver <= feed[l].ver
  <2>1. PICK p \in DOMAIN feed : feed[p].sp = x
    BY <1>3 DEF Posted
  <2>d. DEFINE S == {feed[i].ver : i \in {h \in DOMAIN feed : feed[h].sp = x}}
  <2>2. S \subseteq Nat /\ feed[p].ver \in S /\ \A v \in S : v <= Est(x)
    BY <1>2, <2>1
  <2>e. Est(x) \in Nat
    BY Facts
  <2>3. \E v \in S : \A u \in S : u <= v
    <3> HIDE DEF S
    <3> QED
      BY <2>2, <2>e, GreatestOf
  <2>4. PICK l \in DOMAIN feed : feed[l].sp = x /\ \A u \in S : u <= feed[l].ver
    BY <2>3
  <2>5. feed[l] \in Posted(x) /\ \A u \in Posted(x) : u.ver <= feed[l].ver
    BY <2>4 DEF Posted
  <2>6. Latest(x) \in Posted(x) /\ \A u \in Posted(x) : u.ver <= Latest(x).ver
    BY <2>5 DEF Latest
  <2>7. \A i \in Of(x) : feed[i] \in Posted(x)
    BY DEF Of, Posted
  <2> QED
    BY <2>6, <2>7 DEF Posted
<1>5. 0 < Base(x) /\ Latest(x).ver <= Base(x)
  <2>1. Est(x) \in Nat
    BY Facts
  <2> QED
    BY <1>2, <1>4, <2>1
<1>6. PICK j \in DOMAIN filteredfeed :
           /\ filteredfeed[j].verb = "put" /\ feed[filteredfeed[j].seq \div 2] = Latest(x)
           /\ \A k \in (j + 1)..Len(filteredfeed) : filteredfeed[k].sp # x
  BY <1>5 DEF Swallowed, Base
<1>7. feed[Message(filteredfeed[j])] = feed[l]
  BY <1>4, <1>6 DEF Message
<1>8. filteredfeed[j].sp = x
  BY <1>4, <1>7 DEF FilterInv, Sourced, Published, Stems
<1>9. IsLast(j, x, Len(filteredfeed))
  BY <1>6, <1>8 DEF IsLast
<1> QED
  BY <1>4, <1>6, <1>7, <1>9, PutIsLatest

(* A pair of which the sketch knows nothing has one tuple, with version 0. *)
LEMMA FirstIsLatest ==
    ASSUME TypeInv, FilterInv, StoreInv, Drained,
           NEW x \in SPs, stored[x] # None, Est(x) = 0
    PROVE  Posted(x) # {} /\ stored[x] = Latest(x).obj
<1>1. todo = <<>> /\ seen = Len(feed)
  BY DEF Drained, Filter!Idle
<1>2. ASSUME NEW i \in DOMAIN feed, feed[i].sp = x PROVE feed[i].ver = 0
  <2>1. i \in Of(x) /\ feed[i].ver \in Nat
    BY <1>1, <1>2, Facts DEF Of, Dealt
  <2>2. feed[i].ver <= Est(x)
    BY <2>1 DEF FilterInv, Counted
  <2> QED
    BY <2>1, <2>2
<1>3. \A i, h \in DOMAIN feed : feed[i].sp = x /\ feed[h].sp = x => i = h
  BY <1>2 DEF FilterInv, Once
<1>4. PICK j \in DOMAIN filteredfeed : Named(j, x, stored[x])
  BY DEF StoreInv, Wanted
<1>m. PICK m : m = Message(filteredfeed[j])
  OBVIOUS
<1>5. m \in DOMAIN feed /\ feed[m].sp = x /\ feed[m].obj = stored[x]
  BY <1>4, <1>m DEF FilterInv, Sourced, Published, Stems, Named
<1>6. Posted(x) = {feed[m]}
  BY <1>3, <1>5 DEF Posted
<1>7. feed[m].ver <= feed[m].ver
  BY <1>5, Facts
<1>8. Latest(x) = feed[m]
  BY <1>6, <1>7 DEF Latest
<1> QED
  BY <1>5, <1>6, <1>8

LEMMA DrainedIsLatest == ASSUME TypeInv, FilterInv, StoreInv PROVE NeverStale
BY LaterIsLatest, SavedIsLatest, FirstIsLatest DEF NeverStale, OutOfDate

(* When all is done a read model shows, in influx or in mongo, the latest   *)
(* version of a pair or none, unless a failed publication has saved a       *)
(* sketch that swallows that version. That is so wherever the batches were  *)
(* cut, however often publications failed and the node was stopped, read    *)
(* the saved sketch and began the stream again, and whatever the hexastore *)
(* answered: if no tuple arrives twice, versions tell the tuples of a pair *)
(* apart, and the sketch has a row without collisions. A call to mongo that *)
(* fails is made up for by the next start, whatever part of a batch it      *)
(* drops.                                                                  *)
THEOREM NothingStale ==
    ASSUME OneCopy, VersionsTell, Exact # {}
    PROVE  Spec => []NeverStale
<1>1. TypeInv /\ FilterInv /\ StoreInv /\ [Next]_vars => StoreInv'
  BY NextStore
<1>2. TypeInv /\ FilterInv /\ StoreInv => NeverStale
  BY DrainedIsLatest
<1>3. Spec => [](TypeInv /\ FilterInv)
  BY FilterInvariant
<1>4. Spec => Init /\ [][Next]_vars
  BY DEF Spec
<1> QED
  BY <1>1, <1>2, <1>3, <1>4, InitStore, PTL

=============================================================================
