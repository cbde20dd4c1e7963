---------------------------- MODULE QueriesProofs ----------------------------
(***************************************************************************)
(* Proofs about the timetable queries, for all pairs, objects, streams and  *)
(* queries: their types; and that an answer has what stays stored while the *)
(* query runs, and nothing that was not stored meanwhile.                  *)
(***************************************************************************)
EXTENDS Queries, SequenceTheorems, FiniteSetTheorems, TLAPS

USE PairAssumption

(* The instance of Hexastore whose lemmas are used has the operators of Hexa. *)
Hx == INSTANCE HexastoreProofs

LEMMA SameHexa ==
    /\ Hx!Command = Command /\ Hx!Perms = Hexa!Perms /\ Hx!AllKeys = Hexa!AllKeys
    /\ \A x : Hx!SPKey(x) = Hexa!SPKey(x)
    /\ \A p, x, o : Hx!Key(p, x, o) = Hexa!Key(p, x, o)
    /\ \A x, o : Hx!TombKey(x, o) = Hexa!TombKey(x, o)
    /\ Hx!current = Hexa!current
    /\ Hx!Init <=> Hexa!Init
    /\ Hx!Deliver <=> Hexa!Deliver
    /\ Hx!update_batch <=> Hexa!update_batch
    /\ \A s : (Hx!Numbered(s) <=> Numbered(s)) /\ (Hx!Replacing(s) <=> Replacing(s))
<1>1. Hx!Command = Command /\ Hx!Perms = Hexa!Perms
  BY DEF Hx!Command, Command, Hx!Perms, Hexa!Perms
<1>2. /\ \A x : Hx!SPKey(x) = Hexa!SPKey(x)
      /\ \A p, x, o : Hx!Key(p, x, o) = Hexa!Key(p, x, o)
      /\ \A x, o : Hx!TombKey(x, o) = Hexa!TombKey(x, o)
  BY DEF Hx!SPKey, Hexa!SPKey, Hx!Key, Hexa!Key, Hx!TombKey, Hexa!TombKey
<1>3. \A x, o : Hx!Keys(x, o) = Hexa!Keys(x, o)
  BY <1>1, <1>2 DEF Hx!Keys, Hexa!Keys
<1>4. Hx!AllKeys = Hexa!AllKeys
  BY <1>2, <1>3 DEF Hx!AllKeys, Hexa!AllKeys
<1>5. Hx!current = Hexa!current
  BY <1>2 DEF Hx!current, Hexa!current
<1>6. /\ \A s : Hx!Batch(s) = Hexa!Batch(s)
      /\ \A B : Hx!Pairs(B) = Hexa!Pairs(B)
      /\ \A B, x : Hx!Group(B, x) = Hexa!Group(B, x)
      /\ \A S, x : Hx!Tmp(S, x) = Hexa!Tmp(S, x)
  BY DEF Hx!Batch, Hexa!Batch, Hx!Pairs, Hexa!Pairs, Hx!Group, Hexa!Group, Hx!Tmp, Hexa!Tmp
<1>7. \A B, x : Hx!First(B, x) = Hexa!First(B, x) /\ Hx!Last(B, x) = Hexa!Last(B, x)
  BY <1>6 DEF Hx!First, Hexa!First, Hx!Last, Hexa!Last
<1>8. \A B : Hx!Issued(B) = Hexa!Issued(B)
  BY <1>2, <1>6, <1>7 DEF Hx!Issued, Hexa!Issued, Hx!Deletes, Hexa!Deletes
<1>9. \A B, x : Hx!Unstore(B, x) = Hexa!Unstore(B, x)
  <2>1. \A x, o, seq : Hx!cmdUnstore(x, o, seq) = Hexa!cmdUnstore(x, o, seq)
    BY <1>3 DEF Hx!cmdUnstore, Hexa!cmdUnstore, Hx!HxCommand, Hexa!HxCommand
  <2>2. \A x, o, seq : Hx!cmdStoreSingleKey(x, o, seq) = Hexa!cmdStoreSingleKey(x, o, seq)
    BY <1>2 DEF Hx!cmdStoreSingleKey, Hexa!cmdStoreSingleKey, Hx!HxCommand, Hexa!HxCommand
  <2> QED
    BY <1>2, <1>7, <2>1, <2>2 DEF Hx!Unstore, Hexa!Unstore
<1>10. \A B, x : Hx!Restores(B, x) <=> Hexa!Restores(B, x)
  BY <1>2, <1>7, <1>8 DEF Hx!Restores, Hexa!Restores
<1>11. \A B, x : Hx!Enforced(B, x) = Hexa!Enforced(B, x)
  BY <1>6, <1>7, <1>8, <1>9, <1>10 DEF Hx!Enforced, Hexa!Enforced
<1>12. \A B, x : Hx!Stored(B, x) = Hexa!Stored(B, x)
  <2>1. \A c : Hx!cmdStore(c) = Hexa!cmdStore(c)
    BY <1>3 DEF Hx!cmdStore, Hexa!cmdStore, Hx!HxCommand, Hexa!HxCommand
  <2> QED
    BY <1>7, <1>10, <2>1 DEF Hx!Stored, Hexa!Stored
<1>13. \A B : Hx!Out(B) = Hexa!Out(B)
  BY <1>6, <1>11, <1>12 DEF Hx!Out, Hexa!Out
<1>14. \A out : Hx!Executed(out) = Hexa!Executed(out)
  BY DEF Hx!Executed, Hexa!Executed
<1>15. Hx!update_batch <=> Hexa!update_batch
  BY <1>6, <1>13, <1>14 DEF Hx!update_batch, Hexa!update_batch
<1>16. (Hx!Init <=> Hexa!Init) /\ (Hx!Deliver <=> Hexa!Deliver)
  BY DEF Hx!Init, Hexa!Init, Hx!Deliver, Hexa!Deliver
<1>17. \A s : (Hx!Numbered(s) <=> Numbered(s)) /\ (Hx!Replacing(s) <=> Replacing(s))
  BY DEF Hx!Numbered, Numbered, Hx!Replacing, Replacing
<1> QED
  BY <1>1, <1>2, <1>4, <1>5, <1>15, <1>16, <1>17

-----------------------------------------------------------------------------
(* Lists *)

In(s) == {s[i] : i \in DOMAIN s}

LEMMA SameSet == \A s : Seqs!ToSet(s) = In(s)
BY DEF Seqs!ToSet, In

LEMMA InEmpty == In(<<>>) = {}
BY DEF In

LEMMA InAppend ==
    ASSUME NEW s \in Seq(Objects), NEW o \in Objects
    PROVE  Append(s, o) \in Seq(Objects) /\ In(Append(s, o)) = In(s) \cup {o}
<1> DEFINE t == Append(s, o)
<1>1. /\ t \in Seq(Objects) /\ Len(t) = Len(s) + 1 /\ t[Len(s) + 1] = o
      /\ \A i \in 1..Len(s) : t[i] = s[i]
  BY AppendProperties
<1>2. DOMAIN t = 1..(Len(s) + 1) /\ DOMAIN s = 1..Len(s) /\ Len(s) \in Nat
  BY <1>1, LenProperties
<1> HIDE DEF t
<1>3. \A i \in DOMAIN t : i \in DOMAIN s \/ i = Len(s) + 1
  BY <1>2
<1>4. \A i \in DOMAIN s : i \in DOMAIN t /\ t[i] = s[i]
  BY <1>1, <1>2
<1>5. Len(s) + 1 \in DOMAIN t
  BY <1>2
<1>6. In(t) = In(s) \cup {o}
  BY <1>1, <1>3, <1>4, <1>5 DEF In
<1> QED
  BY <1>1, <1>6 DEF t

LEMMA InConcat ==
    ASSUME NEW s \in Seq(Objects), NEW t \in Seq(Objects)
    PROVE  s \o t \in Seq(Objects) /\ In(s \o t) = In(s) \cup In(t)
<1>1. \A u : In(u) = Range(u)
  BY DEF In, Range
<1>2. Range(s \o t) = Range(s) \cup Range(t)
  BY RangeConcatenation
<1> QED
  BY <1>1, <1>2, ConcatProperties

LEMMA InTail ==
    ASSUME NEW s \in Seq(Objects), s # <<>>
    PROVE  /\ Head(s) \in Objects /\ Tail(s) \in Seq(Objects)
           /\ In(s) = {Head(s)} \cup In(Tail(s))
<1> DEFINE t == Tail(s)
<1>1. /\ Head(s) \in Objects /\ t \in Seq(Objects) /\ Len(t) = Len(s) - 1
      /\ \A i \in 1..Len(t) : t[i] = s[i + 1]
  BY HeadTailProperties
<1>2. DOMAIN t = 1..(Len(s) - 1) /\ DOMAIN s = 1..Len(s) /\ Len(s) \in Nat /\ Len(s) # 0
  BY <1>1, LenProperties, EmptySeq
<1>3. Head(s) = s[1]
  OBVIOUS
<1> HIDE DEF t
<1>4. \A i \in DOMAIN t : i + 1 \in DOMAIN s /\ t[i] = s[i + 1]
  BY <1>1, <1>2
<1>5. \A i \in DOMAIN s : i = 1 \/ (i - 1 \in DOMAIN t /\ t[i - 1] = s[i])
  BY <1>1, <1>2
<1>6. 1 \in DOMAIN s
  BY <1>2
<1>7. In(s) = {Head(s)} \cup In(t)
  <2>1. \A e \in In(s) : e = Head(s) \/ e \in In(t)
    BY <1>3, <1>5 DEF In
  <2>2. \A e \in In(t) : e \in In(s)
    BY <1>4 DEF In
  <2>3. Head(s) \in In(s)
    BY <1>3, <1>6 DEF In
  <2> QED
    BY <2>1, <2>2, <2>3
<1> QED
  BY <1>1, <1>7 DEF t

(* A finite set, listed. *)
LEMMA SetToSeqIs ==
    ASSUME NEW S, IsFiniteSet(S)
    PROVE  /\ Cardinality(S) \in Nat
           /\ DOMAIN Seqs!SetToSeq(S) = 1..Cardinality(S)
           /\ In(Seqs!SetToSeq(S)) = S
<1> DEFINE n == Cardinality(S)
           IsListed(f) == f \in [1..n -> S] /\ \A a, b \in DOMAIN f : f[a] = f[b] => a = b
<1>1. n \in Nat /\ ExistsBijection(1..n, S)
  BY FS_CardinalityType
<1>2. \E f : IsListed(f)
  BY <1>1 DEF ExistsBijection, Bijection, Injection, IsInjective
<1>3. Seqs!SetToSeq(S) = CHOOSE f \in [1..n -> S] :
                             \A a, b \in DOMAIN f : f[a] = f[b] => a = b
  BY DEF Seqs!SetToSeq, Seqs!IsInjective, Seqs!Cardinality, Cardinality
<1>4. IsListed(Seqs!SetToSeq(S))
  BY <1>2, <1>3
<1> DEFINE f == Seqs!SetToSeq(S)
<1>5. f \in Injection(1..n, S)
  BY <1>4 DEF Injection, IsInjective
<1>6. Cardinality(1..n) = n
  BY <1>1, FS_Interval
<1> HIDE DEF f
<1>7. f \in Surjection(1..n, S)
  <2> HIDE DEF n
  <2>1. n = Cardinality(S)
    BY DEF n
  <2> QED
    BY <1>5, <1>6, <2>1, FS_Injection
<1>8. DOMAIN f = 1..n /\ In(f) = S
  BY <1>7 DEF Surjection, In
<1> QED
  BY <1>1, <1>8 DEF f

-----------------------------------------------------------------------------
(* Prefixes *)

LEMMA OrderIs ==
    /\ Order["SP"] = <<"s", "p">>
    /\ Order["SPO"] = <<"s", "p", "o">> /\ Order["SOP"] = <<"s", "o", "p">>
    /\ Order["PSO"] = <<"p", "s", "o">> /\ Order["POS"] = <<"p", "o", "s">>
    /\ Order["OPS"] = <<"o", "p", "s">> /\ Order["OSP"] = <<"o", "s", "p">>
    /\ Order["TOMBSTONE"] = <<"stamp">>
BY DEF Order

LEMMA PartIs ==
    ASSUME NEW k
    PROVE  /\ Part(k, "s") = Pair[k[2]].subject /\ Part(k, "p") = Pair[k[2]].predicate.path
           /\ Part(k, "o") = k[3]
BY DEF Part

(* A prefix of one part, and one of two. *)
LEMMA PrefixOne ==
    ASSUME NEW k, NEW a, NEW v, Len(Order[k[1]]) \in Nat
    PROVE  HasPrefix(k, <<[part |-> a, is |-> v]>>) <=>
               Len(Order[k[1]]) >= 1 /\ Order[k[1]][1] = a /\ Part(k, a) = v
BY DEF HasPrefix

LEMMA PrefixTwo ==
    ASSUME NEW k, NEW a, NEW v, NEW b, NEW w, Len(Order[k[1]]) \in Nat
    PROVE  HasPrefix(k, <<[part |-> a, is |-> v], [part |-> b, is |-> w]>>) <=>
               /\ Len(Order[k[1]]) >= 2
               /\ Order[k[1]][1] = a /\ Part(k, a) = v
               /\ Order[k[1]][2] = b /\ Part(k, b) = w
BY DEF HasPrefix

LEMMA SPPrefix ==
    ASSUME NEW x, NEW s, NEW path, NEW u
    PROVE  /\ ~HasPrefix(Hx!SPKey(x), ByPath(path))
           /\ ~HasPrefix(Hx!SPKey(x), ByPathObject(path, u))
           /\ HasPrefix(Hx!SPKey(x), BySubjectPath(s, path)) <=>
                  Pair[x].subject = s /\ Pair[x].predicate.path = path
<1> DEFINE k == Hx!SPKey(x)
<1>1. k[1] = "SP" /\ k[2] = x
  BY DEF Hx!SPKey
<1>2. Len(Order[k[1]]) = 2 /\ Order[k[1]][1] = "s" /\ Order[k[1]][2] = "p"
  BY <1>1, OrderIs
<1> HIDE DEF k
<1>3. /\ ~HasPrefix(k, ByPath(path)) /\ ~HasPrefix(k, ByPathObject(path, u))
      /\ HasPrefix(k, BySubjectPath(s, path)) <=> Part(k, "s") = s /\ Part(k, "p") = path
  BY <1>2, PrefixOne, PrefixTwo DEF ByPath, ByPathObject, BySubjectPath
<1> QED
  BY <1>1, <1>3, PartIs DEF k

LEMMA KeyPrefix ==
    ASSUME NEW p \in Hx!Perms, NEW x, NEW o, NEW s, NEW path, NEW u
    PROVE  /\ HasPrefix(Hx!Key(p, x, o), ByPath(path)) <=>
                  p \in {"PSO", "POS"} /\ Pair[x].predicate.path = path
           /\ HasPrefix(Hx!Key(p, x, o), ByPathObject(path, u)) <=>
                  p = "POS" /\ Pair[x].predicate.path = path /\ o = u
           /\ HasPrefix(Hx!Key(p, x, o), BySubjectPath(s, path)) <=>
                  p = "SPO" /\ Pair[x].subject = s /\ Pair[x].predicate.path = path
<1> DEFINE k == Hx!Key(p, x, o)
<1>1. k[1] = p /\ k[2] = x /\ k[3] = o
  BY DEF Hx!Key
<1>2. /\ Len(Order[p]) = 3
      /\ Order[p][1] = "p" <=> p \in {"PSO", "POS"}
      /\ Order[p][1] = "p" /\ Order[p][2] = "o" <=> p = "POS"
      /\ Order[p][1] = "s" /\ Order[p][2] = "p" <=> p = "SPO"
  BY OrderIs DEF Hx!Perms
<1> HIDE DEF k
<1>3. /\ HasPrefix(k, ByPath(path)) <=> Order[p][1] = "p" /\ Part(k, "p") = path
      /\ HasPrefix(k, ByPathObject(path, u)) <=>
             Order[p][1] = "p" /\ Order[p][2] = "o" /\ Part(k, "p") = path /\ Part(k, "o") = u
      /\ HasPrefix(k, BySubjectPath(s, path)) <=>
             Order[p][1] = "s" /\ Order[p][2] = "p" /\ Part(k, "s") = s /\ Part(k, "p") = path
  BY <1>1, <1>2, PrefixOne, PrefixTwo DEF ByPath, ByPathObject, BySubjectPath
<1> QED
  BY <1>1, <1>2, <1>3, PartIs DEF k

LEMMA TombPrefix ==
    ASSUME NEW x, NEW o, NEW s, NEW path, NEW u
    PROVE  /\ ~HasPrefix(Hx!TombKey(x, o), ByPath(path))
           /\ ~HasPrefix(Hx!TombKey(x, o), ByPathObject(path, u))
           /\ ~HasPrefix(Hx!TombKey(x, o), BySubjectPath(s, path))
<1> DEFINE k == Hx!TombKey(x, o)
<1>1. Len(Order[k[1]]) = 1 /\ Order[k[1]][1] = "stamp"
  BY OrderIs DEF Hx!TombKey
<1> HIDE DEF k
<1> QED
  BY <1>1, PrefixOne, PrefixTwo DEF ByPath, ByPathObject, BySubjectPath, k

-----------------------------------------------------------------------------
(* The hexastore meanwhile *)

HexaOK ==
    /\ filteredfeed \in Logs /\ Hx!HexaTypes /\ IsFiniteSet(DOMAIN db)
    /\ Hx!StoreInv /\ Hx!HoldsObject(db)

LEMMA HexaInit == ASSUME Init PROVE HexaOK
<1>1. Hx!Init /\ filteredfeed \in Logs
  BY SameHexa DEF Init
<1>2. filteredfeed \in Seq(Command)
  BY <1>1, QueryAssumption
<1>3. taken = 0 /\ commands = <<>> /\ DOMAIN db = {}
  BY <1>1 DEF Hx!Init
<1>4. Hx!HexaTypes
  <2>1. Len(filteredfeed) \in Nat /\ commands \in Seq(Hx!Command)
    BY <1>2, <1>3, LenProperties
  <2>2. taken \in 0..Len(filteredfeed)
    BY <1>3, <2>1
  <2> QED
    BY <1>2, <1>3, <2>1, <2>2, SameHexa DEF Hx!HexaTypes, Hx!TypeOK
<1>5. Hx!StoreInv
  BY <1>1, Hx!InitStore
<1>6. IsFiniteSet(DOMAIN db) /\ Hx!HoldsObject(db)
  BY <1>3, FS_EmptySet DEF Hx!HoldsObject
<1> QED
  BY <1>1, <1>4, <1>5, <1>6 DEF HexaOK

LEMMA HexaDeliver == ASSUME HexaOK, Hexa!Deliver PROVE HexaOK'
<1>1. Hx!Deliver /\ UNCHANGED <<filteredfeed, db>>
  BY SameHexa DEF Hexa!Deliver
<1>2. Hx!HexaTypes' /\ Hx!StoreInv'
  BY <1>1, Hx!DeliverTypes, Hx!DeliverStore DEF HexaOK
<1>3. Hx!HoldsObject(db')
  BY <1>1 DEF HexaOK
<1> QED
  BY <1>1, <1>2, <1>3 DEF HexaOK

LEMMA HexaUpdate == ASSUME HexaOK, Hexa!update_batch PROVE HexaOK'
<1>1. Hx!update_batch /\ UNCHANGED filteredfeed
  BY SameHexa DEF Hexa!update_batch
<1>2. /\ commands \in Seq(Hx!Command)
      /\ Hx!Numbered(filteredfeed) /\ Hx!Replacing(filteredfeed)
  BY StreamAssumption, SameHexa DEF HexaOK, Hx!HexaTypes, Hx!TypeOK
<1>3. Hx!HexaTypes' /\ Hx!StoreInv'
  BY <1>1, <1>2, Hx!UpdateTypes, Hx!UpdateStore DEF HexaOK
<1>4. Hx!HoldsObject(db')
  <2>1. Hx!HoldsObject(db)
    BY DEF HexaOK
  <2> QED
    BY <1>1, <1>2, <2>1, Hx!UpdateHolds
<1>5. IsFiniteSet(DOMAIN db')
  <2>1. \A S : Hx!IsFiniteSet(S) <=> IsFiniteSet(S)
    BY DEF Hx!IsFiniteSet, IsFiniteSet
  <2>2. Hx!IsFiniteSet(DOMAIN db)
    BY <2>1 DEF HexaOK
  <2>3. Hx!IsFiniteSet(DOMAIN db')
    BY <1>1, <1>2, <2>2, Hx!UpdateFinite
  <2> QED
    BY <2>1, <2>3
<1> QED
  BY <1>1, <1>3, <1>4, <1>5 DEF HexaOK

LEMMA HexaStep == ASSUME HexaOK, [Next]_vars PROVE HexaOK'
<1>1. CASE Hexa!Deliver
  BY <1>1, HexaDeliver
<1>2. CASE Hexa!update_batch
  BY <1>2, HexaUpdate
<1>3. CASE UNCHANGED hexaVars
  <2>1. UNCHANGED <<filteredfeed, taken, commands, db>>
    BY <1>3 DEF hexaVars
  <2>2. Hx!StoreInv'
    BY <2>1, Hx!GrowStore DEF HexaOK
  <2>3. Hx!HexaTypes'
    BY <2>1 DEF HexaOK, Hx!HexaTypes, Hx!TypeOK, Hx!AllKeys, Hx!Keys, Hx!SPKey,
        Hx!Key, Hx!TombKey, Hx!Perms, Hx!Command
  <2>4. Hx!HoldsObject(db')
    BY <2>1 DEF HexaOK, Hx!HoldsObject
  <2> QED
    BY <2>1, <2>2, <2>3, <2>4 DEF HexaOK
<1> QED
  BY <1>1, <1>2, <1>3 DEF Next, Query, Deliver, update_batch, Ask, FindCourses,
      FindSubjects, CheckYear, ReadStart, ReadEnd, SubjectsFound, FindGroups, GroupsFound,
      FindMembers, Return, vars

(* The keys there are: those of a tuple are there together.                *)
LEMMA KeyCases ==
    ASSUME HexaOK, NEW k \in DOMAIN db
    PROVE  /\ db[k] \in Objects
           /\ \E x \in SPs :
                 \/ k = Hx!SPKey(x)
                 \/ \E p \in Hx!Perms : /\ k = Hx!Key(p, x, db[k])
                                       /\ Hx!SPKey(x) \in DOMAIN db /\ db[Hx!SPKey(x)] = db[k]
                 \/ \E o \in Objects : k = Hx!TombKey(x, o)
<1>1. k \in Hx!AllKeys /\ db[k] \in Objects
  BY DEF HexaOK, Hx!HexaTypes, Hx!TypeOK
<1>2. PICK x \in SPs, o \in Objects : k \in Hx!Keys(x, o) \cup {Hx!TombKey(x, o)}
  BY <1>1 DEF Hx!AllKeys
<1>3. CASE \E p \in Hx!Perms : k = Hx!Key(p, x, o)
  BY <1>1, <1>3 DEF HexaOK, Hx!StoreInv, Hx!AllOrNone, Hx!HoldsObject
<1> QED
  BY <1>1, <1>2, <1>3 DEF Hx!Keys

LEMMA KeysTogether ==
    ASSUME HexaOK, NEW x \in SPs, Hx!SPKey(x) \in DOMAIN db, NEW p \in Hx!Perms
    PROVE  LET k == Hx!Key(p, x, db[Hx!SPKey(x)])
           IN k \in DOMAIN db /\ db[k] = db[Hx!SPKey(x)]
<1>1. db[Hx!SPKey(x)] \in Objects
  BY KeyCases
<1> QED
  BY <1>1 DEF HexaOK, Hx!StoreInv, Hx!AllOrNone, Hx!HoldsObject

LEMMA StoredIs ==
    ASSUME HexaOK
    PROVE  /\ Stored \in SUBSET [sp : SPs, obj : Objects]
           /\ \A t : t \in Stored <=>
                 \E x \in SPs : /\ Hx!SPKey(x) \in DOMAIN db
                              /\ t = [sp |-> x, obj |-> db[Hx!SPKey(x)]]
<1>1. \A x \in SPs : Hexa!current[x] =
          IF Hx!SPKey(x) \in DOMAIN db THEN db[Hx!SPKey(x)] ELSE None
  BY SameHexa DEF Hexa!current
<1>2. \A x \in SPs : Hx!SPKey(x) \in DOMAIN db =>
          db[Hx!SPKey(x)] \in Objects /\ db[Hx!SPKey(x)] # None
  BY KeyCases
<1> DEFINE tuple(x) == [sp |-> x, obj |-> db[Hx!SPKey(x)]]
<1>3. Stored = {tuple(x) : x \in {y \in SPs : Hx!SPKey(y) \in DOMAIN db}}
  <2>1. {x \in SPs : Hexa!current[x] # None} = {y \in SPs : Hx!SPKey(y) \in DOMAIN db}
    BY <1>1, <1>2
  <2>2. \A x \in {y \in SPs : Hx!SPKey(y) \in DOMAIN db} :
            [sp |-> x, obj |-> Hexa!current[x]] = tuple(x)
    BY <1>1
  <2> QED
    BY <2>1, <2>2 DEF Stored
<1>4. \A t : t \in Stored <=>
          \E x \in SPs : Hx!SPKey(x) \in DOMAIN db /\ t = tuple(x)
  BY <1>3
<1>5. \A x \in SPs : Hx!SPKey(x) \in DOMAIN db => tuple(x) \in [sp : SPs, obj : Objects]
  BY <1>2
<1>6. Stored \in SUBSET [sp : SPs, obj : Objects]
  <2> HIDE DEF tuple
  <2> QED
    BY <1>4, <1>5
<1> QED
  BY <1>4, <1>6

-----------------------------------------------------------------------------
(* Lookups *)

LEMMA PairIs ==
    ASSUME NEW x \in SPs
    PROVE  /\ Pair[x].subject \in Objects
           /\ Pair[x].predicate \in Predicate
           /\ Pair[x].predicate.path \in Paths => Pair[x].predicate.leaf = ""
<1>1. Pair[x].subject \in Objects /\ Pair[x].predicate \in Predicate
  BY QueryAssumption
<1>2. \A p \in Predicate : p.path \in Paths => p.leaf = ""
  BY DEF Predicate, Paths, ListPaths
<1> QED
  BY <1>1, <1>2

(* The image of a finite set under a function, listed. *)
LEMMA ImageListed ==
    ASSUME NEW S, IsFiniteSet(S), NEW f \in [S -> Objects]
    PROVE  LET l == [i \in DOMAIN Seqs!SetToSeq(S) |-> f[Seqs!SetToSeq(S)[i]]]
           IN l \in Seq(Objects) /\ Len(l) = Cardinality(S) /\ In(l) = {f[k] : k \in S}
<1> DEFINE l == [i \in DOMAIN Seqs!SetToSeq(S) |-> f[Seqs!SetToSeq(S)[i]]]
           s == Seqs!SetToSeq(S)
           n == Cardinality(S)
<1>1. n \in Nat /\ DOMAIN s = 1..n /\ In(s) = S
  BY SetToSeqIs
<1>2. l = [i \in DOMAIN s |-> f[s[i]]]
  OBVIOUS
<1> HIDE DEF l, s, n
<1>3. \A i \in 1..n : s[i] \in S
  BY <1>1 DEF In
<1>4. l \in [1..n -> Objects]
  BY <1>1, <1>2, <1>3
<1>5. l \in Seq(Objects) /\ Len(l) = n
  BY <1>1, <1>4, SeqDef, LenProperties
<1>6. In(l) = {f[k] : k \in S}
  <2>1. \A k \in S : \E i \in DOMAIN s : s[i] = k
    BY <1>1 DEF In
  <2> QED
    BY <1>1, <1>2, <1>3, <2>1 DEF In
<1> QED
  BY <1>5, <1>6 DEF l, n

LEMMA Listed ==
    ASSUME HexaOK, NEW S \in SUBSET DOMAIN db, \A k \in S : k[2] \in SPs
    PROVE  /\ Subjects(S) \in Seq(Objects)
           /\ In(Subjects(S)) = {Pair[k[2]].subject : k \in S}
           /\ ObjectsOf(S) \in Seq(Objects) /\ In(ObjectsOf(S)) = {db[k] : k \in S}
           /\ Len(ObjectsOf(S)) = Cardinality(S)
<1> DEFINE listed == Seqs!SetToSeq(S)
           subject == [k \in S |-> Pair[k[2]].subject]
           object  == [k \in S |-> db[k]]
<1>1. IsFiniteSet(S)
  BY FS_Subset DEF HexaOK
<1>2. DOMAIN listed = 1..Cardinality(S) /\ In(listed) = S
  BY <1>1, SetToSeqIs
<1>3. \A i \in DOMAIN listed : listed[i] \in S
  <2> HIDE DEF listed
  <2> QED
    BY <1>2 DEF In
<1>4. subject \in [S -> Objects] /\ object \in [S -> Objects]
  BY PairIs, KeyCases
<1>5. /\ Subjects(S) = [i \in DOMAIN listed |-> subject[listed[i]]]
      /\ ObjectsOf(S) = [i \in DOMAIN listed |-> object[listed[i]]]
  <2> HIDE DEF listed
  <2>1. /\ Subjects(S) = [i \in DOMAIN listed |-> Pair[listed[i][2]].subject]
        /\ ObjectsOf(S) = [i \in DOMAIN listed |-> db[listed[i]]]
    BY DEF Subjects, ObjectsOf, listed
  <2> QED
    BY <1>3, <2>1
<1>6. /\ {subject[k] : k \in S} = {Pair[k[2]].subject : k \in S}
      /\ {object[k] : k \in S} = {db[k] : k \in S}
  OBVIOUS
<1> HIDE DEF subject, object
<1> DEFINE l(f) == [i \in DOMAIN listed |-> f[listed[i]]]
<1>7. \A f \in [S -> Objects] : /\ l(f) \in Seq(Objects) /\ Len(l(f)) = Cardinality(S)
                                /\ In(l(f)) = {f[k] : k \in S}
  BY <1>1, ImageListed
<1> HIDE DEF l
<1>8. Subjects(S) = l(subject) /\ ObjectsOf(S) = l(object)
  BY <1>5 DEF l
<1> QED
  BY <1>4, <1>6, <1>7, <1>8

Entry(k) == [sp |-> k[2], obj |-> db[k]]

(* The keys of a tuple show it. *)
LEMMA KeyShows ==
    ASSUME HexaOK, NEW k \in DOMAIN db, NEW path, NEW s, NEW u
    PROVE  /\ HasPrefix(k, ByPath(path)) =>
                  /\ k[2] \in SPs /\ Entry(k) \in Stored /\ Pair[k[2]].predicate.path = path
           /\ HasPrefix(k, ByPathObject(path, u)) =>
                  /\ k[2] \in SPs /\ Entry(k) \in Stored /\ Pair[k[2]].predicate.path = path
                  /\ db[k] = u
           /\ HasPrefix(k, BySubjectPath(s, path)) =>
                  /\ k[2] \in SPs /\ Entry(k) \in Stored /\ Pair[k[2]].predicate.path = path
                  /\ Pair[k[2]].subject = s
                  /\ k \in {Hx!SPKey(k[2]), Hx!Key("SPO", k[2], db[k])}
<1>1. PICK x \in SPs :
        \/ k = Hx!SPKey(x)
        \/ \E p \in Hx!Perms : /\ k = Hx!Key(p, x, db[k])
                              /\ Hx!SPKey(x) \in DOMAIN db /\ db[Hx!SPKey(x)] = db[k]
        \/ \E o \in Objects : k = Hx!TombKey(x, o)
  BY KeyCases
<1>2. CASE k = Hx!SPKey(x)
  <2>1. k[2] = x
    BY <1>2 DEF Hx!SPKey
  <2>2. Entry(k) \in Stored
    BY <1>2, <2>1, StoredIs DEF Entry
  <2> QED
    BY <1>2, <2>1, <2>2, SPPrefix
<1>3. CASE \E p \in Hx!Perms : /\ k = Hx!Key(p, x, db[k])
                              /\ Hx!SPKey(x) \in DOMAIN db /\ db[Hx!SPKey(x)] = db[k]
  <2>1. PICK p \in Hx!Perms : /\ k = Hx!Key(p, x, db[k])
                             /\ Hx!SPKey(x) \in DOMAIN db /\ db[Hx!SPKey(x)] = db[k]
    BY <1>3
  <2>2. k[2] = x
    BY <2>1 DEF Hx!Key
  <2>3. Entry(k) \in Stored
    BY <2>1, <2>2, StoredIs DEF Entry
  <2>4. /\ ~HasPrefix(k, ByPath(path)) \/ Pair[x].predicate.path = path
        /\ ~HasPrefix(k, ByPathObject(path, u)) \/ (Pair[x].predicate.path = path /\ db[k] = u)
        /\ ~HasPrefix(k, BySubjectPath(s, path))
             \/ (p = "SPO" /\ Pair[x].subject = s /\ Pair[x].predicate.path = path)
    <3> DEFINE o == db[k]
               j == Hx!Key(p, x, o)
    <3>1. k = j
      BY <2>1
    <3> HIDE DEF o
    <3>2. HasPrefix(j, ByPath(path)) => Pair[x].predicate.path = path
      BY KeyPrefix
    <3>3. HasPrefix(j, ByPathObject(path, u)) => Pair[x].predicate.path = path /\ o = u
      BY KeyPrefix, ZenonT(30)
    <3>4. HasPrefix(j, BySubjectPath(s, path)) =>
              p = "SPO" /\ Pair[x].subject = s /\ Pair[x].predicate.path = path
      BY KeyPrefix
    <3> HIDE DEF j
    <3> QED
      BY <3>1, <3>2, <3>3, <3>4 DEF o
  <2> QED
    BY <2>1, <2>2, <2>3, <2>4
<1>4. CASE \E o \in Objects : k = Hx!TombKey(x, o)
  BY <1>4, TombPrefix
<1> QED
  BY <1>1, <1>2, <1>3, <1>4

(* What is stored is found by its path, its path and object, its subject    *)
(* and path.                                                               *)
LEMMA StoredIsFound ==
    ASSUME HexaOK, NEW t \in Stored, t.obj # 0
    PROVE  LET x    == t.sp
               path == Pair[x].predicate.path
           IN /\ \E k \in GetTuples(ByPath(path)) : Entry(k) = t
              /\ \E k \in GetTuples(ByPathObject(path, t.obj)) : Entry(k) = t
              /\ {Hx!SPKey(x), Hx!Key("SPO", x, t.obj)}
                     \subseteq GetTuples(BySubjectPath(Pair[x].subject, path))
              /\ Entry(Hx!SPKey(x)) = t
<1>1. PICK x \in SPs : /\ Hx!SPKey(x) \in DOMAIN db
                      /\ t = [sp |-> x, obj |-> db[Hx!SPKey(x)]]
  BY StoredIs
<1>2. t.sp = x /\ t.obj = db[Hx!SPKey(x)]
  BY <1>1
<1>3. \A p \in Hx!Perms : /\ Hx!Key(p, x, t.obj) \in DOMAIN db
                          /\ db[Hx!Key(p, x, t.obj)] = t.obj
                          /\ Entry(Hx!Key(p, x, t.obj)) = t
  <2> TAKE p \in Hx!Perms
  <2>1. Hx!Key(p, x, t.obj) \in DOMAIN db /\ db[Hx!Key(p, x, t.obj)] = t.obj
    BY <1>1, <1>2, KeysTogether
  <2>2. Hx!Key(p, x, t.obj)[2] = x
    BY DEF Hx!Key
  <2> QED
    BY <1>1, <1>2, <2>1, <2>2 DEF Entry
<1>4. {"POS", "SPO"} \subseteq Hx!Perms
  BY DEF Hx!Perms
<1>5. Entry(Hx!SPKey(x)) = t
  BY <1>1, <1>2 DEF Entry, Hx!SPKey
<1>6. /\ Hx!Key("POS", x, t.obj) \in GetTuples(ByPath(Pair[x].predicate.path))
      /\ Hx!Key("POS", x, t.obj) \in GetTuples(ByPathObject(Pair[x].predicate.path, t.obj))
      /\ Hx!Key("SPO", x, t.obj)
             \in GetTuples(BySubjectPath(Pair[x].subject, Pair[x].predicate.path))
  BY <1>3, <1>4, KeyPrefix DEF GetTuples, GetIdentifiers
<1>7. Hx!SPKey(x) \in GetTuples(BySubjectPath(Pair[x].subject, Pair[x].predicate.path))
  BY <1>1, <1>2, SPPrefix DEF GetTuples, GetIdentifiers
<1> QED
  BY <1>2, <1>3, <1>4, <1>5, <1>6, <1>7

-----------------------------------------------------------------------------
(* What the lookups of a query find *)

LEMMA EntryIs == ASSUME NEW k PROVE Entry(k).sp = k[2] /\ Entry(k).obj = db[k]
BY DEF Entry

LEMMA CoursesFound ==
    ASSUME HexaOK, NEW path, NEW leaf, NEW v
    PROVE  LET S == {k \in Ending(GetTuples(ByPath(path)), leaf) : db[k] = v}
           IN Subjects(S) \in Seq(Objects) /\ In(Subjects(S)) = At(Stored, path, leaf, {v})
<1> DEFINE S == {k \in Ending(GetTuples(ByPath(path)), leaf) : db[k] = v}
<1>1. \A k \in S : /\ k \in DOMAIN db /\ k[2] \in SPs /\ db[k] # 0 /\ db[k] = v
                   /\ Entry(k) \in Stored /\ Pair[k[2]].predicate.path = path
                   /\ Pair[k[2]].predicate.leaf = leaf
  BY KeyShows DEF GetTuples, GetIdentifiers, Ending
<1>2. \A t \in Stored : /\ t.obj # 0 /\ t.obj = v /\ Pair[t.sp].predicate.path = path
                        /\ Pair[t.sp].predicate.leaf = leaf
                        => \E k \in S : Entry(k) = t
  <2> TAKE t \in Stored
  <2> HAVE /\ t.obj # 0 /\ t.obj = v /\ Pair[t.sp].predicate.path = path
           /\ Pair[t.sp].predicate.leaf = leaf
  <2>1. PICK k \in GetTuples(ByPath(path)) : Entry(k) = t
    BY StoredIsFound
  <2> QED
    BY <2>1, EntryIs DEF Ending
<1> HIDE DEF S
<1>3. Subjects(S) \in Seq(Objects) /\ In(Subjects(S)) = {Pair[k[2]].subject : k \in S}
  BY <1>1, Listed
<1>4. \A e : e \in {Pair[k[2]].subject : k \in S} <=> e \in At(Stored, path, leaf, {v})
  <2> TAKE e
  <2>1. ASSUME NEW k \in S, e = Pair[k[2]].subject PROVE e \in At(Stored, path, leaf, {v})
    <3> DEFINE t == Entry(k)
    <3>1. /\ t \in Stored /\ Pair[t.sp].predicate.path = path
          /\ Pair[t.sp].predicate.leaf = leaf
          /\ t.obj # 0 /\ t.obj = v /\ Pair[t.sp].subject = e
      BY <1>1, <2>1, EntryIs
    <3> HIDE DEF t
    <3> QED
      BY <3>1 DEF At, Known
  <2>2. ASSUME e \in At(Stored, path, leaf, {v}) PROVE \E k \in S : e = Pair[k[2]].subject
    <3>1. PICK t \in Stored : /\ Pair[t.sp].predicate.path = path
                             /\ Pair[t.sp].predicate.leaf = leaf /\ t.obj # 0
                             /\ t.obj = v /\ Pair[t.sp].subject = e
      BY <2>2 DEF At, Known
    <3>2. PICK k \in S : Entry(k) = t
      BY <1>2, <3>1
    <3> QED
      BY <3>1, <3>2, EntryIs
  <2> QED
    BY <2>1, <2>2
<1> QED
  BY <1>3, <1>4 DEF S

LEMMA LinkFound ==
    ASSUME HexaOK, NEW path \in Paths, NEW v
    PROVE  LET S == GetTuples(ByPathObject(path, v))
           IN Subjects(S) \in Seq(Objects) /\ In(Subjects(S)) = At(Stored, path, "", {v})
<1> DEFINE S == GetTuples(ByPathObject(path, v))
<1>1. \A k \in S : /\ k \in DOMAIN db /\ k[2] \in SPs /\ db[k] # 0 /\ db[k] = v
                   /\ Entry(k) \in Stored /\ Pair[k[2]].predicate.path = path
  BY KeyShows DEF GetTuples, GetIdentifiers
<1>2. \A t \in Stored : t.obj # 0 /\ t.obj = v /\ Pair[t.sp].predicate.path = path
                        => \E k \in S : Entry(k) = t
  BY StoredIsFound
<1>3. \A k \in S : Pair[k[2]].predicate.leaf = ""
  BY <1>1, PairIs
<1> HIDE DEF S
<1>4. Subjects(S) \in Seq(Objects) /\ In(Subjects(S)) = {Pair[k[2]].subject : k \in S}
  BY <1>1, Listed
<1>5. \A e : e \in {Pair[k[2]].subject : k \in S} <=> e \in At(Stored, path, "", {v})
  <2> TAKE e
  <2>1. ASSUME NEW k \in S, e = Pair[k[2]].subject PROVE e \in At(Stored, path, "", {v})
    <3> DEFINE t == Entry(k)
    <3>1. /\ t \in Stored /\ Pair[t.sp].predicate.path = path
          /\ Pair[t.sp].predicate.leaf = ""
          /\ t.obj # 0 /\ t.obj = v /\ Pair[t.sp].subject = e
      BY <1>1, <1>3, <2>1, EntryIs
    <3> HIDE DEF t
    <3> QED
      BY <3>1 DEF At, Known
  <2>2. ASSUME e \in At(Stored, path, "", {v}) PROVE \E k \in S : e = Pair[k[2]].subject
    <3>1. PICK t \in Stored : /\ Pair[t.sp].predicate.path = path
                             /\ Pair[t.sp].predicate.leaf = "" /\ t.obj # 0
                             /\ t.obj = v /\ Pair[t.sp].subject = e
      BY <2>2 DEF At, Known
    <3>2. PICK k \in S : Entry(k) = t
      BY <1>2, <3>1
    <3> QED
      BY <3>1, <3>2, EntryIs
  <2> QED
    BY <2>1, <2>2
<1> QED
  BY <1>4, <1>5 DEF S

(* A tuple is found under two keys, that of its pair and one with its       *)
(* object: there is never just one to be found.                            *)
LEMMA YearsFound ==
    ASSUME HexaOK, NEW path \in Paths, NEW s
    PROVE  LET S == GetTuples(BySubjectPath(s, path))
           IN /\ ObjectsOf(S) \in Seq(Objects) /\ Len(ObjectsOf(S)) # 1
              /\ \A y : y \in In(ObjectsOf(S)) <=> s \in At(Stored, path, "", {y})
<1> DEFINE S == GetTuples(BySubjectPath(s, path))
<1>1. \A k \in S : /\ k \in DOMAIN db /\ k[2] \in SPs /\ db[k] # 0
                   /\ Entry(k) \in Stored /\ Pair[k[2]].predicate.path = path
                   /\ Pair[k[2]].subject = s
  BY KeyShows DEF GetTuples, GetIdentifiers
<1>2. \A t \in Stored : /\ t.obj # 0 /\ Pair[t.sp].predicate.path = path
                        /\ Pair[t.sp].subject = s
                        => /\ {Hx!SPKey(t.sp), Hx!Key("SPO", t.sp, t.obj)} \subseteq S
                           /\ Entry(Hx!SPKey(t.sp)) = t
  BY StoredIsFound
<1>3. \A k \in S : Pair[k[2]].predicate.leaf = ""
  BY <1>1, PairIs
<1> HIDE DEF S
<1>4. /\ ObjectsOf(S) \in Seq(Objects) /\ In(ObjectsOf(S)) = {db[k] : k \in S}
      /\ Len(ObjectsOf(S)) = Cardinality(S)
  BY <1>1, Listed
<1>5. \A y : y \in {db[k] : k \in S} <=> s \in At(Stored, path, "", {y})
  <2> TAKE y
  <2>1. ASSUME NEW k \in S, y = db[k] PROVE s \in At(Stored, path, "", {y})
    <3> DEFINE t == Entry(k)
    <3>1. /\ t \in Stored /\ Pair[t.sp].predicate.path = path
          /\ Pair[t.sp].predicate.leaf = ""
          /\ t.obj # 0 /\ t.obj = y /\ Pair[t.sp].subject = s
      BY <1>1, <1>3, <2>1, EntryIs
    <3> HIDE DEF t
    <3> QED
      BY <3>1 DEF At, Known
  <2>2. ASSUME s \in At(Stored, path, "", {y}) PROVE \E k \in S : y = db[k]
    <3>1. PICK t \in Stored : /\ Pair[t.sp].predicate.path = path
                             /\ Pair[t.sp].predicate.leaf = "" /\ t.obj # 0
                             /\ t.obj = y /\ Pair[t.sp].subject = s
      BY <2>2 DEF At, Known
    <3>2. Hx!SPKey(t.sp) \in S /\ db[Hx!SPKey(t.sp)] = t.obj
      BY <1>2, <3>1, EntryIs
    <3> QED
      BY <3>1, <3>2
  <2> QED
    BY <2>1, <2>2
<1>6. Cardinality(S) # 1
  <2> SUFFICES ASSUME Cardinality(S) = 1 PROVE FALSE
    OBVIOUS
  <2>1. IsFiniteSet(S)
    BY <1>1, FS_Subset DEF HexaOK
  <2>2. PICK m : S = {m}
    BY <2>1, FS_Singleton
  <2>3. {Hx!SPKey(m[2]), Hx!Key("SPO", m[2], db[m])} \subseteq {m}
    BY <1>1, <1>2, <2>2, EntryIs
  <2>4. Hx!SPKey(m[2]) # Hx!Key("SPO", m[2], db[m])
    BY DEF Hx!SPKey, Hx!Key
  <2> QED
    BY <2>3, <2>4
<1> QED
  BY <1>4, <1>5, <1>6 DEF S

MembersOf(T, path, leaf, G) ==
    {t.obj : t \in {x \in Known(T, path, leaf) : Pair[x.sp].subject \in G}}

LEMMA MembersAre ==
    \A T, path, leaf, G, o : o \in MembersOf(T, path, leaf, G) <=>
        \E t \in T : /\ Pair[t.sp].predicate.path = path /\ Pair[t.sp].predicate.leaf = leaf
                     /\ t.obj # 0 /\ t.obj = o /\ Pair[t.sp].subject \in G
BY DEF MembersOf, Known

LEMMA MembersFound ==
    ASSUME HexaOK, NEW path, NEW leaf, NEW s
    PROVE  LET S == Ending(GetTuples(BySubjectPath(s, path)), leaf)
           IN /\ ObjectsOf(S) \in Seq(Objects)
              /\ In(ObjectsOf(S)) = MembersOf(Stored, path, leaf, {s})
<1> DEFINE S == Ending(GetTuples(BySubjectPath(s, path)), leaf)
<1>1. \A k \in S : /\ k \in DOMAIN db /\ k[2] \in SPs /\ db[k] # 0
                   /\ Entry(k) \in Stored /\ Pair[k[2]].predicate.path = path
                   /\ Pair[k[2]].subject = s /\ Pair[k[2]].predicate.leaf = leaf
  BY KeyShows DEF GetTuples, GetIdentifiers, Ending
<1>2. \A t \in Stored : /\ t.obj # 0 /\ Pair[t.sp].predicate.path = path
                        /\ Pair[t.sp].subject = s /\ Pair[t.sp].predicate.leaf = leaf
                        => \E k \in S : Entry(k) = t
  <2> TAKE t \in Stored
  <2> HAVE /\ t.obj # 0 /\ Pair[t.sp].predicate.path = path
           /\ Pair[t.sp].subject = s /\ Pair[t.sp].predicate.leaf = leaf
  <2>1. /\ Hx!SPKey(t.sp) \in GetTuples(BySubjectPath(s, path))
        /\ Entry(Hx!SPKey(t.sp)) = t
    BY StoredIsFound
  <2> QED
    BY <2>1, EntryIs DEF Ending
<1> HIDE DEF S
<1>3. ObjectsOf(S) \in Seq(Objects) /\ In(ObjectsOf(S)) = {db[k] : k \in S}
  BY <1>1, Listed
<1>4. \A o : o \in {db[k] : k \in S} <=> o \in MembersOf(Stored, path, leaf, {s})
  <2> TAKE o
  <2>1. ASSUME NEW k \in S, o = db[k] PROVE o \in MembersOf(Stored, path, leaf, {s})
    <3> DEFINE t == Entry(k)
    <3>1. /\ t \in Stored /\ Pair[t.sp].predicate.path = path
          /\ Pair[t.sp].predicate.leaf = leaf
          /\ t.obj # 0 /\ t.obj = o /\ Pair[t.sp].subject = s
      BY <1>1, <2>1, EntryIs
    <3> HIDE DEF t
    <3> QED
      BY <3>1, MembersAre
  <2>2. ASSUME o \in MembersOf(Stored, path, leaf, {s}) PROVE \E k \in S : o = db[k]
    <3>1. PICK t \in Stored : /\ Pair[t.sp].predicate.path = path
                             /\ Pair[t.sp].predicate.leaf = leaf /\ t.obj # 0
                             /\ t.obj = o /\ Pair[t.sp].subject = s
      BY <2>2, MembersAre
    <3>2. PICK k \in S : Entry(k) = t
      BY <1>2, <3>1
    <3> QED
      BY <3>1, <3>2, EntryIs
  <2> QED
    BY <2>1, <2>2
<1> QED
  BY <1>3, <1>4 DEF S

-----------------------------------------------------------------------------
(* The invariants *)

OfArea(T, q)    == At(T, "SchoolCourseInfo.SubjectAreaList", "Code", {q.kla})
OfCourses(T, C) == At(T, "TimeTableSubject.SchoolCourseInfoRefId", "", C)
InYear(T, q)    == At(T, "TimeTableSubject.AcademicYear.Code", "", {q.yrlvl})
OfSubjects(T, F) == At(T, "TeachingGroup.TimeTableSubjectRefId", "", F)

(* How far a query is, and what it has looked up by then.                  *)
Stages ==
    /\ pc \in {"idle", "courses", "subjects", "start", "end", "groups", "members", "done"}
    /\ pc # "idle" => query \in Asked
    /\ pc \in {"start", "end"} => subjects # <<>>
    /\ pc = "groups" => query.for # "timetablesubject"
    /\ pc = "members" => query.for \in {"student", "staff"}
    /\ pc \in {"idle", "courses"} => courses = <<>> /\ subjects = <<>> /\ found = <<>>
    /\ pc \notin {"groups", "members", "done"} => groups = <<>>
    /\ pc \notin {"members", "done"} => ret = <<>>

Lists ==
    /\ courses \in Seq(Objects) /\ subjects \in Seq(Objects) /\ start \in Seq(Objects)
    /\ found \in Seq(Objects) /\ groups \in Seq(Objects) /\ ret \in Seq(Objects)

(* The history of the store, as long as a query runs.                      *)
History ==
    /\ held \in SUBSET [sp : SPs, obj : Objects] /\ kept \in SUBSET [sp : SPs, obj : Objects]
    /\ pc # "idle" => kept \subseteq Stored /\ Stored \subseteq held

(* Whatever a list has, tuples say that were stored meanwhile.             *)
Invented == pc # "idle" =>
    /\ In(courses) \subseteq OfArea(held, query)
    /\ In(subjects) \subseteq OfCourses(held, OfArea(held, query))
    /\ In(found) \subseteq Offered(held, query)
    /\ In(groups) \subseteq Taught(held, query)
    /\ In(ret) \subseteq Answer(held, query)

(* What the tuples that stay say has been looked up, or what leads to it    *)
(* is still in a list.                                                     *)
Subjecting == pc \in {"subjects", "start", "end"} =>
    \A c \in OfArea(kept, query), s \in InYear(kept, query) :
        s \in OfCourses(kept, {c}) => s \in In(found) \/ s \in In(subjects) \/ c \in In(courses)
OutOfYear == pc \in {"start", "end"} => Head(subjects) \notin InYear(kept, query)
Grouping == pc = "groups" =>
    \A f \in Offered(kept, query) : \A g \in OfSubjects(kept, {f}) :
        g \in In(groups) \/ f \in In(found)
Gathering == pc = "members" =>
    \A g \in Taught(kept, query) :
        \A o \in MembersOf(kept, Members[query.for].path, Members[query.for].leaf, {g}) :
            o \in In(ret) \/ g \in In(groups)
Missed ==
    /\ Subjecting /\ OutOfYear /\ Grouping /\ Gathering
    /\ pc = "done" => Answer(kept, query) \subseteq In(ret)

QueryInv == Stages /\ Lists /\ History /\ Invented /\ Missed

-----------------------------------------------------------------------------
(* The join grows with the tuples *)

LEMMA AtEach ==
    \A T, path, leaf, O, e : e \in At(T, path, leaf, O) <=>
        \E o \in O : e \in At(T, path, leaf, {o})
<1> TAKE T, path, leaf, O, e
<1>1. ASSUME e \in At(T, path, leaf, O) PROVE \E o \in O : e \in At(T, path, leaf, {o})
  <2>1. PICK t \in Known(T, path, leaf) : t.obj \in O /\ e = Pair[t.sp].subject
    BY <1>1 DEF At
  <2>2. e \in At(T, path, leaf, {t.obj})
    BY <2>1 DEF At
  <2> QED
    BY <2>1, <2>2
<1>2. ASSUME NEW o \in O, e \in At(T, path, leaf, {o}) PROVE e \in At(T, path, leaf, O)
  BY <1>2 DEF At
<1> QED
  BY <1>1, <1>2

LEMMA JoinIs ==
    ASSUME NEW T, NEW q
    PROVE  /\ Offered(T, q) = OfCourses(T, OfArea(T, q)) \cap InYear(T, q)
           /\ Taught(T, q) = OfSubjects(T, Offered(T, q))
           /\ q.for = "timetablesubject" => Answer(T, q) = Offered(T, q)
           /\ q.for = "teachinggroup" => Answer(T, q) = Taught(T, q)
           /\ q.for \in {"student", "staff"} => Answer(T, q) =
                  MembersOf(T, Members[q.for].path, Members[q.for].leaf, Taught(T, q))
BY DEF Offered, Taught, Answer, OfCourses, OfArea, InYear, OfSubjects, MembersOf

LEMMA AtGrows ==
    ASSUME NEW T, NEW U, T \subseteq U, NEW path, NEW leaf, NEW O, NEW Q, O \subseteq Q
    PROVE  At(T, path, leaf, O) \subseteq At(U, path, leaf, Q)
BY DEF At, Known

LEMMA MembersGrow ==
    ASSUME NEW T, NEW U, T \subseteq U, NEW path, NEW leaf, NEW G, NEW H, G \subseteq H
    PROVE  MembersOf(T, path, leaf, G) \subseteq MembersOf(U, path, leaf, H)
BY DEF MembersOf, Known

LEMMA JoinGrows ==
    ASSUME NEW T, NEW U, T \subseteq U, NEW q \in Asked
    PROVE  /\ OfArea(T, q) \subseteq OfArea(U, q) /\ InYear(T, q) \subseteq InYear(U, q)
           /\ \A C, D : C \subseteq D => OfCourses(T, C) \subseteq OfCourses(U, D)
           /\ \A F, G : F \subseteq G => OfSubjects(T, F) \subseteq OfSubjects(U, G)
           /\ Offered(T, q) \subseteq Offered(U, q) /\ Taught(T, q) \subseteq Taught(U, q)
           /\ Answer(T, q) \subseteq Answer(U, q)
<1>1. OfArea(T, q) \subseteq OfArea(U, q) /\ InYear(T, q) \subseteq InYear(U, q)
  BY AtGrows DEF OfArea, InYear
<1>2. \A C, D : C \subseteq D => OfCourses(T, C) \subseteq OfCourses(U, D)
  BY AtGrows DEF OfCourses
<1>3. \A F, G : F \subseteq G => OfSubjects(T, F) \subseteq OfSubjects(U, G)
  BY AtGrows DEF OfSubjects
<1>4. Offered(T, q) \subseteq Offered(U, q)
  BY <1>1, <1>2, JoinIs
<1>5. Taught(T, q) \subseteq Taught(U, q)
  BY <1>3, <1>4, JoinIs
<1>6. q.for \in {"timetablesubject", "teachinggroup", "student", "staff"}
  BY QueryAssumption
<1>7. Answer(T, q) \subseteq Answer(U, q)
  BY <1>4, <1>5, <1>6, JoinIs, MembersGrow
<1> QED
  BY <1>1, <1>2, <1>3, <1>4, <1>5, <1>7

LEMMA JoinEach ==
    ASSUME NEW T, NEW S, NEW e
    PROVE  /\ e \in OfCourses(T, S) <=> \E c \in S : e \in OfCourses(T, {c})
           /\ e \in OfSubjects(T, S) <=> \E f \in S : e \in OfSubjects(T, {f})
BY AtEach DEF OfCourses, OfSubjects

LEMMA MembersEach ==
    ASSUME NEW T, NEW path, NEW leaf, NEW G, NEW o
    PROVE  o \in MembersOf(T, path, leaf, G) <=>
               \E g \in G : o \in MembersOf(T, path, leaf, {g})
BY DEF MembersOf

LEMMA StepByStep ==
    ASSUME NEW T, NEW q, NEW e
    PROVE  /\ e \in Offered(T, q) <=>
                  e \in InYear(T, q) /\ \E c \in OfArea(T, q) : e \in OfCourses(T, {c})
           /\ e \in Taught(T, q) <=> \E f \in Offered(T, q) : e \in OfSubjects(T, {f})
<1>1. e \in OfCourses(T, OfArea(T, q)) <=> \E c \in OfArea(T, q) : e \in OfCourses(T, {c})
  BY JoinEach
<1>2. e \in OfSubjects(T, Offered(T, q)) <=> \E f \in Offered(T, q) : e \in OfSubjects(T, {f})
  BY JoinEach
<1> QED
  BY <1>1, <1>2, JoinIs

-----------------------------------------------------------------------------
(* What a step leaves alone *)

LEMMA StoredSame == ASSUME UNCHANGED db PROVE Stored' = Stored
BY DEF Stored, Hexa!current, Hexa!SPKey

LEMMA NothingIn == ASSUME NEW s, s = <<>> PROVE In(s) = {}
BY InEmpty

LEMMA AskKeeps == ASSUME HexaOK, QueryInv, NEW q \in Asked, Ask(q) PROVE QueryInv'
<1>1. /\ pc = "idle" /\ pc' = "courses" /\ query' = q /\ held' = Stored /\ kept' = Stored
      /\ UNCHANGED <<courses, subjects, start, found, groups, ret, db>>
  BY DEF Ask, hexaVars, lists
<1>2. /\ courses' = <<>> /\ subjects' = <<>> /\ found' = <<>> /\ groups' = <<>> /\ ret' = <<>>
  BY <1>1 DEF QueryInv, Stages
<1>3. Stages' /\ Lists'
  BY <1>1, <1>2 DEF QueryInv, Stages, Lists
<1>4. History'
  BY <1>1, StoredIs, StoredSame DEF History
<1>5. Invented'
  BY <1>2, NothingIn DEF Invented
<1>6. Missed'
  BY <1>1 DEF Missed, Subjecting, OutOfYear, Grouping, Gathering
<1> QED
  BY <1>3, <1>4, <1>5, <1>6 DEF QueryInv

(* The lookups of a query find what stays, and nothing never stored.       *)
LEMMA Lookups ==
    ASSUME HexaOK, QueryInv, pc # "idle"
    PROVE  /\ query \in Asked /\ kept \subseteq Stored /\ Stored \subseteq held
           /\ OfArea(Stored, query) \subseteq OfArea(held, query)
           /\ InYear(Stored, query) \subseteq InYear(held, query)
           /\ \A C : OfCourses(Stored, C) \subseteq OfCourses(held, C)
           /\ \A F : OfSubjects(Stored, F) \subseteq OfSubjects(held, F)
           /\ OfArea(kept, query) \subseteq OfArea(Stored, query)
           /\ InYear(kept, query) \subseteq InYear(Stored, query)
           /\ \A C : OfCourses(kept, C) \subseteq OfCourses(Stored, C)
           /\ \A F : OfSubjects(kept, F) \subseteq OfSubjects(Stored, F)
<1>1. query \in Asked /\ kept \subseteq Stored /\ Stored \subseteq held
  BY DEF QueryInv, Stages, History
<1> QED
  BY <1>1, JoinGrows

LEMMA FindCoursesKeeps == ASSUME HexaOK, QueryInv, FindCourses PROVE QueryInv'
<1>1. /\ pc = "courses" /\ pc' = "subjects"
      /\ UNCHANGED <<db, query, subjects, start, found, groups, ret, held, kept>>
  BY DEF FindCourses, hexaVars
<1>2. courses' \in Seq(Objects) /\ In(courses') = OfArea(Stored, query)
  <2> DEFINE codes == Ending(GetTuples(ByPath("SchoolCourseInfo.SubjectAreaList")), "Code")
             S == {k \in codes : db[k] = query.kla}
  <2>1. courses' = Subjects(S)
    BY DEF FindCourses
  <2>2. Subjects(S) \in Seq(Objects) /\ In(Subjects(S)) = OfArea(Stored, query)
    BY CoursesFound DEF OfArea
  <2> HIDE DEF S
  <2> QED
    BY <2>1, <2>2
<1>3. subjects = <<>> /\ found = <<>> /\ groups = <<>> /\ ret = <<>> /\ query \in Asked
  BY <1>1 DEF QueryInv, Stages
<1>4. Stages' /\ Lists' /\ History'
  BY <1>1, <1>2, <1>3, StoredSame DEF QueryInv, Stages, Lists, History
<1>5. Invented'
  BY <1>1, <1>2, Lookups DEF QueryInv, Invented
<1>6. Missed'
  BY <1>1, <1>2, Lookups DEF Missed, Subjecting, OutOfYear, Grouping, Gathering
<1> QED
  BY <1>4, <1>5, <1>6 DEF QueryInv

LEMMA FindSubjectsKeeps == ASSUME HexaOK, QueryInv, FindSubjects PROVE QueryInv'
<1>1. /\ pc = "subjects" /\ subjects = <<>> /\ courses # <<>> /\ courses' = Tail(courses)
      /\ UNCHANGED <<db, pc, query, start, found, groups, ret, held, kept>>
  BY DEF FindSubjects, hexaVars
<1>2. subjects' \in Seq(Objects) /\ In(subjects') = OfCourses(Stored, {Head(courses)})
  BY LinkFound DEF FindSubjects, OfCourses, Paths
<1>3. /\ courses \in Seq(Objects) /\ courses' \in Seq(Objects)
      /\ In(courses) = {Head(courses)} \cup In(courses')
  BY <1>1, InTail DEF QueryInv, Lists
<1>4. Stages' /\ Lists' /\ History'
  BY <1>1, <1>2, <1>3, StoredSame DEF QueryInv, Stages, Lists, History
<1>5. Invented'
  <2>1. /\ In(courses) \subseteq OfArea(held, query)
        /\ In(found) \subseteq Offered(held, query) /\ In(groups) \subseteq Taught(held, query)
        /\ In(ret) \subseteq Answer(held, query)
    BY <1>1 DEF QueryInv, Invented
  <2>2. In(subjects') \subseteq OfCourses(held, OfArea(held, query))
    <3>1. Head(courses) \in OfArea(held, query)
      BY <1>3, <2>1
    <3>2. \A e \in In(subjects') : e \in OfCourses(held, {Head(courses)})
      BY <1>1, <1>2, Lookups
    <3> QED
      BY <3>1, <3>2, JoinEach
  <2> QED
    BY <1>1, <1>3, <2>1, <2>2 DEF Invented
<1>6. Missed'
  <2>1. Subjecting'
    <3>1. \A c \in OfArea(kept, query), s \in InYear(kept, query) :
              s \in OfCourses(kept, {c}) => s \in In(found) \/ c \in In(courses)
      BY <1>1, NothingIn DEF QueryInv, Missed, Subjecting
    <3>2. \A s : s \in OfCourses(kept, {Head(courses)}) => s \in In(subjects')
      BY <1>1, <1>2, Lookups
    <3> QED
      BY <1>1, <1>3, <3>1, <3>2 DEF Subjecting
  <2> QED
    BY <1>1, <2>1 DEF Missed, OutOfYear, Grouping, Gathering
<1> QED
  BY <1>4, <1>5, <1>6 DEF QueryInv

(* The year of the timetable subject at the head, and of a range.          *)
LEMMA YearFound ==
    ASSUME HexaOK, QueryInv, pc # "idle"
    PROVE  query.yrlvl \in Seqs!ToSet(Years("TimeTableSubject.AcademicYear.Code")) <=>
               Head(subjects) \in InYear(Stored, query)
BY YearsFound, SameSet DEF Years, InYear, Paths

LEMMA RangeFound ==
    ASSUME HexaOK, NEW path \in Paths
    PROVE  Years(path) \in Seq(Objects) /\ Len(Years(path)) # 1
BY YearsFound DEF Years

LEMMA HeadIs ==
    ASSUME QueryInv, subjects # <<>>
    PROVE  /\ Head(subjects) \in Objects /\ Tail(subjects) \in Seq(Objects)
           /\ In(subjects) = {Head(subjects)} \cup In(Tail(subjects))
BY InTail DEF QueryInv, Lists

LEMMA CheckYearKeeps == ASSUME HexaOK, QueryInv, CheckYear PROVE QueryInv'
<1>1. /\ pc = "subjects" /\ subjects # <<>>
      /\ UNCHANGED <<db, query, courses, start, groups, ret, held, kept>>
  BY DEF CheckYear, hexaVars
<1>2. groups = <<>> /\ ret = <<>> /\ query \in Asked
  BY <1>1 DEF QueryInv, Stages
<1>3. Stored' = Stored
  BY <1>1, StoredSame
<1>4. CASE Head(subjects) \in InYear(Stored, query)
  <2>1. /\ found' = Append(found, Head(subjects)) /\ subjects' = Tail(subjects)
        /\ pc' = "subjects"
    BY <1>1, <1>4, YearFound DEF CheckYear, Decided
  <2>2. /\ found' \in Seq(Objects) /\ In(found') = In(found) \cup {Head(subjects)}
        /\ subjects' \in Seq(Objects) /\ In(subjects) = {Head(subjects)} \cup In(subjects')
    BY <1>1, <2>1, HeadIs, InAppend DEF QueryInv, Lists
  <2>3. Stages' /\ Lists' /\ History'
    BY <1>1, <1>2, <1>3, <2>1, <2>2 DEF QueryInv, Stages, Lists, History
  <2>4. Invented'
    <3>1. /\ In(courses) \subseteq OfArea(held, query)
          /\ In(subjects) \subseteq OfCourses(held, OfArea(held, query))
          /\ In(found) \subseteq Offered(held, query) /\ In(groups) \subseteq Taught(held, query)
          /\ In(ret) \subseteq Answer(held, query)
      BY <1>1 DEF QueryInv, Invented
    <3>2. Head(subjects) \in Offered(held, query)
      BY <1>1, <1>4, <2>2, <3>1, Lookups, JoinIs
    <3> QED
      BY <1>1, <2>2, <3>1, <3>2 DEF Invented
  <2>5. Missed'
    <3>1. Subjecting'
      BY <1>1, <2>2 DEF QueryInv, Missed, Subjecting
    <3> QED
      BY <2>1, <3>1 DEF Missed, OutOfYear, Grouping, Gathering
  <2> QED
    BY <2>3, <2>4, <2>5 DEF QueryInv
<1>5. CASE Head(subjects) \notin InYear(Stored, query)
  <2>1. pc' = "start" /\ UNCHANGED <<found, subjects>>
    BY <1>1, <1>5, YearFound DEF CheckYear
  <2>2. Stages' /\ Lists' /\ History'
    BY <1>1, <1>2, <1>3, <2>1 DEF QueryInv, Stages, Lists, History
  <2>3. Invented'
    BY <1>1, <2>1 DEF QueryInv, Invented
  <2>4. Missed'
    <3>1. Subjecting'
      BY <1>1, <2>1 DEF QueryInv, Missed, Subjecting
    <3>2. OutOfYear'
      BY <1>1, <1>5, <2>1, Lookups DEF OutOfYear
    <3> QED
      BY <2>1, <3>1, <3>2 DEF Missed, Grouping, Gathering
  <2> QED
    BY <2>2, <2>3, <2>4 DEF QueryInv
<1> QED
  BY <1>4, <1>5

LEMMA ReadStartKeeps == ASSUME HexaOK, QueryInv, ReadStart PROVE QueryInv'
<1>1. /\ pc = "start" /\ pc' = "end"
      /\ UNCHANGED <<db, query, courses, subjects, found, groups, ret, held, kept>>
  BY DEF ReadStart, hexaVars
<1>2. start' \in Seq(Objects)
  BY RangeFound DEF ReadStart, Paths
<1>3. Stages' /\ Lists' /\ History'
  BY <1>1, <1>2, StoredSame DEF QueryInv, Stages, Lists, History
<1>4. Invented'
  BY <1>1 DEF QueryInv, Invented
<1>5. Missed'
  BY <1>1 DEF QueryInv, Missed, Subjecting, OutOfYear, Grouping, Gathering
<1> QED
  BY <1>3, <1>4, <1>5 DEF QueryInv

LEMMA ReadEndKeeps == ASSUME HexaOK, QueryInv, ReadEnd PROVE QueryInv'
<1>1. /\ pc = "end"
      /\ UNCHANGED <<db, query, courses, start, groups, ret, held, kept>>
  BY DEF ReadEnd, hexaVars
<1>2. found' = found /\ subjects' = Tail(subjects) /\ pc' = "subjects"
  <2>1. Len(Years("TimeTableSubject.AcademicYearRange.End.Code")) # 1
    BY RangeFound DEF Paths
  <2> QED
    BY <2>1 DEF ReadEnd, Decided
<1>3. subjects # <<>> /\ groups = <<>> /\ ret = <<>> /\ query \in Asked
  BY <1>1 DEF QueryInv, Stages
<1>4. subjects' \in Seq(Objects) /\ In(subjects) = {Head(subjects)} \cup In(subjects')
  BY <1>2, <1>3, HeadIs
<1>5. Stages' /\ Lists' /\ History'
  BY <1>1, <1>2, <1>3, <1>4, StoredSame DEF QueryInv, Stages, Lists, History
<1>6. Invented'
  BY <1>1, <1>2, <1>4 DEF QueryInv, Invented
<1>7. Missed'
  <2>1. Subjecting'
    <3>1. Head(subjects) \notin InYear(kept, query)
      BY <1>1 DEF QueryInv, Missed, OutOfYear
    <3> QED
      BY <1>1, <1>2, <1>4, <3>1 DEF QueryInv, Missed, Subjecting
  <2> QED
    BY <1>2, <2>1 DEF Missed, OutOfYear, Grouping, Gathering
<1> QED
  BY <1>5, <1>6, <1>7 DEF QueryInv

LEMMA SubjectsFoundKeeps == ASSUME HexaOK, QueryInv, SubjectsFound PROVE QueryInv'
<1>1. /\ pc = "subjects" /\ subjects = <<>> /\ courses = <<>>
      /\ UNCHANGED <<db, query, courses, subjects, start, found, groups, held, kept>>
      /\ \/ query.for = "timetablesubject" /\ pc' = "done" /\ ret' = found
         \/ query.for # "timetablesubject" /\ pc' = "groups" /\ ret' = ret
  BY DEF SubjectsFound, hexaVars, lists
<1>2. groups = <<>> /\ ret = <<>> /\ query \in Asked
  BY <1>1 DEF QueryInv, Stages
<1>3. Stages'
  BY <1>1, <1>2 DEF Stages
<1>4. Lists' /\ History'
  BY <1>1, StoredSame DEF QueryInv, Lists, History
<1>5. Invented'
  <2>1. In(ret') \subseteq Answer(held, query)
    BY <1>1, JoinIs DEF QueryInv, Invented
  <2> QED
    BY <1>1, <2>1 DEF QueryInv, Invented
<1>6. Offered(kept, query) \subseteq In(found)
  <2> SUFFICES ASSUME NEW s \in Offered(kept, query) PROVE s \in In(found)
    OBVIOUS
  <2>1. s \in InYear(kept, query)
    BY StepByStep
  <2>2. PICK c \in OfArea(kept, query) : s \in OfCourses(kept, {c})
    BY StepByStep
  <2>3. s \in In(found) \/ s \in In(subjects) \/ c \in In(courses)
    BY <1>1, <2>1, <2>2 DEF QueryInv, Missed, Subjecting
  <2> QED
    BY <1>1, <2>3, NothingIn
<1>7. Missed'
  <2>1. pc' = "done" => Answer(kept, query) \subseteq In(ret')
    BY <1>1, <1>6, JoinIs
  <2>2. Grouping'
    BY <1>1, <1>6 DEF Grouping
  <2> QED
    BY <1>1, <2>1, <2>2 DEF Missed, Subjecting, OutOfYear, Gathering
<1> QED
  BY <1>3, <1>4, <1>5, <1>7 DEF QueryInv

LEMMA FindGroupsKeeps == ASSUME HexaOK, QueryInv, FindGroups PROVE QueryInv'
<1>1. /\ pc = "groups" /\ found # <<>> /\ found' = Tail(found)
      /\ UNCHANGED <<db, pc, query, courses, subjects, start, ret, held, kept>>
  BY DEF FindGroups, hexaVars
<1> DEFINE more == Subjects(GetTuples(
                       ByPathObject("TeachingGroup.TimeTableSubjectRefId", Head(found))))
<1>2. groups' = groups \o more
  BY DEF FindGroups
<1>3. more \in Seq(Objects) /\ In(more) = OfSubjects(Stored, {Head(found)})
  BY LinkFound DEF OfSubjects, Paths
<1> HIDE DEF more
<1>4. /\ groups' \in Seq(Objects) /\ In(groups') = In(groups) \cup In(more)
      /\ found' \in Seq(Objects) /\ In(found) = {Head(found)} \cup In(found')
  BY <1>1, <1>2, <1>3, InConcat, InTail DEF QueryInv, Lists
<1>5. Stages' /\ Lists' /\ History'
  BY <1>1, <1>4, StoredSame DEF QueryInv, Stages, Lists, History
<1>6. Invented'
  <2>1. /\ In(courses) \subseteq OfArea(held, query)
        /\ In(subjects) \subseteq OfCourses(held, OfArea(held, query))
        /\ In(found) \subseteq Offered(held, query) /\ In(groups) \subseteq Taught(held, query)
        /\ In(ret) \subseteq Answer(held, query)
    BY <1>1 DEF QueryInv, Invented
  <2>2. In(more) \subseteq Taught(held, query)
    <3>1. Head(found) \in Offered(held, query)
      BY <1>4, <2>1
    <3>2. \A g \in In(more) : g \in OfSubjects(held, {Head(found)})
      BY <1>1, <1>3, Lookups
    <3> QED
      BY <3>1, <3>2, StepByStep
  <2> QED
    BY <1>1, <1>4, <2>1, <2>2 DEF Invented
<1>7. Missed'
  <2>1. Grouping'
    <3>1. \A g \in OfSubjects(kept, {Head(found)}) : g \in In(more)
      BY <1>1, <1>3, Lookups
    <3> QED
      BY <1>1, <1>4, <3>1 DEF QueryInv, Missed, Grouping
  <2> QED
    BY <1>1, <2>1 DEF Missed, Subjecting, OutOfYear, Gathering
<1> QED
  BY <1>5, <1>6, <1>7 DEF QueryInv

LEMMA GroupsFoundKeeps == ASSUME HexaOK, QueryInv, GroupsFound PROVE QueryInv'
<1>1. /\ pc = "groups" /\ found = <<>>
      /\ UNCHANGED <<db, query, courses, subjects, start, found, groups, held, kept>>
      /\ \/ query.for = "teachinggroup" /\ pc' = "done" /\ ret' = groups
         \/ query.for # "teachinggroup" /\ pc' = "members" /\ ret' = ret
  BY DEF GroupsFound, hexaVars, lists
<1>2. /\ query \in Asked /\ query.for # "timetablesubject"
      /\ query.for \in {"timetablesubject", "teachinggroup", "student", "staff"}
  BY <1>1, QueryAssumption DEF QueryInv, Stages
<1>3. Stages'
  BY <1>1, <1>2 DEF Stages
<1>4. Lists' /\ History'
  BY <1>1, StoredSame DEF QueryInv, Lists, History
<1>5. Invented'
  <2>1. In(ret') \subseteq Answer(held, query)
    BY <1>1, JoinIs DEF QueryInv, Invented
  <2> QED
    BY <1>1, <2>1 DEF QueryInv, Invented
<1>6. Taught(kept, query) \subseteq In(groups)
  <2> SUFFICES ASSUME NEW g \in Taught(kept, query) PROVE g \in In(groups)
    OBVIOUS
  <2>1. PICK f \in Offered(kept, query) : g \in OfSubjects(kept, {f})
    BY StepByStep
  <2>2. g \in In(groups) \/ f \in In(found)
    BY <1>1, <2>1 DEF QueryInv, Missed, Grouping
  <2> QED
    BY <1>1, <2>2, NothingIn
<1>7. Missed'
  <2>1. pc' = "done" => Answer(kept, query) \subseteq In(ret')
    BY <1>1, <1>6, JoinIs
  <2>2. Gathering'
    BY <1>1, <1>6 DEF Gathering
  <2> QED
    BY <1>1, <2>1, <2>2 DEF Missed, Subjecting, OutOfYear, Grouping
<1> QED
  BY <1>3, <1>4, <1>5, <1>7 DEF QueryInv

LEMMA FindMembersKeeps == ASSUME HexaOK, QueryInv, FindMembers PROVE QueryInv'
<1>1. /\ pc = "members" /\ groups # <<>> /\ groups' = Tail(groups)
      /\ UNCHANGED <<db, pc, query, courses, subjects, start, found, held, kept>>
  BY DEF FindMembers, hexaVars
<1> DEFINE path == Members[query.for].path
           leaf == Members[query.for].leaf
           more == ObjectsOf(Ending(GetTuples(BySubjectPath(Head(groups), path)), leaf))
<1>2. ret' = ret \o more
  BY DEF FindMembers
<1>3. more \in Seq(Objects) /\ In(more) = MembersOf(Stored, path, leaf, {Head(groups)})
  <2> HIDE DEF path, leaf
  <2> QED
    BY MembersFound
<1> HIDE DEF more
<1>4. /\ ret' \in Seq(Objects) /\ In(ret') = In(ret) \cup In(more)
      /\ groups' \in Seq(Objects) /\ In(groups) = {Head(groups)} \cup In(groups')
  BY <1>1, <1>2, <1>3, InConcat, InTail DEF QueryInv, Lists
<1>5. query.for \in {"student", "staff"} /\ kept \subseteq Stored /\ Stored \subseteq held
  BY <1>1 DEF QueryInv, Stages, History
<1>6. Stages' /\ Lists' /\ History'
  BY <1>1, <1>4, StoredSame DEF QueryInv, Stages, Lists, History
<1>7. Invented'
  <2>1. /\ In(courses) \subseteq OfArea(held, query)
        /\ In(subjects) \subseteq OfCourses(held, OfArea(held, query))
        /\ In(found) \subseteq Offered(held, query) /\ In(groups) \subseteq Taught(held, query)
        /\ In(ret) \subseteq Answer(held, query)
    BY <1>1 DEF QueryInv, Invented
  <2>2. In(more) \subseteq Answer(held, query)
    <3>1. {Head(groups)} \subseteq Taught(held, query)
      BY <1>4, <2>1
    <3>2. In(more) \subseteq MembersOf(held, path, leaf, Taught(held, query))
      BY <1>3, <1>5, <3>1, MembersGrow
    <3> QED
      BY <1>5, <3>2, JoinIs
  <2> QED
    BY <1>1, <1>4, <2>1, <2>2 DEF Invented
<1>8. Missed'
  <2>1. Gathering'
    <3>1. MembersOf(kept, path, leaf, {Head(groups)}) \subseteq In(more)
      BY <1>3, <1>5, MembersGrow
    <3>2. \A g \in Taught(kept, query) : \A o \in MembersOf(kept, path, leaf, {g}) :
              o \in In(ret) \/ g \in In(groups)
      BY <1>1 DEF QueryInv, Missed, Gathering
    <3> QED
      BY <1>1, <1>4, <3>1, <3>2 DEF Gathering
  <2> QED
    BY <1>1, <2>1 DEF Missed, Subjecting, OutOfYear, Grouping
<1> QED
  BY <1>6, <1>7, <1>8 DEF QueryInv

LEMMA ReturnKeeps == ASSUME HexaOK, QueryInv, Return PROVE QueryInv'
<1>1. /\ pc = "members" /\ groups = <<>> /\ pc' = "done"
      /\ UNCHANGED <<db, query, courses, subjects, start, found, groups, ret, held, kept>>
  BY DEF Return, hexaVars, lists
<1>2. query \in Asked /\ query.for \in {"student", "staff"}
  BY <1>1 DEF QueryInv, Stages
<1>3. Stages' /\ Lists' /\ History'
  BY <1>1, <1>2, StoredSame DEF QueryInv, Stages, Lists, History
<1>4. Invented'
  BY <1>1 DEF QueryInv, Invented
<1>5. Missed'
  <2>1. Answer(kept, query) \subseteq In(ret)
    <3> DEFINE path == Members[query.for].path
               leaf == Members[query.for].leaf
    <3>1. Answer(kept, query) = MembersOf(kept, path, leaf, Taught(kept, query))
      BY <1>2, JoinIs
    <3>2. \A g \in Taught(kept, query) : \A o \in MembersOf(kept, path, leaf, {g}) :
              o \in In(ret)
      BY <1>1, NothingIn DEF QueryInv, Missed, Gathering
    <3> HIDE DEF path, leaf
    <3>3. \A o : o \in MembersOf(kept, path, leaf, Taught(kept, query)) =>
              \E g \in Taught(kept, query) : o \in MembersOf(kept, path, leaf, {g})
      BY MembersEach
    <3> QED
      BY <3>1, <3>2, <3>3
  <2> QED
    BY <1>1, <2>1 DEF Missed, Subjecting, OutOfYear, Grouping, Gathering
<1> QED
  BY <1>3, <1>4, <1>5 DEF QueryInv

LEMMA StoredTypes == HexaOK => Stored \in SUBSET [sp : SPs, obj : Objects]
BY StoredIs

(* The history grows, and what stays shrinks, under a query.               *)
LEMMA UpdateKeeps == ASSUME HexaOK, QueryInv, update_batch PROVE QueryInv'
<1>1. /\ Hexa!update_batch
      /\ held' = held \cup Stored' /\ kept' = kept \cap Stored'
      /\ UNCHANGED <<pc, query, courses, subjects, start, found, groups, ret>>
  BY DEF update_batch, lists
<1>2. (Stored \in SUBSET [sp : SPs, obj : Objects])'
  <2>1. HexaOK'
    BY <1>1, HexaUpdate
  <2> QED
    BY <2>1, StoredTypes, PTL
<1>3. Stages' /\ Lists'
  BY <1>1 DEF QueryInv, Stages, Lists
<1>4. History'
  BY <1>1, <1>2 DEF QueryInv, History
<1>5. CASE pc = "idle"
  BY <1>1, <1>3, <1>4, <1>5
      DEF QueryInv, Invented, Missed, Subjecting, OutOfYear, Grouping, Gathering
<1>6. CASE pc # "idle"
  <2>1. query \in Asked /\ held \subseteq held' /\ kept' \subseteq kept
    BY <1>1, <1>6 DEF QueryInv, Stages
  <2>2. Invented'
    <3>1. /\ OfArea(held, query) \subseteq OfArea(held', query)
          /\ OfCourses(held, OfArea(held, query)) \subseteq OfCourses(held', OfArea(held', query))
          /\ Offered(held, query) \subseteq Offered(held', query)
          /\ Taught(held, query) \subseteq Taught(held', query)
          /\ Answer(held, query) \subseteq Answer(held', query)
      BY <2>1, JoinGrows
    <3> QED
      BY <1>1, <1>6, <3>1 DEF QueryInv, Invented
  <2>3. /\ OfArea(kept', query) \subseteq OfArea(kept, query)
        /\ InYear(kept', query) \subseteq InYear(kept, query)
        /\ \A C : OfCourses(kept', C) \subseteq OfCourses(kept, C)
        /\ \A F : OfSubjects(kept', F) \subseteq OfSubjects(kept, F)
        /\ Offered(kept', query) \subseteq Offered(kept, query)
        /\ Taught(kept', query) \subseteq Taught(kept, query)
        /\ Answer(kept', query) \subseteq Answer(kept, query)
    BY <2>1, JoinGrows
  <2>4. Subjecting'
    BY <1>1, <2>3 DEF QueryInv, Missed, Subjecting
  <2>5. OutOfYear'
    BY <1>1, <2>3 DEF QueryInv, Missed, OutOfYear
  <2>6. Grouping'
    BY <1>1, <2>3 DEF QueryInv, Missed, Grouping
  <2>7. Gathering'
    <3>1. \A path, leaf, G :
              MembersOf(kept', path, leaf, G) \subseteq MembersOf(kept, path, leaf, G)
      BY <2>1, MembersGrow
    <3> QED
      BY <1>1, <2>3, <3>1 DEF QueryInv, Missed, Gathering
  <2>8. Missed'
    BY <1>1, <2>3, <2>4, <2>5, <2>6, <2>7 DEF QueryInv, Missed
  <2> QED
    BY <1>3, <1>4, <2>2, <2>8 DEF QueryInv
<1> QED
  BY <1>5, <1>6

LEMMA IdleKeeps ==
    ASSUME QueryInv, UNCHANGED <<db, pc, query, lists, ret, held, kept>>
    PROVE  QueryInv'
<1>1. UNCHANGED <<pc, query, courses, subjects, start, found, groups, ret, held, kept>>
  BY DEF lists
<1>2. Stages' /\ Lists' /\ History'
  BY <1>1, StoredSame DEF QueryInv, Stages, Lists, History
<1>3. Invented' /\ Missed'
  BY <1>1 DEF QueryInv, Invented, Missed, Subjecting, OutOfYear, Grouping, Gathering
<1> QED
  BY <1>2, <1>3 DEF QueryInv

LEMMA QueryInit == ASSUME Init PROVE QueryInv
<1>1. /\ pc = "idle" /\ courses = <<>> /\ subjects = <<>> /\ start = <<>> /\ found = <<>>
      /\ groups = <<>> /\ ret = <<>> /\ held = {} /\ kept = {}
  BY DEF Init
<1> QED
  BY <1>1 DEF QueryInv, Stages, Lists, History, Invented, Missed, Subjecting, OutOfYear,
      Grouping, Gathering

LEMMA QueryStep == ASSUME HexaOK, QueryInv, [Next]_vars PROVE QueryInv'
<1>1. CASE \E q \in Asked : Ask(q)
  BY <1>1, AskKeeps
<1>2. CASE FindCourses
  BY <1>2, FindCoursesKeeps
<1>3. CASE FindSubjects
  BY <1>3, FindSubjectsKeeps
<1>4. CASE CheckYear
  BY <1>4, CheckYearKeeps
<1>5. CASE ReadStart
  BY <1>5, ReadStartKeeps
<1>6. CASE ReadEnd
  BY <1>6, ReadEndKeeps
<1>7. CASE SubjectsFound
  BY <1>7, SubjectsFoundKeeps
<1>8. CASE FindGroups
  BY <1>8, FindGroupsKeeps
<1>9. CASE GroupsFound
  BY <1>9, GroupsFoundKeeps
<1>10. CASE FindMembers
  BY <1>10, FindMembersKeeps
<1>11. CASE Return
  BY <1>11, ReturnKeeps
<1>12. CASE Deliver
  BY <1>12, IdleKeeps DEF Deliver, Hexa!Deliver
<1>13. CASE update_batch
  BY <1>13, UpdateKeeps
<1>14. CASE UNCHANGED vars
  BY <1>14, IdleKeeps DEF vars, hexaVars
<1> QED
  BY <1>1, <1>2, <1>3, <1>4, <1>5, <1>6, <1>7, <1>8, <1>9, <1>10, <1>11, <1>12, <1>13, <1>14
      DEF Next, Query

LEMMA Always == Spec => [](HexaOK /\ QueryInv)
<1>1. Init => HexaOK /\ QueryInv
  BY HexaInit, QueryInit
<1>2. HexaOK /\ QueryInv /\ [Next]_vars => (HexaOK /\ QueryInv)'
  BY HexaStep, QueryStep
<1> QED
  BY <1>1, <1>2, PTL DEF Spec

-----------------------------------------------------------------------------
(* The lists of a query hold objects at every step of it, whatever          *)
(* update_batch stores between its lookups (nswdigclass_query.go:13).      *)
THEOREM QueriesTypeCorrect == Spec => []TypeOK
<1>1. HexaOK /\ QueryInv => TypeOK
  BY DEF QueryInv, Stages, Lists, History, TypeOK
<1> QED
  BY <1>1, Always, PTL

(* Who belongs to the answer by tuples that stay put while the query runs   *)
(* is in it, for every stream, every commit between the lookups of         *)
(* nswdigclass_query.go, and however many courses and groups there are.   *)
THEOREM NothingIsMissed == Spec => []NothingMissed
<1>1. HexaOK /\ QueryInv => NothingMissed
  BY SameSet DEF QueryInv, Missed, NothingMissed
<1> QED
  BY <1>1, Always, PTL

(* An answer of nswdigclass_query.go rests on tuples that were stored at    *)
(* some time while the query ran: what was deleted before, and the         *)
(* tombstones, are not found.                                              *)
THEOREM NothingIsInvented == Spec => []NothingInvented
<1>1. HexaOK /\ QueryInv => NothingInvented
  BY SameSet DEF QueryInv, Stages, Invented, NothingInvented
<1> QED
  BY <1>1, Always, PTL

=============================================================================
