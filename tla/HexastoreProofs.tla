-------------------------- MODULE HexastoreProofs --------------------------
(***************************************************************************)
(* Proofs about the hexastore, for all pairs, objects and streams: what one *)
(* batch does to the database, the types, and that a stream on which every *)
(* put follows the delete it belongs to leaves one object of each pair.    *)
(***************************************************************************)
EXTENDS Hexastore, SequenceTheorems, FiniteSetTheorems, WellFoundedInduction, TLAPS


(* Every set of numbers has a least one; if it is bounded, a greatest one. *)
LEMMA LeastOf ==
    ASSUME NEW S \in SUBSET Nat, S # {}
    PROVE  \E m \in S : \A n \in S : m <= n
<1>1. \E m \in S : \A n \in S : ~ (<<n, m>> \in OpToRel(<, Nat))
  BY NatLessThanWellFounded, WFMin
<1>2. PICK m \in S : \A n \in S : ~ (<<n, m>> \in OpToRel(<, Nat))
  BY <1>1
<1>3. ASSUME NEW n \in S PROVE m <= n
  <2>1. <<n, m>> \in Nat \X Nat /\ ~ (<<n, m>> \in OpToRel(<, Nat))
    BY <1>2
  <2>2. ~ (n < m)
    BY <2>1 DEF OpToRel
  <2> QED
    BY <2>2
<1> QED
  BY <1>2, <1>3

LEMMA GreatestOf ==
    ASSUME NEW S \in SUBSET Nat, S # {}, NEW bound \in Nat, \A n \in S : n <= bound
    PROVE  \E m \in S : \A n \in S : n <= m
<1> DEFINE U == {u \in Nat : \A n \in S : n <= u}
<1>1. U \in SUBSET Nat /\ U # {}
  OBVIOUS
<1>2. PICK m \in U : \A u \in U : m <= u
  BY <1>1, LeastOf
<1>3. m \in S
  <2>1. SUFFICES ASSUME m \notin S PROVE FALSE
    OBVIOUS
  <2>2. \A n \in S : n < m
    BY <1>2, <2>1
  <2>3. PICK n \in S : n < m
    BY <2>2
  <2>4. m - 1 \in Nat
    BY <2>3
  <2>5. \A k \in S : k <= m - 1
    BY <2>2
  <2>6. m - 1 \in U
    BY <2>4, <2>5
  <2> QED
    BY <1>2, <2>6
<1> QED
  BY <1>2, <1>3

(* The commands on a key, and the one that decides. *)
OnKey(out, k) == {c \in out : c.key = k}
Final(out, k) == CHOOSE c \in OnKey(out, k) : \A d \in OnKey(out, k) : d.seq <= c.seq

(* Commands on keys, and on tuples, whose sequence numbers have a bound. *)
Executable(out, bound) == \A c \in out :
    c.verb \in {"put", "delete"} /\ c.seq \in 0..bound
Bounded(B, bound) == B \in SUBSET Command /\ \A c \in B : c.seq <= bound

-----------------------------------------------------------------------------
(* Executed *)

LEMMA FinalIsLast ==
    ASSUME NEW out, NEW bound \in Nat, Executable(out, bound),
           NEW k, OnKey(out, k) # {}
    PROVE  /\ Final(out, k) \in OnKey(out, k)
           /\ \A d \in OnKey(out, k) : d.seq <= Final(out, k).seq
<1> DEFINE S == {c.seq : c \in OnKey(out, k)}
<1>1. S \in SUBSET Nat /\ S # {} /\ \A n \in S : n <= bound
  BY DEF Executable, OnKey
<1>2. \E m \in S : \A n \in S : n <= m
  BY <1>1, GreatestOf
<1>3. \E c \in OnKey(out, k) : \A d \in OnKey(out, k) : d.seq <= c.seq
  BY <1>2
<1> QED
  BY <1>3 DEF Final

LEMMA ExecutedIs ==
    ASSUME NEW out
    PROVE  Executed(out) =
               [k \in {k \in {c.key : c \in out} : Final(out, k).verb = "put"}
                      \cup {k \in DOMAIN db : OnKey(out, k) = {}} |->
                IF k \in {x \in {c.key : c \in out} : Final(out, x).verb = "put"}
                THEN Final(out, k).val ELSE db[k]]
BY DEF Executed, Final, OnKey

LEMMA KeyPut ==
    ASSUME NEW out, NEW bound \in Nat, Executable(out, bound),
           NEW c \in out, c.verb = "put",
           \A d \in out : d.key = c.key /\ d.verb = "put" => d.val = c.val,
           \A d \in out : d.key = c.key /\ d.verb = "delete" => d.seq < c.seq
    PROVE  c.key \in DOMAIN Executed(out) /\ Executed(out)[c.key] = c.val
<1> DEFINE f == Final(out, c.key)
<1>1. c \in OnKey(out, c.key)
  BY DEF OnKey
<1>2. f \in OnKey(out, c.key) /\ c.seq <= f.seq
  BY <1>1, FinalIsLast
<1>3. f \in out /\ f.key = c.key
  BY <1>2 DEF OnKey
<1>4. f.verb = "put" /\ f.val = c.val
  BY <1>2, <1>3 DEF Executable
<1> HIDE DEF f
<1> QED
  BY <1>4, ExecutedIs DEF f

LEMMA KeyDeleted ==
    ASSUME NEW out, NEW bound \in Nat, Executable(out, bound),
           NEW k, OnKey(out, k) # {}, \A d \in OnKey(out, k) : d.verb = "delete"
    PROVE  k \notin DOMAIN Executed(out)
<1>1. Final(out, k).verb = "delete"
  BY FinalIsLast
<1> QED
  BY <1>1, ExecutedIs

LEMMA KeyKept ==
    ASSUME NEW out, NEW k, OnKey(out, k) = {}
    PROVE  /\ k \in DOMAIN Executed(out) <=> k \in DOMAIN db
           /\ k \in DOMAIN db => Executed(out)[k] = db[k]
<1>1. k \notin {c.key : c \in out}
  BY DEF OnKey
<1> QED
  BY <1>1, ExecutedIs

(* Where a key of the new database comes from. *)
LEMMA KeyFrom ==
    ASSUME NEW out, NEW bound \in Nat, Executable(out, bound),
           NEW k \in DOMAIN Executed(out)
    PROVE  \/ \E c \in out : /\ c.key = k /\ c.verb = "put"
                             /\ Executed(out)[k] = c.val
           \/ k \in DOMAIN db /\ Executed(out)[k] = db[k]
<1>1. CASE OnKey(out, k) = {}
  BY <1>1, KeyKept
<1>2. CASE OnKey(out, k) # {}
  <2>1. Final(out, k) \in OnKey(out, k)
    BY <1>2, FinalIsLast
  <2>2. k \in {x \in {c.key : c \in out} : Final(out, x).verb = "put"}
    BY <1>2, ExecutedIs
  <2>3. Executed(out)[k] = Final(out, k).val
    BY <2>2, ExecutedIs
  <2> QED
    BY <2>1, <2>2, <2>3 DEF OnKey
<1> QED
  BY <1>1, <1>2

(* Why a key of the old database is gone. *)
LEMMA KeyGone ==
    ASSUME NEW out, NEW bound \in Nat, Executable(out, bound),
           NEW k \in DOMAIN db, k \notin DOMAIN Executed(out)
    PROVE  \E c \in out : c.key = k /\ c.verb = "delete"
<1>1. OnKey(out, k) # {}
  BY KeyKept
<1>2. Final(out, k) \in OnKey(out, k)
  BY <1>1, FinalIsLast
<1>3. Final(out, k).verb # "put"
  BY <1>2, ExecutedIs DEF OnKey
<1> QED
  BY <1>2, <1>3 DEF OnKey, Executable

-----------------------------------------------------------------------------
(* Keys *)

LEMMA KeysDiffer ==
    /\ \A x, y : SPKey(x) = SPKey(y) => x = y
    /\ \A p, q, x, y, o, u :
           Key(p, x, o) = Key(q, y, u) => p = q /\ x = y /\ o = u
    /\ \A x, o, y, u : TombKey(x, o) = TombKey(y, u) => x = y /\ o = u
    /\ \A p, x, y, o : SPKey(x) # Key(p, y, o)
    /\ \A x, y, o : SPKey(x) # TombKey(y, o)
    /\ \A p \in Perms : \A x, o, y, u : Key(p, x, o) # TombKey(y, u)
<1>1. \A a, b, c, d, e : <<a, b>> # <<c, d, e>>
  OBVIOUS
<1>2. "TOMBSTONE" \notin Perms
  BY DEF Perms
<1> QED
  BY <1>1, <1>2 DEF SPKey, Key, TombKey

LEMMA KeysHave ==
    ASSUME NEW x, NEW o
    PROVE  /\ \A k : k \in Keys(x, o) <=>
                  k = SPKey(x) \/ \E p \in Perms : k = Key(p, x, o)
           /\ \A p \in Perms : \A y, u : Key(p, y, u) \in Keys(x, o) <=> x = y /\ o = u
           /\ \A y : SPKey(y) \in Keys(x, o) <=> x = y
           /\ \A y, u : TombKey(y, u) \notin Keys(x, o)
BY KeysDiffer DEF Keys

-----------------------------------------------------------------------------
(* The commands of a batch *)

(* The delete of x is executed, by its own group or by a later one; the     *)
(* last command on x is a put that is executed.                            *)
Unstores(B, x) == \E y \in Pairs(B) :
    /\ x \in Tmp(Issued(B), y)
    /\ \/ Last(B, y).verb = "delete"
       \/ y \in Issued(B) /\ ~Restores(B, y)
Stores(B, x) ==
    /\ x \in Pairs(B)
    /\ Last(B, x).verb = "put" /\ ~Restores(B, x)

LEMMA FirstAndLast ==
    ASSUME NEW B, NEW bound \in Nat, Bounded(B, bound), NEW x \in Pairs(B)
    PROVE  /\ First(B, x) \in B /\ First(B, x).sp = x
           /\ Last(B, x) \in B /\ Last(B, x).sp = x
           /\ \A c \in B : c.sp = x =>
                  First(B, x).seq <= c.seq /\ c.seq <= Last(B, x).seq
<1> DEFINE G == Group(B, x)
           S == {c.seq : c \in G}
<1>1. G # {} /\ G \subseteq B /\ \A c \in G : c.seq \in Nat /\ c.seq <= bound
  BY DEF Pairs, Group, Bounded, Command
<1>2. S \in SUBSET Nat /\ S # {} /\ \A n \in S : n <= bound
  BY <1>1
<1>3. (\E m \in S : \A n \in S : m <= n) /\ (\E m \in S : \A n \in S : n <= m)
  BY <1>2, LeastOf, GreatestOf
<1>4. /\ \E c \in G : \A d \in G : c.seq <= d.seq
      /\ \E c \in G : \A d \in G : d.seq <= c.seq
  BY <1>3
<1>5. /\ First(B, x) \in G /\ \A d \in G : First(B, x).seq <= d.seq
      /\ Last(B, x) \in G /\ \A d \in G : d.seq <= Last(B, x).seq
  BY <1>4 DEF First, Last
<1> QED
  BY <1>5 DEF Group

LEMMA OutIs ==
    ASSUME NEW B, NEW c
    PROVE  c \in Out(B) <=>
               \/ \E x \in Issued(B) : Unstores(B, x) /\ c \in Unstore(B, x)
               \/ \E x \in Pairs(B) :
                      Stores(B, x) /\ c \in cmdStore(Last(B, x))
<1>1. \A y : Tmp(Issued(B), y) \subseteq Issued(B)
  BY DEF Tmp
<1>2. c \in Out(B) <=> \E y \in Pairs(B) :
          c \in Enforced(B, y) \/ c \in Stored(B, y)
  BY DEF Out
<1>3. \A y \in Pairs(B) : c \in Stored(B, y) <=>
          Stores(B, y) /\ c \in cmdStore(Last(B, y))
  BY DEF Stored, Stores
<1>4. \A y : c \in Enforced(B, y) <=>
          /\ \/ Last(B, y).verb = "delete"
             \/ y \in Issued(B) /\ ~Restores(B, y)
          /\ \E x \in Tmp(Issued(B), y) : c \in Unstore(B, x)
  BY DEF Enforced
<1>5. (\E y \in Pairs(B) : c \in Enforced(B, y)) <=>
      \E x \in Issued(B) : Unstores(B, x) /\ c \in Unstore(B, x)
  BY <1>1, <1>4 DEF Unstores
<1> QED
  BY <1>2, <1>3, <1>5

(* Every command on a key of a tuple, and every one on a tombstone.        *)
LEMMA OutMembers ==
    ASSUME NEW B, NEW c
    PROVE  c \in Out(B) <=>
        \/ \E x \in Issued(B) :
              /\ Unstores(B, x)
              /\ \/ c = [verb |-> "put", key |-> TombKey(x, db[SPKey(x)]),
                         val |-> db[SPKey(x)], seq |-> First(B, x).seq]
                 \/ \E k \in Keys(x, db[SPKey(x)]) :
                       c = [verb |-> "delete", key |-> k, val |-> None,
                            seq |-> First(B, x).seq]
        \/ \E x \in Pairs(B) :
              /\ Stores(B, x)
              /\ \E k \in Keys(Last(B, x).sp, Last(B, x).obj) :
                    c = [verb |-> "put", key |-> k, val |-> Last(B, x).obj,
                         seq |-> Last(B, x).seq]
<1>1. \A x : c \in Unstore(B, x) <=>
        \/ c = [verb |-> "put", key |-> TombKey(x, db[SPKey(x)]),
                val |-> db[SPKey(x)], seq |-> First(B, x).seq]
        \/ \E k \in Keys(x, db[SPKey(x)]) :
              c = [verb |-> "delete", key |-> k, val |-> None,
                   seq |-> First(B, x).seq]
  BY DEF Unstore, cmdStoreSingleKey, cmdUnstore, HxCommand
<1>2. \A x : c \in cmdStore(Last(B, x)) <=>
        \E k \in Keys(Last(B, x).sp, Last(B, x).obj) :
              c = [verb |-> "put", key |-> k, val |-> Last(B, x).obj,
                   seq |-> Last(B, x).seq]
  BY DEF cmdStore, HxCommand
<1> QED
  BY <1>1, <1>2, OutIs

LEMMA OutIsExecutable ==
    ASSUME NEW B, NEW bound \in Nat, Bounded(B, bound)
    PROVE  Executable(Out(B), bound)
<1>1. \A x \in Pairs(B) : /\ First(B, x).seq \in 0..bound
                               /\ Last(B, x).seq \in 0..bound
  BY FirstAndLast DEF Bounded, Command
<1>2. Issued(B) \subseteq Pairs(B)
  BY DEF Issued
<1> QED
  BY <1>1, <1>2, OutMembers DEF Executable

-----------------------------------------------------------------------------
(* What becomes of a pair *)

PairKeys(x) == {SPKey(x)} \cup {Key(p, x, o) : p \in Perms, o \in Objects}

(* The database d holds the tuple of x under all permutations, or none.    *)
AllOrNone(d, x) == \A o \in Objects, p \in Perms :
    Key(p, x, o) \in DOMAIN d <=>
        SPKey(x) \in DOMAIN d /\ d[SPKey(x)] = o

LEMMA UnstoresIssued == \A B, x : Unstores(B, x) => x \in Issued(B)
BY DEF Unstores, Tmp

LEMMA OnPairKey ==
    ASSUME NEW B, NEW bound \in Nat, Bounded(B, bound), NEW x \in SPs,
           NEW k \in PairKeys(x), NEW c
    PROVE  c \in OnKey(Out(B), k) <=>
        \/ /\ Unstores(B, x) /\ k \in Keys(x, db[SPKey(x)])
           /\ c = [verb |-> "delete", key |-> k, val |-> None,
                   seq |-> First(B, x).seq]
        \/ /\ Stores(B, x) /\ k \in Keys(x, Last(B, x).obj)
           /\ c = [verb |-> "put", key |-> k, val |-> Last(B, x).obj,
                   seq |-> Last(B, x).seq]
<1>1. \A y, o : k \in Keys(y, o) => y = x
  BY KeysHave, KeysDiffer DEF PairKeys
<1>2. \A y, o : k # TombKey(y, o)
  BY KeysDiffer DEF PairKeys
<1>3. \A y \in Pairs(B) : Last(B, y).sp = y
  BY FirstAndLast
<1>4. Stores(B, x) => x \in Pairs(B)
  BY DEF Stores
<1>5. c \in OnKey(Out(B), k) <=> c \in Out(B) /\ c.key = k
  BY DEF OnKey
<1> QED
  BY <1>1, <1>2, <1>3, <1>4, <1>5, UnstoresIssued, OutMembers

LEMMA FirstBeforeLast ==
    ASSUME NEW B, NEW bound \in Nat, Bounded(B, bound), NEW x,
           Unstores(B, x), Stores(B, x),
           \A c, d \in B : c.sp = d.sp /\ c.seq = d.seq => c = d
    PROVE  First(B, x).seq < Last(B, x).seq
<1>1. x \in Pairs(B) /\ First(B, x).verb = "delete"
  BY UnstoresIssued DEF Issued, Deletes
<1>2. Last(B, x).verb = "put"
  BY DEF Stores
<1>3. First(B, x) # Last(B, x)
  BY <1>1, <1>2
<1>4. /\ First(B, x) \in B /\ First(B, x).sp = x
      /\ Last(B, x) \in B /\ Last(B, x).sp = x
      /\ First(B, x).seq <= Last(B, x).seq
  BY <1>1, FirstAndLast
<1>5. First(B, x).seq \in Nat /\ Last(B, x).seq \in Nat
  BY <1>4 DEF Bounded, Command
<1>6. First(B, x).seq # Last(B, x).seq
  BY <1>3, <1>4
<1> QED
  BY <1>4, <1>5, <1>6

(* The keys of the pair, after the batch.                                  *)
LEMMA KeyAfter ==
    ASSUME NEW B, NEW bound \in Nat, Bounded(B, bound), NEW x \in SPs,
           \A c, d \in B : c.sp = d.sp /\ c.seq = d.seq => c = d,
           NEW k \in PairKeys(x), NEW new, new = Executed(Out(B))
    PROVE  /\ Stores(B, x) /\ k \in Keys(x, Last(B, x).obj) =>
                  k \in DOMAIN new /\ new[k] = Last(B, x).obj
           /\ /\ Unstores(B, x) /\ k \in Keys(x, db[SPKey(x)])
              /\ ~ (Stores(B, x) /\ k \in Keys(x, Last(B, x).obj))
              => k \notin DOMAIN new
           /\ /\ ~ (Stores(B, x) /\ k \in Keys(x, Last(B, x).obj))
              /\ ~ (Unstores(B, x) /\ k \in Keys(x, db[SPKey(x)]))
              => /\ k \in DOMAIN new <=> k \in DOMAIN db
                 /\ k \in DOMAIN db => new[k] = db[k]
<1> DEFINE put == [verb |-> "put", key |-> k, val |-> Last(B, x).obj,
                   seq |-> Last(B, x).seq]
           del == [verb |-> "delete", key |-> k, val |-> None,
                   seq |-> First(B, x).seq]
           out == Out(B)
<1>1. Executable(out, bound)
  BY OutIsExecutable
<1>2. \A c : c \in OnKey(out, k) <=>
          \/ Unstores(B, x) /\ k \in Keys(x, db[SPKey(x)]) /\ c = del
          \/ Stores(B, x) /\ k \in Keys(x, Last(B, x).obj) /\ c = put
  BY OnPairKey
<1>3. ASSUME Stores(B, x), k \in Keys(x, Last(B, x).obj)
      PROVE  k \in DOMAIN new /\ new[k] = Last(B, x).obj
  <2>1. put \in OnKey(out, k)
    BY <1>2, <1>3
  <2>2. put \in out /\ put.verb = "put" /\ put.key = k /\ put.val = Last(B, x).obj
    BY <2>1 DEF OnKey
  <2>3. \A d \in out : d.key = k => d \in OnKey(out, k)
    BY DEF OnKey
  <2>4. del.verb = "delete" /\ put.verb = "put" /\ del.seq = First(B, x).seq
        /\ put.seq = Last(B, x).seq
    OBVIOUS
  <2>5. Unstores(B, x) => del.seq < put.seq
    BY <1>3, <2>4, FirstBeforeLast
  <2> HIDE DEF put, del, out
  <2>6. \A d \in out : d.key = put.key /\ d.verb = "put" => d.val = put.val
    BY <1>2, <2>2, <2>3, <2>4
  <2>7. \A d \in out : d.key = put.key /\ d.verb = "delete" => d.seq < put.seq
    BY <1>2, <2>2, <2>3, <2>4, <2>5
  <2>8. put.key \in DOMAIN Executed(out) /\ Executed(out)[put.key] = put.val
    BY <1>1, <2>2, <2>6, <2>7, KeyPut
  <2>9. new = Executed(out)
    BY DEF out
  <2> QED
    BY <2>2, <2>8, <2>9
<1>4. ASSUME Unstores(B, x), k \in Keys(x, db[SPKey(x)]),
             ~ (Stores(B, x) /\ k \in Keys(x, Last(B, x).obj))
      PROVE  k \notin DOMAIN new
  <2>1. del \in OnKey(out, k)
    BY <1>2, <1>4
  <2>2. \A d \in OnKey(out, k) : d = del
    BY <1>2, <1>4
  <2>3. \A d \in OnKey(out, k) : d.verb = "delete"
    BY <2>2
  <2> QED
    BY <1>1, <2>1, <2>3, KeyDeleted
<1>5. ASSUME ~ (Unstores(B, x) /\ k \in Keys(x, db[SPKey(x)])),
             ~ (Stores(B, x) /\ k \in Keys(x, Last(B, x).obj))
      PROVE  /\ k \in DOMAIN new <=> k \in DOMAIN db
             /\ k \in DOMAIN db => new[k] = db[k]
  <2>1. OnKey(out, k) = {}
    BY <1>2, <1>5
  <2> QED
    BY <2>1, KeyKept
<1> QED
  BY <1>3, <1>4, <1>5

(* The last command is a put that is executed, and nothing is left beside it. *)
LEMMA PairStored ==
    ASSUME NEW B, NEW bound \in Nat, Bounded(B, bound), NEW x \in SPs,
           \A c, d \in B : c.sp = d.sp /\ c.seq = d.seq => c = d,
           NEW new, new = Executed(Out(B)),
           AllOrNone(db, x), Stores(B, x),
           \/ SPKey(x) \notin DOMAIN db
           \/ Unstores(B, x)
           \/ db[SPKey(x)] = Last(B, x).obj
    PROVE  /\ AllOrNone(new, x)
           /\ SPKey(x) \in DOMAIN new
           /\ new[SPKey(x)] = Last(B, x).obj
<1>1. SPKey(x) \in PairKeys(x)
      /\ \A o \in Objects, p \in Perms : Key(p, x, o) \in PairKeys(x)
  BY DEF PairKeys
<1>2. SPKey(x) \in DOMAIN new /\ new[SPKey(x)] = Last(B, x).obj
  BY <1>1, KeyAfter, KeysHave
<1>3. ASSUME NEW o \in Objects, NEW p \in Perms
      PROVE  Key(p, x, o) \in DOMAIN new <=> o = Last(B, x).obj
  <2>1. \A u : Key(p, x, o) \in Keys(x, u) <=> o = u
    BY KeysHave
  <2>2. CASE o = Last(B, x).obj
    BY <1>1, <2>1, <2>2, KeyAfter
  <2>3. CASE o # Last(B, x).obj /\ Unstores(B, x) /\ o = db[SPKey(x)]
    BY <1>1, <2>1, <2>3, KeyAfter
  <2>4. CASE o # Last(B, x).obj /\ ~ (Unstores(B, x) /\ o = db[SPKey(x)])
    <3>1. Key(p, x, o) \in DOMAIN new <=> Key(p, x, o) \in DOMAIN db
      BY <1>1, <2>1, <2>4, KeyAfter
    <3>2. Key(p, x, o) \notin DOMAIN db
      BY <2>4 DEF AllOrNone
    <3> QED
      BY <2>4, <3>1, <3>2
  <2> QED
    BY <2>2, <2>3, <2>4
<1> QED
  BY <1>2, <1>3 DEF AllOrNone

(* What was stored is unstored, and nothing takes its place. *)
LEMMA PairUnstored ==
    ASSUME NEW B, NEW bound \in Nat, Bounded(B, bound), NEW x \in SPs,
           \A c, d \in B : c.sp = d.sp /\ c.seq = d.seq => c = d,
           NEW new, new = Executed(Out(B)),
           AllOrNone(db, x), Unstores(B, x), ~Stores(B, x)
    PROVE  AllOrNone(new, x) /\ SPKey(x) \notin DOMAIN new
<1>1. SPKey(x) \in PairKeys(x)
      /\ \A o \in Objects, p \in Perms : Key(p, x, o) \in PairKeys(x)
  BY DEF PairKeys
<1>2. SPKey(x) \notin DOMAIN new
  BY <1>1, KeyAfter, KeysHave
<1>3. ASSUME NEW o \in Objects, NEW p \in Perms
      PROVE  Key(p, x, o) \notin DOMAIN new
  <2>1. Key(p, x, o) \in Keys(x, db[SPKey(x)]) <=> o = db[SPKey(x)]
    BY KeysHave
  <2>2. CASE o = db[SPKey(x)]
    BY <1>1, <2>1, <2>2, KeyAfter
  <2>3. CASE o # db[SPKey(x)]
    BY <1>1, <2>1, <2>3, KeyAfter DEF AllOrNone
  <2> QED
    BY <2>2, <2>3
<1> QED
  BY <1>2, <1>3 DEF AllOrNone

LEMMA PairUntouched ==
    ASSUME NEW B, NEW bound \in Nat, Bounded(B, bound), NEW x \in SPs,
           \A c, d \in B : c.sp = d.sp /\ c.seq = d.seq => c = d,
           NEW new, new = Executed(Out(B)),
           AllOrNone(db, x), ~Unstores(B, x), ~Stores(B, x)
    PROVE  /\ AllOrNone(new, x)
           /\ SPKey(x) \in DOMAIN new <=> SPKey(x) \in DOMAIN db
           /\ SPKey(x) \in DOMAIN db => new[SPKey(x)] = db[SPKey(x)]
<1>1. \A k \in PairKeys(x) : /\ k \in DOMAIN new <=> k \in DOMAIN db
                             /\ k \in DOMAIN db => new[k] = db[k]
  BY KeyAfter
<1> QED
  BY <1>1 DEF AllOrNone, PairKeys

-----------------------------------------------------------------------------
(* Types *)

USE PairAssumption

DbTypes   == DOMAIN db \subseteq AllKeys /\ \A k \in DOMAIN db : db[k] \in Objects
HexaTypes == filteredfeed \in Seq(Command) /\ TypeOK

LEMMA HexaFacts ==
    ASSUME HexaTypes
    PROVE  /\ filteredfeed \in Seq(Command) /\ Len(filteredfeed) \in Nat
           /\ DOMAIN filteredfeed = 1..Len(filteredfeed)
           /\ \A j \in DOMAIN filteredfeed :
                 /\ filteredfeed[j] \in Command /\ filteredfeed[j].seq \in Nat
                 /\ filteredfeed[j].verb \in {"put", "delete"}
           /\ taken \in 0..Len(filteredfeed)
           /\ commands \in Seq(Command) /\ Len(commands) \in Nat
           /\ DOMAIN commands = 1..Len(commands) /\ DbTypes
<1>1. filteredfeed \in Seq(Command) /\ commands \in Seq(Command)
      /\ taken \in 0..Len(filteredfeed) /\ DbTypes
  BY DEF HexaTypes, TypeOK, DbTypes
<1>2. \A j \in DOMAIN filteredfeed : filteredfeed[j] \in Command
  BY <1>1, ElementOfSeq, LenProperties
<1> QED
  BY <1>1, <1>2, LenProperties DEF Command

(* The numbers of a sequence of commands have a bound: the shortest prefix  *)
(* without one would be longer by one command than a prefix with one.      *)
LEMMA HasBound ==
    ASSUME NEW s \in Seq(Command)
    PROVE  \E bound \in Nat : \A i \in DOMAIN s : s[i].seq <= bound
<1> DEFINE Ends(n) == \E bound \in Nat : \A i \in 1..n : s[i].seq <= bound
           Bad == {n \in 0..Len(s) : ~Ends(n)}
<1>1. Len(s) \in Nat /\ DOMAIN s = 1..Len(s)
  BY LenProperties
<1>2. \A i \in 1..Len(s) : s[i].seq \in Nat
  <2>1. \A i \in 1..Len(s) : s[i] \in Command
    BY ElementOfSeq
  <2> QED
    BY <2>1 DEF Command
<1>3. \A n \in Nat : n <= Len(s) /\ n > 0 /\ Ends(n - 1) => Ends(n)
  <2> SUFFICES ASSUME NEW n \in Nat, n <= Len(s), n > 0, Ends(n - 1) PROVE Ends(n)
    OBVIOUS
  <2>1. PICK bound \in Nat : \A i \in 1..(n - 1) : s[i].seq <= bound
    OBVIOUS
  <2>2. s[n].seq \in Nat
    BY <1>1, <1>2
  <2>3. \A i \in 1..n : i \in 1..(n - 1) \/ i = n
    OBVIOUS
  <2>4. \A i \in 1..n : s[i].seq <= bound + s[n].seq
    <3> TAKE i \in 1..n
    <3>1. s[i].seq \in Nat
      BY <1>1, <1>2
    <3>2. CASE i = n
      BY <2>2, <3>2
    <3>3. CASE i \in 1..(n - 1)
      BY <2>1, <2>2, <3>1, <3>3
    <3> QED
      BY <2>3, <3>2, <3>3
  <2>5. bound + s[n].seq \in Nat
    BY <2>2
  <2> QED
    BY <2>4, <2>5
<1>4. Ends(0)
  OBVIOUS
<1> HIDE DEF Ends
<1>5. Bad = {}
  <2> SUFFICES ASSUME Bad # {} PROVE FALSE
    OBVIOUS
  <2>1. Bad \in SUBSET Nat
    BY <1>1
  <2>2. PICK n \in Bad : \A m \in Bad : n <= m
    BY <2>1, LeastOf
  <2>3. n \in Nat /\ n <= Len(s) /\ ~Ends(n)
    BY <1>1, <2>2
  <2>4. n > 0
    BY <1>4, <2>3
  <2>5. n - 1 \in 0..Len(s) /\ ~ (n <= n - 1)
    BY <1>1, <2>3, <2>4
  <2>6. Ends(n - 1)
    BY <2>2, <2>5
  <2> QED
    BY <1>3, <2>3, <2>4, <2>6
<1>6. Ends(Len(s))
  BY <1>1, <1>5
<1> QED
  BY <1>1, <1>6 DEF Ends

LEMMA BatchIsBounded ==
    ASSUME commands \in Seq(Command)
    PROVE  \E bound \in Nat : Bounded(Batch(commands), bound)
<1>1. \A i \in DOMAIN commands : commands[i] \in Command
  BY ElementOfSeq, LenProperties
<1>2. PICK bound \in Nat : \A i \in DOMAIN commands : commands[i].seq <= bound
  BY HasBound
<1> QED
  BY <1>1, <1>2 DEF Bounded, Batch

LEMMA BatchStep ==
    ASSUME update_batch
    PROVE  /\ commands # <<>> /\ commands' = <<>>
           /\ db' = Executed(Out(Batch(commands)))
           /\ UNCHANGED <<filteredfeed, taken>>
BY DEF update_batch

(* Out is made of tuples of the batch and tombstones of what is stored. *)
LEMMA PutTypes ==
    ASSUME NEW B, NEW bound \in Nat, Bounded(B, bound), DbTypes,
           NEW c \in Out(B), c.verb = "put"
    PROVE  c.key \in AllKeys /\ c.val \in Objects
<1>1. \A x \in SPs, o \in Objects :
          /\ TombKey(x, o) \in AllKeys
          /\ Keys(x, o) \subseteq AllKeys
  <2> TAKE x \in SPs, o \in Objects
  <2> DEFINE parts == {Keys(y, u) \cup {TombKey(y, u)} : y \in SPs, u \in Objects}
             part == Keys(x, o) \cup {TombKey(x, o)}
  <2>1. part \in parts /\ AllKeys = UNION parts
    BY DEF AllKeys
  <2>2. TombKey(x, o) \in part /\ Keys(x, o) \subseteq part
    OBVIOUS
  <2> HIDE DEF parts, part
  <2> QED
    BY <2>1, <2>2
<1>2. \A x \in Pairs(B) : /\ Last(B, x) \in Command
                               /\ x \in SPs
  BY FirstAndLast DEF Bounded, Command
<1>3. CASE \E x \in Issued(B) :
              c = [verb |-> "put", key |-> TombKey(x, db[SPKey(x)]),
                   val |-> db[SPKey(x)], seq |-> First(B, x).seq]
  <2>1. PICK x \in Issued(B) :
              c = [verb |-> "put", key |-> TombKey(x, db[SPKey(x)]),
                   val |-> db[SPKey(x)], seq |-> First(B, x).seq]
    BY <1>3
  <2>2. x \in SPs /\ SPKey(x) \in DOMAIN db
    BY <1>2 DEF Issued
  <2>3. db[SPKey(x)] \in Objects
    BY <2>2 DEF DbTypes
  <2>4. c.key = TombKey(x, db[SPKey(x)]) /\ c.val = db[SPKey(x)]
    BY <2>1
  <2> QED
    BY <1>1, <2>2, <2>3, <2>4
<1>4. CASE \E x \in Pairs(B) :
              \E k \in Keys(Last(B, x).sp, Last(B, x).obj) :
                    c = [verb |-> "put", key |-> k, val |-> Last(B, x).obj,
                         seq |-> Last(B, x).seq]
  <2>1. PICK x \in Pairs(B) :
              \E k \in Keys(Last(B, x).sp, Last(B, x).obj) :
                    c = [verb |-> "put", key |-> k, val |-> Last(B, x).obj,
                         seq |-> Last(B, x).seq]
    BY <1>4
  <2>2. Last(B, x).sp \in SPs /\ Last(B, x).obj \in Objects
    BY <1>2 DEF Command
  <2>3. /\ c.key \in Keys(Last(B, x).sp, Last(B, x).obj)
        /\ c.val = Last(B, x).obj
    BY <2>1
  <2> QED
    BY <1>1, <2>2, <2>3
<1>5. ~ \E x, k : c = [verb |-> "delete", key |-> k, val |-> None,
                       seq |-> First(B, x).seq]
  OBVIOUS
<1> QED
  BY <1>3, <1>4, <1>5, OutMembers

LEMMA UpdateDb ==
    ASSUME commands \in Seq(Command), DbTypes, update_batch
    PROVE  DbTypes'
<1> DEFINE B == Batch(commands)
<1>1. db' = Executed(Out(B))
  BY BatchStep
<1>2. PICK bound \in Nat : Bounded(B, bound)
  BY BatchIsBounded
<1>3. Executable(Out(B), bound)
  BY <1>2, OutIsExecutable
<1> HIDE DEF B
<1>4. ASSUME NEW k \in DOMAIN db' PROVE k \in AllKeys /\ db'[k] \in Objects
  <2>1. CASE \E c \in Out(B) : c.key = k /\ c.verb = "put" /\ db'[k] = c.val
    BY <1>2, <2>1, PutTypes
  <2>2. CASE k \in DOMAIN db /\ db'[k] = db[k]
    BY <2>2 DEF DbTypes
  <2> QED
    BY <1>1, <1>3, <2>1, <2>2, KeyFrom
<1>5. DbTypes' <=> DOMAIN db' \subseteq AllKeys /\ \A k \in DOMAIN db' : db'[k] \in Objects
  BY DEF DbTypes, AllKeys, Keys, SPKey, Key, TombKey, Perms
<1> QED
  BY <1>4, <1>5

(* Every key of a tuple holds the object of the tuple. *)
HoldsObject(d) == \A x \in SPs, o \in Objects, p \in Perms :
    Key(p, x, o) \in DOMAIN d => d[Key(p, x, o)] = o

LEMMA UpdateHolds ==
    ASSUME commands \in Seq(Command), HoldsObject(db), update_batch
    PROVE  HoldsObject(db')
<1> DEFINE B == Batch(commands)
<1>1. db' = Executed(Out(B))
  BY BatchStep
<1>2. PICK bound \in Nat : Bounded(B, bound)
  BY BatchIsBounded
<1>3. Executable(Out(B), bound)
  BY <1>2, OutIsExecutable
<1> HIDE DEF B
<1> SUFFICES ASSUME NEW x \in SPs, NEW o \in Objects, NEW p \in Perms,
                    Key(p, x, o) \in DOMAIN db'
             PROVE  db'[Key(p, x, o)] = o
  BY DEF HoldsObject
<1>4. CASE \E c \in Out(B) : c.key = Key(p, x, o) /\ c.verb = "put" /\ db'[Key(p, x, o)] = c.val
  <2>1. PICK c \in Out(B) : c.key = Key(p, x, o) /\ c.verb = "put" /\ db'[Key(p, x, o)] = c.val
    BY <1>4
  <2>2. \A y, u : c.key # TombKey(y, u)
    BY <2>1, KeysDiffer
  <2>3. \E y \in Pairs(B) : c.key \in Keys(Last(B, y).sp, Last(B, y).obj) /\ c.val = Last(B, y).obj
    BY <2>1, <2>2, OutMembers
  <2>4. c.val = o
    BY <2>1, <2>3, KeysHave
  <2> QED
    BY <2>1, <2>4
<1>5. CASE Key(p, x, o) \in DOMAIN db /\ db'[Key(p, x, o)] = db[Key(p, x, o)]
  BY <1>5 DEF HoldsObject
<1> QED
  BY <1>1, <1>3, <1>4, <1>5, KeyFrom

-----------------------------------------------------------------------------
(* Tombstones *)

LEMMA TombstonesKept ==
    ASSUME commands \in Seq(Command), update_batch, NEW x \in SPs, NEW o \in Objects
    PROVE  /\ TombKey(x, o) \in DOMAIN db => TombKey(x, o) \in DOMAIN db'
           /\ /\ Key("SPO", x, o) \in DOMAIN db
              /\ Key("SPO", x, o) \notin DOMAIN db'
              => TombKey(x, o) \in DOMAIN db'
<1> DEFINE B == Batch(commands)
           tomb == TombKey(x, o)
           key == Key("SPO", x, o)
<1>1. db' = Executed(Out(B))
  BY BatchStep
<1>2. PICK bound \in Nat : Bounded(B, bound)
  BY BatchIsBounded
<1>2a. Executable(Out(B), bound)
  BY <1>2, OutIsExecutable
<1>3. /\ \A y, u : tomb \notin Keys(y, u)
      /\ \A y, u : tomb = TombKey(y, u) => u = o
      /\ \A y, u : key \in Keys(y, u) => x = y /\ o = u
  <2>1. "SPO" \in Perms
    BY DEF Perms
  <2> QED
    BY <2>1, KeysHave, KeysDiffer
<1> HIDE DEF B, tomb, key
<1>4. \A c \in Out(B) : c.key = tomb => c.verb = "put" /\ c.val = o
  BY <1>3, OutMembers
<1>5. ASSUME NEW c \in Out(B), c.key = tomb PROVE tomb \in DOMAIN db'
  <2>1. \A d \in Out(B) : d.key = c.key /\ d.verb = "put" => d.val = c.val
    BY <1>4, <1>5
  <2>2. \A d \in Out(B) : d.key = c.key /\ d.verb = "delete" => d.seq < c.seq
    BY <1>4, <1>5
  <2>3. c.verb = "put"
    BY <1>4, <1>5
  <2> QED
    BY <1>1, <1>2, <1>2a, <1>5, <2>1, <2>2, <2>3, KeyPut
<1>6. tomb \in DOMAIN db => tomb \in DOMAIN db'
  <2>1. CASE OnKey(Out(B), tomb) = {}
    BY <1>1, <2>1, KeyKept
  <2>2. CASE OnKey(Out(B), tomb) # {}
    BY <1>5, <2>2 DEF OnKey
  <2> QED
    BY <2>1, <2>2
<1>7. ASSUME key \in DOMAIN db, key \notin DOMAIN db' PROVE tomb \in DOMAIN db'
  <2>1. PICK c \in Out(B) : c.key = key /\ c.verb = "delete"
    BY <1>1, <1>2, <1>2a, <1>7, KeyGone
  <2>2. PICK y \in Issued(B) :
            /\ Unstores(B, y)
            /\ \E k \in Keys(y, db[SPKey(y)]) :
                  c = [verb |-> "delete", key |-> k, val |-> None,
                       seq |-> First(B, y).seq]
    BY <2>1, OutMembers
  <2>3. c.key \in Keys(y, db[SPKey(y)])
    BY <2>2
  <2>4. y = x /\ db[SPKey(y)] = o
    BY <1>3, <2>1, <2>3
  <2> DEFINE d == [verb |-> "put", key |-> TombKey(y, db[SPKey(y)]),
                   val |-> db[SPKey(y)], seq |-> First(B, y).seq]
  <2>5. d \in Out(B)
    BY <2>2, OutMembers
  <2>6. d.key = tomb
    BY <2>4 DEF tomb
  <2> QED
    BY <1>5, <2>5, <2>6
<1> QED
  BY <1>6, <1>7 DEF tomb, key

-----------------------------------------------------------------------------
(* The database and the stream *)

(* How many commands have been executed; those collected follow them.      *)
Done == taken - Len(commands)

Collected ==
    /\ Done \in Nat
    /\ \A i \in DOMAIN commands : commands[i] = filteredfeed[Done + i]

(* What the database shows of a pair is the last executed command on it.   *)
ShownAt(x, j, done) ==
    /\ filteredfeed[j].verb = "put" /\ filteredfeed[j].sp = x
    /\ filteredfeed[j].obj = db[SPKey(x)]
    /\ \A k \in (j + 1)..done : filteredfeed[k].sp # x
Shown == \A x \in SPs : SPKey(x) \in DOMAIN db =>
    \E j \in 1..Done : ShownAt(x, j, Done)

StoreInv == Collected /\ Shown /\ \A x \in SPs : AllOrNone(db, x)

LEMMA InitStore == Init => StoreInv
<1> SUFFICES ASSUME Init PROVE StoreInv
  OBVIOUS
<1>1. taken = 0 /\ commands = <<>> /\ db = <<>>
  BY DEF Init
<1>2. Len(commands) = 0 /\ DOMAIN commands = {} /\ DOMAIN db = {}
  BY <1>1
<1>3. Done = 0
  <2>1. taken = 0 /\ Len(commands) = 0 /\ 0 - 0 = 0
    BY <1>1, <1>2
  <2> QED
    BY <2>1, Zenon DEF Done
<1> QED
  BY <1>2, <1>3 DEF StoreInv, Collected, Shown, AllOrNone

(* The stream may grow meanwhile.                                         *)
LEMMA GrowStore ==
    ASSUME HexaTypes, StoreInv, UNCHANGED <<taken, commands, db>>,
           \A j \in DOMAIN filteredfeed : filteredfeed'[j] = filteredfeed[j]
    PROVE  StoreInv'
<1>1. Collected /\ Shown /\ \A x \in SPs : AllOrNone(db, x)
  BY DEF StoreInv
<1>2. /\ Done \in Nat /\ Done <= taken /\ taken \in 0..Len(filteredfeed)
      /\ DOMAIN filteredfeed = 1..Len(filteredfeed) /\ Len(filteredfeed) \in Nat
      /\ \A i \in DOMAIN commands : Done + i \in 1..taken
  BY <1>1, HexaFacts DEF Collected, Done
<1>3. \A j \in 1..taken : filteredfeed'[j] = filteredfeed[j]
  BY <1>2
<1>4. Done' = Done
  BY DEF Done
<1>5. Collected'
  BY <1>1, <1>2, <1>3, <1>4 DEF Collected
<1>6. Shown'
  <2> SUFFICES ASSUME NEW x \in SPs, SPKey(x) \in DOMAIN db
               PROVE  \E j \in 1..Done : ShownAt(x, j, Done)'
    BY <1>4 DEF Shown, SPKey, ShownAt
  <2>1. PICK j \in 1..Done : ShownAt(x, j, Done)
    BY <1>1 DEF Shown
  <2>2. filteredfeed'[j] = filteredfeed[j]
        /\ \A k \in (j + 1)..Done : filteredfeed'[k] = filteredfeed[k]
    BY <1>2, <1>3
  <2>3. ShownAt(x, j, Done)'
    BY <1>4, <2>1, <2>2 DEF ShownAt, SPKey
  <2> QED
    BY <2>3
<1> QED
  BY <1>1, <1>5, <1>6 DEF StoreInv, AllOrNone, SPKey, Key, Perms

LEMMA DeliverStore ==
    ASSUME HexaTypes, StoreInv, Deliver
    PROVE  StoreInv'
<1>1. Collected /\ Shown /\ \A x \in SPs : AllOrNone(db, x)
  BY DEF StoreInv
<1>2. /\ taken < Len(filteredfeed) /\ taken' = taken + 1
      /\ commands' = Append(commands, filteredfeed[taken + 1])
      /\ UNCHANGED <<filteredfeed, db>>
  BY DEF Deliver
<1>3. /\ taken \in Nat /\ Len(commands) \in Nat /\ DOMAIN commands = 1..Len(commands)
      /\ commands \in Seq(Command) /\ filteredfeed[taken + 1] \in Command
  BY <1>2, HexaFacts, ElementOfSeq
<1>4. /\ Len(commands') = Len(commands) + 1 /\ DOMAIN commands' = 1..(Len(commands) + 1)
      /\ \A i \in 1..Len(commands) : commands'[i] = commands[i]
      /\ commands'[Len(commands) + 1] = filteredfeed[taken + 1]
  BY <1>2, <1>3, AppendProperties, LenProperties
<1>5. Done' = Done /\ Done \in Nat /\ taken + 1 = Done + (Len(commands) + 1)
  <2>1. Done \in Nat
    BY <1>1 DEF Collected
  <2>2. /\ taken \in Nat /\ Len(commands) \in Nat
        /\ taken' = taken + 1 /\ Len(commands') = Len(commands) + 1
    BY <1>2, <1>3, <1>4
  <2>3. taken' - Len(commands') = taken - Len(commands)
        /\ taken + 1 = taken - Len(commands) + (Len(commands) + 1)
    BY <2>2
  <2> QED
    BY <2>1, <2>3 DEF Done
<1>6. Collected'
  <2> SUFFICES ASSUME NEW i \in DOMAIN commands' PROVE commands'[i] = filteredfeed[Done + i]
    BY <1>2, <1>5 DEF Collected
  <2>1. CASE i \in DOMAIN commands
    BY <1>1, <1>3, <1>4, <2>1 DEF Collected
  <2>2. CASE i = Len(commands) + 1
    BY <1>4, <1>5, <2>2
  <2> QED
    BY <1>3, <1>4, <2>1, <2>2
<1>7. Shown'
  BY <1>1, <1>2, <1>5 DEF Shown, ShownAt, SPKey
<1> QED
  BY <1>1, <1>2, <1>6, <1>7 DEF StoreInv, AllOrNone, SPKey, Key, Perms

-----------------------------------------------------------------------------
(* A batch *)

(* The commands collected are a part of the stream, in its order.          *)
LEMMA BatchIs ==
    ASSUME HexaTypes, StoreInv, Numbered(filteredfeed)
    PROVE  /\ Done \in Nat /\ taken \in Nat
           /\ \A c : c \in Batch(commands) <=>
                         \E k \in (Done + 1)..taken : c = filteredfeed[k]
           /\ \A i, j \in 1..taken : i < j => filteredfeed[i].seq < filteredfeed[j].seq
           /\ \A j \in 1..taken : j \in DOMAIN filteredfeed /\ filteredfeed[j].seq \in Nat
           /\ \A c, d \in Batch(commands) : c.sp = d.sp /\ c.seq = d.seq => c = d
<1>1. Collected
  BY DEF StoreInv
<1>2. /\ Done \in Nat /\ taken \in Nat /\ Len(commands) \in Nat
      /\ DOMAIN commands = 1..Len(commands) /\ taken = Done + Len(commands)
  BY <1>1, HexaFacts DEF Collected, Done
<1>3. \A j \in 1..taken : j \in DOMAIN filteredfeed /\ filteredfeed[j].seq \in Nat
  BY HexaFacts
<1>4. \A i, j \in 1..taken : i < j => filteredfeed[i].seq < filteredfeed[j].seq
  BY <1>3 DEF Numbered
<1>5. ASSUME NEW c
      PROVE  c \in Batch(commands) <=> \E k \in (Done + 1)..taken : c = filteredfeed[k]
  <2>1. c \in Batch(commands) <=> \E i \in DOMAIN commands : c = filteredfeed[Done + i]
    BY <1>1 DEF Batch, Collected
  <2>2. ASSUME NEW i \in DOMAIN commands PROVE Done + i \in (Done + 1)..taken
    BY <1>2
  <2>3. ASSUME NEW k \in (Done + 1)..taken PROVE \E i \in DOMAIN commands : k = Done + i
    <3>1. k - Done \in DOMAIN commands /\ k = Done + (k - Done)
      BY <1>2
    <3> QED
      BY <3>1
  <2> QED
    BY <2>1, <2>2, <2>3
<1>6. \A c, d \in Batch(commands) : c.seq = d.seq => c = d
  <2> SUFFICES ASSUME NEW k \in (Done + 1)..taken, NEW l \in (Done + 1)..taken,
                      filteredfeed[k].seq = filteredfeed[l].seq
               PROVE  k = l
    BY <1>5
  <2>1. k \in 1..taken /\ l \in 1..taken
    BY <1>2
  <2> QED
    BY <1>3, <1>4, <2>1
<1> QED
  BY <1>2, <1>3, <1>4, <1>5, <1>6

(* The last command on a pair in the batch is the last so far.             *)
LEMMA LastIs ==
    ASSUME HexaTypes, StoreInv, Numbered(filteredfeed), NEW x \in Pairs(Batch(commands))
    PROVE  \E r \in 1..taken : /\ filteredfeed[r] = Last(Batch(commands), x)
                               /\ \A k \in (r + 1)..taken : filteredfeed[k].sp # x
<1> DEFINE B == Batch(commands)
           last == Last(B, x)
<1>0. PICK bound \in Nat : Bounded(B, bound)
  BY BatchIsBounded, HexaFacts
<1>1. last \in B /\ \A c \in B : c.sp = x => c.seq <= last.seq
  BY <1>0, FirstAndLast
<1>2. PICK r \in (Done + 1)..taken : last = filteredfeed[r]
  BY <1>1, BatchIs
<1>3. r \in 1..taken
  BY BatchIs
<1>4. ASSUME NEW k \in (r + 1)..taken PROVE filteredfeed[k].sp # x
  <2>1. k \in (Done + 1)..taken /\ k \in 1..taken /\ r < k
    BY BatchIs
  <2>2. filteredfeed[k] \in B
    BY <2>1, BatchIs
  <2>3. /\ filteredfeed[r].seq < filteredfeed[k].seq
        /\ filteredfeed[r].seq \in Nat /\ filteredfeed[k].seq \in Nat
    BY <1>3, <2>1, BatchIs
  <2> QED
    BY <1>1, <1>2, <2>2, <2>3
<1> QED
  BY <1>2, <1>3, <1>4

(* If the first command on a pair that is stored is a put then all the      *)
(* commands on the pair put the same object.                               *)
LEMMA FirstIsPut ==
    ASSUME HexaTypes, StoreInv, Numbered(filteredfeed), Replacing(filteredfeed),
           NEW x \in Pairs(Batch(commands)), x \in SPs, SPKey(x) \in DOMAIN db,
           First(Batch(commands), x).verb # "delete"
    PROVE  \A c \in Batch(commands) : c.sp = x =>
               c.verb # "delete" /\ c.obj = db[SPKey(x)]
<1> DEFINE B == Batch(commands)
           first == First(B, x)
<1>1. Shown
  BY DEF StoreInv
<1>0. PICK bound \in Nat : Bounded(B, bound)
  BY BatchIsBounded, HexaFacts
<1>2. first \in B /\ first.sp = x /\ \A c \in B : c.sp = x => first.seq <= c.seq
  BY <1>0, FirstAndLast
<1>3. PICK q \in (Done + 1)..taken : first = filteredfeed[q]
  BY <1>2, BatchIs
<1>4. PICK j \in 1..Done : ShownAt(x, j, Done)
  BY <1>1 DEF Shown
<1>5. /\ q \in DOMAIN filteredfeed /\ j \in DOMAIN filteredfeed /\ j < q
      /\ q - 1 \in 1..taken /\ q \in 1..taken
  BY BatchIs
<1>6. first.verb = "put"
  BY <1>3, <1>5, HexaFacts
<1>7. filteredfeed[j].sp = x /\ filteredfeed[j].verb = "put"
      /\ filteredfeed[j].obj = db[SPKey(x)]
  BY <1>4 DEF ShownAt
<1>8. ~ (filteredfeed[q - 1].verb = "delete" /\ filteredfeed[q - 1].sp = x)
  <2> SUFFICES ASSUME filteredfeed[q - 1].verb = "delete", filteredfeed[q - 1].sp = x
               PROVE  FALSE
    OBVIOUS
  <2>1. CASE q - 1 \in (Done + 1)..taken
    <3>1. filteredfeed[q - 1] \in B
      BY <2>1, BatchIs
    <3>2. /\ filteredfeed[q - 1].seq < filteredfeed[q].seq
          /\ filteredfeed[q - 1].seq \in Nat /\ filteredfeed[q].seq \in Nat
      BY <1>5, BatchIs
    <3> QED
      BY <1>2, <1>3, <3>1, <3>2
  <2>2. CASE q - 1 = Done
    <3>1. j # q - 1
      BY <1>7
    <3>2. q - 1 \in (j + 1)..Done
      BY <2>2, <3>1, BatchIs
    <3> QED
      BY <1>4, <3>2 DEF ShownAt
  <2> QED
    BY <2>1, <2>2, BatchIs
<1>9. \A i \in DOMAIN filteredfeed : filteredfeed[i].sp = x =>
          filteredfeed[i].verb = "put" /\ filteredfeed[i].obj = first.obj
  <2>1. filteredfeed[q].verb = "put" /\ filteredfeed[q].sp = x
    BY <1>2, <1>3, <1>6
  <2> QED
    BY <1>3, <1>5, <1>7, <1>8, <2>1 DEF Replacing
<1>10. \A c \in B : \E k \in DOMAIN filteredfeed : c = filteredfeed[k]
  <2>1. \A k \in (Done + 1)..taken : k \in DOMAIN filteredfeed
    BY BatchIs
  <2> QED
    BY <2>1, BatchIs
<1>11. first.obj = db[SPKey(x)]
  BY <1>5, <1>7, <1>9
<1> QED
  BY <1>9, <1>10, <1>11

(* When a group is issued its delete is executed, by the group itself unless *)
(* it restores the object.                                                 *)
LEMMA IssuedUnstores ==
    ASSUME NEW B, NEW x \in SPs, x \in Issued(B),
           Last(B, x).verb = "delete" \/ ~Restores(B, x)
    PROVE  Unstores(B, x)
<1>1. x \in Pairs(B)
  BY DEF Issued
<1>2. x \in Tmp(Issued(B), x)
  <2>1. x <= x
    BY PairAssumption
  <2> QED
    BY <2>1 DEF Tmp
<1> QED
  BY <1>1, <1>2 DEF Unstores

LEMMA PairAfter ==
    ASSUME HexaTypes, StoreInv, Numbered(filteredfeed), Replacing(filteredfeed),
           NEW new, new = Executed(Out(Batch(commands))), NEW x \in SPs
    PROVE  /\ AllOrNone(new, x)
           /\ SPKey(x) \in DOMAIN new => \E j \in 1..taken :
                 /\ filteredfeed[j].verb = "put" /\ filteredfeed[j].sp = x
                 /\ filteredfeed[j].obj = new[SPKey(x)]
                 /\ \A k \in (j + 1)..taken : filteredfeed[k].sp # x
<1> DEFINE B == Batch(commands)
           key == SPKey(x)
<1>1. AllOrNone(db, x) /\ Shown
  BY DEF StoreInv
<1>0. PICK bound \in Nat : Bounded(B, bound)
  BY BatchIsBounded, HexaFacts
<1>2. /\ bound \in Nat /\ Bounded(B, bound)
      /\ \A c, d \in B : c.sp = d.sp /\ c.seq = d.seq => c = d
      /\ Done \in Nat /\ taken \in Nat
  BY <1>0, BatchIs
<1>3. new = Executed(Out(B))
  OBVIOUS
<1>4. ASSUME x \in Pairs(B), Last(B, x).verb = "put",
             key \in DOMAIN new, new[key] = Last(B, x).obj
      PROVE  \E j \in 1..taken :
                 /\ filteredfeed[j].verb = "put" /\ filteredfeed[j].sp = x
                 /\ filteredfeed[j].obj = new[key]
                 /\ \A k \in (j + 1)..taken : filteredfeed[k].sp # x
  <2>1. Last(B, x).sp = x
    BY <1>2, <1>4, FirstAndLast
  <2> QED
    BY <1>4, <2>1, LastIs
<1>5. ASSUME x \in Pairs(B), key \in DOMAIN db, x \notin Issued(B)
      PROVE  Last(B, x).verb # "delete" /\ Last(B, x).obj = db[key]
  <2>1. First(B, x).verb # "delete"
    BY <1>5 DEF Issued, Deletes
  <2>2. Last(B, x) \in B /\ Last(B, x).sp = x
    BY <1>2, <1>5, FirstAndLast
  <2> QED
    BY <1>5, <2>1, <2>2, FirstIsPut
<1>6. ASSUME x \in Pairs(B) PROVE Last(B, x).verb \in {"put", "delete"}
  BY <1>2, <1>6, FirstAndLast DEF Bounded, Command
<1>7. CASE Stores(B, x)
  <2>1. x \in Pairs(B) /\ Last(B, x).verb = "put" /\ ~Restores(B, x)
    BY <1>7 DEF Stores
  <2>2. \/ key \notin DOMAIN db
        \/ Unstores(B, x)
        \/ db[key] = Last(B, x).obj
    BY <1>5, <2>1, IssuedUnstores
  <2> HIDE DEF B
  <2>3. AllOrNone(new, x) /\ key \in DOMAIN new /\ new[key] = Last(B, x).obj
    BY <1>1, <1>2, <1>3, <1>7, <2>2, PairStored
  <2> QED
    BY <1>4, <2>1, <2>3
<1>8. CASE ~Stores(B, x) /\ Unstores(B, x)
  <2> HIDE DEF B
  <2> QED
    BY <1>1, <1>2, <1>3, <1>8, PairUnstored
<1>9. CASE ~Stores(B, x) /\ ~Unstores(B, x)
  <2>1. /\ AllOrNone(new, x)
        /\ key \in DOMAIN new <=> key \in DOMAIN db
        /\ key \in DOMAIN db => new[key] = db[key]
    <3> HIDE DEF B
    <3> QED
      BY <1>1, <1>2, <1>3, <1>9, PairUntouched
  <2> SUFFICES ASSUME key \in DOMAIN db
               PROVE  \E j \in 1..taken :
                          /\ filteredfeed[j].verb = "put" /\ filteredfeed[j].sp = x
                          /\ filteredfeed[j].obj = new[key]
                          /\ \A k \in (j + 1)..taken : filteredfeed[k].sp # x
    BY <2>1
  <2>2. CASE x \in Pairs(B)
    <3>1. x \in Issued(B) => Last(B, x).verb # "delete" /\ Restores(B, x)
      BY <1>9, IssuedUnstores
    <3>2. Last(B, x).verb = "put"
      BY <1>5, <1>6, <2>2, <3>1
    <3>3. Restores(B, x)
      BY <1>9, <2>2, <3>2 DEF Stores
    <3>4. Last(B, x).obj = db[key]
      BY <3>3 DEF Restores
    <3> QED
      BY <1>4, <2>1, <2>2, <3>2, <3>4
  <2>3. CASE x \notin Pairs(B)
    <3>1. PICK j \in 1..Done : ShownAt(x, j, Done)
      BY <1>1 DEF Shown
    <3>2. ASSUME NEW k \in (j + 1)..taken PROVE filteredfeed[k].sp # x
      <4>1. CASE k \in (j + 1)..Done
        BY <3>1, <4>1 DEF ShownAt
      <4>2. CASE k \in (Done + 1)..taken
        <5>1. filteredfeed[k] \in B
          BY <4>2, BatchIs
        <5> QED
          BY <2>3, <5>1 DEF Pairs
      <4> QED
        BY <1>2, <4>1, <4>2
    <3>3. j \in 1..taken
      BY <1>2, HexaFacts DEF Done
    <3> QED
      BY <2>1, <3>1, <3>2, <3>3 DEF ShownAt
  <2> QED
    BY <2>2, <2>3
<1> QED
  BY <1>7, <1>8, <1>9

LEMMA UpdateStore ==
    ASSUME HexaTypes, StoreInv, Numbered(filteredfeed), Replacing(filteredfeed),
           update_batch
    PROVE  StoreInv'
<1>1. /\ commands' = <<>>
      /\ db' = Executed(Out(Batch(commands)))
      /\ UNCHANGED <<filteredfeed, taken>>
  BY BatchStep
<1>2. Done' = taken /\ taken \in Nat /\ DOMAIN commands' = {}
  <2>1. Len(commands') = 0 /\ DOMAIN commands' = {}
    BY <1>1
  <2>2. taken \in Nat
    BY BatchIs
  <2>3. taken - 0 = taken
    BY <2>2
  <2> QED
    BY <1>1, <2>1, <2>2, <2>3 DEF Done
<1>3. \A x \in SPs :
          /\ AllOrNone(db', x)
          /\ SPKey(x) \in DOMAIN db' => \E j \in 1..taken :
                /\ filteredfeed[j].verb = "put" /\ filteredfeed[j].sp = x
                /\ filteredfeed[j].obj = db'[SPKey(x)]
                /\ \A k \in (j + 1)..taken : filteredfeed[k].sp # x
  BY <1>1, PairAfter
<1>4. Collected'
  BY <1>2 DEF Collected
<1>5. Shown'
  <2> SUFFICES ASSUME NEW x \in SPs, SPKey(x) \in DOMAIN db'
               PROVE  \E j \in 1..taken : ShownAt(x, j, Done)'
    BY <1>2 DEF Shown, SPKey, ShownAt
  <2>1. PICK j \in 1..taken :
             /\ filteredfeed[j].verb = "put" /\ filteredfeed[j].sp = x
             /\ filteredfeed[j].obj = db'[SPKey(x)]
             /\ \A k \in (j + 1)..taken : filteredfeed[k].sp # x
    BY <1>3
  <2> QED
    BY <1>1, <1>2, <2>1 DEF ShownAt, SPKey
<1>6. \A x \in SPs : AllOrNone(db, x)'
  BY <1>3 DEF AllOrNone, SPKey, Key, Perms
<1> QED
  BY <1>4, <1>5, <1>6 DEF StoreInv

-----------------------------------------------------------------------------
(* Steps keep the types, and the database finite. *)

LEMMA DeliverTypes == ASSUME HexaTypes, Deliver PROVE HexaTypes'
<1>1. /\ filteredfeed \in Seq(Command) /\ commands \in Seq(Command) /\ DbTypes
      /\ taken \in Nat /\ Len(filteredfeed) \in Nat
      /\ \A j \in 1..Len(filteredfeed) : filteredfeed[j] \in Command
  BY HexaFacts
<1>2. /\ taken < Len(filteredfeed) /\ taken' = taken + 1
      /\ commands' = Append(commands, filteredfeed[taken + 1])
      /\ UNCHANGED <<filteredfeed, db>>
  BY DEF Deliver
<1>3. commands' \in Seq(Command)
  BY <1>1, <1>2, AppendProperties
<1>4. DbTypes'
  BY <1>1, <1>2 DEF DbTypes, AllKeys, Keys, SPKey, Key, TombKey, Perms
<1>5. taken' \in 0..Len(filteredfeed')
  BY <1>1, <1>2
<1> QED
  BY <1>1, <1>2, <1>3, <1>4, <1>5 DEF HexaTypes, TypeOK, DbTypes

LEMMA UpdateTypes == ASSUME HexaTypes, update_batch PROVE HexaTypes'
<1>1. filteredfeed \in Seq(Command) /\ commands \in Seq(Command) /\ DbTypes
      /\ taken \in 0..Len(filteredfeed)
  BY HexaFacts
<1>2. DbTypes'
  BY <1>1, UpdateDb
<1>3. commands' \in Seq(Command)
  BY BatchStep
<1> QED
  BY <1>1, <1>2, <1>3, BatchStep DEF HexaTypes, TypeOK, DbTypes

LEMMA FiniteImage ==
    ASSUME NEW f, IsFiniteSet(DOMAIN f)
    PROVE  IsFiniteSet({f[x] : x \in DOMAIN f})
<1> DEFINE T == {f[x] : x \in DOMAIN f}
           g == [x \in DOMAIN f |-> f[x]]
<1>1. g \in Surjection(DOMAIN f, T)
  BY DEF Surjection
<1> QED
  BY <1>1, FS_Surjection

LEMMA KeysFinite == ASSUME NEW x, NEW o PROVE IsFiniteSet(Keys(x, o))
<1> DEFINE key == [p \in Perms |-> Key(p, x, o)]
<1>1. IsFiniteSet(Perms)
  <2>1. Perms = {} \cup {"SPO"} \cup {"SOP"} \cup {"PSO"} \cup {"POS"} \cup {"OPS"} \cup {"OSP"}
    BY DEF Perms
  <2>2. \A S, e : IsFiniteSet(S) => IsFiniteSet(S \cup {e})
    BY FS_AddElement
  <2> QED
    BY <2>1, <2>2, FS_EmptySet, Zenon
<1>2. DOMAIN key = Perms /\ {key[p] : p \in DOMAIN key} = {Key(p, x, o) : p \in Perms}
  OBVIOUS
<1>3. IsFiniteSet({Key(p, x, o) : p \in Perms})
  <2> HIDE DEF key
  <2> QED
    BY <1>1, <1>2, FiniteImage
<1> QED
  BY <1>3, FS_AddElement DEF Keys

(* A batch has finitely many commands, and each issues finitely many.      *)
LEMMA OutFinite ==
    ASSUME commands \in Seq(Command)
    PROVE  IsFiniteSet(Out(Batch(commands)))
<1> DEFINE B == Batch(commands)
<1>1. IsFiniteSet(B)
  <2>1. DOMAIN commands = 1..Len(commands) /\ Len(commands) \in Nat
    BY LenProperties
  <2>2. IsFiniteSet(DOMAIN commands)
    BY <2>1, FS_Interval
  <2> QED
    BY <2>2, FiniteImage DEF Batch
<1> HIDE DEF B
<1>2. IsFiniteSet(Pairs(B))
  <2> DEFINE sp == [c \in B |-> c.sp]
  <2>1. DOMAIN sp = B /\ {sp[c] : c \in DOMAIN sp} = Pairs(B)
    BY DEF Pairs
  <2> HIDE DEF sp
  <2> QED
    BY <1>1, <2>1, FiniteImage
<1>3. ASSUME NEW verb, NEW x, NEW o, NEW u, NEW seq
      PROVE  IsFiniteSet({HxCommand(verb, k, u, seq) : k \in Keys(x, o)})
  <2> DEFINE hx == [k \in Keys(x, o) |-> HxCommand(verb, k, u, seq)]
  <2>1. DOMAIN hx = Keys(x, o)
        /\ {hx[k] : k \in DOMAIN hx} = {HxCommand(verb, k, u, seq) : k \in Keys(x, o)}
    OBVIOUS
  <2> HIDE DEF hx
  <2> QED
    BY <2>1, KeysFinite, FiniteImage
<1>4. \A x : IsFiniteSet(Stored(B, x))
  <2> TAKE x
  <2>1. IsFiniteSet(cmdStore(Last(B, x)))
    BY <1>3 DEF cmdStore
  <2> QED
    BY <2>1, FS_EmptySet DEF Stored
<1>5. \A x : IsFiniteSet(Unstore(B, x))
  <2> TAKE x
  <2> DEFINE old == db[SPKey(x)]
             seq == First(B, x).seq
  <2>1. IsFiniteSet(cmdUnstore(x, old, seq))
    BY <1>3 DEF cmdUnstore
  <2>2. IsFiniteSet({cmdStoreSingleKey(x, old, seq)})
    BY FS_Singleton
  <2>3. Unstore(B, x) = {cmdStoreSingleKey(x, old, seq)} \cup cmdUnstore(x, old, seq)
    BY DEF Unstore
  <2> QED
    BY <2>1, <2>2, <2>3, FS_Union
<1>6. \A x : IsFiniteSet(Enforced(B, x))
  <2> TAKE x
  <2> DEFINE tmp == Tmp(Issued(B), x)
             un == [y \in tmp |-> Unstore(B, y)]
  <2>1. tmp \in SUBSET Pairs(B)
    BY DEF Tmp, Issued
  <2>2. DOMAIN un = tmp /\ {un[y] : y \in DOMAIN un} = {Unstore(B, y) : y \in tmp}
    OBVIOUS
  <2>3. IsFiniteSet({Unstore(B, y) : y \in tmp})
    <3>1. IsFiniteSet(tmp)
      BY <1>2, <2>1, FS_Subset
    <3> HIDE DEF tmp, un
    <3> QED
      BY <2>2, <3>1, FiniteImage
  <2>4. IsFiniteSet(UNION {Unstore(B, y) : y \in tmp})
    BY <1>5, <2>3, FS_UNION
  <2> QED
    BY <2>4, FS_EmptySet DEF Enforced
<1> DEFINE part == [x \in Pairs(B) |-> Enforced(B, x) \cup Stored(B, x)]
<1>7. /\ DOMAIN part = Pairs(B)
      /\ {part[x] : x \in DOMAIN part} = {Enforced(B, x) \cup Stored(B, x) : x \in Pairs(B)}
  OBVIOUS
<1>8. IsFiniteSet({Enforced(B, x) \cup Stored(B, x) : x \in Pairs(B)})
  <2> HIDE DEF part
  <2> QED
    BY <1>2, <1>7, FiniteImage
<1>9. IsFiniteSet(UNION {Enforced(B, x) \cup Stored(B, x) : x \in Pairs(B)})
  <2>1. \A x \in Pairs(B) : IsFiniteSet(Enforced(B, x) \cup Stored(B, x))
    BY <1>4, <1>6, FS_Union
  <2> QED
    BY <1>8, <2>1, FS_UNION
<1> QED
  BY <1>9 DEF Out, B

LEMMA UpdateFinite ==
    ASSUME commands \in Seq(Command), IsFiniteSet(DOMAIN db), update_batch
    PROVE  IsFiniteSet(DOMAIN db')
<1>0. PICK out : out = Out(Batch(commands))
  OBVIOUS
<1> DEFINE key == [c \in out |-> c.key]
           keys == {c.key : c \in out}
<1>1. DOMAIN key = out /\ {key[c] : c \in DOMAIN key} = keys
  OBVIOUS
<1>2. IsFiniteSet(keys)
  <2> HIDE DEF key, keys
  <2> QED
    BY <1>0, <1>1, OutFinite, FiniteImage
<1>3. IsFiniteSet(keys \cup DOMAIN db)
  BY <1>2, FS_Union
<1>4. DOMAIN db' \in SUBSET (keys \cup DOMAIN db)
  BY <1>0, BatchStep DEF Executed
<1> QED
  BY <1>3, <1>4, FS_Subset

=============================================================================
