----------------------------- MODULE SyncProofs -----------------------------
(***************************************************************************)
(* Proofs about SyncProtocol, for every value of its constants.            *)
(***************************************************************************)
EXTENDS SyncProtocol, SequenceTheorems, FiniteSetTheorems, TLAPS

USE TargetAssumption, QuotaAssumption, NoneAssumption, BoundAssumption

-----------------------------------------------------------------------------
(* Types *)

(* The message a subscription delivers next is on the feed. *)
LEMMA NextEntry ==
    ASSUME TypeOK, NEW n \in Nodes, NEW m \in Nodes, CanTake(n, m)
    PROVE  /\ pos[n][m] + 1 \in 1..Len(feed[n])
           /\ NextOf(n, m) = feed[n][pos[n][m] + 1]
           /\ NextOf(n, m) \in Entry /\ NextOf(n, m).blk \in Block
<1>1. pos[n][m] \in Nat /\ feed[n] \in Seq(Entry) /\ pos[n][m] < Len(feed[n])
  BY DEF TypeOK, CanTake
<1>2. pos[n][m] + 1 \in 1..Len(feed[n])
  BY <1>1
<1>3. feed[n][pos[n][m] + 1] \in Entry
  BY <1>1, <1>2, ElementOfSeq
<1> QED
  BY <1>2, <1>3 DEF NextOf, Entry

(* A feed and a wire grow by one entry at the end. *)
LEMMA FeedType ==
    ASSUME TypeOK, NEW n \in Nodes, NEW e \in Entry,
           feed' = [feed EXCEPT ![n] = Append(@, e)]
    PROVE  feed' \in [Nodes -> Seq(Entry)]
<1>1. feed \in [Nodes -> Seq(Entry)]
  BY DEF TypeOK
<1>2. Append(feed[n], e) \in Seq(Entry)
  BY <1>1, AppendProperties
<1> QED
  BY <1>1, <1>2

LEMMA CommitType ==
    ASSUME TypeOK, NEW n \in Nodes, Commit(n) PROVE TypeOK'
<1>1. chain' \in [Nodes -> Nat] /\ unpub' \in [Nodes -> SUBSET Nat]
  BY DEF TypeOK, Commit
<1>2. bucket' \in [Nodes -> [Nodes -> SUBSET Nat]]
  BY DEF TypeOK, Commit
<1> QED
  BY <1>1, <1>2 DEF TypeOK, Commit, streams, writers

LEMMA PublishOwnType ==
    ASSUME TypeOK, NEW n \in Nodes, PublishOwn(n) PROVE TypeOK'
<1> PICK p \in unpub[n] :
      /\ unpub' = [unpub EXCEPT ![n] = @ \ {p}]
      /\ feed' = [feed EXCEPT ![n] =
                    Append(@, [blk |-> [author |-> n, place |-> p], sender |-> n])]
  BY DEF PublishOwn
<1>1. p \in Nat /\ unpub' \in [Nodes -> SUBSET Nat]
  BY DEF TypeOK
<1>2. [blk |-> [author |-> n, place |-> p], sender |-> n] \in Entry
  BY <1>1 DEF Entry, Block
<1>3. feed' \in [Nodes -> Seq(Entry)]
  BY <1>2, FeedType
<1> QED
  BY <1>1, <1>3 DEF TypeOK, PublishOwn, streams, writers

LEMMA PassOverType ==
    ASSUME TypeOK, NEW n \in Nodes, NEW m \in Nodes, PassOver(n, m) PROVE TypeOK'
<1>1. pos' \in [Nodes -> [Nodes -> Nat]]
  BY DEF TypeOK, PassOver
<1> QED
  BY <1>1 DEF TypeOK, PassOver, store, streams

LEMMA SendType ==
    ASSUME TypeOK, NEW n \in Nodes, NEW m \in Nodes, Send(n, m) PROVE TypeOK'
<1>1. NextOf(n, m).blk \in Block
  BY NextEntry DEF Send
<1>2. msgCMS' \in [Nodes -> SUBSET (Block \X Nodes)]
  <2> DEFINE r == <<NextOf(n, m).blk, m>>
  <2>1. r \in Block \X Nodes
    BY <1>1
  <2>2. msgCMS \in [Nodes -> SUBSET (Block \X Nodes)]
    BY DEF TypeOK
  <2>3. msgCMS' = [msgCMS EXCEPT ![n] = @ \cup {r}]
    BY DEF Send
  <2> HIDE DEF r
  <2>4. msgCMS[n] \cup {r} \in SUBSET (Block \X Nodes)
    BY <2>1, <2>2
  <2> QED
    BY <2>2, <2>3, <2>4
<1>3. Append(wire[n][m], NextOf(n, m).blk) \in Seq(Block)
  BY <1>1, AppendProperties DEF TypeOK
<1>4. /\ wire' \in [Nodes -> [Nodes -> Seq(Block)]]
      /\ writer' \in [Nodes -> [Nodes -> {"none", "attached", "unread", "closed", "failing"}]]
      /\ pos' \in [Nodes -> [Nodes -> Nat]]
  <2> USE DEF TypeOK
  <2>1. CASE SendAttached(n, m)
    <3>1. wire' \in [Nodes -> [Nodes -> Seq(Block)]]
      BY <1>3, <2>1 DEF SendAttached
    <3>2. pos' \in [Nodes -> [Nodes -> Nat]]
      BY SMTT(20), <2>1 DEF SendAttached
    <3> QED
      BY <2>1, <3>1, <3>2 DEF SendAttached
  <2>2. CASE SendClosed(n, m)
    <3>1. pos' \in [Nodes -> [Nodes -> Nat]]
      BY <2>2 DEF SendClosed
    <3>2. writer' \in [Nodes -> [Nodes -> {"none", "attached", "unread", "closed", "failing"}]]
      BY <2>2 DEF SendClosed
    <3> QED
      BY <2>2, <3>1, <3>2 DEF SendClosed
  <2>3. CASE SendFails(n, m)
    <3>1. pos' \in [Nodes -> [Nodes -> Nat]]
      BY <2>3 DEF SendFails
    <3>2. writer' \in [Nodes -> [Nodes -> {"none", "attached", "unread", "closed", "failing"}]]
      BY <2>3 DEF SendFails
    <3> QED
      BY <2>3, <3>1, <3>2 DEF SendFails
  <2>4. CASE SendUnread(n, m)
    <3>1. pos' \in [Nodes -> [Nodes -> Nat]]
      BY <2>4 DEF SendUnread
    <3> QED
      BY <2>4, <3>1 DEF SendUnread
  <2> QED
    BY <2>1, <2>2, <2>3, <2>4 DEF Send
<1> QED
  BY <1>2, <1>4 DEF TypeOK, Send, store

(* A reader takes the first block of a wire. *)
LEMMA HeadOfWire ==
    ASSUME TypeOK, NEW n \in Nodes, NEW m \in Nodes, wire[n][m] # <<>>
    PROVE  /\ Head(wire[n][m]) \in Block /\ Tail(wire[n][m]) \in Seq(Block)
           /\ wire[n][m] \in Seq(Block)
           /\ 1 \in 1..Len(wire[n][m]) /\ Head(wire[n][m]) = wire[n][m][1]
           /\ Len(Tail(wire[n][m])) = Len(wire[n][m]) - 1
           /\ \A i \in 1..Len(Tail(wire[n][m])) :
                 Tail(wire[n][m])[i] = wire[n][m][i + 1]
<1>1. wire[n][m] \in Seq(Block)
  BY DEF TypeOK
<1> QED
  BY <1>1, HeadTailProperties, EmptySeq

LEMMA ReadType ==
    ASSUME TypeOK, NEW n \in Nodes, NEW m \in Nodes, Read(m, n) PROVE TypeOK'
<1> DEFINE b == Head(wire[n][m])
<1>1. b \in Block /\ Tail(wire[n][m]) \in Seq(Block)
  BY HeadOfWire DEF Read
<1>2. wire' \in [Nodes -> [Nodes -> Seq(Block)]]
  BY <1>1 DEF TypeOK, Read
<1>3. b.author \in Nodes /\ b.place \in Nat
  BY <1>1 DEF Block
<1> HIDE DEF b
<1>4. \/ bucket' = [bucket EXCEPT ![m][b.author] = @ \cup {b.place}]
         /\ hand' = [hand EXCEPT ![m][n] = b]
      \/ UNCHANGED <<bucket, hand>>
  BY DEF Read, b
<1>5. bucket' \in [Nodes -> [Nodes -> SUBSET Nat]]
  <2>1. bucket \in [Nodes -> [Nodes -> SUBSET Nat]]
    BY DEF TypeOK
  <2>2. bucket[m] \in [Nodes -> SUBSET Nat] /\ bucket[m][b.author] \cup {b.place} \in SUBSET Nat
    BY <1>3, <2>1
  <2>3. [bucket[m] EXCEPT ![b.author] = @ \cup {b.place}] \in [Nodes -> SUBSET Nat]
    BY <1>3, <2>2
  <2> QED
    BY <1>4, <2>1, <2>3
<1>6. hand' \in [Nodes -> [Nodes -> Block \cup {None}]]
  <2>1. hand \in [Nodes -> [Nodes -> Block \cup {None}]]
    BY DEF TypeOK
  <2>2. [hand[m] EXCEPT ![n] = b] \in [Nodes -> Block \cup {None}]
    BY <1>1, <2>1 DEF b
  <2> QED
    BY <1>4, <2>1, <2>2
<1> QED
  BY <1>2, <1>5, <1>6 DEF TypeOK, Read, writers

LEMMA PublishReadType ==
    ASSUME TypeOK, NEW n \in Nodes, NEW m \in Nodes, PublishRead(m, n) PROVE TypeOK'
<1>1. [blk |-> hand[m][n], sender |-> n] \in Entry
  BY DEF TypeOK, PublishRead, Entry
<1>2. feed' \in [Nodes -> Seq(Entry)]
  BY <1>1, FeedType DEF PublishRead
<1>3. hand' \in [Nodes -> [Nodes -> Block \cup {None}]]
  BY DEF TypeOK, PublishRead
<1> QED
  BY <1>2, <1>3 DEF TypeOK, PublishRead, store, streams, writers

LEMMA ReaderEndsType ==
    ASSUME TypeOK, NEW n \in Nodes, NEW m \in Nodes,
           PublishReadFails(m, n) \/ ReadEnds(m, n)
    PROVE  TypeOK'
<1>1. CASE PublishReadFails(m, n)
  <2>1. wire' \in [Nodes -> [Nodes -> Seq(Block)]]
    <3>1. wire \in [Nodes -> [Nodes -> Seq(Block)]] /\ <<>> \in Seq(Block)
      BY EmptySeq DEF TypeOK
    <3>2. wire' = [wire EXCEPT ![n][m] = <<>>]
      BY <1>1 DEF PublishReadFails
    <3>3. [wire[n] EXCEPT ![m] = <<>>] \in [Nodes -> Seq(Block)]
      BY <3>1
    <3> QED
      BY <3>1, <3>2, <3>3
  <2>2. hand' \in [Nodes -> [Nodes -> Block \cup {None}]]
    BY <1>1 DEF TypeOK, PublishReadFails
  <2>3. writer' \in [Nodes -> [Nodes -> {"none", "attached", "unread", "closed", "failing"}]]
    BY <1>1 DEF TypeOK, PublishReadFails
  <2>4. link' \subseteq Topology /\ drops' \in Nat
    BY <1>1 DEF TypeOK, PublishReadFails
  <2> QED
    BY <1>1, <2>1, <2>2, <2>3, <2>4 DEF TypeOK, PublishReadFails, store
<1>2. CASE ReadEnds(m, n)
  <2>1. writer' \in [Nodes -> [Nodes -> {"none", "attached", "unread", "closed", "failing"}]]
    BY <1>2 DEF TypeOK, ReadEnds
  <2> QED
    BY <1>2, <2>1 DEF TypeOK, ReadEnds, store, streams
<1> QED
  BY <1>1, <1>2

(* The end of a reader only takes away from wires, hands and writers.       *)
OnlyTakes == \A x, y \in Nodes :
    /\ hand'[x][y] \in {hand[x][y], None}
    /\ wire'[x][y] \in {wire[x][y], <<>>}
    /\ writer'[x][y] # "none" => writer[x][y] # "none"

LEMMA ReaderEndsTakes ==
    ASSUME TypeOK, NEW n \in Nodes, NEW m \in Nodes,
           PublishReadFails(m, n) \/ ReadEnds(m, n)
    PROVE  OnlyTakes
<1>1. /\ hand \in [Nodes -> [Nodes -> Block \cup {None}]]
      /\ wire \in [Nodes -> [Nodes -> Seq(Block)]]
      /\ writer \in [Nodes -> [Nodes -> {"none", "attached", "unread", "closed", "failing"}]]
  BY DEF TypeOK
<1>2. CASE PublishReadFails(m, n)
  <2>1. /\ hand' = [hand EXCEPT ![m][n] = None] /\ wire' = [wire EXCEPT ![n][m] = <<>>]
        /\ \A x, y \in Nodes : writer'[x][y] # "none" => writer[x][y] # "none"
    BY <1>2 DEF PublishReadFails
  <2>2. \A x, y \in Nodes : hand'[x][y] \in {hand[x][y], None}
    BY <1>1, <2>1
  <2>3. \A x, y \in Nodes : wire'[x][y] \in {wire[x][y], <<>>}
    BY <1>1, <2>1
  <2> QED
    BY <2>1, <2>2, <2>3 DEF OnlyTakes
<1>3. CASE ReadEnds(m, n)
  <2>1. /\ writer[m][n] = "unread" /\ writer' = [writer EXCEPT ![m][n] = "closed"]
        /\ UNCHANGED <<hand, wire>>
    BY <1>3 DEF ReadEnds, streams
  <2> QED
    BY <1>1, <2>1 DEF OnlyTakes
<1> QED
  BY <1>2, <1>3

(* Dialling, and the end of a stream, leave blocks where they are. *)
LEMMA DialType ==
    ASSUME TypeOK, NEW n \in Nodes, Dial(n) \/ DialFails(n) PROVE TypeOK'
<1>1. CASE Dial(n)
  <2>1. dialling' \subseteq Dialers /\ n \in Dialers
    BY <1>1 DEF TypeOK, Dial
  <2>2. link' \subseteq Topology
    BY <1>1, <2>1 DEF TypeOK, Dial, Topology
  <2>3. writer' \in [Nodes -> [Nodes -> {"none", "attached", "unread", "closed", "failing"}]]
    BY <1>1 DEF TypeOK, Dial
  <2> QED
    BY <1>1, <2>1, <2>2, <2>3 DEF TypeOK, Dial, store
<1>2. CASE DialFails(n)
  <2>1. dialling' \subseteq Dialers /\ drops' \in Nat
    BY <1>2 DEF TypeOK, DialFails
  <2> QED
    BY <1>2, <2>1 DEF TypeOK, DialFails, store, writers
<1> QED
  BY <1>1, <1>2

LEMMA CutType ==
    ASSUME TypeOK, NEW ls, Cut(ls)
    PROVE  /\ link' \subseteq Topology
           /\ wire' \in [Nodes -> [Nodes -> Seq(Block)]]
           /\ \A n, m \in Nodes : wire'[n][m] \in {<<>>, wire[n][m]}
<1>1. wire \in [Nodes -> [Nodes -> Seq(Block)]] /\ link \subseteq Topology
  BY DEF TypeOK
<1>2. <<>> \in Seq(Block)
  BY EmptySeq
<1> QED
  BY <1>1, <1>2 DEF Cut

LEMMA DropType ==
    ASSUME TypeOK, NEW l \in Topology, Drop(l) PROVE TypeOK'
<1>1. Cut({l})
  BY DEF Drop
<1>2. writer' \in [Nodes -> [Nodes -> {"none", "attached", "unread", "closed", "failing"}]]
  BY DEF TypeOK, Drop
<1>3. link' \subseteq Topology /\ wire' \in [Nodes -> [Nodes -> Seq(Block)]]
  BY <1>1, CutType
<1> QED
  BY <1>2, <1>3 DEF TypeOK, Drop, store

LEMMA RestartType ==
    ASSUME TypeOK, NEW n \in Nodes, Restart(n) PROVE TypeOK'
<1>1. Cut({{n, m} : m \in Nodes})
  BY DEF Restart
<1>2. /\ msgFile' \in [Nodes -> SUBSET (Block \X Nodes)]
      /\ msgCMS' \in [Nodes -> SUBSET (Block \X Nodes)]
  BY ZenonT(20) DEF TypeOK, Restart
<1>3. dialling' \subseteq Dialers /\ unpub' \in [Nodes -> SUBSET Nat]
  BY DEF TypeOK, Restart
<1>4. /\ hand' \in [Nodes -> [Nodes -> Block \cup {None}]]
      /\ pos' \in [Nodes -> [Nodes -> Nat]]
  BY DEF TypeOK, Restart
<1>5. writer' \in [Nodes -> [Nodes -> {"none", "attached", "unread", "closed", "failing"}]]
  BY DEF TypeOK, Restart
<1>6. feed' \in [Nodes -> Seq(Entry)]
  <2>1. [blk |-> [author |-> n, place |-> 1], sender |-> n] \in Entry
    BY DEF Entry, Block
  <2>2. CASE chain[n] = 1
    BY <2>1, <2>2, FeedType DEF Restart
  <2>3. CASE chain[n] # 1
    BY <2>3 DEF Restart, TypeOK
  <2> QED
    BY <2>2, <2>3
<1>7. link' \subseteq Topology /\ wire' \in [Nodes -> [Nodes -> Seq(Block)]]
  BY <1>1, CutType
<1>8. drops' \in Nat /\ restarts' \in Nat /\ UNCHANGED <<chain, bucket>>
  BY DEF TypeOK, Restart
<1> QED
  BY <1>2, <1>3, <1>4, <1>5, <1>6, <1>7, <1>8 DEF TypeOK

LEMMA InitSyncType == Init => TypeOK
<1> SUFFICES ASSUME Init PROVE TypeOK
  OBVIOUS
<1>1. feed \in [Nodes -> Seq(Entry)] /\ wire \in [Nodes -> [Nodes -> Seq(Block)]]
  BY EmptySeq DEF Init
<1> QED
  BY <1>1 DEF Init, TypeOK

LEMMA NextSyncType == TypeOK /\ [Next]_vars => TypeOK'
<1> SUFFICES ASSUME TypeOK, [Next]_vars PROVE TypeOK'
  OBVIOUS
<1>1. CASE \E n \in Nodes : Commit(n) \/ PublishOwn(n) \/ Restart(n) \/ Dial(n) \/ DialFails(n)
  BY <1>1, CommitType, PublishOwnType, RestartType, DialType
<1>2. CASE \E n, m \in Nodes :
             \/ PassOver(n, m) \/ Send(n, m)
             \/ Read(m, n) \/ PublishRead(m, n) \/ PublishReadFails(m, n) \/ ReadEnds(m, n)
  BY <1>2, PassOverType, SendType, ReadType, PublishReadType, ReaderEndsType
<1>3. CASE \E l \in Topology : Drop(l)
  BY <1>3, DropType
<1>4. CASE Quiescent \/ UNCHANGED vars
  BY <1>4 DEF Quiescent, vars, store, streams, writers, TypeOK
<1> QED
  BY <1>1, <1>2, <1>3, <1>4 DEF Next

(* Every variable of the protocol keeps its type, and no stream is open     *)
(* between nodes of which neither was told to dial the other.               *)
THEOREM SyncTypeCorrect == Spec => []TypeOK
BY InitSyncType, NextSyncType, PTL DEF Spec

-----------------------------------------------------------------------------
(* Copies of a chain have no gaps *)

(* A block that travels is one its author made. *)
Genuine(b) == b.place \in 1..chain[b.author]

FeedsOK == \A n \in Nodes : \A i \in 1..Len(feed[n]) : Genuine(feed[n][i].blk)
WiresOK == \A n, m \in Nodes : \A i \in 1..Len(wire[n][m]) : Genuine(wire[n][m][i])
HandsOK == \A n, m \in Nodes : hand[n][m] # None => Genuine(hand[n][m])

(* An author holds its own chain, and its handlers publish blocks of it. *)
OwnOK == \A a \in Nodes : bucket[a][a] = 1..chain[a] /\ unpub[a] \subseteq 1..chain[a]

PrefixInv == HoldsPrefix /\ OwnOK /\ FeedsOK /\ WiresOK /\ HandsOK

LEMMA InitPrefix == Init => PrefixInv
<1> SUFFICES ASSUME Init PROVE PrefixInv
  OBVIOUS
<1>1. \A n, a \in Nodes : bucket[n][a] = {} /\ chain[a] = 0 /\ unpub[a] = {}
  BY DEF Init
<1>2. 1..0 = {} /\ 0 \in 0..0
  OBVIOUS
<1>3. HoldsPrefix /\ OwnOK
  BY <1>1, <1>2 DEF HoldsPrefix, OwnOK
<1>4. \A n, m \in Nodes : feed[n] = <<>> /\ wire[n][m] = <<>> /\ hand[n][m] = None
  BY DEF Init
<1>5. Len(<<>>) = 0
  BY EmptySeq
<1> QED
  BY <1>3, <1>4, <1>5 DEF PrefixInv, FeedsOK, WiresOK, HandsOK

(* The checks on feeds and wires, where something is added or lost. *)
LEMMA FeedGrows ==
    ASSUME TypeOK, FeedsOK, UNCHANGED chain, NEW n \in Nodes, NEW e \in Entry,
           Genuine(e.blk), feed' = [feed EXCEPT ![n] = Append(@, e)]
    PROVE  FeedsOK'
<1> SUFFICES ASSUME NEW x \in Nodes, NEW i \in 1..Len(feed'[x])
             PROVE  Genuine(feed'[x][i].blk)
  BY DEF FeedsOK, Genuine
<1>1. feed \in [Nodes -> Seq(Entry)]
  BY DEF TypeOK
<1>2. CASE x = n
  <2>1. /\ feed'[n] = Append(feed[n], e) /\ Len(feed'[n]) = Len(feed[n]) + 1
        /\ feed'[n][Len(feed[n]) + 1] = e
        /\ \A j \in 1..Len(feed[n]) : feed'[n][j] = feed[n][j]
    BY <1>1, AppendProperties
  <2>2. i \in 1..Len(feed[n]) \/ i = Len(feed[n]) + 1
    BY <1>1, <1>2, <2>1
  <2>3. CASE i \in 1..Len(feed[n])
    BY <1>2, <2>1, <2>3 DEF FeedsOK
  <2>4. CASE i = Len(feed[n]) + 1
    BY <1>2, <2>1, <2>4
  <2> QED
    BY <2>2, <2>3, <2>4
<1>3. CASE x # n
  <2>1. feed'[x] = feed[x]
    BY <1>1, <1>3
  <2> QED
    BY <2>1 DEF FeedsOK
<1> QED
  BY <1>2, <1>3

(* A stream that ends loses what was on its wires. *)
LEMMA CutPrefix ==
    ASSUME TypeOK, WiresOK, UNCHANGED chain, NEW ls, Cut(ls) PROVE WiresOK'
<1> SUFFICES ASSUME NEW n \in Nodes, NEW m \in Nodes, NEW i \in 1..Len(wire'[n][m])
             PROVE  Genuine(wire'[n][m][i])
  BY DEF WiresOK, Genuine
<1>1. wire'[n][m] \in {<<>>, wire[n][m]}
  BY CutType
<1>2. wire'[n][m] # <<>>
  BY EmptySeq
<1> QED
  BY <1>1, <1>2 DEF WiresOK

LEMMA CommitPrefix ==
    ASSUME TypeOK, PrefixInv, NEW n \in Nodes, Commit(n) PROVE PrefixInv'
<1>1. /\ chain \in [Nodes -> Nat] /\ chain' = [chain EXCEPT ![n] = @ + 1]
      /\ bucket' = [bucket EXCEPT ![n][n] = @ \cup {chain[n] + 1}]
      /\ unpub' = [unpub EXCEPT ![n] = @ \cup {chain[n] + 1}]
      /\ bucket \in [Nodes -> [Nodes -> SUBSET Nat]] /\ unpub \in [Nodes -> SUBSET Nat]
  BY DEF TypeOK, Commit
<1>2. \A a \in Nodes : chain[a] \in Nat /\ chain'[a] \in Nat /\ chain[a] <= chain'[a]
  BY <1>1
<1>3. chain'[n] = chain[n] + 1 /\ bucket'[n][n] = (1..chain[n]) \cup {chain[n] + 1}
  BY <1>1 DEF PrefixInv, OwnOK
<1>4. bucket'[n][n] = 1..chain'[n]
  BY <1>2, <1>3
<1>5. \A x, a \in Nodes : <<x, a>> # <<n, n>> => bucket'[x][a] = bucket[x][a]
  BY <1>1
<1>6. HoldsPrefix'
  <2> SUFFICES ASSUME NEW x \in Nodes, NEW a \in Nodes
               PROVE  \E k \in 0..chain'[a] : bucket'[x][a] = 1..k
    BY DEF HoldsPrefix
  <2>1. CASE <<x, a>> = <<n, n>>
    BY <1>2, <1>4, <2>1
  <2>2. CASE <<x, a>> # <<n, n>>
    <3> PICK k \in 0..chain[a] : bucket[x][a] = 1..k
      BY DEF PrefixInv, HoldsPrefix
    <3>1. k \in 0..chain'[a]
      BY <1>2
    <3> QED
      BY <1>5, <2>2, <3>1
  <2> QED
    BY <2>1, <2>2
<1>7. OwnOK'
  <2> SUFFICES ASSUME NEW a \in Nodes
               PROVE  bucket'[a][a] = 1..chain'[a] /\ unpub'[a] \subseteq 1..chain'[a]
    BY DEF OwnOK
  <2>1. bucket[a][a] = 1..chain[a] /\ unpub[a] \subseteq 1..chain[a]
    BY DEF PrefixInv, OwnOK
  <2>2. CASE a = n
    <3>1. unpub'[a] \subseteq (1..chain[n]) \cup {chain[n] + 1}
      BY <1>1, <2>1, <2>2
    <3> QED
      BY <1>2, <1>3, <1>4, <2>2, <3>1
  <2>3. CASE a # n
    BY <1>1, <1>5, <2>1, <2>3
  <2> QED
    BY <2>2, <2>3
<1> DEFINE GenuineAfter(b) == b.place \in 1..chain'[b.author]
<1>8. \A b \in Block : Genuine(b) => GenuineAfter(b)
  BY <1>2 DEF Genuine, Block
<1>9. FeedsOK'
  <2> SUFFICES ASSUME NEW x \in Nodes, NEW i \in 1..Len(feed[x])
               PROVE  GenuineAfter(feed[x][i].blk)
    BY DEF FeedsOK, Commit, Genuine
  <2>1. feed[x][i] \in Entry
    BY ElementOfSeq DEF TypeOK
  <2> QED
    BY <1>8, <2>1 DEF PrefixInv, FeedsOK, Entry
<1>10. WiresOK'
  <2> SUFFICES ASSUME NEW x \in Nodes, NEW y \in Nodes, NEW i \in 1..Len(wire[x][y])
               PROVE  GenuineAfter(wire[x][y][i])
    BY DEF WiresOK, Commit, streams, Genuine
  <2>1. wire[x][y] \in Seq(Block)
    BY DEF TypeOK
  <2>2. wire[x][y][i] \in Block
    BY <2>1, ElementOfSeq
  <2> QED
    BY <1>8, <2>2 DEF PrefixInv, WiresOK
<1>11. HandsOK'
  <2>1. \A x, y \in Nodes : hand[x][y] # None => hand[x][y] \in Block
    BY DEF TypeOK
  <2>2. hand' = hand
    BY DEF Commit
  <2> HIDE DEF GenuineAfter
  <2>3. \A x, y \in Nodes : hand[x][y] # None => GenuineAfter(hand[x][y])
    BY <1>8, <2>1 DEF PrefixInv, HandsOK
  <2> QED
    BY <2>2, <2>3 DEF HandsOK, Genuine, GenuineAfter
<1> QED
  BY <1>6, <1>7, <1>9, <1>10, <1>11 DEF PrefixInv

(* Steps that leave all chains and copies alone. *)
LEMMA StorePrefix ==
    ASSUME PrefixInv, UNCHANGED <<chain, bucket>>,
           \A a \in Nodes : unpub'[a] \subseteq unpub[a]
    PROVE  HoldsPrefix' /\ OwnOK'
<1>1. HoldsPrefix'
  BY DEF PrefixInv, HoldsPrefix
<1>2. OwnOK'
  BY DEF PrefixInv, OwnOK
<1> QED
  BY <1>1, <1>2

LEMMA PublishOwnPrefix ==
    ASSUME TypeOK, PrefixInv, NEW n \in Nodes, PublishOwn(n) PROVE PrefixInv'
<1> PICK p \in unpub[n] :
      /\ unpub' = [unpub EXCEPT ![n] = @ \ {p}]
      /\ feed' = [feed EXCEPT ![n] =
                    Append(@, [blk |-> [author |-> n, place |-> p], sender |-> n])]
  BY DEF PublishOwn
<1> DEFINE e == [blk |-> [author |-> n, place |-> p], sender |-> n]
<1>1. UNCHANGED <<chain, bucket, wire, hand>>
  BY DEF PublishOwn, streams
<1>2. unpub \in [Nodes -> SUBSET Nat]
  BY DEF TypeOK
<1>3. HoldsPrefix' /\ OwnOK'
  <2>1. \A a \in Nodes : unpub'[a] \subseteq unpub[a]
    BY <1>2
  <2> QED
    BY <1>1, <2>1, StorePrefix
<1>4. p \in 1..chain[n]
  BY DEF PrefixInv, OwnOK
<1>5. e \in Entry /\ Genuine(e.blk)
  BY <1>2, <1>4 DEF Entry, Block, Genuine
<1>6. feed' = [feed EXCEPT ![n] = Append(@, e)]
  OBVIOUS
<1> HIDE DEF e
<1>7. FeedsOK'
  BY <1>1, <1>5, <1>6, FeedGrows DEF PrefixInv
<1>8. WiresOK' /\ HandsOK'
  BY <1>1 DEF PrefixInv, WiresOK, HandsOK, Genuine
<1> QED
  BY <1>3, <1>7, <1>8 DEF PrefixInv

LEMMA SendPrefix ==
    ASSUME TypeOK, PrefixInv, NEW n \in Nodes, NEW m \in Nodes,
           PassOver(n, m) \/ Send(n, m)
    PROVE  PrefixInv'
<1>1. UNCHANGED <<chain, bucket, unpub, feed, hand>>
  BY DEF PassOver, Send, store
<1>2. HoldsPrefix' /\ OwnOK'
  BY <1>1, StorePrefix
<1>3. FeedsOK' /\ HandsOK'
  BY <1>1 DEF PrefixInv, FeedsOK, HandsOK, Genuine
<1>4. WiresOK'
  <2>1. CASE UNCHANGED wire
    BY <1>1, <2>1 DEF PrefixInv, WiresOK, Genuine
  <2>2. CASE Send(n, m) /\ SendAttached(n, m)
    <3> DEFINE b == NextOf(n, m).blk
    <3>1. b \in Block /\ Genuine(b)
      BY <2>2, NextEntry DEF Send, PrefixInv, FeedsOK
    <3>2. wire \in [Nodes -> [Nodes -> Seq(Block)]] /\ wire[n][m] \in Seq(Block)
      BY DEF TypeOK
    <3>3. wire' = [wire EXCEPT ![n][m] = Append(@, b)]
      BY <2>2 DEF SendAttached
    <3> HIDE DEF b
    <3>4. /\ wire'[n][m] = Append(wire[n][m], b)
          /\ \A x, y \in Nodes : <<x, y>> # <<n, m>> => wire'[x][y] = wire[x][y]
      BY <3>2, <3>3
    <3> SUFFICES ASSUME NEW x \in Nodes, NEW y \in Nodes, NEW i \in 1..Len(wire'[x][y])
                 PROVE  Genuine(wire'[x][y][i])
      BY <1>1 DEF WiresOK, Genuine
    <3>5. CASE <<x, y>> # <<n, m>>
      BY <3>4, <3>5 DEF PrefixInv, WiresOK
    <3>6. CASE <<x, y>> = <<n, m>>
      <4> DEFINE s == wire[n][m]
      <4>0. s \in Seq(Block) /\ wire'[n][m] = Append(s, b)
        BY <3>2, <3>4
      <4> HIDE DEF s
      <4>1. /\ Len(wire'[n][m]) = Len(s) + 1
            /\ wire'[n][m][Len(s) + 1] = b
            /\ \A j \in 1..Len(s) : wire'[n][m][j] = s[j]
        BY <3>1, <4>0, AppendProperties
      <4> USE DEF s
      <4>2. i \in 1..Len(wire[n][m]) \/ i = Len(wire[n][m]) + 1
        BY <3>2, <3>6, <4>1
      <4> QED
        BY <3>1, <3>6, <4>1, <4>2 DEF PrefixInv, WiresOK
    <3> QED
      BY <3>5, <3>6
  <2> QED
    BY <2>1, <2>2 DEF PassOver, Send, SendAttached, SendUnread, SendClosed, SendFails, streams
<1> QED
  BY <1>2, <1>3, <1>4 DEF PrefixInv

(* AddBlock: the block that is let in continues the copy, or is in it.      *)
LEMMA ReadPrefix ==
    ASSUME TypeOK, PrefixInv, NEW n \in Nodes, NEW m \in Nodes, Read(m, n)
    PROVE  PrefixInv'
<1> DEFINE b == Head(wire[n][m])
<1>1. b \in Block /\ Genuine(b)
  BY HeadOfWire DEF Read, PrefixInv, WiresOK
<1>2. UNCHANGED <<chain, unpub, feed>>
  BY DEF Read
<1>3. wire' = [wire EXCEPT ![n][m] = Tail(@)]
  BY DEF Read
<1>4. \/ /\ Accepts(m, b)
         /\ bucket' = [bucket EXCEPT ![m][b.author] = @ \cup {b.place}]
         /\ hand' = [hand EXCEPT ![m][n] = b]
      \/ UNCHANGED <<bucket, hand>>
  BY DEF Read
<1>5. WiresOK'
  <2> SUFFICES ASSUME NEW x \in Nodes, NEW y \in Nodes, NEW i \in 1..Len(wire'[x][y])
               PROVE  Genuine(wire'[x][y][i])
    BY <1>2 DEF WiresOK, Genuine
  <2>1. CASE <<x, y>> # <<n, m>>
    <3>1. wire'[x][y] = wire[x][y]
      BY <1>3, <2>1 DEF TypeOK
    <3> QED
      BY <3>1 DEF PrefixInv, WiresOK
  <2>2. CASE <<x, y>> = <<n, m>>
    <3>1. wire'[n][m] = Tail(wire[n][m])
      BY <1>3 DEF TypeOK
    <3>2. /\ wire[n][m] \in Seq(Block)
          /\ Len(wire'[n][m]) = Len(wire[n][m]) - 1
          /\ \A j \in 1..Len(wire'[n][m]) : wire'[n][m][j] = wire[n][m][j + 1]
      <4>1. wire[n][m] # <<>>
        BY DEF Read
      <4>2. /\ wire[n][m] \in Seq(Block)
            /\ Len(Tail(wire[n][m])) = Len(wire[n][m]) - 1
            /\ \A j \in 1..Len(Tail(wire[n][m])) :
                  Tail(wire[n][m])[j] = wire[n][m][j + 1]
        BY <4>1, HeadOfWire
      <4> QED
        BY <3>1, <4>2
    <3>3. i + 1 \in 1..Len(wire[n][m])
      BY <2>2, <3>2
    <3> QED
      BY <2>2, <3>2, <3>3 DEF PrefixInv, WiresOK
  <2> QED
    BY <2>1, <2>2
<1> HIDE DEF b
<1>6. FeedsOK' /\ HandsOK'
  <2>1. FeedsOK'
    BY <1>2 DEF PrefixInv, FeedsOK, Genuine
  <2>2. hand \in [Nodes -> [Nodes -> Block \cup {None}]]
    BY DEF TypeOK
  <2>3. \A x, y \in Nodes : hand'[x][y] \in {hand[x][y], b}
    BY <1>4, <2>2
  <2>4. HandsOK'
    BY <1>1, <1>2, <2>3 DEF PrefixInv, HandsOK, Genuine
  <2> QED
    BY <2>1, <2>4
<1>7. HoldsPrefix' /\ OwnOK'
  <2>1. CASE UNCHANGED bucket
    BY <1>2, <2>1, StorePrefix
  <2>2. CASE /\ Accepts(m, b)
             /\ bucket' = [bucket EXCEPT ![m][b.author] = @ \cup {b.place}]
    <3>1. /\ b.author \in Nodes /\ b.place \in Nat /\ b.place \in 1..chain[b.author]
          /\ bucket \in [Nodes -> [Nodes -> SUBSET Nat]] /\ chain \in [Nodes -> Nat]
      BY <1>1 DEF Block, Genuine, TypeOK
    <3>2. /\ bucket'[m][b.author] = bucket[m][b.author] \cup {b.place}
          /\ \A x, a \in Nodes :
                <<x, a>> # <<m, b.author>> => bucket'[x][a] = bucket[x][a]
      BY <2>2, <3>1
    <3> PICK k \in 0..chain[b.author] : bucket[m][b.author] = 1..k
      BY <3>1 DEF PrefixInv, HoldsPrefix
    <3>3. b.place \in 1..(k + 1)
      <4>1. b.place = 1 \/ b.place - 1 \in 1..k
        BY <2>2 DEF Accepts
      <4> QED
        BY <3>1, <4>1
    <3>4. \E j \in 0..chain[b.author] : bucket'[m][b.author] = 1..j
      <4>1. CASE b.place <= k
        <5>1. bucket'[m][b.author] = 1..k
          BY <3>1, <3>2, <4>1
        <5> QED
          BY <5>1
      <4>2. CASE b.place = k + 1
        <5>1. bucket'[m][b.author] = (1..k) \cup {k + 1} /\ k \in Nat
          BY <3>1, <3>2, <4>2
        <5>2. bucket'[m][b.author] = 1..(k + 1)
          BY <5>1
        <5>3. k + 1 \in 0..chain[b.author]
          BY <3>1, <4>2
        <5> QED
          BY <5>2, <5>3
      <4> QED
        BY <3>1, <3>3, <4>1, <4>2
    <3>5. HoldsPrefix'
      <4> SUFFICES ASSUME NEW x \in Nodes, NEW a \in Nodes
                   PROVE  \E j \in 0..chain[a] : bucket'[x][a] = 1..j
        BY <1>2 DEF HoldsPrefix
      <4>1. CASE x = m /\ a = b.author
        BY <3>4, <4>1
      <4>2. CASE ~(x = m /\ a = b.author)
        <5>1. bucket'[x][a] = bucket[x][a]
          BY <3>2, <4>2
        <5> QED
          BY <5>1 DEF PrefixInv, HoldsPrefix
      <4> QED
        BY <4>1, <4>2
    <3>6. OwnOK'
      <4> SUFFICES ASSUME NEW a \in Nodes
                   PROVE  bucket'[a][a] = 1..chain[a] /\ unpub[a] \subseteq 1..chain[a]
        BY <1>2 DEF OwnOK
      <4>1. bucket[a][a] = 1..chain[a] /\ unpub[a] \subseteq 1..chain[a]
        BY DEF PrefixInv, OwnOK
      <4>2. CASE a = m /\ a = b.author
        <5>1. bucket'[a][a] = bucket[a][a] \cup {b.place} /\ b.place \in 1..chain[a]
          BY <3>1, <3>2, <4>2
        <5> QED
          BY <4>1, <5>1
      <4>3. CASE ~(a = m /\ a = b.author)
        BY <3>2, <4>1, <4>3
      <4> QED
        BY <4>2, <4>3
    <3> QED
      BY <3>5, <3>6
  <2> QED
    BY <1>4, <2>1, <2>2
<1> QED
  BY <1>5, <1>6, <1>7 DEF PrefixInv

LEMMA PublishReadPrefix ==
    ASSUME TypeOK, PrefixInv, NEW n \in Nodes, NEW m \in Nodes, PublishRead(m, n)
    PROVE  PrefixInv'
<1> DEFINE e == [blk |-> hand[m][n], sender |-> n]
<1>1. UNCHANGED <<chain, unpub, bucket, wire>>
  BY DEF PublishRead, store, streams
<1>2. e \in Entry /\ Genuine(e.blk)
  BY DEF TypeOK, PublishRead, Entry, PrefixInv, HandsOK
<1>3. feed' = [feed EXCEPT ![m] = Append(@, e)]
  BY DEF PublishRead
<1> HIDE DEF e
<1>4. FeedsOK'
  BY <1>1, <1>2, <1>3, FeedGrows DEF PrefixInv
<1>5. WiresOK'
  BY <1>1 DEF PrefixInv, WiresOK, Genuine
<1>6. HandsOK'
  <2>1. \A x, y \in Nodes : hand'[x][y] \in {hand[x][y], None}
    BY DEF PublishRead, TypeOK
  <2> QED
    BY <1>1, <2>1 DEF PrefixInv, HandsOK, Genuine
<1>7. HoldsPrefix' /\ OwnOK'
  BY <1>1, StorePrefix
<1> QED
  BY <1>4, <1>5, <1>6, <1>7 DEF PrefixInv

LEMMA ReaderEndsPrefix ==
    ASSUME TypeOK, PrefixInv, NEW n \in Nodes, NEW m \in Nodes,
           PublishReadFails(m, n) \/ ReadEnds(m, n)
    PROVE  PrefixInv'
<1>t. OnlyTakes
  BY ReaderEndsTakes
<1>1. UNCHANGED <<chain, unpub, bucket, feed>>
  BY DEF PublishReadFails, ReadEnds, store
<1>2. \A x, y \in Nodes : /\ hand'[x][y] \in {hand[x][y], None}
                          /\ wire'[x][y] \in {wire[x][y], <<>>}
  BY <1>t DEF OnlyTakes
<1>3. WiresOK'
  <2> SUFFICES ASSUME NEW x \in Nodes, NEW y \in Nodes, NEW i \in 1..Len(wire'[x][y])
               PROVE  Genuine(wire'[x][y][i])
    BY <1>1 DEF WiresOK, Genuine
  <2>1. Len(<<>>) = 0
    OBVIOUS
  <2>2. wire'[x][y] = wire[x][y]
    BY <1>2, <2>1
  <2> QED
    BY <2>2 DEF PrefixInv, WiresOK
<1>4. FeedsOK' /\ HandsOK'
  BY <1>1, <1>2 DEF PrefixInv, FeedsOK, HandsOK, Genuine
<1>5. HoldsPrefix' /\ OwnOK'
  BY <1>1, StorePrefix
<1> QED
  BY <1>3, <1>4, <1>5 DEF PrefixInv

LEMMA StreamPrefix ==
    ASSUME TypeOK, PrefixInv,
           \/ \E n \in Nodes : Dial(n) \/ DialFails(n)
           \/ \E l \in Topology : Drop(l)
           \/ Quiescent \/ UNCHANGED vars
    PROVE  PrefixInv'
<1>1. UNCHANGED <<chain, unpub, bucket, feed, hand>>
  BY DEF Dial, DialFails, Drop, Quiescent, vars, store
<1>2. WiresOK'
  <2>1. CASE UNCHANGED wire
    BY <1>1, <2>1 DEF PrefixInv, WiresOK, Genuine
  <2>2. CASE \E l \in Topology : Drop(l)
    BY <1>1, <2>2, CutPrefix DEF Drop, PrefixInv
  <2> QED
    BY <2>1, <2>2 DEF Dial, DialFails, Quiescent, vars, streams
<1>3. FeedsOK' /\ HandsOK'
  BY <1>1 DEF PrefixInv, FeedsOK, HandsOK, Genuine
<1>4. HoldsPrefix' /\ OwnOK'
  BY <1>1, StorePrefix
<1> QED
  BY <1>2, <1>3, <1>4 DEF PrefixInv

(* A node that starts again publishes its genesis block, if nothing follows. *)
LEMMA RestartPrefix ==
    ASSUME TypeOK, PrefixInv, NEW n \in Nodes, Restart(n) PROVE PrefixInv'
<1>1. UNCHANGED <<chain, bucket>> /\ Cut({{n, m} : m \in Nodes})
  BY DEF Restart
<1>2. WiresOK'
  BY <1>1, CutPrefix DEF PrefixInv
<1>3. HandsOK'
  <2>1. \A x, y \in Nodes : hand'[x][y] \in {hand[x][y], None}
    BY DEF Restart, TypeOK
  <2> QED
    BY <1>1, <2>1 DEF PrefixInv, HandsOK, Genuine
<1>4. FeedsOK'
  <2> DEFINE e == [blk |-> [author |-> n, place |-> 1], sender |-> n]
  <2>1. CASE chain[n] = 1
    <3>1. e \in Entry /\ Genuine(e.blk)
      BY <2>1 DEF Entry, Block, Genuine
    <3>2. feed' = [feed EXCEPT ![n] = Append(@, e)]
      BY <2>1 DEF Restart
    <3> HIDE DEF e
    <3> QED
      BY <1>1, <3>1, <3>2, FeedGrows DEF PrefixInv
  <2>2. CASE chain[n] # 1
    BY <1>1, <2>2 DEF Restart, PrefixInv, FeedsOK, Genuine
  <2> QED
    BY <2>1, <2>2
<1>5. HoldsPrefix' /\ OwnOK'
  <2>1. \A a \in Nodes : unpub'[a] \subseteq unpub[a]
    BY DEF Restart, TypeOK
  <2> QED
    BY <1>1, <2>1, StorePrefix
<1> QED
  BY <1>2, <1>3, <1>4, <1>5 DEF PrefixInv

LEMMA NextPrefix == TypeOK /\ PrefixInv /\ [Next]_vars => PrefixInv'
<1> SUFFICES ASSUME TypeOK, PrefixInv, [Next]_vars PROVE PrefixInv'
  OBVIOUS
<1>1. CASE \E n \in Nodes : Commit(n) \/ PublishOwn(n) \/ Restart(n)
  BY <1>1, CommitPrefix, PublishOwnPrefix, RestartPrefix
<1>2. CASE \E n, m \in Nodes :
             \/ PassOver(n, m) \/ Send(n, m)
             \/ Read(m, n) \/ PublishRead(m, n) \/ PublishReadFails(m, n) \/ ReadEnds(m, n)
  BY <1>2, SendPrefix, ReadPrefix, PublishReadPrefix, ReaderEndsPrefix
<1>3. CASE \/ \E n \in Nodes : Dial(n) \/ DialFails(n)
           \/ \E l \in Topology : Drop(l)
           \/ Quiescent \/ UNCHANGED vars
  BY <1>3, StreamPrefix
<1> QED
  BY <1>1, <1>2, <1>3 DEF Next

(* What a node has stored of an author's chain is a prefix of the chain, in *)
(* every network of peers, whatever is lost, repeated or overtaken on the   *)
(* way and however often nodes stop: the check of AddBlock is enough.       *)
THEOREM CopiesArePrefixes == Spec => []HoldsPrefix
<1>1. PrefixInv => HoldsPrefix
  BY DEF PrefixInv
<1> QED
  BY InitSyncType, NextSyncType, InitPrefix, NextPrefix, <1>1, PTL DEF Spec

-----------------------------------------------------------------------------
(* While streams hold, nothing is refused                                  *)

Steady == InOrder /\ MaxDrops = 0 /\ MaxRestarts = 0

(* A block n writes to m is under way, stored and in hand, or published.   *)
On(n, b)      == \E i \in 1..Len(feed[n]) : feed[n][i].blk = b
Held(m, n, b) == hand[m][n] # None /\ hand[m][n] = b
Came(n, m, b) ==
    \/ On(m, b) \/ Held(m, n, b)
    \/ \E i \in 1..Len(wire[n][m]) : wire[n][m][i] = b

Previous(b) == [author |-> b.author, place |-> b.place - 1]

OwnSteady == \A n \in Nodes : \A p \in 1..chain[n] :
    p \in unpub[n] \/ On(n, [author |-> n, place |-> p])

(* Each block comes after its predecessor: on a feed,                      *)
EntrySteady(n, i) ==
    /\ On(feed[n][i].blk.author, feed[n][i].blk) /\ On(feed[n][i].sender, feed[n][i].blk)
    /\ feed[n][i].blk.place \in bucket[n][feed[n][i].blk.author]
    /\ feed[n][i].blk.place > 1 => \E j \in 1..(i - 1) : feed[n][j].blk = Previous(feed[n][i].blk)

(* on a wire, where the predecessor may have arrived already,              *)
BlockSteady(n, m, i) ==
    /\ On(n, wire[n][m][i])
    /\ wire[n][m][i].place > 1 =>
          \/ On(m, Previous(wire[n][m][i])) \/ Held(m, n, Previous(wire[n][m][i]))
          \/ \E j \in 1..(i - 1) : wire[n][m][j] = Previous(wire[n][m][i])

(* and in the hands of a reader.                                           *)
HandSteady(m, n) == hand[m][n] # None =>
    /\ On(n, hand[m][n]) /\ hand[m][n].place \in bucket[m][hand[m][n].author]
    /\ hand[m][n].place > 1 => On(m, Previous(hand[m][n]))

(* What a writer is past, or has registered, has come to the peer.         *)
SentSteady(n, m) ==
    /\ \A i \in 1..pos[n][m] : i \in 1..Len(feed[n]) /\ Came(n, m, feed[n][i].blk)
    /\ \A r \in msgCMS[n] : r[2] = m => Came(n, m, r[1])
    /\ writer[n][m] \in {"none", "attached"}

FeedsSteady == \A n \in Nodes : \A i \in 1..Len(feed[n]) : EntrySteady(n, i)
WiresSteady == \A n, m \in Nodes : \A i \in 1..Len(wire[n][m]) : BlockSteady(n, m, i)
HandsSteady == \A n, m \in Nodes : HandSteady(m, n)
AllSent     == \A n, m \in Nodes : SentSteady(n, m)

OrderInv == OwnSteady /\ FeedsSteady /\ WiresSteady /\ HandsSteady /\ AllSent

LEMMA InitOrder == Init => OrderInv
<1> SUFFICES ASSUME Init PROVE OrderInv
  OBVIOUS
<1>1. \A n, m \in Nodes : /\ feed[n] = <<>> /\ wire[n][m] = <<>> /\ hand[n][m] = None
                          /\ chain[n] = 0 /\ pos[n][m] = 0 /\ msgCMS[n] = {}
                          /\ writer[n][m] = "none"
  BY DEF Init
<1>2. Len(<<>>) = 0 /\ 1..0 = {}
  BY EmptySeq
<1> QED
  BY <1>1, <1>2 DEF OrderInv, OwnSteady, FeedsSteady, WiresSteady, HandsSteady, HandSteady,
     AllSent, SentSteady

LEMMA Blocks ==
    ASSUME TypeOK, NEW n \in Nodes
    PROVE  /\ feed[n] \in Seq(Entry) /\ Len(feed[n]) \in Nat
           /\ \A i \in 1..Len(feed[n]) :
                 /\ feed[n][i] \in Entry /\ feed[n][i].blk \in Block
                 /\ feed[n][i].sender \in Nodes
                 /\ feed[n][i].blk.author \in Nodes /\ feed[n][i].blk.place \in Nat
           /\ \A m \in Nodes :
                 /\ wire[n][m] \in Seq(Block) /\ Len(wire[n][m]) \in Nat
                 /\ \A i \in 1..Len(wire[n][m]) :
                       /\ wire[n][m][i] \in Block
                       /\ wire[n][m][i].author \in Nodes /\ wire[n][m][i].place \in Nat
                 /\ pos[n][m] \in Nat /\ chain[n] \in Nat
                 /\ hand[m][n] # None => /\ hand[m][n] \in Block
                                         /\ hand[m][n].author \in Nodes
                                         /\ hand[m][n].place \in Nat
<1>1. \A b \in Block : b.author \in Nodes /\ b.place \in Nat
  BY DEF Block
<1>2. \A e \in Entry : e.blk \in Block /\ e.sender \in Nodes
  BY DEF Entry
<1>3. feed[n] \in Seq(Entry) /\ Len(feed[n]) \in Nat
  BY DEF TypeOK
<1>4. \A i \in 1..Len(feed[n]) : feed[n][i] \in Entry
  BY <1>3, ElementOfSeq
<1>5. ASSUME NEW m \in Nodes
      PROVE  /\ wire[n][m] \in Seq(Block) /\ Len(wire[n][m]) \in Nat
             /\ \A i \in 1..Len(wire[n][m]) : wire[n][m][i] \in Block
             /\ pos[n][m] \in Nat /\ chain[n] \in Nat
             /\ hand[m][n] # None => hand[m][n] \in Block
  <2>1. wire[n][m] \in Seq(Block)
    BY DEF TypeOK
  <2>2. Len(wire[n][m]) \in Nat /\ \A i \in 1..Len(wire[n][m]) : wire[n][m][i] \in Block
    BY <2>1, ElementOfSeq
  <2>3. pos[n][m] \in Nat /\ chain[n] \in Nat /\ (hand[m][n] # None => hand[m][n] \in Block)
    BY DEF TypeOK
  <2> QED
    BY <2>1, <2>2, <2>3
<1> QED
  BY <1>1, <1>2, <1>3, <1>4, <1>5

(* So the reader has stored the predecessor of what it reads next.         *)
LEMMA HeadFits ==
    ASSUME TypeOK, PrefixInv, OrderInv
    PROVE  NothingRejected
<1> SUFFICES ASSUME NEW n \in Nodes, NEW m \in Nodes, wire[n][m] # <<>>
             PROVE  Accepts(m, Head(wire[n][m]))
  BY DEF NothingRejected
<1>b. PICK b : b = Head(wire[n][m])
  OBVIOUS
<1>1. /\ 1 \in 1..Len(wire[n][m]) /\ b = wire[n][m][1] /\ b \in Block
  BY <1>b, HeadOfWire
<1>2. b.place \in Nat /\ b.place >= 1 /\ b.author \in Nodes
  <2>1. b.place \in 1..chain[b.author]
    BY <1>1 DEF PrefixInv, WiresOK, Genuine
  <2>2. b.author \in Nodes /\ b.place \in Nat
    BY <1>1 DEF Block
  <2>3. chain[b.author] \in Nat
    BY <2>2 DEF TypeOK
  <2> QED
    BY <2>1, <2>2, <2>3
<1>3. CASE b.place > 1
  <2>q. PICK q : q = Previous(b)
    OBVIOUS
  <2>1. q.author = b.author /\ q.place = b.place - 1
    BY <2>q DEF Previous
  <2>2. On(m, q) \/ Held(m, n, q) \/ \E j \in 1..(1 - 1) : wire[n][m][j] = q
    BY <1>1, <1>3, <2>q DEF OrderInv, WiresSteady, BlockSteady
  <2>3. On(m, q) => q.place \in bucket[m][q.author]
    BY DEF On, OrderInv, FeedsSteady, EntrySteady
  <2>4. Held(m, n, q) => q.place \in bucket[m][q.author]
    BY DEF Held, OrderInv, HandsSteady, HandSteady
  <2> QED
    BY <1>b, <2>1, <2>2, <2>3, <2>4 DEF Accepts
<1> QED
  BY <1>b, <1>2, <1>3 DEF Accepts

(* What no step takes back.                                                *)
Kept ==
    /\ \A n \in Nodes : \A b : On(n, b) => On(n, b)'
    /\ \A n, m \in Nodes : \A b : Held(m, n, b) => Held(m, n, b)' \/ On(m, b)'
    /\ \A n, a \in Nodes : bucket[n][a] \subseteq bucket'[n][a]
    /\ \A n \in Nodes : /\ Len(feed[n]) <= Len(feed'[n]) /\ Len(feed'[n]) \in Nat
                         /\ \A i \in 1..Len(feed[n]) : feed'[n][i] = feed[n][i]

CameKept == \A n, m \in Nodes : \A b : Came(n, m, b) => Came(n, m, b)'

LEMMA EntryKept ==
    ASSUME TypeOK, Kept, NEW n \in Nodes, NEW i \in 1..Len(feed[n]), EntrySteady(n, i)
    PROVE  EntrySteady(n, i)'
<1>1. feed'[n][i] = feed[n][i] /\ i \in Nat /\ Len(feed[n]) \in Nat
  BY Blocks DEF Kept
<1>2. /\ feed[n][i].blk.author \in Nodes /\ feed[n][i].sender \in Nodes
  BY Blocks
<1>3. On(feed[n][i].blk.author, feed[n][i].blk)' /\ On(feed[n][i].sender, feed[n][i].blk)'
  <2>a. PICK a : a = feed[n][i].blk.author
    OBVIOUS
  <2>s. PICK s : s = feed[n][i].sender
    OBVIOUS
  <2>b. PICK b : b = feed[n][i].blk
    OBVIOUS
  <2>1. On(a, b)' /\ On(s, b)'
    BY <1>2, <2>a, <2>s, <2>b DEF Kept, EntrySteady
  <2> QED
    BY <1>1, <2>1, <2>a, <2>s, <2>b DEF On
<1>4. \A j \in 1..(i - 1) : feed'[n][j] = feed[n][j]
  <2>1. \A j \in 1..(i - 1) : j \in 1..Len(feed[n])
    BY <1>1
  <2> QED
    BY <2>1 DEF Kept
<1> QED
  BY <1>1, <1>2, <1>3, <1>4 DEF EntrySteady, Kept, Previous

LEMMA FeedsStay ==
    ASSUME TypeOK, OrderInv, Kept, UNCHANGED feed
    PROVE  FeedsSteady'
BY EntryKept DEF OrderInv, FeedsSteady

LEMMA WiresStay ==
    ASSUME TypeOK, OrderInv, Kept, UNCHANGED wire
    PROVE  WiresSteady' /\ CameKept
<1>1. WiresSteady'
  <2> SUFFICES ASSUME NEW n \in Nodes, NEW m \in Nodes, NEW i \in 1..Len(wire[n][m])
               PROVE  BlockSteady(n, m, i)'
    BY DEF WiresSteady
  <2>b. PICK b : b = wire[n][m][i]
    OBVIOUS
  <2>q. PICK q : q = Previous(b)
    OBVIOUS
  <2>1. /\ On(n, b)
        /\ b.place > 1 => On(m, q) \/ Held(m, n, q) \/ \E j \in 1..(i - 1) : wire[n][m][j] = q
    BY <2>b, <2>q DEF OrderInv, WiresSteady, BlockSteady
  <2>2. /\ On(n, b)'
        /\ b.place > 1 => On(m, q)' \/ Held(m, n, q)' \/ \E j \in 1..(i - 1) : wire[n][m][j] = q
    BY <2>1 DEF Kept
  <2>3. wire'[n][m][i] = b /\ Previous(b) = q
    BY <2>b, <2>q
  <2> QED
    BY <2>2, <2>3 DEF BlockSteady, On, Held, Previous
<1>2. CameKept
  BY DEF CameKept, Came, Kept
<1> QED
  BY <1>1, <1>2

LEMMA HandStays ==
    ASSUME OrderInv, Kept, NEW n \in Nodes, NEW m \in Nodes, TypeOK,
           hand'[m][n] # None => hand'[m][n] = hand[m][n]
    PROVE  HandSteady(m, n)'
<1> SUFFICES ASSUME hand'[m][n] # None PROVE HandSteady(m, n)'
  BY DEF HandSteady
<1>b. PICK b : b = hand[m][n]
  OBVIOUS
<1>q. PICK q : q = Previous(b)
  OBVIOUS
<1>1. hand[m][n] # None /\ hand'[m][n] = b
  BY <1>b
<1>2. /\ On(n, b) /\ b.place \in bucket[m][b.author]
      /\ b.place > 1 => On(m, q)
  BY <1>1, <1>b, <1>q DEF OrderInv, HandsSteady, HandSteady
<1>3. b.author \in Nodes
  BY <1>1, <1>b, Blocks
<1>4. /\ On(n, b)' /\ b.place \in bucket'[m][b.author]
      /\ b.place > 1 => On(m, q)'
  BY <1>2, <1>3 DEF Kept
<1> QED
  BY <1>1, <1>4, <1>q DEF HandSteady, On, Previous

LEMMA SentStays ==
    ASSUME OrderInv, Kept, CameKept, NEW n \in Nodes, NEW m \in Nodes, TypeOK,
           pos'[n][m] = pos[n][m],
           \A r \in msgCMS'[n] : r[2] = m => r \in msgCMS[n],
           writer'[n][m] \in {"none", "attached"}
    PROVE  SentSteady(n, m)'
<1>1. SentSteady(n, m)
  BY DEF OrderInv, AllSent
<1>2. ASSUME NEW i \in 1..pos'[n][m]
      PROVE  i \in 1..Len(feed'[n]) /\ Came(n, m, feed[n][i].blk)' /\ feed'[n][i] = feed[n][i]
  <2>1. i \in 1..Len(feed[n]) /\ Came(n, m, feed[n][i].blk)
    BY <1>1 DEF SentSteady
  <2>2. feed'[n][i] = feed[n][i] /\ i \in 1..Len(feed'[n])
    BY <2>1, Blocks DEF Kept
  <2>b. PICK b : b = feed[n][i].blk
    OBVIOUS
  <2>3. Came(n, m, b)'
    BY <2>1, <2>b DEF CameKept
  <2> QED
    BY <2>2, <2>3, <2>b DEF Came, On, Held
<1>3. ASSUME NEW r \in msgCMS'[n], r[2] = m
      PROVE  Came(n, m, r[1])'
  BY <1>1, <1>3 DEF SentSteady, CameKept
<1>4. \A i \in 1..pos'[n][m] : i \in 1..Len(feed'[n]) /\ Came(n, m, feed[n][i].blk)'
  BY <1>2
<1> QED
  BY <1>2, <1>3 DEF SentSteady, Came, On, Held

LEMMA CommitOrder ==
    ASSUME TypeOK, OrderInv, NEW n \in Nodes, Commit(n)
    PROVE  OrderInv'
<1>1. /\ chain' = [chain EXCEPT ![n] = @ + 1]
      /\ bucket' = [bucket EXCEPT ![n][n] = @ \cup {chain[n] + 1}]
      /\ unpub' = [unpub EXCEPT ![n] = @ \cup {chain[n] + 1}]
      /\ UNCHANGED <<feed, wire, hand, writer, pos, msgCMS>>
      /\ chain \in [Nodes -> Nat] /\ bucket \in [Nodes -> [Nodes -> SUBSET Nat]]
      /\ unpub \in [Nodes -> SUBSET Nat]
  BY DEF Commit, streams, writers, TypeOK
<1>2. \A x \in Nodes : \A b : On(x, b)' <=> On(x, b)
  BY <1>1 DEF On
<1>3. Kept
  <2>1. \A x, a \in Nodes : bucket[x][a] \subseteq bucket'[x][a]
    BY <1>1
  <2>2. \A x \in Nodes : Len(feed[x]) \in Nat
    BY Blocks
  <2> QED
    BY <1>1, <1>2, <2>1, <2>2 DEF Kept, Held
<1>4. OwnSteady'
  <2> SUFFICES ASSUME NEW x \in Nodes, NEW p \in 1..chain'[x]
               PROVE  p \in unpub'[x] \/ On(x, [author |-> x, place |-> p])
    BY <1>2 DEF OwnSteady
  <2>1. chain[x] \in Nat /\ unpub[x] \subseteq unpub'[x]
    BY <1>1
  <2>2. p \in 1..chain[x] \/ (x = n /\ p = chain[n] + 1)
    BY <1>1, <2>1
  <2>3. CASE p \in 1..chain[x]
    BY <2>1, <2>3 DEF OrderInv, OwnSteady
  <2>4. CASE x = n /\ p = chain[n] + 1
    BY <1>1, <2>4
  <2> QED
    BY <2>2, <2>3, <2>4
<1>5. FeedsSteady' /\ WiresSteady' /\ CameKept
  BY <1>1, <1>3, FeedsStay, WiresStay
<1>6. HandsSteady'
  BY <1>1, <1>3, HandStays DEF HandsSteady
<1>7. AllSent'
  <2>1. \A x, y \in Nodes : writer'[x][y] \in {"none", "attached"}
    BY <1>1 DEF OrderInv, AllSent, SentSteady
  <2> QED
    BY <1>1, <1>3, <1>5, <2>1, SentStays DEF AllSent
<1> QED
  BY <1>4, <1>5, <1>6, <1>7 DEF OrderInv

(* A feed grows by one block.                                              *)
LEMMA FeedAppended ==
    ASSUME TypeOK, NEW n \in Nodes, NEW e \in Entry,
           feed' = [feed EXCEPT ![n] = Append(@, e)]
    PROVE  /\ Len(feed[n]) \in Nat /\ Len(feed'[n]) = Len(feed[n]) + 1
           /\ feed'[n][Len(feed[n]) + 1] = e
           /\ \A x \in Nodes : /\ Len(feed[x]) <= Len(feed'[x]) /\ Len(feed'[x]) \in Nat
                                /\ \A i \in 1..Len(feed[x]) : feed'[x][i] = feed[x][i]
           /\ \A x \in Nodes : x # n => feed'[x] = feed[x]
           /\ \A x \in Nodes : \A b : On(x, b) => On(x, b)'
           /\ On(n, e.blk)'
<1>1. feed \in [Nodes -> Seq(Entry)]
  BY DEF TypeOK
<1>2. feed'[n] = Append(feed[n], e) /\ \A x \in Nodes : x # n => feed'[x] = feed[x]
  BY <1>1
<1>3. \A x \in Nodes : Len(feed[x]) \in Nat
  BY Blocks
<1>4. /\ Len(feed'[n]) = Len(feed[n]) + 1 /\ feed'[n][Len(feed[n]) + 1] = e
      /\ \A i \in 1..Len(feed[n]) : feed'[n][i] = feed[n][i]
  BY <1>1, <1>2, AppendProperties
<1>5. \A x \in Nodes : /\ Len(feed[x]) <= Len(feed'[x]) /\ Len(feed'[x]) \in Nat
                       /\ \A i \in 1..Len(feed[x]) : feed'[x][i] = feed[x][i]
  BY <1>2, <1>3, <1>4
<1>6. ASSUME NEW x \in Nodes, NEW b, On(x, b) PROVE On(x, b)'
  <2>1. PICK i \in 1..Len(feed[x]) : feed[x][i].blk = b
    BY <1>6 DEF On
  <2>2. i \in 1..Len(feed'[x]) /\ feed'[x][i].blk = b
    BY <1>3, <1>5, <2>1
  <2> QED
    BY <2>2 DEF On
<1>7. On(n, e.blk)'
  <2>1. Len(feed[n]) + 1 \in 1..Len(feed'[n])
    BY <1>3, <1>4
  <2> QED
    BY <1>4, <2>1 DEF On
<1> QED
  BY <1>2, <1>3, <1>4, <1>5, <1>6, <1>7

(* It must come after its predecessor, and its author and sender have it.  *)
LEMMA FeedsSteadyAfter ==
    ASSUME TypeOK, OrderInv, Kept, NEW n \in Nodes, NEW e \in Entry,
           feed' = [feed EXCEPT ![n] = Append(@, e)], UNCHANGED bucket,
           On(e.blk.author, e.blk)', On(e.sender, e.blk)',
           e.blk.place \in bucket[n][e.blk.author],
           e.blk.place > 1 => On(n, Previous(e.blk))
    PROVE  FeedsSteady'
<1> SUFFICES ASSUME NEW x \in Nodes, NEW i \in 1..Len(feed'[x])
             PROVE  EntrySteady(x, i)'
  BY DEF FeedsSteady
<1>1. /\ Len(feed[n]) \in Nat /\ Len(feed'[n]) = Len(feed[n]) + 1
      /\ feed'[n][Len(feed[n]) + 1] = e
      /\ \A j \in 1..Len(feed[n]) : feed'[n][j] = feed[n][j]
      /\ \A y \in Nodes : y # n => feed'[y] = feed[y]
  BY FeedAppended
<1>2. CASE i \in 1..Len(feed[x])
  BY <1>2, EntryKept DEF OrderInv, FeedsSteady
<1>3. CASE x = n /\ i = Len(feed[n]) + 1
  <2>1. feed'[n][i] = e
    BY <1>1, <1>3
  <2>2. e.blk.place > 1 => \E j \in 1..(i - 1) : feed'[n][j].blk = Previous(e.blk)
    <3>1. i - 1 = Len(feed[n])
      BY <1>1, <1>3
    <3> QED
      BY <1>1, <3>1 DEF On
  <2> QED
    BY <1>3, <2>1, <2>2 DEF EntrySteady, On, Previous
<1>4. i \in 1..Len(feed[x]) \/ (x = n /\ i = Len(feed[n]) + 1)
  BY <1>1
<1> QED
  BY <1>2, <1>3, <1>4

LEMMA PublishOwnOrder ==
    ASSUME TypeOK, PrefixInv, OrderInv, Steady, NEW n \in Nodes, PublishOwn(n)
    PROVE  OrderInv'
<1>1. PICK p \in unpub[n] :
          /\ InOrder => \A q \in unpub[n] : p <= q
          /\ unpub' = [unpub EXCEPT ![n] = @ \ {p}]
          /\ feed' = [feed EXCEPT ![n] =
                        Append(@, [blk |-> [author |-> n, place |-> p], sender |-> n])]
  BY DEF PublishOwn
<1>2. UNCHANGED <<chain, bucket, wire, hand, writer, pos, msgCMS>>
  BY DEF PublishOwn, streams, writers
<1>b. PICK b : b = [author |-> n, place |-> p]
  OBVIOUS
<1>e. PICK e : e = [blk |-> b, sender |-> n]
  OBVIOUS
<1>3. /\ p \in Nat /\ p \in 1..chain[n] /\ p \in bucket[n][n]
      /\ unpub \in [Nodes -> SUBSET Nat] /\ chain[n] \in Nat
  BY DEF PrefixInv, OwnOK, TypeOK
<1>4. /\ e \in Entry /\ e.blk = b /\ e.sender = n /\ b.author = n /\ b.place = p
      /\ feed' = [feed EXCEPT ![n] = Append(@, e)]
  BY <1>1, <1>3, <1>b, <1>e DEF Entry, Block
<1>5. Kept
  BY <1>2, <1>4, FeedAppended DEF Kept, Held
<1>6. OwnSteady'
  <2> SUFFICES ASSUME NEW x \in Nodes, NEW q \in 1..chain[x]
               PROVE  q \in unpub'[x] \/ On(x, [author |-> x, place |-> q])'
    BY <1>2 DEF OwnSteady, On
  <2>1. CASE x = n /\ q = p
    <3>1. On(n, b)'
      BY <1>4, FeedAppended
    <3>2. [author |-> x, place |-> q] = b
      BY <1>b, <2>1
    <3> QED
      BY <2>1, <3>1, <3>2 DEF On
  <2>2. CASE ~(x = n /\ q = p)
    <3>1. q \in unpub[x] \/ On(x, [author |-> x, place |-> q])
      BY DEF OrderInv, OwnSteady
    <3>2. q \in unpub[x] => q \in unpub'[x]
      BY <1>1, <1>3, <2>2
    <3>3. On(x, [author |-> x, place |-> q]) => On(x, [author |-> x, place |-> q])'
      BY <1>4, FeedAppended
    <3> QED
      BY <3>1, <3>2, <3>3
  <2> QED
    BY <2>1, <2>2
<1>7. p > 1 => On(n, Previous(b))
  <2> SUFFICES ASSUME p > 1 PROVE On(n, Previous(b))
    OBVIOUS
  <2>1. p - 1 \in 1..chain[n] /\ p - 1 \notin unpub[n]
    BY <1>1, <1>3 DEF Steady
  <2>2. On(n, [author |-> n, place |-> p - 1])
    BY <2>1 DEF OrderInv, OwnSteady
  <2> QED
    BY <1>4, <2>2 DEF Previous
<1>8. FeedsSteady'
  <2>1. On(n, b)'
    BY <1>4, FeedAppended
  <2>2. On(e.blk.author, e.blk)' /\ On(e.sender, e.blk)'
    BY <1>4, <2>1
  <2> QED
    BY <1>2, <1>3, <1>4, <1>5, <1>7, <2>2, FeedsSteadyAfter
<1>9. WiresSteady' /\ CameKept
  BY <1>2, <1>5, WiresStay
<1>10. HandsSteady'
  BY <1>2, <1>5, HandStays DEF HandsSteady
<1>11. AllSent'
  <2>1. \A x, y \in Nodes : writer'[x][y] \in {"none", "attached"}
    BY <1>2 DEF OrderInv, AllSent, SentSteady
  <2> QED
    BY <1>2, <1>5, <1>9, <2>1, SentStays DEF AllSent
<1> QED
  BY <1>6, <1>8, <1>9, <1>10, <1>11 DEF OrderInv

(* A reader publishes what it has in hand: a block its sender had on its    *)
(* feed, as the author has.                                                *)
LEMMA PublishReadOrder ==
    ASSUME TypeOK, OrderInv, NEW n \in Nodes, NEW m \in Nodes, PublishRead(m, n)
    PROVE  OrderInv'
<1>b. PICK b : b = hand[m][n]
  OBVIOUS
<1>e. PICK e : e = [blk |-> b, sender |-> n]
  OBVIOUS
<1>1. /\ b # None /\ b \in Block /\ b.author \in Nodes
      /\ feed' = [feed EXCEPT ![m] = Append(@, e)]
      /\ hand' = [hand EXCEPT ![m][n] = None]
      /\ UNCHANGED <<chain, unpub, bucket, wire, writer, pos, msgCMS>>
  BY <1>b, <1>e, Blocks DEF PublishRead, store, streams, writers
<1>2. e \in Entry /\ e.blk = b /\ e.sender = n
  BY <1>1, <1>e DEF Entry
<1>3. On(m, b)' /\ \A x \in Nodes : \A c : On(x, c) => On(x, c)'
  BY <1>1, <1>2, FeedAppended
<1>4. \A x, y \in Nodes : ~(x = m /\ y = n) => hand'[x][y] = hand[x][y]
  BY <1>1 DEF TypeOK
<1>5. hand'[m][n] = None
  BY <1>1 DEF TypeOK
<1>6. ASSUME NEW x \in Nodes, NEW y \in Nodes, NEW c, Held(y, x, c)
      PROVE  Held(y, x, c)' \/ On(y, c)'
  <2>1. CASE y = m /\ x = n
    <3>1. c = b
      BY <1>6, <1>b, <2>1 DEF Held
    <3> QED
      BY <1>3, <2>1, <3>1
  <2>2. CASE ~(y = m /\ x = n)
    BY <1>4, <1>6, <2>2 DEF Held
  <2> QED
    BY <2>1, <2>2
<1>7. Kept
  BY <1>1, <1>2, <1>3, <1>6, FeedAppended DEF Kept
<1>8. /\ On(n, b) /\ b.place \in bucket[m][b.author]
      /\ b.place > 1 => On(m, Previous(b))
  BY <1>1, <1>b DEF OrderInv, HandsSteady, HandSteady
<1>9. FeedsSteady'
  <2>1. PICK i \in 1..Len(feed[n]) : feed[n][i].blk = b
    BY <1>8 DEF On
  <2>2. On(b.author, b)
    BY <2>1 DEF OrderInv, FeedsSteady, EntrySteady
  <2>3. On(b.author, b)' /\ On(n, b)'
    BY <1>1, <1>3, <1>8, <2>2
  <2>4. On(e.blk.author, e.blk)' /\ On(e.sender, e.blk)'
    BY <1>2, <2>3
  <2> QED
    BY <1>1, <1>2, <1>7, <1>8, <2>4, FeedsSteadyAfter
<1>10. WiresSteady' /\ CameKept
  BY <1>1, <1>7, WiresStay
<1>11. HandsSteady'
  BY <1>4, <1>5, <1>7, HandStays DEF HandsSteady
<1>12. AllSent'
  <2>1. \A x, y \in Nodes : writer'[x][y] \in {"none", "attached"}
    BY <1>1 DEF OrderInv, AllSent, SentSteady
  <2> QED
    BY <1>1, <1>7, <1>10, <2>1, SentStays DEF AllSent
<1>13. OwnSteady'
  BY <1>1, <1>3 DEF OrderInv, OwnSteady
<1> QED
  BY <1>9, <1>10, <1>11, <1>12, <1>13 DEF OrderInv

(* A block is stored as it is read: its predecessor is on the reader's feed, *)
(* since the reader has nothing in hand.                                   *)
LEMMA ReadOrder ==
    ASSUME TypeOK, PrefixInv, OrderInv, NEW n \in Nodes, NEW m \in Nodes, Read(m, n)
    PROVE  OrderInv'
<1>b. PICK b : b = Head(wire[n][m])
  OBVIOUS
<1>w. PICK w : w = wire[n][m]
  OBVIOUS
<1>1. /\ w # <<>> /\ hand[m][n] = None /\ Accepts(m, b)
  BY <1>b, <1>w, HeadFits DEF Read, NothingRejected
<1>2. /\ bucket' = [bucket EXCEPT ![m][b.author] = @ \cup {b.place}]
      /\ hand' = [hand EXCEPT ![m][n] = b]
      /\ wire' = [wire EXCEPT ![n][m] = Tail(@)]
      /\ UNCHANGED <<chain, unpub, feed, writer, pos, msgCMS>>
  BY <1>1, <1>b DEF Read, writers
<1>3. /\ b \in Block /\ b = w[1] /\ 1 \in 1..Len(w) /\ Len(w) \in Nat
      /\ Len(Tail(w)) = Len(w) - 1
      /\ \A i \in 1..Len(Tail(w)) : Tail(w)[i] = w[i + 1]
  BY <1>1, <1>b, <1>w, HeadOfWire, Blocks
<1>4. b.author \in Nodes /\ b.place \in Nat /\ b # None
  BY <1>3, NoBlockAssumption DEF Block
<1>5. /\ wire \in [Nodes -> [Nodes -> Seq(Block)]]
      /\ hand \in [Nodes -> [Nodes -> Block \cup {None}]]
      /\ bucket \in [Nodes -> [Nodes -> SUBSET Nat]]
  BY DEF TypeOK
<1>6. /\ wire'[n][m] = Tail(w)
      /\ \A x, y \in Nodes : ~(x = n /\ y = m) => wire'[x][y] = wire[x][y]
      /\ hand'[m][n] = b
      /\ \A x, y \in Nodes : ~(x = m /\ y = n) => hand'[x][y] = hand[x][y]
      /\ b.place \in bucket'[m][b.author]
      /\ \A x, a \in Nodes : bucket[x][a] \subseteq bucket'[x][a]
  BY <1>2, <1>4, <1>5, <1>w
<1>7. \A x \in Nodes : \A c : On(x, c)' <=> On(x, c)
  BY <1>2 DEF On
<1>8. ASSUME NEW x \in Nodes, NEW y \in Nodes, NEW c, Held(y, x, c)
      PROVE  Held(y, x, c)'
  <2>1. ~(y = m /\ x = n)
    BY <1>1, <1>8 DEF Held
  <2> QED
    BY <1>6, <1>8, <2>1 DEF Held
<1>9. Kept
  <2>1. \A x \in Nodes : Len(feed[x]) \in Nat
    BY Blocks
  <2> QED
    BY <1>2, <1>6, <1>7, <1>8, <2>1 DEF Kept
<1>10. Held(m, n, b)'
  BY <1>4, <1>6 DEF Held
<1>11. CameKept
  <2> SUFFICES ASSUME NEW x \in Nodes, NEW y \in Nodes, NEW c, Came(x, y, c)
               PROVE  Came(x, y, c)'
    BY DEF CameKept
  <2>1. CASE On(y, c) \/ Held(y, x, c)
    BY <1>7, <1>8, <2>1 DEF Came
  <2>2. CASE \E i \in 1..Len(wire[x][y]) : wire[x][y][i] = c
    <3>1. PICK i \in 1..Len(wire[x][y]) : wire[x][y][i] = c
      BY <2>2
    <3>2. CASE ~(x = n /\ y = m)
      BY <1>6, <2>2, <3>2 DEF Came
    <3>3. CASE x = n /\ y = m /\ i = 1
      BY <1>3, <1>10, <1>w, <3>1, <3>3 DEF Came
    <3>4. CASE x = n /\ y = m /\ i # 1
      <4>1. i \in 1..Len(w) /\ w[i] = c
        BY <1>w, <3>1, <3>4
      <4>2. i \in Nat /\ (i - 1) + 1 = i /\ i - 1 \in 1..Len(Tail(w))
        BY <1>3, <3>4, <4>1
      <4>3. Tail(w)[i - 1] = w[(i - 1) + 1]
        BY <1>3, <4>2
      <4> QED
        BY <1>6, <3>4, <4>1, <4>2, <4>3 DEF Came
    <3> QED
      BY <3>2, <3>3, <3>4
  <2> QED
    BY <2>1, <2>2 DEF Came
<1>12. WiresSteady'
  <2> SUFFICES ASSUME NEW x \in Nodes, NEW y \in Nodes, NEW i \in 1..Len(wire'[x][y])
               PROVE  BlockSteady(x, y, i)'
    BY DEF WiresSteady
  <2>c. PICK c : c = wire'[x][y][i]
    OBVIOUS
  <2>q. PICK q : q = Previous(c)
    OBVIOUS
  <2> SUFFICES /\ On(x, c)'
               /\ c.place > 1 => \/ On(y, q)' \/ Held(y, x, q)'
                                 \/ \E j \in 1..(i - 1) : wire'[x][y][j] = q
    BY <2>c, <2>q DEF BlockSteady, On, Held, Previous
  <2>1. CASE ~(x = n /\ y = m)
    <3>1. wire'[x][y] = wire[x][y]
      BY <1>6, <2>1
    <3>2. BlockSteady(x, y, i)
      BY <3>1 DEF OrderInv, WiresSteady
    <3> QED
      BY <1>7, <1>8, <2>c, <2>q, <3>1, <3>2 DEF BlockSteady
  <2>2. CASE x = n /\ y = m
    <3>1. /\ i \in Nat /\ i + 1 \in 1..Len(w) /\ c = w[i + 1]
      BY <1>3, <1>6, <2>2, <2>c
    <3>2. BlockSteady(n, m, i + 1)
      BY <1>w, <3>1 DEF OrderInv, WiresSteady
    <3>3. /\ On(n, c)
          /\ c.place > 1 => \/ On(m, q) \/ Held(m, n, q)
                            \/ \E j \in 1..((i + 1) - 1) : w[j] = q
      BY <1>w, <2>q, <3>1, <3>2 DEF BlockSteady
    <3>4. ASSUME NEW j \in 1..((i + 1) - 1), w[j] = q
          PROVE  Held(m, n, q)' \/ \E k \in 1..(i - 1) : wire'[n][m][k] = q
      <4>1. CASE j = 1
        BY <1>3, <1>10, <3>4, <4>1
      <4>2. CASE j # 1
        <5>1. j - 1 \in 1..(i - 1) /\ j - 1 \in 1..Len(Tail(w)) /\ (j - 1) + 1 = j
          BY <1>3, <3>1, <4>2
        <5>2. wire'[n][m][j - 1] = q
          BY <1>3, <1>6, <3>4, <5>1
        <5> QED
          BY <5>1, <5>2
      <4> QED
        BY <4>1, <4>2
    <3> QED
      BY <1>7, <1>8, <2>2, <3>3, <3>4
  <2> QED
    BY <2>1, <2>2
<1>13. HandsSteady'
  <2> SUFFICES ASSUME NEW x \in Nodes, NEW y \in Nodes PROVE HandSteady(y, x)'
    BY DEF HandsSteady
  <2>1. CASE ~(y = m /\ x = n)
    BY <1>6, <1>9, <2>1, HandStays
  <2>2. CASE y = m /\ x = n
    <3>q. PICK q : q = Previous(b)
      OBVIOUS
    <3>1. BlockSteady(n, m, 1)
      BY <1>3, <1>w DEF OrderInv, WiresSteady
    <3>2. /\ On(n, b)
          /\ b.place > 1 => On(m, q) \/ Held(m, n, q) \/ \E j \in 1..(1 - 1) : w[j] = q
      BY <1>3, <1>w, <3>q, <3>1 DEF BlockSteady
    <3>3. ~Held(m, n, q)
      BY <1>1 DEF Held
    <3>4. On(n, b)' /\ (b.place > 1 => On(m, q)')
      BY <1>7, <3>2, <3>3
    <3> QED
      BY <1>6, <2>2, <3>q, <3>4 DEF HandSteady, On, Previous
  <2> QED
    BY <2>1, <2>2
<1>14. FeedsSteady'
  BY <1>2, <1>9, FeedsStay
<1>15. AllSent'
  <2>1. \A x, y \in Nodes : writer'[x][y] \in {"none", "attached"}
    BY <1>2 DEF OrderInv, AllSent, SentSteady
  <2> QED
    BY <1>2, <1>9, <1>11, <2>1, SentStays DEF AllSent
<1>16. OwnSteady'
  BY <1>2, <1>7 DEF OrderInv, OwnSteady
<1> QED
  BY <1>12, <1>13, <1>14, <1>15, <1>16 DEF OrderInv

(* A writer that gets one entry further, its block come to the peer.       *)
LEMMA SentGrows ==
    ASSUME TypeOK, OrderInv, CameKept, NEW n \in Nodes, NEW m \in Nodes, CanTake(n, m),
           UNCHANGED <<feed, writer>>,
           pos' = [pos EXCEPT ![n][m] = @ + 1],
           NEW b, b = NextOf(n, m).blk, Came(n, m, b)',
           \A r \in msgCMS'[n] : r[2] = m => r \in msgCMS[n] \/ Came(n, m, r[1])'
    PROVE  SentSteady(n, m)'
<1>e. PICK e : e = NextOf(n, m)
  OBVIOUS
<1>1. /\ pos[n][m] \in Nat /\ pos'[n][m] = pos[n][m] + 1
      /\ pos[n][m] + 1 \in 1..Len(feed[n]) /\ e = feed[n][pos[n][m] + 1]
  <2>1. pos[n][m] \in Nat /\ pos'[n][m] = pos[n][m] + 1
    BY DEF TypeOK
  <2>2. pos[n][m] + 1 \in 1..Len(feed[n]) /\ e = feed[n][pos[n][m] + 1]
    BY <1>e, NextEntry
  <2> QED
    BY <2>1, <2>2
<1>2. SentSteady(n, m)
  BY DEF OrderInv, AllSent
<1>3. ASSUME NEW i \in 1..pos'[n][m]
      PROVE  i \in 1..Len(feed[n]) /\ Came(n, m, feed[n][i].blk)'
  <2>1. CASE i \in 1..pos[n][m]
    <3>c. PICK c : c = feed[n][i].blk
      OBVIOUS
    <3>1. i \in 1..Len(feed[n]) /\ Came(n, m, c)
      BY <1>2, <2>1, <3>c DEF SentSteady
    <3>2. Came(n, m, c)'
      BY <3>1 DEF CameKept
    <3> QED
      BY <3>1, <3>2, <3>c DEF Came, On, Held
  <2>2. CASE i = pos[n][m] + 1
    <3>1. feed'[n][i].blk = b /\ i \in 1..Len(feed[n])
      BY <1>1, <1>e, <2>2
    <3> QED
      BY <3>1 DEF Came, On, Held
  <2> QED
    BY <1>1, <2>1, <2>2
<1>4. ASSUME NEW r \in msgCMS'[n], r[2] = m PROVE Came(n, m, r[1])'
  BY <1>2, <1>4 DEF SentSteady, CameKept
<1>5. writer'[n][m] \in {"none", "attached"}
  BY <1>2 DEF SentSteady
<1> QED
  BY <1>3, <1>4, <1>5 DEF SentSteady, Came, On, Held

(* A writer skips a block the peer made, sent, or was sent.                *)
LEMMA PassOverOrder ==
    ASSUME TypeOK, OrderInv, NEW n \in Nodes, NEW m \in Nodes, PassOver(n, m)
    PROVE  OrderInv'
<1>b. PICK b : b = NextOf(n, m).blk
  OBVIOUS
<1>1. /\ CanTake(n, m) /\ Skip(n, m, NextOf(n, m))
      /\ pos' = [pos EXCEPT ![n][m] = @ + 1]
      /\ UNCHANGED <<chain, unpub, bucket, feed, wire, hand, writer, msgCMS>>
  BY DEF PassOver, store, streams
<1>2. Kept
  <2>1. \A x \in Nodes : Len(feed[x]) \in Nat
    BY Blocks
  <2> QED
    BY <1>1, <2>1 DEF Kept, On, Held
<1>3. FeedsSteady' /\ WiresSteady' /\ CameKept /\ HandsSteady'
  BY <1>1, <1>2, FeedsStay, WiresStay, HandStays DEF HandsSteady
<1>4. Came(n, m, b)
  <2>e. PICK e : e = NextOf(n, m)
    OBVIOUS
  <2>i. PICK i : i = pos[n][m] + 1
    OBVIOUS
  <2>1. i \in 1..Len(feed[n]) /\ e = feed[n][i] /\ b = e.blk
    BY <1>1, <1>b, <2>e, <2>i, NextEntry
  <2>2. EntrySteady(n, i)
    BY <2>1 DEF OrderInv, FeedsSteady
  <2>3. On(b.author, b) /\ On(e.sender, b)
    BY <2>1, <2>2 DEF EntrySteady
  <2>4. b.author = m \/ e.sender = m \/ <<b, m>> \in msgCMS[n]
    BY <1>1, <1>b, <2>e DEF Skip
  <2>5. <<b, m>> \in msgCMS[n] => Came(n, m, b)
    BY DEF OrderInv, AllSent, SentSteady
  <2> QED
    BY <2>3, <2>4, <2>5 DEF Came
<1>5. Came(n, m, b)'
  BY <1>3, <1>4 DEF CameKept
<1>6. AllSent'
  <2> SUFFICES ASSUME NEW x \in Nodes, NEW y \in Nodes PROVE SentSteady(x, y)'
    BY DEF AllSent
  <2>1. CASE x = n /\ y = m
    BY <1>1, <1>3, <1>5, <1>b, <2>1, SentGrows
  <2>2. CASE ~(x = n /\ y = m)
    <3>1. pos'[x][y] = pos[x][y]
      BY <1>1, <2>2 DEF TypeOK
    <3>2. writer'[x][y] \in {"none", "attached"}
      BY <1>1 DEF OrderInv, AllSent, SentSteady
    <3> QED
      BY <1>1, <1>2, <1>3, <3>1, <3>2, SentStays
  <2> QED
    BY <2>1, <2>2
<1>7. OwnSteady'
  BY <1>1 DEF OrderInv, OwnSteady, On
<1> QED
  BY <1>3, <1>6, <1>7 DEF OrderInv

(* A writer sends a block after its predecessor, which it is past.         *)
LEMMA SendOrder ==
    ASSUME TypeOK, OrderInv, NEW n \in Nodes, NEW m \in Nodes, Send(n, m)
    PROVE  OrderInv'
<1>b. PICK b : b = NextOf(n, m).blk
  OBVIOUS
<1>w. PICK w : w = wire[n][m]
  OBVIOUS
<1>1. /\ CanTake(n, m)
      /\ pos' = [pos EXCEPT ![n][m] = @ + 1]
      /\ wire' = [wire EXCEPT ![n][m] = Append(@, b)]
      /\ msgCMS' = [msgCMS EXCEPT ![n] = @ \cup {<<b, m>>}]
      /\ UNCHANGED <<chain, unpub, bucket, feed, hand, writer>>
  <2>1. writer[n][m] \in {"none", "attached"}
    BY DEF OrderInv, AllSent, SentSteady
  <2>2. SendAttached(n, m)
    BY <2>1 DEF Send, SendUnread, SendClosed, SendFails
  <2> QED
    BY <1>b, <2>2 DEF Send, SendAttached, store
<1>2. b \in Block /\ w \in Seq(Block) /\ Len(w) \in Nat
  BY <1>1, <1>b, <1>w, NextEntry, Blocks
<1>3. /\ wire'[n][m] = Append(w, b)
      /\ \A x, y \in Nodes : ~(x = n /\ y = m) => wire'[x][y] = wire[x][y]
  BY <1>1, <1>w DEF TypeOK
<1>4. /\ Len(wire'[n][m]) = Len(w) + 1 /\ wire'[n][m][Len(w) + 1] = b
      /\ \A i \in 1..Len(w) : wire'[n][m][i] = w[i]
  BY <1>2, <1>3, AppendProperties
<1>5. \A x \in Nodes : \A c : On(x, c)' <=> On(x, c)
  BY <1>1 DEF On
<1>6. \A x, y \in Nodes : \A c : Held(y, x, c)' <=> Held(y, x, c)
  BY <1>1 DEF Held
<1>7. Kept
  <2>1. \A x \in Nodes : Len(feed[x]) \in Nat
    BY Blocks
  <2> QED
    BY <1>1, <1>5, <1>6, <2>1 DEF Kept
<1>8. CameKept
  <2> SUFFICES ASSUME NEW x \in Nodes, NEW y \in Nodes, NEW c, Came(x, y, c)
               PROVE  Came(x, y, c)'
    BY DEF CameKept
  <2>1. CASE On(y, c) \/ Held(y, x, c)
    BY <1>5, <1>6, <2>1 DEF Came
  <2>2. CASE \E i \in 1..Len(wire[x][y]) : wire[x][y][i] = c
    <3>1. PICK i \in 1..Len(wire[x][y]) : wire[x][y][i] = c
      BY <2>2
    <3>2. CASE x = n /\ y = m
      <4>1. i \in 1..Len(w) /\ w[i] = c
        BY <1>w, <3>1, <3>2
      <4>2. i \in 1..Len(wire'[n][m]) /\ wire'[n][m][i] = c
        BY <1>2, <1>4, <4>1
      <4> QED
        BY <3>2, <4>2 DEF Came
    <3>3. CASE ~(x = n /\ y = m)
      BY <1>3, <2>2, <3>3 DEF Came
    <3> QED
      BY <3>2, <3>3
  <2> QED
    BY <2>1, <2>2 DEF Came
<1>9. On(n, b) /\ (b.place > 1 => Came(n, m, Previous(b)))
  <2>e. PICK e : e = NextOf(n, m)
    OBVIOUS
  <2>i. PICK i : i = pos[n][m] + 1
    OBVIOUS
  <2>1. /\ i \in 1..Len(feed[n]) /\ e = feed[n][i] /\ b = e.blk
        /\ pos[n][m] \in Nat
    <3>1. pos[n][m] \in Nat
      BY DEF TypeOK
    <3>2. i \in 1..Len(feed[n]) /\ e = feed[n][i]
      BY <1>1, <2>e, <2>i, NextEntry
    <3> QED
      BY <1>b, <2>e, <3>1, <3>2
  <2>2. EntrySteady(n, i)
    BY <2>1 DEF OrderInv, FeedsSteady
  <2>3. b.place > 1 => \E j \in 1..(i - 1) : feed[n][j].blk = Previous(b)
    BY <2>1, <2>2 DEF EntrySteady
  <2>4. i - 1 = pos[n][m]
    BY <2>1, <2>i
  <2>5. \A j \in 1..pos[n][m] : Came(n, m, feed[n][j].blk)
    BY DEF OrderInv, AllSent, SentSteady
  <2>6. On(n, b)
    BY <2>1 DEF On
  <2> QED
    BY <2>3, <2>4, <2>5, <2>6
<1>10. WiresSteady'
  <2> SUFFICES ASSUME NEW x \in Nodes, NEW y \in Nodes, NEW i \in 1..Len(wire'[x][y])
               PROVE  BlockSteady(x, y, i)'
    BY DEF WiresSteady
  <2>c. PICK c : c = wire'[x][y][i]
    OBVIOUS
  <2>q. PICK q : q = Previous(c)
    OBVIOUS
  <2> SUFFICES /\ On(x, c)'
               /\ c.place > 1 => \/ On(y, q)' \/ Held(y, x, q)'
                                 \/ \E j \in 1..(i - 1) : wire'[x][y][j] = q
    BY <2>c, <2>q DEF BlockSteady, On, Held, Previous
  <2> SUFFICES /\ On(x, c)
               /\ c.place > 1 => \/ On(y, q) \/ Held(y, x, q)
                                 \/ \E j \in 1..(i - 1) : wire'[x][y][j] = q
    BY <1>5, <1>6
  <2>1. CASE ~(x = n /\ y = m)
    <3>1. wire'[x][y] = wire[x][y]
      BY <1>3, <2>1
    <3>2. BlockSteady(x, y, i)
      BY <3>1 DEF OrderInv, WiresSteady
    <3> QED
      BY <2>c, <2>q, <3>1, <3>2 DEF BlockSteady
  <2>2. CASE x = n /\ y = m /\ i \in 1..Len(w)
    <3>1. c = w[i] /\ \A j \in 1..(i - 1) : wire'[n][m][j] = w[j]
      BY <1>2, <1>4, <2>2, <2>c
    <3>2. BlockSteady(n, m, i)
      BY <1>w, <2>2 DEF OrderInv, WiresSteady
    <3>3. /\ On(n, c)
          /\ c.place > 1 => \/ On(m, q) \/ Held(m, n, q)
                            \/ \E j \in 1..(i - 1) : w[j] = q
      BY <1>w, <2>q, <3>1, <3>2 DEF BlockSteady
    <3> QED
      BY <2>2, <3>1, <3>3
  <2>3. CASE x = n /\ y = m /\ i = Len(w) + 1
    <3>1. c = b /\ (i - 1) = Len(w)
      BY <1>2, <1>4, <2>3, <2>c
    <3>2. c.place > 1 => \/ On(m, q) \/ Held(m, n, q)
                         \/ \E j \in 1..Len(w) : w[j] = q
      BY <1>9, <1>w, <2>q, <3>1 DEF Came
    <3> QED
      BY <1>4, <1>9, <2>3, <3>1, <3>2
  <2>4. x = n /\ y = m => i \in 1..Len(w) \/ i = Len(w) + 1
    BY <1>2, <1>4
  <2> QED
    BY <2>1, <2>2, <2>3, <2>4
<1>11. FeedsSteady' /\ HandsSteady'
  BY <1>1, <1>7, FeedsStay, HandStays DEF HandsSteady
<1>12. Came(n, m, b)'
  <2>1. Len(w) + 1 \in 1..Len(wire'[n][m])
    BY <1>2, <1>4
  <2> QED
    BY <1>4, <2>1 DEF Came
<1>13. AllSent'
  <2> SUFFICES ASSUME NEW x \in Nodes, NEW y \in Nodes PROVE SentSteady(x, y)'
    BY DEF AllSent
  <2>0. /\ \A r \in msgCMS'[x] : r \in msgCMS[x] \/ (x = n /\ r = <<b, m>>)
        /\ <<b, m>>[1] = b /\ <<b, m>>[2] = m
    BY <1>1 DEF TypeOK
  <2>1. CASE x = n /\ y = m
    <3>1. \A r \in msgCMS'[n] : r[2] = m => r \in msgCMS[n] \/ Came(n, m, r[1])'
      <4> SUFFICES ASSUME NEW r \in msgCMS'[n], r \notin msgCMS[n]
                   PROVE  Came(n, m, r[1])'
        OBVIOUS
      <4>1. r[1] = b
        BY <2>0, <2>1
      <4> QED
        BY <1>12, <4>1 DEF Came, On, Held
    <3> QED
      BY <1>1, <1>8, <1>12, <1>b, <2>1, <3>1, SentGrows
  <2>2. CASE ~(x = n /\ y = m)
    <3>1. pos'[x][y] = pos[x][y]
      BY <1>1, <2>2 DEF TypeOK
    <3>2. writer'[x][y] \in {"none", "attached"}
      BY <1>1 DEF OrderInv, AllSent, SentSteady
    <3>3. \A r \in msgCMS'[x] : r[2] = y => r \in msgCMS[x]
      BY <2>0, <2>2
    <3> QED
      BY <1>7, <1>8, <3>1, <3>2, <3>3, SentStays
  <2> QED
    BY <2>1, <2>2
<1>14. OwnSteady'
  BY <1>1, <1>5 DEF OrderInv, OwnSteady
<1> QED
  BY <1>10, <1>11, <1>13, <1>14 DEF OrderInv

(* A stream that opens attaches its writers.                               *)
LEMMA DialOrder ==
    ASSUME TypeOK, OrderInv, NEW n \in Nodes, Dial(n)
    PROVE  OrderInv'
<1>1. /\ writer' = [x \in Nodes |-> [y \in Nodes |->
                      IF {x, y} = {n, Target[n]} /\ x # y /\ writer[x][y] = "none"
                      THEN "attached" ELSE writer[x][y]]]
      /\ UNCHANGED <<chain, unpub, bucket, feed, wire, hand, pos, msgCMS>>
  BY DEF Dial, store
<1>2. Kept
  <2>1. \A x \in Nodes : Len(feed[x]) \in Nat
    BY Blocks
  <2> QED
    BY <1>1, <2>1 DEF Kept, On, Held
<1>3. FeedsSteady' /\ WiresSteady' /\ CameKept /\ HandsSteady'
  BY <1>1, <1>2, FeedsStay, WiresStay, HandStays DEF HandsSteady
<1>4. AllSent'
  <2>1. \A x, y \in Nodes : writer[x][y] \in {"none", "attached"}
    BY DEF OrderInv, AllSent, SentSteady
  <2>2. \A x, y \in Nodes : writer'[x][y] \in {"none", "attached"}
    BY <1>1, <2>1
  <2> QED
    BY <1>1, <1>2, <1>3, <2>2, SentStays DEF AllSent
<1>5. OwnSteady'
  BY <1>1 DEF OrderInv, OwnSteady, On
<1> QED
  BY <1>3, <1>4, <1>5 DEF OrderInv

LEMMA SameOrder ==
    ASSUME TypeOK, OrderInv,
           UNCHANGED <<chain, unpub, bucket, feed, wire, hand, pos, writer, msgCMS>>
    PROVE  OrderInv'
<1>1. Kept
  <2>1. \A x \in Nodes : Len(feed[x]) \in Nat
    BY Blocks
  <2> QED
    BY <2>1 DEF Kept, On, Held
<1>2. FeedsSteady' /\ WiresSteady' /\ CameKept /\ HandsSteady'
  BY <1>1, FeedsStay, WiresStay, HandStays DEF HandsSteady
<1>3. AllSent'
  <2>1. \A x, y \in Nodes : writer'[x][y] \in {"none", "attached"}
    BY DEF OrderInv, AllSent, SentSteady
  <2> QED
    BY <1>1, <1>2, <2>1, SentStays DEF AllSent
<1>4. OwnSteady'
  BY DEF OrderInv, OwnSteady, On
<1> QED
  BY <1>2, <1>3, <1>4 DEF OrderInv

LEMMA NextOrder ==
    ASSUME Steady, TypeOK, PrefixInv, OrderInv, [Next]_vars
    PROVE  OrderInv'
<1>1. ASSUME NEW n \in Nodes, Commit(n) \/ PublishOwn(n) PROVE OrderInv'
  BY <1>1, CommitOrder, PublishOwnOrder
<1>2. ASSUME NEW n \in Nodes, NEW m \in Nodes,
             PassOver(n, m) \/ Send(n, m) \/ Read(m, n) \/ PublishRead(m, n)
      PROVE  OrderInv'
  BY <1>2, PassOverOrder, SendOrder, ReadOrder, PublishReadOrder
<1>6. ASSUME NEW n \in Nodes, NEW m \in Nodes
      PROVE  ~PublishReadFails(m, n) /\ ~ReadEnds(m, n)
  <2>1. drops \in Nat /\ writer[m][n] \in {"none", "attached"}
    BY DEF TypeOK, OrderInv, AllSent, SentSteady
  <2> QED
    BY <2>1 DEF Steady, PublishReadFails, ReadEnds
<1>3. ASSUME NEW n \in Nodes, Restart(n) \/ Dial(n) \/ DialFails(n) PROVE OrderInv'
  <2>1. drops \in Nat /\ restarts \in Nat
    BY DEF TypeOK
  <2>2. ~Restart(n) /\ ~DialFails(n)
    BY <2>1 DEF Steady, Restart, DialFails
  <2> QED
    BY <1>3, <2>2, DialOrder
<1>4. \A l \in Topology : ~Drop(l)
  BY DEF Steady, TypeOK, Drop
<1>5. CASE UNCHANGED vars
  <2>1. UNCHANGED <<chain, unpub, bucket, feed, wire, hand, pos, writer, msgCMS>>
    BY <1>5 DEF vars, store, streams, writers
  <2> QED
    BY <2>1, SameOrder
<1> QED
  BY <1>1, <1>2, <1>3, <1>4, <1>5, <1>6 DEF Next, Quiescent

(* While streams hold and nodes run, and the handlers of a node publish in  *)
(* the order of its chain, no reader refuses a block: on every path the     *)
(* predecessor arrives first, though the peers pass a block on only once.   *)
THEOREM NothingIsRejected ==
    ASSUME Steady PROVE Spec => []NothingRejected
<1>1. TypeOK /\ PrefixInv /\ OrderInv => NothingRejected
  BY HeadFits
<1>2. TypeOK /\ PrefixInv /\ OrderInv /\ [Next]_vars => OrderInv'
  BY NextOrder
<1> QED
  BY InitSyncType, NextSyncType, InitPrefix, NextPrefix, InitOrder, <1>1, <1>2,
     PTL DEF Spec

-----------------------------------------------------------------------------
(* A block comes once from each peer                                       *)

(* A block that n sends to m is registered, and is one token: under way, in *)
(* the reader's hands or on the reader's feed, and lost if it is refused.   *)
OnWire(n, m, b)    == \E i \in 1..Len(wire[n][m]) : wire[n][m][i] = b
Published(m, n, b) == \E i \in 1..Len(feed[m]) : feed[m][i] = [blk |-> b, sender |-> n]
Sent(n, m, b)      == <<b, m>> \in msgCMS[n]

Token(n, m, b) ==
    /\ OnWire(n, m, b) \/ Held(m, n, b) => Sent(n, m, b)
    /\ n # m /\ Published(m, n, b) => Sent(n, m, b)
    /\ ~(OnWire(n, m, b) /\ Held(m, n, b))
    /\ ~(OnWire(n, m, b) /\ Published(m, n, b))
    /\ ~(Held(m, n, b) /\ Published(m, n, b))

Tokens == \A n, m \in Nodes : \A b \in Block : Token(n, m, b)

EntriesDiffer == \A n \in Nodes : \A i, j \in 1..Len(feed[n]) :
    feed[n][i] = feed[n][j] => i = j
WiresDiffer   == \A n, m \in Nodes : \A i, j \in 1..Len(wire[n][m]) :
    wire[n][m][i] = wire[n][m][j] => i = j

(* What a node publishes as its own is its own, and is published once.     *)
OwnOnce == \A n \in Nodes : \A b \in Block :
    Published(n, n, b) => b.author = n /\ b.place \notin unpub[n]

(* Writers run, and blocks are registered, along the edges of the network.  *)
Along(n, m) == writer[n][m] # "none" \/ (\E b \in Block : Sent(n, m, b))
Paths == \A n, m \in Nodes : Along(n, m) => {n, m} \in Topology

CopiesInv == Tokens /\ EntriesDiffer /\ WiresDiffer /\ OwnOnce /\ Paths

LEMMA InitCopies == Init => CopiesInv
<1> SUFFICES ASSUME Init PROVE CopiesInv
  OBVIOUS
<1>1. \A n, m \in Nodes : /\ feed[n] = <<>> /\ wire[n][m] = <<>> /\ hand[m][n] = None
                          /\ msgCMS[n] = {} /\ writer[n][m] = "none"
  BY DEF Init
<1>2. Len(<<>>) = 0 /\ 1..0 = {}
  BY EmptySeq
<1>3. \A n, m \in Nodes : \A b : /\ ~OnWire(n, m, b) /\ ~Held(m, n, b)
                                 /\ ~Published(m, n, b) /\ ~Sent(n, m, b)
  BY <1>1, <1>2 DEF OnWire, Held, Published, Sent
<1>4. Tokens /\ OwnOnce /\ Paths
  BY <1>1, <1>3 DEF Tokens, Token, OwnOnce, Paths, Along
<1> QED
  BY <1>1, <1>2, <1>4 DEF CopiesInv, EntriesDiffer, WiresDiffer

(* No one is a peer of itself.                                             *)
LEMMA NoLoops ==
    ASSUME NEW n \in Nodes, NEW m \in Nodes, {n, m} \in Topology PROVE n # m
<1>1. PICK x \in Nodes : x \in Dialers /\ {n, m} = {x, Target[x]}
  BY DEF Topology, Dialers
<1>2. Target[x] # x
  OBVIOUS
<1> QED
  BY <1>1, <1>2

(* What a step changes that concerns none of the streams of blocks.        *)
LEMMA TokensStay ==
    ASSUME Tokens,
           \A n, m \in Nodes : \A b \in Block :
              /\ OnWire(n, m, b)' => OnWire(n, m, b)
              /\ Held(m, n, b)' => Held(m, n, b)
              /\ Published(m, n, b)' => Published(m, n, b)
              /\ Sent(n, m, b) => Sent(n, m, b)'
    PROVE  Tokens'
<1> SUFFICES ASSUME NEW n \in Nodes, NEW m \in Nodes, NEW b \in Block
             PROVE  Token(n, m, b)'
  BY DEF Tokens
<1>1. Token(n, m, b)
  BY DEF Tokens
<1> QED
  BY <1>1 DEF Token

LEMMA CommitCopies ==
    ASSUME TypeOK, PrefixInv, CopiesInv, NEW n \in Nodes, Commit(n)
    PROVE  CopiesInv'
<1>1. /\ unpub' = [unpub EXCEPT ![n] = @ \cup {chain[n] + 1}]
      /\ UNCHANGED <<feed, wire, hand, writer, msgCMS>>
      /\ chain[n] \in Nat /\ unpub \in [Nodes -> SUBSET Nat]
  BY DEF Commit, streams, writers, TypeOK
<1>2. \A x, y \in Nodes : \A b :
         /\ OnWire(x, y, b)' <=> OnWire(x, y, b)
         /\ Held(y, x, b)' <=> Held(y, x, b)
         /\ Published(y, x, b)' <=> Published(y, x, b)
         /\ Sent(x, y, b)' <=> Sent(x, y, b)
  BY <1>1 DEF OnWire, Held, Published, Sent
<1>3. Tokens'
  BY <1>2, TokensStay DEF CopiesInv
<1>4. EntriesDiffer' /\ WiresDiffer'
  BY <1>1 DEF CopiesInv, EntriesDiffer, WiresDiffer
<1>5. OwnOnce'
  <2> SUFFICES ASSUME NEW x \in Nodes, NEW b \in Block, Published(x, x, b)
               PROVE  b.author = x /\ b.place \notin unpub'[x]
    BY <1>2 DEF OwnOnce
  <2>1. b.author = x /\ b.place \notin unpub[x]
    BY DEF CopiesInv, OwnOnce
  <2>2. b.place \in 1..chain[x]
    <3>1. PICK i \in 1..Len(feed[x]) : feed[x][i] = [blk |-> b, sender |-> x]
      BY DEF Published
    <3>2. feed[x][i].blk = b
      BY <3>1
    <3> QED
      BY <2>1, <3>2 DEF PrefixInv, FeedsOK, Genuine
  <2> QED
    BY <1>1, <2>1, <2>2
<1>6. Paths'
  BY <1>1, <1>2 DEF CopiesInv, Paths, Along
<1> QED
  BY <1>3, <1>4, <1>5, <1>6 DEF CopiesInv

(* An entry that is not on the feed yet keeps the entries apart.           *)
LEMMA PublishedAfter ==
    ASSUME TypeOK, CopiesInv, NEW n \in Nodes, NEW e \in Entry,
           feed' = [feed EXCEPT ![n] = Append(@, e)], ~Published(n, e.sender, e.blk)
    PROVE  /\ EntriesDiffer'
           /\ \A x, y \in Nodes : \A c \in Block :
                 Published(x, y, c)' =>
                    Published(x, y, c) \/ (x = n /\ y = e.sender /\ c = e.blk)
<1>1. e = [blk |-> e.blk, sender |-> e.sender]
  BY DEF Entry
<1>2. /\ Len(feed[n]) \in Nat /\ Len(feed'[n]) = Len(feed[n]) + 1
      /\ feed'[n][Len(feed[n]) + 1] = e
      /\ \A i \in 1..Len(feed[n]) : feed'[n][i] = feed[n][i]
      /\ \A x \in Nodes : x # n => feed'[x] = feed[x]
  BY FeedAppended
<1>3. \A i \in 1..Len(feed[n]) : feed[n][i] # e
  BY <1>1 DEF Published
<1>4. EntriesDiffer'
  <2> SUFFICES ASSUME NEW x \in Nodes, NEW i \in 1..Len(feed'[x]), NEW j \in 1..Len(feed'[x]),
                      feed'[x][i] = feed'[x][j]
               PROVE  i = j
    BY DEF EntriesDiffer
  <2>1. CASE x = n
    <3>1. /\ i \in 1..Len(feed[n]) \/ i = Len(feed[n]) + 1
          /\ j \in 1..Len(feed[n]) \/ j = Len(feed[n]) + 1
      BY <1>2, <2>1
    <3> QED
      BY <1>2, <1>3, <2>1, <3>1 DEF CopiesInv, EntriesDiffer
  <2>2. CASE x # n
    BY <1>2, <2>2 DEF CopiesInv, EntriesDiffer
  <2> QED
    BY <2>1, <2>2
<1>5. ASSUME NEW x \in Nodes, NEW y \in Nodes, NEW c \in Block, Published(x, y, c)'
      PROVE  Published(x, y, c) \/ (x = n /\ y = e.sender /\ c = e.blk)
  <2>1. PICK i \in 1..Len(feed'[x]) : feed'[x][i] = [blk |-> c, sender |-> y]
    BY <1>5 DEF Published
  <2>2. CASE x # n
    BY <1>2, <2>1, <2>2 DEF Published
  <2>3. CASE x = n /\ i \in 1..Len(feed[n])
    BY <1>2, <2>1, <2>3 DEF Published
  <2>4. CASE x = n /\ i = Len(feed[n]) + 1
    <3>1. e.blk = c /\ e.sender = y
      BY <1>2, <2>1, <2>4
    <3> QED
      BY <2>4, <3>1
  <2>5. x = n => i \in 1..Len(feed[n]) \/ i = Len(feed[n]) + 1
    BY <1>2
  <2> QED
    BY <2>2, <2>3, <2>4, <2>5
<1> QED
  BY <1>4, <1>5

LEMMA PublishOwnCopies ==
    ASSUME TypeOK, CopiesInv, NEW n \in Nodes, PublishOwn(n)
    PROVE  CopiesInv'
<1>1. PICK p \in unpub[n] :
         /\ unpub' = [unpub EXCEPT ![n] = @ \ {p}]
         /\ feed' = [feed EXCEPT ![n] =
                       Append(@, [blk |-> [author |-> n, place |-> p], sender |-> n])]
  BY DEF PublishOwn
<1>2. UNCHANGED <<wire, hand, writer, msgCMS>>
  BY DEF PublishOwn, streams, writers
<1>b. PICK b : b = [author |-> n, place |-> p]
  OBVIOUS
<1>e. PICK e : e = [blk |-> b, sender |-> n]
  OBVIOUS
<1>3. /\ b \in Block /\ b.author = n /\ b.place = p
      /\ unpub \in [Nodes -> SUBSET Nat]
  BY <1>b DEF TypeOK, Block
<1>4. ~Published(n, n, b)
  BY <1>3 DEF CopiesInv, OwnOnce
<1>5. /\ feed' = [feed EXCEPT ![n] = Append(@, e)]
      /\ e \in Entry /\ e.blk = b /\ e.sender = n
  BY <1>1, <1>3, <1>b, <1>e DEF Entry
<1>6. /\ EntriesDiffer'
      /\ \A x, y \in Nodes : \A c \in Block :
            Published(x, y, c)' => Published(x, y, c) \/ (x = n /\ y = n /\ c = b)
  BY <1>4, <1>5, PublishedAfter
<1>7. \A x, y \in Nodes : \A c :
         /\ OnWire(x, y, c)' <=> OnWire(x, y, c)
         /\ Held(y, x, c)' <=> Held(y, x, c)
         /\ Sent(x, y, c)' <=> Sent(x, y, c)
  BY <1>2 DEF OnWire, Held, Sent
<1>8. Tokens'
  <2> SUFFICES ASSUME NEW x \in Nodes, NEW y \in Nodes, NEW c \in Block
               PROVE  Token(x, y, c)'
    BY DEF Tokens
  <2>1. Token(x, y, c)
    BY DEF CopiesInv, Tokens
  <2>2. CASE Published(y, x, c)' => Published(y, x, c)
    BY <1>7, <2>1, <2>2 DEF Token
  <2>3. CASE x = n /\ y = n
    <3>1. {n, n} \notin Topology
      BY NoLoops
    <3>2. ~Sent(n, n, c)
      BY <3>1 DEF CopiesInv, Paths, Along
    <3> QED
      BY <1>7, <2>1, <2>3, <3>2 DEF Token
  <2> QED
    BY <1>6, <2>2, <2>3
<1>9. OwnOnce'
  <2> SUFFICES ASSUME NEW x \in Nodes, NEW c \in Block, Published(x, x, c)'
               PROVE  c.author = x /\ c.place \notin unpub'[x]
    BY DEF OwnOnce
  <2>1. CASE x = n /\ c = b
    BY <1>1, <1>3, <2>1
  <2>2. CASE Published(x, x, c)
    <3>1. c.author = x /\ c.place \notin unpub[x]
      BY <2>2 DEF CopiesInv, OwnOnce
    <3>2. unpub'[x] \subseteq unpub[x]
      BY <1>1, <1>3
    <3> QED
      BY <3>1, <3>2
  <2> QED
    BY <1>6, <2>1, <2>2
<1>10. WiresDiffer' /\ Paths'
  <2>1. WiresDiffer'
    BY <1>2 DEF CopiesInv, WiresDiffer
  <2> QED
    BY <1>2, <1>7, <2>1 DEF CopiesInv, Paths, Along
<1> QED
  BY <1>6, <1>8, <1>9, <1>10 DEF CopiesInv

(* The token goes from the reader's hands to its feed.                     *)
LEMMA PublishReadCopies ==
    ASSUME TypeOK, CopiesInv, NEW n \in Nodes, NEW m \in Nodes, PublishRead(m, n)
    PROVE  CopiesInv'
<1>b. PICK b : b = hand[m][n]
  OBVIOUS
<1>e. PICK e : e = [blk |-> b, sender |-> n]
  OBVIOUS
<1>1. /\ b # None /\ b \in Block
      /\ feed' = [feed EXCEPT ![m] = Append(@, e)]
      /\ hand' = [hand EXCEPT ![m][n] = None]
      /\ UNCHANGED <<unpub, wire, writer, msgCMS>>
  BY <1>b, <1>e, Blocks DEF PublishRead, store, streams, writers
<1>2. Held(m, n, b) /\ Token(n, m, b)
  BY <1>1, <1>b DEF Held, CopiesInv, Tokens
<1>3. Sent(n, m, b) /\ ~Published(m, n, b) /\ ~OnWire(n, m, b)
  BY <1>2 DEF Token
<1>4. n # m
  <2>1. {n, m} \in Topology
    BY <1>1, <1>3 DEF CopiesInv, Paths, Along
  <2> QED
    BY <2>1, NoLoops
<1>5. /\ EntriesDiffer'
      /\ \A x, y \in Nodes : \A c \in Block :
            Published(x, y, c)' => Published(x, y, c) \/ (x = m /\ y = n /\ c = b)
  <2>1. e \in Entry /\ e.blk = b /\ e.sender = n
    BY <1>1, <1>e DEF Entry
  <2> QED
    BY <1>1, <1>3, <2>1, PublishedAfter
<1>6. \A x, y \in Nodes : \A c :
         /\ OnWire(x, y, c)' <=> OnWire(x, y, c)
         /\ Sent(x, y, c)' <=> Sent(x, y, c)
  BY <1>1 DEF OnWire, Sent
<1>7. \A x, y \in Nodes : \A c :
         Held(y, x, c)' => Held(y, x, c) /\ ~(x = n /\ y = m)
  <2>1. /\ \A x, y \in Nodes : ~(x = n /\ y = m) => hand'[y][x] = hand[y][x]
        /\ hand'[m][n] = None
    BY <1>1 DEF TypeOK
  <2> QED
    BY <2>1 DEF Held
<1>8. Tokens'
  <2> SUFFICES ASSUME NEW x \in Nodes, NEW y \in Nodes, NEW c \in Block
               PROVE  Token(x, y, c)'
    BY DEF Tokens
  <2>1. Token(x, y, c)
    BY DEF CopiesInv, Tokens
  <2>2. CASE Published(y, x, c)' => Published(y, x, c)
    BY <1>6, <1>7, <2>1, <2>2 DEF Token
  <2>3. CASE x = n /\ y = m /\ c = b
    BY <1>3, <1>6, <1>7, <2>1, <2>3 DEF Token
  <2> QED
    BY <1>5, <2>2, <2>3
<1>9. OwnOnce'
  <2> SUFFICES ASSUME NEW x \in Nodes, NEW c \in Block, Published(x, x, c)'
               PROVE  c.author = x /\ c.place \notin unpub[x]
    BY <1>1 DEF OwnOnce
  <2>1. Published(x, x, c)
    BY <1>4, <1>5
  <2> QED
    BY <2>1 DEF CopiesInv, OwnOnce
<1>10. WiresDiffer' /\ Paths'
  <2>1. WiresDiffer'
    BY <1>1 DEF CopiesInv, WiresDiffer
  <2> QED
    BY <1>1, <1>6, <2>1 DEF CopiesInv, Paths, Along
<1> QED
  BY <1>5, <1>8, <1>9, <1>10 DEF CopiesInv

(* The token goes from the wire to the reader's hands, or is dropped.       *)
LEMMA ReadCopies ==
    ASSUME TypeOK, CopiesInv, NEW n \in Nodes, NEW m \in Nodes, Read(m, n)
    PROVE  CopiesInv'
<1>b. PICK b : b = Head(wire[n][m])
  OBVIOUS
<1>w. PICK w : w = wire[n][m]
  OBVIOUS
<1>1. /\ w # <<>> /\ hand[m][n] = None
      /\ hand' = [hand EXCEPT ![m][n] = b] \/ hand' = hand
      /\ wire' = [wire EXCEPT ![n][m] = Tail(@)]
      /\ UNCHANGED <<unpub, feed, writer, msgCMS>>
  BY <1>b, <1>w DEF Read, writers
<1>2. /\ b \in Block /\ b = w[1] /\ 1 \in 1..Len(w) /\ Len(w) \in Nat
      /\ Len(Tail(w)) = Len(w) - 1
      /\ \A i \in 1..Len(Tail(w)) : Tail(w)[i] = w[i + 1]
  BY <1>1, <1>b, <1>w, HeadOfWire, Blocks
<1>3. /\ wire'[n][m] = Tail(w)
      /\ \A x, y \in Nodes : ~(x = n /\ y = m) => wire'[x][y] = wire[x][y]
  BY <1>1, <1>w DEF TypeOK
<1>4. \A i, j \in 1..Len(w) : w[i] = w[j] => i = j
  BY <1>w DEF CopiesInv, WiresDiffer
<1>5. \A i \in 1..Len(Tail(w)) : i + 1 \in 1..Len(w) /\ i + 1 # 1 /\ i \in Nat
  BY <1>2
<1>6. \A x, y \in Nodes : \A c : OnWire(x, y, c)' => OnWire(x, y, c)
  <2> SUFFICES ASSUME NEW x \in Nodes, NEW y \in Nodes, NEW c, OnWire(x, y, c)'
               PROVE  OnWire(x, y, c)
    OBVIOUS
  <2>1. PICK i \in 1..Len(wire'[x][y]) : wire'[x][y][i] = c
    BY DEF OnWire
  <2>2. CASE x = n /\ y = m
    <3>1. i + 1 \in 1..Len(w) /\ w[i + 1] = c
      BY <1>2, <1>3, <1>5, <2>1, <2>2
    <3> QED
      BY <1>w, <2>2, <3>1 DEF OnWire
  <2>3. CASE ~(x = n /\ y = m)
    BY <1>3, <2>1, <2>3 DEF OnWire
  <2> QED
    BY <2>2, <2>3
<1>7. OnWire(n, m, b) /\ ~OnWire(n, m, b)'
  <2>1. OnWire(n, m, b)
    BY <1>2, <1>w DEF OnWire
  <2>2. ASSUME NEW i \in 1..Len(Tail(w)), Tail(w)[i] = b PROVE FALSE
    BY <1>2, <1>4, <1>5, <2>2
  <2> QED
    BY <1>3, <2>1, <2>2 DEF OnWire
<1>8. \A x, y \in Nodes : \A c :
         Held(y, x, c)' => Held(y, x, c) \/ (x = n /\ y = m /\ c = b)
  <2>1. /\ \A x, y \in Nodes : ~(x = n /\ y = m) => hand'[y][x] = hand[y][x]
        /\ hand'[m][n] = b \/ hand'[m][n] = hand[m][n]
    <3>1. hand \in [Nodes -> [Nodes -> Block \cup {None}]]
      BY DEF TypeOK
    <3> QED
      BY <1>1, <3>1
  <2> QED
    BY <2>1 DEF Held
<1>9. \A x, y \in Nodes : \A c :
         /\ Published(y, x, c)' <=> Published(y, x, c)
         /\ Sent(x, y, c)' <=> Sent(x, y, c)
  BY <1>1 DEF Published, Sent
<1>10. Tokens'
  <2> SUFFICES ASSUME NEW x \in Nodes, NEW y \in Nodes, NEW c \in Block
               PROVE  Token(x, y, c)'
    BY DEF Tokens
  <2>1. Token(x, y, c)
    BY DEF CopiesInv, Tokens
  <2>2. CASE Held(y, x, c)' => Held(y, x, c)
    BY <1>6, <1>9, <2>1, <2>2 DEF Token
  <2>3. CASE x = n /\ y = m /\ c = b
    BY <1>7, <1>9, <2>1, <2>3 DEF Token
  <2> QED
    BY <1>8, <2>2, <2>3
<1>11. WiresDiffer'
  <2> SUFFICES ASSUME NEW x \in Nodes, NEW y \in Nodes,
                      NEW i \in 1..Len(wire'[x][y]), NEW j \in 1..Len(wire'[x][y]),
                      wire'[x][y][i] = wire'[x][y][j]
               PROVE  i = j
    BY DEF WiresDiffer
  <2>1. CASE x = n /\ y = m
    <3>1. /\ i + 1 \in 1..Len(w) /\ j + 1 \in 1..Len(w) /\ i \in Nat /\ j \in Nat
          /\ w[i + 1] = w[j + 1]
      BY <1>2, <1>3, <1>5, <2>1
    <3>2. i + 1 = j + 1
      BY <1>4, <3>1
    <3> QED
      BY <3>1, <3>2
  <2>2. CASE ~(x = n /\ y = m)
    BY <1>3, <2>2 DEF CopiesInv, WiresDiffer
  <2> QED
    BY <2>1, <2>2
<1>12. EntriesDiffer' /\ OwnOnce' /\ Paths'
  <2>1. EntriesDiffer'
    BY <1>1 DEF CopiesInv, EntriesDiffer
  <2>2. OwnOnce'
    BY <1>1, <1>9 DEF CopiesInv, OwnOnce
  <2> QED
    BY <1>1, <1>9, <2>1, <2>2 DEF CopiesInv, Paths, Along
<1> QED
  BY <1>10, <1>11, <1>12 DEF CopiesInv

(* A block that is sent was not registered, so it is a token of its own.    *)
LEMMA SendCopies ==
    ASSUME TypeOK, CopiesInv, NEW n \in Nodes, NEW m \in Nodes, Send(n, m)
    PROVE  CopiesInv'
<1>b. PICK b : b = NextOf(n, m).blk
  OBVIOUS
<1>w. PICK w : w = wire[n][m]
  OBVIOUS
<1>1. /\ CanTake(n, m) /\ <<b, m>> \notin msgCMS[n]
      /\ msgCMS' = [msgCMS EXCEPT ![n] = @ \cup {<<b, m>>}]
      /\ UNCHANGED <<unpub, feed, hand>>
  BY <1>b DEF Send, Skip, store
<1>2. /\ wire' = [wire EXCEPT ![n][m] = Append(@, b)] \/ wire' = wire
      /\ \A x, y \in Nodes : writer'[x][y] # "none" => writer[x][y] # "none"
  <2>1. CASE SendAttached(n, m)
    BY <1>b, <2>1 DEF SendAttached
  <2>2. CASE SendClosed(n, m)
    BY <2>2 DEF SendClosed, TypeOK
  <2>3. CASE SendFails(n, m)
    BY <2>3 DEF SendFails, TypeOK
  <2>4. CASE SendUnread(n, m)
    BY <2>4 DEF SendUnread
  <2> QED
    BY <2>1, <2>2, <2>3, <2>4 DEF Send
<1>3. b \in Block /\ w \in Seq(Block) /\ Len(w) \in Nat
  BY <1>1, <1>b, <1>w, NextEntry, Blocks
<1>4. writer[n][m] # "none" /\ {n, m} \in Topology /\ n # m
  <2>1. writer[n][m] # "none"
    BY <1>1 DEF CanTake
  <2>2. {n, m} \in Topology
    BY <2>1 DEF CopiesInv, Paths, Along
  <2> QED
    BY <2>1, <2>2, NoLoops
<1>5. \A x, y \in Nodes : ~(x = n /\ y = m) => wire'[x][y] = wire[x][y]
  <2>1. wire \in [Nodes -> [Nodes -> Seq(Block)]]
    BY DEF TypeOK
  <2>2. CASE wire' = wire
    BY <2>2
  <2>3. CASE wire' = [wire EXCEPT ![n][m] = Append(@, b)]
    BY <2>1, <2>3
  <2> QED
    BY <1>2, <2>2, <2>3
<1>6. wire'[n][m] = Append(w, b) \/ wire'[n][m] = w
  BY <1>2, <1>w DEF TypeOK
<1>7. /\ Len(Append(w, b)) = Len(w) + 1 /\ Append(w, b)[Len(w) + 1] = b
      /\ \A i \in 1..Len(w) : Append(w, b)[i] = w[i]
  BY <1>3, AppendProperties
<1>8. ASSUME NEW i \in 1..Len(wire'[n][m])
      PROVE  \/ i \in 1..Len(w) /\ wire'[n][m][i] = w[i]
             \/ i = Len(w) + 1 /\ wire'[n][m][i] = b
  <2>1. CASE wire'[n][m] = w
    BY <2>1
  <2>2. CASE wire'[n][m] = Append(w, b)
    <3>1. i \in 1..Len(w) \/ i = Len(w) + 1
      BY <1>3, <1>7, <2>2
    <3> QED
      BY <1>7, <2>2, <3>1
  <2> QED
    BY <1>6, <2>1, <2>2
<1>9. \A x, y \in Nodes : \A c :
         OnWire(x, y, c)' => OnWire(x, y, c) \/ (x = n /\ y = m /\ c = b)
  <2> SUFFICES ASSUME NEW x \in Nodes, NEW y \in Nodes, NEW c, OnWire(x, y, c)'
               PROVE  OnWire(x, y, c) \/ (x = n /\ y = m /\ c = b)
    OBVIOUS
  <2>1. PICK i \in 1..Len(wire'[x][y]) : wire'[x][y][i] = c
    BY DEF OnWire
  <2>2. CASE x = n /\ y = m
    <3>1. (i \in 1..Len(w) /\ w[i] = c) \/ c = b
      BY <1>8, <2>1, <2>2
    <3> QED
      BY <1>w, <2>2, <3>1 DEF OnWire
  <2>3. CASE ~(x = n /\ y = m)
    BY <1>5, <2>1, <2>3 DEF OnWire
  <2> QED
    BY <2>2, <2>3
<1>10. \A x, y \in Nodes : \A c :
          /\ Held(y, x, c)' <=> Held(y, x, c)
          /\ Published(y, x, c)' <=> Published(y, x, c)
  BY <1>1 DEF Held, Published
<1>11. \A x, y \in Nodes : \A c :
          Sent(x, y, c)' <=> Sent(x, y, c) \/ (x = n /\ y = m /\ c = b)
  <2>1. msgCMS \in [Nodes -> SUBSET (Block \X Nodes)]
    BY DEF TypeOK
  <2>2. \A x \in Nodes : msgCMS'[x] = IF x = n THEN msgCMS[x] \cup {<<b, m>>} ELSE msgCMS[x]
    BY <1>1, <2>1
  <2>3. \A c, y : <<c, y>> = <<b, m>> <=> c = b /\ y = m
    OBVIOUS
  <2> SUFFICES ASSUME NEW x \in Nodes, NEW y \in Nodes, NEW c
               PROVE  <<c, y>> \in msgCMS'[x] <=>
                         <<c, y>> \in msgCMS[x] \/ (x = n /\ y = m /\ c = b)
    BY DEF Sent
  <2>4. CASE x = n
    <3>1. msgCMS'[x] = msgCMS[x] \cup {<<b, m>>}
      BY <2>2, <2>4
    <3>2. <<c, y>> \in msgCMS'[x] <=> <<c, y>> \in msgCMS[x] \/ <<c, y>> = <<b, m>>
      BY <3>1
    <3> QED
      BY <2>3, <2>4, <3>2
  <2>5. CASE x # n
    BY <2>2, <2>5
  <2> QED
    BY <2>4, <2>5
<1>12. Tokens'
  <2> SUFFICES ASSUME NEW x \in Nodes, NEW y \in Nodes, NEW c \in Block
               PROVE  Token(x, y, c)'
    BY DEF Tokens
  <2>1. Token(x, y, c)
    BY DEF CopiesInv, Tokens
  <2>2. CASE ~(x = n /\ y = m /\ c = b)
    BY <1>9, <1>10, <1>11, <2>1, <2>2 DEF Token
  <2>3. CASE x = n /\ y = m /\ c = b
    <3>1. ~Sent(n, m, b)
      BY <1>1 DEF Sent
    <3>2. ~Held(m, n, b) /\ ~Published(m, n, b)
      BY <1>4, <2>1, <2>3, <3>1 DEF Token
    <3> QED
      BY <1>10, <1>11, <2>3, <3>2 DEF Token
  <2> QED
    BY <2>2, <2>3
<1>13. WiresDiffer'
  <2> SUFFICES ASSUME NEW x \in Nodes, NEW y \in Nodes,
                      NEW i \in 1..Len(wire'[x][y]), NEW j \in 1..Len(wire'[x][y]),
                      wire'[x][y][i] = wire'[x][y][j]
               PROVE  i = j
    BY DEF WiresDiffer
  <2>1. CASE x = n /\ y = m
    <3>1. ~OnWire(n, m, b)
      BY <1>1, <1>3 DEF CopiesInv, Tokens, Token, Sent
    <3>2. \A k \in 1..Len(w) : w[k] # b
      BY <1>w, <3>1 DEF OnWire
    <3>3. \A k, l \in 1..Len(w) : w[k] = w[l] => k = l
      BY <1>w DEF CopiesInv, WiresDiffer
    <3>4. /\ \/ i \in 1..Len(w) /\ wire'[n][m][i] = w[i]
             \/ i = Len(w) + 1 /\ wire'[n][m][i] = b
          /\ \/ j \in 1..Len(w) /\ wire'[n][m][j] = w[j]
             \/ j = Len(w) + 1 /\ wire'[n][m][j] = b
      BY <1>8, <2>1
    <3> QED
      BY <2>1, <3>2, <3>3, <3>4
  <2>2. CASE ~(x = n /\ y = m)
    BY <1>5, <2>2 DEF CopiesInv, WiresDiffer
  <2> QED
    BY <2>1, <2>2
<1>14. EntriesDiffer' /\ OwnOnce'
  <2>1. EntriesDiffer'
    BY <1>1 DEF CopiesInv, EntriesDiffer
  <2> QED
    BY <1>1, <1>10, <2>1 DEF CopiesInv, OwnOnce
<1>15. Paths'
  <2> SUFFICES ASSUME NEW x \in Nodes, NEW y \in Nodes, Along(x, y)'
               PROVE  {x, y} \in Topology
    BY DEF Paths
  <2>1. writer'[x][y] # "none" \/ \E c \in Block : Sent(x, y, c)'
    BY DEF Along, Block
  <2>2. Along(x, y) \/ (x = n /\ y = m)
    BY <1>2, <1>11, <2>1 DEF Along
  <2> QED
    BY <1>4, <2>2 DEF CopiesInv, Paths
<1> QED
  BY <1>12, <1>13, <1>14, <1>15 DEF CopiesInv

(* Streams that open and break make no token: what is cut off is lost.      *)
LEMMA StreamCopies ==
    ASSUME TypeOK, CopiesInv, UNCHANGED <<unpub, feed, msgCMS>>,
           \A n, m \in Nodes : hand'[m][n] \in {hand[m][n], None},
           \A n, m \in Nodes : wire'[n][m] \in {wire[n][m], <<>>},
           \A n, m \in Nodes : writer'[n][m] # "none" =>
                                  writer[n][m] # "none" \/ {n, m} \in Topology
    PROVE  CopiesInv'
<1>1. Len(<<>>) = 0
  OBVIOUS
<1>2. \A x, y \in Nodes : wire'[x][y] = wire[x][y] \/ Len(wire'[x][y]) = 0
  BY <1>1
<1>3. \A x, y \in Nodes : \A c :
         /\ OnWire(x, y, c)' => OnWire(x, y, c)
         /\ Held(y, x, c)' => Held(y, x, c)
         /\ Published(y, x, c)' <=> Published(y, x, c)
         /\ Sent(x, y, c)' <=> Sent(x, y, c)
  BY <1>2 DEF OnWire, Held, Published, Sent
<1>4. Tokens'
  BY <1>3, TokensStay DEF CopiesInv
<1>5. WiresDiffer'
  BY <1>2 DEF CopiesInv, WiresDiffer
<1>6. EntriesDiffer' /\ OwnOnce'
  <2>1. EntriesDiffer'
    BY DEF CopiesInv, EntriesDiffer
  <2> QED
    BY <1>3, <2>1 DEF CopiesInv, OwnOnce
<1>7. Paths'
  <2> SUFFICES ASSUME NEW x \in Nodes, NEW y \in Nodes, Along(x, y)'
               PROVE  {x, y} \in Topology
    BY DEF Paths
  <2>1. writer'[x][y] # "none" \/ \E c \in Block : Sent(x, y, c)'
    BY DEF Along, Block
  <2> QED
    BY <1>3, <2>1 DEF CopiesInv, Paths, Along
<1> QED
  BY <1>4, <1>5, <1>6, <1>7 DEF CopiesInv

LEMMA DialCopies ==
    ASSUME TypeOK, CopiesInv, NEW n \in Nodes, Dial(n) PROVE CopiesInv'
<1>1. /\ n \in Dialers /\ {n, Target[n]} \in Topology
      /\ UNCHANGED <<unpub, feed, hand, msgCMS, wire>>
  BY DEF Dial, TypeOK, store, Topology
<1>2. ASSUME NEW x \in Nodes, NEW y \in Nodes, writer'[x][y] # "none"
      PROVE  writer[x][y] # "none" \/ {x, y} \in Topology
  BY <1>1, <1>2 DEF Dial
<1> QED
  BY <1>1, <1>2, StreamCopies

LEMMA DropCopies ==
    ASSUME TypeOK, CopiesInv, NEW l \in Topology, Drop(l) PROVE CopiesInv'
<1>1. UNCHANGED <<unpub, feed, hand, msgCMS>>
  BY DEF Drop, store
<1>2. \A x, y \in Nodes : wire'[x][y] \in {wire[x][y], <<>>}
  BY DEF Drop, Cut
<1>3. \A x, y \in Nodes : writer'[x][y] # "none" => writer[x][y] # "none"
  BY DEF Drop
<1> QED
  BY <1>1, <1>2, <1>3, StreamCopies

LEMMA ReaderEndsCopies ==
    ASSUME TypeOK, CopiesInv, NEW n \in Nodes, NEW m \in Nodes,
           PublishReadFails(m, n) \/ ReadEnds(m, n)
    PROVE  CopiesInv'
<1>t. OnlyTakes
  BY ReaderEndsTakes
<1>1. UNCHANGED <<unpub, feed, msgCMS>>
  BY DEF PublishReadFails, ReadEnds, store
<1>2. \A x, y \in Nodes : /\ hand'[y][x] \in {hand[y][x], None}
                          /\ wire'[x][y] \in {wire[x][y], <<>>}
  BY <1>t DEF OnlyTakes
<1>3. \A x, y \in Nodes : writer'[x][y] # "none" => writer[x][y] # "none"
  BY <1>t DEF OnlyTakes
<1> QED
  BY <1>1, <1>2, <1>3, StreamCopies

LEMMA NextCopies ==
    ASSUME MaxRestarts = 0, TypeOK, PrefixInv, CopiesInv, [Next]_vars
    PROVE  CopiesInv'
<1>1. ASSUME NEW n \in Nodes, Commit(n) \/ PublishOwn(n) \/ Restart(n) \/ Dial(n)
      PROVE  CopiesInv'
  <2>1. ~Restart(n)
    BY DEF TypeOK, Restart
  <2> QED
    BY <1>1, <2>1, CommitCopies, PublishOwnCopies, DialCopies
<1>2. ASSUME NEW n \in Nodes, NEW m \in Nodes, Send(n, m) \/ Read(m, n) \/ PublishRead(m, n)
      PROVE  CopiesInv'
  BY <1>2, SendCopies, ReadCopies, PublishReadCopies
<1>3. CASE UNCHANGED <<unpub, feed, hand, msgCMS, wire, writer>>
  BY <1>3, StreamCopies
<1>6. ASSUME NEW n \in Nodes, NEW m \in Nodes, PublishReadFails(m, n) \/ ReadEnds(m, n)
      PROVE  CopiesInv'
  BY <1>6, ReaderEndsCopies
<1>4. \A n, m \in Nodes : DialFails(n) \/ PassOver(n, m) \/ UNCHANGED vars =>
         UNCHANGED <<unpub, feed, hand, msgCMS, wire, writer>>
  BY DEF DialFails, PassOver, vars, store, streams, writers
<1>5. UNCHANGED vars => UNCHANGED <<unpub, feed, hand, msgCMS, wire, writer>>
  BY DEF vars, store, streams, writers
<1> QED
  BY <1>1, <1>2, <1>3, <1>4, <1>5, <1>6, DropCopies DEF Next, Quiescent

(* The copies of a block on a feed have as many senders.                   *)
LEMMA SendersCount ==
    ASSUME IsFiniteSet(Nodes), TypeOK, CopiesInv
    PROVE  CopiesBounded
<1> SUFFICES ASSUME NEW n \in Nodes, NEW a \in Nodes, NEW p \in 1..chain[a]
             PROVE  Cardinality({i \in 1..Len(feed[n]) :
                                   feed[n][i].blk = [author |-> a, place |-> p]})
                       <= Cardinality(Peers(n)) + 1
  BY DEF CopiesBounded
<1>b. PICK b : b = [author |-> a, place |-> p]
  OBVIOUS
<1>S. PICK S : S = {i \in 1..Len(feed[n]) : feed[n][i].blk = b}
  OBVIOUS
<1>T. PICK T : T = Peers(n) \cup {n}
  OBVIOUS
<1>f. PICK f : f = [i \in S |-> feed[n][i].sender]
  OBVIOUS
<1>1. ASSUME NEW i \in S
      PROVE  feed[n][i] = [blk |-> b, sender |-> f[i]] /\ f[i] \in T
  <2>1. i \in 1..Len(feed[n]) /\ feed[n][i].blk = b /\ f[i] = feed[n][i].sender
    BY <1>S, <1>f
  <2>2. feed[n][i] \in Entry /\ b \in Block /\ f[i] \in Nodes
    BY <2>1, Blocks
  <2>3. feed[n][i] = [blk |-> b, sender |-> f[i]]
    BY <2>1, <2>2 DEF Entry
  <2>4. Published(n, f[i], b)
    BY <2>1, <2>3 DEF Published
  <2>5. f[i] # n => Sent(f[i], n, b)
    BY <2>2, <2>4 DEF CopiesInv, Tokens, Token
  <2>6. f[i] # n => {n, f[i]} \in Topology
    <3>1. {n, f[i]} = {f[i], n}
      OBVIOUS
    <3> QED
      BY <2>2, <2>5, <3>1 DEF CopiesInv, Paths, Along
  <2> QED
    BY <1>T, <2>2, <2>3, <2>6 DEF Peers
<1>2. f \in Injection(S, T)
  <2>1. f \in [S -> T]
    BY <1>1, <1>f
  <2>2. ASSUME NEW i \in S, NEW j \in S, f[i] = f[j] PROVE i = j
    <3>1. feed[n][i] = feed[n][j] /\ i \in 1..Len(feed[n]) /\ j \in 1..Len(feed[n])
      BY <1>1, <1>S, <2>2
    <3> QED
      BY <3>1 DEF CopiesInv, EntriesDiffer
  <2> QED
    BY <2>1, <2>2 DEF Injection, IsInjective
<1>3. IsFiniteSet(Peers(n)) /\ Cardinality(Peers(n)) \in Nat
  <2>1. Peers(n) \in SUBSET Nodes
    BY DEF Peers
  <2>2. IsFiniteSet(Peers(n))
    BY <2>1, FS_Subset
  <2> QED
    BY <2>2, FS_CardinalityType
<1>4. IsFiniteSet(T) /\ Cardinality(T) \in Nat /\ Cardinality(T) <= Cardinality(Peers(n)) + 1
  <2>1. /\ IsFiniteSet(T)
        /\ Cardinality(T) = IF n \in Peers(n) THEN Cardinality(Peers(n))
                            ELSE Cardinality(Peers(n)) + 1
    BY <1>3, <1>T, FS_AddElement
  <2> QED
    BY <1>3, <2>1
<1>5. IsFiniteSet(S) /\ Cardinality(S) <= Cardinality(T)
  BY <1>2, <1>4, FS_Injection
<1>6. Cardinality(S) \in Nat
  BY <1>5, FS_CardinalityType
<1>7. Cardinality(S) <= Cardinality(Peers(n)) + 1
  BY <1>3, <1>4, <1>5, <1>6
<1> QED
  BY <1>7, <1>S, <1>b

(* Flooding ends in every network of finitely many nodes, whatever is lost: *)
(* a feed holds a block once for each peer that can have sent it, and once  *)
(* more if the block is the node's own.                                    *)
THEOREM CopiesAreBounded ==
    ASSUME IsFiniteSet(Nodes), MaxRestarts = 0
    PROVE  Spec => []CopiesBounded
<1>1. TypeOK /\ CopiesInv => CopiesBounded
  BY SendersCount
<1>2. TypeOK /\ PrefixInv /\ CopiesInv /\ [Next]_vars => CopiesInv'
  BY NextCopies
<1> QED
  BY InitSyncType, NextSyncType, InitPrefix, NextPrefix, InitCopies, <1>1, <1>2,
     PTL DEF Spec

=============================================================================
