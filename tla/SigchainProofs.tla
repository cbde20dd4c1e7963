--------------------------- MODULE SigchainProofs ---------------------------
(***************************************************************************)
(* Proofs about Sigchain, for every value of its constants.                *)
(***************************************************************************)
EXTENDS Sigchain, SequenceTheorems, WellFoundedInduction, TLAPS

(* The hashes a handler holds are hashes of blocks, or of the blocks its    *)
(* commit is about to write.                                               *)
LinksOK(h) ==
    /\ tip[h] <= Len(bucket)
    /\ \A i \in 1..Len(outbox[h]) : outbox[h][i] \in 1..Len(bucket)
    /\ \A i \in 1..Len(pend[h]) : pend[h][i].prev < Len(bucket) + i

(* What the locals of a handler are worth at each point of its code. *)
StageOK(h) ==
    /\ pc[h] \in {"open", "create", "tip", "version", "count", "commit"}
          => mine[h] \in Instances
    /\ pc[h] \in {"open", "register", "create", "tip", "version", "count"}
          => todo[h] # <<>>
    /\ pc[h] = "create" => cmsStore # None
    /\ pc[h] = "publish" => outbox[h] # <<>>
    /\ pc[h] = "commit" => pend[h] # <<>>

HandlerOK(h) == LinksOK(h) /\ StageOK(h)

TypeInv ==
    /\ TypeOK
    /\ listed => cmsStore # None
    /\ \A h \in Handlers : HandlerOK(h)

SameLocals(g) ==
    /\ pc'[g] = pc[g] /\ route'[g] = route[g] /\ mine'[g] = mine[g]
    /\ tip'[g] = tip[g] /\ todo'[g] = todo[g] /\ known'[g] = known[g]
    /\ pend'[g] = pend[g] /\ outbox'[g] = outbox[g]

USE RoutesAssumption, CellAssumption, NameAssumption, GenesisAssumption,
    BoundAssumption

-----------------------------------------------------------------------------
(* Lemmas on the steps *)

LEMMA BlockPrev == \A b \in Block : b.prev \in Nat
BY DEF Block

(* Blocks are only ever added, so the hashes a handler holds stay good. *)
LEMMA LinksKept ==
    ASSUME TypeInv, bucket' \in Seq(Block), Len(bucket) <= Len(bucket'),
           NEW g \in Handlers,
           tip'[g] = tip[g], outbox'[g] = outbox[g], pend'[g] = pend[g]
    PROVE  LinksOK(g)'
<1>1. Len(bucket) \in Nat /\ Len(bucket') \in Nat
  BY DEF TypeInv, TypeOK, GlobalsOK
<1>2. tip[g] \in Nat /\ outbox[g] \in Seq(Nat) /\ pend[g] \in Seq(Block)
  BY DEF TypeInv, TypeOK, LocalsOK
<1>3. \A i \in 1..Len(pend[g]) : pend[g][i].prev \in Nat
  BY <1>2, ElementOfSeq, BlockPrev
<1>4. Len(outbox[g]) \in Nat /\ Len(pend[g]) \in Nat
  BY <1>2
<1>5. LinksOK(g)
  BY DEF TypeInv, HandlerOK
<1>6. \A i \in 1..Len(outbox[g]) : outbox'[g][i] \in 1..Len(bucket')
  BY <1>1, <1>4, <1>5 DEF LinksOK
<1>7. \A i \in 1..Len(pend[g]) : pend'[g][i].prev < Len(bucket') + i
  BY <1>1, <1>3, <1>4, <1>5 DEF LinksOK
<1> QED
  BY <1>1, <1>2, <1>5, <1>6, <1>7 DEF LinksOK

(* A handler whose locals a step leaves alone is as it should be after it. *)
LEMMA Frame ==
    ASSUME TypeInv, bucket' \in Seq(Block), Len(bucket) <= Len(bucket'),
           cmsStore # None => cmsStore' # None,
           NEW g \in Handlers, SameLocals(g)
    PROVE  HandlerOK(g)'
<1>1. LinksOK(g)'
  BY LinksKept DEF SameLocals
<1>2. StageOK(g)'
  BY DEF TypeInv, HandlerOK, StageOK, SameLocals, Instances
<1> QED
  BY <1>1, <1>2 DEF HandlerOK

(* Ending requests keeps the types, and suits the handlers that are freed. *)
LEMMA IdleType ==
    ASSUME LocalsOK, NEW hs \in SUBSET Handlers, Idle(hs)
    PROVE  /\ LocalsOK'
           /\ \A h \in hs : /\ pc'[h] = "idle" /\ tip'[h] = 0
                            /\ pend'[h] = <<>> /\ outbox'[h] = <<>>
           /\ \A g \in Handlers \ hs : SameLocals(g)
BY DEF LocalsOK, Idle, SameLocals

(* The invariant's part on handlers after requests have ended. *)
LEMMA IdleHandlers ==
    ASSUME TypeInv, NEW hs \in SUBSET Handlers, Idle(hs),
           bucket' \in Seq(Block), Len(bucket) <= Len(bucket'),
           hs = Handlers \/ cmsStore' = cmsStore
    PROVE  LocalsOK' /\ \A g \in Handlers : HandlerOK(g)'
<1>1. LocalsOK
  BY DEF TypeInv, TypeOK
<1>2. ASSUME NEW g \in hs PROVE HandlerOK(g)'
  <2>1. pc'[g] = "idle" /\ tip'[g] = 0 /\ pend'[g] = <<>> /\ outbox'[g] = <<>>
    BY <1>1, <1>2, IdleType
  <2>2. Len(bucket') \in Nat
    OBVIOUS
  <2> QED
    BY <2>1, <2>2 DEF HandlerOK, LinksOK, StageOK
<1>3. ASSUME NEW g \in Handlers \ hs PROVE HandlerOK(g)'
  BY <1>1, <1>3, IdleType, Frame
<1> QED
  BY <1>1, <1>2, <1>3, IdleType

LEMMA OpenBucketType ==
    ASSUME GlobalsOK, OpenBucket
    PROVE  /\ exists' = TRUE /\ bucket' \in Seq(Block)
           /\ last' \in 0..Len(bucket') /\ Len(bucket) <= Len(bucket')
           /\ \A i \in 1..Len(bucket') : bucket'[i].prev < i
           /\ feed \in Seq(1..Len(bucket'))
<1>1. CASE exists
  BY <1>1 DEF GlobalsOK, OpenBucket
<1>2. CASE ~exists
  <2>1. GenesisBlock \in Block /\ GenesisBlock.prev = 0
    BY DEF GenesisBlock, Block
  <2>2. bucket' = Append(bucket, GenesisBlock) /\ last' = Len(bucket) + 1 /\ exists'
    BY <1>2 DEF OpenBucket
  <2>3. bucket' \in Seq(Block) /\ Len(bucket') = Len(bucket) + 1
        /\ \A i \in 1..Len(bucket) : bucket'[i] = bucket[i]
        /\ bucket'[Len(bucket) + 1] = GenesisBlock
    BY <2>1, <2>2, AppendProperties DEF GlobalsOK
  <2>4. Len(bucket) \in Nat
    BY DEF GlobalsOK
  <2>5. feed \in Seq(1..Len(bucket'))
    BY <2>3, <2>4, SeqMonotonic DEF GlobalsOK
  <2> QED
    BY <2>1, <2>2, <2>3, <2>4, <2>5 DEF GlobalsOK
<1> QED
  BY <1>1, <1>2 DEF GlobalsOK

-----------------------------------------------------------------------------
(* Type correctness *)

(* What is left of a request of more than one tuple is not empty. *)
LEMMA LongerTail ==
    ASSUME NEW S, NEW s \in Seq(S), Len(s) > 1 PROVE Tail(s) # <<>>
<1> DEFINE rest == Tail(s)
<1>1. rest \in Seq(S) /\ Len(rest) = Len(s) - 1 /\ Len(s) \in Nat
  <2>1. s # <<>>
    BY EmptySeq
  <2> QED
    BY <2>1, HeadTailProperties
<1> HIDE DEF rest
<1>2. rest # <<>>
  BY <1>1, EmptySeq
<1> QED
  BY <1>2 DEF rest

LEMMA InitType == Init => TypeInv
<1> SUFFICES ASSUME Init PROVE TypeInv
  OBVIOUS
<1>1. bucket = <<>> /\ feed = <<>> /\ Len(bucket) = 0
  BY DEF Init
<1>2. GlobalsOK
  <2>1. bucket \in Seq(Block) /\ feed \in Seq(1..Len(bucket))
    BY <1>1, EmptySeq
  <2>2. cmsFile \in Counts /\ cms \in [Instances -> Counts]
    BY DEF Init, Counts
  <2>3. last \in 0..Len(bucket) /\ \A i \in 1..Len(bucket) : bucket[i].prev < i
    BY <1>1 DEF Init
  <2>4. writer = None /\ cmsStore = None /\ mode = "down" /\ ~exists /\ ~listed
    BY DEF Init
  <2>5. requests \in Nat /\ crashes \in Nat /\ stops \in Nat /\ faults \in Nat
    BY DEF Init
  <2> QED
    BY <2>1, <2>2, <2>3, <2>4, <2>5 DEF GlobalsOK, Init
<1>3. LocalsOK
  BY DEF Init, AllIdle, LocalsOK
<1>4. ASSUME NEW h \in Handlers PROVE HandlerOK(h)
  BY <1>1 DEF Init, AllIdle, HandlerOK, LinksOK, StageOK
<1> QED
  BY <1>2, <1>3, <1>4 DEF Init, TypeInv, TypeOK

LEMMA StartType == TypeInv /\ Start => TypeInv'
<1> SUFFICES ASSUME TypeInv, Start PROVE TypeInv'
  OBVIOUS
<1>1. GlobalsOK /\ LocalsOK /\ \A h \in Handlers : SameLocals(h)
  BY DEF TypeInv, TypeOK, Start, locals, SameLocals
<1>2. LocalsOK'
  BY <1>1 DEF Start, locals, LocalsOK
<1>3. /\ exists' \in BOOLEAN /\ bucket' \in Seq(Block)
      /\ last' \in 0..Len(bucket') /\ Len(bucket) <= Len(bucket')
      /\ \A i \in 1..Len(bucket') : bucket'[i].prev < i
      /\ feed' \in Seq(1..Len(bucket'))
  <2>1. CASE Default
    BY <1>1, <2>1, OpenBucketType DEF Start
  <2>2. CASE ~Default
    BY <1>1, <2>2 DEF Start, GlobalsOK
  <2> QED
    BY <2>1, <2>2
<1>4. /\ cms' \in [Instances -> Counts] /\ cmsStore' \in Instances \cup {None}
      /\ listed' \in BOOLEAN /\ mode' \in {"starting", "up"}
      /\ listed' => cmsStore' # None
  <2>1. CASE Default
    BY <1>1, <2>1 DEF Start, GlobalsOK, Instances
  <2>2. CASE ~Default
    BY <1>1, <2>2 DEF Start, GlobalsOK, sketches, TypeInv
  <2> QED
    BY <2>1, <2>2
<1>5. GlobalsOK'
  BY <1>1, <1>3, <1>4 DEF Start, GlobalsOK, counters
<1>6. \A h \in Handlers : HandlerOK(h)'
  <2>1. cmsStore # None => cmsStore' # None
    BY DEF Start, sketches
  <2> QED
    BY <1>1, <1>3, <2>1, Frame
<1> QED
  BY <1>2, <1>4, <1>5, <1>6 DEF TypeInv, TypeOK

LEMMA PublishGenesisType == TypeInv /\ PublishGenesis => TypeInv'
<1> SUFFICES ASSUME TypeInv, PublishGenesis PROVE TypeInv'
  OBVIOUS
<1>1. GlobalsOK /\ LocalsOK /\ \A h \in Handlers : SameLocals(h)
  BY DEF TypeInv, TypeOK, PublishGenesis, locals, SameLocals
<1>2. LocalsOK'
  BY <1>1 DEF PublishGenesis, locals, LocalsOK
<1>3. Len(bucket) \in Nat /\ bucket' = bucket /\ bucket \in Seq(Block)
  BY <1>1 DEF GlobalsOK, PublishGenesis
<1>4. feed' \in Seq(1..Len(bucket'))
  <2>1. CASE TipIsGenesis /\ feed' = Append(feed, last)
    <3>1. last \in 1..Len(bucket)
      BY <1>1, <1>3, <2>1 DEF GlobalsOK, TipIsGenesis
    <3> QED
      BY <1>1, <1>3, <2>1, <3>1, AppendProperties DEF GlobalsOK
  <2>2. CASE feed' = feed
    BY <1>1, <1>3, <2>2 DEF GlobalsOK
  <2> QED
    BY <2>1, <2>2 DEF PublishGenesis
<1>5. faults' \in Nat
  BY <1>1 DEF GlobalsOK, PublishGenesis
<1>6. GlobalsOK'
  BY <1>1, <1>3, <1>4, <1>5 DEF PublishGenesis, GlobalsOK, sketches
<1>7. \A h \in Handlers : HandlerOK(h)'
  BY <1>1, <1>3, Frame DEF PublishGenesis, sketches
<1> QED
  BY <1>2, <1>6, <1>7 DEF TypeInv, TypeOK, PublishGenesis, sketches

LEMMA AcceptType ==
    ASSUME TypeInv, NEW h \in Handlers, NEW r \in Routes, Accept(h, r)
    PROVE  /\ requests' \in Nat
           /\ route' \in [Handlers -> Routes \cup {None}]
           /\ todo' \in [Handlers -> Seq(SPs)]
           /\ todo'[h] # <<>>
           /\ \A g \in Handlers \ {h} : route'[g] = route[g] /\ todo'[g] = todo[g]
<1>1. GlobalsOK /\ LocalsOK
  BY DEF TypeInv, TypeOK
<1>2. PICK b \in Batches(r) : todo' = [todo EXCEPT ![h] = b]
  BY DEF Accept
<1>3. PICK n \in Nat \ {0} : b \in [1..n -> SPs]
  <2>1. CASE r = "tuple"
    BY <2>1, <1>2 DEF Batches
  <2>2. CASE r # "tuple"
    <3>1. b \in UNION {[1..n -> SPs] : n \in 1..MaxBatch}
      BY <2>2, <1>2 DEF Batches
    <3>2. PICK n \in 1..MaxBatch : b \in [1..n -> SPs]
      BY <3>1
    <3> QED
      BY <3>2
  <2> QED
    BY <2>1, <2>2
<1>4. b \in Seq(SPs)
  BY <1>3, SeqDef
<1>5. b # <<>>
  <2>1. DOMAIN b = 1..n
    BY <1>3
  <2>2. 1 \in DOMAIN b
    BY <1>3, <2>1
  <2>3. DOMAIN b # {}
    BY <2>2
  <2>4. DOMAIN <<>> = {}
    OBVIOUS
  <2> QED
    BY <2>3, <2>4
<1>6. requests' \in Nat
  BY <1>1 DEF Accept, GlobalsOK
<1>7. /\ route' \in [Handlers -> Routes \cup {None}]
      /\ \A g \in Handlers \ {h} : route'[g] = route[g]
  BY <1>1 DEF Accept, LocalsOK
<1>8. /\ todo' \in [Handlers -> Seq(SPs)] /\ todo'[h] = b
      /\ \A g \in Handlers \ {h} : todo'[g] = todo[g]
  BY <1>1, <1>2, <1>4 DEF LocalsOK
<1> QED
  BY <1>5, <1>6, <1>7, <1>8

(* It is enough to look at the handler that takes the step. *)
LEMMA HandlerStep ==
    ASSUME TypeInv, NEW h \in Handlers, GlobalsOK', LocalsOK',
           Len(bucket) <= Len(bucket'), listed' => cmsStore' # None,
           cmsStore # None => cmsStore' # None,
           \A g \in Handlers \ {h} : SameLocals(g), HandlerOK(h)'
    PROVE  TypeInv'
<1>1. \A g \in Handlers \ {h} : HandlerOK(g)'
  BY Frame DEF GlobalsOK
<1> QED
  BY <1>1 DEF TypeInv, TypeOK

LEMMA OpenType ==
    ASSUME TypeInv, NEW h \in Handlers, OpenKnown(h) \/ OpenNew(h)
    PROVE  TypeInv'
<1>1. PICK r \in Routes : Accept(h, r)
  BY DEF OpenKnown, OpenNew
<1>2. GlobalsOK /\ LocalsOK /\ HandlerOK(h)
  BY DEF TypeInv, TypeOK
<1>3. /\ requests' \in Nat /\ route' \in [Handlers -> Routes \cup {None}]
      /\ todo' \in [Handlers -> Seq(SPs)] /\ todo'[h] # <<>>
      /\ \A g \in Handlers \ {h} : route'[g] = route[g] /\ todo'[g] = todo[g]
  BY <1>1, AcceptType
<1>4. /\ UNCHANGED <<bucket, last, feed, cmsFile, writer, cms, cmsStore, listed, mode,
                     tip, known, pend, outbox, crashes, stops, faults>>
      /\ exists' \in BOOLEAN
  BY <1>2 DEF OpenKnown, OpenNew, disk, sketches, GlobalsOK
<1>5. /\ mine' \in [Handlers -> Instances \cup {None}]
      /\ \A g \in Handlers \ {h} : mine'[g] = mine[g]
  BY <1>2 DEF OpenKnown, OpenNew, GlobalsOK, LocalsOK
<1>6. /\ pc' \in [Handlers -> {"idle", "open", "register", "create", "tip", "version",
                               "count", "commit", "publish"}]
      /\ \A g \in Handlers \ {h} : pc'[g] = pc[g]
      /\ pc'[h] = "register" \/ (pc'[h] = "open" /\ mine'[h] \in Instances)
  BY <1>2 DEF OpenKnown, OpenNew, Goto, GlobalsOK, LocalsOK
<1>7. GlobalsOK'
  BY <1>2, <1>3, <1>4 DEF GlobalsOK
<1>8. LocalsOK'
  BY <1>2, <1>3, <1>4, <1>5, <1>6 DEF LocalsOK
<1>9. HandlerOK(h)'
  <2>1. LinksOK(h)'
    BY <1>2, <1>4, LinksKept DEF GlobalsOK
  <2>2. StageOK(h)'
    BY <1>3, <1>6 DEF StageOK, Instances
  <2> QED
    BY <2>1, <2>2 DEF HandlerOK
<1>10. \A g \in Handlers \ {h} : SameLocals(g)
  BY <1>3, <1>4, <1>5, <1>6 DEF SameLocals
<1>11. Len(bucket) <= Len(bucket')
  BY <1>2, <1>4 DEF GlobalsOK
<1> QED
  BY <1>4, <1>7, <1>8, <1>9, <1>10, <1>11, HandlerStep DEF TypeInv

LEMMA RegisterType ==
    ASSUME TypeInv, NEW h \in Handlers, RegisterCMS(h) PROVE TypeInv'
<1>1. GlobalsOK /\ LocalsOK /\ HandlerOK(h) /\ h \in Instances
  BY DEF TypeInv, TypeOK, Instances
<1>2. GlobalsOK'
  BY <1>1 DEF RegisterCMS, GlobalsOK, disk, counters
<1>3. LocalsOK' /\ mine'[h] = h /\ pc'[h] = "create"
  BY <1>1 DEF RegisterCMS, LocalsOK, Goto
<1>6. Len(bucket) <= Len(bucket') /\ cmsStore' # None
  BY <1>1 DEF RegisterCMS, GlobalsOK, disk
<1>4. HandlerOK(h)'
  <2>1. LinksOK(h)'
    BY <1>1, <1>6, LinksKept DEF RegisterCMS, GlobalsOK, disk
  <2>2. StageOK(h)'
    BY <1>1, <1>3, <1>6 DEF RegisterCMS, HandlerOK, StageOK, Instances
  <2> QED
    BY <2>1, <2>2 DEF HandlerOK
<1>5. \A g \in Handlers \ {h} : SameLocals(g)
  BY <1>1 DEF RegisterCMS, LocalsOK, SameLocals, Goto
<1> QED
  BY <1>2, <1>3, <1>4, <1>5, <1>6, HandlerStep

LEMMA CreateType ==
    ASSUME TypeInv, NEW h \in Handlers, CreateGenesis(h) PROVE TypeInv'
<1>1. GlobalsOK /\ LocalsOK /\ HandlerOK(h)
  BY DEF TypeInv, TypeOK
<1>2. /\ exists' = TRUE /\ bucket' \in Seq(Block)
      /\ last' \in 0..Len(bucket') /\ Len(bucket) <= Len(bucket')
      /\ \A i \in 1..Len(bucket') : bucket'[i].prev < i
      /\ feed \in Seq(1..Len(bucket'))
  BY <1>1, OpenBucketType DEF CreateGenesis
<1>3. GlobalsOK'
  BY <1>1, <1>2 DEF CreateGenesis, GlobalsOK, counters
<1>4. LocalsOK'
  BY <1>1 DEF CreateGenesis, LocalsOK, Goto
<1>7. cmsStore' # None
  BY <1>1 DEF CreateGenesis, HandlerOK, StageOK
<1>5. HandlerOK(h)'
  <2>1. /\ tip'[h] = tip[h] /\ mine'[h] = mine[h] /\ todo'[h] = todo[h]
        /\ pend'[h] = pend[h] /\ outbox'[h] = outbox[h]
        /\ pc[h] = "create" /\ pc'[h] = "tip"
    BY <1>1 DEF CreateGenesis, LocalsOK, Goto
  <2> QED
    BY <1>1, <1>2, <1>7, <2>1, LinksKept DEF HandlerOK, StageOK, Instances
<1>6. \A g \in Handlers \ {h} : SameLocals(g)
  BY <1>1 DEF CreateGenesis, LocalsOK, SameLocals, Goto
<1> QED
  BY <1>2, <1>3, <1>4, <1>5, <1>6, <1>7, HandlerStep

LEMMA BucketsType ==
    ASSUME TypeInv, NEW h \in Handlers, OpenBuckets(h) PROVE TypeInv'
<1>1. GlobalsOK /\ LocalsOK /\ HandlerOK(h)
  BY DEF TypeInv, TypeOK
<1>2. UNCHANGED <<bucket, last, feed, cmsFile, writer, cms, cmsStore, listed, mode,
                  requests, crashes, stops, faults>> /\ exists'
  BY DEF OpenBuckets, sketches, counters
<1>3. GlobalsOK'
  BY <1>1, <1>2 DEF OpenBuckets, GlobalsOK
<1>4. LocalsOK'
  BY <1>1 DEF OpenBuckets, LocalsOK, Goto
<1>5. HandlerOK(h)'
  <2>1. /\ tip'[h] = tip[h] /\ mine'[h] = mine[h] /\ todo'[h] = todo[h]
        /\ pend'[h] = pend[h] /\ outbox'[h] = outbox[h]
        /\ pc[h] = "open" /\ pc'[h] = "tip"
    BY <1>1 DEF OpenBuckets, LocalsOK, Goto
  <2> QED
    BY <1>1, <1>2, <2>1, LinksKept DEF HandlerOK, StageOK, GlobalsOK
<1>6. \A g \in Handlers \ {h} : SameLocals(g)
  BY <1>1 DEF OpenBuckets, LocalsOK, SameLocals, Goto
<1>7. Len(bucket) <= Len(bucket')
  BY <1>1, <1>2 DEF GlobalsOK
<1> QED
  BY <1>2, <1>3, <1>4, <1>5, <1>6, <1>7, HandlerStep DEF TypeInv

(* AddNewBlock(s): each step moves one handler on.                          *)
LEMMA ReadTipType ==
    ASSUME TypeInv, NEW h \in Handlers, ReadTip(h) PROVE TypeInv'
<1>1. GlobalsOK /\ LocalsOK /\ LinksOK(h) /\ StageOK(h) /\ pc[h] = "tip"
  BY DEF TypeInv, TypeOK, HandlerOK, ReadTip
<1>2. GlobalsOK'
  BY <1>1 DEF ReadTip, GlobalsOK, disk, sketches, counters
<1>3. /\ LocalsOK' /\ pc'[h] = "version" /\ tip'[h] = last
      /\ mine'[h] = mine[h] /\ todo'[h] = todo[h]
      /\ pend'[h] = pend[h] /\ outbox'[h] = outbox[h]
  BY <1>1 DEF ReadTip, LocalsOK, GlobalsOK, Goto
<1>4. HandlerOK(h)'
  <2>1. StageOK(h)'
    BY <1>1, <1>3 DEF StageOK, Instances
  <2>2. LinksOK(h)'
    BY <1>1, <1>3 DEF LinksOK, GlobalsOK, ReadTip, disk
  <2> QED
    BY <2>1, <2>2 DEF HandlerOK
<1>5. \A g \in Handlers \ {h} : SameLocals(g)
  BY <1>1 DEF ReadTip, LocalsOK, SameLocals, Goto
<1>6. /\ Len(bucket) <= Len(bucket')
      /\ listed' => cmsStore' # None
      /\ cmsStore # None => cmsStore' # None
  BY <1>1 DEF ReadTip, GlobalsOK, TypeInv, disk, sketches
<1> QED
  BY <1>2, <1>3, <1>4, <1>5, <1>6, HandlerStep

LEMMA EstimateType ==
    ASSUME TypeInv, NEW h \in Handlers, Estimate(h) PROVE TypeInv'
<1>1. GlobalsOK /\ LocalsOK /\ LinksOK(h) /\ StageOK(h) /\ pc[h] = "version"
  BY DEF TypeInv, TypeOK, HandlerOK, Estimate
<1>2. GlobalsOK'
  BY <1>1 DEF Estimate, GlobalsOK, disk, sketches, counters
<1>3. cms[mine[h]][Cell[Head(todo[h])]] \in Nat
  <2>1. mine[h] \in Instances /\ Head(todo[h]) \in SPs
    BY <1>1, HeadTailProperties DEF StageOK, LocalsOK
  <2> QED
    BY <1>1, <2>1 DEF GlobalsOK, Counts
<1>4. /\ LocalsOK' /\ pc'[h] = "count" /\ tip'[h] = tip[h]
      /\ mine'[h] = mine[h] /\ todo'[h] = todo[h]
      /\ pend'[h] = pend[h] /\ outbox'[h] = outbox[h]
  BY <1>1, <1>3 DEF Estimate, LocalsOK, Goto
<1>5. HandlerOK(h)'
  <2>1. StageOK(h)'
    BY <1>1, <1>4 DEF StageOK, Instances
  <2>2. LinksOK(h)'
    BY <1>1, <1>4, LinksKept DEF GlobalsOK, Estimate, disk
  <2> QED
    BY <2>1, <2>2 DEF HandlerOK
<1>6. \A g \in Handlers \ {h} : SameLocals(g)
  BY <1>1 DEF Estimate, LocalsOK, SameLocals, Goto
<1>7. /\ Len(bucket) <= Len(bucket')
      /\ listed' => cmsStore' # None
      /\ cmsStore # None => cmsStore' # None
  BY <1>1 DEF Estimate, GlobalsOK, TypeInv, disk, sketches
<1> QED
  BY <1>2, <1>4, <1>5, <1>6, <1>7, HandlerStep

LEMMA CountType ==
    ASSUME TypeInv, NEW h \in Handlers, Count(h) PROVE TypeInv'
<1>1. GlobalsOK /\ LocalsOK /\ LinksOK(h) /\ StageOK(h) /\ pc[h] = "count"
  BY DEF TypeInv, TypeOK, HandlerOK, Count
<1> DEFINE new == [prev |-> LastHash(h), sp |-> Head(todo[h]),
                   ver  |-> NextVersion(known[h])]
<1>2. /\ mine[h] \in Instances
      /\ Head(todo[h]) \in SPs /\ Tail(todo[h]) \in Seq(SPs)
      /\ Len(Tail(todo[h])) = Len(todo[h]) - 1
  BY <1>1, HeadTailProperties DEF StageOK, LocalsOK
<1>3. /\ Len(bucket) \in Nat /\ Len(pend[h]) \in Nat
      /\ tip[h] \in Nat /\ known[h] \in Nat /\ Len(todo[h]) \in Nat
      /\ pend[h] \in Seq(Block) /\ outbox[h] \in Seq(Nat)
  BY SMTT(20), <1>1 DEF GlobalsOK, LocalsOK
<1>4. LastHash(h) \in Nat /\ LastHash(h) < Len(bucket) + (Len(pend[h]) + 1)
  BY <1>1, <1>3 DEF LastHash, LinksOK
<1>5. new \in Block
  BY <1>2, <1>3, <1>4 DEF Block, NextVersion
<1>6. cms' \in [Instances -> Counts]
  <2> DEFINE c == Cell[Head(todo[h])]
             counts == [cms[mine[h]] EXCEPT ![c] = @ + 1]
  <2>1. cms \in [Instances -> [Cells -> Nat]] /\ c \in Cells
    BY <1>1, <1>2 DEF GlobalsOK, Counts
  <2>2. counts \in [Cells -> Nat]
    BY <1>2, <2>1
  <2>3. cms' = [cms EXCEPT ![mine[h]] = counts]
    BY <1>1, <1>2, <2>1 DEF Count
  <2> HIDE DEF counts
  <2> QED
    BY <1>2, <2>1, <2>2, <2>3 DEF Counts
<1>7. GlobalsOK'
  BY <1>1, <1>6 DEF Count, GlobalsOK, disk, counters
<1>8. /\ pend'[h] = Append(pend[h], new) /\ pend' \in [Handlers -> Seq(Block)]
      /\ \A g \in Handlers \ {h} : pend'[g] = pend[g]
  <2>1. Append(pend[h], new) \in Seq(Block)
    BY <1>3, <1>5, AppendProperties
  <2>2. pend' = [pend EXCEPT ![h] = Append(pend[h], new)]
    BY DEF Count
  <2> HIDE DEF new
  <2> QED
    BY <1>1, <2>1, <2>2 DEF LocalsOK
<1>9. /\ todo'[h] = Tail(todo[h]) /\ todo' \in [Handlers -> Seq(SPs)]
      /\ \A g \in Handlers \ {h} : todo'[g] = todo[g]
  BY <1>1, <1>2 DEF Count, LocalsOK
<1>10. /\ pc' \in [Handlers -> {"idle", "open", "register", "create", "tip", "version",
                                "count", "commit", "publish"}]
       /\ pc'[h] = (IF Len(todo[h]) > 1 THEN "version" ELSE "commit")
       /\ \A g \in Handlers \ {h} : pc'[g] = pc[g]
  BY <1>1 DEF Count, Goto, LocalsOK
<1>11. LocalsOK'
  BY <1>1, <1>8, <1>9, <1>10 DEF LocalsOK, Count
<1>12. \A g \in Handlers \ {h} : SameLocals(g)
  BY <1>8, <1>9, <1>10 DEF SameLocals, Count
<1>13. LinksOK(h)'
  <2>1. /\ Len(pend'[h]) = Len(pend[h]) + 1
        /\ \A i \in 1..Len(pend[h]) : pend'[h][i] = pend[h][i]
        /\ pend'[h][Len(pend[h]) + 1] = new
    BY <1>3, <1>5, <1>8, AppendProperties
  <2>2. new.prev = LastHash(h)
    OBVIOUS
  <2> HIDE DEF new
  <2>3. \A i \in 1..Len(pend'[h]) : pend'[h][i].prev < Len(bucket) + i
    <3> SUFFICES ASSUME NEW i \in 1..Len(pend'[h])
                 PROVE  pend'[h][i].prev < Len(bucket) + i
      OBVIOUS
    <3>1. CASE i \in 1..Len(pend[h])
      BY <1>1, <2>1, <3>1 DEF LinksOK
    <3>2. CASE i = Len(pend[h]) + 1
      BY <1>4, <2>1, <2>2, <3>2
    <3> QED
      BY <1>3, <2>1, <3>1, <3>2
  <2> QED
    BY <1>1, <2>3 DEF LinksOK, Count, disk
<1>14. StageOK(h)'
  <2>1. pend'[h] # <<>>
    BY <1>3, <1>5, <1>8, AppendProperties
  <2>2. Len(todo[h]) > 1 => Tail(todo[h]) # <<>>
    <3>1. todo[h] \in Seq(SPs)
      BY <1>1 DEF LocalsOK
    <3> QED
      BY <3>1, LongerTail
  <2>3. Len(todo[h]) > 1 => todo'[h] # <<>>
    BY <1>9, <2>2
  <2> QED
    BY <1>2, <1>10, <2>1, <2>3 DEF StageOK, Count, Instances
<1> QED
  BY <1>1, <1>3, <1>7, <1>11, <1>12, <1>13, <1>14, HandlerStep
  DEF Count, TypeInv, disk, HandlerOK

LEMMA CommitType ==
    ASSUME TypeInv, NEW h \in Handlers, Commit(h) PROVE TypeInv'
<1>1. GlobalsOK /\ LocalsOK /\ LinksOK(h) /\ StageOK(h) /\ pc[h] = "commit"
  BY DEF TypeInv, TypeOK, HandlerOK, Commit
<1>2. /\ bucket \in Seq(Block) /\ pend[h] \in Seq(Block) /\ pend[h] # <<>>
      /\ Len(bucket) \in Nat /\ Len(pend[h]) \in Nat /\ Len(pend[h]) # 0
  BY <1>1, EmptySeq DEF GlobalsOK, LocalsOK, StageOK
<1>3. /\ bucket' \in Seq(Block) /\ Len(bucket') = Len(bucket) + Len(pend[h])
      /\ \A i \in 1..Len(bucket') : bucket'[i] =
            IF i <= Len(bucket) THEN bucket[i] ELSE pend[h][i - Len(bucket)]
  BY <1>2, ConcatProperties DEF Commit
<1>4. \A i \in 1..Len(bucket') : bucket'[i].prev < i
  <2> SUFFICES ASSUME NEW i \in 1..Len(bucket') PROVE bucket'[i].prev < i
    OBVIOUS
  <2>1. CASE i <= Len(bucket)
    <3>1. i \in 1..Len(bucket) /\ bucket'[i] = bucket[i]
      BY <1>2, <1>3, <2>1
    <3> QED
      BY <1>1, <3>1 DEF GlobalsOK
  <2>2. CASE i > Len(bucket)
    <3>1. i - Len(bucket) \in 1..Len(pend[h])
      BY <1>2, <1>3, <2>2
    <3>2. pend[h][i - Len(bucket)].prev < Len(bucket) + (i - Len(bucket))
      <4>1. \A j \in 1..Len(pend[h]) : pend[h][j].prev < Len(bucket) + j
        BY <1>1 DEF LinksOK
      <4> QED
        BY <3>1, <4>1
    <3>3. bucket'[i] = pend[h][i - Len(bucket)]
      BY <1>2, <1>3, <2>2
    <3>4. Len(bucket) + (i - Len(bucket)) = i
      BY <1>2
    <3> QED
      BY <3>2, <3>3, <3>4
  <2> QED
    BY <1>2, <2>1, <2>2
<1>5. feed' \in Seq(1..Len(bucket')) /\ last' \in 0..Len(bucket')
  <2>1. feed \in Seq(1..Len(bucket'))
    BY <1>1, <1>2, <1>3, SeqMonotonic DEF GlobalsOK
  <2> QED
    BY <1>2, <1>3, <2>1 DEF Commit
<1>6. GlobalsOK'
  BY <1>1, <1>3, <1>4, <1>5 DEF Commit, GlobalsOK, sketches, counters
<1> DEFINE hashes == [i \in 1..Len(pend[h]) |-> Len(bucket) + i]
<1>7. /\ hashes \in Seq(Nat) /\ Len(hashes) = Len(pend[h])
      /\ \A i \in 1..Len(hashes) : hashes[i] \in 1..Len(bucket')
  BY <1>2, <1>3
<1>8. /\ outbox' \in [Handlers -> Seq(Nat)] /\ outbox'[h] = hashes
      /\ \A g \in Handlers \ {h} : outbox'[g] = outbox[g]
  <2>1. outbox' = [outbox EXCEPT ![h] = hashes]
    BY DEF Commit
  <2> HIDE DEF hashes
  <2> QED
    BY <1>1, <1>7, <2>1 DEF LocalsOK
<1> HIDE DEF hashes
<1>9. /\ LocalsOK' /\ pc'[h] = "publish" /\ pend'[h] = <<>> /\ tip'[h] = tip[h]
      /\ \A g \in Handlers \ {h} : pc'[g] = pc[g] /\ pend'[g] = pend[g]
  BY <1>1, <1>8 DEF Commit, LocalsOK, Goto
<1>10. \A g \in Handlers \ {h} : SameLocals(g)
  BY <1>8, <1>9 DEF Commit, SameLocals
<1>11. HandlerOK(h)'
  <2>1. tip'[h] <= Len(bucket')
    BY <1>1, <1>2, <1>3, <1>9 DEF LinksOK, LocalsOK
  <2>2. LinksOK(h)'
    BY <1>7, <1>8, <1>9, <2>1 DEF LinksOK
  <2>3. outbox'[h] # <<>>
    BY <1>2, <1>7, <1>8
  <2>4. StageOK(h)'
    BY <1>9, <2>3 DEF StageOK
  <2> QED
    BY <2>2, <2>4 DEF HandlerOK
<1> QED
  BY <1>2, <1>3, <1>6, <1>9, <1>10, <1>11, HandlerStep DEF Commit, TypeInv, sketches

LEMMA PublishType ==
    ASSUME TypeInv, NEW h \in Handlers, Publish(h) PROVE TypeInv'
<1>1. GlobalsOK /\ LocalsOK /\ LinksOK(h) /\ StageOK(h) /\ pc[h] = "publish"
  BY DEF TypeInv, TypeOK, HandlerOK, Publish
<1>2. /\ outbox[h] \in Seq(Nat) /\ outbox[h] # <<>>
      /\ Len(outbox[h]) \in Nat \ {0}
      /\ Tail(outbox[h]) \in Seq(Nat) /\ Len(Tail(outbox[h])) = Len(outbox[h]) - 1
      /\ \A i \in 1..Len(Tail(outbox[h])) : Tail(outbox[h])[i] = outbox[h][i + 1]
  BY <1>1, EmptySeq, HeadTailProperties DEF StageOK, LocalsOK
<1>3. Head(outbox[h]) = outbox[h][1] /\ Head(outbox[h]) \in 1..Len(bucket)
  BY <1>1, <1>2 DEF LinksOK
<1>4. bucket' = bucket /\ Len(bucket) \in Nat /\ bucket \in Seq(Block)
  BY <1>1 DEF Publish, GlobalsOK
<1>5. feed' \in Seq(1..Len(bucket'))
  BY <1>1, <1>3, <1>4, AppendProperties DEF Publish, GlobalsOK
<1>6. GlobalsOK'
  BY <1>1, <1>4, <1>5 DEF Publish, GlobalsOK, sketches, counters
<1>7. CASE Len(outbox[h]) > 1
  <2>1. /\ outbox' = [outbox EXCEPT ![h] = Tail(outbox[h])]
        /\ UNCHANGED <<pc, route, mine, tip, todo, known, pend>>
    BY <1>7 DEF Publish
  <2>2. LocalsOK' /\ outbox'[h] = Tail(outbox[h])
    BY <1>1, <1>2, <2>1 DEF LocalsOK
  <2>3. \A g \in Handlers \ {h} : SameLocals(g)
    BY <1>1, <2>1 DEF SameLocals, LocalsOK
  <2>4. \A i \in 1..Len(outbox'[h]) : outbox'[h][i] \in 1..Len(bucket)
    BY <1>1, <1>2, <2>2 DEF LinksOK
  <2>5. Len(outbox'[h]) >= 1
    BY <1>2, <1>7, <2>2
  <2>6. LinksOK(h)' /\ StageOK(h)'
    <3>1. outbox'[h] # <<>>
      BY <2>5
    <3>2. StageOK(h)'
      BY <1>1, <2>1, <3>1 DEF StageOK
    <3> QED
      BY <1>1, <1>4, <2>1, <2>4, <3>2 DEF LinksOK
  <2>7. /\ Len(bucket) <= Len(bucket')
        /\ listed' => cmsStore' # None
        /\ cmsStore # None => cmsStore' # None
    BY <1>4 DEF Publish, sketches, TypeInv
  <2> QED
    BY <1>6, <2>2, <2>3, <2>6, <2>7, HandlerStep DEF HandlerOK
<1>8. CASE ~(Len(outbox[h]) > 1)
  <2>1. Idle({h}) /\ UNCHANGED sketches
    BY <1>8 DEF Publish
  <2>2. Len(bucket) <= Len(bucket') /\ bucket' \in Seq(Block)
    BY <1>4
  <2>3. LocalsOK' /\ \A g \in Handlers : HandlerOK(g)'
    BY <2>1, <2>2, IdleHandlers DEF sketches
  <2> QED
    BY <1>6, <2>1, <2>3 DEF TypeInv, TypeOK, sketches
<1> QED
  BY <1>7, <1>8

(* Requests that end in an error. *)
LEMMA FailType ==
    ASSUME TypeInv, NEW h \in Handlers, Abort(h) \/ Refused(h) \/ PublishFails(h)
    PROVE  TypeInv'
<1>1. GlobalsOK /\ LocalsOK
  BY DEF TypeInv, TypeOK
<1>2. /\ Idle({h}) /\ UNCHANGED <<exists, bucket, last, feed, cmsFile, cms, cmsStore,
                                  listed, mode, requests, crashes, stops>>
      /\ writer' \in {writer, None} /\ faults' \in {faults, faults + 1}
  BY DEF Abort, Refused, PublishFails, disk, sketches, counters
<1>3. GlobalsOK'
  BY <1>1, <1>2 DEF GlobalsOK
<1>4. Len(bucket) <= Len(bucket') /\ bucket' \in Seq(Block)
  BY <1>1, <1>2 DEF GlobalsOK
<1>5. LocalsOK' /\ \A g \in Handlers : HandlerOK(g)'
  BY <1>2, <1>4, IdleHandlers
<1> QED
  BY <1>2, <1>3, <1>5 DEF TypeInv, TypeOK

(* A crash, or the end of a clean shutdown. *)
LEMMA HaltType ==
    ASSUME TypeInv, Exit \/ Crash PROVE TypeInv'
<1>1. GlobalsOK /\ LocalsOK
  BY DEF TypeInv, TypeOK
<1>2. Halt /\ UNCHANGED <<requests, stops, faults>> /\ crashes' \in {crashes, crashes + 1}
  BY DEF Exit, Crash, counters
<1>3. cms' \in [Instances -> Counts]
  BY <1>2 DEF Halt, Counts
<1>4. GlobalsOK'
  <2>1. /\ UNCHANGED <<exists, bucket, last, feed, cmsFile>>
        /\ mode' = "down" /\ writer' = None /\ cmsStore' = None /\ listed' = FALSE
    BY <1>2 DEF Halt, disk
  <2>2. crashes' \in Nat
    BY <1>1, <1>2 DEF GlobalsOK
  <2> QED
    BY <1>1, <1>2, <1>3, <2>1, <2>2 DEF GlobalsOK
<1>5. Len(bucket) <= Len(bucket') /\ bucket' \in Seq(Block)
  BY <1>1, <1>2 DEF GlobalsOK, Halt, disk
<1>6. LocalsOK' /\ \A g \in Handlers : HandlerOK(g)'
  BY <1>2, <1>5, IdleHandlers DEF Halt
<1> QED
  BY <1>2, <1>4, <1>6 DEF TypeInv, TypeOK, Halt

LEMMA CloseType ==
    ASSUME TypeInv, SaveCMS \/ CloseDB \/ UNCHANGED vars PROVE TypeInv'
<1>1. GlobalsOK /\ LocalsOK
  BY DEF TypeInv, TypeOK
<1>2. UNCHANGED <<exists, bucket, last, feed, writer, cms, cmsStore, listed, pc, route,
                  mine, tip, todo, known, pend, outbox, requests, crashes, faults>>
  BY DEF SaveCMS, CloseDB, vars, disk, sketches, locals, counters
<1>3. cmsFile' \in Counts /\ mode' \in {mode, "saved", "closed"} /\ stops' \in {stops, stops + 1}
  BY <1>1 DEF SaveCMS, CloseDB, vars, disk, counters, GlobalsOK, TypeInv
<1>4. GlobalsOK'
  BY <1>1, <1>2, <1>3 DEF GlobalsOK
<1>5. LocalsOK' /\ \A g \in Handlers : SameLocals(g)
  BY <1>1, <1>2 DEF LocalsOK, SameLocals
<1>6. Len(bucket) <= Len(bucket') /\ bucket' \in Seq(Block)
  BY <1>1, <1>2 DEF GlobalsOK
<1>7. \A g \in Handlers : HandlerOK(g)'
  BY <1>2, <1>5, <1>6, Frame
<1> QED
  BY <1>2, <1>4, <1>5, <1>7 DEF TypeInv, TypeOK

LEMMA NextType == TypeInv /\ [Next]_vars => TypeInv'
<1> SUFFICES ASSUME TypeInv, [Next]_vars PROVE TypeInv'
  OBVIOUS
<1>1. ASSUME NEW h \in Handlers, Serve(h) PROVE TypeInv'
  BY <1>1, OpenType, BucketsType, RegisterType, CreateType, ReadTipType, EstimateType,
     CountType, CommitType, PublishType, FailType DEF Serve
<1>2. CASE Start \/ PublishGenesis
  BY <1>2, StartType, PublishGenesisType
<1>3. CASE SaveCMS \/ CloseDB \/ Quiescent \/ UNCHANGED vars
  BY <1>3, CloseType DEF Quiescent
<1>4. CASE Exit \/ Crash
  BY <1>4, HaltType
<1> QED
  BY <1>1, <1>2, <1>3, <1>4 DEF Next

(* Every variable keeps its type, links point to earlier blocks, and only   *)
(* hashes of blocks are on the feed: for every number of handlers, on       *)
(* either route, whatever fails.                                           *)
THEOREM TypeCorrect == Spec => []TypeOK
<1>1. TypeInv => TypeOK
  BY DEF TypeInv
<1> QED
  BY InitType, NextType, <1>1, PTL DEF Spec

-----------------------------------------------------------------------------
(* No fork, when blocks are added by AddNewBlocks or one request at a time  *)

OneAtATime == \A g, h \in Handlers : g = h

Appending == Routes = {"tuples"} \/ OneAtATime

(* A handler of AddNewBlocks holds bolt's lock from its reading of the tip  *)
(* to its commit; meanwhile the tip it read is the end of the chain and its *)
(* blocks continue the chain. A single handler needs no lock for that.      *)
Exclusive(h) ==
    /\ pc[h] # "idle" => route[h] = "tuples" \/ OneAtATime
    /\ pc[h] \in {"tip", "version", "count", "commit"} => exists
    /\ pc[h] \in {"version", "count", "commit"}
          => tip[h] = Len(bucket) /\ (writer = h \/ OneAtATime)
    /\ pc[h] \notin {"version", "count", "commit"} => pend[h] = <<>>
    /\ \A i \in 1..Len(pend[h]) : pend[h][i].prev = Len(bucket) + i - 1

(* The blocks form one list in the order of their commits, and "l" is its end. *)
Linear ==
    /\ \A i \in 1..Len(bucket) : bucket[i].prev = i - 1
    /\ last = Len(bucket)
    /\ ~exists => bucket = <<>>

ChainInv ==
    /\ Linear
    /\ mode = "down" => \A h \in Handlers : pc[h] = "idle"
    /\ \A h \in Handlers : Exclusive(h)

LEMMA InitChain == Init => ChainInv
<1> SUFFICES ASSUME Init PROVE ChainInv
  OBVIOUS
<1>1. bucket = <<>> /\ Len(bucket) = 0 /\ last = 0 /\ \A h \in Handlers : pc[h] = "idle"
  BY DEF Init, AllIdle
<1>2. \A h \in Handlers : pend[h] = <<>> /\ Len(pend[h]) = 0
  BY DEF Init, AllIdle
<1> QED
  BY <1>1, <1>2 DEF ChainInv, Linear, Exclusive

(* A handler stays exclusive in a step that leaves it and the chain alone   *)
(* and does not take the lock from it.                                     *)
LEMMA ExclusiveFrame ==
    ASSUME NEW g \in Handlers, Exclusive(g), SameLocals(g), bucket' = bucket,
           exists => exists', writer = g => writer' = g
    PROVE  Exclusive(g)'
BY DEF Exclusive, SameLocals

(* A step of handler h that adds no block. *)
LEMMA ChainStep ==
    ASSUME ChainInv, NEW h \in Handlers, UNCHANGED <<bucket, last, mode>>,
           exists => exists', \A g \in Handlers \ {h} : SameLocals(g),
           \A g \in Handlers \ {h} : writer = g => writer' = g,
           pc[h] # "idle" \/ mode # "down", Exclusive(h)'
    PROVE  ChainInv'
<1>1. \A g \in Handlers \ {h} : Exclusive(g)'
  BY ExclusiveFrame DEF ChainInv
<1>2. Linear'
  BY DEF ChainInv, Linear
<1>3. mode' # "down"
  BY DEF ChainInv
<1> QED
  BY <1>1, <1>2, <1>3 DEF ChainInv

LEMMA OpenChain ==
    ASSUME Appending, TypeInv, ChainInv, NEW h \in Handlers,
           OpenKnown(h) \/ OpenNew(h)
    PROVE  ChainInv'
<1>1. LocalsOK /\ Exclusive(h)
  BY DEF TypeInv, TypeOK, ChainInv
<1>2. PICK r \in Routes : Accept(h, r)
  BY DEF OpenKnown, OpenNew
<1>3. (route'[h] = "tuples" \/ OneAtATime) /\ pc[h] = "idle" /\ mode # "down"
  BY <1>1, <1>2 DEF Accept, LocalsOK, Appending
<1>4. /\ UNCHANGED <<bucket, last, mode, writer, pend>>
      /\ exists => exists'
  BY DEF OpenKnown, OpenNew, disk, sketches
<1>5. pc'[h] \in {"register", "open"}
  BY <1>1 DEF OpenKnown, OpenNew, Goto, LocalsOK
<1>6. \A g \in Handlers \ {h} : SameLocals(g)
  BY <1>1 DEF OpenKnown, OpenNew, Accept, Goto, LocalsOK, SameLocals
<1>7. Exclusive(h)'
  BY <1>1, <1>3, <1>4, <1>5 DEF Exclusive
<1> QED
  BY <1>3, <1>4, <1>6, <1>7, ChainStep

LEMMA BucketsChain ==
    ASSUME TypeInv, ChainInv, NEW h \in Handlers, OpenBuckets(h)
    PROVE  ChainInv'
<1>1. LocalsOK /\ Exclusive(h)
  BY DEF TypeInv, TypeOK, ChainInv
<1>2. /\ UNCHANGED <<bucket, last, mode, writer, pend, route>> /\ exists'
      /\ pc[h] = "open" /\ pc'[h] = "tip"
  BY <1>1 DEF OpenBuckets, Goto, LocalsOK
<1>3. \A g \in Handlers \ {h} : SameLocals(g)
  BY <1>1 DEF OpenBuckets, Goto, LocalsOK, SameLocals
<1>4. Exclusive(h)'
  BY <1>1, <1>2 DEF Exclusive
<1> QED
  BY <1>2, <1>3, <1>4, ChainStep

LEMMA RegisterChain ==
    ASSUME TypeInv, ChainInv, NEW h \in Handlers, RegisterCMS(h)
    PROVE  ChainInv'
<1>1. LocalsOK /\ Exclusive(h)
  BY DEF TypeInv, TypeOK, ChainInv
<1>2. /\ UNCHANGED <<bucket, last, mode, writer, exists, pend, route>>
      /\ pc[h] = "register" /\ pc'[h] = "create"
  BY <1>1 DEF RegisterCMS, disk, Goto, LocalsOK
<1>3. \A g \in Handlers \ {h} : SameLocals(g)
  BY <1>1 DEF RegisterCMS, Goto, LocalsOK, SameLocals
<1>4. Exclusive(h)'
  BY <1>1, <1>2 DEF Exclusive
<1> QED
  BY <1>2, <1>3, <1>4, ChainStep

(* The genesis block goes into an empty chain only. *)
LEMMA OpenBucketLinear ==
    ASSUME GlobalsOK, Linear, OpenBucket
    PROVE  Linear' /\ exists' /\ (exists => bucket' = bucket)
<1>1. CASE exists
  BY <1>1 DEF OpenBucket, Linear
<1>2. CASE ~exists
  <2>1. bucket = <<>> /\ bucket' = Append(bucket, GenesisBlock) /\ last' = 1 /\ exists'
    BY <1>2 DEF OpenBucket, Linear
  <2>2. GenesisBlock \in Block /\ GenesisBlock.prev = 0
    BY DEF GenesisBlock, Block
  <2>3. Len(bucket') = 1 /\ bucket'[1] = GenesisBlock
    BY <2>1
  <2>4. \A i \in 1..Len(bucket') : bucket'[i].prev = i - 1
    BY <2>2, <2>3
  <2> QED
    BY <1>2, <2>1, <2>3, <2>4 DEF Linear
<1> QED
  BY <1>1, <1>2 DEF GlobalsOK

LEMMA CreateChain ==
    ASSUME TypeInv, ChainInv, NEW h \in Handlers, CreateGenesis(h)
    PROVE  ChainInv'
<1>1. GlobalsOK /\ LocalsOK /\ Exclusive(h) /\ Linear
  BY DEF TypeInv, TypeOK, ChainInv
<1>2. Linear' /\ exists' /\ (exists => bucket' = bucket)
  BY <1>1, OpenBucketLinear DEF CreateGenesis
<1>3. /\ pc[h] = "create" /\ pc'[h] = "tip" /\ writer = None
      /\ UNCHANGED <<route, writer, mode, pend, tip>>
      /\ \A g \in Handlers \ {h} : SameLocals(g)
  BY <1>1 DEF CreateGenesis, Goto, LocalsOK, SameLocals
<1>4. ASSUME NEW g \in Handlers \ {h} PROVE Exclusive(g)'
  <2>1. Exclusive(g) /\ SameLocals(g) /\ g # None
    BY <1>3 DEF ChainInv
  <2>2. pc[g] \notin {"version", "count", "commit"}
    BY <1>3, <2>1 DEF Exclusive, OneAtATime
  <2>3. pend'[g] = <<>> /\ Len(pend'[g]) = 0
    BY <2>1, <2>2 DEF Exclusive, SameLocals
  <2> QED
    BY <1>2, <2>1, <2>2, <2>3 DEF Exclusive, SameLocals
<1>5. Exclusive(h)'
  <2>1. pend'[h] = <<>> /\ Len(pend'[h]) = 0
    BY <1>1, <1>3 DEF Exclusive
  <2> QED
    BY <1>1, <1>2, <1>3, <2>1 DEF Exclusive
<1>6. mode' # "down"
  BY <1>3 DEF ChainInv
<1> QED
  BY <1>2, <1>4, <1>5, <1>6 DEF ChainInv

LEMMA ReadTipChain ==
    ASSUME TypeInv, ChainInv, NEW h \in Handlers, ReadTip(h) PROVE ChainInv'
<1>1. LocalsOK /\ Exclusive(h) /\ Linear
  BY DEF TypeInv, TypeOK, ChainInv
<1>2. pc[h] = "tip" /\ (route[h] = "tuples" \/ OneAtATime)
  BY <1>1 DEF ReadTip, Exclusive
<1>3. /\ UNCHANGED <<bucket, last, mode, exists, pend, route>>
      /\ pc'[h] = "version" /\ tip'[h] = last
      /\ (writer = None /\ writer' = h) \/ (OneAtATime /\ writer' = writer)
      /\ \A g \in Handlers \ {h} : SameLocals(g)
  BY <1>1, <1>2 DEF ReadTip, disk, Goto, LocalsOK, SameLocals
<1>4. pend'[h] = <<>> /\ Len(pend'[h]) = 0
  BY <1>1, <1>2, <1>3 DEF Exclusive
<1>5. Exclusive(h)'
  BY <1>1, <1>2, <1>3, <1>4 DEF Exclusive, Linear
<1>6. \A g \in Handlers \ {h} : writer # g \/ writer' = g
  BY <1>3
<1> QED
  BY <1>2, <1>3, <1>5, <1>6, ChainStep

LEMMA EstimateChain ==
    ASSUME TypeInv, ChainInv, NEW h \in Handlers, Estimate(h) PROVE ChainInv'
<1>1. LocalsOK /\ Exclusive(h)
  BY DEF TypeInv, TypeOK, ChainInv
<1>2. /\ UNCHANGED <<bucket, last, mode, exists, pend, route, writer, tip>>
      /\ pc[h] = "version" /\ pc'[h] = "count"
      /\ \A g \in Handlers \ {h} : SameLocals(g)
  BY <1>1 DEF Estimate, disk, Goto, LocalsOK, SameLocals
<1>3. Exclusive(h)'
  BY <1>1, <1>2 DEF Exclusive
<1> QED
  BY <1>2, <1>3, ChainStep

LEMMA CountChain ==
    ASSUME TypeInv, ChainInv, NEW h \in Handlers, Count(h) PROVE ChainInv'
<1>1. GlobalsOK /\ LocalsOK /\ Exclusive(h) /\ pc[h] = "count"
  BY DEF TypeInv, TypeOK, ChainInv, Count
<1> DEFINE new == [prev |-> LastHash(h), sp |-> Head(todo[h]),
                   ver  |-> NextVersion(known[h])]
<1>2. /\ UNCHANGED <<bucket, last, mode, exists, route, writer, tip>>
      /\ pc'[h] \in {"version", "commit"}
      /\ \A g \in Handlers \ {h} : SameLocals(g)
      /\ pend'[h] = Append(pend[h], new)
  BY <1>1 DEF Count, disk, Goto, LocalsOK, SameLocals
<1>3. Len(bucket) \in Nat /\ pend[h] \in Seq(Block) /\ Len(pend[h]) \in Nat
  BY <1>1 DEF GlobalsOK, LocalsOK
<1>4. new.prev = Len(bucket) + Len(pend[h])
  BY <1>1, <1>3 DEF LastHash, Exclusive
<1> HIDE DEF new
<1>5. /\ Len(pend'[h]) = Len(pend[h]) + 1
      /\ \A i \in 1..Len(pend[h]) : pend'[h][i] = pend[h][i]
      /\ pend'[h][Len(pend[h]) + 1] = new
  BY <1>2, <1>3
<1>6. ASSUME NEW i \in 1..Len(pend'[h])
      PROVE  pend'[h][i].prev = Len(bucket) + i - 1
  <2>1. CASE i \in 1..Len(pend[h])
    BY <1>1, <1>5, <2>1 DEF Exclusive
  <2>2. CASE i = Len(pend[h]) + 1
    BY <1>3, <1>4, <1>5, <2>2
  <2> QED
    BY <1>3, <1>5, <2>1, <2>2
<1>7. Exclusive(h)'
  BY <1>1, <1>2, <1>6 DEF Exclusive
<1> QED
  BY <1>1, <1>2, <1>7, ChainStep

LEMMA CommitChain ==
    ASSUME TypeInv, ChainInv, NEW h \in Handlers, Commit(h) PROVE ChainInv'
<1>1. GlobalsOK /\ LocalsOK /\ Exclusive(h) /\ Linear /\ pc[h] = "commit"
  BY DEF TypeInv, TypeOK, ChainInv, Commit
<1>2. /\ bucket \in Seq(Block) /\ pend[h] \in Seq(Block)
      /\ Len(bucket) \in Nat /\ Len(pend[h]) \in Nat
  BY <1>1 DEF GlobalsOK, LocalsOK
<1>3. /\ Len(bucket') = Len(bucket) + Len(pend[h])
      /\ \A i \in 1..Len(bucket') : bucket'[i] =
            IF i <= Len(bucket) THEN bucket[i] ELSE pend[h][i - Len(bucket)]
  BY <1>2, ConcatProperties DEF Commit
<1>4. ASSUME NEW i \in 1..Len(bucket') PROVE bucket'[i].prev = i - 1
  <2>1. CASE i \in 1..Len(bucket)
    BY <1>1, <1>2, <1>3, <2>1 DEF Linear
  <2>2. CASE i > Len(bucket)
    <3>1. i - Len(bucket) \in 1..Len(pend[h]) /\ bucket'[i] = pend[h][i - Len(bucket)]
      BY <1>2, <1>3, <2>2
    <3>2. pend[h][i - Len(bucket)].prev = Len(bucket) + (i - Len(bucket)) - 1
      BY <1>1, <3>1 DEF Exclusive
    <3>3. Len(bucket) + (i - Len(bucket)) - 1 = i - 1
      BY <1>2
    <3> QED
      BY <3>1, <3>2, <3>3
  <2> QED
    BY <1>2, <1>3, <2>1, <2>2
<1>5. exists /\ exists' /\ last' = Len(bucket')
  BY <1>1, <1>3 DEF Commit, Exclusive
<1>6. Linear'
  BY <1>4, <1>5 DEF Linear
<1>7. /\ UNCHANGED <<mode, route>> /\ pc'[h] = "publish" /\ pend'[h] = <<>>
      /\ (writer = h \/ OneAtATime) /\ \A g \in Handlers \ {h} : SameLocals(g)
  BY <1>1 DEF Commit, Goto, LocalsOK, SameLocals, Exclusive
<1>8. ASSUME NEW g \in Handlers \ {h} PROVE Exclusive(g)'
  <2>1. Exclusive(g) /\ SameLocals(g)
    BY <1>7 DEF ChainInv
  <2>2. pc[g] \notin {"version", "count", "commit"}
    BY <1>7, <2>1 DEF Exclusive, OneAtATime
  <2>3. pend'[g] = <<>> /\ Len(pend'[g]) = 0
    BY <2>1, <2>2 DEF Exclusive, SameLocals
  <2> QED
    BY <1>5, <2>1, <2>2, <2>3 DEF Exclusive, SameLocals
<1>9. Exclusive(h)'
  <2>1. Len(pend'[h]) = 0
    BY <1>7
  <2> QED
    BY <1>1, <1>7, <2>1 DEF Exclusive
<1>10. mode' # "down"
  BY <1>1, <1>7 DEF ChainInv
<1> QED
  BY <1>6, <1>8, <1>9, <1>10 DEF ChainInv

(* A handler that has just been freed is exclusive in the trivial way. *)
LEMMA IdleExclusive ==
    ASSUME LocalsOK, NEW hs \in SUBSET Handlers, Idle(hs)
    PROVE  /\ \A h \in hs : Exclusive(h)' /\ pc'[h] = "idle"
           /\ \A g \in Handlers \ hs : SameLocals(g)
<1>1. ASSUME NEW h \in hs
      PROVE  pc'[h] = "idle" /\ pend'[h] = <<>> /\ Len(pend'[h]) = 0
  BY IdleType
<1> QED
  BY <1>1, IdleType DEF Exclusive

LEMMA EndChain ==
    ASSUME TypeInv, ChainInv, NEW h \in Handlers,
           Abort(h) \/ Refused(h) \/ PublishFails(h) \/ Publish(h)
    PROVE  ChainInv'
<1>1. LocalsOK /\ Exclusive(h) /\ pc[h] # "idle"
  BY DEF TypeInv, TypeOK, ChainInv, Abort, Refused, PublishFails, Publish
<1>2. /\ UNCHANGED <<bucket, last, mode, exists>>
      /\ writer' = writer \/ (writer = h /\ writer' = None)
  BY DEF Abort, Refused, PublishFails, Publish, disk
<1>3. CASE Idle({h})
  BY <1>1, <1>2, <1>3, IdleExclusive, ChainStep
<1>4. CASE ~Idle({h})
  <2>1. /\ pc[h] = "publish" /\ UNCHANGED <<pc, route, tip, pend, writer>>
        /\ \A g \in Handlers \ {h} : SameLocals(g)
    BY <1>1, <1>4 DEF Abort, Refused, PublishFails, Publish, LocalsOK, SameLocals
  <2>2. Exclusive(h)'
    BY <1>1, <1>2, <2>1 DEF Exclusive
  <2> QED
    BY <1>1, <1>2, <2>1, <2>2, ChainStep
<1> QED
  BY <1>3, <1>4

LEMMA StartChain == TypeInv /\ ChainInv /\ Start => ChainInv'
<1> SUFFICES ASSUME TypeInv, ChainInv, Start PROVE ChainInv'
  OBVIOUS
<1>1. GlobalsOK /\ Linear /\ (Default => OpenBucket) /\ (~Default => UNCHANGED <<exists, bucket, last>>)
  BY DEF TypeInv, TypeOK, ChainInv, Start
<1>2. Linear' /\ (exists => exists')
  BY <1>1, OpenBucketLinear DEF Linear
<1>3. mode' # "down" /\ \A h \in Handlers : pc[h] = "idle" /\ SameLocals(h)
  BY DEF Start, ChainInv, locals, SameLocals
<1>4. ASSUME NEW h \in Handlers PROVE Exclusive(h)'
  <2>1. Exclusive(h) /\ pc'[h] = "idle" /\ pend'[h] = pend[h]
    BY <1>3 DEF ChainInv, SameLocals
  <2>2. pend'[h] = <<>> /\ Len(pend'[h]) = 0
    BY <1>3, <2>1 DEF Exclusive
  <2> QED
    BY <2>1, <2>2 DEF Exclusive
<1> QED
  BY <1>2, <1>3, <1>4 DEF ChainInv

LEMMA HaltChain == TypeInv /\ ChainInv /\ (Exit \/ Crash) => ChainInv'
<1> SUFFICES ASSUME TypeInv, ChainInv, Halt PROVE ChainInv'
  BY DEF Exit, Crash
<1>1. LocalsOK /\ Linear
  BY DEF TypeInv, TypeOK, ChainInv
<1>2. \A h \in Handlers : Exclusive(h)' /\ pc'[h] = "idle"
  BY <1>1, IdleExclusive DEF Halt
<1>3. Linear'
  BY <1>1 DEF Halt, disk, Linear
<1> QED
  BY <1>2, <1>3 DEF ChainInv

LEMMA QuietChain ==
    ASSUME ChainInv, PublishGenesis \/ SaveCMS \/ CloseDB \/ UNCHANGED vars
    PROVE  ChainInv'
<1>1. /\ UNCHANGED <<exists, bucket, last, writer, pc, route, mine, tip, todo,
                     known, pend, outbox>>
      /\ mode' = "down" => mode = "down"
  BY DEF PublishGenesis, SaveCMS, CloseDB, vars, disk, sketches, locals
<1>2. \A h \in Handlers : Exclusive(h)'
  BY <1>1 DEF ChainInv, Exclusive
<1> QED
  BY <1>1, <1>2 DEF ChainInv, Linear

LEMMA NextChain ==
    ASSUME Appending
    PROVE  TypeInv /\ ChainInv /\ [Next]_vars => ChainInv'
<1> SUFFICES ASSUME TypeInv, ChainInv, [Next]_vars PROVE ChainInv'
  OBVIOUS
<1>1. ASSUME NEW h \in Handlers, Serve(h) PROVE ChainInv'
  BY <1>1, OpenChain, BucketsChain, RegisterChain, CreateChain, ReadTipChain, EstimateChain,
     CountChain, CommitChain, EndChain DEF Serve
<1>2. CASE Start
  BY <1>2, StartChain
<1>3. CASE PublishGenesis \/ SaveCMS \/ CloseDB \/ Quiescent \/ UNCHANGED vars
  BY <1>3, QuietChain DEF Quiescent
<1>4. CASE Exit \/ Crash
  BY <1>4, HaltChain
<1> QED
  BY <1>1, <1>2, <1>3, <1>4 DEF Next

(* As long as clients use the /tuples route only, or post one request at a  *)
(* time on whichever route, no block ever has two successors: for any       *)
(* number of concurrent handlers on /tuples and any number of crashes,      *)
(* failed transactions and restarts, and also for a context that handlers   *)
(* open themselves.                                                        *)
THEOREM NoForkInBatches ==
    ASSUME Routes = {"tuples"} \/ OneAtATime
    PROVE  Spec => []NoFork
<1>1. TypeInv /\ ChainInv => NoFork
  <2> SUFFICES ASSUME TypeInv, ChainInv,
                      NEW i \in 1..Len(bucket), NEW j \in 1..Len(bucket),
                      bucket[i].prev = bucket[j].prev
               PROVE  i = j
    BY DEF NoFork
  <2>1. i - 1 = j - 1
    BY DEF ChainInv, Linear
  <2>2. Len(bucket) \in Nat
    BY DEF TypeInv, TypeOK, GlobalsOK
  <2> QED
    BY <2>1, <2>2
<1>2. Init => TypeInv /\ ChainInv
  BY InitType, InitChain
<1>3. TypeInv /\ ChainInv /\ [Next]_vars => TypeInv' /\ ChainInv'
  BY NextType, NextChain DEF Appending
<1> QED
  BY <1>1, <1>2, <1>3, PTL DEF Spec

-----------------------------------------------------------------------------
(* The order of the chain *)

(* A non-empty set of numbers has a least element. *)
LEMMA LeastOf ==
    ASSUME NEW S \in SUBSET Nat, S # {}
    PROVE  \E m \in S : \A n \in S : m <= n
<1>1. \E m \in S : \A n \in S : ~ (<<n, m>> \in OpToRel(<, Nat))
  BY NatLessThanWellFounded, WFMin
<1>2. PICK m \in S : \A n \in S : ~ (<<n, m>> \in OpToRel(<, Nat))
  BY <1>1
<1>3. ASSUME NEW n \in S PROVE m <= n
  <2>1. <<n, m>> \in Nat \X Nat /\ ~ (<<n, m>> \in OpToRel(<, Nat))
    BY <1>2
  <2>2. ~ (n < m)
    BY <2>1 DEF OpToRel
  <2> QED
    BY <2>2
<1> QED
  BY <1>2, <1>3

(* In a linear bucket the iterator visits the blocks in the order of their  *)
(* commits. Chain is a recursive function: a least counterexample.          *)
LEMMA ChainIsLinear ==
    ASSUME GlobalsOK, Linear
    PROVE  Chain = [i \in 1..Len(bucket) |-> i]
<1> DEFINE n == Len(bucket)
           g == [i \in 0..n |-> [j \in 1..i |-> j]]
           W == CHOOSE f : f = [i \in 0..n |-> IF i = 0 THEN <<>> ELSE Append(f[bucket[i].prev], i)]
<1>1. Chain = W[n]
  BY DEF Chain, Linear
<1>2. n \in Nat /\ \A i \in 1..n : bucket[i].prev = i - 1
  BY DEF GlobalsOK, Linear
<1> HIDE DEF n
<1>3. ASSUME NEW i \in 1..n
      PROVE  g[i] = Append(g[bucket[i].prev], i)
  <2>0. i \in Nat /\ i - 1 \in Nat /\ i - 1 \in 0..n /\ bucket[i].prev = i - 1
    BY <1>2
  <2>1. g[bucket[i].prev] = [j \in 1..(i - 1) |-> j]
    BY <2>0
  <2>2. g[i] = [j \in 1..i |-> j]
    BY <1>2
  <2>3. [j \in 1..(i - 1) |-> j] \in Seq(Nat) /\ [j \in 1..i |-> j] \in Seq(Nat)
    BY <2>0, IsASeq
  <2>4. Len([j \in 1..(i - 1) |-> j]) = i - 1 /\ Len([j \in 1..i |-> j]) = i
    BY <2>0
  <2>5. Append([j \in 1..(i - 1) |-> j], i) \in Seq(Nat)
        /\ Len(Append([j \in 1..(i - 1) |-> j], i)) = i
        /\ \A k \in 1..i : Append([j \in 1..(i - 1) |-> j], i)[k] = k
    BY <2>0, <2>3, <2>4, AppendProperties
  <2>6. [j \in 1..i |-> j] = Append([j \in 1..(i - 1) |-> j], i)
    BY <2>0, <2>3, <2>4, <2>5, SeqEqual
  <2> QED
    BY <2>1, <2>2, <2>6
<1>4. g = [i \in 0..n |-> IF i = 0 THEN <<>> ELSE Append(g[bucket[i].prev], i)]
  <2>1. g[0] = <<>>
    BY <1>2
  <2> QED
    BY <1>2, <1>3, <2>1
<1> HIDE DEF g
<1>5. W = [i \in 0..n |-> IF i = 0 THEN <<>> ELSE Append(W[bucket[i].prev], i)]
  BY <1>4
<1> HIDE DEF W
<1>6. \A i \in 0..n : W[i] = g[i]
  <2> SUFFICES ASSUME ~ \A i \in 0..n : W[i] = g[i] PROVE FALSE
    OBVIOUS
  <2> DEFINE S == {i \in 0..n : W[i] # g[i]}
  <2>1. S \in SUBSET Nat /\ S # {}
    BY <1>2
  <2>2. PICK i \in S : \A k \in S : i <= k
    BY <2>1, LeastOf
  <2>3. CASE i = 0
    BY <1>4, <1>5, <2>2, <2>3
  <2>4. CASE i # 0
    <3>1. i \in 1..n /\ i - 1 \in 0..n /\ i - 1 \notin S
      BY <1>2, <2>2, <2>4
    <3>2. W[i - 1] = g[i - 1]
      BY <3>1
    <3>3. i \in 0..n /\ bucket[i].prev = i - 1
      BY <1>2, <3>1
    <3>4. W[i] = Append(W[i - 1], i)
      BY <1>5, <2>4, <3>3
    <3>5. g[i] = Append(g[i - 1], i)
      BY <1>4, <2>4, <3>3
    <3> QED
      BY <2>2, <3>2, <3>4, <3>5
  <2> QED
    BY <2>3, <2>4
<1>7. g[n] = [i \in 1..n |-> i]
  BY <1>2 DEF g
<1> QED
  BY <1>1, <1>2, <1>6, <1>7 DEF n

-----------------------------------------------------------------------------
(* Versions increase, when one sketch counts them all *)

(* The context is the one opened at startup, the node stops when no request *)
(* is served, and it is not killed: a single sketch counts all there is.    *)
Orderly == Appending /\ Default /\ Drain /\ MaxCrashes = 0

OneSketch ==
    /\ mode # "down" => cmsStore = Main /\ listed /\ exists
    /\ mode # "up" => \A h \in Handlers : pc[h] = "idle"

(* The context starts with its genesis block, which is the only one. *)
GenesisFirst ==
    /\ exists => bucket # <<>>
    /\ bucket # <<>> => bucket[1] = GenesisBlock
    /\ \A i \in 2..Len(bucket) : bucket[i].sp \in SPs

(* What has been counted: in memory, or in the file while nothing runs. *)
Counted == IF mode \in {"starting", "up"} THEN cms[Main] ELSE cmsFile

Covered == \A i \in 1..Len(bucket) :
    bucket[i].sp \in SPs => bucket[i].ver <= Counted[Cell[bucket[i].sp]]

(* The versions that a handler has given are counted, they are later than   *)
(* those in the chain and than its own earlier ones.                       *)
Given(h) == \A i \in 1..Len(pend[h]) :
    /\ pend[h][i].sp \in SPs
    /\ pend[h][i].ver <= cms[Main][Cell[pend[h][i].sp]]
    /\ \A j \in 1..Len(bucket) :
          bucket[j].sp = pend[h][i].sp => bucket[j].ver < pend[h][i].ver
    /\ \A j \in 1..(i - 1) :
          pend[h][j].sp = pend[h][i].sp => pend[h][j].ver < pend[h][i].ver

Ahead(h) ==
    /\ pc[h] \notin {"register", "create"}
    /\ pc[h] \in {"open", "tip", "version", "count", "commit"} => mine[h] = Main
    /\ pc[h] = "count" => known[h] = cms[Main][Cell[Head(todo[h])]]
    /\ Given(h)

VersionInv ==
    /\ OneSketch /\ GenesisFirst /\ Covered /\ VersionsIncrease
    /\ \A h \in Handlers : Ahead(h)

LEMMA InitVersions == Init => VersionInv
<1> SUFFICES ASSUME Init PROVE VersionInv
  OBVIOUS
<1>1. bucket = <<>> /\ Len(bucket) = 0 /\ ~exists /\ mode = "down"
  BY DEF Init
<1>2. \A h \in Handlers : pc[h] = "idle" /\ pend[h] = <<>> /\ Len(pend[h]) = 0
  BY DEF Init, AllIdle
<1>3. OneSketch /\ GenesisFirst /\ Covered /\ VersionsIncrease
  BY <1>1, <1>2 DEF OneSketch, GenesisFirst, Covered, VersionsIncrease
<1>4. \A h \in Handlers : Ahead(h)
  BY <1>2 DEF Ahead, Given
<1> QED
  BY <1>3, <1>4 DEF VersionInv

LEMMA AheadFrame ==
    ASSUME NEW g \in Handlers, Ahead(g), SameLocals(g), UNCHANGED <<bucket, cms>>
    PROVE  Ahead(g)'
BY DEF Ahead, Given, SameLocals

(* A handler without blocks to commit, and not about to make one. *)
LEMMA NothingGiven ==
    ASSUME NEW h \in Handlers, pend'[h] = <<>>,
           pc'[h] \notin {"register", "create", "count"},
           pc'[h] \in {"open", "tip", "version", "count", "commit"} => mine'[h] = Main
    PROVE  Ahead(h)'
<1>1. Len(pend'[h]) = 0
  OBVIOUS
<1> QED
  BY <1>1 DEF Ahead, Given

(* Who holds the lock is alone between ReadTip and Commit. *)
LEMMA Alone ==
    ASSUME ChainInv, NEW h \in Handlers, writer = h \/ OneAtATime, NEW g \in Handlers \ {h}
    PROVE  pc[g] \notin {"version", "count", "commit"} /\ pend[g] = <<>>
BY DEF ChainInv, Exclusive, OneAtATime

(* A step of handler h that neither counts nor commits. *)
LEMMA VersionStep ==
    ASSUME VersionInv, NEW h \in Handlers, mode = "up",
           UNCHANGED <<bucket, mode, cms, cmsStore, listed, cmsFile>>,
           exists => exists', \A g \in Handlers \ {h} : SameLocals(g), Ahead(h)'
    PROVE  VersionInv'
<1>1. \A g \in Handlers : Ahead(g)'
  BY AheadFrame DEF VersionInv
<1>2. OneSketch' /\ exists
  BY DEF VersionInv, OneSketch
<1>3. GenesisFirst' /\ Covered' /\ VersionsIncrease'
  BY <1>2 DEF VersionInv, GenesisFirst, Covered, Counted, VersionsIncrease
<1> QED
  BY <1>1, <1>2, <1>3 DEF VersionInv

LEMMA BusyIsUp ==
    ASSUME VersionInv, NEW h \in Handlers, pc[h] # "idle"
    PROVE  mode = "up" /\ cmsStore = Main /\ listed /\ exists /\ bucket # <<>>
BY DEF VersionInv, OneSketch, GenesisFirst

LEMMA OpenVersions ==
    ASSUME Orderly, TypeInv, ChainInv, VersionInv, NEW h \in Handlers,
           OpenKnown(h) \/ OpenNew(h)
    PROVE  VersionInv'
<1>1. LocalsOK /\ Exclusive(h)
  BY DEF TypeInv, TypeOK, ChainInv
<1>2. pc[h] = "idle" /\ mode = "up"
  BY DEF OpenKnown, OpenNew, Accept, Orderly
<1>3. cmsStore = Main /\ cmsStore # None
  BY <1>2 DEF VersionInv, OneSketch
<1>4. OpenKnown(h)
  BY <1>3 DEF OpenNew
<1>5. /\ UNCHANGED <<bucket, mode, cms, cmsStore, listed, cmsFile>>
      /\ exists' = exists /\ pc'[h] = "open" /\ mine'[h] = Main /\ pend' = pend
      /\ \A g \in Handlers \ {h} : SameLocals(g)
  BY <1>1, <1>3, <1>4 DEF OpenKnown, Accept, Goto, LocalsOK, SameLocals, sketches, disk
<1>6. pend'[h] = <<>>
  BY <1>1, <1>2, <1>5 DEF Exclusive
<1>7. Ahead(h)'
  BY <1>5, <1>6, NothingGiven
<1> QED
  BY <1>2, <1>5, <1>7, VersionStep

LEMMA BucketsVersions ==
    ASSUME TypeInv, ChainInv, VersionInv, NEW h \in Handlers, OpenBuckets(h)
    PROVE  VersionInv'
<1>1. LocalsOK /\ Exclusive(h) /\ Ahead(h) /\ pc[h] = "open"
  BY DEF TypeInv, TypeOK, ChainInv, VersionInv, OpenBuckets
<1>2. mode = "up"
  BY <1>1, BusyIsUp
<1>3. /\ UNCHANGED <<bucket, mode, cms, cmsStore, listed, cmsFile>> /\ exists'
      /\ pc'[h] = "tip" /\ mine'[h] = Main /\ pend'[h] = <<>>
      /\ \A g \in Handlers \ {h} : SameLocals(g)
  BY <1>1 DEF OpenBuckets, Goto, LocalsOK, SameLocals, sketches, Exclusive, Ahead
<1>4. Ahead(h)'
  BY <1>3, NothingGiven
<1> QED
  BY <1>2, <1>3, <1>4, VersionStep

LEMMA ReadTipVersions ==
    ASSUME TypeInv, ChainInv, VersionInv, NEW h \in Handlers, ReadTip(h)
    PROVE  VersionInv'
<1>1. LocalsOK /\ Exclusive(h) /\ Ahead(h) /\ pc[h] = "tip"
  BY DEF TypeInv, TypeOK, ChainInv, VersionInv, ReadTip
<1>2. mode = "up"
  BY <1>1, BusyIsUp
<1>3. /\ UNCHANGED <<bucket, mode, cms, cmsStore, listed, cmsFile, exists>>
      /\ pc'[h] = "version" /\ mine'[h] = Main /\ pend'[h] = <<>>
      /\ \A g \in Handlers \ {h} : SameLocals(g)
  BY <1>1 DEF ReadTip, Goto, LocalsOK, SameLocals, sketches, disk, Exclusive, Ahead
<1>4. Ahead(h)'
  BY <1>3, NothingGiven
<1> QED
  BY <1>2, <1>3, <1>4, VersionStep

LEMMA EstimateVersions ==
    ASSUME TypeInv, VersionInv, NEW h \in Handlers, Estimate(h)
    PROVE  VersionInv'
<1>1. LocalsOK /\ Ahead(h) /\ pc[h] = "version"
  BY DEF TypeInv, TypeOK, VersionInv, Estimate
<1>2. mode = "up"
  BY <1>1, BusyIsUp
<1>3. /\ UNCHANGED <<bucket, mode, cms, cmsStore, listed, cmsFile, exists, mine, todo, pend>>
      /\ pc'[h] = "count" /\ known'[h] = cms[mine[h]][Cell[Head(todo[h])]]
      /\ \A g \in Handlers \ {h} : SameLocals(g)
  BY <1>1 DEF Estimate, Goto, LocalsOK, SameLocals, sketches, disk
<1>4. Ahead(h)'
  BY <1>1, <1>3 DEF Ahead, Given
<1> QED
  BY <1>2, <1>3, <1>4, VersionStep

LEMMA EndVersions ==
    ASSUME TypeInv, ChainInv, VersionInv, NEW h \in Handlers,
           Abort(h) \/ Refused(h) \/ PublishFails(h) \/ Publish(h)
    PROVE  VersionInv'
<1>1. LocalsOK /\ Exclusive(h) /\ Ahead(h) /\ pc[h] # "idle"
  BY DEF TypeInv, TypeOK, ChainInv, VersionInv, Abort, Refused, PublishFails, Publish
<1>2. mode = "up"
  BY <1>1, BusyIsUp
<1>3. UNCHANGED <<bucket, mode, cms, cmsStore, listed, cmsFile, exists>>
  BY DEF Abort, Refused, PublishFails, Publish, disk, sketches
<1>4. CASE Idle({h})
  <2>1. pc'[h] = "idle" /\ pend'[h] = <<>> /\ \A g \in Handlers \ {h} : SameLocals(g)
    BY <1>1, <1>4, IdleType
  <2>2. Ahead(h)'
    BY <2>1, NothingGiven
  <2> QED
    BY <1>2, <1>3, <2>1, <2>2, VersionStep
<1>5. CASE ~Idle({h})
  <2>1. /\ pc[h] = "publish" /\ UNCHANGED <<pc, mine, todo, known, pend>>
        /\ \A g \in Handlers \ {h} : SameLocals(g)
    BY <1>1, <1>5 DEF Abort, Refused, PublishFails, Publish, LocalsOK, SameLocals
  <2>2. Ahead(h)'
    BY <1>1, <1>3, <2>1 DEF Ahead, Given
  <2> QED
    BY <1>2, <1>3, <2>1, <2>2, VersionStep
<1> QED
  BY <1>4, <1>5

LEMMA BlockVer ==
    ASSUME NEW s \in Seq(Block)
    PROVE  Len(s) \in Nat /\ \A i \in 1..Len(s) : s[i].ver \in Nat
<1>1. Len(s) \in Nat
  OBVIOUS
<1>2. \A b \in Block : b.ver \in Nat
  BY DEF Block
<1> QED
  BY <1>1, <1>2, ElementOfSeq

(* The others while one handler is between ReadTip and Commit. *)
LEMMA OthersAhead ==
    ASSUME ChainInv, VersionInv, NEW h \in Handlers, writer = h \/ OneAtATime,
           \A g \in Handlers \ {h} : SameLocals(g)
    PROVE  \A g \in Handlers \ {h} : Ahead(g)'
<1> SUFFICES ASSUME NEW g \in Handlers \ {h} PROVE Ahead(g)'
  OBVIOUS
<1>1. pc[g] \notin {"version", "count", "commit"} /\ pend[g] = <<>>
  BY Alone
<1>2. /\ pc'[g] \notin {"register", "create", "count"} /\ pend'[g] = <<>>
      /\ pc'[g] \in {"open", "tip", "version", "count", "commit"} => mine'[g] = Main
  BY <1>1 DEF VersionInv, Ahead, SameLocals
<1> QED
  BY <1>2, NothingGiven

(* What a handler gives is one more than anything the sketch had counted in *)
(* that cell, thus more than all the versions that are covered.            *)
LEMMA CountVersions ==
    ASSUME TypeInv, ChainInv, VersionInv, NEW h \in Handlers, Count(h)
    PROVE  VersionInv'
<1> DEFINE sp  == Head(todo[h])
           c   == Cell[sp]
           new == [prev |-> LastHash(h), sp |-> sp, ver |-> NextVersion(known[h])]
<1>1. /\ GlobalsOK /\ LocalsOK /\ Ahead(h) /\ Exclusive(h) /\ pc[h] = "count"
      /\ todo[h] # <<>> /\ Main \in Instances
  BY DEF TypeInv, TypeOK, ChainInv, VersionInv, HandlerOK, StageOK, Count, Instances
<1>2. mode = "up" /\ (writer = h \/ OneAtATime) /\ mine[h] = Main /\ known[h] = cms[Main][c]
  BY <1>1, BusyIsUp DEF Ahead, Exclusive
<1>3. todo[h] \in Seq(SPs) /\ sp \in SPs /\ c \in Cells
  <2>1. todo[h] \in Seq(SPs) /\ sp \in SPs
    BY <1>1, HeadTailProperties DEF LocalsOK
  <2> QED
    BY <2>1
<1>4. cms[Main] \in Counts /\ \A k \in Cells : cms[Main][k] \in Nat
  BY <1>1 DEF GlobalsOK, Counts
<1>5. new.sp = sp /\ new.ver = cms[Main][c] + 1 /\ new.ver \in Nat
  BY <1>2, <1>3, <1>4 DEF NextVersion
<1>6. /\ UNCHANGED <<exists, bucket, cmsFile, cmsStore, listed, mode, mine>>
      /\ pc'[h] \in {"version", "commit"}
      /\ pend'[h] = Append(pend[h], new)
      /\ \A g \in Handlers \ {h} : SameLocals(g)
      /\ cms' = [cms EXCEPT ![mine[h]][c] = @ + 1]
  BY <1>1 DEF Count, disk, Goto, LocalsOK, SameLocals
<1> HIDE DEF new, sp, c
<1>7. cms'[Main] = [cms[Main] EXCEPT ![c] = @ + 1]
  BY <1>1, <1>2, <1>6 DEF GlobalsOK
<1>8. /\ cms'[Main][c] = cms[Main][c] + 1
      /\ \A k \in Cells : cms'[Main][k] \in Nat /\ cms[Main][k] <= cms'[Main][k]
  BY <1>3, <1>4, <1>7 DEF Counts
<1>9. /\ bucket \in Seq(Block) /\ Len(bucket) \in Nat
      /\ \A j \in 1..Len(bucket) : bucket[j].ver \in Nat
      /\ pend[h] \in Seq(Block) /\ Len(pend[h]) \in Nat
      /\ \A i \in 1..Len(pend[h]) : pend[h][i].ver \in Nat
  <2>1. bucket \in Seq(Block) /\ pend[h] \in Seq(Block)
    BY <1>1 DEF GlobalsOK, LocalsOK
  <2> QED
    BY <2>1, BlockVer
<1>10. OneSketch' /\ GenesisFirst' /\ VersionsIncrease'
  BY <1>2, <1>6 DEF VersionInv, OneSketch, GenesisFirst, VersionsIncrease
<1>11. \A j \in 1..Len(bucket) : bucket[j].sp \in SPs =>
          /\ Cell[bucket[j].sp] \in Cells
          /\ bucket[j].ver <= cms[Main][Cell[bucket[j].sp]]
          /\ bucket[j].ver <= cms'[Main][Cell[bucket[j].sp]]
  <2> SUFFICES ASSUME NEW j \in 1..Len(bucket), bucket[j].sp \in SPs
               PROVE  /\ Cell[bucket[j].sp] \in Cells
                      /\ bucket[j].ver <= cms[Main][Cell[bucket[j].sp]]
                      /\ bucket[j].ver <= cms'[Main][Cell[bucket[j].sp]]
    OBVIOUS
  <2>1. Cell[bucket[j].sp] \in Cells
    OBVIOUS
  <2>2. bucket[j].ver <= cms[Main][Cell[bucket[j].sp]]
    BY <1>2 DEF VersionInv, Covered, Counted
  <2> QED
    BY <1>4, <1>8, <1>9, <2>1, <2>2
<1>12. Covered'
  BY <1>2, <1>6, <1>11 DEF Covered, Counted
<1>13. /\ Len(pend'[h]) = Len(pend[h]) + 1
       /\ \A i \in 1..Len(pend[h]) : pend'[h][i] = pend[h][i]
       /\ pend'[h][Len(pend[h]) + 1] = new
  BY <1>6, <1>9
<1>14. ASSUME NEW i \in 1..Len(pend[h])
       PROVE  /\ pend[h][i].sp \in SPs /\ Cell[pend[h][i].sp] \in Cells
              /\ pend[h][i].ver <= cms[Main][Cell[pend[h][i].sp]]
              /\ pend[h][i].ver <= cms'[Main][Cell[pend[h][i].sp]]
  <2>1. pend[h][i].sp \in SPs /\ pend[h][i].ver <= cms[Main][Cell[pend[h][i].sp]]
    BY <1>1 DEF Ahead, Given
  <2>2. Cell[pend[h][i].sp] \in Cells
    BY <2>1
  <2> QED
    BY SMTT(20), <1>4, <1>8, <1>9, <2>1, <2>2
<1>15. Given(h)'
  <2> SUFFICES ASSUME NEW i \in 1..Len(pend'[h])
      PROVE  /\ pend'[h][i].sp \in SPs
             /\ pend'[h][i].ver <= cms'[Main][Cell[pend'[h][i].sp]]
             /\ \A j \in 1..Len(bucket) :
                   bucket[j].sp = pend'[h][i].sp => bucket[j].ver < pend'[h][i].ver
             /\ \A j \in 1..(i - 1) :
                   pend'[h][j].sp = pend'[h][i].sp => pend'[h][j].ver < pend'[h][i].ver
    BY <1>6 DEF Given
  <2>1. CASE i \in 1..Len(pend[h])
    <3>1. pend'[h][i] = pend[h][i] /\ \A j \in 1..(i - 1) : pend'[h][j] = pend[h][j]
      <4>1. \A j \in 1..(i - 1) : j \in 1..Len(pend[h])
        BY <1>9, <2>1
      <4> QED
        BY <1>13, <2>1, <4>1
    <3>2. \A j \in 1..Len(bucket) :
            bucket[j].sp = pend[h][i].sp => bucket[j].ver < pend[h][i].ver
      BY <1>1, <2>1 DEF Ahead, Given
    <3>3. \A j \in 1..(i - 1) :
            pend[h][j].sp = pend[h][i].sp => pend[h][j].ver < pend[h][i].ver
      BY <1>1, <2>1 DEF Ahead, Given
    <3> QED
      BY <1>14, <2>1, <3>1, <3>2, <3>3
  <2>2. CASE i = Len(pend[h]) + 1
    <3>1. pend'[h][i] = new /\ i - 1 = Len(pend[h])
      BY <1>13, <1>9, <2>2
    <3>2. new.ver <= cms'[Main][c]
      BY <1>5, <1>8
    <3>3. ASSUME NEW j \in 1..Len(bucket), bucket[j].sp = sp
          PROVE  bucket[j].ver < new.ver
      <4>1. bucket[j].ver <= cms[Main][c]
        BY <1>3, <1>11, <3>3 DEF c
      <4> QED
        BY <1>3, <1>4, <1>5, <1>9, <4>1
    <3>4. ASSUME NEW j \in 1..Len(pend[h]), pend[h][j].sp = sp
          PROVE  pend[h][j].ver < new.ver
      <4>1. pend[h][j].ver <= cms[Main][c]
        BY <1>14, <3>4 DEF c
      <4> QED
        BY <1>3, <1>4, <1>5, <1>9, <4>1
    <3>5. new.sp \in SPs /\ c = Cell[new.sp]
      BY <1>3, <1>5 DEF c
    <3>6. \A j \in 1..Len(bucket) :
            bucket[j].sp = new.sp => bucket[j].ver < new.ver
      BY <1>5, <3>3
    <3>7. \A j \in 1..(i - 1) :
            pend'[h][j].sp = new.sp => pend'[h][j].ver < new.ver
      BY <1>5, <1>13, <3>1, <3>4
    <3>8. new.ver <= cms'[Main][Cell[new.sp]]
      BY <3>2, <3>5
    <3> QED
      BY <3>1, <3>5, <3>6, <3>7, <3>8, Zenon
  <2>3. i \in 1..Len(pend[h]) \/ i = Len(pend[h]) + 1
    BY <1>9, <1>13
  <2> QED
    BY <2>1, <2>2, <2>3, Zenon
<1>16. Ahead(h)'
  BY <1>2, <1>6, <1>15 DEF Ahead
<1> QED
  BY <1>2, <1>6, <1>10, <1>12, <1>16, OthersAhead DEF VersionInv

(* The blocks of a commit come after the chain and carry later versions.   *)
LEMMA CommitVersions ==
    ASSUME TypeInv, ChainInv, VersionInv, NEW h \in Handlers, Commit(h)
    PROVE  VersionInv'
<1> DEFINE n == Len(bucket)
<1>1. GlobalsOK /\ LocalsOK /\ Ahead(h) /\ Exclusive(h) /\ pc[h] = "commit"
  BY DEF TypeInv, TypeOK, ChainInv, VersionInv, Commit
<1>2. /\ mode = "up" /\ (writer = h \/ OneAtATime) /\ mine[h] = Main /\ Given(h)
      /\ exists /\ bucket # <<>>
  BY <1>1, BusyIsUp DEF Ahead, Exclusive
<1>3. /\ bucket \in Seq(Block) /\ pend[h] \in Seq(Block)
      /\ n \in Nat /\ Len(pend[h]) \in Nat /\ 1 \in 1..n
  <2>1. bucket \in Seq(Block) /\ pend[h] \in Seq(Block)
    BY <1>1 DEF GlobalsOK, LocalsOK
  <2> QED
    BY <1>2, <2>1, EmptySeq
<1>4. /\ UNCHANGED <<exists, cms, cmsFile, cmsStore, listed, mode>>
      /\ bucket' = bucket \o pend[h] /\ pend'[h] = <<>> /\ pc'[h] = "publish"
      /\ \A g \in Handlers \ {h} : SameLocals(g)
  BY <1>1 DEF Commit, sketches, Goto, LocalsOK, SameLocals
<1>5. /\ Len(bucket') = n + Len(pend[h])
      /\ \A i \in 1..n : bucket'[i] = bucket[i]
      /\ \A i \in 1..Len(bucket') : i > n =>
            i - n \in 1..Len(pend[h]) /\ bucket'[i] = pend[h][i - n]
  BY <1>3, <1>4, ConcatProperties
<1> HIDE DEF n
<1>6. OneSketch'
  BY <1>2, <1>4 DEF VersionInv, OneSketch
<1>7. GenesisFirst'
  <2>1. bucket' # <<>>
    BY <1>3, <1>5
  <2>2. bucket'[1] = GenesisBlock
    BY <1>2, <1>3, <1>5 DEF VersionInv, GenesisFirst
  <2>3. ASSUME NEW i \in 2..Len(bucket') PROVE bucket'[i].sp \in SPs
    <3>1. CASE i \in 1..n
      <4>1. i \in 2..n
        BY <1>3, <3>1
      <4> QED
        BY <1>5, <3>1, <4>1 DEF VersionInv, GenesisFirst, n
    <3>2. CASE i > n
      <4>1. i \in 1..Len(bucket')
        BY <1>3, <1>5
      <4>2. i - n \in 1..Len(pend[h]) /\ bucket'[i] = pend[h][i - n]
        BY <1>5, <3>2, <4>1
      <4> QED
        BY <1>2, <4>2 DEF Given
    <3> QED
      BY <1>3, <1>5, <3>1, <3>2
  <2> QED
    BY <2>1, <2>2, <2>3 DEF GenesisFirst
<1>8. ASSUME NEW i \in 1..Len(bucket'), bucket'[i].sp \in SPs
      PROVE  bucket'[i].ver <= cms[Main][Cell[bucket'[i].sp]]
  <2>1. CASE i \in 1..n
    BY <1>2, <1>5, <1>8, <2>1 DEF VersionInv, Covered, Counted, n
  <2>2. CASE i > n
    BY <1>2, <1>5, <2>2 DEF Given
  <2> QED
    BY <1>3, <1>5, <2>1, <2>2
<1>9. Covered'
  BY <1>2, <1>4, <1>8 DEF Covered, Counted
<1>10. ASSUME NEW i \in 1..Len(bucket'), NEW j \in 1..Len(bucket'),
              i < j, bucket'[i].sp = bucket'[j].sp
       PROVE  bucket'[i].ver < bucket'[j].ver
  <2>1. CASE j \in 1..n
    <3>1. i \in 1..n
      BY <1>3, <1>5, <1>10, <2>1
    <3> QED
      BY <1>5, <1>10, <2>1, <3>1 DEF VersionInv, VersionsIncrease, n
  <2>2. CASE j > n /\ i \in 1..n
    BY <1>2, <1>5, <1>10, <2>2 DEF Given, n
  <2>3. CASE j > n /\ i > n
    <3>1. /\ j - n \in 1..Len(pend[h]) /\ i - n \in 1..((j - n) - 1)
          /\ bucket'[i] = pend[h][i - n] /\ bucket'[j] = pend[h][j - n]
      BY <1>3, <1>5, <1>10, <2>3
    <3> QED
      BY <1>2, <1>10, <3>1 DEF Given
  <2> QED
    BY <1>3, <1>5, <2>1, <2>2, <2>3
<1>11. VersionsIncrease'
  BY <1>10 DEF VersionsIncrease
<1>12. Ahead(h)'
  BY <1>4, NothingGiven
<1> QED
  BY <1>2, <1>4, <1>6, <1>7, <1>9, <1>11, <1>12, OthersAhead DEF VersionInv

(* A handler that serves no request has given nothing. *)
LEMMA NobodyGives ==
    ASSUME \A h \in Handlers : pc'[h] = "idle" /\ pend'[h] = <<>>
    PROVE  \A h \in Handlers : Ahead(h)'
BY NothingGiven

LEMMA StartVersions ==
    ASSUME Orderly, TypeInv, ChainInv, VersionInv, Start PROVE VersionInv'
<1>1. /\ GlobalsOK /\ Linear /\ Main \in Instances /\ mode = "down"
      /\ \A h \in Handlers : pc[h] = "idle" /\ Exclusive(h)
  BY DEF TypeInv, TypeOK, ChainInv, Start, Instances
<1>2. /\ OpenBucket /\ cmsStore' = Main /\ listed' /\ mode' = "starting"
      /\ cms' = [cms EXCEPT ![Main] = cmsFile] /\ UNCHANGED <<pc, pend, cmsFile>>
  BY DEF Start, Orderly, locals
<1>3. cms'[Main] = cmsFile /\ exists'
  BY <1>1, <1>2, OpenBucketLinear DEF GlobalsOK
<1>4. \A h \in Handlers : Ahead(h)'
  <2>1. \A h \in Handlers : pc'[h] = "idle" /\ pend'[h] = <<>>
    BY <1>1, <1>2 DEF Exclusive
  <2> QED
    BY <2>1, NobodyGives
<1>5. OneSketch'
  BY <1>1, <1>2, <1>3 DEF OneSketch
<1>6. CASE exists
  <2>1. bucket' = bucket
    BY <1>2, <1>6 DEF OpenBucket
  <2>2. GenesisFirst'
    BY <1>3, <1>6, <2>1 DEF VersionInv, GenesisFirst
  <2>3. Covered' /\ VersionsIncrease'
    BY <1>1, <1>2, <1>3, <2>1 DEF VersionInv, Covered, Counted, VersionsIncrease
  <2> QED
    BY <1>4, <1>5, <2>2, <2>3 DEF VersionInv
<1>7. CASE ~exists
  <2>1. bucket' = Append(<<>>, GenesisBlock)
    BY <1>1, <1>2, <1>7 DEF OpenBucket, Linear
  <2>2. Len(bucket') = 1 /\ bucket'[1] = GenesisBlock /\ bucket' # <<>>
    BY <2>1
  <2>3. GenesisFirst'
    BY <2>2 DEF GenesisFirst
  <2>4. Covered'
    BY <2>2 DEF Covered, GenesisBlock
  <2>5. VersionsIncrease'
    BY <2>2 DEF VersionsIncrease
  <2> QED
    BY <1>4, <1>5, <2>3, <2>4, <2>5 DEF VersionInv
<1> QED
  BY <1>6, <1>7

(* The steps of main on the way down: the counters go from the sketch to    *)
(* its file, and nothing is being served.                                  *)
LEMMA StopVersions ==
    ASSUME Orderly, TypeInv, ChainInv, VersionInv, SaveCMS \/ CloseDB \/ Exit
    PROVE  VersionInv'
<1>1. LocalsOK /\ \A h \in Handlers : pc[h] = "idle" /\ Exclusive(h)
  BY DEF TypeInv, TypeOK, ChainInv, VersionInv, OneSketch, SaveCMS, CloseDB, Exit, Orderly
<1>2. \A h \in Handlers : pc'[h] = "idle" /\ pend'[h] = <<>>
  <2>1. CASE Exit
    BY <1>1, <2>1, IdleType DEF Exit, Halt
  <2>2. CASE SaveCMS \/ CloseDB
    BY <1>1, <2>2 DEF SaveCMS, CloseDB, locals, Exclusive
  <2> QED
    BY <2>1, <2>2
<1>3. UNCHANGED <<exists, bucket>>
  BY DEF SaveCMS, CloseDB, Exit, Halt, disk
<1>4. OneSketch' /\ Counted' = Counted
  <2>1. CASE SaveCMS
    <3>1. mode = "up" /\ mode' = "saved" /\ cmsFile' = cms[Main]
          /\ UNCHANGED <<cmsStore, listed>>
      BY <2>1 DEF SaveCMS, sketches, VersionInv, OneSketch
    <3> QED
      BY <1>2, <1>3, <3>1 DEF VersionInv, OneSketch, Counted
  <2>2. CASE CloseDB
    BY <1>2, <1>3, <2>2 DEF CloseDB, sketches, disk, VersionInv, OneSketch, Counted
  <2>3. CASE Exit
    BY <1>2, <1>3, <2>3 DEF Exit, Halt, disk, VersionInv, OneSketch, Counted
  <2> QED
    BY <2>1, <2>2, <2>3
<1>5. GenesisFirst' /\ Covered' /\ VersionsIncrease'
  BY <1>3, <1>4 DEF VersionInv, GenesisFirst, Covered, VersionsIncrease
<1>6. \A h \in Handlers : Ahead(h)'
  BY <1>2, NobodyGives
<1> QED
  BY <1>4, <1>5, <1>6 DEF VersionInv

LEMMA QuietVersions ==
    ASSUME VersionInv, PublishGenesis \/ UNCHANGED vars PROVE VersionInv'
<1>1. /\ UNCHANGED <<exists, bucket, cmsFile, cms, cmsStore, listed,
                     pc, mine, todo, known, pend>>
      /\ mode' = mode \/ (mode = "starting" /\ mode' = "up")
  BY DEF PublishGenesis, vars, disk, sketches, locals
<1>2. OneSketch' /\ Counted' = Counted
  BY <1>1 DEF VersionInv, OneSketch, Counted
<1>3. GenesisFirst' /\ Covered' /\ VersionsIncrease'
  BY <1>1, <1>2 DEF VersionInv, GenesisFirst, Covered, VersionsIncrease
<1>4. \A h \in Handlers : Ahead(h)'
  BY <1>1 DEF VersionInv, Ahead, Given
<1> QED
  BY <1>2, <1>3, <1>4 DEF VersionInv

LEMMA NextVersions ==
    ASSUME Orderly
    PROVE  TypeInv /\ ChainInv /\ VersionInv /\ [Next]_vars => VersionInv'
<1> SUFFICES ASSUME TypeInv, ChainInv, VersionInv, [Next]_vars PROVE VersionInv'
  OBVIOUS
<1>1. ASSUME NEW h \in Handlers, Serve(h) PROVE VersionInv'
  <2>1. ~RegisterCMS(h) /\ ~CreateGenesis(h)
    BY DEF VersionInv, Ahead, RegisterCMS, CreateGenesis
  <2> QED
    BY <1>1, <2>1, OpenVersions, BucketsVersions, ReadTipVersions, EstimateVersions,
       CountVersions, CommitVersions, EndVersions DEF Serve
<1>2. CASE Start
  BY <1>2, StartVersions
<1>3. CASE SaveCMS \/ CloseDB \/ Exit
  BY <1>3, StopVersions
<1>4. CASE PublishGenesis \/ Quiescent \/ UNCHANGED vars
  BY <1>4, QuietVersions DEF Quiescent
<1>5. ~Crash
  BY DEF TypeInv, TypeOK, GlobalsOK, Crash, Orderly
<1> QED
  BY <1>1, <1>2, <1>3, <1>4, <1>5 DEF Next

LEMMA VersionInvariant == Orderly => (Spec => [](TypeInv /\ ChainInv /\ VersionInv))
<1> SUFFICES ASSUME Orderly PROVE Spec => [](TypeInv /\ ChainInv /\ VersionInv)
  OBVIOUS
<1>2. Init => TypeInv /\ ChainInv /\ VersionInv
  BY InitType, InitChain, InitVersions
<1>3. TypeInv /\ ChainInv /\ VersionInv /\ [Next]_vars
         => TypeInv' /\ ChainInv' /\ VersionInv'
  BY NextType, NextChain, NextVersions DEF Orderly
<1> QED
  BY <1>2, <1>3, PTL DEF Spec

(* The versions of a pair increase along the chain, for any number of        *)
(* handlers and pairs, however the pairs collide in the sketch, across clean *)
(* restarts and failed transactions: provided that no two AddNewBlock        *)
(* overlap, the context is the one opened at startup and the node only stops *)
(* by its signal handler, when nothing is served.                           *)
THEOREM VersionsRise ==
    ASSUME Routes = {"tuples"} \/ OneAtATime, Default, Drain, MaxCrashes = 0
    PROVE  Spec => []VersionsIncrease
<1>1. Spec => [](TypeInv /\ ChainInv /\ VersionInv)
  BY VersionInvariant DEF Orderly, Appending
<1>2. VersionInv => VersionsIncrease
  BY DEF VersionInv
<1> QED
  BY <1>1, <1>2, PTL

-----------------------------------------------------------------------------
(* The chain implements the log that its readers see *)

(* The entries of the chain, read off the bucket. *)
Entries == [i \in 1..Len(bucket) |-> [sp |-> bucket[i].sp, ver |-> bucket[i].ver]]

ChainLog == [i \in 1..Len(Chain) |-> [sp  |-> bucket[Chain[i]].sp,
                                      ver |-> bucket[Chain[i]].ver]]

LogRead == ChainLog = Entries

LEMMA LogIsEntries == TypeInv /\ ChainInv => LogRead
<1> SUFFICES ASSUME TypeInv, ChainInv PROVE LogRead
  OBVIOUS
<1>1. Len(bucket) \in Nat
  BY DEF TypeInv, TypeOK, GlobalsOK
<1>2. Chain = [i \in 1..Len(bucket) |-> i]
  BY ChainIsLinear DEF TypeInv, TypeOK, ChainInv
<1>3. Len(Chain) = Len(bucket) /\ \A i \in 1..Len(bucket) : Chain[i] = i
  BY <1>1, <1>2
<1>4. ChainLog = [i \in 1..Len(bucket) |-> [sp  |-> bucket[i].sp, ver |-> bucket[i].ver]]
  BY <1>3 DEF ChainLog
<1> QED
  BY <1>4 DEF LogRead, Entries

(* A step leaves the bucket alone or adds blocks at its end. *)
LEMMA NextAppends ==
    ASSUME TypeInv, [Next]_vars
    PROVE  \/ bucket' = bucket
           \/ /\ Len(bucket) < Len(bucket')
              /\ \A i \in 1..Len(bucket) : bucket'[i] = bucket[i]
<1>1. GlobalsOK /\ LocalsOK /\ bucket \in Seq(Block) /\ Len(bucket) \in Nat
  BY DEF TypeInv, TypeOK, GlobalsOK
<1>2. ASSUME OpenBucket, bucket' # bucket
      PROVE  /\ Len(bucket) < Len(bucket')
             /\ \A i \in 1..Len(bucket) : bucket'[i] = bucket[i]
  BY <1>1, <1>2 DEF OpenBucket
<1>3. ASSUME NEW h \in Handlers, Commit(h)
      PROVE  /\ Len(bucket) < Len(bucket')
             /\ \A i \in 1..Len(bucket) : bucket'[i] = bucket[i]
  <2>1. pend[h] \in Seq(Block) /\ pend[h] # <<>>
    BY <1>1, <1>3 DEF LocalsOK, Commit, TypeInv, HandlerOK, StageOK
  <2>2. Len(pend[h]) \in Nat /\ Len(pend[h]) # 0
    BY <2>1, EmptySeq
  <2>3. bucket' = bucket \o pend[h]
    BY <1>3 DEF Commit
  <2> QED
    BY <1>1, <2>1, <2>2, <2>3, ConcatProperties
<1>4. ASSUME NEW h \in Handlers, Serve(h)
      PROVE  bucket' = bucket \/ OpenBucket \/ Commit(h)
  BY <1>4 DEF Serve, OpenKnown, OpenBuckets, OpenNew, RegisterCMS, CreateGenesis, ReadTip, Estimate,
     Count, Abort, Refused, Publish, PublishFails, disk
<1>5. Start => bucket' = bucket \/ OpenBucket
  BY DEF Start
<1>6. PublishGenesis \/ SaveCMS \/ CloseDB \/ Exit \/ Crash \/ Quiescent \/ UNCHANGED vars
         => bucket' = bucket
  BY DEF PublishGenesis, SaveCMS, CloseDB, Exit, Crash, Halt, Quiescent, vars, disk
<1> QED
  BY <1>2, <1>3, <1>4, <1>5, <1>6 DEF Next

(* When blocks are added, the log grows, from its genesis entry on and with *)
(* increasing versions.                                                    *)
LEMMA StepGrows ==
    ASSUME TypeInv, TypeInv', VersionInv', LogRead, LogRead', [Next]_vars
    PROVE  [Log!Grow]_ChainLog
<1>1. /\ bucket \in Seq(Block) /\ Len(bucket) \in Nat
      /\ bucket' \in Seq(Block) /\ Len(bucket') \in Nat
  BY DEF TypeInv, TypeOK, GlobalsOK
<1>2. CASE bucket' = bucket
  BY <1>2 DEF LogRead, Entries
<1>3. CASE /\ Len(bucket) < Len(bucket')
           /\ \A i \in 1..Len(bucket) : bucket'[i] = bucket[i]
  <2> DEFINE E == [sp : SPs \cup {Genesis}, ver : Nat]
             m == Len(bucket)
             n == Len(bucket')
             s == Entries
             t == Entries'
  <2>1. /\ s = [i \in 1..m |-> [sp |-> bucket[i].sp, ver |-> bucket[i].ver]]
        /\ t = [i \in 1..n |-> [sp |-> bucket'[i].sp, ver |-> bucket'[i].ver]]
        /\ m \in Nat /\ n \in Nat /\ m < n
    BY <1>1, <1>3 DEF Entries
  <2> HIDE DEF m, n, s, t
  <2>2. /\ \A i \in 1..m : s[i] = [sp |-> bucket[i].sp, ver |-> bucket[i].ver]
        /\ \A i \in 1..n : t[i] = [sp |-> bucket'[i].sp, ver |-> bucket'[i].ver]
        /\ DOMAIN s = 1..m /\ DOMAIN t = 1..n
    BY <2>1
  <2>3. \A b \in Block : [sp |-> b.sp, ver |-> b.ver] \in E
    BY DEF Block
  <2>4. s \in Seq(E) /\ t \in Seq(E)
    <3>1. \A i \in 1..m : bucket[i] \in Block
      BY <1>1, ElementOfSeq DEF m
    <3>2. \A i \in 1..n : bucket'[i] \in Block
      BY <1>1, ElementOfSeq DEF n
    <3>3. /\ \A i \in 1..m : [sp |-> bucket[i].sp, ver |-> bucket[i].ver] \in E
          /\ \A i \in 1..n : [sp |-> bucket'[i].sp, ver |-> bucket'[i].ver] \in E
      BY <2>3, <3>1, <3>2
    <3> QED
      BY <2>1, <3>3, IsASeq
  <2>5. Len(s) = m /\ Len(t) = n
    BY <2>1
  <2>6. ASSUME NEW i \in 1..m PROVE t[i] = s[i]
    <3>1. i \in 1..n
      BY <2>1
    <3> QED
      BY <1>3, <2>2, <3>1 DEF m
  <2>7. SubSeq(s, 1, m) = SubSeq(t, 1, m)
    <3>0. \A i \in 1..m : s[i] \in E /\ t[i] \in E
      BY <2>1, <2>4, <2>5, <2>6, ElementOfSeq
    <3> HIDE DEF E
    <3>1. SubSeq(s, 1, m) \in Seq(E) /\ SubSeq(t, 1, m) \in Seq(E)
      <4>1. 1 \in Int /\ m \in Int
        BY <2>1
      <4> QED
        BY <3>0, <4>1, SubSeqProperties, Zenon
    <3>2. /\ Len(SubSeq(s, 1, m)) = m /\ Len(SubSeq(t, 1, m)) = m
          /\ \A i \in 1..m : SubSeq(s, 1, m)[i] = s[i] /\ SubSeq(t, 1, m)[i] = t[i]
      BY <2>1, <3>0, SubSeqProperties
    <3> QED
      BY <2>6, <3>1, <3>2, SeqEqual
  <2>8. Log!IsStrictPrefix(s, t)
    <3>1. Len(s) <= Len(t) /\ s # t
      BY <2>1, <2>5
    <3>2. SubSeq(s, 1, Len(s)) = SubSeq(t, 1, Len(s))
      BY <2>5, <2>7, Zenon
    <3> QED
      BY <3>1, <3>2, Zenon DEF Log!IsStrictPrefix, Log!IsPrefix
  <2>9. Log!Rooted(t)
    <3>1. bucket' # <<>> /\ 1 \in 1..n
      BY <1>1, <2>1, EmptySeq DEF n
    <3>2. bucket'[1] = GenesisBlock
      BY <3>1 DEF VersionInv, GenesisFirst
    <3> QED
      BY <2>2, <3>1, <3>2 DEF Log!Rooted, GenesisBlock
  <2>10. Log!Increasing(t)
    <3> SUFFICES ASSUME NEW i \in 1..n, NEW j \in 1..n, i < j, t[i].sp = t[j].sp
                 PROVE  t[i].ver < t[j].ver
      BY <2>2 DEF Log!Increasing
    <3>1. t[i].sp = bucket'[i].sp /\ t[j].sp = bucket'[j].sp
          /\ t[i].ver = bucket'[i].ver /\ t[j].ver = bucket'[j].ver
      BY <2>2
    <3> QED
      BY <3>1 DEF VersionInv, VersionsIncrease, n
  <2>11. ChainLog = s /\ ChainLog' = t
    BY DEF LogRead, s, t
  <2> QED
    BY <2>8, <2>9, <2>10, <2>11 DEF Log!Grow, ChainLog
<1> QED
  BY <1>2, <1>3, NextAppends

(* Under the same conditions, what a reader of the chain sees is one log,    *)
(* which only grows at its end: iterating from the tip never yields another  *)
(* history, and never a version that is not later than all before it.       *)
THEOREM ChainImplementsLog ==
    ASSUME Routes = {"tuples"} \/ OneAtATime, Default, Drain, MaxCrashes = 0
    PROVE  Spec => ImplementsLog
<1>1. Spec => [](TypeInv /\ ChainInv /\ VersionInv)
  BY VersionInvariant DEF Orderly, Appending
<1>2. Init => Log!Init
  <2> SUFFICES ASSUME Init PROVE ChainLog = <<>>
    BY DEF Log!Init, ChainLog
  <2>1. ChainLog = Entries
    BY InitType, InitChain, LogIsEntries DEF LogRead
  <2>2. Len(bucket) = 0
    BY DEF Init
  <2> QED
    BY <2>1, <2>2 DEF Entries
<1>3. TypeInv /\ TypeInv' /\ VersionInv' /\ LogRead /\ LogRead' /\ [Next]_vars
         => [Log!Grow]_ChainLog
  BY StepGrows
<1>4. Spec => [][Log!Grow]_ChainLog
  BY <1>1, <1>3, LogIsEntries, PTL DEF Spec
<1>5. Spec => Log!Init
  BY <1>2 DEF Spec
<1> QED
  BY <1>4, <1>5, PTL DEF ImplementsLog, Log!Spec, ChainLog

-----------------------------------------------------------------------------
(* The order of the feed, when requests come one at a time *)

(* What is on the feed. *)
Fed == {feed[n] : n \in 1..Len(feed)}

(* Nothing is being published. *)
Settled == \A h \in Handlers : pc[h] # "publish"

(* The genesis block, which main publishes on every start as long as it is  *)
(* the only one, may have to wait for it.                                  *)
GenesisPending == mode \in {"down", "starting"} /\ Len(bucket) = 1

(* What a handler has left to publish is the end of the chain, all that     *)
(* comes before it is on the feed.                                         *)
Publishing(h) ==
    LET done == Len(bucket) - Len(outbox[h]) IN
    /\ \A k \in 1..Len(outbox[h]) : outbox[h][k] = done + k
    /\ \A i \in 1..done : i \in Fed

FeedInv ==
    /\ FeedFollowsChain
    /\ \A h \in Handlers : pc[h] = "publish" => Publishing(h)
    /\ Settled /\ ~GenesisPending => \A i \in 1..Len(bucket) : i \in Fed

LEMMA InitFeed == Init => FeedInv
<1> SUFFICES ASSUME Init PROVE FeedInv
  OBVIOUS
<1>1. Len(bucket) = 0 /\ Len(feed) = 0 /\ \A h \in Handlers : pc[h] # "publish"
  BY DEF Init, AllIdle
<1> QED
  BY <1>1 DEF FeedInv, FeedFollowsChain

(* A step that neither adds nor publishes a block. *)
LEMMA FeedFrame ==
    ASSUME FeedInv, UNCHANGED <<bucket, feed>>, GenesisPending => GenesisPending',
           \A h \in Handlers : pc'[h] = "publish" <=> pc[h] = "publish",
           \A h \in Handlers : pc[h] = "publish" => outbox'[h] = outbox[h]
    PROVE  FeedInv'
<1>1. FeedFollowsChain' /\ Fed' = Fed
  BY DEF FeedInv, FeedFollowsChain, Fed
<1>2. ASSUME NEW h \in Handlers, pc'[h] = "publish" PROVE Publishing(h)'
  BY ZenonT(40), <1>1, <1>2 DEF FeedInv, Publishing
<1>3. ASSUME Settled', ~GenesisPending' PROVE \A i \in 1..Len(bucket') : i \in Fed'
  BY <1>1, <1>3 DEF FeedInv, Settled
<1> QED
  BY <1>1, <1>2, <1>3 DEF FeedInv

(* Links on the feed are as good after blocks have been added. *)
LEMMA FeedOfLonger ==
    ASSUME TypeInv, FeedFollowsChain, feed' = feed,
           \A i \in 1..Len(bucket) : bucket'[i] = bucket[i]
    PROVE  FeedFollowsChain'
<1>1. \A n \in 1..Len(feed) : feed[n] \in 1..Len(bucket)
  BY ElementOfSeq DEF TypeInv, TypeOK, GlobalsOK
<1> QED
  BY <1>1 DEF FeedFollowsChain

(* A block may be published when it is the first, or follows one that was. *)
LEMMA FeedOfNext ==
    ASSUME TypeInv, Linear, FeedFollowsChain, bucket' = bucket,
           NEW v \in 1..Len(bucket), v = 1 \/ v - 1 \in Fed, feed' = Append(feed, v)
    PROVE  /\ FeedFollowsChain'
           /\ v \in Fed'
           /\ Fed \subseteq Fed'
<1>1. Len(bucket) \in Nat /\ feed \in Seq(1..Len(bucket)) /\ Len(feed) \in Nat
  BY DEF TypeInv, TypeOK, GlobalsOK
<1>2. /\ Len(feed') = Len(feed) + 1 /\ feed'[Len(feed) + 1] = v
      /\ \A n \in 1..Len(feed) : n \in 1..Len(feed') /\ feed'[n] = feed[n]
  BY <1>1, AppendProperties
<1>3. v \in Fed' /\ Fed \subseteq Fed'
  BY <1>1, <1>2 DEF Fed
<1>4. ASSUME NEW n \in 1..Len(feed'), bucket[feed'[n]].prev # 0
      PROVE  \E m \in 1..(n - 1) : feed'[m] = bucket[feed'[n]].prev
  <2>1. CASE n \in 1..Len(feed)
    <3>1. PICK m \in 1..(n - 1) : feed[m] = bucket[feed[n]].prev
      BY <1>2, <1>4, <2>1 DEF FeedFollowsChain
    <3>2. m \in 1..Len(feed)
      BY <1>1, <2>1
    <3> QED
      BY <1>2, <2>1, <3>1, <3>2
  <2>2. CASE n = Len(feed) + 1
    <3>1. feed'[n] = v /\ bucket[v].prev = v - 1
      BY <1>2, <2>2 DEF Linear
    <3>2. v - 1 \in Fed
      BY <1>1, <1>4, <3>1
    <3>3. PICK m \in 1..Len(feed) : feed[m] = v - 1
      BY <3>2 DEF Fed
    <3> QED
      BY <1>1, <1>2, <2>2, <3>1, <3>3
  <2> QED
    BY <1>1, <1>2, <2>1, <2>2
<1>5. FeedFollowsChain'
  BY <1>4 DEF FeedFollowsChain
<1> QED
  BY <1>3, <1>5

LEMMA CommitFeed ==
    ASSUME OneAtATime, TypeInv, ChainInv, VersionInv, FeedInv, NEW h \in Handlers, Commit(h)
    PROVE  FeedInv'
<1> DEFINE n == Len(bucket)
           k == Len(pend[h])
<1>1. GlobalsOK /\ LocalsOK /\ pc[h] = "commit" /\ mode = "up"
  BY BusyIsUp DEF TypeInv, TypeOK, Commit
<1>2. \A g \in Handlers : g = h
  BY DEF OneAtATime
<1>3. /\ bucket \in Seq(Block) /\ pend[h] \in Seq(Block) /\ n \in Nat /\ k \in Nat
  BY <1>1 DEF GlobalsOK, LocalsOK
<1>4. /\ bucket' = bucket \o pend[h] /\ pc'[h] = "publish" /\ feed' = feed
      /\ outbox'[h] = [i \in 1..k |-> n + i]
  BY <1>1 DEF Commit, Goto, LocalsOK
<1>5. Len(bucket') = n + k /\ \A i \in 1..n : bucket'[i] = bucket[i]
  BY <1>3, <1>4, ConcatProperties
<1> HIDE DEF n, k
<1>6. Len(outbox'[h]) = k /\ \A i \in 1..k : outbox'[h][i] = n + i
  BY <1>3, <1>4
<1>7. \A i \in 1..n : i \in Fed'
  <2>1. Settled /\ ~GenesisPending
    BY <1>1, <1>2 DEF Settled, GenesisPending
  <2> QED
    BY <1>4, <2>1 DEF FeedInv, Fed, n
<1>8. Publishing(h)'
  <2>1. Len(bucket') - Len(outbox'[h]) = n
    BY <1>3, <1>5, <1>6
  <2> QED
    BY <1>6, <1>7, <2>1 DEF Publishing
<1>9. FeedFollowsChain'
  BY <1>4, <1>5, FeedOfLonger DEF FeedInv, n
<1> QED
  BY <1>2, <1>4, <1>8, <1>9 DEF FeedInv, Settled

LEMMA PublishFeed ==
    ASSUME OneAtATime, TypeInv, ChainInv, FeedInv, NEW h \in Handlers, Publish(h)
    PROVE  FeedInv'
<1> DEFINE n == Len(bucket)
           k == Len(outbox[h])
           v == Head(outbox[h])
<1>1. /\ GlobalsOK /\ LocalsOK /\ Linear /\ pc[h] = "publish" /\ outbox[h] # <<>>
      /\ LinksOK(h) /\ Publishing(h)
  BY DEF TypeInv, TypeOK, ChainInv, HandlerOK, StageOK, FeedInv, Publish
<1>2. \A g \in Handlers : g = h
  BY DEF OneAtATime
<1>3. /\ n \in Nat /\ outbox[h] \in Seq(Nat) /\ k \in Nat \ {0} /\ v = outbox[h][1]
  BY <1>1, EmptySeq DEF GlobalsOK, LocalsOK
<1>0. /\ \A i \in 1..k : outbox[h][i] = n - k + i /\ outbox[h][i] \in 1..n
      /\ \A i \in 1..(n - k) : i \in Fed
  BY <1>1 DEF Publishing, LinksOK
<1>4. v = n - k + 1 /\ v \in 1..n
  <2>1. 1 \in 1..k
    BY <1>3
  <2> QED
    BY <1>0, <1>3, <2>1
<1>5. bucket' = bucket /\ feed' = Append(feed, v)
  BY DEF Publish
<1> HIDE DEF n, k, v
<1>6. v = 1 \/ v - 1 \in Fed
  BY <1>0, <1>3, <1>4
<1>7. FeedFollowsChain' /\ v \in Fed' /\ Fed \subseteq Fed'
  BY <1>1, <1>4, <1>5, <1>6, FeedOfNext DEF FeedInv, n
<1>8. \A i \in 1..(n - k + 1) : i \in Fed'
  BY <1>0, <1>3, <1>4, <1>7
<1>9. CASE k > 1
  <2>1. outbox'[h] = Tail(outbox[h]) /\ pc' = pc
    BY <1>1, <1>9 DEF Publish, LocalsOK, k
  <2>2. /\ Len(outbox'[h]) = k - 1
        /\ \A i \in 1..(k - 1) : outbox'[h][i] = outbox[h][i + 1]
    BY <1>1, <1>3, <2>1, HeadTailProperties DEF k
  <2>3. \A i \in 1..(k - 1) : i + 1 \in 1..k /\ outbox[h][i + 1] = n - k + (i + 1)
    <3>1. \A i \in 1..(k - 1) : i + 1 \in 1..k
      BY <1>3
    <3> QED
      BY <1>0, <3>1
  <2>4. n - (k - 1) = n - k + 1 /\ \A i \in 1..(k - 1) : n - k + (i + 1) = n - (k - 1) + i
    BY <1>3
  <2>5. \A i \in 1..(k - 1) : outbox'[h][i] = n - (k - 1) + i
    BY <2>2, <2>3, <2>4
  <2>6. Publishing(h)'
    BY <1>5, <1>8, <2>2, <2>4, <2>5 DEF Publishing, n
  <2> QED
    BY <1>1, <1>2, <1>7, <2>1, <2>6 DEF FeedInv, Settled
<1>10. CASE k = 1
  <2>1. Idle({h})
    BY <1>10 DEF Publish, k
  <2>2. pc'[h] = "idle"
    BY <1>1, <2>1, IdleType
  <2>3. \A i \in 1..n : i \in Fed'
    BY <1>3, <1>8, <1>10
  <2> QED
    BY <1>2, <1>5, <1>7, <2>2, <2>3 DEF FeedInv, n
<1> QED
  BY <1>3, <1>9, <1>10

LEMMA PublishGenesisFeed ==
    ASSUME MaxFaults = 0, TypeInv, ChainInv, VersionInv, FeedInv, PublishGenesis
    PROVE  FeedInv'
<1>1. /\ GlobalsOK /\ Linear /\ mode = "starting" /\ mode' = "up" /\ faults \in Nat
      /\ UNCHANGED <<bucket, pc, outbox>>
  BY DEF TypeInv, TypeOK, GlobalsOK, ChainInv, PublishGenesis, locals
<1>2. /\ bucket # <<>> /\ \A h \in Handlers : pc[h] = "idle"
      /\ bucket[1] = GenesisBlock /\ \A i \in 2..Len(bucket) : bucket[i].sp \in SPs
  BY <1>1 DEF VersionInv, OneSketch, GenesisFirst
<1>3. Len(bucket) \in Nat \ {0} /\ last = Len(bucket)
  BY <1>1, <1>2, EmptySeq DEF GlobalsOK, Linear
<1>4. CASE Len(bucket) = 1
  <2>1. last = 1 /\ TipIsGenesis
    BY <1>2, <1>3, <1>4 DEF TipIsGenesis, GenesisBlock
  <2>2. ~ (faults < MaxFaults)
    BY <1>1
  <2>3. feed' = Append(feed, last)
    BY <2>1, <2>2 DEF PublishGenesis
  <2>4. 1 \in 1..Len(bucket) /\ feed' = Append(feed, 1)
    BY <1>4, <2>1, <2>3
  <2>5. FeedFollowsChain' /\ 1 \in Fed'
    BY <1>1, <2>4, FeedOfNext DEF FeedInv
  <2>6. \A i \in 1..Len(bucket') : i = 1
    BY <1>1, <1>4
  <2>7. \A i \in 1..Len(bucket') : i \in Fed'
    BY <2>5, <2>6
  <2> QED
    BY <1>1, <1>2, <2>5, <2>7 DEF FeedInv
<1>5. CASE Len(bucket) # 1
  <2>1. last # 1 /\ last \in 2..Len(bucket)
    BY <1>3, <1>5
  <2>2. bucket[last].sp # Genesis
    BY <1>2, <2>1
  <2>3. ~TipIsGenesis
    BY <2>2 DEF TipIsGenesis
  <2>4. feed' = feed
    BY <2>3 DEF PublishGenesis
  <2> QED
    BY <1>1, <1>5, <2>4, FeedFrame DEF GenesisPending
<1> QED
  BY <1>4, <1>5

LEMMA StartFeed ==
    ASSUME Default, TypeInv, ChainInv, VersionInv, FeedInv, Start PROVE FeedInv'
<1>1. /\ GlobalsOK /\ Linear /\ mode = "down" /\ mode' = "starting" /\ OpenBucket
      /\ UNCHANGED <<feed, pc, outbox>> /\ \A h \in Handlers : pc[h] = "idle"
  BY DEF TypeInv, TypeOK, ChainInv, Start, locals
<1>2. CASE exists
  <2>1. bucket' = bucket
    BY <1>1, <1>2 DEF OpenBucket
  <2> QED
    BY <1>1, <2>1, FeedFrame DEF GenesisPending
<1>3. CASE ~exists
  <2>1. bucket = <<>> /\ Len(bucket) = 0 /\ bucket' = Append(<<>>, GenesisBlock)
    BY <1>1, <1>3 DEF OpenBucket, Linear
  <2>2. Len(bucket') = 1
    BY <2>1
  <2>3. FeedFollowsChain'
    BY <1>1, <2>1, FeedOfLonger DEF FeedInv
  <2> QED
    BY <1>1, <2>2, <2>3 DEF FeedInv, GenesisPending
<1> QED
  BY <1>2, <1>3

LEMMA StopFeed ==
    ASSUME Drain, TypeInv, VersionInv, FeedInv, SaveCMS \/ CloseDB \/ Exit
    PROVE  FeedInv'
<1>1. /\ LocalsOK /\ mode \in {"up", "saved", "closed"} /\ UNCHANGED <<bucket, feed>>
      /\ \A h \in Handlers : pc[h] = "idle"
  BY DEF TypeInv, TypeOK, VersionInv, OneSketch, SaveCMS, CloseDB, Exit, Halt, disk
<1>2. \A h \in Handlers : pc'[h] = "idle"
  <2>1. CASE Exit
    BY <1>1, <2>1, IdleType DEF Exit, Halt
  <2>2. CASE SaveCMS \/ CloseDB
    BY <1>1, <2>2 DEF SaveCMS, CloseDB, locals
  <2> QED
    BY <2>1, <2>2
<1> QED
  BY <1>1, <1>2, FeedFrame DEF GenesisPending

LEMMA ServeFeed ==
    ASSUME OneAtATime, MaxFaults = 0, TypeInv, ChainInv, VersionInv, FeedInv,
           NEW h \in Handlers, Serve(h)
    PROVE  FeedInv'
<1>1. /\ LocalsOK /\ faults \in Nat /\ pc[h] \notin {"register", "create"}
      /\ mode = "closed" => pc[h] = "idle"
  BY DEF TypeInv, TypeOK, GlobalsOK, VersionInv, Ahead, OneSketch
<1>2. ~RegisterCMS(h) /\ ~CreateGenesis(h) /\ ~Abort(h) /\ ~PublishFails(h) /\ ~Refused(h)
  BY <1>1 DEF RegisterCMS, CreateGenesis, Abort, PublishFails, Refused
<1>3. CASE \/ OpenKnown(h) \/ OpenBuckets(h) \/ OpenNew(h) \/ ReadTip(h) \/ Estimate(h) \/ Count(h)
  <2>1. /\ UNCHANGED <<bucket, feed, mode, outbox>>
        /\ pc[h] # "publish" /\ pc'[h] # "publish"
        /\ \A g \in Handlers \ {h} : pc'[g] = pc[g]
    BY <1>1, <1>3 DEF OpenKnown, OpenBuckets, OpenNew, Accept, ReadTip, Estimate, Count,
                      Goto, disk, LocalsOK
  <2> QED
    BY <2>1, FeedFrame DEF GenesisPending
<1> QED
  BY <1>2, <1>3, CommitFeed, PublishFeed DEF Serve

LEMMA NextFeed ==
    ASSUME OneAtATime, Default, Drain, MaxCrashes = 0, MaxFaults = 0
    PROVE  TypeInv /\ ChainInv /\ VersionInv /\ FeedInv /\ [Next]_vars => FeedInv'
<1> SUFFICES ASSUME TypeInv, ChainInv, VersionInv, FeedInv, [Next]_vars PROVE FeedInv'
  OBVIOUS
<1>1. CASE Quiescent \/ UNCHANGED vars
  <2>1. UNCHANGED <<bucket, feed, mode, pc, outbox>>
    BY <1>1 DEF Quiescent, vars, disk, locals
  <2> QED
    BY <2>1, FeedFrame DEF GenesisPending
<1>2. ~Crash
  BY DEF TypeInv, TypeOK, GlobalsOK, Crash
<1> QED
  BY <1>1, <1>2, ServeFeed, StartFeed, PublishGenesisFeed, StopFeed DEF Next

(* When the requests come one at a time and no publication fails, a block   *)
(* is on the feed only after the block it is linked to, on either route and *)
(* across clean restarts: a peer that reads the feed can always append.     *)
THEOREM FeedIsOrdered ==
    ASSUME OneAtATime, Default, Drain, MaxCrashes = 0, MaxFaults = 0
    PROVE  Spec => []FeedFollowsChain
<1>1. Spec => [](TypeInv /\ ChainInv /\ VersionInv)
  BY VersionInvariant DEF Orderly, Appending
<1>2. TypeInv /\ ChainInv /\ VersionInv /\ FeedInv /\ [Next]_vars => FeedInv'
  BY NextFeed
<1>3. FeedInv => FeedFollowsChain
  BY DEF FeedInv
<1> QED
  BY <1>1, <1>2, <1>3, InitFeed, PTL DEF Spec

=============================================================================
