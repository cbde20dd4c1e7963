------------------------------ MODULE Sigchain ------------------------------
(***************************************************************************)
(* The local sigchain of one author in one context: the chain of signed    *)
(* blocks in the "blocks" bucket of bolt, the count-min sketch that gives  *)
(* every tuple its version, and the web handlers that append to the chain  *)
(* and then publish each new block on the node's "feed" stream.            *)
(*                                                                         *)
(* A block is identified by its position in the order of commits: Hash of  *)
(* the source is an index of bucket here, and 0 is the empty string, which *)
(* is both the PrevBlockHash of a genesis block and what a lookup of the   *)
(* tip yields in a bucket without one.                                     *)
(***************************************************************************)
EXTENDS Naturals, Sequences, FiniteSets

CONSTANTS
    Handlers,      \* goroutines that serve a POST request
    SPs,           \* the subject/predicate pairs clients post
    Cells,         \* cells of the count-min sketch
    Cell,          \* the cell of each pair (two pairs that share it collide)
    Routes,        \* the routes clients use, among "tuple" and "tuples"
    Default,       \* TRUE: the context main opens at startup; FALSE: another
    Drain,         \* TRUE: the signal to stop comes when no request is served
    MaxBatch,      \* bound: tuples in one POST to /tuples
    MaxRequests,   \* bound: requests over the whole behaviour
    MaxCrashes,    \* bound: kills that no signal handler sees
    MaxStops,      \* bound: clean shutdowns
    MaxFaults,     \* bound: failed publications and failed transactions
    Main, None, Genesis

ASSUME RoutesAssumption == Routes \subseteq {"tuple", "tuples"}
ASSUME CellAssumption   == Cell \in [SPs -> Cells]
ASSUME NameAssumption   == Main \notin Handlers /\ None \notin Handlers \cup {Main}
ASSUME GenesisAssumption == Genesis \notin SPs
ASSUME BoundAssumption  ==
    /\ Default \in BOOLEAN /\ Drain \in BOOLEAN
    /\ MaxBatch \in Nat \ {0}
    /\ {MaxRequests, MaxCrashes, MaxStops, MaxFaults} \subseteq Nat

VARIABLES
    exists,     \* the "blocks" bucket has been created
    bucket,     \* the blocks of the bucket, in the order of their commits
    last,       \* the value under key "l": the hash of the tip, or 0
    writer,     \* who holds bolt's lock for write transactions
    feed,       \* the hashes on the persisted stream "feed"
    cmsFile,    \* the counters in the .cms file of the context
    cms,        \* the counters of each N3CMS, named for whoever created it
    cmsStore,   \* localCMSStore[context], or None
    listed,     \* the context is a key of localBlockchains
    mode,       \* "down", "starting", "up", "saved" or "closed"
    pc, route, mine, tip, todo, known, pend, outbox,   \* locals of a handler
    requests, crashes, stops, faults                   \* what is bounded

disk     == <<exists, bucket, last, feed, cmsFile>>
sketches == <<cms, cmsStore, listed>>
locals   == <<pc, route, mine, tip, todo, known, pend, outbox>>
counters == <<requests, crashes, stops, faults>>
vars     == <<disk, writer, sketches, mode, locals, counters>>

Instances == Handlers \cup {Main}
Counts    == [Cells -> Nat]
Block     == [prev : Nat, sp : SPs \cup {Genesis}, ver : Nat]

(* NewGenesisBlock: no predecessor, version 0, counted in no sketch. *)
GenesisBlock == [prev |-> 0, sp |-> Genesis, ver |-> 0]

(* What a POST carries: one tuple, or an array of them. *)
Batches(r) == IF r = "tuple" THEN [1..1 -> SPs]
              ELSE UNION {[1..n -> SPs] : n \in 1..MaxBatch}

(* Mutant: the comparison is off by one. *)
NextVersionMutant(k) == IF k > 1 THEN k + 1 ELSE 1

NextVersion(k) == IF k > 0 THEN k + 1 ELSE 1

(* Mutants: a batch does not move lastHash on; it moves it one too far. *)
LastHashMutant(h) == tip[h]
LastHashPastMutant(h) ==
    IF pend[h] = <<>> THEN tip[h] ELSE Len(bucket) + Len(pend[h]) + 1

(* lastHash inside AddNewBlock(s): the tip that was read, then the hash of *)
(* the block just made, which the commit will put in the bucket.           *)
LastHash(h) == IF pend[h] = <<>> THEN tip[h] ELSE Len(bucket) + Len(pend[h])

(* The handlers in hs serve no request any more. *)
Idle(hs) ==
    LET ResetTo(f, v) == [h \in Handlers |-> IF h \in hs THEN v ELSE f[h]] IN
    /\ pc'   = ResetTo(pc, "idle") /\ route'  = ResetTo(route, None)
    /\ mine' = ResetTo(mine, None) /\ tip'    = ResetTo(tip, 0)
    /\ todo' = ResetTo(todo, <<>>) /\ known'  = ResetTo(known, 0)
    /\ pend' = ResetTo(pend, <<>>) /\ outbox' = ResetTo(outbox, <<>>)

AllIdle ==
    /\ pc     = [h \in Handlers |-> "idle"]
    /\ route  = [h \in Handlers |-> None]
    /\ mine   = [h \in Handlers |-> None]
    /\ tip    = [h \in Handlers |-> 0]
    /\ todo   = [h \in Handlers |-> <<>>]
    /\ known  = [h \in Handlers |-> 0]
    /\ pend   = [h \in Handlers |-> <<>>]
    /\ outbox = [h \in Handlers |-> <<>>]

Goto(h, label) == pc' = [pc EXCEPT ![h] = label]

Init ==
    /\ exists = FALSE /\ bucket = <<>> /\ last = 0 /\ feed = <<>>
    /\ cmsFile = [c \in Cells |-> 0]
    /\ cms = [i \in Instances |-> [c \in Cells |-> 0]]
    /\ cmsStore = None /\ listed = FALSE
    /\ writer = None /\ mode = "down"
    /\ AllIdle
    /\ requests = 0 /\ crashes = 0 /\ stops = 0 /\ faults = 0

-----------------------------------------------------------------------------
(* main *)

(* Mutant: the check for an existing bucket is missing. *)
OpenBucketMutant ==
    /\ exists' = TRUE
    /\ bucket' = Append(bucket, GenesisBlock)
    /\ last'   = Len(bucket) + 1

(* The transaction of NewBlockchain: a bucket that is not there yet is     *)
(* created with the genesis block as its tip.                              *)
OpenBucket ==
    IF exists THEN UNCHANGED <<exists, bucket, last>>
    ELSE /\ exists' = TRUE
         /\ bucket' = Append(bucket, GenesisBlock)
         /\ last'   = Len(bucket) + 1

(* NewBlockchain called from main, before the web server runs. *)
Start ==
    /\ mode = "down"
    /\ IF Default
       THEN /\ OpenBucket
            /\ cms' = [cms EXCEPT ![Main] = cmsFile]
            /\ cmsStore' = Main /\ listed' = TRUE
            /\ mode' = "starting"
       ELSE /\ mode' = "up"
            /\ UNCHANGED <<exists, bucket, last, sketches>>
    /\ UNCHANGED <<feed, cmsFile, writer, locals, counters>>

TipIsGenesis == last > 0 /\ bucket[last].sp = Genesis

(* main publishes the genesis block as long as nothing follows it; an      *)
(* error is logged and startup goes on.                                    *)
PublishGenesis ==
    /\ mode = "starting"
    /\ \/ /\ TipIsGenesis
          /\ feed' = Append(feed, last)
          /\ UNCHANGED faults
       \/ /\ TipIsGenesis /\ faults < MaxFaults
          /\ faults' = faults + 1
          /\ UNCHANGED feed
       \/ /\ ~TipIsGenesis
          /\ UNCHANGED <<feed, faults>>
    /\ mode' = "up"
    /\ UNCHANGED <<exists, bucket, last, cmsFile, writer, sketches, locals,
                   requests, crashes, stops>>

-----------------------------------------------------------------------------
(* GetBlockchain, called by a handler *)

Accept(h, r) ==
    /\ pc[h] = "idle" /\ requests < MaxRequests
    /\ mode = "up" \/ (~Drain /\ mode = "saved")
    /\ requests' = requests + 1
    /\ route' = [route EXCEPT ![h] = r]
    /\ \E b \in Batches(r) : todo' = [todo EXCEPT ![h] = b]

(* localCMSStore has the context: take its sketch. *)
OpenKnown(h) == \E r \in Routes :
    /\ Accept(h, r)
    /\ cmsStore # None
    /\ mine' = [mine EXCEPT ![h] = cmsStore]
    /\ Goto(h, "open")
    /\ UNCHANGED <<disk, writer, sketches, mode, tip, known, pend, outbox,
                   crashes, stops, faults>>

(* Make sure the buckets exist. No genesis block is written here. *)
OpenBuckets(h) ==
    /\ pc[h] = "open" /\ mode # "closed" /\ writer = None
    /\ exists' = TRUE
    /\ Goto(h, "tip")
    /\ UNCHANGED <<bucket, last, feed, cmsFile, writer, sketches, mode, route, mine,
                   tip, todo, known, pend, outbox, counters>>

(* localCMSStore lacks the context: the handler calls NewBlockchain. *)
OpenNew(h) == \E r \in Routes :
    /\ Accept(h, r)
    /\ cmsStore = None
    /\ Goto(h, "register")
    /\ UNCHANGED <<disk, writer, sketches, mode, mine, tip, known, pend, outbox,
                   crashes, stops, faults>>

(* NewBlockchain: load a sketch and put it in localCMSStore, over whatever *)
(* another handler may have put there meanwhile.                           *)
RegisterCMS(h) ==
    /\ pc[h] = "register"
    /\ cms' = [cms EXCEPT ![h] = cmsFile]
    /\ cmsStore' = h
    /\ mine' = [mine EXCEPT ![h] = h]
    /\ Goto(h, "create")
    /\ UNCHANGED <<disk, writer, listed, mode, route, tip, todo, known, pend,
                   outbox, counters>>

CreateGenesis(h) ==
    /\ pc[h] = "create" /\ mode # "closed" /\ writer = None
    /\ OpenBucket
    /\ listed' = TRUE
    /\ Goto(h, "tip")
    /\ UNCHANGED <<feed, cmsFile, writer, cms, cmsStore, mode, route, mine, tip,
                   todo, known, pend, outbox, counters>>

-----------------------------------------------------------------------------
(* AddNewBlock (route "tuple") and AddNewBlocks (route "tuples") *)

(* AddNewBlock reads the tip in a read transaction of its own; AddNewBlocks *)
(* reads it inside the write transaction that will replace it.             *)
ReadTip(h) ==
    /\ pc[h] = "tip" /\ mode # "closed"
    /\ IF route[h] = "tuples"
       THEN writer = None /\ writer' = h
       ELSE UNCHANGED writer
    /\ tip' = [tip EXCEPT ![h] = last]
    /\ Goto(h, "version")
    /\ UNCHANGED <<disk, sketches, mode, route, mine, todo, known, pend, outbox,
                   counters>>

Estimate(h) ==
    /\ pc[h] = "version"
    /\ known' = [known EXCEPT ![h] = cms[mine[h]][Cell[Head(todo[h])]]]
    /\ Goto(h, "count")
    /\ UNCHANGED <<disk, writer, sketches, mode, route, mine, tip, todo, pend,
                   outbox, counters>>

(* Count the tuple and make its block (NewBlock: link, hash, signature). *)
Count(h) ==
    /\ pc[h] = "count"
    /\ cms' = [cms EXCEPT ![mine[h]][Cell[Head(todo[h])]] = @ + 1]
    /\ pend' = [pend EXCEPT ![h] = Append(@,
                  [prev |-> LastHash(h), sp |-> Head(todo[h]),
                   ver  |-> NextVersion(known[h])])]
    /\ todo' = [todo EXCEPT ![h] = Tail(@)]
    /\ Goto(h, IF Len(todo[h]) > 1 THEN "version" ELSE "commit")
    /\ UNCHANGED <<disk, writer, cmsStore, listed, mode, route, mine, tip, known,
                   outbox, counters>>

(* The commit of the write transaction: the blocks and the new tip. *)
Commit(h) ==
    /\ pc[h] = "commit" /\ mode # "closed"
    /\ writer = (IF route[h] = "tuples" THEN h ELSE None)
    /\ bucket' = bucket \o pend[h]
    /\ last' = Len(bucket) + Len(pend[h])
    /\ writer' = None
    /\ outbox' = [outbox EXCEPT ![h] = [i \in 1..Len(pend[h]) |-> Len(bucket) + i]]
    /\ pend' = [pend EXCEPT ![h] = <<>>]
    /\ Goto(h, "publish")
    /\ UNCHANGED <<exists, feed, cmsFile, sketches, mode, route, mine, tip, todo,
                   known, counters>>

(* A signature, a Put or the commit fails: the transaction is rolled back, *)
(* the sketch keeps what was counted, the request ends in an error.        *)
Abort(h) ==
    /\ pc[h] \in {"version", "commit"} /\ pend[h] # <<>>
    /\ faults < MaxFaults
    /\ faults' = faults + 1
    /\ writer' = IF writer = h THEN None ELSE writer
    /\ Idle({h})
    /\ UNCHANGED <<disk, sketches, mode, requests, crashes, stops>>

(* bolt is closed: every transaction is refused, the request fails. *)
Refused(h) ==
    /\ mode = "closed" /\ writer # h
    /\ pc[h] \in {"open", "create", "tip", "commit"}
    /\ Idle({h})
    /\ UNCHANGED <<disk, writer, sketches, mode, counters>>

-----------------------------------------------------------------------------
(* Publication: one synchronous Publish per block, after the commit *)

(* Mutants: PublishAsync lets the blocks of a batch overtake each other;   *)
(* only the first block of a batch is published.                           *)
PublishAsyncMutant(h) ==
    /\ pc[h] = "publish"
    /\ LET n == Len(outbox[h]) IN
       /\ feed' = Append(feed, outbox[h][n])
       /\ IF n > 1
          THEN /\ outbox' = [outbox EXCEPT ![h] = SubSeq(@, 1, n - 1)]
               /\ UNCHANGED <<pc, route, mine, tip, todo, known, pend>>
          ELSE Idle({h})
    /\ UNCHANGED <<exists, bucket, last, cmsFile, writer, sketches, mode, counters>>
PublishFirstMutant(h) ==
    /\ pc[h] = "publish"
    /\ feed' = Append(feed, Head(outbox[h]))
    /\ Idle({h})
    /\ UNCHANGED <<exists, bucket, last, cmsFile, writer, sketches, mode, counters>>

Publish(h) ==
    /\ pc[h] = "publish"
    /\ feed' = Append(feed, Head(outbox[h]))
    /\ IF Len(outbox[h]) > 1
       THEN /\ outbox' = [outbox EXCEPT ![h] = Tail(@)]
            /\ UNCHANGED <<pc, route, mine, tip, todo, known, pend>>
       ELSE Idle({h})
    /\ UNCHANGED <<exists, bucket, last, cmsFile, writer, sketches, mode, counters>>

(* An error from Publish ends the request; the rest of the batch is not    *)
(* published.                                                              *)
PublishFails(h) ==
    /\ pc[h] = "publish" /\ faults < MaxFaults
    /\ faults' = faults + 1
    /\ Idle({h})
    /\ UNCHANGED <<disk, writer, sketches, mode, requests, crashes, stops>>

-----------------------------------------------------------------------------
(* Shutdown and crash *)

(* CloseLocalBlockchains, first half: GetBlockchain and cms.Close for every *)
(* context in localBlockchains.                                            *)
SaveCMS ==
    /\ mode = "up" /\ stops < MaxStops
    /\ writer = None
    /\ Drain => \A h \in Handlers : pc[h] = "idle"
    /\ stops' = stops + 1
    /\ cmsFile' = IF listed THEN cms[cmsStore] ELSE cmsFile
    /\ mode' = "saved"
    /\ UNCHANGED <<exists, bucket, last, feed, writer, sketches, locals,
                   requests, crashes, faults>>

(* boltDB.Close waits for the transaction that is open. *)
CloseDB ==
    /\ mode = "saved" /\ writer = None
    /\ mode' = "closed"
    /\ UNCHANGED <<disk, writer, sketches, locals, counters>>

(* What was in memory is gone; an open transaction leaves no trace. *)
Halt ==
    /\ mode' = "down"
    /\ writer' = None
    /\ cms' = [i \in Instances |-> [c \in Cells |-> 0]]
    /\ cmsStore' = None /\ listed' = FALSE
    /\ Idle(Handlers)
    /\ UNCHANGED disk

(* The rest of the signal handler, down to os.Exit. *)
Exit == mode = "closed" /\ Halt /\ UNCHANGED counters

Crash ==
    /\ mode # "down" /\ crashes < MaxCrashes
    /\ crashes' = crashes + 1
    /\ Halt
    /\ UNCHANGED <<requests, stops, faults>>

(* The bounds are used up and the node waits for requests. *)
Quiescent ==
    /\ mode = "up" /\ requests = MaxRequests
    /\ \A h \in Handlers : pc[h] = "idle"
    /\ UNCHANGED vars

Serve(h) ==
    \/ OpenKnown(h) \/ OpenBuckets(h) \/ OpenNew(h) \/ RegisterCMS(h) \/ CreateGenesis(h)
    \/ ReadTip(h) \/ Estimate(h) \/ Count(h) \/ Commit(h) \/ Abort(h)
    \/ Refused(h) \/ Publish(h) \/ PublishFails(h)

Next ==
    \/ Start \/ PublishGenesis
    \/ \E h \in Handlers : Serve(h)
    \/ SaveCMS \/ CloseDB \/ Exit \/ Crash
    \/ Quiescent

Spec == Init /\ [][Next]_vars

(* A request that was accepted is served to its end: goroutines are        *)
(* scheduled, bolt's mutex is handed to a waiting writer, the node is       *)
(* started again after it stopped. Requests and failures are not promised. *)
Proceed(h) ==
    \/ OpenBuckets(h) \/ RegisterCMS(h) \/ CreateGenesis(h) \/ ReadTip(h) \/ Estimate(h)
    \/ Count(h) \/ Commit(h) \/ Refused(h) \/ Publish(h)

FairSpec ==
    /\ Spec
    /\ WF_vars(Start) /\ WF_vars(PublishGenesis) /\ WF_vars(Exit) /\ WF_vars(CloseDB)
    /\ \A h \in Handlers : SF_vars(Proceed(h))

-----------------------------------------------------------------------------
(* Properties *)

GlobalsOK ==
    /\ exists \in BOOLEAN /\ listed \in BOOLEAN
    /\ bucket \in Seq(Block) /\ last \in 0..Len(bucket)
    /\ \A i \in 1..Len(bucket) : bucket[i].prev < i
    /\ feed \in Seq(1..Len(bucket))
    /\ writer \in Handlers \cup {None} /\ cmsStore \in Instances \cup {None}
    /\ cmsFile \in Counts /\ cms \in [Instances -> Counts]
    /\ mode \in {"down", "starting", "up", "saved", "closed"}
    /\ requests \in Nat /\ crashes \in Nat /\ stops \in Nat /\ faults \in Nat

LocalsOK ==
    /\ pc \in [Handlers -> {"idle", "open", "register", "create", "tip", "version",
                            "count", "commit", "publish"}]
    /\ route \in [Handlers -> Routes \cup {None}]
    /\ mine \in [Handlers -> Instances \cup {None}]
    /\ tip \in [Handlers -> Nat] /\ known \in [Handlers -> Nat]
    /\ todo \in [Handlers -> Seq(SPs)] /\ pend \in [Handlers -> Seq(Block)]
    /\ outbox \in [Handlers -> Seq(Nat)]

(* Every variable has its type, and a link points to an earlier block. *)
TypeOK == GlobalsOK /\ LocalsOK

(* "Blockchain keeps a sequence of Blocks" (blockchain.go:34): no block has *)
(* two successors, whatever handlers append at the same time.               *)
NoFork == \A i, j \in 1..Len(bucket) : bucket[i].prev = bucket[j].prev => i = j

(* The versions given to one subject/predicate pair increase along the      *)
(* chain, across restarts too: the resolver downstream keeps the tuple with *)
(* the greatest version (AddNewBlock's "assign data tuple version within    *)
(* this b/c context").                                                      *)
VersionsIncrease == \A i, j \in 1..Len(bucket) :
    i < j /\ bucket[i].sp = bucket[j].sp => bucket[i].ver < bucket[j].ver

(* A block is on the feed only after the block it is linked to: AddBlock of *)
(* a peer rejects it otherwise ("block has no chain").                      *)
FeedFollowsChain == \A n \in 1..Len(feed) :
    LET p == bucket[feed[n]].prev IN
    p # 0 => \E m \in 1..(n - 1) : feed[m] = p

(* What BlockchainIterator visits from the tip, oldest block first. *)
Chain == LET Walk[i \in 0..Len(bucket)] ==
               IF i = 0 THEN <<>> ELSE Append(Walk[bucket[i].prev], i)
         IN  Walk[last]

(* The chain as its readers see it is a log that only grows, from a genesis *)
(* entry on, with increasing versions.                                      *)
Log == INSTANCE VersionedLog WITH
         log <- [i \in 1..Len(Chain) |-> [sp  |-> bucket[Chain[i]].sp,
                                          ver |-> bucket[Chain[i]].ver]]

ImplementsLog == Log!Spec

(* Every block of the chain reaches the feed ("All incoming records ... go  *)
(* into "feed" via sigchain", app/n3/n3.go:135).                            *)
BlockReachesFeed == \A i \in 1..(1 + MaxRequests * MaxBatch) :
    i <= Len(bucket) ~> \E n \in 1..Len(feed) : feed[n] = i

=============================================================================
