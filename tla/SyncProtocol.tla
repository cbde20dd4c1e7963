---------------------------- MODULE SyncProtocol ----------------------------
(***************************************************************************)
(* Replication of sigchains between peers: every node writes each block of *)
(* its "feed" to each connected peer, and adds each block it reads to its  *)
(* copy of the author's chain before it publishes it on its own feed.      *)
(*                                                                         *)
(* A block is named by its author and its place in the author's chain: its *)
(* predecessor is the block one place before, and place 1 is the genesis   *)
(* block (Sigchain shows when chains have this shape). Blocks are signed,  *)
(* so Verify passes on every block a peer sends.                           *)
(***************************************************************************)
EXTENDS Naturals, Sequences, FiniteSets

CONSTANTS
    Nodes,
    Target,       \* the peer each node is told to dial (flag -d), or None
    Quota,        \* bound: the blocks each node makes
    InOrder,      \* TRUE: a node's blocks reach its feed in chain order
    MaxDrops,     \* bound: streams that break, dials and publications that fail
    MaxRestarts,  \* bound: nodes that stop and start again
    None

ASSUME TargetAssumption ==
    /\ Target \in [Nodes -> Nodes \cup {None}]
    /\ \A n \in Nodes : Target[n] # n
    /\ \A n, m \in Nodes : ~(Target[n] = m /\ Target[m] = n)
ASSUME QuotaAssumption    == Quota \in [Nodes -> Nat]
ASSUME NoneAssumption     == None \notin Nodes
ASSUME NoBlockAssumption  == None \notin [author : Nodes, place : Nat]
ASSUME BoundAssumption    == InOrder \in BOOLEAN /\ MaxDrops \in Nat /\ MaxRestarts \in Nat

VARIABLES
    chain,     \* the length of each node's own chain
    unpub,     \* own blocks in bolt that no handler has published yet
    bucket,    \* bucket[n][a]: the places of a's chain that n has stored
    feed,      \* the stream "feed" of each node, persisted by its broker
    dialling,  \* the nodes whose main has not called ConnectToPeer yet
    link,      \* the pairs {n, m} with an open stream
    wire,      \* wire[n][m]: what n wrote and m has not read
    hand,      \* hand[m][n]: the block read from n, stored, not yet published
    writer,    \* writer[n][m]: the goroutine at n that writes to m
    pos,       \* pos[n][m]: how much of n's feed that goroutine has seen
    msgCMS,    \* what n registered as sent, and to whom
    msgFile,   \* msgs.cms of each node
    drops, restarts

store   == <<chain, unpub, bucket>>
streams == <<dialling, link, wire>>
writers == <<writer, pos, msgCMS>>
vars    == <<store, feed, streams, hand, writers, msgFile, drops, restarts>>

Dialers  == {n \in Nodes : Target[n] # None}
Topology == {{n, Target[n]} : n \in Dialers}
Peers(n) == {m \in Nodes : {n, m} \in Topology}

Block == [author : Nodes, place : Nat]
Entry == [blk : Block, sender : Nodes]

Init ==
    /\ chain = [n \in Nodes |-> 0]
    /\ unpub = [n \in Nodes |-> {}]
    /\ bucket = [n \in Nodes |-> [a \in Nodes |-> {}]]
    /\ feed = [n \in Nodes |-> <<>>]
    /\ dialling = Dialers
    /\ link = {}
    /\ wire = [n \in Nodes |-> [m \in Nodes |-> <<>>]]
    /\ hand = [n \in Nodes |-> [m \in Nodes |-> None]]
    /\ writer = [n \in Nodes |-> [m \in Nodes |-> "none"]]
    /\ pos = [n \in Nodes |-> [m \in Nodes |-> 0]]
    /\ msgCMS = [n \in Nodes |-> {}] /\ msgFile = [n \in Nodes |-> {}]
    /\ drops = 0 /\ restarts = 0

-----------------------------------------------------------------------------
(* The node's own blocks, as Sigchain adds and publishes them *)

Commit(n) ==
    /\ chain[n] < Quota[n]
    /\ chain' = [chain EXCEPT ![n] = @ + 1]
    /\ bucket' = [bucket EXCEPT ![n][n] = @ \cup {chain[n] + 1}]
    /\ unpub' = [unpub EXCEPT ![n] = @ \cup {chain[n] + 1}]
    /\ UNCHANGED <<feed, streams, hand, writers, msgFile, drops, restarts>>

(* Mutant: the handlers publish from goroutines of their own. *)
PublishOwnMutant(n) == \E p \in unpub[n] :
    /\ unpub' = [unpub EXCEPT ![n] = @ \ {p}]
    /\ feed' = [feed EXCEPT ![n] =
                  Append(@, [blk |-> [author |-> n, place |-> p], sender |-> n])]
    /\ UNCHANGED <<chain, bucket, streams, hand, writers, msgFile, drops, restarts>>

PublishOwn(n) == \E p \in unpub[n] :
    /\ InOrder => \A q \in unpub[n] : p <= q
    /\ unpub' = [unpub EXCEPT ![n] = @ \ {p}]
    /\ feed' = [feed EXCEPT ![n] =
                  Append(@, [blk |-> [author |-> n, place |-> p], sender |-> n])]
    /\ UNCHANGED <<chain, bucket, streams, hand, writers, msgFile, drops, restarts>>

-----------------------------------------------------------------------------
(* createOutboundWriter: the callback for one message of the feed *)

(* Mutant: a block that came from any peer is not passed on. *)
SkipMutant(n, m, e) == e.sender # n \/ <<e.blk, m>> \in msgCMS[n]

(* Mutant: msgCMS is not asked. *)
SkipSeenMutant(n, m, e) == e.blk.author = m \/ e.sender = m

Skip(n, m, e) ==
    \/ e.blk.author = m
    \/ e.sender = m
    \/ <<e.blk, m>> \in msgCMS[n]

NextOf(n, m) == feed[n][pos[n][m] + 1]

CanTake(n, m) == writer[n][m] # "none" /\ pos[n][m] < Len(feed[n])

PassOver(n, m) ==
    /\ CanTake(n, m) /\ Skip(n, m, NextOf(n, m))
    /\ pos' = [pos EXCEPT ![n][m] = @ + 1]
    /\ UNCHANGED <<store, feed, streams, hand, writer, msgCMS, msgFile, drops, restarts>>

(* sendBlock, by what the writer knows of its stream. On one that is closed *)
(* the first block goes into the buffer and the error of Flush is dropped;  *)
(* the next Encode fails, and the error ends the goroutine.                *)
SendAttached(n, m) ==
    /\ writer[n][m] = "attached"
    /\ wire' = [wire EXCEPT ![n][m] = Append(@, NextOf(n, m).blk)]
    /\ pos' = [pos EXCEPT ![n][m] = @ + 1]
    /\ UNCHANGED writer

SendClosed(n, m) ==
    /\ writer[n][m] = "closed"
    /\ writer' = [writer EXCEPT ![n][m] = "failing"]
    /\ pos' = [pos EXCEPT ![n][m] = @ + 1]
    /\ UNCHANGED wire

SendFails(n, m) ==
    /\ writer[n][m] = "failing"
    /\ writer' = [writer EXCEPT ![n][m] = "none"]
    /\ pos' = [pos EXCEPT ![n][m] = 0]
    /\ UNCHANGED wire

(* The other end has stopped reading and has closed its side only. *)
SendUnread(n, m) ==
    /\ writer[n][m] = "unread"
    /\ pos' = [pos EXCEPT ![n][m] = @ + 1]
    /\ UNCHANGED <<writer, wire>>

(* The block is registered as sent whatever became of it. *)
Send(n, m) ==
    /\ CanTake(n, m) /\ ~Skip(n, m, NextOf(n, m))
    /\ SendAttached(n, m) \/ SendUnread(n, m) \/ SendClosed(n, m) \/ SendFails(n, m)
    /\ msgCMS' = [msgCMS EXCEPT ![n] = @ \cup {<<NextOf(n, m).blk, m>>}]
    /\ UNCHANGED <<store, feed, dialling, link, hand, msgFile, drops, restarts>>

-----------------------------------------------------------------------------
(* createInboundReader: one turn of the loop *)

(* Mutant: the hash of the predecessor is not compared. *)
AcceptsMutant(m, b) == TRUE

(* AddBlock: the predecessor is stored. A genesis block names the empty     *)
(* hash, which is also what the lookup of a missing block yields.           *)
Accepts(m, b) == b.place = 1 \/ b.place - 1 \in bucket[m][b.author]

Read(m, n) ==
    /\ wire[n][m] # <<>> /\ hand[m][n] = None
    /\ LET b == Head(wire[n][m]) IN
       IF Accepts(m, b)
       THEN /\ bucket' = [bucket EXCEPT ![m][b.author] = @ \cup {b.place}]
            /\ hand' = [hand EXCEPT ![m][n] = b]
       ELSE UNCHANGED <<bucket, hand>>
    /\ wire' = [wire EXCEPT ![n][m] = Tail(@)]
    /\ UNCHANGED <<chain, unpub, feed, dialling, link, writers, msgFile, drops, restarts>>

(* Mutant: no continue after the error of AddBlock, which returns no block. *)
PublishReadMutant(m, n) ==
    /\ feed' = [feed EXCEPT ![m] = Append(@, [blk |-> hand[m][n], sender |-> n])]
    /\ hand' = [hand EXCEPT ![m][n] = None]
    /\ UNCHANGED <<store, streams, writers, msgFile, drops, restarts>>

PublishRead(m, n) ==
    /\ hand[m][n] # None
    /\ feed' = [feed EXCEPT ![m] = Append(@, [blk |-> hand[m][n], sender |-> n])]
    /\ hand' = [hand EXCEPT ![m][n] = None]
    /\ UNCHANGED <<store, streams, writers, msgFile, drops, restarts>>

(* The error ends the reader, whose block is stored and on no feed, and     *)
(* closes the stream to n: what n wrote is not read any more.               *)
PublishReadFails(m, n) ==
    /\ hand[m][n] # None /\ drops < MaxDrops
    /\ drops' = drops + 1
    /\ hand' = [hand EXCEPT ![m][n] = None]
    /\ link' = link \ {{n, m}}
    /\ wire' = [wire EXCEPT ![n][m] = <<>>]
    /\ writer' = [x \in Nodes |-> [y \in Nodes |->
                    IF writer[x][y] # "attached" \/ {x, y} # {n, m} THEN writer[x][y]
                    ELSE IF x = m THEN "closed" ELSE "unread"]]
    /\ UNCHANGED <<store, feed, dialling, pos, msgCMS, msgFile, restarts>>

(* At the end of what m wrote the reader of n closes the stream too. *)
ReadEnds(n, m) ==
    /\ writer[n][m] = "unread" /\ wire[m][n] = <<>> /\ hand[n][m] = None
    /\ writer' = [writer EXCEPT ![n][m] = "closed"]
    /\ UNCHANGED <<store, feed, streams, hand, pos, msgCMS, msgFile, drops, restarts>>

-----------------------------------------------------------------------------
(* Streams: dialled once by main, cut when they break or an end stops *)

(* handleSyncStream on both sides. The connection of a writer to its broker *)
(* is named for the peer: while an old writer holds that name a new one is  *)
(* refused, and the stream has a reader only. A new writer's subscription   *)
(* delivers the feed from its first block.                                 *)
Dial(n) ==
    /\ n \in dialling
    /\ dialling' = dialling \ {n}
    /\ link' = link \cup {{n, Target[n]}}
    /\ writer' = [x \in Nodes |-> [y \in Nodes |->
                    IF {x, y} = {n, Target[n]} /\ x # y /\ writer[x][y] = "none"
                    THEN "attached" ELSE writer[x][y]]]
    /\ UNCHANGED <<store, feed, wire, hand, pos, msgCMS, msgFile, drops, restarts>>

(* main drops the error of ConnectToPeer and dials no more. *)
DialFails(n) ==
    /\ n \in dialling /\ drops < MaxDrops
    /\ drops' = drops + 1
    /\ dialling' = dialling \ {n}
    /\ UNCHANGED <<store, feed, link, wire, hand, writers, msgFile, restarts>>

(* What was under way on the streams in ls is lost. The writers of the      *)
(* nodes that live on are not told.                                        *)
Cut(ls) ==
    /\ link' = link \ ls
    /\ wire' = [n \in Nodes |-> [m \in Nodes |->
                  IF {n, m} \in ls THEN <<>> ELSE wire[n][m]]]

Drop(l) ==
    /\ l \in link /\ drops < MaxDrops
    /\ drops' = drops + 1
    /\ Cut({l})
    /\ writer' = [n \in Nodes |-> [m \in Nodes |->
                    IF {n, m} = l /\ writer[n][m] = "attached"
                    THEN "closed" ELSE writer[n][m]]]
    /\ UNCHANGED <<store, feed, dialling, hand, pos, msgCMS, msgFile, restarts>>

(* msgCMS is saved by the signal handler and lost in a crash. A handler    *)
(* that has not published yet never will; a genesis block that nothing      *)
(* follows is published again by main.                                     *)
Restart(n) ==
    /\ restarts < MaxRestarts
    /\ restarts' = restarts + 1
    /\ \/ msgFile' = [msgFile EXCEPT ![n] = msgCMS[n]] /\ UNCHANGED msgCMS
       \/ msgCMS' = [msgCMS EXCEPT ![n] = msgFile[n]] /\ UNCHANGED msgFile
    /\ dialling' = IF n \in Dialers THEN dialling \cup {n} ELSE dialling
    /\ Cut({{n, m} : m \in Nodes})
    /\ hand' = [hand EXCEPT ![n] = [m \in Nodes |-> None]]
    /\ pos' = [pos EXCEPT ![n] = [m \in Nodes |-> 0]]
    /\ writer' = [x \in Nodes |-> [m \in Nodes |->
                    IF x = n THEN "none"
                    ELSE IF m = n /\ writer[x][m] \in {"attached", "unread"} THEN "closed"
                    ELSE writer[x][m]]]
    /\ unpub' = [unpub EXCEPT ![n] = {}]
    /\ feed' = IF chain[n] = 1
               THEN [feed EXCEPT ![n] =
                       Append(@, [blk |-> [author |-> n, place |-> 1], sender |-> n])]
               ELSE feed
    /\ UNCHANGED <<chain, bucket, drops>>

(* All that was made is published and passed on. *)
Quiescent ==
    /\ chain = Quota /\ dialling = {}
    /\ \A n, m \in Nodes : /\ unpub[n] = {} /\ wire[n][m] = <<>> /\ hand[n][m] = None
                           /\ ~CanTake(n, m)
    /\ UNCHANGED vars

Next ==
    \/ \E n \in Nodes : Commit(n) \/ PublishOwn(n) \/ Restart(n) \/ Dial(n) \/ DialFails(n)
    \/ \E n, m \in Nodes :
          \/ PassOver(n, m) \/ Send(n, m)
          \/ Read(m, n) \/ PublishRead(m, n) \/ PublishReadFails(m, n) \/ ReadEnds(m, n)
    \/ \E l \in Topology : Drop(l)
    \/ Quiescent

Spec == Init /\ [][Next]_vars

(* The goroutines run, and main dials. *)
FairSpec ==
    /\ Spec
    /\ \A n \in Nodes : WF_vars(PublishOwn(n)) /\ WF_vars(Dial(n))
    /\ \A n, m \in Nodes : /\ WF_vars(PassOver(n, m) \/ Send(n, m))
                           /\ WF_vars(Read(m, n) \/ ReadEnds(m, n))
                           /\ WF_vars(PublishRead(m, n))

-----------------------------------------------------------------------------
(* Properties *)

TypeOK ==
    /\ chain \in [Nodes -> Nat] /\ unpub \in [Nodes -> SUBSET Nat]
    /\ bucket \in [Nodes -> [Nodes -> SUBSET Nat]]
    /\ feed \in [Nodes -> Seq(Entry)]
    /\ dialling \subseteq Dialers /\ link \subseteq Topology
    /\ wire \in [Nodes -> [Nodes -> Seq(Block)]]
    /\ hand \in [Nodes -> [Nodes -> Block \cup {None}]]
    /\ writer \in [Nodes -> [Nodes -> {"none", "attached", "unread", "closed", "failing"}]]
    /\ pos \in [Nodes -> [Nodes -> Nat]]
    /\ msgCMS \in [Nodes -> SUBSET (Block \X Nodes)]
    /\ msgFile \in [Nodes -> SUBSET (Block \X Nodes)]
    /\ drops \in Nat /\ restarts \in Nat

(* What a node holds of an author's chain is a prefix of it, without gaps,  *)
(* whatever is lost, repeated or reordered: AddBlock never lets a block in  *)
(* whose predecessor is missing.                                           *)
HoldsPrefix == \A n, a \in Nodes :
    \E k \in 0..chain[a] : bucket[n][a] = 1..k

(* No block is refused for want of its predecessor while streams hold and   *)
(* nodes run: the next block on a wire fits what the reader has stored.     *)
NothingRejected == \A n, m \in Nodes :
    wire[n][m] # <<>> => Accepts(m, Head(wire[n][m]))

(* Flooding ends: AddBlock and the reader's Publish take a block as often   *)
(* as it comes, but each peer sends it at most once.                        *)
CopiesBounded == \A n \in Nodes : \A a \in Nodes : \A p \in 1..chain[a] :
    Cardinality({i \in 1..Len(feed[n]) : feed[n][i].blk = [author |-> a, place |-> p]})
       <= Cardinality(Peers(n)) + 1

(* "don't send if the remote peer has seen it before" (sync.go:163): what a *)
(* node reads from a peer it never wrote to that peer.                      *)
NoEcho == \A n, m \in Nodes : \A i \in 1..Len(wire[n][m]) :
    ~ \E j \in 1..Len(feed[n]) : feed[n][j] = [blk |-> wire[n][m][i], sender |-> m]

(* "register that we've sent this message to this peer" (sync.go:180): what  *)
(* a step registers it writes to the stream of that peer.                  *)
RegisteredIsSent == [][\A n, m \in Nodes : 
    \A r \in msgCMS'[n] \ msgCMS[n] :
        r[2] = m => wire'[n][m] = Append(wire[n][m], r[1])]_vars

(* A peer a block is registered for comes to hold it: Skip takes the one    *)
(* for the other ("don't send if the remote peer has seen it before").      *)
RegisteredArrives == \A n, m, a \in Nodes : \A p \in 1..Quota[a] :
    <<[author |-> a, place |-> p], m>> \in msgCMS[n] ~> p \in bucket[m][a]

(* "if all ok publish to the feed" (sync.go:101): a block that was added is  *)
(* on the feed, unless its reader still has it in hand.                    *)
AddedIsPublished == \A n, a \in Nodes : \A p \in bucket[n][a] :
    \/ a = n
    \/ \E m \in Nodes : hand[n][m] = [author |-> a, place |-> p]
    \/ \E i \in DOMAIN feed[n] : feed[n][i].blk = [author |-> a, place |-> p]

(* Every block reaches every node. *)
Delivery == \A a, m \in Nodes : \A p \in 1..Quota[a] :
    p \in bucket[a][a] ~> p \in bucket[m][a]

=============================================================================
