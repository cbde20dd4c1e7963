# TLA+ models of the n3 engine

The n3 engine (`nias3-engine`) is a peer-to-peer data store in Go. Every node keeps, per context and
author, a signed chain of *blocks* (a "sigchain"); each block carries one *tuple* (subject, predicate,
object, version). Blocks are exchanged with other nodes, and each node turns the stream of blocks into
databases that can be queried.

This directory holds TLA+ modules for that pipeline, TLC configurations that check them on small
instances, and TLAPS proofs. References of the form `file.go:n` are to `src/n3/`.

## 1. Inventory

    POST /tuple, /tuples                peers (libp2p streams)
            |                                  ^  |
            v                                  |  v
       Sigchain (bolt, version sketch)    SyncProtocol (msgCMS)
            |          \                    ^     |  AddBlock, then Publish
            |  Publish  \                   |     |
            +------------+--> stream "feed" +<----+
                                   |
                                   v
                     FilterFeed (hexaCMS; looks up Hexastore.db)
                                   |
                                   v
                          stream "filteredfeed"
                     /             |              \
             Hexastore (bolt)   InfluxModel     MongoModel
               write model             read models
                     |
              timetable queries

The streams are persisted by a NATS Streaming server ("NSS") that the node starts. No subscription is
durable and all of them ask for `DeliverAllAvailable`, so every subscriber sees its stream from the
first message again after each start.

| component | state | operations | interacts by |
|---|---|---|---|
| **Sigchain** `blockchain.go`, `block.go`, `webserver.go` (POST), `app/n3/n3.go` | bolt bucket `contexts/<context>/<author>/blocks` with the blocks by hash and the tip under `l`; `localCMSStore`, `localBlockchains` | `AddNewBlock`, `AddNewBlocks`, `AddBlock`, `NewBlockchain`, `GetBlockchain`, iterator, `CloseLocalBlockchains` | called by web handlers and by stream readers; publishes on `feed` |
| **Count-min sketch** `count-min-sketch.go` | counters, `.cms` file | `Estimate`, `Update`, `Close` (save), load | three instances: versions, `msgCMS`, `hexaCMS` |
| **SyncProtocol** `sync.go`, `node.go` | one reader and one writer goroutine per stream, `msgCMS` | read a block, verify, `AddBlock`, publish; take a block of `feed`, decide, send, register | streams to peers; `feed` |
| **FilterFeed** `filterfeed.go` | `hexaCMS` (highest version seen per pair) | callback on `feed` | reads `Hexastore.db`; publishes commands |
| **Hexastore** `hexastore.go` | bolt bucket of keys; slice `commands` | callback on `filteredfeed`, `update_batch` every 100 ms, queries | `filteredfeed` |
| **Read models** `influx.go`, `mongo.go` | slice `commands`; external stores | callback, `filter_batch`, `update_batch`, `update_object`, queries | `filteredfeed` |
| **NSS** `launch-nss.go`, `stan-config.go` | a child process | start, stop | all subscriptions |
| **Host, bootstrap, DHT** `buildhost.go`, `bootstrap.go` | libp2p host | set-up | streams |
| **Identity** `n3crypto/` | key files | sign, verify | blocks |
| **Queries** `webserver.go` (GET), `nswdigclass_query.go`, `hexastore.go:534` | none | four timetable queries, each a join of lookups by key prefix | read transactions on `Hexastore.db` |

Five functions have the same shape: `FilterFeed`, the `ConnectToFeed` of the three stores and
`createOutboundWriter` start a goroutine that subscribes and then waits for an error on the unbuffered
channel `errc`, while a callback (and, in the stores, a batch goroutine) does the work. This shape is
treated as a component of its own, the **subscription**.

What is hard:

* *concurrency*: a goroutine per request, per stream and per direction, callbacks, a batch goroutine;
  what protects shared state is bolt's writer lock, the lock inside each sketch, and one global `mutex`;
* *order*: committing to bolt and publishing on `feed` are separate; peers refuse a block whose
  predecessor they lack; commands are cut into batches at arbitrary points;
* *failure*: crashes between two steps, streams that break, transactions and publications that fail,
  sketches that are saved only on some ways out, errors sent on a channel that nobody receives from or
  that is closed;
* *repetition*: every stream is replayed after a restart, on databases that have moved on.

What makes the components correct:

* Sigchain: one chain (no fork), versions of a pair increase along it, every block gets to the feed,
  after its predecessor;
* SyncProtocol: a copy of a chain has no gaps; every block reaches every node; flooding ends; what is
  registered as sent was sent and arrives;
* FilterFeed with Hexastore: a tuple is stored under all permutations of its key or none, one object
  per pair, the latest version wins in the end, nothing goes without a tombstone, batches are as good
  as single commands;
* read models: the latest version is there in the end, and a value that is there is not out of date;
* sketch: an estimate is never below the sum of the counts of its key;
* subscriptions: every command collected reaches `update_batch`, once and in order; an error ends the
  subscription, and little is counted as passed on that was not;
* queries: what stays stored while a query runs is found, and nothing is answered that was not stored.

The hazards behind these are listed, each at its line, under `hazards` in `PROJECT.json`.

## 2. Modules

| module | models | kind |
|---|---|---|
| `VersionedLog` | what a chain promises its readers: a log that only grows, with increasing versions | abstract |
| `Sigchain` | POST handlers, `AddNewBlock(s)`, opening a context, start, shutdown, crash | component |
| `SigchainProofs` | theorems about `Sigchain` | proofs |
| `SyncProtocol` | readers, writers, `AddBlock`, dialling, broken streams, restarts | component |
| `SyncProofs` | theorems about `SyncProtocol` | proofs |
| `Subscription` | the goroutine, the callback, the batch goroutine, `errc`, the lock on `commands` | component |
| `SubscriptionProofs` | theorems about `Subscription` | proofs |
| `Batches` | tuples, commands, batches, groups and the variable `tmp`; what the stores rely on in the stream | pure |
| `CountMinSketch` | rows, hash functions and cells of `N3CMS`; `Estimate`, `Update` | pure |
| `CountMinSketchProofs` | what `Update` does to the estimates | proofs |
| `FilterFeed` | the conflict resolver, on a sketch | component |
| `Hexastore` | `update_batch` and the subscription behind it | component |
| `HexastoreProofs` | lemmas about `Hexastore`: the effect of a batch on keys and pairs, and the invariant of the database for any stream that numbers its commands and deletes before it puts | proofs |
| `CommandLog` | what a store fed by batches promises: the effect of a prefix of the commands | abstract |
| `WriteModel` | `FilterFeed` and `Hexastore` composed | composition |
| `WriteProofs` | theorems about `WriteModel`: types and tombstones; the stream of commands; the index, the command log and the latest version | proofs |
| `ReadModel` | `FilterFeed` composed with influx or mongo | composition |
| `ReadModelProofs` | theorems about `ReadModel` | proofs |
| `Queries` | timetable queries, composed with `Hexastore` | composition |
| `QueriesProofs` | theorems about `Queries` | proofs |
| `MC...` | constants for TLC | instances |

### Sigchain

A block is its position in the order of commits (`Hash` becomes an index of `bucket`), so a link `prev`
is a number and 0 stands for the empty string. A handler's local variables are functions of the
handler: `tip` is `lastHash` as it was read, `known` is `knownVer` between `Estimate` and `Update`,
`pend` the blocks made and not committed, `outbox` the blocks committed and not published. `writer` is
bolt's lock: `AddNewBlocks` holds it from `ReadTip` to `Commit`, `AddNewBlock` takes it for `Commit`
only, because it reads the tip in a read transaction (line 62) and writes in another (line 122).
`cms[i]` is the sketch that goroutine `i` loaded; `cmsStore` says which of them is in `localCMSStore`,
so that two handlers that open one context at the same time really have two. A handler that finds a sketch
(`OpenKnown`) opens the buckets in a transaction of its own afterwards (`OpenBuckets`). The signal handler is
`SaveCMS` (`CloseLocalBlockchains`, sketches), `CloseDB` (waits for the open transaction) and `Exit`;
the web server serves requests all the while unless `Drain` says that none is under way. `Crash` is
possible at any time.

### SyncProtocol

`Target[n]` is the peer that flag `-d` names. A stream is a pair of queues in `wire`. `writer[n][m]` is
what the goroutine at `n` knows of its stream: `attached`; `closed` (the stream is gone, the next block
goes into the buffer and the error of `Flush` is dropped, `sync.go:227`); `failing` (the next `Encode`
returns an error); `unread` (the reader at the other end has stopped and closed its side, so blocks go out
and nobody reads them). In all four cases the block is then registered (`sync.go:181`). A reader stores a
block (`Read`) and publishes it afterwards (`PublishRead`). If that fails (`PublishReadFails`) the reader ends
with the block stored and on no feed, and closes its side of the stream; the reader at the other end reads what
was written before and then closes its own (`ReadEnds`). `Commit` and `PublishOwn` stand for the
Sigchain of a node: `InOrder` says whether blocks reach the feed in chain order, which `Sigchain` shows
to hold for one request at a time and not for several. `pos` is how far a subscription has got.

### Subscription

`kind` says which of the five functions it is: `filter`, `writer` or one of the three `store`s. `main` is
the goroutine that subscribes and waits, `cb` the callback of the broker's client, which is called with
one message at a time and may be called before `Subscribe` has returned, `bg` the batch goroutine of a
store. A send on `errc` waits (`cb = "sending"`, `bg = "sending"`) until `Receive` takes it; if the
channel is closed, or gets closed meanwhile, `SendOnClosed` ends the process. `Subscribe` that fails leaves
`main` at `blocked`: it sends on the channel that it alone would receive from. `link` is the `err` of the
filter, which a failed `Publish` sets and nothing clears, or the stream of the writer, whose first block
after a break stays in the buffer. `out` is what went out, `counted` what the sketch counts as having
gone out, and `settled`, `errors` are histories. What a message makes the callback do is left open here;
`FilterFeed` and `SyncProtocol` say it.

### FilterFeed, Hexastore, WriteModel, ReadModel

Pairs and objects are numbers, in the order of the strings. The callback of the filter is `Decide` or
`PassOver`, then one `Publish` per command; `hexaCMS` changes after the last of them, as in the code.
`hexaCMS` is a sketch of `CountMinSketch`, whose constant `Hash` gives for every row the cell of each pair,
so that pairs may collide in some rows or in all. `PublishFails` is the way out on an error: the tuple is
counted all the same, and the deferred `Close` saves the sketch (`cmsFile`), which the next start loads; a
plain stop saves nothing.

`Hexastore!Out` is the loop over the sorted batch: `Tmp` is the delete that the variable `tmp` holds when
the loop reaches a group, which may be the delete of an earlier group. `Executed` sorts by key and
`Sequence`. `update_fails` is a transaction that is rolled back; its batch is gone (`dropped`). In
`ReadModel`, `Effect` is what the commands that `filter_batch` lets through leave for one pair. A tuple with
an empty object is stored like any other, whatever `n3.go:139` says of it; only `GetTuples` leaves it out.
The hexastore that the filter asks about equal versions is not a part of `ReadModel`: its answer is any that
what was published allows (`Filter!Decide`, `PassOverTie`). All of the filter's ways are steps of `ReadModel`,
`PublishFails` included: the sketch it saves is the one that `Restart` begins with, and until then the filter is
off and the store may come to rest (`Stopped`).

Sets instead of sorted slices: two commands that agree on pair and `Sequence` come from one message of
`feed` and are equal, so the order of `sort.Sort`, which is not stable, cannot matter.

### Queries

A key is a permutation and its parts; `HasPrefix` compares with the parts that a prefix gives. Every lookup
is one action, because it is one read transaction, and `update_batch` may commit before the next. `pc` and
the lists are the local variables of the four functions: `courses`, `subjects`, `start`, `found`, `groups`.
`held` and `kept` are histories: what was stored at some time, and at all times, since the query was asked.

A lookup is the set of keys that it finds (`GetIdentifiers`, `GetTuples`, `Ending`); `Subjects` and `ObjectsOf`
list what the tuples behind them tell, one entry per key and in an order of no meaning, as the code asks only for
members and, for a range of years, for the number of entries. The filter is not a part of `Queries`: the stream
is any of `Logs`, and `StreamAssumption` says of these what `StreamReplaces` says of the stream that
`FilterFeed` publishes.

## 3. Runs

`pass` runs:

| run | question | answer |
|---|---|---|
| `sigchain_batches` | Two handlers on `/tuples`, transactions that fail, a clean stop and start | types; versions increase; the chain refines `VersionedLog` |
| `sigchain_crashes` | The same with kills, stops in the middle of requests and a context opened by a handler | no fork |
| `sigchain_single` | One request at a time, both routes, two pairs that collide in the sketch | the feed follows the chain, every block gets there |
| `sync_triangle` | Three peers in a ring, no failures | no block is refused for want of its predecessor, whichever way it came |
| `sync_ring` | An author attached to a ring of three, fair scheduling | every block reaches every node; it is on a feed at most once per neighbour and once for its author |
| `sync_faults` | Two peers, a broken stream, a failed dial or a reader whose publication fails, a restart, feed out of order | what a node holds is a prefix of the chain |
| `write_model` | Filter and hexastore with one trouble of three: each block twice; a restart; a failing publication or transaction beside a pair that collides in the sketch | one object per pair, under all six permutations; the latest version wins, and the database settles on it; commands go out in order, and none puts an object over another without a delete; tombstones stay; batches refine `CommandLog` |
| `read_mongo` | Two documents in mongo, a restart, and a publication of the filter or a call to mongo that fails | a value is missing or current; it is stale only if a failed publication saved a sketch that counts the latest version of its own pair |
| `subscription` | All three kinds, with two errors at any time | no command is lost between callback and batch; an error ends the subscription; a panic takes two errors; few messages are counted and not passed on; commands are executed in the end |
| `queries` | Four queries while batches commit between their lookups | what stays stored is found, and nothing is answered that was never stored meanwhile |

`violation` runs: each checks what a comment of the code states, and TLC finds the behaviour that breaks
it. The quotations are under `findings` in `PROJECT.json`.

| run | what happens |
|---|---|
| `sigchain_fork` | two POSTs to `/tuple` read one tip; the chain forks and one branch is unreachable from `l` |
| `read_mongo_update` | an object is posted again, its delete and put share a batch, and the value is deleted instead of both being ignored; an update by another object fares the same |

### Bounds

Bounds are constants named `Max...`, `Quota`, and the sizes of the sets, and occur only in guards.

* *Two handlers, three requests, batches of two.* A race over the tip needs two requests, and a third
  shows what a later request makes of it. With symmetry on handlers.
* *One crash, one stop.* After each there is a full start, and requests left to serve.
* *Three or four nodes.* A triangle has two ways for each block; the ring with a tail has relays, and a
  loop that does not contain the author, which is where flooding could go on.
* *Two own blocks* in `SyncProtocol`. A gap needs a block and its predecessor, here the genesis block.
* *Trials.* In the write model a constant `Trials` is the set of circumstances a behaviour is given: the
  tuples, how often each block arrives, how many restarts and faults there are. `OneTrouble` has *three
  versions of one pair* (`Back`), the last with the object of the first, which is the case in which
  `update_batch` "ignores both requests", and for the collisions an update of one pair *beside a tuple with
  version 0* of another (`Beside`), which is the tuple that an estimate above 0 would drop. A block comes
  twice from two neighbours. Commands are cut into batches in every way, since batches are as long as the
  steps happen to make them.
* *Two rows in the sketch*, with all pairs in one cell of the first row: the smallest sketch in which a
  collision happens and the minimum undoes it. `Colliding` has them in one cell of every row. `ReadModel`
  has one row without collisions, and the bounds `MaxCopies`, `MaxRestarts`, `MaxFaults`.
* *Two pairs, one failure* (`MaxFaults`) *and one restart* in `read_mongo` (`TwoPairs`): an update to a lesser object
  is one that, once its publication failed, loses the tie after the restart; the other pair begins with version 0
  and goes on, so that a batch may end between its delete and its put and `tmp` of the first pair be used again. The
  failure is a publication or a call to mongo.
* *One drop* (`MaxDrops`) in `sync_faults` is a broken stream, a failed dial or a failing publication of a reader.
* *Five messages, two errors* in a subscription: two errors are what a panic takes, and five messages
  give the batch goroutine a batch to execute, one to take and one being collected.
* *Nine pairs, three streams, four queries for two years* (`SomeLogs`): a member that leaves and one that comes, a
  timetable subject that changes year and course and back, a year given as a range.

Deadlock is checked, with two exceptions: the terminal states that a node may rest in (`Quiescent`,
`Drained`, `Stopped`) are stated as actions of their own and stutter. In `Subscription.cfg` it is not,
because the process may come to rest: its goroutines idle, blocked on `errc` for good, or dead; what must
happen is stated as liveness. In `Queries.cfg` it is
not, because one query is asked and the stream ends.

### Fairness

* `Sigchain!FairSpec`: weak fairness of the steps of `main` and of the signal handler once it runs (a
  node that stopped is started again); strong fairness of each handler's next step, because that step
  waits for bolt's lock, which Go's mutex hands to a waiting goroutine. Requests, failures, crashes and
  the signal itself are not promised.
* `SyncProtocol!FairSpec`: goroutines that have something to do run; `main` dials. Streams, restarts and
  new blocks are not promised (`Delivery` is checked with streams that hold).
* `Subscription!FairSpec`: each of the three goroutines runs as long as it can and the process lives, and
  so does a send on a closed channel. Errors and a broken stream are not promised.
* `WriteModel!FairSpec`: the callback of the filter, the callback of the hexastore and the batch
  goroutine (an endless loop with a sleep of 100 ms) run.

## 4. Where properties fail under other constants

A property of a passing run holds in the circumstances that its constants describe. TLC refutes the
following under other constants of the same modules; each row is obtained from the configuration named
in the second column by the changes in the third.

| property | from | changes | what happens |
|---|---|---|---|
| `FeedFollowsChain` | `Sigchain_fork.cfg` | `Routes = {"tuples"}` | two handlers commit in one order and publish in the other |
| `FeedFollowsChain` | `Sigchain_fork.cfg` | `Handlers = {h1}`, `Default = FALSE` | the genesis block of a context opened by a request is never published |
| `VersionsIncrease` | `Sigchain_fork.cfg` | `Handlers = {h1}`, `Routes = {"tuples"}`, `Drain = FALSE`, `MaxStops = 1`, `MaxRequests = 3` | a request during shutdown is committed after the sketch was saved: a version is given twice |
| `VersionsIncrease` | `Sigchain_fork.cfg` | | two requests to `/tuple` read one estimate before either updates the sketch: a version is given twice |
| `VersionsIncrease` | `Sigchain_fork.cfg` | `Routes = {"tuples"}`, `Default = FALSE` | two requests open one context and each has a sketch of its own: a version is given twice |
| `BlockReachesFeed` | `Sigchain_single.cfg` | `MaxCrashes = 1` | a crash between commit and publication: the block never reaches the feed |
| `NoEcho` | `Sync_triangle.cfg` | `Quota <- OneOfOne` | in a triangle a peer is sent what it had sent itself |
| `RegisteredIsSent` | `Sync_faults.cfg` | `Quota <- ThreeOfListener`, `InOrder = TRUE`, `MaxDrops = 0` | a block is registered though its write failed |
| `RegisteredArrives` | `Sync_faults.cfg` | `FairSpec`, `Quota <- ThreeOfOne`, `MaxDrops = 0`, `MaxRestarts = 0` | a block that came before its predecessor is refused, and as it is registered never sent again |
| `AddedIsPublished` | `Sync_faults.cfg` | `InOrder = TRUE`, `MaxRestarts = 0` | a reader's publication fails: the block is held and on no feed |
| `LatestWins` | `Write_model.cfg` | `Trials <- TwoPairsTrial` | `tmp` of an earlier group is executed in a later one |
| `LatestWins` | `Write_model.cfg` | `Trials <- TiedTrial` | two authors gave one version: the smaller object wins when the greater is still in a batch |
| `LatestWins` | `Write_model.cfg` | `Trials <- FailingAndRestarted` | a version whose publication failed is counted, the sketch is saved, and after the restart the version is passed over |
| `LatestWins` | `Write_model.cfg` | `Trials <- TwiceAndRestarted` | the node stops between the delete and the put of a repeated block; the lone delete stays in the stream and is sorted behind the replay's commands, which have smaller `Sequence`s |
| `LatestWins` | `Write_model.cfg` | `Trials <- BesideTrial`, `Hash <- Colliding` | pairs that collide in every row: a first version looks old and is dropped |
| `OneObject` | `Write_model.cfg` | `Trials <- RestartedTrial` | the replay after a restart puts an old object beside the current one |
| `OneObject` | `Write_model.cfg` | `Trials <- FailingTrial` | the batch with the delete is dropped, the put after it is not |
| `NoPanic` | `Subscription.cfg` | | a second error is sent on the closed channel, and the process dies |
| `ErrorsAreReceived` | `Subscription.cfg` | | `Subscribe` fails and its goroutine waits for itself |
| `RangesCount` | `Queries.cfg` | | a range of years never counts: the prefix of the SP key matches the SPO key too, so there are two results where the code wants one |
| `NoDuplicates` | `Queries.cfg` | | for the same reason an answer names what it finds more than once |
| `LatestWins` | `Read_mongo.cfg` | `Store = "influx"`, `Subject <- OneSubject`, `MaxRestarts = 0`, `MaxFaults = 0` | `tmp` again: the delete of one pair goes out after its put |
| `NeverStale` | `Read_mongo_update.cfg` | `MaxCopies = 2`, `MaxRestarts = 1` | the node stops between the delete and the put of a repeated tuple, which is passed over from then on: the lone delete is the last command of the batch, and the loop keeps the value from before the batch |
| `NothingOutOfDate` | `Read_mongo.cfg` | | the publication of the latest version fails, it is counted all the same and the sketch is saved; after the restart the earlier versions are passed over, and the latest ties with the sketch and loses against the greater object of an earlier one, which the store goes on showing |

A failing publication followed by a restart needs no bad luck: on a clean shutdown the streaming server is
killed first (`n3.go:59`), so a filter in the middle of a publication fails and saves its sketch. What the store
then shows is out of date for good; `NeverStale` says that this is confined to the pair whose latest version the
saved sketch counts (`Swallowed`).

In the other direction, the following hold under other constants as well: `LatestWins` of the influx model
for one pair, restart included (`Read_mongo_update.cfg` with `Store = "influx"`, `MaxRestarts = 1`);
`NeverStale` of the influx model (`Read_mongo.cfg` with `Store = "influx"`);
`TombstonesStay` for two pairs, a restart and a fault (`Write_model.cfg`, `Trials <- TwoPairsTroubled`);
`IndexConsistent` for two pairs and a fault (`Trials <- TwoPairsFailing`).

Reading both tables together says how far the code can be relied on. `LatestWins` of the write model, for
instance, holds for one pair with versions given by one author; across restarts if each block arrives
once; beside collisions in some rows. It fails for two pairs in one batch, for equal versions, and when a
failed publication is followed by a restart.

## 5. Proofs

Theorems hold for every value of the constants that satisfies the assumptions of the component's module;
assumptions beyond these are named in the theorem. Where a run checks the same property, its constants
satisfy them.

`SigchainProofs`:

* `TypeCorrect == Spec => []TypeOK`. `TypeOK` is not inductive: that `Commit` keeps links pointing
  backwards depends on the blocks a handler has prepared, and that `Publish` puts only hashes of blocks
  on the feed depends on its outbox. `TypeInv` adds this (`LinksOK`) and what each local variable is
  worth at each point of the handler's code (`StageOK`).
* `NoForkInBatches == ASSUME Routes = {"tuples"} \/ OneAtATime PROVE Spec => []NoFork`. The invariant
  `ChainInv` says that the bucket is one list whose end is `l` (`Linear`), and that a handler between
  `ReadTip` and `Commit` has the end of the list as its tip and continues the list with its blocks, because
  it holds the lock or is the only handler (`Exclusive`). The assumption is needed: `sigchain_fork` is the
  counterexample for two handlers on the other route.
* `VersionsRise == ASSUME Routes = {"tuples"} \/ OneAtATime, Default, Drain, MaxCrashes = 0 PROVE Spec =>
  []VersionsIncrease`, for any number of handlers and pairs, with collisions, failed transactions and clean
  restarts. `VersionInv` says that all handlers use the one sketch that `main` loaded, that its cell is at
  least the version of every block with the pair, committed or prepared (`Covered`, `Given`), also in the
  saved file while the node is down, and that what a handler prepared is later than the bucket. The
  assumptions are what makes the sketch and the chain of one mind: `Default`, because a context that two
  handlers open at once has two sketches; `Drain` and no crash, because the sketch is saved only by the
  signal handler, while the blocks are saved at once (section 4 has the counterexample for `Drain`).
* `ChainImplementsLog`, under the same assumptions: `Spec => ImplementsLog`. Reading the chain from the tip
  yields the bucket in order (from `Linear`), so each step appends to the log or leaves it.
* `FeedIsOrdered == ASSUME OneAtATime, Default, Drain, MaxCrashes = 0, MaxFaults = 0 PROVE Spec =>
  []FeedFollowsChain`. `FeedInv` says that what a handler has left to publish is the end of the chain and
  all before it is on the feed, and that all of it is when nobody is publishing, but for a genesis block that
  `main` still has to publish. Every assumption has a counterexample: two handlers publish in another order
  than they commit; a block lost by a crash or a failed publication is the predecessor of the next.

`SyncProofs` (for every topology and any number of nodes):

* `SyncTypeCorrect == Spec => []TypeOK`, with all faults of the model.
* `CopiesArePrefixes == Spec => []HoldsPrefix`, with all faults. The invariant `PrefixInv` adds that every
  block on a feed, on a wire or in the hand of a reader is a block of its author's chain, and that an author
  holds all of its own chain.
* `NothingIsRejected == ASSUME Steady PROVE Spec => []NothingRejected`: streams hold, nodes run, and a node
  publishes its own blocks in chain order, which is what `FeedIsOrdered` says of `Sigchain`. That a reader
  can append the head of its stream takes more than the order on that stream: a writer passes over blocks
  registered for this peer, so the predecessor may be missing from it. `OrderInv` says for every place a
  block can be (feed, wire, hand) that its predecessor is before it on the same stream, or came to this
  node from this sender before, or that the block is the node's own; and of every registered block where it
  is.
* `CopiesAreBounded == ASSUME IsFiniteSet(Nodes), MaxRestarts = 0 PROVE Spec => []CopiesBounded`, in chain
  order or not, whichever streams break. `CopiesInv` makes of a block that `n` sends to `m` a token: it is
  registered, and at one place of the wire, the reader's hand and the reader's feed, and once there. So the
  entries of a feed with one block have different senders, all of them neighbours or the node itself. A
  restart is excluded because `main` publishes the genesis block again on every start, and a node that was
  killed has forgotten what it registered; with two restarts of two nodes TLC finds a third copy.

`SubscriptionProofs` (for streams of any length and any number of errors):

* `TypeCorrect == Spec => []TypeOK`.
* `CommandsAreKept == Spec => []NothingLost`. The invariant adds that the slice is what the batch goroutine
  took as long as it holds the lock.
* `OneErrorIsSafe == Spec => []PanicNeedsTwoErrors`: `errc` is closed after an error was received, so a
  sender that meets it closed has another one.
* `FewAreUnsent == Spec => []UnsentBounded`. The invariant adds to what is unsent already what still may
  become so: the message whose error will be the first to be received (`Reported`), and the block that a
  broken stream will swallow (`Buffered`).

`CountMinSketchProofs`: `NeverUnderestimates`: for all keys and hash functions, `Update` raises the
estimate of its key by exactly the count, never lowers that of another key and never raises it by more.
Lemmas on `Exact`, the rows in which no two keys share a cell, say when the estimate is the count itself.

`HexastoreProofs` holds what `WriteProofs` and `QueriesProofs` share. Its lemmas on batches say what one batch does
to a key (`tmp` included), and that for a pair it stores or removes all permutations of an object or none.
`StoreInv`, which `Deliver` and `update_batch` keep, says of the database that what is stored of a pair is all
permutations or none, and is the object of the last command executed on it. It takes of the stream only that
commands are numbered (`Numbered`) and that a put comes right after a delete of its pair, or is the first on it,
or that all commands on the pair put its object (`Replacing`).

`WriteProofs` (for all tuples, copies, restarts, faults and hash functions):

* `WriteTypeCorrect == Spec => []TypeOK`. `TypeInv` adds that the estimate of a pair is at most the version
  of the tuple being published, whence the increment of the sketch is not negative, and a bound on the
  `Sequence` of commands, whence each group of a batch has a last command.
* `TombstonesAreKept == Spec => TombstonesStay`: a batch removes an object only with a delete, for which it
  stores the tombstone, and no key is both.

* `PassesInOrder == Spec => []PassedInOrder`. `StreamInv` says, as long as there was no restart, where each
  command comes from, that the sketch has counted the versions that were published, but for the tuple at hand,
  and that what is to be published comes after them.
* `PutsReplace == GenesisAlone /\ Spec => []StreamReplaces`: the stream is such as the stores rely on.
  `PairedInv` says of it that every put follows a delete of its pair, or is the first of it, or has version 0,
  and of a put still to be published that the last command published is the delete before it, or that the sketch
  knows no version of the pair.
* `IndexIsConsistent == GenesisAlone /\ Spec => []IndexConsistent`, from `StoreInv` and `PutsReplace`. The assumption `GenesisAlone` (a tuple with version 0 is the only one of its pair) is
  needed: while the estimate of a pair is 0 the filter publishes no delete, so an object with version 0
  would stay beside the later one. In the code only the genesis block has version 0, and its pair is its own
  as long as no client posts to the pair "Genesis", "Genesis".
* `WriteImplementsLog == ASSUME GenesisAlone, NoneReturnsBeside PROVE Spec => ImplementsLog`: batches refine
  `CommandLog`, in which commands take effect one by one. `GoneInv` is the other half of `IndexInv`: a pair of
  which nothing is stored has a delete as its last command executed; together they give `ViewInv`, that what
  is stored is the effect of the commands executed, and a batch maps to a step of the log. `NoneReturnsBeside`
  says that a pair whose object may come back (posted twice, or delivered twice) does not sort before a pair
  with versions. It is there because of `tmp`: a batch with a delete and a put of one object executes neither
  and so restores the pair, unless `tmp` is still set when the loop reaches another group, which then executes
  the delete (`TwoPairsTrial` in section 4).
* `LatestVersionWins == ASSUME GenesisAlone, NoneReturnsBeside, VersionsTell, Exact # {} PROVE Spec =>
  [](restarts = 0 => LatestWins)`: for any number of pairs, copies and faults (`LatestWins` itself excepts
  lost batches and a filter that ended). `LatestInv` says that the sketch, exact in one row, knows no version that was not put, that of
  the pair of each message dealt with a version as late was put, and that no delete is left without its put;
  with `ViewInv` and `PassedInOrder` the object stored is that of the latest version. `VersionsTell` (a version
  is given once per pair) is `VersionsRise` for one author; for two authors section 4 has the counterexample
  (`TiedTrial`), as it has for a sketch with no exact row and for the restart.

`ReadModelProofs` (for both stores, any restarts, failed publications and failed calls):

* `ReadTypeCorrect == Spec => []TypeOK`.
* `NothingStale == ASSUME OneCopy, VersionsTell, Exact # {} PROVE Spec => []NeverStale`. `FilterInv` says that
  the last command published on a pair puts the latest version that the filter has dealt with, whatever is left
  on the stream from before, as soon as the sketch counts more of the pair than was loaded at the start. If it
  does not, and the loaded sketch counts anything of the pair, then what it counts, being exact in a row
  (`ExactLeast`), is at least the latest version: either that version's put is the last command on the pair, or
  it was swallowed, which `NeverStale` excepts. `StoreInv` says that if the last command
  has the greatest `Sequence` of its pair so far, then the store has its object or none, because only its own
  delete can be sorted around it. The store may well miss the value, which is why the theorem does not say
  `LatestWins`. `OneCopy` is needed: a tuple that comes a second time is numbered again, and a node that stops
  between its delete and its put leaves a delete with a later `Sequence` than the current version's (section 4).
  The exception is needed as well: without it the property is `NothingOutOfDate`, which TLC refutes.

`QueriesProofs` (for all pairs, objects, queries and streams that satisfy the assumptions of `Queries`; of the
stream, `StreamAssumption`):

* `QueriesTypeCorrect == Spec => []TypeOK`.
* `NothingIsMissed == Spec => []NothingMissed` and `NothingIsInvented == Spec => []NothingInvented`. A first part is
  about one lookup: with `StoreInv` and `HoldsObject` (a key with an object in it holds that object) a prefix finds
  exactly the stored tuples it describes (`KeyShows`, `StoredIsFound`). A scalar is found under two keys, that of
  its pair and one with its object, so the number of entries is never 1 (`YearsFound`): the branch for a range of
  years adds nothing, which is also why `RangesCount` fails. A second part is about the join, which grows with the
  tuples (`JoinGrows`): what the lookups find lies between the join over `kept` and the join over `held`. `Invented`
  says so of every list from above. From below a list alone says nothing, because a query empties its lists as it
  goes: `Missed` says for each link of a chain of kept tuples that what it leads to has been found or what it
  starts from is still to be looked up (`Subjecting`, `Grouping`, `Gathering`). It is stated link by link, since
  `kept` shrinks whenever a batch is committed. TLC found no violation of these invariants on the instance of run
  `queries`.

`StreamAssumption` joins the two models: `PutsReplace` proves it of the filter, under `GenesisAlone` and as long as
there was no restart. After one, the stream has two sets of commands with the same numbers, the database may hold
two objects of a pair (`OneObject` in section 4), and the theorems about the queries do not apply.

Only model-checked:

* liveness: `BlockReachesFeed`, `Delivery`, `SettlesOnLatest`, `ErrorEnds`, `CommandsSettle`. TLAPS has no rule
  for `ENABLED`, which weak and strong fairness are defined with.
* `LatestWins` of the write model after a restart (run `write_model`, each block once). The theorem stops at the
  restart because the argument does: the stream then has two sets of commands with the same `Sequence`s.

## 6. Not modelled

* Signatures, keys, hashes as strings: a block a peer sends is taken to verify, and hashes not to collide.
* The rows of the sketch of `Sigchain` and collisions in `msgCMS`: in `Sigchain` a collision is two pairs that
  share a cell (`Cell`), which only makes versions skip.
* Requests that are malformed (an empty array, another context in the body than in the route).
* Errors of the stores' servers other than failed calls to mongo; the queries of influx; the JSON path of a
  predicate.
* `Store`, `StoreSingleKey` and `Unstore` of `HexaBucket`, which nothing calls; `HasKey` and single lookups.
* A publication that fails and reaches the stream all the same (an acknowledgement that is lost): a failed
  publication is taken not to be on the stream.
* A second reader of one pair of nodes while the first still runs.
* Progress reports, host set-up, DHT, launching and killing NSS, protocol buffers.

Hazards without a property, with the reason under `hazards`, are of two kinds.

* It goes wrong, so no property of a passing run can cover it; section 4 has the row. Sigchain: versions on `/tuple`
  (`blockchain.go:78`), crashes before a publication (`webserver.go:61`), requests during a shutdown
  (`count-min-sketch.go:93`), a context first used by a request (`blockchain.go:419`). Peers: a block taken for held
  by a peer that refused it (`sync.go:166`), the name of a writer's connection (`sync.go:130`), a reader whose
  publication fails (`sync.go:106`). Filter and stores: errors of `Subscribe` (`filterfeed.go:200`), equal versions
  (`filterfeed.go:146`), `tmp` (`hexastore.go:250`, `influx.go:83`), a failed transaction (`hexastore.go:338`).
  Queries: ranges of years (`nswdigclass_query.go:110`).
* No state of the models depends on it: the `err` that handlers share (`webserver.go:46`), `filterfeed.go:92`,
  `app/n3/n3.go:159`, `n3crypto/crypto-client.go:90`, `count-min-sketch.go:94`.

## 7. Plan

1. *Done*: Sigchain with its proofs; SyncProtocol with its proofs; FilterFeed, Hexastore and the read models.
2. *Done*: the life cycle of subscriptions, with proofs; the sketch with rows and collisions, with proof, and
   `FilterFeed` on top of it; failing transactions; the timetable queries.
3. *Done*: proofs of `IndexConsistent`, `TombstonesStay`, `PassedInOrder`; of `VersionsIncrease`,
   `FeedFollowsChain`, `NothingRejected`, `CopiesBounded`, `LatestWins`, `NeverStale`; that `Sigchain` implements
   `VersionedLog` and `WriteModel` implements `CommandLog`.
4. *Several nodes end to end*: two write models fed by one set of blocks in different orders converge.
5. *Runs* of their own for the rows of section 4 that a comment of the code contradicts, first `tmp` in
   `hexastore.go:250` and the registration in `sync.go:181`.
6. *Done*: proofs about the queries and of what the stores rely on in the stream.

## Running

    tlc -workers 2 -config Sigchain_batches.cfg MCSigchain.tla
    tlapm SigchainProofs.tla

Some proof modules use the lemmas of others: `ReadModelProofs` those of `CountMinSketchProofs`, `WriteProofs` those
of `CountMinSketchProofs` and `HexastoreProofs`, `QueriesProofs` those of `HexastoreProofs`.

Every property of a passing run has a mutant: an operator with a plausible bug that stands next to the
definition it would replace, and with which the property fails. They are listed in `PROJECT.json`.
