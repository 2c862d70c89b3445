# Verification of the Iroha block explorer (bcx)

TLA+ models of `bcx`, a process that follows the ledger of an Iroha peer, keeps
the blocks in a cache file and in an in-memory index, and answers GraphQL
queries from the index. Sources are named relative to the repository root
(`src/sync/sync.cpp` and so on).

## The system

| component | sources | state it keeps | operations |
|---|---|---|---|
| sync | `src/sync/sync.cpp` | heights and minimum of the fetch jobs, two job queues, the priority queue `q`, `next_height`, the stream | check of the last cached block, fetch jobs, stream reader, posted handlers |
| block cache | `src/db/db.cpp` (load, truncate, drop, flush, `appender`) | the file, `block_bytes`, the buffer of `appender` | load, truncate, append, drop, flush at exit |
| index | `src/db/db.cpp` (addBlock), `src/db/db.hpp` | one table per kind of object, counters | addBlock, lookups |
| data structures | `src/ds` | `Len` (running offsets), `Strings`, `Hashed` (a set of indices compared by value), `Linked` (lists in one vector) | push_back, find, add, range, index, truncate |
| format | `src/format` | the configuration | protobuf splitting (`Pb`), hex, time, JSON, config |
| queries | `src/gql` | none | pages of lists, lookups, histograms |
| server | `src/server` | the `io_context` whose thread runs queries and handlers | HTTP routes, `/metrics`, `/logLevel` |
| main | `src/bcx.cpp` | none | config, load, start sync, serve, exit on a signal |

How they interact. `main` loads the cache (which fills the index), then starts
`runSync` in a thread of its own and serves. `runSync` has ten workers that ask
the peer for one height each and post the blocks, and it posts the blocks of
the stream itself; the posted handlers run on the server's `io_context`, the
thread that also answers queries, so index and queries never overlap. The
handlers capture `q` and `next_height` of `runSync` by reference. `addBlock`
extends the index, `block_bytes` and the file. Everything that goes wrong ends
in `fatal`, that is `exit(-1)` in whatever thread noticed it, and `exit` runs
`db::flush`.

What is hard here: the shared `qheight_max` that workers update without a lock;
the end of the fetching phase, which depends on who drops a job and who
reports; the handover from fetching to the stream; handlers in any order;
exits and crashes at any point of loading, truncating and appending; a cache
from another ledger; lengths that do not fit an `int`; an index that must agree
with what the peer's commands did; pages over a list that grows.

`PROJECT.json` lists every hazard at its line, with the properties aimed at it.

What makes each part correct:

- sync: blocks are indexed in order without gaps; none is lost between fetching
  and streaming; fetching ends; the index catches up.
- block cache: whatever ended the process, the next load finds a gapless
  beginning of one ledger or starts over; new blocks are only put behind the
  beginning of the peer's own ledger.
- index: the tables show the world state that the commands produce; no name
  that is looked up is missing.
- data structures: `Len` finds the entry of an offset, lists that share a vector
  stay apart, `Hashed` finds the first of equal values.
- queries: pages tile a list that grows; histograms count each item once.

## The modules

### `LedgerFollower` and `Sync`

`LedgerFollower` is the promise: while it is followed, the peer's ledger only
grows and the copy of it is a gapless prefix that only grows, and the copy does
not stay behind for ever. A follower may stop and lose its copy; while it is
stopped copy and peer may become others, and it starts again only with a copy
that is not beyond the peer.

`Sync` is `runSync` with its threads. A block is its height.

| code (`src/sync/sync.cpp`) | model |
|---|---|
| `next_height`, `q` | `next_height`, `q` (a set: equal heights in the queue are popped together) |
| `qheight`, `qheight_max` | the same; `std::min` on the shared variable is a read (`ReadMax`) and a write (`WriteMax`) |
| `wio` and its ten threads | jobs `wio_head .. qheight - 1`, `Workers` with a program counter each |
| `qio`, `qio.stop()` | `qio` (handlers posted), `qio_stopped` |
| `io.post` in `postBlock` | `io`, a set: handlers run in any order, which includes the queue's order; the ten workers post in any order anyway |
| 115-123 | `StartSync`, `DropCache` |
| 154, `fetchCommits` | `OpenStream`, `RegisterLate`: the peer starts the stream some time after the call, at once if it is `Prompt` |
| 157-178 | `FillQueue`, `StartRun`, `RunQjob`, `LeaveRun` |
| 161-171 | `TakeJob`, `CheckJob`, `FetchBlock`, `FetchNone`, `ReadMax`, `WriteMax`, `PostQjob`; a peer that `Refuses` may answer any query with an error, which `getBlock` (40-56) takes for the end of the ledger |
| 179-196 | `JoinWorkers`, `ReadStream`, `EndStream` |
| 127-144 | `Handle`, one atomic step: handlers and queries share one thread |
| `exit` anywhere | `Exit`; `DanglingHandler` is a handler that runs after `runSync` returned |

What kind of peer it is, `peer`, stays the same all along; `NoBlockLost` and
`CatchesUp` are about those that are `Prompt` and do not refuse what they have.

The order in which the index grows is the refinement `FollowsLedger`;
`NoBlockLost` says where every committed block is at any moment (indexed,
posted, in `q`, still to be streamed, still to be fetched), and
`BoundedPrefetch` that the jobs stay within `kGetBlockQueue`.

### `BlockCache`

The life of the process around the cache file: `phase` is where it is
(`"down"` without a process), `file` the file, `bytes`/`size` the memory,
`buffer`/`spilled` the buffer of `appender`, `failed` the writes that failed, of
which the code keeps nothing but the state of the stream. A serialized block is
two cells, a head with the tag and length and a tail, which is enough for files
that end in the middle of a block or hold damaged ones.

`LoadConfig` is `Config::load` with `DISABLE_SYNC`; then `LoadFile` is the
reading and splitting in `load` (89-97), `LoadBlock` and `LoadCorrupt` its loop,
`TruncateOpen` and `TruncateWrite` the two halves of rewriting the file,
`OpenAppender` the end of `load`, `Serve` or `StartSync`/`Drop` what follows,
`AddBlock`, `Spill` and `Appended` the write of a new block, `Exit`,
`ExitInWrite`, `DropExit` and `Crash` the ends of the process. `Drop` may also happen to a cache
that matches: `getBlock` is false for any error, also from a peer that has the
block. The environment commits blocks, replaces the peer or damages a cell while the process is down,
and kills it at any time; a crash loses the buffer and maybe the end of the
file. A write may also fail: `TruncateFails` leaves a part of the blocks in the
file, and blocks are then appended behind it; `AppendFails` leaves a part of the
buffer in the file, and the stream takes nothing more until the process ends,
while the index goes on. `torn` is a history variable: a write was cut short, by
an `exit` in the middle of it or by such a failure.

`LoadsOneLedger` says that what was loaded is the beginning of one ledger,
`SyncsOwnLedger` that comparing the one last block is enough to know that it is
the peer's, `ExitKeepsAll` that memory, file and buffer agree between blocks (and
that after a failed append the file is still a prefix of the memory),
`IndexedInMemory` that every indexed block has its bytes but between `drop` and
the exit after it, and `Recovers` that a process that is started again ends up
with the whole ledger of its peer.

### How `Sync` and `BlockCache` fit together

Both implement `LedgerFollower`, from two sides, which is the composition of the
two without a product of their states. `Sync` begins where `BlockCache` is in
`"check"`: a quiet start with any number of blocks that `load` has indexed, and a
peer of any height. Its refinement shows that everything it then hands to
`addBlock` is the next block of the peer, which `BlockCache.AddBlock` assumes.
`BlockCache` in turn takes `addBlock` one block at a time and adds what `Sync`
leaves out: what the blocks were loaded from, how they are written, and the
restarts; its refinement shows that every process, whatever it finds in the
file, follows its peer from the check of the last cached block until it ends.

### `Fields`

The bytes of a block as nested protobuf fields: a cell for the number and size
of a field, then the cells of its content. `Starts`, `NextBytes` and `Repeated`
are `Pb::next` and its loops, `GetTxCmd` is `getTxCmd` and `TxCmdJson`
`txCmdJson`. `getTxCmd` looks for the reduced payload in the transaction where
it means the payload (159), so that it takes the payload for the reduced payload
and the reduced payload for the one command; the range it remembers is then
the whole reduced payload, and `txCmdJson` finds the commands in it.
`CommandsOfNested` is the reading that seems to be meant, one level further in: it
adds the sizes of the commands without the tags between them, its range is too
short for more than one command, and it breaks `CommandsShown`.
How protobuf writes a block (`Serialize`) is external.

### `WorldState` and `Index`

`WorldState` is the reference: the part of Iroha's world state that the explorer
shows, when a command is valid in it and what it changes. Iroha is not in the
repository, so this module is written from the meaning the explorer gives to
the commands and the schema gives to its fields.

`Index` has the tables of `db.cpp` in the record `db` and `addBlock` as
`AddBlock`, one operator per case of its switch and one for `genesis::check`,
the signatures and the tail of a transaction; the counters that the lookups go
by are fields of their own, as in the code. A hash is the pair of what is
hashed. `CommitGenesis` indexes a first block, `Execute` lets the peer execute a
valid command of an existing account, `Commit` makes the block of the
transactions so far and indexes it, also an empty one. An empty optional that
is dereferenced sets `undefined`. The second half of the module is what the
single objects of the queries show (`src/gql`): `AccountPermissions`,
`PermissionsGrantedBy`, `DomainView`, `PeerView`, `TransactionView` with
`CommandsJson`, `BlockView` and the lookups by name, key, hash and height.

Two things are as the code's libraries make them. `account_grant.find({by, to})`
(`GrantPermission`, db.cpp:192) compares only `by`: `GrantBimap` (db.hpp:11) names
no relation collection, so the bimap's own `find` goes through its left side. The
first permission that an account grants adds a pair, and all later ones are set
in that pair, whoever they are for. This is how `boost::bimap` treats a bimap
with the default relation view, `left_based`; its source is not in the
repository. And `format::unhex` (format.hpp:18)
gives nothing for a string that is not 64 hex digits, which addBlock dereferences
for the keys of signatures and peers (158, 203): `HexKeys` are the keys it can
read, any other sets `undefined`. All properties but `TypeOK` are about ledgers
whose keys are `Readable`; whether a peer accepts others is not the explorer's
to say.

`Transaction.time` is the time at which a client made the transaction (156),
where gql.gql:43 calls it "Transaction commit time". The explorer shows no
other. `TransactionView` therefore has no time, and no property says that the
time shown is the right one; `tx_time` only serves to tell hashes apart.

`Shown` collects what can be seen and is compared with the world state. As
`permissionsGrantedBy` and `-To` may name the wrong account, `ShowsWorld` and
`HidesNothing` compare of the grants who granted what (`GivenBy`), that whoever
is shown as a grantee is one (`GivenPairs`), and whole grants only of accounts
that have granted to one other (`OfOneGrantee`); `GrantsListed` is what the
schema says of them, and fails. (`ShowsWorld`, `HidesNothing`, `PermissionsShown`, `DomainCounts`), and
`LedgerReadsBack` and `CommandsShown` compare what blocks and transactions show
with the ledger itself.

### `Containers` and `Structures`

`Containers` is what `src/ds` stands for (a list of sizes, a list of values for
every index, a place for every value), `Structures` how it is done: running
offsets, nodes in one vector with heads, a vector with a set of positions. The
actions are the operations that change state (`push_back`, `truncate`,
`Vector::add`, `Hashed::push_back`). The hash function is left out: equal
values hash alike, and `unordered_set` compares with `HashEq`.

### `Queries`

A client reads one list page by page with fixed arguments (`request`), `after`
is the `nextAfter` of its last page and `seen` all items so far; `Grow` adds
items between its queries. `StartForward`, `StartReverse`, `Passes` and
`ItemsFrom` are `blockList` and `transactionList`, `PlainItems` the other four
lists. `LowerBound` is the halving search itself, so that it also means
something for times out of order. `CountPerTime` is the histogram, compared
with counting. `NothingForeign` is also about times out of order: pages then
still go on beyond the ones before and show nothing beyond the time where they
end, but they may show items from before the time where they begin.

## What the runs show

| run | instance | shows |
|---|---|---|
| `sync` | 2 workers, queue of 3, ledger of 3, fair; a peer that registers the stream late and may refuse any query, or one that is prompt and refuses only what it has not (419,354 states, one minute) | type correctness, refinement of `LedgerFollower`, `NothingLostOnceRegistered`, `ExpectedBlock`, `QueueAhead`, `BoundedPrefetch`, `FetchingEnds` hold for both; `NoBlockLost` and `CatchesUp` for the second |
| `sync_gap` | late registration | **violated**: a block that is committed after the last fetch was refused and before the peer registers the stream reaches nobody (`sync.cpp:154`) |
| `sync_stop` | | **violated**: `runSync` returns and handlers that hold references to its locals are still posted (`sync.cpp:129`) |
| `cache` | 2 ledgers that fork after 2 of 4 blocks, 3 faults, fair (205,758 states) | all properties of `BlockCache` and the refinement of `LedgerFollower` hold, those about `load` ending the process and about recovery up to writes that were cut short |
| `cache_exit` | 2 faults | **violated**: an exit inside a write can write blocks twice, and then no start succeeds (`db.cpp:79`) |
| `cache_int` | an `int` that counts to 4 cells | **violated**: a valid cache that is too long for an `int` is thrown away (`format.cpp:75`) |
| `index` | 2 names, domains, roles and keys, one key more that cannot be read, four kinds of first blocks, 3 more transactions in 2 blocks (412,859 states, one minute) | all properties of `Index` hold |
| `index_removed` | the same | **violated**: detached roles, revoked permissions and removed peers are still shown (`db.cpp:225`) |
| `grants` | the same | **violated**: a permission granted to a second account is listed as granted to the first (`db.cpp:192`) |
| `structures` | 3 entries, 3 nodes in 2 lists, 3 values | `Structures` implements `Containers`, with the invariants behind it |
| `queries` | lists of 4 items with 3 times, any arguments | pages tile, short pages are last, nothing foreign is shown, histograms are right |
| `queries_back` | reverse with `timeBefore` | **violated**: each page leaves out its newest block (`block.cpp:48`) |

Bounds. Two workers are enough for a stale `qheight_max` to overwrite a smaller
one, for one to post while the other drops jobs, and for blocks to arrive in any
order; three heights with a queue of three give jobs below, at and above the end
of the ledger, and blocks committed in between. A query that is refused for
another reason than a missing block may cut off any of these jobs. A ledger of four blocks with a
fork after two lets a cache be a beginning of both ledgers, of one, or longer
than its peer's, and three faults allow a damaged or cut file, another peer and
a crash or a failed write while that is being repaired. Three transactions after the first block
are enough to take something away, add it again, and look at it; blocks may be
empty, and the transactions of the first blocks have several commands. Four items with three times give equal times, pages of one and two, an
end in the middle of a page and a list that grows at any point. The theorems
need none of these bounds.

Fairness (`FairSpec`). `Sync`: each thread is scheduled (they are threads of the
operating system, and none waits for a lock of another), a query is answered and
a stream that was asked for is registered; nothing forces the peer to commit or
close the stream, or the process to exit. `CatchesUp` counts a stream that has
ended as having stopped, and is about a peer that registers the stream at once
and refuses only blocks it does not have. `BlockCache`: the process makes progress and is started again when it
is down, by its operator, who may configure it to follow a peer or not;
`Recovers` is about those that end up following. No deadline in the code
enforces that a query is answered; a peer that never answers is outside of these
runs.

Deadlock is not checked: a sync that waits for new blocks, a process that has
exited, and bounds that are reached have no next step. What must not stand still
is stated as `FetchingEnds`, `CatchesUp` and `Recovers`.

Assumptions. The server's `io_context` is run by one thread (`Server::run`), so
handlers and queries never overlap. Damage to the cache is seen by the parser.
The peer changes its ledger only while the explorer is down. Times of blocks are
in order; those of transactions are not, and then `PagesTile` speaks only of
lists without times, and `HistogramRight` of none: both are right for times in
order only, see the hazards at `transaction.cpp:54` and `query.cpp:27`; what
`NothingForeign` says of pages holds for them too. A client takes `after` from
the page before. `CommandsShown` is about transactions with a command: only a
first block can hold another, and `txCmdJson` writes no JSON for it. Totals and
lists count the stubs of a first block, which `TotalsRight` allows for.

## What is proved

The theorems assume of the constants only `ConstantsAssumption` of each module,
and, where it is said, what is named there. Each is about every value of the
constants: any number of workers, ledgers, heights, items.

### Sync (`SyncProofs`)

- `TypeCorrect`, `ExpectedAlways`, `QueueAheadAlways`, `FollowsLedgerAlways`,
  for peers that refuse whatever they want and register the stream whenever:
  none of `ExpectedBlock` and `QueueAhead` is inductive alone, as a handler
  trusts that what it takes from `q` is committed, above `next_height` and that
  the counters of `sync.cpp` and `db.cpp` agree. `BaseInv` joins these with the
  quiet start, the heights of jobs in progress (`JobHeights`) and `OnlyCommitted`;
  every action preserves it. The refinement follows step by step: `StartSync`
  maps to `Start`, `Handle` to `Follow` or a stutter, `Commit` to `Grow`,
  `EndStream` and exits to `Stop`.
- `NothingLostOnceRegisteredAlways`: `StreamInv` says that from the first
  streamed height on every block is in hand or still to be streamed.
- `NoBlockLostAlways` and `WaitsOnlyForNewBlocksAlways`, for peers with `Prompt` (the
  stream is registered when it is asked for) and `~Refuses` (the peer answers with an
  error only for a block it has not): `CoverInv`
  adds the part below the stream. Everything below the first job is in hand
  (`StartInv`); no value of `qheight_max`, nor any value a worker has read or is
  about to write, is at or below the height where the stream starts
  (`LimitInv`), which is why the lost updates do no harm; each height below that
  is queued, asked for or in hand (`FetchInv`); and `qio` is stopped only when all
  heights below the stream have been queued (`StopInv`). `sync_gap` shows that
  `Prompt` is needed; that `~Refuses` is needed is the hazard at `sync.cpp:45`.
- `BoundedPrefetchAlways`: the bound is not inductive, because while the queue is
  being filled a job may already have been taken. `PrefetchInv` counts against
  what has been filled so far instead of `kGetBlockQueue`, and says that only
  finitely many workers are busy, without which there is nothing to count.

### Block cache (`BlockCacheProofs`)

For any ledgers that fork anywhere, any heights, widths of `int` and number of
faults, `Inv` joins four parts above `TypeOK`:

- `Counters`: what `block_count`, `size` and the bytes have to do with each other in
  each phase;
- `Writing`: which writes may have failed, and when there is something in the
  buffer;
- `OnDisk`: file, unwritten part of the buffer and memory fit together (a failed
  append leaves the file a beginning of the memory);
- `OneLedger`: some ledger explains every cell of file, memory and buffer. It is
  an existential statement because the file was written by earlier processes:
  no variable of this one knows from which peer. Unless a write was cut short
  (`torn`), each cell is also at its place or damaged (`Placed`).

None of the properties is inductive without `OneLedger`: what `load` finds depends
on what the last processes left, and that depends on what they had loaded.
From `Inv` follow `TypeCorrect`, `LoadsOneLedgerAlways`, `ExitKeepsAllAlways`,
`IndexedInMemoryAlways`, `SyncsOwnLedgerAlways` (comparing the last block suffices,
because ledgers that agree in one block agree below it) and
`LoadFailsOnlyTornAlways` (records that are placed have the height that is
expected). `OnlyCorruptedTruncatedAlways` has the hypothesis
`2 * MaxHeight <= IntMax`: an `int` counts the longest ledger; run `cache_int` shows
that it is needed. `FollowsLedgerAlways` is the refinement of `LedgerFollower`
over restarts: `StartSync` is its `Start`, `Appended` and `AppendFails` are its
`Follow`, `Commit` its `Grow`, and what ends the process its `Stop`.

### Data structures (`StructuresProofs`)

For any sizes, values and bounds. The structures share no variable, so each has
its own invariant above `TypeOK`, and the steps of the others are its stutters:

- `IndexInvertsAlways` from `RisingOffsets`: offsets that never fall leave one
  possible result for `std::upper_bound` (`IndexUnique`), also around empty
  entries and after `truncate`.
- `NotSharedAlways` and `NoneLostAlways`, together inductive: `Vector::add` makes
  the new node the head, the old head becomes that node's next, and so the same
  one thing leads to every other node as before.
- `FindsFirstAlways`: it is not inductive alone, because that nothing matches must
  mean that the value was never added. `Covered` says so: every value has an
  equal one in the set that is not after it.
- `KeepsContentsAlways`, the refinement of `Containers`: `PushBack` and `Truncate`
  change the differences of neighbouring offsets at the end only
  (`LenRefines`), `Add` puts a value before one list and leaves the values of
  all nodes that were there (`ValuesStay`, `AddRefines`), `HashedPush` gives a
  place to a value that had none or changes nothing (`HashedRefines`).

### Bytes of a block (`FieldsProofs`)

For any transactions:

- `FlattenIs` and `FieldIs` say where the parts of what protobuf writes are,
  `RepeatedFinds` that a loop over `Pb::next` finds the fields of a number that
  are laid behind one another, each with its content, and stops at the first other
  one. Both are about recursive functions of the model: `RepeatedLoops` shows
  that the recursion has a solution, because a content fits into its view.
- `GetTxCmdIs`: for each transaction `getTxCmd` remembers a range that holds its
  reduced payload (`CommandsAt`). The loop looks for the payload and, because its
  views are taken one level too far out, finds the reduced payload as the only
  "command" (`CommandsOfTx`), whatever the transaction before it has left.
- `TxCmdJsonIs`: from such a range `txCmdJson` writes the JSON array of the
  commands, all of them and no more, because what follows them in a reduced
  payload has another number (`AfterCommandsIs`). `CommandsReadBack` joins the two.

### Index (`IndexSteps`, `IndexProofs`)

For any accounts, roles, domains, keys and commands, any first blocks, and ledgers
of any length. Of a first block `ConstantsAssumption` says `ValidFirst`: the peer,
which has executed the block before it gave it to the explorer, could execute it.
For later blocks that is what the model's `Execute` requires. All of it is about ledgers whose keys
are `Readable`. `GenesisAssumption`
says that a first block has no transaction twice, and that none of its times is
one at which a later transaction was made; only `LedgerReadsBack` needs it.

- `Shows(d, w, how)` is what the tables have to do with a world state, one conjunct
  for each: positions that a table holds are positions in the tables that it
  refers to, equal names come once, and each role of an account, peer, and
  permission with its granter of `w` is in `d` (`GrantedIn` says of grants what
  `find` leaves of them). For `how = "all"` it says nothing of what is in the table
  and not in `w` any more, so that it survives the commands that the switch of
  `addBlock` ignores; for `"exact"` it says that there is nothing else.
- Each command of the switch with readable keys (`Keeping`) keeps it (`CreateRoleShows` to `AddPeerShows`,
  `CommandShows`): a valid command finds every name that it looks up. Then a whole
  list of commands (`CommandsShow`), the signatories (`SignersShow`), the tail of a
  transaction (`EndTxShows`: who created it is an account *after* its commands),
  a transaction (`AddTxShows`) and a block with or without the stubs
  (`AddBlockShows`). The folds of `AddBlock` are shown to go through their
  sequences step by step first (`FoldExists`, in `FieldsProofs`).
- `IndexInv` joins this with the ledger, as long as its keys are `Readable`
  (`Indexed`; `ReadableBefore`: they were before each step after which they are):
  the index shows the world state `w0` that
  the peer had after the last block, the transactions of the next block lead
  from `w0` to `world`, and each block and transaction of the ledger is in the
  tables as it was committed, behind the ones before it (`BlocksIn`), its commands
  at the range that is remembered (`CommandsIn`). It is
  an existential statement, as `w0` is no variable of the model; for that reason
  it is not an invariant of a run, its consequences are. No property is
  inductive without it: what a command finds depends on all blocks before.
- `NeverUndefinedAlways` and `HidesNothingAlways` follow from `"all"`;
  `PermissionsShownAlways`, `NamesUniqueAlways` and `ShowsWorldAlways` from `"exact"`,
  which holds until a command takes something away. The totals of `ShowsWorld`
  count the tables, and so need that the stubs of a first block stay in them
  (`Stubbed`) and that tables without repetition are as long as the sets they show.
- `DomainCountsAlways`: `CountsIn`, a part of `Shows`, says that a domain's counter is
  the number of transactions whose creator's home it is, the stub's included, in
  terms of `tx_creator` alone. Accounts keep their positions (`SameAccounts`), so
  that only the tail of a transaction changes a count. `TxPlaced` and `OnePlace`
  then translate positions into pairs of a block and a transaction.
- `LedgerReadsBackAlways`: offsets determine which block a transaction is in
  (`Offsets`), and they stay when a block is added (`SameOffsets`). That a hash leads
  to its own transaction needs a second invariant, `TimesInv`: a transaction of a
  later block has a time that nothing before it has, so no two hashes are equal
  (`HashesDiffer`).
- `CommandsShownAlways`: `TxBlockIs` gives the block in whose bytes `commandsJson`
  reads, `CommandsIn` the range, `TxCmdJsonIs` what it reads there. `TypeCorrect`
  collects what the parts of `IndexInv` say of lengths and positions.

### Queries (`QueriesProofs`)

For any list, times, limits, sizes of pages and number of pages:

- about single calls: the halving search of `LowerBound` is a function and splits a
  range that is in order (`LowerBoundSplits`, by induction on the length of the
  range); a page is a run of positions from its start, cut by the limit and the
  time it stops at (`ItemsFromIs`, `PageShape`).
- about pages: `Inv` says that what was seen is what is asked for of the positions
  gone over so far (`Tiled`), that `after` is the last item seen (`LastSeen`) and a
  position of the list or just beside it (`Ended`), and what holds without an order
  of times (`NothingForeign`). `PagesTile` alone is not inductive: it computes the rest of
  the list anew in each state and does not say where the next page begins.
  `PagesTileAlways`, `ShortPageIsLastAlways` and `NothingForeignAlways` follow.
- `HistogramRightAlways`: the two nested loops of `countPerTime`, which go through
  times and buckets together, count what a bucket holds of the times that are left,
  for any of both (`LoopsTally`, by induction on what is left of them).

### What they rest on (`Numbers`)

`LeastNumber` (a property of some number holds of a least one) and `SetInduction`
(induction over the sets of numbers), `MaxUpTo`, and `RecursionExists`: a
recursive equation whose calls all lower a measure defines a function.
It is about functions, not operators, so that it can be used for the
recursive functions of the model: `ValuesFrom`, `LowerBound`, `CountPerTime`.

### Only model-checked

Of the properties of the runs only the liveness properties `FetchingEnds`,
`CatchesUp` and `Recovers`: liveness under fairness is out of the prover's reach.

## What is not modelled

- Server: HTTP routes that hand a body to `gql` or print counters of the index; it
  has no state but the `io_context`, which is the thread of `Sync`'s handlers.
- The translation of a request body to arguments (`service.cpp`) and the two
  arguments that the code ignores (`creatorId`, `id`).
- Conversions without state: hex, ISO times, log levels, the signature of a
  query. `truncNow` is in local time; the model has no time zones.
- Details of data: the 48 bits of a permission set, bytes of hashes (a hash is what
  was hashed, which tells two of them apart just as well).
- What the code leaves open: deadlines of queries, reconnecting a stream that has
  ended, a bound on the handlers that are posted, an `after` that is not from a
  page. These are hazards with a note in `PROJECT.json`.
- A query that reads `block_bytes` in the server thread while `drop` empties it in
  the sync thread: `IndexedInMemory` says that this is the only moment; what the
  query would then read is not modelled.
- Generated code, the frontend and the build.

## Plan

1. `LedgerFollower`, `Sync`, `SyncProofs`: what the explorer promises about its
   copy of the ledger, the threads that make it, the theorems. *Done.*
2. `BlockCache`: the file and the life of the process, with the configuration and
   failed writes, as a `LedgerFollower` over restarts. *Done.*
3. `WorldState`, `Fields`, `Index`: the tables against the peer's world state, the
   bytes of commands, and what every object of the queries shows. *Done.*
4. `Containers`, `Structures`: the data structures under the tables. *Done.*
5. `Queries`: pages and histograms. *Done.*
6. Proofs: all invariants of `Sync`, `BlockCache`, `Structures` and `Queries` and the
   refinements of `LedgerFollower` and `Containers`. *Done.*
7. Proofs about `Fields` and `Index`: all their invariants. *Done.*
