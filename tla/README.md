# A verification of ego-contrib in TLA+

ego-contrib holds the storage plug-ins of the eGo actor framework. An
event-sourced actor appends events to an **events store** (the journal) and
recovers by replaying them; a **projection** polls the journal shard by shard
and keeps its position in an **offset store**; a **durable-state actor** writes
and reads its latest state in a **state store**; a **snapshot store** keeps
states that shorten a replay. Every plug-in is a Go type whose methods may be
called by many goroutines at once. The framework itself (actors, projections)
is not part of the repository and appears here as the external callers the
stores are written for.

The project consists of models of these stores, the TLC runs that check them on
small instances, and proofs, checked by TLAPS, of the most important results for
every instance.

## 1. The system

| component | state | operations | what is hard |
|---|---|---|---|
| `eventstore/memory` | a go-memdb table of rows keyed by random uuids, the flag `connected` | Connect, Disconnect, Ping, WriteEvents, DeleteEvents, ReplayEvents, GetLatestEvent, GetShardEvents, ShardNumbers, PersistenceIDs | no lock: the flag is loaded, the database is used later; DeleteEvents takes two transactions; the queries filter, cut and sort rows that come in the order of uuids |
| `eventstore/postgres` | a table with primary key (persistence id, sequence number), a connection pool, `connected` | the same | inserts in chunks inside one transaction, several error paths, two transactions that conflict or deadlock, pool exhaustion, an unanswered commit, events that become visible in another order than that of their timestamps |
| `offsetstore/memory` | a go-memdb table of pointers to rows, a unique index over (projection, shard), `connected` | Connect, Disconnect, Ping, WriteOffset, GetCurrentOffset, ResetOffset | a write adds a row and leaves the old one; a reset changes rows in place, in sight of every reader, and inserts them again |
| `offsetstore/postgres` | a table with primary key (projection, shard), a pool, `connected` | the same | a multi-row UPDATE beside upserts of the same rows; statements that the server runs after their client has given up |
| `durablestore/memory` | a sync.Map, an atomic flag | Connect, Disconnect, Ping, WriteState, GetLatestState | the purge of Disconnect, key by key, beside writes that have passed the flag and beside another purge |
| `durablestore/postgres` | a table with primary key persistence id, a pool, a flag guarded by a mutex | the same | an upsert without a condition on the version, which the server may run after its client has given up |
| `durablestore/cassandra` | a replicated table, a gocql session, a flag guarded by a mutex | the same | queries use the session without a look at flag or mutex; an insert reaches the replicas at any time; a read asks some of them |
| `durablestore/dynamodb` | a table that is read with eventual consistency | the same (the lifecycle does nothing) | reads that may be stale; items that lose the version and the shard |
| `snapshotstore/postgres` | a table of snapshots, a pool, a flag guarded by a mutex | Connect, Disconnect, Ping, WriteSnapshot, GetLatestSnapshot, DeleteSnapshots | a delete of many rows beside upserts and other deletes of the same rows; Disconnect holds the mutex while it waits for every connection |

The stores do not call each other. They meet in their callers: a projection
reads the journal and writes offsets, an actor reads a snapshot and the events
after it, and it deletes events that a snapshot covers. The state stores meet in
the interface `persistence.StateStore`, behind which a program has one of them.

What makes each component correct:

* **events store**: a batch is stored as a whole or not at all; a failed call
  changed nothing (unless its answer got lost); DeleteEvents removes only what it
  covers and all of it; a replay returns every event of the range in order;
  polling a shard loses and repeats nothing; paging lists every persistence id.
* **offset store**: one offset per shard and projection; reads return committed
  offsets; a reset reaches every shard.
* **state store**: the latest state that was written is read back; what a purge
  was to remove is gone.
* **snapshot store**: the newest snapshot is found; a delete removes what it
  covers and nothing else.
* **all**: no method uses a connection that is not there; every call returns.

## 2. The modules

| module | models |
|---|---|
| `Journal` | the contract of an events store: atomic batches, covering deletes, failures without effect |
| `MemEventsStore` | `eventstore/memory`: lifecycle, WriteEvents, DeleteEvents |
| `MemEventsQueries` | its queries, as operators on the table |
| `MemEventsWalk` | a caller that pages through PersistenceIDs while the store changes |
| `PgPool` | flag, pool, Connect, Disconnect and Ping of the two Postgres stores that hold no lock |
| `PgEventsStore` | `eventstore/postgres`: WriteEvents and DeleteEvents over Postgres transactions |
| `PgEventsQueries` | its queries, and a projection that follows one shard |
| `PgEventsWalk` | a caller that pages through PersistenceIDs |
| `PgEventsReaders` | the composition of the store with either reader |
| `MemOffsetStore` | `offsetstore/memory` |
| `Offsets` | the contract of an offset store |
| `PgOffsetStore` | `offsetstore/postgres` over Postgres row locks |
| `Goroutines` | the goroutines of the modules below and where they are |
| `GuardedPool` | flag, mutex, pool, Connect, Disconnect and Ping of the two Postgres stores that hold a lock |
| `StateCalls` | the callers of a state store and what they know of their states |
| `MemStateStore`, `PgStateStore`, `CassandraStateStore`, `DynamoStateStore` | `durablestore/*` |
| `StateStores` | the first three behind one interface |
| `Snapshots` | the contract of a snapshot store |
| `PgSnapshotStore` | `snapshotstore/postgres` over Postgres row locks |
| `MemEventsProofs`, `MemEventsWalkProofs`, `PgEventsProofs`, `PgEventsReadersProofs`, `MemOffsetProofs`, `PgOffsetProofs`, `StateStoresProofs`, `PgSnapshotProofs` | theorems about the module in the name, with the proofs; `StateStoresProofs` about all state stores but DynamoDB |
| `MC*` | batches, targets, events, states and snapshots of the small instances, and their symmetry |

How state and actions correspond to the code:

* **Steps.** A goroutine's step ends where another goroutine can see or change
  what it uses: after the load of a flag, between two transactions, between two
  statements, before and after a call that waits. `pc` says where it is. A
  go-memdb write transaction holds the writer lock and publishes at its commit,
  and a read transaction sees one version, so each is one step. What runs under a
  mutex without a slow call is one step; `mu` says who holds it across one.
* **The lifecycle** of the memory stores is `Connect` (the load of the flag),
  `ConnectNewDB` (the assignment of a new database), `ConnectStore` (the flag
  goes up), and the like for Disconnect. In `PgPool`, `ConnectNewPool`,
  `ConnectFails` and `ConnectSetPool` are the parts of `postgres.Connect`; a pool that
  fails its ping stays open, with nothing that refers to it, here and in `GuardedPool`;
  `Disconnect` marks the pool as closing and `DisconnectClosed` is the return of
  `pool.Close`, which waits until every connection is back. In `GuardedPool`,
  `Connect` takes the mutex, `ConnectStore` or `ConnectFails` gives it back;
  `Ping` gives it back before it calls Connect, which takes it again.
* **uuids** are numbers that are drawn in any order and never twice. The order of
  the numbers is that in which go-memdb iterates over rows with equal index values.
* **Sorting.** What memdb iterates over and what `sort.SliceStable` returns is given
  by the number of rows that come before each one (`InOrder`). Where an order leaves
  a choice, as between two rows that a SELECT does not tell apart, every answer it
  permits is possible: the queries of `PgEventsQueries` and a page of
  `PgEventsWalk` are sets of answers. No query is defined by recursion over rows,
  so that all of them can be proved about.
* **sync.Map** (`MemStateStore`): Store and Load are steps; a Range visits every
  key it found at its start and may visit those stored meanwhile, in any order.
* **Postgres** is modelled by what decides the outcome of the stores' statements:
  committed rows, the rows an open transaction has inserted or deleted (which
  lock their keys), the primary key, detection of deadlocks, rollback when a
  connection ends, and the possibility that a commit takes effect without an
  answer. An INSERT proceeds row by row. A DELETE inside of a transaction of the
  events store takes effect when none of the rows it covers is locked; the DELETE
  of the snapshot store, a statement of its own, sees the rows of its beginning,
  locks them one by one, waits for those another delete has locked, and removes
  them at its end. An UPDATE does the same and shows its values at its end. A
  SELECT sees one moment.
* **Late statements.** In the models of the offset, state and snapshot stores the
  server may go on with a statement whose client has given up or died: the slots
  `Lost` in `PgOffsetStore` and `PgSnapshotStore`, which keep their row locks, `late`
  in `PgStateStore`, `unanswered` in `DynamoStateStore`, and inserts that have not
  reached every replica in `CassandraStateStore`. Such a statement is an error for
  its caller and may take effect after newer calls.
* **Cassandra** keeps a row at each replica. An insert carries the timestamp of
  its client; a replica takes it at any time or never, and keeps the newest it
  got. An insert is acknowledged when `Consistency` replicas have it or a newer
  one; a select returns the newest of the answers of `Consistency` replicas, each
  given at a moment of its own.
* **DynamoDB** keeps an item, and copies of it that lag; a read may get any.
* **Network failures** can strike wherever the code waits for a database; the error
  path of the code follows. A transaction that a failure strikes ends.
* **Payloads** are opaque. In the memory events store an event's payload may be
  `Malformed`: `proto.Marshal` failed, its error was dropped, and the row cannot
  be decoded. In Postgres an event that does not marshal (`Marshals = FALSE`)
  makes WriteEvents return. The state and snapshot stores marshal one value before
  their only statement. `durablestore/cassandra` returns the error (`MarshalFails`);
  `durablestore/postgres`, `snapshotstore/postgres` and `durablestore/dynamodb` drop
  it, store the bytes there are and return nil, and reads of the row fail from then
  on (`Malformed`, with `Unmarshal` in `StateCalls` and `Answer` in
  `PgSnapshotStore`).
* **Callers of a state store** (`StateCalls`) are kept track of by histories: the
  states they began to write, those acknowledged, and those that a later,
  acknowledged write has replaced for good.
* **Left out**: the text of SQL statements, logging, error wording, the fields
  that nothing branches on (is_deleted, encryption, timestamps of states),
  tracing of contexts (a context that is done is a network failure, or, while a
  connection is waited for, `NoConnection`), integers above
  2^63-1, which Postgres refuses with an error like any other.

## 3. The runs

All runs check for deadlock: no state of a model is without a next step. That a call
which has begun comes to its end is the liveness property `EveryCallReturns`, where a
run checks it.

| run | instance | shows |
|---|---|---|
| `mem_events` | 2 clients, 1 owner, 3 uuids, batches of 1 and 2 events, one with a payload that cannot be decoded, one that memdb refuses at its second row; a walk of 2 rows a page; every query, with arguments from small sets, asked of every table on the way | `TypeOK`; `NoNilDB`; `DeletesWhatItRead`, the inductive invariant of the two-transaction delete; `RefinesJournal`; `ReplaysComplete`, `ShardPagesComplete`, `UnreadableStaysLocal`, `ListsEveryIDThatFits`, `WalkAdvances` |
| `mem_events_latest` | 2 uuids | a counterexample to `LatestIsHighest` |
| `pg_events` | 2 clients with 2 connections, 1 owner, one event per INSERT, batches that insert the same keys in opposite orders, one that fails to marshal after a chunk, the empty batch; fair scheduling | `TypeOK`, `RefinesJournal`, `EveryCallReturns` |
| `pg_events_disconnect` | 1 client, an event that does not marshal | a counterexample to `DisconnectReturns` |
| `pg_events_readers` | 2 clients and a reader: a projection with 1 event a page over events with equal and with descending timestamps, or a walk with 1 id a page | `RecoveryComplete`, `HandlesOnce`, `MissesOnlyLateOrEqual`, `ListsEveryID`, `WalkAdvances` |
| `mem_offsets` | 2 clients, 1 owner, 2 uuids, 2 shards of 1 projection, 2 values | `TypeOK`, `OffsetsAgree` |
| `mem_offsets_reads` | the same | a counterexample to `ReadsAreCommitted` |
| `mem_offsets_keep` | 1 client, 1 owner, 1 shard | a counterexample to `OffsetsSurvive` |
| `pg_offsets` | 2 clients with 1 connection, 1 owner, 2 shards, a value that is written and another that is set by resets, 1 statement without a client; fair scheduling | `TypeOK`, `RefinesOffsets`, `EveryCallReturns` |
| `state_stores` | 2 clients, 2 owners, two versions of one state and one of another, which does not marshal; in memory, in Postgres (1 connection, 2 pools) or in Cassandra (3 replicas, quorums of 2) | `TypeOK`, `ConnectedIsOpen`, `PurgesAcknowledged`, `ReadsLatest` |
| `pg_snapshots` | 2 clients with 2 connections, 1 owner, 2 snapshots of an id, the second of which does not marshal, 2 ranges, 1 statement without a client, fair scheduling | `TypeOK`, `RefinesSnapshots`, `EveryCallReturns` |
| `dynamo_states` | 2 clients, two versions of one state, the second of which does not marshal | a counterexample to `ReadsLatest` |

**Why the bounds suffice.** Two clients give every pairwise interleaving of two
calls, which is where the code's check-then-act steps, lock conflicts and
deadlocks live; a third client adds no new kind of conflict because every step
touches one row, one flag or one pool. One chunk boundary per batch
(`insertBatchSize` 1, batches of two) shows the effect of failing between two
chunks. Three uuids let a batch of two and one of one be stored together
and let a key be superseded; the number of uuids bounds the writes of a behaviour
and an exhausted instance merely cannot write any more. `Values` has two members,
the least with which a wrong offset is told from a right one. The walks use pages
that need more than one call: in `mem_events` three ids of one row each take two rows
a page, one of which is that of the token.

The bounds by name: `Pools`, the pools there can be at a time. With one, as in
`pg_offsets` and `pg_snapshots`, a store that was disconnected,
or whose only pool has failed its ping, is not connected again until the program
restarts; `state_stores` has two, so that it is. `Lost`, the statements that go on
without a client: one at a time, which holds rows for as long as it likes and may be
the upsert or the UPDATE of any call that failed (in `pg_offsets`, where the clients
have one connection, two statements overlap when one of them is such a one);
`Bounds`, by which in `mem_events` the walk is beside one client, who has called the
store alone, and the other one comes in when it is over, and by which in `pg_offsets`
a WriteOffset and a ResetOffset have values of their own (it is about arguments that
callers choose, so it takes no step from a call that has begun); `WalksOn`, by which a
walk that is done is followed by the next one at once; `OneWriter`, by which no two calls run at a time beside a walk over the ids;
`FewWrites`, by which two states are written in memory and those of one row in
Cassandra, while Postgres gets all three; each state is written once, so that
what is read tells which call wrote it. In Cassandra the clock of the program does
not go back, and no two inserts have the same microsecond. `mem_events`,
`state_stores` and `pg_events_readers` use the symmetry of clients, owners, pools and
replicas, and check no liveness.

**Owners.** The lifecycle methods of the events and offset stores take no lock.
With one owner they overlap with the calls of all clients but not with each
other, which is how the framework uses them: one actor system connects its stores
at its start and disconnects them at its end. `NoNilDB` is proved for any number
of owners. `GuardedPool`, the Cassandra store and the in-memory state store are
checked with two owners and proved for any number.

**Fairness.** `FairSpec` assumes weak fairness of each owner's own steps (the Go
scheduler runs every runnable goroutine) and strong fairness of each client's:
a client that waits for a connection or for a row lock is repeatedly able to
proceed while others come and go, and both `puddle`, the pool under `pgxpool`,
and Postgres hand out what is waited for in the order of arrival. In
`PgSnapshotStore` an owner also waits for the mutex, which `sync.Mutex` hands to
who has waited longest once starvation is noticed: strong fairness as well. In
`PgOffsetStore` and `PgSnapshotStore` what the server runs is fair as a process of
its own, deadlocks included. Nothing is assumed about new calls, network failures,
contexts or crashes, so no call relies on them to return. `pg_events` and
`pg_snapshots` give each client a connection: their `EveryCallReturns` is about
waiting for rows, for each other and for pools that close, and the only wait for
connections there is that of `pool.Close`, which needs every one of them back. In
`pg_offsets` the two clients share a connection, and one waits for it while
the other's statement waits for the rows of a third. A client that waits for the
mutex of a snapshot store has not begun its call in the model, so that wait is not
covered by the property. In `pg_events` the property is conditional on no
transaction having been left open; `pg_events_disconnect` shows what happens
otherwise.

## 4. What the properties say

* `RefinesJournal` (both events stores): every behaviour of the store is one of
  `Journal`. Batches are atomic, a failed call changes nothing, a DeleteEvents
  removes only covered rows and, when it succeeds, all there were at its call. For
  the Postgres store an error leaves open whether the commit took effect, and a
  crash forgets the calls, not the rows. For the memory store a Connect may replace
  the journal by an empty one while the flag is down; `Journal` has that as `Replace`.
* `DeletesWhatItRead`: between the two transactions of DeleteEvents a row that was
  read is the same row or gone, never another row under its uuid; the rows the
  call had to see are gone or still going to be deleted.
* `ReplaysComplete`, `ShardPagesComplete`: whatever order the uuids bring the rows
  in, a replay that is not cut is complete and sorted, and a page that is within
  the limit leaves nothing behind.
* `MissesOnlyLateOrEqual`: the exact extent of what a polling projection can
  lose on Postgres: events committed after its offset had passed their timestamp,
  and events that share the timestamp of the last one on a page.
* `OffsetsAgree`: while no reset overlaps another step, the memory offset store is
  a map of offsets, however many superseded rows it holds. `committed` says what the
  map has to be: Disconnect empties it, unless the store was told to keep its
  records. A store that was is held to the map only where it has a row of the shard;
  that it has one is `OffsetsSurvive`, which is violated (section 6). What a reset and
  a write do to each other when they overlap is not covered.
* `RefinesOffsets`: on Postgres a call that succeeds takes effect at one moment of it,
  and a reset reaches every shard that had an offset when it was called. A shard that
  gets its first offset during the reset may or may not be reset: the UPDATE does not
  see rows that are inserted after it began. A call that failed, or whose program
  died, has taken effect, never will, or does so later, over what was written since:
  `Offsets` keeps the requests in `doubt` for that, and an offset changes by nothing
  but a pending call or one of those.
* `ReadsLatest`: a GetLatestState returns a state as it was written under that
  id, never one that had been replaced for good when it was called, and not nothing
  where a state had been acknowledged. A state is replaced for good when it was
  acknowledged before a later write began that was acknowledged itself; a write
  that failed, or runs beside the read, may have taken effect or may yet do so.
  This is what an actor with a single writer relies on when it restarts, and as
  much as an upsert without a condition can keep once a statement is late.
* `PurgesAcknowledged`: when the Range of a Disconnect of the memory store is over,
  no state is left that had been acknowledged before it began.
* `ConnectedIsOpen` (`GuardedPool`), `SessionOpen` (Cassandra): the flag, whenever
  nobody holds the mutex, says whether what the store uses, its pool or session, can
  be queried. It says nothing of other pools: those that failed their ping are open,
  too.
* `RefinesSnapshots`: the snapshot store is one of `Snapshots`. Reads and writes
  take effect at one moment, and a read tells "no snapshot" from an error. A delete
  looks once, later removes all it saw that is still there, and may take what else
  it covers; it removes nothing that it does not cover, and a snapshot written while
  it runs may survive. A call that failed may yet take effect.

## 5. What is proved

Every safety property of a passing run, state invariant, action property or
refinement, is a theorem, for any values of the constants that satisfy the
assumptions stated where they are declared. These say no more than what the code's
types and the model's encoding imply: `None` is none of the data, clients are not
owners, batches are sequences of events, uuids, persistence ids, sequence numbers
and the bounds of queries are natural numbers, `MaxConnections` and the page size of
the Postgres walk are positive, a pool is not `None`, and the empty page token is
less than every persistence id. No constant is assumed finite but `Replicas` (in
`Quorate`): that a table, or what was written, is finite is proved where it is needed.

Each theorem `Spec => []Inv` follows from an inductive invariant, with a lemma for
each action or group of actions that does the same to it.

**`MemEventsProofs`**

* `TypeCorrect`: `TypeOK` is inductive; the delicate part is that no row without a
  persistence id gets into the table, which needs WriteCommit's guard.
* `DBAssignedBeforeUse`: `NoNilDB`, for any number of owners. The inductive
  invariant adds that an owner between ConnectNewDB and ConnectStore implies that
  the database is assigned.
* `SnapshotsHold`: `DeletesWhatItRead`. Its three conjuncts are inductive together:
  which call a client is in (`CallInv`), what it read is still that or gone
  (`SnapshotInv`, which needs that uuids are never drawn twice), and what it had to
  see is gone or doomed (`SeenInv`).
* `ImplementsJournal`: with one owner, `RefinesJournal`. A DeleteCommit removes all
  of `seen` by `SeenInv` and only covered rows by `SnapshotInv`; emptying the table
  is a `Purge` or a `Replace` by `ConnectionInv`, which says how the flag stands
  while the only owner works.

**`MemEventsWalkProofs`**

* `InOrderSorts`: a row has fewer rows before it than one that comes after it, so the
  places are different; there are as many as rows, so all are taken. That is the
  pigeonhole principle of the library, and no induction over rows. All sorts and
  scans are instances.
* `RecoveryFindsAll`, `ProjectionPages`, `UnreadableFailsAlone`: `ReplaysComplete`,
  `ShardPagesComplete`, `UnreadableStaysLocal`, in every table, not only in those
  between two walks. They need a finite table (`FinInv`), for a transaction adds at
  most as many rows as its batch has events.
* `WalkListsAll`: `ListsEveryIDThatFits`. `WalkInv`: while no id has filled a page, the
  stable ids up to the token are listed. By `PageOfRows` a page leaves no row out that
  comes before one it takes, so the ids up to the next token are on it or listed
  before; and a page without a next token has all rows there are, unless the rows of
  the token's id filled it.
* `WalkGoesOn`: `WalkAdvances`.

**`PgEventsProofs`**

* `TypeCorrect`: `TypeOK`, which includes that a row is stored under its own key.
* `ImplementsJournal`: `RefinesJournal`, for any number of owners, batches with
  colliding keys, and crashes. The invariant is about what open transactions hold.
  `InsertInv`: what a transaction has inserted is its batch up to the next event, each
  under a key that is free in the table and inserted by no other; so a commit installs
  a batch as a whole. `DeleteInv`: a row it has deleted is still in the table, is
  covered, and is deleted by no other; what the call had to see is gone or deleted.
  `CallInv` says which argument a client holds where it is. That a commit takes effect
  without an answer is what `Journal` has `Uncertain` for.

**`PgEventsReadersProofs`** builds on these: a reader lets the store be, so the
invariant of the store holds, and adds that the table is finite (`FinInv`: a commit
adds at most one row per event of its batch).

* `RecoveryFindsAll`: `RecoveryComplete`; the last event of a replay that is not cut
  is the one `GetLatestEvent` gives.
* `ProjectionMisses`, `ProjectionHandlesOnce`: `MissesOnlyLateOrEqual`, `HandlesOnce`.
  The first is inductive with `PollInv`: no handled event is past the offset. A page
  holds only events that are, and all that are before its last one.
* `WalkListsAll`, `WalkGoesOn`: `ListsEveryID`, `WalkAdvances`. `WalkInv`: the stable ids
  up to the token are listed and no listed id is past it. The next token is the last id
  of a page that is not empty, so the walk ends only where no id is left, and unlike in
  memory no id can end it.

**`MemOffsetProofs`**

* `TypeCorrect`: `TypeOK`.
* `OffsetsOfSerialResets`: `OffsetsAgree`, as long as each reset ran alone. `AgreeInv`:
  of the shards the store is held to (`Held`: all of them, or with the flag those it has
  a row of) only such as have a row can differ from the map, and only while their
  projection is reset. `ResetInv`: the reset has read every row of it, and has changed those it
  has not to do any more; so when none is left they all agree. The rows a reset
  inserts again leave the index at the one with the greatest uuid; `DrawnInv` has that
  there is one in every nonempty set of drawn uuids, which is kept as uuids are drawn
  one by one and needs no induction.

**`PgOffsetProofs`**

* `TypeCorrect`: `TypeOK`; two UPDATEs never lock the same row, with or without a
  client. `PoolOK` adds that whoever is past the load of the flag finds a pool,
  `CallOK` that the server runs the call of a client that holds a connection,
  `StmtOK` that what an UPDATE has locked are rows it took.
* `ImplementsOffsets`: `RefinesOffsets`, for any number of owners and of statements
  without a client. `ResetInv` is why a reset misses nothing: no row is ever deleted,
  so what there was at the call is there when the UPDATE begins and is in its snapshot
  from then on. A statement of a client that commits is its call; one that commits
  without a client is `Late`, of a request that came to `doubt` when its call failed or
  its program died; and one that ends otherwise is a failure or forgotten.

**`StateStoresProofs`** is about the three state stores behind their interface:
`TypeCorrect`, `ConnectionGuarded` (`ConnectedIsOpen`), `AcknowledgedPurged`
(`PurgesAcknowledged`) and `LatestStateRead` (`ReadsLatest`, under `Quorate`: if the
backend is Cassandra, 2 · Consistency > |Replicas|). A backend has an invariant of its
own, and a step of it lets the variables of the others be. All rest on `CallsOK`: no
two calls write the same state, none writes one that is settled (acknowledged before
some write, or replaced), and what a read must not return was replaced.

* *memory*. `PurgeInv`: a key that holds a state acknowledged before a Range began
  is one the Range has yet to visit. A Store cannot break it, for it stores a state
  that was not acknowledged then.
* *Postgres*. `PoolInv`: an owner that dials does so with the flag down and the
  store's own pool not open, one that closes has the flag up and that pool closing.
  `RowsInv`: the row of an id has not been replaced and is there once something was
  acknowledged; a late upsert is of no call any more and neither acknowledged nor
  settled, so that running it late replaces no state by one that was replaced for
  good.
* *Cassandra*. `ClockInv`: the inserts of a row are numbered as they were sent.
  `AckInv`: an acknowledged insert, or a newer one, is at each replica of a quorum, and
  what was replaced is older than it. `AnswersInv`: for whatever a select must not
  return there is a quorum with something newer, which the answers already contain if
  one of that quorum has answered. By `QuorumsMeet` one has when there are answers
  enough.

**`PgSnapshotProofs`**: `TypeCorrect`, `ConnectionGuarded` and `ImplementsSnapshots`
(`RefinesSnapshots`). `TypeOK` is inductive with `PoolInv`: rows that two deletes
have locked are apart, a delete has locked rows it took, and the rows it took are
there and are covered by it. The last is kept because an upsert replaces a row by
one with its key, and a delete that commits takes its rows from all others. In the
simulation an upsert or a select of a client is its call, the beginning of its
delete is `Look`, the commit its end; those without a client are `Late`.

**Only model-checked.** `EveryCallReturns` of the Postgres stores, for the prover has
no support for fairness and ENABLED; and the five violated properties of section 6,
which are counterexamples.

## 6. Where the code and its documentation part ways

Five disagreements are runs that TLC finds violated:

* `mem_events_latest`: GetLatestEvent of the memory store takes the last row of an
  index whose equal values are ordered by random uuids, so it may return any event
  of the persistence id.
* `pg_events_disconnect`: WriteEvents of the Postgres store returns on an error of
  `proto.Marshal` without ending its transaction; `pool.Close` then waits for that
  connection for ever, and Disconnect never returns.
* `mem_offsets_keep`: both go-memdb stores make a new database
  whenever they connect, so `KeepRecordsAfterDisconnect` keeps nothing over a reconnect
  (`eventstore/memory/events_store.go:80`, `offsetstore/memory/offset_store.go:75`),
  though their READMEs have it so that events and offsets survive one
  (`eventstore/memory/README.md:38`, `offsetstore/memory/README.md:10`). In the
  contract of the events store `Journal!Replace` stands for it: `RefinesJournal`
  does not catch it, and the run is about the offsets.
* `mem_offsets_reads`: ResetOffset of the memory offset store assigns to rows of
  the table outside of a transaction; a read returns values nobody has committed.
* `dynamo_states`: the DynamoDB store writes version number and shard of a state and
  does not read them back (`durablestore/dynamodb/item.go:53`), so what
  GetLatestState returns is no state that was written. Without that the property is
  still violated: GetItem reads with eventual consistency
  (`durablestore/dynamodb/dynamodb.go:61`), so that an actor that restarts may
  recover an older version than the one it wrote.

Others were met while modelling. The models contain the behaviour, and the
properties above are worded so as to hold with it:

* Two overlapping Connect calls of a store without a mutex both find the flag down;
  the second replaces the database or the pool of the first
  (`eventstore/memory/events_store.go:69`, `eventstore/postgres/events_store.go:88`).
  `NoNilDB` is not about that loss.
* A pool whose ping fails is dropped and stays open
  (`eventstore/postgres/postgres.go:95`, `offsetstore/postgres/internal/postgres.go:95`,
  `durablestore/postgres/postgres.go:90`, `snapshotstore/postgres/postgres.go:90`).
  Nothing promises that it is closed.
* `durablestore/postgres/durable_store.go:130`, `snapshotstore/postgres/snapshot_store.go:130`
  and `durablestore/dynamodb/durable_store.go:69` drop the error of `proto.Marshal`: the
  call returns nil, what was stored before is gone, and reads of that row fail. The
  properties say that such a read fails, and that it returns no other state.
* A ResetOffset of the memory offset store that overlaps writes or a disconnect puts
  back the rows it had read, and points the index to them
  (`offsetstore/memory/offset_store.go:234`): hence `alone` in `OffsetsAgree`.
* An upsert or UPDATE of the Postgres offset store that failed for its caller may run
  after newer calls (`offsetstore/postgres/offset_store.go:155`, `:226`) and move an
  offset back: hence `doubt` in `Offsets`.
* GetShardEvents of the memory events store fails for a whole shard once one of its
  events cannot be decoded (`eventstore/memory/events_store.go:208` stores such a one):
  `UnreadableStaysLocal` is about ReplayEvents only.
* The memory store's PersistenceIDs lists an id once per row and drops the rows of
  the page token from the page, so an id that fills a page ends the walk
  (`events_store.go:173`): hence `ListsEveryIDThatFits`.
* Its GetShardEvents and ReplayEvents return one event more than the limit, and
  GetShardEvents cuts in the order of persistence ids before it sorts by
  timestamp, so the next offset passes over events (`events_store.go:446`): hence
  the proviso of `ShardPagesComplete`.
* The Postgres GetShardEvents can cut between two events with the same timestamp
  (`events_store.go:388`): hence `MissesOnlyLateOrEqual`.
* `offsetstore/postgres/README.md` describes a delete followed by an insert; the
  code upserts. The effect is that of the model either way.
* A WriteState of the memory state store that has passed the check of the flag stores
  its state after a Disconnect has removed all others
  (`durablestore/memory/durable_store.go:93`): hence "acknowledged before it began"
  in `PurgesAcknowledged`.
* The upsert of the Postgres state store has no condition on the version
  (`durablestore/postgres/durable_store.go:143`), so one that failed for its caller and
  that the server runs late replaces a newer state: hence "replaced for good" in
  `ReadsLatest`, which a state that was never acknowledged is not.
* WriteState and GetLatestState of the Cassandra store use the session without asking
  whether there is one (`durablestore/cassandra/durable_store.go:60`): before the
  first Connect they dereference nil, which the model has as a call that fails.
* The quickstart of the Cassandra store reads and writes at `LocalOne`
  (`durablestore/cassandra/README.md:71`). With more than one replica
  `QuorumsIntersect` fails then, and so does `ReadsLatest`; with the keyspace of that
  README, replication factor 1, it holds.
* That README has the primary key (shard_number, persistence_id) (line 39), the table
  of `resources/states_store.sql` has (persistence_id). The model has the latter,
  which is what the select by persistence id needs.

## 7. Not modelled, and what is left

* **Two writers of one offset, or two owners of a store without a mutex.** The code
  promises nothing for them: the last write, or the last Connect, wins.
* **Snapshots and events.** That a snapshot is written before the events it covers
  are deleted is the order of two calls of the framework, which is not in the
  repository. `Journal` and `Snapshots` are the contracts such a composition would
  be built on, as `Journal` and `Offsets` would be for a projection that stores its
  position.
* **Proofs** left: deadlock freedom and `EveryCallReturns` stay with TLC. That
  `DynamoStateStore` keeps what a table with stale reads can keep is neither stated
  nor proved; the run shows what it does not keep.
* **Out of scope**: the configuration records, the container test kits, connection
  strings, and the protobuf registry.
