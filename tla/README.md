# TLA+ specifications of Scylla

This directory models parts of Scylla in TLA+. TLC checks the models on small
instances; TLAPS proves the main results for every number of replicas,
coordinators and rounds. Paths below are relative to the repository's source
tree.

`PROJECT.json` holds the exact correspondence: for each definition the lines it
models, for each run its properties, for each property a plausible slip in the
code that breaks it, and the hazards of the code with the properties that cover
them.

## The system and its parts

A client's request reaches a *coordinator*, `service/storage_proxy.cc`. It finds
the replicas of the partition (`locator/`), asks gossip which of them are alive
(`gms/`), and writes to or reads from enough of them for the consistency level.
A *replica* applies a mutation to the commit log (`db/commitlog/`) and a memtable
(`table.cc`, `memtable.cc`), which is flushed to sstables (`sstables/`) and merged
into the row cache (`row_cache.cc`). What a replica misses is brought back by
hints (`db/hints/`), the batch log (`db/batchlog_manager.cc`), read repair,
row-level repair (`repair/`) and streaming (`streaming/`).

| part | sources | model |
| --- | --- | --- |
| lightweight transactions | `service/paxos/`, `storage_proxy.cc` | `LwtPaxos`, one key |
| write coordination | `storage_proxy.cc`, `db/consistency_level.*` | `WriteHandler`: ordinary, counter and view writes |
| logged batches | `storage_proxy.cc:2181-2295`, `db/batchlog_manager.cc` | `Batch` |
| hinted handoff | `db/hints/` | `Hints`, one endpoint |
| commit log, flush, truncation, replay | `db/commitlog/`, `table.cc`, `database.cc` | `Storage`, which implements `DurableStore` |
| reader admission, querier cache, paging | `reader_concurrency_semaphore.*`, `querier.*`, `mutation_reader.cc` | `Readers`, one shard |
| cell locks, counters | `cell_locking.hh`, `counters.*`, `database.cc` | `Counters`, one partition on its leader |

The models meet at their edges. `WriteHandler` offers hints to the manager that
`Hints` models, and sends the mutations of `Batch`, `LwtPaxos` and `Counters`;
each of these keeps of it what it relies on: acknowledgements, failures and
timeouts. `Storage` is what `LwtPaxos`, `Batch` and `Counters` assume of a node
that crashes: what was acknowledged and synced is there afterwards.

## Modules

| module | what it is |
| --- | --- |
| `LwtPaxos` | lightweight transactions on one key |
| `LwtPaxosProofs`, `LwtPaxosAgree` | theorems about it, the second building on the first |
| `WriteHandler` | the life of write response handlers on one coordinator |
| `DurableStore` | what the storage of a node promises |
| `Storage` | the commit log, memtables, sstables and truncation that keep the promise |
| `StorageProofs` | theorems about it |
| `Readers` | admission, eviction and caching of readers on one shard |
| `ReadersProofs` | theorems about it |
| `Batch` | logged batches and their replay |
| `BatchProofs` | theorems about it |
| `Hints` | the hints of one endpoint, stored and sent |
| `HintsProofs` | theorems about it |
| `Counters` | counter updates under cell locks |
| `CountersProofs` | theorems about it |
| `MCLwtPaxos`, `MCWriteHandler`, `MCStorage`, `MCReaders`, `MCBatch`, `MCHints`, `MCCounters` | instances for TLC |

### LwtPaxos

State. `paxos[a]` is replica *a*'s row of `system.paxos` for the key: the promised
ballot, the accepted proposal and the most recent commit, each merged by
timestamp as the cells of the table are. `data[a]` is the row of the base table;
a value is named by the ballot of the update that wrote it. `loaded[a]` is what
`paxos_state::prepare()` has read and not yet answered. `net` holds the requests
that were sent. `co[c]` is coordinator *c*'s `paxos_response_handler` with the
locals of its continuations. `promises`, `votes`, `base`, `seen` and `refused` are
history that the properties and the proofs speak of; no guard of a coordinator
reads them, and `Accept` reads `votes` only to handle each request once.

| action | code |
| --- | --- |
| `Begin` | `cas()`, `get_paxos_participants()`, the coordinator lock |
| `PrepareBallot` | the head of the loop of `begin_and_repair_paxos()` |
| `PrepareLoad`, `PreparePromise` | `paxos_state::prepare()`, before and after the row is read |
| `OnPromises`, `OnOutdated` | `prepare_ballot()` and what follows it: replay, repair, read, or sleep and restart |
| `ReadReply`, `ReadRepair` | the QUORUM read of `cas()` and the writes of its read repair |
| `Accept`, `OnAcceptReplies` | `paxos_state::accept()`, `accept_proposal()` |
| `LearnApply`, `LearnSave`, `LearnDone` | `paxos_state::learn()`, `learn_decision()` |
| `Fail` | a timeout or too many errors, at any stage |
| `ReplicaRestart` | a replica stops and comes back with what it had written |

`prepare()` is two steps because `learn()` does not take the key's lock and can
run between them. `accept()` is one: it holds the lock, and `learn()` does not
write the promised ballot.

A request is never removed from `net`. One that is lost is never handled, a late
one is handled after its coordinator has given up, and an answer nobody waits
for is dropped. A replica that stops between the two steps of `learn()` does not
take `LearnSave`. A serial read is a CAS whose condition is not met. Whether a
condition is met is a free choice. A coordinator goes on without
waiting for its read repair, or for the repair of missed commits, which is a
write at level ANY; this allows more than the code does.

`net` keeps one message for all the replicas it goes to. A coordinator gives up
only while there are ballots left for the next one (`MaxTs`): a request that fails
at the end of the supply has no effect anybody could see.

Left out: the expiry of `system.paxos` rows, truncation during `learn()`, and
`LOCAL_SERIAL`. A coordinator remembers its last timestamp only within a request.

### WriteHandler

State. `proxy.handlers[w]` is an `abstract_write_response_handler` with the sends
of its rpcs, the caller's promise and what became of hints.
`proxy.throttled_writes`, `background` and `queued` are the queue and the gauges
of `storage_proxy`. `net` holds mutations and their answers. `outcome` is history:
what each replica did with each write.

| action | code |
| --- | --- |
| `Prepare` | `mutate_prepare()`, `create_write_response_handler_helper()`, `assure_sufficient_live_nodes()` |
| `Start` (`Begin`, `BeginCancelled`) | `mutate_begin()` with `hint_to_dead_endpoints()` and `send_to_live_endpoints()` |
| `SendEnds` (`ApplyLocally`, `SendDone`, `SendFailed`) | the continuations of each send |
| `HandleWrite` | `handle_write()` on a replica: apply, forward, answer |
| `Arrives` (`MutationDone`, `MutationFailed`) | the answers' verbs, `got_response()`, `got_failure_response()` |
| `TimerFires` | the expiry timer and `timeout_cb()` |
| `WakeUp` | the end of the sleep in `delay()` |
| `GiveUpView` | `on_down()` and `drain_on_shutdown()` |

One action is one run of the reactor without preemption: the destructor, the
removal of the handler and the release of throttled writes belong to the action
that causes them.

Abstractions. A mutation has size 1. The view backlog decides only whether an
answer is delayed. Whether the hints manager accepts a hint is a free choice
where `can_hint_for()` may allow it. The keyspace uses
`network_topology_strategy`. One call of `mutate()` has one mutation: the
handlers of a vector are independent. A write that is refused as unavailable or
overloaded is one that is not created. The rpcs of one send loop are queued
together. Answers on one connection keep their order. Level THREE is left out,
being to TWO what TWO is to ONE. The handlers of read repair are left out, and
those of `learn` are in `LwtPaxos`.

### Storage and DurableStore

`DurableStore` is the promise: a set of writes that reads show, some of which are
firm (they outlive crashes) and some dead (a completed truncation removed them for
good). `Storage` is the implementation, and its `Durable` is `DurableStore!Spec`
under the mapping `shown <- Shown`, `up <- (phase = "up")`; `firm` and `dead` are
history that `Storage` keeps.

State. A write is logged at most once: `rp[w]` is its replay position, `seg[w]` the
file that holds its entry. `st` and `dirty` are the segments with `_cf_dirty`.
`active`, `sealed`, `retired` and `sstables` are the memtables and sstables of a
part, which is a table on a shard; `retired` memtables are in an sstable but their
log positions are not discarded yet. `highest`, `lowest` and `trunc` are the marks
and the stages of a truncation, `record` is `system.truncated`.

| action | code |
| --- | --- |
| `Allocate`, `Sync`, `CloseSegment`, `DeleteFile` | `segment_manager::allocate_when_possible()`, `segment::sync()`, `close()`, `delete_segments()` |
| `Apply`, `ApplyReordered`, `AbandonApply`, `AbandonSync` | `database::apply_with_commitlog()`, `table::do_apply()` and their failures |
| `Seal`, `WriteSSTable`, `DiscardLog`, `Compact` | `seal_active_memtable()`, `try_flush_memtable_to_sstable()`, `discard_completed_segments()`, a compaction |
| `RequestTruncate` ... `Truncated` | `truncate_blocking()`, `database::truncate()`, `discard_sstables()`, `save_truncation_record()` |
| `Crash`, `Replay`, `Serve` | the loss of memory; `commitlog_replayer`; the flush in `main.cc` before clients come |

Left out: views and counters, encryption, the row cache, streaming memtables, and
truncation without a snapshot. `PromptCleanup` excludes truncations that begin
while replayed files are still being deleted in the background (see Observations).

### Readers

State. `avail`, `wait`, `inactive` and `next_id` are the members of
`reader_concurrency_semaphore`; `entries` is the querier cache in the order of
insertion; `pc`, `permit`, `units` and `handle` belong to a reader. `closing` is a
permit that outlives its reader because a file is closed in the background.

| action | code |
| --- | --- |
| `WaitAdmission`, `RejectAdmission`, `Expire` | `wait_admission()`, the queue limit, the timer of the wait list |
| `Consume`, `Free`, `Close` | `memory_units`, the destructor of the permit |
| `StartPage`, `EndPage`, `NextPage`, `Finish`, `Forget` | a query with its pages: `insert_querier()`, `lookup_querier()` |
| `Pause`, `Resume`, `Stop` | `reader_lifecycle_policy`, as the multishard reader calls it |
| `ScanCacheEntries`, `EvictOne`, `EvictAllForTable`, `TryEvictOneInactiveRead` | the evictions |

`Signal` is part of every action that gives resources back, as `signal()` is of
every release in the code. How much memory the cached queriers use and whether a
querier matches its lookup are choices.

### Batch

State. `pc`, `endpoints`, `targets` and `acked` are `mutate_atomically()`'s context
and the write handlers of the batch; `row` is `system.batchlog` on each node;
`replay`, `confirmed` and `refused` a lap of a node's `batchlog_manager`. `obstacle`
says why laps do not write a batch any more.

| action | code |
| --- | --- |
| `Begin`, `Unavailable`, `Timeout` | `mutate_atomically()`, `endpoint_filter()`, `sync_write_to_batchlog()` |
| `Store`, `Apply`, `Delete` | a message arrives; `Store` lets the mutations go, `Apply` completes the batch and sends the removal |
| `Lose`, `Refuse`, `Crash`, `Restart` | faults |
| `Lap`, `Replayed` | `replay_all_failed_batches()` |
| `Skip` | the nodes get another version, or a table of the batch is dropped: laps skip or keep its row |
| `DropKeyspace` | a keyspace is dropped while laps are between `find_schema()` and `mutate()`: they remove the row |

The client's own messages need no `Lose`: nothing makes them arrive. A message that
is under way when its table is dropped may be refused or applied. Hints, level ANY
and the truncation of tables of a batch are left out.

### Hints

State. A segment is the sequence of its hints. `run` is the life of the endpoint's
manager, with the stages of a drain. `store` is `_hints_store_anchor`: absent, open, or
still there after it failed to be shut down. `active` is what the open commit log of
the endpoint holds, `disk` its closed segments, `todo` the length of
`_segments_to_replay`. `rp` is `_last_not_complete_rp`, `mapping` the column
mapping of the first segment's schema. `file` is one call of `send_one_file()`: its
cursor, `rps_set`, what is in flight and the flags of its state. `cut` is history: what
cut a drain short.

| action | code |
| --- | --- |
| `StoreHint`, `AddEntry` | `store_hint()`, with `get_or_load()` and `add_store()` if there is no store |
| `FlushMaybe` (`Flushed`, `FlushFails`) | `flush_current_hints()`: the commit log is shut down and created again, and either may fail |
| `SendOneFile`, `Skip`, `CannotSend`, `SendOneHint`, `Sent`, `SendFailed` | `send_one_file()`, its subscription, `send_one_hint()` |
| `EndOfFile`, `ReadFails`, `FileFailed`, `FileDone`, `DeleteFails` | the end of `send_one_file()`: corrupted or unreadable files, the restart position, the deletion |
| `Stop`, `Stopped`, `Drain`, `PassEnds`, `DrainFlush` | `stop()` of the manager and its sender: the two passes of a drain and the flush between them |
| `AllowReplaying`, `Crash`, `Restart`, `EndpointDown`, `EndpointUp` | the life of the node and of the endpoint |

The limits on memory and disk only refuse hints, and rebalancing between shards
only moves files; both are left out, as is a manager whose `start()` fails.

### Counters

State. `cells` are the `cell_entry` objects of a partition by column id: who holds
the lock, then who waits. `mem` is the local shard of each column, `log` what a replay
of the commit log makes of it, `failed` is `_failed_counter_applies_to_memtable`. The
value of a shard is the set of updates it counts. `stale` and `hidden` mark the three
cases that the code does not handle (see Observations).

| action | code |
| --- | --- |
| `LockCells`, `Granted`, `LockTimeout` | `lock_cells()`, `lock_next()`, the timeout of a semaphore |
| `Transform`, `AddEntry`, `ApplyInMemory` | `do_apply_counter_update()`, `transform_counter_updates_to_shards()`, `apply_with_commitlog()` |
| `AddEntryFails`, `SyncTimeout`, `ApplyThrows`, `MemoryTimeout` | failures at each step |
| `Crash` | the loss of memory and the replay of the log by `commitlog_replayer` |
| `SetSchema` | `table::set_schema()`, which moves the ids that locks are keyed by |

Dropping a column and truncating the table are left out, and with them an update that
is dropped for having raced with a truncation (`maybe_handle_reorder()`).

## Runs

All runs finish within five minutes with two workers. `CHECK_DEADLOCK` is off in
all of them because the systems may stop: an instance has a bounded number of
writes, ballots, hints and identifiers, and nothing is left to do when they are
used up.

### Lightweight transactions

| run | instance | states | shows |
| --- | --- | --- | --- |
| `lwt_duel` | 3 replicas, 2 coordinators, 2 timestamps | 417,927 | `TypeOK`, `NoLostUpdate`, `AnswersAreCurrent`, `OnlyChosenIsVisible`, `RefusedNeverChosen`, `AcceptedIsRemembered` |
| `lwt_rounds` | 1 natural and 1 pending endpoint, 3 timestamps | 164,577 | `NoLostUpdate`, `AnswersAreCurrent` |
| `lwt_ties` | 3 replicas, 2 ballots of one timestamp, 4 views of who is alive | 226,250 | `OneProposalPerTimestamp` |

- `NoLostUpdate`: each update that a quorum accepts was computed from an update
  accepted before it, and no two from the same row.
- `AnswersAreCurrent`: an answer is not older than what any client had been
  told before the request began.
- `OnlyChosenIsVisible`: neither a base table nor a decision in `system.paxos`
  shows an update that no quorum accepted.
- `RefusedNeverChosen`: an update that `accept_proposal()` reports as rejected is
  never finished by somebody else. `cas()` relies on it to try again.
- `AcceptedIsRemembered`: late and reordered decisions, which erase the accepted
  proposal, never make a replica forget.
- `OneProposalPerTimestamp`: ballots are compared by timestamp only, and yet two
  coordinators never both propose under one.

Bounds. Three replicas are the least with a quorum that is not everyone. Two
timestamps and two coordinators let each be overtaken by the other; three
timestamps let a round follow a repaired one. The duel counts two
acknowledgements as learned (`LearnBlockFor`), the rounds one, so that a decision
reaches only one replica before the client hears of it. Replicas and
coordinators are symmetric.

### Writes

| run | instance | states | shows |
| --- | --- | --- | --- |
| `write_throttle` | 3 writes, 2 replicas, level ONE, tightest limits | 238,252 | `TypeOK`, `AnsweredOnce`, `BackgroundExact`, `NobodyLeftThrottled` |
| `write_liveness` | 2 writes, the same limits, fairness | 19,581 | `EveryWriteAnswered` |
| `write_levels` | 1 client's or view's write, 2 datacenters with 1 and 3 replicas, 7 levels, a joining node | 73,616 | `SuccessIsConsistent`, `FailureIsHopeless`, `StragglersHinted`, `CompletesOrTimesOut` |

- `AnsweredOnce`: a promise is set at most once, and has been set when its handler
  is gone, in every order of acknowledgements, delays, failures and the timer.
- `BackgroundExact`, `NobodyLeftThrottled`: the gauge that throttles clients counts
  what it says, and no write stays throttled when its reason is gone.
- `SuccessIsConsistent`: as many *natural* endpoints as the level asks for have
  applied a successful write; a pending endpoint never stands in for one.
- `FailureIsHopeless`: a write fails only when its level is out of reach.
- `StragglersHinted`: when a successful write is over, each of its replicas has
  acknowledged it or was offered to the hints manager.
- `CompletesOrTimesOut`: no promise is dropped without an answer, but in one case at
  level ANY (see Observations).
- `EveryWriteAnswered`: every started write is answered.

Bounds. Throttling is a matter between writes, so `write_throttle` has three, with
limits that one background write or two queued rpcs exceed. Consistency levels
are a matter of one write, so `write_levels` has one, with a forwarding group of
three and a local datacenter whose quorum the joining node could spoil. The
writes, and the replicas of the remote datacenter, are symmetric.

Fairness. `EveryWriteAnswered` assumes that the coordinator's own steps are run:
the continuation that starts a prepared write, the end of each send, the expiry
timer and the end of a sleep. The reactor and its timers give that. Nothing is
assumed of the network or of replicas: answers may never come.

### Storage

| run | instance | states | shows |
| --- | --- | --- | --- |
| `storage` | 2 writes (one waits for the disk), 2 tables, 1 shard, 2 segments, 2 crashes, 1 truncation | 341,364 | `Durable`, `StorageInv`, `DirtyCountsHandles` |
| `storage_shards` | 1 write, 1 table, 2 shards | | violates `TruncatedStaysGone` |

- `Durable`: the implementation of `DurableStore`. A write that was acknowledged and
  synced or flushed stays visible whatever is flushed, compacted, discarded from
  the log or crashes, unless a truncation covers it; and what a completed
  truncation covered never returns.
- `StorageInv`: the inductive invariant behind it. Its parts say where firm writes
  can be found after a crash (`FirmInv`), and how a truncation sweeps the writes it
  dooms out of memtables, sstables and the replayed part of the log (`DeadInv`).
- `DirtyCountsHandles`: a segment counts exactly the handles that are alive, so that
  it is neither deleted early nor kept for ever.

Bounds. Two writes make two memtables, a compaction and a segment with a synced
prefix; two tables let one segment hold entries of a truncated table and of
another; the second crash is one during or after replay.

### Reads

| run | instance | states | shows |
| --- | --- | --- | --- |
| `readers` | 2 queriers of one table, 1 shard reader, 2 permits, queue of 2 | 18,893 | `NoInactiveWhileWaiting`, `WaitersCannotProceed`, `ResourcesAddUp`, `EntriesAreRegistered`, `AdmittedInOrder`, `EveryWaiterServed` |

- `NoInactiveWhileWaiting`, `WaitersCannotProceed`: no reader waits for what an
  idle one holds, and no wakeup is lost.
- `ResourcesAddUp`: permits and memory are neither lost nor made up by evictions.
- `EntriesAreRegistered`: the cache and the semaphore agree on which queriers are
  cached; an entry that is not registered could never be evicted.
- `AdmittedInOrder`, `EveryWaiterServed`: admission is first come first served, and
  everyone is admitted, fails or times out.

Fairness: a page ends, because the data it reads is limited and reads time out, and
files are closed in the end. The expiry timer is not assumed.

Bounds. Three readers for two permits: one waits, or one must be evicted. A reader
with a buffer takes two of the two units of memory, so that count and memory run
out in different orders.

### Batches, hints and counters

| run | instance | states | shows |
| --- | --- | --- | --- |
| `batch` | 4 nodes in 2 racks, 1 batch of 2 mutations with 2 and 1 replicas, 1 fault or obstacle | 93,890 | `BatchInv`, `RemovedWhenWhole`, `PartialIsRecoverable`, `LogIsEmptied` |
| `hints` | 3 hints, 2 faults | 144,103 | `HintsInv`, `NoHintForgotten`, `MappingsAreFound`, `DrainIsComplete`, `HintsAreSent` |
| `counters` | 3 updates of 2 columns, 3 versions of the schema, 2 faults | 43,471 | `TypeOK`, `NoUpdateLost`, `ReplicasAgree`, `LocksAreGranted` |

- `RemovedWhenWhole`: no row of the batch log is removed before all mutations of the
  batch are on enough replicas; `PartialIsRecoverable`: while a batch is applied in
  part, some node has it in its log. Both except a batch whose keyspace was dropped
  while a lap held it. `LogIsEmptied`: every row is removed in the end, unless its lap
  hangs or has to skip it (see Observations).
- `NoHintForgotten`: a hint leaves the disk only if it was sent, or given up for a
  reason the code has; `MappingsAreFound`: an attempt that resumes in the middle of a
  file still has the column mapping of its first hint; `DrainIsComplete`: a drain
  that nothing cuts short leaves nothing behind; `HintsAreSent`: every hint is sent or
  given up in the end, unless a drain left it or nothing lists its segment (see
  Observations).
- `NoUpdateLost`: an acknowledged increment is counted; `ReplicasAgree`: no clock of a
  shard is used for two values, and the leader never falls behind what it sent;
  `LocksAreGranted`: lockers of several cells do not wait for each other in a circle.

Bounds. Three hints in one file let the middle one fail while its neighbours
succeed; a fault each for the failure and for a crash of the next attempt. Two
mutations make a batch that can be applied in part; its batch log rows are drawn
from the other rack, one of whose nodes is a replica as well. Three updates of two
columns are the least for a queue of two at a lock, and the schema changes move
each column's id onto that of the other.

Fairness. Batches: the messages of a replay arrive if they are not lost, laps are
run one after the other, and nodes come back. Hints: the sender's loop and `stop()` run
on, a node that is down is started and allows the replay, and an endpoint that is down
returns or leaves. Faults are bounded, so a flush or a file that fails does not fail for
ever. Counters: continuations that are ready run; timeouts
are not needed.

## Findings

One statement of the repository that the code does not keep has a run:

- `storage_shards`: `docs/system_keyspace.md` says that replay filters mutations by
  the saved positions "to ensure truncated data is not resurrected". A shard that
  has written nothing since the start saves the empty position, whose `shard_id()`
  is 0, so that its row overwrites the position that shard 0 has saved. After a
  crash shard 0 replays what was truncated.

### Observations

Disagreements and limits that were met while modelling, without a run of their own.

Lightweight transactions:
- `storage_proxy.cc:778` says that a retry uses a ballot above the rejecting one; a
  rejected prepare restarts before `min_timestamp_micros_to_use` is raised (798), so
  the next ballot can be as old. This costs progress, not safety.
- `prepare_summary.hh:69` describes a rejection for a newer decision;
  `paxos_state.cc:68` compares with the promised ballot only. The round cannot
  succeed anyway: every quorum has a replica that promised the decision's ballot.

Writes:
- A view update that is cancelled between `mutate_prepare()` and `mutate_begin()` is
  reported as done though no hint was tried (`storage_proxy.cc:1891`, 486, 2314).
- `mutate_begin()` says that a write "will either complete or timeout" (1906). At level
  ANY nothing checks that enough endpoints are alive (`consistency_level.hh:181`), and a
  write needs one acknowledgement or hint more than it has pending endpoints (379). When
  no more endpoints than that are alive or hinted, be it that the pending endpoint is
  dead or that the natural ones are, the last acknowledgement of a live one removes the
  handler (451, 1239) and its promise is dropped unset.
- The failure a replica reports after its own acknowledgement, because it could not
  forward, is discarded as outdated (458, 4573, 4614).

Storage:
- The assertion of `database.cc:1780` can fail when a table is truncated twice. If a
  write is applied and discarded during the first truncation and an older one is
  applied after it, the second truncation has the position of the former as its low
  mark and finds only sstables of the latter.
- A write that was logged before a truncation and applied after it has a position
  below the saved one if the low mark or the sstables passed it; replay skips it.
- `main.cc:885` deletes the replayed files in the background. A truncation before
  that is done saves a position of this run, which does not cover those of the last
  one. `PromptCleanup` excludes the case.
- With `auto_snapshot` off, `truncate()` clears the memtables instead of flushing them.
- A flush that fails while the table is being stopped is given up
  (`table.cc:1004`), and its log positions with it.

Batches and hints:
- A replay writes with `db::no_timeout` (`batchlog_manager.cc:273`). When an
  acknowledgement is lost its lap never ends, and the timer is not armed again.
- A row of the batch log whose version is not the node's (199-208), or with a table that
  was dropped (235, 280), is passed over by every lap and never removed.
- `no_such_keyspace` removes the row (278). `find_schema()` does not throw it for a
  keyspace that is already gone, but `mutate()` does if the keyspace is dropped in
  between: the mutations of the batch to other keyspaces are then lost.
- `storage_proxy.cc:2176` wants hints to be written before the batch is removed from
  the log; the removal does not wait for them.
- `endpoint_filter()` draws racks from a list that names a rack once for each of its
  nodes, so both endpoints may be one node.
- A corrupted hints file is dropped with the readable hints that were not sent.
- The comment in `sender::stop()` (`hints/manager.cc:625`) says that after a drain there
  are no more pending hints. Hints are left when replay is not allowed yet, when one of
  the passes throws, and when the flush between them fails, which is ignored (631).
- When re-creating the store fails after a flush (361), the segments that the flush closed
  are in no list. Later flushes do nothing without a store: they are sent only after another hint
  is stored or the node restarts.

Counters:
- An update that times out waiting for dirty memory, after its entry is in the log,
  does not count in `_failed_counter_applies_to_memtable`. The next update of the
  cell uses the same clock, and one of the two is lost by a replay of the log.
- A sync of the commit log that times out in `batch_cycle()` is left behind
  (`commitlog.cc:818-820`). The update fails, but its entry may be in the log, with the
  same consequence.
- A locker that waits while a column is added goes on with the old ids. It may lock
  another column's cell, or wait for itself.
- `operations_waiting_for_lock` is not decremented when a wait times out.

## Proofs

### Lightweight transactions

The constants are arbitrary but for `LwtAssumption`: finite, disjoint sets of
natural and pending endpoints, at least one natural, at most one pending, and
positive nonces. Nothing is assumed of clocks, of the order of messages, or of
which replicas answer.

- `TypeCorrect`: `TypeOK`. It is inductive by itself. Besides types it says that
  from "prepare" on a request has a ballot and from "accept" on an update, which
  the messages' types need.
- `Remembered`: `AcceptedIsRemembered`, inductive together with the types. The
  argument is in `WritesRemember`: no write to `system.paxos` lowers the newest
  timestamp a row shows, and `save_paxos_proposal()` raises it to the proposal's
  even where a tombstone shadows the cells.
- `OnlyChosenVisible`: `OnlyChosenIsVisible`. It is not inductive: rows are written
  from messages, messages are sent after counting answers. `VisibleInv` adds that
  learn and repair messages carry chosen updates; that what a replica has loaded
  and what a promise answers is visible; that an `accepted` answer is a vote really
  cast; and that a proposing coordinator has sent its proposal to all its
  participants. The step that matters is `AcceptedIsChosen`: a quorum of accepted
  answers makes the proposal chosen; `ChosenGrows` keeps it so.
- `Agreement`: `AgreeInv`, the inductive invariant behind the next four. None of
  their properties is inductive: that two updates are not computed from one row
  depends on what replicas had promised when the rows were read. It is stated with
  `Blocked(b)`, "a quorum has promised something newer without accepting b", which
  once true stays true (`BlockedGrows`) and excludes that b is ever chosen
  (`ChosenNotBlocked`). `SafeAfter` relates the proposals of any two ballots: the
  older is blocked, or the newer repeats its update, or the newer has an update
  computed from one at least as new. The other parts carry what the step needs that
  sends a proposal: a proposal's ballot was promised by a quorum (`PromiseInv`,
  `ProposalOK`); rows, loaded rows and promise answers show every older acceptance of
  their replica (`LoadOK`, `Shows`); a base table is at least as new as the decision
  beside it (`RowOK`, which is why `learn()` must write the table first); and a quorum
  of the natural endpoints has a row no older than whatever may be chosen under an
  older ballot while the coordinator reads (`ReadOK`). `FloorOK` says
  that a quorum had promised the ballot of what was last answered before the request
  drew its own, so that any quorum of promises for the request comes after it.
  `LwtPaxosProofs` has the invariant, what no step takes back (`Grows` and the
  lemmas named Stable), the steps of replicas, and those of a coordinator that propose
  nothing; `LwtPaxosAgree` proposals, the answers to them, and what follows the
  promises: replay, repair and the read. The quorum arithmetic of
  `get_paxos_participants()` enters in `QuorumsMeet`, `ReadsMeet` and `QuorumReads`:
  with at most one pending endpoint, the natural endpoints of a quorum are a quorum
  of the natural endpoints.
- `UpdatesForAChain`: `NoLostUpdate`. Of two chosen updates neither ballot is blocked,
  so the later was computed from the earlier or from something newer.
- `LinearAnswers`: `AnswersAreCurrent`, from `FloorOK` and `ReadOK`.
- `RefusedStaysLost`: `RefusedNeverChosen`. Whoever repeats an update has seen it
  accepted by somebody (`ProposalOK`), and everyone who was asked to accept a refused
  update rejects it, now and later (`RejectsGrows`).
- `OneProposalEach`: `OneProposalPerTimestamp`. Two quorums share a replica, and no
  replica promises two ballots of one timestamp.

### Storage

`StorageAssumption`: finitely many writes, shards are natural numbers and 0 is one of
them, bounds are natural numbers. The proofs are long because every action moves
writes between several places; they are layered as the invariant is.

- `KeepInvariant`: `KeepInv`, for any number of shards. `LogInv` has the positions,
  files and marks. `TableInv` says what memtables and sstables hold and that no two
  memtables share a handle; without it `HandleInv` is not inductive, since the end of
  one flush could take the other's handle. `HandleInv` has the counts, and that a
  handle keeps its segment. `FirmInv` says that a firm write is in an sstable, or in
  memory and in the part of the log that replay reads; and that writes which no
  truncation overlapped are above the saved positions (`Covered`), which the step that
  makes a write firm needs.
- `CountsExact`: `DirtyCountsHandles` is a conjunct of it.
- `FirmIsShown`: what is firm is shown while the node is up.
- `StorageInvariant`: `StorageInv`, which adds `DeadInv`: what a
  truncation dooms is swept, stage by stage, below the low mark, out of memory, out of
  the sstables and under the saved position. It assumes `Shards = {0}`, because the
  record of an empty shard replaces another's (run `storage_shards`), and
  `PromptCleanup = TRUE`, because a truncation that begins while replayed files remain
  does not cover their entries (see Observations).
- `StaysGone`: under these assumptions `TruncatedStaysGone` holds.
- `Refinement`: `Durable`, under the same assumptions. Each action is a step of
  `DurableStore` or leaves `Shown`, `firm` and `dead` alone; `StorageInv` before and
  after the step gives the conditions on what may appear and disappear.

### Readers

`ReadersAssumption`: finite sets of queriers and shard readers, positive `Count` and
`Memory`, and natural numbers for the other limits. Any number of readers, pages, buffers, evictions and late closes.

- `ReadersInvariant`: `ReadersInv`, the inductive invariant. `Core` has the wait list:
  its readers are distinct, wait, and hold no permit (`Waiters`); while there is one,
  nothing is inactive and the first does not fit. It also has the balance of the
  resources: available, held by readers, by files being closed and by buffers.
  `Registry` is what eviction needs: ids are never used twice, the handle of a reader
  leads to its own inactive read or to none, every cache entry has its inactive read
  and every inactive read of a querier its cache entry. Without it `ResourcesAddUp` is
  not inductive, because an eviction could return the resources of a reader twice.
- `EvictsBeforeQueueing`, `NoLostWakeup`, `NothingLeaks`, `CacheAgrees`, `ReadersTypeOK`:
  the properties of the run `readers` and the types follow from it.
- `FirstComeFirstServed`: `AdmittedInOrder`, an action property. `signal()` admits a
  prefix of the wait list (`FirstOf`), and every step that admits anybody does so there
  or with an empty list; each lemma about an action shows both the invariant and this.

The sums of buffers and permits are handled by `SumRemove`, `SumSame` and `SumNat`; what
`Without()` leaves of a list, by a smallest counterexample as for the counters.

### Hinted handoff

`HintsAssumption` only says that the bounds are natural numbers, so the theorems
hold for any number of hints, segments, attempts, crashes and failed sends.

- `HintsInvariant`: `HintsInv`, the inductive invariant, which the run `hints` also
  checks. `SentInv` has the argument about positions. What comes before
  `_last_not_complete_rp` is done. Before the cursor everything is done or in flight
  until something fails. After a failure, what is neither done nor in `rps_set` lies
  behind all of `rps_set`, because the sender stops adding to it: therefore its
  smallest element is a safe place to resume (`SentStep`, `FileFailed`). This last
  part does not hold while draining, which goes on after a failure; a drain does not
  resume. `MappingInv` has the column mappings. `DrainInv` follows a drain: its first
  pass empties the list unless it is cut short, so the flush lists all there is, and the
  second pass removes it.
- `NoneForgotten`, `MappingsFound`, `DrainComplete`: `NoHintForgotten`,
  `MappingsAreFound` and `DrainIsComplete` follow from `HintsInv` and one step.

### Logged batches

`BatchAssumption`: finitely many nodes, every mutation has a batch and a set of
replicas at least as large as what the level waits for.

- `BatchInvariant`: `BatchInv`, the inductive invariant, which the run `batch` also
  checks. `AckInv` says that the coordinator and every lap of replay count only
  replicas that have the mutation; `HandlerInv`, that a mutation of the client is on
  its way only after the batch log was written and, while the handler lives, only to
  the replicas it was made for; `LoggedInv`, that a mutation which was sent or applied
  has been in some node's batch log.
- `RowsStayUntilWhole`: `RemovedWhenWhole`. A row is deleted by a message that the
  coordinator sent when each mutation had its acknowledgements, or at the end of a
  replay with all replicas of each (`RemovedStep`), or by a lap under which a keyspace of
  the batch was dropped; a batch that is whole, or was dropped, stays so.
- `PartialRecoverable`: `PartialIsRecoverable` follows: the row that was there
  is there, or was deleted, and then the batch is whole or its keyspace was dropped.

### Counters

`CountersAssumption`: finitely many columns, numbered in the order of their names, and
ids that follow this order in every version of the schema. Any number of updates,
columns, versions, failures and crashes.

- `CountersInvariant`: `CountersInv`, the inductive invariant, in two layers. `LockInv`:
  an update is in the queue of every cell its locker came to, by the ids that the
  partition's entries have now, and behind nobody once it has all its locks; so two
  updates that read and write have no column in common (`OwnersExclude`).
  `LockNextOK` and `UpgradeKeeps` are what `lock_next()` and `upgrade()` do to queues.
  `DataInv`: the log counts for each column what the memtable counts or more, and its
  clock is above the memtable's by at most `failed`, unless an update of the column is
  between the two; the shards such an update carries are what it read with itself
  added, above every clock that is logged. This is where
  `_failed_counter_applies_to_memtable` is needed: `ThrowKeeps` raises it by the one
  step that the failed entry is ahead, and `TransformKeeps` starts above it.
  Both layers hold outside the three cases that `stale` and `hidden` mark.
- `TypeCorrect`, `IncrementsCount`, `ClocksAreUsedOnce`: `TypeOK`, `NoUpdateLost` and
  `ReplicasAgree` are parts of it.

What `Others()` leaves of a queue is proved without induction: the set of the lengths
for which the claim fails would have a smallest element (`LeastNat`), and has none.

### Only model-checked

The properties of `WriteHandler`, and liveness, which is out of the prover's reach.

## Not modelled

- Read coordination (resolvers, speculation, read repair), the row cache and MVCC,
  row-level repair: what can go wrong there is in the merging of rows, limits and
  continuity, and is lost when data is abstracted to a few values.
- Gossip, schema agreement, streaming, membership operations: the models take an
  arbitrary view of who is alive and fixed sets of replicas. A pending endpoint
  stands for a node that is joining.
- The row locks of views, the view builder, the tasks of the compaction manager, the
  synchronisation helpers of `utils/`.
- File formats, the data model, memory allocation, messaging, the front ends,
  authentication, tracing and configuration: encoding, arithmetic on bytes, or I/O.
- Induction over data and liveness are out of the prover's reach; liveness is checked
  by TLC only.
