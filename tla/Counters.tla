------------------------------ MODULE Counters ------------------------------
(***************************************************************************)
(* Counter updates on their leader: database::do_apply_counter_update()    *)
(* locks the cells of the update (cell_locker), reads the local shard of   *)
(* each, writes the incremented shards to the commit log and to the        *)
(* memtable, unlocks, and sends the shards to the other replicas.          *)
(*                                                                         *)
(* One partition of one table.  A shard's value is the set of updates      *)
(* that it counts, so that a lost or a doubled increment shows.  Columns   *)
(* may be added while updates run (set_schema()), which moves the column   *)
(* ids that the cell locks are keyed by; dropping a column is left out, as *)
(* is truncating the table, and with it an update that is dropped for      *)
(* having raced with a truncation (maybe_handle_reorder()).                *)
(* What is in the commit log outlives a crash (commitlog_sync is batch).   *)
(***************************************************************************)
EXTENDS Integers, Sequences, FiniteSets, FiniteSetsExt

CONSTANTS
  Updates,
  Columns,      \* numbered in the order of their names
  CellsOf,      \* the columns that an update increments
  IdOf,         \* of each version of the schema, the ids of the columns
  MaxFaults     \* bound: failures of the commit log and the memtable, and crashes

Versions == DOMAIN IdOf
Ids == UNION {{IdOf[v][c] : c \in Columns} : v \in Versions}

ASSUME CountersAssumption ==
  /\ Columns \subseteq Nat /\ IsFiniteSet(Columns)
  /\ CellsOf \in [Updates -> (SUBSET Columns) \ {{}}]
  /\ IdOf \in Seq([Columns -> Nat]) /\ IdOf # <<>>
  /\ \A v \in Versions : \A c, d \in Columns : c < d => IdOf[v][c] < IdOf[v][d]
  /\ MaxFaults \in Nat

VARIABLES
  schema,    \* the version of the table, and of its cell_locker
  entry,     \* the version of the partition_entry
  cells,     \* its cell_entry objects by id: who holds the lock, then who waits
  pc,        \* where each update is
  ver,       \*   the version its mutation is in
  left,      \*   the columns that its locker has not come to
  shards,    \*   the shards it is about to write
  mem,       \* the shard that a read of a column finds
  log,       \* the shards that a replay of the commit log leaves
  failed,    \* _failed_counter_applies_to_memtable
  sent,      \* shards on their way to the other replicas, for ever
  acked,     \* updates that succeeded
  stale,     \* updates whose locker went on after its ids had changed
  hidden,    \* updates that are logged, were not applied and are not in failed
  faults

lockVars == <<schema, entry, cells, ver, left, stale>>
dataVars == <<shards, mem, log, failed, sent, acked, hidden, faults>>
vars == <<pc, lockVars, dataVars>>

Shard == [value : SUBSET Updates, clock : Nat]
NoShard == [value |-> {}, clock |-> 0]
NoShards == [c \in Columns |-> NoShard]
NoCells == [i \in Ids |-> <<>>]

Init ==
  /\ schema = 1 /\ entry = 1 /\ cells = NoCells
  /\ pc = [u \in Updates |-> "idle"]
  /\ ver = [u \in Updates |-> 1]
  /\ left = [u \in Updates |-> {}]
  /\ shards = [u \in Updates |-> NoShards]
  /\ mem = NoShards /\ log = NoShards /\ failed = 0
  /\ sent = {} /\ acked = {} /\ stale = {} /\ hidden = {} /\ faults = 0

(***************************************************************************)
(* The cell locks.  A cell_entry exists while an update holds it or waits  *)
(* for it, and the partition_entry while it has a cell_entry.              *)
(***************************************************************************)
WaitsAt(u, i) == cells[i] # <<>> /\ \E k \in 2..Len(cells[i]) : cells[i][k] = u
Waiting(u) == \E i \in Ids : WaitsAt(u, i)

UpgradedNot(cs, from, to) == cs

Upgraded(cs, from, to) ==
  [i \in Ids |-> IF \E c \in Columns : IdOf[to][c] = i
                 THEN cs[IdOf[from][CHOOSE c \in Columns : IdOf[to][c] = i]]
                 ELSE <<>>]

(* lock_next(): the locker makes the entries that do not exist, which locks them, and *)
(* stops at the first one that does, in whose queue it waits.                         *)
Found(cs, u, v, todo) == {c \in todo : cs[IdOf[v][c]] # <<>>}

LockNext(cs, u, v, todo) ==
  LET found == Found(cs, u, v, todo)
      first == Min(found)
      made  == {c \in todo : found # {} => c < first}
  IN  [cells |-> [i \in Ids |->
                    IF \E c \in made : IdOf[v][c] = i THEN <<u>>
                    ELSE IF found # {} /\ IdOf[v][first] = i THEN Append(cs[i], u)
                    ELSE cs[i]],
       left  |-> {c \in todo : found # {} /\ c > first},
       pc    |-> IF found = {} THEN "locked" ELSE "locking"]

Locker(cs, u, v, todo) ==
  LET next == LockNext(cs, u, v, todo)
  IN  /\ cells' = next.cells
      /\ left' = [left EXCEPT ![u] = next.left]
      /\ pc' = [pc EXCEPT ![u] = next.pc]

(* lock_cells(), for a mutation that was just upgraded to the schema of the table.  If *)
(* the partition has no entry, or none of its cells are left, every cell is made.      *)
LockCells(u) ==
  /\ pc[u] = "idle"
  /\ ver' = [ver EXCEPT ![u] = schema]
  /\ entry' = schema
  /\ Locker(Upgraded(cells, entry, schema), u, schema, CellsOf[u])
  /\ UNCHANGED <<schema, stale, dataVars>>

(* The semaphore of the entry was signalled: the locker goes on to the next column, by *)
(* the ids of the version that it started with.                                        *)
Granted(u) ==
  /\ pc[u] = "locking" /\ ~Waiting(u)
  /\ Locker(cells, u, ver[u], left[u])
  /\ stale' = IF left[u] # {} /\ ver[u] # entry THEN stale \cup {u} ELSE stale
  /\ UNCHANGED <<schema, entry, ver, dataVars>>

(* ~locked_cell() for every lock of u: the next one in the queue has it. *)
Others(q, u) ==
  LET kept[k \in 0..Len(q)] ==
        IF k = 0 THEN <<>>
        ELSE IF q[k] = u THEN kept[k - 1] ELSE Append(kept[k - 1], q[k])
  IN  kept[Len(q)]

UnlockedUnlessWaiting(cs, u) ==
  [i \in Ids |-> IF Waiting(u) /\ cs[i] # <<>> /\ Head(cs[i]) = u THEN cs[i]
                 ELSE Others(cs[i], u)]

Unlocked(cs, u) == [i \in Ids |-> Others(cs[i], u)]

Leave(u, how) ==
  /\ pc' = [pc EXCEPT ![u] = how]
  /\ cells' = Unlocked(cells, u)
  /\ left' = [left EXCEPT ![u] = {}]
  /\ shards' = [shards EXCEPT ![u] = NoShards]
  /\ UNCHANGED <<schema, entry, ver, stale>>

(* The wait for a lock times out: the locker is destroyed with the locks it has. *)
LockTimeout(u) ==
  /\ pc[u] = "locking" /\ Waiting(u)
  /\ Leave(u, "failed")
  /\ UNCHANGED <<mem, log, failed, sent, acked, hidden, faults>>

(***************************************************************************)
(* The update, under its locks.                                            *)
(***************************************************************************)
(* counter_write_query() and transform_counter_updates_to_shards(). *)
ClockWithoutOffset(c) == mem[c].clock + 1

Clock(c) == mem[c].clock + failed + 1

Transformed(u) ==
  [c \in Columns |-> IF c \in CellsOf[u]
                     THEN [value |-> mem[c].value \cup {u}, clock |-> Clock(c)]
                     ELSE NoShard]

Transform(u) ==
  /\ pc[u] = "locked"
  /\ pc' = [pc EXCEPT ![u] = "transformed"]
  /\ shards' = [shards EXCEPT ![u] = Transformed(u)]
  /\ UNCHANGED <<lockVars, mem, log, failed, sent, acked, hidden, faults>>

(* Of two states of a shard, the one with the larger clock. *)
Merged(x, y) == IF x.clock < y.clock THEN y ELSE x

(* apply_with_commitlog(): the entry is in the log.  Replay merges the entries in their *)
(* order.                                                                               *)
AddEntry(u) ==
  /\ pc[u] = "transformed"
  /\ pc' = [pc EXCEPT ![u] = "logged"]
  /\ log' = [c \in Columns |-> Merged(log[c], shards[u][c])]
  /\ UNCHANGED <<lockVars, shards, mem, failed, sent, acked, hidden, faults>>

Fault == faults < MaxFaults /\ faults' = faults + 1

(* add_entry() fails before the entry is in the log ... *)
AddEntryFails(u) ==
  /\ pc[u] = "transformed"
  /\ Fault
  /\ Leave(u, "failed")
  /\ UNCHANGED <<mem, log, failed, sent, acked, hidden>>

(* ... or after it: batch_cycle() times out, and leaves behind a sync that may yet succeed. *)
SyncTimeout(u) ==
  /\ pc[u] = "transformed"
  /\ Fault
  /\ log' = [c \in Columns |-> Merged(log[c], shards[u][c])]
  /\ hidden' = hidden \cup {u}
  /\ Leave(u, "failed")
  /\ UNCHANGED <<mem, failed, sent, acked>>

(* The memtable has it.  The locks are released, and the mutation goes to the other *)
(* replicas (replicate_counter_from_leader()).                                      *)
ApplyInMemory(u) ==
  /\ pc[u] = "logged"
  /\ mem' = [c \in Columns |-> Merged(mem[c], shards[u][c])]
  /\ sent' = sent \cup {<<c, shards[u][c]>> : c \in CellsOf[u]}
  /\ acked' = acked \cup {u}
  /\ Leave(u, "done")
  /\ UNCHANGED <<log, failed, hidden, faults>>

(* The memtable throws: the update stays in the log, and the clocks leave it room. *)
ApplyThrows(u) ==
  /\ pc[u] = "logged"
  /\ Fault
  /\ failed' = failed + 1
  /\ Leave(u, "failed")
  /\ UNCHANGED <<mem, log, sent, acked, hidden>>

(* The wait for dirty memory times out, before table::do_apply() is called. *)
MemoryTimeout(u) ==
  /\ pc[u] = "logged"
  /\ Fault
  /\ hidden' = hidden \cup {u}
  /\ Leave(u, "failed")
  /\ UNCHANGED <<mem, log, failed, sent, acked>>

(* The node crashes, and its commit log is replayed when it starts again. *)
Crash ==
  /\ Fault
  /\ pc' = [u \in Updates |-> IF pc[u] \in {"idle", "done"} THEN pc[u] ELSE "failed"]
  /\ cells' = NoCells
  /\ left' = [u \in Updates |-> {}]
  /\ shards' = [u \in Updates |-> NoShards]
  /\ mem' = log
  /\ failed' = 0
  /\ UNCHANGED <<schema, entry, ver, log, sent, acked, stale, hidden>>

(* table::set_schema(), for a column that was added. *)
SetSchema ==
  /\ schema + 1 \in Versions
  /\ schema' = schema + 1
  /\ UNCHANGED <<pc, entry, cells, ver, left, stale, dataVars>>

Update(u) ==
  \/ LockCells(u) \/ Granted(u) \/ Transform(u) \/ AddEntry(u) \/ ApplyInMemory(u)

Next ==
  \/ \E u \in Updates :
       \/ Update(u) \/ LockTimeout(u) \/ AddEntryFails(u) \/ SyncTimeout(u) \/ ApplyThrows(u)
       \/ MemoryTimeout(u)
  \/ Crash
  \/ SetSchema

Spec == Init /\ [][Next]_vars

(* The reactor does not rest while a continuation is ready.  No timeout is needed. *)
FairSpec == Spec /\ WF_vars(\E u \in Updates : Update(u))

-----------------------------------------------------------------------------
(* The types of the variables.  No cell lock is left behind by an update that ended. *)
TypeOK ==
  /\ schema \in Versions /\ entry \in 1..schema
  /\ cells \in [Ids -> Seq(Updates)]
  /\ pc \in [Updates -> {"idle", "locking", "locked", "transformed", "logged", "done", "failed"}]
  /\ ver \in [Updates -> Versions]
  /\ left \in [Updates -> SUBSET Columns]
  /\ shards \in [Updates -> [Columns -> Shard]]
  /\ mem \in [Columns -> Shard] /\ log \in [Columns -> Shard]
  /\ sent \subseteq Columns \X Shard
  /\ faults \in 0..MaxFaults /\ failed \in 0..faults
  /\ acked \subseteq Updates /\ stale \subseteq Updates /\ hidden \subseteq Updates
  /\ \A u \in Updates :
       pc[u] \in {"idle", "done", "failed"} => ~\E i \in Ids : u \in Range(cells[i])

(* An acknowledged increment is counted, whatever ran beside it, failed before it or    *)
(* crashed after it (do_apply_counter_update()).  Three cases are excluded, as the code *)
(* does not handle them: a locker that waited while the ids of the columns changed      *)
(* (lock_next() then looks for the wrong cells), and an update that is in the commit    *)
(* log and failed without raising _failed_counter_applies_to_memtable, as its sync      *)
(* timed out or as it timed out before the memtable (its clock is used a second time).  *)
NoUpdateLost ==
  stale = {} /\ hidden = {} =>
    \A u \in acked : \A c \in CellsOf[u] : u \in mem[c].value

(* The leader never falls behind a shard that it sent to the other replicas, and for    *)
(* each clock of a shard there is one value (counter_cell_view::apply() keeps either of *)
(* two shards with equal clocks).  The same three cases are excluded.                   *)
ReplicasAgree ==
  stale = {} /\ hidden = {} =>
    \A s \in sent :
      /\ s[2].clock <= mem[s[1]].clock
      /\ s[2].clock = mem[s[1]].clock => s[2].value = mem[s[1]].value
      /\ \A t \in sent : s[1] = t[1] /\ s[2].clock = t[2].clock => s[2].value = t[2].value

(* Updates that lock several cells never wait for one another in a circle: without the *)
(* help of a timeout, all lockers get all their cells (lock_all() takes them in the      *)
(* order of their positions and ids), unless ids changed under one of them.              *)
LocksAreGranted ==
  (\E u \in Updates : pc[u] = "locking")
    ~> (\A u \in Updates : pc[u] # "locking") \/ stale # {}
=============================================================================
