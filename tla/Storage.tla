------------------------------- MODULE Storage -------------------------------
(***************************************************************************)
(* The storage of one node: the commit log of each shard, the memtables    *)
(* and sstables of each table, flush, compaction, truncation, crash and    *)
(* replay (db/commitlog, table.cc, database.cc, main.cc).                  *)
(*                                                                         *)
(* A write is one mutation, logged at most once: rp[w] is its replay       *)
(* position, seg[w] the segment file that holds its entry.  A part is a    *)
(* table on a shard, a column_family object.  A memtable, and the sstable  *)
(* made of it, is the set of its writes, those it holds an rp_handle of,   *)
(* and its replay position.                                                *)
(***************************************************************************)
EXTENDS Integers, FiniteSets

CONSTANTS
  Writes, Tables, Shards,
  SyncWrites,           \* writes that wait for the disk: batch mode, or force_sync
  PromptCleanup,        \* no truncation is asked for while replayed segments remain
  MaxSegments,          \* bound: segments of a shard
  MaxCrashes,           \* bound: crashes
  MaxTruncations        \* bound: truncations

Parts    == Tables \X Shards
Segments == Shards \X (1..MaxSegments)
NoSegment == <<>>
NoPart    == <<>>

ASSUME StorageAssumption ==
  /\ IsFiniteSet(Writes)
  /\ Shards \subseteq Nat /\ 0 \in Shards
  /\ SyncWrites \subseteq Writes
  /\ PromptCleanup \in BOOLEAN
  /\ MaxSegments \in Nat /\ MaxCrashes \in Nat /\ MaxTruncations \in Nat

VARIABLES
  part,                 \* the table and shard of a write
  rp, seg, last,        \* positions and files of the log's entries; the newest position
  pc,                   \* of each write: idle, logged (its rp_handle is alive), acked, failed
  synced,               \* entries that are on disk
  st, dirty,            \* of each segment: its state; the writes counted in _cf_dirty
  active, sealed,       \* of each part: the active memtable, the ones being flushed
  retired,              \*   flushed ones whose log positions are still to be discarded
  sstables,             \*   the sstable set
  highest, lowest,      \*   _highest_rp, _lowest_allowed_rp
  trunc,                \*   the truncation that runs
  record,               \* system.truncated
  phase,                \* down, replayed, up
  crashes, truncations, \* counters for the bounds
  firm, dead,           \* history: what was promised to stay, and to stay away
  tainted, doomed       \* history: writes a truncation overlapped; the ones it removes

logVars   == <<part, rp, seg, last, synced>>
tableVars == <<active, sealed, retired, sstables>>
markVars  == <<highest, lowest, trunc, record, doomed>>
runVars   == <<phase, crashes, truncations>>
vars == <<logVars, pc, st, dirty, tableVars, markVars, runVars, firm, dead, tainted>>

Memtable == [data : SUBSET Writes, held : SUBSET Writes, pos : Nat]
Empty    == [data |-> {}, held |-> {}, pos |-> 0]
Idle     == [pc |-> "idle", low |-> 0, wait |-> {}, before |-> {}, found |-> 0, remove |-> {}]

Larger(a, b) == IF a < b THEN b ELSE a

InAny(w, ms) == \E m \in ms : w \in m.data
InTable(w, p) == w \in active[p].data \/ InAny(w, sealed[p]) \/ InAny(w, sstables[p])
Shown == {w \in Writes : phase = "up" /\ \E p \in Parts : InTable(w, p)}

EntriesOf(s) == {w \in Writes : seg[w] = s}
SegmentsOf(x, state) == {s \in Segments : s[1] = x /\ st[s] = state}

WritesOf(t) == {w \in Writes : part[w] \in {t} \X Shards}
Truncating(t) == \E x \in Shards : trunc[<<t, x>>].pc # "idle"

----------------------------------------------------------------------------
Init ==
  /\ part = [w \in Writes |-> NoPart]
  /\ rp = [w \in Writes |-> 0]
  /\ seg = [w \in Writes |-> NoSegment]
  /\ last = 0
  /\ pc = [w \in Writes |-> "idle"]
  /\ synced = {}
  /\ st = [s \in Segments |-> "unborn"]
  /\ dirty = [s \in Segments |-> {}]
  /\ active = [p \in Parts |-> Empty]
  /\ sealed = [p \in Parts |-> {}]
  /\ retired = [p \in Parts |-> {}]
  /\ sstables = [p \in Parts |-> {}]
  /\ highest = [p \in Parts |-> 0]
  /\ lowest = [p \in Parts |-> 0]
  /\ trunc = [p \in Parts |-> Idle]
  /\ record = [p \in Parts |-> 0]
  /\ phase = "up"
  /\ crashes = 0 /\ truncations = 0
  /\ firm = {} /\ dead = {} /\ tainted = {}
  /\ doomed = [t \in Tables |-> {}]

----------------------------------------------------------------------------
(* The commit log.                                                         *)

(* can_delete(): closed, nothing dirty, everything on disk. *)
CanDelete(s, states, counts) ==
  states[s] = "closed" /\ counts[s] = {} /\ EntriesOf(s) \subseteq synced

(* discard_unused_segments(): such segments leave the list; their files are removed later. *)
DiscardUnused(states, counts) ==
  [s \in Segments |-> IF CanDelete(s, states, counts) THEN "condemned" ELSE states[s]]

(* An entry goes to the segment that is open, or else to a new one. *)
Allocate(w, p) ==
  /\ phase = "up" /\ pc[w] = "idle"
  /\ \E s \in SegmentsOf(p[2], "open") \cup SegmentsOf(p[2], "unborn") :
       /\ st[s] = "unborn" =>
            SegmentsOf(p[2], "open") = {} /\ \A r \in SegmentsOf(p[2], "unborn") : s[2] <= r[2]
       /\ seg' = [seg EXCEPT ![w] = s]
       /\ st' = [st EXCEPT ![s] = "open"]
       /\ dirty' = [dirty EXCEPT ![s] = @ \cup {w}]
  /\ part' = [part EXCEPT ![w] = p]
  /\ last' = last + 1
  /\ rp' = [rp EXCEPT ![w] = last + 1]
  /\ pc' = [pc EXCEPT ![w] = "logged"]
  /\ tainted' = IF Truncating(p[1]) THEN tainted \cup {w} ELSE tainted
  /\ UNCHANGED <<synced, tableVars, markVars, runVars, firm, dead>>

(* A sync ends: all entries up to where the buffer was cycled are on disk. *)
Sync(s) ==
  /\ phase = "up"
  /\ st[s] \in {"open", "closed"}
  /\ \E w \in EntriesOf(s) \ synced :
       LET written == {v \in EntriesOf(s) : rp[v] <= rp[w]} IN
       /\ synced' = synced \cup written
       /\ firm' = firm \cup {v \in written : pc[v] = "acked" /\ v \notin tainted}
  /\ UNCHANGED <<part, rp, seg, last, pc, st, dirty, tableVars, markVars, runVars, dead, tainted>>

(* The segment is full, or a write to it failed: no more entries. *)
CloseSegment(s) ==
  /\ phase = "up"
  /\ st[s] = "open"
  /\ st' = [st EXCEPT ![s] = "closed"]
  /\ UNCHANGED <<logVars, pc, dirty, tableVars, markVars, runVars, firm, dead, tainted>>

(* delete_segments(), for a segment that left the list or that was replayed. *)
DeleteFile(s) ==
  /\ phase = "up"
  /\ st[s] \in {"condemned", "old"}
  /\ st' = [st EXCEPT ![s] = "gone"]
  /\ UNCHANGED <<logVars, pc, dirty, tableVars, markVars, runVars, firm, dead, tainted>>

ReleaseHandleLeaked(w, states) ==
  /\ UNCHANGED dirty
  /\ st' = states

(* ~rp_handle(): the write no longer needs its segment. *)
ReleaseHandle(w, states) ==
  LET counts == [dirty EXCEPT ![seg[w]] = @ \ {w}] IN
  /\ dirty' = counts
  /\ st' = IF CanDelete(seg[w], states, counts) THEN DiscardUnused(states, counts) ELSE states

----------------------------------------------------------------------------
(* Writes.                                                                 *)

(* table::do_apply(), once the log has the entry. *)
Apply(w) ==
  LET p == part[w] IN
  /\ phase = "up" /\ pc[w] = "logged"
  /\ w \in SyncWrites => w \in synced
  /\ rp[w] >= lowest[p]
  /\ active' = [active EXCEPT ![p] = [data |-> @.data \cup {w}, held |-> @.held \cup {w},
                                      pos |-> Larger(@.pos, rp[w])]]
  /\ highest' = [highest EXCEPT ![p] = Larger(@, rp[w])]
  /\ pc' = [pc EXCEPT ![w] = "acked"]
  /\ firm' = IF w \in SyncWrites \cup synced /\ w \notin tainted THEN firm \cup {w} ELSE firm
  /\ UNCHANGED <<logVars, st, dirty, sealed, retired, sstables, lowest, trunc, record, doomed,
                 runVars, dead, tainted>>

(* A write older than the truncation's low mark is dropped, and reported as done. *)
ApplyReordered(w) ==
  /\ phase = "up" /\ pc[w] = "logged"
  /\ w \in SyncWrites => w \in synced
  /\ rp[w] < lowest[part[w]]
  /\ pc' = [pc EXCEPT ![w] = "acked"]
  /\ ReleaseHandle(w, st)
  /\ UNCHANGED <<logVars, tableVars, markVars, runVars, firm, dead, tainted>>

(* A timeout or an error after the entry was logged. *)
AbandonApply(w) ==
  /\ phase = "up" /\ pc[w] = "logged"
  /\ w \in SyncWrites => w \in synced
  /\ pc' = [pc EXCEPT ![w] = "failed"]
  /\ ReleaseHandle(w, st)
  /\ UNCHANGED <<logVars, tableVars, markVars, runVars, firm, dead, tainted>>

(* batch_cycle() fails, or times out: the segment is closed as well. *)
AbandonSync(w) ==
  /\ phase = "up" /\ pc[w] = "logged"
  /\ w \in SyncWrites
  /\ pc' = [pc EXCEPT ![w] = "failed"]
  /\ ReleaseHandle(w, [st EXCEPT ![seg[w]] = IF @ = "open" THEN "closed" ELSE @])
  /\ UNCHANGED <<logVars, tableVars, markVars, runVars, firm, dead, tainted>>

----------------------------------------------------------------------------
(* Flush and compaction.                                                   *)

(* The memtables of p after its active one is sealed, if it has anything. *)
SealedAfter(p) == IF active[p].data = {} THEN sealed[p] ELSE sealed[p] \cup {active[p]}

(* seal_active_memtable(), asked for by memory pressure, by the log or by an operator. *)
Seal(p) ==
  /\ phase \in {"replayed", "up"}
  /\ active[p].data # {}
  /\ sealed' = [sealed EXCEPT ![p] = SealedAfter(p)]
  /\ active' = [active EXCEPT ![p] = Empty]
  /\ UNCHANGED <<logVars, pc, st, dirty, retired, sstables, markVars, runVars, firm, dead, tainted>>

(* try_flush_memtable_to_sstable() succeeds.  When it fails it is tried again. *)
WriteSSTable(p, m) ==
  /\ phase \in {"replayed", "up"}
  /\ m \in sealed[p]
  /\ sealed' = [sealed EXCEPT ![p] = @ \ {m}]
  /\ retired' = [retired EXCEPT ![p] = @ \cup {m}]
  /\ sstables' = [sstables EXCEPT ![p] = @ \cup {[m EXCEPT !.held = {}]}]
  /\ firm' = IF phase = "up" THEN firm \cup {w \in m.data : pc[w] = "acked" /\ w \notin tainted}
             ELSE firm
  /\ UNCHANGED <<logVars, pc, st, dirty, active, markVars, runVars, dead, tainted>>

(* discard_completed_segments(), the end of seal_active_memtable(). *)
DiscardLog(p, m) ==
  LET counts == [s \in Segments |-> IF st[s] \in {"open", "closed"} THEN dirty[s] \ m.held ELSE dirty[s]] IN
  /\ phase \in {"replayed", "up"}
  /\ m \in retired[p]
  /\ retired' = [retired EXCEPT ![p] = @ \ {m}]
  /\ dirty' = counts
  /\ st' = DiscardUnused(st, counts)
  /\ UNCHANGED <<logVars, pc, active, sealed, sstables, markVars, runVars, firm, dead, tainted>>

CompactionNeverDisabled(p) == FALSE

(* run_with_compaction_disabled(), around all of truncate() on a shard. *)
CompactionDisabled(p) == trunc[p].pc \notin {"idle", "requested", "saved"}

(* Two sstables become one, with the larger of their positions. *)
Compact(p) ==
  /\ phase = "up"
  /\ ~CompactionDisabled(p)
  /\ \E a, b \in sstables[p] :
       /\ a # b
       /\ sstables' = [sstables EXCEPT ![p] = (@ \ {a, b}) \cup
                          {[data |-> a.data \cup b.data, held |-> {}, pos |-> Larger(a.pos, b.pos)]}]
  /\ UNCHANGED <<logVars, pc, st, dirty, active, sealed, retired, markVars, runVars, firm, dead, tainted>>

----------------------------------------------------------------------------
(* Truncation.                                                             *)

(* A client asks for it.  What was acknowledged before is what it promises to remove. *)
RequestTruncate(t) ==
  /\ phase = "up"
  /\ ~Truncating(t)
  /\ truncations < MaxTruncations
  /\ PromptCleanup => \A s \in Segments : st[s] # "old"
  /\ truncations' = truncations + 1
  /\ trunc' = [p \in Parts |-> IF p[1] = t THEN [Idle EXCEPT !.pc = "requested"] ELSE trunc[p]]
  /\ doomed' = [doomed EXCEPT ![t] = {w \in WritesOf(t) : pc[w] = "acked"}]
  /\ firm' = firm \ WritesOf(t)
  /\ tainted' = tainted \cup WritesOf(t)
  /\ UNCHANGED <<logVars, pc, st, dirty, tableVars, highest, lowest, record, phase, crashes, dead>>

(* database::truncate() starts on a shard: the low mark, and no more compactions. *)
SetLowMark(p) ==
  /\ phase = "up"
  /\ trunc[p].pc = "requested"
  /\ lowest' = [lowest EXCEPT ![p] = highest[p]]
  /\ trunc' = [trunc EXCEPT ![p].pc = "marked", ![p].low = highest[p]]
  /\ UNCHANGED <<logVars, pc, st, dirty, tableVars, highest, record, doomed, runVars, firm, dead, tainted>>

(* flush(), before the time of the truncation is taken and again for the snapshot. *)
FlushToTruncate(p) ==
  /\ phase = "up"
  /\ trunc[p].pc \in {"marked", "timed"}
  /\ sealed' = [sealed EXCEPT ![p] = SealedAfter(p)]
  /\ active' = [active EXCEPT ![p] = Empty]
  /\ trunc' = [trunc EXCEPT ![p].pc = IF @ = "marked" THEN "flushing" ELSE "snapshotting",
                            ![p].wait = SealedAfter(p) \cup retired[p]]
  /\ UNCHANGED <<logVars, pc, st, dirty, retired, sstables, highest, lowest, record, doomed,
                 runVars, firm, dead, tainted>>

(* That flush, and all flushes before it, are over. *)
Flushed(p) == trunc[p].wait \cap (sealed[p] \cup retired[p]) = {}

(* All shards have flushed: the time of the truncation, by which sstables are judged. *)
TakeTime(t) ==
  /\ phase = "up"
  /\ \A x \in Shards : trunc[<<t, x>>].pc = "flushing" /\ Flushed(<<t, x>>)
  /\ trunc' = [p \in Parts |->
       IF p[1] = t THEN [trunc[p] EXCEPT !.pc = "timed", !.wait = {}, !.before = sstables[p]]
       ELSE trunc[p]]
  /\ UNCHANGED <<logVars, pc, st, dirty, tableVars, highest, lowest, record, doomed,
                 runVars, firm, dead, tainted>>

(* discard_sstables(): the sstables that are not younger leave the set.  Times are *)
(* compared in seconds, so a younger one may go as well.                            *)
DiscardSSTables(p) ==
  /\ phase = "up"
  /\ trunc[p].pc = "snapshotting" /\ Flushed(p)
  /\ \E remove \in SUBSET sstables[p] : \E found \in {m.pos : m \in remove} \cup {0} :
       /\ trunc[p].before \cap sstables[p] \subseteq remove
       /\ \A m \in remove : m.pos <= found
       /\ sstables' = [sstables EXCEPT ![p] = @ \ remove]
       /\ trunc' = [trunc EXCEPT ![p].pc = "discarded", ![p].remove = remove,
                                 ![p].wait = {}, ![p].before = {},
                                 ![p].found = found]
  /\ UNCHANGED <<logVars, pc, st, dirty, active, sealed, retired, highest, lowest, record, doomed,
                 runVars, firm, dead, tainted>>

(* Their files are deleted ... *)
DeleteSSTables(p) ==
  /\ phase = "up"
  /\ trunc[p].pc = "discarded"
  /\ trunc' = [trunc EXCEPT ![p].pc = "deleted", ![p].remove = {}]
  /\ UNCHANGED <<logVars, pc, st, dirty, tableVars, highest, lowest, record, doomed,
                 runVars, firm, dead, tainted>>

(* The row of system.truncated that a position is saved in: shard_id() of the empty *)
(* position is 0.                                                                   *)
RecordKey(p, position) == <<p[1], IF position = 0 THEN 0 ELSE p[2]>>

(* ... and the position is saved, at least the low mark. *)
SaveRecord(p) ==
  LET position == Larger(trunc[p].low, trunc[p].found) IN
  /\ phase = "up"
  /\ trunc[p].pc = "deleted"
  /\ record' = [record EXCEPT ![RecordKey(p, position)] = position]
  /\ trunc' = [trunc EXCEPT ![p] = [Idle EXCEPT !.pc = "saved"]]
  /\ UNCHANGED <<logVars, pc, st, dirty, tableVars, highest, lowest, doomed,
                 runVars, firm, dead, tainted>>

(* All shards are done: the client is told that the table was truncated. *)
Truncated(t) ==
  /\ phase = "up"
  /\ \A x \in Shards : trunc[<<t, x>>].pc = "saved"
  /\ trunc' = [p \in Parts |-> IF p[1] = t THEN Idle ELSE trunc[p]]
  /\ dead' = dead \cup doomed[t]
  /\ doomed' = [doomed EXCEPT ![t] = {}]
  /\ UNCHANGED <<logVars, pc, st, dirty, tableVars, highest, lowest, record,
                 runVars, firm, tainted>>

----------------------------------------------------------------------------
(* Crash and replay.                                                       *)

HasFile(s) == st[s] \in {"open", "closed", "condemned", "old"}

(* Memory is lost.  Of the entries that were not synced each file keeps a prefix; *)
(* sstables that were being deleted may still be there.                           *)
Crash ==
  /\ phase # "down"
  /\ crashes < MaxCrashes
  /\ crashes' = crashes + 1
  /\ phase' = "down"
  /\ \E lost \in SUBSET {w \in Writes : seg[w] # NoSegment /\ w \notin synced} :
       /\ \A v \in lost, w \in Writes : seg[w] = seg[v] /\ rp[w] > rp[v] => w \in lost
       /\ seg' = [w \in Writes |-> IF w \in lost THEN NoSegment ELSE seg[w]]
       /\ synced' = {w \in Writes : seg[w] # NoSegment /\ w \notin lost}
  /\ \E back \in [Parts -> SUBSET UNION {trunc[p].remove : p \in Parts}] :
       /\ \A p \in Parts : back[p] \subseteq trunc[p].remove
       /\ sstables' = [p \in Parts |-> sstables[p] \cup back[p]]
  /\ st' = [s \in Segments |-> IF HasFile(s) THEN "old" ELSE st[s]]
  /\ dirty' = [s \in Segments |-> {}]
  /\ pc' = [w \in Writes |-> IF pc[w] = "logged" THEN "failed" ELSE pc[w]]
  /\ active' = [p \in Parts |-> Empty]
  /\ sealed' = [p \in Parts |-> {}]
  /\ retired' = [p \in Parts |-> {}]
  /\ highest' = [p \in Parts |-> 0]
  /\ lowest' = [p \in Parts |-> 0]
  /\ trunc' = [p \in Parts |-> Idle]
  /\ doomed' = [t \in Tables |-> {}]
  /\ UNCHANGED <<part, rp, last, record, truncations, firm, dead, tainted>>

ReplayedAtPosition(w) ==
  /\ seg[w] # NoSegment
  /\ st[seg[w]] = "old"
  /\ rp[w] >= record[part[w]]

(* commitlog_replayer::process(): entries of the old files are applied unless they are *)
(* below the positions of all tables, or not above that of their own.                  *)
Replayed(w) ==
  /\ seg[w] # NoSegment
  /\ st[seg[w]] = "old"
  /\ \E t \in Tables : rp[w] >= record[<<t, part[w][2]>>]
  /\ rp[w] > record[part[w]]

(* They go to the memtables without a position. *)
Replay ==
  /\ phase = "down"
  /\ phase' = "replayed"
  /\ active' = [p \in Parts |-> [data |-> {w \in Writes : part[w] = p /\ Replayed(w)},
                                   held |-> {}, pos |-> 0]]
  /\ UNCHANGED <<logVars, pc, st, dirty, sealed, retired, sstables, markVars, crashes, truncations,
                 firm, dead, tainted>>

(* flush_all_memtables() is over: the old files may go, and clients come. *)
Serve ==
  /\ phase = "replayed"
  /\ \A p \in Parts : active[p] = Empty /\ sealed[p] = {} /\ retired[p] = {}
  /\ phase' = "up"
  /\ UNCHANGED <<logVars, pc, st, dirty, tableVars, markVars, crashes, truncations, firm, dead, tainted>>

----------------------------------------------------------------------------
WriteStep(w) ==
  \/ \E p \in Parts : Allocate(w, p)
  \/ Apply(w) \/ ApplyReordered(w) \/ AbandonApply(w) \/ AbandonSync(w)
SegmentStep(s) == Sync(s) \/ CloseSegment(s) \/ DeleteFile(s)
PartStep(p) ==
  \/ Seal(p) \/ Compact(p)
  \/ \E m \in sealed[p] : WriteSSTable(p, m)
  \/ \E m \in retired[p] : DiscardLog(p, m)
TruncateStep(p) ==
  \/ SetLowMark(p) \/ FlushToTruncate(p)
  \/ DiscardSSTables(p) \/ DeleteSSTables(p) \/ SaveRecord(p)
TableStep(t) == RequestTruncate(t) \/ TakeTime(t) \/ Truncated(t)

Next ==
  \/ \E w \in Writes : WriteStep(w)
  \/ \E s \in Segments : SegmentStep(s)
  \/ \E p \in Parts : PartStep(p) \/ TruncateStep(p)
  \/ \E t \in Tables : TableStep(t)
  \/ Crash \/ Replay \/ Serve

Spec == Init /\ [][Next]_vars

----------------------------------------------------------------------------
(* Properties.                                                             *)

TruncPc == {"idle", "requested", "marked", "flushing", "timed", "snapshotting",
            "discarded", "deleted", "saved"}
Trunc == [pc : TruncPc, low : Nat, wait : SUBSET Memtable, before : SUBSET Memtable,
          found : Nat, remove : SUBSET Memtable]

(* The types of the state. *)
TypeOK ==
  /\ part \in [Writes -> Parts \cup {NoPart}]
  /\ rp \in [Writes -> Nat] /\ last \in Nat
  /\ seg \in [Writes -> Segments \cup {NoSegment}]
  /\ pc \in [Writes -> {"idle", "logged", "acked", "failed"}]
  /\ synced \subseteq Writes
  /\ st \in [Segments -> {"unborn", "open", "closed", "condemned", "old", "gone"}]
  /\ dirty \in [Segments -> SUBSET Writes]
  /\ active \in [Parts -> Memtable]
  /\ sealed \in [Parts -> SUBSET Memtable]
  /\ retired \in [Parts -> SUBSET Memtable]
  /\ sstables \in [Parts -> SUBSET Memtable]
  /\ highest \in [Parts -> Nat] /\ lowest \in [Parts -> Nat]
  /\ trunc \in [Parts -> Trunc]
  /\ record \in [Parts -> Nat]
  /\ phase \in {"down", "replayed", "up"}
  /\ crashes \in Nat /\ truncations \in Nat
  /\ firm \subseteq Writes /\ dead \subseteq Writes /\ tainted \subseteq Writes
  /\ doomed \in [Tables -> SUBSET Writes]

(* The writes whose rp_handle is alive: in flight, or kept by a memtable whose flush is not over. *)
Unflushed(p) == {active[p]} \cup sealed[p] \cup retired[p]
Held(w) == pc[w] = "logged" \/ \E p \in Parts : \E m \in Unflushed(p) : w \in m.held

(* A segment counts exactly the handles that are alive: the assertion of mark_clean() *)
(* never fails, and no segment is kept for a write that is gone.                      *)
DirtyCountsHandles ==
  \A s \in Segments : dirty[s] = {w \in Writes : seg[w] = s /\ Held(w)}

(* Replay filters by the saved positions "to ensure truncated data is not resurrected". *)
TruncatedStaysGone == Shown \cap dead = {}

(* The node keeps what it acknowledged and synced or flushed, over crashes, and what a *)
(* completed truncation removed never returns.                                         *)
Store == INSTANCE DurableStore WITH shown <- Shown, up <- (phase = "up")
Durable == Store!Spec

----------------------------------------------------------------------------
(* The inductive invariant behind Durable.                                 *)

(* Where a write, its entry and its file stand. *)
LogOf(w) ==
  /\ seg[w] # NoSegment => st[seg[w]] # "unborn"
  /\ pc[w] = "idle" => part[w] = NoPart /\ seg[w] = NoSegment /\ w \notin tainted
  /\ pc[w] # "idle" => part[w] \in Parts /\ rp[w] <= last
  /\ pc[w] = "logged" => phase = "up"
BoundsOf(p) ==
  /\ lowest[p] <= highest[p] /\ highest[p] <= last /\ record[p] <= last
  /\ trunc[p].low <= last /\ trunc[p].found <= last
  /\ phase # "up" => trunc[p] = Idle
  /\ \A m \in sealed[p] \cup retired[p] \cup sstables[p] \cup trunc[p].remove : m.pos <= last
  /\ active[p].pos <= last
LogInv ==
  /\ phase # "up" => \A s \in Segments : st[s] \in {"unborn", "old", "gone"}
  /\ synced \subseteq {w \in Writes : seg[w] # NoSegment}
  /\ \A w \in Writes : LogOf(w)
  /\ \A p \in Parts : BoundsOf(p)

(* What memtables and sstables hold, and that handles are not shared. *)
Holders(p) == Unflushed(p) \cup sstables[p] \cup trunc[p].remove
Fits(m, p) == m.held \subseteq m.data /\ \A w \in m.data : part[w] = p /\ pc[w] # "idle" /\ pc[w] # "logged"
Apart(a, ss, rs) ==
  /\ \A m, n \in ss \cup rs : m # n => m.held \cap n.held = {}
  /\ \A m \in ss \cap rs : m.held = {}
  /\ \A m \in ss \cup rs : m.held \cap a.held = {}
Handles(p) ==
  /\ phase = "down" => active[p] = Empty /\ sealed[p] = {} /\ retired[p] = {}
  /\ phase = "up" => \A m \in {active[p]} \cup sealed[p] : m.held = m.data
  /\ Apart(active[p], sealed[p], retired[p])
TableInv == \A p \in Parts : Handles(p) /\ \A m \in Holders(p) : Fits(m, p)

(* A handle keeps its segment. *)
HandleInv ==
  /\ DirtyCountsHandles
  /\ \A w \in Writes : Held(w) => seg[w] # NoSegment /\ st[seg[w]] \in {"open", "closed"}

(* Firm writes are in an sstable, or in memory and in a part of the log that replay reads. *)
(* Writes that no truncation overlapped are above the positions it saved.                   *)
InLog(w) == w \in synced /\ rp[w] > record[part[w]] /\ (phase # "up" => st[seg[w]] = "old")
InMemory(w) == w \in active[part[w]].data \/ InAny(w, sealed[part[w]])
OnDisk(w) == InAny(w, sstables[part[w]])
Covered(w) ==
  /\ pc[w] # "idle" => rp[w] > record[part[w]]
  /\ pc[w] = "logged" => rp[w] >= lowest[part[w]]
  /\ pc[w] = "acked" /\ seg[w] # NoSegment /\ st[seg[w]] \in {"open", "closed"} =>
       InMemory(w) \/ OnDisk(w)
Kept(w) == pc[w] = "acked" /\ (OnDisk(w) \/ (InLog(w) /\ (phase # "down" => InMemory(w))))
FirmInv ==
  /\ firm \cap tainted = {}
  /\ \A t \in Tables : Truncating(t) => WritesOf(t) \subseteq tainted
  /\ \A w \in Writes \ tainted : Covered(w)
  /\ \A w \in firm : Kept(w)

KeepInv == TypeOK /\ LogInv /\ TableInv /\ HandleInv /\ FirmInv

(* Dead writes are nowhere, and what is left of them in the log is below the saved position. *)
(* Doomed ones are swept there stage by stage.                                                *)
HasEntry(w) == seg[w] # NoSegment /\ HasFile(seg[w])
After(p, pcs) == trunc[p].pc \in pcs
Applied(w) == pc[w] = "acked" /\ HasEntry(w) /\ st[seg[w]] # "old" => rp[w] <= highest[part[w]]
Buried(w) ==
  /\ pc[w] = "acked"
  /\ ~InTable(w, part[w])
  /\ ~InAny(w, trunc[part[w]].remove)
  /\ HasEntry(w) => rp[w] <= record[part[w]]
Swept(w, p) ==
  /\ HasEntry(w) /\ After(p, {"marked", "flushing", "timed", "snapshotting", "discarded", "deleted"}) =>
       rp[w] <= trunc[p].low
  /\ After(p, {"saved"}) /\ HasEntry(w) => rp[w] <= record[p]
  /\ After(p, {"flushing"}) => w \notin active[p].data /\ \A m \in sealed[p] : w \in m.data => m \in trunc[p].wait
  /\ After(p, {"timed", "snapshotting"}) =>
       ~InMemory(w) /\ \A m \in sstables[p] : w \in m.data => m \in trunc[p].before
  /\ After(p, {"discarded", "deleted", "saved"}) => ~InTable(w, p)
  /\ After(p, {"deleted", "saved"}) => ~InAny(w, trunc[p].remove)
DeadInv ==
  /\ \A t \in Tables : Truncating(t) =>
       (\A s \in Segments : st[s] # "old") /\ dead \cap WritesOf(t) \subseteq doomed[t]
  /\ \A w \in Writes : Applied(w)
  /\ \A w \in dead : Buried(w)
  /\ \A t \in Tables : \A w \in doomed[t] : pc[w] = "acked" /\ part[w][1] = t /\ Swept(w, part[w])

StorageInv == KeepInv /\ DeadInv
=============================================================================
