------------------------------- MODULE Readers -------------------------------
(***************************************************************************)
(* Admission of readers on a shard: reader_concurrency_semaphore with its   *)
(* wait list and its inactive reads, the permits of restricting readers,    *)
(* the querier_cache that keeps queriers between the pages of a query, and  *)
(* the shard readers that a multishard reader pauses and resumes.           *)
(*                                                                         *)
(* A reader is one query, page after page: a querier on this shard, or a   *)
(* shard reader.  Memory is counted in units of new_reader_base_cost.  How *)
(* much memory cached queriers use, and whether a cached querier matches   *)
(* the page that looks it up, are choices.                                 *)
(***************************************************************************)
EXTENDS Integers, Sequences, FiniteSets, Functions

CONSTANTS
  Queriers, ShardReaders,  \* the readers
  TableOf,                 \* the table that a querier reads
  Count, Memory,           \* what the semaphore starts with
  MaxQueue,                \* _max_queue_length
  MaxUnits,                \* bound: memory of a reader's buffers
  MaxIds                   \* bound: inactive reads that are registered

All == Queriers \cup ShardReaders
Tables == {TableOf[r] : r \in Queriers}

ASSUME ReadersAssumption ==
  /\ IsFiniteSet(All) /\ Queriers \cap ShardReaders = {}
  /\ DOMAIN TableOf = Queriers
  /\ Count \in Nat \ {0} /\ Memory \in Nat \ {0}
  /\ MaxQueue \in Nat /\ MaxUnits \in Nat /\ MaxIds \in Nat

VARIABLES
  avail,      \* _resources: [count, memory]
  wait,       \* _wait_list
  inactive,   \* _inactive_reads, oldest first: [id, reader]
  next_id,    \* _next_id
  entries,    \* _entries of the querier cache, oldest first
  pc,         \* of each reader: idle, pending (it has no permit yet), waiting, active, paused
  permit,     \*   whether it has a permit
  units,      \*   memory of its buffers
  handle,     \*   the inactive_read_handle of its entry, or that it was paused with
  closing     \*   a destroyed reader whose file is still being closed, and holds the permit

vars == <<avail, wait, inactive, next_id, entries, pc, permit, units, handle, closing>>

Init ==
  /\ avail = [count |-> Count, memory |-> Memory]
  /\ wait = <<>> /\ inactive = <<>> /\ next_id = 1 /\ entries = <<>>
  /\ pc = [r \in All |-> "idle"]
  /\ permit = [r \in All |-> FALSE]
  /\ units = [r \in All |-> 0]
  /\ handle = [r \in All |-> 0]
  /\ closing = [r \in All |-> FALSE]

----------------------------------------------------------------------------
(* The semaphore.                                                          *)

(* has_available_units(), for a new reader. *)
Fits(a) == a.count >= 1 /\ a.memory >= 1
Take(a, k) == [count |-> a.count - k, memory |-> a.memory - k]

FirstOf(q, k) == {q[i] : i \in 1..k}
Rest(q, k) == SubSeq(q, k + 1, Len(q))
Without(q, T) ==
  LET kept[n \in 0..Len(q)] ==
        IF n = 0 THEN <<>>
        ELSE IF q[n] \in T THEN kept[n - 1] ELSE Append(kept[n - 1], q[n])
  IN  kept[Len(q)]

SignalOne(a, q, pcs, permits) ==
  \E k \in 0..Len(q) :
    /\ k = IF q # <<>> /\ Fits(a) THEN 1 ELSE 0
    /\ avail' = Take(a, k)
    /\ wait' = Rest(q, k)
    /\ pc' = [r \in All |-> IF r \in FirstOf(q, k) THEN "active" ELSE pcs[r]]
    /\ permit' = [r \in All |-> r \in FirstOf(q, k) \/ permits[r]]

SignalNewest(a, q, pcs, permits) ==
  \E k \in 0..Len(q) :
    /\ \A j \in 0..k-1 : Fits(Take(a, j))
    /\ k < Len(q) => ~Fits(Take(a, k))
    /\ avail' = Take(a, k)
    /\ wait' = SubSeq(q, 1, Len(q) - k)
    /\ pc' = [r \in All |-> IF r \in Range(Rest(q, Len(q) - k)) THEN "active" ELSE pcs[r]]
    /\ permit' = [r \in All |-> r \in Range(Rest(q, Len(q) - k)) \/ permits[r]]

(* signal(): resources came back; the readers that wait are admitted, first come first *)
(* served, as long as there is enough.                                                  *)
Signal(a, q, pcs, permits) ==
  \E k \in 0..Len(q) :
    /\ \A j \in 0..k-1 : Fits(Take(a, j))
    /\ k < Len(q) => ~Fits(Take(a, k))
    /\ avail' = Take(a, k)
    /\ wait' = Rest(q, k)
    /\ pc' = [r \in All |-> IF r \in FirstOf(q, k) THEN "active" ELSE pcs[r]]
    /\ permit' = [r \in All |-> r \in FirstOf(q, k) \/ permits[r]]

(* What comes back when the readers of S are destroyed.  A permit lives as long as the *)
(* file that its reader opened, which is closed in the background: the ones of late.   *)
MayBeLate(S) == {r \in S : permit[r] /\ ~closing[r]}
ReturnedAtOnce(a, S, late) ==
  [count |-> a.count + Cardinality({r \in S : permit[r]}),
   memory |-> a.memory + Cardinality({r \in S : permit[r]}) + SumFunctionOnSet(units, S)]

Returned(a, S, late) ==
  [count |-> a.count + Cardinality({r \in S \ late : permit[r]}),
   memory |-> a.memory + Cardinality({r \in S \ late : permit[r]}) + SumFunctionOnSet(units, S)]

Destroyed(S, late) ==
  /\ units' = [r \in All |-> IF r \in S THEN 0 ELSE units[r]]
  /\ closing' = [r \in All |-> r \in late \/ closing[r]]
PermitsWithout(S) == [r \in All |-> r \notin S /\ permit[r]]

(* The file is closed. *)
Close(r) ==
  /\ closing[r]
  /\ closing' = [closing EXCEPT ![r] = FALSE]
  /\ Signal([count |-> avail.count + 1, memory |-> avail.memory + 1], wait, pc, permit)
  /\ UNCHANGED <<inactive, next_id, entries, units, handle>>

InactiveKept(S) == inactive

(* The inactive reads, and the cached queriers, without those of S. *)
InactiveWithout(S) == Without(inactive, {i \in Range(inactive) : i.reader \in S})

EntriesWithout(S) == Without(entries, S)
HandlesWithout(S) == [r \in All |-> IF r \in S \cap Queriers THEN 0 ELSE handle[r]]

(* may_proceed() *)
MayProceed(a) == Fits(a) /\ wait = <<>>

(* The readers of the n oldest inactive reads. *)
Victims(n) == {inactive[i].reader : i \in 1..n}

(* wait_admission(): inactive reads are evicted, oldest first, until the reader may    *)
(* proceed or none is left.  Nobody waits while there are inactive reads, so what they *)
(* give back admits nobody else.                                                       *)
WaitAdmission(r) ==
  /\ pc[r] = "pending"
  /\ Len(wait) < MaxQueue
  /\ \E n \in 0..Len(inactive) : \E late \in SUBSET MayBeLate(Victims(n)) :
       LET a == Returned(avail, Victims(n), late) IN
           /\ \A m \in 0..n-1 : ~MayProceed(Returned(avail, Victims(m), late \cap Victims(m)))
           /\ n < Len(inactive) => MayProceed(a)
           /\ inactive' = Rest(inactive, n)
           /\ entries' = EntriesWithout(Victims(n))
           /\ handle' = HandlesWithout(Victims(n))
           /\ Destroyed(Victims(n), late)
           /\ \/ /\ MayProceed(a)
                 /\ avail' = Take(a, 1)
                 /\ pc' = [pc EXCEPT ![r] = "active"]
                 /\ permit' = [PermitsWithout(Victims(n)) EXCEPT ![r] = TRUE]
                 /\ UNCHANGED wait
              \/ /\ ~MayProceed(a)
                 /\ avail' = a
                 /\ pc' = [pc EXCEPT ![r] = "waiting"]
                 /\ permit' = PermitsWithout(Victims(n))
                 /\ wait' = Append(wait, r)
  /\ UNCHANGED next_id

(* The queue is full: the read fails. *)
RejectAdmission(r) ==
  /\ pc[r] = "pending"
  /\ Len(wait) >= MaxQueue
  /\ pc' = [pc EXCEPT ![r] = "idle"]
  /\ UNCHANGED <<avail, wait, inactive, next_id, entries, permit, units, handle, closing>>

(* The timer of the wait list: the read fails.  Those behind it are not looked at. *)
Expire(r) ==
  /\ pc[r] = "waiting"
  /\ pc' = [pc EXCEPT ![r] = "idle"]
  /\ wait' = Without(wait, {r})
  /\ UNCHANGED <<avail, inactive, next_id, entries, permit, units, handle, closing>>

(* A buffer of the file is allocated or freed: memory_units.  A paused reader may still *)
(* be reading ahead.                                                                    *)
Consume(r) ==
  /\ permit[r] /\ units[r] < MaxUnits
  /\ units' = [units EXCEPT ![r] = @ + 1]
  /\ avail' = [avail EXCEPT !.memory = @ - 1]
  /\ UNCHANGED <<wait, inactive, next_id, entries, pc, permit, handle, closing>>

Free(r) ==
  /\ units[r] > 0
  /\ units' = [units EXCEPT ![r] = @ - 1]
  /\ Signal([avail EXCEPT !.memory = @ + 1], wait, pc, permit)
  /\ UNCHANGED <<inactive, next_id, entries, handle, closing>>

(* register_inactive_read(), the part of it that succeeds, and its new handle. *)
RegisterAlways == TRUE
MayRegister == wait = <<>>

Register(r, reads) ==
  /\ inactive' = Append(reads, [id |-> next_id, reader |-> r])
  /\ next_id' = next_id + 1

(* Readers are destroyed, and what they give back is signalled. *)
Drop(S, pcs) ==
  \E late \in SUBSET MayBeLate(S) :
    /\ Destroyed(S, late)
    /\ Signal(Returned(avail, S, late), wait, pcs, PermitsWithout(S))

----------------------------------------------------------------------------
(* A read and its pages.                                                   *)

(* The first page, or a page whose querier was not cached: a new reader, without permit. *)
StartPage(r) ==
  /\ pc[r] = "idle"
  /\ pc' = [pc EXCEPT ![r] = "pending"]
  /\ UNCHANGED <<avail, wait, inactive, next_id, entries, permit, units, handle, closing>>

(* The read ends, or fails: its reader is destroyed. *)
Finish(r) ==
  /\ pc[r] \in {"pending", "active"}
  /\ Drop({r}, [pc EXCEPT ![r] = "idle"])
  /\ UNCHANGED <<inactive, next_id, entries, handle>>

(* insert_querier(), at the end of a page: the oldest queriers go if the memory of all  *)
(* exceeds its limit.  When readers wait, the semaphore evicts the new querier at once. *)
EndPage(r) ==
  /\ r \in Queriers
  /\ pc[r] \in {"pending", "active"}
  /\ next_id <= MaxIds
  /\ \E k \in 0..Len(entries) :
       LET old == FirstOf(entries, k) IN
       \/ /\ MayRegister
          /\ Register(r, InactiveWithout(old))
          /\ entries' = Append(Rest(entries, k), r)
          /\ handle' = [HandlesWithout(old) EXCEPT ![r] = next_id]
          /\ Drop(old, [pc EXCEPT ![r] = "paused"])
       \/ /\ ~MayRegister
          /\ inactive' = InactiveWithout(old)
          /\ entries' = Rest(entries, k)
          /\ handle' = HandlesWithout(old)
          /\ Drop(old \cup {r}, [pc EXCEPT ![r] = "paused"])
          /\ UNCHANGED next_id

(* The inactive read of a handle (unregister_inactive_read()). *)
Found(r) == {i \in Range(inactive) : i.id = handle[r]}

(* lookup_querier(), for the next page: the querier is taken from the cache, and from  *)
(* the inactive reads.  It is dropped if it does not match, and a miss if it is gone.  *)
NextPage(r) ==
  /\ r \in Queriers
  /\ pc[r] = "paused"
  /\ \/ /\ r \in Range(entries)
        /\ entries' = Without(entries, {r})
        /\ inactive' = Without(inactive, Found(r))
        /\ handle' = [handle EXCEPT ![r] = 0]
        /\ \/ /\ pc' = [pc EXCEPT ![r] = IF permit[r] THEN "active" ELSE "pending"]
              /\ UNCHANGED <<avail, wait, permit, units, closing>>
           \/ Drop({r}, [pc EXCEPT ![r] = "pending"])
     \/ /\ r \notin Range(entries)
        /\ pc' = [pc EXCEPT ![r] = "pending"]
        /\ UNCHANGED <<avail, wait, inactive, entries, permit, units, handle, closing>>
  /\ UNCHANGED next_id

(* The client does not come back for a querier that is gone. *)
Forget(r) ==
  /\ r \in Queriers
  /\ pc[r] = "paused" /\ r \notin Range(entries)
  /\ pc' = [pc EXCEPT ![r] = "idle"]
  /\ UNCHANGED <<avail, wait, inactive, next_id, entries, permit, units, handle, closing>>

(* reader_lifecycle_policy::pause() *)
Pause(r) ==
  /\ r \in ShardReaders
  /\ pc[r] \in {"pending", "active"}
  /\ next_id <= MaxIds
  /\ \/ /\ MayRegister
        /\ Register(r, inactive)
        /\ handle' = [handle EXCEPT ![r] = next_id]
        /\ pc' = [pc EXCEPT ![r] = "paused"]
        /\ UNCHANGED <<avail, wait, permit, units, closing>>
     \/ /\ ~MayRegister
        /\ handle' = [handle EXCEPT ![r] = 0]
        /\ Drop({r}, [pc EXCEPT ![r] = "paused"])
        /\ UNCHANGED <<inactive, next_id>>
  /\ UNCHANGED entries

(* try_resume(): the reader, or a new one if it was evicted. *)
Resume(r) ==
  /\ r \in ShardReaders
  /\ pc[r] = "paused"
  /\ inactive' = Without(inactive, Found(r))
  /\ handle' = [handle EXCEPT ![r] = 0]
  /\ pc' = [pc EXCEPT ![r] = IF Found(r) # {} /\ permit[r] THEN "active" ELSE "pending"]
  /\ UNCHANGED <<avail, wait, next_id, entries, permit, units, closing>>

(* The multishard reader is destroyed, and its paused shard reader with it. *)
Stop(r) ==
  /\ r \in ShardReaders
  /\ pc[r] = "paused"
  /\ inactive' = Without(inactive, Found(r))
  /\ handle' = [handle EXCEPT ![r] = 0]
  /\ Drop({i.reader : i \in Found(r)}, [pc EXCEPT ![r] = "idle"])
  /\ UNCHANGED <<next_id, entries>>

----------------------------------------------------------------------------
(* Evictions of the cache, and of the semaphore.                           *)

EvictReads(S) ==
  /\ S # {}
  /\ entries' = EntriesWithout(S)
  /\ inactive' = InactiveWithout(S)
  /\ handle' = HandlesWithout(S)
  /\ Drop(S, pc)
  /\ UNCHANGED next_id

(* scan_cache_entries(): the oldest entries expire, one after the other. *)
ScanCacheEntries == \E k \in 1..Len(entries) : EvictReads(FirstOf(entries, k))

(* evict_one() *)
EvictOne == entries # <<>> /\ EvictReads({entries[1]})

(* evict_all_for_table(): the table is dropped. *)
EvictAllForTable(t) == EvictReads({r \in Range(entries) : TableOf[r] = t})

(* try_evict_one_inactive_read() *)
TryEvictOneInactiveRead == inactive # <<>> /\ EvictReads(Victims(1))

----------------------------------------------------------------------------
PageEnds(r) == Finish(r) \/ EndPage(r) \/ Pause(r)
ReaderStep(r) ==
  \/ StartPage(r) \/ WaitAdmission(r) \/ RejectAdmission(r) \/ Expire(r)
  \/ Consume(r) \/ Free(r) \/ Close(r)
  \/ PageEnds(r) \/ NextPage(r) \/ Forget(r) \/ Resume(r) \/ Stop(r)

Next ==
  \/ \E r \in All : ReaderStep(r)
  \/ ScanCacheEntries \/ EvictOne \/ TryEvictOneInactiveRead
  \/ \E t \in Tables : EvictAllForTable(t)

Spec == Init /\ [][Next]_vars

(* A page is over at last, because the data it may read is limited and reads time out; *)
(* and files that are being closed get closed.                                          *)
FairSpec ==
  /\ Spec
  /\ \A r \in All : WF_vars(permit[r] /\ PageEnds(r)) /\ WF_vars(Close(r))

----------------------------------------------------------------------------
(* Properties.                                                             *)

(* The types of the state. *)
TypeOK ==
  /\ avail \in [count : Int, memory : Int]
  /\ wait \in Seq(All) /\ entries \in Seq(Queriers)
  /\ inactive \in Seq([id : Nat, reader : All])
  /\ next_id \in Nat
  /\ pc \in [All -> {"idle", "pending", "waiting", "active", "paused"}]
  /\ permit \in [All -> BOOLEAN] /\ closing \in [All -> BOOLEAN]
  /\ units \in [All -> Nat] /\ handle \in [All -> Nat]

(* "we don't queue new readers before evicting all inactive reads": no reader waits for *)
(* resources that a read nobody works on holds.                                         *)
NoInactiveWhileWaiting == wait # <<>> => inactive = <<>>

(* No wakeup is lost: whoever waits could not be admitted now. *)
WaitersCannotProceed == wait # <<>> => ~Fits(avail)

(* Resources are neither lost nor made up, whatever evicts, releases or admits readers. *)
ResourcesAddUp ==
  LET held == Cardinality({r \in All : permit[r]}) + Cardinality({r \in All : closing[r]}) IN
  /\ avail.count + held = Count
  /\ avail.memory + held + SumFunctionOnSet(units, All) = Memory

(* The cache and the semaphore agree: a cached querier is registered under its handle, *)
(* so that it can be evicted, and a registered reader is one that is paused.           *)
EntriesAreRegistered ==
  /\ \A r \in Range(entries) : [id |-> handle[r], reader |-> r] \in Range(inactive)
  /\ \A i \in Range(inactive) :
       /\ pc[i.reader] = "paused" /\ handle[i.reader] = i.id
       /\ i.reader \in Queriers => i.reader \in Range(entries)
  /\ \A r \in All : permit[r] => pc[r] = "active" \/ \E i \in Range(inactive) : i.reader = r

(* "Readers are admitted in FIFO order": whoever is admitted leaves nobody behind who *)
(* had waited longer.                                                                  *)
AdmittedInOrder ==
  [][\A r \in All : permit'[r] /\ ~permit[r] =>
       \A i \in 1..Len(wait) :
         (\A j \in 1..Len(wait) : wait[j] = r => i < j) => wait[i] \notin Range(wait')]_vars

(* A reader that waits is admitted, if it does not give up before. *)
EveryWaiterServed == \A r \in All : pc[r] = "waiting" ~> pc[r] # "waiting"
=============================================================================
