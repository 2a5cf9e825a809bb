--------------------------- MODULE StorageProofs ----------------------------
(* The storage of a node keeps what it promised to keep: its types, where  *)
(* writes, their entries and the files of the log stand, what memtables and *)
(* sstables hold, the handles on segments, and what is shown of it all.    *)
EXTENDS Storage, TLAPS

----------------------------------------------------------------------------
(* Types.                                                                  *)

LEMMA NoSegmentIsNone == NoSegment \notin Segments
BY DEF NoSegment, Segments

LEMMA NoPartIsNone == NoPart \notin Parts
BY DEF NoPart, Parts

LEMMA EmptyType == Empty \in Memtable /\ Empty.data = {} /\ Empty.held = {} /\ Empty.pos = 0
BY Zenon DEF Empty, Memtable

LEMMA IdleType ==
  /\ Idle \in Trunc /\ Idle.pc = "idle" /\ Idle.low = 0 /\ Idle.found = 0
  /\ Idle.wait = {} /\ Idle.before = {} /\ Idle.remove = {}
BY Zenon DEF Idle, Trunc, TruncPc

LEMMA LargerType ==
  ASSUME NEW a \in Nat, NEW b \in Nat
  PROVE  /\ Larger(a, b) \in Nat /\ a <= Larger(a, b) /\ b <= Larger(a, b)
         /\ Larger(a, b) \in {a, b}
BY DEF Larger

(* Segments that are discarded. *)
LEMMA DiscardType ==
  ASSUME NEW states \in [Segments -> {"unborn", "open", "closed", "condemned", "old", "gone"}],
         NEW counts
  PROVE  /\ DiscardUnused(states, counts) \in
              [Segments -> {"unborn", "open", "closed", "condemned", "old", "gone"}]
         /\ \A s \in Segments :
              \/ DiscardUnused(states, counts)[s] = states[s]
              \/ /\ states[s] = "closed" /\ counts[s] = {} /\ EntriesOf(s) \subseteq synced
                 /\ DiscardUnused(states, counts)[s] = "condemned"
BY Zenon DEF DiscardUnused, CanDelete

LEMMA ReleaseType ==
  ASSUME TypeOK, NEW w \in Writes, seg[w] \in Segments,
         NEW states \in [Segments -> {"unborn", "open", "closed", "condemned", "old", "gone"}],
         ReleaseHandle(w, states)
  PROVE  /\ dirty' \in [Segments -> SUBSET Writes]
         /\ dirty' = [dirty EXCEPT ![seg[w]] = @ \ {w}]
         /\ st' \in [Segments -> {"unborn", "open", "closed", "condemned", "old", "gone"}]
         /\ \A s \in Segments :
              st'[s] = states[s] \/ (states[s] = "closed" /\ dirty'[s] = {} /\ st'[s] = "condemned")
<1>1. dirty' = [dirty EXCEPT ![seg[w]] = @ \ {w}]
  BY Zenon DEF ReleaseHandle
<1>2. st' = states \/ st' = DiscardUnused(states, dirty')
  BY Zenon DEF ReleaseHandle
<1>3. dirty' \in [Segments -> SUBSET Writes]
  BY Zenon, <1>1 DEF TypeOK
<1>4. CASE st' = states
  BY Zenon, <1>1, <1>3, <1>4
<1>5. CASE st' = DiscardUnused(states, dirty')
  <2>1. st' \in [Segments -> {"unborn", "open", "closed", "condemned", "old", "gone"}]
    BY Zenon, <1>5, DiscardType
  <2>2. \A s \in Segments :
          st'[s] = states[s] \/ (states[s] = "closed" /\ dirty'[s] = {} /\ st'[s] = "condemned")
    BY <1>5 DEF DiscardUnused, CanDelete
  <2> QED
    BY Zenon, <1>1, <1>3, <2>1, <2>2
<1> QED
  BY Zenon, <1>2, <1>4, <1>5

StType == [Segments -> {"unborn", "open", "closed", "condemned", "old", "gone"}]
PcType == [Writes -> {"idle", "logged", "acked", "failed"}]

LEMMA WriteType ==
  ASSUME TypeOK, LogInv, HandleInv, NEW w \in Writes, WriteStep(w)
  PROVE  TypeOK'
<1> USE DEF logVars, tableVars, markVars, runVars
<1>1. CASE \E p \in Parts : Allocate(w, p)
  <2>1. PICK p \in Parts : Allocate(w, p)
    BY Zenon, <1>1
  <2>2. PICK s \in Segments :
          /\ seg' = [seg EXCEPT ![w] = s]
          /\ st' = [st EXCEPT ![s] = "open"]
          /\ dirty' = [dirty EXCEPT ![s] = @ \cup {w}]
    BY Zenon, <2>1 DEF Allocate, SegmentsOf
  <2>3. /\ seg' \in [Writes -> Segments \cup {NoSegment}] /\ st' \in StType
        /\ dirty' \in [Segments -> SUBSET Writes]
    BY Zenon, <2>2 DEF TypeOK, StType
  <2>4. /\ part' \in [Writes -> Parts \cup {NoPart}] /\ last' \in Nat
        /\ rp' \in [Writes -> Nat] /\ pc' \in PcType
        /\ tainted' \subseteq Writes
    BY <2>1 DEF Allocate, TypeOK, PcType
  <2> QED
    BY Zenon, <2>1, <2>3, <2>4 DEF Allocate, TypeOK, StType, PcType
<1>2. CASE Apply(w)
  <2>1. part[w] \in Parts /\ rp[w] \in Nat
    BY Zenon, <1>2 DEF Apply, LogInv, LogOf, TypeOK
  <2>2. active[part[w]] \in Memtable
    BY Zenon, <2>1 DEF TypeOK
  <2>3. [data |-> active[part[w]].data \cup {w}, held |-> active[part[w]].held \cup {w},
         pos |-> Larger(active[part[w]].pos, rp[w])] \in Memtable
    BY Zenon, <2>1, <2>2, LargerType DEF Memtable
  <2>4. active' \in [Parts -> Memtable]
    BY Zenon, <1>2, <2>1, <2>3 DEF Apply, TypeOK
  <2>5. highest' \in [Parts -> Nat]
    BY Zenon, <1>2, <2>1, LargerType DEF Apply, TypeOK
  <2>6. pc' \in PcType /\ firm' \subseteq Writes
    BY Zenon, <1>2 DEF Apply, TypeOK, PcType
  <2> QED
    BY Zenon, <1>2, <2>4, <2>5, <2>6 DEF Apply, TypeOK, PcType
<1>3. CASE ApplyReordered(w) \/ AbandonApply(w) \/ AbandonSync(w)
  <2>1. pc[w] = "logged" /\ pc' \in PcType
    BY ZenonT(60), <1>3 DEF ApplyReordered, AbandonApply, AbandonSync, TypeOK, PcType
  <2>2. seg[w] \in Segments
    BY Zenon, <2>1 DEF HandleInv, Held, TypeOK
  <2>3. PICK states \in StType : ReleaseHandle(w, states)
    <3>1. st \in StType
      BY Zenon DEF TypeOK, StType
    <3>2. [st EXCEPT ![seg[w]] = IF @ = "open" THEN "closed" ELSE @] \in StType
      BY Zenon, <3>1 DEF StType
    <3> QED
      BY Zenon, <1>3, <3>1, <3>2 DEF ApplyReordered, AbandonApply, AbandonSync
  <2>4. dirty' \in [Segments -> SUBSET Writes] /\ st' \in StType
    BY Zenon, <2>2, <2>3, ReleaseType DEF StType
  <2>5. UNCHANGED <<logVars, tableVars, markVars, runVars, firm, dead, tainted>>
    BY Zenon, <1>3 DEF ApplyReordered, AbandonApply, AbandonSync
  <2> QED
    BY Zenon, <2>1, <2>4, <2>5 DEF TypeOK, StType, PcType
<1> QED
  BY Zenon, <1>1, <1>2, <1>3 DEF WriteStep

LEMMA SegmentType ==
  ASSUME TypeOK, NEW s \in Segments, SegmentStep(s)
  PROVE  TypeOK'
<1> USE DEF logVars, tableVars, markVars, runVars
<1>1. CASE Sync(s)
  <2>1. synced' \subseteq Writes /\ firm' \subseteq Writes
    BY Zenon, <1>1 DEF Sync, EntriesOf, TypeOK
  <2> QED
    BY Zenon, <1>1, <2>1 DEF Sync, TypeOK
<1>2. CASE CloseSegment(s) \/ DeleteFile(s)
  <2>1. st' \in StType
    BY Zenon, <1>2 DEF CloseSegment, DeleteFile, TypeOK, StType
  <2>2. UNCHANGED <<logVars, pc, dirty, tableVars, markVars, runVars, firm, dead, tainted>>
    BY Zenon, <1>2 DEF CloseSegment, DeleteFile
  <2> QED
    BY Zenon, <2>1, <2>2 DEF TypeOK, StType
<1> QED
  BY Zenon, <1>1, <1>2 DEF SegmentStep

LEMMA SealedType ==
  ASSUME TypeOK, NEW p \in Parts
  PROVE  /\ SealedAfter(p) \in SUBSET Memtable
         /\ [sealed EXCEPT ![p] = SealedAfter(p)] \in [Parts -> SUBSET Memtable]
         /\ [active EXCEPT ![p] = Empty] \in [Parts -> Memtable]
<1>1. SealedAfter(p) \in SUBSET Memtable
  BY Zenon DEF SealedAfter, TypeOK
<1> QED
  BY Zenon, <1>1, EmptyType DEF TypeOK

LEMMA PartType ==
  ASSUME TypeOK, NEW p \in Parts, PartStep(p)
  PROVE  TypeOK'
<1> USE DEF logVars, tableVars, markVars, runVars
<1>1. CASE Seal(p)
  <2>1. sealed' \in [Parts -> SUBSET Memtable] /\ active' \in [Parts -> Memtable]
    BY Zenon, <1>1, SealedType DEF Seal
  <2> QED
    BY Zenon, <1>1, <2>1 DEF Seal, TypeOK
<1>2. CASE \E m \in sealed[p] : WriteSSTable(p, m)
  <2>1. PICK m \in sealed[p] : WriteSSTable(p, m)
    BY Zenon, <1>2
  <2>2. m \in Memtable
    BY Zenon DEF TypeOK
  <2>3. [m EXCEPT !.held = {}] \in Memtable
    BY Zenon, <2>2 DEF Memtable
  <2>4. /\ sealed' \in [Parts -> SUBSET Memtable] /\ retired' \in [Parts -> SUBSET Memtable]
        /\ sstables' \in [Parts -> SUBSET Memtable]
    BY Zenon, <2>1, <2>2, <2>3 DEF WriteSSTable, TypeOK
  <2>5. firm' \subseteq Writes
    BY Zenon, <2>1, <2>2 DEF WriteSSTable, TypeOK, Memtable
  <2> QED
    BY Zenon, <2>1, <2>4, <2>5 DEF WriteSSTable, TypeOK
<1>3. CASE \E m \in retired[p] : DiscardLog(p, m)
  <2>1. PICK m \in retired[p] : DiscardLog(p, m)
    BY Zenon, <1>3
  <2>2. dirty' \in [Segments -> SUBSET Writes] /\ retired' \in [Parts -> SUBSET Memtable]
    BY Zenon, <2>1 DEF DiscardLog, TypeOK
  <2>3. st' \in StType
    BY Zenon, <2>1, DiscardType DEF DiscardLog, TypeOK, StType
  <2> QED
    BY Zenon, <2>1, <2>2, <2>3 DEF DiscardLog, TypeOK, StType
<1>4. CASE Compact(p)
  <2>1. PICK a \in sstables[p], b \in sstables[p] :
          sstables' = [sstables EXCEPT ![p] = (@ \ {a, b}) \cup
                         {[data |-> a.data \cup b.data, held |-> {}, pos |-> Larger(a.pos, b.pos)]}]
    BY Zenon, <1>4 DEF Compact
  <2>2. a \in Memtable /\ b \in Memtable
    BY Zenon DEF TypeOK
  <2>3. [data |-> a.data \cup b.data, held |-> {}, pos |-> Larger(a.pos, b.pos)] \in Memtable
    BY Zenon, <2>2, LargerType DEF Memtable
  <2>4. sstables' \in [Parts -> SUBSET Memtable]
    BY Zenon, <2>1, <2>3 DEF TypeOK
  <2> QED
    BY Zenon, <1>4, <2>4 DEF Compact, TypeOK
<1> QED
  BY Zenon, <1>1, <1>2, <1>3, <1>4 DEF PartStep


(* What the steps of a truncation do to its state. *)
LEMMA TruncateFacts ==
  ASSUME TypeOK, NEW p \in Parts, TruncateStep(p)
  PROVE  /\ trunc' \in [Parts -> Trunc]
         /\ \A q \in Parts \ {p} : trunc'[q] = trunc[q]
         /\ trunc[p].pc # "idle" /\ trunc'[p].pc # "idle"
         /\ trunc'[p].low \in {trunc[p].low, highest[p], 0}
         /\ trunc'[p].found = trunc[p].found \/ trunc'[p].found = 0
            \/ \E m \in sstables[p] : trunc'[p].found = m.pos
         /\ trunc'[p].remove \subseteq trunc[p].remove \cup sstables[p]
<1>0. trunc \in [Parts -> Trunc] /\ trunc[p] \in Trunc
  BY Zenon DEF TypeOK
<1>1. CASE SetLowMark(p)
  <2>1. [trunc[p] EXCEPT !.pc = "marked", !.low = highest[p]] \in Trunc
    BY Zenon, <1>0 DEF Trunc, TruncPc, TypeOK
  <2>2. trunc' = [trunc EXCEPT ![p] = [trunc[p] EXCEPT !.pc = "marked", !.low = highest[p]]]
    BY Zenon, <1>1 DEF SetLowMark
  <2>3. /\ trunc'[p].pc = "marked" /\ trunc'[p].low = highest[p]
        /\ trunc'[p].found = trunc[p].found /\ trunc'[p].remove = trunc[p].remove
    BY Zenon, <1>0, <2>2 DEF Trunc
  <2>4. trunc' \in [Parts -> Trunc] /\ \A q \in Parts \ {p} : trunc'[q] = trunc[q]
    BY Zenon, <1>0, <2>1, <2>2
  <2>5. trunc[p].pc = "requested"
    BY Zenon, <1>1 DEF SetLowMark
  <2> QED
    BY Zenon, <2>3, <2>4, <2>5
<1>2. CASE FlushToTruncate(p)
  <2> DEFINE x == IF trunc[p].pc = "marked" THEN "flushing" ELSE "snapshotting"
             r == [trunc[p] EXCEPT !.pc = x, !.wait = SealedAfter(p) \cup retired[p]]
  <2>1. r \in Trunc
    <3>1. SealedAfter(p) \cup retired[p] \in SUBSET Memtable
      BY Zenon, SealedType DEF TypeOK
    <3> QED
      BY Zenon, <1>0, <3>1 DEF Trunc, TruncPc
  <2>2. trunc' = [trunc EXCEPT ![p] = r]
    BY Zenon, <1>2 DEF FlushToTruncate
  <2>3. /\ trunc'[p].pc = x /\ trunc'[p].low = trunc[p].low
        /\ trunc'[p].found = trunc[p].found /\ trunc'[p].remove = trunc[p].remove
    BY Zenon, <1>0, <2>2 DEF Trunc
  <2>4. trunc' \in [Parts -> Trunc] /\ \A q \in Parts \ {p} : trunc'[q] = trunc[q]
    BY Zenon, <1>0, <2>1, <2>2
  <2>5. trunc[p].pc # "idle"
    BY Zenon, <1>2 DEF FlushToTruncate
  <2> QED
    BY Zenon, <2>3, <2>4, <2>5
<1>3. CASE DiscardSSTables(p)
  <2>0. PICK remove \in SUBSET sstables[p] :
          \E found \in {m.pos : m \in remove} \cup {0} :
            trunc' = [trunc EXCEPT ![p].pc = "discarded", ![p].remove = remove,
                                   ![p].wait = {}, ![p].before = {}, ![p].found = found]
    BY Zenon, <1>3 DEF DiscardSSTables
  <2>1. PICK found \in {m.pos : m \in remove} \cup {0} :
          trunc' = [trunc EXCEPT ![p].pc = "discarded", ![p].remove = remove,
                                 ![p].wait = {}, ![p].before = {}, ![p].found = found]
    BY Zenon, <2>0
  <2> DEFINE r == [trunc[p] EXCEPT !.pc = "discarded", !.remove = remove,
                                   !.wait = {}, !.before = {}, !.found = found]
  <2>2. remove \in SUBSET Memtable /\ found \in Nat
        /\ (found = 0 \/ \E m \in sstables[p] : found = m.pos)
    BY DEF TypeOK, Memtable
  <2>3. r \in Trunc
    BY Zenon, <1>0, <2>2 DEF Trunc, TruncPc
  <2>4. trunc' = [trunc EXCEPT ![p] = r]
    BY Zenon, <2>1
  <2>5. /\ trunc'[p].pc = "discarded" /\ trunc'[p].low = trunc[p].low
        /\ trunc'[p].found = found /\ trunc'[p].remove = remove
    BY Zenon, <1>0, <2>4 DEF Trunc
  <2>6. trunc' \in [Parts -> Trunc] /\ \A q \in Parts \ {p} : trunc'[q] = trunc[q]
    BY Zenon, <1>0, <2>3, <2>4
  <2>7. trunc[p].pc # "idle"
    BY Zenon, <1>3 DEF DiscardSSTables
  <2> QED
    BY Zenon, <2>2, <2>5, <2>6, <2>7
<1>4. CASE DeleteSSTables(p)
  <2> DEFINE r == [trunc[p] EXCEPT !.pc = "deleted", !.remove = {}]
  <2>1. r \in Trunc
    BY Zenon, <1>0 DEF Trunc, TruncPc
  <2>2. trunc' = [trunc EXCEPT ![p] = r]
    BY Zenon, <1>4 DEF DeleteSSTables
  <2>3. /\ trunc'[p].pc = "deleted" /\ trunc'[p].low = trunc[p].low
        /\ trunc'[p].found = trunc[p].found /\ trunc'[p].remove = {}
    BY Zenon, <1>0, <2>2 DEF Trunc
  <2>4. trunc' \in [Parts -> Trunc] /\ \A q \in Parts \ {p} : trunc'[q] = trunc[q]
    BY Zenon, <1>0, <2>1, <2>2
  <2>5. trunc[p].pc # "idle"
    BY Zenon, <1>4 DEF DeleteSSTables
  <2> QED
    BY Zenon, <2>3, <2>4, <2>5
<1>5. CASE SaveRecord(p)
  <2> DEFINE r == [Idle EXCEPT !.pc = "saved"]
  <2>1. r \in Trunc
    BY Zenon, IdleType DEF Trunc, TruncPc
  <2>2. trunc' = [trunc EXCEPT ![p] = r]
    BY Zenon, <1>5 DEF SaveRecord
  <2>3. r.pc = "saved" /\ r.low = 0 /\ r.found = 0 /\ r.remove = {}
    BY Zenon, IdleType DEF Trunc
  <2>4. trunc'[p] = r
    BY Zenon, <1>0, <2>2
  <2>5. trunc' \in [Parts -> Trunc] /\ \A q \in Parts \ {p} : trunc'[q] = trunc[q]
    BY Zenon, <1>0, <2>1, <2>2
  <2>6. trunc[p].pc # "idle"
    BY Zenon, <1>5 DEF SaveRecord
  <2> QED
    BY Zenon, <2>3, <2>4, <2>5, <2>6
<1> QED
  BY Zenon, <1>1, <1>2, <1>3, <1>4, <1>5 DEF TruncateStep

LEMMA RecordType ==
  ASSUME TypeOK, NEW p \in Parts, SaveRecord(p)
  PROVE  /\ \E q \in Parts : /\ q[1] = p[1]
                             /\ record' = [record EXCEPT ![q] = Larger(trunc[p].low, trunc[p].found)]
         /\ record' \in [Parts -> Nat]
<1> DEFINE x == Larger(trunc[p].low, trunc[p].found)
<1>1. trunc[p].low \in Nat /\ trunc[p].found \in Nat
  BY Zenon DEF TypeOK, Trunc
<1>2. x \in Nat
  BY Zenon, <1>1, LargerType
<1>3. RecordKey(p, x) \in Parts /\ RecordKey(p, x)[1] = p[1]
  BY Zenon, StorageAssumption DEF RecordKey, Parts
<1>4. record' = [record EXCEPT ![RecordKey(p, x)] = x]
  BY Zenon DEF SaveRecord
<1>5. record' \in [Parts -> Nat]
  BY Zenon, <1>2, <1>3, <1>4 DEF TypeOK
<1> QED
  BY Zenon, <1>3, <1>4, <1>5

LEMMA TruncateType ==
  ASSUME TypeOK, NEW p \in Parts, TruncateStep(p)
  PROVE  TypeOK'
<1> USE DEF logVars, tableVars, markVars, runVars
<1>0. trunc' \in [Parts -> Trunc]
  BY Zenon, TruncateFacts
<1>1. CASE SetLowMark(p)
  <2>1. lowest' \in [Parts -> Nat]
    BY Zenon, <1>1 DEF SetLowMark, TypeOK
  <2> QED
    BY Zenon, <1>0, <1>1, <2>1 DEF SetLowMark, TypeOK
<1>2. CASE FlushToTruncate(p)
  <2>1. sealed' \in [Parts -> SUBSET Memtable] /\ active' \in [Parts -> Memtable]
    BY Zenon, <1>2, SealedType DEF FlushToTruncate
  <2> QED
    BY Zenon, <1>0, <1>2, <2>1 DEF FlushToTruncate, TypeOK
<1>3. CASE DiscardSSTables(p)
  <2>1. PICK remove \in SUBSET sstables[p] : sstables' = [sstables EXCEPT ![p] = @ \ remove]
    BY Zenon, <1>3 DEF DiscardSSTables
  <2>2. sstables' \in [Parts -> SUBSET Memtable]
    BY Zenon, <2>1 DEF TypeOK
  <2> QED
    BY Zenon, <1>0, <1>3, <2>2 DEF DiscardSSTables, TypeOK
<1>4. CASE DeleteSSTables(p)
  BY Zenon, <1>0, <1>4 DEF DeleteSSTables, TypeOK
<1>5. CASE SaveRecord(p)
  BY Zenon, <1>0, <1>5, RecordType DEF SaveRecord, TypeOK
<1> QED
  BY Zenon, <1>1, <1>2, <1>3, <1>4, <1>5 DEF TruncateStep


LEMMA TableFacts ==
  ASSUME TypeOK, NEW t \in Tables, TableStep(t)
  PROVE  /\ trunc' \in [Parts -> Trunc]
         /\ \A q \in Parts : q[1] # t => trunc'[q] = trunc[q]
         /\ \A q \in Parts : q[1] = t =>
              /\ trunc'[q].low \in {trunc[q].low, 0} /\ trunc'[q].found \in {trunc[q].found, 0}
              /\ trunc'[q].remove \in {trunc[q].remove, {}}
         /\ RequestTruncate(t) => \A q \in Parts : q[1] = t => trunc'[q] = [Idle EXCEPT !.pc = "requested"]
         /\ TakeTime(t) => \A q \in Parts : q[1] = t =>
              trunc'[q] = [trunc[q] EXCEPT !.pc = "timed", !.wait = {}, !.before = sstables[q]]
         /\ Truncated(t) => \A q \in Parts : q[1] = t => trunc'[q] = Idle
<1>0. trunc \in [Parts -> Trunc]
  BY Zenon DEF TypeOK
<1>1. CASE RequestTruncate(t)
  <2> DEFINE r == [Idle EXCEPT !.pc = "requested"]
  <2>1. r \in Trunc /\ r.low = 0 /\ r.found = 0 /\ r.remove = {} /\ r.pc = "requested"
    BY Zenon, IdleType DEF Trunc, TruncPc
  <2>2. trunc' = [p \in Parts |-> IF p[1] = t THEN r ELSE trunc[p]]
    BY Zenon, <1>1 DEF RequestTruncate
  <2>3. ~TakeTime(t) /\ ~Truncated(t)
    <3>1. <<t, 0>> \in Parts /\ 0 \in Shards
      BY Zenon, StorageAssumption DEF Parts
    <3>2. trunc[<<t, 0>>].pc = "idle"
      BY Zenon, <1>1, <3>1 DEF RequestTruncate, Truncating
    <3> QED
      BY Zenon, <3>1, <3>2 DEF TakeTime, Truncated
  <2> HIDE DEF r
  <2>4. \A q \in Parts : trunc'[q] = IF q[1] = t THEN r ELSE trunc[q]
    BY Zenon, <2>2
  <2>5. trunc' \in [Parts -> Trunc]
    BY Zenon, <1>0, <2>1, <2>2
  <2> QED
    BY Zenon, <2>1, <2>3, <2>4, <2>5 DEF r
<1>2. CASE TakeTime(t)
  <2> DEFINE r(q) == [trunc[q] EXCEPT !.pc = "timed", !.wait = {}, !.before = sstables[q]]
  <2>1. ASSUME NEW q \in Parts
        PROVE  /\ r(q) \in Trunc /\ r(q).low = trunc[q].low /\ r(q).found = trunc[q].found
               /\ r(q).remove = trunc[q].remove /\ r(q).pc = "timed"
    <3>1. trunc[q] \in Trunc /\ sstables[q] \in SUBSET Memtable
      BY Zenon, <1>0 DEF TypeOK
    <3> QED
      BY Zenon, <3>1 DEF Trunc, TruncPc
  <2>2. trunc' = [p \in Parts |-> IF p[1] = t THEN r(p) ELSE trunc[p]]
    BY Zenon, <1>2 DEF TakeTime
  <2>3. ~RequestTruncate(t) /\ ~Truncated(t)
    <3>1. <<t, 0>> \in Parts /\ 0 \in Shards
      BY Zenon, StorageAssumption DEF Parts
    <3>2. trunc[<<t, 0>>].pc = "flushing"
      BY Zenon, <1>2, <3>1 DEF TakeTime
    <3> QED
      BY Zenon, <3>1, <3>2 DEF RequestTruncate, Truncated, Truncating
  <2> HIDE DEF r
  <2>4. \A q \in Parts : trunc'[q] = IF q[1] = t THEN r(q) ELSE trunc[q]
    BY Zenon, <2>2
  <2>5. trunc' \in [Parts -> Trunc]
    BY Zenon, <1>0, <2>1, <2>2
  <2>6. \A q \in Parts : q[1] = t =>
          trunc'[q] = [trunc[q] EXCEPT !.pc = "timed", !.wait = {}, !.before = sstables[q]]
    BY Zenon, <2>4 DEF r
  <2>7. \A q \in Parts : q[1] = t =>
          /\ trunc'[q].low = trunc[q].low /\ trunc'[q].found = trunc[q].found
          /\ trunc'[q].remove = trunc[q].remove
    BY Zenon, <2>1, <2>4
  <2> QED
    BY Zenon, <2>3, <2>4, <2>5, <2>6, <2>7
<1>3. CASE Truncated(t)
  <2>1. trunc' = [p \in Parts |-> IF p[1] = t THEN Idle ELSE trunc[p]]
    BY Zenon, <1>3 DEF Truncated
  <2>2. ~RequestTruncate(t) /\ ~TakeTime(t)
    <3>1. <<t, 0>> \in Parts /\ 0 \in Shards
      BY Zenon, StorageAssumption DEF Parts
    <3>2. trunc[<<t, 0>>].pc = "saved"
      BY Zenon, <1>3, <3>1 DEF Truncated
    <3> QED
      BY Zenon, <3>1, <3>2 DEF RequestTruncate, TakeTime, Truncating
  <2>3. \A q \in Parts : trunc'[q] = IF q[1] = t THEN Idle ELSE trunc[q]
    BY Zenon, <2>1
  <2>4. trunc' \in [Parts -> Trunc]
    BY Zenon, <1>0, <2>1, IdleType
  <2> QED
    BY Zenon, <2>2, <2>3, <2>4, IdleType
<1> QED
  BY Zenon, <1>1, <1>2, <1>3 DEF TableStep

LEMMA TableType ==
  ASSUME TypeOK, NEW t \in Tables, TableStep(t)
  PROVE  TypeOK'
<1> USE DEF logVars, tableVars, markVars, runVars
<1>0. trunc' \in [Parts -> Trunc]
  BY Zenon, TableFacts
<1>1. CASE RequestTruncate(t)
  <2>1. /\ truncations' \in Nat /\ firm' \subseteq Writes /\ tainted' \subseteq Writes
        /\ doomed' \in [Tables -> SUBSET Writes]
    BY <1>1 DEF RequestTruncate, TypeOK, WritesOf
  <2> QED
    BY Zenon, <1>0, <1>1, <2>1 DEF RequestTruncate, TypeOK
<1>2. CASE TakeTime(t)
  BY Zenon, <1>0, <1>2 DEF TakeTime, TypeOK
<1>3. CASE Truncated(t)
  <2>1. dead' \subseteq Writes /\ doomed' \in [Tables -> SUBSET Writes]
    BY Zenon, <1>3 DEF Truncated, TypeOK
  <2> QED
    BY Zenon, <1>0, <1>3, <2>1 DEF Truncated, TypeOK
<1> QED
  BY Zenon, <1>1, <1>2, <1>3 DEF TableStep

LEMMA NodeType ==
  ASSUME TypeOK, Crash \/ Replay \/ Serve
  PROVE  TypeOK'
<1> USE DEF logVars, tableVars, markVars, runVars
<1>1. CASE Crash
  <2>1. PICK lost \in SUBSET Writes :
          /\ seg' = [w \in Writes |-> IF w \in lost THEN NoSegment ELSE seg[w]]
          /\ synced' = {w \in Writes : seg[w] # NoSegment /\ w \notin lost}
    BY Zenon, <1>1 DEF Crash
  <2>2. PICK back :
          /\ \A p \in Parts : back[p] \subseteq trunc[p].remove
          /\ sstables' = [p \in Parts |-> sstables[p] \cup back[p]]
    BY Zenon, <1>1 DEF Crash
  <2>3. \A p \in Parts : trunc[p].remove \subseteq Memtable
    BY Zenon DEF TypeOK, Trunc
  <2>4. sstables' \in [Parts -> SUBSET Memtable]
    BY Zenon, <2>2, <2>3 DEF TypeOK
  <2>5. seg' \in [Writes -> Segments \cup {NoSegment}] /\ synced' \subseteq Writes
    BY Zenon, <2>1 DEF TypeOK
  <2>6. /\ st' \in StType /\ dirty' \in [Segments -> SUBSET Writes] /\ pc' \in PcType
    BY Zenon, <1>1 DEF Crash, TypeOK, StType, PcType
  <2>7. /\ active' \in [Parts -> Memtable] /\ trunc' \in [Parts -> Trunc]
        /\ sealed' \in [Parts -> SUBSET Memtable] /\ retired' \in [Parts -> SUBSET Memtable]
        /\ doomed' \in [Tables -> SUBSET Writes] /\ phase' = "down"
    BY Zenon, <1>1, EmptyType, IdleType DEF Crash
  <2>8. highest' \in [Parts -> Nat] /\ lowest' \in [Parts -> Nat]
    <3>1. highest' = [p \in Parts |-> 0] /\ lowest' = [p \in Parts |-> 0]
      BY Zenon, <1>1 DEF Crash
    <3> QED
      BY Zenon, <3>1
  <2>9. crashes' \in Nat
    BY <1>1 DEF Crash, TypeOK
  <2> QED
    BY Zenon, <1>1, <2>4, <2>5, <2>6, <2>7, <2>8, <2>9 DEF Crash, TypeOK, StType, PcType
<1>2. CASE Replay
  <2>1. active' \in [Parts -> Memtable]
    BY Zenon, <1>2 DEF Replay, Memtable
  <2> QED
    BY Zenon, <1>2, <2>1 DEF Replay, TypeOK
<1>3. CASE Serve
  BY Zenon, <1>3 DEF Serve, TypeOK
<1> QED
  BY Zenon, <1>1, <1>2, <1>3

LEMMA TypeStep ==
  ASSUME TypeOK, LogInv, HandleInv, [Next]_vars
  PROVE  TypeOK'
<1>1. CASE UNCHANGED vars
  BY Zenon, <1>1 DEF vars, logVars, tableVars, markVars, runVars, TypeOK
<1> QED
  BY Zenon, <1>1, WriteType, SegmentType, PartType, TruncateType, TableType, NodeType DEF Next

----------------------------------------------------------------------------
(* Where a write, its entry and its file stand.                            *)

(* What the steps that release a handle do. *)
LEMMA ReleaseFacts ==
  ASSUME TypeOK, LogInv, HandleInv, NEW w \in Writes,
         ApplyReordered(w) \/ AbandonApply(w) \/ AbandonSync(w)
  PROVE  /\ phase = "up" /\ pc[w] = "logged" /\ seg[w] \in Segments
         /\ \E x \in {"acked", "failed"} : pc' = [pc EXCEPT ![w] = x]
         /\ dirty' = [dirty EXCEPT ![seg[w]] = @ \ {w}]
         /\ \A s \in Segments :
              \/ st'[s] = st[s]
              \/ st[s] \in {"open", "closed"} /\ st'[s] = "closed"
              \/ st[s] \in {"open", "closed"} /\ dirty'[s] = {} /\ st'[s] = "condemned"
         /\ UNCHANGED <<logVars, tableVars, markVars, runVars, firm, dead, tainted>>
<1>1. pc[w] = "logged" /\ phase = "up"
  BY Zenon DEF ApplyReordered, AbandonApply, AbandonSync
<1>2. seg[w] \in Segments
  BY Zenon, <1>1 DEF HandleInv, Held, TypeOK
<1>3. PICK states \in StType :
        /\ ReleaseHandle(w, states)
        /\ \A s \in Segments : states[s] = st[s] \/ (st[s] = "open" /\ states[s] = "closed")
  <2>1. st \in StType
    BY Zenon DEF TypeOK, StType
  <2> DEFINE shut == [st EXCEPT ![seg[w]] = IF @ = "open" THEN "closed" ELSE @]
  <2>2. shut \in StType /\ \A s \in Segments : shut[s] = st[s] \/ (st[s] = "open" /\ shut[s] = "closed")
    BY Zenon, <2>1 DEF StType
  <2>3. ReleaseHandle(w, st) \/ ReleaseHandle(w, shut)
    BY Zenon DEF ApplyReordered, AbandonApply, AbandonSync
  <2> QED
    BY ZenonT(60), <2>1, <2>2, <2>3
<1>4. /\ dirty' = [dirty EXCEPT ![seg[w]] = @ \ {w}]
      /\ \A s \in Segments :
           st'[s] = states[s] \/ (states[s] = "closed" /\ dirty'[s] = {} /\ st'[s] = "condemned")
  BY Zenon, <1>2, <1>3, ReleaseType DEF StType
<1>5. \E x \in {"acked", "failed"} : pc' = [pc EXCEPT ![w] = x]
  BY Zenon DEF ApplyReordered, AbandonApply, AbandonSync
<1>6. UNCHANGED <<logVars, tableVars, markVars, runVars, firm, dead, tainted>>
  BY Zenon DEF ApplyReordered, AbandonApply, AbandonSync
<1>7. \A s \in Segments :
        \/ st'[s] = st[s]
        \/ st[s] \in {"open", "closed"} /\ st'[s] = "closed"
        \/ st[s] \in {"open", "closed"} /\ dirty'[s] = {} /\ st'[s] = "condemned"
  BY Zenon, <1>3, <1>4
<1> QED
  BY Zenon, <1>1, <1>2, <1>4, <1>5, <1>6, <1>7

LEMMA LogWrite ==
  ASSUME TypeOK, LogInv, HandleInv, NEW w \in Writes, WriteStep(w)
  PROVE  LogInv'
<1> USE DEF logVars, tableVars, markVars, runVars
<1>1. CASE \E p \in Parts : Allocate(w, p)
  <2>1. PICK p \in Parts : Allocate(w, p)
    BY Zenon, <1>1
  <2>2. PICK s \in Segments :
          /\ seg' = [seg EXCEPT ![w] = s]
          /\ st' = [st EXCEPT ![s] = "open"]
    BY Zenon, <2>1 DEF Allocate, SegmentsOf
  <2>3. phase' = "up" /\ last' = last + 1 /\ last \in Nat
    BY Zenon, <2>1 DEF Allocate, TypeOK
  <2>4. synced' \subseteq {v \in Writes : seg'[v] # NoSegment}
    BY Zenon, <2>1, <2>2, NoSegmentIsNone DEF Allocate, LogInv, TypeOK
  <2>5. ASSUME NEW v \in Writes PROVE LogOf(v)'
    <3>1. LogOf(v)
      BY Zenon DEF LogInv
    <3>2. seg'[v] # NoSegment => st'[seg'[v]] # "unborn"
      BY Zenon, <2>2, <3>1 DEF LogOf, TypeOK
    <3>3. CASE v = w
      BY <2>1, <2>3, <3>2, <3>3 DEF Allocate, LogOf, TypeOK
    <3>4. CASE v # w
      <4>1. /\ pc'[v] = pc[v] /\ part'[v] = part[v] /\ seg'[v] = seg[v] /\ rp'[v] = rp[v]
            /\ v \in tainted' <=> v \in tainted
        BY Zenon, <2>1, <2>2, <3>4 DEF Allocate, TypeOK
      <4>2. rp[v] \in Nat /\ phase = "up"
        BY Zenon, <2>1 DEF Allocate, TypeOK
      <4> QED
        BY <2>3, <3>1, <3>2, <4>1, <4>2 DEF LogOf
    <3> QED
      BY Zenon, <3>3, <3>4
  <2>6. ASSUME NEW q \in Parts PROVE BoundsOf(q)'
    <3>1. BoundsOf(q)
      BY Zenon DEF LogInv
    <3>2. UNCHANGED <<highest, lowest, record, trunc, sealed, retired, sstables, active, phase>>
      BY Zenon, <2>1 DEF Allocate
    <3>3. /\ highest[q] \in Nat /\ lowest[q] \in Nat /\ record[q] \in Nat /\ trunc[q].low \in Nat
          /\ trunc[q].found \in Nat /\ active[q].pos \in Nat
          /\ \A m \in sealed[q] \cup retired[q] \cup sstables[q] \cup trunc[q].remove : m.pos \in Nat
      BY DEF TypeOK, Trunc, Memtable
    <3> QED
      BY <2>3, <3>1, <3>2, <3>3 DEF BoundsOf
  <2> QED
    BY Zenon, <2>3, <2>4, <2>5, <2>6 DEF LogInv, LogOf, BoundsOf
<1>2. CASE Apply(w)
  <2>1. part[w] \in Parts /\ rp[w] \in Nat /\ rp[w] <= last /\ last \in Nat
    BY Zenon, <1>2 DEF Apply, LogInv, LogOf, TypeOK
  <2>2. active[part[w]].pos \in Nat /\ highest[part[w]] \in Nat
    BY Zenon, <2>1 DEF TypeOK, Memtable
  <2>3. ASSUME NEW v \in Writes PROVE LogOf(v)'
    <3>1. LogOf(v)
      BY Zenon DEF LogInv
    <3> QED
      BY Zenon, <1>2, <3>1 DEF Apply, LogOf, TypeOK
  <2>4. ASSUME NEW q \in Parts PROVE BoundsOf(q)'
    <3>1. BoundsOf(q)
      BY Zenon DEF LogInv
    <3>2. UNCHANGED <<last, lowest, record, trunc, sealed, retired, sstables, phase>>
      BY Zenon, <1>2 DEF Apply
    <3>3. lowest[q] <= highest'[q] /\ highest'[q] <= last
      <4>1. highest' = [highest EXCEPT ![part[w]] = Larger(@, rp[w])]
        BY Zenon, <1>2 DEF Apply
      <4>2. highest'[q] = highest[q] \/ (q = part[w] /\ highest'[q] = Larger(highest[q], rp[w]))
        BY Zenon, <4>1 DEF TypeOK
      <4>3. lowest[q] \in Nat /\ highest[q] \in Nat
        BY Zenon DEF TypeOK
      <4> QED
        BY <2>1, <3>1, <4>2, <4>3 DEF BoundsOf, Larger
    <3>4. active'[q].pos <= last
      <4>1. active' = [active EXCEPT ![part[w]] = [data |-> @.data \cup {w}, held |-> @.held \cup {w},
                                                   pos |-> Larger(@.pos, rp[w])]]
        BY Zenon, <1>2 DEF Apply
      <4>2. active'[q] = active[q] \/ active'[q].pos = Larger(active[q].pos, rp[w])
        BY Zenon, <4>1 DEF TypeOK
      <4>3. active[q].pos \in Nat
        BY Zenon DEF TypeOK, Memtable
      <4> QED
        BY Zenon, <2>1, <3>1, <4>2, <4>3 DEF BoundsOf, Larger
    <3> QED
      BY Zenon, <3>1, <3>2, <3>3, <3>4 DEF BoundsOf
  <2>5. phase' = "up" /\ synced' \subseteq {v \in Writes : seg'[v] # NoSegment}
    BY Zenon, <1>2 DEF Apply, LogInv
  <2> QED
    BY Zenon, <2>3, <2>4, <2>5 DEF LogInv, LogOf, BoundsOf
<1>3. CASE ApplyReordered(w) \/ AbandonApply(w) \/ AbandonSync(w)
  <2>1. /\ UNCHANGED <<logVars, tableVars, markVars, runVars, tainted>> /\ phase = "up"
        /\ pc[w] = "logged"
        /\ \E x \in {"acked", "failed"} : pc' = [pc EXCEPT ![w] = x]
    BY Zenon, <1>3, ReleaseFacts
  <2>2. \A s \in Segments : st[s] # "unborn" => st'[s] # "unborn"
    BY Zenon, <1>3, ReleaseFacts
  <2>3. ASSUME NEW v \in Writes PROVE LogOf(v)'
    <3>1. LogOf(v) /\ seg[v] \in Segments \cup {NoSegment}
      BY Zenon DEF LogInv, TypeOK
    <3> QED
      BY Zenon, <2>1, <2>2, <3>1 DEF LogOf, TypeOK
  <2>4. ASSUME NEW q \in Parts PROVE BoundsOf(q)'
    <3>1. BoundsOf(q)
      BY Zenon DEF LogInv
    <3> QED
      BY Zenon, <2>1, <3>1 DEF BoundsOf
  <2>5. phase' = "up" /\ synced' \subseteq {v \in Writes : seg'[v] # NoSegment}
    BY Zenon, <2>1 DEF LogInv
  <2> QED
    BY Zenon, <2>3, <2>4, <2>5 DEF LogInv, LogOf, BoundsOf
<1> QED
  BY Zenon, <1>1, <1>2, <1>3 DEF WriteStep

LEMMA LogSegment ==
  ASSUME TypeOK, LogInv, NEW s \in Segments, SegmentStep(s)
  PROVE  LogInv'
<1> USE DEF logVars, tableVars, markVars, runVars
<1>1. /\ UNCHANGED <<part, rp, seg, last, pc, tableVars, markVars, runVars, tainted>> /\ phase = "up"
  BY Zenon DEF SegmentStep, Sync, CloseSegment, DeleteFile
<1>2. synced' \subseteq {v \in Writes : seg[v] # NoSegment}
  BY Zenon, NoSegmentIsNone DEF SegmentStep, Sync, CloseSegment, DeleteFile, LogInv, EntriesOf, TypeOK
<1>3. \A r \in Segments : st[r] # "unborn" => st'[r] # "unborn"
  BY Zenon DEF SegmentStep, Sync, CloseSegment, DeleteFile, TypeOK
<1>4. \A v \in Writes : seg[v] \in Segments \cup {NoSegment}
  BY Zenon DEF TypeOK
<1>5. \A v \in Writes : LogOf(v)'
  BY Zenon, <1>1, <1>3, <1>4 DEF LogInv, LogOf
<1>6. \A q \in Parts : BoundsOf(q)'
  BY Zenon, <1>1 DEF LogInv, BoundsOf
<1> QED
  BY Zenon, <1>1, <1>2, <1>5, <1>6 DEF LogInv

LEMMA SealedFacts ==
  ASSUME TypeOK, NEW p \in Parts
  PROVE  /\ sealed[p] \subseteq SealedAfter(p) /\ SealedAfter(p) \subseteq sealed[p] \cup {active[p]}
         /\ active[p].data # {} => active[p] \in SealedAfter(p)
BY Zenon DEF SealedAfter

LEMMA LogPart ==
  ASSUME TypeOK, LogInv, NEW p \in Parts, PartStep(p)
  PROVE  LogInv'
<1> USE DEF logVars, tableVars, markVars, runVars
<1>1. UNCHANGED <<logVars, pc, markVars, runVars, tainted>>
  BY Zenon DEF PartStep, Seal, Compact, WriteSSTable, DiscardLog
<1>2. \A s \in Segments : st'[s] = st[s] \/ (st[s] = "closed" /\ st'[s] = "condemned")
  <2>1. CASE \E m \in retired[p] : DiscardLog(p, m)
    <3>1. PICK m \in retired[p] : DiscardLog(p, m)
      BY Zenon, <2>1
    <3>2. st' = DiscardUnused(st, dirty')
      BY Zenon, <3>1 DEF DiscardLog
    <3> QED
      BY <3>2, DiscardType DEF TypeOK
  <2> QED
    BY Zenon, <2>1 DEF PartStep, Seal, Compact, WriteSSTable
<1>3. ASSUME NEW v \in Writes PROVE LogOf(v)'
  <2>1. LogOf(v) /\ seg[v] \in Segments \cup {NoSegment}
    BY Zenon DEF LogInv, TypeOK
  <2> QED
    BY Zenon, <1>1, <1>2, <2>1 DEF LogOf
<1>4. ASSUME NEW q \in Parts PROVE BoundsOf(q)'
  <2>1. BoundsOf(q)
    BY Zenon DEF LogInv
  <2>2. active'[q].pos <= last
    <3>1. active'[q] \in {active[q], Empty}
      BY Zenon DEF PartStep, Seal, Compact, WriteSSTable, DiscardLog, TypeOK
    <3>2. 0 <= last
      BY DEF TypeOK
    <3> QED
      BY Zenon, <2>1, <3>1, <3>2, EmptyType DEF BoundsOf
  <2>3. \A m \in sealed'[q] \cup retired'[q] : m.pos <= last
    <3>1. sealed'[q] \cup retired'[q] \subseteq sealed[q] \cup retired[q] \cup {active[q]}
      <4>1. CASE Seal(p)
        BY Zenon, <4>1, SealedFacts DEF Seal, TypeOK
      <4>2. CASE \E m \in sealed[p] : WriteSSTable(p, m)
        BY <4>2 DEF WriteSSTable, TypeOK
      <4>3. CASE \E m \in retired[p] : DiscardLog(p, m)
        BY <4>3 DEF DiscardLog, TypeOK
      <4>4. CASE Compact(p)
        BY Zenon, <4>4 DEF Compact
      <4> QED
        BY Zenon, <4>1, <4>2, <4>3, <4>4 DEF PartStep
    <3> QED
      BY Zenon, <2>1, <3>1 DEF BoundsOf
  <2>4. \A m \in sstables'[q] : m.pos <= last
    <3>1. CASE Compact(p)
      <4>1. PICK a \in sstables[p], b \in sstables[p] :
              sstables' = [sstables EXCEPT ![p] = (@ \ {a, b}) \cup
                             {[data |-> a.data \cup b.data, held |-> {}, pos |-> Larger(a.pos, b.pos)]}]
        BY Zenon, <3>1 DEF Compact
      <4>2. a.pos <= last /\ b.pos <= last
        BY Zenon DEF LogInv, BoundsOf
      <4>3. Larger(a.pos, b.pos) <= last
        BY Zenon, <4>2 DEF Larger
      <4> QED
        BY <2>1, <4>1, <4>3 DEF BoundsOf, TypeOK
    <3>2. CASE \E m \in sealed[p] : WriteSSTable(p, m)
      <4>1. PICK m \in sealed[p] : WriteSSTable(p, m)
        BY Zenon, <3>2
      <4>2. m \in Memtable /\ m.pos <= last
        BY Zenon DEF LogInv, BoundsOf, TypeOK
      <4>3. [m EXCEPT !.held = {}].pos <= last
        BY Zenon, <4>2 DEF Memtable
      <4>4. sstables'[q] \subseteq sstables[q] \cup {[m EXCEPT !.held = {}]}
        BY Zenon, <4>1 DEF WriteSSTable, TypeOK
      <4> QED
        BY Zenon, <2>1, <4>3, <4>4 DEF BoundsOf
    <3>3. CASE sstables' = sstables
      BY Zenon, <2>1, <3>3 DEF BoundsOf
    <3> QED
      BY Zenon, <3>1, <3>2, <3>3 DEF PartStep, Seal, DiscardLog
  <2> QED
    BY Zenon, <1>1, <2>1, <2>2, <2>3, <2>4 DEF BoundsOf
<1>5. /\ phase' # "up" => \A s \in Segments : st'[s] \in {"unborn", "old", "gone"}
      /\ synced' \subseteq {v \in Writes : seg'[v] # NoSegment}
  BY Zenon, <1>1, <1>2 DEF LogInv
<1> QED
  BY Zenon, <1>3, <1>4, <1>5 DEF LogInv, LogOf, BoundsOf

LEMMA LogTruncate ==
  ASSUME TypeOK, LogInv, NEW p \in Parts, TruncateStep(p)
  PROVE  LogInv'
<1> USE DEF logVars, tableVars, markVars, runVars
<1>1. UNCHANGED <<logVars, pc, st, runVars, retired, highest, tainted>> /\ phase = "up"
  BY Zenon DEF TruncateStep, SetLowMark, FlushToTruncate, DiscardSSTables, DeleteSSTables, SaveRecord
<1>2. ASSUME NEW q \in Parts PROVE BoundsOf(q)'
  <2>1. BoundsOf(q) /\ last \in Nat
    BY Zenon DEF LogInv, TypeOK
  <2>2. lowest'[q] <= highest[q]
    <3>1. CASE SetLowMark(p)
      BY <2>1, <3>1 DEF SetLowMark, BoundsOf, TypeOK
    <3>2. CASE lowest' = lowest
      BY Zenon, <2>1, <3>2 DEF BoundsOf
    <3> QED
      BY Zenon, <3>1, <3>2 DEF TruncateStep, FlushToTruncate, DiscardSSTables, DeleteSSTables, SaveRecord
  <2>3. active'[q].pos <= last
    <3>1. active'[q] \in {active[q], Empty}
      BY Zenon DEF TruncateStep, SetLowMark, FlushToTruncate, DiscardSSTables, DeleteSSTables, SaveRecord, TypeOK
    <3> QED
      BY <2>1, <3>1, EmptyType DEF BoundsOf
  <2>4. \A m \in sealed'[q] : m.pos <= last
    <3>1. sealed'[q] \subseteq sealed[q] \cup {active[q]}
      <4>1. CASE FlushToTruncate(p)
        BY Zenon, <4>1, SealedFacts DEF FlushToTruncate, TypeOK
      <4>2. CASE sealed' = sealed
        BY Zenon, <4>2
      <4> QED
        BY Zenon, <4>1, <4>2 DEF TruncateStep, SetLowMark, DiscardSSTables, DeleteSSTables, SaveRecord
    <3> QED
      BY Zenon, <2>1, <3>1 DEF BoundsOf
  <2>5. \A m \in sstables'[q] : m.pos <= last
    <3>1. sstables'[q] \subseteq sstables[q]
      <4>1. CASE DiscardSSTables(p)
        <5>1. PICK remove \in SUBSET sstables[p] : sstables' = [sstables EXCEPT ![p] = @ \ remove]
          BY Zenon, <4>1 DEF DiscardSSTables
        <5> QED
          BY Zenon, <5>1 DEF TypeOK
      <4>2. CASE sstables' = sstables
        BY Zenon, <4>2
      <4> QED
        BY Zenon, <4>1, <4>2 DEF TruncateStep, SetLowMark, FlushToTruncate, DeleteSSTables, SaveRecord
    <3> QED
      BY Zenon, <2>1, <3>1 DEF BoundsOf
  <2>6. /\ trunc'[q].low <= last /\ trunc'[q].found <= last
        /\ \A m \in trunc'[q].remove : m.pos <= last
    <3>1. CASE q # p
      BY Zenon, <2>1, <3>1, TruncateFacts DEF BoundsOf
    <3>2. CASE q = p
      BY <2>1, <3>2, TruncateFacts DEF BoundsOf
    <3> QED
      BY Zenon, <3>1, <3>2
  <2>7. record'[q] <= last
    <3>1. CASE SaveRecord(p)
      <4>1. PICK r \in Parts : record' = [record EXCEPT ![r] = Larger(trunc[p].low, trunc[p].found)]
        BY Zenon, <3>1, RecordType
      <4>2. trunc[p].low <= last /\ trunc[p].found <= last
        BY Zenon DEF LogInv, BoundsOf
      <4> QED
        BY Zenon, <2>1, <4>1, <4>2 DEF Larger, BoundsOf, TypeOK
    <3>2. CASE record' = record
      BY Zenon, <2>1, <3>2 DEF BoundsOf
    <3> QED
      BY Zenon, <3>1, <3>2 DEF TruncateStep, SetLowMark, FlushToTruncate, DiscardSSTables, DeleteSSTables
  <2> QED
    BY Zenon, <1>1, <2>1, <2>2, <2>3, <2>4, <2>5, <2>6, <2>7 DEF BoundsOf
<1>3. \A v \in Writes : LogOf(v)'
  BY Zenon, <1>1 DEF LogInv, LogOf
<1>4. phase' = "up" /\ synced' \subseteq {v \in Writes : seg'[v] # NoSegment}
  BY Zenon, <1>1 DEF LogInv
<1> QED
  BY Zenon, <1>2, <1>3, <1>4 DEF LogInv, LogOf, BoundsOf


LEMMA LogTable ==
  ASSUME TypeOK, LogInv, NEW t \in Tables, TableStep(t)
  PROVE  LogInv'
<1> USE DEF logVars, tableVars, markVars, runVars
<1>1. UNCHANGED <<logVars, pc, st, tableVars, highest, lowest, record, phase>> /\ phase = "up"
  BY Zenon DEF TableStep, RequestTruncate, TakeTime, Truncated
<1>2. tainted' = tainted \/ tainted' = tainted \cup WritesOf(t)
  BY Zenon DEF TableStep, RequestTruncate, TakeTime, Truncated
<1>3. ASSUME NEW v \in Writes PROVE LogOf(v)'
  <2>1. LogOf(v)
    BY Zenon DEF LogInv
  <2>2. pc[v] = "idle" => v \notin WritesOf(t)
    BY Zenon, <2>1, NoPartIsNone DEF LogOf, WritesOf, Parts
  <2> QED
    BY Zenon, <1>1, <1>2, <2>1, <2>2 DEF LogOf
<1>4. ASSUME NEW q \in Parts PROVE BoundsOf(q)'
  <2>1. BoundsOf(q) /\ last \in Nat
    BY Zenon DEF LogInv, TypeOK
  <2>2. /\ trunc'[q].low \in {trunc[q].low, 0} /\ trunc'[q].found \in {trunc[q].found, 0}
        /\ trunc'[q].remove \subseteq trunc[q].remove
    BY Zenon, TableFacts
  <2> QED
    BY <1>1, <2>1, <2>2 DEF BoundsOf
<1>5. phase' = "up" /\ synced' \subseteq {v \in Writes : seg'[v] # NoSegment}
  BY Zenon, <1>1 DEF LogInv
<1> QED
  BY Zenon, <1>3, <1>4, <1>5 DEF LogInv, LogOf, BoundsOf

(* What a crash does. *)
LEMMA CrashFacts ==
  ASSUME TypeOK, LogInv, Crash
  PROVE  /\ phase' = "down"
         /\ UNCHANGED <<part, rp, last, record, firm, tainted>>
         /\ \A w \in Writes : pc'[w] # "logged" /\ (pc[w] # "logged" => pc'[w] = pc[w])
         /\ \A w \in Writes : pc'[w] = "idle" <=> pc[w] = "idle"
         /\ \A w \in Writes : seg'[w] \in {seg[w], NoSegment}
         /\ synced' = {w \in Writes : seg'[w] # NoSegment}
         /\ \A w \in synced : seg'[w] = seg[w] /\ w \in synced'
         /\ \A s \in Segments : st'[s] = IF HasFile(s) THEN "old" ELSE st[s]
         /\ \A s \in Segments : dirty'[s] = {}
         /\ \A p \in Parts :
              /\ active'[p] = Empty /\ sealed'[p] = {} /\ retired'[p] = {} /\ trunc'[p] = Idle
              /\ highest'[p] = 0 /\ lowest'[p] = 0
              /\ sstables[p] \subseteq sstables'[p]
              /\ sstables'[p] \subseteq sstables[p] \cup trunc[p].remove
<1>1. PICK lost \in SUBSET {w \in Writes : seg[w] # NoSegment /\ w \notin synced} :
        /\ seg' = [w \in Writes |-> IF w \in lost THEN NoSegment ELSE seg[w]]
        /\ synced' = {w \in Writes : seg[w] # NoSegment /\ w \notin lost}
  BY Zenon DEF Crash
<1>2. PICK back :
        /\ \A p \in Parts : back[p] \subseteq trunc[p].remove
        /\ sstables' = [p \in Parts |-> sstables[p] \cup back[p]]
  BY Zenon DEF Crash
<1>3. /\ \A w \in Writes : seg'[w] \in {seg[w], NoSegment}
      /\ synced' = {w \in Writes : seg'[w] # NoSegment}
      /\ \A w \in synced : seg'[w] = seg[w] /\ w \in synced'
  BY Zenon, <1>1 DEF LogInv
<1>4. \A p \in Parts : /\ sstables[p] \subseteq sstables'[p]
                       /\ sstables'[p] \subseteq sstables[p] \cup trunc[p].remove
  BY Zenon, <1>2
<1>5. /\ \A w \in Writes : pc'[w] # "logged" /\ (pc[w] # "logged" => pc'[w] = pc[w])
      /\ \A w \in Writes : pc'[w] = "idle" <=> pc[w] = "idle"
  BY Zenon DEF Crash
<1>6. /\ \A s \in Segments : st'[s] = IF HasFile(s) THEN "old" ELSE st[s]
      /\ \A s \in Segments : dirty'[s] = {}
  BY Zenon DEF Crash
<1>7. \A p \in Parts :
        /\ active'[p] = Empty /\ sealed'[p] = {} /\ retired'[p] = {} /\ trunc'[p] = Idle
        /\ highest'[p] = 0 /\ lowest'[p] = 0
  BY Zenon DEF Crash
<1>8. phase' = "down" /\ UNCHANGED <<part, rp, last, record, firm, tainted>>
  BY Zenon DEF Crash
<1> QED
  BY Zenon, <1>3, <1>4, <1>5, <1>6, <1>7, <1>8

LEMMA LogNode ==
  ASSUME TypeOK, LogInv, Crash \/ Replay \/ Serve
  PROVE  LogInv'
<1> USE DEF logVars, tableVars, markVars, runVars
<1>1. CASE Crash
  <2>1. \A s \in Segments : st'[s] \in {"unborn", "old", "gone"}
    BY <1>1, CrashFacts DEF HasFile, TypeOK
  <2>2. ASSUME NEW v \in Writes PROVE LogOf(v)'
    <3>1. LogOf(v) /\ seg[v] \in Segments \cup {NoSegment}
      BY Zenon DEF LogInv, TypeOK
    <3>2. \A s \in Segments : st[s] # "unborn" => st'[s] # "unborn"
      BY Zenon, <1>1, CrashFacts
    <3>3. seg'[v] # NoSegment => st'[seg'[v]] # "unborn"
      <4>1. seg'[v] \in {seg[v], NoSegment} /\ (seg[v] # NoSegment => st[seg[v]] # "unborn")
        BY Zenon, <1>1, <3>1, CrashFacts DEF LogOf
      <4> QED
        BY Zenon, <3>1, <3>2, <4>1
    <3>4. /\ pc'[v] # "logged" /\ (pc'[v] = "idle" <=> pc[v] = "idle")
          /\ seg[v] = NoSegment => seg'[v] = NoSegment
          /\ UNCHANGED <<part, rp, last, tainted>>
      BY Zenon, <1>1, CrashFacts
    <3> QED
      BY Zenon, <3>1, <3>3, <3>4 DEF LogOf
  <2>3. ASSUME NEW q \in Parts PROVE BoundsOf(q)'
    <3>1. BoundsOf(q) /\ last \in Nat
      BY Zenon DEF LogInv, TypeOK
    <3>2. /\ active'[q] = Empty /\ sealed'[q] = {} /\ retired'[q] = {} /\ trunc'[q] = Idle
          /\ highest'[q] = 0 /\ lowest'[q] = 0 /\ sstables'[q] \subseteq sstables[q] \cup trunc[q].remove
          /\ record' = record /\ last' = last
      BY Zenon, <1>1, CrashFacts
    <3> QED
      BY <3>1, <3>2, EmptyType, IdleType DEF BoundsOf
  <2>4. synced' \subseteq {v \in Writes : seg'[v] # NoSegment}
    BY Zenon, <1>1, CrashFacts
  <2> QED
    BY Zenon, <2>1, <2>2, <2>3, <2>4 DEF LogInv, LogOf, BoundsOf
<1>2. CASE Replay
  <2>1. /\ UNCHANGED <<logVars, pc, st, sealed, retired, sstables, markVars, tainted>>
        /\ phase = "down" /\ phase' = "replayed"
    BY Zenon, <1>2 DEF Replay
  <2>2. \A v \in Writes : LogOf(v)'
    BY Zenon, <2>1 DEF LogInv, LogOf
  <2>3. ASSUME NEW q \in Parts PROVE BoundsOf(q)'
    <3>1. BoundsOf(q) /\ last \in Nat
      BY Zenon DEF LogInv, TypeOK
    <3>2. active'[q].pos = 0
      BY Zenon, <1>2 DEF Replay
    <3> QED
      BY <2>1, <3>1, <3>2 DEF BoundsOf
  <2>4. /\ \A s \in Segments : st'[s] \in {"unborn", "old", "gone"}
        /\ synced' \subseteq {v \in Writes : seg'[v] # NoSegment}
    BY Zenon, <2>1 DEF LogInv
  <2> QED
    BY Zenon, <2>2, <2>3, <2>4 DEF LogInv, LogOf, BoundsOf
<1>3. CASE Serve
  <2>1. /\ UNCHANGED <<logVars, pc, st, tableVars, markVars, tainted>> /\ phase' = "up"
    BY Zenon, <1>3 DEF Serve
  <2> QED
    BY Zenon, <2>1 DEF LogInv, LogOf, BoundsOf
<1> QED
  BY Zenon, <1>1, <1>2, <1>3

LEMMA LogStep ==
  ASSUME TypeOK, LogInv, HandleInv, [Next]_vars
  PROVE  LogInv'
<1>1. CASE UNCHANGED vars
  BY Zenon, <1>1 DEF vars, logVars, tableVars, markVars, runVars, LogInv, LogOf, BoundsOf
<1> QED
  BY Zenon, <1>1, LogWrite, LogSegment, LogPart, LogTruncate, LogTable, LogNode DEF Next

----------------------------------------------------------------------------
(* What memtables and sstables hold.                                       *)

LEMMA ApartSealed ==
  ASSUME NEW a, NEW ss, NEW rs, NEW new, new \subseteq ss \cup {a}, Apart(a, ss, rs)
  PROVE  Apart(Empty, new, rs)
<1>1. ASSUME NEW m \in new \cup rs, NEW n \in new \cup rs, m # n PROVE m.held \cap n.held = {}
  <2>1. (m \in ss \cup rs \/ m = a) /\ (n \in ss \cup rs \/ n = a)
    BY Zenon
  <2> QED
    BY Zenon, <1>1, <2>1 DEF Apart
<1>2. ASSUME NEW m \in new \cap rs PROVE m.held = {}
  BY Zenon DEF Apart
<1>3. ASSUME NEW m PROVE m.held \cap Empty.held = {}
  BY Zenon, EmptyType
<1> QED
  BY Zenon, <1>1, <1>2, <1>3 DEF Apart

LEMMA ApartFlushed ==
  ASSUME NEW a, NEW ss, NEW rs, NEW m \in ss, Apart(a, ss, rs)
  PROVE  Apart(a, ss \ {m}, rs \cup {m})
<1>1. (ss \ {m}) \cup (rs \cup {m}) = ss \cup rs
  BY Zenon
<1>2. (ss \ {m}) \cap (rs \cup {m}) \subseteq ss \cap rs
  BY Zenon
<1> QED
  BY Zenon, <1>1, <1>2 DEF Apart

LEMMA ApartFewer ==
  ASSUME NEW a, NEW ss, NEW rs, NEW fewer, fewer \subseteq rs, Apart(a, ss, rs)
  PROVE  Apart(a, ss, fewer)
BY Zenon DEF Apart

LEMMA ApartMore ==
  ASSUME NEW a, NEW ss, NEW rs, NEW b, NEW w, b.held = a.held \cup {w},
         \A m \in ss \cup rs : w \notin m.held, Apart(a, ss, rs)
  PROVE  Apart(b, ss, rs)
<1>1. ASSUME NEW m \in ss \cup rs PROVE m.held \cap b.held = {}
  <2>1. w \notin m.held /\ m.held \cap a.held = {}
    BY Zenon DEF Apart
  <2> QED
    BY Zenon, <2>1
<1> QED
  BY Zenon, <1>1 DEF Apart

LEMMA TableWrite ==
  ASSUME TypeOK, LogInv, TableInv, HandleInv, NEW w \in Writes, WriteStep(w)
  PROVE  TableInv'
<1> USE DEF logVars, tableVars, markVars, runVars
<1>1. CASE \E p \in Parts : Allocate(w, p)
  <2>1. PICK p \in Parts : Allocate(w, p)
    BY Zenon, <1>1
  <2>2. /\ UNCHANGED <<tableVars, trunc, phase>> /\ pc[w] = "idle"
        /\ \A v \in Writes \ {w} : pc'[v] = pc[v] /\ part'[v] = part[v]
    BY Zenon, <2>1 DEF Allocate, TypeOK
  <2>3. ASSUME NEW q \in Parts, NEW m \in Holders(q) PROVE Fits(m, q)'
    <3>1. Fits(m, q)
      BY Zenon DEF TableInv
    <3>2. m.data \subseteq Writes
      BY DEF Holders, Unflushed, TypeOK, Memtable, Trunc
    <3> QED
      BY Zenon, <2>2, <3>1, <3>2 DEF Fits
  <2>4. \A q \in Parts : Handles(q)' /\ Holders(q)' = Holders(q)
    BY Zenon, <2>2 DEF TableInv, Handles, Holders, Unflushed
  <2> QED
    BY Zenon, <2>3, <2>4 DEF TableInv
<1>2. CASE Apply(w)
  <2>1. PICK p \in Parts : p = part[w]
    BY Zenon, <1>2 DEF Apply, LogInv, LogOf
  <2>2. /\ active' = [active EXCEPT ![p] = [data |-> @.data \cup {w}, held |-> @.held \cup {w},
                                            pos |-> Larger(@.pos, rp[w])]]
        /\ UNCHANGED <<sealed, retired, sstables, trunc, phase, part>> /\ phase = "up" /\ pc[w] = "logged"
        /\ pc' = [pc EXCEPT ![w] = "acked"]
    BY Zenon, <1>2, <2>1 DEF Apply
  <2>3. \A q \in Parts \ {p} : active'[q] = active[q]
    BY Zenon, <2>2 DEF TypeOK
  <2>4. active'[p].data = active[p].data \cup {w} /\ active'[p].held = active[p].held \cup {w}
    BY Zenon, <2>2 DEF TypeOK
  <2>5. pc'[w] = "acked" /\ \A v \in Writes \ {w} : pc'[v] = pc[v]
    BY Zenon, <2>2 DEF TypeOK
  <2>6. ASSUME NEW q \in Parts, NEW m \in Holders(q) PROVE Fits(m, q) /\ Fits(m, q)' /\ w \notin m.held
    <3>1. Fits(m, q)
      BY Zenon DEF TableInv
    <3>2. m.data \subseteq Writes
      BY DEF Holders, Unflushed, TypeOK, Memtable, Trunc
    <3> QED
      BY Zenon, <2>2, <2>5, <3>1, <3>2 DEF Fits
  <2>7. ASSUME NEW m, m = active'[p] PROVE Fits(m, p)'
    <3>1. PICK n \in Holders(p) : n = active[p]
      BY Zenon DEF Holders, Unflushed
    <3>2. Fits(n, p)' /\ m.data = n.data \cup {w} /\ m.held = n.held \cup {w}
      BY Zenon, <2>4, <2>6, <2>7, <3>1
    <3> QED
      BY Zenon, <2>1, <2>2, <2>5, <3>2 DEF Fits
  <2>8. ASSUME NEW q \in Parts, NEW m \in Holders(q)' PROVE Fits(m, q)'
    <3>1. m \in Holders(q) \/ (q = p /\ m = active'[p])
      BY Zenon, <2>2, <2>3 DEF Holders, Unflushed
    <3> QED
      BY Zenon, <2>6, <2>7, <3>1
  <2>9. ASSUME NEW q \in Parts PROVE Handles(q)'
    <3>1. Handles(q) /\ \A m \in sealed[q] \cup retired[q] : w \notin m.held
      <4>1. sealed[q] \cup retired[q] \subseteq Holders(q)
        BY Zenon DEF Holders, Unflushed
      <4> QED
        BY Zenon, <2>6, <4>1 DEF TableInv
    <3>2. CASE q # p
      BY Zenon, <2>2, <2>3, <3>1, <3>2 DEF Handles
    <3>3. CASE q = p
      <4>1. Apart(active'[q], sealed[q], retired[q])
        BY Zenon, <2>4, <3>1, <3>3, ApartMore DEF Handles
      <4>2. \A m \in {active'[q]} \cup sealed[q] : m.held = m.data
        BY ZenonT(60), <2>2, <2>4, <3>1, <3>3 DEF Handles
      <4> QED
        BY Zenon, <2>2, <4>1, <4>2 DEF Handles, Apart
    <3> QED
      BY Zenon, <3>2, <3>3
  <2> QED
    BY ZenonT(60), <2>8, <2>9 DEF TableInv
<1>3. CASE ApplyReordered(w) \/ AbandonApply(w) \/ AbandonSync(w)
  <2>1. UNCHANGED <<tableVars, trunc, phase, part>> /\ \E x \in {"acked", "failed"} : pc' = [pc EXCEPT ![w] = x]
    BY Zenon, <1>3, ReleaseFacts
  <2>2. \A v \in Writes : pc'[v] = pc[v] \/ pc'[v] \in {"acked", "failed"}
    BY Zenon, <2>1 DEF TypeOK
  <2>3. ASSUME NEW q \in Parts, NEW m \in Holders(q) PROVE Fits(m, q)'
    <3>1. Fits(m, q)
      BY Zenon DEF TableInv
    <3>2. m.data \subseteq Writes
      BY DEF Holders, Unflushed, TypeOK, Memtable, Trunc
    <3> QED
      BY Zenon, <2>1, <2>2, <3>1, <3>2 DEF Fits
  <2>4. \A q \in Parts : Handles(q)' /\ Holders(q)' = Holders(q)
    BY Zenon, <2>1 DEF TableInv, Handles, Holders, Unflushed
  <2> QED
    BY Zenon, <2>3, <2>4 DEF TableInv
<1> QED
  BY Zenon, <1>1, <1>2, <1>3 DEF WriteStep

(* The active memtable of p is sealed. *)
LEMMA TableSeal ==
  ASSUME TypeOK, TableInv, NEW p \in Parts,
         sealed' = [sealed EXCEPT ![p] = SealedAfter(p)],
         active' = [active EXCEPT ![p] = Empty],
         UNCHANGED <<retired, sstables, part, pc>>, phase' = phase, phase # "down",
         \A q \in Parts : trunc'[q].remove = trunc[q].remove
  PROVE  TableInv'
<1>1. /\ \A q \in Parts \ {p} : sealed'[q] = sealed[q] /\ active'[q] = active[q]
      /\ sealed'[p] = SealedAfter(p) /\ active'[p] = Empty
  BY Zenon DEF TypeOK
<1>2. Empty.data = {} /\ Empty.held = {}
  BY Zenon, EmptyType
<1>3. ASSUME NEW q \in Parts, NEW m \in Holders(q)' PROVE Fits(m, q)'
  <2>1. m \in Holders(q) \/ m = Empty
    <3>1. sealed'[q] \subseteq sealed[q] \cup {active[q]} /\ active'[q] \in {active[q], Empty}
      <4>1. CASE q = p
        BY <1>1, <4>1, SealedFacts
      <4>2. CASE q # p
        BY Zenon, <1>1, <4>2
      <4> QED
        BY Zenon, <4>1, <4>2
    <3> QED
      BY Zenon, <3>1 DEF Holders, Unflushed
  <2>2. m \in Holders(q) => Fits(m, q)
    BY Zenon DEF TableInv
  <2> QED
    BY Zenon, <1>2, <2>1, <2>2 DEF Fits
<1>4. ASSUME NEW q \in Parts PROVE Handles(q)'
  <2>1. Handles(q)
    BY Zenon DEF TableInv
  <2>2. CASE q # p
    BY Zenon, <1>1, <2>1, <2>2 DEF Handles
  <2>3. CASE q = p
    <3>1. Apart(Empty, SealedAfter(p), retired[p])
      BY Zenon, <2>1, <2>3, SealedFacts, ApartSealed DEF Handles
    <3>2. phase = "up" => \A m \in {Empty} \cup SealedAfter(p) : m.held = m.data
      BY Zenon, <1>2, <2>1, <2>3, SealedFacts DEF Handles
    <3> QED
      BY Zenon, <1>1, <2>3, <3>1, <3>2 DEF Handles, Apart
  <2> QED
    BY Zenon, <2>2, <2>3
<1> QED
  BY ZenonT(60), <1>3, <1>4 DEF TableInv

LEMMA TablePart ==
  ASSUME TypeOK, TableInv, NEW p \in Parts, PartStep(p)
  PROVE  TableInv'
<1> USE DEF logVars, tableVars, markVars, runVars
<1>1. CASE Seal(p)
  <2>1. \A q \in Parts : trunc'[q].remove = trunc[q].remove
    BY Zenon, <1>1 DEF Seal
  <2>2. phase # "down"
    BY Zenon, <1>1 DEF Seal
  <2> QED
    BY Zenon, <1>1, <2>1, <2>2, TableSeal DEF Seal
<1>2. CASE \E m \in sealed[p] : WriteSSTable(p, m)
  <2>1. PICK m \in sealed[p] : WriteSSTable(p, m)
    BY Zenon, <1>2
  <2>2. /\ UNCHANGED <<part, pc, active, trunc, phase>> /\ phase # "down"
        /\ sealed' = [sealed EXCEPT ![p] = @ \ {m}] /\ retired' = [retired EXCEPT ![p] = @ \cup {m}]
        /\ sstables' = [sstables EXCEPT ![p] = @ \cup {[m EXCEPT !.held = {}]}]
    BY Zenon, <2>1 DEF WriteSSTable
  <2>3. /\ \A q \in Parts \ {p} : sealed'[q] = sealed[q] /\ retired'[q] = retired[q] /\ sstables'[q] = sstables[q]
        /\ sealed'[p] = sealed[p] \ {m} /\ retired'[p] = retired[p] \cup {m}
        /\ sstables'[p] = sstables[p] \cup {[m EXCEPT !.held = {}]}
    BY Zenon, <2>2 DEF TypeOK
  <2>4. m \in Memtable /\ m \in Holders(p)
    BY Zenon DEF TypeOK, Holders, Unflushed
  <2>5. [m EXCEPT !.held = {}].data = m.data /\ [m EXCEPT !.held = {}].held = {}
    BY Zenon, <2>4 DEF Memtable
  <2>6. ASSUME NEW q \in Parts, NEW n \in Holders(q)' PROVE Fits(n, q)'
    <3>1. n \in Holders(q) \/ (q = p /\ n = [m EXCEPT !.held = {}])
      BY ZenonT(60), <2>2, <2>3 DEF Holders, Unflushed
    <3>2. Fits(m, p) /\ (n \in Holders(q) => Fits(n, q))
      BY Zenon, <2>4 DEF TableInv
    <3> QED
      BY Zenon, <2>2, <2>5, <3>1, <3>2 DEF Fits
  <2>7. ASSUME NEW q \in Parts PROVE Handles(q)'
    <3>1. Handles(q)
      BY Zenon DEF TableInv
    <3>2. CASE q # p
      BY Zenon, <2>2, <2>3, <3>1, <3>2 DEF Handles
    <3>3. CASE q = p
      <4>1. Apart(active[p], sealed[p] \ {m}, retired[p] \cup {m})
        BY Zenon, <3>1, <3>3, ApartFlushed DEF Handles
      <4> QED
        <5>1. Apart(active'[q], sealed'[q], retired'[q])
          BY Zenon, <2>2, <2>3, <3>3, <4>1
        <5>2. phase' = "up" => \A n \in {active'[q]} \cup sealed'[q] : n.held = n.data
          BY Zenon, <2>2, <2>3, <3>1, <3>3 DEF Handles
        <5> QED
          BY Zenon, <2>2, <5>1, <5>2 DEF Handles, Apart
    <3> QED
      BY Zenon, <3>2, <3>3
  <2> QED
    BY ZenonT(60), <2>6, <2>7 DEF TableInv
<1>3. CASE \E m \in retired[p] : DiscardLog(p, m)
  <2>1. PICK m \in retired[p] : DiscardLog(p, m)
    BY Zenon, <1>3
  <2>2. /\ UNCHANGED <<part, pc, active, sealed, sstables, trunc, phase>>
        /\ retired' = [retired EXCEPT ![p] = @ \ {m}]
    BY Zenon, <2>1 DEF DiscardLog
  <2>3. \A q \in Parts : retired'[q] \subseteq retired[q]
    BY Zenon, <2>2 DEF TypeOK
  <2>4. ASSUME NEW q \in Parts, NEW n \in Holders(q)' PROVE Fits(n, q)'
    <3>1. n \in Holders(q)
      BY Zenon, <2>2, <2>3 DEF Holders, Unflushed
    <3> QED
      BY ZenonT(60), <2>2, <3>1 DEF TableInv, Fits
  <2>5. ASSUME NEW q \in Parts PROVE Handles(q)'
    <3>1. Handles(q) /\ retired'[q] \subseteq retired[q]
      BY Zenon, <2>3 DEF TableInv
    <3> QED
      <4>1. Apart(active[q], sealed[q], retired'[q])
        BY Zenon, <3>1, ApartFewer DEF Handles
      <4> QED
        BY Zenon, <2>2, <3>1, <4>1 DEF Handles, Apart
  <2> QED
    BY ZenonT(60), <2>4, <2>5 DEF TableInv
<1>4. CASE Compact(p)
  <2>1. PICK a \in sstables[p], b \in sstables[p] :
          sstables' = [sstables EXCEPT ![p] = (@ \ {a, b}) \cup
                         {[data |-> a.data \cup b.data, held |-> {}, pos |-> Larger(a.pos, b.pos)]}]
    BY Zenon, <1>4 DEF Compact
  <2>2. UNCHANGED <<part, pc, active, sealed, retired, trunc, phase>>
    BY Zenon, <1>4 DEF Compact
  <2> DEFINE c == [data |-> a.data \cup b.data, held |-> {}, pos |-> Larger(a.pos, b.pos)]
  <2>3. c.data = a.data \cup b.data /\ c.held = {}
    BY Zenon DEF c
  <2>4. /\ \A q \in Parts \ {p} : sstables'[q] = sstables[q]
        /\ sstables'[p] \subseteq sstables[p] \cup {c}
    BY Zenon, <2>1 DEF TypeOK
  <2> HIDE DEF c
  <2>5. ASSUME NEW q \in Parts, NEW n \in Holders(q)' PROVE Fits(n, q)'
    <3>1. n \in Holders(q) \/ (q = p /\ n = c)
      BY Zenon, <2>2, <2>4 DEF Holders, Unflushed
    <3>2. Fits(a, p) /\ Fits(b, p) /\ (n \in Holders(q) => Fits(n, q))
      BY Zenon DEF TableInv, Holders
    <3> QED
      BY Zenon, <2>2, <2>3, <3>1, <3>2 DEF Fits
  <2>6. \A q \in Parts : Handles(q)'
    BY Zenon, <2>2 DEF TableInv, Handles
  <2> QED
    BY ZenonT(60), <2>5, <2>6 DEF TableInv
<1> QED
  BY Zenon, <1>1, <1>2, <1>3, <1>4 DEF PartStep


(* Memtables are left alone; sstables leave the set, or wait to be removed. *)
LEMMA TableFewer ==
  ASSUME TypeOK, TableInv, UNCHANGED <<part, pc, active, sealed, retired>>, phase' = phase,
         \A q \in Parts : /\ sstables'[q] \subseteq sstables[q]
                          /\ trunc'[q].remove \subseteq trunc[q].remove \cup sstables[q]
  PROVE  TableInv'
<1>1. ASSUME NEW q \in Parts, NEW n \in Holders(q)' PROVE Fits(n, q)'
  <2>1. n \in Holders(q)
    BY Zenon DEF Holders, Unflushed
  <2>2. Fits(n, q)
    BY Zenon, <2>1 DEF TableInv
  <2> QED
    BY Zenon, <2>2 DEF Fits
<1>2. \A q \in Parts : Handles(q)'
  BY Zenon DEF TableInv, Handles, Apart
<1> QED
  BY ZenonT(60), <1>1, <1>2 DEF TableInv

LEMMA TableTruncate ==
  ASSUME TypeOK, TableInv, NEW p \in Parts, TruncateStep(p)
  PROVE  TableInv'
<1> USE DEF logVars, tableVars, markVars, runVars
<1>1. CASE FlushToTruncate(p)
  <2>1. ASSUME NEW q \in Parts PROVE trunc'[q].remove = trunc[q].remove
    <3>1. trunc \in [Parts -> Trunc]
      BY Zenon DEF TypeOK
    <3> DEFINE x == IF trunc[p].pc = "marked" THEN "flushing" ELSE "snapshotting"
               r == [trunc[p] EXCEPT !.pc = x, !.wait = SealedAfter(p) \cup retired[p]]
    <3>2. trunc' = [trunc EXCEPT ![p] = r]
      BY Zenon, <1>1 DEF FlushToTruncate
    <3>3. r.remove = trunc[p].remove
      BY Zenon, <3>1 DEF Trunc
    <3> HIDE DEF r
    <3> QED
      BY Zenon, <3>1, <3>2, <3>3
  <2>2. phase # "down"
    BY Zenon, <1>1 DEF FlushToTruncate
  <2> QED
    BY Zenon, <1>1, <2>1, <2>2, TableSeal DEF FlushToTruncate
<1>2. CASE ~FlushToTruncate(p)
  <2>1. UNCHANGED <<part, pc, active, sealed, retired>> /\ phase' = phase
    BY Zenon, <1>2 DEF TruncateStep, SetLowMark, DiscardSSTables, DeleteSSTables, SaveRecord
  <2>2. ASSUME NEW q \in Parts PROVE sstables'[q] \subseteq sstables[q]
    <3>1. CASE DiscardSSTables(p)
      <4>1. PICK remove \in SUBSET sstables[p] : sstables' = [sstables EXCEPT ![p] = @ \ remove]
        BY Zenon, <3>1 DEF DiscardSSTables
      <4> QED
        BY Zenon, <4>1 DEF TypeOK
    <3>2. CASE sstables' = sstables
      BY Zenon, <3>2
    <3> QED
      BY Zenon, <1>2, <3>1, <3>2 DEF TruncateStep, SetLowMark, DeleteSSTables, SaveRecord
  <2>3. ASSUME NEW q \in Parts PROVE trunc'[q].remove \subseteq trunc[q].remove \cup sstables[q]
    BY Zenon, TruncateFacts
  <2> QED
    BY Zenon, <2>1, <2>2, <2>3, TableFewer
<1> QED
  BY Zenon, <1>1, <1>2

LEMMA TableTable ==
  ASSUME TypeOK, TableInv, NEW t \in Tables, TableStep(t)
  PROVE  TableInv'
<1>1. UNCHANGED <<part, pc, active, sealed, retired, sstables>> /\ phase' = phase
  BY Zenon DEF TableStep, RequestTruncate, TakeTime, Truncated, logVars, tableVars, runVars
<1>2. \A q \in Parts : trunc'[q].remove \subseteq trunc[q].remove
  BY Zenon, TableFacts
<1> QED
  BY Zenon, <1>1, <1>2, TableFewer

LEMMA TableNode ==
  ASSUME TypeOK, LogInv, TableInv, Crash \/ Replay \/ Serve
  PROVE  TableInv'
<1> USE DEF logVars, tableVars, markVars, runVars
<1>1. CASE Crash
  <2>1. /\ phase' = "down" /\ part' = part
        /\ \A w \in Writes : pc[w] # "logged" => pc'[w] = pc[w]
        /\ \A q \in Parts :
             /\ active'[q] = Empty /\ sealed'[q] = {} /\ retired'[q] = {} /\ trunc'[q] = Idle
             /\ sstables'[q] \subseteq sstables[q] \cup trunc[q].remove
    BY Zenon, <1>1, CrashFacts
  <2>2. Empty.data = {} /\ Empty.held = {} /\ Idle.remove = {}
    BY Zenon, EmptyType, IdleType
  <2>3. ASSUME NEW q \in Parts, NEW m \in Holders(q)' PROVE Fits(m, q)'
    <3>1. m \in sstables[q] \cup trunc[q].remove \/ m = Empty
      BY Zenon, <2>1, <2>2 DEF Holders, Unflushed
    <3>2. CASE m = Empty
      BY Zenon, <2>2, <3>2 DEF Fits
    <3>3. CASE m \in sstables[q] \cup trunc[q].remove
      <4>1. Fits(m, q)
        BY Zenon, <3>3 DEF TableInv, Holders
      <4>2. m.data \subseteq Writes
        BY <3>3 DEF TypeOK, Memtable, Trunc
      <4> QED
        BY Zenon, <2>1, <4>1, <4>2 DEF Fits
    <3> QED
      BY Zenon, <3>1, <3>2, <3>3
  <2>4. \A q \in Parts : Handles(q)'
    BY Zenon, <2>1, <2>2 DEF Handles, Apart
  <2> QED
    BY Zenon, <2>3, <2>4 DEF TableInv
<1>2. CASE Replay
  <2>1. /\ UNCHANGED <<part, pc, sealed, retired, sstables, trunc>> /\ phase = "down" /\ phase' = "replayed"
    BY Zenon, <1>2 DEF Replay
  <2>2. \A q \in Parts : /\ active'[q].data = {w \in Writes : part[w] = q /\ Replayed(w)}
                         /\ active'[q].held = {} /\ sealed'[q] = {} /\ retired'[q] = {}
    BY Zenon, <1>2 DEF Replay, TableInv, Handles
  <2>3. ASSUME NEW w \in Writes, Replayed(w) PROVE pc[w] # "idle" /\ pc[w] # "logged"
    BY Zenon, <2>1, <2>3 DEF LogInv, LogOf, Replayed
  <2>4. ASSUME NEW q \in Parts, NEW m \in Holders(q)' PROVE Fits(m, q)'
    <3>1. m \in sstables[q] \cup trunc[q].remove \/ m = active'[q]
      BY Zenon, <2>1, <2>2 DEF Holders, Unflushed
    <3>2. CASE m = active'[q]
      BY ZenonT(60), <2>1, <2>2, <2>3, <3>2 DEF Fits
    <3>3. CASE m \in sstables[q] \cup trunc[q].remove
      <4>1. Fits(m, q)
        BY Zenon, <3>3 DEF TableInv, Holders
      <4> QED
        BY Zenon, <2>1, <4>1 DEF Fits
    <3> QED
      BY Zenon, <3>1, <3>2, <3>3
  <2>5. \A q \in Parts : Handles(q)'
    BY Zenon, <2>1, <2>2 DEF Handles, Apart
  <2> QED
    BY Zenon, <2>4, <2>5 DEF TableInv
<1>3. CASE Serve
  <2>1. /\ UNCHANGED <<part, pc, active, sealed, retired, sstables, trunc>> /\ phase' = "up"
        /\ \A q \in Parts : active[q] = Empty /\ sealed[q] = {} /\ retired[q] = {}
    BY Zenon, <1>3 DEF Serve
  <2>2. Empty.data = {} /\ Empty.held = {}
    BY Zenon, EmptyType
  <2>3. ASSUME NEW q \in Parts, NEW m \in Holders(q)' PROVE Fits(m, q)'
    <3>1. m \in Holders(q)
      BY Zenon, <2>1 DEF Holders, Unflushed
    <3>2. Fits(m, q)
      BY Zenon, <3>1 DEF TableInv
    <3> QED
      BY Zenon, <2>1, <3>2 DEF Fits
  <2>4. \A q \in Parts : Handles(q)'
    BY Zenon, <2>1, <2>2 DEF Handles, Apart
  <2> QED
    BY Zenon, <2>3, <2>4 DEF TableInv
<1> QED
  BY Zenon, <1>1, <1>2, <1>3

LEMMA TableInvStep ==
  ASSUME TypeOK, LogInv, TableInv, HandleInv, [Next]_vars
  PROVE  TableInv'
<1>1. ASSUME UNCHANGED <<part, pc, tableVars, trunc, phase>> PROVE TableInv'
  BY Zenon, <1>1, TableFewer DEF tableVars
<1>2. ASSUME NEW s \in Segments, SegmentStep(s) PROVE TableInv'
  BY Zenon, <1>1, <1>2 DEF SegmentStep, Sync, CloseSegment, DeleteFile, logVars, markVars, runVars
<1>3. CASE UNCHANGED vars
  BY Zenon, <1>1, <1>3 DEF vars, logVars, markVars, runVars
<1> QED
  BY Zenon, <1>2, <1>3, TableWrite, TablePart, TableTruncate, TableTable, TableNode DEF Next

----------------------------------------------------------------------------
(* A handle keeps its segment.                                             *)

Keeps(p, w) == \E m \in Unflushed(p) : w \in m.held

LEMMA HeldParts ==
  ASSUME NEW w \in Writes
  PROVE  Held(w) <=> pc[w] = "logged" \/ \E p \in Parts : Keeps(p, w)
BY Zenon DEF Held, Keeps

LEMMA HandleSame ==
  ASSUME TypeOK, HandleInv, dirty' = dirty, seg' = seg,
         \A w \in Writes : Held(w)' <=> Held(w),
         \A s \in Segments : st[s] \in {"open", "closed"} => st'[s] \in {"open", "closed"}
  PROVE  HandleInv'
<1>1. DirtyCountsHandles'
  <2>1. ASSUME NEW s \in Segments PROVE dirty'[s] = {w \in Writes : seg'[w] = s /\ Held(w)'}
    <3>1. dirty[s] = {w \in Writes : seg[w] = s /\ Held(w)}
      BY Zenon DEF HandleInv, DirtyCountsHandles
    <3> QED
      BY Zenon, <3>1
  <2> QED
    BY Zenon, <2>1 DEF DirtyCountsHandles
<1>2. ASSUME NEW w \in Writes, Held(w)' PROVE seg'[w] # NoSegment /\ st'[seg'[w]] \in {"open", "closed"}
  <2>1. seg[w] # NoSegment /\ st[seg[w]] \in {"open", "closed"}
    BY Zenon, <1>2 DEF HandleInv
  <2>2. seg[w] \in Segments
    BY Zenon, <2>1 DEF TypeOK
  <2> QED
    BY Zenon, <2>1, <2>2
<1> QED
  BY Zenon, <1>1, <1>2 DEF HandleInv

LEMMA LoggedNotKept ==
  ASSUME TableInv, NEW w \in Writes, pc[w] = "logged" \/ pc[w] = "idle", NEW p \in Parts
  PROVE  ~Keeps(p, w)
<1>1. ASSUME NEW m \in Unflushed(p) PROVE w \notin m.held
  <2>1. Fits(m, p)
    BY Zenon DEF TableInv, Holders
  <2> QED
    BY Zenon, <2>1 DEF Fits
<1> QED
  BY Zenon, <1>1 DEF Keeps

LEMMA HandleWrite ==
  ASSUME TypeOK, LogInv, TableInv, HandleInv, NEW w \in Writes, WriteStep(w)
  PROVE  HandleInv'
<1> USE DEF logVars, tableVars, markVars, runVars
<1>1. CASE \E p \in Parts : Allocate(w, p)
  <2>1. PICK p \in Parts : Allocate(w, p)
    BY Zenon, <1>1
  <2>2. PICK s \in Segments :
          /\ seg' = [seg EXCEPT ![w] = s]
          /\ st' = [st EXCEPT ![s] = "open"]
          /\ dirty' = [dirty EXCEPT ![s] = @ \cup {w}]
    BY Zenon, <2>1 DEF Allocate, SegmentsOf
  <2>3. /\ seg'[w] = s /\ \A v \in Writes \ {w} : seg'[v] = seg[v]
        /\ st'[s] = "open" /\ \A r \in Segments \ {s} : st'[r] = st[r]
        /\ dirty'[s] = dirty[s] \cup {w} /\ \A r \in Segments \ {s} : dirty'[r] = dirty[r]
    BY Zenon, <2>2 DEF TypeOK
  <2>4. /\ pc[w] = "idle" /\ pc'[w] = "logged" /\ \A v \in Writes \ {w} : pc'[v] = pc[v]
        /\ UNCHANGED <<active, sealed, retired>> /\ seg[w] = NoSegment
    BY Zenon, <2>1 DEF Allocate, TypeOK, LogInv, LogOf
  <2>5. Held(w)' /\ \A v \in Writes \ {w} : Held(v)' <=> Held(v)
    BY Zenon, <2>4 DEF Held, Unflushed
  <2>6. ASSUME NEW r \in Segments PROVE dirty'[r] = {v \in Writes : seg'[v] = r /\ Held(v)'}
    <3>1. dirty[r] = {v \in Writes : seg[v] = r /\ Held(v)}
      BY Zenon DEF HandleInv, DirtyCountsHandles
    <3>2. seg[w] # r
      BY Zenon, <2>4, NoSegmentIsNone
    <3>3. CASE r = s
      BY ZenonT(60), <2>3, <2>5, <3>1, <3>2, <3>3
    <3>4. CASE r # s
      BY ZenonT(60), <2>3, <2>5, <3>1, <3>2, <3>4
    <3> QED
      BY Zenon, <3>3, <3>4
  <2>7. ASSUME NEW v \in Writes, Held(v)' PROVE seg'[v] # NoSegment /\ st'[seg'[v]] \in {"open", "closed"}
    <3>1. CASE v = w
      BY Zenon, <2>3, <3>1, NoSegmentIsNone
    <3>2. CASE v # w
      <4>1. seg'[v] = seg[v] /\ seg[v] # NoSegment /\ st[seg[v]] \in {"open", "closed"}
        BY Zenon, <2>3, <2>5, <2>7, <3>2 DEF HandleInv
      <4>2. seg[v] \in Segments
        BY Zenon, <4>1 DEF TypeOK
      <4> QED
        BY ZenonT(60), <2>3, <4>1, <4>2
    <3> QED
      BY Zenon, <3>1, <3>2
  <2> QED
    BY Zenon, <2>6, <2>7 DEF HandleInv, DirtyCountsHandles
<1>2. CASE Apply(w)
  <2>1. PICK p \in Parts : p = part[w]
    BY Zenon, <1>2 DEF Apply, LogInv, LogOf
  <2>2. /\ active' = [active EXCEPT ![p] = [data |-> @.data \cup {w}, held |-> @.held \cup {w},
                                            pos |-> Larger(@.pos, rp[w])]]
        /\ UNCHANGED <<sealed, retired, seg, st, dirty>> /\ pc[w] = "logged"
        /\ pc' = [pc EXCEPT ![w] = "acked"]
    BY Zenon, <1>2, <2>1 DEF Apply
  <2>3. \A q \in Parts \ {p} : active'[q] = active[q]
    BY Zenon, <2>2 DEF TypeOK
  <2>4. active'[p].held = active[p].held \cup {w}
    BY Zenon, <2>2 DEF TypeOK
  <2>5. pc'[w] # "logged" /\ \A v \in Writes \ {w} : pc'[v] = pc[v]
    BY Zenon, <2>2 DEF TypeOK
  <2>6. \A q \in Parts \ {p}, v \in Writes : Keeps(q, v)' <=> Keeps(q, v)
    BY Zenon, <2>2, <2>3 DEF Keeps, Unflushed
  <2>7. \A v \in Writes \ {w} : Keeps(p, v)' <=> Keeps(p, v)
    BY Zenon, <2>2, <2>4 DEF Keeps, Unflushed
  <2>8. Keeps(p, w)'
    BY Zenon, <2>4 DEF Keeps, Unflushed
  <2>9. ASSUME NEW v \in Writes PROVE Held(v)' <=> Held(v)
    <3>1. CASE v = w
      BY Zenon, <2>2, <2>8, <3>1 DEF Held, Keeps
    <3>2. CASE v # w
      <4>1. Held(v)' <=> pc'[v] = "logged" \/ \E q \in Parts : Keeps(q, v)'
        BY Zenon DEF Held, Keeps
      <4> QED
        BY Zenon, <2>5, <2>6, <2>7, <3>2, <4>1, HeldParts
    <3> QED
      BY Zenon, <3>1, <3>2
  <2> QED
    BY Zenon, <2>2, <2>9, HandleSame
<1>3. CASE ApplyReordered(w) \/ AbandonApply(w) \/ AbandonSync(w)
  <2>1. /\ UNCHANGED <<active, sealed, retired, seg>> /\ pc[w] = "logged" /\ seg[w] \in Segments
        /\ \E x \in {"acked", "failed"} : pc' = [pc EXCEPT ![w] = x]
        /\ dirty' = [dirty EXCEPT ![seg[w]] = @ \ {w}]
        /\ \A s \in Segments :
              \/ st'[s] = st[s]
              \/ st[s] \in {"open", "closed"} /\ st'[s] = "closed"
              \/ st[s] \in {"open", "closed"} /\ dirty'[s] = {} /\ st'[s] = "condemned"
    BY Zenon, <1>3, ReleaseFacts
  <2>2. pc'[w] # "logged" /\ \A v \in Writes \ {w} : pc'[v] = pc[v]
    BY Zenon, <2>1 DEF TypeOK
  <2>3. ~Held(w)' /\ \A v \in Writes \ {w} : Held(v)' <=> Held(v)
    <3>1. \A q \in Parts : ~Keeps(q, w)
      BY Zenon, <2>1, LoggedNotKept
    <3> QED
      BY Zenon, <2>1, <2>2, <3>1 DEF Held, Keeps, Unflushed
  <2>4. dirty'[seg[w]] = dirty[seg[w]] \ {w} /\ \A r \in Segments \ {seg[w]} : dirty'[r] = dirty[r]
    BY Zenon, <2>1 DEF TypeOK
  <2>5. ASSUME NEW r \in Segments PROVE dirty'[r] = {v \in Writes : seg'[v] = r /\ Held(v)'}
    <3>1. dirty[r] = {v \in Writes : seg[v] = r /\ Held(v)}
      BY Zenon DEF HandleInv, DirtyCountsHandles
    <3>2. CASE r = seg[w]
      BY ZenonT(60), <2>1, <2>3, <2>4, <3>1, <3>2
    <3>3. CASE r # seg[w]
      BY ZenonT(60), <2>1, <2>3, <2>4, <3>1, <3>3
    <3> QED
      BY Zenon, <3>2, <3>3
  <2>6. ASSUME NEW v \in Writes, Held(v)' PROVE seg'[v] # NoSegment /\ st'[seg'[v]] \in {"open", "closed"}
    <3>1. v # w /\ Held(v)
      BY Zenon, <2>3, <2>6
    <3>2. seg'[v] = seg[v] /\ seg[v] # NoSegment /\ st[seg[v]] \in {"open", "closed"}
      BY Zenon, <2>1, <3>1 DEF HandleInv
    <3>3. seg[v] \in Segments
      BY Zenon, <3>2 DEF TypeOK
    <3>4. v \in dirty'[seg[v]]
      BY Zenon, <2>5, <2>6, <3>2, <3>3
    <3> QED
      BY Zenon, <2>1, <3>2, <3>3, <3>4
  <2> QED
    BY Zenon, <2>5, <2>6 DEF HandleInv, DirtyCountsHandles
<1> QED
  BY Zenon, <1>1, <1>2, <1>3 DEF WriteStep

LEMMA KeepsSame ==
  ASSUME pc' = pc, NEW p \in Parts, \A w \in Writes : Keeps(p, w)' <=> Keeps(p, w),
         \A q \in Parts \ {p} : Unflushed(q)' = Unflushed(q)
  PROVE  \A w \in Writes : Held(w)' <=> Held(w)
<1>1. \A w \in Writes, q \in Parts : Keeps(q, w)' <=> Keeps(q, w)
  BY Zenon DEF Keeps
<1>2. \A w \in Writes : Held(w)' <=> pc'[w] = "logged" \/ \E q \in Parts : Keeps(q, w)'
  BY Zenon DEF Held, Keeps
<1> QED
  BY Zenon, <1>1, <1>2, HeldParts

LEMMA HandleSeal ==
  ASSUME TypeOK, TableInv, HandleInv, NEW p \in Parts,
         sealed' = [sealed EXCEPT ![p] = SealedAfter(p)],
         active' = [active EXCEPT ![p] = Empty],
         UNCHANGED <<retired, pc, st, dirty, seg>>
  PROVE  HandleInv'
<1>1. /\ \A q \in Parts \ {p} : sealed'[q] = sealed[q] /\ active'[q] = active[q]
      /\ sealed'[p] = SealedAfter(p) /\ active'[p] = Empty
  BY Zenon DEF TypeOK
<1>2. Empty.held = {}
  BY Zenon, EmptyType
<1>3. ASSUME NEW w \in Writes PROVE Keeps(p, w)' <=> Keeps(p, w)
  <2>1. ASSUME w \in active[p].held PROVE active[p] \in SealedAfter(p)
    <3>1. Fits(active[p], p)
      BY Zenon DEF TableInv, Holders, Unflushed
    <3> QED
      BY Zenon, <2>1, <3>1, SealedFacts DEF Fits
  <2>2. /\ sealed[p] \subseteq SealedAfter(p) /\ SealedAfter(p) \subseteq sealed[p] \cup {active[p]}
    BY Zenon, SealedFacts
  <2>3. ASSUME Keeps(p, w) PROVE Keeps(p, w)'
    BY Zenon, <1>1, <2>1, <2>2, <2>3 DEF Keeps, Unflushed
  <2>4. ASSUME Keeps(p, w)' PROVE Keeps(p, w)
    <3>1. PICK m \in {Empty} \cup SealedAfter(p) \cup retired[p] : w \in m.held
      BY Zenon, <1>1, <2>4 DEF Keeps, Unflushed
    <3> QED
      BY Zenon, <1>2, <2>2, <3>1 DEF Keeps, Unflushed
  <2> QED
    BY Zenon, <2>3, <2>4
<1>4. \A q \in Parts \ {p} : Unflushed(q)' = Unflushed(q)
  BY Zenon, <1>1 DEF Unflushed
<1>5. \A w \in Writes : Held(w)' <=> Held(w)
  BY Zenon, <1>3, <1>4, KeepsSame
<1> QED
  BY Zenon, <1>5, HandleSame

LEMMA HandlePart ==
  ASSUME TypeOK, TableInv, HandleInv, NEW p \in Parts, PartStep(p)
  PROVE  HandleInv'
<1> USE DEF logVars, tableVars, markVars, runVars
<1>1. CASE Seal(p)
  BY Zenon, <1>1, HandleSeal DEF Seal
<1>2. CASE \E m \in sealed[p] : WriteSSTable(p, m)
  <2>1. PICK m \in sealed[p] : WriteSSTable(p, m)
    BY Zenon, <1>2
  <2>2. /\ sealed' = [sealed EXCEPT ![p] = @ \ {m}] /\ retired' = [retired EXCEPT ![p] = @ \cup {m}]
        /\ UNCHANGED <<active, pc, st, dirty, seg>>
    BY Zenon, <2>1 DEF WriteSSTable
  <2>3. /\ \A q \in Parts \ {p} : sealed'[q] = sealed[q] /\ retired'[q] = retired[q]
        /\ sealed'[p] = sealed[p] \ {m} /\ retired'[p] = retired[p] \cup {m}
    BY Zenon, <2>2 DEF TypeOK
  <2>4. \A q \in Parts : Unflushed(q)' = Unflushed(q)
    <3>1. Unflushed(p)' = Unflushed(p)
      BY Zenon, <2>2, <2>3 DEF Unflushed
    <3>2. \A q \in Parts \ {p} : Unflushed(q)' = Unflushed(q)
      BY Zenon, <2>2, <2>3 DEF Unflushed
    <3> QED
      BY Zenon, <3>1, <3>2
  <2>5. \A w \in Writes : Held(w)' <=> Held(w)
    BY Zenon, <2>2, <2>4 DEF Held
  <2> QED
    BY Zenon, <2>2, <2>5, HandleSame
<1>3. CASE \E m \in retired[p] : DiscardLog(p, m)
  <2>1. PICK m \in retired[p] : DiscardLog(p, m)
    BY Zenon, <1>3
  <2>2. /\ retired' = [retired EXCEPT ![p] = @ \ {m}] /\ UNCHANGED <<active, sealed, pc, seg>>
        /\ dirty' = [s \in Segments |-> IF st[s] \in {"open", "closed"} THEN dirty[s] \ m.held ELSE dirty[s]]
        /\ st' = DiscardUnused(st, dirty')
    BY Zenon, <2>1 DEF DiscardLog
  <2>3. retired'[p] = retired[p] \ {m} /\ \A q \in Parts \ {p} : retired'[q] = retired[q]
    BY Zenon, <2>2 DEF TypeOK
  <2>4. Fits(m, p) /\ Handles(p)
    BY Zenon DEF TableInv, Holders, Unflushed
  <2>5. ASSUME NEW w \in m.held PROVE ~Held(w)' /\ Held(w) /\ w \in Writes
    <3>1. part[w] = p /\ pc[w] # "logged"
      BY Zenon, <2>4 DEF Fits
    <3>2. Held(w) /\ w \in Writes
      <4>1. m \in Unflushed(p)
        BY Zenon DEF Unflushed
      <4>2. m.held \subseteq Writes
        BY DEF TypeOK, Memtable
      <4> QED
        BY Zenon, <4>1, <4>2 DEF Held
    <3>3. ASSUME NEW q \in Parts, NEW n \in Unflushed(q)', w \in n.held PROVE FALSE
      <4>1. n \in Unflushed(q) /\ (q = p => n \in {active[p]} \cup sealed[p] \cup (retired[p] \ {m}))
        BY Zenon, <2>2, <2>3 DEF Unflushed
      <4>2. Fits(n, q)
        BY Zenon, <4>1 DEF TableInv, Holders
      <4>3. q = p
        BY Zenon, <3>1, <3>3, <4>2 DEF Fits
      <4>4. CASE n = active[p]
        BY Zenon, <2>4, <3>3, <4>4 DEF Handles, Apart
      <4>5. CASE n \in sealed[p] \cup (retired[p] \ {m})
        BY Zenon, <2>4, <3>3, <4>5 DEF Handles, Apart
      <4> QED
        BY Zenon, <4>1, <4>3, <4>4, <4>5
    <3> QED
      BY Zenon, <2>2, <3>1, <3>2, <3>3 DEF Held
  <2>6. ASSUME NEW w \in Writes, w \notin m.held PROVE Held(w)' <=> Held(w)
    <3>1. Keeps(p, w)' <=> Keeps(p, w)
      BY Zenon, <2>2, <2>3, <2>6 DEF Keeps, Unflushed
    <3>2. \A q \in Parts \ {p} : Keeps(q, w)' <=> Keeps(q, w)
      BY Zenon, <2>2, <2>3 DEF Keeps, Unflushed
    <3>3. Held(w)' <=> pc'[w] = "logged" \/ \E q \in Parts : Keeps(q, w)'
      BY Zenon DEF Held, Keeps
    <3> QED
      BY Zenon, <2>2, <3>1, <3>2, <3>3, HeldParts
  <2>7. ASSUME NEW s \in Segments PROVE dirty'[s] = {w \in Writes : seg'[w] = s /\ Held(w)'}
    <3>1. dirty[s] = {w \in Writes : seg[w] = s /\ Held(w)}
      BY Zenon DEF HandleInv, DirtyCountsHandles
    <3>2. CASE st[s] \in {"open", "closed"}
      <4>1. dirty'[s] = dirty[s] \ m.held
        BY Zenon, <2>2, <3>2
      <4> QED
        BY Zenon, <2>2, <2>5, <2>6, <3>1, <4>1
    <3>3. CASE st[s] \notin {"open", "closed"}
      <4>1. dirty'[s] = dirty[s]
        BY Zenon, <2>2, <3>3
      <4>2. \A w \in m.held : seg[w] # s
        BY Zenon, <2>5, <3>3 DEF HandleInv
      <4> QED
        BY Zenon, <2>2, <2>5, <2>6, <3>1, <4>1, <4>2
    <3> QED
      BY Zenon, <3>2, <3>3
  <2>8. ASSUME NEW w \in Writes, Held(w)' PROVE seg'[w] # NoSegment /\ st'[seg'[w]] \in {"open", "closed"}
    <3>1. Held(w)
      BY Zenon, <2>5, <2>6, <2>8
    <3>2. seg'[w] = seg[w] /\ seg[w] # NoSegment /\ st[seg[w]] \in {"open", "closed"}
      BY Zenon, <2>2, <3>1 DEF HandleInv
    <3>3. seg[w] \in Segments
      BY Zenon, <3>2 DEF TypeOK
    <3>4. w \in dirty'[seg[w]]
      BY Zenon, <2>7, <2>8, <3>2, <3>3
    <3>5. st'[seg[w]] = st[seg[w]]
      <4>1. st \in StType /\ dirty'[seg[w]] # {}
        BY Zenon, <3>4 DEF TypeOK, StType
      <4>2. \A r \in Segments : DiscardUnused(st, dirty')[r] = st[r] \/ dirty'[r] = {}
        BY Zenon DEF DiscardUnused, CanDelete
      <4> QED
        BY Zenon, <2>2, <3>3, <4>1, <4>2
    <3> QED
      BY Zenon, <3>2, <3>5
  <2> QED
    BY Zenon, <2>7, <2>8 DEF HandleInv, DirtyCountsHandles
<1>4. CASE Compact(p)
  <2>1. UNCHANGED <<active, sealed, retired, pc, seg, st, dirty>>
    BY Zenon, <1>4 DEF Compact
  <2>2. \A w \in Writes : Held(w)' <=> Held(w)
    BY Zenon, <2>1 DEF Held, Unflushed
  <2> QED
    BY Zenon, <2>1, <2>2, HandleSame
<1> QED
  BY Zenon, <1>1, <1>2, <1>3, <1>4 DEF PartStep

LEMMA HandleInvStep ==
  ASSUME TypeOK, LogInv, TableInv, HandleInv, [Next]_vars
  PROVE  HandleInv'
<1> USE DEF logVars, tableVars, markVars, runVars
<1>1. ASSUME UNCHANGED <<active, sealed, retired, pc, seg, dirty>>,
             \A s \in Segments : st[s] \in {"open", "closed"} => st'[s] \in {"open", "closed"}
      PROVE  HandleInv'
  <2>1. \A w \in Writes : Held(w)' <=> Held(w)
    BY Zenon, <1>1 DEF Held, Unflushed
  <2> QED
    BY Zenon, <1>1, <2>1, HandleSame
<1>2. ASSUME NEW s \in Segments, SegmentStep(s) PROVE HandleInv'
  <2>1. UNCHANGED <<active, sealed, retired, pc, seg, dirty>>
    BY Zenon, <1>2 DEF SegmentStep, Sync, CloseSegment, DeleteFile
  <2>2. \A r \in Segments : st[r] \in {"open", "closed"} => st'[r] \in {"open", "closed"}
    BY Zenon, <1>2 DEF SegmentStep, Sync, CloseSegment, DeleteFile, TypeOK
  <2> QED
    BY Zenon, <1>1, <2>1, <2>2
<1>3. ASSUME NEW p \in Parts, TruncateStep(p) PROVE HandleInv'
  <2>1. CASE FlushToTruncate(p)
    BY Zenon, <2>1, HandleSeal DEF FlushToTruncate
  <2>2. CASE ~FlushToTruncate(p)
    BY Zenon, <1>1, <1>3, <2>2 DEF TruncateStep, SetLowMark, DiscardSSTables, DeleteSSTables, SaveRecord
  <2> QED
    BY Zenon, <2>1, <2>2
<1>4. ASSUME NEW t \in Tables, TableStep(t) PROVE HandleInv'
  BY Zenon, <1>1, <1>4 DEF TableStep, RequestTruncate, TakeTime, Truncated
<1>5. ASSUME Crash PROVE HandleInv'
  <2>1. \A w \in Writes : ~Held(w)'
    <3>1. \A p \in Parts : active'[p] = Empty /\ sealed'[p] = {} /\ retired'[p] = {}
      BY Zenon, <1>5, CrashFacts
    <3>2. \A w \in Writes : pc'[w] # "logged"
      BY Zenon, <1>5, CrashFacts
    <3> QED
      BY Zenon, <3>1, <3>2, EmptyType DEF Held, Unflushed
  <2>2. \A s \in Segments : dirty'[s] = {}
    BY Zenon, <1>5, CrashFacts
  <2> QED
    BY Zenon, <2>1, <2>2 DEF HandleInv, DirtyCountsHandles
<1>6. ASSUME Replay PROVE HandleInv'
  <2>1. /\ UNCHANGED <<pc, seg, st, dirty, sealed, retired>> /\ phase = "down"
        /\ \A p \in Parts : active'[p].held = {} /\ active[p] = Empty /\ sealed[p] = {} /\ retired[p] = {}
    BY Zenon, <1>6 DEF Replay, TableInv, Handles
  <2>2. \A w \in Writes : pc[w] # "logged"
    BY Zenon, <2>1 DEF LogInv, LogOf
  <2>3. \A w \in Writes : ~Held(w) /\ ~Held(w)'
    BY Zenon, <2>1, <2>2, EmptyType DEF Held, Unflushed
  <2> QED
    BY Zenon, <2>1, <2>3, HandleSame
<1>7. CASE Serve
  BY Zenon, <1>1, <1>7 DEF Serve
<1>8. CASE UNCHANGED vars
  BY Zenon, <1>1, <1>8 DEF vars
<1> QED
  BY Zenon, <1>2, <1>3, <1>4, <1>5, <1>6, <1>7, <1>8, HandleWrite, HandlePart DEF Next

-----------------------------------------------------------------------------
(* What was promised to stay.                                              *)

(* Steps that only move writes between memory and sstables, end writes, or taint them. *)
Ends == \A w \in Writes : \/ pc'[w] = pc[w]
                          \/ pc[w] = "logged" /\ pc'[w] = "failed"
                          \/ pc[w] = "logged" /\ pc'[w] = "acked" /\ w \in tainted
Promises == \A w \in firm' : w \notin tainted' /\ (w \in firm \/ (pc'[w] = "acked" /\ OnDisk(w)'))
Shuts == \A s \in Segments : /\ st'[s] \in {"open", "closed"} => st[s] \in {"open", "closed"}
                             /\ phase # "up" /\ st[s] = "old" => st'[s] = "old"
Carries == \A w \in Writes \ tainted' : pc[w] # "idle" =>
             /\ record'[part[w]] = record[part[w]] /\ lowest'[part[w]] = lowest[part[w]]
             /\ OnDisk(w) => OnDisk(w)'
             /\ InMemory(w) => (InMemory(w)' \/ OnDisk(w)')

LEMMA FirmMove ==
  ASSUME TypeOK, LogInv, FirmInv,
         UNCHANGED <<part, rp, seg, synced, phase>>, tainted \subseteq tainted',
         \A t \in Tables : Truncating(t)' => WritesOf(t) \subseteq tainted',
         Ends, Promises, Shuts, Carries
  PROVE  FirmInv'
<1>1. firm' \cap tainted' = {}
  BY Zenon DEF Promises
<1>2. \A t \in Tables : Truncating(t)' => WritesOf(t)' \subseteq tainted'
  BY Zenon DEF WritesOf
<1>0. \A w \in Writes : seg[w] # NoSegment => seg[w] \in Segments
  BY Zenon DEF TypeOK
<1>3. ASSUME NEW w \in Writes \ tainted' PROVE Covered(w)'
  <2>1. Covered(w) /\ w \in Writes /\ w \notin tainted
    BY Zenon DEF FirmInv
  <2>2. pc'[w] = pc[w] \/ (pc[w] = "logged" /\ pc'[w] = "failed")
    BY Zenon, <2>1 DEF Ends
  <2>3. pc'[w] # "idle" => /\ record'[part[w]] = record[part[w]] /\ lowest'[part[w]] = lowest[part[w]]
                           /\ (InMemory(w) \/ OnDisk(w)) => (InMemory(w)' \/ OnDisk(w)')
    BY Zenon, <2>2 DEF Carries
  <2>4. seg'[w] # NoSegment /\ st'[seg'[w]] \in {"open", "closed"} =>
          seg[w] # NoSegment /\ st[seg[w]] \in {"open", "closed"}
    BY Zenon, <1>0, <2>1 DEF Shuts
  <2> QED
    BY Zenon, <2>1, <2>2, <2>3, <2>4 DEF Covered
<1>4. ASSUME NEW w \in firm' PROVE Kept(w)'
  <2>1. CASE w \notin firm
    BY Zenon, <2>1 DEF Kept, Promises
  <2>2. CASE w \in firm
    <3>1. Kept(w) /\ w \in Writes \ tainted'
      BY Zenon, <2>2 DEF FirmInv, TypeOK, Promises
    <3>2. pc[w] = "acked" /\ pc'[w] = "acked" /\ pc[w] # "idle"
      BY Zenon, <3>1 DEF Kept, Ends
    <3>3. CASE OnDisk(w)'
      BY Zenon, <3>2, <3>3 DEF Kept
    <3>4. CASE ~OnDisk(w)'
      <4>1. InLog(w) /\ (phase' # "down" => InMemory(w)') /\ record'[part[w]] = record[part[w]]
        BY Zenon, <3>1, <3>2, <3>4 DEF Kept, Carries
      <4>2. phase # "up" => st'[seg[w]] = "old"
        <5>1. phase # "up" => st[seg[w]] = "old" /\ w \in synced
          BY Zenon, <4>1 DEF InLog
        <5> QED
          <6>1. w \in synced => seg[w] # NoSegment
            BY Zenon DEF LogInv
          <6> QED
            BY Zenon, <1>0, <3>1, <5>1, <6>1 DEF Shuts
      <4>3. InLog(w)'
        BY Zenon, <4>1, <4>2 DEF InLog
      <4> QED
        BY Zenon, <3>2, <4>1, <4>3 DEF Kept
    <3> QED
      BY Zenon, <3>3, <3>4
  <2> QED
    BY Zenon, <2>1, <2>2
<1> QED
  BY Zenon, <1>1, <1>2, <1>3, <1>4 DEF FirmInv

(* A truncation that runs has tainted the writes of its table. *)
LEMMA TruncatingTaints ==
  ASSUME FirmInv, NEW p \in Parts, trunc[p].pc # "idle", NEW w \in Writes, part[w] \in Parts, part[w][1] = p[1]
  PROVE  w \in tainted
<1>1. PICK t \in Tables, x \in Shards : p = <<t, x>>
  BY DEF Parts
<1>2. PICK y \in Shards : part[w] = <<t, y>>
  BY <1>1 DEF Parts
<1>3. Truncating(t)
  BY Zenon, <1>1 DEF Truncating
<1>4. w \in WritesOf(t)
  BY <1>2 DEF WritesOf
<1> QED
  BY Zenon, <1>3, <1>4 DEF FirmInv

LEMMA TruncatingSame ==
  ASSUME \A p \in Parts : trunc'[p].pc # "idle" => trunc[p].pc # "idle", NEW t \in Tables, Truncating(t)'
  PROVE  Truncating(t)
<1>1. PICK x \in Shards : trunc'[<<t, x>>].pc # "idle"
  BY Zenon DEF Truncating
<1>2. <<t, x>> \in Parts
  BY Zenon DEF Parts
<1> QED
  BY Zenon, <1>1, <1>2 DEF Truncating

LEMMA FirmWrite ==
  ASSUME TypeOK, LogInv, TableInv, HandleInv, FirmInv, NEW w \in Writes, WriteStep(w)
  PROVE  FirmInv'
<1> USE DEF logVars, tableVars, markVars, runVars
<1>1. CASE \E p \in Parts : Allocate(w, p)
  <2>1. PICK p \in Parts : Allocate(w, p)
    BY Zenon, <1>1
  <2>2. PICK s \in Segments :
          /\ seg' = [seg EXCEPT ![w] = s]
          /\ st' = [st EXCEPT ![s] = "open"]
          /\ st[s] \in {"open", "unborn"}
    BY Zenon, <2>1 DEF Allocate, SegmentsOf
  <2>3. /\ seg'[w] = s /\ \A v \in Writes \ {w} : seg'[v] = seg[v]
        /\ \A r \in Segments \ {s} : st'[r] = st[r]
    BY Zenon, <2>2 DEF TypeOK
  <2>4. /\ pc[w] = "idle" /\ pc'[w] = "logged" /\ part'[w] = p /\ rp'[w] = last + 1
        /\ \A v \in Writes \ {w} : pc'[v] = pc[v] /\ part'[v] = part[v] /\ rp'[v] = rp[v]
        /\ UNCHANGED <<active, sealed, sstables, lowest, trunc, record, phase, synced, firm>>
        /\ phase = "up"
    BY Zenon, <2>1 DEF Allocate, TypeOK
  <2>5. tainted' = IF Truncating(p[1]) THEN tainted \cup {w} ELSE tainted
    BY Zenon, <2>1 DEF Allocate
  <2>6. \A v \in firm : v # w /\ Kept(v)
    <3>1. \A v \in firm : Kept(v)
      BY Zenon DEF FirmInv
    <3> QED
      BY Zenon, <2>4, <3>1 DEF Kept
  <2>7. firm' \cap tainted' = {}
    BY Zenon, <2>4, <2>5, <2>6 DEF FirmInv
  <2>8. ASSUME NEW t \in Tables, Truncating(t)' PROVE WritesOf(t)' \subseteq tainted'
    <3>1. Truncating(t)
      BY Zenon, <2>4, <2>8 DEF Truncating
    <3>2. WritesOf(t) \subseteq tainted
      BY Zenon, <3>1 DEF FirmInv
    <3>3. ASSUME NEW v \in WritesOf(t)' PROVE v \in tainted'
      <4>1. CASE v = w
        <5>1. p[1] = t
          BY Zenon, <2>4, <3>3, <4>1 DEF WritesOf
        <5> QED
          BY Zenon, <2>5, <3>1, <4>1, <5>1
      <4>2. CASE v # w
        BY Zenon, <2>4, <2>5, <3>2, <3>3, <4>2 DEF WritesOf
      <4> QED
        BY Zenon, <4>1, <4>2
    <3> QED
      BY Zenon, <3>3
  <2>9. ASSUME NEW v \in Writes \ tainted' PROVE Covered(v)'
    <3>1. CASE v = w
      <4>1. last + 1 > record[p] /\ last + 1 >= lowest[p]
        <5>1. /\ last \in Nat /\ record[p] \in Nat /\ lowest[p] \in Nat /\ highest[p] \in Nat
              /\ lowest[p] <= highest[p] /\ highest[p] <= last /\ record[p] <= last
          BY Zenon DEF TypeOK, LogInv, BoundsOf
        <5> QED
          BY <5>1
      <4> QED
        BY Zenon, <2>4, <3>1, <4>1 DEF Covered
    <3>2. CASE v # w
      <4>1. Covered(v)
        BY Zenon, <2>5 DEF FirmInv
      <4>2. /\ seg[v] # NoSegment /\ st'[seg[v]] \in {"open", "closed"} => st[seg[v]] \in {"open", "closed"}
        <5>1. seg[v] # NoSegment => seg[v] \in Segments /\ st[seg[v]] # "unborn"
          BY Zenon DEF TypeOK, LogInv, LogOf
        <5> QED
          BY Zenon, <2>2, <2>3, <5>1
      <4>3. (InMemory(v)' <=> InMemory(v)) /\ (OnDisk(v)' <=> OnDisk(v))
        BY Zenon, <2>4, <3>2 DEF InMemory, OnDisk, InAny
      <4> QED
        BY Zenon, <2>3, <2>4, <3>2, <4>1, <4>2, <4>3 DEF Covered
    <3> QED
      BY Zenon, <3>1, <3>2
  <2>10. ASSUME NEW v \in firm' PROVE Kept(v)'
    <3>1. v # w /\ Kept(v) /\ v \in Writes
      BY Zenon, <2>4, <2>6 DEF TypeOK
    <3>2. (InMemory(v)' <=> InMemory(v)) /\ (OnDisk(v)' <=> OnDisk(v))
      BY Zenon, <2>4, <3>1 DEF InMemory, OnDisk, InAny
    <3>3. InLog(v) => InLog(v)'
      BY Zenon, <2>4, <3>1 DEF InLog
    <3> QED
      BY Zenon, <2>4, <3>1, <3>2, <3>3 DEF Kept
  <2> QED
    BY Zenon, <2>7, <2>8, <2>9, <2>10 DEF FirmInv
<1>2. CASE Apply(w)
  <2>1. PICK p \in Parts : p = part[w]
    BY Zenon, <1>2 DEF Apply, LogInv, LogOf
  <2>2. /\ active' = [active EXCEPT ![p] = [data |-> @.data \cup {w}, held |-> @.held \cup {w},
                                            pos |-> Larger(@.pos, rp[w])]]
        /\ UNCHANGED <<part, rp, seg, synced, sealed, sstables, lowest, trunc, record, phase, st, tainted>>
        /\ pc[w] = "logged" /\ phase = "up" /\ pc' = [pc EXCEPT ![w] = "acked"]
        /\ w \in SyncWrites => w \in synced
        /\ firm' = IF w \in SyncWrites \cup synced /\ w \notin tainted THEN firm \cup {w} ELSE firm
    BY Zenon, <1>2, <2>1 DEF Apply
  <2>3. pc'[w] = "acked" /\ \A v \in Writes \ {w} : pc'[v] = pc[v]
    BY Zenon, <2>2 DEF TypeOK
  <2>4. \A q \in Parts : active[q].data \subseteq active'[q].data
    BY Zenon, <2>2 DEF TypeOK
  <2>5. w \in active'[p].data
    BY Zenon, <2>2 DEF TypeOK
  <2>6. ASSUME NEW v \in Writes, part[v] \in Parts
        PROVE  (InMemory(v) => InMemory(v)') /\ (OnDisk(v)' <=> OnDisk(v)) /\ (InLog(v)' <=> InLog(v))
    BY Zenon, <2>2, <2>4, <2>6 DEF InMemory, OnDisk, InAny, InLog
  <2>7. InMemory(w)'
    BY Zenon, <2>1, <2>2, <2>5 DEF InMemory
  <2>8. firm' \cap tainted' = {}
    BY Zenon, <2>2 DEF FirmInv
  <2>9. \A t \in Tables : Truncating(t)' => WritesOf(t)' \subseteq tainted'
    BY Zenon, <2>2 DEF FirmInv, Truncating, WritesOf
  <2>10. ASSUME NEW v \in Writes \ tainted' PROVE Covered(v)'
    <3>1. Covered(v)
      BY Zenon, <2>2 DEF FirmInv
    <3>2. CASE v = w
      BY Zenon, <2>2, <2>3, <2>7, <3>1, <3>2 DEF Covered
    <3>3. CASE v # w
      <4>1. pc[v] # "idle" => part[v] \in Parts
        BY Zenon DEF LogInv, LogOf
      <4>2. pc[v] # "idle" => ((InMemory(v) \/ OnDisk(v)) => (InMemory(v)' \/ OnDisk(v)'))
        BY Zenon, <2>6, <4>1
      <4> QED
        BY Zenon, <2>2, <2>3, <3>1, <3>3, <4>2 DEF Covered
    <3> QED
      BY Zenon, <3>2, <3>3
  <2>11. ASSUME NEW v \in firm' PROVE Kept(v)'
    <3>1. CASE v = w /\ v \notin firm
      <4>1. w \in synced /\ w \notin tainted
        BY Zenon, <2>2, <2>11, <3>1
      <4>2. rp[w] > record[part[w]]
        BY Zenon, <2>2, <4>1 DEF FirmInv, Covered
      <4>3. InLog(w)'
        BY Zenon, <2>2, <4>1, <4>2 DEF InLog
      <4> QED
        BY Zenon, <2>3, <2>7, <3>1, <4>3 DEF Kept
    <3>2. CASE v \in firm
      <4>1. Kept(v) /\ v \in Writes
        BY Zenon, <3>2 DEF FirmInv, TypeOK
      <4>2. pc[v] = "acked" /\ pc'[v] = "acked" /\ part[v] \in Parts
        BY Zenon, <2>2, <2>3, <4>1 DEF Kept, LogInv, LogOf
      <4> QED
        BY Zenon, <2>2, <2>6, <4>1, <4>2 DEF Kept
    <3> QED
      BY Zenon, <2>2, <2>11, <3>1, <3>2
  <2> QED
    BY Zenon, <2>8, <2>9, <2>10, <2>11 DEF FirmInv
<1>3. CASE ApplyReordered(w) \/ AbandonApply(w) \/ AbandonSync(w)
  <2>1. /\ UNCHANGED <<part, rp, seg, synced, active, sealed, sstables, phase, lowest, record, trunc, firm, tainted>>
        /\ pc[w] = "logged" /\ phase = "up"
        /\ \A s \in Segments :
              \/ st'[s] = st[s]
              \/ st[s] \in {"open", "closed"} /\ st'[s] = "closed"
              \/ st[s] \in {"open", "closed"} /\ dirty'[s] = {} /\ st'[s] = "condemned"
    BY Zenon, <1>3, ReleaseFacts
  <2>2. Ends
    <3>1. CASE ApplyReordered(w)
      <4>1. ~(rp[w] >= lowest[part[w]])
        <5>1. part[w] \in Parts /\ rp[w] \in Nat
          BY Zenon, <2>1 DEF LogInv, LogOf, TypeOK
        <5>2. lowest[part[w]] \in Nat /\ rp[w] < lowest[part[w]]
          BY Zenon, <3>1, <5>1 DEF ApplyReordered, TypeOK
        <5> QED
          BY <5>1, <5>2
      <4>2. w \in tainted
        BY Zenon, <2>1, <4>1 DEF FirmInv, Covered
      <4> QED
        BY Zenon, <2>1, <3>1, <4>2 DEF ApplyReordered, Ends, TypeOK
    <3>2. CASE AbandonApply(w) \/ AbandonSync(w)
      BY Zenon, <2>1, <3>2 DEF AbandonApply, AbandonSync, Ends, TypeOK
    <3> QED
      BY Zenon, <1>3, <3>1, <3>2
  <2>3. Promises
    BY Zenon, <2>1 DEF FirmInv, Promises
  <2>4. Shuts
    BY Zenon, <2>1 DEF Shuts
  <2>5. Carries
    BY Zenon, <2>1 DEF Carries, OnDisk, InMemory, InAny
  <2>6. \A t \in Tables : Truncating(t)' => WritesOf(t) \subseteq tainted'
    BY Zenon, <2>1 DEF FirmInv, Truncating
  <2> QED
    BY Zenon, <2>1, <2>2, <2>3, <2>4, <2>5, <2>6, FirmMove
<1> QED
  BY Zenon, <1>1, <1>2, <1>3 DEF WriteStep


LEMMA FirmSegment ==
  ASSUME TypeOK, LogInv, FirmInv, NEW s \in Segments, SegmentStep(s)
  PROVE  FirmInv'
<1> USE DEF logVars, tableVars, markVars, runVars
<1>1. /\ UNCHANGED <<part, rp, seg, pc, active, sealed, sstables, lowest, record, trunc, phase, tainted>>
      /\ phase = "up"
  BY Zenon DEF SegmentStep, Sync, CloseSegment, DeleteFile
<1>2. \A t \in Tables : Truncating(t)' => WritesOf(t)' \subseteq tainted'
  BY Zenon, <1>1 DEF FirmInv, Truncating, WritesOf
<1>3. \A w : (InMemory(w)' <=> InMemory(w)) /\ (OnDisk(w)' <=> OnDisk(w))
  BY Zenon, <1>1 DEF InMemory, OnDisk, InAny
<1>4. CASE Sync(s)
  <2>1. PICK w \in EntriesOf(s) \ synced :
          /\ synced' = synced \cup {v \in EntriesOf(s) : rp[v] <= rp[w]}
          /\ firm' = firm \cup {v \in {u \in EntriesOf(s) : rp[u] <= rp[w]} : pc[v] = "acked" /\ v \notin tainted}
    BY Zenon, <1>4 DEF Sync
  <2>2. st' = st /\ st[s] \in {"open", "closed"} /\ s # NoSegment
    BY Zenon, <1>4, NoSegmentIsNone DEF Sync
  <2>3. \A v \in Writes \ tainted' : Covered(v)'
    BY Zenon, <1>1, <1>3, <2>2 DEF FirmInv, Covered
  <2>4. firm' \cap tainted' = {}
    BY Zenon, <1>1, <2>1 DEF FirmInv
  <2>5. ASSUME NEW v \in firm' PROVE Kept(v)'
    <3>1. CASE v \in firm
      BY Zenon, <1>1, <1>3, <2>1, <3>1 DEF FirmInv, Kept, InLog
    <3>2. CASE v \notin firm
      <4>1. v \in synced' /\ pc[v] = "acked" /\ v \notin tainted /\ v \in Writes /\ seg[v] = s
        BY Zenon, <2>1, <3>2 DEF EntriesOf
      <4>2. Covered(v) /\ pc[v] # "idle"
        BY Zenon, <4>1 DEF FirmInv
      <4>3. InLog(v)' /\ (InMemory(v) \/ OnDisk(v))
        BY Zenon, <1>1, <2>2, <4>1, <4>2 DEF Covered, InLog
      <4> QED
        BY Zenon, <1>1, <1>3, <4>1, <4>3 DEF Kept
    <3> QED
      BY Zenon, <3>1, <3>2
  <2> QED
    BY Zenon, <1>2, <2>3, <2>4, <2>5 DEF FirmInv
<1>5. CASE CloseSegment(s) \/ DeleteFile(s)
  <2>1. UNCHANGED <<synced, firm>>
    BY Zenon, <1>5 DEF CloseSegment, DeleteFile
  <2>2. Shuts
    BY Zenon, <1>1, <1>5 DEF CloseSegment, DeleteFile, Shuts, TypeOK
  <2>3. Ends /\ Promises /\ Carries
    BY Zenon, <1>1, <1>3, <2>1 DEF FirmInv, Ends, Promises, Carries
  <2>4. \A t \in Tables : Truncating(t)' => WritesOf(t) \subseteq tainted'
    BY Zenon, <1>1 DEF FirmInv, Truncating
  <2> QED
    BY Zenon, <1>1, <2>1, <2>2, <2>3, <2>4, FirmMove
<1> QED
  BY Zenon, <1>4, <1>5 DEF SegmentStep

(* The active memtable of p is sealed: nothing leaves memory. *)
LEMMA SealKeeps ==
  ASSUME TypeOK, NEW p \in Parts,
         sealed' = [sealed EXCEPT ![p] = SealedAfter(p)],
         active' = [active EXCEPT ![p] = Empty],
         part' = part,
         NEW w \in Writes, part[w] \in Parts, InMemory(w)
  PROVE  InMemory(w)'
<1>1. /\ \A q \in Parts \ {p} : sealed'[q] = sealed[q] /\ active'[q] = active[q]
      /\ sealed'[p] = SealedAfter(p)
  BY Zenon DEF TypeOK
<1>2. CASE part[w] # p
  BY Zenon, <1>1, <1>2 DEF InMemory
<1>3. CASE part[w] = p
  <2>1. \E m \in SealedAfter(p) : w \in m.data
    BY Zenon, <1>3, SealedFacts DEF InMemory, InAny
  <2> QED
    BY ZenonT(60), <1>1, <1>3, <2>1 DEF InMemory, InAny
<1> QED
  BY Zenon, <1>2, <1>3

LEMMA FirmPart ==
  ASSUME TypeOK, LogInv, TableInv, FirmInv, NEW p \in Parts, PartStep(p)
  PROVE  FirmInv'
<1> USE DEF logVars, tableVars, markVars, runVars
<1>1. UNCHANGED <<part, rp, seg, synced, phase, pc, lowest, record, trunc, tainted>>
  BY Zenon DEF PartStep, Seal, Compact, WriteSSTable, DiscardLog
<1>2. \A t \in Tables : Truncating(t)' => WritesOf(t) \subseteq tainted'
  BY Zenon, <1>1 DEF FirmInv, Truncating
<1>3. Ends
  BY Zenon, <1>1 DEF Ends
<1>4. \A w \in Writes : pc[w] # "idle" => part[w] \in Parts
  BY Zenon DEF LogInv, LogOf
<1>5. Shuts
  <2>1. CASE \E m \in retired[p] : DiscardLog(p, m)
    <3>1. \A s \in Segments : st'[s] = st[s] \/ (st[s] = "closed" /\ st'[s] = "condemned")
      BY Zenon, <2>1 DEF DiscardLog, DiscardUnused, CanDelete
    <3> QED
      BY Zenon, <3>1 DEF Shuts
  <2>2. CASE st' = st
    BY Zenon, <2>2 DEF Shuts
  <2> QED
    BY Zenon, <2>1, <2>2 DEF PartStep, Seal, Compact, WriteSSTable
<1>6. ASSUME \A w \in Writes : part[w] \in Parts =>
                /\ OnDisk(w) => OnDisk(w)'
                /\ InMemory(w) => (InMemory(w)' \/ OnDisk(w)')
      PROVE  Carries
  BY Zenon, <1>1, <1>4, <1>6 DEF Carries
<1>7. ASSUME firm' = firm PROVE Promises
  BY Zenon, <1>1, <1>7 DEF FirmInv, Promises
<1>8. CASE Seal(p)
  <2>1. \A w : OnDisk(w)' <=> OnDisk(w)
    BY Zenon, <1>1, <1>8 DEF Seal, OnDisk, InAny
  <2>2. \A w \in Writes : part[w] \in Parts /\ InMemory(w) => InMemory(w)'
    BY Zenon, <1>8, SealKeeps DEF Seal
  <2>3. Carries /\ Promises
    BY Zenon, <1>6, <1>7, <1>8, <2>1, <2>2 DEF Seal
  <2> QED
    BY Zenon, <1>1, <1>2, <1>3, <1>5, <2>3, FirmMove
<1>9. CASE \E m \in sealed[p] : WriteSSTable(p, m)
  <2>1. PICK m \in sealed[p] : WriteSSTable(p, m)
    BY Zenon, <1>9
  <2> DEFINE n == [m EXCEPT !.held = {}]
  <2>2. /\ sealed' = [sealed EXCEPT ![p] = @ \ {m}] /\ active' = active
        /\ sstables' = [sstables EXCEPT ![p] = @ \cup {n}]
        /\ firm' = IF phase = "up" THEN firm \cup {w \in m.data : pc[w] = "acked" /\ w \notin tainted}
                   ELSE firm
    BY Zenon, <2>1 DEF WriteSSTable
  <2>3. n.data = m.data
    BY DEF TypeOK, Memtable
  <2> HIDE DEF n
  <2>4. /\ \A q \in Parts \ {p} : sealed'[q] = sealed[q] /\ sstables'[q] = sstables[q]
        /\ sealed'[p] = sealed[p] \ {m} /\ sstables'[p] = sstables[p] \cup {n}
    BY Zenon, <2>2 DEF TypeOK
  <2>5. ASSUME NEW w \in Writes, part[w] \in Parts
        PROVE  (OnDisk(w) => OnDisk(w)') /\ (InMemory(w) => (InMemory(w)' \/ OnDisk(w)'))
    <3>1. CASE part[w] = p
      BY Zenon, <1>1, <2>2, <2>3, <2>4, <3>1 DEF OnDisk, InMemory, InAny
    <3>2. CASE part[w] # p
      BY ZenonT(60), <1>1, <2>2, <2>4, <2>5, <3>2 DEF OnDisk, InMemory, InAny
    <3> QED
      BY Zenon, <3>1, <3>2
  <2>6. ASSUME NEW w \in m.data PROVE OnDisk(w)'
    <3>1. Fits(m, p)
      BY Zenon DEF TableInv, Holders, Unflushed
    <3>2. part'[w] = p
      BY Zenon, <1>1, <3>1 DEF Fits
    <3> QED
      BY Zenon, <2>3, <2>4, <3>2 DEF OnDisk, InAny
  <2>7. Promises
    BY Zenon, <1>1, <2>2, <2>6 DEF FirmInv, Promises
  <2>8. Carries
    BY Zenon, <1>6, <2>5
  <2> QED
    BY Zenon, <1>1, <1>2, <1>3, <1>5, <2>7, <2>8, FirmMove
<1>10. CASE \E m \in retired[p] : DiscardLog(p, m)
  <2>1. UNCHANGED <<active, sealed, sstables, firm>>
    BY Zenon, <1>10 DEF DiscardLog
  <2>2. \A w : (OnDisk(w)' <=> OnDisk(w)) /\ (InMemory(w)' <=> InMemory(w))
    BY Zenon, <1>1, <2>1 DEF OnDisk, InMemory, InAny
  <2>3. Carries /\ Promises
    BY Zenon, <1>6, <1>7, <2>1, <2>2
  <2> QED
    BY Zenon, <1>1, <1>2, <1>3, <1>5, <2>3, FirmMove
<1>11. CASE Compact(p)
  <2>1. PICK a \in sstables[p], b \in sstables[p] :
          sstables' = [sstables EXCEPT ![p] = (@ \ {a, b}) \cup
                         {[data |-> a.data \cup b.data, held |-> {}, pos |-> Larger(a.pos, b.pos)]}]
    BY Zenon, <1>11 DEF Compact
  <2> DEFINE c == [data |-> a.data \cup b.data, held |-> {}, pos |-> Larger(a.pos, b.pos)]
  <2>2. c.data = a.data \cup b.data
    BY Zenon DEF c
  <2>3. /\ \A q \in Parts \ {p} : sstables'[q] = sstables[q]
        /\ sstables'[p] = (sstables[p] \ {a, b}) \cup {c}
    BY Zenon, <2>1 DEF TypeOK
  <2> HIDE DEF c
  <2>4. ASSUME NEW w \in Writes, part[w] \in Parts, OnDisk(w) PROVE OnDisk(w)'
    <3>1. CASE part[w] = p
      <4>1. PICK m \in sstables[p] : w \in m.data
        BY Zenon, <2>4, <3>1 DEF OnDisk, InAny
      <4>2. \E n \in sstables'[p] : w \in n.data
        BY Zenon, <2>2, <2>3, <4>1
      <4> QED
        BY Zenon, <1>1, <3>1, <4>2 DEF OnDisk, InAny
    <3>2. CASE part[w] # p
      BY Zenon, <1>1, <2>3, <2>4, <3>2 DEF OnDisk
    <3> QED
      BY Zenon, <3>1, <3>2
  <2>5. \A w : InMemory(w)' <=> InMemory(w)
    BY Zenon, <1>1, <1>11 DEF Compact, InMemory, InAny
  <2>6. Carries /\ Promises
    BY Zenon, <1>6, <1>7, <1>11, <2>4, <2>5 DEF Compact
  <2> QED
    BY Zenon, <1>1, <1>2, <1>3, <1>5, <2>6, FirmMove
<1> QED
  BY Zenon, <1>8, <1>9, <1>10, <1>11 DEF PartStep


LEMMA FirmTruncate ==
  ASSUME TypeOK, LogInv, FirmInv, NEW p \in Parts, TruncateStep(p)
  PROVE  FirmInv'
<1> USE DEF logVars, tableVars, markVars, runVars
<1>1. UNCHANGED <<part, rp, seg, synced, phase, pc, st, firm, tainted>>
  BY Zenon DEF TruncateStep, SetLowMark, FlushToTruncate, DiscardSSTables, DeleteSSTables, SaveRecord
<1>2. ASSUME NEW t \in Tables, Truncating(t)' PROVE WritesOf(t) \subseteq tainted'
  <2>1. \A q \in Parts : trunc'[q].pc # "idle" => trunc[q].pc # "idle"
    BY Zenon, TruncateFacts
  <2>2. Truncating(t)
    BY Zenon, <1>2, <2>1, TruncatingSame
  <2> QED
    BY Zenon, <1>1, <2>2 DEF FirmInv
<1>3. Ends /\ Promises /\ Shuts
  BY Zenon, <1>1 DEF FirmInv, Ends, Promises, Shuts
<1>4. ASSUME NEW w \in Writes \ tainted', pc[w] # "idle" PROVE part[w] \in Parts /\ part[w][1] # p[1]
  <2>1. part[w] \in Parts
    BY Zenon, <1>4 DEF LogInv, LogOf
  <2>2. trunc[p].pc # "idle"
    BY Zenon, TruncateFacts
  <2> QED
    BY Zenon, <1>1, <2>1, <2>2, TruncatingTaints
<1>5. ASSUME NEW q \in Parts, q[1] # p[1]
      PROVE  record'[q] = record[q] /\ lowest'[q] = lowest[q] /\ sstables'[q] = sstables[q]
  <2>1. q # p
    BY Zenon, <1>5
  <2>2. record'[q] = record[q]
    <3>1. CASE SaveRecord(p)
      <4>1. PICK r \in Parts : r[1] = p[1] /\ record' = [record EXCEPT ![r] = Larger(trunc[p].low, trunc[p].found)]
        BY Zenon, <3>1, RecordType
      <4> QED
        BY Zenon, <1>5, <4>1 DEF TypeOK
    <3>2. CASE record' = record
      BY Zenon, <3>2
    <3> QED
      BY Zenon, <3>1, <3>2 DEF TruncateStep, SetLowMark, FlushToTruncate, DiscardSSTables, DeleteSSTables
  <2>3. lowest'[q] = lowest[q]
    BY Zenon, <2>1 DEF TruncateStep, SetLowMark, FlushToTruncate, DiscardSSTables, DeleteSSTables, SaveRecord, TypeOK
  <2>4. sstables'[q] = sstables[q]
    BY Zenon, <2>1 DEF TruncateStep, SetLowMark, FlushToTruncate, DiscardSSTables, DeleteSSTables, SaveRecord, TypeOK
  <2> QED
    BY Zenon, <2>2, <2>3, <2>4
<1>6. ASSUME NEW w \in Writes, part[w] \in Parts, InMemory(w) PROVE InMemory(w)'
  <2>1. CASE FlushToTruncate(p)
    BY Zenon, <1>6, <2>1, SealKeeps DEF FlushToTruncate
  <2>2. CASE UNCHANGED <<active, sealed>>
    BY Zenon, <1>1, <1>6, <2>2 DEF InMemory
  <2> QED
    BY Zenon, <2>1, <2>2 DEF TruncateStep, SetLowMark, DiscardSSTables, DeleteSSTables, SaveRecord
<1>7. Carries
  <2>1. ASSUME NEW w \in Writes \ tainted', pc[w] # "idle"
        PROVE  /\ record'[part[w]] = record[part[w]] /\ lowest'[part[w]] = lowest[part[w]]
               /\ sstables'[part[w]] = sstables[part[w]]
               /\ InMemory(w) => InMemory(w)'
    BY Zenon, <1>4, <1>5, <1>6, <2>1
  <2>2. ASSUME NEW w, sstables'[part[w]] = sstables[part[w]] PROVE OnDisk(w)' <=> OnDisk(w)
    BY Zenon, <1>1, <2>2 DEF OnDisk, InAny
  <2> QED
    BY Zenon, <2>1, <2>2 DEF Carries
<1> QED
  BY Zenon, <1>1, <1>2, <1>3, <1>7, FirmMove

(* Only a request starts a truncation, and the last step ends it. *)
LEMMA TableTruncating ==
  ASSUME TypeOK, NEW t \in Tables, TableStep(t), NEW u \in Tables, Truncating(u)'
  PROVE  (Truncating(u) /\ (u = t => ~Truncated(t))) \/ (u = t /\ RequestTruncate(t))
<1>1. PICK x \in Shards : trunc'[<<u, x>>].pc # "idle"
  BY Zenon DEF Truncating
<1>2. <<u, x>> \in Parts /\ <<u, x>>[1] = u
  BY Zenon DEF Parts
<1>3. ASSUME u # t PROVE Truncating(u)
  BY Zenon, <1>1, <1>2, <1>3, TableFacts DEF Truncating
<1>4. ASSUME u = t, TakeTime(t) PROVE Truncating(u)
  BY Zenon, <1>1, <1>4 DEF TakeTime, Truncating
<1>5. ASSUME u = t, Truncated(t) PROVE FALSE
  <2>1. trunc'[<<u, x>>] = Idle
    BY Zenon, <1>2, <1>5, TableFacts
  <2> QED
    BY Zenon, <1>1, <2>1, IdleType
<1> QED
  BY Zenon, <1>3, <1>4, <1>5 DEF TableStep

LEMMA FirmTable ==
  ASSUME TypeOK, LogInv, FirmInv, NEW t \in Tables, TableStep(t)
  PROVE  FirmInv'
<1> USE DEF logVars, tableVars, markVars, runVars
<1>1. UNCHANGED <<part, rp, seg, synced, phase, pc, st, active, sealed, sstables, record, lowest>>
  BY Zenon DEF TableStep, RequestTruncate, TakeTime, Truncated
<1>2. Ends /\ Shuts /\ Carries
  BY Zenon, <1>1 DEF Ends, Shuts, Carries, OnDisk, InMemory, InAny
<1>3. /\ tainted \subseteq tainted' /\ firm' \subseteq firm /\ firm' \cap tainted' = {}
      /\ RequestTruncate(t) => WritesOf(t) \subseteq tainted'
  <2>1. CASE RequestTruncate(t)
    BY Zenon, <2>1 DEF FirmInv, RequestTruncate
  <2>2. CASE UNCHANGED <<firm, tainted>> /\ ~RequestTruncate(t)
    BY Zenon, <2>2 DEF FirmInv
  <2> QED
    BY Zenon, <2>1, <2>2 DEF TableStep, TakeTime, Truncated
<1>4. Promises
  BY Zenon, <1>3 DEF Promises
<1>5. ASSUME NEW u \in Tables, Truncating(u)' PROVE WritesOf(u) \subseteq tainted'
  BY Zenon, <1>3, <1>5, TableTruncating DEF FirmInv
<1> QED
  BY Zenon, <1>1, <1>2, <1>3, <1>4, <1>5, FirmMove

LEMMA FirmNode ==
  ASSUME TypeOK, LogInv, TableInv, HandleInv, FirmInv, Crash \/ Replay \/ Serve
  PROVE  FirmInv'
<1> USE DEF logVars, tableVars, markVars, runVars
<1>0. \A w \in firm : Kept(w) /\ w \in Writes /\ part[w] \in Parts
  <2>1. \A w \in firm : Kept(w) /\ w \in Writes
    BY Zenon DEF FirmInv, TypeOK
  <2> QED
    BY Zenon, <2>1 DEF Kept, LogInv, LogOf
<1>1. CASE Crash
  <2>1. /\ phase' = "down" /\ UNCHANGED <<part, rp, record, firm, tainted>>
        /\ \A w \in Writes : pc'[w] # "logged" /\ (pc[w] # "logged" => pc'[w] = pc[w])
        /\ \A w \in Writes : pc'[w] = "idle" <=> pc[w] = "idle"
        /\ \A w \in synced : seg'[w] = seg[w] /\ w \in synced'
    BY Zenon, <1>1, CrashFacts
  <2>2. /\ \A s \in Segments : st'[s] = IF HasFile(s) THEN "old" ELSE st[s]
        /\ \A w \in Writes : seg'[w] \in {seg[w], NoSegment}
        /\ \A p \in Parts : trunc'[p] = Idle /\ sstables[p] \subseteq sstables'[p]
    BY Zenon, <1>1, CrashFacts
  <2>3. \A t \in Tables : ~Truncating(t)'
    BY Zenon, <2>2, IdleType DEF Truncating, Parts
  <2>4. \A s \in Segments : st'[s] \notin {"open", "closed"}
    BY Zenon, <2>2 DEF HasFile
  <2>5. ASSUME NEW w \in Writes \ tainted' PROVE Covered(w)'
    <3>1. Covered(w)
      BY Zenon, <2>1 DEF FirmInv
    <3>2. seg'[w] # NoSegment => seg'[w] \in Segments
      BY Zenon, <2>2 DEF TypeOK
    <3> QED
      BY Zenon, <2>1, <2>4, <3>1, <3>2 DEF Covered
  <2>6. ASSUME NEW w \in firm' PROVE Kept(w)'
    <3>1. Kept(w) /\ w \in Writes /\ part[w] \in Parts
      BY Zenon, <1>0, <2>1
    <3>2. pc[w] = "acked" /\ pc'[w] = "acked"
      BY Zenon, <2>1, <3>1 DEF Kept
    <3>3. CASE OnDisk(w)
      <4>1. OnDisk(w)'
        BY Zenon, <2>1, <2>2, <3>1, <3>3 DEF OnDisk, InAny
      <4> QED
        BY Zenon, <3>2, <4>1 DEF Kept
    <3>4. CASE ~OnDisk(w)
      <4>1. InLog(w) /\ (phase # "down" => InMemory(w))
        BY Zenon, <3>1, <3>4 DEF Kept
      <4>2. seg[w] \in Segments /\ w \in synced
        <5>1. w \in synced /\ seg[w] # NoSegment
          BY Zenon, <4>1 DEF InLog, LogInv
        <5> QED
          BY Zenon, <3>1, <5>1 DEF TypeOK
      <4>3. HasFile(seg[w])
        <5>1. CASE phase = "up"
          <6>1. InMemory(w)
            BY Zenon, <4>1, <5>1
          <6>2. PICK m \in {active[part[w]]} \cup sealed[part[w]] : w \in m.data
            BY Zenon, <6>1 DEF InMemory, InAny
          <6>3. w \in m.held
            BY Zenon, <3>1, <5>1, <6>2 DEF TableInv, Handles
          <6>4. Held(w)
            BY Zenon, <3>1, <6>2, <6>3 DEF Held, Unflushed
          <6> QED
            BY Zenon, <3>1, <6>4 DEF HandleInv, HasFile
        <5>2. CASE phase # "up"
          BY Zenon, <4>1, <5>2 DEF InLog, HasFile
        <5> QED
          BY Zenon, <5>1, <5>2
      <4>4. InLog(w)'
        BY Zenon, <2>1, <2>2, <4>1, <4>2, <4>3 DEF InLog
      <4> QED
        BY Zenon, <2>1, <3>2, <4>4 DEF Kept
    <3> QED
      BY Zenon, <3>3, <3>4
  <2>7. firm' \cap tainted' = {}
    BY Zenon, <2>1 DEF FirmInv
  <2> QED
    BY Zenon, <2>3, <2>5, <2>6, <2>7 DEF FirmInv
<1>2. CASE Replay
  <2>1. /\ UNCHANGED <<part, rp, seg, synced, pc, st, sstables, record, lowest, trunc, firm, tainted>>
        /\ phase = "down" /\ phase' = "replayed"
    BY Zenon, <1>2 DEF Replay
  <2>2. \A t \in Tables : Truncating(t)' => WritesOf(t)' \subseteq tainted'
    BY Zenon, <2>1 DEF FirmInv, Truncating, WritesOf
  <2>3. \A w : OnDisk(w)' <=> OnDisk(w)
    BY Zenon, <2>1 DEF OnDisk, InAny
  <2>4. ASSUME NEW w \in Writes \ tainted' PROVE Covered(w)'
    <3>1. Covered(w)
      BY Zenon, <2>1 DEF FirmInv
    <3>2. seg[w] # NoSegment => st[seg[w]] \notin {"open", "closed"}
      <4>1. seg[w] # NoSegment => st[seg[w]] \in {"unborn", "old", "gone"}
        BY Zenon, <2>1 DEF LogInv, TypeOK
      <4> QED
        BY Zenon, <4>1
    <3> QED
      BY Zenon, <2>1, <3>1, <3>2 DEF Covered
  <2>5. ASSUME NEW w \in firm' PROVE Kept(w)'
    <3>1. Kept(w) /\ w \in Writes /\ part[w] \in Parts
      BY Zenon, <1>0, <2>1
    <3>2. CASE OnDisk(w)
      BY Zenon, <2>1, <2>3, <3>1, <3>2 DEF Kept
    <3>3. CASE ~OnDisk(w)
      <4>1. InLog(w)
        BY Zenon, <3>1, <3>3 DEF Kept
      <4>2. InLog(w)'
        BY Zenon, <2>1, <4>1 DEF InLog
      <4>3. Replayed(w)
        <5>1. seg[w] # NoSegment /\ st[seg[w]] = "old" /\ rp[w] > record[part[w]]
          BY Zenon, <2>1, <4>1 DEF InLog, LogInv
        <5>2. PICK t \in Tables, x \in Shards : part[w] = <<t, x>>
          BY <3>1 DEF Parts
        <5>3. part[w] = <<t, part[w][2]>> /\ rp[w] \in Nat /\ record[part[w]] \in Nat
          BY <3>1, <5>2 DEF TypeOK
        <5>4. rp[w] >= record[<<t, part[w][2]>>]
          BY <5>1, <5>3
        <5> QED
          BY Zenon, <5>1, <5>4 DEF Replayed
      <4>4. w \in active'[part[w]].data
        BY Zenon, <1>2, <3>1, <4>3 DEF Replay
      <4>5. InMemory(w)'
        BY Zenon, <2>1, <4>4 DEF InMemory
      <4> QED
        BY Zenon, <2>1, <3>1, <4>2, <4>5 DEF Kept
    <3> QED
      BY Zenon, <3>2, <3>3
  <2>6. firm' \cap tainted' = {}
    BY Zenon, <2>1 DEF FirmInv
  <2> QED
    BY Zenon, <2>2, <2>4, <2>5, <2>6 DEF FirmInv
<1>3. CASE Serve
  <2>1. /\ UNCHANGED <<part, rp, seg, synced, pc, st, active, sealed, sstables, record, lowest, trunc, firm, tainted>>
        /\ phase = "replayed" /\ phase' = "up"
    BY Zenon, <1>3 DEF Serve
  <2>2. \A t \in Tables : Truncating(t)' => WritesOf(t)' \subseteq tainted'
    BY Zenon, <2>1 DEF FirmInv, Truncating, WritesOf
  <2>3. \A w : (OnDisk(w)' <=> OnDisk(w)) /\ (InMemory(w)' <=> InMemory(w))
    BY Zenon, <2>1 DEF OnDisk, InMemory, InAny
  <2>4. \A w \in Writes \ tainted' : Covered(w)'
    BY Zenon, <2>1, <2>3 DEF FirmInv, Covered
  <2>5. ASSUME NEW w \in firm' PROVE Kept(w)'
    <3>1. Kept(w)
      BY Zenon, <1>0, <2>1
    <3>2. InLog(w) => InLog(w)'
      BY Zenon, <2>1 DEF InLog
    <3> QED
      BY Zenon, <2>1, <2>3, <3>1, <3>2 DEF Kept
  <2>6. firm' \cap tainted' = {}
    BY Zenon, <2>1 DEF FirmInv
  <2> QED
    BY Zenon, <2>2, <2>4, <2>5, <2>6 DEF FirmInv
<1> QED
  BY Zenon, <1>1, <1>2, <1>3

LEMMA FirmStep ==
  ASSUME TypeOK, LogInv, TableInv, HandleInv, FirmInv, [Next]_vars
  PROVE  FirmInv'
<1>1. CASE UNCHANGED vars
  <2>1. UNCHANGED <<part, rp, seg, synced, phase, pc, st, active, sealed, sstables, record, lowest, trunc, firm, tainted>>
    BY Zenon, <1>1 DEF vars, logVars, tableVars, markVars, runVars
  <2>2. Ends /\ Promises /\ Shuts /\ Carries
    BY Zenon, <2>1 DEF FirmInv, Ends, Promises, Shuts, Carries, OnDisk, InMemory, InAny
  <2>3. \A t \in Tables : Truncating(t)' => WritesOf(t) \subseteq tainted'
    BY Zenon, <2>1 DEF FirmInv, Truncating
  <2> QED
    BY Zenon, <2>1, <2>2, <2>3, FirmMove
<1> QED
  BY Zenon, <1>1, FirmWrite, FirmSegment, FirmPart, FirmTruncate, FirmTable, FirmNode DEF Next


LEMMA KeepInit == Init => KeepInv
<1> SUFFICES ASSUME Init PROVE KeepInv
  OBVIOUS
<1>1. /\ \A w \in Writes : part[w] = NoPart /\ rp[w] = 0 /\ seg[w] = NoSegment /\ pc[w] = "idle"
      /\ \A s \in Segments : st[s] = "unborn" /\ dirty[s] = {}
      /\ \A p \in Parts : /\ active[p] = Empty /\ sealed[p] = {} /\ retired[p] = {} /\ sstables[p] = {}
                          /\ highest[p] = 0 /\ lowest[p] = 0 /\ trunc[p] = Idle /\ record[p] = 0
      /\ last = 0 /\ synced = {} /\ phase = "up" /\ firm = {} /\ tainted = {}
  BY Zenon DEF Init
<1>2. TypeOK
  <2>1. active \in [Parts -> Memtable] /\ trunc \in [Parts -> Trunc]
    BY Zenon, EmptyType, IdleType DEF Init
  <2>2. /\ rp \in [Writes -> Nat] /\ last \in Nat /\ highest \in [Parts -> Nat] /\ lowest \in [Parts -> Nat]
        /\ record \in [Parts -> Nat] /\ crashes \in Nat /\ truncations \in Nat
    BY Zenon DEF Init
  <2>3. /\ part \in [Writes -> Parts \cup {NoPart}] /\ seg \in [Writes -> Segments \cup {NoSegment}]
        /\ pc \in [Writes -> {"idle", "logged", "acked", "failed"}]
        /\ st \in [Segments -> {"unborn", "open", "closed", "condemned", "old", "gone"}]
        /\ dirty \in [Segments -> SUBSET Writes] /\ doomed \in [Tables -> SUBSET Writes]
        /\ sealed \in [Parts -> SUBSET Memtable] /\ retired \in [Parts -> SUBSET Memtable]
        /\ sstables \in [Parts -> SUBSET Memtable]
    BY Zenon DEF Init
  <2>4. /\ synced \subseteq Writes /\ phase \in {"down", "replayed", "up"}
        /\ firm \subseteq Writes /\ dead \subseteq Writes /\ tainted \subseteq Writes
    BY Zenon DEF Init
  <2> QED
    BY Zenon, <2>1, <2>2, <2>3, <2>4 DEF TypeOK
<1>3. LogInv
  <2>1. \A w \in Writes : LogOf(w)
    BY Zenon, <1>1 DEF LogOf
  <2>2. \A p \in Parts : BoundsOf(p)
    BY <1>1, EmptyType, IdleType DEF BoundsOf
  <2> QED
    BY Zenon, <1>1, <2>1, <2>2 DEF LogInv
<1>4. \A w \in Writes : ~Held(w)
  BY Zenon, <1>1, EmptyType DEF Held, Unflushed
<1>5. TableInv
  <2>1. ASSUME NEW p \in Parts PROVE \A m \in Holders(p) : Fits(m, p)
    <3>1. Holders(p) \subseteq {Empty}
      BY Zenon, <1>1, IdleType DEF Holders, Unflushed
    <3> QED
      BY Zenon, <3>1, EmptyType DEF Fits
  <2>2. \A p \in Parts : Handles(p)
    BY ZenonT(60), <1>1, EmptyType DEF Handles, Apart
  <2> QED
    BY Zenon, <2>1, <2>2 DEF TableInv
<1>6. HandleInv
  BY Zenon, <1>1, <1>4 DEF HandleInv, DirtyCountsHandles
<1>7. FirmInv
  <2>1. \A t \in Tables : ~Truncating(t)
    BY Zenon, <1>1, IdleType DEF Truncating, Parts
  <2>2. \A w \in Writes : Covered(w)
    BY Zenon, <1>1 DEF Covered
  <2> QED
    BY Zenon, <1>1, <2>1, <2>2 DEF FirmInv
<1> QED
  BY Zenon, <1>2, <1>3, <1>5, <1>6, <1>7 DEF KeepInv

LEMMA KeepStep ==
  ASSUME KeepInv, [Next]_vars
  PROVE  KeepInv'
BY Zenon, TypeStep, LogStep, TableInvStep, HandleInvStep, FirmStep DEF KeepInv

(* The invariant behind what a node keeps, over writes, flushes, compactions, *)
(* truncations, crashes and replay (commitlog.cc, table.cc, database.cc).      *)
THEOREM KeepInvariant == Spec => []KeepInv
<1>1. KeepInv /\ [Next]_vars => KeepInv'
  BY Zenon, KeepStep
<1> QED
  BY <1>1, KeepInit, PTL DEF Spec

(* The segments of the log count exactly the handles that are alive, whatever the *)
(* order of writes, flushes, syncs and errors: mark_clean() never underflows, and   *)
(* no segment is kept for a write that is gone.                                      *)
THEOREM CountsExact == Spec => []DirtyCountsHandles
<1>1. KeepInv => DirtyCountsHandles
  BY Zenon DEF KeepInv, HandleInv
<1> QED
  BY <1>1, KeepInvariant, PTL

LEMMA KeptShown ==
  ASSUME KeepInv, phase = "up", NEW w \in firm
  PROVE  w \in Shown
<1>1. Kept(w) /\ w \in Writes
  BY Zenon DEF FirmInv, KeepInv, TypeOK
<1>2. pc[w] # "idle" /\ (OnDisk(w) \/ InMemory(w))
  BY Zenon, <1>1 DEF Kept
<1>3. part[w] \in Parts
  BY Zenon, <1>1, <1>2 DEF KeepInv, LogInv, LogOf
<1> QED
  BY Zenon, <1>1, <1>2, <1>3 DEF Shown, InTable, OnDisk, InMemory

(* While the node is up it shows every write it acknowledged and synced or flushed, *)
(* on any number of shards, after any number of crashes, unless a truncation of its   *)
(* table was asked for.                                                               *)
FirmVisible == phase = "up" => firm \subseteq Shown
THEOREM FirmIsShown == Spec => []FirmVisible
<1>1. KeepInv => FirmVisible
  BY Zenon, KeptShown DEF FirmVisible
<1> QED
  BY <1>1, KeepInvariant, PTL

----------------------------------------------------------------------------
(* On one shard, and when replayed files are removed before a truncation is *)
(* asked for, what a truncation removed never returns, and the storage of a *)
(* node implements DurableStore.                                            *)


(* Steps that do not bring anything back.                                  *)
Stays(w) ==
  /\ pc'[w] = "acked" /\ part'[w] = part[w] /\ rp'[w] = rp[w]
  /\ HasEntry(w)' => HasEntry(w)
  /\ HasEntry(w)' /\ st'[seg'[w]] # "old" => st[seg[w]] # "old"
Sinks(w, p) ==
  /\ w \in active'[p].data => w \in active[p].data
  /\ \A m \in sealed'[p] : w \in m.data => m \in sealed[p] \/ w \in active[p].data
  /\ \A m \in sstables'[p] : w \in m.data =>
       \/ m \in sstables[p] \/ InMemory(w)
       \/ ~CompactionDisabled(p) /\ InAny(w, sstables[p])

LEMMA SinksTable ==
  ASSUME NEW w \in Writes, part'[w] = part[w], NEW p, p = part[w], Sinks(w, p)
  PROVE  /\ InMemory(w)' => InMemory(w)
         /\ InTable(w, p)' => InTable(w, p)
<1>1. InMemory(w)' => InMemory(w)
  <2>1. InMemory(w)' <=> (w \in active'[p].data \/ \E m \in sealed'[p] : w \in m.data)
    BY Zenon DEF InMemory, InAny
  <2>2. InMemory(w) <=> (w \in active[p].data \/ \E m \in sealed[p] : w \in m.data)
    BY Zenon DEF InMemory, InAny
  <2> QED
    BY Zenon, <2>1, <2>2 DEF Sinks
<1>2. InAny(w, sstables'[p]) => InMemory(w) \/ InAny(w, sstables[p])
  BY Zenon DEF Sinks, InAny
<1>3. InTable(w, p) <=> (InMemory(w) \/ InAny(w, sstables[p]))
  BY Zenon DEF InTable, InMemory
<1>4. InTable(w, p)' <=> (InMemory(w)' \/ InAny(w, sstables'[p]))
  BY Zenon DEF InTable, InMemory, InAny
<1> QED
  BY Zenon, <1>1, <1>2, <1>3, <1>4

LEMMA Fade ==
  ASSUME NEW w \in Writes, NEW p, p = part[w], Stays(w), Sinks(w, p),
         trunc'[p] = trunc[p], record'[p] = record[p]
  PROVE  /\ Buried(w) => Buried(w)'
         /\ Swept(w, p) => Swept(w, p)'
<1>1. part'[w] = p /\ rp'[w] = rp[w] /\ pc'[w] = "acked" /\ (HasEntry(w)' => HasEntry(w))
  BY Zenon DEF Stays
<1>2. (InMemory(w)' => InMemory(w)) /\ (InTable(w, p)' => InTable(w, p))
  BY Zenon, <1>1, SinksTable
<1>3. InAny(w, trunc'[p].remove) <=> InAny(w, trunc[p].remove)
  BY Zenon
<1>4. Buried(w) => Buried(w)'
  BY Zenon, <1>1, <1>2, <1>3 DEF Buried, InTable, InAny
<1>5. ASSUME Swept(w, p) PROVE Swept(w, p)'
  <2>1. /\ w \notin active[p].data /\ (\A m \in sealed[p] : w \in m.data => m \in trunc[p].wait) =>
             w \notin active'[p].data /\ (\A m \in sealed'[p] : w \in m.data => m \in trunc'[p].wait)
    BY Zenon DEF Sinks
  <2>2. ASSUME After(p, {"timed", "snapshotting"}), ~InMemory(w),
               \A m \in sstables[p] : w \in m.data => m \in trunc[p].before
        PROVE  \A m \in sstables'[p] : w \in m.data => m \in trunc'[p].before
    <3>1. CompactionDisabled(p)
      BY Zenon, <2>2 DEF After, CompactionDisabled
    <3> QED
      BY Zenon, <2>2, <3>1 DEF Sinks
  <2>3. \A pcs : After(p, pcs)' <=> After(p, pcs)
    BY Zenon DEF After
  <2> QED
    BY Zenon, <1>1, <1>2, <1>3, <1>5, <2>1, <2>2, <2>3 DEF Swept
<1> QED
  BY Zenon, <1>4, <1>5

LEMMA DeadTyped ==
  ASSUME TypeOK, LogInv, DeadInv, NEW w \in Writes, w \in dead \/ \E t \in Tables : w \in doomed[t]
  PROVE  pc[w] = "acked" /\ part[w] \in Parts
<1>1. pc[w] = "acked"
  BY Zenon DEF DeadInv, Buried
<1> QED
  BY Zenon, <1>1 DEF LogInv, LogOf

(* Steps outside a truncation and a restart. *)
Fades == \A w \in Writes : pc[w] = "acked" => Stays(w) /\ Sinks(w, part[w])
NoNewOld == \A s \in Segments : st'[s] = "old" => st[s] = "old"
Acks == \A w \in Writes : pc'[w] = "acked" => pc[w] = "acked" \/ rp'[w] <= highest'[part'[w]]
Raises == \A p \in Parts : highest[p] <= highest'[p]

LEMMA DeadFrame ==
  ASSUME TypeOK, TypeOK', LogInv, DeadInv, UNCHANGED <<trunc, record, dead, doomed>>,
         Fades, NoNewOld, Acks, Raises
  PROVE  DeadInv'
<1>1. ASSUME NEW w \in Writes PROVE Applied(w)'
  <2>1. SUFFICES ASSUME pc'[w] = "acked", HasEntry(w)', st'[seg'[w]] # "old"
                 PROVE  rp'[w] <= highest'[part'[w]]
    BY Zenon DEF Applied
  <2>2. CASE pc[w] # "acked"
    BY Zenon, <2>1, <2>2 DEF Acks
  <2>3. CASE pc[w] = "acked"
    <3>1. Stays(w) /\ part[w] \in Parts
      BY Zenon, <2>3 DEF Fades, LogInv, LogOf
    <3>2. rp[w] <= highest[part[w]]
      BY Zenon, <2>1, <2>3, <3>1 DEF DeadInv, Applied, Stays
    <3>3. rp[w] \in Nat /\ highest[part[w]] \in Nat /\ highest'[part[w]] \in Nat
      BY Zenon, <3>1 DEF TypeOK
    <3>4. highest[part[w]] <= highest'[part[w]]
      BY Zenon, <3>1 DEF Raises
    <3>5. rp[w] <= highest'[part[w]]
      BY <3>2, <3>3, <3>4
    <3> QED
      BY Zenon, <3>1, <3>5 DEF Stays
  <2> QED
    BY Zenon, <2>2, <2>3
<1>2. ASSUME NEW w \in dead' PROVE Buried(w)'
  <2>1. w \in Writes /\ w \in dead /\ Buried(w)
    BY Zenon DEF TypeOK, DeadInv
  <2>2. PICK p \in Parts : p = part[w]
    BY Zenon, <2>1, DeadTyped
  <2>3. Stays(w) /\ Sinks(w, p)
    BY Zenon, <2>1, <2>2, DeadTyped DEF Fades
  <2> QED
    BY Zenon, <2>1, <2>2, <2>3, Fade
<1>3. ASSUME NEW t \in Tables, NEW w \in doomed'[t]
      PROVE  pc'[w] = "acked" /\ part'[w][1] = t /\ Swept(w, part[w])'
  <2>1. w \in Writes /\ w \in doomed[t] /\ part[w][1] = t /\ Swept(w, part[w])
    BY Zenon DEF TypeOK, DeadInv
  <2>2. PICK p \in Parts : p = part[w]
    BY Zenon, <2>1, DeadTyped
  <2>3. Stays(w) /\ Sinks(w, p)
    BY Zenon, <2>1, <2>2, DeadTyped DEF Fades
  <2>4. Swept(w, p)'
    BY Zenon, <2>1, <2>2, <2>3, Fade
  <2>5. part'[w] = p /\ pc'[w] = "acked"
    BY Zenon, <2>2, <2>3 DEF Stays
  <2> QED
    BY Zenon, <2>1, <2>2, <2>4, <2>5
<1>4. ASSUME NEW t \in Tables, Truncating(t)'
      PROVE  (\A s \in Segments : st'[s] # "old") /\ dead' \cap WritesOf(t)' \subseteq doomed'[t]
  <2>1. Truncating(t)
    BY Zenon, <1>4 DEF Truncating
  <2>2. \A s \in Segments : st'[s] # "old"
    BY Zenon, <2>1 DEF DeadInv, NoNewOld
  <2>3. ASSUME NEW w \in dead, w \in WritesOf(t)' PROVE w \in WritesOf(t)
    <3>1. w \in Writes /\ part'[w] = part[w]
      BY Zenon, DeadTyped DEF Fades, Stays, TypeOK
    <3> QED
      BY Zenon, <2>3, <3>1 DEF WritesOf
  <2> QED
    BY Zenon, <2>1, <2>2, <2>3 DEF DeadInv
<1> QED
  BY Zenon, <1>1, <1>2, <1>3, <1>4 DEF DeadInv

(* A write whose tables, position and part are left alone stays where it is. *)
LEMMA SameTables ==
  ASSUME NEW w \in Writes, NEW p, UNCHANGED <<active, sealed, sstables>>
  PROVE  Sinks(w, p)
BY Zenon DEF Sinks

(* What a segment that has a file becomes. *)
Lasts == \A s \in Segments : /\ HasFile(s)' => HasFile(s) \/ st[s] = "unborn"
                             /\ HasFile(s)' /\ st'[s] # "old" => st[s] # "old"

LEMMA StaysSame ==
  ASSUME TypeOK, LogInv, Lasts, NEW w \in Writes, pc[w] = "acked", pc'[w] = "acked",
         part'[w] = part[w], rp'[w] = rp[w], seg'[w] = seg[w]
  PROVE  Stays(w)
<1>1. seg[w] # NoSegment => seg[w] \in Segments /\ st[seg[w]] # "unborn"
  BY Zenon DEF TypeOK, LogInv, LogOf
<1>2. HasEntry(w)' => seg[w] # NoSegment /\ HasFile(seg[w])'
  BY Zenon DEF HasEntry, HasFile
<1> QED
  BY Zenon, <1>1, <1>2 DEF Stays, Lasts, HasEntry

LEMMA DeadWrite ==
  ASSUME TypeOK, TypeOK', LogInv, HandleInv, DeadInv, NEW w \in Writes, WriteStep(w)
  PROVE  DeadInv'
<1> USE DEF logVars, tableVars, markVars, runVars
<1>0. UNCHANGED <<trunc, record, dead, doomed>>
  BY Zenon DEF WriteStep, Allocate, Apply, ApplyReordered, AbandonApply, AbandonSync
<1>1. CASE \E p \in Parts : Allocate(w, p)
  <2>1. PICK p \in Parts : Allocate(w, p)
    BY Zenon, <1>1
  <2>2. PICK s \in Segments :
          /\ seg' = [seg EXCEPT ![w] = s]
          /\ st' = [st EXCEPT ![s] = "open"]
          /\ st[s] \in {"open", "unborn"}
    BY Zenon, <2>1 DEF Allocate, SegmentsOf
  <2>3. /\ pc[w] = "idle" /\ pc'[w] = "logged" /\ UNCHANGED <<active, sealed, sstables, highest>>
        /\ \A v \in Writes \ {w} : pc'[v] = pc[v] /\ part'[v] = part[v] /\ rp'[v] = rp[v]
    <3>1. /\ pc[w] = "idle" /\ UNCHANGED <<active, sealed, sstables, highest>>
          /\ pc' = [pc EXCEPT ![w] = "logged"] /\ part' = [part EXCEPT ![w] = p]
          /\ rp' = [rp EXCEPT ![w] = last + 1]
      BY Zenon, <2>1 DEF Allocate
    <3> QED
      BY <3>1 DEF TypeOK
  <2>4. /\ \A v \in Writes \ {w} : seg'[v] = seg[v]
        /\ st'[s] = "open" /\ \A r \in Segments \ {s} : st'[r] = st[r]
    BY ZenonT(60), <2>2 DEF TypeOK
  <2>5. Lasts /\ NoNewOld
    BY Zenon, <2>2, <2>4 DEF Lasts, NoNewOld, HasFile
  <2>6. Fades
    <3>1. SUFFICES ASSUME NEW v \in Writes, pc[v] = "acked" PROVE Stays(v) /\ Sinks(v, part[v])
      BY Zenon DEF Fades
    <3> QED
      BY Zenon, <2>3, <2>4, <2>5, <3>1, SameTables, StaysSame
  <2>7. Acks /\ Raises
    <3>1. Acks
      BY Zenon, <2>3 DEF Acks
    <3>2. Raises
      BY <2>3 DEF Raises, TypeOK
    <3> QED
      BY Zenon, <3>1, <3>2
  <2> QED
    BY Zenon, <1>0, <2>5, <2>6, <2>7, DeadFrame
<1>2. CASE Apply(w)
  <2>1. PICK p \in Parts : p = part[w]
    BY Zenon, <1>2 DEF Apply, LogInv, LogOf
  <2>2. /\ active' = [active EXCEPT ![p] = [data |-> @.data \cup {w}, held |-> @.held \cup {w},
                                            pos |-> Larger(@.pos, rp[w])]]
        /\ highest' = [highest EXCEPT ![p] = Larger(@, rp[w])]
        /\ pc[w] = "logged" /\ pc' = [pc EXCEPT ![w] = "acked"]
        /\ UNCHANGED <<part, rp, seg, st, sealed, sstables>>
    BY Zenon, <1>2, <2>1 DEF Apply
  <2>3. Lasts /\ NoNewOld
    BY Zenon, <2>2 DEF Lasts, NoNewOld, HasFile
  <2>4. /\ highest'[p] = Larger(highest[p], rp[w]) /\ \A q \in Parts \ {p} : highest'[q] = highest[q]
        /\ highest \in [Parts -> Nat] /\ rp[w] \in Nat
    <3>1. highest \in [Parts -> Nat] /\ rp[w] \in Nat
      BY Zenon DEF TypeOK
    <3> QED
      BY Zenon, <2>2, <3>1
  <2>5. Acks /\ Raises
    <3>0. highest[p] \in Nat
      BY Zenon, <2>4
    <3>4. rp[w] <= Larger(highest[p], rp[w]) /\ highest[p] <= Larger(highest[p], rp[w])
      BY Zenon, <2>4, <3>0, LargerType
    <3>1. rp[w] <= highest'[p] /\ highest[p] <= highest'[p]
      BY Zenon, <2>4, <3>4
    <3>2. Raises
      BY <2>4, <3>1 DEF Raises
    <3>3. Acks
      BY Zenon, <2>1, <2>2, <3>1 DEF Acks, TypeOK
    <3> QED
      BY Zenon, <3>2, <3>3
  <2>6. Fades
    <3>1. SUFFICES ASSUME NEW v \in Writes, pc[v] = "acked" PROVE Stays(v) /\ Sinks(v, part[v])
      BY Zenon DEF Fades
    <3>2. v # w /\ pc'[v] = "acked"
      BY Zenon, <2>2, <3>1 DEF TypeOK
    <3>3. part[v] \in Parts
      BY Zenon, <3>1 DEF LogInv, LogOf
    <3>4. v \in active'[part[v]].data => v \in active[part[v]].data
      <4>1. active'[p].data = active[p].data \cup {w} /\ \A q \in Parts \ {p} : active'[q] = active[q]
        <5>1. active \in [Parts -> Memtable]
          BY Zenon DEF TypeOK
        <5> QED
          BY <2>2, <5>1
      <4> QED
        BY Zenon, <3>2, <3>3, <4>1
    <3>5. Sinks(v, part[v])
      BY Zenon, <2>2, <3>4 DEF Sinks
    <3> QED
      BY Zenon, <2>2, <2>3, <3>1, <3>2, <3>5, StaysSame
  <2> QED
    BY Zenon, <1>0, <2>3, <2>5, <2>6, DeadFrame
<1>3. CASE ApplyReordered(w) \/ AbandonApply(w) \/ AbandonSync(w)
  <2>1. /\ pc[w] = "logged" /\ seg[w] \in Segments
        /\ \E x \in {"acked", "failed"} : pc' = [pc EXCEPT ![w] = x]
    BY Zenon, <1>3, ReleaseFacts
  <2>2. UNCHANGED <<part, rp, seg, active, sealed, sstables, highest>>
    BY Zenon, <1>3 DEF ApplyReordered, AbandonApply, AbandonSync
  <2>3. Lasts /\ NoNewOld
    <3>1. \A s \in Segments : \/ st'[s] = st[s]
                              \/ st[s] \in {"open", "closed"} /\ st'[s] \in {"closed", "condemned"}
      BY Zenon, <1>3, ReleaseFacts
    <3> QED
      BY Zenon, <3>1 DEF Lasts, NoNewOld, HasFile
  <2>4. Fades
    <3>1. SUFFICES ASSUME NEW v \in Writes, pc[v] = "acked" PROVE Stays(v) /\ Sinks(v, part[v])
      BY Zenon DEF Fades
    <3>2. pc'[v] = "acked"
      BY ZenonT(60), <2>1, <3>1 DEF TypeOK
    <3> QED
      BY Zenon, <2>2, <2>3, <3>1, <3>2, SameTables, StaysSame
  <2>5. Raises
    BY <2>2 DEF Raises, TypeOK
  <2>6. Acks
    <3>1. SUFFICES ASSUME NEW v \in Writes, pc'[v] = "acked", pc[v] # "acked"
                   PROVE  rp[v] <= highest[part[v]]
      BY Zenon, <2>2 DEF Acks
    <3>2. v = w
      BY Zenon, <2>1, <3>1 DEF TypeOK
    <3>3. ApplyReordered(w)
      BY ZenonT(60), <1>3, <3>1, <3>2 DEF AbandonApply, AbandonSync, TypeOK
    <3>4. part[w] \in Parts /\ rp[w] < lowest[part[w]]
      BY Zenon, <2>1, <3>3 DEF ApplyReordered, LogInv, LogOf
    <3>5. lowest[part[w]] <= highest[part[w]]
      BY Zenon, <3>4 DEF LogInv, BoundsOf
    <3>6. rp[w] \in Nat /\ lowest[part[w]] \in Nat /\ highest[part[w]] \in Nat
      BY Zenon, <3>4 DEF TypeOK
    <3> QED
      BY <3>2, <3>4, <3>5, <3>6
  <2> QED
    BY Zenon, <1>0, <2>3, <2>4, <2>5, <2>6, DeadFrame
<1> QED
  BY Zenon, <1>1, <1>2, <1>3 DEF WriteStep

LEMMA DeadSegment ==
  ASSUME TypeOK, TypeOK', LogInv, DeadInv, NEW s \in Segments, SegmentStep(s)
  PROVE  DeadInv'
<1> USE DEF logVars, tableVars, markVars, runVars
<1>1. UNCHANGED <<part, rp, seg, pc, active, sealed, sstables, highest, trunc, record, dead, doomed>>
  BY Zenon DEF SegmentStep, Sync, CloseSegment, DeleteFile
<1>2. \A r \in Segments : \/ st'[r] = st[r] \/ st'[r] = "gone"
                          \/ st[r] = "open" /\ st'[r] = "closed"
  BY ZenonT(60) DEF SegmentStep, Sync, CloseSegment, DeleteFile, TypeOK
<1>3. Lasts /\ NoNewOld
  BY Zenon, <1>2 DEF Lasts, NoNewOld, HasFile
<1>4. Fades
  BY Zenon, <1>1, <1>3, SameTables, StaysSame DEF Fades
<1>5. Raises
  BY SMTT(30), <1>1 DEF Raises, TypeOK
<1>6. Acks
  BY Zenon, <1>1 DEF Acks
<1> QED
  BY Zenon, <1>1, <1>3, <1>4, <1>5, <1>6, DeadFrame


LEMMA DeadPart ==
  ASSUME TypeOK, TypeOK', LogInv, DeadInv, NEW p \in Parts, PartStep(p)
  PROVE  DeadInv'
<1> USE DEF logVars, tableVars, markVars, runVars
<1>1. UNCHANGED <<part, rp, seg, pc, highest, trunc, record, dead, doomed>>
  BY Zenon DEF PartStep, Seal, Compact, WriteSSTable, DiscardLog
<1>2. Lasts /\ NoNewOld
  <2>1. ASSUME NEW m \in retired[p], DiscardLog(p, m), NEW s \in Segments
        PROVE  st'[s] = st[s] \/ (st[s] = "closed" /\ st'[s] = "condemned")
    BY Zenon, <2>1 DEF DiscardLog, DiscardUnused, CanDelete
  <2>2. \A s \in Segments : st'[s] = st[s] \/ (st[s] = "closed" /\ st'[s] = "condemned")
    BY Zenon, <2>1 DEF PartStep, Seal, Compact, WriteSSTable
  <2> QED
    BY Zenon, <2>2 DEF Lasts, NoNewOld, HasFile
<1>3. ASSUME NEW w \in Writes, NEW q \in Parts, q = part[w] PROVE Sinks(w, q)
  <2>1. CASE Seal(p)
    <3>1. UNCHANGED sstables
      BY Zenon, <2>1 DEF Seal
    <3>2. CASE q # p
      BY ZenonT(60), <2>1, <3>1, <3>2 DEF Seal, Sinks, TypeOK
    <3>3. CASE q = p
      <4>1. active'[p] = Empty /\ sealed'[p] = SealedAfter(p)
        BY Zenon, <2>1 DEF Seal, TypeOK
      <4> QED
        BY Zenon, <3>1, <3>3, <4>1, SealedFacts, EmptyType DEF Sinks
    <3> QED
      BY Zenon, <3>2, <3>3
  <2>2. CASE Compact(p)
    <3>1. PICK a \in sstables[p], b \in sstables[p] :
            sstables' = [sstables EXCEPT ![p] = (@ \ {a, b}) \cup
                           {[data |-> a.data \cup b.data, held |-> {}, pos |-> Larger(a.pos, b.pos)]}]
      BY Zenon, <2>2 DEF Compact
    <3>2. UNCHANGED <<active, sealed>> /\ ~CompactionDisabled(p)
      BY Zenon, <2>2 DEF Compact
    <3>3. CASE q # p
      BY ZenonT(60), <3>1, <3>2, <3>3 DEF Sinks, TypeOK
    <3>4. CASE q = p
      <4>1. ASSUME NEW m \in sstables'[p], w \in m.data PROVE m \in sstables[p] \/ InAny(w, sstables[p])
        <5>1. \/ m \in sstables[p]
              \/ m = [data |-> a.data \cup b.data, held |-> {}, pos |-> Larger(a.pos, b.pos)]
          BY Zenon, <3>1 DEF TypeOK
        <5>2. m \in sstables[p] \/ m.data = a.data \cup b.data
          BY <5>1
        <5> QED
          BY Zenon, <4>1, <5>2 DEF InAny
      <4> QED
        BY Zenon, <3>2, <3>4, <4>1 DEF Sinks
    <3> QED
      BY Zenon, <3>3, <3>4
  <2>3. CASE \E m \in sealed[p] : WriteSSTable(p, m)
    <3>1. PICK m \in sealed[p] : WriteSSTable(p, m)
      BY Zenon, <2>3
    <3>2. UNCHANGED active
      BY Zenon, <3>1 DEF WriteSSTable
    <3>3. CASE q # p
      BY ZenonT(60), <3>1, <3>2, <3>3 DEF WriteSSTable, Sinks, TypeOK
    <3>4. CASE q = p
      <4>1. sealed'[p] \subseteq sealed[p]
        BY Zenon, <3>1 DEF WriteSSTable, TypeOK
      <4>2. ASSUME NEW n \in sstables'[p], w \in n.data PROVE n \in sstables[p] \/ InMemory(w)
        <5>1. n \in sstables[p] \/ n = [m EXCEPT !.held = {}]
          BY ZenonT(60), <3>1 DEF WriteSSTable, TypeOK
        <5>2. m \in Memtable
          BY Zenon DEF TypeOK
        <5>3. n \in sstables[p] \/ n.data = m.data
          BY <5>1, <5>2 DEF Memtable
        <5> QED
          BY Zenon, <1>3, <3>4, <4>2, <5>3 DEF InMemory, InAny
      <4> QED
        BY Zenon, <3>2, <3>4, <4>1, <4>2 DEF Sinks
    <3> QED
      BY Zenon, <3>3, <3>4
  <2>4. CASE \E m \in retired[p] : DiscardLog(p, m)
    BY Zenon, <2>4, SameTables DEF DiscardLog
  <2> QED
    BY Zenon, <2>1, <2>2, <2>3, <2>4 DEF PartStep
<1>4. Fades
  <2>1. SUFFICES ASSUME NEW v \in Writes, pc[v] = "acked" PROVE Stays(v) /\ Sinks(v, part[v])
    BY Zenon DEF Fades
  <2>2. part[v] \in Parts
    BY Zenon, <2>1 DEF LogInv, LogOf
  <2> QED
    BY Zenon, <1>1, <1>2, <1>3, <2>1, <2>2, StaysSame
<1>5. Raises
  BY <1>1 DEF Raises, TypeOK
<1>6. Acks
  BY Zenon, <1>1 DEF Acks
<1> QED
  BY Zenon, <1>1, <1>2, <1>4, <1>5, <1>6, DeadFrame


(* Truncation.                                                             *)
LEMMA TruncateSinks ==
  ASSUME TypeOK, NEW p \in Parts, TruncateStep(p), NEW w \in Writes, NEW q \in Parts
  PROVE  Sinks(w, q)
<1> USE DEF logVars, tableVars, markVars, runVars
<1>1. CASE SetLowMark(p) \/ DeleteSSTables(p) \/ SaveRecord(p)
  BY Zenon, <1>1, SameTables DEF SetLowMark, DeleteSSTables, SaveRecord
<1>2. CASE FlushToTruncate(p)
  <2>1. UNCHANGED sstables
    BY Zenon, <1>2 DEF FlushToTruncate
  <2>2. CASE q # p
    BY Zenon, <1>2, <2>1, <2>2 DEF FlushToTruncate, Sinks, TypeOK
  <2>3. CASE q = p
    <3>1. active'[p] = Empty /\ sealed'[p] = SealedAfter(p)
      BY Zenon, <1>2 DEF FlushToTruncate, TypeOK
    <3> QED
      BY ZenonT(60), <2>1, <2>3, <3>1, SealedFacts, EmptyType DEF Sinks
  <2> QED
    BY Zenon, <2>2, <2>3
<1>3. CASE DiscardSSTables(p)
  <2>1. sstables'[q] \subseteq sstables[q] /\ UNCHANGED <<active, sealed>>
    <3>1. PICK remove : sstables' = [sstables EXCEPT ![p] = @ \ remove]
      BY Zenon, <1>3 DEF DiscardSSTables
    <3>2. sstables'[q] \subseteq sstables[q]
      BY Zenon, <3>1 DEF TypeOK
    <3> QED
      BY Zenon, <1>3, <3>2 DEF DiscardSSTables
  <2> QED
    BY Zenon, <2>1 DEF Sinks
<1> QED
  BY Zenon, <1>1, <1>2, <1>3 DEF TruncateStep

(* The position is saved in the row of the part, as there is one shard. *)
LEMMA OneRecord ==
  ASSUME Shards = {0}, NEW p \in Parts, NEW position
  PROVE  RecordKey(p, position) = p
<1>1. PICK t \in Tables : p = <<t, 0>>
  BY DEF Parts
<1> QED
  BY <1>1 DEF RecordKey

LEMMA SavedRecord ==
  ASSUME Shards = {0}, TypeOK, NEW p \in Parts, SaveRecord(p)
  PROVE  /\ \A q \in Parts \ {p} : record'[q] = record[q]
         /\ record'[p] = Larger(trunc[p].low, trunc[p].found)
         /\ trunc[p].low <= record'[p]
<1>1. record' = [record EXCEPT ![p] = Larger(trunc[p].low, trunc[p].found)]
  BY Zenon, OneRecord DEF SaveRecord
<1>2. trunc[p].low \in Nat /\ trunc[p].found \in Nat
  BY DEF TypeOK, Trunc
<1>3. trunc[p].low <= Larger(trunc[p].low, trunc[p].found)
  BY Zenon, <1>2, LargerType
<1> QED
  BY Zenon, <1>1, <1>3 DEF TypeOK

(* What each step of a truncation makes of its locals. *)
LEMMA TruncateMoves ==
  ASSUME TypeOK, NEW p \in Parts
  PROVE  /\ SetLowMark(p) => /\ trunc[p].pc = "requested" /\ trunc'[p].pc = "marked"
                             /\ trunc'[p].low = highest[p] /\ trunc'[p].remove = trunc[p].remove
         /\ FlushToTruncate(p) =>
              /\ \/ trunc[p].pc = "marked" /\ trunc'[p].pc = "flushing"
                 \/ trunc[p].pc = "timed" /\ trunc'[p].pc = "snapshotting"
              /\ trunc'[p].low = trunc[p].low /\ trunc'[p].before = trunc[p].before
              /\ trunc'[p].wait = SealedAfter(p) \cup retired[p] /\ trunc'[p].remove = trunc[p].remove
         /\ DiscardSSTables(p) =>
              /\ trunc[p].pc = "snapshotting" /\ trunc'[p].pc = "discarded"
              /\ trunc'[p].low = trunc[p].low
              /\ trunc'[p].remove \subseteq sstables[p]
              /\ trunc[p].before \cap sstables[p] \subseteq trunc'[p].remove
              /\ sstables'[p] = sstables[p] \ trunc'[p].remove
         /\ DeleteSSTables(p) =>
              /\ trunc[p].pc = "discarded" /\ trunc'[p].pc = "deleted"
              /\ trunc'[p].low = trunc[p].low /\ trunc'[p].remove = {}
         /\ SaveRecord(p) =>
              trunc[p].pc = "deleted" /\ trunc'[p].pc = "saved" /\ trunc'[p].remove = {}
<1>0. trunc \in [Parts -> Trunc] /\ trunc[p] \in Trunc /\ sstables \in [Parts -> SUBSET Memtable]
  BY Zenon DEF TypeOK
<1>1. ASSUME SetLowMark(p)
      PROVE  /\ trunc[p].pc = "requested" /\ trunc'[p].pc = "marked"
             /\ trunc'[p].low = highest[p] /\ trunc'[p].remove = trunc[p].remove
  BY <1>0, <1>1 DEF SetLowMark, Trunc
<1>2. ASSUME FlushToTruncate(p)
      PROVE  /\ \/ trunc[p].pc = "marked" /\ trunc'[p].pc = "flushing"
                \/ trunc[p].pc = "timed" /\ trunc'[p].pc = "snapshotting"
             /\ trunc'[p].low = trunc[p].low /\ trunc'[p].before = trunc[p].before
             /\ trunc'[p].wait = SealedAfter(p) \cup retired[p] /\ trunc'[p].remove = trunc[p].remove
  BY <1>0, <1>2 DEF FlushToTruncate, Trunc
<1>3. ASSUME DiscardSSTables(p)
      PROVE  /\ trunc[p].pc = "snapshotting" /\ trunc'[p].pc = "discarded"
             /\ trunc'[p].low = trunc[p].low
             /\ trunc'[p].remove \subseteq sstables[p]
             /\ trunc[p].before \cap sstables[p] \subseteq trunc'[p].remove
             /\ sstables'[p] = sstables[p] \ trunc'[p].remove
  <2>1. PICK remove, found :
          /\ remove \subseteq sstables[p]
          /\ trunc[p].before \cap sstables[p] \subseteq remove
          /\ sstables' = [sstables EXCEPT ![p] = @ \ remove]
          /\ trunc' = [trunc EXCEPT ![p].pc = "discarded", ![p].remove = remove,
                                    ![p].wait = {}, ![p].before = {}, ![p].found = found]
    BY Zenon, <1>3 DEF DiscardSSTables
  <2>2. /\ trunc'[p].pc = "discarded" /\ trunc'[p].low = trunc[p].low /\ trunc'[p].remove = remove
    BY <1>0, <2>1 DEF Trunc
  <2>3. sstables'[p] = sstables[p] \ remove
    BY Zenon, <1>0, <2>1
  <2>4. trunc[p].pc = "snapshotting"
    BY Zenon, <1>3 DEF DiscardSSTables
  <2> QED
    BY Zenon, <2>1, <2>2, <2>3, <2>4
<1>4. ASSUME DeleteSSTables(p)
      PROVE  /\ trunc[p].pc = "discarded" /\ trunc'[p].pc = "deleted"
             /\ trunc'[p].low = trunc[p].low /\ trunc'[p].remove = {}
  BY <1>0, <1>4 DEF DeleteSSTables, Trunc
<1>5. ASSUME SaveRecord(p)
      PROVE  trunc[p].pc = "deleted" /\ trunc'[p].pc = "saved" /\ trunc'[p].remove = {}
  BY <1>0, <1>5 DEF SaveRecord, Idle
<1> QED
  BY Zenon, <1>1, <1>2, <1>3, <1>4, <1>5


LEMMA DeadTruncate ==
  ASSUME Shards = {0}, TypeOK, TypeOK', LogInv, DeadInv, NEW p \in Parts, TruncateStep(p)
  PROVE  DeadInv'
<1> USE DEF logVars, tableVars, markVars, runVars
<1>1. UNCHANGED <<part, rp, seg, pc, st, highest, dead, doomed, retired>>
  BY Zenon DEF TruncateStep, SetLowMark, FlushToTruncate, DiscardSSTables, DeleteSSTables, SaveRecord
<1>2. \A w : HasEntry(w)' <=> HasEntry(w)
  BY Zenon, <1>1 DEF HasEntry, HasFile
<1>3. ASSUME NEW q \in Parts \ {p} PROVE trunc'[q] = trunc[q] /\ record'[q] = record[q]
  <2>1. record'[q] = record[q]
    BY Zenon, SavedRecord
       DEF TruncateStep, SetLowMark, FlushToTruncate, DiscardSSTables, DeleteSSTables
  <2> QED
    BY Zenon, <2>1, TruncateFacts
<1>4. ASSUME NEW w \in Writes, pc[w] = "acked" PROVE Stays(w)
  BY Zenon, <1>1, <1>2, <1>4 DEF Stays
<1>5. PICK t \in Tables : p = <<t, 0>>
  BY DEF Parts
<1>6. Truncating(t) /\ p[1] = t
  <2>1. Truncating(t)
    BY Zenon, <1>5, TruncateFacts DEF Truncating
  <2> QED
    BY <1>5, <2>1
<1>7. ASSUME NEW w \in doomed[t], part[w] = p PROVE Swept(w, p)'
  <2>1. w \in Writes /\ Swept(w, p) /\ pc[w] = "acked"
    BY Zenon, <1>7 DEF DeadInv, TypeOK
  <2>2. (InMemory(w)' => InMemory(w)) /\ (InTable(w, p)' => InTable(w, p))
    BY Zenon, <1>1, <1>7, <2>1, TruncateSinks, SinksTable
  <2>3. CASE SetLowMark(p)
    <3>1. trunc'[p].pc = "marked" /\ trunc'[p].low = highest[p]
      BY Zenon, <2>3, TruncateMoves
    <3>2. HasEntry(w) => rp[w] <= highest[p]
      <4>1. HasEntry(w) => seg[w] \in Segments
        BY Zenon, <2>1 DEF HasEntry, TypeOK
      <4> QED
        BY Zenon, <1>6, <1>7, <2>1, <4>1 DEF DeadInv, Applied
    <3> QED
      BY Zenon, <1>1, <1>2, <3>1, <3>2 DEF Swept, After
  <2>4. CASE FlushToTruncate(p)
    <3>1. /\ \/ trunc[p].pc = "marked" /\ trunc'[p].pc = "flushing"
             \/ trunc[p].pc = "timed" /\ trunc'[p].pc = "snapshotting"
          /\ trunc'[p].low = trunc[p].low /\ trunc'[p].before = trunc[p].before
          /\ trunc'[p].wait = SealedAfter(p) \cup retired[p]
      BY Zenon, <2>4, TruncateMoves
    <3>2. active'[p] = Empty /\ sealed'[p] = SealedAfter(p) /\ UNCHANGED sstables
      BY Zenon, <2>4 DEF FlushToTruncate, TypeOK
    <3>3. w \notin active'[p].data /\ \A m \in sealed'[p] : w \in m.data => m \in trunc'[p].wait
      BY Zenon, <3>1, <3>2, EmptyType
    <3>4. HasEntry(w) => rp[w] <= trunc[p].low
      BY Zenon, <2>1, <3>1 DEF Swept, After
    <3>5. CASE trunc[p].pc = "marked"
      BY Zenon, <1>1, <1>2, <3>1, <3>3, <3>4, <3>5 DEF Swept, After
    <3>6. CASE trunc[p].pc = "timed"
      <4>1. ~InMemory(w) /\ \A m \in sstables[p] : w \in m.data => m \in trunc[p].before
        BY Zenon, <2>1, <3>6 DEF Swept, After
      <4> QED
        BY Zenon, <1>1, <1>2, <2>2, <3>1, <3>2, <3>4, <3>6, <4>1 DEF Swept, After
    <3> QED
      BY Zenon, <3>1, <3>5, <3>6
  <2>5. CASE DiscardSSTables(p)
    <3>1. /\ trunc[p].pc = "snapshotting" /\ trunc'[p].pc = "discarded" /\ trunc'[p].low = trunc[p].low
          /\ trunc[p].before \cap sstables[p] \subseteq trunc'[p].remove
          /\ sstables'[p] = sstables[p] \ trunc'[p].remove
      BY Zenon, <2>5, TruncateMoves
    <3>2. /\ HasEntry(w) => rp[w] <= trunc[p].low
          /\ ~InMemory(w) /\ \A m \in sstables[p] : w \in m.data => m \in trunc[p].before
      BY Zenon, <2>1, <3>1 DEF Swept, After
    <3>3. ~InAny(w, sstables'[p])
      BY Zenon, <3>1, <3>2 DEF InAny
    <3>4. ~InTable(w, p)'
      BY Zenon, <1>1, <1>7, <2>2, <3>2, <3>3 DEF InTable, InMemory, InAny
    <3> QED
      BY Zenon, <1>1, <1>2, <3>1, <3>2, <3>4 DEF Swept, After
  <2>6. CASE DeleteSSTables(p)
    <3>1. /\ trunc[p].pc = "discarded" /\ trunc'[p].pc = "deleted"
          /\ trunc'[p].low = trunc[p].low /\ trunc'[p].remove = {}
      BY Zenon, <2>6, TruncateMoves
    <3>2. (HasEntry(w) => rp[w] <= trunc[p].low) /\ ~InTable(w, p)
      BY Zenon, <2>1, <3>1 DEF Swept, After
    <3> QED
      BY ZenonT(60), <1>1, <1>2, <2>2, <3>1, <3>2 DEF Swept, After, InAny
  <2>7. CASE SaveRecord(p)
    <3>1. trunc[p].pc = "deleted" /\ trunc'[p].pc = "saved" /\ trunc'[p].remove = {}
      BY Zenon, <2>7, TruncateMoves
    <3>2. (HasEntry(w) => rp[w] <= trunc[p].low) /\ ~InTable(w, p)
      BY Zenon, <2>1, <3>1 DEF Swept, After
    <3>3. HasEntry(w) => rp[w] <= record'[p]
      <4>1. trunc[p].low <= record'[p]
        BY ZenonT(60), <2>7, SavedRecord
      <4>2. trunc[p].low \in Nat /\ record'[p] \in Nat /\ rp[w] \in Nat
        BY <2>1 DEF TypeOK, Trunc
      <4> QED
        BY <3>2, <4>1, <4>2
    <3> QED
      BY Zenon, <1>1, <1>2, <2>2, <3>1, <3>2, <3>3 DEF Swept, After, InAny
  <2> QED
    BY Zenon, <2>3, <2>4, <2>5, <2>6, <2>7 DEF TruncateStep
<1>8. ASSUME NEW w \in dead, part[w] = p PROVE Buried(w)'
  <2>1. w \in Writes /\ Buried(w) /\ pc[w] = "acked"
    BY Zenon DEF DeadInv, TypeOK, Buried
  <2>2. InTable(w, p)' => InTable(w, p)
    BY Zenon, <1>1, <1>8, <2>1, TruncateSinks, SinksTable
  <2>3. ~InTable(w, p) /\ ~InAny(w, trunc[p].remove) /\ (HasEntry(w) => rp[w] <= record[p])
    BY Zenon, <1>8, <2>1 DEF Buried
  <2>4. ~InAny(w, trunc'[p].remove)
    <3>1. trunc'[p].remove \subseteq trunc[p].remove \cup sstables[p]
      BY Zenon, TruncateFacts
    <3> QED
      BY Zenon, <2>3, <3>1 DEF InTable, InAny
  <2>5. HasEntry(w) => rp[w] <= record'[p]
    <3>1. CASE SaveRecord(p)
      <4>1. w \in WritesOf(t)
        BY <1>5, <1>8, <2>1 DEF WritesOf
      <4>2. w \in doomed[t]
        BY Zenon, <1>6, <4>1 DEF DeadInv
      <4>3. Swept(w, p)'
        BY Zenon, <1>7, <1>8, <4>2
      <4>4. After(p, {"saved"})'
        BY Zenon, <3>1, TruncateMoves DEF After
      <4> QED
        BY Zenon, <1>1, <1>2, <4>3, <4>4 DEF Swept
    <3>2. CASE ~SaveRecord(p)
      BY Zenon, <2>3, <3>2
         DEF TruncateStep, SetLowMark, FlushToTruncate, DiscardSSTables, DeleteSSTables
    <3> QED
      BY Zenon, <3>1, <3>2
  <2>6. part'[w] = p /\ pc'[w] = "acked" /\ rp'[w] = rp[w]
    BY Zenon, <1>1, <1>8, <2>1
  <2>7. ~InTable(w, part[w])'
    BY Zenon, <2>2, <2>3, <2>6 DEF InTable, InAny
  <2> QED
    BY ZenonT(60), <1>2, <2>4, <2>5, <2>6, <2>7 DEF Buried
<1>9. ASSUME NEW w \in dead PROVE Buried(w)'
  <2>1. w \in Writes /\ Buried(w) /\ pc[w] = "acked" /\ part[w] \in Parts
    BY ZenonT(60), DeadTyped DEF DeadInv, TypeOK
  <2>2. CASE part[w] = p
    BY Zenon, <1>8, <2>2
  <2>3. CASE part[w] # p
    <3>1. PICK q \in Parts \ {p} : q = part[w]
      BY Zenon, <2>1, <2>3
    <3> QED
      BY Zenon, <1>3, <1>4, <2>1, <3>1, TruncateSinks, Fade
  <2> QED
    BY Zenon, <2>2, <2>3
<1>10. ASSUME NEW u \in Tables, NEW w \in doomed[u]
       PROVE  pc[w] = "acked" /\ part[w][1] = u /\ Swept(w, part[w])'
  <2>1. w \in Writes /\ Swept(w, part[w]) /\ pc[w] = "acked" /\ part[w] \in Parts /\ part[w][1] = u
    BY Zenon, DeadTyped DEF DeadInv, TypeOK
  <2>2. PICK q \in Parts : q = part[w]
    BY Zenon, <2>1
  <2>3. CASE q = p
    <3>1. u = t
      BY Zenon, <1>6, <2>1, <2>2, <2>3
    <3>2. Swept(w, p)'
      BY Zenon, <1>7, <2>2, <2>3, <3>1
    <3> QED
      BY Zenon, <1>1, <2>1, <2>2, <2>3, <3>2
  <2>4. CASE q # p
    <3>1. Swept(w, q)'
      BY Zenon, <1>3, <1>4, <2>1, <2>2, <2>4, TruncateSinks, Fade
    <3> QED
      BY Zenon, <1>1, <2>1, <2>2, <3>1
  <2> QED
    BY Zenon, <2>3, <2>4
<1>11. ASSUME NEW u \in Tables, Truncating(u)'
       PROVE  (\A s \in Segments : st[s] # "old") /\ dead \cap WritesOf(u) \subseteq doomed[u]
  <2>1. Truncating(u)
    BY Zenon, <1>11, TruncatingSame, TruncateFacts
  <2> QED
    BY Zenon, <2>1 DEF DeadInv
<1>12. \A w \in Writes : Applied(w)'
  BY Zenon, <1>1, <1>2 DEF DeadInv, Applied
<1>13. \A u \in Tables : WritesOf(u)' = WritesOf(u)
  BY Zenon, <1>1 DEF WritesOf
<1> QED
  BY Zenon, <1>1, <1>9, <1>10, <1>11, <1>12, <1>13 DEF DeadInv


LEMMA DeadTable ==
  ASSUME PromptCleanup = TRUE, TypeOK, LogInv, DeadInv, NEW t \in Tables, TableStep(t)
  PROVE  DeadInv'
<1> USE DEF logVars, tableVars, markVars, runVars
<1>1. UNCHANGED <<part, rp, seg, pc, st, active, sealed, sstables, highest, record>>
  BY Zenon DEF TableStep, RequestTruncate, TakeTime, Truncated
<1>2. \A w : (HasEntry(w)' <=> HasEntry(w)) /\ (InMemory(w)' <=> InMemory(w))
  BY Zenon, <1>1 DEF HasEntry, HasFile, InMemory, InAny
<1>3. \A w, q : InTable(w, q)' <=> InTable(w, q)
  BY Zenon, <1>1 DEF InTable, InAny
<1>4. \A w \in Writes : Applied(w)'
  BY Zenon, <1>1, <1>2 DEF DeadInv, Applied
<1>5. \A u \in Tables : WritesOf(u)' = WritesOf(u)
  BY Zenon, <1>1 DEF WritesOf
<1>6. ASSUME NEW w \in Writes, part[w] \in Parts, Buried(w) PROVE Buried(w)'
  <2>1. PICK q \in Parts : q = part[w]
    BY Zenon, <1>6
  <2>2. trunc'[q].remove \in {trunc[q].remove, {}}
    BY Zenon, TableFacts
  <2>3. ~InAny(w, trunc'[q].remove)
    BY Zenon, <1>6, <2>1, <2>2 DEF Buried, InAny
  <2> QED
    BY Zenon, <1>1, <1>2, <1>3, <1>6, <2>1, <2>3 DEF Buried, InAny, InTable
<1>7. ASSUME NEW u \in Tables \ {t}, NEW w \in doomed[u]
      PROVE  pc[w] = "acked" /\ part[w][1] = u /\ Swept(w, part[w])'
  <2>1. w \in Writes /\ Swept(w, part[w]) /\ pc[w] = "acked" /\ part[w] \in Parts /\ part[w][1] = u
    BY Zenon, DeadTyped DEF DeadInv, TypeOK
  <2>2. PICK q \in Parts : q = part[w]
    BY Zenon, <2>1
  <2>3. trunc'[q] = trunc[q]
    BY ZenonT(60), <2>1, <2>2, TableFacts
  <2>4. Sinks(w, q) /\ Stays(w)
    BY Zenon, <1>1, <1>2, <2>1, SameTables DEF Stays
  <2>5. Swept(w, q)'
    BY Zenon, <1>1, <2>1, <2>2, <2>3, <2>4, Fade
  <2> QED
    BY Zenon, <1>1, <2>1, <2>2, <2>5
<1>8. ASSUME NEW w \in doomed[t]
      PROVE  w \in Writes /\ Swept(w, part[w]) /\ pc[w] = "acked" /\ part[w] \in Parts /\ part[w][1] = t
  BY Zenon, DeadTyped DEF DeadInv, TypeOK
<1>9. CASE RequestTruncate(t)
  <2>1. /\ dead' = dead /\ \A u \in Tables \ {t} : doomed'[u] = doomed[u]
        /\ doomed'[t] = {w \in WritesOf(t) : pc[w] = "acked"}
        /\ \A s \in Segments : st[s] # "old"
    BY Zenon, <1>9 DEF RequestTruncate, TypeOK
  <2>2. ASSUME NEW w \in doomed'[t] PROVE pc[w] = "acked" /\ part[w][1] = t /\ Swept(w, part[w])'
    <3>1. pc[w] = "acked" /\ w \in Writes /\ part[w] \in {t} \X Shards
      BY Zenon, <2>1 DEF WritesOf
    <3>2. PICK q \in Parts : q = part[w] /\ q[1] = t
      BY <3>1 DEF Parts
    <3>3. trunc'[q].pc = "requested"
      <4>1. trunc'[q] = [Idle EXCEPT !.pc = "requested"]
        BY Zenon, <1>9, <3>2, TableFacts
      <4> QED
        BY <4>1 DEF Idle
    <3>4. Swept(w, q)'
      BY Zenon, <3>3 DEF Swept, After
    <3> QED
      BY Zenon, <1>1, <3>1, <3>2, <3>4
  <2>3. ASSUME NEW u \in Tables, Truncating(u)' PROVE dead \cap WritesOf(u) \subseteq doomed'[u]
    <3>1. CASE u = t
      <4>1. \A w \in dead : pc[w] = "acked"
        BY Zenon DEF DeadInv, Buried
      <4> QED
        BY Zenon, <2>1, <3>1, <4>1
    <3>2. CASE u # t
      <4>1. Truncating(u)
        BY ZenonT(60), <2>3, <3>2, TableTruncating
      <4> QED
        BY Zenon, <2>1, <3>2, <4>1 DEF DeadInv
    <3> QED
      BY Zenon, <3>1, <3>2
  <2>4. \A w \in dead : Buried(w)'
    BY ZenonT(60), <1>6, DeadTyped DEF DeadInv, TypeOK
  <2>5. ASSUME NEW u \in Tables, NEW w \in doomed'[u]
        PROVE  pc[w] = "acked" /\ part[w][1] = u /\ Swept(w, part[w])'
    BY Zenon, <1>7, <2>1, <2>2
  <2> QED
    BY ZenonT(60), <1>1, <1>4, <1>5, <2>1, <2>3, <2>4, <2>5 DEF DeadInv
<1>10. CASE TakeTime(t)
  <2>1. UNCHANGED <<dead, doomed>>
    BY Zenon, <1>10 DEF TakeTime
  <2>2. ASSUME NEW w \in doomed[t] PROVE pc[w] = "acked" /\ part[w][1] = t /\ Swept(w, part[w])'
    <3>1. PICK q \in Parts : q = part[w] /\ q[1] = t
      BY Zenon, <1>8
    <3>2. trunc[q].pc = "flushing" /\ Flushed(q)
      <4>1. PICK x \in Shards : q = <<t, x>>
        BY <3>1 DEF Parts
      <4> QED
        BY Zenon, <1>10, <4>1 DEF TakeTime
    <3>3. trunc'[q].pc = "timed" /\ trunc'[q].before = sstables[q] /\ trunc'[q].low = trunc[q].low
      <4>1. trunc'[q] = [trunc[q] EXCEPT !.pc = "timed", !.wait = {}, !.before = sstables[q]]
        BY Zenon, <1>10, <3>1, TableFacts
      <4>2. trunc[q] \in Trunc
        BY Zenon DEF TypeOK
      <4> QED
        BY <4>1, <4>2 DEF Trunc
    <3>4. /\ HasEntry(w) => rp[w] <= trunc[q].low
          /\ w \notin active[q].data /\ \A m \in sealed[q] : w \in m.data => m \in trunc[q].wait
      BY Zenon, <1>8, <3>1, <3>2 DEF Swept, After
    <3>5. ~InMemory(w)
      BY Zenon, <3>1, <3>2, <3>4 DEF InMemory, InAny, Flushed
    <3>6. Swept(w, q)'
      BY Zenon, <1>1, <1>2, <3>3, <3>4, <3>5 DEF Swept, After
    <3> QED
      BY Zenon, <1>1, <1>8, <3>1, <3>6
  <2>3. ASSUME NEW u \in Tables, Truncating(u)'
        PROVE  (\A s \in Segments : st[s] # "old") /\ dead \cap WritesOf(u) \subseteq doomed[u]
    <3>1. Truncating(u)
      <4>1. ~RequestTruncate(t)
        <5>1. 0 \in Shards /\ trunc[<<t, 0>>].pc = "flushing"
          BY ZenonT(60), <1>10, StorageAssumption DEF TakeTime
        <5> QED
          BY Zenon, <5>1 DEF RequestTruncate, Truncating
      <4> QED
        BY Zenon, <2>3, <4>1, TableTruncating
    <3> QED
      BY Zenon, <3>1 DEF DeadInv
  <2>4. \A w \in dead : Buried(w)'
    BY Zenon, <1>6, DeadTyped DEF DeadInv, TypeOK
  <2>5. ASSUME NEW u \in Tables, NEW w \in doomed[u]
        PROVE  pc[w] = "acked" /\ part[w][1] = u /\ Swept(w, part[w])'
    BY Zenon, <1>7, <2>2
  <2> QED
    BY Zenon, <1>1, <1>4, <1>5, <2>1, <2>3, <2>4, <2>5 DEF DeadInv
<1>11. CASE Truncated(t)
  <2>1. /\ dead' = dead \cup doomed[t] /\ doomed'[t] = {}
        /\ \A u \in Tables \ {t} : doomed'[u] = doomed[u]
    BY Zenon, <1>11 DEF Truncated, TypeOK
  <2>2. ASSUME NEW w \in doomed[t] PROVE Buried(w)
    <3>1. PICK q \in Parts : q = part[w] /\ q[1] = t
      BY Zenon, <1>8
    <3>2. trunc[q].pc = "saved"
      <4>1. PICK x \in Shards : q = <<t, x>>
        BY <3>1 DEF Parts
      <4> QED
        BY Zenon, <1>11, <4>1 DEF Truncated
    <3> QED
      BY ZenonT(60), <1>8, <3>1, <3>2 DEF Swept, After, Buried
  <2>3. ASSUME NEW w \in dead' PROVE Buried(w)'
    <3>1. w \in Writes /\ part[w] \in Parts /\ Buried(w)
      BY ZenonT(60), <1>8, <2>1, <2>2, DeadTyped DEF DeadInv, TypeOK
    <3> QED
      BY Zenon, <1>6, <3>1
  <2>4. ASSUME NEW u \in Tables, Truncating(u)'
        PROVE  (\A s \in Segments : st[s] # "old") /\ dead' \cap WritesOf(u) \subseteq doomed'[u]
    <3>1. Truncating(u) /\ u # t
      <4>1. ~RequestTruncate(t)
        <5>1. 0 \in Shards /\ trunc[<<t, 0>>].pc = "saved"
          BY ZenonT(60), <1>11, StorageAssumption DEF Truncated
        <5> QED
          BY Zenon, <5>1 DEF RequestTruncate, Truncating
      <4> QED
        BY Zenon, <1>11, <2>4, <4>1, TableTruncating
    <3>2. ASSUME NEW w \in doomed[t], w \in WritesOf(u) PROVE FALSE
      <4>1. part[w] \in {u} \X Shards /\ part[w][1] = t
        BY Zenon, <1>8, <3>2 DEF WritesOf
      <4> QED
        BY <3>1, <4>1
    <3> QED
      BY Zenon, <2>1, <3>1, <3>2 DEF DeadInv
  <2>5. ASSUME NEW u \in Tables, NEW w \in doomed'[u]
        PROVE  pc[w] = "acked" /\ part[w][1] = u /\ Swept(w, part[w])'
    BY Zenon, <1>7, <2>1
  <2> QED
    BY ZenonT(60), <1>1, <1>4, <1>5, <2>3, <2>4, <2>5 DEF DeadInv
<1> QED
  BY Zenon, <1>9, <1>10, <1>11 DEF TableStep


(* Crash, replay and start.                                                *)
LEMMA DeadNode ==
  ASSUME TypeOK, TypeOK', LogInv, TableInv, DeadInv, Crash \/ Replay \/ Serve
  PROVE  DeadInv'
<1> USE DEF logVars, tableVars, markVars, runVars
<1>1. CASE Crash
  <2>1. /\ UNCHANGED <<part, rp, record, dead>>
        /\ \A w \in Writes : pc[w] # "logged" => pc'[w] = pc[w]
        /\ \A t \in Tables : doomed'[t] = {}
    BY Zenon, <1>1, CrashFacts DEF Crash
  <2>2. /\ \A s \in Segments : st'[s] = IF HasFile(s) THEN "old" ELSE st[s]
        /\ \A w \in Writes : seg'[w] \in {seg[w], NoSegment}
        /\ \A p \in Parts : /\ trunc'[p] = Idle /\ active'[p] = Empty /\ sealed'[p] = {}
                            /\ sstables'[p] \subseteq sstables[p] \cup trunc[p].remove
    BY Zenon, <1>1, CrashFacts
  <2>3. \A t \in Tables : ~Truncating(t)'
    BY Zenon, <2>2, IdleType DEF Truncating, Parts
  <2>4. ASSUME NEW w \in Writes, HasEntry(w)' PROVE HasEntry(w) /\ st'[seg'[w]] = "old"
    <3>1. seg'[w] = seg[w] /\ seg[w] # NoSegment /\ seg[w] \in Segments
      BY ZenonT(60), <2>2, <2>4 DEF HasEntry, TypeOK
    <3>2. st'[seg[w]] \in {"open", "closed", "condemned", "old"}
      BY Zenon, <2>4, <3>1 DEF HasEntry, HasFile
    <3> QED
      BY Zenon, <2>2, <3>1, <3>2 DEF HasEntry, HasFile
  <2>5. \A w \in Writes : Applied(w)'
    BY Zenon, <2>4 DEF Applied
  <2>6. ASSUME NEW w \in dead' PROVE Buried(w)'
    <3>1. w \in Writes /\ Buried(w) /\ pc[w] = "acked" /\ part[w] \in Parts
      BY Zenon, <2>1, DeadTyped DEF DeadInv, TypeOK
    <3>2. PICK p \in Parts : p = part[w]
      BY Zenon, <3>1
    <3>3. ~InAny(w, sstables[p]) /\ ~InAny(w, trunc[p].remove)
      BY Zenon, <3>1, <3>2 DEF Buried, InTable
    <3>4. ~InAny(w, sstables'[p])
      BY Zenon, <2>2, <3>3 DEF InAny
    <3>5. ~InTable(w, p)'
      BY Zenon, <2>2, <3>4, EmptyType DEF InTable, InAny
    <3>6. ~InAny(w, trunc'[p].remove)
      BY Zenon, <2>2, IdleType DEF InAny
    <3>7. pc'[w] = "acked" /\ part'[w] = p /\ (HasEntry(w)' => rp'[w] <= record'[p])
      BY Zenon, <2>1, <2>4, <3>1, <3>2 DEF Buried
    <3> QED
      BY Zenon, <3>5, <3>6, <3>7 DEF Buried, InTable, InAny
  <2> QED
    BY Zenon, <2>1, <2>3, <2>5, <2>6 DEF DeadInv
<1>2. CASE Replay
  <2>1. /\ UNCHANGED <<part, rp, seg, pc, st, sealed, sstables, highest, trunc, record, dead, doomed>>
        /\ \A p \in Parts : active'[p].data = {w \in Writes : part[w] = p /\ Replayed(w)}
        /\ phase = "down"
    BY Zenon, <1>2 DEF Replay
  <2>2. \A w : HasEntry(w)' <=> HasEntry(w)
    BY Zenon, <2>1 DEF HasEntry, HasFile
  <2>3. \A p \in Parts : trunc[p] = Idle
    BY Zenon, <2>1 DEF LogInv, BoundsOf
  <2>4. \A t \in Tables : ~Truncating(t)'
    BY Zenon, <2>1, <2>3, IdleType DEF Truncating, Parts
  <2>5. \A w \in Writes : Applied(w)'
    BY Zenon, <2>1, <2>2 DEF DeadInv, Applied
  <2>6. ASSUME NEW w \in dead' PROVE Buried(w)'
    <3>1. w \in Writes /\ Buried(w) /\ pc[w] = "acked" /\ part[w] \in Parts
      BY Zenon, <2>1, DeadTyped DEF DeadInv, TypeOK
    <3>2. PICK p \in Parts : p = part[w]
      BY Zenon, <3>1
    <3>3. ~Replayed(w)
      <4>1. HasEntry(w) => rp[w] <= record[p]
        BY Zenon, <3>1, <3>2 DEF Buried
      <4>2. Replayed(w) => HasEntry(w) /\ rp[w] > record[p]
        BY Zenon, <3>2 DEF Replayed, HasEntry, HasFile
      <4>3. rp[w] \in Nat /\ record[p] \in Nat
        BY Zenon, <3>1 DEF TypeOK
      <4> QED
        BY <4>1, <4>2, <4>3
    <3>4. ~InTable(w, p)'
      BY Zenon, <2>1, <3>1, <3>2, <3>3 DEF InTable, Buried, InAny
    <3> QED
      BY Zenon, <2>1, <2>2, <3>1, <3>2, <3>4 DEF Buried, InTable, InAny
  <2>7. ASSUME NEW t \in Tables, NEW w \in doomed'[t]
        PROVE  pc'[w] = "acked" /\ part'[w][1] = t /\ Swept(w, part[w])'
    <3>1. w \in Writes /\ pc[w] = "acked" /\ part[w] \in Parts /\ part[w][1] = t
      BY Zenon, <2>1, DeadTyped DEF DeadInv, TypeOK
    <3>2. trunc'[part'[w]].pc = "idle"
      BY Zenon, <2>1, <2>3, <3>1, IdleType
    <3> QED
      BY Zenon, <2>1, <3>1, <3>2 DEF Swept, After
  <2> QED
    BY Zenon, <2>4, <2>5, <2>6, <2>7 DEF DeadInv
<1>3. CASE Serve
  <2>1. /\ UNCHANGED <<part, rp, seg, pc, st, active, sealed, sstables, highest, trunc, record>>
        /\ UNCHANGED <<dead, doomed>>
    BY Zenon, <1>3 DEF Serve
  <2>2. Lasts /\ NoNewOld
    BY Zenon, <2>1 DEF Lasts, NoNewOld, HasFile
  <2>3. Fades
    BY Zenon, <2>1, <2>2, SameTables, StaysSame DEF Fades
  <2>4. Raises
    BY <2>1 DEF Raises, TypeOK
  <2>5. Acks
    BY Zenon, <2>1 DEF Acks
  <2> QED
    BY Zenon, <2>1, <2>2, <2>3, <2>4, <2>5, DeadFrame
<1> QED
  BY Zenon, <1>1, <1>2, <1>3

LEMMA DeadStep ==
  ASSUME Shards = {0}, PromptCleanup = TRUE, KeepInv, DeadInv, [Next]_vars
  PROVE  DeadInv'
<1>1. TypeOK /\ LogInv /\ TableInv /\ HandleInv /\ FirmInv
  BY Zenon DEF KeepInv
<1>2. TypeOK'
  BY Zenon, <1>1, TypeStep
<1>3. CASE UNCHANGED vars
  <2>1. /\ UNCHANGED <<part, rp, seg, pc, st, active, sealed, sstables, highest, trunc, record>>
        /\ UNCHANGED <<dead, doomed>>
    BY Zenon, <1>3 DEF vars, logVars, tableVars, markVars
  <2>2. Lasts /\ NoNewOld
    BY Zenon, <2>1 DEF Lasts, NoNewOld, HasFile
  <2>3. Fades
    BY Zenon, <1>1, <2>1, <2>2, SameTables, StaysSame DEF Fades
  <2>4. Raises
    BY SMTT(30), <1>1, <2>1 DEF Raises, TypeOK
  <2>5. Acks
    BY Zenon, <2>1 DEF Acks
  <2> QED
    BY Zenon, <1>1, <1>2, <2>1, <2>2, <2>3, <2>4, <2>5, DeadFrame
<1> QED
  BY ZenonT(60), <1>1, <1>2, <1>3, DeadWrite, DeadSegment, DeadPart, DeadTruncate, DeadTable, DeadNode DEF Next


(* The invariant behind Durable, with what truncations remove. *)
LEMMA StorageInvInit == Init => StorageInv
<1> SUFFICES ASSUME Init PROVE StorageInv
  OBVIOUS
<1>1. /\ \A w \in Writes : pc[w] = "idle"
      /\ \A p \in Parts : trunc[p] = Idle
      /\ dead = {} /\ \A t \in Tables : doomed[t] = {}
  BY Zenon DEF Init
<1>2. \A t \in Tables : ~Truncating(t)
  BY Zenon, <1>1, IdleType DEF Truncating, Parts
<1>3. \A w \in Writes : Applied(w)
  BY Zenon, <1>1 DEF Applied
<1>4. DeadInv
  BY Zenon, <1>1, <1>2, <1>3 DEF DeadInv
<1> QED
  BY Zenon, <1>4, KeepInit DEF StorageInv

(* On one shard, when truncations wait until replayed files are removed, the whole  *)
(* invariant holds: what a truncation removes has left memory and sstables before it *)
(* is done, and what is left of it in the log is below the saved position.           *)
THEOREM StorageInvariant ==
  ASSUME Shards = {0}, PromptCleanup = TRUE
  PROVE  Spec => []StorageInv
<1>1. StorageInv /\ [Next]_vars => StorageInv'
  BY Zenon, KeepStep, DeadStep DEF StorageInv
<1> QED
  BY <1>1, StorageInvInit, PTL DEF Spec

LEMMA ShownDead == StorageInv => TruncatedStaysGone
<1>1. ASSUME StorageInv, NEW w \in dead, w \in Shown PROVE FALSE
  <2>1. ~InTable(w, part[w])
    BY Zenon, <1>1 DEF StorageInv, DeadInv, Buried
  <2>2. PICK p \in Parts : InTable(w, p)
    BY Zenon, <1>1 DEF Shown
  <2>3. PICK m \in Holders(p) : w \in m.data
    BY Zenon, <2>2 DEF InTable, InAny, Holders, Unflushed
  <2>4. part[w] = p
    BY Zenon, <1>1, <2>3 DEF StorageInv, KeepInv, TableInv, Fits
  <2> QED
    BY Zenon, <2>1, <2>2, <2>4
<1> QED
  BY Zenon, <1>1 DEF TruncatedStaysGone

(* On one shard, and when no truncation is asked for while replayed files remain,  *)
(* what a completed truncation removed is never shown again, after any crash and    *)
(* replay.  The run with two shards shows that the first condition is needed.       *)
THEOREM StaysGone ==
  ASSUME Shards = {0}, PromptCleanup = TRUE
  PROVE  Spec => []TruncatedStaysGone
BY StorageInvariant, ShownDead, PTL

(* What is promised, before a step and after it. *)
LEMMA PromiseHolds ==
  /\ StorageInv => FirmVisible /\ TruncatedStaysGone
  /\ StorageInv' => FirmVisible' /\ TruncatedStaysGone'
<1>1. StorageInv => FirmVisible
  BY Zenon, KeptShown DEF StorageInv, FirmVisible
<1> QED
  BY <1>1, ShownDead, PTL

LEMMA ShownSame ==
  ASSUME UNCHANGED phase, \A w \in Writes : \A p \in Parts : InTable(w, p)' <=> InTable(w, p)
  PROVE  Shown' = Shown
BY Zenon DEF Shown

(* Sealing a memtable, compacting sstables and writing one move writes only. *)
LEMMA SealShows ==
  ASSUME TypeOK, NEW p \in Parts, NEW w \in Writes, NEW q \in Parts, UNCHANGED sstables,
         sealed' = [sealed EXCEPT ![p] = SealedAfter(p)], active' = [active EXCEPT ![p] = Empty]
  PROVE  InTable(w, q)' <=> InTable(w, q)
<1>1. CASE q # p
  <2>1. active'[q] = active[q] /\ sealed'[q] = sealed[q]
    BY Zenon, <1>1 DEF TypeOK
  <2> QED
    BY Zenon, <2>1 DEF InTable, InAny
<1>2. CASE q = p
  <2>1. active'[p] = Empty /\ sealed'[p] = SealedAfter(p)
    BY Zenon DEF TypeOK
  <2>2. InAny(w, SealedAfter(p)) <=> (w \in active[p].data \/ InAny(w, sealed[p]))
    <3>1. InAny(w, SealedAfter(p)) => (w \in active[p].data \/ InAny(w, sealed[p]))
      BY Zenon, SealedFacts DEF InAny
    <3>2. InAny(w, sealed[p]) => InAny(w, SealedAfter(p))
      BY Zenon, SealedFacts DEF InAny
    <3>3. w \in active[p].data => InAny(w, SealedAfter(p))
      <4>1. w \in active[p].data => active[p] \in SealedAfter(p)
        BY Zenon, SealedFacts
      <4> QED
        BY Zenon, <4>1 DEF InAny
    <3> QED
      BY Zenon, <3>1, <3>2, <3>3
  <2>3. InTable(w, p)' <=> (InAny(w, SealedAfter(p)) \/ InAny(w, sstables[p]))
    BY Zenon, <2>1, EmptyType DEF InTable, InAny
  <2> QED
    BY Zenon, <1>2, <2>2, <2>3 DEF InTable
<1> QED
  BY Zenon, <1>1, <1>2

LEMMA CompactShows ==
  ASSUME TypeOK, NEW p \in Parts, NEW w \in Writes, NEW q \in Parts, Compact(p)
  PROVE  InTable(w, q)' <=> InTable(w, q)
<1> USE DEF logVars, tableVars, markVars, runVars
<1>1. PICK a \in sstables[p], b \in sstables[p] :
        sstables' = [sstables EXCEPT ![p] = (@ \ {a, b}) \cup
                       {[data |-> a.data \cup b.data, held |-> {}, pos |-> Larger(a.pos, b.pos)]}]
  BY Zenon DEF Compact
<1>2. UNCHANGED <<active, sealed>>
  BY Zenon DEF Compact
<1>3. PICK n : n = [data |-> a.data \cup b.data, held |-> {}, pos |-> Larger(a.pos, b.pos)]
  BY ZenonT(60)
<1>4. n.data = a.data \cup b.data
  BY <1>3
<1>5. InAny(w, sstables'[q]) <=> InAny(w, sstables[q])
  <2>1. CASE q # p
    BY Zenon, <1>1, <2>1 DEF TypeOK
  <2>2. CASE q = p
    <3>1. sstables'[p] = (sstables[p] \ {a, b}) \cup {n}
      BY Zenon, <1>1, <1>3 DEF TypeOK
    <3>2. InAny(w, sstables'[p]) => InAny(w, sstables[p])
      BY Zenon, <1>4, <3>1 DEF InAny
    <3>3. InAny(w, sstables[p]) => InAny(w, sstables'[p])
      BY Zenon, <1>4, <3>1 DEF InAny
    <3> QED
      BY ZenonT(60), <2>2, <3>2, <3>3
  <2> QED
    BY Zenon, <2>1, <2>2
<1> QED
  BY Zenon, <1>2, <1>5 DEF InTable, InAny

LEMMA WriteShows ==
  ASSUME TypeOK, NEW p \in Parts, NEW m \in sealed[p], WriteSSTable(p, m), NEW w \in Writes, NEW q \in Parts
  PROVE  InTable(w, q)' <=> InTable(w, q)
<1> USE DEF logVars, tableVars, markVars, runVars
<1>1. /\ sealed' = [sealed EXCEPT ![p] = @ \ {m}]
      /\ sstables' = [sstables EXCEPT ![p] = @ \cup {[m EXCEPT !.held = {}]}]
      /\ UNCHANGED active
  BY Zenon DEF WriteSSTable
<1>2. PICK n : n = [m EXCEPT !.held = {}]
  BY Zenon
<1>3. n.data = m.data
  <2>1. m \in Memtable
    BY Zenon DEF TypeOK
  <2> QED
    BY SMTT(30), <1>2, <2>1 DEF Memtable
<1>4. CASE q # p
  <2>1. sealed'[q] = sealed[q] /\ sstables'[q] = sstables[q]
    BY ZenonT(60), <1>1, <1>4 DEF TypeOK
  <2> QED
    BY Zenon, <1>1, <2>1 DEF InTable, InAny
<1>5. CASE q = p
  <2>1. sealed'[p] = sealed[p] \ {m} /\ sstables'[p] = sstables[p] \cup {n}
    BY Zenon, <1>1, <1>2 DEF TypeOK
  <2>2. (InAny(w, sealed'[p]) \/ InAny(w, sstables'[p])) => (InAny(w, sealed[p]) \/ InAny(w, sstables[p]))
    BY Zenon, <1>3, <2>1 DEF InAny
  <2>3. (InAny(w, sealed[p]) \/ InAny(w, sstables[p])) => (InAny(w, sealed'[p]) \/ InAny(w, sstables'[p]))
    BY Zenon, <1>3, <2>1 DEF InAny
  <2> QED
    BY Zenon, <1>1, <1>5, <2>2, <2>3 DEF InTable, InAny
<1> QED
  BY Zenon, <1>4, <1>5


(* The storage of a node implements DurableStore.                          *)

(* What does not change what is shown hardens writes, or does nothing. *)
LEMMA Hardens ==
  ASSUME StorageInv', phase = "up", UNCHANGED <<phase, dead>>, Shown' = Shown, firm \subseteq firm'
  PROVE  Store!Next
<1>1. firm' \subseteq Shown
  BY Zenon, PromiseHolds DEF FirmVisible
<1>2. firm' = firm \cup firm'
  BY Zenon
<1>3. Store!Harden
  BY Zenon, <1>1, <1>2 DEF Store!Harden
<1> QED
  BY Zenon, <1>3 DEF Store!Next

LEMMA WriteRefines ==
  ASSUME StorageInv, StorageInv', NEW w \in Writes, WriteStep(w)
  PROVE  Store!Next
<1> USE DEF logVars, tableVars, markVars, runVars
<1>0. TypeOK /\ LogInv /\ DeadInv
  BY Zenon DEF StorageInv, KeepInv
<1>1. CASE Apply(w)
  <2>1. PICK p \in Parts : p = part[w]
    BY Zenon, <1>0, <1>1 DEF Apply, LogInv, LogOf
  <2>2. /\ active' = [active EXCEPT ![p] = [data |-> @.data \cup {w}, held |-> @.held \cup {w},
                                            pos |-> Larger(@.pos, rp[w])]]
        /\ phase = "up" /\ pc[w] = "logged" /\ UNCHANGED <<sealed, sstables, phase, dead>>
    BY ZenonT(60), <1>1, <2>1 DEF Apply
  <2>3. active'[p].data = active[p].data \cup {w} /\ \A q \in Parts \ {p} : active'[q] = active[q]
    <3>1. active \in [Parts -> Memtable]
      BY Zenon, <1>0 DEF TypeOK
    <3> QED
      BY SMTT(30), <2>2, <3>1
  <2>4. InTable(w, p)' /\ \A v \in Writes \ {w} : \A q \in Parts : InTable(v, q)' <=> InTable(v, q)
    BY Zenon, <2>2, <2>3 DEF InTable, InAny
  <2>5. Shown' = Shown \cup {w}
    BY Zenon, <2>2, <2>4 DEF Shown
  <2>6. w \notin dead
    BY Zenon, <1>0, <2>2 DEF DeadInv, Buried
  <2>7. firm' \in {firm, firm \cup {w}}
    BY Zenon, <1>1 DEF Apply
  <2>8. Store!Write(w)
    BY Zenon, <2>2, <2>5, <2>6, <2>7 DEF Store!Write
  <2> QED
    BY Zenon, <2>8 DEF Store!Next
<1>2. CASE ~Apply(w)
  <2>1. UNCHANGED <<active, sealed, sstables, phase, dead, firm>> /\ phase = "up"
    BY ZenonT(60), <1>2 DEF WriteStep, Allocate, ApplyReordered, AbandonApply, AbandonSync
  <2>2. Shown' = Shown
    BY Zenon, <2>1, ShownSame DEF InTable, InAny
  <2> QED
    BY Zenon, <2>1, <2>2, Hardens
<1> QED
  BY Zenon, <1>1, <1>2

LEMMA SegmentRefines ==
  ASSUME StorageInv', NEW s \in Segments, SegmentStep(s)
  PROVE  Store!Next
<1> USE DEF logVars, tableVars, markVars, runVars
<1>1. UNCHANGED <<active, sealed, sstables, phase, dead>> /\ phase = "up" /\ firm \subseteq firm'
  BY Zenon DEF SegmentStep, Sync, CloseSegment, DeleteFile
<1>2. Shown' = Shown
  BY Zenon, <1>1, ShownSame DEF InTable, InAny
<1> QED
  BY Zenon, <1>1, <1>2, Hardens

LEMMA PartRefines ==
  ASSUME StorageInv, StorageInv', NEW p \in Parts, PartStep(p)
  PROVE  [Store!Next]_(Store!vars)
<1> USE DEF logVars, tableVars, markVars, runVars
<1>0. TypeOK
  BY Zenon DEF StorageInv, KeepInv
<1>1. UNCHANGED <<phase, dead>> /\ firm \subseteq firm' /\ (phase # "up" => firm' = firm)
  BY Zenon DEF PartStep, Seal, Compact, WriteSSTable, DiscardLog
<1>2. ASSUME NEW w \in Writes, NEW q \in Parts PROVE InTable(w, q)' <=> InTable(w, q)
  <2>1. CASE Seal(p)
    BY Zenon, <1>0, <2>1, SealShows DEF Seal
  <2>2. CASE Compact(p)
    BY Zenon, <1>0, <2>2, CompactShows
  <2>3. CASE \E m \in sealed[p] : WriteSSTable(p, m)
    BY Zenon, <1>0, <2>3, WriteShows
  <2>4. CASE \E m \in retired[p] : DiscardLog(p, m)
    BY Zenon, <2>4 DEF DiscardLog, InTable, InAny
  <2> QED
    BY Zenon, <2>1, <2>2, <2>3, <2>4 DEF PartStep
<1>3. Shown' = Shown
  BY Zenon, <1>1, <1>2, ShownSame
<1>4. CASE phase = "up"
  BY Zenon, <1>1, <1>3, <1>4, Hardens
<1>5. CASE phase # "up"
  BY Zenon, <1>1, <1>3, <1>5 DEF Store!vars
<1> QED
  BY Zenon, <1>4, <1>5


LEMMA TruncateRefines ==
  ASSUME StorageInv, StorageInv', NEW p \in Parts, TruncateStep(p)
  PROVE  Store!Next
<1> USE DEF logVars, tableVars, markVars, runVars
<1>0. TypeOK
  BY Zenon DEF StorageInv, KeepInv
<1>1. UNCHANGED <<phase, dead, firm>> /\ phase = "up"
  BY Zenon DEF TruncateStep, SetLowMark, FlushToTruncate, DiscardSSTables, DeleteSSTables, SaveRecord
<1>2. CASE DiscardSSTables(p)
  <2>1. \A q \in Parts : sstables'[q] \subseteq sstables[q]
    <3>1. PICK remove : sstables' = [sstables EXCEPT ![p] = @ \ remove]
      BY Zenon, <1>2 DEF DiscardSSTables
    <3> QED
      BY Zenon, <1>0, <3>1 DEF TypeOK
  <2>2. UNCHANGED <<active, sealed>>
    BY Zenon, <1>2 DEF DiscardSSTables
  <2>3. \A w \in Writes : \A q \in Parts : InTable(w, q)' => InTable(w, q)
    BY Zenon, <2>1, <2>2 DEF InTable, InAny
  <2>4. Shown' \subseteq Shown
    BY Zenon, <1>1, <2>3 DEF Shown
  <2>5. firm \subseteq Shown'
    BY Zenon, <1>1, PromiseHolds DEF FirmVisible
  <2>6. PICK ws : ws = Shown \ Shown'
    BY Zenon
  <2>7. ws \in SUBSET (Shown \ firm) /\ Shown' = Shown \ ws
    BY Zenon, <2>4, <2>5, <2>6
  <2>8. Store!Hide
    BY Zenon, <1>1, <2>7 DEF Store!Hide
  <2> QED
    BY Zenon, <2>8 DEF Store!Next
<1>3. CASE FlushToTruncate(p)
  <2>1. \A w \in Writes : \A q \in Parts : InTable(w, q)' <=> InTable(w, q)
    BY Zenon, <1>0, <1>3, SealShows DEF FlushToTruncate
  <2>2. Shown' = Shown
    BY Zenon, <1>1, <2>1, ShownSame
  <2> QED
    BY Zenon, <1>1, <2>2, Hardens
<1>4. CASE SetLowMark(p) \/ DeleteSSTables(p) \/ SaveRecord(p)
  <2>1. UNCHANGED <<active, sealed, sstables>>
    BY Zenon, <1>4 DEF SetLowMark, DeleteSSTables, SaveRecord
  <2>2. Shown' = Shown
    BY Zenon, <1>1, <2>1, ShownSame DEF InTable, InAny
  <2> QED
    BY Zenon, <1>1, <2>2, Hardens
<1> QED
  BY Zenon, <1>2, <1>3, <1>4 DEF TruncateStep

LEMMA TableRefines ==
  ASSUME StorageInv, StorageInv', NEW t \in Tables, TableStep(t)
  PROVE  Store!Next
<1> USE DEF logVars, tableVars, markVars, runVars
<1>1. UNCHANGED <<active, sealed, sstables, phase>> /\ phase = "up"
  BY Zenon DEF TableStep, RequestTruncate, TakeTime, Truncated
<1>2. Shown' = Shown
  BY Zenon, <1>1, ShownSame DEF InTable, InAny
<1>3. CASE RequestTruncate(t)
  <2>1. dead' = dead /\ firm' = firm \ (firm \cap WritesOf(t))
    BY Zenon, <1>3 DEF RequestTruncate
  <2>2. PICK ws : ws = firm \cap WritesOf(t)
    BY Zenon
  <2>3. ws \in SUBSET firm /\ firm' = firm \ ws
    BY Zenon, <2>1, <2>2
  <2>4. Store!Withdraw
    BY Zenon, <1>1, <1>2, <2>1, <2>3 DEF Store!Withdraw
  <2> QED
    BY Zenon, <2>4 DEF Store!Next
<1>4. CASE TakeTime(t)
  <2>1. UNCHANGED <<dead, firm>>
    BY Zenon, <1>4 DEF TakeTime
  <2> QED
    BY Zenon, <1>1, <1>2, <2>1, Hardens
<1>5. CASE Truncated(t)
  <2>1. dead' = dead \cup doomed[t] /\ firm' = firm
    BY Zenon, <1>5 DEF Truncated
  <2>2. doomed[t] \subseteq Writes
    BY Zenon DEF StorageInv, KeepInv, TypeOK
  <2>3. Shown \cap doomed[t] = {}
    BY Zenon, <1>2, <2>1, PromiseHolds DEF TruncatedStaysGone
  <2>4. firm \subseteq Shown
    BY Zenon, <1>1, PromiseHolds DEF FirmVisible
  <2>5. doomed[t] \in SUBSET (Writes \ (Shown \cup firm))
    BY Zenon, <2>2, <2>3, <2>4
  <2>6. Store!Bury
    BY Zenon, <1>1, <1>2, <2>1, <2>5 DEF Store!Bury
  <2> QED
    BY Zenon, <2>6 DEF Store!Next
<1> QED
  BY Zenon, <1>3, <1>4, <1>5 DEF TableStep

LEMMA NodeRefines ==
  ASSUME StorageInv, StorageInv', Crash \/ Replay \/ Serve
  PROVE  [Store!Next]_(Store!vars)
<1> USE DEF logVars, tableVars, markVars, runVars
<1>0. UNCHANGED <<firm, dead>>
  BY Zenon DEF Crash, Replay, Serve
<1>1. CASE Crash
  <2>1. phase' = "down"
    BY Zenon, <1>1 DEF Crash
  <2>2. Shown' = {}
    BY Zenon, <2>1 DEF Shown
  <2>3. CASE phase = "up"
    <3>1. (phase' = "up") = FALSE
      BY Zenon, <2>1
    <3>2. Store!Crash
      BY Zenon, <1>0, <2>2, <2>3, <3>1 DEF Store!Crash
    <3> QED
      BY Zenon, <3>2 DEF Store!Next
  <2>4. CASE phase # "up"
    <3>1. Shown = {}
      BY Zenon, <2>4 DEF Shown
    <3>2. (phase' = "up") = (phase = "up")
      BY Zenon, <2>1, <2>4
    <3> QED
      BY Zenon, <1>0, <2>2, <3>1, <3>2 DEF Store!vars
  <2> QED
    BY Zenon, <2>3, <2>4
<1>2. CASE Replay
  <2>1. phase = "down" /\ phase' = "replayed"
    BY Zenon, <1>2 DEF Replay
  <2>2. Shown = {} /\ Shown' = {}
    BY Zenon, <2>1 DEF Shown
  <2>3. (phase' = "up") = (phase = "up")
    BY Zenon, <2>1
  <2> QED
    BY Zenon, <1>0, <2>2, <2>3 DEF Store!vars
<1>3. CASE Serve
  <2>1. phase = "replayed" /\ phase' = "up"
    BY Zenon, <1>3 DEF Serve
  <2>2. Shown' \subseteq Writes \ dead /\ firm \subseteq Shown'
    <3>1. Shown' \cap dead = {} /\ firm \subseteq Shown'
      BY Zenon, <1>0, <2>1, PromiseHolds DEF TruncatedStaysGone, FirmVisible
    <3>2. Shown' \subseteq Writes
      BY Zenon DEF Shown
    <3> QED
      BY Zenon, <3>1, <3>2
  <2>3. (phase' = "up") = TRUE /\ ~(phase = "up")
    BY Zenon, <2>1
  <2>4. Store!Restart
    BY Zenon, <1>0, <2>2, <2>3 DEF Store!Restart
  <2> QED
    BY Zenon, <2>4 DEF Store!Next
<1> QED
  BY Zenon, <1>1, <1>2, <1>3

(* On one shard, and when no truncation is asked for while replayed files remain, *)
(* the commit log, the memtables, the sstables, truncation and replay together     *)
(* implement the abstract store: firm writes survive every crash, and dead ones     *)
(* never come back.                                                                 *)
THEOREM Refinement ==
  ASSUME Shards = {0}, PromptCleanup = TRUE
  PROVE  Spec => Durable
<1>1. Init => Store!Init
  <2>1. ASSUME Init PROVE Shown = {} /\ firm = {} /\ dead = {} /\ (phase = "up") = TRUE
    <3>1. \A w \in Writes : \A p \in Parts : ~InTable(w, p)
      BY Zenon, <2>1, EmptyType DEF Init, InTable, InAny
    <3> QED
      BY Zenon, <2>1, <3>1 DEF Init, Shown
  <2> QED
    BY Zenon, <2>1 DEF Store!Init
<1>2. StorageInv /\ StorageInv' /\ [Next]_vars => [Store!Next]_(Store!vars)
  <2> SUFFICES ASSUME StorageInv, StorageInv', [Next]_vars PROVE [Store!Next]_(Store!vars)
    OBVIOUS
  <2>1. CASE UNCHANGED vars
    <3>1. UNCHANGED <<active, sealed, sstables, phase, firm, dead>>
      BY Zenon, <2>1 DEF vars, tableVars, runVars
    <3>2. Shown' = Shown
      BY Zenon, <3>1, ShownSame DEF InTable, InAny
    <3> QED
      BY Zenon, <3>1, <3>2 DEF Store!vars
  <2> QED
    BY Zenon, <2>1, WriteRefines, SegmentRefines, PartRefines, TruncateRefines, TableRefines,
       NodeRefines DEF Next
<1> QED
  BY <1>1, <1>2, StorageInvariant, PTL DEF Spec, Durable, Store!Spec

=============================================================================
