----------------------------- MODULE HintsProofs -----------------------------
(***************************************************************************)
(* Hints are not forgotten, mappings are found and drains are complete,    *)
(* for any number of hints and faults.                                     *)
(***************************************************************************)
EXTENDS Hints, SequenceTheorems, WellFoundedInduction, TLAPS

----------------------------------------------------------------------------
(* Types, and what each step does to a file.                               *)

(* rps_set has a smallest position. *)
LEMMA MinExists ==
  ASSUME NEW S \in SUBSET Nat, S # {}
  PROVE  \E i \in S : \A j \in S : i <= j
<1> DEFINE R == {p \in Nat \X Nat : p[1] < p[2]}
<1>1. IsWellFoundedOn(R, Nat)
  BY Zenon, NatLessThanWellFounded DEF OpToRel
<1> HIDE DEF R
<1>2. PICK i \in S : \A j \in S : ~(<<j, i>> \in R)
  BY Zenon, <1>1, WFMin
<1>3. \A j \in S : ~(j < i)
  BY Zenon, <1>2 DEF R
<1> QED
  BY <1>3

(* Closing the open segment keeps the closed ones where they are. *)
LEMMA ClosedKeeps ==
  ASSUME TypeOK, NEW hints \in Seq(Hint), NEW torn \in BOOLEAN
  PROVE  /\ Closed(hints, torn) \in Seq(Segment)
         /\ Len(Closed(hints, torn)) >= Len(disk)
         /\ \A i \in 1 .. Len(disk) : Closed(hints, torn)[i] = disk[i]
<1>1. CASE hints = << >>
  BY <1>1 DEF Closed, TypeOK
<1>2. CASE hints # << >>
  <2> DEFINE s == [hints |-> hints, torn |-> torn]
  <2>1. s \in Segment
    BY Zenon, <1>2 DEF Segment
  <2>2. Closed(hints, torn) = Append(disk, s)
    BY Zenon, <1>2 DEF Closed
  <2> HIDE DEF s
  <2> QED
    BY <2>1, <2>2, AppendProperties DEF TypeOK
<1> QED
  BY Zenon, <1>1, <1>2

(* The first segment has hints, and a file is one of it. *)
LEMMA FirstSegment ==
  ASSUME TypeOK, disk # << >>
  PROVE  /\ 1 \in 1 .. Len(disk) /\ Len(disk) \in Nat /\ disk[1] \in Segment
         /\ disk[1].hints \in Seq(Hint) /\ Len(disk[1].hints) \in Nat \ {0}
         /\ disk[1].torn \in BOOLEAN
         /\ HintsIn(disk[1]) \subseteq Hint
<1>1. Len(disk) \in Nat /\ Len(disk) # 0
  BY Zenon, EmptySeq, LenProperties DEF TypeOK
<1>2. disk[1] \in Segment
  BY <1>1, ElementOfSeq DEF TypeOK
<1>3. disk[1].hints \in Seq(Hint) /\ disk[1].hints # << >> /\ disk[1].torn \in BOOLEAN
  BY Zenon, <1>2 DEF Segment
<1>4. Len(disk[1].hints) \in Nat \ {0}
  BY Zenon, <1>3, EmptySeq, LenProperties
<1>5. HintsIn(disk[1]) \subseteq Hint
  BY ZenonT(60), <1>3, ElementOfSeq, LenProperties DEF HintsIn
<1> QED
  BY <1>1, <1>2, <1>3, <1>4, <1>5

LEMMA FileHasSegment ==
  ASSUME TypeOK, file # NoFile
  PROVE  /\ disk # << >> /\ file \in File /\ todo \in Nat \ {0} /\ todo <= Len(disk)
         /\ file.rps \in SUBSET Nat
         /\ \A i \in 1 .. file.cursor - 1 : disk[1].hints[i] \in Hint
         /\ Reading => disk[1].hints[file.cursor] \in Hint
<1>1. /\ file \in File /\ todo \in Nat \ {0} /\ todo <= Len(disk)
      /\ file.cursor <= Len(disk[1].hints) + 1
  BY LenProperties DEF TypeOK
<1>2. disk # << >>
  BY <1>1, EmptySeq DEF TypeOK
<1>3. disk[1].hints \in Seq(Hint) /\ Len(disk[1].hints) \in Nat
  BY Zenon, <1>2, FirstSegment
<1> QED
  BY SMTT(30), <1>1, <1>2, <1>3, ElementOfSeq DEF File, Reading

(* Closing the open segment is type-correct, whatever becomes of the list of segments. *)
LEMMA ClosedType ==
  ASSUME TypeOK, NEW hints \in Seq(Hint), NEW torn \in BOOLEAN,
         disk' = Closed(hints, torn)
  PROVE  /\ disk' \in Seq(Segment) /\ Len(disk') \in Nat /\ Len(disk') >= Len(disk)
         /\ todo \in 0 .. Len(disk')
         /\ rp # Start => disk' # << >> /\ rp <= Len(disk'[1].hints)
         /\ file # NoFile => disk'[1] = disk[1]
         /\ \A i \in 1 .. Len(disk) : disk'[i] = disk[i]
<1>1. /\ disk' \in Seq(Segment) /\ Len(disk') >= Len(disk)
      /\ \A i \in 1 .. Len(disk) : disk'[i] = disk[i]
  BY Zenon, ClosedKeeps
<1>2. Len(disk') \in Nat /\ Len(disk) \in Nat
  BY Zenon, <1>1, LenProperties DEF TypeOK
<1>3. disk # << >> => disk' # << >> /\ disk'[1] = disk[1]
  BY <1>1, <1>2, FirstSegment, EmptySeq
<1>4. file # NoFile => disk # << >>
  BY Zenon, FileHasSegment
<1> QED
  BY SMTT(30), <1>1, <1>2, <1>3, <1>4 DEF TypeOK

(* What shutting the commit log down, or not, does to the closed segments. *)
Closes == \E hints \in Seq(Hint), torn \in BOOLEAN : disk' = Closed(hints, torn)

LEMMA SameCloses ==
  ASSUME disk' = disk
  PROVE  Closes
<1>1. << >> \in Seq(Hint) /\ FALSE \in BOOLEAN /\ disk' = Closed(<< >>, FALSE)
  BY Zenon, EmptySeq DEF Closed
<1> QED
  BY Zenon, <1>1 DEF Closes

LEMMA AbandonedCloses ==
  ASSUME TypeOK, Abandoned
  PROVE  Closes /\ (active = << >> => disk' = disk)
<1>1. PICK n \in 0 .. Len(active), torn \in BOOLEAN : disk' = Closed(SubSeq(active, 1, n), torn)
  BY Zenon DEF Abandoned
<1>2. active \in Seq(Hint) /\ Len(active) \in Nat
  BY Zenon, LenProperties DEF TypeOK
<1>3. SubSeq(active, 1, n) \in Seq(Hint) /\ Len(SubSeq(active, 1, n)) = n
  BY <1>2, SubSeqProperties, ElementOfSeq
<1>4. active = << >> => n = 0
  BY <1>2, EmptySeq
<1>5. active = << >> => SubSeq(active, 1, n) = << >>
  BY Zenon, <1>3, <1>4, EmptySeq
<1> QED
  BY Zenon, <1>1, <1>3, <1>5 DEF Closes, Closed

LEMMA ShutDownCloses ==
  ASSUME TypeOK, ShutDown
  PROVE  /\ Closes /\ active' = << >> /\ active' \in Seq(Hint)
         /\ active = << >> => disk' = disk
<1>1. active' = << >> /\ active' \in Seq(Hint)
  BY Zenon, EmptySeq DEF ShutDown
<1>2. CASE Abandoned
  BY Zenon, <1>1, <1>2, AbandonedCloses
<1>3. CASE disk' = Closed(active, FALSE)
  <2>1. active \in Seq(Hint)
    BY Zenon DEF TypeOK
  <2> QED
    BY Zenon, <1>1, <1>3, <2>1 DEF Closes, Closed
<1> QED
  BY Zenon, <1>2, <1>3 DEF ShutDown

LEMMA ClosesType ==
  ASSUME TypeOK, Closes
  PROVE  /\ disk' \in Seq(Segment) /\ Len(disk') \in Nat /\ Len(disk') >= Len(disk)
         /\ todo \in 0 .. Len(disk')
         /\ rp # Start => disk' # << >> /\ rp <= Len(disk'[1].hints)
         /\ file # NoFile => disk'[1] = disk[1]
         /\ \A i \in 1 .. Len(disk) : disk'[i] = disk[i]
BY Zenon, ClosedType DEF Closes

(* A store that is opened lists the segments if none is left of the last list. *)
LEMMA RefilledType ==
  ASSUME NEW segments, Len(segments) \in Nat, todo \in 0 .. Len(segments)
  PROVE  /\ Refilled(segments) \in 0 .. Len(segments)
         /\ todo # 0 => Refilled(segments) = todo
         /\ todo = 0 => Refilled(segments) = Len(segments)
BY DEF Refilled

LEMMA FlushType ==
  ASSUME TypeOK, Flushed \/ FlushFails
  PROVE  /\ Closes /\ active' \in Seq(Hint)
         /\ todo' \in 0 .. Len(disk') /\ (todo # 0 => todo' = todo)
         /\ store' \in {"none", "open", "failed"} /\ faults' \in Nat
         /\ UNCHANGED <<storing, stored>>
         /\ active = << >> => active' = << >> /\ disk' = disk
         /\ Flushed => active' = << >> /\ (todo = 0 => todo' = Len(disk'))
<1>1. CASE Flushed
  <2>1. /\ ShutDown /\ todo' = Refilled(disk') /\ store' = "open"
        /\ UNCHANGED <<storing, stored, faults>>
    BY Zenon, <1>1 DEF Flushed
  <2>2. /\ Closes /\ active' = << >> /\ active' \in Seq(Hint)
        /\ active = << >> => disk' = disk
    BY Zenon, <2>1, ShutDownCloses
  <2>3. Len(disk') \in Nat /\ todo \in 0 .. Len(disk')
    BY Zenon, <2>2, ClosesType
  <2>4. /\ todo' \in 0 .. Len(disk') /\ (todo # 0 => todo' = todo)
        /\ todo = 0 => todo' = Len(disk')
    BY Zenon, <2>1, <2>3, RefilledType
  <2>5. faults' \in Nat
    BY Zenon, <2>1 DEF TypeOK
  <2> QED
    BY Zenon, <2>1, <2>2, <2>4, <2>5
<1>2. CASE FlushFails /\ ~Flushed
  <2>1. /\ \/ store' = "failed" /\ UNCHANGED <<disk, active>>
           \/ store' = "none" /\ ShutDown
        /\ UNCHANGED <<storing, stored, todo>>
    BY Zenon, <1>2 DEF FlushFails
  <2>2. Closes /\ active' \in Seq(Hint) /\ (active = << >> => active' = << >> /\ disk' = disk)
    BY Zenon, <2>1, SameCloses, ShutDownCloses DEF TypeOK
  <2>3. todo' \in 0 .. Len(disk')
    BY Zenon, <2>1, <2>2, ClosesType
  <2>4. faults' \in Nat
    BY <1>2 DEF FlushFails, Fault, TypeOK
  <2>5. store' \in {"none", "open", "failed"}
    BY Zenon, <2>1
  <2> QED
    BY Zenon, <1>2, <2>1, <2>2, <2>3, <2>4, <2>5
<1> QED
  BY Zenon, <1>1, <1>2

LEMMA ResumeType ==
  ASSUME TypeOK, file # NoFile
  PROVE  /\ Resume \in Nat \ {0}
         /\ Resume # Start => Resume <= Len(disk[1].hints)
         /\ ~file.restart /\ file.rps # {} =>
              Resume \in file.rps /\ \A j \in file.rps : Resume <= j
<1>1. file.rps \in SUBSET Nat /\ Len(disk[1].hints) \in Nat /\ file \in File
  BY Zenon, FileHasSegment, FirstSegment
<1>2. file.rps \subseteq 1 .. file.cursor - 1 /\ file.cursor <= Len(disk[1].hints) + 1
  BY Zenon DEF TypeOK
<1>3. CASE ~file.restart /\ file.rps # {}
  <2> DEFINE Least(i) == \A j \in file.rps : i <= j
  <2>1. \E i \in file.rps : Least(i)
    BY Zenon, <1>1, <1>3, MinExists
  <2>2. Resume = CHOOSE i \in file.rps : Least(i)
    BY Zenon, <1>3 DEF Resume
  <2> HIDE DEF Least
  <2>3. Resume \in file.rps /\ Least(Resume)
    BY Zenon, <2>1, <2>2
  <2> QED
    BY <1>1, <1>2, <1>3, <2>3 DEF Least, File
<1>4. CASE file.restart \/ file.rps = {}
  <2>1. Resume = Start \/ Resume = rp
    BY Zenon, <1>4 DEF Resume
  <2>2. /\ Start \in Nat \ {0} /\ rp \in Nat \ {0}
        /\ rp # Start => rp <= Len(disk[1].hints)
    BY DEF Start, TypeOK
  <2> QED
    BY Zenon, <1>4, <2>1, <2>2
<1> QED
  BY Zenon, <1>3, <1>4

(* The types are kept by the steps that store and flush hints ... *)
LEMMA StoreType ==
  ASSUME TypeOK, StoreHint \/ AddEntry \/ FlushMaybe
  PROVE  TypeOK'
<1>1. CASE StoreHint
  BY <1>1, HintsAssumption DEF StoreHint, TypeOK, endVars
<1>2. CASE AddEntry
  <2>1. storing' \in Nat /\ stored' \in Nat /\ stored' + storing' <= MaxHints
    BY SMTT(30), <1>2, HintsAssumption DEF AddEntry, TypeOK
  <2>2. active' \in Seq(Hint)
    <3>1. CASE active' = Append(active, stored') /\ stored' = stored + 1
      <4>1. stored' \in Hint
        <5>1. stored \in Nat /\ MaxHints \in Nat
          BY Zenon, HintsAssumption DEF TypeOK
        <5>2. stored' = stored + 1
          BY Zenon, <3>1
        <5>3. \A m, n, k \in Nat : m + n <= k => m <= k
          OBVIOUS
        <5>4. stored' <= MaxHints
          BY Zenon, <2>1, <5>1, <5>3
        <5> QED
          BY <5>1, <5>2, <5>4 DEF Hint
      <4> QED
        BY Zenon, <3>1, <4>1, AppendProperties DEF TypeOK
    <3> QED
      BY Zenon, <1>2, <3>1 DEF AddEntry, TypeOK
  <2>3. /\ store' = store \/ store' = "open"
        /\ todo' = todo \/ todo' = Refilled(disk)
        /\ UNCHANGED <<run, allowed, disk, rp, mapping, file, ep, applied, dropped, unmapped, cut, faults>>
    BY Zenon, <1>2 DEF AddEntry, GetOrLoad, endVars
  <2>4. todo' \in 0 .. Len(disk) /\ (todo # 0 => todo' = todo)
    <3>1. todo \in 0 .. Len(disk) /\ Len(disk) \in Nat
      BY Zenon, LenProperties DEF TypeOK
    <3> QED
      BY Zenon, <2>3, <3>1, RefilledType
  <2>5. store' \in {"none", "open", "failed"}
    BY Zenon, <2>3 DEF TypeOK
  <2> QED
    BY Zenon, <2>1, <2>2, <2>3, <2>4, <2>5 DEF TypeOK
<1>3. CASE FlushMaybe
  <2>1. /\ Flushed \/ FlushFails
        /\ UNCHANGED <<run, allowed, rp, mapping, file, ep, applied, dropped, unmapped, cut>>
    BY Zenon, <1>3 DEF FlushMaybe, endVars
  <2>2. /\ Closes /\ active' \in Seq(Hint)
        /\ todo' \in 0 .. Len(disk') /\ (todo # 0 => todo' = todo)
        /\ store' \in {"none", "open", "failed"} /\ faults' \in Nat
        /\ UNCHANGED <<storing, stored>>
    BY Zenon, <2>1, FlushType
  <2>3. /\ disk' \in Seq(Segment)
        /\ rp # Start => disk' # << >> /\ rp <= Len(disk'[1].hints)
        /\ file # NoFile => disk'[1] = disk[1]
    BY Zenon, <2>2, ClosesType
  <2> QED
    BY Zenon, <2>1, <2>2, <2>3 DEF TypeOK
<1> QED
  BY Zenon, <1>1, <1>2, <1>3

(* What the steps of a file do to its state. *)
FileAt(cursor, rps, flight, failed, restart, over) ==
  [cursor |-> cursor, rps |-> rps, flight |-> flight, failed |-> failed,
   restart |-> restart, over |-> over]

LEMMA FileSteps ==
  ASSUME TypeOK, file # NoFile
  PROVE  /\ Skip => file' = FileAt(file.cursor + 1, file.rps, file.flight,
                                   file.failed, file.restart, file.over)
         /\ CannotSend => file' = FileAt(file.cursor + 1, file.rps, file.flight,
                                         TRUE, file.restart, file.over)
         /\ EndOfFile => file' = FileAt(file.cursor, file.rps, file.flight,
                                        file.failed /\ ~disk[1].torn, file.restart, TRUE)
         /\ ReadFails => file' = FileAt(file.cursor, file.rps, file.flight, TRUE, file.restart, TRUE)
         /\ \A i : Sent(i) =>
              file' = FileAt(file.cursor, file.rps \ {i}, file.flight \ {i},
                             file.failed, file.restart, file.over)
         /\ \A i : SendFailed(i) =>
              file' = FileAt(file.cursor, file.rps, file.flight \ {i},
                             TRUE, file.restart, file.over)
<1>1. file \in File
  BY Zenon, FileHasSegment
<1> QED
  BY ZenonT(60), <1>1 DEF File, FileAt, Skip, CannotSend, EndOfFile, ReadFails, Sent, SendFailed

(* A hint that is read is sent, dropped or discarded, or does not fit in rps_set. *)
LEMMA ReadSteps ==
  ASSUME TypeOK, file # NoFile, SendOneHint
  PROVE  \/ file' = FileAt(file.cursor + 1, file.rps \cup {file.cursor},
                           file.flight \cup {file.cursor},
                           file.failed, file.restart, file.over)
         \/ /\ file' = FileAt(file.cursor + 1, file.rps \cup {file.cursor}, file.flight,
                              file.failed, file.restart, file.over)
            /\ disk[1].hints[file.cursor] \in dropped' \cup unmapped'
         \/ file' = FileAt(file.cursor + 1, file.rps, file.flight, TRUE, TRUE, file.over)
<1> DEFINE i == file.cursor
           read == [file EXCEPT !.cursor = @ + 1, !.rps = @ \cup {i}]
<1>1. file \in File
  BY Zenon, FileHasSegment
<1>2. CASE file' = [read EXCEPT !.flight = @ \cup {i}]
  <2>1. file' = FileAt(i + 1, file.rps \cup {i}, file.flight \cup {i},
                       file.failed, file.restart, file.over)
    BY Zenon, <1>1, <1>2 DEF File, FileAt
  <2> QED
    BY Zenon, <2>1
<1>3. CASE file' = read /\ disk[1].hints[i] \in dropped' \cup unmapped'
  <2>1. file' = FileAt(i + 1, file.rps \cup {i}, file.flight, file.failed, file.restart, file.over)
    BY Zenon, <1>1, <1>3 DEF File, FileAt
  <2> QED
    BY Zenon, <1>3, <2>1
<1>4. CASE file' = [file EXCEPT !.cursor = @ + 1, !.failed = TRUE, !.restart = TRUE]
  <2>1. file' = FileAt(i + 1, file.rps, file.flight, TRUE, TRUE, file.over)
    BY Zenon, <1>1, <1>4 DEF File, FileAt
  <2> QED
    BY Zenon, <2>1
<1>5. \/ file' = [read EXCEPT !.flight = @ \cup {i}]
      \/ file' = read /\ disk[1].hints[i] \in dropped' \cup unmapped'
      \/ file' = [file EXCEPT !.cursor = @ + 1, !.failed = TRUE, !.restart = TRUE]
  BY Zenon DEF SendOneHint
<1> QED
  BY Zenon, <1>2, <1>3, <1>4, <1>5

(* ... by those that read and send a file ... *)
LEMMA SendType ==
  ASSUME TypeOK,
         \/ SendOneFile \/ Skip \/ CannotSend \/ SendOneHint \/ EndOfFile \/ ReadFails
         \/ \E i \in Hint : Sent(i) \/ SendFailed(i)
  PROVE  TypeOK'
<1>1. CASE SendOneFile
  <2>1. disk # << >> /\ Len(disk[1].hints) \in Nat \ {0}
    BY <1>1, EmptySeq, FirstSegment DEF SendOneFile, TypeOK
  <2>2. PICK start \in 1 .. rp :
          file' = [cursor |-> start, rps |-> {}, flight |-> {},
                   failed |-> FALSE, restart |-> FALSE, over |-> FALSE]
    BY Zenon, <1>1 DEF SendOneFile
  <2>3. file' \in File /\ file'.cursor = start /\ file'.rps = {} /\ file'.flight = {}
    BY <2>2 DEF File, TypeOK
  <2>4. start <= Len(disk[1].hints) + 1
    BY <2>1 DEF TypeOK, Start
  <2> QED
    BY Zenon, <1>1, <2>3, <2>4 DEF SendOneFile, TypeOK, storeVars, endVars
<1> USE DEF storeVars, endVars
<1>2. CASE Skip \/ CannotSend \/ EndOfFile \/ ReadFails
  <2>1. /\ file # NoFile /\ file \in File /\ Len(disk[1].hints) \in Nat
    BY Zenon, <1>2, FileHasSegment, FirstSegment DEF Skip, CannotSend, EndOfFile, ReadFails, Reading
  <2>2. file.failed \in BOOLEAN /\ file.over \in BOOLEAN /\ file.cursor \in Nat \ {0}
    BY Zenon, <2>1 DEF File
  <2>3. PICK c \in {file.cursor, file.cursor + 1}, f \in BOOLEAN, o \in BOOLEAN :
          file' = FileAt(c, file.rps, file.flight, f, file.restart, o)
    BY Zenon, <1>2, <2>1, <2>2, FileSteps
  <2>4. c <= Len(disk[1].hints) + 1
    <3>1. CASE EndOfFile \/ ReadFails
      <4>1. file'.cursor = c /\ file'.cursor = file.cursor
        BY Zenon, <2>1, <2>3, <3>1, FileSteps DEF FileAt
      <4> QED
        BY Zenon, <2>1, <4>1 DEF TypeOK
    <3>2. CASE Skip \/ CannotSend
      BY <2>1, <2>2, <3>2 DEF Skip, CannotSend, Reading
    <3> QED
      BY Zenon, <1>2, <3>1, <3>2
  <2>5. /\ file' \in File /\ file'.rps = file.rps /\ file'.flight = file.flight /\ file'.cursor = c
    BY <2>1, <2>2, <2>3 DEF File, FileAt
  <2>6. file.rps \subseteq 1 .. c - 1 /\ file.flight \subseteq file.rps
    BY SMTT(30), <2>1, <2>2 DEF TypeOK
  <2>7. UNCHANGED <<run, allowed, store, storing, stored, active, disk, todo, rp, mapping, ep,
                    applied, dropped, unmapped, cut>>
    BY Zenon, <1>2 DEF Skip, CannotSend, EndOfFile, ReadFails
  <2>8. faults' \in Nat
    <3>1. faults \in Nat /\ faults' \in {faults, faults + 1}
      BY Zenon, <1>2 DEF Skip, CannotSend, EndOfFile, ReadFails, Fault, TypeOK
    <3> QED
      BY <3>1
  <2> QED
    BY Zenon, <2>1, <2>4, <2>5, <2>6, <2>7, <2>8 DEF TypeOK
<1>3. CASE SendOneHint
  <2> DEFINE i == file.cursor
  <2>1. /\ file # NoFile /\ file \in File /\ Len(disk[1].hints) \in Nat
        /\ disk[1].hints[i] \in Hint
    BY Zenon, <1>3, FileHasSegment, FirstSegment DEF SendOneHint, Reading
  <2>2. /\ file.flight \subseteq file.rps /\ file.rps \subseteq 1 .. i - 1
        /\ i \in Nat \ {0} /\ i <= Len(disk[1].hints)
    BY Zenon, <1>3, <2>1 DEF TypeOK, SendOneHint, Reading, File
  <2>4. /\ file' \in File /\ file'.cursor = i + 1
        /\ file'.flight \subseteq file'.rps /\ file'.rps \subseteq 1 .. i
    <3>1. PICK r \in {file.rps, file.rps \cup {i}}, fl \in {file.flight, file.flight \cup {i}},
             f \in {file.failed, TRUE}, s \in {file.restart, TRUE} :
            /\ file' = FileAt(i + 1, r, fl, f, s, file.over)
            /\ fl \subseteq r
      BY Zenon, <1>3, <2>1, <2>2, ReadSteps
    <3>2. /\ r \subseteq 1 .. i /\ fl \subseteq r /\ i + 1 \in Nat \ {0} /\ r \subseteq Nat
          /\ f \in BOOLEAN /\ s \in BOOLEAN /\ file.over \in BOOLEAN
      <4>1. file.failed \in BOOLEAN /\ file.restart \in BOOLEAN /\ file.over \in BOOLEAN
        BY Zenon, <2>1 DEF File
      <4>2. r \subseteq 1 .. i /\ fl \subseteq r
        BY <2>2, <3>1
      <4>3. 1 .. i \subseteq Nat /\ i + 1 \in Nat \ {0}
        BY <2>2
      <4> QED
        BY Zenon, <3>1, <4>1, <4>2, <4>3
    <3>3. file' \in File
      BY Zenon, <3>1, <3>2 DEF File, FileAt
    <3>4. file'.cursor = i + 1 /\ file'.rps = r /\ file'.flight = fl
      BY Zenon, <3>1 DEF FileAt
    <3> QED
      BY Zenon, <3>2, <3>3, <3>4
  <2>5. /\ dropped' \subseteq Hint /\ unmapped' \subseteq Hint
    BY Zenon, <1>3, <2>1 DEF SendOneHint, TypeOK
  <2>6. mapping' \in BOOLEAN /\ faults' \in Nat
    <3>1. mapping \in BOOLEAN /\ faults \in Nat
      BY Zenon DEF TypeOK
    <3>2. (mapping' = mapping \/ mapping' = (mapping \/ i = 1)) /\ faults' \in {faults, faults + 1}
      BY Zenon, <1>3 DEF SendOneHint, Fault
    <3>3. mapping' \in BOOLEAN
      BY Zenon, <3>1, <3>2
    <3> QED
      BY <3>1, <3>2, <3>3
  <2> HIDE DEF i
  <2>7. UNCHANGED <<run, allowed, store, storing, stored, active, disk, todo, rp, ep, applied, cut>>
    BY Zenon, <1>3 DEF SendOneHint
  <2>8. file'.rps \subseteq 1 .. file'.cursor - 1 /\ file'.cursor <= Len(disk[1].hints) + 1
    BY <2>2, <2>4
  <2> QED
    BY Zenon, <2>1, <2>4, <2>5, <2>6, <2>7, <2>8 DEF TypeOK
<1>4. CASE \E i \in Hint : Sent(i) \/ SendFailed(i)
  <2>1. PICK i \in Hint : Sent(i) \/ SendFailed(i)
    BY Zenon, <1>4
  <2>2. /\ file # NoFile /\ file \in File /\ i \in file.flight
        /\ disk[1].hints[i] \in Hint
    BY Zenon, <2>1, FileHasSegment DEF Sent, SendFailed, TypeOK
  <2>3. /\ file' \in File /\ file'.cursor = file.cursor
        /\ file'.flight = file.flight \ {i} /\ file'.rps \in {file.rps, file.rps \ {i}}
    <3>1. PICK r \in {file.rps, file.rps \ {i}}, f \in {file.failed, TRUE} :
            file' = FileAt(file.cursor, r, file.flight \ {i}, f, file.restart, file.over)
      BY Zenon, <2>1, <2>2, FileSteps
    <3>2. file' \in File
      BY Zenon, <2>2, <3>1 DEF File, FileAt
    <3>3. file'.cursor = file.cursor /\ file'.rps = r /\ file'.flight = file.flight \ {i}
      BY Zenon, <3>1 DEF FileAt
    <3> QED
      BY Zenon, <3>1, <3>2, <3>3
  <2>4. applied' \subseteq Hint /\ faults' \in Nat
    <3>1. applied' \in {applied, applied \cup {disk[1].hints[i]}} /\ faults' \in {faults, faults + 1}
      BY Zenon, <2>1 DEF Sent, SendFailed, Fault
    <3> QED
      BY <2>2, <3>1 DEF TypeOK
  <2>5. file'.flight \subseteq file'.rps /\ file'.rps \subseteq 1 .. file'.cursor - 1
    BY Zenon, <2>2, <2>3 DEF TypeOK
  <2> QED
    BY ZenonT(60), <2>1, <2>2, <2>3, <2>4, <2>5 DEF Sent, SendFailed, TypeOK
<1> QED
  BY Zenon, <1>1, <1>2, <1>3, <1>4

(* ... and by the others. *)
LEMMA OtherType ==
  ASSUME TypeOK,
         \/ FileFailed \/ FileDone \/ DeleteFails
         \/ AllowReplaying \/ Stop \/ Stopped \/ Drain \/ PassEnds \/ DrainFlush \/ Crash \/ Restart
         \/ EndpointDown \/ EndpointUp
  PROVE  TypeOK'
<1> USE DEF storeVars, endVars
<1>1. CASE FileFailed
  <2>1. file # NoFile
    BY Zenon, <1>1 DEF FileFailed, Over
  <2>2. rp' \in Nat \ {0} /\ (rp' # Start => rp' <= Len(disk[1].hints)) /\ disk # << >>
    BY Zenon, <1>1, <2>1, ResumeType, FileHasSegment DEF FileFailed
  <2>3. /\ file' = NoFile /\ mapping' = mapping
        /\ UNCHANGED <<run, allowed, store, storing, stored, active, disk, todo, ep, applied,
                       dropped, unmapped, cut, faults>>
    BY Zenon, <1>1 DEF FileFailed, MappingKept
  <2> QED
    BY Zenon, <2>2, <2>3 DEF TypeOK
<1>2. CASE FileDone
  <2>1. /\ disk # << >> /\ todo \in Nat \ {0} /\ todo <= Len(disk) /\ HintsIn(disk[1]) \subseteq Hint
    BY Zenon, <1>2, FileHasSegment, FirstSegment DEF FileDone, Complete, Over
  <2>2. disk' \in Seq(Segment) /\ Len(disk') = Len(disk) - 1 /\ Len(disk) \in Nat
    BY Zenon, <1>2, <2>1, HeadTailProperties, LenProperties DEF FileDone, TypeOK
  <2>3. dropped' \subseteq Hint
    BY Zenon, <1>2, <2>1 DEF FileDone, TypeOK
  <2>4. todo' \in 0 .. Len(disk')
    BY <1>2, <2>1, <2>2 DEF FileDone
  <2>5. rp' = Start /\ Start \in Nat \ {0} /\ file' = NoFile /\ mapping' = FALSE
    BY <1>2 DEF FileDone, Start
  <2>6. store' = store \/ store' = "open"
    BY Zenon, <1>2 DEF FileDone
  <2>7. UNCHANGED <<run, allowed, storing, stored, active, ep, applied, unmapped, cut, faults>>
    BY Zenon, <1>2 DEF FileDone
  <2>8. store' \in {"none", "open", "failed"}
    BY Zenon, <2>6 DEF TypeOK
  <2> QED
    BY Zenon, <2>2, <2>3, <2>4, <2>5, <2>7, <2>8 DEF TypeOK
<1>3. CASE AllowReplaying \/ Stop \/ Drain \/ DeleteFails \/ PassEnds
  <2>1. /\ run' \in {"stopping", "drain1", "flush", "close", run} /\ allowed' \in {allowed, TRUE}
        /\ UNCHANGED <<store, storing, stored, active, disk, todo, rp, mapping, ep, applied,
                       dropped, unmapped>>
        /\ file' \in {file, NoFile} /\ faults' \in {faults, faults + 1}
        /\ cut' \in {cut, cut \cup {"replay"}, cut \cup {"exception"}}
    BY Zenon, <1>3 DEF AllowReplaying, Stop, Drain, DeleteFails, PassEnds, Fault
  <2>2. faults' \in Nat
    BY <2>1 DEF TypeOK
  <2>3. cut' \subseteq {"replay", "exception", "flush"}
    BY Zenon, <2>1 DEF TypeOK
  <2>4. allowed' \in BOOLEAN
    BY Zenon, <2>1 DEF TypeOK
  <2>5. run' \in {"down", "up", "stopping", "drain1", "flush", "drain2", "close", "drained"}
    BY Zenon, <2>1 DEF TypeOK
  <2> QED
    BY Zenon, <2>1, <2>2, <2>3, <2>4, <2>5 DEF TypeOK
<1>4. CASE EndpointDown \/ EndpointUp
  <2>1. ep' \in {"alive", "dead", "left"} /\ faults' \in {faults, faults + 1}
    BY Zenon, <1>4 DEF EndpointDown, EndpointUp, Fault
  <2>2. UNCHANGED <<run, allowed, store, storing, stored, active, disk, todo, rp, mapping, file,
                    applied, dropped, unmapped, cut>>
    BY Zenon, <1>4 DEF EndpointDown, EndpointUp
  <2>3. faults' \in Nat
    BY <2>1 DEF TypeOK
  <2> QED
    BY Zenon, <2>1, <2>2, <2>3 DEF TypeOK
<1>5. CASE Stopped
  <2>1. /\ run' \in {"down", "drained"} /\ store' = "none" /\ active' = << >>
        /\ ShutDown \/ Abandoned
        /\ UNCHANGED <<allowed, storing, stored, todo, rp, mapping, file, ep, applied, dropped,
                       unmapped, cut>>
        /\ faults' \in {faults, faults + 1}
    BY Zenon, <1>5 DEF Stopped, ShutDown, Fault
  <2>2. Closes
    BY Zenon, <2>1, ShutDownCloses, AbandonedCloses
  <2>3. /\ disk' \in Seq(Segment) /\ todo \in 0 .. Len(disk')
        /\ rp # Start => disk' # << >> /\ rp <= Len(disk'[1].hints)
        /\ file # NoFile => disk'[1] = disk[1]
    BY Zenon, <2>2, ClosesType
  <2>4. faults' \in Nat
    BY <2>1 DEF TypeOK
  <2>5. active' \in Seq(Hint)
    BY Zenon, <2>1, EmptySeq
  <2> QED
    BY Zenon, <2>1, <2>3, <2>4, <2>5 DEF TypeOK
<1>6. CASE DrainFlush
  <2>1. /\ run' = "drain2" /\ cut' \in {cut, cut \cup {"flush"}}
        /\ Flushed \/ FlushFails \/ UNCHANGED <<store, storing, stored, active, disk, todo, faults>>
        /\ UNCHANGED <<allowed, rp, mapping, file, ep, applied, dropped, unmapped>>
    BY Zenon, <1>6 DEF DrainFlush
  <2>2. cut' \subseteq {"replay", "exception", "flush"}
    BY Zenon, <2>1 DEF TypeOK
  <2>3. CASE Flushed \/ FlushFails
    <3>1. /\ Closes /\ active' \in Seq(Hint)
          /\ todo' \in 0 .. Len(disk') /\ (todo # 0 => todo' = todo)
          /\ store' \in {"none", "open", "failed"} /\ faults' \in Nat
          /\ UNCHANGED <<storing, stored>>
      BY Zenon, <2>3, FlushType
    <3>2. /\ disk' \in Seq(Segment)
          /\ rp # Start => disk' # << >> /\ rp <= Len(disk'[1].hints)
          /\ file # NoFile => disk'[1] = disk[1]
      BY Zenon, <3>1, ClosesType
    <3> QED
      BY Zenon, <2>1, <2>2, <3>1, <3>2 DEF TypeOK
  <2>4. CASE UNCHANGED <<store, storing, stored, active, disk, todo, faults>>
    BY Zenon, <2>1, <2>2, <2>4 DEF TypeOK
  <2> QED
    BY Zenon, <2>1, <2>3, <2>4
<1>7. CASE Crash
  <2>1. Abandoned
    BY Zenon, <1>7 DEF Crash
  <2>2. Closes
    BY Zenon, <2>1, AbandonedCloses
  <2>3. /\ disk' \in Seq(Segment) /\ todo \in 0 .. Len(disk')
        /\ rp # Start => disk' # << >> /\ rp <= Len(disk'[1].hints)
    BY Zenon, <2>2, ClosesType
  <2>4. /\ run' = "down" /\ store' = "none" /\ storing' = 0 /\ active' \in Seq(Hint)
        /\ file' = NoFile /\ storing' \in Nat /\ faults' \in Nat /\ stored' + storing' <= MaxHints
    <3>1. /\ run' = "down" /\ store' = "none" /\ storing' = 0 /\ active' = << >> /\ file' = NoFile
          /\ faults' = faults + 1 /\ stored' = stored
      BY Zenon, <1>7 DEF Crash, Fault
    <3>2. storing' \in Nat /\ faults' \in Nat /\ stored' + storing' <= MaxHints
      BY <3>1, HintsAssumption DEF TypeOK
    <3> QED
      BY Zenon, <3>1, <3>2, EmptySeq
  <2>5. UNCHANGED <<allowed, stored, todo, rp, mapping, ep, applied, dropped, unmapped, cut>>
    BY Zenon, <1>7 DEF Crash
  <2> QED
    BY Zenon, <2>3, <2>4, <2>5 DEF TypeOK
<1>8. CASE Restart
  <2>1. Len(disk) \in Nat /\ Start \in Nat \ {0}
    BY LenProperties DEF TypeOK, Start
  <2>2. /\ run' = "up" /\ allowed' = FALSE /\ todo' = Len(disk) /\ rp' = Start /\ mapping' = FALSE
        /\ store' = "open" /\ cut' = {}
        /\ UNCHANGED <<storing, stored, active, disk, file, ep, applied, dropped, unmapped, faults>>
    BY Zenon, <1>8 DEF Restart
  <2>3. file # NoFile => todo' # 0
    <3>1. file # NoFile => todo \in Nat \ {0} /\ todo <= Len(disk)
      BY Zenon, FileHasSegment
    <3> QED
      BY <2>1, <2>2, <3>1
  <2>4. allowed' \in BOOLEAN /\ mapping' \in BOOLEAN
    BY Zenon, <2>2
  <2>7. todo' \in 0 .. Len(disk')
    BY <2>1, <2>2
  <2>5. UNCHANGED <<storing, stored, active, disk, file, ep, applied, dropped, unmapped, faults>>
    BY Zenon, <2>2
  <2>6. run' = "up" /\ rp' = Start /\ store' = "open" /\ cut' = {}
    BY Zenon, <2>2
  <2> QED
    BY Zenon, <2>1, <2>3, <2>4, <2>5, <2>6, <2>7 DEF TypeOK
<1> QED
  BY Zenon, <1>1, <1>2, <1>3, <1>4, <1>5, <1>6, <1>7, <1>8

LEMMA TypeStep ==
  ASSUME TypeOK, [Next]_vars
  PROVE  TypeOK'
<1>1. CASE UNCHANGED vars
  BY Zenon, <1>1 DEF vars, storeVars, endVars, TypeOK
<1> QED
  BY Zenon, <1>1, StoreType, SendType, OtherType DEF Next, Sending

----------------------------------------------------------------------------
(* Drains.                                                                 *)

(* If nothing cuts it short, the second pass of a drain has everything, and leaves nothing. *)
LEMMA DrainStep ==
  ASSUME TypeOK, TypeOK', DrainInv, [Next]_vars
  PROVE  DrainInv'
<1> USE DEF storeVars, endVars
<1>1. CASE StoreHint \/ AddEntry
  <2>1. run \in {"up"} \/ (run # "down" /\ storing > 0)
    BY Zenon, <1>1 DEF StoreHint, AddEntry
  <2>2. run = "up"
    BY <2>1 DEF DrainInv, TypeOK
  <2>3. run' = "up"
    BY Zenon, <1>1, <2>2 DEF StoreHint, AddEntry
  <2> QED
    BY Zenon, <2>3 DEF DrainInv, DrainIsComplete
<1>2. CASE FlushMaybe
  <2>1. /\ UNCHANGED <<run, cut, file>> /\ run \in {"up", "drain1", "drain2"}
        /\ Flushed \/ FlushFails
    BY Zenon, <1>2 DEF FlushMaybe, Draining
  <2>2. storing' = storing
    BY Zenon, <2>1, FlushType
  <2>3. run = "drain2" /\ cut = {} => active' = << >> /\ todo' = Len(disk')
    <3> SUFFICES ASSUME run = "drain2", cut = {}
                 PROVE  active' = << >> /\ todo' = Len(disk')
      OBVIOUS
    <3>1. active = << >> /\ todo = Len(disk)
      BY Zenon DEF DrainInv
    <3>2. todo # 0
      BY Zenon, <1>2 DEF FlushMaybe, TypeOK
    <3> QED
      BY Zenon, <2>1, <3>1, <3>2, FlushType
  <2> QED
    BY Zenon, <2>1, <2>2, <2>3 DEF DrainInv, DrainIsComplete
<1>3. CASE SendOneFile \/ Skip \/ CannotSend \/ SendOneHint \/ EndOfFile \/ ReadFails \/ FileFailed
           \/ DeleteFails \/ \E i \in Hint : Sent(i) \/ SendFailed(i)
  <2>1. UNCHANGED <<run, storing, active, disk, todo, cut>>
    BY Zenon, <1>3 DEF SendOneFile, Skip, CannotSend, SendOneHint, EndOfFile, ReadFails, FileFailed,
         DeleteFails, Sent, SendFailed
  <2>2. run \notin {"down", "flush", "close", "drained"}
    BY Zenon, <1>3 DEF SendOneFile, Skip, CannotSend, SendOneHint, EndOfFile, ReadFails, FileFailed,
         DeleteFails, Sent, SendFailed, Reading, Complete, Over, DrainInv
  <2> QED
    BY Zenon, <2>1, <2>2 DEF DrainInv, DrainIsComplete
<1>4. CASE FileDone
  <2>1. /\ UNCHANGED <<run, storing, active, cut>> /\ run \notin {"down", "flush", "close", "drained"}
    BY Zenon, <1>4 DEF FileDone, Complete, Over, DrainInv
  <2>2. run = "drain2" /\ cut = {} => active' = << >> /\ todo' = Len(disk')
    <3>1. disk # << >>
      BY Zenon, <1>4, FileHasSegment DEF FileDone, Complete, Over
    <3>2. Len(disk') = Len(disk) - 1
      BY Zenon, <1>4, <3>1, HeadTailProperties DEF FileDone, TypeOK
    <3> QED
      BY Zenon, <1>4, <2>1, <3>2 DEF FileDone, DrainInv
  <2> QED
    BY Zenon, <2>1, <2>2 DEF DrainInv, DrainIsComplete
<1>5. CASE AllowReplaying \/ Stop \/ Drain \/ Restart
  BY Zenon, <1>5 DEF AllowReplaying, Stop, Drain, Restart, DrainInv, DrainIsComplete
<1>6. CASE (Stopped /\ run = "stopping") \/ Crash
  <2>1. run' = "down" /\ file' = NoFile
    BY Zenon, <1>6 DEF Stopped, Crash
  <2> QED
    BY Zenon, <2>1 DEF DrainInv, DrainIsComplete
<1>7. CASE Stopped /\ run = "close"
  <2>1. /\ run' = "drained" /\ active' = << >> /\ UNCHANGED <<storing, file, cut>>
        /\ ShutDown \/ Abandoned
    BY Zenon, <1>7 DEF Stopped, ShutDown
  <2>2. cut = {} => disk' = << >>
    BY Zenon, <1>7, <2>1, ShutDownCloses, AbandonedCloses DEF DrainInv
  <2> QED
    BY Zenon, <1>7, <2>1, <2>2 DEF DrainInv, DrainIsComplete
<1>8. CASE PassEnds
  <2>1. /\ (run = "drain1" /\ run' = "flush") \/ (run = "drain2" /\ run' = "close")
        /\ file' = NoFile /\ UNCHANGED <<storing, active, disk, todo>>
        /\ (cut' = cut /\ todo = 0) \/ cut' = cut \cup {"replay"} \/ cut' = cut \cup {"exception"}
    BY Zenon, <1>8 DEF PassEnds
  <2>2. cut' = {} => cut = {} /\ todo = 0
    BY Zenon, <2>1
  <2>3. CASE run = "drain1"
    <3>1. run' = "flush"
      BY <2>1, <2>3
    <3> QED
      BY Zenon, <2>1, <2>2, <2>3, <3>1 DEF DrainInv, DrainIsComplete
  <2>4. CASE run = "drain2"
    <3>1. run' = "close"
      BY <2>1, <2>4
    <3>2. cut' = {} => active' = << >> /\ disk' = << >>
      BY Zenon, <2>1, <2>2, <2>4, EmptySeq DEF DrainInv, TypeOK
    <3> QED
      BY Zenon, <2>1, <2>4, <3>1, <3>2 DEF DrainInv, DrainIsComplete
  <2> QED
    BY Zenon, <2>1, <2>3, <2>4
<1>9. CASE DrainFlush
  <2>1. /\ run = "flush" /\ run' = "drain2" /\ file' = file
        /\ Flushed \/ FlushFails \/ storing' = storing
        /\ (Flushed /\ cut' = cut) \/ cut' = cut \cup {"flush"}
    BY Zenon, <1>9 DEF DrainFlush
  <2>2. storing' = storing
    BY Zenon, <2>1, FlushType
  <2>3. cut' = {} => cut = {} /\ Flushed
    BY Zenon, <2>1
  <2>4. cut' = {} => active' = << >> /\ todo' = Len(disk')
    BY Zenon, <2>1, <2>3, FlushType DEF DrainInv
  <2> QED
    BY Zenon, <2>1, <2>2, <2>4 DEF DrainInv, DrainIsComplete
<1>10. CASE EndpointDown \/ EndpointUp \/ UNCHANGED vars
  <2>1. UNCHANGED <<run, storing, active, disk, todo, file, cut>>
    BY Zenon, <1>10 DEF EndpointDown, EndpointUp, vars
  <2> QED
    BY Zenon, <2>1 DEF DrainInv, DrainIsComplete
<1> QED
  BY Zenon, <1>1, <1>2, <1>3, <1>4, <1>5, <1>6, <1>7, <1>8, <1>9, <1>10 DEF Next, Sending, Stopped

----------------------------------------------------------------------------
(* Column mappings.                                                        *)

(* The mapping is read with the first hint, and kept while the file may be resumed. *)
LEMMA MappingStep ==
  ASSUME TypeOK, TypeOK', DrainInv, MappingInv, [Next]_vars
  PROVE  MappingInv'
<1> USE DEF storeVars, endVars, Start
<1>1. CASE /\ UNCHANGED <<rp, mapping, file>>
           /\ file # NoFile => run' = run \/ (run = "up" /\ run' = "stopping")
           /\ file # NoFile => disk'[1] = disk[1]
  BY Zenon, <1>1 DEF MappingInv, Draining
<1>2. CASE SendOneFile
  <2>1. PICK start \in 1 .. rp :
          file' = [cursor |-> start, rps |-> {}, flight |-> {},
                   failed |-> FALSE, restart |-> FALSE, over |-> FALSE]
    BY Zenon, <1>2 DEF SendOneFile
  <2>2. /\ file'.cursor = start /\ file'.rps = {} /\ file'.over = FALSE
        /\ UNCHANGED <<rp, mapping>>
    BY Zenon, <1>2, <2>1 DEF SendOneFile
  <2>3. start > 1 => rp # 1
    BY DEF TypeOK
  <2> QED
    BY Zenon, <2>2, <2>3 DEF MappingInv
<1>3. CASE Skip \/ CannotSend \/ EndOfFile \/ ReadFails \/ \E i \in Hint : Sent(i) \/ SendFailed(i)
  <2>1. file # NoFile /\ UNCHANGED <<rp, mapping, run, disk>>
    BY Zenon, <1>3 DEF Skip, CannotSend, EndOfFile, ReadFails, Sent, SendFailed, Reading
  <2>2. CASE Skip
    <3>1. /\ file'.failed = file.failed /\ file'.rps = file.rps /\ file'.over = file.over
          /\ file.failed /\ ~file.over
      BY Zenon, <2>1, <2>2, FileSteps DEF FileAt, Skip, Reading
    <3> QED
      BY Zenon, <2>1, <3>1 DEF MappingInv, Draining
  <2>3. CASE CannotSend
    <3>1. file'.failed = TRUE /\ file'.rps = file.rps /\ file'.over = file.over
      BY Zenon, <2>1, <2>3, FileSteps DEF FileAt, CannotSend
    <3> QED
      BY Zenon, <2>1, <3>1 DEF MappingInv, Draining
  <2>4. CASE EndOfFile
    <3>1. /\ file'.over = TRUE /\ file'.rps = file.rps /\ file'.cursor = file.cursor
          /\ ~(file.cursor <= Len(disk[1].hints))
      BY ZenonT(60), <2>1, <2>4, FileSteps DEF FileAt, EndOfFile, Reading
    <3>2. file.cursor \in Nat /\ Len(disk[1].hints) \in Nat
      BY Zenon, <2>1, FileHasSegment, FirstSegment DEF File
    <3>3. file.cursor > Len(disk[1].hints)
      BY <3>1, <3>2
    <3> QED
      BY Zenon, <2>1, <3>1, <3>3 DEF MappingInv, Draining
  <2>a. CASE ReadFails
    <3>0. file' = FileAt(file.cursor, file.rps, file.flight, TRUE, file.restart, TRUE)
      BY Zenon, <2>1, <2>a, FileSteps
    <3>1. file'.over = TRUE /\ file'.rps = file.rps /\ file'.failed = TRUE
      BY Zenon, <3>0 DEF FileAt
    <3> QED
      BY Zenon, <2>1, <3>1 DEF MappingInv, Draining
  <2>5. CASE \E i \in Hint : Sent(i) \/ SendFailed(i)
    <3>1. PICK i \in Hint : Sent(i) \/ SendFailed(i)
      BY Zenon, <2>5
    <3>2. /\ file'.cursor = file.cursor /\ file'.rps \subseteq file.rps
          /\ file'.over = file.over /\ (file'.failed = file.failed \/ file'.failed = TRUE)
      <4>1. CASE Sent(i)
        <5>1. file' = FileAt(file.cursor, file.rps \ {i}, file.flight \ {i},
                             file.failed, file.restart, file.over)
          BY Zenon, <2>1, <4>1, FileSteps
        <5> QED
          BY Zenon, <5>1 DEF FileAt
      <4>2. CASE SendFailed(i)
        <5>1. file' = FileAt(file.cursor, file.rps, file.flight \ {i},
                             TRUE, file.restart, file.over)
          BY Zenon, <2>1, <4>2, FileSteps
        <5> QED
          BY Zenon, <5>1 DEF FileAt
      <4> QED
        BY Zenon, <3>1, <4>1, <4>2
    <3> QED
      BY Zenon, <2>1, <3>2 DEF MappingInv, Draining
  <2> QED
    BY Zenon, <1>3, <2>2, <2>3, <2>4, <2>5, <2>a
<1>4. CASE SendOneHint
  <2>1. /\ file # NoFile /\ UNCHANGED <<rp, run>> /\ Reading
        /\ (~file.failed \/ Draining) /\ file.cursor \in Nat \ {0}
    BY Zenon, <1>4, FileHasSegment DEF SendOneHint, Reading, File
  <2>2. file'.over = file.over
    BY <1>4, <2>1, ReadSteps DEF FileAt
  <2>3. ~file.over
    BY Zenon, <2>1 DEF Reading
  <2>4. \/ mapping' = TRUE
        \/ ~mapping /\ file.cursor # 1 /\ mapping' = mapping /\ file'.failed = file.failed
        \/ mapping' = mapping /\ file'.rps = file.rps /\ file'.failed = TRUE
    <3> DEFINE read == [file EXCEPT !.cursor = @ + 1, !.rps = @ \cup {file.cursor}]
    <3>1. file \in File
      BY Zenon, <2>1, FileHasSegment
    <3>2. CASE ~mapping /\ file.cursor # 1 /\ file' = read /\ mapping' = mapping
      BY Zenon, <3>1, <3>2 DEF File
    <3>3. CASE file' = [file EXCEPT !.cursor = @ + 1, !.failed = TRUE, !.restart = TRUE] /\ mapping' = mapping
      BY Zenon, <3>1, <3>3 DEF File
    <3> HIDE DEF read
    <3> QED
      BY Zenon, <1>4, <3>2, <3>3 DEF SendOneHint, read
  <2> QED
    BY <2>1, <2>2, <2>3, <2>4 DEF MappingInv, Draining
<1>5. CASE FileFailed
  <2>1. file # NoFile /\ ~Draining /\ rp' = Resume /\ mapping' = mapping /\ file' = NoFile
    BY Zenon, <1>5 DEF FileFailed, Over, MappingKept
  <2>2. rp' # Start => mapping
    BY Zenon, <2>1 DEF Resume, MappingInv
  <2> QED
    BY Zenon, <2>1, <2>2 DEF MappingInv
<1>6. CASE FileDone \/ Restart
  <2>1. rp' = Start /\ file' = NoFile
    BY Zenon, <1>6 DEF FileDone, Restart, DrainInv
  <2> QED
    BY Zenon, <2>1 DEF MappingInv
<1>7. CASE Crash \/ DeleteFails \/ PassEnds
  <2>1. UNCHANGED <<rp, mapping>> /\ file' = NoFile
    BY Zenon, <1>7 DEF Crash, DeleteFails, PassEnds
  <2> QED
    BY Zenon, <2>1 DEF MappingInv
<1>8. CASE FlushMaybe
  <2>1. file # NoFile => disk'[1] = disk[1]
    BY Zenon, <1>8, FlushType, ClosesType DEF FlushMaybe
  <2> QED
    BY Zenon, <1>1, <1>8, <2>1 DEF FlushMaybe
<1>9. CASE Stopped \/ Drain \/ DrainFlush
  BY Zenon, <1>1, <1>9 DEF Stopped, Drain, DrainFlush, DrainInv
<1>10. CASE \/ StoreHint \/ AddEntry \/ AllowReplaying \/ Stop
            \/ EndpointDown \/ EndpointUp \/ UNCHANGED vars
  BY Zenon, <1>1, <1>10 DEF StoreHint, AddEntry, AllowReplaying, Stop, EndpointDown, EndpointUp, vars
<1> QED
  BY Zenon, <1>2, <1>3, <1>4, <1>5, <1>6, <1>7, <1>8, <1>9, <1>10 DEF Next, Sending

----------------------------------------------------------------------------
(* Positions.                                                              *)

LEMMA DoneStays ==
  ASSUME disk'[1] = disk[1], applied \subseteq applied', dropped \subseteq dropped',
         unmapped \subseteq unmapped'
  PROVE  \A i : Done(i) => Done(i)'
BY Zenon DEF Done

(* A step that leaves the file and what is done alone, or ends the file. *)
LEMMA SentFrame ==
  ASSUME TypeOK, SentInv, rp' = rp, file' \in {file, NoFile},
         disk # << >> => disk'[1] = disk[1], UNCHANGED <<applied, dropped, unmapped>>,
         file' # NoFile /\ ~Draining' => ~Draining
  PROVE  SentInv'
<1>1. rp \in Nat /\ (disk = << >> => rp = 1)
  BY Zenon DEF TypeOK, Start
<1>2. disk # << >> => \A i : Done(i) => Done(i)'
  BY Zenon, DoneStays
<1>3. \A i \in 1 .. rp' - 1 : Done(i)'
  BY <1>1, <1>2 DEF SentInv
<1>4. CASE file' = NoFile
  BY Zenon, <1>3, <1>4 DEF SentInv
<1>5. CASE file' = file /\ file # NoFile
  <2>1. disk # << >>
    BY Zenon, <1>5, FileHasSegment
  <2> QED
    BY Zenon, <1>2, <1>3, <1>5, <2>1 DEF SentInv
<1> QED
  BY Zenon, <1>4, <1>5

(* The steps that read a file or end a send. *)
LEMMA ReadSent ==
  ASSUME TypeOK, MappingInv, SentInv, file # NoFile,
         \/ Skip \/ CannotSend \/ SendOneHint \/ EndOfFile \/ ReadFails
         \/ \E i \in Hint : Sent(i) \/ SendFailed(i)
  PROVE  SentInv'
<1> PICK c : c = file.cursor
  OBVIOUS
<1>1. /\ UNCHANGED <<run, rp, disk>> /\ applied \subseteq applied' /\ dropped \subseteq dropped'
      /\ unmapped \subseteq unmapped' /\ Draining' = Draining
  BY Zenon DEF Skip, CannotSend, SendOneHint, EndOfFile, ReadFails, Sent, SendFailed, endVars, Draining
<1>2. \A i : Done(i) => Done(i)'
  BY Zenon, <1>1, DoneStays
<1>3. /\ c \in Nat \ {0} /\ file.rps \subseteq 1 .. c - 1 /\ file.flight \subseteq file.rps
      /\ file.rps \subseteq Nat /\ rp \in Nat
  BY Zenon, FileHasSegment DEF File, TypeOK
<1>4. \A i \in 1 .. rp' - 1 : Done(i)'
  BY Zenon, <1>1, <1>2 DEF SentInv
<1>5. CASE Skip \/ CannotSend
  <2>1. /\ file'.failed = TRUE /\ file'.cursor = c + 1 /\ file'.rps = file.rps
        /\ file'.restart = file.restart
    <3>1. CASE Skip
      <4>1. file' = FileAt(c + 1, file.rps, file.flight, file.failed, file.restart, file.over)
        BY Zenon, <3>1, FileSteps
      <4>2. file.failed \in BOOLEAN /\ file.failed
        BY Zenon, <3>1, FileHasSegment DEF Skip, File
      <4> QED
        BY Zenon, <4>1, <4>2 DEF FileAt
    <3>2. CASE CannotSend
      BY SMTT(30), <3>2, FileSteps DEF FileAt
    <3> QED
      BY Zenon, <1>5, <3>1, <3>2
  <2>2. ASSUME ~file.restart, ~Draining, NEW i \in 1 .. c
        PROVE  Done(i)' \/ i \in file.rps \/ \A j \in file.rps : j < i
    <3>1. CASE i = c
      BY <1>3, <3>1
    <3>2. CASE i \in 1 .. c - 1
      BY Zenon, <1>2, <2>2, <3>2 DEF SentInv
    <3> QED
      BY <1>3, <3>1, <3>2
  <2> QED
    BY <1>1, <1>3, <1>4, <2>1, <2>2 DEF SentInv
<1>6. CASE EndOfFile
  <2>1. file' = FileAt(c, file.rps, file.flight, file.failed /\ ~disk[1].torn, file.restart, TRUE)
    BY Zenon, <1>6, FileSteps
  <2>2. /\ file'.cursor = c /\ file'.rps = file.rps /\ file'.flight = file.flight
        /\ file'.failed = (file.failed /\ ~disk[1].torn) /\ file'.restart = file.restart
        /\ file'.over = TRUE
    BY Zenon, <2>1 DEF FileAt
  <2>3. ~file'.failed /\ ~disk'[1].torn => ~file.failed /\ ~disk[1].torn
    BY Zenon, <1>1, <2>2
  <2>4. ~file'.failed /\ ~disk'[1].torn => \A i \in 1 .. c - 1 : Done(i)' \/ i \in file.flight
    BY Zenon, <1>2, <2>3 DEF SentInv
  <2>5. ~file.restart /\ ~Draining =>
          \A i \in 1 .. c - 1 : Done(i)' \/ i \in file.rps \/ \A j \in file.rps : j < i
    BY Zenon, <1>2 DEF SentInv
  <2> QED
    BY Zenon, <1>1, <1>4, <2>2, <2>4, <2>5 DEF SentInv
<1>7. CASE \E i \in Hint : Sent(i)
  <2>1. PICK k \in Hint : Sent(k)
    BY Zenon, <1>7
  <2>2. file' = FileAt(c, file.rps \ {k}, file.flight \ {k}, file.failed, file.restart, file.over)
    BY Zenon, <2>1, FileSteps
  <2>3. /\ file'.cursor = c /\ file'.rps = file.rps \ {k} /\ file'.flight = file.flight \ {k}
        /\ file'.failed = file.failed /\ file'.restart = file.restart /\ file'.over = file.over
    BY Zenon, <2>2 DEF FileAt
  <2>4. Done(k)'
    BY Zenon, <1>1, <2>1 DEF Sent, Done
  <2> QED
    BY Zenon, <1>1, <1>2, <1>4, <2>3, <2>4 DEF SentInv
<1>8. CASE \E i \in Hint : SendFailed(i)
  <2>1. PICK k \in Hint : SendFailed(k)
    BY Zenon, <1>8
  <2>2. file' = FileAt(c, file.rps, file.flight \ {k}, TRUE, file.restart, file.over)
    BY Zenon, <2>1, FileSteps
  <2>3. /\ file'.cursor = c /\ file'.rps = file.rps
        /\ file'.failed = TRUE /\ file'.restart = file.restart /\ file'.over = file.over
    BY Zenon, <2>2 DEF FileAt
  <2> QED
    BY Zenon, <1>1, <1>2, <1>4, <2>3 DEF SentInv
<1>9. CASE SendOneHint
  <2>1. Reading /\ (~file.failed \/ Draining) /\ ~file.over
    BY Zenon, <1>9 DEF SendOneHint, Reading
  <2>2. ~file.failed => \A i \in 1 .. c - 1 : Done(i)' \/ i \in file.flight
    BY Zenon, <1>2, <2>1 DEF SentInv
  <2>3. CASE file' = FileAt(c + 1, file.rps, file.flight, TRUE, TRUE, file.over)
    <3>1. file'.failed = TRUE /\ file'.restart = TRUE
      BY Zenon, <2>3 DEF FileAt
    <3> QED
      BY Zenon, <1>4, <3>1 DEF SentInv
  <2>4. ASSUME NEW flight, file.flight \subseteq flight, c \in flight \/ Done(c)',
               file' = FileAt(c + 1, file.rps \cup {c}, flight, file.failed,
                              file.restart, file.over)
        PROVE  SentInv'
    <3>1. /\ file'.cursor = c + 1 /\ file'.rps = file.rps \cup {c} /\ file'.flight = flight
          /\ file'.failed = file.failed /\ file'.restart = file.restart /\ file'.over = file.over
      BY Zenon, <2>4 DEF FileAt
    <3>2. ~file.failed => \A i \in 1 .. c : Done(i)' \/ i \in flight
      <4>1. SUFFICES ASSUME ~file.failed, NEW i \in 1 .. c PROVE Done(i)' \/ i \in flight
        OBVIOUS
      <4>2. CASE i = c
        BY Zenon, <2>4, <4>2
      <4>3. CASE i \in 1 .. c - 1
        BY Zenon, <2>2, <2>4, <4>1, <4>3
      <4> QED
        BY <1>3, <4>2, <4>3
    <3>3. ~Draining => \A i \in 1 .. c : Done(i)' \/ i \in file.rps \cup {c}
      <4>1. SUFFICES ASSUME ~Draining, NEW i \in 1 .. c PROVE Done(i)' \/ i \in file.rps \cup {c}
        OBVIOUS
      <4>2. CASE i \in 1 .. c - 1
        BY Zenon, <1>3, <2>1, <2>2, <4>1, <4>2
      <4> QED
        BY <1>3, <4>2
    <3>4. file'.cursor - 1 = c
      BY <1>3, <3>1
    <3>5. ~file'.failed => \A i \in 1 .. file'.cursor - 1 : Done(i)' \/ i \in file'.flight
      BY Zenon, <3>1, <3>2, <3>4
    <3>6. ~Draining' => \A i \in 1 .. file'.cursor - 1 : Done(i)' \/ i \in file'.rps
      BY Zenon, <1>1, <3>1, <3>3, <3>4
    <3> QED
      BY Zenon, <1>4, <3>5, <3>6 DEF SentInv
  <2>5. CASE file' = FileAt(c + 1, file.rps \cup {c}, file.flight \cup {c},
                            file.failed, file.restart, file.over)
    <3>1. file.flight \subseteq file.flight \cup {c} /\ c \in file.flight \cup {c}
      OBVIOUS
    <3> QED
      BY Zenon, <2>4, <2>5, <3>1
  <2>6. CASE /\ file' = FileAt(c + 1, file.rps \cup {c}, file.flight,
                               file.failed, file.restart, file.over)
             /\ disk[1].hints[c] \in dropped' \cup unmapped'
    <3>1. Done(c)'
      BY Zenon, <1>1, <2>6 DEF Done
    <3> QED
      BY Zenon, <2>4, <2>6, <3>1
  <2> QED
    BY Zenon, <1>9, <2>3, <2>5, <2>6, ReadSteps
<1>10. CASE ReadFails
  <2>1. file' = FileAt(c, file.rps, file.flight, TRUE, file.restart, TRUE)
    BY Zenon, <1>10, FileSteps
  <2>2. /\ file'.cursor = c /\ file'.rps = file.rps
        /\ file'.failed = TRUE /\ file'.restart = file.restart
    BY Zenon, <2>1 DEF FileAt
  <2> QED
    BY Zenon, <1>1, <1>2, <1>4, <2>2 DEF SentInv
<1> QED
  BY Zenon, <1>5, <1>6, <1>7, <1>8, <1>9, <1>10

(* What is sent stays behind the position where the file is resumed. *)
LEMMA SentStep ==
  ASSUME HintsInv, [Next]_vars
  PROVE  SentInv'
<1> USE DEF storeVars, endVars, Start, HintsInv
<1>1. CASE SendOneFile
  <2>1. PICK start \in 1 .. rp :
          file' = [cursor |-> start, rps |-> {}, flight |-> {},
                   failed |-> FALSE, restart |-> FALSE, over |-> FALSE]
    BY Zenon, <1>1 DEF SendOneFile
  <2>2. /\ file'.cursor = start /\ file'.rps = {}
        /\ UNCHANGED <<rp, disk, applied, dropped, unmapped>>
    BY Zenon, <1>1, <2>1 DEF SendOneFile
  <2>3. \A i : Done(i) => Done(i)'
    BY Zenon, <2>2, DoneStays
  <2>4. \A i \in 1 .. start - 1 : i \in 1 .. rp - 1
    BY DEF TypeOK
  <2> QED
    BY Zenon, <2>2, <2>3, <2>4 DEF SentInv
<1>2. CASE \/ Skip \/ CannotSend \/ SendOneHint \/ EndOfFile \/ ReadFails
           \/ \E i \in Hint : Sent(i) \/ SendFailed(i)
  <2>1. file # NoFile
    BY Zenon, <1>2 DEF Skip, CannotSend, SendOneHint, EndOfFile, ReadFails, Sent, SendFailed, Reading
  <2> QED
    BY Zenon, <1>2, <2>1, ReadSent
<1>3. CASE FileFailed
  <2>1. /\ file # NoFile /\ ~Draining /\ rp' = Resume /\ file' = NoFile
        /\ UNCHANGED <<disk, applied, dropped, unmapped>>
    BY Zenon, <1>3 DEF FileFailed, Over
  <2>2. \A i : Done(i) => Done(i)'
    BY Zenon, <2>1, DoneStays
  <2>3. \A i \in 1 .. Resume - 1 : Done(i)
    <3>1. CASE ~file.restart /\ file.rps # {}
      <4>1. Resume \in file.rps /\ \A j \in file.rps : Resume <= j
        BY Zenon, <2>1, <3>1, ResumeType
      <4>2. file.rps \subseteq 1 .. file.cursor - 1 /\ file.cursor \in Nat
        BY Zenon, <2>1, FileHasSegment DEF TypeOK, File
      <4>3. ASSUME NEW i \in 1 .. Resume - 1 PROVE Done(i)
        <5>1. i \in 1 .. file.cursor - 1 /\ i \notin file.rps /\ ~(Resume < i)
          BY <4>1, <4>2
        <5> QED
          BY Zenon, <2>1, <3>1, <4>1, <5>1 DEF SentInv
      <4> QED
        BY Zenon, <4>3
    <3>2. CASE file.restart
      BY <3>2 DEF Resume
    <3>3. CASE ~file.restart /\ file.rps = {}
      BY Zenon, <3>3 DEF Resume, SentInv
    <3> QED
      BY Zenon, <3>1, <3>2, <3>3
  <2> QED
    BY Zenon, <2>1, <2>2, <2>3 DEF SentInv
<1>4. CASE FileDone \/ Restart
  <2>1. rp' = 1 /\ file' = NoFile
    BY Zenon, <1>4 DEF FileDone, Restart, DrainInv
  <2> QED
    BY <2>1 DEF SentInv
<1>5. CASE FlushMaybe \/ Stopped \/ DrainFlush \/ Crash
  <2>1. Closes
    BY Zenon, <1>5, FlushType, SameCloses, ShutDownCloses, AbandonedCloses
       DEF FlushMaybe, Stopped, DrainFlush, Crash
  <2>2. disk # << >> => disk'[1] = disk[1]
    BY Zenon, <2>1, ClosesType, FirstSegment
  <2>3. /\ rp' = rp /\ file' \in {file, NoFile} /\ UNCHANGED <<applied, dropped, unmapped>>
        /\ file' # NoFile => run' = run
    BY Zenon, <1>5 DEF FlushMaybe, Stopped, DrainFlush, Crash, DrainInv
  <2>4. file' # NoFile /\ ~Draining' => ~Draining
    BY Zenon, <2>3 DEF Draining
  <2> QED
    BY Zenon, <2>2, <2>3, <2>4, SentFrame
<1>6. CASE \/ StoreHint \/ AddEntry \/ AllowReplaying \/ Stop \/ Drain \/ PassEnds \/ DeleteFails
           \/ EndpointDown \/ EndpointUp \/ UNCHANGED vars
  <2>1. /\ rp' = rp /\ file' \in {file, NoFile} /\ UNCHANGED <<disk, applied, dropped, unmapped>>
        /\ file' # NoFile => run' = run \/ run \in {"up", "stopping"}
    BY Zenon, <1>6 DEF StoreHint, AddEntry, AllowReplaying, Stop, Drain, PassEnds, DeleteFails,
         EndpointDown, EndpointUp, vars
  <2>2. file' # NoFile /\ ~Draining' => ~Draining
    BY Zenon, <2>1 DEF Draining
  <2> QED
    BY Zenon, <2>1, <2>2, SentFrame
<1> QED
  BY Zenon, <1>1, <1>2, <1>3, <1>4, <1>5, <1>6 DEF Next, Sending

----------------------------------------------------------------------------
(* The theorems.                                                           *)

LEMMA InitHints ==
  ASSUME Init
  PROVE  HintsInv
<1>1. /\ active \in Seq(Hint) /\ disk \in Seq(Segment) /\ todo \in 0 .. Len(disk)
      /\ stored + storing <= MaxHints
  BY HintsAssumption DEF Init
<1>2. TypeOK
  <2>1. rp \in Nat \ {0} /\ rp = Start /\ storing \in Nat /\ stored \in Nat /\ faults \in Nat
    BY DEF Init, Start
  <2>2. allowed \in BOOLEAN /\ mapping \in BOOLEAN
    BY Zenon DEF Init
  <2>3. /\ file = NoFile /\ run = "up" /\ ep = "alive" /\ store = "none"
        /\ applied = {} /\ dropped = {} /\ unmapped = {} /\ cut = {}
    BY Zenon DEF Init
  <2> QED
    BY Zenon, <1>1, <2>1, <2>2, <2>3 DEF TypeOK
<1>3. rp = 1 /\ Start = 1 /\ file = NoFile /\ run = "up" /\ storing = 0
  BY Zenon DEF Init, Start
<1>4. SentInv /\ MappingInv /\ DrainInv
  BY <1>3 DEF SentInv, MappingInv, DrainInv, DrainIsComplete
<1> QED
  BY Zenon, <1>2, <1>3, <1>4 DEF HintsInv

(* The positions, mappings and segments of an endpoint's hints always fit together, for *)
(* any number of hints and of failures: what comes before the position where            *)
(* send_one_file() resumes is done, and the column mapping it needs is kept.            *)
THEOREM HintsInvariant == Spec => []HintsInv
<1>1. Init => HintsInv
  BY Zenon, InitHints
<1>2. HintsInv /\ [Next]_vars => HintsInv'
  BY Zenon, TypeStep, DrainStep, MappingStep, SentStep DEF HintsInv
<1> QED
  BY <1>1, <1>2, PTL DEF Spec

(* A drain that nothing cut short leaves nothing behind, whatever was stored, closed, torn *)
(* or failed before sender::stop(), and whatever sends fail in it.                         *)
THEOREM DrainComplete == Spec => []DrainIsComplete
<1>1. HintsInv => DrainIsComplete
  BY Zenon DEF HintsInv, DrainInv
<1> QED
  BY <1>1, HintsInvariant, PTL

(* get_column_mapping() finds the mapping of every hint unless the endpoint is drained. *)
THEOREM MappingsFound == Spec => MappingsAreFound
<1>1. HintsInv /\ [Next]_vars => unmapped' = unmapped \/ Draining
  <2> SUFFICES ASSUME HintsInv, [Next]_vars, ~Draining
               PROVE  unmapped' = unmapped
    OBVIOUS
  <2>1. CASE SendOneHint
    <3>1. /\ file # NoFile /\ Reading /\ ~file.failed /\ file.cursor \in Nat \ {0}
      BY Zenon, <2>1, FileHasSegment DEF SendOneHint, Reading, HintsInv, File
    <3>2. mapping \/ file.cursor = 1
      BY <3>1 DEF HintsInv, MappingInv, Reading
    <3> QED
      BY Zenon, <2>1, <3>2 DEF SendOneHint
  <2>2. CASE ~SendOneHint
    BY Zenon, <2>2 DEF Next, Sending, StoreHint, AddEntry, FlushMaybe, SendOneFile, Skip, CannotSend,
         Sent, SendFailed, EndOfFile, ReadFails, FileFailed, FileDone, DeleteFails, AllowReplaying,
         Stop, Stopped, Drain, PassEnds, DrainFlush, Crash, Restart, EndpointDown, EndpointUp, vars, endVars
  <2> QED
    BY Zenon, <2>1, <2>2
<1> QED
  BY <1>1, HintsInvariant, PTL DEF Spec, MappingsAreFound

(* A segment that is deleted holds only hints that were sent or given up: send_one_file() *)
(* resumes at the first hint that was not sent, whatever order the sends end in and       *)
(* however often the file is tried.                                                       *)
THEOREM NoneForgotten == Spec => NoHintForgotten
<1> DEFINE Kept == \A h \in OnDisk \ OnDisk' : h \in applied \cup dropped' \cup unmapped
<1>1. HintsInv /\ [Next]_vars => Kept
  <2> SUFFICES ASSUME HintsInv, [Next]_vars, NEW h \in OnDisk, h \notin OnDisk'
               PROVE  h \in applied \cup dropped' \cup unmapped
    OBVIOUS
  <2> USE DEF storeVars, endVars
  <2>1. PICK n \in DOMAIN disk : h \in HintsIn(disk[n])
    BY Zenon DEF OnDisk
  <2>2. DOMAIN disk = 1 .. Len(disk) /\ Len(disk) \in Nat /\ n \in 1 .. Len(disk)
    BY Zenon, <2>1, LenProperties DEF HintsInv, TypeOK
  <2>3. ASSUME Len(disk') >= Len(disk), disk' \in Seq(Segment), disk'[n] = disk[n]
        PROVE  FALSE
    <3>1. n \in DOMAIN disk'
      BY SMTT(30), <2>2, <2>3, LenProperties
    <3> QED
      BY Zenon, <2>1, <2>3, <3>1 DEF OnDisk
  <2>4. CASE disk' = disk
    BY <2>4, <2>2, <2>3 DEF HintsInv, TypeOK
  <2>5. CASE FlushMaybe \/ DrainFlush \/ Stopped \/ Crash
    <3>1. TypeOK
      BY Zenon DEF HintsInv
    <3>2. Closes
      BY Zenon, <2>5, <3>1, FlushType, SameCloses, ShutDownCloses, AbandonedCloses
         DEF FlushMaybe, Stopped, DrainFlush, Crash
    <3> QED
      BY Zenon, <2>2, <2>3, <3>1, <3>2, ClosesType
  <2>6. CASE FileDone
    <3>1. /\ file # NoFile /\ file.over /\ file.flight = {} /\ (~file.failed \/ Draining)
          /\ dropped' = dropped \cup
               (IF disk[1].torn \/ Draining THEN HintsIn(disk[1]) \ applied ELSE {})
          /\ disk' = Tail(disk)
      BY Zenon, <2>6 DEF FileDone, Complete, Over
    <3>2. disk # << >> /\ Len(disk[1].hints) \in Nat /\ disk[1].hints \in Seq(Hint)
      BY Zenon, <3>1, FileHasSegment, FirstSegment DEF HintsInv
    <3>3. CASE n = 1
      <4>1. CASE disk[1].torn \/ Draining
        BY Zenon, <2>1, <3>1, <3>3, <4>1
      <4>2. CASE ~disk[1].torn /\ ~Draining
        <5>1. PICK i \in 1 .. Len(disk[1].hints) : h = disk[1].hints[i]
          BY Zenon, <2>1, <3>2, <3>3, LenProperties DEF HintsIn
        <5>2. file.cursor > Len(disk[1].hints) /\ file.cursor \in Nat
          BY Zenon, <3>1, <4>2, FileHasSegment DEF HintsInv, MappingInv, File
        <5>3. i \in 1 .. file.cursor - 1
          BY <3>2, <5>2
        <5>4. Done(i)
          BY Zenon, <3>1, <4>2, <5>3 DEF HintsInv, SentInv
        <5> QED
          BY Zenon, <3>1, <4>2, <5>1, <5>4 DEF Done
      <4> QED
        BY Zenon, <4>1, <4>2
    <3>4. CASE n # 1
      <4>1. Len(Tail(disk)) = Len(disk) - 1 /\ Tail(disk) \in Seq(Segment)
            /\ Tail(disk)[n - 1] = disk[n] /\ n - 1 \in 1 .. Len(Tail(disk))
        BY SMTT(30), <2>2, <3>2, <3>4, HeadTailProperties DEF HintsInv, TypeOK
      <4>2. n - 1 \in DOMAIN disk'
        BY Zenon, <3>1, <4>1, LenProperties
      <4>3. h \in HintsIn(disk'[n - 1])
        BY Zenon, <2>1, <3>1, <4>1
      <4> QED
        BY Zenon, <4>2, <4>3 DEF OnDisk
    <3> QED
      BY Zenon, <3>3, <3>4
  <2>7. disk' = disk \/ FlushMaybe \/ DrainFlush \/ Stopped \/ Crash \/ FileDone
    BY Zenon DEF Next, Sending, StoreHint, AddEntry, SendOneFile, Skip, CannotSend, SendOneHint,
         Sent, SendFailed, EndOfFile, ReadFails, FileFailed, DeleteFails, AllowReplaying, Stop, Drain,
         PassEnds, Restart, EndpointDown, EndpointUp, vars
  <2> QED
    BY Zenon, <2>4, <2>5, <2>6, <2>7
<1> QED
  BY <1>1, HintsInvariant, PTL DEF Spec, NoHintForgotten

=============================================================================
