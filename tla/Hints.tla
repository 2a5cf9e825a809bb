-------------------------------- MODULE Hints --------------------------------
(***************************************************************************)
(* Hinted handoff to one endpoint: db::hints::manager's                    *)
(* end_point_hints_manager, which keeps the hints in a commit log of its   *)
(* own, and its sender, which sends the closed segments file by file and   *)
(* resumes a file at the first hint that was not sent.                     *)
(*                                                                         *)
(* A segment is the sequence of its hints, in the order of their replay    *)
(* positions.  All hints of a segment have one schema version, whose       *)
(* column mapping is stored with the first of them only.  The limits on    *)
(* memory and disk space only refuse hints: StoreHint need not be taken.   *)
(***************************************************************************)
EXTENDS Integers, FiniteSets, Sequences

CONSTANTS
  MaxHints,     \* bound: hints stored
  MaxFaults     \* bound: failures of a send or of the disk, crashes, stops and down times

ASSUME HintsAssumption == MaxHints \in Nat /\ MaxFaults \in Nat

VARIABLES
  run,        \* of the manager: down, up, stopping or drained, or where stop(drain::yes)
              \*   is: drain1, flush, drain2 or close
  allowed,    \* replay_allowed()
  store,      \* _hints_store_anchor: none, open, or failed (to be shut down)
  storing,    \* _hints_in_progress
  stored,     \* the hints written so far: a hint is its number
  active,     \* hints in the open commit log
  disk,       \* its closed segments
  todo,       \* the length of _segments_to_replay, a prefix of disk
  rp,         \* _last_not_complete_rp, an index into the first segment
  mapping,    \* whether _last_schema_ver_to_column_mapping has the first segment's schema
  file,       \* the state of send_one_file(), or NoFile
  ep,         \* the endpoint: alive, dead or left (the ring)
  applied,    \* hints that reached the endpoint or its successors
  dropped,    \* hints given up: too old, of a table that is gone, in a corrupted file, or
              \*   not sent when the endpoint was drained
  unmapped,   \* hints discarded because their column mapping is missing
  cut,        \* what cut the drain short: replay not allowed, an exception, the flush
  faults

storeVars == <<store, storing, stored, active>>
endVars == <<ep, applied, dropped, unmapped, cut>>
vars == <<run, allowed, storeVars, disk, todo, rp, mapping, file, endVars, faults>>

NoFile == [cursor |-> 0]
Hint == 1 .. MaxHints
Start == 1           \* replay_position(), as an index
Draining == run \in {"drain1", "drain2"}
Fault == faults < MaxFaults /\ faults' = faults + 1

HintsIn(segment) == {segment.hints[i] : i \in DOMAIN segment.hints}
OnDisk == UNION {HintsIn(disk[i]) : i \in DOMAIN disk}

Init ==
  /\ run = "up" /\ allowed = FALSE
  /\ store = "none" /\ storing = 0 /\ stored = 0 /\ active = << >>
  /\ disk = << >> /\ todo = 0
  /\ rp = Start /\ mapping = FALSE /\ file = NoFile
  /\ ep = "alive" /\ applied = {} /\ dropped = {} /\ unmapped = {}
  /\ cut = {} /\ faults = 0

----------------------------------------------------------------------------
(* Storing hints.                                                          *)

(* store_hint() takes a hint while the store gate is open ... *)
StoreHint ==
  /\ run = "up" /\ stored + storing < MaxHints
  /\ storing' = storing + 1
  /\ UNCHANGED <<run, allowed, store, stored, active, disk, todo, rp, mapping, file, endVars,
                 faults>>

(* Mutant: segments are listed only when the manager starts. *)
RefilledAtStart(segments) == IF todo # 0 \/ run = "up" THEN todo ELSE Len(segments)

(* add_store(): the sender gets all segments, but only if it is done with those it had. *)
Refilled(segments) == IF todo # 0 THEN todo ELSE Len(segments)

(* get_or_load() opens a store if there is none. *)
GetOrLoad ==
  /\ store' = IF store = "none" THEN "open" ELSE store
  /\ todo' = IF store = "none" THEN Refilled(disk) ELSE todo

(* ... and adds it to the commit log, which may fail. *)
AddEntry ==
  /\ run # "down" /\ storing > 0
  /\ storing' = storing - 1
  /\ \/ GetOrLoad /\ stored' = stored + 1 /\ active' = Append(active, stored')
     \/ GetOrLoad /\ UNCHANGED <<stored, active>>
     \/ UNCHANGED <<store, todo, stored, active>>
  /\ UNCHANGED <<run, allowed, disk, rp, mapping, file, endVars, faults>>

(* The open segment is closed as it is, or as a crash leaves it. *)
Closed(hints, torn) ==
  IF hints = << >> THEN disk ELSE Append(disk, [hints |-> hints, torn |-> torn])

(* A log that is not shut down leaves some of its hints on disk, the end perhaps torn. *)
Abandoned ==
  \E n \in 0 .. Len(active), torn \in BOOLEAN : disk' = Closed(SubSeq(active, 1, n), torn)

(* commitlog::shutdown().  After it failed once it does nothing and returns. *)
ShutDown ==
  /\ IF store = "failed" THEN Abandoned ELSE disk' = Closed(active, FALSE)
  /\ active' = << >>

(* flush_current_hints(): the commit log, if there is one, is shut down and created again. *)
Flushed ==
  /\ store # "none"
  /\ ShutDown
  /\ store' = "open" /\ todo' = Refilled(disk')
  /\ UNCHANGED <<storing, stored, faults>>

(* Shutting it down fails, and it is still there; or creating it fails, and it is not. *)
FlushFails ==
  /\ Fault
  /\ \/ /\ store = "open" /\ store' = "failed"
        /\ UNCHANGED <<disk, active>>
     \/ /\ store # "none" /\ store' = "none"
        /\ ShutDown
  /\ UNCHANGED <<storing, stored, todo>>

(* flush_maybe(), in the sender's loop or before a hint of a file is sent, ignores failures. *)
FlushMaybe ==
  /\ run = "up" \/ (Draining /\ file # NoFile)
  /\ active # << >> \/ store = "failed" \/ (todo = 0 /\ disk # << >>)
  /\ Flushed \/ FlushFails
  /\ UNCHANGED <<run, allowed, rp, mapping, file, endVars>>

----------------------------------------------------------------------------
(* Sending a file.                                                         *)

CanSend ==
  /\ run # "stopping"
  /\ ep \in {"alive", "left"}

(* send_hints_maybe() goes for the first file.  read_log_file() skips whole chunks only, *)
(* so it may start before the position it is given.                                      *)
SendOneFile ==
  /\ run \in {"up", "drain1", "drain2"} /\ allowed /\ todo # 0 /\ file = NoFile
  /\ \E start \in 1 .. rp :
       file' = [cursor |-> start, rps |-> {}, flight |-> {},
                failed |-> FALSE, restart |-> FALSE, over |-> FALSE]
  /\ UNCHANGED <<run, allowed, storeVars, disk, todo, rp, mapping, endVars, faults>>

Reading == file # NoFile /\ ~file.over /\ file.cursor <= Len(disk[1].hints)

(* After a failure the rest of the file is skipped, unless the endpoint is drained. *)
Skip ==
  /\ Reading
  /\ file.failed /\ ~Draining
  /\ file' = [file EXCEPT !.cursor = @ + 1]
  /\ UNCHANGED <<run, allowed, storeVars, disk, todo, rp, mapping, endVars, faults>>

CannotSend ==
  /\ Reading
  /\ ~file.failed \/ Draining
  /\ ~CanSend
  /\ file' = [file EXCEPT !.cursor = @ + 1, !.failed = TRUE]
  /\ UNCHANGED <<run, allowed, storeVars, disk, todo, rp, mapping, endVars, faults>>

(* send_one_hint(): its position is kept in rps_set until it is sent.  The hint may be   *)
(* too old or have no table, then it is dropped; it may not fit in rps_set, then all of  *)
(* the file is read again.                                                               *)
SendOneHint ==
  /\ Reading
  /\ ~file.failed \/ Draining
  /\ CanSend
  /\ LET i == file.cursor
         h == disk[1].hints[i]
         read == [file EXCEPT !.cursor = @ + 1, !.rps = @ \cup {i}]
         mapped == mapping \/ i = 1
     IN  \/ /\ mapping' = mapped
            /\ mapped
            /\ \/ file' = [read EXCEPT !.flight = @ \cup {i}] /\ UNCHANGED dropped
               \/ file' = read /\ dropped' = dropped \cup {h}
            /\ UNCHANGED <<unmapped, faults>>
         \/ /\ ~mapped
            /\ file' = read
            /\ unmapped' = unmapped \cup {h}
            /\ UNCHANGED <<mapping, dropped, faults>>
         \/ /\ Fault
            /\ file' = [file EXCEPT !.cursor = @ + 1, !.failed = TRUE, !.restart = TRUE]
            /\ UNCHANGED <<mapping, dropped, unmapped>>
  /\ UNCHANGED <<run, allowed, storeVars, disk, todo, rp, ep, applied, cut>>

(* The sends in flight end in any order.  One that fails may have been applied. *)
Sent(i) ==
  /\ file # NoFile /\ i \in file.flight
  /\ file' = [file EXCEPT !.flight = @ \ {i}, !.rps = @ \ {i}]
  /\ applied' = applied \cup {disk[1].hints[i]}
  /\ UNCHANGED <<run, allowed, storeVars, disk, todo, rp, mapping, ep, dropped, unmapped, cut,
                 faults>>

SendFailed(i) ==
  /\ file # NoFile /\ i \in file.flight
  /\ \/ ep = "dead" /\ UNCHANGED faults
     \/ Fault
  /\ file' = [file EXCEPT !.flight = @ \ {i}, !.failed = TRUE]
  /\ applied' \in {applied, applied \cup {disk[1].hints[i]}}
  /\ UNCHANGED <<run, allowed, storeVars, disk, todo, rp, mapping, ep, dropped, unmapped, cut>>

----------------------------------------------------------------------------
(* The end of a file.                                                      *)

(* Mutant: the file is resumed after the last hint that was read. *)
ResumeAtCursor == IF file.restart THEN Start ELSE file.cursor

(* Mutant: sets are not ordered by position: the largest is taken. *)
ResumeAtMax ==
  IF file.restart THEN Start
  ELSE IF file.rps = {} THEN rp
  ELSE CHOOSE i \in file.rps : \A j \in file.rps : i >= j

(* _last_not_complete_rp after a failure. *)
Resume ==
  IF file.restart THEN Start
  ELSE IF file.rps = {} THEN rp
  ELSE CHOOSE i \in file.rps : \A j \in file.rps : i <= j

(* Mutant: the mappings are forgotten with the context of the file. *)
MappingForgotten == FALSE

(* The mappings outlive a failure: the file may be resumed after the hint that has them. *)
MappingKept == mapping

(* read_log_file() is done.  A corrupted file fails it, and is given up whatever failed so *)
(* far; a send that is still in flight may yet fail.                                       *)
EndOfFile ==
  /\ file # NoFile /\ ~Reading /\ ~file.over
  /\ file' = [file EXCEPT !.over = TRUE, !.failed = @ /\ ~disk[1].torn]
  /\ UNCHANGED <<run, allowed, storeVars, disk, todo, rp, mapping, endVars, faults>>

(* Or it throws anything else, wherever it is. *)
ReadFails ==
  /\ file # NoFile /\ ~file.over
  /\ Fault
  /\ file' = [file EXCEPT !.over = TRUE, !.failed = TRUE]
  /\ UNCHANGED <<run, allowed, storeVars, disk, todo, rp, mapping, endVars>>

Over == file # NoFile /\ file.over /\ file.flight = {}

FileFailed ==
  /\ Over
  /\ file.failed /\ ~Draining
  /\ rp' = Resume
  /\ mapping' = MappingKept
  /\ file' = NoFile
  /\ UNCHANGED <<run, allowed, storeVars, disk, todo, endVars, faults>>

(* When draining the segment is deleted even if sending failed. *)
Complete == Over /\ (~file.failed \/ Draining)

FileDone ==
  /\ Complete
  /\ dropped' = dropped \cup (IF disk[1].torn \/ Draining THEN HintsIn(disk[1]) \ applied ELSE {})
  /\ disk' = Tail(disk)
  /\ todo' = todo - 1
  /\ store' = IF store = "none" THEN "open" ELSE store
  /\ rp' = Start /\ mapping' = FALSE /\ file' = NoFile
  /\ UNCHANGED <<run, allowed, storing, stored, active, ep, applied, unmapped, cut, faults>>

(* delete_segments() may fail.  The exception ends send_hints_maybe(). *)
DeleteFails ==
  /\ Complete /\ ~Draining
  /\ Fault
  /\ file' = NoFile
  /\ UNCHANGED <<run, allowed, storeVars, disk, todo, rp, mapping, endVars>>

----------------------------------------------------------------------------
(* Start, stop, drain and crash.                                           *)

(* Called once the gossip has settled, whatever the endpoint's manager does. *)
AllowReplaying ==
  /\ run # "down" /\ ~allowed
  /\ allowed' = TRUE
  /\ UNCHANGED <<run, storeVars, disk, todo, rp, mapping, file, endVars, faults>>

(* stop(): the store gate is closed first. *)
Stop ==
  /\ run = "up" /\ storing = 0 /\ Fault
  /\ run' = "stopping"
  /\ UNCHANGED <<allowed, storeVars, disk, todo, rp, mapping, file, endVars>>

(* The sender's loop has ended.  The commit log is shut down, or fails to be, and the *)
(* manager is gone.                                                                   *)
Stopped ==
  /\ \/ run = "stopping" /\ file = NoFile /\ run' = "down"
     \/ run = "close" /\ run' = "drained"
  /\ \/ ShutDown /\ UNCHANGED faults
     \/ store = "open" /\ Fault /\ Abandoned /\ active' = << >>
  /\ store' = "none"
  /\ UNCHANGED <<allowed, storing, stored, todo, rp, mapping, file, endVars>>

(* Or it is to drain what is left: twice all segments, with a flush in between. *)
Drain ==
  /\ run = "stopping" /\ file = NoFile
  /\ run' = "drain1"
  /\ UNCHANGED <<allowed, storeVars, disk, todo, rp, mapping, file, endVars, faults>>

(* send_hints_maybe() returns when it is done, when it may not send or when it threw. *)
PassEnds ==
  /\ \/ run = "drain1" /\ run' = "flush"
     \/ run = "drain2" /\ run' = "close"
  /\ \/ /\ file = NoFile /\ todo = 0
        /\ UNCHANGED <<cut, faults>>
     \/ /\ file = NoFile /\ todo # 0 /\ ~allowed
        /\ cut' = cut \cup {"replay"} /\ UNCHANGED faults
     \/ /\ (file = NoFile /\ todo # 0 /\ allowed) \/ Complete
        /\ cut' = cut \cup {"exception"} /\ Fault
  /\ file' = NoFile
  /\ UNCHANGED <<allowed, storeVars, disk, todo, rp, mapping, ep, applied, dropped, unmapped>>

(* Mutant: the hints in memory are not flushed in between. *)
DrainUnflushed ==
  /\ run = "flush" /\ run' = "drain2"
  /\ UNCHANGED <<allowed, storeVars, disk, todo, rp, mapping, file, endVars, faults>>

(* A failure of the flush is ignored; without a store there is no flush. *)
DrainFlush ==
  /\ run = "flush" /\ run' = "drain2"
  /\ \/ Flushed /\ UNCHANGED cut
     \/ FlushFails /\ cut' = cut \cup {"flush"}
     \/ /\ store = "none" /\ cut' = cut \cup {"flush"}
        /\ UNCHANGED <<storeVars, disk, todo, faults>>
  /\ UNCHANGED <<allowed, rp, mapping, file, ep, applied, dropped, unmapped>>

Crash ==
  /\ run \notin {"down", "drained"} /\ Fault
  /\ run' = "down"
  /\ Abandoned
  /\ store' = "none" /\ storing' = 0 /\ active' = << >> /\ file' = NoFile
  /\ UNCHANGED <<allowed, stored, todo, rp, mapping, endVars>>

(* start(): populate_segments_to_replay() *)
Restart ==
  /\ run = "down"
  /\ run' = "up" /\ allowed' = FALSE
  /\ store' = "open" /\ todo' = Len(disk)
  /\ rp' = Start /\ mapping' = FALSE /\ cut' = {}
  /\ UNCHANGED <<storing, stored, active, disk, file, ep, applied, dropped, unmapped, faults>>

(* The gossiper's view of the endpoint. *)
EndpointDown ==
  /\ ep = "alive" /\ Fault
  /\ ep' \in {"dead", "left"}
  /\ UNCHANGED <<run, allowed, storeVars, disk, todo, rp, mapping, file, applied, dropped,
                 unmapped, cut>>

EndpointUp ==
  /\ ep = "dead"
  /\ ep' \in {"alive", "left"}
  /\ UNCHANGED <<run, allowed, storeVars, disk, todo, rp, mapping, file, applied, dropped,
                 unmapped, cut, faults>>

Sending ==
  \/ FlushMaybe \/ SendOneFile \/ Skip \/ CannotSend \/ SendOneHint
  \/ \E i \in Hint : Sent(i) \/ SendFailed(i)
  \/ EndOfFile \/ ReadFails \/ FileFailed \/ FileDone \/ DeleteFails

Next ==
  \/ StoreHint \/ AddEntry
  \/ Sending
  \/ AllowReplaying \/ Stop \/ Stopped \/ Drain \/ PassEnds \/ DrainFlush \/ Crash \/ Restart
  \/ EndpointDown \/ EndpointUp

Spec == Init /\ [][Next]_vars

(* The sender's thread goes on until it sleeps, and wakes up again; the node is started *)
(* again and lets the replay begin; an endpoint that is down comes back or leaves.      *)
FairSpec ==
  /\ Spec
  /\ WF_vars(Sending) /\ WF_vars(AllowReplaying)
  /\ WF_vars(Stopped \/ Drain \/ PassEnds \/ DrainFlush) /\ WF_vars(Restart) /\ WF_vars(EndpointUp)

----------------------------------------------------------------------------
Segment == [hints : Seq(Hint) \ {<< >>}, torn : BOOLEAN]
File == [cursor : Nat \ {0}, rps : SUBSET Nat, flight : SUBSET Nat,
         failed : BOOLEAN, restart : BOOLEAN, over : BOOLEAN]

(* The types of the variables, and where the cursor and the positions of a file are. *)
TypeOK ==
  /\ run \in {"down", "up", "stopping", "drain1", "flush", "drain2", "close", "drained"}
  /\ allowed \in BOOLEAN /\ mapping \in BOOLEAN
  /\ store \in {"none", "open", "failed"}
  /\ storing \in Nat /\ stored \in Nat /\ stored + storing <= MaxHints
  /\ active \in Seq(Hint) /\ disk \in Seq(Segment)
  /\ todo \in 0 .. Len(disk)
  /\ rp \in Nat \ {0} /\ (rp # Start => disk # << >> /\ rp <= Len(disk[1].hints))
  /\ file \in File \cup {NoFile}
  /\ file # NoFile =>
       /\ todo # 0
       /\ file.cursor <= Len(disk[1].hints) + 1
       /\ file.flight \subseteq file.rps /\ file.rps \subseteq 1 .. file.cursor - 1
  /\ ep \in {"alive", "dead", "left"}
  /\ applied \subseteq Hint /\ dropped \subseteq Hint /\ unmapped \subseteq Hint
  /\ cut \subseteq {"replay", "exception", "flush"} /\ faults \in Nat

(* A hint that is on disk in a closed segment leaves it only if it was sent, or given up *)
(* for a reason the code has: it is too old or its table is gone, its file is corrupted, *)
(* or its endpoint is drained.  This is what rps_set and _last_not_complete_rp are for:  *)
(* sends fail and succeed in any order, and a file is sent in several attempts.          *)
NoHintForgotten ==
  [][\A h \in OnDisk \ OnDisk' : h \in applied \cup dropped' \cup unmapped]_vars

(* No hint is discarded for want of its column mapping, although the mapping is stored  *)
(* with the first hint of the segment only and an attempt may begin after it.  Only a   *)
(* drain, which goes on after a failure, may do so (get_column_mapping()).              *)
MappingsAreFound == [][unmapped' = unmapped \/ Draining]_vars

(* A drain leaves nothing behind, neither in memory nor on disk ("when it is done there is *)
(* going to be no more pending hints", sender::stop()), unless one of its passes threw or  *)
(* found that replay is not allowed yet, or there was no store to flush or flushing it     *)
(* failed.  It begins with files half sent and hints in memory, and a flush in the first   *)
(* pass closes segments that are not listed.                                               *)
DrainIsComplete == run = "drained" /\ cut = {} => disk = << >> /\ active = << >>

(* Every hint in a closed segment is sent or given up in the end, whatever fails, crashes *)
(* or is restarted on the way, unless a drain left it, or the store could not be created  *)
(* again after a flush and no hint comes to create it: nothing lists the segment then.    *)
HintsAreSent ==
  \A h \in Hint :
    h \in OnDisk ~> h \notin OnDisk \/ run = "drained" \/ [](store = "none" /\ todo = 0)

----------------------------------------------------------------------------
(* The inductive invariant behind NoHintForgotten, MappingsAreFound and    *)
(* DrainIsComplete.                                                        *)

(* The hint at an index of the first segment need not be sent any more. *)
Done(i) == disk[1].hints[i] \in applied \cup dropped \cup unmapped

(* What comes before the position where a file is resumed is done.  Before the cursor   *)
(* everything is done or in flight until something fails.  After a failure, whatever is *)
(* neither done nor in rps_set lies behind all of rps_set: the smallest of rps_set is a *)
(* safe position to resume at.                                                          *)
SentInv ==
  /\ \A i \in 1 .. rp - 1 : Done(i)
  /\ file # NoFile /\ ~file.failed /\ (file.over => ~disk[1].torn) =>
       \A i \in 1 .. file.cursor - 1 : Done(i) \/ i \in file.flight
  /\ file # NoFile /\ ~file.restart /\ ~Draining =>
       \A i \in 1 .. file.cursor - 1 : Done(i) \/ i \in file.rps \/ \A j \in file.rps : j < i

(* The mapping is there once the first hint was read, and as long as the file may be *)
(* resumed after it; a file that did not fail was read to its end.                   *)
MappingInv ==
  /\ rp # Start => mapping
  /\ file # NoFile /\ file.cursor > 1 /\ ~file.failed /\ ~file.over => mapping
  /\ file # NoFile /\ file.rps # {} /\ ~Draining => mapping
  /\ file # NoFile /\ file.over /\ ~file.failed => file.cursor > Len(disk[1].hints)

(* No hint is stored once the manager stops.  If nothing cuts the drain short, its first *)
(* pass empties the list, so that the flush lists all there is for the second.           *)
DrainInv ==
  /\ run \notin {"up", "down"} => storing = 0
  /\ run \in {"down", "flush", "close", "drained"} => file = NoFile
  /\ run = "flush" /\ cut = {} => todo = 0
  /\ run = "drain2" /\ cut = {} => active = << >> /\ todo = Len(disk)
  /\ run = "close" /\ cut = {} => active = << >> /\ disk = << >>
  /\ DrainIsComplete

HintsInv == TypeOK /\ SentInv /\ MappingInv /\ DrainInv
=============================================================================
