------------------------------ MODULE LwtPaxos ------------------------------
(***************************************************************************)
(* Lightweight transactions of one partition key: the Paxos protocol of    *)
(* storage_proxy::cas() and do_query_with_paxos() (service/storage_proxy)  *)
(* against the replicas of service/paxos/paxos_state, whose state is one   *)
(* row of the table system.paxos (db/system_keyspace).                     *)
(*                                                                         *)
(* What is abstracted.  An update (a frozen_mutation) is identified by the *)
(* ballot under which it was first proposed; its write timestamp is the    *)
(* timestamp of that ballot.  The base table is one register per replica,  *)
(* holding the update that wins the timestamp merge.  The condition of a   *)
(* CAS is met or not, nondeterministically; a serial read is a CAS whose   *)
(* condition is not met.  Requests are never removed from net: a lost one  *)
(* is one that nobody handles, a late one is handled later.  An answer goes*)
(* to the coordinator if it still waits for it, and is dropped otherwise;  *)
(* one that is lost or late is one that the coordinator does not count.    *)
(***************************************************************************)
EXTENDS Naturals, FiniteSets

CONSTANTS
  Natural,        \* natural endpoints of the key
  Pending,        \* endpoints that are being added to the replica set
  Coordinators,   \* shards that coordinate requests for the key
  Views,          \* sets of participants the failure detector may report alive
  Nonces,         \* values of the random half of a ballot UUID
  MaxTs,          \* bound on the timestamp half of a ballot UUID
  LearnBlockFor   \* acks that cl_for_learn waits for

ASSUME LwtAssumption ==
  /\ IsFiniteSet(Natural) /\ Natural # {}
  /\ IsFiniteSet(Pending) /\ Cardinality(Pending) <= 1
  /\ Natural \cap Pending = {}
  /\ Views \subseteq SUBSET (Natural \cup Pending)
  /\ Nonces \subseteq Nat \ {0}
  /\ MaxTs \in Nat
  /\ LearnBlockFor \in Nat

Participants == Natural \cup Pending

\* A slip: the pending endpoint is forgotten.
RequiredWithoutPending == Cardinality(Natural) \div 2 + 1

\* get_paxos_participants(): a quorum of the natural endpoints, plus every
\* pending endpoint.
RequiredParticipants == Cardinality(Natural) \div 2 + 1 + Cardinality(Pending)

\* The replicas a read at consistency level QUORUM waits for.
ReadBlockFor == Cardinality(Natural) \div 2 + 1

-----------------------------------------------------------------------------
(* Ballots, cells and the paxos row.                                       *)

Ballot   == [ts : 1..MaxTs, nonce : Nonces]
NoBallot == [ts |-> 0, nonce |-> 0]        \* UUID_gen::min_time_UUID(0)
Ballot0  == Ballot \cup {NoBallot}

\* A proposal: the ballot it is made under, and the update (the ballot the
\* update was first proposed under).
Proposal   == [ballot : Ballot, upd : Ballot]
NoProposal == [ballot |-> NoBallot, upd |-> NoBallot]
Proposal0  == Proposal \cup {NoProposal}

\* compare_atomic_cell_for_merge() on two live cells: the greater timestamp
\* wins, and on a tie the greater value.  The cells of an update carry the
\* timestamp of the ballot that identifies it, those of a ballot its own.
Newer(u, v) ==
  IF u.ts # v.ts THEN IF u.ts > v.ts THEN u ELSE v
  ELSE IF u.nonce > v.nonce THEN u ELSE v

NewerProposal(p, q) == IF q.ballot.ts > p.ballot.ts THEN q ELSE p

\* The row of the key in system.paxos.  The columns proposal_ballot and proposal
\* are always written together, with the timestamp of one ballot, and so are
\* most_recent_commit_at and most_recent_commit.
PaxosRow == [in_progress_ballot : Ballot0,
             proposal           : Proposal0,
             most_recent_commit : Proposal0]

EmptyRow == [in_progress_ballot |-> NoBallot,
             proposal           |-> NoProposal,
             most_recent_commit |-> NoProposal]

\* The timestamp of the tombstones that save_paxos_decision() wrote over the
\* proposal.  A tombstone wins over a cell with the same timestamp.
ErasedAt(row) == row.most_recent_commit.ballot.ts

save_paxos_promise(row, b) ==
  [row EXCEPT !.in_progress_ballot = Newer(@, b)]

\* A slip: the columns are overwritten whatever their timestamp.
OverwriteProposal(row, p) == [row EXCEPT !.proposal = p]

save_paxos_proposal(row, p) ==
  [row EXCEPT !.proposal =
     IF p.ballot.ts > ErasedAt(row) THEN NewerProposal(@, p) ELSE @]

save_paxos_decision(row, p) ==
  [row EXCEPT
     !.most_recent_commit = NewerProposal(@, p),
     !.proposal = IF @.ballot.ts > p.ballot.ts THEN @ ELSE NoProposal]

-----------------------------------------------------------------------------
VARIABLES
  paxos,     \* paxos[a]: the row of system.paxos
  data,      \* data[a]: the update that the base table shows
  loaded,    \* loaded[a]: the prepare holding the key's lock, and what it read
  net,       \* the requests sent
  co,        \* co[c]: the request that holds the coordinator lock of the key
  promises,  \* history; promises[b]: the replicas that promised ballot b
  votes,     \* history; votes[b]: the replicas that accepted under ballot b
  base,      \* history; base[u]: the row that the update u was computed from
  seen,      \* history; the newest update a completed request returned or wrote
  refused    \* history; updates that accept_proposal() reported fully rejected

vars == <<paxos, data, loaded, net, co, promises, votes, base, seen, refused>>

NoLoad == [ballot |-> NoBallot, accepted |-> NoProposal, commit |-> NoProposal]
Load   == [ballot : Ballot0, accepted : Proposal0, commit : Proposal0]

\* What a coordinator sends to each of the replicas in to.
Message ==
       [type : {"prepare"}, ballot : Ballot, to : SUBSET Participants]
  \cup [type : {"accept", "learn"}, ballot : Ballot, upd : Ballot,
        to : SUBSET Participants]
  \cup [type : {"repair"}, upd : Ballot, to : SUBSET Participants]

AnswerMsg ==
       [type : {"promise"}, from : Participants,
        accepted : Proposal0, commit : Proposal0, row : Ballot0]
  \cup [type : {"outdated"}, from : Participants, promised : Ballot0]
  \cup [type : {"accepted", "rejected", "learned"}, from : Participants]

\* "ballot": at the head of the loop of begin_and_repair_paxos(); "read": in
\* the QUORUM read; "replay" and "relearn": finishing a round that somebody
\* else left; "done": answered, with value.
Stages == {"idle", "ballot", "prepare", "read", "accept", "replay",
           "learn", "relearn", "done"}

\* A paxos_response_handler and the locals of its continuations.
Request ==
  [pc      : Stages,
   live    : SUBSET Participants,   \* _live_endpoints
   floor   : Ballot0,               \* history; seen when the request began
   ballot  : Ballot0,
   min_ts  : 0..MaxTs + 1,          \* min_timestamp_micros_to_use
   answers : SUBSET AnswerMsg,      \* the answers of this stage
   readers : SUBSET Participants,   \* the replicas that answered the read
   upd     : Ballot0,               \* the update being proposed
   value   : Ballot0]               \* the row the condition is evaluated on

Idle ==
  [pc |-> "idle", live |-> {}, floor |-> NoBallot, ballot |-> NoBallot,
   min_ts |-> 0, answers |-> {}, readers |-> {}, upd |-> NoBallot,
   value |-> NoBallot]

Init ==
  /\ paxos   = [a \in Participants |-> EmptyRow]
  /\ data    = [a \in Participants |-> NoBallot]
  /\ loaded  = [a \in Participants |-> NoLoad]
  /\ net     = {}
  /\ co      = [c \in Coordinators |-> Idle]
  /\ promises = [b \in Ballot |-> {}]
  /\ votes   = [b \in Ballot |-> {}]
  /\ base    = [u \in Ballot |-> NoBallot]
  /\ seen    = NoBallot
  /\ refused = {}

-----------------------------------------------------------------------------
(* Replicas: service/paxos/paxos_state.cc.                                 *)

\* An answer about ballot b reaches its coordinator.
Respond(b, stages, answer) ==
  co' = [c \in Coordinators |->
           IF co[c].ballot = b /\ co[c].pc \in stages
           THEN [co[c] EXCEPT !.answers = @ \cup {answer}]
           ELSE co[c]]

\* The coordinator of ballot b has an answer of these types from replica a.
Heard(a, b, types) ==
  \E c \in Coordinators :
    co[c].ballot = b /\ \E m \in co[c].answers : m.from = a /\ m.type \in types

\* A slip: a ballot with the promised timestamp is promised too.
PromisesTies(b, promised) == b.ts >= promised.ts

\* The condition of paxos_state::prepare().
Promises(b, promised) == b.ts > promised.ts

\* The condition of paxos_state::accept().
Accepts(b, promised) == b = promised \/ b.ts > promised.ts

\* paxos_state::prepare(), up to load_paxos_state(): the key's lock is taken
\* and the row is read; a ballot that is not newer than the promised one is
\* answered with the promised ballot.
PrepareLoad(a, m) ==
  /\ m.type = "prepare" /\ a \in m.to
  /\ loaded[a] = NoLoad
  /\ ~Heard(a, m.ballot, {"promise", "outdated"})
  /\ LET promised == paxos[a].in_progress_ballot IN
     IF Promises(m.ballot, promised)
     THEN /\ loaded' = [loaded EXCEPT ![a] =
                          [ballot   |-> m.ballot,
                           accepted |-> paxos[a].proposal,
                           commit   |-> paxos[a].most_recent_commit]]
          /\ UNCHANGED co
     ELSE /\ Respond(m.ballot, {"prepare"},
                     [type |-> "outdated", from |-> a, promised |-> promised])
          /\ UNCHANGED loaded
  /\ UNCHANGED <<paxos, data, promises, votes>>

\* paxos_state::prepare(), the rest: the promise is saved while the base table
\* is queried; the answer holds the proposals read before and the row read
\* now.  learn() does not take the lock and may come in between.
PreparePromise(a) ==
  LET l == loaded[a] IN
  /\ l # NoLoad
  /\ paxos' = [paxos EXCEPT ![a] = save_paxos_promise(@, l.ballot)]
  /\ loaded' = [loaded EXCEPT ![a] = NoLoad]
  /\ Respond(l.ballot, {"prepare"},
             [type |-> "promise", from |-> a, accepted |-> l.accepted,
              commit |-> l.commit, row |-> data[a]])
  /\ promises' = [promises EXCEPT ![l.ballot] = @ \cup {a}]
  /\ UNCHANGED <<data, votes>>

\* paxos_state::accept().  The lock is held throughout and learn() does not
\* write the promised ballot, so reading and saving are one step.
Accept(a, m) ==
  /\ m.type = "accept" /\ a \in m.to
  /\ loaded[a] = NoLoad
  /\ a \notin votes[m.ballot] /\ ~Heard(a, m.ballot, {"rejected"})
  /\ LET promised == paxos[a].in_progress_ballot IN
     IF Accepts(m.ballot, promised)
     THEN /\ paxos' = [paxos EXCEPT ![a] =
                 save_paxos_proposal(@, [ballot |-> m.ballot, upd |-> m.upd])]
          /\ votes' = [votes EXCEPT ![m.ballot] = @ \cup {a}]
          /\ Respond(m.ballot, {"accept", "replay"},
                     [type |-> "accepted", from |-> a])
     ELSE /\ Respond(m.ballot, {"accept", "replay"},
                     [type |-> "rejected", from |-> a])
          /\ UNCHANGED <<paxos, votes>>
  /\ UNCHANGED <<data, loaded, promises>>

\* paxos_state::learn(): the decision is applied to the base table ...
LearnApply(a, m) ==
  /\ m.type = "learn" /\ a \in m.to
  /\ data[a] # Newer(data[a], m.upd)
  /\ data' = [data EXCEPT ![a] = Newer(@, m.upd)]
  /\ UNCHANGED <<paxos, loaded, promises, votes, co>>

\* A slip: the decision is saved without waiting for the base table.
LearnSaveFirst(a, m) ==
  /\ m.type = "learn" /\ a \in m.to
  /\ paxos' = [paxos EXCEPT ![a] =
                 save_paxos_decision(@, [ballot |-> m.ballot, upd |-> m.upd])]
  /\ Respond(m.ballot, {"learn", "relearn"}, [type |-> "learned", from |-> a])
  /\ UNCHANGED <<data, loaded, promises, votes>>

\* ... and, once the table holds it, saved in system.paxos.  A replica that
\* stops in between is one that does not take this step.
LearnSave(a, m) ==
  /\ m.type = "learn" /\ a \in m.to
  /\ data[a] = Newer(data[a], m.upd)
  /\ paxos' = [paxos EXCEPT ![a] =
                 save_paxos_decision(@, [ballot |-> m.ballot, upd |-> m.upd])]
  /\ Respond(m.ballot, {"learn", "relearn"}, [type |-> "learned", from |-> a])
  /\ UNCHANGED <<data, loaded, promises, votes>>

\* A write of the read repair that a QUORUM read with mismatching replies does.
ReadRepair(a, m) ==
  /\ m.type = "repair" /\ a \in m.to
  /\ data' = [data EXCEPT ![a] = Newer(@, m.upd)]
  /\ UNCHANGED <<paxos, loaded, promises, votes, co>>

\* A replica stops and comes back: the prepare it was handling is lost; what was
\* written (with force_sync, or to a table that waits for the commit log) is not.
ReplicaRestart(a) ==
  /\ loaded[a] # NoLoad
  /\ loaded' = [loaded EXCEPT ![a] = NoLoad]
  /\ UNCHANGED <<paxos, data, promises, votes, co>>

Replica(a) ==
  \/ \E m \in net : \/ PrepareLoad(a, m)
                    \/ Accept(a, m)
                    \/ LearnApply(a, m)
                    \/ LearnSave(a, m)
                    \/ ReadRepair(a, m)
  \/ PreparePromise(a)
  \/ ReplicaRestart(a)

-----------------------------------------------------------------------------
(* Coordinators: cas(), do_query_with_paxos() and paxos_response_handler   *)
(* in service/storage_proxy.cc.                                            *)

\* Ballots that no coordinator has used: the random half makes each unique.
FreshBallots ==
  {b \in Ballot : ~\E m \in net : m.type = "prepare" /\ m.ballot = b}

\* A request is given its participants, of which enough must be alive, and
\* takes the coordinator lock of the key.
Begin(c, alive) ==
  /\ co[c].pc \in {"idle", "done"}
  /\ Cardinality(alive) >= RequiredParticipants
  /\ FreshBallots # {}   \* the bound MaxTs
  /\ co' = [co EXCEPT ![c] =
              [Idle EXCEPT !.pc = "ballot", !.live = alive, !.floor = seen]]
  /\ UNCHANGED <<net, base, seen, refused>>

\* client_state::get_timestamp_for_paxos(), for a reading now of the clock.  The
\* last timestamp returned is shared by all requests of the shard and is lost at
\* a restart: at the start of a request it is arbitrary, which is the same as an
\* arbitrary clock, and only its growth during the request is kept.
TimestampForPaxos(last, min, now) ==
  LET current == IF now > min THEN now ELSE min IN
  IF last >= current THEN last + 1 ELSE current

\* The head of the loop of begin_and_repair_paxos(): a new ballot, which its
\* random half makes unique, is sent to the live participants.
PrepareBallot(c, now, nonce) ==
  LET ts == TimestampForPaxos(co[c].ballot.ts, co[c].min_ts, now)
      b  == [ts |-> ts, nonce |-> nonce]
  IN
  /\ co[c].pc = "ballot"
  /\ b \in FreshBallots
  /\ co' = [co EXCEPT ![c].pc = "prepare", ![c].ballot = b,
                      ![c].answers = {}]
  /\ net' = net \cup {[type |-> "prepare", ballot |-> b, to |-> co[c].live]}
  /\ UNCHANGED <<base, seen, refused>>

\* The request fails, its effect unknown: the contention timeout at the head of
\* the loop, or a timeout or too many errors in any stage.  When no ballot is
\* left for another request, one that fails is one that takes no further step.
Fail(c) ==
  /\ co[c].pc \notin {"idle", "done"}
  /\ FreshBallots # {}   \* the bound MaxTs
  /\ co' = [co EXCEPT ![c] = Idle]
  /\ UNCHANGED <<net, base, seen, refused>>

\* The request is answered, and its client knows of the update v.
Answer(c, v) ==
  /\ co' = [co EXCEPT ![c] = [Idle EXCEPT !.pc = "done", !.floor = co[c].floor,
                                          !.value = v]]
  /\ seen' = Newer(seen, v)

\* accept_proposal(): the proposal is sent to the live participants.
Propose(c, u, stage, min) ==
  co' = [co EXCEPT ![c].pc = stage, ![c].upd = u, ![c].min_ts = min,
                   ![c].value = NoBallot, ![c].readers = {},
                   ![c].answers = {}]

AcceptRequests(c, u) ==
  {[type |-> "accept", ballot |-> co[c].ballot, upd |-> u, to |-> co[c].live]}

\* mutate_internal() on a cas_mutation.
LearnRequests(p, to) ==
  {[type |-> "learn", ballot |-> p.ballot, upd |-> p.upd, to |-> to]}

\* The writes of read repair.  reconcile() answers when enough of them are done; here
\* it does not wait for them, which allows more.
RepairRequests(v, to) ==
  IF to = {} THEN {} ELSE {[type |-> "repair", upd |-> v, to |-> to]}

\* What follows the read of the row v, which sent the messages of repairs.  A
\* read, or a write whose condition is not met, is answered; otherwise the
\* write proposes its update.
Evaluate(c, v, repairs) ==
  \/ /\ Answer(c, v)
     /\ net' = net \cup repairs
     /\ UNCHANGED <<base, refused>>
  \/ /\ Propose(c, co[c].ballot, "accept", 0)
     /\ net' = net \cup repairs \cup AcceptRequests(c, co[c].ballot)
     /\ base' = [base EXCEPT ![co[c].ballot] = v]
     /\ UNCHANGED <<seen, refused>>

\* prepare_summary: the newest of the proposals in a set of answers; which of
\* two with the same timestamp depends on the order of arrival.
Newest(S) ==
  {p \in S : \A q \in S : p.ballot.ts >= q.ballot.ts}

\* A slip: any decision hides a proposal in progress.
InProgressOnlyFirst(acc, mrc) == acc # NoProposal /\ mrc = NoProposal

\* An accepted proposal that is newer than the most recent commit.
InProgress(acc, mrc) == acc # NoProposal /\ acc.ballot.ts > mrc.ballot.ts

\* A slip: one too many.
MinTimestampPlusTwo(acc) == acc.ballot.ts + 2

\* min_timestamp_micros_to_use after a quorum of promises.
MinTimestampToUse(acc) == acc.ballot.ts + 1

\* A slip: nobody is repaired.
NobodyMissing(S, mrc) == {}

\* prepare_summary::replicas_missing_most_recent_commit().
ReplicasMissingMostRecentCommit(S, mrc) ==
  IF mrc = NoProposal THEN {}
  ELSE {m.from : m \in {n \in S : n.commit.ballot # mrc.ballot}}

\* The rest of the loop of begin_and_repair_paxos(), once the answers S are a
\* quorum of promises: finish the round in progress, or repair the replicas
\* that missed the last decision and start over, or go on with the request.
\* The row comes with the answers when they agree and the closest replica,
\* which alone sends more than a digest, is among them; otherwise it is read.
Prepared(c, S) ==
  \E acc \in Newest({m.accepted : m \in S}),
     mrc \in Newest({m.commit : m \in S}) :
    LET min     == MinTimestampToUse(acc)
        missing == ReplicasMissingMostRecentCommit(S, mrc)
    IN
    \/ /\ InProgress(acc, mrc)
       /\ Propose(c, acc.upd, "replay", min)
       /\ net' = net \cup AcceptRequests(c, acc.upd)
       /\ UNCHANGED <<base, seen, refused>>
    \/ /\ ~InProgress(acc, mrc) /\ missing # {}
       /\ co' = [co EXCEPT ![c].pc = "ballot", ![c].min_ts = min,
                           ![c].answers = {}]
       /\ net' = net \cup LearnRequests(mrc, missing)
       /\ UNCHANGED <<base, seen, refused>>
    \/ /\ ~InProgress(acc, mrc) /\ missing = {}
       /\ \E v \in {m.row : m \in S} :
            /\ \A m \in S : m.row = v
            /\ Evaluate(c, v, {})
    \/ /\ ~InProgress(acc, mrc) /\ missing = {}
       /\ co' = [co EXCEPT ![c].pc = "read", ![c].answers = {}]
       /\ UNCHANGED <<net, base, seen, refused>>

AnsweredBy(c, type) == {m.from : m \in {n \in co[c].answers : n.type = type}}

\* prepare_ballot(): the first answers that are enough, all of them promises,
\* end the stage; later ones are ignored.
OnPromises(c, Q) ==
  /\ co[c].pc = "prepare"
  /\ Cardinality(Q) = RequiredParticipants
  /\ Q \subseteq AnsweredBy(c, "promise")
  /\ Prepared(c, {m \in co[c].answers : m.type = "promise" /\ m.from \in Q})

\* prepare_ballot(): a replica has promised a newer ballot and says which.
\* After a sleep the loop of begin_and_repair_paxos() is restarted.
OnOutdated(c, m) ==
  /\ co[c].pc = "prepare"
  /\ m.type = "outdated"
  /\ co' = [co EXCEPT ![c].pc = "ballot", ![c].answers = {}]
  /\ UNCHANGED <<net, base, seen, refused>>

\* The QUORUM read of the row: the answer of one replica is reconciled with the
\* earlier ones.  The last one that is needed ends the read, and a replica
\* that is behind is sent the reconciled row.
ReadReply(c, a) ==
  LET got   == co[c].readers \cup {a}
      v     == Newer(co[c].value, data[a])
      stale == {r \in got : Newer(data[r], v) # data[r]}
  IN
  /\ co[c].pc = "read"
  /\ a \in Natural \ co[c].readers
  /\ IF Cardinality(got) = ReadBlockFor
     THEN Evaluate(c, v, RepairRequests(v, stale))
     ELSE /\ co' = [co EXCEPT ![c].readers = got, ![c].value = v]
          /\ UNCHANGED <<net, base, seen, refused>>

\* Slips in accept_proposal(): an error is taken for a rejection when the
\* answers are complete, or for an acceptance.
ErrorsAreRejects(live, accepts, rejects, errors, partial) ==
  LET n == Cardinality(accepts)
      r == Cardinality(rejects \cup errors)
      l == Cardinality(live)
  IN
  IF n = RequiredParticipants THEN "true"
  ELSE IF RequiredParticipants + r > l /\ ~partial THEN "false"
  ELSE IF n + r < l THEN "wait"
  ELSE IF n = 0 THEN "false" ELSE "unknown"

ErrorsAreAccepts(live, accepts, rejects, errors, partial) ==
  LET n == Cardinality(accepts \cup errors)
      r == Cardinality(rejects)
      l == Cardinality(live)
  IN
  IF n = RequiredParticipants THEN "true"
  ELSE IF RequiredParticipants + r > l /\ ~partial THEN "false"
  ELSE IF n + r < l THEN "wait"
  ELSE IF n = 0 THEN "false" ELSE "unknown"

\* What accept_proposal() concludes from the answers so far: true, false, an
\* exception ("unknown"), or nothing yet.  partial is its parameter
\* timeout_if_partially_accepted.
AcceptVerdict(live, accepts, rejects, errors, partial) ==
  LET n == Cardinality(accepts)
      r == Cardinality(rejects)
      e == Cardinality(errors)
      l == Cardinality(live)
  IN
  IF n = RequiredParticipants THEN "true"
  ELSE IF RequiredParticipants + e > l THEN "unknown"
  ELSE IF RequiredParticipants + r + e > l /\ ~partial THEN "false"
  ELSE IF n + r + e < l THEN "wait"
  ELSE IF n = 0 /\ e = 0 THEN "false" ELSE "unknown"

\* accept_proposal() and its two callers, once the answers heard are enough for
\* a verdict and were not before the last of them.  An error, such as a closed
\* connection, says nothing: the replica may have accepted the proposal, or may
\* still do so.  A proposal accepted by a quorum is sent to be learned; one that
\* is not is retried from a new ballot.
OnAcceptReplies(c, accepts, rejects, errors) ==
  LET own     == co[c].pc = "accept"
      Verdict(A, R, E) == AcceptVerdict(co[c].live, A, R, E, own)
      verdict == Verdict(accepts, rejects, errors)
  IN
  /\ co[c].pc \in {"accept", "replay"}
  /\ verdict # "wait"
  /\ \E a \in accepts \cup rejects \cup errors :
       Verdict(accepts \ {a}, rejects \ {a}, errors \ {a}) = "wait"
  /\ \/ verdict = "unknown" /\ Fail(c)
     \/ /\ verdict = "true"
        /\ co' = [co EXCEPT ![c].pc = IF own THEN "learn" ELSE "relearn",
                            ![c].answers = {}]
        /\ net' = net \cup LearnRequests([ballot |-> co[c].ballot,
                                     upd |-> co[c].upd], Participants)
        /\ UNCHANGED <<base, seen, refused>>
     \/ /\ verdict = "false"
        /\ co' = [co EXCEPT ![c].pc = "ballot", ![c].upd = NoBallot,
                            ![c].answers = {},
                            ![c].min_ts = IF own THEN 0 ELSE @]
        /\ refused' = IF own THEN refused \cup {co[c].upd} ELSE refused
        /\ UNCHANGED <<net, base, seen>>

\* learn_decision(): enough replicas have learned the decision.
LearnDone(c) ==
  /\ co[c].pc \in {"learn", "relearn"}
  /\ Cardinality(AnsweredBy(c, "learned")) >= LearnBlockFor
  /\ IF co[c].pc = "learn"
     THEN Answer(c, co[c].upd)
     ELSE /\ co' = [co EXCEPT ![c].pc = "ballot", ![c].upd = NoBallot,
                              ![c].answers = {}]
          /\ UNCHANGED seen
  /\ UNCHANGED <<net, base, refused>>

Coordinator(c) ==
  \/ \E alive \in Views : Begin(c, alive)
  \/ \E now \in 1..MaxTs, nonce \in Nonces : PrepareBallot(c, now, nonce)
  \/ \E Q \in SUBSET co[c].live : OnPromises(c, Q)
  \/ \E m \in co[c].answers : OnOutdated(c, m)
  \/ \E a \in Participants : ReadReply(c, a)
  \/ \E accepts \in SUBSET AnsweredBy(c, "accepted"),
        rejects \in SUBSET AnsweredBy(c, "rejected") :
       \E errors \in SUBSET (co[c].live \ (accepts \cup rejects)) :
         OnAcceptReplies(c, accepts, rejects, errors)
  \/ LearnDone(c)
  \/ Fail(c)

\* A request stays in net after it was handled: handling it again, where that
\* could change something, is what handling it late would have done.
Next ==
  \/ \E a \in Participants :
       /\ Replica(a)
       /\ <<paxos, data, loaded, co>>' # <<paxos, data, loaded, co>>
       /\ UNCHANGED <<net, base, seen, refused>>
  \/ \E c \in Coordinators :
       Coordinator(c) /\ UNCHANGED <<paxos, data, loaded, promises, votes>>

Spec == Init /\ [][Next]_vars

-----------------------------------------------------------------------------
(* Properties.                                                             *)

\* Every row, message and request has its type, and what a request knows fits
\* its phase: a coordinator never proposes, learns or repairs without a ballot.
TypeOK ==
  /\ paxos \in [Participants -> PaxosRow]
  /\ data \in [Participants -> Ballot0]
  /\ loaded \in [Participants -> Load]
  /\ net \in SUBSET Message
  /\ co \in [Coordinators -> Request]
  /\ \A c \in Coordinators :
       /\ co[c].pc \notin {"idle", "ballot", "done"} => co[c].ballot \in Ballot
       /\ co[c].pc \in {"accept", "replay", "learn", "relearn"}
            => co[c].upd \in Ballot
  /\ promises \in [Ballot -> SUBSET Participants]
  /\ votes \in [Ballot -> SUBSET Participants]
  /\ base \in [Ballot -> Ballot0]
  /\ seen \in Ballot0
  /\ refused \in SUBSET Ballot

\* The updates that a quorum accepted under one ballot.
Chosen ==
  {m.upd : m \in {n \in net : /\ n.type = "accept"
                              /\ Cardinality(votes[n.ballot])
                                   >= RequiredParticipants}}

\* No lost update: an update that takes effect was computed from one that took
\* effect before it, and no two were computed from the same row.  This is what
\* the condition of a CAS is for: cas() proposes an update computed from a row
\* that no other update replaces before this one is chosen.
NoLostUpdate ==
  LET chosen == Chosen IN
  \A u \in chosen :
    /\ base[u] \in chosen \cup {NoBallot}
    /\ base[u].ts < u.ts
    /\ \A v \in chosen : base[u] = base[v] => u = v

\* Recency: the answer of cas() or do_query_with_paxos() is not older than any
\* update that was returned or acknowledged before the request began, whichever
\* coordinator handled it and whatever the clocks say.
AnswersAreCurrent ==
  \A c \in Coordinators :
    co[c].pc = "done" => Newer(co[c].value, co[c].floor) = co[c].value

\* No dirty read: what learn(), read repair and the repair of missing commits
\* leave in a base table, or in a row of system.paxos as decided, was accepted by
\* a quorum.
OnlyChosenIsVisible ==
  LET visible == Chosen \cup {NoBallot} IN
  \A a \in Participants : /\ data[a] \in visible
                          /\ paxos[a].most_recent_commit.upd \in visible

\* accept_proposal() returns false for an own proposal only when nobody will
\* ever replay it: cas() then proposes the update again under a new ballot.
RefusedNeverChosen == refused \cap Chosen = {}

\* save_paxos_decision() erases the accepted proposal.  A replica that accepted
\* under ballot b nevertheless keeps showing b, or something newer, to every
\* prepare: decisions that arrive late or out of order erase nothing newer, and
\* proposals that arrive after their decision come back only if they are newer.
AcceptedIsRemembered ==
  \A b \in Ballot : \A a \in votes[b] :
    \/ paxos[a].proposal.ballot.ts >= b.ts
    \/ paxos[a].most_recent_commit.ballot.ts >= b.ts

\* Two coordinators may draw the same timestamp.  Only one of them gets as far
\* as proposing: the cells of two proposals with one timestamp would be merged
\* by value, each column by itself.
OneProposalPerTimestamp ==
  \A m, n \in net :
    m.type = "accept" /\ n.type = "accept" /\ m.ballot.ts = n.ballot.ts
      => m.ballot = n.ballot /\ m.upd = n.upd
=============================================================================
