--------------------------- MODULE LwtPaxosProofs ---------------------------
(* Theorems about LwtPaxos, for any number of replicas and coordinators.   *)
EXTENDS LwtPaxos, FiniteSetTheorems, TLAPS

-----------------------------------------------------------------------------
(* Type correctness.                                                       *)

\* Merging two ballots yields one of them, with the greater timestamp.
LEMMA NewerType ==
  ASSUME NEW u \in Ballot0, NEW v \in Ballot0
  PROVE  /\ Newer(u, v) \in {u, v}
         /\ Newer(u, v).ts >= u.ts /\ Newer(u, v).ts >= v.ts
         /\ Newer(u, NoBallot) = u
BY LwtAssumption DEF Newer, Ballot0, Ballot, NoBallot

\* The components of a proposal, and when it is a real one.
LEMMA ProposalType ==
  ASSUME NEW p \in Proposal0
  PROVE  /\ p.ballot \in Ballot0 /\ p.upd \in Ballot0
         /\ p.ballot.ts \in 0..MaxTs
         /\ p # NoProposal => p \in Proposal /\ p.ballot \in Ballot /\ p.upd \in Ballot
BY LwtAssumption DEF Proposal0, Proposal, NoProposal, Ballot0, Ballot, NoBallot

\* The components of a message, by its type.
LEMMA MessageType ==
  ASSUME NEW m \in Message
  PROVE  /\ m.type = "prepare" => m.ballot \in Ballot
         /\ m.type \in {"accept", "learn"} => m.ballot \in Ballot /\ m.upd \in Ballot
         /\ m.type = "repair" => m.upd \in Ballot
BY Zenon DEF Message

\* What prepare_summary picks from answers of the right type.
LEMMA SummaryType ==
  ASSUME NEW S \in SUBSET AnswerMsg, \A m \in S : m.type = "promise"
  PROVE  /\ Newest({m.accepted : m \in S}) \subseteq Proposal0
         /\ Newest({m.commit : m \in S}) \subseteq Proposal0
         /\ {m.row : m \in S} \subseteq Ballot0
         /\ {m.from : m \in S} \subseteq Participants
<1>1. \A m \in S : /\ m.accepted \in Proposal0 /\ m.commit \in Proposal0
                   /\ m.row \in Ballot0 /\ m.from \in Participants
  BY Zenon DEF AnswerMsg
<1> QED
  BY Zenon, <1>1 DEF Newest

\* The rows, messages and requests of LwtPaxos have their types in every
\* reachable state: in particular a proposal is only ever made, accepted or
\* learned under a real ballot.
THEOREM TypeCorrect == Spec => []TypeOK
  \* What the writes to system.paxos keep.
<1>RowType.
    ASSUME NEW row \in PaxosRow, NEW b \in Ballot, NEW p \in Proposal
    PROVE  /\ save_paxos_promise(row, b) \in PaxosRow
           /\ save_paxos_proposal(row, p) \in PaxosRow
           /\ save_paxos_decision(row, p) \in PaxosRow
  BY Zenon, <1>RowType, NewerType DEF save_paxos_promise, save_paxos_proposal, save_paxos_decision,
       PaxosRow, NewerProposal, Proposal0, Ballot0
  \* An answer is added to requests without changing anything else of them.
<1>RespondType.
    ASSUME TypeOK, NEW b, NEW stages, NEW answer \in AnswerMsg,
           Respond(b, stages, answer)
    PROVE  /\ co' \in [Coordinators -> Request]
           /\ \A c \in Coordinators :
                /\ co'[c].pc = co[c].pc /\ co'[c].ballot = co[c].ballot
                /\ co'[c].upd = co[c].upd
  <2> USE <1>RespondType
  <2>1. co \in [Coordinators -> Request]
    BY Zenon DEF TypeOK
  <2> QED
    BY ZenonT(60), <2>1 DEF Respond, Request
  \* Each step of a replica keeps the types.
<1>ReplicaType.
    ASSUME TypeOK, NEW a \in Participants, Replica(a),
           UNCHANGED <<net, base, seen, refused>>
    PROVE  TypeOK'
  <2> USE <1>ReplicaType
  <2>1. CASE \E m \in net : PrepareLoad(a, m)
    <3>1. PICK m \in net : PrepareLoad(a, m)
      BY Zenon, <2>1
    <3>2. m.ballot \in Ballot /\ paxos[a] \in PaxosRow
      BY Zenon, <3>1, MessageType DEF TypeOK, PrepareLoad
    <3>3. CASE Promises(m.ballot, paxos[a].in_progress_ballot)
      <4> DEFINE load == [ballot |-> m.ballot, accepted |-> paxos[a].proposal,
                          commit |-> paxos[a].most_recent_commit]
      <4>1. load \in Load
        BY Zenon, <3>2 DEF PaxosRow, Load, Ballot0
      <4>2. loaded' = [loaded EXCEPT ![a] = load] /\ UNCHANGED <<co, paxos, data, promises, votes>>
        BY Zenon, <3>1, <3>3 DEF PrepareLoad
      <4> QED
        BY Zenon, <4>1, <4>2 DEF TypeOK
    <3>4. CASE ~Promises(m.ballot, paxos[a].in_progress_ballot)
      <4> DEFINE ans == [type |-> "outdated", from |-> a,
                         promised |-> paxos[a].in_progress_ballot]
      <4>1. ans \in AnswerMsg
        BY Zenon, <3>2 DEF AnswerMsg, PaxosRow
      <4>2. Respond(m.ballot, {"prepare"}, ans) /\ UNCHANGED <<loaded, paxos, data, promises, votes>>
        BY Zenon, <3>1, <3>4 DEF PrepareLoad
      <4> QED
        BY Zenon, <4>1, <4>2, <1>RespondType DEF TypeOK
    <3> QED
      BY Zenon, <3>3, <3>4
  <2>2. CASE PreparePromise(a)
    <3> DEFINE ans == [type |-> "promise", from |-> a,
                       accepted |-> loaded[a].accepted,
                       commit |-> loaded[a].commit, row |-> data[a]]
    <3>1. /\ loaded[a] \in Load /\ data[a] \in Ballot0 /\ paxos[a] \in PaxosRow
          /\ loaded[a] # NoLoad
      BY Zenon, <2>2 DEF TypeOK, PreparePromise
    <3>2. ans \in AnswerMsg
      BY Zenon, <3>1 DEF AnswerMsg, Load
    <3>3. Respond(loaded[a].ballot, {"prepare"}, ans)
      BY Zenon, <2>2 DEF PreparePromise
    <3>4. save_paxos_promise(paxos[a], loaded[a].ballot) \in PaxosRow
      BY Zenon, <3>1, NewerType DEF save_paxos_promise, PaxosRow, Load
    <3>5. NoLoad \in Load
      BY Zenon DEF NoLoad, Load, Ballot0, Proposal0
    <3> QED
      BY Zenon, <2>2, <3>2, <3>3, <3>4, <3>5, <1>RespondType DEF TypeOK, PreparePromise
  <2>3. CASE \E m \in net : Accept(a, m)
    <3>1. PICK m \in net : Accept(a, m)
      BY Zenon, <2>3
    <3>2. m.ballot \in Ballot /\ m.upd \in Ballot /\ paxos[a] \in PaxosRow
      BY Zenon, <3>1, MessageType DEF TypeOK, Accept
    <3> DEFINE p == [ballot |-> m.ballot, upd |-> m.upd]
               ans(t) == [type |-> t, from |-> a]
    <3>3. ans("accepted") \in AnswerMsg /\ ans("rejected") \in AnswerMsg
      BY Zenon DEF AnswerMsg
    <3>4. save_paxos_proposal(paxos[a], p) \in PaxosRow
      BY Zenon, <3>2, <1>RowType DEF Proposal
    <3>5. /\ \/ Respond(m.ballot, {"accept", "replay"}, ans("accepted"))
             \/ Respond(m.ballot, {"accept", "replay"}, ans("rejected"))
          /\ \/ paxos' = [paxos EXCEPT ![a] = save_paxos_proposal(paxos[a], p)]
             \/ paxos' = paxos
          /\ \/ votes' = [votes EXCEPT ![m.ballot] = votes[m.ballot] \cup {a}]
             \/ votes' = votes
          /\ UNCHANGED <<data, loaded, promises>>
      BY Zenon, <3>1 DEF Accept
    <3>6. co' \in [Coordinators -> Request] /\
          \A c \in Coordinators : /\ co'[c].pc = co[c].pc
                                  /\ co'[c].ballot = co[c].ballot
                                  /\ co'[c].upd = co[c].upd
      BY Zenon, <3>3, <3>5, <1>RespondType
    <3> QED
      BY SMTT(30), <3>2, <3>4, <3>5, <3>6 DEF TypeOK
  <2>4. CASE \E m \in net : LearnApply(a, m)
    <3>1. PICK m \in net : LearnApply(a, m)
      BY Zenon, <2>4
    <3>2. m \in Message /\ data[a] \in Ballot0
      BY Zenon DEF TypeOK
    <3>3. m.upd \in Ballot0
      BY Zenon, <3>1, <3>2, MessageType DEF LearnApply, Ballot0
    <3>4. Newer(data[a], m.upd) \in Ballot0
      BY Zenon, <3>2, <3>3, NewerType
    <3>5. /\ data' = [data EXCEPT ![a] = Newer(data[a], m.upd)]
          /\ UNCHANGED <<paxos, loaded, promises, votes, co>>
      BY Zenon, <3>1 DEF LearnApply
    <3>6. data' \in [Participants -> Ballot0]
      BY Zenon, <3>4, <3>5 DEF TypeOK
    <3> QED
      BY Zenon, <3>5, <3>6 DEF TypeOK
  <2>5. CASE \E m \in net : LearnSave(a, m)
    <3>1. PICK m \in net : LearnSave(a, m)
      BY Zenon, <2>5
    <3> DEFINE p == [ballot |-> m.ballot, upd |-> m.upd]
               ans == [type |-> "learned", from |-> a]
    <3>2. save_paxos_decision(paxos[a], p) \in PaxosRow
      BY Zenon, <3>1, MessageType, <1>RowType DEF TypeOK, LearnSave, Proposal
    <3>3. ans \in AnswerMsg
      BY Zenon DEF AnswerMsg
    <3>4. Respond(m.ballot, {"learn", "relearn"}, ans)
      BY Zenon, <3>1 DEF LearnSave
    <3> QED
      BY Zenon, <3>1, <3>2, <3>3, <3>4, <1>RespondType DEF TypeOK, LearnSave
  <2>6. CASE \E m \in net : ReadRepair(a, m)
    <3>1. PICK m \in net : ReadRepair(a, m)
      BY Zenon, <2>6
    <3>2. m \in Message /\ data[a] \in Ballot0
      BY Zenon DEF TypeOK
    <3>3. m.upd \in Ballot0
      BY Zenon, <3>1, <3>2, MessageType DEF ReadRepair, Ballot0
    <3>4. Newer(data[a], m.upd) \in Ballot0
      BY Zenon, <3>2, <3>3, NewerType
    <3>5. /\ data' = [data EXCEPT ![a] = Newer(data[a], m.upd)]
          /\ UNCHANGED <<paxos, loaded, promises, votes, co>>
      BY Zenon, <3>1 DEF ReadRepair
    <3>6. data' \in [Participants -> Ballot0]
      BY Zenon, <3>4, <3>5 DEF TypeOK
    <3> QED
      BY Zenon, <3>5, <3>6 DEF TypeOK
  <2>7. CASE ReplicaRestart(a)
    <3>1. NoLoad \in Load
      BY Zenon DEF NoLoad, Load, Ballot0, Proposal0
    <3> QED
      BY Zenon, <2>7, <3>1 DEF TypeOK, ReplicaRestart
  <2> QED
    BY Zenon, <2>1, <2>2, <2>3, <2>4, <2>5, <2>6, <2>7 DEF Replica
  \* The messages a coordinator sends.
<1>SentType.
    ASSUME TypeOK, NEW c \in Coordinators
    PROVE  /\ \A u \in Ballot : co[c].ballot \in Ballot
                => AcceptRequests(c, u) \subseteq Message
           /\ \A p \in Proposal, to \in SUBSET Participants :
                LearnRequests(p, to) \subseteq Message
  BY <1>SentType DEF TypeOK, AcceptRequests, LearnRequests, Message, Request, Proposal
  \* The initial request.
<1>IdleType.
    Idle \in Request
  BY LwtAssumption DEF Idle, Request, Stages, Ballot0
  \* Only the request of c changes.
<1>CoType.
    ASSUME TypeOK, NEW c \in Coordinators, NEW r \in Request,
           co' = [co EXCEPT ![c] = r],
           r.pc \notin {"idle", "ballot", "done"} => r.ballot \in Ballot,
           r.pc \in {"accept", "replay", "learn", "relearn"} => r.upd \in Ballot
    PROVE  /\ co' \in [Coordinators -> Request]
           /\ \A d \in Coordinators :
                /\ co'[d].pc \notin {"idle", "ballot", "done"}
                     => co'[d].ballot \in Ballot
                /\ co'[d].pc \in {"accept", "replay", "learn", "relearn"}
                     => co'[d].upd \in Ballot
  BY Zenon, <1>CoType DEF TypeOK
  \* The request after an answer, or after a proposal.
<1>AnswerType.
    ASSUME TypeOK, NEW c \in Coordinators, NEW v \in Ballot0, Answer(c, v)
    PROVE  /\ co' \in [Coordinators -> Request]
           /\ \A d \in Coordinators :
                /\ co'[d].pc \notin {"idle", "ballot", "done"}
                     => co'[d].ballot \in Ballot
                /\ co'[d].pc \in {"accept", "replay", "learn", "relearn"}
                     => co'[d].upd \in Ballot
           /\ seen' \in Ballot0
  <2> USE <1>AnswerType
  <2> DEFINE r == [Idle EXCEPT !.pc = "done", !.floor = co[c].floor, !.value = v]
  <2>1. r \in Request /\ r.pc = "done"
    BY Zenon, <1>IdleType DEF TypeOK, Request, Stages, Idle
  <2>2. co' = [co EXCEPT ![c] = r] /\ seen' = Newer(seen, v)
    BY Zenon DEF Answer
  <2>3. seen' \in Ballot0
    BY Zenon, <2>2, NewerType DEF TypeOK
  <2> HIDE DEF r
  <2> QED
    BY Zenon, <2>1, <2>2, <2>3, <1>CoType
  \* propose() after a successful prepare.
<1>ProposeType.
    ASSUME TypeOK, NEW c \in Coordinators, NEW u \in Ballot,
           NEW stage \in {"accept", "replay"}, NEW min \in 0..MaxTs + 1,
           co[c].ballot \in Ballot, Propose(c, u, stage, min)
    PROVE  /\ co' \in [Coordinators -> Request]
           /\ \A d \in Coordinators :
                /\ co'[d].pc \notin {"idle", "ballot", "done"}
                     => co'[d].ballot \in Ballot
                /\ co'[d].pc \in {"accept", "replay", "learn", "relearn"}
                     => co'[d].upd \in Ballot
  <2> USE <1>ProposeType
  <2> DEFINE r == [co[c] EXCEPT !.pc = stage, !.upd = u, !.min_ts = min,
                     !.value = NoBallot, !.readers = {}, !.answers = {}]
  <2>0. co[c] \in Request /\ stage \in Stages /\ u \in Ballot0 /\ NoBallot \in Ballot0
    BY Zenon DEF TypeOK, Stages, Ballot0
  <2>1. r \in Request /\ r.ballot \in Ballot /\ r.upd \in Ballot
    BY Zenon, <2>0 DEF Request
  <2>2. co' = [co EXCEPT ![c] = r]
    BY Zenon DEF Propose, TypeOK, Request
  <2> HIDE DEF r
  <2> QED
    BY Zenon, <2>1, <2>2, <1>CoType
  \* The evaluation of the condition on the value that was read.
<1>EvaluateType.
    ASSUME TypeOK, NEW c \in Coordinators, co[c].ballot \in Ballot,
           NEW v \in Ballot0, NEW repairs \in SUBSET Message,
           Evaluate(c, v, repairs),
           UNCHANGED <<paxos, data, loaded, promises, votes>>
    PROVE  TypeOK'
  <2> USE <1>EvaluateType
  <2>1. CASE Answer(c, v) /\ net' = net \cup repairs /\ UNCHANGED <<base, refused>>
    BY Zenon, <2>1, <1>AnswerType DEF TypeOK
  <2>2. CASE /\ Propose(c, co[c].ballot, "accept", 0)
             /\ net' = net \cup repairs \cup AcceptRequests(c, co[c].ballot)
             /\ base' = [base EXCEPT ![co[c].ballot] = v]
             /\ UNCHANGED <<seen, refused>>
    <3>1. 0 \in 0..MaxTs + 1
      BY LwtAssumption
    <3> QED
      BY Zenon, <2>2, <3>1, <1>ProposeType, <1>SentType DEF TypeOK
  <2> QED
    BY Zenon, <2>1, <2>2 DEF Evaluate
  \* A quorum of promises: begin_and_repair_paxos() takes the next step.
<1>PreparedType.
    ASSUME TypeOK, NEW c \in Coordinators, co[c].pc = "prepare",
           NEW S \in SUBSET co[c].answers, \A m \in S : m.type = "promise",
           Prepared(c, S), UNCHANGED <<paxos, data, loaded, promises, votes>>
    PROVE  TypeOK'
  <2> USE <1>PreparedType
  <2>0. /\ S \in SUBSET AnswerMsg /\ co[c] \in Request
        /\ co[c].ballot \in Ballot
    BY Zenon DEF TypeOK, Request
  <2>1. PICK acc \in Newest({m.accepted : m \in S}),
             mrc \in Newest({m.commit : m \in S}) :
          LET min     == MinTimestampToUse(acc)
              missing == ReplicasMissingMostRecentCommit(S, mrc)
          IN
          \/ /\ InProgress(acc, mrc)
             /\ Propose(c, acc.upd, "replay", min)
             /\ net' = net \cup AcceptRequests(c, acc.upd)
             /\ UNCHANGED <<base, seen, refused>>
          \/ /\ missing # {}
             /\ co' = [co EXCEPT ![c].pc = "ballot", ![c].min_ts = min,
                                 ![c].answers = {}]
             /\ net' = net \cup LearnRequests(mrc, missing)
             /\ UNCHANGED <<base, seen, refused>>
          \/ \E v \in {m.row : m \in S} : Evaluate(c, v, {})
          \/ /\ co' = [co EXCEPT ![c].pc = "read", ![c].answers = {}]
             /\ UNCHANGED <<net, base, seen, refused>>
    BY Zenon DEF Prepared
  <2> DEFINE min     == MinTimestampToUse(acc)
             missing == ReplicasMissingMostRecentCommit(S, mrc)
  <2>2. acc \in Proposal0 /\ mrc \in Proposal0
    BY Zenon, <2>0, SummaryType
  <2>3. min \in 0..MaxTs + 1
    BY <2>2, ProposalType, LwtAssumption DEF MinTimestampToUse
  <2>4. missing \subseteq Participants /\ (missing # {} => mrc \in Proposal)
    BY Zenon, <2>0, <2>2, SummaryType, ProposalType DEF ReplicasMissingMostRecentCommit
  <2> HIDE DEF min, missing
  <2>5. CASE /\ InProgress(acc, mrc)
             /\ Propose(c, acc.upd, "replay", min)
             /\ net' = net \cup AcceptRequests(c, acc.upd)
             /\ UNCHANGED <<base, seen, refused>>
    <3>1. acc.upd \in Ballot
      BY Zenon, <2>2, <2>5, ProposalType DEF InProgress
    <3> QED
      BY Zenon, <2>0, <2>3, <2>5, <3>1, <1>ProposeType, <1>SentType DEF TypeOK
  <2>6. CASE /\ missing # {}
             /\ co' = [co EXCEPT ![c].pc = "ballot", ![c].min_ts = min,
                                 ![c].answers = {}]
             /\ net' = net \cup LearnRequests(mrc, missing)
             /\ UNCHANGED <<base, seen, refused>>
    <3> DEFINE r == [co[c] EXCEPT !.pc = "ballot", !.min_ts = min, !.answers = {}]
    <3>1. r \in Request /\ r.pc = "ballot"
      BY Zenon, <2>0, <2>3 DEF Request, Stages
    <3>2. co' = [co EXCEPT ![c] = r]
      BY Zenon, <2>6 DEF TypeOK, Request
    <3> HIDE DEF r
    <3> QED
      BY Zenon, <2>4, <2>6, <3>1, <3>2, <1>CoType, <1>SentType DEF TypeOK
  <2>7. CASE \E v \in {m.row : m \in S} : Evaluate(c, v, {})
    BY Zenon, <2>0, <2>7, SummaryType, <1>EvaluateType
  <2>8. CASE /\ co' = [co EXCEPT ![c].pc = "read", ![c].answers = {}]
             /\ UNCHANGED <<net, base, seen, refused>>
    <3> DEFINE r == [co[c] EXCEPT !.pc = "read", !.answers = {}]
    <3>1. r \in Request /\ r.pc = "read" /\ r.ballot \in Ballot
      BY Zenon, <2>0 DEF Request, Stages
    <3>2. co' = [co EXCEPT ![c] = r]
      BY Zenon, <2>8 DEF TypeOK, Request
    <3> HIDE DEF r
    <3> QED
      BY Zenon, <2>8, <3>1, <3>2, <1>CoType DEF TypeOK
  <2> QED
    BY Zenon, <2>1, <2>5, <2>6, <2>7, <2>8 DEF min, missing
  \* An answer to the coordinator's own read of the current value.
<1>ReadReplyType.
    ASSUME TypeOK, NEW c \in Coordinators, NEW a \in Participants,
           ReadReply(c, a), UNCHANGED <<paxos, data, loaded, promises, votes>>
    PROVE  TypeOK'
  <2> USE <1>ReadReplyType
  <2> DEFINE got     == co[c].readers \cup {a}
             v       == Newer(co[c].value, data[a])
             stale   == {r \in got : Newer(data[r], v) # data[r]}
             repairs == RepairRequests(v, stale)
  <2>1. /\ co[c] \in Request /\ co[c].ballot \in Ballot /\ co[c].pc = "read"
        /\ co[c].value \in Ballot0 /\ data[a] \in Ballot0 /\ got \subseteq Participants
    BY Zenon DEF TypeOK, Request, ReadReply
  <2>2. v \in Ballot0
    BY Zenon, <2>1, NewerType
  <2>3. stale # {} => v \in Ballot
    <3> SUFFICES ASSUME v = NoBallot, NEW r \in got
                 PROVE  Newer(data[r], v) = data[r]
      BY Zenon, <2>2 DEF Ballot0
    <3>1. data[r] \in Ballot0
      BY Zenon, <2>1 DEF TypeOK
    <3> HIDE DEF v
    <3> QED
      BY Zenon, <3>1, NewerType DEF Ballot0
  <2>4. repairs \in SUBSET Message
    <3>1. stale \subseteq Participants
      BY Zenon, <2>1
    <3> HIDE DEF v, stale
    <3> QED
      BY <2>3, <3>1 DEF RepairRequests, Message
  <2>5. CASE Evaluate(c, v, repairs)
    BY Zenon, <2>1, <2>2, <2>4, <2>5, <1>EvaluateType
  <2>6. CASE /\ co' = [co EXCEPT ![c].readers = got, ![c].value = v]
             /\ UNCHANGED <<net, base, seen, refused>>
    <3> DEFINE r == [co[c] EXCEPT !.readers = got, !.value = v]
    <3> HIDE DEF v, got
    <3>1. r \in Request /\ r.pc = "read" /\ r.ballot \in Ballot
      BY Zenon, <2>1, <2>2 DEF Request
    <3>2. co' = [co EXCEPT ![c] = r]
      BY Zenon, <2>6 DEF TypeOK, Request
    <3> HIDE DEF r
    <3> QED
      BY Zenon, <2>6, <3>1, <3>2, <1>CoType DEF TypeOK
  <2> QED
    BY Zenon, <2>5, <2>6 DEF ReadReply
  \* Each way accept_proposal() may end, or go on waiting.
<1>OnAcceptRepliesType.
    ASSUME TypeOK, NEW c \in Coordinators, NEW A, NEW R, NEW E,
           OnAcceptReplies(c, A, R, E), UNCHANGED <<paxos, data, loaded, promises, votes>>
    PROVE  TypeOK'
  <2> USE <1>OnAcceptRepliesType
  <2> DEFINE own == co[c].pc = "accept"
             p   == [ballot |-> co[c].ballot, upd |-> co[c].upd]
  <2>1. /\ co[c] \in Request /\ co[c].pc \in {"accept", "replay"}
        /\ co[c].ballot \in Ballot /\ co[c].upd \in Ballot
    BY Zenon DEF TypeOK, OnAcceptReplies
  <2>2. CASE co' = [co EXCEPT ![c] = Idle] /\ UNCHANGED <<net, base, seen, refused>>
    <3>1. Idle.pc = "idle"
      BY Zenon DEF Idle
    <3> QED
      BY Zenon, <2>2, <3>1, <1>IdleType, <1>CoType DEF TypeOK
  <2>3. CASE /\ co' = [co EXCEPT ![c].pc = IF own THEN "learn" ELSE "relearn",
                                 ![c].answers = {}]
             /\ net' = net \cup LearnRequests(p, Participants)
             /\ UNCHANGED <<base, seen, refused>>
    <3> DEFINE r == [co[c] EXCEPT !.pc = IF own THEN "learn" ELSE "relearn",
                                  !.answers = {}]
    <3>1. r \in Request /\ r.ballot \in Ballot /\ r.upd \in Ballot
      BY Zenon, <2>1 DEF Request, Stages
    <3>2. co' = [co EXCEPT ![c] = r]
      BY Zenon, <2>3 DEF TypeOK, Request
    <3>3. p \in Proposal
      BY Zenon, <2>1 DEF Proposal
    <3> HIDE DEF r, p
    <3> QED
      BY Zenon, <2>3, <3>1, <3>2, <3>3, <1>CoType, <1>SentType DEF TypeOK
  <2>4. CASE /\ co' = [co EXCEPT ![c].pc = "ballot", ![c].upd = NoBallot,
                                 ![c].answers = {},
                                 ![c].min_ts = IF own THEN 0 ELSE @]
             /\ refused' = IF own THEN refused \cup {co[c].upd} ELSE refused
             /\ UNCHANGED <<net, base, seen>>
    <3> DEFINE r == [co[c] EXCEPT !.pc = "ballot", !.upd = NoBallot,
                        !.answers = {}, !.min_ts = IF own THEN 0 ELSE @]
    <3>0. /\ (IF own THEN 0 ELSE co[c].min_ts) \in 0..MaxTs + 1
          /\ NoBallot \in Ballot0
      BY <2>1, LwtAssumption DEF Request, Ballot0
    <3>1. r \in Request /\ r.pc = "ballot"
      BY Zenon, <2>1, <3>0 DEF Request, Stages
    <3>2. co' = [co EXCEPT ![c] = r]
      BY Zenon, <2>4 DEF TypeOK, Request
    <3> HIDE DEF r
    <3> QED
      BY Zenon, <2>1, <2>4, <3>1, <3>2, <1>CoType DEF TypeOK
  <2> QED
    BY Zenon, <2>2, <2>3, <2>4 DEF OnAcceptReplies, Fail
  \* The end of learn_decision(), of the own decision or of another's.
<1>LearnDoneType.
    ASSUME TypeOK, NEW c \in Coordinators, LearnDone(c),
           UNCHANGED <<paxos, data, loaded, promises, votes>>
    PROVE  TypeOK'
  <2> USE <1>LearnDoneType
  <2>1. co[c] \in Request /\ co[c].upd \in Ballot
    BY Zenon DEF TypeOK, LearnDone
  <2>2. CASE Answer(c, co[c].upd)
    BY Zenon, <2>1, <2>2, <1>AnswerType DEF TypeOK, LearnDone, Ballot0
  <2>3. CASE /\ co' = [co EXCEPT ![c].pc = "ballot", ![c].upd = NoBallot,
                                 ![c].answers = {}]
             /\ UNCHANGED seen
    <3> DEFINE r == [co[c] EXCEPT !.pc = "ballot", !.upd = NoBallot, !.answers = {}]
    <3>1. r \in Request /\ r.pc = "ballot"
      BY Zenon, <2>1 DEF Request, Stages, Ballot0
    <3>2. co' = [co EXCEPT ![c] = r]
      BY Zenon, <2>3 DEF TypeOK, Request
    <3> HIDE DEF r
    <3> QED
      BY Zenon, <2>3, <3>1, <3>2, <1>CoType DEF TypeOK, LearnDone
  <2> QED
    BY Zenon, <2>2, <2>3 DEF LearnDone
  \* Each step of a coordinator keeps the types.
<1>CoordinatorType.
    ASSUME TypeOK, NEW c \in Coordinators, Coordinator(c),
           UNCHANGED <<paxos, data, loaded, promises, votes>>
    PROVE  TypeOK'
  <2> USE <1>CoordinatorType
  <2>0. co[c] \in Request
    BY Zenon DEF TypeOK
  <2>1. CASE \E alive \in Views : Begin(c, alive)
    <3>1. PICK alive \in Views : Begin(c, alive)
      BY Zenon, <2>1
    <3> DEFINE r == [Idle EXCEPT !.pc = "ballot", !.live = alive, !.floor = seen]
    <3>2. r \in Request /\ r.pc = "ballot"
      BY Zenon, <1>IdleType, LwtAssumption DEF TypeOK, Request, Stages, Idle, Participants
    <3> HIDE DEF r
    <3> QED
      BY Zenon, <3>1, <3>2, <1>CoType DEF TypeOK, Begin, r
  <2>2. CASE \E now \in 1..MaxTs, nonce \in Nonces : PrepareBallot(c, now, nonce)
    <3>1. PICK now \in 1..MaxTs, nonce \in Nonces : PrepareBallot(c, now, nonce)
      BY Zenon, <2>2
    <3>2. PICK b \in Ballot :
            /\ co' = [co EXCEPT ![c].pc = "prepare", ![c].ballot = b,
                                ![c].answers = {}]
            /\ net' = net \cup {[type |-> "prepare", ballot |-> b,
                                 to |-> co[c].live]}
            /\ UNCHANGED <<base, seen, refused>>
      BY Zenon, <3>1 DEF PrepareBallot, FreshBallots
    <3> DEFINE r == [co[c] EXCEPT !.pc = "prepare", !.ballot = b, !.answers = {}]
    <3>3. r \in Request /\ r.pc = "prepare" /\ r.ballot \in Ballot
      BY Zenon, <2>0 DEF Request, Stages, Ballot0
    <3>4. co' = [co EXCEPT ![c] = r]
      BY Zenon, <3>2 DEF TypeOK, Request
    <3>5. net' \in SUBSET Message
      BY <2>0, <3>2 DEF TypeOK, Request, Message
    <3> HIDE DEF r
    <3> QED
      BY Zenon, <3>2, <3>3, <3>4, <3>5, <1>CoType DEF TypeOK
  <2>3. CASE \E Q \in SUBSET co[c].live : OnPromises(c, Q)
    BY Zenon, <2>3, <1>PreparedType DEF OnPromises
  <2>4. CASE \E m \in co[c].answers : OnOutdated(c, m)
    <3>1. PICK m \in co[c].answers : OnOutdated(c, m)
      BY Zenon, <2>4
    <3> DEFINE r == [co[c] EXCEPT !.pc = "ballot", !.answers = {}]
    <3>2. r \in Request /\ r.pc = "ballot"
      BY Zenon, <2>0, <3>1 DEF Request, Stages
    <3>3. co' = [co EXCEPT ![c] = r]
      BY Zenon, <3>1 DEF OnOutdated, TypeOK, Request
    <3> HIDE DEF r
    <3> QED
      BY Zenon, <3>1, <3>2, <3>3, <1>CoType DEF TypeOK, OnOutdated
  <2>5. CASE \E a \in Participants : ReadReply(c, a)
    BY Zenon, <2>5, <1>ReadReplyType
  <2>6. CASE \E accepts \in SUBSET AnsweredBy(c, "accepted"),
                rejects \in SUBSET AnsweredBy(c, "rejected") :
               \E errors \in SUBSET (co[c].live \ (accepts \cup rejects)) :
                 OnAcceptReplies(c, accepts, rejects, errors)
    BY Zenon, <2>6, <1>OnAcceptRepliesType
  <2>7. CASE LearnDone(c)
    BY Zenon, <2>7, <1>LearnDoneType
  <2>8. CASE Fail(c)
    <3>1. Idle.pc = "idle"
      BY Zenon DEF Idle
    <3> QED
      BY Zenon, <2>8, <3>1, <1>IdleType, <1>CoType DEF TypeOK, Fail
  <2> QED
    BY Zenon, <2>1, <2>2, <2>3, <2>4, <2>5, <2>6, <2>7, <2>8 DEF Coordinator
  \* The initial state.
<1>InitType.
    Init => TypeOK
  <2>1. EmptyRow \in PaxosRow /\ NoLoad \in Load /\ NoBallot \in Ballot0
    BY Zenon DEF EmptyRow, PaxosRow, NoLoad, Load, Ballot0, Proposal0
  <2>2. Idle.pc = "idle"
    BY Zenon DEF Idle
  <2> QED
    BY <2>1, <2>2, <1>IdleType DEF Init, TypeOK
  \* Each step keeps the types.
<1>NextType.
    TypeOK /\ [Next]_vars => TypeOK'
  <2> SUFFICES ASSUME TypeOK, [Next]_vars PROVE TypeOK'
    OBVIOUS
  <2>1. CASE Next
    BY Zenon, <2>1, <1>ReplicaType, <1>CoordinatorType DEF Next
  <2>2. CASE UNCHANGED vars
    BY Zenon, <2>2 DEF vars, TypeOK
  <2> QED
    BY Zenon, <2>1, <2>2
<1> QED
BY <1>InitType, <1>NextType, PTL DEF Spec

-----------------------------------------------------------------------------
(* What was accepted is remembered.  The invariant is inductive together   *)
(* with the types: the timestamp a row remembers only grows.               *)

Remembers(row, t) ==
  row.proposal.ballot.ts >= t \/ row.most_recent_commit.ballot.ts >= t

\* Every replica keeps showing to later prepares the newest of what it accepted,
\* or a decision at least as new: save_paxos_decision() and save_paxos_proposal()
\* may come late and in any order.
THEOREM Remembered == Spec => []AcceptedIsRemembered
  \* No write to system.paxos forgets, and save_paxos_proposal() makes the row
  \* remember the proposal even where a tombstone shadows it.
<1>WritesRemember.
    ASSUME NEW row \in PaxosRow, NEW b \in Ballot0, NEW p \in Proposal,
           NEW t \in Nat
    PROVE  /\ Remembers(save_paxos_proposal(row, p), p.ballot.ts)
           /\ Remembers(row, t) =>
                /\ Remembers(save_paxos_promise(row, b), t)
                /\ Remembers(save_paxos_proposal(row, p), t)
                /\ Remembers(save_paxos_decision(row, p), t)
  <2> USE <1>WritesRemember
  <2>1. /\ row.proposal \in Proposal0 /\ row.most_recent_commit \in Proposal0
        /\ p \in Proposal0
    BY Zenon DEF PaxosRow, Proposal0
  <2>2. /\ row.proposal.ballot.ts \in Nat /\ row.most_recent_commit.ballot.ts \in Nat
        /\ p.ballot.ts \in Nat
    BY <2>1, ProposalType, LwtAssumption
  <2>3. /\ Remembers(save_paxos_proposal(row, p), p.ballot.ts)
        /\ Remembers(row, t) => Remembers(save_paxos_proposal(row, p), t)
    BY <2>2 DEF Remembers, save_paxos_proposal, NewerProposal, ErasedAt, PaxosRow
  <2>4. Remembers(row, t) => Remembers(save_paxos_promise(row, b), t)
    BY Zenon DEF Remembers, save_paxos_promise, PaxosRow
  <2>5. Remembers(row, t) => Remembers(save_paxos_decision(row, p), t)
    BY <2>2 DEF Remembers, save_paxos_decision, NewerProposal, PaxosRow
  <2> QED
    BY Zenon, <2>3, <2>4, <2>5
  \* Each step of a replica keeps what it has accepted.
<1>ReplicaRemembers.
    ASSUME TypeOK, AcceptedIsRemembered, NEW a \in Participants, Replica(a)
    PROVE  AcceptedIsRemembered'
  <2> USE <1>ReplicaRemembers
  <2> USE DEF AcceptedIsRemembered
  <2>0. \A b \in Ballot : b.ts \in Nat
    BY LwtAssumption DEF Ballot
  <2>1. CASE \E m \in net : PrepareLoad(a, m) \/ LearnApply(a, m) \/ ReadRepair(a, m)
    BY Zenon, <2>1 DEF PrepareLoad, LearnApply, ReadRepair
  <2>2. CASE PreparePromise(a)
    <3>1. paxos[a] \in PaxosRow /\ loaded[a].ballot \in Ballot0
      BY Zenon DEF TypeOK, Load
    <3>2. /\ paxos' = [paxos EXCEPT ![a] = save_paxos_promise(paxos[a], loaded[a].ballot)]
          /\ votes' = votes
      BY Zenon, <2>2 DEF PreparePromise
    <3>3. save_paxos_promise(paxos[a], loaded[a].ballot).proposal = paxos[a].proposal
          /\ save_paxos_promise(paxos[a], loaded[a].ballot).most_recent_commit
               = paxos[a].most_recent_commit
      BY Zenon, <3>1 DEF save_paxos_promise, PaxosRow
    <3> QED
      BY Zenon, <3>2, <3>3 DEF TypeOK
  <2>3. CASE \E m \in net : Accept(a, m)
    <3>1. PICK m \in net : Accept(a, m)
      BY Zenon, <2>3
    <3> DEFINE p == [ballot |-> m.ballot, upd |-> m.upd]
    <3>2. p \in Proposal /\ m.ballot \in Ballot /\ p.ballot = m.ballot
          /\ paxos[a] \in PaxosRow
      BY Zenon, <3>1, MessageType DEF TypeOK, Accept, Proposal
    <3>3. CASE UNCHANGED <<paxos, votes>>
      BY Zenon, <3>3
    <3>4. CASE /\ paxos' = [paxos EXCEPT ![a] = save_paxos_proposal(paxos[a], p)]
               /\ votes' = [votes EXCEPT ![m.ballot] = votes[m.ballot] \cup {a}]
      <4> SUFFICES ASSUME NEW b \in Ballot, NEW x \in votes'[b]
                   PROVE  Remembers(paxos'[x], b.ts)
        BY Zenon DEF Remembers
      <4>1. CASE x # a
        BY Zenon, <3>4, <4>1 DEF TypeOK, Remembers
      <4>2. CASE x = a /\ a \in votes[b]
        <5>1. Remembers(paxos[a], b.ts)
          BY Zenon, <4>2 DEF Remembers
        <5>2. paxos'[a] = save_paxos_proposal(paxos[a], p)
          BY Zenon, <3>4 DEF TypeOK
        <5> HIDE DEF p
        <5> QED
          BY Zenon, <2>0, <3>2, <4>2, <5>1, <5>2, <1>WritesRemember DEF Ballot0
      <4>3. CASE x = a /\ a \notin votes[b]
        <5>1. b = m.ballot /\ paxos'[a] = save_paxos_proposal(paxos[a], p)
          BY Zenon, <3>2, <3>4, <4>3 DEF TypeOK
        <5> HIDE DEF p
        <5> QED
          BY Zenon, <2>0, <3>2, <4>3, <5>1, <1>WritesRemember DEF Ballot0
      <4> QED
        BY Zenon, <4>1, <4>2, <4>3
    <3> QED
      BY Zenon, <3>1, <3>3, <3>4 DEF Accept
  <2>4. CASE \E m \in net : LearnSave(a, m)
    <3>1. PICK m \in net : LearnSave(a, m)
      BY Zenon, <2>4
    <3> DEFINE p == [ballot |-> m.ballot, upd |-> m.upd]
    <3>a. m \in Message /\ paxos[a] \in PaxosRow
      BY Zenon DEF TypeOK
    <3>b. m.ballot \in Ballot /\ m.upd \in Ballot
      BY Zenon, <3>1, <3>a, MessageType DEF LearnSave
    <3>2. p \in Proposal /\ paxos[a] \in PaxosRow
      BY Zenon, <3>a, <3>b DEF Proposal
    <3>3. paxos' = [paxos EXCEPT ![a] = save_paxos_decision(paxos[a], p)] /\ votes' = votes
      BY Zenon, <3>1 DEF LearnSave
    <3> HIDE DEF p
    <3> SUFFICES ASSUME NEW b \in Ballot, NEW x \in votes[b]
                 PROVE  Remembers(paxos'[x], b.ts)
      BY Zenon, <3>3 DEF Remembers
    <3>4. Remembers(paxos[x], b.ts)
      BY Zenon DEF Remembers
    <3>5. CASE x = a
      <4>1. paxos'[a] = save_paxos_decision(paxos[a], p)
        BY Zenon, <3>3 DEF TypeOK
      <4> QED
        BY Zenon, <2>0, <3>2, <3>4, <3>5, <4>1, <1>WritesRemember DEF Ballot0
    <3>6. CASE x # a
      BY Zenon, <3>3, <3>4, <3>6 DEF TypeOK
    <3> QED
      BY Zenon, <3>5, <3>6
  <2>5. CASE ReplicaRestart(a)
    BY Zenon, <2>5 DEF ReplicaRestart
  <2> QED
    BY Zenon, <2>1, <2>2, <2>3, <2>4, <2>5 DEF Replica
<1>1. Init => AcceptedIsRemembered
  BY Zenon DEF Init, AcceptedIsRemembered
<1>2. TypeOK /\ AcceptedIsRemembered /\ [Next]_vars => AcceptedIsRemembered'
  BY Zenon, <1>ReplicaRemembers DEF Next, vars, AcceptedIsRemembered
<1> QED
  BY <1>1, <1>2, TypeCorrect, PTL DEF Spec

-----------------------------------------------------------------------------
(* Only what is chosen is visible.  The invariant follows a decision from   *)
(* the accepted answers that a coordinator counts, through the learn and    *)
(* repair messages it sends and the promises that replicas answer, to the   *)
(* rows.                                                                    *)

Visible == Chosen \cup {NoBallot}

\* What a request may know: visible rows and decisions, and acceptances that
\* were really given to the proposal it sent to its participants.
RequestOK(r, visible, voters, msgs) ==
  /\ \A m \in r.answers :
       /\ m.type = "promise" => m.commit.upd \in visible /\ m.row \in visible
       /\ m.type = "accepted" => r.ballot \in Ballot /\ m.from \in voters[r.ballot]
  /\ r.pc # "done" => r.value \in visible
  /\ r.pc \in {"accept", "replay"} =>
       [type |-> "accept", ballot |-> r.ballot, upd |-> r.upd, to |-> r.live] \in msgs

VisibleInv ==
  /\ \A m \in net : m.type \in {"learn", "repair"} => m.upd \in Chosen
  /\ \A a \in Participants : /\ data[a] \in Visible
                             /\ paxos[a].most_recent_commit.upd \in Visible
                             /\ loaded[a].commit.upd \in Visible
  /\ \A c \in Coordinators : RequestOK(co[c], Visible, votes, net)

\* Messages and votes are only ever added.
LEMMA NetVotesGrow ==
  ASSUME TypeOK, [Next]_vars
  PROVE  net \subseteq net' /\ \A b \in Ballot : votes[b] \subseteq votes'[b]
<1>1. ASSUME NEW a \in Participants, Replica(a)
      PROVE  \A b \in Ballot : votes[b] \subseteq votes'[b]
  <2>1. ASSUME NEW m \in net, Accept(a, m)
        PROVE  \A b \in Ballot : votes[b] \subseteq votes'[b]
    <3>1. \/ votes' = votes
          \/ votes' = [votes EXCEPT ![m.ballot] = votes[m.ballot] \cup {a}]
      BY Zenon, <2>1 DEF Accept
    <3> QED
      BY Zenon, <3>1 DEF TypeOK
  <2>2. ASSUME NEW m \in net,
               PrepareLoad(a, m) \/ LearnApply(a, m) \/ LearnSave(a, m) \/ ReadRepair(a, m)
        PROVE  votes' = votes
    BY Zenon, <2>2 DEF PrepareLoad, LearnApply, LearnSave, ReadRepair
  <2>3. PreparePromise(a) \/ ReplicaRestart(a) => votes' = votes
    BY Zenon DEF PreparePromise, ReplicaRestart
  <2> QED
    BY Zenon, <1>1, <2>1, <2>2, <2>3 DEF Replica
<1>2. ASSUME NEW c \in Coordinators, Coordinator(c)
      PROVE  net \subseteq net'
  <2>1. \A v, R : Evaluate(c, v, R) => net \subseteq net'
    BY Zenon DEF Evaluate
  <2>2. ASSUME NEW Q, OnPromises(c, Q) PROVE net \subseteq net'
    BY Zenon, <2>1, <2>2 DEF OnPromises, Prepared
  <2>3. ASSUME NEW a, ReadReply(c, a) PROVE net \subseteq net'
    BY Zenon, <2>1, <2>3 DEF ReadReply
  <2>4. ASSUME NEW A, NEW R, NEW E, OnAcceptReplies(c, A, R, E) PROVE net \subseteq net'
    BY Zenon, <2>4 DEF OnAcceptReplies, Fail
  <2>5. ASSUME NEW now, NEW nonce, PrepareBallot(c, now, nonce) PROVE net \subseteq net'
    BY Zenon, <2>5 DEF PrepareBallot
  <2>6. /\ \A alive : Begin(c, alive) => net' = net
        /\ \A m : OnOutdated(c, m) => net' = net
        /\ LearnDone(c) => net' = net
        /\ Fail(c) => net' = net
    BY Zenon DEF Begin, OnOutdated, LearnDone, Fail
  <2> QED
    BY Zenon, <1>2, <2>2, <2>3, <2>4, <2>5, <2>6 DEF Coordinator
<1> QED
  BY Zenon, <1>1, <1>2 DEF Next, vars

\* A set of participants is finite, so a greater set of votes has no fewer.
LEMMA VotesFinite ==
  /\ IsFiniteSet(Participants)
  /\ \A S, T \in SUBSET Participants :
       S \subseteq T => Cardinality(S) <= Cardinality(T)
  /\ \A S \in SUBSET Participants : Cardinality(S) \in Nat
  /\ RequiredParticipants \in Nat /\ RequiredParticipants >= 1
<1>1. IsFiniteSet(Participants)
  BY Zenon, LwtAssumption, FS_Union DEF Participants
<1>2. \A T \in SUBSET Participants : IsFiniteSet(T)
  BY Zenon, <1>1, FS_Subset
<1>3. Cardinality(Natural) \in Nat /\ Cardinality(Pending) \in Nat
  BY Zenon, LwtAssumption, FS_CardinalityType
<1>4. RequiredParticipants \in Nat /\ RequiredParticipants >= 1
  BY <1>3 DEF RequiredParticipants
<1> QED
  BY Zenon, <1>1, <1>2, <1>4, FS_Subset, FS_CardinalityType

\* What is chosen stays chosen.
LEMMA ChosenGrows ==
  ASSUME TypeOK, TypeOK', [Next]_vars
  PROVE  Chosen \subseteq Chosen' /\ Visible \subseteq Visible'
<1>1. SUFFICES ASSUME NEW m \in net, m.type = "accept",
                      Cardinality(votes[m.ballot]) >= RequiredParticipants
               PROVE  /\ m \in net'
                      /\ Cardinality(votes'[m.ballot]) >= RequiredParticipants
  BY Zenon DEF Chosen, Visible
<1>2. m \in Message /\ m.ballot \in Ballot /\ m \in net'
  BY Zenon, <1>1, MessageType, NetVotesGrow DEF TypeOK
<1>3. /\ votes[m.ballot] \subseteq votes'[m.ballot]
      /\ votes[m.ballot] \in SUBSET Participants
      /\ votes'[m.ballot] \in SUBSET Participants
  BY Zenon, <1>2, NetVotesGrow DEF TypeOK
<1>4. /\ Cardinality(votes[m.ballot]) <= Cardinality(votes'[m.ballot])
      /\ Cardinality(votes[m.ballot]) \in Nat /\ Cardinality(votes'[m.ballot]) \in Nat
  BY Zenon, <1>3, VotesFinite
<1> QED
  BY <1>1, <1>2, <1>4, VotesFinite

\* A quorum of accepted answers means that the proposal is chosen.
LEMMA AcceptedIsChosen ==
  ASSUME TypeOK, NEW c \in Coordinators, RequestOK(co[c], Visible, votes, net),
         co[c].pc \in {"accept", "replay"},
         NEW A \in SUBSET AnsweredBy(c, "accepted"),
         Cardinality(A) = RequiredParticipants
  PROVE  co[c].upd \in Chosen
<1>1. co[c] \in Request /\ co[c].ballot \in Ballot
  BY Zenon DEF TypeOK
<1>2. A \subseteq votes[co[c].ballot] /\ votes[co[c].ballot] \in SUBSET Participants
  BY <1>1 DEF AnsweredBy, RequestOK, TypeOK
<1>3. Cardinality(votes[co[c].ballot]) >= RequiredParticipants
  BY Zenon, <1>2, VotesFinite
<1> DEFINE m == [type |-> "accept", ballot |-> co[c].ballot,
                 upd |-> co[c].upd, to |-> co[c].live]
<1>4. m \in net
  BY Zenon DEF RequestOK
<1> QED
  BY <1>3, <1>4 DEF Chosen

LEMMA VisibleHolds == Spec => []VisibleInv
  \* What a request knows stays true.
<1>RequestOKGrows.
    ASSUME TypeOK, TypeOK', [Next]_vars, NEW r \in Request,
           RequestOK(r, Visible, votes, net)
    PROVE  RequestOK(r, Visible', votes', net')
  BY Zenon, <1>RequestOKGrows, ChosenGrows, NetVotesGrow DEF RequestOK
  \* A true answer may be added to what a request knows.
<1>RespondOK.
    ASSUME TypeOK, TypeOK', [Next]_vars, VisibleInv,
           NEW b, NEW stages, NEW answer, Respond(b, stages, answer),
           answer.type = "promise" =>
             answer.commit.upd \in Visible' /\ answer.row \in Visible',
           answer.type = "accepted" => b \in Ballot /\ answer.from \in votes'[b]
    PROVE  \A c \in Coordinators : RequestOK(co'[c], Visible', votes', net')
  <2> USE <1>RespondOK
  <2> SUFFICES ASSUME NEW c \in Coordinators
               PROVE  RequestOK(co'[c], Visible', votes', net')
    OBVIOUS
  <2>1. co[c] \in Request /\ RequestOK(co[c], Visible, votes, net)
    BY Zenon DEF TypeOK, VisibleInv
  <2>2. RequestOK(co[c], Visible', votes', net')
    BY Zenon, <2>1, <1>RequestOKGrows
  <2>3. CASE co'[c] = co[c]
    BY Zenon, <2>2, <2>3
  <2>4. CASE co[c].ballot = b /\ co'[c] = [co[c] EXCEPT !.answers = co[c].answers \cup {answer}]
    <3> DEFINE r == [co[c] EXCEPT !.answers = co[c].answers \cup {answer}]
    <3>1. /\ r.answers = co[c].answers \cup {answer} /\ r.ballot = b /\ r.pc = co[c].pc
          /\ r.value = co[c].value /\ r.live = co[c].live /\ r.upd = co[c].upd
          /\ r.ballot = co[c].ballot
      BY Zenon, <2>1, <2>4 DEF Request
    <3> HIDE DEF r
    <3>2. RequestOK(r, Visible', votes', net')
      BY Zenon, <2>2, <3>1 DEF RequestOK
    <3> QED
      BY Zenon, <2>4, <3>2 DEF r
  <2> QED
    BY Zenon, <2>3, <2>4 DEF Respond
  \* Each step of a replica keeps VisibleInv.
<1>ReplicaVisible.
    ASSUME TypeOK, TypeOK', [Next]_vars, VisibleInv, NEW a \in Participants,
           Replica(a), UNCHANGED <<net, base, seen, refused>>
    PROVE  VisibleInv'
  <2> USE <1>ReplicaVisible
  <2>0. Chosen \subseteq Chosen' /\ Visible \subseteq Visible'
    BY Zenon, ChosenGrows
  <2>1. \A m \in net' : m.type \in {"learn", "repair"} => m.upd \in Chosen'
    BY Zenon, <2>0 DEF VisibleInv
  <2>2. co' = co => \A c \in Coordinators : RequestOK(co'[c], Visible', votes', net')
    BY Zenon, <1>RequestOKGrows DEF TypeOK, VisibleInv
  <2> DEFINE Rows == \A x \in Participants :
                       /\ data'[x] \in Visible'
                       /\ paxos'[x].most_recent_commit.upd \in Visible'
                       /\ loaded'[x].commit.upd \in Visible'
             Requests == \A c \in Coordinators : RequestOK(co'[c], Visible', votes', net')
  <2>a. SUFFICES Rows /\ Requests
    BY Zenon, <2>1 DEF VisibleInv
  <2>b. \A x \in Participants : /\ data[x] \in Visible'
                                /\ paxos[x].most_recent_commit.upd \in Visible'
                                /\ loaded[x].commit.upd \in Visible'
    BY Zenon, <2>0 DEF VisibleInv
  <2>c. NoLoad.commit.upd \in Visible'
    BY Zenon DEF NoLoad, NoProposal, Visible
  <2>3. CASE \E m \in net : PrepareLoad(a, m)
    <3>1. PICK m \in net : PrepareLoad(a, m)
      BY Zenon, <2>3
    <3> DEFINE l == [ballot   |-> m.ballot,
                     accepted |-> paxos[a].proposal,
                     commit   |-> paxos[a].most_recent_commit]
    <3>a. /\ data' = data /\ paxos' = paxos
          /\ loaded' = [loaded EXCEPT ![a] = l] \/ loaded' = loaded
      BY Zenon, <3>1 DEF PrepareLoad
    <3>b. l.commit.upd \in Visible' /\ loaded \in [Participants -> Load]
      BY Zenon, <2>b DEF TypeOK
    <3>2. Rows
      <4> HIDE DEF l
      <4> QED
        BY Zenon, <2>b, <3>a, <3>b
    <3>3. Requests
      <4>1. \/ co' = co
            \/ Respond(m.ballot, {"prepare"}, [type |-> "outdated", from |-> a,
                                    promised |-> paxos[a].in_progress_ballot])
        BY Zenon, <3>1 DEF PrepareLoad
      <4> QED
        BY Zenon, <2>2, <4>1, <1>RespondOK
    <3> QED
      BY Zenon, <3>2, <3>3
  <2>4. CASE PreparePromise(a)
    <3> DEFINE ans == [type |-> "promise", from |-> a,
                       accepted |-> loaded[a].accepted,
                       commit |-> loaded[a].commit, row |-> data[a]]
    <3>1. /\ paxos' = [paxos EXCEPT ![a] = save_paxos_promise(paxos[a], loaded[a].ballot)]
          /\ loaded' = [loaded EXCEPT ![a] = NoLoad]
          /\ Respond(loaded[a].ballot, {"prepare"}, ans)
          /\ data' = data
      BY Zenon, <2>4 DEF PreparePromise
    <3>2. save_paxos_promise(paxos[a], loaded[a].ballot).most_recent_commit
            = paxos[a].most_recent_commit
      <4>1. paxos[a] \in PaxosRow
        BY Zenon DEF TypeOK
      <4> QED
        BY Zenon, <4>1 DEF save_paxos_promise, PaxosRow
    <3>3. Rows
      BY Zenon, <2>b, <2>c, <3>1, <3>2 DEF TypeOK
    <3>4. /\ ans.type = "promise"
          /\ ans.commit.upd \in Visible' /\ ans.row \in Visible'
      BY Zenon, <2>b
    <3> HIDE DEF ans
    <3>5. Requests
      BY Zenon, <3>1, <3>4, <1>RespondOK
    <3> QED
      BY Zenon, <3>3, <3>5
  <2>5. CASE \E m \in net : Accept(a, m)
    <3>1. PICK m \in net : Accept(a, m)
      BY Zenon, <2>5
    <3> DEFINE p == [ballot |-> m.ballot, upd |-> m.upd]
    <3>2. m.ballot \in Ballot /\ paxos[a] \in PaxosRow
      BY Zenon, <3>1, MessageType DEF TypeOK, Accept
    <3>3. save_paxos_proposal(paxos[a], p).most_recent_commit = paxos[a].most_recent_commit
      BY Zenon, <3>2 DEF save_paxos_proposal, PaxosRow
    <3>4. /\ data' = data /\ loaded' = loaded
          /\ \/ paxos' = paxos
             \/ paxos' = [paxos EXCEPT ![a] = save_paxos_proposal(paxos[a], p)]
      BY Zenon, <3>1 DEF Accept
    <3>5. Rows
      BY Zenon, <2>b, <3>3, <3>4 DEF TypeOK
    <3>6. \/ Respond(m.ballot, {"accept", "replay"}, [type |-> "rejected", from |-> a])
          \/ /\ Respond(m.ballot, {"accept", "replay"}, [type |-> "accepted", from |-> a])
             /\ votes' = [votes EXCEPT ![m.ballot] = votes[m.ballot] \cup {a}]
      BY Zenon, <3>1 DEF Accept
    <3>7. CASE Respond(m.ballot, {"accept", "replay"}, [type |-> "rejected", from |-> a])
      BY Zenon, <3>5, <3>7, <1>RespondOK
    <3>8. CASE /\ Respond(m.ballot, {"accept", "replay"}, [type |-> "accepted", from |-> a])
               /\ votes' = [votes EXCEPT ![m.ballot] = votes[m.ballot] \cup {a}]
      <4>1. a \in votes'[m.ballot]
        BY Zenon, <3>2, <3>8 DEF TypeOK
      <4> QED
        BY Zenon, <3>2, <3>5, <3>8, <4>1, <1>RespondOK
    <3> QED
      BY Zenon, <3>6, <3>7, <3>8
  <2>6. CASE \E m \in net : LearnApply(a, m) \/ ReadRepair(a, m)
    <3>1. PICK m \in net : LearnApply(a, m) \/ ReadRepair(a, m)
      BY Zenon, <2>6
    <3>2. m.upd \in Visible' /\ m.upd \in Ballot0
      BY Zenon, <2>0, <3>1, MessageType DEF VisibleInv, LearnApply, ReadRepair, TypeOK, Visible, Ballot0
    <3>3. Newer(data[a], m.upd) \in Visible'
      BY ZenonT(30), <2>b, <3>2, NewerType DEF TypeOK
    <3>4. /\ data' = [data EXCEPT ![a] = Newer(data[a], m.upd)]
          /\ paxos' = paxos /\ loaded' = loaded /\ co' = co
      BY Zenon, <3>1 DEF LearnApply, ReadRepair
    <3> QED
      BY Zenon, <2>2, <2>b, <3>3, <3>4 DEF TypeOK
  <2>7. CASE \E m \in net : LearnSave(a, m)
    <3>1. PICK m \in net : LearnSave(a, m)
      BY Zenon, <2>7
    <3> DEFINE p == [ballot |-> m.ballot, upd |-> m.upd]
    <3>2. m.upd \in Visible'
      BY Zenon, <2>0, <3>1 DEF VisibleInv, LearnSave, Visible
    <3>3. save_paxos_decision(paxos[a], p).most_recent_commit
            \in {p, paxos[a].most_recent_commit}
      BY DEF save_paxos_decision, NewerProposal, TypeOK, PaxosRow
    <3>4. /\ paxos' = [paxos EXCEPT ![a] = save_paxos_decision(paxos[a], p)]
          /\ data' = data /\ loaded' = loaded
          /\ Respond(m.ballot, {"learn", "relearn"}, [type |-> "learned", from |-> a])
      BY Zenon, <3>1 DEF LearnSave
    <3>5. Rows
      <4> DEFINE row == save_paxos_decision(paxos[a], p)
      <4>1. row.most_recent_commit.upd \in Visible'
        BY <2>b, <3>2, <3>3
      <4>2. paxos' = [paxos EXCEPT ![a] = row] /\ paxos \in [Participants -> PaxosRow]
        BY Zenon, <3>4 DEF TypeOK
      <4> HIDE DEF row
      <4> QED
        BY Zenon, <2>b, <3>4, <4>1, <4>2
    <3> QED
      BY Zenon, <3>4, <3>5, <1>RespondOK
  <2>8. CASE ReplicaRestart(a)
    BY Zenon, <2>2, <2>8, <2>b, <2>c DEF ReplicaRestart, TypeOK
  <2> QED
    BY Zenon, <2>3, <2>4, <2>5, <2>6, <2>7, <2>8 DEF Replica
  \* A step that changes the request of c only, to one that knows only what is
  \* true, and that sends only decisions that are chosen.
<1>CoVisible.
    ASSUME TypeOK, TypeOK', [Next]_vars, VisibleInv,
           NEW c \in Coordinators, NEW r,
           co' = [co EXCEPT ![c] = r], RequestOK(r, Visible', votes', net'),
           UNCHANGED <<paxos, data, loaded, promises, votes>>,
           \A m \in net' \ net : m.type \in {"learn", "repair"} => m.upd \in Chosen'
    PROVE  VisibleInv'
  <2> USE <1>CoVisible
  <2>0. Chosen \subseteq Chosen' /\ Visible \subseteq Visible'
    BY Zenon, ChosenGrows
  <2>1. \A m \in net' : m.type \in {"learn", "repair"} => m.upd \in Chosen'
    BY Zenon, <2>0 DEF VisibleInv
  <2>2. \A d \in Coordinators : RequestOK(co'[d], Visible', votes', net')
    <3> SUFFICES ASSUME NEW d \in Coordinators
                 PROVE  RequestOK(co'[d], Visible', votes', net')
      OBVIOUS
    <3>1. CASE d = c
      BY Zenon, <3>1 DEF TypeOK
    <3>2. CASE d # c
      BY Zenon, <3>2, <1>RequestOKGrows DEF TypeOK, VisibleInv
    <3> QED
      BY Zenon, <3>1, <3>2
  <2> QED
    BY Zenon, <2>0, <2>1, <2>2 DEF VisibleInv
  \* The evaluation of the condition keeps VisibleInv.
<1>EvaluateVisible.
    ASSUME TypeOK, TypeOK', [Next]_vars, VisibleInv,
           NEW c \in Coordinators, NEW v \in Visible, NEW repairs,
           \A m \in repairs : m.type = "repair" /\ m.upd \in Chosen,
           Evaluate(c, v, repairs), UNCHANGED <<paxos, data, loaded, promises, votes>>
    PROVE  VisibleInv'
  <2> USE <1>EvaluateVisible
  <2>0. Chosen \subseteq Chosen' /\ co[c] \in Request
    BY Zenon, ChosenGrows DEF TypeOK
  <2>1. CASE Answer(c, v) /\ net' = net \cup repairs
    <3> DEFINE r == [Idle EXCEPT !.pc = "done", !.floor = co[c].floor, !.value = v]
    <3>1. RequestOK(r, Visible', votes', net')
      BY Zenon DEF RequestOK, Idle
    <3>2. co' = [co EXCEPT ![c] = r]
      BY Zenon, <2>1 DEF Answer
    <3> HIDE DEF r
    <3> QED
      BY Zenon, <2>0, <2>1, <3>1, <3>2, <1>CoVisible
  <2>2. CASE /\ Propose(c, co[c].ballot, "accept", 0)
             /\ net' = net \cup repairs \cup AcceptRequests(c, co[c].ballot)
    <3> DEFINE r == [co[c] EXCEPT !.pc = "accept", !.upd = co[c].ballot, !.min_ts = 0,
                       !.value = NoBallot, !.readers = {}, !.answers = {}]
    <3>1. RequestOK(r, Visible', votes', net')
      BY Zenon, <2>0, <2>2 DEF RequestOK, AcceptRequests, Visible, Request
    <3>2. co' = [co EXCEPT ![c] = r]
      BY ZenonT(30), <2>2 DEF Propose, TypeOK, Request
    <3>3. \A m \in net' \ net : m.type \in {"learn", "repair"} => m.upd \in Chosen'
      BY <2>0, <2>2 DEF AcceptRequests
    <3> HIDE DEF r
    <3> QED
      BY Zenon, <3>1, <3>2, <3>3, <1>CoVisible
  <2> QED
    BY Zenon, <2>1, <2>2 DEF Evaluate
  \* The step after a quorum of promises keeps VisibleInv: a repair only sends
  \* what a replica has learned.
<1>PreparedVisible.
    ASSUME TypeOK, TypeOK', [Next]_vars, VisibleInv,
           NEW c \in Coordinators, NEW S \in SUBSET co[c].answers,
           co[c].pc = "prepare", \A m \in S : m.type = "promise",
           Prepared(c, S), UNCHANGED <<paxos, data, loaded, promises, votes>>
    PROVE  VisibleInv'
  <2> USE <1>PreparedVisible
  <2>0. /\ S \in SUBSET AnswerMsg /\ co[c] \in Request
        /\ co[c].value \in Visible
        /\ \A m \in S : m.commit.upd \in Visible /\ m.row \in Visible
    BY Zenon DEF TypeOK, Request, VisibleInv, RequestOK
  <2>d. Chosen \subseteq Chosen' /\ Visible \subseteq Visible'
    BY Zenon, ChosenGrows
  <2>1. PICK acc \in Newest({m.accepted : m \in S}),
             mrc \in Newest({m.commit : m \in S}) :
          LET missing == ReplicasMissingMostRecentCommit(S, mrc)
          IN
          \/ /\ Propose(c, acc.upd, "replay", MinTimestampToUse(acc))
             /\ net' = net \cup AcceptRequests(c, acc.upd)
          \/ /\ missing # {}
             /\ co' = [co EXCEPT ![c].pc = "ballot",
                                 ![c].min_ts = MinTimestampToUse(acc),
                                 ![c].answers = {}]
             /\ net' = net \cup LearnRequests(mrc, missing)
          \/ \E v \in {m.row : m \in S} : Evaluate(c, v, {})
          \/ /\ co' = [co EXCEPT ![c].pc = "read", ![c].answers = {}]
             /\ net' = net
    BY ZenonT(30) DEF Prepared
  <2> DEFINE missing == ReplicasMissingMostRecentCommit(S, mrc)
  <2>2. mrc \in Proposal0 /\ mrc.upd \in Visible
    BY ZenonT(30), <2>0, SummaryType DEF Newest
  <2>3. missing # {} => mrc.upd \in Chosen
    <3>1. missing # {} => mrc # NoProposal
      BY Zenon DEF ReplicasMissingMostRecentCommit
    <3>2. mrc # NoProposal => mrc.upd \in Ballot
      BY Zenon, <2>2, ProposalType
    <3>3. NoBallot \notin Ballot
      BY Zenon, LwtAssumption DEF NoBallot, Ballot
    <3> QED
      BY Zenon, <2>2, <3>1, <3>2, <3>3 DEF Visible
  <2> HIDE DEF missing
  <2>4. CASE /\ Propose(c, acc.upd, "replay", MinTimestampToUse(acc))
             /\ net' = net \cup AcceptRequests(c, acc.upd)
    <3> DEFINE r == [co[c] EXCEPT !.pc = "replay", !.upd = acc.upd,
                       !.min_ts = MinTimestampToUse(acc),
                       !.value = NoBallot, !.readers = {}, !.answers = {}]
    <3>1. RequestOK(r, Visible', votes', net')
      BY Zenon, <2>0, <2>4 DEF RequestOK, AcceptRequests, Visible, Request
    <3>2. co' = [co EXCEPT ![c] = r]
      BY ZenonT(30), <2>4 DEF Propose, TypeOK, Request
    <3>3. \A m \in net' \ net : m.type \in {"learn", "repair"} => m.upd \in Chosen'
      BY <2>4 DEF AcceptRequests
    <3> HIDE DEF r
    <3> QED
      BY Zenon, <3>1, <3>2, <3>3, <1>CoVisible
  <2>5. CASE /\ missing # {}
             /\ co' = [co EXCEPT ![c].pc = "ballot",
                                 ![c].min_ts = MinTimestampToUse(acc),
                                 ![c].answers = {}]
             /\ net' = net \cup LearnRequests(mrc, missing)
    <3> DEFINE r == [co[c] EXCEPT !.pc = "ballot", !.min_ts = MinTimestampToUse(acc),
                                  !.answers = {}]
    <3>1. RequestOK(r, Visible', votes', net')
      BY Zenon, <2>0, <2>d DEF RequestOK, Request
    <3>2. co' = [co EXCEPT ![c] = r]
      BY Zenon, <2>5 DEF TypeOK, Request
    <3>3. \A m \in net' \ net : m.type \in {"learn", "repair"} => m.upd \in Chosen'
      BY SMTT(30), <2>d, <2>3, <2>5 DEF LearnRequests
    <3> HIDE DEF r
    <3> QED
      BY Zenon, <3>1, <3>2, <3>3, <1>CoVisible
  <2>6. CASE \E v \in {m.row : m \in S} : Evaluate(c, v, {})
    BY <2>0, <2>6, <1>EvaluateVisible
  <2>7. CASE /\ co' = [co EXCEPT ![c].pc = "read", ![c].answers = {}]
             /\ net' = net
    <3> DEFINE r == [co[c] EXCEPT !.pc = "read", !.answers = {}]
    <3>1. RequestOK(r, Visible', votes', net')
      BY Zenon, <2>0, <2>d DEF RequestOK, Request
    <3>2. co' = [co EXCEPT ![c] = r]
      BY Zenon, <2>7 DEF TypeOK, Request
    <3> HIDE DEF r
    <3> QED
      BY Zenon, <2>7, <3>1, <3>2, <1>CoVisible
  <2> QED
    BY Zenon, <2>1, <2>4, <2>5, <2>6, <2>7 DEF missing
  \* An answer to the coordinator's own read keeps VisibleInv.
<1>ReadReplyVisible.
    ASSUME TypeOK, TypeOK', [Next]_vars, VisibleInv,
           NEW c \in Coordinators, NEW a \in Participants,
           ReadReply(c, a), UNCHANGED <<paxos, data, loaded, promises, votes>>
    PROVE  VisibleInv'
  <2> USE <1>ReadReplyVisible
  <2> DEFINE got     == co[c].readers \cup {a}
             v       == Newer(co[c].value, data[a])
             stale   == {r \in got : Newer(data[r], v) # data[r]}
             repairs == RepairRequests(v, stale)
  <2>1. /\ co[c] \in Request /\ co[c].pc = "read"
        /\ co[c].value \in Ballot0 /\ data[a] \in Ballot0 /\ got \subseteq Participants
        /\ co[c].value \in Visible /\ data[a] \in Visible
        /\ RequestOK(co[c], Visible, votes, net)
    BY Zenon DEF TypeOK, Request, ReadReply, VisibleInv, RequestOK
  <2>2. v \in Ballot0 /\ v \in Visible
    BY Zenon, <2>1, NewerType
  <2> HIDE DEF v
  <2>3. \A m \in repairs : m.type = "repair" /\ m.upd \in Chosen
    <3> SUFFICES ASSUME NEW r \in got, Newer(data[r], v) # data[r]
                 PROVE  v \in Chosen
      BY DEF RepairRequests
    <3>1. data[r] \in Ballot0
      BY Zenon, <2>1 DEF TypeOK
    <3> QED
      BY Zenon, <2>2, <3>1, NewerType DEF Visible
  <2> HIDE DEF stale, got
  <2>4. CASE Evaluate(c, v, repairs)
    BY Zenon, <2>2, <2>3, <2>4, <1>EvaluateVisible
  <2>5. CASE /\ co' = [co EXCEPT ![c].readers = got, ![c].value = v]
             /\ UNCHANGED <<net, base, seen, refused>>
    <3> DEFINE r == [co[c] EXCEPT !.readers = got, !.value = v]
    <3>1. RequestOK(co[c], Visible', votes', net') /\ Visible \subseteq Visible'
      BY Zenon, <2>1, <1>RequestOKGrows, ChosenGrows
    <3>2. RequestOK(r, Visible', votes', net')
      BY Zenon, <2>1, <2>2, <3>1 DEF RequestOK, Request
    <3>3. co' = [co EXCEPT ![c] = r]
      BY ZenonT(30), <2>5 DEF TypeOK, Request
    <3> HIDE DEF r
    <3> QED
      BY ZenonT(30), <2>5, <3>2, <3>3, <1>CoVisible
  <2> QED
    BY Zenon, <2>4, <2>5 DEF ReadReply, got, v, stale
  \* The end of accept_proposal() keeps VisibleInv: a quorum of acceptances has
  \* chosen what is learned.
<1>OnAcceptRepliesVisible.
    ASSUME TypeOK, TypeOK', [Next]_vars, VisibleInv, NEW c \in Coordinators,
           NEW A \in SUBSET AnsweredBy(c, "accepted"), NEW R, NEW E,
           OnAcceptReplies(c, A, R, E), UNCHANGED <<paxos, data, loaded, promises, votes>>
    PROVE  VisibleInv'
  <2> USE <1>OnAcceptRepliesVisible
  <2> DEFINE own == co[c].pc = "accept"
             p   == [ballot |-> co[c].ballot, upd |-> co[c].upd]
             verdict == AcceptVerdict(co[c].live, A, R, E, own)
  <2>1. /\ co[c] \in Request /\ co[c].pc \in {"accept", "replay"}
        /\ RequestOK(co[c], Visible, votes, net) /\ co[c].value \in Visible
        /\ Chosen \subseteq Chosen' /\ Visible \subseteq Visible'
    BY Zenon, ChosenGrows DEF TypeOK, OnAcceptReplies, VisibleInv, RequestOK
  <2>2. CASE co' = [co EXCEPT ![c] = Idle] /\ net' = net
    <3>1. RequestOK(Idle, Visible', votes', net')
      BY Zenon DEF RequestOK, Idle, Visible
    <3> QED
      BY ZenonT(30), <2>2, <3>1, <1>CoVisible
  <2>3. CASE /\ verdict = "true"
             /\ co' = [co EXCEPT ![c].pc = IF own THEN "learn" ELSE "relearn",
                                 ![c].answers = {}]
             /\ net' = net \cup LearnRequests(p, Participants)
    <3> DEFINE r == [co[c] EXCEPT !.pc = IF own THEN "learn" ELSE "relearn",
                                  !.answers = {}]
    <3>0. Cardinality(A) = RequiredParticipants
      BY Zenon, <2>3 DEF AcceptVerdict
    <3>1. co[c].upd \in Chosen
      BY Zenon, <2>1, <3>0, AcceptedIsChosen
    <3>2. RequestOK(r, Visible', votes', net')
      BY Zenon, <2>1 DEF RequestOK, Request
    <3>3. co' = [co EXCEPT ![c] = r]
      BY Zenon, <2>3 DEF TypeOK, Request
    <3>4. \A m \in net' \ net : m.upd \in Chosen'
      BY <2>1, <2>3, <3>1 DEF LearnRequests
    <3> HIDE DEF r
    <3> QED
      BY Zenon, <3>2, <3>3, <3>4, <1>CoVisible
  <2>4. CASE /\ co' = [co EXCEPT ![c].pc = "ballot", ![c].upd = NoBallot,
                                 ![c].answers = {},
                                 ![c].min_ts = IF own THEN 0 ELSE @]
             /\ net' = net
    <3> DEFINE r == [co[c] EXCEPT !.pc = "ballot", !.upd = NoBallot,
                        !.answers = {}, !.min_ts = IF own THEN 0 ELSE @]
    <3>1. RequestOK(r, Visible', votes', net')
      BY Zenon, <2>1 DEF RequestOK, Request
    <3>2. co' = [co EXCEPT ![c] = r]
      BY Zenon, <2>4 DEF TypeOK, Request
    <3> HIDE DEF r
    <3> QED
      BY Zenon, <2>4, <3>1, <3>2, <1>CoVisible
  <2> QED
    BY Zenon, <2>2, <2>3, <2>4 DEF OnAcceptReplies, Fail
  \* Each step of a coordinator keeps VisibleInv.
<1>CoordinatorVisible.
    ASSUME TypeOK, TypeOK', [Next]_vars, VisibleInv, NEW c \in Coordinators,
           Coordinator(c), UNCHANGED <<paxos, data, loaded, promises, votes>>
    PROVE  VisibleInv'
  <2> USE <1>CoordinatorVisible
  <2>0. /\ co[c] \in Request /\ RequestOK(co[c], Visible, votes, net)
        /\ Visible \subseteq Visible' /\ NoBallot \in Visible'
    BY Zenon, ChosenGrows DEF TypeOK, VisibleInv, Visible
  <2>1. CASE \E alive \in Views : Begin(c, alive)
    <3>1. PICK alive \in Views : Begin(c, alive)
      BY Zenon, <2>1
    <3> DEFINE r == [Idle EXCEPT !.pc = "ballot", !.live = alive, !.floor = seen]
    <3>2. RequestOK(r, Visible', votes', net')
      BY Zenon, <2>0 DEF RequestOK, Idle
    <3> HIDE DEF r
    <3> QED
      BY Zenon, <3>1, <3>2, <1>CoVisible DEF Begin, r
  <2>2. CASE \E now \in 1..MaxTs, nonce \in Nonces : PrepareBallot(c, now, nonce)
    <3>1. PICK now \in 1..MaxTs, nonce \in Nonces : PrepareBallot(c, now, nonce)
      BY Zenon, <2>2
    <3>2. PICK b :
            /\ co[c].pc = "ballot"
            /\ co' = [co EXCEPT ![c].pc = "prepare", ![c].ballot = b,
                                ![c].answers = {}]
            /\ net' = net \cup {[type |-> "prepare", ballot |-> b,
                                 to |-> co[c].live]}
      BY Zenon, <3>1 DEF PrepareBallot
    <3> DEFINE r == [co[c] EXCEPT !.pc = "prepare", !.ballot = b, !.answers = {}]
    <3>3. RequestOK(r, Visible', votes', net')
      BY Zenon, <2>0, <3>2 DEF RequestOK, Request
    <3>4. co' = [co EXCEPT ![c] = r]
      BY Zenon, <3>2 DEF TypeOK, Request
    <3>5. \A m \in net' \ net : m.type \notin {"learn", "repair"}
      BY SMTT(30), <3>2
    <3> HIDE DEF r
    <3> QED
      BY Zenon, <3>3, <3>4, <3>5, <1>CoVisible
  <2>3. CASE \E Q \in SUBSET co[c].live : OnPromises(c, Q)
    BY Zenon, <2>3, <1>PreparedVisible DEF OnPromises
  <2>4. CASE \E m \in co[c].answers : OnOutdated(c, m)
    <3>1. PICK m \in co[c].answers : OnOutdated(c, m)
      BY Zenon, <2>4
    <3> DEFINE r == [co[c] EXCEPT !.pc = "ballot", !.answers = {}]
    <3>2. RequestOK(r, Visible', votes', net')
      BY Zenon, <2>0, <3>1 DEF RequestOK, Request, OnOutdated
    <3>3. co' = [co EXCEPT ![c] = r]
      BY ZenonT(30), <3>1 DEF OnOutdated, TypeOK, Request
    <3> HIDE DEF r
    <3> QED
      BY ZenonT(30), <3>1, <3>2, <3>3, <1>CoVisible DEF OnOutdated
  <2>5. CASE \E a \in Participants : ReadReply(c, a)
    BY Zenon, <2>5, <1>ReadReplyVisible
  <2>6. CASE \E accepts \in SUBSET AnsweredBy(c, "accepted"),
                rejects \in SUBSET AnsweredBy(c, "rejected") :
               \E errors \in SUBSET (co[c].live \ (accepts \cup rejects)) :
                 OnAcceptReplies(c, accepts, rejects, errors)
    BY Zenon, <2>6, <1>OnAcceptRepliesVisible
  <2>7. CASE LearnDone(c)
    <3> DEFINE d == [Idle EXCEPT !.pc = "done", !.floor = co[c].floor,
                                 !.value = co[c].upd]
               b == [co[c] EXCEPT !.pc = "ballot", !.upd = NoBallot, !.answers = {}]
    <3>1. /\ RequestOK(d, Visible', votes', net')
          /\ co[c].pc = "relearn" => RequestOK(b, Visible', votes', net')
      BY Zenon, <2>0 DEF RequestOK, Request, Idle
    <3>2. co' = [co EXCEPT ![c] = d] \/ (co[c].pc = "relearn" /\ co' = [co EXCEPT ![c] = b])
      BY Zenon, <2>7 DEF LearnDone, Answer, TypeOK, Request
    <3>3. net' = net
      BY Zenon, <2>7 DEF LearnDone
    <3> HIDE DEF d, b
    <3> QED
      BY Zenon, <3>1, <3>2, <3>3, <1>CoVisible
  <2>8. CASE Fail(c)
    <3>1. RequestOK(Idle, Visible', votes', net')
      BY Zenon, <2>0 DEF RequestOK, Idle
    <3> QED
      BY Zenon, <2>8, <3>1, <1>CoVisible DEF Fail
  <2> QED
    BY Zenon, <2>1, <2>2, <2>3, <2>4, <2>5, <2>6, <2>7, <2>8 DEF Coordinator
<1>1. Init => VisibleInv
  <2> SUFFICES ASSUME Init PROVE VisibleInv
    OBVIOUS
  <2>1. NoBallot \in Visible
    BY Zenon DEF Visible
  <2>2. RequestOK(Idle, Visible, votes, net)
    BY Zenon, <2>1 DEF RequestOK, Idle
  <2>3. \A a \in Participants : /\ data[a] = NoBallot
                                /\ paxos[a] = EmptyRow
                                /\ loaded[a] = NoLoad
    BY Zenon DEF Init
  <2>4. /\ EmptyRow.most_recent_commit.upd = NoBallot
        /\ NoLoad.commit.upd = NoBallot
    BY Zenon DEF EmptyRow, NoLoad, NoProposal
  <2>5. net = {} /\ \A c \in Coordinators : co[c] = Idle
    BY Zenon DEF Init
  <2> QED
    BY Zenon, <2>1, <2>2, <2>3, <2>4, <2>5 DEF VisibleInv
<1>2. TypeOK /\ TypeOK' /\ VisibleInv /\ [Next]_vars => VisibleInv'
  <2> SUFFICES ASSUME TypeOK, TypeOK', VisibleInv, [Next]_vars PROVE VisibleInv'
    OBVIOUS
  <2>1. CASE Next
    BY Zenon, <2>1, <1>ReplicaVisible, <1>CoordinatorVisible DEF Next
  <2>2. CASE UNCHANGED vars
    BY Zenon, <2>2 DEF vars, VisibleInv, Visible, Chosen
  <2> QED
    BY Zenon, <2>1, <2>2
<1> QED
  BY <1>1, <1>2, TypeCorrect, PTL DEF Spec

\* No dirty read: whatever a base table or a row of system.paxos shows as
\* decided was accepted by a quorum, for any number of replicas, coordinators
\* and rounds, and whatever is lost, late or fails.
THEOREM OnlyChosenVisible == Spec => []OnlyChosenIsVisible
<1>1. VisibleInv => OnlyChosenIsVisible
  BY Zenon DEF VisibleInv, OnlyChosenIsVisible, Visible
<1> QED
  BY <1>1, VisibleHolds, PTL
-----------------------------------------------------------------------------
(* The invariant behind the theorems of LwtPaxosAgree: what the promises   *)
(* of a quorum show, what later steps do not take back, and that replicas  *)
(* keep it.                                                                *)

Quorums     == {S \in SUBSET Participants : Cardinality(S) >= RequiredParticipants}
ReadQuorums == {S \in SUBSET Natural : Cardinality(S) >= ReadBlockFor}

Sent(b)        == \E m \in net : m.type = "prepare" /\ m.ballot = b
Proposals      == {m \in net : m.type = "accept"}
Proposing(b)   == \E m \in Proposals : m.ballot = b
Proposed(b, u) == \E m \in Proposals : m.ballot = b /\ m.upd = u

\* A proposal that a replica accepted, one that a quorum accepted, or none.
Voted(p)   == p = NoProposal \/ (Proposed(p.ballot, p.upd) /\ votes[p.ballot] # {})
Decided(p) == p = NoProposal \/ (Proposed(p.ballot, p.upd) /\ votes[p.ballot] \in Quorums)

\* A quorum has promised something newer than b without accepting under b, and
\* never will: b is never chosen.
Blocked(b) ==
  \E Q \in Quorums : \A a \in Q :
    a \notin votes[b] /\ paxos[a].in_progress_ballot.ts > b.ts

\* A replica that rejects b, now and later.
Rejects(a, b) ==
  /\ a \notin votes[b]
  /\ paxos[a].in_progress_ballot.ts >= b.ts /\ paxos[a].in_progress_ballot # b

\* What an answer shows of the acceptances of a before ballot b.
Shows(a, acc, mrc, b) ==
  \A x \in Ballot : x.ts < b.ts /\ a \in votes[x] => acc.ballot.ts >= x.ts \/ mrc.ballot.ts >= x.ts

\* Whatever may be chosen under a ballot before b is not newer than v.
LowerBound(b, v) ==
  \A n \in Proposals : n.ballot.ts < b.ts => Blocked(n.ballot) \/ n.upd.ts <= v.ts

\* Ballots and the promises made for them.
PromiseInv ==
  /\ \A b \in Ballot :
       /\ ~Sent(b) => promises[b] = {}
       /\ \A a \in promises[b] : paxos[a].in_progress_ballot.ts >= b.ts
       /\ \A a \in votes[b] : \E m \in Proposals : m.ballot = b /\ a \in m.to
  /\ \A b, d \in Ballot : b.ts = d.ts /\ promises[b] \cap promises[d] # {} => b = d
  /\ \A c, d \in Coordinators : co[c].ballot = co[d].ballot /\ co[c].ballot \in Ballot => c = d

\* The proposals of two ballots.
SafeAfter(m, n) ==
  \/ Blocked(n.ballot)
  \/ m.upd = n.upd
  \/ m.upd.ts > n.ballot.ts /\ base[m.upd].ts >= n.upd.ts

ProposalOK(m) ==
  /\ promises[m.ballot] \in Quorums
  /\ Proposed(m.upd, m.upd)
  /\ m.ballot # m.upd => votes[m.upd] # {}
  /\ m.upd.ts <= m.ballot.ts \/ Blocked(m.ballot)
  /\ base[m.upd].ts < m.upd.ts \/ Blocked(m.ballot)
  /\ base[m.upd] # m.upd
  /\ base[m.upd] \in Visible
ProposalInv ==
  /\ \A m \in Proposals : ProposalOK(m)
  /\ \A m, n \in Proposals : m.ballot = n.ballot => m = n
  /\ \A m, n \in Proposals : n.ballot.ts < m.ballot.ts => SafeAfter(m, n)
  /\ \A m \in net : m.type = "learn" => Decided([ballot |-> m.ballot, upd |-> m.upd])
  /\ \A u \in refused :
       /\ votes[u] = {}
       /\ \E m \in Proposals : m.ballot = u /\ \A a \in m.to : Rejects(a, u)

\* The rows of a replica, and what its prepare has loaded.
RowOK(a) ==
  /\ Voted(paxos[a].proposal) /\ Decided(paxos[a].most_recent_commit)
  /\ data[a].ts >= paxos[a].most_recent_commit.upd.ts
LoadOK(a) ==
  /\ Voted(loaded[a].accepted) /\ Decided(loaded[a].commit)
  /\ data[a].ts >= loaded[a].commit.upd.ts
  /\ loaded[a] # NoLoad =>
       /\ Sent(loaded[a].ballot)
       /\ loaded[a].ballot.ts > paxos[a].in_progress_ballot.ts
       /\ \A x \in Ballot : a \in votes[x] =>
            loaded[a].accepted.ballot.ts >= x.ts \/ loaded[a].commit.ballot.ts >= x.ts
ReplicaOK(a) == RowOK(a) /\ LoadOK(a)

\* The answers of a request.
PromiseOK(m, b) ==
  /\ m.from \in promises[b]
  /\ Voted(m.accepted) /\ Decided(m.commit)
  /\ m.commit.upd.ts <= m.row.ts /\ m.row.ts <= data[m.from].ts
  /\ Shows(m.from, m.accepted, m.commit, b)
AnswerOK(m, r) ==
  /\ m.type = "promise" => r.pc = "prepare" /\ PromiseOK(m, r.ballot)
  /\ m.type = "rejected" =>
       r.pc \in {"accept", "replay"} /\ m.from \in r.live /\ Rejects(m.from, r.ballot)

\* A row that the read of a request must find, or a newer one.
ReadOK(r) ==
  \E R \in ReadQuorums, w \in Ballot0 :
    /\ LowerBound(r.ballot, w)
    /\ \A a \in R : data[a].ts >= w.ts /\ (a \in r.readers => r.value.ts >= w.ts)

\* A quorum had promised the ballot of what was seen, before the request began.
FloorOK(r) ==
  \/ r.floor = NoBallot
  \/ \E k \in Proposals : \E P \in Quorums :
       /\ k.upd = r.floor /\ votes[k.ballot] \in Quorums
       /\ P \subseteq promises[k.ballot]
       /\ r.ballot \in Ballot => \A a \in P : a \in promises[r.ballot] => r.ballot.ts > k.ballot.ts

ReqOK(r) ==
  /\ r.ballot \in Ballot => Sent(r.ballot)
  /\ \A m \in r.answers : AnswerOK(m, r)
  /\ r.pc \in {"prepare", "read"} => ~Proposing(r.ballot)
  /\ r.pc = "read" => promises[r.ballot] \in Quorums /\ ReadOK(r) /\ r.readers \subseteq Natural
  /\ r.pc # "read" => r.readers = {}
  /\ r.pc \in {"accept", "learn"} => r.upd = r.ballot /\ Proposed(r.ballot, r.upd)
  /\ r.pc = "learn" => r.upd \in Chosen
  /\ r.pc \notin {"idle", "done"} => FloorOK(r)
  /\ r.pc = "done" => Newer(r.value, r.floor) = r.value

AgreeInv ==
  /\ PromiseInv /\ ProposalInv
  /\ \A a \in Participants : ReplicaOK(a)
  /\ \A c \in Coordinators : ReqOK(co[c])
  /\ seen \in Visible

-----------------------------------------------------------------------------
(* Quorums, and the parts of messages.                                     *)

LEMMA TsType ==
  /\ \A b \in Ballot0 : b.ts \in Nat /\ (b.ts = 0 => b = NoBallot)
  /\ \A b \in Ballot : b.ts \in Nat /\ b.ts > 0 /\ b \in Ballot0 /\ b # NoBallot
  /\ NoBallot \in Ballot0 /\ NoBallot.ts = 0 /\ NoBallot \notin Ballot
BY LwtAssumption DEF Ballot0, Ballot, NoBallot

LEMMA ProposalTs ==
  ASSUME TypeOK, NEW m \in Proposals
  PROVE  /\ m \in net /\ m.type = "accept" /\ m.ballot \in Ballot /\ m.upd \in Ballot
         /\ m.ballot.ts \in Nat /\ m.upd.ts \in Nat /\ m.upd.ts > 0 /\ m.ballot.ts > 0
         /\ base[m.upd] \in Ballot0 /\ base[m.upd].ts \in Nat
         /\ promises[m.ballot] \in SUBSET Participants /\ votes[m.ballot] \in SUBSET Participants
<1>1. m \in Message /\ m \in net /\ m.type = "accept"
  BY Zenon DEF Proposals, TypeOK
<1>2. m.ballot \in Ballot /\ m.upd \in Ballot
  BY Zenon, <1>1, MessageType
<1> QED
  BY Zenon, <1>1, <1>2, TsType DEF TypeOK

LEMMA QuorumType ==
  /\ \A Q \in Quorums : Q \in SUBSET Participants /\ Q # {}
  /\ \A Q \in Quorums : \A S \in SUBSET Participants : Q \subseteq S => S \in Quorums
<1>1. ASSUME NEW Q \in Quorums, Q = {} PROVE FALSE
  <2>1. Cardinality({}) = 0 /\ Cardinality(Q) >= RequiredParticipants
    BY Zenon, FS_EmptySet DEF Quorums
  <2> QED
    BY <1>1, <2>1, VotesFinite
<1>2. ASSUME NEW Q \in Quorums, NEW S \in SUBSET Participants, Q \subseteq S
      PROVE  S \in Quorums
  <2>1. Cardinality(Q) >= RequiredParticipants /\ Cardinality(Q) <= Cardinality(S)
        /\ Cardinality(Q) \in Nat /\ Cardinality(S) \in Nat /\ RequiredParticipants \in Nat
    BY Zenon, <1>2, VotesFinite DEF Quorums
  <2>2. Cardinality(S) >= RequiredParticipants
    BY <2>1
  <2> QED
    BY Zenon, <2>2 DEF Quorums
<1> QED
  BY Zenon, <1>1, <1>2 DEF Quorums

\* Two sets that are large enough meet.
LEMMA LargeSetsMeet ==
  ASSUME NEW U, IsFiniteSet(U), NEW Q \in SUBSET U, NEW R \in SUBSET U,
         Cardinality(Q) + Cardinality(R) > Cardinality(U)
  PROVE  \E a \in Q : a \in R
<1> SUFFICES ASSUME Q \cap R = {} PROVE FALSE
  BY Zenon
<1>1. IsFiniteSet(Q) /\ IsFiniteSet(R) /\ Q \cup R \in SUBSET U
  BY Zenon, FS_Subset
<1>2. Cardinality(Q \cup R) = Cardinality(Q) + Cardinality(R) - Cardinality(Q \cap R)
  BY Zenon, <1>1, FS_Union
<1>3. Cardinality(Q \cap R) = 0
  BY Zenon, FS_EmptySet
<1>4. Cardinality(Q \cup R) <= Cardinality(U) /\ Cardinality(U) \in Nat
      /\ Cardinality(Q) \in Nat /\ Cardinality(R) \in Nat
  BY Zenon, <1>1, FS_Subset, FS_CardinalityType
<1> QED
  BY SMTT(30), <1>2, <1>3, <1>4

LEMMA Sizes ==
  /\ IsFiniteSet(Participants) /\ IsFiniteSet(Natural) /\ IsFiniteSet(Pending)
  /\ Cardinality(Natural) \in Nat /\ Cardinality(Pending) \in Nat
  /\ Cardinality(Participants) = Cardinality(Natural) + Cardinality(Pending)
<1>1. IsFiniteSet(Natural) /\ IsFiniteSet(Pending) /\ Natural \cap Pending = {}
  BY Zenon, LwtAssumption
<1>2. Cardinality(Participants) = Cardinality(Natural) + Cardinality(Pending) - Cardinality(Natural \cap Pending)
  BY Zenon, <1>1, FS_Union DEF Participants
<1>3. Cardinality(Natural \cap Pending) = 0
  BY Zenon, <1>1, FS_EmptySet
<1>4. Cardinality(Natural) \in Nat /\ Cardinality(Pending) \in Nat
  BY Zenon, <1>1, FS_CardinalityType
<1> QED
  BY SMTT(30), <1>1, <1>2, <1>3, <1>4, VotesFinite

\* The arithmetic of get_paxos_participants(): any two quorums have a replica in
\* common, and so have the natural endpoints of a quorum and a QUORUM read.
LEMMA QuorumsMeet ==
  ASSUME NEW Q \in Quorums, NEW R \in Quorums
  PROVE  \E a \in Q : a \in R
<1>1. /\ Q \in SUBSET Participants /\ R \in SUBSET Participants
      /\ Cardinality(Q) >= RequiredParticipants /\ Cardinality(R) >= RequiredParticipants
      /\ Cardinality(Q) \in Nat /\ Cardinality(R) \in Nat
  BY Zenon, VotesFinite DEF Quorums
<1>2. Cardinality(Q) + Cardinality(R) > Cardinality(Participants)
  BY <1>1, Sizes DEF RequiredParticipants
<1> QED
  BY Zenon, <1>1, <1>2, Sizes, LargeSetsMeet

LEMMA ReadsMeet ==
  ASSUME NEW Q \in ReadQuorums, NEW R \in ReadQuorums
  PROVE  \E a \in Q : a \in R
<1>1. /\ Q \in SUBSET Natural /\ R \in SUBSET Natural /\ IsFiniteSet(Q) /\ IsFiniteSet(R)
      /\ Cardinality(Q) >= ReadBlockFor /\ Cardinality(R) >= ReadBlockFor
  BY Zenon, Sizes, FS_Subset DEF ReadQuorums
<1>2. Cardinality(Q) \in Nat /\ Cardinality(R) \in Nat
  BY Zenon, <1>1, FS_CardinalityType
<1>3. Cardinality(Q) + Cardinality(R) > Cardinality(Natural)
  BY <1>1, <1>2, Sizes DEF ReadBlockFor
<1> QED
  BY Zenon, <1>1, <1>3, Sizes, LargeSetsMeet

LEMMA QuorumReads ==
  ASSUME NEW Q \in Quorums
  PROVE  Q \cap Natural \in ReadQuorums
<1> DEFINE N == Q \cap Natural
           P == Q \cap Pending
<1>1. /\ Q \in SUBSET Participants /\ Cardinality(Q) >= RequiredParticipants
      /\ Cardinality(Q) \in Nat /\ Q = N \cup P /\ N \cap P = {}
  BY Zenon, VotesFinite, LwtAssumption DEF Quorums, Participants
<1>2. IsFiniteSet(N) /\ IsFiniteSet(P) /\ Cardinality(P) <= Cardinality(Pending)
  BY Zenon, Sizes, FS_Subset
<1>3. Cardinality(Q) = Cardinality(N) + Cardinality(P) - Cardinality(N \cap P)
  BY Zenon, <1>1, <1>2, FS_Union
<1>4. Cardinality(N) \in Nat /\ Cardinality(P) \in Nat /\ Cardinality(N \cap P) = 0
  BY Zenon, <1>1, <1>2, FS_CardinalityType, FS_EmptySet
<1>5. Cardinality(N) >= ReadBlockFor
  <2> HIDE DEF N, P
  <2> QED
    BY <1>1, <1>2, <1>3, <1>4, Sizes DEF ReadBlockFor, RequiredParticipants
<1> QED
  BY Zenon, <1>5 DEF ReadQuorums


-----------------------------------------------------------------------------
(* What a step does not take back.                                         *)

Grows ==
  /\ net \subseteq net'
  /\ \A b \in Ballot : votes[b] \subseteq votes'[b] /\ promises[b] \subseteq promises'[b]
  /\ \A a \in Participants :
       /\ data'[a].ts >= data[a].ts
       /\ \/ paxos'[a].in_progress_ballot = paxos[a].in_progress_ballot
          \/ paxos'[a].in_progress_ballot.ts > paxos[a].in_progress_ballot.ts
  /\ \A b \in Ballot : \A a \in votes'[b] : a \notin votes[b] =>
       /\ Accepts(b, paxos[a].in_progress_ballot)
       /\ loaded[a] = NoLoad
       /\ \E m \in Proposals : m.ballot = b /\ a \in m.to
  /\ \A b \in Ballot : \A a \in promises'[b] : a \notin promises[b] =>
       /\ Sent(b)
       /\ b.ts > paxos[a].in_progress_ballot.ts /\ paxos'[a].in_progress_ballot = b

\* Proposals that are new have no votes.
FreshProposals == \A m \in Proposals' : m \notin Proposals => votes'[m.ballot] = {}

RowTs(a) ==
  /\ paxos[a] \in PaxosRow /\ paxos[a].in_progress_ballot \in Ballot0
  /\ paxos[a].in_progress_ballot.ts \in Nat
  /\ data[a] \in Ballot0 /\ data[a].ts \in Nat
RowsTs == \A a \in Participants : RowTs(a)
LEMMA RowsTsHold == TypeOK => RowsTs
<1> SUFFICES ASSUME TypeOK, NEW a \in Participants PROVE RowTs(a)
  BY Zenon DEF RowsTs
<1>1. paxos[a] \in PaxosRow /\ data[a] \in Ballot0
  BY Zenon DEF TypeOK
<1>2. paxos[a].in_progress_ballot \in Ballot0
  BY Zenon, <1>1 DEF PaxosRow
<1> QED
  BY Zenon, <1>1, <1>2, TsType DEF RowTs

LEMMA RowTsHolds == TypeOK => \A a \in Participants : RowTs(a)
BY Zenon, RowsTsHold DEF RowsTs

LEMMA RowTsNext == TypeOK' => \A a \in Participants : RowTs(a)'
<1>1. TypeOK' => RowsTs'
  BY RowsTsHold, PTL
<1> QED
  BY Zenon, <1>1 DEF RowsTs

LEMMA InProgressGrows ==
  ASSUME TypeOK, TypeOK', Grows, NEW a \in Participants
  PROVE  paxos'[a].in_progress_ballot.ts >= paxos[a].in_progress_ballot.ts
<1>1. RowTs(a) /\ RowTs(a)'
  BY Zenon, RowTsHolds, RowTsNext
<1>2. paxos[a].in_progress_ballot.ts \in Nat /\ paxos'[a].in_progress_ballot.ts \in Nat
  BY Zenon, <1>1 DEF RowTs
<1>3. \/ paxos'[a].in_progress_ballot = paxos[a].in_progress_ballot
      \/ paxos'[a].in_progress_ballot.ts > paxos[a].in_progress_ballot.ts
  BY Zenon DEF Grows
<1> QED
  BY <1>2, <1>3

\* A replica that has promised something newer does not accept.
LEMMA NoLateVote ==
  ASSUME TypeOK, Grows, NEW b \in Ballot, NEW a \in Participants, a \in votes'[b], a \notin votes[b]
  PROVE  /\ ~(paxos[a].in_progress_ballot.ts > b.ts)
         /\ ~Rejects(a, b)
<1>1. Accepts(b, paxos[a].in_progress_ballot)
  BY Zenon DEF Grows
<1>2. b.ts \in Nat /\ paxos[a].in_progress_ballot.ts \in Nat
  BY Zenon, TsType, RowTsHolds DEF RowTs
<1> QED
  BY <1>1, <1>2 DEF Accepts, Rejects

LEMMA BlockedGrows ==
  ASSUME TypeOK, TypeOK', Grows, NEW b \in Ballot, Blocked(b)
  PROVE  Blocked(b)'
<1>1. PICK Q \in Quorums : \A a \in Q : a \notin votes[b] /\ paxos[a].in_progress_ballot.ts > b.ts
  BY Zenon DEF Blocked
<1>2. ASSUME NEW a \in Q
      PROVE  a \notin votes'[b] /\ paxos'[a].in_progress_ballot.ts > b.ts
  <2>1. a \in Participants
    BY Zenon, QuorumType
  <2>2. b.ts \in Nat /\ paxos[a].in_progress_ballot.ts \in Nat /\ paxos'[a].in_progress_ballot.ts \in Nat
    BY Zenon, <2>1, TsType, RowTsHolds, RowTsNext DEF RowTs
  <2>3. paxos'[a].in_progress_ballot.ts >= paxos[a].in_progress_ballot.ts
    BY Zenon, <2>1, InProgressGrows
  <2>4. a \notin votes'[b]
    BY Zenon, <1>1, <2>1, NoLateVote
  <2>5. paxos[a].in_progress_ballot.ts > b.ts
    BY Zenon, <1>1
  <2>6. paxos'[a].in_progress_ballot.ts > b.ts
    BY <2>2, <2>3, <2>5
  <2> QED
    BY Zenon, <2>4, <2>6
<1> QED
  BY Zenon, <1>2 DEF Blocked

LEMMA RejectsGrows ==
  ASSUME TypeOK, TypeOK', Grows, NEW b \in Ballot, NEW a \in Participants, Rejects(a, b)
  PROVE  Rejects(a, b)'
<1>1. b.ts \in Nat /\ paxos[a].in_progress_ballot.ts \in Nat /\ paxos'[a].in_progress_ballot.ts \in Nat
  BY Zenon, TsType, RowTsHolds, RowTsNext DEF RowTs
<1>2. \/ paxos'[a].in_progress_ballot = paxos[a].in_progress_ballot
      \/ paxos'[a].in_progress_ballot.ts > paxos[a].in_progress_ballot.ts
  BY Zenon DEF Grows
<1>3. a \notin votes'[b]
  BY Zenon, NoLateVote DEF Rejects
<1>4. /\ paxos[a].in_progress_ballot.ts >= b.ts /\ paxos[a].in_progress_ballot # b
  BY Zenon DEF Rejects
<1>5. paxos'[a].in_progress_ballot.ts >= b.ts /\ paxos'[a].in_progress_ballot # b
  BY <1>1, <1>2, <1>4
<1> QED
  BY Zenon, <1>3, <1>5 DEF Rejects

LEMMA ChosenNotBlocked ==
  ASSUME NEW b, votes[b] \in Quorums
  PROVE  ~Blocked(b)
BY Zenon, QuorumsMeet DEF Blocked

\* A ballot without votes that a quorum has overtaken.
LEMMA Overtaken ==
  ASSUME TypeOK, PromiseInv, NEW b \in Ballot, NEW d \in Ballot,
         promises[d] \in Quorums, b.ts < d.ts, votes[b] = {}
  PROVE  Blocked(b)
<1>1. ASSUME NEW a \in promises[d] PROVE a \notin votes[b] /\ paxos[a].in_progress_ballot.ts > b.ts
  <2>1. a \in Participants /\ paxos[a].in_progress_ballot.ts >= d.ts
    BY Zenon DEF PromiseInv, TypeOK
  <2>2. b.ts \in Nat /\ d.ts \in Nat /\ paxos[a].in_progress_ballot.ts \in Nat
    BY Zenon, <2>1, TsType, RowTsHolds DEF RowTs
  <2>3. paxos[a].in_progress_ballot.ts > b.ts
    BY <2>1, <2>2
  <2> QED
    BY Zenon, <2>3
<1> QED
  BY Zenon, <1>1 DEF Blocked

LEMMA MessagesGrow ==
  ASSUME TypeOK, TypeOK', Grows
  PROVE  /\ Proposals \subseteq Proposals'
         /\ \A b : Sent(b) => Sent(b)'
         /\ \A b, u : Proposed(b, u) => Proposed(b, u)'
         /\ \A p \in Proposal0 : (Voted(p) => Voted(p)') /\ (Decided(p) => Decided(p)')
<1>1. /\ Proposals \subseteq Proposals'
      /\ \A b : Sent(b) => Sent(b)'
  BY Zenon DEF Grows, Proposals, Sent
<1>2. \A b, u : Proposed(b, u) => Proposed(b, u)'
  BY Zenon, <1>1 DEF Proposed
<1>3. ASSUME NEW p \in Proposal0
      PROVE  (Voted(p) => Voted(p)') /\ (Decided(p) => Decided(p)')
  <2>1. CASE p = NoProposal
    BY Zenon, <2>1 DEF Voted, Decided
  <2>2. CASE p # NoProposal
    <3>1. p.ballot \in Ballot
      BY Zenon, <2>2, ProposalType
    <3>2. votes[p.ballot] \subseteq votes'[p.ballot] /\ votes'[p.ballot] \in SUBSET Participants
      BY ZenonT(60), <3>1 DEF Grows, TypeOK
    <3>3. Voted(p) => Voted(p)'
      BY Zenon, <1>2, <3>2 DEF Voted
    <3>4. Decided(p) => Decided(p)'
      BY Zenon, <1>2, <3>2, QuorumType DEF Decided
    <3> QED
      BY Zenon, <3>3, <3>4
  <2> QED
    BY Zenon, <2>1, <2>2
<1> QED
  BY Zenon, <1>1, <1>2, <1>3


-----------------------------------------------------------------------------
(* What holds of a request, and of a replica, while others move.           *)

LEMMA AnswerType2 ==
  ASSUME NEW r \in Request, NEW m \in r.answers
  PROVE  /\ m.type = "promise" => m.from \in Participants /\ m.accepted \in Proposal0
                                  /\ m.commit \in Proposal0 /\ m.row \in Ballot0
         /\ m.from \in Participants
<1>1. m \in AnswerMsg
  BY Zenon DEF Request
<1> QED
  BY <1>1 DEF AnswerMsg

LEMMA PromiseStable ==
  ASSUME TypeOK, TypeOK', PromiseInv, Grows, NEW b \in Ballot, NEW m, PromiseOK(m, b),
         m.from \in Participants, m.accepted \in Proposal0, m.commit \in Proposal0, m.row \in Ballot0
  PROVE  PromiseOK(m, b)'
<1>1. m.from \in promises'[b]
  BY Zenon DEF PromiseOK, Grows
<1>2. Voted(m.accepted)' /\ Decided(m.commit)'
  BY Zenon, MessagesGrow DEF PromiseOK
<1>3. m.row.ts <= data'[m.from].ts
  <2>1. m.row.ts \in Nat /\ data[m.from].ts \in Nat /\ data'[m.from].ts \in Nat
    BY Zenon, TsType, RowTsHolds, RowTsNext DEF RowTs
  <2>2. m.row.ts <= data[m.from].ts /\ data'[m.from].ts >= data[m.from].ts
    BY Zenon DEF PromiseOK, Grows
  <2> QED
    BY SMTT(30), <2>1, <2>2
<1>4. ASSUME NEW x \in Ballot, x.ts < b.ts, m.from \in votes'[x]
      PROVE  m.accepted.ballot.ts >= x.ts \/ m.commit.ballot.ts >= x.ts
  <2>1. paxos[m.from].in_progress_ballot.ts >= b.ts
    BY Zenon DEF PromiseOK, PromiseInv
  <2>2. x.ts \in Nat /\ b.ts \in Nat /\ paxos[m.from].in_progress_ballot.ts \in Nat
    BY Zenon, TsType, RowTsHolds DEF RowTs
  <2>3. paxos[m.from].in_progress_ballot.ts > x.ts
    BY SMTT(30), <1>4, <2>1, <2>2
  <2>4. m.from \in votes[x]
    BY Zenon, <1>4, <2>3, NoLateVote
  <2> QED
    BY Zenon, <1>4, <2>4 DEF PromiseOK, Shows
<1>5. Shows(m.from, m.accepted, m.commit, b)'
  BY Zenon, <1>4 DEF Shows
<1> QED
  BY Zenon, <1>1, <1>2, <1>3, <1>5 DEF PromiseOK

LEMMA LowerBoundStable ==
  ASSUME TypeOK, TypeOK', PromiseInv, Grows, FreshProposals, NEW b \in Ballot, NEW w,
         LowerBound(b, w), promises[b] \in Quorums
  PROVE  LowerBound(b, w)'
<1> SUFFICES ASSUME NEW n \in Proposals', n.ballot.ts < b.ts
             PROVE  Blocked(n.ballot)' \/ n.upd.ts <= w.ts
  BY Zenon DEF LowerBound
<1>1. n.ballot \in Ballot
  BY Zenon, MessageType DEF Proposals, TypeOK
<1>2. CASE n \in Proposals
  BY Zenon, <1>1, <1>2, BlockedGrows DEF LowerBound
<1>3. CASE n \notin Proposals
  <2>1. votes[n.ballot] = {}
    BY Zenon, <1>1, <1>3 DEF FreshProposals, Grows
  <2> QED
    BY Zenon, <1>1, <2>1, Overtaken, BlockedGrows
<1> QED
  BY Zenon, <1>2, <1>3

LEMMA ReadStable ==
  ASSUME TypeOK, TypeOK', PromiseInv, Grows, FreshProposals, NEW r \in Request, r.ballot \in Ballot,
         ReadOK(r), promises[r.ballot] \in Quorums
  PROVE  ReadOK(r)' /\ promises'[r.ballot] \in Quorums
<1>1. PICK R \in ReadQuorums, w \in Ballot0 :
        /\ LowerBound(r.ballot, w)
        /\ \A a \in R : data[a].ts >= w.ts /\ (a \in r.readers => r.value.ts >= w.ts)
  BY Zenon DEF ReadOK
<1>2. LowerBound(r.ballot, w)'
  BY Zenon, <1>1, LowerBoundStable
<1>3. ASSUME NEW a \in R PROVE data'[a].ts >= w.ts /\ (a \in r.readers => r.value.ts >= w.ts)
  <2>1. a \in Participants
    BY Zenon DEF ReadQuorums, Participants
  <2>2. data[a].ts \in Nat /\ data'[a].ts \in Nat /\ w.ts \in Nat
    BY Zenon, <2>1, TsType, RowTsHolds, RowTsNext DEF RowTs
  <2>3. data'[a].ts >= data[a].ts /\ data[a].ts >= w.ts
    BY Zenon, <1>1, <2>1 DEF Grows
  <2>4. data'[a].ts >= w.ts
    BY <2>2, <2>3
  <2> QED
    BY Zenon, <1>1, <2>4
<1>4. ReadOK(r)'
  BY Zenon, <1>2, <1>3 DEF ReadOK
<1>5. promises'[r.ballot] \in Quorums
  <2>1. promises[r.ballot] \subseteq promises'[r.ballot] /\ promises'[r.ballot] \in SUBSET Participants
    BY Zenon DEF Grows, TypeOK
  <2> QED
    BY Zenon, <2>1, QuorumType
<1> QED
  BY Zenon, <1>4, <1>5

LEMMA FloorStable ==
  ASSUME TypeOK, TypeOK', PromiseInv, Grows, NEW r \in Request, FloorOK(r)
  PROVE  FloorOK(r)'
<1>1. CASE r.floor = NoBallot
  BY Zenon, <1>1 DEF FloorOK
<1>2. CASE r.floor # NoBallot
  <2>1. PICK k \in Proposals : \E P \in Quorums :
          /\ k.upd = r.floor /\ votes[k.ballot] \in Quorums
          /\ P \subseteq promises[k.ballot]
          /\ r.ballot \in Ballot => \A a \in P : a \in promises[r.ballot] => r.ballot.ts > k.ballot.ts
    BY Zenon, <1>2 DEF FloorOK
  <2>2. PICK P \in Quorums :
          /\ k.upd = r.floor /\ votes[k.ballot] \in Quorums
          /\ P \subseteq promises[k.ballot]
          /\ r.ballot \in Ballot => \A a \in P : a \in promises[r.ballot] => r.ballot.ts > k.ballot.ts
    BY Zenon, <2>1
  <2>3. k \in Proposals' /\ k.ballot \in Ballot
    BY Zenon, MessagesGrow, ProposalTs
  <2>4. votes'[k.ballot] \in Quorums /\ P \subseteq promises'[k.ballot]
    <3>1. /\ votes[k.ballot] \subseteq votes'[k.ballot] /\ votes'[k.ballot] \in SUBSET Participants
          /\ promises[k.ballot] \subseteq promises'[k.ballot]
      BY Zenon, <2>3 DEF Grows, TypeOK
    <3> QED
      BY Zenon, <2>2, <3>1, QuorumType
  <2>5. ASSUME r.ballot \in Ballot, NEW a \in P, a \in promises'[r.ballot]
        PROVE  r.ballot.ts > k.ballot.ts
    <3>1. CASE a \in promises[r.ballot]
      BY Zenon, <2>2, <2>5, <3>1
    <3>2. CASE a \notin promises[r.ballot]
      <4>1. a \in Participants /\ a \in promises[k.ballot]
        BY Zenon, <2>2, QuorumType
      <4>2. r.ballot.ts > paxos[a].in_progress_ballot.ts /\ paxos[a].in_progress_ballot.ts >= k.ballot.ts
        BY Zenon, <2>3, <2>5, <3>2, <4>1 DEF Grows, PromiseInv
      <4>3. r.ballot.ts \in Nat /\ k.ballot.ts \in Nat /\ paxos[a].in_progress_ballot.ts \in Nat
        BY Zenon, <2>3, <2>5, <4>1, TsType, RowTsHolds DEF RowTs
      <4> QED
        BY <4>2, <4>3
    <3> QED
      BY Zenon, <3>1, <3>2
  <2> QED
    BY ZenonT(60), <2>2, <2>3, <2>4, <2>5 DEF FloorOK
<1> QED
  BY Zenon, <1>1, <1>2

\* A request that does not move.
Typed(r) == r \in Request /\ (r.pc \notin {"idle", "ballot", "done"} => r.ballot \in Ballot)

LEMMA AnswersStable ==
  ASSUME TypeOK, TypeOK', PromiseInv, Grows, NEW r, Typed(r), NEW m \in r.answers, AnswerOK(m, r)
  PROVE  AnswerOK(m, r)'
<1>1. r \in Request /\ (r.pc \in {"prepare", "accept", "replay"} => r.ballot \in Ballot)
  BY Zenon DEF Typed
<1>2. ASSUME m.type = "promise" PROVE r.pc = "prepare" /\ PromiseOK(m, r.ballot)'
  BY Zenon, <1>1, <1>2, AnswerType2, PromiseStable DEF AnswerOK
<1>3. ASSUME m.type = "rejected"
      PROVE  r.pc \in {"accept", "replay"} /\ m.from \in r.live /\ Rejects(m.from, r.ballot)'
  <2>1. r.pc \in {"accept", "replay"} /\ m.from \in r.live /\ Rejects(m.from, r.ballot)
    BY Zenon, <1>3 DEF AnswerOK
  <2>2. r.ballot \in Ballot /\ m.from \in Participants
    BY Zenon, <1>1, <2>1, AnswerType2
  <2> QED
    BY Zenon, <2>1, <2>2, RejectsGrows
<1> QED
  BY Zenon, <1>2, <1>3 DEF AnswerOK

LEMMA RequestStable ==
  ASSUME TypeOK, TypeOK', PromiseInv, Grows, FreshProposals, Chosen \subseteq Chosen',
         NEW r, Typed(r), ReqOK(r),
         \A m \in Proposals' : m \notin Proposals => m.ballot # r.ballot
  PROVE  ReqOK(r)'
<1>1. r.ballot \in Ballot => Sent(r.ballot)'
  BY Zenon, MessagesGrow DEF ReqOK
<1>2. \A m \in r.answers : AnswerOK(m, r)'
  BY Zenon, AnswersStable DEF ReqOK
<1>3. r.pc \in {"prepare", "read"} => ~Proposing(r.ballot)'
  BY Zenon DEF ReqOK, Proposing
<1>4. r.pc = "read" => promises'[r.ballot] \in Quorums /\ ReadOK(r)'
  <2> SUFFICES ASSUME r.pc = "read" PROVE promises'[r.ballot] \in Quorums /\ ReadOK(r)'
    BY Zenon
  <2>1. r \in Request /\ r.ballot \in Ballot /\ promises[r.ballot] \in Quorums /\ ReadOK(r)
    BY Zenon DEF Typed, ReqOK
  <2> QED
    BY Zenon, <2>1, ReadStable
<1>5. r.pc \in {"accept", "learn"} => r.upd = r.ballot /\ Proposed(r.ballot, r.upd)'
  BY Zenon, MessagesGrow DEF ReqOK
<1>6. r.pc = "learn" => r.upd \in Chosen'
  BY Zenon DEF ReqOK
<1>7. r.pc \notin {"idle", "done"} => FloorOK(r)'
  BY Zenon, FloorStable DEF ReqOK, Typed
<1>8. /\ r.pc = "done" => Newer(r.value, r.floor) = r.value
      /\ (r.pc = "read" => r.readers \subseteq Natural) /\ (r.pc # "read" => r.readers = {})
  BY Zenon DEF ReqOK
<1> QED
  BY Zenon, <1>1, <1>2, <1>3, <1>4, <1>5, <1>6, <1>7, <1>8 DEF ReqOK

\* What a replica keeps, it keeps true.
LEMMA VotedKept ==
  ASSUME TypeOK, TypeOK', Grows, NEW a \in Participants, RowOK(a),
         paxos'[a].proposal \in {paxos[a].proposal, NoProposal}
  PROVE  Voted(paxos[a].proposal)'
<1>1. PICK p : p = paxos[a].proposal
  BY Zenon
<1>2. Voted(p) /\ p \in Proposal0
  BY Zenon, <1>1 DEF RowOK, TypeOK, PaxosRow
<1>3. Voted(p)' /\ Voted(NoProposal)'
  BY Zenon, <1>2, MessagesGrow DEF Voted
<1>4. PICK q : q = paxos'[a].proposal
  BY Zenon
<1>5. Voted(q)'
  BY Zenon, <1>1, <1>3, <1>4
<1> QED
  BY Zenon, <1>4, <1>5

LEMMA DecidedKept ==
  ASSUME TypeOK, TypeOK', Grows, NEW a \in Participants, RowOK(a),
         paxos'[a].most_recent_commit = paxos[a].most_recent_commit
  PROVE  /\ Decided(paxos[a].most_recent_commit)'
         /\ data'[a].ts >= paxos'[a].most_recent_commit.upd.ts
<1>1. PICK p : p = paxos[a].most_recent_commit
  BY Zenon
<1>2. Decided(p) /\ p \in Proposal0 /\ data[a].ts >= p.upd.ts
  BY Zenon, <1>1 DEF RowOK, TypeOK, PaxosRow
<1>3. Decided(p)' /\ p = paxos'[a].most_recent_commit
  BY Zenon, <1>1, <1>2, MessagesGrow
<1>4. p.upd.ts \in Nat /\ data[a].ts \in Nat /\ data'[a].ts \in Nat /\ data'[a].ts >= data[a].ts
  BY ZenonT(60), <1>2, ProposalType, TsType, RowTsHolds, RowTsNext DEF RowTs, Grows
<1>5. data'[a].ts >= p.upd.ts
  BY <1>2, <1>4
<1> QED
  BY Zenon, <1>3, <1>5

LEMMA LoadKept ==
  ASSUME TypeOK, TypeOK', Grows, NEW a \in Participants, LoadOK(a),
         loaded'[a] = loaded[a], paxos'[a].in_progress_ballot = paxos[a].in_progress_ballot,
         \A x \in Ballot : a \in votes'[x] => a \in votes[x]
  PROVE  LoadOK(a)'
<1>1. PICK l : l = loaded[a]
  BY Zenon
<1>2. l \in Load /\ l.accepted \in Proposal0 /\ l.commit \in Proposal0 /\ l = loaded'[a]
  BY Zenon, <1>1 DEF TypeOK, Load
<1>3. Voted(l.accepted)' /\ Decided(l.commit)'
  BY Zenon, <1>1, <1>2, MessagesGrow DEF LoadOK
<1>4. data'[a].ts >= l.commit.upd.ts
  <2>1. l.commit.upd.ts \in Nat /\ data[a].ts \in Nat /\ data'[a].ts \in Nat
        /\ data'[a].ts >= data[a].ts /\ data[a].ts >= l.commit.upd.ts
    BY Zenon, <1>1, <1>2, ProposalType, TsType, RowTsHolds, RowTsNext DEF RowTs, Grows, LoadOK
  <2> QED
    BY <2>1
<1>5. l # NoLoad => /\ Sent(l.ballot)'
                    /\ l.ballot.ts > paxos'[a].in_progress_ballot.ts
                    /\ \A x \in Ballot : a \in votes'[x] =>
                         l.accepted.ballot.ts >= x.ts \/ l.commit.ballot.ts >= x.ts
  BY Zenon, <1>1, MessagesGrow DEF LoadOK
<1> QED
  BY Zenon, <1>2, <1>3, <1>4, <1>5 DEF LoadOK

-----------------------------------------------------------------------------
(* The promises and the proposals that were made.                          *)

UniqueBallots == \A c, d \in Coordinators : co[c].ballot = co[d].ballot /\ co[c].ballot \in Ballot => c = d

LEMMA PromisesStable ==
  ASSUME TypeOK, TypeOK', Grows, PromiseInv, UniqueBallots'
  PROVE  PromiseInv'
<1>1. ASSUME NEW b \in Ballot, ~Sent(b)' PROVE promises'[b] = {}
  <2>1. ~Sent(b)
    BY Zenon, <1>1, MessagesGrow
  <2> QED
    BY Zenon, <2>1 DEF Grows, PromiseInv
<1>2. ASSUME NEW b \in Ballot, NEW a \in promises'[b] PROVE paxos'[a].in_progress_ballot.ts >= b.ts
  <2>1. a \in Participants
    BY Zenon DEF TypeOK
  <2>2. b.ts \in Nat /\ paxos[a].in_progress_ballot.ts \in Nat /\ paxos'[a].in_progress_ballot.ts \in Nat
    BY Zenon, <2>1, TsType, RowTsHolds, RowTsNext DEF RowTs
  <2>3. CASE a \in promises[b]
    <3>1. paxos'[a].in_progress_ballot.ts >= paxos[a].in_progress_ballot.ts
          /\ paxos[a].in_progress_ballot.ts >= b.ts
      BY Zenon, <2>1, <2>3, InProgressGrows DEF PromiseInv
    <3> QED
      BY SMTT(30), <2>2, <3>1
  <2>4. CASE a \notin promises[b]
    <3>1. paxos'[a].in_progress_ballot = b
      BY Zenon, <2>4 DEF Grows
    <3> QED
      BY <2>2, <3>1
  <2> QED
    BY Zenon, <2>3, <2>4
<1>3. ASSUME NEW b \in Ballot, NEW a \in votes'[b] PROVE \E m \in Proposals' : m.ballot = b /\ a \in m.to
  <2>1. \E m \in Proposals : m.ballot = b /\ a \in m.to
    BY ZenonT(60) DEF Grows, PromiseInv
  <2> QED
    BY Zenon, <2>1, MessagesGrow
<1>4. ASSUME NEW b \in Ballot, NEW d \in Ballot, b.ts = d.ts,
             NEW a \in promises'[b], a \in promises'[d], a \notin promises[b]
      PROVE  b = d
  <2>1. a \in Participants
    BY Zenon DEF TypeOK
  <2>2. b.ts > paxos[a].in_progress_ballot.ts /\ paxos'[a].in_progress_ballot = b
    BY Zenon, <1>4 DEF Grows
  <2>3. CASE a \in promises[d]
    <3>1. paxos[a].in_progress_ballot.ts >= d.ts
      BY Zenon, <2>3 DEF PromiseInv
    <3>2. d.ts \in Nat /\ paxos[a].in_progress_ballot.ts \in Nat
      BY Zenon, <2>1, TsType, RowTsHolds DEF RowTs
    <3> QED
      BY <1>4, <2>2, <3>1, <3>2
  <2>4. CASE a \notin promises[d]
    BY Zenon, <1>4, <2>2, <2>4 DEF Grows
  <2> QED
    BY Zenon, <2>3, <2>4
<1>5. ASSUME NEW b \in Ballot, NEW d \in Ballot, b.ts = d.ts, promises'[b] \cap promises'[d] # {}
      PROVE  b = d
  <2>1. PICK a : a \in promises'[b] /\ a \in promises'[d]
    BY Zenon, <1>5
  <2>2. CASE a \in promises[b] /\ a \in promises[d]
    BY Zenon, <1>5, <2>2 DEF PromiseInv
  <2>3. CASE a \notin promises[b]
    BY Zenon, <1>4, <1>5, <2>1, <2>3
  <2>4. CASE a \notin promises[d]
    <3>1. d.ts = b.ts
      BY Zenon, <1>5
    <3>2. d = b
      BY Zenon, <1>4, <2>1, <2>4, <3>1
    <3> QED
      BY Zenon, <3>2
  <2> QED
    BY Zenon, <2>2, <2>3, <2>4
<1> QED
  BY ZenonT(60), <1>1, <1>2, <1>3, <1>5 DEF PromiseInv, UniqueBallots

\* No two proposals have the same timestamp, because no replica promises two
\* ballots that have.
LEMMA OneTimestamp ==
  ASSUME TypeOK, PromiseInv, NEW b \in Ballot, NEW d \in Ballot, b.ts = d.ts,
         promises[b] \in Quorums, promises[d] \in Quorums
  PROVE  b = d
BY Zenon, QuorumsMeet DEF PromiseInv

LEMMA OneProposal ==
  ASSUME TypeOK, PromiseInv, ProposalInv, NEW m \in Proposals, NEW n \in Proposals, m.ballot.ts = n.ballot.ts
  PROVE  m = n
<1>1. m.ballot \in Ballot /\ n.ballot \in Ballot
  BY Zenon, ProposalTs
<1>2. promises[m.ballot] \in Quorums /\ promises[n.ballot] \in Quorums
  BY Zenon DEF ProposalInv, ProposalOK
<1>3. m.ballot = n.ballot
  BY Zenon, <1>1, <1>2, OneTimestamp
<1> QED
  BY Zenon, <1>3 DEF ProposalInv

LEMMA ProposalStable ==
  ASSUME TypeOK, TypeOK', Grows, Visible \subseteq Visible', NEW m \in Proposals, ProposalOK(m),
         base'[m.upd] = base[m.upd]
  PROVE  ProposalOK(m)'
<1>1. m.ballot \in Ballot /\ m.upd \in Ballot
  BY Zenon, ProposalTs
<1>2. promises'[m.ballot] \in Quorums
  <2>1. promises[m.ballot] \in Quorums /\ promises[m.ballot] \subseteq promises'[m.ballot]
        /\ promises'[m.ballot] \in SUBSET Participants
    BY ZenonT(60), <1>1 DEF Grows, TypeOK, ProposalOK
  <2> QED
    BY Zenon, <2>1, QuorumType
<1>3. Proposed(m.upd, m.upd)'
  BY Zenon, MessagesGrow DEF ProposalOK
<1>4. m.ballot # m.upd => votes'[m.upd] # {}
  BY Zenon, <1>1 DEF Grows, ProposalOK
<1>5. Blocked(m.ballot) => Blocked(m.ballot)'
  BY Zenon, <1>1, BlockedGrows
<1> QED
  BY Zenon, <1>2, <1>3, <1>4, <1>5 DEF ProposalOK

LEMMA SafeStable ==
  ASSUME TypeOK, TypeOK', Grows, NEW m \in Proposals, NEW n \in Proposals, SafeAfter(m, n),
         base'[m.upd] = base[m.upd]
  PROVE  SafeAfter(m, n)'
<1>1. n.ballot \in Ballot
  BY Zenon, ProposalTs
<1> QED
  BY Zenon, <1>1, BlockedGrows DEF SafeAfter

\* The proposals of a step that makes none.
LearnsOK == \A m \in net : m.type = "learn" => Decided([ballot |-> m.ballot, upd |-> m.upd])
RefusedOK ==
  \A u \in refused : /\ votes[u] = {}
                     /\ \E m \in Proposals : m.ballot = u /\ \A a \in m.to : Rejects(a, u)

LEMMA LearnsStable ==
  ASSUME TypeOK, TypeOK', Grows, LearnsOK, NEW m \in net, m.type = "learn"
  PROVE  Decided([ballot |-> m.ballot, upd |-> m.upd])'
<1>1. m.ballot \in Ballot /\ m.upd \in Ballot
  BY Zenon, MessageType DEF TypeOK
<1>2. PICK p : p = [ballot |-> m.ballot, upd |-> m.upd]
  BY Zenon
<1>3. p \in Proposal0
  BY Zenon, <1>1, <1>2 DEF Proposal0, Proposal
<1>4. Decided(p)
  BY Zenon, <1>2 DEF LearnsOK
<1>5. Decided(p)'
  BY Zenon, <1>3, <1>4, MessagesGrow
<1> QED
  BY Zenon, <1>2, <1>5

LEMMA RefusedStable ==
  ASSUME TypeOK, TypeOK', Grows, ProposalInv, NEW u \in refused
  PROVE  /\ votes'[u] = {}
         /\ \E m \in Proposals' : m.ballot = u /\ \A a \in m.to : Rejects(a, u)'
<1>1. PICK m \in Proposals : m.ballot = u /\ \A a \in m.to : Rejects(a, u)
  BY Zenon DEF ProposalInv
<1>2. u \in Ballot /\ m.to \subseteq Participants
  <2>1. m \in Message /\ m.type = "accept"
    BY Zenon DEF Proposals, TypeOK
  <2>2. m.to \subseteq Participants
    BY <2>1 DEF Message
  <2> QED
    BY Zenon, <2>2 DEF TypeOK
<1>3. \A a \in m.to : Rejects(a, u)'
  BY Zenon, <1>1, <1>2, RejectsGrows
<1>4. ASSUME NEW a \in votes'[u] PROVE FALSE
  <2>1. a \in Participants /\ a \notin votes[u]
    BY Zenon, <1>2 DEF TypeOK, ProposalInv
  <2>2. PICK n \in Proposals : n.ballot = u /\ a \in n.to
    BY Zenon, <1>2, <2>1 DEF Grows
  <2>5. \A p, q \in Proposals : p.ballot = q.ballot => p = q
    BY Zenon DEF ProposalInv
  <2>6. n.ballot = m.ballot
    BY Zenon, <1>1, <2>2
  <2>3. n = m
    BY Zenon, <2>5, <2>6
  <2>4. Rejects(a, u)
    BY Zenon, <1>1, <2>2, <2>3
  <2> QED
    BY Zenon, <1>2, <2>1, <2>4, NoLateVote
<1>5. m \in Proposals'
  BY Zenon, MessagesGrow
<1> QED
  BY Zenon, <1>1, <1>3, <1>4, <1>5

LEMMA ProposalsStable ==
  ASSUME TypeOK, TypeOK', Grows, ProposalInv, Visible \subseteq Visible',
         Proposals' = Proposals, base' = base, LearnsOK', RefusedOK'
  PROVE  ProposalInv'
<1>1. \A m \in Proposals : ProposalOK(m)'
  BY Zenon, ProposalStable DEF ProposalInv
<1>2. \A m, n \in Proposals : n.ballot.ts < m.ballot.ts => SafeAfter(m, n)'
  BY Zenon, SafeStable DEF ProposalInv
<1>3. \A m, n \in Proposals : m.ballot = n.ballot => m = n
  BY Zenon DEF ProposalInv
<1> QED
  BY Zenon, <1>1, <1>2, <1>3 DEF ProposalInv, LearnsOK, RefusedOK


-----------------------------------------------------------------------------
(* Replicas.                                                               *)

\* The others do not move.
StaysPut(x) ==
  /\ paxos'[x] = paxos[x] /\ loaded'[x] = loaded[x] /\ data'[x] = data[x]
  /\ \A b \in Ballot : x \in votes'[b] => x \in votes[b]

\* A step that neither promises nor accepts.
LEMMA GrowsFrame ==
  ASSUME TypeOK, TypeOK', UNCHANGED <<promises, votes>>, net \subseteq net',
         \A a \in Participants : /\ data'[a].ts >= data[a].ts
                                 /\ paxos'[a].in_progress_ballot = paxos[a].in_progress_ballot
  PROVE  Grows
BY Zenon DEF Grows

\* What each step answers.
AnswerFits(b, stages, answer) ==
  \A c \in Coordinators : \A r \in Request :
    r = co[c] /\ r.ballot = b /\ r.pc \in stages /\ b \in Ballot => AnswerOK(answer, r)'

\* A step of a replica preserves the invariant.
LEMMA ReplicaAgree ==
  TypeOK /\ TypeOK' /\ [Next]_vars /\ VisibleInv /\ AcceptedIsRemembered /\ AgreeInv
  /\ (\E a \in Participants : Replica(a) /\ UNCHANGED <<net, base, seen, refused>>) => AgreeInv'
  \* A replica without a prepare.
<1>Unloaded.
    ASSUME TypeOK', NEW a \in Participants, loaded'[a] = NoLoad
    PROVE  LoadOK(a)'
  <2> USE <1>Unloaded
  <2>1. /\ NoLoad.accepted = NoProposal /\ NoLoad.commit = NoProposal /\ NoProposal.upd.ts = 0
        /\ data'[a].ts \in Nat
    BY Zenon, RowTsNext DEF RowTs, NoLoad, NoProposal, NoBallot
  <2>2. data'[a].ts >= NoProposal.upd.ts
    BY <2>1
  <2> QED
    BY Zenon, <2>1, <2>2 DEF LoadOK, Voted, Decided
<1>OthersSame.
    ASSUME TypeOK, NEW a \in Participants, Replica(a), NEW x \in Participants, x # a
    PROVE  StaysPut(x)
  <2> USE <1>OthersSame
  <2>1. /\ paxos \in [Participants -> PaxosRow] /\ data \in [Participants -> Ballot0]
        /\ loaded \in [Participants -> Load] /\ votes \in [Ballot -> SUBSET Participants]
    BY Zenon DEF TypeOK
  <2>2. \A m \in net : m.type = "accept" => m.ballot \in Ballot
    BY Zenon, MessageType DEF TypeOK
  <2>3. ASSUME NEW m \in net, PrepareLoad(a, m) PROVE StaysPut(x)
    BY Zenon, <2>1, <2>3 DEF PrepareLoad, StaysPut
  <2>4. ASSUME NEW m \in net, Accept(a, m) PROVE StaysPut(x)
    <3>1. /\ paxos'[x] = paxos[x] /\ loaded'[x] = loaded[x] /\ data'[x] = data[x]
      BY Zenon, <2>1, <2>4 DEF Accept
    <3>2. votes' = votes \/ votes' = [votes EXCEPT ![m.ballot] = votes[m.ballot] \cup {a}]
      BY Zenon, <2>4 DEF Accept
    <3>3. m.ballot \in Ballot
      BY Zenon, <2>2, <2>4 DEF Accept
    <3>4. ASSUME NEW b \in Ballot, x \in votes'[b] PROVE x \in votes[b]
      <4>1. votes'[b] = votes[b] \/ (b = m.ballot /\ votes'[b] = votes[m.ballot] \cup {a})
        BY Zenon, <2>1, <3>2, <3>3
      <4> QED
        BY Zenon, <3>4, <4>1
    <3> QED
      BY Zenon, <3>1, <3>4 DEF StaysPut
  <2>5. ASSUME NEW m \in net, LearnApply(a, m) \/ LearnSave(a, m) \/ ReadRepair(a, m) PROVE StaysPut(x)
    BY Zenon, <2>1, <2>5 DEF LearnApply, LearnSave, ReadRepair, StaysPut
  <2>6. ASSUME PreparePromise(a) \/ ReplicaRestart(a) PROVE StaysPut(x)
    BY Zenon, <2>1, <2>6 DEF PreparePromise, ReplicaRestart, StaysPut
  <2> QED
    BY Zenon, <2>3, <2>4, <2>5, <2>6 DEF Replica
<1>PromiseGrows.
    ASSUME TypeOK, TypeOK', NEW a \in Participants, ReplicaOK(a), PreparePromise(a), net' = net
    PROVE  /\ Grows
           /\ loaded[a] \in Load /\ loaded[a].ballot \in Ballot /\ loaded'[a] = NoLoad
           /\ paxos'[a].in_progress_ballot = loaded[a].ballot
           /\ paxos'[a].proposal = paxos[a].proposal
           /\ paxos'[a].most_recent_commit = paxos[a].most_recent_commit
           /\ a \in promises'[loaded[a].ballot]
  <2> USE <1>PromiseGrows
  <2>1. RowTs(a)
    BY Zenon, RowTsHolds
  <2>2. PICK b : b = loaded[a].ballot
    BY Zenon
  <2>3. loaded[a] # NoLoad /\ loaded[a] \in Load
    BY Zenon DEF TypeOK, PreparePromise
  <2>4. Sent(b) /\ b.ts > paxos[a].in_progress_ballot.ts
    BY Zenon, <2>2, <2>3 DEF ReplicaOK, LoadOK
  <2>5. b \in Ballot
    BY Zenon, <2>4, MessageType DEF Sent, TypeOK
  <2>6. paxos' = [paxos EXCEPT ![a] = save_paxos_promise(paxos[a], b)] /\ loaded' = [loaded EXCEPT ![a] = NoLoad]
        /\ promises' = [promises EXCEPT ![b] = promises[b] \cup {a}] /\ UNCHANGED <<data, votes>>
    BY Zenon, <2>2 DEF PreparePromise
  <2>7. /\ paxos \in [Participants -> PaxosRow] /\ loaded \in [Participants -> Load]
        /\ promises \in [Ballot -> SUBSET Participants]
    BY Zenon DEF TypeOK
  <2>8. paxos'[a] = save_paxos_promise(paxos[a], b) /\ loaded'[a] = NoLoad /\ a \in promises'[b]
        /\ (\A x \in Participants : x # a => paxos'[x] = paxos[x])
        /\ (\A d \in Ballot : d # b => promises'[d] = promises[d])
        /\ promises'[b] = promises[b] \cup {a}
    BY Zenon, <2>5, <2>6, <2>7
  <2>9. Newer(paxos[a].in_progress_ballot, b) = b
    <3>1. b.ts \in Nat /\ paxos[a].in_progress_ballot.ts \in Nat
      BY Zenon, <2>1, <2>5, TsType DEF RowTs
    <3> QED
      BY <2>4, <3>1 DEF Newer
  <2>10. /\ paxos'[a].in_progress_ballot = b
         /\ paxos'[a].proposal = paxos[a].proposal
         /\ paxos'[a].most_recent_commit = paxos[a].most_recent_commit
    <3>1. paxos[a] \in PaxosRow
      BY Zenon, <2>7
    <3> QED
      BY <2>8, <2>9, <3>1 DEF save_paxos_promise, PaxosRow
  <2>11. Grows
    <3>1. \A x \in Participants : data'[x].ts >= data[x].ts
      <4>1. \A x \in Participants : data[x].ts \in Nat
        BY Zenon, RowTsHolds DEF RowTs
      <4> QED
        BY <2>6, <4>1
    <3>2. \A x \in Participants : \/ paxos'[x].in_progress_ballot = paxos[x].in_progress_ballot
                                  \/ paxos'[x].in_progress_ballot.ts > paxos[x].in_progress_ballot.ts
      BY Zenon, <2>4, <2>8, <2>10
    <3>3. \A d \in Ballot : promises[d] \subseteq promises'[d]
      BY Zenon, <2>8
    <3>4. \A d \in Ballot : \A x \in promises'[d] : x \notin promises[d] => d = b /\ x = a
      BY Zenon, <2>8
    <3> QED
      BY ZenonT(60), <2>4, <2>6, <2>10, <3>1, <3>2, <3>3, <3>4 DEF Grows
  <2> QED
    BY Zenon, <2>2, <2>3, <2>5, <2>8, <2>10, <2>11
  \* What accept() and learn() write to the row.
<1>AcceptGrows.
    ASSUME TypeOK, TypeOK', NEW a \in Participants, NEW m \in net, Accept(a, m), net' = net
    PROVE  Grows
  <2> USE <1>AcceptGrows
  <2>1. m \in Proposals /\ m.ballot \in Ballot /\ loaded[a] = NoLoad /\ a \in m.to /\ m.upd \in Ballot
    BY ZenonT(60), MessageType DEF Accept, Proposals, TypeOK
  <2>2. /\ paxos \in [Participants -> PaxosRow] /\ votes \in [Ballot -> SUBSET Participants]
    BY Zenon DEF TypeOK
  <2>3. \A x \in Participants : data'[x].ts >= data[x].ts
    <3>1. (\A x \in Participants : data[x].ts \in Nat) /\ data' = data
      BY Zenon, RowTsHolds DEF RowTs, Accept
    <3> QED
      BY <3>1
  <2>4. CASE Accepts(m.ballot, paxos[a].in_progress_ballot)
    <3>1. PICK p : p = [ballot |-> m.ballot, upd |-> m.upd]
      BY Zenon
    <3>2. /\ paxos' = [paxos EXCEPT ![a] = save_paxos_proposal(paxos[a], p)]
          /\ votes' = [votes EXCEPT ![m.ballot] = votes[m.ballot] \cup {a}]
          /\ UNCHANGED <<data, promises>>
      BY Zenon, <2>4, <3>1 DEF Accept
    <3>3. /\ paxos'[a] = save_paxos_proposal(paxos[a], p)
          /\ \A x \in Participants : x # a => paxos'[x] = paxos[x]
          /\ votes'[m.ballot] = votes[m.ballot] \cup {a}
          /\ \A b \in Ballot : b # m.ballot => votes'[b] = votes[b]
      BY Zenon, <2>1, <2>2, <3>2
    <3>4. paxos'[a].in_progress_ballot = paxos[a].in_progress_ballot
      <4>1. paxos[a] \in PaxosRow
        BY Zenon, <2>2
      <4> QED
        BY <3>3, <4>1 DEF save_paxos_proposal, PaxosRow
    <3>5. \A b \in Ballot : votes[b] \subseteq votes'[b]
      BY Zenon, <3>3
    <3>6. \A b \in Ballot : \A x \in votes'[b] : x \notin votes[b] => b = m.ballot /\ x = a
      BY Zenon, <3>3
    <3>7. \A b \in Ballot : promises'[b] = promises[b]
      BY Zenon, <3>2
    <3>8. \A x \in Participants : paxos'[x].in_progress_ballot = paxos[x].in_progress_ballot
      BY Zenon, <3>3, <3>4
    <3> QED
      BY ZenonT(60), <2>1, <2>3, <2>4, <3>5, <3>6, <3>7, <3>8 DEF Grows
  <2>5. CASE ~Accepts(m.ballot, paxos[a].in_progress_ballot)
    <3>1. UNCHANGED <<paxos, promises, votes>>
      BY Zenon, <2>5 DEF Accept
    <3> QED
      BY Zenon, <2>3, <3>1, GrowsFrame
  <2> QED
    BY Zenon, <2>4, <2>5
<1>RowGrows.
    ASSUME TypeOK, TypeOK', NEW a \in Participants, NEW m \in net,
           LearnApply(a, m) \/ LearnSave(a, m) \/ ReadRepair(a, m), net' = net
    PROVE  Grows
  <2> USE <1>RowGrows
  <2>1. /\ data \in [Participants -> Ballot0] /\ paxos \in [Participants -> PaxosRow]
        /\ m.upd \in Ballot0
    BY ZenonT(60), MessageType, TsType DEF TypeOK, LearnApply, LearnSave, ReadRepair
  <2>2. UNCHANGED <<promises, votes>>
    BY Zenon DEF LearnApply, LearnSave, ReadRepair
  <2>3. ASSUME NEW x \in Participants PROVE data'[x].ts >= data[x].ts
    <3>1. data'[x] = data[x] \/ data'[x] = Newer(data[x], m.upd)
      BY Zenon, <2>1 DEF LearnApply, LearnSave, ReadRepair
    <3>2. data[x] \in Ballot0 /\ data[x].ts \in Nat
      BY Zenon, <2>1, TsType
    <3>3. Newer(data[x], m.upd).ts >= data[x].ts
      BY Zenon, <2>1, <3>2, NewerType
    <3> QED
      BY <3>1, <3>2, <3>3
  <2>4. ASSUME NEW x \in Participants PROVE paxos'[x].in_progress_ballot = paxos[x].in_progress_ballot
    <3>1. PICK p : p = [ballot |-> m.ballot, upd |-> m.upd]
      BY Zenon
    <3>2. paxos'[x] = paxos[x] \/ paxos'[x] = save_paxos_decision(paxos[x], p)
      BY Zenon, <2>1, <3>1 DEF LearnApply, LearnSave, ReadRepair
    <3>3. paxos[x] \in PaxosRow
      BY Zenon, <2>1
    <3> QED
      BY Zenon, <3>2, <3>3 DEF save_paxos_decision, PaxosRow
  <2> QED
    BY Zenon, <2>2, <2>3, <2>4, GrowsFrame
<1>ReplicaGrows.
    ASSUME TypeOK, TypeOK', NEW a \in Participants, ReplicaOK(a), Replica(a), net' = net
    PROVE  Grows
  <2> USE <1>ReplicaGrows
  <2>1. \A x \in Participants : data[x].ts >= data[x].ts
    <3>1. \A x \in Participants : data[x].ts \in Nat
      BY Zenon, RowTsHolds DEF RowTs
    <3> QED
      BY SMTT(30), <3>1
  <2>2. ASSUME NEW m \in net, PrepareLoad(a, m) PROVE Grows
    BY Zenon, <2>1, <2>2, GrowsFrame DEF PrepareLoad
  <2>3. ASSUME ReplicaRestart(a) PROVE Grows
    BY Zenon, <2>1, <2>3, GrowsFrame DEF ReplicaRestart
  <2> QED
    BY Zenon, <2>2, <2>3, <1>AcceptGrows, <1>RowGrows, <1>PromiseGrows DEF Replica
  \* What each step leaves at the replica.
<1>PrepareLoadOK.
    ASSUME TypeOK, TypeOK', Grows, AcceptedIsRemembered, NEW a \in Participants, ReplicaOK(a),
           NEW m \in net, PrepareLoad(a, m), net' = net
    PROVE  ReplicaOK(a)'
  <2> USE <1>PrepareLoadOK
  <2>1. UNCHANGED <<paxos, data, promises, votes>>
    BY Zenon DEF PrepareLoad
  <2>2. RowOK(a)'
    BY Zenon, <2>1, VotedKept, DecidedKept DEF ReplicaOK, RowOK
  <2>3. CASE loaded' = loaded
    BY Zenon, <2>1, <2>2, <2>3, LoadKept DEF ReplicaOK
  <2>4. CASE loaded' # loaded
    <3>1. PICK p, q, b : p = paxos[a].proposal /\ q = paxos[a].most_recent_commit /\ b = m.ballot
      BY Zenon
    <3>2. /\ loaded' = [loaded EXCEPT ![a] = [ballot |-> b, accepted |-> p, commit |-> q]]
          /\ Promises(b, paxos[a].in_progress_ballot) /\ m.type = "prepare"
      BY ZenonT(60), <2>4, <3>1 DEF PrepareLoad
    <3>3. loaded'[a] = [ballot |-> b, accepted |-> p, commit |-> q]
      BY Zenon, <3>2 DEF TypeOK
    <3>4. loaded'[a].ballot = b /\ loaded'[a].accepted = p /\ loaded'[a].commit = q
      BY <3>3
    <3>5. Voted(p)' /\ Decided(q)' /\ data'[a].ts >= q.upd.ts
      <4>1. p = paxos'[a].proposal /\ q = paxos'[a].most_recent_commit
        BY Zenon, <2>1, <3>1
      <4> QED
        BY Zenon, <2>2, <4>1 DEF RowOK
    <3>6. Sent(b)'
      BY Zenon, <3>1, <3>2 DEF Sent
    <3>7. b.ts > paxos'[a].in_progress_ballot.ts
      BY Zenon, <2>1, <3>2 DEF Promises
    <3>8. \A x \in Ballot : a \in votes'[x] => p.ballot.ts >= x.ts \/ q.ballot.ts >= x.ts
      BY Zenon, <2>1, <3>1 DEF AcceptedIsRemembered
    <3>9. LoadOK(a)'
      BY Zenon, <3>4, <3>5, <3>6, <3>7, <3>8 DEF LoadOK
    <3> QED
      BY Zenon, <2>2, <3>9 DEF ReplicaOK
  <2> QED
    BY Zenon, <2>3, <2>4
<1>AcceptOK.
    ASSUME TypeOK, TypeOK', Grows, NEW a \in Participants, ReplicaOK(a),
           NEW m \in net, Accept(a, m), net' = net
    PROVE  ReplicaOK(a)'
  <2> USE <1>AcceptOK
  <2>1. loaded'[a] = NoLoad /\ m \in Proposals /\ m.ballot \in Ballot /\ m.upd \in Ballot
    BY Zenon, MessageType DEF Accept, Proposals, TypeOK
  <2>2. PICK p : p = [ballot |-> m.ballot, upd |-> m.upd]
    BY Zenon
  <2>3. p.ballot = m.ballot /\ p.upd = m.upd
    BY Zenon, <2>2
  <2>4. \/ paxos'[a] = paxos[a]
        \/ paxos'[a] = save_paxos_proposal(paxos[a], p) /\ a \in votes'[m.ballot]
    <3>1. \/ paxos' = paxos
          \/ /\ paxos' = [paxos EXCEPT ![a] = save_paxos_proposal(paxos[a], p)]
             /\ votes' = [votes EXCEPT ![m.ballot] = votes[m.ballot] \cup {a}]
      BY Zenon, <2>2 DEF Accept
    <3>2. paxos \in [Participants -> PaxosRow] /\ votes \in [Ballot -> SUBSET Participants]
      BY Zenon DEF TypeOK
    <3> QED
      BY Zenon, <2>1, <3>1, <3>2
  <2>5. \/ paxos'[a] = paxos[a]
        \/ /\ paxos'[a].proposal \in {paxos[a].proposal, p} /\ a \in votes'[m.ballot]
           /\ paxos'[a].most_recent_commit = paxos[a].most_recent_commit
    <3>1. paxos[a] \in PaxosRow
      BY Zenon DEF TypeOK
    <3> QED
      BY SMTT(30), <2>4, <3>1 DEF save_paxos_proposal, PaxosRow, NewerProposal
  <2>6. Decided(paxos[a].most_recent_commit)' /\ data'[a].ts >= paxos'[a].most_recent_commit.upd.ts
    BY Zenon, <2>5, DecidedKept DEF ReplicaOK
  <2>7. Voted(paxos[a].proposal)'
    <3>1. CASE paxos'[a].proposal = paxos[a].proposal
      BY Zenon, <3>1, VotedKept DEF ReplicaOK
    <3>2. CASE paxos'[a].proposal = p /\ a \in votes'[m.ballot]
      <4>1. m \in Proposals'
        BY Zenon, <2>1, MessagesGrow
      <4>2. Voted(p)'
        BY Zenon, <2>3, <3>2, <4>1 DEF Voted, Proposed
      <4> QED
        BY Zenon, <3>2, <4>2
    <3> QED
      BY Zenon, <2>5, <3>1, <3>2
  <2> QED
    BY ZenonT(60), <2>1, <2>6, <2>7, <1>Unloaded DEF ReplicaOK, RowOK
<1>LearnOK.
    ASSUME TypeOK, TypeOK', Grows, LearnsOK, NEW a \in Participants, ReplicaOK(a),
           NEW m \in net, LearnSave(a, m), net' = net
    PROVE  ReplicaOK(a)'
  <2> USE <1>LearnOK
  <2>1. m.type = "learn" /\ m.ballot \in Ballot /\ m.upd \in Ballot
    BY ZenonT(60), MessageType DEF LearnSave, TypeOK
  <2>2. PICK p : p = [ballot |-> m.ballot, upd |-> m.upd]
    BY Zenon
  <2>3. p \in Proposal0 /\ p.upd = m.upd
    BY Zenon, <2>1, <2>2 DEF Proposal0, Proposal
  <2>4. paxos'[a] = save_paxos_decision(paxos[a], p) /\ UNCHANGED <<data, loaded, votes>>
    <3>1. paxos' = [paxos EXCEPT ![a] = save_paxos_decision(paxos[a], p)] /\ UNCHANGED <<data, loaded, votes>>
      BY Zenon, <2>2 DEF LearnSave
    <3> QED
      BY ZenonT(60), <3>1 DEF TypeOK
  <2>5. /\ paxos'[a].proposal \in {paxos[a].proposal, NoProposal}
        /\ paxos'[a].most_recent_commit \in {paxos[a].most_recent_commit, p}
        /\ paxos'[a].in_progress_ballot = paxos[a].in_progress_ballot
    <3>1. paxos[a] \in PaxosRow
      BY Zenon DEF TypeOK
    <3> QED
      BY SMTT(30), <2>4, <3>1 DEF save_paxos_decision, PaxosRow, NewerProposal
  <2>6. Voted(paxos[a].proposal)'
    BY Zenon, <2>5, VotedKept DEF ReplicaOK
  <2>7. LoadOK(a)'
    BY Zenon, <2>4, <2>5, LoadKept DEF ReplicaOK
  <2>8. Decided(paxos[a].most_recent_commit)' /\ data'[a].ts >= paxos'[a].most_recent_commit.upd.ts
    <3>1. CASE paxos'[a].most_recent_commit = paxos[a].most_recent_commit
      BY Zenon, <3>1, DecidedKept DEF ReplicaOK
    <3>2. CASE paxos'[a].most_recent_commit = p
      <4>1. Decided(p)'
        <5>1. Decided(p)
          BY Zenon, <2>1, <2>2 DEF LearnsOK
        <5> QED
          BY Zenon, <2>3, <5>1, MessagesGrow
      <4>2. data'[a].ts >= p.upd.ts
        <5>1. data'[a] = Newer(data[a], m.upd)
          BY Zenon, <2>4 DEF LearnSave
        <5>2. data[a] \in Ballot0 /\ m.upd \in Ballot0
          BY ZenonT(60), <2>1, TsType DEF TypeOK
        <5>3. Newer(data[a], m.upd).ts >= m.upd.ts
          BY Zenon, <5>2, NewerType
        <5> QED
          BY Zenon, <2>3, <5>1, <5>3
      <4> QED
        BY Zenon, <3>2, <4>1, <4>2
    <3> QED
      BY Zenon, <2>5, <3>1, <3>2
  <2> QED
    BY ZenonT(60), <2>6, <2>7, <2>8 DEF ReplicaOK, RowOK
<1>OwnReplicaOK.
    ASSUME TypeOK, TypeOK', Grows, LearnsOK, AcceptedIsRemembered, NEW a \in Participants, ReplicaOK(a),
           Replica(a), net' = net
    PROVE  ReplicaOK(a)'
  <2> USE <1>OwnReplicaOK
  <2>1. ASSUME NEW m \in net, LearnApply(a, m) \/ ReadRepair(a, m) PROVE ReplicaOK(a)'
    <3>1. UNCHANGED <<paxos, loaded, votes>>
      BY Zenon, <2>1 DEF LearnApply, ReadRepair
    <3>2. RowOK(a)'
      BY Zenon, <3>1, VotedKept, DecidedKept DEF ReplicaOK, RowOK
    <3>3. LoadOK(a)'
      BY Zenon, <3>1, LoadKept DEF ReplicaOK
    <3> QED
      BY Zenon, <3>2, <3>3 DEF ReplicaOK
  <2>2. ASSUME PreparePromise(a) \/ ReplicaRestart(a) PROVE ReplicaOK(a)'
    <3>1. /\ loaded'[a] = NoLoad /\ paxos'[a].proposal = paxos[a].proposal
          /\ paxos'[a].most_recent_commit = paxos[a].most_recent_commit
      <4>1. CASE PreparePromise(a)
        BY Zenon, <4>1, <1>PromiseGrows
      <4>2. CASE ReplicaRestart(a)
        BY ZenonT(60), <4>2 DEF ReplicaRestart, TypeOK
      <4> QED
        BY Zenon, <2>2, <4>1, <4>2
    <3>2. RowOK(a)'
      BY Zenon, <3>1, VotedKept, DecidedKept DEF ReplicaOK, RowOK
    <3> QED
      BY Zenon, <3>1, <3>2, <1>Unloaded DEF ReplicaOK
  <2> QED
    BY ZenonT(60), <2>1, <2>2, <1>PrepareLoadOK, <1>AcceptOK, <1>LearnOK DEF Replica
<1>ReplicasOK.
    ASSUME TypeOK, TypeOK', Grows, LearnsOK, AcceptedIsRemembered, NEW a \in Participants,
           \A x \in Participants : ReplicaOK(x), Replica(a), net' = net
    PROVE  \A x \in Participants : ReplicaOK(x)'
  <2> USE <1>ReplicasOK
  <2>1. ASSUME NEW x \in Participants, x # a PROVE ReplicaOK(x)'
    <3>1. StaysPut(x)
      BY Zenon, <2>1, <1>OthersSame
    <3>2. RowOK(x) /\ LoadOK(x) /\ paxos'[x] = paxos[x] /\ loaded'[x] = loaded[x]
          /\ \A b \in Ballot : x \in votes'[b] => x \in votes[b]
      BY Zenon, <3>1 DEF ReplicaOK, StaysPut
    <3>3. RowOK(x)'
      BY Zenon, <3>2, VotedKept, DecidedKept DEF RowOK
    <3>4. LoadOK(x)'
      BY Zenon, <3>2, LoadKept
    <3> QED
      BY Zenon, <3>3, <3>4 DEF ReplicaOK
  <2> QED
    BY Zenon, <2>1, <1>OwnReplicaOK
<1>AnswerAdded.
    ASSUME TypeOK, TypeOK', PromiseInv, Grows, FreshProposals, Chosen \subseteq Chosen', Proposals' = Proposals,
           \A c \in Coordinators : ReqOK(co[c]),
           NEW b, NEW stages, NEW answer, Respond(b, stages, answer),
           AnswerFits(b, stages, answer),
           stages \subseteq Stages \ {"idle", "ballot", "done"}
    PROVE  \A c \in Coordinators : ReqOK(co[c])'
  <2> USE <1>AnswerAdded
  <2> SUFFICES ASSUME NEW c \in Coordinators PROVE ReqOK(co[c])'
    BY Zenon
  <2>1. PICK r : r = co[c]
    BY Zenon
  <2>2. Typed(r) /\ ReqOK(r)
    BY ZenonT(60), <2>1 DEF Typed, TypeOK
  <2>3. ReqOK(r)'
    BY ZenonT(60), <2>2, RequestStable
  <2>4. CASE ~(r.ballot = b /\ r.pc \in stages)
    <3>1. co'[c] = r
      BY Zenon, <2>1, <2>4 DEF Respond
    <3> QED
      BY Zenon, <2>3, <3>1
  <2>5. CASE r.ballot = b /\ r.pc \in stages
    <3>1. PICK s : s = [r EXCEPT !.answers = r.answers \cup {answer}]
      BY Zenon
    <3>2. co'[c] = s
      BY Zenon, <2>1, <2>5, <3>1 DEF Respond
    <3>3. r \in Request /\ b \in Ballot
      BY Zenon, <2>2, <2>5 DEF Typed
    <3>4. /\ s.pc = r.pc /\ s.ballot = r.ballot /\ s.live = r.live /\ s.upd = r.upd /\ s.value = r.value
          /\ s.floor = r.floor /\ s.readers = r.readers /\ s.answers = r.answers \cup {answer}
      BY SMTT(30), <3>1, <3>3 DEF Request
    <3>5. AnswerOK(answer, r)'
      BY ZenonT(60), <2>1, <2>5, <3>3 DEF AnswerFits
    <3>6. \A m : AnswerOK(m, r)' => AnswerOK(m, s)'
      BY Zenon, <3>4 DEF AnswerOK
    <3>7. \A m \in s.answers : AnswerOK(m, s)'
      BY Zenon, <2>3, <3>4, <3>5, <3>6 DEF ReqOK
    <3>8. (ReadOK(r)' => ReadOK(s)') /\ (FloorOK(r)' => FloorOK(s)')
      BY Zenon, <3>4 DEF ReadOK, FloorOK
    <3>9. ReqOK(s)'
      BY Zenon, <2>3, <3>4, <3>7, <3>8 DEF ReqOK
    <3> QED
      BY Zenon, <3>2, <3>9
  <2> QED
    BY ZenonT(60), <2>4, <2>5
  \* Nothing is answered.
<1>NothingAnswered.
    ASSUME TypeOK, TypeOK', PromiseInv, Grows, FreshProposals, Chosen \subseteq Chosen', Proposals' = Proposals,
           NEW c \in Coordinators, ReqOK(co[c]), co'[c] = co[c]
    PROVE  ReqOK(co[c])'
  <2> USE <1>NothingAnswered
  <2>1. PICK r : r = co[c]
    BY Zenon
  <2>2. Typed(r) /\ ReqOK(r)
    BY Zenon, <2>1 DEF Typed, TypeOK
  <2>3. ReqOK(r)'
    BY Zenon, <2>2, RequestStable
  <2>4. r = co'[c]
    BY Zenon, <2>1
  <2> QED
    BY Zenon, <2>3, <2>4
  \* A promise says what the row held when it was read, and what the table holds.
<1>PromiseAnswer.
    ASSUME TypeOK, TypeOK', Grows, NEW a \in Participants, ReplicaOK(a), PreparePromise(a), net' = net,
           NEW b, b = loaded[a].ballot, NEW answer,
           answer = [type |-> "promise", from |-> a, accepted |-> loaded[a].accepted,
                     commit |-> loaded[a].commit, row |-> data[a]]
    PROVE  PromiseOK(answer, b)' /\ answer.type = "promise"
  <2> USE <1>PromiseAnswer
  <2>1. PICK l : l = loaded[a]
    BY Zenon
  <2>2. /\ answer.from = a /\ answer.accepted = l.accepted /\ answer.commit = l.commit
        /\ answer.row = data[a] /\ answer.type = "promise"
    BY <2>1
  <2>3. l # NoLoad /\ UNCHANGED <<data, votes>>
    BY Zenon, <2>1 DEF PreparePromise
  <2>4. l \in Load /\ l.accepted \in Proposal0 /\ l.commit \in Proposal0 /\ a \in promises'[b]
    BY ZenonT(60), <2>1, <1>PromiseGrows DEF TypeOK, Load
  <2>5. Voted(l.accepted)' /\ Decided(l.commit)'
    BY Zenon, <2>1, <2>4, MessagesGrow DEF ReplicaOK, LoadOK
  <2>6. l.commit.upd.ts <= data[a].ts /\ data[a].ts <= data'[a].ts
    <3>1. data[a].ts >= l.commit.upd.ts /\ data'[a] = data[a] /\ data[a].ts \in Nat /\ l.commit.upd.ts \in Nat
      BY ZenonT(60), <2>1, <2>3, <2>4, RowTsHolds, ProposalType, TsType DEF RowTs, ReplicaOK, LoadOK
    <3> QED
      BY <3>1
  <2>7. Shows(a, l.accepted, l.commit, b)'
    BY Zenon, <2>1, <2>3 DEF ReplicaOK, LoadOK, Shows
  <2> QED
    BY ZenonT(60), <2>2, <2>4, <2>5, <2>6, <2>7 DEF PromiseOK
  \* A rejection comes from a replica that never accepts.
<1>RejectAnswer.
    ASSUME TypeOK, TypeOK', Grows, ProposalInv, VisibleInv, NEW a \in Participants,
           NEW m \in net, Accept(a, m), ~Accepts(m.ballot, paxos[a].in_progress_ballot),
           NEW c \in Coordinators, co[c].ballot = m.ballot, co[c].pc \in {"accept", "replay"}
    PROVE  a \in co[c].live /\ Rejects(a, m.ballot)'
  <2> USE <1>RejectAnswer
  <2>1. m \in Proposals /\ a \in m.to /\ a \notin votes[m.ballot] /\ m.ballot \in Ballot
    BY ZenonT(60), MessageType DEF Accept, Proposals, TypeOK
  <2>2. PICK n : n = [type |-> "accept", ballot |-> co[c].ballot, upd |-> co[c].upd, to |-> co[c].live]
    BY Zenon
  <2>3. n \in net
    BY Zenon, <2>2 DEF VisibleInv, RequestOK
  <2>4. n.type = "accept" /\ n.ballot = m.ballot /\ n.to = co[c].live
    BY <2>2
  <2>5. \A p, q \in Proposals : p.ballot = q.ballot => p = q
    BY Zenon DEF ProposalInv
  <2>6. n = m
    BY ZenonT(60), <2>1, <2>3, <2>4, <2>5 DEF Proposals
  <2>7. Rejects(a, m.ballot)
    <3>1. m.ballot.ts \in Nat /\ paxos[a].in_progress_ballot.ts \in Nat
      BY ZenonT(60), <2>1, TsType, RowTsHolds DEF RowTs
    <3> QED
      BY SMTT(30), <2>1, <3>1 DEF Rejects, Accepts
  <2>8. PICK b : b = m.ballot
    BY Zenon
  <2>9. Rejects(a, b)'
    BY ZenonT(60), <2>1, <2>7, <2>8, RejectsGrows
  <2> QED
    BY ZenonT(60), <2>1, <2>4, <2>6, <2>8, <2>9
<1>ReplicaAnswers.
    ASSUME TypeOK, TypeOK', [Next]_vars, VisibleInv, Grows, PromiseInv, ProposalInv,
           \A c \in Coordinators : ReqOK(co[c]), NEW a \in Participants, ReplicaOK(a), Replica(a), net' = net
    PROVE  \A c \in Coordinators : ReqOK(co[c])'
  <2> USE <1>ReplicaAnswers
  <2>1. Proposals' = Proposals /\ Chosen \subseteq Chosen'
    BY Zenon, ChosenGrows DEF Proposals
  <2>2. FreshProposals
    BY Zenon, <2>1 DEF FreshProposals
  <2>3. ASSUME co' = co PROVE \A c \in Coordinators : ReqOK(co[c])'
    BY ZenonT(60), <2>1, <2>2, <2>3, <1>NothingAnswered
  <2>4. ASSUME NEW b, NEW stages, NEW type, NEW answer, Respond(b, stages, answer),
               stages \subseteq Stages \ {"idle", "ballot", "done"},
               answer.type \notin {"promise", "rejected"}
        PROVE  \A c \in Coordinators : ReqOK(co[c])'
    <3>1. AnswerFits(b, stages, answer)
      BY Zenon, <2>4 DEF AnswerOK, AnswerFits
    <3> QED
      BY ZenonT(60), <2>1, <2>2, <2>4, <3>1, <1>AnswerAdded
  <2>5. /\ {"prepare"} \subseteq Stages \ {"idle", "ballot", "done"}
        /\ {"accept", "replay"} \subseteq Stages \ {"idle", "ballot", "done"}
        /\ {"learn", "relearn"} \subseteq Stages \ {"idle", "ballot", "done"}
    BY DEF Stages
  <2>6. ASSUME NEW m \in net, PrepareLoad(a, m) PROVE \A c \in Coordinators : ReqOK(co[c])'
    <3>1. PICK answer : answer = [type |-> "outdated", from |-> a, promised |-> paxos[a].in_progress_ballot]
      BY Zenon
    <3>2. co' = co \/ Respond(m.ballot, {"prepare"}, answer)
      BY Zenon, <2>6, <3>1 DEF PrepareLoad
    <3>3. answer.type \notin {"promise", "rejected"}
      BY <3>1
    <3> QED
      BY ZenonT(60), <2>3, <2>4, <2>5, <3>2, <3>3
  <2>7. ASSUME NEW m \in net, LearnSave(a, m) PROVE \A c \in Coordinators : ReqOK(co[c])'
    <3>1. PICK answer : answer = [type |-> "learned", from |-> a]
      BY Zenon
    <3>2. Respond(m.ballot, {"learn", "relearn"}, answer)
      BY Zenon, <2>7, <3>1 DEF LearnSave
    <3>3. answer.type \notin {"promise", "rejected"}
      BY <3>1
    <3> QED
      BY ZenonT(60), <2>4, <2>5, <3>2, <3>3
  <2>8. ASSUME NEW m \in net, Accept(a, m) PROVE \A c \in Coordinators : ReqOK(co[c])'
    <3>1. PICK yes, no : yes = [type |-> "accepted", from |-> a] /\ no = [type |-> "rejected", from |-> a]
      BY Zenon
    <3>2. yes.type \notin {"promise", "rejected"} /\ no.type = "rejected" /\ no.from = a
      BY <3>1
    <3>3. CASE Accepts(m.ballot, paxos[a].in_progress_ballot)
      <4>1. Respond(m.ballot, {"accept", "replay"}, yes)
        BY ZenonT(60), <2>8, <3>1, <3>3 DEF Accept
      <4> QED
        BY ZenonT(60), <2>4, <2>5, <3>2, <4>1
    <3>4. CASE ~Accepts(m.ballot, paxos[a].in_progress_ballot)
      <4>1. Respond(m.ballot, {"accept", "replay"}, no)
        BY Zenon, <2>8, <3>1, <3>4 DEF Accept
      <4>2. PICK b : b = m.ballot
        BY Zenon
      <4>3. ASSUME NEW c \in Coordinators, NEW r \in Request, r = co[c], r.ballot = b,
                   r.pc \in {"accept", "replay"}
            PROVE  AnswerOK(no, r)'
        <5>1. a \in r.live /\ Rejects(a, m.ballot)'
          BY ZenonT(60), <2>8, <3>4, <4>2, <4>3, <1>RejectAnswer
        <5>2. Rejects(a, r.ballot)'
          BY Zenon, <4>2, <4>3, <5>1 DEF Rejects
        <5> QED
          BY Zenon, <3>2, <4>3, <5>1, <5>2 DEF AnswerOK
      <4>4. AnswerFits(b, {"accept", "replay"}, no)
        BY Zenon, <4>3 DEF AnswerFits
      <4>5. Respond(b, {"accept", "replay"}, no)
        BY ZenonT(60), <4>1, <4>2
      <4> QED
        BY ZenonT(60), <2>1, <2>2, <2>5, <4>4, <4>5, <1>AnswerAdded
    <3> QED
      BY Zenon, <3>3, <3>4
  <2>9. ASSUME PreparePromise(a) PROVE \A c \in Coordinators : ReqOK(co[c])'
    <3>1. PICK b, answer : /\ b = loaded[a].ballot
                           /\ answer = [type |-> "promise", from |-> a, accepted |-> loaded[a].accepted,
                                        commit |-> loaded[a].commit, row |-> data[a]]
      BY Zenon
    <3>2. Respond(b, {"prepare"}, answer)
      BY Zenon, <2>9, <3>1 DEF PreparePromise
    <3>3. PromiseOK(answer, b)' /\ answer.type = "promise"
      BY Zenon, <2>9, <3>1, <1>PromiseAnswer
    <3>4. AnswerFits(b, {"prepare"}, answer)
      BY Zenon, <3>3 DEF AnswerOK, AnswerFits
    <3> QED
      BY ZenonT(60), <2>1, <2>2, <2>5, <3>2, <3>4, <1>AnswerAdded
  <2>10. ASSUME NEW m \in net, LearnApply(a, m) \/ ReadRepair(a, m) PROVE co' = co
    BY Zenon, <2>10 DEF LearnApply, ReadRepair
  <2>11. ASSUME ReplicaRestart(a) PROVE co' = co
    BY Zenon, <2>11 DEF ReplicaRestart
  <2> QED
    BY ZenonT(60), <2>3, <2>6, <2>7, <2>8, <2>9, <2>10, <2>11 DEF Replica
  \* An answer leaves the ballots alone.
<1>ReplicaBallots.
    ASSUME TypeOK, PromiseInv, NEW a \in Participants, Replica(a)
    PROVE  UniqueBallots'
  <2> USE <1>ReplicaBallots
  <2>1. ASSUME NEW b, NEW stages, NEW answer, Respond(b, stages, answer), NEW c \in Coordinators
        PROVE  co'[c].ballot = co[c].ballot
    <3>1. co[c] \in Request
      BY Zenon DEF TypeOK
    <3>2. co'[c] = co[c] \/ co'[c] = [co[c] EXCEPT !.answers = co[c].answers \cup {answer}]
      BY Zenon, <2>1 DEF Respond
    <3> QED
      BY SMTT(30), <3>1, <3>2 DEF Request
  <2>2. co' = co \/ \E b, stages, answer : Respond(b, stages, answer)
    BY Zenon DEF Replica, PrepareLoad, PreparePromise, Accept, LearnApply, LearnSave, ReadRepair, ReplicaRestart
  <2>3. \A c \in Coordinators : co'[c].ballot = co[c].ballot
    BY Zenon, <2>1, <2>2
  <2>4. UniqueBallots
    BY Zenon DEF UniqueBallots, PromiseInv
  <2>5. ASSUME NEW c \in Coordinators, NEW d \in Coordinators, co'[c].ballot = co'[d].ballot, co'[c].ballot \in Ballot
        PROVE  c = d
    <3>1. co'[c].ballot = co[c].ballot /\ co'[d].ballot = co[d].ballot
      BY Zenon, <2>3
    <3> QED
      BY Zenon, <2>4, <2>5, <3>1 DEF UniqueBallots
  <2> QED
    BY Zenon, <2>5 DEF UniqueBallots
<1>OneReplica.
    ASSUME TypeOK, TypeOK', [Next]_vars, VisibleInv, AcceptedIsRemembered, AgreeInv,
           NEW a \in Participants, Replica(a), UNCHANGED <<net, base, seen, refused>>
    PROVE  AgreeInv'
  <2> USE <1>OneReplica
  <2>1. /\ PromiseInv /\ ProposalInv /\ (\A x \in Participants : ReplicaOK(x))
        /\ (\A c \in Coordinators : ReqOK(co[c])) /\ seen \in Visible
    BY Zenon DEF AgreeInv
  <2>2. Grows
    BY Zenon, <2>1, <1>ReplicaGrows
  <2>3. LearnsOK
    BY Zenon, <2>1 DEF ProposalInv, LearnsOK
  <2>4. Visible \subseteq Visible'
    BY Zenon, ChosenGrows
  <2>5. PromiseInv'
    BY Zenon, <2>1, <2>2, <1>ReplicaBallots, PromisesStable
  <2>6. ProposalInv'
    <3>1. LearnsOK'
      BY Zenon, <2>2, <2>3, LearnsStable DEF LearnsOK
    <3>2. Proposals' = Proposals
      BY Zenon DEF Proposals
    <3>3. RefusedOK'
      BY Zenon, <2>1, <2>2, RefusedStable DEF RefusedOK
    <3> QED
      BY ZenonT(60), <2>1, <2>2, <2>4, <3>1, <3>2, <3>3, ProposalsStable
  <2>7. \A x \in Participants : ReplicaOK(x)'
    BY ZenonT(60), <2>1, <2>2, <2>3, <1>ReplicasOK
  <2>8. \A c \in Coordinators : ReqOK(co[c])'
    BY ZenonT(60), <2>1, <2>2, <1>ReplicaAnswers
  <2> QED
    BY ZenonT(60), <2>1, <2>4, <2>5, <2>6, <2>7, <2>8 DEF AgreeInv
<1> QED
  BY Zenon, <1>OneReplica

-----------------------------------------------------------------------------
(* Coordinators.                                                           *)

LEMMA CoordinatorGrows ==
  ASSUME TypeOK, TypeOK', [Next]_vars, UNCHANGED <<paxos, data, loaded, promises, votes>>
  PROVE  Grows
<1>1. \A a \in Participants : data[a].ts >= data[a].ts
  <2>1. \A a \in Participants : data[a].ts \in Nat
    BY Zenon, RowTsHolds DEF RowTs
  <2> QED
    BY <2>1
<1> QED
  BY Zenon, <1>1, NetVotesGrow, GrowsFrame

\* A ballot that was not sent was not promised, and nothing is proposed under it.
LEMMA FreshBallot ==
  ASSUME TypeOK, PromiseInv, ProposalInv, NEW b \in Ballot, ~Sent(b)
  PROVE  promises[b] = {} /\ ~Proposing(b)
<1>1. promises[b] = {}
  BY Zenon DEF PromiseInv
<1>2. ASSUME NEW m \in Proposals, m.ballot = b PROVE FALSE
  <2>1. promises[b] \in Quorums
    BY Zenon, <1>2 DEF ProposalInv, ProposalOK
  <2> QED
    BY Zenon, <1>1, <2>1, QuorumType
<1> QED
  BY Zenon, <1>1, <1>2 DEF Proposing

\* A step of one coordinator, for the others and for the replicas.
LEMMA CoordinatorFrame ==
  ASSUME TypeOK, TypeOK', [Next]_vars, AgreeInv, Grows, FreshProposals,
         UNCHANGED <<paxos, data, loaded, promises, votes>>,
         NEW c \in Coordinators, NEW r, co' = [co EXCEPT ![c] = r], ReqOK(r)', ProposalInv',
         r.ballot \in {co[c].ballot, NoBallot} \/ ~Sent(r.ballot),
         \A m \in Proposals' : m \notin Proposals => m.ballot = co[c].ballot,
         seen' \in Visible'
  PROVE  AgreeInv'
<1>1. /\ PromiseInv /\ ProposalInv /\ (\A x \in Participants : ReplicaOK(x))
      /\ (\A d \in Coordinators : ReqOK(co[d]))
  BY Zenon DEF AgreeInv
<1>2. UniqueBallots
  BY Zenon, <1>1 DEF PromiseInv, UniqueBallots
<1>3. co'[c] = r /\ \A d \in Coordinators : d # c => co'[d] = co[d]
  BY Zenon DEF TypeOK
<1>4. ASSUME NEW d \in Coordinators, d # c, r.ballot = co[d].ballot, r.ballot \in Ballot PROVE FALSE
  <2>1. Sent(r.ballot)
    BY Zenon, <1>1, <1>4 DEF ReqOK
  <2>2. r.ballot # NoBallot
    BY Zenon, <1>4, TsType
  <2>3. co[c].ballot = co[d].ballot /\ co[c].ballot \in Ballot
    BY Zenon, <1>4, <2>1, <2>2
  <2> QED
    BY Zenon, <1>2, <1>4, <2>3 DEF UniqueBallots
<1>5. UniqueBallots'
  <2> SUFFICES ASSUME NEW d \in Coordinators, NEW e \in Coordinators,
                      co'[d].ballot = co'[e].ballot, co'[d].ballot \in Ballot, d # e
               PROVE  FALSE
    BY Zenon DEF UniqueBallots
  <2>1. CASE d = c
    BY Zenon, <1>3, <1>4, <2>1
  <2>2. CASE e = c
    BY Zenon, <1>3, <1>4, <2>2
  <2>3. CASE d # c /\ e # c
    <3>1. co'[d] = co[d] /\ co'[e] = co[e]
      BY Zenon, <1>3, <2>3
    <3> QED
      BY Zenon, <1>2, <3>1 DEF UniqueBallots
  <2> QED
    BY Zenon, <2>1, <2>2, <2>3
<1>6. PromiseInv'
  BY Zenon, <1>1, <1>5, PromisesStable
<1>7. ASSUME NEW x \in Participants PROVE ReplicaOK(x)'
  <2>1. RowOK(x) /\ LoadOK(x)
    BY Zenon, <1>1 DEF ReplicaOK
  <2>2. RowOK(x)'
    BY Zenon, <2>1, VotedKept, DecidedKept DEF RowOK
  <2>3. LoadOK(x)'
    BY Zenon, <2>1, LoadKept
  <2> QED
    BY Zenon, <2>2, <2>3 DEF ReplicaOK
<1>8. ASSUME NEW d \in Coordinators, d # c PROVE ReqOK(co[d])'
  <2>1. PICK q : q = co[d]
    BY Zenon
  <2>2. Typed(q) /\ ReqOK(q) /\ q = co'[d]
    BY ZenonT(60), <1>1, <1>3, <1>8, <2>1 DEF Typed, TypeOK
  <2>3. ASSUME NEW m \in Proposals', m \notin Proposals PROVE m.ballot # q.ballot
    <3>1. m.ballot = co[c].ballot /\ m.ballot \in Ballot
      BY Zenon, <2>3, MessageType DEF Proposals, TypeOK
    <3> QED
      BY Zenon, <1>2, <1>8, <2>1, <3>1 DEF UniqueBallots
  <2>4. Chosen \subseteq Chosen'
    BY Zenon, ChosenGrows
  <2>5. ReqOK(q)'
    BY Zenon, <1>1, <2>2, <2>3, <2>4, RequestStable
  <2> QED
    BY Zenon, <2>2, <2>5
<1>9. ReqOK(co[c])'
  BY Zenon, <1>3
<1>10. \A d \in Coordinators : ReqOK(co[d])'
  BY Zenon, <1>8, <1>9
<1> QED
  BY Zenon, <1>6, <1>7, <1>10 DEF AgreeInv

\* A step that proposes nothing.
LEMMA QuietStep ==
  ASSUME TypeOK, TypeOK', [Next]_vars, AgreeInv,
         UNCHANGED <<paxos, data, loaded, promises, votes, base>>,
         NEW c \in Coordinators, NEW r, co' = [co EXCEPT ![c] = r], ReqOK(r)',
         r.ballot \in {co[c].ballot, NoBallot} \/ ~Sent(r.ballot),
         Proposals' = Proposals, LearnsOK', RefusedOK',
         seen' \in Visible'
  PROVE  AgreeInv'
<1>1. Grows /\ ProposalInv
  BY Zenon, CoordinatorGrows DEF AgreeInv
<1>2. FreshProposals
  BY Zenon DEF FreshProposals
<1>3. Visible \subseteq Visible'
  BY Zenon, ChosenGrows
<1>4. ProposalInv'
  BY Zenon, <1>1, <1>3, ProposalsStable
<1> QED
  BY Zenon, <1>1, <1>2, <1>4, CoordinatorFrame


\* Requests that go back to the head of the loop, and the first one.
LEMMA SameFloor ==
  ASSUME TypeOK, TypeOK', PromiseInv, Grows, NEW q \in Request, FloorOK(q), NEW r,
         r.floor = q.floor, r.ballot = q.ballot
  PROVE  FloorOK(r)'
<1>1. FloorOK(q)'
  BY Zenon, FloorStable
<1> QED
  BY Zenon, <1>1 DEF FloorOK

LEMMA BackToBallot ==
  ASSUME TypeOK, TypeOK', PromiseInv, Grows, NEW q \in Request, ReqOK(q), q.pc # "idle", q.pc # "done", q.pc # "read",
         NEW r, r.pc = "ballot" \/ r.pc = "relearn", r.readers = q.readers, r.ballot = q.ballot, r.floor = q.floor, r.answers = {}
  PROVE  ReqOK(r)'
<1>1. FloorOK(r)'
  BY Zenon, SameFloor DEF ReqOK
<1>2. r.ballot \in Ballot => Sent(r.ballot)'
  BY Zenon, MessagesGrow DEF ReqOK
<1>3. r.pc \notin {"prepare", "read", "accept", "learn", "done"} /\ r.readers = {}
  BY Zenon DEF ReqOK
<1> QED
  BY Zenon, <1>1, <1>2, <1>3 DEF ReqOK

LEMMA RestOK ==
  ASSUME NEW r, r.pc = "idle" \/ (r.pc = "done" /\ Newer(r.value, r.floor) = r.value),
         r.ballot = NoBallot, r.answers = {}, r.readers = {}
  PROVE  ReqOK(r)'
<1>1. r.ballot \notin Ballot
  BY Zenon, TsType
<1>2. r.pc \notin {"prepare", "read", "accept", "learn"}
  BY Zenon
<1> QED
  BY Zenon, <1>1, <1>2 DEF ReqOK

\* What is left to show of a step that proposes and refuses nothing.
LEMMA PlainStep ==
  ASSUME TypeOK, TypeOK', [Next]_vars, AgreeInv, Grows,
         UNCHANGED <<paxos, data, loaded, promises, votes, base, refused>>,
         NEW c \in Coordinators, NEW r, co' = [co EXCEPT ![c] = r], ReqOK(r)',
         r.ballot \in {co[c].ballot, NoBallot} \/ ~Sent(r.ballot),
         \A m \in net' : m \notin net => m.type # "accept"
                         /\ (m.type = "learn" => Decided([ballot |-> m.ballot, upd |-> m.upd])'),
         seen' = seen \/ seen' \in Visible'
  PROVE  AgreeInv'
<1>1. ProposalInv /\ seen \in Visible /\ Visible \subseteq Visible' /\ net \subseteq net'
  BY Zenon, ChosenGrows DEF AgreeInv, Grows
<1>2. Proposals' = Proposals
  BY Zenon, <1>1 DEF Proposals
<1>3. LearnsOK'
  <2>1. LearnsOK
    BY Zenon, <1>1 DEF ProposalInv, LearnsOK
  <2>2. \A m \in net : m.type = "learn" => Decided([ballot |-> m.ballot, upd |-> m.upd])'
    BY Zenon, <2>1, LearnsStable
  <2> QED
    BY Zenon, <2>2 DEF LearnsOK
<1>4. RefusedOK'
  BY Zenon, <1>1, RefusedStable DEF RefusedOK
<1>5. seen' \in Visible'
  BY Zenon, <1>1
<1> QED
  BY Zenon, <1>2, <1>3, <1>4, <1>5, QuietStep

LEMMA BeginAgree ==
  ASSUME TypeOK, TypeOK', [Next]_vars, AgreeInv, NEW c \in Coordinators, NEW alive, Begin(c, alive),
         UNCHANGED <<paxos, data, loaded, promises, votes>>
  PROVE  AgreeInv'
<1>1. PICK r : r = [Idle EXCEPT !.pc = "ballot", !.live = alive, !.floor = seen]
  BY Zenon
<1>2. r.pc = "ballot" /\ r.floor = seen /\ r.ballot = NoBallot /\ r.answers = {} /\ r.readers = {}
  BY <1>1 DEF Idle
<1>3. co' = [co EXCEPT ![c] = r] /\ UNCHANGED <<net, base, seen, refused>>
  BY Zenon, <1>1 DEF Begin
<1>4. Proposals' = Proposals /\ Grows /\ Visible \subseteq Visible'
  BY Zenon, <1>3, CoordinatorGrows, ChosenGrows DEF Proposals
<1>5. ProposalInv /\ PromiseInv /\ seen \in Visible /\ r.ballot \notin Ballot
  BY Zenon, <1>2, TsType DEF AgreeInv
<1>6. FloorOK(r)'
  <2>1. CASE seen = NoBallot
    BY Zenon, <1>2, <2>1 DEF FloorOK
  <2>2. CASE seen \in Chosen
    <3>1. PICK k \in net : k.type = "accept" /\ k.upd = seen /\ Cardinality(votes[k.ballot]) >= RequiredParticipants
      BY Zenon, <2>2 DEF Chosen
    <3>2. k \in Proposals
      BY Zenon, <3>1 DEF Proposals
    <3>3. promises[k.ballot] \in Quorums
      BY Zenon, <1>5, <3>2 DEF ProposalInv, ProposalOK
    <3>4. votes[k.ballot] \in Quorums
      BY Zenon, <3>1, <3>2, ProposalTs DEF Quorums
    <3>5. k.upd = r.floor /\ votes'[k.ballot] \in Quorums /\ promises[k.ballot] \subseteq promises'[k.ballot]
      BY Zenon, <1>2, <3>1, <3>4
    <3> QED
      BY Zenon, <1>4, <1>5, <3>2, <3>3, <3>5 DEF FloorOK
  <2> QED
    BY Zenon, <1>5, <2>1, <2>2 DEF Visible
<1>7. r.pc \notin {"prepare", "read", "accept", "learn", "done"}
  BY Zenon, <1>2
<1>8. ReqOK(r)'
  BY ZenonT(60), <1>2, <1>5, <1>6, <1>7 DEF ReqOK
<1> QED
  BY ZenonT(60), <1>2, <1>3, <1>4, <1>8, PlainStep

LEMMA PrepareBallotAgree ==
  ASSUME TypeOK, TypeOK', [Next]_vars, AgreeInv, NEW c \in Coordinators, NEW now, NEW nonce,
         PrepareBallot(c, now, nonce), UNCHANGED <<paxos, data, loaded, promises, votes>>
  PROVE  AgreeInv'
<1>1. PICK b \in FreshBallots :
        /\ co[c].pc = "ballot"
        /\ co' = [co EXCEPT ![c].pc = "prepare", ![c].ballot = b, ![c].answers = {}]
        /\ net' = net \cup {[type |-> "prepare", ballot |-> b, to |-> co[c].live]}
        /\ UNCHANGED <<base, seen, refused>>
  BY Zenon DEF PrepareBallot
<1>2. b \in Ballot /\ ~Sent(b)
  BY Zenon DEF FreshBallots, Sent
<1>3. PICK q : q = co[c]
  BY Zenon
<1>4. q \in Request /\ ReqOK(q) /\ PromiseInv /\ ProposalInv /\ Grows
  BY ZenonT(60), <1>3, CoordinatorGrows DEF AgreeInv, TypeOK
<1>5. PICK r : r = [q EXCEPT !.pc = "prepare", !.ballot = b, !.answers = {}]
  BY Zenon
<1>6. r.pc = "prepare" /\ r.ballot = b /\ r.answers = {} /\ r.floor = q.floor /\ r.readers = q.readers
  BY SMTT(30), <1>4, <1>5 DEF Request
<1>7. co' = [co EXCEPT ![c] = r]
  BY ZenonT(60), <1>1, <1>3, <1>5 DEF TypeOK, Request
<1>8. PICK p : p = [type |-> "prepare", ballot |-> b, to |-> co[c].live]
  BY Zenon
<1>9. p.type = "prepare" /\ p.ballot = b
  BY <1>8
<1>10. net' = net \cup {p}
  BY Zenon, <1>1, <1>8
<1>11. Proposals' = Proposals /\ Sent(b)'
  BY SMTT(30), <1>9, <1>10 DEF Proposals, Sent
<1>12. promises[b] = {} /\ ~Proposing(b)
  BY Zenon, <1>2, <1>4, FreshBallot
<1>13. FloorOK(r)'
  <2>1. CASE q.floor = NoBallot
    BY Zenon, <1>6, <2>1 DEF FloorOK
  <2>2. CASE q.floor # NoBallot
    <3>1. FloorOK(q)
      BY Zenon, <1>1, <1>3, <1>4 DEF ReqOK
    <3>2. PICK k \in Proposals : \E P \in Quorums :
            k.upd = q.floor /\ votes[k.ballot] \in Quorums /\ P \subseteq promises[k.ballot]
      BY Zenon, <2>2, <3>1 DEF FloorOK
    <3>3. PICK P \in Quorums :
            k.upd = q.floor /\ votes[k.ballot] \in Quorums /\ P \subseteq promises[k.ballot]
      BY Zenon, <3>2
    <3>4. \A a \in P : a \notin promises'[r.ballot]
      BY Zenon, <1>6, <1>12
    <3> QED
      BY ZenonT(60), <1>6, <1>11, <3>3, <3>4 DEF FloorOK
  <2> QED
    BY Zenon, <2>1, <2>2
<1>14. ReqOK(r)'
  <2>1. ~Proposing(r.ballot)'
    BY Zenon, <1>6, <1>11, <1>12 DEF Proposing
  <2>2. r.pc \notin {"read", "accept", "learn", "done"} /\ r.readers = {}
    BY Zenon, <1>1, <1>3, <1>4, <1>6 DEF ReqOK
  <2> QED
    BY ZenonT(60), <1>6, <1>11, <1>13, <2>1, <2>2 DEF ReqOK
<1>15. \A m \in net' : m \notin net => m.type # "accept" /\ m.type # "learn"
  BY SMTT(30), <1>9, <1>10
<1> QED
  BY ZenonT(60), <1>1, <1>2, <1>4, <1>6, <1>7, <1>14, <1>15, PlainStep

LEMMA FailAgree ==
  ASSUME TypeOK, TypeOK', [Next]_vars, AgreeInv, NEW c \in Coordinators, Fail(c),
         UNCHANGED <<paxos, data, loaded, promises, votes>>
  PROVE  AgreeInv'
<1>1. PICK r : r = Idle
  BY Zenon
<1>2. r.pc = "idle" /\ r.ballot = NoBallot /\ r.answers = {} /\ r.readers = {}
  BY <1>1 DEF Idle
<1>3. ReqOK(r)'
  BY Zenon, <1>2, RestOK
<1>4. co' = [co EXCEPT ![c] = r] /\ UNCHANGED <<net, base, seen, refused>> /\ Grows
  BY Zenon, <1>1, CoordinatorGrows DEF Fail
<1> QED
  BY ZenonT(60), <1>2, <1>3, <1>4, PlainStep

LEMMA OnOutdatedAgree ==
  ASSUME TypeOK, TypeOK', [Next]_vars, AgreeInv, NEW c \in Coordinators, NEW m, OnOutdated(c, m),
         UNCHANGED <<paxos, data, loaded, promises, votes>>
  PROVE  AgreeInv'
<1>1. PICK q : q = co[c]
  BY ZenonT(60)
<1>2. q \in Request /\ ReqOK(q) /\ PromiseInv /\ Grows
  BY ZenonT(60), <1>1, CoordinatorGrows DEF AgreeInv, TypeOK
<1>3. PICK r : r = [q EXCEPT !.pc = "ballot", !.answers = {}]
  BY Zenon
<1>4. r.pc = "ballot" /\ r.ballot = q.ballot /\ r.answers = {} /\ r.floor = q.floor /\ r.readers = q.readers
  BY SMTT(30), <1>2, <1>3 DEF Request
<1>5. /\ q.pc = "prepare" /\ UNCHANGED <<net, base, seen, refused>>
      /\ co' = [co EXCEPT ![c].pc = "ballot", ![c].answers = {}]
  BY Zenon, <1>1 DEF OnOutdated
<1>6. co' = [co EXCEPT ![c] = r]
  BY ZenonT(30), <1>1, <1>3, <1>5 DEF TypeOK, Request
<1>8. q.pc # "idle" /\ q.pc # "done" /\ q.pc # "read"
  BY Zenon, <1>5
<1>7. ReqOK(r)'
  BY Zenon, <1>2, <1>4, <1>8, BackToBallot
<1> QED
  BY ZenonT(60), <1>1, <1>2, <1>4, <1>5, <1>6, <1>7, PlainStep

-----------------------------------------------------------------------------
(* Answers.                                                                *)

\* What was seen before the request began was proposed under an earlier ballot.
LEMMA FloorBelow ==
  ASSUME TypeOK, ProposalInv, NEW q \in Request, FloorOK(q), q.floor # NoBallot,
         q.ballot \in Ballot, promises[q.ballot] \in Quorums
  PROVE  \E k \in Proposals : /\ k.upd = q.floor /\ votes[k.ballot] \in Quorums
                              /\ k.ballot.ts < q.ballot.ts /\ k.upd.ts <= k.ballot.ts
<1>1. PICK k \in Proposals : \E P \in Quorums :
        /\ k.upd = q.floor /\ votes[k.ballot] \in Quorums
        /\ \A a \in P : a \in promises[q.ballot] => q.ballot.ts > k.ballot.ts
  BY Zenon DEF FloorOK
<1>2. PICK P \in Quorums :
        /\ k.upd = q.floor /\ votes[k.ballot] \in Quorums
        /\ \A a \in P : a \in promises[q.ballot] => q.ballot.ts > k.ballot.ts
  BY Zenon, <1>1
<1>3. q.ballot.ts > k.ballot.ts
  BY Zenon, <1>2, QuorumsMeet
<1>4. k.upd.ts <= k.ballot.ts
  <2>1. ~Blocked(k.ballot)
    BY Zenon, <1>2, ChosenNotBlocked
  <2> QED
    BY Zenon, <2>1 DEF ProposalInv, ProposalOK
<1>5. k.ballot.ts < q.ballot.ts
  BY <1>3
<1> QED
  BY Zenon, <1>2, <1>4, <1>5

LEMMA NewerWins ==
  ASSUME NEW u \in Ballot0, NEW v \in Ballot0, v.ts < u.ts \/ v = u \/ v = NoBallot
  PROVE  Newer(u, v) = u
<1>1. CASE v = NoBallot
  BY Zenon, <1>1, NewerType
<1>2. CASE v = u
  BY Zenon, <1>2, NewerType
<1>3. CASE v.ts < u.ts
  <2>1. u.ts \in Nat /\ v.ts \in Nat
    BY Zenon, TsType
  <2> QED
    BY <1>3, <2>1 DEF Newer
<1> QED
  BY Zenon, <1>1, <1>2, <1>3


\* What a proposal carries was once proposed under its own ballot.
LEMMA OwnProposals ==
  ASSUME TypeOK, PromiseInv, ProposalInv, NEW u, NEW v, Proposed(u, u), Proposed(v, v), u.ts = v.ts
  PROVE  u = v
BY Zenon, OneProposal DEF Proposed

LEMMA VisibleType ==
  ASSUME TypeOK, ProposalInv, NEW v \in Visible
  PROVE  /\ v \in Ballot0 /\ v.ts \in Nat
         /\ v # NoBallot => v \in Ballot /\ \E k \in Proposals :
                              k.upd = v /\ votes[k.ballot] \in Quorums /\ ~Blocked(k.ballot)
<1>1. CASE v = NoBallot
  BY Zenon, <1>1, TsType
<1>2. CASE v \in Chosen
  <2>1. PICK k \in net : k.type = "accept" /\ k.upd = v /\ Cardinality(votes[k.ballot]) >= RequiredParticipants
    BY Zenon, <1>2 DEF Chosen
  <2>2. k \in Proposals
    BY Zenon, <2>1 DEF Proposals
  <2>3. votes[k.ballot] \in Quorums /\ v \in Ballot
    BY Zenon, <2>1, <2>2, ProposalTs DEF Quorums
  <2>4. ~Blocked(k.ballot)
    BY Zenon, <2>3, ChosenNotBlocked
  <2>5. v \in Ballot0 /\ v.ts \in Nat
    BY Zenon, <2>3, TsType
  <2> QED
    BY ZenonT(60), <2>1, <2>2, <2>3, <2>4, <2>5
<1> QED
  BY Zenon, <1>1, <1>2 DEF Visible

\* A row that is newer than everything that may be chosen is current.
LEMMA CurrentAnswer ==
  ASSUME TypeOK, PromiseInv, ProposalInv, NEW q \in Request, FloorOK(q), q.ballot \in Ballot,
         promises[q.ballot] \in Quorums, NEW v \in Visible, LowerBound(q.ballot, v)
  PROVE  Newer(v, q.floor) = v
<1>1. v \in Ballot0 /\ v.ts \in Nat /\ q.floor \in Ballot0
  BY Zenon, VisibleType DEF Request
<1>2. CASE q.floor = NoBallot
  BY Zenon, <1>1, <1>2, NewerWins
<1>3. CASE q.floor # NoBallot
  <2>1. PICK k \in Proposals : /\ k.upd = q.floor /\ votes[k.ballot] \in Quorums
                               /\ k.ballot.ts < q.ballot.ts /\ k.upd.ts <= k.ballot.ts
    BY Zenon, <1>3, FloorBelow
  <2>2. ~Blocked(k.ballot)
    BY Zenon, <2>1, ChosenNotBlocked
  <2>3. q.floor.ts <= v.ts
    BY Zenon, <2>1, <2>2 DEF LowerBound
  <2>4. q.floor.ts \in Nat /\ q.floor.ts > 0
    BY Zenon, <2>1, ProposalTs
  <2>5. CASE q.floor.ts = v.ts
    <3>1. v # NoBallot
      <4>1. NoBallot.ts = 0
        BY Zenon, TsType
      <4> QED
        BY SMTT(30), <2>4, <2>5, <4>1
    <3>2. PICK n \in Proposals : n.upd = v
      BY Zenon, <3>1, VisibleType
    <3>3. Proposed(v, v) /\ Proposed(q.floor, q.floor)
      BY Zenon, <2>1, <3>2 DEF ProposalInv, ProposalOK
    <3>4. q.floor = v
      BY Zenon, <2>5, <3>3, OwnProposals
    <3> QED
      BY Zenon, <1>1, <3>4, NewerWins
  <2>6. CASE q.floor.ts # v.ts
    <3>1. q.floor.ts < v.ts
      BY SMTT(30), <1>1, <2>3, <2>4, <2>6
    <3> QED
      BY ZenonT(60), <1>1, <3>1, NewerWins
  <2> QED
    BY Zenon, <2>5, <2>6
<1> QED
  BY Zenon, <1>2, <1>3

LEMMA AnswerAgree ==
  ASSUME TypeOK, TypeOK', [Next]_vars, AgreeInv, NEW c \in Coordinators, NEW v \in Visible, Answer(c, v),
         Newer(v, co[c].floor) = v, UNCHANGED <<paxos, data, loaded, promises, votes, base, refused>>,
         \A m \in net' : m \notin net => m.type # "accept" /\ m.type # "learn"
  PROVE  AgreeInv'
<1>1. PICK r : r = [Idle EXCEPT !.pc = "done", !.floor = co[c].floor, !.value = v]
  BY Zenon
<1>2. r.pc = "done" /\ r.ballot = NoBallot /\ r.answers = {} /\ r.readers = {}
      /\ r.floor = co[c].floor /\ r.value = v
  BY SMTT(30), <1>1 DEF Idle
<1>3. ReqOK(r)'
  BY Zenon, <1>2, RestOK
<1>4. co' = [co EXCEPT ![c] = r] /\ seen' = Newer(seen, v) /\ Grows
  BY Zenon, <1>1, CoordinatorGrows DEF Answer
<1>5. seen' \in Visible'
  <2>1. seen \in Visible /\ ProposalInv /\ Visible \subseteq Visible'
    BY Zenon, ChosenGrows DEF AgreeInv
  <2>2. seen \in Ballot0 /\ v \in Ballot0
    BY Zenon, <2>1, VisibleType
  <2>3. Newer(seen, v) = seen \/ Newer(seen, v) = v
    BY Zenon, <2>2, NewerType
  <2> QED
    BY Zenon, <1>4, <2>1, <2>3
<1> QED
  BY ZenonT(60), <1>2, <1>3, <1>4, <1>5, PlainStep

LEMMA LearnDoneAgree ==
  ASSUME TypeOK, TypeOK', [Next]_vars, AgreeInv, NEW c \in Coordinators, LearnDone(c),
         UNCHANGED <<paxos, data, loaded, promises, votes>>
  PROVE  AgreeInv'
<1>1. PICK q : q = co[c]
  BY Zenon
<1>2. q \in Request /\ ReqOK(q) /\ PromiseInv /\ ProposalInv /\ Grows /\ UNCHANGED <<net, base, refused>>
  BY ZenonT(60), <1>1, CoordinatorGrows DEF AgreeInv, TypeOK, LearnDone
<1>3. CASE q.pc = "learn"
  <2>1. Answer(c, q.upd) /\ q.ballot \in Ballot
    BY ZenonT(60), <1>1, <1>3 DEF LearnDone, TypeOK
  <2>2. q.upd = q.ballot /\ Proposed(q.ballot, q.upd) /\ q.upd \in Visible /\ FloorOK(q)
    BY Zenon, <1>2, <1>3 DEF ReqOK, Visible
  <2>3. promises[q.ballot] \in Quorums
    BY Zenon, <1>2, <2>2 DEF Proposed, ProposalInv, ProposalOK
  <2>4. Newer(q.upd, q.floor) = q.upd
    <3>1. q.upd \in Ballot0 /\ q.floor \in Ballot0
      BY Zenon, <1>2 DEF Request
    <3>2. CASE q.floor = NoBallot
      BY Zenon, <3>1, <3>2, NewerWins
    <3>3. CASE q.floor # NoBallot
      <4>1. PICK k \in Proposals : k.upd = q.floor /\ k.ballot.ts < q.ballot.ts /\ k.upd.ts <= k.ballot.ts
        BY ZenonT(60), <1>2, <2>1, <2>2, <2>3, <3>3, FloorBelow
      <4>2. k.ballot.ts \in Nat /\ k.upd.ts \in Nat /\ q.ballot.ts \in Nat
        BY ZenonT(60), <2>1, ProposalTs, TsType
      <4>3. q.floor.ts < q.upd.ts
        BY SMTT(30), <2>2, <4>1, <4>2
      <4> QED
        BY Zenon, <3>1, <4>3, NewerWins
    <3> QED
      BY Zenon, <3>2, <3>3
  <2> QED
    BY ZenonT(60), <1>1, <1>2, <2>1, <2>2, <2>4, AnswerAgree
<1>4. CASE q.pc = "relearn"
  <2>1. PICK r : r = [q EXCEPT !.pc = "ballot", !.upd = NoBallot, !.answers = {}]
    BY Zenon
  <2>2. r.pc = "ballot" /\ r.ballot = q.ballot /\ r.answers = {} /\ r.floor = q.floor /\ r.readers = q.readers
    BY SMTT(30), <1>2, <2>1 DEF Request
  <2>3. seen' = seen /\ co' = [co EXCEPT ![c].pc = "ballot", ![c].upd = NoBallot, ![c].answers = {}]
    BY Zenon, <1>1, <1>4 DEF LearnDone
  <2>4. co' = [co EXCEPT ![c] = r]
    BY ZenonT(30), <1>1, <2>1, <2>3 DEF TypeOK, Request
  <2>5. q.pc # "idle" /\ q.pc # "done" /\ q.pc # "read"
    BY Zenon, <1>4
  <2>6. ReqOK(r)'
    BY Zenon, <1>2, <2>2, <2>5, BackToBallot
  <2> QED
    BY ZenonT(60), <1>1, <1>2, <2>2, <2>3, <2>4, <2>6, PlainStep
<1> QED
  BY Zenon, <1>1, <1>3, <1>4 DEF LearnDone
=============================================================================
