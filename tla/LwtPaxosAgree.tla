--------------------------- MODULE LwtPaxosAgree ----------------------------
(* Theorems: the updates of a key take effect one after the other, each     *)
(* computed from the one before it, and answers are current, for any number *)
(* of replicas, coordinators and ballots.                                   *)
EXTENDS LwtPaxosProofs

-----------------------------------------------------------------------------
(* Proposals: what comes of one, and when one may be made.                 *)

\* A proposal that all of its participants rejected.
LEMMA AllRejected ==
  ASSUME TypeOK, VisibleInv, PromiseInv, ProposalInv, NEW c \in Coordinators, co[c].pc = "accept", ReqOK(co[c]),
         NEW A, NEW E, NEW R \in SUBSET AnsweredBy(c, "rejected"),
         AcceptVerdict(co[c].live, A, R, E, TRUE) = "false", E \subseteq co[c].live
  PROVE  /\ votes[co[c].upd] = {}
         /\ \E m \in Proposals : m.ballot = co[c].upd /\ \A a \in m.to : Rejects(a, co[c].upd)
<1>1. PICK q : q = co[c]
  BY Zenon
<1>2. q \in Request /\ ReqOK(q) /\ q.live \in SUBSET Participants /\ q.pc = "accept" /\ q.ballot \in Ballot
  BY Zenon, <1>1 DEF TypeOK, Request
<1>3. ASSUME NEW a \in R PROVE a \in q.live /\ Rejects(a, q.ballot)
  <2>1. PICK n \in q.answers : n.type = "rejected" /\ n.from = a
    BY Zenon, <1>1 DEF AnsweredBy
  <2> QED
    BY Zenon, <1>2, <2>1 DEF ReqOK, AnswerOK
<1>4. R = q.live
  <2>1. R \in SUBSET q.live /\ IsFiniteSet(q.live)
    BY Zenon, <1>2, <1>3, VotesFinite, FS_Subset
  <2>2. Cardinality(R) \in Nat /\ Cardinality(E) \in Nat /\ Cardinality(q.live) \in Nat
        /\ Cardinality(R) <= Cardinality(q.live)
    BY Zenon, <1>1, <1>2, <2>1, FS_Subset, FS_CardinalityType
  <2>3. /\ Cardinality(A) = 0 /\ Cardinality(E) = 0
        /\ ~(Cardinality(A) + Cardinality(R) + Cardinality(E) < Cardinality(q.live))
    BY <1>1 DEF AcceptVerdict
  <2>4. Cardinality(R) = Cardinality(q.live)
    BY <2>2, <2>3
  <2> QED
    BY Zenon, <2>1, <2>4, FS_Subset
<1>5. PICK m : m = [type |-> "accept", ballot |-> q.ballot, upd |-> q.upd, to |-> q.live]
  BY Zenon
<1>6. m.type = "accept" /\ m.ballot = q.ballot /\ m.to = q.live
  BY <1>5
<1>7. m \in Proposals
  <2>1. m \in net
    BY Zenon, <1>1, <1>2, <1>5 DEF VisibleInv, RequestOK
  <2> QED
    BY Zenon, <1>6, <2>1 DEF Proposals
<1>8. q.upd = q.ballot
  BY Zenon, <1>2 DEF ReqOK
<1>9. ASSUME NEW a \in votes[q.ballot] PROVE FALSE
  <2>1. PICK n \in Proposals : n.ballot = q.ballot /\ a \in n.to
    BY Zenon, <1>2 DEF PromiseInv
  <2>2. \A x, y \in Proposals : x.ballot = y.ballot => x = y
    BY Zenon DEF ProposalInv
  <2>3. n = m
    BY Zenon, <1>6, <1>7, <2>1, <2>2
  <2>4. Rejects(a, q.ballot)
    BY Zenon, <1>3, <1>4, <1>6, <2>1, <2>3
  <2> QED
    BY Zenon, <2>4 DEF Rejects
<1>10. m.ballot = q.upd /\ \A a \in m.to : Rejects(a, q.upd)
  BY Zenon, <1>3, <1>4, <1>6, <1>8
<1> QED
  BY Zenon, <1>1, <1>7, <1>8, <1>9, <1>10

\* The end of accept_proposal().
LEMMA LearnAgree ==
  ASSUME TypeOK, TypeOK', [Next]_vars, VisibleInv, AgreeInv, NEW c \in Coordinators,
         co[c].pc \in {"accept", "replay"}, NEW A \in SUBSET AnsweredBy(c, "accepted"),
         Cardinality(A) = RequiredParticipants,
         co' = [co EXCEPT ![c].pc = IF co[c].pc = "accept" THEN "learn" ELSE "relearn", ![c].answers = {}],
         net' = net \cup LearnRequests([ballot |-> co[c].ballot, upd |-> co[c].upd], Participants),
         UNCHANGED <<paxos, data, loaded, promises, votes, base, seen, refused>>
  PROVE  AgreeInv'
<1>1. PICK q : q = co[c]
  BY Zenon
<1>2. /\ q \in Request /\ ReqOK(q) /\ PromiseInv /\ ProposalInv /\ Grows /\ RequestOK(q, Visible, votes, net)
      /\ q.ballot \in Ballot /\ q.pc # "idle" /\ q.pc # "done" /\ q.pc # "read"
  BY ZenonT(60), <1>1, CoordinatorGrows DEF AgreeInv, TypeOK, VisibleInv
<1>3. q.upd \in Chosen'
  BY Zenon, <1>1, <1>2, AcceptedIsChosen, ChosenGrows
<1>4. PICK r : r = [q EXCEPT !.pc = IF q.pc = "accept" THEN "learn" ELSE "relearn", !.answers = {}]
  BY Zenon
<1>5. /\ r.pc = (IF q.pc = "accept" THEN "learn" ELSE "relearn") /\ r.ballot = q.ballot /\ r.answers = {}
      /\ r.floor = q.floor /\ r.upd = q.upd /\ r.readers = q.readers
  BY SMTT(30), <1>2, <1>4 DEF Request
<1>6. co' = [co EXCEPT ![c] = r]
  BY ZenonT(60), <1>1, <1>4 DEF TypeOK, Request
<1>7. ReqOK(r)'
  <2>1. CASE q.pc = "replay"
    <3>1. r.pc = "relearn"
      BY Zenon, <1>5, <2>1
    <3> QED
      BY Zenon, <1>2, <1>5, <3>1, BackToBallot
  <2>2. CASE q.pc = "accept"
    <3>1. r.pc = "learn"
      BY Zenon, <1>5, <2>2
    <3>2. r.pc \notin {"prepare", "read", "done"} /\ r.readers = {}
      BY Zenon, <1>2, <1>5, <3>1 DEF ReqOK
    <3>3. FloorOK(q) /\ q.upd = q.ballot /\ Proposed(q.ballot, q.upd) /\ Sent(q.ballot)
      BY Zenon, <1>2, <2>2 DEF ReqOK
    <3>4. FloorOK(r)'
      BY Zenon, <1>2, <1>5, <3>3, SameFloor
    <3>5. Proposed(q.ballot, q.upd)' /\ Sent(q.ballot)'
      BY Zenon, <1>2, <3>3, MessagesGrow
    <3> QED
      BY ZenonT(60), <1>3, <1>5, <3>1, <3>2, <3>3, <3>4, <3>5 DEF ReqOK
  <2> QED
    BY Zenon, <1>1, <2>1, <2>2
<1>8. votes[q.ballot] \in Quorums
  <2>1. A \subseteq votes[q.ballot]
    BY Zenon, <1>1, <1>2 DEF AnsweredBy, RequestOK
  <2>2. votes[q.ballot] \in SUBSET Participants
    BY Zenon, <1>2 DEF TypeOK
  <2>3. A \in Quorums
    <3>1. Cardinality(A) >= RequiredParticipants
      BY VotesFinite
    <3> QED
      BY Zenon, <2>1, <2>2, <3>1 DEF Quorums
  <2> QED
    BY Zenon, <2>1, <2>2, <2>3, QuorumType
<1>9. Proposed(q.ballot, q.upd)'
  <2>1. PICK m : m = [type |-> "accept", ballot |-> q.ballot, upd |-> q.upd, to |-> q.live]
    BY Zenon
  <2>2. m.type = "accept" /\ m.ballot = q.ballot /\ m.upd = q.upd
    BY <2>1
  <2>3. m \in net'
    BY Zenon, <1>1, <1>2, <2>1 DEF RequestOK
  <2> QED
    BY Zenon, <2>2, <2>3 DEF Proposed, Proposals
<1>10. PICK p, l : /\ p = [ballot |-> q.ballot, upd |-> q.upd]
                   /\ l = [type |-> "learn", ballot |-> p.ballot, upd |-> p.upd, to |-> Participants]
  BY Zenon
<1>11. p.ballot = q.ballot /\ p.upd = q.upd /\ l.type = "learn" /\ l.ballot = q.ballot /\ l.upd = q.upd
  BY <1>10
<1>12. Decided([ballot |-> l.ballot, upd |-> l.upd])'
  <2>1. Decided(p)'
    BY Zenon, <1>8, <1>9, <1>11 DEF Decided
  <2>2. p = [ballot |-> l.ballot, upd |-> l.upd]
    BY Zenon, <1>10, <1>11
  <2> QED
    BY Zenon, <2>1, <2>2
<1>13. net' = net \cup {l}
  BY Zenon, <1>1, <1>10 DEF LearnRequests
<1>14. \A m \in net' : m \notin net => m.type # "accept" /\ Decided([ballot |-> m.ballot, upd |-> m.upd])'
  <2>1. \A m \in net' : m \notin net => m = l
    BY Zenon, <1>13
  <2> QED
    BY Zenon, <1>11, <1>12, <2>1
<1> QED
  BY ZenonT(60), <1>1, <1>2, <1>5, <1>6, <1>7, <1>14, PlainStep


LEMMA RefuseAgree ==
  ASSUME TypeOK, TypeOK', [Next]_vars, VisibleInv, AgreeInv, NEW c \in Coordinators,
         NEW A, NEW R \in SUBSET AnsweredBy(c, "rejected"), NEW E \in SUBSET co[c].live,
         co[c].pc \in {"accept", "replay"},
         AcceptVerdict(co[c].live, A, R, E, co[c].pc = "accept") = "false",
         co' = [co EXCEPT ![c].pc = "ballot", ![c].upd = NoBallot, ![c].answers = {},
                          ![c].min_ts = IF co[c].pc = "accept" THEN 0 ELSE @],
         refused' = IF co[c].pc = "accept" THEN refused \cup {co[c].upd} ELSE refused,
         UNCHANGED <<paxos, data, loaded, promises, votes, net, base, seen>>
  PROVE  AgreeInv'
<1>1. PICK q : q = co[c]
  BY Zenon
<1>2. /\ q \in Request /\ ReqOK(q) /\ PromiseInv /\ ProposalInv /\ Grows
      /\ q.ballot \in Ballot /\ q.pc # "idle" /\ q.pc # "done" /\ q.pc # "read" /\ seen \in Visible
  BY ZenonT(60), <1>1, CoordinatorGrows DEF AgreeInv, TypeOK
<1>3. PICK r : r = [q EXCEPT !.pc = "ballot", !.upd = NoBallot, !.answers = {},
                             !.min_ts = IF q.pc = "accept" THEN 0 ELSE @]
  BY Zenon
<1>4. r.pc = "ballot" /\ r.ballot = q.ballot /\ r.answers = {} /\ r.floor = q.floor /\ r.readers = q.readers
  BY SMTT(30), <1>2, <1>3 DEF Request
<1>5. co' = [co EXCEPT ![c] = r]
  BY ZenonT(60), <1>1, <1>3 DEF TypeOK, Request
<1>6. ReqOK(r)'
  BY Zenon, <1>2, <1>4, BackToBallot
<1>7. Proposals' = Proposals /\ Visible' = Visible
  BY Zenon DEF Proposals, Visible, Chosen
<1>8. LearnsOK'
  BY Zenon, <1>2, LearnsStable DEF LearnsOK, ProposalInv
<1>9. RefusedOK'
  <2>1. \A u \in refused : /\ votes'[u] = {}
                           /\ \E m \in Proposals' : m.ballot = u /\ \A a \in m.to : Rejects(a, u)'
    BY Zenon, <1>2, RefusedStable
  <2>2. CASE q.pc = "replay"
    BY Zenon, <1>1, <2>1, <2>2 DEF RefusedOK
  <2>3. CASE q.pc = "accept"
    <3>1. /\ votes[q.upd] = {}
          /\ \E m \in Proposals : m.ballot = q.upd /\ \A a \in m.to : Rejects(a, q.upd)
      <4>1. AcceptVerdict(co[c].live, A, R, E, TRUE) = "false"
        BY Zenon, <1>1, <2>3 DEF AcceptVerdict
      <4> QED
        BY ZenonT(60), <1>1, <1>2, <2>3, <4>1, AllRejected
    <3>2. \A a : Rejects(a, q.upd) => Rejects(a, q.upd)'
      BY Zenon DEF Rejects
    <3>3. refused' = refused \cup {q.upd}
      BY Zenon, <1>1, <2>3
    <3>4. /\ votes'[q.upd] = {}
          /\ \E m \in Proposals' : m.ballot = q.upd /\ \A a \in m.to : Rejects(a, q.upd)'
      BY Zenon, <1>7, <3>1, <3>2
    <3>5. \A u \in refused' : u \in refused \/ u = q.upd
      BY Zenon, <3>3
    <3>6. ASSUME NEW u \in refused'
          PROVE  /\ votes'[u] = {}
                 /\ \E m \in Proposals' : m.ballot = u /\ \A a \in m.to : Rejects(a, u)'
      <4>1. CASE u \in refused
        BY Zenon, <2>1, <4>1
      <4>2. CASE u = q.upd
        BY Zenon, <3>4, <4>2
      <4> QED
        BY Zenon, <3>5, <4>1, <4>2
    <3> QED
      BY Zenon, <3>6 DEF RefusedOK
  <2> QED
    BY Zenon, <1>1, <2>2, <2>3
<1> QED
  BY ZenonT(60), <1>1, <1>2, <1>4, <1>5, <1>6, <1>7, <1>8, <1>9, QuietStep

LEMMA OnAcceptRepliesAgree ==
  ASSUME TypeOK, TypeOK', [Next]_vars, VisibleInv, AgreeInv, NEW c \in Coordinators,
         NEW A \in SUBSET AnsweredBy(c, "accepted"), NEW R \in SUBSET AnsweredBy(c, "rejected"),
         NEW E \in SUBSET co[c].live, OnAcceptReplies(c, A, R, E),
         UNCHANGED <<paxos, data, loaded, promises, votes>>
  PROVE  AgreeInv'
<1>1. co[c].pc \in {"accept", "replay"}
  BY Zenon DEF OnAcceptReplies
<1>2. CASE Fail(c)
  BY Zenon, <1>2, FailAgree
<1>3. CASE /\ AcceptVerdict(co[c].live, A, R, E, co[c].pc = "accept") = "true"
           /\ co' = [co EXCEPT ![c].pc = IF co[c].pc = "accept" THEN "learn" ELSE "relearn", ![c].answers = {}]
           /\ net' = net \cup LearnRequests([ballot |-> co[c].ballot, upd |-> co[c].upd], Participants)
           /\ UNCHANGED <<base, seen, refused>>
  <2>1. Cardinality(A) = RequiredParticipants
    BY Zenon, <1>3 DEF AcceptVerdict
  <2> QED
    BY ZenonT(60), <1>1, <1>3, <2>1, LearnAgree
<1>4. CASE /\ AcceptVerdict(co[c].live, A, R, E, co[c].pc = "accept") = "false"
           /\ co' = [co EXCEPT ![c].pc = "ballot", ![c].upd = NoBallot, ![c].answers = {},
                               ![c].min_ts = IF co[c].pc = "accept" THEN 0 ELSE @]
           /\ refused' = IF co[c].pc = "accept" THEN refused \cup {co[c].upd} ELSE refused
           /\ UNCHANGED <<net, base, seen>>
  BY Zenon, <1>1, <1>4, RefuseAgree
<1> QED
  BY ZenonT(60), <1>2, <1>3, <1>4 DEF OnAcceptReplies

-----------------------------------------------------------------------------
(* Proposals.                                                              *)

\* A proposal under a ballot that a quorum promised.
LEMMA NewProposal ==
  ASSUME TypeOK, TypeOK', [Next]_vars, AgreeInv, NEW c \in Coordinators,
         UNCHANGED <<paxos, data, loaded, promises, votes, seen, refused>>,
         NEW b \in Ballot, b = co[c].ballot, ~Proposing(b), promises[b] \in Quorums,
         NEW p, p \in net', p.type = "accept", p.ballot = b,
         \A m \in net' : m \notin net => m = p \/ m.type = "repair",
         NEW r, co' = [co EXCEPT ![c] = r], ReqOK(r)', r.ballot = b,
         \A m \in Proposals : base'[m.upd] = base[m.upd],
         ProposalOK(p)', \A n \in Proposals : n.ballot.ts < b.ts => SafeAfter(p, n)'
  PROVE  AgreeInv'
<1>1. PromiseInv /\ ProposalInv /\ seen \in Visible /\ Grows /\ Visible \subseteq Visible'
  BY Zenon, CoordinatorGrows, ChosenGrows DEF AgreeInv
<1>2. Proposals' = Proposals \cup {p} /\ net \subseteq net'
  <2>1. net \subseteq net'
    BY Zenon, <1>1 DEF Grows
  <2>2. p.type # "repair" /\ \A m \in Proposals' : m.type # "repair"
    BY Zenon DEF Proposals
  <2> QED
    BY Zenon, <2>1, <2>2 DEF Proposals
<1>3. votes[b] = {}
  <2>1. \A a \in votes[b] : \E m \in Proposals : m.ballot = b
    BY ZenonT(60), <1>1 DEF PromiseInv
  <2> QED
    BY Zenon, <2>1 DEF Proposing
<1>4. FreshProposals
  BY Zenon, <1>2, <1>3 DEF FreshProposals
<1>5. \A m \in Proposals : m.ballot # b
  BY Zenon DEF Proposing
<1>6. ASSUME NEW m \in Proposals' PROVE ProposalOK(m)'
  <2>1. CASE m \in Proposals
    <3>1. ProposalOK(m) /\ base'[m.upd] = base[m.upd]
      BY Zenon, <1>1, <2>1 DEF ProposalInv
    <3> QED
      BY Zenon, <1>1, <2>1, <3>1, ProposalStable
  <2> QED
    BY Zenon, <1>2, <2>1
<1>7. ASSUME NEW m \in Proposals', NEW n \in Proposals', m.ballot = n.ballot PROVE m = n
  <2>1. \A x, y \in Proposals : x.ballot = y.ballot => x = y
    BY Zenon, <1>1 DEF ProposalInv
  <2> QED
    BY Zenon, <1>2, <1>5, <1>7, <2>1
<1>8. ASSUME NEW m \in Proposals', NEW n \in Proposals', n.ballot.ts < m.ballot.ts PROVE SafeAfter(m, n)'
  <2>1. CASE m \in Proposals /\ n \in Proposals
    BY ZenonT(60), <1>1, <1>8, <2>1, SafeStable DEF ProposalInv
  <2>2. CASE m = p /\ n \in Proposals
    BY Zenon, <1>8, <2>2
  <2>3. CASE m \in Proposals /\ n = p
    <3>1. promises[m.ballot] \in Quorums /\ m.ballot \in Ballot
      BY Zenon, <1>1, <2>3, ProposalTs DEF ProposalInv, ProposalOK
    <3>2. Blocked(b)
      BY ZenonT(60), <1>1, <1>3, <1>8, <2>3, <3>1, Overtaken
    <3>3. Blocked(n.ballot)'
      BY Zenon, <1>1, <2>3, <3>2, BlockedGrows
    <3> QED
      BY Zenon, <3>3 DEF SafeAfter
  <2>4. CASE m = p /\ n = p
    <3>1. b.ts \in Nat
      BY Zenon, TsType
    <3> QED
      BY SMTT(30), <1>8, <2>4, <3>1
  <2> QED
    BY ZenonT(60), <1>2, <2>1, <2>2, <2>3, <2>4
<1>9. \A m \in net' : m.type = "learn" => Decided([ballot |-> m.ballot, upd |-> m.upd])'
  <2>1. LearnsOK
    BY Zenon, <1>1 DEF ProposalInv, LearnsOK
  <2>2. \A m \in net' : m.type = "learn" => m \in net
    BY Zenon
  <2> QED
    BY Zenon, <1>1, <2>1, <2>2, LearnsStable
<1>10. \A u \in refused' : /\ votes'[u] = {}
                           /\ \E m \in Proposals' : m.ballot = u /\ \A a \in m.to : Rejects(a, u)'
  BY Zenon, <1>1, RefusedStable
<1>11. ProposalInv'
  BY ZenonT(60), <1>6, <1>7, <1>8, <1>9, <1>10 DEF ProposalInv
<1>12. \A m \in Proposals' : m \notin Proposals => m.ballot = co[c].ballot
  BY Zenon, <1>2
<1> QED
  BY ZenonT(60), <1>1, <1>4, <1>11, <1>12, CoordinatorFrame


\* A quorum of promises for b.
Promised(S, b) ==
  /\ {m.from : m \in S} \in Quorums
  /\ \A m \in S : /\ PromiseOK(m, b)
                  /\ m.accepted \in Proposal0 /\ m.commit \in Proposal0 /\ m.row \in Ballot0

\* What may have been chosen before b shows in the promises.
LEMMA PromisesShow ==
  ASSUME TypeOK, PromiseInv, NEW b \in Ballot, NEW S, Promised(S, b),
         NEW acc \in Newest({m.accepted : m \in S}), NEW mrc \in Newest({m.commit : m \in S}),
         NEW n \in Proposals, n.ballot.ts < b.ts
  PROVE  Blocked(n.ballot) \/ acc.ballot.ts >= n.ballot.ts \/ mrc.ballot.ts >= n.ballot.ts
<1>1. n.ballot \in Ballot /\ n.ballot.ts \in Nat /\ b.ts \in Nat
  BY ZenonT(60), ProposalTs, TsType
<1>2. CASE \E m \in S : m.from \in votes[n.ballot]
  <2>1. PICK m \in S : m.from \in votes[n.ballot]
    BY Zenon, <1>2
  <2>2. m.accepted.ballot.ts >= n.ballot.ts \/ m.commit.ballot.ts >= n.ballot.ts
    BY Zenon, <1>1, <2>1 DEF Promised, PromiseOK, Shows
  <2>3. acc.ballot.ts >= m.accepted.ballot.ts /\ mrc.ballot.ts >= m.commit.ballot.ts
    BY Zenon DEF Newest
  <2>4. \A k \in S : k.accepted \in Proposal0 /\ k.commit \in Proposal0
    BY Zenon DEF Promised
  <2>5. acc \in Proposal0 /\ mrc \in Proposal0
    BY Zenon, <2>4 DEF Newest
  <2>6. /\ acc.ballot.ts \in Nat /\ mrc.ballot.ts \in Nat
        /\ m.accepted.ballot.ts \in Nat /\ m.commit.ballot.ts \in Nat
    BY Zenon, <2>4, <2>5, ProposalType, TsType
  <2> QED
    BY SMTT(30), <1>1, <2>2, <2>3, <2>6
<1>3. CASE \A m \in S : m.from \notin votes[n.ballot]
  <2>1. PICK Q : Q = {m.from : m \in S}
    BY Zenon
  <2>2. Q \in Quorums
    BY Zenon, <2>1 DEF Promised
  <2>3. ASSUME NEW a \in Q PROVE a \notin votes[n.ballot] /\ paxos[a].in_progress_ballot.ts > n.ballot.ts
    <3>1. a \notin votes[n.ballot] /\ a \in promises[b] /\ a \in Participants
      BY Zenon, <1>3, <2>1, <2>2, QuorumType DEF Promised, PromiseOK
    <3>2. paxos[a].in_progress_ballot.ts >= b.ts /\ paxos[a].in_progress_ballot.ts \in Nat
      BY Zenon, <3>1, RowTsHolds DEF PromiseInv, RowTs
    <3>3. paxos[a].in_progress_ballot.ts > n.ballot.ts
      BY <1>1, <3>2
    <3> QED
      BY Zenon, <3>1, <3>3
  <2> QED
    BY Zenon, <2>2, <2>3 DEF Blocked
<1> QED
  BY Zenon, <1>2, <1>3

\* A round in progress may be finished: it carries on whatever may be chosen.
LEMMA ReplaySafe ==
  ASSUME TypeOK, PromiseInv, ProposalInv, NEW b \in Ballot, NEW S, Promised(S, b),
         NEW acc \in Newest({m.accepted : m \in S}), NEW mrc \in Newest({m.commit : m \in S}),
         InProgress(acc, mrc), NEW n \in Proposals, n.ballot.ts < b.ts
  PROVE  \/ Blocked(n.ballot)
         \/ acc.upd = n.upd
         \/ acc.upd.ts > n.ballot.ts /\ base[acc.upd].ts >= n.upd.ts
<1> SUFFICES ASSUME ~Blocked(n.ballot)
             PROVE  acc.upd = n.upd \/ (acc.upd.ts > n.ballot.ts /\ base[acc.upd].ts >= n.upd.ts)
  BY Zenon
<1>1. PICK s \in S, t \in S : acc = s.accepted /\ mrc = t.commit
  BY Zenon DEF Newest
<1>2. acc \in Proposal0 /\ mrc \in Proposal0 /\ acc # NoProposal /\ acc.ballot.ts > mrc.ballot.ts /\ Voted(acc)
  BY ZenonT(60), <1>1 DEF Promised, PromiseOK, InProgress
<1>3. acc.ballot.ts \in Nat /\ mrc.ballot.ts \in Nat /\ n.ballot.ts \in Nat
  BY ZenonT(60), <1>2, ProposalType, ProposalTs, TsType
<1>4. acc.ballot.ts >= n.ballot.ts \/ mrc.ballot.ts >= n.ballot.ts
  BY Zenon, PromisesShow
<1>5. PICK k \in Proposals : k.ballot = acc.ballot /\ k.upd = acc.upd
  BY Zenon, <1>2 DEF Voted, Proposed
<1>6. k.ballot.ts = n.ballot.ts \/ n.ballot.ts < k.ballot.ts
  BY SMTT(30), <1>2, <1>3, <1>4, <1>5
<1>7. CASE k.ballot.ts = n.ballot.ts
  BY Zenon, <1>5, <1>7, OneProposal
<1>8. CASE n.ballot.ts < k.ballot.ts
  <2>1. SafeAfter(k, n)
    BY Zenon, <1>8 DEF ProposalInv
  <2> QED
    BY Zenon, <1>5, <2>1 DEF SafeAfter
<1> QED
  BY ZenonT(60), <1>6, <1>7, <1>8

\* Without one, the most recent commit is the newest that may be chosen.
LEMMA CommitBound ==
  ASSUME TypeOK, PromiseInv, ProposalInv, NEW b \in Ballot, NEW S, Promised(S, b),
         NEW acc \in Newest({m.accepted : m \in S}), NEW mrc \in Newest({m.commit : m \in S}),
         ~InProgress(acc, mrc)
  PROVE  LowerBound(b, mrc.upd)
<1> SUFFICES ASSUME NEW n \in Proposals, n.ballot.ts < b.ts, ~Blocked(n.ballot)
             PROVE  n.upd.ts <= mrc.upd.ts
  BY Zenon DEF LowerBound
<1>1. PICK s \in S, t \in S : acc = s.accepted /\ mrc = t.commit
  BY Zenon DEF Newest
<1>2. acc \in Proposal0 /\ mrc \in Proposal0 /\ Decided(mrc)
  BY Zenon, <1>1 DEF Promised, PromiseOK
<1>3. acc.ballot.ts \in Nat /\ mrc.ballot.ts \in Nat /\ n.ballot.ts \in Nat /\ n.ballot.ts > 0 /\ n.upd.ts \in Nat
  BY Zenon, <1>2, ProposalType, ProposalTs, TsType
<1>4. acc.ballot.ts >= n.ballot.ts \/ mrc.ballot.ts >= n.ballot.ts
  BY Zenon, PromisesShow
<1>5. NoProposal.ballot.ts = 0
  BY Zenon DEF NoProposal, NoBallot
<1>6. mrc.ballot.ts >= n.ballot.ts /\ mrc # NoProposal
  BY SMTT(30), <1>3, <1>4, <1>5 DEF InProgress
<1>7. PICK k \in Proposals : k.ballot = mrc.ballot /\ k.upd = mrc.upd /\ votes[k.ballot] \in Quorums
  BY ZenonT(60), <1>2, <1>6 DEF Decided, Proposed
<1>8. k.ballot.ts = n.ballot.ts \/ n.ballot.ts < k.ballot.ts
  BY SMTT(30), <1>3, <1>6, <1>7
<1>9. CASE k.ballot.ts = n.ballot.ts
  <2>1. k = n
    BY ZenonT(60), <1>9, OneProposal
  <2> QED
    BY SMTT(30), <1>3, <1>7, <2>1
<1>10. CASE n.ballot.ts < k.ballot.ts
  <2>1. SafeAfter(k, n)
    BY Zenon, <1>10 DEF ProposalInv
  <2>2. base[k.upd].ts < k.upd.ts
    BY ZenonT(60), <1>7, ChosenNotBlocked DEF ProposalInv, ProposalOK
  <2>3. base[k.upd].ts \in Nat /\ k.upd.ts \in Nat
    BY Zenon, ProposalTs
  <2>4. k.upd = n.upd \/ base[k.upd].ts >= n.upd.ts
    BY Zenon, <2>1 DEF SafeAfter
  <2> QED
    BY SMTT(30), <1>3, <1>7, <2>2, <2>3, <2>4
<1> QED
  BY Zenon, <1>8, <1>9, <1>10

\* Nothing newer than b can be chosen unless b is overtaken.
LEMMA ChosenLater ==
  ASSUME TypeOK, PromiseInv, ProposalInv, NEW b \in Ballot, ~Proposing(b), promises[b] \in Quorums,
         votes[b] = {}, NEW k \in Proposals, k.ballot.ts >= b.ts
  PROVE  Blocked(b)
<1>1. k.ballot \in Ballot /\ promises[k.ballot] \in Quorums /\ k.ballot.ts \in Nat /\ b.ts \in Nat
  BY Zenon, ProposalTs, TsType DEF ProposalInv, ProposalOK
<1>2. CASE k.ballot.ts = b.ts
  BY Zenon, <1>1, <1>2, OneTimestamp DEF Proposing
<1>3. CASE k.ballot.ts # b.ts
  <2>1. b.ts < k.ballot.ts
    BY SMTT(30), <1>1, <1>3
  <2> QED
    BY ZenonT(60), <1>1, <2>1, Overtaken
<1> QED
  BY Zenon, <1>2, <1>3


\* The request of c once it has proposed.
LEMMA ProposingRequest ==
  ASSUME TypeOK, TypeOK', PromiseInv, Grows, NEW q \in Request, ReqOK(q), q.pc = "prepare" \/ q.pc = "read",
         NEW r, r.ballot = q.ballot, r.floor = q.floor, r.answers = {}, r.readers = {},
         r.pc = "replay" \/ (r.pc = "accept" /\ r.upd = r.ballot /\ Proposed(r.ballot, r.upd)')
  PROVE  ReqOK(r)'
<1>1. FloorOK(q)
  BY Zenon DEF ReqOK
<1>2. FloorOK(r)'
  BY ZenonT(60), <1>1, SameFloor
<1>3. r.ballot \in Ballot => Sent(r.ballot)'
  BY Zenon, MessagesGrow DEF ReqOK
<1>4. r.pc \notin {"prepare", "read", "learn", "done"}
  BY Zenon
<1> QED
  BY ZenonT(60), <1>2, <1>3, <1>4 DEF ReqOK

LEMMA ProposeFields ==
  ASSUME TypeOK, NEW c \in Coordinators, NEW u, NEW stage, NEW min, Propose(c, u, stage, min)
  PROVE  \E r : /\ co' = [co EXCEPT ![c] = r] /\ r.pc = stage /\ r.upd = u /\ r.readers = {} /\ r.answers = {}
                /\ r.ballot = co[c].ballot /\ r.floor = co[c].floor
<1>1. PICK r : r = [co[c] EXCEPT !.pc = stage, !.upd = u, !.min_ts = min,
                     !.value = NoBallot, !.readers = {}, !.answers = {}]
  BY Zenon
<1>2. co[c] \in Request
  BY Zenon DEF TypeOK
<1>3. r.pc = stage /\ r.upd = u /\ r.readers = {} /\ r.answers = {}
      /\ r.ballot = co[c].ballot /\ r.floor = co[c].floor
  BY SMTT(30), <1>1, <1>2 DEF Request
<1>4. co' = [co EXCEPT ![c] = r]
  BY ZenonT(30), <1>1 DEF Propose, TypeOK, Request
<1> QED
  BY Zenon, <1>3, <1>4

\* A new update, computed from the newest row that may be chosen.
LEMMA FreshAgree ==
  ASSUME TypeOK, TypeOK', [Next]_vars, AgreeInv, NEW c \in Coordinators,
         co[c].pc = "prepare" \/ co[c].pc = "read",
         UNCHANGED <<paxos, data, loaded, promises, votes, seen, refused>>,
         NEW b \in Ballot, b = co[c].ballot, promises[b] \in Quorums,
         NEW v \in Visible, LowerBound(b, v), NEW repairs, \A m \in repairs : m.type = "repair",
         Propose(c, b, "accept", 0), net' = net \cup repairs \cup AcceptRequests(c, b),
         base' = [base EXCEPT ![b] = v]
  PROVE  AgreeInv'
<1>1. PICK q : q = co[c]
  BY Zenon
<1>2. /\ q \in Request /\ ReqOK(q) /\ PromiseInv /\ ProposalInv /\ Grows /\ Visible \subseteq Visible'
      /\ b = q.ballot /\ (q.pc = "prepare" \/ q.pc = "read")
  BY ZenonT(60), <1>1, CoordinatorGrows, ChosenGrows DEF AgreeInv, TypeOK
<1>3. ~Proposing(b)
  BY Zenon, <1>2 DEF ReqOK
<1>4. votes[b] = {}
  <2>1. \A a \in votes[b] : \E m \in Proposals : m.ballot = b
    BY Zenon, <1>2 DEF PromiseInv
  <2> QED
    BY Zenon, <1>3, <2>1 DEF Proposing
<1>5. PICK p : p = [type |-> "accept", ballot |-> co[c].ballot, upd |-> b, to |-> co[c].live]
  BY Zenon
<1>6. p.type = "accept" /\ p.ballot = b /\ p.upd = b
  BY <1>5
<1>7. net' = net \cup repairs \cup {p}
  BY Zenon, <1>5 DEF AcceptRequests
<1>8. Proposed(b, b)'
  BY Zenon, <1>6, <1>7 DEF Proposed, Proposals
<1>9. PICK r : /\ co' = [co EXCEPT ![c] = r] /\ r.pc = "accept" /\ r.upd = b /\ r.readers = {} /\ r.answers = {}
               /\ r.ballot = q.ballot /\ r.floor = q.floor
  <2>1. PICK r : /\ co' = [co EXCEPT ![c] = r] /\ r.pc = "accept" /\ r.upd = b /\ r.readers = {}
                 /\ r.answers = {} /\ r.ballot = co[c].ballot /\ r.floor = co[c].floor
    BY ProposeFields
  <2> QED
    BY Zenon, <1>1, <2>1
<1>10. ReqOK(r)'
  <2>1. r.upd = r.ballot /\ Proposed(r.ballot, r.upd)'
    BY ZenonT(60), <1>2, <1>8, <1>9
  <2> QED
    BY ZenonT(60), <1>2, <1>9, <2>1, ProposingRequest
<1>11. base'[b] = v /\ \A m \in Proposals : base'[m.upd] = base[m.upd]
  <2>1. base \in [Ballot -> Ballot0]
    BY Zenon DEF TypeOK
  <2>2. ASSUME NEW m \in Proposals PROVE m.upd # b
    <3>1. Proposed(m.upd, m.upd)
      BY Zenon, <1>2 DEF ProposalInv, ProposalOK
    <3>2. Proposing(m.upd)
      BY Zenon, <3>1 DEF Proposed, Proposing
    <3> QED
      BY Zenon, <1>3, <3>2
  <2>3. \A m \in Proposals : m.upd \in Ballot
    BY Zenon, ProposalTs
  <2> QED
    BY ZenonT(60), <2>1, <2>2, <2>3
<1>12. v.ts \in Nat /\ b.ts \in Nat /\ b.ts > 0
  BY Zenon, <1>2, VisibleType, TsType
<1>13. v.ts < b.ts \/ Blocked(b)'
  <2> SUFFICES ASSUME ~(v.ts < b.ts) PROVE Blocked(b)'
    BY Zenon
  <2>1. v # NoBallot
    <3>1. NoBallot.ts = 0
      BY Zenon, TsType
    <3> QED
      BY SMTT(30), <1>12, <3>1
  <2>2. PICK k \in Proposals : k.upd = v /\ ~Blocked(k.ballot)
    BY ZenonT(60), <1>2, <2>1, VisibleType
  <2>3. v.ts <= k.ballot.ts /\ k.ballot.ts \in Nat
    BY ZenonT(60), <1>2, <2>2, ProposalTs DEF ProposalInv, ProposalOK
  <2>4. k.ballot.ts >= b.ts
    BY SMTT(30), <1>12, <2>3
  <2>5. Blocked(b)
    BY ZenonT(60), <1>2, <1>3, <1>4, <2>4, ChosenLater
  <2> QED
    BY ZenonT(60), <1>2, <2>5, BlockedGrows
<1>14. v # b
  <2>1. ASSUME v = b PROVE FALSE
    <3>1. v # NoBallot
      BY Zenon, <2>1, TsType
    <3>2. PICK k \in Proposals : k.upd = v
      BY ZenonT(60), <1>2, <3>1, VisibleType
    <3>4. Proposed(k.upd, k.upd)
      BY Zenon, <1>2 DEF ProposalInv, ProposalOK
    <3>3. Proposed(b, b)
      BY ZenonT(60), <2>1, <3>2, <3>4
    <3> QED
      BY Zenon, <1>3, <3>3 DEF Proposed, Proposing
  <2> QED
    BY Zenon, <2>1
<1>15. ProposalOK(p)'
  <2>1. b.ts <= b.ts
    BY <1>12
  <2>2. promises'[b] \in Quorums /\ v \in Visible'
    BY Zenon, <1>2
  <2> QED
    BY ZenonT(60), <1>6, <1>8, <1>11, <1>13, <1>14, <2>1, <2>2 DEF ProposalOK
<1>16. ASSUME NEW n \in Proposals, n.ballot.ts < b.ts PROVE SafeAfter(p, n)'
  <2>1. n.ballot \in Ballot /\ n.ballot.ts \in Nat /\ n.upd.ts \in Nat
    BY Zenon, ProposalTs
  <2>2. CASE Blocked(n.ballot)
    BY ZenonT(60), <1>2, <2>1, <2>2, BlockedGrows DEF SafeAfter
  <2>3. CASE n.upd.ts <= v.ts
    <3>1. b.ts > n.ballot.ts /\ v.ts >= n.upd.ts
      BY SMTT(30), <1>12, <1>16, <2>1, <2>3
    <3> QED
      BY ZenonT(60), <1>6, <1>11, <3>1 DEF SafeAfter
  <2> QED
    BY ZenonT(60), <1>16, <2>2, <2>3 DEF LowerBound
<1>17. p \in net' /\ \A m \in net' : m \notin net => m = p \/ m.type = "repair"
  BY Zenon, <1>7
<1> QED
  BY ZenonT(60), <1>2, <1>3, <1>6, <1>9, <1>10, <1>11, <1>15, <1>16, <1>17, NewProposal

LEMMA EvaluateAgree ==
  ASSUME TypeOK, TypeOK', [Next]_vars, AgreeInv, NEW c \in Coordinators,
         co[c].pc = "prepare" \/ co[c].pc = "read", promises[co[c].ballot] \in Quorums,
         UNCHANGED <<paxos, data, loaded, promises, votes>>,
         NEW v \in Visible, LowerBound(co[c].ballot, v), NEW repairs, \A m \in repairs : m.type = "repair",
         Evaluate(c, v, repairs)
  PROVE  AgreeInv'
<1>1. PICK q : q = co[c]
  BY Zenon
<1>2. /\ q \in Request /\ ReqOK(q) /\ PromiseInv /\ ProposalInv /\ q.ballot \in Ballot
      /\ (q.pc = "prepare" \/ q.pc = "read")
  BY ZenonT(60), <1>1 DEF AgreeInv, TypeOK
<1>3. CASE Answer(c, v) /\ net' = net \cup repairs /\ UNCHANGED <<base, refused>>
  <2>1. FloorOK(q)
    BY Zenon, <1>2 DEF ReqOK
  <2>2. Newer(v, q.floor) = v
    BY ZenonT(60), <1>1, <1>2, <2>1, CurrentAnswer
  <2>3. \A m \in net' : m \notin net => m.type # "accept" /\ m.type # "learn"
    BY Zenon, <1>3
  <2> QED
    BY ZenonT(60), <1>1, <1>3, <2>2, <2>3, AnswerAgree
<1>4. CASE /\ Propose(c, q.ballot, "accept", 0)
           /\ net' = net \cup repairs \cup AcceptRequests(c, q.ballot)
           /\ base' = [base EXCEPT ![q.ballot] = v]
           /\ UNCHANGED <<seen, refused>>
  BY ZenonT(60), <1>1, <1>2, <1>4, FreshAgree
<1> QED
  BY ZenonT(60), <1>1, <1>3, <1>4 DEF Evaluate

-----------------------------------------------------------------------------
(* What follows a quorum of promises.                                      *)

\* Somebody else's update, proposed again.
LEMMA ReplayAgree ==
  ASSUME TypeOK, TypeOK', [Next]_vars, AgreeInv, NEW c \in Coordinators, co[c].pc = "prepare",
         UNCHANGED <<paxos, data, loaded, promises, votes, base, seen, refused>>,
         NEW b \in Ballot, b = co[c].ballot, NEW S, Promised(S, b), promises[b] \in Quorums,
         NEW acc \in Newest({m.accepted : m \in S}), NEW mrc \in Newest({m.commit : m \in S}),
         InProgress(acc, mrc), NEW min, Propose(c, acc.upd, "replay", min),
         net' = net \cup AcceptRequests(c, acc.upd)
  PROVE  AgreeInv'
<1>1. PICK q, u : q = co[c] /\ u = acc.upd
  BY Zenon
<1>2. /\ q \in Request /\ ReqOK(q) /\ PromiseInv /\ ProposalInv /\ Grows /\ Visible \subseteq Visible'
      /\ b = q.ballot /\ q.pc = "prepare"
  BY ZenonT(60), <1>1, CoordinatorGrows, ChosenGrows DEF AgreeInv, TypeOK
<1>3. ~Proposing(b)
  BY Zenon, <1>2 DEF ReqOK
<1>4. votes[b] = {}
  <2>1. \A a \in votes[b] : \E m \in Proposals : m.ballot = b
    BY Zenon, <1>2 DEF PromiseInv
  <2> QED
    BY Zenon, <1>3, <2>1 DEF Proposing
<1>5. PICK p : p = [type |-> "accept", ballot |-> co[c].ballot, upd |-> u, to |-> co[c].live]
  BY Zenon
<1>6. p.type = "accept" /\ p.ballot = b /\ p.upd = u
  BY SMTT(30), <1>5
<1>7. net' = net \cup {p}
  BY Zenon, <1>1, <1>5 DEF AcceptRequests
<1>8. PICK r : /\ co' = [co EXCEPT ![c] = r] /\ r.pc = "replay" /\ r.readers = {}
               /\ r.answers = {} /\ r.ballot = co[c].ballot /\ r.floor = co[c].floor
  BY ProposeFields
<1>9. ReqOK(r)' /\ r.ballot = b
  BY ZenonT(60), <1>1, <1>2, <1>8, ProposingRequest
<1>10. PICK k \in Proposals : k.ballot = acc.ballot /\ k.upd = u /\ votes[k.ballot] # {}
  <2>1. PICK s \in S : acc = s.accepted
    BY Zenon DEF Newest
  <2>2. acc # NoProposal /\ Voted(acc)
    BY Zenon, <2>1 DEF Promised, PromiseOK, InProgress
  <2> QED
    BY Zenon, <1>1, <2>2 DEF Voted, Proposed
<1>11. ProposalOK(k) /\ k.upd = u
  BY Zenon, <1>2, <1>10 DEF ProposalInv
<1>12. PICK o \in Proposals : o.ballot = u /\ o.upd = u
  BY Zenon, <1>11 DEF ProposalOK, Proposed
<1>13. /\ u \in Ballot /\ u.ts \in Nat /\ b.ts \in Nat /\ base[u] \in Ballot0 /\ base[u].ts \in Nat
       /\ base[u] # u /\ base[u] \in Visible /\ votes[u] # {} /\ Proposed(u, u)
  BY ZenonT(60), <1>10, <1>11, <1>12, ProposalTs, TsType DEF ProposalOK
<1>14. \A n \in Proposals : n.ballot.ts < b.ts =>
         Blocked(n.ballot) \/ u = n.upd \/ (u.ts > n.ballot.ts /\ base[u].ts >= n.upd.ts)
  BY ZenonT(60), <1>1, <1>2, ReplaySafe
<1>15. u.ts <= b.ts \/ Blocked(b)
  <2> SUFFICES ASSUME ~(u.ts <= b.ts) PROVE Blocked(b)
    BY Zenon
  <2>1. o.ballot.ts >= b.ts
    BY SMTT(30), <1>12, <1>13
  <2> QED
    BY ZenonT(60), <1>2, <1>3, <1>4, <2>1, ChosenLater
<1>16. base[u].ts < u.ts \/ Blocked(b)
  <2> SUFFICES ASSUME ~(base[u].ts < u.ts) PROVE Blocked(b)
    BY Zenon
  <2>1. base[u] # NoBallot
    <3>1. NoBallot.ts = 0 /\ u.ts > 0
      BY Zenon, <1>13, TsType
    <3> QED
      BY SMTT(30), <1>13, <3>1
  <2>2. PICK w \in Proposals : w.upd = base[u] /\ ~Blocked(w.ballot)
    BY ZenonT(60), <1>2, <1>13, <2>1, VisibleType
  <2>3. w.upd.ts <= w.ballot.ts /\ w.ballot.ts \in Nat
    BY ZenonT(60), <1>2, <2>2, ProposalTs DEF ProposalInv, ProposalOK
  <2>4. CASE w.ballot.ts >= b.ts
    BY ZenonT(60), <1>2, <1>3, <1>4, <2>4, ChosenLater
  <2>5. CASE w.ballot.ts < b.ts
    <3>1. u = w.upd \/ u.ts > w.ballot.ts
      BY ZenonT(60), <1>14, <2>2, <2>5
    <3>2. u # w.upd
      BY Zenon, <1>13, <2>2
    <3> QED
      BY SMTT(30), <1>13, <2>2, <2>3, <3>1, <3>2
  <2> QED
    BY SMTT(30), <1>13, <2>3, <2>4, <2>5
<1>17. ProposalOK(p)'
  <2>1. promises'[b] \in Quorums /\ base' = base /\ base[u] \in Visible' /\ votes'[u] # {}
    BY Zenon, <1>2, <1>13
  <2>2. Proposed(u, u)' /\ (Blocked(b) => Blocked(b)')
    BY ZenonT(60), <1>2, <1>13, MessagesGrow, BlockedGrows
  <2> QED
    BY ZenonT(60), <1>6, <1>13, <1>15, <1>16, <2>1, <2>2 DEF ProposalOK
<1>18. ASSUME NEW n \in Proposals, n.ballot.ts < b.ts PROVE SafeAfter(p, n)'
  <2>1. n.ballot \in Ballot
    BY Zenon, ProposalTs
  <2>2. Blocked(n.ballot)' \/ u = n.upd \/ (u.ts > n.ballot.ts /\ base'[u].ts >= n.upd.ts)
    BY ZenonT(60), <1>2, <1>14, <1>18, <2>1, BlockedGrows
  <2> QED
    BY Zenon, <1>6, <2>2 DEF SafeAfter
<1>19. p \in net' /\ \A m \in net' : m \notin net => m = p \/ m.type = "repair"
  BY Zenon, <1>7
<1>20. \A m \in Proposals : base'[m.upd] = base[m.upd]
  BY Zenon
<1> QED
  BY ZenonT(60), <1>3, <1>6, <1>8, <1>9, <1>17, <1>18, <1>19, <1>20, NewProposal

\* The row must be read: a quorum of the natural endpoints has the newest one.
LEMMA StartRead ==
  ASSUME TypeOK, TypeOK', [Next]_vars, AgreeInv, NEW c \in Coordinators, co[c].pc = "prepare",
         UNCHANGED <<paxos, data, loaded, promises, votes, net, base, seen, refused>>,
         NEW b \in Ballot, b = co[c].ballot, NEW S, Promised(S, b), promises[b] \in Quorums,
         NEW acc \in Newest({m.accepted : m \in S}), NEW mrc \in Newest({m.commit : m \in S}),
         ~InProgress(acc, mrc), ReplicasMissingMostRecentCommit(S, mrc) = {},
         co' = [co EXCEPT ![c].pc = "read", ![c].answers = {}]
  PROVE  AgreeInv'
<1>1. PICK q : q = co[c]
  BY Zenon
<1>2. /\ q \in Request /\ ReqOK(q) /\ PromiseInv /\ ProposalInv /\ Grows /\ b = q.ballot /\ q.pc = "prepare"
  BY ZenonT(60), <1>1, CoordinatorGrows DEF AgreeInv, TypeOK
<1>3. PICK r : r = [q EXCEPT !.pc = "read", !.answers = {}]
  BY Zenon
<1>4. r.pc = "read" /\ r.ballot = q.ballot /\ r.answers = {} /\ r.floor = q.floor /\ r.readers = q.readers
  BY SMTT(30), <1>2, <1>3 DEF Request
<1>5. co' = [co EXCEPT ![c] = r]
  BY ZenonT(30), <1>1, <1>3 DEF TypeOK, Request
<1>6. PICK w, Q : w = mrc.upd /\ Q = {m.from : m \in S}
  BY Zenon
<1>7. LowerBound(b, w)
  BY Zenon, <1>2, <1>6, CommitBound
<1>8. PICK t \in S : mrc = t.commit
  BY Zenon DEF Newest
<1>9. mrc \in Proposal0 /\ Decided(mrc) /\ w \in Ballot0 /\ w.ts \in Nat
  BY ZenonT(60), <1>6, <1>8, ProposalType, TsType DEF Promised, PromiseOK
<1>10. ASSUME NEW m \in S PROVE m.commit.upd = w \/ mrc = NoProposal
  <2> SUFFICES ASSUME mrc # NoProposal PROVE m.commit.upd = w
    BY Zenon
  <2>1. m.commit.ballot = mrc.ballot
    BY Zenon DEF ReplicasMissingMostRecentCommit
  <2>2. m.commit # NoProposal
    <3>1. mrc.ballot # NoProposal.ballot
      BY Zenon, <1>9, ProposalType, TsType DEF NoProposal
    <3> QED
      BY Zenon, <2>1, <3>1
  <2>3. Decided(m.commit)
    BY Zenon DEF Promised, PromiseOK
  <2>4. PICK x \in Proposals : x.ballot = mrc.ballot /\ x.upd = m.commit.upd
    BY Zenon, <2>1, <2>2, <2>3 DEF Decided, Proposed
  <2>5. PICK y \in Proposals : y.ballot = mrc.ballot /\ y.upd = mrc.upd
    BY Zenon, <1>9 DEF Decided, Proposed
  <2>6. \A n, o \in Proposals : n.ballot = o.ballot => n = o
    BY Zenon, <1>2 DEF ProposalInv
  <2>7. x = y
    BY Zenon, <2>4, <2>5, <2>6
  <2> QED
    BY ZenonT(60), <1>6, <2>4, <2>5, <2>7
<1>11. ASSUME NEW a \in Q PROVE data[a].ts >= w.ts
  <2>1. PICK m \in S : m.from = a
    BY Zenon, <1>6
  <2>2. m.commit.upd.ts <= m.row.ts /\ m.row.ts <= data[a].ts /\ m.row \in Ballot0 /\ m.commit \in Proposal0
    BY Zenon, <2>1 DEF Promised, PromiseOK
  <2>3. a \in Participants
    BY ZenonT(60), <1>6, QuorumType DEF Promised
  <2>4. m.commit.upd.ts \in Nat /\ m.row.ts \in Nat /\ data[a].ts \in Nat
    BY ZenonT(60), <2>2, <2>3, ProposalType, TsType, RowTsHolds DEF RowTs
  <2>5. CASE mrc = NoProposal
    <3>1. w.ts = 0
      BY ZenonT(60), <1>6, <2>5 DEF NoProposal, NoBallot
    <3> QED
      BY SMTT(30), <2>4, <3>1
  <2>6. CASE m.commit.upd = w
    BY SMTT(30), <2>2, <2>4, <2>6
  <2> QED
    BY ZenonT(60), <1>10, <2>5, <2>6
<1>12. PICK R : R = Q \cap Natural
  BY Zenon
<1>13. R \in ReadQuorums
  BY ZenonT(60), <1>6, <1>12, QuorumReads DEF Promised
<1>14. q.readers = {}
  BY Zenon, <1>2 DEF ReqOK
<1>15. ReadOK(r)'
  <2>1. LowerBound(r.ballot, w)'
    BY ZenonT(60), <1>2, <1>4, <1>7 DEF LowerBound, Blocked, Proposals
  <2>2. \A a \in R : data'[a].ts >= w.ts /\ (a \in r.readers => r.value.ts >= w.ts)
    BY ZenonT(60), <1>4, <1>11, <1>12, <1>14
  <2> QED
    BY ZenonT(60), <1>9, <1>13, <2>1, <2>2 DEF ReadOK
<1>16. ReqOK(r)'
  <2>1. FloorOK(q) /\ Sent(q.ballot) /\ ~Proposing(q.ballot)
    BY Zenon, <1>2 DEF ReqOK
  <2>2. FloorOK(r)'
    BY ZenonT(60), <1>2, <1>4, <2>1, SameFloor
  <2>3. Sent(r.ballot)' /\ ~Proposing(r.ballot)' /\ promises'[r.ballot] \in Quorums
    BY ZenonT(60), <1>2, <1>4, <2>1 DEF Sent, Proposing, Proposals
  <2>4. r.readers \subseteq Natural /\ r.pc \notin {"accept", "learn", "done"}
    BY Zenon, <1>4, <1>14
  <2> QED
    BY ZenonT(60), <1>4, <1>15, <2>2, <2>3, <2>4 DEF ReqOK
<1> QED
  BY ZenonT(60), <1>1, <1>2, <1>4, <1>5, <1>16, PlainStep


LEMMA LaterBound ==
  ASSUME TypeOK, NEW b, NEW w \in Ballot0, LowerBound(b, w), NEW v \in Ballot0, w.ts <= v.ts
  PROVE  LowerBound(b, v)
<1> SUFFICES ASSUME NEW n \in Proposals, n.ballot.ts < b.ts, ~Blocked(n.ballot) PROVE n.upd.ts <= v.ts
  BY Zenon DEF LowerBound
<1>1. n.upd.ts <= w.ts
  BY Zenon DEF LowerBound
<1>2. n.upd.ts \in Nat /\ w.ts \in Nat /\ v.ts \in Nat
  BY Zenon, ProposalTs, TsType
<1> QED
  BY SMTT(30), <1>1, <1>2

\* A newer decision is sent to the replicas that lack it, and another ballot tried.
LEMMA RelearnAgree ==
  ASSUME TypeOK, TypeOK', [Next]_vars, AgreeInv, NEW c \in Coordinators, co[c].pc = "prepare",
         UNCHANGED <<paxos, data, loaded, promises, votes, base, seen, refused>>,
         NEW mrc, mrc # NoProposal, Decided(mrc), NEW min, NEW missing,
         co' = [co EXCEPT ![c].pc = "ballot", ![c].min_ts = min, ![c].answers = {}],
         net' = net \cup LearnRequests(mrc, missing)
  PROVE  AgreeInv'
<1>1. PICK q : q = co[c]
  BY Zenon
<1>2. q \in Request /\ ReqOK(q) /\ PromiseInv /\ Grows /\ q.pc = "prepare"
  BY ZenonT(60), <1>1, CoordinatorGrows DEF AgreeInv, TypeOK
<1>3. PICK r : r = [q EXCEPT !.pc = "ballot", !.min_ts = min, !.answers = {}]
  BY Zenon
<1>4. r.pc = "ballot" /\ r.ballot = q.ballot /\ r.answers = {} /\ r.floor = q.floor /\ r.readers = q.readers
  BY SMTT(30), <1>2, <1>3 DEF Request
<1>5. co' = [co EXCEPT ![c] = r]
  BY ZenonT(30), <1>1, <1>3 DEF TypeOK, Request
<1>6. q.pc # "idle" /\ q.pc # "done" /\ q.pc # "read"
  BY Zenon, <1>2
<1>7. ReqOK(r)'
  BY ZenonT(60), <1>2, <1>4, <1>6, BackToBallot
<1>8. ASSUME NEW m \in net', m \notin net
      PROVE  m.type # "accept" /\ (m.type = "learn" => Decided([ballot |-> m.ballot, upd |-> m.upd])')
  <2>1. m = [type |-> "learn", ballot |-> mrc.ballot, upd |-> mrc.upd, to |-> missing]
    BY Zenon, <1>8 DEF LearnRequests
  <2>2. m.type = "learn" /\ m.ballot = mrc.ballot /\ m.upd = mrc.upd
    BY <2>1
  <2>3. PICK k \in Proposals : k.ballot = mrc.ballot /\ k.upd = mrc.upd /\ votes[mrc.ballot] \in Quorums
    BY Zenon DEF Decided, Proposed
  <2>4. k \in Proposals'
    BY Zenon DEF Proposals
  <2>5. PICK p : p = [ballot |-> m.ballot, upd |-> m.upd]
    BY Zenon
  <2>6. p.ballot = mrc.ballot /\ p.upd = mrc.upd
    BY SMTT(30), <2>2, <2>5
  <2>7. Decided(p)'
    BY ZenonT(60), <2>3, <2>4, <2>6 DEF Decided, Proposed
  <2> QED
    BY Zenon, <2>2, <2>5, <2>7
<1> QED
  BY ZenonT(60), <1>1, <1>2, <1>4, <1>5, <1>7, <1>8, PlainStep

LEMMA PreparedAgree ==
  ASSUME TypeOK, TypeOK', [Next]_vars, VisibleInv, AgreeInv, NEW c \in Coordinators, NEW Q,
         OnPromises(c, Q), UNCHANGED <<paxos, data, loaded, promises, votes>>
  PROVE  AgreeInv'
<1>1. PICK q, b, S : /\ q = co[c] /\ b = q.ballot
                     /\ S = {m \in q.answers : m.type = "promise" /\ m.from \in Q}
  BY Zenon
<1>2. /\ q.pc = "prepare" /\ Cardinality(Q) = RequiredParticipants
      /\ Q \subseteq AnsweredBy(c, "promise") /\ Prepared(c, S)
  BY Zenon, <1>1 DEF OnPromises
<1>3. /\ q \in Request /\ ReqOK(q) /\ b \in Ballot /\ RequestOK(q, Visible, votes, net)
      /\ PromiseInv /\ ProposalInv
  BY ZenonT(60), <1>1, <1>2 DEF AgreeInv, TypeOK, VisibleInv
<1>4. ASSUME NEW m \in S
      PROVE  /\ PromiseOK(m, b) /\ m.accepted \in Proposal0 /\ m.commit \in Proposal0 /\ m.row \in Ballot0
             /\ m.row \in Visible
  <2>1. m \in q.answers /\ m.type = "promise"
    BY Zenon, <1>1
  <2>2. AnswerOK(m, q)
    BY Zenon, <1>3, <2>1 DEF ReqOK
  <2> QED
    BY ZenonT(60), <1>1, <1>3, <2>1, <2>2, AnswerType2 DEF AnswerOK, RequestOK
<1>5. {m.from : m \in S} \in Quorums
  <2>1. {m.from : m \in S} = Q
    BY ZenonT(60), <1>1, <1>2 DEF AnsweredBy
  <2>2. Q \in SUBSET Participants
    <3>1. ASSUME NEW m \in S PROVE m.from \in Participants
      BY ZenonT(60), <1>1, <1>3, AnswerType2
    <3> QED
      BY Zenon, <2>1, <3>1
  <2>3. Cardinality(Q) >= RequiredParticipants
    BY SMTT(30), <1>2, VotesFinite
  <2> QED
    BY ZenonT(60), <2>1, <2>2, <2>3 DEF Quorums
<1>6. Promised(S, b)
  BY Zenon, <1>4, <1>5 DEF Promised
<1>7. promises[b] \in Quorums
  <2>1. {m.from : m \in S} \subseteq promises[b]
    BY ZenonT(60), <1>4 DEF PromiseOK
  <2>2. promises[b] \in SUBSET Participants
    BY ZenonT(60), <1>3 DEF TypeOK
  <2> QED
    BY ZenonT(60), <1>5, <2>1, <2>2, QuorumType
<1>8. PICK acc, mrc, min, missing :
        /\ acc \in Newest({m.accepted : m \in S}) /\ mrc \in Newest({m.commit : m \in S})
        /\ missing = ReplicasMissingMostRecentCommit(S, mrc)
        /\ \/ /\ InProgress(acc, mrc)
              /\ Propose(c, acc.upd, "replay", min)
              /\ net' = net \cup AcceptRequests(c, acc.upd)
              /\ UNCHANGED <<base, seen, refused>>
           \/ /\ ~InProgress(acc, mrc) /\ missing # {}
              /\ co' = [co EXCEPT ![c].pc = "ballot", ![c].min_ts = min, ![c].answers = {}]
              /\ net' = net \cup LearnRequests(mrc, missing)
              /\ UNCHANGED <<base, seen, refused>>
           \/ /\ ~InProgress(acc, mrc) /\ missing = {}
              /\ \E v \in {m.row : m \in S} : (\A m \in S : m.row = v) /\ Evaluate(c, v, {})
           \/ /\ ~InProgress(acc, mrc) /\ missing = {}
              /\ co' = [co EXCEPT ![c].pc = "read", ![c].answers = {}]
              /\ UNCHANGED <<net, base, seen, refused>>
  BY Zenon, <1>2 DEF Prepared
<1>9. PICK t \in S : mrc = t.commit
  BY Zenon, <1>8 DEF Newest
<1>10. CASE InProgress(acc, mrc)
  BY ZenonT(60), <1>1, <1>2, <1>3, <1>6, <1>7, <1>8, <1>10, ReplayAgree
<1>11. CASE ~InProgress(acc, mrc) /\ missing # {}
  <2>1. mrc # NoProposal
    BY Zenon, <1>8, <1>11 DEF ReplicasMissingMostRecentCommit
  <2>2. Decided(mrc)
    BY Zenon, <1>4, <1>9 DEF PromiseOK
  <2>3. /\ co' = [co EXCEPT ![c].pc = "ballot", ![c].min_ts = min, ![c].answers = {}]
        /\ net' = net \cup LearnRequests(mrc, missing)
        /\ UNCHANGED <<base, seen, refused>>
    BY Zenon, <1>8, <1>11
  <2> QED
    BY ZenonT(60), <1>1, <1>2, <2>1, <2>2, <2>3, RelearnAgree
<1>12. ASSUME ~InProgress(acc, mrc), missing = {}, NEW v \in {m.row : m \in S},
              \A m \in S : m.row = v, Evaluate(c, v, {})
       PROVE  AgreeInv'
  <2>1. /\ v = t.row /\ v \in Visible /\ v \in Ballot0 /\ mrc.upd.ts <= v.ts /\ mrc.upd \in Ballot0
    BY ZenonT(60), <1>4, <1>9, <1>12, ProposalType DEF PromiseOK
  <2>2. LowerBound(b, mrc.upd)
    BY ZenonT(60), <1>3, <1>6, <1>8, <1>12, CommitBound
  <2>3. LowerBound(b, v)
    BY ZenonT(60), <2>1, <2>2, LaterBound
  <2>4. (co[c].pc = "prepare" \/ co[c].pc = "read") /\ promises[co[c].ballot] \in Quorums
        /\ LowerBound(co[c].ballot, v)
    BY ZenonT(60), <1>1, <1>2, <1>7, <2>3
  <2>5. PICK repairs : repairs = {}
    BY Zenon
  <2>6. (\A m \in repairs : m.type = "repair") /\ Evaluate(c, v, repairs)
    BY ZenonT(60), <1>12, <2>5
  <2> QED
    BY ZenonT(60), <2>1, <2>4, <2>6, EvaluateAgree
<1>13. CASE /\ ~InProgress(acc, mrc) /\ missing = {}
            /\ co' = [co EXCEPT ![c].pc = "read", ![c].answers = {}]
            /\ UNCHANGED <<net, base, seen, refused>>
  <2>1. /\ acc \in Newest({m.accepted : m \in S}) /\ mrc \in Newest({m.commit : m \in S})
        /\ ~InProgress(acc, mrc) /\ ReplicasMissingMostRecentCommit(S, mrc) = {}
    BY ZenonT(60), <1>8, <1>13
  <2>2. co[c].pc = "prepare" /\ b = co[c].ballot
    BY Zenon, <1>1, <1>2
  <2> QED
    BY ZenonT(60), <1>3, <1>6, <1>7, <1>13, <2>1, <2>2, StartRead
<1> QED
  BY ZenonT(60), <1>8, <1>10, <1>11, <1>12, <1>13


\* A read reply: the newest row of the replies so far.
LEMMA ReadReplyAgree ==
  ASSUME TypeOK, TypeOK', [Next]_vars, VisibleInv, AgreeInv, NEW c \in Coordinators, NEW a \in Participants,
         ReadReply(c, a), UNCHANGED <<paxos, data, loaded, promises, votes>>
  PROVE  AgreeInv'
<1>1. PICK q, got, v : q = co[c] /\ got = q.readers \cup {a} /\ v = Newer(q.value, data[a])
  BY Zenon
<1>2. PICK stale :
        /\ q.pc = "read" /\ a \in Natural
        /\ \/ Cardinality(got) = ReadBlockFor /\ Evaluate(c, v, RepairRequests(v, stale))
           \/ /\ co' = [co EXCEPT ![c].readers = got, ![c].value = v]
              /\ UNCHANGED <<net, base, seen, refused>>
  BY ZenonT(60), <1>1 DEF ReadReply
<1>3. /\ q \in Request /\ ReqOK(q) /\ q.ballot \in Ballot /\ RequestOK(q, Visible, votes, net)
      /\ PromiseInv /\ ProposalInv /\ Grows /\ data[a] \in Visible
  BY ZenonT(60), <1>1, <1>2, CoordinatorGrows DEF AgreeInv, TypeOK, VisibleInv
<1>4. promises[q.ballot] \in Quorums /\ ReadOK(q) /\ q.readers \subseteq Natural
  BY Zenon, <1>2, <1>3 DEF ReqOK
<1>5. PICK R \in ReadQuorums, w \in Ballot0 :
        /\ LowerBound(q.ballot, w)
        /\ \A x \in R : data[x].ts >= w.ts /\ (x \in q.readers => q.value.ts >= w.ts)
  BY Zenon, <1>4 DEF ReadOK
<1>6. q.value \in Visible
  BY ZenonT(60), <1>2, <1>3 DEF RequestOK
<1>7. q.value \in Ballot0 /\ data[a] \in Ballot0 /\ q.value.ts \in Nat /\ data[a].ts \in Nat /\ w.ts \in Nat
  BY ZenonT(60), <1>3, <1>5, <1>6, VisibleType, TsType
<1>8. v \in {q.value, data[a]} /\ v.ts >= q.value.ts /\ v.ts >= data[a].ts
  BY ZenonT(60), <1>1, <1>7, NewerType
<1>9. v \in Visible /\ v \in Ballot0 /\ v.ts \in Nat
  BY ZenonT(60), <1>3, <1>6, <1>7, <1>8
<1>10. ASSUME NEW x \in R, x \in got PROVE v.ts >= w.ts
  <2>1. q.value.ts >= w.ts \/ data[a].ts >= w.ts
    BY ZenonT(60), <1>1, <1>5, <1>10
  <2> QED
    BY SMTT(30), <1>7, <1>8, <1>9, <2>1
<1>11. got \subseteq Natural
  BY ZenonT(60), <1>1, <1>2, <1>4
<1>12. CASE Cardinality(got) = ReadBlockFor /\ Evaluate(c, v, RepairRequests(v, stale))
  <2>1. Cardinality(got) >= ReadBlockFor
    BY SMTT(30), <1>12, Sizes DEF ReadBlockFor
  <2>2. got \in ReadQuorums
    BY ZenonT(60), <1>11, <2>1 DEF ReadQuorums
  <2>3. PICK x \in R : x \in got
    BY ZenonT(60), <1>5, <2>2, ReadsMeet
  <2>4. v.ts >= w.ts
    BY ZenonT(60), <1>10, <2>3
  <2>5. w.ts <= v.ts
    BY SMTT(30), <1>7, <1>9, <2>4
  <2>6. LowerBound(q.ballot, v)
    BY ZenonT(60), <1>5, <1>9, <2>5, LaterBound
  <2>7. PICK repairs : repairs = RepairRequests(v, stale)
    BY Zenon
  <2>8. \A m \in repairs : m.type = "repair"
    BY <2>7 DEF RepairRequests
  <2>9. /\ co[c].pc = "prepare" \/ co[c].pc = "read"
        /\ promises[co[c].ballot] \in Quorums /\ LowerBound(co[c].ballot, v)
        /\ Evaluate(c, v, repairs)
    BY ZenonT(60), <1>1, <1>2, <1>4, <1>12, <2>6, <2>7
  <2> QED
    BY ZenonT(60), <1>9, <2>8, <2>9, EvaluateAgree
<1>13. CASE /\ co' = [co EXCEPT ![c].readers = got, ![c].value = v]
            /\ UNCHANGED <<net, base, seen, refused>>
  <2>1. PICK r : r = [q EXCEPT !.readers = got, !.value = v]
    BY Zenon
  <2>2. /\ r.pc = "read" /\ r.ballot = q.ballot /\ r.answers = q.answers /\ r.floor = q.floor
        /\ r.readers = got /\ r.value = v /\ r.live = q.live
    BY SMTT(30), <1>2, <1>3, <2>1 DEF Request
  <2>3. co' = [co EXCEPT ![c] = r]
    BY ZenonT(30), <1>1, <1>13, <2>1 DEF TypeOK, Request
  <2>4. ReadOK(r)'
    <3>1. LowerBound(r.ballot, w)'
      BY ZenonT(60), <1>5, <1>13, <2>2 DEF LowerBound, Blocked, Proposals
    <3>2. \A x \in R : data'[x].ts >= w.ts /\ (x \in r.readers => r.value.ts >= w.ts)
      BY ZenonT(60), <1>5, <1>10, <2>2
    <3> QED
      BY ZenonT(60), <1>5, <3>1, <3>2 DEF ReadOK
  <2>5. ASSUME NEW m \in r.answers PROVE AnswerOK(m, r)'
    <3>1. AnswerOK(m, q)
      BY ZenonT(60), <1>3, <2>2, <2>5 DEF ReqOK
    <3>2. m.type # "promise" /\ m.type # "rejected"
      BY ZenonT(60), <1>2, <3>1 DEF AnswerOK
    <3> QED
      BY Zenon, <3>2 DEF AnswerOK
  <2>6. FloorOK(q) /\ Sent(q.ballot) /\ ~Proposing(q.ballot)
    BY ZenonT(60), <1>2, <1>3 DEF ReqOK
  <2>7. FloorOK(r)'
    BY ZenonT(60), <1>3, <2>2, <2>6, SameFloor
  <2>8. Sent(r.ballot)' /\ ~Proposing(r.ballot)' /\ promises'[r.ballot] \in Quorums
    BY ZenonT(60), <1>4, <1>13, <2>2, <2>6 DEF Sent, Proposing, Proposals
  <2>9. r.readers \subseteq Natural /\ r.pc \notin {"accept", "learn", "done"}
    BY ZenonT(60), <1>11, <2>2
  <2>10. ReqOK(r)'
    BY ZenonT(60), <2>2, <2>4, <2>5, <2>7, <2>8, <2>9 DEF ReqOK
  <2> QED
    BY ZenonT(60), <1>1, <1>3, <1>13, <2>2, <2>3, <2>10, PlainStep
<1> QED
  BY ZenonT(60), <1>2, <1>12, <1>13

-----------------------------------------------------------------------------
(* The theorems.                                                           *)

LEMMA CoordinatorAgree ==
  ASSUME TypeOK, TypeOK', [Next]_vars, VisibleInv, AgreeInv, NEW c \in Coordinators, Coordinator(c),
         UNCHANGED <<paxos, data, loaded, promises, votes>>
  PROVE  AgreeInv'
<1>1. CASE \E alive \in Views : Begin(c, alive)
  BY Zenon, <1>1, BeginAgree
<1>2. CASE \E now \in 1..MaxTs, nonce \in Nonces : PrepareBallot(c, now, nonce)
  BY Zenon, <1>2, PrepareBallotAgree
<1>3. CASE \E Q \in SUBSET co[c].live : OnPromises(c, Q)
  BY ZenonT(60), <1>3, PreparedAgree
<1>4. CASE \E m \in co[c].answers : OnOutdated(c, m)
  BY Zenon, <1>4, OnOutdatedAgree
<1>5. CASE \E a \in Participants : ReadReply(c, a)
  BY Zenon, <1>5, ReadReplyAgree
<1>6. CASE \E A \in SUBSET AnsweredBy(c, "accepted"), R \in SUBSET AnsweredBy(c, "rejected") :
             \E E \in SUBSET (co[c].live \ (A \cup R)) : OnAcceptReplies(c, A, R, E)
  <2>1. PICK A \in SUBSET AnsweredBy(c, "accepted"), R \in SUBSET AnsweredBy(c, "rejected") :
          \E E \in SUBSET (co[c].live \ (A \cup R)) : OnAcceptReplies(c, A, R, E)
    BY Zenon, <1>6
  <2>2. PICK E \in SUBSET (co[c].live \ (A \cup R)) : OnAcceptReplies(c, A, R, E)
    BY Zenon, <2>1
  <2>3. E \in SUBSET co[c].live
    BY Zenon
  <2> QED
    BY ZenonT(60), <2>2, <2>3, OnAcceptRepliesAgree
<1>7. CASE LearnDone(c)
  BY Zenon, <1>7, LearnDoneAgree
<1>8. CASE Fail(c)
  BY ZenonT(60), <1>8, FailAgree
<1> QED
  BY ZenonT(60), <1>1, <1>2, <1>3, <1>4, <1>5, <1>6, <1>7, <1>8 DEF Coordinator

LEMMA InitAgree == Init => AgreeInv
<1> SUFFICES ASSUME Init PROVE AgreeInv
  OBVIOUS
<1>1. /\ net = {} /\ refused = {} /\ seen = NoBallot
      /\ \A b \in Ballot : promises[b] = {} /\ votes[b] = {}
      /\ \A c \in Coordinators : co[c] = Idle
      /\ \A a \in Participants : paxos[a] = EmptyRow /\ data[a] = NoBallot /\ loaded[a] = NoLoad
  BY Zenon DEF Init
<1>2. /\ Idle.pc = "idle" /\ Idle.ballot = NoBallot /\ Idle.answers = {} /\ Idle.readers = {}
      /\ EmptyRow.proposal = NoProposal /\ EmptyRow.most_recent_commit = NoProposal
      /\ NoLoad.accepted = NoProposal /\ NoLoad.commit = NoProposal /\ NoProposal.upd = NoBallot
  BY DEF Idle, EmptyRow, NoLoad, NoProposal
<1>3. PromiseInv
  BY ZenonT(60), <1>1, <1>2, TsType DEF PromiseInv
<1>4. ProposalInv
  BY Zenon, <1>1 DEF ProposalInv, Proposals
<1>5. ASSUME NEW a \in Participants PROVE ReplicaOK(a)
  <2>1. data[a].ts >= NoBallot.ts
    BY SMTT(30), <1>1, <1>5, TsType
  <2> QED
    BY ZenonT(60), <1>1, <1>2, <1>5, <2>1 DEF ReplicaOK, RowOK, LoadOK, Voted, Decided
<1>6. ASSUME NEW c \in Coordinators PROVE ReqOK(co[c])
  BY ZenonT(60), <1>1, <1>2, TsType DEF ReqOK
<1>7. seen \in Visible
  BY Zenon, <1>1 DEF Visible
<1> QED
  BY ZenonT(60), <1>3, <1>4, <1>5, <1>6, <1>7 DEF AgreeInv

LEMMA StutterAgree ==
  ASSUME AgreeInv, UNCHANGED vars
  PROVE  AgreeInv'
<1>1. /\ paxos' = paxos /\ data' = data /\ loaded' = loaded /\ net' = net /\ co' = co
      /\ promises' = promises /\ votes' = votes /\ base' = base /\ seen' = seen /\ refused' = refused
  BY Zenon DEF vars
<1>2. Proposals' = Proposals
  BY Zenon, <1>1 DEF Proposals
<1>3. Visible' = Visible /\ Chosen' = Chosen
  BY Zenon, <1>1 DEF Visible, Chosen
<1>4. \A b : Sent(b)' = Sent(b) /\ Proposing(b)' = Proposing(b) /\ Blocked(b)' = Blocked(b)
  BY Zenon, <1>1, <1>2 DEF Sent, Proposing, Blocked
<1>5. \A x, y : Proposed(x, y)' = Proposed(x, y) /\ Rejects(x, y)' = Rejects(x, y)
  BY ZenonT(60), <1>1, <1>2 DEF Proposed, Rejects
<1>6. \A p : Voted(p)' = Voted(p) /\ Decided(p)' = Decided(p)
  BY Zenon, <1>1, <1>5 DEF Voted, Decided
<1>7. \A m, n : ProposalOK(m)' = ProposalOK(m) /\ SafeAfter(m, n)' = SafeAfter(m, n)
  BY ZenonT(60), <1>1, <1>3, <1>4, <1>5 DEF ProposalOK, SafeAfter
<1>8. PromiseInv'
  BY ZenonT(60), <1>1, <1>2, <1>4 DEF AgreeInv, PromiseInv
<1>9. ProposalInv'
  BY ZenonT(60), <1>1, <1>2, <1>5, <1>6, <1>7 DEF AgreeInv, ProposalInv
<1>10. \A a \in Participants : ReplicaOK(a)'
  BY ZenonT(60), <1>1, <1>4, <1>6 DEF AgreeInv, ReplicaOK, RowOK, LoadOK
<1>11. \A r : ReadOK(r)' = ReadOK(r) /\ FloorOK(r)' = FloorOK(r)
  BY ZenonT(60), <1>1, <1>2, <1>4 DEF ReadOK, FloorOK, LowerBound
<1>12. \A m, b : PromiseOK(m, b)' = PromiseOK(m, b)
  BY ZenonT(60), <1>1, <1>6 DEF PromiseOK, Shows
<1>13. \A m, r : AnswerOK(m, r)' = AnswerOK(m, r)
  BY ZenonT(60), <1>5, <1>12 DEF AnswerOK
<1>14. \A r : ReqOK(r) => ReqOK(r)'
  BY ZenonT(60), <1>1, <1>3, <1>4, <1>5, <1>11, <1>13 DEF ReqOK
<1> QED
  BY ZenonT(60), <1>1, <1>3, <1>8, <1>9, <1>10, <1>14 DEF AgreeInv

\* Whatever the interleaving of replicas and coordinators, and whatever is lost,
\* late or fails: a ballot that a quorum has promised knows every update that
\* may be chosen under an older one.
THEOREM Agreement == Spec => []AgreeInv
<1>1. TypeOK /\ TypeOK' /\ VisibleInv /\ AcceptedIsRemembered /\ AgreeInv /\ [Next]_vars => AgreeInv'
  <2> SUFFICES ASSUME TypeOK, TypeOK', VisibleInv, AcceptedIsRemembered, AgreeInv, [Next]_vars
               PROVE  AgreeInv'
    BY Zenon
  <2>1. CASE \E a \in Participants : Replica(a) /\ UNCHANGED <<net, base, seen, refused>>
    BY ZenonT(60), <2>1, ReplicaAgree
  <2>2. CASE \E c \in Coordinators :
               Coordinator(c) /\ UNCHANGED <<paxos, data, loaded, promises, votes>>
    BY Zenon, <2>2, CoordinatorAgree
  <2>3. CASE UNCHANGED vars
    BY Zenon, <2>3, StutterAgree
  <2> QED
    BY ZenonT(60), <2>1, <2>2, <2>3 DEF Next
<1> QED
  BY <1>1, InitAgree, TypeCorrect, VisibleHolds, Remembered, PTL DEF Spec

\* The updates that a quorum accepted.
LEMMA ChosenProposal ==
  ASSUME TypeOK, NEW u
  PROVE  u \in Chosen <=> \E m \in Proposals : m.upd = u /\ votes[m.ballot] \in Quorums
<1>1. ASSUME NEW m \in net, m.type = "accept"
      PROVE  Cardinality(votes[m.ballot]) >= RequiredParticipants <=> votes[m.ballot] \in Quorums
  <2>1. m \in Proposals
    BY Zenon, <1>1 DEF Proposals
  <2>2. votes[m.ballot] \in SUBSET Participants
    BY ZenonT(60), <2>1, ProposalTs
  <2> QED
    BY Zenon, <2>2 DEF Quorums
<1> QED
  BY Zenon, <1>1 DEF Chosen, Proposals

\* Two updates that a quorum accepted: the later one was computed from the
\* earlier one or from something newer.
LEMMA InOrder ==
  ASSUME TypeOK, AgreeInv, NEW m \in Proposals, NEW n \in Proposals,
         votes[m.ballot] \in Quorums, votes[n.ballot] \in Quorums, n.ballot.ts < m.ballot.ts
  PROVE  m.upd = n.upd \/ base[m.upd].ts >= n.upd.ts
<1>1. SafeAfter(m, n)
  BY ZenonT(60) DEF AgreeInv, ProposalInv
<1> QED
  BY ZenonT(60), <1>1, ChosenNotBlocked DEF SafeAfter

LEMMA ChosenWell ==
  ASSUME TypeOK, AgreeInv, NEW m \in Proposals, votes[m.ballot] \in Quorums
  PROVE  /\ base[m.upd] \in Visible /\ base[m.upd].ts < m.upd.ts
         /\ base[m.upd].ts \in Nat /\ m.upd.ts \in Nat
<1>1. ProposalOK(m)
  BY Zenon DEF AgreeInv, ProposalInv
<1> QED
  BY ZenonT(60), <1>1, ChosenNotBlocked, ProposalTs DEF ProposalOK

LEMMA NoUpdateLost == TypeOK /\ AgreeInv => NoLostUpdate
<1> SUFFICES ASSUME TypeOK, AgreeInv, NEW u \in Chosen
             PROVE  /\ base[u] \in Chosen \cup {NoBallot} /\ base[u].ts < u.ts
                    /\ \A v \in Chosen : base[u] = base[v] => u = v
  BY Zenon DEF NoLostUpdate
<1>1. PICK m \in Proposals : m.upd = u /\ votes[m.ballot] \in Quorums
  BY Zenon, ChosenProposal
<1>2. base[u] \in Visible /\ base[u].ts < u.ts /\ base[u].ts \in Nat /\ u.ts \in Nat
  BY ZenonT(60), <1>1, ChosenWell
<1>3. ASSUME NEW v \in Chosen, base[u] = base[v] PROVE u = v
  <2>1. PICK n \in Proposals : n.upd = v /\ votes[n.ballot] \in Quorums
    BY ZenonT(60), <1>3, ChosenProposal
  <2>2. base[v].ts < v.ts /\ base[v].ts \in Nat /\ v.ts \in Nat
    BY ZenonT(60), <2>1, ChosenWell
  <2>3. m.ballot.ts \in Nat /\ n.ballot.ts \in Nat
    BY Zenon, ProposalTs
  <2>4. CASE n.ballot.ts < m.ballot.ts
    <3>1. u = v \/ base[u].ts >= v.ts
      BY ZenonT(60), <1>1, <2>1, <2>4, InOrder
    <3> QED
      BY SMTT(30), <1>3, <2>2, <3>1
  <2>5. CASE m.ballot.ts < n.ballot.ts
    <3>1. v = u \/ base[v].ts >= u.ts
      BY ZenonT(60), <1>1, <2>1, <2>5, InOrder
    <3> QED
      BY SMTT(30), <1>2, <1>3, <3>1
  <2>6. CASE m.ballot.ts = n.ballot.ts
    BY ZenonT(60), <1>1, <2>1, <2>6, OneProposal DEF AgreeInv
  <2> QED
    BY SMTT(30), <2>3, <2>4, <2>5, <2>6
<1> QED
  BY ZenonT(60), <1>2, <1>3 DEF Visible

\* A refused update: everyone who was asked rejects it, so nobody can have passed
\* it on.
LEMMA RefusedLost == TypeOK /\ AgreeInv => RefusedNeverChosen
<1> SUFFICES ASSUME TypeOK, AgreeInv, NEW u \in refused, u \in Chosen PROVE FALSE
  BY Zenon DEF RefusedNeverChosen
<1>1. PICK m \in Proposals : m.upd = u /\ votes[m.ballot] \in Quorums
  BY Zenon, ChosenProposal
<1>2. votes[u] = {}
  BY Zenon DEF AgreeInv, ProposalInv
<1>3. votes[u] # {}
  <2>1. ProposalOK(m)
    BY Zenon DEF AgreeInv, ProposalInv
  <2>2. CASE m.ballot = u
    BY ZenonT(60), <1>1, <2>2, QuorumType
  <2>3. CASE m.ballot # u
    BY ZenonT(60), <1>1, <2>1, <2>3 DEF ProposalOK
  <2> QED
    BY ZenonT(60), <2>2, <2>3
<1> QED
  BY ZenonT(60), <1>2, <1>3

LEMMA TimestampsDiffer == TypeOK /\ AgreeInv => OneProposalPerTimestamp
<1> SUFFICES ASSUME TypeOK, AgreeInv, NEW m \in net, NEW n \in net,
                    m.type = "accept", n.type = "accept", m.ballot.ts = n.ballot.ts
             PROVE  m.ballot = n.ballot /\ m.upd = n.upd
  BY Zenon DEF OneProposalPerTimestamp
<1>1. m \in Proposals /\ n \in Proposals
  BY Zenon DEF Proposals
<1> QED
  BY ZenonT(60), <1>1, OneProposal DEF AgreeInv

\* storage_proxy::cas(): the chosen updates form a chain in which each was
\* computed from the one before it.  No conditional update is lost, and no two
\* are applied to the same row.
THEOREM UpdatesForAChain == Spec => []NoLostUpdate
BY Agreement, TypeCorrect, NoUpdateLost, PTL

\* A request is answered with the row its condition was evaluated on, or the
\* update it made, and neither is older than anything answered before the
\* request began.
THEOREM LinearAnswers == Spec => []AnswersAreCurrent
<1>1. AgreeInv => AnswersAreCurrent
  BY ZenonT(60) DEF AgreeInv, ReqOK, AnswersAreCurrent
<1> QED
  BY <1>1, Agreement, PTL

\* accept_proposal() returning false: an update whose proposal was rejected, and
\* which cas() computes anew under another ballot, takes effect under neither
\* its own ballot nor the one of somebody who repeats it.
THEOREM RefusedStaysLost == Spec => []RefusedNeverChosen
BY Agreement, TypeCorrect, RefusedLost, PTL

\* Two proposals sent with the same timestamp are the same proposal, although
\* ballots are drawn independently and only compared by their timestamps.
THEOREM OneProposalEach == Spec => []OneProposalPerTimestamp
BY Agreement, TypeCorrect, TimestampsDiffer, PTL
=============================================================================
