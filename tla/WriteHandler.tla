---------------------------- MODULE WriteHandler ----------------------------
(***************************************************************************)
(* The coordinator's side of a write: the abstract_write_response_handler  *)
(* of service/storage_proxy and its kinds, the map of the running handlers,*)
(* the throttling of clients by the volume of background writes, the hints *)
(* for replicas that did not acknowledge, and the replicas' handle_write() *)
(* with its forwarding inside a datacenter.                                *)
(*                                                                         *)
(* What is abstracted.  A mutation is its response id and has size 1.  The *)
(* backlog of view updates is reduced to its effect: a completion is, or   *)
(* is not, delayed by a sleep.  Which hints the hints manager accepts is   *)
(* its own choice, within the rules the proxy relies on.  A message that   *)
(* stays in net is late, or lost.  The replication strategy is             *)
(* network_topology_strategy.                                              *)
(***************************************************************************)
EXTENDS Integers, Sequences, FiniteSets, FiniteSetsExt

CONSTANTS
  Writes,         \* response ids
  Endpoints,
  Me,             \* the coordinator
  Datacenters,
  Dc,             \* the datacenter of an endpoint, by the snitch
  RF,             \* the replication factor of a datacenter
  Cases,          \* the writes clients make: [cl, type, natural, pending]
  HintsEnabled,   \* bool(_hints_manager)
  Threshold,      \* _background_write_throttle_threahsold, in mutations
  QueueLimit      \* the 6MB limit of queued_write_bytes, in mutations

Levels == {"ANY", "ONE", "TWO", "QUORUM", "ALL", "LOCAL_ONE", "LOCAL_QUORUM", "EACH_QUORUM"}
Types  == {"SIMPLE", "COUNTER", "VIEW"}

ASSUME WriteAssumption ==
  /\ IsFiniteSet(Writes) /\ IsFiniteSet(Endpoints) /\ IsFiniteSet(Datacenters)
  /\ Me \in Endpoints
  /\ Dc \in [Endpoints -> Datacenters]
  /\ RF \in [Datacenters -> Nat \ {0}]
  /\ Cases \subseteq [cl : Levels, type : Types,
                      natural : SUBSET Endpoints, pending : SUBSET Endpoints]
  /\ \A c \in Cases : c.natural \cap c.pending = {}
  /\ HintsEnabled \in BOOLEAN
  /\ Threshold \in Nat /\ QueueLimit \in Nat

-----------------------------------------------------------------------------
(* Consistency levels.                                                     *)

Local(S)  == {e \in S : Dc[e] = Dc[Me]}
In(S, dc) == {e \in S : Dc[e] = dc}

local_quorum_for(dc) == RF[dc] \div 2 + 1
quorum_for == MapThenSumSet(LAMBDA dc : RF[dc], Datacenters) \div 2 + 1
is_datacenter_local(cl) == cl \in {"LOCAL_ONE", "LOCAL_QUORUM"}

block_for(cl) ==
  CASE cl \in {"ANY", "ONE", "LOCAL_ONE"} -> 1
    [] cl = "TWO" -> 2
    [] cl = "QUORUM" -> quorum_for
    [] cl = "ALL" -> MapThenSumSet(LAMBDA dc : RF[dc], Datacenters)
    [] cl = "LOCAL_QUORUM" -> local_quorum_for(Dc[Me])
    [] cl = "EACH_QUORUM" -> MapThenSumSet(local_quorum_for, Datacenters)

\* A slip: pending endpoints are not added to what a write needs.
SufficientWithoutPending(c, live) == Cardinality(live) >= block_for(c.cl)

assure_sufficient_live_nodes(c, live) ==
  CASE c.cl = "ANY" -> TRUE
    [] is_datacenter_local(c.cl) ->
         Cardinality(Local(live)) >= block_for(c.cl) + Cardinality(Local(c.pending))
    [] c.cl = "EACH_QUORUM" ->
         \A dc \in Datacenters :
           Cardinality(In(live, dc)) >= local_quorum_for(dc) + Cardinality(In(c.pending, dc))
    [] OTHER -> Cardinality(live) >= block_for(c.cl) + Cardinality(c.pending)

-----------------------------------------------------------------------------
(* The state.                                                              *)

VARIABLES
  proxy,     \* storage_proxy: its handlers, throttled writes and gauges
  net,       \* messages between the coordinator and the replicas
  outcome    \* history: what became of each write at each replica

vars == <<proxy, net, outcome>>

\* The rpcs of send_to_live_endpoints(): to coord, which forwards to the others.
Send == [coord : Endpoints, forward : SUBSET Endpoints]

Message ==
       [type : {"mutation"}, write : Writes, to : Endpoints, forward : SUBSET Endpoints]
  \cup [type : {"done"}, write : Writes, from : Endpoints]
  \cup [type : {"failed"}, write : Writes, from : Endpoints, errors : 1..Cardinality(Endpoints)]

\* The fields of abstract_write_response_handler; ready is what its promise was
\* set to, resume and lingering are the sleeps of delay() that hold the handler,
\* sends the rpcs that do, tried and hinted what was offered to the hints manager
\* and what it took, and caller is where the handler's creator is.
Handler == [
  cl : Levels, type : Types, natural : SUBSET Endpoints, pending : SUBSET Endpoints,
  targets : SUBSET Endpoints, dead : SUBSET Endpoints,
  total_block_for : Nat, total_endpoints : Nat,
  cl_acks : Nat, cl_achieved : BOOLEAN, throttled : BOOLEAN,
  error : {"NONE", "TIMEOUT", "FAILURE"},
  failed : Nat, all_failures : Nat,
  dc_acks : [Datacenters -> Nat], dc_failures : [Datacenters -> Nat],
  resume : {"no", "later", "done"}, lingering : BOOLEAN, sends : SUBSET Send,
  registered : BOOLEAN, exists : BOOLEAN,
  caller : {"idle", "preparing", "waiting", "cancelled"},
  ready : Seq({"ok", "timeout", "failure", "broken"}),
  tried : SUBSET Endpoints, hinted : SUBSET Endpoints]

\* A response id that is not in use yet.
Unused == [
  cl |-> "ANY", type |-> "SIMPLE", natural |-> {}, pending |-> {},
  targets |-> {}, dead |-> {}, total_block_for |-> 0, total_endpoints |-> 0,
  cl_acks |-> 0, cl_achieved |-> FALSE, throttled |-> FALSE, error |-> "NONE",
  failed |-> 0, all_failures |-> 0,
  dc_acks |-> [dc \in Datacenters |-> 0], dc_failures |-> [dc \in Datacenters |-> 0],
  resume |-> "no", lingering |-> FALSE, sends |-> {},
  registered |-> FALSE, exists |-> FALSE, caller |-> "idle",
  ready |-> <<>>, tried |-> {}, hinted |-> {}]

Init ==
  /\ proxy = [handlers |-> [w \in Writes |-> Unused], throttled_writes |-> <<>>,
              background |-> 0, queued |-> 0]
  /\ net = {}
  /\ outcome = [w \in Writes |-> [e \in Endpoints |-> "unknown"]]

-----------------------------------------------------------------------------
(* One handler.                                                            *)

Replicas(r) == r.natural \cup r.pending

\* hints_enabled(), and can_hint_for(): the endpoints whose hint may be accepted.
Hintable(type, S) == IF HintsEnabled \/ type = "VIEW" THEN S \ {Me} ELSE {}

\* Slip: the level is reached again by every acknowledgement that follows.
SignalAgain(r, nr, delayed) ==
  LET acks == r.cl_acks + nr IN
  IF nr > 0 /\ acks >= r.total_block_for
  THEN [r EXCEPT !.cl_acks = acks, !.cl_achieved = TRUE,
                 !.resume = IF delayed THEN "later" ELSE "now"]
  ELSE [r EXCEPT !.cl_acks = acks]

\* signal(nr): resume is "now" when delay() calls on_resume at once, and "later"
\* when it sleeps first.
signal(r, nr, delayed) ==
  LET acks == r.cl_acks + nr IN
  IF ~r.cl_achieved /\ acks >= r.total_block_for
  THEN [r EXCEPT !.cl_acks = acks, !.cl_achieved = TRUE,
                 !.resume = IF delayed THEN "later" ELSE "now"]
  ELSE [r EXCEPT !.cl_acks = acks]

\* delay() sleeps only within the time the armed timer has left, and only when a
\* target that is still awaited has a backlog of view updates.
MayDelay(r) == IF r.caller = "waiting" /\ r.targets # {} THEN BOOLEAN ELSE {FALSE}

DcBlockFor(r, dc)  == local_quorum_for(dc) + Cardinality(In(r.pending, dc))
DcEndpoints(r, dc) == Cardinality(In(Replicas(r) \ r.dead, dc))

waited_for(r, from) ==
  CASE is_datacenter_local(r.cl) -> Dc[from] = Dc[Me]
    [] r.cl = "EACH_QUORUM" -> r.dc_acks[Dc[from]] < DcBlockFor(r, Dc[from])
    [] OTHER -> TRUE

\* signal(from); only datacenter_sync_write_response_handler counts per datacenter.
SignalFrom(r, from, delayed) ==
  LET counted == IF r.cl = "EACH_QUORUM"
                 THEN [r EXCEPT !.dc_acks[Dc[from]] = @ + 1]
                 ELSE r
  IN  IF waited_for(r, from) THEN signal(counted, 1, delayed) ELSE r

\* Slip: hints are written only when they count towards the level.
TimeoutHintsOnlyAny(r, hinted, delayed) ==
  LET took  == hinted \cap r.targets
      tried == [r EXCEPT !.tried = @ \cup r.targets, !.hinted = @ \cup took]
      s == IF r.cl = "ANY" /\ ~r.cl_achieved
           THEN signal(tried, Cardinality(took), delayed)
           ELSE r
  IN  [s EXCEPT !.error = "TIMEOUT", !.registered = FALSE]

\* timeout_cb(): the targets that did not answer are offered to the hints manager
\* once the level is reached, or when hints count towards it; remove_response_handler().
timeout_cb(r, hinted, delayed) ==
  LET took  == hinted \cap r.targets
      tried == [r EXCEPT !.tried = @ \cup r.targets, !.hinted = @ \cup took]
      s == IF r.cl_achieved \/ r.cl = "ANY"
           THEN signal(tried, Cardinality(took), delayed)
           ELSE r
  IN  [s EXCEPT !.error = "TIMEOUT", !.registered = FALSE]

check_for_early_completion(r, hinted, delayed) ==
  IF r.all_failures = Cardinality(r.targets) THEN timeout_cb(r, hinted, delayed) ELSE r

\* response(): an acknowledgement of a target that is still awaited.
response(r, from, delayed) ==
  IF from \in r.targets
  THEN [SignalFrom(r, from, delayed) EXCEPT !.targets = @ \ {from}]
  ELSE r

got_response(r, from, hinted, delayed) ==
  LET s == response(r, from, delayed) IN
  IF ~r.registered THEN r
  ELSE IF s.targets = {} THEN [s EXCEPT !.registered = FALSE]
  ELSE check_for_early_completion(s, hinted, delayed)

\* Slip: a level that needs every replica but one is given up at the first failure.
FailureTooSoon(r, from, count) ==
  [r EXCEPT !.failed = @ + count,
            !.error = IF r.total_block_for + r.failed + count >= r.total_endpoints
                      THEN "FAILURE" ELSE @]

\* failure() of the handler of EACH_QUORUM: hopeless in one datacenter.
DcFailure(r, from, count) ==
  LET dc == Dc[from] IN
  [r EXCEPT !.failed = @ + count, !.dc_failures[dc] = @ + count,
            !.error = IF DcBlockFor(r, dc) + r.dc_failures[dc] + count > DcEndpoints(r, dc)
                      THEN "FAILURE" ELSE @]

\* failure() of abstract_write_response_handler.
failure(r, from, count) ==
  IF r.cl = "EACH_QUORUM" THEN DcFailure(r, from, count)
  ELSE IF waited_for(r, from)
  THEN [r EXCEPT !.failed = @ + count,
                 !.error = IF r.total_block_for + r.failed + count > r.total_endpoints
                           THEN "FAILURE" ELSE @]
  ELSE r

\* failure_response(); a write at level ANY may still succeed with hints.
failure_response(r, from, count) ==
  LET s == [r EXCEPT !.all_failures = @ + count] IN
  IF from \notin r.targets THEN r
  ELSE IF r.cl = "ANY" THEN s
  ELSE failure(s, from, count)

got_failure_response(r, from, count, hinted, delayed) ==
  LET s == failure_response(r, from, count) IN
  IF ~r.registered THEN r
  ELSE IF s.error = "FAILURE"
  THEN [s EXCEPT !.registered = FALSE, !.lingering = delayed /\ r.cl # "EACH_QUORUM"]
  ELSE check_for_early_completion(s, hinted, delayed)

-----------------------------------------------------------------------------
(* The proxy.                                                              *)

need_throttle_writes(p) == p.background > Threshold \/ p.queued > QueueLimit

\* abstract_write_response_handler::unthrottle()
Answered(r) == [r EXCEPT !.throttled = FALSE, !.ready = Append(@, "ok")]

\* on_resume of signal(): the client is answered, or made to wait.
Resume(p, w) ==
  IF need_throttle_writes(p)
  THEN [p EXCEPT !.handlers[w].throttled = TRUE, !.handlers[w].resume = "done",
                 !.throttled_writes = Append(@, w)]
  ELSE [p EXCEPT !.handlers[w] = Answered([@ EXCEPT !.resume = "done"]),
                 !.background = @ + 1]

\* storage_proxy::unthrottle(): pops throttled writes, oldest first, until writes
\* must be throttled again; the ids whose handler is gone are skipped.
unthrottle(p) ==
  LET q == p.throttled_writes
      Found(k) == {q[i] : i \in {j \in 1..k : p.handlers[q[j]].registered}}
      After(k) == [p EXCEPT !.background = @ + Cardinality(Found(k))]
      n == CHOOSE k \in 0..Len(q) :
             /\ k < Len(q) => need_throttle_writes(After(k))
             /\ \A j \in 0..k-1 : ~need_throttle_writes(After(j))
  IN  [After(n) EXCEPT
        !.handlers = [w \in Writes |-> IF w \in Found(n) THEN Answered(@[w]) ELSE @[w]],
        !.throttled_writes = SubSeq(q, n + 1, Len(q))]

\* Slips of the destructor: the gauge is lowered for a throttled write too; the
\* throttled writes are not looked at; the client of a throttled write is forgotten.
DestroyedUncounted(p, w) ==
  LET r == p.handlers[w]
      gone(result) == [r EXCEPT !.exists = FALSE, !.ready = Append(@, result)]
  IN  IF r.cl_achieved
      THEN unthrottle([p EXCEPT !.handlers[w] = IF r.throttled THEN gone("ok") ELSE [r EXCEPT !.exists = FALSE],
                                !.background = @ - 1])
      ELSE [p EXCEPT !.handlers[w] = gone("timeout")]

DestroyedSilently(p, w) ==
  LET r == p.handlers[w]
      gone(result) == [r EXCEPT !.exists = FALSE, !.ready = Append(@, result)]
  IN  CASE r.cl_achieved /\ r.throttled -> [p EXCEPT !.handlers[w] = gone("ok")]
        [] r.cl_achieved /\ ~r.throttled ->
             [p EXCEPT !.handlers[w].exists = FALSE, !.background = @ - 1]
        [] OTHER -> [p EXCEPT !.handlers[w] = gone("timeout")]

DestroyedForgotten(p, w) ==
  LET r == p.handlers[w]
      gone(result) == [r EXCEPT !.exists = FALSE, !.ready = Append(@, result)]
  IN  CASE r.cl_achieved /\ r.throttled -> [p EXCEPT !.handlers[w].exists = FALSE]
        [] r.cl_achieved /\ ~r.throttled ->
             unthrottle([p EXCEPT !.handlers[w].exists = FALSE, !.background = @ - 1])
        [] OTHER -> [p EXCEPT !.handlers[w] = gone("timeout")]

\* ~abstract_write_response_handler(); "broken" is a promise destroyed before it
\* was given a value or an exception.
Destroyed(p, w) ==
  LET r == p.handlers[w]
      gone(result) == [r EXCEPT !.exists = FALSE, !.ready = Append(@, result)]
  IN  CASE r.cl_achieved /\ r.throttled -> [p EXCEPT !.handlers[w] = gone("ok")]
        [] r.cl_achieved /\ ~r.throttled ->
             unthrottle([p EXCEPT !.handlers[w].exists = FALSE, !.background = @ - 1])
        [] ~r.cl_achieved /\ r.error = "TIMEOUT" -> [p EXCEPT !.handlers[w] = gone("timeout")]
        [] ~r.cl_achieved /\ r.error = "FAILURE" -> [p EXCEPT !.handlers[w] = gone("failure")]
        [] ~r.cl_achieved /\ r.error = "NONE" -> [p EXCEPT !.handlers[w] = gone("broken")]

\* The handler w is now r: a completion that is not delayed is resumed, and a
\* handler that nothing refers to any more is destroyed.
Updated(p, w, r) ==
  LET p1 == [p EXCEPT !.handlers[w] = r]
      p2 == IF r.resume = "now" THEN Resume(p1, w) ELSE p1
      s == p2.handlers[w]
  IN  IF s.exists /\ ~s.registered /\ s.sends = {} /\ s.resume # "later" /\ ~s.lingering
      THEN Destroyed(p2, w)
      ELSE p2

-----------------------------------------------------------------------------
(* The steps of the coordinator.                                           *)

\* Slip: a write to a pending endpoint needs no more acknowledgements.
TotalWithoutPending(c) == block_for(c.cl)

\* _total_block_for, as the constructors of the kinds of handlers compute it.
TotalBlockFor(c) ==
  block_for(c.cl) + (IF is_datacenter_local(c.cl) THEN Cardinality(Local(c.pending))
                                                  ELSE Cardinality(c.pending))

\* mutate_prepare() for one mutation: create_write_response_handler_helper(), or
\* the lambda of send_to_endpoint() for a view update.  The failure detector picks
\* the live endpoints.
Prepare(w, c, live) ==
  /\ proxy.handlers[w].caller = "idle"
  /\ live \subseteq c.natural \cup c.pending
  /\ assure_sufficient_live_nodes(c, live)
  /\ proxy' = [proxy EXCEPT !.handlers[w] = [@ EXCEPT
       !.cl = c.cl, !.type = c.type, !.natural = c.natural, !.pending = c.pending,
       !.targets = live, !.dead = (c.natural \cup c.pending) \ live,
       !.total_block_for = TotalBlockFor(c),
       !.total_endpoints = IF is_datacenter_local(c.cl) THEN Cardinality(Local(live))
                                                        ELSE Cardinality(live),
       !.registered = TRUE, !.exists = TRUE, !.caller = "preparing"]]
  /\ UNCHANGED <<net, outcome>>

\* The rpcs that cover the targets: one per endpoint of the local datacenter, one
\* per remote datacenter.
Plans(targets) ==
  LET remote == {D \in {In(targets, dc) : dc \in Datacenters \ {Dc[Me]}} : D # {}}
      local  == {[coord |-> e, forward |-> {}] : e \in Local(targets)}
  IN  {local \cup {[coord |-> pick[D], forward |-> D \ {pick[D]}] : D \in remote} :
         pick \in {f \in [remote -> targets] : \A D \in remote : f[D] \in D}}

\* The leader of a counter has applied the mutation before it replicates it.
AppliedAlready(r, s) == r.type = "COUNTER" /\ s.coord = Me

Remote(sends) == {s \in sends : s.coord # Me}

\* mutate_begin() of a handler that is still there: hint_to_dead_endpoints(),
\* response_wait(), send_to_live_endpoints().
Begin(w, hinted, plan, delayed) ==
  LET r == proxy.handlers[w]
      h == [r EXCEPT !.tried = @ \cup r.dead, !.hinted = @ \cup hinted]
      s == IF r.cl = "ANY" THEN signal(h, Cardinality(hinted), FALSE) ELSE h
      p == IF s.resume = "now" THEN Resume([proxy EXCEPT !.handlers[w] = s], w)
                               ELSE [proxy EXCEPT !.handlers[w] = s]
      b == [p.handlers[w] EXCEPT
              !.caller = "waiting",
              !.sends = {x \in plan : ~AppliedAlready(r, x)}]
      leads == \E x \in plan : AppliedAlready(r, x)
  IN  /\ r.caller = "preparing" /\ r.registered
      /\ hinted \subseteq Hintable(r.type, r.dead)
      /\ plan \in Plans(r.targets)
      /\ delayed => leads
      /\ proxy' = Updated([p EXCEPT !.queued = @ + Cardinality(Remote(plan))], w,
                          IF leads THEN got_response(b, Me, {}, delayed) ELSE b)
      /\ outcome' = IF leads THEN [outcome EXCEPT ![w][Me] = "applied"] ELSE outcome
      /\ UNCHANGED net

\* mutate_begin() of a handler that was removed before it was started.
BeginCancelled(w) ==
  /\ proxy.handlers[w].caller = "preparing" /\ ~proxy.handlers[w].registered
  /\ proxy' = [proxy EXCEPT !.handlers[w].caller = "cancelled"]
  /\ UNCHANGED <<net, outcome>>

\* The local apply ends (lmutate).
ApplyLocally(w, s, ok, hinted, delayed) ==
  LET r == [proxy.handlers[w] EXCEPT !.sends = @ \ {s}] IN
  /\ s \in proxy.handlers[w].sends /\ s.coord = Me
  /\ proxy' = Updated(proxy, w, IF ok THEN got_response(r, Me, hinted, delayed)
                                      ELSE got_failure_response(r, Me, 1, hinted, delayed))
  /\ outcome' = [outcome EXCEPT ![w][Me] = IF ok THEN "applied" ELSE "failed"]
  /\ UNCHANGED net

\* An rpc is on its way (rmutate): its bytes leave the queue.
SendDone(w, s) ==
  LET r(p) == [p.handlers[w] EXCEPT !.sends = @ \ {s}]
      p == unthrottle([proxy EXCEPT !.queued = @ - 1])
  IN  /\ s \in Remote(proxy.handlers[w].sends)
      /\ proxy' = Updated(p, w, r(p))
      /\ net' = net \cup {[type |-> "mutation", write |-> w, to |-> s.coord, forward |-> s.forward]}
      /\ UNCHANGED outcome

\* An rpc cannot be sent: nobody behind it gets the mutation.
SendFailed(w, s, hinted, delayed) ==
  LET r(p) == [p.handlers[w] EXCEPT !.sends = @ \ {s}]
      p == unthrottle([proxy EXCEPT !.queued = @ - 1])
      lost == {s.coord} \cup s.forward
  IN  /\ s \in Remote(proxy.handlers[w].sends)
      /\ proxy' = Updated(p, w, got_failure_response(r(p), s.coord, Cardinality(lost), hinted, delayed))
      /\ outcome' = [outcome EXCEPT ![w] = [e \in Endpoints |-> IF e \in lost THEN "failed" ELSE @[e]]]
      /\ UNCHANGED net

MutationDone(m, hinted, delayed) ==
  /\ m \in net /\ m.type = "done"
  /\ proxy' = Updated(proxy, m.write,
                      got_response(proxy.handlers[m.write], m.from, hinted, delayed))
  /\ net' = net \ {m}
  /\ UNCHANGED outcome

\* A replica sends mutation_done before mutation_failed, on one connection: a
\* mutation_done that has not come before its mutation_failed is lost.
MutationFailed(m, hinted, delayed) ==
  /\ m \in net /\ m.type = "failed"
  /\ proxy' = Updated(proxy, m.write,
                      got_failure_response(proxy.handlers[m.write], m.from, m.errors, hinted, delayed))
  /\ net' = net \ {m, [type |-> "done", write |-> m.write, from |-> m.from]}
  /\ UNCHANGED outcome

\* The timer of expire_at(); it has no time left to delay.
Expire(w, hinted) ==
  /\ proxy.handlers[w].registered /\ proxy.handlers[w].caller = "waiting"
  /\ proxy' = Updated(proxy, w, timeout_cb(proxy.handlers[w], hinted, FALSE))
  /\ UNCHANGED <<net, outcome>>

\* on_down() of a target, or drain_on_shutdown(): running view updates are given up.
GiveUpView(w, hinted, delayed) ==
  /\ proxy.handlers[w].registered /\ proxy.handlers[w].type = "VIEW"
  /\ proxy' = Updated(proxy, w, timeout_cb(proxy.handlers[w], hinted, delayed))
  /\ UNCHANGED <<net, outcome>>

\* The sleep of delay() ends, in signal() or in failure().
WakeUp(w) ==
  LET r == proxy.handlers[w] IN
  /\ r.resume = "later" \/ r.lingering
  /\ proxy' = Updated(proxy, w, IF r.lingering THEN [r EXCEPT !.lingering = FALSE]
                                               ELSE [r EXCEPT !.resume = "now"])
  /\ UNCHANGED <<net, outcome>>

-----------------------------------------------------------------------------
(* The replicas and the network.                                           *)

\* handle_write(): apply, forward (the forwarded mutations in lost cannot be
\* sent), answer.
HandleWrite(m, ok, lost) ==
  LET errors == Cardinality(lost) + (IF ok THEN 0 ELSE 1) IN
  /\ m \in net /\ m.type = "mutation"
  /\ lost \subseteq m.forward
  /\ net' = (net \ {m})
       \cup {[type |-> "mutation", write |-> m.write, to |-> e, forward |-> {}] : e \in m.forward \ lost}
       \cup (IF ok THEN {[type |-> "done", write |-> m.write, from |-> m.to]} ELSE {})
       \cup (IF errors > 0
             THEN {[type |-> "failed", write |-> m.write, from |-> m.to, errors |-> errors]} ELSE {})
  /\ outcome' = [outcome EXCEPT ![m.write] = [e \in Endpoints |->
                   IF e = m.to THEN (IF ok THEN "applied" ELSE "failed")
                   ELSE IF e \in lost THEN "failed" ELSE @[e]]]
  /\ UNCHANGED proxy

-----------------------------------------------------------------------------
\* What the hints manager may take of the targets of w that do not answer, and
\* whether the completion of w is delayed.
HintChoices(w)  == SUBSET Hintable(proxy.handlers[w].type, proxy.handlers[w].targets)
DelayChoices(w) == MayDelay(proxy.handlers[w])

Start(w) ==
  \/ \E hinted \in SUBSET Hintable(proxy.handlers[w].type, proxy.handlers[w].dead),
        plan \in Plans(proxy.handlers[w].targets), delayed \in BOOLEAN :
       Begin(w, hinted, plan, delayed)
  \/ BeginCancelled(w)

SendEnds(w) ==
  \E s \in proxy.handlers[w].sends, hinted \in HintChoices(w), delayed \in DelayChoices(w) :
    \/ \E ok \in BOOLEAN : ApplyLocally(w, s, ok, hinted, delayed)
    \/ SendDone(w, s)
    \/ SendFailed(w, s, hinted, delayed)

TimerFires(w) == \E hinted \in HintChoices(w) : Expire(w, hinted)

Arrives(m) ==
  \E hinted \in HintChoices(m.write), delayed \in DelayChoices(m.write) :
    MutationDone(m, hinted, delayed) \/ MutationFailed(m, hinted, delayed)

Coordinator(w) ==
  \/ \E c \in Cases, live \in SUBSET Endpoints : Prepare(w, c, live)
  \/ Start(w)
  \/ SendEnds(w)
  \/ TimerFires(w)
  \/ \E hinted \in HintChoices(w), delayed \in DelayChoices(w) : GiveUpView(w, hinted, delayed)
  \/ WakeUp(w)

Next ==
  \/ \E w \in Writes : Coordinator(w)
  \/ \E m \in net :
       \/ Arrives(m)
       \/ \E ok \in BOOLEAN, lost \in SUBSET Endpoints : HandleWrite(m, ok, lost)

Spec == Init /\ [][Next]_vars

\* The coordinator's own continuations, rpcs and timers are always run; nothing
\* is assumed of the network and the replicas.
FairSpec ==
  Spec /\ \A w \in Writes : WF_vars(Start(w)) /\ WF_vars(SendEnds(w))
                            /\ WF_vars(TimerFires(w)) /\ WF_vars(WakeUp(w))

-----------------------------------------------------------------------------
(* Properties.                                                             *)

\* Every variable has its type: the proxy's gauges never go below zero, and no
\* handler is left between two statements of a step.
TypeOK ==
  /\ proxy \in [handlers : [Writes -> Handler], throttled_writes : Seq(Writes),
                background : Nat, queued : Nat]
  /\ net \subseteq Message
  /\ outcome \in [Writes -> [Endpoints -> {"unknown", "applied", "failed"}]]

\* The promise of a handler is set at most once, whatever the order of
\* acknowledgements, hints, delays, throttling and the timer, and exactly once by
\* the time the handler is destroyed.
AnsweredOnce ==
  \A w \in Writes : LET r == proxy.handlers[w] IN
    /\ Len(r.ready) <= 1
    /\ r.caller # "idle" /\ ~r.exists => r.ready # <<>>

\* background_writes counts exactly the handlers that have answered their client
\* and still wait for replicas.
BackgroundExact ==
  proxy.background = Cardinality({w \in Writes : /\ proxy.handlers[w].exists
                                                 /\ proxy.handlers[w].ready # <<>>})

\* No running write is left throttled once the pressure that throttled it is gone:
\* every step that lowers a gauge looks at the throttled writes.
NobodyLeftThrottled ==
  \A w \in Writes :
    proxy.handlers[w].registered /\ proxy.handlers[w].throttled =>
      need_throttle_writes(proxy)

Applied(w) == {e \in Endpoints : outcome[w][e] = "applied"}

\* A write reported successful has been applied by as many natural endpoints as its
\* consistency level asks for, in each datacenter for EACH_QUORUM, pending endpoints
\* never standing in for natural ones; at level ANY a natural endpoint has applied
\* it or has a hint.
SuccessIsConsistent ==
  \A w \in Writes : LET r == proxy.handlers[w] IN
    r.ready = <<"ok">> =>
      CASE r.cl = "ANY" -> r.natural \cap (Applied(w) \cup r.hinted) # {}
        [] is_datacenter_local(r.cl) ->
             Cardinality(Local(Applied(w) \cap r.natural)) >= block_for(r.cl)
        [] r.cl = "EACH_QUORUM" ->
             \A dc \in Datacenters :
               Cardinality(In(Applied(w) \cap r.natural, dc)) >= local_quorum_for(dc)
        [] OTHER -> Cardinality(Applied(w) \cap r.natural) >= block_for(r.cl)

\* When a successful write is over, each of its replicas has acknowledged it or was
\* offered to the hints manager: a handler that has reached its level is never
\* removed by failure().
StragglersHinted ==
  \A w \in Writes : LET r == proxy.handlers[w] IN
    r.caller = "waiting" /\ ~r.exists /\ r.ready = <<"ok">> => r.targets \cup r.dead \subseteq r.tried

\* The targets of w whose acknowledgement its consistency level counts.
Counted(r) == IF is_datacenter_local(r.cl) THEN Local(Replicas(r) \ r.dead)
                                           ELSE Replicas(r) \ r.dead

\* A write is reported failed only when so many replicas have failed that its
\* consistency level could not be reached any more (in some datacenter, for
\* EACH_QUORUM).
FailureIsHopeless ==
  \A w \in Writes : LET r == proxy.handlers[w]
                        able == {e \in Counted(r) : outcome[w][e] # "failed"} IN
    r.ready = <<"failure">> =>
      IF r.cl = "EACH_QUORUM"
      THEN \E dc \in Datacenters : Cardinality(In(able, dc)) < DcBlockFor(r, dc)
      ELSE Cardinality(able) < r.total_block_for

\* A write that was started "will either complete or timeout" (mutate_begin()), or
\* fail: its promise is dropped in one case only.  At level ANY a write is tried however
\* many endpoints are dead, and needs one acknowledgement or hint more than it has pending
\* endpoints.  If no more of the natural and pending endpoints are live or hinted than
\* there are pending ones, the last live one to acknowledge it removes its handler short
\* of that.
CompletesOrTimesOut ==
  \A w \in Writes : LET r == proxy.handlers[w] IN
    r.ready = <<"broken">> =>
      /\ r.cl = "ANY"
      /\ Cardinality((Replicas(r) \ r.dead) \cup r.hinted) <= Cardinality(r.pending)
      /\ Replicas(r) \ r.dead \subseteq Applied(w)

\* Every write that was started is answered: the timer, the sends and the sleeps
\* end, and whoever is throttled is released or times out.
EveryWriteAnswered ==
  \A w \in Writes :
    proxy.handlers[w].caller = "waiting" ~> proxy.handlers[w].ready # <<>>
=============================================================================
