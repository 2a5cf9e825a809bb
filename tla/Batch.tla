-------------------------------- MODULE Batch --------------------------------
(***************************************************************************)
(* Logged batches: storage_proxy::mutate_atomically() on a coordinator, the *)
(* rows of system.batchlog on the endpoints it chooses, and the replay of   *)
(* left-over batches by the batchlog_manager of each node.                  *)
(*                                                                         *)
(* What a write handler does is reduced to what mutate_atomically() and    *)
(* the replay see of it: acknowledgements, failures and, for a client's    *)
(* write, a timeout.  A row may be old enough for replay at any time, as   *)
(* the clocks of its writer and its reader differ.  Tables outlive a crash *)
(* (commitlog_sync is batch).  Hints, consistency level ANY and truncation *)
(* of the tables of a batch are left out.                                  *)
(***************************************************************************)
EXTENDS Integers, FiniteSets

CONSTANTS
  Nodes,        \* of the local datacenter
  Me,           \* the coordinator
  Rack,         \* the rack of each node
  Batches,
  Mutations,
  BatchOf,      \* the batch of a mutation
  Owners,       \* the replicas of a mutation
  BlockFor,     \* acknowledgements a client's level waits for, for each mutation
  MaxFaults     \* bound: crashes, obstacles, and messages of replays that are lost or refused

Client == "client"      \* who sent a mutation, if no replay did

ASSUME BatchAssumption ==
  /\ IsFiniteSet(Nodes) /\ Me \in Nodes /\ DOMAIN Rack = Nodes /\ Client \notin Nodes
  /\ BatchOf \in [Mutations -> Batches]
  /\ Owners \in [Mutations -> SUBSET Nodes]
  /\ BlockFor \in Nat \ {0} /\ \A m \in Mutations : BlockFor <= Cardinality(Owners[m])
  /\ MaxFaults \in Nat

VARIABLES
  pc,         \* of each batch, where mutate_atomically() is
  endpoints,  \*   _batchlog_endpoints
  targets,    \* of each mutation, the replicas its write handler was created for
  acked,      \*   and those that acknowledged it to the coordinator
  row,        \* of each node and batch, the row of system.batchlog
  net,        \* messages on their way
  applied,    \* the replicas that have a mutation
  replay,     \* of each node, the batches that its lap of replay is writing
  confirmed,  \*   who acknowledged a mutation to that lap
  refused,    \*   and the mutations that some replica failed
  up,         \* the nodes that run, as the gossiper sees them
  obstacle,   \* of each batch, what keeps laps from writing it: none, or its row has another
              \*   version or a table was dropped (skip), or a keyspace was while a lap ran
  faults

clientVars == <<pc, endpoints, targets, acked>>
replayVars == <<replay, confirmed, refused>>
faultVars  == <<up, obstacle, faults>>
vars == <<clientVars, row, net, applied, replayVars, faultVars>>

Of(b) == {m \in Mutations : BatchOf[m] = b}

Stores(b, ns)  == [type : {"store"}, batch : {b}, to : ns]
Deletes(b, ns) == [type : {"delete"}, batch : {b}, to : ns]
Sends(m, from, ns) == [type : {"mutation"}, mutation : {m}, from : {from}, to : ns]

Replays(msgs) == {msg \in msgs : msg.type = "mutation" /\ msg.from # Client}

Init ==
  /\ pc = [b \in Batches |-> "idle"]
  /\ endpoints = [b \in Batches |-> {}]
  /\ targets = [m \in Mutations |-> {}]
  /\ acked = [m \in Mutations |-> {}]
  /\ row = [n \in Nodes |-> [b \in Batches |-> "none"]]
  /\ net = {}
  /\ applied = [m \in Mutations |-> {}]
  /\ replay = [n \in Nodes |-> {}]
  /\ confirmed = [n \in Nodes |-> [m \in Mutations |-> {}]]
  /\ refused = [n \in Nodes |-> {}]
  /\ up = Nodes
  /\ obstacle = [b \in Batches |-> "none"]
  /\ faults = 0

----------------------------------------------------------------------------
(* The coordinator.                                                        *)

(* endpoint_filter(), all its outcomes.  The racks are drawn from a list that names each *)
(* of them once for each of its nodes, then a node is drawn from each: a rack with       *)
(* several nodes may be drawn twice, and so may its node.                                *)
EndpointFilter ==
  LET validated == up \ {Me}
      others == {n \in validated : Rack[n] # Rack[Me]}
      pool == IF Cardinality(others) >= 2 THEN others ELSE validated
      Alone(x) == \A y \in pool : Rack[y] = Rack[x] => y = x
  IN  IF Nodes = {Me} THEN {Nodes}
      ELSE IF Cardinality(validated) <= 2 THEN {validated}
      ELSE {{x, y} : x \in pool, y \in pool} \ {{x} : x \in {y \in pool : Alone(y)}}

(* What the client's handlers send for the mutations of b. *)
SendWrites(b, live) == UNION {Sends(m, Client, live[m]) : m \in Of(b)}

(* Mutant: the mutations do not wait for the batch log. *)
AsyncWriteToBatchlog(b, chosen, live) == Stores(b, chosen) \cup SendWrites(b, live)

(* sync_write_to_batchlog(): the mutations wait for it. *)
SyncWriteToBatchlog(b, chosen, live) == Stores(b, chosen)

(* The context is made, write handlers are created for the mutations and the batch *)
(* is sent to the batch log.                                                       *)
Begin(b) ==
  /\ pc[b] = "idle" /\ Me \in up
  /\ \A m \in Of(b) : Cardinality(Owners[m] \cap up) >= BlockFor
  /\ targets' = [m \in Mutations |-> IF m \in Of(b) THEN Owners[m] \cap up ELSE targets[m]]
  /\ \E chosen \in EndpointFilter :
       /\ chosen # {}
       /\ endpoints' = [endpoints EXCEPT ![b] = chosen]
       /\ net' = net \cup SyncWriteToBatchlog(b, chosen, targets')
  /\ pc' = [pc EXCEPT ![b] = "logging"]
  /\ UNCHANGED <<acked, row, applied, replayVars, faultVars>>

(* Too few replicas, or no endpoint, are alive. *)
Unavailable(b) ==
  /\ pc[b] = "idle" /\ Me \in up
  /\ {} \in EndpointFilter \/ \E m \in Of(b) : Cardinality(Owners[m] \cap up) < BlockFor
  /\ pc' = [pc EXCEPT ![b] = "failed"]
  /\ UNCHANGED <<endpoints, targets, acked, row, net, applied, replayVars, faultVars>>

(* Mutant: the write handlers outlive the context. *)
EndLeaksHandlers(batches, outcome) ==
  /\ pc' = [b \in Batches |-> IF b \in batches THEN outcome ELSE pc[b]]
  /\ endpoints' = [b \in Batches |-> IF b \in batches THEN {} ELSE endpoints[b]]
  /\ UNCHANGED <<targets, acked>>

(* The context of the given batches is destroyed, and with it their write handlers. *)
End(batches, outcome) ==
  /\ pc' = [b \in Batches |-> IF b \in batches THEN outcome ELSE pc[b]]
  /\ endpoints' = [b \in Batches |-> IF b \in batches THEN {} ELSE endpoints[b]]
  /\ targets' = [m \in Mutations |-> IF BatchOf[m] \in batches THEN {} ELSE targets[m]]
  /\ acked' = [m \in Mutations |-> IF BatchOf[m] \in batches THEN {} ELSE acked[m]]

(* The batch log, or the mutations, did not reach their level in time. *)
Timeout(b) ==
  /\ pc[b] \in {"logging", "writing"} /\ Me \in up
  /\ End({b}, "failed")
  /\ UNCHANGED <<row, net, applied, replayVars, faultVars>>

(* Mutant: the futures of the mutations are not all waited for. *)
ReachedByOne(b, acks) == \E m \in Of(b) : Cardinality(acks[m]) >= BlockFor

(* The level of every mutation of b is reached. *)
Reached(b, acks) == \A m \in Of(b) : Cardinality(acks[m]) >= BlockFor

----------------------------------------------------------------------------
(* Replicas and batch log endpoints.                                       *)

(* The first endpoint that stores the row lets the mutations go. *)
Store(msg) ==
  /\ msg \in net /\ msg.type = "store" /\ msg.to \in up
  /\ row' = [row EXCEPT ![msg.to][msg.batch] = IF @ = "none" THEN "stored" ELSE @]
  /\ IF pc[msg.batch] = "logging"
     THEN /\ pc' = [pc EXCEPT ![msg.batch] = "writing"]
          /\ net' = (net \ {msg}) \cup SendWrites(msg.batch, targets)
     ELSE /\ net' = net \ {msg}
          /\ UNCHANGED pc
  /\ UNCHANGED <<endpoints, targets, acked, applied, replayVars, faultVars>>

(* The tombstone is younger than the row, whichever comes first. *)
Delete(msg) ==
  /\ msg \in net /\ msg.type = "delete" /\ msg.to \in up
  /\ row' = [row EXCEPT ![msg.to][msg.batch] = "deleted"]
  /\ net' = net \ {msg}
  /\ UNCHANGED <<clientVars, applied, replayVars, faultVars>>

(* A mutation is applied and acknowledged.  The acknowledgement that completes a client's *)
(* batch also removes it from the batch log.                                              *)
Apply(msg) ==
  /\ msg \in net /\ msg.type = "mutation" /\ msg.to \in up
  /\ LET m == msg.mutation
         b == BatchOf[m]
         n == msg.from
         acks == [acked EXCEPT ![m] = @ \cup {msg.to}]
         listening == n = Client /\ pc[b] = "writing"
         complete == listening /\ Reached(b, acks)
     IN  /\ applied' = [applied EXCEPT ![m] = @ \cup {msg.to}]
         /\ IF complete
            THEN End({b}, "done")
            ELSE acked' = (IF listening THEN acks ELSE acked) /\ UNCHANGED <<pc, endpoints, targets>>
         /\ net' = (net \ {msg}) \cup (IF complete THEN Deletes(b, endpoints[b]) ELSE {})
         /\ confirmed' = IF n # Client /\ b \in replay[n]
                         THEN [confirmed EXCEPT ![n][m] = @ \cup {msg.to}] ELSE confirmed
  /\ UNCHANGED <<row, replay, refused, faultVars>>

(* A message of a replay, or its acknowledgement, is lost.  Those of the coordinator need *)
(* no such step: no fairness makes them arrive.                                            *)
Lose(msg) ==
  /\ msg \in Replays(net) /\ faults < MaxFaults
  /\ net' = net \ {msg}
  /\ applied' \in {applied} \cup
       IF msg.to \in up THEN {[applied EXCEPT ![msg.mutation] = @ \cup {msg.to}]} ELSE {}
  /\ faults' = faults + 1
  /\ UNCHANGED <<clientVars, row, replayVars, up, obstacle>>

(* What the replayers learn when the given messages fail. *)
Failed(msgs) ==
  [n \in Nodes |-> refused[n] \cup {m \in Mutations : BatchOf[m] \in replay[n] /\
                                       \E msg \in msgs : msg.mutation = m /\ msg.from = n}]

(* A replica refuses a mutation, perhaps as it has no such table any more.  A client's *)
(* write then ends as one that times out.                                              *)
Refuse(msg) ==
  /\ msg \in Replays(net) /\ msg.to \in up
  /\ \/ obstacle[BatchOf[msg.mutation]] # "none" /\ UNCHANGED faults
     \/ faults < MaxFaults /\ faults' = faults + 1
  /\ net' = net \ {msg}
  /\ refused' = Failed({msg})
  /\ UNCHANGED <<clientVars, row, applied, replay, confirmed, up, obstacle>>

----------------------------------------------------------------------------
(* Replay.                                                                 *)

Stored(n) == {b \in Batches : row[n][b] = "stored"}

(* Mutant: the semaphore is signalled only after a success (then() for finally()). *)
AnsweredWell(n, b) == \A m \in Of(b) : confirmed[n][m] = Owners[m]

(* The writes of a batch are over: all replicas of a mutation acknowledged it or one failed. *)
Answered(n, b) == \A m \in Of(b) : confirmed[n][m] = Owners[m] \/ m \in refused[n]

(* A batch whose write failed is kept for the next lap. *)
KeepRow(n, b) == Of(b) \cap refused[n] # {}

(* The rows that a lap writes: the ones that are old enough.  It skips one of another     *)
(* version, and keeps one for which find_schema() throws.  One with a replica that is     *)
(* down fails at once.                                                                    *)
Old(n, fresh) ==
  {b \in Stored(n) \ fresh : obstacle[b] = "none" /\ \A m \in Of(b) : Owners[m] \subseteq up}

(* replay_all_failed_batches() reads the batch log and writes the batches that are old *)
(* enough at level ALL.                                                                *)
Lap(n, fresh) ==
  /\ n \in up /\ replay[n] = {}
  /\ LET batches == Old(n, fresh)
     IN  /\ batches # {}
         /\ replay' = [replay EXCEPT ![n] = batches]
         /\ net' = net \cup UNION {Sends(m, n, Owners[m]) :
                                     m \in {k \in Mutations : BatchOf[k] \in batches}}
  /\ UNCHANGED <<clientVars, row, applied, confirmed, refused, faultVars>>

(* The lap is over when parallel_for_each() has the results of all its batches.  The   *)
(* rows are deleted one by one on the way.                                             *)
Replayed(n, b) ==
  /\ n \in up /\ b \in replay[n]
  /\ Answered(n, b)
  /\ replay' = [replay EXCEPT ![n] = @ \ {b}]
  /\ row' = [row EXCEPT ![n][b] = IF KeepRow(n, b) THEN @ ELSE "deleted"]
  /\ confirmed' = [confirmed EXCEPT ![n] =
                    [m \in Mutations |-> IF BatchOf[m] = b THEN {} ELSE @[m]]]
  /\ refused' = [refused EXCEPT ![n] = @ \ Of(b)]
  /\ UNCHANGED <<clientVars, net, applied, faultVars>>

----------------------------------------------------------------------------
(* Upgrades, changes of the schema and crashes.                            *)

Obstacle(b, why) ==
  /\ pc[b] # "idle" /\ obstacle[b] = "none"
  /\ obstacle' = [obstacle EXCEPT ![b] = why]
  /\ faults < MaxFaults /\ faults' = faults + 1
  /\ UNCHANGED <<clientVars, net, applied, replayVars, up>>

(* The version of the nodes is no longer the row's, or a table of the batch is dropped. *)
Skip(b) == Obstacle(b, "skip") /\ UNCHANGED row

(* A keyspace is dropped while laps are between find_schema() and mutate(), where the *)
(* rate limiter may hold them: they remove the row (no_such_keyspace).                *)
DropKeyspace(b, between) ==
  /\ Obstacle(b, "keyspace")
  /\ between # {} /\ \A n \in between : n \in up /\ b \in Stored(n) \ replay[n]
  /\ row' = [n \in Nodes |-> IF n \in between THEN [row[n] EXCEPT ![b] = "deleted"] ELSE row[n]]

(* What was sent to the node is gone.  The sender notices it for some of the messages. *)
Crash(n) ==
  /\ n \in up /\ faults < MaxFaults
  /\ \E noticed \in SUBSET {msg \in Replays(net) : msg.to = n} :
       refused' = [Failed(noticed) EXCEPT ![n] = {}]
  /\ net' = {msg \in net : msg.to # n}
  /\ up' = up \ {n}
  /\ replay' = [replay EXCEPT ![n] = {}]
  /\ confirmed' = [confirmed EXCEPT ![n] = [m \in Mutations |-> {}]]
  /\ End({b \in Batches : n = Me /\ pc[b] \in {"logging", "writing"}}, "failed")
  /\ faults' = faults + 1
  /\ UNCHANGED <<row, applied, obstacle>>

Restart(n) ==
  /\ n \notin up
  /\ up' = up \cup {n}
  /\ UNCHANGED <<clientVars, row, net, applied, replayVars, obstacle, faults>>

Next ==
  \/ \E b \in Batches : Begin(b) \/ Unavailable(b) \/ Timeout(b) \/ Skip(b)
  \/ \E b \in Batches, between \in SUBSET Nodes : DropKeyspace(b, between)
  \/ \E msg \in net : Store(msg) \/ Delete(msg) \/ Apply(msg) \/ Lose(msg) \/ Refuse(msg)
  \/ \E n \in Nodes, fresh \in SUBSET Batches : Lap(n, fresh)
  \/ \E n \in Nodes, b \in Batches : Replayed(n, b)
  \/ \E n \in Nodes : Crash(n) \/ Restart(n)

Spec == Init /\ [][Next]_vars

(* The messages of a replay arrive if they are not lost, the replay timer fires when the *)
(* lap before is over, rows grow old, and nodes that crash come back.                    *)
Fairness ==
  /\ WF_vars(\E msg \in Replays(net) : Apply(msg))
  /\ \A n \in Nodes : WF_vars(Lap(n, {}))
  /\ WF_vars(\E n \in Nodes : Restart(n))
  /\ \A n \in Nodes, b \in Batches : WF_vars(Replayed(n, b))
FairSpec == Spec /\ Fairness

----------------------------------------------------------------------------
Message ==
  [type : {"store", "delete"}, batch : Batches, to : Nodes]
    \cup [type : {"mutation"}, mutation : Mutations, from : Nodes \cup {Client}, to : Nodes]

(* The types of the variables. *)
TypeOK ==
  /\ pc \in [Batches -> {"idle", "logging", "writing", "done", "failed"}]
  /\ endpoints \in [Batches -> SUBSET Nodes]
  /\ targets \in [Mutations -> SUBSET Nodes] /\ acked \in [Mutations -> SUBSET Nodes]
  /\ applied \in [Mutations -> SUBSET Nodes]
  /\ row \in [Nodes -> [Batches -> {"none", "stored", "deleted"}]]
  /\ net \subseteq Message
  /\ replay \in [Nodes -> SUBSET Batches] /\ refused \in [Nodes -> SUBSET Mutations]
  /\ confirmed \in [Nodes -> [Mutations -> SUBSET Nodes]]
  /\ up \subseteq Nodes
  /\ obstacle \in [Batches -> {"none", "skip", "keyspace"}]
  /\ faults \in Nat

Whole(b) == \A m \in Of(b) : Cardinality(applied[m]) >= BlockFor

(* Neither the coordinator nor a replay removes a row of the batch log before every      *)
(* mutation of the batch is on as many replicas as the client's level asks for, whatever *)
(* was lost, refused or interrupted by a crash, and however laps of several nodes and    *)
(* the coordinator overlap (async_remove_from_batchlog(), the end of the replay), unless *)
(* a keyspace of the batch was dropped under a lap (the handler of no_such_keyspace).    *)
RemovedWhenWhole ==
  \A n \in Nodes, b \in Batches :
    row[n][b] = "deleted" \/ Deletes(b, {n}) \subseteq net => Whole(b) \/ obstacle[b] = "keyspace"

(* A batch is all or nothing: while some replica has one of its mutations and the batch *)
(* is not whole, some node has the batch in its log, so that a replay can finish it     *)
(* (mutate_atomically() writes the batch log first), with the same exception.           *)
PartialIsRecoverable ==
  \A b \in Batches :
    (\E m \in Of(b) : applied[m] # {}) =>
      Whole(b) \/ obstacle[b] = "keyspace" \/ \E n \in Nodes : row[n][b] = "stored"

(* A lap that waits for an acknowledgement which nobody will send: the replay writes with *)
(* db::no_timeout, so a lost message leaves its handler, and with it the lap, waiting.    *)
Hung(n) ==
  \E m \in Mutations : \E o \in Owners[m] :
    /\ BatchOf[m] \in replay[n]
    /\ m \notin refused[n] /\ o \notin confirmed[n][m]
    /\ Sends(m, n, {o}) \cap net = {}

(* A row of the batch log is removed in the end, so with RemovedWhenWhole its batch gets *)
(* whole: the replay of its node goes through it unless it hangs (do_batch_log_replay()  *)
(* is run again by the timer when the lap before is over), or has to skip the row: rows  *)
(* of another version and batches of a dropped table stay in the log for ever.           *)
LogIsEmptied ==
  \A n \in Nodes, b \in Batches :
    row[n][b] = "stored" ~> row[n][b] = "deleted" \/ Hung(n) \/ obstacle[b] # "none"

----------------------------------------------------------------------------
(* The inductive invariant behind RemovedWhenWhole and                     *)
(* PartialIsRecoverable.                                                   *)

Mutated(msg) == msg.type = "mutation"

(* A write handler lives as long as the context of its batch.  A mutation of the client is *)
(* on its way only after the batch log was written, and while the handler lives only to a  *)
(* replica it was made for.                                                                *)
HandlerInv ==
  /\ \A m \in Mutations :
       /\ acked[m] \subseteq targets[m] /\ targets[m] \subseteq Owners[m]
       /\ targets[m] # {} => pc[BatchOf[m]] \in {"logging", "writing"}
  /\ \A msg \in net : Mutated(msg) =>
       /\ msg.to \in Owners[msg.mutation]
       /\ msg.from = Client =>
            /\ pc[BatchOf[msg.mutation]] \in {"writing", "done", "failed"}
            /\ pc[BatchOf[msg.mutation]] = "writing" => msg.to \in targets[msg.mutation]

(* Nobody counts an acknowledgement of a replica that does not have the mutation. *)
AckInv ==
  \A m \in Mutations :
    /\ acked[m] \subseteq applied[m] /\ applied[m] \subseteq Owners[m]
    /\ \A n \in Nodes : confirmed[n][m] \subseteq applied[m]

(* A mutation that was sent or applied has been in the batch log of some node. *)
Logged(b) == \E n \in Nodes : row[n][b] # "none"
LoggedInv ==
  /\ \A m \in Mutations : applied[m] # {} => Logged(BatchOf[m])
  /\ \A msg \in net : Mutated(msg) => Logged(BatchOf[msg.mutation])

BatchInv == TypeOK /\ HandlerInv /\ AckInv /\ LoggedInv /\ RemovedWhenWhole
=============================================================================
