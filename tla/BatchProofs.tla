---------------------------- MODULE BatchProofs ----------------------------
(* Theorems about logged batches, for any nodes, batches and mutations.    *)
EXTENDS Batch, FiniteSetTheorems, TLAPS

----------------------------------------------------------------------------
(* Types, messages, and what only ever grows.                              *)

(* What the messages are. *)
LEMMA MessageFields ==
  ASSUME TypeOK, NEW msg \in net
  PROVE  /\ msg.to \in Nodes
         /\ msg.type \in {"store", "delete", "mutation"}
         /\ ~Mutated(msg) => msg.batch \in Batches
         /\ Mutated(msg) => /\ msg.mutation \in Mutations /\ msg.from \in Nodes \cup {Client}
                            /\ BatchOf[msg.mutation] \in Batches
<1>1. msg \in Message
  BY Zenon DEF TypeOK
<1>2. CASE msg \in [type : {"store", "delete"}, batch : Batches, to : Nodes]
  BY Zenon, <1>2 DEF Mutated
<1>3. CASE msg \in [type : {"mutation"}, mutation : Mutations, from : Nodes \cup {Client}, to : Nodes]
  BY Zenon, <1>3, BatchAssumption DEF Mutated
<1> QED
  BY Zenon, <1>1, <1>2, <1>3 DEF Message

LEMMA LogMessages ==
  ASSUME NEW b \in Batches, NEW ns \in SUBSET Nodes
  PROVE  /\ Stores(b, ns) \subseteq Message
         /\ \A msg \in Stores(b, ns) : msg.type = "store" /\ msg.batch = b
         /\ Deletes(b, ns) \subseteq Message
         /\ \A msg \in Deletes(b, ns) : msg.type = "delete" /\ msg.batch = b
BY Zenon DEF Stores, Deletes, Message

LEMMA SendMessages ==
  ASSUME NEW m \in Mutations, NEW n \in Nodes \cup {Client}, NEW ns \in SUBSET Nodes
  PROVE  /\ Sends(m, n, ns) \subseteq Message
         /\ \A msg \in Sends(m, n, ns) :
              msg.type = "mutation" /\ msg.mutation = m /\ msg.from = n /\ msg.to \in ns
BY Zenon DEF Sends, Message

(* The mutations the client's handlers send. *)
LEMMA ClientMessages ==
  ASSUME NEW b \in Batches, NEW live \in [Mutations -> SUBSET Nodes]
  PROVE  /\ SendWrites(b, live) \subseteq Message
         /\ \A msg \in SendWrites(b, live) :
              /\ msg.type = "mutation" /\ msg.mutation \in Mutations /\ BatchOf[msg.mutation] = b
              /\ msg.from = Client /\ msg.to \in live[msg.mutation]
<1> SUFFICES ASSUME NEW msg \in SendWrites(b, live)
             PROVE  /\ msg \in Message
                    /\ msg.type = "mutation" /\ msg.mutation \in Mutations
                    /\ BatchOf[msg.mutation] = b
                    /\ msg.from = Client /\ msg.to \in live[msg.mutation]
  OBVIOUS
<1>1. PICK m \in Of(b) : msg \in Sends(m, Client, live[m])
  BY Zenon DEF SendWrites
<1>2. m \in Mutations /\ BatchOf[m] = b /\ live[m] \in SUBSET Nodes
  BY Zenon, <1>1 DEF Of
<1> QED
  BY <1>1, <1>2, SendMessages

(* The mutations a lap of replay sends. *)
LapMessages(n, batches) ==
  UNION {Sends(m, n, Owners[m]) : m \in {k \in Mutations : BatchOf[k] \in batches}}

LEMMA ReplayMessages ==
  ASSUME NEW n \in Nodes, NEW batches
  PROVE  /\ LapMessages(n, batches) \subseteq Message
         /\ \A msg \in LapMessages(n, batches) :
              /\ msg.type = "mutation" /\ msg.mutation \in Mutations
              /\ BatchOf[msg.mutation] \in batches
              /\ msg.from = n /\ msg.to \in Owners[msg.mutation]
<1> SUFFICES ASSUME NEW msg \in LapMessages(n, batches)
             PROVE  /\ msg \in Message
                    /\ msg.type = "mutation" /\ msg.mutation \in Mutations
                    /\ BatchOf[msg.mutation] \in batches
                    /\ msg.from = n /\ msg.to \in Owners[msg.mutation]
  OBVIOUS
<1>1. PICK m \in {k \in Mutations : BatchOf[k] \in batches} : msg \in Sends(m, n, Owners[m])
  BY Zenon DEF LapMessages
<1>2. m \in Mutations /\ BatchOf[m] \in batches /\ Owners[m] \in SUBSET Nodes
  BY Zenon, <1>1, BatchAssumption
<1> QED
  BY <1>1, <1>2, SendMessages

LEMMA FilterType ==
  ASSUME TypeOK, NEW chosen \in EndpointFilter
  PROVE  chosen \in SUBSET Nodes
<1>1. up \subseteq Nodes
  BY Zenon DEF TypeOK
<1> QED
  BY <1>1 DEF EndpointFilter

(* A batch that is whole stays so. *)
LEMMA WholeStays ==
  ASSUME TypeOK, TypeOK', \A m \in Mutations : applied[m] \subseteq applied'[m]
  PROVE  \A b : Whole(b) => Whole(b)'
<1> SUFFICES ASSUME NEW b, Whole(b), NEW m \in Of(b)
             PROVE  Cardinality(applied'[m]) >= BlockFor
  BY Zenon DEF Whole
<1>1. m \in Mutations /\ Cardinality(applied[m]) >= BlockFor /\ BlockFor \in Nat
  BY Zenon, BatchAssumption DEF Of, Whole
<1>2. IsFiniteSet(applied'[m])
  BY ZenonT(60), <1>1, BatchAssumption, FS_Subset DEF TypeOK
<1>3. /\ Cardinality(applied[m]) \in Nat /\ Cardinality(applied'[m]) \in Nat
      /\ Cardinality(applied[m]) <= Cardinality(applied'[m])
  BY Zenon, <1>1, <1>2, FS_Subset, FS_CardinalityType
<1> QED
  BY <1>1, <1>3

----------------------------------------------------------------------------
(* Types.                                                                  *)

LEMMA EndType ==
  ASSUME TypeOK, NEW batches, NEW outcome \in {"done", "failed"}, End(batches, outcome)
  PROVE  /\ pc' \in [Batches -> {"idle", "logging", "writing", "done", "failed"}]
         /\ endpoints' \in [Batches -> SUBSET Nodes]
         /\ targets' \in [Mutations -> SUBSET Nodes] /\ acked' \in [Mutations -> SUBSET Nodes]
BY Zenon DEF End, TypeOK

LEMMA ClientType ==
  ASSUME TypeOK, NEW b \in Batches, Begin(b) \/ Unavailable(b) \/ Timeout(b)
  PROVE  TypeOK'
<1> USE DEF clientVars, replayVars, faultVars
<1>1. CASE Begin(b)
  <2>1. PICK chosen \in EndpointFilter :
          /\ endpoints' = [endpoints EXCEPT ![b] = chosen]
          /\ net' = net \cup Stores(b, chosen)
    BY Zenon, <1>1 DEF Begin, SyncWriteToBatchlog
  <2>2. chosen \in SUBSET Nodes
    BY Zenon, FilterType
  <2>3. net' \subseteq Message
    BY Zenon, <2>1, <2>2, LogMessages DEF TypeOK
  <2>4. targets' \in [Mutations -> SUBSET Nodes]
    BY Zenon, <1>1 DEF Begin, TypeOK
  <2>5. endpoints' \in [Batches -> SUBSET Nodes]
    BY Zenon, <2>1, <2>2 DEF TypeOK
  <2>6. pc' \in [Batches -> {"idle", "logging", "writing", "done", "failed"}]
    BY Zenon, <1>1 DEF Begin, TypeOK
  <2> QED
    BY Zenon, <1>1, <2>3, <2>4, <2>5, <2>6 DEF Begin, TypeOK
<1>2. CASE Unavailable(b)
  <2>1. pc' \in [Batches -> {"idle", "logging", "writing", "done", "failed"}]
    BY Zenon, <1>2 DEF Unavailable, TypeOK
  <2> QED
    BY Zenon, <1>2, <2>1 DEF Unavailable, TypeOK
<1>3. CASE Timeout(b)
  <2>1. End({b}, "failed")
    BY Zenon, <1>3 DEF Timeout
  <2>2. /\ pc' \in [Batches -> {"idle", "logging", "writing", "done", "failed"}]
        /\ endpoints' \in [Batches -> SUBSET Nodes]
        /\ targets' \in [Mutations -> SUBSET Nodes] /\ acked' \in [Mutations -> SUBSET Nodes]
    BY Zenon, <2>1, EndType
  <2> QED
    BY Zenon, <1>3, <2>2 DEF Timeout, TypeOK
<1> QED
  BY Zenon, <1>1, <1>2, <1>3

(* Apply(msg), without its LETs. *)
Listening(msg) == msg.from = Client /\ pc[BatchOf[msg.mutation]] = "writing"
Acks(msg) == [acked EXCEPT ![msg.mutation] = @ \cup {msg.to}]
Complete(msg) == Listening(msg) /\ Reached(BatchOf[msg.mutation], Acks(msg))

LEMMA ApplyFacts ==
  ASSUME TypeOK, NEW msg \in net, Apply(msg)
  PROVE  /\ Mutated(msg)
         /\ applied' = [applied EXCEPT ![msg.mutation] = @ \cup {msg.to}]
         /\ Complete(msg) => /\ End({BatchOf[msg.mutation]}, "done")
                             /\ net' = (net \ {msg}) \cup
                                  Deletes(BatchOf[msg.mutation], endpoints[BatchOf[msg.mutation]])
         /\ ~Complete(msg) => /\ UNCHANGED <<pc, endpoints, targets>> /\ net' = net \ {msg}
                              /\ acked' = IF Listening(msg) THEN Acks(msg) ELSE acked
         /\ confirmed' = IF msg.from # Client /\ BatchOf[msg.mutation] \in replay[msg.from]
                         THEN [confirmed EXCEPT ![msg.from][msg.mutation] = @ \cup {msg.to}]
                         ELSE confirmed
         /\ UNCHANGED <<row, replay, refused, up, obstacle, faults>>
<1>1. Mutated(msg) /\ UNCHANGED <<row, replay, refused, up, obstacle, faults>>
  BY Zenon DEF Apply, Mutated, faultVars
<1>2. /\ applied' = [applied EXCEPT ![msg.mutation] = @ \cup {msg.to}]
      /\ confirmed' = IF msg.from # Client /\ BatchOf[msg.mutation] \in replay[msg.from]
                      THEN [confirmed EXCEPT ![msg.from][msg.mutation] = @ \cup {msg.to}]
                      ELSE confirmed
  BY Zenon DEF Apply
<1>3. /\ IF Complete(msg)
         THEN End({BatchOf[msg.mutation]}, "done")
         ELSE /\ acked' = (IF Listening(msg) THEN Acks(msg) ELSE acked)
              /\ UNCHANGED <<pc, endpoints, targets>>
      /\ net' = (net \ {msg}) \cup
                  (IF Complete(msg)
                   THEN Deletes(BatchOf[msg.mutation], endpoints[BatchOf[msg.mutation]]) ELSE {})
  BY Zenon DEF Apply, Complete, Listening, Acks
<1> QED
  BY Zenon, <1>1, <1>2, <1>3

LEMMA AckType ==
  ASSUME TypeOK, NEW msg \in net, Mutated(msg)
  PROVE  /\ Acks(msg) \in [Mutations -> SUBSET Nodes]
         /\ \A m \in Mutations : Acks(msg)[m] = IF m = msg.mutation THEN acked[m] \cup {msg.to}
                                                ELSE acked[m]
<1>1. msg.to \in Nodes /\ msg.mutation \in Mutations
  BY Zenon, MessageFields
<1> QED
  BY Zenon, <1>1 DEF Acks, TypeOK


LEMMA FailedType ==
  ASSUME TypeOK, NEW msgs
  PROVE  Failed(msgs) \in [Nodes -> SUBSET Mutations]
BY Zenon DEF Failed, TypeOK

LEMMA AppliedType ==
  ASSUME TypeOK, NEW msg \in net, Mutated(msg),
         applied' = [applied EXCEPT ![msg.mutation] = @ \cup {msg.to}]
  PROVE  /\ applied' \in [Mutations -> SUBSET Nodes]
         /\ \A m \in Mutations : applied[m] \subseteq applied'[m]
         /\ \A m \in Mutations : applied'[m] \subseteq applied[m] \cup {msg.to}
         /\ msg.to \in applied'[msg.mutation]
         /\ \A m \in Mutations \ {msg.mutation} : applied'[m] = applied[m]
<1>1. msg.mutation \in Mutations /\ msg.to \in Nodes
  BY Zenon, MessageFields
<1>2. applied \in [Mutations -> SUBSET Nodes]
  BY Zenon DEF TypeOK
<1> QED
  BY Zenon, <1>1, <1>2

LEMMA MessageType ==
  ASSUME TypeOK, NEW msg \in net,
         Store(msg) \/ Delete(msg) \/ Apply(msg) \/ Lose(msg) \/ Refuse(msg)
  PROVE  TypeOK'
<1> USE DEF clientVars, replayVars, faultVars
<1>1. CASE Store(msg)
  <2>1. msg.to \in Nodes /\ msg.batch \in Batches
    BY Zenon, <1>1, MessageFields DEF Store, Mutated
  <2>a. row \in [Nodes -> [Batches -> {"none", "stored", "deleted"}]]
    BY Zenon DEF TypeOK
  <2>b. row' = [row EXCEPT ![msg.to][msg.batch] = IF @ = "none" THEN "stored" ELSE @]
    BY Zenon, <1>1 DEF Store
  <2>2. row' \in [Nodes -> [Batches -> {"none", "stored", "deleted"}]]
    BY ZenonT(60), <2>1, <2>a, <2>b
  <2>3. targets \in [Mutations -> SUBSET Nodes] /\ net \subseteq Message
    BY Zenon DEF TypeOK
  <2>4. net' \subseteq Message
    BY Zenon, <1>1, <2>1, <2>3, ClientMessages DEF Store
  <2>c. pc \in [Batches -> {"idle", "logging", "writing", "done", "failed"}]
    BY Zenon DEF TypeOK
  <2>d. pc' = pc \/ pc' = [pc EXCEPT ![msg.batch] = "writing"]
    BY Zenon, <1>1 DEF Store
  <2>5. pc' \in [Batches -> {"idle", "logging", "writing", "done", "failed"}]
    BY Zenon, <2>1, <2>c, <2>d
  <2>6. UNCHANGED <<endpoints, targets, acked, applied, replay, confirmed, refused, up, obstacle, faults>>
    BY Zenon, <1>1 DEF Store
  <2> QED
    BY Zenon, <2>2, <2>4, <2>5, <2>6 DEF TypeOK
<1>2. CASE Delete(msg)
  <2>1. msg.to \in Nodes /\ msg.batch \in Batches
    BY Zenon, <1>2, MessageFields DEF Delete, Mutated
  <2>2. row' \in [Nodes -> [Batches -> {"none", "stored", "deleted"}]]
    BY Zenon, <1>2, <2>1 DEF Delete, TypeOK
  <2> QED
    BY Zenon, <1>2, <2>2 DEF Delete, TypeOK
<1>3. CASE Apply(msg)
  <2>1. Mutated(msg) /\ UNCHANGED <<row, replay, refused, up, obstacle, faults>>
    BY Zenon, <1>3, ApplyFacts
  <2>2. /\ msg.to \in Nodes /\ msg.mutation \in Mutations
        /\ msg.from \in Nodes \cup {Client} /\ BatchOf[msg.mutation] \in Batches
    BY Zenon, <2>1, MessageFields
  <2>3. applied' \in [Mutations -> SUBSET Nodes]
    BY Zenon, <1>3, <2>1, ApplyFacts, AppliedType
  <2>4. confirmed' \in [Nodes -> [Mutations -> SUBSET Nodes]]
    <3>1. confirmed' = IF msg.from # Client /\ BatchOf[msg.mutation] \in replay[msg.from]
                       THEN [confirmed EXCEPT ![msg.from][msg.mutation] = @ \cup {msg.to}]
                       ELSE confirmed
      BY Zenon, <1>3, ApplyFacts
    <3> QED
      BY <2>2, <3>1 DEF TypeOK
  <2>5. CASE Complete(msg)
    <3>1. /\ End({BatchOf[msg.mutation]}, "done")
          /\ net' = (net \ {msg}) \cup
                      Deletes(BatchOf[msg.mutation], endpoints[BatchOf[msg.mutation]])
      BY Zenon, <1>3, <2>5, ApplyFacts
    <3>2. endpoints[BatchOf[msg.mutation]] \in SUBSET Nodes
      BY Zenon, <2>2 DEF TypeOK
    <3>3. net' \subseteq Message
      <4>1. net \subseteq Message
        BY Zenon DEF TypeOK
      <4>2. Deletes(BatchOf[msg.mutation], endpoints[BatchOf[msg.mutation]]) \subseteq Message
        BY <2>2, <3>2, LogMessages
      <4> QED
        BY Zenon, <3>1, <4>1, <4>2
    <3>4. /\ pc' \in [Batches -> {"idle", "logging", "writing", "done", "failed"}]
          /\ endpoints' \in [Batches -> SUBSET Nodes]
          /\ targets' \in [Mutations -> SUBSET Nodes] /\ acked' \in [Mutations -> SUBSET Nodes]
      BY Zenon, <3>1, EndType
    <3>5. /\ row' \in [Nodes -> [Batches -> {"none", "stored", "deleted"}]]
          /\ replay' \in [Nodes -> SUBSET Batches] /\ refused' \in [Nodes -> SUBSET Mutations]
          /\ up' \subseteq Nodes /\ obstacle' \in [Batches -> {"none", "skip", "keyspace"}]
          /\ faults' \in Nat
      BY Zenon, <2>1 DEF TypeOK
    <3> QED
      BY Zenon, <2>3, <2>4, <3>3, <3>4, <3>5 DEF TypeOK
  <2>6. CASE ~Complete(msg)
    <3>1. /\ UNCHANGED <<pc, endpoints, targets>> /\ net' = net \ {msg}
          /\ acked' = IF Listening(msg) THEN Acks(msg) ELSE acked
      BY Zenon, <1>3, <2>6, ApplyFacts
    <3>2. acked' \in [Mutations -> SUBSET Nodes]
      BY Zenon, <2>1, <3>1, AckType DEF TypeOK
    <3> QED
      BY Zenon, <2>1, <2>3, <2>4, <3>1, <3>2 DEF TypeOK
  <2> QED
    BY Zenon, <2>5, <2>6
<1>4. CASE Lose(msg)
  <2>1. Mutated(msg)
    BY Zenon, <1>4 DEF Lose, Replays, Mutated
  <2>2. msg.mutation \in Mutations /\ msg.to \in Nodes
    BY Zenon, <2>1, MessageFields
  <2>3. applied' = applied \/ applied' = [applied EXCEPT ![msg.mutation] = @ \cup {msg.to}]
    BY Zenon, <1>4 DEF Lose
  <2>4. applied' \in [Mutations -> SUBSET Nodes]
    BY Zenon, <2>1, <2>3, AppliedType DEF TypeOK
  <2>5. net' \subseteq Message /\ faults' \in Nat
    BY <1>4 DEF Lose, TypeOK
  <2> QED
    BY Zenon, <1>4, <2>4, <2>5 DEF Lose, TypeOK
<1>5. CASE Refuse(msg)
  <2>1. refused' \in [Nodes -> SUBSET Mutations]
    BY Zenon, <1>5, FailedType DEF Refuse
  <2>2. net' \subseteq Message /\ faults' \in Nat
    BY <1>5 DEF Refuse, TypeOK
  <2> QED
    BY Zenon, <1>5, <2>1, <2>2 DEF Refuse, TypeOK
<1> QED
  BY Zenon, <1>1, <1>2, <1>3, <1>4, <1>5

LEMMA NodeType ==
  ASSUME TypeOK, NEW n \in Nodes,
         \/ \E fresh \in SUBSET Batches : Lap(n, fresh)
         \/ \E b \in Batches : Replayed(n, b)
         \/ Crash(n) \/ Restart(n)
  PROVE  TypeOK'
<1> USE DEF clientVars, replayVars, faultVars
<1>1. CASE \E fresh \in SUBSET Batches : Lap(n, fresh)
  <2>1. PICK fresh \in SUBSET Batches : Lap(n, fresh)
    BY Zenon, <1>1
  <2>2. net' = net \cup LapMessages(n, Old(n, fresh))
    BY Zenon, <2>1 DEF Lap, LapMessages
  <2>3. net' \subseteq Message
    BY Zenon, <2>2, ReplayMessages DEF TypeOK
  <2>4. replay' \in [Nodes -> SUBSET Batches]
    BY Zenon, <2>1 DEF Lap, Old, Stored, TypeOK
  <2> QED
    BY Zenon, <2>1, <2>3, <2>4 DEF Lap, TypeOK
<1>2. CASE \E b \in Batches : Replayed(n, b)
  <2>1. PICK b \in Batches : Replayed(n, b)
    BY Zenon, <1>2
  <2>2. /\ replay' \in [Nodes -> SUBSET Batches] /\ refused' \in [Nodes -> SUBSET Mutations]
    BY Zenon, <2>1 DEF Replayed, TypeOK
  <2>3. row' \in [Nodes -> [Batches -> {"none", "stored", "deleted"}]]
    BY Zenon, <2>1 DEF Replayed, TypeOK
  <2>4. confirmed' \in [Nodes -> [Mutations -> SUBSET Nodes]]
    BY ZenonT(60), <2>1 DEF Replayed, TypeOK
  <2> QED
    BY Zenon, <2>1, <2>2, <2>3, <2>4 DEF Replayed, TypeOK
<1>3. CASE Crash(n)
  <2>1. PICK noticed : refused' = [Failed(noticed) EXCEPT ![n] = {}]
    BY Zenon, <1>3 DEF Crash
  <2>2. refused' \in [Nodes -> SUBSET Mutations]
    BY Zenon, <2>1, FailedType
  <2>3. /\ replay' \in [Nodes -> SUBSET Batches]
        /\ confirmed' \in [Nodes -> [Mutations -> SUBSET Nodes]]
        /\ net' \subseteq Message /\ up' \subseteq Nodes /\ faults' \in Nat
    BY <1>3 DEF Crash, TypeOK
  <2>4. PICK batches : End(batches, "failed")
    BY Zenon, <1>3 DEF Crash
  <2>5. /\ pc' \in [Batches -> {"idle", "logging", "writing", "done", "failed"}]
        /\ endpoints' \in [Batches -> SUBSET Nodes]
        /\ targets' \in [Mutations -> SUBSET Nodes] /\ acked' \in [Mutations -> SUBSET Nodes]
    BY Zenon, <2>4, EndType
  <2> QED
    BY Zenon, <1>3, <2>2, <2>3, <2>5 DEF Crash, TypeOK
<1>4. CASE Restart(n)
  BY Zenon, <1>4 DEF Restart, TypeOK
<1> QED
  BY Zenon, <1>1, <1>2, <1>3, <1>4

(* An upgrade or a change of the schema: at most it makes laps remove rows of the one batch. *)
Obstructed ==
  \/ \E b \in Batches : Skip(b)
  \/ \E b \in Batches, between \in SUBSET Nodes : DropKeyspace(b, between)

LEMMA DroppedRows ==
  ASSUME TypeOK, NEW b \in Batches, NEW between \in SUBSET Nodes, DropKeyspace(b, between)
  PROVE  /\ row' \in [Nodes -> [Batches -> {"none", "stored", "deleted"}]]
         /\ \A n \in Nodes, c \in Batches :
              row'[n][c] = row[n][c] \/ (c = b /\ row'[n][c] = "deleted")
<1>1. row \in [Nodes -> [Batches -> {"none", "stored", "deleted"}]]
  BY Zenon DEF TypeOK
<1>2. row' = [n \in Nodes |-> IF n \in between THEN [row[n] EXCEPT ![b] = "deleted"] ELSE row[n]]
  BY Zenon DEF DropKeyspace
<1>3. ASSUME NEW n \in Nodes
      PROVE  /\ row'[n] \in [Batches -> {"none", "stored", "deleted"}]
             /\ \A c \in Batches : row'[n][c] = row[n][c] \/ (c = b /\ row'[n][c] = "deleted")
  <2>1. row[n] \in [Batches -> {"none", "stored", "deleted"}]
    BY Zenon, <1>1
  <2>2. row'[n] = row[n] \/ row'[n] = [row[n] EXCEPT ![b] = "deleted"]
    BY Zenon, <1>2
  <2> QED
    BY Zenon, <2>1, <2>2
<1> QED
  BY Zenon, <1>2, <1>3

LEMMA ObstructedFacts ==
  ASSUME TypeOK, Obstructed
  PROVE  /\ TypeOK'
         /\ UNCHANGED <<pc, endpoints, targets, acked, net, applied, confirmed>>
         /\ \A b \in Batches : obstacle[b] = "keyspace" => obstacle'[b] = "keyspace"
         /\ \A n \in Nodes, b \in Batches :
              row'[n][b] = row[n][b] \/ (row'[n][b] = "deleted" /\ obstacle'[b] = "keyspace")
<1>0. obstacle \in [Batches -> {"none", "skip", "keyspace"}]
  BY Zenon DEF TypeOK
<1>1. ASSUME NEW b \in Batches, NEW why \in {"skip", "keyspace"}, Obstacle(b, why),
             row' \in [Nodes -> [Batches -> {"none", "stored", "deleted"}]]
      PROVE  /\ TypeOK'
             /\ UNCHANGED <<pc, endpoints, targets, acked, net, applied, confirmed>>
             /\ \A c \in Batches : obstacle[c] = "keyspace" => obstacle'[c] = "keyspace"
             /\ obstacle'[b] = why
  <2>1. /\ UNCHANGED <<pc, endpoints, targets, acked, net, applied, replay, confirmed, refused, up>>
        /\ obstacle[b] = "none" /\ obstacle' = [obstacle EXCEPT ![b] = why]
    BY Zenon, <1>1 DEF Obstacle, clientVars, replayVars
  <2>2. faults' \in Nat
    BY <1>1 DEF Obstacle, TypeOK
  <2>3. /\ obstacle' \in [Batches -> {"none", "skip", "keyspace"}] /\ obstacle'[b] = why
        /\ \A c \in Batches : c # b => obstacle'[c] = obstacle[c]
    BY Zenon, <1>0, <2>1
  <2>4. TypeOK'
    BY Zenon, <1>1, <2>1, <2>2, <2>3 DEF TypeOK
  <2>5. ASSUME NEW c \in Batches, obstacle[c] = "keyspace" PROVE obstacle'[c] = "keyspace"
    <3>1. c # b
      BY <2>1, <2>5
    <3> QED
      BY Zenon, <2>3, <2>5, <3>1
  <2> QED
    BY Zenon, <2>1, <2>3, <2>4, <2>5
<1>2. CASE \E b \in Batches : Skip(b)
  <2>1. PICK b \in Batches : Obstacle(b, "skip") /\ row' = row
    BY Zenon, <1>2 DEF Skip
  <2>2. row' \in [Nodes -> [Batches -> {"none", "stored", "deleted"}]]
    BY Zenon, <2>1 DEF TypeOK
  <2> QED
    BY Zenon, <1>1, <2>1, <2>2
<1>3. CASE \E b \in Batches, between \in SUBSET Nodes : DropKeyspace(b, between)
  <2>1. PICK b \in Batches, between \in SUBSET Nodes : DropKeyspace(b, between)
    BY Zenon, <1>3
  <2>2. Obstacle(b, "keyspace")
    BY Zenon, <2>1 DEF DropKeyspace
  <2>3. /\ row' \in [Nodes -> [Batches -> {"none", "stored", "deleted"}]]
        /\ \A n \in Nodes, c \in Batches :
             row'[n][c] = row[n][c] \/ (c = b /\ row'[n][c] = "deleted")
    BY Zenon, <2>1, DroppedRows
  <2>4. /\ TypeOK'
        /\ UNCHANGED <<pc, endpoints, targets, acked, net, applied, confirmed>>
        /\ \A c \in Batches : obstacle[c] = "keyspace" => obstacle'[c] = "keyspace"
        /\ obstacle'[b] = "keyspace"
    BY Zenon, <1>1, <2>2, <2>3
  <2> QED
    BY Zenon, <2>3, <2>4
<1> QED
  BY Zenon, <1>2, <1>3 DEF Obstructed

(* A keyspace that was dropped does not come back. *)
LEMMA DroppedStays ==
  ASSUME TypeOK, [Next]_vars
  PROVE  \A b \in Batches : obstacle[b] = "keyspace" => obstacle'[b] = "keyspace"
<1>1. CASE Obstructed
  BY Zenon, <1>1, ObstructedFacts
<1>2. CASE ~Obstructed
  <2>1. obstacle' = obstacle
    <3>1. CASE \E b \in Batches : Begin(b) \/ Unavailable(b) \/ Timeout(b)
      BY Zenon, <3>1 DEF faultVars, Begin, Unavailable, Timeout
    <3>2. CASE \E msg \in net : Store(msg) \/ Delete(msg) \/ Apply(msg) \/ Lose(msg) \/ Refuse(msg)
      BY Zenon, <3>2, ApplyFacts DEF faultVars, Store, Delete, Lose, Refuse
    <3>3. CASE \E n \in Nodes, fresh \in SUBSET Batches : Lap(n, fresh)
      BY Zenon, <3>3 DEF faultVars, Lap
    <3>4. CASE \E n \in Nodes, b \in Batches : Replayed(n, b)
      BY Zenon, <3>4 DEF faultVars, Replayed
    <3>5. CASE \E n \in Nodes : Crash(n) \/ Restart(n)
      BY Zenon, <3>5 DEF Crash, Restart
    <3>6. CASE UNCHANGED vars
      BY Zenon, <3>6 DEF vars, faultVars
    <3> QED
      BY Zenon, <1>2, <3>1, <3>2, <3>3, <3>4, <3>5, <3>6 DEF Next, Obstructed
  <2> QED
    BY Zenon, <2>1
<1> QED
  BY Zenon, <1>1, <1>2

LEMMA TypeStep ==
  ASSUME TypeOK, [Next]_vars
  PROVE  TypeOK'
<1>1. CASE UNCHANGED vars
  BY Zenon, <1>1 DEF vars, clientVars, replayVars, faultVars, TypeOK
<1> QED
  BY Zenon, <1>1, ClientType, MessageType, NodeType, ObstructedFacts DEF Next, Obstructed

----------------------------------------------------------------------------
(* Rows and mutations only ever get more.                                  *)

LEMMA AppliedStays ==
  ASSUME TypeOK, [Next]_vars
  PROVE  \A m \in Mutations : applied[m] \subseteq applied'[m]
<1>1. CASE \E msg \in net : Apply(msg) \/ Lose(msg)
  <2>1. PICK msg \in net : Apply(msg) \/ Lose(msg)
    BY Zenon, <1>1
  <2>2. Mutated(msg)
    BY Zenon, <2>1 DEF Apply, Lose, Replays, Mutated
  <2>3. applied' = applied \/ applied' = [applied EXCEPT ![msg.mutation] = @ \cup {msg.to}]
    BY Zenon, <2>1, ApplyFacts DEF Lose
  <2> QED
    BY Zenon, <2>2, <2>3, AppliedType
<1>2. CASE ~(\E msg \in net : Apply(msg) \/ Lose(msg))
  <2>1. applied' = applied
    BY Zenon, <1>2, ObstructedFacts DEF Next, Obstructed, vars, Begin, Unavailable, Timeout, Store,
         Delete, Refuse, Lap, Replayed,
         Crash, Restart
  <2> QED
    BY Zenon, <2>1
<1> QED
  BY Zenon, <1>1, <1>2

(* A row is deleted, and stays so, but is never as if it had not been there. *)
LEMMA RowStays ==
  ASSUME TypeOK, [Next]_vars
  PROVE  \A n \in Nodes, b \in Batches : row[n][b] # "none" => row'[n][b] # "none"
<1>1. CASE \E msg \in net : Store(msg) \/ Delete(msg)
  <2>1. PICK msg \in net : Store(msg) \/ Delete(msg)
    BY Zenon, <1>1
  <2>2. msg.to \in Nodes /\ msg.batch \in Batches
    BY Zenon, <2>1, MessageFields DEF Store, Delete, Mutated
  <2>3. row \in [Nodes -> [Batches -> {"none", "stored", "deleted"}]]
    BY Zenon DEF TypeOK
  <2>4. CASE Store(msg)
    BY Zenon, <2>2, <2>3, <2>4 DEF Store
  <2>5. CASE Delete(msg)
    BY Zenon, <2>2, <2>3, <2>5 DEF Delete
  <2> QED
    BY Zenon, <2>1, <2>4, <2>5
<1>2. CASE \E n \in Nodes, b \in Batches : Replayed(n, b)
  <2>1. PICK n \in Nodes, b \in Batches : Replayed(n, b)
    BY Zenon, <1>2
  <2>2. row \in [Nodes -> [Batches -> {"none", "stored", "deleted"}]]
    BY Zenon DEF TypeOK
  <2> QED
    BY Zenon, <2>1, <2>2 DEF Replayed
<1>3. CASE Obstructed
  <2>1. \A n \in Nodes, b \in Batches : row'[n][b] = row[n][b] \/ row'[n][b] = "deleted"
    BY Zenon, <1>3, ObstructedFacts
  <2> QED
    BY <2>1
<1>4. CASE /\ ~(\E msg \in net : Store(msg) \/ Delete(msg)) /\ ~Obstructed
           /\ ~(\E n \in Nodes, b \in Batches : Replayed(n, b))
  <2>1. row' = row
    BY Zenon, <1>4 DEF Next, Obstructed, vars, Begin, Unavailable, Timeout, Apply, Lose, Refuse, Lap,
         Crash, Restart
  <2> QED
    BY Zenon, <2>1
<1> QED
  BY Zenon, <1>1, <1>2, <1>3, <1>4

LEMMA LoggedStays ==
  ASSUME TypeOK, [Next]_vars
  PROVE  \A b \in Batches : Logged(b) => Logged(b)'
BY Zenon, RowStays DEF Logged

(* The mutations that get into the network, and who sent them. *)
LEMMA NewMutations ==
  ASSUME TypeOK, [Next]_vars, NEW msg \in net', msg \notin net, Mutated(msg)
  PROVE  /\ msg.mutation \in Mutations /\ Logged(BatchOf[msg.mutation])'
         /\ \/ /\ msg.from = Client /\ msg.to \in targets[msg.mutation]
               /\ pc'[BatchOf[msg.mutation]] = "writing" /\ UNCHANGED targets
               /\ pc[BatchOf[msg.mutation]] = "logging"
            \/ msg.from # Client /\ msg.to \in Owners[msg.mutation]
<1>1. CASE \E b \in Batches : Begin(b)
  <2>1. PICK b \in Batches : Begin(b)
    BY Zenon, <1>1
  <2>2. PICK chosen \in EndpointFilter : net' = net \cup Stores(b, chosen)
    BY Zenon, <2>1 DEF Begin, SyncWriteToBatchlog
  <2>3. msg \in Stores(b, chosen) /\ chosen \in SUBSET Nodes
    BY Zenon, <2>2, FilterType
  <2> QED
    BY Zenon, <2>3, LogMessages DEF Mutated
<1>2. CASE \E k \in net : Store(k)
  <2>1. PICK k \in net : Store(k)
    BY Zenon, <1>2
  <2>2. k.batch \in Batches /\ k.to \in Nodes
    BY Zenon, <2>1, MessageFields DEF Store, Mutated
  <2>3. pc[k.batch] = "logging" /\ msg \in SendWrites(k.batch, targets)
    BY Zenon, <2>1 DEF Store
  <2>4. /\ msg.mutation \in Mutations /\ BatchOf[msg.mutation] = k.batch
        /\ msg.from = Client /\ msg.to \in targets[msg.mutation]
    <3>1. targets \in [Mutations -> SUBSET Nodes]
      BY Zenon DEF TypeOK
    <3> QED
      BY <2>2, <2>3, <3>1, ClientMessages
  <2>5. pc'[k.batch] = "writing" /\ UNCHANGED targets
    BY Zenon, <2>1, <2>2, <2>3 DEF Store, TypeOK
  <2>6. row'[k.to][k.batch] # "none"
    <3>1. row \in [Nodes -> [Batches -> {"none", "stored", "deleted"}]]
      BY Zenon DEF TypeOK
    <3> QED
      BY Zenon, <2>1, <2>2, <3>1 DEF Store
  <2>7. Logged(BatchOf[msg.mutation])'
    BY Zenon, <2>2, <2>4, <2>6 DEF Logged
  <2> QED
    BY Zenon, <2>3, <2>4, <2>5, <2>7
<1>3. CASE \E k \in net : Apply(k)
  <2>1. PICK k \in net : Apply(k)
    BY Zenon, <1>3
  <2>2. Mutated(k)
    BY Zenon, <2>1, ApplyFacts
  <2>3. PICK b \in Batches : msg \in Deletes(b, endpoints[b])
    BY Zenon, <2>1, <2>2, ApplyFacts, MessageFields
  <2>4. endpoints[b] \in SUBSET Nodes
    BY Zenon DEF TypeOK
  <2> QED
    BY <2>3, <2>4, LogMessages DEF Mutated
<1>4. CASE \E n \in Nodes, fresh \in SUBSET Batches : Lap(n, fresh)
  <2>1. PICK n \in Nodes, fresh \in SUBSET Batches : Lap(n, fresh)
    BY Zenon, <1>4
  <2>2. msg \in LapMessages(n, Old(n, fresh)) /\ row' = row
    BY Zenon, <2>1 DEF Lap, LapMessages
  <2>3. /\ msg.mutation \in Mutations /\ BatchOf[msg.mutation] \in Old(n, fresh)
        /\ msg.from = n /\ msg.to \in Owners[msg.mutation]
    BY Zenon, <2>2, ReplayMessages
  <2>4. row'[n][BatchOf[msg.mutation]] # "none"
    BY Zenon, <2>2, <2>3 DEF Old, Stored
  <2>5. \E k \in Nodes : row'[k][BatchOf[msg.mutation]] # "none"
    BY Zenon, <2>4
  <2> QED
    BY Zenon, <2>3, <2>5, BatchAssumption DEF Logged
<1>5. CASE \/ UNCHANGED vars
           \/ \E b \in Batches : Unavailable(b) \/ Timeout(b)
           \/ \E k \in net : Delete(k) \/ Lose(k) \/ Refuse(k)
           \/ \E n \in Nodes, b \in Batches : Replayed(n, b)
           \/ \E n \in Nodes : Crash(n) \/ Restart(n)
           \/ Obstructed
  <2>1. net' \subseteq net
    BY Zenon, <1>5, ObstructedFacts DEF vars, Unavailable, Timeout, Delete, Lose, Refuse, Replayed, Crash, Restart
  <2> QED
    BY Zenon, <2>1
<1> QED
  BY Zenon, <1>1, <1>2, <1>3, <1>4, <1>5 DEF Next, Obstructed

----------------------------------------------------------------------------
(* Rows, mutations and acknowledgements.                                   *)

(* What was sent or applied was logged before. *)
LEMMA LoggedStep ==
  ASSUME TypeOK, LoggedInv, [Next]_vars
  PROVE  LoggedInv'
<1>1. ASSUME NEW m \in Mutations, applied'[m] # {}
      PROVE  Logged(BatchOf[m])'
  <2>1. BatchOf[m] \in Batches
    BY Zenon, BatchAssumption
  <2>2. Logged(BatchOf[m])
    <3>1. CASE applied[m] # {}
      BY Zenon, <3>1 DEF LoggedInv
    <3>2. CASE \E msg \in net : Apply(msg) \/ Lose(msg)
      <4>1. PICK msg \in net : Apply(msg) \/ Lose(msg)
        BY Zenon, <3>2
      <4>2. Mutated(msg)
        BY Zenon, <4>1 DEF Apply, Lose, Replays, Mutated
      <4>3. applied' = applied \/ applied' = [applied EXCEPT ![msg.mutation] = @ \cup {msg.to}]
        BY Zenon, <4>1, ApplyFacts DEF Lose
      <4>4. applied[m] # {} \/ m = msg.mutation
        BY Zenon, <1>1, <4>2, <4>3, AppliedType
      <4> QED
        BY Zenon, <4>2, <4>4 DEF LoggedInv
    <3>3. CASE ~(\E msg \in net : Apply(msg) \/ Lose(msg))
      <4>1. applied' = applied
        BY Zenon, <3>3, ObstructedFacts DEF Next, Obstructed, vars, Begin, Unavailable, Timeout, Store,
         Delete, Refuse, Lap, Replayed,
             Crash, Restart
      <4> QED
        BY Zenon, <1>1, <3>1, <4>1
    <3> QED
      BY Zenon, <3>2, <3>3
  <2> QED
    BY Zenon, <2>1, <2>2, LoggedStays
<1>2. ASSUME NEW msg \in net', Mutated(msg)
      PROVE  Logged(BatchOf[msg.mutation])'
  <2>1. CASE msg \in net
    <3>1. Logged(BatchOf[msg.mutation]) /\ BatchOf[msg.mutation] \in Batches
      BY Zenon, <1>2, <2>1, MessageFields DEF LoggedInv
    <3> QED
      BY Zenon, <3>1, LoggedStays
  <2>2. CASE msg \notin net
    BY Zenon, <1>2, <2>2, NewMutations
  <2> QED
    BY Zenon, <2>1, <2>2
<1> QED
  BY Zenon, <1>1, <1>2 DEF LoggedInv, Mutated


LEMMA AcksApplied ==
  ASSUME TypeOK, AckInv, NEW msg \in net, Mutated(msg),
         applied' = [applied EXCEPT ![msg.mutation] = @ \cup {msg.to}]
  PROVE  \A m \in Mutations : Acks(msg)[m] \subseteq applied'[m]
<1> SUFFICES ASSUME NEW m \in Mutations PROVE Acks(msg)[m] \subseteq applied'[m]
  OBVIOUS
<1>1. acked[m] \subseteq applied[m] /\ applied[m] \subseteq applied'[m]
  BY Zenon, AppliedType DEF AckInv
<1>2. CASE m = msg.mutation
  <2>1. Acks(msg)[m] = acked[m] \cup {msg.to} /\ msg.to \in applied'[m]
    BY Zenon, <1>2, AckType, AppliedType
  <2> QED
    BY Zenon, <1>1, <2>1
<1>3. CASE m # msg.mutation
  <2>1. Acks(msg)[m] = acked[m]
    BY Zenon, <1>3, AckType
  <2> QED
    BY Zenon, <1>1, <2>1
<1> QED
  BY Zenon, <1>2, <1>3

(* Acknowledgements are counted of replicas that have the mutation. *)
LEMMA AckStep ==
  ASSUME TypeOK, HandlerInv, AckInv, [Next]_vars
  PROVE  AckInv'
<1>1. \A m \in Mutations : applied[m] \subseteq applied'[m]
  BY Zenon, AppliedStays
<1>2. ASSUME NEW m \in Mutations PROVE acked'[m] \subseteq applied'[m]
  <2>1. CASE acked'[m] \subseteq acked[m]
    BY Zenon, <1>1, <2>1 DEF AckInv
  <2>2. CASE \E msg \in net : Apply(msg)
    <3>1. PICK msg \in net : Apply(msg)
      BY Zenon, <2>2
    <3>2. Mutated(msg) /\ applied' = [applied EXCEPT ![msg.mutation] = @ \cup {msg.to}]
      BY Zenon, <3>1, ApplyFacts
    <3>3. msg.to \in applied'[msg.mutation]
      BY Zenon, <3>2, AppliedType
    <3>4. CASE Complete(msg)
      BY Zenon, <2>1, <3>1, <3>4, ApplyFacts DEF End
    <3>5. CASE ~Complete(msg)
      <4>1. acked' = acked \/ acked' = Acks(msg)
        BY Zenon, <3>1, <3>5, ApplyFacts
      <4> QED
        BY Zenon, <1>1, <3>2, <4>1, AcksApplied DEF AckInv
    <3> QED
      BY Zenon, <3>4, <3>5
  <2>3. CASE ~(\E msg \in net : Apply(msg))
    <3>1. acked' = acked \/ \E batches, outcome : End(batches, outcome)
      BY Zenon, <2>3, ObstructedFacts DEF Next, Obstructed, vars, clientVars, Begin, Unavailable, Timeout, Store, Delete, Lose,
           Refuse, Lap, Replayed, Crash, Restart
    <3> QED
      BY Zenon, <2>1, <3>1 DEF End
  <2> QED
    BY Zenon, <2>2, <2>3
<1>3. ASSUME NEW m \in Mutations PROVE applied'[m] \subseteq Owners[m]
  <2>1. CASE \E msg \in net : Apply(msg) \/ Lose(msg)
    <3>1. PICK msg \in net : Apply(msg) \/ Lose(msg)
      BY Zenon, <2>1
    <3>2. Mutated(msg)
      BY Zenon, <3>1 DEF Apply, Lose, Replays, Mutated
    <3>3. applied' = applied \/ applied' = [applied EXCEPT ![msg.mutation] = @ \cup {msg.to}]
      BY Zenon, <3>1, ApplyFacts DEF Lose
    <3>4. msg.to \in Owners[msg.mutation]
      BY Zenon, <3>2 DEF HandlerInv
    <3> QED
      BY <3>2, <3>3, <3>4, AppliedType DEF AckInv
  <2>2. CASE ~(\E msg \in net : Apply(msg) \/ Lose(msg))
    <3>1. applied' = applied
      BY Zenon, <2>2, ObstructedFacts DEF Next, Obstructed, vars, Begin, Unavailable, Timeout, Store,
         Delete, Refuse, Lap, Replayed,
           Crash, Restart
    <3> QED
      BY Zenon, <3>1 DEF AckInv
  <2> QED
    BY Zenon, <2>1, <2>2
<1>4. ASSUME NEW m \in Mutations, NEW n \in Nodes PROVE confirmed'[n][m] \subseteq applied'[m]
  <2> USE DEF replayVars
  <2>0. confirmed \in [Nodes -> [Mutations -> SUBSET Nodes]]
    BY Zenon DEF TypeOK
  <2>1. CASE confirmed'[n][m] \subseteq confirmed[n][m]
    BY Zenon, <1>1, <2>1 DEF AckInv
  <2>2. CASE \E msg \in net : Apply(msg)
    <3>1. PICK msg \in net : Apply(msg)
      BY Zenon, <2>2
    <3>2. /\ Mutated(msg) /\ applied' = [applied EXCEPT ![msg.mutation] = @ \cup {msg.to}]
          /\ confirmed' \in {confirmed,
               [confirmed EXCEPT ![msg.from][msg.mutation] = @ \cup {msg.to}]}
      BY Zenon, <3>1, ApplyFacts
    <3>3. msg.to \in applied'[msg.mutation]
      BY Zenon, <3>2, AppliedType
    <3>4. confirmed'[n][m] \subseteq confirmed[n][m]
          \/ (m = msg.mutation /\ confirmed'[n][m] \subseteq confirmed[n][m] \cup {msg.to})
      BY <2>0, <3>2
    <3> QED
      BY Zenon, <1>1, <2>1, <3>3, <3>4 DEF AckInv
  <2>3. CASE \E k \in Nodes, b \in Batches : Replayed(k, b)
    <3>1. PICK k \in Nodes, b \in Batches : Replayed(k, b)
      BY Zenon, <2>3
    <3> QED
      BY Zenon, <2>0, <2>1, <3>1 DEF Replayed
  <2>4. CASE \E k \in Nodes : Crash(k)
    <3>1. PICK k \in Nodes : Crash(k)
      BY Zenon, <2>4
    <3> QED
      BY Zenon, <2>0, <2>1, <3>1 DEF Crash
  <2>5. CASE /\ ~(\E msg \in net : Apply(msg)) /\ ~(\E k \in Nodes : Crash(k))
             /\ ~(\E k \in Nodes, b \in Batches : Replayed(k, b))
    <3>1. confirmed' = confirmed
      BY Zenon, <2>5, ObstructedFacts DEF Next, Obstructed, vars, Begin, Unavailable, Timeout, Store,
           Delete, Lose, Refuse, Lap, Restart
    <3> QED
      BY Zenon, <2>1, <3>1
  <2> QED
    BY Zenon, <2>2, <2>3, <2>4, <2>5
<1> QED
  BY Zenon, <1>2, <1>3, <1>4 DEF AckInv

(* Rows are removed when the batch is whole. *)
LEMMA DeleteMessage ==
  ASSUME NEW b, NEW n
  PROVE  Deletes(b, {n}) = {[type |-> "delete", batch |-> b, to |-> n]}
<1> DEFINE d == [type |-> "delete", batch |-> b, to |-> n]
<1>1. d \in Deletes(b, {n})
  BY Zenon DEF Deletes
<1>2. ASSUME NEW x \in Deletes(b, {n}) PROVE x = d
  BY Zenon DEF Deletes
<1> QED
  BY Zenon, <1>1, <1>2

LEMMA RemovedStep ==
  ASSUME TypeOK, TypeOK', AckInv, AckInv', RemovedWhenWhole, [Next]_vars
  PROVE  RemovedWhenWhole'
<1>1. \A b : Whole(b) => Whole(b)'
  BY Zenon, AppliedStays, WholeStays
<1> SUFFICES ASSUME NEW n \in Nodes, NEW b \in Batches,
                    row'[n][b] = "deleted" \/ Deletes(b, {n}) \subseteq net'
             PROVE  Whole(b)' \/ obstacle'[b] = "keyspace"
  BY Zenon DEF RemovedWhenWhole
<1>2. CASE row[n][b] = "deleted" \/ Deletes(b, {n}) \subseteq net
  BY Zenon, <1>1, <1>2, DroppedStays DEF RemovedWhenWhole
<1>3. CASE row[n][b] # "deleted" /\ row'[n][b] = "deleted"
  <2>0. row \in [Nodes -> [Batches -> {"none", "stored", "deleted"}]]
    BY Zenon DEF TypeOK
  <2>1. CASE \E msg \in net : Delete(msg)
    <3>1. PICK msg \in net : Delete(msg)
      BY Zenon, <2>1
    <3>2. msg.to \in Nodes /\ msg.batch \in Batches
      BY Zenon, <3>1, MessageFields DEF Delete, Mutated
    <3>3. msg.to = n /\ msg.batch = b
      BY Zenon, <1>3, <2>0, <3>1, <3>2 DEF Delete
    <3>4. msg = [type |-> "delete", batch |-> b, to |-> n]
      <4>1. msg.type = "delete" /\ msg \in Message
        BY Zenon, <3>1 DEF Delete, TypeOK
      <4> QED
        BY Zenon, <3>3, <4>1 DEF Message
    <3>5. Deletes(b, {n}) \subseteq net
      <4>1. Deletes(b, {n}) = {msg}
        BY Zenon, <3>4, DeleteMessage
      <4> QED
        BY Zenon, <4>1
    <3> QED
      BY Zenon, <1>2, <3>5
  <2>2. CASE \E k \in Nodes, c \in Batches : Replayed(k, c)
    <3>1. PICK k \in Nodes, c \in Batches : Replayed(k, c)
      BY Zenon, <2>2
    <3>2. k = n /\ c = b /\ ~KeepRow(n, b) /\ Answered(n, b) /\ applied' = applied
      BY Zenon, <1>3, <2>0, <3>1 DEF Replayed
    <3>3. ASSUME NEW m \in Of(b) PROVE Cardinality(applied'[m]) >= BlockFor
      <4>1. m \in Mutations /\ confirmed[n][m] = Owners[m]
        BY Zenon, <3>2, <3>3 DEF KeepRow, Answered, Of
      <4>2. applied'[m] = Owners[m]
        BY Zenon, <3>2, <4>1 DEF AckInv
      <4> QED
        BY Zenon, <4>1, <4>2, BatchAssumption
    <3> QED
      BY Zenon, <3>3 DEF Whole
  <2>3. CASE \E msg \in net : Store(msg)
    <3>1. PICK msg \in net : Store(msg)
      BY Zenon, <2>3
    <3>2. msg.to \in Nodes /\ msg.batch \in Batches
      BY Zenon, <3>1, MessageFields DEF Store, Mutated
    <3> QED
      BY Zenon, <1>3, <2>0, <3>1, <3>2 DEF Store
  <2>4. CASE Obstructed
    BY Zenon, <1>3, <2>4, ObstructedFacts
  <2>5. CASE /\ ~(\E msg \in net : Delete(msg)) /\ ~(\E msg \in net : Store(msg))
             /\ ~(\E k \in Nodes, c \in Batches : Replayed(k, c)) /\ ~Obstructed
    <3>1. row' = row
      BY Zenon, <2>5 DEF Next, Obstructed, vars, Begin, Unavailable, Timeout, Apply, Lose, Refuse, Lap,
           Crash, Restart
    <3> QED
      BY Zenon, <1>3, <3>1
  <2> QED
    BY Zenon, <2>1, <2>2, <2>3, <2>4, <2>5
<1>4. CASE Deletes(b, {n}) \subseteq net' /\ ~(Deletes(b, {n}) \subseteq net)
  <2> DEFINE d == [type |-> "delete", batch |-> b, to |-> n]
  <2>0. d \in net' /\ d \notin net /\ d.type = "delete" /\ d.batch = b
    BY <1>4, DeleteMessage
  <2> HIDE DEF d
  <2>1. CASE \E msg \in net : Apply(msg)
    <3>1. PICK msg \in net : Apply(msg)
      BY Zenon, <2>1
    <3>2. /\ Mutated(msg) /\ applied' = [applied EXCEPT ![msg.mutation] = @ \cup {msg.to}]
      BY Zenon, <3>1, ApplyFacts
    <3>3. /\ BatchOf[msg.mutation] \in Batches /\ msg.mutation \in Mutations
          /\ endpoints[BatchOf[msg.mutation]] \in SUBSET Nodes
      BY Zenon, <3>2, MessageFields DEF TypeOK
    <3>4. Complete(msg)
      BY Zenon, <2>0, <3>1, ApplyFacts
    <3>5. d \in Deletes(BatchOf[msg.mutation], endpoints[BatchOf[msg.mutation]])
      BY Zenon, <2>0, <3>1, <3>4, ApplyFacts
    <3>6. BatchOf[msg.mutation] = b
      BY <2>0, <3>3, <3>5, LogMessages
    <3>7. ASSUME NEW m \in Of(b) PROVE Cardinality(applied'[m]) >= BlockFor
      <4>1. m \in Mutations /\ Cardinality(Acks(msg)[m]) >= BlockFor /\ BlockFor \in Nat
        BY Zenon, <3>4, <3>6, <3>7, BatchAssumption DEF Complete, Reached, Of
      <4>2. Acks(msg)[m] \subseteq applied'[m]
        BY Zenon, <3>2, <4>1, AcksApplied
      <4>3. IsFiniteSet(applied'[m])
        BY Zenon, <4>1, BatchAssumption, FS_Subset DEF TypeOK
      <4>4. /\ Cardinality(Acks(msg)[m]) \in Nat /\ Cardinality(applied'[m]) \in Nat
            /\ Cardinality(Acks(msg)[m]) <= Cardinality(applied'[m])
        BY Zenon, <4>2, <4>3, FS_Subset, FS_CardinalityType
      <4> QED
        BY <4>1, <4>4
    <3> QED
      BY Zenon, <3>7 DEF Whole
  <2>2. CASE \E c \in Batches : Begin(c)
    <3>1. PICK c \in Batches : Begin(c)
      BY Zenon, <2>2
    <3>2. PICK chosen \in EndpointFilter : net' = net \cup Stores(c, chosen)
      BY Zenon, <3>1 DEF Begin, SyncWriteToBatchlog
    <3>3. chosen \in SUBSET Nodes
      BY Zenon, FilterType
    <3> QED
      BY Zenon, <2>0, <3>2, <3>3, LogMessages
  <2>3. CASE \E k \in net : Store(k)
    <3>1. PICK k \in net : Store(k)
      BY Zenon, <2>3
    <3>2. k.batch \in Batches /\ targets \in [Mutations -> SUBSET Nodes]
      BY Zenon, <3>1, MessageFields DEF Store, Mutated, TypeOK
    <3> QED
      BY ZenonT(60), <2>0, <3>1, <3>2, ClientMessages DEF Store
  <2>4. CASE \E k \in Nodes, fresh \in SUBSET Batches : Lap(k, fresh)
    <3>1. PICK k \in Nodes, fresh \in SUBSET Batches : Lap(k, fresh)
      BY Zenon, <2>4
    <3>2. d \in LapMessages(k, Old(k, fresh))
      BY Zenon, <2>0, <3>1 DEF Lap, LapMessages
    <3> QED
      BY Zenon, <2>0, <3>2, ReplayMessages
  <2>5. CASE \/ UNCHANGED vars
             \/ \E c \in Batches : Unavailable(c) \/ Timeout(c)
             \/ \E k \in net : Delete(k) \/ Lose(k) \/ Refuse(k)
             \/ \E k \in Nodes, c \in Batches : Replayed(k, c)
             \/ \E k \in Nodes : Crash(k) \/ Restart(k)
             \/ Obstructed
    <3>1. net' \subseteq net
      BY Zenon, <2>5, ObstructedFacts DEF vars, Unavailable, Timeout, Delete, Lose, Refuse, Replayed, Crash, Restart
    <3> QED
      BY Zenon, <2>0, <3>1
  <2> QED
    BY Zenon, <2>1, <2>2, <2>3, <2>4, <2>5 DEF Next, Obstructed
<1> QED
  BY Zenon, <1>2, <1>3, <1>4


----------------------------------------------------------------------------
(* Write handlers.                                                         *)

(* Where a batch stands only moves on. *)
LEMMA PcStep ==
  ASSUME TypeOK, [Next]_vars, NEW b \in Batches
  PROVE  /\ pc[b] \in {"writing", "done", "failed"} => pc'[b] \in {"writing", "done", "failed"}
         /\ pc'[b] = "writing" => pc[b] \in {"logging", "writing"}
         /\ pc'[b] = pc[b] \/ pc[b] \in {"idle", "logging", "writing"}
<1>0. pc \in [Batches -> {"idle", "logging", "writing", "done", "failed"}]
  BY Zenon DEF TypeOK
<1>1. CASE \E c \in Batches : Begin(c) \/ Unavailable(c) \/ Timeout(c)
  <2>1. PICK c \in Batches : Begin(c) \/ Unavailable(c) \/ Timeout(c)
    BY Zenon, <1>1
  <2> QED
    BY Zenon, <1>0, <2>1 DEF Begin, Unavailable, Timeout, End
<1>2. CASE \E msg \in net : Store(msg)
  <2>1. PICK msg \in net : Store(msg)
    BY Zenon, <1>2
  <2>2. msg.batch \in Batches
    BY Zenon, <2>1, MessageFields DEF Store, Mutated
  <2> QED
    BY Zenon, <1>0, <2>1, <2>2 DEF Store
<1>3. CASE \E msg \in net : Apply(msg)
  <2>1. PICK msg \in net : Apply(msg)
    BY Zenon, <1>3
  <2>2. CASE Complete(msg)
    <3>1. End({BatchOf[msg.mutation]}, "done") /\ pc[BatchOf[msg.mutation]] = "writing"
      BY Zenon, <2>1, <2>2, ApplyFacts DEF Complete, Listening
    <3> QED
      BY Zenon, <1>0, <3>1 DEF End
  <2>3. CASE ~Complete(msg)
    BY Zenon, <1>0, <2>1, <2>3, ApplyFacts
  <2> QED
    BY Zenon, <2>2, <2>3
<1>4. CASE \E n \in Nodes : Crash(n)
  <2>1. PICK n \in Nodes : Crash(n)
    BY Zenon, <1>4
  <2> QED
    BY Zenon, <1>0, <2>1 DEF Crash, End
<1>5. CASE /\ ~(\E c \in Batches : Begin(c) \/ Unavailable(c) \/ Timeout(c))
           /\ ~(\E msg \in net : Store(msg) \/ Apply(msg)) /\ ~(\E n \in Nodes : Crash(n))
  <2>1. pc' = pc
    BY Zenon, <1>5, ObstructedFacts DEF Next, Obstructed, vars, clientVars, Delete, Lose, Refuse, Lap, Replayed, Restart
  <2> QED
    BY Zenon, <1>0, <2>1
<1> QED
  BY Zenon, <1>1, <1>2, <1>3, <1>4, <1>5

(* A handler is made when its batch begins, and destroyed with the context of the batch. *)
LEMMA TargetStep ==
  ASSUME TypeOK, HandlerInv, [Next]_vars, NEW m \in Mutations
  PROVE  /\ acked'[m] \subseteq targets'[m] /\ targets'[m] \subseteq Owners[m]
         /\ targets'[m] # {} => pc'[BatchOf[m]] \in {"logging", "writing"}
         /\ targets'[m] = targets[m] \/ pc[BatchOf[m]] = "idle" \/ pc'[BatchOf[m]] \in {"done", "failed"}
<1>0. /\ pc \in [Batches -> {"idle", "logging", "writing", "done", "failed"}]
      /\ targets \in [Mutations -> SUBSET Nodes] /\ acked \in [Mutations -> SUBSET Nodes]
      /\ BatchOf[m] \in Batches
  BY Zenon, BatchAssumption DEF TypeOK
<1>1. /\ acked[m] \subseteq targets[m] /\ targets[m] \subseteq Owners[m]
      /\ targets[m] # {} => pc[BatchOf[m]] \in {"logging", "writing"}
  BY Zenon DEF HandlerInv
<1>2. ASSUME NEW batches, NEW outcome \in {"done", "failed"}, End(batches, outcome)
      PROVE  /\ acked'[m] \subseteq targets'[m] /\ targets'[m] \subseteq Owners[m]
             /\ targets'[m] # {} => pc'[BatchOf[m]] \in {"logging", "writing"}
             /\ targets'[m] = targets[m] \/ pc'[BatchOf[m]] \in {"done", "failed"}
  BY Zenon, <1>0, <1>1, <1>2 DEF End
<1>3. CASE \E b \in Batches : Begin(b)
  <2>1. PICK b \in Batches : Begin(b)
    BY Zenon, <1>3
  <2>2. /\ pc[b] = "idle" /\ pc' = [pc EXCEPT ![b] = "logging"] /\ acked' = acked
        /\ targets'[m] = IF m \in Of(b) THEN Owners[m] \cap up ELSE targets[m]
    BY Zenon, <2>1 DEF Begin
  <2>3. CASE m \in Of(b)
    BY Zenon, <1>0, <1>1, <2>2, <2>3 DEF Of
  <2>4. CASE m \notin Of(b)
    BY Zenon, <1>0, <1>1, <2>2, <2>4 DEF Of
  <2> QED
    BY Zenon, <2>3, <2>4
<1>4. CASE \E b \in Batches : Unavailable(b)
  <2>1. PICK b \in Batches : Unavailable(b)
    BY Zenon, <1>4
  <2> QED
    BY Zenon, <1>0, <1>1, <2>1 DEF Unavailable
<1>5. CASE \E msg \in net : Store(msg)
  <2>1. PICK msg \in net : Store(msg)
    BY Zenon, <1>5
  <2>2. msg.batch \in Batches
    BY Zenon, <2>1, MessageFields DEF Store, Mutated
  <2> QED
    BY Zenon, <1>0, <1>1, <2>1, <2>2 DEF Store
<1>6. CASE \E msg \in net : Apply(msg)
  <2>1. PICK msg \in net : Apply(msg)
    BY Zenon, <1>6
  <2>2. CASE Complete(msg)
    BY Zenon, <1>2, <2>1, <2>2, ApplyFacts
  <2>3. CASE ~Complete(msg)
    <3>1. /\ Mutated(msg) /\ UNCHANGED <<pc, targets>>
          /\ acked' = IF Listening(msg) THEN Acks(msg) ELSE acked
      BY Zenon, <2>1, <2>3, ApplyFacts
    <3>2. Listening(msg) => msg.to \in targets[msg.mutation]
      BY Zenon, <3>1 DEF Listening, HandlerInv
    <3>3. acked'[m] \subseteq targets[m]
      <4>1. CASE Listening(msg) /\ m = msg.mutation
        <5>1. acked'[m] = acked[m] \cup {msg.to} /\ msg.to \in targets[m]
          BY Zenon, <3>1, <3>2, <4>1, AckType
        <5> QED
          BY Zenon, <1>1, <5>1
      <4>2. CASE ~(Listening(msg) /\ m = msg.mutation)
        <5>1. acked'[m] = acked[m]
          BY Zenon, <3>1, <4>2, AckType
        <5> QED
          BY Zenon, <1>1, <5>1
      <4> QED
        BY Zenon, <4>1, <4>2
    <3> QED
      BY Zenon, <1>1, <3>1, <3>3
  <2> QED
    BY Zenon, <2>2, <2>3
<1>7. CASE \/ \E b \in Batches : Timeout(b)
           \/ \E n \in Nodes : Crash(n)
  <2>1. PICK batches : End(batches, "failed")
    BY Zenon, <1>7 DEF Timeout, Crash
  <2> QED
    BY Zenon, <1>2, <2>1
<1>8. CASE \/ UNCHANGED vars
           \/ \E msg \in net : Delete(msg) \/ Lose(msg) \/ Refuse(msg)
           \/ \E n \in Nodes, fresh \in SUBSET Batches : Lap(n, fresh)
           \/ \E n \in Nodes, b \in Batches : Replayed(n, b)
           \/ \E n \in Nodes : Restart(n)
           \/ Obstructed
  <2>1. UNCHANGED <<pc, targets, acked>>
    BY Zenon, <1>8, ObstructedFacts DEF vars, clientVars, Delete, Lose, Refuse, Lap, Replayed, Restart
  <2> QED
    BY Zenon, <1>1, <2>1
<1> QED
  BY Zenon, <1>3, <1>4, <1>5, <1>6, <1>7, <1>8 DEF Next, Obstructed

LEMMA HandlerStep ==
  ASSUME TypeOK, HandlerInv, [Next]_vars
  PROVE  HandlerInv'
<1>1. ASSUME NEW msg \in net', Mutated(msg)
      PROVE  /\ msg.to \in Owners[msg.mutation]
             /\ msg.from = Client =>
                  /\ pc'[BatchOf[msg.mutation]] \in {"writing", "done", "failed"}
                  /\ pc'[BatchOf[msg.mutation]] = "writing" => msg.to \in targets'[msg.mutation]
  <2>1. CASE msg \in net
    <3>1. msg.mutation \in Mutations /\ BatchOf[msg.mutation] \in Batches
      BY Zenon, <1>1, <2>1, MessageFields
    <3>2. /\ msg.to \in Owners[msg.mutation]
          /\ msg.from = Client =>
               /\ pc[BatchOf[msg.mutation]] \in {"writing", "done", "failed"}
               /\ pc[BatchOf[msg.mutation]] = "writing" => msg.to \in targets[msg.mutation]
      BY Zenon, <1>1, <2>1 DEF HandlerInv
    <3>3. /\ pc[BatchOf[msg.mutation]] \in {"writing", "done", "failed"} =>
               pc'[BatchOf[msg.mutation]] \in {"writing", "done", "failed"}
          /\ pc'[BatchOf[msg.mutation]] = "writing" =>
               pc[BatchOf[msg.mutation]] \in {"logging", "writing"}
      BY Zenon, <3>1, PcStep
    <3>4. \/ targets'[msg.mutation] = targets[msg.mutation] \/ pc[BatchOf[msg.mutation]] = "idle"
          \/ pc'[BatchOf[msg.mutation]] \in {"done", "failed"}
      BY Zenon, <3>1, TargetStep
    <3> QED
      BY Zenon, <3>2, <3>3, <3>4
  <2>2. CASE msg \notin net
    <3>1. /\ msg.mutation \in Mutations
          /\ \/ /\ msg.from = Client /\ msg.to \in targets[msg.mutation]
                /\ pc'[BatchOf[msg.mutation]] = "writing" /\ UNCHANGED targets
             \/ msg.from # Client /\ msg.to \in Owners[msg.mutation]
      BY Zenon, <1>1, <2>2, NewMutations
    <3> QED
      BY Zenon, <3>1 DEF HandlerInv
  <2> QED
    BY Zenon, <2>1, <2>2
<1> QED
  BY Zenon, <1>1, TargetStep DEF HandlerInv, Mutated

----------------------------------------------------------------------------
(* The theorems.                                                           *)

LEMMA InitBatch ==
  ASSUME Init
  PROVE  BatchInv
<1>1. TypeOK
  BY Zenon DEF Init, TypeOK
<1>2. HandlerInv /\ AckInv /\ LoggedInv
  BY Zenon DEF Init, HandlerInv, AckInv, LoggedInv
<1>3. ASSUME NEW n \in Nodes, NEW b \in Batches
      PROVE  ~(row[n][b] = "deleted" \/ Deletes(b, {n}) \subseteq net)
  BY ZenonT(60), DeleteMessage DEF Init
<1> QED
  BY Zenon, <1>1, <1>2, <1>3 DEF BatchInv, RemovedWhenWhole

(* Handlers, acknowledgements, the rows of the batch log and the mutations on their way *)
(* always fit together, for any nodes, batches and replica sets.                        *)
THEOREM BatchInvariant == Spec => []BatchInv
<1>1. Init => BatchInv
  BY Zenon, InitBatch
<1>2. BatchInv /\ [Next]_vars => BatchInv'
  <2> SUFFICES ASSUME BatchInv, [Next]_vars PROVE BatchInv'
    OBVIOUS
  <2>1. TypeOK /\ TypeOK'
    BY Zenon, TypeStep DEF BatchInv
  <2>2. HandlerInv' /\ LoggedInv' /\ AckInv'
    BY Zenon, <2>1, HandlerStep, LoggedStep, AckStep DEF BatchInv
  <2>3. RemovedWhenWhole'
    BY Zenon, <2>1, <2>2, RemovedStep DEF BatchInv
  <2> QED
    BY Zenon, <2>1, <2>2, <2>3 DEF BatchInv
<1> QED
  BY <1>1, <1>2, PTL DEF Spec

(* Neither mutate_atomically() nor a replay removes a row of the batch log before the batch *)
(* is on as many replicas as the client's level asks for, but the replay of a batch whose   *)
(* keyspace is dropped under it.                                                            *)
THEOREM RowsStayUntilWhole == Spec => []RemovedWhenWhole
<1>1. BatchInv => RemovedWhenWhole
  BY Zenon DEF BatchInv
<1> QED
  BY <1>1, BatchInvariant, PTL

(* While a batch is applied in part and its keyspaces stay, some node has it in its batch log. *)
THEOREM PartialRecoverable == Spec => []PartialIsRecoverable
<1>1. BatchInv => PartialIsRecoverable
  <2> SUFFICES ASSUME BatchInv, NEW b \in Batches, NEW m \in Of(b), applied[m] # {}
               PROVE  Whole(b) \/ obstacle[b] = "keyspace" \/ \E n \in Nodes : row[n][b] = "stored"
    BY Zenon DEF PartialIsRecoverable
  <2>1. PICK n \in Nodes : row[n][b] # "none"
    BY Zenon DEF BatchInv, LoggedInv, Logged, Of
  <2>a. row \in [Nodes -> [Batches -> {"none", "stored", "deleted"}]]
    BY Zenon DEF BatchInv, TypeOK
  <2>2. row[n][b] \in {"none", "stored", "deleted"}
    BY Zenon, <2>a
  <2> QED
    BY Zenon, <2>1, <2>2 DEF BatchInv, RemovedWhenWhole
<1> QED
  BY <1>1, BatchInvariant, PTL


=============================================================================
