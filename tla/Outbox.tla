------------------------------- MODULE Outbox -------------------------------
(***************************************************************************)
(* The transactional outbox of backend-pkg: services publish domain events *)
(* inside their database transactions (tmsdb/gorm_tm.go), relay replicas   *)
(* move the committed rows to Kafka (eventlog/outbox), and the Kafka       *)
(* writer (segmentio/kafka-go, configured in eventlog/producer.go) spreads *)
(* them over partitions, retries, and may still be delivering a batch      *)
(* after the relay has given up on it.                                     *)
(***************************************************************************)
EXTENDS Kafka

CONSTANTS
  Events,         \* events the services may publish
  Txns,           \* outermost WithTransaction calls
  Relays,         \* replicas running outbox.Relay.Start
  Entities, Topics,
  EntityOf,       \* event -> EntityID
  EntityType,     \* event -> EntityType, the default topic
  TopicOverride,  \* event -> EventBuilder.WithTopic, or NoTopic
  NoTopic,
  PartitionTopic, \* partition -> its topic
  BatchSize,      \* limit of FetchPendingBatch
  MaxDepth,       \* nesting of WithTransaction calls
  MaxStamp,       \* bound: the instants the clocks of publishing replicas may show
  MaxFaults       \* failures of the database, of Kafka and of processes

ASSUME OutboxAssumption ==
  /\ EntityOf \in [Events -> Entities]
  /\ EntityType \in [Events -> Topics]
  /\ TopicOverride \in [Events -> Topics \cup {NoTopic}]
  /\ NoTopic \notin Topics
  /\ PartitionTopic \in [Partitions -> Topics]
  /\ BatchSize \in Nat \ {0}
  /\ MaxDepth \in Nat \ {0}
  /\ MaxStamp \in Nat
  /\ MaxFaults \in Nat

VARIABLES
  status,    \* the database's view of a transaction
  depth,     \* WithTransaction calls open on its context
  staged,    \* rows it inserted and, by status, committed or lost
  skipped,   \* events whose INSERT failed and was swallowed
  accepted,  \* events whose Publish returned nil to the caller
  raised,    \* a call inside the transaction returned an error
  told,      \* what the outermost WithTransaction returned
  auto,      \* events published outside any transaction
  createdAt, \* created_at of a row; 0 before it exists
  outbox,    \* committed rows of the outbox table
  pc,        \* where a relay is in ProcessBatch
  held,      \* rows locked FOR UPDATE by its transaction
  batch,     \* unacknowledged messages of its WriteMessages call
  late,      \* batches of earlier calls still queued in its writer
  faults,    \* failures still allowed to happen
  preds      \* history: same-entity events durable, and stamped earlier, when an
             \* event was created

txVars    == <<status, depth, staged, skipped, accepted, raised, told, auto,
               createdAt, preds>>
relayVars == <<pc, held, batch, late>>
vars      == <<txVars, outbox, relayVars, log, faults>>

-----------------------------------------------------------------------------
(* Derived notions.                                                        *)

Live == {"open", "aborted", "dead"}

Durable == auto \cup UNION {staged[t] : t \in {u \in Txns : status[u] = "committed"}}

Known == auto \cup skipped \cup UNION {staged[t] : t \in Txns}

Published == {e \in Events : \E p \in Partitions :
                \E i \in DOMAIN log[p] : log[p][i] = e}

\* The topic a message goes to: the override, else the entity type.
MessageTopic(e) == IF TopicOverride[e] = NoTopic THEN EntityType[e]
                                                 ELSE TopicOverride[e]

\* A batch reaches a partition in the order of the rows: by created_at, and rows
\* of one stamp in any order.
ByCreation(B) ==
  {s \in UNION {[1 .. n -> B] : n \in 1 .. BatchSize} :
     /\ \A e \in B : \E i \in DOMAIN s : s[i] = e
     /\ \A i, j \in DOMAIN s : i < j => /\ s[i] # s[j]
                                       /\ createdAt[s[i]] <= createdAt[s[j]]}

Fault == faults > 0 /\ faults' = faults - 1

Init ==
  /\ status = [t \in Txns |-> "none"]
  /\ depth = [t \in Txns |-> 0]
  /\ staged = [t \in Txns |-> {}]
  /\ skipped = {}
  /\ accepted = [t \in Txns |-> {}]
  /\ raised = [t \in Txns |-> FALSE]
  /\ told = [t \in Txns |-> "none"]
  /\ auto = {}
  /\ createdAt = [e \in Events |-> 0]
  /\ preds = [e \in Events |-> {}]
  /\ outbox = {}
  /\ pc = [r \in Relays |-> "idle"]
  /\ held = [r \in Relays |-> {}]
  /\ batch = [r \in Relays |-> [p \in Partitions |-> {}]]
  /\ late = [r \in Relays |-> [p \in Partitions |-> <<>>]]
  /\ log = [p \in Partitions |-> <<>>]
  /\ faults = MaxFaults

-----------------------------------------------------------------------------
(* WithTransaction and the statements of a transaction.                    *)

\* No transaction on the context: open one.
Begin(t) ==
  /\ status[t] = "none"
  /\ status' = [status EXCEPT ![t] = "open"]
  /\ depth' = [depth EXCEPT ![t] = 1]
  /\ UNCHANGED <<staged, skipped, accepted, raised, told, auto, createdAt, preds,
                 outbox, relayVars, log, faults>>

\* A transaction is on the context already: run inside it.
BeginNested(t) ==
  /\ status[t] \in Live
  /\ depth[t] \in 1 .. MaxDepth - 1
  /\ depth' = [depth EXCEPT ![t] = @ + 1]
  /\ UNCHANGED <<status, staged, skipped, accepted, raised, told, auto, createdAt,
                 preds, outbox, relayVars, log, faults>>

\* The nested function returns, with or without an error, which the function
\* around it may pass on or swallow: the nested call itself ends nothing.
ReturnNested(t) ==
  /\ status[t] \in Live
  /\ depth[t] > 1
  /\ depth' = [depth EXCEPT ![t] = @ - 1]
  /\ \E err \in BOOLEAN : raised' = [raised EXCEPT ![t] = @ \/ err]
  /\ UNCHANGED <<status, staged, skipped, accepted, told, auto, createdAt, preds,
                 outbox, relayVars, log, faults>>

\* The caller's own statement fails: PostgreSQL refuses every further one
\* until a rollback.  A lost connection fails even the rollback.
StatementFails(t) ==
  /\ Fault
  /\ status[t] \in {"open", "aborted"}
  /\ \E st \in {"aborted", "dead"} : status' = [status EXCEPT ![t] = st]
  /\ raised' = [raised EXCEPT ![t] = TRUE]
  /\ UNCHANGED <<depth, staged, skipped, accepted, told, auto, createdAt, preds,
                 outbox, relayVars, log>>

-----------------------------------------------------------------------------
(* writeEvent, one action per way through it.                              *)

\* time.Now() of the replica that publishes.  Nothing is known of how the replicas'
\* clocks agree: an event may be stamped earlier than, or alike, one that was durable
\* before it.
Stamp(e) ==
  \E now \in 1 .. MaxStamp :
    /\ createdAt' = [createdAt EXCEPT ![e] = now]
    /\ preds' = [preds EXCEPT ![e] = {d \in Durable : /\ EntityOf[d] = EntityOf[e]
                                                     /\ createdAt[d] < now}]

\* SAVEPOINT and INSERT succeed; a RELEASE that fails is only logged, and a
\* statement fails there only because the connection is gone.
PublishStaged(t, e) ==
  /\ status[t] = "open"
  /\ e \notin Known
  /\ staged' = [staged EXCEPT ![t] = @ \cup {e}]
  /\ accepted' = [accepted EXCEPT ![t] = @ \cup {e}]
  /\ Stamp(e)
  /\ \/ UNCHANGED <<status, faults>>
     \/ Fault /\ status' = [status EXCEPT ![t] = "dead"]
  /\ UNCHANGED <<depth, skipped, raised, told, auto, outbox, relayVars, log>>

\* INSERT fails, ROLLBACK TO SAVEPOINT repairs the transaction, the event is
\* dropped and the caller is told nil.
PublishSkipped(t, e) ==
  /\ Fault
  /\ status[t] = "open"
  /\ e \notin Known
  /\ skipped' = skipped \cup {e}
  /\ accepted' = [accepted EXCEPT ![t] = @ \cup {e}]
  /\ UNCHANGED <<status, depth, staged, raised, told, auto, createdAt, preds,
                 outbox, relayVars, log>>

\* SAVEPOINT fails, because the transaction is broken already or the connection
\* is lost here, or INSERT and then ROLLBACK TO SAVEPOINT fail: an error.
PublishFails(t) ==
  /\ status[t] \in Live
  /\ \/ status[t] # "open" /\ UNCHANGED <<status, faults>>
     \/ /\ Fault
        /\ status[t] = "open"
        /\ \E st \in {"aborted", "dead"} : status' = [status EXCEPT ![t] = st]
  /\ raised' = [raised EXCEPT ![t] = TRUE]
  /\ UNCHANGED <<depth, staged, skipped, accepted, told, auto, createdAt, preds,
                 outbox, relayVars, log>>

\* Outside a transaction the INSERT commits by itself.
PublishAlone(e) ==
  /\ e \notin Known
  /\ auto' = auto \cup {e}
  /\ outbox' = outbox \cup {e}
  /\ Stamp(e)
  /\ UNCHANGED <<status, depth, staged, skipped, accepted, raised, told, relayVars,
                 log, faults>>

-----------------------------------------------------------------------------
(* The outermost function returns.                                         *)

\* nil on a sound transaction: COMMIT.  The reply may be lost on the way back.
Commit(t) ==
  /\ status[t] = "open"
  /\ depth[t] = 1
  /\ status' = [status EXCEPT ![t] = "committed"]
  /\ depth' = [depth EXCEPT ![t] = 0]
  /\ outbox' = outbox \cup staged[t]
  /\ \/ told' = [told EXCEPT ![t] = "ok"] /\ UNCHANGED faults
     \/ told' = [told EXCEPT ![t] = "err"] /\ Fault
  /\ UNCHANGED <<staged, skipped, accepted, raised, auto, createdAt, preds,
                 relayVars, log>>

\* (broken) The result of COMMIT is ignored: only the function's error counts.
RollbackUntold(t) ==
  /\ status[t] \in Live
  /\ depth[t] = 1
  /\ status' = [status EXCEPT ![t] = "rolledback"]
  /\ depth' = [depth EXCEPT ![t] = 0]
  /\ told' = [told EXCEPT ![t] = IF raised[t] THEN "err" ELSE "ok"]
  /\ UNCHANGED <<staged, skipped, accepted, raised, auto, createdAt, preds,
                 outbox, relayVars, log, faults>>

\* An error from the function, or nil on a broken transaction (PostgreSQL
\* answers the COMMIT of an aborted transaction with a rollback).
Rollback(t) ==
  /\ status[t] \in Live
  /\ depth[t] = 1
  /\ status' = [status EXCEPT ![t] = "rolledback"]
  /\ depth' = [depth EXCEPT ![t] = 0]
  /\ told' = [told EXCEPT ![t] = "err"]
  /\ UNCHANGED <<staged, skipped, accepted, raised, auto, createdAt, preds,
                 outbox, relayVars, log, faults>>

-----------------------------------------------------------------------------
(* Relay.ProcessBatch.                                                     *)

Locked == UNION {held[r] : r \in Relays}

\* (broken) No SKIP LOCKED: rows another replica is publishing are taken too.
PendingBatchesUnlocked ==
  {B \in SUBSET outbox :
     /\ Cardinality(B) = IF Cardinality(outbox) < BatchSize THEN Cardinality(outbox)
                                                            ELSE BatchSize
     /\ \A e \in B, d \in outbox \ B : createdAt[e] <= createdAt[d]}

\* (broken) ORDER BY created_at DESC.
PendingBatchesNewest ==
  LET free == outbox \ Locked IN
  {B \in SUBSET free :
     /\ Cardinality(B) = IF Cardinality(free) < BatchSize THEN Cardinality(free)
                                                          ELSE BatchSize
     /\ \A e \in B, d \in free \ B : createdAt[e] >= createdAt[d]}

\* SELECT ... ORDER BY created_at LIMIT n FOR UPDATE SKIP LOCKED.
PendingBatches ==
  LET free == outbox \ Locked IN
  {B \in SUBSET free :
     /\ Cardinality(B) = IF Cardinality(free) < BatchSize THEN Cardinality(free)
                                                          ELSE BatchSize
     /\ \A e \in B, d \in free \ B : createdAt[e] <= createdAt[d]}

\* The LeastBytes balancer spreads the messages over the partitions of their
\* topic without regard to their key.
Routings(B) ==
  {f \in [B -> Partitions] : \A e \in B : PartitionTopic[f[e]] = MessageTopic(e)}

\* Fetch the batch and hand it to the writer.  An empty fetch changes nothing.
Fetch(r) ==
  /\ pc[r] = "idle"
  /\ \E B \in PendingBatches \ {{}} :
       /\ held' = [held EXCEPT ![r] = B]
       /\ \E f \in Routings(B) :
            batch' = [batch EXCEPT ![r] =
                        [p \in Partitions |-> {e \in B : f[e] = p}]]
  /\ pc' = [pc EXCEPT ![r] = "writing"]
  /\ UNCHANGED <<txVars, outbox, late, log, faults>>

\* (broken) The relay does not wait for the acknowledgements.
WriteDoneUnacknowledged(r) ==
  /\ pc[r] = "writing"
  /\ pc' = [pc EXCEPT ![r] = "deleting"]
  /\ UNCHANGED <<txVars, outbox, held, batch, late, log, faults>>

\* WriteMessages returns nil: every partition acknowledged its batch.
WriteDone(r) ==
  /\ pc[r] = "writing"
  /\ \A p \in Partitions : batch[r][p] = {}
  /\ pc' = [pc EXCEPT ![r] = "deleting"]
  /\ UNCHANGED <<txVars, outbox, held, batch, late, log, faults>>

\* (broken) The rows are published and left in the table.
DeleteForgotten(r) ==
  /\ pc[r] = "deleting"
  /\ held' = [held EXCEPT ![r] = {}]
  /\ pc' = [pc EXCEPT ![r] = "idle"]
  /\ UNCHANGED <<txVars, outbox, batch, late, log, faults>>

\* DeleteBatch and COMMIT.
Delete(r) ==
  /\ pc[r] = "deleting"
  /\ outbox' = outbox \ held[r]
  /\ held' = [held EXCEPT ![r] = {}]
  /\ pc' = [pc EXCEPT ![r] = "idle"]
  /\ UNCHANGED <<txVars, batch, late, log, faults>>

\* (broken) The transaction is left open: its row locks stay.
AbortLeaksLocks(r) ==
  /\ pc[r] # "idle"
  /\ \/ pc[r] = "failing" /\ UNCHANGED faults
     \/ pc[r] # "failing" /\ Fault
  /\ pc' = [pc EXCEPT ![r] = "idle"]
  /\ batch' = [batch EXCEPT ![r] = [p \in Partitions |-> {}]]
  /\ UNCHANGED <<txVars, outbox, held, late, log>>

\* The batch fails: WriteMessages reports an undelivered batch, or the batch's
\* 5 second context ends, or DELETE or COMMIT fails.  The transaction rolls
\* back; what the writer has queued stays there.
Abort(r) ==
  /\ pc[r] # "idle"
  /\ \/ pc[r] = "failing" /\ UNCHANGED faults
     \/ pc[r] # "failing" /\ Fault
  /\ pc' = [pc EXCEPT ![r] = "idle"]
  /\ held' = [held EXCEPT ![r] = {}]
  /\ batch' = [batch EXCEPT ![r] = [p \in Partitions |-> {}]]
  /\ late' = [late EXCEPT ![r] =
                [p \in Partitions |-> IF batch[r][p] = {} THEN late[r][p]
                                      ELSE Append(late[r][p], batch[r][p])]]
  /\ UNCHANGED <<txVars, outbox, log>>

\* The relay's process dies and is started again: its database connection and
\* its writer's queue are gone.
Restart(r) ==
  /\ Fault
  /\ pc' = [pc EXCEPT ![r] = "idle"]
  /\ held' = [held EXCEPT ![r] = {}]
  /\ batch' = [batch EXCEPT ![r] = [p \in Partitions |-> {}]]
  /\ late' = [late EXCEPT ![r] = [p \in Partitions |-> <<>>]]
  /\ UNCHANGED <<txVars, outbox, log>>

-----------------------------------------------------------------------------
(* kafka-go's writer: per partition, batches are produced in order.        *)

AppendBatch(p, B) ==
  \E s \in ByCreation(B) : log' = [log EXCEPT ![p] = @ \o s]

\* A batch of an earlier call is produced, or given up, or produced without
\* the acknowledgement arriving, so that it will be produced again.
LandLate(r, p) ==
  /\ late[r][p] # <<>>
  /\ \/ /\ AppendBatch(p, Head(late[r][p]))
        /\ late' = [late EXCEPT ![r][p] = Tail(@)]
        /\ UNCHANGED faults
     \/ /\ late' = [late EXCEPT ![r][p] = Tail(@)]
        /\ Fault
        /\ UNCHANGED log
     \/ AppendBatch(p, Head(late[r][p])) /\ Fault /\ UNCHANGED late
  /\ UNCHANGED <<txVars, outbox, pc, held, batch>>

\* The batch of the current call is produced and acknowledged.
Land(r, p) ==
  /\ batch[r][p] # {}
  /\ late[r][p] = <<>>
  /\ AppendBatch(p, batch[r][p])
  /\ batch' = [batch EXCEPT ![r][p] = {}]
  /\ UNCHANGED <<txVars, outbox, pc, held, late, faults>>

\* It is produced but the acknowledgement is lost.
LandUnacknowledged(r, p) ==
  /\ Fault
  /\ batch[r][p] # {}
  /\ late[r][p] = <<>>
  /\ AppendBatch(p, batch[r][p])
  /\ UNCHANGED <<txVars, outbox, relayVars>>

\* Every one of MaxAttempts failed: WriteMessages will return an error.
GiveUp(r, p) ==
  /\ Fault
  /\ batch[r][p] # {}
  /\ late[r][p] = <<>>
  /\ batch' = [batch EXCEPT ![r][p] = {}]
  /\ pc' = [pc EXCEPT ![r] = "failing"]
  /\ UNCHANGED <<txVars, outbox, held, late, log>>

-----------------------------------------------------------------------------
Service(t) ==
  \/ Begin(t) \/ BeginNested(t) \/ ReturnNested(t) \/ StatementFails(t)
  \/ PublishFails(t) \/ Commit(t) \/ Rollback(t)
  \/ \E e \in Events : PublishStaged(t, e) \/ PublishSkipped(t, e)

Relay(r) == Fetch(r) \/ WriteDone(r) \/ Delete(r) \/ Abort(r) \/ Restart(r)

Writer(r, p) == LandLate(r, p) \/ Land(r, p) \/ LandUnacknowledged(r, p) \/ GiveUp(r, p)

Next ==
  \/ \E t \in Txns : Service(t)
  \/ \E e \in Events : PublishAlone(e)
  \/ \E r \in Relays : Relay(r)
  \/ \E r \in Relays, p \in Partitions : Writer(r, p)

Spec == Init /\ [][Next]_vars

(* Relay.Start's ticker calls ProcessBatch for ever, gorm ends every       *)
(* transaction and the writer drains its queues.  Failures are finite in   *)
(* number (MaxFaults), services owe nothing.                               *)
Fairness ==
  /\ \A r \in Relays :
       WF_vars(Fetch(r)) /\ WF_vars(WriteDone(r)) /\ WF_vars(Delete(r)) /\ WF_vars(Abort(r))
  /\ \A r \in Relays, p \in Partitions : WF_vars(LandLate(r, p)) /\ WF_vars(Land(r, p))

FairSpec == Spec /\ Fairness

-----------------------------------------------------------------------------
(* Properties.                                                             *)

Statuses == {"none", "open", "aborted", "dead", "committed", "rolledback"}

\* Every variable keeps its type: the states of transactions and relays, rows
\* and batches of events, logs of events.
TypeOK ==
  /\ status \in [Txns -> Statuses]
  /\ depth \in [Txns -> 0 .. MaxDepth]
  /\ staged \in [Txns -> SUBSET Events]
  /\ skipped \in SUBSET Events
  /\ accepted \in [Txns -> SUBSET Events]
  /\ raised \in [Txns -> BOOLEAN]
  /\ told \in [Txns -> {"none", "ok", "err"}]
  /\ auto \in SUBSET Events
  /\ createdAt \in [Events -> Nat]
  /\ preds \in [Events -> SUBSET Events]
  /\ outbox \in SUBSET Events
  /\ pc \in [Relays -> {"idle", "writing", "failing", "deleting"}]
  /\ held \in [Relays -> SUBSET Events]
  /\ batch \in [Relays -> [Partitions -> SUBSET Events]]
  /\ late \in [Relays -> [Partitions -> Seq(SUBSET Events)]]
  /\ log \in [Partitions -> Seq(Events)]
  /\ faults \in 0 .. MaxFaults

\* Messages some writer still holds.
InFlight ==
  {e \in Events : \E r \in Relays, p \in Partitions :
     \/ e \in batch[r][p]
     \/ \E i \in DOMAIN late[r][p] : e \in late[r][p][i]}

\* No phantom: what is in the table, in a writer's queue or in Kafka comes from
\* a transaction that committed (or from a write outside any), never from one
\* that is still open, was rolled back, or only left a nested WithTransaction.
NoPhantomEvent == outbox \cup InFlight \cup Published \subseteq Durable

\* No loss: an event that is durable is still a row of the outbox table or has
\* reached Kafka, whatever failed between the relay's SELECT and its COMMIT.
NoLostEvent == Durable \subseteq outbox \cup Published

\* When WithTransaction returns nil, every event whose Publish returned nil is
\* safe, except those whose INSERT failed and was swallowed by design.
PromiseKept ==
  \A t \in Txns : told[t] = "ok" => accepted[t] \subseteq outbox \cup Published \cup skipped

\* The savepoint's purpose: a Publish that returned nil leaves the caller's
\* transaction usable; an aborted one is always announced by an error.
AbortIsReported == \A t \in Txns : status[t] = "aborted" => raised[t]

\* FOR UPDATE SKIP LOCKED: the batches of two replicas never overlap, and a
\* row under a relay's lock is still in the table.
DisjointBatches ==
  /\ \A r, s \in Relays : r # s => held[r] \cap held[s] = {}
  /\ Locked \subseteq outbox

\* The relay deletes rows only when Kafka has every one of them.
PublishedBeforeDelete ==
  \A r \in Relays : pc[r] = "deleting" => held[r] \subseteq Published

\* While a relay waits for its writer, each row of its batch is either in Kafka
\* or still to be acknowledged: this is what WriteDone relies on.
BatchAccounted ==
  \A r \in Relays : pc[r] = "writing" =>
    \A e \in held[r] : e \in Published \/ \E p \in Partitions : e \in batch[r][p]

\* What a transaction's caller was told about its events is on record.
AcceptedRecorded ==
  \A t \in Txns : /\ accepted[t] \subseteq staged[t] \cup skipped
                  /\ told[t] = "ok" => status[t] = "committed"

\* Every event is one transaction's, or was published outside any.
OneOrigin ==
  \A t \in Txns : /\ staged[t] \cap auto = {}
                  /\ \A u \in Txns \ {t} : staged[t] \cap staged[u] = {}

\* A relay hands each event of its batch to one partition, and has nothing left
\* to be acknowledged when it deletes.
BatchRouted ==
  \A r \in Relays :
    /\ pc[r] \in {"idle", "deleting"} => \A p \in Partitions : batch[r][p] = {}
    /\ \A p, q \in Partitions : p # q => batch[r][p] \cap batch[r][q] = {}

\* Where an event lies in Kafka, in the queues of earlier calls and in the
\* batches that wait for an acknowledgement.
Places(e) == UNION {{p} \X {i \in DOMAIN log[p] : log[p][i] = e} : p \in Partitions}

Queued(e) ==
  UNION {{x} \X {i \in DOMAIN late[x[1]][x[2]] : e \in late[x[1]][x[2]][i]} :
           x \in Relays \X Partitions}

Batched(e) == {x \in Relays \X Partitions : e \in batch[x[1]][x[2]]}

\* A relay will still take the event to a writer, or take it there again: it is
\* not deleted, and no relay is on the way to that.
ToBeTaken(e) ==
  /\ e \notin Durable \ outbox
  /\ \A r \in Relays : e \in held[r] => pc[r] \notin {"writing", "deleting"}

\* The copies of an event in Kafka and those to be expected there, all but the
\* first, are owed to a failure each.
CopiesAccounted ==
  \A e \in Events :
    /\ IsFiniteSet(Places(e)) /\ IsFiniteSet(Queued(e)) /\ IsFiniteSet(Batched(e))
    /\ Cardinality(Places(e)) + Cardinality(Queued(e)) + Cardinality(Batched(e))
         + (IF ToBeTaken(e) THEN 1 ELSE 0)
         <= 1 + (MaxFaults - faults)

\* The inductive invariant.  NoLostEvent alone is not inductive: Delete needs
\* PublishedBeforeDelete, which needs BatchAccounted.  Nor is a bound on the
\* copies in Kafka: a queue may land long after the failure that filled it.
IInv ==
  /\ TypeOK
  /\ NoPhantomEvent
  /\ NoLostEvent
  /\ DisjointBatches
  /\ PublishedBeforeDelete
  /\ BatchAccounted
  /\ AcceptedRecorded
  /\ AbortIsReported
  /\ OneOrigin
  /\ BatchRouted
  /\ CopiesAccounted

Copies(e) == Cardinality(Places(e))

\* At-least-once is exactly once as long as nothing fails, with any number of
\* replicas: every further copy of an event is owed to a failure of its own.
DuplicatesOwedToFaults == \A e \in Events : Copies(e) <= 1 + (MaxFaults - faults)

FirstAt(p, e, i) == log[p][i] = e /\ \A j \in 1 .. i - 1 : log[p][j] # e

\* The message key is the EntityID, to "Order by EntityID": when an event of an
\* entity first appears in a partition, the events of that entity on the same
\* topic that were durable before it was created, and bear an earlier created_at,
\* are ahead of it there.  Events that clocks in disagreement stamped the other way
\* round, or alike, are promised no order.
EntityOrder ==
  \A p \in Partitions : \A i \in DOMAIN log[p] :
    FirstAt(p, log[p][i], i) =>
      \A d \in preds[log[p][i]] :
        MessageTopic(d) = PartitionTopic[p] => \E j \in 1 .. i - 1 : log[p][j] = d

\* The outbox implements the abstract promise.
Delivery == INSTANCE EventDelivery WITH durable <- Durable, delivered <- Published

ImplementsDelivery == Delivery!FairSpec

-----------------------------------------------------------------------------
(* A small instance, for TLC.  Events "a1" and "a2" are of entity "A", "b1"  *)
(* is of entity "B" and routed to A's topic by WithTopic.                    *)

LOCAL INSTANCE TLC

MCEntityOf == [e \in Events |-> IF e = "b1" THEN "B" ELSE "A"]
MCEntityType == [e \in Events |-> IF e = "b1" THEN "stops" ELSE "shipments"]
MCTopicOverride == [e \in Events |-> IF e = "b1" THEN "shipments" ELSE NoTopic]
MCPartitionTopic == [p \in Partitions |-> IF p = "s0" THEN "stops" ELSE "shipments"]

RelaySymmetry == Permutations(Relays)
=============================================================================
