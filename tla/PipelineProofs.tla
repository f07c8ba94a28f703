--------------------------- MODULE PipelineProofs ---------------------------
(***************************************************************************)
(* Proofs about Outbox, for any number of transactions, events, replicas,  *)
(* partitions and failures; about EventConsumer, for any replicas,         *)
(* partitions, messages, handlers and disruptions; and about Pipeline: the *)
(* invariants of the two hold side by side over the log they share, and    *)
(* together they say what becomes of an event between a transaction and    *)
(* the handlers.                                                           *)
(***************************************************************************)
EXTENDS Pipeline, SequenceTheorems, FiniteSetTheorems, TLAPS

-----------------------------------------------------------------------------
(* The log.                                                                *)

\* Producing a batch extends the log by exactly the batch's events.
LEMMA AppendBatchPublishes ==
  ASSUME log \in [Partitions -> Seq(Events)],
         NEW p \in Partitions, NEW B \in SUBSET Events, AppendBatch(p, B)
  PROVE  /\ log' \in [Partitions -> Seq(Events)]
         /\ Published' = Published \cup B
  <1>1. PICK s \in ByCreation(B) : log' = [log EXCEPT ![p] = @ \o s]
    BY DEF AppendBatch
  <1>2. PICK n \in 1 .. BatchSize : s \in [1 .. n -> B]
    BY <1>1 DEF ByCreation
  <1>3. \A e \in B : \E i \in DOMAIN s : s[i] = e
    BY <1>1 DEF ByCreation
  <1>4. n \in Nat
    BY OutboxAssumption DEF OutboxAssumption
  <1>5. /\ s \in Seq(Events)
        /\ Len(s) = n
    BY <1>2, <1>4
  <1>6. /\ log[p] \o s \in Seq(Events)
        /\ Len(log[p] \o s) = Len(log[p]) + n
        /\ \A i \in 1 .. Len(log[p]) : (log[p] \o s)[i] = log[p][i]
        /\ \A i \in 1 .. n : (log[p] \o s)[Len(log[p]) + i] = s[i]
    <2>1. log[p] \in Seq(Events) /\ Len(log[p]) \in Nat
      OBVIOUS
    <2>2. /\ log[p] \o s \in Seq(Events)
          /\ Len(log[p] \o s) = Len(log[p]) + n
          /\ \A i \in 1 .. Len(log[p]) + n :
               (log[p] \o s)[i] = IF i <= Len(log[p]) THEN log[p][i]
                                  ELSE s[i - Len(log[p])]
      BY <1>5, <2>1, ConcatProperties
    <2>3. QED BY <1>4, <2>1, <2>2
  <1>7. log' \in [Partitions -> Seq(Events)]
    BY <1>1, <1>6
  <1>8. ASSUME NEW e \in Published'
        PROVE  e \in Published \cup B
    <2>1. PICK q \in Partitions : \E i \in DOMAIN log'[q] : log'[q][i] = e
      BY DEF Published
    <2>i. PICK i \in DOMAIN log'[q] : log'[q][i] = e
      BY <2>1
    <2>2. CASE q # p
      BY <1>1, <2>i, <2>2 DEF Published
    <2>3. CASE q = p /\ i \in 1 .. Len(log[p])
      BY <1>1, <1>6, <2>i, <2>3 DEF Published
    <2>4. CASE q = p /\ i \notin 1 .. Len(log[p])
      <3>1. /\ i - Len(log[p]) \in 1 .. n
            /\ i = Len(log[p]) + (i - Len(log[p]))
        BY <1>1, <1>4, <1>6, <2>i, <2>4
      <3>2. e = s[i - Len(log[p])]
        BY <1>1, <1>6, <2>i, <2>4, <3>1
      <3>3. QED BY <1>2, <3>1, <3>2
    <2>5. QED BY <2>2, <2>3, <2>4
  <1>9. ASSUME NEW e \in Published
        PROVE  e \in Published'
    <2>1. PICK q \in Partitions : \E i \in DOMAIN log[q] : log[q][i] = e
      BY DEF Published
    <2>i. PICK i \in DOMAIN log[q] : log[q][i] = e
      BY <2>1
    <2>2. i \in DOMAIN log'[q] /\ log'[q][i] = e
      BY <1>1, <1>4, <1>6, <2>i
    <2>3. QED BY <2>2 DEF Published
  <1>10. ASSUME NEW e \in B
         PROVE  e \in Published'
    <2>1. PICK i \in 1 .. n : s[i] = e
      BY <1>2, <1>3
    <2>2. /\ Len(log[p]) + i \in DOMAIN log'[p]
          /\ log'[p][Len(log[p]) + i] = e
      BY <1>1, <1>4, <1>6, <2>1
    <2>3. QED BY <2>2 DEF Published
  <1>11. QED BY <1>7, <1>8, <1>9, <1>10

-----------------------------------------------------------------------------
(* Types.                                                                  *)

LEMMA InitTypeOK == Init => TypeOK
  <1> SUFFICES ASSUME Init PROVE TypeOK
    OBVIOUS
  <1>1. \A r \in Relays : late[r] \in [Partitions -> Seq(SUBSET Events)]
    BY DEF Init
  <1> QED BY <1>1, OutboxAssumption DEF Init, TypeOK, Statuses, OutboxAssumption

LEMMA FaultTyped ==
  ASSUME faults \in 0 .. MaxFaults, Fault \/ UNCHANGED faults
  PROVE  faults' \in 0 .. MaxFaults
  BY OutboxAssumption DEF OutboxAssumption, Fault

LEMMA StampTyped ==
  ASSUME TypeOK, NEW e \in Events, Durable \subseteq Events, Stamp(e)
  PROVE  /\ createdAt' \in [Events -> Nat]
         /\ preds' \in [Events -> SUBSET Events]
  <1>1. PICK now \in 1 .. MaxStamp :
          /\ createdAt' = [createdAt EXCEPT ![e] = now]
          /\ preds' = [preds EXCEPT ![e] = {d \in Durable : /\ EntityOf[d] = EntityOf[e]
                                                           /\ createdAt[d] < now}]
    BY DEF Stamp
  <1>2. now \in Nat
    OBVIOUS
  <1>3. QED BY <1>1, <1>2 DEF TypeOK

LEMMA ServiceTypeOK ==
  ASSUME TypeOK, NEW t \in Txns, Service(t)
  PROVE  TypeOK'
  <1> USE OutboxAssumption DEF OutboxAssumption, TypeOK, Statuses, Live, Fault, relayVars
  <1>1. CASE Begin(t) BY <1>1 DEF Begin
  <1>2. CASE BeginNested(t) BY <1>2 DEF BeginNested
  <1>3. CASE ReturnNested(t) BY <1>3 DEF ReturnNested
  <1>4. CASE StatementFails(t) BY <1>4 DEF StatementFails
  <1>5. CASE PublishFails(t)
    <2>1. faults' \in 0 .. MaxFaults
      BY <1>5, FaultTyped DEF PublishFails
    <2>2. status' \in [Txns -> Statuses]
      BY <1>5 DEF PublishFails
    <2>3. raised' \in [Txns -> BOOLEAN]
      BY <1>5 DEF PublishFails
    <2>4. QED BY <1>5, <2>1, <2>2, <2>3 DEF PublishFails
  <1>6. CASE Commit(t)
    <2>1. faults' \in 0 .. MaxFaults
      BY <1>6, FaultTyped DEF Commit
    <2>2. told' \in [Txns -> {"none", "ok", "err"}]
      BY <1>6 DEF Commit
    <2>3. status' \in [Txns -> Statuses] /\ depth' \in [Txns -> 0 .. MaxDepth]
      BY <1>6 DEF Commit
    <2>4. outbox' \in SUBSET Events
      BY <1>6 DEF Commit
    <2>5. QED BY <1>6, <2>1, <2>2, <2>3, <2>4 DEF Commit
  <1>7. CASE Rollback(t) BY <1>7 DEF Rollback
  <1>8. ASSUME NEW e \in Events, PublishStaged(t, e) PROVE TypeOK'
    <2>1. Durable \subseteq Events
      BY DEF Durable
    <2>2. faults' \in 0 .. MaxFaults
      BY <1>8, FaultTyped DEF PublishStaged
    <2>3. status' \in [Txns -> Statuses]
      BY <1>8 DEF PublishStaged
    <2>4. /\ createdAt' \in [Events -> Nat]
           /\ preds' \in [Events -> SUBSET Events]
      BY <1>8, <2>1, StampTyped DEF PublishStaged
    <2>5. staged' \in [Txns -> SUBSET Events] /\ accepted' \in [Txns -> SUBSET Events]
      BY <1>8 DEF PublishStaged
    <2>6. QED BY <1>8, <2>2, <2>3, <2>4, <2>5 DEF PublishStaged
  <1>9. ASSUME NEW e \in Events, PublishSkipped(t, e) PROVE TypeOK'
    BY <1>9 DEF PublishSkipped
  <1>10. QED BY <1>1, <1>2, <1>3, <1>4, <1>5, <1>6, <1>7, <1>8, <1>9 DEF Service

LEMMA AloneTypeOK ==
  ASSUME TypeOK, NEW e \in Events, PublishAlone(e)
  PROVE  TypeOK'
  <1>1. Durable \subseteq Events
    BY DEF Durable, TypeOK
  <1>2. /\ createdAt' \in [Events -> Nat]
        /\ preds' \in [Events -> SUBSET Events]
    BY <1>1, StampTyped DEF PublishAlone
  <1>3. QED BY <1>1, <1>2 DEF TypeOK, PublishAlone, relayVars

LEMMA RelayTypeOK ==
  ASSUME TypeOK, NEW r \in Relays, Relay(r)
  PROVE  TypeOK'
  <1> USE OutboxAssumption DEF OutboxAssumption, TypeOK, Fault, txVars
  <1>1. CASE Fetch(r)
    <2>1. PICK B \in PendingBatches \ {{}} :
            /\ held' = [held EXCEPT ![r] = B]
            /\ \E f \in Routings(B) :
                 batch' = [batch EXCEPT ![r] = [p \in Partitions |-> {e \in B : f[e] = p}]]
      BY <1>1 DEF Fetch
    <2>2. B \in SUBSET Events
      BY <2>1 DEF PendingBatches
    <2>3. held' \in [Relays -> SUBSET Events]
      BY <2>1, <2>2
    <2>4. batch' \in [Relays -> [Partitions -> SUBSET Events]]
      BY <2>1, <2>2
    <2>5. QED BY <1>1, <2>3, <2>4 DEF Fetch
  <1>2. CASE WriteDone(r) BY <1>2 DEF WriteDone
  <1>3. CASE Delete(r) BY <1>3 DEF Delete
  <1>4. CASE Abort(r)
    <2>1. late' \in [Relays -> [Partitions -> Seq(SUBSET Events)]]
      <3>1. \A p \in Partitions : Append(late[r][p], batch[r][p]) \in Seq(SUBSET Events)
        BY AppendProperties
      <3>2. QED BY <1>4, <3>1 DEF Abort
    <2>2. QED BY <1>4, <2>1 DEF Abort
  <1>5. CASE Restart(r)
    <2>1. late' \in [Relays -> [Partitions -> Seq(SUBSET Events)]]
      BY <1>5 DEF Restart
    <2>2. QED BY <1>5, <2>1 DEF Restart
  <1>6. QED BY <1>1, <1>2, <1>3, <1>4, <1>5 DEF Relay

LEMMA WriterTypeOK ==
  ASSUME TypeOK, NEW r \in Relays, NEW p \in Partitions, Writer(r, p)
  PROVE  TypeOK'
  <1> USE DEF TypeOK, Fault, txVars, relayVars
  <1>1. CASE LandLate(r, p)
    <2>1. /\ Head(late[r][p]) \in SUBSET Events
          /\ Tail(late[r][p]) \in Seq(SUBSET Events)
      BY <1>1, HeadTailProperties DEF LandLate
    <2>2. late' \in [Relays -> [Partitions -> Seq(SUBSET Events)]]
      <3>1. CASE UNCHANGED late BY <3>1
      <3>2. CASE late' = [late EXCEPT ![r][p] = Tail(@)] BY <2>1, <3>2
      <3>3. QED BY <1>1, <3>1, <3>2 DEF LandLate
    <2>3. log' \in [Partitions -> Seq(Events)]
      BY <1>1, <2>1, AppendBatchPublishes DEF LandLate
    <2>4. faults' \in 0 .. MaxFaults
      BY <1>1, FaultTyped DEF LandLate
    <2>5. QED BY <1>1, <2>2, <2>3, <2>4 DEF LandLate
  <1>2. CASE Land(r, p)
    <2>1. log' \in [Partitions -> Seq(Events)]
      BY <1>2, AppendBatchPublishes DEF Land
    <2>2. QED BY <1>2, <2>1 DEF Land
  <1>3. CASE LandUnacknowledged(r, p)
    <2>1. log' \in [Partitions -> Seq(Events)]
      BY <1>3, AppendBatchPublishes DEF LandUnacknowledged
    <2>2. faults' \in 0 .. MaxFaults
      BY <1>3, FaultTyped DEF LandUnacknowledged
    <2>3. QED BY <1>3, <2>1, <2>2 DEF LandUnacknowledged
  <1>4. CASE GiveUp(r, p)
    <2>1. faults' \in 0 .. MaxFaults
      BY <1>4, FaultTyped DEF GiveUp
    <2>2. batch' \in [Relays -> [Partitions -> SUBSET Events]]
      BY <1>4 DEF GiveUp
    <2>3. QED BY <1>4, <2>1, <2>2 DEF GiveUp
  <1>5. QED BY <1>1, <1>2, <1>3, <1>4 DEF Writer

LEMMA NextTypeOK == TypeOK /\ [Next]_vars => TypeOK'
  <1> SUFFICES ASSUME TypeOK, [Next]_vars PROVE TypeOK'
    OBVIOUS
  <1>1. CASE UNCHANGED vars
    BY <1>1 DEF TypeOK, vars, txVars, relayVars
  <1>2. CASE Next
    BY <1>2, ServiceTypeOK, AloneTypeOK, RelayTypeOK, WriterTypeOK DEF Next
  <1>3. QED BY <1>1, <1>2

\* Every reachable state is well typed.
THEOREM TypeCorrect == Spec => []TypeOK
  BY InitTypeOK, NextTypeOK, PTL DEF Spec

-----------------------------------------------------------------------------
(* Services.                                                               *)

\* A transaction that is not committed before or after a step does not change
\* what is durable.
LEMMA UncommittedDurable ==
  ASSUME TypeOK, NEW t \in Txns,
         status[t] # "committed", status'[t] # "committed", auto' = auto,
         \A u \in Txns \ {t} : status'[u] = status[u] /\ staged'[u] = staged[u]
  PROVE  Durable' = Durable
  <1>1. {u \in Txns : status'[u] = "committed"} = {u \in Txns : status[u] = "committed"}
    OBVIOUS
  <1>2. \A u \in Txns : status[u] = "committed" => staged'[u] = staged[u]
    OBVIOUS
  <1>3. QED BY <1>1, <1>2 DEF Durable

\* The parts of the invariant that speak about the table, the relays and Kafka.
RelaySide ==
  NoPhantomEvent /\ NoLostEvent /\ DisjointBatches /\ PublishedBeforeDelete /\ BatchAccounted

LEMMA RelaySideUnchanged ==
  ASSUME RelaySide, Durable' = Durable, UNCHANGED <<outbox, relayVars, log>>
  PROVE  RelaySide'
  <1>1. Published' = Published /\ InFlight' = InFlight /\ Locked' = Locked
    BY DEF Published, InFlight, Locked, relayVars
  <1>2. QED
    BY <1>1 DEF RelaySide, NoPhantomEvent, NoLostEvent, DisjointBatches,
                PublishedBeforeDelete, BatchAccounted, relayVars

LEMMA ServiceIInv ==
  ASSUME IInv, NEW t \in Txns, Service(t)
  PROVE  RelaySide' /\ AcceptedRecorded' /\ AbortIsReported'
  <1> USE DEF IInv, TypeOK, Statuses, Live
  <1>0. RelaySide
    BY DEF RelaySide
  <1>1. CASE Begin(t)
    <2>1. Durable' = Durable
      BY <1>1, UncommittedDurable DEF Begin
    <2>2. QED
      BY <1>0, <1>1, <2>1, RelaySideUnchanged DEF Begin, AcceptedRecorded, AbortIsReported
  <1>2. CASE BeginNested(t)
    <2>1. Durable' = Durable
      BY <1>2 DEF BeginNested, Durable
    <2>2. QED
      BY <1>0, <1>2, <2>1, RelaySideUnchanged
      DEF BeginNested, AcceptedRecorded, AbortIsReported
  <1>3. CASE ReturnNested(t)
    <2>1. Durable' = Durable
      BY <1>3 DEF ReturnNested, Durable
    <2>2. \A u \in Txns : raised[u] => raised'[u]
      BY <1>3 DEF ReturnNested
    <2>3. QED
      BY <1>0, <1>3, <2>1, <2>2, RelaySideUnchanged
      DEF ReturnNested, AcceptedRecorded, AbortIsReported
  <1>4. CASE StatementFails(t)
    <2>1. Durable' = Durable
      BY <1>4, UncommittedDurable DEF StatementFails
    <2>2. AcceptedRecorded' /\ AbortIsReported'
      BY <1>4 DEF StatementFails, AcceptedRecorded, AbortIsReported
    <2>3. QED
      BY <1>0, <1>4, <2>1, <2>2, RelaySideUnchanged DEF StatementFails
  <1>5. CASE PublishFails(t)
    <2>1. Durable' = Durable
      BY <1>5, UncommittedDurable DEF PublishFails
    <2>2. AcceptedRecorded' /\ AbortIsReported'
      BY <1>5 DEF PublishFails, AcceptedRecorded, AbortIsReported
    <2>3. QED
      BY <1>0, <1>5, <2>1, <2>2, RelaySideUnchanged DEF PublishFails
  <1>6. CASE Commit(t)
    <2>1. Durable' = Durable \cup staged[t]
      BY <1>6 DEF Commit, Durable
    <2>2. Published' = Published /\ InFlight' = InFlight /\ Locked' = Locked
      BY <1>6 DEF Commit, Published, InFlight, Locked, relayVars
    <2>3. RelaySide'
      BY <1>0, <1>6, <2>1, <2>2
      DEF Commit, RelaySide, NoPhantomEvent, NoLostEvent, DisjointBatches,
          PublishedBeforeDelete, BatchAccounted, relayVars
    <2>4. AcceptedRecorded' /\ AbortIsReported'
      BY <1>6 DEF Commit, AcceptedRecorded, AbortIsReported
    <2>5. QED BY <2>3, <2>4
  <1>7. CASE Rollback(t)
    <2>1. Durable' = Durable
      BY <1>7, UncommittedDurable DEF Rollback
    <2>2. AcceptedRecorded' /\ AbortIsReported'
      BY <1>7 DEF Rollback, AcceptedRecorded, AbortIsReported
    <2>3. QED
      BY <1>0, <1>7, <2>1, <2>2, RelaySideUnchanged DEF Rollback
  <1>8. ASSUME NEW e \in Events, PublishStaged(t, e)
        PROVE  RelaySide' /\ AcceptedRecorded' /\ AbortIsReported'
    <2>1. Durable' = Durable
      BY <1>8, UncommittedDurable DEF PublishStaged
    <2>2. AcceptedRecorded' /\ AbortIsReported'
      BY <1>8 DEF PublishStaged, AcceptedRecorded, AbortIsReported
    <2>3. QED
      BY <1>0, <1>8, <2>1, <2>2, RelaySideUnchanged DEF PublishStaged
  <1>9. ASSUME NEW e \in Events, PublishSkipped(t, e)
        PROVE  RelaySide' /\ AcceptedRecorded' /\ AbortIsReported'
    <2>1. Durable' = Durable
      BY <1>9 DEF PublishSkipped, Durable
    <2>2. AcceptedRecorded' /\ AbortIsReported'
      BY <1>9 DEF PublishSkipped, AcceptedRecorded, AbortIsReported
    <2>3. QED
      BY <1>0, <1>9, <2>1, <2>2, RelaySideUnchanged DEF PublishSkipped
  <1>10. QED BY <1>1, <1>2, <1>3, <1>4, <1>5, <1>6, <1>7, <1>8, <1>9 DEF Service

LEMMA AloneIInv ==
  ASSUME IInv, NEW e \in Events, PublishAlone(e)
  PROVE  RelaySide' /\ AcceptedRecorded' /\ AbortIsReported'
  <1>1. Durable' = Durable \cup {e}
    BY DEF PublishAlone, Durable
  <1>2. Published' = Published /\ InFlight' = InFlight /\ Locked' = Locked
    BY DEF PublishAlone, Published, InFlight, Locked, relayVars
  <1>3. RelaySide'
    BY <1>1, <1>2
    DEF PublishAlone, IInv, RelaySide, NoPhantomEvent, NoLostEvent, DisjointBatches,
        PublishedBeforeDelete, BatchAccounted, relayVars
  <1>4. QED
    BY <1>3 DEF PublishAlone, IInv, AcceptedRecorded, AbortIsReported

-----------------------------------------------------------------------------
(* Relays and their writers: they touch no transaction.                    *)

LEMMA TxnSideUnchanged ==
  ASSUME IInv, UNCHANGED txVars
  PROVE  Durable' = Durable /\ AcceptedRecorded' /\ AbortIsReported'
  BY DEF IInv, txVars, Durable, AcceptedRecorded, AbortIsReported

LEMMA RelayIInv ==
  ASSUME IInv, NEW r \in Relays, Relay(r)
  PROVE  RelaySide'
  <1> USE DEF IInv, TypeOK, RelaySide
  <1>0. Durable' = Durable /\ Published' = Published
    <2>1. UNCHANGED <<txVars, log>>
      BY DEF Relay, Fetch, WriteDone, Delete, Abort, Restart
    <2>2. QED BY <2>1, TxnSideUnchanged DEF Published
  <1>1. CASE Fetch(r)
    <2>1. PICK B \in PendingBatches \ {{}} :
            /\ held' = [held EXCEPT ![r] = B]
            /\ \E f \in Routings(B) :
                 batch' = [batch EXCEPT ![r] = [p \in Partitions |-> {e \in B : f[e] = p}]]
      BY <1>1 DEF Fetch
    <2>2. PICK f \in Routings(B) :
            batch' = [batch EXCEPT ![r] = [p \in Partitions |-> {e \in B : f[e] = p}]]
      BY <2>1
    <2>3. B \subseteq outbox \ Locked
      BY DEF PendingBatches
    <2>4. InFlight' \subseteq InFlight \cup B
      BY <1>1, <2>2 DEF InFlight, Fetch
    <2>5. NoPhantomEvent' /\ NoLostEvent'
      BY <1>0, <1>1, <2>3, <2>4 DEF NoPhantomEvent, NoLostEvent, Fetch
    <2>6. DisjointBatches'
      <3>1. \A s \in Relays : s # r => held'[s] = held[s] /\ held[s] \cap B = {}
        BY <2>1, <2>3 DEF Locked
      <3>2. held'[r] = B
        BY <2>1
      <3>3. Locked' \subseteq outbox'
        BY <1>1, <2>3, <3>1, <3>2 DEF DisjointBatches, Locked, Fetch
      <3>4. QED BY <3>1, <3>2, <3>3 DEF DisjointBatches
    <2>7. PublishedBeforeDelete'
      BY <1>0, <1>1, <2>1 DEF PublishedBeforeDelete, Fetch
    <2>8. BatchAccounted'
      <3>1. ASSUME NEW e \in held'[r]
            PROVE  \E p \in Partitions : e \in batch'[r][p]
        <4>1. e \in B /\ f[e] \in Partitions
          BY <2>1, <3>1 DEF Routings
        <4>2. e \in batch'[r][f[e]]
          BY <2>2, <4>1
        <4>3. QED BY <4>1, <4>2
      <3>2. ASSUME NEW s \in Relays, s # r
            PROVE  pc'[s] = pc[s] /\ held'[s] = held[s] /\ batch'[s] = batch[s]
        BY <1>1, <2>1, <2>2, <3>2 DEF Fetch
      <3>3. QED BY <1>0, <3>1, <3>2 DEF BatchAccounted
    <2>9. QED BY <2>5, <2>6, <2>7, <2>8
  <1>2. CASE WriteDone(r)
    <2>1. InFlight' = InFlight /\ Locked' = Locked
      BY <1>2 DEF WriteDone, InFlight, Locked
    <2>2. held[r] \subseteq Published
      BY <1>2 DEF WriteDone, BatchAccounted
    <2>3. QED
      BY <1>0, <1>2, <2>1, <2>2
      DEF WriteDone, NoPhantomEvent, NoLostEvent, DisjointBatches, PublishedBeforeDelete,
          BatchAccounted
  <1>3. CASE Delete(r)
    <2>1. InFlight' = InFlight
      BY <1>3 DEF Delete, InFlight
    <2>2. held[r] \subseteq Published
      BY <1>3 DEF Delete, PublishedBeforeDelete
    <2>3. NoPhantomEvent' /\ NoLostEvent'
      BY <1>0, <1>3, <2>1, <2>2 DEF Delete, NoPhantomEvent, NoLostEvent
    <2>4. DisjointBatches'
      BY <1>3 DEF Delete, DisjointBatches, Locked
    <2>5. PublishedBeforeDelete' /\ BatchAccounted'
      BY <1>0, <1>3 DEF Delete, PublishedBeforeDelete, BatchAccounted
    <2>6. QED BY <2>3, <2>4, <2>5
  <1>4. CASE Abort(r)
    <2>1. InFlight' \subseteq InFlight
      <3>1. ASSUME NEW e \in Events, NEW p \in Partitions,
                   \E i \in DOMAIN late'[r][p] : e \in late'[r][p][i]
            PROVE  e \in InFlight
        <4>1. late'[r][p] = IF batch[r][p] = {} THEN late[r][p]
                            ELSE Append(late[r][p], batch[r][p])
          BY <1>4 DEF Abort
        <4>2. CASE batch[r][p] = {}
          BY <3>1, <4>1, <4>2 DEF InFlight
        <4>3. CASE batch[r][p] # {}
          <5>1. PICK i \in DOMAIN late'[r][p] : e \in late'[r][p][i]
            BY <3>1
          <5>2. /\ late[r][p] \in Seq(SUBSET Events)
                /\ batch[r][p] \in SUBSET Events
            OBVIOUS
          <5>3. i \in 1 .. Len(late[r][p]) \/ e \in batch[r][p]
            BY <4>1, <4>3, <5>1, <5>2, AppendProperties
          <5>4. CASE e \in batch[r][p]
            BY <5>4 DEF InFlight
          <5>5. CASE i \in 1 .. Len(late[r][p])
            BY <4>1, <4>3, <5>1, <5>2, <5>5, AppendProperties DEF InFlight
          <5>6. QED BY <5>3, <5>4, <5>5
        <4>4. QED BY <4>2, <4>3
      <3>2. \A s \in Relays, p \in Partitions :
              /\ batch'[s][p] \subseteq batch[s][p]
              /\ s # r => late'[s][p] = late[s][p]
        BY <1>4 DEF Abort
      <3>3. QED BY <3>1, <3>2 DEF InFlight
    <2>2. NoPhantomEvent' /\ NoLostEvent'
      BY <1>0, <1>4, <2>1 DEF Abort, NoPhantomEvent, NoLostEvent
    <2>3. DisjointBatches'
      BY <1>4 DEF Abort, DisjointBatches, Locked
    <2>4. PublishedBeforeDelete' /\ BatchAccounted'
      BY <1>0, <1>4 DEF Abort, PublishedBeforeDelete, BatchAccounted
    <2>5. QED BY <2>2, <2>3, <2>4
  <1>5. CASE Restart(r)
    <2>1. InFlight' \subseteq InFlight
      BY <1>5 DEF Restart, InFlight
    <2>2. NoPhantomEvent' /\ NoLostEvent'
      BY <1>0, <1>5, <2>1 DEF Restart, NoPhantomEvent, NoLostEvent
    <2>3. DisjointBatches'
      BY <1>5 DEF Restart, DisjointBatches, Locked
    <2>4. PublishedBeforeDelete' /\ BatchAccounted'
      BY <1>0, <1>5 DEF Restart, PublishedBeforeDelete, BatchAccounted
    <2>5. QED BY <2>2, <2>3, <2>4
  <1>6. QED BY <1>1, <1>2, <1>3, <1>4, <1>5 DEF Relay

\* What a writer does to Kafka: nothing, or it appends events it has in flight.
LEMMA WriterPublishes ==
  ASSUME TypeOK, NEW r \in Relays, NEW p \in Partitions, Writer(r, p)
  PROVE  Published \subseteq Published' /\ Published' \subseteq Published \cup InFlight
  <1>0. log \in [Partitions -> Seq(Events)] /\ p \in Partitions
    BY DEF TypeOK
  <1> USE DEF TypeOK
  <1>1. CASE LandLate(r, p)
    <2>1. Head(late[r][p]) \in SUBSET Events /\ Head(late[r][p]) \subseteq InFlight
      <3>1. late[r][p] \in Seq(SUBSET Events) /\ late[r][p] # <<>>
        BY <1>1 DEF LandLate
      <3>2. Head(late[r][p]) = late[r][p][1] /\ 1 \in DOMAIN late[r][p]
        BY <3>1
      <3>3. Head(late[r][p]) \in SUBSET Events
        BY <3>1, HeadTailProperties
      <3>4. QED BY <3>2, <3>3 DEF InFlight
    <2>2. CASE UNCHANGED log
      BY <2>2 DEF Published
    <2>3. CASE AppendBatch(p, Head(late[r][p]))
      <3>1. Published' = Published \cup Head(late[r][p])
        BY ONLY <1>0, <2>1, <2>3, AppendBatchPublishes
      <3>2. QED BY <2>1, <3>1
    <2>4. QED BY <1>1, <2>2, <2>3 DEF LandLate
  <1>2. CASE Land(r, p) \/ LandUnacknowledged(r, p)
    <2>1. batch[r][p] \in SUBSET Events /\ batch[r][p] \subseteq InFlight
      BY DEF InFlight
    <2>2. AppendBatch(p, batch[r][p])
      BY <1>2 DEF Land, LandUnacknowledged
    <2>3. Published' = Published \cup batch[r][p]
      BY ONLY <1>0, <2>1, <2>2, AppendBatchPublishes
    <2>4. QED BY <2>1, <2>3
  <1>3. CASE GiveUp(r, p)
    BY <1>3 DEF GiveUp, Published
  <1>4. QED BY <1>1, <1>2, <1>3 DEF Writer

LEMMA WriterIInv ==
  ASSUME IInv, NEW r \in Relays, NEW p \in Partitions, Writer(r, p)
  PROVE  RelaySide'
  <1> USE DEF IInv, TypeOK, RelaySide
  <1>1. /\ UNCHANGED <<txVars, outbox, held>>
        /\ Durable' = Durable
        /\ Published \subseteq Published'
        /\ Published' \subseteq Published \cup InFlight
    <2>1. UNCHANGED <<txVars, outbox, held>>
      BY DEF Writer, LandLate, Land, LandUnacknowledged, GiveUp, relayVars
    <2>2. QED BY <2>1, TxnSideUnchanged, WriterPublishes
  <1>2. InFlight' \subseteq InFlight
    <2>1. CASE LandLate(r, p)
      <3>1. batch' = batch
        BY <2>1 DEF LandLate
      <3>2. CASE UNCHANGED late
        BY <3>1, <3>2 DEF InFlight
      <3>3. CASE late' = [late EXCEPT ![r][p] = Tail(@)]
        <4>1. late[r][p] \in Seq(SUBSET Events) /\ late[r][p] # <<>>
          BY <2>1 DEF LandLate
        <4>2. \A i \in DOMAIN Tail(late[r][p]) :
                i + 1 \in DOMAIN late[r][p] /\ Tail(late[r][p])[i] = late[r][p][i + 1]
          BY <4>1, HeadTailProperties
        <4>3. \A s \in Relays, q \in Partitions :
                late'[s][q] = IF s = r /\ q = p THEN Tail(late[r][p]) ELSE late[s][q]
          BY <3>3
        <4>4. ASSUME NEW s \in Relays, NEW q \in Partitions, NEW e \in Events,
                     \E i \in DOMAIN late'[s][q] : e \in late'[s][q][i]
              PROVE  \E i \in DOMAIN late[s][q] : e \in late[s][q][i]
          BY <4>2, <4>3, <4>4
        <4>5. ASSUME NEW e \in InFlight'
              PROVE  e \in InFlight
          <5>1. PICK s \in Relays : \E q \in Partitions :
                  \/ e \in batch'[s][q]
                  \/ \E i \in DOMAIN late'[s][q] : e \in late'[s][q][i]
            BY DEF InFlight
          <5>2. QED BY <3>1, <4>4, <5>1 DEF InFlight
        <4>6. QED BY <4>5
      <3>4. QED BY <2>1, <3>2, <3>3 DEF LandLate
    <2>2. CASE Land(r, p) \/ LandUnacknowledged(r, p) \/ GiveUp(r, p)
      <3>1. late' = late
        BY <2>2 DEF Land, LandUnacknowledged, GiveUp, relayVars
      <3>2. batch' = batch \/ batch' = [batch EXCEPT ![r][p] = {}]
        BY <2>2 DEF Land, LandUnacknowledged, GiveUp, relayVars
      <3>3. CASE batch' = batch
        BY <3>1, <3>3 DEF InFlight
      <3>4. CASE batch' = [batch EXCEPT ![r][p] = {}]
        <4>1. \A s \in Relays, q \in Partitions : batch'[s][q] \subseteq batch[s][q]
          BY <3>4
        <4>2. QED BY <3>1, <4>1 DEF InFlight
      <3>5. QED BY <3>2, <3>3, <3>4
    <2>3. QED BY <2>1, <2>2 DEF Writer
  <1>3. NoPhantomEvent' /\ NoLostEvent' /\ DisjointBatches'
    BY <1>1, <1>2 DEF NoPhantomEvent, NoLostEvent, DisjointBatches, Locked
  <1>4. PublishedBeforeDelete'
    <2>1. \A s \in Relays : pc'[s] = "deleting" => pc[s] = "deleting"
      BY DEF Writer, LandLate, Land, LandUnacknowledged, GiveUp, relayVars
    <2>2. QED BY <1>1, <2>1 DEF PublishedBeforeDelete
  <1>5. BatchAccounted'
    <2>1. CASE Land(r, p)
      <3>1. batch[r][p] \subseteq Published'
        <4>1. batch[r][p] \in SUBSET Events /\ AppendBatch(p, batch[r][p])
          BY <2>1 DEF Land
        <4>2. QED BY <4>1, AppendBatchPublishes, ZenonT(40)
      <3>2. \A s \in Relays, q \in Partitions :
              batch'[s][q] = IF s = r /\ q = p THEN {} ELSE batch[s][q]
        BY <2>1 DEF Land
      <3>3. QED BY <1>1, <2>1, <3>1, <3>2 DEF Land, BatchAccounted
    <2>2. CASE GiveUp(r, p)
      BY <1>1, <2>2 DEF GiveUp, BatchAccounted
    <2>3. CASE LandLate(r, p) \/ LandUnacknowledged(r, p)
      BY <1>1, <2>3 DEF LandLate, LandUnacknowledged, relayVars, BatchAccounted
    <2>4. QED BY <2>1, <2>2, <2>3 DEF Writer
  <1>6. QED BY <1>3, <1>4, <1>5

-----------------------------------------------------------------------------
(* Copies.                                                                 *)

LEMMA AddOne ==
  ASSUME NEW S, NEW x, IsFiniteSet(S)
  PROVE  /\ IsFiniteSet(S \cup {x})
         /\ Cardinality(S) \in Nat /\ Cardinality(S \cup {x}) \in Nat
         /\ Cardinality(S \cup {x}) <= Cardinality(S) + 1
  <1>1. Cardinality(S) \in Nat
    BY FS_CardinalityType
  <1>2. QED BY <1>1, FS_AddElement

LEMMA OneMore ==
  ASSUME NEW S, NEW T, NEW x, IsFiniteSet(S), T \subseteq S \cup {x}
  PROVE  IsFiniteSet(T) /\ Cardinality(T) \in Nat /\ Cardinality(T) <= Cardinality(S) + 1
  <1>1. IsFiniteSet(T) /\ Cardinality(T) <= Cardinality(S \cup {x})
    BY AddOne, FS_Subset
  <1>2. Cardinality(T) \in Nat
    BY <1>1, FS_CardinalityType
  <1>3. /\ Cardinality(S) \in Nat /\ Cardinality(S \cup {x}) \in Nat
        /\ Cardinality(S \cup {x}) <= Cardinality(S) + 1
    BY AddOne
  <1>4. QED BY <1>1, <1>2, <1>3

LEMMA OneLess ==
  ASSUME NEW S, NEW T, NEW x, IsFiniteSet(S), T = S \ {x}
  PROVE  /\ IsFiniteSet(T)
         /\ Cardinality(T) = IF x \in S THEN Cardinality(S) - 1 ELSE Cardinality(S)
  BY FS_RemoveElement

LEMMA PlacesAre ==
  ASSUME NEW e
  PROVE  \A x : x \in Places(e) <=>
                  \E p \in Partitions : \E i \in DOMAIN log[p] : log[p][i] = e /\ x = <<p, i>>
  BY DEF Places

LEMMA QueuedAre ==
  ASSUME NEW e
  PROVE  \A x : x \in Queued(e) <=>
                  \E r \in Relays, p \in Partitions : \E i \in DOMAIN late[r][p] :
                    e \in late[r][p][i] /\ x = <<<<r, p>>, i>>
  BY DEF Queued

\* A batch that is produced adds one copy of each of its events and of no other.
LEMMA AppendPlaces ==
  ASSUME TypeOK, NEW p \in Partitions, NEW B \in SUBSET Events, AppendBatch(p, B),
         NEW e \in Events, IsFiniteSet(Places(e))
  PROVE  /\ IsFiniteSet(Places(e)')
         /\ Cardinality(Places(e)') <= Cardinality(Places(e)) + (IF e \in B THEN 1 ELSE 0)
  <1>1. PICK s \in ByCreation(B) : log' = [log EXCEPT ![p] = log[p] \o s]
    BY DEF AppendBatch
  <1>2. PICK n \in 1 .. BatchSize : s \in [1 .. n -> B]
    BY <1>1 DEF ByCreation
  <1>3. \A i, j \in 1 .. n : i < j => s[i] # s[j]
    BY <1>1, <1>2 DEF ByCreation
  <1>4. n \in Nat
    BY OutboxAssumption DEF OutboxAssumption
  <1>5. log \in [Partitions -> Seq(Events)] /\ log[p] \in Seq(Events) /\ Len(log[p]) \in Nat
    BY LenProperties DEF TypeOK
  <1> DEFINE L == Len(log[p])
  <1>6. /\ DOMAIN log[p] = 1 .. L /\ DOMAIN log'[p] = 1 .. (L + n)
        /\ \A i \in 1 .. (L + n) : log'[p][i] = IF i <= L THEN log[p][i] ELSE s[i - L]
    <2>1. s \in Seq(Events) /\ Len(s) = n
      BY <1>2, <1>4
    <2>2. /\ log[p] \o s \in Seq(Events)
          /\ Len(log[p] \o s) = L + n
          /\ \A i \in 1 .. (L + n) : (log[p] \o s)[i] = IF i <= L THEN log[p][i] ELSE s[i - L]
      BY <1>5, <2>1, ConcatProperties
    <2>3. log'[p] = log[p] \o s
      BY <1>1, <1>5
    <2>4. QED BY <1>5, <2>2, <2>3, LenProperties
  <1>7. \A q \in Partitions \ {p} : log'[q] = log[q]
    BY <1>1, <1>5
  <1>8. \A i, j \in 1 .. n : s[i] = s[j] => i = j
    BY <1>3, <1>4
  <1>9. PICK k : \A i \in 1 .. n : s[i] = e => i = k /\ e \in B
    <2>1. CASE \E j \in 1 .. n : s[j] = e
      <3>1. PICK j \in 1 .. n : s[j] = e
        BY <2>1
      <3>2. \A i \in 1 .. n : s[i] = e => i = j /\ e \in B
        BY <1>2, <1>8, <3>1
      <3>3. QED BY <3>2
    <2>2. CASE ~ \E j \in 1 .. n : s[j] = e
      BY <2>2
    <2>3. QED BY <2>1, <2>2
  <1>10. ASSUME NEW x \in Places(e)'
         PROVE  x \in Places(e) \/ (x = <<p, L + k>> /\ e \in B)
    <2>1. PICK q, i : /\ q \in Partitions /\ i \in DOMAIN log'[q]
                     /\ log'[q][i] = e /\ x = <<q, i>>
      BY PlacesAre DEF Places
    <2>2. CASE q # p
      BY <1>7, <2>1, <2>2, PlacesAre
    <2>3. CASE q = p /\ i <= L
      <3>1. i \in 1 .. L
        BY <1>5, <1>6, <2>1, <2>3
      <3>2. i \in DOMAIN log[p] /\ log[p][i] = e
        BY <1>6, <2>1, <2>3, <3>1
      <3>3. QED BY <2>1, <2>3, <3>2, PlacesAre
    <2>4. CASE q = p /\ ~ (i <= L)
      <3>1. i \in 1 .. (L + n) /\ i - L \in 1 .. n
        BY <1>4, <1>5, <1>6, <2>1, <2>4
      <3>2. s[i - L] = e
        BY <1>6, <2>1, <2>4, <3>1
      <3>3. k = i - L /\ e \in B
        BY <1>9, <3>1, <3>2
      <3>4. i = L + k
        BY <1>4, <1>5, <3>1, <3>3
      <3>5. QED BY <2>1, <2>4, <3>3, <3>4
    <2>5. QED BY <2>2, <2>3, <2>4
  <1> HIDE DEF L
  <1>11. CASE e \in B
    <2>1. Places(e)' \subseteq Places(e) \cup {<<p, L + k>>}
      BY <1>10
    <2>2. QED BY <1>11, <2>1, OneMore
  <1>12. CASE e \notin B
    <2>1. Places(e)' \subseteq Places(e)
      BY <1>10, <1>12
    <2>2. /\ IsFiniteSet(Places(e)') /\ Cardinality(Places(e)) \in Nat
          /\ Cardinality(Places(e)') \in Nat
          /\ Cardinality(Places(e)') <= Cardinality(Places(e))
      BY <2>1, FS_Subset, FS_CardinalityType
    <2>3. QED BY <1>12, <2>2
  <1>13. QED BY <1>11, <1>12

\* The first batch leaves a queue.
LEMMA TailQueued ==
  ASSUME TypeOK, NEW r \in Relays, NEW p \in Partitions, late[r][p] # <<>>,
         late' = [late EXCEPT ![r][p] = Tail(@)], NEW e \in Events, IsFiniteSet(Queued(e))
  PROVE  /\ IsFiniteSet(Queued(e)')
         /\ Cardinality(Queued(e)') + (IF e \in Head(late[r][p]) THEN 1 ELSE 0)
              <= Cardinality(Queued(e))
  <1> DEFINE first == <<<<r, p>>, 1>>
             Rest == Queued(e) \ {first}
             f == [x \in Queued(e)' |-> IF x[1] = <<r, p>> THEN <<x[1], x[2] + 1>> ELSE x]
  <1>1. /\ late \in [Relays -> [Partitions -> Seq(SUBSET Events)]]
        /\ late[r][p] \in Seq(SUBSET Events)
    BY DEF TypeOK
  <1>2. /\ DOMAIN late[r][p] \subseteq Nat /\ 1 \in DOMAIN late[r][p]
        /\ Head(late[r][p]) = late[r][p][1]
        /\ \A i \in DOMAIN Tail(late[r][p]) :
             /\ i \in Nat /\ i >= 1 /\ i + 1 \in DOMAIN late[r][p]
             /\ Tail(late[r][p])[i] = late[r][p][i + 1]
    BY <1>1, HeadTailProperties, LenProperties
  <1>3. \A s \in Relays, q \in Partitions :
          late'[s][q] = IF s = r /\ q = p THEN Tail(late[r][p]) ELSE late[s][q]
    BY <1>1
  <1>4. ASSUME NEW x \in Queued(e)'
        PROVE  f[x] \in Rest
    <2>1. PICK s, q, i : /\ s \in Relays /\ q \in Partitions /\ i \in DOMAIN late'[s][q]
                        /\ e \in late'[s][q][i] /\ x = <<<<s, q>>, i>>
      BY DEF Queued
    <2>2. CASE s = r /\ q = p
      <3>1. f[x] = <<<<r, p>>, i + 1>>
        BY <2>1, <2>2
      <3>2. i + 1 \in DOMAIN late[r][p] /\ e \in late[r][p][i + 1] /\ i + 1 # 1
        <4>1. late'[s][q] = Tail(late[r][p])
          BY <1>3, <2>1, <2>2
        <4>2. i \in DOMAIN Tail(late[r][p]) /\ e \in Tail(late[r][p])[i]
          BY <2>1, <4>1
        <4>3. QED BY <1>2, <4>2
      <3>3. QED BY <3>1, <3>2, QueuedAre
    <2>3. CASE ~ (s = r /\ q = p)
      <3>1. f[x] = x /\ x # first
        BY <2>1, <2>3
      <3>2. QED BY <1>3, <2>1, <2>3, <3>1, QueuedAre
    <2>4. QED BY <2>2, <2>3
  <1>5. ASSUME NEW x \in Queued(e)', NEW y \in Queued(e)', f[x] = f[y]
        PROVE  x = y
    <2>1. PICK s, q, i : /\ s \in Relays /\ q \in Partitions /\ i \in DOMAIN late'[s][q]
                        /\ x = <<<<s, q>>, i>>
      BY DEF Queued
    <2>2. PICK t, o, j : /\ t \in Relays /\ o \in Partitions /\ j \in DOMAIN late'[t][o]
                        /\ y = <<<<t, o>>, j>>
      BY DEF Queued
    <2>3. /\ f[x] = IF s = r /\ q = p THEN <<<<s, q>>, i + 1>> ELSE x
          /\ f[y] = IF t = r /\ o = p THEN <<<<t, o>>, j + 1>> ELSE y
      BY <2>1, <2>2
    <2>4. s = t /\ q = o
      BY <1>5, <2>1, <2>2, <2>3
    <2>5. CASE s = r /\ q = p
      <3>1. i \in Nat /\ j \in Nat /\ i + 1 = j + 1
        BY <1>2, <1>3, <1>5, <2>1, <2>2, <2>3, <2>4, <2>5
      <3>2. QED BY <2>1, <2>2, <2>4, <3>1
    <2>6. CASE ~ (s = r /\ q = p)
      BY <1>5, <2>3, <2>4, <2>6
    <2>7. QED BY <2>5, <2>6
  <1>6. f \in Injection(Queued(e)', Rest)
    BY <1>4, <1>5 DEF Injection, IsInjective
  <1>7. /\ IsFiniteSet(Rest)
        /\ Cardinality(Rest) = IF first \in Queued(e) THEN Cardinality(Queued(e)) - 1
                               ELSE Cardinality(Queued(e))
    BY FS_RemoveElement
  <1>8. /\ IsFiniteSet(Queued(e)') /\ Cardinality(Queued(e)') \in Nat
        /\ Cardinality(Queued(e)') <= Cardinality(Rest)
    BY <1>6, <1>7, FS_Injection, FS_CardinalityType
  <1>9. e \in Head(late[r][p]) => first \in Queued(e)
    BY <1>2, QueuedAre
  <1>10. Cardinality(Queued(e)) \in Nat
    BY FS_CardinalityType
  <1> HIDE DEF first, Rest, f
  <1>11. QED BY <1>7, <1>8, <1>9, <1>10

LEMMA NextOneOrigin ==
  ASSUME IInv, [Next]_vars
  PROVE  OneOrigin'
  <1>0. OneOrigin /\ staged \in [Txns -> SUBSET Events] /\ auto \in SUBSET Events
    BY DEF IInv, TypeOK
  <1>1. CASE UNCHANGED <<staged, auto>>
    BY <1>0, <1>1 DEF OneOrigin
  <1>2. ASSUME NEW t \in Txns, NEW e \in Events, PublishStaged(t, e) PROVE OneOrigin'
    <2>1. /\ auto' = auto /\ staged' = [staged EXCEPT ![t] = staged[t] \cup {e}]
          /\ e \notin auto /\ \A u \in Txns : e \notin staged[u]
      BY <1>2 DEF PublishStaged, Known
    <2>2. QED BY <1>0, <2>1 DEF OneOrigin
  <1>3. ASSUME NEW e \in Events, PublishAlone(e) PROVE OneOrigin'
    <2>1. /\ staged' = staged /\ auto' = auto \cup {e}
          /\ \A u \in Txns : e \notin staged[u]
      BY <1>3 DEF PublishAlone, Known
    <2>2. QED BY <1>0, <2>1 DEF OneOrigin
  <1>4. \/ UNCHANGED <<staged, auto>>
        \/ \E t \in Txns, e \in Events : PublishStaged(t, e)
        \/ \E e \in Events : PublishAlone(e)
    BY DEF Next, Service, Relay, Writer, Begin, BeginNested, ReturnNested, StatementFails,
           PublishFails, PublishSkipped, Commit, Rollback, Fetch, WriteDone, Delete, Abort,
           Restart, LandLate, Land, LandUnacknowledged, GiveUp, txVars, vars
  <1>5. QED BY <1>1, <1>2, <1>3, <1>4

LEMMA NextBatchRouted ==
  ASSUME IInv, [Next]_vars
  PROVE  BatchRouted'
  <1>0. BatchRouted /\ TypeOK
    BY DEF IInv
  <1> USE DEF TypeOK
  <1>1. CASE UNCHANGED <<pc, batch>>
    BY <1>0, <1>1 DEF BatchRouted
  <1>2. ASSUME NEW r \in Relays, Fetch(r) PROVE BatchRouted'
    <2>0. PICK B \in PendingBatches \ {{}} :
            \E f \in Routings(B) :
              batch' = [batch EXCEPT ![r] = [p \in Partitions |-> {e \in B : f[e] = p}]]
      BY <1>2 DEF Fetch
    <2>1. PICK f \in Routings(B) :
            batch' = [batch EXCEPT ![r] = [p \in Partitions |-> {e \in B : f[e] = p}]]
      BY <2>0
    <2>2. pc' = [pc EXCEPT ![r] = "writing"]
      BY <1>2 DEF Fetch
    <2>3. QED BY <1>0, <2>1, <2>2 DEF BatchRouted
  <1>3. ASSUME NEW r \in Relays, WriteDone(r) PROVE BatchRouted'
    BY <1>0, <1>3 DEF WriteDone, BatchRouted
  <1>4. ASSUME NEW r \in Relays, Delete(r) PROVE BatchRouted'
    BY <1>0, <1>4 DEF Delete, BatchRouted
  <1>5. ASSUME NEW r \in Relays, Abort(r) \/ Restart(r) PROVE BatchRouted'
    <2>1. /\ pc' = [pc EXCEPT ![r] = "idle"]
          /\ batch' = [batch EXCEPT ![r] = [p \in Partitions |-> {}]]
      BY <1>5 DEF Abort, Restart
    <2>2. QED BY <1>0, <2>1 DEF BatchRouted
  <1>6. ASSUME NEW r \in Relays, NEW p \in Partitions, Land(r, p) \/ GiveUp(r, p)
        PROVE  BatchRouted'
    <2>1. /\ pc' = pc \/ pc' = [pc EXCEPT ![r] = "failing"]
          /\ batch' = [batch EXCEPT ![r][p] = {}]
      BY <1>6 DEF Land, GiveUp
    <2>2. \A s \in Relays, q \in Partitions : batch'[s][q] = {} \/ batch'[s][q] = batch[s][q]
      BY <1>0, <2>1
    <2>3. \A s \in Relays : pc'[s] \in {"idle", "deleting"} => pc[s] = pc'[s]
      BY <1>0, <2>1
    <2>4. QED
      <3> SUFFICES ASSUME NEW s \in Relays
                   PROVE  /\ pc'[s] \in {"idle", "deleting"} =>
                               \A q \in Partitions : batch'[s][q] = {}
                          /\ \A q, o \in Partitions : q # o => batch'[s][q] \cap batch'[s][o] = {}
        BY DEF BatchRouted
      <3>1. pc[s] \in {"idle", "deleting"} => \A q \in Partitions : batch[s][q] = {}
        BY <1>0 DEF BatchRouted
      <3>2. \A q, o \in Partitions : q # o => batch[s][q] \cap batch[s][o] = {}
        BY <1>0 DEF BatchRouted
      <3>3. QED BY <2>2, <2>3, <3>1, <3>2
  <1>7. \/ UNCHANGED <<pc, batch>>
        \/ \E r \in Relays : Relay(r)
        \/ \E r \in Relays, p \in Partitions : Land(r, p) \/ GiveUp(r, p)
    BY DEF Next, Service, Writer, Begin, BeginNested, ReturnNested, StatementFails,
           PublishFails, PublishStaged, PublishSkipped, PublishAlone, Commit, Rollback,
           LandLate, LandUnacknowledged, relayVars, vars
  <1>8. QED BY <1>1, <1>2, <1>3, <1>4, <1>5, <1>6, <1>7 DEF Relay

\* A fault gives every event one copy to come, or one in Kafka.
LEMMA FaultPays ==
  ASSUME TypeOK
  PROVE  /\ faults \in Nat /\ MaxFaults \in Nat /\ faults <= MaxFaults
         /\ Fault => faults' \in Nat /\ faults' = faults - 1
  BY OutboxAssumption DEF OutboxAssumption, TypeOK, Fault

\* What an event adds up to in the account.
Expected(e) == IF ToBeTaken(e) THEN 1 ELSE 0

Account(e) ==
  /\ IsFiniteSet(Places(e)) /\ IsFiniteSet(Queued(e)) /\ IsFiniteSet(Batched(e))
  /\ Cardinality(Places(e)) + Cardinality(Queued(e)) + Cardinality(Batched(e)) + Expected(e)
       <= 1 + (MaxFaults - faults)

LEMMA AccountTypes ==
  ASSUME NEW e, Account(e)
  PROVE  /\ Cardinality(Places(e)) \in Nat
         /\ Cardinality(Queued(e)) \in Nat
         /\ Cardinality(Batched(e)) \in Nat
         /\ Expected(e) \in {0, 1} /\ Expected(e)' \in {0, 1}
  BY FS_CardinalityType DEF Account, Expected

\* Steps that move no message: the account stands unless an event becomes due
\* again, which a fault must pay for.
LEMMA AccountQuiet ==
  ASSUME TypeOK, NEW e, Account(e), UNCHANGED <<log, late, batch>>, UNCHANGED faults \/ Fault,
         ToBeTaken(e)' => ToBeTaken(e) \/ Fault
  PROVE  Account(e)'
  <1>1. Places(e)' = Places(e) /\ Queued(e)' = Queued(e) /\ Batched(e)' = Batched(e)
    BY DEF Places, Queued, Batched
  <1>2. Expected(e)' <= Expected(e) \/ Fault
    BY DEF Expected
  <1>3. QED BY <1>1, <1>2, FaultPays, AccountTypes DEF Account

LEMMA ServiceAccount ==
  ASSUME IInv, NEW e \in Events, Account(e),
         \/ \E t \in Txns : Service(t)
         \/ \E d \in Events : PublishAlone(d)
  PROVE  Account(e)'
  <1>0. TypeOK /\ OneOrigin
    BY DEF IInv
  <1>1. UNCHANGED relayVars /\ UNCHANGED log /\ (UNCHANGED faults \/ Fault)
    BY DEF Service, Begin, BeginNested, ReturnNested, StatementFails, PublishFails,
           PublishStaged, PublishSkipped, PublishAlone, Commit, Rollback
  <1>2. \/ Durable' = Durable /\ outbox' = outbox
        \/ \E X : X \cap Durable = {} /\ Durable' = Durable \cup X /\ outbox' = outbox \cup X
    <2>1. ASSUME NEW t \in Txns, Commit(t)
          PROVE  /\ staged[t] \cap Durable = {}
                 /\ Durable' = Durable \cup staged[t] /\ outbox' = outbox \cup staged[t]
      <3>1. status[t] = "open" /\ status' = [status EXCEPT ![t] = "committed"]
            /\ staged' = staged /\ auto' = auto /\ outbox' = outbox \cup staged[t]
        BY <2>1 DEF Commit
      <3>2. staged[t] \cap Durable = {}
        BY <1>0, <3>1 DEF OneOrigin, Durable
      <3>3. Durable' = Durable \cup staged[t]
        BY <1>0, <3>1 DEF Durable, TypeOK
      <3>4. QED BY <3>1, <3>2, <3>3
    <2>2. ASSUME NEW d \in Events, PublishAlone(d)
          PROVE  /\ {d} \cap Durable = {}
                 /\ Durable' = Durable \cup {d} /\ outbox' = outbox \cup {d}
      <3>1. d \notin Durable
        BY <2>2 DEF PublishAlone, Known, Durable
      <3>2. QED BY <2>2, <3>1 DEF PublishAlone, Durable
    <2>3. ASSUME NEW t \in Txns, Service(t), ~ Commit(t)
          PROVE  Durable' = Durable /\ outbox' = outbox
      <3>1. outbox' = outbox /\ auto' = auto
        BY <2>3 DEF Service, Begin, BeginNested, ReturnNested, StatementFails, PublishFails,
               PublishStaged, PublishSkipped, Rollback
      <3>2. CASE UNCHANGED <<status, staged>>
        BY <3>1, <3>2 DEF Durable
      <3>3. CASE ~ UNCHANGED <<status, staged>>
        <4>1. /\ status[t] # "committed" /\ status'[t] # "committed"
              /\ \A u \in Txns \ {t} : status'[u] = status[u] /\ staged'[u] = staged[u]
          BY <1>0, <2>3, <3>3 DEF Service, Begin, BeginNested, ReturnNested, StatementFails,
             PublishFails, PublishStaged, PublishSkipped, Rollback, TypeOK, Live
        <4>2. QED BY <1>0, <3>1, <4>1, UncommittedDurable
      <3>4. QED BY <3>2, <3>3
    <2>4. QED BY <2>1, <2>2, <2>3
  <1>3. ToBeTaken(e)' => ToBeTaken(e)
    BY <1>1, <1>2 DEF ToBeTaken, relayVars
  <1>4. QED BY <1>0, <1>1, <1>3, AccountQuiet DEF relayVars

LEMMA RelayAccount ==
  ASSUME IInv, NEW e \in Events, Account(e), NEW r \in Relays, Relay(r)
  PROVE  Account(e)'
  <1>0. /\ TypeOK /\ DisjointBatches /\ BatchRouted /\ Durable' = Durable
        /\ Locked \subseteq outbox
    <2>1. UNCHANGED txVars
      BY DEF Relay, Fetch, WriteDone, Delete, Abort, Restart
    <2>2. QED BY <2>1, TxnSideUnchanged DEF IInv, DisjointBatches
  <1>n. /\ Cardinality(Places(e)) \in Nat /\ Cardinality(Queued(e)) \in Nat
        /\ Cardinality(Batched(e)) \in Nat
        /\ Expected(e) \in {0, 1} /\ Expected(e)' \in {0, 1}
    BY AccountTypes
  <1>f. /\ faults \in Nat /\ MaxFaults \in Nat /\ faults <= MaxFaults
        /\ Fault => faults' \in Nat /\ faults' = faults - 1
    BY <1>0, FaultPays
  <1>1. CASE Fetch(r)
    <2>1. PICK B \in PendingBatches \ {{}} :
            /\ held' = [held EXCEPT ![r] = B]
            /\ \E f \in Routings(B) :
                 batch' = [batch EXCEPT ![r] = [p \in Partitions |-> {d \in B : f[d] = p}]]
      BY <1>1 DEF Fetch
    <2>2. PICK f \in Routings(B) :
            batch' = [batch EXCEPT ![r] = [p \in Partitions |-> {d \in B : f[d] = p}]]
      BY <2>1
    <2>3. /\ pc[r] = "idle" /\ pc' = [pc EXCEPT ![r] = "writing"]
          /\ UNCHANGED <<outbox, late, log, faults>>
      BY <1>1 DEF Fetch
    <2>4. Places(e)' = Places(e) /\ Queued(e)' = Queued(e)
      BY <2>3 DEF Places, Queued
    <2>5. \A p \in Partitions : batch[r][p] = {}
      BY <1>0, <2>3 DEF BatchRouted
    <2>6. CASE e \in B
      <3>1. e \in outbox /\ \A s \in Relays : e \notin held[s]
        BY <2>1, <2>6 DEF PendingBatches, Locked
      <3>2. Expected(e) = 1
        BY <3>1 DEF Expected, ToBeTaken
      <3>3. e \in held'[r] /\ pc'[r] = "writing"
        BY <1>0, <2>1, <2>3, <2>6 DEF TypeOK
      <3>4. Expected(e)' = 0
        BY <3>3 DEF Expected, ToBeTaken
      <3>5. Batched(e)' \subseteq Batched(e) \cup {<<r, f[e]>>}
        <4>1. ASSUME NEW s \in Relays, NEW q \in Partitions, e \in batch'[s][q]
              PROVE  e \in batch[s][q] \/ (s = r /\ q = f[e])
          BY <1>0, <2>2, <4>1 DEF TypeOK
        <4>2. QED BY <4>1 DEF Batched
      <3>6. /\ IsFiniteSet(Batched(e)') /\ Cardinality(Batched(e)') \in Nat
            /\ Cardinality(Batched(e)') <= Cardinality(Batched(e)) + 1
        BY <3>5, OneMore DEF Account
      <3>7. QED BY <1>0, <2>3, <2>4, <3>2, <3>4, <3>6, <1>n, <1>f DEF Account
    <2>7. CASE e \notin B
      <3>1. Batched(e)' = Batched(e)
        <4>1. ASSUME NEW s \in Relays, NEW q \in Partitions
              PROVE  e \in batch'[s][q] <=> e \in batch[s][q]
          BY <1>0, <2>2, <2>5, <2>7 DEF TypeOK
        <4>2. QED BY <4>1 DEF Batched
      <3>2. ToBeTaken(e)' => ToBeTaken(e)
        BY <1>0, <2>1, <2>3, <2>7 DEF ToBeTaken, TypeOK
      <3>3. Expected(e)' <= Expected(e)
        BY <3>2 DEF Expected
      <3>4. QED BY <2>3, <2>4, <3>1, <3>3, <1>n, <1>f DEF Account
    <2>8. QED BY <2>6, <2>7
  <1>2. CASE WriteDone(r)
    <2>1. ToBeTaken(e)' => ToBeTaken(e)
      BY <1>0, <1>2 DEF WriteDone, ToBeTaken, TypeOK
    <2>2. QED BY <1>0, <1>2, <2>1, AccountQuiet DEF WriteDone
  <1>3. CASE Delete(r)
    <2>1. /\ pc[r] = "deleting" /\ outbox' = outbox \ held[r]
          /\ held' = [held EXCEPT ![r] = {}] /\ pc' = [pc EXCEPT ![r] = "idle"]
      BY <1>3 DEF Delete
    <2>2. e \in held[r] => e \in Durable
      BY <1>0 DEF IInv, NoPhantomEvent, Locked
    <2>3. ToBeTaken(e)' => ToBeTaken(e)
      BY <1>0, <2>1, <2>2 DEF ToBeTaken, TypeOK
    <2>4. QED BY <1>0, <1>3, <2>3, AccountQuiet DEF Delete
  <1>4. CASE Abort(r)
    <2>1. /\ batch' = [batch EXCEPT ![r] = [p \in Partitions |-> {}]]
          /\ late' = [late EXCEPT ![r] =
               [p \in Partitions |-> IF batch[r][p] = {} THEN late[r][p]
                                     ELSE Append(late[r][p], batch[r][p])]]
          /\ UNCHANGED <<outbox, log>>
          /\ held' = [held EXCEPT ![r] = {}] /\ pc' = [pc EXCEPT ![r] = "idle"]
          /\ (pc[r] = "failing" /\ UNCHANGED faults) \/ Fault
      BY <1>4 DEF Abort
    <2>2. Places(e)' = Places(e)
      BY <2>1 DEF Places
    <2>3. Expected(e)' <= Expected(e) \/ Fault
      <3>1. CASE pc[r] = "failing"
        <4>1. ToBeTaken(e)' => ToBeTaken(e)
          BY <1>0, <2>1, <3>1 DEF ToBeTaken, TypeOK
        <4>2. QED BY <4>1 DEF Expected
      <3>2. QED BY <2>1, <3>1
    <2>n. (UNCHANGED faults /\ Expected(e)' <= Expected(e)) \/ Fault
      BY <2>1, <2>3
    <2>4. ASSUME NEW p \in Partitions
          PROVE  /\ late[r][p] \in Seq(SUBSET Events) /\ batch[r][p] \in SUBSET Events
                 /\ late'[r][p] = IF batch[r][p] = {} THEN late[r][p]
                                  ELSE Append(late[r][p], batch[r][p])
      BY <1>0, <2>1 DEF TypeOK
    <2>5. ASSUME NEW s \in Relays, NEW p \in Partitions, NEW i, i \in DOMAIN late'[s][p],
                 e \in late'[s][p][i]
          PROVE  \/ i \in DOMAIN late[s][p] /\ e \in late[s][p][i]
                 \/ s = r /\ e \in batch[r][p] /\ i = Len(late[r][p]) + 1
      <3>1. CASE s # r
        BY <1>0, <2>1, <2>5, <3>1 DEF TypeOK
      <3>2. CASE s = r /\ batch[r][p] = {}
        BY <2>4, <2>5, <3>2
      <3>3. CASE s = r /\ batch[r][p] # {}
        <4>1. late'[s][p] = Append(late[r][p], batch[r][p])
          BY <2>4, <3>3
        <4>2. /\ DOMAIN late[r][p] = 1 .. Len(late[r][p]) /\ Len(late[r][p]) \in Nat
              /\ DOMAIN late'[s][p] = 1 .. (Len(late[r][p]) + 1)
              /\ \A j \in 1 .. Len(late[r][p]) : late'[s][p][j] = late[r][p][j]
              /\ late'[s][p][Len(late[r][p]) + 1] = batch[r][p]
          BY <2>4, <4>1, AppendProperties, LenProperties
        <4>3. i \in 1 .. Len(late[r][p]) \/ i = Len(late[r][p]) + 1
          BY <2>5, <4>2
        <4>4. QED BY <2>5, <3>3, <4>2, <4>3
      <3>4. QED BY <3>1, <3>2, <3>3
    <2>6. \A x : x \in Queued(e)' =>
            \/ x \in Queued(e)
            \/ \E p \in Partitions : e \in batch[r][p] /\ x = <<<<r, p>>, Len(late[r][p]) + 1>>
      <3> SUFFICES ASSUME NEW x \in Queued(e)'
                   PROVE  \/ x \in Queued(e)
                          \/ \E p \in Partitions :
                               e \in batch[r][p] /\ x = <<<<r, p>>, Len(late[r][p]) + 1>>
        OBVIOUS
      <3>1. PICK s, p, i : /\ s \in Relays /\ p \in Partitions /\ i \in DOMAIN late'[s][p]
                           /\ e \in late'[s][p][i] /\ x = <<<<s, p>>, i>>
        BY DEF Queued
      <3>2. QED BY <2>5, <3>1, QueuedAre
    <2>7. \A s \in Relays, q \in Partitions :
            e \in batch'[s][q] <=> s # r /\ e \in batch[s][q]
      BY <1>0, <2>1 DEF TypeOK
    <2>8. CASE \E p \in Partitions : e \in batch[r][p]
      <3>1. PICK p \in Partitions : e \in batch[r][p]
        BY <2>8
      <3>2. \A q \in Partitions : e \in batch[r][q] => q = p
        BY <1>0, <3>1 DEF BatchRouted
      <3>3. Batched(e)' = Batched(e) \ {<<r, p>>} /\ <<r, p>> \in Batched(e)
        BY <2>7, <3>1, <3>2 DEF Batched
      <3>4. Queued(e)' \subseteq Queued(e) \cup {<<<<r, p>>, Len(late[r][p]) + 1>>}
        BY <2>6, <3>2
      <3>5. /\ IsFiniteSet(Queued(e)') /\ Cardinality(Queued(e)') \in Nat
            /\ Cardinality(Queued(e)') <= Cardinality(Queued(e)) + 1
        BY <3>4, OneMore DEF Account
      <3>6. IsFiniteSet(Batched(e)') /\ Cardinality(Batched(e)') = Cardinality(Batched(e)) - 1
        BY <3>3, FS_RemoveElement DEF Account
      <3>7. QED
        BY <2>2, <2>n, <3>5, <3>6, <1>n, <1>f DEF Account
    <2>9. CASE ~ \E p \in Partitions : e \in batch[r][p]
      <3>1. Batched(e)' = Batched(e)
        BY <2>7, <2>9 DEF Batched
      <3>2. Queued(e)' \subseteq Queued(e)
        BY <2>6, <2>9
      <3>3. /\ IsFiniteSet(Queued(e)') /\ Cardinality(Queued(e)') \in Nat
            /\ Cardinality(Queued(e)') <= Cardinality(Queued(e))
        BY <3>2, FS_Subset, FS_CardinalityType DEF Account
      <3>4. QED
        BY <2>2, <2>n, <3>1, <3>3, <1>n, <1>f DEF Account
    <2>10. QED BY <2>8, <2>9
  <1>5. CASE Restart(r)
    <2>1. /\ batch' = [batch EXCEPT ![r] = [p \in Partitions |-> {}]]
          /\ late' = [late EXCEPT ![r] = [p \in Partitions |-> <<>>]]
          /\ log' = log /\ Fault
      BY <1>5 DEF Restart
    <2>2. Places(e)' = Places(e)
      BY <2>1 DEF Places
    <2>3. \A s \in Relays, q \in Partitions :
            /\ batch'[s][q] = IF s = r THEN {} ELSE batch[s][q]
            /\ late'[s][q] = IF s = r THEN <<>> ELSE late[s][q]
      BY <1>0, <2>1 DEF TypeOK
    <2>4. Batched(e)' \subseteq Batched(e)
      BY <2>3 DEF Batched
    <2>5. Queued(e)' \subseteq Queued(e)
      BY <2>3 DEF Queued
    <2>6. /\ IsFiniteSet(Queued(e)') /\ IsFiniteSet(Batched(e)')
          /\ Cardinality(Queued(e)') \in Nat /\ Cardinality(Batched(e)') \in Nat
          /\ Cardinality(Queued(e)') <= Cardinality(Queued(e))
          /\ Cardinality(Batched(e)') <= Cardinality(Batched(e))
      BY <2>4, <2>5, FS_Subset, FS_CardinalityType DEF Account
    <2>7. QED BY <1>0, <2>1, <2>2, <2>6, <1>n, <1>f DEF Account
  <1>6. QED BY <1>1, <1>2, <1>3, <1>4, <1>5 DEF Relay

LEMMA WriterAccount ==
  ASSUME IInv, NEW e \in Events, Account(e), NEW r \in Relays, NEW p \in Partitions, Writer(r, p)
  PROVE  Account(e)'
  <1>0. TypeOK /\ Durable' = Durable /\ outbox' = outbox /\ held' = held
    <2>1. UNCHANGED <<txVars, outbox, held>>
      BY DEF Writer, LandLate, Land, LandUnacknowledged, GiveUp, relayVars
    <2>2. QED BY <2>1, TxnSideUnchanged DEF IInv
  <1>n. /\ Cardinality(Places(e)) \in Nat /\ Cardinality(Queued(e)) \in Nat
        /\ Cardinality(Batched(e)) \in Nat
        /\ Expected(e) \in {0, 1} /\ Expected(e)' \in {0, 1}
    BY AccountTypes
  <1>f. /\ faults \in Nat /\ MaxFaults \in Nat /\ faults <= MaxFaults
        /\ Fault => faults' \in Nat /\ faults' = faults - 1
    BY <1>0, FaultPays
  <1>1. late[r][p] \in Seq(SUBSET Events) /\ batch[r][p] \in SUBSET Events
    BY <1>0 DEF TypeOK
  <1>2. ASSUME NEW B \in SUBSET Events, AppendBatch(p, B)
        PROVE  /\ IsFiniteSet(Places(e)') /\ Cardinality(Places(e)') \in Nat
               /\ Cardinality(Places(e)') <= Cardinality(Places(e)) + (IF e \in B THEN 1 ELSE 0)
    <2>1. IsFiniteSet(Places(e))
      BY DEF Account
    <2>2. QED BY <1>0, <1>2, <2>1, AppendPlaces, FS_CardinalityType
  <1>3. CASE LandLate(r, p)
    <2>1. UNCHANGED <<batch, pc>> /\ late[r][p] # <<>>
      BY <1>3 DEF LandLate
    <2>2. Batched(e)' = Batched(e) /\ Expected(e)' = Expected(e)
      BY <1>0, <2>1 DEF Batched, Expected, ToBeTaken
    <2>3. Head(late[r][p]) \in SUBSET Events
      BY <1>1, <2>1, HeadTailProperties
    <2>4. ASSUME late' = [late EXCEPT ![r][p] = Tail(@)]
          PROVE  /\ IsFiniteSet(Queued(e)') /\ Cardinality(Queued(e)') \in Nat
                 /\ Cardinality(Queued(e)') + (IF e \in Head(late[r][p]) THEN 1 ELSE 0)
                      <= Cardinality(Queued(e))
      <3>1. IsFiniteSet(Queued(e))
        BY DEF Account
      <3>2. QED BY <1>0, <2>1, <2>4, <3>1, TailQueued, FS_CardinalityType
    <2>5. CASE /\ AppendBatch(p, Head(late[r][p])) /\ UNCHANGED faults
               /\ late' = [late EXCEPT ![r][p] = Tail(@)]
      <3>1. /\ IsFiniteSet(Places(e)') /\ Cardinality(Places(e)') \in Nat
            /\ Cardinality(Places(e)')
                 <= Cardinality(Places(e)) + (IF e \in Head(late[r][p]) THEN 1 ELSE 0)
        BY <1>2, <2>3, <2>5
      <3>2. /\ IsFiniteSet(Queued(e)') /\ Cardinality(Queued(e)') \in Nat
            /\ Cardinality(Queued(e)') + (IF e \in Head(late[r][p]) THEN 1 ELSE 0)
                 <= Cardinality(Queued(e))
        BY <2>4, <2>5
      <3>3. UNCHANGED faults
        BY <2>5
      <3>4. QED BY <2>2, <3>1, <3>2, <3>3, <1>n, <1>f DEF Account
    <2>6. CASE late' = [late EXCEPT ![r][p] = Tail(@)] /\ Fault /\ UNCHANGED log
      <3>1. Places(e)' = Places(e)
        BY <2>6 DEF Places
      <3>2. /\ IsFiniteSet(Queued(e)') /\ Cardinality(Queued(e)') \in Nat
            /\ Cardinality(Queued(e)') + (IF e \in Head(late[r][p]) THEN 1 ELSE 0)
                 <= Cardinality(Queued(e))
        BY <2>4, <2>6
      <3>3. Cardinality(Queued(e)') <= Cardinality(Queued(e))
        BY <3>2, <1>n
      <3>4. faults \in Nat /\ faults' \in Nat /\ faults' = faults - 1 /\ MaxFaults \in Nat
        BY <2>6, <1>f
      <3>5. QED BY <2>2, <3>1, <3>2, <3>3, <3>4, <1>n DEF Account
    <2>7. CASE AppendBatch(p, Head(late[r][p])) /\ Fault /\ UNCHANGED late
      <3>1. Queued(e)' = Queued(e)
        BY <2>7 DEF Queued
      <3>2. /\ IsFiniteSet(Places(e)') /\ Cardinality(Places(e)') \in Nat
            /\ Cardinality(Places(e)') <= Cardinality(Places(e)) + 1
        BY <1>2, <2>3, <2>7, <1>n
      <3>3. QED BY <2>2, <2>7, <3>1, <3>2, <1>n, <1>f DEF Account
    <2>8. QED BY <1>3, <2>5, <2>6, <2>7 DEF LandLate
  <1>4. ASSUME batch' = [batch EXCEPT ![r][p] = {}], UNCHANGED late
        PROVE  /\ IsFiniteSet(Batched(e)') /\ Cardinality(Batched(e)') \in Nat
               /\ Cardinality(Batched(e)') + (IF e \in batch[r][p] THEN 1 ELSE 0)
                    <= Cardinality(Batched(e))
               /\ Queued(e)' = Queued(e)
    <2>1. \A s \in Relays, q \in Partitions :
            batch'[s][q] = IF s = r /\ q = p THEN {} ELSE batch[s][q]
      BY <1>0, <1>4 DEF TypeOK
    <2>2. Batched(e)' = Batched(e) \ {<<r, p>>}
      BY <2>1 DEF Batched
    <2>3. e \in batch[r][p] <=> <<r, p>> \in Batched(e)
      BY DEF Batched
    <2>4. /\ IsFiniteSet(Batched(e)')
          /\ Cardinality(Batched(e)') = IF <<r, p>> \in Batched(e) THEN Cardinality(Batched(e)) - 1
                                        ELSE Cardinality(Batched(e))
      BY <2>2, OneLess DEF Account
    <2>5. Queued(e)' = Queued(e)
      BY <1>4 DEF Queued
    <2>6. Cardinality(Batched(e)') \in Nat
      BY <2>4, FS_CardinalityType
    <2>7. QED BY <2>3, <2>4, <2>5, <2>6, <1>n
  <1>5. CASE Land(r, p)
    <2>1. /\ AppendBatch(p, batch[r][p]) /\ batch' = [batch EXCEPT ![r][p] = {}]
          /\ UNCHANGED <<pc, late, faults>>
      BY <1>5 DEF Land
    <2>2. Expected(e)' = Expected(e)
      BY <1>0, <2>1 DEF Expected, ToBeTaken
    <2>3. /\ IsFiniteSet(Places(e)') /\ Cardinality(Places(e)') \in Nat
          /\ Cardinality(Places(e)')
               <= Cardinality(Places(e)) + (IF e \in batch[r][p] THEN 1 ELSE 0)
      BY <1>1, <1>2, <2>1
    <2>4. /\ IsFiniteSet(Batched(e)') /\ Cardinality(Batched(e)') \in Nat
          /\ Cardinality(Batched(e)') + (IF e \in batch[r][p] THEN 1 ELSE 0)
               <= Cardinality(Batched(e))
          /\ Queued(e)' = Queued(e) /\ UNCHANGED faults
      BY <1>4, <2>1
    <2>5. QED BY <2>2, <2>3, <2>4, <1>n, <1>f DEF Account
  <1>6. CASE LandUnacknowledged(r, p)
    <2>1. AppendBatch(p, batch[r][p]) /\ Fault /\ UNCHANGED <<pc, late, batch>>
      BY <1>6 DEF LandUnacknowledged, relayVars
    <2>2. Queued(e)' = Queued(e) /\ Batched(e)' = Batched(e) /\ Expected(e)' = Expected(e)
      BY <1>0, <2>1 DEF Queued, Batched, Expected, ToBeTaken
    <2>3. /\ IsFiniteSet(Places(e)') /\ Cardinality(Places(e)') \in Nat
          /\ Cardinality(Places(e)') <= Cardinality(Places(e)) + 1
      BY <1>1, <1>2, <2>1, <1>n
    <2>4. QED BY <2>1, <2>2, <2>3, <1>n, <1>f DEF Account
  <1>7. CASE GiveUp(r, p)
    <2>1. Fault /\ batch' = [batch EXCEPT ![r][p] = {}] /\ UNCHANGED <<late, log>>
      BY <1>7 DEF GiveUp
    <2>2. Places(e)' = Places(e)
      BY <2>1 DEF Places
    <2>3. QED BY <1>0, <1>4, <2>1, <2>2, <1>n, <1>f DEF Account
  <1>8. QED BY <1>3, <1>5, <1>6, <1>7 DEF Writer

LEMMA NextCopiesAccounted ==
  ASSUME IInv, [Next]_vars
  PROVE  CopiesAccounted'
  <1> SUFFICES ASSUME NEW e \in Events PROVE Account(e)'
    BY DEF CopiesAccounted, Account, Expected
  <1>1. Account(e) /\ TypeOK
    BY DEF IInv, CopiesAccounted, Account, Expected
  <1>2. CASE UNCHANGED vars
    BY <1>1, <1>2 DEF Account, Expected, Places, Queued, Batched, ToBeTaken, Durable, vars,
       txVars, relayVars
  <1>3. QED BY <1>1, <1>2, ServiceAccount, RelayAccount, WriterAccount DEF Next

-----------------------------------------------------------------------------
(* The theorems.                                                           *)

LEMMA InitIInv == Init => IInv
  <1> SUFFICES ASSUME Init PROVE IInv
    OBVIOUS
  <1>1. Durable = {} /\ Published = {} /\ InFlight = {} /\ Locked = {}
    BY DEF Init, Durable, Published, InFlight, Locked
  <1>2. TypeOK
    BY InitTypeOK
  <1>3. OneOrigin /\ BatchRouted
    BY DEF Init, OneOrigin, BatchRouted
  <1>4. CopiesAccounted
    <2>1. \A e \in Events : Places(e) = {} /\ Queued(e) = {} /\ Batched(e) = {}
      BY DEF Init, Places, Queued, Batched
    <2>2. IsFiniteSet({}) /\ Cardinality({}) = 0
      BY FS_EmptySet
    <2>3. faults = MaxFaults /\ MaxFaults \in Nat
      BY OutboxAssumption DEF Init, OutboxAssumption
    <2>4. QED BY <2>1, <2>2, <2>3 DEF CopiesAccounted
  <1>5. QED
    BY <1>1, <1>2, <1>3, <1>4
    DEF Init, IInv, NoPhantomEvent, NoLostEvent, DisjointBatches, PublishedBeforeDelete,
        BatchAccounted, AcceptedRecorded, AbortIsReported

LEMMA NextIInv == IInv /\ [Next]_vars => IInv'
  <1> SUFFICES ASSUME IInv, [Next]_vars PROVE IInv'
    OBVIOUS
  <1>1. TypeOK'
    BY NextTypeOK DEF IInv
  <1>2. RelaySide' /\ AcceptedRecorded' /\ AbortIsReported'
    <2>1. CASE UNCHANGED vars
      <3>1. RelaySide /\ Durable' = Durable
        BY <2>1, TxnSideUnchanged DEF IInv, RelaySide, vars
      <3>2. QED
        BY <2>1, <3>1, RelaySideUnchanged, TxnSideUnchanged DEF vars
    <2>2. ASSUME NEW r \in Relays, Relay(r)
          PROVE  RelaySide' /\ AcceptedRecorded' /\ AbortIsReported'
      <3>1. UNCHANGED txVars
        BY <2>2 DEF Relay, Fetch, WriteDone, Delete, Abort, Restart
      <3>2. QED BY <2>2, <3>1, RelayIInv, TxnSideUnchanged
    <2>3. ASSUME NEW r \in Relays, NEW p \in Partitions, Writer(r, p)
          PROVE  RelaySide' /\ AcceptedRecorded' /\ AbortIsReported'
      <3>1. UNCHANGED txVars
        BY <2>3 DEF Writer, LandLate, Land, LandUnacknowledged, GiveUp
      <3>2. QED BY <2>3, <3>1, WriterIInv, TxnSideUnchanged
    <2>4. QED BY <2>1, <2>2, <2>3, ServiceIInv, AloneIInv DEF Next
  <1>3. OneOrigin' /\ BatchRouted' /\ CopiesAccounted'
    BY NextOneOrigin, NextBatchRouted, NextCopiesAccounted
  <1>4. QED BY <1>1, <1>2, <1>3 DEF IInv, RelaySide

\* Whatever services, relays and writers do and wherever they fail: the table,
\* the batches in the relays' hands, the writers' queues and Kafka together
\* account for every durable event and for no other.
THEOREM Invariant == Spec => []IInv
  BY InitIInv, NextIInv, PTL DEF Spec

\* No event leaves a transaction that did not commit.
THEOREM NoPhantom == Spec => []NoPhantomEvent
  <1>1. IInv => NoPhantomEvent BY DEF IInv
  <1>2. QED BY <1>1, Invariant, PTL

\* No durable event is lost between the table and Kafka.
THEOREM NoLoss == Spec => []NoLostEvent
  <1>1. IInv => NoLostEvent BY DEF IInv
  <1>2. QED BY <1>1, Invariant, PTL

\* A nil from WithTransaction makes the nils of its Publish calls good.
THEOREM Promise == Spec => []PromiseKept
  <1>1. IInv => PromiseKept
    <2> SUFFICES ASSUME IInv, NEW t \in Txns, told[t] = "ok"
                 PROVE  accepted[t] \subseteq outbox \cup Published \cup skipped
      BY DEF PromiseKept
    <2>1. accepted[t] \subseteq staged[t] \cup skipped /\ status[t] = "committed"
      BY DEF IInv, AcceptedRecorded
    <2>2. staged[t] \subseteq Durable
      BY <2>1 DEF Durable
    <2>3. QED BY <2>1, <2>2 DEF IInv, NoLostEvent
  <1>2. QED BY <1>1, Invariant, PTL

\* A Publish that returned nil never leaves the transaction aborted.
THEOREM AbortReported == Spec => []AbortIsReported
  <1>1. IInv => AbortIsReported BY DEF IInv
  <1>2. QED BY <1>1, Invariant, PTL

\* Two replicas never work on the same row.
THEOREM BatchesDisjoint == Spec => []DisjointBatches
  <1>1. IInv => DisjointBatches BY DEF IInv
  <1>2. QED BY <1>1, Invariant, PTL

\* At-least-once is exactly once but for failures: with any number of replicas
\* every further copy of an event in Kafka is owed to a failure of its own.
THEOREM Duplicates == Spec => []DuplicatesOwedToFaults
  <1>1. IInv => DuplicatesOwedToFaults
    <2> SUFFICES ASSUME IInv, NEW e \in Events PROVE Copies(e) <= 1 + (MaxFaults - faults)
      BY DEF DuplicatesOwedToFaults
    <2>1. Account(e) /\ TypeOK
      BY DEF IInv, CopiesAccounted, Account, Expected
    <2>2. QED BY <2>1, FaultPays, AccountTypes DEF Account, Copies
  <1>2. QED BY <1>1, Invariant, PTL

-----------------------------------------------------------------------------
(* Refinement.                                                             *)

\* What a service does to durability: nothing, or events are added.
LEMMA ServiceAccepts ==
  ASSUME TypeOK, NEW t \in Txns, Service(t)
  PROVE  Durable' = Durable \/ Durable' = Durable \cup staged[t]
  <1> USE DEF TypeOK, Statuses, Live
  <1>1. CASE Commit(t)
    BY <1>1 DEF Commit, Durable
  <1>2. CASE Begin(t)
    BY <1>2, UncommittedDurable DEF Begin
  <1>3. CASE BeginNested(t) \/ ReturnNested(t)
    BY <1>3 DEF BeginNested, ReturnNested, Durable
  <1>4. CASE StatementFails(t)
    BY <1>4, UncommittedDurable DEF StatementFails
  <1>5. CASE PublishFails(t)
    BY <1>5, UncommittedDurable DEF PublishFails
  <1>6. CASE Rollback(t)
    BY <1>6, UncommittedDurable DEF Rollback
  <1>7. ASSUME NEW e \in Events, PublishStaged(t, e)
        PROVE  Durable' = Durable
    BY <1>7, UncommittedDurable DEF PublishStaged
  <1>8. ASSUME NEW e \in Events, PublishSkipped(t, e)
        PROVE  Durable' = Durable
    BY <1>8 DEF PublishSkipped, Durable
  <1>9. QED BY <1>1, <1>2, <1>3, <1>4, <1>5, <1>6, <1>7, <1>8 DEF Service

LEMMA DeliveryStep == IInv /\ [Next]_vars => [Delivery!Next]_(Delivery!vars)
  <1> SUFFICES ASSUME IInv, [Next]_vars
               PROVE  \/ Delivery!Accept \/ Delivery!DeliverSome
                      \/ Durable' = Durable /\ Published' = Published
    BY DEF Delivery!Next, Delivery!vars
  <1> USE DEF IInv
  <1>1. ASSUME NEW S \in SUBSET Events, Durable' = Durable \cup S, Published' = Published
        PROVE  Delivery!Accept
    <2>1. S \ Durable \in SUBSET (Events \ Durable)
      OBVIOUS
    <2>2. Durable' = Durable \cup (S \ Durable)
      BY <1>1
    <2>3. QED BY <1>1, <2>1, <2>2 DEF Delivery!Accept
  <1>2. ASSUME NEW t \in Txns, Service(t)
        PROVE  Delivery!Accept \/ (Durable' = Durable /\ Published' = Published)
    <2>1. Published' = Published
      BY <1>2
      DEF Service, Begin, BeginNested, ReturnNested, StatementFails, PublishFails, Commit,
          Rollback, PublishStaged, PublishSkipped, Published
    <2>2. staged[t] \in SUBSET Events
      BY DEF TypeOK
    <2>3. QED BY <1>1, <1>2, <2>1, <2>2, ServiceAccepts
  <1>3. ASSUME NEW e \in Events, PublishAlone(e)
        PROVE  Delivery!Accept
    <2>1. Durable' = Durable \cup {e} /\ Published' = Published
      BY <1>3 DEF PublishAlone, Durable, Published
    <2>2. QED BY <1>1, <2>1
  <1>4. ASSUME NEW r \in Relays, Relay(r)
        PROVE  Durable' = Durable /\ Published' = Published
    BY <1>4 DEF Relay, Fetch, WriteDone, Delete, Abort, Restart, txVars, Durable, Published
  <1>5. ASSUME NEW r \in Relays, NEW p \in Partitions, Writer(r, p)
        PROVE  Delivery!DeliverSome
    <2>1. UNCHANGED txVars
      BY <1>5 DEF Writer, LandLate, Land, LandUnacknowledged, GiveUp
    <2>2. Durable' = Durable
      BY <2>1, TxnSideUnchanged
    <2>3. Published \subseteq Published' /\ Published' \subseteq Durable
      BY <1>5, WriterPublishes DEF NoPhantomEvent
    <2>4. Published' \in SUBSET Durable /\ Published' = Published \cup Published'
      BY <2>3
    <2>5. QED BY <2>2, <2>4 DEF Delivery!DeliverSome, Delivery!Deliver
  <1>6. CASE UNCHANGED vars
    BY <1>6 DEF vars, txVars, Durable, Published
  <1>7. QED BY <1>2, <1>3, <1>4, <1>5, <1>6 DEF Next

\* Every behaviour of the outbox is a behaviour of EventDelivery (its safety
\* part: that deliveries happen at all is left to the model checker).
THEOREM Refinement == Spec => Delivery!Spec
  <1>1. Init => Delivery!Init
    BY DEF Init, Delivery!Init, Durable, Published
  <1>2. QED BY <1>1, DeliveryStep, Invariant, PTL DEF Spec, Delivery!Spec

-----------------------------------------------------------------------------
(* The order of an entity's events, for one relay and topics of one        *)
(* partition each.                                                         *)

\* The events an event must not overtake were durable when it was created, and are
\* stamped earlier.
Stamps ==
  \A e \in Events : \A d \in preds[e] : d \in Durable /\ createdAt[d] < createdAt[e]

Lies(p, d) == \E j \in DOMAIN log[p] : log[p][j] = d

\* A batch on its way to a partition brings with an event those it must not overtake, but
\* for those that are there.
Carries(p, B) ==
  \A e \in B :
    /\ MessageTopic(e) = PartitionTopic[p]
    /\ \A d \in preds[e] : MessageTopic(d) = PartitionTopic[p] => d \in B \/ Lies(p, d)

\* Nothing in a partition has overtaken anything.
Ahead(p) ==
  \A i \in DOMAIN log[p] :
    /\ MessageTopic(log[p][i]) = PartitionTopic[p]
    /\ \A d \in preds[log[p][i]] :
         MessageTopic(d) = PartitionTopic[p] => \E j \in 1 .. i - 1 : log[p][j] = d

IdleHoldsNothing == \A r \in Relays : pc[r] = "idle" => held[r] = {}

BatchesCarry ==
  \A r \in Relays, p \in Partitions :
    /\ Carries(p, batch[r][p])
    /\ \A i \in DOMAIN late[r][p] : Carries(p, late[r][p][i])

OrderIInv ==
  /\ IInv /\ Stamps /\ IdleHoldsNothing /\ BatchesCarry
  /\ \A p \in Partitions : Ahead(p)

LEMMA NextDurable ==
  ASSUME IInv, [Next]_vars
  PROVE  Durable \subseteq Durable'
  <1>1. CASE UNCHANGED txVars
    BY <1>1, TxnSideUnchanged
  <1>2. ASSUME NEW t \in Txns, Service(t) PROVE Durable \subseteq Durable'
    BY <1>2, ServiceAccepts DEF IInv
  <1>3. ASSUME NEW e \in Events, PublishAlone(e) PROVE Durable \subseteq Durable'
    BY <1>3 DEF PublishAlone, Durable
  <1>4. ASSUME NEW r \in Relays, Relay(r) PROVE UNCHANGED txVars
    BY <1>4 DEF Relay, Fetch, WriteDone, Delete, Abort, Restart
  <1>5. ASSUME NEW r \in Relays, NEW p \in Partitions, Writer(r, p) PROVE UNCHANGED txVars
    BY <1>5 DEF Writer, LandLate, Land, LandUnacknowledged, GiveUp
  <1>6. QED BY <1>1, <1>2, <1>3, <1>4, <1>5 DEF Next, vars

\* A step stamps a new event, or none.
LEMMA NextStamp ==
  ASSUME [Next]_vars
  PROVE  \/ UNCHANGED <<preds, createdAt>>
         \/ \E e \in Events : e \notin Known /\ Stamp(e)
  <1>1. CASE UNCHANGED txVars
    BY <1>1 DEF txVars
  <1>2. ASSUME NEW t \in Txns, Service(t)
        PROVE  \/ UNCHANGED <<preds, createdAt>>
               \/ \E e \in Events : e \notin Known /\ Stamp(e)
    <2>1. CASE \E e \in Events : PublishStaged(t, e)
      BY <2>1 DEF PublishStaged
    <2>2. CASE \E e \in Events : PublishSkipped(t, e)
      BY <2>2 DEF PublishSkipped
    <2>3. CASE \/ Begin(t) \/ BeginNested(t) \/ ReturnNested(t) \/ StatementFails(t)
               \/ PublishFails(t) \/ Commit(t) \/ Rollback(t)
      BY <2>3 DEF Begin, BeginNested, ReturnNested, StatementFails, PublishFails, Commit, Rollback
    <2>4. QED BY <1>2, <2>1, <2>2, <2>3 DEF Service
  <1>3. ASSUME NEW e \in Events, PublishAlone(e) PROVE e \notin Known /\ Stamp(e)
    BY <1>3 DEF PublishAlone
  <1>4. ASSUME NEW r \in Relays, Relay(r) PROVE UNCHANGED txVars
    BY <1>4 DEF Relay, Fetch, WriteDone, Delete, Abort, Restart
  <1>5. ASSUME NEW r \in Relays, NEW p \in Partitions, Writer(r, p) PROVE UNCHANGED txVars
    BY <1>5 DEF Writer, LandLate, Land, LandUnacknowledged, GiveUp
  <1>6. QED BY <1>1, <1>2, <1>3, <1>4, <1>5 DEF Next, vars

LEMMA NextStamps ==
  ASSUME IInv, Stamps, [Next]_vars
  PROVE  Stamps' /\ \A e \in Durable : preds'[e] = preds[e]
  <1>0. TypeOK
    BY DEF IInv
  <1>1. Durable \subseteq Durable'
    BY NextDurable
  <1>2. CASE UNCHANGED <<preds, createdAt>>
    BY <1>1, <1>2 DEF Stamps
  <1>3. ASSUME NEW x \in Events, x \notin Known, Stamp(x)
        PROVE  Stamps' /\ \A e \in Durable : preds'[e] = preds[e]
    <2>1. x \notin Durable
      BY <1>3 DEF Known, Durable
    <2>2. Durable \subseteq Events /\ createdAt \in [Events -> Nat]
      BY <1>0 DEF TypeOK, Durable
    <2>3. PICK now \in 1 .. MaxStamp :
            /\ createdAt' = [createdAt EXCEPT ![x] = now]
            /\ preds' = [preds EXCEPT ![x] = {d \in Durable : /\ EntityOf[d] = EntityOf[x]
                                                             /\ createdAt[d] < now}]
      BY <1>3 DEF Stamp
    <2>4. /\ createdAt'[x] = now
          /\ \A e \in Events \ {x} : createdAt'[e] = createdAt[e]
      BY <2>2, <2>3
    <2>5. /\ \A d \in preds'[x] : d \in Durable /\ createdAt[d] < now
          /\ \A e \in Events \ {x} : preds'[e] = preds[e]
      BY <1>0, <2>3 DEF TypeOK
    <2>6. \A d \in Durable : d # x /\ createdAt'[d] = createdAt[d]
      BY <2>1, <2>2, <2>4
    <2>7. ASSUME NEW e \in Events, NEW d \in preds'[e]
          PROVE  d \in Durable' /\ createdAt'[d] < createdAt'[e]
      <3>1. CASE e = x
        BY <1>1, <2>4, <2>5, <2>6, <2>7, <3>1
      <3>2. CASE e # x
        <4>1. d \in Durable /\ createdAt[d] < createdAt[e] /\ createdAt'[e] = createdAt[e]
          BY <2>4, <2>5, <2>7, <3>2 DEF Stamps
        <4>2. QED BY <1>1, <2>6, <4>1
      <3>3. QED BY <3>1, <3>2
    <2>8. QED BY <2>1, <2>2, <2>5, <2>7 DEF Stamps
  <1>4. QED BY <1>2, <1>3, NextStamp

\* What a batch carries it carries still when there is more in the log.
LEMMA StillCarries ==
  ASSUME \A e \in Durable : preds'[e] = preds[e],
         \A p \in Partitions : \A d : Lies(p, d) => Lies(p, d)'
  PROVE  \A p \in Partitions : \A B : B \subseteq Durable /\ Carries(p, B) =>
           \A e \in B :
             /\ MessageTopic(e) = PartitionTopic[p]
             /\ \A d \in preds'[e] :
                  MessageTopic(d) = PartitionTopic[p] => d \in B \/ Lies(p, d)'
  BY DEF Carries

\* What is on its way is durable.
LEMMA FlyingDurable ==
  ASSUME IInv
  PROVE  \A r \in Relays, p \in Partitions :
           /\ batch[r][p] \subseteq Durable
           /\ \A i \in DOMAIN late[r][p] : late[r][p][i] \subseteq Durable
  <1>1. TypeOK /\ InFlight \subseteq Durable
    BY DEF IInv, NoPhantomEvent
  <1>2. ASSUME NEW r \in Relays, NEW p \in Partitions
        PROVE  batch[r][p] \subseteq Events /\ \A i \in DOMAIN late[r][p] : late[r][p][i] \subseteq Events
    BY <1>1 DEF TypeOK
  <1>3. QED BY <1>1, <1>2 DEF InFlight

\* A step of a service leaves relays, writers and Kafka alone.
LEMMA QuietOrder ==
  ASSUME OrderIInv, [Next]_vars, UNCHANGED <<relayVars, log>>
  PROVE  IdleHoldsNothing' /\ BatchesCarry' /\ \A p \in Partitions : Ahead(p)'
  <1>1. \A e \in Durable : preds'[e] = preds[e]
    BY NextStamps DEF OrderIInv
  <1>2. \A p \in Partitions : \A d : Lies(p, d)' <=> Lies(p, d)
    BY DEF Lies
  <1>3. BatchesCarry'
    BY <1>1, <1>2, StillCarries, FlyingDurable DEF OrderIInv, BatchesCarry, Carries, relayVars
  <1>4. \A p \in Partitions : \A i \in DOMAIN log[p] : log[p][i] \in Durable
    <2>1. TypeOK /\ Published \subseteq Durable
      BY DEF OrderIInv, IInv, NoPhantomEvent
    <2>2. \A p \in Partitions : \A i \in DOMAIN log[p] : log[p][i] \in Events
      BY <2>1 DEF TypeOK
    <2>3. QED BY <2>1, <2>2 DEF Published
  <1>5. \A p \in Partitions : Ahead(p)'
    BY <1>1, <1>4 DEF OrderIInv, Ahead
  <1>6. IdleHoldsNothing'
    BY DEF OrderIInv, IdleHoldsNothing, relayVars
  <1>7. QED BY <1>3, <1>5, <1>6

OneRelay == \A r, s \in Relays : r = s
OnePartition == \A p, q \in Partitions : PartitionTopic[p] = PartitionTopic[q] => p = q

\* What is fetched first is oldest: an event that must not be overtaken is fetched with
\* the other, or has been deleted and lies in Kafka.
LEMMA FetchOrder ==
  ASSUME OneRelay, OnePartition, OrderIInv, NEW r \in Relays, Fetch(r)
  PROVE  BatchesCarry'
  <1>0. TypeOK /\ NoLostEvent /\ Stamps /\ BatchesCarry
    BY DEF OrderIInv, IInv
  <1>1. PICK B \in PendingBatches \ {{}} :
          \E f \in Routings(B) :
            batch' = [batch EXCEPT ![r] = [p \in Partitions |-> {e \in B : f[e] = p}]]
    BY DEF Fetch
  <1>2. PICK f \in Routings(B) :
          batch' = [batch EXCEPT ![r] = [p \in Partitions |-> {e \in B : f[e] = p}]]
    BY <1>1
  <1>3. /\ UNCHANGED <<preds, log, late>>
        /\ \A p \in Partitions : \A d : Lies(p, d)' <=> Lies(p, d)
    BY DEF Fetch, txVars, Lies
  <1>4. Locked = {}
    <2>1. \A s \in Relays : s = r
      BY DEF OneRelay
    <2>2. held[r] = {}
      BY DEF OrderIInv, IdleHoldsNothing, Fetch
    <2>3. QED BY <2>1, <2>2 DEF Locked
  <1>5. B \subseteq outbox /\ \A e \in B, d \in outbox \ B : createdAt[e] <= createdAt[d]
    BY <1>4 DEF PendingBatches
  <1>6. \A e \in B : f[e] \in Partitions /\ PartitionTopic[f[e]] = MessageTopic(e)
    BY DEF Routings
  <1>7. ASSUME NEW p \in Partitions, NEW e \in B, f[e] = p, NEW d \in preds[e],
               MessageTopic(d) = PartitionTopic[p]
        PROVE  (d \in B /\ f[d] = p) \/ Lies(p, d)
    <2>1. e \in Events /\ d \in Events /\ createdAt[e] \in Nat /\ createdAt[d] \in Nat
      BY <1>0, <1>5 DEF TypeOK
    <2>2. d \in Durable /\ createdAt[d] < createdAt[e]
      BY <1>0, <2>1 DEF Stamps
    <2>3. CASE d \in outbox
      <3>1. d \in B
        BY <1>5, <2>1, <2>2, <2>3
      <3>2. QED BY <1>6, <1>7, <3>1 DEF OnePartition
    <2>4. CASE d \notin outbox
      <3>1. PICK q \in Partitions : \E i \in DOMAIN log[q] : log[q][i] = d
        BY <1>0, <2>2, <2>4 DEF NoLostEvent, Published
      <3>2. MessageTopic(d) = PartitionTopic[q]
        BY <3>1 DEF OrderIInv, Ahead
      <3>3. QED BY <1>7, <3>1, <3>2 DEF OnePartition, Lies
    <2>5. QED BY <2>3, <2>4
  <1>8. ASSUME NEW p \in Partitions
        PROVE  Carries(p, batch[r][p])'
    <2>1. batch'[r][p] = {e \in B : f[e] = p}
      BY <1>0, <1>2 DEF TypeOK
    <2>2. QED BY <1>3, <1>6, <1>7, <2>1 DEF Carries
  <1>9. \A s \in Relays : s = r
    BY DEF OneRelay
  <1>10. \A s \in Relays, p \in Partitions : \A i \in DOMAIN late[s][p] : Carries(p, late[s][p][i])'
    BY <1>0, <1>3 DEF BatchesCarry, Carries
  <1>11. QED BY <1>3, <1>8, <1>9, <1>10 DEF BatchesCarry

LEMMA RelayOrder ==
  ASSUME OneRelay, OnePartition, OrderIInv, NEW r \in Relays, Relay(r)
  PROVE  IdleHoldsNothing' /\ BatchesCarry' /\ \A p \in Partitions : Ahead(p)'
  <1>0. TypeOK /\ BatchesCarry /\ IdleHoldsNothing
    BY DEF OrderIInv, IInv
  <1>1. UNCHANGED <<preds, log>>
    BY DEF Relay, Fetch, WriteDone, Delete, Abort, Restart, txVars
  <1>2. \A p \in Partitions : \A B : Carries(p, B) =>
          \A e \in B :
            /\ MessageTopic(e) = PartitionTopic[p]
            /\ \A d \in preds'[e] : MessageTopic(d) = PartitionTopic[p] => d \in B \/ Lies(p, d)'
    BY <1>1 DEF Carries, Lies
  <1>3. \A p \in Partitions : Ahead(p)'
    BY <1>1 DEF OrderIInv, Ahead
  <1>4. IdleHoldsNothing'
    <2>1. pc \in [Relays -> {"idle", "writing", "failing", "deleting"}] /\ held \in [Relays -> SUBSET Events]
      BY <1>0 DEF TypeOK
    <2>2. QED BY <1>0, <2>1 DEF IdleHoldsNothing, Relay, Fetch, WriteDone, Delete, Abort, Restart
  <1>5. BatchesCarry'
    <2>1. CASE Fetch(r)
      BY <2>1, FetchOrder
    <2>2. CASE UNCHANGED <<batch, late>>
      BY <1>0, <1>2, <2>2 DEF BatchesCarry, Carries
    <2>3. CASE Abort(r) \/ Restart(r)
      <3>1. \A s \in Relays, p \in Partitions :
              /\ batch'[s][p] = {} \/ batch'[s][p] = batch[s][p]
              /\ \A i \in DOMAIN late'[s][p] :
                   late'[s][p][i] = batch[s][p] \/ \E j \in DOMAIN late[s][p] : late'[s][p][i] = late[s][p][j]
        <4> SUFFICES ASSUME NEW s \in Relays, NEW p \in Partitions
                     PROVE  /\ batch'[s][p] = {} \/ batch'[s][p] = batch[s][p]
                            /\ \A i \in DOMAIN late'[s][p] :
                                 late'[s][p][i] = batch[s][p]
                                   \/ \E j \in DOMAIN late[s][p] : late'[s][p][i] = late[s][p][j]
          OBVIOUS
        <4>t. /\ batch \in [Relays -> [Partitions -> SUBSET Events]]
              /\ late \in [Relays -> [Partitions -> Seq(SUBSET Events)]]
          BY <1>0 DEF TypeOK
        <4>b. /\ batch' = [batch EXCEPT ![r] = [q \in Partitions |-> {}]]
              /\ \/ late' = [late EXCEPT ![r] =
                             [q \in Partitions |-> IF batch[r][q] = {} THEN late[r][q]
                                                  ELSE Append(late[r][q], batch[r][q])]]
                 \/ late' = [late EXCEPT ![r] = [q \in Partitions |-> <<>>]]
          BY <2>3 DEF Abort, Restart
        <4>1. batch'[s][p] = {} \/ batch'[s][p] = batch[s][p]
          BY <4>t, <4>b
        <4>2. late[s][p] \in Seq(SUBSET Events) /\ batch[s][p] \in SUBSET Events
          BY <1>0 DEF TypeOK
        <4>3. \/ late'[s][p] = late[s][p] \/ late'[s][p] = <<>>
              \/ late'[s][p] = Append(late[s][p], batch[s][p])
          <5>1. CASE s = r
            BY <4>t, <4>b, <5>1
          <5>2. CASE s # r
            BY <4>t, <4>b, <5>2
          <5>3. QED BY <5>1, <5>2
        <4>4. QED BY <4>1, <4>2, <4>3, SMTT(30)
      <3>2. QED BY <1>0, <1>2, <3>1 DEF BatchesCarry, Carries
    <2>4. QED
      BY <2>1, <2>2, <2>3 DEF Relay, WriteDone, Delete
  <1>6. QED BY <1>3, <1>4, <1>5

\* A batch is produced behind what it must not overtake, and in the order of creation.
LEMMA AppendOrder ==
  ASSUME OrderIInv, NEW p \in Partitions, NEW B, B \subseteq Durable, Carries(p, B), AppendBatch(p, B),
         UNCHANGED preds
  PROVE  /\ \A q \in Partitions : Ahead(q)'
         /\ \A q \in Partitions : \A d : Lies(q, d) => Lies(q, d)'
  <1>0. TypeOK /\ Stamps /\ \A q \in Partitions : Ahead(q)
    BY DEF OrderIInv, IInv
  <1>1. PICK s \in ByCreation(B) : log' = [log EXCEPT ![p] = log[p] \o s]
    BY DEF AppendBatch
  <1>2. PICK n \in 1 .. BatchSize : s \in [1 .. n -> B]
    BY DEF ByCreation
  <1>3. /\ \A e \in B : \E i \in 1 .. n : s[i] = e
        /\ \A i, j \in 1 .. n : i < j => createdAt[s[i]] <= createdAt[s[j]]
    BY <1>2 DEF ByCreation
  <1>4. n \in Nat /\ B \subseteq Events
    BY <1>0, OutboxAssumption DEF OutboxAssumption, TypeOK, Durable
  <1>5. s \in Seq(Events) /\ Len(s) = n /\ log[p] \in Seq(Events) /\ Len(log[p]) \in Nat
    BY <1>0, <1>2, <1>4 DEF TypeOK
  <1> DEFINE m == Len(log[p])
             new == log[p] \o s
  <1>6. /\ Len(new) = m + n /\ DOMAIN new = 1 .. m + n
        /\ \A i \in 1 .. m : new[i] = log[p][i]
        /\ \A i \in 1 .. n : new[m + i] = s[i]
    <2>1. /\ new \in Seq(Events) /\ Len(new) = m + n
          /\ \A i \in 1 .. m + n : new[i] = IF i <= m THEN log[p][i] ELSE s[i - m]
      BY <1>5, ConcatProperties
    <2>2. QED BY <1>4, <1>5, <2>1
  <1>7. log'[p] = new /\ \A q \in Partitions \ {p} : log'[q] = log[q]
    BY <1>0, <1>1 DEF TypeOK
  <1>8. DOMAIN log[p] = 1 .. m
    BY <1>5
  <1> HIDE DEF new, m
  <1>m. m \in Nat
    BY <1>5 DEF m
  <1>9. ASSUME NEW i \in 1 .. m + n
        PROVE  /\ MessageTopic(new[i]) = PartitionTopic[p]
               /\ \A d \in preds[new[i]] :
                    MessageTopic(d) = PartitionTopic[p] => \E j \in 1 .. i - 1 : new[j] = d
    <2>1. CASE i \in 1 .. m
      <3>1. /\ MessageTopic(log[p][i]) = PartitionTopic[p]
            /\ \A d \in preds[log[p][i]] :
                 MessageTopic(d) = PartitionTopic[p] => \E j \in 1 .. i - 1 : log[p][j] = d
        BY <1>0, <1>8, <2>1 DEF Ahead
      <3>2. \A j \in 1 .. i - 1 : j \in 1 .. m
        BY <1>m, <2>1
      <3>3. QED BY <1>6, <2>1, <3>1, <3>2
    <2>2. CASE i \notin 1 .. m
      <3>1. i - m \in 1 .. n /\ i = m + (i - m)
        BY <1>4, <1>m, <2>2
      <3>2. new[i] = s[i - m]
        BY <1>6, <3>1
      <3>3. new[i] \in B
        BY <1>2, <3>1, <3>2
      <3>4. ASSUME NEW d \in preds[new[i]], MessageTopic(d) = PartitionTopic[p]
            PROVE  \E j \in 1 .. i - 1 : new[j] = d
        <4>1. d \in B \/ Lies(p, d)
          BY <3>3, <3>4 DEF Carries
        <4>2. CASE Lies(p, d)
          <5>1. PICK j \in 1 .. m : log[p][j] = d
            BY <1>8, <4>2 DEF Lies
          <5>2. j \in 1 .. i - 1
            BY <1>m, <1>4, <3>1
          <5>3. QED BY <1>6, <5>1, <5>2
        <4>3. CASE d \in B
          <5>1. PICK k \in 1 .. n : s[k] = d
            BY <1>3, <4>3
          <5>2. createdAt[d] < createdAt[new[i]] /\ createdAt[d] \in Nat /\ createdAt[new[i]] \in Nat
            BY <1>0, <1>4, <3>3, <3>4, <4>3 DEF Stamps, TypeOK
          <5>3. k < i - m
            <6>1. CASE k = i - m
              BY <3>2, <5>1, <5>2, <6>1
            <6>2. CASE i - m < k
              <7>1. createdAt[new[i]] <= createdAt[d]
                BY <1>3, <3>1, <3>2, <5>1, <6>2
              <7>2. QED BY <5>2, <7>1
            <6>3. k \in Nat /\ i - m \in Nat
              BY <1>4, <3>1
            <6>4. QED BY <6>1, <6>2, <6>3
          <5>4. m + k \in 1 .. i - 1
            BY <1>m, <1>4, <3>1, <5>3
          <5>5. new[m + k] = d
            BY <1>6, <5>1
          <5>6. QED BY <5>4, <5>5
        <4>4. QED BY <4>1, <4>2, <4>3
      <3>5. QED BY <3>3, <3>4 DEF Carries
    <2>3. QED BY <2>1, <2>2
  <1>10. ASSUME NEW q \in Partitions PROVE Ahead(q)'
    <2>1. CASE q = p
      BY <1>6, <1>7, <1>9, <2>1 DEF Ahead
    <2>2. CASE q # p
      BY <1>0, <1>7, <2>2 DEF Ahead
    <2>3. QED BY <2>1, <2>2
  <1>11. ASSUME NEW q \in Partitions, NEW d, Lies(q, d) PROVE Lies(q, d)'
    <2>1. CASE q = p
      <3>1. PICK j \in 1 .. m : log[p][j] = d
        BY <1>8, <1>11, <2>1 DEF Lies
      <3>2. j \in 1 .. m + n
        BY <1>4, <1>m
      <3>3. QED BY <1>6, <1>7, <2>1, <3>1, <3>2 DEF Lies
    <2>2. CASE q # p
      BY <1>7, <1>11, <2>2 DEF Lies
    <2>3. QED BY <2>1, <2>2
  <1>12. QED BY <1>10, <1>11

LEMMA WriterOrder ==
  ASSUME OrderIInv, NEW r \in Relays, NEW p \in Partitions, Writer(r, p)
  PROVE  IdleHoldsNothing' /\ BatchesCarry' /\ \A q \in Partitions : Ahead(q)'
  <1>0. TypeOK /\ BatchesCarry /\ IdleHoldsNothing /\ IInv
    BY DEF OrderIInv, IInv
  <1>1. UNCHANGED preds /\ UNCHANGED held
    BY DEF Writer, LandLate, Land, LandUnacknowledged, GiveUp, txVars, relayVars
  <1>2. late[r][p] \in Seq(SUBSET Events) /\ batch[r][p] \in SUBSET Events
    BY <1>0 DEF TypeOK
  <1>3. late[r][p] # <<>> =>
          /\ Head(late[r][p]) = late[r][p][1] /\ 1 \in DOMAIN late[r][p]
          /\ Tail(late[r][p]) \in Seq(SUBSET Events)
          /\ \A i \in DOMAIN Tail(late[r][p]) :
               i + 1 \in DOMAIN late[r][p] /\ Tail(late[r][p])[i] = late[r][p][i + 1]
    BY <1>2
  <1>4. (\A q \in Partitions : Ahead(q)') /\ \A q \in Partitions : \A d : Lies(q, d) => Lies(q, d)'
    <2>1. CASE UNCHANGED log
      BY <1>1, <2>1 DEF OrderIInv, Ahead, Lies
    <2>2. CASE late[r][p] # <<>> /\ AppendBatch(p, Head(late[r][p]))
      BY <1>0, <1>1, <1>3, <2>2, FlyingDurable, AppendOrder DEF BatchesCarry
    <2>3. CASE AppendBatch(p, batch[r][p])
      BY <1>0, <1>1, <2>3, FlyingDurable, AppendOrder DEF BatchesCarry
    <2>4. QED BY <2>1, <2>2, <2>3 DEF Writer, LandLate, Land, LandUnacknowledged, GiveUp
  <1>5. \A s \in Relays, q \in Partitions :
          /\ batch'[s][q] = {} \/ batch'[s][q] = batch[s][q]
          /\ \A i \in DOMAIN late'[s][q] : \E j \in DOMAIN late[s][q] : late'[s][q][i] = late[s][q][j]
    <2>1. UNCHANGED batch \/ batch' = [batch EXCEPT ![r][p] = {}]
      BY DEF Writer, LandLate, Land, LandUnacknowledged, GiveUp, relayVars
    <2>2. UNCHANGED late \/ (late[r][p] # <<>> /\ late' = [late EXCEPT ![r][p] = Tail(@)])
      BY DEF Writer, LandLate, Land, LandUnacknowledged, GiveUp, relayVars
    <2>3. ASSUME NEW s \in Relays, NEW q \in Partitions
          PROVE  batch'[s][q] = {} \/ batch'[s][q] = batch[s][q]
      <3>1. batch \in [Relays -> [Partitions -> SUBSET Events]]
        BY <1>0 DEF TypeOK
      <3>2. QED BY <2>1, <3>1
    <2>4. ASSUME NEW s \in Relays, NEW q \in Partitions, NEW i \in DOMAIN late'[s][q]
          PROVE  \E j \in DOMAIN late[s][q] : late'[s][q][i] = late[s][q][j]
      <3>1. late'[s][q] = late[s][q] \/ (s = r /\ q = p /\ late[r][p] # <<>> /\ late'[s][q] = Tail(late[r][p]))
        <4>1. late \in [Relays -> [Partitions -> Seq(SUBSET Events)]]
          BY <1>0 DEF TypeOK
        <4>2. QED BY <2>2, <4>1
      <3>2. QED BY <1>3, <2>4, <3>1
    <2>5. QED BY <2>3, <2>4
  <1>6. BatchesCarry'
    <2>1. \A e \in Durable : preds'[e] = preds[e]
      BY <1>1
    <2>2. \A s \in Relays, q \in Partitions :
            /\ batch[s][q] \subseteq Durable /\ Carries(q, batch[s][q])
            /\ \A j \in DOMAIN late[s][q] : late[s][q][j] \subseteq Durable /\ Carries(q, late[s][q][j])
      BY <1>0, FlyingDurable DEF BatchesCarry
    <2>3. \A q \in Partitions : \A B : B \subseteq Durable /\ Carries(q, B) =>
            \A e \in B :
              /\ MessageTopic(e) = PartitionTopic[q]
              /\ \A d \in preds'[e] : MessageTopic(d) = PartitionTopic[q] => d \in B \/ Lies(q, d)'
      BY <1>4, <2>1, StillCarries
    <2>4. QED BY <1>5, <2>2, <2>3 DEF BatchesCarry, Carries
  <1>7. IdleHoldsNothing'
    <2>1. \A s \in Relays : pc'[s] = "idle" => pc[s] = "idle"
      BY <1>0 DEF Writer, LandLate, Land, LandUnacknowledged, GiveUp, relayVars, TypeOK
    <2>2. QED BY <1>0, <1>1, <2>1 DEF IdleHoldsNothing
  <1>8. QED BY <1>4, <1>6, <1>7

LEMMA NextOrder ==
  ASSUME OneRelay, OnePartition
  PROVE  OrderIInv /\ [Next]_vars => OrderIInv'
  <1> SUFFICES ASSUME OrderIInv, [Next]_vars PROVE OrderIInv'
    OBVIOUS
  <1>1. IInv' /\ Stamps'
    BY NextIInv, NextStamps DEF OrderIInv
  <1>2. ASSUME UNCHANGED <<relayVars, log>>
        PROVE  IdleHoldsNothing' /\ BatchesCarry' /\ \A p \in Partitions : Ahead(p)'
    BY <1>2, QuietOrder
  <1>3. ASSUME NEW t \in Txns, Service(t) PROVE UNCHANGED <<relayVars, log>>
    BY <1>3 DEF Service, Begin, BeginNested, ReturnNested, StatementFails, PublishFails, Commit,
                Rollback, PublishStaged, PublishSkipped
  <1>4. ASSUME NEW e \in Events, PublishAlone(e) PROVE UNCHANGED <<relayVars, log>>
    BY <1>4 DEF PublishAlone
  <1>5. CASE UNCHANGED vars
    BY <1>1, <1>2, <1>5 DEF vars, OrderIInv
  <1>6. QED BY <1>1, <1>2, <1>3, <1>4, <1>5, RelayOrder, WriterOrder DEF Next, OrderIInv

\* With one relay, and topics of one partition each, no event overtakes one of its entity
\* that was durable before it was created and is stamped earlier, whatever fails, however
\* often a batch is repeated and whatever the skew of the publishers' clocks: the relay
\* fetches by created_at, and kafka-go produces the batches of a partition one after the
\* other (Order by EntityID).
THEOREM OrderKept ==
  ASSUME OneRelay, OnePartition
  PROVE  Spec => []EntityOrder
  <1>1. Init => OrderIInv
    <2> SUFFICES ASSUME Init PROVE OrderIInv
      OBVIOUS
    <2>1. Stamps /\ IdleHoldsNothing /\ BatchesCarry /\ \A p \in Partitions : Ahead(p)
      BY DEF Init, Stamps, IdleHoldsNothing, BatchesCarry, Carries, Ahead
    <2>2. QED BY <2>1, InitIInv DEF OrderIInv
  <1>2. OrderIInv => EntityOrder
    BY DEF OrderIInv, Ahead, EntityOrder
  <1>3. QED BY <1>1, <1>2, NextOrder, PTL DEF Spec

-----------------------------------------------------------------------------
(* The consumer group: types.                                              *)

LEMMA Update2 ==
  ASSUME NEW S, NEW T, NEW V, NEW f \in [S -> [T -> V]], NEW s \in S, NEW t \in T, NEW v \in V
  PROVE  [f EXCEPT ![s][t] = v] \in [S -> [T -> V]]
OBVIOUS

LEMMA ConsumerInitTypeOK == ConsumerInit => ConsumerTypeOK
BY ConsumerAssumption DEF ConsumerInit, ConsumerTypeOK, Idle, Offsets

LEMMA ConsumerNextTypeOK ==
  ASSUME ConsumerTypeOK, [ConsumerNext]_consumerVars
  PROVE  ConsumerTypeOK'
<1> USE ConsumerAssumption DEF ConsumerTypeOK, Offsets
<1>1. ASSUME NEW p \in Partitions, NEW m \in Messages, Produce(p, m) PROVE ConsumerTypeOK'
  <2>1. log' \in [Partitions -> Seq(Messages)]
    BY <1>1, AppendProperties DEF Produce, groupState
  <2>2. \A q \in Partitions : Len(log'[q]) <= MaxLog
    <3> TAKE q \in Partitions
    <3>1. CASE q = p
      BY <1>1, <3>1, AppendProperties, LenProperties DEF Produce, groupState
    <3>2. CASE q # p
      BY <1>1, <3>2 DEF Produce, groupState
    <3> QED BY <3>1, <3>2
  <2> QED BY <1>1, <2>1, <2>2 DEF Produce, groupVars, workVars, groupState
<1>2. ASSUME NEW p \in Partitions, NEW r \in Replicas, Assign(p, r) PROVE ConsumerTypeOK'
  <2>1. committed[p] + 1 \in 0 .. MaxLog + 1
    <3>1. committed[p] \in 0 .. MaxLog
      OBVIOUS
    <3> QED BY <3>1
  <2>2. session' \in [Replicas -> [Partitions -> 0 .. MaxLog + 1]]
    BY <1>2, <2>1, Update2 DEF Assign
  <2>3. disruptions' \in 0 .. MaxDisruptions
    BY <1>2, SMTT(30) DEF Assign, Disruption
  <2> QED BY <1>2, <2>2, <2>3 DEF Assign, workVars
<1>3. ASSUME NEW p \in Partitions, NEW r \in Replicas, Revoke(p, r) PROVE ConsumerTypeOK'
  <2>1. session' \in [Replicas -> [Partitions -> 0 .. MaxLog + 1]]
    <3>1. 0 \in 0 .. MaxLog + 1
      OBVIOUS
    <3> QED BY <1>3, <3>1, Update2 DEF Revoke
  <2> QED BY <1>3, <2>1 DEF Revoke, groupVars, workVars
<1>4. ASSUME NEW p \in Partitions, NEW r \in Replicas, Flush(p, r) PROVE ConsumerTypeOK'
  <2>1. stash' \in [Replicas -> [Partitions -> Offsets]]
    <3>1. 0 \in Offsets
      OBVIOUS
    <3> QED BY <1>4, <3>1, Update2 DEF Flush
  <2>2. committed' \in [Partitions -> Offsets] /\ disruptions' \in 0 .. MaxDisruptions
    <3>1. stash[r][p] \in Offsets
      OBVIOUS
    <3>2. CASE committed' = [committed EXCEPT ![p] = stash[r][p]] /\ UNCHANGED disruptions
      BY <3>1, <3>2
    <3>3. CASE UNCHANGED committed /\ Disruption
      BY <3>3 DEF Disruption
    <3> QED BY <1>4, <3>2, <3>3 DEF Flush
  <2> QED BY <1>4, <2>1, <2>2 DEF Flush, workVars
<1>5. ASSUME NEW p \in Partitions, NEW r \in Replicas, FetchMessage(p, r) PROVE ConsumerTypeOK'
  <2>1. Len(log[p]) \in Nat /\ session[r][p] \in 1 .. MaxLog
    BY <1>5, LenProperties DEF FetchMessage
  <2>2. session' \in [Replicas -> [Partitions -> 0 .. MaxLog + 1]]
    <3>1. session[r][p] + 1 \in 0 .. MaxLog + 1
      BY <2>1
    <3>2. session' = [session EXCEPT ![r][p] = session[r][p] + 1]
      BY <1>5 DEF FetchMessage
    <3> QED BY <3>1, <3>2, Update2
  <2>3. runs' \in [Partitions -> [1 .. MaxLog -> Nat]]
    <3>1. runs[p][session[r][p]] + 1 \in Nat
      BY <2>1
    <3>2. runs' = [runs EXCEPT ![p][session[r][p]] = runs[p][session[r][p]] + 1]
      BY <1>5 DEF FetchMessage
    <3> QED BY <2>1, <3>1, <3>2, Update2
  <2>4. hand' \in [Replicas -> [p : Partitions \cup {NoOne}, i : Offsets]]
    BY <1>5, <2>1 DEF FetchMessage
  <2> QED BY <1>5, <2>2, <2>3, <2>4 DEF FetchMessage, groupVars
<1>6. ASSUME NEW p \in Partitions, NEW r \in Replicas, SkipMalformed(p, r) PROVE ConsumerTypeOK'
  <2>1. Len(log[p]) \in Nat /\ session[r][p] \in 1 .. MaxLog
    BY <1>6, LenProperties DEF SkipMalformed
  <2>2. session' \in [Replicas -> [Partitions -> 0 .. MaxLog + 1]]
    <3>1. session[r][p] + 1 \in 0 .. MaxLog + 1
      BY <2>1
    <3>2. session' = [session EXCEPT ![r][p] = session[r][p] + 1]
      BY <1>6 DEF SkipMalformed
    <3> QED BY <3>1, <3>2, Update2
  <2>3. stash' \in [Replicas -> [Partitions -> Offsets]]
    <3>1. AtLeast(stash[r][p], session[r][p]) \in Offsets
      BY <2>1 DEF AtLeast
    <3>2. stash' = [stash EXCEPT ![r][p] = AtLeast(stash[r][p], session[r][p])]
      BY <1>6 DEF SkipMalformed
    <3> QED BY <3>1, <3>2, Update2
  <2> QED BY <1>6, <2>2, <2>3 DEF SkipMalformed, groupVars, workVars
<1>7. ASSUME NEW r \in Replicas, RunHandler(r) PROVE ConsumerTypeOK'
  BY <1>7 DEF RunHandler, groupVars
<1>8. ASSUME NEW r \in Replicas, Lookup(r) PROVE ConsumerTypeOK'
  BY <1>8 DEF Lookup, groupVars
<1>9. ASSUME NEW r \in Replicas, RunAction(r) PROVE ConsumerTypeOK'
  BY <1>9 DEF RunAction, groupVars
<1>10. ASSUME NEW r \in Replicas, CommitMessage(r) PROVE ConsumerTypeOK'
  <2>1. stash' \in [Replicas -> [Partitions -> Offsets]]
    <3>1. /\ stash' = [stash EXCEPT ![r][hand[r].p] = AtLeast(stash[r][hand[r].p], hand[r].i)]
          /\ hand[r].i \in Offsets
      BY <1>10 DEF CommitMessage
    <3>2. CASE hand[r].p \in Partitions
      <4>1. AtLeast(stash[r][hand[r].p], hand[r].i) \in Offsets
        BY <3>1, <3>2 DEF AtLeast
      <4> QED BY <3>1, <3>2, <4>1, Update2
    <3>3. CASE hand[r].p \notin Partitions
      <4>1. stash' = stash
        BY <3>1, <3>3
      <4> QED BY <4>1
    <3> QED BY <3>2, <3>3
  <2> QED BY <1>10, <2>1, SMTT(30) DEF CommitMessage, Idle, groupVars
<1>11. ASSUME NEW r \in Replicas, Panic(r) PROVE ConsumerTypeOK'
  BY <1>11 DEF Panic, LeaveGroup, Idle
<1>12. ASSUME NEW r \in Replicas, Crash(r) PROVE ConsumerTypeOK'
  BY <1>12 DEF Crash, LeaveGroup, Disruption, Idle
<1>13. ASSUME NEW r \in Replicas, RestartConsumer(r) PROVE ConsumerTypeOK'
  BY <1>13 DEF RestartConsumer, groupVars
<1>14. CASE UNCHANGED consumerVars
  BY <1>14 DEF consumerVars, groupVars, workVars, groupState
<1> QED
  BY <1>1, <1>2, <1>3, <1>4, <1>5, <1>6, <1>7, <1>8, <1>9, <1>10, <1>11, <1>12,
     <1>13, <1>14 DEF ConsumerNext, Consume, Start, Reader

\* Every variable of the consumer group keeps its type, and no replica's reader
\* is ever past the end of the log.
THEOREM ConsumerTypeCorrect == ConsumerSpec => []ConsumerTypeOK
<1>1. ConsumerInit => ConsumerTypeOK
  BY ConsumerInitTypeOK
<1>2. ConsumerTypeOK /\ [ConsumerNext]_consumerVars => ConsumerTypeOK'
  BY ConsumerNextTypeOK
<1> QED BY <1>1, <1>2, PTL DEF ConsumerSpec

-----------------------------------------------------------------------------
(* The inductive invariant.                                                *)

\* The histories only grow, and with them what has been handled.
LEMMA HistoryGrows ==
  ASSUME ConsumerTypeOK, [ConsumerNext]_consumerVars
  PROVE  /\ ran \subseteq ran'
         /\ \A q \in Partitions :
              /\ Len(log[q]) \in Nat
              /\ Len(log[q]) <= Len(log'[q])
              /\ \A i \in 1 .. Len(log[q]) : log'[q][i] = log[q][i]
<1>1. \A q \in Partitions : log[q] \in Seq(Messages) /\ Len(log[q]) \in Nat
  BY LenProperties DEF ConsumerTypeOK
<1>2. ASSUME NEW p \in Partitions, NEW m \in Messages, Produce(p, m)
      PROVE  /\ ran' = ran
             /\ \A q \in Partitions :
                  /\ Len(log[q]) <= Len(log'[q])
                  /\ \A i \in 1 .. Len(log[q]) : log'[q][i] = log[q][i]
  <2>1. ran' = ran /\ log' = [log EXCEPT ![p] = Append(log[p], m)]
    BY <1>2 DEF Produce, groupState
  <2>2. /\ Len(Append(log[p], m)) = Len(log[p]) + 1
        /\ \A i \in 1 .. Len(log[p]) : Append(log[p], m)[i] = log[p][i]
    BY <1>1, AppendProperties
  <2>3. log'[p] = Append(log[p], m) /\ \A q \in Partitions \ {p} : log'[q] = log[q]
    BY <2>1 DEF ConsumerTypeOK
  <2> QED BY <1>1, <2>1, <2>2, <2>3
<1>3. CASE Consume
  <2>1. log' = log /\ ran \subseteq ran'
    BY <1>3 DEF Consume, Start, Reader, Assign, Revoke, Flush, FetchMessage, SkipMalformed,
       RunHandler, Lookup, RunAction, CommitMessage, Panic, Crash, RestartConsumer
  <2> QED BY <1>1, <2>1
<1>4. CASE UNCHANGED consumerVars
  BY <1>1, <1>4 DEF consumerVars, groupState
<1> QED BY <1>1, <1>2, <1>3, <1>4 DEF ConsumerNext

LEMMA HandledStays ==
  ASSUME ConsumerTypeOK, [ConsumerNext]_consumerVars, NEW q \in Partitions, NEW n \in Nat,
     AllHandled(q, n)
  PROVE  AllHandled(q, n)'
<1>1. /\ ran \subseteq ran'
      /\ Len(log[q]) \in Nat
      /\ Len(log[q]) <= Len(log'[q])
      /\ \A i \in 1 .. Len(log[q]) : log'[q][i] = log[q][i]
  BY HistoryGrows
<1>2. Len(log'[q]) \in Nat
  BY ConsumerNextTypeOK, LenProperties DEF ConsumerTypeOK
<1>3. n <= Len(log'[q])
  BY <1>1, <1>2 DEF AllHandled
<1>4. ASSUME NEW i \in 1 .. n PROVE Handled(q, i)'
  <2>1. Handled(q, i) /\ i \in 1 .. Len(log[q])
    BY <1>1 DEF AllHandled
  <2> QED BY <1>1, <2>1 DEF Handled
<1> QED BY <1>3, <1>4 DEF AllHandled

LEMMA OneHandlerMore ==
  ASSUME NEW q, NEW n \in Nat \ {0}, AllHandled(q, n - 1), n <= Len(log[q]), Handled(q, n)
  PROVE  AllHandled(q, n)
BY DEF AllHandled

\* When the dispatch of the message in hand is over, the message is handled.
LEMMA HandDone ==
  ASSUME ConsumerTypeOK, HandSound, NEW r \in Replicas, phase[r] = "actions"
  PROVE  /\ hand[r].p \in Partitions
         /\ hand[r].i \in Nat
         /\ AllHandled(hand[r].p, hand[r].i)
<1> DEFINE p == hand[r].p
           i == hand[r].i
<1>1. /\ p \in Partitions
      /\ i \in 1 .. Len(log[p])
      /\ AllHandled(p, i - 1)
      /\ step[r] = Len(HandlersOf[log[p][i]])
      /\ \A k \in 1 .. step[r] : <<p, i, k>> \in ran
  BY DEF HandSound
<1>2. log[p] \in Seq(Messages) /\ Len(log[p]) \in Nat
  BY <1>1, LenProperties DEF ConsumerTypeOK
<1>3. HandlersOf[log[p][i]] \in Seq(Handlers)
  BY <1>1, <1>2, ElementOfSeq, ConsumerAssumption
<1>4. DOMAIN HandlersOf[log[p][i]] = 1 .. step[r]
  BY <1>1, <1>3, LenProperties
<1>5. Handled(p, i)
  BY <1>1, <1>4 DEF Handled
<1> QED BY <1>1, <1>2, <1>5, OneHandlerMore

LEMMA NextRanTyped ==
  ASSUME ConsumerIInv, [ConsumerNext]_consumerVars
  PROVE  RanTyped'
<1>1. ASSUME NEW r \in Replicas, RunHandler(r) PROVE RanTyped'
  <2>1. hand[r].p \in Partitions /\ hand[r].i \in 1 .. Len(log[hand[r].p])
    BY <1>1 DEF RunHandler, ConsumerIInv, HandSound
  <2>2. Len(log[hand[r].p]) \in Nat /\ Len(log[hand[r].p]) <= MaxLog
    BY <2>1, LenProperties DEF ConsumerIInv, ConsumerTypeOK
  <2>3. hand[r].i \in 1 .. MaxLog /\ step[r] + 1 \in Nat
    BY <2>1, <2>2, ConsumerAssumption DEF ConsumerIInv, ConsumerTypeOK
  <2> QED BY <1>1, <2>1, <2>3 DEF RunHandler, ConsumerIInv, RanTyped
<1>2. CASE ran' = ran
  BY <1>2 DEF ConsumerIInv, RanTyped
<1>3. ran' = ran \/ \E r \in Replicas : RunHandler(r)
  BY DEF ConsumerNext, Produce, Consume, Start, Reader, Assign, Revoke, Flush, FetchMessage,
     SkipMalformed, Lookup, RunAction, CommitMessage, Panic, Crash, RestartConsumer,
        consumerVars, groupState
<1> QED BY <1>1, <1>2, <1>3

LEMMA NextNoGap ==
  ASSUME ConsumerIInv, [ConsumerNext]_consumerVars
  PROVE  NoGap'
<1> SUFFICES ASSUME NEW p \in Partitions
             PROVE  AllHandled(p, committed[p])'
  BY DEF NoGap
<1>1. \E n \in Nat : n = committed'[p] /\ AllHandled(p, n)
  <2>1. committed[p] \in Nat /\ AllHandled(p, committed[p])
    BY ConsumerAssumption DEF ConsumerIInv, ConsumerTypeOK, Offsets, NoGap
  <2>2. ASSUME NEW q \in Partitions, NEW r \in Replicas, Flush(q, r)
        PROVE  \E n \in Nat : n = committed'[p] /\ AllHandled(p, n)
    <3>1. stash[r][p] \in Nat /\ AllHandled(p, stash[r][p])
      BY ConsumerAssumption DEF ConsumerIInv, ConsumerTypeOK, Offsets, StashSound
    <3>2. committed'[p] = committed[p] \/ committed'[p] = stash[r][p]
      BY <2>2 DEF Flush, ConsumerIInv, ConsumerTypeOK
    <3> QED BY <2>1, <3>1, <3>2
  <2>3. CASE committed' = committed
    BY <2>1, <2>3
  <2>4. committed' = committed \/ \E q \in Partitions, r \in Replicas : Flush(q, r)
    BY DEF ConsumerNext, Produce, Consume, Start, Reader, Assign, Revoke, FetchMessage,
       SkipMalformed,
       RunHandler, Lookup, RunAction, CommitMessage, Panic, Crash, RestartConsumer,
          consumerVars, groupVars, groupState
  <2> QED BY <2>2, <2>3, <2>4
<1>2. PICK n \in Nat : n = committed'[p] /\ AllHandled(p, n)
  BY <1>1
<1>3. AllHandled(p, n)'
  BY <1>2, HandledStays DEF ConsumerIInv
<1> QED BY <1>2, <1>3 DEF AllHandled

LEMMA NextInOrder ==
  ASSUME ConsumerIInv, [ConsumerNext]_consumerVars
  PROVE  InOrder'
<1> SUFFICES ASSUME NEW x \in ran'
             PROVE  AllHandled(x[1], x[2] - 1)'
  BY DEF InOrder
<1>1. \E q \in Partitions, n \in Nat : q = x[1] /\ n = x[2] - 1 /\ AllHandled(q, n)
  <2>1. CASE x \in ran
    <3>1. x[1] \in Partitions /\ x[2] - 1 \in Nat
      BY <2>1, ConsumerAssumption DEF ConsumerIInv, RanTyped
    <3> QED BY <2>1, <3>1 DEF ConsumerIInv, InOrder
  <2>2. ASSUME NEW r \in Replicas, RunHandler(r), x \notin ran
        PROVE  \E q \in Partitions, n \in Nat : q = x[1] /\ n = x[2] - 1 /\ AllHandled(q, n)
    <3>1. x[1] = hand[r].p /\ x[2] = hand[r].i
      BY <2>2 DEF RunHandler
    <3>2. /\ hand[r].p \in Partitions
          /\ hand[r].i \in 1 .. Len(log[hand[r].p])
          /\ AllHandled(hand[r].p, hand[r].i - 1)
      BY <2>2 DEF RunHandler, ConsumerIInv, HandSound
    <3>3. hand[r].i - 1 \in Nat
      BY <3>2, LenProperties DEF ConsumerIInv, ConsumerTypeOK
    <3> QED BY <3>1, <3>2, <3>3
  <2>3. ran' = ran \/ \E r \in Replicas : RunHandler(r)
    BY DEF ConsumerNext, Produce, Consume, Start, Reader, Assign, Revoke, Flush, FetchMessage,
       SkipMalformed, Lookup, RunAction, CommitMessage, Panic, Crash, RestartConsumer,
          consumerVars, groupState
  <2> QED BY <2>1, <2>2, <2>3
<1>2. PICK q \in Partitions, n \in Nat : q = x[1] /\ n = x[2] - 1 /\ AllHandled(q, n)
  BY <1>1
<1>3. AllHandled(q, n)'
  BY <1>2, HandledStays DEF ConsumerIInv
<1> QED BY <1>2, <1>3 DEF AllHandled

\* What HandSound says of one replica, with its message named.
HandSoundFor(r, p, i) ==
  /\ hand[r] = [p |-> p, i |-> i]
  /\ p \in Partitions
  /\ i \in 1 .. Len(log[p])
  /\ log[p][i] \notin Malformed
  /\ AllHandled(p, i - 1)
  /\ step[r] <= Len(HandlersOf[log[p][i]])
  /\ \A k \in 1 .. step[r] : <<p, i, k>> \in ran
  /\ phase[r] = "actions" => step[r] = Len(HandlersOf[log[p][i]])

LEMMA HandSoundNamed ==
  ASSUME ConsumerTypeOK, HandSound, NEW r \in Replicas, phase[r] \in {"system", "actions"}
  PROVE  \E p \in Partitions, i \in Nat \ {0} : HandSoundFor(r, p, i)
<1> DEFINE p == hand[r].p
           i == hand[r].i
<1>1. hand[r] = [p |-> p, i |-> i] /\ p \in Partitions /\ i \in 1 .. Len(log[p])
  BY DEF ConsumerTypeOK, HandSound
<1>2. i \in Nat \ {0}
  BY <1>1, LenProperties DEF ConsumerTypeOK
<1>3. HandSoundFor(r, p, i)
  BY <1>1 DEF HandSound, HandSoundFor
<1> QED BY <1>1, <1>2, <1>3

LEMMA HandSoundAll ==
  ASSUME \A r \in Replicas : phase[r] \in {"system", "actions"} =>
           \E p \in Partitions, i \in Nat \ {0} : HandSoundFor(r, p, i)
  PROVE  HandSound
<1> SUFFICES ASSUME NEW r \in Replicas, phase[r] \in {"system", "actions"},
                    NEW p \in Partitions, NEW i \in Nat \ {0}, HandSoundFor(r, p, i)
             PROVE  /\ i \in 1 .. Len(log[p])
                    /\ log[p][i] \notin Malformed
                    /\ AllHandled(p, i - 1)
                    /\ step[r] <= Len(HandlersOf[log[p][i]])
                    /\ \A k \in 1 .. step[r] : <<p, i, k>> \in ran
                    /\ phase[r] = "actions" => step[r] = Len(HandlersOf[log[p][i]])
                    /\ hand[r].p = p
                    /\ hand[r].i = i
  BY DEF HandSound
<1> QED BY DEF HandSoundFor

\* The actions that touch what replica r has in hand.
LEMMA HandChanges ==
  ASSUME ConsumerTypeOK, [ConsumerNext]_consumerVars, NEW r \in Replicas
  PROVE  \/ /\ phase'[r] = phase[r]
            /\ hand'[r] = hand[r]
            /\ step'[r] = step[r]
         \/ \E p \in Partitions : FetchMessage(p, r)
         \/ RunHandler(r)
         \/ Lookup(r)
         \/ CommitMessage(r)
         \/ phase'[r] \notin {"system", "actions"} /\ session'[r] = [p \in Partitions |-> 0]
         \/ RestartConsumer(r)
<1>1. CASE UNCHANGED workVars
  BY <1>1 DEF workVars
<1>2. ASSUME NEW q \in Partitions, NEW s \in Replicas, FetchMessage(q, s)
      PROVE  s = r \/ (phase'[r] = phase[r] /\ hand'[r] = hand[r] /\ step'[r] = step[r])
  BY <1>2 DEF FetchMessage, ConsumerTypeOK
<1>3. ASSUME NEW s \in Replicas, RunHandler(s)
      PROVE  s = r \/ (phase'[r] = phase[r] /\ hand'[r] = hand[r] /\ step'[r] = step[r])
  BY <1>3 DEF RunHandler, ConsumerTypeOK
<1>4. ASSUME NEW s \in Replicas, Lookup(s)
      PROVE  s = r \/ (phase'[r] = phase[r] /\ hand'[r] = hand[r] /\ step'[r] = step[r])
  BY <1>4 DEF Lookup, ConsumerTypeOK
<1>5. ASSUME NEW s \in Replicas, RunAction(s)
      PROVE  phase'[r] = phase[r] /\ hand'[r] = hand[r] /\ step'[r] = step[r]
  BY <1>5 DEF RunAction
<1>6. ASSUME NEW s \in Replicas, CommitMessage(s)
      PROVE  s = r \/ (phase'[r] = phase[r] /\ hand'[r] = hand[r] /\ step'[r] = step[r])
  BY <1>6 DEF CommitMessage, ConsumerTypeOK
<1>7. ASSUME NEW s \in Replicas, Panic(s) \/ Crash(s)
      PROVE  \/ phase'[r] = phase[r] /\ hand'[r] = hand[r] /\ step'[r] = step[r]
             \/ phase'[r] \notin {"system", "actions"} /\ session'[r] = [p \in Partitions |-> 0]
  BY <1>7 DEF Panic, Crash, LeaveGroup, ConsumerTypeOK
<1>8. ASSUME NEW s \in Replicas, RestartConsumer(s)
      PROVE  s = r \/ (phase'[r] = phase[r] /\ hand'[r] = hand[r] /\ step'[r] = step[r])
  BY <1>8 DEF RestartConsumer, ConsumerTypeOK
<1>9. \/ UNCHANGED workVars
      \/ \E q \in Partitions, s \in Replicas : FetchMessage(q, s)
      \/ \E s \in Replicas : \/ RunHandler(s) \/ Lookup(s) \/ RunAction(s)
                             \/ CommitMessage(s) \/ Panic(s) \/ Crash(s) \/ RestartConsumer(s)
  BY DEF ConsumerNext, Produce, Consume, Start, Reader, Assign, Revoke, Flush,
     SkipMalformed, consumerVars, groupState
<1> QED BY <1>1, <1>2, <1>3, <1>4, <1>5, <1>6, <1>7, <1>8, <1>9

LEMMA NextHandSound ==
  ASSUME ConsumerIInv, [ConsumerNext]_consumerVars
  PROVE  HandSound'
<1> SUFFICES ASSUME NEW r \in Replicas, phase'[r] \in {"system", "actions"}
             PROVE  \E p \in Partitions, i \in Nat \ {0} : HandSoundFor(r, p, i)'
  <2>1. ASSUME NEW r \in Replicas, phase'[r] \in {"system", "actions"},
               NEW p \in Partitions, NEW i \in Nat \ {0}, HandSoundFor(r, p, i)'
        PROVE  /\ hand'[r].p \in Partitions
               /\ hand'[r].i \in 1 .. Len(log'[hand'[r].p])
               /\ log'[hand'[r].p][hand'[r].i] \notin Malformed
               /\ AllHandled(hand[r].p, hand[r].i - 1)'
               /\ step'[r] <= Len(HandlersOf[log'[hand'[r].p][hand'[r].i]])
               /\ \A k \in 1 .. step'[r] : <<hand'[r].p, hand'[r].i, k>> \in ran'
               /\ phase'[r] = "actions" =>
                    step'[r] = Len(HandlersOf[log'[hand'[r].p][hand'[r].i]])
    <3>1. hand'[r].p = p /\ hand'[r].i = i
      BY <2>1 DEF HandSoundFor
    <3>2. AllHandled(p, i - 1)' => AllHandled(hand[r].p, hand[r].i - 1)'
      BY <3>1 DEF AllHandled, Handled
    <3> QED BY <2>1, <3>1, <3>2 DEF HandSoundFor
  <2> QED BY <2>1 DEF HandSound
<1>1. ConsumerTypeOK /\ HandSound /\ ConsumerTypeOK'
  BY ConsumerNextTypeOK DEF ConsumerIInv
<1>2. /\ ran \subseteq ran'
      /\ \A q \in Partitions :
           /\ Len(log[q]) \in Nat
           /\ Len(log'[q]) \in Nat
           /\ Len(log[q]) <= Len(log'[q])
           /\ \A j \in 1 .. Len(log[q]) : log'[q][j] = log[q][j]
  <2>1. \A q \in Partitions : log'[q] \in Seq(Messages)
    BY <1>1 DEF ConsumerTypeOK
  <2> QED BY <1>1, <2>1, HistoryGrows, LenProperties
<1>3. ASSUME NEW p \in Partitions, NEW i \in Nat \ {0}, i \in 1 .. Len(log[p]),
             AllHandled(p, i - 1)
      PROVE  /\ i \in 1 .. Len(log'[p])
             /\ log'[p][i] = log[p][i]
             /\ AllHandled(p, i - 1)'
  BY <1>1, <1>2, <1>3, HandledStays
<1>4. CASE phase'[r] = phase[r] /\ hand'[r] = hand[r] /\ step'[r] = step[r]
  <2>1. PICK p \in Partitions, i \in Nat \ {0} : HandSoundFor(r, p, i)
    BY <1>1, <1>4, HandSoundNamed
  <2>2. i \in 1 .. Len(log'[p]) /\ log'[p][i] = log[p][i] /\ AllHandled(p, i - 1)'
    BY <1>3, <2>1 DEF HandSoundFor
  <2>3. HandSoundFor(r, p, i)'
    BY <1>2, <1>4, <2>1, <2>2 DEF HandSoundFor
  <2> QED BY <2>3
<1>5. ASSUME NEW p \in Partitions, FetchMessage(p, r)
      PROVE  \E q \in Partitions, i \in Nat \ {0} : HandSoundFor(r, q, i)'
  <2> DEFINE i == session[r][p]
  <2>1. i \in Nat \ {0} /\ i \in 1 .. Len(log[p]) /\ log[p][i] \notin Malformed
    BY <1>2, <1>5 DEF FetchMessage
  <2>2. /\ hand'[r] = [p |-> p, i |-> i]
        /\ step'[r] = 0
        /\ phase'[r] = "system"
        /\ phase[r] = "idle"
        /\ log' = log
    BY <1>1, <1>5 DEF FetchMessage, ConsumerTypeOK
  <2>3. AllHandled(p, i - 1)
    BY <2>1, <2>2 DEF ConsumerIInv, SessionSound
  <2>4. PICK n \in Nat \ {0} : n = i
    BY <2>1
  <2>5. n \in 1 .. Len(log'[p]) /\ log'[p][n] = log[p][n] /\ AllHandled(p, n - 1)'
    BY <1>3, <2>1, <2>3, <2>4
  <2>6. Len(HandlersOf[log[p][n]]) \in Nat
    <3>1. log[p] \in Seq(Messages) /\ n \in 1 .. Len(log[p])
      BY <1>1, <2>1, <2>4 DEF ConsumerTypeOK
    <3>2. HandlersOf[log[p][n]] \in Seq(Handlers)
      BY <3>1, ElementOfSeq, ConsumerAssumption
    <3> QED BY <3>2, LenProperties
  <2>7. HandSoundFor(r, p, n)'
    BY <2>1, <2>2, <2>4, <2>5, <2>6 DEF HandSoundFor
  <2> QED BY <2>7
<1>6. CASE RunHandler(r)
  <2>1. PICK p \in Partitions, i \in Nat \ {0} : HandSoundFor(r, p, i)
    BY <1>1, <1>6, HandSoundNamed DEF RunHandler
  <2>2. i \in 1 .. Len(log'[p]) /\ log'[p][i] = log[p][i] /\ AllHandled(p, i - 1)'
    BY <1>3, <2>1 DEF HandSoundFor
  <2>3. /\ hand' = hand
        /\ phase' = phase
        /\ phase[r] = "system"
        /\ step'[r] = step[r] + 1
        /\ step[r] \in Nat
        /\ step[r] < Len(HandlersOf[log[p][i]])
        /\ <<p, i, step[r] + 1>> \in ran'
    BY <1>1, <1>6, <2>1 DEF RunHandler, InHand, HandSoundFor, ConsumerTypeOK
  <2>4. Len(HandlersOf[log[p][i]]) \in Nat
    <3>1. log[p] \in Seq(Messages) /\ i \in 1 .. Len(log[p])
      BY <1>1, <2>1 DEF ConsumerTypeOK, HandSoundFor
    <3>2. HandlersOf[log[p][i]] \in Seq(Handlers)
      BY <3>1, ElementOfSeq, ConsumerAssumption
    <3> QED BY <3>2, LenProperties
  <2>5. \A k \in 1 .. step'[r] : <<p, i, k>> \in ran'
    <3> TAKE k \in 1 .. step'[r]
    <3>1. CASE k \in 1 .. step[r]
      BY <1>2, <2>1, <3>1 DEF HandSoundFor
    <3>2. CASE k \notin 1 .. step[r]
      <4>1. k = step[r] + 1
        BY <2>3, <3>2
      <4> QED BY <2>3, <4>1
    <3> QED BY <3>1, <3>2
  <2>6. HandSoundFor(r, p, i)'
    BY <2>1, <2>2, <2>3, <2>4, <2>5, SMTT(30) DEF HandSoundFor
  <2> QED BY <2>6
<1>7. CASE Lookup(r)
  <2>1. PICK p \in Partitions, i \in Nat \ {0} : HandSoundFor(r, p, i)
    BY <1>1, <1>7, HandSoundNamed DEF Lookup
  <2>2. i \in 1 .. Len(log'[p]) /\ log'[p][i] = log[p][i] /\ AllHandled(p, i - 1)'
    BY <1>3, <2>1 DEF HandSoundFor
  <2>3. hand' = hand /\ step' = step /\ step[r] = Len(HandlersOf[log[p][i]])
    BY <1>7, <2>1 DEF Lookup, InHand, HandSoundFor
  <2>4. HandSoundFor(r, p, i)'
    BY <1>2, <2>1, <2>2, <2>3 DEF HandSoundFor
  <2> QED BY <2>4
<1>8. CASE CommitMessage(r) \/ RestartConsumer(r)
  BY <1>1, <1>8 DEF CommitMessage, RestartConsumer, ConsumerTypeOK
<1> QED BY <1>1, <1>4, <1>5, <1>6, <1>7, <1>8, HandChanges

\* Where the offset a replica's reader has reached can come from.
LEMMA SessionChanges ==
  ASSUME ConsumerTypeOK, [ConsumerNext]_consumerVars, NEW r \in Replicas, NEW p \in Partitions
  PROVE  \/ session'[r][p] = session[r][p]
         \/ session'[r][p] = 0
         \/ session'[r][p] = committed[p] + 1
         \/ FetchMessage(p, r) /\ session'[r][p] = session[r][p] + 1
         \/ SkipMalformed(p, r) /\ session'[r][p] = session[r][p] + 1
<1>1. CASE UNCHANGED session
  BY <1>1
<1>2. ASSUME NEW q \in Partitions, NEW s \in Replicas, Assign(q, s)
      PROVE  session'[r][p] \in {session[r][p], committed[p] + 1}
  BY <1>2 DEF Assign, ConsumerTypeOK
<1>3. ASSUME NEW q \in Partitions, NEW s \in Replicas, Revoke(q, s)
      PROVE  session'[r][p] \in {session[r][p], 0}
  BY <1>3 DEF Revoke, ConsumerTypeOK
<1>4. ASSUME NEW q \in Partitions, NEW s \in Replicas, FetchMessage(q, s)
      PROVE  \/ session'[r][p] = session[r][p]
             \/ FetchMessage(p, r) /\ session'[r][p] = session[r][p] + 1
  <2>1. session' = [session EXCEPT ![s][q] = session[s][q] + 1]
    BY <1>4 DEF FetchMessage
  <2>2. CASE s = r /\ q = p
    BY <1>4, <2>1, <2>2 DEF ConsumerTypeOK
  <2>3. CASE ~ (s = r /\ q = p)
    BY <2>1, <2>3 DEF ConsumerTypeOK
  <2> QED BY <2>2, <2>3
<1>5. ASSUME NEW q \in Partitions, NEW s \in Replicas, SkipMalformed(q, s)
      PROVE  \/ session'[r][p] = session[r][p]
             \/ SkipMalformed(p, r) /\ session'[r][p] = session[r][p] + 1
  <2>1. session' = [session EXCEPT ![s][q] = session[s][q] + 1]
    BY <1>5 DEF SkipMalformed
  <2>2. CASE s = r /\ q = p
    BY <1>5, <2>1, <2>2 DEF ConsumerTypeOK
  <2>3. CASE ~ (s = r /\ q = p)
    BY <2>1, <2>3 DEF ConsumerTypeOK
  <2> QED BY <2>2, <2>3
<1>6. ASSUME NEW s \in Replicas, Panic(s) \/ Crash(s)
      PROVE  session'[r][p] \in {session[r][p], 0}
  <2>1. session' = [session EXCEPT ![s] = [q \in Partitions |-> 0]]
    BY <1>6 DEF Panic, Crash, LeaveGroup
  <2>2. session \in [Replicas -> [Partitions -> 0 .. MaxLog + 1]]
    BY DEF ConsumerTypeOK
  <2> QED BY <2>1, <2>2
<1>7. \/ UNCHANGED session
      \/ \E q \in Partitions, s \in Replicas :
           Assign(q, s) \/ Revoke(q, s) \/ FetchMessage(q, s) \/ SkipMalformed(q, s)
      \/ \E s \in Replicas : Panic(s) \/ Crash(s)
  BY DEF ConsumerNext, Produce, Consume, Start, Reader, Flush, RunHandler, Lookup, RunAction,
     CommitMessage, RestartConsumer, consumerVars, groupState
<1> QED BY <1>1, <1>2, <1>3, <1>4, <1>5, <1>6, <1>7

\* A malformed message counts as handled once its predecessors are.
LEMMA SkipDone ==
  ASSUME ConsumerIInv, NEW r \in Replicas, NEW p \in Partitions, SkipMalformed(p, r)
  PROVE  session[r][p] \in Nat \ {0} /\ AllHandled(p, session[r][p])
<1>1. /\ phase[r] = "idle"
      /\ session[r][p] \in 1 .. Len(log[p])
      /\ log[p][session[r][p]] \in Malformed
  BY DEF SkipMalformed
<1>2. Len(log[p]) \in Nat
  BY LenProperties DEF ConsumerIInv, ConsumerTypeOK
<1>3. AllHandled(p, session[r][p] - 1)
  <2>1. session[r][p] # 0
    BY <1>1, <1>2
  <2> QED BY <1>1, <2>1 DEF ConsumerIInv, SessionSound
<1>4. Handled(p, session[r][p])
  BY <1>1 DEF Handled
<1> QED BY <1>1, <1>2, <1>3, <1>4, OneHandlerMore

LEMMA NextSessionSound ==
  ASSUME ConsumerIInv, [ConsumerNext]_consumerVars
  PROVE  SessionSound'
<1> SUFFICES ASSUME NEW r \in Replicas, NEW p \in Partitions, session'[r][p] # 0
             PROVE  \/ AllHandled(p, session[r][p] - 1)'
                    \/ /\ phase'[r] \in {"system", "actions"}
                       /\ hand'[r] = [p |-> p, i |-> session'[r][p] - 1]
  BY DEF SessionSound
<1>1. ConsumerTypeOK /\ ConsumerTypeOK' /\ HandSound /\ NoGap
  BY ConsumerNextTypeOK DEF ConsumerIInv
<1>2. ASSUME NEW n \in Nat, n = session'[r][p] - 1, AllHandled(p, n)
      PROVE  AllHandled(p, session[r][p] - 1)'
  <2>1. AllHandled(p, n)'
    BY <1>1, <1>2, HandledStays
  <2> QED BY <1>2, <2>1 DEF AllHandled
<1>3. committed[p] \in Nat /\ session[r][p] \in Nat
  BY <1>1, ConsumerAssumption DEF ConsumerTypeOK, Offsets
<1>4. CASE session'[r][p] = committed[p] + 1
  BY <1>1, <1>2, <1>3, <1>4 DEF NoGap
<1>5. CASE FetchMessage(p, r) /\ session'[r][p] = session[r][p] + 1
  <2>1. hand'[r] = [p |-> p, i |-> session[r][p]] /\ phase'[r] = "system"
    BY <1>1, <1>5 DEF FetchMessage, ConsumerTypeOK
  <2> QED BY <1>3, <1>5, <2>1
<1>6. CASE SkipMalformed(p, r) /\ session'[r][p] = session[r][p] + 1
  BY <1>2, <1>3, <1>6, SkipDone
<1>7. CASE session'[r][p] = session[r][p]
  <2>1. CASE AllHandled(p, session[r][p] - 1)
    <3>1. session[r][p] - 1 \in Nat
      BY <1>3, <1>7
    <3> QED BY <1>2, <1>7, <2>1, <3>1
  <2>2. CASE /\ phase[r] \in {"system", "actions"}
             /\ hand[r] = [p |-> p, i |-> session[r][p] - 1]
    <3>1. CASE phase'[r] = phase[r] /\ hand'[r] = hand[r] /\ step'[r] = step[r]
      BY <1>7, <2>2, <3>1
    <3>2. CASE \E q \in Partitions : FetchMessage(q, r)
      BY <2>2, <3>2 DEF FetchMessage
    <3>3. CASE RunHandler(r) \/ Lookup(r)
      BY <1>1, <1>7, <2>2, <3>3 DEF RunHandler, Lookup, ConsumerTypeOK
    <3>4. CASE CommitMessage(r)
      <4>1. hand[r].p = p /\ hand[r].i = session[r][p] - 1
        BY <2>2
      <4>2. hand[r].i \in Nat /\ AllHandled(hand[r].p, hand[r].i)
        BY <1>1, <3>4, HandDone DEF CommitMessage
      <4> QED BY <1>2, <1>7, <4>1, <4>2
    <3>5. CASE session'[r] = [q \in Partitions |-> 0]
      BY <3>5
    <3>6. CASE RestartConsumer(r)
      BY <2>2, <3>6 DEF RestartConsumer
    <3> QED BY <1>1, <3>1, <3>2, <3>3, <3>4, <3>5, <3>6, HandChanges
  <2> QED BY <1>7, <2>1, <2>2 DEF ConsumerIInv, SessionSound
<1> QED BY <1>1, <1>4, <1>5, <1>6, <1>7, SessionChanges

LEMMA NextStashSound ==
  ASSUME ConsumerIInv, [ConsumerNext]_consumerVars
  PROVE  StashSound'
<1> SUFFICES ASSUME NEW r \in Replicas, NEW p \in Partitions
             PROVE  AllHandled(p, stash[r][p])'
  BY DEF StashSound
<1>1. ConsumerTypeOK /\ HandSound
  BY DEF ConsumerIInv
<1>2. stash[r][p] \in Nat /\ AllHandled(p, stash[r][p]) /\ AllHandled(p, 0)
  <2>1. stash[r][p] \in Nat /\ AllHandled(p, stash[r][p])
    BY <1>1, ConsumerAssumption DEF ConsumerTypeOK, Offsets, ConsumerIInv, StashSound
  <2>2. Len(log[p]) \in Nat
    BY <1>1, LenProperties DEF ConsumerTypeOK
  <2> QED BY <2>1, <2>2 DEF AllHandled
<1>3. \E n \in Nat : n = stash'[r][p] /\ AllHandled(p, n)
  <2>1. CASE UNCHANGED stash
    BY <1>2, <2>1
  <2>2. ASSUME NEW q \in Partitions, NEW s \in Replicas, Flush(q, s)
        PROVE  stash'[r][p] \in {stash[r][p], 0}
    BY <1>1, <2>2 DEF Flush, ConsumerTypeOK
  <2>3. ASSUME NEW q \in Partitions, NEW s \in Replicas, SkipMalformed(q, s)
        PROVE  \E n \in Nat : n = stash'[r][p] /\ AllHandled(p, n)
    <3>1. stash' = [stash EXCEPT ![s][q] = AtLeast(stash[s][q], session[s][q])]
      BY <2>3 DEF SkipMalformed
    <3>2. CASE s = r /\ q = p
      <4>1. stash'[r][p] \in {stash[r][p], session[r][p]}
        BY <1>1, <3>1, <3>2 DEF AtLeast, ConsumerTypeOK
      <4>2. session[r][p] \in Nat /\ AllHandled(p, session[r][p])
        BY <2>3, <3>2, SkipDone
      <4> QED BY <1>2, <4>1, <4>2
    <3>3. CASE ~ (s = r /\ q = p)
      <4>1. stash'[r][p] = stash[r][p]
        BY <1>1, <3>1, <3>3 DEF ConsumerTypeOK
      <4> QED BY <1>2, <4>1
    <3> QED BY <3>2, <3>3
  <2>4. ASSUME NEW s \in Replicas, CommitMessage(s)
        PROVE  \E n \in Nat : n = stash'[r][p] /\ AllHandled(p, n)
    <3>1. stash' = [stash EXCEPT ![s][hand[s].p] = AtLeast(stash[s][hand[s].p], hand[s].i)]
      BY <2>4 DEF CommitMessage
    <3>2. /\ hand[s].p \in Partitions
          /\ hand[s].i \in Nat
          /\ AllHandled(hand[s].p, hand[s].i)
      BY <1>1, <2>4, HandDone DEF CommitMessage
    <3>3. CASE s = r /\ hand[s].p = p
      <4>1. stash'[r][p] \in {stash[r][p], hand[r].i}
        BY <1>1, <3>1, <3>3 DEF AtLeast, ConsumerTypeOK
      <4> QED BY <1>2, <3>2, <3>3, <4>1
    <3>4. CASE ~ (s = r /\ hand[s].p = p)
      <4>1. stash'[r][p] = stash[r][p]
        BY <1>1, <3>1, <3>4 DEF ConsumerTypeOK
      <4> QED BY <1>2, <4>1
    <3> QED BY <3>3, <3>4
  <2>5. ASSUME NEW s \in Replicas, Crash(s)
        PROVE  stash'[r][p] \in {stash[r][p], 0}
    BY <1>1, <2>5 DEF Crash, ConsumerTypeOK
  <2>6. \/ UNCHANGED stash
        \/ \E q \in Partitions, s \in Replicas : Flush(q, s) \/ SkipMalformed(q, s)
        \/ \E s \in Replicas : CommitMessage(s) \/ Crash(s)
    BY DEF ConsumerNext, Produce, Consume, Start, Reader, Assign, Revoke, FetchMessage,
       RunHandler,
       Lookup, RunAction, Panic, RestartConsumer, consumerVars, groupState
  <2> QED BY <1>2, <2>1, <2>2, <2>3, <2>4, <2>5, <2>6
<1>4. PICK n \in Nat : n = stash'[r][p] /\ AllHandled(p, n)
  BY <1>3
<1>5. AllHandled(p, n)'
  BY <1>1, <1>4, HandledStays
<1> QED BY <1>4, <1>5 DEF AllHandled

-----------------------------------------------------------------------------
(* Dispatches, and what they are owed to.                                  *)

LEMMA NextGoneIdle ==
  ASSUME ConsumerIInv, [ConsumerNext]_consumerVars
  PROVE  GoneIdle'
<1> SUFFICES ASSUME NEW r \in Replicas, phase'[r] \in {"exited", "down"}, NEW p \in Partitions
             PROVE  owner'[p] # r /\ session'[r][p] = 0
  BY DEF GoneIdle
<1>1. ConsumerTypeOK /\ NoOne \notin Replicas
  BY ConsumerAssumption DEF ConsumerIInv
<1>2. ASSUME phase[r] \in {"exited", "down"} PROVE owner[p] # r /\ session[r][p] = 0
  BY <1>2 DEF ConsumerIInv, GoneIdle
<1>3. CASE UNCHANGED <<owner, session, phase>>
  BY <1>2, <1>3
<1>4. ASSUME NEW q \in Partitions, NEW s \in Replicas, Assign(q, s)
      PROVE  owner'[p] # r /\ session'[r][p] = 0
  <2>1. phase' = phase /\ r # s
    BY <1>4 DEF Assign, workVars, Looping
  <2> QED BY <1>1, <1>2, <1>4, <2>1 DEF Assign, ConsumerTypeOK
<1>5. ASSUME NEW q \in Partitions, NEW s \in Replicas, Revoke(q, s)
      PROVE  owner'[p] # r /\ session'[r][p] = 0
  BY <1>1, <1>2, <1>5 DEF Revoke, ConsumerTypeOK, groupVars, workVars
<1>6. ASSUME NEW q \in Partitions, NEW s \in Replicas, FetchMessage(q, s) \/ SkipMalformed(q, s)
      PROVE  owner'[p] # r /\ session'[r][p] = 0
  <2>1. owner' = owner /\ phase[s] = "idle" /\ phase[r] \in {"exited", "down"}
    BY <1>1, <1>6 DEF FetchMessage, SkipMalformed, ConsumerTypeOK, groupVars, workVars
  <2>2. session'[r] = session[r]
    BY <1>1, <1>6, <2>1 DEF FetchMessage, SkipMalformed, ConsumerTypeOK
  <2> QED BY <1>2, <2>1, <2>2
<1>7. ASSUME NEW s \in Replicas, LeaveGroup(s), phase' = [phase EXCEPT ![s] = phase'[s]]
      PROVE  owner'[p] # r /\ session'[r][p] = 0
  <2>1. CASE r = s
    BY <1>1, <1>7, <2>1 DEF LeaveGroup, ConsumerTypeOK
  <2>2. CASE r # s
    <3>1. phase'[r] = phase[r] /\ session'[r] = session[r]
      BY <1>1, <1>7, <2>2 DEF LeaveGroup, ConsumerTypeOK
    <3> QED BY <1>1, <1>2, <1>7, <3>1 DEF LeaveGroup, ConsumerTypeOK
  <2> QED BY <2>1, <2>2
<1>8. ASSUME NEW s \in Replicas, Panic(s) \/ Crash(s)
      PROVE  LeaveGroup(s) /\ phase' = [phase EXCEPT ![s] = phase'[s]]
  BY <1>1, <1>8 DEF Panic, Crash, ConsumerTypeOK
<1>9. ASSUME NEW s \in Replicas,
             RunHandler(s) \/ Lookup(s) \/ RunAction(s) \/ CommitMessage(s) \/ RestartConsumer(s)
      PROVE  owner'[p] # r /\ session'[r][p] = 0
  <2>1. UNCHANGED <<owner, session>>
    BY <1>9 DEF RunHandler, Lookup, RunAction, CommitMessage, RestartConsumer, groupVars
  <2>2. phase[r] \in {"exited", "down"}
    BY <1>1, <1>9 DEF RunHandler, Lookup, RunAction, CommitMessage, RestartConsumer,
       ConsumerTypeOK
  <2> QED BY <1>2, <2>1, <2>2
<1>10. ASSUME NEW q \in Partitions, NEW s \in Replicas, Flush(q, s)
       PROVE  UNCHANGED <<owner, session, phase>>
  BY <1>10 DEF Flush, workVars
<1>11. ASSUME NEW q \in Partitions, NEW m \in Messages, Produce(q, m)
       PROVE  UNCHANGED <<owner, session, phase>>
  BY <1>11 DEF Produce, groupVars, workVars, groupState
<1>12. CASE UNCHANGED consumerVars
  BY <1>3, <1>12 DEF consumerVars, groupVars, workVars, groupState
<1> QED
  BY <1>3, <1>4, <1>5, <1>6, <1>7, <1>8, <1>9, <1>10, <1>11, <1>12
     DEF ConsumerNext, Consume, Start, Reader

\* A replica that begins to read adds one reader at most; one that goes on or
\* stops adds none, and one that has gone past an offset is no reader of it.
LEMMA ReadersChange ==
  ASSUME NEW p \in Partitions, NEW i \in Nat, IsFiniteSet(Readers(p, i)), NEW r \in Replicas,
         \A s \in Replicas \ {r} : session'[s][p] = session[s][p]
  PROVE  /\ IsFiniteSet(Readers(p, i)')
         /\ Cardinality(Readers(p, i)) \in Nat
         /\ Cardinality(Readers(p, i)') \in Nat
         /\ Cardinality(Readers(p, i)') <= Cardinality(Readers(p, i)) + 1
         /\ (session'[r][p] \in 1 .. i => session[r][p] \in 1 .. i) =>
              Cardinality(Readers(p, i)') <= Cardinality(Readers(p, i))
         /\ session[r][p] \in 1 .. i /\ session'[r][p] \notin 1 .. i =>
              Cardinality(Readers(p, i)') = Cardinality(Readers(p, i)) - 1
<1> DEFINE R == Readers(p, i)  Q == Readers(p, i)'
<1>1. Q \subseteq R \cup {r}
  BY DEF Readers
<1>2. IsFiniteSet(R \cup {r}) /\ Cardinality(R) \in Nat /\ Cardinality(R \cup {r}) <= Cardinality(R) + 1
  <2>1. IsFiniteSet(R) /\ Cardinality(R) \in Nat
    BY FS_CardinalityType
  <2> HIDE DEF R
  <2>2. /\ IsFiniteSet(R \cup {r})
        /\ Cardinality(R \cup {r}) = IF r \in R THEN Cardinality(R) ELSE Cardinality(R) + 1
    BY <2>1, FS_AddElement
  <2> QED BY <2>1, <2>2
<1>3. IsFiniteSet(Q) /\ Cardinality(Q) <= Cardinality(R \cup {r}) /\ Cardinality(Q) \in Nat
  BY <1>1, <1>2, FS_Subset, FS_CardinalityType
<1>4. ASSUME session'[r][p] \in 1 .. i => session[r][p] \in 1 .. i
      PROVE  Cardinality(Q) <= Cardinality(R)
  <2>1. Q \subseteq R
    BY <1>4 DEF Readers
  <2> QED BY <2>1, FS_Subset
<1>5. ASSUME session[r][p] \in 1 .. i, session'[r][p] \notin 1 .. i
      PROVE  Cardinality(Q) = Cardinality(R) - 1
  <2>1. Q = R \ {r} /\ r \in R
    BY <1>5 DEF Readers
  <2> QED BY <2>1, FS_RemoveElement
<1>6. Cardinality(R \cup {r}) \in Nat
  BY <1>2, FS_CardinalityType
<1> HIDE DEF R, Q
<1>7. Cardinality(Q) <= Cardinality(R) + 1
  BY <1>2, <1>3, <1>6
<1> QED BY <1>2, <1>3, <1>4, <1>5, <1>7 DEF R, Q

LEMMA NextDispatchesAccounted ==
  ASSUME ConsumerIInv, [ConsumerNext]_consumerVars
  PROVE  DispatchesAccounted'
<1>1. ConsumerTypeOK /\ NoOne \notin Replicas /\ MaxLog \in Nat /\ MaxDisruptions \in Nat
  BY ConsumerAssumption DEF ConsumerIInv
<1>2. /\ IsFiniteSet(Exited) /\ Cardinality(Exited) \in Nat
      /\ \A p \in Partitions : \A i \in 1 .. MaxLog :
           IsFiniteSet(Readers(p, i)) /\ Cardinality(Readers(p, i)) \in Nat
  BY FS_CardinalityType DEF ConsumerIInv, DispatchesAccounted
<1>3. SUFFICES ASSUME ~ (UNCHANGED <<owner, session, phase, runs, disruptions>>)
               PROVE  DispatchesAccounted'
  BY DEF ConsumerIInv, DispatchesAccounted, Exited, Readers
<1> DEFINE Unowned(p) == IF owner[p] = NoOne THEN 1 ELSE 0
<1>4. \A p \in Partitions : \A i \in 1 .. MaxLog :
        /\ i \in Nat /\ runs[p][i] \in Nat
        /\ runs[p][i] + Cardinality(Readers(p, i)) + Unowned(p)
             <= 1 + (MaxDisruptions - disruptions) + Cardinality(Exited)
  BY <1>1 DEF ConsumerIInv, DispatchesAccounted, ConsumerTypeOK
<1>5. disruptions \in Nat /\ disruptions <= MaxDisruptions
  BY <1>1 DEF ConsumerTypeOK
<1>6. ASSUME NEW q \in Partitions, NEW r \in Replicas, Reader(q, r) PROVE DispatchesAccounted'
  <2>1. phase' = phase \/ FetchMessage(q, r)
    BY <1>6 DEF Reader, Assign, Revoke, Flush, SkipMalformed, workVars
  <2>2. Exited' = Exited
    BY <1>1, <2>1 DEF FetchMessage, Exited, ConsumerTypeOK
  <2>3. ASSUME NEW p \in Partitions, NEW s \in Replicas, s # r \/ p # q
        PROVE  session'[s][p] = session[s][p]
    BY <1>1, <1>6, <2>3 DEF Reader, Assign, Revoke, Flush, FetchMessage, SkipMalformed,
       ConsumerTypeOK
  <2>4. ASSUME NEW p \in Partitions, NEW i \in 1 .. MaxLog
        PROVE  /\ IsFiniteSet(Readers(p, i)')
               /\ Cardinality(Readers(p, i)') \in Nat
               /\ p # q => Cardinality(Readers(p, i)') <= Cardinality(Readers(p, i))
               /\ Cardinality(Readers(p, i)') <= Cardinality(Readers(p, i)) + 1
               /\ (session'[r][p] \in 1 .. i => session[r][p] \in 1 .. i) =>
                    Cardinality(Readers(p, i)') <= Cardinality(Readers(p, i))
               /\ session[r][p] \in 1 .. i /\ session'[r][p] \notin 1 .. i =>
                    Cardinality(Readers(p, i)') = Cardinality(Readers(p, i)) - 1
    <3>1. p # q => session'[r][p] = session[r][p]
      BY <2>3
    <3> QED BY <1>2, <1>4, <2>3, <3>1, ReadersChange
  <2>5. /\ disruptions' \in Nat /\ disruptions' <= disruptions
        /\ Assign(q, r) => owner'[q] # NoOne /\ (owner[q] = NoOne \/ disruptions' = disruptions - 1)
        /\ \A p \in Partitions \ {q} : owner'[p] = owner[p]
    <3>1. CASE Assign(q, r)
      BY <1>1, <1>5, <3>1 DEF Assign, Disruption, ConsumerTypeOK
    <3>2. CASE ~ Assign(q, r)
      <4>1. owner' = owner /\ (disruptions' = disruptions \/ Disruption)
        BY <1>6, <3>2 DEF Reader, Revoke, Flush, FetchMessage, SkipMalformed, groupVars
      <4> QED BY <1>5, <3>2, <4>1 DEF Disruption
    <3> QED BY <3>1, <3>2
  <2>6. ASSUME NEW p \in Partitions, NEW i \in 1 .. MaxLog
        PROVE  runs'[p][i] + Cardinality(Readers(p, i)') + Unowned(p)'
                 <= 1 + (MaxDisruptions - disruptions') + Cardinality(Exited)
    <3>1. CASE p # q
      <4>1. runs'[p][i] = runs[p][i] /\ Unowned(p)' = Unowned(p)
        BY <1>1, <1>6, <2>5, <3>1
           DEF Reader, Assign, Revoke, Flush, FetchMessage, SkipMalformed, ConsumerTypeOK
      <4> QED BY <1>1, <1>2, <1>4, <1>5, <2>4, <2>5, <3>1, <4>1
    <3>2. CASE p = q /\ Assign(q, r)
      <4>1. runs'[p][i] = runs[p][i]
        BY <3>2 DEF Assign
      <4> QED BY <1>1, <1>2, <1>4, <1>5, <2>4, <2>5, <3>2, <4>1
    <3>3. CASE p = q /\ FetchMessage(q, r)
      <4>1. /\ session[r][q] \in Nat /\ session[r][q] >= 1
            /\ session' = [session EXCEPT ![r][q] = session[r][q] + 1]
            /\ runs' = [runs EXCEPT ![q][session[r][q]] = runs[q][session[r][q]] + 1]
        BY <1>1, <3>3 DEF FetchMessage, ConsumerTypeOK
      <4>2. session'[r][q] = session[r][q] + 1
        BY <1>1, <4>1 DEF ConsumerTypeOK
      <4>3. Unowned(q)' = Unowned(q)
        BY <3>3 DEF FetchMessage, groupVars
      <4>4. CASE i = session[r][q]
        <5>1. session[r][q] \in 1 .. i /\ session'[r][q] \notin 1 .. i
          BY <4>1, <4>2, <4>4
        <5>2. runs'[q][i] = runs[q][i] + 1
          BY <1>1, <4>1, <4>4 DEF ConsumerTypeOK
        <5> QED BY <1>1, <1>2, <1>4, <1>5, <2>4, <2>5, <3>3, <4>3, <5>1, <5>2
      <4>5. CASE i # session[r][q]
        <5>1. session'[r][q] \in 1 .. i => session[r][q] \in 1 .. i
          BY <4>1, <4>2
        <5>2. runs'[q][i] = runs[q][i]
          BY <1>1, <4>1, <4>5 DEF ConsumerTypeOK
        <5> QED BY <1>1, <1>2, <1>4, <1>5, <2>4, <2>5, <3>3, <4>3, <5>1, <5>2
      <4> QED BY <4>4, <4>5
    <3>4. CASE p = q /\ (Revoke(q, r) \/ Flush(q, r) \/ SkipMalformed(q, r))
      <4>1. runs'[p][i] = runs[p][i] /\ Unowned(p)' = Unowned(p)
        BY <3>4 DEF Revoke, Flush, SkipMalformed, groupVars
      <4>2. session'[r][p] \in 1 .. i => session[r][p] \in 1 .. i
        BY <1>1, <3>4 DEF Revoke, Flush, SkipMalformed, ConsumerTypeOK
      <4> QED BY <1>1, <1>2, <1>4, <1>5, <2>4, <2>5, <4>1, <4>2
    <3> QED BY <1>6, <3>1, <3>2, <3>3, <3>4 DEF Reader
  <2> QED BY <1>2, <2>2, <2>4, <2>6 DEF DispatchesAccounted
<1>7. ASSUME NEW r \in Replicas, Panic(r) \/ Crash(r) PROVE DispatchesAccounted'
  <2>1. LeaveGroup(r) /\ runs' = runs /\ phase'[r] \in {"exited", "down"}
    BY <1>1, <1>7 DEF Panic, Crash, ConsumerTypeOK
  <2>2. ASSUME NEW p \in Partitions, NEW s \in Replicas \ {r}
        PROVE  session'[s][p] = session[s][p]
    BY <1>1, <2>1 DEF LeaveGroup, ConsumerTypeOK
  <2>3. ASSUME NEW p \in Partitions, NEW i \in 1 .. MaxLog
        PROVE  /\ IsFiniteSet(Readers(p, i)')
               /\ Cardinality(Readers(p, i)') \in Nat
               /\ Cardinality(Readers(p, i)') <= Cardinality(Readers(p, i))
    <3>1. session'[r][p] = 0
      BY <1>1, <2>1 DEF LeaveGroup, ConsumerTypeOK
    <3>2. session'[r][p] \notin 1 .. i
      BY <3>1
    <3> QED BY <1>2, <1>4, <2>2, <3>2, ReadersChange
  <2>4. ASSUME NEW p \in Partitions
        PROVE  /\ Unowned(p)' <= Unowned(p) + 1
               /\ owner[p] # r => Unowned(p)' <= Unowned(p)
    BY <2>1 DEF LeaveGroup
  <2>5. CASE Panic(r)
    <3>1. phase[r] \in {"system", "actions"} /\ phase' = [phase EXCEPT ![r] = "exited"]
      BY <2>5 DEF Panic
    <3>2. Exited' = Exited \cup {r} /\ r \notin Exited
      BY <1>1, <3>1 DEF Exited, ConsumerTypeOK
    <3>3. IsFiniteSet(Exited') /\ Cardinality(Exited') = Cardinality(Exited) + 1
      BY <1>2, <3>2, FS_AddElement
    <3>4. disruptions' = disruptions
      BY <2>5 DEF Panic
    <3> QED
      BY <1>1, <1>2, <1>4, <1>5, <2>1, <2>3, <2>4, <3>3, <3>4 DEF DispatchesAccounted
  <2>6. CASE Crash(r)
    <3>1. disruptions' = disruptions - 1 /\ disruptions > 0
      BY <2>6 DEF Crash, Disruption
    <3>2. Exited' = Exited \ {r}
      BY <1>1, <2>6 DEF Crash, Exited, ConsumerTypeOK
    <3>3. /\ IsFiniteSet(Exited')
          /\ Cardinality(Exited') = IF r \in Exited THEN Cardinality(Exited) - 1
                                    ELSE Cardinality(Exited)
      BY <1>2, <3>2, FS_RemoveElement
    <3>4. \A p \in Partitions : r \in Exited => owner[p] # r
      BY DEF ConsumerIInv, GoneIdle, Exited
    <3> QED
      BY <1>1, <1>2, <1>4, <1>5, <2>1, <2>3, <2>4, <3>1, <3>3, <3>4 DEF DispatchesAccounted
  <2> QED BY <1>7, <2>5, <2>6
<1>8. ASSUME NEW r \in Replicas, RestartConsumer(r) \/ Start(r), ~ Panic(r) PROVE DispatchesAccounted'
  <2>1. UNCHANGED <<owner, session, runs, disruptions>>
    BY <1>8 DEF Start, RunHandler, Lookup, RunAction, CommitMessage, RestartConsumer, groupVars
  <2>2. Exited' = Exited
    BY <1>1, <1>8
       DEF Start, RunHandler, Lookup, RunAction, CommitMessage, RestartConsumer, Exited,
          ConsumerTypeOK
  <2> QED BY <2>1, <2>2 DEF ConsumerIInv, DispatchesAccounted, Readers
<1>9. ASSUME NEW p \in Partitions, NEW m \in Messages, Produce(p, m) PROVE FALSE
  BY <1>3, <1>9 DEF Produce, groupVars, workVars, groupState
<1>10. CASE UNCHANGED consumerVars
  BY <1>3, <1>10 DEF consumerVars, groupVars, workVars, groupState
<1> QED BY <1>6, <1>7, <1>8, <1>9, <1>10 DEF ConsumerNext, Consume, Start

LEMMA ConsumerInitIInv == ConsumerInit => ConsumerIInv
<1> SUFFICES ASSUME ConsumerInit PROVE ConsumerIInv
  OBVIOUS
<1>1. ConsumerTypeOK
  BY ConsumerInitTypeOK
<1>2. /\ ran = {}
      /\ committed = [p \in Partitions |-> 0]
      /\ \A p \in Partitions : log[p] = <<>> /\ Len(log[p]) = 0
      /\ phase = [r \in Replicas |-> "idle"]
      /\ session = [r \in Replicas |-> [p \in Partitions |-> 0]]
      /\ stash = [r \in Replicas |-> [p \in Partitions |-> 0]]
  BY DEF ConsumerInit
<1>3. \A p \in Partitions : AllHandled(p, 0)
  BY <1>2 DEF AllHandled
<1>4. RanTyped /\ NoGap /\ InOrder /\ HandSound /\ SessionSound /\ StashSound /\ GoneIdle
  BY <1>2, <1>3 DEF RanTyped, NoGap, InOrder, HandSound, SessionSound, StashSound, GoneIdle
<1>5. DispatchesAccounted
  <2>1. Exited = {} /\ \A p \in Partitions : \A i \in 1 .. MaxLog : Readers(p, i) = {}
    BY <1>2 DEF Exited, Readers
  <2>2. /\ disruptions = MaxDisruptions /\ MaxDisruptions \in Nat
        /\ \A p \in Partitions : \A i \in 1 .. MaxLog : runs[p][i] = 0
    BY ConsumerAssumption DEF ConsumerInit
  <2>3. IsFiniteSet({}) /\ Cardinality({}) = 0
    BY FS_EmptySet
  <2> QED BY <2>1, <2>2, <2>3 DEF DispatchesAccounted
<1> QED BY <1>1, <1>4, <1>5 DEF ConsumerIInv

LEMMA ConsumerNextIInv ==
  ASSUME ConsumerIInv, [ConsumerNext]_consumerVars
  PROVE  ConsumerIInv'
<1>1. ConsumerTypeOK'
  BY ConsumerNextTypeOK DEF ConsumerIInv
<1>2. HandSound' /\ SessionSound' /\ StashSound'
  BY NextHandSound, NextSessionSound, NextStashSound
<1>3. RanTyped' /\ NoGap' /\ InOrder'
  BY NextRanTyped, NextNoGap, NextInOrder
<1>4. GoneIdle' /\ DispatchesAccounted'
  BY NextGoneIdle, NextDispatchesAccounted
<1> QED BY <1>1, <1>2, <1>3, <1>4 DEF ConsumerIInv

\* Whoever appends to the log, and however much at once, disturbs nothing that
\* the group relies on.
LEMMA LogGrows ==
  ASSUME ConsumerIInv, UNCHANGED groupState,
         log' \in [Partitions -> Seq(Messages)],
         \A p \in Partitions : /\ Len(log'[p]) <= MaxLog
                               /\ Len(log[p]) <= Len(log'[p])
                               /\ \A i \in 1 .. Len(log[p]) : log'[p][i] = log[p][i]
  PROVE  ConsumerIInv'
<1> USE DEF groupState, groupVars, workVars
<1>0. ConsumerTypeOK /\ MaxLog \in Nat
  BY ConsumerAssumption DEF ConsumerIInv
<1>1. \A p \in Partitions : Len(log[p]) \in Nat /\ Len(log'[p]) \in Nat
  BY <1>0, LenProperties DEF ConsumerTypeOK
<1>2. ASSUME NEW q \in Partitions, NEW n \in Nat, AllHandled(q, n)
      PROVE  AllHandled(q, n)'
  <2>1. n <= Len(log'[q])
    BY <1>1, <1>2 DEF AllHandled
  <2>2. ASSUME NEW i \in 1 .. n PROVE Handled(q, i)'
    <3>1. Handled(q, i) /\ i \in 1 .. Len(log[q])
      BY <1>1, <1>2 DEF AllHandled
    <3> QED BY <3>1 DEF Handled
  <2> QED BY <2>1, <2>2 DEF AllHandled
<1>3. ConsumerTypeOK'
  BY <1>0 DEF ConsumerTypeOK
<1>4. NoGap' /\ StashSound'
  <2>1. \A p \in Partitions : committed[p] \in Nat /\ AllHandled(p, committed[p])
    BY <1>0 DEF ConsumerTypeOK, Offsets, ConsumerIInv, NoGap
  <2>2. \A r \in Replicas, p \in Partitions :
          stash[r][p] \in Nat /\ AllHandled(p, stash[r][p])
    BY <1>0 DEF ConsumerTypeOK, Offsets, ConsumerIInv, StashSound
  <2>3. \A p \in Partitions : AllHandled(p, committed[p])'
    <3> SUFFICES ASSUME NEW p \in Partitions PROVE AllHandled(p, committed[p])'
      OBVIOUS
    <3>1. PICK n \in Nat : n = committed[p] /\ AllHandled(p, n)
      BY <2>1
    <3>2. AllHandled(p, n)'
      BY <1>2, <3>1
    <3> QED BY <3>1, <3>2 DEF AllHandled
  <2>4. \A r \in Replicas, p \in Partitions : AllHandled(p, stash[r][p])'
    <3> SUFFICES ASSUME NEW r \in Replicas, NEW p \in Partitions
                 PROVE  AllHandled(p, stash[r][p])'
      OBVIOUS
    <3>1. PICK n \in Nat : n = stash[r][p] /\ AllHandled(p, n)
      BY <2>2
    <3>2. AllHandled(p, n)'
      BY <1>2, <3>1
    <3> QED BY <3>1, <3>2 DEF AllHandled
  <2> QED BY <2>3, <2>4 DEF NoGap, StashSound
<1>5. InOrder'
  <2> SUFFICES ASSUME NEW x \in ran PROVE AllHandled(x[1], x[2] - 1)'
    BY DEF InOrder
  <2>1. PICK q \in Partitions, n \in Nat : q = x[1] /\ n = x[2] - 1 /\ AllHandled(q, n)
    <3>1. x[1] \in Partitions /\ x[2] - 1 \in Nat
      BY <1>0 DEF ConsumerIInv, RanTyped
    <3> QED BY <3>1 DEF ConsumerIInv, InOrder
  <2>2. AllHandled(q, n)'
    BY <1>2, <2>1
  <2> QED BY <2>1, <2>2 DEF AllHandled
<1>6. HandSound'
  <2>1. \A r \in Replicas : phase[r] \in {"system", "actions"} =>
          \E p \in Partitions, i \in Nat \ {0} : HandSoundFor(r, p, i)
    BY <1>0, HandSoundNamed DEF ConsumerIInv
  <2>2. ASSUME NEW r \in Replicas, NEW p \in Partitions, NEW i \in Nat \ {0},
               HandSoundFor(r, p, i)
        PROVE  HandSoundFor(r, p, i)'
    <3>1. AllHandled(p, i - 1)' /\ log'[p][i] = log[p][i] /\ i \in 1 .. Len(log'[p])
      BY <1>1, <1>2, <2>2 DEF HandSoundFor
    <3> QED BY <2>2, <3>1 DEF HandSoundFor
  <2>3. (\A r \in Replicas : phase[r] \in {"system", "actions"} =>
           \E p \in Partitions, i \in Nat \ {0} : HandSoundFor(r, p, i))'
    BY <2>1, <2>2
  <2> QED BY <2>3, HandSoundAll, PTL
<1>7. SessionSound'
  <2> SUFFICES ASSUME NEW r \in Replicas, NEW p \in Partitions, session[r][p] # 0
               PROVE  \/ AllHandled(p, session[r][p] - 1)'
                      \/ /\ phase[r] \in {"system", "actions"}
                         /\ hand[r] = [p |-> p, i |-> session[r][p] - 1]
    BY DEF SessionSound
  <2>1. session[r][p] - 1 \in Nat
    BY <1>0 DEF ConsumerTypeOK
  <2>2. PICK n \in Nat : n = session[r][p] - 1
    BY <2>1
  <2>3. AllHandled(p, n) => AllHandled(p, n)'
    BY <1>2
  <2>4. AllHandled(p, n)' => AllHandled(p, session[r][p] - 1)'
    BY <2>2 DEF AllHandled
  <2> QED BY <2>2, <2>3, <2>4 DEF ConsumerIInv, SessionSound
<1>8. RanTyped' /\ GoneIdle' /\ DispatchesAccounted'
  <2>1. Exited' = Exited /\ \A p, i : Readers(p, i)' = Readers(p, i)
    BY DEF Exited, Readers
  <2> QED BY <2>1 DEF ConsumerIInv, RanTyped, GoneIdle, DispatchesAccounted
<1> QED BY <1>3, <1>4, <1>5, <1>6, <1>7, <1>8 DEF ConsumerIInv

\* The committed offset, the pending commits, the readers' positions and the
\* messages in hand never run ahead of the handlers, in any behaviour of the
\* group, for any number of replicas and any interleaving of rebalances,
\* crashes, panics and delayed commits.
THEOREM ConsumerInvariant == ConsumerSpec => []ConsumerIInv
  BY ConsumerInitIInv, ConsumerNextIInv, PTL DEF ConsumerSpec

\* At least once: an offset that Kafka has as committed belongs to a message
\* every system handler of which has run, and so do all offsets below it.
THEOREM AtLeastOnce == ConsumerSpec => []NoGap
<1>1. ConsumerIInv => NoGap
  BY DEF ConsumerIInv
<1> QED BY <1>1, ConsumerInvariant, PTL

\* Order: whichever replica runs a handler on a message, the messages before
\* it in the partition have been through all of theirs.
THEOREM HandledInOrder == ConsumerSpec => []InOrder
<1>1. ConsumerIInv => InOrder
  BY DEF ConsumerIInv
<1> QED BY <1>1, ConsumerInvariant, PTL

LEMMA RedeliveriesOwed == ConsumerIInv => RedeliveriesOwedToDisruptions
<1> SUFFICES ASSUME ConsumerIInv, NEW p \in Partitions, NEW i \in 1 .. MaxLog
             PROVE  runs[p][i] <= 1 + (MaxDisruptions - disruptions) + Cardinality(Exited)
  BY DEF RedeliveriesOwedToDisruptions
<1>1. /\ IsFiniteSet(Readers(p, i)) /\ IsFiniteSet(Exited)
      /\ runs[p][i] + Cardinality(Readers(p, i)) + (IF owner[p] = NoOne THEN 1 ELSE 0)
           <= 1 + (MaxDisruptions - disruptions) + Cardinality(Exited)
  BY DEF ConsumerIInv, DispatchesAccounted
<1>2. Cardinality(Readers(p, i)) \in Nat /\ Cardinality(Exited) \in Nat
  BY <1>1, FS_CardinalityType
<1>3. runs[p][i] \in Nat /\ disruptions \in Nat /\ MaxDisruptions \in Nat
  BY ConsumerAssumption DEF ConsumerIInv, ConsumerTypeOK
<1> QED BY <1>1, <1>2, <1>3

\* Exactly once but for disturbances: how often the dispatch of a message is
\* begun exceeds one by the rebalances, crashes and failed commits there were
\* and the consumers a panic has ended, at most.
THEOREM Redeliveries == ConsumerSpec => []RedeliveriesOwedToDisruptions
  BY RedeliveriesOwed, ConsumerInvariant, PTL

-----------------------------------------------------------------------------
(* The pipeline.                                                           *)

PipelineIInv == IInv /\ ConsumerIInv /\ Exited = {}

-----------------------------------------------------------------------------
(* The shared log.                                                         *)

\* The producers only append to the log.
LEMMA ProducersAppend ==
  ASSUME TypeOK, [Next]_vars
  PROVE  \A p \in Partitions :
           /\ Len(log[p]) \in Nat
           /\ Len(log[p]) <= Len(log'[p])
           /\ \A i \in 1 .. Len(log[p]) : log'[p][i] = log[p][i]
  <1>1. /\ log \in [Partitions -> Seq(Events)]
        /\ \A p \in Partitions : log[p] \in Seq(Events) /\ Len(log[p]) \in Nat
    BY LenProperties DEF TypeOK
  <1>2. ASSUME NEW q \in Partitions, NEW B \in SUBSET Events, AppendBatch(q, B)
        PROVE  \A p \in Partitions :
                 /\ Len(log[p]) <= Len(log'[p])
                 /\ \A i \in 1 .. Len(log[p]) : log'[p][i] = log[p][i]
    <2>1. PICK s \in ByCreation(B) : log' = [log EXCEPT ![q] = log[q] \o s]
      BY <1>2 DEF AppendBatch
    <2>2. s \in Seq(Events)
      <3>1. PICK n \in 1 .. BatchSize : s \in [1 .. n -> B]
        BY <2>1 DEF ByCreation
      <3>2. n \in Nat
        BY <3>1, OutboxAssumption DEF OutboxAssumption
      <3>3. QED BY <3>1, <3>2
    <2>3. /\ Len(log[q] \o s) = Len(log[q]) + Len(s) /\ Len(s) \in Nat
          /\ \A i \in 1 .. Len(log[q]) : (log[q] \o s)[i] = log[q][i]
      BY <1>1, <2>2, ConcatProperties, LenProperties
    <2>4. log'[q] = log[q] \o s /\ \A p \in Partitions \ {q} : log'[p] = log[p]
      BY <1>1, <2>1
    <2>5. QED BY <1>1, <2>3, <2>4
  <1>3. CASE log' = log
    BY <1>1, <1>3
  <1>4. \/ log' = log
        \/ \E q \in Partitions : \E B \in SUBSET Events : AppendBatch(q, B)
    <2>1. ASSUME NEW r \in Relays, NEW q \in Partitions, Writer(r, q)
          PROVE  log' = log \/ \E B \in SUBSET Events : AppendBatch(q, B)
      <3>1. batch[r][q] \in SUBSET Events /\ late[r][q] \in Seq(SUBSET Events)
        BY DEF TypeOK
      <3>2. CASE LandLate(r, q)
        <4>1. late[r][q] # <<>>
          BY <3>2 DEF LandLate
        <4>2. Head(late[r][q]) \in SUBSET Events
          BY <3>1, <4>1, HeadTailProperties
        <4>3. log' = log \/ AppendBatch(q, Head(late[r][q]))
          BY <3>2 DEF LandLate
        <4>4. QED BY <4>2, <4>3
      <3>3. CASE Land(r, q) \/ LandUnacknowledged(r, q) \/ GiveUp(r, q)
        BY <3>1, <3>3 DEF Land, LandUnacknowledged, GiveUp
      <3>4. QED BY <2>1, <3>2, <3>3 DEF Writer
    <2>2. QED
      BY <2>1
      DEF Next, Service, Begin, BeginNested, ReturnNested, StatementFails, PublishFails,
          PublishStaged, PublishSkipped, PublishAlone, Commit, Rollback, Relay, Fetch,
          WriteDone, Delete, Abort, Restart, vars
  <1>5. QED BY <1>1, <1>2, <1>3, <1>4

\* Every copy in a partition is one of the at most 1 + MaxFaults copies of its
\* event: the partition has no more messages than there are events and copies.
LEMMA LogBounded ==
  IInv => \A p \in Partitions : Len(log[p]) <= MaxLog
  <1> SUFFICES ASSUME IInv, NEW p \in Partitions PROVE Len(log[p]) <= MaxLog
    OBVIOUS
  <1>1. /\ log[p] \in Seq(Events) /\ Len(log[p]) \in Nat
        /\ DOMAIN log[p] = 1 .. Len(log[p])
        /\ \A n \in 1 .. Len(log[p]) : log[p][n] \in Events
    BY LenProperties, ElementOfSeq DEF IInv, TypeOK
  <1>2. MaxFaults \in Nat /\ faults \in Nat
    BY OutboxAssumption DEF OutboxAssumption, IInv, TypeOK
  <1> DEFINE L == Len(log[p])
             Before(n) == {j \in 1 .. n : log[p][j] = log[p][n]}
             Rank(n) == Cardinality(Before(n))
             f == [n \in 1 .. L |-> <<log[p][n], Rank(n)>>]
             T == Events \X (1 .. 1 + MaxFaults)
  <1>3. ASSUME NEW n \in 1 .. L
        PROVE  IsFiniteSet(Before(n)) /\ Rank(n) \in Nat
    <2>1. IsFiniteSet(1 .. n)
      BY FS_Interval
    <2>2. IsFiniteSet(Before(n))
      BY <2>1, FS_Subset
    <2>3. QED BY <2>2, FS_CardinalityType
  <1>4. ASSUME NEW n \in 1 .. L
        PROVE  Rank(n) \in 1 .. 1 + MaxFaults
    <2> DEFINE e == log[p][n]
               g == [j \in Before(n) |-> <<p, j>>]
    <2>1. /\ e \in Events /\ IsFiniteSet(Places(e)) /\ Cardinality(Places(e)) \in Nat
          /\ Cardinality(Places(e)) <= 1 + (MaxFaults - faults)
      <3>1. e \in Events
        BY <1>1
      <3>2. Account(e) /\ TypeOK
        BY <3>1 DEF IInv, CopiesAccounted, Account, Expected
      <3>3. QED BY <1>2, <3>1, <3>2, FaultPays, AccountTypes DEF Account
    <2>2. \A j \in Before(n) : <<p, j>> \in Places(e)
      <3> SUFFICES ASSUME NEW j \in Before(n) PROVE <<p, j>> \in Places(e)
        OBVIOUS
      <3>1. j \in DOMAIN log[p] /\ log[p][j] = e
        BY <1>1
      <3>2. QED BY <3>1, PlacesAre
    <2>3. g \in Injection(Before(n), Places(e))
      BY <2>2 DEF Injection, IsInjective
    <2>4. Rank(n) <= Cardinality(Places(e))
      BY <2>1, <2>3, FS_Injection
    <2>5. Rank(n) # 0
      <3>1. n \in Before(n)
        BY <1>1
      <3>2. QED BY <1>3, <3>1, FS_EmptySet
    <2> HIDE DEF Before, e
    <2>6. QED BY <1>2, <1>3, <2>1, <2>4, <2>5
  <1>5. ASSUME NEW n \in 1 .. L, NEW m \in 1 .. L, n < m, log[p][n] = log[p][m]
        PROVE  Rank(n) < Rank(m)
    <2>1. /\ Before(n) \subseteq Before(m) \ {m}
          /\ m \in Before(m)
      BY <1>1, <1>5
    <2>2. /\ IsFiniteSet(Before(m) \ {m})
          /\ Cardinality(Before(m) \ {m}) = Rank(m) - 1
      BY <1>3, <2>1, FS_RemoveElement
    <2>3. Rank(n) <= Cardinality(Before(m) \ {m})
      BY <2>1, <2>2, FS_Subset
    <2>4. Rank(n) \in Nat /\ Rank(m) \in Nat
      BY <1>3
    <2> HIDE DEF Rank, Before
    <2>5. QED BY <2>2, <2>3, <2>4
  <1> HIDE DEF Rank, Before
  <1>6. f \in Injection(1 .. L, T)
    <2>1. \A n \in 1 .. L : f[n] \in T
      BY <1>1, <1>4
    <2>2. ASSUME NEW n \in 1 .. L, NEW m \in 1 .. L, f[n] = f[m]
          PROVE  n = m
      <3>1. log[p][n] = log[p][m] /\ Rank(n) = Rank(m)
        BY <2>2
      <3>2. ~ (n < m) /\ ~ (m < n)
        BY <1>3, <1>5, <3>1
      <3>3. QED BY <1>1, <3>2
    <2>3. QED BY <2>1, <2>2 DEF Injection, IsInjective
  <1>7. /\ IsFiniteSet(T)
        /\ Cardinality(T) = Cardinality(Events) * (1 + MaxFaults)
    <2>1. IsFiniteSet(1 .. 1 + MaxFaults) /\ Cardinality(1 .. 1 + MaxFaults) = 1 + MaxFaults
      BY <1>2, FS_Interval
    <2>2. IsFiniteSet(Events)
      BY PipelineAssumption DEF PipelineAssumption
    <2>3. QED BY <2>1, <2>2, FS_Product
  <1>8. Cardinality(1 .. L) = L
    BY <1>1, FS_Interval
  <1> HIDE DEF f, T
  <1>9. Cardinality(1 .. L) <= Cardinality(T)
    BY <1>6, <1>7, FS_Injection
  <1>10. Cardinality(T) <= MaxLog
    BY <1>7, PipelineAssumption DEF PipelineAssumption
  <1>11. Cardinality(T) \in Nat /\ MaxLog \in Nat
    BY <1>7, FS_CardinalityType, ConsumerAssumption DEF ConsumerAssumption
  <1>12. QED BY <1>1, <1>8, <1>9, <1>10, <1>11

-----------------------------------------------------------------------------
(* Side by side.                                                           *)

\* Without poison no consumer ends by a panic.
LEMMA NoneExits ==
  ASSUME ConsumerTypeOK, HandSound, Exited = {}, Consume
  PROVE  Exited' = {} /\ log' = log
  <1>1. \A r \in Replicas : ~ Panic(r)
    BY PipelineAssumption DEF PipelineAssumption, Panic
  <1>2. log' = log
    BY DEF Consume, Start, Reader, Assign, Revoke, Flush, FetchMessage, SkipMalformed,
       RunHandler, Lookup, RunAction, CommitMessage, Panic, Crash, RestartConsumer
  <1>3. \A r \in Replicas : phase'[r] = "exited" => phase[r] = "exited"
    <2>1. ASSUME NEW p \in Partitions, NEW r \in Replicas, Reader(p, r)
          PROVE  \A s \in Replicas : phase'[s] = "exited" => phase[s] = "exited"
      BY <2>1 DEF Reader, Assign, Revoke, Flush, FetchMessage, SkipMalformed, workVars,
         ConsumerTypeOK
    <2>2. ASSUME NEW r \in Replicas, Start(r) \/ Crash(r) \/ RestartConsumer(r)
          PROVE  \A s \in Replicas : phase'[s] = "exited" => phase[s] = "exited"
      BY <1>1, <2>2 DEF Start, RunHandler, Lookup, RunAction, CommitMessage, Crash,
         RestartConsumer, ConsumerTypeOK
    <2>3. QED BY <2>1, <2>2 DEF Consume
  <1>4. QED BY <1>2, <1>3 DEF Exited

LEMMA PipelineInitIInv == PipelineInit => PipelineIInv
  <1>1. ConsumerInit => Exited = {}
    BY DEF ConsumerInit, Exited
  <1>2. QED BY <1>1, InitIInv, ConsumerInitIInv DEF PipelineInit, PipelineIInv

LEMMA PipelineNextIInv ==
  ASSUME PipelineIInv, [PipelineNext]_pipelineVars
  PROVE  PipelineIInv'
  <1>0. IInv /\ ConsumerIInv /\ Exited = {} /\ TypeOK /\ ConsumerTypeOK /\ HandSound
    BY DEF PipelineIInv, IInv, ConsumerIInv
  <1>1. ASSUME [Next]_vars, UNCHANGED groupState PROVE PipelineIInv'
    <2>1. IInv'
      BY <1>0, <1>1, NextIInv
    <2>2. \A p \in Partitions : Len(log'[p]) <= MaxLog
      <3>1. (\A p \in Partitions : Len(log[p]) <= MaxLog)'
        BY <2>1, LogBounded, PTL
      <3>2. QED BY <3>1
    <2>3. log' \in [Partitions -> Seq(Messages)]
      BY <2>1, PipelineAssumption DEF PipelineAssumption, IInv, TypeOK
    <2>4. ConsumerIInv'
      BY <1>0, <1>1, <2>2, <2>3, ProducersAppend, LogGrows
    <2>5. Exited' = {}
      BY <1>0, <1>1 DEF Exited, groupState, workVars
    <2>6. QED BY <2>1, <2>4, <2>5 DEF PipelineIInv
  <1>2. CASE ConsumerSide
    <2>1. Consume /\ UNCHANGED <<txVars, outbox, relayVars, faults>>
      BY <1>2 DEF ConsumerSide
    <2>2. Exited' = {} /\ log' = log
      BY <1>0, <2>1, NoneExits
    <2>3. IInv'
      <3>1. UNCHANGED vars
        BY <2>1, <2>2 DEF vars
      <3>2. QED BY <1>0, <3>1, NextIInv
    <2>4. ConsumerIInv'
      BY <1>0, <2>1, ConsumerNextIInv DEF ConsumerNext
    <2>5. QED BY <2>2, <2>3, <2>4 DEF PipelineIInv
  <1>3. \/ [Next]_vars /\ UNCHANGED groupState
        \/ ConsumerSide
    BY DEF PipelineNext, ProducerSide, pipelineVars
  <1>4. QED BY <1>1, <1>2, <1>3

\* Whatever the services, the relays, the writers and the consumers do: both
\* sides keep their invariants over the common log.
THEOREM PipelineInvariant == PipelineSpec => []PipelineIInv
  BY PipelineInitIInv, PipelineNextIInv, PTL DEF PipelineSpec

-----------------------------------------------------------------------------
(* From a transaction to the handlers.                                     *)

LEMMA OccurrencesArePlaces ==
  ASSUME PipelineIInv, NEW e \in Events
  PROVE  Occurrences(e) = Places(e)
  <1>1. /\ MaxLog \in Nat
        /\ \A p \in Partitions : /\ Len(log[p]) \in Nat /\ Len(log[p]) <= MaxLog
                                 /\ DOMAIN log[p] = 1 .. Len(log[p])
    BY LenProperties, ConsumerAssumption DEF ConsumerAssumption, PipelineIInv, ConsumerIInv,
       ConsumerTypeOK
  <1>2. \A x \in Occurrences(e) : x \in Places(e)
    <2> SUFFICES ASSUME NEW x \in Occurrences(e) PROVE x \in Places(e)
      OBVIOUS
    <2>1. PICK p, i : /\ p \in Partitions /\ i \in 1 .. MaxLog /\ x = <<p, i>>
                      /\ i <= Len(log[p]) /\ log[p][i] = e
      BY DEF Occurrences
    <2>2. i \in DOMAIN log[p]
      BY <1>1, <2>1
    <2>3. QED BY <2>1, <2>2, PlacesAre
  <1>3. \A x \in Places(e) : x \in Occurrences(e)
    <2> SUFFICES ASSUME NEW x \in Places(e) PROVE x \in Occurrences(e)
      OBVIOUS
    <2>1. PICK p, i : p \in Partitions /\ i \in DOMAIN log[p] /\ log[p][i] = e /\ x = <<p, i>>
      BY PlacesAre
    <2>2. i \in 1 .. MaxLog /\ i <= Len(log[p])
      BY <1>1, <2>1
    <2>3. QED BY <2>1, <2>2 DEF Occurrences
  <1>4. QED BY <1>2, <1>3

LEMMA NothingBetween == PipelineIInv => NeverBetween
  <1> SUFFICES ASSUME PipelineIInv, NEW e \in Durable, e \notin outbox, e \notin HandledEvents
               PROVE  \E x \in Occurrences(e) : x[2] > committed[x[1]]
    BY DEF NeverBetween
  <1>1. e \in Events /\ e \in Published
    BY DEF PipelineIInv, IInv, NoLostEvent, Published
  <1>2. PICK p \in Partitions : \E i \in DOMAIN log[p] : log[p][i] = e
    BY <1>1 DEF Published
  <1>3. PICK i \in DOMAIN log[p] : log[p][i] = e
    BY <1>2
  <1>4. <<p, i>> \in Occurrences(e)
    BY <1>1, <1>3, PlacesAre, OccurrencesArePlaces
  <1>5. ~ Handled(p, i)
    BY <1>1, <1>4 DEF HandledEvents
  <1>6. i \in Nat \ {0} /\ committed[p] \in Nat /\ AllHandled(p, committed[p])
    BY <1>3, LenProperties, ConsumerAssumption
    DEF ConsumerAssumption, PipelineIInv, ConsumerIInv, ConsumerTypeOK, Offsets, NoGap
  <1>7. i > committed[p]
    BY <1>5, <1>6 DEF AllHandled
  <1>8. QED BY <1>4, <1>7

LEMMA TimesMonotone ==
  ASSUME NEW a \in Nat, NEW b \in Nat, NEW c \in Nat, a <= b
  PROVE  a * c <= b * c
  OBVIOUS

LEMMA NotDispatchedMore == PipelineIInv => DispatchesBounded
  <1> SUFFICES ASSUME PipelineIInv, NEW e \in Events
               PROVE  Cardinality(Dispatches(e))
                        <= (1 + MaxFaults - faults) * (1 + MaxDisruptions - disruptions)
    BY DEF DispatchesBounded
  <1> DEFINE P == Places(e)
             c == 1 + MaxDisruptions - disruptions
  <1>1. /\ IsFiniteSet(P) /\ Cardinality(P) \in Nat
        /\ Cardinality(P) <= 1 + MaxFaults - faults
        /\ 1 + MaxFaults - faults \in Nat
    <2>1. Account(e) /\ TypeOK
      BY DEF PipelineIInv, IInv, CopiesAccounted, Account, Expected
    <2>2. /\ Cardinality(Places(e)) \in Nat /\ Cardinality(Queued(e)) \in Nat
          /\ Cardinality(Batched(e)) \in Nat /\ Expected(e) \in {0, 1}
      BY <2>1, AccountTypes
    <2>3. faults \in Nat /\ MaxFaults \in Nat /\ faults <= MaxFaults
      BY <2>1, FaultPays
    <2>4. QED BY <2>1, <2>2, <2>3 DEF Account
  <1>2. /\ c \in Nat
        /\ \A x \in Occurrences(e) : runs[x[1]][x[2]] \in Nat /\ runs[x[1]][x[2]] <= c
    <2>1. RedeliveriesOwedToDisruptions
      BY RedeliveriesOwed DEF PipelineIInv
    <2>2. Cardinality(Exited) = 0
      BY FS_EmptySet DEF PipelineIInv
    <2>3. disruptions \in 0 .. MaxDisruptions /\ MaxDisruptions \in Nat
          /\ runs \in [Partitions -> [1 .. MaxLog -> Nat]]
      BY ConsumerAssumption
      DEF ConsumerAssumption, PipelineIInv, ConsumerIInv, ConsumerTypeOK
    <2>4. \A p \in Partitions : \A i \in 1 .. MaxLog : runs[p][i] \in Nat /\ runs[p][i] <= c
      <3> SUFFICES ASSUME NEW p \in Partitions, NEW i \in 1 .. MaxLog
                   PROVE  runs[p][i] \in Nat /\ runs[p][i] <= c
        OBVIOUS
      <3>1. runs[p][i] <= 1 + (MaxDisruptions - disruptions) + Cardinality(Exited)
        BY <2>1 DEF RedeliveriesOwedToDisruptions
      <3>2. runs[p][i] \in Nat
        BY <2>3
      <3>3. QED BY <2>2, <2>3, <3>1, <3>2
    <2>5. QED BY <2>3, <2>4 DEF Occurrences
  <1> HIDE DEF c
  <1>3. Dispatches(e) \subseteq P \X (1 .. c)
    <2> SUFFICES ASSUME NEW d \in Dispatches(e) PROVE d \in P \X (1 .. c)
      OBVIOUS
    <2>1. PICK x \in Occurrences(e) : d \in {<<x, k>> : k \in 1 .. runs[x[1]][x[2]]}
      BY DEF Dispatches
    <2>2. PICK k \in 1 .. runs[x[1]][x[2]] : d = <<x, k>>
      BY <2>1
    <2>3. k \in 1 .. c
      BY <1>2, <2>2
    <2>4. QED BY <2>1, <2>2, <2>3, OccurrencesArePlaces
  <1> HIDE DEF P
  <1>4. /\ IsFiniteSet(P \X (1 .. c))
        /\ Cardinality(P \X (1 .. c)) = Cardinality(P) * c
    <2>1. IsFiniteSet(1 .. c) /\ Cardinality(1 .. c) = c
      BY <1>2, FS_Interval
    <2>2. QED BY <1>1, <2>1, FS_Product
  <1>5. /\ Cardinality(Dispatches(e)) \in Nat
        /\ Cardinality(Dispatches(e)) <= Cardinality(P) * c
    <2>1. IsFiniteSet(Dispatches(e)) /\ Cardinality(Dispatches(e)) <= Cardinality(P \X (1 .. c))
      BY <1>3, <1>4, FS_Subset
    <2>2. QED BY <1>4, <2>1, FS_CardinalityType
  <1>6. Cardinality(P) * c <= (1 + MaxFaults - faults) * c
    BY <1>1, <1>2, TimesMonotone
  <1>7. Cardinality(P) * c \in Nat /\ (1 + MaxFaults - faults) * c \in Nat
    BY <1>1, <1>2
  <1>8. Cardinality(Dispatches(e)) <= (1 + MaxFaults - faults) * c
    BY <1>5, <1>6, <1>7
  <1>9. QED BY <1>8 DEF c

\* An event is never lost between a transaction and the handlers, and dispatched
\* again only for a fault on either side of Kafka: the two failures multiply, no
\* more.
THEOREM Handover == PipelineSpec => []HandoverSound
  <1>1. PipelineIInv => HandoverSound
    BY NothingBetween, NotDispatchedMore DEF HandoverSound
  <1>2. QED BY <1>1, PipelineInvariant, PTL

-----------------------------------------------------------------------------
(* Refinement.                                                             *)

\* What has been handled stays handled.
LEMMA HandledGrows ==
  ASSUME PipelineIInv, [PipelineNext]_pipelineVars
  PROVE  HandledEvents \subseteq HandledEvents'
  <1>0. TypeOK /\ ConsumerTypeOK
    BY DEF PipelineIInv, IInv, ConsumerIInv
  <1>1. /\ ran \subseteq ran'
        /\ \A p \in Partitions : /\ Len(log[p]) \in Nat /\ Len(log[p]) <= Len(log'[p])
                                 /\ \A i \in 1 .. Len(log[p]) : log'[p][i] = log[p][i]
    <2>1. CASE [Next]_vars /\ UNCHANGED groupState
      BY <1>0, <2>1, ProducersAppend DEF groupState
    <2>2. CASE Consume
      BY <1>0, <2>2, HistoryGrows DEF ConsumerNext
    <2>3. QED BY <2>1, <2>2 DEF PipelineNext, ProducerSide, ConsumerSide, pipelineVars
  <1>2. \A p \in Partitions : Len(log'[p]) \in Nat
    BY PipelineNextIInv, LenProperties DEF PipelineIInv, ConsumerIInv, ConsumerTypeOK
  <1>3. ASSUME NEW e \in HandledEvents PROVE e \in HandledEvents'
    <2>1. e \in Events
      BY DEF HandledEvents
    <2>2. PICK x \in Occurrences(e) : Handled(x[1], x[2])
      BY DEF HandledEvents
    <2>3. PICK p, i : /\ p \in Partitions /\ i \in 1 .. MaxLog /\ x = <<p, i>>
                      /\ i <= Len(log[p]) /\ log[p][i] = e
      BY DEF Occurrences
    <2>4. i \in 1 .. Len(log[p]) /\ i <= Len(log'[p]) /\ log'[p][i] = e
      BY <1>1, <1>2, <2>3
    <2>5. x \in Occurrences(e)'
      BY <2>3, <2>4 DEF Occurrences
    <2>6. Handled(p, i)
      BY <2>2, <2>3
    <2>7. Handled(p, i)'
      BY <1>1, <2>3, <2>4, <2>6 DEF Handled
    <2>8. Handled(x[1], x[2])'
      BY <2>3, <2>7
    <2>9. QED BY <2>1, <2>5, <2>8 DEF HandledEvents
  <1>4. QED BY <1>3

\* Only durable events reach a handler.
LEMMA HandledDurable == PipelineIInv => HandledEvents \subseteq Durable
  <1> SUFFICES ASSUME PipelineIInv, NEW e \in HandledEvents PROVE e \in Durable
    OBVIOUS
  <1>1. e \in Events
    BY DEF HandledEvents
  <1>2. PICK x \in Occurrences(e) : TRUE
    BY DEF HandledEvents
  <1>3. x \in Places(e)
    BY <1>1, OccurrencesArePlaces
  <1>4. e \in Published
    BY <1>1, <1>3, PlacesAre DEF Published
  <1>5. QED BY <1>4 DEF PipelineIInv, IInv, NoPhantomEvent

LEMMA EndToEndStep ==
  ASSUME PipelineIInv, [PipelineNext]_pipelineVars
  PROVE  [EndToEnd!Next]_(EndToEnd!vars)
  <1>0. IInv /\ TypeOK /\ HandledEvents \subseteq HandledEvents' /\ HandledEvents' \subseteq Durable'
    <2>1. PipelineIInv'
      BY PipelineNextIInv
    <2>2. (HandledEvents \subseteq Durable)'
      BY <2>1, HandledDurable, PTL
    <2>3. QED BY <2>2, HandledGrows DEF PipelineIInv, IInv
  <1>1. ASSUME Durable' = Durable
        PROVE  EndToEnd!DeliverSome
    <2>1. HandledEvents' \in SUBSET Durable /\ HandledEvents' = HandledEvents \cup HandledEvents'
      BY <1>0, <1>1
    <2>2. QED BY <1>1, <2>1 DEF EndToEnd!DeliverSome, EndToEnd!Deliver
  <1>2. ASSUME [Next]_vars, UNCHANGED groupState, Durable' # Durable
        PROVE  EndToEnd!Accept
    <2>1. Delivery!Accept
      BY <1>0, <1>2, DeliveryStep
      DEF Delivery!Next, Delivery!vars, Delivery!DeliverSome, Delivery!Deliver
    <2>2. log' = log
      <3>1. ASSUME NEW r \in Relays, NEW p \in Partitions, Writer(r, p) PROVE FALSE
        <4>1. UNCHANGED txVars
          BY <3>1 DEF Writer, LandLate, Land, LandUnacknowledged, GiveUp
        <4>2. QED BY <1>0, <1>2, <4>1, TxnSideUnchanged
      <3>2. QED
        BY <1>2, <3>1
        DEF Next, Service, Begin, BeginNested, ReturnNested, StatementFails, PublishFails,
            PublishStaged, PublishSkipped, PublishAlone, Commit, Rollback, Relay, Fetch,
            WriteDone, Delete, Abort, Restart, vars
    <2>3. HandledEvents' = HandledEvents
      BY <1>2, <2>2 DEF HandledEvents, Occurrences, Handled, groupState
    <2>4. QED BY <2>1, <2>3 DEF Delivery!Accept, EndToEnd!Accept
  <1>3. CASE ConsumerSide
    <2>1. Durable' = Durable
      BY <1>0, <1>3, TxnSideUnchanged DEF ConsumerSide
    <2>2. QED BY <1>1, <2>1 DEF EndToEnd!Next
  <1>4. QED BY <1>1, <1>2, <1>3
    DEF PipelineNext, ProducerSide, pipelineVars, EndToEnd!Next

\* Every behaviour of the whole pipeline is one of EventDelivery, with a delivery
\* read as: all system handlers of the event's key have run on it.
THEOREM EndToEndRefinement == PipelineSpec => EndToEnd!Spec
  <1>1. PipelineInit => EndToEnd!Init
    <2> SUFFICES ASSUME PipelineInit PROVE Durable = {} /\ HandledEvents = {}
      BY DEF EndToEnd!Init
    <2>1. Durable = {} /\ Published = {}
      BY DEF PipelineInit, Init, Durable, Published
    <2>2. PipelineIInv
      BY PipelineInitIInv
    <2>3. QED BY <2>1, <2>2, HandledDurable
  <1>2. QED BY <1>1, EndToEndStep, PipelineInvariant, PTL DEF PipelineSpec, EndToEnd!Spec
=============================================================================
