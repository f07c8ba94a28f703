------------------------------ MODULE Pipeline ------------------------------
(***************************************************************************)
(* From a service's transaction to another service's handlers: the outbox, *)
(* its relays and Kafka's log (Outbox) composed with the consumer group    *)
(* that reads the log (EventConsumer).  The log is the state they share:   *)
(* the relays' writers append to it, the consumers read it.                *)
(***************************************************************************)
EXTENDS Outbox, EventConsumer

\* The messages of the log are the events the relays marshal: they parse, and
\* no handler panics on them.  An event is in the log once, and once more for a
\* fault, so a partition is never longer than MaxLog.
ASSUME PipelineAssumption ==
  /\ Messages = Events /\ Malformed = {} /\ Poison = {}
  /\ IsFiniteSet(Events)
  /\ Cardinality(Events) * (1 + MaxFaults) <= MaxLog

pipelineVars == <<vars, groupState>>

PipelineInit == Init /\ ConsumerInit

\* A step of a service, a relay or a writer.
ProducerSide == Next /\ UNCHANGED groupState

\* A step of a consumer or of its group.
ConsumerSide == Consume /\ UNCHANGED <<txVars, outbox, relayVars, faults>>

PipelineNext == ProducerSide \/ ConsumerSide

PipelineSpec == PipelineInit /\ [][PipelineNext]_pipelineVars

FairPipelineSpec == PipelineSpec /\ Fairness /\ ConsumerFairness

-----------------------------------------------------------------------------
\* Where an event is in the log: partition and offset.
Occurrences(e) ==
  {x \in Partitions \X (1 .. MaxLog) : x[2] <= Len(log[x[1]]) /\ log[x[1]][x[2]] = e}

HandledEvents == {e \in Events : \E x \in Occurrences(e) : Handled(x[1], x[2])}

\* At every moment a durable event is a row of the outbox, or a message that is
\* not committed yet, or it has been through every system handler: no failure
\* of a relay, a writer, a consumer or a commit makes it slip between them.
NeverBetween ==
  \A e \in Durable :
    \/ e \in outbox
    \/ e \in HandledEvents
    \/ \E x \in Occurrences(e) : x[2] > committed[x[1]]

\* Every time the dispatch of the event was begun: where, and the how-manieth.
Dispatches(e) == UNION {{<<x, k>> : k \in 1 .. runs[x[1]][x[2]]} : x \in Occurrences(e)}

\* How often an event is dispatched in all: once for each time it was published,
\* and again for each disruption of the group while it was in the log.
DispatchesBounded ==
  \A e \in Events :
    Cardinality(Dispatches(e)) <= (1 + MaxFaults - faults) * (1 + MaxDisruptions - disruptions)

\* What the relay and the group (Relay.ProcessBatch, Consumer.Start) do to an
\* event together: never lost between them, and repeated only for a fault.
HandoverSound == NeverBetween /\ DispatchesBounded

\* End to end the pipeline keeps the promise of the outbox: what is durable, and
\* nothing else, is handled sooner or later, and stays handled.
EndToEnd == INSTANCE EventDelivery WITH durable <- Durable, delivered <- HandledEvents

ImplementsEndToEnd == EndToEnd!FairSpec

-----------------------------------------------------------------------------
\* A small instance, for TLC, beside Outbox's: one handler and no actions.
MCOneHandler == [e \in Events |-> <<"index">>]
MCNoActions == [e \in Events |-> {}]
=============================================================================
