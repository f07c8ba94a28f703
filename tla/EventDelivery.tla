--------------------------- MODULE EventDelivery ---------------------------
(***************************************************************************)
(* What the outbox promises: an event that has become durable is delivered *)
(* sooner or later, nothing else ever is, and a delivery is not taken      *)
(* back.  How often an event is delivered, and in which order, is left     *)
(* open.                                                                   *)
(***************************************************************************)
CONSTANT Events

VARIABLES
  durable,    \* events the database has accepted for good
  delivered   \* events a consumer of the log can see

vars == <<durable, delivered>>

Init == durable = {} /\ delivered = {}

\* A transaction commits with its events, or an event is written on its own.
Accept ==
  /\ \E S \in SUBSET (Events \ durable) : durable' = durable \cup S
  /\ UNCHANGED delivered

\* Events that are durable become visible.
Deliver(S) ==
  /\ S \subseteq durable
  /\ delivered' = delivered \cup S
  /\ UNCHANGED durable

DeliverSome == \E S \in SUBSET durable : Deliver(S)

DeliverOne(e) ==
  /\ e \notin delivered
  /\ \E S \in SUBSET durable : e \in S /\ Deliver(S)

Next == Accept \/ DeliverSome

Spec == Init /\ [][Next]_vars

FairSpec == Spec /\ \A e \in Events : WF_vars(DeliverOne(e))
=============================================================================
