----------------------------- MODULE AuditTrail -----------------------------
(***************************************************************************)
(* What an event says (tmsdb, eventlog/events).  A service loads an        *)
(* entity, keeps a snapshot of it, edits it, and publishes an event with   *)
(* the snapshot as old data: writeEvent compares the two field by field,   *)
(* classifies the event by what it is about and by what has changed.  The  *)
(* audit service shows an event to whoever may read its class, and its     *)
(* changes as the entity's history, and finds a person's events by those   *)
(* who took part in them.  How an event travels is in Outbox.              *)
(***************************************************************************)
EXTENDS Naturals, FiniteSets, SequencesExt

CONSTANTS
  Fields,     \* of the entity's struct
  Tracked,    \* those CalculateChanges looks at
  Money,      \* those whose name denotes money
  ClassOf,    \* entity types -> the class of the map that lists them, or "none"
  SecurityActions,
  EventActions,
  MaxEvents   \* bound

Classes == {"OPERATIONAL", "HR", "COMPLIANCE", "FINANCIAL", "SECURITY"}

AuditAssumption ==
  /\ Tracked \subseteq Fields /\ Money \subseteq Fields
  /\ \A t \in DOMAIN ClassOf : ClassOf[t] \in Classes \cup {"none"}
  /\ SecurityActions \subseteq EventActions
  /\ MaxEvents \in Nat

VARIABLES
  entity,     \* its type
  values,     \* its fields' values
  snapshot,   \* the old data: "none", a copy, or the entity itself (a pointer to it)
  trail,      \* the events
  origin,     \* history: the values at the beginning
  known,      \* history: the values at the latest event
  gap         \* history: an event was published without a copy made before the edits

auditVars == <<entity, values, snapshot, trail, origin, known, gap>>

NoSnapshot == [of |-> "none"]

AuditInit ==
  /\ entity \in DOMAIN ClassOf
  /\ values = [f \in Fields |-> 0]
  /\ snapshot = NoSnapshot
  /\ trail = <<>>
  /\ origin = values /\ known = values
  /\ gap = FALSE

-----------------------------------------------------------------------------
(* The service.                                                            *)

Keep ==
  /\ snapshot' = [of |-> "copy", values |-> values]
  /\ UNCHANGED <<entity, values, trail, origin, known, gap>>

KeepPointer ==
  /\ snapshot' = [of |-> "pointer"]
  /\ UNCHANGED <<entity, values, trail, origin, known, gap>>

Edit(f) ==
  /\ values' = [values EXCEPT ![f] = 1 - @]
  /\ UNCHANGED <<entity, snapshot, trail, origin, known, gap>>

-----------------------------------------------------------------------------
(* writeEvent.                                                             *)

\* CalculateChanges: nothing without old data, and nothing when both are one struct.
\* Unexported fields, those without a column, and associations are skipped
\* (isAssociationField).
Changes ==
  IF snapshot.of = "copy"
  THEN {[field |-> f, old |-> snapshot.values[f], new |-> values[f]] :
          f \in {g \in Tracked : snapshot.values[g] # values[g]}}
  ELSE {}

Rank == [OPERATIONAL |-> 0, HR |-> 1, COMPLIANCE |-> 2, FINANCIAL |-> 3, SECURITY |-> 4]

\* Stricter.
Stricter(a, b) == IF Rank[b] > Rank[a] THEN b ELSE a

isSecurityAction(action) == action \in SecurityActions
isMoneyField(f) == f \in Money

\* baseClass: the entity's map decides before the action does.
baseClass(action) ==
  IF ClassOf[entity] \in {"FINANCIAL", "COMPLIANCE", "HR"} THEN ClassOf[entity]
  ELSE IF ClassOf[entity] = "SECURITY" \/ isSecurityAction(action) THEN "SECURITY"
  ELSE "OPERATIONAL"

\* (broken) A money field decides the class alone.
ClassifyByField(action, fields) ==
  IF fields \cap Money # {} THEN "FINANCIAL" ELSE baseClass(action)

\* Classify.
Classify(action, fields) ==
  IF \E f \in fields : isMoneyField(f) THEN Stricter(baseClass(action), "FINANCIAL") ELSE baseClass(action)

\* Participants: an id, 0 for the nil one, and the part it plays.
Participant == [id : 0..2, role : {"ACTOR", "SUBJECT"}]
NoCaller == 3   \* no actor in the context

hasActor(ps) == \E i \in DOMAIN ps : ps[i].role = "ACTOR"

\* WithActor: the caller comes first, unless the producer has named an actor.
WithActor(ps, caller) ==
  IF caller \in {NoCaller, 0} \/ hasActor(ps) THEN ps
  ELSE <<[id |-> caller, role |-> "ACTOR"]>> \o ps

\* ParticipantIDs: each once, in the order in which they are seen first.
ParticipantIDs(ps) ==
  FoldLeft(LAMBDA ids, p : IF p.id = 0 \/ p.id \in Range(ids) THEN ids ELSE Append(ids, p.id), <<>>, ps)

\* WithSensitivity (or "none"), WithOldData, Publish.
Publish(action, sensitivity) ==
  /\ Len(trail) < MaxEvents
  /\ trail' = Append(trail,
       [action |-> action,
        changes |-> Changes,
        explicit |-> sensitivity # "none",
        class |-> IF sensitivity # "none" THEN sensitivity
                  ELSE Classify(action, {c.field : c \in Changes})])
  /\ snapshot' = NoSnapshot
  /\ known' = values
  /\ gap' = (gap \/ snapshot.of # "copy" \/ (snapshot.of = "copy" /\ snapshot.values # known))
  /\ UNCHANGED <<entity, values, origin>>

AuditNext ==
  \/ Keep
  \/ KeepPointer
  \/ \E f \in Fields : Edit(f)
  \/ \E action \in EventActions, sensitivity \in {"none", "OPERATIONAL"} : Publish(action, sensitivity)

AuditSpec == AuditInit /\ [][AuditNext]_auditVars

-----------------------------------------------------------------------------
(* Properties.                                                             *)

\* The last change of a field among the first n events, or what it began with.
Shown(f, n) ==
  LET at == {m \in 1..n : \E c \in trail[m].changes : c.field = f}
      last == CHOOSE m \in at : \A k \in at : k <= m
  IN IF at = {} THEN origin[f] ELSE (CHOOSE c \in trail[last].changes : c.field = f).new

\* The history is complete: where every event was given a copy made before the edits,
\* its changes join without a break, each beginning where the one before ended, and end
\* in the values the latest event was published with (CalculateChanges).
HistoryComplete == ~gap =>
  /\ \A n \in DOMAIN trail : \A c \in trail[n].changes : c.old = Shown(c.field, n - 1)
  /\ \A f \in Tracked : Shown(f, Len(trail)) = known[f]

\* No change of money is shown to whoever may read less than FINANCIAL, and no event is
\* shown below its entity's class or its action's, unless its producer said so: the class
\* is made from the changes that the event shows (Classify, Stricter).
MoneyGuarded == \A n \in DOMAIN trail :
  LET e == trail[n]
  IN ~e.explicit =>
       /\ (\E c \in e.changes : c.field \in Money) => Rank[e.class] >= Rank["FINANCIAL"]
       /\ ClassOf[entity] # "none" => Rank[e.class] >= Rank[ClassOf[entity]]
       /\ e.action \in SecurityActions /\ ClassOf[entity] = "none" => e.class = "SECURITY"

\* Everybody who took part finds the event, once, and the caller does, unless the producer
\* named another actor in its place; to stamp the caller again adds none, and the order
\* is that in which the producer named them (WithActor, ParticipantIDs).
ParticipantsFound ==
  \A given \in BoundedSeq(Participant, 3), caller \in {NoCaller} \cup 0..2 :
    LET ps == WithActor(given, caller)
        ids == ParticipantIDs(ps)
        first(id) == CHOOSE i \in DOMAIN ps : ps[i].id = id /\ \A j \in 1..(i - 1) : ps[j].id # id
    IN /\ Range(ids) = {p.id : p \in Range(ps)} \ {0} /\ IsInjective(ids)
       /\ {p.id : p \in Range(given)} \ {0} \subseteq Range(ids)
       /\ caller \in 1..2 => caller \in Range(ids) \/ hasActor(given)
       /\ WithActor(ps, caller) = ps /\ IsSuffix(given, ps)
       /\ \A i, j \in DOMAIN ids : i < j => first(ids[i]) < first(ids[j])

AuditSound == HistoryComplete /\ MoneyGuarded

\* Those who took part depend on no state: they are checked where a history begins.
PeopleFound == trail = <<>> /\ snapshot = NoSnapshot /\ values = origin => ParticipantsFound
=============================================================================
