---------------------------- MODULE EventConsumer ----------------------------
(***************************************************************************)
(* The Kafka side of backend-pkg: replicas of a service run                *)
(* eventlog.Consumer.Start in one consumer group.  A replica fetches a     *)
(* message, runs the system handlers registered for its key and the        *)
(* actions of the rules that match it, and commits its offset; kafka-go    *)
(* sends the commits once a second (CommitInterval), so they lag behind.   *)
(* Offsets count from 1: committed[p] messages of p are committed.         *)
(***************************************************************************)
EXTENDS Kafka

CONSTANTS
  Messages, Replicas,
  Handlers,      \* system handlers
  NoOne,         \* a partition no replica owns
  HandlersOf,    \* message -> the system handlers registered for its key
  ActionsOf,     \* message -> registered actions that a rule may ask for
  Malformed,     \* messages json.Unmarshal refuses
  Poison,        \* messages that make a handler or an action panic
  MaxLog,        \* messages per partition
  MaxDisruptions \* rebalances, crashes, redeployments, failed commits

ASSUME ConsumerAssumption ==
  /\ NoOne \notin Replicas
  /\ HandlersOf \in [Messages -> Seq(Handlers)]
  /\ Malformed \subseteq Messages
  /\ Poison \subseteq Messages
  /\ MaxLog \in Nat
  /\ MaxDisruptions \in Nat

VARIABLES
  committed,   \* the group's committed offset of each partition
  owner,       \* who the group coordinator gave a partition to
  session,     \* next offset a replica reads of a partition; 0: not reading it
  phase,       \* where Start's loop is
  hand,        \* the message in its hands: partition and offset
  step,        \* system handlers it has run on that message
  todo,        \* actions it has still to run on it
  stash,       \* offsets passed to CommitMessages and not yet sent; 0: none
  ran,         \* history: <<p, i, k>>, k-th system handler ran on offset i of p
  runs,        \* history: how often the dispatch of an offset was begun
  disruptions  \* disruptions still allowed to happen

groupVars  == <<committed, owner>>
workVars   == <<phase, hand, step, todo>>
groupState == <<groupVars, session, workVars, stash, ran, runs, disruptions>>
consumerVars == <<log, groupState>>

-----------------------------------------------------------------------------
Idle == [p |-> NoOne, i |-> 0]

InHand(r) == log[hand[r].p][hand[r].i]

AtLeast(old, new) == IF new > old THEN new ELSE old

Disruption == disruptions > 0 /\ disruptions' = disruptions - 1

Looping(r) == phase[r] \in {"idle", "system", "actions"}

ConsumerInit ==
  /\ log = [p \in Partitions |-> <<>>]
  /\ committed = [p \in Partitions |-> 0]
  /\ owner = [p \in Partitions |-> NoOne]
  /\ session = [r \in Replicas |-> [p \in Partitions |-> 0]]
  /\ phase = [r \in Replicas |-> "idle"]
  /\ hand = [r \in Replicas |-> Idle]
  /\ step = [r \in Replicas |-> 0]
  /\ todo = [r \in Replicas |-> {}]
  /\ stash = [r \in Replicas |-> [p \in Partitions |-> 0]]
  /\ ran = {}
  /\ runs = [p \in Partitions |-> [i \in 1 .. MaxLog |-> 0]]
  /\ disruptions = MaxDisruptions

-----------------------------------------------------------------------------
(* Kafka: the producers, the group coordinator, kafka-go's reader.         *)

Produce(p, m) ==
  /\ Len(log[p]) < MaxLog
  /\ log' = [log EXCEPT ![p] = Append(@, m)]
  /\ UNCHANGED groupState

\* (broken) The reader starts behind the last message instead.
AssignLatest(p, r) ==
  /\ Looping(r)
  /\ \/ owner[p] = NoOne /\ UNCHANGED disruptions
     \/ owner[p] # NoOne /\ Disruption
  /\ owner' = [owner EXCEPT ![p] = r]
  /\ session' = [session EXCEPT ![r][p] = Len(log[p]) + 1]
  /\ UNCHANGED <<log, committed, workVars, stash, ran, runs>>

\* A generation of the group begins: the reader of the new owner starts at the
\* committed offset.  The previous owner learns of it later, and the message
\* in its hands stays there.
Assign(p, r) ==
  /\ Looping(r)
  /\ \/ owner[p] = NoOne /\ UNCHANGED disruptions
     \/ owner[p] # NoOne /\ Disruption
  /\ owner' = [owner EXCEPT ![p] = r]
  /\ session' = [session EXCEPT ![r][p] = committed[p] + 1]
  /\ UNCHANGED <<log, committed, workVars, stash, ran, runs>>

\* The previous owner's reader drops what it had queued of the partition.
Revoke(p, r) ==
  /\ owner[p] # r
  /\ session[r][p] # 0
  /\ session' = [session EXCEPT ![r][p] = 0]
  /\ UNCHANGED <<log, groupVars, workVars, stash, ran, runs, disruptions>>

\* (broken) The reader commits what it has read, not what was passed to
\* CommitMessages.
FlushRead(p, r) ==
  /\ phase[r] # "down"
  /\ session[r][p] > 1
  /\ committed' = [committed EXCEPT ![p] = session[r][p] - 1]
  /\ stash' = [stash EXCEPT ![r][p] = 0]
  /\ UNCHANGED <<log, owner, session, workVars, ran, runs, disruptions>>

\* The commit interval is over, or the reader is being closed.  The broker
\* takes the offset from any member: also from a former owner, also backwards.
Flush(p, r) ==
  /\ phase[r] # "down"
  /\ stash[r][p] # 0
  /\ stash' = [stash EXCEPT ![r][p] = 0]
  /\ \/ committed' = [committed EXCEPT ![p] = stash[r][p]] /\ UNCHANGED disruptions
     \/ UNCHANGED committed /\ Disruption
  /\ UNCHANGED <<log, owner, session, workVars, ran, runs>>

-----------------------------------------------------------------------------
(* Consumer.Start and dispatch.                                            *)

\* (broken) The reader returns a message until its offset is committed.
FetchUntilCommitted(p, r) ==
  /\ phase[r] = "idle"
  /\ session[r][p] \in 1 .. Len(log[p])
  /\ log[p][session[r][p]] \notin Malformed
  /\ hand' = [hand EXCEPT ![r] = [p |-> p, i |-> session[r][p]]]
  /\ phase' = [phase EXCEPT ![r] = "system"]
  /\ runs' = [runs EXCEPT ![p][session[r][p]] = @ + 1]
  /\ UNCHANGED <<log, groupVars, session, step, todo, stash, ran, disruptions>>

\* FetchMessage returns a message that parses: its dispatch begins.
FetchMessage(p, r) ==
  /\ phase[r] = "idle"
  /\ session[r][p] \in 1 .. Len(log[p])
  /\ log[p][session[r][p]] \notin Malformed
  /\ session' = [session EXCEPT ![r][p] = @ + 1]
  /\ hand' = [hand EXCEPT ![r] = [p |-> p, i |-> session[r][p]]]
  /\ phase' = [phase EXCEPT ![r] = "system"]
  /\ step' = [step EXCEPT ![r] = 0]
  /\ runs' = [runs EXCEPT ![p][session[r][p]] = @ + 1]
  /\ UNCHANGED <<log, groupVars, todo, stash, ran, disruptions>>

\* A message that does not parse is committed unseen.
SkipMalformed(p, r) ==
  /\ phase[r] = "idle"
  /\ session[r][p] \in 1 .. Len(log[p])
  /\ log[p][session[r][p]] \in Malformed
  /\ session' = [session EXCEPT ![r][p] = @ + 1]
  /\ stash' = [stash EXCEPT ![r][p] = AtLeast(@, session[r][p])]
  /\ UNCHANGED <<log, groupVars, workVars, ran, runs, disruptions>>

\* The next system handler runs; whether it returned an error is only logged.
RunHandler(r) ==
  /\ phase[r] = "system"
  /\ step[r] < Len(HandlersOf[InHand(r)])
  /\ step' = [step EXCEPT ![r] = @ + 1]
  /\ ran' = ran \cup {<<hand[r].p, hand[r].i, step[r] + 1>>}
  /\ UNCHANGED <<log, groupVars, session, phase, hand, todo, stash, runs, disruptions>>

\* (broken) A system handler's error ends the dispatch.
LookupAfterError(r) ==
  /\ phase[r] = "system"
  /\ \E S \in SUBSET ActionsOf[InHand(r)] : todo' = [todo EXCEPT ![r] = S]
  /\ phase' = [phase EXCEPT ![r] = "actions"]
  /\ UNCHANGED <<log, groupVars, session, hand, step, stash, ran, runs, disruptions>>

\* GetMatchingRules: the rules active now whose conditions hold.  When the
\* query fails, no action runs and the dispatch still counts as done.
Lookup(r) ==
  /\ phase[r] = "system"
  /\ step[r] = Len(HandlersOf[InHand(r)])
  /\ \E S \in SUBSET ActionsOf[InHand(r)] : todo' = [todo EXCEPT ![r] = S]
  /\ phase' = [phase EXCEPT ![r] = "actions"]
  /\ UNCHANGED <<log, groupVars, session, hand, step, stash, ran, runs, disruptions>>

\* The action of a matching rule runs; its error is only logged.
RunAction(r) ==
  /\ phase[r] = "actions"
  /\ \E a \in todo[r] : todo' = [todo EXCEPT ![r] = @ \ {a}]
  /\ UNCHANGED <<log, groupVars, session, phase, hand, step, stash, ran, runs,
                 disruptions>>

\* CommitMessages, which only queues the offset, and round again.
CommitMessage(r) ==
  /\ phase[r] = "actions"
  /\ todo[r] = {}
  /\ stash' = [stash EXCEPT ![r][hand[r].p] = AtLeast(@, hand[r].i)]
  /\ phase' = [phase EXCEPT ![r] = "idle"]
  /\ hand' = [hand EXCEPT ![r] = Idle]
  /\ step' = [step EXCEPT ![r] = 0]
  /\ UNCHANGED <<log, groupVars, session, todo, ran, runs, disruptions>>

\* What leaving the group does to the replica's own state and to the group.
LeaveGroup(r) ==
  /\ owner' = [p \in Partitions |-> IF owner[p] = r THEN NoOne ELSE owner[p]]
  /\ session' = [session EXCEPT ![r] = [p \in Partitions |-> 0]]
  /\ hand' = [hand EXCEPT ![r] = Idle]
  /\ step' = [step EXCEPT ![r] = 0]
  /\ todo' = [todo EXCEPT ![r] = {}]

\* (broken) The offset is committed before the panic unwinds the loop.
PanicCommits(r) ==
  /\ phase[r] \in {"system", "actions"}
  /\ InHand(r) \in Poison
  /\ \/ phase[r] = "system" /\ step[r] < Len(HandlersOf[InHand(r)])
     \/ phase[r] = "actions" /\ todo[r] # {}
  /\ phase' = [phase EXCEPT ![r] = "exited"]
  /\ LeaveGroup(r)
  /\ stash' = [stash EXCEPT ![r][hand[r].p] = AtLeast(@, hand[r].i)]
  /\ UNCHANGED <<log, committed, ran, runs, disruptions>>

\* A handler or an action panics.  RecoverGoroutine is deferred by Start, not
\* by dispatch: the panic ends the loop, the reader is closed and the process
\* lives on without a consumer.
Panic(r) ==
  /\ phase[r] \in {"system", "actions"}
  /\ InHand(r) \in Poison
  /\ \/ phase[r] = "system" /\ step[r] < Len(HandlersOf[InHand(r)])
     \/ phase[r] = "actions" /\ todo[r] # {}
  /\ phase' = [phase EXCEPT ![r] = "exited"]
  /\ LeaveGroup(r)
  /\ UNCHANGED <<log, committed, stash, ran, runs, disruptions>>

\* The process dies.  (A shutdown through the context is a run of the loop to
\* its end, a Flush by Close, and then this.)
Crash(r) ==
  /\ Disruption
  /\ phase[r] # "down"
  /\ phase' = [phase EXCEPT ![r] = "down"]
  /\ LeaveGroup(r)
  /\ stash' = [stash EXCEPT ![r] = [p \in Partitions |-> 0]]
  /\ UNCHANGED <<log, committed, ran, runs>>

\* The supervisor starts a dead process again.  Nothing starts a loop that has
\* exited in a living process, short of a crash.
RestartConsumer(r) ==
  /\ phase[r] = "down"
  /\ phase' = [phase EXCEPT ![r] = "idle"]
  /\ UNCHANGED <<log, groupVars, session, hand, step, todo, stash, ran, runs, disruptions>>

-----------------------------------------------------------------------------
Start(r) == RunHandler(r) \/ Lookup(r) \/ RunAction(r) \/ CommitMessage(r) \/ Panic(r)

Reader(p, r) ==
  \/ Assign(p, r) \/ Revoke(p, r) \/ Flush(p, r)
  \/ FetchMessage(p, r) \/ SkipMalformed(p, r)

Consume ==
  \/ \E r \in Replicas : Start(r) \/ Crash(r) \/ RestartConsumer(r)
  \/ \E p \in Partitions, r \in Replicas : Reader(p, r)

ConsumerNext == Consume \/ \E p \in Partitions, m \in Messages : Produce(p, m)

ConsumerSpec == ConsumerInit /\ [][ConsumerNext]_consumerVars

(* The loop never waits for anything but messages, the reader keeps its    *)
(* timers, the coordinator gives an unowned partition to a member, the     *)
(* supervisor restarts dead processes.                                     *)
ConsumerFairness ==
  /\ \A r \in Replicas :
       /\ WF_consumerVars(RunHandler(r)) /\ WF_consumerVars(Lookup(r)) /\ WF_consumerVars(RunAction(r))
       /\ WF_consumerVars(CommitMessage(r)) /\ WF_consumerVars(RestartConsumer(r))
       /\ \A p \in Partitions :
            WF_consumerVars(FetchMessage(p, r)) /\ WF_consumerVars(SkipMalformed(p, r))
  /\ \A p \in Partitions : WF_consumerVars(owner[p] = NoOne /\ \E r \in Replicas : Assign(p, r))

FairConsumerSpec == ConsumerSpec /\ ConsumerFairness

-----------------------------------------------------------------------------
(* Properties.                                                             *)

Offsets == 0 .. MaxLog

\* Every variable keeps its type; no reader is ever beyond the end of a log.
ConsumerTypeOK ==
  /\ log \in [Partitions -> Seq(Messages)]
  /\ committed \in [Partitions -> Offsets]
  /\ owner \in [Partitions -> Replicas \cup {NoOne}]
  /\ session \in [Replicas -> [Partitions -> 0 .. MaxLog + 1]]
  /\ phase \in [Replicas -> {"idle", "system", "actions", "exited", "down"}]
  /\ hand \in [Replicas -> [p : Partitions \cup {NoOne}, i : Offsets]]
  /\ step \in [Replicas -> Nat]
  /\ stash \in [Replicas -> [Partitions -> Offsets]]
  /\ \A p \in Partitions : Len(log[p]) <= MaxLog
  /\ runs \in [Partitions -> [1 .. MaxLog -> Nat]]
  /\ disruptions \in 0 .. MaxDisruptions

\* Every system handler registered for the message has run on it.
Handled(p, i) ==
  \/ log[p][i] \in Malformed
  \/ \A k \in DOMAIN HandlersOf[log[p][i]] : <<p, i, k>> \in ran

AllHandled(p, n) == n <= Len(log[p]) /\ \A i \in 1 .. n : Handled(p, i)

\* An offset is committed only when every message up to it has been through
\* every system handler, whoever ran them and whatever was lost in between: a
\* former owner's late commit, a rebalance in mid-dispatch, a panic.
NoGap == \A p \in Partitions : AllHandled(p, committed[p])

\* A handler sees a message only after every earlier message of the partition
\* has been through its handlers, also when two replicas read it at once.
InOrder == \A x \in ran : AllHandled(x[1], x[2] - 1)

RanTyped == ran \subseteq Partitions \X (1 .. MaxLog) \X Nat

\* A message in a replica's hands lies in the log, its predecessors are
\* handled, and so are its own handlers up to the current one.
HandSound ==
  \A r \in Replicas : phase[r] \in {"system", "actions"} =>
    LET p == hand[r].p
        i == hand[r].i
    IN  /\ p \in Partitions
        /\ i \in 1 .. Len(log[p])
        /\ log[p][i] \notin Malformed
        /\ AllHandled(p, i - 1)
        /\ step[r] <= Len(HandlersOf[log[p][i]])
        /\ \A k \in 1 .. step[r] : <<p, i, k>> \in ran
        /\ phase[r] = "actions" => step[r] = Len(HandlersOf[log[p][i]])

\* The message in hand aside, what a session has passed is handled.
SessionSound ==
  \A r \in Replicas, p \in Partitions : session[r][p] # 0 =>
    \/ AllHandled(p, session[r][p] - 1)
    \/ /\ phase[r] \in {"system", "actions"}
       /\ hand[r] = [p |-> p, i |-> session[r][p] - 1]

StashSound == \A r \in Replicas, p \in Partitions : AllHandled(p, stash[r][p])

Exited == {r \in Replicas : phase[r] = "exited"}

\* Who may still read offset i of p: the replicas whose reader is not past it.
Readers(p, i) == {r \in Replicas : session[r][p] \in 1 .. i}

\* A replica that left the group neither owns nor reads a partition.
GoneIdle ==
  \A r \in Replicas : phase[r] \in {"exited", "down"} =>
    \A p \in Partitions : owner[p] # r /\ session[r][p] = 0

\* The dispatches begun of an offset and those still to be expected, of its
\* readers and of the next owner when there is none, are owed to the disruptions.
DispatchesAccounted ==
  /\ IsFiniteSet(Exited)
  /\ \A p \in Partitions : \A i \in 1 .. MaxLog :
       /\ IsFiniteSet(Readers(p, i))
       /\ runs[p][i] + Cardinality(Readers(p, i)) + (IF owner[p] = NoOne THEN 1 ELSE 0)
            <= 1 + (MaxDisruptions - disruptions) + Cardinality(Exited)

\* The inductive invariant: every source a committed offset can come from is
\* sound by itself, and every dispatch to come is accounted for.
ConsumerIInv ==
  /\ ConsumerTypeOK /\ RanTyped /\ NoGap /\ InOrder /\ HandSound /\ SessionSound /\ StashSound
  /\ GoneIdle /\ DispatchesAccounted

\* Exactly once as long as nothing is disturbed: a dispatch is begun again only
\* for a rebalance, a crash or a consumer that panicked.
RedeliveriesOwedToDisruptions ==
  \A p \in Partitions : \A i \in 1 .. MaxLog :
    runs[p][i] <= 1 + (MaxDisruptions - disruptions) + Cardinality(Exited)

\* Every message gets through its handlers, whatever crashes and rebalances
\* come in between, as long as a panic has not ended the last consumer.
EventuallyHandled ==
  \A p \in Partitions : \A i \in 1 .. MaxLog :
    i <= Len(log[p]) ~> (AllHandled(p, i) \/ \A r \in Replicas : phase[r] = "exited")

\* "Workers want to survive a bad message, not die on it."
WorkersSurvive == \A r \in Replicas : phase[r] # "exited"

-----------------------------------------------------------------------------
(* A small instance, for TLC.  "trip" has two system handlers and an action, *)
(* "junk" does not parse.                                                    *)

MCHandlersOf == [m \in Messages |-> IF m = "trip" THEN <<"index", "notify">> ELSE <<>>]
MCActionsOf == [m \in Messages |-> IF m = "trip" THEN {"email"} ELSE {}]
=============================================================================
