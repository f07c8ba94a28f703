------------------------------- MODULE ConnPool -------------------------------
(***************************************************************************)
(* Connections, row locks and nested transactions (tmsdb/gorm_tm.go,       *)
(* client/postgresql).  The replicas of a service create their database    *)
(* and open a pool each; their calls run transactions, which nest, and     *)
(* single statements.  A call waits for a connection of its replica's      *)
(* pool, which database/sql hands out, or for a row another transaction    *)
(* has changed, for which PostgreSQL makes it wait.  PostgreSQL sees those *)
(* who wait for each other's rows and aborts one; it cannot see a          *)
(* transaction whose owner waits in Go (DEV-703).                          *)
(***************************************************************************)
EXTENDS Integers, FiniteSets

CONSTANTS
  Pods,            \* the replicas
  Goroutines,      \* the calls, each made once
  PodOf,           \* [Goroutines -> Pods]
  LockedRows,      \* the rows they change
  MaxOpenConns,    \* POSTGRES_MAX_OPEN_CONNS, zero when it is not set
  DefaultOpenConns,\* defaultPostgresMaxOpenConns
  MaxDepth,        \* bound: how deep transactions nest
  MaxStatements    \* bound: statements and nested transactions of a call

Nothing == "nothing"
Connection == "connection"

PoolAssumption ==
  /\ IsFiniteSet(Goroutines)
  /\ PodOf \in [Goroutines -> Pods]
  /\ LockedRows \cap {Nothing, Connection} = {}
  /\ MaxOpenConns \in Int /\ DefaultOpenConns \in Nat \ {0}
  /\ MaxDepth \in Nat \ {0} /\ MaxStatements \in Nat \ {0}

VARIABLES
  database, \* the database exists
  boot,     \* of each replica: "checking", "creating", "up" or "down"
  kind,     \* of each call: a "transaction" or a single "statement"
  stage,    \* of each call: "new", "running" or "done"
  depth,    \* WithTransactions of a call that have not returned
  conns,    \* connections a call has
  want,     \* what a call waits for: nothing, a connection or a row
  owner,    \* the sessions that changed a row and have not ended: one or none
  budget,   \* statements and nested transactions a call may still begin
  aborted   \* the calls whose transaction can only be rolled back

poolVars == <<database, boot, kind, stage, depth, conns, want, owner, budget, aborted>>

PoolInit ==
  /\ database = FALSE /\ boot = [r \in Pods |-> "checking"]
  /\ kind \in [Goroutines -> {"transaction", "statement"}]
  /\ stage = [g \in Goroutines |-> "new"]
  /\ depth = [g \in Goroutines |-> 0] /\ conns = [g \in Goroutines |-> 0]
  /\ want = [g \in Goroutines |-> Nothing]
  /\ owner = [row \in LockedRows |-> {}]
  /\ budget = [g \in Goroutines |-> IF kind[g] = "statement" THEN 1 ELSE MaxStatements]
  /\ aborted = {}

\* NewClient: a pool has a size in any case.
maxOpen == IF MaxOpenConns <= 0 THEN DefaultOpenConns ELSE MaxOpenConns

\* A call's connections are numbered; it talks on the last one.
Session(g) == <<g, conns[g]>>
Sessions(r) == {s \in Goroutines \X (1..MaxDepth) : PodOf[s[1]] = r /\ s[2] <= conns[s[1]]}

Running(g) == stage[g] = "running" /\ want[g] = Nothing /\ conns[g] > 0

\* Who waits for a row of a session that waits for a row: a wait PostgreSQL sees.
Blocks(g, h) == want[g] \in LockedRows /\ Session(h) \in owner[want[g]]

Freed(s) == [row \in LockedRows |-> owner[row] \ {s}]

-----------------------------------------------------------------------------
(* EnsureDatabase, NewClient.                                              *)

Check(r) ==
  /\ boot[r] = "checking"
  /\ boot' = [boot EXCEPT ![r] = IF database THEN "up" ELSE "creating"]
  /\ UNCHANGED <<database, kind, stage, depth, conns, want, owner, budget, aborted>>

\* CREATE DATABASE fails for whoever comes second: log.Fatalf.
Create(r) ==
  /\ boot[r] = "creating"
  /\ database' = TRUE
  /\ boot' = [boot EXCEPT ![r] = IF database THEN "down" ELSE "up"]
  /\ UNCHANGED <<kind, stage, depth, conns, want, owner, budget, aborted>>

\* The platform starts it again.
Restart(r) ==
  /\ boot[r] = "down"
  /\ boot' = [boot EXCEPT ![r] = "checking"]
  /\ UNCHANGED <<database, kind, stage, depth, conns, want, owner, budget, aborted>>

-----------------------------------------------------------------------------
(* WithTransaction, GetDB.                                                 *)

\* The outermost WithTransaction, or a statement outside any.
Begin(g) ==
  /\ stage[g] = "new" /\ boot[PodOf[g]] = "up"
  /\ stage' = [stage EXCEPT ![g] = "running"]
  /\ depth' = [depth EXCEPT ![g] = 1]
  /\ want' = [want EXCEPT ![g] = Connection]
  /\ UNCHANGED <<database, boot, kind, conns, owner, budget, aborted>>

Connect(g) ==
  /\ want[g] = Connection /\ Cardinality(Sessions(PodOf[g])) < maxOpen
  /\ conns' = [conns EXCEPT ![g] = @ + 1]
  /\ want' = [want EXCEPT ![g] = Nothing]
  /\ UNCHANGED <<database, boot, kind, stage, depth, owner, budget, aborted>>

\* (broken) A nested transaction takes a connection of its own.
NestedOnFresh(g) ==
  /\ Running(g) /\ kind[g] = "transaction" /\ depth[g] < MaxDepth /\ budget[g] > 0
  /\ budget' = [budget EXCEPT ![g] = @ - 1]
  /\ depth' = [depth EXCEPT ![g] = @ + 1]
  /\ want' = [want EXCEPT ![g] = Connection]
  /\ UNCHANGED <<database, boot, kind, stage, conns, owner, aborted>>

\* A WithTransaction inside another runs in that one.
Nested(g) ==
  /\ Running(g) /\ kind[g] = "transaction" /\ depth[g] < MaxDepth /\ budget[g] > 0
  /\ budget' = [budget EXCEPT ![g] = @ - 1]
  /\ depth' = [depth EXCEPT ![g] = @ + 1]
  /\ UNCHANGED <<database, boot, kind, stage, conns, want, owner, aborted>>

\* A statement that changes a row, on GetDB's connection.
Execute(g) ==
  /\ Running(g) /\ budget[g] > 0 /\ g \notin aborted
  /\ budget' = [budget EXCEPT ![g] = @ - 1]
  /\ \E row \in LockedRows :
       IF owner[row] \subseteq {Session(g)}
       THEN owner' = [owner EXCEPT ![row] = {Session(g)}] /\ UNCHANGED want
       ELSE want' = [want EXCEPT ![g] = row] /\ UNCHANGED owner
  /\ UNCHANGED <<database, boot, kind, stage, depth, conns, aborted>>

\* The row is free.
Lock(g) ==
  /\ want[g] \in LockedRows /\ owner[want[g]] = {}
  /\ owner' = [owner EXCEPT ![want[g]] = {Session(g)}]
  /\ want' = [want EXCEPT ![g] = Nothing]
  /\ UNCHANGED <<database, boot, kind, stage, depth, conns, budget, aborted>>

\* The WithTransaction that opened the transaction ends it and gives the connection back;
\* one inside another only returns.
Return(g) ==
  /\ Running(g)
  /\ depth' = [depth EXCEPT ![g] = @ - 1]
  /\ stage' = [stage EXCEPT ![g] = IF depth[g] = 1 THEN "done" ELSE @]
  /\ IF depth[g] = conns[g]
     THEN /\ owner' = Freed(Session(g)) /\ conns' = [conns EXCEPT ![g] = @ - 1]
          /\ aborted' = aborted \ {g}
     ELSE UNCHANGED <<owner, conns, aborted>>
  /\ UNCHANGED <<database, boot, kind, want, budget>>

Undone(g) ==
  /\ aborted' = aborted \cup {g}
  /\ owner' = Freed(Session(g))
  /\ want' = [want EXCEPT ![g] = Nothing]
  /\ UNCHANGED <<database, boot, kind, stage, depth, conns, budget>>

\* PostgreSQL's detection: of those who wait in a circle one is aborted.
Circle(S) ==
  \A g \in S : (\E h \in S : Blocks(g, h)) /\ (\E h \in S : Blocks(h, g))

Detect(g) ==
  /\ \E S \in SUBSET Goroutines : g \in S /\ Circle(S)
  /\ Undone(g)

\* The client goes away: a statement ends with an error, which undoes its transaction.
\* BEGIN does not hear of it, the pool's context is not the request's.
Cancel(g) == want[g] \in LockedRows /\ Undone(g)

\* A statement outside a transaction gives up the pool as well.
GiveUp(g) ==
  /\ want[g] = Connection /\ kind[g] = "statement"
  /\ want' = [want EXCEPT ![g] = Nothing]
  /\ stage' = [stage EXCEPT ![g] = "done"] /\ depth' = [depth EXCEPT ![g] = 0]
  /\ UNCHANGED <<database, boot, kind, conns, owner, budget, aborted>>

PoolNext ==
  \/ \E r \in Pods : Check(r) \/ Create(r) \/ Restart(r)
  \/ \E g \in Goroutines :
       \/ Begin(g) \/ Connect(g) \/ Nested(g) \/ Execute(g) \/ Lock(g) \/ Return(g)
       \/ Detect(g) \/ Cancel(g) \/ GiveUp(g)

PoolSpec == PoolInit /\ [][PoolNext]_poolVars

(* A goroutine that can go on does, the pool and PostgreSQL serve who      *)
(* waits, and a dead process is started again.  Nobody has to go away.     *)
Progress(g) == Connect(g) \/ Lock(g) \/ Return(g) \/ Detect(g)
Booting(r) == Check(r) \/ Create(r) \/ Restart(r)

PoolFairness ==
  /\ \A g \in Goroutines : WF_poolVars(Progress(g))
  /\ \A r \in Pods : WF_poolVars(Booting(r))

PoolFairSpec == PoolSpec /\ PoolFairness

-----------------------------------------------------------------------------
(* Properties.                                                             *)

PoolTypeOK ==
  /\ database \in BOOLEAN
  /\ boot \in [Pods -> {"checking", "creating", "up", "down"}]
  /\ kind \in [Goroutines -> {"transaction", "statement"}]
  /\ stage \in [Goroutines -> {"new", "running", "done"}]
  /\ depth \in [Goroutines -> 0..MaxDepth] /\ conns \in [Goroutines -> 0..MaxDepth]
  /\ want \in [Goroutines -> LockedRows \cup {Nothing, Connection}]
  /\ owner \in [LockedRows -> SUBSET (Goroutines \X (1..MaxDepth))]
  /\ budget \in [Goroutines -> 0..MaxStatements]
  /\ aborted \subseteq Goroutines

\* A row is locked by one session at most, which its call still has, and not by one that
\* was undone (Transaction's deferred rollback).
NoLeakedLock ==
  \A row \in LockedRows : \A s, t \in owner[row] :
    s = t /\ s[2] <= conns[s[1]] /\ s[1] \notin aborted

\* Calls that wait for nobody but each other, whether for rows or for the pool.
Stuck(S) ==
  \A g \in S :
    \/ want[g] \in LockedRows /\ owner[want[g]] # {} /\ \A s \in owner[want[g]] : s[1] \in S
    \/ /\ want[g] = Connection /\ Cardinality(Sessions(PodOf[g])) >= maxOpen
       /\ \A s \in Sessions(PodOf[g]) : s[1] \in S

\* DEV-703: whenever calls wait for nobody but each other, some of them wait for each
\* other's rows, so PostgreSQL sees it and ends it (WithTransaction, GetDB).
NoHiddenDeadlock ==
  \A S \in SUBSET Goroutines : S # {} /\ Stuck(S) =>
    \E T \in SUBSET S : T # {} /\ \A g \in T : \E h \in T : Blocks(g, h)

\* The replicas' pools never exceed their size, and nobody talks to a database that is
\* not there (EnsureDatabase).
PoolBounded ==
  \A r \in Pods :
    /\ Cardinality(Sessions(r)) <= maxOpen
    /\ boot[r] = "up" \/ Sessions(r) # {} => database

PoolSound == PoolTypeOK /\ NoLeakedLock /\ NoHiddenDeadlock /\ PoolBounded

\* In the end every replica is up and every call has returned (WithTransaction).
Ended ==
  /\ \A r \in Pods : boot[r] = "up"
  /\ \A g \in Goroutines : stage[g] # "running"
AllReturned == <>[]Ended
=============================================================================
