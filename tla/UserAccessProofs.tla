--------------------------- MODULE UserAccessProofs ---------------------------
(***************************************************************************)
(* Proofs about what decides on a user's request, for any users,           *)
(* companies, rows, requests, calls, windows and ceilings.                 *)
(***************************************************************************)
EXTENDS UserAccess, FiniteSetTheorems, SequenceTheorems, WellFoundedInduction, TLAPS

-----------------------------------------------------------------------------
(* Connections and locks (ConnPool).                                       *)

(***************************************************************************)
(* The inductive invariant.  A call has one connection at most, and none   *)
(* when it waits for one; a row belongs to one session, which its call     *)
(* still has.                                                              *)
(***************************************************************************)
OneSession ==
  \A g \in Goroutines :
    /\ conns[g] \in {0, 1} /\ conns[g] <= depth[g]
    /\ want[g] = Connection => conns[g] = 0 /\ depth[g] = 1
    /\ want[g] \in LockedRows => conns[g] = 1
    /\ stage[g] = "new" => depth[g] = 0
    /\ stage[g] # "new" => database
    /\ want[g] # Nothing => depth[g] > 0
    /\ g \in aborted => want[g] = Nothing /\ conns[g] = 1

UpNeedsDatabase == \A r \in Pods : boot[r] = "up" => database

PoolIInv == PoolTypeOK /\ OneSession /\ NoLeakedLock /\ UpNeedsDatabase

LEMMA WaitsDiffer ==
  ASSUME PoolAssumption
  PROVE  Nothing \notin LockedRows /\ Connection \notin LockedRows /\ Nothing # Connection
  BY PoolAssumption DEF PoolAssumption, Nothing, Connection

LEMMA PoolInitInv ==
  ASSUME PoolAssumption, PoolInit
  PROVE  PoolIInv
<1> USE DEF PoolInit
<1>1. PoolTypeOK
  <2>1. budget \in [Goroutines -> 0..MaxStatements]
    BY PoolAssumption DEF PoolAssumption
  <2>2. owner \in [LockedRows -> SUBSET (Goroutines \X (1..MaxDepth))]
    OBVIOUS
  <2>3. depth \in [Goroutines -> 0..MaxDepth] /\ conns \in [Goroutines -> 0..MaxDepth]
    BY PoolAssumption DEF PoolAssumption
  <2> QED BY <2>1, <2>2, <2>3 DEF PoolTypeOK
<1>2. OneSession
  BY WaitsDiffer, PoolAssumption DEF PoolAssumption, OneSession
<1>3. NoLeakedLock /\ UpNeedsDatabase
  BY PoolAssumption DEF NoLeakedLock, UpNeedsDatabase, PoolAssumption
<1> QED BY <1>1, <1>2, <1>3 DEF PoolIInv

\* Starting replicas concern no call.
LEMMA BootKeeps ==
  ASSUME PoolIInv, NEW r \in Pods, Booting(r)
  PROVE  PoolIInv'
<1> USE DEF PoolIInv, Booting, Check, Create, Restart
<1>1. PoolTypeOK'
  BY DEF PoolTypeOK
<1>2. OneSession'
  BY DEF PoolTypeOK, OneSession
<1>3. NoLeakedLock'
  BY DEF NoLeakedLock
<1>4. UpNeedsDatabase'
  BY DEF PoolTypeOK, UpNeedsDatabase
<1> QED BY <1>1, <1>2, <1>3, <1>4

\* A call whose transaction is undone loses its rows.
LEMMA UndoneKeeps ==
  ASSUME PoolAssumption, PoolIInv, NEW g \in Goroutines, want[g] \in LockedRows, Undone(g)
  PROVE  PoolIInv'
<1> USE DEF PoolIInv, Undone, Freed, Session
<1>1. PoolTypeOK'
  BY DEF PoolTypeOK
<1>2. OneSession'
  BY WaitsDiffer, PoolAssumption DEF PoolTypeOK, OneSession, PoolAssumption
<1>3. NoLeakedLock'
  <2> SUFFICES ASSUME NEW row \in LockedRows, NEW s \in owner'[row], NEW t \in owner'[row]
               PROVE  s = t /\ s[2] <= conns'[s[1]] /\ s[1] \notin aborted'
    BY DEF NoLeakedLock
  <2>1. s \in owner[row] /\ t \in owner[row] /\ s # <<g, conns[g]>>
    BY DEF PoolTypeOK
  <2>2. s = t /\ s[2] <= conns[s[1]] /\ s[1] \notin aborted
    BY <2>1 DEF NoLeakedLock
  <2>3. s \in Goroutines \X (1..MaxDepth)
    BY <2>1 DEF PoolTypeOK
  <2>4. s[1] # g
    BY <2>1, <2>2, <2>3, PoolAssumption DEF OneSession, PoolAssumption
  <2> QED BY <2>2, <2>4
<1>4. UpNeedsDatabase'
  BY DEF UpNeedsDatabase
<1> QED BY <1>1, <1>2, <1>3, <1>4

LEMMA PoolNextInv ==
  ASSUME PoolAssumption, PoolIInv, [PoolNext]_poolVars
  PROVE  PoolIInv'
<1> USE PoolAssumption, WaitsDiffer DEF PoolAssumption, PoolIInv
<1>1. ASSUME NEW r \in Pods, Check(r) \/ Create(r) \/ Restart(r) PROVE PoolIInv'
  BY <1>1, BootKeeps DEF Booting
<1>2. ASSUME NEW g \in Goroutines, Begin(g) PROVE PoolIInv'
  <2> USE <1>2 DEF Begin
  <2>1. PoolTypeOK'
    BY DEF PoolTypeOK
  <2>2. database /\ conns[g] = 0 /\ g \notin aborted
    BY DEF PoolTypeOK, OneSession, UpNeedsDatabase
  <2>3. OneSession'
    BY <2>2 DEF PoolTypeOK, OneSession
  <2>4. NoLeakedLock' /\ UpNeedsDatabase'
    BY DEF NoLeakedLock, UpNeedsDatabase
  <2> QED BY <2>1, <2>3, <2>4
<1>3. ASSUME NEW g \in Goroutines, Connect(g) PROVE PoolIInv'
  <2> USE <1>3 DEF Connect
  <2>1. conns[g] = 0 /\ depth[g] = 1
    BY DEF OneSession
  <2>2. conns' = [conns EXCEPT ![g] = 1]
    BY <2>1 DEF PoolTypeOK
  <2>3. PoolTypeOK'
    BY <2>2 DEF PoolTypeOK
  <2>4. OneSession'
    BY <2>1, <2>2 DEF PoolTypeOK, OneSession
  <2>5. NoLeakedLock'
    <3> SUFFICES ASSUME NEW row \in LockedRows, NEW s \in owner[row], NEW t \in owner[row]
                 PROVE  s = t /\ s[2] <= conns'[s[1]] /\ s[1] \notin aborted
      BY DEF NoLeakedLock
    <3>1. s \in Goroutines \X (1..MaxDepth)
      BY DEF PoolTypeOK
    <3>2. s = t /\ s[2] <= conns[s[1]] /\ s[1] \notin aborted
      BY DEF NoLeakedLock
    <3> QED BY <2>1, <2>2, <3>1, <3>2 DEF PoolTypeOK
  <2>6. UpNeedsDatabase'
    BY DEF UpNeedsDatabase
  <2> QED BY <2>3, <2>4, <2>5, <2>6
<1>4. ASSUME NEW g \in Goroutines, Nested(g) PROVE PoolIInv'
  <2> USE <1>4 DEF Nested, Running
  <2>1. PoolTypeOK'
    BY DEF PoolTypeOK
  <2>2. OneSession'
    BY DEF PoolTypeOK, OneSession
  <2>3. NoLeakedLock' /\ UpNeedsDatabase'
    BY DEF NoLeakedLock, UpNeedsDatabase
  <2> QED BY <2>1, <2>2, <2>3
<1>5. ASSUME NEW g \in Goroutines, Execute(g) PROVE PoolIInv'
  <2> USE <1>5 DEF Execute, Running, Session
  <2>1. PICK row \in LockedRows :
          IF owner[row] \subseteq {Session(g)}
          THEN owner' = [owner EXCEPT ![row] = {Session(g)}] /\ UNCHANGED want
          ELSE want' = [want EXCEPT ![g] = row] /\ UNCHANGED owner
    OBVIOUS
  <2>2. conns[g] = 1
    BY DEF PoolTypeOK, OneSession
  <2>3. PoolTypeOK'
    BY <2>1, <2>2 DEF PoolTypeOK
  <2>4. OneSession'
    BY <2>1, <2>2 DEF PoolTypeOK, OneSession
  <2>5. NoLeakedLock'
    BY <2>1, <2>2 DEF PoolTypeOK, NoLeakedLock
  <2>6. UpNeedsDatabase'
    BY DEF UpNeedsDatabase
  <2> QED BY <2>3, <2>4, <2>5, <2>6
<1>6. ASSUME NEW g \in Goroutines, Lock(g) PROVE PoolIInv'
  <2> USE <1>6 DEF Lock, Session
  <2>1. conns[g] = 1 /\ depth[g] > 0 /\ g \notin aborted
    BY DEF PoolTypeOK, OneSession
  <2>2. PoolTypeOK'
    BY <2>1 DEF PoolTypeOK
  <2>3. OneSession'
    BY <2>1 DEF PoolTypeOK, OneSession
  <2>4. NoLeakedLock'
    BY <2>1 DEF PoolTypeOK, NoLeakedLock
  <2>5. UpNeedsDatabase'
    BY DEF UpNeedsDatabase
  <2> QED BY <2>2, <2>3, <2>4, <2>5
<1>7. ASSUME NEW g \in Goroutines, Return(g) PROVE PoolIInv'
  <2> USE <1>7 DEF Return, Running, Session, Freed
  <2>1. conns[g] = 1 /\ depth[g] \in 1..MaxDepth
    BY DEF PoolTypeOK, OneSession
  <2>2. PoolTypeOK'
    BY <2>1 DEF PoolTypeOK
  <2>3. OneSession'
    BY <2>1 DEF PoolTypeOK, OneSession
  <2>4. NoLeakedLock'
    <3>1. CASE depth[g] = conns[g]
      <4> SUFFICES ASSUME NEW row \in LockedRows, NEW s \in owner'[row], NEW t \in owner'[row]
                   PROVE  s = t /\ s[2] <= conns'[s[1]] /\ s[1] \notin aborted'
        BY DEF NoLeakedLock
      <4>1. s \in owner[row] /\ t \in owner[row] /\ s # <<g, 1>>
        BY <2>1, <3>1 DEF PoolTypeOK
      <4>2. s \in Goroutines \X (1..MaxDepth)
        BY <4>1 DEF PoolTypeOK
      <4>3. s = t /\ s[2] <= conns[s[1]] /\ s[1] \notin aborted
        BY <4>1 DEF NoLeakedLock
      <4>4. s[1] # g
        BY <2>1, <4>1, <4>2, <4>3 DEF PoolTypeOK
      <4> QED BY <3>1, <4>2, <4>3, <4>4 DEF PoolTypeOK
    <3>2. CASE depth[g] # conns[g]
      BY <3>2 DEF NoLeakedLock
    <3> QED BY <3>1, <3>2
  <2>5. UpNeedsDatabase'
    BY DEF UpNeedsDatabase
  <2> QED BY <2>2, <2>3, <2>4, <2>5
<1>8. ASSUME NEW g \in Goroutines, Detect(g) PROVE PoolIInv'
  <2>1. want[g] \in LockedRows /\ Undone(g)
    BY <1>8 DEF Detect, Circle, Blocks
  <2> QED BY <2>1, UndoneKeeps
<1>9. ASSUME NEW g \in Goroutines, Cancel(g) PROVE PoolIInv'
  BY <1>9, UndoneKeeps DEF Cancel
<1>10. ASSUME NEW g \in Goroutines, GiveUp(g) PROVE PoolIInv'
  <2> USE <1>10 DEF GiveUp
  <2>1. PoolTypeOK'
    BY DEF PoolTypeOK
  <2>2. OneSession'
    BY DEF PoolTypeOK, OneSession
  <2>3. NoLeakedLock' /\ UpNeedsDatabase'
    BY DEF NoLeakedLock, UpNeedsDatabase
  <2> QED BY <2>1, <2>2, <2>3
<1>11. CASE UNCHANGED poolVars
  BY <1>11 DEF poolVars, PoolTypeOK, OneSession, NoLeakedLock, UpNeedsDatabase
<1> QED
  BY <1>1, <1>2, <1>3, <1>4, <1>5, <1>6, <1>7, <1>8, <1>9, <1>10, <1>11 DEF PoolNext

\* The inductive invariant: one connection a call, one session a row (WithTransaction).
THEOREM PoolInvariant == ASSUME PoolAssumption PROVE PoolSpec => []PoolIInv
<1>1. PoolInit => PoolIInv
  BY PoolInitInv
<1>2. PoolIInv /\ [PoolNext]_poolVars => PoolIInv'
  BY PoolNextInv
<1> QED BY <1>1, <1>2, PTL DEF PoolSpec

\* Who holds a connection never waits for one, so of calls that wait for each other those
\* who hold connections wait for each other's rows.
LEMMA Visible ==
  ASSUME PoolAssumption, PoolIInv
  PROVE  NoHiddenDeadlock
<1> SUFFICES ASSUME NEW S \in SUBSET Goroutines, S # {}, Stuck(S)
             PROVE  \E T \in SUBSET S : T # {} /\ \A g \in T : \E h \in T : Blocks(g, h)
  BY DEF NoHiddenDeadlock
<1> USE PoolAssumption, WaitsDiffer DEF PoolAssumption, PoolIInv
<1> DEFINE T == {g \in S : conns[g] = 1}
<1>1. ASSUME NEW g \in T PROVE \E h \in T : Blocks(g, h)
  <2>1. /\ want[g] \in LockedRows /\ owner[want[g]] # {}
        /\ \A s \in owner[want[g]] : s[1] \in S
    BY <1>1 DEF Stuck, OneSession
  <2>2. PICK s \in owner[want[g]] : TRUE
    BY <2>1
  <2>3. s \in Goroutines \X (1..MaxDepth) /\ s[1] \in S /\ s[2] <= conns[s[1]]
    BY <2>1, <2>2 DEF PoolTypeOK, NoLeakedLock
  <2>4. conns[s[1]] = 1 /\ s = <<s[1], conns[s[1]]>>
    BY <2>3 DEF OneSession
  <2> QED BY <2>1, <2>2, <2>3, <2>4 DEF Blocks, Session
<1>2. T # {}
  <2>1. PICK g \in S : TRUE
    OBVIOUS
  <2>2. CASE want[g] \in LockedRows
    BY <2>1, <2>2 DEF OneSession
  <2>3. CASE want[g] = Connection
    <3>1. /\ Cardinality(Sessions(PodOf[g])) >= maxOpen
          /\ \A s \in Sessions(PodOf[g]) : s[1] \in S
      BY <2>1, <2>3 DEF Stuck
    <3>2. maxOpen \in Nat /\ maxOpen >= 1 /\ Cardinality({}) = 0
      BY FS_EmptySet DEF maxOpen
    <3>3. Sessions(PodOf[g]) # {}
      BY <3>1, <3>2
    <3>4. PICK s \in Sessions(PodOf[g]) : TRUE
      BY <3>3
    <3>5. s[1] \in S /\ s[2] \in 1..MaxDepth /\ s[2] <= conns[s[1]]
      BY <3>1, <3>4 DEF Sessions
    <3> QED BY <3>5 DEF OneSession
  <2> QED BY <2>1, <2>2, <2>3 DEF Stuck
<1> QED BY <1>1, <1>2

\* DEV-703: no calls ever wait for nobody but each other, for rows or for the pool,
\* unless PostgreSQL can see it, whatever the size of the pool (WithTransaction).
THEOREM Unblocked == ASSUME PoolAssumption PROVE PoolSpec => []NoHiddenDeadlock
<1>1. PoolIInv => NoHiddenDeadlock
  BY Visible
<1> QED BY <1>1, PoolInvariant, PTL

\* No row stays locked by a transaction that has ended or was undone.
THEOREM Unlocked == ASSUME PoolAssumption PROVE PoolSpec => []NoLeakedLock
<1>1. PoolIInv => NoLeakedLock
  BY DEF PoolIInv
<1> QED BY <1>1, PoolInvariant, PTL

-----------------------------------------------------------------------------
(* The size of the pools (PoolBounded).                                    *)

PoolsFit == \A r \in Pods : IsFiniteSet(Sessions(r)) /\ Cardinality(Sessions(r)) <= maxOpen

LEMMA PoolSize ==
  ASSUME PoolAssumption
  PROVE  maxOpen \in Nat /\ maxOpen >= 1
BY DEF PoolAssumption, maxOpen

LEMMA FitsStill ==
  ASSUME PoolAssumption, NEW S, NEW T, IsFiniteSet(S), Cardinality(S) <= maxOpen, T \subseteq S
  PROVE  IsFiniteSet(T) /\ Cardinality(T) <= maxOpen
<1>1. IsFiniteSet(T) /\ Cardinality(T) <= Cardinality(S)
  BY FS_Subset
<1>2. Cardinality(S) \in Nat /\ Cardinality(T) \in Nat /\ maxOpen \in Nat
  BY <1>1, FS_CardinalityType, PoolSize
<1> QED BY <1>1, <1>2

LEMMA FitsOneMore ==
  ASSUME PoolAssumption, NEW S, NEW T, NEW x, IsFiniteSet(S), Cardinality(S) < maxOpen,
         T \subseteq S \cup {x}
  PROVE  IsFiniteSet(T) /\ Cardinality(T) <= maxOpen
<1>1. IsFiniteSet(S \cup {x}) /\ Cardinality(S) \in Nat
  BY FS_AddElement, FS_CardinalityType
<1>2. Cardinality(S \cup {x}) = Cardinality(S) \/ Cardinality(S \cup {x}) = Cardinality(S) + 1
  BY FS_AddElement
<1>3. Cardinality(S \cup {x}) <= maxOpen
  BY <1>1, <1>2, PoolSize
<1> QED BY <1>1, <1>3, FitsStill

LEMMA PoolsFitInit ==
  ASSUME PoolAssumption, PoolInit
  PROVE  PoolsFit
<1> SUFFICES ASSUME NEW r \in Pods
             PROVE  IsFiniteSet(Sessions(r)) /\ Cardinality(Sessions(r)) <= maxOpen
  BY DEF PoolsFit
<1>1. Sessions(r) = {}
  BY DEF PoolInit, Sessions, PoolAssumption
<1> QED BY <1>1, FS_EmptySet, PoolSize

LEMMA PoolsFitNext ==
  ASSUME PoolAssumption, PoolIInv, PoolsFit, [PoolNext]_poolVars
  PROVE  PoolsFit'
<1>1. conns \in [Goroutines -> 0..MaxDepth] /\ MaxDepth \in Nat
  BY DEF PoolIInv, PoolTypeOK, PoolAssumption
<1>2. ASSUME conns' \in [Goroutines -> 0..MaxDepth], \A g \in Goroutines : conns'[g] <= conns[g]
      PROVE  PoolsFit'
  <2>1. ASSUME NEW r \in Pods PROVE Sessions(r)' \subseteq Sessions(r)
    BY <1>1, <1>2 DEF Sessions
  <2> QED BY <2>1, FitsStill DEF PoolsFit, maxOpen
<1>3. conns' \in [Goroutines -> 0..MaxDepth]
  BY PoolNextInv DEF PoolIInv, PoolTypeOK
<1>4. CASE UNCHANGED conns
  BY <1>1, <1>2, <1>4
<1>5. ASSUME NEW g \in Goroutines, Return(g)
      PROVE  PoolsFit'
  <2>1. conns' = conns \/ conns' = [conns EXCEPT ![g] = @ - 1]
    BY <1>5 DEF Return
  <2> QED BY <1>1, <1>2, <1>3, <2>1
<1>6. ASSUME NEW g \in Goroutines, Connect(g)
      PROVE  PoolsFit'
  <2>1. conns' = [conns EXCEPT ![g] = 1] /\ conns[g] = 0
    <3>1. conns[g] = 0
      BY <1>6 DEF Connect, PoolIInv, OneSession
    <3> QED BY <1>1, <1>6, <3>1 DEF Connect
  <2>2. Cardinality(Sessions(PodOf[g])) < maxOpen
    BY <1>6 DEF Connect
  <2>3. ASSUME NEW r \in Pods, r # PodOf[g]
        PROVE  Sessions(r)' \subseteq Sessions(r)
    BY <1>1, <2>1, <2>3 DEF Sessions
  <2>4. Sessions(PodOf[g])' \subseteq Sessions(PodOf[g]) \cup {<<g, 1>>}
    BY <1>1, <2>1 DEF Sessions
  <2>5. maxOpen' = maxOpen
    BY DEF maxOpen
  <2>6. ASSUME NEW r \in Pods
        PROVE  IsFiniteSet(Sessions(r))' /\ (Cardinality(Sessions(r)) <= maxOpen)'
    <3>1. CASE r # PodOf[g]
      BY <2>3, <2>5, <3>1, FitsStill DEF PoolsFit
    <3>2. CASE r = PodOf[g]
      BY <2>2, <2>4, <2>5, <3>2, FitsOneMore DEF PoolsFit
    <3> QED BY <3>1, <3>2
  <2> QED BY <2>6 DEF PoolsFit
<1> QED
  BY <1>4, <1>5, <1>6 DEF PoolNext, poolVars, Check, Create, Restart, Begin, Nested, Execute, Lock,
    Detect, Cancel, Undone, GiveUp

LEMMA PoolSafe ==
  ASSUME PoolAssumption, PoolIInv, PoolsFit
  PROVE  PoolSound
<1>1. ASSUME NEW r \in Pods, Sessions(r) # {}
      PROVE  database
  <2>1. PICK s \in Sessions(r) : TRUE
    BY <1>1
  <2>2. s[1] \in Goroutines /\ conns[s[1]] # 0
    BY <2>1 DEF Sessions, PoolIInv, PoolTypeOK, PoolAssumption
  <2>3. depth[s[1]] # 0
    BY <2>2 DEF PoolIInv, OneSession, PoolTypeOK, PoolAssumption
  <2> QED BY <2>2, <2>3 DEF PoolIInv, OneSession
<1>2. PoolBounded
  BY <1>1 DEF PoolBounded, PoolsFit, PoolIInv, UpNeedsDatabase
<1> QED BY <1>2, Visible DEF PoolSound, PoolIInv

\* No pool is ever larger than it was configured, and nobody talks to a database that is
\* not there (NewClient, EnsureDatabase).
THEOREM PoolSafety == ASSUME PoolAssumption PROVE PoolSpec => []PoolSound
<1>1. PoolInit => PoolIInv /\ PoolsFit
  BY PoolInitInv, PoolsFitInit
<1>2. PoolIInv /\ PoolsFit /\ [PoolNext]_poolVars => PoolIInv' /\ PoolsFit'
  BY PoolNextInv, PoolsFitNext
<1>3. PoolIInv /\ PoolsFit => PoolSound
  BY PoolSafe
<1> QED BY <1>1, <1>2, <1>3, PTL DEF PoolSpec

-----------------------------------------------------------------------------
(* Tenants (TenantScope).                                                  *)
(*                                                                         *)
(* OneOwner is not inductive: Save makes a row of a copy.  A copy is one   *)
(* of the rows there were, so the inductive invariant says of copies what  *)
(* OneOwner says of rows.  Isolation follows from CopiesInScope: what      *)
(* BeforeUpdate lets through of a copy in scope is the user's company's.   *)

\* A row, or a copy of one, is one company's or the system's (BeforeCreate).
Owned(row) == IF shared THEN row.system <=> row.company = None
              ELSE row.company # None /\ ~row.system

CopiesOwned == \A u \in Users : copy[u] # None => Owned(copy[u].row)

TenantIInv == TenantSafe /\ CopiesOwned

Copy == [id : 1..(next - 1), row : Row]

-----------------------------------------------------------------------------
(* Tables and copies.                                                      *)

LEMMA IdsGrow ==
  ASSUME NEW n \in Nat, NEW m \in Nat, m >= n
  PROVE  \A j \in 1..(n - 1) : j \in 1..(m - 1)
OBVIOUS

LEMMA RowPut ==
  ASSUME NEW i, NEW row, PutRow(i, row)
  PROVE  /\ DOMAIN table' = DOMAIN table \cup {i}
         /\ table'[i] = row
         /\ \A j \in DOMAIN table \ {i} : table'[j] = table[j]
BY DEF PutRow

LEMMA PutSafe ==
  ASSUME TenantTypeOK, OneOwner, shared' = shared, next' \in Nat, next' >= next,
         NEW i \in 1..(next' - 1), NEW row \in Row, Owned(row), PutRow(i, row)
  PROVE  /\ DOMAIN table' \subseteq 1..(next' - 1)
         /\ \A j \in DOMAIN table' : table'[j] \in Row
         /\ OneOwner'
<1>1. \A j \in DOMAIN table : j \in 1..(next' - 1)
  <2>1. next \in Nat /\ \A j \in DOMAIN table : j \in 1..(next - 1)
    BY DEF TenantTypeOK
  <2> QED BY <2>1, IdsGrow
<1>2. /\ DOMAIN table' = DOMAIN table \cup {i}
      /\ table'[i] = row
      /\ \A j \in DOMAIN table \ {i} : table'[j] = table[j]
  BY RowPut
<1>3. ASSUME NEW j \in DOMAIN table'
      PROVE  /\ j \in 1..(next' - 1)
             /\ table'[j] \in Row
             /\ Owned(table'[j])
  <2>1. CASE j = i
    BY <1>2, <2>1
  <2>2. CASE j # i
    <3>1. j \in DOMAIN table /\ table'[j] = table[j]
      BY <1>2, <2>2
    <3>2. j \in 1..(next' - 1)
      BY <1>1, <3>1
    <3>3. table[j] \in Row
      BY <3>1 DEF TenantTypeOK
    <3>4. Owned(table[j])
      BY <3>1 DEF OneOwner, Owned
    <3> QED BY <3>1, <3>2, <3>3, <3>4
  <2> QED BY <2>1, <2>2
<1>4. OneOwner'
  BY <1>3 DEF OneOwner, Owned
<1> QED BY <1>3, <1>4

LEMMA RowEdited ==
  ASSUME TenantAssumption, NEW row \in Row, Owned(row)
  PROVE  LET new == [row EXCEPT !.value = (@ + 1) % (MaxEdits + 1)]
         IN new \in Row /\ new.company = row.company /\ new.system = row.system /\ Owned(new)
<1> DEFINE new == [row EXCEPT !.value = (@ + 1) % (MaxEdits + 1)]
<1>1. row.value \in 0..MaxEdits /\ MaxEdits \in Nat
  BY DEF Row, TenantAssumption
<1>2. (row.value + 1) % (MaxEdits + 1) \in 0..MaxEdits
  BY <1>1
<1>3. new \in Row /\ new.company = row.company /\ new.system = row.system
  BY <1>2 DEF Row
<1>4. Owned(new)
  BY <1>3 DEF Owned
<1> QED BY <1>3, <1>4

LEMMA CopyTyped ==
  ASSUME TenantTypeOK, NEW u \in Users, copy[u] # None
  PROVE  copy[u] \in Copy
BY DEF TenantTypeOK, Copy

\* Copies that are kept stay what they are.
LEMMA CopiesKept ==
  ASSUME TenantIInv, shared' = shared, next' \in Nat, next' >= next, UNCHANGED copy
  PROVE  /\ copy' \in [Users -> {None} \cup [id : 1..(next' - 1), row : Row]]
         /\ CopiesInScope' /\ CopiesOwned'
<1>1. next \in Nat
  BY DEF TenantIInv, TenantSafe, TenantTypeOK
<1>5. \A j \in 1..(next - 1) : j \in 1..(next' - 1)
  BY <1>1, IdsGrow
<1>2. copy' \in [Users -> {None} \cup [id : 1..(next' - 1), row : Row]]
  BY <1>5 DEF TenantIInv, TenantSafe, TenantTypeOK
<1>3. CopiesInScope'
  BY DEF TenantIInv, TenantSafe, CopiesInScope, ReadScope
<1>4. CopiesOwned'
  BY DEF TenantIInv, CopiesOwned, Owned
<1> QED BY <1>2, <1>3, <1>4

\* So do the others' when a user drops a copy.
LEMMA CopyDropped ==
  ASSUME TenantIInv, UNCHANGED <<shared, next>>, NEW u \in Users,
         copy' = [copy EXCEPT ![u] = None]
  PROVE  /\ copy' \in [Users -> {None} \cup [id : 1..(next' - 1), row : Row]]
         /\ CopiesInScope' /\ CopiesOwned'
<1>1. copy' \in [Users -> {None} \cup [id : 1..(next' - 1), row : Row]]
  BY DEF TenantIInv, TenantSafe, TenantTypeOK
<1>2. \A w \in Users : copy'[w] # None => copy'[w] = copy[w]
  BY DEF TenantIInv, TenantSafe, TenantTypeOK
<1>3. CopiesInScope'
  BY <1>2 DEF TenantIInv, TenantSafe, CopiesInScope, ReadScope
<1>4. CopiesOwned'
  BY <1>2 DEF TenantIInv, CopiesOwned, Owned
<1> QED BY <1>1, <1>3, <1>4

-----------------------------------------------------------------------------
(* The inductive invariant.                                                *)

LEMMA TenantInitInv == TenantAssumption /\ TenantInit => TenantIInv
<1> SUFFICES ASSUME TenantAssumption, TenantInit PROVE TenantIInv
  OBVIOUS
<1>1. TenantTypeOK
  BY DEF TenantTypeOK, TenantInit, TenantAssumption
<1>2. OneOwner
  BY DEF OneOwner, TenantInit
<1>3. CopiesInScope /\ CopiesOwned
  BY DEF CopiesInScope, CopiesOwned, TenantInit
<1> QED BY <1>1, <1>2, <1>3 DEF TenantIInv, TenantSafe

\* A step that writes a row and keeps the copies.
LEMMA WriteInv ==
  ASSUME TenantIInv, shared' = shared, next' \in 1..(MaxIds + 1), next' >= next, MaxIds \in Nat,
         UNCHANGED copy, by' \in Users \cup {None},
         NEW i \in 1..(next' - 1), NEW row \in Row, Owned(row), PutRow(i, row)
  PROVE  TenantIInv'
<1>1. next' \in Nat /\ next \in Nat
  BY DEF TenantIInv, TenantSafe, TenantTypeOK
<1>2. /\ DOMAIN table' \subseteq 1..(next' - 1)
      /\ \A j \in DOMAIN table' : table'[j] \in Row
      /\ OneOwner'
  BY <1>1, PutSafe DEF TenantIInv, TenantSafe
<1>3. /\ copy' \in [Users -> {None} \cup [id : 1..(next' - 1), row : Row]]
      /\ CopiesInScope' /\ CopiesOwned'
  BY <1>1, CopiesKept
<1>4. TenantTypeOK'
  BY <1>2, <1>3 DEF TenantIInv, TenantSafe, TenantTypeOK
<1> QED BY <1>2, <1>3, <1>4 DEF TenantIInv, TenantSafe

\* A step that deletes a row.
LEMMA DeleteInv ==
  ASSUME TenantIInv, UNCHANGED <<shared, next, copy>>, by' \in Users \cup {None},
         NEW i, table' = [j \in DOMAIN table \ {i} |-> table[j]]
  PROVE  TenantIInv'
<1>1. next \in Nat /\ next' = next
  BY DEF TenantIInv, TenantSafe, TenantTypeOK
<1>2. \A j \in DOMAIN table' : j \in DOMAIN table /\ table'[j] = table[j]
  OBVIOUS
<1>3. /\ copy' \in [Users -> {None} \cup [id : 1..(next' - 1), row : Row]]
      /\ CopiesInScope' /\ CopiesOwned'
  BY <1>1, CopiesKept
<1>4. TenantTypeOK'
  BY <1>1, <1>2, <1>3 DEF TenantIInv, TenantSafe, TenantTypeOK
<1>5. OneOwner'
  BY <1>2 DEF TenantIInv, TenantSafe, OneOwner
<1> QED BY <1>3, <1>4, <1>5 DEF TenantIInv, TenantSafe

LEMMA UserCreatesInv ==
  ASSUME TenantAssumption, TenantIInv, NEW u \in Users, NEW given \in Owner, UserCreates(u, given)
  PROVE  TenantIInv'
<1> DEFINE row == [company |-> CreatedFor(u, given), system |-> FALSE, value |-> 0]
<1>1. row \in Row /\ Owned(row)
  BY DEF TenantAssumption, Row, Owner, Owned, CreatedFor
<1>2. next \in 1..(MaxIds + 1) /\ next <= MaxIds /\ MaxIds \in Nat /\ next' = next + 1
  BY DEF UserCreates, TenantAssumption, TenantIInv, TenantSafe, TenantTypeOK
<1>3. next \in 1..(next' - 1) /\ next' \in 1..(MaxIds + 1) /\ next' >= next
  BY <1>2
<1>4. PutRow(next, row) /\ shared' = shared /\ UNCHANGED copy /\ by' \in Users \cup {None}
  BY DEF UserCreates
<1> QED BY <1>1, <1>2, <1>3, <1>4, WriteInv

LEMMA InternalCreatesInv ==
  ASSUME TenantAssumption, TenantIInv, NEW company \in Owner, NEW system \in BOOLEAN,
         InternalCreates(company, system)
  PROVE  TenantIInv'
<1> DEFINE row == [company |-> company, system |-> system, value |-> 0]
<1>1. row \in Row
  BY DEF TenantAssumption, Row
<1>5. Owned(row)
  BY DEF InternalCreates, Owned
<1>2. next \in 1..(MaxIds + 1) /\ next <= MaxIds /\ MaxIds \in Nat /\ next' = next + 1
  BY DEF InternalCreates, TenantAssumption, TenantIInv, TenantSafe, TenantTypeOK
<1>3. next \in 1..(next' - 1) /\ next' \in 1..(MaxIds + 1) /\ next' >= next
  BY <1>2
<1>4. PutRow(next, row) /\ shared' = shared /\ UNCHANGED copy /\ by' \in Users \cup {None}
  BY DEF InternalCreates
<1> QED BY <1>1, <1>2, <1>3, <1>4, <1>5, WriteInv

\* What a row of the table is.
LEMMA RowKnown ==
  ASSUME TenantAssumption, TenantIInv, NEW i \in DOMAIN table
  PROVE  /\ i \in 1..(next - 1) /\ next \in 1..(MaxIds + 1) /\ MaxIds \in Nat
         /\ table[i] \in Row /\ Owned(table[i])
<1>1. table[i] \in Row /\ i \in 1..(next - 1) /\ next \in 1..(MaxIds + 1)
  BY DEF TenantIInv, TenantSafe, TenantTypeOK
<1>2. Owned(table[i])
  BY DEF TenantIInv, TenantSafe, OneOwner, Owned
<1> QED BY <1>1, <1>2 DEF TenantAssumption

LEMMA LoadInv ==
  ASSUME TenantAssumption, TenantIInv, NEW u \in Users, NEW i \in DOMAIN table, Load(u, i)
  PROVE  TenantIInv'
<1> DEFINE c == [id |-> i, row |-> table[i]]
<1>1. c \in Copy /\ ReadScope(u, c.row) /\ Owned(c.row)
  BY RowKnown DEF Load, Copy
<1>2. /\ copy' = [copy EXCEPT ![u] = c]
      /\ shared' = shared /\ table' = table /\ next' = next /\ by' \in Users \cup {None}
  BY DEF Load
<1>3. copy \in [Users -> {None} \cup Copy]
  BY DEF TenantIInv, TenantSafe, TenantTypeOK, Copy
<1>4. copy' \in [Users -> {None} \cup Copy]
  BY <1>1, <1>2, <1>3
<1>5. TenantTypeOK'
  BY <1>2, <1>4 DEF TenantIInv, TenantSafe, TenantTypeOK, Copy
<1>6. OneOwner'
  BY <1>2 DEF TenantIInv, TenantSafe, OneOwner
<1>7. \A w \in Users : copy'[w] = IF w = u THEN c ELSE copy[w]
  BY <1>2, <1>3
<1>8. CopiesInScope'
  BY <1>1, <1>2, <1>7 DEF TenantIInv, TenantSafe, CopiesInScope, ReadScope
<1>9. CopiesOwned'
  BY <1>1, <1>2, <1>7 DEF TenantIInv, CopiesOwned, Owned
<1> QED BY <1>5, <1>6, <1>8, <1>9 DEF TenantIInv, TenantSafe

\* What a user may save of a copy (BeforeUpdate) is the company's own.
LEMMA SavedOwn ==
  ASSUME TenantIInv, NEW u \in Users, copy[u] # None, MayUpdate(copy[u].row)
  PROVE  copy[u].row.company = CompanyOf[u]
BY DEF TenantIInv, TenantSafe, CopiesInScope, ReadScope, MayUpdate

LEMMA SaveInv ==
  ASSUME TenantAssumption, TenantIInv, NEW u \in Users, Save(u)
  PROVE  TenantIInv'
<1> DEFINE new == [copy[u].row EXCEPT !.value = (@ + 1) % (MaxEdits + 1)]
<1>1. copy[u] # None /\ UNCHANGED <<shared, next>> /\ by' \in Users \cup {None}
  BY DEF Save
<1>2. PutRow(copy[u].id, new) /\ copy' = [copy EXCEPT ![u] = None]
  BY DEF Save
<1>3. copy[u] \in Copy
  BY <1>1, CopyTyped DEF TenantIInv, TenantSafe
<1>4. copy[u].id \in 1..(next' - 1) /\ copy[u].row \in Row /\ Owned(copy[u].row)
  BY <1>1, <1>3 DEF Copy, TenantIInv, CopiesOwned
<1>5. new \in Row /\ Owned(new)
  BY <1>4, RowEdited
<1>6. /\ next' \in Nat /\ next \in Nat /\ next' >= next
      /\ shared' = shared /\ TenantTypeOK /\ OneOwner
  BY <1>1 DEF TenantIInv, TenantSafe, TenantTypeOK
<1>7. /\ DOMAIN table' \subseteq 1..(next' - 1)
      /\ \A j \in DOMAIN table' : table'[j] \in Row
      /\ OneOwner'
  BY <1>2, <1>4, <1>5, <1>6, PutSafe
<1>8. /\ copy' \in [Users -> {None} \cup [id : 1..(next' - 1), row : Row]]
      /\ CopiesInScope' /\ CopiesOwned'
  BY <1>1, <1>2, CopyDropped
<1>9. TenantTypeOK'
  BY <1>1, <1>7, <1>8 DEF TenantIInv, TenantSafe, TenantTypeOK
<1> QED BY <1>7, <1>8, <1>9 DEF TenantIInv, TenantSafe

LEMMA SaveRefusedInv ==
  ASSUME TenantIInv, NEW u \in Users, SaveRefused(u)
  PROVE  TenantIInv'
<1>1. /\ UNCHANGED <<shared, table, next>> /\ by' \in Users \cup {None}
      /\ copy' = [copy EXCEPT ![u] = None]
  BY DEF SaveRefused
<1>2. /\ copy' \in [Users -> {None} \cup [id : 1..(next' - 1), row : Row]]
      /\ CopiesInScope' /\ CopiesOwned'
  BY <1>1, CopyDropped
<1>3. TenantTypeOK'
  BY <1>1, <1>2 DEF TenantIInv, TenantSafe, TenantTypeOK
<1>4. OneOwner'
  BY <1>1 DEF TenantIInv, TenantSafe, OneOwner
<1> QED BY <1>2, <1>3, <1>4 DEF TenantIInv, TenantSafe

LEMMA UpdateFieldsInv ==
  ASSUME TenantAssumption, TenantIInv, NEW u \in Users, NEW i \in DOMAIN table, UpdateFields(u, i)
  PROVE  TenantIInv'
<1> DEFINE new == [table[i] EXCEPT !.value = (@ + 1) % (MaxEdits + 1)]
<1>1. new \in Row /\ Owned(new)
  BY RowKnown, RowEdited
<1>2. /\ PutRow(i, new) /\ shared' = shared /\ next' = next /\ UNCHANGED copy
      /\ by' \in Users \cup {None}
  BY DEF UpdateFields
<1>3. i \in 1..(next' - 1) /\ next' \in 1..(MaxIds + 1) /\ next' >= next /\ MaxIds \in Nat
  BY <1>2, RowKnown
<1> QED BY <1>1, <1>2, <1>3, WriteInv

LEMMA TransferInv ==
  ASSUME TenantAssumption, TenantIInv, NEW i \in DOMAIN table, NEW c \in Companies, Transfer(i, c)
  PROVE  TenantIInv'
<1> DEFINE new == [table[i] EXCEPT !.company = c]
<1>1. table[i] \in Row /\ ~table[i].system
  BY RowKnown DEF Transfer
<1>2. new \in Row /\ new.company = c /\ ~new.system
  BY <1>1 DEF Row, Owner
<1>3. Owned(new)
  BY <1>2 DEF Owned, TenantAssumption
<1>4. /\ PutRow(i, new) /\ shared' = shared /\ next' = next /\ UNCHANGED copy
      /\ by' \in Users \cup {None}
  BY DEF Transfer
<1>5. i \in 1..(next' - 1) /\ next' \in 1..(MaxIds + 1) /\ next' >= next /\ MaxIds \in Nat
  BY <1>4, RowKnown
<1> QED BY <1>2, <1>3, <1>4, <1>5, WriteInv

LEMMA TenantNextInv ==
  ASSUME TenantAssumption, TenantIInv, [TenantNext]_tenantVars
  PROVE  TenantIInv'
<1>1. ASSUME NEW u \in Users, UserNext(u) PROVE TenantIInv'
  <2>1. ASSUME NEW given \in Owner, UserCreates(u, given) PROVE TenantIInv'
    BY <2>1, UserCreatesInv
  <2>2. ASSUME NEW i \in DOMAIN table, Load(u, i) PROVE TenantIInv'
    BY <2>2, LoadInv
  <2>3. ASSUME NEW i \in DOMAIN table, UpdateFields(u, i) PROVE TenantIInv'
    BY <2>3, UpdateFieldsInv
  <2>4. ASSUME NEW i \in DOMAIN table, UserDeletes(u, i) PROVE TenantIInv'
    BY <2>4, DeleteInv DEF UserDeletes
  <2>5. CASE Save(u)
    BY <2>5, SaveInv
  <2>6. CASE SaveRefused(u)
    BY <2>6, SaveRefusedInv
  <2> QED BY <1>1, <2>1, <2>2, <2>3, <2>4, <2>5, <2>6 DEF UserNext
<1>2. ASSUME NEW company \in Owner, NEW system \in BOOLEAN, InternalCreates(company, system)
      PROVE  TenantIInv'
  BY <1>2, InternalCreatesInv
<1>3. ASSUME NEW i \in DOMAIN table, NEW c \in Companies, Transfer(i, c) PROVE TenantIInv'
  BY <1>3, TransferInv
<1>4. ASSUME NEW i \in DOMAIN table, InternalDeletes(i) PROVE TenantIInv'
  BY <1>4, DeleteInv DEF InternalDeletes
<1>5. CASE UNCHANGED tenantVars
  BY <1>5 DEF tenantVars, TenantIInv, TenantSafe, TenantTypeOK, OneOwner, CopiesInScope, ReadScope,
    CopiesOwned, Owned
<1> QED BY <1>1, <1>2, <1>3, <1>4, <1>5 DEF TenantNext

\* Every row, and every copy a service may save, is one company's or the system's
\* (BeforeCreate, BeforeUpdate, Save).
THEOREM TenantInvariant == ASSUME TenantAssumption PROVE TenantSpec => []TenantIInv
<1>1. TenantInit => TenantIInv
  BY TenantInitInv
<1>2. TenantIInv /\ [TenantNext]_tenantVars => TenantIInv'
  BY TenantNextInv
<1> QED BY <1>1, <1>2, PTL DEF TenantSpec

\* Rows have one owner and copies were in scope when they were read, after any mixture
\* of creates, saves of stale copies, transfers and deletes (applyScope, BeforeCreate).
THEOREM TenantSafety == ASSUME TenantAssumption PROVE TenantSpec => []TenantSafe
<1>1. TenantIInv => TenantSafe
  BY DEF TenantIInv
<1> QED BY <1>1, TenantInvariant, PTL

-----------------------------------------------------------------------------
(* Isolation.                                                              *)

\* A step that writes one row: it is enough to look at that row.
LEMMA WriteIsolated ==
  ASSUME NEW u \in Users, by' = u, NEW i, NEW row, PutRow(i, row),
         row.company = CompanyOf[u] \/ (~shared /\ i = next /\ i \notin DOMAIN table),
         \/ i \in DOMAIN table /\ table[i].company = CompanyOf[u]
         \/ i = next /\ i \notin DOMAIN table
         \/ copy[u] # None /\ copy[u].id = i /\ copy[u].row.company = CompanyOf[u]
  PROVE  Isolated
<1>1. /\ DOMAIN table' = DOMAIN table \cup {i}
      /\ table'[i] = row
      /\ \A j \in DOMAIN table \ {i} : table'[j] = table[j]
  BY RowPut
<1> QED BY <1>1 DEF Isolated

LEMMA StepIsolated ==
  ASSUME TenantAssumption, TenantIInv, TenantNext
  PROVE  Isolated
<1>1. ASSUME NEW u \in Users, UserNext(u) PROVE Isolated
  <2>1. ASSUME NEW given \in Owner, UserCreates(u, given) PROVE Isolated
    <3>1. next \notin DOMAIN table
      BY DEF TenantIInv, TenantSafe, TenantTypeOK
    <3> DEFINE row == [company |-> CreatedFor(u, given), system |-> FALSE, value |-> 0]
    <3>2. PutRow(next, row) /\ by' = u
      BY <2>1 DEF UserCreates
    <3>3. row.company = CompanyOf[u] \/ ~shared
      BY DEF CreatedFor
    <3> QED BY <3>1, <3>2, <3>3, WriteIsolated
  <2>2. ASSUME NEW i \in DOMAIN table, Load(u, i) PROVE Isolated
    BY <2>2 DEF Load, Isolated
  <2>3. ASSUME NEW i \in DOMAIN table, UpdateFields(u, i) PROVE Isolated
    <3> DEFINE new == [table[i] EXCEPT !.value = (@ + 1) % (MaxEdits + 1)]
    <3>1. table[i].company = CompanyOf[u] /\ PutRow(i, new) /\ by' = u
      BY <2>3 DEF UpdateFields, WriteScope
    <3>2. new.company = table[i].company
      BY RowKnown, RowEdited
    <3> QED BY <3>1, <3>2, WriteIsolated
  <2>4. ASSUME NEW i \in DOMAIN table, UserDeletes(u, i) PROVE Isolated
    <3>1. /\ table[i].company = CompanyOf[u] /\ by' = u
          /\ table' = [j \in DOMAIN table \ {i} |-> table[j]]
      BY <2>4 DEF UserDeletes, WriteScope
    <3> QED BY <3>1 DEF Isolated
  <2>5. CASE Save(u)
    <3> DEFINE new == [copy[u].row EXCEPT !.value = (@ + 1) % (MaxEdits + 1)]
    <3>1. copy[u] # None /\ MayUpdate(copy[u].row) /\ PutRow(copy[u].id, new) /\ by' = u
      BY <2>5 DEF Save
    <3>2. copy[u].row.company = CompanyOf[u]
      BY <3>1, SavedOwn
    <3>3. copy[u].row \in Row /\ Owned(copy[u].row)
      BY <3>1, CopyTyped DEF Copy, TenantIInv, TenantSafe, CopiesOwned
    <3>4. new.company = CompanyOf[u]
      BY <3>2, <3>3, RowEdited
    <3> QED BY <3>1, <3>2, <3>4, WriteIsolated
  <2>6. CASE SaveRefused(u)
    BY <2>6 DEF SaveRefused, Isolated
  <2> QED BY <1>1, <2>1, <2>2, <2>3, <2>4, <2>5, <2>6 DEF UserNext
<1>2. CASE by' = None
  BY <1>2 DEF Isolated, TenantAssumption
<1> QED BY <1>1, <1>2 DEF TenantNext, InternalCreates, Transfer, InternalDeletes

\* A user's step changes, deletes or brings into being rows of the user's company only,
\* but for Save, which may bring back or take back a row that was the company's when
\* the user read it, and for a new row of a tenant table that names another company:
\* for any number of users, companies and rows (applyScope, BaseRepository.Update,
\* CompanyBase.BeforeCreate).
THEOREM Isolates == ASSUME TenantAssumption PROVE TenantSpec => Isolation
<1>1. TenantIInv /\ [TenantNext]_tenantVars => [Isolated]_tenantVars
  BY StepIsolated
<1> QED BY <1>1, TenantInvariant, PTL DEF TenantSpec, Isolation

-----------------------------------------------------------------------------
(* The rate limit (RateLimit).                                             *)

\* Hits counted by one key, between its first hit and its expiry.
OfOneWindow(S) == \A x, y \in S : x[1] = y[1] => x = y

\* Admitted since the key was created.
Current == {x \in recent : x[2] + ttl <= Window}

RateIInv ==
  /\ RateTypeOK /\ CounterExpires
  /\ ttl = 0 => OfOneWindow(recent) /\ \A x \in recent : x[2] > 0
  /\ ttl > 0 => /\ OfOneWindow(Current) /\ OfOneWindow(recent \ Current)
                /\ \A x \in Current : x[1] <= count

LEMMA CeilingPositive ==
  ASSUME RateAssumption, NEW e \in Settings, NEW o \in Settings
  PROVE  Configure(e, o) \in (Settings \cup {Default}) \ {0}
BY DEF RateAssumption, Configure

LEMMA CeilingBelow ==
  ASSUME RateAssumption, RateTypeOK
  PROVE  max \in Nat /\ max > 0 /\ MaxHits \in Nat /\ MaxHits > 1 /\ MaxHits > max /\ Window \in Nat /\ Window > 0
BY DEF RateAssumption, RateTypeOK

LEMMA RateInitInv == RateAssumption /\ RateInit => RateIInv
<1> SUFFICES ASSUME RateAssumption, RateInit PROVE RateIInv
  OBVIOUS
<1>1. RateTypeOK
  BY CeilingPositive DEF RateTypeOK, RateInit, RateAssumption
<1> QED BY <1>1 DEF RateIInv, CounterExpires, OfOneWindow, RateInit, RateAssumption

LEMMA CountedInv ==
  ASSUME RateAssumption, RateIInv, RequestCounted
  PROVE  RateIInv'
<1>1. /\ max \in Nat /\ max > 0 /\ MaxHits \in Nat /\ MaxHits > 1 /\ MaxHits > max
      /\ Window \in Nat /\ Window > 0 /\ count \in Nat /\ ttl \in 0..Window
  BY CeilingBelow DEF RateIInv, RateTypeOK
<1>2. /\ count' = (IF count < MaxHits THEN count + 1 ELSE count)
      /\ ttl' = (IF count' = 1 THEN Window ELSE ttl)
      /\ max' = max /\ count' > 0
  <2>1. /\ count' = (IF count < MaxHits THEN count + 1 ELSE count)
        /\ ttl' = (IF count' = 1 THEN Window ELSE ttl)
        /\ max' = max
    BY DEF RequestCounted, CountHit, Incremented, config
  <2> QED BY <1>1, <2>1
<1>3. recent \subseteq (1..max) \X Ages
  BY DEF RateIInv, RateTypeOK
<1>4. recent' \subseteq recent \cup {<<count', 0>>} /\ (count' > max => recent' = recent)
  BY <1>1, <1>2 DEF RequestCounted, Within
<1>5. RateTypeOK'
  <2>1. count' <= max => <<count', 0>> \in (1..max) \X Ages
    BY <1>1, <1>2 DEF Ages
  <2>2. recent' \subseteq (1..max') \X Ages
    <3>1. CASE count' <= max
      BY <1>2, <1>3, <1>4, <2>1, <3>1
    <3>2. CASE count' > max
      BY <1>2, <1>3, <1>4, <3>2
    <3> QED BY <1>1, <1>2, <3>1, <3>2
  <2>3. count' \in Nat /\ ttl' \in 0..Window
    BY <1>1, <1>2
  <2>4. /\ UNCHANGED <<env, option, max, up>>
        /\ last' \in {"none", "admitted", "throttled", "passed"}
    BY DEF RequestCounted, config
  <2> QED BY <2>2, <2>3, <2>4 DEF RateIInv, RateTypeOK
<1>6. CASE ttl = 0
  <2>1. count = 0 /\ count' = 1 /\ ttl' = Window
    BY <1>1, <1>2, <1>6 DEF RateIInv, CounterExpires
  <2>2. \A x \in recent : x[2] \in Nat /\ x[2] > 0
    BY <1>3, <1>6 DEF RateIInv, Ages
  <2>3. Current' \subseteq {<<1, 0>>}
    BY <1>1, <1>4, <2>1, <2>2 DEF Current
  <2>4. <<1, 0>> \in recent' => <<1, 0>> \in Current'
    BY <1>1, <2>1 DEF Current
  <2>5. recent' \ Current' \subseteq recent
    BY <1>4, <2>1, <2>4
  <2>6. OfOneWindow(Current') /\ \A x \in Current' : x[1] <= count'
    BY <2>1, <2>3 DEF OfOneWindow
  <2>7. OfOneWindow(recent' \ Current')
    BY <1>6, <2>5 DEF RateIInv, OfOneWindow
  <2>8. CounterExpires'
    BY <1>1, <2>1 DEF CounterExpires
  <2> QED BY <1>1, <1>5, <2>1, <2>6, <2>7, <2>8 DEF RateIInv, OfOneWindow
<1>7. CASE ttl > 0
  <2>1. count > 0 /\ count' > 1 /\ ttl' = ttl
    BY <1>1, <1>2, <1>7 DEF RateIInv, CounterExpires
  <2>2. \A x \in recent : x[1] \in Nat /\ x[2] \in Nat
    BY <1>3 DEF Ages
  <2>3. Current' \subseteq Current \cup {<<count', 0>>}
    BY <1>4, <2>1 DEF Current
  <2>4. <<count', 0>> \in recent' => <<count', 0>> \in Current'
    BY <1>1, <2>1 DEF Current
  <2>5. Current \cap recent' \subseteq Current'
    BY <2>1 DEF Current
  <2>6. recent' \ Current' \subseteq recent \ Current
    BY <1>4, <2>4, <2>5
  <2>7. OfOneWindow(Current) /\ OfOneWindow(recent \ Current) /\ \A x \in Current : x[1] <= count
    BY <1>7 DEF RateIInv
  <2>8. OfOneWindow(recent' \ Current')
    BY <2>6, <2>7 DEF OfOneWindow
  <2>9. \A x \in Current : x[1] <= count'
    BY <1>1, <1>2, <2>2, <2>7 DEF Current
  <2>10. OfOneWindow(Current') /\ \A x \in Current' : x[1] <= count'
    <3>1. CASE count' > max
      <4>1. recent' = recent /\ Current' = Current
        BY <1>4, <2>1, <3>1 DEF Current
      <4> QED BY <2>7, <2>9, <4>1
    <3>2. CASE count' <= max
      <4>1. count' = count + 1
        BY <1>1, <1>2, <3>2
      <4>2. \A x \in Current : x[1] < count'
        BY <1>1, <2>2, <2>7, <4>1 DEF Current
      <4>3. \A x \in Current : x[1] # count'
        BY <1>1, <2>2, <4>1, <4>2 DEF Current
      <4>4. OfOneWindow(Current')
        BY <2>3, <2>7, <4>3 DEF OfOneWindow
      <4>5. ASSUME NEW x \in Current' PROVE x[1] <= count'
        <5>1. CASE x \in Current
          BY <2>9, <5>1
        <5>2. CASE x = <<count', 0>>
          BY <1>1, <4>1, <5>2
        <5> QED BY <2>3, <5>1, <5>2
      <4> QED BY <4>4, <4>5
    <3> QED BY <1>1, <1>2, <3>1, <3>2
  <2>11. CounterExpires'
    BY <1>1, <1>2, <1>7, <2>1 DEF CounterExpires
  <2> QED BY <1>1, <1>5, <1>7, <2>1, <2>8, <2>10, <2>11 DEF RateIInv
<1> QED BY <1>1, <1>6, <1>7

LEMMA TickInv ==
  ASSUME RateAssumption, RateIInv, Tick
  PROVE  RateIInv'
<1>1. /\ max \in Nat /\ Window \in Nat /\ Window > 0 /\ count \in Nat /\ ttl \in 0..Window
  BY CeilingBelow DEF RateIInv, RateTypeOK
<1>2. /\ ttl' = (IF ttl > 0 THEN ttl - 1 ELSE 0)
      /\ count' = (IF ttl = 1 THEN 0 ELSE count)
      /\ UNCHANGED <<env, option, max, up, last>>
      /\ recent' = {<<h[1], h[2] + 1>> : h \in {x \in recent : x[2] + 1 \in Ages}}
  BY DEF Tick, config
<1>3. \A x \in recent : x = <<x[1], x[2]>> /\ x[1] \in 1..max /\ x[2] \in Nat /\ x[2] < Window
  BY <1>1 DEF RateIInv, RateTypeOK, Ages
<1>4. ASSUME NEW y \in recent'
      PROVE  /\ <<y[1], y[2] - 1>> \in recent /\ y = <<y[1], y[2]>> /\ y[1] \in 1..max /\ y[2] \in Ages
             /\ y[2] > 0
  <2>1. PICK x \in recent : x[2] + 1 \in Ages /\ y = <<x[1], x[2] + 1>>
    BY <1>2
  <2>2. y[1] = x[1] /\ y[2] = x[2] + 1 /\ x[2] \in Nat
    BY <1>3, <2>1
  <2>3. y[2] - 1 = x[2]
    BY <2>2
  <2> QED BY <1>3, <2>1, <2>2, <2>3
<1>5. RateTypeOK'
  <2>1. ASSUME NEW y \in recent' PROVE y \in (1..max') \X Ages
    <3>1. y = <<y[1], y[2]>> /\ y[1] \in 1..max' /\ y[2] \in Ages
      BY <1>2, <1>4
    <3> QED BY <3>1
  <2> QED BY <1>1, <1>2, <2>1 DEF RateIInv, RateTypeOK
<1>6. CounterExpires'
  BY <1>1, <1>2 DEF RateIInv, CounterExpires
<1>7. ASSUME NEW S, OfOneWindow(S), NEW T, \A y \in T : y \in recent' /\ <<y[1], y[2] - 1>> \in S
      PROVE  OfOneWindow(T)
  <2> SUFFICES ASSUME NEW x \in T, NEW y \in T, x[1] = y[1] PROVE x = y
    BY DEF OfOneWindow
  <2>1. <<x[1], x[2] - 1>> = <<y[1], y[2] - 1>>
    BY <1>7 DEF OfOneWindow
  <2>2. x[2] - 1 = y[2] - 1
    BY <2>1
  <2>3. x[2] \in Nat /\ y[2] \in Nat
    <3>1. x \in recent' /\ y \in recent'
      BY <1>7
    <3>2. x[2] \in Ages /\ y[2] \in Ages
      BY <1>4, <3>1
    <3> QED BY <1>1, <3>2 DEF Ages
  <2>4. x[2] = y[2]
    BY <2>2, <2>3
  <2> QED BY <1>4, <1>7, <2>4
<1>8. CASE ttl = 0
  <2>1. ttl' = 0 /\ OfOneWindow(recent)
    BY <1>2, <1>8 DEF RateIInv
  <2>2. OfOneWindow(recent')
    BY <1>4, <1>7, <2>1
  <2>3. \A x \in recent' : x[2] > 0
    BY <1>4
  <2> QED BY <1>5, <1>6, <2>1, <2>2, <2>3 DEF RateIInv
<1>9. CASE ttl = 1
  <2>1. ttl' = 0
    BY <1>2, <1>9
  <2>2. Current = recent
    BY <1>1, <1>3, <1>9 DEF Current
  <2>3. OfOneWindow(recent')
    BY <1>4, <1>7, <1>9, <2>2 DEF RateIInv
  <2>4. \A x \in recent' : x[2] > 0
    BY <1>4
  <2> QED BY <1>5, <1>6, <2>1, <2>3, <2>4 DEF RateIInv
<1>10. CASE ttl > 1
  <2>1. ttl' = ttl - 1 /\ ttl' > 0 /\ count' = count
    BY <1>1, <1>2, <1>10
  <2>2. ASSUME NEW y \in recent' PROVE y \in Current' <=> <<y[1], y[2] - 1>> \in Current
    <3>1. y[2] \in Nat /\ <<y[1], y[2] - 1>> \in recent
      BY <1>4, <2>2 DEF Ages
    <3>2. y[2] + ttl' = (y[2] - 1) + ttl
      BY <1>1, <2>1, <3>1
    <3> QED BY <3>1, <3>2 DEF Current
  <2>3. /\ OfOneWindow(Current) /\ OfOneWindow(recent \ Current)
        /\ \A x \in Current : x[1] <= count
    BY <1>10, <1>1 DEF RateIInv
  <2>4. Current' \subseteq recent'
    BY DEF Current
  <2>5. OfOneWindow(Current')
    BY <1>7, <2>2, <2>3, <2>4
  <2>6. OfOneWindow(recent' \ Current')
    BY <1>4, <1>7, <2>2, <2>3
  <2>7. \A x \in Current' : x[1] <= count'
    BY <2>1, <2>2, <2>3, <2>4
  <2> QED BY <1>1, <1>5, <1>6, <2>1, <2>5, <2>6, <2>7 DEF RateIInv
<1> QED BY <1>1, <1>8, <1>9, <1>10

LEMMA RateNextInv ==
  ASSUME RateAssumption, RateIInv, [RateNext]_limitVars
  PROVE  RateIInv'
<1>1. ASSUME UNCHANGED <<env, option, max, count, ttl, recent>>, up' \in BOOLEAN, last' \in {last, "passed"}
      PROVE  RateIInv'
  BY <1>1 DEF RateIInv, RateTypeOK, CounterExpires, OfOneWindow, Current
<1>2. CASE RequestUncounted
  BY <1>1, <1>2 DEF RequestUncounted, config, RateIInv, RateTypeOK
<1>3. CASE Outage
  BY <1>1, <1>3 DEF Outage, config
<1>4. CASE UNCHANGED limitVars
  BY <1>1, <1>4 DEF limitVars, RateIInv, RateTypeOK
<1> QED BY <1>2, <1>3, <1>4, CountedInv, TickInv DEF RateNext

LEMMA WindowBound ==
  ASSUME NEW n \in Nat, NEW S, \A x \in S : x[1] \in 1..n, OfOneWindow(S)
  PROVE  IsFiniteSet(S) /\ Cardinality(S) <= n
<1> DEFINE f == [x \in S |-> x[1]]
<1>1. f \in Injection(S, 1..n)
  BY DEF Injection, IsInjective, OfOneWindow
<1>2. IsFiniteSet(1..n) /\ Cardinality(1..n) = n
  BY FS_Interval
<1> QED BY <1>1, <1>2, FS_Injection

LEMMA RateSafe ==
  ASSUME RateAssumption, RateIInv
  PROVE  LimitSound
<1>1. max \in Nat /\ \A x \in recent : x[1] \in 1..max
  BY CeilingBelow DEF RateIInv, RateTypeOK
<1>2. CASE ttl = 0
  <2>1. Cardinality(recent) <= max /\ IsFiniteSet(recent)
    BY <1>1, <1>2, WindowBound DEF RateIInv
  <2>2. Cardinality(recent) \in Nat
    BY <2>1, FS_CardinalityType
  <2> QED BY <1>1, <2>1, <2>2 DEF LimitSound, CeilingHolds, RateIInv
<1>3. CASE ttl > 0
  <2> DEFINE Earlier == recent \ Current
  <2>1. OfOneWindow(Current) /\ OfOneWindow(Earlier)
    BY <1>3 DEF RateIInv
  <2>2. (\A x \in Current : x[1] \in 1..max) /\ (\A x \in Earlier : x[1] \in 1..max)
    BY <1>1 DEF Current
  <2>3. IsFiniteSet(Current) /\ Cardinality(Current) <= max
    BY <1>1, <2>1, <2>2, WindowBound
  <2>4. IsFiniteSet(Earlier) /\ Cardinality(Earlier) <= max
    BY <1>1, <2>1, <2>2, WindowBound
  <2>5. recent = Current \cup Earlier /\ Current \cap Earlier = {}
    BY DEF Current
  <2>6. Cardinality(recent) = Cardinality(Current) + Cardinality(Earlier) - Cardinality(Current \cap Earlier)
    BY <2>3, <2>4, <2>5, FS_Union
  <2>7. Cardinality(Current \cap Earlier) = 0
    BY <2>5, FS_EmptySet
  <2>8. Cardinality(Current) \in Nat /\ Cardinality(Earlier) \in Nat
    BY <2>3, <2>4, FS_CardinalityType
  <2> HIDE DEF Earlier
  <2> QED BY <1>1, <2>3, <2>4, <2>6, <2>7, <2>8 DEF LimitSound, CeilingHolds, RateIInv
<1> QED BY <1>2, <1>3 DEF RateIInv, RateTypeOK

THEOREM RateInvariant == ASSUME RateAssumption PROVE RateSpec => []RateIInv
<1>1. RateInit => RateIInv
  BY RateInitInv
<1>2. RateIInv /\ [RateNext]_limitVars => RateIInv'
  BY RateNextInv
<1> QED BY <1>1, <1>2, PTL DEF RateSpec

-----------------------------------------------------------------------------
(* Share links (GuestAccess).                                              *)

Logging(r) == step[r] = "logging"

\* Whoever is to publish has set the key that stands, and nobody else has.
LoggerSound ==
  \A r \in Requests : Logging(r) =>
    /\ left = Debounce - made[r] /\ entry >= 2 * Debounce - left
    /\ \A s \in Requests : Logging(s) => s = r

\* The key outlives the latest entry by no more than its lifetime, and what it keeps from
\* being logged has an entry, or a failure, since it was set.
KeySound ==
  /\ (\A r \in Requests : ~Logging(r)) => entry >= Debounce - left
  /\ left > 0 =>
       \/ \E r \in Requests : Logging(r)
       \/ entry <= Debounce - left
       \/ fault <= Debounce - left

GuestIInv ==
  /\ GuestTypeOK /\ closest \in Nat /\ LoggedOnce /\ Accounted
  /\ LoggerSound /\ KeySound

LEMMA GuestInitInv == GuestAssumption /\ GuestInit => GuestIInv
BY DEF GuestAssumption, GuestInit, GuestIInv, GuestTypeOK, LoggedOnce, Accounted, LoggerSound,
  KeySound, Logging, Old, Actors

\* What a step of one request does to the others.
LEMMA Advanced ==
  ASSUME GuestTypeOK, NEW r \in Requests, NEW following, Advance(r, following)
  PROVE  \A s \in Requests : step'[s] = IF s = r THEN following ELSE step[s]
BY DEF Advance, GuestTypeOK

LEMMA AdvanceTyped ==
  ASSUME GuestTypeOK, NEW r \in Requests, NEW following \in {"idle", "known", "logging"} \cup Actors,
         Advance(r, following)
  PROVE  step' \in [Requests -> {"idle", "known", "logging"} \cup Actors]
BY DEF Advance, GuestTypeOK

LEMMA Numbers ==
  ASSUME GuestAssumption, GuestTypeOK
  PROVE  /\ Debounce \in Nat /\ Debounce > 0 /\ Old = 2 * Debounce
         /\ left \in Nat /\ left <= Debounce
         /\ access \in Nat /\ entry \in Nat /\ fault \in Nat
         /\ \A r \in Requests : made[r] \in Nat /\ made[r] < Debounce
BY DEF GuestAssumption, GuestTypeOK, Old

LEMMA ArriveInv ==
  ASSUME GuestAssumption, GuestIInv, NEW r \in Requests,
         NEW user \in BOOLEAN, NEW valid \in BOOLEAN, NEW reachable \in BOOLEAN,
         Arrive(r, user, valid, reachable)
  PROVE  GuestIInv'
<1> DEFINE guest == ~user /\ valid /\ reachable /\ link
           following == IF user THEN "user" ELSE IF guest THEN "known" ELSE "nobody"
<1>1. /\ step[r] = "idle" /\ Advance(r, following)
      /\ answer' = [answer EXCEPT ![r] = "none"]
      /\ access' = (IF guest THEN 0 ELSE access)
      /\ UNCHANGED <<link, left, made, entry, fault, closest>>
  BY DEF Arrive
<1>2. following \in {"known", "user", "nobody"} /\ (guest => following = "known")
  OBVIOUS
<1> HIDE DEF guest, following
<1>3. \A s \in Requests : step'[s] = IF s = r THEN following ELSE step[s]
  BY <1>1, Advanced DEF GuestIInv
<1>4. \A s \in Requests : Logging(s)' <=> Logging(s)
  BY <1>1, <1>2, <1>3 DEF Logging
<1>5. GuestTypeOK'
  <2>1. step' \in [Requests -> {"idle", "known", "logging"} \cup Actors]
    BY <1>1, <1>2, AdvanceTyped DEF GuestIInv, Actors
  <2>2. answer' \in [Requests -> {"none", "served", "refused", "throttled"}]
    BY <1>1 DEF GuestIInv, GuestTypeOK
  <2>3. access' \in 0..Old
    BY <1>1, Numbers DEF GuestIInv, GuestTypeOK
  <2> QED BY <1>1, <2>1, <2>2, <2>3 DEF GuestIInv, GuestTypeOK
<1>6. LoggerSound' /\ KeySound'
  BY <1>1, <1>4 DEF GuestIInv, LoggerSound, KeySound
<1>7. Accounted'
  <2>1. CASE guest
    BY <1>2, <1>3, <2>1 DEF Accounted
  <2>2. CASE ~guest
    <3>1. access' = access /\ entry' = entry /\ fault' = fault
      BY <1>1, <2>2
    <3>2. \A s \in Requests : step[s] \in {"known", "logging"} => step'[s] \in {"known", "logging"}
      BY <1>1, <1>3
    <3> QED BY <3>1, <3>2 DEF GuestIInv, Accounted
  <2> QED BY <2>1, <2>2
<1> QED BY <1>1, <1>5, <1>6, <1>7 DEF GuestIInv, LoggedOnce

LEMMA SetSeenInv ==
  ASSUME GuestAssumption, GuestIInv, NEW r \in Requests, SetSeen(r)
  PROVE  GuestIInv'
<1> DEFINE following == IF left = 0 THEN "logging" ELSE "guest"
<1>1. /\ step[r] = "known" /\ Advance(r, following)
      /\ left' = (IF left = 0 THEN Debounce ELSE left)
      /\ made' = [made EXCEPT ![r] = 0]
      /\ UNCHANGED <<link, answer, access, entry, fault, closest>>
  BY DEF SetSeen
<1>2. /\ Debounce \in Nat /\ Debounce > 0 /\ Old = 2 * Debounce
      /\ left \in Nat /\ left <= Debounce
      /\ access \in Nat /\ entry \in Nat /\ fault \in Nat
      /\ \A s \in Requests : made[s] \in Nat /\ made[s] < Debounce
  BY Numbers DEF GuestIInv
<1>3. \A s \in Requests : step'[s] = IF s = r THEN following ELSE step[s]
  BY <1>1, Advanced DEF GuestIInv
<1>4. \A s \in Requests : made'[s] = IF s = r THEN 0 ELSE made[s]
  BY <1>1 DEF GuestIInv, GuestTypeOK
<1>5. GuestTypeOK'
  <2>1. step' \in [Requests -> {"idle", "known", "logging"} \cup Actors]
    BY <1>1, AdvanceTyped DEF GuestIInv, Actors
  <2>2. made' \in [Requests -> 0..(Debounce - 1)] /\ left' \in 0..Debounce
    BY <1>1, <1>2 DEF GuestIInv, GuestTypeOK
  <2> QED BY <1>1, <2>1, <2>2 DEF GuestIInv, GuestTypeOK
<1>6. CASE left = 0
  <2>1. ASSUME NEW s \in Requests, Logging(s) PROVE FALSE
    <3>1. left = Debounce - made[s]
      BY <2>1 DEF GuestIInv, LoggerSound
    <3>2. made[s] \in Nat /\ made[s] < Debounce
      BY <1>2
    <3> QED BY <1>2, <1>6, <3>1, <3>2
  <2>2. entry >= Debounce /\ entry' = entry /\ left' = Debounce
    BY <1>1, <1>2, <1>6, <2>1 DEF GuestIInv, KeySound
  <2>3. \A s \in Requests : Logging(s)' <=> s = r
    BY <1>3, <1>6, <2>1 DEF Logging
  <2>4. made'[r] = 0
    BY <1>4
  <2>5. LoggerSound'
    <3>1. left' = Debounce - made'[r] /\ entry' >= 2 * Debounce - left'
      BY <1>2, <2>2, <2>4
    <3>2. Debounce' = Debounce
      OBVIOUS
    <3> QED BY <2>3, <3>1, <3>2 DEF LoggerSound
  <2>6. KeySound'
    BY <2>3 DEF KeySound
  <2>7. Accounted'
    BY <1>3, <1>6 DEF Accounted
  <2> QED BY <1>1, <1>5, <2>5, <2>6, <2>7 DEF GuestIInv, LoggedOnce
<1>7. CASE left # 0
  <2>1. \A s \in Requests : Logging(s)' <=> Logging(s)
    BY <1>1, <1>3, <1>7 DEF Logging
  <2>2. \A s \in Requests : Logging(s) => made'[s] = made[s]
    BY <1>1, <1>4 DEF Logging
  <2>3. left' = left /\ entry' = entry /\ fault' = fault /\ access' = access
    BY <1>1, <1>7
  <2>4. LoggerSound'
    BY <2>1, <2>2, <2>3 DEF GuestIInv, LoggerSound
  <2>5. KeySound'
    BY <2>1, <2>3 DEF GuestIInv, KeySound
  <2>6. Accounted'
    <3>1. CASE \E s \in Requests : Logging(s)
      BY <2>1, <3>1 DEF Accounted, Logging
    <3>2. CASE entry <= Debounce - left
      BY <1>2, <1>7, <2>3, <3>2 DEF Accounted
    <3>3. CASE fault <= Debounce - left
      BY <1>2, <1>7, <2>3, <3>3 DEF Accounted
    <3> QED BY <1>2, <1>7, <3>1, <3>2, <3>3 DEF GuestIInv, KeySound
  <2> QED BY <1>1, <1>5, <2>4, <2>5, <2>6 DEF GuestIInv, LoggedOnce
<1> QED BY <1>6, <1>7

LEMMA SetSeenFailsInv ==
  ASSUME GuestAssumption, GuestIInv, NEW r \in Requests, NEW set \in BOOLEAN, SetSeenFails(r, set)
  PROVE  GuestIInv'
<1>1. /\ step[r] = "known" /\ Advance(r, "guest")
      /\ left' = left \/ (left = 0 /\ left' = Debounce)
      /\ fault' = 0
      /\ UNCHANGED <<link, made, answer, access, entry, closest>>
  BY DEF SetSeenFails
<1>2. /\ Debounce \in Nat /\ Debounce > 0 /\ Old = 2 * Debounce
      /\ left \in Nat /\ left <= Debounce
      /\ access \in Nat /\ entry \in Nat /\ fault \in Nat
  BY Numbers DEF GuestIInv
<1>3. \A s \in Requests : step'[s] = IF s = r THEN "guest" ELSE step[s]
  BY <1>1, Advanced DEF GuestIInv
<1>4. \A s \in Requests : Logging(s)' <=> Logging(s)
  BY <1>1, <1>3 DEF Logging
<1>5. GuestTypeOK'
  <2>1. step' \in [Requests -> {"idle", "known", "logging"} \cup Actors]
    BY <1>1, AdvanceTyped DEF GuestIInv, Actors
  <2>2. left' \in 0..Debounce /\ fault' \in 0..Old
    BY <1>1, <1>2
  <2> QED BY <1>1, <2>1, <2>2 DEF GuestIInv, GuestTypeOK
<1>6. (\E s \in Requests : Logging(s)) => left' = left
  BY <1>1, <1>2 DEF GuestIInv, LoggerSound, GuestTypeOK
<1>7. LoggerSound'
  BY <1>1, <1>4, <1>6 DEF GuestIInv, LoggerSound
<1>8. KeySound'
  <2>1. ASSUME \A s \in Requests : ~Logging(s) PROVE entry' >= Debounce - left'
    <3>1. entry >= Debounce - left /\ entry' = entry
      BY <1>1, <2>1 DEF GuestIInv, KeySound
    <3> QED BY <1>1, <1>2, <3>1
  <2>2. fault' <= Debounce - left'
    BY <1>1, <1>2
  <2> QED BY <1>4, <2>1, <2>2 DEF KeySound
<1>9. Accounted'
  BY <1>1, <1>2 DEF Accounted
<1> QED BY <1>1, <1>5, <1>7, <1>8, <1>9 DEF GuestIInv, LoggedOnce

LEMMA PublishInv ==
  ASSUME GuestAssumption, GuestIInv, NEW r \in Requests, Publish(r)
  PROVE  GuestIInv'
<1>1. /\ Logging(r) /\ Advance(r, "guest")
      /\ entry' = made[r]
      /\ closest' = (IF entry - made[r] < closest THEN entry - made[r] ELSE closest)
      /\ UNCHANGED <<link, left, made, answer, access, fault>>
  BY DEF Publish, Logging
<1>2. /\ Debounce \in Nat /\ Debounce > 0 /\ Old = 2 * Debounce
      /\ left \in Nat /\ left <= Debounce
      /\ access \in Nat /\ entry \in Nat /\ fault \in Nat
      /\ made[r] \in Nat /\ made[r] < Debounce
  BY Numbers DEF GuestIInv
<1>3. \A s \in Requests : step'[s] = IF s = r THEN "guest" ELSE step[s]
  BY <1>1, Advanced DEF GuestIInv
<1>4. \A s \in Requests : ~Logging(s)'
  BY <1>1, <1>3 DEF GuestIInv, LoggerSound, Logging
<1>5. left = Debounce - made[r] /\ entry >= 2 * Debounce - left
  BY <1>1 DEF GuestIInv, LoggerSound
<1>6. GuestTypeOK'
  <2>1. step' \in [Requests -> {"idle", "known", "logging"} \cup Actors]
    BY <1>1, AdvanceTyped DEF GuestIInv, Actors
  <2>2. entry' \in 0..Old
    BY <1>1, <1>2
  <2> QED BY <1>1, <2>1, <2>2 DEF GuestIInv, GuestTypeOK
<1>7. closest' \in Nat /\ LoggedOnce'
  <2>1. entry - made[r] >= Debounce
    BY <1>2, <1>5
  <2> QED BY <1>1, <1>2, <2>1 DEF GuestIInv, LoggedOnce
<1>8. entry' = Debounce - left'
  BY <1>1, <1>2, <1>5
<1>9. LoggerSound' /\ KeySound'
  <2>1. entry' >= Debounce - left' /\ entry' <= Debounce - left'
    BY <1>1, <1>2, <1>8
  <2> QED BY <1>4, <2>1 DEF LoggerSound, KeySound
<1>10. Accounted'
  BY <1>1, <1>2 DEF Accounted
<1> QED BY <1>6, <1>7, <1>9, <1>10 DEF GuestIInv

LEMMA PublishFailsInv ==
  ASSUME GuestAssumption, GuestIInv, NEW r \in Requests, PublishFails(r)
  PROVE  GuestIInv'
<1>1. /\ Logging(r) /\ Advance(r, "guest")
      /\ fault' = 0
      /\ UNCHANGED <<link, left, made, answer, access, entry, closest>>
  BY DEF PublishFails, Logging
<1>2. /\ Debounce \in Nat /\ Debounce > 0 /\ Old = 2 * Debounce
      /\ left \in Nat /\ left <= Debounce
      /\ access \in Nat /\ entry \in Nat /\ fault \in Nat
  BY Numbers DEF GuestIInv
<1>3. \A s \in Requests : step'[s] = IF s = r THEN "guest" ELSE step[s]
  BY <1>1, Advanced DEF GuestIInv
<1>4. \A s \in Requests : ~Logging(s)'
  BY <1>1, <1>3 DEF GuestIInv, LoggerSound, Logging
<1>5. entry >= 2 * Debounce - left
  BY <1>1 DEF GuestIInv, LoggerSound
<1>6. GuestTypeOK'
  <2>1. step' \in [Requests -> {"idle", "known", "logging"} \cup Actors]
    BY <1>1, AdvanceTyped DEF GuestIInv, Actors
  <2>2. fault' \in 0..Old
    BY <1>1, <1>2
  <2> QED BY <1>1, <2>1, <2>2 DEF GuestIInv, GuestTypeOK
<1>7. LoggerSound' /\ KeySound'
  <2>1. entry' >= Debounce - left' /\ fault' <= Debounce - left'
    BY <1>1, <1>2, <1>5
  <2> QED BY <1>4, <2>1 DEF LoggerSound, KeySound
<1>8. Accounted'
  BY <1>1, <1>2 DEF Accounted
<1> QED BY <1>1, <1>6, <1>7, <1>8 DEF GuestIInv, LoggedOnce

LEMMA DirectiveInv ==
  ASSUME GuestAssumption, GuestIInv, NEW r \in Requests, NEW resource, NEW allowed \in BOOLEAN,
         Directive(r, resource, allowed)
  PROVE  GuestIInv'
<1>1. /\ step[r] \in Actors /\ Advance(r, "idle")
      /\ UNCHANGED <<link, left, made, access, entry, fault, closest>>
  BY DEF Directive
<1>2. \A s \in Requests : step'[s] = IF s = r THEN "idle" ELSE step[s]
  BY <1>1, Advanced DEF GuestIInv
<1>3. \A s \in Requests : Logging(s)' <=> Logging(s)
  BY <1>1, <1>2 DEF Logging, Actors
<1>4. \A s \in Requests : step'[s] = "known" <=> step[s] = "known"
  BY <1>1, <1>2 DEF Actors
<1>5. GuestTypeOK'
  <2>1. step' \in [Requests -> {"idle", "known", "logging"} \cup Actors]
    BY <1>1, AdvanceTyped DEF GuestIInv
  <2>2. answer' \in [Requests -> {"none", "served", "refused", "throttled"}]
    <3>1. PICK a \in {"none", "served", "refused", "throttled"} : answer' = [answer EXCEPT ![r] = a]
      BY <1>1 DEF Directive, Actors
    <3> QED BY <3>1 DEF GuestIInv, GuestTypeOK
  <2> QED BY <1>1, <2>1, <2>2 DEF GuestIInv, GuestTypeOK
<1>6. LoggerSound' /\ KeySound'
  BY <1>1, <1>3 DEF GuestIInv, LoggerSound, KeySound
<1>7. Accounted'
  BY <1>1, <1>3, <1>4 DEF GuestIInv, Accounted, Logging
<1> QED BY <1>1, <1>5, <1>6, <1>7 DEF GuestIInv, LoggedOnce

LEMMA Ageing ==
  ASSUME GuestAssumption, NEW age \in 0..Old
  PROVE  /\ Older(age) \in 0..Old /\ Older(age) <= age + 1
         /\ Older(age) = age + 1 \/ Older(age) = Old
BY DEF Older, Old, GuestAssumption

LEMMA GuestTickInv ==
  ASSUME GuestAssumption, GuestIInv, GuestTick
  PROVE  GuestIInv'
<1>1. /\ left' = (IF left = 0 THEN 0 ELSE left - 1)
      /\ made' = [r \in Requests |-> IF step[r] = "logging" THEN made[r] + 1 ELSE 0]
      /\ access' = Older(access) /\ entry' = Older(entry) /\ fault' = Older(fault)
      /\ UNCHANGED <<link, step, answer, closest>>
  BY DEF GuestTick
<1>2. /\ Debounce \in Nat /\ Debounce > 0 /\ Old = 2 * Debounce
      /\ left \in Nat /\ left <= Debounce
      /\ access \in Nat /\ entry \in Nat /\ fault \in Nat
      /\ \A s \in Requests : made[s] \in Nat /\ made[s] < Debounce
  BY Numbers DEF GuestIInv
<1>3. /\ access' \in 0..Old /\ (access' = access + 1 \/ access' = Old)
      /\ entry' \in 0..Old /\ entry' <= entry + 1 /\ (entry' = entry + 1 \/ entry' = Old)
      /\ fault' \in 0..Old /\ fault' <= fault + 1
  BY <1>1, Ageing DEF GuestIInv, GuestTypeOK
<1>4. \A r \in Requests : Logging(r) => made'[r] = made[r] + 1 /\ made[r] + 1 < Debounce
  BY <1>1 DEF Logging, GuestTick
<1>5. GuestTypeOK'
  <2>1. made' \in [Requests -> 0..(Debounce - 1)]
    <3>1. \A r \in Requests : made'[r] \in 0..(Debounce - 1)
      BY <1>1, <1>2, <1>4 DEF Logging
    <3> QED BY <1>1, <3>1
  <2>2. left' \in 0..Debounce
    BY <1>1, <1>2
  <2> QED BY <1>1, <1>3, <2>1, <2>2 DEF GuestIInv, GuestTypeOK
<1>6. \A r \in Requests : Logging(r)' <=> Logging(r)
  BY <1>1 DEF Logging
<1>7. ASSUME NEW r \in Requests, Logging(r)
      PROVE  left' = Debounce - made'[r] /\ left' > 0 /\ entry' >= 2 * Debounce - left'
  <2>1. left = Debounce - made[r] /\ entry >= 2 * Debounce - left
    BY <1>7 DEF GuestIInv, LoggerSound
  <2>2. made'[r] = made[r] + 1 /\ made[r] + 1 < Debounce /\ made[r] \in Nat
    BY <1>2, <1>4, <1>7
  <2>3. left' = left - 1
    BY <1>1, <1>2, <2>1, <2>2
  <2> QED BY <1>2, <1>3, <2>1, <2>2, <2>3
<1>8. LoggerSound'
  BY <1>6, <1>7 DEF GuestIInv, LoggerSound
<1>9. KeySound'
  <2>1. ASSUME \A r \in Requests : ~Logging(r) PROVE entry' >= Debounce - left'
    <3>1. entry >= Debounce - left
      BY <2>1 DEF GuestIInv, KeySound
    <3> QED BY <1>1, <1>2, <1>3, <3>1
  <2>2. ASSUME left' > 0
        PROVE  \/ \E r \in Requests : Logging(r)
               \/ entry' <= Debounce - left' \/ fault' <= Debounce - left'
    <3>1. left' = left - 1 /\ left > 0
      BY <1>1, <1>2, <2>2
    <3>2. CASE entry <= Debounce - left
      BY <1>2, <1>3, <3>1, <3>2
    <3>3. CASE fault <= Debounce - left
      BY <1>2, <1>3, <3>1, <3>3
    <3> QED BY <3>1, <3>2, <3>3 DEF GuestIInv, KeySound
  <2> QED BY <1>6, <2>1, <2>2 DEF KeySound
<1>10. Accounted'
  <2>1. CASE \E r \in Requests : step[r] \in {"known", "logging"}
    BY <1>1, <2>1 DEF Accounted
  <2>2. CASE access' = Old
    BY <2>2 DEF Accounted
  <2>3. CASE access' = access + 1 /\ entry < access + Debounce
    BY <1>2, <1>3, <2>3 DEF Accounted
  <2>4. CASE access' = access + 1 /\ fault < access + Debounce
    BY <1>2, <1>3, <2>4 DEF Accounted
  <2>5. CASE access' = access + 1 /\ access = Old
    BY <1>2, <1>3, <2>5
  <2> QED BY <1>3, <2>1, <2>2, <2>3, <2>4, <2>5 DEF GuestIInv, Accounted
<1> QED BY <1>1, <1>5, <1>8, <1>9, <1>10 DEF GuestIInv, LoggedOnce

LEMMA GuestNextInv ==
  ASSUME GuestAssumption, GuestIInv, [GuestNext]_guestVars
  PROVE  GuestIInv'
<1>1. CASE UNCHANGED <<left, step, made, answer, access, entry, fault, closest>> /\ link' \in BOOLEAN
  BY <1>1 DEF GuestIInv, GuestTypeOK, LoggedOnce, Accounted, LoggerSound, KeySound, Logging
<1>2. CASE Share
  BY <1>1, <1>2 DEF Share, GuestIInv, GuestTypeOK
<1>3. CASE UNCHANGED guestVars
  BY <1>1, <1>3 DEF guestVars, GuestIInv, GuestTypeOK
<1>4. ASSUME NEW r \in Requests,
             \/ \E user, valid, reachable \in BOOLEAN : Arrive(r, user, valid, reachable)
             \/ SetSeen(r) \/ Publish(r) \/ PublishFails(r)
             \/ \E set \in BOOLEAN : SetSeenFails(r, set)
             \/ \E resource \in Resources, allowed \in BOOLEAN : Directive(r, resource, allowed)
      PROVE  GuestIInv'
  BY <1>4, ArriveInv, SetSeenInv, PublishInv, PublishFailsInv, SetSeenFailsInv, DirectiveInv
<1> QED BY <1>2, <1>3, <1>4, GuestTickInv DEF GuestNext

THEOREM GuestInvariant == ASSUME GuestAssumption PROVE GuestSpec => []GuestIInv
<1>1. GuestInit => GuestIInv
  BY GuestInitInv
<1>2. GuestIInv /\ [GuestNext]_guestVars => GuestIInv'
  BY GuestNextInv
<1> QED BY <1>1, <1>2, PTL DEF GuestSpec

-----------------------------------------------------------------------------
(* On whose behalf (Identity).                                             *)

\* The actors a service may meet.
Known(a) ==
  \/ \E u \in Callers : a = User(u)
  \/ \E who \in Callers \cup {Nobody}, c \in Employers \cup {Nobody} : a = System(who, c)
  \/ \E c \in Employers : a = Guest(c)
  \/ a = NoActor
  \/ a = NilActor

\* Whoever works is who began, as the system behind an event, or nobody once the context
\* was cleared.
ActorOwed ==
  /\ Known(actor) /\ Known(root) /\ root.kind # "nil"
  /\ cleared => actor = IF hops = 0 THEN NilActor ELSE System(Nobody, Nobody)
  /\ ~cleared => actor = root \/ actor = System(root.id, root.company)
  /\ actor.kind = "system" => root.kind = "system" \/ queued
  /\ actor.kind = "user" => ~queued
  /\ actor.kind = "guest" => hops = 0
  /\ outcome = "no work yet" =>
     /\ root = NoActor /\ ~cleared /\ hops = 0 /\ ~queued
     /\ address = "" /\ proxies = <<0, 0>>

IdentityIInv ==
  /\ IdentityTypeOK /\ ActorOwed /\ RefusalsOwed /\ AddressTrue

LEMMA EmployersKnown ==
  ASSUME IdentityAssumption, NEW u \in Callers
  PROVE  EmployerOf[u] \in Employers \cup {Nobody}
BY DEF IdentityAssumption

LEMMA KnownTyped ==
  ASSUME IdentityAssumption, NEW a, Known(a)
  PROVE  /\ ActorTypeOK(a) /\ a = Actor(a.kind, a.id, a.company)
         /\ a.kind = "user" => a.id \in Callers /\ a = User(a.id)
         /\ a.kind = "system" => a = System(a.id, a.company)
         /\ a.kind = "none" => a = NoActor
         /\ a.kind = "nil" => a = NilActor
<1>1. CASE \E u \in Callers : a = User(u)
  <2>1. PICK u \in Callers : a = User(u)
    BY <1>1
  <2> QED BY <2>1, EmployersKnown DEF User, UserClaims, Actor, ActorTypeOK
<1>2. CASE \E who \in Callers \cup {Nobody}, c \in Employers \cup {Nobody} : a = System(who, c)
  BY <1>2 DEF System, Actor, ActorTypeOK
<1>3. CASE \E c \in Employers : a = Guest(c)
  BY <1>3 DEF Guest, Actor, ActorTypeOK
<1>4. CASE a = NoActor \/ a = NilActor
  BY <1>4 DEF NoActor, NilActor, Actor, ActorTypeOK
<1> QED BY <1>1, <1>2, <1>3, <1>4 DEF Known

LEMMA SystemKnown ==
  ASSUME NEW who \in Callers \cup {Nobody}, NEW c \in Employers \cup {Nobody}
  PROVE  /\ Known(System(who, c)) /\ System(who, c).kind = "system"
         /\ System(who, c).id = who /\ System(who, c).company = c
BY DEF Known, System, Actor

LEMMA Kinds ==
  /\ NoActor.kind = "none" /\ NilActor.kind = "nil"
  /\ NoActor.id = Nobody /\ NilActor.id = Nobody
  /\ NoActor.company = Nobody /\ NilActor.company = Nobody
  /\ Known(NoActor) /\ Known(NilActor)
BY DEF NoActor, NilActor, Actor, Known

LEMMA IdentityInitInv == IdentityAssumption /\ IdentityInit => IdentityIInv
<1> SUFFICES ASSUME IdentityAssumption, IdentityInit PROVE IdentityIInv
  OBVIOUS
<1>1. IdentityTypeOK
  <2>1. ActorTypeOK(actor) /\ ActorTypeOK(root)
    BY KnownTyped, Kinds DEF IdentityInit
  <2>2. hops \in 0..MaxHops /\ proxies \in (0..MaxProxies) \X (0..MaxProxies)
    <3>1. MaxProxies \in Nat /\ MaxHops \in Nat
      BY DEF IdentityAssumption
    <3>2. hops = 0 /\ proxies = <<0, 0>>
      BY DEF IdentityInit
    <3>3. 0 \in 0..MaxHops /\ 0 \in 0..MaxProxies
      BY <3>1
    <3> QED BY <3>2, <3>3
  <2> QED BY <2>1, <2>2 DEF IdentityTypeOK, IdentityInit
<1>2. ActorOwed
  BY Kinds DEF ActorOwed, IdentityInit
<1>3. RefusalsOwed /\ AddressTrue
  BY DEF RefusalsOwed, AddressTrue, IdentityInit
<1> QED BY <1>1, <1>2, <1>3 DEF IdentityIInv

-----------------------------------------------------------------------------
(* The address that is found.                                              *)

LEMMA Passed ==
  ASSUME NEW n \in Nat, NEW typed \in {<<>>, <<"typed">>, <<"junk">>}
  PROVE  /\ Forwarded(typed, n) \in Seq({"typed", "junk", "client", "proxy"})
         /\ Len(Forwarded(typed, n)) = Len(typed) + n /\ Len(typed) \in {0, 1}
         /\ \A i \in 1..(Len(typed) + n) :
              Forwarded(typed, n)[i] = IF i <= Len(typed) THEN typed[i]
                                       ELSE IF i - Len(typed) = 1 THEN "client" ELSE "proxy"
<1> DEFINE S == {"typed", "junk", "client", "proxy"}
           f == [i \in 1..n |-> IF i = 1 THEN "client" ELSE "proxy"]
<1>1. f \in Seq(S) /\ Len(f) = n
  OBVIOUS
<1>2. typed \in Seq(S) /\ Len(typed) \in {0, 1}
  <2>1. CASE typed = <<>>
    BY <2>1
  <2>2. CASE typed = <<"typed">>
    BY <2>2
  <2>3. CASE typed = <<"junk">>
    BY <2>3
  <2> QED BY <2>1, <2>2, <2>3
<1>3. \A i \in 1..n : f[i] = IF i = 1 THEN "client" ELSE "proxy"
  OBVIOUS
<1>4. Forwarded(typed, n) = typed \o f
  BY DEF Forwarded
<1> HIDE DEF f
<1>5. /\ typed \o f \in Seq(S)
      /\ Len(typed \o f) = Len(typed) + n
      /\ \A i \in 1..(Len(typed) + n) : (typed \o f)[i] =
           IF i <= Len(typed) THEN typed[i] ELSE f[i - Len(typed)]
  BY <1>1, <1>2, ConcatProperties
<1>6. ASSUME NEW i \in 1..(Len(typed) + n), ~(i <= Len(typed))
      PROVE  f[i - Len(typed)] = IF i - Len(typed) = 1 THEN "client" ELSE "proxy"
  <2>1. i - Len(typed) \in 1..n
    BY <1>2, <1>6
  <2> QED BY <1>3, <2>1
<1> QED BY <1>2, <1>4, <1>5, <1>6

LEMMA AddressFound ==
  ASSUME NEW n \in Nat, NEW configured \in Nat, NEW typed \in {<<>>, <<"typed">>, <<"junk">>},
         NEW found, found = ResolveClientIP(Forwarded(typed, n), Peer(n), configured)
  PROVE  /\ found \in {"", "typed", "client", "proxy"}
         /\ found = "typed" => configured > n
         /\ found = "proxy" => configured < n
         /\ n = configured /\ found # "" => found = "client"
<1> DEFINE chain == Forwarded(typed, n)
           position == IF Len(chain) < configured THEN 1 ELSE Len(chain) - configured + 1
<1>1. /\ chain \in Seq({"typed", "junk", "client", "proxy"})
      /\ Len(chain) = Len(typed) + n /\ Len(typed) \in {0, 1}
      /\ \A i \in 1..(Len(typed) + n) :
           chain[i] = IF i <= Len(typed) THEN typed[i]
                      ELSE IF i - Len(typed) = 1 THEN "client" ELSE "proxy"
  BY Passed
<1>2. CASE configured = 0
  BY <1>2 DEF ResolveClientIP, Peer
<1>3. CASE configured # 0 /\ chain = <<>>
  BY <1>3 DEF ResolveClientIP
<1>4. CASE configured # 0 /\ chain # <<>>
  <2>1. Len(chain) > 0
    BY <1>1, <1>4, EmptySeq, LenProperties
  <2>2. found = normalizeIP(chain[position])
    BY <1>4 DEF ResolveClientIP
  <2>3. position = IF Len(chain) < configured THEN 1 ELSE Len(chain) - configured + 1
    OBVIOUS
  <2> HIDE DEF chain, position
  <2>4. position \in 1..(Len(typed) + n)
    BY <1>1, <1>4, <2>1, <2>3
  <2>5. CASE position <= Len(typed)
    <3>1. position = 1 /\ Len(typed) = 1 /\ configured > n
      BY <1>1, <1>4, <2>3, <2>4, <2>5
    <3>2. chain[position] = typed[1]
      BY <1>1, <2>4, <2>5, <3>1
    <3>3. typed[1] \in {"typed", "junk"}
      <4>1. typed # <<>>
        BY <3>1
      <4> QED BY <4>1
    <3>4. found \in {"typed", ""}
      BY <2>2, <3>2, <3>3 DEF normalizeIP
    <3>5. n # configured /\ ~(configured < n)
      BY <3>1
    <3> QED BY <3>1, <3>4, <3>5
  <2>6. CASE ~(position <= Len(typed))
    <3>1. chain[position] = IF position - Len(typed) = 1 THEN "client" ELSE "proxy"
      BY <1>1, <2>4, <2>6
    <3>2. found = IF position - Len(typed) = 1 THEN "client" ELSE "proxy"
      BY <2>2, <3>1 DEF normalizeIP
    <3>3. position - Len(typed) # 1 => configured < n /\ n # configured
      BY <1>1, <1>4, <2>1, <2>3, <2>4, <2>6
    <3>4. CASE position - Len(typed) = 1
      BY <3>2, <3>4
    <3>5. CASE position - Len(typed) # 1
      BY <3>2, <3>3, <3>5
    <3> QED BY <3>4, <3>5
  <2> QED BY <2>5, <2>6
<1> QED BY <1>2, <1>3, <1>4

-----------------------------------------------------------------------------
(* The steps.                                                              *)

LEMMA SameActors ==
  ASSUME IdentityIInv, UNCHANGED <<actor, root>>
  PROVE  /\ Known(actor)' /\ Known(root)'
         /\ ActorTypeOK(actor)' /\ ActorTypeOK(root)'
<1>1. Known(actor)' /\ Known(root)'
  BY DEF Known, IdentityIInv, ActorOwed
<1>2. ActorTypeOK(actor)' /\ ActorTypeOK(root)'
  BY DEF IdentityIInv, IdentityTypeOK, ActorTypeOK
<1> QED BY <1>1, <1>2

LEMMA Began ==
  ASSUME IdentityAssumption, IdentityIInv, NEW a, Known(a), a.kind # "nil", Start(a),
         ~(a.kind = "user" /\ queued), address' \in {"", "typed", "client", "proxy"},
         proxies' \in (0..MaxProxies) \X (0..MaxProxies),
         AddressTrue'
  PROVE  IdentityIInv'
<1>1. /\ outcome = "no work yet" /\ root = NoActor /\ ~cleared /\ hops = 0
      /\ outcome' = "working" /\ actor' = a /\ root' = a
      /\ UNCHANGED <<secret, settings, site, expired, hops, queued, cleared>>
  BY DEF Start, IdentityIInv, ActorOwed
<1>2. ActorTypeOK(actor)' /\ ActorTypeOK(root)'
  <2>1. ActorTypeOK(a)
    BY KnownTyped
  <2> QED BY <1>1, <2>1 DEF ActorTypeOK
<1>3. IdentityTypeOK'
  BY <1>1, <1>2 DEF IdentityIInv, IdentityTypeOK
<1>4. ActorOwed'
  <2>1. Known(actor)' /\ Known(root)'
    BY <1>1 DEF Known
  <2> QED BY <1>1, <2>1 DEF ActorOwed
<1>5. RefusalsOwed'
  BY <1>1 DEF RefusalsOwed
<1> QED BY <1>3, <1>4, <1>5 DEF IdentityIInv

\* Nobody works before the work has begun.
LEMMA Unqueued ==
  ASSUME IdentityIInv, NEW a, Start(a)
  PROVE  hops = 0 /\ address = "" /\ proxies = <<0, 0>> /\ ~queued
BY DEF Start, IdentityIInv, ActorOwed

LEMMA RequestInv ==
  ASSUME IdentityAssumption, IdentityIInv, NEW a, Known(a), a.kind # "nil", Request(a)
  PROVE  IdentityIInv'
<1>1. PICK typed \in {<<>>, <<"typed">>, <<"junk">>}, n \in 0..MaxProxies,
           configured \in 0..MaxProxies :
        /\ address' = ResolveClientIP(Forwarded(typed, n), Peer(n), configured)
        /\ proxies' = <<n, configured>>
        /\ Start(a)
  BY DEF Request
<1>2. n \in Nat /\ configured \in Nat
  <2>1. MaxProxies \in Nat
    BY DEF IdentityAssumption
  <2> QED BY <2>1
<1>3. /\ address' \in {"", "typed", "client", "proxy"}
      /\ address' = "typed" => configured > n
      /\ address' = "proxy" => configured < n
      /\ n = configured /\ address' # "" => address' = "client"
  BY <1>1, <1>2, AddressFound
<1>4. ~queued /\ hops = 0 /\ hops' = 0
  <2>1. hops' = hops
    BY <1>1 DEF Start
  <2> QED BY <1>1, <2>1, Unqueued
<1>5. proxies'[1] = n /\ proxies'[2] = configured
  BY <1>1
<1>6. AddressTrue'
  <2>1. ~(hops' > 0)
    BY <1>4
  <2> QED BY <1>3, <1>5, <2>1 DEF AddressTrue
<1>7. proxies' \in (0..MaxProxies) \X (0..MaxProxies)
  BY <1>1
<1> QED BY <1>1, <1>3, <1>4, <1>6, <1>7, Began

LEMMA JobInv ==
  ASSUME IdentityAssumption, IdentityIInv, NEW a, Known(a), a.kind # "nil", Job(a)
  PROVE  IdentityIInv'
<1>1. Start(a) /\ UNCHANGED <<address, proxies>>
  BY DEF Job
<1>2. ~queued /\ hops = 0 /\ hops' = hops
  <2>1. hops' = hops
    BY <1>1 DEF Start
  <2> QED BY <1>1, <2>1, Unqueued
<1>3. AddressTrue'
  BY <1>1, <1>2 DEF IdentityIInv, AddressTrue
<1>4. address' \in {"", "typed", "client", "proxy"} /\ proxies' \in (0..MaxProxies) \X (0..MaxProxies)
  BY <1>1 DEF IdentityIInv, IdentityTypeOK
<1> QED BY <1>1, <1>2, <1>3, <1>4, Began

LEMMA ClearInv ==
  ASSUME IdentityAssumption, IdentityIInv, ClearAuthContext
  PROVE  IdentityIInv'
<1>1. /\ outcome = "working" /\ hops = 0 /\ ~cleared /\ actor' = NilActor /\ cleared' = TRUE
      /\ UNCHANGED <<secret, settings, site, address, expired, outcome, root, hops, queued, proxies>>
  BY DEF ClearAuthContext
<1>2. Known(actor)' /\ Known(root)'
  BY <1>1, Kinds DEF Known, IdentityIInv, ActorOwed
<1>3. ActorTypeOK(actor)' /\ ActorTypeOK(root)'
  <2>1. ActorTypeOK(NilActor)
    BY Kinds, KnownTyped
  <2> QED BY <1>1, <2>1 DEF ActorTypeOK, IdentityIInv, IdentityTypeOK
<1>4. IdentityTypeOK'
  BY <1>1, <1>3 DEF IdentityIInv, IdentityTypeOK
<1>5. ActorOwed'
  BY <1>1, <1>2, Kinds DEF IdentityIInv, ActorOwed
<1>6. RefusalsOwed' /\ AddressTrue'
  BY <1>1 DEF IdentityIInv, RefusalsOwed, AddressTrue
<1> QED BY <1>4, <1>5, <1>6 DEF IdentityIInv

\* Whoever works goes on as the system of the one who began, or of nobody.
LEMMA Followed ==
  ASSUME IdentityAssumption, IdentityIInv, outcome = "working"
  PROVE  /\ actor.id \in Callers \cup {Nobody} /\ actor.company \in Employers \cup {Nobody}
         /\ cleared => System(actor.id, actor.company) = System(Nobody, Nobody)
         /\ ~cleared => System(actor.id, actor.company) = System(root.id, root.company)
<1>1. actor.id \in Callers \cup {Nobody} /\ actor.company \in Employers \cup {Nobody}
  BY DEF IdentityIInv, IdentityTypeOK, ActorTypeOK
<1>2. CASE cleared
  BY <1>1, <1>2, Kinds, SystemKnown DEF IdentityIInv, ActorOwed
<1>3. CASE ~cleared
  <2>1. root.id \in Callers \cup {Nobody} /\ root.company \in Employers \cup {Nobody}
    BY DEF IdentityIInv, IdentityTypeOK, ActorTypeOK
  <2>2. actor = root \/ actor = System(root.id, root.company)
    BY <1>3 DEF IdentityIInv, ActorOwed
  <2> QED BY <1>1, <1>3, <2>1, <2>2, SystemKnown
<1> QED BY <1>1, <1>2, <1>3

\* A hop that succeeds: the call of a user or of the system, or an event.
Hop(goal) ==
  /\ outcome = "working" /\ hops < MaxHops
  /\ site' = goal /\ hops' = hops + 1
  /\ \/ actor' = System(actor.id, actor.company)
     \/ actor' = actor /\ actor.kind \in {"user", "system"}
  /\ actor'.kind = "system" => actor.kind = "system" \/ queued'
  /\ actor'.kind = "user" => ~queued'
  /\ queued' \in BOOLEAN /\ (queued => queued')
  /\ address' = "" /\ proxies' = <<0, 0>>
  /\ UNCHANGED <<secret, settings, expired, root, cleared, outcome>>

LEMMA HopCounted ==
  ASSUME IdentityAssumption, IdentityIInv, NEW goal, Hop(goal)
  PROVE  /\ hops' \in 0..MaxHops /\ hops' # 0
         /\ proxies' \in (0..MaxProxies) \X (0..MaxProxies)
<1>1. MaxHops \in Nat /\ MaxProxies \in Nat
  BY DEF IdentityAssumption
<1>2. hops \in 0..MaxHops
  BY DEF IdentityIInv, IdentityTypeOK
<1>3. hops < MaxHops /\ hops' = hops + 1 /\ proxies' = <<0, 0>>
  BY DEF Hop
<1>4. hops' \in 0..MaxHops /\ hops' # 0
  BY <1>1, <1>2, <1>3
<1>5. 0 \in 0..MaxProxies
  BY <1>1
<1>6. proxies' \in (0..MaxProxies) \X (0..MaxProxies)
  BY <1>3, <1>5
<1> QED BY <1>4, <1>6

LEMMA HopOwed ==
  ASSUME IdentityAssumption, IdentityIInv, NEW goal, Hop(goal)
  PROVE  ActorOwed' /\ ActorTypeOK(actor)' /\ ActorTypeOK(root)'
<1> DEFINE behind == System(actor.id, actor.company)
<1>1. /\ Known(actor) /\ Known(root) /\ root.kind # "nil" /\ ActorTypeOK(root)
      /\ cleared => actor = IF hops = 0 THEN NilActor ELSE System(Nobody, Nobody)
      /\ ~cleared => actor = root \/ actor = System(root.id, root.company)
      /\ actor.kind = "system" => root.kind = "system" \/ queued
  BY DEF IdentityIInv, ActorOwed, IdentityTypeOK
<1>2. /\ outcome = "working" /\ outcome' = "working" /\ root' = root /\ cleared' = cleared
      /\ actor' = behind \/ (actor' = actor /\ actor.kind \in {"user", "system"})
      /\ actor'.kind = "system" => actor.kind = "system" \/ queued'
      /\ actor'.kind = "user" => ~queued'
      /\ queued => queued'
  BY DEF Hop
<1>3. /\ Known(behind) /\ behind.kind = "system"
      /\ cleared => behind = System(Nobody, Nobody)
      /\ ~cleared => behind = System(root.id, root.company)
  BY <1>2, Followed, SystemKnown
<1> HIDE DEF behind
<1>4. Known(actor') /\ ActorTypeOK(actor') /\ actor'.kind \in {"user", "system"}
  <2>1. Known(actor') /\ actor'.kind \in {"user", "system"}
    BY <1>1, <1>2, <1>3
  <2> QED BY <2>1, KnownTyped
<1>5. cleared => actor' = System(Nobody, Nobody)
  <2>1. cleared /\ actor.kind \in {"user", "system"} => actor = System(Nobody, Nobody)
    BY <1>1, Kinds
  <2> QED BY <1>2, <1>3, <2>1
<1>6. ~cleared => actor' = root \/ actor' = System(root.id, root.company)
  BY <1>1, <1>2, <1>3
<1>7. Known(actor)' /\ Known(root)' /\ ActorTypeOK(actor)' /\ ActorTypeOK(root)'
  BY <1>1, <1>2, <1>4 DEF Known, ActorTypeOK
<1>8. hops' # 0
  BY HopCounted
<1>9. ActorOwed'
  BY <1>1, <1>2, <1>4, <1>5, <1>6, <1>7, <1>8 DEF ActorOwed
<1> QED BY <1>7, <1>9

LEMMA Further ==
  ASSUME IdentityAssumption, IdentityIInv, NEW goal \in Services, Hop(goal)
  PROVE  IdentityIInv'
<1>1. IdentityTypeOK'
  BY HopCounted, HopOwed DEF Hop, IdentityIInv, IdentityTypeOK
<1>2. RefusalsOwed' /\ AddressTrue'
  BY DEF Hop, RefusalsOwed, AddressTrue
<1> QED BY <1>1, <1>2, HopOwed DEF IdentityIInv

LEMMA CallInv ==
  ASSUME IdentityAssumption, IdentityIInv, NEW goal \in Services, Call(goal)
  PROVE  IdentityIInv'
<1> DEFINE md == Metadata(actor)
<1>1. /\ outcome = "working" /\ hops < MaxHops
      /\ UNCHANGED <<secret, settings, expired, root, queued, cleared>>
  BY DEF Call
<1>2. md.of = actor /\ (md.with = "authorization" <=> actor.kind = "user")
      /\ (md.with = "x-internal-token" <=> actor.kind = "system" /\ secret[site] # "")
  BY DEF Metadata
<1>3. CASE Accepts(goal, md)
  <2>1. /\ actor' = Accepted(md) /\ site' = goal /\ hops' = hops + 1
        /\ address' = "" /\ proxies' = <<0, 0>> /\ UNCHANGED outcome
    BY <1>3 DEF Call
  <2>2. actor.kind \in {"user", "system"}
    BY <1>2, <1>3 DEF Accepts
  <2>3. \/ actor' = actor
        \/ actor' = System(actor.id, actor.company) /\ actor.kind = "system"
    BY <1>2, <2>1, <2>2 DEF Accepted
  <2>4. actor'.kind = actor.kind
    BY <2>2, <2>3, Followed, SystemKnown, <1>1
  <2>5. queued \in BOOLEAN /\ (actor.kind = "user" => ~queued)
    BY DEF IdentityIInv, ActorOwed, IdentityTypeOK
  <2>6. Hop(goal)
    BY <1>1, <2>1, <2>2, <2>3, <2>4, <2>5 DEF Hop
  <2> QED BY <2>6, Further
<1>4. CASE ~Accepts(goal, md)
  <2>1. outcome' = "Unauthenticated" /\ UNCHANGED <<actor, site, hops, address, proxies>>
    BY <1>4 DEF Call
  <2>2. IdentityTypeOK'
    BY <1>1, <2>1, SameActors DEF IdentityIInv, IdentityTypeOK
  <2>3. ActorOwed'
    <3>1. Known(actor)' /\ Known(root)'
      BY <1>1, <2>1, SameActors
    <3> QED BY <1>1, <2>1, <3>1 DEF IdentityIInv, ActorOwed
  <2>4. RefusalsOwed'
    <3>1. \/ actor.kind \in {"guest", "none", "nil"}
          \/ actor.kind = "user" /\ expired
          \/ actor.kind = "system" /\ (secret[site] = "" \/ secret[goal] # secret[site])
      <4>1. actor.kind \in {"user", "system", "guest", "none", "nil"}
        BY DEF IdentityIInv, IdentityTypeOK, ActorTypeOK
      <4>2. actor.kind = "user" => expired
        BY <1>2, <1>4 DEF Accepts
      <4>3. actor.kind = "system" => secret[site] = "" \/ secret[goal] # secret[site]
        BY <1>2, <1>4 DEF Accepts
      <4> QED BY <4>1, <4>2, <4>3
    <3> QED BY <1>1, <2>1, <3>1 DEF RefusalsOwed
  <2>5. AddressTrue'
    BY <2>1 DEF IdentityIInv, AddressTrue
  <2> QED BY <2>2, <2>3, <2>4, <2>5 DEF IdentityIInv
<1> QED BY <1>3, <1>4

LEMMA HandleInv ==
  ASSUME IdentityAssumption, IdentityIInv, NEW goal \in Services, Handle(goal)
  PROVE  IdentityIInv'
<1>1. /\ outcome = "working" /\ hops < MaxHops
      /\ actor' = System(actor.id, actor.company)
      /\ site' = goal /\ hops' = hops + 1 /\ queued' = TRUE
      /\ address' = "" /\ proxies' = <<0, 0>>
      /\ UNCHANGED <<secret, settings, expired, outcome, root, cleared>>
  BY DEF Handle, actorIdentity, GetCompanyID
<1>2. actor'.kind = "system"
  BY <1>1, Followed, SystemKnown
<1>3. queued \in BOOLEAN
  BY DEF IdentityIInv, IdentityTypeOK
<1>4. Hop(goal)
  BY <1>1, <1>2, <1>3 DEF Hop
<1> QED BY <1>4, Further

LEMMA ExpireInv ==
  ASSUME IdentityAssumption, IdentityIInv, Expire
  PROVE  IdentityIInv'
<1>1. /\ outcome = "working" /\ expired' = TRUE
      /\ UNCHANGED <<secret, settings, site, actor, address, outcome, root, hops, queued, cleared,
           proxies>>
  BY DEF Expire
<1>2. IdentityTypeOK'
  BY <1>1, SameActors DEF IdentityIInv, IdentityTypeOK
<1>3. ActorOwed'
  <2>1. Known(actor)' /\ Known(root)'
    BY <1>1, SameActors
  <2> QED BY <1>1, <2>1 DEF IdentityIInv, ActorOwed
<1>4. RefusalsOwed' /\ AddressTrue'
  BY <1>1 DEF IdentityIInv, RefusalsOwed, AddressTrue
<1> QED BY <1>2, <1>3, <1>4 DEF IdentityIInv

LEMMA IdentityNextInv ==
  ASSUME IdentityAssumption, IdentityIInv, [IdentityNext]_identityVars
  PROVE  IdentityIInv'
<1>1. \A u \in Callers : Known(User(u)) /\ User(u).kind = "user"
  BY DEF Known, User, Actor
<1>2. \A c \in Employers : Known(Guest(c)) /\ Guest(c).kind = "guest"
  BY DEF Known, Guest, Actor
<1>3. CASE \E u \in Callers : Request(User(u))
  BY <1>1, <1>3, RequestInv
<1>4. CASE \E c \in Employers : Request(Guest(c)) \/ Job(System(Nobody, c))
  BY <1>2, <1>4, RequestInv, JobInv, SystemKnown
<1>5. CASE Request(NoActor) \/ Job(NoActor) \/ Job(System(Nobody, Nobody))
  BY <1>5, RequestInv, JobInv, Kinds, SystemKnown
<1>6. CASE ClearAuthContext \/ Expire
  BY <1>6, ClearInv, ExpireInv
<1>7. CASE \E goal \in Services : Call(goal) \/ Handle(goal)
  BY <1>7, CallInv, HandleInv
<1>8. CASE UNCHANGED identityVars
  <2>1. UNCHANGED <<actor, root>>
    BY <1>8 DEF identityVars
  <2>2. IdentityTypeOK'
    BY <1>8, <2>1, SameActors DEF identityVars, IdentityIInv, IdentityTypeOK
  <2>3. ActorOwed'
    BY <1>8, <2>1, SameActors DEF identityVars, IdentityIInv, ActorOwed
  <2>4. RefusalsOwed' /\ AddressTrue'
    BY <1>8 DEF identityVars, IdentityIInv, RefusalsOwed, AddressTrue
  <2> QED BY <2>2, <2>3, <2>4 DEF IdentityIInv
<1> QED BY <1>3, <1>4, <1>5, <1>6, <1>7, <1>8 DEF IdentityNext

-----------------------------------------------------------------------------
(* What follows of the actors and the gates.                               *)

LEMMA Gates ==
  ASSUME NEW a, ActorTypeOK(a)
  PROVE  /\ RequireSuperAdmin(a) = "next" <=> a.kind = "user" /\ a.id \in Supers
         /\ RequireAdmin(a) = "next" <=> a.kind = "user" /\ a.id \in Supers \cup Admins
         /\ RequireAuth(a) = "next" <=> a.kind \in {"user", "system"}
         /\ RequireAuth(a) = "panic" <=> a.kind = "nil"
<1>1. a.kind \in {"user", "system", "guest", "none", "nil"}
  BY DEF ActorTypeOK
<1>2. IsSuperAdmin(a) <=> a.kind = "user" /\ a.id \in Supers
  BY DEF IsSuperAdmin, Roles, UserClaims
<1>3. IsAdmin(a) <=> a.kind = "user" /\ a.id \in Admins
  BY DEF IsAdmin, Roles, UserClaims
<1>4. GetActor(a) = "error" <=> a.kind = "none"
  BY DEF GetActor
<1>5. RequireSuperAdmin(a) = "next" <=> a.kind = "user" /\ a.id \in Supers
  BY <1>1, <1>2, <1>4 DEF RequireSuperAdmin
<1>6. RequireAdmin(a) = "next" <=> a.kind = "user" /\ a.id \in Supers \cup Admins
  BY <1>1, <1>2, <1>3, <1>4 DEF RequireAdmin
<1>7. /\ RequireAuth(a) = "next" <=> a.kind \in {"user", "system"}
      /\ RequireAuth(a) = "panic" <=> a.kind = "nil"
  BY <1>1, <1>4 DEF RequireAuth
<1> QED BY <1>5, <1>6, <1>7

LEMMA OwedKept ==
  ASSUME IdentityAssumption, IdentityIInv
  PROVE  IdentityKept /\ RightsNeverGrow /\ PanicsOwed
<1>1. ActorOwed /\ ActorTypeOK(actor) /\ ActorTypeOK(root)
  BY DEF IdentityIInv, IdentityTypeOK
<1>2. /\ System(root.id, root.company).kind = "system"
      /\ System(root.id, root.company).id = root.id
      /\ System(root.id, root.company).company = root.company
      /\ System(Nobody, Nobody).kind = "system"
      /\ System(Nobody, Nobody).id = Nobody
      /\ System(Nobody, Nobody).company = Nobody
  BY DEF System, Actor
<1>3. IdentityKept
  BY <1>1, <1>2, Kinds DEF IdentityKept, ActorOwed
<1>4. actor.kind = "user" => actor = root /\ ~queued
  BY <1>1, <1>2, Kinds DEF ActorOwed
<1>5. actor.kind = "nil" => cleared /\ hops = 0
  BY <1>1, <1>2, Kinds DEF ActorOwed
<1>6. RightsNeverGrow
  <2>1. /\ RequireSuperAdmin(actor) = "next" <=> actor.kind = "user" /\ actor.id \in Supers
        /\ RequireAdmin(actor) = "next" <=> actor.kind = "user" /\ actor.id \in Supers \cup Admins
        /\ RequireAuth(actor) = "next" <=> actor.kind \in {"user", "system"}
    BY <1>1, Gates
  <2>2. /\ actor.kind = "system" => root.kind = "system" \/ queued
        /\ actor.kind = "guest" => hops = 0
    BY <1>1 DEF ActorOwed
  <2> QED BY <1>4, <2>1, <2>2 DEF RightsNeverGrow
<1>7. PanicsOwed
  <2>1. RequireAuth(actor) = "panic" <=> actor.kind = "nil"
    BY <1>1, Gates
  <2>2. MustGetActor(actor).kind = "nil" => actor.kind = "nil"
    BY <1>2 DEF MustGetActor
  <2> QED BY <1>5, <2>1, <2>2 DEF PanicsOwed
<1> QED BY <1>3, <1>6, <1>7

-----------------------------------------------------------------------------
(* Keys of the cache.                                                      *)

LEMMA TwoJoined == ASSUME NEW c, NEW d PROVE <<c>> \o <<d>> = <<c, d>>
<1> DEFINE S == {c, d}  s == <<c>> \o <<d>>
<1>1. <<c>> \in Seq(S) /\ <<d>> \in Seq(S) /\ Len(<<c>>) = 1 /\ Len(<<d>>) = 1
  OBVIOUS
<1>2. s \in Seq(S) /\ Len(s) = 2 /\ s[1] = c /\ s[2] = d
  BY <1>1, ConcatProperties
<1>3. s \in [1..2 -> S]
  BY <1>2, LenProperties
<1>4. <<c, d>> \in [1..2 -> S] /\ <<c, d>>[1] = c /\ <<c, d>>[2] = d
  OBVIOUS
<1> HIDE DEF s
<1>5. s = <<c, d>>
  <2>1. \A i \in 1..2 : s[i] = <<c, d>>[i]
    BY <1>2, <1>4
  <2> QED BY <1>3, <1>4, <2>1
<1> QED BY <1>5 DEF s

LEMMA ThreeJoined == ASSUME NEW c, NEW d PROVE <<c>> \o <<c, d>> = <<c, c, d>>
<1> DEFINE S == {c, d}  s == <<c>> \o <<c, d>>
<1>1. <<c>> \in Seq(S) /\ <<c, d>> \in Seq(S) /\ Len(<<c>>) = 1 /\ Len(<<c, d>>) = 2
  OBVIOUS
<1>2. s \in Seq(S) /\ Len(s) = 3 /\ s[1] = c /\ s[2] = c /\ s[3] = d
  BY <1>1, ConcatProperties
<1>3. s \in [1..3 -> S]
  BY <1>2, LenProperties
<1>4. <<c, c, d>> \in [1..3 -> S] /\ <<c, c, d>>[1] = c /\ <<c, c, d>>[2] = c /\ <<c, c, d>>[3] = d
  OBVIOUS
<1> HIDE DEF s
<1>5. s = <<c, c, d>>
  <2>1. \A i \in 1..3 : s[i] = <<c, c, d>>[i]
    BY <1>2, <1>4
  <2> QED BY <1>3, <1>4, <2>1
<1> QED BY <1>5 DEF s

LEMMA KeyOf ==
  ASSUME NEW c, NEW k
  PROVE  ScopedKey(c, <<k>>) = IF c = Nobody THEN <<k>> ELSE <<c, k>>
BY TwoJoined DEF ScopedKey

LEMMA SettingRead ==
  ASSUME IdentityAssumption, settings \in [Employers -> {"unset", "on", "off"}],
         NEW a, a.company \in Employers \cup {Nobody}
  PROVE  SettingOf(a) = IF a.company = Nobody THEN "unset" ELSE settings[a.company]
<1> DEFINE c == a.company
           held == {d \in Employers : settings[d] # "unset"}
           keys == {ScopedKey(d, Setting) : d \in held}
<1>1. \A d \in Employers : ScopedKey(d, Setting) = <<d, "setting">>
  BY KeyOf DEF Setting, IdentityAssumption
<1>2. buildKey(a, Setting) = IF c = Nobody THEN <<"setting">> ELSE <<c, "setting">>
  BY KeyOf DEF buildKey, GetCompanyID, Setting
<1>3. keys = {<<d, "setting">> : d \in held}
  BY <1>1
<1>4. Stored = [k \in keys |-> settings[k[1]]]
  BY DEF Stored
<1>5. DOMAIN Stored = keys
  BY <1>4
<1>6. CASE c = Nobody
  <2>1. buildKey(a, Setting) \notin keys
    BY <1>2, <1>3, <1>6
  <2>2. Get(Stored, a, Setting) = "redis.Nil"
    BY <1>5, <2>1 DEF Get, At
  <2> QED BY <1>6, <2>2 DEF SettingOf
<1>7. CASE c # Nobody /\ settings[c] = "unset"
  <2>1. buildKey(a, Setting) \notin keys
    <3>1. buildKey(a, Setting) = <<c, "setting">>
      BY <1>2, <1>7
    <3>2. \A d \in held : d # c
      BY <1>7
    <3> QED BY <1>3, <3>1, <3>2
  <2>2. Get(Stored, a, Setting) = "redis.Nil"
    BY <1>5, <2>1 DEF Get, At
  <2> QED BY <1>7, <2>2 DEF SettingOf
<1>8. CASE c # Nobody /\ settings[c] # "unset"
  <2>1. c \in held
    BY <1>8
  <2>2. buildKey(a, Setting) = <<c, "setting">> /\ <<c, "setting">> \in keys
    BY <1>2, <1>3, <1>8, <2>1
  <2>3. Stored[<<c, "setting">>] = settings[c]
    <3>1. <<c, "setting">>[1] = c
      OBVIOUS
    <3> HIDE DEF keys
    <3> QED BY <1>4, <2>2, <3>1
  <2>4. Get(Stored, a, Setting) = settings[c]
    BY <1>5, <2>2, <2>3 DEF Get, At
  <2>5. settings[c] # "redis.Nil"
    BY <2>1
  <2> QED BY <1>8, <2>4, <2>5 DEF SettingOf
<1> QED BY <1>6, <1>7, <1>8

LEMMA OwnSettings ==
  ASSUME IdentityAssumption, IdentityIInv
  PROVE  SettingsOwn
<1>1. /\ settings \in [Employers -> {"unset", "on", "off"}]
      /\ actor.company \in Employers \cup {Nobody} /\ root.company \in Employers \cup {Nobody}
  BY DEF IdentityIInv, IdentityTypeOK, ActorTypeOK
<1>2. SettingOf(actor) = IF actor.company = Nobody THEN "unset" ELSE settings[actor.company]
  BY <1>1, SettingRead
<1>3. actor.company = IF cleared THEN Nobody ELSE root.company
  BY OwedKept DEF IdentityKept
<1>4. SettingOf(actor) = IF cleared \/ root.company = Nobody THEN "unset" ELSE settings[root.company]
  BY <1>2, <1>3
<1> QED
  BY <1>4 DEF SettingsOwn, SamsaraAssetTrackingOn, EmptyMilesWorkflowFor,
    samsaraTrackingFromCache, emptyMilesWorkflowFromCache

\* A store of one entry, of a company's key or of a global one.
OneKey(k) == Put(<<>>, k, "v")

LEMMA OneEntry ==
  ASSUME NEW ka, NEW one, one = OneKey(ka)
  PROVE  /\ DOMAIN one = {ka} /\ one[ka] = "v"
         /\ \A kb : /\ DOMAIN one = {ka}
                    /\ At(one, kb) = "v" <=> ka = kb
                    /\ Put(one, kb, "w") # one
                    /\ ka \in DOMAIN Without(one, {kb}) <=> ka # kb
                    /\ Without(one, {kb}) = one <=> ka # kb
<1>1. one = [k \in {ka} |-> "v"]
  <2>1. DOMAIN <<>> \cup {ka} = {ka}
    OBVIOUS
  <2> QED BY <2>1 DEF Put, OneKey
<1>2. DOMAIN one = {ka} /\ one[ka] = "v" /\ one = [k \in {ka} |-> one[k]]
  BY <1>1
<1>3. ASSUME NEW kb
      PROVE  /\ At(one, kb) = "v" <=> ka = kb
             /\ Put(one, kb, "w") # one
             /\ ka \in DOMAIN Without(one, {kb}) <=> ka # kb
             /\ Without(one, {kb}) = one <=> ka # kb
  <2>1. At(one, kb) = "v" <=> ka = kb
    BY <1>2 DEF At
  <2>2. Put(one, kb, "w") # one
    <3>1. Put(one, kb, "w")[kb] = "w"
      BY DEF Put
    <3>2. kb \in DOMAIN Put(one, kb, "w")
      BY DEF Put
    <3> QED BY <1>2, <3>1, <3>2
  <2>3. DOMAIN Without(one, {kb}) = {ka} \ {kb}
    BY <1>2 DEF Without
  <2>4. ka # kb => Without(one, {kb}) = one
    <3>1. ka # kb => {ka} \ {kb} = {ka}
      OBVIOUS
    <3> QED BY <1>2, <3>1 DEF Without
  <2>5. ka = kb => Without(one, {kb}) # one
    BY <1>2, <2>3
  <2> QED BY <1>2, <2>1, <2>2, <2>3, <2>4, <2>5
<1> QED BY <1>2, <1>3

LEMMA GlobalBeside ==
  ASSUME NEW ka, NEW key, NEW one, one = OneKey(ka),
         NEW global, global = SetGlobal(one, key, "w")
  PROVE  /\ GetGlobal(global, key) = "w"
         /\ GetGlobal(DeleteGlobal(global, key), key) = "redis.Nil"
         /\ DeleteKeysGlobal(global, {key}) = DeleteGlobal(global, key)
         /\ ka # key => At(DeleteGlobal(global, key), ka) = "v"
<1>1. DOMAIN one = {ka} /\ one[ka] = "v"
  BY OneEntry
<1>2. /\ DOMAIN global = {ka, key} /\ global[key] = "w"
      /\ ka # key => global[ka] = "v"
  BY <1>1 DEF SetGlobal, Put
<1>3. /\ DOMAIN DeleteGlobal(global, key) = {ka, key} \ {key}
      /\ ka # key => DeleteGlobal(global, key)[ka] = "v"
  BY <1>2 DEF DeleteGlobal, Without
<1> QED BY <1>2, <1>3 DEF GetGlobal, At, DeleteKeysGlobal, DeleteGlobal

LEMMA OneCompanysEntry ==
  ASSUME IdentityAssumption, NEW a, NEW b,
         a.company \in Employers \cup {Nobody}, b.company \in Employers \cup {Nobody},
         NEW key, key = <<"key">>, NEW one, one = Set(<<>>, a, key, "v"),
         NEW first, first = DeleteKeys(one, b, {key})
  PROVE  /\ Get(one, b, key) = "v" <=> a.company = b.company
         /\ SetNX(one, b, key, "w") = one <=> a.company = b.company
         /\ Exists(Delete(one, b, key), a, key) <=> a.company # b.company
         /\ first.store = Delete(one, b, key)
         /\ DeleteKeys(one, b, first.keys).store = one <=> a.company # b.company \/ b.company # Nobody
<1> DEFINE ka == buildKey(a, key)
           kb == buildKey(b, key)
           kbb == buildKey(b, kb)
<1>1. /\ ka = IF a.company = Nobody THEN <<"key">> ELSE <<a.company, "key">>
      /\ kb = IF b.company = Nobody THEN <<"key">> ELSE <<b.company, "key">>
  BY KeyOf DEF buildKey, GetCompanyID
<1>2. kbb = IF b.company = Nobody THEN <<"key">> ELSE <<b.company, b.company, "key">>
  <2>1. CASE b.company = Nobody
    BY <1>1, <2>1 DEF buildKey, ScopedKey, GetCompanyID
  <2>2. CASE b.company # Nobody
    BY <1>1, <2>2, ThreeJoined DEF buildKey, ScopedKey, GetCompanyID
  <2> QED BY <2>1, <2>2
<1>3. one = OneKey(ka)
  BY DEF Set, OneKey
<1>4. first.store = Without(one, {kb}) /\ first.keys = {kb}
  BY DEF DeleteKeys
<1>5. DeleteKeys(one, b, first.keys).store = Without(one, {kbb})
  BY <1>4 DEF DeleteKeys
<1>6. Get(one, b, key) = At(one, kb) /\ Delete(one, b, key) = Without(one, {kb})
  BY DEF Get, Delete
<1>7. Exists(Delete(one, b, key), a, key) <=> ka \in DOMAIN Without(one, {kb})
  BY <1>6 DEF Exists
<1>8. SetNX(one, b, key, "w") = IF kb \in DOMAIN one THEN one ELSE Put(one, kb, "w")
  BY DEF SetNX, Exists, Set
<1> HIDE DEF ka, kb, kbb
<1>9. ka = kb <=> a.company = b.company
  BY <1>1
<1>10. ka = kbb <=> a.company = Nobody /\ b.company = Nobody
  BY <1>1, <1>2
<1>11. /\ DOMAIN one = {ka}
       /\ At(one, kb) = "v" <=> ka = kb
       /\ Put(one, kb, "w") # one
       /\ ka \in DOMAIN Without(one, {kb}) <=> ka # kb
       /\ Without(one, {kbb}) = one <=> ka # kbb
  <2>1. \A k : /\ DOMAIN one = {ka}
               /\ At(one, k) = "v" <=> ka = k
               /\ Put(one, k, "w") # one
               /\ ka \in DOMAIN Without(one, {k}) <=> ka # k
               /\ Without(one, {k}) = one <=> ka # k
    BY <1>3, OneEntry
  <2>2. /\ At(one, kb) = "v" <=> ka = kb
        /\ Put(one, kb, "w") # one
        /\ ka \in DOMAIN Without(one, {kb}) <=> ka # kb
    BY <2>1, Zenon
  <2>3. DOMAIN one = {ka} /\ (Without(one, {kbb}) = one <=> ka # kbb)
    BY <2>1, Zenon
  <2> QED BY <2>2, <2>3, Zenon
<1>12. SetNX(one, b, key, "w") = one <=> a.company = b.company
  BY <1>8, <1>9, <1>11
<1>13. DeleteKeys(one, b, first.keys).store = one <=> a.company # b.company \/ b.company # Nobody
  BY <1>5, <1>10, <1>11
<1> QED BY <1>4, <1>6, <1>7, <1>9, <1>11, <1>12, <1>13

LEMMA CachesAgree == IdentityAssumption => CacheAgrees
<1> SUFFICES ASSUME IdentityAssumption PROVE CacheAgrees
  OBVIOUS
<1> DEFINE actors == {User(u) : u \in Callers} \cup {Guest(c) : c \in Employers}
             \cup {System(Nobody, c) : c \in Employers \cup {Nobody}} \cup {NoActor, NilActor}
           key == <<"key">>
<1>1. \A a \in actors : a.company \in Employers \cup {Nobody}
  BY EmployersKnown DEF User, UserClaims, Guest, System, NoActor, NilActor, Actor
<1> HIDE DEF actors
<1>2. ASSUME NEW a \in actors, NEW b \in actors
      PROVE  LET one == Set(<<>>, a, key, "v")
                 same == GetCompanyID(a) = GetCompanyID(b)
                 first == DeleteKeys(one, b, {key})
                 global == SetGlobal(one, key, "w")
             IN /\ Get(one, b, key) = "v" <=> same
                /\ SetNX(one, b, key, "w") = one <=> same
                /\ Exists(Delete(one, b, key), a, key) <=> ~same
                /\ first.store = Delete(one, b, key)
                /\ DeleteKeys(one, b, first.keys).store = one <=> ~same \/ GetCompanyID(b) # Nobody
                /\ GetGlobal(global, key) = "w" /\ GetGlobal(DeleteGlobal(global, key), key) = "redis.Nil"
                /\ DeleteKeysGlobal(global, {key}) = DeleteGlobal(global, key)
                /\ GetCompanyID(a) # Nobody => Get(DeleteGlobal(global, key), a, key) = "v"
  <2> DEFINE one == Set(<<>>, a, key, "v")
             first == DeleteKeys(one, b, {key})
             global == SetGlobal(one, key, "w")
  <2>1. GetCompanyID(a) = a.company /\ GetCompanyID(b) = b.company
    BY DEF GetCompanyID
  <2>2. /\ Get(one, b, key) = "v" <=> a.company = b.company
        /\ SetNX(one, b, key, "w") = one <=> a.company = b.company
        /\ Exists(Delete(one, b, key), a, key) <=> a.company # b.company
        /\ first.store = Delete(one, b, key)
        /\ DeleteKeys(one, b, first.keys).store = one <=> a.company # b.company \/ b.company # Nobody
    BY <1>1, OneCompanysEntry
  <2>3. one = OneKey(buildKey(a, key))
    BY DEF Set, OneKey
  <2>4. a.company # Nobody => buildKey(a, key) # key
    <3>1. ScopedKey(a.company, <<"key">>) = IF a.company = Nobody THEN <<"key">> ELSE <<a.company, "key">>
      BY KeyOf
    <3>2. <<a.company, "key">> # <<"key">>
      OBVIOUS
    <3> QED BY <3>1, <3>2 DEF buildKey, GetCompanyID
  <2>5. Get(DeleteGlobal(global, key), a, key) = At(DeleteGlobal(global, key), buildKey(a, key))
    BY DEF Get
  <2>6. /\ GetGlobal(global, key) = "w"
        /\ GetGlobal(DeleteGlobal(global, key), key) = "redis.Nil"
        /\ DeleteKeysGlobal(global, {key}) = DeleteGlobal(global, key)
        /\ buildKey(a, key) # key => At(DeleteGlobal(global, key), buildKey(a, key)) = "v"
    BY <2>3, GlobalBeside
  <2> HIDE DEF one, first, global, key
  <2> QED BY <2>1, <2>2, <2>4, <2>5, <2>6 DEF one, first, global
<1> QED BY <1>2 DEF CacheAgrees, actors

LEMMA IdentitySafe ==
  ASSUME IdentityAssumption, IdentityIInv
  PROVE  IdentitySound
BY OwedKept, OwnSettings, CachesAgree DEF IdentitySound, IdentityIInv

\* However work is handed from service to service, it is that of who began it, with no
\* more rights; a refusal, a panic and a setting are owed to what they should be.
THEOREM IdentityInvariant == ASSUME IdentityAssumption PROVE IdentitySpec => []IdentityIInv
<1>1. IdentityInit => IdentityIInv
  BY IdentityInitInv
<1>2. IdentityIInv /\ [IdentityNext]_identityVars => IdentityIInv'
  BY IdentityNextInv
<1> QED BY <1>1, <1>2, PTL DEF IdentitySpec

-----------------------------------------------------------------------------
(* Saved filters: the rows a user has and those that calls under way bring *)
(* are within the limit and the user's tabs.                               *)

\* A part that is instantiated counts as this module does.
LEMMA SavedCounts ==
  \A S : (Saved!IsFiniteSet(S) <=> IsFiniteSet(S)) /\ Saved!Cardinality(S) = Cardinality(S)
BY DEF Saved!IsFiniteSet, IsFiniteSet, Saved!Cardinality, Cardinality

Saving(u) == {t \in Saved!TabsOf(u) : pc[t] = "save"}
Creating(u) == {t \in Saved!TabsOf(u) : pc[t] = "create"}

\* The rows a user has, and those that calls under way may bring back.
Claimed(u) == Saved!Own(u) \cup {id[t] : t \in Saving(u)}

\* A call that has counted has a row coming.
Fits(u) ==
  /\ IsFiniteSet(Claimed(u))
  /\ Saved!TabsOf(u) # {} =>
       Cardinality(Claimed(u)) + Cardinality(Creating(u)) <= maxFiltersPerUser + Cardinality(Saved!TabsOf(u)) - 1

SavedIInv ==
  /\ Saved!TypeOK
  /\ id \in [Tabs -> Nat] /\ read \in [Tabs -> Saved!Row \cup {None}]
  /\ \A u \in Users : Fits(u)

LEMMA TabsFinite ==
  ASSUME Saved!FilterAssumption, NEW u
  PROVE  /\ IsFiniteSet(Saved!TabsOf(u)) /\ Cardinality(Saved!TabsOf(u)) \in Nat
         /\ IsFiniteSet(Saving(u)) /\ IsFiniteSet(Creating(u))
         /\ Cardinality(Saving(u)) \in Nat /\ Cardinality(Creating(u)) \in Nat
<1>1. IsFiniteSet(Saved!TabsOf(u))
  BY FS_Subset, SavedCounts DEF Saved!FilterAssumption, Saved!TabsOf
<1>2. IsFiniteSet(Saving(u)) /\ IsFiniteSet(Creating(u))
  BY <1>1, FS_Subset DEF Saving, Creating
<1> QED BY <1>1, <1>2, FS_CardinalityType

LEMMA Limit ==
  ASSUME Saved!FilterAssumption
  PROVE  maxFiltersPerUser \in Nat /\ MaxRows \in Nat
BY DEF Saved!FilterAssumption

LEMMA SumsFit ==
  ASSUME NEW A, NEW B, NEW C, NEW D, IsFiniteSet(A), IsFiniteSet(B), C \subseteq A, D \subseteq B
  PROVE  /\ IsFiniteSet(C) /\ IsFiniteSet(D)
         /\ Cardinality(C) + Cardinality(D) <= Cardinality(A) + Cardinality(B)
         /\ Cardinality(A) \in Nat /\ Cardinality(B) \in Nat
         /\ Cardinality(C) \in Nat /\ Cardinality(D) \in Nat
<1>1. IsFiniteSet(C) /\ Cardinality(C) <= Cardinality(A)
  BY FS_Subset
<1>2. IsFiniteSet(D) /\ Cardinality(D) <= Cardinality(B)
  BY FS_Subset
<1>3. /\ Cardinality(A) \in Nat /\ Cardinality(B) \in Nat
      /\ Cardinality(C) \in Nat /\ Cardinality(D) \in Nat
  BY <1>1, <1>2, FS_CardinalityType
<1> QED BY <1>1, <1>2, <1>3

\* As many tabs at least as calls that save, that create, and one more.
LEMMA ThreeApart ==
  ASSUME NEW T, IsFiniteSet(T), NEW A, NEW B, NEW t \in T, A \subseteq T, B \subseteq T,
         A \cap B = {}, t \notin A, t \notin B
  PROVE  Cardinality(A) + Cardinality(B) + 1 <= Cardinality(T)
<1>1. IsFiniteSet(A) /\ IsFiniteSet(B) /\ Cardinality(A) \in Nat /\ Cardinality(B) \in Nat
  BY FS_Subset, FS_CardinalityType
<1>2. IsFiniteSet(A \cup B) /\ Cardinality(A \cup B) = Cardinality(A) + Cardinality(B)
  <2>1. /\ IsFiniteSet(A \cup B)
        /\ Cardinality(A \cup B) = Cardinality(A) + Cardinality(B) - Cardinality(A \cap B)
    BY <1>1, FS_Union
  <2>2. Cardinality(A \cap B) = 0
    BY FS_EmptySet
  <2> QED BY <1>1, <2>1, <2>2
<1>3. Cardinality(A \cup B \cup {t}) = Cardinality(A \cup B) + 1
  BY <1>2, FS_AddElement
<1>4. Cardinality(A \cup B \cup {t}) <= Cardinality(T)
  BY FS_Subset
<1> QED BY <1>1, <1>2, <1>3, <1>4

LEMMA ImageFits ==
  ASSUME NEW S, IsFiniteSet(S), NEW f
  PROVE  LET I == {f[x] : x \in S} IN IsFiniteSet(I) /\ Cardinality(I) <= Cardinality(S)
<1> DEFINE I == {f[x] : x \in S}
           h == [x \in S |-> f[x]]
<1>1. h \in Surjection(S, I)
  BY DEF Surjection
<1> QED BY <1>1, FS_Surjection

LEMMA SavedInitInv ==
  ASSUME Saved!FilterAssumption, Saved!Init
  PROVE  SavedIInv
<1>1. Saved!TypeOK
  BY Limit DEF Saved!Init, Saved!TypeOK
<1>2. ASSUME NEW u \in Users PROVE Fits(u)
  <2>1. Claimed(u) = {} /\ Creating(u) = {}
    BY DEF Saved!Init, Claimed, Saved!Own, Saving, Creating, Saved!TabsOf
  <2>2. Cardinality({}) = 0 /\ IsFiniteSet({})
    BY FS_EmptySet
  <2>3. Saved!TabsOf(u) # {} => Cardinality(Saved!TabsOf(u)) # 0
    BY TabsFinite, FS_EmptySet
  <2> QED BY <2>1, <2>2, <2>3, TabsFinite, Limit DEF Fits
<1>3. id \in [Tabs -> Nat] /\ read \in [Tabs -> Saved!Row \cup {None}]
  BY DEF Saved!Init
<1> QED BY <1>1, <1>2, <1>3 DEF SavedIInv

\* Nothing more is claimed, or is coming.
LEMMA NothingMore ==
  ASSUME Saved!FilterAssumption, NEW u, Fits(u), Claimed(u)' \subseteq Claimed(u),
         Creating(u)' \subseteq Creating(u)
  PROVE  Fits(u)'
<1>1. Saved!TabsOf(u)' = Saved!TabsOf(u)
  BY DEF Saved!TabsOf
<1>2. /\ IsFiniteSet(Claimed(u)')
      /\ Cardinality(Claimed(u)') + Cardinality(Creating(u)') <= Cardinality(Claimed(u)) + Cardinality(Creating(u))
      /\ Cardinality(Claimed(u)) \in Nat /\ Cardinality(Creating(u)) \in Nat
      /\ Cardinality(Claimed(u)') \in Nat /\ Cardinality(Creating(u)') \in Nat
  BY TabsFinite, SumsFit DEF Fits
<1>3. Saved!TabsOf(u) # {} =>
       Cardinality(Claimed(u)) + Cardinality(Creating(u)) <= maxFiltersPerUser + Cardinality(Saved!TabsOf(u)) - 1
  BY DEF Fits
<1>4. Saved!TabsOf(u) # {} =>
       Cardinality(Claimed(u)') + Cardinality(Creating(u)') <= maxFiltersPerUser + Cardinality(Saved!TabsOf(u)) - 1
  BY <1>2, <1>3, TabsFinite, Limit
<1> QED BY <1>1, <1>2, <1>4 DEF Fits

LEMMA TypedStep ==
  ASSUME Saved!FilterAssumption, SavedIInv, [Saved!Next]_savedVars
  PROVE  Saved!TypeOK' /\ (id \in [Tabs -> Nat])' /\ (read \in [Tabs -> Saved!Row \cup {None}])'
<1> USE DEF SavedIInv
<1>1. created \in Nat /\ MaxRows \in Nat
  BY Limit DEF Saved!TypeOK
<1>2. ASSUME NEW t \in Tabs, NEW n \in Names, Saved!CreateCount(t, n)
      PROVE  Saved!TypeOK' /\ (id \in [Tabs -> Nat])' /\ (read \in [Tabs -> Saved!Row \cup {None}])'
  <2>1. [user |-> OwnerOf[t], name |-> n, pinned |-> TRUE] \in Saved!Row
    BY DEF Saved!FilterAssumption, Saved!Row
  <2> QED BY <1>2, <2>1 DEF Saved!CreateCount, Saved!TypeOK
<1>3. ASSUME NEW t \in Tabs, Saved!CreateInsert(t)
      PROVE  Saved!TypeOK' /\ (id \in [Tabs -> Nat])' /\ (read \in [Tabs -> Saved!Row \cup {None}])'
  <2>1. created' \in 0..MaxRows /\ created' \in Nat /\ 1..created \subseteq 1..created' /\ created' \in 1..created'
    BY <1>1, <1>3 DEF Saved!CreateInsert
  <2>2. read[t] \in Saved!Row
    BY <1>3 DEF Saved!CreateInsert, Saved!TypeOK
  <2>3. DOMAIN rows' = DOMAIN rows \cup {created'} /\ \A i \in DOMAIN rows' : rows'[i] \in Saved!Row
    BY <1>3, <2>2 DEF Saved!CreateInsert, Saved!Put, Saved!TypeOK
  <2>4. pc' = [pc EXCEPT ![t] = "idle"] /\ id' = [id EXCEPT ![t] = 0] /\ read' = [read EXCEPT ![t] = None]
        /\ deleted' = deleted
    BY <1>3 DEF Saved!CreateInsert, Saved!Return
  <2>5. (id \in [Tabs -> Nat])' /\ (read \in [Tabs -> Saved!Row \cup {None}])'
    BY <2>4
  <2> QED BY <2>1, <2>3, <2>4, <2>5 DEF Saved!TypeOK
<1>4. ASSUME NEW t \in Tabs, NEW i \in DOMAIN rows,
             NEW then \in {"save", "delete"}, NEW row \in Saved!Row, row.user = OwnerOf[t], Saved!Load(t, i, then, row)
      PROVE  Saved!TypeOK' /\ (id \in [Tabs -> Nat])' /\ (read \in [Tabs -> Saved!Row \cup {None}])'
  <2>1. i \in 1..created /\ i \in Nat
    BY <1>1 DEF Saved!TypeOK
  <2> QED BY <1>4, <2>1 DEF Saved!Load, Saved!TypeOK
<1>5. ASSUME NEW t \in Tabs, Saved!Save(t)
      PROVE  Saved!TypeOK' /\ (id \in [Tabs -> Nat])' /\ (read \in [Tabs -> Saved!Row \cup {None}])'
  <2>1. read[t] \in Saved!Row /\ id[t] \in 1..created
    BY <1>5 DEF Saved!Save, Saved!TypeOK
  <2>2. DOMAIN rows' = DOMAIN rows \cup {id[t]} /\ \A i \in DOMAIN rows' : rows'[i] \in Saved!Row
    BY <1>5, <2>1 DEF Saved!Save, Saved!Put, Saved!TypeOK
  <2>3. pc' = [pc EXCEPT ![t] = "idle"] /\ id' = [id EXCEPT ![t] = 0] /\ read' = [read EXCEPT ![t] = None]
        /\ UNCHANGED <<created, deleted>>
    BY <1>5 DEF Saved!Save, Saved!Return
  <2> QED BY <2>1, <2>2, <2>3 DEF Saved!TypeOK
<1>6. ASSUME NEW t \in Tabs, Saved!Delete(t)
      PROVE  Saved!TypeOK' /\ (id \in [Tabs -> Nat])' /\ (read \in [Tabs -> Saved!Row \cup {None}])'
  <2>1. id[t] \in 1..created
    BY <1>6 DEF Saved!Delete, Saved!TypeOK
  <2>2. DOMAIN rows' \subseteq DOMAIN rows /\ \A i \in DOMAIN rows' : rows'[i] \in Saved!Row
    BY <1>6 DEF Saved!Delete, Saved!TypeOK
  <2>3. pc' = [pc EXCEPT ![t] = "idle"] /\ id' = [id EXCEPT ![t] = 0] /\ read' = [read EXCEPT ![t] = None]
        /\ UNCHANGED created /\ deleted' \subseteq deleted \cup {id[t]}
    BY <1>6 DEF Saved!Delete, Saved!Return
  <2> QED BY <2>1, <2>2, <2>3 DEF Saved!TypeOK
<1>7. ASSUME NEW t \in Tabs, Saved!Fail(t)
      PROVE  Saved!TypeOK' /\ (id \in [Tabs -> Nat])' /\ (read \in [Tabs -> Saved!Row \cup {None}])'
  BY <1>7 DEF Saved!Fail, Saved!Return, Saved!TypeOK
<1>8. CASE UNCHANGED savedVars
  BY <1>8 DEF savedVars, Saved!TypeOK
<1>9. ASSUME NEW t \in Tabs, Saved!Call(t)
      PROVE  Saved!TypeOK' /\ (id \in [Tabs -> Nat])' /\ (read \in [Tabs -> Saved!Row \cup {None}])'
  <2>1. CASE \E n \in Names : Saved!CreateCount(t, n)
    BY <1>2, <2>1
  <2>2. ASSUME NEW i \in DOMAIN rows, NEW n \in Names, NEW p \in BOOLEAN, Saved!UpdateLoad(t, i, n, p)
        PROVE  Saved!TypeOK' /\ (id \in [Tabs -> Nat])' /\ (read \in [Tabs -> Saved!Row \cup {None}])'
    <3> DEFINE row == [rows[i] EXCEPT !.name = n, !.pinned = p]
    <3>1. rows[i] \in Saved!Row /\ rows[i].user = OwnerOf[t]
      BY <2>2 DEF Saved!UpdateLoad, Saved!Load, Saved!MayTouch, Saved!TypeOK
    <3>2. row \in Saved!Row /\ row.user = OwnerOf[t]
      BY <3>1 DEF Saved!Row
    <3> HIDE DEF row
    <3> QED BY <1>4, <2>2, <3>2 DEF Saved!UpdateLoad, row
  <2>3. ASSUME NEW i \in DOMAIN rows, Saved!SetPinned(t, i)
        PROVE  Saved!TypeOK' /\ (id \in [Tabs -> Nat])' /\ (read \in [Tabs -> Saved!Row \cup {None}])'
    <3> DEFINE row == [rows[i] EXCEPT !.pinned = ~ @]
    <3>1. rows[i] \in Saved!Row /\ rows[i].user = OwnerOf[t]
      BY <2>3 DEF Saved!SetPinned, Saved!Load, Saved!MayTouch, Saved!TypeOK
    <3>2. row \in Saved!Row /\ row.user = OwnerOf[t]
      BY <3>1 DEF Saved!Row
    <3> HIDE DEF row
    <3> QED BY <1>4, <2>3, <3>2 DEF Saved!SetPinned, row
  <2>4. ASSUME NEW i \in DOMAIN rows, Saved!DeleteLoad(t, i)
        PROVE  Saved!TypeOK' /\ (id \in [Tabs -> Nat])' /\ (read \in [Tabs -> Saved!Row \cup {None}])'
    <3>1. rows[i] \in Saved!Row /\ rows[i].user = OwnerOf[t]
      BY <2>4 DEF Saved!DeleteLoad, Saved!Load, Saved!MayTouch, Saved!TypeOK
    <3> QED BY <1>4, <2>4, <3>1 DEF Saved!DeleteLoad
  <2> QED BY <1>9, <2>1, <2>2, <2>3, <2>4 DEF Saved!Call
<1> QED BY <1>3, <1>5, <1>6, <1>7, <1>8, <1>9 DEF Saved!Next

LEMMA CountedFits ==
  ASSUME Saved!FilterAssumption, SavedIInv, NEW t \in Tabs, NEW n \in Names, Saved!CreateCount(t, n),
         NEW u \in Users
  PROVE  Fits(u)'
<1>1. /\ pc[t] = "idle" /\ pc' = [pc EXCEPT ![t] = "create"] /\ Saved!BelowLimit(OwnerOf[t])
      /\ UNCHANGED <<rows, id>> /\ pc \in [Tabs -> {"idle", "create", "save", "delete"}]
  BY DEF Saved!CreateCount, SavedIInv, Saved!TypeOK
<1>2. /\ Saved!TabsOf(u)' = Saved!TabsOf(u) /\ Saved!Own(u)' = Saved!Own(u) /\ Saving(u)' = Saving(u)
      /\ Claimed(u)' = Claimed(u)
  BY <1>1 DEF Saved!TabsOf, Saved!Own, Saving, Claimed
<1>3. CASE OwnerOf[t] # u
  <2>1. Creating(u)' \subseteq Creating(u)
    BY <1>1, <1>3 DEF Saved!TabsOf, Creating
  <2> QED BY <1>2, <2>1, NothingMore DEF SavedIInv
<1>4. CASE OwnerOf[t] = u
  <2>1. Creating(u)' = Creating(u) \cup {t} /\ t \notin Creating(u)
    BY <1>1, <1>4 DEF Saved!TabsOf, Creating
  <2>2. Cardinality(Creating(u)') = Cardinality(Creating(u)) + 1
    BY <2>1, TabsFinite, FS_AddElement
  <2>3. Cardinality(Saving(u)) + Cardinality(Creating(u)) + 1 <= Cardinality(Saved!TabsOf(u))
    <3>1. /\ Saving(u) \subseteq Saved!TabsOf(u) /\ Creating(u) \subseteq Saved!TabsOf(u)
          /\ Saving(u) \cap Creating(u) = {}
          /\ t \in Saved!TabsOf(u) /\ t \notin Saving(u) /\ t \notin Creating(u)
      BY <1>1, <1>4 DEF Saved!TabsOf, Saving, Creating
    <3> QED BY <3>1, TabsFinite, ThreeApart
  <2>4. IsFiniteSet(Saved!Own(u)) /\ Cardinality(Saved!Own(u)) \in Nat
    <3>1. IsFiniteSet(Claimed(u)) /\ Saved!Own(u) \subseteq Claimed(u)
      BY DEF SavedIInv, Fits, Claimed
    <3> QED BY <3>1, FS_Subset, FS_CardinalityType
  <2>5. Cardinality(Saved!Own(u)) < maxFiltersPerUser
    BY <1>1, <1>4, SavedCounts DEF Saved!BelowLimit
  <2> DEFINE Held == {id[s] : s \in Saving(u)}
  <2>6. IsFiniteSet(Held) /\ Cardinality(Held) <= Cardinality(Saving(u))
    BY TabsFinite, ImageFits
  <2>7. Claimed(u) = Saved!Own(u) \cup Held
    BY DEF Claimed
  <2> HIDE DEF Held
  <2>8. /\ Cardinality(Saved!Own(u) \cup Held) = Cardinality(Saved!Own(u)) + Cardinality(Held) - Cardinality(Saved!Own(u) \cap Held)
        /\ IsFiniteSet(Saved!Own(u) \cup Held)
    BY <2>4, <2>6, FS_Union
  <2>9. Cardinality(Saved!Own(u) \cap Held) \in Nat /\ Cardinality(Held) \in Nat
    BY <2>4, <2>6, FS_Intersection, FS_CardinalityType
  <2>10. Cardinality(Claimed(u)) + Cardinality(Creating(u)') <= maxFiltersPerUser + Cardinality(Saved!TabsOf(u)) - 1
    BY <2>2, <2>3, <2>4, <2>5, <2>6, <2>7, <2>8, <2>9, TabsFinite, Limit
  <2> QED BY <1>2, <2>7, <2>8, <2>10 DEF Fits
<1> QED BY <1>3, <1>4

LEMMA InsertedFits ==
  ASSUME Saved!FilterAssumption, SavedIInv, NEW t \in Tabs, Saved!CreateInsert(t), NEW u \in Users
  PROVE  Fits(u)'
<1>1. /\ pc[t] = "create" /\ pc' = [pc EXCEPT ![t] = "idle"] /\ id' = [id EXCEPT ![t] = 0]
      /\ rows' = [j \in DOMAIN rows \cup {created'} |-> IF j = created' THEN read[t] ELSE rows[j]]
      /\ read[t].user = OwnerOf[t]
      /\ pc \in [Tabs -> {"idle", "create", "save", "delete"}] /\ id \in [Tabs -> Nat]
  BY DEF Saved!CreateInsert, Saved!Put, Saved!Return, SavedIInv, Saved!TypeOK
<1>2. {id'[s] : s \in Saving(u)'} \subseteq {id[s] : s \in Saving(u)}
  BY <1>1 DEF Saving, Saved!TabsOf
<1>3. Creating(u)' = Creating(u) \ {t}
  BY <1>1 DEF Creating, Saved!TabsOf
<1>4. CASE OwnerOf[t] # u
  <2>1. Saved!Own(u)' \subseteq Saved!Own(u)
    BY <1>1, <1>4 DEF Saved!Own
  <2>2. Claimed(u)' \subseteq Claimed(u)
    BY <1>2, <2>1 DEF Claimed
  <2> QED BY <1>3, <2>2, NothingMore DEF SavedIInv
<1>5. CASE OwnerOf[t] = u
  <2>1. Saved!Own(u)' \subseteq Saved!Own(u) \cup {created'}
    BY <1>1 DEF Saved!Own
  <2>2. Claimed(u)' \subseteq Claimed(u) \cup {created'}
    BY <1>2, <2>1 DEF Claimed
  <2>3. t \in Creating(u)
    BY <1>1, <1>5 DEF Creating, Saved!TabsOf
  <2>4. Cardinality(Creating(u)') = Cardinality(Creating(u)) - 1
    BY <1>3, <2>3, TabsFinite, FS_RemoveElement
  <2>5. IsFiniteSet(Claimed(u)) /\ Cardinality(Claimed(u)) \in Nat
    BY FS_CardinalityType DEF SavedIInv, Fits
  <2>6. /\ IsFiniteSet(Claimed(u) \cup {created'})
        /\ Cardinality(Claimed(u) \cup {created'}) <= Cardinality(Claimed(u)) + 1
    <3>1. /\ IsFiniteSet(Claimed(u) \cup {created'})
          /\ Cardinality(Claimed(u) \cup {created'}) =
               IF created' \in Claimed(u) THEN Cardinality(Claimed(u)) ELSE Cardinality(Claimed(u)) + 1
      BY <2>5, FS_AddElement
    <3> QED BY <2>5, <3>1
  <2>7. IsFiniteSet(Claimed(u)') /\ Cardinality(Claimed(u)') <= Cardinality(Claimed(u) \cup {created'})
    BY <2>2, <2>6, FS_Subset
  <2>8. Cardinality(Claimed(u)') \in Nat /\ Cardinality(Claimed(u) \cup {created'}) \in Nat
    BY <2>6, <2>7, FS_CardinalityType
  <2>9. Saved!TabsOf(u) # {} =>
         Cardinality(Claimed(u)) + Cardinality(Creating(u)) <= maxFiltersPerUser + Cardinality(Saved!TabsOf(u)) - 1
    BY DEF SavedIInv, Fits
  <2>10. Saved!TabsOf(u) # {} =>
          Cardinality(Claimed(u)') + Cardinality(Creating(u)') <= maxFiltersPerUser + Cardinality(Saved!TabsOf(u)) - 1
    BY <2>4, <2>5, <2>6, <2>7, <2>8, <2>9, TabsFinite, Limit
  <2>11. Saved!TabsOf(u)' = Saved!TabsOf(u)
    BY DEF Saved!TabsOf
  <2> QED BY <2>7, <2>10, <2>11 DEF Fits
<1> QED BY <1>4, <1>5

LEMMA LoadedFits ==
  ASSUME Saved!FilterAssumption, SavedIInv, NEW t \in Tabs, NEW i, NEW then \in {"save", "delete"}, NEW row,
         Saved!Load(t, i, then, row), NEW u \in Users
  PROVE  Fits(u)'
<1>1. /\ pc[t] = "idle" /\ pc' = [pc EXCEPT ![t] = then] /\ id' = [id EXCEPT ![t] = i]
      /\ UNCHANGED rows /\ i \in DOMAIN rows /\ rows[i].user = OwnerOf[t]
      /\ pc \in [Tabs -> {"idle", "create", "save", "delete"}] /\ id \in [Tabs -> Nat]
  BY DEF Saved!Load, Saved!MayTouch, SavedIInv, Saved!TypeOK
<1>2. Creating(u)' \subseteq Creating(u) /\ Saved!Own(u)' = Saved!Own(u)
  BY <1>1 DEF Creating, Saved!TabsOf, Saved!Own
<1>3. ASSUME NEW s \in Saving(u)' PROVE id'[s] \in Claimed(u)
  <2>1. CASE s = t
    BY <1>1, <1>3, <2>1 DEF Saving, Saved!TabsOf, Claimed, Saved!Own
  <2>2. CASE s # t
    BY <1>1, <1>3, <2>2 DEF Saving, Saved!TabsOf, Claimed
  <2> QED BY <2>1, <2>2
<1>4. Claimed(u)' \subseteq Claimed(u)
  BY <1>2, <1>3 DEF Claimed
<1> QED BY <1>2, <1>4, NothingMore DEF SavedIInv

LEMMA SavedFits ==
  ASSUME Saved!FilterAssumption, SavedIInv, NEW t \in Tabs, Saved!Save(t) \/ Saved!Delete(t) \/ Saved!Fail(t), NEW u \in Users
  PROVE  Fits(u)'
<1>1. /\ pc' = [pc EXCEPT ![t] = "idle"] /\ id' = [id EXCEPT ![t] = 0]
      /\ pc \in [Tabs -> {"idle", "create", "save", "delete"}] /\ id \in [Tabs -> Nat]
  BY DEF Saved!Save, Saved!Delete, Saved!Fail, Saved!Return, SavedIInv, Saved!TypeOK
<1>2. /\ Creating(u)' \subseteq Creating(u)
      /\ {id'[s] : s \in Saving(u)'} \subseteq {id[s] : s \in Saving(u)}
  BY <1>1 DEF Creating, Saving, Saved!TabsOf
<1>3. Saved!Own(u)' \subseteq Claimed(u)
  <2>1. CASE Saved!Save(t)
    <3>1. /\ rows' = [j \in DOMAIN rows \cup {id[t]} |-> IF j = id[t] THEN read[t] ELSE rows[j]]
          /\ pc[t] = "save" /\ read[t].user = OwnerOf[t]
      BY <2>1 DEF Saved!Save, Saved!Put, SavedIInv, Saved!TypeOK
    <3>2. ASSUME NEW j \in Saved!Own(u)' PROVE j \in Claimed(u)
      <4>1. CASE j = id[t]
        <5>1. t \in Saving(u)
          BY <3>1, <3>2, <4>1 DEF Saved!Own, Saving, Saved!TabsOf
        <5> QED BY <4>1, <5>1 DEF Claimed
      <4>2. CASE j # id[t]
        BY <3>1, <3>2, <4>2 DEF Saved!Own, Claimed
      <4> QED BY <4>1, <4>2
    <3> QED BY <3>2
  <2>2. CASE Saved!Delete(t)
    BY <2>2 DEF Saved!Delete, Saved!Own, Claimed
  <2>3. CASE Saved!Fail(t)
    BY <2>3 DEF Saved!Fail, Saved!Own, Claimed
  <2> QED BY <2>1, <2>2, <2>3
<1>4. Claimed(u)' \subseteq Claimed(u)
  BY <1>2, <1>3 DEF Claimed
<1> QED BY <1>2, <1>4, NothingMore DEF SavedIInv

LEMMA SavedNextInv ==
  ASSUME Saved!FilterAssumption, SavedIInv, [Saved!Next]_savedVars
  PROVE  SavedIInv'
<1>1. ASSUME NEW u \in Users PROVE Fits(u)'
  <2>1. ASSUME NEW t \in Tabs, Saved!Call(t) PROVE Fits(u)'
    BY <2>1, CountedFits, LoadedFits DEF Saved!Call, Saved!UpdateLoad, Saved!SetPinned, Saved!DeleteLoad
  <2>2. CASE UNCHANGED savedVars
    <3>1. Claimed(u)' = Claimed(u) /\ Creating(u)' = Creating(u)
      BY <2>2 DEF savedVars, Claimed, Saved!Own, Saving, Creating, Saved!TabsOf
    <3> QED BY <3>1, NothingMore DEF SavedIInv
  <2> QED BY <2>1, <2>2, InsertedFits, SavedFits DEF Saved!Next
<1> QED BY <1>1, TypedStep DEF SavedIInv

LEMMA SavedSafe ==
  ASSUME Saved!FilterAssumption, SavedIInv
  PROVE  Saved!OverrunBounded
<1> SUFFICES ASSUME NEW u \in Users, Saved!TabsOf(u) # {}
             PROVE  Cardinality(Saved!Own(u)) <= maxFiltersPerUser + Cardinality(Saved!TabsOf(u)) - 1
  BY SavedCounts DEF Saved!OverrunBounded
<1>1. IsFiniteSet(Claimed(u)) /\ Saved!Own(u) \subseteq Claimed(u)
  BY DEF SavedIInv, Fits, Claimed
<1>2. Cardinality(Saved!Own(u)) <= Cardinality(Claimed(u))
      /\ Cardinality(Saved!Own(u)) \in Nat /\ Cardinality(Claimed(u)) \in Nat
  BY <1>1, FS_Subset, FS_CardinalityType
<1>3. Cardinality(Claimed(u)) + Cardinality(Creating(u)) <= maxFiltersPerUser + Cardinality(Saved!TabsOf(u)) - 1
  BY DEF SavedIInv, Fits
<1> QED BY <1>2, <1>3, TabsFinite, Limit

-----------------------------------------------------------------------------
(* Conditions: what one call adds to a query is met by the rows it asks    *)
(* for.                                                                    *)

LEMMA QueryCounts == \A S : Query!Cardinality(S) = Cardinality(S)
BY DEF Query!Cardinality, Cardinality

\* What a client asks for by one call of the builder.
Asks(a, row) ==
  CASE a.how = "AND" -> \A b \in a.branches : Query!Wants(b, row)
    [] a.how = "OR" -> LET said == {b \in a.branches : Query!Says(b)}
                       IN said = {} \/ \E b \in said : Query!Wants(b, row)
    [] a.how = "NOT" -> \A b \in a.branches :
         Query!Says(b) => \E col \in DOMAIN b : Query!Wrong(row, col, b[col])

Found(clauses, row) == \A k \in clauses : Query!TruthOf(k, row) = "true"

\* The conditions that the terms of a column make, whatever its filter.
Compares(col, c) == [col |-> col, op |-> c[1], arg |-> {c[2]}]
Among(col, items) == [col |-> col, op |-> "IN", arg |-> items]
NotAmong(col, items) == [col |-> col, op |-> "NOT IN", arg |-> items]
Tests(col, n) == [col |-> col, op |-> Query!NullTest(n), arg |-> {}]
Made(col, f) ==
  {Compares(col, c) : c \in f.cmp} \cup {Among(col, items) : items \in f.in \ {{}}}
    \cup {NotAmong(col, items) : items \in f.notIn \ {{}}} \cup {Tests(col, n) : n \in f.null}

LEMMA MadeAny ==
  ASSUME Query!ConditionsAssumption, NEW col, filterOf[col] \in Query!Kinds, NEW f \in Query!TermsOf(filterOf[col])
  PROVE  Query!Conditions(col, f) = Made(col, f)
<1> DEFINE cmps == {[col |-> col, op |-> c[1], arg |-> {c[2]}] : c \in f.cmp}
           some == {[col |-> col, op |-> c[1], arg |-> {c[2]}] : c \in {c \in f.cmp : c[1] \in {"=", "!="}}}
           ins == {[col |-> col, op |-> "IN", arg |-> items] : items \in f.in \ {{}}}
           outs == {[col |-> col, op |-> "NOT IN", arg |-> items] : items \in f.notIn \ {{}}}
           nulls == {[col |-> col, op |-> Query!NullTest(n), arg |-> {}] : n \in f.null}
<1>1. some \subseteq cmps
  OBVIOUS
<1>2. filterOf[col] # "DateTime" => some = cmps
  <2>1. filterOf[col] # "DateTime" => {c \in f.cmp : c[1] \in {"=", "!="}} = f.cmp
    BY DEF Query!TermsOf
  <2> QED BY <2>1
<1>3. filterOf[col] = "Enum" => nulls = {}
  BY DEF Query!TermsOf
<1>4. Made(col, f) = cmps \cup ins \cup outs \cup nulls
  BY DEF Made, Compares, Among, NotAmong, Tests
<1>5. Query!Enum(col, f) = some \cup ins \cup outs
  BY DEF Query!Enum
<1>6. Query!ID(col, f) = some \cup ins \cup outs \cup nulls
  BY <1>5 DEF Query!ID
<1>7. Query!DateTime(col, f) = some \cup ins \cup outs \cup nulls \cup cmps
  BY <1>6 DEF Query!DateTime
<1> HIDE DEF cmps, some, ins, outs, nulls
<1> QED BY <1>1, <1>2, <1>3, <1>4, <1>5, <1>6, <1>7 DEF Query!Conditions, Query!Kinds

LEMMA MetBy ==
  ASSUME NEW c, NEW d, c.op = d.op, c.arg = d.arg, NEW v
  PROVE  Query!Met(c, v) = Query!Met(d, v)
BY DEF Query!Met

\* What a column's conditions are of a row.
LEMMA ColumnTrue ==
  ASSUME Query!ConditionsAssumption, NEW row \in Query!Rows, NEW col \in Columns, NEW f \in Terms,
         row[col] # Query!Null
  PROVE  /\ \A c \in Made(col, f) : Query!Truth(c, row) \in {"true", "false"}
         /\ (\A c \in Made(col, f) : Query!Truth(c, row) = "true") <=> Query!Right(row, col, f)
<1> DEFINE v == row[col]
<1>1. \A c : c.col = col => Query!Truth(c, row) = IF Query!Met(c, v) THEN "true" ELSE "false"
  BY DEF Query!Truth
<1>2. \A c \in Made(col, f) : c.col = col
  <2>1. \A x : /\ Compares(col, x).col = col /\ Among(col, x).col = col
               /\ NotAmong(col, x).col = col /\ Tests(col, x).col = col
    BY DEF Compares, Among, NotAmong, Tests
  <2> QED BY <2>1 DEF Made
<1>3. ASSUME NEW c \in f.cmp
      PROVE  Query!Truth(Compares(col, c), row) =
               IF Query!Met([op |-> c[1], arg |-> {c[2]}], v) THEN "true" ELSE "false"
  <2>1. Query!Met(Compares(col, c), v) = Query!Met([op |-> c[1], arg |-> {c[2]}], v)
    BY MetBy DEF Compares
  <2> QED BY <1>1, <2>1 DEF Compares
<1>4. ASSUME NEW items
      PROVE  Query!Truth(Among(col, items), row) = IF v \in items THEN "true" ELSE "false"
  <2>1. Query!Met(Among(col, items), v) <=> v \in items
    BY DEF Query!Met, Among
  <2> QED BY <1>1, <2>1 DEF Among
<1>5. ASSUME NEW items
      PROVE  Query!Truth(NotAmong(col, items), row) = IF v \notin items THEN "true" ELSE "false"
  <2>1. Query!Met(NotAmong(col, items), v) <=> v \notin items
    BY DEF Query!Met, NotAmong
  <2> QED BY <1>1, <2>1 DEF NotAmong
<1>6. ASSUME NEW n \in f.null
      PROVE  Query!Truth(Tests(col, n), row) = IF n THEN "false" ELSE "true"
  <2>1. n \in BOOLEAN
    BY DEF Query!ConditionsAssumption
  <2>2. Query!Met(Tests(col, n), v) <=> ~n
    BY <2>1 DEF Query!Met, Query!NullTest, Tests
  <2> QED BY <1>1, <2>1, <2>2 DEF Tests
<1>7. \A n \in f.null : n \in BOOLEAN
  BY DEF Query!ConditionsAssumption
<1>8. (\A c \in Made(col, f) : Query!Truth(c, row) = "true") <=>
        /\ \A c \in f.cmp : Query!Met([op |-> c[1], arg |-> {c[2]}], v)
        /\ \A items \in f.in \ {{}} : v \in items
        /\ \A items \in f.notIn \ {{}} : v \notin items
        /\ \A n \in f.null : ~n
  <2>1. (\A c \in Made(col, f) : Query!Truth(c, row) = "true") <=>
          /\ \A c \in f.cmp : Query!Truth(Compares(col, c), row) = "true"
          /\ \A items \in f.in \ {{}} : Query!Truth(Among(col, items), row) = "true"
          /\ \A items \in f.notIn \ {{}} : Query!Truth(NotAmong(col, items), row) = "true"
          /\ \A n \in f.null : Query!Truth(Tests(col, n), row) = "true"
    BY DEF Made
  <2>2. (\A c \in f.cmp : Query!Truth(Compares(col, c), row) = "true") <=>
          \A c \in f.cmp : Query!Met([op |-> c[1], arg |-> {c[2]}], v)
    BY <1>3
  <2>3. (\A items \in f.in \ {{}} : Query!Truth(Among(col, items), row) = "true") <=>
          \A items \in f.in \ {{}} : v \in items
    BY <1>4
  <2>4. (\A items \in f.notIn \ {{}} : Query!Truth(NotAmong(col, items), row) = "true") <=>
          \A items \in f.notIn \ {{}} : v \notin items
    BY <1>5
  <2>5. (\A n \in f.null : Query!Truth(Tests(col, n), row) = "true") <=> \A n \in f.null : ~n
    BY <1>6
  <2> QED BY <2>1, <2>2, <2>3, <2>4, <2>5
<1>9. Query!Right(row, col, f) <=>
        /\ \A c \in f.cmp : Query!Met([op |-> c[1], arg |-> {c[2]}], v)
        /\ \A items \in f.in \ {{}} : v \in items
        /\ \A items \in f.notIn \ {{}} : v \notin items
        /\ \A n \in f.null : ~n
  BY <1>7 DEF Query!Right, Query!Restricts
<1> QED BY <1>1, <1>2, <1>8, <1>9

LEMMA ColumnNull ==
  ASSUME Query!ConditionsAssumption, NEW row \in Query!Rows, NEW col \in Columns, NEW f \in Terms,
         row[col] = Query!Null
  PROVE  /\ (\A c \in Made(col, f) : Query!Truth(c, row) = "true") <=> Query!Right(row, col, f)
         /\ (\E c \in Made(col, f) : Query!Truth(c, row) = "false") <=> FALSE \in f.null
<1>1. \A c : c.col = col => Query!Truth(c, row) = IF c.op = "IS NULL" THEN "true"
                                            ELSE IF c.op = "IS NOT NULL" THEN "false" ELSE "null"
  BY DEF Query!Truth
<1>2. ASSUME NEW n \in f.null
      PROVE  Query!Truth(Tests(col, n), row) = IF n THEN "true" ELSE "false"
  <2>1. n \in BOOLEAN
    BY DEF Query!ConditionsAssumption
  <2>2. /\ Tests(col, n).col = col
        /\ Tests(col, n).op = IF n THEN "IS NULL" ELSE "IS NOT NULL"
    BY DEF Query!NullTest, Tests
  <2>3. CASE n
    BY <1>1, <2>2, <2>3
  <2>4. CASE ~n
    BY <1>1, <2>2, <2>4
  <2> QED BY <2>1, <2>3, <2>4
<1>3. ASSUME NEW c \in f.cmp
      PROVE  Query!Truth(Compares(col, c), row) = "null"
  <2>1. c[1] \in Query!Operators
    BY DEF Query!ConditionsAssumption
  <2> QED BY <1>1, <2>1 DEF Query!Operators, Compares
<1>4. ASSUME NEW items
      PROVE  /\ Query!Truth(Among(col, items), row) = "null"
             /\ Query!Truth(NotAmong(col, items), row) = "null"
  BY <1>1 DEF Among, NotAmong
<1>5. \A n \in f.null : n \in BOOLEAN
  BY DEF Query!ConditionsAssumption
<1>6. (\A c \in Made(col, f) : Query!Truth(c, row) = "true") <=>
        f.cmp = {} /\ f.in \ {{}} = {} /\ f.notIn \ {{}} = {} /\ \A n \in f.null : n
  BY <1>2, <1>3, <1>4 DEF Made
<1>7. Query!Right(row, col, f) <=>
        f.cmp = {} /\ f.in \ {{}} = {} /\ f.notIn \ {{}} = {} /\ \A n \in f.null : n
  BY <1>5 DEF Query!Right, Query!Restricts
<1>8. (\E c \in Made(col, f) : Query!Truth(c, row) = "false") <=> \E n \in f.null : ~n
  BY <1>2, <1>3, <1>4 DEF Made
<1> QED BY <1>5, <1>6, <1>7, <1>8

LEMMA Column ==
  ASSUME Query!ConditionsAssumption, NEW row \in Query!Rows, NEW col \in Columns, NEW f \in Terms
  PROVE  /\ (\A c \in Made(col, f) : Query!Truth(c, row) = "true") <=> Query!Right(row, col, f)
         /\ (\E c \in Made(col, f) : Query!Truth(c, row) = "false") <=> Query!Wrong(row, col, f)
         /\ Made(col, f) = {} <=> ~(Query!Restricts(f) \/ f.null # {})
<1>1. Made(col, f) = {} <=> ~(Query!Restricts(f) \/ f.null # {})
  BY DEF Made, Query!Restricts
<1>2. CASE row[col] # Query!Null
  BY <1>1, <1>2, ColumnTrue DEF Query!Wrong
<1>3. CASE row[col] = Query!Null
  BY <1>1, <1>3, ColumnNull DEF Query!Wrong
<1> QED BY <1>2, <1>3

-----------------------------------------------------------------------------
(* Branches and clauses.                                                   *)

LEMMA AllOf ==
  ASSUME NEW T
  PROVE  /\ Query!All(T) = "true" <=> "false" \notin T /\ "null" \notin T
         /\ Query!All(T) = "false" <=> "false" \in T
         /\ Query!All(T) \in {"true", "false", "null"}
BY DEF Query!All

LEMMA SomeOf ==
  ASSUME NEW T
  PROVE  /\ Query!Some(T) = "true" <=> "true" \in T
         /\ Query!Some(T) = "false" <=> "true" \notin T /\ "null" \notin T
         /\ Query!Some(T) \in {"true", "false", "null"}
BY DEF Query!Some

LEMMA TruthValues ==
  ASSUME NEW c, NEW row
  PROVE  Query!Truth(c, row) \in {"true", "false", "null"}
<1>1. CASE row[c.col] # Query!Null
  BY <1>1 DEF Query!Truth
<1>2. CASE row[c.col] = Query!Null
  BY <1>2 DEF Query!Truth
<1> QED BY <1>1, <1>2

\* Fields that a filter has.
HasFields(b) ==
  /\ DOMAIN b \subseteq Columns
  /\ \A col \in DOMAIN b : b[col] \in Query!TermsOf(filterOf[col])

LEMMA AllKnown == \A b \in Query!FieldConditions : HasFields(b)
BY DEF Query!FieldConditions, HasFields

LEMMA FieldsKnown ==
  ASSUME Query!ConditionsAssumption, filterOf \in [Columns -> Query!Kinds], NEW b, HasFields(b)
  PROVE  \A col \in DOMAIN b :
           col \in Columns /\ b[col] \in Terms /\ Query!Conditions(col, b[col]) = Made(col, b[col])
<1>1. \A col \in DOMAIN b : filterOf[col] \in Query!Kinds /\ b[col] \in Query!TermsOf(filterOf[col])
  BY DEF HasFields
<1>2. \A col \in DOMAIN b : col \in Columns /\ b[col] \in Terms
  BY DEF HasFields, Query!TermsOf
<1> QED BY <1>1, <1>2, MadeAny

\* The conditions of a branch are all true where a row is right about every column, and
\* one is false where it is wrong about one.
LEMMA BranchOf ==
  ASSUME Query!ConditionsAssumption, filterOf \in [Columns -> Query!Kinds], NEW b, HasFields(b),
         NEW row \in Query!Rows
  PROVE  LET t == Query!All({Query!Truth(c, row) : c \in Query!Branch(b)})
         IN /\ t = "true" <=> Query!Wants(b, row)
            /\ t = "false" <=> \E col \in DOMAIN b : Query!Wrong(row, col, b[col])
            /\ Query!Branch(b) = {} <=> ~Query!Says(b)
<1> DEFINE T == {Query!Truth(c, row) : c \in Query!Branch(b)}
<1>1. \A col \in DOMAIN b :
        /\ (\A c \in Query!Conditions(col, b[col]) : Query!Truth(c, row) = "true") <=> Query!Right(row, col, b[col])
        /\ (\E c \in Query!Conditions(col, b[col]) : Query!Truth(c, row) = "false") <=> Query!Wrong(row, col, b[col])
        /\ Query!Conditions(col, b[col]) = {} <=> ~(Query!Restricts(b[col]) \/ b[col].null # {})
  BY FieldsKnown, Column
<1>2. \A c : c \in Query!Branch(b) <=> \E col \in DOMAIN b : c \in Query!Conditions(col, b[col])
  BY DEF Query!Branch
<1>3. (\A c \in Query!Branch(b) : Query!Truth(c, row) = "true") <=> Query!Wants(b, row)
  BY <1>1, <1>2 DEF Query!Wants
<1>4. (\E c \in Query!Branch(b) : Query!Truth(c, row) = "false") <=> \E col \in DOMAIN b : Query!Wrong(row, col, b[col])
  BY <1>1, <1>2
<1>5. Query!Branch(b) = {} <=> ~Query!Says(b)
  BY <1>1, <1>2 DEF Query!Says
<1>6. "false" \notin T /\ "null" \notin T <=> \A c \in Query!Branch(b) : Query!Truth(c, row) = "true"
  BY TruthValues
<1>7. "false" \in T <=> \E c \in Query!Branch(b) : Query!Truth(c, row) = "false"
  OBVIOUS
<1> HIDE DEF T
<1>8. /\ Query!All(T) = "true" <=> Query!Wants(b, row)
      /\ Query!All(T) = "false" <=> \E col \in DOMAIN b : Query!Wrong(row, col, b[col])
  BY <1>3, <1>4, <1>6, <1>7, AllOf
<1> QED BY <1>5, <1>8 DEF T

\* A clause is met by the rows that are asked for.
LEMMA OneAnd ==
  ASSUME Query!ConditionsAssumption, filterOf \in [Columns -> Query!Kinds], NEW b, HasFields(b),
         NEW row \in Query!Rows
  PROVE  /\ Found(Query!Clause("AND", {b}), row) <=> Query!Wants(b, row)
         /\ Found(Query!Clause("NOT", {b}), row) <=>
              (Query!Says(b) => \E col \in DOMAIN b : Query!Wrong(row, col, b[col]))
<1> DEFINE t == Query!All({Query!Truth(c, row) : c \in Query!Branch(b)})
<1>1. /\ t = "true" <=> Query!Wants(b, row)
      /\ t = "false" <=> \E col \in DOMAIN b : Query!Wrong(row, col, b[col])
      /\ Query!Branch(b) = {} <=> ~Query!Says(b)
  BY BranchOf
<1>2. CASE Query!Branch(b) = {}
  <2>1. Query!Clause("AND", {b}) = {} /\ Query!Clause("NOT", {b}) = {}
    BY <1>2 DEF Query!Clause
  <2>2. t = "true"
    <3>1. {Query!Truth(c, row) : c \in Query!Branch(b)} = {}
      BY <1>2
    <3> QED BY <3>1, AllOf
  <2> QED BY <1>1, <1>2, <2>1, <2>2 DEF Found
<1>3. CASE Query!Branch(b) # {}
  <2>1. {Query!Branch(x) : x \in {b}} \ {{}} = {Query!Branch(b)}
    BY <1>3
  <2>2. /\ Query!Clause("AND", {b}) = {[neg |-> FALSE, branches |-> {Query!Branch(b)}]}
        /\ Query!Clause("NOT", {b}) = {[neg |-> TRUE, branches |-> {Query!Branch(b)}]}
    BY <2>1 DEF Query!Clause
  <2>3. {Query!All({Query!Truth(c, row) : c \in d}) : d \in {Query!Branch(b)}} = {t}
    OBVIOUS
  <2> HIDE DEF t
  <2>4. /\ Query!Some({t}) = "true" <=> t = "true"
        /\ Query!Not(Query!Some({t})) = "true" <=> t = "false"
    <3>1. /\ Query!Some({t}) = "true" <=> t = "true"
          /\ Query!Some({t}) = "false" <=> t # "true" /\ t # "null"
          /\ Query!Some({t}) \in {"true", "false", "null"}
      BY SomeOf
    <3>2. t \in {"true", "false", "null"}
      BY AllOf DEF t
    <3> QED BY <3>1, <3>2 DEF Query!Not
  <2>5. /\ Query!TruthOf([neg |-> FALSE, branches |-> {Query!Branch(b)}], row) = Query!Some({t})
        /\ Query!TruthOf([neg |-> TRUE, branches |-> {Query!Branch(b)}], row) = Query!Not(Query!Some({t}))
    BY <2>3 DEF Query!TruthOf
  <2> QED BY <1>1, <1>3, <2>2, <2>4, <2>5 DEF Found
<1> QED BY <1>2, <1>3

LEMMA OneOr ==
  ASSUME Query!ConditionsAssumption, filterOf \in [Columns -> Query!Kinds], NEW B,
         \A b \in B : HasFields(b), NEW row \in Query!Rows
  PROVE  Found(Query!Clause("OR", B), row) <=>
           \/ {b \in B : Query!Says(b)} = {}
           \/ \E b \in {x \in B : Query!Says(x)} : Query!Wants(b, row)
<1> DEFINE some == {Query!Branch(b) : b \in B} \ {{}}
           T == {Query!All({Query!Truth(c, row) : c \in d}) : d \in some}
<1>1. \A b \in B :
        /\ Query!All({Query!Truth(c, row) : c \in Query!Branch(b)}) = "true" <=> Query!Wants(b, row)
        /\ Query!Branch(b) = {} <=> ~Query!Says(b)
  BY BranchOf
<1>2. some = {} <=> {b \in B : Query!Says(b)} = {}
  BY <1>1
<1>3. "true" \in T <=> \E b \in {x \in B : Query!Says(x)} : Query!Wants(b, row)
  <2>1. "true" \in T <=> \E b \in B : Query!Branch(b) # {} /\ Query!All({Query!Truth(c, row) : c \in Query!Branch(b)}) = "true"
    OBVIOUS
  <2> QED BY <1>1, <2>1
<1>4. CASE some = {}
  BY <1>2, <1>4 DEF Query!Clause, Found
<1>5. CASE some # {}
  <2>1. Query!Clause("OR", B) = {[neg |-> FALSE, branches |-> some]}
    BY <1>5 DEF Query!Clause
  <2>2. Query!TruthOf([neg |-> FALSE, branches |-> some], row) = Query!Some(T)
    BY DEF Query!TruthOf
  <2> HIDE DEF some, T
  <2>3. Query!Some(T) = "true" <=> "true" \in T
    BY SomeOf
  <2> QED BY <1>2, <1>3, <1>5, <2>1, <2>2, <2>3 DEF Found
<1> QED BY <1>4, <1>5

LEMMA OneSearch ==
  ASSUME NEW found, NEW cols \in SUBSET Columns, NEW row \in Query!Rows
  PROVE  Found(Query!Searched(found, cols), row) <=>
           Asks([how |-> "OR", branches |-> {Query!OnOne(col, Query!InList(found)) : col \in cols}], row)
<1> DEFINE B == {Query!OnOne(col, Query!InList(found)) : col \in cols}
           Like(col) == [col |-> col, op |-> "ILIKE", arg |-> found]
<1>1. \A col : /\ DOMAIN Query!OnOne(col, Query!InList(found)) = {col}
               /\ Query!OnOne(col, Query!InList(found))[col] = Query!InList(found)
  BY DEF Query!OnOne
<1>2. /\ Query!InList(found).cmp = {} /\ Query!InList(found).in = {found}
      /\ Query!InList(found).notIn = {} /\ Query!InList(found).null = {}
  BY DEF Query!InList
<1>3. \A col : Query!Says(Query!OnOne(col, Query!InList(found))) <=> found # {}
  <2>1. \A col, b : DOMAIN b = {col} => (Query!Says(b) <=> Query!Restricts(b[col]) \/ b[col].null # {})
    BY DEF Query!Says
  <2>2. Query!Restricts(Query!InList(found)) <=> found # {}
    BY <1>2 DEF Query!Restricts
  <2> TAKE col
  <2> DEFINE b == Query!OnOne(col, Query!InList(found))
  <2>3. DOMAIN b = {col} /\ b[col] = Query!InList(found)
    BY <1>1
  <2>4. Query!Says(b) <=> Query!Restricts(b[col]) \/ b[col].null # {}
    <3> HIDE DEF b
    <3> QED BY <2>1, <2>3
  <2>5. Query!Says(b) <=> Query!Restricts(Query!InList(found)) \/ Query!InList(found).null # {}
    BY <2>3, <2>4
  <2> QED BY <1>2, <2>2, <2>5
<1>4. ASSUME found # {}
      PROVE  \A col : Query!Wants(Query!OnOne(col, Query!InList(found)), row) <=> row[col] # Query!Null /\ row[col] \in found
  <2>1. \A col : Query!Right(row, col, Query!InList(found)) <=> row[col] # Query!Null /\ row[col] \in found
    <3>1. Query!Restricts(Query!InList(found))
      BY <1>2, <1>4 DEF Query!Restricts
    <3> QED BY <1>2, <1>4, <3>1 DEF Query!Right
  <2>2. \A col, b : DOMAIN b = {col} => (Query!Wants(b, row) <=> Query!Right(row, col, b[col]))
    BY DEF Query!Wants
  <2> TAKE col
  <2> DEFINE b == Query!OnOne(col, Query!InList(found))
  <2>3. DOMAIN b = {col} /\ b[col] = Query!InList(found)
    BY <1>1
  <2>4. Query!Wants(b, row) <=> Query!Right(row, col, b[col])
    <3> HIDE DEF b
    <3> QED BY <2>2, <2>3
  <2>5. Query!Wants(b, row) <=> Query!Right(row, col, Query!InList(found))
    BY <2>3, <2>4
  <2> QED BY <2>1, <2>5
<1>5. CASE found = {} \/ cols = {}
  <2>1. {b \in B : Query!Says(b)} = {}
    BY <1>3, <1>5
  <2> QED BY <1>5, <2>1 DEF Query!Searched, Found, Asks
<1>6. CASE found # {} /\ cols # {}
  <2>1. \A col \in cols : Query!Truth(Like(col), row) = "true" <=> row[col] # Query!Null /\ row[col] \in found
    <3>1. \A col : Query!Met(Like(col), row[col]) <=> row[col] \in found
      BY DEF Query!Met
    <3> QED BY <3>1 DEF Query!Truth
  <2> DEFINE D == {{Like(col)} : col \in cols}
             T == {Query!All({Query!Truth(c, row) : c \in d}) : d \in D}
  <2>2. Query!Searched(found, cols) = {[neg |-> FALSE, branches |-> D]}
    BY <1>6 DEF Query!Searched
  <2>3. Query!TruthOf([neg |-> FALSE, branches |-> D], row) = Query!Some(T)
    BY DEF Query!TruthOf
  <2>4. \A col \in cols : Query!All({Query!Truth(c, row) : c \in {Like(col)}}) = "true" <=> Query!Truth(Like(col), row) = "true"
    <3> TAKE col \in cols
    <3> HIDE DEF Like
    <3>1. {Query!Truth(c, row) : c \in {Like(col)}} = {Query!Truth(Like(col), row)}
      OBVIOUS
    <3> QED BY <3>1, AllOf, TruthValues
  <2>5. "true" \in T <=> \E col \in cols : row[col] # Query!Null /\ row[col] \in found
    <3>1. "true" \in T <=> \E col \in cols : Query!All({Query!Truth(c, row) : c \in {Like(col)}}) = "true"
      <4> HIDE DEF Like
      <4> QED OBVIOUS
    <3> HIDE DEF Like, T
    <3> QED BY <2>1, <2>4, <3>1
  <2>6. Found(Query!Searched(found, cols), row) <=> "true" \in T
    <3> HIDE DEF T, D
    <3> QED BY <2>2, <2>3, SomeOf DEF Found
  <2>7. {b \in B : Query!Says(b)} = B /\ B # {}
    BY <1>3, <1>6
  <2>8. (\E b \in B : Query!Wants(b, row)) <=> \E col \in cols : row[col] # Query!Null /\ row[col] \in found
    BY <1>4, <1>6
  <2> HIDE DEF B, T, D, Like
  <2>9. Asks([how |-> "OR", branches |-> B], row) <=> \E b \in B : Query!Wants(b, row)
    BY <2>7 DEF Asks
  <2> QED BY <2>5, <2>6, <2>8, <2>9 DEF B
<1> QED BY <1>5, <1>6

-----------------------------------------------------------------------------
(* The invariant.                                                          *)

Exactly == \A row \in Query!Rows : Found(where, row) <=> \A a \in asked : Asks(a, row)

Clauses(clauses) == \A k \in clauses : k.neg \in BOOLEAN /\ {} \notin k.branches

CondIInv == Query!TypeOK /\ IsFiniteSet(asked) /\ Exactly /\ Query!SameThere

LEMMA ClauseTyped == \A how, branches : Clauses(Query!Clause(how, branches))
<1> TAKE how, branches
<1> DEFINE some == {Query!Branch(b) : b \in branches} \ {{}}
<1>1. Query!Clause(how, branches) \subseteq {[neg |-> how = "NOT", branches |-> some]}
  BY DEF Query!Clause
<1>2. {} \notin some
  OBVIOUS
<1> HIDE DEF some
<1>3. (how = "NOT") \in BOOLEAN
  OBVIOUS
<1> DEFINE one == [neg |-> how = "NOT", branches |-> some]
<1>4. one.neg \in BOOLEAN /\ one.branches = some
  BY <1>3
<1>5. Query!Clause(how, branches) \subseteq {one}
  BY <1>1
<1> HIDE DEF one
<1> QED BY <1>2, <1>4, <1>5 DEF Clauses

LEMMA SearchTyped == \A found, cols : Clauses(Query!Searched(found, cols))
<1> TAKE found, cols
<1> DEFINE some == {{[col |-> col, op |-> "ILIKE", arg |-> found]} : col \in cols}
<1>1. Query!Searched(found, cols) \subseteq {[neg |-> FALSE, branches |-> some]}
  BY DEF Query!Searched
<1>2. {} \notin some
  OBVIOUS
<1> HIDE DEF some
<1> DEFINE one == [neg |-> FALSE, branches |-> some]
<1>3. one.neg = FALSE /\ one.branches = some
  OBVIOUS
<1>4. Query!Searched(found, cols) \subseteq {one}
  BY <1>1
<1> HIDE DEF one
<1> QED BY <1>2, <1>3, <1>4 DEF Clauses

LEMMA CondInitInv == ASSUME Query!ConditionsAssumption, Query!ConditionsInit PROVE CondIInv
<1>1. IsFiniteSet(asked) /\ Cardinality(asked) = 0
  BY FS_EmptySet DEF Query!ConditionsInit
<1>2. \A n \in Nat \ {0} : 0 <= n
  OBVIOUS
<1> QED BY <1>1, <1>2, QueryCounts DEF Query!ConditionsInit, CondIInv, Query!TypeOK, Exactly, Query!SameThere, Found, Query!ConditionsAssumption

\* One more clause of what is asked for.
LEMMA OneMore ==
  ASSUME Query!ConditionsAssumption, CondIInv, NEW more, NEW a, Clauses(more),
         ~sent, Cardinality(asked) < MaxApplied,
         where' = where \cup more, asked' = asked \cup {a},
         UNCHANGED <<filterOf, there, sent, dropped>>,
         \A row \in Query!Rows : Found(more, row) <=> Asks(a, row)
  PROVE  CondIInv'
<1>1. IsFiniteSet(asked') /\ Cardinality(asked') <= MaxApplied
  <2>1. /\ IsFiniteSet(asked \cup {a}) /\ Cardinality(asked) \in Nat
        /\ Cardinality(asked \cup {a}) \in {Cardinality(asked), Cardinality(asked) + 1}
    BY FS_AddElement, FS_CardinalityType DEF CondIInv
  <2>2. \A n, m, x \in Nat : n < m /\ x \in {n, n + 1} => x <= m
    OBVIOUS
  <2>3. MaxApplied \in Nat
    BY DEF Query!ConditionsAssumption
  <2>4. Cardinality(asked \cup {a}) \in Nat
    BY <2>1, FS_CardinalityType
  <2> HIDE DEF CondIInv
  <2> QED BY <2>1, <2>2, <2>3, <2>4
<1>2. Exactly'
  <2>1. \A row \in Query!Rows : Found(where \cup more, row) <=> Found(where, row) /\ Found(more, row)
    BY DEF Found
  <2>2. Exactly
    BY DEF CondIInv
  <2>3. \A row \in Query!Rows : Found(where', row) <=> \A x \in asked' : Asks(x, row)
    BY <2>1, <2>2 DEF Exactly
  <2> QED BY <2>3 DEF Exactly, Query!Rows, Found, Asks, Query!Wants, Query!Says
<1>3. Query!TypeOK'
  BY <1>1, QueryCounts DEF CondIInv, Query!TypeOK, Clauses
<1>4. Query!SameThere'
  BY DEF Query!SameThere
<1> QED BY <1>1, <1>2, <1>3, <1>4 DEF CondIInv

LEMMA CondApply ==
  ASSUME Query!ConditionsAssumption, CondIInv, NEW how \in {"AND", "OR", "NOT"}, NEW B \in SUBSET Query!FieldConditions,
         how = "NOT" => \E b \in B : B = {b}, Query!Apply(how, B)
  PROVE  CondIInv'
<1> DEFINE a == [how |-> how, branches |-> B]
           more == IF how = "OR" THEN Query!Clause(how, B) ELSE UNION {Query!Clause(how, {b}) : b \in B}
<1>1. filterOf \in [Columns -> Query!Kinds]
  BY DEF CondIInv, Query!TypeOK
<1>2. \A b \in B : HasFields(b)
  BY AllKnown
<1>3. ASSUME NEW row \in Query!Rows PROVE Found(more, row) <=> Asks(a, row)
  <2>1. CASE how = "OR"
    <3>1. Found(Query!Clause("OR", B), row) <=> Asks(a, row)
      BY <1>1, <1>2, <2>1, OneOr DEF Asks
    <3> QED BY <2>1, <3>1
  <2>2. CASE how = "AND"
    <3>1. \A b \in B : Found(Query!Clause("AND", {b}), row) <=> Query!Wants(b, row)
      BY <1>1, <1>2, OneAnd
    <3>2. Asks(a, row) <=> \A b \in B : Query!Wants(b, row)
      BY <2>2 DEF Asks
    <3>3. Found(UNION {Query!Clause("AND", {b}) : b \in B}, row) <=> \A b \in B : Found(Query!Clause("AND", {b}), row)
      BY DEF Found
    <3> QED BY <2>2, <3>1, <3>2, <3>3
  <2>3. CASE how = "NOT"
    <3>1. \A b \in B : Found(Query!Clause("NOT", {b}), row) <=>
                         (Query!Says(b) => \E col \in DOMAIN b : Query!Wrong(row, col, b[col]))
      BY <1>1, <1>2, OneAnd
    <3>2. Asks(a, row) <=> \A b \in B : Query!Says(b) => \E col \in DOMAIN b : Query!Wrong(row, col, b[col])
      BY <2>3 DEF Asks
    <3>3. Found(UNION {Query!Clause("NOT", {b}) : b \in B}, row) <=> \A b \in B : Found(Query!Clause("NOT", {b}), row)
      BY DEF Found
    <3> QED BY <2>3, <3>1, <3>2, <3>3
  <2> QED BY <2>1, <2>2, <2>3
<1>4. Clauses(more)
  <2>1. \A b : Clauses(Query!Clause(how, {b}))
    BY ClauseTyped
  <2>2. Clauses(UNION {Query!Clause(how, {b}) : b \in B})
    BY <2>1 DEF Clauses
  <2> QED BY <2>2, ClauseTyped
<1>5. /\ ~sent /\ Cardinality(asked) < MaxApplied
      /\ where' = where \cup more /\ asked' = asked \cup {a}
      /\ UNCHANGED <<filterOf, there, sent, dropped>>
  BY QueryCounts DEF Query!Apply
<1> HIDE DEF more, a
<1> QED BY <1>3, <1>4, <1>5, OneMore

LEMMA CondSearch ==
  ASSUME Query!ConditionsAssumption, CondIInv, NEW found, NEW cols \in SUBSET Columns, Query!Search(found, cols)
  PROVE  CondIInv'
<1> DEFINE a == [how |-> "OR", branches |-> {Query!OnOne(col, Query!InList(found)) : col \in cols}]
           more == Query!Searched(found, cols)
<1>1. \A row \in Query!Rows : Found(more, row) <=> Asks(a, row)
  BY OneSearch
<1>2. Clauses(more)
  BY SearchTyped
<1>3. /\ ~sent /\ Cardinality(asked) < MaxApplied
      /\ where' = where \cup more /\ asked' = asked \cup {a}
      /\ UNCHANGED <<filterOf, there, sent, dropped>>
  BY QueryCounts DEF Query!Search
<1> HIDE DEF more, a
<1> QED BY <1>1, <1>2, <1>3, OneMore

LEMMA CondSend ==
  ASSUME Query!ConditionsAssumption, CondIInv, NEW b \in Query!FieldConditions, Query!Send(b)
  PROVE  CondIInv'
<1>1. filterOf \in [Columns -> Query!Kinds] /\ HasFields(b)
  BY AllKnown DEF CondIInv, Query!TypeOK
<1> DEFINE Sent(odd) == [col \in DOMAIN b \ odd |-> b[col]]
           a == [how |-> "AND", branches |-> {b}]
<1>2. PICK odd \in SUBSET DOMAIN b :
        there' = Query!Clause("AND", {Sent(odd)}) /\ dropped' = odd
  BY DEF Query!Send
<1>3. HasFields(Sent(odd))
  BY <1>1 DEF HasFields
<1>4. \A row : Query!Wants(b, row) => Query!Wants(Sent(odd), row)
  BY DEF Query!Wants
<1>5. odd = {} => \A row : Query!Wants(Sent(odd), row) => Query!Wants(b, row)
  BY DEF Query!Wants
<1>6. /\ where' = Query!Clause("AND", {b}) /\ asked' = {a} /\ sent' = TRUE /\ filterOf' = filterOf
  BY DEF Query!Send
<1>7. \A row \in Query!Rows : /\ Found(where', row) <=> Query!Wants(b, row)
                              /\ Found(there', row) <=> Query!Wants(Sent(odd), row)
  <2> HIDE DEF Sent
  <2> QED BY <1>1, <1>2, <1>3, <1>6, OneAnd
<1>8. IsFiniteSet(asked') /\ Cardinality(asked') <= MaxApplied
  <2>1. IsFiniteSet({a}) /\ Cardinality({a}) = 1
    <3> HIDE DEF a
    <3> QED BY FS_Singleton
  <2>2. \A n \in Nat \ {0} : 1 <= n
    OBVIOUS
  <2>3. MaxApplied \in Nat \ {0}
    BY DEF Query!ConditionsAssumption
  <2> HIDE DEF a
  <2> QED BY <1>6, <2>1, <2>2, <2>3
<1>9. \A row : Asks(a, row) <=> Query!Wants(b, row)
  BY DEF Asks
<1>10. Exactly'
  <2>1. \A row \in Query!Rows : Found(where', row) <=> \A x \in asked' : Asks(x, row)
    <3> HIDE DEF a
    <3> QED BY <1>6, <1>7, <1>9
  <2> QED BY <2>1 DEF Exactly, Query!Rows, Found, Asks, Query!Wants, Query!Says
<1>11. Query!TypeOK'
  <2>1. Clauses(where') /\ Clauses(there')
    BY <1>2, <1>6, ClauseTyped
  <2>2. dropped' \subseteq Columns
    BY <1>1, <1>2 DEF HasFields
  <2> HIDE DEF a
  <2> QED BY <1>1, <1>6, <1>8, <2>1, <2>2, QueryCounts DEF Query!TypeOK, Clauses
<1>12. Query!SameThere'
  <2>1. \A row \in Query!Rows : Found(where', row) => Found(there', row)
    BY <1>4, <1>7
  <2>2. dropped' = {} => \A row \in Query!Rows : Found(there', row) => Found(where', row)
    BY <1>2, <1>5, <1>7
  <2> QED BY <2>1, <2>2 DEF Query!SameThere, Query!Selected, Found
<1> QED BY <1>8, <1>10, <1>11, <1>12 DEF CondIInv

LEMMA CondNextInv ==
  ASSUME Query!ConditionsAssumption, CondIInv, [Query!ConditionsNext]_queryVars
  PROVE  CondIInv'
<1>1. CASE UNCHANGED queryVars
  BY <1>1 DEF queryVars, CondIInv, Query!TypeOK, Exactly, Query!SameThere, Query!Selected, Found, Asks, Query!Wants, Query!Says, Query!Rows
<1>2. ASSUME NEW b \in Query!FieldConditions, Query!Apply("AND", {b}) PROVE CondIInv'
  BY <1>2, CondApply
<1>3. ASSUME NEW b \in Query!FieldConditions, Query!Apply("NOT", {b}) PROVE CondIInv'
  BY <1>3, CondApply
<1>4. ASSUME NEW b \in Query!FieldConditions, Query!Send(b) PROVE CondIInv'
  BY <1>4, CondSend
<1>5. ASSUME NEW b \in Query!FieldConditions, NEW c \in Query!FieldConditions, Query!Apply("OR", {b, c}) PROVE CondIInv'
  BY <1>5, CondApply
<1>6. ASSUME NEW b \in Query!FieldConditions, NEW c \in Query!FieldConditions, Query!Apply("AND", {b, c}) PROVE CondIInv'
  BY <1>6, CondApply
<1>7. ASSUME NEW found \in SUBSET ColumnValues, NEW cols \in SUBSET Columns, Query!Search(found, cols)
      PROVE  CondIInv'
  BY <1>7, CondSearch
<1> QED BY <1>1, <1>2, <1>3, <1>4, <1>5, <1>6, <1>7 DEF Query!ConditionsNext

LEMMA CondSafe == CondIInv => Query!ConditionsSound
<1> SUFFICES ASSUME CondIInv PROVE Query!ConditionsSound
  OBVIOUS
<1>1. Query!Selected(where) = {row \in Query!Rows : \A a \in asked : Asks(a, row)}
  BY DEF CondIInv, Exactly, Query!Selected, Found
<1>2. Query!Exact
  BY <1>1 DEF Query!Exact, Asks
<1> QED BY <1>2 DEF CondIInv, Query!ConditionsSound

-----------------------------------------------------------------------------
(* Permission codes (Permissions): a set of codes is known by the leaves   *)
(* and custom codes it lets through.                                       *)

\* A part that is instantiated counts as this module does.
LEMMA CodesCounts ==
  \A S : (Codes!IsFiniteSet(S) <=> IsFiniteSet(S)) /\ Codes!Cardinality(S) = Cardinality(S)
BY DEF Codes!IsFiniteSet, IsFiniteSet, Codes!Cardinality, Cardinality

\* What the gates ask for.
GateCodes == Codes!Leaves \cup Custom

LEMMA OnePart ==
  ASSUME NEW c \in Seq(STRING), Len(c) = 1
  PROVE  Codes!Prefixes(c) = {c}
<1>1. SubSeq(c, 1, 1) = c
  BY SubSeqFull
<1>2. 1 .. Len(c) = {1}
  OBVIOUS
<1> QED BY <1>1, <1>2 DEF Codes!Prefixes

LEMMA PrefixOf ==
  ASSUME NEW c \in Seq(STRING)
  PROVE  \A i \in 1..Len(c) : LET d == SubSeq(c, 1, i)
                              IN  d \in Seq(STRING) /\ Len(d) = i /\ \A j \in 1..i : d[j] = c[j]
<1> TAKE i \in 1..Len(c)
<1>1. \A j \in 1..i : c[j] \in STRING
  BY ElementOfSeq
<1>2. i \in Int /\ 1 \in Int
  OBVIOUS
<1>3. /\ SubSeq(c, 1, i) \in Seq(STRING)
      /\ Len(SubSeq(c, 1, i)) = i
      /\ \A j \in 1..i : SubSeq(c, 1, i)[j] = c[j]
  BY <1>1, <1>2, SubSeqProperties, SMTT(30)
<1> QED BY <1>3

LEMMA Itself ==
  ASSUME NEW c \in Seq(STRING), c # <<>>
  PROVE  c \in Codes!Prefixes(c)
<1>1. Len(c) \in 1..Len(c)
  BY EmptySeq, LenProperties
<1>2. SubSeq(c, 1, Len(c)) = c
  BY SubSeqFull
<1> QED BY <1>1, <1>2 DEF Codes!Prefixes

\* What is above a prefix is above the code.
LEMMA Above ==
  ASSUME NEW c \in Seq(STRING), NEW d \in Codes!Prefixes(c)
  PROVE  /\ d \in Seq(STRING) /\ d # <<>>
         /\ Codes!Prefixes(d) = {b \in Codes!Prefixes(c) : Len(b) <= Len(d)}
<1>1. PICK i \in 1..Len(c) : d = SubSeq(c, 1, i)
  BY DEF Codes!Prefixes
<1>2. d \in Seq(STRING) /\ Len(d) = i
  BY <1>1, PrefixOf
<1>3. \A j \in 1..i : SubSeq(d, 1, j) = SubSeq(c, 1, j) /\ Len(SubSeq(c, 1, j)) = j
  <2> TAKE j \in 1..i
  <2>1. i \in 1..Len(c) /\ 1 \in 1..Len(c) /\ j \in 1..(i - 1 + 1) /\ 1 \in 1..(i - 1 + 1) /\ j \in 1..Len(c)
    OBVIOUS
  <2>2. SubSeq(SubSeq(c, 1, i), 1, j) = SubSeq(c, 1 + 1 - 1, 1 + j - 1)
    BY <2>1, SubSeqOfSubSeq
  <2>3. 1 + 1 - 1 = 1 /\ 1 + j - 1 = j
    OBVIOUS
  <2> QED BY <1>1, <2>1, <2>2, <2>3, PrefixOf
<1>4. Codes!Prefixes(d) = {SubSeq(c, 1, j) : j \in 1..i}
  BY <1>2, <1>3 DEF Codes!Prefixes
<1>5. \A j \in 1..Len(c) : Len(SubSeq(c, 1, j)) = j
  BY PrefixOf
<1>6. Len(c) \in Nat /\ Len(d) = i /\ i \in 1..Len(c)
  BY <1>1, <1>2, LenProperties
<1>7. \A b : b \in Codes!Prefixes(d) <=> b \in Codes!Prefixes(c) /\ Len(b) <= Len(d)
  <2>1. ASSUME NEW b \in Codes!Prefixes(d) PROVE b \in Codes!Prefixes(c) /\ Len(b) <= Len(d)
    BY <1>4, <1>5, <1>6 DEF Codes!Prefixes
  <2>2. ASSUME NEW b \in Codes!Prefixes(c), Len(b) <= Len(d) PROVE b \in Codes!Prefixes(d)
    <3>1. PICK j \in 1..Len(c) : b = SubSeq(c, 1, j)
      BY DEF Codes!Prefixes
    <3>2. j \in 1..i
      BY <1>5, <1>6, <2>2, <3>1
    <3> QED BY <1>4, <3>1, <3>2
  <2> QED BY <2>1, <2>2
<1>8. d # <<>>
  BY <1>2, EmptySeq
<1> QED BY <1>2, <1>7, <1>8

\* Of two codes above a third one is above the other.
LEMMA Comparable ==
  ASSUME NEW c \in Seq(STRING), NEW a \in Codes!Prefixes(c), NEW b \in Codes!Prefixes(c)
  PROVE  a \in Codes!Prefixes(b) \/ b \in Codes!Prefixes(a)
<1>1. Len(a) \in Nat /\ Len(b) \in Nat
  BY Above, LenProperties
<1> QED BY <1>1, Above

\* The catalogue's codes, part by part.
LEMMA Single == \A S : \A x \in S : <<x>> \in Seq(S) /\ Len(<<x>>) = 1
OBVIOUS

LEMMA ModuleIs ==
  ASSUME Codes!CatalogAssumption, NEW m \in Codes!ModuleCodes
  PROVE  m \in Seq(STRING) /\ Len(m) = 1 /\ Codes!Prefixes(m) = {m}
<1>1. PICK n \in Modules : m = <<n>>
  BY DEF Codes!ModuleCodes
<1>2. n \in STRING
  BY DEF Codes!CatalogAssumption
<1>3. m \in Seq(STRING) /\ Len(m) = 1
  BY <1>1, <1>2, Single
<1> QED BY <1>3, OnePart

LEMMA EntityIs ==
  ASSUME Codes!CatalogAssumption, NEW e \in Codes!Entities
  PROVE  /\ e \in Seq(STRING) /\ Len(e) = 2
         /\ SubSeq(e, 1, 1) \in Codes!ModuleCodes /\ Codes!Prefixes(e) = {SubSeq(e, 1, 1), e}
<1>1. e \in Seq(STRING) /\ Len(e) = 2 /\ SubSeq(e, 1, 1) \in Codes!ModuleCodes
  BY DEF Codes!CatalogAssumption
<1>2. SubSeq(e, 1, 2) = e
  BY <1>1, SubSeqFull
<1>3. Codes!Prefixes(e) = {SubSeq(e, 1, i) : i \in {1, 2}}
  <2>1. 1 .. Len(e) = {1, 2}
    BY <1>1
  <2> QED BY <2>1 DEF Codes!Prefixes
<1> QED BY <1>1, <1>2, <1>3

LEMMA Appended ==
  \A S : \A s \in Seq(S) : \A x \in S :
    /\ Append(s, x) \in Seq(S) /\ Len(Append(s, x)) = Len(s) + 1
    /\ \A i \in 1..Len(s) : Append(s, x)[i] = s[i]
BY AppendProperties

LEMMA LeafIs ==
  ASSUME Codes!CatalogAssumption, NEW e \in Codes!Entities, NEW l \in Codes!entityLeaves(e)
  PROVE  /\ l \in Seq(STRING) /\ Len(l) = 3
         /\ Codes!Prefixes(l) = {SubSeq(e, 1, 1), e, l}
<1>1. PICK a \in Actions[e] : l = Append(e, a)
  BY DEF Codes!entityLeaves
<1>2. a \in STRING /\ e \in Seq(STRING) /\ Len(e) = 2
  BY <1>1, EntityIs DEF Codes!CatalogAssumption
<1>3. l \in Seq(STRING) /\ Len(l) = 3 /\ l[1] = e[1] /\ l[2] = e[2]
  <2>1. l \in Seq(STRING) /\ Len(l) = Len(e) + 1 /\ \A i \in 1..Len(e) : l[i] = e[i]
    BY <1>1, <1>2, Appended
  <2> QED BY <1>2, <2>1
<1>4. SubSeq(l, 1, 3) = l
  BY <1>3, SubSeqFull
<1>5. SubSeq(l, 1, 2) = e
  <2>1. 2 \in 1..Len(l) /\ 1 \in 1..2 /\ 2 \in 1..2
    BY <1>3
  <2>2. /\ SubSeq(l, 1, 2) \in Seq(STRING) /\ Len(SubSeq(l, 1, 2)) = 2
        /\ SubSeq(l, 1, 2)[1] = l[1] /\ SubSeq(l, 1, 2)[2] = l[2]
    BY <1>3, <2>1, PrefixOf
  <2> QED BY <1>2, <1>3, <2>2
<1>6. SubSeq(l, 1, 1) = SubSeq(e, 1, 1)
  <2>1. 1 \in 1..Len(l) /\ 1 \in 1..Len(e) /\ 1 \in 1..1
    BY <1>2, <1>3
  <2>2. /\ SubSeq(l, 1, 1) \in Seq(STRING) /\ Len(SubSeq(l, 1, 1)) = 1
        /\ SubSeq(l, 1, 1)[1] = l[1]
    BY <1>3, <2>1, PrefixOf
  <2>3. /\ SubSeq(e, 1, 1) \in Seq(STRING) /\ Len(SubSeq(e, 1, 1)) = 1
        /\ SubSeq(e, 1, 1)[1] = e[1]
    BY <1>2, <2>1, PrefixOf
  <2> QED BY <1>3, <2>2, <2>3
<1>7. 1 .. Len(l) = {1, 2, 3}
  BY <1>3
<1>8. Codes!Prefixes(l) = {SubSeq(e, 1, 1), e, l}
  BY <1>4, <1>5, <1>6, <1>7 DEF Codes!Prefixes
<1> QED BY <1>3, <1>8

LEMMA CustomIs ==
  ASSUME Codes!CatalogAssumption, NEW c \in Custom
  PROVE  c \in Seq(STRING) /\ Len(c) = 1 /\ Codes!Prefixes(c) = {c} /\ c \notin Codes!ModuleCodes
BY OnePart DEF Codes!CatalogAssumption

\* No code is of two kinds.
LEMMA KindsApart ==
  ASSUME Codes!CatalogAssumption
  PROVE  /\ Codes!ModuleCodes \cap Codes!Entities = {} /\ GateCodes \cap (Codes!ModuleCodes \cup Codes!Entities) = {}
         /\ Codes!Leaves \cap Custom = {} /\ Unknown \cap Codes!validPermissionCodes = {}
<1>1. \A l \in Codes!Leaves : Len(l) = 3
  BY LeafIs DEF Codes!Leaves
<1>2. (\A m \in Codes!ModuleCodes : Len(m) = 1) /\ (\A e \in Codes!Entities : Len(e) = 2)
  BY ModuleIs, EntityIs
<1>3. \A c \in Custom : Len(c) = 1 /\ c \notin Codes!ModuleCodes
  BY CustomIs
<1>4. Unknown \cap Codes!validPermissionCodes = {}
  BY DEF Codes!CatalogAssumption
<1> QED BY <1>1, <1>2, <1>3, <1>4 DEF GateCodes

LEMMA CodesAre ==
  ASSUME Codes!CatalogAssumption, NEW c \in Codes!AllCodes
  PROVE  c \in Seq(STRING) /\ c # <<>>
<1>1. CASE c \in Unknown
  BY <1>1 DEF Codes!CatalogAssumption
<1>2. CASE c \in Codes!Leaves
  BY <1>2, LeafIs, EmptySeq DEF Codes!Leaves
<1>3. CASE c \in Codes!ModuleCodes \cup Codes!Entities \cup Custom
  BY <1>3, ModuleIs, EntityIs, CustomIs, EmptySeq
<1> QED BY <1>1, <1>2, <1>3 DEF Codes!AllCodes, Codes!validPermissionCodes

\* What is above a code of the catalogues is in them, and above a code that gates ask for
\* no other such; of unknown codes it is known that nothing of the kind is above them.
LEMMA AboveGateCodes ==
  ASSUME Codes!CatalogAssumption
  PROVE  /\ \A c \in Codes!validPermissionCodes : Codes!Prefixes(c) \subseteq Codes!validPermissionCodes
         /\ \A c \in GateCodes : Codes!Prefixes(c) \cap GateCodes = {c}
         /\ \A c \in Unknown : Codes!Prefixes(c) \cap GateCodes = {}
         /\ \A c \in Codes!ModuleCodes \cup Codes!Entities : Codes!Prefixes(c) \cap GateCodes = {}
<1>1. ASSUME NEW e \in Codes!Entities, NEW l \in Codes!entityLeaves(e)
      PROVE  Codes!Prefixes(l) \subseteq Codes!validPermissionCodes /\ Codes!Prefixes(l) \cap GateCodes = {l}
  <2>1. Codes!Prefixes(l) = {SubSeq(e, 1, 1), e, l} /\ SubSeq(e, 1, 1) \in Codes!ModuleCodes
    BY <1>1, LeafIs, EntityIs
  <2>2. l \in Codes!Leaves
    BY <1>1 DEF Codes!Leaves
  <2> QED BY <2>1, <2>2, KindsApart DEF GateCodes, Codes!validPermissionCodes
<1>2. ASSUME NEW c \in Custom
      PROVE  Codes!Prefixes(c) \subseteq Codes!validPermissionCodes /\ Codes!Prefixes(c) \cap GateCodes = {c}
  BY CustomIs DEF GateCodes, Codes!validPermissionCodes
<1>3. ASSUME NEW c \in Codes!ModuleCodes \cup Codes!Entities
      PROVE  Codes!Prefixes(c) \subseteq Codes!validPermissionCodes /\ Codes!Prefixes(c) \cap GateCodes = {}
  <2>1. Codes!Prefixes(c) \subseteq Codes!ModuleCodes \cup Codes!Entities
    <3>1. CASE c \in Codes!ModuleCodes
      BY <3>1, ModuleIs
    <3>2. CASE c \in Codes!Entities
      BY <3>2, EntityIs
    <3> QED BY <3>1, <3>2
  <2> QED BY <2>1, KindsApart DEF Codes!validPermissionCodes
<1>4. \A c \in Unknown : Codes!Prefixes(c) \cap GateCodes = {}
  BY DEF Codes!CatalogAssumption, Codes!Prefixes, GateCodes
<1> QED BY <1>1, <1>2, <1>3, <1>4 DEF GateCodes, Codes!Leaves, Codes!validPermissionCodes

-----------------------------------------------------------------------------
\* What a set of codes lets through.
Cover(codes) == {l \in GateCodes : Codes!HasPermission(codes, l)}

LEMMA ExpansionIs ==
  ASSUME Codes!CatalogAssumption, NEW c \in Codes!AllCodes
  PROVE  /\ \A l \in GateCodes : l \in Codes!Expansion(c) <=> c \in Codes!Prefixes(l)
         /\ Codes!Expansion(c) \subseteq GateCodes \cup Unknown
         /\ Codes!Expansion(c) \cap Unknown = {c} \cap Unknown
<1>1. CASE c \in Codes!ModuleCodes
  <2>1. Codes!Expansion(c) = UNION {Codes!entityLeaves(e) : e \in Codes!moduleEntities(c)}
    BY <1>1 DEF Codes!Expansion
  <2>2. Codes!Expansion(c) \subseteq Codes!Leaves
    BY <2>1 DEF Codes!Leaves, Codes!moduleEntities
  <2>3. ASSUME NEW l \in Codes!Leaves PROVE l \in Codes!Expansion(c) <=> c \in Codes!Prefixes(l)
    <3>1. ASSUME NEW e \in Codes!Entities, l \in Codes!entityLeaves(e)
          PROVE  e \in Codes!moduleEntities(c) <=> c \in Codes!Prefixes(l)
      <4>1. Codes!Prefixes(l) = {SubSeq(e, 1, 1), e, l}
        BY <3>1, LeafIs
      <4>2. c # e /\ c # l
        BY <1>1, KindsApart DEF GateCodes
      <4> QED BY <4>1, <4>2 DEF Codes!moduleEntities
    <3>2. ASSUME NEW e \in Codes!moduleEntities(c), l \in Codes!entityLeaves(e) PROVE c \in Codes!Prefixes(l)
      BY <3>1, <3>2 DEF Codes!moduleEntities
    <3>3. PICK e \in Codes!Entities : l \in Codes!entityLeaves(e)
      BY DEF Codes!Leaves
    <3> QED BY <2>1, <3>1, <3>2, <3>3
  <2>4. ASSUME NEW l \in Custom PROVE l \notin Codes!Expansion(c) /\ c \notin Codes!Prefixes(l)
    <3>1. Codes!Prefixes(l) = {l} /\ l \notin Codes!ModuleCodes
      BY CustomIs
    <3> QED BY <1>1, <2>2, <3>1, KindsApart
  <2>5. c \notin Unknown /\ Codes!Leaves \cap Unknown = {}
    BY <1>1, KindsApart DEF Codes!validPermissionCodes
  <2> QED BY <2>2, <2>3, <2>4, <2>5 DEF GateCodes
<1>2. CASE c \in Codes!Entities
  <2>1. Codes!Expansion(c) = Codes!entityLeaves(c)
    BY <1>2, KindsApart DEF Codes!Expansion
  <2>2. Codes!Expansion(c) \subseteq Codes!Leaves
    BY <1>2, <2>1 DEF Codes!Leaves
  <2>3. ASSUME NEW l \in Codes!Leaves PROVE l \in Codes!Expansion(c) <=> c \in Codes!Prefixes(l)
    <3>1. ASSUME NEW e \in Codes!Entities, l \in Codes!entityLeaves(e)
          PROVE  e = c <=> c \in Codes!Prefixes(l)
      <4>1. Codes!Prefixes(l) = {SubSeq(e, 1, 1), e, l} /\ SubSeq(e, 1, 1) \in Codes!ModuleCodes
        BY <3>1, LeafIs, EntityIs
      <4>2. c \notin Codes!ModuleCodes /\ c # l
        BY <1>2, KindsApart DEF GateCodes
      <4> QED BY <4>1, <4>2
    <3>2. PICK e \in Codes!Entities : l \in Codes!entityLeaves(e)
      BY DEF Codes!Leaves
    <3> QED BY <1>2, <2>1, <3>1, <3>2
  <2>4. ASSUME NEW l \in Custom PROVE l \notin Codes!Expansion(c) /\ c \notin Codes!Prefixes(l)
    <3>1. Codes!Prefixes(l) = {l}
      BY CustomIs
    <3>2. l \notin Codes!Leaves /\ l \notin Codes!Entities
      BY KindsApart DEF GateCodes
    <3> QED BY <1>2, <2>2, <3>1, <3>2
  <2>5. c \notin Unknown /\ Codes!Leaves \cap Unknown = {}
    BY <1>2, KindsApart DEF Codes!validPermissionCodes
  <2> QED BY <2>2, <2>3, <2>4, <2>5 DEF GateCodes
<1>3. CASE c \in GateCodes
  <2>1. Codes!Expansion(c) = {c}
    BY <1>3, KindsApart DEF Codes!Expansion
  <2>2. \A l \in GateCodes : c \in Codes!Prefixes(l) <=> l = c
    BY <1>3, AboveGateCodes
  <2> QED BY <1>3, <2>1, <2>2
<1>4. CASE c \in Unknown
  <2>1. c \notin Codes!validPermissionCodes /\ GateCodes \subseteq Codes!validPermissionCodes
    BY <1>4, KindsApart DEF GateCodes, Codes!validPermissionCodes
  <2>2. Codes!Expansion(c) = {c}
    BY <2>1 DEF Codes!Expansion, Codes!validPermissionCodes
  <2>3. \A l \in GateCodes : c \notin Codes!Prefixes(l)
    BY <2>1, AboveGateCodes
  <2> QED BY <1>4, <2>1, <2>2, <2>3
<1> QED BY <1>1, <1>2, <1>3, <1>4 DEF Codes!AllCodes, Codes!validPermissionCodes, GateCodes

\* Expanding is letting through, but for the unknown codes.
LEMMA Expanded ==
  ASSUME Codes!CatalogAssumption, NEW codes \in SUBSET Codes!AllCodes
  PROVE  Codes!ExpandPermissions(codes) = Cover(codes) \cup (codes \cap Unknown)
<1>1. ASSUME NEW l \in GateCodes PROVE l \in Codes!ExpandPermissions(codes) <=> l \in Cover(codes)
  BY ExpansionIs DEF Codes!ExpandPermissions, Cover, Codes!HasPermission
<1>2. \A u \in Unknown : u \in Codes!ExpandPermissions(codes) <=> u \in codes
  BY ExpansionIs DEF Codes!ExpandPermissions
<1>3. Codes!ExpandPermissions(codes) \subseteq GateCodes \cup Unknown
  BY ExpansionIs DEF Codes!ExpandPermissions
<1>4. Cover(codes) \subseteq GateCodes
  BY DEF Cover
<1> QED BY <1>1, <1>2, <1>3, <1>4

\* Leaves, custom and unknown codes let themselves through only.
LEMMA LeavesCover ==
  ASSUME Codes!CatalogAssumption, NEW codes \in SUBSET (GateCodes \cup Unknown)
  PROVE  Cover(codes) = codes \cap GateCodes
<1>1. ASSUME NEW l \in GateCodes PROVE Codes!Prefixes(l) \cap codes # {} <=> l \in codes
  <2>1. Codes!Prefixes(l) \cap GateCodes = {l} /\ Codes!Prefixes(l) \cap Unknown = {}
    BY AboveGateCodes, KindsApart DEF GateCodes, Codes!validPermissionCodes
  <2> QED BY <2>1
<1> QED BY <1>1 DEF Cover, Codes!HasPermission

-----------------------------------------------------------------------------
\* The codes that stand for complete modules and entities.
LEMMA Complete ==
  ASSUME NEW codes, NEW e \in Codes!Entities
  PROVE  e \in Codes!completeEntities(codes) <=> Codes!entityLeaves(e) \subseteq Cover(codes)
<1>1. Codes!entityLeaves(e) \subseteq GateCodes
  BY DEF GateCodes, Codes!Leaves
<1> QED BY <1>1 DEF Codes!completeEntities, Cover, Codes!impliedBy, Codes!HasPermission

LEMMA SameRepresentatives ==
  ASSUME NEW codes, NEW others, Cover(codes) = Cover(others)
  PROVE  Codes!Representatives(codes) = Codes!Representatives(others)
<1>1. Codes!completeEntities(codes) = Codes!completeEntities(others)
  <2>1. \A e \in Codes!Entities : e \in Codes!completeEntities(codes) <=> e \in Codes!completeEntities(others)
    BY Complete
  <2> QED BY <2>1 DEF Codes!completeEntities
<1> QED BY <1>1 DEF Codes!Representatives, Codes!completeModules

LEMMA Represent ==
  ASSUME Codes!CatalogAssumption, NEW codes \in SUBSET Codes!AllCodes
  PROVE  LET out == Codes!Representatives(codes)
         IN  /\ out \subseteq Codes!ModuleCodes \cup Codes!Entities
             /\ \A e \in Codes!completeEntities(codes) : Codes!impliedBy(e, out)
             /\ \A c \in codes : c \in Codes!ModuleCodes \cup Codes!Entities => Codes!impliedBy(c, out)
             /\ Cover(out) \subseteq Cover(codes)
             /\ \A c, d \in out : d \in Codes!Prefixes(c) => d = c
<1> DEFINE out == Codes!Representatives(codes)
<1>1. /\ Codes!completeEntities(codes) \subseteq Codes!Entities
      /\ Codes!completeModules(codes) \subseteq Codes!ModuleCodes
  BY DEF Codes!completeEntities, Codes!completeModules
<1>2. out \subseteq Codes!ModuleCodes \cup Codes!Entities
  BY <1>1 DEF Codes!Representatives
<1>3. ASSUME NEW e \in Codes!completeEntities(codes) PROVE Codes!impliedBy(e, out)
  <2>1. Codes!Prefixes(e) = {SubSeq(e, 1, 1), e}
    BY <1>1, EntityIs
  <2>2. SubSeq(e, 1, 1) \in out \/ e \in out
    BY DEF Codes!Representatives
  <2> QED BY <2>1, <2>2 DEF Codes!impliedBy
<1>4. ASSUME NEW c \in codes, NEW e \in Codes!Entities, c \in Codes!Prefixes(e) PROVE e \in Codes!completeEntities(codes)
  <2>1. ASSUME NEW l \in Codes!entityLeaves(e) PROVE Codes!impliedBy(l, codes)
    <3>1. Codes!Prefixes(e) = {SubSeq(e, 1, 1), e} /\ Codes!Prefixes(l) = {SubSeq(e, 1, 1), e, l}
      BY EntityIs, LeafIs
    <3> QED BY <1>4, <3>1 DEF Codes!impliedBy
  <2> QED BY <2>1 DEF Codes!completeEntities
<1>5. ASSUME NEW c \in codes, c \in Codes!ModuleCodes \cup Codes!Entities PROVE Codes!impliedBy(c, out)
  <2>1. CASE c \in Codes!Entities
    <3>1. c \in Codes!Prefixes(c)
      BY <2>1, EntityIs
    <3> QED BY <1>3, <1>4, <2>1, <3>1
  <2>2. CASE c \in Codes!ModuleCodes
    <3>1. \A e \in Codes!moduleEntities(c) : e \in Codes!Entities /\ c \in Codes!Prefixes(e)
      BY EntityIs DEF Codes!moduleEntities
    <3>2. c \in Codes!completeModules(codes)
      BY <1>4, <2>2, <3>1 DEF Codes!completeModules
    <3>3. Codes!Prefixes(c) = {c}
      BY <2>2, ModuleIs
    <3> QED BY <3>2, <3>3 DEF Codes!impliedBy, Codes!Representatives
  <2> QED BY <1>5, <2>1, <2>2
<1>6. ASSUME NEW l \in GateCodes, NEW q \in out, q \in Codes!Prefixes(l) PROVE l \in Cover(codes)
  <2>1. l \in Codes!Leaves
    <3>1. ASSUME l \in Custom PROVE FALSE
      <4>1. q = l
        BY <1>6, <3>1, CustomIs
      <4> QED BY <1>2, <4>1, KindsApart
    <3> QED BY <3>1 DEF GateCodes
  <2>2. PICK e \in Codes!Entities : l \in Codes!entityLeaves(e)
    BY <2>1 DEF Codes!Leaves
  <2>3. Codes!Prefixes(l) = {SubSeq(e, 1, 1), e, l}
    BY <2>2, LeafIs
  <2>4. e \in Codes!completeEntities(codes)
    <3>1. q # l
      BY <1>2, <1>6, KindsApart
    <3>2. CASE q = e
      <4>1. e \notin Codes!ModuleCodes
        BY KindsApart
      <4> QED BY <1>1, <3>2, <4>1 DEF Codes!Representatives
    <3>3. CASE q = SubSeq(e, 1, 1)
      <4>1. q \in Codes!ModuleCodes
        BY <3>3, EntityIs
      <4>2. q \in Codes!completeModules(codes)
        BY <1>1, <4>1, KindsApart DEF Codes!Representatives
      <4>3. e \in Codes!moduleEntities(q)
        BY <3>3 DEF Codes!moduleEntities
      <4> QED BY <4>2, <4>3 DEF Codes!completeModules
    <3> QED BY <1>6, <2>3, <3>1, <3>2, <3>3
  <2> QED BY <2>2, <2>4, Complete
<1>7. ASSUME NEW c \in out, NEW d \in out, d \in Codes!Prefixes(c) PROVE d = c
  <2>1. CASE c \in Codes!ModuleCodes
    BY <1>7, <2>1, ModuleIs
  <2>2. CASE c \in Codes!Entities
    <3>1. Codes!Prefixes(c) = {SubSeq(c, 1, 1), c} /\ SubSeq(c, 1, 1) \in Codes!ModuleCodes
      BY <2>2, EntityIs
    <3>2. c \notin Codes!ModuleCodes
      BY <2>2, KindsApart
    <3>3. SubSeq(c, 1, 1) \notin out
      BY <1>1, <2>2, <3>1, <3>2, KindsApart DEF Codes!Representatives
    <3> QED BY <1>7, <3>1, <3>3
  <2> QED BY <1>2, <2>1, <2>2
<1> HIDE DEF out
<1>8. Cover(out) \subseteq Cover(codes)
  BY <1>6 DEF Cover, Codes!HasPermission
<1>9. \A c, d \in out : d \in Codes!Prefixes(c) => d = c
  BY <1>7
<1> QED BY <1>2, <1>3, <1>5, <1>8, <1>9 DEF out

\* What rolling up leaves of a set of codes.
LEMMA RolledUp ==
  ASSUME Codes!CatalogAssumption, NEW codes \in SUBSET Codes!AllCodes
  PROVE  LET out == Codes!Representatives(codes)
         IN  /\ Codes!RollupPermissions(codes) = out \cup {c \in codes : ~Codes!impliedBy(c, out)}
             /\ out \subseteq Codes!RollupPermissions(codes)
             /\ Codes!RollupPermissions(codes) \subseteq Codes!AllCodes
             /\ Codes!RollupPermissions(codes) \ out \subseteq codes \ (Codes!ModuleCodes \cup Codes!Entities)
BY Represent DEF Codes!RollupPermissions, Codes!AllCodes, Codes!validPermissionCodes

\* Nothing that is let through is lost.
LEMMA NothingDropped ==
  ASSUME Codes!CatalogAssumption, NEW codes \in SUBSET Codes!AllCodes, NEW c \in Codes!AllCodes,
         Codes!HasPermission(codes, c)
  PROVE  Codes!HasPermission(Codes!RollupPermissions(codes), c)
<1> DEFINE out == Codes!Representatives(codes)
<1>1. PICK p \in codes : p \in Codes!Prefixes(c)
  BY DEF Codes!HasPermission
<1>2. CASE Codes!impliedBy(p, out)
  <2>1. PICK q \in out : q \in Codes!Prefixes(p)
    BY <1>2 DEF Codes!impliedBy
  <2>2. q \in Codes!Prefixes(c)
    BY <1>1, <2>1, CodesAre, Above
  <2> QED BY <2>1, <2>2, RolledUp DEF Codes!HasPermission
<1>3. CASE ~Codes!impliedBy(p, out)
  BY <1>1, <1>3, RolledUp DEF Codes!HasPermission
<1> QED BY <1>2, <1>3

LEMMA SameCover ==
  ASSUME Codes!CatalogAssumption, NEW codes \in SUBSET Codes!AllCodes
  PROVE  Cover(Codes!RollupPermissions(codes)) = Cover(codes)
<1> DEFINE out == Codes!Representatives(codes)
<1>1. Cover(codes) \subseteq Cover(Codes!RollupPermissions(codes))
  BY NothingDropped DEF Cover, GateCodes, Codes!AllCodes, Codes!validPermissionCodes
<1>2. Cover(out) \subseteq Cover(codes)
  BY Represent
<1>3. Codes!RollupPermissions(codes) \subseteq out \cup codes
  BY RolledUp
<1>4. \A l : Codes!HasPermission(Codes!RollupPermissions(codes), l) => Codes!HasPermission(out, l) \/ Codes!HasPermission(codes, l)
  BY <1>3 DEF Codes!HasPermission
<1> QED BY <1>1, <1>2, <1>4 DEF Cover

\* Of codes of the catalogues rolling up depends on what they let through only.
LEMMA RollupOfCover ==
  ASSUME Codes!CatalogAssumption, NEW codes \in SUBSET Codes!validPermissionCodes
  PROVE  Codes!RollupPermissions(codes) = Codes!RollupPermissions(Cover(codes))
<1> DEFINE out == Codes!Representatives(codes)
<1>1. codes \in SUBSET Codes!AllCodes /\ Cover(codes) \in SUBSET Codes!AllCodes
  BY DEF Cover, GateCodes, Codes!AllCodes, Codes!validPermissionCodes
<1>2. Cover(Cover(codes)) = Cover(codes)
  BY LeavesCover DEF Cover
<1>3. Codes!Representatives(Cover(codes)) = out
  BY <1>2, SameRepresentatives
<1>4. ASSUME NEW c, ~Codes!impliedBy(c, out)
      PROVE  c \in codes <=> c \in Cover(codes)
  <2>1. ASSUME c \in codes PROVE c \in Cover(codes)
    <3>1. c \in GateCodes
      BY <1>1, <1>4, <2>1, Represent DEF GateCodes, Codes!validPermissionCodes
    <3>2. c \in Codes!Prefixes(c)
      BY <3>1, AboveGateCodes
    <3> QED BY <2>1, <3>1, <3>2 DEF Cover, Codes!HasPermission
  <2>2. ASSUME c \in Cover(codes) PROVE c \in codes
    <3>1. PICK p \in codes : p \in Codes!Prefixes(c)
      BY <2>2 DEF Cover, Codes!HasPermission
    <3>2. c \in GateCodes /\ c \in Codes!AllCodes
      BY <1>1, <2>2 DEF Cover
    <3>3. ~Codes!impliedBy(p, out)
      <4>1. ASSUME NEW q \in out, q \in Codes!Prefixes(p) PROVE q \in Codes!Prefixes(c)
        BY <3>1, <3>2, <4>1, CodesAre, Above
      <4> QED BY <1>4, <4>1 DEF Codes!impliedBy
    <3>4. p \in GateCodes
      BY <1>1, <3>1, <3>3, Represent DEF GateCodes, Codes!validPermissionCodes
    <3>5. p = c
      BY <3>1, <3>2, <3>4, AboveGateCodes
    <3> QED BY <3>1, <3>5
  <2> QED BY <2>1, <2>2
<1>5. {c \in codes : ~Codes!impliedBy(c, out)} = {c \in Cover(codes) : ~Codes!impliedBy(c, out)}
  BY <1>4
<1> QED BY <1>3, <1>5 DEF Codes!RollupPermissions

\* No code of a set is below another one.
Irredundant(codes) == \A c, d \in codes : d \in Codes!Prefixes(c) => d = c

LEMMA IrredundantIs == \A codes : Irredundant(codes) <=> \A c \in codes : ~Codes!hasAncestorIn(c, codes)
BY DEF Irredundant, Codes!hasAncestorIn

LEMMA RollupIrredundant ==
  ASSUME Codes!CatalogAssumption, NEW codes \in SUBSET Codes!AllCodes, Irredundant(codes \cap Unknown)
  PROVE  Irredundant(Codes!RollupPermissions(codes))
<1> DEFINE out == Codes!Representatives(codes)
<1> DEFINE all == Codes!RollupPermissions(codes)
<1> SUFFICES ASSUME NEW c \in all, NEW d \in all, d \in Codes!Prefixes(c), d # c
             PROVE  FALSE
  BY DEF Irredundant
<1>1. /\ out \subseteq Codes!ModuleCodes \cup Codes!Entities
      /\ \A x \in all : x \in out \/ (x \in codes /\ x \in GateCodes \cup Unknown /\ ~Codes!impliedBy(x, out))
  BY Represent, RolledUp DEF Codes!RollupPermissions, GateCodes, Codes!AllCodes, Codes!validPermissionCodes
<1>2. CASE c \in out
  <2>1. d \in out
    <3>1. ASSUME d \in GateCodes \cup Unknown PROVE FALSE
      BY <1>1, <1>2, <3>1, AboveGateCodes, KindsApart DEF Codes!validPermissionCodes
    <3> QED BY <1>1, <3>1
  <2> QED BY <1>2, <2>1, Represent
<1>3. CASE c \notin out
  <2>1. d \notin out
    BY <1>1, <1>3 DEF Codes!impliedBy
  <2>2. CASE c \in GateCodes
    BY <1>1, <2>1, <2>2, AboveGateCodes, KindsApart DEF GateCodes, Codes!validPermissionCodes
  <2>3. CASE c \in Unknown
    <3>1. d \in Unknown
      BY <1>1, <2>1, <2>3, AboveGateCodes
    <3> QED BY <1>1, <1>3, <2>1, <2>3, <3>1 DEF Irredundant
  <2> QED BY <1>1, <1>3, <2>2, <2>3
<1> QED BY <1>2, <1>3

-----------------------------------------------------------------------------
\* Dropping what is implied loses nothing either.
LEMMA Compacted ==
  ASSUME Codes!CatalogAssumption, NEW codes \in SUBSET Codes!AllCodes
  PROVE  /\ Codes!CompactHierarchy(codes) \subseteq codes
         /\ Irredundant(Codes!CompactHierarchy(codes))
         /\ Cover(Codes!CompactHierarchy(codes)) = Cover(codes)
<1> DEFINE few == Codes!CompactHierarchy(codes)
<1>1. few \subseteq codes /\ Irredundant(few)
  BY DEF Codes!CompactHierarchy, Irredundant, Codes!hasAncestorIn
<1>2. ASSUME NEW l \in GateCodes, Codes!HasPermission(codes, l) PROVE Codes!HasPermission(few, l)
  <2>1. CASE l \in Custom
    <3>1. Codes!Prefixes(l) = {l}
      BY <2>1, CustomIs
    <3> QED BY <1>2, <3>1 DEF Codes!HasPermission, Codes!CompactHierarchy, Codes!hasAncestorIn
  <2>2. CASE l \in Codes!Leaves
    <3>1. PICK e \in Codes!Entities : l \in Codes!entityLeaves(e)
      BY <2>2 DEF Codes!Leaves
    <3> DEFINE m == SubSeq(e, 1, 1)
    <3>2. Codes!Prefixes(l) = {m, e, l} /\ Codes!Prefixes(e) = {m, e} /\ Codes!Prefixes(m) = {m}
      BY <3>1, LeafIs, EntityIs, ModuleIs
    <3> HIDE DEF m
    <3>3. CASE m \in codes
      BY <3>2, <3>3 DEF Codes!HasPermission, Codes!CompactHierarchy, Codes!hasAncestorIn
    <3>4. CASE m \notin codes /\ e \in codes
      BY <3>2, <3>4 DEF Codes!HasPermission, Codes!CompactHierarchy, Codes!hasAncestorIn
    <3>5. CASE m \notin codes /\ e \notin codes
      BY <1>2, <3>2, <3>5 DEF Codes!HasPermission, Codes!CompactHierarchy, Codes!hasAncestorIn
    <3> QED BY <3>3, <3>4, <3>5
  <2> QED BY <2>1, <2>2 DEF GateCodes
<1>3. \A l : Codes!HasPermission(few, l) => Codes!HasPermission(codes, l)
  BY <1>1 DEF Codes!HasPermission
<1> QED BY <1>1, <1>2, <1>3 DEF Cover

-----------------------------------------------------------------------------
\* The history is what the stored codes let through, and none of them is redundant.
CodesIInv ==
  /\ stored \subseteq Codes!AllCodes
  /\ granted = Cover(stored)
  /\ Irredundant(stored)

LEMMA CodesInitInv == Codes!CatalogAssumption /\ Codes!Init => CodesIInv
<1> SUFFICES ASSUME Codes!CatalogAssumption, Codes!Init PROVE CodesIInv
  OBVIOUS
<1>1. PICK base \in {{}, Codes!ModuleCodes} : \E extra \in SUBSET (Custom \cup Unknown) :
        stored = Codes!CompactHierarchy(base \cup extra)
  BY DEF Codes!Init
<1>2. PICK extra \in SUBSET (Custom \cup Unknown) : stored = Codes!CompactHierarchy(base \cup extra)
  BY <1>1
<1>3. base \cup extra \in SUBSET Codes!AllCodes
  BY <1>1, <1>2 DEF Codes!AllCodes, Codes!validPermissionCodes
<1>4. stored \subseteq Codes!AllCodes /\ Irredundant(stored)
  BY <1>2, <1>3, Compacted
<1>5. granted = Cover(stored)
  <2>1. granted = (Cover(stored) \cup (stored \cap Unknown)) \ Unknown
    BY <1>4, Expanded DEF Codes!Init
  <2>2. Cover(stored) \cap Unknown = {}
    BY KindsApart DEF Cover, GateCodes, Codes!validPermissionCodes
  <2> QED BY <2>1, <2>2
<1> QED BY <1>4, <1>5 DEF CodesIInv

\* A code's own grants.
LEMMA ValidExpansion ==
  ASSUME Codes!CatalogAssumption, NEW c \in Codes!validPermissionCodes
  PROVE  Codes!ExpandPermissions({c}) = Cover({c})
<1>1. {c} \in SUBSET Codes!AllCodes /\ {c} \cap Unknown = {}
  BY KindsApart DEF Codes!AllCodes
<1> QED BY <1>1, Expanded

LEMMA AssignInv ==
  ASSUME Codes!CatalogAssumption, CodesIInv, NEW c \in Codes!validPermissionCodes, Codes!Assign(c)
  PROVE  CodesIInv'
<1> DEFINE codes == stored \cup {c}
<1>1. codes \in SUBSET Codes!AllCodes
  BY DEF CodesIInv, Codes!AllCodes
<1>2. Cover(codes) = Cover(stored) \cup Cover({c})
  BY DEF Cover, Codes!HasPermission
<1>3. granted' = Cover(codes)
  BY <1>2, ValidExpansion DEF Codes!Assign, CodesIInv
<1>4. Irredundant(codes \cap Unknown)
  <2>1. codes \cap Unknown = stored \cap Unknown
    BY KindsApart
  <2> QED BY <2>1 DEF CodesIInv, Irredundant
<1>5. stored' = Codes!CompactHierarchy(codes) \/ stored' = Codes!RollupPermissions(codes)
  BY DEF Codes!Assign
<1> HIDE DEF codes
<1>6. stored' \subseteq Codes!AllCodes /\ Irredundant(stored') /\ Cover(stored') = Cover(codes)
  <2>1. CASE stored' = Codes!CompactHierarchy(codes)
    BY <1>1, <2>1, Compacted
  <2>2. CASE stored' = Codes!RollupPermissions(codes)
    BY <1>1, <1>4, <2>2, RolledUp, SameCover, RollupIrredundant
  <2> QED BY <1>5, <2>1, <2>2
<1> QED BY <1>3, <1>6 DEF CodesIInv, Irredundant, Cover

LEMMA UnassignInv ==
  ASSUME Codes!CatalogAssumption, CodesIInv, NEW c \in Codes!validPermissionCodes, Codes!Unassign(c)
  PROVE  CodesIInv'
<1> DEFINE codes == Codes!ExpandPermissions(stored) \ Codes!ExpandPermissions({c})
<1>1. codes = (Cover(stored) \ Cover({c})) \cup (stored \cap Unknown)
  <2>1. Codes!ExpandPermissions(stored) = Cover(stored) \cup (stored \cap Unknown)
    BY Expanded DEF CodesIInv
  <2>2. Cover({c}) \cap Unknown = {}
    BY KindsApart DEF Cover, GateCodes, Codes!validPermissionCodes
  <2> QED BY <2>1, <2>2, ValidExpansion
<1>2. codes \in SUBSET (GateCodes \cup Unknown)
  BY <1>1 DEF Cover
<1>3. codes \in SUBSET Codes!AllCodes
  BY <1>2 DEF GateCodes, Codes!AllCodes, Codes!validPermissionCodes
<1>4. Cover(codes) = Cover(stored) \ Cover({c})
  <2>1. Cover(codes) = codes \cap GateCodes
    BY <1>2, LeavesCover
  <2>2. GateCodes \cap Unknown = {} /\ Cover(stored) \subseteq GateCodes
    BY KindsApart DEF Cover, GateCodes, Codes!validPermissionCodes
  <2> QED BY <1>1, <2>1, <2>2
<1>5. Irredundant(codes \cap Unknown)
  <2>1. codes \cap Unknown \subseteq stored
    BY <1>1, KindsApart DEF Cover, GateCodes, Codes!validPermissionCodes
  <2> QED BY <2>1 DEF CodesIInv, Irredundant
<1>6. granted' = Cover(stored) \ Cover({c}) /\ stored' = Codes!RollupPermissions(codes)
  BY ValidExpansion DEF Codes!Unassign, CodesIInv
<1> HIDE DEF codes
<1>7. stored' \subseteq Codes!AllCodes /\ Irredundant(stored') /\ Cover(stored') = Cover(codes)
  BY <1>3, <1>5, <1>6, RolledUp, SameCover, RollupIrredundant
<1> QED BY <1>4, <1>6, <1>7 DEF CodesIInv, Irredundant, Cover

LEMMA CodesNextInv ==
  ASSUME Codes!CatalogAssumption, CodesIInv, [Codes!Next]_codesVars
  PROVE  CodesIInv'
<1>1. CASE UNCHANGED codesVars
  BY <1>1 DEF codesVars, CodesIInv, Irredundant, Cover
<1> QED BY <1>1, AssignInv, UnassignInv DEF Codes!Next

-----------------------------------------------------------------------------
\* No set of valid codes that grants the same is smaller: each rolled-up code is above a
\* code of the set, and no two of them are above the same.
LEMMA FewestCodes ==
  ASSUME Codes!CatalogAssumption, NEW leaves \in SUBSET GateCodes,
         NEW codes \in SUBSET Codes!validPermissionCodes, Codes!ExpandPermissions(codes) = leaves
  PROVE  Cardinality(Codes!RollupPermissions(leaves)) <= Cardinality(codes)
<1> DEFINE few == Codes!RollupPermissions(leaves)
<1> DEFINE out == Codes!Representatives(leaves)
<1>1. leaves \in SUBSET Codes!AllCodes /\ codes \in SUBSET Codes!AllCodes /\ leaves \in SUBSET (GateCodes \cup Unknown)
  BY DEF GateCodes, Codes!AllCodes, Codes!validPermissionCodes
<1>2. Cover(codes) = leaves /\ Cover(leaves) = leaves
  <2>1. codes \cap Unknown = {}
    BY KindsApart
  <2>2. leaves \cap GateCodes = leaves
    OBVIOUS
  <2> QED BY <1>1, <2>1, <2>2, Expanded, LeavesCover
<1>3. few = Codes!RollupPermissions(codes) /\ out = Codes!Representatives(codes)
  BY <1>2, RollupOfCover, SameRepresentatives
<1>4. Irredundant(few)
  <2>1. leaves \cap Unknown = {}
    BY KindsApart DEF GateCodes, Codes!validPermissionCodes
  <2> QED BY <1>1, <2>1, RollupIrredundant DEF Irredundant
<1>5. few \subseteq Codes!validPermissionCodes /\ Cover(few) = leaves
  BY <1>1, <1>2, Represent, RolledUp, SameCover DEF GateCodes, Codes!validPermissionCodes
<1>6. ASSUME NEW r \in few PROVE \E k \in codes : r \in Codes!Prefixes(k)
  <2>1. PICK l \in GateCodes : r \in Codes!Prefixes(l)
    <3>1. CASE r \in GateCodes
      BY <3>1, AboveGateCodes
    <3>2. CASE r \in Codes!Entities
      <4>1. PICK a \in Actions[r] : TRUE
        BY <3>2 DEF Codes!CatalogAssumption
      <4>2. Append(r, a) \in Codes!entityLeaves(r)
        BY <4>1 DEF Codes!entityLeaves
      <4>3. Append(r, a) \in GateCodes /\ r \in Codes!Prefixes(Append(r, a))
        BY <3>2, <4>2, LeafIs DEF GateCodes, Codes!Leaves
      <4> QED BY <4>3
    <3>3. CASE r \in Codes!ModuleCodes
      <4>1. PICK e \in Codes!Entities : r = SubSeq(e, 1, 1)
        BY <3>3 DEF Codes!CatalogAssumption, Codes!moduleEntities
      <4>2. PICK a \in Actions[e] : TRUE
        BY <4>1 DEF Codes!CatalogAssumption
      <4>3. PICK l \in Codes!entityLeaves(e) : TRUE
        BY <4>2 DEF Codes!entityLeaves
      <4>4. Codes!Prefixes(l) = {r, e, l}
        BY <4>1, <4>3, LeafIs
      <4>5. l \in GateCodes
        BY <4>3 DEF GateCodes, Codes!Leaves
      <4> QED BY <4>4, <4>5
    <3> QED BY <1>5, <3>1, <3>2, <3>3 DEF GateCodes, Codes!validPermissionCodes
  <2>2. l \in Cover(codes)
    BY <1>2, <1>5, <2>1 DEF Cover, Codes!HasPermission
  <2>3. PICK k \in codes : k \in Codes!Prefixes(l)
    BY <2>2 DEF Cover, Codes!HasPermission
  <2>4. l \in Seq(STRING) /\ k \in Seq(STRING) /\ k # <<>>
    BY <1>1, CodesAre DEF GateCodes, Codes!AllCodes, Codes!validPermissionCodes
  <2>5. CASE r \in Codes!Prefixes(k)
    BY <2>5
  <2>6. CASE k \in Codes!Prefixes(r)
    <3>1. Codes!HasPermission(codes, r)
      BY <2>6 DEF Codes!HasPermission
    <3>2. PICK q \in few : q \in Codes!Prefixes(k)
      <4>1. Codes!HasPermission(codes, k)
        BY <2>4, Itself DEF Codes!HasPermission
      <4>2. Codes!HasPermission(Codes!RollupPermissions(codes), k)
        BY <1>1, <4>1, NothingDropped
      <4> QED BY <1>3, <4>2 DEF Codes!HasPermission
    <3>3. r \in Seq(STRING) /\ q \in Codes!Prefixes(r)
      BY <1>5, <2>6, <3>2, CodesAre, Above DEF Codes!AllCodes
    <3>4. q = r
      BY <1>4, <3>2, <3>3 DEF Irredundant
    <3> QED BY <3>2, <3>4
  <2> QED BY <2>1, <2>3, <2>4, <2>5, <2>6, Comparable
<1>7. ASSUME NEW k \in codes, NEW r \in few, NEW s \in few, r \in Codes!Prefixes(k), s \in Codes!Prefixes(k)
      PROVE  r = s
  <2>1. k \in Seq(STRING)
    BY <1>1, CodesAre
  <2>2. r \in Codes!Prefixes(s) \/ s \in Codes!Prefixes(r)
    BY <1>7, <2>1, Comparable
  <2> QED BY <1>4, <2>2 DEF Irredundant
<1> DEFINE used == {k \in codes : \E r \in few : r \in Codes!Prefixes(k)}
<1> DEFINE f == [k \in used |-> CHOOSE r \in few : r \in Codes!Prefixes(k)]
<1> HIDE DEF few, out
<1>8. IsFiniteSet(codes) /\ IsFiniteSet(used) /\ Cardinality(used) <= Cardinality(codes)
  <2>1. IsFiniteSet(codes)
    BY FS_Subset, CodesCounts DEF Codes!CatalogAssumption
  <2>2. used \subseteq codes
    OBVIOUS
  <2> QED BY <2>1, <2>2, FS_Subset
<1>9. f \in Surjection(used, few)
  <2>1. \A k \in used : f[k] \in few /\ f[k] \in Codes!Prefixes(k)
    OBVIOUS
  <2>2. f \in [used -> few]
    BY <2>1
  <2>3. ASSUME NEW r \in few PROVE \E k \in used : f[k] = r
    <3>1. PICK k \in codes : r \in Codes!Prefixes(k)
      BY <1>6
    <3>2. k \in used
      BY <3>1
    <3>3. f[k] = r
      BY <1>7, <2>1, <3>1, <3>2
    <3> QED BY <3>2, <3>3
  <2> QED BY <2>2, <2>3 DEF Surjection
<1>10. IsFiniteSet(few) /\ Cardinality(few) <= Cardinality(used)
  BY <1>8, <1>9, FS_Surjection
<1>11. Cardinality(few) \in Nat /\ Cardinality(used) \in Nat /\ Cardinality(codes) \in Nat
  BY <1>8, <1>10, FS_CardinalityType
<1>12. Cardinality(few) <= Cardinality(codes)
  BY <1>8, <1>10, <1>11
<1> QED BY <1>12 DEF few

LEMMA CodesHold ==
  ASSUME Codes!CatalogAssumption, CodesIInv
  PROVE  Codes!TypeOK /\ Codes!Authority /\ Codes!RoundTrip /\ Codes!Minimal /\ Codes!NeverDrops /\ Codes!NoRedundancy
<1> DEFINE valid == stored \ Unknown
<1>1. granted = Cover(stored) /\ granted \subseteq GateCodes /\ stored \in SUBSET Codes!AllCodes
  BY DEF CodesIInv, Cover
<1>2. Codes!TypeOK /\ Codes!Authority
  BY <1>1 DEF Codes!TypeOK, Codes!Authority, Cover, GateCodes
<1>3. Codes!NoRedundancy
  BY IrredundantIs DEF CodesIInv, Codes!NoRedundancy
<1>4. Codes!NeverDrops
  BY <1>1, NothingDropped DEF Codes!NeverDrops
<1>5. Codes!RoundTrip
  <2>1. valid \in SUBSET Codes!validPermissionCodes /\ valid \in SUBSET Codes!AllCodes /\ valid \cap Unknown = {}
    BY <1>1 DEF Codes!AllCodes
  <2>2. Cover(valid) = granted
    <3>1. \A l \in GateCodes : Codes!Prefixes(l) \cap valid = Codes!Prefixes(l) \cap stored
      BY AboveGateCodes, KindsApart DEF GateCodes, Codes!validPermissionCodes
    <3> QED BY <1>1, <3>1 DEF Cover, Codes!HasPermission
  <2> HIDE DEF valid
  <2>3. Codes!ExpandPermissions(valid) = granted
    BY <2>1, <2>2, Expanded
  <2>4. Codes!RollupPermissions(valid) = Codes!RollupPermissions(granted)
    BY <2>1, <2>2, RollupOfCover
  <2>5. Codes!ExpandPermissions(Codes!RollupPermissions(granted)) = granted
    <3>1. Codes!RollupPermissions(valid) \subseteq Codes!validPermissionCodes
      BY <2>1, Represent, RolledUp DEF Codes!validPermissionCodes
    <3>2. Cover(Codes!RollupPermissions(valid)) = granted
      BY <2>1, <2>2, SameCover
    <3>3. Codes!RollupPermissions(valid) \cap Unknown = {} /\ Codes!RollupPermissions(valid) \in SUBSET Codes!AllCodes
      BY <3>1, KindsApart DEF Codes!AllCodes
    <3> QED BY <2>4, <3>2, <3>3, Expanded
  <2> QED BY <2>3, <2>4, <2>5 DEF Codes!RoundTrip, valid
<1>6. Codes!Minimal
  BY <1>1, FewestCodes, CodesCounts DEF Codes!Minimal
<1> QED BY <1>2, <1>3, <1>4, <1>5, <1>6

-----------------------------------------------------------------------------
(* The history of an entity (AuditTrail).                                  *)

Filled == [Fields -> {0, 1}]
Change == [field : Tracked, old : {0, 1}, new : {0, 1}]
Event == [action : EventActions, changes : SUBSET Change, explicit : BOOLEAN, class : Audit!Classes]
Snapshot == {[of |-> "none"], [of |-> "pointer"]} \cup [of : {"copy"}, values : Filled]

AuditTyped ==
  /\ entity \in DOMAIN ClassOf
  /\ values \in Filled /\ origin \in Filled /\ known \in Filled
  /\ snapshot \in Snapshot
  /\ trail \in Seq(Event)
  /\ gap \in BOOLEAN

\* A field changes once in an event.
OneChange(e) == \A c, d \in e.changes : c.field = d.field => c = d

AuditIInv ==
  /\ AuditTyped
  /\ \A n \in DOMAIN trail : OneChange(trail[n])
  /\ Audit!HistoryComplete /\ Audit!MoneyGuarded

\* What Shown says of any events t that begin with the values o.
TouchedAt(t, f, n) == {m \in 1..n : \E c \in t[m].changes : c.field = f}
LastOf(S) == CHOOSE m \in S : \A k \in S : k <= m
NewIn(e, f) == (CHOOSE c \in e.changes : c.field = f).new
Told(t, o, f, n) ==
  IF TouchedAt(t, f, n) = {} THEN o[f] ELSE NewIn(t[LastOf(TouchedAt(t, f, n))], f)

LEMMA ShownTold == \A f, n : Audit!Shown(f, n) = Told(trail, origin, f, n)
BY DEF Audit!Shown, Told, TouchedAt, LastOf, NewIn

LEMMA ShownToldNext == \A f, n : Audit!Shown(f, n)' = Told(trail', origin', f, n)
BY DEF Audit!Shown, Told, TouchedAt, LastOf, NewIn

\* A set of numbers that is not empty has a least one, and a greatest where it is bounded.
LEMMA LeastIn ==
  ASSUME NEW T, T \subseteq Nat, T # {}
  PROVE  \E x \in T : \A y \in T : x <= y
<1> DEFINE R == OpToRel(<, Nat)
<1>1. IsWellFoundedOn(R, Nat)
  BY NatLessThanWellFounded
<1>2. PICK x \in T : \A y \in T : ~ (<<y, x>> \in R)
  <2> HIDE DEF R
  <2> QED BY <1>1, WFMin
<1>3. \A y \in T : ~ (y < x)
  BY <1>2 DEF OpToRel
<1> QED BY <1>3

LEMMA GreatestIn ==
  ASSUME NEW n \in Nat, NEW S, S \subseteq 1..n, S # {}
  PROVE  \E m \in S : \A k \in S : k <= m
<1> DEFINE T == {n - s : s \in S}
<1>1. T \subseteq Nat /\ T # {}
  <2>1. PICK s : s \in S
    OBVIOUS
  <2>2. n - s \in T
    BY <2>1
  <2>3. \A s0 \in S : n - s0 \in Nat
    OBVIOUS
  <2> QED BY <2>2, <2>3
<1>2. PICK x \in T : \A y \in T : x <= y
  <2> HIDE DEF T
  <2> QED BY <1>1, LeastIn
<1>3. PICK m \in S : x = n - m
  BY <1>2
<1>4. \A k \in S : k <= m
  <2> TAKE k \in S
  <2>1. n - k \in T
    OBVIOUS
  <2>2. n - m <= n - k
    BY <1>2, <1>3, <2>1
  <2> QED BY <2>2
<1> QED BY <1>4

LEMMA LastTouched ==
  ASSUME NEW t, NEW f, NEW n \in Nat, TouchedAt(t, f, n) # {}
  PROVE  /\ LastOf(TouchedAt(t, f, n)) \in TouchedAt(t, f, n)
         /\ \A k \in TouchedAt(t, f, n) : k <= LastOf(TouchedAt(t, f, n))
<1>1. TouchedAt(t, f, n) \subseteq 1..n
  BY DEF TouchedAt
<1>2. \E m \in TouchedAt(t, f, n) : \A k \in TouchedAt(t, f, n) : k <= m
  BY <1>1, GreatestIn
<1> QED BY <1>2 DEF LastOf

\* What was shown stays shown, whatever is published afterwards.
LEMMA ToldAgain ==
  ASSUME NEW t, NEW u, NEW o, NEW f, NEW n \in Nat, \A m \in 1..n : t[m] = u[m]
  PROVE  Told(t, o, f, n) = Told(u, o, f, n)
<1>1. TouchedAt(t, f, n) = TouchedAt(u, f, n)
  BY DEF TouchedAt
<1>2. CASE TouchedAt(t, f, n) = {}
  BY <1>1, <1>2 DEF Told
<1>3. CASE TouchedAt(t, f, n) # {}
  <2>1. LastOf(TouchedAt(t, f, n)) \in TouchedAt(t, f, n)
    BY <1>3, LastTouched
  <2>2. LastOf(TouchedAt(t, f, n)) \in 1..n
    BY <2>1 DEF TouchedAt
  <2> QED BY <1>1, <1>3, <2>2 DEF Told
<1> QED BY <1>2, <1>3

\* An event that leaves a field alone shows what was shown before.
LEMMA ToldBefore ==
  ASSUME NEW t, NEW o, NEW f, NEW n \in Nat, \A c \in t[n + 1].changes : c.field # f
  PROVE  Told(t, o, f, n + 1) = Told(t, o, f, n)
<1>1. \A m \in 1..(n + 1) : m \in 1..n \/ m = n + 1
  OBVIOUS
<1>2. TouchedAt(t, f, n + 1) = TouchedAt(t, f, n)
  BY <1>1 DEF TouchedAt
<1> QED BY <1>2 DEF Told

\* An event that changes a field shows its new value.
LEMMA ToldNow ==
  ASSUME NEW t, NEW o, NEW f, NEW n \in Nat, NEW c \in t[n + 1].changes, c.field = f, OneChange(t[n + 1])
  PROVE  Told(t, o, f, n + 1) = c.new
<1>1. n + 1 \in TouchedAt(t, f, n + 1)
  BY DEF TouchedAt
<1>2. LastOf(TouchedAt(t, f, n + 1)) = n + 1
  <2>1. n + 1 <= LastOf(TouchedAt(t, f, n + 1))
    BY <1>1, LastTouched
  <2>2. LastOf(TouchedAt(t, f, n + 1)) \in TouchedAt(t, f, n + 1)
    BY <1>1, LastTouched
  <2>3. LastOf(TouchedAt(t, f, n + 1)) \in 1..(n + 1)
    BY <2>2 DEF TouchedAt
  <2> QED BY <2>1, <2>3
<1>3. NewIn(t[n + 1], f) = c.new
  <2>1. \A d \in t[n + 1].changes : d.field = f => d = c
    BY DEF OneChange
  <2> QED BY <2>1 DEF NewIn
<1> QED BY <1>1, <1>2, <1>3 DEF Told

-----------------------------------------------------------------------------
LEMMA Extended ==
  ASSUME NEW S, NEW q \in Seq(S), NEW e \in S
  PROVE  /\ Append(q, e) \in Seq(S) /\ Len(Append(q, e)) = Len(q) + 1
         /\ \A n \in DOMAIN q : Append(q, e)[n] = q[n]
         /\ Append(q, e)[Len(q) + 1] = e
         /\ \A n \in DOMAIN Append(q, e) : n \in DOMAIN q \/ n = Len(q) + 1
OBVIOUS

\* The classes in their order.
LEMMA Ranks ==
  /\ Audit!Rank["OPERATIONAL"] = 0 /\ Audit!Rank["HR"] = 1 /\ Audit!Rank["COMPLIANCE"] = 2
  /\ Audit!Rank["FINANCIAL"] = 3 /\ Audit!Rank["SECURITY"] = 4
BY DEF Audit!Rank

\* An event of money is for those who may read money, and none is shown below its entity's
\* class or its action's (Classify, Stricter).
LEMMA Classified ==
  ASSUME Audit!AuditAssumption, AuditTyped, NEW action, NEW fields
  PROVE  LET class == Audit!Classify(action, fields)
         IN /\ class \in Audit!Classes
            /\ fields \cap Money # {} => Audit!Rank[class] >= 3
            /\ ClassOf[entity] # "none" => Audit!Rank[class] >= Audit!Rank[ClassOf[entity]]
            /\ action \in SecurityActions /\ ClassOf[entity] = "none" => class = "SECURITY"
<1> DEFINE base == Audit!baseClass(action)
<1>1. ClassOf[entity] \in Audit!Classes \cup {"none"}
  BY DEF Audit!AuditAssumption, AuditTyped
<1>2. /\ base \in Audit!Classes
      /\ ClassOf[entity] # "none" => Audit!Rank[base] >= Audit!Rank[ClassOf[entity]]
      /\ action \in SecurityActions /\ ClassOf[entity] = "none" => base = "SECURITY"
  BY <1>1, Ranks DEF Audit!baseClass, Audit!isSecurityAction, Audit!Classes
<1> HIDE DEF base
<1>3. LET s == Audit!Stricter(base, "FINANCIAL")
      IN /\ s \in Audit!Classes /\ Audit!Rank[s] >= 3 /\ Audit!Rank[s] >= Audit!Rank[base]
         /\ base = "SECURITY" => s = "SECURITY"
  BY <1>2, Ranks DEF Audit!Stricter, Audit!Classes
<1>4. /\ Audit!Rank[base] \in Int
      /\ ClassOf[entity] # "none" => Audit!Rank[ClassOf[entity]] \in Int
  BY <1>1, <1>2, Ranks DEF Audit!Classes
<1>5. Audit!Rank[Audit!Stricter(base, "FINANCIAL")] \in Int
  BY <1>3, Ranks DEF Audit!Classes
<1>6. CASE \E f \in fields : Audit!isMoneyField(f)
  <2>1. Audit!Classify(action, fields) = Audit!Stricter(base, "FINANCIAL")
    BY <1>6 DEF Audit!Classify, base
  <2> QED BY <1>2, <1>3, <1>4, <1>5, <2>1
<1>7. CASE ~ \E f \in fields : Audit!isMoneyField(f)
  <2>1. Audit!Classify(action, fields) = base
    BY <1>7 DEF Audit!Classify, base
  <2>2. fields \cap Money = {}
    BY <1>7 DEF Audit!isMoneyField
  <2> QED BY <1>2, <2>1, <2>2
<1> QED BY <1>6, <1>7

LEMMA AuditInitInv ==
  ASSUME Audit!AuditAssumption, Audit!AuditInit
  PROVE  AuditIInv
<1> USE DEF Audit!AuditInit
<1>1. AuditTyped
  BY EmptySeq DEF AuditTyped, Filled, Snapshot, Audit!NoSnapshot
<1>2. DOMAIN trail = {} /\ Len(trail) = 0
  OBVIOUS
<1>3. \A f \in Tracked : Audit!Shown(f, Len(trail)) = known[f]
  <2>1. \A f : TouchedAt(trail, f, 0) = {}
    BY DEF TouchedAt
  <2> QED BY <1>2, <2>1, ShownTold DEF Told
<1> QED BY <1>1, <1>2, <1>3 DEF AuditIInv, Audit!HistoryComplete, Audit!MoneyGuarded

\* Until the next event the history stays as it is.
LEMMA Between ==
  ASSUME AuditIInv, AuditTyped', UNCHANGED <<entity, trail, origin, known, gap>>
  PROVE  AuditIInv'
<1>1. \A f, n : Audit!Shown(f, n)' = Audit!Shown(f, n)
  BY ShownTold, ShownToldNext
<1>2. Audit!HistoryComplete'
  BY <1>1 DEF AuditIInv, Audit!HistoryComplete
<1>3. Audit!MoneyGuarded'
  BY DEF AuditIInv, Audit!MoneyGuarded
<1> QED BY <1>2, <1>3 DEF AuditIInv

LEMMA CopyIs ==
  ASSUME AuditTyped, snapshot.of = "copy"
  PROVE  snapshot.values \in Filled
<1>1. snapshot \notin {[of |-> "none"], [of |-> "pointer"]}
  OBVIOUS
<1>2. snapshot \in [of : {"copy"}, values : Filled]
  BY <1>1 DEF AuditTyped, Snapshot
<1> QED BY <1>2

LEMMA ChangesTyped ==
  ASSUME Audit!AuditAssumption, AuditTyped
  PROVE  /\ Audit!Changes \subseteq Change
         /\ \A c, d \in Audit!Changes : c.field = d.field => c = d
<1>1. CASE snapshot.of = "copy"
  <2>1. snapshot.values \in Filled /\ values \in Filled
    BY <1>1, CopyIs DEF AuditTyped
  <2>2. \A f \in Tracked : snapshot.values[f] \in {0, 1} /\ values[f] \in {0, 1}
    BY <2>1 DEF Filled, Audit!AuditAssumption
  <2>3. \A c \in Audit!Changes :
          \E f \in Tracked : c = [field |-> f, old |-> snapshot.values[f], new |-> values[f]]
    BY <1>1 DEF Audit!Changes
  <2>4. ASSUME NEW c \in Audit!Changes PROVE c \in Change
    BY <2>2, <2>3 DEF Change
  <2>5. ASSUME NEW c \in Audit!Changes, NEW d \in Audit!Changes, c.field = d.field PROVE c = d
    BY <2>3, <2>5
  <2> QED BY <2>4, <2>5
<1>2. CASE snapshot.of # "copy"
  BY <1>2 DEF Audit!Changes
<1> QED BY <1>1, <1>2

LEMMA PublishKeeps ==
  ASSUME Audit!AuditAssumption, AuditIInv, NEW action \in EventActions,
         NEW sensitivity \in {"none", "OPERATIONAL"}, Audit!Publish(action, sensitivity)
  PROVE  AuditIInv'
<1> DEFINE class == IF sensitivity # "none" THEN sensitivity
                    ELSE Audit!Classify(action, {c.field : c \in Audit!Changes})
           e == [action |-> action, changes |-> Audit!Changes, explicit |-> sensitivity # "none",
                 class |-> class]
           N == Len(trail)
<1>1. AuditTyped /\ trail \in Seq(Event) /\ N \in Nat /\ DOMAIN trail = 1..N
  BY DEF AuditIInv, AuditTyped
<1>2. /\ trail' = Append(trail, e) /\ known' = values /\ snapshot' = Audit!NoSnapshot
      /\ gap' = (gap \/ snapshot.of # "copy" \/ (snapshot.of = "copy" /\ snapshot.values # known))
      /\ UNCHANGED <<entity, values, origin>>
  BY DEF Audit!Publish
<1>3. class \in Audit!Classes
  BY <1>1, Classified DEF Audit!Classes
<1>4. Audit!Changes \subseteq Change /\ \A c, d \in Audit!Changes : c.field = d.field => c = d
  BY <1>1, ChangesTyped
<1>5. e.action = action /\ e.changes = Audit!Changes /\ e.explicit = (sensitivity # "none") /\ e.class = class
  OBVIOUS
<1>6. e \in Event
  <2> HIDE DEF class
  <2> QED BY <1>3, <1>4 DEF Event
<1> HIDE DEF e, class
<1>7. /\ trail' \in Seq(Event) /\ Len(trail') = N + 1 /\ DOMAIN trail' = 1..(N + 1)
      /\ \A n \in 1..N : trail'[n] = trail[n]
      /\ trail'[N + 1] = e
  BY <1>1, <1>2, <1>6, Extended
<1>8. AuditTyped'
  <2>1. snapshot' \in Snapshot
    BY <1>2 DEF Audit!NoSnapshot, Snapshot
  <2> QED BY <1>1, <1>2, <1>7, <2>1 DEF AuditTyped
<1>9. \A n \in DOMAIN trail' : OneChange(trail'[n])
  <2>1. \A n \in 1..(N + 1) : n \in 1..N \/ n = N + 1
    BY <1>1
  <2>2. OneChange(e)
    BY <1>4, <1>5 DEF OneChange
  <2> QED BY <1>1, <1>7, <2>1, <2>2 DEF AuditIInv
<1>10. Audit!HistoryComplete'
  <2> SUFFICES ASSUME ~gap' PROVE Audit!HistoryComplete'
    BY DEF Audit!HistoryComplete
  <2>1. ~gap /\ snapshot.of = "copy" /\ snapshot.values = known
    BY <1>2
  <2>2. /\ \A n \in 1..N : \A c \in trail[n].changes : c.old = Audit!Shown(c.field, n - 1)
        /\ \A f \in Tracked : Audit!Shown(f, N) = known[f]
    BY <1>1, <2>1 DEF AuditIInv, Audit!HistoryComplete
  <2>3. \A n \in 0..N : \A f :
          /\ Told(trail', origin', f, n) = Told(trail, origin, f, n)
          /\ Audit!Shown(f, n)' = Audit!Shown(f, n)
    <3> TAKE n \in 0..N
    <3> TAKE f
    <3>1. n \in Nat /\ \A m \in 1..n : trail'[m] = trail[m]
      BY <1>1, <1>7
    <3>2. Told(trail', origin, f, n) = Told(trail, origin, f, n)
      BY <3>1, ToldAgain
    <3> QED BY <3>2, <1>2, ShownTold, ShownToldNext
  <2>4. \A c \in e.changes : c.old = known[c.field] /\ c.new = values[c.field] /\ c.field \in Tracked
    BY <1>5, <2>1 DEF Audit!Changes
  <2>5. ASSUME NEW n \in DOMAIN trail', NEW c \in trail'[n].changes
        PROVE  c.old = Audit!Shown(c.field, n - 1)'
    <3>1. CASE n \in 1..N
      <4>1. c \in trail[n].changes /\ n - 1 \in 0..N
        BY <1>1, <1>7, <3>1, <2>5
      <4> QED BY <2>2, <2>3, <3>1, <4>1
    <3>2. CASE n = N + 1
      <4>1. c \in e.changes /\ n - 1 = N /\ N \in 0..N
        BY <1>1, <1>7, <3>2, <2>5
      <4>2. c.old = known[c.field] /\ c.field \in Tracked
        BY <2>4, <4>1
      <4> QED BY <2>2, <2>3, <4>1, <4>2
    <3> QED BY <1>1, <1>7, <3>1, <3>2
  <2>6. ASSUME NEW f \in Tracked PROVE Told(trail', origin', f, N + 1) = values[f]
    <3>1. CASE \E c \in e.changes : c.field = f
      <4>1. PICK c \in e.changes : c.field = f
        BY <3>1
      <4>2. c \in trail'[N + 1].changes /\ OneChange(trail'[N + 1])
        BY <1>1, <1>7, <1>9, <4>1
      <4>3. Told(trail', origin', f, N + 1) = c.new
        BY <1>1, <4>1, <4>2, ToldNow
      <4> QED BY <2>4, <4>1, <4>3
    <3>2. CASE \A c \in e.changes : c.field # f
      <4>1. Told(trail', origin', f, N + 1) = Told(trail', origin', f, N)
        BY <1>1, <1>7, <3>2, ToldBefore
      <4>2. Told(trail', origin', f, N) = Told(trail, origin, f, N)
        BY <1>1, <2>3
      <4>3. Told(trail', origin', f, N) = known[f]
        BY <2>2, <4>2, ShownTold
      <4>4. known[f] = values[f]
        <5>1. [field |-> f, old |-> snapshot.values[f], new |-> values[f]].field = f
          OBVIOUS
        <5>2. snapshot.values[f] # values[f] =>
                [field |-> f, old |-> snapshot.values[f], new |-> values[f]] \in e.changes
          BY <1>5, <2>1 DEF Audit!Changes
        <5> QED BY <2>1, <3>2, <5>1, <5>2
      <4> QED BY <4>1, <4>3, <4>4
    <3> QED BY <3>1, <3>2
  <2>7. \A f \in Tracked : Told(trail', origin', f, Len(trail')) = known'[f]
    BY <1>2, <1>7, <2>6
  <2>8. \A f : Audit!Shown(f, Len(trail))' = Told(trail', origin', f, Len(trail'))
    BY DEF Audit!Shown, Told, TouchedAt, LastOf, NewIn
  <2>9. (\A f \in Tracked : Audit!Shown(f, Len(trail)) = known[f])'
    BY <2>7, <2>8
  <2> QED BY <2>5, <2>9 DEF Audit!HistoryComplete
<1>11. Audit!MoneyGuarded'
  <2>1. ASSUME NEW n \in 1..N
        PROVE  LET x == trail[n]
               IN ~x.explicit =>
                    /\ (\E c \in x.changes : c.field \in Money) => Audit!Rank[x.class] >= Audit!Rank["FINANCIAL"]
                    /\ ClassOf[entity] # "none" => Audit!Rank[x.class] >= Audit!Rank[ClassOf[entity]]
                    /\ x.action \in SecurityActions /\ ClassOf[entity] = "none" => x.class = "SECURITY"
    BY <1>1 DEF AuditIInv, Audit!MoneyGuarded
  <2>2. ~e.explicit =>
          /\ (\E c \in e.changes : c.field \in Money) => Audit!Rank[e.class] >= Audit!Rank["FINANCIAL"]
          /\ ClassOf[entity] # "none" => Audit!Rank[e.class] >= Audit!Rank[ClassOf[entity]]
          /\ e.action \in SecurityActions /\ ClassOf[entity] = "none" => e.class = "SECURITY"
    <3> SUFFICES ASSUME ~e.explicit
                 PROVE  /\ (\E c \in e.changes : c.field \in Money) => Audit!Rank[e.class] >= Audit!Rank["FINANCIAL"]
                        /\ ClassOf[entity] # "none" => Audit!Rank[e.class] >= Audit!Rank[ClassOf[entity]]
                        /\ e.action \in SecurityActions /\ ClassOf[entity] = "none" => e.class = "SECURITY"
      OBVIOUS
    <3> DEFINE fields == {c.field : c \in Audit!Changes}
    <3>1. e.class = Audit!Classify(action, fields)
      BY <1>5 DEF class
    <3>2. (\E c \in e.changes : c.field \in Money) => fields \cap Money # {}
      BY <1>5
    <3> HIDE DEF fields
    <3> QED BY <1>1, <1>5, <3>1, <3>2, Classified, Ranks
  <2>3. \A n \in DOMAIN trail' : n \in 1..N \/ n = N + 1
    BY <1>1, <1>7
  <2> QED BY <1>2, <1>7, <2>1, <2>2, <2>3 DEF Audit!MoneyGuarded
<1> QED BY <1>8, <1>9, <1>10, <1>11 DEF AuditIInv

LEMMA AuditNextInv ==
  ASSUME Audit!AuditAssumption, AuditIInv, [Audit!AuditNext]_auditVars
  PROVE  AuditIInv'
<1>1. AuditTyped
  BY DEF AuditIInv
<1>2. CASE Audit!Keep
  <2>1. snapshot' \in Snapshot
    BY <1>1, <1>2 DEF Audit!Keep, AuditTyped, Snapshot
  <2>2. AuditTyped'
    BY <1>1, <1>2, <2>1 DEF Audit!Keep, AuditTyped
  <2> QED BY <1>2, <2>2, Between DEF Audit!Keep
<1>3. CASE Audit!KeepPointer
  <2>1. AuditTyped'
    BY <1>1, <1>3 DEF Audit!KeepPointer, AuditTyped, Snapshot
  <2> QED BY <1>3, <2>1, Between DEF Audit!KeepPointer
<1>4. ASSUME NEW f \in Fields, Audit!Edit(f) PROVE AuditIInv'
  <2>1. values' \in Filled
    BY <1>1, <1>4 DEF Audit!Edit, AuditTyped, Filled
  <2>2. AuditTyped'
    BY <1>1, <1>4, <2>1 DEF Audit!Edit, AuditTyped
  <2> QED BY <1>4, <2>2, Between DEF Audit!Edit
<1>5. CASE UNCHANGED auditVars
  <2>1. AuditTyped'
    BY <1>1, <1>5 DEF auditVars, AuditTyped
  <2> QED BY <1>5, <2>1, Between DEF auditVars
<1> QED BY <1>2, <1>3, <1>4, <1>5, PublishKeeps DEF Audit!AuditNext

-----------------------------------------------------------------------------
(* Inputs and errors (Validation).                                         *)

InputNames == UNION {InputsOf[f] : f \in RootFields}
\* What the error presenter makes of an error, masked and in debug.
Said(e) == Inputs!Presented(e, FALSE)
SaidAll(e) == Inputs!Presented(e, TRUE)

Places == {"waiting", "inputs", "check", "failed", "done"}

InputsTyped ==
  /\ serial \in BOOLEAN
  /\ place \in [RootFields -> Places]
  /\ unread \in [RootFields -> SUBSET InputNames]
  /\ errors \in [InputNames -> SUBSET Inputs!Rules]
  /\ broke \in [RootFields -> SUBSET (InputNames \X Inputs!Rules)]
  /\ malformed \subseteq RootFields
  /\ failure \in [RootFields -> Inputs!Errors \cup {Inputs!NoError}]
  /\ replied \in [RootFields -> {"none", "result", "invalid", "refused", "fault"}]
  /\ heard \in [RootFields -> {"nothing", "warning", "error"}]

\* What the collector has, some input broke; what an input broke, the collector has.
Collected ==
  /\ \A f \in RootFields : \A b \in broke[f] : b[2] \in errors[b[1]]
  /\ \A n \in InputNames : errors[n] # {} => \E f \in RootFields : broke[f] # {}

\* A mutation's root fields come one after the other.
OneByOne == \A f \in RootFields :
  /\ place[f] = "waiting" => broke[f] = {}
  /\ serial /\ place[f] # "waiting" => \A g \in Before[f] : place[g] = "done"

\* A root field fails with an error of its own or for what the collector has.
Failing == \A f \in RootFields :
  /\ place[f] # "done" => replied[f] = "none" /\ heard[f] = "nothing"
  /\ place[f] = "done" => replied[f] # "none"
  /\ place[f] \in {"waiting", "inputs", "check"} => f \notin malformed
  /\ place[f] = "failed" => failure[f] # Inputs!NoError \/ Inputs!HasErrors

\* What is said of a root field, and heard of it.
Replying == \A f \in RootFields :
  /\ replied[f] = "result" =>
       broke[f] = {} /\ f \notin malformed /\ failure[f] = Inputs!NoError /\ heard[f] = "nothing"
  /\ replied[f] = "invalid" =>
       /\ heard[f] = "nothing"
       /\ \E g \in RootFields : broke[g] # {} /\ (serial => g = f \/ g \in Before[f])
  /\ replied[f] \in {"refused", "fault"} =>
       /\ failure[f] # Inputs!NoError
       /\ heard[f] = Said(failure[f]).level
       /\ replied[f] = IF Said(failure[f]).status >= 500 THEN "fault" ELSE "refused"

InputIInv == InputsTyped /\ Collected /\ OneByOne /\ Failing /\ Replying

-----------------------------------------------------------------------------
\* The constructors' fields.
LEMMA Fielded ==
  /\ \A s, n : Inputs!Public(s, n).kind = "public" /\ Inputs!Public(s, n).status = s
  /\ \A n : Inputs!Pg(n).kind = "pg" /\ Inputs!Pg(n).status = 0 /\ Inputs!Pg(n).name = n
  /\ \A n : Inputs!Grpc(n).kind = "grpc" /\ Inputs!Grpc(n).status = 0 /\ Inputs!Grpc(n).name = n
  /\ Inputs!NoError.kind = "none" /\ Inputs!Plain.kind = "plain"
<1>1. \A s, n : Inputs!Public(s, n).kind = "public" /\ Inputs!Public(s, n).status = s
  BY DEF Inputs!Public, Inputs!Err
<1>2. \A n : Inputs!Pg(n).kind = "pg" /\ Inputs!Pg(n).status = 0 /\ Inputs!Pg(n).name = n
  BY DEF Inputs!Pg, Inputs!Err
<1>3. \A n : Inputs!Grpc(n).kind = "grpc" /\ Inputs!Grpc(n).status = 0 /\ Inputs!Grpc(n).name = n
  BY DEF Inputs!Grpc, Inputs!Err
<1>4. Inputs!NoError.kind = "none" /\ Inputs!Plain.kind = "plain"
  BY DEF Inputs!NoError, Inputs!Plain, Inputs!Err
<1> QED BY <1>1, <1>2, <1>3, <1>4

LEMMA StatusNames ==
  /\ DOMAIN Inputs!GrpcStatus =
       {"InvalidArgument", "FailedPrecondition", "Unavailable", "NotFound", "AlreadyExists",
        "PermissionDenied", "Unauthenticated", "ResourceExhausted"}
  /\ DOMAIN Inputs!PgStatus = {"foreignKey", "unique", "exclusion", "check", "notNull"}
  /\ \A n \in DOMAIN Inputs!GrpcStatus :
       /\ Inputs!GrpcStatus[n] \in {400, 401, 403, 404, 409, 422, 429, 503}
       /\ Inputs!GrpcStatus[n] = 503 <=> n = "Unavailable"
       /\ Inputs!GrpcStatus[n] = 401 <=> n = "Unauthenticated"
  /\ \A n \in DOMAIN Inputs!PgStatus : Inputs!PgStatus[n] \in {400, 409}
<1>1. DOMAIN Inputs!GrpcStatus =
       {"InvalidArgument", "FailedPrecondition", "Unavailable", "NotFound", "AlreadyExists",
        "PermissionDenied", "Unauthenticated", "ResourceExhausted"}
  BY DEF Inputs!GrpcStatus
<1>2. DOMAIN Inputs!PgStatus = {"foreignKey", "unique", "exclusion", "check", "notNull"}
  BY DEF Inputs!PgStatus
<1>3. \A n \in DOMAIN Inputs!GrpcStatus :
       /\ Inputs!GrpcStatus[n] \in {400, 401, 403, 404, 409, 422, 429, 503}
       /\ Inputs!GrpcStatus[n] = 503 <=> n = "Unavailable"
       /\ Inputs!GrpcStatus[n] = 401 <=> n = "Unauthenticated"
  BY <1>1 DEF Inputs!GrpcStatus
<1>4. \A n \in DOMAIN Inputs!PgStatus : Inputs!PgStatus[n] \in {400, 409}
  BY <1>2 DEF Inputs!PgStatus
<1> QED BY <1>1, <1>2, <1>3, <1>4

\* The four kinds of errors.
PublicOnes == [kind : {"public"}, status : Inputs!Constructors \cup {503}, name : {"", "COMMENT_LOCKED"}]
PgOnes == [kind : {"pg"}, status : {0},
           name : {"foreignKey", "unique", "exclusion", "check", "notNull",
                   "transient", "tooManyConnections", "syntax"}]
GrpcOnes == [kind : {"grpc"}, status : {0}, name : DOMAIN Inputs!GrpcStatus \cup {"Unknown", "Internal", "Canceled"}]

LEMMA ErrorKinds ==
  ASSUME NEW e \in Inputs!Errors
  PROVE  e \in PublicOnes \/ e \in PgOnes \/ e \in GrpcOnes \/ e = Inputs!Plain
<1>1. CASE e \in PublicOnes
  BY <1>1
<1>2. CASE e \in [kind : {"pg"}, status : {0},
                 name : DOMAIN Inputs!PgStatus \cup {"transient", "tooManyConnections", "syntax"}]
  BY <1>2, StatusNames DEF PgOnes
<1>3. CASE e \in GrpcOnes
  BY <1>3
<1> QED BY <1>1, <1>2, <1>3 DEF Inputs!Errors, PublicOnes, GrpcOnes

\* What is presented of an error, field by field.
LEMMA PresentedIs ==
  ASSUME NEW e
  PROVE  LET p == Said(e)
         IN /\ Inputs!PublicStatus(e) # 0 =>
                 /\ p.status = Inputs!PublicStatus(e) /\ p.message = "public"
                 /\ p.level = Inputs!Level(e, Inputs!PublicStatus(e))
            /\ Inputs!PublicStatus(e) = 0 /\ Inputs!GrpcPublic(e) =>
                 p.status = Inputs!GrpcStatus[e.name] /\ p.message = "public" /\ p.level = "warning"
            /\ Inputs!PublicStatus(e) = 0 /\ ~Inputs!GrpcPublic(e) =>
                 p.status = 500 /\ p.message = "masked" /\ p.level = Inputs!Captured(e) /\ p.code
<1>1. CASE Inputs!PublicStatus(e) # 0
  BY <1>1 DEF Said, Inputs!Presented
<1>2. CASE Inputs!PublicStatus(e) = 0 /\ Inputs!GrpcPublic(e)
  BY <1>2 DEF Said, Inputs!Presented, Inputs!Warned
<1>3. CASE Inputs!PublicStatus(e) = 0 /\ ~Inputs!GrpcPublic(e)
  BY <1>3 DEF Said, Inputs!Presented
<1> QED BY <1>1, <1>2, <1>3

\* What the kinds of errors are taken for: status, message and level.
Taken(e, status, message, level) ==
  LET p == Said(e)
  IN p.status = status /\ p.message = message /\ p.level = level

LEMMA Transient == \A e : e.kind # "pg" \/ e.name # "transient" => Inputs!Captured(e) = "error"
BY DEF Inputs!Captured, Inputs!Pg, Inputs!Err

LEMMA PublicIs ==
  ASSUME NEW s \in {400, 401, 403, 404, 409, 500, 503}, NEW e, e.kind = "public", e.status = s
  PROVE  /\ Taken(e, s, "public", Inputs!Level(e, s))
         /\ s >= 500 => Inputs!Level(e, s) = "error"
         /\ s < 500 => Inputs!Level(e, s) = "warning"
<1>1. Inputs!PublicStatus(e) = s
  BY DEF Inputs!PublicStatus, Inputs!AsPublicError
<1>2. (s >= 500 => Inputs!Level(e, s) = "error") /\ (s < 500 => Inputs!Level(e, s) = "warning")
  BY Transient DEF Inputs!Level, Inputs!Warned
<1>3. s # 0
  OBVIOUS
<1>4. Taken(e, s, "public", Inputs!Level(e, s))
  BY <1>1, <1>3, PresentedIs DEF Taken
<1> QED BY <1>2, <1>4

LEMMA PgStatusIs ==
  ASSUME NEW n \in DOMAIN Inputs!PgStatus
  PROVE  Taken(Inputs!Err("pg", 0, n), Inputs!PgStatus[n], "public", "warning")
<1> DEFINE e == Inputs!Err("pg", 0, n)
<1>1. e.kind = "pg" /\ e.status = 0 /\ e.name = n
  BY DEF Inputs!Err
<1> HIDE DEF e
<1>2. Inputs!AsPublicError(e) = Inputs!Public(Inputs!PgStatus[n], "")
  BY <1>1 DEF Inputs!AsPublicError
<1>3. \A s : Inputs!Public(s, "").status = s
  BY DEF Inputs!Public, Inputs!Err
<1>4. Inputs!PublicStatus(e) = Inputs!PgStatus[n]
  BY <1>2, <1>3 DEF Inputs!PublicStatus
<1>5. Inputs!PgStatus[n] \in {400, 409}
  BY StatusNames
<1>6. Inputs!Level(e, Inputs!PgStatus[n]) = "warning"
  BY <1>5 DEF Inputs!Level, Inputs!Warned
<1>7. Inputs!PgStatus[n] # 0
  BY <1>5
<1>8. Taken(e, Inputs!PgStatus[n], "public", "warning")
  BY <1>4, <1>6, <1>7, PresentedIs DEF Taken
<1> QED BY <1>8 DEF e

LEMMA PgOtherIs ==
  ASSUME NEW e, e.kind = "pg", e.status = 0, e.name \notin DOMAIN Inputs!PgStatus
  PROVE  Taken(e, 500, "masked", Inputs!Captured(e))
<1>1. Inputs!PublicStatus(e) = 0 /\ ~Inputs!GrpcPublic(e)
  BY DEF Inputs!PublicStatus, Inputs!AsPublicError, Inputs!GrpcPublic
<1> QED BY <1>1, PresentedIs DEF Taken

LEMMA GrpcIs ==
  ASSUME NEW e, e.kind = "grpc", e.status = 0
  PROVE  /\ e.name \in DOMAIN Inputs!GrpcStatus =>
              Taken(e, Inputs!GrpcStatus[e.name], "public", "warning")
         /\ e.name \notin DOMAIN Inputs!GrpcStatus => Taken(e, 500, "masked", "error")
<1>1. Inputs!PublicStatus(e) = 0 /\ (Inputs!GrpcPublic(e) <=> e.name \in DOMAIN Inputs!GrpcStatus)
  BY DEF Inputs!PublicStatus, Inputs!AsPublicError, Inputs!GrpcPublic
<1>2. Inputs!Captured(e) = "error"
  BY Transient
<1> QED BY <1>1, <1>2, PresentedIs DEF Taken

LEMMA PlainIs == Taken(Inputs!Plain, 500, "masked", "error")
<1> DEFINE e == Inputs!Plain
<1>1. e.kind = "plain" /\ e.status = 0
  BY DEF Inputs!Plain, Inputs!Err
<1> HIDE DEF e
<1>2. Inputs!PublicStatus(e) = 0 /\ ~Inputs!GrpcPublic(e)
  BY <1>1 DEF Inputs!PublicStatus, Inputs!AsPublicError, Inputs!GrpcPublic
<1>3. Inputs!Captured(e) = "error"
  BY <1>1, Transient
<1>4. Taken(e, 500, "masked", "error")
  BY <1>2, <1>3, PresentedIs DEF Taken
<1> QED BY <1>4 DEF e

\* A public error is not one of a service out of reach.
LEMMA GrpcApart == \A e : e = Inputs!Grpc("Unavailable") => e.kind = "grpc" /\ e.name = "Unavailable"
BY Fielded

\* What an error's status says: it pages for the server's faults, but for those that heal
\* and those of others.
LEMMA StatusSays ==
  ASSUME NEW e \in Inputs!Errors
  PROVE  LET p == Said(e)
         IN /\ p.status \in {400, 401, 403, 404, 409, 422, 429, 500, 503}
            /\ p.level \in {"nothing", "warning", "error"}
            /\ p.status >= 500 => p.level = Inputs!Captured(e) \/ e = Inputs!Grpc("Unavailable")
            /\ p.status < 500 => p.level = "warning"
            /\ p.level = "error" <=> p.status >= 500 /\ e \notin {Inputs!Pg("transient"), Inputs!Grpc("Unavailable")}
            /\ p.message = "masked" => p.status = 500
            /\ p.message \in {"masked", "public"}
            /\ Inputs!Grouped(e) <=> p.status = 401
            /\ p.message = "public" <=> Inputs!PublicStatus(e) # 0 \/ Inputs!GrpcPublic(e)
<1> DEFINE p == Said(e)
<1>1. Inputs!Captured(e) \in {"nothing", "error"} /\ (Inputs!Captured(e) = "nothing" <=> e = Inputs!Pg("transient"))
  BY DEF Inputs!Captured
<1> HIDE DEF p
<1> USE DEF Taken
<1>2. CASE e \in PublicOnes
  <2> DEFINE s == e.status
  <2>1. s \in Inputs!Constructors \cup {503}
    BY <1>2 DEF PublicOnes
  <2>2. s \in {400, 401, 403, 404, 409, 500, 503}
    BY <2>1 DEF Inputs!Constructors
  <2>3. e.kind = "public" /\ e.status = s
    BY <1>2 DEF PublicOnes
  <2> HIDE DEF s
  <2>4. /\ p.status = s /\ p.message = "public"
        /\ s >= 500 => p.level = "error"
        /\ s < 500 => p.level = "warning"
    BY <2>2, <2>3, PublicIs DEF p
  <2>5. e # Inputs!Pg("transient") /\ e # Inputs!Grpc("Unavailable") /\ e # Inputs!Grpc("Unauthenticated")
    BY <2>3, Fielded
  <2>6. Inputs!PublicStatus(e) # 0
    BY <2>2, <2>3 DEF Inputs!PublicStatus, Inputs!AsPublicError
  <2>7. Inputs!Grouped(e) <=> s = 401
    BY <2>3, <2>5 DEF Inputs!Grouped
  <2> QED BY <1>1, <2>2, <2>4, <2>5, <2>6, <2>7 DEF p
<1>3. CASE e \in PgOnes
  <2> DEFINE c == e.name
  <2>1. e = Inputs!Pg(c)
    BY <1>3 DEF PgOnes, Inputs!Pg, Inputs!Err
  <2>2. e.kind = "pg" /\ e.status = 0 /\ e.name = c
    BY <1>3 DEF PgOnes
  <2> HIDE DEF c
  <2>3. e # Inputs!Grpc("Unavailable") /\ e # Inputs!Grpc("Unauthenticated")
    BY <2>2, Fielded
  <2>4. ~Inputs!Grouped(e)
    BY <2>2, <2>3 DEF Inputs!Grouped
  <2>5. CASE c \in DOMAIN Inputs!PgStatus
    <3>1. p.status = Inputs!PgStatus[c] /\ p.message = "public" /\ p.level = "warning"
      BY <2>1, <2>5, PgStatusIs DEF Inputs!Pg, p
    <3>2. Inputs!PgStatus[c] \in {400, 409}
      BY <2>5, StatusNames
    <3>3. Inputs!AsPublicError(e) = Inputs!Public(Inputs!PgStatus[c], "")
      BY <2>2, <2>5 DEF Inputs!AsPublicError
    <3>4. \A s : Inputs!Public(s, "").status = s
      BY DEF Inputs!Public, Inputs!Err
    <3>5. Inputs!PublicStatus(e) # 0
      <4>1. Inputs!PublicStatus(e) = Inputs!PgStatus[c]
        BY <3>3, <3>4 DEF Inputs!PublicStatus
      <4> QED BY <3>2, <4>1
    <3> QED BY <1>1, <2>4, <3>1, <3>2, <3>5 DEF p
  <2>6. CASE c \notin DOMAIN Inputs!PgStatus
    <3>1. p.status = 500 /\ p.message = "masked" /\ p.level = Inputs!Captured(e)
      BY <2>2, <2>6, PgOtherIs DEF p
    <3>2. Inputs!PublicStatus(e) = 0 /\ ~Inputs!GrpcPublic(e)
      BY <2>2, <2>6 DEF Inputs!PublicStatus, Inputs!AsPublicError, Inputs!GrpcPublic
    <3> QED BY <1>1, <2>3, <2>4, <3>1, <3>2 DEF p
  <2> QED BY <2>5, <2>6
<1>4. CASE e \in GrpcOnes
  <2> DEFINE c == e.name
  <2>1. e = Inputs!Grpc(c)
    BY <1>4 DEF GrpcOnes, Inputs!Grpc, Inputs!Err
  <2>2. e.kind = "grpc" /\ e.status = 0 /\ e.name = c
    BY <1>4 DEF GrpcOnes
  <2> HIDE DEF c
  <2>3. e # Inputs!Pg("transient") /\ (\A d : e = Inputs!Grpc(d) <=> c = d)
    BY <2>1, <2>2, Fielded
  <2>4. Inputs!Grouped(e) <=> c = "Unauthenticated"
    BY <2>2, <2>3 DEF Inputs!Grouped
  <2>5. Inputs!PublicStatus(e) = 0 /\ (Inputs!GrpcPublic(e) <=> c \in DOMAIN Inputs!GrpcStatus)
    BY <2>2 DEF Inputs!PublicStatus, Inputs!AsPublicError, Inputs!GrpcPublic
  <2>6. CASE c \in DOMAIN Inputs!GrpcStatus
    <3>1. p.status = Inputs!GrpcStatus[c] /\ p.message = "public" /\ p.level = "warning"
      BY <2>2, <2>6, GrpcIs DEF p
    <3>2. /\ Inputs!GrpcStatus[c] \in {400, 401, 403, 404, 409, 422, 429, 503}
          /\ Inputs!GrpcStatus[c] = 503 <=> c = "Unavailable"
          /\ Inputs!GrpcStatus[c] = 401 <=> c = "Unauthenticated"
      BY <2>6, StatusNames
    <3>3. p.status >= 500 <=> c = "Unavailable"
      BY <3>1, <3>2
    <3> QED BY <1>1, <2>3, <2>4, <2>5, <2>6, <3>1, <3>2, <3>3 DEF p
  <2>7. CASE c \notin DOMAIN Inputs!GrpcStatus
    <3>1. p.status = 500 /\ p.message = "masked" /\ p.level = "error"
      BY <2>2, <2>7, GrpcIs DEF p
    <3>2. c # "Unavailable" /\ c # "Unauthenticated"
      BY <2>7, StatusNames
    <3> QED BY <1>1, <2>3, <2>4, <2>5, <2>7, <3>1, <3>2 DEF p
  <2> QED BY <2>6, <2>7
<1>5. CASE e = Inputs!Plain
  <2>1. e.kind = "plain" /\ e.status = 0
    BY <1>5 DEF Inputs!Plain, Inputs!Err
  <2>2. e # Inputs!Pg("transient") /\ (\A d : e # Inputs!Grpc(d))
    BY <2>1, Fielded
  <2>3. ~Inputs!Grouped(e) /\ Inputs!PublicStatus(e) = 0 /\ ~Inputs!GrpcPublic(e)
    BY <2>1, <2>2 DEF Inputs!Grouped, Inputs!PublicStatus, Inputs!AsPublicError, Inputs!GrpcPublic
  <2>4. p.status = 500 /\ p.message = "masked" /\ p.level = "error"
    BY <1>5, PlainIs DEF p
  <2> QED BY <1>1, <2>2, <2>3, <2>4 DEF p
<1> QED BY <1>2, <1>3, <1>4, <1>5, ErrorKinds
LEMMA CapturedIs == \A e :
  Inputs!Captured(e) \in {"nothing", "error"} /\ (Inputs!Captured(e) = "nothing" <=> e = Inputs!Pg("transient"))
BY DEF Inputs!Captured

\* What is written for a client is the same to those who debug.
LEMMA SaidAnyway ==
  ASSUME NEW e, Inputs!PublicStatus(e) # 0 \/ Inputs!GrpcPublic(e)
  PROVE  SaidAll(e) = Said(e)
<1>1. CASE Inputs!PublicStatus(e) # 0
  BY <1>1 DEF Said, SaidAll, Inputs!Presented
<1>2. CASE Inputs!PublicStatus(e) = 0 /\ Inputs!GrpcPublic(e)
  BY <1>2 DEF Said, SaidAll, Inputs!Presented
<1> QED BY <1>1, <1>2

LEMMA MaskedAlike ==
  ASSUME NEW e, Inputs!PublicStatus(e) = 0, ~Inputs!GrpcPublic(e),
         NEW d, Inputs!PublicStatus(d) = 0, ~Inputs!GrpcPublic(d), Inputs!Captured(d) = Inputs!Captured(e)
  PROVE  Said(d) = Said(e)
BY DEF Said, Inputs!Presented

LEMMA RestIs ==
  ASSUME NEW e, NEW s
  PROVE  /\ Inputs!Rest(e, s).status = IF e.kind = "public" THEN e.status ELSE s
         /\ Inputs!Rest(e, s).level =
              IF Inputs!RestStatus(e, s) >= 500 THEN Inputs!Captured(e) ELSE "nothing"
BY DEF Inputs!Rest, Inputs!RestStatus, Inputs!CaptureRestError

\* The ways of an error agree.
LEMMA WaysAgree == Inputs!ErrorsAgree
<1> SUFFICES ASSUME NEW e \in Inputs!Errors
             PROVE  LET p == Said(e)
                        far == Said(Inputs!Across(e))
                        rest == Inputs!Rest(e, p.status)
                    IN /\ p.level = "error" <=>
                            p.status >= 500 /\ e \notin {Inputs!Pg("transient"), Inputs!Grpc("Unavailable")}
                       /\ p.message = "masked" => p.status = 500 /\ p.code
                       /\ p.message = "public" => SaidAll(e) = p
                       /\ rest.status = p.status
                       /\ rest.level = "error" <=> p.level = "error" \/ e = Inputs!Grpc("Unavailable")
                       /\ Inputs!Grouped(e) <=> p.status = 401
                       /\ Inputs!Grouped(Inputs!Across(e)) => Inputs!Grouped(e)
                       /\ far = p <=> e.kind = "grpc" \/ (p.message = "masked" /\ p.level = "error")
                       /\ p.level = "error" => far.level = "error"
                       /\ Inputs!Across(Inputs!Across(e)) = Inputs!Across(e)
  BY DEF Inputs!ErrorsAgree, Said, SaidAll
<1> DEFINE p == Said(e)
           far == Said(Inputs!Across(e))
           rest == Inputs!Rest(e, p.status)
           unknown == Inputs!Grpc("Unknown")
<1>1. /\ p.level = "error" <=>
            p.status >= 500 /\ e \notin {Inputs!Pg("transient"), Inputs!Grpc("Unavailable")}
      /\ p.message = "masked" => p.status = 500
      /\ p.message \in {"masked", "public"}
      /\ Inputs!Grouped(e) <=> p.status = 401
      /\ p.message = "public" <=> Inputs!PublicStatus(e) # 0 \/ Inputs!GrpcPublic(e)
      /\ p.status \in {400, 401, 403, 404, 409, 422, 429, 500, 503}
  BY StatusSays
<1>2. p.message = "masked" => p.code
  BY <1>1, PresentedIs
<1>3. p.message = "public" => SaidAll(e) = p
  BY <1>1, SaidAnyway
<1>4. e.kind = "public" => p.status = e.status
  <2>1. e.kind = "public" => e # Inputs!Plain
    BY Fielded
  <2>2. e.kind = "public" => e \notin PgOnes /\ e \notin GrpcOnes
    BY DEF PgOnes, GrpcOnes
  <2>3. e.kind = "public" => e \in PublicOnes
    BY <2>1, <2>2, ErrorKinds
  <2>4. e \in PublicOnes => e.status \in Inputs!Constructors \cup {503}
    BY DEF PublicOnes
  <2>5. e.kind = "public" => e.status \in {400, 401, 403, 404, 409, 500, 503}
    BY <2>3, <2>4 DEF Inputs!Constructors
  <2> QED BY <2>5, PublicIs DEF Taken
<1>5. rest.status = p.status /\ Inputs!RestStatus(e, p.status) = p.status
  BY <1>4, RestIs DEF Inputs!RestStatus
<1>6. e = Inputs!Grpc("Unavailable") => p.status = 503 /\ e # Inputs!Pg("transient")
  <2> SUFFICES ASSUME e = Inputs!Grpc("Unavailable") PROVE p.status = 503 /\ e # Inputs!Pg("transient")
    OBVIOUS
  <2>1. e.kind = "grpc" /\ e.status = 0 /\ e.name = "Unavailable"
    BY Fielded
  <2>2. Inputs!Pg("transient").kind = "pg"
    BY Fielded
  <2> QED BY <2>1, <2>2, GrpcIs, StatusNames DEF Taken
<1>7. rest.level = "error" <=> p.level = "error" \/ e = Inputs!Grpc("Unavailable")
  <2>1. rest.level = IF p.status >= 500 THEN Inputs!Captured(e) ELSE "nothing"
    BY <1>5, RestIs
  <2> HIDE DEF p, rest
  <2> QED BY <1>1, <1>6, <2>1, CapturedIs
<1>8. unknown.kind = "grpc" /\ unknown.status = 0 /\ unknown.name = "Unknown"
  BY Fielded
<1>9. /\ unknown # Inputs!Grpc("Unauthenticated") /\ Inputs!PublicStatus(unknown) = 0
      /\ ~Inputs!GrpcPublic(unknown) /\ Inputs!Captured(unknown) = "error"
  <2>1. "Unknown" \notin DOMAIN Inputs!GrpcStatus
    BY StatusNames
  <2>2. Inputs!Grpc("Unauthenticated").name = "Unauthenticated"
    BY Fielded
  <2> HIDE DEF unknown
  <2> QED BY <1>8, <2>1, <2>2, Transient DEF Inputs!PublicStatus, Inputs!AsPublicError, Inputs!GrpcPublic
<1>10. Inputs!Across(e) = IF e.kind = "grpc" THEN e ELSE unknown
  BY DEF Inputs!Across
<1>11. Said(unknown).level = "error" /\ Said(unknown).message = "masked"
  BY <1>9, PresentedIs
<1>12. Inputs!Grouped(Inputs!Across(e)) => Inputs!Grouped(e)
  <2>1. ~Inputs!Grouped(unknown)
    <3> HIDE DEF unknown
    <3> QED BY <1>8, <1>9 DEF Inputs!Grouped
  <2> QED BY <1>10, <2>1
<1>13. far = p <=> e.kind = "grpc" \/ (p.message = "masked" /\ p.level = "error")
  <2>1. CASE e.kind = "grpc"
    BY <1>10, <2>1
  <2>2. CASE e.kind # "grpc" /\ p.message = "masked" /\ p.level = "error"
    <3>1. Inputs!PublicStatus(e) = 0 /\ ~Inputs!GrpcPublic(e)
      BY <1>1, <2>2
    <3>2. Inputs!Captured(e) = "error"
      BY <2>2, <3>1, PresentedIs
    <3>3. Said(unknown) = Said(e)
      BY <1>9, <3>1, <3>2, MaskedAlike
    <3> QED BY <1>10, <2>2, <3>3
  <2>3. CASE e.kind # "grpc" /\ ~(p.message = "masked" /\ p.level = "error")
    BY <1>10, <1>11, <2>3
  <2> QED BY <2>1, <2>2, <2>3
<1>14. p.level = "error" => far.level = "error"
  BY <1>10, <1>11
<1>15. Inputs!Across(Inputs!Across(e)) = Inputs!Across(e)
  <2> HIDE DEF unknown
  <2> QED BY <1>8, <1>10 DEF Inputs!Across, unknown
<1> HIDE DEF p, far, rest
<1> QED BY <1>1, <1>2, <1>3, <1>5, <1>7, <1>12, <1>13, <1>14, <1>15 DEF p, far, rest

LEMMA NoErrorIs == Taken(Inputs!NoError, 500, "masked", "error")
<1> DEFINE e == Inputs!NoError
<1>1. e.kind = "none" /\ e.status = 0
  BY DEF Inputs!NoError, Inputs!Err
<1> HIDE DEF e
<1>2. Inputs!PublicStatus(e) = 0 /\ ~Inputs!GrpcPublic(e)
  BY <1>1 DEF Inputs!PublicStatus, Inputs!AsPublicError, Inputs!GrpcPublic
<1>3. Taken(e, 500, "masked", "error")
  BY <1>1, <1>2, Transient, PresentedIs DEF Taken
<1> QED BY <1>3 DEF e

\* What the directives say agrees.
LEMMA GuardsAgree == Inputs!DirectivesAgree
<1> DEFINE nobody == Inputs!Public(401, "")
           unresolved == Inputs!Public(503, "PERMS_UNRESOLVED")
           missing == Inputs!Public(403, "")
<1>1. /\ nobody.kind = "public" /\ nobody.status = 401
      /\ unresolved.kind = "public" /\ unresolved.status = 503
      /\ missing.kind = "public" /\ missing.status = 403
      /\ Inputs!NoError.kind = "none" /\ Inputs!Plain.kind = "plain"
  <2>1. nobody.kind = "public" /\ nobody.status = 401
    BY DEF Inputs!Public, Inputs!Err
  <2>2. unresolved.kind = "public" /\ unresolved.status = 503
    BY Fielded
  <2>3. missing.kind = "public" /\ missing.status = 403
    BY DEF Inputs!Public, Inputs!Err
  <2>4. Inputs!NoError.kind = "none" /\ Inputs!Plain.kind = "plain"
    BY Fielded
  <2> QED BY <2>1, <2>2, <2>3, <2>4, Zenon
<1> SUFFICES ASSUME NEW a \in Inputs!Actors
             PROVE  LET perm == Inputs!HasPermDirective(a)
                    IN /\ Said(perm).status = 403 => a.perms = "missing" /\ ~a.root
                       /\ a.perms = "unresolved" => perm \in {Inputs!NoError, nobody, unresolved}
                       /\ \A t \in BOOLEAN : Inputs!AuthDirective(a, t) = Inputs!NoError => perm # nobody
                       /\ a.guest => Inputs!AuthDirective(a, TRUE) # Inputs!NoError
                       /\ ~a.known <=> perm = nobody
                       /\ \A e \in {Inputs!HasRoleDirective(a), Inputs!AuthDirective(a, FALSE)}
                                     \ {Inputs!NoError, nobody} :
                            Said(e).message = "masked" /\ Said(e).level = "error"
  BY DEF Inputs!DirectivesAgree, Said
<1> DEFINE perm == Inputs!HasPermDirective(a)
<1>2. /\ a.known \in BOOLEAN /\ a.guest \in BOOLEAN /\ a.root \in BOOLEAN
      /\ a.perms \in {"granted", "missing", "unresolved"}
  BY DEF Inputs!Actors
<1>3. ~a.known => perm = nobody
  BY DEF Inputs!HasPermDirective
<1>4. a.known /\ (a.guest \/ a.root) => perm = Inputs!NoError
  BY DEF Inputs!HasPermDirective
<1>5. a.known /\ ~(a.guest \/ a.root) /\ a.perms = "unresolved" => perm = unresolved
  BY DEF Inputs!HasPermDirective
<1>6. a.known /\ ~(a.guest \/ a.root) /\ a.perms = "missing" => perm = missing
  BY DEF Inputs!HasPermDirective
<1>7. a.known /\ ~(a.guest \/ a.root) /\ a.perms = "granted" => perm = Inputs!NoError
  BY DEF Inputs!HasPermDirective
<1>8. Inputs!HasRoleDirective(a) \in {nobody, Inputs!NoError, Inputs!Plain}
  BY DEF Inputs!HasRoleDirective
<1>9. ~a.known \/ a.guest => \A t \in BOOLEAN : Inputs!AuthDirective(a, t) = nobody
  BY DEF Inputs!AuthDirective
<1>10. Inputs!AuthDirective(a, FALSE) \in {nobody, Inputs!Plain}
  BY DEF Inputs!AuthDirective
<1>11. Said(Inputs!Plain).message = "masked" /\ Said(Inputs!Plain).level = "error"
  BY PlainIs DEF Taken
<1> HIDE DEF nobody, unresolved, missing, perm
<1>12. Said(nobody).status = 401 /\ Said(unresolved).status = 503 /\ Said(Inputs!NoError).status = 500
  BY <1>1, PublicIs, NoErrorIs DEF Taken
<1>13. /\ nobody # Inputs!NoError /\ unresolved # Inputs!NoError /\ missing # Inputs!NoError
       /\ unresolved # nobody /\ missing # nobody
  BY <1>1
<1>14. Said(perm).status = 403 => a.perms = "missing" /\ ~a.root
  BY <1>2, <1>3, <1>4, <1>5, <1>7, <1>12
<1>15. a.perms = "unresolved" => perm \in {Inputs!NoError, nobody, unresolved}
  BY <1>2, <1>3, <1>4, <1>5
<1>16. ~a.known <=> perm = nobody
  BY <1>2, <1>3, <1>4, <1>5, <1>6, <1>7, <1>13
<1>17. \A t \in BOOLEAN : Inputs!AuthDirective(a, t) = Inputs!NoError => perm # nobody
  BY <1>9, <1>13, <1>16, Zenon
<1>18. a.guest => Inputs!AuthDirective(a, TRUE) # Inputs!NoError
  BY <1>9, <1>13, Zenon
<1>19. \A e \in {Inputs!HasRoleDirective(a), Inputs!AuthDirective(a, FALSE)} \ {Inputs!NoError, nobody} :
         Said(e).message = "masked" /\ Said(e).level = "error"
  BY <1>8, <1>10, <1>11, Zenon
<1> QED BY <1>14, <1>15, <1>16, <1>17, <1>18, <1>19, Zenon DEF perm

LEMMA ValueIs ==
  ASSUME NEW v \in Inputs!Values
  PROVE  /\ v.num \in Int /\ v.size \in Int
         /\ v.kind = "num" => v.num >= 0
<1>1. CASE v = Inputs!Nil
  BY <1>1 DEF Inputs!Nil, Inputs!Val
<1>2. CASE v \in [kind : {"num"}, num : {0, 1, 2, 91, 181}, size : {1}, good : BOOLEAN]
  BY <1>2
<1>3. CASE v \in [kind : {"str"}, num : {-1}, size : 0..2, good : BOOLEAN]
  BY <1>3
<1>4. CASE v \in [kind : {"str"}, num : {0, 1, 91}, size : {1}, good : BOOLEAN]
  BY <1>4
<1>5. CASE v \in [kind : {"blank"}, num : {-1}, size : 1..2, good : BOOLEAN]
  BY <1>5
<1>6. CASE v \in [kind : {"list", "slice"}, num : {-1}, size : 0..2, good : BOOLEAN]
  BY <1>6
<1>7. CASE v \in [kind : {"other"}, num : {-1}, size : 1..2, good : BOOLEAN]
  BY <1>7
<1>8. CASE v = Inputs!Val("nilPointer", -1, 0, FALSE)
  BY <1>8 DEF Inputs!Val
<1> QED BY <1>1, <1>2, <1>3, <1>4, <1>5, <1>6, <1>7, <1>8, Zenon DEF Inputs!Values

LEMMA RankIs ==
  ASSUME NEW v, v.num \in Int, v.size \in Int
  PROVE  Inputs!Rank(v) \in Int
<1>1. CASE v.num >= 0
  BY <1>1 DEF Inputs!Rank
<1>2. CASE ~(v.num >= 0)
  <2>1. Inputs!Rank(v) \in {v.size - 3, 200, 201, 202 + v.size}
    BY <1>2 DEF Inputs!Rank
  <2> QED BY <2>1
<1> QED BY <1>1, <1>2

\* Each rule breaks in its own way only.
LEMMA LengthAlone ==
  ASSUME NEW k, NEW v, NEW o,
         NEW r \in {"len", "minLen", "maxLen", "minItems", "maxItems", "notEmpty"}
  PROVE  Inputs!Breaks(r, k, v, o, "unknown") <=> v.kind # "nil" /\ Inputs!Length(r, k, v)
<1>1. ~Inputs!CrossField(r, v, o)
  BY DEF Inputs!CrossField
<1>2. ~Inputs!Comparison(r, v, o)
  BY DEF Inputs!Comparison
<1>3. ~Inputs!Format(r, v) /\ ~Inputs!Content(r, v) /\ ~Inputs!Coordinate(r, v) /\ ~Inputs!Enum(r, v)
  BY DEF Inputs!Format, Inputs!Content, Inputs!Coordinate, Inputs!Enum
<1>4. ~Inputs!Numeric(r, k, v)
  BY DEF Inputs!Numeric
<1>5. ~Inputs!User(r, v, "unknown")
  BY DEF Inputs!User
<1> QED BY <1>1, <1>2, <1>3, <1>4, <1>5 DEF Inputs!Breaks

LEMMA NumericAlone ==
  ASSUME NEW k, NEW v, NEW o, NEW r \in {"min", "max", "lt", "gt"}
  PROVE  Inputs!Breaks(r, k, v, o, "unknown") <=> v.kind # "nil" /\ Inputs!Numeric(r, k, v)
<1>1. ~Inputs!CrossField(r, v, o)
  BY DEF Inputs!CrossField
<1>2. ~Inputs!Comparison(r, v, o)
  BY DEF Inputs!Comparison
<1>3. ~Inputs!Format(r, v) /\ ~Inputs!Content(r, v) /\ ~Inputs!Coordinate(r, v) /\ ~Inputs!Enum(r, v)
  BY DEF Inputs!Format, Inputs!Content, Inputs!Coordinate, Inputs!Enum
<1>4. ~Inputs!Length(r, k, v)
  BY DEF Inputs!Length
<1>5. ~Inputs!User(r, v, "unknown")
  BY DEF Inputs!User
<1> QED BY <1>1, <1>2, <1>3, <1>4, <1>5 DEF Inputs!Breaks

LEMMA ComparisonAlone ==
  ASSUME NEW k, NEW v, NEW o, NEW r \in {"eqField", "neField", "gtField", "ltField"}
  PROVE  Inputs!Breaks(r, k, v, o, "unknown") <=> v.kind # "nil" /\ Inputs!Comparison(r, v, o)
<1>1. ~Inputs!CrossField(r, v, o)
  BY DEF Inputs!CrossField
<1>2. ~Inputs!Numeric(r, k, v)
  BY DEF Inputs!Numeric
<1>3. ~Inputs!Format(r, v) /\ ~Inputs!Content(r, v) /\ ~Inputs!Coordinate(r, v) /\ ~Inputs!Enum(r, v)
  BY DEF Inputs!Format, Inputs!Content, Inputs!Coordinate, Inputs!Enum
<1>4. ~Inputs!Length(r, k, v)
  BY DEF Inputs!Length
<1>5. ~Inputs!User(r, v, "unknown")
  BY DEF Inputs!User
<1> QED BY <1>1, <1>2, <1>3, <1>4, <1>5 DEF Inputs!Breaks

LEMMA RequiredAlone ==
  ASSUME NEW k, NEW v, NEW o, NEW r \in {"requiredWith", "requiredWithout", "excludedWith"}
  PROVE  Inputs!Breaks(r, k, v, o, "unknown") <=> Inputs!CrossField(r, v, o)
<1>1. ~Inputs!Comparison(r, v, o)
  BY DEF Inputs!Comparison
<1>2. ~Inputs!Numeric(r, k, v)
  BY DEF Inputs!Numeric
<1>3. ~Inputs!Format(r, v) /\ ~Inputs!Content(r, v) /\ ~Inputs!Coordinate(r, v) /\ ~Inputs!Enum(r, v)
  BY DEF Inputs!Format, Inputs!Content, Inputs!Coordinate, Inputs!Enum
<1>4. ~Inputs!Length(r, k, v)
  BY DEF Inputs!Length
<1>5. ~Inputs!User(r, v, "unknown")
  BY DEF Inputs!User
<1> QED BY <1>1, <1>2, <1>3, <1>4, <1>5 DEF Inputs!Breaks

LEMMA RulesHold == Inputs!RulesAgree
<1> SUFFICES ASSUME NEW v \in Inputs!Values, NEW o \in Inputs!Values \cup {Inputs!Absent}, NEW k \in 0..2
             PROVE  LET breaks(r) == Inputs!Breaks(r, k, v, o, "unknown")
                    IN /\ breaks("len") <=> breaks("minLen") \/ breaks("maxLen")
                       /\ v.kind = "list" => (breaks("minItems") <=> breaks("minLen"))
                                          /\ (breaks("maxItems") <=> breaks("maxLen"))
                       /\ v.kind = "num" => (breaks("min") <=> ~breaks("lt")) /\ (breaks("max") <=> ~breaks("gt"))
                       /\ v.kind # "nil" /\ o.kind # "absent" =>
                            /\ breaks("eqField") <=> ~breaks("neField")
                            /\ breaks("gtField") \/ breaks("ltField")
                            /\ (breaks("gtField") /\ breaks("ltField")) <=> ~breaks("eqField")
                       /\ Inputs!Empty(v) => (breaks("requiredWith") <=> ~breaks("requiredWithout"))
                       /\ Inputs!Empty(v) /\ v.kind # "nil" => breaks("notEmpty")
                       /\ v.kind \in Inputs!Unmeasured =>
                            /\ \A r \in {"requiredWith", "requiredWithout", "notEmpty", "minLen",
                                       "maxLen", "len", "minItems", "maxItems"} : ~breaks(r)
                            /\ breaks("excludedWith") <=> Inputs!Present(o)
  BY DEF Inputs!RulesAgree
<1> DEFINE breaks(r) == Inputs!Breaks(r, k, v, o, "unknown")
<1>1. /\ v.num \in Int /\ v.size \in Int
      /\ v.kind = "num" => v.num >= 0
  BY ValueIs
<1>2. /\ breaks("len") <=> v.kind # "nil" /\ v.kind \in Inputs!Texts \cup {"list"} /\ v.size # k
      /\ breaks("minLen") <=> v.kind # "nil" /\ v.kind \in Inputs!Texts \cup {"list"} /\ v.size < k
      /\ breaks("maxLen") <=> v.kind # "nil" /\ v.kind \in Inputs!Texts \cup {"list"} /\ v.size > k
      /\ breaks("minItems") <=> v.kind # "nil" /\ v.kind = "list" /\ v.size < k
      /\ breaks("maxItems") <=> v.kind # "nil" /\ v.kind = "list" /\ v.size > k
      /\ breaks("notEmpty") <=> v.kind # "nil" /\ v.kind \in Inputs!Texts \cup {"list"} /\ Inputs!Empty(v)
  BY LengthAlone DEF Inputs!Length
<1>3. /\ breaks("min") <=> v.kind # "nil" /\ v.kind = "num" /\ v.num < k
      /\ breaks("max") <=> v.kind # "nil" /\ v.kind = "num" /\ v.num > k
      /\ breaks("lt") <=> v.kind # "nil" /\ v.num >= 0 /\ v.num >= k
      /\ breaks("gt") <=> v.kind # "nil" /\ v.num >= 0 /\ v.num <= k
  BY NumericAlone DEF Inputs!Numeric
<1>4. v.kind # "nil" /\ o.kind # "absent" =>
        /\ breaks("eqField") <=> Inputs!Rank(v) # Inputs!Rank(o)
        /\ breaks("neField") <=> Inputs!Rank(v) = Inputs!Rank(o)
        /\ breaks("gtField") <=> Inputs!Rank(v) <= Inputs!Rank(o)
        /\ breaks("ltField") <=> Inputs!Rank(v) >= Inputs!Rank(o)
  BY ComparisonAlone DEF Inputs!Comparison
<1>5. /\ breaks("requiredWith") <=> Inputs!Present(o) /\ Inputs!Empty(v)
      /\ breaks("requiredWithout") <=> ~Inputs!Present(o) /\ Inputs!Empty(v)
      /\ breaks("excludedWith") <=> Inputs!Present(o) /\ ~Inputs!Empty(v)
  BY RequiredAlone DEF Inputs!CrossField
<1>6. o.kind # "absent" => Inputs!Rank(v) \in Int /\ Inputs!Rank(o) \in Int
  <2>1. o.kind # "absent" => o \in Inputs!Values
    BY DEF Inputs!Absent, Inputs!Val
  <2> QED BY <1>1, <2>1, ValueIs, RankIs
<1>7. Inputs!Empty(v) /\ v.kind # "nil" => v.kind \in Inputs!Texts \cup {"list"}
  BY DEF Inputs!Empty, Inputs!Texts
<1> HIDE DEF breaks
<1>8. breaks("len") <=> breaks("minLen") \/ breaks("maxLen")
  BY <1>1, <1>2
<1>9. v.kind = "list" => (breaks("minItems") <=> breaks("minLen")) /\ (breaks("maxItems") <=> breaks("maxLen"))
  BY <1>2
<1>10. v.kind = "num" => (breaks("min") <=> ~breaks("lt")) /\ (breaks("max") <=> ~breaks("gt"))
  BY <1>1, <1>3
<1>11. v.kind # "nil" /\ o.kind # "absent" =>
         /\ breaks("eqField") <=> ~breaks("neField")
         /\ breaks("gtField") \/ breaks("ltField")
         /\ (breaks("gtField") /\ breaks("ltField")) <=> ~breaks("eqField")
  BY <1>4, <1>6
<1>12. Inputs!Empty(v) => (breaks("requiredWith") <=> ~breaks("requiredWithout"))
  BY <1>5
<1>13. Inputs!Empty(v) /\ v.kind # "nil" => breaks("notEmpty")
  BY <1>2, <1>7
<1>14. ASSUME v.kind \in Inputs!Unmeasured
       PROVE  /\ \A r \in {"requiredWith", "requiredWithout", "notEmpty", "minLen", "maxLen", "len",
                          "minItems", "maxItems"} : ~breaks(r)
              /\ breaks("excludedWith") <=> Inputs!Present(o)
  <2>1. ~Inputs!Empty(v) /\ v.kind \notin Inputs!Texts \cup {"list"}
    BY <1>14 DEF Inputs!Unmeasured, Inputs!Empty, Inputs!Texts
  <2>2. /\ ~breaks("len") /\ ~breaks("minLen") /\ ~breaks("maxLen")
        /\ ~breaks("minItems") /\ ~breaks("maxItems") /\ ~breaks("notEmpty")
    BY <1>2, <2>1
  <2>3. /\ ~breaks("requiredWith") /\ ~breaks("requiredWithout")
        /\ breaks("excludedWith") <=> Inputs!Present(o)
    BY <1>5, <2>1
  <2> QED BY <2>2, <2>3
<1> QED BY <1>8, <1>9, <1>10, <1>11, <1>12, <1>13, <1>14 DEF breaks

-----------------------------------------------------------------------------
\* An operation.
LEMMA InputInitInv ==
  ASSUME Inputs!ValidationAssumption, Inputs!ValidationInit
  PROVE  InputIInv
<1> USE DEF Inputs!ValidationInit, Inputs!OperationMiddleware
<1>1. InputsTyped
  <2>1. unread \in [RootFields -> SUBSET InputNames]
    BY DEF Inputs!ValidationAssumption, InputNames
  <2>2. errors \in [InputNames -> SUBSET Inputs!Rules]
    BY DEF InputNames
  <2>3. \A f \in RootFields : broke[f] \in SUBSET (InputNames \X Inputs!Rules)
    OBVIOUS
  <2> QED BY <2>1, <2>2, <2>3 DEF InputsTyped, Places
<1>2. Collected /\ OneByOne
  BY DEF Collected, OneByOne, InputNames
<1>3. Failing /\ Replying
  BY DEF Failing, Replying
<1> QED BY <1>1, <1>2, <1>3 DEF InputIInv

\* A step that leaves the collector alone.
LEMMA CollectedStays ==
  ASSUME InputIInv, UNCHANGED <<errors, broke>>
  PROVE  Collected' /\ (Inputs!HasErrors' <=> Inputs!HasErrors)
BY DEF InputIInv, Collected, Inputs!HasErrors

LEMMA BeginKeeps ==
  ASSUME Inputs!ValidationAssumption, InputIInv, NEW f \in RootFields, Inputs!Begin(f)
  PROVE  InputIInv'
<1> USE DEF InputIInv, Inputs!Begin
<1>1. InputsTyped'
  BY DEF InputsTyped, Places
<1>2. OneByOne'
  BY DEF OneByOne, InputsTyped, Inputs!ValidationAssumption
<1>3. Failing'
  <2>1. f \notin malformed
    BY DEF Failing
  <2> QED BY <2>1, CollectedStays DEF Failing, InputsTyped
<1>4. Replying'
  BY DEF Replying
<1> QED BY <1>1, <1>2, <1>3, <1>4, CollectedStays

LEMMA ValidateKeeps ==
  ASSUME Inputs!ValidationAssumption, InputIInv, NEW f \in RootFields, NEW n \in unread[f],
         NEW given, NEW o, NEW u, Inputs!Validate(f, n, given, o, u)
  PROVE  InputIInv'
<1> DEFINE found == {r \in RulesOf[n] : Inputs!Breaks(r, ArgOf[n], Inputs!derefPointer(given), o, u)}
<1>1. /\ place[f] = "inputs"
      /\ unread' = [unread EXCEPT ![f] = @ \ {n}]
      /\ errors' = Inputs!Store(n, found)
      /\ broke' = [broke EXCEPT ![f] = @ \cup ({n} \X found)]
      /\ UNCHANGED <<serial, place, malformed, ran, failure, replied, heard>>
  BY DEF Inputs!Validate
<1>2. n \in InputNames
  BY DEF InputIInv, InputsTyped
<1>3. found \subseteq Inputs!Rules
  BY <1>2 DEF Inputs!ValidationAssumption, InputNames
<1> HIDE DEF found
<1>4. /\ errors' \in [InputNames -> SUBSET Inputs!Rules]
      /\ errors'[n] = errors[n] \cup found
      /\ \A m \in InputNames \ {n} : errors'[m] = errors[m]
  BY <1>1, <1>2, <1>3 DEF Inputs!Store, Inputs!Add, InputIInv, InputsTyped
<1>5. \A b \in {n} \X found : b \in InputNames \X Inputs!Rules /\ b[1] = n /\ b[2] \in found
  BY <1>2, <1>3
<1>6. broke'[f] = broke[f] \cup ({n} \X found) /\ \A g \in RootFields \ {f} : broke'[g] = broke[g]
  BY <1>1 DEF InputIInv, InputsTyped
<1>7. InputsTyped'
  <2>1. broke' \in [RootFields -> SUBSET (InputNames \X Inputs!Rules)]
    BY <1>1, <1>5 DEF InputIInv, InputsTyped
  <2>2. unread' \in [RootFields -> SUBSET InputNames]
    BY <1>1 DEF InputIInv, InputsTyped
  <2> QED BY <1>1, <1>4, <2>1, <2>2 DEF InputIInv, InputsTyped
<1>8. \A m \in InputNames : errors[m] \subseteq errors'[m]
  BY <1>4
<1>9. Collected'
  <2>1. ASSUME NEW g \in RootFields, NEW b \in broke'[g] PROVE b[2] \in errors'[b[1]]
    <3>1. CASE b \in broke[g]
      <4>1. b \in InputNames \X Inputs!Rules
        BY <3>1 DEF InputIInv, InputsTyped
      <4>2. b[1] \in InputNames /\ b[2] \in errors[b[1]]
        BY <3>1, <4>1 DEF InputIInv, Collected
      <4> QED BY <1>8, <4>2
    <3>2. CASE b \notin broke[g]
      <4>1. b \in {n} \X found
        BY <1>6, <2>1, <3>2
      <4> QED BY <1>4, <1>5, <4>1
    <3> QED BY <3>1, <3>2
  <2>2. ASSUME NEW m \in InputNames, errors'[m] # {} PROVE \E g \in RootFields : broke'[g] # {}
    <3>1. CASE errors[m] # {}
      <4>1. PICK g \in RootFields : broke[g] # {}
        BY <3>1 DEF InputIInv, Collected
      <4> QED BY <1>6, <4>1
    <3>2. CASE errors[m] = {}
      <4>1. PICK r : r \in found
        BY <1>4, <2>2, <3>2
      <4>2. <<n, r>> \in {n} \X found
        BY <4>1
      <4> QED BY <1>6, <4>2
    <3> QED BY <3>1, <3>2
  <2> QED BY <2>1, <2>2 DEF Collected
<1>10. Inputs!HasErrors => Inputs!HasErrors'
  BY <1>4, <1>8 DEF Inputs!HasErrors, InputIInv, InputsTyped
<1>11. OneByOne'
  BY <1>1, <1>6 DEF InputIInv, OneByOne
<1>12. Failing'
  BY <1>1, <1>10 DEF InputIInv, Failing
<1>13. Replying'
  <2>1. replied[f] = "none"
    BY <1>1 DEF InputIInv, Failing
  <2>2. \A g \in RootFields : broke[g] # {} => broke'[g] # {}
    BY <1>6
  <2> QED BY <1>1, <1>6, <2>1, <2>2 DEF InputIInv, Replying
<1> QED BY <1>7, <1>9, <1>11, <1>12, <1>13 DEF InputIInv

LEMMA MalformedKeeps ==
  ASSUME InputIInv, NEW f \in RootFields, Inputs!Malformed(f)
  PROVE  InputIInv'
<1> USE DEF InputIInv, Inputs!Malformed
<1>1. Inputs!Plain \in Inputs!Errors /\ Inputs!Plain # Inputs!NoError
  BY Fielded DEF Inputs!Errors
<1>2. InputsTyped'
  BY <1>1 DEF InputsTyped, Places
<1>3. OneByOne'
  BY DEF OneByOne, InputsTyped
<1>4. Failing'
  BY <1>1, CollectedStays DEF Failing, InputsTyped
<1>5. replied[f] = "none" /\ replied' = replied /\ heard' = heard /\ broke' = broke /\ serial' = serial
  BY DEF Failing
<1>6. \A g \in RootFields : replied[g] # "none" => failure'[g] = failure[g] /\ (g \in malformed' <=> g \in malformed)
  BY <1>5 DEF InputsTyped
<1>7. Replying'
  BY <1>5, <1>6 DEF Replying
<1> QED BY <1>2, <1>3, <1>4, <1>7, CollectedStays

LEMMA ResolveKeeps ==
  ASSUME Inputs!ValidationAssumption, InputIInv, NEW f \in RootFields,
         NEW e \in Failures \cup {Inputs!NoError}, Inputs!Resolve(f, e)
  PROVE  InputIInv'
<1> USE DEF InputIInv, Inputs!Resolve
<1>1. e \in Inputs!Errors \cup {Inputs!NoError}
  BY DEF Inputs!ValidationAssumption
<1>2. InputsTyped'
  BY <1>1 DEF InputsTyped, Places
<1>3. OneByOne'
  BY DEF OneByOne, InputsTyped
<1>4. Failing'
  BY CollectedStays DEF Failing, InputsTyped
<1>5. replied[f] = "none" /\ replied' = replied /\ heard' = heard /\ broke' = broke /\ serial' = serial
  BY DEF Failing
<1>6. \A g \in RootFields : replied[g] # "none" => failure'[g] = failure[g] /\ (g \in malformed' <=> g \in malformed)
  BY <1>5 DEF InputsTyped
<1>7. Replying'
  BY <1>5, <1>6 DEF Replying
<1> QED BY <1>2, <1>3, <1>4, <1>7, CollectedStays

\* What is broken is in the collector.
LEMMA BrokenIsSeen ==
  ASSUME InputIInv
  PROVE  /\ \A f \in RootFields : broke[f] # {} => Inputs!HasErrors
         /\ Inputs!HasErrors => \E f \in RootFields : broke[f] # {}
<1>1. ASSUME NEW f \in RootFields, broke[f] # {} PROVE Inputs!HasErrors
  <2>1. PICK b : b \in broke[f]
    BY <1>1
  <2>2. b \in InputNames \X Inputs!Rules
    BY <2>1 DEF InputIInv, InputsTyped
  <2>3. b[1] \in InputNames /\ b[2] \in errors[b[1]]
    BY <2>1, <2>2 DEF InputIInv, Collected
  <2> QED BY <2>3 DEF Inputs!HasErrors, InputIInv, InputsTyped
<1>2. Inputs!HasErrors => \E f \in RootFields : broke[f] # {}
  BY DEF Inputs!HasErrors, InputIInv, InputsTyped, Collected
<1> QED BY <1>1, <1>2

LEMMA CheckKeeps ==
  ASSUME Inputs!ValidationAssumption, InputIInv, NEW f \in RootFields, Inputs!Check(f)
  PROVE  InputIInv'
<1> USE DEF InputIInv, Inputs!Check
<1>1. InputsTyped'
  BY DEF InputsTyped, Places
<1>2. OneByOne'
  <2>1. place[f] = "check" /\ place'[f] \in {"failed", "done"}
    BY DEF InputsTyped
  <2>2. \A g \in RootFields \ {f} : place'[g] = place[g]
    BY DEF InputsTyped
  <2>3. serial' = serial /\ broke' = broke
    OBVIOUS
  <2>4. \A g \in RootFields : Before[g] \subseteq RootFields
    BY DEF Inputs!ValidationAssumption
  <2>5. \A g \in RootFields : place[g] = "done" => place'[g] = "done"
    BY <2>1, <2>2
  <2>6. \A g \in RootFields : place[g] = "waiting" <=> place'[g] = "waiting"
    BY <2>1, <2>2
  <2>7. \A g \in RootFields :
         /\ place[g] = "waiting" => broke[g] = {}
         /\ serial /\ place[g] # "waiting" => \A h \in Before[g] : place[h] = "done"
    BY DEF OneByOne
  <2> QED BY ONLY <2>3, <2>4, <2>5, <2>6, <2>7 DEF OneByOne
<1>3. Failing'
  BY CollectedStays DEF Failing, InputsTyped
<1>4. ~Inputs!HasErrors => broke[f] = {}
  BY BrokenIsSeen
<1>5. f \notin malformed /\ heard[f] = "nothing"
  BY DEF Failing
<1>6. Replying'
  BY <1>4, <1>5 DEF Replying, InputsTyped
<1> QED BY <1>1, <1>2, <1>3, <1>6, CollectedStays

LEMMA PresentErrorKeeps ==
  ASSUME Inputs!ValidationAssumption, InputIInv, NEW f \in RootFields, Inputs!PresentError(f)
  PROVE  InputIInv'
<1> DEFINE p == Said(failure[f])
<1>1. /\ place[f] = "failed" /\ place' = [place EXCEPT ![f] = "done"]
      /\ Inputs!HasErrors => replied' = [replied EXCEPT ![f] = "invalid"] /\ UNCHANGED heard
      /\ ~Inputs!HasErrors =>
           /\ replied' = [replied EXCEPT ![f] = IF p.status >= 500 THEN "fault" ELSE "refused"]
           /\ heard' = [heard EXCEPT ![f] = p.level]
      /\ UNCHANGED <<serial, unread, errors, broke, malformed, ran, failure>>
  BY DEF Inputs!PresentError, Said
<1>2. replied[f] = "none" /\ heard[f] = "nothing" /\ (failure[f] # Inputs!NoError \/ Inputs!HasErrors)
  BY <1>1 DEF InputIInv, Failing
<1>3. ~Inputs!HasErrors => p.level \in {"nothing", "warning", "error"}
  <2>1. ~Inputs!HasErrors => failure[f] \in Inputs!Errors
    BY <1>2 DEF InputIInv, InputsTyped
  <2> QED BY <2>1, StatusSays
<1> HIDE DEF p
<1>4. InputsTyped'
  BY <1>1, <1>3 DEF InputIInv, InputsTyped, Places
<1>5. OneByOne'
  BY <1>1 DEF InputIInv, OneByOne, InputsTyped
<1>6. replied'[f] # "none"
  BY <1>1 DEF InputIInv, InputsTyped
<1>7. \A g \in RootFields \ {f} : place'[g] = place[g] /\ replied'[g] = replied[g] /\ heard'[g] = heard[g]
  BY <1>1 DEF InputIInv, InputsTyped
<1>8. place'[f] = "done"
  BY <1>1 DEF InputIInv, InputsTyped
<1>9. Failing'
  BY <1>1, <1>6, <1>7, <1>8, CollectedStays DEF InputIInv, Failing
<1>10. Replying'
  <2>1. ASSUME NEW g \in RootFields \ {f}
        PROVE  /\ replied'[g] = "result" =>
                    broke'[g] = {} /\ g \notin malformed' /\ failure'[g] = Inputs!NoError /\ heard'[g] = "nothing"
               /\ replied'[g] = "invalid" =>
                    /\ heard'[g] = "nothing"
                    /\ \E h \in RootFields : broke'[h] # {} /\ (serial' => h = g \/ h \in Before[g])
               /\ replied'[g] \in {"refused", "fault"} =>
                    /\ failure'[g] # Inputs!NoError
                    /\ heard'[g] = Said(failure'[g]).level
                    /\ replied'[g] = IF Said(failure'[g]).status >= 500 THEN "fault" ELSE "refused"
    BY <1>1, <1>7 DEF InputIInv, Replying
  <2>2. CASE Inputs!HasErrors
    <3>1. replied'[f] = "invalid" /\ heard'[f] = "nothing"
      BY <1>1, <1>2, <2>2 DEF InputIInv, InputsTyped
    <3>2. PICK g \in RootFields : broke[g] # {}
      BY <2>2, BrokenIsSeen
    <3>3. serial => g = f \/ g \in Before[f]
      <4> SUFFICES ASSUME serial, g # f, g \notin Before[f] PROVE FALSE
        OBVIOUS
      <4>1. f \in Before[g]
        BY DEF Inputs!ValidationAssumption
      <4>2. place[g] # "waiting"
        BY <3>2 DEF InputIInv, OneByOne
      <4>3. place[f] = "done"
        BY <4>1, <4>2 DEF InputIInv, OneByOne
      <4> QED BY <1>1, <4>3
    <3> QED BY <1>1, <2>1, <3>1, <3>2, <3>3 DEF Replying
  <2>3. CASE ~Inputs!HasErrors
    <3>1. heard'[f] = p.level /\ replied'[f] = IF p.status >= 500 THEN "fault" ELSE "refused"
      BY <1>1, <2>3 DEF InputIInv, InputsTyped
    <3>2. p = Said(failure'[f]) /\ failure'[f] # Inputs!NoError
      BY <1>1, <1>2, <2>3 DEF p
    <3> QED BY <2>1, <3>1, <3>2 DEF Replying
  <2> QED BY <2>2, <2>3
<1> QED BY <1>1, <1>4, <1>5, <1>9, <1>10, CollectedStays DEF InputIInv

LEMMA InputNextInv ==
  ASSUME Inputs!ValidationAssumption, InputIInv, [Inputs!ValidationNext]_inputVars
  PROVE  InputIInv'
<1>1. CASE UNCHANGED inputVars
  BY <1>1 DEF inputVars, InputIInv, InputsTyped, Collected, OneByOne, Failing, Replying, Inputs!HasErrors
<1> QED BY <1>1, BeginKeeps, ValidateKeeps, MalformedKeeps, ResolveKeeps, CheckKeeps, PresentErrorKeeps
     DEF Inputs!ValidationNext

\* The collector's promises and Sentry's.
LEMMA InputsHold ==
  ASSUME InputIInv
  PROVE  Inputs!ValidationSound
<1>1. Inputs!NothingSlips
  BY DEF Inputs!NothingSlips, InputIInv, Collected, Replying
<1>2. Inputs!RefusalsOwed
  BY DEF Inputs!RefusalsOwed, InputIInv, Replying
<1>3. Inputs!FaultsHeard
  <2> SUFFICES ASSUME NEW f \in RootFields
               PROVE  /\ heard[f] = "error" => replied[f] = "fault" /\ place[f] = "done"
                      /\ replied[f] \in {"refused", "fault"} => failure[f] # Inputs!NoError
                      /\ replied[f] = "fault" =>
                           heard[f] = Inputs!Captured(failure[f]) \/ failure[f] = Inputs!Grpc("Unavailable")
                      /\ replied[f] = "refused" => heard[f] = "warning"
                      /\ replied[f] \in {"result", "invalid"} => heard[f] = "nothing"
                      /\ (/\ place[f] = "done" /\ failure[f] # Inputs!NoError /\ heard[f] # "error"
                          /\ Said(failure[f]).level = "error") =>
                           replied[f] = "invalid" /\ \E g \in RootFields : broke[g] # {}
    BY DEF Inputs!FaultsHeard, Said
  <2> DEFINE p == Said(failure[f])
  <2>1. replied[f] \in {"none", "result", "invalid", "refused", "fault"}
    BY DEF InputIInv, InputsTyped
  <2>2. /\ place[f] # "done" => replied[f] = "none" /\ heard[f] = "nothing"
        /\ place[f] = "done" => replied[f] # "none"
    BY DEF InputIInv, Failing
  <2>3. /\ replied[f] = "result" => failure[f] = Inputs!NoError /\ heard[f] = "nothing"
        /\ replied[f] = "invalid" => heard[f] = "nothing" /\ \E g \in RootFields : broke[g] # {}
    BY DEF InputIInv, Replying
  <2>4. replied[f] \in {"refused", "fault"} =>
          /\ failure[f] # Inputs!NoError /\ heard[f] = p.level
          /\ replied[f] = IF p.status >= 500 THEN "fault" ELSE "refused"
    BY DEF InputIInv, Replying
  <2>5. failure[f] # Inputs!NoError =>
          /\ p.status >= 500 => p.level = Inputs!Captured(failure[f]) \/ failure[f] = Inputs!Grpc("Unavailable")
          /\ p.status < 500 => p.level = "warning"
          /\ p.status \in Int
    <3>1. failure[f] # Inputs!NoError => failure[f] \in Inputs!Errors
      BY DEF InputIInv, InputsTyped
    <3> QED BY <3>1, StatusSays
  <2> HIDE DEF p
  <2>6. replied[f] = "fault" => p.status >= 500
    BY <2>4
  <2>7. replied[f] = "refused" => p.level = "warning" /\ heard[f] = "warning"
    BY <2>4, <2>5
  <2>8. heard[f] = "error" => replied[f] = "fault"
    BY <2>1, <2>2, <2>3, <2>7
  <2>9. replied[f] = "fault" =>
          heard[f] = Inputs!Captured(failure[f]) \/ failure[f] = Inputs!Grpc("Unavailable")
    BY <2>4, <2>5, <2>6
  <2>10. (place[f] = "done" /\ failure[f] # Inputs!NoError /\ heard[f] # "error" /\ p.level = "error") =>
           replied[f] = "invalid"
    BY <2>1, <2>2, <2>3, <2>4
  <2> QED BY <2>2, <2>3, <2>4, <2>7, <2>8, <2>9, <2>10 DEF p
<1> QED BY <1>1, <1>2, <1>3, RulesHold, WaysAgree, GuardsAgree DEF Inputs!ValidationSound

-----------------------------------------------------------------------------
(* The whole: what rests keeps its invariant.                              *)

AccessIInv ==
  /\ RateIInv /\ GuestIInv /\ IdentityIInv
  /\ TenantIInv /\ PoolIInv /\ PoolsFit
  /\ SavedIInv /\ CondIInv /\ CodesIInv /\ AuditIInv /\ InputIInv

LEMMA Assumed ==
  /\ RateAssumption /\ GuestAssumption /\ IdentityAssumption /\ TenantAssumption /\ PoolAssumption
  /\ Saved!FilterAssumption /\ Query!ConditionsAssumption /\ Codes!CatalogAssumption
  /\ Audit!AuditAssumption /\ Inputs!ValidationAssumption
BY UserAccessAssumption

LEMMA AccessInit == Init => AccessIInv
<1> SUFFICES ASSUME Init PROVE AccessIInv
  OBVIOUS
<1>1. /\ RateInit /\ GuestInit /\ IdentityInit /\ TenantInit /\ PoolInit
      /\ Saved!Init /\ Query!ConditionsInit /\ Codes!Init
      /\ Audit!AuditInit /\ Inputs!ValidationInit
  BY DEF Init
<1> QED
  BY <1>1, Assumed, SavedInitInv, CondInitInv, CodesInitInv,
     AuditInitInv, InputInitInv, RateInitInv, GuestInitInv, IdentityInitInv, TenantInitInv, PoolInitInv,
     PoolsFitInit DEF AccessIInv

\* A step of the whole is a step of one part, or of none of these.
LEMMA AccessStep ==
  ASSUME [Next]_vars
  PROVE  /\ [RateNext]_limitVars /\ [GuestNext]_guestVars /\ [IdentityNext]_identityVars
         /\ [TenantNext]_tenantVars /\ [PoolNext]_poolVars
         /\ [Saved!Next]_savedVars /\ [Query!ConditionsNext]_queryVars /\ [Codes!Next]_codesVars
         /\ [Audit!AuditNext]_auditVars /\ [Inputs!ValidationNext]_inputVars
<1>1. CASE InLimit /\ RateNext
  BY <1>1 DEF InLimit, recording, calling
<1>2. CASE InGuest /\ GuestNext
  BY <1>2 DEF InGuest, recording, calling
<1>3. CASE InIdentity /\ IdentityNext
  BY <1>3 DEF InIdentity, deciding, recording
<1>4. CASE InTenant /\ TenantNext
  BY <1>4 DEF InTenant, deciding, calling
<1>5. CASE InPool /\ PoolNext
  BY <1>5 DEF InPool, deciding, recording
<1>6. CASE InCodes /\ Codes!Next
  BY <1>6 DEF InCodes, recording, calling
<1>10. CASE InSaved /\ Saved!Next
  BY <1>10 DEF InSaved, recording, calling
<1>7. CASE InList \/ InTimes
  BY <1>7 DEF InList, InTimes, deciding, calling
<1>11. CASE InInputs /\ Inputs!ValidationNext
  BY <1>11 DEF InInputs, deciding, calling
<1>12. CASE InAudit /\ Audit!AuditNext
  BY <1>12 DEF InAudit, deciding, calling
<1>8. CASE InQuery /\ Query!ConditionsNext
  BY <1>8 DEF InQuery, deciding, recording
<1>9. CASE UNCHANGED vars
  BY <1>9 DEF vars, deciding, recording, calling
<1> QED BY <1>1, <1>2, <1>3, <1>4, <1>5, <1>6, <1>7, <1>8, <1>9, <1>10, <1>11, <1>12 DEF Next

LEMMA AccessNext == AccessIInv /\ [Next]_vars => AccessIInv'
<1> SUFFICES ASSUME AccessIInv, [Next]_vars PROVE AccessIInv'
  OBVIOUS
<1> QED
  BY AccessStep, Assumed, RateNextInv, GuestNextInv, IdentityNextInv, TenantNextInv, PoolNextInv,
     SavedNextInv, CondNextInv, CodesNextInv, AuditNextInv, InputNextInv, PoolsFitNext DEF AccessIInv

\* The inductive invariant of what decides on a request.
THEOREM AccessInvariant == Spec => []AccessIInv
BY AccessInit, AccessNext, PTL DEF Spec

\* What a request is let through to: a period of a window's length admits twice the
\* ceiling at most, a link's access is logged, but for a failure, and whoever is at work
\* is who began (RateLimitMiddleware, maybeLogAccess, IdentifyUser, AuthClientInterceptor).
THEOREM RequestsSafe == Spec => []RequestsSound
<1>1. AccessIInv => RequestsSound
  BY Assumed, RateSafe, IdentitySafe DEF AccessIInv, RequestsSound, GuestIInv, GuestSound
<1> QED BY <1>1, AccessInvariant, PTL

\* Beside all the rest a user's step keeps to the rows of the user's company, but for the
\* two exceptions of Isolated: a stale Save's upsert, and a row created in a tenant table
\* under another company's id (applyScope, CompanyBase.BeforeCreate).
THEOREM IsolatesStill == Spec => Isolation
<1>1. AccessIInv /\ [Next]_vars => [Isolated]_tenantVars
  BY AccessStep, Assumed, StepIsolated DEF AccessIInv
<1> QED BY <1>1, AccessInvariant, PTL DEF Spec, Isolation

\* The rows of the tables: saved filters within their number, tenants with their own, queries
\* that find what was asked for, transactions that never wait for each other unseen (Create,
\* applyScope, OR, AND, NOT, WithTransaction).
THEOREM RowsSafe == Spec => []RowsSound
<1>1. ASSUME AccessIInv PROVE RowsSound
  <2>1. TenantSafe /\ PoolSound
    BY <1>1, Assumed, PoolSafe DEF AccessIInv, TenantIInv
  <2>2. Query!ConditionsSound
    BY <1>1, Assumed, CondSafe DEF AccessIInv
  <2>3. Saved!TypeOK /\ Saved!OverrunBounded
    BY <1>1, Assumed, SavedSafe DEF AccessIInv, SavedIInv
  <2> QED BY <2>1, <2>2, <2>3 DEF RowsSound, FiltersSound
<1> QED BY <1>1, AccessInvariant, PTL

\* After any changes of a role its codes let through what was granted and nothing else, are
\* the fewest that do, and lose no grant (RollupPermissions, CompactHierarchy,
\* ExpandPermissions, HasPermission).
THEOREM CodesSafe == Spec => []CodesSound
<1>1. AccessIInv => CodesSound
  BY Assumed, CodesHold DEF AccessIInv, CodesSound
<1> QED BY <1>1, AccessInvariant, PTL

\* Unless a producer left a gap, the changes of an entity's events join and end in the values
\* it was last published with, and no change of money is shown to who may not read it
\* (CalculateChanges, Classify, Stricter).
THEOREM AuditSafe == Spec => []AuditSound
<1>1. AccessIInv => AuditSound
  BY DEF AccessIInv, AuditIInv, AuditSound, Audit!AuditSound
<1> QED BY <1>1, AccessInvariant, PTL

\* Every rule an input broke is kept and refused, who is refused has it in its operation, a
\* server's fault is heard of and nothing else is, and the rules, the errors and the
\* directives agree (Directive, Middleware, NewErrorPresenter).
THEOREM InputSafe == Spec => []InputSound
<1>1. AccessIInv => InputSound
  BY InputsHold DEF AccessIInv, InputSound
<1> QED BY <1>1, AccessInvariant, PTL
=============================================================================
