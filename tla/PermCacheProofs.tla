--------------------------- MODULE PermCacheProofs ---------------------------
(* Proofs about PermCache: types, the bound on staleness and the flights,   *)
(* for every number of requests, replicas, Redis instances, attempts and    *)
(* writes.                                                                  *)
EXTENDS PermCache, FiniteSetTheorems, TLAPS

\* Replacing one value of a function keeps its type.
LEMMA Update ==
  ASSUME NEW S, NEW T, NEW f \in [S -> T], NEW x, NEW v \in T
  PROVE  [f EXCEPT ![x] = v] \in [S -> T]
  OBVIOUS

\* Every request has a store and a replica.
LEMMA Placed ==
  ASSUME NEW r \in Requests
  PROVE  ReplicaOf[r] \in Replicas /\ Store(r) \in Stores
  BY PermAssumption DEF Store

\* The misses that a tick adds are finitely many.
LEMMA ExpiringCount == Cardinality(Expiring) \in Nat
  <1>1. IsFiniteSet(Stores)
    BY PermAssumption
  <1>2. Expiring \subseteq Stores
    BY DEF Expiring
  <1> QED
    BY <1>1, <1>2, FS_Subset, FS_CardinalityType

\* Returning a list or an error keeps the types of what it writes.
LEMMA ReturnTyped ==
  ASSUME TypeOK, NEW rs, NEW v \in Lists, Return(rs, v)
  PROVE  /\ pc' \in [Requests -> Places]
         /\ served' \in [Requests -> Lists]
         /\ age' \in [Requests -> Nat]
  <1>1. v # NoList => superseded[v] \in Nat
    BY DEF TypeOK, Lists
  <1> QED
    BY <1>1 DEF TypeOK, Return, Places

\* Every variable keeps its type, whatever the interleaving.
THEOREM TypeCorrect == Spec => []TypeOK
  <1>1. Init => TypeOK
    <2> SUFFICES ASSUME Init PROVE TypeOK
      OBVIOUS
    <2>1. /\ 0 \in Versions /\ NoList \in Lists /\ "idle" \in Places
          /\ 0 \in 0 .. TTL /\ 0 \in 0 .. Lag /\ 0 \in 0 .. Attempts
      BY PermAssumption DEF Versions, Lists, Places
    <2> QED
      BY <2>1 DEF Init, TypeOK
  <1>2. TypeOK /\ [Next]_vars => TypeOK'
    <2> SUFFICES ASSUME TypeOK, [Next]_vars PROVE TypeOK'
      OBVIOUS
    <2> USE PermAssumption
    <2>1. CASE Write
      <3>1. grants' \in Versions
        BY <2>1 DEF Write, TypeOK, Versions
      <3>2. undeleted' \in BOOLEAN
        BY <2>1 DEF Write
      <3>3. UNCHANGED <<superseded, cached, left, pc, flights, held, wait, attempt,
                        served, age, calls, misses, blips, stops>>
        BY <2>1 DEF Write, storeVars, callVars, resultVars, faultVars
      <3> QED
        BY <3>1, <3>2, <3>3 DEF TypeOK
    <2>2. CASE Invalidate
      <3>1. undeleted' \in BOOLEAN
        BY <2>2 DEF Invalidate
      <3>2. cached' \in [Stores -> Lists]
        BY <2>2 DEF Invalidate, TypeOK, Lists
      <3>3. misses' \in Nat
        BY <2>2 DEF Invalidate, TypeOK
      <3>4. UNCHANGED <<grants, superseded, left, pc, flights, held, wait, attempt,
                        served, age, calls, blips, stops>>
        BY <2>2 DEF Invalidate, callVars, resultVars, faultVars
      <3> QED
        BY <3>1, <3>2, <3>3, <3>4 DEF TypeOK
    <2>3. CASE Tick
      <3>1. Cardinality(Expiring) \in Nat
        BY ExpiringCount
      <3>2. wait' \in [Requests -> 0 .. Lag]
        <4>1. \A r \in OnTheWire : wait[r] - 1 \in 0 .. Lag
          BY <2>3 DEF Tick, TypeOK, OnTheWire
        <4> QED
          BY <4>1, <2>3 DEF Tick, TypeOK
      <3>3. superseded' \in [Versions -> Nat]
        BY <2>3 DEF Tick, TypeOK
      <3>4. cached' \in [Stores -> Lists]
        BY <2>3 DEF Tick, TypeOK, Lists
      <3>5. misses' \in Nat
        BY <2>3, <3>1 DEF Tick, TypeOK
      <3>6. left' \in [Stores -> 0 .. TTL]
        BY <2>3 DEF Tick, TypeOK
      <3> QED
        BY <2>3, <3>2, <3>3, <3>4, <3>5, <3>6 DEF Tick, TypeOK, resultVars, faultVars
    <2>4. ASSUME NEW r \in Requests, GetHit(r) PROVE TypeOK'
      <3>1. cached[Store(r)] \in Lists
        BY Placed DEF TypeOK
      <3> QED
        BY <2>4, <3>1, ReturnTyped
        DEF GetHit, TypeOK, authVars, storeVars, callVars, faultVars
    <2>5. ASSUME NEW r \in Requests, GetMiss(r) PROVE TypeOK'
      <3>1. pc' \in [Requests -> Places]
        BY <2>5 DEF GetMiss, TypeOK, Places
      <3> QED
        BY <2>5, <3>1 DEF GetMiss, TypeOK, authVars, storeVars, callVars, resultVars, faultVars
    <2>6. ASSUME NEW r \in Requests, Join(r) PROVE TypeOK'
      <3>1. pc' \in [Requests -> Places]
        BY <2>6 DEF Join, TypeOK, Places
      <3> QED
        BY <2>6, <3>1 DEF Join, TypeOK, authVars, storeVars, callVars, resultVars, faultVars
    <2>7. ASSUME NEW r \in Requests, RecheckHit(r) PROVE TypeOK'
      <3>1. pc' \in [Requests -> Places]
        BY <2>7 DEF RecheckHit, TypeOK, Places
      <3>2. held' \in [Requests -> Lists]
        BY <2>7, Placed DEF RecheckHit, TypeOK
      <3> QED
        BY <2>7, <3>1, <3>2 DEF RecheckHit, TypeOK, authVars, storeVars, resultVars, faultVars
    <2>8. ASSUME NEW r \in Requests, RecheckMiss(r) PROVE TypeOK'
      <3>1. pc' \in [Requests -> Places]
        BY <2>8 DEF RecheckMiss, TypeOK, Places
      <3>2. wait' \in [Requests -> 0 .. Lag] /\ attempt' \in [Requests -> 0 .. Attempts]
        BY <2>8 DEF RecheckMiss, TypeOK
      <3>3. calls' \in [Replicas -> Nat]
        BY <2>8, Placed DEF RecheckMiss, TypeOK
      <3> QED
        BY <2>8, <3>1, <3>2, <3>3
        DEF RecheckMiss, TypeOK, authVars, storeVars, resultVars, faultVars
    <2>9. ASSUME NEW r \in Requests, AuthReads(r) PROVE TypeOK'
      <3>1. pc' \in [Requests -> Places]
        BY <2>9 DEF AuthReads, TypeOK, Places
      <3>2. held' \in [Requests -> Lists]
        BY <2>9 DEF AuthReads, TypeOK, Lists
      <3> QED
        BY <2>9, <3>1, <3>2 DEF AuthReads, TypeOK, authVars, storeVars, resultVars, faultVars
    <2>10. ASSUME NEW r \in Requests, GiveUp(r)
           PROVE /\ pc' \in [Requests -> Places]
                 /\ held' \in [Requests -> Lists]
                 /\ misses' \in Nat
                 /\ wait' \in [Requests -> 0 .. Lag]
                 /\ attempt' \in [Requests -> 0 .. Attempts]
      <3>1. NoList \in Lists
        BY DEF Lists
      <3> QED
        BY <2>10, <3>1 DEF GiveUp, TypeOK, Places
    <2>11. ASSUME NEW r \in Requests, Blip(r) PROVE TypeOK'
      <3>1. CASE attempt[r] < Attempts
        <4>1. pc' \in [Requests -> Places]
          BY <2>11, <3>1 DEF Blip, TypeOK, Places
        <4>2. held' \in [Requests -> Lists]
          BY <2>11, <3>1 DEF Blip, TypeOK, Lists
        <4>3. attempt' \in [Requests -> 0 .. Attempts] /\ wait' \in [Requests -> 0 .. Lag]
          BY <2>11, <3>1 DEF Blip, TypeOK
        <4> QED
          BY <2>11, <3>1, <4>1, <4>2, <4>3
          DEF Blip, TypeOK, authVars, storeVars, resultVars
      <3>2. CASE ~ (attempt[r] < Attempts)
        BY <2>10, <2>11, <3>2 DEF Blip, TypeOK, authVars, storeVars, resultVars
      <3> QED
        BY <3>1, <3>2
    <2>12. ASSUME NEW r \in Requests, Stop(r) PROVE TypeOK'
      BY <2>10, <2>12 DEF Stop, TypeOK, authVars, storeVars, resultVars
    <2>13. ASSUME NEW r \in Requests, Fill(r) PROVE TypeOK'
      <3>1. pc' \in [Requests -> Places]
        BY <2>13 DEF Fill, TypeOK, Places
      <3>2. cached' \in [Stores -> Lists]
        BY <2>13 DEF Fill, TypeOK, storeVars
      <3>3. left' \in [Stores -> 0 .. TTL]
        BY <2>13 DEF Fill, TypeOK, storeVars
      <3> QED
        BY <2>13, <3>1, <3>2, <3>3
        DEF Fill, TypeOK, authVars, storeVars, callVars, resultVars, faultVars
    <2>14. ASSUME NEW r \in Requests, Finish(r) PROVE TypeOK'
      <3>1. held[r] \in Lists
        BY DEF TypeOK
      <3>2. held' \in [Requests -> Lists]
        BY <2>14 DEF Finish, TypeOK, Lists
      <3> QED
        BY <2>14, <3>1, <3>2, ReturnTyped
        DEF Finish, TypeOK, authVars, storeVars, faultVars
    <2>15. CASE UNCHANGED vars
      BY <2>15 DEF vars, TypeOK
    <2> QED
      BY <2>1, <2>2, <2>3, <2>4, <2>5, <2>6, <2>7, <2>8, <2>9, <2>11, <2>12, <2>13,
         <2>14, <2>15
      DEF Next, Proceed
  <1> QED
    BY <1>1, <1>2, PTL DEF Spec

-----------------------------------------------------------------------------
\* What Return serves is as fresh as what it was given.
LEMMA ReturnFresh ==
  ASSUME TypeOK, StalenessBounded, NEW rs, NEW v \in Lists,
         v # NoList => superseded[v] < TTL + Lag,
         Return(rs, v)
  PROVE  StalenessBounded'
  <1> SUFFICES ASSUME NEW r \in Requests PROVE age'[r] < TTL + Lag
    BY DEF StalenessBounded
  <1>1. age'[r] = IF r \in rs /\ v # NoList THEN superseded[v] ELSE age[r]
    BY DEF Return
  <1>2. age[r] < TTL + Lag
    BY DEF StalenessBounded
  <1> QED
    BY <1>1, <1>2

\* The bound on staleness is inductive together with the freshness of the
\* entries and of the lists on their way.
THEOREM Freshness == Spec => []Fresh
  <1>1. Init => Fresh
    <2> SUFFICES ASSUME Init PROVE Fresh
      OBVIOUS
    <2>1. 0 < TTL + Lag
      BY PermAssumption
    <2> QED
      BY <2>1 DEF Init, Fresh, StalenessBounded, NewestUnreplaced, EntriesExpireInTime,
         ReadInTime
  <1>2. TypeOK /\ TypeOK' /\ Fresh /\ [Next]_vars => Fresh'
    <2> SUFFICES ASSUME TypeOK, TypeOK', Fresh, [Next]_vars PROVE Fresh'
      OBVIOUS
    <2> USE PermAssumption DEF Fresh
    <2>1. CASE Write
      <3>1. NewestUnreplaced'
        BY <2>1 DEF Write, NewestUnreplaced, TypeOK, Versions
      <3> QED
        BY <2>1, <3>1 DEF Write, StalenessBounded, EntriesExpireInTime, ReadInTime,
           storeVars, callVars, resultVars
    <2>2. CASE Invalidate
      <3>1. EntriesExpireInTime'
        BY <2>2 DEF Invalidate, EntriesExpireInTime, TypeOK
      <3> QED
        BY <2>2, <3>1 DEF Invalidate, StalenessBounded, NewestUnreplaced, ReadInTime,
           callVars, resultVars
    <2>3. CASE Tick
      <3>1. \A v \in Versions : superseded'[v] \in {superseded[v], superseded[v] + 1}
        BY <2>3 DEF Tick, TypeOK
      <3>2. NewestUnreplaced'
        <4> SUFFICES ASSUME NEW v \in Versions, v >= grants PROVE superseded'[v] = 0
          BY <2>3 DEF Tick, NewestUnreplaced
        <4>1. superseded'[v] = superseded[v] + 0
          BY <2>3 DEF Tick, TypeOK, Versions
        <4> QED
          BY <4>1 DEF NewestUnreplaced
      <3>3. EntriesExpireInTime'
        <4> SUFFICES ASSUME NEW s \in Stores, cached'[s] # NoList
                     PROVE  left'[s] > 0 /\ superseded'[cached'[s]] + left'[s] <= TTL + Lag
          BY DEF EntriesExpireInTime
        <4>1. s \notin Expiring /\ cached'[s] = cached[s]
          BY <2>3 DEF Tick
        <4>2. left[s] \in Nat /\ left[s] > 1
          BY <4>1 DEF Expiring, EntriesExpireInTime, TypeOK
        <4>3. left'[s] = left[s] - 1
          BY <2>3, <4>2 DEF Tick
        <4>4. cached[s] \in Versions
          BY <4>1 DEF TypeOK, Lists
        <4>5. superseded[cached[s]] \in Nat
          BY <4>4 DEF TypeOK
        <4>6. superseded[cached[s]] + left[s] <= TTL + Lag
          BY <4>1 DEF EntriesExpireInTime
        <4> QED
          BY <3>1, <4>1, <4>2, <4>3, <4>4, <4>5, <4>6
      <3>4. ReadInTime'
        <4> SUFFICES ASSUME NEW r \in Requests
                     PROVE  /\ pc'[r] = "answered" =>
                                 held'[r] # NoList /\ superseded'[held'[r]] + wait'[r] <= Lag
                            /\ pc'[r] # "finishing"
          BY DEF ReadInTime
        <4>1. pc'[r] = pc[r] /\ held'[r] = held[r] /\ pc[r] # "finishing"
          BY <2>3 DEF Tick
        <4>2. CASE pc[r] = "answered"
          <5>1. wait'[r] = wait[r] - 1
            BY <2>3, <4>2 DEF Tick, OnTheWire
          <5>2. held[r] \in Versions /\ superseded[held[r]] + wait[r] <= Lag
            BY <4>2 DEF ReadInTime, TypeOK, Lists
          <5>3. superseded[held[r]] \in Nat /\ wait[r] \in Nat
            BY <5>2 DEF TypeOK
          <5> QED
            BY <3>1, <4>1, <5>1, <5>2, <5>3, PermAssumption DEF Versions
        <4> QED
          BY <4>1, <4>2
      <3>5. StalenessBounded'
        BY <2>3 DEF Tick, StalenessBounded, resultVars
      <3> QED
        BY <3>2, <3>3, <3>4, <3>5
    <2>4. ASSUME NEW r \in Requests, GetHit(r) PROVE Fresh'
      <3>1. Store(r) \in Stores
        BY Placed
      <3>2. cached[Store(r)] \in Versions /\ left[Store(r)] \in Nat
        BY <2>4, <3>1 DEF GetHit, TypeOK, Lists
      <3>3. superseded[cached[Store(r)]] \in Nat
        BY <3>2 DEF TypeOK
      <3>4. superseded[cached[Store(r)]] < TTL + Lag
        BY <2>4, <3>1, <3>2, <3>3 DEF GetHit, EntriesExpireInTime
      <3>5. StalenessBounded'
        BY <2>4, <3>2, <3>4, ReturnFresh DEF GetHit, Lists
      <3>6. ReadInTime'
        BY <2>4 DEF GetHit, Return, ReadInTime, authVars, callVars
      <3> QED
        BY <2>4, <3>5, <3>6
        DEF GetHit, NewestUnreplaced, EntriesExpireInTime, authVars, storeVars
    <2>5. ASSUME NEW r \in Requests, GetMiss(r) PROVE Fresh'
      BY <2>5 DEF GetMiss, TypeOK, StalenessBounded, NewestUnreplaced,
         EntriesExpireInTime, ReadInTime, authVars, storeVars, callVars, resultVars
    <2>6. ASSUME NEW r \in Requests, Join(r) PROVE Fresh'
      BY <2>6 DEF Join, TypeOK, StalenessBounded, NewestUnreplaced,
         EntriesExpireInTime, ReadInTime, authVars, storeVars, callVars, resultVars
    <2>7. ASSUME NEW r \in Requests, RecheckHit(r) PROVE Fresh'
      <3>1. Store(r) \in Stores
        BY Placed
      <3>2. cached[Store(r)] \in Versions /\ left[Store(r)] \in Nat
        BY <2>7, <3>1 DEF RecheckHit, TypeOK, Lists
      <3>3. superseded[cached[Store(r)]] \in Nat
        BY <3>2 DEF TypeOK
      <3>4. superseded[cached[Store(r)]] < TTL + Lag
        BY <2>7, <3>1, <3>2, <3>3 DEF RecheckHit, EntriesExpireInTime
      <3>5. ReadInTime'
        BY <2>7, <3>4 DEF RecheckHit, ReadInTime, TypeOK, authVars
      <3> QED
        BY <2>7, <3>5 DEF RecheckHit, StalenessBounded, NewestUnreplaced,
           EntriesExpireInTime, authVars, storeVars, resultVars
    <2>8. ASSUME NEW r \in Requests, RecheckMiss(r) PROVE Fresh'
      BY <2>8 DEF RecheckMiss, TypeOK, StalenessBounded, NewestUnreplaced,
         EntriesExpireInTime, ReadInTime, authVars, storeVars, resultVars
    <2>9. ASSUME NEW r \in Requests, AuthReads(r) PROVE Fresh'
      <3>1. grants \in Versions /\ superseded[grants] = 0 /\ grants # NoList
        <4>1. grants \in Versions /\ grants \in Nat
          BY DEF TypeOK, Versions
        <4> QED
          BY <4>1 DEF NewestUnreplaced
      <3>2. wait[r] \in 0 .. Lag
        BY DEF TypeOK
      <3>3. ReadInTime'
        BY <2>9, <3>1, <3>2 DEF AuthReads, ReadInTime, TypeOK, authVars
      <3> QED
        BY <2>9, <3>3 DEF AuthReads, StalenessBounded, NewestUnreplaced,
           EntriesExpireInTime, authVars, storeVars, resultVars
    <2>10. ASSUME NEW r \in Requests, Blip(r) \/ Stop(r) PROVE Fresh'
      <3>1. CASE GiveUp(r)
        BY <2>10, <3>1 DEF Blip, Stop, GiveUp, TypeOK, StalenessBounded, NewestUnreplaced,
           EntriesExpireInTime, ReadInTime, authVars, storeVars, resultVars
      <3>2. CASE ~ GiveUp(r)
        BY <2>10, <3>2 DEF Blip, Stop, TypeOK, StalenessBounded, NewestUnreplaced,
           EntriesExpireInTime, ReadInTime, authVars, storeVars, resultVars
      <3> QED
        BY <3>1, <3>2
    <2>11. ASSUME NEW r \in Requests, Fill(r) PROVE Fresh'
      <3>1. /\ held[r] \in Versions
            /\ superseded[held[r]] \in Nat
            /\ superseded[held[r]] <= Lag
        <4>1. held[r] \in Versions /\ superseded[held[r]] + wait[r] <= Lag
          BY <2>11 DEF Fill, ReadInTime, TypeOK, Lists
        <4>2. superseded[held[r]] \in Nat /\ wait[r] \in Nat
          BY <4>1 DEF TypeOK
        <4> QED
          BY <4>1, <4>2
      <3>2. EntriesExpireInTime'
        <4> SUFFICES ASSUME NEW s \in Stores, cached'[s] # NoList
                     PROVE  left'[s] > 0 /\ superseded[cached'[s]] + left'[s] <= TTL + Lag
          BY <2>11 DEF EntriesExpireInTime, Fill, authVars
        <4>1. CASE cached'[s] = cached[s] /\ left'[s] = left[s]
          BY <4>1 DEF EntriesExpireInTime
        <4>2. CASE cached'[s] = held[r] /\ left'[s] = TTL
          BY <3>1, <4>2
        <4> QED
          BY <2>11, <4>1, <4>2 DEF Fill, TypeOK, storeVars
      <3>3. superseded[held[r]] < TTL + Lag
        BY <3>1
      <3>4. ReadInTime'
        BY <2>11, <3>3 DEF Fill, ReadInTime, TypeOK, authVars, callVars
      <3> QED
        BY <2>11, <3>2, <3>4
        DEF Fill, StalenessBounded, NewestUnreplaced, authVars, resultVars
    <2>12. ASSUME NEW r \in Requests, Finish(r) PROVE Fresh'
      <3>1. held[r] # NoList => superseded[held[r]] < TTL + Lag
        BY <2>12 DEF Finish, ReadInTime
      <3>2. held[r] \in Lists
        BY DEF TypeOK
      <3>3. StalenessBounded'
        BY <2>12, <3>1, <3>2, ReturnFresh DEF Finish
      <3>4. ReadInTime'
        <4> SUFFICES ASSUME NEW q \in Requests, pc'[q] \in {"answered", "finishing"}
                     PROVE  /\ pc[q] = pc'[q]
                            /\ held'[q] = held[q] /\ wait'[q] = wait[q]
                            /\ superseded' = superseded
          BY DEF ReadInTime
        <4>1. q # r /\ pc[q] = pc'[q]
          BY <2>12 DEF Finish, Return
        <4> QED
          BY <2>12, <4>1 DEF Finish, TypeOK, authVars
      <3> QED
        BY <2>12, <3>3, <3>4
        DEF Finish, NewestUnreplaced, EntriesExpireInTime, authVars, storeVars
    <2>13. CASE UNCHANGED vars
      BY <2>13 DEF vars, StalenessBounded, NewestUnreplaced, EntriesExpireInTime, ReadInTime
    <2> QED
      BY <2>1, <2>2, <2>3, <2>4, <2>5, <2>6, <2>7, <2>8, <2>9, <2>10, <2>11, <2>12, <2>13
      DEF Next, Proceed
  <1> QED
    BY <1>1, <1>2, TypeCorrect, PTL DEF Spec

\* No list is served TTL + Lag or more after tms-auth replaced it, on any Redis
\* instance and in any interleaving of fills, DELs and expiries.
THEOREM Staleness == Spec => []StalenessBounded
  <1>1. Fresh => StalenessBounded
    BY DEF Fresh
  <1> QED
    BY <1>1, Freshness, PTL

\* Types and freshness together, the invariant the runs check.
THEOREM Invariant == Spec => []IInv
  <1>1. TypeOK /\ Fresh => IInv
    BY DEF IInv
  <1> QED
    BY <1>1, TypeCorrect, Freshness, PTL

-----------------------------------------------------------------------------
(* The flights.                                                            *)

Leads == {"recheck", "calling", "answered", "finishing"}
Fetches == {"calling", "answered"}

\* A step that neither begins nor ends a flight, nor lets a request wait for one.
LEMMA FlightsKept ==
  ASSUME FlightsAttended, flights' = flights,
         \A q \in Requests : /\ pc'[q] \in Leads <=> pc[q] \in Leads
                             /\ pc'[q] = "waiting" => pc[q] = "waiting"
  PROVE  FlightsAttended'
  BY DEF FlightsAttended, Leading, Leads

\* There is one flight per replica, and every waiter has one.
LEMMA FlightsStep ==
  ASSUME TypeOK, FlightsAttended, [Next]_vars
  PROVE  FlightsAttended'
  <1>1. CASE Write \/ Invalidate \/ Tick \/ UNCHANGED vars
    BY <1>1, FlightsKept DEF Write, Invalidate, Tick, vars
  <1>2. ASSUME NEW r \in Requests, GetHit(r) \/ GetMiss(r) PROVE FlightsAttended'
    BY <1>2, FlightsKept DEF GetHit, GetMiss, Return, TypeOK, Leads
  <1>3. ASSUME NEW r \in Requests,
               RecheckHit(r) \/ RecheckMiss(r) \/ AuthReads(r) \/ Fill(r)
        PROVE  FlightsAttended'
    BY <1>3, FlightsKept DEF RecheckHit, RecheckMiss, AuthReads, Fill, TypeOK, Leads
  <1>4. ASSUME NEW r \in Requests, Blip(r) \/ Stop(r) PROVE FlightsAttended'
    <2>1. flights' = flights /\ pc[r] \in Leads
      BY <1>4 DEF Blip, Stop, Leads
    <2>2. pc' = [pc EXCEPT ![r] = "calling"] \/ pc' = [pc EXCEPT ![r] = "finishing"]
      BY <1>4 DEF Blip, Stop, GiveUp
    <2> QED
      BY <2>1, <2>2, FlightsKept DEF TypeOK, Leads
  <1>5. ASSUME NEW r \in Requests, Join(r) PROVE FlightsAttended'
    <2>1. CASE Leading(ReplicaOf[r]) # {}
      BY <1>5, <2>1 DEF Join, FlightsAttended, Leading, TypeOK
    <2>2. CASE Leading(ReplicaOf[r]) = {}
      <3>1. /\ flights' = flights \cup {r} /\ pc' = [pc EXCEPT ![r] = "recheck"]
            /\ \A q \in flights : ReplicaOf[q] # ReplicaOf[r]
        BY <1>5, <2>2 DEF Join, Leading
      <3> QED
        BY <1>5, <3>1 DEF Join, FlightsAttended, Leading, TypeOK
    <2> QED
      BY <2>1, <2>2
  <1>6. ASSUME NEW r \in Requests, Finish(r) PROVE FlightsAttended'
    <2>1. /\ pc[r] = "finishing" /\ r \in flights /\ flights' = flights \ {r}
          /\ \A q \in Requests :
               pc'[q] = IF q = r \/ q \in Waiters(r) THEN "done" ELSE pc[q]
      BY <1>6 DEF Finish, Return, FlightsAttended
    <2>2. \A q \in Waiters(r) : q \notin flights
      BY DEF Waiters, FlightsAttended
    <2>3. ASSUME NEW q \in Requests, pc'[q] = "waiting"
          PROVE  Leading(ReplicaOf[q])' # {}
      <3>1. pc[q] = "waiting" /\ ReplicaOf[q] # ReplicaOf[r]
        BY <2>1, <2>3 DEF Waiters
      <3>2. PICK l \in flights : ReplicaOf[l] = ReplicaOf[q]
        BY <3>1 DEF FlightsAttended, Leading
      <3> QED
        BY <2>1, <3>1, <3>2 DEF Leading
    <2> QED
      BY <2>1, <2>2, <2>3 DEF FlightsAttended, TypeOK
  <1> QED
    BY <1>1, <1>2, <1>3, <1>4, <1>5, <1>6 DEF Next, Proceed

\* The attempts of a call are paid for by blips, but for the first; so is a call that
\* was given up, or it was stopped.
AttemptsPaid ==
  \A r \in Requests :
    /\ pc[r] \in Fetches => attempt[r] <= 1 + blips
    /\ pc[r] = "finishing" /\ held[r] = NoList => stops > 0 \/ blips >= Attempts

\* A list that is missing when a request returns has been paid for.
LEMMA Rides ==
  ASSUME TypeOK, AttemptsPaid, RidesOutBlips, Fresh, [Next]_vars
  PROVE  AttemptsPaid' /\ RidesOutBlips'
  <1> USE PermAssumption
  <1> DEFINE Paid == stops > 0 \/ blips >= Attempts
  <1>0. blips \in Nat /\ stops \in Nat /\ Attempts \in Nat
    BY DEF TypeOK
  <1>1. CASE Write \/ Invalidate \/ Tick \/ UNCHANGED vars
    BY <1>1 DEF Write, Invalidate, Tick, vars, callVars, resultVars, faultVars,
       AttemptsPaid, RidesOutBlips, Fetches
  <1>2. ASSUME NEW r \in Requests, GetHit(r) PROVE AttemptsPaid' /\ RidesOutBlips'
    BY <1>2 DEF GetHit, Return, callVars, faultVars, AttemptsPaid, RidesOutBlips, Fetches
  <1>3. ASSUME NEW r \in Requests, GetMiss(r) \/ Join(r)
        PROVE  AttemptsPaid' /\ RidesOutBlips'
    BY <1>3 DEF GetMiss, Join, TypeOK, callVars, resultVars, faultVars, AttemptsPaid,
       RidesOutBlips, Fetches
  <1>4. ASSUME NEW r \in Requests, RecheckHit(r) PROVE AttemptsPaid' /\ RidesOutBlips'
    BY <1>4 DEF RecheckHit, TypeOK, resultVars, faultVars, AttemptsPaid, RidesOutBlips, Fetches
  <1>5. ASSUME NEW r \in Requests, RecheckMiss(r) PROVE AttemptsPaid' /\ RidesOutBlips'
    BY <1>0, <1>5 DEF RecheckMiss, TypeOK, resultVars, faultVars, AttemptsPaid,
       RidesOutBlips, Fetches
  <1>6. ASSUME NEW r \in Requests, AuthReads(r) PROVE AttemptsPaid' /\ RidesOutBlips'
    BY <1>6 DEF AuthReads, TypeOK, resultVars, faultVars, AttemptsPaid, RidesOutBlips, Fetches
  <1>7. ASSUME NEW r \in Requests, Blip(r) PROVE AttemptsPaid' /\ RidesOutBlips'
    <2>1. blips' = blips + 1 /\ stops' = stops /\ attempt[r] <= 1 + blips
      BY <1>7 DEF Blip, AttemptsPaid, Fetches
    <2>2. attempt[r] \in 0 .. Attempts /\ attempt \in [Requests -> 0 .. Attempts]
      BY DEF TypeOK
    <2>3. RidesOutBlips'
      <3>1. (\E q \in Requests : pc'[q] = "done" /\ served'[q] = NoList)
              => \E q \in Requests : pc[q] = "done" /\ served[q] = NoList
        BY <1>7 DEF Blip, GiveUp, TypeOK, resultVars
      <3> QED
        BY <1>0, <2>1, <3>1 DEF RidesOutBlips
    <2>4. AttemptsPaid'
      <3>1. CASE attempt[r] < Attempts
        <4>1. /\ pc' = [pc EXCEPT ![r] = "calling"]
              /\ held' = [held EXCEPT ![r] = NoList]
              /\ attempt' = [attempt EXCEPT ![r] = @ + 1]
          BY <1>7, <3>1 DEF Blip
        <4> QED
          BY <1>0, <2>1, <2>2, <4>1 DEF AttemptsPaid, Fetches, TypeOK
      <3>2. CASE ~ (attempt[r] < Attempts)
        <4>1. /\ pc' = [pc EXCEPT ![r] = "finishing"]
              /\ held' = [held EXCEPT ![r] = NoList]
              /\ attempt' = attempt
          BY <1>7, <3>2 DEF Blip, GiveUp
        <4>2. blips' >= Attempts
          BY <1>0, <2>1, <2>2, <3>2
        <4> QED
          BY <1>0, <2>1, <2>2, <4>1, <4>2 DEF AttemptsPaid, Fetches, TypeOK
      <3> QED
        BY <3>1, <3>2
    <2> QED
      BY <2>3, <2>4
  <1>8. ASSUME NEW r \in Requests, Stop(r) PROVE AttemptsPaid' /\ RidesOutBlips'
    <2>1. stops' > 0 /\ blips' = blips /\ attempt' = attempt
      BY <1>0, <1>8 DEF Stop, GiveUp
    <2>2. pc' = [pc EXCEPT ![r] = "finishing"]
      BY <1>8 DEF Stop, GiveUp
    <2> QED
      BY <2>1, <2>2 DEF AttemptsPaid, RidesOutBlips, TypeOK, Fetches
  <1>9. ASSUME NEW r \in Requests, Fill(r) PROVE AttemptsPaid' /\ RidesOutBlips'
    <2>1. held[r] # NoList
      BY <1>9 DEF Fill, Fresh, ReadInTime
    <2> QED
      BY <1>9, <2>1 DEF Fill, TypeOK, callVars, resultVars, faultVars, AttemptsPaid,
         RidesOutBlips, Fetches
  <1>10. ASSUME NEW r \in Requests, Finish(r) PROVE AttemptsPaid' /\ RidesOutBlips'
    <2>1. held[r] = NoList => Paid
      BY <1>10 DEF Finish, AttemptsPaid
    <2> QED
      BY <1>10, <2>1 DEF Finish, Return, TypeOK, faultVars, AttemptsPaid, RidesOutBlips,
         Fetches
  <1> QED
    BY <1>1, <1>2, <1>3, <1>4, <1>5, <1>6, <1>7, <1>8, <1>9, <1>10 DEF Next, Proceed

\* A call that is over was missed, unless its list is in the replica's store.
CallsOwed ==
  \A p \in Replicas :
    /\ calls[p] <= 1 + misses
    /\ (\A r \in Leading(p) : pc[r] \notin Fetches) /\ cached[StoreOf[p]] = NoList
         => calls[p] <= misses

\* Every call but one has been missed: the flights share them.
LEMMA Calls ==
  ASSUME TypeOK, TypeOK', Fresh, FlightsAttended, CallsOwed, [Next]_vars
  PROVE  CallsOwed'
  <1> USE PermAssumption
  <1>0. /\ misses \in Nat /\ misses' \in Nat
        /\ calls \in [Replicas -> Nat] /\ calls' \in [Replicas -> Nat]
    BY DEF TypeOK
  \* No call begins; where one ends, or an entry goes, misses grows.
  <1>1. ASSUME calls' = calls, misses' >= misses,
               \A p \in Replicas :
                 \/ misses' > misses
                 \/ /\ (\E r \in Leading(p) : pc[r] \in Fetches)
                         => cached'[StoreOf[p]] # NoList
                            \/ (\E r \in Leading(p)' : pc'[r] \in Fetches)
                    /\ cached[StoreOf[p]] # NoList => cached'[StoreOf[p]] # NoList
        PROVE  CallsOwed'
    <2> SUFFICES ASSUME NEW p \in Replicas
                 PROVE  /\ calls'[p] <= 1 + misses'
                        /\ (\A r \in Leading(p)' : pc'[r] \notin Fetches)
                           /\ cached'[StoreOf[p]] = NoList => calls'[p] <= misses'
      BY DEF CallsOwed
    <2>1. calls[p] \in Nat /\ calls[p] <= 1 + misses
      BY <1>0 DEF CallsOwed
    <2>2. CASE misses' > misses
      BY <1>0, <1>1, <2>1, <2>2
    <2>3. CASE ~ (misses' > misses)
      <3>1. ASSUME \A r \in Leading(p)' : pc'[r] \notin Fetches, cached'[StoreOf[p]] = NoList
            PROVE  calls[p] <= misses
        BY <1>1, <2>3, <3>1 DEF CallsOwed
      <3> QED
        BY <1>0, <1>1, <2>1, <3>1
    <2> QED
      BY <2>2, <2>3
  <1>2. CASE Write \/ UNCHANGED vars
    BY <1>0, <1>1, <1>2 DEF Write, vars, storeVars, Leading
  <1>3. CASE Invalidate
    <2>1. calls' = calls /\ pc' = pc /\ flights' = flights
      BY <1>3 DEF Invalidate
    <2>2. \/ cached' = cached /\ misses' = misses
          \/ misses' = misses /\ cached' = [cached EXCEPT ![AuthStore] = NoList]
             /\ cached[AuthStore] = NoList
          \/ misses' = misses + 1
      BY <1>3 DEF Invalidate
    <2> QED
      BY <1>0, <1>1, <2>1, <2>2 DEF Leading, TypeOK
  <1>4. CASE Tick
    <2>1. Cardinality(Expiring) \in Nat /\ (Expiring # {} => Cardinality(Expiring) > 0)
      <3>1. IsFiniteSet(Expiring)
        BY FS_Subset DEF Expiring
      <3> QED
        BY <3>1, FS_EmptySet, FS_CardinalityType
    <2>2. calls' = calls /\ pc' = pc /\ flights' = flights
          /\ misses' = misses + Cardinality(Expiring)
          /\ \A s \in Stores : cached'[s] = IF s \in Expiring THEN NoList ELSE cached[s]
      BY <1>4 DEF Tick
    <2> QED
      BY <1>0, <1>1, <2>1, <2>2 DEF Leading
  <1>5. ASSUME NEW r \in Requests, GetHit(r) \/ GetMiss(r) PROVE CallsOwed'
    <2>1. r \notin flights
      BY <1>5 DEF GetHit, GetMiss, FlightsAttended
    <2> QED
      BY <1>0, <1>1, <1>5, <2>1 DEF GetHit, GetMiss, Return, storeVars, TypeOK, Leading
  <1>6. ASSUME NEW r \in Requests, Join(r) PROVE CallsOwed'
    <2>1. r \notin flights /\ flights \subseteq flights'
      BY <1>6 DEF Join, FlightsAttended
    <2> QED
      BY <1>0, <1>1, <1>6, <2>1 DEF Join, storeVars, TypeOK, Leading
  <1>7. ASSUME NEW r \in Requests, RecheckHit(r) PROVE CallsOwed'
    BY <1>0, <1>1, <1>7 DEF RecheckHit, storeVars, TypeOK, Leading, Fetches
  <1>8. ASSUME NEW r \in Requests, RecheckMiss(r) PROVE CallsOwed'
    <2>1. /\ r \in flights /\ ReplicaOf[r] \in Replicas
          /\ pc[r] = "recheck" /\ pc' = [pc EXCEPT ![r] = "calling"]
          /\ calls' = [calls EXCEPT ![ReplicaOf[r]] = @ + 1]
          /\ cached' = cached /\ flights' = flights
      BY <1>8, Placed DEF RecheckMiss, FlightsAttended, storeVars
    <2>2. misses' = IF cached[Store(r)] = NoList THEN misses ELSE misses + 1
      BY <1>8 DEF RecheckMiss
    <2>3. Leading(ReplicaOf[r]) = {r}
      BY <2>1 DEF FlightsAttended, Leading
    <2> SUFFICES ASSUME NEW p \in Replicas
                 PROVE  /\ calls'[p] <= 1 + misses'
                        /\ (\A q \in Leading(p)' : pc'[q] \notin Fetches)
                           /\ cached'[StoreOf[p]] = NoList => calls'[p] <= misses'
      BY DEF CallsOwed
    <2>4. CASE p = ReplicaOf[r]
      <3>1. r \in Leading(p)' /\ pc'[r] \in Fetches
        BY <2>1, <2>4 DEF Leading, TypeOK, Fetches
      <3>2. cached[Store(r)] = NoList => calls[p] <= misses
        BY <2>1, <2>3, <2>4 DEF CallsOwed, Store, Fetches
      <3>3. calls[p] <= 1 + misses /\ calls[p] \in Nat /\ calls'[p] = calls[p] + 1
        BY <1>0, <2>1, <2>4 DEF CallsOwed
      <3> QED
        BY <1>0, <2>2, <3>1, <3>2, <3>3
    <2>5. CASE p # ReplicaOf[r]
      <3>1. calls'[p] = calls[p] /\ calls[p] \in Nat /\ misses' >= misses
        BY <1>0, <2>1, <2>2, <2>5
      <3>2. Leading(p)' = Leading(p) /\ \A q \in Leading(p) : pc'[q] = pc[q]
        BY <2>1, <2>5 DEF Leading, TypeOK
      <3> QED
        BY <1>0, <2>1, <3>1, <3>2 DEF CallsOwed
    <2> QED
      BY <2>4, <2>5
  <1>9. ASSUME NEW r \in Requests, AuthReads(r) PROVE CallsOwed'
    BY <1>0, <1>1, <1>9 DEF AuthReads, storeVars, TypeOK, Leading, Fetches
  <1>10. ASSUME NEW r \in Requests, Blip(r) \/ Stop(r) PROVE CallsOwed'
    <2>1. calls' = calls /\ cached' = cached /\ flights' = flights
      BY <1>10 DEF Blip, Stop, storeVars
    <2>2. \/ misses' = misses + 1
          \/ misses' = misses /\ pc' = [pc EXCEPT ![r] = "calling"]
      BY <1>10 DEF Blip, Stop, GiveUp
    <2> QED
      BY <1>0, <1>1, <2>1, <2>2 DEF TypeOK, Leading, Fetches
  <1>11. ASSUME NEW r \in Requests, Fill(r) PROVE CallsOwed'
    <2>1. r \in flights /\ calls' = calls /\ flights' = flights
          /\ pc' = [pc EXCEPT ![r] = "finishing"]
      BY <1>11 DEF Fill, FlightsAttended
    <2>2. CASE misses' = misses + 1
      BY <1>0, <1>1, <2>1, <2>2
    <2>3. CASE misses' = misses /\ cached' = [cached EXCEPT ![Store(r)] = held[r]]
               /\ held[r] # NoList
      <3>1. \A p \in Replicas : \A q \in Leading(p) :
              q = r \/ (q \in Leading(p)' /\ pc'[q] = pc[q])
        BY <2>1 DEF Leading, TypeOK
      <3>2. \A s \in Stores : cached[s] # NoList => cached'[s] # NoList
        BY <2>3 DEF TypeOK
      <3>3. \A p \in Replicas : r \in Leading(p) => cached'[StoreOf[p]] # NoList
        BY <2>3, Placed DEF Leading, Store, TypeOK
      <3> QED
        BY <1>0, <1>1, <2>1, <2>3, <3>1, <3>2, <3>3
    <2>4. held[r] # NoList
      BY <1>11 DEF Fill, Fresh, ReadInTime
    <2> QED
      BY <1>11, <2>2, <2>3, <2>4 DEF Fill, storeVars
  <1>12. ASSUME NEW r \in Requests, Finish(r) PROVE CallsOwed'
    <2>1. pc[r] = "finishing" /\ flights' = flights \ {r} /\ calls' = calls
          /\ misses' = misses /\ cached' = cached
      BY <1>12 DEF Finish, storeVars
    <2>2. \A q \in flights : q # r => pc'[q] = pc[q]
      BY <1>12 DEF Finish, Return, Waiters, FlightsAttended, TypeOK
    <2> QED
      BY <1>0, <1>1, <2>1, <2>2 DEF Leading, Fetches
  <1> QED
    BY <1>2, <1>3, <1>4, <1>5, <1>6, <1>7, <1>8, <1>9, <1>10, <1>11, <1>12
    DEF Next, Proceed

\* The singleflight group and its leaders' attempts, for every number of requests,
\* replicas and stores: calls are shared, nobody is forgotten, and fewer blips than
\* attempts cost nobody the answer.
THEOREM Flights == Spec => []FlightsSound
  <1> DEFINE J == FlightsAttended /\ AttemptsPaid /\ RidesOutBlips /\ CallsOwed
  <1>1. Init => J
    <2> SUFFICES ASSUME Init PROVE J
      OBVIOUS
    <2> QED
      BY DEF Init, FlightsAttended, AttemptsPaid, RidesOutBlips, CallsOwed, Leading, Fetches
  <1>2. TypeOK /\ TypeOK' /\ Fresh /\ J /\ [Next]_vars => J'
    BY FlightsStep, Rides, Calls
  <1>3. J => FlightsSound
    BY DEF FlightsSound, NoStampede, CallsOwed
  <1> QED
    BY <1>1, <1>2, <1>3, TypeCorrect, Freshness, PTL DEF Spec
=============================================================================
