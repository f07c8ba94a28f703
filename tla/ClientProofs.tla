---------------------------- MODULE ClientProofs ----------------------------
(***************************************************************************)
(* Proofs about the clients a service writes to other systems with, for    *)
(* any number of callers, instances, messages, keys and calls, and for any *)
(* failures: the inductive invariant of each, which its Init establishes,  *)
(* its Next keeps, and its properties follow from.  IntegrationsProofs     *)
(* concludes.                                                              *)
(***************************************************************************)
EXTENDS Clients, FiniteSetTheorems, Sequences, TLAPS

-----------------------------------------------------------------------------
(* The token of USPS (UspsToken).                                          *)

(***************************************************************************)
(* The inductive invariant.  Callers past a fetch: the first, the second.  *)
(***************************************************************************)
PastFirst == {c \in Callers : pc[c] \notin {"idle", "token", "fetching"} \/ ~retry[c]}
PastSecond == {c \in Callers : ~retry[c] /\ pc[c] \notin {"token", "fetching"}}

\* Each caller fetches twice at most, and carries a token that was issued.
Counted ==
  /\ issued <= Cardinality(PastFirst) + Cardinality(PastSecond)
  /\ \A c \in Callers : pc[c] = "idle" => retry[c]
  /\ \A c \in Callers : pc[c] \in {"issued", "sending"} => bearer[c] \in 1 .. issued

\* What the slot says of a token's time is right within an exchange.
Margins ==
  /\ value # 0 => life[value] <= left /\ left <= life[value] + Timeout
  /\ \A c \in Callers : pc[c] = "issued" => TTL <= life[bearer[c]] + wire[c]
  /\ \A c \in Callers : pc[c] = "sending" => Skew < life[bearer[c]] + Timeout + wire[c]

\* A fetch that is under way, or that the next caller begins.
Due == IF lock = NoOne THEN IF value = 0 THEN 1 ELSE 0
       ELSE IF pc[lock] = "fetching" THEN 1 ELSE 0

FetchesPaid == Usps!AllLong => issued + Due <= 1 + Usps!Invalidations + (MaxFaults - faults)

\* Before a revocation nobody is refused.
Unrevoked ==
  valid /\ revocations = 0 => dead = {} /\ \A c \in Callers : retry[c] /\ pc[c] # "refused"

\* What was just issued works, and so does what a caller sends the second time.
Works(c) ==
  /\ pc[c] = "issued" => bearer[c] \notin dead
  /\ ~retry[c] => pc[c] # "refused" /\ (pc[c] = "sending" => bearer[c] \notin dead)

\* After one revocation, whoever was refused has cleared the slot for all.
RevokedOnce ==
  valid /\ revocations = 1 /\ (\E c \in Callers : ~retry[c]) =>
    value \notin dead /\ \A c \in Callers : Works(c)

Spared == Unrevoked /\ RevokedOnce /\ Usps!DenialsOwed

UspsIInv == Usps!TypeOK /\ Counted /\ Margins /\ FetchesPaid /\ Spared

-----------------------------------------------------------------------------
LEMMA UspsCounts ==
  \A S : (Usps!IsFiniteSet(S) <=> IsFiniteSet(S)) /\ Usps!Cardinality(S) = Cardinality(S)
BY DEF Usps!IsFiniteSet, IsFiniteSet, Usps!Cardinality, Cardinality

\* The numbers the assumption speaks of.
LEMMA UspsTimes ==
  ASSUME Usps!UspsAssumption
  PROVE  /\ IsFiniteSet(Callers) /\ NoOne \notin Callers /\ Cardinality(Callers) \in Nat
         /\ TTL \in Nat /\ Skew \in Nat /\ Timeout \in Nat /\ MaxFaults \in Nat
         /\ MaxRevocations \in Nat
         /\ 2 * Timeout <= Skew /\ Skew < TTL
         /\ Usps!Tokens = 1 .. 2 * Cardinality(Callers)
BY UspsCounts, FS_CardinalityType DEF Usps!UspsAssumption, Usps!Tokens

\* How many callers there are of a kind.
LEMMA CallersCounted ==
  ASSUME Usps!UspsAssumption, NEW S, S \subseteq Callers
  PROVE  /\ IsFiniteSet(S) /\ Cardinality(S) \in Nat /\ Cardinality(S) <= Cardinality(Callers)
         /\ \A T : T \subseteq S => Cardinality(T) <= Cardinality(S)
         /\ \A c : c \in Callers \ S => Cardinality(S \cup {c}) = Cardinality(S) + 1
BY UspsTimes, FS_Subset, FS_CardinalityType, FS_AddElement

LEMMA UspsInitInv == Usps!UspsAssumption /\ Usps!Init => UspsIInv
<1> SUFFICES ASSUME Usps!UspsAssumption, Usps!Init PROVE UspsIInv
  OBVIOUS
<1> USE DEF Usps!Init
<1>1. Usps!TypeOK
  BY UspsTimes DEF Usps!TypeOK, Usps!Exchanging, Usps!Answers
<1>2. Counted
  BY CallersCounted DEF Counted, PastFirst, PastSecond
<1>3. Margins
  BY DEF Margins
<1>4. FetchesPaid
  <2>1. Usps!Invalidations \in Nat
    BY UspsCounts, CallersCounted DEF Usps!Invalidations
  <2> QED BY <2>1, UspsTimes DEF FetchesPaid, Due
<1>5. Spared
  BY DEF Spared, Unrevoked, RevokedOnce, Usps!DenialsOwed
<1> QED BY <1>1, <1>2, <1>3, <1>4, <1>5 DEF UspsIInv

\* A token that was issued is one of those there can be.
LEMMA IssuedFits ==
  ASSUME Usps!UspsAssumption, UspsIInv
  PROVE  /\ issued \in Nat /\ issued <= 2 * Cardinality(Callers)
         /\ 1 .. issued \subseteq Usps!Tokens
         /\ \A c \in Callers : pc[c] = "fetching" => issued + 1 \in Usps!Tokens
<1>1. issued \in Nat /\ issued <= 2 * Cardinality(Callers)
  BY UspsTimes DEF UspsIInv, Usps!TypeOK
<1>2. ASSUME NEW c \in Callers, pc[c] = "fetching" PROVE issued + 1 \in Usps!Tokens
  <2>1. PastFirst \subseteq Callers /\ PastSecond \subseteq Callers /\ c \notin PastSecond
    BY <1>2 DEF PastFirst, PastSecond
  <2>2. Cardinality(PastSecond \cup {c}) = Cardinality(PastSecond) + 1
    BY <2>1, CallersCounted
  <2>3. PastSecond \cup {c} \subseteq Callers
    BY <2>1
  <2>4. Cardinality(PastSecond) + 1 <= Cardinality(Callers)
    BY <2>2, <2>3, CallersCounted
  <2>5. Cardinality(PastFirst) <= Cardinality(Callers)
    BY <2>1, CallersCounted
  <2>6. Cardinality(PastFirst) \in Nat /\ Cardinality(PastSecond) \in Nat
    BY <2>1, CallersCounted
  <2>7. issued <= Cardinality(PastFirst) + Cardinality(PastSecond)
    BY DEF UspsIInv, Counted
  <2> QED BY SMTT(60), <1>1, <2>4, <2>5, <2>6, <2>7, UspsTimes
<1> QED BY <1>1, <1>2, UspsTimes

\* A token on its way has a while to live.
LEMMA InFlight ==
  ASSUME Usps!UspsAssumption, UspsIInv
  PROVE  Usps!ExpiryCovered
<1> SUFFICES ASSUME NEW c \in Callers, pc[c] = "sending" PROVE life[bearer[c]] > 0
  BY DEF Usps!ExpiryCovered
<1>1. bearer[c] \in Usps!Tokens
  BY IssuedFits DEF UspsIInv, Counted
<1>2. life[bearer[c]] \in Nat /\ wire[c] \in 0 .. Timeout
  BY <1>1 DEF UspsIInv, Usps!TypeOK
<1>3. Skew < life[bearer[c]] + Timeout + wire[c]
  BY DEF UspsIInv, Margins
<1>4. Skew \in Nat /\ Timeout \in Nat /\ 2 * Timeout <= Skew
  BY UspsTimes
<1> QED BY <1>2, <1>3, <1>4

LEMMA Invalidated ==
  ASSUME Usps!UspsAssumption
  PROVE  Usps!Invalidations \in Nat /\ Due \in {0, 1}
<1> DEFINE S == {c \in Callers : ~retry[c]}
<1>1. S \subseteq Callers
  OBVIOUS
<1>2. Cardinality(S) \in Nat
  BY <1>1, CallersCounted
<1> QED BY <1>2, UspsCounts DEF Usps!Invalidations, Due

\* Types.
LEMMA UspsTypedNext ==
  ASSUME Usps!UspsAssumption, UspsIInv, Usps!Next
  PROVE  Usps!TypeOK'
<1> USE DEF Usps!Exchanging, Usps!Answers
<1>0. /\ TTL \in Nat /\ Timeout \in Nat /\ MaxFaults \in Nat /\ MaxRevocations \in Nat
      /\ NoOne \notin Callers
  BY UspsTimes
<1>1. Usps!TypeOK
  BY DEF UspsIInv
<1>2. CASE Usps!Revoke
  BY <1>1, <1>2, <1>0 DEF Usps!TypeOK, Usps!Revoke, Usps!slot
<1>3. CASE Usps!Bar
  BY <1>1, <1>3, <1>0 DEF Usps!TypeOK, Usps!Bar, Usps!slot
<1>4. CASE Usps!Tick
  <2>1. wire' \in [Callers -> 0 .. Timeout]
    BY <1>1, <1>4, <1>0 DEF Usps!TypeOK, Usps!Tick
  <2>2. \A n \in 0 .. TTL : Usps!Minus(n) \in 0 .. TTL
    BY <1>0 DEF Usps!Minus
  <2>3. left' \in 0 .. TTL /\ life' \in [Usps!Tokens -> 0 .. TTL]
    BY <1>1, <1>4, <2>2 DEF Usps!TypeOK, Usps!Tick
  <2> QED BY <1>1, <1>4, <2>1, <2>3 DEF Usps!TypeOK, Usps!Tick
<1>5. ASSUME NEW c \in Callers, Usps!Call(c) PROVE Usps!TypeOK'
  BY <1>1, <1>5 DEF Usps!TypeOK, Usps!Call, Usps!slot, Usps!usps
<1>6. ASSUME NEW c \in Callers, Usps!Reuse(c) PROVE Usps!TypeOK'
  BY <1>1, <1>6, <1>0 DEF Usps!TypeOK, Usps!Reuse, Usps!Send, Usps!slot, Usps!usps
<1>7. ASSUME NEW c \in Callers, Usps!StartFetch(c) PROVE Usps!TypeOK'
  BY <1>1, <1>7, <1>0 DEF Usps!TypeOK, Usps!StartFetch, Usps!usps
<1>8. ASSUME NEW c \in Callers, Usps!Issue(c) PROVE Usps!TypeOK'
  <2>1. issued + 1 \in Usps!Tokens
    BY <1>8, IssuedFits DEF Usps!Issue
  <2>2. issued \in Nat
    BY IssuedFits
  <2> QED BY <1>1, <1>8, <2>1, <2>2, <1>0 DEF Usps!TypeOK, Usps!Issue, Usps!slot
<1>9. ASSUME NEW c \in Callers, Usps!Store(c) PROVE Usps!TypeOK'
  BY <1>1, <1>9, <1>0 DEF Usps!TypeOK, Usps!Store, Usps!Send, Usps!usps
<1>10. ASSUME NEW c \in Callers, Usps!FetchRefused(c) PROVE Usps!TypeOK'
  BY <1>1, <1>10, <1>0 DEF Usps!TypeOK, Usps!FetchRefused, Usps!usps
<1>11. ASSUME NEW c \in Callers, Usps!FetchFails(c) PROVE Usps!TypeOK'
  BY <1>1, <1>11, <1>0 DEF Usps!TypeOK, Usps!FetchFails, Usps!usps
<1>12. ASSUME NEW c \in Callers, Usps!Serve(c) PROVE Usps!TypeOK'
  BY <1>1, <1>12 DEF Usps!TypeOK, Usps!Serve, Usps!slot, Usps!usps
<1>13. ASSUME NEW c \in Callers, Usps!RequestFails(c) PROVE Usps!TypeOK'
  BY <1>1, <1>13, <1>0 DEF Usps!TypeOK, Usps!RequestFails, Usps!slot, Usps!usps
<1>14. ASSUME NEW c \in Callers, Usps!Invalidate(c) PROVE Usps!TypeOK'
  BY <1>1, <1>14, IssuedFits DEF Usps!TypeOK, Usps!Invalidate, Usps!usps
<1>15. ASSUME NEW c \in Callers, Usps!Deny(c) PROVE Usps!TypeOK'
  BY <1>1, <1>15 DEF Usps!TypeOK, Usps!Deny, Usps!slot, Usps!usps
<1> QED
  BY <1>2, <1>3, <1>4, <1>5, <1>6, <1>7, <1>8, <1>9, <1>10, <1>11, <1>12, <1>13, <1>14, <1>15
  DEF Usps!Next, Usps!Proceed

\* Callers never come back before a fetch they are past, so each pays for two tokens.
LEMMA MorePast ==
  ASSUME Usps!UspsAssumption, UspsIInv, issued' = issued,
         PastFirst \subseteq PastFirst', PastSecond \subseteq PastSecond',
         PastFirst' \subseteq Callers, PastSecond' \subseteq Callers
  PROVE  issued' <= Cardinality(PastFirst') + Cardinality(PastSecond')
<1>1. /\ Cardinality(PastFirst) <= Cardinality(PastFirst')
      /\ Cardinality(PastSecond) <= Cardinality(PastSecond')
  BY CallersCounted
<1>2. /\ Cardinality(PastFirst) \in Nat /\ Cardinality(PastFirst') \in Nat
      /\ Cardinality(PastSecond) \in Nat /\ Cardinality(PastSecond') \in Nat
  BY CallersCounted DEF PastFirst, PastSecond
<1>3. issued <= Cardinality(PastFirst) + Cardinality(PastSecond) /\ issued \in Nat
  BY IssuedFits DEF UspsIInv, Counted
<1> QED BY <1>1, <1>2, <1>3

LEMMA CountedNext ==
  ASSUME Usps!UspsAssumption, UspsIInv, Usps!Next
  PROVE  Counted'
<1>1. /\ pc \in [Callers -> {"idle", "token", "refused"} \cup Usps!Exchanging \cup Usps!Answers]
      /\ retry \in [Callers -> BOOLEAN] /\ issued \in Nat /\ bearer \in [Callers -> 0 .. issued]
      /\ value \in 0 .. issued
  BY IssuedFits DEF UspsIInv, Usps!TypeOK
<1>2. PastFirst' \subseteq Callers /\ PastSecond' \subseteq Callers
  BY DEF PastFirst, PastSecond
<1>3. /\ \A c \in Callers : pc[c] = "idle" => retry[c]
      /\ \A c \in Callers : pc[c] \in {"issued", "sending"} => bearer[c] \in 1 .. issued
  BY DEF UspsIInv, Counted
<1> DEFINE Step(c) ==
      /\ \A d \in Callers \ {c} : pc'[d] = pc[d] /\ retry'[d] = retry[d] /\ bearer'[d] = bearer[d]
      /\ pc'[c] # "idle"
      /\ pc'[c] \in {"issued", "sending"} => bearer'[c] \in 1 .. issued'
<1>4. CASE Usps!Revoke \/ Usps!Bar \/ Usps!Tick
  <2>1. UNCHANGED <<pc, retry, bearer, issued>>
    BY <1>4 DEF Usps!Revoke, Usps!Bar, Usps!Tick
  <2> QED BY <2>1 DEF UspsIInv, Counted, PastFirst, PastSecond
<1>5. ASSUME NEW c \in Callers, Step(c), issued' = issued,
             c \in PastFirst => c \in PastFirst', c \in PastSecond => c \in PastSecond'
      PROVE  Counted'
  <2>1. PastFirst \subseteq PastFirst' /\ PastSecond \subseteq PastSecond'
    BY <1>5 DEF PastFirst, PastSecond
  <2>2. issued' <= Cardinality(PastFirst') + Cardinality(PastSecond')
    BY <1>2, <1>5, <2>1, MorePast
  <2> QED BY <1>3, <1>5, <2>2 DEF Counted
<1>6. ASSUME NEW c \in Callers, Usps!Call(c) PROVE Counted'
  <2>1. Step(c)
    BY <1>1, <1>6 DEF Usps!Call
  <2>2. issued' = issued /\ c \notin PastFirst /\ c \notin PastSecond
    BY <1>3, <1>6 DEF Usps!Call, Usps!usps, PastFirst, PastSecond
  <2> QED BY <1>5, <2>1, <2>2
<1>7. ASSUME NEW c \in Callers, Usps!Reuse(c) PROVE Counted'
  <2>1. Step(c) /\ issued' = issued
    BY <1>1, <1>7 DEF Usps!Reuse, Usps!Reusable, Usps!Send, Usps!usps
  <2>2. c \in PastFirst' /\ c \notin PastSecond
    BY <1>1, <1>7 DEF Usps!Reuse, Usps!Send, PastFirst, PastSecond
  <2> QED BY <1>5, <2>1, <2>2
<1>8. ASSUME NEW c \in Callers, Usps!StartFetch(c) PROVE Counted'
  <2>1. Step(c) /\ issued' = issued
    BY <1>1, <1>8 DEF Usps!StartFetch, Usps!usps
  <2>2. (c \in PastFirst => c \in PastFirst') /\ c \notin PastSecond
    BY <1>1, <1>8 DEF Usps!StartFetch, PastFirst, PastSecond
  <2> QED BY <1>5, <2>1, <2>2
<1>9. ASSUME NEW c \in Callers, Usps!Issue(c) PROVE Counted'
  <2>1. Step(c) /\ issued' = issued + 1
    BY <1>1, <1>9 DEF Usps!Issue
  <2>2. pc[c] = "fetching" /\ pc' = [pc EXCEPT ![c] = "issued"] /\ retry' = retry
    BY <1>9 DEF Usps!Issue
  <2>3. PastFirst' = PastFirst \cup {c}
    BY <1>1, <2>2 DEF PastFirst
  <2>4. PastSecond' = IF retry[c] THEN PastSecond ELSE PastSecond \cup {c}
    BY <1>1, <2>2 DEF PastSecond
  <2>5. c \notin PastSecond /\ (retry[c] => c \notin PastFirst) /\ (~retry[c] => c \in PastFirst)
    BY <2>2 DEF PastFirst, PastSecond
  <2>6. PastFirst \subseteq Callers /\ PastSecond \subseteq Callers
    BY DEF PastFirst, PastSecond
  <2>7. /\ retry[c] => Cardinality(PastFirst') = Cardinality(PastFirst) + 1
        /\ ~retry[c] => PastFirst' = PastFirst
    BY <2>3, <2>5, <2>6, CallersCounted
  <2>8. /\ ~retry[c] => Cardinality(PastSecond') = Cardinality(PastSecond) + 1
        /\ retry[c] => PastSecond' = PastSecond
    BY <2>4, <2>5, <2>6, CallersCounted
  <2>9. Cardinality(PastFirst) \in Nat /\ Cardinality(PastSecond) \in Nat
    BY <2>6, CallersCounted
  <2>10. issued <= Cardinality(PastFirst) + Cardinality(PastSecond)
    BY DEF UspsIInv, Counted
  <2>11. issued + 1 <= Cardinality(PastFirst') + Cardinality(PastSecond')
    <3>1. CASE retry[c]
      BY <1>1, <2>7, <2>8, <2>9, <2>10, <3>1
    <3>2. CASE ~retry[c]
      BY <1>1, <2>7, <2>8, <2>9, <2>10, <3>2
    <3> QED BY <3>1, <3>2
  <2> QED BY <1>1, <1>3, <2>1, <2>11 DEF Counted
<1>10. ASSUME NEW c \in Callers, Usps!Store(c) PROVE Counted'
  <2>1. Step(c) /\ issued' = issued
    BY <1>1, <1>3, <1>10 DEF Usps!Store, Usps!Send, Usps!usps
  <2>2. (c \in PastFirst => c \in PastFirst') /\ (c \in PastSecond => c \in PastSecond')
    BY <1>1, <1>10 DEF Usps!Store, Usps!Send, PastFirst, PastSecond
  <2> QED BY <1>5, <2>1, <2>2
<1>11. ASSUME NEW c \in Callers, Usps!FetchRefused(c) PROVE Counted'
  <2>1. Step(c) /\ issued' = issued
    BY <1>1, <1>11 DEF Usps!FetchRefused, Usps!usps
  <2>2. (c \in PastFirst => c \in PastFirst') /\ (c \in PastSecond => c \in PastSecond')
    BY <1>1, <1>11 DEF Usps!FetchRefused, PastFirst, PastSecond
  <2> QED BY <1>5, <2>1, <2>2
<1>12. ASSUME NEW c \in Callers, Usps!FetchFails(c) PROVE Counted'
  <2>1. Step(c) /\ issued' = issued
    BY <1>1, <1>12 DEF Usps!FetchFails, Usps!usps
  <2>2. (c \in PastFirst => c \in PastFirst') /\ (c \in PastSecond => c \in PastSecond')
    BY <1>1, <1>12 DEF Usps!FetchFails, PastFirst, PastSecond
  <2> QED BY <1>5, <2>1, <2>2
<1>13. ASSUME NEW c \in Callers, Usps!Serve(c) PROVE Counted'
  <2>1. Step(c) /\ issued' = issued
    BY <1>1, <1>13 DEF Usps!Serve, Usps!usps
  <2>2. (c \in PastFirst => c \in PastFirst') /\ (c \in PastSecond => c \in PastSecond')
    BY <1>1, <1>13 DEF Usps!Serve, PastFirst, PastSecond
  <2> QED BY <1>5, <2>1, <2>2
<1>14. ASSUME NEW c \in Callers, Usps!RequestFails(c) PROVE Counted'
  <2>1. Step(c) /\ issued' = issued
    BY <1>1, <1>14 DEF Usps!RequestFails, Usps!usps
  <2>2. (c \in PastFirst => c \in PastFirst') /\ (c \in PastSecond => c \in PastSecond')
    BY <1>1, <1>14 DEF Usps!RequestFails, PastFirst, PastSecond
  <2> QED BY <1>5, <2>1, <2>2
<1>15. ASSUME NEW c \in Callers, Usps!Invalidate(c) PROVE Counted'
  <2>1. Step(c) /\ issued' = issued
    BY <1>1, <1>15 DEF Usps!Invalidate, Usps!usps
  <2>2. c \in PastFirst' /\ c \notin PastSecond
    BY <1>1, <1>15 DEF Usps!Invalidate, PastFirst, PastSecond
  <2> QED BY <1>5, <2>1, <2>2
<1>16. ASSUME NEW c \in Callers, Usps!Deny(c) PROVE Counted'
  <2>1. Step(c) /\ issued' = issued
    BY <1>1, <1>16 DEF Usps!Deny, Usps!usps
  <2>2. (c \in PastFirst => c \in PastFirst') /\ (c \in PastSecond => c \in PastSecond')
    BY <1>1, <1>16 DEF Usps!Deny, PastFirst, PastSecond
  <2> QED BY <1>5, <2>1, <2>2
<1> QED
  BY <1>4, <1>6, <1>7, <1>8, <1>9, <1>10, <1>11, <1>12, <1>13, <1>14, <1>15, <1>16
  DEF Usps!Next, Usps!Proceed

\* Tokens and times.
LEMMA MarginsNext ==
  ASSUME Usps!UspsAssumption, UspsIInv, Usps!Next
  PROVE  Margins'
<1>1. /\ TTL \in Nat /\ Skew \in Nat /\ Timeout \in Nat /\ 2 * Timeout <= Skew /\ Skew < TTL
      /\ issued \in Nat /\ 1 .. issued \subseteq Usps!Tokens
      /\ \A c \in Callers : pc[c] = "fetching" => issued + 1 \in Usps!Tokens
  BY UspsTimes, IssuedFits
<1>2. /\ pc \in [Callers -> {"idle", "token", "refused"} \cup Usps!Exchanging \cup Usps!Answers]
      /\ bearer \in [Callers -> 0 .. issued] /\ wire \in [Callers -> 0 .. Timeout]
      /\ value \in 0 .. issued /\ left \in 0 .. TTL
      /\ life \in [Usps!Tokens -> 0 .. TTL]
  BY DEF UspsIInv, Usps!TypeOK
<1>3. \A c \in Callers : pc[c] \in {"issued", "sending"} => bearer[c] \in 1 .. issued
  BY DEF UspsIInv, Counted
<1>4. Margins
  BY DEF UspsIInv
<1>5. ASSUME NEW c \in Callers, life' = life, left' = left, value' \in {0, value},
             pc'[c] \notin {"issued", "sending"},
             \A d \in Callers \ {c} : pc'[d] = pc[d] /\ bearer'[d] = bearer[d] /\ wire'[d] = wire[d]
      PROVE  Margins'
  BY <1>4, <1>5 DEF Margins
<1>6. CASE Usps!Revoke \/ Usps!Bar
  <2>1. UNCHANGED <<value, left, life, pc, bearer, wire>>
    BY <1>6 DEF Usps!Revoke, Usps!Bar, Usps!slot
  <2> QED BY <1>4, <2>1 DEF Margins
<1>7. CASE Usps!Tick
  <2>1. /\ \A n \in Nat : Usps!Minus(n) \in Nat /\ n - 1 <= Usps!Minus(n) /\ Usps!Minus(n) <= n
        /\ \A m, n \in Nat : m <= n => Usps!Minus(m) <= Usps!Minus(n)
        /\ \A m, n \in Nat : n <= m + Timeout => Usps!Minus(n) <= Usps!Minus(m) + Timeout
    BY <1>1 DEF Usps!Minus
  <2>2. /\ value' = value /\ pc' = pc /\ bearer' = bearer /\ left' = Usps!Minus(left)
        /\ \A t \in Usps!Tokens : life'[t] = Usps!Minus(life[t])
        /\ \A c \in Callers : pc[c] \in {"issued", "sending"} => wire'[c] = wire[c] + 1
    BY <1>7 DEF Usps!Tick, Usps!Exchanging
  <2>3. value' # 0 => life'[value'] <= left' /\ left' <= life'[value'] + Timeout
    <3> HAVE value' # 0
    <3>1. value \in Usps!Tokens
      BY <1>1, <1>2, <2>2
    <3>2. life[value] \in Nat /\ left \in Nat
      BY <1>2, <3>1
    <3>3. life[value] <= left /\ left <= life[value] + Timeout
      BY <1>4, <2>2 DEF Margins
    <3>4. /\ Usps!Minus(life[value]) <= Usps!Minus(left)
          /\ Usps!Minus(left) <= Usps!Minus(life[value]) + Timeout
      BY <2>1, <3>2, <3>3
    <3> QED BY <2>2, <3>1, <3>4
  <2>4. ASSUME NEW c \in Callers, pc'[c] \in {"issued", "sending"}
        PROVE  life[bearer[c]] + wire[c] <= life'[bearer'[c]] + wire'[c]
    <3>1. bearer[c] \in Usps!Tokens
      BY <1>1, <1>3, <2>2, <2>4
    <3>2. life[bearer[c]] \in Nat /\ wire[c] \in Nat
      BY <1>2, <3>1
    <3>3. life'[bearer'[c]] = Usps!Minus(life[bearer[c]]) /\ wire'[c] = wire[c] + 1
      BY <2>2, <2>4, <3>1
    <3>4. \A n \in Nat : Usps!Minus(n) \in Nat /\ n - 1 <= Usps!Minus(n)
      BY <2>1
    <3> DEFINE m == life[bearer[c]]
    <3>5. Usps!Minus(m) \in Nat /\ m - 1 <= Usps!Minus(m)
      BY <3>2, <3>4
    <3> QED BY <3>2, <3>3, <3>5
  <2>5. ASSUME NEW c \in Callers, pc'[c] \in {"issued", "sending"}
        PROVE  /\ life[bearer[c]] \in Nat /\ life'[bearer'[c]] \in Nat
               /\ wire[c] \in Nat /\ wire'[c] \in Nat
    <3>1. bearer[c] \in Usps!Tokens
      BY <1>1, <1>3, <2>2, <2>5
    <3> QED BY <1>2, <2>1, <2>2, <2>5, <3>1
  <2>6. \A c \in Callers : pc'[c] = "issued" => TTL <= life'[bearer'[c]] + wire'[c]
    BY <1>1, <1>4, <2>2, <2>4, <2>5 DEF Margins
  <2>7. \A c \in Callers : pc'[c] = "sending" => Skew < life'[bearer'[c]] + Timeout + wire'[c]
    BY <1>1, <1>4, <2>2, <2>4, <2>5 DEF Margins
  <2> QED BY <2>3, <2>6, <2>7 DEF Margins
<1>8. ASSUME NEW c \in Callers, Usps!Call(c) \/ Usps!Serve(c) \/ Usps!Deny(c) PROVE Margins'
  <2>1. UNCHANGED <<value, left, life, bearer, wire>>
    BY <1>8 DEF Usps!Call, Usps!Serve, Usps!Deny, Usps!slot, Usps!usps
  <2>2. pc'[c] \notin {"issued", "sending"} /\ \A d \in Callers \ {c} : pc'[d] = pc[d]
    BY <1>2, <1>8 DEF Usps!Call, Usps!Serve, Usps!Deny
  <2> QED BY <1>5, <2>1, <2>2
<1>9. ASSUME NEW c \in Callers, Usps!FetchRefused(c) \/ Usps!FetchFails(c) \/ Usps!RequestFails(c)
      PROVE  Margins'
  <2>1. UNCHANGED <<value, left, life, bearer, wire>>
    BY <1>9 DEF Usps!FetchRefused, Usps!FetchFails, Usps!RequestFails, Usps!slot, Usps!usps
  <2>2. pc'[c] \notin {"issued", "sending"} /\ \A d \in Callers \ {c} : pc'[d] = pc[d]
    BY <1>2, <1>9 DEF Usps!FetchRefused, Usps!FetchFails, Usps!RequestFails
  <2> QED BY <1>5, <2>1, <2>2
<1>10. ASSUME NEW c \in Callers, Usps!StartFetch(c) \/ Usps!Invalidate(c) PROVE Margins'
  <2>1. value' \in {0, value} /\ UNCHANGED <<left, life, bearer>>
    BY <1>10 DEF Usps!StartFetch, Usps!Invalidate, Usps!usps
  <2>2. /\ pc'[c] \notin {"issued", "sending"}
        /\ \A d \in Callers \ {c} : pc'[d] = pc[d] /\ wire'[d] = wire[d]
    BY <1>2, <1>10 DEF Usps!StartFetch, Usps!Invalidate
  <2> QED BY <1>5, <2>1, <2>2
<1>11. ASSUME NEW c \in Callers, Usps!Reuse(c) PROVE Margins'
  <2>1. UNCHANGED <<value, left, life>> /\ value # 0 /\ Skew < left
    BY <1>1, <1>2, <1>11 DEF Usps!Reuse, Usps!Reusable, Usps!slot, Usps!usps
  <2>2. pc'[c] = "sending" /\ bearer'[c] = value /\ wire'[c] = 0
    BY <1>2, <1>11 DEF Usps!Reuse, Usps!Send
  <2>3. \A d \in Callers \ {c} : pc'[d] = pc[d] /\ bearer'[d] = bearer[d] /\ wire'[d] = wire[d]
    BY <1>2, <1>11 DEF Usps!Reuse, Usps!Send
  <2>4. life[value] \in Nat /\ left \in Nat
    BY <1>1, <1>2, <2>1
  <2>5. Skew < life'[bearer'[c]] + Timeout + wire'[c]
    BY <1>1, <1>4, <2>1, <2>2, <2>4 DEF Margins
  <2> QED BY <1>4, <2>1, <2>2, <2>3, <2>5 DEF Margins
<1>12. ASSUME NEW c \in Callers, Usps!Issue(c) PROVE Margins'
  <2>1. /\ issued + 1 \in Usps!Tokens
        /\ life'[issued + 1] = TTL
        /\ \A t \in Usps!Tokens \ {issued + 1} : life'[t] = life[t]
    BY <1>1, <1>2, <1>12 DEF Usps!Issue
  <2>2. pc'[c] = "issued" /\ bearer'[c] = issued + 1 /\ UNCHANGED <<value, left, wire>>
    BY <1>2, <1>12 DEF Usps!Issue, Usps!slot
  <2>3. \A d \in Callers \ {c} : pc'[d] = pc[d] /\ bearer'[d] = bearer[d]
    BY <1>2, <1>12 DEF Usps!Issue
  <2>4. \A t \in 1 .. issued : life'[t] = life[t]
    BY <1>1, <2>1
  <2>5. \A d \in Callers \ {c} : pc'[d] \in {"issued", "sending"} => life'[bearer'[d]] = life[bearer[d]]
    BY <1>3, <2>3, <2>4
  <2>6. value # 0 => life'[value] = life[value]
    BY <1>1, <1>2, <2>4
  <2>7. TTL <= life'[bearer'[c]] + wire'[c]
    BY <1>1, <1>2, <2>1, <2>2
  <2> QED BY <1>4, <2>2, <2>3, <2>5, <2>6, <2>7 DEF Margins
<1>13. ASSUME NEW c \in Callers, Usps!Store(c) PROVE Margins'
  <2>1. /\ pc[c] = "issued" /\ value' = bearer[c] /\ left' = TTL /\ life' = life
        /\ pc'[c] = "sending" /\ bearer'[c] = bearer[c] /\ wire'[c] = 0
    BY <1>2, <1>13 DEF Usps!Store, Usps!Send, Usps!usps
  <2>2. \A d \in Callers \ {c} : pc'[d] = pc[d] /\ bearer'[d] = bearer[d] /\ wire'[d] = wire[d]
    BY <1>2, <1>13 DEF Usps!Store, Usps!Send
  <2>3. bearer[c] \in Usps!Tokens
    BY <1>1, <1>3, <2>1
  <2>4. life[bearer[c]] \in 0 .. TTL /\ wire[c] \in 0 .. Timeout
    BY <1>2, <2>3
  <2>5. TTL <= life[bearer[c]] + wire[c]
    BY <1>4, <2>1 DEF Margins
  <2>6. life'[value'] <= left' /\ left' <= life'[value'] + Timeout
    BY <1>1, <2>1, <2>4, <2>5
  <2>7. Skew < life'[bearer'[c]] + Timeout + wire'[c]
    BY <1>1, <2>1, <2>4, <2>5
  <2> QED BY <1>4, <2>1, <2>2, <2>6, <2>7 DEF Margins
<1> QED
  BY <1>6, <1>7, <1>8, <1>9, <1>10, <1>11, <1>12, <1>13 DEF Usps!Next, Usps!Proceed

\* Fetches and what they are owed to.
LEMMA FetchesPaidNext ==
  ASSUME Usps!UspsAssumption, UspsIInv, Usps!Next
  PROVE  FetchesPaid'
<1>1. /\ TTL \in Nat /\ Skew \in Nat /\ Skew < TTL /\ MaxFaults \in Nat /\ NoOne \notin Callers
      /\ issued \in Nat /\ 1 .. issued \subseteq Usps!Tokens
      /\ \A c \in Callers : pc[c] = "fetching" => issued + 1 \in Usps!Tokens
  BY UspsTimes, IssuedFits
<1>2. /\ pc \in [Callers -> {"idle", "token", "refused"} \cup Usps!Exchanging \cup Usps!Answers]
      /\ retry \in [Callers -> BOOLEAN] /\ lock \in Callers \cup {NoOne}
      /\ value \in 0 .. issued /\ left \in 0 .. TTL /\ faults \in 0 .. MaxFaults
      /\ life \in [Usps!Tokens -> 0 .. TTL]
      /\ \A c \in Callers : pc[c] \in {"fetching", "issued"} <=> lock = c
  BY DEF UspsIInv, Usps!TypeOK
<1>3. FetchesPaid /\ Usps!Invalidations \in Nat /\ Due \in {0, 1}
  BY Invalidated DEF UspsIInv
<1>4. retry' = retry => Usps!Invalidations' = Usps!Invalidations
  BY DEF Usps!Invalidations
<1>5. life' = life /\ issued' = issued => (Usps!AllLong' <=> Usps!AllLong)
  BY DEF Usps!AllLong
\* A step that leaves slot, fetches, refusals and failures alone.
<1>6. ASSUME Usps!AllLong' => Usps!AllLong, UNCHANGED <<issued, faults, retry>>, Due' <= Due, Due' \in {0, 1}
      PROVE  FetchesPaid'
  <2>1. faults \in Nat /\ Usps!Invalidations' = Usps!Invalidations
    BY <1>2, <1>4, <1>6
  <2> SUFFICES ASSUME Usps!AllLong'
               PROVE  issued' + Due' <= 1 + Usps!Invalidations' + (MaxFaults - faults')
    BY DEF FetchesPaid
  <2>2. issued + Due <= 1 + Usps!Invalidations + (MaxFaults - faults)
    BY <1>3, <1>6 DEF FetchesPaid
  <2>3. /\ issued \in Nat /\ issued' = issued /\ faults' = faults
        /\ Due \in Nat /\ Due' \in Nat /\ Due' <= Due /\ Usps!Invalidations \in Nat
    BY <1>1, <1>3, <1>6
  <2>4. MaxFaults - faults \in Int
    BY <1>1, <2>1
  <2> QED BY <2>1, <2>2, <2>3, <2>4
<1>7. CASE Usps!Revoke \/ Usps!Bar
  <2>1. UNCHANGED <<value, lock, pc, retry, issued, life, faults>>
    BY <1>7 DEF Usps!Revoke, Usps!Bar, Usps!slot
  <2>2. Due' = Due
    BY <2>1 DEF Due
  <2> QED BY <1>3, <1>5, <1>6, <2>1, <2>2
<1>8. CASE Usps!Tick
  <2>1. UNCHANGED <<value, lock, pc, retry, issued, faults>>
    BY <1>8 DEF Usps!Tick
  <2>2. \A n \in Nat : Skew < Usps!Minus(n) => Skew < n
    BY <1>1 DEF Usps!Minus
  <2>3. \A t \in 1 .. issued : life[t] \in Nat /\ life'[t] = Usps!Minus(life[t])
    BY <1>1, <1>2, <1>8 DEF Usps!Tick
  <2>4. Usps!AllLong' => Usps!AllLong
    BY <2>1, <2>2, <2>3 DEF Usps!AllLong
  <2>5. Due' = Due
    BY <2>1 DEF Due
  <2> QED BY <1>3, <1>6, <2>1, <2>4, <2>5
<1>9. ASSUME NEW c \in Callers, Usps!Call(c) \/ Usps!Reuse(c) \/ Usps!Serve(c) \/ Usps!Deny(c)
      PROVE  FetchesPaid'
  <2>1. UNCHANGED <<value, lock, retry, issued, life, faults>>
    BY <1>9 DEF Usps!Call, Usps!Reuse, Usps!Serve, Usps!Deny, Usps!slot, Usps!usps
  <2>2. pc[c] # "fetching" /\ pc'[c] # "fetching" /\ \A d \in Callers \ {c} : pc'[d] = pc[d]
    BY <1>2, <1>9 DEF Usps!Call, Usps!Reuse, Usps!Send, Usps!Serve, Usps!Deny
  <2>3. Due' = Due
    BY <1>2, <2>1, <2>2 DEF Due
  <2> QED BY <1>3, <1>5, <1>6, <2>1, <2>3
<1>10. ASSUME NEW c \in Callers, Usps!StartFetch(c) PROVE FetchesPaid'
  <2>1. UNCHANGED <<value, left, retry, issued, life, faults>> /\ lock = NoOne /\ lock' = c /\ pc'[c] = "fetching"
    BY <1>2, <1>10 DEF Usps!StartFetch, Usps!usps
  <2>2. CASE value = 0
    <3>1. Due = 1 /\ Due' = 1
      BY <1>1, <2>1, <2>2 DEF Due
    <3> QED BY <1>5, <1>6, <2>1, <3>1
  <2>3. CASE value # 0
    <3>1. left <= Skew
      BY <1>1, <1>2, <1>10, <2>3 DEF Usps!StartFetch, Usps!Reusable
    <3>2. life[value] <= left /\ value \in 1 .. issued
      BY <1>1, <1>2, <2>3 DEF UspsIInv, Margins
    <3>3. ~Usps!AllLong
      BY <1>1, <1>2, <3>1, <3>2 DEF Usps!AllLong
    <3> QED BY <1>5, <2>1, <3>3 DEF FetchesPaid
  <2> QED BY <2>2, <2>3
<1>11. ASSUME NEW c \in Callers, Usps!Issue(c) PROVE FetchesPaid'
  <2>1. /\ pc[c] = "fetching" /\ pc'[c] = "issued" /\ issued' = issued + 1
        /\ UNCHANGED <<value, lock, retry, faults>>
    BY <1>2, <1>11 DEF Usps!Issue, Usps!slot
  <2>2. lock = c
    BY <1>2, <2>1
  <2>3. Due = 1 /\ Due' = 0
    BY <1>1, <2>1, <2>2 DEF Due
  <2>4. \A t \in 1 .. issued : life'[t] = life[t]
    BY <1>1, <1>2, <1>11 DEF Usps!Issue
  <2>5. Usps!AllLong' => Usps!AllLong
    BY <1>1, <2>1, <2>4 DEF Usps!AllLong
  <2> QED BY <1>1, <1>2, <1>3, <1>4, <2>1, <2>3, <2>5 DEF FetchesPaid
<1>12. ASSUME NEW c \in Callers, Usps!Store(c) PROVE FetchesPaid'
  <2>1. UNCHANGED <<retry, issued, life, faults>> /\ lock' = NoOne /\ value' = bearer[c] /\ pc[c] = "issued"
    BY <1>12 DEF Usps!Store, Usps!usps
  <2>2. value' # 0
    BY <1>1, <2>1 DEF UspsIInv, Counted
  <2>3. Due' = 0
    BY <2>1, <2>2 DEF Due
  <2> QED BY <1>3, <1>5, <1>6, <2>1, <2>3
<1>13. ASSUME NEW c \in Callers, Usps!FetchRefused(c) PROVE FetchesPaid'
  <2>1. UNCHANGED <<value, retry, issued, life, faults>> /\ lock' = NoOne /\ pc[c] = "fetching"
    BY <1>13 DEF Usps!FetchRefused, Usps!usps
  <2>2. Due = 1 /\ Due' \in {0, 1}
    BY <1>1, <1>2, <2>1 DEF Due
  <2> QED BY <1>5, <1>6, <2>1, <2>2
<1>14. ASSUME NEW c \in Callers, Usps!FetchFails(c) \/ Usps!RequestFails(c) PROVE FetchesPaid'
  <2>1. UNCHANGED <<retry, issued, life>> /\ faults > 0 /\ faults' = faults - 1
    BY <1>14 DEF Usps!FetchFails, Usps!RequestFails, Usps!usps
  <2>2. Due' \in {0, 1}
    BY DEF Due
  <2>3. Usps!Invalidations' = Usps!Invalidations /\ (Usps!AllLong' => Usps!AllLong)
    BY <1>4, <1>5, <2>1
  <2>4. faults \in Nat /\ faults' \in Nat /\ issued' = issued
    BY <1>2, <2>1
  <2> SUFFICES ASSUME Usps!AllLong'
               PROVE  issued' + Due' <= 1 + Usps!Invalidations' + (MaxFaults - faults')
    BY DEF FetchesPaid
  <2>5. issued + Due <= 1 + Usps!Invalidations + (MaxFaults - faults)
    BY <1>3, <2>3 DEF FetchesPaid
  <2>6. /\ issued \in Nat /\ Due \in Nat /\ Due' \in Nat /\ Due' <= Due + 1
        /\ Usps!Invalidations \in Nat /\ faults' = faults - 1
    BY <1>1, <1>3, <2>1, <2>2
  <2>7. MaxFaults - faults \in Int /\ MaxFaults - faults' = (MaxFaults - faults) + 1
    BY <1>1, <2>4, <2>6
  <2> QED BY <2>3, <2>4, <2>5, <2>6, <2>7
<1>15. ASSUME NEW c \in Callers, Usps!Invalidate(c) PROVE FetchesPaid'
  <2>1. UNCHANGED <<issued, life, faults>> /\ retry[c] /\ retry' = [retry EXCEPT ![c] = FALSE]
    BY <1>15 DEF Usps!Invalidate, Usps!usps
  <2> DEFINE S == {d \in Callers : ~retry[d]}
  <2>2. {d \in Callers : ~retry'[d]} = S \cup {c}
    BY <1>2, <2>1
  <2>3. S \subseteq Callers /\ c \in Callers \ S
    BY <2>1
  <2>4. Cardinality(S \cup {c}) = Cardinality(S) + 1
    <3> HIDE DEF S
    <3> QED BY <2>3, CallersCounted
  <2>5. Usps!Invalidations' = Usps!Invalidations + 1
    BY <2>2, <2>4, UspsCounts DEF Usps!Invalidations
  <2>6. Due' \in {0, 1}
    BY DEF Due
  <2>7. /\ Usps!AllLong' => Usps!AllLong
        /\ faults \in Nat /\ faults' = faults /\ issued' = issued
    BY <1>2, <1>5, <2>1
  <2> SUFFICES ASSUME Usps!AllLong'
               PROVE  issued' + Due' <= 1 + Usps!Invalidations' + (MaxFaults - faults')
    BY DEF FetchesPaid
  <2>8. issued + Due <= 1 + Usps!Invalidations + (MaxFaults - faults)
    BY <1>3, <2>7 DEF FetchesPaid
  <2>9. /\ issued \in Nat /\ Due \in Nat /\ Due' \in Nat /\ Due' <= Due + 1
        /\ Usps!Invalidations \in Nat
    BY <1>1, <1>3, <2>6
  <2>10. MaxFaults - faults \in Int
    BY <1>1, <2>7
  <2> QED BY <2>5, <2>7, <2>8, <2>9, <2>10
<1> QED
  BY <1>7, <1>8, <1>9, <1>10, <1>11, <1>12, <1>13, <1>14, <1>15 DEF Usps!Next, Usps!Proceed

\* Nobody is refused twice for one revocation.
LEMMA SparedNext ==
  ASSUME Usps!UspsAssumption, UspsIInv, Usps!Next
  PROVE  Spared'
<1>1. /\ pc \in [Callers -> {"idle", "token", "refused"} \cup Usps!Exchanging \cup Usps!Answers]
      /\ retry \in [Callers -> BOOLEAN] /\ bearer \in [Callers -> 0 .. issued]
      /\ issued \in Nat /\ dead \subseteq 1 .. issued /\ revocations \in Nat
      /\ \A c \in Callers : pc[c] \in {"fetching", "issued"} <=> lock = c
      /\ NoOne \notin Callers
  <2>1. issued \in Nat /\ MaxRevocations \in Nat /\ NoOne \notin Callers
    BY IssuedFits, UspsTimes
  <2> QED BY <2>1 DEF UspsIInv, Usps!TypeOK
<1>2. Unrevoked /\ RevokedOnce /\ Usps!DenialsOwed
  BY DEF UspsIInv, Spared
\* A step of a caller that leaves USPS alone, and the callers' retries.
<1> DEFINE Step(c) ==
      /\ UNCHANGED <<dead, valid, revocations>>
      /\ \A d \in Callers \ {c} : pc'[d] = pc[d] /\ retry'[d] = retry[d] /\ bearer'[d] = bearer[d]
<1>3. ASSUME NEW c \in Callers, Step(c), retry'[c] = retry[c],
             RevokedOnce /\ valid /\ revocations = 1 /\ (\E d \in Callers : ~retry[d]) =>
               value' \notin dead /\ Works(c)',
             valid /\ revocations = 0 => pc'[c] # "refused",
             pc'[c] = "denied" => ~valid \/ revocations >= 2
      PROVE  Spared'
  <2>1. Unrevoked'
    BY <1>2, <1>3 DEF Unrevoked
  <2>2. \A d \in Callers \ {c} : Works(d) => Works(d)'
    BY <1>3 DEF Works
  <2>3. RevokedOnce'
    BY <1>2, <1>3, <2>2 DEF RevokedOnce
  <2>4. Usps!DenialsOwed'
    BY <1>2, <1>3 DEF Usps!DenialsOwed
  <2> QED BY <2>1, <2>3, <2>4 DEF Spared
<1>4. CASE Usps!Revoke
  <2>1. revocations' = revocations + 1 /\ UNCHANGED <<pc, retry, bearer, valid>>
    BY <1>4 DEF Usps!Revoke
  <2>2. Unrevoked'
    BY <1>1, <2>1 DEF Unrevoked
  <2>3. RevokedOnce'
    BY <1>1, <1>2, <2>1 DEF RevokedOnce, Unrevoked
  <2>4. Usps!DenialsOwed'
    BY <1>1, <1>2, <2>1 DEF Usps!DenialsOwed
  <2> QED BY <2>2, <2>3, <2>4 DEF Spared
<1>5. CASE Usps!Bar
  BY <1>5 DEF Usps!Bar, Spared, Unrevoked, RevokedOnce, Usps!DenialsOwed
<1>6. CASE Usps!Tick
  <2>1. UNCHANGED <<value, pc, retry, bearer, dead, valid, revocations>>
    BY <1>6 DEF Usps!Tick
  <2> QED BY <1>2, <2>1 DEF Spared, Unrevoked, RevokedOnce, Works, Usps!DenialsOwed
<1>7. ASSUME NEW c \in Callers,
             Usps!Call(c) \/ Usps!StartFetch(c) \/ Usps!FetchFails(c) \/ Usps!RequestFails(c)
      PROVE  Spared'
  <2>1. Step(c) /\ value' = value /\ retry'[c] = retry[c]
    BY <1>1, <1>7
    DEF Usps!Call, Usps!StartFetch, Usps!FetchFails, Usps!RequestFails, Usps!slot, Usps!usps
  <2>2. pc'[c] \in {"token", "fetching", "failed"}
    BY <1>1, <1>7 DEF Usps!Call, Usps!StartFetch, Usps!FetchFails, Usps!RequestFails
  <2>3. Works(c)'
    BY <2>2 DEF Works
  <2>4. RevokedOnce /\ valid /\ revocations = 1 /\ (\E d \in Callers : ~retry[d]) => value' \notin dead
    BY <2>1 DEF RevokedOnce
  <2> QED BY <1>3, <2>1, <2>2, <2>3, <2>4
<1>8. ASSUME NEW c \in Callers, Usps!Reuse(c) PROVE Spared'
  <2>1. Step(c) /\ value' = value /\ retry'[c] = retry[c]
    BY <1>1, <1>8 DEF Usps!Reuse, Usps!Send, Usps!slot, Usps!usps
  <2>2. pc'[c] = "sending" /\ bearer'[c] = value
    BY <1>1, <1>8 DEF Usps!Reuse, Usps!Send
  <2>3. RevokedOnce /\ valid /\ revocations = 1 /\ (\E d \in Callers : ~retry[d]) =>
          value' \notin dead /\ Works(c)'
    BY <2>1, <2>2 DEF RevokedOnce, Works
  <2> QED BY <1>3, <2>1, <2>2, <2>3
<1>9. ASSUME NEW c \in Callers, Usps!Issue(c) PROVE Spared'
  <2>1. Step(c) /\ value' = value /\ retry'[c] = retry[c]
    BY <1>1, <1>9 DEF Usps!Issue, Usps!slot
  <2>2. pc'[c] = "issued" /\ bearer'[c] = issued + 1
    BY <1>1, <1>9 DEF Usps!Issue
  <2>3. issued + 1 \notin dead
    BY <1>1
  <2>4. Works(c)'
    BY <2>1, <2>2, <2>3 DEF Works
  <2>5. RevokedOnce /\ valid /\ revocations = 1 /\ (\E d \in Callers : ~retry[d]) => value' \notin dead
    BY <2>1 DEF RevokedOnce
  <2> QED BY <1>3, <2>1, <2>2, <2>4, <2>5
<1>10. ASSUME NEW c \in Callers, Usps!Store(c) PROVE Spared'
  <2>1. Step(c) /\ value' = bearer[c] /\ retry'[c] = retry[c]
    BY <1>1, <1>10 DEF Usps!Store, Usps!Send, Usps!usps
  <2>2. pc[c] = "issued" /\ pc'[c] = "sending" /\ bearer'[c] = bearer[c]
    BY <1>1, <1>10 DEF Usps!Store, Usps!Send
  <2>3. RevokedOnce /\ valid /\ revocations = 1 /\ (\E d \in Callers : ~retry[d]) =>
          value' \notin dead /\ Works(c)'
    BY <2>1, <2>2 DEF RevokedOnce, Works
  <2> QED BY <1>3, <2>1, <2>2, <2>3
<1>11. ASSUME NEW c \in Callers, Usps!FetchRefused(c) PROVE Spared'
  <2>1. Step(c) /\ ~valid /\ retry'[c] = retry[c]
    BY <1>1, <1>11 DEF Usps!FetchRefused, Usps!usps
  <2> QED BY <1>3, <2>1
<1>12. ASSUME NEW c \in Callers, Usps!Serve(c) PROVE Spared'
  <2>1. Step(c) /\ value' = value /\ retry'[c] = retry[c]
    BY <1>1, <1>12 DEF Usps!Serve, Usps!slot, Usps!usps
  <2>2. pc[c] = "sending" /\ pc'[c] \in {"done", "refused"}
        /\ (bearer[c] \notin dead /\ life[bearer[c]] > 0 => pc'[c] = "done")
    BY <1>1, <1>12 DEF Usps!Serve
  <2>3. life[bearer[c]] > 0
    BY <2>2, InFlight DEF Usps!ExpiryCovered
  <2>4. valid /\ revocations = 0 => pc'[c] # "refused"
    BY <1>2, <2>2, <2>3 DEF Unrevoked
  <2>5. RevokedOnce /\ valid /\ revocations = 1 /\ (\E d \in Callers : ~retry[d]) =>
          value' \notin dead /\ Works(c)'
    BY <2>1, <2>2, <2>3 DEF RevokedOnce, Works
  <2> QED BY <1>3, <2>1, <2>2, <2>4, <2>5
<1>13. ASSUME NEW c \in Callers, Usps!Invalidate(c) PROVE Spared'
  <2>1. Step(c) /\ value' = 0 /\ pc[c] = "refused" /\ pc'[c] = "token" /\ lock = NoOne
    BY <1>1, <1>13 DEF Usps!Invalidate, Usps!usps
  <2>2. ~(valid /\ revocations = 0)
    BY <1>2, <2>1 DEF Unrevoked
  <2>3. value' \notin dead'
    BY <1>1, <2>1
  <2>4. ASSUME NEW d \in Callers, valid, revocations = 1 PROVE Works(d)'
    <3>1. CASE d = c
      BY <2>1, <3>1 DEF Works
    <3>2. CASE d # c /\ retry[d]
      BY <1>1, <2>1, <3>2 DEF Works
    <3>3. CASE d # c /\ ~retry[d]
      BY <1>2, <2>1, <2>4, <3>3 DEF RevokedOnce, Works
    <3> QED BY <3>1, <3>2, <3>3
  <2>5. Unrevoked'
    BY <2>1, <2>2 DEF Unrevoked
  <2>6. RevokedOnce'
    BY <2>1, <2>3, <2>4 DEF RevokedOnce
  <2>7. Usps!DenialsOwed'
    BY <1>2, <2>1 DEF Usps!DenialsOwed
  <2> QED BY <2>5, <2>6, <2>7 DEF Spared
<1>14. ASSUME NEW c \in Callers, Usps!Deny(c) PROVE Spared'
  <2>1. Step(c) /\ value' = value /\ retry'[c] = retry[c]
    BY <1>1, <1>14 DEF Usps!Deny, Usps!slot, Usps!usps
  <2>2. pc[c] = "refused" /\ ~retry[c] /\ pc'[c] = "denied"
    BY <1>1, <1>14 DEF Usps!Deny
  <2>3. ~valid \/ revocations >= 2
    BY <1>1, <1>2, <2>2 DEF Unrevoked, RevokedOnce, Works
  <2>4. ~(valid /\ revocations = 1)
    BY <1>1, <2>3
  <2> QED BY <1>3, <2>1, <2>2, <2>3, <2>4
<1> QED
  BY <1>4, <1>5, <1>6, <1>7, <1>8, <1>9, <1>10, <1>11, <1>12, <1>13, <1>14
  DEF Usps!Next, Usps!Proceed

LEMMA UspsNextInv ==
  ASSUME Usps!UspsAssumption, UspsIInv, Usps!Next
  PROVE  UspsIInv'
BY UspsTypedNext, CountedNext, MarginsNext, FetchesPaidNext, SparedNext DEF UspsIInv

-----------------------------------------------------------------------------
(* The clients together.                                                   *)

LEMMA UspsHold ==
  ASSUME Usps!UspsAssumption, UspsIInv
  PROVE  Usps!TokenSound /\ Usps!DenialsOwed /\ Usps!FetchesOwed
<1>1. /\ issued \in Nat /\ MaxFaults \in Nat /\ faults \in Nat /\ Usps!Invalidations \in Nat
      /\ Due \in {0, 1}
  BY UspsTimes, IssuedFits, Invalidated DEF UspsIInv, Usps!TypeOK
<1>2. ASSUME Usps!AllLong PROVE issued <= 1 + Usps!Invalidations + (MaxFaults - faults)
  <2>1. issued + Due <= 1 + Usps!Invalidations + (MaxFaults - faults)
    BY <1>2 DEF UspsIInv, FetchesPaid
  <2>2. Due \in Nat /\ MaxFaults - faults \in Int
    BY <1>1
  <2> QED BY <1>1, <2>1, <2>2
<1> QED
  BY <1>2, InFlight DEF Usps!TokenSound, Usps!FetchesOwed, UspsIInv, Spared

LEMMA UspsRests ==
  ASSUME UspsIInv, UNCHANGED uspsVars
  PROVE  UspsIInv'
BY DEF uspsVars, UspsIInv, Usps!TypeOK, Counted, PastFirst, PastSecond, Margins, FetchesPaid, Due,
       Usps!AllLong, Usps!Invalidations, Spared, Unrevoked, RevokedOnce, Works, Usps!DenialsOwed

-----------------------------------------------------------------------------
(* What the parts share.                                                   *)

LEMMA Appended ==
  ASSUME NEW S, NEW s \in Seq(S), NEW e \in S
  PROVE  /\ Append(s, e) \in Seq(S) /\ Len(Append(s, e)) = Len(s) + 1 /\ Len(s) \in Nat
         /\ DOMAIN s = 1..Len(s) /\ DOMAIN Append(s, e) = 1..(Len(s) + 1)
         /\ \A i \in 1..Len(s) : Append(s, e)[i] = s[i]
         /\ Append(s, e)[Len(s) + 1] = e
OBVIOUS

LEMMA Lengths ==
  ASSUME NEW S, NEW s \in Seq(S)
  PROVE  Len(s) \in Nat /\ DOMAIN s = 1..Len(s)
OBVIOUS

-----------------------------------------------------------------------------
(* Declarations to RMS (Registration).                                     *)

(***************************************************************************)
(* The inductive invariant.  Instances start in order, an answer tells of  *)
(* what RMS did, and whom a declaration has not beaten has settled before. *)
(***************************************************************************)
Ordered == \A i \in Rms!Deployments :
  /\ call[i] = "off" => tries[i] = 0 /\ flying[i] = {}
  /\ call[i] # "off" => \A j \in Rms!Deployments : j < i => call[j] # "off"
  /\ flying[i] \subseteq 1 .. tries[i]

AnswersTrue == \A i \in Rms!Deployments :
  /\ answer[i] # Nothing /\ answer[i] = "stored" => i \in landed
  /\ answer[i] # Nothing /\ answer[i] = "refused" => ~healthy[i]
  /\ i \in landed => healthy[i] /\ call[i] # "off"

\* Whoever came before has neither a call under way nor a request on its way.
SettledBefore(i) == \A j \in Rms!Deployments : j < i =>
  flying[j] = {} /\ call[j] # "off" /\ call[j] \notin Rms!Unsettled

Unbeaten == \A i \in landed \ beaten : SettledBefore(i)

RmsIInv == Rms!RegistrationSound /\ Ordered /\ AnswersTrue /\ Unbeaten

LEMMA RmsInitInv == Rms!RegistrationAssumption /\ Rms!RegistrationInit => RmsIInv
<1> SUFFICES ASSUME Rms!RegistrationAssumption, Rms!RegistrationInit PROVE RmsIInv
  OBVIOUS
<1> USE DEF Rms!RegistrationInit, Rms!RegistrationAssumption, Rms!Deployments
<1>1. Rms!TypeOK
  BY DEF Rms!TypeOK
<1>2. Rms!VerdictsTrue /\ Rms!OverwritesOwed
  BY DEF Rms!VerdictsTrue, Rms!OverwritesOwed
<1>3. Ordered /\ AnswersTrue /\ Unbeaten
  BY DEF Ordered, AnswersTrue, Unbeaten
<1> QED BY <1>1, <1>2, <1>3 DEF RmsIInv, Rms!RegistrationSound

\* What the invariant says of an instance, and what a step leaves of it.
LEMMA RmsFacts ==
  ASSUME Rms!RegistrationAssumption, RmsIInv
  PROVE  /\ Rms!Deployments \subseteq Nat /\ attempts \in Nat \ {0} /\ Nothing \notin Rms!Deployments
         /\ Rms!TypeOK /\ Rms!VerdictsTrue /\ Rms!OverwritesOwed
         /\ Ordered /\ AnswersTrue /\ Unbeaten
BY DEF RmsIInv, Rms!RegistrationSound, Rms!RegistrationAssumption, Rms!Deployments

\* A POST leaves from an instance that is not settled.
LEMMA RmsPosts ==
  ASSUME Rms!RegistrationAssumption, RmsIInv, NEW i \in Rms!Deployments, Rms!Post(i),
         call[i] \in {"off", "waiting"}, tries[i] < attempts,
         \A j \in Rms!Deployments : j < i => call[j] # "off",
         UNCHANGED <<declared, healthy, landed, beaten>>
  PROVE  RmsIInv'
<1> USE RmsFacts DEF Rms!Post, Rms!Unsettled, Rms!Returned
<1>1. tries[i] \in Nat /\ tries[i] + 1 \in 1 .. attempts /\ tries[i] <= tries[i] + 1
      /\ 1 .. tries[i] \subseteq 1 .. (tries[i] + 1)
  BY DEF Rms!TypeOK
<1>2. Rms!TypeOK'
  BY <1>1 DEF Rms!TypeOK, Rms!Deployments
<1>3. Rms!VerdictsTrue' /\ Rms!OverwritesOwed'
  BY DEF Rms!VerdictsTrue, Rms!OverwritesOwed, Rms!TypeOK, Rms!Deployments
<1>4. Ordered'
  BY <1>1 DEF Ordered, Rms!TypeOK, Rms!Deployments
<1>5. AnswersTrue'
  BY DEF AnswersTrue, Rms!TypeOK, Rms!Deployments
<1>6. Unbeaten'
  <2> SUFFICES ASSUME NEW k \in landed \ beaten, NEW j \in Rms!Deployments, j < k
               PROVE  flying'[j] = {} /\ call'[j] # "off" /\ call'[j] \notin Rms!Unsettled
    BY DEF Unbeaten, SettledBefore, Rms!Deployments
  <2>1. flying[j] = {} /\ call[j] # "off" /\ call[j] \notin Rms!Unsettled
    BY DEF Unbeaten, SettledBefore
  <2>2. j # i
    BY <2>1
  <2> QED BY <2>1, <2>2 DEF Rms!TypeOK
<1> QED BY <1>2, <1>3, <1>4, <1>5, <1>6 DEF RmsIInv, Rms!RegistrationSound

\* A call goes on without a POST, and returns as the answer says.
LEMMA RmsSettles ==
  ASSUME Rms!RegistrationAssumption, RmsIInv, NEW i \in Rms!Deployments,
         NEW c \in {"waiting", "nil", "refused", "exhausted", "cancelled"},
         call[i] \in Rms!Unsettled, call' = [call EXCEPT ![i] = c],
         answer' = answer \/ answer' = [answer EXCEPT ![i] = Nothing],
         c = "nil" => i \in landed,
         c = "refused" => ~healthy[i],
         c = "exhausted" => tries[i] = attempts,
         UNCHANGED <<tries, flying, declared, healthy, landed, beaten>>
  PROVE  RmsIInv'
<1> USE RmsFacts DEF Rms!Unsettled, Rms!Returned
<1>1. Rms!TypeOK'
  BY DEF Rms!TypeOK, Rms!Deployments
<1>2. Rms!VerdictsTrue' /\ Rms!OverwritesOwed'
  BY DEF Rms!VerdictsTrue, Rms!OverwritesOwed, Rms!TypeOK, Rms!Deployments, AnswersTrue
<1>3. Ordered'
  BY DEF Ordered, Rms!TypeOK, Rms!Deployments
<1>4. AnswersTrue'
  BY DEF AnswersTrue, Rms!TypeOK, Rms!Deployments
<1>5. Unbeaten'
  <2> SUFFICES ASSUME NEW k \in landed \ beaten, NEW j \in Rms!Deployments, j < k
               PROVE  flying'[j] = {} /\ call'[j] # "off" /\ call'[j] \notin Rms!Unsettled
    BY DEF Unbeaten, SettledBefore, Rms!Deployments
  <2>1. flying[j] = {} /\ call[j] # "off" /\ call[j] \notin Rms!Unsettled
    BY DEF Unbeaten, SettledBefore
  <2> QED BY <2>1 DEF Rms!TypeOK
<1> QED BY <1>1, <1>2, <1>3, <1>4, <1>5 DEF RmsIInv, Rms!RegistrationSound

\* A request arrives or is lost.
LEMMA RmsTakes ==
  ASSUME Rms!RegistrationAssumption, RmsIInv, NEW i \in Rms!Deployments, NEW n \in flying[i],
         Rms!Lose(i, n) \/ \E s \in Rms!Statuses : Rms!Handle(i, n, s)
  PROVE  RmsIInv'
<1> USE RmsFacts DEF Rms!Unsettled, Rms!Returned
<1>1. flying' = [flying EXCEPT ![i] = @ \ {n}] /\ UNCHANGED <<call, tries, healthy>>
  BY DEF Rms!Lose, Rms!Handle
<1>2. \/ answer' = answer
      \/ \E s \in Rms!Statuses :
           /\ answer' = [answer EXCEPT ![i] = s]
           /\ s = "stored" => i \in landed'
           /\ s = "refused" => ~healthy[i]
  <2>1. ASSUME NEW s \in Rms!Statuses, Rms!Handle(i, n, s), s = "stored" PROVE i \in landed'
    BY <2>1 DEF Rms!Handle, Rms!TypeOK
  <2>2. ASSUME NEW s \in Rms!Statuses, Rms!Handle(i, n, s), s = "refused" PROVE ~healthy[i]
    BY <2>2 DEF Rms!Handle, Rms!TypeOK
  <2>3. ASSUME NEW s \in Rms!Statuses, Rms!Handle(i, n, s)
        PROVE  answer' = answer \/ answer' = [answer EXCEPT ![i] = s]
    BY <2>3 DEF Rms!Handle, Rms!TypeOK
  <2> QED BY <2>1, <2>2, <2>3 DEF Rms!Lose
<1>3. \/ UNCHANGED <<declared, landed, beaten>>
      \/ /\ healthy[i] /\ declared' = i /\ landed' = landed \cup {i}
         /\ \/ beaten' = beaten \cup {i}
            \/ beaten' = beaten /\ \A j \in Rms!Deployments :
                                     j < i => call[j] \notin Rms!Unsettled /\ flying[j] = {}
  BY DEF Rms!Lose, Rms!Handle, Rms!TypeOK
<1>4. call[i] # "off"
  BY DEF Ordered
<1>5. Rms!TypeOK'
  BY <1>1, <1>2, <1>3 DEF Rms!TypeOK
<1>6. Rms!VerdictsTrue'
  BY <1>1, <1>3 DEF Rms!VerdictsTrue, Rms!TypeOK
<1>7. Rms!OverwritesOwed'
  <2> SUFFICES ASSUME NEW k \in landed', declared' # Nothing, declared' < k PROVE k \in beaten'
    BY DEF Rms!OverwritesOwed
  <2>1. CASE UNCHANGED <<declared, landed, beaten>>
    BY <2>1 DEF Rms!OverwritesOwed
  <2>2. CASE declared' = i /\ landed' = landed \cup {i} /\ beaten \subseteq beaten'
    <3>1. k \in landed /\ i < k
      BY <2>2
    <3>2. k \in beaten
      BY <3>1 DEF Unbeaten, SettledBefore
    <3> QED BY <2>2, <3>2
  <2> QED BY <1>3, <2>1, <2>2
<1>8. Ordered'
  BY <1>1 DEF Ordered, Rms!TypeOK
<1>9. AnswersTrue'
  BY <1>1, <1>2, <1>3, <1>4 DEF AnswersTrue, Rms!TypeOK, Rms!Statuses
<1>10. Unbeaten'
  <2> SUFFICES ASSUME NEW k \in landed' \ beaten', NEW j \in Rms!Deployments, j < k
               PROVE  flying'[j] = {} /\ call'[j] # "off" /\ call'[j] \notin Rms!Unsettled
    BY <1>1 DEF Unbeaten, SettledBefore
  <2>1. flying[j] = {} /\ call[j] # "off" /\ call[j] \notin Rms!Unsettled
    <3>1. CASE k \in landed \ beaten
      BY <3>1 DEF Unbeaten, SettledBefore
    <3>2. CASE k \notin landed \ beaten
      <4>1. k = i /\ call[j] \notin Rms!Unsettled /\ flying[j] = {}
        BY <1>3, <3>2
      <4> QED BY <1>4, <4>1 DEF Ordered
    <3> QED BY <3>1, <3>2
  <2> QED BY <1>1, <2>1 DEF Rms!TypeOK
<1> QED BY <1>5, <1>6, <1>7, <1>8, <1>9, <1>10 DEF RmsIInv, Rms!RegistrationSound

LEMMA RmsNextInv ==
  ASSUME Rms!RegistrationAssumption, RmsIInv, Rms!RegistrationNext
  PROVE  RmsIInv'
<1> USE RmsFacts
<1>1. ASSUME NEW i \in Rms!Deployments, Rms!Start(i) PROVE RmsIInv'
  <2>1. tries[i] < attempts
    BY <1>1 DEF Ordered, Rms!Start, Rms!RegistrationAssumption
  <2> QED BY <1>1, <2>1, RmsPosts DEF Rms!Start
<1>2. ASSUME NEW i \in Rms!Deployments, Rms!Hear(i) PROVE RmsIInv'
  <2>1. answer[i] \in Rms!Statuses /\ answer[i] # Nothing
    BY <1>2 DEF Rms!Hear, Rms!TypeOK
  <2>2. Rms!Verdict(answer[i]) \in {"nil", "refused", "waiting"}
        /\ (Rms!Verdict(answer[i]) = "nil" => i \in landed)
        /\ (Rms!Verdict(answer[i]) = "refused" => ~healthy[i])
    BY <2>1 DEF Rms!Statuses, Rms!Verdict, AnswersTrue
  <2> QED BY <1>2, <2>2, RmsSettles DEF Rms!Hear, Rms!Unsettled
<1>3. ASSUME NEW i \in Rms!Deployments, Rms!GiveUp(i) PROVE RmsIInv'
  BY <1>3, RmsSettles DEF Rms!GiveUp, Rms!Unsettled
<1>4. ASSUME NEW i \in Rms!Deployments, Rms!Resume(i) PROVE RmsIInv'
  <2>1. CASE tries[i] < attempts
    BY <1>4, <2>1, RmsPosts DEF Rms!Resume, Ordered
  <2>2. CASE ~(tries[i] < attempts)
    <3>1. tries[i] = attempts
      BY <2>2 DEF Rms!TypeOK
    <3> QED BY <1>4, <2>2, <3>1, RmsSettles DEF Rms!Resume, Rms!Unsettled
  <2> QED BY <2>1, <2>2
<1>5. ASSUME NEW i \in Rms!Deployments, Rms!Stop(i) PROVE RmsIInv'
  BY <1>5, RmsSettles DEF Rms!Stop
<1> QED BY <1>1, <1>2, <1>3, <1>4, <1>5, RmsTakes DEF Rms!RegistrationNext, Rms!Proceed

LEMMA RmsRests ==
  ASSUME RmsIInv, UNCHANGED rmsVars
  PROVE  RmsIInv'
BY DEF rmsVars, RmsIInv, Rms!RegistrationSound, Rms!TypeOK, Rms!VerdictsTrue, Rms!OverwritesOwed,
       Ordered, AnswersTrue, Unbeaten, SettledBefore
-----------------------------------------------------------------------------
(* Fuel cards of Relay (FuelCards).                                        *)

CallNames ==
  {"none", "driver", "code", "fueling", "update", "delete", "assign", "enable", "disable"}
Outcomes == {"nil", "AuthError", "error"}
Stages == {"idle", "asked", "answered", "refused", "rejected"}
Things == [state : {"created", "locked", "gone"}, by : 0..MaxAttempts, enabled : BOOLEAN, used : 0..1]
CardRequests ==
  [stage : Stages, call : CallNames, key : 0..MaxKeys, began : 0..MaxEntered, from : Cards!Times,
   to : Cards!Times, page : SUBSET Cards!Times]
LateCalls == [key : 1..MaxKeys, call : CallNames, attempt : 1..MaxAttempts]

(***************************************************************************)
(* The inductive invariant.                                                *)
(***************************************************************************)
\* What began since the key was entered was asked with it; what Relay refuses is an
\* earlier key.
KeysTrue ==
  /\ request.stage # "idle" /\ request.began = entered => setting \in {request.key, 0}
  /\ request.stage = "refused" /\ covered => request.key < latest
  /\ covered /\ entered \in reports => setting # latest
  /\ latest = 1 /\ covered => setting = 1 /\ reports = {}

\* What was done was asked; of an attempt that is late nothing was.
CardsOpen == IF request.stage = "answered" THEN Cards!Attempt ELSE Len(ended)
DoneTrue ==
  /\ done \subseteq 1..CardsOpen
  /\ using # "list" /\ request.stage = "answered" => Cards!Attempt \in done
  /\ \A i \in DOMAIN ended : (ended[i] = "nil" => i \in done) /\ (ended[i] = "AuthError" => i \notin done)
  /\ \A r \in late : ended[r.attempt] = "error" /\ r.attempt \notin done
  /\ \A r, s \in late : r.attempt = s.attempt => r = s
  /\ using = "create" =>
       \A i \in DOMAIN ended : ended[i] = "nil" => i = Len(ended) /\ request.stage = "idle"

\* What attempt i left stands, or an attempt of unknown outcome came after it; a thing
\* that was deleted is gone until it is assigned.
Assigned(i) ==
  \E a \in Cards!Assignments : a > i \/ (a \in DOMAIN ended /\ ended[a] = "error")
CardStands(i, name) ==
  /\ \/ thing.by >= i
     \/ /\ thing.by \in DOMAIN ended /\ ended[thing.by] = "error"
        /\ name = "delete" => Assigned(i)
  /\ name = "delete" => thing.state = "gone" \/ Assigned(i)
CardsStanding ==
  /\ \A i \in DOMAIN ended : ended[i] = "nil" => CardStands(i, asks[i])
  /\ using # "list" /\ request.stage = "answered" => CardStands(Cards!Attempt, request.call)

UseCounted ==
  /\ fueled <= Cardinality(Cards!Assignments) + thing.used
  /\ using # "policy" => fueled = 0 /\ thing.used = 0

\* The window asked for begins where the last one ended.
Polled ==
  /\ using = "list" /\ request.stage # "idle" =>
       request.from = Cards!Second(watermark) /\ watermark <= request.to
  /\ request.stage = "answered" =>
       /\ \A t \in fuelings :
            request.from <= t /\ t < Cards!Second(request.to) => t \in request.page
       /\ \A t \in request.page : request.from <= t /\ t <= Cards!Second(request.to)
  /\ \A t \in listed : t \in Nat /\ t <= Cards!Second(watermark)
  /\ Cards!FuelingSound

\* The types, by what keeps them.
KeysTyped ==
  /\ latest \in 1..MaxKeys /\ setting \in 0..MaxKeys /\ setting <= latest
  /\ covered \in BOOLEAN /\ entered \in 0..MaxEntered /\ reports \subseteq 0..entered
TimesTyped ==
  /\ now \in 0..MaxNow /\ fuelings \subseteq 0..now /\ watermark \in 0..now
  /\ hooks \subseteq [key : 1..latest, body : fuelings]
RequestTyped ==
  /\ using \in DOMAIN Cards!Calls
  /\ request \in CardRequests /\ request.key <= latest /\ request.began <= entered
  /\ request.from <= now /\ request.to <= now /\ request.page \subseteq fuelings
  /\ request.stage # "idle" =>
       /\ request.call \in DOMAIN Cards!Calls[using] /\ request.key \in 1..latest
       /\ using # "list" => Len(ended) < MaxAttempts
OutcomesTyped ==
  /\ ended \in Seq(Outcomes) /\ asks \in Seq(CallNames)
  /\ Len(ended) <= MaxAttempts /\ Len(asks) = Len(ended)
  /\ \A i \in 1..Len(ended) : asks[i] \in DOMAIN Cards!Calls[using]
ThingsTyped == done \subseteq 1..MaxAttempts /\ thing \in Things /\ fueled \in Nat
LateTyped ==
  \A r \in late : r \in LateCalls /\ r.key <= latest /\ r.attempt <= Len(ended) /\ r.call = asks[r.attempt]
ListTyped ==
  /\ using = "list" => ended = <<>> /\ done = {} /\ late = {} /\ thing.used = 0
  /\ using # "list" => fuelings = {} /\ now = 0

CardsTyped ==
  /\ KeysTyped /\ TimesTyped /\ RequestTyped /\ OutcomesTyped /\ ThingsTyped /\ LateTyped /\ ListTyped
CardsIInv == CardsTyped /\ KeysTrue /\ DoneTrue /\ CardsStanding /\ UseCounted /\ Polled

-----------------------------------------------------------------------------
\* What the calls are.
LEMMA CardCalls ==
  ASSUME NEW u \in DOMAIN Cards!Calls, NEW c \in DOMAIN Cards!Calls[u]
  PROVE  /\ u \in {"create", "list", "driver", "code", "policy"} /\ c \in CallNames
         /\ Cards!Calls[u][c].method \in {"GET", "POST", "PUT", "DELETE"}
         /\ Cards!Calls[u][c].enabled \in BOOLEAN
         /\ Cards!Calls[u][c].method = "GET" <=> u = "list"
         /\ Cards!Calls[u][c].method = "DELETE" <=> c = "delete"
         /\ u = "create" => Cards!Calls[u][c].method = "POST"
         /\ u # "create" => (Cards!Calls[u][c].method = "POST" <=> c = "assign")
         /\ c = "assign" => u = "policy"
<1>1. u \in {"create", "list", "driver", "code", "policy"}
  BY DEF Cards!Calls
<1>2. CASE u = "create"
  <2>1. Cards!Calls["create"] = [driver |-> Cards!CreateDriver, code |-> Cards!CreateOneTimeCode]
    BY DEF Cards!Calls
  <2>2. c \in {"driver", "code"}
    BY <1>2, <2>1
  <2>3. CASE c = "driver"
    <3>1. Cards!Calls[u][c].method = "POST" /\ Cards!Calls[u][c].enabled = TRUE
      BY <1>2, <2>1, <2>3 DEF Cards!CreateDriver, Cards!Post
    <3> QED BY <1>2, <2>3, <3>1 DEF CallNames
  <2>4. CASE c = "code"
    <3>1. Cards!Calls[u][c].method = "POST" /\ Cards!Calls[u][c].enabled = TRUE
      BY <1>2, <2>1, <2>4 DEF Cards!CreateOneTimeCode, Cards!Post
    <3> QED BY <1>2, <2>4, <3>1 DEF CallNames
  <2> QED BY <2>2, <2>3, <2>4
<1>3. CASE u = "list"
  <2>1. Cards!Calls["list"] = [fueling |-> Cards!Get]
    BY DEF Cards!Calls
  <2>2. c \in {"fueling"}
    BY <1>3, <2>1
  <2>3. CASE c = "fueling"
    <3>1. Cards!Calls[u][c].method = "GET" /\ Cards!Calls[u][c].enabled = TRUE
      BY <1>3, <2>1, <2>3 DEF Cards!Get
    <3> QED BY <1>3, <2>3, <3>1 DEF CallNames
  <2> QED BY <2>2, <2>3
<1>4. CASE u = "driver"
  <2>1. Cards!Calls["driver"] = [update |-> Cards!UpdateDriver, delete |-> Cards!DeleteDriver]
    BY DEF Cards!Calls
  <2>2. c \in {"update", "delete"}
    BY <1>4, <2>1
  <2>3. CASE c = "update"
    <3>1. Cards!Calls[u][c].method = "PUT" /\ Cards!Calls[u][c].enabled = TRUE
      BY <1>4, <2>1, <2>3 DEF Cards!Put, Cards!UpdateDriver
    <3> QED BY <1>4, <2>3, <3>1 DEF CallNames
  <2>4. CASE c = "delete"
    <3>1. Cards!Calls[u][c].method = "DELETE" /\ Cards!Calls[u][c].enabled = TRUE
      BY <1>4, <2>1, <2>4 DEF Cards!Delete, Cards!DeleteDriver
    <3> QED BY <1>4, <2>4, <3>1 DEF CallNames
  <2> QED BY <2>2, <2>3, <2>4
<1>5. CASE u = "code"
  <2>1. Cards!Calls["code"] = [update |-> Cards!UpdateOneTimeCode, delete |-> Cards!DeleteOneTimeCode]
    BY DEF Cards!Calls
  <2>2. c \in {"update", "delete"}
    BY <1>5, <2>1
  <2>3. CASE c = "update"
    <3>1. Cards!Calls[u][c].method = "PUT" /\ Cards!Calls[u][c].enabled = TRUE
      BY <1>5, <2>1, <2>3 DEF Cards!Put, Cards!UpdateOneTimeCode
    <3> QED BY <1>5, <2>3, <3>1 DEF CallNames
  <2>4. CASE c = "delete"
    <3>1. Cards!Calls[u][c].method = "DELETE" /\ Cards!Calls[u][c].enabled = TRUE
      BY <1>5, <2>1, <2>4 DEF Cards!Delete, Cards!DeleteOneTimeCode
    <3> QED BY <1>5, <2>4, <3>1 DEF CallNames
  <2> QED BY <2>2, <2>3, <2>4
<1>6. CASE u = "policy"
  <2>1. Cards!Calls["policy"] = [assign |-> Cards!AssignPolicy,
                                 delete |-> Cards!DeletePolicyAssignment,
                                 enable |-> Cards!UpdatePolicyAssignment(TRUE),
                                 disable |-> Cards!UpdatePolicyAssignment(FALSE)]
    BY DEF Cards!Calls
  <2>2. c \in {"assign", "delete", "enable", "disable"}
    BY <1>6, <2>1
  <2>3. CASE c = "assign"
    <3>1. Cards!Calls[u][c].method = "POST" /\ Cards!Calls[u][c].enabled = TRUE
      BY <1>6, <2>1, <2>3 DEF Cards!AssignPolicy, Cards!Post
    <3> QED BY <1>6, <2>3, <3>1 DEF CallNames
  <2>4. CASE c = "delete"
    <3>1. Cards!Calls[u][c].method = "DELETE" /\ Cards!Calls[u][c].enabled = TRUE
      BY <1>6, <2>1, <2>4 DEF Cards!Delete, Cards!DeletePolicyAssignment
    <3> QED BY <1>6, <2>4, <3>1 DEF CallNames
  <2>5. CASE c = "enable"
    <3>1. Cards!Calls[u][c].method = "PUT" /\ Cards!Calls[u][c].enabled = TRUE
      BY <1>6, <2>1, <2>5 DEF Cards!Put, Cards!UpdatePolicyAssignment
    <3> QED BY <1>6, <2>5, <3>1 DEF CallNames
  <2>6. CASE c = "disable"
    <3>1. Cards!Calls[u][c].method = "PUT" /\ Cards!Calls[u][c].enabled = FALSE
      BY <1>6, <2>1, <2>6 DEF Cards!Put, Cards!UpdatePolicyAssignment
    <3> QED BY <1>6, <2>6, <3>1 DEF CallNames
  <2> QED BY <2>2, <2>3, <2>4, <2>5, <2>6
<1> QED BY <1>1, <1>2, <1>3, <1>4, <1>5, <1>6

LEMMA CardNumbers ==
  ASSUME Cards!FuelAssumption
  PROVE  MaxKeys \in Nat \ {0} /\ MaxEntered \in Nat /\ MaxAttempts \in Nat /\ MaxNow \in Nat
         /\ Cards!Times = 0..MaxNow /\ Cards!NoKey = 0 /\ Cards!Allowance = 1
BY DEF Cards!FuelAssumption, Cards!Times, Cards!NoKey, Cards!Allowance

\* Seconds.
LEMMA Seconds ==
  /\ \A t \in Nat : Cards!Second(t) \in Nat /\ Cards!Second(t) <= t
                    /\ Cards!Second(Cards!Second(t)) = Cards!Second(t)
  /\ \A s, t \in Nat : s <= t => Cards!Second(s) <= Cards!Second(t)
BY DEF Cards!Second

LEMMA CardsInitInv == Cards!FuelAssumption /\ Cards!FuelInit => CardsIInv
<1> SUFFICES ASSUME Cards!FuelAssumption, Cards!FuelInit PROVE CardsIInv
  OBVIOUS
<1> USE CardNumbers DEF Cards!FuelInit, Cards!Idle
<1>1. KeysTyped /\ TimesTyped /\ OutcomesTyped /\ ThingsTyped /\ LateTyped /\ ListTyped
  BY DEF KeysTyped, TimesTyped, OutcomesTyped, ThingsTyped, LateTyped, ListTyped, Things
<1>2. RequestTyped
  BY DEF RequestTyped, CardRequests, Stages, CallNames
<1>3. KeysTrue
  BY DEF KeysTrue
<1>4. DoneTrue
  BY DEF DoneTrue, CardsOpen
<1>5. CardsStanding
  BY DEF CardsStanding
<1>6. UseCounted
  <2>1. Cards!Assignments = {}
    BY DEF Cards!Assignments
  <2> QED BY <2>1, FS_EmptySet DEF UseCounted
<1>7. Polled
  BY Seconds DEF Polled, Cards!FuelingSound, Cards!Reconciled, Cards!EdgesRepeat, Cards!OnlyFueling
<1> QED BY <1>1, <1>2, <1>3, <1>4, <1>5, <1>6, <1>7 DEF CardsIInv, CardsTyped

-----------------------------------------------------------------------------
\* What the typed state says of its parts.
LEMMA CardFacts ==
  ASSUME Cards!FuelAssumption, CardsTyped
  PROVE  /\ using \in DOMAIN Cards!Calls /\ Len(ended) \in Nat /\ Len(asks) = Len(ended)
         /\ DOMAIN ended = 1..Len(ended) /\ DOMAIN asks = 1..Len(ended)
         /\ Cards!Attempt = Len(ended) + 1
         /\ ended \in Seq(Outcomes) /\ asks \in Seq(CallNames)
         /\ thing \in Things /\ request \in CardRequests
         /\ latest \in 1..MaxKeys /\ entered \in 0..MaxEntered
         /\ \A r \in late : r \in LateCalls /\ r.attempt \in 1..Len(ended) /\ r.call = asks[r.attempt]
                            /\ r.call \in DOMAIN Cards!Calls[using]
<1> USE CardNumbers DEF CardsTyped
<1>1. /\ Len(ended) \in Nat /\ Len(asks) = Len(ended) /\ DOMAIN ended = 1..Len(ended)
      /\ DOMAIN asks = 1..Len(asks) /\ ended \in Seq(Outcomes) /\ asks \in Seq(CallNames)
  BY DEF OutcomesTyped
<1>2. \A r \in late : r \in LateCalls /\ r.attempt \in 1..Len(ended) /\ r.call = asks[r.attempt]
                      /\ r.call \in DOMAIN Cards!Calls[using]
  BY <1>1 DEF LateTyped, LateCalls, OutcomesTyped
<1> QED BY <1>1, <1>2 DEF RequestTyped, ThingsTyped, KeysTyped, Cards!Attempt

\* The types are the model's.
LEMMA CardTypes ==
  ASSUME Cards!FuelAssumption, CardsTyped
  PROVE  Cards!FuelTypeOK
<1>1. request.key \in 0..latest /\ request.stage \in Stages /\ request.from \in 0..now /\ request.to \in 0..now
      /\ request.page \subseteq fuelings
  BY CardNumbers DEF CardsTyped, RequestTyped, CardRequests, TimesTyped, KeysTyped, Cards!Times
<1>2. \A r \in late : r.key <= latest /\ r.attempt \in DOMAIN ended /\ r.call = asks[r.attempt]
  BY CardFacts DEF CardsTyped, LateTyped
<1>3. ended \in Seq({"nil", "AuthError", "error"}) /\ Len(ended) <= MaxAttempts /\ Len(asks) = Len(ended)
  BY DEF CardsTyped, OutcomesTyped, Outcomes
<1>4. /\ setting \in 0..MaxKeys /\ latest \in 1..MaxKeys /\ reports \subseteq 0..entered
      /\ entered \in 0..MaxEntered
  BY DEF CardsTyped, KeysTyped
<1>5. /\ now \in 0..MaxNow /\ fuelings \subseteq 0..now /\ watermark \in 0..now
      /\ hooks \subseteq [key : 1..latest, body : fuelings]
  BY DEF CardsTyped, TimesTyped
<1>6. done \subseteq 1..MaxAttempts /\ fueled \in Nat
      /\ thing \in [state : {"created", "locked", "gone"}, by : 0..MaxAttempts, enabled : BOOLEAN, used : 0..1]
  BY DEF CardsTyped, ThingsTyped, Things
<1>7. Cards!Times = 0..MaxNow /\ Cards!NoKey = 0 /\ Cards!Allowance = 1
  BY CardNumbers
<1> QED BY <1>1, <1>2, <1>3, <1>4, <1>5, <1>6, <1>7 DEF Cards!FuelTypeOK, Stages

\* What Relay does.
LEMMA CardDid ==
  ASSUME using \in DOMAIN Cards!Calls, thing \in Things, NEW c \in DOMAIN Cards!Calls[using],
         NEW n, Cards!Takes(c), Cards!Do(c, n)
  PROVE  /\ using = "list" => done' = done /\ thing' = thing
         /\ using # "list" =>
              /\ done' = done \cup {n} /\ thing'.by = n
              /\ n \in 0..MaxAttempts => thing' \in Things
              /\ thing'.used = IF using = "create" \/ c = "assign" THEN 0 ELSE thing.used
              /\ c = "delete" => thing'.state = "gone"
              /\ using = "create" \/ c = "assign" \/ thing.state = "created"
<1> DEFINE did == Cards!Calls[using][c]
<1>1. /\ did.method \in {"GET", "POST", "PUT", "DELETE"} /\ did.enabled \in BOOLEAN
      /\ did.method = "GET" <=> using = "list"
      /\ did.method = "DELETE" <=> c = "delete"
      /\ using = "create" => did.method = "POST"
      /\ using # "create" => (did.method = "POST" <=> c = "assign")
  BY CardCalls
<1>2. did.method \in {"GET", "POST"} \/ thing.state = "created"
  BY DEF Cards!Takes
<1>3. /\ done' = done \cup IF did.method = "GET" THEN {} ELSE {n}
      /\ thing' = CASE did.method = "GET" -> thing
           [] did.method = "POST" -> [state |-> "created", by |-> n, enabled |-> TRUE, used |-> 0]
           [] did.method = "PUT" -> [thing EXCEPT !.by = n, !.enabled = did.enabled]
           [] did.method = "DELETE" -> [thing EXCEPT !.by = n, !.state = "gone"]
  BY DEF Cards!Do
<1> HIDE DEF did
<1>4. CASE did.method = "GET"
  BY <1>1, <1>3, <1>4
<1>5. CASE did.method = "POST"
  BY <1>1, <1>3, <1>5 DEF Things
<1>6. CASE did.method = "PUT"
  BY <1>1, <1>2, <1>3, <1>6 DEF Things
<1>7. CASE did.method = "DELETE"
  BY <1>1, <1>2, <1>3, <1>7 DEF Things
<1> QED BY <1>1, <1>4, <1>5, <1>6, <1>7

\* What a call returns is kept.
LEMMA CardsReturned ==
  ASSUME Cards!FuelAssumption, CardsTyped, NEW outcome \in Outcomes, request.stage # "idle",
         Cards!Return(outcome)
  PROVE  /\ UNCHANGED <<using, setting, latest, covered, now, fuelings, hooks, done, thing, fueled, entered>>
         /\ request' = Cards!Idle
         /\ using = "list" => ended' = ended /\ asks' = asks
         /\ using # "list" =>
              /\ ended' \in Seq(Outcomes) /\ asks' \in Seq(CallNames)
              /\ Len(ended') = Len(ended) + 1 /\ Len(asks') = Len(ended) + 1
              /\ DOMAIN ended' = 1..(Len(ended) + 1) /\ DOMAIN asks' = 1..(Len(ended) + 1)
              /\ \A i \in 1..Len(ended) : ended'[i] = ended[i] /\ asks'[i] = asks[i]
              /\ ended'[Len(ended) + 1] = outcome /\ asks'[Len(ended) + 1] = request.call
         /\ reports' = reports \cup IF outcome = "AuthError" THEN {request.began} ELSE {}
         /\ watermark' = IF using = "list" /\ outcome = "nil" THEN request.to ELSE watermark
         /\ known' = known \cup IF outcome = "nil" THEN request.page ELSE {}
         /\ listed' = listed \cup IF outcome = "nil" THEN request.page ELSE {}
         /\ repeated' = repeated \cup (listed \cap IF outcome = "nil" THEN request.page ELSE {})
<1>1. using # "list" => ended' = Append(ended, outcome) /\ asks' = Append(asks, request.call)
  BY DEF Cards!Return
<1>2. request.call \in CallNames
  BY CardFacts DEF CardRequests
<1>3. ended \in Seq(Outcomes) /\ asks \in Seq(CallNames) /\ Len(asks) = Len(ended)
  BY CardFacts
<1>4. CASE using # "list"
  <2>1. ended' = Append(ended, outcome) /\ asks' = Append(asks, request.call)
    BY <1>1, <1>4
  <2>2. /\ ended' \in Seq(Outcomes) /\ Len(ended') = Len(ended) + 1
        /\ DOMAIN ended' = 1..(Len(ended) + 1)
        /\ \A i \in 1..Len(ended) : ended'[i] = ended[i]
        /\ ended'[Len(ended) + 1] = outcome
    BY <1>3, <2>1, Appended
  <2>3. /\ asks' \in Seq(CallNames) /\ Len(asks') = Len(ended) + 1
        /\ DOMAIN asks' = 1..(Len(ended) + 1)
        /\ \A i \in 1..Len(ended) : asks'[i] = asks[i]
        /\ asks'[Len(ended) + 1] = request.call
    BY <1>2, <1>3, <2>1, Appended
  <2> QED BY <1>4, <2>2, <2>3 DEF Cards!Return, Cards!relay, Cards!things
<1>5. CASE using = "list"
  BY <1>5 DEF Cards!Return, Cards!relay, Cards!things
<1> QED BY <1>4, <1>5

-----------------------------------------------------------------------------
\* What each step leaves alone.
KeysSame == UNCHANGED <<setting, latest, covered, entered, reports>>
TimesSame == UNCHANGED <<now, fuelings, hooks>>
OutcomesSame == UNCHANGED <<ended, asks>>
ThingsSame == UNCHANGED <<done, thing, fueled>>
PollSame == UNCHANGED <<watermark, known, listed, repeated>>

LEMMA CardsFrames ==
  /\ Cards!FuelNext => using' = using
  /\ Cards!Ask => KeysSame /\ TimesSame /\ OutcomesSame /\ ThingsSame /\ PollSame /\ late' = late
  /\ Cards!Handle => KeysSame /\ TimesSame /\ OutcomesSame /\ PollSame /\ late' = late /\ fueled' = fueled
  /\ Cards!HandleLate =>
       KeysSame /\ TimesSame /\ OutcomesSame /\ PollSame /\ request' = request /\ fueled' = fueled
  /\ Cards!Receipt =>
       /\ KeysSame /\ TimesSame /\ OutcomesSame /\ ThingsSame /\ request' = request /\ late' = late
       /\ UNCHANGED <<watermark, listed, repeated>>
  /\ Cards!Pump \/ Cards!Redeem =>
       KeysSame /\ TimesSame /\ OutcomesSame /\ PollSame /\ request' = request /\ late' = late /\ done' = done
  /\ Cards!Fuel \/ Cards!Tick =>
       KeysSame /\ OutcomesSame /\ ThingsSame /\ PollSame /\ request' = request /\ late' = late
  /\ Cards!Rotate \/ Cards!Enter \/ Cards!Deactivate =>
       /\ TimesSame /\ OutcomesSame /\ ThingsSame /\ PollSame /\ request' = request /\ late' = late
       /\ covered' = covered
<1> USE DEF KeysSame, TimesSame, OutcomesSame, ThingsSame, PollSame, Cards!relay, Cards!things,
      Cards!outcomes, Cards!poll, Cards!client
<1>1. Cards!FuelNext => using' = using
  BY DEF Cards!FuelNext, Cards!Ask, Cards!Handle, Cards!Receive, Cards!Fail, Cards!Return, Cards!HandleLate,
    Cards!Receipt, Cards!Pump, Cards!Redeem, Cards!Fuel, Cards!Tick, Cards!Rotate, Cards!Enter,
    Cards!Deactivate
<1> QED BY <1>1 DEF Cards!Ask, Cards!Handle, Cards!HandleLate, Cards!Receipt, Cards!Pump, Cards!Redeem,
  Cards!Fuel, Cards!Tick, Cards!Rotate, Cards!Enter, Cards!Deactivate

\* A call that ends; who it was sent for may have it yet.
CardsReturn(outcome) ==
  /\ request.stage # "idle" /\ Cards!Return(outcome)
  /\ outcome = "nil" => request.stage = "answered"
  /\ outcome = "AuthError" => request.stage = "refused"
  /\ late' = late \cup IF using # "list" /\ request.stage = "asked"
       THEN {[key |-> request.key, call |-> request.call, attempt |-> Cards!Attempt]} ELSE {}

LEMMA CardsCases ==
  ASSUME Cards!FuelNext
  PROVE  \/ Cards!Ask \/ Cards!Handle \/ (\E outcome \in Outcomes : CardsReturn(outcome))
         \/ Cards!HandleLate \/ Cards!Receipt \/ Cards!Pump \/ Cards!Redeem \/ Cards!Fuel \/ Cards!Tick
         \/ Cards!Rotate \/ Cards!Enter \/ Cards!Deactivate
<1>1. CASE Cards!Receive
  BY <1>1 DEF Cards!Receive, CardsReturn, Outcomes
<1>2. CASE Cards!Fail
  BY <1>2 DEF Cards!Fail, CardsReturn, Outcomes
<1> QED BY <1>1, <1>2 DEF Cards!FuelNext

-----------------------------------------------------------------------------
\* Every step keeps the types.
LEMMA KeysTypedStep ==
  ASSUME Cards!FuelAssumption, CardsTyped, Cards!FuelNext
  PROVE  KeysTyped'
<1>1. KeysTyped /\ MaxKeys \in Nat /\ MaxEntered \in Nat
  BY CardNumbers DEF CardsTyped
<1>2. CASE KeysSame
  BY <1>1, <1>2 DEF KeysSame, KeysTyped
<1>3. ASSUME NEW outcome \in Outcomes, CardsReturn(outcome) PROVE KeysTyped'
  <2>1. UNCHANGED <<setting, latest, covered, entered>>
        /\ reports' = reports \cup IF outcome = "AuthError" THEN {request.began} ELSE {}
    BY <1>3, CardsReturned DEF CardsReturn
  <2>2. request.began \in 0..entered
    BY CardNumbers, <1>1 DEF CardsTyped, RequestTyped, CardRequests, KeysTyped
  <2> QED BY <1>1, <2>1, <2>2 DEF KeysTyped
<1>4. CASE Cards!Rotate
  BY <1>1, <1>4 DEF Cards!Rotate, KeysTyped, Cards!things, Cards!client
<1>5. CASE Cards!Enter
  BY <1>1, <1>5 DEF Cards!Enter, KeysTyped, Cards!things, Cards!client, Cards!relay
<1>6. CASE Cards!Deactivate
  BY <1>1, <1>6, CardNumbers DEF Cards!Deactivate, KeysTyped, Cards!things, Cards!client, Cards!relay
<1> QED BY <1>2, <1>3, <1>4, <1>5, <1>6, CardsCases, CardsFrames

LEMMA TimesTypedStep ==
  ASSUME Cards!FuelAssumption, CardsTyped, Cards!FuelNext
  PROVE  TimesTyped'
<1>1. TimesTyped /\ MaxNow \in Nat /\ latest \in Nat
  BY CardNumbers DEF CardsTyped, KeysTyped
<1>2. CASE TimesSame /\ latest' = latest /\ watermark' = watermark
  BY <1>1, <1>2 DEF TimesSame, TimesTyped
<1>3. ASSUME NEW outcome \in Outcomes, CardsReturn(outcome) PROVE TimesTyped'
  <2>1. TimesSame /\ latest' = latest /\ watermark' \in {request.to, watermark}
    BY <1>3, CardsReturned DEF CardsReturn, TimesSame
  <2>2. request.to \in 0..now
    BY CardNumbers, <1>1 DEF CardsTyped, RequestTyped, CardRequests, TimesTyped
  <2> QED BY <1>1, <2>1, <2>2 DEF TimesTyped, TimesSame
<1>4. CASE Cards!Rotate
  <2>1. TimesSame /\ latest' = latest + 1 /\ watermark' = watermark
    BY <1>4, CardsFrames DEF Cards!Rotate, PollSame
  <2>2. [key : 1..latest, body : fuelings] \subseteq [key : 1..(latest + 1), body : fuelings]
    BY <1>1
  <2> QED BY <1>1, <2>1, <2>2 DEF TimesTyped, TimesSame
<1>5. CASE Cards!Fuel
  <2>1. /\ now' = now /\ latest' = latest /\ watermark' = watermark /\ fuelings' = fuelings \cup {now}
        /\ hooks' = hooks \cup {[key |-> latest, body |-> now]}
    BY <1>5 DEF Cards!Fuel, Cards!client, Cards!poll
  <2>2. latest \in 1..latest
    BY DEF CardsTyped, KeysTyped
  <2> QED BY <1>1, <2>1, <2>2 DEF TimesTyped
<1>6. CASE Cards!Tick
  <2>1. /\ now < MaxNow /\ now' = now + 1 /\ latest' = latest /\ watermark' = watermark
        /\ fuelings' = fuelings /\ hooks' = hooks
    BY <1>6 DEF Cards!Tick, Cards!client, Cards!poll
  <2> QED BY <1>1, <2>1 DEF TimesTyped
<1> QED BY <1>2, <1>3, <1>4, <1>5, <1>6, CardsCases, CardsFrames
  DEF KeysSame, PollSame, Cards!Enter, Cards!Deactivate, Cards!relay

LEMMA RequestTypedStep ==
  ASSUME Cards!FuelAssumption, CardsTyped, Cards!FuelNext
  PROVE  RequestTyped'
<1>1. /\ RequestTyped /\ KeysTyped /\ TimesTyped /\ MaxNow \in Nat /\ MaxKeys \in Nat /\ MaxEntered \in Nat
      /\ Cards!Times = 0..MaxNow /\ Cards!NoKey = 0 /\ using' = using
  BY CardNumbers, CardsFrames DEF CardsTyped
<1>2. CASE /\ request' = request /\ ended' = ended /\ latest' \in Nat /\ latest <= latest'
           /\ entered' \in Nat /\ entered <= entered' /\ now' \in Nat /\ now <= now' /\ fuelings \subseteq fuelings'
  <2>1. request.key \in Nat /\ request.began \in Nat /\ request.from \in Nat /\ request.to \in Nat
        /\ latest \in Nat /\ entered \in Nat /\ now \in Nat
    BY <1>1 DEF RequestTyped, CardRequests, KeysTyped, TimesTyped
  <2>2. request.key <= latest' /\ request.began <= entered' /\ request.from <= now' /\ request.to <= now'
    BY SMTT(60), <1>1, <1>2, <2>1 DEF RequestTyped
  <2>3. request.key \in 1..latest => request.key \in 1..latest'
    BY <1>2, <2>1
  <2> QED BY <1>1, <1>2, <2>2, <2>3 DEF RequestTyped
<1>3. CASE Cards!Ask
  <2>1. KeysSame /\ TimesSame /\ OutcomesSame /\ watermark' = watermark
    BY <1>3, CardsFrames DEF PollSame
  <2>2. PICK c \in DOMAIN Cards!Calls[using] :
          request' = [stage |-> "asked", call |-> c, key |-> setting, began |-> entered,
                      from |-> Cards!Second(watermark), to |-> now, page |-> {}]
    BY <1>3 DEF Cards!Ask, Cards!APIKey
  <2>3. setting # 0 /\ (using # "list" => Len(ended) + 1 <= MaxAttempts)
    BY <1>1, <1>3 DEF Cards!Ask, Cards!APIKey, Cards!Attempt
  <2>4. Cards!Second(watermark) \in 0..now
    BY <1>1, Seconds DEF TimesTyped
  <2>5. c \in CallNames
    BY <1>1, CardCalls DEF RequestTyped
  <2>6. /\ setting \in 1..latest /\ latest \in 1..MaxKeys /\ entered \in 0..MaxEntered /\ now \in 0..MaxNow
    BY <1>1, <2>3 DEF KeysTyped, TimesTyped
  <2>7. request' \in CardRequests
    BY <1>1, <2>2, <2>4, <2>5, <2>6 DEF CardRequests, Stages
  <2>8. /\ request'.call = c /\ request'.key = setting /\ request'.began = entered /\ request'.page = {}
        /\ request'.from = Cards!Second(watermark) /\ request'.to = now
    BY <2>2
  <2>9. using # "list" => Len(ended) < MaxAttempts
    BY <2>3, CardFacts, CardNumbers
  <2> QED BY <1>1, <2>1, <2>4, <2>6, <2>7, <2>8, <2>9 DEF RequestTyped, KeysSame, TimesSame, OutcomesSame
<1>4. CASE Cards!Handle
  <2>1. KeysSame /\ TimesSame /\ OutcomesSame
    BY <1>4, CardsFrames
  <2>2. request.page \subseteq fuelings /\ fuelings \subseteq 0..MaxNow /\ request \in CardRequests
    BY <1>1 DEF RequestTyped, TimesTyped
  <2>3. Cards!Page \subseteq fuelings
    BY DEF Cards!Page
  <2>4. \/ request' = [request EXCEPT !.stage = "refused"]
        \/ request' = [request EXCEPT !.stage = "answered", !.page = Cards!Page]
        \/ request' = [request EXCEPT !.stage = "rejected"]
    BY <1>4 DEF Cards!Handle
  <2>5. /\ request' \in CardRequests /\ request'.page \subseteq fuelings
        /\ request'.call = request.call /\ request'.key = request.key /\ request'.began = request.began
        /\ request'.from = request.from /\ request'.to = request.to
    BY ZenonT(60), <1>1, <2>2, <2>3, <2>4 DEF CardRequests, Stages
  <2>6. request.stage # "idle"
    BY <1>4 DEF Cards!Handle
  <2> QED BY <1>1, <2>1, <2>5, <2>6 DEF RequestTyped, KeysSame, TimesSame, OutcomesSame
<1>5. ASSUME NEW outcome \in Outcomes, CardsReturn(outcome) PROVE RequestTyped'
  <2>1. /\ UNCHANGED <<latest, entered, now, fuelings>> /\ request' = Cards!Idle
    BY <1>5, CardsReturned DEF CardsReturn
  <2>2. Cards!Idle \in CardRequests
    BY <1>1 DEF Cards!Idle, CardRequests, Stages, CallNames
  <2> QED BY <1>1, <2>1, <2>2 DEF RequestTyped, Cards!Idle, KeysTyped, TimesTyped
<1>6. latest' \in Nat /\ entered' \in Nat /\ now' \in Nat
  BY KeysTypedStep, TimesTypedStep DEF KeysTyped, TimesTyped
<1>7. latest \in Nat /\ entered \in Nat /\ now \in Nat
  BY <1>1 DEF KeysTyped, TimesTyped
<1>8. CASE Cards!HandleLate \/ Cards!Receipt \/ Cards!Pump \/ Cards!Redeem
  BY <1>2, <1>6, <1>7, <1>8, CardsFrames DEF KeysSame, TimesSame, OutcomesSame
<1>9. CASE Cards!Fuel \/ Cards!Tick
  <2>1. now <= now' /\ fuelings \subseteq fuelings'
    BY <1>7, <1>9 DEF Cards!Fuel, Cards!Tick
  <2> QED BY <1>2, <1>6, <1>7, <1>9, <2>1, CardsFrames DEF KeysSame, OutcomesSame
<1>10. CASE Cards!Rotate \/ Cards!Enter \/ Cards!Deactivate
  <2>1. latest <= latest' /\ entered <= entered'
    BY <1>7, <1>10 DEF Cards!Rotate, Cards!Enter, Cards!Deactivate, Cards!relay
  <2> QED BY <1>2, <1>6, <1>7, <1>10, <2>1, CardsFrames DEF TimesSame, OutcomesSame
<1> QED BY <1>3, <1>4, <1>5, <1>8, <1>9, <1>10, CardsCases

\* What is done is done by the attempt under way, or by a late one.
LEMMA CardsDoing ==
  ASSUME Cards!FuelAssumption, CardsTyped
  PROVE  /\ Cards!Handle =>
              \/ UNCHANGED <<done, thing>> /\ request'.stage \in {"refused", "rejected"}
              \/ /\ Cards!Takes(request.call) /\ Cards!Do(request.call, Cards!Attempt)
                 /\ request.call \in DOMAIN Cards!Calls[using] /\ request'.stage = "answered"
         /\ Cards!HandleLate =>
              \E r \in late :
                /\ late' = late \ {r} /\ using # "list"
                /\ r.call \in DOMAIN Cards!Calls[using] /\ r.attempt \in 1..Len(ended) /\ r.call = asks[r.attempt]
                /\ \/ UNCHANGED <<done, thing>>
                   \/ Cards!Takes(r.call) /\ Cards!Do(r.call, r.attempt)
<1>1. request \in CardRequests /\ (using = "list" => late = {})
  BY DEF CardsTyped, RequestTyped, ListTyped
<1>2. request.stage # "idle" => request.call \in DOMAIN Cards!Calls[using]
  BY DEF CardsTyped, RequestTyped
<1>3. \A r \in late : r.attempt \in 1..Len(ended) /\ r.call = asks[r.attempt]
                      /\ r.call \in DOMAIN Cards!Calls[using]
  BY CardFacts
<1>4. ASSUME Cards!Handle
      PROVE  \/ UNCHANGED <<done, thing>> /\ request'.stage \in {"refused", "rejected"}
             \/ /\ Cards!Takes(request.call) /\ Cards!Do(request.call, Cards!Attempt)
                /\ request.call \in DOMAIN Cards!Calls[using] /\ request'.stage = "answered"
  <2>1. request.call \in DOMAIN Cards!Calls[using]
    BY <1>2, <1>4 DEF Cards!Handle
  <2>2. \A v : [request EXCEPT !.stage = v].stage = v
    BY <1>1 DEF CardRequests
  <2>3. [request EXCEPT !.stage = "answered", !.page = Cards!Page].stage = "answered"
    BY <1>1 DEF CardRequests
  <2> QED BY <1>4, <2>1, <2>2, <2>3 DEF Cards!Handle
<1>5. ASSUME Cards!HandleLate
      PROVE  \E r \in late :
               /\ late' = late \ {r} /\ using # "list"
               /\ r.call \in DOMAIN Cards!Calls[using] /\ r.attempt \in 1..Len(ended) /\ r.call = asks[r.attempt]
               /\ \/ UNCHANGED <<done, thing>>
                  \/ Cards!Takes(r.call) /\ Cards!Do(r.call, r.attempt)
  <2>1. PICK r \in late :
          /\ late' = late \ {r}
          /\ IF Cards!Refused(r.key) \/ ~Cards!Takes(r.call) THEN UNCHANGED <<done, thing>>
             ELSE Cards!Do(r.call, r.attempt)
    BY <1>5 DEF Cards!HandleLate
  <2>2. UNCHANGED <<done, thing>> \/ (Cards!Takes(r.call) /\ Cards!Do(r.call, r.attempt))
    BY <2>1
  <2>3. /\ late' = late \ {r} /\ using # "list"
        /\ r.call \in DOMAIN Cards!Calls[using] /\ r.attempt \in 1..Len(ended) /\ r.call = asks[r.attempt]
    BY <1>1, <1>3, <2>1
  <2> QED BY <2>2, <2>3
<1> QED BY <1>4, <1>5

LEMMA OutcomesTypedStep ==
  ASSUME Cards!FuelAssumption, CardsTyped, Cards!FuelNext
  PROVE  OutcomesTyped'
<1>1. OutcomesTyped /\ using' = using /\ MaxAttempts \in Nat /\ Len(ended) \in Nat
  BY CardNumbers, CardFacts, CardsFrames DEF CardsTyped
<1>2. CASE OutcomesSame
  BY <1>1, <1>2 DEF OutcomesSame, OutcomesTyped
<1>3. ASSUME NEW outcome \in Outcomes, CardsReturn(outcome) PROVE OutcomesTyped'
  <2>1. CASE using = "list"
    BY <1>2, <1>3, <2>1, CardsReturned DEF CardsReturn, OutcomesSame
  <2>2. CASE using # "list"
    <3>1. /\ ended' \in Seq(Outcomes) /\ asks' \in Seq(CallNames)
          /\ Len(ended') = Len(ended) + 1 /\ Len(asks') = Len(ended) + 1
          /\ \A i \in 1..Len(ended) : asks'[i] = asks[i]
          /\ asks'[Len(ended) + 1] = request.call
      BY <1>3, <2>2, CardsReturned DEF CardsReturn
    <3>2. request.call \in DOMAIN Cards!Calls[using] /\ Len(ended) < MaxAttempts
      BY <1>3, <2>2 DEF CardsReturn, CardsTyped, RequestTyped
    <3>3. \A i \in 1..(Len(ended) + 1) : asks'[i] \in DOMAIN Cards!Calls[using]
      BY <1>1, <3>1, <3>2 DEF OutcomesTyped
    <3> QED BY <1>1, <3>1, <3>2, <3>3 DEF OutcomesTyped
  <2> QED BY <2>1, <2>2
<1> QED BY <1>2, <1>3, CardsCases, CardsFrames

LEMMA ThingsTypedStep ==
  ASSUME Cards!FuelAssumption, CardsTyped, Cards!FuelNext
  PROVE  ThingsTyped'
<1>1. ThingsTyped /\ using \in DOMAIN Cards!Calls /\ Len(ended) \in Nat /\ MaxAttempts \in Nat
  BY CardNumbers, CardFacts DEF CardsTyped
<1>2. CASE ThingsSame
  BY <1>1, <1>2 DEF ThingsSame, ThingsTyped
<1>3. ASSUME NEW c \in DOMAIN Cards!Calls[using], NEW n, using # "list" => n \in 1..MaxAttempts,
             Cards!Takes(c), Cards!Do(c, n), fueled' = fueled
      PROVE ThingsTyped'
  <2>1. CASE using = "list"
    BY <1>1, <1>3, <2>1, CardDid DEF ThingsTyped
  <2>2. CASE using # "list"
    <3>1. done' = done \cup {n} /\ (n \in 0..MaxAttempts => thing' \in Things)
      BY <1>1, <1>3, <2>2, CardDid DEF ThingsTyped
    <3>2. n \in 1..MaxAttempts /\ n \in 0..MaxAttempts
      BY <1>1, <1>3, <2>2
    <3> QED BY <1>1, <1>3, <3>1, <3>2 DEF ThingsTyped
  <2> QED BY <2>1, <2>2
<1>4. CASE Cards!Handle
  <2>1. using # "list" => Cards!Attempt \in 1..MaxAttempts
    BY <1>1, <1>4 DEF Cards!Handle, Cards!Attempt, CardsTyped, RequestTyped
  <2>2. fueled' = fueled
    BY <1>4, CardsFrames
  <2> QED BY <1>2, <1>3, <1>4, <2>1, <2>2, CardsDoing DEF ThingsSame
<1>5. CASE Cards!HandleLate
  <2>1. PICK r \in late :
          /\ r.call \in DOMAIN Cards!Calls[using] /\ r.attempt \in 1..Len(ended)
          /\ UNCHANGED <<done, thing>> \/ (Cards!Takes(r.call) /\ Cards!Do(r.call, r.attempt))
    BY <1>5, CardsDoing
  <2>2. r.attempt \in 1..MaxAttempts
    BY <1>1, <2>1 DEF CardsTyped, OutcomesTyped
  <2>3. fueled' = fueled
    BY <1>5, CardsFrames
  <2> QED BY <1>2, <1>3, <2>1, <2>2, <2>3 DEF ThingsSame
<1>6. CASE Cards!Pump
  <2>1. /\ thing.used < 1 /\ thing' = [thing EXCEPT !.used = thing.used + 1] /\ fueled' = fueled + 1 /\ done' = done
    BY <1>6 DEF Cards!Pump, Cards!Allowance
  <2> QED BY <1>1, <2>1 DEF ThingsTyped, Things
<1>7. CASE Cards!Redeem
  <2>1. thing' = [thing EXCEPT !.state = "locked"] /\ fueled' = fueled /\ done' = done
    BY <1>7 DEF Cards!Redeem
  <2> QED BY <1>1, <2>1 DEF ThingsTyped, Things
<1>8. ASSUME NEW outcome \in Outcomes, CardsReturn(outcome) PROVE ThingsTyped'
  BY <1>2, <1>8, CardsReturned DEF CardsReturn, ThingsSame
<1> QED BY <1>2, <1>4, <1>5, <1>6, <1>7, <1>8, CardsCases, CardsFrames

LEMMA LateTypedStep ==
  ASSUME Cards!FuelAssumption, CardsTyped, Cards!FuelNext
  PROVE  LateTyped'
<1>1. LateTyped /\ latest \in 1..MaxKeys /\ MaxKeys \in Nat /\ Len(ended) \in Nat /\ MaxAttempts \in Nat
  BY CardNumbers, CardFacts DEF CardsTyped
<1>2. \A r \in late : r \in LateCalls /\ r.key \in Nat /\ r.attempt \in 1..Len(ended)
  BY CardFacts DEF LateCalls
<1>3. CASE late' \subseteq late /\ latest' = latest /\ OutcomesSame
  BY <1>1, <1>3 DEF LateTyped, OutcomesSame
<1>4. CASE Cards!Rotate
  <2>1. late' = late /\ latest' = latest + 1 /\ OutcomesSame
    BY <1>4, CardsFrames DEF Cards!Rotate
  <2>2. \A r \in late : r.key <= latest + 1
    BY <1>1, <1>2 DEF LateTyped
  <2> QED BY <1>1, <2>1, <2>2 DEF LateTyped, OutcomesSame
<1>5. ASSUME NEW outcome \in Outcomes, CardsReturn(outcome) PROVE LateTyped'
  <2>1. latest' = latest
    BY <1>5, CardsReturned DEF CardsReturn
  <2>2. CASE using = "list"
    <3>1. late' = late /\ OutcomesSame
      BY <1>5, <2>2, CardsReturned DEF CardsReturn, OutcomesSame
    <3> QED BY <1>3, <2>1, <3>1
  <2>3. CASE using # "list"
    <3>1. /\ Len(ended') = Len(ended) + 1 /\ \A i \in 1..Len(ended) : asks'[i] = asks[i]
          /\ asks'[Len(ended) + 1] = request.call
      BY <1>5, <2>3, CardsReturned DEF CardsReturn
    <3>2. /\ request.key \in 1..latest /\ request.call \in CallNames /\ Len(ended) < MaxAttempts
          /\ Cards!Attempt = Len(ended) + 1
      BY <1>5, <2>3, CardFacts DEF CardsReturn, CardsTyped, RequestTyped, CardRequests
    <3>3. \A r \in late' : r \in late \/ r = [key |-> request.key, call |-> request.call, attempt |-> Len(ended) + 1]
      BY <1>5, <3>2 DEF CardsReturn
    <3>4. ASSUME NEW r \in late, r \in LateCalls, r.attempt \in 1..Len(ended)
          PROVE r.attempt <= Len(ended) + 1 /\ r.call = asks'[r.attempt] /\ r.key <= latest
      BY <1>1, <3>1, <3>4 DEF LateTyped
    <3>5. ASSUME NEW r, r = [key |-> request.key, call |-> request.call, attempt |-> Len(ended) + 1]
          PROVE r \in LateCalls /\ r.key <= latest /\ r.attempt <= Len(ended) + 1 /\ r.call = asks'[r.attempt]
      BY <1>1, <3>1, <3>2, <3>5 DEF LateCalls
    <3> QED BY <1>2, <2>1, <3>1, <3>3, <3>4, <3>5 DEF LateTyped
  <2> QED BY <2>2, <2>3
<1>6. CASE Cards!HandleLate
  <2>1. late' \subseteq late
    BY <1>6 DEF Cards!HandleLate
  <2> QED BY <1>3, <1>6, <2>1, CardsFrames DEF KeysSame
<1>7. CASE Cards!Enter \/ Cards!Deactivate
  <2>1. latest' = latest
    BY <1>7 DEF Cards!Enter, Cards!Deactivate, Cards!relay
  <2> QED BY <1>3, <1>7, <2>1, CardsFrames
<1> QED BY <1>3, <1>4, <1>5, <1>6, <1>7, CardsCases, CardsFrames DEF KeysSame

LEMMA ListTypedStep ==
  ASSUME Cards!FuelAssumption, CardsTyped, Cards!FuelNext
  PROVE  ListTyped'
<1>1. ListTyped /\ using' = using /\ using \in DOMAIN Cards!Calls /\ thing \in Things
  BY CardFacts, CardsFrames DEF CardsTyped
<1>2. CASE using = "list"
  <2>1. ended = <<>> /\ done = {} /\ late = {} /\ thing.used = 0
    BY <1>1, <1>2 DEF ListTyped
  <2>2. CASE OutcomesSame /\ UNCHANGED <<done, thing, late>>
    BY <1>1, <1>2, <2>1, <2>2 DEF ListTyped, OutcomesSame
  <2>3. CASE Cards!Handle
    <3>1. UNCHANGED <<done, thing>>
      BY <1>1, <1>2, <2>3, CardsDoing, CardDid
    <3> QED BY <2>2, <2>3, <3>1, CardsFrames
  <2>4. ~Cards!HandleLate
    BY <2>1 DEF Cards!HandleLate
  <2>5. ASSUME NEW outcome \in Outcomes, CardsReturn(outcome) PROVE ListTyped'
    BY <1>2, <2>2, <2>5, CardsReturned DEF CardsReturn, OutcomesSame
  <2>6. ~Cards!Pump /\ ~Cards!Redeem
    BY <1>2 DEF Cards!Pump, Cards!Redeem
  <2> QED BY <2>2, <2>3, <2>4, <2>5, <2>6, CardsCases, CardsFrames DEF ThingsSame
<1>3. CASE using # "list"
  <2>1. CASE UNCHANGED <<now, fuelings>>
    BY <1>1, <1>3, <2>1 DEF ListTyped
  <2>2. ASSUME NEW outcome \in Outcomes, CardsReturn(outcome) PROVE ListTyped'
    BY <2>1, <2>2, CardsReturned DEF CardsReturn
  <2>3. ~Cards!Fuel /\ ~Cards!Tick
    BY <1>3 DEF Cards!Fuel, Cards!Tick
  <2> QED BY <2>1, <2>2, <2>3, CardsCases, CardsFrames DEF TimesSame
<1> QED BY <1>2, <1>3

LEMMA CardsTypedStep ==
  ASSUME Cards!FuelAssumption, CardsTyped, Cards!FuelNext
  PROVE  CardsTyped'
BY KeysTypedStep, TimesTypedStep, RequestTypedStep, OutcomesTypedStep, ThingsTypedStep, LateTypedStep,
  ListTypedStep DEF CardsTyped

\* What a request is when it is sent, and when Relay has dealt with it.
LEMMA CardsAsked ==
  ASSUME Cards!Ask
  PROVE  /\ request.stage = "idle" /\ setting # Cards!NoKey
         /\ using = "create" => \A i \in DOMAIN ended : ended[i] # "nil"
         /\ request'.stage = "asked" /\ request'.call \in DOMAIN Cards!Calls[using]
         /\ request'.key = setting /\ request'.began = entered
         /\ request'.from = Cards!Second(watermark) /\ request'.to = now
<1>1. PICK c \in DOMAIN Cards!Calls[using] :
        request' = [stage |-> "asked", call |-> c, key |-> setting, began |-> entered,
                    from |-> Cards!Second(watermark), to |-> now, page |-> {}]
  BY DEF Cards!Ask, Cards!APIKey
<1>2. /\ request'.stage = "asked" /\ request'.call = c /\ request'.key = setting /\ request'.began = entered
      /\ request'.from = Cards!Second(watermark) /\ request'.to = now
  BY <1>1
<1> QED BY <1>2 DEF Cards!Ask, Cards!APIKey

LEMMA CardsHandled ==
  ASSUME request \in CardRequests, Cards!Handle
  PROVE  /\ request.stage = "asked" /\ request'.stage \in {"answered", "refused", "rejected"}
         /\ request'.call = request.call /\ request'.key = request.key /\ request'.began = request.began
         /\ request'.from = request.from /\ request'.to = request.to
         /\ request'.stage = "answered" => request'.page = Cards!Page
         /\ request'.stage = "refused" => Cards!Refused(request.key)
<1>1. CASE Cards!Refused(request.key) /\ request' = [request EXCEPT !.stage = "refused"]
  BY <1>1 DEF CardRequests, Cards!Handle
<1>2. CASE request' = [request EXCEPT !.stage = "answered", !.page = Cards!Page]
  BY <1>2 DEF CardRequests, Cards!Handle
<1>3. CASE request' = [request EXCEPT !.stage = "rejected"]
  BY <1>3 DEF CardRequests, Cards!Handle
<1> QED BY <1>1, <1>2, <1>3 DEF Cards!Handle

-----------------------------------------------------------------------------
\* Keys: what is reported was refused.
LEMMA KeysTrueStep ==
  ASSUME Cards!FuelAssumption, CardsTyped, KeysTrue, Cards!FuelNext
  PROVE  KeysTrue'
<1>1. /\ KeysTyped /\ request.began \in Nat /\ request.began <= entered
      /\ request.stage # "idle" => request.key \in 1..latest
  BY DEF CardsTyped, RequestTyped, CardRequests
<1>2. CASE KeysSame /\ request' = request
  BY <1>2 DEF KeysTrue, KeysSame
<1>3. CASE Cards!Ask
  <2>1. /\ KeysSame /\ request'.stage = "asked" /\ request'.key = setting /\ request'.began = entered
    BY <1>3, CardsFrames, CardsAsked
  <2> QED BY <2>1 DEF KeysTrue, KeysSame
<1>4. CASE Cards!Handle
  <2>1. /\ KeysSame /\ request.stage # "idle"
        /\ request'.key = request.key /\ request'.began = request.began
        /\ request'.stage = "refused" => Cards!Refused(request.key)
    BY <1>4, CardsFrames, CardsHandled, CardFacts
  <2>3. request'.stage = "refused" /\ covered => request.key < latest
    BY <1>1, <2>1, CardNumbers DEF Cards!Refused, KeysTyped
  <2> QED BY <2>1, <2>3 DEF KeysTrue, KeysSame
<1>5. ASSUME NEW outcome \in Outcomes, CardsReturn(outcome) PROVE KeysTrue'
  <2>1. /\ UNCHANGED <<setting, latest, covered, entered>> /\ request'.stage = "idle"
        /\ reports' = reports \cup IF outcome = "AuthError" THEN {request.began} ELSE {}
    BY <1>5, CardsReturned DEF CardsReturn, Cards!Idle
  <2>2. outcome = "AuthError" => request.stage = "refused"
    BY <1>5 DEF CardsReturn
  <2>3. CASE outcome = "AuthError" /\ covered
    <3>1. request.key < latest /\ request.key \in 1..latest /\ latest \in Nat
      BY <1>1, <2>2, <2>3, CardNumbers DEF KeysTrue, KeysTyped
    <3>2. request.began = entered => setting # latest
      BY <2>2, <2>3, <3>1 DEF KeysTrue
    <3>3. latest # 1
      BY <3>1
    <3> QED BY <2>1, <2>3, <3>2, <3>3 DEF KeysTrue
  <2> QED BY <2>1, <2>3 DEF KeysTrue
<1>6. CASE Cards!Rotate
  <2>1. latest' = latest + 1 /\ UNCHANGED <<setting, covered, entered, reports, request>>
    BY <1>6 DEF Cards!Rotate, Cards!client
  <2>2. latest \in Nat /\ latest >= 1 /\ setting \in Nat /\ setting <= latest
    BY <1>1, CardNumbers DEF KeysTyped
  <2>3. setting # latest' /\ latest' # 1
    BY <2>1, <2>2
  <2>4. request'.stage = "refused" /\ covered => request.key < latest'
    <3>1. request.stage # "idle" => request.key \in Nat
      BY <1>1
    <3> QED BY <2>1, <2>2, <3>1 DEF KeysTrue
  <2> QED BY <2>1, <2>3, <2>4 DEF KeysTrue
<1>7. CASE Cards!Enter
  <2>1. /\ setting # latest /\ setting' = latest /\ entered' = entered + 1
        /\ UNCHANGED <<latest, covered, reports, request>>
    BY <1>7 DEF Cards!Enter, Cards!client, Cards!relay
  <2>2. request.began # entered' /\ entered' \notin reports
    BY <1>1, <2>1, CardNumbers DEF KeysTyped
  <2> QED BY <2>1, <2>2 DEF KeysTrue
<1>8. CASE Cards!Deactivate
  <2>1. /\ setting' = 0 /\ reports # {} /\ reports' \subseteq reports
        /\ UNCHANGED <<latest, covered, entered, request>>
    BY <1>8, CardNumbers DEF Cards!Deactivate, Cards!client, Cards!relay
  <2>2. latest # 0
    BY <1>1 DEF KeysTyped
  <2> QED BY <2>1, <2>2 DEF KeysTrue
<1> QED BY <1>2, <1>3, <1>4, <1>5, <1>6, <1>7, <1>8, CardsCases, CardsFrames

-----------------------------------------------------------------------------
\* What was done.
LEMMA DoneTrueStep ==
  ASSUME Cards!FuelAssumption, CardsTyped, DoneTrue, Cards!FuelNext
  PROVE  DoneTrue'
<1>1. /\ Len(ended) \in Nat /\ DOMAIN ended = 1..Len(ended) /\ Cards!Attempt = Len(ended) + 1
      /\ using' = using /\ using \in DOMAIN Cards!Calls /\ thing \in Things
      /\ \A r \in late : r.attempt \in 1..Len(ended)
  BY CardFacts, CardsFrames
<1>2. CASE OutcomesSame /\ request' = request /\ done' = done /\ late' = late
  BY <1>1, <1>2 DEF DoneTrue, CardsOpen, OutcomesSame, Cards!Attempt
<1>3. CASE Cards!Ask
  <2>1. /\ OutcomesSame /\ done' = done /\ late' = late /\ request.stage = "idle" /\ request'.stage = "asked"
        /\ using = "create" => \A i \in DOMAIN ended : ended[i] # "nil"
    BY <1>3, CardsFrames, CardsAsked DEF ThingsSame
  <2> QED BY <1>1, <2>1 DEF DoneTrue, CardsOpen, OutcomesSame, Cards!Attempt
<1>4. CASE Cards!Handle
  <2>1. OutcomesSame /\ late' = late /\ request.stage = "asked"
    BY <1>4, CardsFrames DEF Cards!Handle
  <2>2. CASE done' = done /\ request'.stage \in {"refused", "rejected"}
    BY <1>1, <2>1, <2>2 DEF DoneTrue, CardsOpen, OutcomesSame, Cards!Attempt
  <2>3. CASE /\ Cards!Takes(request.call) /\ Cards!Do(request.call, Cards!Attempt)
             /\ request.call \in DOMAIN Cards!Calls[using] /\ request'.stage = "answered"
    <3>1. CASE using = "list"
      <4>1. done' = done
        BY <1>1, <2>3, <3>1, CardDid
      <4> QED BY <1>1, <2>1, <2>3, <3>1, <4>1 DEF DoneTrue, CardsOpen, OutcomesSame, Cards!Attempt,
          CardsTyped, ListTyped
    <3>2. CASE using # "list"
      <4>1. done' = done \cup {Len(ended) + 1}
        BY <1>1, <2>3, <3>2, CardDid
      <4>2. done \subseteq 1..Len(ended) /\ CardsOpen' = Len(ended) + 1 /\ Cards!Attempt' = Len(ended) + 1
        BY <1>1, <2>1, <2>3 DEF DoneTrue, CardsOpen, OutcomesSame, Cards!Attempt
      <4>3. done' \subseteq 1..(Len(ended) + 1) /\ \A i \in 1..Len(ended) : i \in done' <=> i \in done
        <5>1. \A i \in 1..Len(ended) : i \in 1..(Len(ended) + 1) /\ i # Len(ended) + 1
          BY <1>1
        <5>2. Len(ended) + 1 \in 1..(Len(ended) + 1)
          BY <1>1
        <5> QED BY <4>1, <4>2, <5>1, <5>2
      <4>4. using = "create" => \A i \in DOMAIN ended : ended[i] # "nil"
        BY <2>1 DEF DoneTrue
      <4> QED BY <1>1, <2>1, <4>1, <4>2, <4>3, <4>4 DEF DoneTrue, OutcomesSame
    <3> QED BY <3>1, <3>2
  <2> QED BY <1>4, <2>2, <2>3, CardsDoing
<1>5. ASSUME NEW outcome \in Outcomes, CardsReturn(outcome) PROVE DoneTrue'
  <2>1. done' = done /\ request'.stage = "idle" /\ request.stage # "idle"
    BY <1>5, CardsReturned DEF CardsReturn, Cards!Idle
  <2>2. CASE using = "list"
    <3>1. ended' = ended /\ late' = late /\ ended = <<>> /\ done = {} /\ late = {}
      BY <1>5, <2>2, CardsReturned DEF CardsReturn, CardsTyped, ListTyped
    <3>2. Len(ended) = 0 /\ DOMAIN ended = {}
      BY <3>1
    <3> QED BY <1>1, <2>1, <2>2, <3>1, <3>2 DEF DoneTrue, CardsOpen
  <2>3. CASE using # "list"
    <3> DEFINE n == Len(ended) + 1
    <3>1. /\ Len(ended') = n /\ DOMAIN ended' = 1..n /\ ended'[n] = outcome
          /\ \A i \in 1..Len(ended) : ended'[i] = ended[i]
      BY <1>5, <2>3, CardsReturned DEF CardsReturn
    <3>2. outcome = "nil" => n \in done
      BY <1>1, <1>5, <2>3 DEF CardsReturn, DoneTrue
    <3>3. request.stage # "answered" => n \notin done
      BY <1>1 DEF DoneTrue, CardsOpen
    <3>4. outcome = "AuthError" => request.stage = "refused"
      BY <1>5 DEF CardsReturn
    <3>5. \A r \in late' : \/ r \in late
                           \/ r.attempt = n /\ request.stage = "asked"
                              /\ r = [key |-> request.key, call |-> request.call, attempt |-> n]
      BY <1>1, <1>5 DEF CardsReturn
    <3>6. done \subseteq 1..n
      BY <1>1 DEF DoneTrue, CardsOpen
    <3>7. \A i \in 1..n : i \in 1..Len(ended) \/ i = n
      BY <1>1
    <3>8. \A i \in 1..n : (ended'[i] = "nil" => i \in done) /\ (ended'[i] = "AuthError" => i \notin done)
      BY <1>1, <3>1, <3>2, <3>3, <3>4, <3>7 DEF DoneTrue
    <3>9. \A r \in late' : ended'[r.attempt] = "error" /\ r.attempt \notin done
      <4>1. ASSUME NEW r \in late PROVE ended'[r.attempt] = "error" /\ r.attempt \notin done
        BY <1>1, <3>1 DEF DoneTrue
      <4>2. request.stage = "asked" => outcome = "error"
        BY <1>5 DEF CardsReturn, Outcomes
      <4> QED BY <3>1, <3>3, <3>5, <4>1, <4>2
    <3>10. \A r, q \in late' : r.attempt = q.attempt => r = q
      <4>1. \A r \in late : r.attempt # n
        BY <1>1
      <4> QED BY <3>5, <4>1 DEF DoneTrue
    <3>11. using = "create" => \A i \in 1..n : ended'[i] = "nil" => i = n
      BY <1>1, <2>1, <3>1, <3>7 DEF DoneTrue
    <3>12. CardsOpen' = n
      BY <2>1, <3>1 DEF CardsOpen
    <3> QED BY <1>1, <2>1, <3>1, <3>6, <3>8, <3>9, <3>10, <3>11, <3>12 DEF DoneTrue
  <2> QED BY <2>2, <2>3
<1>6. CASE Cards!HandleLate
  <2>1. OutcomesSame /\ request' = request
    BY <1>6, CardsFrames
  <2>2. PICK r \in late :
          /\ late' = late \ {r} /\ using # "list" /\ r.call \in DOMAIN Cards!Calls[using]
          /\ UNCHANGED <<done, thing>> \/ (Cards!Takes(r.call) /\ Cards!Do(r.call, r.attempt))
    BY <1>6, CardsDoing
  <2>3. done' = done \/ done' = done \cup {r.attempt}
    BY <1>1, <2>2, CardDid
  <2>4. /\ ended[r.attempt] = "error" /\ r.attempt \in 1..Len(ended)
        /\ \A q \in late' : q.attempt # r.attempt
    BY <1>1, <2>2 DEF DoneTrue
  <2>5. r.attempt \in 1..CardsOpen /\ CardsOpen' = CardsOpen /\ Cards!Attempt' = Cards!Attempt
    BY <1>1, <2>1, <2>4 DEF CardsOpen, OutcomesSame, Cards!Attempt
  <2>6. /\ done' \subseteq 1..CardsOpen /\ done \subseteq done'
        /\ \A i \in DOMAIN ended : ended[i] = "AuthError" => i \notin done'
        /\ \A q \in late' : ended[q.attempt] = "error" /\ q.attempt \notin done'
    BY <2>2, <2>3, <2>4, <2>5 DEF DoneTrue
  <2> QED BY <1>1, <2>1, <2>2, <2>5, <2>6 DEF DoneTrue, OutcomesSame
<1> QED BY <1>2, <1>3, <1>4, <1>5, <1>6, CardsCases, CardsFrames DEF ThingsSame

-----------------------------------------------------------------------------
\* The attempts d that assigned the policy, where s was asked and c is being asked.
Assigning(d, s, c) == {i \in d : IF i = Len(s) + 1 THEN c = "assign" ELSE s[i] = "assign"}

LEMMA AssigningIs ==
  ASSUME NEW s \in Seq(CallNames), NEW c \in CallNames, NEW d \in SUBSET (1..(Len(s) + 1))
  PROVE  {i \in d : Append(s, c)[i] = "assign"} = Assigning(d, s, c)
<1>1. /\ Len(s) \in Nat /\ \A i \in 1..Len(s) : Append(s, c)[i] = s[i]
      /\ Append(s, c)[Len(s) + 1] = c
  BY Appended
<1>2. \A i \in 1..(Len(s) + 1) : i # Len(s) + 1 => i \in 1..Len(s)
  BY <1>1
<1> QED BY <1>1, <1>2 DEF Assigning

LEMMA AssignmentsAre ==
  ASSUME Cards!FuelAssumption, CardsTyped, DoneTrue
  PROVE  /\ Cards!Assignments = Assigning(done, asks, request.call)
         /\ done \subseteq 1..(Len(asks) + 1) /\ request.call \in CallNames
<1>1. /\ asks \in Seq(CallNames) /\ Len(asks) = Len(ended) /\ Len(ended) \in Nat
      /\ request.call \in CallNames /\ Cards!Attempt = Len(ended) + 1
  BY CardFacts DEF CardRequests
<1>2. done \in SUBSET (1..(Len(asks) + 1))
  BY <1>1 DEF DoneTrue, CardsOpen
<1> QED BY <1>1, <1>2, AssigningIs DEF Cards!Assignments

LEMMA AssignmentsNext ==
  ASSUME Cards!FuelAssumption, CardsTyped', DoneTrue'
  PROVE  Cards!Assignments' = Assigning(done', asks', request'.call)
<1>1. /\ asks' \in Seq(CallNames) /\ Len(asks') = Len(ended') /\ Len(ended') \in Nat
      /\ request'.call \in CallNames /\ Cards!Attempt' = Len(ended') + 1
  BY DEF CardsTyped, OutcomesTyped, RequestTyped, CardRequests, Cards!Attempt
<1>2. done' \in SUBSET (1..(Len(asks') + 1))
  BY <1>1 DEF DoneTrue, CardsOpen
<1> QED BY <1>1, <1>2, AssigningIs DEF Cards!Assignments

\* Attempt n is done: the one under way, or one that is late.
CardsDoes(c, n) ==
  /\ using # "list" /\ c \in DOMAIN Cards!Calls[using] /\ n \in 1..MaxAttempts /\ n \notin done
  /\ OutcomesSame /\ fueled' = fueled
  /\ done' = done \cup {n} /\ thing'.by = n
  /\ Cards!Assignments' = Cards!Assignments \cup IF c = "assign" THEN {n} ELSE {}
  /\ thing'.used = IF using = "create" \/ c = "assign" THEN 0 ELSE thing.used
  /\ c = "delete" => thing'.state = "gone"
  /\ using = "create" \/ c = "assign" \/ thing.state = "created"
  /\ \/ /\ n = Len(ended) + 1 /\ c = request.call /\ request'.call = c
        /\ request'.stage = "answered" /\ request.stage = "asked"
     \/ n \in 1..Len(ended) /\ ended[n] = "error" /\ request' = request

LEMMA CardsDoesOne ==
  ASSUME Cards!FuelAssumption, CardsTyped, DoneTrue, Cards!FuelNext
  PROVE  \/ \E c \in CallNames, n \in 1..MaxAttempts : CardsDoes(c, n)
         \/ /\ done' = done /\ Cards!Assignments' = Cards!Assignments
            /\ (thing' = thing /\ fueled' = fueled) \/ Cards!Pump \/ Cards!Redeem
            /\ using # "list" /\ request'.stage = "answered" => request' = request /\ OutcomesSame
<1>1. /\ Len(ended) \in Nat /\ DOMAIN ended = 1..Len(ended) /\ Cards!Attempt = Len(ended) + 1
      /\ Len(asks) = Len(ended) /\ using \in DOMAIN Cards!Calls /\ thing \in Things /\ request \in CardRequests
      /\ MaxAttempts \in Nat
  BY CardFacts, CardNumbers
<1>2. /\ Cards!Assignments = Assigning(done, asks, request.call)
      /\ done \subseteq 1..(Len(ended) + 1) /\ request.call \in CallNames
  BY <1>1, AssignmentsAre
<1>3. Cards!Assignments' = Assigning(done', asks', request'.call)
  BY AssignmentsNext, CardsTypedStep, DoneTrueStep
<1>4. CASE OutcomesSame /\ request' = request /\ done' = done
           /\ ((thing' = thing /\ fueled' = fueled) \/ Cards!Pump \/ Cards!Redeem)
  BY <1>2, <1>3, <1>4 DEF OutcomesSame
<1>5. CASE Cards!Ask
  <2>1. /\ OutcomesSame /\ ThingsSame /\ request.stage = "idle" /\ request'.stage = "asked"
    BY <1>5, CardsFrames, CardsAsked
  <2>2. done \subseteq 1..Len(ended)
    BY <2>1 DEF DoneTrue, CardsOpen
  <2>3. \A i \in done : i # Len(asks) + 1
    BY <1>1, <2>2
  <2>4. Cards!Assignments' = Cards!Assignments
    BY <1>2, <1>3, <2>1, <2>3 DEF Assigning, OutcomesSame, ThingsSame
  <2> QED BY <2>1, <2>4 DEF ThingsSame
<1>6. CASE Cards!Handle
  <2>1. /\ OutcomesSame /\ fueled' = fueled /\ request.stage = "asked" /\ request'.call = request.call
        /\ request.call \in DOMAIN Cards!Calls[using]
    BY <1>1, <1>6, CardsFrames, CardsHandled DEF CardsTyped, RequestTyped
  <2>2. CASE UNCHANGED <<done, thing>> /\ request'.stage \in {"refused", "rejected"}
    BY <1>2, <1>3, <2>1, <2>2 DEF OutcomesSame
  <2>3. CASE /\ Cards!Takes(request.call) /\ Cards!Do(request.call, Len(ended) + 1)
             /\ request'.stage = "answered"
    <3>1. CASE using = "list"
      <4>1. UNCHANGED <<done, thing>>
        BY <1>1, <2>1, <2>3, <3>1, CardDid
      <4> QED BY <1>2, <1>3, <2>1, <3>1, <4>1 DEF OutcomesSame
    <3>2. CASE using # "list"
      <4> DEFINE n == Len(ended) + 1
      <4>1. /\ done' = done \cup {n} /\ thing'.by = n
            /\ thing'.used = IF using = "create" \/ request.call = "assign" THEN 0 ELSE thing.used
            /\ request.call = "delete" => thing'.state = "gone"
            /\ using = "create" \/ request.call = "assign" \/ thing.state = "created"
        BY <1>1, <2>1, <2>3, <3>2, CardDid
      <4>2. n \in 1..MaxAttempts
        BY <1>1, <2>1, <3>2 DEF CardsTyped, RequestTyped
      <4>3. done \subseteq 1..Len(ended)
        BY <2>1 DEF DoneTrue, CardsOpen
      <4>4. n \notin done
        BY <1>1, <4>3
      <4>5. Cards!Assignments' = Cards!Assignments \cup IF request.call = "assign" THEN {n} ELSE {}
        BY <1>1, <1>2, <1>3, <2>1, <4>1 DEF Assigning, OutcomesSame
      <4>6. CardsDoes(request.call, n)
        BY <2>1, <2>3, <3>2, <4>1, <4>2, <4>4, <4>5 DEF CardsDoes
      <4> QED BY <1>2, <4>2, <4>6
    <3> QED BY <3>1, <3>2
  <2> QED BY <1>1, <1>6, <2>2, <2>3, CardsDoing
<1>7. ASSUME NEW outcome \in Outcomes, CardsReturn(outcome)
      PROVE  /\ done' = done /\ Cards!Assignments' = Cards!Assignments
             /\ thing' = thing /\ fueled' = fueled /\ request'.stage = "idle"
  <2>1. done' = done /\ thing' = thing /\ fueled' = fueled /\ request'.stage = "idle"
    BY <1>7, CardsReturned DEF CardsReturn, Cards!Idle
  <2>2. CASE using = "list"
    <3>1. done = {}
      BY <2>2 DEF CardsTyped, ListTyped
    <3> QED BY <1>2, <1>3, <2>1, <3>1 DEF Assigning
  <2>3. CASE using # "list"
    <3>1. /\ Len(asks') = Len(ended) + 1 /\ \A i \in 1..Len(ended) : asks'[i] = asks[i]
          /\ asks'[Len(ended) + 1] = request.call
      BY <1>7, <2>3, CardsReturned DEF CardsReturn
    <3>2. \A i \in done : /\ i # Len(ended) + 2
                         /\ (i = Len(ended) + 1 \/ (i # Len(ended) + 1 /\ i \in 1..Len(ended)))
      BY <1>1, <1>2
    <3>3. Len(asks') + 1 = Len(ended) + 2
      BY <1>1, <3>1
    <3>4. \A i \in done : i # Len(asks') + 1
      BY <3>2, <3>3
    <3>5. Assigning(done, asks', request'.call) = {i \in done : asks'[i] = "assign"}
      BY <3>4 DEF Assigning
    <3>6. Assigning(done, asks, request.call) = {i \in done : asks'[i] = "assign"}
      BY <1>1, <3>1, <3>2 DEF Assigning
    <3> QED BY <1>2, <1>3, <2>1, <3>5, <3>6
  <2> QED BY <2>2, <2>3
<1>8. CASE Cards!HandleLate
  <2>1. OutcomesSame /\ request' = request /\ fueled' = fueled
    BY <1>8, CardsFrames
  <2>2. PICK r \in late :
          /\ using # "list" /\ r.call \in DOMAIN Cards!Calls[using] /\ r.attempt \in 1..Len(ended)
          /\ r.call = asks[r.attempt]
          /\ UNCHANGED <<done, thing>> \/ (Cards!Takes(r.call) /\ Cards!Do(r.call, r.attempt))
    BY <1>8, CardsDoing
  <2>3. CASE UNCHANGED <<done, thing>>
    BY <1>4, <2>1, <2>3
  <2>4. CASE Cards!Takes(r.call) /\ Cards!Do(r.call, r.attempt)
    <3> DEFINE n == r.attempt
    <3>1. /\ done' = done \cup {n} /\ thing'.by = n
          /\ thing'.used = IF using = "create" \/ r.call = "assign" THEN 0 ELSE thing.used
          /\ r.call = "delete" => thing'.state = "gone"
          /\ using = "create" \/ r.call = "assign" \/ thing.state = "created"
      BY <1>1, <2>2, <2>4, CardDid
    <3>2. n \in 1..MaxAttempts /\ n # Len(ended) + 1
      BY <1>1, <2>2 DEF CardsTyped, OutcomesTyped
    <3>3. n \notin done /\ ended[n] = "error"
      BY <2>2 DEF DoneTrue
    <3>4. Cards!Assignments' = Cards!Assignments \cup IF r.call = "assign" THEN {n} ELSE {}
      BY <1>1, <1>2, <1>3, <2>1, <2>2, <3>1, <3>2 DEF Assigning, OutcomesSame
    <3>5. r.call \in CallNames
      BY <1>1, <2>2, CardCalls
    <3>6. CardsDoes(r.call, n)
      BY <2>1, <2>2, <3>1, <3>2, <3>3, <3>4 DEF CardsDoes
    <3> QED BY <3>2, <3>5, <3>6
  <2> QED BY <2>2, <2>3, <2>4
<1>9. CASE Cards!Receipt \/ Cards!Fuel \/ Cards!Tick \/ Cards!Rotate \/ Cards!Enter \/ Cards!Deactivate
  BY <1>4, <1>9, CardsFrames DEF ThingsSame
<1>10. CASE Cards!Pump \/ Cards!Redeem
  BY <1>4, <1>10, CardsFrames DEF ThingsSame
<1> QED BY <1>5, <1>6, <1>7, <1>8, <1>9, <1>10, CardsCases

-----------------------------------------------------------------------------
\* What attempt i left stands when nothing is done, and when another attempt is.
LEMMA CardStandsKept ==
  ASSUME NEW i, NEW name, CardStands(i, name), thing'.by = thing.by,
         thing.state = "gone" => thing'.state = "gone", Cards!Assignments' = Cards!Assignments,
         \A k \in DOMAIN ended : k \in DOMAIN ended' /\ ended'[k] = ended[k]
  PROVE  CardStands(i, name)'
<1>1. Assigned(i) => Assigned(i)'
  BY DEF Assigned
<1> QED BY <1>1 DEF CardStands

LEMMA CardStandsDone ==
  ASSUME NEW i \in Nat, NEW name, CardStands(i, name), NEW c, NEW n \in Nat, CardsDoes(c, n),
         Len(ended) \in Nat, DOMAIN ended = 1..Len(ended),
         name = "delete" => using # "create",
         i <= Len(ended) \/ n \in 1..Len(ended)
  PROVE  CardStands(i, name)'
<1>1. OutcomesSame /\ Cards!Assignments' = Cards!Assignments \cup IF c = "assign" THEN {n} ELSE {}
  BY DEF CardsDoes
<1>2. Assigned(i) => Assigned(i)'
  BY <1>1 DEF Assigned, OutcomesSame
<1>3. \/ n = Len(ended) + 1 /\ n > i
      \/ n \in DOMAIN ended' /\ ended'[n] = "error"
  BY <1>1 DEF CardsDoes, OutcomesSame
<1>4. c = "assign" => Assigned(i)'
  BY <1>1, <1>3 DEF Assigned
<1>5. CASE name = "delete"
  <2>1. c = "assign" \/ thing.state = "created"
    BY <1>5 DEF CardsDoes
  <2>2. thing.state = "created" => Assigned(i)
    BY <1>5 DEF CardStands
  <2>3. Assigned(i)'
    BY <1>2, <1>4, <2>1, <2>2
  <2>4. thing'.by = n
    BY DEF CardsDoes
  <2> QED BY <1>3, <2>3, <2>4 DEF CardStands
<1>6. CASE name # "delete"
  <2>1. thing'.by = n
    BY DEF CardsDoes
  <2> QED BY <1>3, <1>6, <2>1 DEF CardStands
<1> QED BY <1>5, <1>6

LEMMA CardsStandingStep ==
  ASSUME Cards!FuelAssumption, CardsTyped, DoneTrue, CardsStanding, Cards!FuelNext
  PROVE  CardsStanding'
<1>1. /\ Len(ended) \in Nat /\ DOMAIN ended = 1..Len(ended) /\ Cards!Attempt = Len(ended) + 1
      /\ using \in DOMAIN Cards!Calls /\ using' = using /\ thing \in Things
  BY CardFacts, CardsFrames
<1>2. \A c \in DOMAIN Cards!Calls[using] : c = "delete" => using # "create"
  BY <1>1, CardCalls
<1>3. CASE using = "list"
  <2>1. ended' = <<>>
    BY <1>1, <1>3, CardsTypedStep DEF CardsTyped, ListTyped
  <2>2. DOMAIN ended' = {}
    BY <2>1
  <2> QED BY <1>1, <1>3, <2>2 DEF CardsStanding
<1>4. ASSUME NEW c \in CallNames, NEW n \in 1..MaxAttempts, CardsDoes(c, n) PROVE CardsStanding'
  <2>1. OutcomesSame /\ n \in Nat
    BY <1>4 DEF CardsDoes
  <2>2. ASSUME NEW i \in DOMAIN ended, ended[i] = "nil" PROVE CardStands(i, asks[i])'
    <3> DEFINE name == asks[i]
    <3>1. CardStands(i, name) /\ i \in Nat /\ i <= Len(ended) /\ asks'[i] = name
      BY <1>1, <2>1, <2>2 DEF CardsStanding, OutcomesSame
    <3>2. name = "delete" => using # "create"
      BY <1>1, <1>2, <2>2 DEF CardsTyped, OutcomesTyped
    <3> HIDE DEF name
    <3>3. \A w : w = name => CardStands(i, w)'
      BY <1>1, <1>4, <2>1, <3>1, <3>2, CardStandsDone
    <3> QED BY <3>1, <3>3
  <2>3. Cards!Attempt' = Len(ended) + 1
    BY <1>1, <2>1 DEF OutcomesSame, Cards!Attempt
  <2>4. CASE n = Len(ended) + 1 /\ request'.call = c
    <3>1. thing'.by = n /\ (c = "delete" => thing'.state = "gone")
      BY <1>4 DEF CardsDoes
    <3> QED BY <1>1, <2>1, <2>2, <2>3, <2>4, <3>1 DEF CardsStanding, CardStands, OutcomesSame
  <2>5. CASE n \in 1..Len(ended) /\ request' = request
    <3>1. ASSUME using # "list", request.stage = "answered"
          PROVE CardStands(Len(ended) + 1, request.call)'
      <4> DEFINE i == Len(ended) + 1
                 name == request.call
      <4>1. CardStands(i, name) /\ i \in Nat
        BY <1>1, <3>1 DEF CardsStanding
      <4>2. name = "delete" => using # "create"
        BY <1>2, <3>1 DEF CardsTyped, RequestTyped
      <4>3. i' = i /\ name' = name
        BY <2>1, <2>5 DEF OutcomesSame
      <4> HIDE DEF i, name
      <4>4. \A j, w : j = i /\ w = name => CardStands(j, w)'
        BY <1>1, <1>4, <2>1, <2>5, <4>1, <4>2, CardStandsDone
      <4> QED BY <4>3, <4>4 DEF i, name
    <3> QED BY <1>1, <2>1, <2>2, <2>3, <2>5, <3>1 DEF CardsStanding, OutcomesSame
  <2> QED BY <1>4, <2>4, <2>5 DEF CardsDoes
<1>5. CASE /\ using # "list" /\ Cards!Assignments' = Cards!Assignments
           /\ (thing' = thing /\ fueled' = fueled) \/ Cards!Pump \/ Cards!Redeem
           /\ using # "list" /\ request'.stage = "answered" => request' = request /\ OutcomesSame
  <2>1. thing'.by = thing.by /\ (thing.state = "gone" => thing'.state = "gone")
    BY <1>1, <1>5 DEF Cards!Pump, Cards!Redeem, Things
  <2>2. \/ OutcomesSame
        \/ /\ DOMAIN ended' = 1..(Len(ended) + 1) /\ \A i \in 1..Len(ended) : ended'[i] = ended[i] /\ asks'[i] = asks[i]
           /\ asks'[Len(ended) + 1] = request.call
           /\ ended'[Len(ended) + 1] = "nil" => request.stage = "answered"
    <3>1. ASSUME NEW outcome \in Outcomes, CardsReturn(outcome)
          PROVE  /\ DOMAIN ended' = 1..(Len(ended) + 1)
                 /\ \A i \in 1..Len(ended) : ended'[i] = ended[i] /\ asks'[i] = asks[i]
                 /\ asks'[Len(ended) + 1] = request.call
                 /\ ended'[Len(ended) + 1] = "nil" => request.stage = "answered"
      BY <1>5, <3>1, CardsReturned DEF CardsReturn
    <3> QED BY <3>1, CardsCases, CardsFrames
  <2>3. \A k \in DOMAIN ended : k \in DOMAIN ended' /\ ended'[k] = ended[k] /\ asks'[k] = asks[k]
    BY <1>1, <2>2 DEF OutcomesSame
  <2>4. \A i, name : CardStands(i, name) => CardStands(i, name)'
    BY <1>5, <2>1, <2>3, CardStandsKept
  <2>5. ASSUME NEW i \in DOMAIN ended', ended'[i] = "nil" PROVE \E w : w = asks'[i] /\ CardStands(i, w)
    <3>1. CASE i \in DOMAIN ended
      BY <2>3, <2>5, <3>1 DEF CardsStanding
    <3>2. CASE i \notin DOMAIN ended
      <4>1. i = Len(ended) + 1 /\ asks'[i] = request.call /\ request.stage = "answered"
        BY <1>1, <2>2, <2>5, <3>2 DEF OutcomesSame
      <4> QED BY <1>1, <1>5, <4>1 DEF CardsStanding
    <3> QED BY <3>1, <3>2
  <2>6. ASSUME NEW i \in DOMAIN ended', ended'[i] = "nil" PROVE CardStands(i, asks[i])'
    BY <2>4, <2>5, <2>6
  <2>7. ASSUME request'.stage = "answered" PROVE CardStands(Cards!Attempt, request.call)'
    <3>1. request' = request /\ OutcomesSame /\ Cards!Attempt' = Len(ended) + 1
      BY <1>1, <1>5, <2>7 DEF OutcomesSame, Cards!Attempt
    <3>2. \E j, w : j = Cards!Attempt' /\ w = request'.call /\ CardStands(j, w)
      BY <1>1, <1>5, <2>7, <3>1 DEF CardsStanding
    <3> QED BY <2>4, <3>2
  <2> QED BY <2>6, <2>7 DEF CardsStanding
<1> QED BY <1>3, <1>4, <1>5, CardsDoesOne

-----------------------------------------------------------------------------
\* What was fueled was assigned.
LEMMA UseCountedStep ==
  ASSUME Cards!FuelAssumption, CardsTyped, DoneTrue, UseCounted, Cards!FuelNext
  PROVE  UseCounted'
<1>1. /\ Len(ended) \in Nat /\ thing \in Things /\ thing.used \in 0..1 /\ using' = using /\ fueled \in Nat
      /\ MaxAttempts \in Nat /\ done \subseteq 1..MaxAttempts
  BY CardFacts, CardsFrames, CardNumbers DEF Things, CardsTyped, ThingsTyped
<1>2. IsFiniteSet(Cards!Assignments) /\ Cardinality(Cards!Assignments) \in Nat /\ Cards!Assignments \subseteq done
  <2>1. Cards!Assignments \subseteq 1..MaxAttempts /\ Cards!Assignments \subseteq done
    BY <1>1 DEF Cards!Assignments
  <2>2. IsFiniteSet(1..MaxAttempts)
    BY <1>1, FS_Interval
  <2>3. IsFiniteSet(Cards!Assignments)
    BY <2>1, <2>2, FS_Subset
  <2> QED BY <2>1, <2>3, FS_CardinalityType
<1>3. ASSUME NEW c \in CallNames, NEW n \in 1..MaxAttempts, CardsDoes(c, n) PROVE UseCounted'
  <2> DEFINE A == Cards!Assignments
  <2>1. /\ fueled' = fueled /\ n \notin done
        /\ thing'.used = IF using = "create" \/ c = "assign" THEN 0 ELSE thing.used
        /\ A' = A \cup IF c = "assign" THEN {n} ELSE {}
    BY <1>3 DEF CardsDoes
  <2>2. c = "assign" => Cardinality(A') = Cardinality(A) + 1
    <3>1. n \notin A
      BY <1>2, <2>1
    <3>2. Cardinality(A \cup {n}) = Cardinality(A) + 1
      BY <1>2, <3>1, FS_AddElement
    <3> QED BY <2>1, <3>2
  <2>3. c # "assign" => A' = A
    BY <2>1
  <2>4. using # "policy" => fueled = 0 /\ thing.used = 0
    BY DEF UseCounted
  <2>5. fueled <= Cardinality(A) + thing.used
    BY DEF UseCounted
  <2>6. CASE c = "assign"
    <3>1. fueled <= (Cardinality(A) + 1) + 0
      BY <1>1, <1>2, <2>5
    <3>2. thing'.used = 0 /\ Cardinality(A') = Cardinality(A) + 1
      BY <2>1, <2>2, <2>6
    <3> QED BY <1>1, <2>1, <2>4, <3>1, <3>2 DEF UseCounted
  <2>7. CASE c # "assign" /\ using = "create"
    <3>1. 0 <= Cardinality(A) + 0
      BY <1>2
    <3> QED BY <1>1, <2>1, <2>3, <2>4, <2>7, <3>1 DEF UseCounted
  <2>8. CASE c # "assign" /\ using # "create"
    BY <1>1, <2>1, <2>3, <2>4, <2>5, <2>8 DEF UseCounted
  <2> QED BY <2>6, <2>7, <2>8
<1>4. CASE Cards!Assignments' = Cards!Assignments /\ thing' = thing /\ fueled' = fueled
  BY <1>1, <1>4 DEF UseCounted
<1>5. CASE Cards!Assignments' = Cards!Assignments /\ Cards!Pump
  <2>1. using = "policy" /\ thing'.used = thing.used + 1 /\ fueled' = fueled + 1
    BY <1>1, <1>5 DEF Cards!Pump, Things
  <2> QED BY <1>1, <1>2, <1>5, <2>1 DEF UseCounted
<1>6. CASE Cards!Assignments' = Cards!Assignments /\ Cards!Redeem
  <2>1. thing'.used = thing.used /\ fueled' = fueled
    BY <1>1, <1>6 DEF Cards!Redeem, Things
  <2> QED BY <1>1, <1>6, <2>1 DEF UseCounted
<1> QED BY <1>3, <1>4, <1>5, <1>6, CardsDoesOne

-----------------------------------------------------------------------------
\* The poll: a window begins where the last one ended.
LEMMA PolledStep ==
  ASSUME Cards!FuelAssumption, CardsTyped, Polled, Cards!FuelNext
  PROVE  Polled'
<1>1. /\ using' = using /\ TimesTyped /\ ListTyped /\ now \in Nat /\ watermark \in Nat /\ watermark <= now
      /\ \A t \in fuelings : t \in Nat /\ t <= now
      /\ request \in CardRequests /\ request.page \subseteq fuelings
      /\ request.from \in Nat /\ request.to \in Nat /\ request.to <= now
  <2>1. TimesTyped /\ ListTyped /\ RequestTyped /\ MaxNow \in Nat /\ Cards!Times = 0..MaxNow /\ using' = using
    BY CardsFrames, CardNumbers DEF CardsTyped
  <2>2. now \in Nat /\ watermark \in Nat /\ watermark <= now /\ \A t \in fuelings : t \in Nat /\ t <= now
    BY <2>1 DEF TimesTyped
  <2>3. request \in CardRequests /\ request.page \subseteq fuelings /\ request.to <= now
    BY <2>1 DEF RequestTyped
  <2>4. request.from \in Nat /\ request.to \in Nat
    BY <2>1, <2>3 DEF CardRequests
  <2> QED BY <2>1, <2>2, <2>3, <2>4
<1>2. CASE PollSame /\ fuelings' = fuelings /\ request' = request
  BY <1>1, <1>2 DEF Polled, PollSame, Cards!FuelingSound, Cards!Reconciled, Cards!EdgesRepeat, Cards!OnlyFueling
<1>3. CASE Cards!Ask
  <2>1. /\ PollSame /\ fuelings' = fuelings /\ request'.stage = "asked"
        /\ request'.from = Cards!Second(watermark) /\ request'.to = now
    BY <1>3, CardsFrames, CardsAsked DEF TimesSame
  <2> QED BY <1>1, <2>1 DEF Polled, PollSame, Cards!FuelingSound, Cards!Reconciled, Cards!EdgesRepeat,
      Cards!OnlyFueling
<1>4. CASE Cards!Handle
  <2>1. /\ PollSame /\ fuelings' = fuelings /\ request.stage = "asked"
        /\ request'.from = request.from /\ request'.to = request.to
        /\ request'.stage = "answered" => request'.page = Cards!Page
    BY <1>1, <1>4, CardsFrames, CardsHandled DEF TimesSame
  <2>2. Cards!Second(request.to) \in Nat
    BY <1>1, Seconds
  <2>3. /\ \A t \in fuelings : request.from <= t /\ t < Cards!Second(request.to) => t \in Cards!Page
        /\ \A t \in Cards!Page : request.from <= t /\ t <= Cards!Second(request.to)
    BY <1>1, <2>2 DEF Cards!Page
  <2> QED BY <1>1, <2>1, <2>3
    DEF Polled, PollSame, Cards!FuelingSound, Cards!Reconciled, Cards!EdgesRepeat, Cards!OnlyFueling
<1>5. ASSUME NEW outcome \in Outcomes, CardsReturn(outcome) PROVE Polled'
  <2>1. /\ request'.stage = "idle" /\ fuelings' = fuelings
        /\ watermark' = IF using = "list" /\ outcome = "nil" THEN request.to ELSE watermark
        /\ known' = known \cup IF outcome = "nil" THEN request.page ELSE {}
        /\ listed' = listed \cup IF outcome = "nil" THEN request.page ELSE {}
        /\ repeated' = repeated \cup (listed \cap IF outcome = "nil" THEN request.page ELSE {})
        /\ request.stage # "idle" /\ (outcome = "nil" => request.stage = "answered")
    BY <1>5, CardsReturned DEF CardsReturn, Cards!Idle
  <2>2. CASE outcome # "nil" \/ using # "list"
    <3>1. request.page = {} \/ outcome # "nil"
      BY <1>1, <2>2 DEF ListTyped
    <3>2. UNCHANGED <<fuelings, watermark, known, listed, repeated>>
      BY <2>1, <2>2, <3>1
    <3> QED BY <1>1, <2>1, <3>2 DEF Polled, Cards!FuelingSound, Cards!Reconciled, Cards!EdgesRepeat,
        Cards!OnlyFueling
  <2>3. CASE outcome = "nil" /\ using = "list"
    <3> DEFINE from == request.from
               to == request.to
               start == Cards!Second(watermark)
               end == Cards!Second(to)
    <3>1. /\ from = start /\ watermark <= to /\ start \in Nat /\ end \in Nat /\ start <= end
          /\ \A t \in fuelings : from <= t /\ t < end => t \in request.page
          /\ \A t \in request.page : from <= t /\ t <= end
      BY <1>1, <2>1, <2>3, Seconds DEF Polled
    <3>2. /\ watermark' = to /\ known' = known \cup request.page /\ listed' = listed \cup request.page
          /\ repeated' = repeated \cup (listed \cap request.page)
      BY <2>1, <2>3
    <3>3. \A t \in fuelings : t < end => t \in known'
      BY <1>1, <3>1, <3>2 DEF Polled, Cards!FuelingSound, Cards!Reconciled
    <3>4. \A t \in listed : t <= start
      BY DEF Polled
    <3>5. \A t \in listed' : t \in Nat => t <= end
      BY <1>1, <3>1, <3>2, <3>4
    <3>6. \A t \in listed \cap request.page : t = Cards!Second(t)
      <4>1. \A t \in listed \cap request.page : t = start
        BY <1>1, <3>1, <3>4
      <4>2. Cards!Second(start) = start
        BY <1>1, Seconds
      <4> QED BY <4>1, <4>2
    <3>7. \A t \in repeated' : t = Cards!Second(t)
      BY <3>2, <3>6 DEF Polled, Cards!FuelingSound, Cards!EdgesRepeat
    <3>8. known' \subseteq fuelings
      BY <1>1, <3>2 DEF Polled, Cards!FuelingSound, Cards!OnlyFueling
    <3>9. \A t \in listed' : t \in Nat
      BY <1>1, <3>2 DEF Polled
    <3> HIDE DEF from, start, end
    <3> QED BY <1>1, <2>1, <3>2, <3>3, <3>5, <3>7, <3>8, <3>9 DEF end, Polled, Cards!FuelingSound,
        Cards!Reconciled,
          Cards!EdgesRepeat, Cards!OnlyFueling
  <2> QED BY <2>2, <2>3
<1>6. CASE Cards!Receipt
  <2>1. UNCHANGED <<request, fuelings, watermark, listed, repeated>>
    BY <1>6, CardsFrames DEF TimesSame
  <2>2. PICK signature \in hooks, body \in Cards!Times :
          signature = [key |-> setting, body |-> body] /\ known' = known \cup {body}
    BY <1>6 DEF Cards!Receipt, Cards!Verified, Cards!APIKey
  <2>3. body \in fuelings
    <3>1. signature.body = body
      BY <2>2
    <3> QED BY <1>1, <2>2, <3>1 DEF TimesTyped
  <2> QED BY <1>1, <2>1, <2>2, <2>3
    DEF Polled, Cards!FuelingSound, Cards!Reconciled, Cards!EdgesRepeat, Cards!OnlyFueling
<1>7. CASE Cards!Fuel
  <2>1. PollSame /\ request' = request /\ fuelings' = fuelings \cup {now}
    BY <1>7, CardsFrames DEF Cards!Fuel
  <2>2. /\ Cards!Second(request.to) \in Nat /\ Cards!Second(request.to) <= now
        /\ Cards!Second(watermark) \in Nat /\ Cards!Second(watermark) <= now
    <3>1. /\ Cards!Second(request.to) \in Nat /\ Cards!Second(request.to) <= request.to
          /\ Cards!Second(watermark) \in Nat /\ Cards!Second(watermark) <= watermark
      BY <1>1, Seconds
    <3> QED BY <1>1, <3>1
  <2>3. ~(now < Cards!Second(request.to)) /\ ~(now < Cards!Second(watermark))
    BY <1>1, <2>2
  <2> QED BY <1>1, <2>1, <2>3
    DEF Polled, PollSame, Cards!FuelingSound, Cards!Reconciled, Cards!EdgesRepeat, Cards!OnlyFueling
<1>8. CASE Cards!Tick
  BY <1>2, <1>8, CardsFrames DEF Cards!Tick
<1> QED BY <1>2, <1>3, <1>4, <1>5, <1>6, <1>7, <1>8, CardsCases, CardsFrames DEF TimesSame

-----------------------------------------------------------------------------
LEMMA CardsNextInv ==
  ASSUME Cards!FuelAssumption, CardsIInv, Cards!FuelNext
  PROVE  CardsIInv'
BY CardsTypedStep, KeysTrueStep, DoneTrueStep, CardsStandingStep, UseCountedStep, PolledStep DEF CardsIInv

LEMMA CardsRests ==
  ASSUME CardsIInv, UNCHANGED cardsVars
  PROVE  CardsIInv'
<1> USE DEF cardsVars, CardsIInv
<1>1. CardsTyped'
  BY DEF CardsTyped, KeysTyped, TimesTyped, RequestTyped, OutcomesTyped, ThingsTyped, LateTyped, ListTyped
<1>2. KeysTrue' /\ UseCounted'
  BY DEF KeysTrue, UseCounted, Cards!Assignments
<1>3. DoneTrue'
  BY DEF DoneTrue, CardsOpen, Cards!Attempt
<1>4. CardsStanding'
  <2>1. Cards!Assignments' = Cards!Assignments /\ Cards!Attempt' = Cards!Attempt
    BY DEF Cards!Assignments, Cards!Attempt
  <2>2. \A i, name : CardStands(i, name) => CardStands(i, name)'
    BY <2>1, CardStandsKept
  <2>3. ASSUME NEW i \in DOMAIN ended, ended[i] = "nil" PROVE CardStands(i, asks[i])'
    <3>1. \E w : w = asks'[i] /\ CardStands(i, w)
      BY <2>3 DEF CardsStanding
    <3> QED BY <2>2, <3>1
  <2>4. ASSUME using # "list", request.stage = "answered" PROVE CardStands(Cards!Attempt, request.call)'
    <3>1. \E j, w : j = Cards!Attempt' /\ w = request'.call /\ CardStands(j, w)
      BY <2>1, <2>4 DEF CardsStanding
    <3> QED BY <2>2, <3>1
  <2> QED BY <2>3, <2>4 DEF CardsStanding
<1>5. Polled'
  BY DEF Polled, Cards!FuelingSound, Cards!Reconciled, Cards!EdgesRepeat, Cards!OnlyFueling
<1> QED BY <1>1, <1>2, <1>3, <1>4, <1>5

LEMMA CardsCounts ==
  \A S : (Cards!IsFiniteSet(S) <=> IsFiniteSet(S)) /\ Cards!Cardinality(S) = Cardinality(S)
BY DEF Cards!IsFiniteSet, IsFiniteSet, Cards!Cardinality, Cardinality

LEMMA OneMore ==
  ASSUME NEW S, IsFiniteSet(S), NEW e
  PROVE  IsFiniteSet(S \cup {e}) /\ Cardinality(S \cup {e}) <= Cardinality(S) + 1
<1>1. IsFiniteSet(S \cup {e}) /\ Cardinality(S) \in Nat
      /\ Cardinality(S \cup {e}) = IF e \in S THEN Cardinality(S) ELSE Cardinality(S) + 1
  BY FS_AddElement, FS_CardinalityType
<1> QED BY <1>1

LEMMA CardsHold ==
  ASSUME Cards!FuelAssumption, CardsIInv
  PROVE  Cards!CardsSound
<1> USE DEF CardsIInv
<1>0. \A i \in DOMAIN ended : ended[i] \in Outcomes
  BY DEF CardsTyped, OutcomesTyped
<1>1. /\ Len(ended) \in Nat /\ DOMAIN ended = 1..Len(ended) /\ Cards!Attempt = Len(ended) + 1
      /\ thing \in Things /\ thing.used \in 0..1 /\ ended \in Seq(Outcomes) /\ MaxAttempts \in Nat /\ fueled \in Nat
      /\ \A r \in late : r.attempt \in 1..Len(ended)
  BY CardFacts, CardNumbers DEF Things, CardsTyped, ThingsTyped
<1>2. Cards!OldNewsOnly /\ Cards!FailuresRemoveNothing
  <2>1. \A began \in reports : began \in Nat /\ entered \in Nat /\ began <= entered
    BY CardNumbers DEF CardsTyped, KeysTyped
  <2>2. request.began \in Nat /\ request.began <= entered /\ entered \in Nat
    BY CardNumbers DEF CardsTyped, KeysTyped, RequestTyped, CardRequests
  <2>3. request.stage # "idle" => request.key \in Nat /\ request.key # 0
    BY DEF CardsTyped, RequestTyped
  <2>4. latest \in Nat /\ latest # 0
    BY CardNumbers DEF CardsTyped, KeysTyped
  <2>5. ASSUME setting = latest, covered, request.stage = "refused" PROVE request.began < entered
    <3>1. request.key < latest /\ request.key \in Nat
      BY <2>3, <2>5 DEF KeysTrue
    <3>2. setting # request.key /\ setting # 0
      BY <2>4, <2>5, <3>1
    <3>3. request.began # entered
      BY <2>5, <3>2 DEF KeysTrue
    <3> QED BY <2>2, <3>3
  <2>6. ASSUME setting = latest, covered, NEW began \in reports PROVE began < entered
    BY <2>1, <2>6 DEF KeysTrue
  <2> QED BY <2>5, <2>6 DEF KeysTrue, Cards!OldNewsOnly, Cards!FailuresRemoveNothing
<1>3. Cards!CreationsOwed
  <2>1. ASSUME NEW i \in DOMAIN ended
        PROVE  /\ ended[i] = "nil" => i \in done
               /\ ended[i] = "AuthError" => i \notin done /\ \A r \in late : r.attempt # i
    BY DEF DoneTrue
  <2>2. ASSUME using = "create"
        PROVE  Cardinality(done) <= 1 + Cardinality({i \in DOMAIN ended : ended[i] = "error"})
    <3> DEFINE E == {i \in DOMAIN ended : ended[i] = "error"}
               last == IF request.stage = "answered" THEN Len(ended) + 1 ELSE Len(ended)
    <3>1. IsFiniteSet(E) /\ Cardinality(E) \in Nat
      <4>1. E \subseteq 1..Len(ended)
        BY <1>1
      <4>2. IsFiniteSet(1..Len(ended))
        BY <1>1, FS_Interval
      <4> QED BY <4>1, <4>2, FS_Subset, FS_CardinalityType
    <3>2. done \subseteq E \cup {last}
      <4> SUFFICES ASSUME NEW i \in done, i # last PROVE i \in E
        OBVIOUS
      <4>1. i \in 1..Len(ended)
        <5>1. i \in 1..last
          BY <1>1 DEF DoneTrue, CardsOpen
        <5>2. last \in {Len(ended), Len(ended) + 1} /\ (last = Len(ended) + 1 \/ last = Len(ended))
          OBVIOUS
        <5> HIDE DEF last
        <5> QED BY <1>1, <5>1, <5>2
      <4>2. ended[i] # "AuthError"
        BY <1>1, <4>1 DEF DoneTrue
      <4>3. ended[i] # "nil"
        BY <1>1, <2>2, <4>1 DEF DoneTrue
      <4>4. ended[i] \in Outcomes
        BY <1>0, <1>1, <4>1
      <4> QED BY <1>1, <4>1, <4>2, <4>3, <4>4 DEF Outcomes
    <3>3. IsFiniteSet(E \cup {last}) /\ Cardinality(E \cup {last}) <= Cardinality(E) + 1
      BY <3>1, OneMore
    <3>4. Cardinality(done) <= Cardinality(E \cup {last}) /\ IsFiniteSet(done)
      BY <3>2, <3>3, FS_Subset
    <3>5. Cardinality(done) \in Nat /\ Cardinality(E \cup {last}) \in Nat
      BY <3>3, <3>4, FS_CardinalityType
    <3> HIDE DEF E, last
    <3>6. Cardinality(done) <= 1 + Cardinality(E)
      BY <3>1, <3>3, <3>4, <3>5
    <3> QED BY <3>6 DEF E
  <2> QED BY <2>1, <2>2, CardsCounts DEF Cards!CreationsOwed
<1>4. Cards!LastWordStands
  <2> SUFFICES ASSUME NEW i \in DOMAIN ended, ended[i] = "nil"
               PROVE  \/ thing.by >= i
                      \/ /\ thing.by \in DOMAIN ended /\ ended[thing.by] = "error"
                         /\ asks[i] = "delete" => \E a \in Cards!Assignments : a > i \/ ended[a] = "error"
    BY DEF Cards!LastWordStands
  <2>1. CardStands(i, asks[i])
    BY DEF CardsStanding
  <2> QED BY <2>1 DEF CardStands, Assigned
<1>5. Cards!AllowanceKept
  <2>1. fueled <= Cardinality(Cards!Assignments) + thing.used
    BY DEF UseCounted
  <2>2. Cardinality(Cards!Assignments) \in Nat
    <3>1. Cards!Assignments \subseteq 1..MaxAttempts
      BY DEF Cards!Assignments, CardsTyped, ThingsTyped
    <3>2. IsFiniteSet(1..MaxAttempts)
      BY <1>1, FS_Interval
    <3> QED BY <3>1, <3>2, FS_Subset, FS_CardinalityType
  <2>3. fueled <= 1 * (1 + Cardinality(Cards!Assignments))
    BY <1>1, <2>1, <2>2
  <2>4. Cards!Cardinality(Cards!Assignments) = Cardinality(Cards!Assignments)
    BY CardsCounts
  <2> QED BY <2>3, <2>4 DEF Cards!AllowanceKept, Cards!Allowance
<1>6. Cards!CredentialsSound
  BY DEF Cards!CredentialsSound, Cards!Credential
<1>7. Cards!FuelTypeOK
  BY CardTypes
<1> QED BY <1>2, <1>3, <1>4, <1>5, <1>6, <1>7 DEF Cards!CardsSound

-----------------------------------------------------------------------------
(* Mail and notifications (Mail).                                          *)

(***************************************************************************)
(* The inductive invariant.  How far a call is; which IDs there are; and   *)
(* where the messages are that were sent, as the transaction has it.       *)
(***************************************************************************)
MailTyped == messages \in Seq(Mails!Kinds) /\ Len(messages) \in 1..MaxMessages
ProgressTyped ==
  /\ step = "returned" <=> result # ""
  /\ Len(sent) = IF result = "ok" THEN sending ELSE sending - 1
  /\ \A k \in DOMAIN sent : sent[k][1] = k
Position ==
  /\ ~within => tx = "open" /\ written = {}
  /\ step = "verifying" => guaranteed /\ tx = "open"
  /\ step = "publishing" => tx # "committed"
  /\ step = "crashed" /\ within => tx = "rolled back"

\* An ID is of an attempt that was made, unless the caller chose it.
Timely(id) == id[2] <= again /\ (ownIDs => id[2] = 0)
MailIDs == written \cup pending \cup mailed \cup skipped \cup Mails!Told
AllTimely == \A id \in MailIDs : Timely(id)

\* The message at hand may have been written although its call says nothing of it.
AtHand ==
  IF step \in {"verifying", "crashed"} \/ result \in {"failed", "unverified", "dropped"}
  THEN {Mails!ID} ELSE {}

\* In a transaction what was sent is among its rows; committed, in the outbox or mailed.
Lost == IF guaranteed THEN {} ELSE skipped
FateOpen == within /\ tx = "open" =>
  /\ Mails!Told \subseteq written \cup Lost
  /\ written \subseteq Mails!Told \cup (IF step = "verifying" THEN {Mails!ID} ELSE {})
FateCommitted == within /\ tx = "committed" =>
  Mails!Told \subseteq Mails!Kept \cup Lost /\ Mails!Kept \subseteq Mails!Told
FateAlone == ~within =>
  /\ Mails!Told \subseteq Mails!Kept
  /\ again = 0 => Mails!Kept \subseteq Mails!Told \cup AtHand
FateVerified == step = "verifying" =>
  IF within THEN Mails!ID \in written \cup skipped ELSE Mails!ID \in Mails!Kept
FateDropped == result = "dropped" /\ within => Mails!ID \notin written

MailFates ==
  Mails!Unsent /\ FateOpen /\ FateCommitted /\ FateAlone /\ FateVerified /\ FateDropped
  /\ Mails!DroppedOrShipped
MailIInv == Mails!MailTypeOK /\ MailTyped /\ ProgressTyped /\ Position /\ AllTimely /\ MailFates

-----------------------------------------------------------------------------
\* What a mail weighs: what is attached, and a little.
LEMMA Weights ==
  ASSUME NEW m \in Mails!Message
  PROVE  /\ Mails!Size(m) \in Nat
         /\ (\A i \in DOMAIN m.attachments : m.attachments[i].content \notin 1..5) => Mails!Size(m) <= 4
         /\ \A i \in DOMAIN m.attachments : m.attachments[i].content \in {0, 2, 4, 5}
<1>1. m.attachments \in {<<>>} \cup {<<a>> : a \in Mails!Attachment}
        \cup {<<a, a>> : a \in [filename : {"text"}, fileID : {FALSE}, content : {2}]}
  BY DEF Mails!Message
<1>2. \A a \in Mails!Attachment : a.content \in {0, 2, 4, 5}
  BY DEF Mails!Attachment
<1>3. \A a \in [filename : {"text"}, fileID : {FALSE}, content : {2}] : a.content = 2
  OBVIOUS
<1>4. \A i \in DOMAIN m.attachments : m.attachments[i].content \in {0, 2, 4, 5}
  <2>1. CASE m.attachments = <<>>
    BY <2>1
  <2>2. ASSUME NEW a \in Mails!Attachment, m.attachments = <<a>>
        PROVE  \A i \in DOMAIN m.attachments : m.attachments[i].content \in {0, 2, 4, 5}
    <3>1. \A i \in DOMAIN <<a>> : <<a>>[i] = a
      OBVIOUS
    <3> QED BY <1>2, <2>2, <3>1
  <2>3. ASSUME NEW a \in [filename : {"text"}, fileID : {FALSE}, content : {2}], m.attachments = <<a, a>>
        PROVE  \A i \in DOMAIN m.attachments : m.attachments[i].content \in {0, 2, 4, 5}
    <3>1. \A i \in DOMAIN <<a, a>> : <<a, a>>[i] = a
      OBVIOUS
    <3> QED BY <1>3, <2>3, <3>1
  <2> QED BY <1>1, <2>1, <2>2, <2>3
<1>5. \A n \in {0, 2, 4, 5} : (4 * n + 2) \div 3 \in Nat /\ (n = 0 => (4 * n + 2) \div 3 = 0)
  OBVIOUS
<1>6. \A i : /\ Mails!WeightAt(m, i) \in Nat
             /\ i \in DOMAIN m.attachments /\ m.attachments[i].content = 0 => Mails!WeightAt(m, i) = 0
             /\ i \notin DOMAIN m.attachments => Mails!WeightAt(m, i) = 0
  BY <1>4, <1>5 DEF Mails!WeightAt, Mails!Weight
<1>7. Mails!Size(m) \in Nat
  BY <1>6 DEF Mails!Size
<1>8. ASSUME \A i \in DOMAIN m.attachments : m.attachments[i].content \notin 1..5
      PROVE  Mails!Size(m) <= 4
  <2>1. \A i \in DOMAIN m.attachments : m.attachments[i].content = 0
    BY <1>4, <1>8
  <2>2. Mails!WeightAt(m, 1) = 0 /\ Mails!WeightAt(m, 2) = 0
    BY <1>6, <2>1
  <2> QED BY <2>2 DEF Mails!Size
<1> QED BY <1>4, <1>7, <1>8

\* What validate and the size look at.
LEMMA SameMail ==
  ASSUME NEW m, NEW n,
         m.to = n.to, m.subject = n.subject, m.html = n.html, m.text = n.text,
         m.links = n.links, m.attachments = n.attachments
  PROVE  (Mails!validate(m) <=> Mails!validate(n)) /\ Mails!Size(m) = Mails!Size(n)
<1>1. Mails!validate(m) <=> Mails!validate(n)
  BY DEF Mails!validate
<1>2. \A i : Mails!WeightAt(m, i) = Mails!WeightAt(n, i)
  BY DEF Mails!WeightAt
<1>3. Mails!Size(m) = Mails!Size(n)
  BY <1>2 DEF Mails!Size
<1> QED BY <1>1, <1>3

\* A mail of each kind: one with an attachment that fits, but not once it is written.
LEMMA EveryKind ==
  \A k \in Mails!Kinds : \E m \in Mails!Message : Mails!Kind(m, "own") = k
<1> DEFINE to == <<"text">>
           large == [filename |-> "text", fileID |-> FALSE, content |-> 4]
           inline == <<large>>
           mail(whom, files) ==
             [to |-> whom, subject |-> "text", html |-> "text", text |-> "text",
              templateKey |-> "text", links |-> <<>>, attachments |-> files, companyID |-> "own"]
<1>1. /\ DOMAIN to = {1} /\ to[1] = "text" /\ to # <<>>
      /\ DOMAIN inline = {1} /\ inline[1] = large
      /\ large \in Mails!Attachment /\ large.filename = "text" /\ large.content = 4
  BY DEF Mails!Attachment, Mails!Text
<1>2. DOMAIN <<>> = {}
  OBVIOUS
<1> HIDE DEF to, inline, large
<1>3. ASSUME NEW whom \in {<<>>, to}, NEW files \in {<<>>, inline}
      PROVE  mail(whom, files) \in Mails!Message
  <2>1. files \in {<<>>} \cup {<<a>> : a \in Mails!Attachment}
    BY <1>1 DEF inline
  <2>2. whom \in {<<>>, <<"text">>, <<"text", "">>}
    BY DEF to
  <2> QED BY <2>1, <2>2 DEF Mails!Message, Mails!Text
<1>4. \A whom, files :
        /\ mail(whom, files).to = whom /\ mail(whom, files).attachments = files
        /\ mail(whom, files).subject = "text" /\ mail(whom, files).html = "text"
        /\ mail(whom, files).links = <<>> /\ mail(whom, files).companyID = "own"
  OBVIOUS
<1> HIDE DEF mail
<1>5. \A whom, files : Mails!CompanyID(mail(whom, files), "own") = "own"
  BY <1>4 DEF Mails!CompanyID
<1>6. Mails!Kind(mail(to, <<>>), "own") = "good"
  <2>1. Mails!validate(mail(to, <<>>))
    <3> DEFINE m == mail(to, <<>>)
    <3>1. m.to = to /\ m.subject = "text" /\ m.html = "text" /\ m.links = <<>> /\ m.attachments = <<>>
      BY <1>4
    <3> HIDE DEF m
    <3>2. m.to # <<>> /\ \A i \in DOMAIN m.to : m.to[i] # ""
      BY <1>1, <3>1
    <3>3. m.subject # "" /\ (m.html # "" \/ m.text # "")
      BY <3>1
    <3>4. DOMAIN m.links = {} /\ DOMAIN m.attachments = {}
      BY <1>2, <3>1
    <3> QED BY <3>2, <3>3, <3>4 DEF Mails!validate, m
  <2>2. Mails!WeightAt(mail(to, <<>>), 1) = 0 /\ Mails!WeightAt(mail(to, <<>>), 2) = 0
    BY <1>2, <1>4 DEF Mails!WeightAt
  <2>3. ~(Mails!Size(mail(to, <<>>)) > 4)
    BY <2>2 DEF Mails!Size
  <2> QED BY <1>5, <2>1, <2>3 DEF Mails!Kind, Mails!BatchBytes
<1>7. Mails!Kind(mail(<<>>, <<>>), "own") = "bad"
  <2>1. ~Mails!validate(mail(<<>>, <<>>))
    BY <1>4 DEF Mails!validate
  <2> QED BY <2>1 DEF Mails!Kind
<1>8. Mails!Kind(mail(to, inline), "own") = "heavy"
  <2>1. Mails!validate(mail(to, inline))
    <3> DEFINE m == mail(to, inline)
    <3>1. m.to = to /\ m.subject = "text" /\ m.html = "text" /\ m.links = <<>> /\ m.attachments = inline
      BY <1>4
    <3> HIDE DEF m
    <3>2. m.to # <<>> /\ \A i \in DOMAIN m.to : m.to[i] # ""
      BY <1>1, <3>1
    <3>3. m.subject # "" /\ (m.html # "" \/ m.text # "")
      BY <3>1
    <3>4. DOMAIN m.links = {}
      BY <1>2, <3>1
    <3>5. \A i \in DOMAIN m.attachments : m.attachments[i] = large
      BY <1>1, <3>1
    <3>6. large.filename # "" /\ large.content > 0 /\ large.content <= Mails!MaxInlineAttachmentBytes
      BY <1>1 DEF Mails!MaxInlineAttachmentBytes
    <3>7. \A i \in DOMAIN m.attachments :
            /\ m.attachments[i].filename # "" /\ m.attachments[i].content > 0
            /\ m.attachments[i].content <= Mails!MaxInlineAttachmentBytes
      BY <3>5, <3>6
    <3> QED BY <3>2, <3>3, <3>4, <3>7 DEF Mails!validate, m
  <2>2. Mails!WeightAt(mail(to, inline), 1) = 6 /\ Mails!WeightAt(mail(to, inline), 2) = 0
    BY <1>1, <1>4 DEF Mails!WeightAt, Mails!Weight
  <2>3. Mails!Size(mail(to, inline)) > 4
    BY <2>2 DEF Mails!Size
  <2> QED BY <1>5, <2>1, <2>3 DEF Mails!Kind, Mails!BatchBytes
<1>9. mail(to, <<>>) \in Mails!Message /\ mail(<<>>, <<>>) \in Mails!Message /\ mail(to, inline) \in Mails!Message
  BY <1>3
<1> QED BY <1>6, <1>7, <1>8, <1>9 DEF Mails!Kinds

\* One mail: its template says nothing, its company may be the actor's, and what is
\* heavy carries something inline.
LEMMA OneKind ==
  ASSUME NEW m \in Mails!Message, NEW actor \in Mails!Actors
  PROVE  /\ Mails!Kind(m, actor) = Mails!Kind([m EXCEPT !.templateKey = ""], actor)
         /\ Mails!Kind([m EXCEPT !.companyID = ""], "own") = Mails!Kind([m EXCEPT !.companyID = "own"], actor)
         /\ Mails!Kind(m, actor) = "heavy" => \E i \in DOMAIN m.attachments : m.attachments[i].content > 0
         /\ Mails!Kind(m, actor) # "bad" => Mails!CompanyID(m, actor) \in {"own", "other"}
<1> DEFINE bare == [m EXCEPT !.templateKey = ""]
           none == [m EXCEPT !.companyID = ""]
           mine == [m EXCEPT !.companyID = "own"]
<1>1. /\ bare.to = m.to /\ bare.subject = m.subject /\ bare.html = m.html /\ bare.text = m.text
      /\ bare.links = m.links /\ bare.attachments = m.attachments /\ bare.companyID = m.companyID
  BY DEF Mails!Message
<1>2. /\ none.to = m.to /\ none.subject = m.subject /\ none.html = m.html /\ none.text = m.text
      /\ none.links = m.links /\ none.attachments = m.attachments /\ none.companyID = ""
  BY DEF Mails!Message
<1>3. /\ mine.to = m.to /\ mine.subject = m.subject /\ mine.html = m.html /\ mine.text = m.text
      /\ mine.links = m.links /\ mine.attachments = m.attachments /\ mine.companyID = "own"
  BY DEF Mails!Message
<1> HIDE DEF bare, none, mine
<1>4. (Mails!validate(bare) <=> Mails!validate(m)) /\ Mails!Size(bare) = Mails!Size(m)
  BY <1>1, SameMail
<1>5. (Mails!validate(none) <=> Mails!validate(m)) /\ Mails!Size(none) = Mails!Size(m)
  BY <1>2, SameMail
<1>6. (Mails!validate(mine) <=> Mails!validate(m)) /\ Mails!Size(mine) = Mails!Size(m)
  BY <1>3, SameMail
<1>7. Mails!Kind(m, actor) = Mails!Kind(bare, actor)
  BY <1>1, <1>4 DEF Mails!Kind, Mails!CompanyID
<1>8. Mails!Kind(none, "own") = Mails!Kind(mine, actor)
  BY <1>2, <1>3, <1>5, <1>6 DEF Mails!Kind, Mails!CompanyID
<1>9. ASSUME Mails!Kind(m, actor) = "heavy" PROVE \E i \in DOMAIN m.attachments : m.attachments[i].content > 0
  <2>1. Mails!Size(m) > 4
    BY <1>9 DEF Mails!Kind, Mails!BatchBytes
  <2>2. Mails!Size(m) \in Nat
    BY Weights
  <2>3. ~(Mails!Size(m) <= 4)
    BY <2>1, <2>2
  <2>4. PICK i \in DOMAIN m.attachments : m.attachments[i].content \in 1..5
    BY <2>3, Weights
  <2>5. m.attachments[i].content > 0
    BY <2>4
  <2> QED BY <2>5
<1>10. ASSUME Mails!Kind(m, actor) # "bad" PROVE Mails!CompanyID(m, actor) \in {"own", "other"}
  <2>1. Mails!CompanyID(m, actor) # "" /\ m.companyID \in {"", "own", "other"} /\ actor \in {"", "own"}
    BY <1>10 DEF Mails!Kind, Mails!Message, Mails!Actors
  <2> QED BY <2>1 DEF Mails!CompanyID
<1> QED BY <1>7, <1>8, <1>9, <1>10 DEF bare, none, mine

LEMMA MailKinds == Mails!KindsSound
<1>1. \A k \in Mails!Kinds : \E m \in Mails!Message, actor \in Mails!Actors : Mails!Kind(m, actor) = k
  BY EveryKind DEF Mails!Actors
<1>2. \A m \in Mails!Message, actor \in Mails!Actors :
        /\ Mails!Kind(m, actor) = Mails!Kind([m EXCEPT !.templateKey = ""], actor)
        /\ Mails!Kind([m EXCEPT !.companyID = ""], "own") = Mails!Kind([m EXCEPT !.companyID = "own"], actor)
        /\ Mails!Kind(m, actor) = "heavy" => \E i \in DOMAIN m.attachments : m.attachments[i].content > 0
        /\ Mails!Kind(m, actor) # "bad" => Mails!CompanyID(m, actor) \in {"own", "other"}
  BY OneKind
<1> QED BY <1>1, <1>2 DEF Mails!KindsSound

LEMMA MailActions == Mails!ActionsLeftBehind
<1> SUFFICES ASSUME NEW n \in Mails!Notification, NEW later \in Mails!Notification, NEW actor \in Mails!Actors
             PROVE  /\ Mails!Payloads(n, later, actor)[1].action = n.action
                    /\ Mails!Payloads(n, later, actor)[2].action # later.action <=>
                         n.metadata = "shared" /\ later.metadata = "shared" /\ n.action # "none" /\ later.action = "none"
  BY DEF Mails!ActionsLeftBehind
<1>1. /\ n.metadata \in {"none", "shared"} /\ n.action \in {"none", "redirect", "open_chat"}
      /\ later.metadata \in {"none", "shared"} /\ later.action \in {"none", "redirect", "open_chat"}
  BY DEF Mails!Notification
<1>2. /\ Mails!Payloads(n, later, actor)[1] = Mails!Payload(n, "none", actor)
      /\ Mails!Payloads(n, later, actor)[2] = Mails!Payload(later, Mails!MetadataAfter(n, "none"), actor)
  BY DEF Mails!Payloads
<1>3. \A v, action : Mails!Payload(v, action, actor).action =
                       IF v.metadata = "shared" THEN Mails!MetadataAfter(v, action) ELSE v.action
  BY DEF Mails!Payload
<1>4. Mails!Payload(n, "none", actor).action = n.action
  BY <1>1, <1>3 DEF Mails!MetadataAfter
<1>5. Mails!MetadataAfter(n, "none") = IF n.metadata = "shared" THEN n.action ELSE "none"
  BY <1>1 DEF Mails!MetadataAfter
<1>6. Mails!Payload(later, Mails!MetadataAfter(n, "none"), actor).action =
        IF later.metadata = "shared" /\ later.action = "none" /\ n.metadata = "shared" THEN n.action ELSE later.action
  BY <1>1, <1>3, <1>5 DEF Mails!MetadataAfter
<1> QED BY <1>1, <1>2, <1>4, <1>6

-----------------------------------------------------------------------------
LEMMA Counting ==
  /\ \A n \in Nat : \A i \in 1..n : i # n => i + 1 \in 1..n
  /\ \A n \in Nat : \A i \in 0..n : (i < n => i + 1 \in 0..n) /\ (i > 0 => i - 1 \in 0..n)
  /\ \A n \in Nat : n = 0 \/ n > 0
  /\ \A i, j, n \in Nat : i <= n /\ j <= n /\ i # j => n > 0
OBVIOUS

LEMMA Pairs ==
  ASSUME NEW A, NEW B, NEW p \in A \X B, NEW q \in A \X B, p # q, p[1] = q[1]
  PROVE  p[2] \in B /\ q[2] \in B /\ p[2] # q[2]
OBVIOUS

LEMMA Emptiness == \A S : <<>> \in Seq(S) /\ Len(<<>>) = 0 /\ DOMAIN <<>> = {}
OBVIOUS

LEMMA MailFacts ==
  ASSUME Mails!MailAssumption, MailIInv
  PROVE  /\ sending \in 1..Len(messages) /\ sending \in 1..MaxMessages /\ DOMAIN messages = 1..Len(messages)
         /\ Len(messages) \in Nat /\ MaxMessages \in Nat /\ MaxAgain \in Nat /\ MaxStumbles \in Nat
         /\ again \in 0..MaxAgain /\ Mails!ID \in Mails!IDs /\ Mails!ID[1] = sending
         /\ Mails!ID[2] = (IF ownIDs THEN 0 ELSE again) /\ Timely(Mails!ID)
<1>1. /\ sending \in 1..Len(messages) /\ DOMAIN messages = 1..Len(messages)
      /\ Len(messages) \in 1..MaxMessages /\ MaxMessages \in Nat /\ again \in 0..MaxAgain
      /\ MaxAgain \in Nat /\ MaxStumbles \in Nat
  <2>1. messages \in Seq(Mails!Kinds) /\ Len(messages) \in 1..MaxMessages
    BY DEF MailIInv, MailTyped
  <2>2. DOMAIN messages = 1..Len(messages)
    BY <2>1, Lengths
  <2>3. sending \in DOMAIN messages /\ again \in 0..MaxAgain
    BY DEF MailIInv, Mails!MailTypeOK
  <2> QED BY <2>1, <2>2, <2>3 DEF Mails!MailAssumption
<1>2. Mails!ID[1] = sending /\ Mails!ID[2] = (IF ownIDs THEN 0 ELSE again)
  BY DEF Mails!ID, Mails!IDOf
<1>3. Mails!ID \in Mails!IDs
  BY <1>1 DEF Mails!ID, Mails!IDOf, Mails!IDs
<1> QED BY <1>1, <1>2, <1>3 DEF Timely

\* What is told of by the messages that were sent.
LEMMA MailTold ==
  ASSUME Mails!MailAssumption, MailIInv
  PROVE  /\ sent' = Append(sent, Mails!ID) => Mails!Told' = Mails!Told \cup {Mails!ID}
         /\ sent' = sent => Mails!Told' = Mails!Told
         /\ UNCHANGED <<ownIDs, sending, again>> => Mails!ID' = Mails!ID
<1>1. sent \in Seq(Mails!IDs) /\ Mails!ID \in Mails!IDs
  BY MailFacts DEF MailIInv, Mails!MailTypeOK
<1>2. ASSUME sent' = Append(sent, Mails!ID) PROVE Mails!Told' = Mails!Told \cup {Mails!ID}
  <2> DEFINE id == Mails!ID
  <2>1. /\ DOMAIN sent = 1..Len(sent) /\ DOMAIN sent' = 1..(Len(sent) + 1) /\ Len(sent) \in Nat
        /\ \A i \in 1..Len(sent) : sent'[i] = sent[i]
        /\ sent'[Len(sent) + 1] = id
    BY <1>1, <1>2, Appended
  <2> HIDE DEF id
  <2>2. \A x : x \in Mails!Told' <=> \E k \in 1..(Len(sent) + 1) : x = sent'[k]
    BY <2>1 DEF Mails!Told
  <2>3. \A x : x \in Mails!Told <=> \E k \in 1..Len(sent) : x = sent[k]
    BY <2>1 DEF Mails!Told
  <2>4. \A x : x \in Mails!Told' <=> x \in Mails!Told \cup {id}
    BY <2>1, <2>2, <2>3
  <2> QED BY <2>4 DEF id
<1>3. ASSUME sent' = sent PROVE Mails!Told' = Mails!Told
  BY <1>3 DEF Mails!Told
<1>4. ASSUME UNCHANGED <<ownIDs, sending, again>> PROVE Mails!ID' = Mails!ID
  BY <1>4 DEF Mails!ID, Mails!IDOf
<1> QED BY <1>2, <1>3, <1>4

\* How a call moves on.
MailSends == step \in {"publishing", "verifying"} /\ Mails!Sent /\ again' = again
MailVerifies ==
  /\ step = "publishing" /\ guaranteed /\ step' = "verifying"
  /\ UNCHANGED <<sending, sent, result, again>>
MailReturns(outcome) ==
  step \in {"publishing", "verifying"} /\ Mails!Return(outcome) /\ again' = again
MailAgain ==
  /\ step = "returned" /\ result \in {"failed", "unverified", "dropped"} /\ again < MaxAgain
  /\ again' = again + 1 /\ step' = "publishing" /\ result' = "" /\ UNCHANGED <<sending, sent>>
MailCrashes ==
  step \in {"publishing", "verifying"} /\ step' = "crashed" /\ UNCHANGED <<sending, again, result, sent>>
MailStays == UNCHANGED <<sending, again, step, result, sent>>
SettingSame == UNCHANGED <<medium, messages, within, guaranteed, ownIDs>>

LEMMA MailMoves ==
  ASSUME Mails!MailNext
  PROVE  /\ SettingSame
         /\ \/ MailSends \/ MailVerifies \/ MailAgain \/ MailCrashes \/ MailStays
            \/ \E outcome \in {"refused", "failed", "unverified", "dropped"} : MailReturns(outcome)
<1> USE DEF Mails!setting, SettingSame
<1>1. CASE Mails!Refuse
  BY <1>1 DEF Mails!Refuse, MailReturns
<1>2. CASE Mails!Insert \/ Mails!Swallow \/ Mails!InsertAlone
  BY <1>2 DEF Mails!Insert, Mails!Swallow, Mails!InsertAlone, Mails!Accepted, Mails!Published, MailSends,
      MailVerifies
<1>3. CASE Mails!Abort \/ Mails!FailAlone
  BY <1>3 DEF Mails!Abort, Mails!FailAlone, Mails!Accepted, MailReturns
<1>4. CASE Mails!Verify
  BY <1>4 DEF Mails!Verify, MailSends, MailReturns
<1>5. CASE Mails!VerifyFails
  BY <1>5 DEF Mails!VerifyFails, MailReturns
<1>6. CASE Mails!CallAgain
  BY <1>6 DEF Mails!CallAgain, MailAgain
<1>7. CASE Mails!Crash
  BY <1>7 DEF Mails!Crash, MailCrashes
<1>8. CASE Mails!Commit \/ Mails!RollBack \/ Mails!Ship \/ Mails!DeleteBatch
  BY <1>8 DEF Mails!Commit, Mails!RollBack, Mails!Ship, Mails!DeleteBatch, MailStays
<1> QED BY <1>1, <1>2, <1>3, <1>4, <1>5, <1>6, <1>7, <1>8 DEF Mails!MailNext

LEMMA MailTypedStep ==
  ASSUME Mails!MailAssumption, MailIInv, Mails!MailNext
  PROVE  Mails!MailTypeOK' /\ MailTyped'
<1>1. /\ sending \in 1..Len(messages) /\ DOMAIN messages = 1..Len(messages)
      /\ Len(messages) \in Nat /\ MaxAgain \in Nat /\ MaxStumbles \in Nat
      /\ again \in 0..MaxAgain /\ Mails!ID \in Mails!IDs
  BY MailFacts
<1>2. /\ SettingSame
      /\ \/ MailSends \/ MailVerifies \/ MailAgain \/ MailCrashes \/ MailStays
         \/ \E outcome \in {"refused", "failed", "unverified", "dropped"} : MailReturns(outcome)
  BY MailMoves
<1>3. Mails!MailTypeOK /\ MailTyped
  BY DEF MailIInv
<1>4. MailTyped' /\ messages' = messages
  BY <1>2, <1>3 DEF MailTyped, SettingSame
<1>5. sending' \in 1..Len(messages)
  <2>1. ASSUME MailSends PROVE sending' \in 1..Len(messages)
    <3>1. sending' = sending \/ (sending # Len(messages) /\ sending' = sending + 1)
      BY <2>1 DEF MailSends, Mails!Sent
    <3>2. sending # Len(messages) => sending + 1 \in 1..Len(messages)
      BY <1>1, Counting
    <3> QED BY <1>1, <3>1, <3>2
  <2>2. ASSUME ~MailSends PROVE sending' = sending
    BY <1>2, <2>2 DEF MailVerifies, MailReturns, MailAgain, MailCrashes, MailStays, Mails!Return
  <2> QED BY <1>1, <2>1, <2>2
<1>6. again' \in 0..MaxAgain
  <2>1. ASSUME MailAgain PROVE again' \in 0..MaxAgain
    <3>1. again < MaxAgain /\ again' = again + 1
      BY <2>1 DEF MailAgain
    <3>2. again + 1 \in 0..MaxAgain
      BY <1>1, <3>1, Counting
    <3> QED BY <3>1, <3>2
  <2>2. ASSUME ~MailAgain PROVE again' = again
    BY <1>2, <2>2 DEF MailVerifies, MailReturns, MailSends, MailCrashes, MailStays, Mails!Return
  <2> QED BY <1>1, <2>1, <2>2
<1>7. /\ step' \in {"publishing", "verifying", "returned", "crashed"}
      /\ result' \in {"", "ok", "refused", "failed", "unverified", "dropped"}
  <2>1. /\ step \in {"publishing", "verifying", "returned", "crashed"}
        /\ result \in {"", "ok", "refused", "failed", "unverified", "dropped"}
    BY <1>3 DEF Mails!MailTypeOK
  <2> QED BY <1>2, <2>1 DEF MailSends, MailVerifies, MailReturns, MailAgain, MailCrashes, MailStays,
      Mails!Sent, Mails!Return
<1>8. sent' \in Seq(Mails!IDs)
  <2>1. sent \in Seq(Mails!IDs)
    BY <1>3 DEF Mails!MailTypeOK
  <2>2. Append(sent, Mails!ID) \in Seq(Mails!IDs)
    BY <1>1, <2>1, Appended
  <2>3. sent' = sent \/ sent' = Append(sent, Mails!ID)
    BY <1>2 DEF MailSends, MailVerifies, MailReturns, MailAgain, MailCrashes, MailStays, Mails!Sent,
        Mails!Return
  <2> QED BY <2>1, <2>2, <2>3
<1>9. tx' \in {"open", "aborted", "committed", "rolled back"} /\ stumbles' \in 0..MaxStumbles
  <2>1. tx \in {"open", "aborted", "committed", "rolled back"} /\ stumbles \in 0..MaxStumbles
    BY <1>3 DEF Mails!MailTypeOK
  <2>2. stumbles' = stumbles \/ (stumbles > 0 /\ stumbles' = stumbles - 1)
    BY DEF Mails!MailNext, Mails!Stumble, Mails!Refuse, Mails!Insert, Mails!Swallow,
           Mails!Abort, Mails!InsertAlone, Mails!FailAlone, Mails!Verify, Mails!VerifyFails, Mails!CallAgain,
           Mails!Commit, Mails!RollBack, Mails!Crash, Mails!Ship, Mails!DeleteBatch
  <2>3. tx' \in {tx, "open", "aborted", "committed", "rolled back"}
    BY DEF Mails!MailNext, Mails!Refuse, Mails!Insert, Mails!Swallow,
           Mails!Abort, Mails!InsertAlone, Mails!FailAlone, Mails!Verify, Mails!VerifyFails, Mails!CallAgain,
           Mails!Commit, Mails!RollBack, Mails!Crash, Mails!Ship, Mails!DeleteBatch
  <2>4. stumbles > 0 => stumbles - 1 \in 0..MaxStumbles
    BY <1>1, <2>1, Counting
  <2> QED BY <2>1, <2>2, <2>3, <2>4
<1>10. /\ written' \subseteq Mails!IDs /\ pending' \subseteq Mails!IDs
       /\ mailed' \subseteq Mails!IDs /\ skipped' \subseteq Mails!IDs
  <2>1. /\ written \subseteq Mails!IDs /\ pending \subseteq Mails!IDs
        /\ mailed \subseteq Mails!IDs /\ skipped \subseteq Mails!IDs
    BY <1>3 DEF Mails!MailTypeOK
  <2>2. /\ written' \subseteq written \cup {Mails!ID} /\ pending' \subseteq pending \cup written \cup {Mails!ID}
        /\ mailed' \subseteq mailed \cup pending /\ skipped' \subseteq skipped \cup {Mails!ID}
    BY DEF Mails!MailNext, Mails!Refuse, Mails!Insert, Mails!Swallow,
           Mails!Abort, Mails!InsertAlone, Mails!FailAlone, Mails!Verify, Mails!VerifyFails, Mails!CallAgain,
           Mails!Commit, Mails!RollBack, Mails!Crash, Mails!Ship, Mails!DeleteBatch
  <2> QED BY <1>1, <2>1, <2>2
<1>11. /\ medium' \in {"mail", "notification"}
       /\ within' \in BOOLEAN /\ guaranteed' \in BOOLEAN /\ ownIDs' \in BOOLEAN
  BY <1>2, <1>3 DEF SettingSame, Mails!MailTypeOK
<1>12. sending' \in DOMAIN messages'
  BY <1>1, <1>4, <1>5
<1> QED BY <1>4, <1>6, <1>7, <1>8, <1>9, <1>10, <1>11, <1>12 DEF Mails!MailTypeOK

LEMMA ProgressStep ==
  ASSUME Mails!MailAssumption, MailIInv, Mails!MailNext
  PROVE  ProgressTyped'
<1>1. sending \in Nat /\ Mails!ID \in Mails!IDs /\ Mails!ID[1] = sending
  BY MailFacts
<1>2. \/ MailSends \/ MailVerifies \/ MailAgain \/ MailCrashes \/ MailStays
      \/ \E outcome \in {"refused", "failed", "unverified", "dropped"} : MailReturns(outcome)
  BY MailMoves
<1>3. /\ step = "returned" <=> result # ""
      /\ Len(sent) = IF result = "ok" THEN sending ELSE sending - 1
      /\ \A k \in DOMAIN sent : sent[k][1] = k
  BY DEF MailIInv, ProgressTyped
<1>4. sent \in Seq(Mails!IDs)
  BY DEF MailIInv, Mails!MailTypeOK
<1>5. Len(sent) \in Nat /\ DOMAIN sent = 1..Len(sent)
  BY <1>4, Lengths
<1>6. CASE MailSends
  <2>1. /\ Len(sent') = Len(sent) + 1 /\ DOMAIN sent' = 1..(Len(sent) + 1)
        /\ \A i \in 1..Len(sent) : sent'[i] = sent[i]
        /\ sent'[Len(sent) + 1] = Mails!ID
    BY <1>1, <1>4, <1>6, Appended DEF MailSends, Mails!Sent
  <2>2. result = ""
    BY <1>3, <1>6 DEF MailSends
  <2>3. Len(sent) = sending - 1
    BY <1>3, <2>2
  <2>4. Len(sent) + 1 = sending
    BY <1>1, <2>3
  <2>5. \A k \in DOMAIN sent' : sent'[k][1] = k
    <3>1. \A k \in 1..Len(sent) : sent'[k][1] = k
      BY <1>3, <1>5, <2>1
    <3>2. sent'[Len(sent) + 1][1] = Len(sent) + 1
      BY <1>1, <2>1, <2>4
    <3> QED BY <1>5, <2>1, <3>1, <3>2
  <2>6. step' = "returned" <=> result' # ""
    BY <1>6, <2>2 DEF MailSends, Mails!Sent
  <2>7. (result' = "ok" /\ sending' = sending) \/ (result' = "" /\ sending' = sending + 1)
    BY <1>6, <2>2 DEF MailSends, Mails!Sent
  <2>8. Len(sent') = IF result' = "ok" THEN sending' ELSE sending' - 1
    <3>1. Len(sent') = sending
      BY <2>1, <2>4
    <3>2. CASE result' = "ok"
      BY <2>7, <3>1, <3>2
    <3>3. CASE result' # "ok"
      <4>1. sending' = sending + 1
        BY <2>7, <3>3
      <4>2. (sending + 1) - 1 = sending
        BY <1>1
      <4> QED BY <3>1, <3>3, <4>1, <4>2
    <3> QED BY <3>2, <3>3
  <2> QED BY <2>5, <2>6, <2>8 DEF ProgressTyped
<1>7. CASE ~MailSends
  <2>1. sent' = sent /\ sending' = sending
    BY <1>2, <1>7 DEF MailVerifies, MailReturns, MailAgain, MailCrashes, MailStays, Mails!Return
  <2>2. (step' = "returned" <=> result' # "") /\ (result' = "ok" <=> result = "ok")
    BY <1>2, <1>3, <1>7 DEF MailVerifies, MailReturns, MailAgain, MailCrashes, MailStays, Mails!Return
  <2> QED BY <1>3, <2>1, <2>2 DEF ProgressTyped
<1> QED BY <1>6, <1>7

LEMMA PositionStep ==
  ASSUME Mails!MailAssumption, MailIInv, Mails!MailNext
  PROVE  Position'
<1>1. /\ Position /\ step \in {"publishing", "verifying", "returned", "crashed"}
      /\ tx \in {"open", "aborted", "committed", "rolled back"}
  BY DEF MailIInv, Mails!MailTypeOK
<1>2. within' = within /\ guaranteed' = guaranteed
  BY MailMoves DEF SettingSame
<1> USE DEF Position
<1>3. CASE Mails!Refuse \/ Mails!Abort
  BY <1>1, <1>2, <1>3 DEF Mails!Refuse, Mails!Abort, Mails!Return
<1>4. CASE Mails!Insert \/ Mails!Swallow
  BY <1>1, <1>2, <1>4 DEF Mails!Insert, Mails!Swallow, Mails!Published, Mails!Sent
<1>5. CASE Mails!InsertAlone \/ Mails!FailAlone
  BY <1>1, <1>2, <1>5 DEF Mails!InsertAlone, Mails!FailAlone, Mails!Return, Mails!Published, Mails!Sent
<1>6. CASE Mails!Verify \/ Mails!VerifyFails
  BY <1>1, <1>2, <1>6 DEF Mails!Verify, Mails!VerifyFails, Mails!Return, Mails!Sent
<1>7. CASE Mails!CallAgain \/ Mails!Crash
  BY <1>1, <1>2, <1>7 DEF Mails!CallAgain, Mails!Crash
<1>8. CASE Mails!Commit \/ Mails!RollBack \/ Mails!Ship \/ Mails!DeleteBatch
  BY <1>1, <1>2, <1>8 DEF Mails!Commit, Mails!RollBack, Mails!Ship, Mails!DeleteBatch
<1> QED BY <1>3, <1>4, <1>5, <1>6, <1>7, <1>8 DEF Mails!MailNext

LEMMA TimelyStep ==
  ASSUME Mails!MailAssumption, MailIInv, Mails!MailNext
  PROVE  AllTimely'
<1>1. /\ again \in 0..MaxAgain /\ Timely(Mails!ID) /\ MaxAgain \in Nat
  BY MailFacts
<1>2. again' \in Nat /\ again <= again' /\ ownIDs' = ownIDs
  <2>1. ownIDs' = ownIDs /\ (again' = again \/ again' = again + 1)
    BY MailMoves DEF SettingSame, MailSends, MailVerifies, MailReturns, MailAgain, MailCrashes, MailStays
  <2> QED BY <1>1, <2>1
<1>3. MailIDs' \subseteq MailIDs \cup {Mails!ID}
  <2>1. Mails!Told' \subseteq Mails!Told \cup {Mails!ID}
    <3>1. sent' = sent \/ sent' = Append(sent, Mails!ID)
      BY MailMoves DEF MailSends, MailVerifies, MailReturns, MailAgain, MailCrashes, MailStays, Mails!Sent,
          Mails!Return
    <3> QED BY <3>1, MailTold
  <2>2. /\ written' \subseteq written \cup {Mails!ID} /\ pending' \subseteq pending \cup written \cup {Mails!ID}
        /\ mailed' \subseteq mailed \cup pending /\ skipped' \subseteq skipped \cup {Mails!ID}
    BY DEF Mails!MailNext, Mails!Refuse, Mails!Insert, Mails!Swallow,
           Mails!Abort, Mails!InsertAlone, Mails!FailAlone, Mails!Verify, Mails!VerifyFails, Mails!CallAgain,
           Mails!Commit, Mails!RollBack, Mails!Crash, Mails!Ship, Mails!DeleteBatch
  <2> QED BY <2>1, <2>2 DEF MailIDs
<1>4. \A id \in MailIDs \cup {Mails!ID} : id[2] \in Nat /\ Timely(id)
  <2>1. MailIDs \subseteq Mails!IDs
    <3>1. sent \in Seq(Mails!IDs)
      BY DEF MailIInv, Mails!MailTypeOK
    <3>2. \A k \in DOMAIN sent : sent[k] \in Mails!IDs
      BY <3>1
    <3>3. Mails!Told \subseteq Mails!IDs
      BY <3>2 DEF Mails!Told
    <3> QED BY <3>3 DEF MailIInv, Mails!MailTypeOK, MailIDs
  <2>2. Mails!ID \in Mails!IDs /\ \A id \in Mails!IDs : id[2] \in Nat
    BY MailFacts DEF Mails!IDs
  <2>3. \A id \in MailIDs : Timely(id)
    BY DEF MailIInv, AllTimely
  <2> QED BY <1>1, <2>1, <2>2, <2>3
<1>5. \A id : id[2] \in Nat /\ Timely(id) => Timely(id)'
  BY <1>1, <1>2 DEF Timely
<1> QED BY <1>3, <1>4, <1>5 DEF AllTimely

\* Where the messages are, unfolded.
LEMMA FateFacts ==
  ASSUME Mails!MailAssumption, MailIInv, Mails!MailNext
  PROVE  /\ MailFates /\ Position /\ (step = "returned" <=> result # "")
         /\ step \in {"publishing", "verifying", "returned", "crashed"}
         /\ tx \in {"open", "aborted", "committed", "rolled back"}
         /\ within' = within /\ guaranteed' = guaranteed /\ ownIDs' = ownIDs
         /\ sent' = Append(sent, Mails!ID) => Mails!Told' = Mails!Told \cup {Mails!ID}
         /\ sent' = sent => Mails!Told' = Mails!Told
         /\ UNCHANGED <<sending, again>> => Mails!ID' = Mails!ID
<1>1. within' = within /\ guaranteed' = guaranteed /\ ownIDs' = ownIDs
  BY MailMoves DEF SettingSame
<1>2. /\ MailFates /\ Position /\ (step = "returned" <=> result # "")
      /\ step \in {"publishing", "verifying", "returned", "crashed"}
      /\ tx \in {"open", "aborted", "committed", "rolled back"}
  BY DEF MailIInv, Mails!MailTypeOK, ProgressTyped
<1> QED BY <1>1, <1>2, MailTold

LEMMA FatesStep ==
  ASSUME Mails!MailAssumption, MailIInv, Mails!MailNext
  PROVE  MailFates'
<1>1. /\ MailFates /\ Position /\ (step = "returned" <=> result # "")
      /\ step \in {"publishing", "verifying", "returned", "crashed"}
      /\ tx \in {"open", "aborted", "committed", "rolled back"}
      /\ within' = within /\ guaranteed' = guaranteed /\ ownIDs' = ownIDs
      /\ sent' = Append(sent, Mails!ID) => Mails!Told' = Mails!Told \cup {Mails!ID}
      /\ sent' = sent => Mails!Told' = Mails!Told
      /\ UNCHANGED <<sending, again>> => Mails!ID' = Mails!ID
  BY FateFacts
<1> USE DEF MailFates, Mails!Unsent, FateOpen, FateCommitted, FateAlone, FateVerified, FateDropped,
    Mails!DroppedOrShipped, Mails!Kept, Lost, AtHand, Position
<1>2. CASE Mails!Refuse
  BY <1>1, <1>2 DEF Mails!Refuse, Mails!Return
<1>3. CASE Mails!Insert
  BY <1>1, <1>3 DEF Mails!Insert, Mails!Published, Mails!Sent, Mails!Accepted
<1>4. CASE Mails!Swallow
  BY <1>1, <1>4 DEF Mails!Swallow, Mails!Published, Mails!Sent, Mails!Accepted
<1>5. CASE Mails!Abort
  BY <1>1, <1>5 DEF Mails!Abort, Mails!Return, Mails!Accepted
<1>6. CASE Mails!InsertAlone
  BY <1>1, <1>6 DEF Mails!InsertAlone, Mails!Published, Mails!Sent, Mails!Accepted
<1>7. CASE Mails!FailAlone
  BY <1>1, <1>7 DEF Mails!FailAlone, Mails!Return, Mails!Accepted
<1>8. CASE Mails!Verify
  <2>1. /\ step = "verifying" /\ UNCHANGED <<again, tx, written, pending, mailed, skipped>>
        /\ Mails!ID \in written \cup pending => Mails!Sent
        /\ Mails!ID \notin written \cup pending => Mails!Return("dropped")
    BY <1>8 DEF Mails!Verify
  <2>2. CASE Mails!ID \in written \cup pending
    <3>1. Mails!Told' = Mails!Told \cup {Mails!ID} /\ result' # "dropped" /\ step' # "verifying"
      BY <1>1, <2>1, <2>2 DEF Mails!Sent
    <3>2. CASE within
      BY <1>1, <2>1, <2>2, <3>1, <3>2
    <3>3. CASE ~within
      BY <1>1, <2>1, <2>2, <3>1, <3>3
    <3> QED BY <3>2, <3>3
  <2>3. CASE Mails!ID \notin written \cup pending
    <3>1. step' = "returned" /\ result' = "dropped" /\ UNCHANGED <<sending, sent>>
      BY <2>1, <2>3 DEF Mails!Return
    <3>2. Mails!Told' = Mails!Told /\ Mails!ID' = Mails!ID
      BY <1>1, <2>1, <3>1
    <3>3. CASE within
      BY <1>1, <2>1, <2>3, <3>1, <3>2, <3>3
    <3>4. CASE ~within
      BY <1>1, <2>1, <2>3, <3>1, <3>2, <3>4
    <3> QED BY <3>3, <3>4
  <2> QED BY <2>2, <2>3
<1>9. CASE Mails!VerifyFails
  <2>1. /\ step = "verifying" /\ step' = "returned" /\ result' = "unverified"
        /\ (within => tx' = "aborted") /\ (~within => tx' = tx)
        /\ UNCHANGED <<sending, sent, again, written, pending, mailed, skipped>>
    BY <1>9 DEF Mails!VerifyFails, Mails!Return
  <2>2. Mails!Told' = Mails!Told /\ Mails!ID' = Mails!ID
    BY <1>1, <2>1
  <2>3. CASE within
    BY <1>1, <2>1, <2>2, <2>3
  <2>4. CASE ~within
    BY <1>1, <2>1, <2>2, <2>4
  <2> QED BY <2>3, <2>4
<1>10. CASE Mails!CallAgain
  <2>1. /\ step' = "publishing" /\ result' = "" /\ again' = again + 1
        /\ UNCHANGED <<sending, sent, tx, written, pending, mailed, skipped>>
    BY <1>10 DEF Mails!CallAgain
  <2>2. Mails!Told' = Mails!Told /\ Mails!Kept' = Mails!Kept
    BY <1>1, <2>1
  <2>3. again' # 0
    <3>1. again \in Nat /\ \A n \in Nat : n + 1 # 0
      BY MailFacts
    <3> QED BY <2>1, <3>1
  <2>4. Mails!Unsent' /\ FateAlone' /\ FateVerified' /\ FateDropped' /\ Mails!DroppedOrShipped'
    BY <1>1, <2>1, <2>2, <2>3
  <2>5. FateOpen' /\ FateCommitted'
    BY <1>1, <1>10, <2>1, <2>2 DEF Mails!CallAgain
  <2> QED BY <2>4, <2>5
<1>11. CASE Mails!Commit
  <2>1. /\ step = "returned" /\ within /\ tx = "open"
        /\ tx' = "committed" /\ pending' = pending \cup written /\ written' = {}
        /\ UNCHANGED <<sending, again, step, result, sent, mailed, skipped>>
    BY <1>11 DEF Mails!Commit
  <2>2. Mails!Told' = Mails!Told /\ Mails!ID' = Mails!ID
    BY <1>1, <2>1
  <2>3. Mails!Kept = {} /\ Mails!Kept' = written
    BY <1>1, <2>1
  <2>4. Mails!Told \subseteq written \cup Lost /\ written \subseteq Mails!Told /\ Lost' = Lost
    BY <1>1, <2>1
  <2>5. Mails!Unsent' /\ FateOpen' /\ FateAlone' /\ FateVerified'
    BY <1>1, <2>1
  <2>6. FateCommitted'
    BY <2>2, <2>3, <2>4
  <2>7. FateDropped' /\ Mails!DroppedOrShipped'
    BY <1>1, <2>1, <2>2, <2>3
  <2> QED BY <2>5, <2>6, <2>7
<1>12. CASE Mails!RollBack
  BY <1>1, <1>12 DEF Mails!RollBack
<1>13. CASE Mails!Crash
  BY <1>1, <1>13 DEF Mails!Crash
<1>14. CASE Mails!Ship
  BY <1>1, <1>14 DEF Mails!Ship
<1>15. CASE Mails!DeleteBatch
  BY <1>1, <1>15 DEF Mails!DeleteBatch
<1> QED BY <1>2, <1>3, <1>4, <1>5, <1>6, <1>7, <1>8, <1>9, <1>10, <1>11, <1>12, <1>13, <1>14,
    <1>15 DEF Mails!MailNext

LEMMA MailInitInv == Mails!MailAssumption /\ Mails!MailInit => MailIInv
<1> SUFFICES ASSUME Mails!MailAssumption, Mails!MailInit PROVE MailIInv
  OBVIOUS
<1>1. MaxMessages \in Nat \ {0} /\ MaxAgain \in Nat /\ MaxStumbles \in Nat
  BY DEF Mails!MailAssumption
<1>2. PICK n \in 1..MaxMessages : messages \in [1..n -> Mails!Kinds]
  BY DEF Mails!MailInit
<1>3. messages \in Seq(Mails!Kinds) /\ Len(messages) = n /\ DOMAIN messages = 1..n
  BY <1>1, <1>2
<1>4. /\ sending = 1 /\ again = 0 /\ step = "publishing" /\ result = "" /\ sent = <<>>
      /\ tx = "open" /\ written = {} /\ pending = {} /\ mailed = {} /\ skipped = {}
  BY DEF Mails!MailInit
<1>5. MailTyped
  BY <1>2, <1>3 DEF MailTyped
<1>6. sent \in Seq(Mails!IDs) /\ Len(sent) = 0 /\ DOMAIN sent = {}
  BY <1>4, Emptiness
<1>7. Mails!MailTypeOK
  <2>1. 1 \in 1..n /\ 0 \in 0..MaxAgain /\ MaxStumbles \in 0..MaxStumbles
    BY <1>1
  <2>2. /\ medium \in {"mail", "notification"} /\ stumbles = MaxStumbles
        /\ within \in BOOLEAN /\ guaranteed \in BOOLEAN /\ ownIDs \in BOOLEAN
    BY DEF Mails!MailInit
  <2>3. sending \in DOMAIN messages /\ again \in 0..MaxAgain /\ stumbles \in 0..MaxStumbles
    BY <1>3, <1>4, <2>1, <2>2
  <2> QED BY <1>4, <1>6, <2>2, <2>3 DEF Mails!MailTypeOK
<1>8. ProgressTyped /\ Position
  <2>1. 1 - 1 = 0
    OBVIOUS
  <2>2. Len(sent) = sending - 1
    BY <1>4, <1>6, <2>1
  <2>3. \A k \in DOMAIN sent : sent[k][1] = k
    BY <1>6
  <2> QED BY <1>4, <2>2, <2>3 DEF ProgressTyped, Position
<1>9. Mails!Told = {}
  BY <1>6 DEF Mails!Told
<1>10. AllTimely /\ MailFates
  BY <1>4, <1>9 DEF AllTimely, MailIDs, MailFates, Mails!Unsent, FateOpen, FateCommitted, FateAlone,
    FateVerified, FateDropped, Mails!DroppedOrShipped, Mails!Kept
<1> QED BY <1>5, <1>7, <1>8, <1>10 DEF MailIInv

LEMMA MailNextInv ==
  ASSUME Mails!MailAssumption, MailIInv, Mails!MailNext
  PROVE  MailIInv'
BY MailTypedStep, ProgressStep, PositionStep, TimelyStep, FatesStep DEF MailIInv

LEMMA MailRests ==
  ASSUME MailIInv, UNCHANGED mailVars
  PROVE  MailIInv'
<1> USE DEF mailVars, MailIInv
<1>1. Mails!MailTypeOK' /\ MailTyped' /\ ProgressTyped' /\ Position'
  BY DEF Mails!MailTypeOK, MailTyped, ProgressTyped, Position
<1>2. Mails!Told' = Mails!Told /\ Mails!ID' = Mails!ID /\ Mails!Kept' = Mails!Kept
  BY DEF Mails!Told, Mails!ID, Mails!IDOf, Mails!Kept
<1>3. AllTimely'
  <2>1. MailIDs' = MailIDs
    BY <1>2 DEF MailIDs
  <2> QED BY <2>1 DEF AllTimely, Timely
<1>4. MailFates'
  BY <1>2 DEF MailFates, Mails!Unsent, FateOpen, FateCommitted, FateAlone, FateVerified,
    FateDropped, Mails!DroppedOrShipped, Lost, AtHand
<1> QED BY <1>1, <1>3, <1>4

\* The invariant says what Mail promises.
LEMMA MailHolds ==
  ASSUME Mails!MailAssumption, MailIInv
  PROVE  Mails!MailSound
<1>1. Mails!PayloadsSound
  BY MailKinds, MailActions DEF Mails!PayloadsSound
<1>2. Mails!MailTypeOK /\ Mails!Unsent /\ Mails!DroppedOrShipped
  BY DEF MailIInv, MailFates
<1>3. /\ FateOpen /\ FateCommitted /\ FateAlone /\ FateVerified /\ Mails!Unsent /\ Position
      /\ again \in 0..MaxAgain /\ MaxAgain \in Nat /\ (step = "returned" <=> result # "")
  BY MailFacts DEF MailIInv, MailFates, ProgressTyped
<1>4. again \in Nat
  BY MailFacts
<1>5. Mails!Delivered
  BY <1>3 DEF Mails!Delivered, FateCommitted, FateAlone, Lost
<1>6. Mails!OnlyTheFailed
  <2> SUFFICES ASSUME NEW id \in Mails!Kept \ Mails!Told, step = "returned"
               PROVE  ~within /\ (again > 0 \/ result \in {"failed", "unverified", "dropped"})
    BY DEF Mails!OnlyTheFailed
  <2>1. ~within
    BY <1>3 DEF Mails!Unsent, FateCommitted
  <2>2. again = 0 => result \in {"failed", "unverified", "dropped"}
    BY <1>3, <2>1 DEF FateAlone, AtHand
  <2>3. again = 0 \/ again > 0
    BY <1>4, Counting
  <2> QED BY <2>1, <2>2, <2>3
<1>7. Mails!TwiceOwed
  <2> SUFFICES ASSUME NEW p \in mailed, NEW q \in mailed, p # q, p[1] = q[1]
               PROVE  ~within /\ ~ownIDs /\ again > 0
    BY DEF Mails!TwiceOwed
  <2>1. /\ p \in Mails!IDs /\ q \in Mails!IDs /\ Timely(p) /\ Timely(q)
        /\ p \in Mails!Kept /\ q \in Mails!Kept
    BY DEF MailIInv, Mails!MailTypeOK, AllTimely, MailIDs, Mails!Kept
  <2>2. p[2] \in Nat /\ q[2] \in Nat /\ p[2] # q[2]
    <3>1. p \in (1..MaxMessages) \X (0..MaxAgain) /\ q \in (1..MaxMessages) \X (0..MaxAgain)
      BY <2>1 DEF Mails!IDs
    <3>2. p[2] \in 0..MaxAgain /\ q[2] \in 0..MaxAgain /\ p[2] # q[2]
      BY <3>1, Pairs
    <3> QED BY <3>2
  <2>3. ~ownIDs
    BY <2>1, <2>2 DEF Timely
  <2>4. again > 0
    <3>1. p[2] <= again /\ q[2] <= again
      BY <2>1 DEF Timely
    <3> QED BY <1>4, <2>2, <3>1, Counting
  <2>5. ASSUME within PROVE FALSE
    <3>1. p \in Mails!Told /\ q \in Mails!Told
      BY <1>3, <2>1, <2>5 DEF Mails!Unsent, FateCommitted
    <3>2. \A k \in DOMAIN sent : sent[k][1] = k
      BY DEF MailIInv, ProgressTyped
    <3>3. PICK k \in DOMAIN sent : p = sent[k]
      BY <3>1 DEF Mails!Told
    <3>4. PICK j \in DOMAIN sent : q = sent[j]
      BY <3>1 DEF Mails!Told
    <3>5. k = j
      BY <3>2, <3>3, <3>4
    <3> QED BY <3>3, <3>4, <3>5
  <2> QED BY <2>3, <2>4, <2>5
<1> QED BY <1>1, <1>2, <1>5, <1>6, <1>7 DEF Mails!MailSound

-----------------------------------------------------------------------------
(* What is asked once (Orders).                                            *)

OrderAsks ==
  Once!Creates \cup Once!Resolves \cup Once!Processes \cup Once!Mailings \cup
  [op : {"status"}, handle : Nat]
OrderReplies ==
  [status : Nat, body : {"none", "whole", "garbled"}, id : Nat, fresh : BOOLEAN]
OrderTold == [kind : {"none", "failed", "done"}, id : Nat, fresh : BOOLEAN]
OrderRecords ==
  [asked : OrderAsks, sent : BOOLEAN, landed : BOOLEAN, reply : OrderReplies, after : SUBSET Nat,
   told : OrderTold]
OrderEffects == [by : Nat, open : BOOLEAN, files : SUBSET Files, tags : SUBSET {"tag"}]

(***************************************************************************)
(* The inductive invariant.  Types; what each client asks; how far a call  *)
(* is, and what its caller heard.                                          *)
(***************************************************************************)
OrdersTyped ==
  /\ orders \in Seq(OrderRecords) /\ Len(orders) <= MaxOrders
  /\ effects \in Seq(OrderEffects)
  /\ user.client \in {"tasks", "rcproc", "mailer"}

\* A client asks for its own kind of things, and how far a file is only with a handle.
Asks(i) ==
  LET r == orders[i].asked IN
  /\ user.client = "tasks" => r.op \in {"create", "resolve"}
  /\ user.client = "rcproc" => r.op \in {"process", "sync", "status"}
  /\ user.client = "mailer" => r.op = "mail"
  /\ orders[i].sent /\ r.op = "create" => Once!AssigneeGiven(r)
  /\ r.op = "status" => r.handle \in DOMAIN effects

\* What a caller that has no error heard is what its client read of the answer.
HeardOf(i) ==
  LET reply == orders[i].reply
      told == orders[i].told
  IN /\ user.client = "tasks" =>
          reply.status = 200 /\ told.id = reply.id /\ told.fresh = reply.fresh
     /\ user.client = "rcproc" =>
          /\ Once!Decoded(reply) /\ told.fresh = reply.fresh
          /\ orders[i].asked.op # "sync" => told.id = reply.id
     /\ user.client = "mailer" => reply.status < 300 /\ told.id = reply.id

Progress(i) ==
  /\ ~orders[i].sent => Once!HasFailed(i)
  /\ orders[i].landed => orders[i].sent
  /\ Once!IsDone(i) => orders[i].landed /\ HeardOf(i)
  /\ \A j \in orders[i].after : j \in DOMAIN orders /\ orders[j].told.kind # "none"

\* What was done was done for a call that landed, once, and as it was asked.
Owned(e) ==
  LET i == effects[e].by IN
  /\ i \in DOMAIN orders /\ orders[i].landed
  /\ \A d \in DOMAIN effects : effects[d].by = i => d = e
  /\ orders[i].asked.op \notin {"resolve", "status"}
  /\ user.client = "mailer" => effects[e].files = Once!Attached(orders[i].asked.files)
  /\ user.client = "tasks" /\ ~Once!HasFailed(i) =>
       orders[i].reply.status = 200 /\ orders[i].reply.id = e /\ orders[i].reply.fresh

\* An answer somebody may still read says what was done: the call's own work, a task of its
\* key, what was read of its file.
OwnReply(i) ==
  LET id == orders[i].reply.id IN id \in DOMAIN effects /\ effects[id].by = i
KeyReply(i) ==
  LET id == orders[i].reply.id IN
  id \in DOMAIN effects /\ orders[effects[id].by].asked.key = orders[i].asked.key
FileReply(i) ==
  LET handle == orders[i].asked.handle
      reply == orders[i].reply
  IN reply.id = handle /\ (reply.fresh => ~effects[handle].open)
Served(i) == \E e \in DOMAIN effects : effects[e].by = i

ReplyTrue(i) ==
  LET r == orders[i].asked
      reply == orders[i].reply
      smtp == Once!SenderOf(user.config) = "smtp"
  IN /\ r.op = "create" /\ reply.status = 200 => KeyReply(i) /\ (reply.fresh => OwnReply(i))
     /\ r.op = "resolve" /\ reply.id # 0 => KeyReply(i)
     /\ r.op \in {"process", "sync"} /\ Once!Decoded(reply) => OwnReply(i)
     /\ r.op = "status" /\ Once!Decoded(reply) => FileReply(i)
     /\ r.op = "mail" /\ reply.status < 300 =>
          /\ Served(i) /\ (OwnReply(i) \/ reply.id = 0)
          /\ smtp => reply.id = 0
          /\ reply.id = 0 => smtp \/ reply.body = "garbled"

\* A task of a key is opened only while none is open, and closed by a resolution, which
\* finds what was opened for those that had returned before it was asked.
OneOpen ==
  user.client = "tasks" => \A d, e \in DOMAIN effects :
    effects[d].open /\ effects[e].open
      /\ orders[effects[d].by].asked.key = orders[effects[e].by].asked.key => d = e
Resolved(r) ==
  user.client = "tasks" /\ orders[r].landed /\ orders[r].asked.op = "resolve" =>
    \A e \in DOMAIN effects :
      LET i == effects[e].by IN
      i \in orders[r].after /\ Once!IsDone(i) /\ orders[i].asked.key = orders[r].asked.key
        => ~effects[e].open

\* A file or a mail is asked for again only after an error.
AskedAgain(i) ==
  orders[i].asked.op \in {"process", "sync", "mail"} =>
    \A j \in DOMAIN orders : j < i /\ orders[j].asked = orders[i].asked => Once!HasFailed(j)

OrdersIInv ==
  /\ OrdersTyped
  /\ \A i \in DOMAIN orders : Asks(i)
  /\ \A i \in DOMAIN orders : Progress(i)
  /\ \A e \in DOMAIN effects : Owned(e)
  /\ \A i \in DOMAIN orders : orders[i].landed /\ ~Once!HasFailed(i) => ReplyTrue(i)
  /\ OneOpen
  /\ \A r \in DOMAIN orders : Resolved(r)
  /\ \A i \in DOMAIN orders : AskedAgain(i)
  /\ Once!Assigned

-----------------------------------------------------------------------------
LEMMA OrderCounts ==
  \A S : (Once!IsFiniteSet(S) <=> IsFiniteSet(S)) /\ Once!Cardinality(S) = Cardinality(S)
BY DEF Once!IsFiniteSet, IsFiniteSet, Once!Cardinality, Cardinality

LEMMA OrdersInitInv == Once!OrdersAssumption /\ Once!OrdersInit => OrdersIInv
<1> SUFFICES ASSUME Once!OrdersAssumption, Once!OrdersInit PROVE OrdersIInv
  OBVIOUS
<1>1. orders = <<>> /\ effects = <<>> /\ DOMAIN orders = {} /\ DOMAIN effects = {}
  BY DEF Once!OrdersInit
<1>2. user.client \in {"tasks", "rcproc", "mailer"}
  BY DEF Once!OrdersInit
<1>3. OrdersTyped
  <2>1. orders \in Seq(OrderRecords) /\ Len(orders) = 0 /\ effects \in Seq(OrderEffects)
    BY <1>1
  <2>2. MaxOrders \in Nat
    BY DEF Once!OrdersAssumption
  <2>3. Len(orders) <= MaxOrders
    BY <2>1, <2>2
  <2> QED BY <1>2, <2>1, <2>3 DEF OrdersTyped
<1> QED BY <1>1, <1>3 DEF OrdersIInv, OneOpen, Once!Assigned

LEMMA Replaced ==
  ASSUME NEW S, NEW s \in Seq(S), NEW i \in DOMAIN s, NEW e \in S
  PROVE  /\ [s EXCEPT ![i] = e] \in Seq(S) /\ Len([s EXCEPT ![i] = e]) = Len(s)
         /\ DOMAIN [s EXCEPT ![i] = e] = DOMAIN s /\ DOMAIN s = 1..Len(s) /\ Len(s) \in Nat
         /\ [s EXCEPT ![i] = e][i] = e
         /\ \A j \in DOMAIN s : j # i => [s EXCEPT ![i] = e][j] = s[j]
OBVIOUS

\* What the types say.
LEMMA OrderTypes ==
  ASSUME OrdersTyped
  PROVE  /\ DOMAIN orders = 1..Len(orders) /\ Len(orders) \in Nat
         /\ DOMAIN effects = 1..Len(effects) /\ Len(effects) \in Nat
         /\ \A i \in DOMAIN orders : orders[i] \in OrderRecords
         /\ \A e \in DOMAIN effects : effects[e] \in OrderEffects
BY DEF OrdersTyped

\* What was done is not undone, and a closed thing stays closed: a true answer stays true.
LEMMA OrderReplyStays ==
  ASSUME NEW i, ReplyTrue(i), user' = user,
         orders'[i].asked = orders[i].asked, orders'[i].reply = orders[i].reply,
         DOMAIN effects \subseteq DOMAIN effects',
         \A e \in DOMAIN effects :
           /\ effects'[e].by = effects[e].by /\ (effects'[e].open => effects[e].open)
           /\ orders'[effects[e].by].asked = orders[effects[e].by].asked,
         orders[i].asked.op = "status" => orders[i].asked.handle \in DOMAIN effects
  PROVE  ReplyTrue(i)'
<1>1. KeyReply(i) => KeyReply(i)'
  BY DEF KeyReply
<1>2. (OwnReply(i) => OwnReply(i)') /\ (Served(i) => Served(i)')
  BY DEF OwnReply, Served
<1>3. orders[i].asked.op = "status" /\ FileReply(i) => FileReply(i)'
  BY DEF FileReply
<1>4. Once!Decoded(orders'[i].reply) <=> Once!Decoded(orders[i].reply)
  OBVIOUS
<1>5. Once!SenderOf(user.config)' = Once!SenderOf(user.config)
  OBVIOUS
<1> QED BY <1>1, <1>2, <1>3, <1>4, <1>5 DEF ReplyTrue

\* A step that changes what a call's caller was told, and nothing else of it.
ToldStep(i, t) == orders' = [orders EXCEPT ![i].told = t]

LEMMA OrderTells ==
  ASSUME OrdersTyped, NEW i \in DOMAIN orders, NEW t \in OrderTold, ToldStep(i, t)
  PROVE  /\ orders' \in Seq(OrderRecords) /\ Len(orders') = Len(orders)
         /\ DOMAIN orders' = DOMAIN orders
         /\ \A j \in DOMAIN orders :
              /\ orders'[j].asked = orders[j].asked /\ orders'[j].sent = orders[j].sent
              /\ orders'[j].landed = orders[j].landed /\ orders'[j].reply = orders[j].reply
              /\ orders'[j].after = orders[j].after
              /\ j # i => orders'[j].told = orders[j].told
         /\ orders'[i].told = t
<1> DEFINE o == [orders[i] EXCEPT !.told = t]
<1>1. orders[i] \in OrderRecords
  BY OrderTypes
<1>2. /\ o \in OrderRecords /\ o.told = t
      /\ o.asked = orders[i].asked /\ o.sent = orders[i].sent /\ o.landed = orders[i].landed
      /\ o.reply = orders[i].reply /\ o.after = orders[i].after
  BY <1>1 DEF OrderRecords
<1>3. orders' = [orders EXCEPT ![i] = o]
  BY DEF ToldStep
<1>4. orders \in Seq(OrderRecords)
  BY DEF OrdersTyped
<1> HIDE DEF o
<1>5. /\ orders' \in Seq(OrderRecords) /\ Len(orders') = Len(orders) /\ DOMAIN orders' = DOMAIN orders
      /\ orders'[i] = o /\ \A j \in DOMAIN orders : j # i => orders'[j] = orders[j]
  BY <1>2, <1>3, <1>4, Replaced
<1> QED BY <1>2, <1>5

\* A step in which the service does what a call asked.
LandStep(i, x) == orders' = [orders EXCEPT ![i].landed = TRUE, ![i].reply = x]

LEMMA OrderLands ==
  ASSUME OrdersTyped, NEW i \in DOMAIN orders, NEW x \in OrderReplies, LandStep(i, x)
  PROVE  /\ orders' \in Seq(OrderRecords) /\ Len(orders') = Len(orders)
         /\ DOMAIN orders' = DOMAIN orders
         /\ \A j \in DOMAIN orders :
              /\ orders'[j].asked = orders[j].asked /\ orders'[j].sent = orders[j].sent
              /\ orders'[j].told = orders[j].told /\ orders'[j].after = orders[j].after
              /\ j # i => orders'[j].landed = orders[j].landed /\ orders'[j].reply = orders[j].reply
         /\ orders'[i].landed /\ orders'[i].reply = x
<1> DEFINE o == [orders[i] EXCEPT !.landed = TRUE, !.reply = x]
<1>1. orders[i] \in OrderRecords
  BY OrderTypes
<1>2. /\ o \in OrderRecords /\ o.reply = x /\ o.landed
      /\ o.asked = orders[i].asked /\ o.sent = orders[i].sent /\ o.told = orders[i].told
      /\ o.after = orders[i].after
  BY <1>1 DEF OrderRecords
<1>3. orders \in Seq(OrderRecords)
  BY DEF OrdersTyped
<1>4. orders' = [orders EXCEPT ![i] = o]
  BY <1>3 DEF LandStep
<1> HIDE DEF o
<1>5. /\ orders' \in Seq(OrderRecords) /\ Len(orders') = Len(orders) /\ DOMAIN orders' = DOMAIN orders
      /\ orders'[i] = o /\ \A j \in DOMAIN orders : j # i => orders'[j] = orders[j]
  BY <1>2, <1>3, <1>4, Replaced
<1> QED BY <1>2, <1>5

\* A caller is told something.
LEMMA OrderToldKeeps ==
  ASSUME OrdersIInv, NEW i \in DOMAIN orders, NEW t \in OrderTold, ToldStep(i, t),
         UNCHANGED <<user, effects>>, orders[i].told.kind = "none", t.kind # "none",
         t.kind = "done" => orders[i].landed /\ HeardOf(i)'
  PROVE  OrdersIInv'
<1>1. /\ orders' \in Seq(OrderRecords) /\ Len(orders') = Len(orders)
      /\ DOMAIN orders' = DOMAIN orders
      /\ \A j \in DOMAIN orders :
           /\ orders'[j].asked = orders[j].asked /\ orders'[j].sent = orders[j].sent
           /\ orders'[j].landed = orders[j].landed /\ orders'[j].reply = orders[j].reply
           /\ orders'[j].after = orders[j].after
           /\ j # i => orders'[j].told = orders[j].told
      /\ orders'[i].told = t
  BY OrderTells DEF OrdersIInv
<1>2. user' = user /\ effects' = effects
  OBVIOUS
<1>3. OrdersTyped'
  BY <1>1, <1>2 DEF OrdersTyped, OrdersIInv
<1>4. \A j \in DOMAIN orders :
        /\ Once!HasFailed(j) => Once!HasFailed(j)'
        /\ j # i => (Once!HasFailed(j)' => Once!HasFailed(j)) /\ (Once!IsDone(j)' => Once!IsDone(j))
        /\ orders[j].told.kind # "none" => orders'[j].told.kind # "none" /\ j # i
  BY <1>1 DEF Once!HasFailed, Once!IsDone
<1>5. ASSUME NEW j \in DOMAIN orders PROVE Asks(j)'
  BY <1>1, <1>2 DEF OrdersIInv, Asks
<1>6. ASSUME NEW j \in DOMAIN orders PROVE Progress(j)'
  <2>1. Progress(j)
    BY DEF OrdersIInv
  <2>2. \A k \in orders'[j].after : k \in DOMAIN orders' /\ orders'[k].told.kind # "none"
    BY <1>1, <1>4, <2>1 DEF Progress
  <2>3. CASE j = i
    <3>1. ~Once!HasFailed(i)
      BY DEF Once!HasFailed
    <3>2. orders[i].sent
      BY <2>1, <2>3, <3>1 DEF Progress
    <3>3. Once!IsDone(i)' => orders'[i].landed /\ HeardOf(i)'
      BY <1>1 DEF Once!IsDone
    <3> QED BY <1>1, <2>1, <2>2, <2>3, <3>2, <3>3 DEF Progress
  <2>4. CASE j # i
    <3>1. HeardOf(j) => HeardOf(j)'
      BY <1>1, <1>2, <2>4 DEF HeardOf, Once!Decoded
    <3> QED BY <1>1, <1>4, <2>1, <2>2, <2>4, <3>1 DEF Progress
  <2> QED BY <2>3, <2>4
<1>7. ASSUME NEW e \in DOMAIN effects PROVE Owned(e)'
  <2>1. Owned(e)
    BY DEF OrdersIInv
  <2>2. effects[e].by \in DOMAIN orders
    BY <2>1 DEF Owned
  <2>3. ~Once!HasFailed(effects[e].by)' => ~Once!HasFailed(effects[e].by)
    BY <1>4, <2>2
  <2> QED BY <1>1, <1>2, <2>1, <2>2, <2>3 DEF Owned
<1>8. ASSUME NEW j \in DOMAIN orders, orders'[j].landed, ~Once!HasFailed(j)' PROVE ReplyTrue(j)'
  <2>1. ReplyTrue(j)
    BY <1>1, <1>4, <1>8 DEF OrdersIInv
  <2>2. \A e \in DOMAIN effects : effects[e].by \in DOMAIN orders
    BY DEF OrdersIInv, Owned
  <2>3. orders'[j].asked = orders[j].asked /\ orders'[j].reply = orders[j].reply
    BY <1>1
  <2>4. \A e \in DOMAIN effects : orders'[effects[e].by].asked = orders[effects[e].by].asked
    BY <1>1, <2>2
  <2>5. orders[j].asked.op = "status" => orders[j].asked.handle \in DOMAIN effects
    BY DEF OrdersIInv, Asks
  <2> QED BY <1>2, <2>1, <2>3, <2>4, <2>5, OrderReplyStays
<1>9. OneOpen'
  <2>1. \A e \in DOMAIN effects : orders'[effects[e].by].asked = orders[effects[e].by].asked
    BY <1>1 DEF OrdersIInv, Owned
  <2> QED BY <1>2, <2>1 DEF OrdersIInv, OneOpen
<1>10. ASSUME NEW r \in DOMAIN orders PROVE Resolved(r)'
  <2>1. Resolved(r) /\ Progress(r)
    BY DEF OrdersIInv
  <2>2. \A j \in orders[r].after : j \in DOMAIN orders /\ j # i
    BY <1>4, <2>1 DEF Progress
  <2> QED BY <1>1, <1>2, <1>4, <2>1, <2>2 DEF Resolved
<1>11. ASSUME NEW j \in DOMAIN orders PROVE AskedAgain(j)'
  BY <1>1, <1>4 DEF OrdersIInv, AskedAgain
<1>12. Once!Assigned'
  <2> SUFFICES ASSUME NEW j \in DOMAIN orders, orders'[j].asked.op = "create", orders'[j].landed,
                      orders'[j].reply.status = 400
               PROVE  orders'[j].asked.assignee = ""
    BY <1>1 DEF Once!Assigned
  <2>1. orders[j].landed /\ orders'[j].asked = orders[j].asked
    BY <1>1
  <2>2. orders'[j].reply = orders[j].reply
    BY <1>1
  <2>3. orders[j].asked.op = "create"
    BY <2>1
  <2>4. orders[j].reply.status = 400
    BY <2>2
  <2>5. Once!Assigned
    BY DEF OrdersIInv
  <2>6. orders[j].asked.assignee = ""
    BY <2>1, <2>3, <2>4, <2>5, Zenon DEF Once!Assigned
  <2> QED BY <2>1, <2>6
<1> QED
  BY <1>1, <1>2, <1>3, <1>5, <1>6, <1>7, <1>8, <1>9, <1>10, <1>11, <1>12 DEF OrdersIInv

LEMMA OrderFails ==
  ASSUME OrdersIInv, NEW i \in DOMAIN orders, Once!Fail(i)
  PROVE  OrdersIInv'
<1>1. Once!Failed \in OrderTold /\ Once!Failed.kind = "failed"
  BY DEF Once!Failed, Once!Told, OrderTold
<1>2. ToldStep(i, Once!Failed)
  BY DEF Once!Fail, ToldStep
<1> QED BY <1>1, <1>2, OrderToldKeeps DEF Once!Fail

LEMMA OrderAnswers ==
  ASSUME OrdersIInv, NEW i \in DOMAIN orders, Once!Answer(i)
  PROVE  OrdersIInv'
<1> DEFINE r == orders[i].asked
           reply == orders[i].reply
           t == Once!Read(r, reply)
<1>1. orders[i] \in OrderRecords
  BY OrderTypes DEF OrdersIInv
<1>2. reply \in OrderReplies
  BY <1>1 DEF OrderRecords
<1>3. reply.id \in Nat /\ reply.fresh \in BOOLEAN
  BY <1>2 DEF OrderReplies
<1>4. user.client \in {"tasks", "rcproc", "mailer"}
  BY DEF OrdersIInv, OrdersTyped
<1>5. ASSUME user.client = "tasks"
      PROVE  t \in OrderTold /\ t.kind # "none" /\
             (t.kind = "done" => reply.status = 200 /\ t.id = reply.id /\ t.fresh = reply.fresh)
  BY <1>3, <1>5 DEF Once!Read, Once!ReadTask, Once!Told, Once!Failed, OrderTold
<1>6. ASSUME user.client = "rcproc"
      PROVE  t \in OrderTold /\ t.kind # "none" /\
             (t.kind = "done" => /\ Once!Decoded(reply) /\ t.fresh = reply.fresh
                                 /\ r.op # "sync" => t.id = reply.id)
  BY <1>3, <1>6 DEF Once!Read, Once!ReadSync, Once!ReadProcess, Once!Told, Once!Failed, OrderTold
<1>7. ASSUME user.client = "mailer"
      PROVE  t \in OrderTold /\ t.kind # "none" /\
             (t.kind = "done" => reply.status < 300 /\ t.id = reply.id)
  BY <1>3, <1>7 DEF Once!Read, Once!ReadMail, Once!Told, Once!Failed, OrderTold
<1>8. t \in OrderTold /\ t.kind # "none"
  BY <1>4, <1>5, <1>6, <1>7
<1>9. ToldStep(i, t) /\ UNCHANGED <<user, effects>> /\ orders[i].told.kind = "none" /\ orders[i].landed
  BY DEF Once!Answer, ToldStep
<1> HIDE DEF t
<1>10. orders'[i].told = t /\ orders'[i].reply = reply /\ orders'[i].asked = r
  BY <1>8, <1>9, OrderTells DEF OrdersIInv
<1>11. t.kind = "done" => HeardOf(i)'
  BY <1>5, <1>6, <1>7, <1>9, <1>10 DEF HeardOf, Once!Decoded
<1> QED BY <1>8, <1>9, <1>11, OrderToldKeeps

\* The reader is done with a file.
LEMMA OrderFinishes ==
  ASSUME OrdersIInv, NEW e \in DOMAIN effects, Once!Finish(e)
  PROVE  OrdersIInv'
<1> DEFINE f == [effects[e] EXCEPT !.open = FALSE]
<1>1. effects[e] \in OrderEffects /\ effects \in Seq(OrderEffects)
  BY OrderTypes DEF OrdersIInv, OrdersTyped
<1>2. f \in OrderEffects /\ f.by = effects[e].by /\ f.files = effects[e].files /\ ~f.open
  BY <1>1 DEF OrderEffects
<1>3. effects' = [effects EXCEPT ![e] = f] /\ user' = user /\ orders' = orders /\ user.client = "rcproc"
  BY DEF Once!Finish
<1> HIDE DEF f
<1>4. /\ effects' \in Seq(OrderEffects) /\ DOMAIN effects' = DOMAIN effects
      /\ effects'[e] = f /\ \A d \in DOMAIN effects : d # e => effects'[d] = effects[d]
  BY <1>1, <1>2, <1>3, Replaced
<1>5. \A d \in DOMAIN effects :
        /\ effects'[d].by = effects[d].by /\ effects'[d].files = effects[d].files
        /\ effects'[d].open => effects[d].open
  BY <1>2, <1>4
<1>6. \A i : (Once!HasFailed(i)' <=> Once!HasFailed(i)) /\ (Once!IsDone(i)' <=> Once!IsDone(i))
             /\ (HeardOf(i)' <=> HeardOf(i))
  BY <1>3 DEF Once!HasFailed, Once!IsDone, HeardOf, Once!Decoded
<1>7. OrdersTyped'
  BY <1>3, <1>4 DEF OrdersIInv, OrdersTyped
<1>8. \A i \in DOMAIN orders : Asks(i)' /\ Progress(i)' /\ AskedAgain(i)'
  BY <1>3, <1>4, <1>6 DEF OrdersIInv, Asks, Progress, AskedAgain
<1>9. \A d \in DOMAIN effects : Owned(d)'
  BY <1>3, <1>4, <1>5, <1>6 DEF OrdersIInv, Owned
<1>10. ASSUME NEW i \in DOMAIN orders, orders[i].landed, ~Once!HasFailed(i) PROVE ReplyTrue(i)'
  <2>1. ReplyTrue(i) /\ Asks(i)
    BY <1>10 DEF OrdersIInv
  <2>2. orders[i].asked.op = "status" => orders[i].asked.handle \in DOMAIN effects
    BY <2>1 DEF Asks
  <2> QED BY <1>3, <1>4, <1>5, <2>1, <2>2, OrderReplyStays
<1>11. OneOpen' /\ \A r \in DOMAIN orders : Resolved(r)'
  BY <1>3 DEF OneOpen, Resolved
<1>12. Once!Assigned'
  BY <1>3 DEF OrdersIInv, Once!Assigned
<1> QED BY <1>3, <1>4, <1>6, <1>7, <1>8, <1>9, <1>10, <1>11, <1>12 DEF OrdersIInv

\* What a landing does to the effects: it may close some, and add one, of the call.
Grown(i) ==
  /\ effects' \in Seq(OrderEffects) /\ DOMAIN effects \subseteq DOMAIN effects'
  /\ \A e \in DOMAIN effects :
       /\ effects'[e].by = effects[e].by /\ effects'[e].files = effects[e].files
       /\ effects'[e].open => effects[e].open
  /\ \A d, e \in DOMAIN effects' \ DOMAIN effects : d = e

Added(i, e) ==
  /\ effects'[e].by = i
  /\ orders[i].asked.op \notin {"resolve", "status"}
  /\ user.client = "mailer" => effects'[e].files = Once!Attached(orders[i].asked.files)
  /\ user.client = "tasks" =>
       /\ Once!OpenOf(orders[i].asked.key) = {}
       /\ ~Once!HasFailed(i) =>
            orders'[i].reply.status = 200 /\ orders'[i].reply.id = e /\ orders'[i].reply.fresh

LEMMA OrderLandKeeps ==
  ASSUME OrdersIInv, NEW i \in DOMAIN orders, NEW x \in OrderReplies, LandStep(i, x), user' = user,
         orders[i].sent, ~orders[i].landed,
         Grown(i), \A e \in DOMAIN effects' \ DOMAIN effects : Added(i, e),
         Once!HasFailed(i) \/ ReplyTrue(i)',
         user.client = "tasks" /\ orders[i].asked.op = "resolve" =>
           \A e \in DOMAIN effects :
             orders[effects[e].by].asked.key = orders[i].asked.key => ~effects'[e].open,
         orders[i].asked.op = "create" /\ x.status = 400 => orders[i].asked.assignee = ""
  PROVE  OrdersIInv'
<1>1. /\ orders' \in Seq(OrderRecords) /\ Len(orders') = Len(orders)
      /\ DOMAIN orders' = DOMAIN orders
      /\ \A j \in DOMAIN orders :
           /\ orders'[j].asked = orders[j].asked /\ orders'[j].sent = orders[j].sent
           /\ orders'[j].told = orders[j].told /\ orders'[j].after = orders[j].after
           /\ j # i => orders'[j].landed = orders[j].landed /\ orders'[j].reply = orders[j].reply
      /\ orders'[i].landed /\ orders'[i].reply = x
  BY OrderLands DEF OrdersIInv
<1>2. /\ DOMAIN effects \subseteq DOMAIN effects'
      /\ \A e \in DOMAIN effects :
           /\ effects'[e].by = effects[e].by /\ effects'[e].files = effects[e].files
           /\ effects'[e].open => effects[e].open
      /\ \A d, e \in DOMAIN effects' \ DOMAIN effects : d = e
      /\ \A e \in DOMAIN effects' \ DOMAIN effects : Added(i, e)
  BY DEF Grown
<1>3. OrdersTyped'
  BY <1>1 DEF OrdersTyped, OrdersIInv, Grown
<1>4. \A j \in DOMAIN orders :
        (Once!HasFailed(j)' <=> Once!HasFailed(j)) /\ (Once!IsDone(j)' <=> Once!IsDone(j))
  BY <1>1 DEF Once!HasFailed, Once!IsDone
<1>5. \A e \in DOMAIN effects :
        effects[e].by \in DOMAIN orders /\ orders[effects[e].by].landed /\ effects[e].by # i
  <2> TAKE e \in DOMAIN effects
  <2>1. effects[e].by \in DOMAIN orders /\ orders[effects[e].by].landed
    BY DEF OrdersIInv, Owned
  <2> QED BY <2>1
<1>6. \A e \in DOMAIN effects : orders'[effects[e].by].asked = orders[effects[e].by].asked
  BY <1>1, <1>5
<1>7. ~Once!IsDone(i)
  BY DEF OrdersIInv, Progress
<1>8. ASSUME NEW j \in DOMAIN orders PROVE Asks(j)'
  BY ZenonT(60), <1>1, <1>2 DEF OrdersIInv, Asks
<1>9. ASSUME NEW j \in DOMAIN orders PROVE Progress(j)'
  <2>1. Progress(j)
    BY DEF OrdersIInv
  <2>2. \A k \in orders'[j].after : k \in DOMAIN orders' /\ orders'[k].told.kind # "none"
    <3> TAKE k \in orders'[j].after
    <3>1. k \in DOMAIN orders /\ orders[k].told.kind # "none"
      BY <1>1, <2>1 DEF Progress
    <3> QED BY <1>1, <3>1
  <2>3. CASE j = i
    BY <1>1, <1>4, <1>7, <2>1, <2>2, <2>3 DEF Progress
  <2>4. CASE j # i
    <3>1. HeardOf(j) => HeardOf(j)'
      BY ZenonT(60), <1>1, <2>4 DEF HeardOf, Once!Decoded
    <3> QED BY <1>1, <1>4, <2>1, <2>2, <2>4, <3>1 DEF Progress
  <2> QED BY <2>3, <2>4
<1>10. ASSUME NEW e \in DOMAIN effects' PROVE Owned(e)'
  <2>1. CASE e \in DOMAIN effects
    <3>1. Owned(e)
      BY <2>1 DEF OrdersIInv
    <3> DEFINE j == effects[e].by
    <3>2. j \in DOMAIN orders /\ j # i /\ effects'[e].by = j
      BY <1>2, <1>5, <2>1
    <3>3. \A d \in DOMAIN effects' : effects'[d].by = j => d = e
      <4> TAKE d \in DOMAIN effects'
      <4>1. CASE d \in DOMAIN effects
        BY <1>2, <3>1, <4>1 DEF Owned
      <4>2. CASE d \notin DOMAIN effects
        <5>1. effects'[d].by = i
          BY <1>2, <4>2 DEF Added
        <5> QED BY <3>2, <5>1
      <4> QED BY <4>1, <4>2
    <3>4. effects'[e].files = effects[e].files
      BY <1>2, <2>1
    <3>5. orders'[j].asked = orders[j].asked /\ orders'[j].landed /\ orders'[j].reply = orders[j].reply
      BY ZenonT(60), <1>1, <3>1, <3>2 DEF Owned
    <3>6. Once!HasFailed(j)' <=> Once!HasFailed(j)
      BY <1>4, <3>2
    <3>7. j \in DOMAIN orders'
      BY <1>1, <3>2
    <3>8. orders'[j].asked.op \notin {"resolve", "status"}
      BY <3>1, <3>5 DEF Owned
    <3>9. user.client = "mailer" => effects'[e].files = Once!Attached(orders'[j].asked.files)
      BY <3>1, <3>4, <3>5 DEF Owned, Once!Attached
    <3>10. user.client = "tasks" /\ ~Once!HasFailed(j) =>
             orders'[j].reply.status = 200 /\ orders'[j].reply.id = e /\ orders'[j].reply.fresh
      BY <3>1, <3>5 DEF Owned
    <3> QED
      BY ZenonT(60), <3>2, <3>3, <3>5, <3>6, <3>7, <3>8, <3>9, <3>10 DEF Owned, Once!Attached
  <2>2. CASE e \notin DOMAIN effects
    <3>1. Added(i, e)
      BY <1>2, <2>2
    <3>2. \A d \in DOMAIN effects' : effects'[d].by = i => d = e
      <4> TAKE d \in DOMAIN effects'
      <4>1. CASE d \in DOMAIN effects
        <5>1. effects'[d].by = effects[d].by /\ effects[d].by # i
          BY <1>2, <1>5, <4>1
        <5> QED BY <5>1
      <4>2. CASE d \notin DOMAIN effects
        BY <1>2, <2>2, <4>2
      <4> QED BY <4>1, <4>2
    <3> QED BY <1>1, <1>4, <3>1, <3>2 DEF Owned, Added, Once!Attached
  <2> QED BY <2>1, <2>2
<1>11. ASSUME NEW j \in DOMAIN orders, orders'[j].landed, ~Once!HasFailed(j)' PROVE ReplyTrue(j)'
  <2>1. CASE j = i
    BY <1>4, <1>11, <2>1
  <2>2. CASE j # i
    <3>1. ReplyTrue(j) /\ Asks(j)
      BY <1>1, <1>4, <1>11, <2>2 DEF OrdersIInv
    <3>2. orders[j].asked.op = "status" => orders[j].asked.handle \in DOMAIN effects
      BY <3>1 DEF Asks
    <3>3. orders'[j].asked = orders[j].asked /\ orders'[j].reply = orders[j].reply
      BY <1>1, <2>2
    <3> QED BY <1>2, <1>6, <3>1, <3>2, <3>3, OrderReplyStays
  <2> QED BY <2>1, <2>2
<1>12. OneOpen'
  <2> SUFFICES ASSUME user.client = "tasks", NEW d \in DOMAIN effects', NEW e \in DOMAIN effects',
                      effects'[d].open, effects'[e].open,
                      orders'[effects'[d].by].asked.key = orders'[effects'[e].by].asked.key
               PROVE  d = e
    BY DEF OneOpen
  <2>1. CASE d \in DOMAIN effects /\ e \in DOMAIN effects
    <3>1. OneOpen
      BY DEF OrdersIInv
    <3>2. /\ effects'[d].by = effects[d].by /\ effects'[e].by = effects[e].by
          /\ effects[d].open /\ effects[e].open
      BY <1>2, <2>1
    <3>3. orders[effects[d].by].asked.key = orders[effects[e].by].asked.key
      BY <1>6, <2>1, <3>2
    <3> QED BY <2>1, <3>1, <3>2, <3>3 DEF OneOpen
  <2>2. ASSUME NEW a \in DOMAIN effects, NEW b \in DOMAIN effects', b \notin DOMAIN effects,
               effects'[a].open, orders'[effects'[a].by].asked.key = orders'[effects'[b].by].asked.key
        PROVE  FALSE
    <3>1. effects'[b].by = i /\ Once!OpenOf(orders[i].asked.key) = {}
      BY <1>2, <2>2 DEF Added
    <3>2. effects[a].open /\ effects'[a].by = effects[a].by
      BY <1>2, <2>2
    <3>3. orders[effects[a].by].asked.key = orders[i].asked.key
      BY ZenonT(60), <1>1, <1>6, <2>2, <3>1, <3>2
    <3> QED BY <3>1, <3>2, <3>3 DEF Once!OpenOf
  <2>3. CASE d \notin DOMAIN effects /\ e \notin DOMAIN effects
    BY <1>2, <2>3
  <2> QED BY <2>1, <2>2, <2>3
<1>13. ASSUME NEW r \in DOMAIN orders PROVE Resolved(r)'
  <2> SUFFICES ASSUME user.client = "tasks", orders'[r].landed, orders[r].asked.op = "resolve",
                      NEW e \in DOMAIN effects', effects'[e].by \in orders[r].after,
                      orders'[effects'[e].by].told.kind = "done",
                      orders'[effects'[e].by].asked.key = orders'[r].asked.key
               PROVE  ~effects'[e].open
    BY <1>1 DEF Resolved, Once!IsDone
  <2>1. \A j \in orders[r].after : j \in DOMAIN orders
    BY DEF OrdersIInv, Progress
  <2>2. Once!IsDone(effects'[e].by)
    BY <1>1, <2>1 DEF Once!IsDone
  <2>3. e \in DOMAIN effects
    <3>1. effects'[e].by # i
      BY <1>7, <2>2
    <3> QED BY <1>2, <3>1 DEF Added
  <2>4. /\ effects'[e].by = effects[e].by /\ orders[effects[e].by].asked.key = orders[r].asked.key
        /\ effects'[e].open => effects[e].open
    BY ZenonT(60), <1>1, <1>2, <1>6, <2>3
  <2>5. CASE r = i
    BY <2>3, <2>4, <2>5
  <2>6. CASE r # i
    <3>1. orders[r].landed /\ Resolved(r)
      BY <1>1, <2>6 DEF OrdersIInv
    <3> QED BY <2>2, <2>3, <2>4, <3>1 DEF Resolved
  <2> QED BY <2>5, <2>6
<1>14. ASSUME NEW j \in DOMAIN orders PROVE AskedAgain(j)'
  BY <1>1, <1>4 DEF OrdersIInv, AskedAgain
<1>15. Once!Assigned'
  <2> SUFFICES ASSUME NEW j \in DOMAIN orders, orders'[j].asked.op = "create", orders'[j].landed,
                      orders'[j].reply.status = 400
               PROVE  orders'[j].asked.assignee = ""
    BY <1>1 DEF Once!Assigned
  <2>1. orders'[j].asked = orders[j].asked
    BY <1>1
  <2>2. CASE j = i
    BY ZenonT(60), <1>1, <2>1, <2>2
  <2>3. CASE j # i
    <3>1. orders[j].landed /\ orders'[j].reply = orders[j].reply
      BY ZenonT(60), <1>1, <2>3
    <3>2. Once!Assigned
      BY DEF OrdersIInv
    <3>3. orders[j].asked.op = "create" /\ orders[j].landed
      BY <2>1, <3>1
    <3>5. orders[j].reply.status = 400
      BY <3>1
    <3>4. orders[j].asked.assignee = ""
      BY <3>2, <3>3, <3>5, Zenon DEF Once!Assigned
    <3> QED BY <2>1, <3>4
  <2> QED BY <2>2, <2>3
<1> QED
  BY <1>1, <1>3, <1>8, <1>9, <1>10, <1>11, <1>12, <1>13, <1>14, <1>15 DEF OrdersIInv

\* An effect more.
LEMMA EffectAdded ==
  ASSUME OrdersTyped, NEW f \in OrderEffects, effects' = Append(effects, f), NEW i
  PROVE  /\ Grown(i) /\ Len(effects) + 1 \in DOMAIN effects' /\ Len(effects) + 1 \in Nat
         /\ \A e \in DOMAIN effects' \ DOMAIN effects : e = Len(effects) + 1
         /\ effects'[Len(effects) + 1] = f
<1>1. effects \in Seq(OrderEffects)
  BY DEF OrdersTyped
<1>2. /\ effects' \in Seq(OrderEffects) /\ Len(effects) \in Nat
      /\ DOMAIN effects = 1..Len(effects) /\ DOMAIN effects' = 1..(Len(effects) + 1)
      /\ \A e \in 1..Len(effects) : effects'[e] = effects[e]
      /\ effects'[Len(effects) + 1] = f
  BY <1>1, Appended
<1> QED BY <1>2 DEF Grown

\* A service's answer is lost on a caller that gave up.
Heeded(i, reply) == IF Once!HasFailed(i) THEN Once!NoReply ELSE reply

LEMMA OrderHeeds ==
  ASSUME NEW i, NEW reply \in OrderReplies
  PROVE  /\ Heeded(i, reply) \in OrderReplies
         /\ ~Once!HasFailed(i) => Heeded(i, reply) = reply
<1>1. Once!NoReply \in OrderReplies
  BY DEF Once!Reply, OrderReplies, Once!NoReply
<1> QED BY <1>1 DEF Heeded

LEMMA OrderRefused ==
  ASSUME NEW i, NEW reply, Heeded(i, reply).status = 400
  PROVE  reply.status = 400
BY DEF Heeded, Once!NoReply, Once!Reply

\* The service of tasks.
LEMMA OrderLandsTask ==
  ASSUME OrdersIInv, NEW i \in DOMAIN orders, Once!Land(i), user.client = "tasks"
  PROVE  OrdersIInv'
<1> DEFINE r == orders[i].asked
           open == Once!OpenOf(r.key)
           new == Len(effects) + 1
           did == Once!TasksDo(i, r)
<1>1. /\ effects' = did[1] /\ LandStep(i, Heeded(i, did[2]))
      /\ orders[i].sent /\ ~orders[i].landed /\ user' = user
  <2>1. orders[i].sent /\ ~orders[i].landed /\ user' = user
    BY DEF Once!Land
  <2> DEFINE acts == CASE user.client = "tasks" -> {did}
                       [] r.op = "status" -> Once!StatusOf(r.handle)
                       [] OTHER -> Once!OthersDo(i, r)
  <2>2. \E d \in acts : effects' = d[1] /\ LandStep(i, Heeded(i, d[2]))
    BY Zenon DEF Once!Land, LandStep, Heeded
  <2> HIDE DEF did, r
  <2>3. acts = {did}
    <3>1. r.op # "status"
      BY DEF OrdersIInv, Asks, r
    <3> QED BY <3>1
  <2> HIDE DEF acts
  <2> QED BY <2>1, <2>2, <2>3
<1>2. r.op \in {"create", "resolve"} /\ (r.op = "create" => Once!AssigneeGiven(r))
  BY <1>1 DEF OrdersIInv, Asks
<1>3. /\ OrdersTyped /\ Len(effects) \in Nat /\ DOMAIN effects = 1..Len(effects)
      /\ effects \in Seq(OrderEffects) /\ i \in Nat
      /\ \A e \in DOMAIN effects : effects[e] \in OrderEffects
  BY OrderTypes DEF OrdersIInv, OrdersTyped
<1>4. \A e \in open : e \in DOMAIN effects /\ e \in Nat /\ effects[e].open
                       /\ orders[effects[e].by].asked.key = r.key
  BY <1>3 DEF Once!OpenOf
<1>5. \A e \in DOMAIN effects : effects[e].by \in DOMAIN orders
  BY DEF OrdersIInv, Owned
<1>6. ASSUME NEW reply \in OrderReplies, LandStep(i, Heeded(i, reply))
      PROVE  /\ \A j \in DOMAIN orders : orders'[j].asked = orders[j].asked
             /\ ~Once!HasFailed(i) => orders'[i].reply = reply
  BY <1>3, <1>6, OrderHeeds, OrderLands
\* Nothing is done.
<1>7. ASSUME NEW reply \in OrderReplies, effects' = effects, LandStep(i, Heeded(i, reply)),
             r.op = "create" /\ reply.status = 400 => r.assignee = "",
             r.op = "resolve" => open = {} /\ reply.id = 0,
             r.op = "create" /\ reply.status = 200 => reply.id \in open /\ ~reply.fresh
      PROVE  OrdersIInv'
  <2>1. Grown(i)
    BY <1>3, <1>7 DEF Grown
  <2>2. ~Once!HasFailed(i) => ReplyTrue(i)'
    <3> SUFFICES ASSUME ~Once!HasFailed(i) PROVE ReplyTrue(i)'
      OBVIOUS
    <3>1. orders'[i].reply = reply
      BY <1>6, <1>7
    <3>2. /\ orders'[i].asked = orders[i].asked
          /\ \A j \in DOMAIN orders : orders'[j].asked = orders[j].asked
      BY <1>6, <1>7
    <3>3. CASE r.op = "create"
      <4>1. reply.status = 200 => KeyReply(i)' /\ ~reply.fresh
        BY <1>4, <1>5, <1>7, <3>1, <3>2, <3>3 DEF KeyReply
      <4> QED BY <3>1, <3>2, <3>3, <4>1 DEF ReplyTrue
    <3>4. CASE r.op = "resolve"
      <4>1. reply.id = 0
        BY <1>7, <3>4
      <4> QED BY <3>1, <3>2, <3>4, <4>1 DEF ReplyTrue
    <3> QED BY <1>2, <3>3, <3>4
  <2>3. r.op = "resolve" => \A e \in DOMAIN effects :
          orders[effects[e].by].asked.key = r.key => ~effects'[e].open
    BY <1>7 DEF Once!OpenOf
  <2>6. Heeded(i, reply) \in OrderReplies
    BY <1>7, OrderHeeds
  <2>7. Heeded(i, reply).status = 400 => reply.status = 400
    BY OrderRefused
  <2>4. /\ Heeded(i, reply) \in OrderReplies
        /\ r.op = "create" /\ Heeded(i, reply).status = 400 => r.assignee = ""
    BY <1>7, <2>6, <2>7
  <2>5. \A e \in DOMAIN effects' \ DOMAIN effects : Added(i, e)
    BY <1>7
  <2> HIDE DEF r
  <2> QED BY <1>1, <1>7, <2>1, <2>2, <2>3, <2>4, <2>5, OrderLandKeeps DEF r
<1>8. CASE r.op = "create" /\ r.assignee # "all" /\ r.id # "uuid"
  <2> DEFINE reply == Once!Reply(400, "whole", 0, FALSE)
  <2>1. effects' = effects /\ LandStep(i, Heeded(i, reply))
    BY <1>1, <1>8 DEF Once!TasksDo
  <2>2. reply \in OrderReplies /\ reply.status = 400
    BY DEF Once!Reply, OrderReplies
  <2>3. r.assignee = ""
    BY <1>2, <1>8 DEF Once!AssigneeGiven
  <2> HIDE DEF reply, open
  <2>4. r.op = "create" /\ reply.status = 400 => r.assignee = ""
    BY <2>3
  <2>5. r.op = "resolve" => open = {} /\ reply.id = 0
    BY <1>8
  <2>6. r.op = "create" /\ reply.status = 200 => reply.id \in open /\ ~reply.fresh
    BY <2>2
  <2> HIDE DEF r
  <2> QED BY <1>7, <2>1, <2>2, <2>4, <2>5, <2>6
<1>9. CASE r.op = "create" /\ ~(r.assignee # "all" /\ r.id # "uuid") /\ open # {}
  <2> DEFINE e == CHOOSE e \in open : TRUE
             reply == Once!Reply(200, "whole", e, FALSE)
  <2>1. effects' = effects /\ LandStep(i, Heeded(i, reply))
    BY <1>1, <1>9 DEF Once!TasksDo
  <2>2. e \in open
    BY <1>9
  <2>3. reply \in OrderReplies /\ reply.status = 200 /\ reply.id = e /\ ~reply.fresh
    BY <1>4, <2>2 DEF Once!Reply, OrderReplies
  <2> HIDE DEF reply, e, open
  <2>7. reply.status # 400
    BY <2>3
  <2>4. r.op = "create" /\ reply.status = 400 => r.assignee = ""
    BY <2>7
  <2>5. r.op = "resolve" => open = {} /\ reply.id = 0
    BY <1>9
  <2>6. r.op = "create" /\ reply.status = 200 => reply.id \in open /\ ~reply.fresh
    BY <2>2, <2>3
  <2> HIDE DEF r
  <2> QED BY <1>7, <2>1, <2>3, <2>4, <2>5, <2>6
<1>10. CASE r.op = "resolve" /\ open = {}
  <2> DEFINE reply == Once!Reply(200, "whole", 0, FALSE)
  <2>1. effects' = effects /\ LandStep(i, Heeded(i, reply))
    BY <1>1, <1>10 DEF Once!TasksDo
  <2>2. reply \in OrderReplies /\ reply.id = 0
    BY DEF Once!Reply, OrderReplies
  <2> HIDE DEF reply
  <2> QED BY <1>7, <1>10, <2>1, <2>2
<1>11. CASE r.op = "resolve" /\ open # {}
  <2> DEFINE e == CHOOSE e \in open : TRUE
             reply == Once!Reply(200, "whole", e, TRUE)
             f == [effects[e] EXCEPT !.open = FALSE]
  <2>1. effects' = [effects EXCEPT ![e] = f] /\ LandStep(i, Heeded(i, reply))
    BY <1>1, <1>11 DEF Once!TasksDo
  <2>2. e \in open
    BY <1>11
  <2>3. reply \in OrderReplies /\ reply.status = 200 /\ reply.id = e
    BY <1>4, <2>2 DEF Once!Reply, OrderReplies
  <2>4. f \in OrderEffects /\ f.by = effects[e].by /\ f.files = effects[e].files /\ ~f.open
    <3>1. effects[e] \in OrderEffects
      BY <1>3, <1>4, <2>2
    <3> QED BY <3>1 DEF OrderEffects
  <2>5. e \in DOMAIN effects /\ orders[effects[e].by].asked.key = r.key /\ effects[e].open
    BY <1>4, <2>2
  <2> HIDE DEF reply, e, f
  <2>6. /\ effects' \in Seq(OrderEffects) /\ DOMAIN effects' = DOMAIN effects
        /\ effects'[e] = f /\ \A d \in DOMAIN effects : d # e => effects'[d] = effects[d]
    BY <1>3, <2>1, <2>4, <2>5, Replaced
  <2>7. Grown(i)
    BY <2>4, <2>6 DEF Grown
  <2>8. \A d \in DOMAIN effects : orders[effects[d].by].asked.key = r.key => ~effects'[d].open
    <3> TAKE d \in DOMAIN effects
    <3>1. CASE d = e
      BY <2>4, <2>6, <3>1
    <3>2. CASE d # e
      BY <1>11, <2>5, <2>6, <3>2 DEF OrdersIInv, OneOpen
    <3> QED BY <3>1, <3>2
  <2>9. effects'[e].by = effects[e].by
    BY <2>4, <2>6
  <2>10. ~Once!HasFailed(i) => ReplyTrue(i)'
    <3> SUFFICES ASSUME ~Once!HasFailed(i) PROVE ReplyTrue(i)'
      OBVIOUS
    <3>1. orders'[i].reply = reply /\ orders'[i].asked = r
      BY <1>6, <2>1, <2>3
    <3>2. orders'[effects[e].by].asked.key = r.key
      BY <1>5, <1>6, <2>1, <2>3, <2>5
    <3>3. KeyReply(i)'
      BY <2>3, <2>5, <2>6, <2>9, <3>1, <3>2 DEF KeyReply
    <3>4. r.op = "resolve"
      BY <1>11
    <3> QED BY <3>1, <3>3, <3>4 DEF ReplyTrue
  <2>11. Heeded(i, reply) \in OrderReplies
    BY <2>3, OrderHeeds
  <2>12. \A d \in DOMAIN effects' \ DOMAIN effects : Added(i, d)
    BY <2>6
  <2> HIDE DEF r
  <2> QED BY <1>1, <1>11, <2>1, <2>7, <2>8, <2>10, <2>11, <2>12, OrderLandKeeps DEF r
<1>12. CASE r.op = "create" /\ ~(r.assignee # "all" /\ r.id # "uuid") /\ open = {}
  <2> DEFINE f == Once!Effect(i, TRUE, {}, {})
             reply == Once!Reply(200, "whole", new, TRUE)
  <2>1. effects' = Append(effects, f) /\ LandStep(i, Heeded(i, reply))
    BY <1>1, <1>12 DEF Once!TasksDo
  <2>2. f \in OrderEffects /\ f.by = i
    BY <1>3 DEF Once!Effect, OrderEffects
  <2>3. reply \in OrderReplies /\ reply.status = 200 /\ reply.id = new /\ reply.fresh
    BY <1>3 DEF Once!Reply, OrderReplies
  <2> HIDE DEF reply, f
  <2>4. /\ Grown(i) /\ new \in DOMAIN effects' /\ effects'[new] = f
        /\ \A e \in DOMAIN effects' \ DOMAIN effects : e = new
    BY <1>3, <2>1, <2>2, EffectAdded
  <2> HIDE DEF new
  <2>5. ~Once!HasFailed(i) => orders'[i].reply = reply
    BY <1>6, <2>1, <2>3
  <2>6. \A e \in DOMAIN effects' \ DOMAIN effects : Added(i, e)
    BY <1>12, <2>2, <2>3, <2>4, <2>5 DEF Added
  <2>7. orders'[i].asked = r
    BY <1>6, <2>1, <2>3
  <2>8. ~Once!HasFailed(i) => ReplyTrue(i)'
    BY <1>12, <2>2, <2>3, <2>4, <2>5, <2>7 DEF ReplyTrue, KeyReply, OwnReply
  <2>9. Heeded(i, reply) \in OrderReplies
    BY <2>3, OrderHeeds
  <2>10. Heeded(i, reply).status # 400
    <3>1. reply.status # 400
      BY <2>3
    <3> QED BY <3>1, OrderRefused
  <2> HIDE DEF r
  <2> QED BY ZenonT(60), <1>1, <1>12, <2>1, <2>4, <2>6, <2>8, <2>9, <2>10, OrderLandKeeps DEF r
<1> QED BY <1>2, <1>8, <1>9, <1>10, <1>11, <1>12

LEMMA OrderStatuses ==
  ASSUME NEW h, NEW did \in Once!StatusOf(h)
  PROVE  \/ did = <<effects, Once!Reply(200, "whole", h, ~effects[h].open)>>
         \/ did = <<effects, Once!Reply(200, "garbled", 0, FALSE)>>
         \/ did = <<effects, Once!Reply(404, "whole", 0, FALSE)>>
<1>1. PICK r \in {Once!Reply(200, "whole", h, ~effects[h].open), Once!Reply(200, "garbled", 0, FALSE),
                  Once!Reply(404, "whole", 0, FALSE)} : did = <<effects, r>>
  BY DEF Once!StatusOf
<1> QED BY <1>1

\* How far a file is.
LEMMA OrderLandsStatus ==
  ASSUME OrdersIInv, NEW i \in DOMAIN orders, Once!Land(i), user.client # "tasks",
         orders[i].asked.op = "status"
  PROVE  OrdersIInv'
<1> DEFINE r == orders[i].asked
           h == r.handle
<1>1. PICK did \in Once!StatusOf(h) : effects' = did[1] /\ LandStep(i, Heeded(i, did[2]))
  BY DEF Once!Land, LandStep, Heeded
<1>2. orders[i].sent /\ ~orders[i].landed /\ user' = user
  BY DEF Once!Land
<1>3. h \in DOMAIN effects
  BY DEF OrdersIInv, Asks
<1>4. /\ OrdersTyped /\ DOMAIN effects = 1..Len(effects) /\ Len(effects) \in Nat
      /\ effects \in Seq(OrderEffects) /\ \A e \in DOMAIN effects : effects[e] \in OrderEffects
  BY OrderTypes DEF OrdersIInv, OrdersTyped
<1>5. h \in Nat /\ effects[h].open \in BOOLEAN
  BY <1>3, <1>4 DEF OrderEffects
<1> DEFINE reply == did[2]
           shut == ~effects[h].open
           found == Once!Reply(200, "whole", h, shut)
           garbled == Once!Reply(200, "garbled", 0, FALSE)
           lost == Once!Reply(404, "whole", 0, FALSE)
<1>6. did = <<effects, found>> \/ did = <<effects, garbled>> \/ did = <<effects, lost>>
  BY OrderStatuses
<1>14. shut \in BOOLEAN /\ (shut => ~effects[h].open)
  OBVIOUS
<1> HIDE DEF shut, found, garbled, lost
<1>7. effects' = effects
  BY <1>1, <1>6
<1>8. /\ reply \in OrderReplies /\ reply.status # 400
      /\ Once!Decoded(reply) => reply.id = h /\ (reply.fresh => ~effects[h].open)
  <2>1. CASE did = <<effects, found>>
    BY <1>5, <1>14, <2>1 DEF Once!Reply, OrderReplies, Once!Decoded, found
  <2>2. CASE did = <<effects, garbled>>
    BY <2>2 DEF Once!Reply, OrderReplies, Once!Decoded, garbled
  <2>3. CASE did = <<effects, lost>>
    BY <2>3 DEF Once!Reply, OrderReplies, Once!Decoded, lost
  <2> QED BY <1>6, <2>1, <2>2, <2>3
<1>9. LandStep(i, Heeded(i, reply))
  BY <1>1
<1> HIDE DEF reply
<1>10. Heeded(i, reply) \in OrderReplies /\ (Heeded(i, reply).status # 400)
  BY <1>8, OrderHeeds, OrderRefused
<1>11. orders'[i].asked = r /\ (~Once!HasFailed(i) => orders'[i].reply = reply)
  BY <1>4, <1>8, <1>9, <1>10, OrderHeeds, OrderLands
<1>12. ~Once!HasFailed(i) => ReplyTrue(i)'
  BY <1>7, <1>8, <1>11 DEF ReplyTrue, FileReply, Once!Decoded
<1>13. Grown(i) /\ \A e \in DOMAIN effects' \ DOMAIN effects : Added(i, e)
  BY <1>4, <1>7 DEF Grown
<1> HIDE DEF r
<1> QED BY ZenonT(60), <1>2, <1>9, <1>10, <1>12, <1>13, OrderLandKeeps

\* The others: a file read, a mail sent.
LEMMA OrderLandsOther ==
  ASSUME OrdersIInv, NEW i \in DOMAIN orders, Once!Land(i), user.client # "tasks",
         orders[i].asked.op # "status"
  PROVE  OrdersIInv'
<1> DEFINE r == orders[i].asked
           new == Len(effects) + 1
           smtp == r.op = "mail" /\ Once!SenderOf(user.config) = "smtp"
           f == IF r.op = "mail" THEN Once!Effect(i, TRUE, Once!Attached(r.files), Once!Tags(r.tag))
                ELSE Once!Effect(i, TRUE, {}, {})
<1>1. PICK did \in Once!OthersDo(i, r) : effects' = did[1] /\ LandStep(i, Heeded(i, did[2]))
  BY DEF Once!Land, LandStep, Heeded
<1>2. orders[i].sent /\ ~orders[i].landed /\ user' = user
  BY DEF Once!Land
<1>3. /\ OrdersTyped /\ DOMAIN effects = 1..Len(effects) /\ Len(effects) \in Nat
      /\ effects \in Seq(OrderEffects) /\ i \in Nat /\ orders[i] \in OrderRecords
      /\ user.client \in {"rcproc", "mailer"}
  BY OrderTypes DEF OrdersIInv, OrdersTyped
<1>4. r.op \in {"process", "sync", "mail"} /\ (user.client = "mailer" => r.op = "mail")
  BY <1>3 DEF OrdersIInv, Asks
<1>5. f \in OrderEffects /\ f.by = i /\ (r.op = "mail" => f.files = Once!Attached(r.files))
  <2>1. CASE r.op = "mail"
    <3>1. r \in OrderAsks
      BY <1>3 DEF OrderRecords
    <3>2. r \in Once!Mailings
      BY <2>1, <3>1 DEF OrderAsks, Once!Creates, Once!Resolves, Once!Processes
    <3>3. r.files \in {{g} : g \in Files} \cup {{}}
      BY <3>2 DEF Once!Mailings
    <3>4. Once!Attached(r.files) \subseteq Files
      BY <3>3 DEF Once!Attached
    <3>5. Once!Tags(r.tag) \subseteq {"tag"}
      BY DEF Once!Tags
    <3> QED BY <1>3, <2>1, <3>4, <3>5 DEF Once!Effect, OrderEffects
  <2>2. CASE r.op # "mail"
    BY <1>3, <2>2 DEF Once!Effect, OrderEffects
  <2> QED BY <2>1, <2>2
<1> DEFINE reply == did[2]
           whole == Once!Reply(200, "whole", IF smtp THEN 0 ELSE new, TRUE)
           garbled == Once!Reply(200, "garbled", 0, TRUE)
<1>6. \/ did = <<Append(effects, f), whole>>
      \/ ~smtp /\ did = <<Append(effects, f), garbled>>
      \/ did = <<effects, Once!Reply(300, "garbled", 0, FALSE)>>
      \/ did = <<effects, Once!Reply(422, "whole", 0, FALSE)>>
      \/ did = <<effects, Once!Reply(503, "garbled", 0, FALSE)>>
  BY DEF Once!OthersDo
<1>7. new \in Nat
  BY <1>3
<1>8. /\ whole \in OrderReplies /\ whole.status = 200 /\ whole.id = IF smtp THEN 0 ELSE new
      /\ garbled \in OrderReplies /\ garbled.status = 200 /\ garbled.id = 0
      /\ garbled.body = "garbled"
  BY <1>7 DEF Once!Reply, OrderReplies
<1> HIDE DEF f, whole, garbled
\* What is turned down changes nothing.
<1>9. ASSUME effects' = effects, reply \in OrderReplies, reply.status # 400, reply.status >= 300,
             ~Once!Decoded(reply)
      PROVE  OrdersIInv'
  <2>1. LandStep(i, Heeded(i, reply))
    BY <1>1
  <2> HIDE DEF reply
  <2>2. Heeded(i, reply) \in OrderReplies /\ (Heeded(i, reply).status # 400)
    BY <1>9, OrderHeeds, OrderRefused
  <2>3. orders'[i].asked = r /\ (~Once!HasFailed(i) => orders'[i].reply = reply)
    BY <1>3, <1>9, <2>1, <2>2, OrderHeeds, OrderLands
  <2>4. ~Once!HasFailed(i) => ReplyTrue(i)'
    <3>1. reply.status \in Nat
      BY <1>9 DEF OrderReplies
    <3>2. ~(reply.status < 300)
      BY <1>9, <3>1
    <3> QED BY <1>4, <1>9, <2>3, <3>2 DEF ReplyTrue, Once!Decoded
  <2>5. Grown(i) /\ \A e \in DOMAIN effects' \ DOMAIN effects : Added(i, e)
    BY <1>3, <1>9 DEF Grown
  <2> HIDE DEF r
  <2> QED BY <1>2, <1>3, <2>1, <2>2, <2>4, <2>5, OrderLandKeeps
\* What is done is told so: with a handle, but by SMTP and in a body that cannot be read.
<1>10. ASSUME effects' = Append(effects, f), reply \in OrderReplies, reply.status = 200,
              \/ reply.id = IF smtp THEN 0 ELSE new
              \/ ~smtp /\ reply.id = 0 /\ reply.body = "garbled"
       PROVE  OrdersIInv'
  <2>1. LandStep(i, Heeded(i, reply))
    BY <1>1
  <2> HIDE DEF reply
  <2>2. Heeded(i, reply) \in OrderReplies /\ (Heeded(i, reply).status # 400)
    BY <1>10, OrderHeeds, OrderRefused
  <2>3. orders'[i].asked = r /\ (~Once!HasFailed(i) => orders'[i].reply = reply)
    BY <1>3, <1>10, <2>1, <2>2, OrderHeeds, OrderLands
  <2>4. /\ Grown(i) /\ new \in DOMAIN effects' /\ effects'[new] = f
        /\ \A e \in DOMAIN effects' \ DOMAIN effects : e = new
    BY <1>3, <1>5, <1>10, EffectAdded
  <2>5. new # 0
    BY <1>3
  <2> HIDE DEF new
  <2>6. \A e \in DOMAIN effects' \ DOMAIN effects : Added(i, e)
    BY <1>3, <1>4, <1>5, <2>4 DEF Added
  <2>7. effects'[new].by = i
    BY <1>5, <2>4
  <2>8. r.op = "mail" => /\ smtp <=> Once!SenderOf(user.config) = "smtp"
                         /\ reply.id = new \/ reply.id = 0
                         /\ smtp => reply.id = 0
                         /\ reply.id = 0 => smtp \/ reply.body = "garbled"
    BY <1>10, <2>5
  <2>9. r.op \in {"process", "sync"} /\ Once!Decoded(reply) => reply.id = new
    BY <1>10 DEF Once!Decoded
  <2> HIDE DEF smtp
  <2>10. ~Once!HasFailed(i) => ReplyTrue(i)'
    <3> SUFFICES ASSUME ~Once!HasFailed(i) PROVE ReplyTrue(i)'
      OBVIOUS
    <3>1. orders'[i].reply = reply /\ orders'[i].asked = r
      BY <2>3
    <3>2. CASE r.op \in {"process", "sync"}
      BY <2>4, <2>7, <2>9, <3>1, <3>2 DEF ReplyTrue, OwnReply, Once!Decoded
    <3>3. CASE r.op = "mail"
      BY <1>2, <2>4, <2>7, <2>8, <3>1, <3>3 DEF ReplyTrue, OwnReply, Served, Once!Decoded
    <3> QED BY <1>4, <3>2, <3>3
  <2> HIDE DEF r
  <2> QED BY <1>2, <1>3, <2>1, <2>2, <2>4, <2>6, <2>10, OrderLandKeeps
<1>11. CASE did = <<Append(effects, f), whole>>
  BY <1>1, <1>8, <1>10, <1>11
<1>12. CASE ~smtp /\ did = <<Append(effects, f), garbled>>
  BY <1>1, <1>8, <1>10, <1>12
<1>13. CASE did = <<effects, Once!Reply(300, "garbled", 0, FALSE)>>
  BY <1>1, <1>9, <1>13 DEF Once!Reply, OrderReplies, Once!Decoded
<1>14. CASE did = <<effects, Once!Reply(422, "whole", 0, FALSE)>>
  BY <1>1, <1>9, <1>14 DEF Once!Reply, OrderReplies, Once!Decoded
<1>15. CASE did = <<effects, Once!Reply(503, "garbled", 0, FALSE)>>
  BY <1>1, <1>9, <1>15 DEF Once!Reply, OrderReplies, Once!Decoded
<1> QED BY <1>6, <1>11, <1>12, <1>13, <1>14, <1>15

\* What a client may ask is its kind of thing, and the handle it asks with is known.
LEMMA OrderRequests ==
  ASSUME OrdersIInv, NEW r \in Once!Requests
  PROVE  /\ r \in OrderAsks
         /\ user.client = "tasks" => r.op \in {"create", "resolve"}
         /\ user.client = "rcproc" => r.op \in {"process", "sync", "status"}
         /\ user.client = "mailer" => r.op = "mail"
         /\ r.op = "status" => r.handle \in DOMAIN effects
<1>1. /\ DOMAIN orders = 1..Len(orders) /\ Len(orders) \in Nat /\ orders \in Seq(OrderRecords)
      /\ DOMAIN effects = 1..Len(effects) /\ Len(effects) \in Nat
      /\ \A i \in DOMAIN orders : orders[i] \in OrderRecords
      /\ user.client \in {"tasks", "rcproc", "mailer"}
  BY OrderTypes DEF OrdersIInv, OrdersTyped
<1>2. \A i \in DOMAIN orders : orders[i].asked \in OrderAsks /\ Asks(i)
  BY <1>1 DEF OrdersIInv, OrderRecords
<1>3. orders # <<>> => 1 \in DOMAIN orders
  BY <1>1
<1>4. ASSUME NEW p \in Once!Plain
      PROVE  p \in OrderAsks /\ p.op \in {"create", "resolve"}
  <2>1. PICK k \in Keys : p = Once!CreateAll(k) \/ p = [op |-> "resolve", key |-> k]
    BY <1>4 DEF Once!Plain
  <2>2. CASE p = Once!CreateAll(k)
    BY <2>2 DEF Once!CreateAll, Once!Creates, OrderAsks
  <2>3. CASE p = [op |-> "resolve", key |-> k]
    BY <2>3 DEF Once!Resolves, OrderAsks
  <2> QED BY <2>1, <2>2, <2>3
<1>5. CASE orders # <<>> /\ orders[1].asked \notin Once!Plain
  <2>1. CASE r = orders[1].asked
    BY <1>2, <1>3, <1>5, <2>1 DEF Asks
  <2>2. ASSUME NEW i \in DOMAIN orders, orders[i].asked.op = "process",
               orders[i].told.kind = "done", r = [op |-> "status", handle |-> orders[i].told.id]
        PROVE  /\ r \in OrderAsks /\ r.op = "status" /\ r.handle \in DOMAIN effects
               /\ user.client = "rcproc"
    <3>1. user.client = "rcproc"
      BY <1>1, <1>2, <2>2 DEF Asks
    <3>2. orders[i].landed /\ HeardOf(i) /\ ~Once!HasFailed(i)
      BY <2>2 DEF OrdersIInv, Progress, Once!IsDone, Once!HasFailed
    <3>3. Once!Decoded(orders[i].reply) /\ orders[i].told.id = orders[i].reply.id
      BY <2>2, <3>1, <3>2 DEF HeardOf
    <3>4. orders[i].reply.id \in DOMAIN effects
      BY <2>2, <3>2, <3>3 DEF OrdersIInv, ReplyTrue, OwnReply
    <3>5. orders[i].told.id \in Nat
      BY <1>1, <3>3, <3>4
    <3> QED BY <2>2, <3>1, <3>3, <3>4, <3>5 DEF OrderAsks
  <2>3. \/ r = orders[1].asked
        \/ \E i \in DOMAIN orders : /\ orders[i].asked.op = "process" /\ orders[i].told.kind = "done"
                                    /\ r = [op |-> "status", handle |-> orders[i].told.id]
    BY <1>5 DEF Once!Requests
  <2> QED BY <2>1, <2>2, <2>3
<1>6. CASE orders # <<>> /\ orders[1].asked \in Once!Plain
  <2>1. r \in Once!Plain
    BY <1>6 DEF Once!Requests
  <2>2. user.client = "tasks"
    BY <1>1, <1>2, <1>3, <1>4, <1>6 DEF Asks
  <2> QED BY <1>4, <2>1, <2>2
<1>7. CASE orders = <<>> /\ user.client = "tasks"
  <2>1. r \in Once!Creates \cup Once!Resolves
    BY <1>7 DEF Once!Requests
  <2> QED BY <1>7, <2>1 DEF OrderAsks, Once!Creates, Once!Resolves
<1>8. CASE orders = <<>> /\ user.client = "rcproc"
  <2>1. r \in Once!Processes
    BY <1>8 DEF Once!Requests
  <2> QED BY <1>8, <2>1 DEF OrderAsks, Once!Processes
<1>9. CASE orders = <<>> /\ user.client = "mailer"
  <2>1. r \in Once!Mailings
    BY <1>9 DEF Once!Requests
  <2> QED BY <1>9, <2>1 DEF OrderAsks, Once!Mailings
<1> QED BY <1>1, <1>5, <1>6, <1>7, <1>8, <1>9

\* A call is made.
LEMMA OrderCalls ==
  ASSUME OrdersIInv, Once!OrdersAssumption, Once!Call
  PROVE  OrdersIInv'
<1>1. /\ DOMAIN orders = 1..Len(orders) /\ Len(orders) \in Nat /\ orders \in Seq(OrderRecords)
      /\ \A i \in DOMAIN orders : orders[i] \in OrderRecords
      /\ Len(orders) < MaxOrders /\ MaxOrders \in Nat /\ effects' = effects /\ user' = user
  BY OrderTypes DEF OrdersIInv, OrdersTyped, Once!Call, Once!OrdersAssumption
<1> DEFINE Record(r) ==
             [asked |-> r, sent |-> Once!Accepted(r), landed |-> FALSE, reply |-> Once!NoReply,
              after |-> {i \in DOMAIN orders : orders[i].told.kind # "none"},
              told |-> IF Once!Accepted(r) THEN Once!Unanswered ELSE Once!Failed]
<1>2. PICK r \in Once!Requests : Once!MayRepeat(r) /\ orders' = Append(orders, Record(r))
  BY DEF Once!Call
<1> DEFINE o == Record(r)
           n == Len(orders) + 1
<1>3. /\ r \in OrderAsks
      /\ user.client = "tasks" => r.op \in {"create", "resolve"}
      /\ user.client = "rcproc" => r.op \in {"process", "sync", "status"}
      /\ user.client = "mailer" => r.op = "mail"
      /\ r.op = "status" => r.handle \in DOMAIN effects
  BY OrderRequests
<1>4. Once!Accepted(r) \in BOOLEAN /\ (r.op = "create" /\ Once!Accepted(r) => Once!AssigneeGiven(r))
  <2>1. CASE r.op = "create"
    BY <2>1 DEF Once!Accepted
  <2>2. CASE r.op = "resolve"
    BY <2>2 DEF Once!Accepted, Once!KeyComplete
  <2>3. CASE r.op \in {"process", "sync"}
    <3>1. r.token \in BOOLEAN
      BY <1>3, <2>3 DEF OrderAsks, Once!Creates, Once!Resolves, Once!Processes, Once!Mailings
    <3> QED BY <2>3, <3>1 DEF Once!Accepted, Once!SetAuthToken
  <2>4. CASE r.op = "status"
    BY <2>4 DEF Once!Accepted
  <2>5. CASE r.op = "mail"
    BY <2>5 DEF Once!Accepted
  <2>6. r.op \in {"create", "resolve", "process", "sync", "status", "mail"}
    BY <1>3 DEF OrderAsks, Once!Creates, Once!Resolves, Once!Processes, Once!Mailings
  <2> QED BY <2>1, <2>2, <2>3, <2>4, <2>5, <2>6
<1>5. /\ Once!Failed \in OrderTold /\ Once!Failed.kind = "failed"
      /\ Once!Unanswered \in OrderTold /\ Once!Unanswered.kind = "none"
  BY DEF Once!Failed, Once!Unanswered, Once!Told, OrderTold
<1>6. Once!NoReply \in OrderReplies /\ Once!NoReply.status = 0
  BY DEF Once!Reply, OrderReplies, Once!NoReply
<1>7. /\ o.asked = r /\ o.sent = Once!Accepted(r) /\ ~o.landed /\ o.reply = Once!NoReply
      /\ o.after = {i \in DOMAIN orders : orders[i].told.kind # "none"}
      /\ o.told = IF Once!Accepted(r) THEN Once!Unanswered ELSE Once!Failed
      /\ o \in OrderRecords
  <2>1. {i \in DOMAIN orders : orders[i].told.kind # "none"} \in SUBSET Nat
    BY <1>1
  <2> HIDE DEF Once!Accepted
  <2> QED BY <1>3, <1>4, <1>5, <1>6, <2>1 DEF OrderRecords
<1> HIDE DEF o
<1>8. /\ orders' \in Seq(OrderRecords) /\ Len(orders') = n /\ DOMAIN orders' = 1..n
      /\ \A i \in DOMAIN orders : orders'[i] = orders[i] /\ i \in DOMAIN orders' /\ i < n
      /\ orders'[n] = o /\ n \in DOMAIN orders'
      /\ \A i \in DOMAIN orders' : i \in DOMAIN orders \/ i = n
  <2>1. orders' = Append(orders, o)
    BY <1>2 DEF o
  <2>2. /\ orders' \in Seq(OrderRecords) /\ Len(orders') = n /\ DOMAIN orders' = 1..n
        /\ \A i \in 1..Len(orders) : orders'[i] = orders[i]
        /\ orders'[n] = o
    BY <1>1, <1>7, <2>1, Appended
  <2> QED BY <1>1, <2>2
<1>9. n \notin DOMAIN orders /\ n <= MaxOrders
  BY <1>1
<1> HIDE DEF n
<1>10. /\ o.told.kind # "done" /\ (~o.sent => o.told.kind = "failed")
       /\ o.sent /\ r.op = "create" => Once!AssigneeGiven(r)
  BY <1>4, <1>5, <1>7
<1>11. OrdersTyped'
  BY <1>1, <1>8, <1>9 DEF OrdersIInv, OrdersTyped
<1>12. \A i \in DOMAIN orders :
         (Once!HasFailed(i)' <=> Once!HasFailed(i)) /\ (Once!IsDone(i)' <=> Once!IsDone(i))
  BY <1>8 DEF Once!HasFailed, Once!IsDone
<1>13. \A e \in DOMAIN effects :
         /\ effects[e].by \in DOMAIN orders /\ effects[e].by # n
         /\ orders'[effects[e].by] = orders[effects[e].by]
  BY <1>8, <1>9 DEF OrdersIInv, Owned
<1>14. ASSUME NEW i \in DOMAIN orders' PROVE Asks(i)'
  <2>1. CASE i \in DOMAIN orders
    BY <1>1, <1>8, <2>1 DEF OrdersIInv, Asks
  <2>2. CASE i = n
    BY <1>1, <1>3, <1>7, <1>8, <1>10, <2>2 DEF Asks
  <2> QED BY <1>8, <2>1, <2>2
<1>15. ASSUME NEW i \in DOMAIN orders' PROVE Progress(i)'
  <2>1. CASE i \in DOMAIN orders
    <3>1. Progress(i) /\ (HeardOf(i)' <=> HeardOf(i))
      BY <1>1, <1>8, <2>1 DEF OrdersIInv, HeardOf, Once!Decoded
    <3> QED BY <1>8, <1>12, <2>1, <3>1 DEF Progress
  <2>2. CASE i = n
    <3>1. \A j \in o.after : j \in DOMAIN orders' /\ orders'[j].told.kind # "none"
      BY <1>7, <1>8
    <3> QED BY <1>7, <1>8, <1>10, <2>2, <3>1 DEF Progress, Once!HasFailed, Once!IsDone
  <2> QED BY <1>8, <2>1, <2>2
<1>16. ASSUME NEW e \in DOMAIN effects PROVE Owned(e)'
  <2>1. Owned(e)
    BY DEF OrdersIInv
  <2> QED BY <1>1, <1>8, <1>12, <1>13, <2>1 DEF Owned
<1>17. ASSUME NEW i \in DOMAIN orders', orders'[i].landed, ~Once!HasFailed(i)' PROVE ReplyTrue(i)'
  <2>1. i \in DOMAIN orders
    BY <1>7, <1>8, <1>17
  <2>2. ReplyTrue(i)
    BY <1>8, <1>12, <1>17, <2>1 DEF OrdersIInv
  <2>3. orders'[i] = orders[i]
    BY <1>8, <2>1
  <2>4. orders[i].asked.op = "status" => orders[i].asked.handle \in DOMAIN effects
    BY <2>1 DEF OrdersIInv, Asks
  <2> QED BY <1>1, <1>13, <2>2, <2>3, <2>4, OrderReplyStays
<1>18. OneOpen'
  BY <1>1, <1>13 DEF OrdersIInv, OneOpen
<1>19. ASSUME NEW i \in DOMAIN orders' PROVE Resolved(i)'
  <2>1. CASE i \in DOMAIN orders
    <3>1. Resolved(i) /\ orders'[i] = orders[i]
      BY <1>8, <2>1 DEF OrdersIInv
    <3> QED BY <1>1, <1>12, <1>13, <3>1 DEF Resolved
  <2>2. CASE i = n
    BY <1>7, <1>8, <2>2 DEF Resolved
  <2> QED BY <1>8, <2>1, <2>2
<1>20. ASSUME NEW i \in DOMAIN orders' PROVE AskedAgain(i)'
  <2>1. CASE i \in DOMAIN orders
    <3>1. \A j \in DOMAIN orders' : j < i => j \in DOMAIN orders
      BY <1>1, <1>8, <1>9, <2>1
    <3>2. AskedAgain(i) /\ orders'[i] = orders[i]
      BY <1>8, <2>1 DEF OrdersIInv
    <3> QED BY <1>8, <1>12, <3>1, <3>2 DEF AskedAgain
  <2>2. CASE i = n
    <3>1. \A j \in DOMAIN orders' : j < n => j \in DOMAIN orders
      BY <1>1, <1>8
    <3>2. r.op \in {"process", "sync", "mail"} =>
            \A j \in DOMAIN orders : orders[j].asked = r => orders[j].told.kind = "failed"
      BY <1>2 DEF Once!MayRepeat
    <3> QED BY <1>7, <1>8, <2>2, <3>1, <3>2 DEF AskedAgain, Once!HasFailed
  <2> QED BY <1>8, <2>1, <2>2
<1>21. Once!Assigned'
  <2> SUFFICES ASSUME NEW i \in DOMAIN orders', orders'[i].asked.op = "create", orders'[i].landed,
                      orders'[i].reply.status = 400
               PROVE  orders'[i].asked.assignee = ""
    BY DEF Once!Assigned
  <2>1. i \in DOMAIN orders /\ orders'[i] = orders[i]
    BY <1>7, <1>8
  <2>2. orders[i].asked.op = "create" /\ orders[i].landed
    BY <2>1
  <2>3. orders[i].reply.status = 400
    BY <2>1
  <2>4. Once!Assigned
    BY DEF OrdersIInv
  <2>5. orders[i].asked.assignee = ""
    BY <2>1, <2>2, <2>3, <2>4, Zenon DEF Once!Assigned
  <2> QED BY <2>1, <2>5
<1> QED
  BY <1>1, <1>11, <1>14, <1>15, <1>16, <1>17, <1>18, <1>19, <1>20, <1>21 DEF OrdersIInv

LEMMA OrdersNextInv ==
  ASSUME OrdersIInv, Once!OrdersAssumption, Once!OrdersNext
  PROVE  OrdersIInv'
<1>1. CASE Once!Call
  BY <1>1, OrderCalls
<1>2. ASSUME NEW i \in DOMAIN orders, Once!Land(i) PROVE OrdersIInv'
  <2>1. CASE user.client = "tasks"
    BY <1>2, <2>1, OrderLandsTask
  <2>2. CASE user.client # "tasks" /\ orders[i].asked.op = "status"
    BY <1>2, <2>2, OrderLandsStatus
  <2>3. CASE user.client # "tasks" /\ orders[i].asked.op # "status"
    BY <1>2, <2>3, OrderLandsOther
  <2> QED BY <2>1, <2>2, <2>3
<1>3. ASSUME NEW i \in DOMAIN orders, Once!Answer(i) \/ Once!Fail(i) PROVE OrdersIInv'
  BY <1>3, OrderAnswers, OrderFails
<1>4. ASSUME NEW e \in DOMAIN effects, Once!Finish(e) PROVE OrdersIInv'
  BY <1>4, OrderFinishes
<1> QED BY <1>1, <1>2, <1>3, <1>4 DEF Once!OrdersNext

LEMMA OrdersRests ==
  ASSUME OrdersIInv, UNCHANGED ordersVars
  PROVE  OrdersIInv'
<1>1. user' = user /\ orders' = orders /\ effects' = effects
  BY DEF ordersVars
<1>2. \A i : (Once!HasFailed(i)' <=> Once!HasFailed(i)) /\ (Once!IsDone(i)' <=> Once!IsDone(i))
             /\ (HeardOf(i)' <=> HeardOf(i))
  BY <1>1 DEF Once!HasFailed, Once!IsDone, HeardOf, Once!Decoded
<1>3. \A i : Asks(i)' <=> Asks(i)
  BY <1>1 DEF Asks
<1>4. \A i : Progress(i)' <=> Progress(i)
  BY <1>1, <1>2 DEF Progress
<1>5. \A e : Owned(e)' <=> Owned(e)
  BY <1>1, <1>2 DEF Owned, Once!Attached
<1>6. \A i : ReplyTrue(i)' <=> ReplyTrue(i)
  BY <1>1 DEF ReplyTrue, KeyReply, OwnReply, FileReply, Served, Once!Decoded
<1>7. \A r : Resolved(r)' <=> Resolved(r)
  BY <1>1, <1>2 DEF Resolved
<1>8. \A i : AskedAgain(i)' <=> AskedAgain(i)
  BY <1>1, <1>2 DEF AskedAgain
<1>9. OrdersTyped' /\ OneOpen' /\ Once!Assigned'
  BY <1>1 DEF OrdersIInv, OrdersTyped, OneOpen, Once!Assigned
<1> QED BY <1>1, <1>2, <1>3, <1>4, <1>5, <1>6, <1>7, <1>8, <1>9 DEF OrdersIInv

-----------------------------------------------------------------------------
(* What the invariant says.                                                *)

LEMMA OneToOne ==
  ASSUME NEW S, NEW T, IsFiniteSet(T), NEW g \in [S -> T],
         \A a, b \in S : g[a] = g[b] => a = b
  PROVE  IsFiniteSet(S) /\ Cardinality(S) <= Cardinality(T)
<1>1. g \in Injection(S, T)
  BY DEF Injection, IsInjective
<1> QED BY <1>1, FS_Injection

\* What was done is no more than the calls it was done for.
LEMMA OrdersCounted ==
  ASSUME OrdersIInv, NEW E \in SUBSET (DOMAIN effects), NEW C \in SUBSET (DOMAIN orders),
         \A e \in E : effects[e].by \in C
  PROVE  /\ IsFiniteSet(C) /\ IsFiniteSet(E) /\ Cardinality(E) <= Cardinality(C)
         /\ Cardinality(E) \in Nat /\ Cardinality(C) \in Nat
<1>1. IsFiniteSet(1..Len(orders)) /\ DOMAIN orders = 1..Len(orders)
  BY OrderTypes, FS_Interval DEF OrdersIInv
<1>2. IsFiniteSet(C)
  BY <1>1, FS_Subset
<1> DEFINE g == [e \in E |-> effects[e].by]
<1>3. g \in [E -> C]
  OBVIOUS
<1>4. \A d, e \in E : g[d] = g[e] => d = e
  BY DEF OrdersIInv, Owned
<1> HIDE DEF g
<1> QED BY <1>2, <1>3, <1>4, OneToOne, FS_CardinalityType

LEMMA OrdersTypeOK == ASSUME OrdersIInv PROVE Once!TypeOK
<1>1. /\ DOMAIN orders = 1..Len(orders) /\ Len(orders) \in Nat
      /\ DOMAIN effects = 1..Len(effects) /\ Len(effects) \in Nat
      /\ \A e \in DOMAIN effects : effects[e] \in OrderEffects
  BY OrderTypes DEF OrdersIInv
<1>2. \A e \in DOMAIN effects : effects[e].by \in DOMAIN orders /\ effects[e].open \in BOOLEAN
  BY <1>1 DEF OrdersIInv, Owned, OrderEffects
<1>3. Cardinality(DOMAIN effects) <= Cardinality(DOMAIN orders)
  BY <1>2, OrdersCounted
<1>4. Cardinality(1..Len(effects)) = Len(effects) /\ Cardinality(1..Len(orders)) = Len(orders)
  <2>1. \A n \in Nat : Cardinality(1..n) = n
    BY FS_Interval
  <2> QED BY <1>1, <2>1
<1> QED BY <1>1, <1>2, <1>3, <1>4 DEF OrdersIInv, OrdersTyped, Once!TypeOK

\* What a caller without an error heard.
LEMMA OrdersHeard ==
  ASSUME OrdersIInv, NEW i \in DOMAIN orders, Once!IsDone(i)
  PROVE  /\ orders[i].landed /\ orders[i].sent /\ HeardOf(i) /\ ReplyTrue(i) /\ Asks(i)
         /\ orders[i] \in OrderRecords /\ orders[i].reply \in OrderReplies
         /\ orders[i].asked \in OrderAsks /\ user.client \in {"tasks", "rcproc", "mailer"}
<1>1. ~Once!HasFailed(i)
  BY DEF Once!IsDone, Once!HasFailed
<1>2. orders[i] \in OrderRecords
  BY OrderTypes DEF OrdersIInv
<1>3. orders[i].reply \in OrderReplies /\ orders[i].asked \in OrderAsks
  BY <1>2 DEF OrderRecords
<1> QED BY <1>1, <1>2, <1>3 DEF OrdersIInv, OrdersTyped, Progress

LEMMA OrdersAnswered == ASSUME OrdersIInv PROVE Once!Answered
<1> SUFFICES ASSUME NEW i \in DOMAIN orders
             PROVE  /\ Once!IsDone(i) /\ orders[i].told.fresh =>
                         orders[i].asked.op \in {"resolve", "status"} \/ Once!DoneFor(i) # {}
                    /\ ~orders[i].sent => Once!DoneFor(i) = {} /\ Once!HasFailed(i)
  BY DEF Once!Answered
<1>1. ASSUME Once!IsDone(i), orders[i].told.fresh,
             orders[i].asked.op \notin {"resolve", "status"}
      PROVE  \E e \in DOMAIN effects : effects[e].by = i
  <2>1. HeardOf(i) /\ ReplyTrue(i) /\ Asks(i) /\ user.client \in {"tasks", "rcproc", "mailer"}
    BY <1>1, OrdersHeard
  <2>2. CASE user.client = "tasks"
    BY <1>1, <2>1, <2>2 DEF HeardOf, ReplyTrue, OwnReply, Asks
  <2>3. CASE user.client = "rcproc"
    BY <1>1, <2>1, <2>3 DEF HeardOf, ReplyTrue, OwnReply, Asks
  <2>4. CASE user.client = "mailer"
    BY <1>1, <2>1, <2>4 DEF HeardOf, ReplyTrue, Served, Asks
  <2> QED BY <2>1, <2>2, <2>3, <2>4
<1>2. ASSUME ~orders[i].sent PROVE Once!DoneFor(i) = {} /\ Once!HasFailed(i)
  <2>1. Once!HasFailed(i) /\ ~orders[i].landed
    BY <1>2 DEF OrdersIInv, Progress
  <2>2. \A e \in DOMAIN effects : effects[e].by # i
    BY <2>1 DEF OrdersIInv, Owned
  <2> QED BY <2>1, <2>2 DEF Once!DoneFor
<1> QED BY <1>1, <1>2 DEF Once!DoneFor

LEMMA OrdersCreatedOnce == ASSUME OrdersIInv PROVE Once!CreatedOnce
<1> SUFFICES ASSUME user.client = "tasks", NEW e \in DOMAIN effects
             PROVE
               LET told == {i \in DOMAIN orders : Once!IsDone(i) /\ orders[i].told.id = e}
                   fresh == {i \in told : orders[i].asked.op = "create" /\ orders[i].told.fresh}
               IN /\ Once!Cardinality(fresh) <= 1 /\ fresh \subseteq {effects[e].by}
                  /\ \A i \in told : orders[i].asked.key = orders[effects[e].by].asked.key
                  /\ fresh = {} => ~Once!IsDone(effects[e].by)
  BY DEF Once!CreatedOnce
<1> DEFINE told == {i \in DOMAIN orders : Once!IsDone(i) /\ orders[i].told.id = e}
           fresh == {i \in told : orders[i].asked.op = "create" /\ orders[i].told.fresh}
           own == effects[e].by
<1>1. e \in Nat /\ e # 0
  BY OrderTypes DEF OrdersIInv
<1>2. ASSUME NEW i \in DOMAIN orders, Once!IsDone(i), orders[i].told.id = e
      PROVE  /\ orders[i].asked.key = orders[own].asked.key
             /\ orders[i].asked.op = "create" /\ orders[i].told.fresh => i = own
  <2>1. HeardOf(i) /\ ReplyTrue(i) /\ Asks(i)
    BY <1>2, OrdersHeard
  <2>2. /\ orders[i].reply.status = 200 /\ orders[i].reply.id = e
        /\ orders[i].told.fresh = orders[i].reply.fresh
        /\ orders[i].asked.op \in {"create", "resolve"}
    BY <1>2, <2>1 DEF HeardOf, Asks
  <2> QED BY <1>1, <2>1, <2>2 DEF ReplyTrue, KeyReply, OwnReply
<1>3. fresh \subseteq {own}
  BY <1>2
<1>4. \A i \in told : orders[i].asked.key = orders[own].asked.key
  BY <1>2
<1>5. ASSUME Once!IsDone(own) PROVE own \in fresh
  <2>1. Owned(e) /\ own \in DOMAIN orders
    BY DEF OrdersIInv, Owned
  <2>2. HeardOf(own) /\ Asks(own)
    BY <1>5, <2>1, OrdersHeard
  <2>3. ~Once!HasFailed(own)
    BY <1>5 DEF Once!IsDone, Once!HasFailed
  <2> QED BY <1>5, <2>1, <2>2, <2>3 DEF Owned, HeardOf, Asks
<1> HIDE DEF fresh
<1>6. Once!Cardinality(fresh) <= 1
  <2>1. IsFiniteSet({own}) /\ Cardinality({own}) = 1
    BY FS_Singleton
  <2>2. Cardinality(fresh) <= 1
    BY <1>3, <2>1, FS_Subset
  <2> QED BY <2>2, OrderCounts
<1> QED BY <1>3, <1>4, <1>5, <1>6 DEF fresh

LEMMA OrdersLeftOpen == ASSUME OrdersIInv PROVE Once!LeftOpen
<1> SUFFICES ASSUME user.client = "tasks", NEW k \in Keys, NEW r \in DOMAIN orders,
                    orders[r].asked = [op |-> "resolve", key |-> k], Once!IsDone(r),
                    {i \in DOMAIN orders : orders[i].asked.op = "create" /\ orders[i].asked.key = k}
                      \subseteq orders[r].after,
                    NEW e \in Once!OpenOf(k)
             PROVE  Once!HasFailed(effects[e].by)
  BY DEF Once!LeftOpen
<1> DEFINE i == effects[e].by
<1>1. e \in DOMAIN effects /\ effects[e].open /\ orders[i].asked.key = k
  BY DEF Once!OpenOf
<1>2. i \in DOMAIN orders /\ orders[i].asked.op = "create"
  BY <1>1 DEF OrdersIInv, Owned, Asks
<1>3. i \in orders[r].after /\ orders[i].told.kind # "none"
  BY <1>1, <1>2 DEF OrdersIInv, Progress
<1>4. orders[r].landed /\ orders[r].asked.op = "resolve" /\ orders[r].asked.key = k /\ Resolved(r)
  BY OrdersHeard DEF OrdersIInv
<1>5. ~Once!IsDone(i)
  BY <1>1, <1>3, <1>4 DEF Resolved
<1>6. orders[i].told.kind \in {"none", "failed", "done"}
  BY <1>2, OrderTypes DEF OrdersIInv, OrderRecords, OrderTold
<1> QED BY <1>3, <1>5, <1>6 DEF Once!IsDone, Once!HasFailed

LEMMA OrdersRepeatsOwed == ASSUME OrdersIInv PROVE Once!RepeatsOwed
<1> SUFFICES ASSUME user.client # "tasks", NEW i \in DOMAIN orders
             PROVE
               LET same == {j \in DOMAIN orders : orders[j].asked = orders[i].asked}
               IN Once!Cardinality(UNION {Once!DoneFor(j) : j \in same})
                    <= Once!Cardinality({j \in same : Once!HasFailed(j)})
                         + (IF \E j \in same : ~Once!HasFailed(j) THEN 1 ELSE 0)
  BY DEF Once!RepeatsOwed
<1> DEFINE same == {j \in DOMAIN orders : orders[j].asked = orders[i].asked}
           D == UNION {Once!DoneFor(j) : j \in same}
           F == {j \in same : Once!HasFailed(j)}
<1>1. same \in SUBSET (DOMAIN orders) /\ F \in SUBSET (DOMAIN orders)
  OBVIOUS
<1>2. D \in SUBSET (DOMAIN effects) /\ \A e \in D : effects[e].by \in same
  BY DEF Once!DoneFor
<1>3. user.client \in {"rcproc", "mailer"} /\ DOMAIN orders \subseteq Nat
  BY OrderTypes DEF OrdersIInv, OrdersTyped
<1>4. orders[i].asked.op \in {"process", "sync", "mail", "status"}
  BY <1>3 DEF OrdersIInv, Asks
<1>5. CASE orders[i].asked.op = "status"
  <2>1. D = {}
    BY <1>2, <1>5 DEF OrdersIInv, Owned
  <2>2. Cardinality(D) = 0 /\ IsFiniteSet(F)
    BY <1>1, <2>1, FS_EmptySet, OrdersCounted
  <2> HIDE DEF F, D, same
  <2>3. Cardinality(F) \in Nat
    BY <2>2, FS_CardinalityType
  <2> QED BY <2>2, <2>3, OrderCounts DEF F, D, same
<1>6. CASE orders[i].asked.op # "status"
  <2>1. ASSUME NEW j \in same, NEW k \in same, ~Once!HasFailed(j), ~Once!HasFailed(k)
        PROVE  j = k
    <3>1. j \in Nat /\ k \in Nat
      BY <1>3
    <3>2. AskedAgain(j) /\ AskedAgain(k)
      BY DEF OrdersIInv
    <3> QED BY <1>4, <1>6, <2>1, <3>1, <3>2 DEF AskedAgain
  <2>2. /\ IsFiniteSet(same) /\ Cardinality(D) <= Cardinality(same)
        /\ Cardinality(D) \in Nat /\ Cardinality(same) \in Nat
    BY <1>1, <1>2, OrdersCounted
  <2>3. IsFiniteSet(F) /\ Cardinality(F) \in Nat
    BY <1>1, <2>2, FS_Subset, FS_CardinalityType
  <2>4. CASE \E j \in same : ~Once!HasFailed(j)
    <3>1. PICK j \in same : ~Once!HasFailed(j)
      BY <2>4
    <3>2. same = F \cup {j} /\ j \notin F
      BY <2>1, <3>1
    <3> HIDE DEF F, D, same
    <3>3. Cardinality(same) = Cardinality(F) + 1
      BY <2>3, <3>2, FS_AddElement
    <3>4. Cardinality(D) <= Cardinality(F) + 1
      BY <2>2, <2>3, <3>3
    <3> QED BY <2>4, <3>4, OrderCounts DEF F, D, same
  <2>5. CASE ~ \E j \in same : ~Once!HasFailed(j)
    <3>1. same = F
      BY <2>5
    <3> HIDE DEF F, D, same
    <3>2. Cardinality(D) <= Cardinality(F) + 0
      BY <2>2, <2>3, <3>1
    <3> QED BY <2>5, <3>2, OrderCounts DEF F, D, same
  <2> QED BY <2>4, <2>5
<1> QED BY <1>5, <1>6

LEMMA OrdersHandles == ASSUME OrdersIInv PROVE Once!Handles
<1> SUFFICES ASSUME NEW i \in DOMAIN orders, Once!IsDone(i)
             PROVE
               /\ orders[i].asked.op = "process" => orders[i].told.id \in Once!DoneFor(i)
               /\ orders[i].asked.op = "status" =>
                    /\ orders[i].told.id = orders[i].asked.handle
                    /\ orders[i].told.fresh => ~effects[orders[i].told.id].open
               /\ orders[i].asked.op = "mail" =>
                    /\ orders[i].told.id \in Once!DoneFor(i) \cup {0}
                    /\ Once!SenderOf(user.config) = "smtp" => orders[i].told.id = 0
                    /\ orders[i].told.id = 0 =>
                         Once!SenderOf(user.config) = "smtp" \/ orders[i].reply.body = "garbled"
  BY DEF Once!Handles
<1>1. HeardOf(i) /\ ReplyTrue(i) /\ Asks(i) /\ user.client \in {"tasks", "rcproc", "mailer"}
  BY OrdersHeard
<1>2. ASSUME orders[i].asked.op = "process" PROVE orders[i].told.id \in Once!DoneFor(i)
  <2>1. user.client = "rcproc"
    BY <1>1, <1>2 DEF Asks
  <2> QED BY <1>1, <1>2, <2>1 DEF HeardOf, ReplyTrue, OwnReply, Once!DoneFor
<1>3. ASSUME orders[i].asked.op = "status"
      PROVE  /\ orders[i].told.id = orders[i].asked.handle
             /\ orders[i].told.fresh => ~effects[orders[i].told.id].open
  <2>1. user.client = "rcproc"
    BY <1>1, <1>3 DEF Asks
  <2> QED BY <1>1, <1>3, <2>1 DEF HeardOf, ReplyTrue, FileReply
<1>4. ASSUME orders[i].asked.op = "mail"
      PROVE  /\ orders[i].told.id \in Once!DoneFor(i) \cup {0}
             /\ Once!SenderOf(user.config) = "smtp" => orders[i].told.id = 0
             /\ orders[i].told.id = 0 =>
                  Once!SenderOf(user.config) = "smtp" \/ orders[i].reply.body = "garbled"
  <2>1. user.client = "mailer"
    BY <1>1, <1>4 DEF Asks
  <2> QED BY <1>1, <1>4, <2>1 DEF HeardOf, ReplyTrue, OwnReply, Once!DoneFor
<1> QED BY <1>2, <1>3, <1>4

LEMMA OrdersAttachments == ASSUME OrdersIInv PROVE Once!AttachmentsSound
<1> SUFFICES ASSUME user.client = "mailer", NEW e \in DOMAIN effects, NEW f \in Files
             PROVE  f \in effects[e].files <=>
                      f.name # "" /\ f.content # "" /\ f \in orders[effects[e].by].asked.files
  BY DEF Once!AttachmentsSound
<1>1. effects[e].files = Once!Attached(orders[effects[e].by].asked.files)
  BY DEF OrdersIInv, Owned
<1> QED BY <1>1 DEF Once!Attached

LEMMA OrdersHold == OrdersIInv => Once!OrdersSound
BY OrdersTypeOK, OrdersAnswered, OrdersCreatedOnce, OrdersLeftOpen, OrdersRepeatsOwed,
   OrdersHandles, OrdersAttachments DEF OrdersIInv, Once!OrdersSound
===============================================================================
