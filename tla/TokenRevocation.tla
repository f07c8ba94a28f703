--------------------------- MODULE TokenRevocation ---------------------------
(***************************************************************************)
(* Revocation of a user's access tokens (auth/token_revocation.go): a      *)
(* cutoff in Redis, stamped by the clock of the replica that revokes, is   *)
(* compared on every request with the time of issue, stamped by the clock  *)
(* of the replica that minted the token.  A SET takes time, and the SETs   *)
(* of two administrators or workers may land in either order.              *)
(***************************************************************************)
EXTENDS Integers, FiniteSets, TLAPS

CONSTANTS
  Replicas,
  Revokers,    \* calls of RevokeUserTokens for the user
  Spread,      \* how far two replicas' clocks may be apart
  Skew,        \* RevocationClockSkew
  Lag,         \* the deadline of one SET
  Life,        \* the longest lifetime of an access token
  MarkerTTL,   \* TokensValidAfterTTL
  MaxTokens,
  Horizon      \* where TLC stops the clock

ASSUME RevocationAssumption ==
  /\ Spread \in Nat /\ Skew \in Nat /\ Lag \in Nat
  /\ Life \in Nat /\ MarkerTTL \in Nat
  /\ Spread <= Skew       \* "a few seconds" and 5 s
  /\ Life <= MarkerTTL    \* 7 days and 8 days
  /\ MaxTokens \in Nat /\ Horizon \in Nat

VARIABLES
  now,        \* real time, in seconds
  ahead,      \* how far the clock of a replica is ahead of the slowest
  tokens,     \* the user's tokens: time of issue (iat), true time of issue (born)
  marker,     \* tokens_valid_after: the cutoff and when the key expires
  pc, start, cutoff,   \* a RevokeUserTokens: place, true time of the call, value
  completed,  \* history: when the calls that returned nil were made
  up          \* Redis answers

revoking == <<pc, start, cutoff>>
vars == <<now, ahead, tokens, marker, revoking, completed, up>>

Clock(r) == now + ahead[r]

Init ==
  /\ now = 0
  /\ ahead \in [Replicas -> 0 .. Spread]
  /\ tokens = {}
  /\ marker = [cutoff |-> 0, expires |-> 0]
  /\ pc = [a \in Revokers |-> "idle"]
  /\ start = [a \in Revokers |-> 0]
  /\ cutoff = [a \in Revokers |-> 0]
  /\ completed = {}
  /\ up = TRUE

-----------------------------------------------------------------------------
\* tms-auth mints a token for the user, as long as a session is left.
Mint(r) ==
  /\ Cardinality(tokens) < MaxTokens
  /\ tokens' = tokens \cup {[iat |-> Clock(r), born |-> now]}
  /\ UNCHANGED <<now, ahead, marker, revoking, completed, up>>

\* RevokeUserTokens reads the clock ...
Stamp(a, r) ==
  /\ pc[a] = "idle"
  /\ pc' = [pc EXCEPT ![a] = "setting"]
  /\ start' = [start EXCEPT ![a] = now]
  /\ cutoff' = [cutoff EXCEPT ![a] = Clock(r)]
  /\ UNCHANGED <<now, ahead, tokens, marker, completed, up>>

\* (broken) A cutoff of an earlier call is never replaced.
SetOnce(a) == IF now < marker.expires THEN UNCHANGED marker
              ELSE marker' = [cutoff |-> cutoff[a], expires |-> now + MarkerTTL]

\* (broken) The lifetime counts from the cutoff.
SetFromCutoff(a) ==
  marker' = [cutoff |-> cutoff[a], expires |-> cutoff[a] + MarkerTTL + Spread]

\* ... and sets the marker, whatever is there.
Set(a) == marker' = [cutoff |-> cutoff[a], expires |-> now + MarkerTTL]

Land(a) ==
  /\ pc[a] = "setting"
  /\ up
  /\ Set(a)
  /\ pc' = [pc EXCEPT ![a] = "done"]
  /\ completed' = completed \cup {start[a]}
  /\ UNCHANGED <<now, ahead, tokens, start, cutoff, up>>

\* An error, which the caller logs: the SET has failed, or its reply is lost.
Fail(a) ==
  /\ pc[a] = "setting"
  /\ pc' = [pc EXCEPT ![a] = "failed"]
  /\ UNCHANGED marker \/ (up /\ Set(a))
  /\ UNCHANGED <<now, ahead, tokens, start, cutoff, completed, up>>

Outage == up' = ~ up /\ UNCHANGED <<now, ahead, tokens, marker, revoking, completed>>

\* Time passes, but not past the deadline of a SET.
Tick ==
  /\ now < Horizon
  /\ \A a \in Revokers : pc[a] = "setting" => now < start[a] + Lag
  /\ now' = now + 1
  /\ UNCHANGED <<ahead, tokens, marker, revoking, completed, up>>

Next ==
  \/ Tick
  \/ Outage
  \/ \E r \in Replicas : Mint(r) \/ \E a \in Revokers : Stamp(a, r)
  \/ \E a \in Revokers : Land(a) \/ Fail(a)

Spec == Init /\ [][Next]_vars

-----------------------------------------------------------------------------
(* The gate, on every request.                                             *)

\* (broken) The slack is taken in the cutoff's favour.
IssuedBeforeCutoffStrict(iat, c) == iat < c + Skew

IssuedBeforeCutoff(iat, c) == iat + Skew < c

\* TokenRevoked: a missing key and an error both mean "not revoked".
TokenRevoked(t) ==
  /\ up
  /\ now < marker.expires
  /\ IssuedBeforeCutoff(t.iat, marker.cutoff)

\* parseAuthToken refuses an expired token, IdentifyUserPerms a revoked one.
Admitted(t, r) == Clock(r) < t.iat + Life /\ ~ TokenRevoked(t)

-----------------------------------------------------------------------------
(* Properties.                                                             *)

\* Every variable keeps its type; a call is answered by its deadline; the
\* marker's cutoff comes from a clock, its expiry from Redis.
TypeOK ==
  /\ now \in Nat
  /\ ahead \in [Replicas -> 0 .. Spread]
  /\ \A t \in tokens : t.iat \in Nat /\ t.born \in 0 .. now /\ t.iat - t.born \in 0 .. Spread
  /\ marker.cutoff \in 0 .. now + Spread
  /\ marker.expires \in 0 .. now + MarkerTTL
  /\ pc \in [Revokers -> {"idle", "setting", "done", "failed"}]
  /\ start \in [Revokers -> 0 .. now]
  /\ cutoff \in [Revokers -> Nat]
  /\ completed \subseteq 0 .. now
  /\ up \in BOOLEAN
  /\ \A a \in Revokers :
       /\ cutoff[a] \in start[a] .. start[a] + Spread
       /\ pc[a] = "setting" => now <= start[a] + Lag

\* Whatever marker is there covers every completed revocation, but for the time
\* the SETs took, and lives until the tokens it is meant for have expired.
MarkerSound ==
  \A s \in completed : marker.cutoff + Lag >= s /\ marker.expires >= s + MarkerTTL

\* Its cutoff belongs to a revocation that has begun.
MarkerCaused ==
  \/ marker.cutoff = 0
  \/ \E a \in Revokers : pc[a] # "idle" /\ marker.cutoff <= start[a] + Spread

\* What the two promises below follow from.
IInv == TypeOK /\ MarkerSound /\ MarkerCaused

RefusedBy(margin) ==
  \A t \in tokens, s \in completed, r \in Replicas :
    up /\ t.born + margin < s => ~ Admitted(t, r)

\* A token that is older than a completed revocation by more than the slack,
\* the spread of the clocks and the time a SET may take is refused everywhere
\* and for ever, whatever revocations come later and although the marker
\* expires.
RevokedStaysRevoked == RefusedBy(Skew + Spread + Lag)

\* A token minted after the last revocation began is never refused: a session
\* that is left recovers, whichever replicas' clocks are involved.
LaterTokensLive ==
  \A t \in tokens, r \in Replicas :
    /\ \A a \in Revokers : pc[a] # "idle" => start[a] <= t.born
    /\ Clock(r) < t.iat + Life
    => Admitted(t, r)

\* "Every access token this user already holds is refused on its next request"
\* (token_revocation.go:51), less the clock slack.
HeldTokensRefused == RefusedBy(Skew + Spread)

-----------------------------------------------------------------------------
(* Proofs, for any replicas, clocks and revocations.                       *)

USE RevocationAssumption

LEMMA InitIInv == Init => IInv
  BY DEF Init, IInv, TypeOK, MarkerSound, MarkerCaused

\* The type invariant is kept.
LEMMA NextTypeOK == TypeOK /\ [Next]_vars => TypeOK'
  <1> SUFFICES ASSUME TypeOK, [Next]_vars PROVE TypeOK'
    OBVIOUS
  <1>1. CASE UNCHANGED vars
    BY <1>1 DEF TypeOK, vars, revoking
  <1>2. CASE Tick
    BY <1>2 DEF Tick, TypeOK, revoking
  <1>3. CASE Outage
    BY <1>3 DEF Outage, TypeOK, revoking
  <1>4. ASSUME NEW r \in Replicas, Mint(r) PROVE TypeOK'
    BY <1>4 DEF Mint, TypeOK, revoking, Clock
  <1>5. ASSUME NEW r \in Replicas, NEW a \in Revokers, Stamp(a, r) PROVE TypeOK'
    BY <1>5 DEF Stamp, TypeOK, revoking, Clock
  <1>6. ASSUME NEW a \in Revokers, Land(a) PROVE TypeOK'
    <2>1. marker'.cutoff \in 0 .. now + Spread /\ marker'.expires \in 0 .. now + MarkerTTL
      BY <1>6 DEF Land, Set, TypeOK
    <2>2. /\ pc' \in [Revokers -> {"idle", "setting", "done", "failed"}]
          /\ completed' \subseteq 0 .. now
      BY <1>6 DEF Land, TypeOK
    <2>3. /\ UNCHANGED <<now, ahead, tokens, start, cutoff, up>>
          /\ \A b \in Revokers : pc'[b] = "setting" => pc[b] = "setting"
      BY <1>6 DEF Land, TypeOK
    <2> QED BY <2>1, <2>2, <2>3 DEF TypeOK
  <1>7. ASSUME NEW a \in Revokers, Fail(a) PROVE TypeOK'
    <2>1. marker'.cutoff \in 0 .. now + Spread /\ marker'.expires \in 0 .. now + MarkerTTL
      BY <1>7 DEF Fail, Set, TypeOK
    <2>2. pc' \in [Revokers -> {"idle", "setting", "done", "failed"}]
      BY <1>7 DEF Fail, TypeOK
    <2>3. /\ UNCHANGED <<now, ahead, tokens, start, cutoff, completed, up>>
          /\ \A b \in Revokers : pc'[b] = "setting" => pc[b] = "setting"
      BY <1>7 DEF Fail, TypeOK
    <2> QED BY <2>1, <2>2, <2>3 DEF TypeOK
  <1> QED BY <1>1, <1>2, <1>3, <1>4, <1>5, <1>6, <1>7 DEF Next

\* So is what the marker says: a SET that lands was stamped at most Lag ago.
LEMMA NextMarker == IInv /\ [Next]_vars => MarkerSound' /\ MarkerCaused'
  <1> SUFFICES ASSUME IInv, [Next]_vars PROVE MarkerSound' /\ MarkerCaused'
    OBVIOUS
  <1> USE DEF IInv, MarkerSound, MarkerCaused
  <1>1. CASE UNCHANGED <<marker, revoking, completed>>
    BY <1>1 DEF revoking
  <1>2. ASSUME NEW r \in Replicas, NEW a \in Revokers, Stamp(a, r)
        PROVE  MarkerSound' /\ MarkerCaused'
    BY <1>2 DEF Stamp, TypeOK, revoking
  <1>3. ASSUME NEW a \in Revokers, pc[a] = "setting", Set(a), UNCHANGED <<start, cutoff>>,
               pc' \in {[pc EXCEPT ![a] = "done"], [pc EXCEPT ![a] = "failed"]},
               completed' \subseteq completed \cup {start[a]}
        PROVE  MarkerSound' /\ MarkerCaused'
    <2>1. \A s \in completed' : s <= now /\ s \in Nat
      BY <1>3 DEF TypeOK
    <2>2. /\ marker'.cutoff = cutoff[a]
          /\ marker'.expires = now + MarkerTTL
      BY <1>3 DEF Set
    <2>3. /\ cutoff[a] \in start[a] .. start[a] + Spread
          /\ start[a] \in Nat /\ now \in Nat
          /\ now <= start[a] + Lag
      BY <1>3 DEF TypeOK
    <2>4. MarkerSound'
      BY <2>1, <2>2, <2>3
    <2>5. pc'[a] # "idle" /\ start'[a] = start[a]
      BY <1>3 DEF TypeOK
    <2>6. MarkerCaused'
      BY <2>2, <2>3, <2>5
    <2> QED BY <2>4, <2>6
  <1>4. ASSUME NEW a \in Revokers, Land(a) PROVE MarkerSound' /\ MarkerCaused'
    BY <1>3, <1>4 DEF Land
  <1>5. ASSUME NEW a \in Revokers, Fail(a) PROVE MarkerSound' /\ MarkerCaused'
    <2>1. CASE UNCHANGED marker
      BY <1>5, <2>1 DEF Fail, TypeOK
    <2>2. CASE Set(a)
      BY <1>3, <1>5, <2>2 DEF Fail
    <2> QED BY <1>5, <2>1, <2>2 DEF Fail
  <1> QED BY <1>1, <1>2, <1>4, <1>5 DEF Next, Tick, Outage, Mint, vars

\* The invariant the two properties rest on.
THEOREM Invariant == Spec => []IInv
  <1>1. IInv /\ [Next]_vars => IInv'
    BY NextTypeOK, NextMarker DEF IInv
  <1> QED BY InitIInv, <1>1, PTL DEF Spec

\* Type correctness; a SET is never older than its deadline when it lands.
THEOREM TypeCorrect == Spec => []TypeOK
  <1>1. IInv => TypeOK
    BY DEF IInv
  <1> QED BY <1>1, Invariant, PTL

\* A token older than a completed revocation by more than clock slack, spread
\* and the duration of a SET is refused by every replica from then on.
THEOREM Revoked == Spec => []RevokedStaysRevoked
  <1>1. IInv => RevokedStaysRevoked
    <2> SUFFICES ASSUME IInv, NEW t \in tokens, NEW s \in completed, NEW r \in Replicas,
                        up, t.born + (Skew + Spread + Lag) < s
                 PROVE  ~ Admitted(t, r)
      BY DEF RevokedStaysRevoked, RefusedBy
    <2>1. /\ t.iat \in Nat /\ t.born \in Nat /\ t.iat <= t.born + Spread
          /\ s \in Nat /\ now \in Nat /\ ahead[r] \in Nat
          /\ marker.cutoff \in Nat /\ marker.expires \in Nat
      BY DEF IInv, TypeOK
    <2>2. marker.cutoff + Lag >= s /\ marker.expires >= s + MarkerTTL
      BY DEF IInv, MarkerSound
    <2>3. CASE now < marker.expires
      BY <2>1, <2>2, <2>3 DEF Admitted, TokenRevoked, IssuedBeforeCutoff
    <2>4. CASE now >= marker.expires
      BY <2>1, <2>2, <2>4 DEF Admitted, Clock
    <2> QED BY <2>1, <2>3, <2>4
  <1> QED BY <1>1, Invariant, PTL

\* A token minted after the last revocation began is accepted everywhere.
THEOREM Recovery == Spec => []LaterTokensLive
  <1>1. IInv => LaterTokensLive
    <2> SUFFICES ASSUME IInv, NEW t \in tokens, NEW r \in Replicas,
                        \A a \in Revokers : pc[a] # "idle" => start[a] <= t.born,
                        Clock(r) < t.iat + Life
                 PROVE  Admitted(t, r)
      BY DEF LaterTokensLive
    <2>1. /\ t.iat \in Nat /\ t.born \in Nat /\ t.born <= t.iat
          /\ marker.cutoff \in Nat
          /\ \A a \in Revokers : start[a] \in Nat
      BY DEF IInv, TypeOK
    <2>2. marker.cutoff <= t.born + Spread
      BY <2>1 DEF IInv, MarkerCaused
    <2> QED BY <2>1, <2>2 DEF Admitted, TokenRevoked, IssuedBeforeCutoff
  <1> QED BY <1>1, Invariant, PTL
=============================================================================
