------------------------------ MODULE UspsToken ------------------------------
(***************************************************************************)
(* The OAuth token of one USPS credential (client/usps): a value and an    *)
(* expiry behind a mutex that is held while a token is fetched.  A caller  *)
(* is one VerifyAddress call: it takes the cached token or fetches one,    *)
(* sends its request and, refused, clears the cache and tries once more.   *)
(* USPS's tokens expire, may be revoked, and the credential may be barred. *)
(***************************************************************************)
EXTENDS Naturals, FiniteSets

CONSTANTS
  Callers,
  NoOne,
  TTL,             \* expires_in of a token
  Skew,            \* tokenRefreshSkew
  Timeout,         \* of one HTTP exchange
  MaxRevocations,
  MaxFaults        \* timeouts, cancelled contexts, answers that are errors

UspsAssumption ==
  /\ NoOne \notin Callers
  /\ IsFiniteSet(Callers)
  /\ TTL \in Nat /\ Skew \in Nat /\ Timeout \in Nat
  /\ MaxRevocations \in Nat /\ MaxFaults \in Nat
  /\ Skew >= 2 * Timeout   \* 60 s and 30 s
  /\ TTL > Skew            \* 8 hours

VARIABLES
  value, left, lock,       \* cachedToken: value (0 when ""), time to expiresAt, mu
  pc, retry, bearer, wire, \* a call: place, retryOnAuth, token, time on the wire
  issued, life, dead,      \* USPS: tokens issued, their time to live, revoked ones
  valid,                   \* the credential is accepted
  revocations, faults

slot == <<value, left, lock>>
usps == <<issued, life, dead, valid, revocations>>
vars == <<slot, pc, retry, bearer, wire, usps, faults>>

\* A call fetches at most twice.
Tokens == 1 .. 2 * Cardinality(Callers)

Exchanging == {"fetching", "issued", "sending"}
Answers == {"done", "denied", "failed"}

Init ==
  /\ value = 0 /\ left = 0 /\ lock = NoOne
  /\ pc = [c \in Callers |-> "idle"]
  /\ retry = [c \in Callers |-> TRUE]
  /\ bearer = [c \in Callers |-> 0]
  /\ wire = [c \in Callers |-> 0]
  /\ issued = 0
  /\ life = [t \in Tokens |-> 0]
  /\ dead = {}
  /\ valid = TRUE
  /\ revocations = 0
  /\ faults = MaxFaults

-----------------------------------------------------------------------------
(* A call.                                                                 *)

\* VerifyAddress.
Call(c) ==
  /\ pc[c] = "idle"
  /\ pc' = [pc EXCEPT ![c] = "token"]
  /\ UNCHANGED <<slot, retry, bearer, wire, usps, faults>>

\* (broken) A token is used up to its last second.
ReusableToTheEnd == value # 0 /\ left > 0

Reusable == value # 0 /\ left > Skew

\* It sends its request with the token t.
Send(c, t) ==
  /\ pc' = [pc EXCEPT ![c] = "sending"]
  /\ bearer' = [bearer EXCEPT ![c] = t]
  /\ wire' = [wire EXCEPT ![c] = 0]

\* token: the mutex is taken and released.
Reuse(c) ==
  /\ pc[c] = "token"
  /\ lock = NoOne
  /\ Reusable
  /\ Send(c, value)
  /\ UNCHANGED <<slot, retry, usps, faults>>

\* (broken) The token is fetched without the mutex.
StartFetchUnlocked(c) ==
  /\ pc[c] = "token"
  /\ lock = NoOne
  /\ ~ Reusable
  /\ pc' = [pc EXCEPT ![c] = "fetching"]
  /\ wire' = [wire EXCEPT ![c] = 0]
  /\ UNCHANGED <<slot, retry, bearer, usps, faults>>

\* token: the mutex is kept, a token asked for.
StartFetch(c) ==
  /\ pc[c] = "token"
  /\ lock = NoOne
  /\ ~ Reusable
  /\ lock' = c
  /\ pc' = [pc EXCEPT ![c] = "fetching"]
  /\ wire' = [wire EXCEPT ![c] = 0]
  /\ UNCHANGED <<value, left, retry, bearer, usps, faults>>

\* USPS issues a token; its life begins.
Issue(c) ==
  /\ pc[c] = "fetching"
  /\ valid
  /\ issued' = issued + 1
  /\ life' = [life EXCEPT ![issued + 1] = TTL]
  /\ bearer' = [bearer EXCEPT ![c] = issued + 1]
  /\ pc' = [pc EXCEPT ![c] = "issued"]
  /\ UNCHANGED <<slot, retry, wire, dead, valid, revocations, faults>>

\* (broken) The fetched token is used but not kept.
StoreNothing(c) ==
  /\ pc[c] = "issued"
  /\ lock' = NoOne
  /\ Send(c, bearer[c])
  /\ UNCHANGED <<value, left, retry, usps, faults>>

\* The answer is stored, with expires_in counted from its arrival.
Store(c) ==
  /\ pc[c] = "issued"
  /\ value' = bearer[c]
  /\ left' = TTL
  /\ lock' = NoOne
  /\ Send(c, bearer[c])
  /\ UNCHANGED <<retry, usps, faults>>

\* fetchToken: 401 or 403.
FetchRefused(c) ==
  /\ pc[c] = "fetching"
  /\ ~ valid
  /\ lock' = NoOne
  /\ pc' = [pc EXCEPT ![c] = "denied"]
  /\ UNCHANGED <<value, left, retry, bearer, wire, usps, faults>>

\* (broken) An error return leaves the mutex locked.
FetchFailsLocked(c) ==
  /\ pc[c] \in {"fetching", "issued"}
  /\ faults > 0
  /\ faults' = faults - 1
  /\ pc' = [pc EXCEPT ![c] = "failed"]
  /\ UNCHANGED <<slot, retry, bearer, wire, usps>>

\* Any other failure of the fetch.
FetchFails(c) ==
  /\ pc[c] \in {"fetching", "issued"}
  /\ faults > 0
  /\ faults' = faults - 1
  /\ lock' = NoOne
  /\ pc' = [pc EXCEPT ![c] = "failed"]
  /\ UNCHANGED <<value, left, retry, bearer, wire, usps>>

\* The request reaches USPS, which looks at the token.
Serve(c) ==
  /\ pc[c] = "sending"
  /\ pc' = [pc EXCEPT ![c] = IF life[bearer[c]] > 0 /\ bearer[c] \notin dead
                             THEN "done" ELSE "refused"]
  /\ UNCHANGED <<slot, retry, bearer, wire, usps, faults>>

\* The request fails otherwise.
RequestFails(c) ==
  /\ pc[c] = "sending"
  /\ faults > 0
  /\ faults' = faults - 1
  /\ pc' = [pc EXCEPT ![c] = "failed"]
  /\ UNCHANGED <<slot, retry, bearer, wire, usps>>

\* invalidateToken, whoever's token the slot holds by now; the call goes on
\* without a further retry.
Invalidate(c) ==
  /\ pc[c] = "refused"
  /\ retry[c]
  /\ lock = NoOne
  /\ value' = 0
  /\ retry' = [retry EXCEPT ![c] = FALSE]
  /\ pc' = [pc EXCEPT ![c] = "token"]
  /\ UNCHANGED <<left, lock, bearer, wire, usps, faults>>

\* *AuthError: the caller deactivates the company's integration.
Deny(c) ==
  /\ pc[c] = "refused"
  /\ ~ retry[c]
  /\ pc' = [pc EXCEPT ![c] = "denied"]
  /\ UNCHANGED <<slot, retry, bearer, wire, usps, faults>>

-----------------------------------------------------------------------------
(* USPS and time.                                                          *)

\* All tokens issued so far stop working.
Revoke ==
  /\ revocations < MaxRevocations
  /\ issued > 0
  /\ revocations' = revocations + 1
  /\ dead' = 1 .. issued
  /\ UNCHANGED <<slot, pc, retry, bearer, wire, issued, life, valid, faults>>

\* So does the credential.
Bar ==
  /\ valid
  /\ valid' = FALSE
  /\ dead' = 1 .. issued
  /\ UNCHANGED <<slot, pc, retry, bearer, wire, issued, life, revocations, faults>>

Minus(n) == IF n > 0 THEN n - 1 ELSE 0

\* Time passes, but not past the deadline of an exchange.
Tick ==
  /\ \A c \in Callers : pc[c] \in Exchanging => wire[c] < Timeout
  /\ wire' = [c \in Callers |-> IF pc[c] \in Exchanging THEN wire[c] + 1 ELSE 0]
  /\ left' = Minus(left)
  /\ life' = [t \in Tokens |-> Minus(life[t])]
  /\ UNCHANGED <<value, lock, pc, retry, bearer, issued, dead, valid, revocations, faults>>

-----------------------------------------------------------------------------
Proceed(c) ==
  \/ Reuse(c) \/ StartFetch(c) \/ Issue(c) \/ Store(c) \/ FetchRefused(c)
  \/ FetchFails(c) \/ Serve(c) \/ RequestFails(c) \/ Invalidate(c) \/ Deny(c)

Next == Revoke \/ Bar \/ Tick \/ \E c \in Callers : Call(c) \/ Proceed(c)

Spec == Init /\ [][Next]_vars

\* A goroutine goes on when it can; an exchange ends by its timeout; Go's mutex
\* is handed to whoever waits for long.
Fairness == \A c \in Callers : SF_vars(Proceed(c))

FairSpec == Spec /\ Fairness

-----------------------------------------------------------------------------
(* Properties.                                                             *)

\* Every variable keeps its type; the mutex is held by the one that fetches.
TypeOK ==
  /\ value \in 0 .. issued
  /\ left \in 0 .. TTL
  /\ lock \in Callers \cup {NoOne}
  /\ pc \in [Callers -> {"idle", "token", "refused"} \cup Exchanging \cup Answers]
  /\ retry \in [Callers -> BOOLEAN]
  /\ bearer \in [Callers -> 0 .. issued]
  /\ wire \in [Callers -> 0 .. Timeout]
  /\ issued \in {0} \cup Tokens
  /\ life \in [Tokens -> 0 .. TTL]
  /\ dead \subseteq 1 .. issued
  /\ valid \in BOOLEAN
  /\ revocations \in 0 .. MaxRevocations
  /\ faults \in 0 .. MaxFaults
  /\ \A c \in Callers : pc[c] \in {"fetching", "issued"} <=> lock = c

\* tokenRefreshSkew "so an in-flight request never races the expiry": no token
\* expires on its way, neither a reused one nor one that was just fetched,
\* although its life began before expires_in is counted.
ExpiryCovered == \A c \in Callers : pc[c] = "sending" => life[bearer[c]] > 0

\* Types and the safety margin on expiry together.
TokenSound == TypeOK /\ ExpiryCovered

\* A single revocation costs no caller its request: with a good credential an
\* AuthError, upon which the integration is deactivated, takes two.
DenialsOwed ==
  \A c \in Callers : pc[c] = "denied" => ~ valid \/ revocations >= 2

Invalidations == Cardinality({c \in Callers : ~ retry[c]})

AllLong == \A t \in 1 .. issued : life[t] > Skew

\* Callers share fetches: while no token nears its expiry, every fetch but the
\* first is owed to a refused caller or to a failure.
FetchesOwed == AllLong => issued <= 1 + Invalidations + (MaxFaults - faults)

\* Concurrent callers collapse onto a single refresh (usps.go:245-247).
SingleRefresh ==
  AllLong /\ faults = MaxFaults => issued <= 1 + revocations

\* No call is under way.
AllAnswered == \A c \in Callers : pc[c] \in {"idle"} \cup Answers

\* Every call ends (VerifyAddress): each is made once.
EveryoneAnswered == <>[]AllAnswered
=============================================================================
