------------------------------ MODULE RateLimit ------------------------------
(***************************************************************************)
(* The rate limit of authenticated traffic (middleware, ratelimit): the    *)
(* hits of one (user, IP) on all replicas of all services count against    *)
(* one Redis key, whose expiry is set by the hit that creates it.  While   *)
(* Redis does not answer, requests pass.                                   *)
(***************************************************************************)
EXTENDS Naturals, FiniteSets

CONSTANTS
  Default,    \* DefaultAuthRateLimitMax
  Settings,   \* values RATE_LIMIT_AUTH_MAX and WithAuthRateLimit may have, 0: none
  Window,     \* PEXPIRE
  MaxHits     \* where counting stops: beyond every ceiling

RateAssumption ==
  /\ Default \in Nat \ {0} /\ Window \in Nat \ {0}
  /\ Settings \subseteq Nat
  /\ MaxHits \in Nat /\ \A c \in Settings \cup {Default} : MaxHits > c

VARIABLES
  env, option,  \* the configuration of the process
  max,          \* cfg.max
  count, ttl,   \* the key: counter and time to live, 0 when there is none
  up,           \* Redis answers
  recent,       \* history: requests admitted by count: the hit each was, and its age
  last          \* the answer to the last request

config == <<env, option, max>>
limitVars == <<env, option, max, count, ttl, up, recent, last>>

Ages == 0 .. Window - 1

\* The options are applied to what envInt has returned.
Configure(e, o) == IF o > 0 THEN o ELSE IF e > 0 THEN e ELSE Default

RateInit ==
  /\ env \in Settings /\ option \in Settings
  /\ max = Configure(env, option)
  /\ count = 0 /\ ttl = 0
  /\ up = TRUE
  /\ recent = {}
  /\ last = "none"

-----------------------------------------------------------------------------
\* INCR; counts beyond every ceiling are not told apart.
Incremented == IF count < MaxHits THEN count + 1 ELSE count

\* (broken) Every hit renews the expiry.
CountHitRenews ==
  /\ count' = Incremented
  /\ ttl' = Window

\* (broken) The expiry is set by a hit after the first.
CountHitLate ==
  /\ count' = Incremented
  /\ ttl' = IF count' = max THEN Window ELSE ttl

\* incrExpireScript, one step in Redis.
CountHit ==
  /\ count' = Incremented
  /\ ttl' = IF count' = 1 THEN Window ELSE ttl

Within(n) == n <= max

\* A user's request: anonymous, guest and system actors pass uncounted.  Counting starts
\* over as time passes, so hits of one age differ in their number.
RequestCounted ==
  /\ up
  /\ CountHit
  /\ last' = IF Within(count') THEN "admitted" ELSE "throttled"
  /\ recent' = IF Within(count') THEN recent \cup {<<count', 0>>} ELSE recent
  /\ UNCHANGED <<config, up>>

\* Redis is nil or returns an error: fail open, with a log line.
RequestUncounted ==
  /\ ~ up
  /\ last' = "passed"
  /\ UNCHANGED <<config, count, ttl, up, recent>>

Outage == up' = ~ up /\ UNCHANGED <<config, count, ttl, recent, last>>

Tick ==
  /\ ttl' = IF ttl > 0 THEN ttl - 1 ELSE 0
  /\ count' = IF ttl = 1 THEN 0 ELSE count
  /\ recent' = {<<h[1], h[2] + 1>> : h \in {x \in recent : x[2] + 1 \in Ages}}
  /\ UNCHANGED <<config, up, last>>

RateNext == RequestCounted \/ RequestUncounted \/ Outage \/ Tick

RateSpec == RateInit /\ [][RateNext]_limitVars

\* The user keeps asking and time passes; nothing else is fair.
RateFairness == WF_limitVars(RequestCounted) /\ WF_limitVars(Tick)

RateFairSpec == RateSpec /\ RateFairness

-----------------------------------------------------------------------------
(* Properties.                                                             *)

\* Every variable keeps its type.
RateTypeOK ==
  /\ {env, option} \subseteq Settings
  /\ max \in (Settings \cup {Default}) \ {0}
  /\ count \in Nat /\ ttl \in 0 .. Window
  /\ up \in BOOLEAN
  /\ recent \subseteq (1..max) \X Ages
  /\ last \in {"none", "admitted", "throttled", "passed"}

\* A counter always has an expiry, whatever fails between two hits: nobody is
\* throttled for ever by a key without one.
CounterExpires == count > 0 <=> ttl > 0

\* The ceiling: a window's hits admit max requests, and a period of that length,
\* which may straddle two windows, at most twice as many.
CeilingHolds == Cardinality(recent) <= 2 * max

\* Every counter ends, and the ceiling stands.
LimitSound == RateTypeOK /\ CounterExpires /\ CeilingHolds

\* "Env limitVars still win when set" (ratelimit_middleware.go:71-72).
EnvWins == env > 0 => max = env

\* A user who keeps asking is served again and again, also after a throttle:
\* asking does not push the end of the window away.  (Redis recovers.)
RequestsServed == <>[]up => []<>(last = "admitted")
=============================================================================
