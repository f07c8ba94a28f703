------------------------------ MODULE PermCache ------------------------------
(***************************************************************************)
(* The permission list of one user: tms-auth owns it, every service caches *)
(* it in Redis for PermsCacheTTL (auth/perm_resolver.go) and fetches it    *)
(* from tms-auth through a singleflight group and a retrying HTTP client   *)
(* (auth/client_http.go); tms-auth deletes the cached copy after a write.  *)
(* Users do not share keys or flights, so one user is enough.              *)
(*                                                                         *)
(* Lists are numbered by the writes that made them.  Time is counted in    *)
(* ticks; the steps that wait for the network have until their deadline,   *)
(* Lag ticks for one attempt up to the SET of its answer.                  *)
(***************************************************************************)
EXTENDS Naturals, FiniteSets

CONSTANTS
  Requests,   \* requests of the user, each served once
  Replicas,   \* processes, each with a PermResolver of its own
  ReplicaOf,  \* Requests -> Replicas
  Stores,     \* Redis instances
  StoreOf,    \* Replicas -> Stores
  AuthStore,  \* the instance tms-auth is connected to
  MaxWrites,  \* permission writes
  Empty,      \* the numbers of the lists without any permission
  TTL,        \* PermsCacheTTL, in ticks
  Lag,        \* deadline of an attempt, in ticks
  Attempts,   \* attempts of HTTPAuthClient.ResolveUserPerms
  NoList      \* no list: nothing cached, or perms unresolved

ASSUME PermAssumption ==
  /\ ReplicaOf \in [Requests -> Replicas]
  /\ StoreOf \in [Replicas -> Stores]
  /\ IsFiniteSet(Stores)
  /\ AuthStore \in Stores
  /\ MaxWrites \in Nat
  /\ Empty \subseteq Nat
  /\ TTL \in Nat \ {0}
  /\ Lag \in Nat
  /\ Attempts \in Nat \ {0}
  /\ NoList \notin Nat

VARIABLES
  grants,      \* the list tms-auth has in its database
  superseded,  \* how many ticks ago each list was replaced
  undeleted,   \* the last write has not sent its DEL yet
  cached,      \* store -> number of the cached list, or NoList
  left,        \* store -> remaining lifetime of the last entry
  pc,          \* where a request is in GetUserPerms
  flights,     \* requests that lead a flight of their replica's group
  held,        \* the list a leader received
  wait,        \* what is left of the leader's deadline
  attempt,     \* the leader's attempt
  served,      \* what GetUserPerms returned
  age,         \* history: how long that list had been superseded then
  calls,       \* history: calls of ResolveUserPerms by a replica
  misses,      \* history: reasons for a call, see below
  blips,       \* history: attempts that failed and may be retried
  stops        \* history: attempts that failed and may not

vars == <<grants, superseded, undeleted, cached, left, pc, flights, held, wait,
          attempt, served, age, calls, misses, blips, stops>>
authVars == <<grants, superseded, undeleted>>
storeVars == <<cached, left>>
callVars == <<held, wait, attempt>>
resultVars == <<served, age>>
faultVars == <<blips, stops>>

Store(r) == StoreOf[ReplicaOf[r]]
Versions == 0 .. MaxWrites

Init ==
  /\ grants = 0
  /\ superseded = [v \in Versions |-> 0]
  /\ undeleted = FALSE
  /\ cached = [s \in Stores |-> NoList]
  /\ left = [s \in Stores |-> 0]
  /\ pc = [r \in Requests |-> "idle"]
  /\ flights = {}
  /\ held = [r \in Requests |-> NoList]
  /\ wait = [r \in Requests |-> 0]
  /\ attempt = [r \in Requests |-> 0]
  /\ served = [r \in Requests |-> NoList]
  /\ age = [r \in Requests |-> 0]
  /\ calls = [p \in Replicas |-> 0]
  /\ misses = 0
  /\ blips = 0
  /\ stops = 0

-----------------------------------------------------------------------------
(* tms-auth.                                                               *)

\* A permission write commits.
Write ==
  /\ grants < MaxWrites
  /\ ~ undeleted
  /\ grants' = grants + 1
  /\ undeleted' = TRUE
  /\ UNCHANGED <<superseded, storeVars, pc, flights, callVars, resultVars, calls,
                 misses, faultVars>>

\* InvalidateUsersPerms after the write: DEL, which may fail or be lost.
Invalidate ==
  /\ undeleted
  /\ undeleted' = FALSE
  /\ \/ /\ cached' = [cached EXCEPT ![AuthStore] = NoList]
        /\ misses' = IF cached[AuthStore] = NoList THEN misses ELSE misses + 1
     \/ UNCHANGED <<cached, misses>>
  /\ UNCHANGED <<grants, superseded, left, pc, flights, callVars, resultVars, calls,
                 faultVars>>

-----------------------------------------------------------------------------
(* PermResolver.GetUserPerms.                                              *)

\* The list v goes to the requests rs.
Return(rs, v) ==
  /\ pc' = [r \in Requests |-> IF r \in rs THEN "done" ELSE pc[r]]
  /\ served' = [r \in Requests |-> IF r \in rs THEN v ELSE served[r]]
  /\ age' = [r \in Requests |->
               IF r \in rs /\ v # NoList THEN superseded[v] ELSE age[r]]

\* (broken) A hit renews the entry.
GetHitRenews(r) ==
  /\ pc[r] = "idle"
  /\ cached[Store(r)] # NoList
  /\ Return({r}, cached[Store(r)])
  /\ left' = [left EXCEPT ![Store(r)] = TTL]
  /\ UNCHANGED <<authVars, cached, flights, callVars, calls, misses, faultVars>>

\* GetGlobal finds the entry.
GetHit(r) ==
  /\ pc[r] = "idle"
  /\ cached[Store(r)] # NoList
  /\ Return({r}, cached[Store(r)])
  /\ UNCHANGED <<authVars, storeVars, flights, callVars, calls, misses, faultVars>>

\* It does not, or Redis fails, which is only logged.
GetMiss(r) ==
  /\ pc[r] = "idle"
  /\ pc' = [pc EXCEPT ![r] = "missed"]
  /\ UNCHANGED <<authVars, storeVars, flights, callVars, resultVars, calls, misses,
                 faultVars>>

\* The request that leads the replica's flight.
Leading(p) == {r \in flights : ReplicaOf[r] = p}

\* singleflight.Do: wait for the flight under way, or lead a new one.
Join(r) ==
  /\ pc[r] = "missed"
  /\ IF Leading(ReplicaOf[r]) # {}
       THEN /\ pc' = [pc EXCEPT ![r] = "waiting"]
            /\ UNCHANGED flights
       ELSE /\ pc' = [pc EXCEPT ![r] = "recheck"]
            /\ flights' = flights \cup {r}
  /\ UNCHANGED <<authVars, storeVars, callVars, resultVars, calls, misses, faultVars>>

\* The second GetGlobal, inside the flight, finds the entry.
RecheckHit(r) ==
  /\ pc[r] = "recheck"
  /\ cached[Store(r)] # NoList
  /\ held' = [held EXCEPT ![r] = cached[Store(r)]]
  /\ pc' = [pc EXCEPT ![r] = "finishing"]
  /\ UNCHANGED <<authVars, storeVars, flights, wait, attempt, resultVars, calls,
                 misses, faultVars>>

\* (broken) The flight does not look at the cache again.
RecheckSkipped(r) ==
  /\ pc[r] = "recheck"
  /\ UNCHANGED misses
  /\ pc' = [pc EXCEPT ![r] = "calling"]
  /\ calls' = [calls EXCEPT ![ReplicaOf[r]] = @ + 1]
  /\ wait' = [wait EXCEPT ![r] = Lag]
  /\ attempt' = [attempt EXCEPT ![r] = 1]
  /\ UNCHANGED <<authVars, storeVars, flights, held, resultVars, faultVars>>

\* It does not, or Redis fails: call ResolveUserPerms.
RecheckMiss(r) ==
  /\ pc[r] = "recheck"
  /\ misses' = IF cached[Store(r)] = NoList THEN misses ELSE misses + 1
  /\ pc' = [pc EXCEPT ![r] = "calling"]
  /\ calls' = [calls EXCEPT ![ReplicaOf[r]] = @ + 1]
  /\ wait' = [wait EXCEPT ![r] = Lag]
  /\ attempt' = [attempt EXCEPT ![r] = 1]
  /\ UNCHANGED <<authVars, storeVars, flights, held, resultVars, faultVars>>

\* tms-auth reads the list for the attempt.
AuthReads(r) ==
  /\ pc[r] = "calling"
  /\ held' = [held EXCEPT ![r] = grants]
  /\ pc' = [pc EXCEPT ![r] = "answered"]
  /\ UNCHANGED <<authVars, storeVars, flights, wait, attempt, resultVars, calls,
                 misses, faultVars>>

\* ResolveUserPerms gives up: the flight ends with the error.
GiveUp(r) ==
  /\ held' = [held EXCEPT ![r] = NoList]
  /\ pc' = [pc EXCEPT ![r] = "finishing"]
  /\ misses' = misses + 1
  /\ UNCHANGED <<wait, attempt>>

\* (broken) The last attempt is given away.
BlipCountsFirst(r) ==
  /\ pc[r] \in {"calling", "answered"}
  /\ blips' = blips + 1
  /\ IF attempt[r] + 1 < Attempts
       THEN /\ attempt' = [attempt EXCEPT ![r] = @ + 1]
            /\ wait' = [wait EXCEPT ![r] = Lag]
            /\ held' = [held EXCEPT ![r] = NoList]
            /\ pc' = [pc EXCEPT ![r] = "calling"]
            /\ UNCHANGED misses
       ELSE GiveUp(r)
  /\ UNCHANGED <<authVars, storeVars, flights, resultVars, calls, stops>>

\* The attempt fails on the network or with a 5xx: the next one, if any.
Blip(r) ==
  /\ pc[r] \in {"calling", "answered"}
  /\ blips' = blips + 1
  /\ IF attempt[r] < Attempts
       THEN /\ attempt' = [attempt EXCEPT ![r] = @ + 1]
            /\ wait' = [wait EXCEPT ![r] = Lag]
            /\ held' = [held EXCEPT ![r] = NoList]
            /\ pc' = [pc EXCEPT ![r] = "calling"]
            /\ UNCHANGED misses
       ELSE GiveUp(r)
  /\ UNCHANGED <<authVars, storeVars, flights, resultVars, calls, stops>>

\* It fails for good: 401, 403, another 4xx, or the leader's request is
\* cancelled.
Stop(r) ==
  /\ pc[r] \in {"calling", "answered"}
  /\ stops' = stops + 1
  /\ GiveUp(r)
  /\ UNCHANGED <<authVars, storeVars, flights, resultVars, calls, blips>>

\* (broken) The lifetime is added to what an entry before it had left.
FillLonger(r) ==
  /\ pc[r] = "answered"
  /\ \/ /\ held[r] \notin Empty
        /\ cached' = [cached EXCEPT ![Store(r)] = held[r]]
        /\ left' = [left EXCEPT ![Store(r)] = @ + TTL]
        /\ UNCHANGED misses
     \/ /\ misses' = misses + 1
        /\ UNCHANGED storeVars
  /\ pc' = [pc EXCEPT ![r] = "finishing"]
  /\ UNCHANGED <<authVars, flights, callVars, resultVars, calls, faultVars>>

\* The answer arrives: SetGlobal, unless it is an empty list; an error of
\* SetGlobal is only logged.
Fill(r) ==
  /\ pc[r] = "answered"
  /\ \/ /\ held[r] \notin Empty
        /\ cached' = [cached EXCEPT ![Store(r)] = held[r]]
        /\ left' = [left EXCEPT ![Store(r)] = TTL]
        /\ UNCHANGED misses
     \/ /\ misses' = misses + 1
        /\ UNCHANGED storeVars
  /\ pc' = [pc EXCEPT ![r] = "finishing"]
  /\ UNCHANGED <<authVars, flights, callVars, resultVars, calls, faultVars>>

\* Requests that wait for the flight r leads.
Waiters(r) == {q \in Requests : pc[q] = "waiting" /\ ReplicaOf[q] = ReplicaOf[r]}

\* (broken) The flight ends for its leader only.
FinishAlone(r) ==
  /\ pc[r] = "finishing"
  /\ Return({r}, held[r])
  /\ flights' = flights \ {r}
  /\ held' = [held EXCEPT ![r] = NoList]
  /\ UNCHANGED <<authVars, storeVars, wait, attempt, calls, misses, faultVars>>

\* The flight ends: leader and waiters get its result.
Finish(r) ==
  /\ pc[r] = "finishing"
  /\ Return({r} \cup Waiters(r), held[r])
  /\ flights' = flights \ {r}
  /\ held' = [held EXCEPT ![r] = NoList]
  /\ UNCHANGED <<authVars, storeVars, wait, attempt, calls, misses, faultVars>>

-----------------------------------------------------------------------------
\* Requests whose attempt runs against its deadline.
OnTheWire == {r \in Requests : pc[r] \in {"calling", "answered"}}

\* Stores whose entry expires with the next tick.
Expiring == {s \in Stores : cached[s] # NoList /\ left[s] = 1}

\* Time passes, as long as something still depends on it; no attempt outlives
\* its deadline, and a flight that has its result ends at once.
Tick ==
  /\ OnTheWire # {} \/ \E s \in Stores : cached[s] # NoList
  /\ \A r \in OnTheWire : wait[r] > 0
  /\ \A r \in Requests : pc[r] # "finishing"
  /\ wait' = [r \in Requests |-> IF r \in OnTheWire THEN wait[r] - 1 ELSE wait[r]]
  /\ superseded' = [v \in Versions |-> superseded[v] + (IF v < grants THEN 1 ELSE 0)]
  /\ cached' = [s \in Stores |-> IF s \in Expiring THEN NoList ELSE cached[s]]
  /\ left' = [s \in Stores |-> IF left[s] > 0 THEN left[s] - 1 ELSE 0]
  /\ misses' = misses + Cardinality(Expiring)
  /\ UNCHANGED <<grants, undeleted, pc, flights, held, attempt, resultVars, calls,
                 faultVars>>

Proceed(r) ==
  \/ Join(r) \/ RecheckHit(r) \/ RecheckMiss(r) \/ AuthReads(r) \/ Blip(r) \/ Stop(r)
  \/ Fill(r) \/ Finish(r)

Next ==
  \/ Tick \/ Write \/ Invalidate
  \/ \E r \in Requests : GetHit(r) \/ GetMiss(r) \/ Proceed(r)

Spec == Init /\ [][Next]_vars

(* Every wait of a request has a deadline: the client's timeout per        *)
(* attempt, Redis's own; a waiter waits for its leader.                    *)
Fairness == \A r \in Requests : WF_vars(Proceed(r))

FairSpec == Spec /\ Fairness

-----------------------------------------------------------------------------
(* Properties.                                                             *)

Places == {"idle", "missed", "waiting", "recheck", "calling", "answered",
           "finishing", "done"}
Lists == Versions \cup {NoList}

\* Every variable keeps its type; an entry never lives longer than the TTL.
TypeOK ==
  /\ grants \in Versions
  /\ superseded \in [Versions -> Nat]
  /\ undeleted \in BOOLEAN
  /\ cached \in [Stores -> Lists]
  /\ left \in [Stores -> 0 .. TTL]
  /\ pc \in [Requests -> Places]
  /\ flights \subseteq Requests
  /\ held \in [Requests -> Lists]
  /\ wait \in [Requests -> 0 .. Lag]
  /\ attempt \in [Requests -> 0 .. Attempts]
  /\ served \in [Requests -> Lists]
  /\ age \in [Requests -> Nat]
  /\ calls \in [Replicas -> Nat]
  /\ misses \in Nat
  /\ blips \in Nat
  /\ stops \in Nat

\* The bound on staleness that the code keeps in every interleaving of writes,
\* DELs, fills and expiries, on every Redis instance: a list is served less
\* than TTL + Lag after it was replaced.  Lag is the time between tms-auth's
\* read and the SET, during which a DEL finds nothing to delete.
StalenessBounded == \A r \in Requests : age[r] < TTL + Lag

\* A list that is not replaced yet has no age.
NewestUnreplaced == \A v \in Versions : v >= grants => superseded[v] = 0

\* Whatever is left of an entry's life, it ends no later than TTL + Lag after
\* the list was replaced.
EntriesExpireInTime ==
  \A s \in Stores : cached[s] # NoList =>
    left[s] > 0 /\ superseded[cached[s]] + left[s] <= TTL + Lag

\* A list on its way to a request was read within the attempt's deadline, or
\* comes from an entry.
ReadInTime ==
  \A r \in Requests :
    /\ pc[r] = "answered" => held[r] # NoList /\ superseded[held[r]] + wait[r] <= Lag
    /\ pc[r] = "finishing" /\ held[r] # NoList => superseded[held[r]] < TTL + Lag

\* The bound with what makes it inductive: it is passed on from tms-auth's read
\* to the entry and from the entry to every request that reads it.
Fresh == StalenessBounded /\ NewestUnreplaced /\ EntriesExpireInTime /\ ReadInTime

\* The inductive invariant behind the bound on staleness.
IInv == TypeOK /\ Fresh

\* The worst case the code names: no list is served later than the TTL after
\* it was replaced.
StaleAtMostTTL == \A r \in Requests : age[r] <= TTL

\* No stampede: a replica calls tms-auth once, and again only after an entry
\* went away, Redis failed or a call stored nothing.
NoStampede == \A p \in Replicas : calls[p] <= 1 + misses

\* A flight per replica, whose leader is the request that works; nobody waits
\* for a flight that does not exist, so no result passes a waiter by.
FlightsAttended ==
  /\ \A r \in Requests :
       r \in flights <=> pc[r] \in {"recheck", "calling", "answered", "finishing"}
  /\ \A q, r \in flights : ReplicaOf[q] = ReplicaOf[r] => q = r
  /\ \A r \in Requests : pc[r] = "waiting" => Leading(ReplicaOf[r]) # {}

\* Attempts - 1 failures in a row are ridden out: perms stay unresolved only
\* after more of them, a refusal or a cancelled leader.
RidesOutBlips ==
  (\E r \in Requests : pc[r] = "done" /\ served[r] = NoList)
    => stops > 0 \/ blips >= Attempts

\* The singleflight group and its leaders' attempts as a whole (Get, fetch): calls are
\* shared, nobody is forgotten, and a blip costs nobody the answer.
FlightsSound == NoStampede /\ FlightsAttended /\ RidesOutBlips

\* Whoever asked gets an answer, leaders and waiters: a request is served once,
\* so it is enough that in the end nobody is on the way.
EveryoneAnswered == <>[](\A r \in Requests : pc[r] \in {"idle", "done"})

-----------------------------------------------------------------------------
(* A small instance: the requests "a1" and "a2" go to one replica, the request *)
(* "b" to another; both use tms-auth's Redis instance.                        *)

MCReplicaOf == [r \in Requests |-> IF r = "b" THEN "B" ELSE "A"]
SharedStore == [p \in Replicas |-> "red"]
=============================================================================
