------------------------------ MODULE Identity ------------------------------
(***************************************************************************)
(* On whose behalf a service acts.  A request comes over HTTP with a       *)
(* user's token, a guest's, or none (middleware), a job starts without     *)
(* one; the work then goes on from service to service by gRPC calls, whose *)
(* interceptors carry the actor, and by events, whose handlers run as a    *)
(* system actor of the event's company (eventlog).  On its way it reads    *)
(* its company's settings (settings, cache), and the address it came from  *)
(* is found in a header that the client has begun (client_origin).         *)
(*                                                                         *)
(* The guests' own middleware is GuestAccess, the caller's permissions are *)
(* PermCache.                                                              *)
(***************************************************************************)
EXTENDS Naturals, Sequences

CONSTANTS
  Callers, Supers, Admins,
  Employers,        \* the companies
  EmployerOf,       \* the company of a user, or Nobody
  Services,
  InternalTokens,  \* values of GRPC_INTERNAL_TOKEN
  MaxProxies,      \* bound: reverse proxies, and the number configured
  MaxHops          \* bound: calls and events on the way

Nobody == "nobody"

IdentityAssumption ==
  /\ Supers \cup Admins \subseteq Callers /\ Nobody \notin Callers \cup Employers
  /\ EmployerOf \in [Callers -> Employers \cup {Nobody}]
  /\ "" \notin InternalTokens
  /\ MaxProxies \in Nat /\ MaxHops \in Nat

VARIABLES
  secret,   \* the internal token a service is configured with, "" for none
  settings,   \* Redis: what is stored under a company's key
  site,     \* the service at work
  actor,    \* the actor in the context
  address,  \* the address in the context (ClientOrigin)
  expired,  \* the user's token has expired
  outcome,  \* "working", "Unauthenticated", or "no work yet"
  root,     \* history: the actor that began
  hops,     \* history: hops so far
  queued,   \* history: one of them was an event
  cleared,  \* history: the context was cleared of its actor
  proxies   \* history: reverse proxies passed on the way in, and those configured

identityVars == <<secret, settings, site, actor, address, expired, outcome, root, hops, queued,
  cleared, proxies>>

-----------------------------------------------------------------------------
(* Actors (consts.Actor) and what they carry.                              *)

UserClaims(u) ==
  [CompanyID |-> EmployerOf[u],
   Roles |-> {r \in {"super_admin", "admin"} : u \in IF r = "admin" THEN Admins ELSE Supers}]

Actor(kind, id, company) == [kind |-> kind, id |-> id, company |-> company]

User(u) == Actor("user", u, UserClaims(u).CompanyID)
System(id, company) == Actor("system", id, company)
Guest(company) == Actor("guest", Nobody, company)
NoActor == Actor("none", Nobody, Nobody)   \* nothing in the context
NilActor == Actor("nil", Nobody, Nobody)   \* a nil pointer in the context

GetCompanyID(a) == a.company

\* A system actor has no roles, whomever it stands for.
Roles(a) == IF a.kind = "user" THEN UserClaims(a.id).Roles ELSE {}
IsSuperAdmin(a) == "super_admin" \in Roles(a)
IsAdmin(a) == "admin" \in Roles(a)

\* Without an actor in the context one answers with an error and the other with a system
\* actor; a nil one passes for an actor to both.
GetActor(a) == IF a.kind = "none" THEN "error" ELSE "actor"
MustGetActor(a) == IF a.kind = "none" THEN System(Nobody, Nobody) ELSE a

\* The gates of REST; RequireAuth looks into a nil actor.
RequireAuth(a) ==
  CASE GetActor(a) = "error" \/ a.kind = "guest" -> "401"
    [] a.kind = "nil" -> "panic"
    [] OTHER -> "next"

RequireAdmin(a) ==
  CASE GetActor(a) = "error" \/ a.kind = "nil" -> "401"
    [] IsAdmin(a) \/ IsSuperAdmin(a) -> "next"
    [] OTHER -> "403"

RequireSuperAdmin(a) ==
  CASE GetActor(a) = "error" \/ a.kind = "nil" -> "401"
    [] IsSuperAdmin(a) -> "next"
    [] OTHER -> "403"

\* Without its port, brackets and spaces an entry is an address, or nothing.
normalizeIP(raw) == IF raw = "junk" THEN "" ELSE raw

\* ResolveClientIP: the entry that the outermost proxy of ours has written, of as many
\* as are configured; without a header nothing, with no proxies the socket's peer.
ResolveClientIP(chain, peer, configured) ==
  CASE configured = 0 -> peer
    [] configured # 0 /\ chain = <<>> -> ""
    [] OTHER ->
         normalizeIP(chain[IF Len(chain) < configured THEN 1 ELSE Len(chain) - configured + 1])

\* What comes through n proxies: each appends the address it was called from.
Forwarded(typed, n) ==
  typed \o [i \in 1..n |-> IF i = 1 THEN "client" ELSE "proxy"]
Peer(n) == IF n = 0 THEN "client" ELSE "proxy"

-----------------------------------------------------------------------------
(* The cache (cache): keys begin with the company of whoever acts, but for *)
(* the global ones.  A store maps keys, as sequences, to values.           *)

ScopedKey(company, key) == IF company = Nobody THEN key ELSE <<company>> \o key
buildKey(a, key) == ScopedKey(GetCompanyID(a), key)

Put(store, key, v) == [k \in DOMAIN store \cup {key} |-> IF k = key THEN v ELSE store[k]]
Without(store, keys) == [k \in DOMAIN store \ keys |-> store[k]]
At(store, key) == IF key \in DOMAIN store THEN store[key] ELSE "redis.Nil"

Exists(store, a, key) == buildKey(a, key) \in DOMAIN store
Set(store, a, key, v) == Put(store, buildKey(a, key), v)
SetNX(store, a, key, v) == IF Exists(store, a, key) THEN store ELSE Set(store, a, key, v)
Get(store, a, key) == At(store, buildKey(a, key))
Delete(store, a, key) == Without(store, {buildKey(a, key)})

\* DeleteKeys writes the keys it built into its caller's slice.
DeleteKeys(store, a, keys) ==
  LET built == {buildKey(a, key) : key \in keys}
  IN [store |-> Without(store, built), keys |-> built]

SetGlobal(store, key, v) == Put(store, key, v)
GetGlobal(store, key) == At(store, key)
DeleteGlobal(store, key) == Without(store, {key})
DeleteKeysGlobal(store, keys) == Without(store, keys)

\* The companies' settings as they are stored, and the one an actor reads.
Setting == <<"setting">>
Stored ==
  [k \in {ScopedKey(c, Setting) : c \in {d \in Employers : settings[d] # "unset"}} |-> settings[k[1]]]
SettingOf(a) == IF Get(Stored, a, Setting) = "redis.Nil" THEN "unset" ELSE Get(Stored, a, Setting)

-----------------------------------------------------------------------------
IdentityInit ==
  /\ secret \in [Services -> InternalTokens \cup {""}]
  /\ settings \in [Employers -> {"unset", "on", "off"}]
  /\ site \in Services
  /\ actor = NoActor /\ root = NoActor /\ address = ""
  /\ expired = FALSE /\ outcome = "no work yet"
  /\ hops = 0 /\ queued = FALSE /\ cleared = FALSE
  /\ proxies = <<0, 0>>

Start(a) ==
  /\ outcome = "no work yet"
  /\ outcome' = "working"
  /\ actor' = a /\ root' = a
  /\ UNCHANGED <<secret, settings, site, expired, hops, queued, cleared>>

\* IdentifyUser, and the guests' middleware behind it.  A client may write the header
\* that the proxies append to.
Request(a) ==
  \E typed \in {<<>>, <<"typed">>, <<"junk">>}, n \in 0..MaxProxies, configured \in 0..MaxProxies :
    /\ address' = ResolveClientIP(Forwarded(typed, n), Peer(n), configured)
    /\ proxies' = <<n, configured>>
    /\ Start(a)

\* A cron job or a seeder.
Job(a) == Start(a) /\ UNCHANGED <<address, proxies>>

\* ClearAuthContext.
ClearAuthContext ==
  /\ outcome = "working" /\ hops = 0 /\ ~cleared
  /\ actor' = NilActor /\ cleared' = TRUE
  /\ UNCHANGED <<secret, settings, site, address, expired, outcome, root, hops, queued, proxies>>

\* (broken) What has no token of its own is vouched for with the internal one.
VouchedMetadata(a) ==
  CASE a.kind = "user" -> [with |-> "authorization", of |-> a]
    [] a.kind # "user" /\ secret[site] # "" -> [with |-> "x-internal-token", of |-> a]
    [] OTHER -> [with |-> "nothing", of |-> a]

\* AuthClientInterceptor.
Metadata(a) ==
  CASE a.kind = "user" -> [with |-> "authorization", of |-> a]
    [] a.kind = "system" /\ secret[site] # "" -> [with |-> "x-internal-token", of |-> a]
    [] OTHER -> [with |-> "nothing", of |-> a]

\* extractActorFromIncomingMetadata, buildSystemActorFromMetadata.
Accepts(there, md) ==
  \/ md.with = "x-internal-token" /\ secret[there] # "" /\ secret[there] = secret[site]
  \/ md.with = "authorization" /\ ~expired
Accepted(md) ==
  IF md.with = "authorization" THEN md.of ELSE System(md.of.id, md.of.company)

\* A gRPC call, unary or a stream.
Call(there) ==
  /\ outcome = "working" /\ hops < MaxHops
  /\ LET md == Metadata(actor)
     IN IF Accepts(there, md)
        THEN /\ actor' = Accepted(md) /\ site' = there /\ hops' = hops + 1
             /\ address' = "" /\ proxies' = <<0, 0>> /\ UNCHANGED outcome
        ELSE outcome' = "Unauthenticated" /\ UNCHANGED <<actor, site, hops, address, proxies>>
  /\ UNCHANGED <<secret, settings, expired, root, queued, cleared>>

\* What is written of an actor in an event; of a nil one, nothing.
actorIdentity(a) == [id |-> a.id, company |-> GetCompanyID(a)]

\* dispatch: the handlers of an event run as the system.
Handle(there) ==
  /\ outcome = "working" /\ hops < MaxHops
  /\ actor' = System(actorIdentity(actor).id, actorIdentity(actor).company)
  /\ site' = there /\ hops' = hops + 1 /\ queued' = TRUE
  /\ address' = "" /\ proxies' = <<0, 0>>
  /\ UNCHANGED <<secret, settings, expired, outcome, root, cleared>>

Expire ==
  /\ outcome = "working" /\ root.kind = "user" /\ ~expired
  /\ expired' = TRUE
  /\ UNCHANGED <<secret, settings, site, actor, address, outcome, root, hops, queued, cleared,
       proxies>>

IdentityNext ==
  \/ \E u \in Callers : Request(User(u))
  \/ \E c \in Employers : Request(Guest(c)) \/ Job(System(Nobody, c))
  \/ Request(NoActor) \/ Job(NoActor) \/ Job(System(Nobody, Nobody))
  \/ ClearAuthContext \/ Expire
  \/ \E there \in Services : Call(there) \/ Handle(there)

IdentitySpec == IdentityInit /\ [][IdentityNext]_identityVars

-----------------------------------------------------------------------------
(* Settings.                                                               *)

\* Of a setting that is missing or cannot be read; ok: Redis answers.
samsaraTrackingFromCache(v, ok) == ok /\ v # "off"
emptyMilesWorkflowFromCache(v, ok) == IF ok /\ v = "off" THEN "deferred" ELSE "auto"

\* SamsaraAssetTrackingOn, or its variant for a company named in full.
SamsaraAssetTrackingOn(a, ok) == samsaraTrackingFromCache(SettingOf(a), ok)

\* EmptyMilesWorkflowFor, where "off" stands for "deferred".
EmptyMilesWorkflowFor(a, ok) == emptyMilesWorkflowFromCache(SettingOf(a), ok)

-----------------------------------------------------------------------------
(* Properties.                                                             *)

ActorTypeOK(a) ==
  /\ a.kind \in {"user", "system", "guest", "none", "nil"}
  /\ a.id \in Callers \cup {Nobody} /\ a.company \in Employers \cup {Nobody}

IdentityTypeOK ==
  /\ secret \in [Services -> InternalTokens \cup {""}]
  /\ settings \in [Employers -> {"unset", "on", "off"}]
  /\ site \in Services
  /\ ActorTypeOK(actor) /\ ActorTypeOK(root)
  /\ address \in {"", "typed", "client", "proxy"}
  /\ expired \in BOOLEAN /\ queued \in BOOLEAN /\ cleared \in BOOLEAN
  /\ outcome \in {"working", "Unauthenticated", "no work yet"}
  /\ hops \in 0..MaxHops /\ proxies \in (0..MaxProxies) \X (0..MaxProxies)

\* However far the work goes, it is the work of the user and of the company that began
\* it, or nobody's once the context was cleared; it never becomes another's
\* (AuthClientInterceptor, extractActorFromIncomingMetadata, dispatch).
IdentityKept ==
  IF cleared THEN actor.id = Nobody /\ actor.company = Nobody
  ELSE actor.id = root.id /\ actor.company = root.company

\* A user's or a guest's request runs as the system only behind an event, with no roles
\* then, and a guest's goes no further by calls.
RightsNeverGrow ==
  /\ actor.kind = "system" => root.kind = "system" \/ queued
  /\ actor.kind = "user" => actor = root /\ ~queued
  /\ actor.kind = "guest" => hops = 0
  /\ RequireSuperAdmin(actor) = "next" => actor = root /\ root.id \in Supers
  /\ RequireSuperAdmin(actor) = "next" => RequireAdmin(actor) = "next"
  /\ RequireAdmin(actor) = "next" => RequireAuth(actor) = "next" /\ root.id \in Supers \cup Admins
  /\ RequireAuth(actor) = "next" => root.kind \in {"user", "system"} \/ queued

\* A gate that does not answer, but panics, stands behind ClearAuthContext, where
\* MustGetActor answers with nil as well.
PanicsOwed ==
  RequireAuth(actor) = "panic" \/ MustGetActor(actor).kind = "nil" => cleared /\ hops = 0

\* A call is refused to those who have no token, to a token that has expired, and between
\* services whose internal tokens differ or are missing: to no one else.
RefusalsOwed == outcome = "Unauthenticated" =>
  \/ actor.kind \in {"guest", "none", "nil"}
  \/ actor.kind = "user" /\ expired
  \/ actor.kind = "system" /\ (secret[site] = "" \/ \E s \in Services : secret[s] # secret[site])

\* A setting is that of the company that began, or the default: with Redis failing a
\* tenant's trucks are never switched to live positions, and its empty miles are never
\* left unwritten (samsaraTrackingFromCache, emptyMilesWorkflowFromCache).
SettingsOwn == \A ok \in BOOLEAN :
  LET own == IF cleared \/ root.company = Nobody THEN "unset" ELSE settings[root.company]
  IN /\ SamsaraAssetTrackingOn(actor, ok) => own # "off" /\ ok
     /\ own = "off" /\ ok => ~SamsaraAssetTrackingOn(actor, ok)
     /\ EmptyMilesWorkflowFor(actor, ok) = "deferred" <=> ok /\ own = "off"

\* A scoped entry is read, kept from being set again and deleted by the actors of one
\* company only, or by those without one, so that a deletion by anyone else misses it
\* without a word; a global entry is everyone's.  A slice of keys serves DeleteKeys
\* once: its second use misses all that a company has (buildKey, DeleteKeys).
CacheAgrees ==
  LET actors == {User(u) : u \in Callers} \cup {Guest(c) : c \in Employers}
                \cup {System(Nobody, c) : c \in Employers \cup {Nobody}} \cup {NoActor, NilActor}
      key == <<"key">>
  IN \A a, b \in actors :
       LET one == Set(<<>>, a, key, "v")
           same == GetCompanyID(a) = GetCompanyID(b)
           first == DeleteKeys(one, b, {key})
           global == SetGlobal(one, key, "w")
       IN /\ Get(one, b, key) = "v" <=> same
          /\ SetNX(one, b, key, "w") = one <=> same
          /\ Exists(Delete(one, b, key), a, key) <=> ~same
          /\ first.store = Delete(one, b, key)
          /\ DeleteKeys(one, b, first.keys).store = one <=> ~same \/ GetCompanyID(b) # Nobody
          /\ GetGlobal(global, key) = "w" /\ GetGlobal(DeleteGlobal(global, key), key) = "redis.Nil"
          /\ DeleteKeysGlobal(global, {key}) = DeleteGlobal(global, key)
          /\ GetCompanyID(a) # Nobody => Get(DeleteGlobal(global, key), a, key) = "v"

\* The recorded address is the client's where as many proxies are configured as there
\* are, and what a client typed only where more are configured (ResolveClientIP).
AddressTrue ==
  LET n == proxies[1]
      configured == proxies[2]
  IN /\ address = "typed" => configured > n
     /\ address = "proxy" => configured < n
     /\ n = configured /\ address # "" => address = "client"
     /\ hops > 0 => address = ""

IdentitySound ==
  /\ IdentityTypeOK /\ IdentityKept /\ RightsNeverGrow /\ PanicsOwed /\ RefusalsOwed
  /\ SettingsOwn /\ AddressTrue
  /\ outcome = "no work yet" => CacheAgrees
=============================================================================
