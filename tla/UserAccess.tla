----------------------------- MODULE UserAccess -----------------------------
(***************************************************************************)
(* What decides on a user's request and records it: on whose behalf it     *)
(* runs (Identity), the rate limit (RateLimit), the permission codes of    *)
(* the roles (Permissions), share links (GuestAccess), the tenant's rows   *)
(* (TenantScope), the conditions of a query (Conditions) and its pages     *)
(* (Listing), saved filters (SavedFilter), the rules of the inputs and the *)
(* errors (Validation), the history of an entity (AuditTrail), relative    *)
(* periods (TimeWindow), the connections and row locks of it all           *)
(* (ConnPool).                                                             *)
(* They share no state and no step, so a behaviour is one of the part      *)
(* under study, the others resting where they started.                     *)
(***************************************************************************)
EXTENDS Integers, RateLimit, GuestAccess, Identity, TenantScope, ConnPool

CONSTANTS
  Tabs, OwnerOf, Names, maxFiltersPerUser, MaxRows,                       \* SavedFilter
  Modules, Actions, Custom, Unknown,                                      \* Permissions
  Filters, Refs, Limits, maxLimit, DefaultLimit, MaxInserted,             \* Listing
  RootFields, InputsOf, Before, RulesOf, ArgOf, Given, Failures,          \* Validation
  Fields, Tracked, Money, ClassOf, SecurityActions, EventActions, MaxEvents, \* AuditTrail
  FirstYear, FirstWeekday, LastYear, Zones, Clocks, MaxMonths, Months,    \* TimeWindow
  From, Until, Step,
  Columns, ColumnValues, Terms, MaxApplied                                \* Conditions

VARIABLES
  part,                                            \* the part under study
  stored, granted,                                 \* Permissions
  rows, created, pc, id, read, deleted,            \* SavedFilter
  list, inserted, remote, at, limit, page, narrow, told, total, got, during, stayed, \* Listing
  serial, place, unread, errors, broke, malformed, ran, failure, replied, heard, \* Validation
  entity, values, snapshot, trail, origin, known, gap,                   \* AuditTrail
  now, zone, prev,                                                       \* TimeWindow
  filterOf, where, there, asked, sent, dropped                           \* Conditions

Codes == INSTANCE Permissions
Saved == INSTANCE SavedFilter
Lists == INSTANCE Listing
Inputs == INSTANCE Validation
Audit == INSTANCE AuditTrail
Times == INSTANCE TimeWindow
Query == INSTANCE Conditions

ASSUME UserAccessAssumption ==
  /\ RateAssumption /\ GuestAssumption /\ IdentityAssumption /\ TenantAssumption
  /\ PoolAssumption /\ Codes!CatalogAssumption /\ Saved!FilterAssumption
  /\ Lists!ListingAssumption /\ Inputs!ValidationAssumption /\ Audit!AuditAssumption
  /\ Times!WindowAssumption /\ Query!ConditionsAssumption

codesVars == <<stored, granted>>
savedVars == <<rows, created, pc, id, read, deleted>>
listVars ==
  <<list, inserted, remote, at, limit, page, narrow, told, total, got, during, stayed>>
inputVars ==
  <<serial, place, unread, errors, broke, malformed, ran, failure, replied, heard>>
auditVars == <<entity, values, snapshot, trail, origin, known, gap>>
timeVars == <<now, zone, prev>>
queryVars == <<filterOf, where, there, asked, sent, dropped>>

deciding == <<limitVars, codesVars, savedVars, guestVars>>
recording == <<tenantVars, listVars, inputVars, auditVars, timeVars>>
calling == <<identityVars, queryVars, poolVars>>
vars == <<part, deciding, recording, calling>>

Parts ==
  {"limit", "codes", "saved", "guest", "tenant", "list", "inputs", "audit", "times",
   "identity", "query", "pool"}

\* A part that rests has one initial state.
Init ==
  /\ part \in Parts
  /\ RateInit /\ (part # "limit" => env = 0 /\ option = 0)
  /\ Codes!Init /\ (part # "codes" => stored = {})
  /\ Saved!Init /\ GuestInit
  /\ TenantInit /\ (part # "tenant" => ~shared)
  /\ Lists!ListInit /\ (part # "list" => remote = [f \in Filters |-> Refs])
  /\ Inputs!ValidationInit /\ (part # "inputs" => ~serial)
  /\ Audit!AuditInit /\ (part # "audit" => entity = CHOOSE t \in DOMAIN ClassOf : TRUE)
  /\ Times!WindowInit /\ (part # "times" => zone = CHOOSE z \in Zones : TRUE)
  /\ Query!ConditionsInit /\ (part # "query" => filterOf = [c \in Columns |-> "ID"])
  /\ IdentityInit
  /\ part # "identity" =>
       /\ secret = [s \in Services |-> ""] /\ settings = [c \in Employers |-> "unset"]
       /\ site = CHOOSE s \in Services : TRUE
  /\ PoolInit /\ (part # "pool" => kind = [g \in Goroutines |-> "statement"])

\* What rests while a step of a part is taken.
InLimit == part = "limit" /\ UNCHANGED <<part, codesVars, savedVars, guestVars, recording, calling>>
InCodes == part = "codes" /\ UNCHANGED <<part, limitVars, savedVars, guestVars, recording, calling>>
InSaved == part = "saved" /\ UNCHANGED <<part, limitVars, codesVars, guestVars, recording, calling>>
InGuest == part = "guest" /\ UNCHANGED <<part, limitVars, codesVars, savedVars, recording, calling>>
InTenant ==
  part = "tenant" /\ UNCHANGED <<part, listVars, inputVars, auditVars, timeVars, deciding, calling>>
InList ==
  part = "list" /\ UNCHANGED <<part, tenantVars, inputVars, auditVars, timeVars, deciding, calling>>
InInputs ==
  part = "inputs" /\ UNCHANGED <<part, tenantVars, listVars, auditVars, timeVars, deciding, calling>>
InAudit ==
  part = "audit" /\ UNCHANGED <<part, tenantVars, listVars, inputVars, timeVars, deciding, calling>>
InTimes ==
  part = "times" /\ UNCHANGED <<part, tenantVars, listVars, inputVars, auditVars, deciding, calling>>
InIdentity == part = "identity" /\ UNCHANGED <<part, deciding, recording, queryVars, poolVars>>
InQuery == part = "query" /\ UNCHANGED <<part, deciding, recording, identityVars, poolVars>>
InPool == part = "pool" /\ UNCHANGED <<part, deciding, recording, identityVars, queryVars>>

Next ==
  \/ InLimit /\ RateNext
  \/ InCodes /\ Codes!Next
  \/ InSaved /\ Saved!Next
  \/ InGuest /\ GuestNext
  \/ InTenant /\ TenantNext
  \/ InList /\ Lists!ListNext
  \/ InInputs /\ Inputs!ValidationNext
  \/ InAudit /\ Audit!AuditNext
  \/ InTimes /\ Times!WindowNext
  \/ InIdentity /\ IdentityNext
  \/ InQuery /\ Query!ConditionsNext
  \/ InPool /\ PoolNext

Spec == Init /\ [][Next]_vars

(* The user keeps asking and time passes; a goroutine that can go on does, *)
(* the pool and PostgreSQL serve who waits, and a dead process is started  *)
(* again.  Nothing else is fair.                                           *)
Fairness ==
  /\ WF_vars(InLimit /\ RequestCounted) /\ WF_vars(InLimit /\ Tick)
  /\ \A g \in Goroutines : WF_vars(InPool /\ Progress(g))
  /\ \A r \in Pods : WF_vars(InPool /\ Booting(r))

FairSpec == Spec /\ Fairness

-----------------------------------------------------------------------------
(* Properties, stated where they belong.                                   *)

\* A user who keeps asking is served again and again, also after a throttle; every call
\* that waits for connections and rows returns (WithTransaction), every replica comes up.
ServedAgain ==
  /\ part = "limit" => RequestsServed
  /\ part = "pool" => AllReturned

\* What a request is let through to: by its rate a period of a window's length admits
\* twice the ceiling at most, and a counter of hits always has an expiry
\* (RateLimitMiddleware); by its link, which logs each access, debounced, but for a
\* failure (Directive, maybeLogAccess); by whose it is: however far it goes, it remains
\* its user's and its company's, and gains no rights on its way (IdentifyUser,
\* AuthClientInterceptor, AuthServerInterceptor, dispatch).
RequestsSound ==
  /\ part = "limit" => LimitSound
  /\ part = "guest" => GuestSound
  /\ part = "identity" => IdentitySound

\* The stored codes (RollupPermissions, CompactHierarchy, ExpandPermissions,
\* HasPermission): the gates let through what was granted and nothing else, after any
\* changes of a role; expanding and rolling up are inverses, no smaller set grants the
\* same, no grant of an unknown code is dropped, no stored code is implied by another.
CodesSound == part = "codes" =>
  /\ Codes!TypeOK
  /\ Codes!Authority
  /\ Codes!RoundTrip /\ Codes!Minimal /\ Codes!NeverDrops /\ Codes!NoRedundancy

\* Saved filters (Create): overlapping calls overrun the limit by one row less
\* than the user has tabs, at most.
FiltersSound == part = "saved" => Saved!TypeOK /\ Saved!OverrunBounded

\* The rows of the tables: saved filters within their number, tenants with their own
\* (applyScope, TenantBase.BeforeCreate), queries that find what was asked for (OR, AND,
\* NOT), and transactions that never wait for each other where PostgreSQL cannot see it
\* (WithTransaction, GetDB).
RowsSound ==
  /\ FiltersSound
  /\ part = "tenant" => TenantSafe
  /\ part = "query" => Query!ConditionsSound
  /\ part = "pool" => PoolSound

\* Inputs (ValidateDirective, Middleware): what breaks a rule is refused, what is
\* refused broke one, and the rules agree with each other.
InputSound == part = "inputs" => Inputs!ValidationSound

\* The history of an entity (writeEvent, CalculateChanges, Classify): its events lead
\* from its first values to its last, and money is guarded.
AuditSound == part = "audit" => Audit!AuditSound

\* What is looked at piece by piece: relative periods, whose weeks tile the time line and
\* whose months are clamped (Resolve), lists, whose pages add up (FindWithCount, Paginate,
\* InIDs), an event's people, each found once (WithActor, ParticipantIDs), and texts, whose
\* letters, check digits and paths the rules go through (luhnCheck, NameOf).
WindowSound ==
  /\ part = "times" => Times!WindowSound
  /\ part = "list" => Lists!ListingSound
  /\ part = "audit" => Audit!PeopleFound
  /\ part = "inputs" => Inputs!TextsSound
=============================================================================
