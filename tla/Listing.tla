------------------------------ MODULE Listing -------------------------------
(***************************************************************************)
(* Lists (BaseRepository.List, FilterBuilder): a client walks through the  *)
(* pages of a list.  Every page is a request of its own: other services    *)
(* are asked, all at once, which ids their filters match, the rows are     *)
(* counted, and one page of them is read, by LIMIT and OFFSET.  Meanwhile  *)
(* rows come and go, and the other services' data change.                  *)
(*                                                                         *)
(* The order is the default one, created_at DESC; PostgreSQL may place     *)
(* rows with equal keys differently in every query.                        *)
(***************************************************************************)
EXTENDS Naturals, FiniteSets, SequencesExt, TLC

CONSTANTS
  Filters,   \* the cross-service filters of the request
  Refs,      \* ids of the other services' records
  Limits,    \* PaginationInput.Limit; 0: none given
  maxLimit,
  DefaultLimit,  \* the limit if none is given
  MaxInserted    \* bound: rows ever inserted

ListingAssumption ==
  /\ maxLimit \in Nat \ {0} /\ DefaultLimit \in 1..maxLimit
  /\ Limits \subseteq Nat
  /\ MaxInserted \in Nat

VARIABLES
  list,      \* the table: id -> [key, ref]
  inserted,  \* rows ever inserted
  remote,    \* Filters -> what the other service would answer now
  at,        \* "idle", "resolve", "count", "find", "done"
  limit,     \* the walk's limit as asked for
  page,
  narrow,    \* the condition of the request: the refs each filter leaves
  told,      \* the filters whose result carried an error, in the walk
  total,     \* the request's count
  got,       \* rows the walk has been given
  during,    \* history: removals, changes and late insertions during the walk
  stayed     \* history: rows that were there from its beginning to now

listVars == <<list, inserted, remote, at, limit, page, narrow, told, total, got, during, stayed>>

ListInit ==
  /\ list = [i \in {} |-> 0] /\ inserted = 0
  /\ remote \in [Filters -> SUBSET Refs]
  /\ at = "idle" /\ limit = 0 /\ page = 1
  /\ narrow = {} /\ told = {} /\ total = 0 /\ got = {} /\ during = {} /\ stayed = {}

-----------------------------------------------------------------------------
(* What a request computes.                                                *)

\* PaginationInput.GetLimit.
GetLimit == IF limit = 0 THEN DefaultLimit ELSE limit

\* (broken) Pages are counted from zero.
GetOffsetFromZero(p) == p * GetLimit

\* PaginationInput.GetOffset.
GetOffset(p) == (p - 1) * GetLimit

\* NewPagination.
TotalPages == IF total = 0 THEN 1 ELSE (total + GetLimit - 1) \div GetLimit

\* Paginate caps the limit, and only the limit.
PageSize == IF GetLimit > maxLimit THEN maxLimit ELSE GetLimit

\* InIDs: no id, no row (1 = 0).
Matching == {i \in DOMAIN list : \A s \in narrow : list[i].ref \in s}

\* The orders that ORDER BY created_at DESC allows.
Orders == {o \in SetToSeqs(Matching) :
  \A j, k \in DOMAIN o : j < k => list[o[j]].key >= list[o[k]].key}

PageOf(o) == {o[j] : j \in {k \in DOMAIN o : k > GetOffset(page) /\ k <= GetOffset(page) + PageSize}}

-----------------------------------------------------------------------------
(* The walk.                                                               *)

Start(l) ==
  /\ at \in {"idle", "done"}
  /\ at' = "resolve" /\ limit' = l /\ page' = 1
  /\ told' = {} /\ got' = {} /\ during' = {} /\ stayed' = DOMAIN list
  /\ UNCHANGED <<list, inserted, remote, narrow, total>>

\* ApplyCrossServiceBatch: the filters in failed could not be resolved; they are left
\* out of the condition, and their results carry the error.
Resolve(failed) ==
  /\ at = "resolve"
  /\ narrow' = {remote[f] : f \in Filters \ failed}
  /\ told' = told \cup failed
  /\ at' = "count"
  /\ UNCHANGED <<list, inserted, remote, limit, page, total, got, during, stayed>>

\* FindWithCount: Count, then Find.
Count ==
  /\ at = "count"
  /\ total' = Cardinality(Matching)
  /\ at' = "find"
  /\ UNCHANGED <<list, inserted, remote, limit, page, narrow, told, got, during, stayed>>

Find(o) ==
  /\ at = "find"
  /\ got' = got \cup PageOf(o)
  /\ IF page < TotalPages THEN page' = page + 1 /\ at' = "resolve"
     ELSE page' = 1 /\ at' = "done"
  /\ narrow' = {} /\ total' = 0
  /\ UNCHANGED <<list, inserted, remote, limit, told, during, stayed>>

\* Others.  A row is created now, or in the instant in which the one before was.
Insert(same, ref) ==
  /\ inserted < MaxInserted
  /\ inserted' = inserted + 1
  /\ list' = list @@ (inserted' :> [key |-> IF same THEN inserted ELSE inserted', ref |-> ref])
  /\ during' = IF at = "find" THEN during \cup {"insertion"} ELSE during
  /\ UNCHANGED <<remote, at, limit, page, narrow, told, total, got, stayed>>

Drop(i) ==
  /\ list' = [j \in DOMAIN list \ {i} |-> list[j]]
  /\ during' = during \cup {"removal"}
  /\ stayed' = stayed \ {i}
  /\ UNCHANGED <<inserted, remote, at, limit, page, narrow, told, total, got>>

RemoteChange(f, s) ==
  /\ remote' = [remote EXCEPT ![f] = s]
  /\ during' = during \cup {"change"}
  /\ UNCHANGED <<list, inserted, at, limit, page, narrow, told, total, got, stayed>>

ListNext ==
  \/ \E l \in Limits : Start(l)
  \/ \E failed \in SUBSET Filters : Resolve(failed)
  \/ Count
  \/ \E o \in Orders : Find(o)
  \/ \E same \in BOOLEAN, ref \in Refs : Insert(same, ref)
  \/ \E i \in DOMAIN list : Drop(i)
  \/ \E f \in Filters, s \in SUBSET Refs : RemoteChange(f, s)

ListSpec == ListInit /\ [][ListNext]_listVars

-----------------------------------------------------------------------------
(* Properties.                                                             *)

Ties == \E i, j \in DOMAIN list : i # j /\ list[i].key = list[j].key

\* A walk through all pages has given every row that was there all the time, although
\* rows were inserted under it, unless one was removed, or inserted between a count
\* and its page, two have the same created_at, the services changed their minds, or
\* the limit was above the cap, which shortens the pages and not the offsets
\* (GetOffset, Paginate, NewPagination, FindWithCount).
WalkComplete ==
  (at = "done" /\ during = {} /\ ~Ties /\ told = {} /\ GetLimit <= maxLimit) =>
     {i \in stayed : \A f \in Filters : list[i].ref \in remote[f]} \subseteq got

\* A row that a filter excludes is given only where that filter's result carried an
\* error; so also when a service matches nothing at all (ApplyCrossServiceBatch,
\* InIDs).
NarrowedOrTold ==
  during \subseteq {"insertion"} => \A i \in got, f \in Filters : list[i].ref \in remote[f] \/ f \in told

ListingSound == WalkComplete /\ NarrowedOrTold
=============================================================================
