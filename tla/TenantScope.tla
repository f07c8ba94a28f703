---------------------------- MODULE TenantScope -----------------------------
(***************************************************************************)
(* The tenant scope (tmsdb): gorm callbacks add the actor's company to     *)
(* every query, update and delete of one table, and the model's hooks      *)
(* check what an actor creates, updates and deletes.  A user's service     *)
(* reads a row, and later saves the whole row it has read; gorm's Save     *)
(* updates within the scope and, finding nothing, inserts the row without  *)
(* it, overwriting on a conflict and running no hook.                      *)
(*                                                                         *)
(* The table is of one of two kinds: every row has a company (CompanyBase),*)
(* or rows may instead be the system's (SharedTenantBase).                 *)
(***************************************************************************)
EXTENDS Naturals

CONSTANTS
  Users,      \* actors with a company and no wider role
  Companies,
  CompanyOf,  \* Users -> Companies
  MaxIds,     \* bound: rows ever created
  MaxEdits,   \* bound: values a row may take
  None        \* no company (NULL), no row

TenantAssumption ==
  /\ CompanyOf \in [Users -> Companies]
  /\ None \notin Companies \cup Users
  /\ MaxIds \in Nat /\ MaxEdits \in Nat

VARIABLES
  shared,  \* the table holds SharedTenantBase rows
  table,   \* id -> row
  next,    \* the next id
  copy,    \* the row each user's service has read and may save
  by       \* history: who took the last step, None for an internal process

tenantVars == <<shared, table, next, copy, by>>

Owner == Companies \cup {None}
Row == [company : Owner, system : BOOLEAN, value : 0..MaxEdits]

TenantInit ==
  /\ shared \in BOOLEAN
  /\ table = [i \in {} |-> None]
  /\ next = 1
  /\ copy = [u \in Users |-> None]
  /\ by = None

PutRow(i, row) == table' = [j \in DOMAIN table \cup {i} |-> IF j = i THEN row ELSE table[j]]

\* applyScope of a query and of a write, for an actor who is neither the system nor
\* a super admin; those, and internal processes without an actor, are not scoped.
ReadScope(u, row) == row.company = CompanyOf[u] \/ (shared /\ row.system)
WriteScope(u, row) == row.company = CompanyOf[u]

-----------------------------------------------------------------------------
(* A user.                                                                 *)

\* The company of a user's new row: the user's is forced upon a shared table, and in
\* a tenant table filled in where none is given.
CreatedFor(u, given) == IF shared \/ given = None THEN CompanyOf[u] ELSE given

\* BeforeCreate.  A system record is refused.
UserCreates(u, given) ==
  /\ next <= MaxIds
  /\ PutRow(next, [company |-> CreatedFor(u, given), system |-> FALSE, value |-> 0])
  /\ next' = next + 1
  /\ by' = u
  /\ UNCHANGED <<shared, copy>>

\* GetByID, GetByColumn, GetByIDs, List: the service keeps what it has read.
Load(u, i) ==
  /\ ReadScope(u, table[i])
  /\ copy' = [copy EXCEPT ![u] = [id |-> i, row |-> table[i]]]
  /\ by' = u
  /\ UNCHANGED <<shared, table, next>>

\* (broken) BeforeUpdate leaves the check to the scope.
MayUpdateAny(row) == TRUE

\* BeforeUpdate sees the struct that is saved.
MayUpdate(row) == ~(shared /\ row.system)

\* Update: gorm's Save.  Within the scope or not, the row is written: if the scope
\* hides it, by the INSERT ... ON CONFLICT DO UPDATE.
Save(u) ==
  LET new == [copy[u].row EXCEPT !.value = (@ + 1) % (MaxEdits + 1)]
  IN /\ copy[u] # None
     /\ MayUpdate(copy[u].row)
     /\ PutRow(copy[u].id, new)
     /\ copy' = [copy EXCEPT ![u] = None]
     /\ by' = u
     /\ UNCHANGED <<shared, next>>

\* A refused Save: BeforeUpdate returns an error.
SaveRefused(u) ==
  /\ copy[u] # None
  /\ ~MayUpdate(copy[u].row)
  /\ copy' = [copy EXCEPT ![u] = None]
  /\ by' = u
  /\ UNCHANGED <<shared, table, next>>

\* UpdateFields and UserDeletes go by id: the hooks see an empty struct and pass, the
\* scope decides; ErrNotFound otherwise.
UpdateFields(u, i) ==
  /\ WriteScope(u, table[i])
  /\ PutRow(i, [table[i] EXCEPT !.value = (@ + 1) % (MaxEdits + 1)])
  /\ by' = u
  /\ UNCHANGED <<shared, next, copy>>

UserDeletes(u, i) ==
  /\ WriteScope(u, table[i])
  /\ table' = [j \in DOMAIN table \ {i} |-> table[j]]
  /\ by' = u
  /\ UNCHANGED <<shared, next, copy>>

-----------------------------------------------------------------------------
(* Internal processes, the system actor and super admins: no scope.        *)

\* BeforeCreate: a company, or the system's, not both and not neither.
InternalCreates(company, system) ==
  /\ next <= MaxIds
  /\ IF shared THEN system <=> company = None ELSE company # None /\ ~system
  /\ PutRow(next, [company |-> company, system |-> system, value |-> 0])
  /\ next' = next + 1
  /\ by' = None
  /\ UNCHANGED <<shared, copy>>

\* A tenant's row is handed to another company, or a row is deleted.
Transfer(i, c) ==
  /\ ~table[i].system
  /\ PutRow(i, [table[i] EXCEPT !.company = c])
  /\ by' = None
  /\ UNCHANGED <<shared, next, copy>>

InternalDeletes(i) ==
  /\ table' = [j \in DOMAIN table \ {i} |-> table[j]]
  /\ by' = None
  /\ UNCHANGED <<shared, next, copy>>

UserNext(u) ==
  \/ \E given \in Owner : UserCreates(u, given)
  \/ \E i \in DOMAIN table : Load(u, i) \/ UpdateFields(u, i) \/ UserDeletes(u, i)
  \/ Save(u)
  \/ SaveRefused(u)

TenantNext ==
  \/ \E u \in Users : UserNext(u)
  \/ \E company \in Owner, system \in BOOLEAN : InternalCreates(company, system)
  \/ \E i \in DOMAIN table, c \in Companies : Transfer(i, c)
  \/ \E i \in DOMAIN table : InternalDeletes(i)

TenantSpec == TenantInit /\ [][TenantNext]_tenantVars

-----------------------------------------------------------------------------
(* Properties.                                                             *)

TenantTypeOK ==
  /\ shared \in BOOLEAN
  /\ next \in 1..(MaxIds + 1)
  /\ DOMAIN table \subseteq 1..(next - 1)
  /\ \A i \in DOMAIN table : table[i] \in Row
  /\ copy \in [Users -> {None} \cup [id : 1..(next - 1), row : Row]]
  /\ by \in Users \cup {None}

\* Every row is one company's or the system's, after any mixture of creates, saves of
\* stale copies, transfers and deletes (BeforeCreate, BeforeUpdate).
OneOwner == \A i \in DOMAIN table :
  IF shared THEN table[i].system <=> table[i].company = None
            ELSE table[i].company # None /\ ~table[i].system

\* A user's copy was the user's company's own row, or the system's, when it was read.
CopiesInScope == \A u \in Users : copy[u] # None => ReadScope(u, copy[u].row)

TenantSafe == TenantTypeOK /\ OneOwner /\ CopiesInScope

\* What a user's step changes or brings into being is the user's company's, before
\* and after.  There are two exceptions.  The upsert of gorm's Save
\* (BaseRepository.Update) writes outside the scope: it may bring back a row that was
\* deleted, or take back one that was handed to another company, since the user read
\* it as its own.  And a row that is created in a tenant table is of the company it
\* names (CompanyBase.BeforeCreate), whoever creates it; in a shared table it is of
\* the user's.
Isolated == \A i \in DOMAIN table \cup DOMAIN table' :
  LET own == CompanyOf[by']
      stale == copy[by'] # None /\ copy[by'].id = i /\ copy[by'].row.company = own
      was == i \in DOMAIN table
      is == i \in DOMAIN table'
      touched == IF was /\ is THEN table[i] # table'[i] ELSE TRUE
  IN by' \in Users /\ touched =>
       /\ is => table'[i].company = own \/ (~shared /\ ~was /\ i = next)
       /\ was => table[i].company = own \/ stale
       /\ ~was => i = next \/ stale

\* So it is for every step (applyScope, CompanyBase.BeforeCreate).
Isolation == [][Isolated]_tenantVars
=============================================================================
