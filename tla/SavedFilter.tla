----------------------------- MODULE SavedFilter -----------------------------
(***************************************************************************)
(* Saved filters (savedfilter): a user keeps at most maxFiltersPerUser of  *)
(* them per entity.  A call reads the table and then writes it, outside a  *)
(* transaction; BaseRepository.Update is gorm's Save, which writes the     *)
(* whole row and, where the UPDATE finds none, inserts it.  One entity.    *)
(***************************************************************************)
EXTENDS Naturals, FiniteSets

CONSTANTS
  Users,
  Tabs,              \* a user's browser tabs: one call each at a time
  OwnerOf,           \* Tabs -> Users
  Names,             \* Name, Filter and View of a row, together
  maxFiltersPerUser,
  MaxRows,           \* rows ever created
  None

FilterAssumption ==
  /\ IsFiniteSet(Tabs)
  /\ OwnerOf \in [Tabs -> Users]
  /\ maxFiltersPerUser \in Nat /\ MaxRows \in Nat
  /\ None \notin Names

VARIABLES
  rows,     \* the table: id -> row
  created,  \* ids handed out (gen_random_uuid)
  pc,       \* a tab: "idle", "create", "save" or "delete"
  id, read, \* the row its call is about, as it will be written
  deleted   \* history: ids whose Delete has returned nil

vars == <<rows, created, pc, id, read, deleted>>

Ids == 1 .. MaxRows
Row == [user : Users, name : Names, pinned : BOOLEAN]

Init ==
  /\ rows = [i \in {} |-> None]
  /\ created = 0
  /\ pc = [t \in Tabs |-> "idle"]
  /\ id = [t \in Tabs |-> 0]
  /\ read = [t \in Tabs |-> None]
  /\ deleted = {}

Own(u) == {i \in DOMAIN rows : rows[i].user = u}

Put(i, row) == rows' = [j \in DOMAIN rows \cup {i} |-> IF j = i THEN row ELSE rows[j]]

\* A call returns; what it has read is gone.
Return(t) ==
  /\ pc' = [pc EXCEPT ![t] = "idle"]
  /\ id' = [id EXCEPT ![t] = 0]
  /\ read' = [read EXCEPT ![t] = None]

-----------------------------------------------------------------------------
\* (broken) The limit is compared with one too few.
BelowLimitOffByOne(u) == Cardinality(Own(u)) <= maxFiltersPerUser

BelowLimit(u) == Cardinality(Own(u)) < maxFiltersPerUser

\* Create counts ...
CreateCount(t, n) ==
  /\ pc[t] = "idle"
  /\ BelowLimit(OwnerOf[t])
  /\ pc' = [pc EXCEPT ![t] = "create"]
  /\ read' = [read EXCEPT ![t] = [user |-> OwnerOf[t], name |-> n, pinned |-> TRUE]]
  /\ UNCHANGED <<rows, created, id, deleted>>

\* ... and inserts.
CreateInsert(t) ==
  /\ pc[t] = "create"
  /\ created < MaxRows
  /\ created' = created + 1
  /\ Put(created', read[t])
  /\ Return(t)
  /\ UNCHANGED deleted

\* GetByID and checkOwnership.
MayTouch(t, i) == i \in DOMAIN rows /\ rows[i].user = OwnerOf[t]

Load(t, i, next, row) ==
  /\ pc[t] = "idle"
  /\ MayTouch(t, i)
  /\ pc' = [pc EXCEPT ![t] = next]
  /\ id' = [id EXCEPT ![t] = i]
  /\ read' = [read EXCEPT ![t] = row]
  /\ UNCHANGED <<rows, created, deleted>>

\* Update reads the row and changes fields of its copy.
UpdateLoad(t, i, n, p) == Load(t, i, "save", [rows[i] EXCEPT !.name = n, !.pinned = p])

\* SetPinned returns early if there is nothing to change.
SetPinned(t, i) == Load(t, i, "save", [rows[i] EXCEPT !.pinned = ~ @])

\* Save: the whole row, inserted if it is gone.
Save(t) ==
  /\ pc[t] = "save"
  /\ Put(id[t], read[t])
  /\ Return(t)
  /\ UNCHANGED <<created, deleted>>

DeleteLoad(t, i) == Load(t, i, "delete", rows[i])

\* Delete by id; ErrNotFound if nothing was deleted.
Delete(t) ==
  /\ pc[t] = "delete"
  /\ rows' = [j \in DOMAIN rows \ {id[t]} |-> rows[j]]
  /\ deleted' = IF id[t] \in DOMAIN rows THEN deleted \cup {id[t]} ELSE deleted
  /\ Return(t)
  /\ UNCHANGED created

\* A call fails between its statements: it has written nothing.
Fail(t) ==
  /\ pc[t] # "idle"
  /\ Return(t)
  /\ UNCHANGED <<rows, created, deleted>>

Call(t) ==
  \/ \E n \in Names : CreateCount(t, n)
  \/ \E i \in DOMAIN rows :
       \/ \E n \in Names, p \in BOOLEAN : UpdateLoad(t, i, n, p)
       \/ SetPinned(t, i)
       \/ DeleteLoad(t, i)

Next == \E t \in Tabs : Call(t) \/ CreateInsert(t) \/ Save(t) \/ Delete(t) \/ Fail(t)

Spec == Init /\ [][Next]_vars

-----------------------------------------------------------------------------
(* Properties.                                                             *)

\* Every variable keeps its type; a call holds a row that was created.
TypeOK ==
  /\ DOMAIN rows \subseteq 1 .. created
  /\ \A i \in DOMAIN rows : rows[i] \in Row
  /\ created \in 0 .. MaxRows
  /\ pc \in [Tabs -> {"idle", "create", "save", "delete"}]
  /\ \A t \in Tabs : pc[t] \in {"save", "delete"} => id[t] \in 1 .. created
  /\ \A t \in Tabs : pc[t] # "idle" => read[t] \in Row /\ read[t].user = OwnerOf[t]
  /\ deleted \subseteq 1 .. created

TabsOf(u) == {t \in Tabs : OwnerOf[t] = u}

\* The limit is overrun by overlapping calls only: by one row less than the user
\* has tabs at most, and never by one tab.
OverrunBounded ==
  \A u \in Users : TabsOf(u) # {} =>
    Cardinality(Own(u)) <= maxFiltersPerUser + Cardinality(TabsOf(u)) - 1

\* "Maximum number of saved filters reached" (service.go:16-19).
LimitKept == \A u \in Users : Cardinality(Own(u)) <= maxFiltersPerUser

\* A deleted row is not found again: "ErrNotFound is returned when a record is
\* not found" (repository.go:12), by Update, too.
DeletedStaysDeleted == deleted \cap DOMAIN rows = {}
=============================================================================
