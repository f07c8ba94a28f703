----------------------------- MODULE Permissions -----------------------------
(***************************************************************************)
(* Permission codes (enums/user_permissions.go, middleware/perms.go).  A   *)
(* code is a path module.entity.action; a code that is held implies what   *)
(* lies below it.  A role's codes are rolled up into few codes when they   *)
(* are stored and expanded into leaves when they are changed; here many    *)
(* such changes follow each other, in the presence of flat custom codes    *)
(* and of codes that the catalogue does not know (any more).               *)
(***************************************************************************)
EXTENDS Naturals, Sequences, FiniteSets

CONSTANTS
  Modules,   \* top-level entries of PermissionCatalog
  Actions,   \* entity code <<module, entity>> -> its actions
  Custom,    \* CustomPermissionCatalog: codes without a dot
  Unknown    \* codes that are in neither catalogue

Entities == DOMAIN Actions
ModuleCodes == {<<m>> : m \in Modules}
entityLeaves(e) == {Append(e, a) : a \in Actions[e]}
moduleEntities(m) == {e \in Entities : SubSeq(e, 1, 1) = m}
Leaves == UNION {entityLeaves(e) : e \in Entities}

\* validPermissionCodes: what may be assigned.
validPermissionCodes == ModuleCodes \cup Entities \cup Leaves \cup Custom

AllCodes == validPermissionCodes \cup Unknown

\* The catalogue as it is: no module without entities, no entity without actions, and
\* nothing below an action or a custom code, whatever else may have been stored.
CatalogAssumption ==
  /\ Modules \subseteq STRING /\ Entities \subseteq Seq(STRING)
  /\ \A e \in Entities : Len(e) = 2 /\ SubSeq(e, 1, 1) \in ModuleCodes
  /\ \A e \in Entities : Actions[e] # {} /\ Actions[e] \subseteq STRING
  /\ \A m \in ModuleCodes : moduleEntities(m) # {}
  /\ Custom \subseteq Seq(STRING) \ ModuleCodes /\ \A c \in Custom : Len(c) = 1
  /\ Unknown \subseteq Seq(STRING) \ ({<<>>} \cup validPermissionCodes)
  /\ \A c \in Unknown : \A i \in 1..Len(c) : SubSeq(c, 1, i) \notin Leaves \cup Custom
  /\ IsFiniteSet(validPermissionCodes)

VARIABLES
  stored,   \* the codes stored for a role or user
  granted   \* history: the leaves and custom codes its administrators mean it to have

vars == <<stored, granted>>

-----------------------------------------------------------------------------
(* The algorithms; the empty code is never among the arguments.            *)

Prefixes(c) == {SubSeq(c, 1, i) : i \in 1 .. Len(c)}

HasPermission(perms, required) == Prefixes(required) \cap perms # {}

impliedBy(c, set) == Prefixes(c) \cap set # {}

hasAncestorIn(c, set) == (Prefixes(c) \ {c}) \cap set # {}

CompactHierarchy(codes) == {c \in codes : ~ hasAncestorIn(c, codes)}

\* What one code expands to.
Expansion(c) ==
  IF c \in ModuleCodes THEN UNION {entityLeaves(e) : e \in moduleEntities(c)}
  ELSE IF c \in Entities THEN entityLeaves(c)
  ELSE {c}

ExpandPermissions(codes) == UNION {Expansion(c) : c \in codes}

\* (broken) One leaf makes the entity.
completeEntitiesAny(present) ==
  {e \in Entities : \E l \in entityLeaves(e) : impliedBy(l, present)}

completeEntities(present) ==
  {e \in Entities : \A l \in entityLeaves(e) : impliedBy(l, present)}

completeModules(present) ==
  {m \in ModuleCodes : moduleEntities(m) \subseteq completeEntities(present)}

\* Complete modules, and complete entities whose module is not.
Representatives(present) ==
  completeModules(present)
  \cup {e \in completeEntities(present) : SubSeq(e, 1, 1) \notin completeModules(present)}

\* (broken) Only codes of the catalogues are kept.
RollupKnown(present) ==
  LET out == Representatives(present)
  IN  out \cup {c \in present : c \in validPermissionCodes /\ ~ impliedBy(c, out)}

RollupPermissions(present) ==
  LET out == Representatives(present)
  IN  out \cup {c \in present : ~ impliedBy(c, out)}

-----------------------------------------------------------------------------
(* A role's codes.                                                         *)

\* DefaultRolePermissions: every module and some custom codes; or a custom role,
\* which may hold codes that have left the catalogue.
Init ==
  /\ \E base \in {{}, ModuleCodes}, extra \in SUBSET (Custom \cup Unknown) :
       stored = CompactHierarchy(base \cup extra)
  /\ granted = ExpandPermissions(stored) \ Unknown

\* A code that IsValidPermissionCode accepts is added; redundant rows are not
\* stored.
Assign(c) ==
  /\ \/ stored' = CompactHierarchy(stored \cup {c})
     \/ stored' = RollupPermissions(stored \cup {c})
  /\ granted' = granted \cup ExpandPermissions({c})

\* Set difference is taken between leaves.
Unassign(c) ==
  /\ stored' = RollupPermissions(ExpandPermissions(stored) \ ExpandPermissions({c}))
  /\ granted' = granted \ ExpandPermissions({c})

Next == \E c \in validPermissionCodes : Assign(c) \/ Unassign(c)

Spec == Init /\ [][Next]_vars

-----------------------------------------------------------------------------
(* Properties.                                                             *)

\* Only codes of the catalogues and old codes are stored.
TypeOK ==
  /\ stored \subseteq AllCodes
  /\ granted \subseteq Leaves \cup Custom

\* After any sequence of changes the gates (@hasPerm, RequirePerms) let through
\* what was granted and nothing else: rolling up neither loses nor adds a leaf,
\* and no module implies a custom code.
Authority ==
  \A c \in Leaves \cup Custom : HasPermission(stored, c) <=> c \in granted

\* "Expand and Rollup are inverses on catalog codes" (permissions_rollup_test.go:
\* 125): whatever mixture of codes is stored, expanding it gives the leaves, and
\* rolling it up gives the same codes as rolling up the leaves.
RoundTrip ==
  LET known == stored \ Unknown
  IN  /\ ExpandPermissions(known) = granted
      /\ RollupPermissions(known) = RollupPermissions(granted)
      /\ ExpandPermissions(RollupPermissions(granted)) = granted

\* The rolled-up codes are "the minimal representatives": no smaller set of valid
\* codes grants the same.
Minimal ==
  \A codes \in SUBSET validPermissionCodes :
    ExpandPermissions(codes) = granted =>
      Cardinality(RollupPermissions(granted)) <= Cardinality(codes)

\* Rolling up never drops a grant, of an unknown code neither.
NeverDrops ==
  \A c \in AllCodes : HasPermission(stored, c) => HasPermission(RollupPermissions(stored), c)

\* "We never persist redundant rows" (perms.go:48-51).
NoRedundancy == \A c \in stored : ~ hasAncestorIn(c, stored)
=============================================================================
