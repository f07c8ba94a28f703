----------------------------- MODULE Conditions ------------------------------
(***************************************************************************)
(* The conditions of a query (FilterBuilder, ApplyLogical): a resolver     *)
(* hands the fields of a GraphQL filter and its OR, AND and NOT to the     *)
(* builder, one after the other, or sends the fields to another service,   *)
(* which reads them there (ToFilterStruct, StructFilter).                  *)
(*                                                                         *)
(* gorm and PostgreSQL are external: the conditions on a query are joined  *)
(* by AND, a branch without any adds nothing, and a condition on a NULL    *)
(* is neither true nor false.                                              *)
(***************************************************************************)
EXTENDS Integers, FiniteSets, TLC

CONSTANTS
  Columns,
  ColumnValues,  \* of a column, which may also be NULL
  Terms,       \* what a client may say of a column: values compared with it (cmp), lists
               \* it is in or not (in, notIn), whether it is NULL (null); each may be empty
  MaxApplied  \* bound: conditions on a query

Null == -1

Operators == {"=", "!=", "<", "<=", ">", ">="}

\* What the filter of a column is: a time (or a number, or a text), an id, an enum.
Kinds == {"DateTime", "ID", "Enum"}

ConditionsAssumption ==
  /\ ColumnValues \subseteq Nat /\ MaxApplied \in Nat \ {0}
  /\ \A f \in Terms :
       /\ f.cmp \subseteq Operators \X ColumnValues /\ f.null \subseteq BOOLEAN
       /\ \A list \in f.in \cup f.notIn : list \subseteq ColumnValues

VARIABLES
  filterOf, \* of each column's filter
  where,    \* the conditions on the query, here
  there,    \* those on the query of the other service
  asked,    \* history: what the client asked for: how, and the branches
  sent,     \* the fields were sent to the other service as well
  dropped   \* history: fields of another kind there

conditionVars == <<filterOf, where, there, asked, sent, dropped>>

ConditionsInit ==
  /\ filterOf \in [Columns -> Kinds]
  /\ where = {} /\ there = {} /\ asked = {} /\ sent = FALSE /\ dropped = {}

-----------------------------------------------------------------------------
(* The builder.                                                            *)

NullTest(null) == IF null THEN "IS NULL" ELSE "IS NOT NULL"

\* The fields that a kind of filter has: ids are not ordered, an enum's filter has no
\* isNull.
TermsOf(k) ==
  {f \in Terms : /\ k # "DateTime" => \A c \in f.cmp : c[1] \in {"=", "!="}
                 /\ k = "Enum" => f.null = {}}

\* What the kinds share: lists without values are passed over.
Enum(col, f) ==
  {[col |-> col, op |-> c[1], arg |-> {c[2]}] : c \in {c \in f.cmp : c[1] \in {"=", "!="}}}
    \cup {[col |-> col, op |-> "IN", arg |-> list] : list \in f.in \ {{}}}
    \cup {[col |-> col, op |-> "NOT IN", arg |-> list] : list \in f.notIn \ {{}}}

ID(col, f) == Enum(col, f) \cup {[col |-> col, op |-> NullTest(n), arg |-> {}] : n \in f.null}

DateTime(col, f) ==
  ID(col, f) \cup {[col |-> col, op |-> c[1], arg |-> {c[2]}] : c \in f.cmp}

\* (broken) A list without values is a condition too, which nothing meets.
ConditionsListed(col, f) ==
  {[col |-> col, op |-> c[1], arg |-> {c[2]}] : c \in f.cmp}
    \cup {[col |-> col, op |-> "IN", arg |-> list] : list \in f.in}
    \cup {[col |-> col, op |-> "NOT IN", arg |-> list] : list \in f.notIn}
    \cup {[col |-> col, op |-> NullTest(n), arg |-> {}] : n \in f.null}

Conditions(col, f) ==
  CASE filterOf[col] = "DateTime" -> DateTime(col, f)
    [] filterOf[col] = "ID" -> ID(col, f)
    [] filterOf[col] = "Enum" -> Enum(col, f)

\* The conditions of a branch: what a client says of some columns.
Branch(fields) == UNION {Conditions(col, fields[col]) : col \in DOMAIN fields}

\* Where, OR, AND and NOT: a clause is a choice of branches, or what none may be.
Clause(how, branches) ==
  LET some == {Branch(b) : b \in branches} \ {{}}
  IN IF some = {} THEN {} ELSE {[neg |-> how = "NOT", branches |-> some]}

\* Search: a text is looked for in some columns, among which one will do; the values it
\* is found in stand for it, none for an empty text (one that is nowhere is left out).
Searched(found, cols) ==
  IF found = {} \/ cols = {} THEN {}
  ELSE {[neg |-> FALSE,
         branches |-> {{[col |-> col, op |-> "ILIKE", arg |-> found]} : col \in cols}]}

-----------------------------------------------------------------------------
(* PostgreSQL.                                                             *)

Rows == [Columns -> ColumnValues \cup {Null}]

Met(c, v) ==
  LET x == CHOOSE y \in c.arg : TRUE
  IN CASE c.op = "=" -> v = x [] c.op = "!=" -> v # x
       [] c.op = "<" -> v < x [] c.op = "<=" -> v <= x
       [] c.op = ">" -> v > x [] c.op = ">=" -> v >= x
       [] c.op \in {"IN", "ILIKE"} -> v \in c.arg [] c.op = "NOT IN" -> v \notin c.arg
       [] c.op = "IS NULL" -> FALSE [] c.op = "IS NOT NULL" -> TRUE

Truth(c, row) ==
  CASE row[c.col] # Null -> IF Met(c, row[c.col]) THEN "true" ELSE "false"
    [] row[c.col] = Null /\ c.op = "IS NULL" -> "true"
    [] row[c.col] = Null /\ c.op = "IS NOT NULL" -> "false"
    [] OTHER -> "null"

All(truths) ==
  CASE "false" \in truths -> "false" [] "false" \notin truths /\ "null" \in truths -> "null"
    [] OTHER -> "true"
Some(truths) ==
  CASE "true" \in truths -> "true" [] "true" \notin truths /\ "null" \in truths -> "null"
    [] OTHER -> "false"
Not(truth) == CASE truth = "true" -> "false" [] truth = "false" -> "true" [] OTHER -> "null"

TruthOf(clause, row) ==
  LET t == Some({All({Truth(c, row) : c \in b}) : b \in clause.branches})
  IN IF clause.neg THEN Not(t) ELSE t

Selected(clauses) == {row \in Rows : \A k \in clauses : TruthOf(k, row) = "true"}

-----------------------------------------------------------------------------
(* The resolvers.                                                          *)

FieldConditions ==
  {fields \in UNION {[cols -> Terms] : cols \in SUBSET Columns \ {{}}} :
     \A col \in DOMAIN fields : fields[col] \in TermsOf(filterOf[col])}

\* ApplyLogical, whose AND joins its branches, and the fields themselves.
Apply(how, branches) ==
  /\ ~sent /\ Cardinality(asked) < MaxApplied
  /\ where' = where \cup
       (IF how = "OR" THEN Clause(how, branches)
        ELSE UNION {Clause(how, {b}) : b \in branches})
  /\ asked' = asked \cup {[how |-> how, branches |-> branches]}
  /\ UNCHANGED <<filterOf, there, sent, dropped>>

OnOne(col, f) == [c \in {col} |-> f]
InList(list) == [cmp |-> {}, in |-> {list}, notIn |-> {}, null |-> {}]

Search(found, cols) ==
  /\ ~sent /\ Cardinality(asked) < MaxApplied
  /\ where' = where \cup Searched(found, cols)
  /\ asked' = asked \cup {[how |-> "OR", branches |-> {OnOne(col, InList(found)) : col \in cols}]}
  /\ UNCHANGED <<filterOf, there, sent, dropped>>

\* One filter's fields are sent to the other service; one that it declares to be of
\* another kind does not decode, and is none.
Send(fields) ==
  /\ asked = {} /\ sent' = TRUE
  /\ \E odd \in SUBSET DOMAIN fields :
       /\ there' = Clause("AND", {[col \in DOMAIN fields \ odd |-> fields[col]]})
       /\ dropped' = odd
  /\ where' = Clause("AND", {fields})
  /\ asked' = {[how |-> "AND", branches |-> {fields}]}
  /\ UNCHANGED filterOf

ConditionsNext ==
  \/ \E b \in FieldConditions : Apply("AND", {b}) \/ Apply("NOT", {b}) \/ Send(b)
  \/ \E b, c \in FieldConditions : Apply("OR", {b, c}) \/ Apply("AND", {b, c})
  \/ \E found \in SUBSET ColumnValues, cols \in SUBSET Columns : Search(found, cols)

ConditionsSpec == ConditionsInit /\ [][ConditionsNext]_conditionVars

-----------------------------------------------------------------------------
(* Properties.                                                             *)

TypeOK ==
  /\ \A k \in where \cup there : k.neg \in BOOLEAN /\ {} \notin k.branches
  /\ filterOf \in [Columns -> Kinds]
  /\ Cardinality(asked) <= MaxApplied /\ sent \in BOOLEAN /\ dropped \subseteq Columns

\* What a client says of a column by f, and a row is right or wrong about; a row without
\* a value is neither, but about being NULL.
Restricts(f) == f.cmp # {} \/ f.in \ {{}} # {} \/ f.notIn \ {{}} # {}
Right(row, col, f) ==
  /\ Restricts(f) =>
       /\ row[col] # Null
       /\ \A c \in f.cmp : Met([op |-> c[1], arg |-> {c[2]}], row[col])
       /\ \A list \in f.in : list = {} \/ row[col] \in list
       /\ \A list \in f.notIn : row[col] \notin list
  /\ \A n \in f.null : (row[col] = Null) = n
Wrong(row, col, f) ==
  \/ row[col] # Null /\ ~Right(row, col, f)
  \/ row[col] = Null /\ FALSE \in f.null

Wants(fields, row) == \A col \in DOMAIN fields : Right(row, col, fields[col])
Says(fields) == \E col \in DOMAIN fields : Restricts(fields[col]) \/ fields[col].null # {}

\* The rows found are those a client asks for: of an OR those of any branch that says
\* something, of a NOT those that are wrong about some column and not merely without a
\* value in it (OR, AND, NOT, ApplyLogical, Search).  A list without values says nothing.
Exact == Selected(where) = {row \in Rows : \A a \in asked :
  CASE a.how = "AND" -> \A b \in a.branches : Wants(b, row)
    [] a.how = "OR" -> LET said == {b \in a.branches : Says(b)}
                       IN said = {} \/ \E b \in said : Wants(b, row)
    [] a.how = "NOT" -> \A b \in a.branches :
         Says(b) => \E col \in DOMAIN b : Wrong(row, col, b[col])}

\* The other service finds the same rows by the fields it is sent, and more only where
\* one of them did not decode (ToFilterStruct, StructFilter).
SameThere ==
  sent => /\ Selected(where) \subseteq Selected(there)
          /\ dropped = {} => Selected(where) = Selected(there)

ConditionsSound == TypeOK /\ Exact /\ SameThere
=============================================================================
