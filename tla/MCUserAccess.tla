---------------------------- MODULE MCUserAccess -----------------------------
(* Small instances of UserAccess.  Tabs t1 and t2 are u1's, t3 is u2's, who  *)
(* work for c1 and c2.  Of the permission modules one has two entities, one  *)
(* of which cannot be viewed, the other has one entity with one action.      *)
EXTENDS UserAccess, TLC

CONSTANTS u1, u2, t1, t2, t3, c1, c2, r1, r2, g1, g2, g3

MCOwnerOf == [t \in Tabs |-> IF t = t3 THEN u2 ELSE u1]

MCActions ==
  <<"accounting", "invoices">> :> {"view", "edit"}
  @@ <<"accounting", "deductions">> :> {"edit"}
  @@ <<"customers", "brokers">> :> {"view"}

MCCustom == {<<"mail_view">>}

\* An action, an entity and a module that the catalogue does not have.
MCUnknown ==
  {<<"accounting", "invoices", "archive">>, <<"accounting", "payroll">>,
   <<"safety", "files", "view">>}

MCCompanyOf == [u \in Users |-> IF u = u1 THEN c1 ELSE c2]

\* Two root fields, whose second inputs have one name; g comes after f in a mutation.
MCInputsOf == "f" :> {"a", "b"} @@ "g" :> {"b"}
MCBefore == "f" :> {} @@ "g" :> {"f"}
MCRulesOf == "a" :> {"requiredWith", "userExist", "userHasRole", "maxLen", "notEmpty"} @@ "b" :> {"gtField", "pattern", "len"}
MCArgOf == "a" :> 1 @@ "b" :> 1
MCVal(type, num, size, good) == [kind |-> type, num |-> num, size |-> size, good |-> good]
MCGiven ==
  {MCVal("nil", -1, 0, FALSE), MCVal("slice", -1, 0, TRUE), MCVal("blank", -1, 1, TRUE), MCVal("str", -1, 2, TRUE), MCVal("num", 2, 1, TRUE)}

MCErr(type, status, code) == [kind |-> type, status |-> status, name |-> code]
MCFailures == {MCErr("public", 409, ""), MCErr("pg", 0, "transient"), MCErr("plain", 0, "")}

MCClassOf ==
  "shipments" :> "none" @@ "drivers" :> "HR" @@ "invoices" :> "FINANCIAL" @@ "sessions" :> "SECURITY"

\* Clocks go forward on March 10 2024 and March 9 2025 and back on November 3 2024, at
\* these hours of the day in UTC; in Havana it is midnight when they go forward.
MCSummers(forward, back) ==
  {<<24 * (365 + 31 + 29 + 9) + forward, 24 * (365 + 366 - 31 - 28) + back>>,
   <<24 * (365 + 366 + 31 + 28 + 8) + forward, 24 * (365 + 366 + 365)>>}
MCClocks ==
  "utc" :> [standard |-> 0, summers |-> {}]
  @@ "los_angeles" :> [standard |-> -8, summers |-> MCSummers(10, 9)]
  @@ "havana" :> [standard |-> -5, summers |-> MCSummers(5, 5)]

\* The admin of the platform has no company.
MCEmployerOf == [u \in Callers |-> IF u \in Supers THEN "nobody" ELSE c1]

\* A list without values says nothing, alone or beside a comparison.
MCTerms ==
  {[cmp |-> {<<">", 0>>}, in |-> {{}}, notIn |-> {{1}}, null |-> {}],
   [cmp |-> {}, in |-> {{}}, notIn |-> {}, null |-> {}],
   [cmp |-> {}, in |-> {{0, 1}}, notIn |-> {}, null |-> {}],
   [cmp |-> {<<"!=", 1>>}, in |-> {}, notIn |-> {}, null |-> {}],
   [cmp |-> {}, in |-> {}, notIn |-> {}, null |-> {TRUE}]}

\* Two calls of one replica, whose pool has one connection, and one of another.
MCPodOf == [g \in Goroutines |-> IF g = g3 THEN "p2" ELSE "p1"]
=============================================================================
