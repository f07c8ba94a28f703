-------------------------- MODULE IntegrationsProofs --------------------------
(***************************************************************************)
(* Proofs about the clients of other systems: what ClientProofs finds of   *)
(* each holds of it as a part of the whole.                                *)
(***************************************************************************)
EXTENDS Integrations, ClientProofs

-----------------------------------------------------------------------------
(* Companies (Carriers).                                                   *)

Checks ==
  [step : {"search", "look"}, by : {"mc", "dot"}, number : Numbers \cup Dots \cup {0},
   spelling : {"plain", "padded", "prefixed", "without a token"}, entity : Companies!Entities,
   dot : Dots \cup {0}, disturbed : BOOLEAN]

\* A check that looks at a company has its DOT number, which was given, or is of a company
\* whose docket has the number that was given; nothing comes after a check was made.
CheckUnderWay == inquiry # Companies!None =>
  /\ inquiry \in Checks /\ finding = Companies!None
  /\ inquiry.step = "search" => inquiry.by = "mc" /\ inquiry.dot = 0
  /\ inquiry.by = "dot" => inquiry.number = inquiry.dot
  /\ inquiry.by = "mc" /\ inquiry.step = "look" =>
       inquiry.dot \in Dots /\ census[inquiry.dot].docket[2] = inquiry.number

CheckMade ==
  Companies!NeverFalselyRejected /\ Companies!PassesSound /\ Companies!LegitimatePasses
  /\ Companies!SaferLenient

CompaniesIInv == Companies!TypeOK /\ CheckUnderWay /\ CheckMade

LEMMA CompaniesInitInv == Companies!CarriersAssumption /\ Companies!CarriersInit => CompaniesIInv
<1> SUFFICES ASSUME Companies!CarriersAssumption, Companies!CarriersInit PROVE CompaniesIInv
  OBVIOUS
<1>1. inquiry = Companies!None /\ finding = Companies!None /\ ~Companies!Done
  BY DEF Companies!CarriersInit, Companies!Done, Companies!None
<1>2. census \in [Dots -> Companies!Companies]
  <2> DEFINE New == {[docket |-> <<p, n>>, broker |-> TRUE, carrier |-> FALSE, status |-> "authorized",
                      allowed |-> "yes"] : p \in Companies!Prefixes, n \in Numbers}
  <2>1. New \subseteq Companies!Companies
    <3> SUFFICES ASSUME NEW p \in Companies!Prefixes, NEW n \in Numbers
                 PROVE  [docket |-> <<p, n>>, broker |-> TRUE, carrier |-> FALSE, status |-> "authorized",
                         allowed |-> "yes"] \in Companies!Companies
      OBVIOUS
    <3>1. <<p, n>> \in Companies!Prefixes \X Numbers
      OBVIOUS
    <3> QED BY <3>1 DEF Companies!Companies, Companies!Refusals
  <2>2. census \in [Dots -> New]
    BY DEF Companies!CarriersInit, Companies!Censuses
  <2> HIDE DEF New
  <2> QED BY <2>1, <2>2
<1>3. Companies!TypeOK
  BY <1>1, <1>2 DEF Companies!TypeOK, Companies!CarriersInit, Companies!CarriersAssumption, Companies!None
<1>4. CheckMade
  BY <1>1 DEF CheckMade, Companies!NeverFalselyRejected, Companies!PassesSound, Companies!LegitimatePasses,
    Companies!SaferLenient
<1> QED BY <1>1, <1>3, <1>4 DEF CompaniesIInv, CheckUnderWay

\* A check that was made is the last; until then there is none.
LEMMA OnceMade ==
  ASSUME CompaniesIInv, Companies!CarriersNext
  PROVE  finding = Companies!None
<1>1. Companies!None # inquiry => finding = Companies!None
  BY DEF CompaniesIInv, CheckUnderWay
<1> QED BY <1>1 DEF Companies!CarriersNext, Companies!Begin, Companies!Consult, Companies!Change

\* What a census and a service remain by a check.
LEMMA NothingMade ==
  ASSUME finding' = Companies!None
  PROVE  CheckMade'
BY DEF CheckMade, Companies!NeverFalselyRejected, Companies!PassesSound, Companies!LegitimatePasses,
    Companies!SaferLenient, Companies!Done, Companies!None

LEMMA ListedAll ==
  ASSUME Companies!CarriersAssumption, CompaniesIInv, NEW n, NEW e \in {"broker", "carrier"}, upstream.copy,
         NEW hits \in Companies!Listings(n, e),
         NEW d \in Dots \ hits, census[d].docket[2] = n, Companies!CheckIs(census[d], e)
  PROVE  Cardinality(Companies!Matches(n, e)) > Limit
<1> DEFINE M == Companies!Matches(n, e)
<1>1. M \subseteq Dots /\ IsFiniteSet(M)
  <2>1. M \subseteq Dots
    BY DEF Companies!Matches
  <2>2. IsFiniteSet(Dots)
    BY DEF Companies!CarriersAssumption, Companies!IsFiniteSet, IsFiniteSet
  <2> QED BY <2>1, <2>2, FS_Subset
<1>2. d \in M
  BY DEF Companies!Matches, Companies!CheckIs
<1>3. Companies!Cardinality(M) = Cardinality(M) /\ Companies!Cardinality(hits) = Cardinality(hits)
  BY DEF Companies!Cardinality, Cardinality, Companies!IsFiniteSet, IsFiniteSet
<1>4. hits \subseteq M /\ Cardinality(hits) = IF Cardinality(M) < Limit THEN Cardinality(M) ELSE Limit
  BY <1>3 DEF Companies!Listings
<1>5. Cardinality(hits) < Cardinality(M)
  <2>1. hits # M
    BY <1>2
  <2>2. Cardinality(hits) <= Cardinality(M) /\ (Cardinality(hits) = Cardinality(M) => hits = M)
    BY <1>1, <1>4, FS_Subset
  <2>3. Cardinality(hits) \in Nat /\ Cardinality(M) \in Nat
    BY <1>1, <1>4, FS_Subset, FS_CardinalityType
  <2> QED BY <2>1, <2>2, <2>3
<1>6. Cardinality(M) \in Nat /\ Limit \in Nat
  BY <1>1, FS_CardinalityType DEF Companies!CarriersAssumption
<1> HIDE DEF M
<1>7. Cardinality(M) > Limit
  BY <1>4, <1>5, <1>6
<1> QED BY <1>7 DEF M

\* A check ends with what it read of a company, or before it did.
LEMMA CheckEnds ==
  ASSUME Companies!CarriersAssumption, CompaniesIInv, inquiry # Companies!None, NEW code, NEW cause, NEW reading,
         Companies!End(code, cause, reading),
         \/ /\ code \in {"failed to verify MC", "failed check"} /\ reading = Companies!Unread
            /\ cause = "none" => /\ code = "failed to verify MC" /\ inquiry.step = "search"
                                /\ \A d \in Dots :
                                     upstream.copy /\ census[d].docket[2] = inquiry.number
                                       /\ inquiry.spelling = "plain" /\ Companies!CheckIs(census[d], inquiry.entity)
                                       => Cardinality(Companies!Matches(inquiry.number, inquiry.entity)) > Limit
         \/ /\ inquiry.step = "look" /\ inquiry.dot \in Dots /\ cause = "none"
            /\ reading \in Companies!Answers(census[inquiry.dot], upstream.live)
            /\ code = Companies!Verdict(reading)
  PROVE  CompaniesIInv'
<1>1. inquiry \in Checks /\ CheckUnderWay /\ Companies!TypeOK
  BY DEF CompaniesIInv, CheckUnderWay
<1>2. inquiry' = Companies!None /\ UNCHANGED <<census, upstream, censusChanges>>
  BY DEF Companies!End
<1>3. Companies!TypeOK'
  <2>1. finding'.step = "done"
    BY DEF Companies!End
  <2>0. inquiry'.step = "none"
    BY <1>2, Zenon DEF Companies!None
  <2> QED BY <1>1, <1>2, <2>0, <2>1 DEF Companies!TypeOK
<1>4. CheckUnderWay'
  BY <1>2 DEF CheckUnderWay
<1> DEFINE f == finding'
<1>5. /\ f.step = "done" /\ f.by = inquiry.by /\ f.number = inquiry.number /\ f.spelling = inquiry.spelling
      /\ f.entity = inquiry.entity /\ f.code = code /\ f.cause = cause /\ f.answer = reading
      /\ f.dot = inquiry.dot /\ f.disturbed = inquiry.disturbed
  BY DEF Companies!End
<1> HIDE DEF f
<1>6. CASE /\ code \in {"failed to verify MC", "failed check"} /\ reading = Companies!Unread
           /\ cause = "none" => /\ code = "failed to verify MC" /\ inquiry.step = "search"
                               /\ \A d \in Dots :
                                    upstream.copy /\ census[d].docket[2] = inquiry.number
                                      /\ inquiry.spelling = "plain" /\ Companies!CheckIs(census[d], inquiry.entity)
                                      => Cardinality(Companies!Matches(inquiry.number, inquiry.entity)) > Limit
  <2>1. Companies!NeverFalselyRejected' /\ Companies!PassesSound' /\ Companies!SaferLenient'
    BY <1>5, <1>6 DEF f, Companies!NeverFalselyRejected, Companies!PassesSound, Companies!SaferLenient
  <2>2. Companies!LegitimatePasses'
    <3>0. /\ \A n, e : Companies!Matches(n, e)' = Companies!Matches(n, e)
          /\ \A S : Companies!Cardinality(S) = Cardinality(S)
      BY <1>2 DEF Companies!Matches, Companies!Cardinality, Cardinality, Companies!IsFiniteSet, IsFiniteSet
    <3> SUFFICES ASSUME cause = "none", upstream.copy, NEW d \in Dots,
                        IF inquiry.by = "dot" THEN inquiry.number = d
                          ELSE census[d].docket[2] = inquiry.number /\ inquiry.spelling = "plain",
                        Companies!CheckIs(census[d], inquiry.entity)
                 PROVE  /\ inquiry.by = "mc"
                        /\ Cardinality(Companies!Matches(inquiry.number, inquiry.entity)) > Limit
      BY <1>2, <1>5, <3>0 DEF f, Companies!LegitimatePasses, Companies!CheckIs
    <3>1. inquiry.step = "search"
      BY <1>6
    <3>2. inquiry.by = "mc"
      BY <1>1, <3>1 DEF CheckUnderWay
    <3> QED BY <1>6, <3>2
  <2> QED BY <1>3, <1>4, <2>1, <2>2 DEF CompaniesIInv, CheckMade
<1>7. CASE /\ inquiry.step = "look" /\ inquiry.dot \in Dots /\ cause = "none"
           /\ reading \in Companies!Answers(census[inquiry.dot], upstream.live)
           /\ code = Companies!Verdict(reading)
  <2> DEFINE c == census[inquiry.dot]
  <2>1. c \in Companies!Companies
    BY <1>1, <1>7 DEF Companies!TypeOK
  <2>2. /\ reading.company = c /\ reading.status \in {"none", c.status} /\ reading.allowed \in {"none", c.allowed}
        /\ reading.live \in {"yes", "none", "no"}
        /\ reading.live # "no" => reading.status = c.status /\ reading.allowed = c.allowed
        /\ upstream.live => reading.live # "no"
    BY <1>7 DEF Companies!Answers
  <2> HIDE DEF c
  <2>3. /\ code = "ok" => Companies!IsValid(reading) /\ Companies!CheckIs(c, inquiry.entity)
        /\ code = "no authority" => ~Companies!VerificationUnavailable(reading) /\ ~Companies!IsValid(reading)
        /\ code = "unavailable" => Companies!VerificationUnavailable(reading)
        /\ code = "invalid entity" => ~Companies!CheckIs(c, inquiry.entity)
        /\ code \in {"ok", "no authority", "unavailable", "invalid entity"}
    BY <1>7, <2>2, Zenon DEF Companies!Verdict
  <2>4. Companies!NeverFalselyRejected'
    BY <1>5, <2>2, <2>3
      DEF f, Companies!NeverFalselyRejected, Companies!IsValid, Companies!VerificationUnavailable, Companies!Refusals
  <2>5. Companies!PassesSound'
    <3>1. inquiry.by = "mc" => c.docket[2] = inquiry.number
      BY <1>1, <1>7 DEF c, CheckUnderWay
    <3>2. code = "ok" => reading.status \in {"authorized", "out of service"}
                         /\ (reading.live # "no" => reading.company.status = reading.status /\ reading.company.allowed # "no")
      <4>1. c.status \in {"NOT AUTHORIZED", "Not Authorized", "authorized", "out of service", "none"}
        BY <2>1 DEF Companies!Companies, Companies!Refusals
      <4>2. code = "ok" => reading.status \notin {"NOT AUTHORIZED", "Not Authorized", "none"} /\ reading.allowed # "no"
        BY <2>3 DEF Companies!IsValid, Companies!Refusals
      <4> QED BY <2>2, <4>1, <4>2
    <3>3. code = "ok" => Companies!CheckIs(reading.company, inquiry.entity)
      BY <2>2, <2>3
    <3> QED BY <1>5, <2>2, <3>1, <3>2, <3>3 DEF f, Companies!PassesSound, Companies!CheckIs
  <2>6. Companies!SaferLenient'
    <3>1. f.by # "safer"
      BY <1>1, <1>5 DEF Checks
    <3> QED BY <3>1 DEF f, Companies!SaferLenient
  <2>7. Companies!LegitimatePasses'
    <3> SUFFICES ASSUME code # "ok", upstream.live, NEW d \in Dots,
                        IF inquiry.by = "dot" THEN inquiry.number = d
                          ELSE census[d].docket[2] = inquiry.number /\ inquiry.spelling = "plain",
                        census[d].status = "authorized", census[d].allowed # "no",
                        Companies!CheckIs(census[d], inquiry.entity)
                 PROVE  inquiry.by = "mc" /\ inquiry.dot \notin {0, d}
      BY <1>2, <1>5 DEF f, Companies!LegitimatePasses, Companies!CheckIs
    <3>1. inquiry.dot # d
      <4> SUFFICES ASSUME inquiry.dot = d PROVE FALSE
        OBVIOUS
      <4>1. Companies!CheckIs(c, inquiry.entity) /\ c.status = "authorized" /\ c.allowed # "no"
        BY DEF c
      <4> QED BY <2>2, <2>3, <4>1 DEF Companies!IsValid, Companies!VerificationUnavailable, Companies!Refusals
    <3>2. inquiry.dot # 0
      BY <1>7 DEF Companies!CarriersAssumption
    <3>3. inquiry.by = "mc"
      BY <1>1, <3>1 DEF CheckUnderWay, Checks
    <3> QED BY <3>1, <3>2, <3>3
  <2> QED BY <1>3, <1>4, <2>4, <2>5, <2>6, <2>7 DEF CompaniesIInv, CheckMade
<1> QED BY <1>6, <1>7

LEMMA CompaniesNextInv ==
  ASSUME Companies!CarriersAssumption, CompaniesIInv, Companies!CarriersNext
  PROVE  CompaniesIInv'
<1>1. finding = Companies!None
  BY OnceMade
<1>2. Companies!TypeOK /\ CheckUnderWay
  BY DEF CompaniesIInv
<1>3. ASSUME NEW by \in {"mc", "dot"}, NEW n \in Numbers \cup Dots \cup {0}, by = "dot" => n \in Dots \cup {0},
             NEW s \in {"plain", "padded", "prefixed", "without a token"}, NEW e \in Companies!Entities,
             Companies!Begin(by, n, s, e)
      PROVE  CompaniesIInv'
  <2>1. inquiry' \in Checks /\ UNCHANGED <<census, upstream, finding, censusChanges>>
    BY <1>3 DEF Companies!Begin, Checks
  <2>2. inquiry'.step = IF by = "mc" THEN "search" ELSE "look"
    BY <1>3 DEF Companies!Begin
  <2>3. Companies!TypeOK'
    BY <1>2, <2>1, <2>2 DEF Companies!TypeOK
  <2>4. CheckUnderWay'
    <3>1. inquiry'.by = by /\ inquiry'.number = n /\ inquiry'.dot = IF by = "mc" THEN 0 ELSE n
      BY <1>3 DEF Companies!Begin
    <3> QED BY <1>1, <2>1, <2>2, <3>1 DEF CheckUnderWay
  <2>5. CheckMade'
    BY <1>1, <2>1, NothingMade
  <2> QED BY <2>3, <2>4, <2>5 DEF CompaniesIInv
<1>4. CASE inquiry # Companies!None /\ Companies!Search
  <2>1. inquiry \in Checks /\ inquiry.step = "search" /\ inquiry.entity \in {"broker", "carrier"}
    BY <1>2, <1>4 DEF CheckUnderWay, Companies!Search, Companies!Refusal
  <2>2. ASSUME NEW cause, cause # "none", Companies!End("failed to verify MC", cause, Companies!Unread)
        PROVE  CompaniesIInv'
    BY <1>4, <2>2, CheckEnds
  <2>3. ASSUME upstream.copy \in BOOLEAN, NEW hits \in Companies!Listings(inquiry.number, inquiry.entity),
               {d \in hits : census[d].docket[2] = inquiry.number /\ inquiry.spelling = "plain"} = {},
               Companies!End("failed to verify MC", "none", Companies!Unread)
        PROVE  CompaniesIInv'
    <3>1. ASSUME NEW d \in Dots, upstream.copy, census[d].docket[2] = inquiry.number, inquiry.spelling = "plain",
                 Companies!CheckIs(census[d], inquiry.entity)
          PROVE  Cardinality(Companies!Matches(inquiry.number, inquiry.entity)) > Limit
      <4>1. d \notin hits
        BY <2>3, <3>1
      <4> QED BY <2>1, <2>3, <3>1, <4>1, ListedAll
    <3> QED BY <1>4, <2>1, <2>3, <3>1, CheckEnds
  <2>4. ASSUME NEW hits \in Companies!Listings(inquiry.number, inquiry.entity), NEW d \in hits,
               census[d].docket[2] = inquiry.number,
               inquiry' = [inquiry EXCEPT !.step = "look", !.dot = d],
               UNCHANGED <<census, upstream, finding, censusChanges>>
        PROVE  CompaniesIInv'
    <3>1. d \in Dots
      <4>1. Companies!Matches(inquiry.number, inquiry.entity) \subseteq Dots
        BY DEF Companies!Matches
      <4> QED BY <2>4, <4>1 DEF Companies!Listings
    <3>2. /\ inquiry' \in Checks /\ inquiry'.step = "look" /\ inquiry'.by = inquiry.by /\ inquiry'.dot = d
          /\ inquiry'.number = inquiry.number
      BY <2>1, <2>4, <3>1 DEF Checks
    <3>3. Companies!TypeOK'
      BY <1>2, <2>4, <3>2 DEF Companies!TypeOK
    <3>4. CheckUnderWay'
      <4>1. inquiry.by = "mc"
        BY <1>2, <1>4, <2>1 DEF CheckUnderWay
      <4> QED BY <1>1, <2>4, <3>1, <3>2, <4>1 DEF CheckUnderWay
    <3>5. CheckMade'
      BY <1>1, <2>4, NothingMade
    <3> QED BY <3>3, <3>4, <3>5 DEF CompaniesIInv
  <2>5. upstream.copy \in BOOLEAN
    BY <1>2 DEF Companies!TypeOK
  <2> DEFINE Of(status, body) == Companies!CauseOf("fmcsa", status, body)
             Same(hits) == {d \in hits : census[d].docket[2] = inquiry.number /\ inquiry.spelling = "plain"}
  <2>6. PICK status, body :
          IF Of(status, body) # "none" THEN Companies!End("failed to verify MC", Of(status, body), Companies!Unread)
          ELSE \E hits \in Companies!Listings(inquiry.number, inquiry.entity) :
                 \/ /\ Same(hits) = {}
                    /\ Companies!End("failed to verify MC", "none", Companies!Unread)
                 \/ \E d \in Same(hits) :
                      /\ inquiry' = [inquiry EXCEPT !.step = "look", !.dot = d]
                      /\ UNCHANGED <<census, upstream, finding, censusChanges>>
    <3>1. PICK status \in IF upstream.up THEN Companies!Statuses ELSE {0, 503} :
            \E body \in Companies!Bodies(status) :
            LET cause == Companies!CauseOf("fmcsa", status, body)
            IN IF cause # "none" THEN Companies!End("failed to verify MC", cause, Companies!Unread)
               ELSE \E hits \in Companies!Listings(inquiry.number, inquiry.entity) :
                      LET same == {d \in hits : census[d].docket[2] = inquiry.number /\ inquiry.spelling = "plain"}
                      IN \/ /\ same = {}
                            /\ Companies!End("failed to verify MC", "none", Companies!Unread)
                         \/ \E d \in same :
                              /\ inquiry' = [inquiry EXCEPT !.step = "look", !.dot = d]
                              /\ UNCHANGED <<census, upstream, finding, censusChanges>>
      BY <1>4 DEF Companies!Search
    <3> QED BY <3>1
  <2>7. CASE Of(status, body) # "none"
    <3>1. Companies!End("failed to verify MC", Of(status, body), Companies!Unread)
      BY <2>6, <2>7
    <3> HIDE DEF Of
    <3> QED BY <2>2, <2>7, <3>1
  <2>8. CASE Of(status, body) = "none"
    <3>1. PICK hits \in Companies!Listings(inquiry.number, inquiry.entity) :
                 \/ /\ Same(hits) = {}
                    /\ Companies!End("failed to verify MC", "none", Companies!Unread)
                 \/ \E d \in Same(hits) :
                      /\ inquiry' = [inquiry EXCEPT !.step = "look", !.dot = d]
                      /\ UNCHANGED <<census, upstream, finding, censusChanges>>
      BY <2>6, <2>8
    <3>2. CASE Same(hits) = {} /\ Companies!End("failed to verify MC", "none", Companies!Unread)
      BY <2>3, <2>5, <3>2
    <3>3. ASSUME NEW d \in Same(hits), inquiry' = [inquiry EXCEPT !.step = "look", !.dot = d],
                 UNCHANGED <<census, upstream, finding, censusChanges>>
          PROVE  CompaniesIInv'
      BY <2>4, <3>3
    <3> QED BY <3>1, <3>2, <3>3
  <2> QED BY <2>7, <2>8
<1>5. CASE inquiry # Companies!None /\ Companies!Look
  <2>1. PICK status \in CASE ~upstream.up -> {0, 503}
                     [] upstream.up /\ inquiry.dot \notin Dots -> {404}
                     [] OTHER -> Companies!Statuses \ {404} : 
         \E body \in Companies!Bodies(status) :
         LET cause == Companies!CauseOf("fmcsa", status, body)
         IN IF cause # "none" THEN Companies!End("failed check", cause, Companies!Unread)
            ELSE \E reading \in Companies!Answers(census[inquiry.dot], upstream.live) :
                   Companies!End(Companies!Verdict(reading), "none", reading)
    BY <1>5 DEF Companies!Look
  <2>2. PICK body \in Companies!Bodies(status) :
         LET cause == Companies!CauseOf("fmcsa", status, body)
         IN IF cause # "none" THEN Companies!End("failed check", cause, Companies!Unread)
            ELSE \E reading \in Companies!Answers(census[inquiry.dot], upstream.live) :
                   Companies!End(Companies!Verdict(reading), "none", reading)
    BY <2>1
  <2> DEFINE cause == Companies!CauseOf("fmcsa", status, body)
  <2>3. inquiry.step = "look"
    BY <1>5 DEF Companies!Look
  <2>4. CASE cause # "none"
    <3> HIDE DEF cause
    <3>1. Companies!End("failed check", cause, Companies!Unread)
      BY <2>2, <2>4 DEF cause
    <3> QED BY <1>5, <2>4, <3>1, CheckEnds
  <2>5. CASE cause = "none"
    <3>1. PICK reading \in Companies!Answers(census[inquiry.dot], upstream.live) :
                 Companies!End(Companies!Verdict(reading), "none", reading)
      BY <2>2, <2>5
    <3>2. inquiry.dot \in Dots
      <4> SUFFICES ASSUME inquiry.dot \notin Dots PROVE FALSE
        OBVIOUS
      <4>1. upstream.up \in BOOLEAN
        BY <1>2 DEF Companies!TypeOK
      <4>2. status \in {0, 503, 404}
        BY <2>1, <4>1
      <4>3. status \notin 200..300
        BY <4>2
      <4>4. Companies!Accepts["fmcsa"] = 200..300
        BY DEF Companies!Accepts
      <4> QED BY <2>5, <4>2, <4>3, <4>4 DEF Companies!CauseOf
    <3> HIDE DEF cause
    <3> QED BY <1>5, <2>3, <3>1, <3>2, CheckEnds
  <2> QED BY <2>4, <2>5
<1>6. CASE inquiry # Companies!None /\ Companies!Refuse
  <2>1. CASE inquiry.step = "search"
    BY <1>6, <2>1, CheckEnds DEF Companies!Refuse
  <2>2. CASE inquiry.step # "search"
    BY <1>6, <2>2, CheckEnds DEF Companies!Refuse
  <2> QED BY <2>1, <2>2
<1>7. ASSUME NEW client \in {"safer", "name"}, NEW d \in Dots, Companies!Consult(client, d)
      PROVE  CompaniesIInv'
  <2>1. inquiry = Companies!None /\ UNCHANGED <<census, upstream, inquiry, censusChanges>>
    BY <1>7 DEF Companies!Consult
  <2> DEFINE Of(status, body) == Companies!CauseOf(client, status, body)
             Made(code, cause, reading) ==
               finding' = [step |-> "done", by |-> client, number |-> d, spelling |-> "plain",
                           entity |-> "any", code |-> code, cause |-> cause, answer |-> reading,
                           dot |-> d, disturbed |-> FALSE]
  <2>2. PICK status, body :
          \/ /\ Of(status, body) # "none"
             /\ Made("failed check", Of(status, body), Companies!Unread)
          \/ /\ Of(status, body) = "none" /\ client = "safer"
             /\ \E reading \in Companies!Answers(census[d], TRUE) :
                  Made(IF Companies!SaferIsValid(reading) THEN "ok" ELSE "no authority", Of(status, body), reading)
          \/ /\ Of(status, body) = "none" /\ client = "name"
             /\ Made("found", Of(status, body), Companies!Unread)
    <3>1. PICK status \in IF upstream.live THEN Companies!Statuses ELSE {0, 503} :
            \E body \in Companies!Bodies(status) :
            LET cause == Companies!CauseOf(client, status, body)
                Found(code, reading) ==
                  finding' = [step |-> "done", by |-> client, number |-> d, spelling |-> "plain",
                              entity |-> "any", code |-> code, cause |-> cause, answer |-> reading,
                              dot |-> d, disturbed |-> FALSE]
            IN \/ /\ cause # "none"
                  /\ Found("failed check", Companies!Unread)
               \/ /\ cause = "none" /\ client = "safer"
                  /\ \E reading \in Companies!Answers(census[d], TRUE) :
                       Found(IF Companies!SaferIsValid(reading) THEN "ok" ELSE "no authority", reading)
               \/ /\ cause = "none" /\ client = "name"
                  /\ Found("found", Companies!Unread)
      BY <1>7 DEF Companies!Consult
    <3>2. PICK body \in Companies!Bodies(status) :
               \/ /\ Of(status, body) # "none"
                  /\ Made("failed check", Of(status, body), Companies!Unread)
               \/ /\ Of(status, body) = "none" /\ client = "safer"
                  /\ \E reading \in Companies!Answers(census[d], TRUE) :
                       Made(IF Companies!SaferIsValid(reading) THEN "ok" ELSE "no authority", Of(status, body), reading)
               \/ /\ Of(status, body) = "none" /\ client = "name"
                  /\ Made("found", Of(status, body), Companies!Unread)
      BY <3>1
    <3> HIDE DEF Of, Made
    <3> QED BY <3>2
  <2>3. ASSUME NEW code \in {"failed check", "found"}, Made(code, Of(status, body), Companies!Unread)
        PROVE  CompaniesIInv'
    <3> HIDE DEF Of
    <3>1. finding'.step = "done" /\ finding'.by = client /\ finding'.code = code /\ finding'.answer = Companies!Unread
      BY <2>3
    <3>2. Companies!TypeOK'
      BY <1>2, <2>1, <3>1 DEF Companies!TypeOK
    <3>3. CheckUnderWay'
      BY <2>1 DEF CheckUnderWay
    <3>4. CheckMade'
      BY <3>1 DEF CheckMade, Companies!NeverFalselyRejected, Companies!PassesSound, Companies!LegitimatePasses,
        Companies!SaferLenient
    <3> QED BY <3>2, <3>3, <3>4 DEF CompaniesIInv
  <2>4. ASSUME NEW reading \in Companies!Answers(census[d], TRUE), client = "safer",
               Made(IF Companies!SaferIsValid(reading) THEN "ok" ELSE "no authority", Of(status, body), reading)
        PROVE  CompaniesIInv'
    <3> HIDE DEF Of
    <3>1. /\ finding'.step = "done" /\ finding'.by = client /\ finding'.answer = reading
          /\ finding'.code = IF Companies!SaferIsValid(reading) THEN "ok" ELSE "no authority"
      BY <2>4
    <3>2. Companies!TypeOK'
      BY <1>2, <2>1, <3>1 DEF Companies!TypeOK
    <3>3. CheckUnderWay'
      BY <2>1 DEF CheckUnderWay
    <3>4. reading.company = census[d] /\ reading.status = census[d].status
      <4>1. PICK l \in {"yes", "none"} :
               reading = [company |-> census[d], status |-> census[d].status, allowed |-> census[d].allowed, live |-> l]
        BY <2>4 DEF Companies!Answers
      <4> QED BY <4>1
    <3>5. census[d].status \in {"NOT AUTHORIZED", "Not Authorized", "authorized", "out of service", "none"}
      BY <1>2 DEF Companies!TypeOK, Companies!Companies, Companies!Refusals
    <3>6. Companies!NeverFalselyRejected'
      BY <3>1, <3>4 DEF Companies!NeverFalselyRejected, Companies!SaferIsValid, Companies!Refusals
    <3>7. Companies!SaferLenient'
      BY <3>1, <3>4, <3>5 DEF Companies!SaferLenient, Companies!SaferIsValid, Companies!IsValid, Companies!Refusals
    <3>8. Companies!PassesSound' /\ Companies!LegitimatePasses'
      BY <2>4, <3>1 DEF Companies!PassesSound, Companies!LegitimatePasses
    <3> QED BY <3>2, <3>3, <3>6, <3>7, <3>8 DEF CompaniesIInv, CheckMade
  <2> QED BY <2>2, <2>3, <2>4
<1>8. CASE Companies!Change
  <2>1. finding' = Companies!None
    BY <1>1, <1>8 DEF Companies!Change
  <2>2. CheckMade'
    BY <2>1, NothingMade
  <2>3. census' \in [Dots -> Companies!Companies] /\ \A d \in Dots : census'[d].docket = census[d].docket
    <3>1. ASSUME NEW d \in Dots,
                 NEW c \in {[census[d] EXCEPT !.broker = FALSE, !.carrier = TRUE],
                            [census[d] EXCEPT !.status = "NOT AUTHORIZED"],
                            [census[d] EXCEPT !.status = "Not Authorized"],
                            [census[d] EXCEPT !.status = "out of service"],
                            [census[d] EXCEPT !.status = "none"],
                            [census[d] EXCEPT !.allowed = "no"],
                            [census[d] EXCEPT !.allowed = "none"]},
                 census' = [census EXCEPT ![d] = c]
          PROVE  census' \in [Dots -> Companies!Companies] /\ \A x \in Dots : census'[x].docket = census[x].docket
      <4>1. census \in [Dots -> Companies!Companies] /\ census[d] \in Companies!Companies
        BY <1>2 DEF Companies!TypeOK
      <4>2. c \in Companies!Companies /\ c.docket = census[d].docket
        BY <3>1, <4>1 DEF Companies!Companies, Companies!Refusals
      <4> QED BY <3>1, <4>1, <4>2
    <3>2. CASE UNCHANGED census
      BY <1>2, <3>2 DEF Companies!TypeOK
    <3> QED BY <1>8, <3>1, <3>2 DEF Companies!Change
  <2>4. upstream' \in [up : BOOLEAN, copy : BOOLEAN, live : BOOLEAN] /\ censusChanges' \in 0..MaxCensus
    <3>1. upstream \in [up : BOOLEAN, copy : BOOLEAN, live : BOOLEAN] /\ censusChanges \in 0..MaxCensus
      BY <1>2 DEF Companies!TypeOK
    <3>2. MaxCensus \in Nat
      BY DEF Companies!CarriersAssumption
    <3>3. upstream' \in [up : BOOLEAN, copy : BOOLEAN, live : BOOLEAN]
      <4>1. ASSUME NEW f \in DOMAIN upstream, upstream' = [upstream EXCEPT ![f] = ~upstream[f]]
            PROVE  upstream' \in [up : BOOLEAN, copy : BOOLEAN, live : BOOLEAN]
        <5>1. f \in {"up", "copy", "live"}
          BY <3>1
        <5> QED BY <3>1, <4>1, <5>1
      <4> QED BY <1>8, <3>1, <4>1 DEF Companies!Change
    <3>4. censusChanges' \in 0..MaxCensus
      <4>1. censusChanges < MaxCensus /\ censusChanges' = censusChanges + 1
        BY <1>8 DEF Companies!Change
      <4> QED BY <3>1, <3>2, <4>1
    <3> QED BY <3>3, <3>4
  <2>5. CASE inquiry = Companies!None
    <3>1. inquiry' = Companies!None
      BY <1>8, <2>5 DEF Companies!Change
    <3>2. Companies!TypeOK' /\ CheckUnderWay'
      BY <1>2, <2>1, <2>3, <2>4, <3>1 DEF Companies!TypeOK, CheckUnderWay, Companies!None
    <3> QED BY <2>2, <3>2 DEF CompaniesIInv
  <2>6. CASE inquiry # Companies!None
    <3>1. inquiry \in Checks
      BY <1>2, <2>6 DEF CheckUnderWay
    <3>2. inquiry' = [inquiry EXCEPT !.disturbed = TRUE]
      BY <1>8, <2>6 DEF Companies!Change
    <3>3. /\ inquiry' \in Checks /\ inquiry'.step = inquiry.step /\ inquiry'.by = inquiry.by
          /\ inquiry'.number = inquiry.number /\ inquiry'.dot = inquiry.dot
      BY <3>1, <3>2 DEF Checks
    <3>4. CheckUnderWay'
      BY <1>2, <2>1, <2>3, <2>6, <3>3 DEF CheckUnderWay
    <3>5. Companies!TypeOK'
      BY <1>2, <2>1, <2>3, <2>4, <3>3 DEF Companies!TypeOK, Companies!None
    <3> QED BY <2>2, <3>4, <3>5 DEF CompaniesIInv
  <2> QED BY <2>5, <2>6
<1>9. (\E e \in Companies!Entities, s \in {"plain", "padded", "prefixed", "without a token"} :
         \/ \E n \in Numbers : Companies!Begin("mc", n, s, e)
         \/ \E d \in Dots \cup {0} : s # "padded" /\ Companies!Begin("dot", d, s, e)) => CompaniesIInv'
  BY <1>3
<1> QED BY <1>4, <1>5, <1>6, <1>7, <1>8, <1>9 DEF Companies!CarriersNext

LEMMA CompaniesRest ==
  ASSUME CompaniesIInv, UNCHANGED companiesVars
  PROVE  CompaniesIInv'
<1>1. UNCHANGED <<census, upstream, inquiry, finding, censusChanges>>
  BY DEF companiesVars
<1>2. \A n, e : Companies!Matches(n, e)' = Companies!Matches(n, e)
  BY <1>1 DEF Companies!Matches
<1>3. Companies!TypeOK' /\ CheckUnderWay'
  BY <1>1 DEF CompaniesIInv, Companies!TypeOK, CheckUnderWay
<1>4. Companies!NeverFalselyRejected' /\ Companies!PassesSound' /\ Companies!SaferLenient'
  BY <1>1 DEF CompaniesIInv, CheckMade, Companies!NeverFalselyRejected, Companies!PassesSound,
    Companies!SaferLenient, Companies!Done
<1>5. Companies!LegitimatePasses'
  <2>1. Companies!LegitimatePasses
    BY DEF CompaniesIInv, CheckMade
  <2> QED BY <1>1, <1>2, <2>1 DEF Companies!LegitimatePasses, Companies!Done
<1> QED BY <1>3, <1>4, <1>5 DEF CompaniesIInv, CheckMade

-----------------------------------------------------------------------------
(* The whole.                                                              *)

\* A step of the whole is one of the part under study, or leaves that part as it is.
LEMMA PartsStep ==
  ASSUME [Next]_vars
  PROVE  /\ part' = part
         /\ part = "usps" => Usps!Next \/ UNCHANGED uspsVars
         /\ part = "rms" => Rms!RegistrationNext \/ UNCHANGED rmsVars
         /\ part = "cards" => Cards!FuelNext \/ UNCHANGED cardsVars
         /\ part = "mail" => Mails!MailNext \/ UNCHANGED mailVars
         /\ part = "orders" => Once!OrdersNext \/ UNCHANGED ordersVars
         /\ part = "companies" => Companies!CarriersNext \/ UNCHANGED companiesVars
<1>1. CASE UNCHANGED vars
  BY <1>1 DEF vars, told, vendors
<1>2. CASE Next
  BY <1>2 DEF Next, InUsps, InToll, InFeed, InAlerts, InSingle, InRms, InMail, InCards, InCalls,
              InRoutes, InMaps, InCompanies, InOrders
<1> QED BY <1>1, <1>2

\* The token of USPS (token, doRequest), for any callers, faults, revocations and times of
\* the clocks: no token expires on its way, one revocation costs no caller its request, and
\* fetches are shared.
THEOREM TokenSafe == Spec => []TokenSound
<1>1. Usps!UspsAssumption
  BY IntegrationsAssumption
<1>2. Init => (part = "usps" => UspsIInv)
  BY <1>1, UspsInitInv DEF Init
<1>3. (part = "usps" => UspsIInv) /\ [Next]_vars => (part = "usps" => UspsIInv)'
  BY <1>1, PartsStep, UspsNextInv, UspsRests
<1>4. (part = "usps" => UspsIInv) => TokenSound
  BY <1>1, UspsHold DEF TokenSound
<1> QED BY <1>2, <1>3, <1>4, PTL DEF Spec

\* Declarations (registerJSON, RegisterContracts, RegisterCapabilities): what a call returns
\* is so, and a later instance's declaration is overwritten only by a call it overlapped.
THEOREM RegistrationSafe == Spec => []RegistrationSound
<1>1. Rms!RegistrationAssumption
  BY IntegrationsAssumption
<1>2. Init => (part = "rms" => RmsIInv)
  BY <1>1, RmsInitInv DEF Init
<1>3. (part = "rms" => RmsIInv) /\ [Next]_vars => (part = "rms" => RmsIInv)'
  BY <1>1, PartsStep, RmsNextInv, RmsRests
<1>4. (part = "rms" => RmsIInv) => RegistrationSound
  BY DEF RegistrationSound, RmsIInv
<1> QED BY <1>2, <1>3, <1>4, PTL DEF Spec

\* Fuel cards (GetByCompanyID, doRequestTo, CreateOneTimeCode, UpdatePolicyAssignment): a key
\* that is good is removed only on old news; what was told nil stands, or something of unknown
\* outcome came after it; what is made twice, and used again, is owed to an error.
THEOREM CardsSafe == Spec => []CardsSound
<1>1. Cards!FuelAssumption
  BY IntegrationsAssumption
<1>2. Init => (part = "cards" => CardsIInv)
  BY <1>1, CardsInitInv DEF Init
<1>3. (part = "cards" => CardsIInv) /\ [Next]_vars => (part = "cards" => CardsIInv)'
  BY <1>1, PartsStep, CardsNextInv, CardsRests
<1>4. (part = "cards" => CardsIInv) => CardsSound
  BY <1>1, CardsHold DEF CardsSound
<1> QED BY <1>2, <1>3, <1>4, PTL DEF Spec

\* The poll and the webhooks (ListTransactions, VerifyWebhookSignature): no fueling before the
\* second that was polled is missing, whatever became of the key.
THEOREM FuelingSafe == Spec => []FuelingSound
<1>1. Cards!FuelAssumption
  BY IntegrationsAssumption
<1>2. Init => (part = "cards" => CardsIInv)
  BY <1>1, CardsInitInv DEF Init
<1>3. (part = "cards" => CardsIInv) /\ [Next]_vars => (part = "cards" => CardsIInv)'
  BY <1>1, PartsStep, CardsNextInv, CardsRests
<1>4. (part = "cards" => CardsIInv) => FuelingSound
  BY DEF FuelingSound, CardsIInv, Polled
<1> QED BY <1>2, <1>3, <1>4, PTL DEF Spec

\* Mails and notifications (SendWithOptions, SendBatch, writeEvent): nothing of a
\* transaction is mailed unless it commits, what was told to be sent is not lost, and twice
\* is mailed only what the caller sends again under a new ID.
THEOREM MailSafe == Spec => []MailSound
<1>1. Mails!MailAssumption
  BY IntegrationsAssumption
<1>2. Init => (part = "mail" => MailIInv)
  BY <1>1, MailInitInv DEF Init
<1>3. (part = "mail" => MailIInv) /\ [Next]_vars => (part = "mail" => MailIInv)'
  BY <1>1, PartsStep, MailNextInv, MailRests
<1>4. (part = "mail" => MailIInv) => MailSound
  BY <1>1, MailHolds DEF MailSound
<1> QED BY <1>2, <1>3, <1>4, PTL DEF Spec

\* What is asked once (CreateForValidation, Process, send): who is told that a thing is done
\* has it done, a task is opened once, and what is done twice is owed to an error.
THEOREM OrdersSafe == Spec => []OrdersSound
<1>1. Once!OrdersAssumption
  BY IntegrationsAssumption
<1>2. Init => (part = "orders" => OrdersIInv)
  BY <1>1, OrdersInitInv DEF Init
<1>3. (part = "orders" => OrdersIInv) /\ [Next]_vars => (part = "orders" => OrdersIInv)'
  BY <1>1, PartsStep, OrdersNextInv, OrdersRests
<1>4. (part = "orders" => OrdersIInv) => OrdersSound
  BY OrdersHold DEF OrdersSound
<1> QED BY <1>2, <1>3, <1>4, PTL DEF Spec

\* What a service writes with another (registerJSON, SendWithOptions, doRequestTo,
\* CreateForValidation, Process, send): the promises of all these clients.
THEOREM WrittenSafe == Spec => []WrittenSound
<1>1. RegistrationSound /\ MailSound /\ CardsSound /\ OrdersSound => WrittenSound
  BY DEF WrittenSound
<1> QED BY <1>1, RegistrationSafe, MailSafe, CardsSafe, OrdersSafe, PTL

\* FMCSA and SAFER (SearchByMC, ValidateCarrier and their kin): a company that is what it says
\* is not falsely rejected, one that passes is, a legitimate one passes when nothing disturbed
\* the check, and SAFER's answer is no stricter than what it read.
THEOREM CompaniesSafe == Spec => []CompaniesSound
<1>1. Companies!CarriersAssumption
  BY IntegrationsAssumption
<1>2. Init => (part = "companies" => CompaniesIInv)
  BY <1>1, CompaniesInitInv DEF Init
<1>3. (part = "companies" => CompaniesIInv) /\ [Next]_vars
        => (part = "companies" => CompaniesIInv)'
  BY <1>1, PartsStep, CompaniesNextInv, CompaniesRest
<1>4. (part = "companies" => CompaniesIInv) => CompaniesSound
  BY DEF CompaniesSound, CompaniesIInv, CheckMade, Companies!CarriersSound
<1> QED BY <1>2, <1>3, <1>4, PTL DEF Spec
===============================================================================
