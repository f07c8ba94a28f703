------------------------------- MODULE Carriers -------------------------------
(***************************************************************************)
(* Is this company what it says, and may it operate?  Checks of brokers    *)
(* and carriers by their MC or DOT number with TMS360's FMCSA service      *)
(* (client/fmcsa), beside the reading of SAFER's answers (client/saferapi) *)
(* and the search by name (client/fmcsa/fmcsa_external).                   *)
(*                                                                         *)
(* The service is external.  It searches its copy of the census, at most   *)
(* Limit active companies at a time, and asks FMCSA's live service for the *)
(* authority of a single one, which may be out of reach.                   *)
(***************************************************************************)
EXTENDS Integers, FiniteSets

CONSTANTS
  Dots,        \* the companies, by DOT number
  Numbers,     \* digits of docket numbers
  Within,      \* pairs <<n, m>>: a search for n finds m too
  Limit,       \* of a search: 20
  MaxCensus    \* bound: changes of the census and of the service

CarriersAssumption ==
  /\ Dots \subseteq Nat \ {0} /\ IsFiniteSet(Dots) /\ Limit \in Nat \ {0} /\ MaxCensus \in Nat
  /\ Within \subseteq Numbers \X Numbers

VARIABLES
  census,    \* FMCSA: of every company its docket, what it is, its authority
  upstream,  \* the service: it answers; it has its copy; FMCSA's live service answers it
  inquiry,   \* the check under way
  finding,   \* the check that was made, as it was returned
  censusChanges

carrierVars == <<census, upstream, inquiry, finding, censusChanges>>

Prefixes == {"MC", "MX"}

\* What FMCSA says of a company's authority.  A refusal is "NOT AUTHORIZED", at times in
\* other letters or between blanks; "out of service" is any status that is neither that nor
\* an authorization.
Refusals == {"NOT AUTHORIZED", "Not Authorized"}
Companies ==
  [docket : Prefixes \X Numbers, broker : BOOLEAN, carrier : BOOLEAN,
   status : Refusals \cup {"authorized", "out of service", "none"}, allowed : {"yes", "no", "none"}]

Entities == {"broker", "carrier", "Broker", "shipper"}
None == [step |-> "none"]

-----------------------------------------------------------------------------
(* Reading an answer.                                                      *)

\* Result, as GetCompany's answer has it: of a company whose authority FMCSA could not be
\* asked for, what is known, if anything, is old.
Answers(company, live) ==
  IF live THEN {[company |-> company, status |-> company.status, allowed |-> company.allowed,
                 live |-> l] : l \in {"yes", "none"}}
  ELSE {[company |-> company, status |-> s, allowed |-> "none", live |-> "no"] :
          s \in {"none", company.status}}

\* VerificationUnavailable.
VerificationUnavailable(answer) == answer.status = "none" /\ answer.live = "no"

\* Result.IsValid: any status but a refusal, in any letters, will do.
IsValid(answer) == answer.status \notin Refusals \cup {"none"} /\ answer.allowed # "no"

\* saferapi's IsValid: what is not said is not held against the company, nor is a refusal
\* in other letters.
SaferIsValid(answer) == answer.status # "NOT AUTHORIZED"

\* CheckIs, which reads the entity in any spelling.
CheckIs(company, entity) ==
  CASE entity \in {"broker", "Broker"} -> company.broker
    [] entity = "carrier" -> company.carrier
    [] OTHER -> FALSE

\* The kinds of answers a client takes for one: handleAPIError and executeSearch let 300
\* pass, saferapi 200 to 299, fmcsa_external 200 alone.
Accepts == [fmcsa |-> 200..300, safer |-> 200..299, name |-> {200}]

\* What is left of an error, for errors.Is and errors.As: the status is in its text only.
CauseOf(client, status, body) ==
  CASE status = 0 -> "transport"
    [] status # 0 /\ status \notin Accepts[client] -> "status"
    [] OTHER -> IF body = "garbled" THEN "decode" ELSE "none"

Statuses == {0, 200, 300, 404, 422, 503}
Bodies(status) == IF status = 300 THEN {"garbled"} ELSE IF status = 200 THEN {"whole", "garbled"} ELSE {"error"}

-----------------------------------------------------------------------------
(* Checks.                                                                 *)

\* At first all are authorized brokers, each under its own docket.
Censuses ==
  {c \in [Dots -> {[docket |-> <<p, n>>, broker |-> TRUE, carrier |-> FALSE,
                    status |-> "authorized", allowed |-> "yes"] : p \in Prefixes, n \in Numbers}] :
     \A d, e \in Dots : d # e => c[d].docket # c[e].docket}

CarriersInit ==
  /\ census \in Censuses
  /\ upstream = [up |-> TRUE, copy |-> TRUE, live |-> TRUE]
  /\ inquiry = None /\ finding = None /\ censusChanges = 0

\* A check ends: its code, the error it wraps, and what it had read.
End(code, cause, answer) ==
  /\ inquiry' = None
  /\ finding' = [step |-> "done", by |-> inquiry.by, number |-> inquiry.number,
                 spelling |-> inquiry.spelling, entity |-> inquiry.entity, code |-> code,
                 cause |-> cause, answer |-> answer, dot |-> inquiry.dot,
                 disturbed |-> inquiry.disturbed]
  /\ UNCHANGED <<census, upstream, censusChanges>>

Unread == [live |-> "unread"]

\* CheckCompanyByMC, CheckCompanyByDOT: called.  The clients keep nothing between calls, so
\* one is made (a bound).
Begin(by, number, spelling, entity) ==
  /\ inquiry = None /\ finding = None
  /\ inquiry' = [step |-> IF by = "mc" THEN "search" ELSE "look", by |-> by, number |-> number,
                 spelling |-> spelling, entity |-> entity,
                 dot |-> IF by = "mc" THEN 0 ELSE number, disturbed |-> FALSE]
  /\ UNCHANGED <<census, upstream, finding, censusChanges>>

\* validateMCNumber, validateDotNumber, FetchFMCSAResults, setAuthToken: refused before it
\* is sent.  A prefix is, though SearchByMC would take it off.
Refusal ==
  \/ inquiry.spelling \in {"prefixed", "without a token"}
  \/ inquiry.step = "search" /\ inquiry.entity \notin {"broker", "carrier"}

\* Active companies, which all of census are, of the kind, whose number has the digits.
Matches(number, entity) ==
  {d \in Dots : /\ LET n == census[d].docket[2] IN n = number \/ <<number, n>> \in Within
                /\ IF entity = "broker" THEN census[d].broker ELSE census[d].carrier}

\* SearchBrokers, SearchCarriers: Limit of them, in an order of the service's.
Listings(number, entity) ==
  LET matches == IF upstream.copy THEN Matches(number, entity) ELSE {}
      most == IF Cardinality(matches) < Limit THEN Cardinality(matches) ELSE Limit
  IN {hits \in SUBSET matches : Cardinality(hits) = most}

\* SearchByMC: of the listed the first with the very number, whatever its prefix; a number
\* between blanks, which is looked for as it is, equals none.
Search ==
  /\ inquiry.step = "search" /\ ~Refusal
  /\ \E status \in IF upstream.up THEN Statuses ELSE {0, 503} : \E body \in Bodies(status) :
       LET cause == CauseOf("fmcsa", status, body)
       IN IF cause # "none" THEN End("failed to verify MC", cause, Unread)
          ELSE \E hits \in Listings(inquiry.number, inquiry.entity) :
                 LET same == {d \in hits : census[d].docket[2] = inquiry.number /\
                                             inquiry.spelling = "plain"}
                 IN \/ /\ same = {}
                       /\ End("failed to verify MC", "none", Unread)
                    \/ \E d \in same :
                         /\ inquiry' = [inquiry EXCEPT !.step = "look", !.dot = d]
                         /\ UNCHANGED <<census, upstream, finding, censusChanges>>

Refuse ==
  /\ inquiry # None /\ Refusal
  /\ End(IF inquiry.step = "search" THEN "failed to verify MC" ELSE "failed check", "refused", Unread)

\* VerifyCompany: what its answer comes to.
Verdict(answer) ==
  IF VerificationUnavailable(answer) THEN "unavailable"
  ELSE IF ~IsValid(answer) THEN "no authority"
  ELSE IF CheckIs(answer.company, inquiry.entity) THEN "ok" ELSE "invalid entity"

\* GetCompany and VerifyCompany.  A DOT number nobody has is 404.
Look ==
  /\ inquiry.step = "look" /\ ~Refusal
  /\ \E status \in CASE ~upstream.up -> {0, 503}
                     [] upstream.up /\ inquiry.dot \notin Dots -> {404}
                     [] OTHER -> Statuses \ {404} :
       \E body \in Bodies(status) :
         LET cause == CauseOf("fmcsa", status, body)
         IN IF cause # "none" THEN End("failed check", cause, Unread)
            ELSE \E answer \in Answers(census[inquiry.dot], upstream.live) :
                   End(Verdict(answer), "none", answer)

\* SAFER's executeRequest and IsValid, and FMCSA's search by name, which says of whom it
\* finds no more than that: one call, one answer.
Consult(client, d) ==
  /\ inquiry = None /\ finding = None
  /\ \E status \in IF upstream.live THEN Statuses ELSE {0, 503} : \E body \in Bodies(status) :
       LET cause == CauseOf(client, status, body)
           Found(code, answer) ==
             finding' = [step |-> "done", by |-> client, number |-> d, spelling |-> "plain",
                         entity |-> "any", code |-> code, cause |-> cause, answer |-> answer,
                         dot |-> d, disturbed |-> FALSE]
       IN \/ /\ cause # "none"
             /\ Found("failed check", Unread)
          \/ /\ cause = "none" /\ client = "safer"
             /\ \E answer \in Answers(census[d], TRUE) :
                  Found(IF SaferIsValid(answer) THEN "ok" ELSE "no authority", answer)
          \/ /\ cause = "none" /\ client = "name"
             /\ Found("found", Unread)
  /\ UNCHANGED <<census, upstream, inquiry, censusChanges>>

\* FMCSA registers a change, or the service, its copy or its source come and go.
Change ==
  /\ censusChanges < MaxCensus /\ finding = None
  /\ censusChanges' = censusChanges + 1
  /\ \/ /\ \E d \in Dots : \E c \in {[census[d] EXCEPT !.broker = FALSE, !.carrier = TRUE],
                                     [census[d] EXCEPT !.status = "NOT AUTHORIZED"],
                                     [census[d] EXCEPT !.status = "Not Authorized"],
                                     [census[d] EXCEPT !.status = "out of service"],
                                     [census[d] EXCEPT !.status = "none"],
                                     [census[d] EXCEPT !.allowed = "no"],
                                     [census[d] EXCEPT !.allowed = "none"]} :
             census' = [census EXCEPT ![d] = c]
        /\ UNCHANGED upstream
     \/ /\ \E f \in DOMAIN upstream : upstream' = [upstream EXCEPT ![f] = ~upstream[f]]
        /\ UNCHANGED census
  /\ inquiry' = IF inquiry = None THEN None ELSE [inquiry EXCEPT !.disturbed = TRUE]
  /\ UNCHANGED finding

CarriersNext ==
  \/ \E e \in Entities, s \in {"plain", "padded", "prefixed", "without a token"} :
       \/ \E n \in Numbers : Begin("mc", n, s, e)
       \/ \E d \in Dots \cup {0} : s # "padded" /\ Begin("dot", d, s, e)
  \/ inquiry # None /\ (Search \/ Look \/ Refuse)
  \/ \E d \in Dots : Consult("safer", d) \/ Consult("name", d)
  \/ Change

CarriersSpec == CarriersInit /\ [][CarriersNext]_carrierVars

-----------------------------------------------------------------------------
(* Properties.                                                             *)

TypeOK ==
  /\ census \in [Dots -> Companies] /\ censusChanges \in 0..MaxCensus
  /\ upstream \in [up : BOOLEAN, copy : BOOLEAN, live : BOOLEAN]
  /\ inquiry.step \in {"none", "search", "look"} /\ finding.step \in {"none", "done"}

Done == finding.step = "done"

\* "A degraded upstream never falsely rejects a legitimate, active broker": turned away is
\* only whom FMCSA refuses, of whom it has no status or who may not operate, and told to
\* come again is only of whom nothing is known (VerifyCompany, VerificationUnavailable, IsValid).
NeverFalselyRejected ==
  Done =>
    /\ finding.code = "no authority" =>
         \/ finding.answer.company.status \in Refusals \cup {"none"}
         \/ finding.answer.company.allowed = "no"
    /\ finding.code = "unavailable" => finding.answer.status = "none"

\* Who passes has a status that is no refusal, FMCSA's own if it could be asked, and is of
\* the kind; by its MC number it has the very digits, under whichever prefix.  That is all
\* which is asked of a status: who is out of service passes, too (CheckCompanyByMC,
\* SearchByMC, IsValid, CheckIs).
PassesSound ==
  Done /\ finding.code = "ok" /\ finding.by \in {"mc", "dot"} =>
    /\ finding.answer.status \in {"authorized", "out of service"}
    /\ finding.answer.live # "no" =>
         finding.answer.company.status = finding.answer.status /\ finding.answer.company.allowed # "no"
    /\ CheckIs(finding.answer.company, finding.entity)
    /\ finding.by = "mc" => finding.answer.company.docket[2] = finding.number

\* An authorized company that is asked for as it should be, while nothing changes and
\* everything answers, passes or is an error with a cause; but by its MC number it may be cut off
\* from a search by others, or another prefix's company be checked in its stead, and both
\* read as not found or not authorized, without a cause (FetchFMCSAResults, SearchByMC).
LegitimatePasses ==
  Done /\ finding.by \in {"mc", "dot"} /\ finding.code # "ok" /\ finding.cause = "none"
    /\ ~finding.disturbed /\ upstream.live /\ upstream.copy =>
    \A d \in Dots :
      LET c == census[d]
          asked == IF finding.by = "dot" THEN finding.number = d
                   ELSE c.docket[2] = finding.number /\ finding.spelling = "plain"
      IN asked /\ c.status = "authorized" /\ c.allowed # "no" /\ CheckIs(c, finding.entity) =>
           /\ finding.by = "mc"
           /\ \/ Cardinality(Matches(finding.number, finding.entity)) > Limit
              \/ finding.dot \notin {0, d}

\* Whom SAFER's reading turns away FMCSA's would not let pass, but it lets pass who has no
\* status, is refused in other letters or may not operate, of whom FMCSA's says no (both IsValid).
SaferLenient ==
  Done /\ finding.by = "safer" /\ finding.answer # Unread =>
    /\ finding.code = "no authority" => ~IsValid(finding.answer)
    /\ finding.code = "ok" /\ ~IsValid(finding.answer) =>
         finding.answer.status \in {"none", "Not Authorized"} \/ finding.answer.allowed = "no"

CarriersSound ==
  TypeOK /\ NeverFalselyRejected /\ PassesSound /\ LegitimatePasses /\ SaferLenient
=============================================================================
