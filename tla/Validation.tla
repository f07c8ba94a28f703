----------------------------- MODULE Validation -----------------------------
(***************************************************************************)
(* Input validation (validate): the @validate directive looks at every     *)
(* input of an operation and records which rules it breaks; it does not    *)
(* fail.  One collector serves the whole operation.  A root field's inputs *)
(* come first, then its resolver runs, and only then does the middleware   *)
(* ask the collector.  The root fields of a query run side by side, those  *)
(* of a mutation one after the other.  What a root field fails with is     *)
(* presented to the client and reported to Sentry (client/tmsgraphql,      *)
(* response, observability), as invalid input where the collector has any. *)
(*                                                                         *)
(* A value is what the rules tell apart: its kind, its number if it reads  *)
(* as one (else -1), its length, and whether it has the form a rule asks.  *)
(* Text of blanks alone is a kind of its own.  A "list" is Go's            *)
(* []interface{}, a "slice" one of any other type; a "nilPointer" is one   *)
(* that the directive does not unwrap, and "other" all that the rules have *)
(* no case for: a bool, an enum, a uuid.UUID, a pointer to such.           *)
(***************************************************************************)
EXTENDS Integers, FiniteSets, SequencesExt

CONSTANTS
  RootFields,
  InputsOf,    \* RootFields -> the names of its inputs; names may coincide
  Before,      \* RootFields -> the root fields a mutation takes before it
  RulesOf,     \* the schema: name of an input -> its rules
  ArgOf,       \* and the argument of those that take one
  Given,       \* the values that are sent
  Failures     \* the errors resolvers return

VARIABLES
  serial,    \* the operation is a mutation
  place,     \* a root field: "waiting", "inputs", "check", "failed", "done"
  unread,    \* its inputs not yet looked at
  errors,    \* the collector: name -> rules
  broke,     \* history: the rules each root field's inputs broke
  malformed, \* history: root fields whose directive itself failed
  ran,       \* root fields whose resolver has run
  failure,   \* what the root field failed with, or NoError
  replied,   \* root field -> "none", "result", "invalid", "refused", "fault"
  heard      \* what Sentry was sent of it: "nothing", "warning", "error"

validationVars ==
  <<serial, place, unread, errors, broke, malformed, ran, failure, replied, heard>>

-----------------------------------------------------------------------------
(* The rules.  r is a rule, k its argument, v the value, o the other field *)
(* of the object it names, u what Redis says of the user.                  *)

Val(kind, num, size, good) == [kind |-> kind, num |-> num, size |-> size, good |-> good]
Nil == Val("nil", -1, 0, FALSE)
Absent == Val("absent", -1, 0, FALSE)
Values == {Nil} \cup [kind : {"num"}, num : {0, 1, 2, 91, 181}, size : {1}, good : BOOLEAN]
  \cup [kind : {"str"}, num : {-1}, size : 0..2, good : BOOLEAN]
  \cup [kind : {"str"}, num : {0, 1, 91}, size : {1}, good : BOOLEAN]
  \cup [kind : {"blank"}, num : {-1}, size : 1..2, good : BOOLEAN]
  \cup [kind : {"list", "slice"}, num : {-1}, size : 0..2, good : BOOLEAN]
  \cup [kind : {"other"}, num : {-1}, size : 1..2, good : BOOLEAN]
  \cup {Val("nilPointer", -1, 0, FALSE)}

Texts == {"str", "blank"}

\* What gqlgen hands over is a value, or a pointer to one, which may be nil.  A pointer
\* to a text, a number or a bool is unwrapped ("basic"); any other stays what it is.
Sent == [pointer : {"none", "basic", "other"}, value : Given]

derefPointer(sent) ==
  CASE sent.pointer # "other" -> sent.value
    [] sent.pointer = "other" /\ sent.value = Nil -> Val("nilPointer", -1, 0, FALSE)
    [] OTHER -> Val("other", -1, sent.value.size, sent.value.good)

\* isFieldPresent, isEmptyValue (strings.TrimSpace).
Present(o) == o.kind \notin {"absent", "nil"}
Empty(v) == v.kind \in {"nil", "blank"} \/ (v.kind \in {"str", "list"} /\ v.size = 0)

\* What may have been left out and is not Empty.
Unmeasured == {"slice", "nilPointer", "other"}

CrossField(r, v, o) ==
  CASE r = "requiredWith" -> Present(o) /\ Empty(v)
    [] r = "requiredWithout" -> ~Present(o) /\ Empty(v)
    [] r = "excludedWith" -> Present(o) /\ ~Empty(v)
    [] OTHER -> FALSE

\* compareValues: as numbers where both are, as text otherwise, in which blanks come
\* before digits, these before "<nil>", that before "[", and that before letters.
Rank(v) == IF v.num >= 0 THEN v.num
           ELSE CASE v.kind = "blank" -> v.size - 3 [] v.kind \in {"nil", "nilPointer"} -> 200
                  [] v.kind \in {"list", "slice"} -> 201 [] OTHER -> 202 + v.size

Comparison(r, v, o) == o.kind # "absent" /\
  CASE r = "eqField" -> Rank(v) # Rank(o)
    [] r = "neField" -> Rank(v) = Rank(o)
    [] r = "gtField" -> Rank(v) <= Rank(o)
    [] r = "ltField" -> Rank(v) >= Rank(o)
    [] OTHER -> FALSE

\* email, url, uuid, ip, mac, ... jwt.
Format(r, v) == r = "format" /\ v.kind \in Texts /\ ~v.good

\* alphanumeric, contains, ...; pattern.
Content(r, v) == r \in {"contains", "pattern"} /\ v.kind \in Texts /\ ~v.good

\* What some of these say of a text, as the classes of its letters.
Cased(r, text) ==
  CASE r = "lowercase" -> "upper" \notin Range(text)
    [] r = "uppercase" -> "lower" \notin Range(text)

Spelled(r, text) ==
  text # <<>> /\ Range(text) \subseteq
    CASE r = "alphanumeric" -> {"lower", "upper", "digit"}
      [] r = "numeric" -> {"digit"}
      [] r = "alpha" -> {"lower", "upper"}

notEmpty(text) == Range(text) \ {"space"} # {}

\* creditCard: every second digit from the right is doubled and its digits are added;
\* 13 to 19 digits, the sum a multiple of ten.
luhnCheck(digits) ==
  LET doubled(d) == IF 2 * d > 9 THEN 2 * d - 9 ELSE 2 * d
      weight(i) == IF (Len(digits) - i) % 2 = 1 THEN doubled(digits[i]) ELSE digits[i]
  IN /\ Len(digits) \in 13..19
     /\ FoldLeft(LAMBDA sum, i : sum + weight(i), 0, [i \in DOMAIN digits |-> i]) % 10 = 0

\* latitude and longitude refuse what is no number.
Coordinate(r, v) ==
  \/ r = "latitude" /\ v.num \notin 0..90
  \/ r = "longitude" /\ v.num \notin 0..180

\* min and max look at numbers only, the others also at text that reads as one.
Numeric(r, k, v) ==
  CASE r = "min" -> v.kind = "num" /\ v.num < k
    [] r = "max" -> v.kind = "num" /\ v.num > k
    [] r = "eq" -> v.num >= 0 /\ v.num # k
    [] r = "ne" -> v.num >= 0 /\ v.num = k
    [] r = "gt" -> v.num >= 0 /\ v.num <= k
    [] r = "lt" -> v.num >= 0 /\ v.num >= k
    [] OTHER -> FALSE

\* (broken) An item too many passes.
LengthOneMore(r, k, v) ==
  /\ v.kind \in (IF r \in {"minItems", "maxItems"} THEN {"list"} ELSE Texts \cup {"list"})
  /\ CASE r \in {"minLen", "minItems"} -> v.size < k
       [] r \in {"maxLen", "maxItems"} -> v.size > k + 1
       [] r = "len" -> v.size # k
       [] r = "notEmpty" -> Empty(v)
       [] OTHER -> FALSE

Length(r, k, v) ==
  /\ v.kind \in (IF r \in {"minItems", "maxItems"} THEN {"list"} ELSE Texts \cup {"list"})
  /\ CASE r \in {"minLen", "minItems"} -> v.size < k
       [] r \in {"maxLen", "maxItems"} -> v.size > k
       [] r = "len" -> v.size # k
       [] r = "notEmpty" -> Empty(v)
       [] OTHER -> FALSE

Enum(r, v) == r = "enum" /\ ~v.good

\* Redis out of reach is a user not found; the role is asked of a user that was found.
User(r, v, u) == v.kind \in Texts /\ v.size > 0 /\
  \/ r = "userExist" /\ u \in {"unknown", "unreachable"}
  \/ r = "userHasRole" /\ u = "without the role"

\* Directive: a value that is nil is asked the cross-field rules alone.
Breaks(r, k, v, o, u) ==
  \/ CrossField(r, v, o)
  \/ v.kind # "nil" /\ (\/ Comparison(r, v, o) \/ Format(r, v) \/ Content(r, v) \/ Coordinate(r, v)
                        \/ Numeric(r, k, v) \/ Length(r, k, v) \/ Enum(r, v) \/ User(r, v, u))

\* Directive: the name an input's errors are kept under.  A step of gqlgen's path is a
\* field or, in a list, an index; steps without a field are passed over, so that the
\* index, which would be part of the name, never is.
NameOf(path) ==
  LET segments == SelectSeq(path, LAMBDA s : s.field # "")
      n == Len(segments)
      isArray == \E i \in 1..n : segments[i].index >= 0
  IN IF isArray /\ n >= 2 THEN SubSeq(segments, n - 1, n) ELSE SubSeq(segments, n, n)

Paths ==
  LET steps == [field : {"a", "b"}, index : {-1}] \cup [field : {""}, index : {0, 1}]
  IN {<<s, t, u>> : s \in [field : {"a", "b"}, index : {-1}], t \in steps, u \in [field : {"a", "b"}, index : {-1}]}

Rules == {"requiredWith", "requiredWithout", "excludedWith", "eqField", "neField", "gtField",
  "ltField", "format", "contains", "pattern", "latitude", "longitude", "min", "max", "eq",
  "ne", "gt", "lt", "minLen", "maxLen", "len", "minItems", "maxItems", "notEmpty", "enum",
  "userExist", "userHasRole"}

-----------------------------------------------------------------------------
(* Errors, as what errors.As finds in them.                                *)

Err(kind, status, name) == [kind |-> kind, status |-> status, name |-> name]
NoError == Err("none", 0, "")

\* response.NewBadRequest, NewUnauthorized, NewForbidden, NewNotFound, NewConflict,
\* NewInternalError, NewCodedError; a constraint PostgreSQL refused, or its other
\* errors; a downstream service's gRPC status; any other error.
Public(status, code) == Err("public", status, code)

\* The statuses response's constructors give.
Constructors == {400, 401, 403, 404, 409, 500}
Pg(state) == Err("pg", 0, state)
Grpc(code) == Err("grpc", 0, code)
Plain == Err("plain", 0, "")

GrpcStatus ==
  [InvalidArgument |-> 400, FailedPrecondition |-> 422, Unavailable |-> 503, NotFound |-> 404,
   AlreadyExists |-> 409, PermissionDenied |-> 403, Unauthenticated |-> 401,
   ResourceExhausted |-> 429]

PgStatus ==
  [foreignKey |-> 400, unique |-> 409, exclusion |-> 409, check |-> 400, notNull |-> 400]

Errors ==
  [kind : {"public"}, status : Constructors \cup {503}, name : {"", "COMMENT_LOCKED"}]
  \cup [kind : {"pg"}, status : {0},
        name : DOMAIN PgStatus \cup {"transient", "tooManyConnections", "syntax"}]
  \cup [kind : {"grpc"}, status : {0},
        name : DOMAIN GrpcStatus \cup {"Unknown", "Internal", "Canceled"}]
  \cup {Plain}

\* What a constraint that was violated becomes, if nobody translated it.
AsPublicError(e) ==
  IF e.kind = "pg" /\ e.name \in DOMAIN PgStatus THEN Public(PgStatus[e.name], "") ELSE e

\* PublicError, or one made by AsPublicError: its status, else 0.
PublicStatus(e) == AsPublicError(e).status

\* grpcPublicError.
GrpcPublic(e) == e.kind = "grpc" /\ e.name \in DOMAIN GrpcStatus

\* CaptureWithCtx: a dropped connection heals itself.
Captured(e) == IF e = Pg("transient") THEN "nothing" ELSE "error"

\* CaptureWarningWithCtx: whatever it is.
Warned(e) == "warning"

\* Which of the two a status is for (captureFunc, captureWarningFunc).
Level(e, status) == IF status >= 500 THEN Captured(e) ELSE Warned(e)

\* NewErrorPresenter: status, level of the report, whose text the message is, the code.
Presented(e, isDebug) ==
  IF PublicStatus(e) # 0
  THEN [status |-> PublicStatus(e), message |-> "public", code |-> e.kind = "public" /\ e.name # "",
        level |-> Level(e, PublicStatus(e))]
  ELSE IF GrpcPublic(e)
  THEN [status |-> GrpcStatus[e.name], message |-> "public", code |-> TRUE, level |-> Warned(e)]
  ELSE [status |-> 500, message |-> IF isDebug THEN "technical" ELSE "masked",
        code |-> ~isDebug, level |-> Captured(e)]

\* isUnauthorized: the reports that Sentry keeps as one issue.
Grouped(e) == (e.kind = "public" /\ e.status = 401) \/ e = Grpc("Unauthenticated")

\* A handler of REST fails with a status of its own: what Sentry is sent, and all told.
RestStatus(e, status) == IF e.kind = "public" THEN e.status ELSE status

CaptureRestError(e, status) ==
  IF RestStatus(e, status) >= 500 THEN Captured(e) ELSE "nothing"

Rest(e, status) ==
  LET s == RestStatus(e, status)
  IN [status |-> s,
      message |-> IF s = 500 THEN "masked" ELSE IF e.kind = "public" THEN "public" ELSE "technical",
      level |-> CaptureRestError(e, status)]

\* What a service is told of the error of another: gRPC carries a status only.
Across(e) == IF e.kind = "grpc" THEN e ELSE Grpc("Unknown")

\* What a directive says of an actor [known, guest, root, roles, perms]; roles and perms
\* are "granted", "missing" or, for the perms, "unresolved".
AuthDirective(a, isType) ==
  IF ~a.known \/ a.guest THEN Public(401, "") ELSE IF isType THEN NoError ELSE Plain

HasRoleDirective(a) ==
  IF ~a.known THEN Public(401, "") ELSE IF a.roles = "granted" THEN NoError ELSE Plain

HasPermDirective(a) ==
  CASE ~a.known -> Public(401, "")
    [] a.known /\ (a.guest \/ a.root) -> NoError
    [] a.known /\ ~(a.guest \/ a.root) /\ a.perms = "unresolved" -> Public(503, "PERMS_UNRESOLVED")
    [] a.known /\ ~(a.guest \/ a.root) /\ a.perms = "missing" -> Public(403, "")
    [] OTHER -> NoError

Actors == [known : BOOLEAN, guest : BOOLEAN, root : BOOLEAN, roles : {"granted", "missing"},
           perms : {"granted", "missing", "unresolved"}]

ValidationAssumption ==
  /\ InputsOf \in [RootFields -> SUBSET DOMAIN RulesOf]
  /\ \A f \in RootFields : \A n \in InputsOf[f] :
       /\ RulesOf[n] \subseteq Rules /\ ArgOf[n] \in Nat
       /\ "userHasRole" \in RulesOf[n] => "userExist" \in RulesOf[n]  \* alone it is not asked
  /\ Given \subseteq Values
  /\ Failures \subseteq Errors
  /\ \A f \in RootFields : Before[f] \subseteq RootFields \ {f}
  /\ \A f, g \in RootFields : f \in Before[g] \/ g \in Before[f] \/ f = g

-----------------------------------------------------------------------------
(* An operation.                                                           *)

\* OperationMiddleware: a new collector.
OperationMiddleware == [n \in UNION {InputsOf[f] : f \in RootFields} |-> {}]

ValidationInit ==
  /\ serial \in BOOLEAN
  /\ place = [f \in RootFields |-> "waiting"]
  /\ unread = InputsOf
  /\ errors = OperationMiddleware
  /\ broke = [f \in RootFields |-> {}]
  /\ malformed = {} /\ ran = {}
  /\ failure = [f \in RootFields |-> NoError]
  /\ replied = [f \in RootFields |-> "none"]
  /\ heard = [f \in RootFields |-> "nothing"]

HasErrors == \E n \in DOMAIN errors : errors[n] # {}

Begin(f) ==
  /\ place[f] = "waiting"
  /\ serial => \A g \in Before[f] : place[g] = "done"
  /\ place' = [place EXCEPT ![f] = "inputs"]
  /\ UNCHANGED <<serial, unread, errors, broke, malformed, ran, failure, replied, heard>>

\* One name's rules are merged, under the lock; without a broken rule nothing is added.
Add(n, found) == [errors EXCEPT ![n] = @ \cup found]
Store(n, found) == IF found # {} THEN Add(n, found) ELSE errors

\* Directive, WithValidationError.
Validate(f, n, sent, o, u) ==
  LET found == {r \in RulesOf[n] : Breaks(r, ArgOf[n], derefPointer(sent), o, u)}
  IN /\ place[f] = "inputs" /\ n \in unread[f]
     /\ unread' = [unread EXCEPT ![f] = @ \ {n}]
     /\ errors' = Store(n, found)
     /\ broke' = [broke EXCEPT ![f] = @ \cup ({n} \X found)]
     /\ UNCHANGED <<serial, place, malformed, ran, failure, replied, heard>>

\* compileRegex: a pattern may not compile, and is not cached then, so that it fails anew.
compileRegex(n) == IF "pattern" \in RulesOf[n] THEN {"compiled", "invalid"} ELSE {"none"}

\* The directive fails, and with it the root field.
Malformed(f) ==
  /\ place[f] = "inputs" /\ \E n \in unread[f] : "invalid" \in compileRegex(n)
  /\ place' = [place EXCEPT ![f] = "failed"]
  /\ malformed' = malformed \cup {f}
  /\ failure' = [failure EXCEPT ![f] = Plain]
  /\ UNCHANGED <<serial, unread, errors, broke, ran, replied, heard>>

\* Middleware calls next ...
Resolve(f, e) ==
  /\ place[f] = "inputs" /\ unread[f] = {}
  /\ place' = [place EXCEPT ![f] = "check"]
  /\ ran' = ran \cup {f}
  /\ failure' = [failure EXCEPT ![f] = e]
  /\ UNCHANGED <<serial, unread, errors, broke, malformed, replied, heard>>

\* ... and asks afterwards: what is in the collector takes the place of the resolver's
\* own error.
Check(f) ==
  /\ place[f] = "check"
  /\ IF HasErrors \/ failure[f] # NoError
     THEN place' = [place EXCEPT ![f] = "failed"] /\ UNCHANGED replied
     ELSE place' = [place EXCEPT ![f] = "done"] /\ replied' = [replied EXCEPT ![f] = "result"]
  /\ UNCHANGED <<serial, unread, errors, broke, malformed, ran, failure, heard>>

\* NewErrorPresenter asks the collector again, which may have errors by now; only an error
\* it looks at is reported.
PresentError(f) ==
  /\ place[f] = "failed"
  /\ place' = [place EXCEPT ![f] = "done"]
  /\ IF HasErrors
     THEN replied' = [replied EXCEPT ![f] = "invalid"] /\ UNCHANGED heard
     ELSE LET p == Presented(failure[f], FALSE)
          IN /\ replied' = [replied EXCEPT ![f] = IF p.status >= 500 THEN "fault" ELSE "refused"]
             /\ heard' = [heard EXCEPT ![f] = p.level]
  /\ UNCHANGED <<serial, unread, errors, broke, malformed, ran, failure>>

ValidationNext == \E f \in RootFields :
  \/ Begin(f)
  \/ \E n \in unread[f], sent \in Sent, o \in Given \cup {Absent},
        u \in {"unknown", "unreachable", "without the role", "with the role"} :
       Validate(f, n, sent, o, u)
  \/ Malformed(f)
  \/ \E e \in Failures \cup {NoError} : Resolve(f, e)
  \/ Check(f)
  \/ PresentError(f)

ValidationSpec == ValidationInit /\ [][ValidationNext]_validationVars

-----------------------------------------------------------------------------
(* Properties.                                                             *)

\* Every rule an input broke is in the collector under the input's name, whoever else
\* writes there, and a root field whose input broke one is never answered with a
\* result (WithValidationError, Add, Middleware).
NothingSlips == \A f \in RootFields :
  /\ \A b \in broke[f] : b[2] \in errors[b[1]]
  /\ replied[f] = "result" => broke[f] = {} /\ f \notin malformed

\* Who is told that the input is invalid has company: some root field of the operation
\* broke a rule, and in a mutation it is itself or one that came before.
RefusalsOwed == \A f \in RootFields : replied[f] = "invalid" =>
  \E g \in RootFields : broke[g] # {} /\ (serial => g = f \/ g \in Before[f])

\* The rules agree with each other, for every value and every other field: len is
\* minLen and maxLen, minItems and maxItems are those on lists, min and max are the
\* opposites of lt and gt where a number is given, no value but an equal one escapes
\* both gtField and ltField nor breaks both, and a value that reads as empty breaks one
\* of requiredWith and requiredWithout.  What the directive does not unwrap or measure,
\* an empty []string or a nil *uuid.UUID among it, breaks none of the rules on presence,
\* length and size, and excludedWith as if it were given (Directive, isEmptyValue).
RulesAgree == \A v \in Values, o \in Values \cup {Absent}, k \in 0..2 :
  LET breaks(r) == Breaks(r, k, v, o, "unknown")
  IN /\ breaks("len") <=> breaks("minLen") \/ breaks("maxLen")
     /\ v.kind = "list" => (breaks("minItems") <=> breaks("minLen"))
                        /\ (breaks("maxItems") <=> breaks("maxLen"))
     /\ v.kind = "num" => (breaks("min") <=> ~breaks("lt")) /\ (breaks("max") <=> ~breaks("gt"))
     /\ v.kind # "nil" /\ o.kind # "absent" =>
          /\ breaks("eqField") <=> ~breaks("neField")
          /\ breaks("gtField") \/ breaks("ltField")
          /\ (breaks("gtField") /\ breaks("ltField")) <=> ~breaks("eqField")
     /\ Empty(v) => (breaks("requiredWith") <=> ~breaks("requiredWithout"))
     /\ Empty(v) /\ v.kind # "nil" => breaks("notEmpty")
     /\ v.kind \in Unmeasured =>
          /\ \A r \in {"requiredWith", "requiredWithout", "notEmpty", "minLen", "maxLen", "len",
                     "minItems", "maxItems"} : ~breaks(r)
          /\ breaks("excludedWith") <=> Present(o)

\* What the rules on letters say fits together: text is alphanumeric if it is alpha or
\* numeric, which exclude each other, and is then not empty; of a text without letters
\* the case is both.  luhnCheck notices every wrong digit and every swapped pair of
\* neighbours but 09 and 90.  And since no name has an index, inputs go by the last
\* field of their path, in whichever object and element of a list they are, and their
\* errors are merged (Directive, NameOf).
TextsAgree ==
  /\ \A t \in SeqOf({"lower", "upper", "digit", "space"}, 2) :
       /\ Spelled("alpha", t) \/ Spelled("numeric", t) => Spelled("alphanumeric", t)
       /\ ~(Spelled("alpha", t) /\ Spelled("numeric", t))
       /\ Spelled("alphanumeric", t) => notEmpty(t)
       /\ Cased("lowercase", t) /\ Cased("uppercase", t) <=> Range(t) \subseteq {"digit", "space"}
  /\ \A a, b, c \in 0..9 :
       LET card(x, y, z) == [i \in 1..13 |-> 0] \o <<x, y, z>>
       IN luhnCheck(card(a, b, c)) =>
            /\ \A d \in 0..9 : (d # b => ~luhnCheck(card(a, d, c))) /\ (d # c => ~luhnCheck(card(a, b, d)))
            /\ luhnCheck(card(a, c, b)) => b = c \/ {b, c} = {0, 9}
  /\ \A p, q \in Paths : NameOf(p) = NameOf(q) <=> p[3] = q[3]

\* A server's fault is heard of once, as an error, and nothing else is
\* (NewErrorPresenter), but for two cases: a connection PostgreSQL dropped, and a fault
\* whose root field is told of invalid input instead, by an operation that has sent some.
FaultsHeard == \A f \in RootFields :
  /\ heard[f] = "error" => replied[f] = "fault" /\ place[f] = "done"
  /\ replied[f] \in {"refused", "fault"} => failure[f] # NoError
  /\ replied[f] = "fault" => heard[f] = Captured(failure[f]) \/ failure[f] = Grpc("Unavailable")
  /\ replied[f] = "refused" => heard[f] = "warning"
  /\ replied[f] \in {"result", "invalid"} => heard[f] = "nothing"
  /\ (/\ place[f] = "done" /\ failure[f] # NoError /\ heard[f] # "error"
      /\ Presented(failure[f], FALSE).level = "error") =>
       replied[f] = "invalid" /\ \E g \in RootFields : broke[g] # {}

\* "5xx errors are captured to Sentry as errors" (client/tmsgraphql/errors.go:73).
FaultsCaptured == \A f \in RootFields :
  place[f] = "done" /\ failure[f] # NoError /\ Presented(failure[f], FALSE).status >= 500 =>
    heard[f] = "error"

\* The ways of an error agree (NewErrorPresenter, Error, CaptureRestError, isUnauthorized).
\* It pages if and only if its status says that the server is at fault, but for dropped
\* connections and a service out of reach.  Only texts that were written for a client
\* are shown to one.  REST pages for what GraphQL pages for, given the same status, and
\* for a service out of reach.  Only what is a 401 is kept with the 401s.  Behind one
\* more service a refusal is a refusal only if it was a gRPC status, and two more are
\* as one; what paged there pages here again, and so do refusals that lost their
\* status.
ErrorsAgree == \A e \in Errors :
  LET p == Presented(e, FALSE)
      far == Presented(Across(e), FALSE)
      rest == Rest(e, p.status)
  IN /\ p.level = "error" <=> p.status >= 500 /\ e \notin {Pg("transient"), Grpc("Unavailable")}
     /\ p.message = "masked" => p.status = 500 /\ p.code
     /\ p.message = "public" => Presented(e, TRUE) = p
     /\ rest.status = p.status
     /\ rest.level = "error" <=> p.level = "error" \/ e = Grpc("Unavailable")
     /\ Grouped(e) <=> p.status = 401
     /\ Grouped(Across(e)) => Grouped(e)
     /\ far = p <=> e.kind = "grpc" \/ (p.message = "masked" /\ p.level = "error")
     /\ p.level = "error" => far.level = "error"
     /\ Across(Across(e)) = Across(e)

\* Who is refused for want of a permission is told so only when the permissions are
\* known, and may come back when they are not; nobody passes AuthDirective whom
\* HasPermDirective takes for nobody; a guest passes permissions, not authentication.
\* Who lacks the role or is of another type hears of a server's fault, and pages.
DirectivesAgree == \A a \in Actors :
  LET perm == HasPermDirective(a)
  IN /\ Presented(perm, FALSE).status = 403 => a.perms = "missing" /\ ~a.root
     /\ a.perms = "unresolved" =>
          perm \in {NoError, Public(401, ""), Public(503, "PERMS_UNRESOLVED")}
     /\ \A t \in BOOLEAN : AuthDirective(a, t) = NoError => perm # Public(401, "")
     /\ a.guest => AuthDirective(a, TRUE) # NoError
     /\ ~a.known <=> perm = Public(401, "")
     /\ \A e \in {HasRoleDirective(a), AuthDirective(a, FALSE)} \ {NoError, Public(401, "")} :
          Presented(e, FALSE).message = "masked" /\ Presented(e, FALSE).level = "error"

\* The collector's promises and Sentry's, in every state, and those of the rules, errors
\* and directives, which know no state and are looked at in the first (Directive,
\* Middleware, NewErrorPresenter).
ValidationSound ==
  /\ NothingSlips /\ RefusalsOwed /\ FaultsHeard
  /\ ValidationInit => RulesAgree /\ ErrorsAgree /\ DirectivesAgree

\* What the rules say of texts, looked at in the first state as well.
TextsSound == ValidationInit => TextsAgree
=============================================================================
