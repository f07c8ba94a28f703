------------------------------ MODULE FuelCards ------------------------------
(***************************************************************************)
(* Fuel cards of Relay (client/relaypayments) and the per-company key they *)
(* are used with (client/provider).  Every use of a client begins with a   *)
(* read of the company's key in Redis; the company replaces the key, and   *)
(* one that Relay refuses is removed.  Drivers, one-time codes and         *)
(* assignments of policies are created, changed and deleted; fueling is    *)
(* learnt of by webhooks, signed with the key, and by a poll over windows  *)
(* of time.                                                                *)
(*                                                                         *)
(* External: Relay; tms-auth, which removes the key of an integration when *)
(* a request's AuthError is reported to it (provider.go:17); the poll, which  *)
(* asks for the time since the last window it was given; and the service,  *)
(* which tries to create a thing until it is told that it has.             *)
(***************************************************************************)
EXTENDS Integers, FiniteSets, Sequences

CONSTANTS
  MaxKeys,      \* bound: keys the company makes at Relay
  MaxEntered,   \* bound: times a key is entered
  MaxAttempts,  \* bound: calls that create or change the thing
  MaxNow        \* bound: time, in half seconds

FuelAssumption ==
  MaxKeys \in Nat \ {0} /\ MaxEntered \in Nat /\ MaxAttempts \in Nat /\ MaxNow \in Nat

NoKey == 0
Times == 0..MaxNow

VARIABLES
  using,     \* the calls under study: "create" a thing, "list" fueling, or what changes
             \* the "driver", "code" or "policy" assignment that Relay has
  setting,   \* Redis: the company's key, NoKey where there is none or it is empty
  latest,    \* Relay: the key it takes; earlier ones are revoked
  covered,   \* Relay: the keys may be used for these calls
  now,       \* the time
  fuelings,  \* Relay: when there was fueling
  hooks,     \* Relay: webhooks, which may be posted late, never, or again
  done,      \* Relay: the attempts that it did
  thing,     \* Relay: the thing's state, the attempt it is as, and of an assignment
             \* whether it is enabled and what was used of it
  fueled,    \* history: how often the driver was let fuel by its policy
  late,      \* attempts nobody waits for any more
  request,   \* the request under way
  asks,      \* what each attempt asked
  ended,     \* what each attempt returned
  reports,   \* AuthErrors reported to tms-auth, by when the call began
  entered,   \* how often a key was entered
  watermark, \* the end of the last window the poll was given
  known,     \* fueling the service has
  listed,    \* history: fueling the poll was given
  repeated   \* history: fueling it was given again

relay == <<latest, covered, now, fuelings, hooks>>
things == <<done, thing, fueled>>
outcomes == <<asks, ended>>
poll == <<watermark, known, listed, repeated>>
fuelVars ==
  <<using, setting, relay, things, late, request, outcomes, reports, entered, poll>>

-----------------------------------------------------------------------------
(* The calls: by method, and what an assignment is switched to.  Those     *)
(* that only read are left out, but for the poll's.                        *)

Get == [method |-> "GET", enabled |-> TRUE]
Post == [method |-> "POST", enabled |-> TRUE]
Put(enabled) == [method |-> "PUT", enabled |-> enabled]
Delete == [method |-> "DELETE", enabled |-> TRUE]

CreateDriver == Post
UpdateDriver == Put(TRUE)
DeleteDriver == Delete
CreateOneTimeCode == Post
UpdateOneTimeCode == Put(TRUE)
DeleteOneTimeCode == Delete
AssignPolicy == Post
UpdatePolicyAssignment(enabled) == Put(enabled)
DeletePolicyAssignment == Delete

Calls ==
  [create |-> [driver |-> CreateDriver, code |-> CreateOneTimeCode],
   list |-> [fueling |-> Get],
   driver |-> [update |-> UpdateDriver, delete |-> DeleteDriver],
   code |-> [update |-> UpdateOneTimeCode, delete |-> DeleteOneTimeCode],
   policy |-> [assign |-> AssignPolicy, delete |-> DeletePolicyAssignment,
               enable |-> UpdatePolicyAssignment(TRUE), disable |-> UpdatePolicyAssignment(FALSE)]]

Idle ==
  [stage |-> "idle", call |-> "none", key |-> NoKey, began |-> 0, from |-> 0, to |-> 0, page |-> {}]

FuelInit ==
  /\ using \in DOMAIN Calls /\ setting = 1 /\ latest = 1 /\ covered \in BOOLEAN
  /\ now = 0 /\ fuelings = {} /\ hooks = {} /\ done = {} /\ late = {}
  /\ thing = [state |-> "created", by |-> 0, enabled |-> TRUE, used |-> 0] /\ fueled = 0
  /\ request = Idle /\ asks = <<>> /\ ended = <<>> /\ reports = {} /\ entered = 0
  /\ watermark = 0 /\ known = {} /\ listed = {} /\ repeated = {}

-----------------------------------------------------------------------------
(* client/provider.                                                        *)

\* fetchAPIKey: the key in Redis now; no client is kept.  Without a key the call is an
\* error, and nothing is asked.
APIKey == setting

\* fetchCredential: a JSON value, quoted so many times, becomes a credential when it is
\* an object, or null, quoted once or not at all.
Credential(json, quotes) ==
  IF quotes > 1 THEN "error"
  ELSE CASE json = "object" -> "credential"
         [] json = "null" -> "zero credential"
         [] OTHER -> "error"

-----------------------------------------------------------------------------
(* Calls.                                                                  *)

\* RFC3339: what is less than a second is cut off.
Second(t) == t - (t % 2)

Attempt == Len(ended) + 1

\* GetByCompanyID and NewClient, then doRequestTo: the request leaves with the key that
\* was read.
Ask ==
  /\ request.stage = "idle" /\ APIKey # NoKey
  /\ using # "list" => Attempt <= MaxAttempts
  /\ using = "create" => \A i \in DOMAIN ended : ended[i] # "nil"
  /\ \E call \in DOMAIN Calls[using] :
       request' = [stage |-> "asked", call |-> call, key |-> APIKey, began |-> entered,
                   from |-> Second(watermark), to |-> now, page |-> {}]
  /\ UNCHANGED <<using, setting, relay, things, late, outcomes, reports, entered, poll>>

\* Relay: 401 for a key that is revoked, 403 for one that does not cover the request.
Refused(key) == key # latest \/ ~covered

\* Relay: the window is inclusive on both sides.
Page == {t \in fuelings : request.from <= t /\ t <= Second(request.to)}

\* Relay: what is locked or gone is not changed.
Takes(call) == Calls[using][call].method \in {"GET", "POST"} \/ thing.state = "created"

\* Relay does what attempt n asks.  An assignment begins with nothing used.
Do(call, n) == LET did == Calls[using][call] IN
  /\ done' = done \cup IF did.method = "GET" THEN {} ELSE {n}
  /\ thing' = CASE did.method = "GET" -> thing
               [] did.method = "POST" -> [state |-> "created", by |-> n, enabled |-> TRUE, used |-> 0]
               [] did.method = "PUT" -> [thing EXCEPT !.by = n, !.enabled = did.enabled]
               [] did.method = "DELETE" -> [thing EXCEPT !.by = n, !.state = "gone"]

Handle ==
  /\ request.stage = "asked"
  /\ \/ /\ Refused(request.key)
        /\ request' = [request EXCEPT !.stage = "refused"] /\ UNCHANGED <<done, thing>>
     \/ /\ ~Refused(request.key) /\ Takes(request.call)
        /\ request' = [request EXCEPT !.stage = "answered", !.page = Page]
        /\ Do(request.call, Attempt)
     \/ /\ ~Refused(request.key) /\ ~Takes(request.call)
        /\ request' = [request EXCEPT !.stage = "rejected"] /\ UNCHANGED <<done, thing>>
  /\ UNCHANGED <<using, setting, relay, fueled, late, outcomes, reports, entered, poll>>

\* What the caller does with what it is given: an AuthError is reported, a window that
\* was read is kept, an error leaves it where it was.
Return(outcome) ==
  LET page == IF outcome = "nil" THEN request.page ELSE {}
  IN /\ request' = Idle
     /\ ended' = IF using = "list" THEN ended ELSE Append(ended, outcome)
     /\ asks' = IF using = "list" THEN asks ELSE Append(asks, request.call)
     /\ reports' = reports \cup IF outcome = "AuthError" THEN {request.began} ELSE {}
     /\ watermark' = IF using = "list" /\ outcome = "nil" THEN request.to ELSE watermark
     /\ known' = known \cup page
     /\ listed' = listed \cup page
     /\ repeated' = repeated \cup (listed \cap page)
     /\ UNCHANGED <<using, setting, relay, things, entered>>

\* doRequestTo, decodeJSON: 401 and 403 are an AuthError, other statuses but 2xx an error.
Receive ==
  /\ \/ request.stage = "answered" /\ Return("nil")
     \/ request.stage = "refused" /\ Return("AuthError")
     \/ request.stage = "rejected" /\ Return("error")
  /\ UNCHANGED late

\* An answer of another status, or one that does not decode, a connection that breaks,
\* 30 s (NewClient): Relay may have done what it was asked, or may do it yet.
Fail ==
  /\ request.stage # "idle"
  /\ Return("error")
  /\ late' = late \cup IF using # "list" /\ request.stage = "asked"
                       THEN {[key |-> request.key, call |-> request.call, attempt |-> Attempt]}
                       ELSE {}

HandleLate ==
  /\ \E r \in late :
       /\ late' = late \ {r}
       /\ IF Refused(r.key) \/ ~Takes(r.call) THEN UNCHANGED <<done, thing>> ELSE Do(r.call, r.attempt)
  /\ UNCHANGED <<using, setting, relay, fueled, request, outcomes, reports, entered, poll>>

-----------------------------------------------------------------------------
(* Webhooks.                                                               *)

\* VerifyWebhookSignature: whether the body is the one signed, with the company's key.
Verified(body, signature) == APIKey # NoKey /\ signature = [key |-> APIKey, body |-> body]

\* A webhook comes, perhaps damaged on its way.
Receipt ==
  /\ \E signature \in hooks, body \in Times :
       Verified(body, signature) /\ known' = known \cup {body}
  /\ UNCHANGED <<using, setting, relay, things, late, request, outcomes, reports, entered,
       watermark, listed, repeated>>

-----------------------------------------------------------------------------
(* Relay, tms-auth and the company.                                        *)

client == <<using, late, request, outcomes, poll>>

\* The driver fuels on its policy, which allows it once.
Allowance == 1
Pump ==
  /\ using = "policy" /\ thing.state = "created" /\ thing.enabled /\ thing.used < Allowance
  /\ thing' = [thing EXCEPT !.used = @ + 1] /\ fueled' = fueled + 1
  /\ UNCHANGED <<client, setting, relay, done, reports, entered>>

\* The driver uses its code.
Redeem ==
  /\ using = "code" /\ thing.state = "created"
  /\ thing' = [thing EXCEPT !.state = "locked"]
  /\ UNCHANGED <<client, setting, relay, done, fueled, reports, entered>>

Fuel ==
  /\ using = "list" /\ now \notin fuelings
  /\ fuelings' = fuelings \cup {now}
  /\ hooks' = hooks \cup {[key |-> latest, body |-> now]}
  /\ UNCHANGED <<client, things, setting, latest, covered, now, reports, entered>>

Tick ==
  /\ using = "list" /\ now < MaxNow /\ now' = now + 1
  /\ UNCHANGED <<client, things, setting, latest, covered, fuelings, hooks, reports, entered>>

\* The company makes a new key, which revokes the old one, and later enters it.
Rotate ==
  /\ latest < MaxKeys /\ latest' = latest + 1
  /\ UNCHANGED <<client, things, setting, covered, now, fuelings, hooks, reports, entered>>

Enter ==
  /\ setting # latest /\ entered < MaxEntered
  /\ setting' = latest /\ entered' = entered + 1
  /\ UNCHANGED <<client, relay, things, reports>>

\* tms-auth removes the key of the company, whichever it is by now.
Deactivate ==
  /\ \E began \in reports : reports' = reports \ {began}
  /\ setting' = NoKey
  /\ UNCHANGED <<client, relay, things, entered>>

FuelNext ==
  \/ Ask \/ Handle \/ Receive \/ Fail \/ HandleLate \/ Receipt
  \/ Pump \/ Redeem \/ Fuel \/ Tick \/ Rotate \/ Enter \/ Deactivate

FuelSpec == FuelInit /\ [][FuelNext]_fuelVars

-----------------------------------------------------------------------------
(* Properties.                                                             *)

FuelTypeOK ==
  /\ setting \in NoKey..MaxKeys /\ latest \in 1..MaxKeys
  /\ now \in Times /\ fuelings \subseteq 0..now /\ watermark \in 0..now
  /\ hooks \subseteq [key : 1..latest, body : fuelings]
  /\ \A r \in late : r.key <= latest /\ r.attempt \in DOMAIN ended /\ r.call = asks[r.attempt]
  /\ done \subseteq 1..MaxAttempts /\ fueled \in Nat
  /\ thing \in [state : {"created", "locked", "gone"}, by : 0..MaxAttempts, enabled : BOOLEAN,
                used : 0..Allowance]
  /\ request.stage \in {"idle", "asked", "answered", "refused", "rejected"} /\ request.key \in NoKey..latest
  /\ request.from \in 0..now /\ request.to \in 0..now /\ request.page \subseteq fuelings
  /\ ended \in Seq({"nil", "AuthError", "error"}) /\ Len(ended) <= MaxAttempts
  /\ Len(asks) = Len(ended)
  /\ reports \subseteq 0..entered /\ entered \in 0..MaxEntered

\* A key that Relay takes is removed only on the news of a call that began before it was
\* entered: once those are in, the integration stays connected (GetByCompanyID reads the
\* key every time).
OldNewsOnly == setting = latest /\ covered =>
  /\ \A began \in reports : began < entered
  /\ request.stage = "refused" => request.began < entered

\* While the key is good nothing removes it, however calls fail (doRequestTo tells a
\* refusal from a failure).
FailuresRemoveNothing == latest = 1 /\ covered => setting = 1 /\ reports = {}

\* nil means done, and an AuthError that nothing was nor will be; a second thing is
\* owed to an error of the other kind (CreateOneTimeCode, CreateDriver, doRequestTo).
CreationsOwed ==
  /\ \A i \in DOMAIN ended :
       /\ ended[i] = "nil" => i \in done
       /\ ended[i] = "AuthError" => i \notin done /\ \A r \in late : r.attempt # i
  /\ using = "create" =>
       Cardinality(done) <= 1 + Cardinality({i \in DOMAIN ended : ended[i] = "error"})

\* The attempts that assigned the policy.
Assignments == {i \in done : Append(asks, request.call)[i] = "assign"}

\* A thing is as the latest call left it that was told nil, or as one whose outcome is
\* unknown, which may land after it; and what was deleted is neither changed nor used
\* again, but assigned: later, or by an attempt whose outcome is unknown
\* (UpdateDriver, DeleteOneTimeCode, UpdatePolicyAssignment...).
LastWordStands == \A i \in DOMAIN ended : ended[i] = "nil" =>
  \/ thing.by >= i
  \/ /\ thing.by \in DOMAIN ended /\ ended[thing.by] = "error"
     /\ asks[i] = "delete" => \E a \in Assignments : a > i \/ ended[a] = "error"

\* A driver fuels past its policy only by being assigned it again, which an attempt does
\* whose answer was lost; to switch the policy off and on gives it nothing (AssignPolicy,
\* UpdatePolicyAssignment).
AllowanceKept == fueled <= Allowance * (1 + Cardinality(Assignments))

\* No fueling before the second the poll has come to is missing, although webhooks are
\* refused after a change of keys and windows fail (ListTransactions).
Reconciled == \A t \in fuelings : t < Second(watermark) => t \in known

\* The poll is given a fueling again only at a window's edge, on a whole second
\* (ListTransactions), and what the service has there was (VerifyWebhookSignature).
EdgesRepeat == \A t \in repeated : t = Second(t)
OnlyFueling == known \subseteq fuelings

\* What is stored as an object is read as a credential, whether its writer quotes it or
\* not; a text, and an empty one, are errors (fetchCredential).
CredentialsSound == \A quotes \in 0..2 :
  /\ quotes < 2 => Credential("object", quotes) = "credential"
  /\ \A json \in {"text", "empty"} : Credential(json, quotes) = "error"

\* What the key, and what is created with it, are worth.
CardsSound ==
  FuelTypeOK /\ OldNewsOnly /\ FailuresRemoveNothing /\ CreationsOwed /\ LastWordStands
  /\ AllowanceKept /\ CredentialsSound

\* What the service hears of fueling.
FuelingSound == Reconciled /\ EdgesRepeat /\ OnlyFueling
=============================================================================
