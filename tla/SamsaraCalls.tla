----------------------------- MODULE SamsaraCalls -----------------------------
(***************************************************************************)
(* Single calls to Samsara (client/samsara): where vehicles are, what      *)
(* sensors measure, addresses, webhooks and alerts that are read, patched  *)
(* and deleted, the test of a key, and the signatures of what Samsara      *)
(* posts.  Calls overlap, and a service keeps the latest position it is    *)
(* told of every vehicle, by the time that is told with it.                *)
(*                                                                         *)
(* Samsara is external.  It answers /fleet/vehicles with a list, as        *)
(* ListVehicles reads it, or with a vehicle, as GetVehicleByVIN does, and  *)
(* objects within "data" or bare, which CreateWebhook is prepared for.     *)
(***************************************************************************)
EXTENDS Integers, Sequences, FiniteSets, SequencesExt

CONSTANTS
  Fleet,       \* vehicles
  MaxCalls,    \* bound: calls made
  MaxMoment    \* bound: positions recorded, and the key's changes

SamsaraCallsAssumption == MaxCalls \in Nat /\ MaxMoment \in Nat

VARIABLES
  topic,       \* what the calls are about; topics share nothing but the key
  account,     \* Samsara: the key is accepted, its changes, the form of its answers
  fleet,       \* Samsara: each vehicle's latest position, its time, and if it has any
  moment,      \* the time, as the number of positions recorded
  object,      \* Samsara: an address, webhook or alert: the call that wrote it last, 0
               \* before any, Gone once it is deleted; and the call that did
  webhooks,    \* Samsara: the calls that created one, each with a secret of its own
  secret,      \* the service: whose secret it holds, 0 if none
  requests,    \* the calls, in the order they were made
  tracked,     \* the service: of each vehicle the position it holds, its time, and
               \* positions of unreadable time it was told
  post         \* the latest delivery and what became of it

samsaraCallVars ==
  <<topic, account, fleet, moment, object, webhooks, secret, requests, tracked, post>>

-----------------------------------------------------------------------------
(* The calls: how a request is sent, the statuses that are a success, and  *)
(* the form of answer it is read as.  What has another form is read as     *)
(* empty, without an error.                                                *)

Get(form) == [via |-> "doRequest", successes |-> 200..299, form |-> form]
Own(successes, form) == [via |-> "own", successes |-> successes, form |-> form]

ListVehicles == Get("list")
GetVehiclesStats == Get("list")
GetVehicleCoordinates == Get("bare")
GetVehicleByVIN == Get("bare")
GetAllVehiclesLocations == Get("list")
GetSensors == Get("list")
GetSensorTemperature == Own({200}, "list")
GetSensorHumidity == Own({200}, "list")
GetSensorHistory == Own({200}, "list")
GetAddress == Get("data")
UpdateAddress == Own({200}, "data")
DeleteAddress == Get("none")
CreatePolygonalGeofence == Own({200, 201}, "data")
CreateWebhook == Own({200, 201}, "data or bare")
GetWebhook == Get("data")
UpdateWebhook == Own({200}, "data")
DeleteWebhook == Get("none")
GetAlertConfiguration == Get("data")
UpdateAlertConfiguration == Own({200}, "data")
DeleteAlertConfiguration == Get("none")
GetDriver == Get("data")
GetDriverSafetyScore == Get("bare")
TestConnection == [via |-> "TestConnection", successes |-> 200..299, form |-> "none"]

Calls ==
  [vehicles |-> [list |-> ListVehicles, stats |-> GetVehiclesStats, vin |-> GetVehicleByVIN,
                 id |-> GetVehicleCoordinates, all |-> GetAllVehiclesLocations],
   sensors |-> [sensors |-> GetSensors, temperature |-> GetSensorTemperature,
                humidity |-> GetSensorHumidity, history |-> GetSensorHistory,
                test |-> TestConnection],
   driver |-> [driver |-> GetDriver, score |-> GetDriverSafetyScore],
   address |-> [get |-> GetAddress, update |-> UpdateAddress, delete |-> DeleteAddress,
                create |-> CreatePolygonalGeofence],
   webhook |-> [get |-> GetWebhook, update |-> UpdateWebhook, delete |-> DeleteWebhook,
                create |-> CreateWebhook],
   alert |-> [get |-> GetAlertConfiguration, update |-> UpdateAlertConfiguration,
              delete |-> DeleteAlertConfiguration]]

Topics == DOMAIN Calls
Ops == DOMAIN Calls[topic]

\* What a call is refused for before anything is sent: no VIN, no sensors, fewer than
\* three vertices; GetVehiclesStats of no vehicles is answered with none.
NeedsArguments == {"vin", "stats", "temperature", "humidity"} \cup
  (IF topic = "address" THEN {"create"} ELSE {})

Nil == [kind |-> "none"]
Lost == [kind |-> "lost"]
Gone == -1

SamsaraCallsInit ==
  /\ topic \in Topics
  /\ account \in [key : {TRUE}, changes : {0}, wrapped : BOOLEAN, listed : BOOLEAN]
  /\ topic \in {"vehicles", "sensors"} => account.wrapped
  /\ topic # "vehicles" => account.listed
  /\ fleet = [v \in Fleet |-> [at |-> 0, time |-> "good", gps |-> TRUE]]
  /\ moment = 0
  /\ object = [version |-> 0, deletedBy |-> 0]
  /\ webhooks = {} /\ secret = 0 /\ requests = <<>>
  /\ tracked = [v \in Fleet |-> [at |-> 0, stamp |-> 0, unread |-> FALSE]]
  /\ post = Nil

-----------------------------------------------------------------------------
(* Samsara.                                                                *)

Answer(status, form, found) == [kind |-> "answer", status |-> status, form |-> form, found |-> found]
Bodiless(status) == Answer(status, "none", {})

ObjectForm == IF account.wrapped THEN "data" ELSE "bare"

Positions(vs) == {[vehicle |-> v, fix |-> fleet[v]] : v \in vs}

\* What it may answer call i, if it accepts the key.
Answers(i, o, v) ==
  CASE o \in {"list", "vin"} -> {Answer(200, IF account.listed THEN "list" ELSE "bare", Positions({v}))}
    [] o = "id" -> {Answer(200, "bare", Positions({v}))}
    [] o \in {"all", "stats"} -> {Answer(200, "list", Positions(Fleet))}
    [] topic = "sensors" /\ Calls[topic][o].form = "list" ->
         {Answer(200, "list", {}), Answer(200, "list", {"reading"})}
    [] o = "driver" -> {Answer(200, ObjectForm, {"driver"})}
    [] o = "score" -> {Answer(200, "bare", {"driver"})}
    [] o = "test" -> {Bodiless(200)}
    [] o = "create" -> {Answer(201, ObjectForm, {i})}
    [] object.version = Gone -> {Bodiless(404)}
    [] o = "get" -> {Answer(200, ObjectForm, {object.version})}
    [] o = "update" -> {Answer(200, ObjectForm, {i})}
    [] o = "delete" -> {Bodiless(204)}

\* What it does for it.
Done(i, o) ==
  /\ object' = CASE object.version = Gone -> object
                 [] o = "update" -> [object EXCEPT !.version = i]
                 [] o = "delete" -> [version |-> Gone, deletedBy |-> i]
                 [] OTHER -> object
  /\ webhooks' = IF topic = "webhook" /\ o = "create" THEN webhooks \cup {i} ELSE webhooks

On(i) == requests[i].result = Nil
Sent(i) == On(i) /\ requests[i].reply = Nil

\* A request is handled, with the key as it is now; or the service is out of order.
Handle(i) ==
  LET o == requests[i].op
      answered(r) == requests' = [requests EXCEPT ![i].reply = r]
  IN /\ Sent(i)
     /\ \/ account.key /\ Done(i, o) /\ \E r \in Answers(i, o, requests[i].vehicle) : answered(r)
        \/ ~account.key /\ answered(Bodiless(401)) /\ UNCHANGED <<object, webhooks>>
        \/ answered(Bodiless(500)) /\ UNCHANGED <<object, webhooks>>
     /\ UNCHANGED <<topic, account, fleet, moment, secret, tracked, post>>

\* A vehicle's position is recorded; its time may be missing or unreadable, and a
\* vehicle may have none.
Drive(v, time, gps) ==
  /\ topic = "vehicles" /\ moment < MaxMoment /\ (gps \/ time = "none")
  /\ moment' = moment + 1
  /\ fleet' = [fleet EXCEPT ![v] = [at |-> moment', time |-> time, gps |-> gps]]
  /\ UNCHANGED <<topic, account, object, webhooks, secret, requests, tracked, post>>

\* The key is refused or renewed; where it matters, among calls of all three ways (a bound).
ChangeKey ==
  /\ topic = "sensors" /\ account.changes < MaxMoment
  /\ account' = [account EXCEPT !.key = ~@, !.changes = @ + 1]
  /\ UNCHANGED <<topic, fleet, moment, object, webhooks, secret, requests, tracked, post>>

-----------------------------------------------------------------------------
(* The client.                                                             *)

Error(kind) == [kind |-> kind, found |-> {}]
Found(found) == [kind |-> "ok", found |-> found]

\* json.Decode, and CreateWebhook's two attempts.
Decoded(form, reply) ==
  IF reply.form = form \/ (form = "data or bare" /\ reply.form \in {"data", "bare"})
  THEN reply.found ELSE {}

\* doRequest: statuses 401 and 403 are AuthErrors.
doRequest(call, reply) ==
  IF reply.status \in {401, 403} THEN Error("AuthError")
  ELSE IF reply.status \notin call.successes THEN Error("error")
  ELSE Found(Decoded(call.form, reply))

\* Requests that are sent without it: any other status is an error like any other.
ownRequest(call, reply) ==
  IF reply.status \notin call.successes THEN Error("error") ELSE Found(Decoded(call.form, reply))

\* TestConnection: what it returns.
tested(call, reply) ==
  IF reply.status \in {401, 403} THEN Error("ErrInvalidCredentials")
  ELSE IF reply.status \notin call.successes THEN Error("error") ELSE Found({})

\* What a call returns for its answer.  GetSensorHistory gives the first of the results,
\* of which there must be one; CreateWebhook must find an id.
ResultOf(o, reply) ==
  LET call == Calls[topic][o]
      read == CASE call.via = "doRequest" -> doRequest(call, reply)
                [] call.via = "own" -> ownRequest(call, reply)
                [] OTHER -> tested(call, reply)
  IN IF o = "history" \/ (o = "create" /\ topic = "webhook")
     THEN IF read.found = {} THEN Error(IF read.kind = "ok" THEN "error" ELSE read.kind) ELSE read
     ELSE read

\* GetVehicleLocationBySamsaraID, GetVehicleLocationByVIN: a position is one with GPS.
Located(found) ==
  IF \E p \in found : p.fix.gps THEN Found(found) ELSE Error("error")

\* service.GetAllVehiclesLocations: vehicles without GPS are passed over.
AllLocated(found) == Found({p \in found : p.fix.gps})

\* The time a position is given: its own, if it can be read, else that of reading it.
TimestampOf(fix) == IF fix.time = "good" THEN fix.at ELSE moment

\* What was told of positions is kept, where it is not older than what is held.
Keep(found) ==
  tracked' = [v \in Fleet |->
    LET told == {p \in found : p.vehicle = v}
    IN IF told = {} THEN tracked[v]
       ELSE LET fix == (CHOOSE p \in told : TRUE).fix
                unread == tracked[v].unread \/ fix.time # "good"
            IN IF TimestampOf(fix) >= tracked[v].stamp
               THEN [at |-> fix.at, stamp |-> TimestampOf(fix), unread |-> unread]
               ELSE [tracked[v] EXCEPT !.unread = unread]]

\* A call is made, with or without what it needs.
Ask(o, v, empty) ==
  /\ Len(requests) < MaxCalls
  /\ empty => o \in NeedsArguments
  /\ requests' = Append(requests,
       [op |-> o, by |-> o, vehicle |-> v, reply |-> Nil, since |-> account.changes,
        until |-> account.changes, result |-> IF ~empty THEN Nil ELSE IF o = "stats" THEN Found({}) ELSE Error("error")])
  /\ UNCHANGED <<topic, account, fleet, moment, object, webhooks, secret, tracked, post>>

\* GetVehicleLocationByVIN: the vehicle that was found is asked for by its id, which must
\* be a number; what was not found has none.
AskByID(i) ==
  /\ On(i) /\ requests[i].reply # Nil /\ requests[i].op = "vin"
  /\ ResultOf("vin", requests[i].reply).found # {}
  /\ requests' = [requests EXCEPT ![i].op = "id", ![i].reply = Nil]
  /\ UNCHANGED <<topic, account, fleet, moment, object, webhooks, secret, tracked, post>>

\* The answer is read and the call returns.
Return(i) ==
  /\ On(i) /\ requests[i].reply # Nil
  /\ LET o == requests[i].op
         read == ResultOf(o, requests[i].reply)
         result == CASE read.kind # "ok" -> read
                     [] o = "vin" -> Error("error")
                     [] o = "id" -> Located(read.found)
                     [] o = "all" -> AllLocated(read.found)
                     [] OTHER -> read
     IN /\ o = "vin" => read.found = {}
        /\ requests' = [requests EXCEPT ![i].result = result, ![i].until = account.changes]
        /\ IF o \in {"id", "all"} THEN Keep(result.found) ELSE UNCHANGED tracked
        /\ secret' = IF topic = "webhook" /\ o = "create" /\ result.kind = "ok" THEN i ELSE secret
  /\ UNCHANGED <<topic, account, fleet, moment, object, webhooks, post>>

\* The request or its answer is lost, or the answer cannot be decoded.
Lose(i) ==
  /\ On(i)
  /\ requests' = [requests EXCEPT ![i].reply = Lost, ![i].result = Error("error")]
  /\ UNCHANGED <<topic, account, fleet, moment, object, webhooks, secret, tracked, post>>

\* Headers a signature may come in, as pieces.
Headers == {<<>>, <<"sig">>, <<"v1", "=", "sig">>, <<"sig", "=">>, <<"t", "=", "1,v1", "=", "sig">>}

\* VerifyWebhookSignature: up to the first "=" is a prefix, unless it is the end.
Verify(held, signer, header) ==
  LET equals == {n \in DOMAIN header : header[n] = "="}
      first == CHOOSE n \in equals : \A m \in equals : n <= m
      provided == IF equals # {} /\ first < Len(header)
                  THEN SubSeq(header, first + 1, Len(header)) ELSE header
  IN held # 0 /\ header # <<>> /\ provided = <<"sig">> /\ held = signer

\* Samsara posts for a webhook and signs with its secret.
Post(w, header) ==
  /\ topic = "webhook"
  /\ post' = [kind |-> "post", webhook |-> w, header |-> header, accepted |-> Verify(secret, w, header),
              held |-> secret]
  /\ UNCHANGED <<topic, account, fleet, moment, object, webhooks, secret, requests, tracked>>

SamsaraCallsNext ==
  \/ \E o \in Ops, v \in Fleet, empty \in BOOLEAN : Ask(o, v, empty)
  \/ \E i \in DOMAIN requests : Handle(i) \/ AskByID(i) \/ Return(i) \/ Lose(i)
  \/ \E v \in Fleet, time \in {"good", "none"}, gps \in BOOLEAN : Drive(v, time, gps)
  \/ ChangeKey
  \/ \E w \in webhooks, header \in Headers : Post(w, header)

SamsaraCallsSpec == SamsaraCallsInit /\ [][SamsaraCallsNext]_samsaraCallVars

-----------------------------------------------------------------------------
(* Properties.                                                             *)

TypeOK ==
  /\ topic \in Topics /\ moment \in 0..MaxMoment /\ account.changes \in 0..MaxMoment
  /\ Len(requests) <= MaxCalls /\ secret \in webhooks \cup {0}
  /\ \A v \in Fleet : tracked[v].at <= tracked[v].stamp /\ tracked[v].stamp <= moment

Returned == {i \in DOMAIN requests : ~On(i)}

\* A key is said to be refused only if it was, while the call lasted; and a refused key
\* is told by every call Samsara answers, but for those that do not go through doRequest:
\* sensors' readings and all that is created or patched (IsAuthError, TestConnection).
RefusalTold ==
  \A i \in Returned :
    LET r == requests[i]
        refused == r.result.kind \in {"AuthError", "ErrInvalidCredentials"}
    IN /\ refused => r.since % 2 = 1 \/ r.until > r.since
       /\ r.since % 2 = 1 /\ r.until = r.since /\ r.reply.kind = "answer" /\ r.reply.status # 500 =>
            (refused <=> r.op \notin {"temperature", "humidity", "history"})

\* However calls overlap, a service that goes by the times it is told holds the newest
\* position it was told, as long as Samsara gave each a time that can be read: what has
\* none is told as of now, and may take the place of what is newer (service.go).
LatestKept ==
  \A v \in Fleet : ~tracked[v].unread =>
    \A i \in Returned : \A p \in requests[i].result.found :
      topic = "vehicles" /\ requests[i].op \in {"id", "all"} /\ p.vehicle = v => p.fix.at <= tracked[v].at

\* The same answer is read as a list by one call and as a vehicle by another: where
\* ListVehicles lists any, nothing is found by its VIN (GetVehicleByVIN, ListVehicles).
ListOrVIN ==
  \A i, j \in Returned :
    ~(/\ requests[i].op = "list" /\ requests[i].result.found # {}
      /\ requests[j].by = "vin" /\ requests[j].result.kind = "ok")

\* Who is told of an update or a deletion did it, a deletion only one of all; and what is
\* read without an error is empty only where Samsara does not wrap its answers, which
\* CreateWebhook alone allows for, so that whoever is told an error does not have the
\* webhook on Samsara's word (UpdateAddress, DeleteAddress, GetWebhook).
WritesTold ==
  topic \in {"address", "webhook", "alert", "driver"} =>
    \A i \in Returned :
      LET r == requests[i]
          webhook == <<topic, r.op>> = <<"webhook", "create">>
      IN /\ r.result.kind = "ok" =>
              /\ r.op = "delete" => object.deletedBy = i
              /\ r.op \in {"update", "create"} => r.result.found \subseteq {i}
              /\ r.op # "delete" /\ r.result.found = {} => ~account.wrapped /\ ~webhook
         /\ webhook /\ r.reply.kind = "answer" /\ r.reply.status = 201 => r.result.kind = "ok"

\* What is accepted was signed by the webhook whose secret the service holds; what that
\* webhook posts, with at most one prefix, is accepted.  Another webhook's posts are
\* refused, as after a creation that was tried again (VerifyWebhookSignature).
SignaturesSound ==
  post # Nil =>
    (post.accepted <=>
       post.held = post.webhook /\ post.header \in {<<"sig">>, <<"v1", "=", "sig">>})

SamsaraCallsSound ==
  TypeOK /\ RefusalTold /\ LatestKept /\ ListOrVIN /\ WritesTold /\ SignaturesSound
=============================================================================
