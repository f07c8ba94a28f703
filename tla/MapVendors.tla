------------------------------ MODULE MapVendors ------------------------------
(***************************************************************************)
(* Addresses, places and distances asked of HERE (client/here) and, where  *)
(* HERE fails, of Google Maps (client/googlemaps).  A call is refused, or  *)
(* sent with the company's key; it comes back as what was asked, as        *)
(* nothing found, or as an error, of which callers know the rejected key   *)
(* from the others; and one line is logged of it, for what it cost.        *)
(*                                                                         *)
(* The vendors are external.  HERE rejects a key with 401 or 403; Google's *)
(* routes too, its other services with 200 and REQUEST_DENIED.  A key over *)
(* its cap is 429, or 200 and OVER_QUERY_LIMIT.                            *)
(***************************************************************************)
EXTENDS Integers, Sequences, SequencesExt

CONSTANTS
  Roads,             \* the roads there are: length, whether trucks may, free height, ferry
  Trucks,            \* trucks to navigate, by their height; 0 is unset
  maxIntermediates,  \* of Google's routes: 25
  Stacks,            \* call stacks: functions by package, nearest first
  callerChainDepth,  \* frames a line names: 5
  MaxLookups, MaxKeyChanges   \* bounds

MapAssumption ==
  /\ maxIntermediates \in Nat /\ callerChainDepth \in Nat \ {0}
  /\ MaxLookups \in Nat /\ MaxKeyChanges \in Nat
  /\ \A r \in Roads : r.length \in Nat /\ r.trucks \in BOOLEAN /\ r.height \in Nat /\ r.ferry \in BOOLEAN

VARIABLES
  mapsKey,   \* the key at its vendor: vendor, state, and how often it changed
  lookup,    \* the call under way: op, args, reply
  context,   \* its context: "live" or "cancelled"
  lookups,   \* history: the calls that returned
  callLog    \* the lines logged

mapVars == <<mapsKey, lookup, context, lookups, callLog>>

Idle == [op |-> "none"]
NoReply == [net |-> FALSE, status |-> 0, verdict |-> "", body |-> "none", found |-> {}]

\* Client of either vendor: its operations.
Ops == [here   |-> {"geocode", "address", "reverse", "place", "distance", "route", "navigate", "test"},
        google |-> {"geocode", "suggest", "distance", "test"}]

-----------------------------------------------------------------------------
(* What a line names (here's callerChain, chainFrom, resolveCaller).       *)

Outside(stack) == SelectSeq(stack, LAMBDA f : f # "here")
Caller(tag, stack) ==
  LET outside == Outside(stack)
  IN CASE tag # "" -> <<tag>>
       [] tag = "" /\ outside = <<>> -> <<"unknown">>
       [] OTHER -> SubSeq(outside, 1, IF Len(outside) < callerChainDepth THEN Len(outside)
                                       ELSE callerChainDepth)

\* outcomeOf, alike in both packages.
OutcomeOf(cancelled, status, err) ==
  CASE err = "none" -> "ok"
    [] err # "none" /\ cancelled -> "ctx_canceled"
    [] err = "auth" /\ ~cancelled -> "auth"
    [] OTHER -> IF status >= 500 THEN "http_5xx" ELSE IF status >= 400 THEN "http_4xx"
                ELSE IF status > 0 THEN "http_other" ELSE "transport"

-----------------------------------------------------------------------------
(* The requests.                                                           *)

Blank == [query |-> "", points |-> 0, truck |-> 0, avoidFerry |-> FALSE]

\* What an operation may be asked.  The points of a distance are counted.
ArgsOf(vendor, op) ==
  CASE op \in {"geocode", "suggest", "place"} -> {[Blank EXCEPT !.query = q] : q \in {"", "q"}}
    [] vendor = "google" /\ op = "distance" ->
         {[Blank EXCEPT !.points = n] : n \in 1..(maxIntermediates + 3)}
    [] op = "navigate" ->
         {[Blank EXCEPT !.truck = t, !.avoidFerry = a] : t \in Trucks, a \in BOOLEAN}
    [] OTHER -> {Blank}

\* LookupRequest of HERE; Geocode, PlacesAutocomplete, ComputeRouteDistance of Google:
\* what is refused before it is sent.
Refused(vendor, op, args) ==
  \/ vendor = "here" /\ op = "place" /\ args.query = ""
  \/ vendor = "google" /\ op \in {"geocode", "suggest"} /\ args.query = ""
  \/ vendor = "google" /\ op = "distance" /\ (args.points < 2 \/ args.points - 2 > maxIntermediates)

\* GetRoute's parameters: the mode, the truck's limits that are set (cloneTruck, applyTo),
\* what to avoid.
AskedOf(op, args) ==
  [trucks |-> op \in {"route", "navigate"},
   height |-> IF op = "navigate" /\ args.truck > 0 THEN args.truck ELSE 0,
   ferry |-> ~args.avoidFerry]

\* The vendors: the shortest road that will do.
Fits(road, asked) ==
  (asked.trucks => road.trucks) /\ road.height >= asked.height /\ (road.ferry => asked.ferry)
Shortest(asked) ==
  {r \in Roads : Fits(r, asked) /\ \A s \in Roads : Fits(s, asked) => r.length <= s.length}

Routed == {"distance", "route", "navigate"}

\* The vendors' replies to a key in a state.
Replies(vendor, op, args, key) ==
  LET status(s) == [NoReply EXCEPT !.net = TRUE, !.status = s, !.body = "whole"]
      classic == vendor = "google" /\ op # "distance"
      found == IF op \in Routed THEN {Shortest(AskedOf(op, args))} ELSE {{}, {"place"}}
  IN {NoReply, status(503)} \cup
     CASE key = "denied" /\ classic -> {[status(200) EXCEPT !.verdict = "REQUEST_DENIED"]}
       [] key = "denied" /\ ~classic -> {status(401), status(403)}
       [] key = "capped" /\ classic -> {[status(200) EXCEPT !.verdict = "OVER_QUERY_LIMIT"]}
       [] key = "capped" /\ ~classic -> {status(429)}
       [] OTHER -> {status(400)} \cup
            {[status(200) EXCEPT !.body = b, !.found = f,
                !.verdict = IF f = {} /\ classic THEN "ZERO_RESULTS" ELSE "OK"] :
               b \in {"whole", "garbled", "broken off"}, f \in found}

-----------------------------------------------------------------------------
(* The clients' reading of a reply.                                        *)

Success(status) == status \in 200..299

\* here's doRequest: the body is read by who asked.
HereDo(reply) ==
  CASE ~reply.net -> "transport"
    [] reply.status \in {401, 403} -> "auth"
    [] reply.net /\ reply.status \notin {401, 403} /\ ~Success(reply.status) -> "status"
    [] OTHER -> "none"

\* googlemaps' finish: the body is read here.
GoogleDo(reply) ==
  IF HereDo(reply) = "none" /\ reply.body = "broken off" THEN "read" ELSE HereDo(reply)

\* googlemaps' statusError.
StatusError(verdict) ==
  CASE verdict \in {"OK", "ZERO_RESULTS", ""} -> "none"
    [] verdict \in {"REQUEST_DENIED", "OVER_QUERY_LIMIT"} -> "auth"
    [] OTHER -> "status"

Told(kind, found) == [kind |-> kind, found |-> found]

\* googlemaps' Geocode, PlacesAutocomplete: no match is an answer.
GoogleList(reply) ==
  CASE GoogleDo(reply) = "auth" \/ StatusError(reply.verdict) = "auth" -> Told("auth", {})
    [] GoogleDo(reply) = "none" /\ reply.body = "whole" /\ StatusError(reply.verdict) = "none" ->
         Told("found", reply.found)
    [] OTHER -> Told("error", {})

\* googlemaps' ComputeRouteDistance.
GoogleDistance(reply) ==
  CASE GoogleDo(reply) = "auth" -> Told("auth", {})
    [] GoogleDo(reply) = "none" /\ reply.body = "whole" /\ reply.found # {} -> Told("found", reply.found)
    [] OTHER -> Told("error", {})

\* Both TestConnections; Google's reads the body, HERE's does not.
TestConnection(vendor, reply) ==
  LET err == CASE vendor = "here" -> HereDo(reply)
               [] vendor = "google" /\ GoogleDo(reply) # "none" -> GoogleDo(reply)
               [] OTHER -> IF reply.body = "garbled" THEN "read" ELSE StatusError(reply.verdict)
  IN Told(CASE err = "none" -> "found" [] err = "auth" -> "invalid" [] OTHER -> "error", {})

\* here's Geocode: a list.
HereList(reply) ==
  CASE HereDo(reply) = "auth" -> Told("auth", {})
    [] HereDo(reply) = "none" /\ reply.body = "whole" -> Told("found", reply.found)
    [] OTHER -> Told("error", {})

\* GeocodeAddress, ReverseGeocode, CalculateDistance, CalculateRoute, CalculateTruckRoute:
\* the first, and an error where there is none.
HereOne(reply) ==
  IF HereList(reply) = Told("found", {}) THEN Told("error", {}) ELSE HereList(reply)

\* BuildTruckRoute: any error is ErrNoTruckRoute and no other.
HereNavigate(reply) ==
  IF HereOne(reply).kind = "found" THEN HereOne(reply) ELSE Told("no route", {})

Result(vendor, op, reply) ==
  CASE op = "test" -> TestConnection(vendor, reply)
    [] op # "test" /\ vendor = "google" ->
         IF op = "distance" THEN GoogleDistance(reply) ELSE GoogleList(reply)
    [] op = "navigate" -> HereNavigate(reply)
    [] op = "geocode" /\ vendor = "here" -> HereList(reply)
    [] OTHER -> HereOne(reply)

\* A call the vendor answered itself, and was heard.
Arrived(l) == l.sent /\ l.reply.net /\ l.reply.status < 500 /\ l.reply.body = "whole"

-----------------------------------------------------------------------------
(* Steps.                                                                  *)

MapInit ==
  /\ \E v \in {"here", "google"}, s \in {"good", "denied", "capped"} :
       mapsKey = [vendor |-> v, state |-> s, changes |-> 0]
  /\ lookup = Idle /\ context = "live" /\ lookups = <<>> /\ callLog = <<>>

\* The key's owner or its vendor; a company without a key has no client (NewClient).
ChangeKey ==
  /\ mapsKey.changes < MaxKeyChanges
  /\ \E s \in {"good", "denied", "capped"} \ {mapsKey.state} :
       mapsKey' = [mapsKey EXCEPT !.state = s, !.changes = mapsKey.changes + 1]
  /\ UNCHANGED <<lookup, context, lookups, callLog>>

\* A call, as it is checked and sent.  The clients keep nothing between calls, so a second
\* is made only where it is compared: after a test of the key as it is (a bound).
Ask ==
  /\ lookup = Idle /\ Len(lookups) < MaxLookups
  /\ \A i \in DOMAIN lookups :
       lookups[i].op = "test" /\ Arrived(lookups[i]) /\ lookups[i].key = mapsKey
  /\ \E op \in Ops[mapsKey.vendor] : \E args \in ArgsOf(mapsKey.vendor, op) :
       IF Refused(mapsKey.vendor, op, args)
       THEN /\ lookups' = Append(lookups, [op |-> op, args |-> args, sent |-> FALSE, reply |-> NoReply,
                                           key |-> mapsKey, result |-> Told("error", {})])
            /\ UNCHANGED lookup
       ELSE lookup' = [op |-> op, args |-> args, sent |-> TRUE] /\ UNCHANGED lookups
  /\ context' = "live"
  /\ UNCHANGED <<mapsKey, callLog>>

\* The vendor answers, by the key as it is now.
Reply ==
  /\ lookup # Idle /\ "reply" \notin DOMAIN lookup
  /\ \E reply \in IF context = "cancelled" THEN {NoReply}
                  ELSE Replies(mapsKey.vendor, lookup.op, lookup.args, mapsKey.state) :
       lookup' = [op |-> lookup.op, args |-> lookup.args, sent |-> TRUE, reply |-> reply,
                  key |-> mapsKey]
  /\ UNCHANGED <<mapsKey, context, lookups, callLog>>

\* The caller's context ends; a body that is on its way breaks off.
Cancel ==
  /\ lookup # Idle /\ context = "live"
  /\ context' = "cancelled"
  /\ IF "reply" \in DOMAIN lookup
     THEN \/ UNCHANGED lookup
          \/ /\ lookup.reply.body = "whole"
             /\ lookup' = [lookup EXCEPT !.reply.body = "broken off"]
     ELSE UNCHANGED lookup
  /\ UNCHANGED <<mapsKey, lookups, callLog>>

\* The call is logged and returns (doRequest or finish, and who asked).
Return ==
  /\ "reply" \in DOMAIN lookup
  /\ LET err == IF mapsKey.vendor = "here" THEN HereDo(lookup.reply) ELSE GoogleDo(lookup.reply)
     IN callLog' = Append(callLog, [op |-> lookup.op, status |-> lookup.reply.status,
                    outcome |-> OutcomeOf(context = "cancelled", lookup.reply.status, err)])
  /\ lookups' = Append(lookups, [op |-> lookup.op, args |-> lookup.args, sent |-> TRUE,
                   reply |-> lookup.reply, key |-> lookup.key,
                   result |-> Result(mapsKey.vendor, lookup.op, lookup.reply)])
  /\ lookup' = Idle
  /\ UNCHANGED <<mapsKey, context>>

MapNext == ChangeKey \/ Ask \/ Reply \/ Cancel \/ Return

MapSpec == MapInit /\ [][MapNext]_mapVars

-----------------------------------------------------------------------------
(* Properties.                                                             *)

TypeOK ==
  /\ mapsKey.changes \in 0..MaxKeyChanges /\ context \in {"live", "cancelled"}
  /\ Len(lookups) <= MaxLookups /\ Len(callLog) <= Len(lookups)

Rejected == {"auth", "invalid"}

\* A key is called rejected only when its vendor rejected it, and whenever it did and was
\* heard, but where a truck is navigated: there a rejected key reads as no route, and
\* IsAuthError does not know it.  One over its cap is called so by Google's classic
\* services alone (doRequest, finish, statusError, BuildTruckRoute).
RejectionTold ==
  \A i \in DOMAIN lookups :
    LET l == lookups[i]
    IN /\ l.result.kind \in Rejected => l.key.state # "good"
       /\ l.key.state = "denied" /\ Arrived(l) =>
            IF l.op = "navigate" THEN l.result.kind = "no route" ELSE l.result.kind \in Rejected
       /\ l.key.state = "capped" /\ Arrived(l) =>
            (l.result.kind \in Rejected <=> mapsKey.vendor = "google" /\ l.op # "distance")

\* The Test button and the calls around it agree on an unchanged key, but for a key over
\* its cap, which Google's routes do not call rejected (TestConnection).
TestAgrees ==
  \A i, j \in DOMAIN lookups :
    LET t == lookups[i]
        l == lookups[j]
    IN t.op = "test" /\ l.op \notin {"test", "navigate"} /\ t.key = l.key /\ Arrived(t) /\ Arrived(l) =>
         /\ l.result.kind = "auth" => t.result.kind = "invalid"
         /\ t.result.kind = "invalid" =>
              \/ l.result.kind = "auth"
              \/ l.op = "distance" /\ l.key.state = "capped"

\* An empty list is the vendor's word for it, never an error's; but what asks for one
\* thing has no word for it, and fails like an outage (Geocode, GeocodeAddress).
NothingTold ==
  \A i \in DOMAIN lookups :
    LET l == lookups[i]
    IN /\ l.result.kind = "found" /\ l.op # "test" =>
            l.reply.found = l.result.found /\ Success(l.reply.status)
       /\ l.op \in {"address", "reverse"} \cup Routed => l.result # Told("found", {})

\* A truck is navigated over no road that is too low for it or that it is to avoid, and a
\* distance of Google's is of all its points or an error (applyTo, maxIntermediates).
RoadsFit ==
  \A i \in DOMAIN lookups :
    LET l == lookups[i]
    IN l.result.kind = "found" /\ l.op \in Routed =>
         /\ \A r \in l.result.found :
              l.op = "navigate" => r.trucks /\ r.height >= l.args.truck /\ ~(r.ferry /\ l.args.avoidFerry)
         /\ mapsKey.vendor = "google" => l.args.points - 2 \in 0..maxIntermediates

\* Every call that was sent, and no other, is one line, in order; what was of use is "ok";
\* and what is "ok" and of no use is a body that could not be read, or a key Google
\* rejected with 200 (logCall, finish).
Accounted ==
  LET sent == SelectSeq(lookups, LAMBDA l : l.sent)
  IN /\ Len(callLog) = Len(sent)
     /\ \A i \in DOMAIN sent :
          /\ callLog[i].op = sent[i].op
          /\ sent[i].result.kind = "found" => callLog[i].outcome = "ok"
          /\ callLog[i].outcome = "ok" /\ sent[i].result.kind \in Rejected =>
               mapsKey.vendor = "google" /\ sent[i].reply.status = 200
          /\ callLog[i].outcome = "ok" /\ sent[i].result.kind = "error" =>
               sent[i].reply.body # "whole" \/ sent[i].reply.found = {}
          /\ callLog[i].outcome = "auth" => sent[i].key.state = "denied"

\* Two paths that part within the frames a line names have different callers, and only a
\* stack without a frame outside is "unknown" (chainFrom, resolveCaller).
Attributed ==
  \A s, t \in Stacks :
    LET head(stack) == SubSeq(Outside(stack), 1, callerChainDepth)
    IN /\ Caller("", s) = <<"unknown">> <=> Outside(s) = <<>>
       /\ (\E k \in 1..callerChainDepth :
             k <= Len(Outside(s)) /\ k <= Len(Outside(t)) /\ Outside(s)[k] # Outside(t)[k])
            => Caller("", s) # Caller("", t)

MapSound ==
  TypeOK /\ RejectionTold /\ TestAgrees /\ NothingTold /\ RoadsFit /\ Accounted /\ Attributed
=============================================================================
