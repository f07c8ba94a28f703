--------------------------- MODULE SamsaraAlerts ----------------------------
(***************************************************************************)
(* Alerts by Samsara (client/samsara): a setup creates, one request after  *)
(* the other, a geofence, a webhook and the alerts that join the two, or a *)
(* webhook and the alerts of a sensor.  The first error ends it and leaves *)
(* what was created, also what was created by the request whose answer was *)
(* lost; the caller may try again.  When a vehicle enters or leaves the    *)
(* geofence, or what a sensor measures its range, Samsara posts to the     *)
(* webhooks, and again when it is not answered with success.               *)
(***************************************************************************)
EXTENDS Naturals, FiniteSets, Sequences

CONSTANTS
  Plans,         \* of "geofence", "temperature", "climate"
  MaxSetups,     \* bound: setups begun
  MaxIncidents,  \* bound: what happens to be alerted of
  MaxTries       \* of Samsara, to deliver one event

AlertsAssumption ==
  /\ Plans \subseteq {"geofence", "temperature", "climate"}
  /\ MaxSetups \in Nat /\ MaxIncidents \in Nat /\ MaxTries \in Nat \ {0}

VARIABLES
  objects,   \* Samsara: what exists, a sequence; ids are its indexes
  plan,      \* what is set up, again if it fails; plans share nothing at Samsara
  underWay,  \* a setup is
  ids,       \* the ids it knows
  begun,
  complete,  \* the ids of the setups that returned nil
  failures,  \* history: setups that returned an error
  edited,    \* history: an object was deleted or switched off; once at most
  incidents, \* what has happened, a sequence
  posts,     \* Samsara: events to deliver
  heard,     \* history: the callbacks that ran without error, <<incident, callback>>
  runs,      \* history: how often one did, for each incident
  lost,      \* history: its acknowledgements that were lost
  dropped    \* history: incidents of which an event was given up

alertsVars == <<objects, plan, underWay, ids, begun, complete, failures, edited, incidents, posts, 
  heard, runs, lost, dropped>>

setups == <<objects, plan, underWay, ids, begun, complete, failures, edited>>
deliveries == <<incidents, posts, heard, runs, lost, dropped>>

AlertsInit ==
  /\ objects = <<>> /\ plan \in Plans /\ underWay = FALSE /\ ids = <<>> /\ begun = 0 /\ complete = {}
  /\ failures = 0 /\ edited = FALSE
  /\ incidents = <<>> /\ posts = {} /\ heard = {} /\ runs = <<>> /\ lost = <<>> /\ dropped = {}

-----------------------------------------------------------------------------
(* Setups.                                                                 *)

\* What Samsara keeps of a request: an alert has a trigger, a geofence if it is about
\* one, and a webhook; a webhook is at the URL of a plan's monitor.
Object(kind, trigger, on, hook) ==
  [kind |-> kind, trigger |-> trigger, on |-> on, hook |-> hook, enabled |-> TRUE]

CreateAddress == Object("address", "none", 0, 0)
CreateWebhook(monitor) == Object("webhook", monitor, 0, 0)
CreateAlertConfiguration(trigger, on, hook) == Object("alert", trigger, on, hook)

CreateCircularGeofence == CreateAddress

\* Subscribed to the native events of geofences; to alerts, by the alerts' actions.
CreateGeofenceWebhook == CreateWebhook("geofence")

CreateGeofenceAlert(address, hook, onEntry) ==
  CreateAlertConfiguration(IF onEntry THEN "inside" ELSE "outside", address, hook)

CreateTemperatureAlert(hook, isAbove) ==
  CreateAlertConfiguration(IF isAbove THEN "hot" ELSE "cold", 0, hook)

CreateHumidityAlert(hook, isAbove) ==
  CreateAlertConfiguration(IF isAbove THEN "damp" ELSE "dry", 0, hook)

CreateDoorOpenAlert(hook) == CreateAlertConfiguration("open", 0, hook)

\* The request that follows those whose ids are known.
CreateFullGeofenceSetup(known) ==
  CASE Len(known) = 0 -> CreateCircularGeofence
    [] Len(known) = 1 -> CreateGeofenceWebhook
    [] OTHER -> CreateGeofenceAlert(known[1], known[2], Len(known) = 2)

CreateFullTemperatureMonitoringSetup(known) ==
  IF known = <<>> THEN CreateWebhook("temperature")
  ELSE CreateTemperatureAlert(known[1], Len(known) = 1)

\* A caller's own, of the alerts no setup is there for.
ClimateSetup(known) ==
  CASE Len(known) = 0 -> CreateWebhook("temperature")
    [] Len(known) = 3 -> CreateDoorOpenAlert(known[1])
    [] OTHER -> CreateHumidityAlert(known[1], Len(known) = 1)

Steps == [geofence |-> 4, temperature |-> 3, climate |-> 4]

NextObject ==
  CASE plan = "geofence" -> CreateFullGeofenceSetup(ids)
    [] plan = "temperature" -> CreateFullTemperatureMonitoringSetup(ids)
    [] plan = "climate" -> ClimateSetup(ids)

Begin ==
  /\ ~underWay /\ begun < MaxSetups
  /\ underWay' = TRUE /\ ids' = <<>> /\ begun' = begun + 1
  /\ UNCHANGED <<objects, plan, complete, failures, edited, deliveries>>

\* A request is answered with the new id; the last one ends the setup.
Created ==
  /\ underWay
  /\ objects' = Append(objects, NextObject)
  /\ LET known == Append(ids, Len(objects'))
     IN IF Len(known) = Steps[plan]
        THEN underWay' = FALSE /\ ids' = <<>> /\ complete' = complete \cup {known}
        ELSE ids' = known /\ UNCHANGED <<underWay, complete>>
  /\ UNCHANGED <<plan, begun, failures, edited, deliveries>>

\* It fails, or a webhook's answer has no id in it; the object may exist all the same.
\* Nothing is taken back.
Failed(exists) ==
  /\ underWay
  /\ objects' = IF exists THEN Append(objects, NextObject) ELSE objects
  /\ underWay' = FALSE /\ ids' = <<>>
  /\ failures' = failures + 1
  /\ UNCHANGED <<plan, begun, complete, edited, deliveries>>

\* UpdateWebhook, UpdateAlertConfiguration and the Deletes of the three; of an object
\* that is gone nothing but its id is left.
Edit(i) ==
  /\ ~edited /\ objects[i].enabled
  /\ objects' = [objects EXCEPT ![i].enabled = FALSE]
  /\ edited' = TRUE
  /\ UNCHANGED <<plan, underWay, ids, begun, complete, failures, deliveries>>

-----------------------------------------------------------------------------
(* Samsara.                                                                *)

Works(i) == i \in DOMAIN objects /\ objects[i].enabled

\* An incident of a trigger, at the address a if it is a geofence's: the alerts that
\* watch it, and the webhooks with native events of geofences.
Sources(t, a) ==
  {i \in DOMAIN objects : Works(i) /\
     \/ objects[i].kind = "alert" /\ objects[i].trigger = t /\ objects[i].on = a /\
        (a = 0 \/ Works(a)) /\ Works(objects[i].hook)
     \/ objects[i].kind = "webhook" /\ objects[i].trigger = "geofence" /\ a # 0 /\ Works(a)}

\* Trigger types, and the AlertConditionIDs Samsara posts of them.
Conditions ==
  [inside |-> "DeviceLocationInsideGeofence", outside |-> "DeviceLocationOutsideGeofence",
   hot |-> "TemperatureAbove", cold |-> "TemperatureBelow",
   damp |-> "HumidityAbove", dry |-> "HumidityBelow", open |-> "DoorActivated"]
Triggers == DOMAIN Conditions

\* The event it posts: of its type, and of an alert's condition; and the webhook it goes to.
Event(i, t) ==
  IF objects[i].kind = "alert"
  THEN [to |-> objects[objects[i].hook].trigger, type |-> "AlertIncident",
        condition |-> Conditions[objects[i].trigger]]
  ELSE [to |-> objects[i].trigger, type |-> IF t = "inside" THEN "GeofenceEntry" ELSE "GeofenceExit",
        condition |-> "none"]

\* What a plan is to be told of; nobody listens for air that is too dry (TemperatureMonitor).
Watched == [geofence |-> {"inside", "outside"}, temperature |-> {"hot", "cold"},
            climate |-> {"damp", "open"}]

\* Somebody was told that this would be alerted of, and nothing was edited.
Due(t, a) ==
  ~edited /\ t \in Watched[plan] /\ \E s \in complete : plan = "geofence" => a = s[1]

\* What nobody was ever to be told of is left out.
Happens(t, a) ==
  /\ Len(incidents) < MaxIncidents
  /\ IF t \in {"inside", "outside"} THEN Works(a) /\ objects[a].kind = "address" ELSE a = 0
  /\ Sources(t, a) # {} \/ Due(t, a)
  /\ incidents' = Append(incidents, [trigger |-> t, on |-> a, due |-> Due(t, a)])
  /\ posts' = posts \cup
       {[incident |-> Len(incidents'), source |-> i, event |-> Event(i, t), tries |-> 0] :
          i \in Sources(t, a)}
  /\ runs' = Append(runs, 0) /\ lost' = Append(lost, 0)
  /\ UNCHANGED <<setups, heard, dropped>>

LastTry(post) == post.tries + 1 = MaxTries

\* Not answered with success: once more, or not again.
Again(post) ==
  IF LastTry(post)
  THEN posts' = posts \ {post} /\ dropped' = dropped \cup {post.incident}
  ELSE posts' = (posts \ {post}) \cup {[post EXCEPT !.tries = @ + 1]} /\ UNCHANGED dropped

-----------------------------------------------------------------------------
(* The handler.                                                            *)

\* The callback of a handler an alert is for; other conditions are dispatched alike.
handleAlertEvent ==
  [DeviceLocationInsideGeofence |-> "OnGeofenceEntry",
   DeviceLocationOutsideGeofence |-> "OnGeofenceExit",
   TemperatureAbove |-> "OnTemperatureAbove", TemperatureBelow |-> "OnTemperatureBelow",
   HumidityAbove |-> "OnHumidityAbove", HumidityBelow |-> "OnHumidityBelow",
   DoorActivated |-> "OnDoorOpen", DoorDeactivated |-> "OnDoorClosed"]

HandleWebhook(event) ==
  CASE event.type = "AlertIncident" -> handleAlertEvent[event.condition]
    [] event.type = "GeofenceEntry" -> "OnGeofenceEntry"
    [] event.type = "GeofenceExit" -> "OnGeofenceExit"

\* The callbacks of the monitors' handlers, and what a service registers of its own for
\* them, by the monitors' functions.
GeofenceMonitor ==
  [OnGeofenceEntry |-> "OnVehicleEntersGeofence", OnGeofenceExit |-> "OnVehicleExitsGeofence"]

TemperatureMonitor ==
  [OnTemperatureAbove |-> "OnTemperatureExceedsThreshold",
   OnTemperatureBelow |-> "OnTemperatureBelowThreshold",
   OnHumidityAbove |-> "OnHumidityExceedsThreshold",
   OnDoorOpen |-> "OnDoorOpen", OnDoorClosed |-> "OnDoorClosed"]

\* WebhookHandler: a callback that is nil runs nothing, and the event is acknowledged.
Ran(event) ==
  LET registered == IF event.to = "geofence" THEN GeofenceMonitor ELSE TemperatureMonitor
      callback == HandleWebhook(event)
  IN IF callback \in DOMAIN registered THEN {registered[callback]} ELSE {}

\* HTTPHandler: the callback has run, and Samsara has got the answer or not.
Handle(post, acknowledged) ==
  LET ran == Ran(post.event)
  IN /\ heard' = heard \cup {<<post.incident, callback>> : callback \in ran}
     /\ runs' = [runs EXCEPT ![post.incident] = @ + Cardinality(ran)]
     /\ IF acknowledged THEN posts' = posts \ {post} /\ UNCHANGED <<lost, dropped>>
        ELSE Again(post) /\ lost' = [lost EXCEPT ![post.incident] = @ + 1]
     /\ UNCHANGED <<setups, incidents>>

\* The service is down, or the callback returns an error, as it does for an event
\* without a device: 500.
HandleFails(post) ==
  /\ Again(post)
  /\ UNCHANGED <<setups, incidents, heard, runs, lost>>

AlertsNext ==
  \/ Begin
  \/ Created
  \/ \E exists \in BOOLEAN : Failed(exists)
  \/ \E i \in DOMAIN objects : Edit(i)
  \/ \E t \in Triggers, a \in {0} \cup DOMAIN objects : Happens(t, a)
  \/ \E post \in posts : HandleFails(post) \/ \E ack \in BOOLEAN : Handle(post, ack)

AlertsSpec == AlertsInit /\ [][AlertsNext]_alertsVars

-----------------------------------------------------------------------------
(* Properties.                                                             *)

\* Who is told nil has all of it, alerts that refer to this address and this webhook,
\* for both directions; and what exists beyond that, at most a setup's length for
\* each error, is owed to errors (CreateFullGeofenceSetup,
\* CreateFullTemperatureMonitoringSetup).
SetupComplete ==
  /\ \A s \in complete :
       LET alerts == {i \in DOMAIN objects : objects[i].kind = "alert" /\
                        objects[i].hook = s[IF plan = "geofence" THEN 2 ELSE 1]}
       IN {objects[i].trigger : i \in alerts} =
            Watched[plan] \cup (IF plan = "climate" THEN {"dry"} ELSE {})
          /\ \A i \in alerts : objects[i].on = (IF plan = "geofence" THEN s[1] ELSE 0)
  /\ LET owned == Len(ids) + Cardinality(UNION {{s[n] : n \in DOMAIN s} : s \in complete})
     IN Len(objects) <= owned + 4 * failures

Proper ==
  [inside |-> {"OnVehicleEntersGeofence"}, outside |-> {"OnVehicleExitsGeofence"},
   hot |-> {"OnTemperatureExceedsThreshold"}, cold |-> {"OnTemperatureBelowThreshold"},
   damp |-> {"OnHumidityExceedsThreshold"}, dry |-> {}, open |-> {"OnDoorOpen"}]

\* What happens where a setup is complete and nothing was edited is heard, once Samsara
\* has nothing left to deliver, unless it gave up; and whatever is heard, by the callback
\* that it is for (HandleWebhook, handleAlertEvent, HTTPHandler).
Heard ==
  /\ \A h \in heard : h[2] \in Proper[incidents[h[1]].trigger]
  /\ \A n \in DOMAIN incidents :
       incidents[n].due /\ (\A post \in posts : post.incident # n) =>
         (\E h \in heard : h[1] = n) \/ n \in dropped

\* How often: once for the alert, once more for the native event of a geofence, and again
\* for every setup that was tried again and every acknowledgement that was lost.
HeardBounded == \A n \in DOMAIN incidents :
  LET each == IF incidents[n].on = 0 THEN 1 ELSE 2
  IN runs[n] <= each * begun + lost[n]

AlertsSound == SetupComplete /\ Heard /\ HeardBounded
=============================================================================
