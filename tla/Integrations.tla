---------------------------- MODULE Integrations -----------------------------
(***************************************************************************)
(* What a service exchanges with other parties' systems: addresses checked *)
(* by USPS (UspsToken), the toll files of EZPass (TollFiles), positions,   *)
(* alerts and single calls of Samsara (SamsaraFeed, SamsaraAlerts,         *)
(* SamsaraCalls), the calls of                                             *)
(* RingCentral (RingCentral), the routes of HERE (TruckRoute), the fuel    *)
(* cards of Relay (FuelCards), the places and roads of HERE and Google     *)
(* (MapVendors), companies checked with FMCSA (Carriers), the mail it      *)
(* hands to backend-mail (Mail), what it orders once of tasks, of readers  *)
(* of documents and of mail providers (Orders), and what it declares of    *)
(* itself to the rule service RMS (Registration).                          *)
(* They share no state and no step, so a behaviour is one of the part      *)
(* under study, the others resting where they started.                     *)
(***************************************************************************)
EXTENDS Clients

CONSTANTS
  Crossings, Layouts, headerScanDepth, MaxTruth, MaxText,
  Vehicles, PageSize, ListSize, MaxChanges, MaxRecords,
  Plans, MaxSetups, MaxIncidents, MaxTries,
  PerPage, maxCallLogPages, maxNumberPages, MaxListed, MaxLogged, MaxDeleted,
  Sections, MaxSections, MaxLegs, Lines, Precision,
  Roads, Trucks, maxIntermediates, Stacks, callerChainDepth, MaxLookups, MaxKeyChanges,
  Dots, Numbers, Within, Limit, MaxCensus,
  Fleet, MaxCalls, MaxMoment

VARIABLES
  part,                                                              \* the part under study
  truth, file, pool, most,                                           \* TollFiles
  feed, records, added, key, kind, phase, at, data, cursor, store, active, first, crashes,
  stayed, small, blank, refused,                                            \* SamsaraFeed
  objects, plan, underWay, ids, begun, complete, failures, edited, incidents, posts, heard,
  runs, lost, dropped,                                                      \* SamsaraAlerts
  log, broken, credential, asked, verdict, page, gathered, Truncated, constant, logged,
  gone,                                                              \* RingCentral
  route, wanted, stage, legs, nav, bill, answers, text,              \* TruckRoute
  mapsKey, lookup, context, lookups, callLog,                        \* MapVendors
  census, upstream, inquiry, finding, censusChanges,                 \* Carriers
  topic, account, fleet, moment, object, webhooks, secret, requests, tracked,
  post                                                               \* SamsaraCalls

Toll == INSTANCE TollFiles
Feed == INSTANCE SamsaraFeed
Alerts == INSTANCE SamsaraAlerts
Calls == INSTANCE RingCentral
Routes == INSTANCE TruckRoute
Maps == INSTANCE MapVendors
Companies == INSTANCE Carriers
Single == INSTANCE SamsaraCalls

ASSUME IntegrationsAssumption ==
  /\ Usps!UspsAssumption /\ Toll!TollAssumption /\ Feed!FeedAssumption
  /\ Alerts!AlertsAssumption /\ Rms!RegistrationAssumption
  /\ Calls!RingAssumption /\ Routes!RouteAssumption /\ Mails!MailAssumption
  /\ Cards!FuelAssumption /\ Maps!MapAssumption /\ Companies!CarriersAssumption
  /\ Once!OrdersAssumption /\ Single!SamsaraCallsAssumption

tollVars == <<truth, file, pool, most>>
feedVars ==
  <<feed, records, added, key, kind, phase, at, data, cursor, store, active, first, crashes,
    stayed, small, blank, refused>>
alertsVars ==
  <<objects, plan, underWay, ids, begun, complete, failures, edited, incidents, posts, heard,
    runs, lost, dropped>>
callsVars ==
  <<log, broken, credential, asked, verdict, page, gathered, Truncated, constant, logged, gone>>
routesVars == <<route, wanted, stage, legs, nav, bill, answers, text>>
mapsVars == <<mapsKey, lookup, context, lookups, callLog>>
companiesVars == <<census, upstream, inquiry, finding, censusChanges>>

singleVars ==
  <<topic, account, fleet, moment, object, webhooks, secret, requests, tracked, post>>

samsara == <<feedVars, alertsVars, singleVars>>
lists == <<tollVars, callsVars, routesVars>>
told == <<rmsVars, mailVars, cardsVars>>
vendors == <<mapsVars, companiesVars, ordersVars>>
vars == <<part, uspsVars, samsara, lists, told, vendors>>

Init ==
  /\ part \in {"usps", "toll", "feed", "alerts", "rms", "calls", "routes", "mail", "cards", "maps",
              "companies", "orders", "single"}
  /\ \/ part = "routes"
     \/ wanted = "line" /\ text = [line |-> CHOOSE line \in Lines : TRUE, came |-> 0]
  /\ \/ part = "mail"
     \/ /\ medium = "mail" /\ messages = <<"good">>
        /\ within = FALSE /\ guaranteed = FALSE /\ ownIDs = FALSE
  /\ Usps!Init /\ Toll!TollInit /\ Feed!FeedInit /\ Alerts!AlertsInit
  /\ Rms!RegistrationInit /\ (part # "rms" => healthy = [i \in Rms!Deployments |-> TRUE])
  /\ (part # "alerts" => plan = CHOOSE p \in Plans : TRUE)
  /\ Calls!RingInit /\ (part # "calls" => log = <<>> /\ ~broken /\ credential = "good" /\ asked = "calls")
  /\ Routes!RouteInit /\ Mails!MailInit
  /\ Cards!FuelInit /\ (part # "cards" => using = "list" /\ covered)
  /\ Maps!MapInit /\ (part # "maps" => mapsKey = [vendor |-> "here", state |-> "good", changes |-> 0])
  /\ Companies!CarriersInit
  /\ (part # "companies" => census = CHOOSE c \in Companies!Censuses : TRUE)
  /\ Once!OrdersInit /\ (part # "orders" => user.client = "tasks")
  /\ Single!SamsaraCallsInit /\ (part # "single" => topic = "alert" /\ account.wrapped)

\* What rests while a step of a part is taken.
InUsps == part = "usps" /\ UNCHANGED <<part, samsara, lists, told, vendors>>
InToll == part = "toll" /\ UNCHANGED <<part, uspsVars, samsara, callsVars, routesVars, told, vendors>>
InFeed == part = "feed" /\ UNCHANGED <<part, uspsVars, alertsVars, singleVars, lists, told, vendors>>
InAlerts == part = "alerts" /\ UNCHANGED <<part, uspsVars, feedVars, singleVars, lists, told, vendors>>
InSingle == part = "single" /\ UNCHANGED <<part, uspsVars, feedVars, alertsVars, lists, told, vendors>>
InRms == part = "rms" /\ UNCHANGED <<part, uspsVars, samsara, lists, mailVars, cardsVars, vendors>>
InMail == part = "mail" /\ UNCHANGED <<part, uspsVars, samsara, lists, rmsVars, cardsVars, vendors>>
InCards == part = "cards" /\ UNCHANGED <<part, uspsVars, samsara, lists, rmsVars, mailVars, vendors>>
InCalls == part = "calls" /\ UNCHANGED <<part, uspsVars, samsara, tollVars, routesVars, told, vendors>>
InRoutes == part = "routes" /\ UNCHANGED <<part, uspsVars, samsara, tollVars, callsVars, told, vendors>>
InMaps == part = "maps" /\ UNCHANGED <<part, uspsVars, samsara, lists, told, companiesVars, ordersVars>>
InCompanies == part = "companies" /\ UNCHANGED <<part, uspsVars, samsara, lists, told, mapsVars, ordersVars>>
InOrders == part = "orders" /\ UNCHANGED <<part, uspsVars, samsara, lists, told, mapsVars, companiesVars>>

Next ==
  \/ InUsps /\ Usps!Next
  \/ InToll /\ Toll!TollNext
  \/ InFeed /\ Feed!FeedNext
  \/ InAlerts /\ Alerts!AlertsNext
  \/ InRms /\ Rms!RegistrationNext
  \/ InCalls /\ Calls!RingNext
  \/ InRoutes /\ Routes!RouteNext
  \/ InMail /\ Mails!MailNext
  \/ InCards /\ Cards!FuelNext
  \/ InMaps /\ Maps!MapNext
  \/ InCompanies /\ Companies!CarriersNext
  \/ InOrders /\ Once!OrdersNext
  \/ InSingle /\ Single!SamsaraCallsNext

Spec == Init /\ [][Next]_vars

(* A goroutine goes on when it can; an exchange ends by its timeout; Go's  *)
(* mutex is handed to whoever waits for long; timers fire.                 *)
Fairness ==
  /\ \A c \in Callers : SF_uspsVars(InUsps /\ Usps!Proceed(c))
  /\ \A i \in Rms!Deployments : WF_rmsVars(InRms /\ Rms!Proceed(i))

FairSpec == Spec /\ Fairness

-----------------------------------------------------------------------------
(* Properties, stated where they belong.                                   *)

\* The token of USPS (token, doRequest): it does not expire on its way, one revocation
\* costs nobody the request, and the callers share fetches.
TokenSound == part = "usps" => Usps!TokenSound /\ Usps!DenialsOwed /\ Usps!FetchesOwed

\* Toll files (Normalize): rows are read as they are meant, whatever the layout, and
\* no crossing is charged twice or not at all.
TollSound == part = "toll" => Toll!TollSound

\* Routes (CalculateMultiStopRoute, buildResultFromRoute, DecodeFlexiblePolyline): the
\* legs are the whole way between their stops, and the manoeuvres follow each other.
RouteSound == part = "routes" => Routes!RouteSound

\* Places and roads (Geocode, BuildTruckRoute, recordCall): what a vendor refused, could
\* not say or does not have is told apart, and every call is told of where it came from.
MapSound == part = "maps" => Maps!MapSound

\* Companies (CheckCompanyByMC, VerifyCompany): who may operate is turned away only for
\* what FMCSA said, or because a search by its MC number did not list it.
CompaniesSound == part = "companies" => Companies!CarriersSound

\* What is made of other systems' files and answers.
ParsedSound == TollSound /\ RouteSound /\ MapSound /\ CompaniesSound

\* Samsara (fetchStatsFeedPage, GetAllVehiclesLocations, HTTPHandler, doRequest): positions
\* reach the store in each vehicle's order and without a gap, what happens at a place with a complete
\* setup is heard of, and of overlapping calls everyone is told what became of its own.
SamsaraSound ==
  /\ part = "feed" => Feed!FeedSound
  /\ part = "alerts" => Alerts!AlertsSound
  /\ part = "single" => Single!SamsaraCallsSound

\* RingCentral (ListCallLog, ListPhoneNumbers): a window that is not called truncated
\* has the calls that were there all the time, but for one per deleted record.
RingSound == part = "calls" => Calls!RingSound

\* Fuel cards (ListTransactions, VerifyWebhookSignature): between webhooks and windows no
\* fueling is missed, whatever becomes of the key.
FuelingSound == part = "cards" => Cards!FuelingSound

\* What is read of other systems, page by page or as it happens.
ReadSound == SamsaraSound /\ RingSound /\ FuelingSound

\* Declarations (registerJSON, RegisterCapabilities): what a call returns is so, and a
\* later instance's declaration is overwritten only by a call it overlapped.
RegistrationSound == part = "rms" => Rms!RegistrationSound

\* Mail (SendWithOptions, SendBatch, notify's Send): a mail shares the fate of its
\* transaction, and a guaranteed one is lost by no swallowed error.
MailSound == part = "mail" => Mails!MailSound

\* Fuel cards (GetByCompanyID, doRequestTo): a good key is removed only on old news, and
\* what is created twice follows an error that does not say what Relay did.
CardsSound == part = "cards" => Cards!CardsSound

\* What is asked once (CreateForValidation, Process, send): what a caller is told was done
\* was, and what is done twice, late or unknown to it is owed to an error it had.
OrdersSound == part = "orders" => Once!OrdersSound

\* What is written to other services.
WrittenSound == RegistrationSound /\ MailSound /\ CardsSound /\ OrdersSound

\* Every call of USPS's client and every registration ends; each is made once, so it
\* is enough that none is under way in the end (doRequest, registerJSON).
EveryoneAnswered == <>[](/\ part = "usps" => Usps!AllAnswered
                         /\ part = "rms" => Rms!AllReturned)

-----------------------------------------------------------------------------
(* A small instance.                                                       *)

\* A crossing without a toll, and one at midnight.
MCCrossings == {[day |-> 1, clock |-> 5, cents |-> 0], [day |-> 1, clock |-> 0, cents |-> 2]}

\* The second has a spacer, a column twice, and one named like a label of the cover.
MCLayouts ==
  {<<"Post Date", "Exit Date", "Exit Time", "Toll $", "Mi">>,
   <<"Account", "Exit Time", "Toll $", "Toll $", "", "Exit Date", "Post Date">>}

\* A drive, a ferry, and a section HERE says little of.
MCSections ==
  {[summary |-> TRUE, length |-> 3, base |-> 2, duration |-> 3, points |-> 4, offsets |-> <<0, 1, 4>>],
   [summary |-> TRUE, length |-> 1, base |-> 4, duration |-> 4, points |-> 3, offsets |-> <<-1, 2>>],
   [summary |-> FALSE, length |-> 2, base |-> 2, duration |-> 2, points |-> 0, offsets |-> <<0>>]}

\* None, two or three points, of one to four characters a number.
MCLines ==
  {<<>>, <<<<0, 0>>, <<-1, 20>>, <<40, -20000>>>>, <<<<16, -16, 5>>, <<17, 0, -700>>>>}

Road(length, trucks, height, ferry) ==
  [length |-> length, trucks |-> trucks, height |-> height, ferry |-> ferry]

\* A short one no truck may take, a low one, a ferry, and the long way round.
MCRoads ==
  {Road(1, FALSE, 1, FALSE), Road(2, TRUE, 1, FALSE), Road(3, TRUE, 2, TRUE), Road(4, TRUE, 2, FALSE)}

\* Frames of the package itself ("here"), of middleware ("m") and of callers.
MCStacks ==
  {<<"here">>, <<"here", "here", "m", "a">>, <<"here", "here", "m", "b">>, <<"m", "here", "a", "c">>}

\* A search for MC number 1 finds 12 as well.
MCWithin == {<<1, 12>>}

\* An attachment, one without a name, one without content.
MCFiles ==
  {[name |-> "a", content |-> "x"], [name |-> "", content |-> "x"], [name |-> "a", content |-> ""]}
=============================================================================
