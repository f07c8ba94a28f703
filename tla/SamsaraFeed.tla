---------------------------- MODULE SamsaraFeed -----------------------------
(***************************************************************************)
(* What the Samsara client reads (client/samsara).  The feed of vehicle    *)
(* positions is followed by a cursor: a poll takes page after page until   *)
(* there is none left, and any error throws away what it has gathered; the *)
(* service stores the positions and then the cursor.  Lists are read       *)
(* either page by page or by their first page only.  A key that Samsara    *)
(* refuses is an AuthError, on which the integration is deactivated.       *)
(*                                                                         *)
(* Samsara keeps the feed as a log and a list by increasing ids; cursors   *)
(* are places in them.                                                     *)
(***************************************************************************)
EXTENDS Integers, FiniteSets, SequencesExt

CONSTANTS
  Vehicles,
  PageSize,    \* of Samsara's feed
  ListSize,    \* of Samsara's lists
  MaxChanges,  \* bound: readings of the feed
  MaxRecords   \* bound: records ever listed

FeedAssumption ==
  PageSize \in Nat \ {0} /\ ListSize \in Nat \ {0} /\ MaxChanges \in Nat /\ MaxRecords \in Nat

VARIABLES
  feed,     \* Samsara: the readings, each a vehicle's position or fuel level
  records,  \* Samsara: ids of the records of a list (drivers, addresses, vehicles)
  added,    \* Samsara: records ever added
  key,      \* Samsara accepts the API key
  kind,     \* the latest call: "feed", or a list's, by pages or by its first
  phase,    \* "idle", "calling", what it returned ("data", "error", "AuthError"),
            \* or "stored": the positions are, the cursor is not yet
  at,       \* its cursor; Start is the empty one
  data,     \* what it has gathered
  cursor,   \* the service: the stored cursor
  store,    \* the service: the stored positions, as entries
  active,   \* the service: the integration is active
  first,    \* history: the length of the feed when it was last asked without a cursor
  crashes,  \* history: the service stopped between storing positions and cursor
  stayed,   \* history: records listed during the whole call
  small,    \* history: the list fitted into one page during the whole call
  blank,    \* history: during the call a page had no cursor though more follow
  refused   \* history: what Samsara has refused: "nothing", "key", "license"

feedVars == <<feed, records, added, key, kind, phase, at, data, cursor, store, active, first,
  crashes, stayed, small, blank, refused>>

Start == -1

FirstPages == {"stats", "period"}
Kinds == {"feed", "addresses", "drivers", "hours", "snapshot"} \cup FirstPages

FeedInit ==
  /\ feed = <<>> /\ records = {} /\ added = 0 /\ key = TRUE
  /\ kind = "feed" /\ phase = "idle" /\ at = Start /\ data = <<>>
  /\ cursor = Start /\ store = <<>> /\ active = TRUE
  /\ first = Start /\ crashes = 0 /\ stayed = {} /\ small = TRUE /\ blank = FALSE
  /\ refused = "nothing"

samsara == <<feed, records, added, key>>
service == <<cursor, store, active, crashes>>

-----------------------------------------------------------------------------
(* Pages.                                                                  *)

\* A reading as the feed has it, and an entry as the client returns it.
Sample(v, gps) == [vehicle |-> v, gps |-> gps]
Location(position, fuel) == [position |-> position, fuel |-> fuel]

LastOf(v, gps) == {i \in DOMAIN feed : feed[i] = Sample(v, gps) /\
  \A j \in DOMAIN feed : j > i => feed[j] # feed[i]}

\* The readings of the page after c; without a cursor, every vehicle's latest.
Readings(c) ==
  IF c = Start THEN UNION {LastOf(v, gps) : v \in Vehicles, gps \in BOOLEAN}
  ELSE {i \in DOMAIN feed : i > c /\ i <= c + PageSize}

EndCursor(c) == IF c = Start \/ c + PageSize > Len(feed) THEN Len(feed) ELSE c + PageSize
HasNextPage(c) == EndCursor(c) < Len(feed)

\* A vehicle of a page: its positions, the oldest first, each an entry with the latest fuel
\* level of the page (0: none); a vehicle without a position has no entry.
EntriesOf(v, c) ==
  LET mine(gps) == {i \in Readings(c) : feed[i] = Sample(v, gps)}
      positions == SetToSortSeq(mine(TRUE), <)
      latest == IF mine(FALSE) = {} THEN 0 ELSE Max(mine(FALSE))
  IN [n \in DOMAIN positions |-> Location(positions[n], latest)]

\* fetchStatsFeedPage: vehicle by vehicle, in the order in which Samsara has them.
Orders == SetToSeqs(Vehicles)
Entries(c, order) == FlattenSeq([n \in DOMAIN order |-> EntriesOf(order[n], c)])

\* A page of a list after c, by id.
Listed(c) == LET rest == {r \in records : r > c}
             IN {r \in rest : Cardinality({s \in rest : s < r}) < ListSize}

\* The answer; the cursor may be missing though there are more.
Page(c, without) ==
  LET more == Cardinality({r \in records : r > c}) > ListSize
  IN [data |-> SetToSortSeq(Listed(c), <), hasNextPage |-> more,
      endCursor |-> IF more /\ ~without THEN Max(Listed(c)) ELSE Start]

ListAddresses(c, without) == Page(c, without)
fetchVehicleStatsPage(c, without) == Page(c, without)

-----------------------------------------------------------------------------
(* The client.                                                             *)

Begin(k) ==
  /\ phase = "idle" /\ active
  /\ kind' = k /\ phase' = "calling"
  /\ at' = IF k = "feed" THEN cursor ELSE Start
  /\ data' = <<>>
  /\ stayed' = IF k = "feed" THEN {} ELSE records
  /\ small' = (k = "feed" \/ Cardinality(records) <= ListSize)
  /\ blank' = FALSE
  /\ UNCHANGED <<samsara, service, first, refused>>

Calling(k) == kind = k /\ phase = "calling" /\ key

\* (broken) The result holds the last page.
FeedPageAlone(order) ==
  /\ Calling("feed")
  /\ data' = Entries(at, order)
  /\ at' = EndCursor(at)
  /\ phase' = IF HasNextPage(at) THEN "calling" ELSE "data"
  /\ first' = IF at = Start THEN Len(feed) ELSE first
  /\ UNCHANGED <<samsara, service, kind, stayed, small, blank, refused>>

\* GetVehicleStatsFeed: one page more.
FeedPage(order) ==
  /\ Calling("feed")
  /\ data' = data \o Entries(at, order)
  /\ at' = EndCursor(at)
  /\ phase' = IF HasNextPage(at) THEN "calling" ELSE "data"
  /\ first' = IF at = Start THEN Len(feed) ELSE first
  /\ UNCHANGED <<samsara, service, kind, stayed, small, blank, refused>>

\* One page more of a list; a missing cursor ends it, or is taken for the first page's.
NextPage(page, needsCursor) ==
  LET more == page.hasNextPage /\ (needsCursor => page.endCursor # Start)
  IN /\ data' = data \o page.data
     /\ at' = IF more THEN page.endCursor ELSE at
     /\ phase' = IF more THEN "calling" ELSE "data"
     /\ blank' = (blank \/ (page.hasNextPage /\ page.endCursor = Start))
     /\ UNCHANGED <<samsara, service, kind, first, stayed, small, refused>>

GetAllAddresses(without) == Calling("addresses") /\ NextPage(ListAddresses(at, without), FALSE)

GetVehicleStatsSnapshot(without) ==
  Calling("snapshot") /\ NextPage(fetchVehicleStatsPage(at, without), TRUE)

GetHOSLogs(without) == Calling("hours") /\ NextPage(Page(at, without), TRUE)

ListDrivers(without) == Calling("drivers") /\ NextPage(Page(at, without), TRUE)

\* The pagination of the answer is not looked at.
FirstPage ==
  /\ data' = SetToSortSeq(Listed(Start), <)
  /\ phase' = "data"
  /\ UNCHANGED <<samsara, service, kind, at, first, stayed, small, blank, refused>>

GetAllVehiclesStats == Calling("stats") /\ FirstPage
GetAllVehiclesLocationsWithTime == Calling("period") /\ FirstPage

\* doRequest: 401 or 403; hours of service need a license besides the key (GetHOSLogs).
Refuse ==
  /\ phase = "calling" /\ (~key \/ kind = "hours")
  /\ data' = <<>>
  /\ phase' = "AuthError"
  /\ refused' = IF key THEN "license" ELSE "key"
  /\ UNCHANGED <<samsara, service, kind, at, first, stayed, small, blank>>

\* Any other error, of the request or of decoding its answer: nothing is returned of
\* the pages before.
Fail ==
  /\ phase = "calling"
  /\ data' = <<>>
  /\ phase' = "error"
  /\ UNCHANGED <<samsara, service, kind, at, first, stayed, small, blank, refused>>

-----------------------------------------------------------------------------
(* The service that uses it, and Samsara.                                  *)

\* Nothing is under way.
Rest ==
  /\ phase' = "idle" /\ data' = <<>> /\ at' = Start
  /\ kind' = "feed" /\ stayed' = {} /\ small' = TRUE /\ blank' = FALSE

\* Lists are used and forgotten, errors tried again later.
Forget ==
  /\ phase = "error" \/ (phase = "data" /\ kind # "feed")
  /\ Rest
  /\ UNCHANGED <<samsara, service, first, refused>>

\* IsAuthError: the integration is deactivated, until the carrier renews the key.
Deactivate ==
  /\ phase = "AuthError"
  /\ active' = FALSE
  /\ Rest
  /\ UNCHANGED <<samsara, cursor, store, first, crashes, refused>>

Renew ==
  /\ ~active
  /\ key' = TRUE /\ active' = TRUE /\ refused' = "nothing"
  /\ UNCHANGED <<feed, records, added, kind, phase, at, data, cursor, store, first, crashes,
       stayed, small, blank>>

StorePositions ==
  /\ phase = "data" /\ kind = "feed"
  /\ store' = store \o data
  /\ phase' = "stored"
  /\ UNCHANGED <<samsara, kind, at, data, cursor, active, first,
       crashes, stayed, small, blank, refused>>

StoreCursor ==
  /\ phase = "stored"
  /\ cursor' = at
  /\ Rest
  /\ UNCHANGED <<samsara, store, active, first, crashes, refused>>

Crash ==
  /\ phase = "stored" /\ crashes < 1
  /\ crashes' = crashes + 1
  /\ Rest
  /\ UNCHANGED <<samsara, cursor, store, active, first, refused>>

\* The feed and the lists do not read each other: one of them is filled, and once the feed is,
\* only it is asked for (a bound).
Reading(v, gps) ==
  /\ Len(feed) < MaxChanges /\ added = 0
  /\ feed' = Append(feed, Sample(v, gps))
  /\ UNCHANGED <<records, added, key, service, kind, phase, at, data, first,
       stayed, small, blank, refused>>

Add ==
  /\ added < MaxRecords /\ feed = <<>>
  /\ added' = added + 1
  /\ records' = records \cup {added'}
  /\ small' = (small /\ (kind = "feed" \/ Cardinality(records') <= ListSize))
  /\ UNCHANGED <<feed, key, service, kind, phase, at, data, first, stayed, blank, refused>>

Delist(r) ==
  /\ records' = records \ {r}
  /\ stayed' = stayed \ {r}
  /\ UNCHANGED <<feed, added, key, service, kind, phase, at, data, first,
       small, blank, refused>>

Revoke ==
  /\ key
  /\ key' = FALSE
  /\ UNCHANGED <<feed, records, added, service, kind, phase, at, data, first,
       stayed, small, blank, refused>>

FeedNext ==
  \/ \E k \in IF feed = <<>> THEN Kinds ELSE {"feed"} : Begin(k)
  \/ \E order \in Orders : FeedPage(order)
  \/ GetAllVehiclesStats \/ GetAllVehiclesLocationsWithTime \/ Refuse \/ Fail
  \/ \E without \in IF blank THEN {FALSE} ELSE BOOLEAN :
       \/ GetAllAddresses(without) \/ GetVehicleStatsSnapshot(without)
       \/ GetHOSLogs(without) \/ ListDrivers(without)
  \/ Forget \/ Deactivate \/ Renew \/ StorePositions \/ StoreCursor \/ Crash
  \/ \E v \in Vehicles, gps \in BOOLEAN : Reading(v, gps)
  \/ Add \/ Revoke
  \/ \E r \in records : Delist(r)

FeedSpec == FeedInit /\ [][FeedNext]_feedVars

-----------------------------------------------------------------------------
(* Properties.                                                             *)

Stored == {store[n].position : n \in DOMAIN store}

\* Between the first poll and the stored cursor no position is missing, however many
\* polls failed on some page (GetVehicleStatsFeed).
NoPositionLost ==
  \A i \in DOMAIN feed : feed[i].gps /\ first < i /\ i <= cursor => i \in Stored

\* They are stored once, and those of one vehicle in order, unless the service stopped
\* between storing them and the cursor.  Two vehicles' are not: a page has the one's before
\* the other's (fetchStatsFeedPage).
InOrder ==
  crashes = 0 =>
    \A m, n \in DOMAIN store : m < n =>
      LET earlier == store[m].position
          later == store[n].position
      IN earlier # later /\ (feed[earlier].vehicle = feed[later].vehicle => earlier < later)

\* A list that is read page by page has everything that was listed all the while, once;
\* one read by its first page has it if the list fitted into one.  Where a cursor was
\* missing, the addresses are begun again and the others end there, unseen.
ListComplete == phase = "data" /\ kind # "feed" =>
  /\ (IF kind \in FirstPages THEN small ELSE blank => kind = "addresses") =>
       stayed \subseteq Range(data)
  /\ ~blank => IsInjective(data)

\* The integration is deactivated only if Samsara refused the key, or a license that the
\* hours of service need: the client does not tell the two apart (AuthError, GetHOSLogs).
DeactivatedOnRefusal == ~active => refused \in {"key", "license"}

FeedSound == NoPositionLost /\ InOrder /\ ListComplete /\ DeactivatedOnRefusal
=============================================================================
