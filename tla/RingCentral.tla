---------------------------- MODULE RingCentral ------------------------------
(***************************************************************************)
(* What the RingCentral client reads (client/ringcentral).  A call mints a *)
(* token of its own, then reads the account's call log or its phone        *)
(* numbers page by page, by page number, up to a cap, or opens a recording *)
(* whose address is checked before any token is.  Meanwhile calls are      *)
(* logged and deleted, so a record may move to another page; the stored    *)
(* credential may be revoked, and an app may lack the scope.               *)
(*                                                                         *)
(* RingCentral is external: a list of records, the newest first, cut into  *)
(* pages.  It may also be broken, and answer every page with the first.    *)
(***************************************************************************)
EXTENDS Integers, FiniteSets, SequencesExt

CONSTANTS
  PerPage,         \* records on a page
  maxCallLogPages, \* the cap on the call log's pages
  maxNumberPages,  \* the cap on the phone numbers' pages
  MaxListed,       \* bound: records listed at first
  MaxLogged,       \* bound: records that come during the call
  MaxDeleted       \* bound: records deleted during the call

RingAssumption ==
  /\ PerPage \in Nat \ {0} /\ maxCallLogPages \in Nat \ {0} /\ maxNumberPages \in Nat \ {0}
  /\ MaxListed \in Nat /\ MaxLogged \in Nat /\ MaxDeleted \in Nat

VARIABLES
  log,        \* RingCentral: the records, the newest first
  broken,     \* RingCentral pays no attention to the page it is asked for
  credential, \* "good", "revoked" (a JWT no longer accepted), or "no scope"
  asked,      \* "calls", "numbers", "recording", or "elsewhere": a recording's address
              \* that is not of RingCentral's media hosts
  verdict,    \* "vetting", "minting", "paging", "fetching", or what the call returned:
              \* "ok", "error", "ErrInvalidCredentials", "ErrInsufficientPermissions"
  page,       \* the page to ask for
  gathered,   \* the records so far
  Truncated,  \* the result says that pages are unread
  constant,   \* history: records listed during the whole reading
  logged,     \* history: how many came during it
  gone        \* history: how many were deleted during it

ringVars == <<log, broken, credential, asked, verdict, page, gathered, Truncated, constant,
  logged, gone>>

\* Addresses of recordings, the host as its labels; before the host there may be a user.
URIs ==
  LET media == {<<"ringcentral", "com">>, <<"media", "RingCentral", "com">>,
                <<"evilringcentral", "com">>, <<"ringcentral", "com", "example">>, <<"example">>}
  IN [Scheme : {"https", "http"}, user : {<<>>} \cup media, host : media]

\* In RingCentral's domain or below it, in any case of letters.
checkMediaURI(u) ==
  LET lower == [i \in DOMAIN u.host |-> IF u.host[i] = "RingCentral" THEN "ringcentral" ELSE u.host[i]]
  IN u.Scheme = "https" /\ IsSuffix(<<"ringcentral", "com">>, lower)

Address(u) == IF checkMediaURI(u) THEN "recording" ELSE "elsewhere"
Recordings == {Address(u) : u \in URIs}

\* CallLogQuery: windows, 0 for a time that was not given.
Windows == [From : 0..2, To : 0..2]
Readable(q) == q.From # 0 /\ q.To # 0 /\ q.To >= q.From

RingInit ==
  /\ \E n \in 0..MaxListed : log = [i \in 1..n |-> i]
  /\ broken \in BOOLEAN
  /\ credential \in {"good", "no scope"}
  /\ asked \in {"calls", "numbers"} \cup Recordings
  /\ asked \in Recordings => log = <<>> /\ ~broken
  /\ verdict = (IF asked = "numbers" THEN "minting" ELSE "vetting") /\ page = 1 /\ gathered = <<>> /\ Truncated = FALSE
  /\ constant = ToSet(log) /\ logged = 0 /\ gone = 0

account == <<log, broken, credential, constant, logged, gone>>

maxPages == IF asked = "calls" THEN maxCallLogPages ELSE maxNumberPages

-----------------------------------------------------------------------------
(* Pages of RingCentral.                                                   *)

TotalPages == (Len(log) + PerPage - 1) \div PerPage

Records(n) ==
  LET last == n * PerPage
  IN SubSeq(log, last - PerPage + 1, IF last > Len(log) THEN Len(log) ELSE last)

-----------------------------------------------------------------------------
(* What a record is read as.  Ids come as numbers or as text; what is not  *)
(* given is "".                                                            *)

Ids == {"", "7", "AbC"}
Forms == {"null", "number", "text"}
CanBe(id, form) == (form = "null" <=> id = "") /\ (form = "number" => id = "7")

flexID(id, form) == id

\* json.Number takes a number, also one in quotes, and fails the whole page otherwise.
Number(id, form) == IF id = "AbC" THEN "error" ELSE id

\* Payloads of RingCentral: a leg of a call, with the id of its own session and of the
\* telephony session all legs share, the start, and a recording if the call was long.
callLogRecord ==
  {r \in [ID : Ids, form : Forms, SessionID : {"", "1", "2"}, TelephonySessionID : {"", "8", "9"},
          StartTime : {"good", "bad"}, Recording : {"", "7"}] : CanBe(r.ID, r.form)}

toCallRecord(r) ==
  [ID |-> flexID(r.ID, r.form),
   SessionID |-> IF r.TelephonySessionID # "" THEN r.TelephonySessionID ELSE r.SessionID,
   StartTime |-> IF r.StartTime = "good" THEN "good" ELSE "zero",
   Recording |-> r.Recording]

\* A phone number, with the extension it rings, if any.
phoneNumberRecord ==
  {r \in [ID : Ids, form : Forms, Extension : {"none", "7", "AbC"}] : CanBe(r.ID, r.form)}

toPhoneNumber(r) ==
  [ID |-> Number(r.ID, r.form),
   ExtensionID |-> IF r.Extension = "none" THEN "" ELSE Number(r.Extension, "number")]

-----------------------------------------------------------------------------
(* The client.                                                             *)

Return(outcome) ==
  /\ verdict' = outcome
  /\ gathered' = IF outcome = "ok" THEN gathered ELSE <<>>
  /\ UNCHANGED <<account, asked, page, Truncated>>

\* Before a token is minted: FetchRecording checks the address (checkMediaURI),
\* ListCallLog the window.
Vet ==
  /\ verdict = "vetting"
  /\ \E q \in Windows :
     IF asked = "elsewhere" \/ (asked = "calls" /\ ~Readable(q)) THEN Return("error")
     ELSE verdict' = "minting" /\ UNCHANGED <<account, asked, page, gathered, Truncated>>

\* AccessToken: a JWT that is revoked is told from every other failure (isAuthRejection).
Mint ==
  /\ verdict = "minting"
  /\ IF credential = "revoked" THEN Return("ErrInvalidCredentials")
     ELSE /\ verdict' = IF asked = "recording" THEN "fetching" ELSE "paging"
          /\ UNCHANGED <<account, asked, page, gathered, Truncated>>

\* A network error, a 5xx, or an answer that does not decode.
Fail == verdict \in {"minting", "paging", "fetching"} /\ Return("error")

\* get: 401 for a token of a revoked credential, 403 for a scope the app lacks.
Refuse == verdict = "paging" /\ credential # "good" /\ Return("ErrInvalidCredentials")

\* fetchRecordingAt: 401 and 403 are told apart.
Fetch ==
  /\ verdict = "fetching"
  /\ Return(CASE credential = "revoked" -> "ErrInvalidCredentials"
             [] credential = "no scope" -> "ErrInsufficientPermissions"
             [] OTHER -> "ok")

\* RingCentral when broken names more pages than were read.
LastPage(records) == records = <<>> \/ (~broken /\ TotalPages <= page)

\* One page more.
ReadPage ==
  /\ verdict = "paging" /\ credential = "good"
  /\ LET records == Records(IF broken THEN 1 ELSE page)
     IN /\ gathered' = gathered \o records
        /\ verdict' = IF LastPage(records) \/ page = maxPages THEN "ok" ELSE "paging"
        /\ Truncated' = (asked = "calls" /\ ~LastPage(records) /\ page = maxPages)
        /\ page' = page + 1
  /\ UNCHANGED <<account, asked>>

ListCallLog == asked = "calls" /\ ReadPage
ListPhoneNumbers == asked = "numbers" /\ ReadPage

-----------------------------------------------------------------------------
(* RingCentral and the tenant, while the call is under way.                *)

client == <<broken, asked, verdict, page, gathered, Truncated>>

\* A call ends and is logged at the place of its start.
Logged ==
  /\ verdict = "paging" /\ logged < MaxLogged
  /\ \E i \in 1..(Len(log) + 1) : log' = InsertAt(log, i, MaxListed + logged + 1)
  /\ logged' = logged + 1
  /\ UNCHANGED <<client, credential, constant, gone>>

Deleted ==
  /\ verdict = "paging" /\ gone < MaxDeleted
  /\ \E i \in DOMAIN log :
       /\ log' = RemoveAt(log, i)
       /\ constant' = constant \ {log[i]}
  /\ gone' = gone + 1
  /\ UNCHANGED <<client, credential, logged>>

\* The JWT is revoked or expires.
Revoked ==
  /\ verdict \in {"minting", "paging", "fetching"} /\ credential # "revoked"
  /\ credential' = "revoked"
  /\ UNCHANGED <<client, log, constant, logged, gone>>

RingNext ==
  Vet \/ Mint \/ Fail \/ Refuse \/ Fetch \/ ListCallLog \/ ListPhoneNumbers \/ Logged \/ Deleted \/ Revoked

RingSpec == RingInit /\ [][RingNext]_ringVars

-----------------------------------------------------------------------------
(* Properties.                                                             *)

RingTypeOK ==
  /\ log \in Seq(1..(MaxListed + MaxLogged))
  /\ broken \in BOOLEAN /\ Truncated \in BOOLEAN
  /\ credential \in {"good", "revoked", "no scope"}
  /\ asked \in {"calls", "numbers"} \cup Recordings
  /\ verdict \in {"vetting", "minting", "paging", "fetching", "ok", "error",
       "ErrInvalidCredentials", "ErrInsufficientPermissions"}
  /\ page \in 1..(maxPages + 1)
  /\ gathered \in Seq(1..(MaxListed + MaxLogged))
  /\ constant \subseteq ToSet(log)
  /\ logged \in 0..MaxLogged /\ gone \in 0..MaxDeleted

Returned == verdict = "ok"

\* A window of the call log that is not called truncated has every call that was there
\* all the time, but for one per deleted record, which moves another to a page that has
\* been read (ListCallLog).
CompleteUnlessSaid == Returned /\ ~Truncated /\ asked = "calls" =>
  Cardinality(constant \ ToSet(gathered)) <= gone

\* Truncated is said only where there is more, or RingCentral says so (ListCallLog).
TruncatedMeansMore == Returned /\ Truncated => broken \/ Len(log) > Len(gathered)

\* A record is returned twice only when another came and moved it to the next page, so
\* a caller that stores by ID is not misled (CallRecord.ID).
RepeatsOwed == ~broken => Len(gathered) - Cardinality(ToSet(gathered)) <= logged

\* "Reconnect" is said only to a tenant whose credential or app is refused, for a
\* recording only when it helps; pages that were read before an error are not returned
\* as the whole (get, AccessToken, fetchRecordingAt).
ReconnectOwed ==
  /\ verdict = "ErrInvalidCredentials" =>
       credential # "good" /\ (asked = "recording" => credential = "revoked")
  /\ verdict = "ErrInsufficientPermissions" => asked = "recording" /\ credential = "no scope"
  /\ verdict \in {"error", "ErrInvalidCredentials"} => gathered = <<>>

\* Only RingCentral's own hosts are asked with a token, whoever is named before the "@"
\* (checkMediaURI).
MediaVetted == verdict = "fetching" =>
  \A u \in URIs : Address(u) = asked =>
    u.Scheme = "https" /\ u.host \in {<<"ringcentral", "com">>, <<"media", "RingCentral", "com">>}

\* What a record is read as (toCallRecord, toPhoneNumber, flexID).  An id is the same
\* however it is written, and no two are confused.  Legs of one call are grouped if both
\* tell their telephony session, and legs of different calls only if sessions of one
\* kind are taken for the other.  A start that cannot be read costs its record nothing
\* else.  An id that is no number costs all phone numbers of the page, and no call.
RecordsRead ==
  /\ \A a, b \in callLogRecord :
       LET x == toCallRecord(a)
           y == toCallRecord(b)
       IN /\ x.ID = y.ID <=> a.ID = b.ID
          /\ a.TelephonySessionID # "" /\ b.TelephonySessionID # "" =>
               (x.SessionID = y.SessionID <=> a.TelephonySessionID = b.TelephonySessionID)
          /\ a.TelephonySessionID # "" /\ b.TelephonySessionID = "" => x.SessionID # y.SessionID
          /\ [a EXCEPT !.StartTime = "good"] = b => [x EXCEPT !.StartTime = "good"] = y
  /\ \A a \in phoneNumberRecord :
       LET number == toPhoneNumber(a)
       IN /\ "error" \in {number.ID, number.ExtensionID} <=> "AbC" \in {a.ID, a.Extension}
          /\ a.Extension = "none" <=> number.ExtensionID = ""

RingSound ==
  MediaVetted /\ (RingInit /\ asked = "elsewhere" => RecordsRead) /\
  RingTypeOK /\ CompleteUnlessSaid /\ TruncatedMeansMore /\ RepeatsOwed /\ ReconnectOwed

\* "returns every phone number on the company's RingCentral account, following
\* pagination" (numbers.go:71).  Refuted: beyond the cap the rest is dropped without a
\* word (ListPhoneNumbers).
EveryNumber == Returned /\ asked = "numbers" => Cardinality(constant \ ToSet(gathered)) <= gone
=============================================================================
