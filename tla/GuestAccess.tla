----------------------------- MODULE GuestAccess ----------------------------
(***************************************************************************)
(* Guests (guest): a request with a guest token is its share link's, for   *)
(* as long as Redis has the link.  The first access of a link from an      *)
(* address in a while is logged: the middleware sets a key that expires,   *)
(* and whoever has set it publishes the entry.  The directive admits the   *)
(* guest to the one resource of the link, within a rate limit.             *)
(*                                                                         *)
(* One link and one address; the limiter's answer is a choice here (see    *)
(* RateLimit).  Times are ages, counted up to Old.                         *)
(***************************************************************************)
EXTENDS Integers

CONSTANTS
  Requests,   \* requests at a time
  Resources,
  SharedOne,  \* the resource of the link
  Debounce    \* lifetime of the access_seen key, in ticks

GuestAssumption == SharedOne \in Resources /\ Debounce \in Nat \ {0}

VARIABLES
  link,      \* Redis has the share link
  left,      \* what is left of the access_seen key; 0: there is none
  step,      \* a request: "idle", "known", "logging", or its actor once resolved
  made,      \* the age of the entry a request is to publish (AccessedAt)
  answer,    \* what a request was answered
  access,    \* history: age of the latest guest's access
  entry,     \* history: age of the latest entry of the log
  fault,     \* history: age of the latest failure of SETNX or the publish
  closest    \* history: the shortest time between two entries

guestVars == <<link, left, step, made, answer, access, entry, fault, closest>>

Old == 2 * Debounce
Older(age) == IF age < Old THEN age + 1 ELSE Old
Actors == {"user", "guest", "nobody"}

GuestInit ==
  /\ link = TRUE /\ left = 0
  /\ step = [r \in Requests |-> "idle"]
  /\ made = [r \in Requests |-> 0]
  /\ answer = [r \in Requests |-> "none"]
  /\ access = Old /\ entry = Old /\ fault = Old /\ closest = Old

Advance(r, next) == step' = [step EXCEPT ![r] = next]

\* IdentifyUser, then Middleware: a known user passes; a guest is one whose token can
\* be read (valid) and whose link Redis still has and can tell.
Arrive(r, user, valid, reachable) ==
  LET guest == ~user /\ valid /\ reachable /\ link
  IN /\ step[r] = "idle"
     /\ Advance(r, IF user THEN "user" ELSE IF guest THEN "known" ELSE "nobody")
     /\ answer' = [answer EXCEPT ![r] = "none"]
     /\ access' = IF guest THEN 0 ELSE access
     /\ UNCHANGED <<link, left, made, entry, fault, closest>>

\* (broken) Redis keeps the key's old value and renews its lifetime.
SetSeenRenews(r) ==
  /\ step[r] = "known"
  /\ left' = Debounce
  /\ made' = [made EXCEPT ![r] = 0]
  /\ Advance(r, IF left = 0 THEN "logging" ELSE "guest")
  /\ UNCHANGED <<link, answer, access, entry, fault, closest>>

\* maybeLogAccess: SETNX, for three minutes; whoever finds the key is done.
SetSeen(r) ==
  /\ step[r] = "known"
  /\ left' = IF left = 0 THEN Debounce ELSE left
  /\ made' = [made EXCEPT ![r] = 0]
  /\ Advance(r, IF left = 0 THEN "logging" ELSE "guest")
  /\ UNCHANGED <<link, answer, access, entry, fault, closest>>

\* Its error: nothing is logged; the key may have been set all the same.
SetSeenFails(r, set) ==
  /\ step[r] = "known"
  /\ left' = IF set /\ left = 0 THEN Debounce ELSE left
  /\ fault' = 0
  /\ Advance(r, "guest")
  /\ UNCHANGED <<link, made, answer, access, entry, closest>>

\* The entry is published, or the error is logged and the request goes on.
Publish(r) ==
  /\ step[r] = "logging"
  /\ entry' = made[r]
  /\ closest' = IF entry - made[r] < closest THEN entry - made[r] ELSE closest
  /\ Advance(r, "guest")
  /\ UNCHANGED <<link, left, made, answer, access, fault>>

PublishFails(r) ==
  /\ step[r] = "logging"
  /\ fault' = 0
  /\ Advance(r, "guest")
  /\ UNCHANGED <<link, left, made, answer, access, entry, closest>>

\* Directive: @authGuest(resource); the limiter fails open.
Directive(r, resource, allowed) ==
  /\ step[r] \in Actors
  /\ answer' = [answer EXCEPT ![r] =
       CASE step[r] = "nobody" -> "refused"
         [] step[r] = "user" -> "served"
         [] step[r] = "guest" -> IF resource # SharedOne THEN "refused"
                                 ELSE IF allowed THEN "served" ELSE "throttled"]
  /\ Advance(r, "idle")
  /\ UNCHANGED <<link, left, made, access, entry, fault, closest>>

\* The owner revokes the link, or shares it again.
Share ==
  /\ link' = ~link
  /\ UNCHANGED <<left, step, made, answer, access, entry, fault, closest>>

\* A publish takes less than the key's lifetime.
GuestTick ==
  /\ \A r \in Requests : step[r] = "logging" => made[r] + 1 < Debounce
  /\ left' = IF left = 0 THEN 0 ELSE left - 1
  /\ made' = [r \in Requests |-> IF step[r] = "logging" THEN made[r] + 1 ELSE 0]
  /\ access' = Older(access) /\ entry' = Older(entry) /\ fault' = Older(fault)
  /\ UNCHANGED <<link, step, answer, closest>>

GuestNext ==
  \/ \E r \in Requests :
       \/ \E user, valid, reachable \in BOOLEAN : Arrive(r, user, valid, reachable)
       \/ SetSeen(r) \/ Publish(r) \/ PublishFails(r)
       \/ \E set \in BOOLEAN : SetSeenFails(r, set)
       \/ \E resource \in Resources, allowed \in BOOLEAN : Directive(r, resource, allowed)
  \/ Share
  \/ GuestTick

GuestSpec == GuestInit /\ [][GuestNext]_guestVars

-----------------------------------------------------------------------------
(* Properties.                                                             *)

GuestTypeOK ==
  /\ link \in BOOLEAN
  /\ left \in 0..Debounce
  /\ step \in [Requests -> {"idle", "known", "logging"} \cup Actors]
  /\ made \in [Requests -> 0..(Debounce - 1)]
  /\ answer \in [Requests -> {"none", "served", "refused", "throttled"}]
  /\ access \in 0..Old /\ entry \in 0..Old /\ fault \in 0..Old

\* The log has one entry of a link and an address per lifetime of the key, however
\* many requests come at once (maybeLogAccess).
LoggedOnce == closest >= Debounce

\* When no request is between the link and the log, the latest access has an entry
\* less than a lifetime of the key older than it, or a failure in that time: the key
\* is set before the entry is published, so a failed entry is not made up for until
\* the key is gone, and not a tick longer (maybeLogAccess).
Accounted ==
  \/ \E r \in Requests : step[r] \in {"known", "logging"}
  \/ access = Old
  \/ entry < access + Debounce
  \/ fault < access + Debounce

GuestSound == GuestTypeOK /\ LoggedOnce /\ Accounted
=============================================================================
