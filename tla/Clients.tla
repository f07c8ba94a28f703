------------------------------- MODULE Clients -------------------------------
(***************************************************************************)
(* The clients a service writes to other systems with, or shares the token *)
(* of: addresses checked by USPS (UspsToken), what a service declares of   *)
(* itself to the rule service RMS (Registration), the mail it hands to     *)
(* backend-mail (Mail), the fuel cards of Relay (FuelCards), and what it   *)
(* orders once of tasks, of readers of documents and of mail providers     *)
(* (Orders).  They share no state; ClientProofs reasons about each of      *)
(* them, Integrations studies them beside the clients that read.           *)
(***************************************************************************)
EXTENDS Integers

CONSTANTS
  Callers, NoOne, TTL, Skew, Timeout, MaxRevocations, MaxFaults,
  Instances, attempts, Nothing,
  MaxMessages, MaxAgain, MaxStumbles,
  MaxKeys, MaxEntered, MaxAttempts, MaxNow,
  Keys, Documents, Files, MaxOrders

VARIABLES
  value, left, lock, pc, retry, bearer, wire, issued, life, dead, valid, revocations,
  faults,                                                            \* UspsToken
  call, tries, answer, flying, declared, healthy, landed, beaten,    \* Registration
  medium, messages, within, guaranteed, ownIDs, sending, again, step, result, sent, tx, written,
  pending, mailed, skipped, stumbles,                                \* Mail
  using, setting, latest, covered, now, fuelings, hooks, done, thing, fueled, late, request, asks,
  ended, reports, entered, watermark, known, listed, repeated,       \* FuelCards
  user, orders, effects                                              \* Orders

Usps == INSTANCE UspsToken
Rms == INSTANCE Registration
Mails == INSTANCE Mail
Cards == INSTANCE FuelCards
Once == INSTANCE Orders

uspsVars ==
  <<value, left, lock, pc, retry, bearer, wire, issued, life, dead, valid, revocations, faults>>
rmsVars == <<call, tries, answer, flying, declared, healthy, landed, beaten>>
mailVars ==
  <<medium, messages, within, guaranteed, ownIDs, sending, again, step, result, sent, tx, written,
    pending, mailed, skipped, stumbles>>
cardsVars ==
  <<using, setting, latest, covered, now, fuelings, hooks, done, thing, fueled, late, request, asks,
    ended, reports, entered, watermark, known, listed, repeated>>
ordersVars == <<user, orders, effects>>
=============================================================================
