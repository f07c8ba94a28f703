---------------------------- MODULE Registration ----------------------------
(***************************************************************************)
(* What a service declares of itself to the rule service RMS when it       *)
(* starts: its contracts (rmsgate, RegisterContracts) and the operations   *)
(* it offers (rmsreg, RegisterCapabilities), by the same retried POST.     *)
(* The callers are instances of one service that a deployment replaces one *)
(* by the other, so that two of them may be declaring at a time.           *)
(*                                                                         *)
(* RMS keeps the declaration that reached it last.                         *)
(***************************************************************************)
EXTENDS Naturals

CONSTANTS
  Instances,  \* how many, numbered in the order they are started
  attempts,   \* POSTs of one call
  Nothing

RegistrationAssumption == Instances \in Nat /\ attempts \in Nat \ {0} /\ Nothing \notin 1..Instances

VARIABLES
  call,     \* instance to where its call stands
  tries,    \* instance to attempts begun
  answer,   \* instance to the answer on its way to it
  flying,   \* instance to its attempts on their way, also those it has given up
  declared, \* RMS: whose declaration it has
  healthy,  \* instance to its declaration being one that RMS takes
  landed,   \* ghost: instances whose declaration RMS has had
  beaten    \* ghost: instances whose declaration landed with an earlier one on its way

registrationVars == <<call, tries, answer, flying, declared, healthy, landed, beaten>>

Deployments == 1..Instances
Unsettled == {"sending", "waiting"}
Returned == {"nil", "refused", "exhausted", "cancelled"}

\* Statuses of an answer: 2xx, 4xx, 5xx.
Statuses == {"stored", "refused", "failed"}

-----------------------------------------------------------------------------
RegistrationInit ==
  /\ call = [i \in Deployments |-> "off"]
  /\ tries = [i \in Deployments |-> 0]
  /\ answer = [i \in Deployments |-> Nothing]
  /\ flying = [i \in Deployments |-> {}]
  /\ declared = Nothing
  /\ healthy \in [Deployments -> BOOLEAN]
  /\ landed = {}
  /\ beaten = {}

\* One more POST leaves.
Post(i) ==
  /\ call' = [call EXCEPT ![i] = "sending"]
  /\ tries' = [tries EXCEPT ![i] = @ + 1]
  /\ flying' = [flying EXCEPT ![i] = @ \cup {tries[i] + 1}]
  /\ answer' = [answer EXCEPT ![i] = Nothing]

\* An instance starts and declares itself (RegisterContracts, RegisterCapabilities).
Start(i) ==
  /\ call[i] = "off"
  /\ \A j \in Deployments : j < i => call[j] # "off"
  /\ Post(i)
  /\ UNCHANGED <<declared, healthy, landed, beaten>>

\* RMS takes a request: it stores the declaration or not, and may fail after it stored
\* it.  The caller hears only of the attempt it has not given up.
Handle(i, n, status) ==
  /\ status # "failed" => (status = "stored") = healthy[i]
  /\ flying' = [flying EXCEPT ![i] = @ \ {n}]
  /\ answer' = [answer EXCEPT ![i] = IF call[i] = "sending" /\ n = tries[i] THEN status ELSE @]
  /\ \E stores \in IF status = "failed" THEN {FALSE, healthy[i]} ELSE {healthy[i]} :
       /\ declared' = IF stores THEN i ELSE declared
       /\ landed' = IF stores THEN landed \cup {i} ELSE landed
       /\ beaten' = IF stores /\ \E j \in Deployments : j < i /\ (call[j] \in Unsettled \/ flying[j] # {})
                    THEN beaten \cup {i} ELSE beaten
  /\ UNCHANGED <<call, tries, healthy>>

\* A request is lost.
Lose(i, n) ==
  /\ flying' = [flying EXCEPT ![i] = @ \ {n}]
  /\ UNCHANGED <<call, tries, answer, declared, healthy, landed, beaten>>

\* (broken) Any answer ends the call well.
VerdictOf2xxAnd5xx(status) == CASE status = "refused" -> "refused"
                                [] OTHER -> "nil"

\* What an answer means to the call: nil below 300, an error at once below 500, else
\* another attempt.
Verdict(status) == CASE status = "stored" -> "nil"
                     [] status = "refused" -> "refused"
                     [] status = "failed" -> "waiting"

\* The answer arrives.
Hear(i) ==
  /\ call[i] = "sending" /\ answer[i] # Nothing
  /\ call' = [call EXCEPT ![i] = Verdict(answer[i])]
  /\ answer' = [answer EXCEPT ![i] = Nothing]
  /\ UNCHANGED <<tries, flying, declared, healthy, landed, beaten>>

\* registerHTTPTimeout passes, or the connection fails: the request may be on its way.
GiveUp(i) ==
  /\ call[i] = "sending"
  /\ call' = [call EXCEPT ![i] = "waiting"]
  /\ answer' = [answer EXCEPT ![i] = Nothing]
  /\ UNCHANGED <<tries, flying, declared, healthy, landed, beaten>>

\* The pause, which follows the last attempt too, is over.
Resume(i) ==
  /\ call[i] = "waiting"
  /\ IF tries[i] < attempts
     THEN Post(i)
     ELSE call' = [call EXCEPT ![i] = "exhausted"] /\ UNCHANGED <<tries, flying, answer>>
  /\ UNCHANGED <<declared, healthy, landed, beaten>>

\* The instance is stopped: its context ends, and the call with it.
Stop(i) ==
  /\ call[i] \in Unsettled
  /\ call' = [call EXCEPT ![i] = "cancelled"]
  /\ answer' = [answer EXCEPT ![i] = Nothing]
  /\ UNCHANGED <<tries, flying, declared, healthy, landed, beaten>>

\* What an instance does of itself: an attempt is answered or times out, a pause ends.
Proceed(i) == Hear(i) \/ GiveUp(i) \/ Resume(i)

RegistrationNext == \E i \in Deployments :
  \/ Start(i)
  \/ \E n \in flying[i] : Lose(i, n) \/ \E s \in Statuses : Handle(i, n, s)
  \/ Proceed(i)
  \/ Stop(i)

RegistrationSpec == RegistrationInit /\ [][RegistrationNext]_registrationVars

-----------------------------------------------------------------------------
(* Properties.                                                             *)

TypeOK ==
  /\ call \in [Deployments -> {"off"} \cup Unsettled \cup Returned]
  /\ tries \in [Deployments -> 0..attempts]
  /\ answer \in [Deployments -> Statuses \cup {Nothing}]
  /\ flying \in [Deployments -> SUBSET (1..attempts)]
  /\ declared \in Deployments \cup {Nothing}
  /\ healthy \in [Deployments -> BOOLEAN]
  /\ landed \subseteq Deployments /\ beaten \subseteq landed

\* What a call returns is so (registerJSON): nil of a declaration that RMS has had, a
\* refusal only of one that RMS does not take, and giving up only after every attempt.
\* An error says nothing of what RMS has.
VerdictsTrue == \A i \in Deployments :
  /\ call[i] = "nil" => i \in landed
  /\ call[i] = "refused" => ~healthy[i] /\ i \notin landed
  /\ call[i] = "exhausted" => tries[i] = attempts

\* A later instance that declared itself is forgotten only for one whose own call was
\* under way, or given up with a request on its way, when the later one's landed.
OverwritesOwed == \A i \in landed :
  declared # Nothing /\ declared < i => i \in beaten

\* No registration is under way.
AllReturned == \A i \in Deployments : call[i] \notin Unsettled

\* Declarations as a whole (registerJSON, RegisterCapabilities).
RegistrationSound == TypeOK /\ VerdictsTrue /\ OverwritesOwed
=============================================================================
