------------------------------- MODULE RmsGate -------------------------------
(***************************************************************************)
(* The client of the policy gate (rmsgate/client.go): goroutines of a      *)
(* service share one Client and call Decide, which asks RMS, falls back to *)
(* the process's FailMode on any error, and stops asking for a while after *)
(* circuitThreshold errors in a row.  The counter and the deadline of the  *)
(* circuit are two separate atomics; every access to one is a step.        *)
(***************************************************************************)
EXTENDS Naturals, FiniteSets

CONSTANTS
  Callers,    \* goroutines that call Decide
  Processes,  \* processes they ask about
  Registered, \* the processes of the Registry
  RiskSafe,   \* those it has as FailOpen
  Threshold,  \* circuitThreshold
  Cooldown,   \* circuitCooldown, in ticks
  MaxErrors   \* calls of Evaluate that fail

ASSUME GateAssumption ==
  /\ IsFiniteSet(Callers)
  /\ RiskSafe \subseteq Registered /\ Registered \subseteq Processes
  /\ Threshold \in Nat \ {0}
  /\ Cooldown \in Nat \ {0}
  /\ MaxErrors \in Nat

VARIABLES
  pc,         \* where a caller is in Decide
  process,    \* what it asks about
  answer,     \* what RMS answered its current or last call, or "none"
  verdict,    \* what its last Decide returned: [allow, failedOpen]
  failures,   \* the atomic counter of errors in a row
  remaining,  \* openUntil - now, 0 when it has passed
  leaked,     \* history: calls sent to RMS while the circuit was open
  errors,     \* history: failed calls; kinds of them:
  transport,  \*   those that failed on the way to RMS and back
  openings    \* history: how often openUntil was stored

vars == <<pc, process, answer, verdict, failures, remaining, leaked, errors,
          transport, openings>>
circuitVars == <<failures, remaining, openings>>
history == <<leaked, errors, transport>>

-----------------------------------------------------------------------------
\* (broken) An unknown process is let through.
ModeUnknownOpen(p) == IF p \in Registered \ RiskSafe THEN "closed" ELSE "open"

\* Registry.Mode: an unknown process, or no registry, is fail-closed.
Mode(p) == IF p \in Registered /\ p \in RiskSafe THEN "open" ELSE "closed"

FailDecision(p) == [allow |-> Mode(p) = "open", failedOpen |-> TRUE]

Init ==
  /\ pc = [c \in Callers |-> "idle"]
  /\ process \in [Callers -> Processes]
  /\ answer = [c \in Callers |-> "none"]
  /\ verdict = [c \in Callers |-> [allow |-> FALSE, failedOpen |-> FALSE]]
  /\ failures = 0
  /\ remaining = 0
  /\ leaked = 0
  /\ errors = 0
  /\ transport = 0
  /\ openings = 0

-----------------------------------------------------------------------------
\* The circuit is open: answer at once by the FailMode.
DecideOpen(c, p) ==
  /\ pc[c] = "idle"
  /\ remaining > 0
  /\ process' = [process EXCEPT ![c] = p]
  /\ answer' = [answer EXCEPT ![c] = "none"]
  /\ verdict' = [verdict EXCEPT ![c] = FailDecision(p)]
  /\ UNCHANGED <<pc, circuitVars, history>>

\* (broken) openUntil is taken for a flag: once stored, the circuit stays open.
DecideNeverCloses(c, p) ==
  /\ pc[c] = "idle"
  /\ process' = [process EXCEPT ![c] = p]
  /\ answer' = [answer EXCEPT ![c] = "none"]
  /\ pc' = [pc EXCEPT ![c] = IF openings = 0 THEN "checked" ELSE "idle"]
  /\ UNCHANGED <<verdict, circuitVars, history>>

\* (broken) The deadline of the circuit is not looked at.
DecideUnchecked(c, p) ==
  /\ pc[c] = "idle"
  /\ process' = [process EXCEPT ![c] = p]
  /\ answer' = [answer EXCEPT ![c] = "none"]
  /\ pc' = [pc EXCEPT ![c] = "checked"]
  /\ UNCHANGED <<verdict, circuitVars, history>>

\* It is closed, or its deadline has passed: go on to Evaluate.
DecideClosed(c, p) ==
  /\ pc[c] = "idle"
  /\ remaining = 0
  /\ process' = [process EXCEPT ![c] = p]
  /\ answer' = [answer EXCEPT ![c] = "none"]
  /\ pc' = [pc EXCEPT ![c] = "checked"]
  /\ UNCHANGED <<verdict, circuitVars, history>>

\* The request leaves, whatever became of the circuit since the check.
Send(c) ==
  /\ pc[c] = "checked"
  /\ pc' = [pc EXCEPT ![c] = "calling"]
  /\ leaked' = IF remaining > 0 THEN leaked + 1 ELSE leaked
  /\ UNCHANGED <<process, answer, verdict, circuitVars, errors, transport>>

\* RMS answers in time: the counter starts again.
Answered(c) ==
  /\ pc[c] = "calling"
  /\ \E allow \in BOOLEAN :
       /\ answer' = [answer EXCEPT ![c] = IF allow THEN "allow" ELSE "deny"]
       /\ verdict' = [verdict EXCEPT ![c] = [allow |-> allow, failedOpen |-> FALSE]]
  /\ failures' = 0
  /\ pc' = [pc EXCEPT ![c] = "idle"]
  /\ UNCHANGED <<process, remaining, openings, history>>

\* (broken) One error too few opens the circuit.
CountErrorEarly(c) ==
  /\ errors < MaxErrors
  /\ errors' = errors + 1
  /\ failures' = failures + 1
  /\ pc' = [pc EXCEPT ![c] = IF failures + 1 >= Threshold - 1 THEN "opening" ELSE "failing"]
  /\ UNCHANGED <<process, answer, verdict, remaining, openings, leaked>>

\* What one error does: failures.Add(1), and at the threshold on to openUntil.
CountError(c) ==
  /\ errors < MaxErrors
  /\ errors' = errors + 1
  /\ failures' = failures + 1
  /\ pc' = [pc EXCEPT ![c] = IF failures + 1 >= Threshold THEN "opening" ELSE "failing"]
  /\ UNCHANGED <<process, answer, verdict, remaining, openings, leaked>>

\* Evaluate times out or the connection fails.
TransportError(c) ==
  /\ pc[c] = "calling"
  /\ transport' = transport + 1
  /\ CountError(c)

\* Evaluate returns another error, for which RMS is not to blame: the facts do
\* not convert to a Struct (no request leaves then), or the caller cancelled.
OtherError(c) ==
  /\ pc[c] \in {"checked", "calling"}
  /\ UNCHANGED transport
  /\ CountError(c)

\* openUntil.Store(now + circuitCooldown)
Open(c) ==
  /\ pc[c] = "opening"
  /\ remaining' = Cooldown
  /\ openings' = openings + 1
  /\ pc' = [pc EXCEPT ![c] = "resetting"]
  /\ UNCHANGED <<process, answer, verdict, failures, history>>

\* (broken) The counter is left where it is when the circuit opens.
ResetForgotten(c) ==
  /\ pc[c] = "resetting"
  /\ pc' = [pc EXCEPT ![c] = "failing"]
  /\ UNCHANGED <<process, answer, verdict, circuitVars, history>>

\* failures.Store(0)
Reset(c) ==
  /\ pc[c] = "resetting"
  /\ failures' = 0
  /\ pc' = [pc EXCEPT ![c] = "failing"]
  /\ UNCHANGED <<process, answer, verdict, remaining, openings, history>>

\* return failDecision
Fail(c) ==
  /\ pc[c] = "failing"
  /\ verdict' = [verdict EXCEPT ![c] = FailDecision(process[c])]
  /\ pc' = [pc EXCEPT ![c] = "idle"]
  /\ UNCHANGED <<process, answer, circuitVars, history>>

\* Time passes.
Tick ==
  /\ remaining > 0
  /\ remaining' = remaining - 1
  /\ UNCHANGED <<pc, process, answer, verdict, failures, openings, history>>

Decide(c) ==
  \/ \E p \in Processes : DecideOpen(c, p) \/ DecideClosed(c, p)
  \/ Send(c) \/ Answered(c) \/ TransportError(c) \/ OtherError(c)
  \/ Open(c) \/ Reset(c) \/ Fail(c)

Next == Tick \/ \E c \in Callers : Decide(c)

Spec == Init /\ [][Next]_vars

(* Decide waits for nothing but Evaluate, which has a deadline; time goes  *)
(* on; services keep asking.  RMS may fail MaxErrors times, not for ever.  *)
Fairness ==
  /\ WF_vars(Tick)
  /\ \A c \in Callers :
       /\ WF_vars(Send(c)) /\ WF_vars(Answered(c)) /\ WF_vars(Open(c))
       /\ WF_vars(Reset(c)) /\ WF_vars(Fail(c))
       /\ WF_vars(\E p \in Processes : DecideClosed(c, p))

FairSpec == Spec /\ Fairness

-----------------------------------------------------------------------------
(* Properties.                                                             *)

Places == {"idle", "checked", "calling", "opening", "resetting", "failing"}

\* Every variable keeps its type; the circuit never opens beyond its cooldown.
TypeOK ==
  /\ pc \in [Callers -> Places]
  /\ process \in [Callers -> Processes]
  /\ answer \in [Callers -> {"none", "allow", "deny"}]
  /\ verdict \in [Callers -> [allow : BOOLEAN, failedOpen : BOOLEAN]]
  /\ failures \in Nat
  /\ remaining \in 0 .. Cooldown
  /\ leaked \in Nat
  /\ errors \in 0 .. MaxErrors
  /\ transport \in 0 .. errors
  /\ openings \in Nat

FailOpen(p) == p \in RiskSafe

\* The contract of degradation: a process that is fail-closed, unknown ones
\* included, gets an ALLOW from nobody but RMS, in this very call.  A verdict
\* not marked FailedOpen repeats what RMS said.
ClosedNeedsRms ==
  \A c \in Callers : pc[c] = "idle" =>
    /\ verdict[c].allow /\ ~ FailOpen(process[c]) => answer[c] = "allow"
    /\ ~ verdict[c].failedOpen => (verdict[c].allow <=> answer[c] = "allow")

\* A full counter is never left behind: whenever it has reached the threshold
\* some caller is about to open the circuit and to reset it, so the next error
\* of a healthy time cannot open the circuit by itself.
CounterAttended ==
  failures >= Threshold => \E c \in Callers : pc[c] \in {"opening", "resetting"}

\* Callers between failures.Add and failures.Store(0).
Attending == {c \in Callers : pc[c] \in {"opening", "resetting"}}

\* The race on the counter is bounded: it runs past the threshold by no more
\* than the callers that are about to reset it.
CounterBounded == failures < Threshold + Cardinality(Attending)

\* The parts that need each other to be kept by every step.
IInv == TypeOK /\ ClosedNeedsRms /\ CounterBounded

\* The circuit opens once for threshold errors, and at most once more for each
\* further error that races with it.
OpeningsOwedToErrors == openings > 0 => openings + Threshold - 1 <= errors

\* An open circuit shields RMS: only callers that had checked it before it
\* opened still reach RMS, each of them once an opening.
LeakBounded == leaked <= openings * (Cardinality(Callers) - 1)

\* The circuit as RMS feels it (Client.Evaluate, Decide): opened by errors only, and a shield
\* when it is open.
CircuitSound == OpeningsOwedToErrors /\ LeakBounded

\* After an outage the gate decides again: from some time on, whoever has a
\* verdict has it from RMS.
GateRecovers == <>[](\A c \in Callers : pc[c] = "idle" => answer[c] # "none")

\* What the client counts are "transport errors in a row".
OpensOnTransportErrors == openings > 0 => transport >= Threshold
=============================================================================
