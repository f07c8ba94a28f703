---------------------------- MODULE RmsGateProofs ----------------------------
(***************************************************************************)
(* Proofs about RmsGate, for every number of callers, every registry and   *)
(* every threshold.                                                        *)
(***************************************************************************)
EXTENDS RmsGate, FiniteSetTheorems, TLAPS

LEMMA InitTypeOK == Init => TypeOK
BY GateAssumption DEF Init, TypeOK, Places

LEMMA NextTypeOK ==
  ASSUME TypeOK, [Next]_vars
  PROVE  TypeOK'
<1> USE GateAssumption DEF TypeOK, Places, circuitVars, history
<1>1. ASSUME NEW c \in Callers, NEW p \in Processes, DecideOpen(c, p) PROVE TypeOK'
  BY <1>1 DEF DecideOpen, FailDecision
<1>2. ASSUME NEW c \in Callers, NEW p \in Processes, DecideClosed(c, p) PROVE TypeOK'
  BY <1>2 DEF DecideClosed
<1>3. ASSUME NEW c \in Callers, Send(c) PROVE TypeOK'
  BY <1>3 DEF Send
<1>4. ASSUME NEW c \in Callers, Answered(c) PROVE TypeOK'
  BY <1>4 DEF Answered
<1>5. ASSUME NEW c \in Callers, TransportError(c) PROVE TypeOK'
  BY <1>5 DEF TransportError, CountError
<1>6. ASSUME NEW c \in Callers, OtherError(c) PROVE TypeOK'
  BY <1>6 DEF OtherError, CountError
<1>7. ASSUME NEW c \in Callers, Open(c) PROVE TypeOK'
  BY <1>7 DEF Open
<1>8. ASSUME NEW c \in Callers, Reset(c) PROVE TypeOK'
  BY <1>8 DEF Reset
<1>9. ASSUME NEW c \in Callers, Fail(c) PROVE TypeOK'
  BY <1>9 DEF Fail, FailDecision
<1>10. CASE Tick
  BY <1>10 DEF Tick
<1>11. CASE UNCHANGED vars
  BY <1>11 DEF vars
<1> QED
  BY <1>1, <1>2, <1>3, <1>4, <1>5, <1>6, <1>7, <1>8, <1>9, <1>10, <1>11 DEF Next, Decide

\* Every variable keeps its type, and the circuit is never open for longer than
\* its cooldown, however many openings race.
THEOREM TypeCorrect == Spec => []TypeOK
<1>1. Init => TypeOK
  BY InitTypeOK
<1>2. TypeOK /\ [Next]_vars => TypeOK'
  BY NextTypeOK
<1> QED BY <1>1, <1>2, PTL DEF Spec

-----------------------------------------------------------------------------
(* The contract of degradation.                                            *)

LEMMA FallbackSound ==
  ASSUME NEW p \in Processes
  PROVE  FailDecision(p).failedOpen = TRUE /\ (FailDecision(p).allow => FailOpen(p))
BY DEF FailDecision, Mode, FailOpen

LEMMA NextClosedNeedsRms ==
  ASSUME TypeOK, ClosedNeedsRms, [Next]_vars
  PROVE  ClosedNeedsRms'
<1> SUFFICES ASSUME NEW d \in Callers, pc'[d] = "idle"
             PROVE  /\ verdict'[d].allow /\ ~ FailOpen(process'[d]) => answer'[d] = "allow"
                    /\ ~ verdict'[d].failedOpen => (verdict'[d].allow <=> answer'[d] = "allow")
  BY DEF ClosedNeedsRms, FailOpen
<1> USE DEF TypeOK
<1>1. CASE /\ pc'[d] = pc[d]
           /\ verdict'[d] = verdict[d]
           /\ process'[d] = process[d]
           /\ answer'[d] = answer[d]
  BY <1>1 DEF ClosedNeedsRms
<1>2. ASSUME NEW p \in Processes, DecideOpen(d, p)
      PROVE  /\ verdict'[d] = FailDecision(p)
             /\ process'[d] = p
  BY <1>2 DEF DecideOpen
<1>3. CASE Answered(d)
  <2>1. PICK allow \in BOOLEAN :
          /\ answer' = [answer EXCEPT ![d] = IF allow THEN "allow" ELSE "deny"]
          /\ verdict' = [verdict EXCEPT ![d] = [allow |-> allow, failedOpen |-> FALSE]]
    BY <1>3 DEF Answered
  <2>2. CASE allow
    BY <2>1, <2>2
  <2>3. CASE ~ allow
    BY <2>1, <2>3
  <2> QED BY <2>2, <2>3
<1>4. CASE Fail(d)
  <2>1. verdict'[d] = FailDecision(process[d]) /\ process' = process
    BY <1>4 DEF Fail
  <2> QED BY <2>1, FallbackSound
<1>5. \/ /\ pc'[d] = pc[d]
         /\ verdict'[d] = verdict[d]
         /\ process'[d] = process[d]
         /\ answer'[d] = answer[d]
      \/ \E p \in Processes : DecideOpen(d, p)
      \/ Answered(d)
      \/ Fail(d)
  <2>1. CASE Tick \/ UNCHANGED vars
    BY <2>1 DEF Tick, vars
  <2>2. ASSUME NEW c \in Callers, Decide(c), c # d
        PROVE  /\ pc'[d] = pc[d]
               /\ verdict'[d] = verdict[d]
               /\ process'[d] = process[d]
               /\ answer'[d] = answer[d]
    BY <2>2 DEF Decide, DecideOpen, DecideClosed, Send, Answered, TransportError,
       OtherError, CountError, Open, Reset, Fail
  <2>3. CASE Decide(d)
    BY <2>3 DEF Decide, DecideClosed, Send, TransportError, OtherError, CountError, Open, Reset
  <2> QED BY <2>1, <2>2, <2>3 DEF Next
<1> QED BY <1>1, <1>2, <1>3, <1>4, <1>5, FallbackSound

\* A fail-closed or unknown process is allowed by RMS only, in the call itself;
\* a verdict that is not marked FailedOpen is RMS's own.
THEOREM Degradation == Spec => []ClosedNeedsRms
<1>1. Init => ClosedNeedsRms
  <2> SUFFICES ASSUME Init, NEW c \in Callers
               PROVE  verdict[c].allow = FALSE /\ answer[c] = "none"
    BY DEF ClosedNeedsRms
  <2> QED BY DEF Init
<1>2. TypeOK /\ ClosedNeedsRms /\ [Next]_vars => ClosedNeedsRms'
  BY NextClosedNeedsRms
<1> QED BY <1>1, <1>2, TypeCorrect, PTL DEF Spec

-----------------------------------------------------------------------------
(* The race on the counter.                                                *)

LEMMA AttendingFinite == IsFiniteSet(Attending) /\ Cardinality(Attending) \in Nat
BY GateAssumption, FS_Subset, FS_CardinalityType DEF Attending

LEMMA NextCounterBounded ==
  ASSUME TypeOK, CounterBounded, [Next]_vars
  PROVE  CounterBounded'
<1> DEFINE A == Attending
           B == {c \in Callers : pc'[c] \in {"opening", "resetting"}}
<1>1. /\ IsFiniteSet(A) /\ Cardinality(A) \in Nat
      /\ IsFiniteSet(B) /\ Cardinality(B) \in Nat
  BY GateAssumption, AttendingFinite, FS_Subset, FS_CardinalityType
<1>2. failures \in Nat /\ Threshold \in Nat \ {0} /\ failures < Threshold + Cardinality(A)
  BY GateAssumption DEF TypeOK, CounterBounded
<1>3. SUFFICES failures' < Threshold + Cardinality(B)
  BY DEF CounterBounded, Attending
<1>4. CASE failures' = 0
  BY <1>1, <1>2, <1>4
<1>5. CASE failures' = failures /\ A = B
  BY <1>2, <1>5
<1>6. ASSUME NEW c \in Callers, CountError(c), pc[c] \in {"checked", "calling"}
      PROVE  failures' < Threshold + Cardinality(B)
  <2>1. failures' = failures + 1 /\ c \notin A
    BY <1>6 DEF CountError, Attending
  <2>2. CASE failures + 1 < Threshold
    BY <1>1, <1>2, <2>1, <2>2
  <2>3. CASE failures + 1 >= Threshold
    <3>1. pc' = [pc EXCEPT ![c] = "opening"]
      BY <1>6, <2>3 DEF CountError
    <3>2. B = A \cup {c}
      BY <3>1 DEF Attending, TypeOK
    <3>3. Cardinality(B) = Cardinality(A) + 1
      BY <1>1, <2>1, <3>2, FS_AddElement
    <3> QED BY <1>1, <1>2, <2>1, <3>3
  <2> QED BY <1>2, <2>2, <2>3
<1>7. \/ failures' = 0
      \/ failures' = failures /\ A = B
      \/ \E c \in Callers : CountError(c) /\ pc[c] \in {"checked", "calling"}
  <2>1. CASE Tick \/ UNCHANGED vars
    BY <2>1 DEF Tick, vars, Attending
  <2>2. ASSUME NEW c \in Callers, Answered(c) \/ Reset(c) PROVE failures' = 0
    BY <2>2 DEF Answered, Reset
  <2>3. ASSUME NEW c \in Callers, TransportError(c) \/ OtherError(c)
        PROVE  CountError(c) /\ pc[c] \in {"checked", "calling"}
    BY <2>3 DEF TransportError, OtherError
  <2>4. ASSUME NEW c \in Callers, NEW p \in Processes, DecideOpen(c, p) \/ DecideClosed(c, p)
        PROVE  failures' = failures /\ A = B
    BY <2>4 DEF DecideOpen, DecideClosed, circuitVars, Attending, TypeOK, Places
  <2>5. ASSUME NEW c \in Callers, Send(c) \/ Open(c) \/ Fail(c)
        PROVE  failures' = failures /\ A = B
    BY <2>5 DEF Send, Open, Fail, circuitVars, Attending, TypeOK, Places
  <2> QED BY <2>1, <2>2, <2>3, <2>4, <2>5 DEF Next, Decide
<1> QED BY <1>4, <1>5, <1>6, <1>7

\* However many callers race on the two atomics, the counter passes the
\* threshold by no more than the callers that are about to reset it.
THEOREM CounterRace == Spec => []CounterBounded
<1>1. Init => CounterBounded
  <2> SUFFICES ASSUME Init PROVE failures < Threshold + Cardinality(Attending)
    BY DEF CounterBounded
  <2> QED BY AttendingFinite, GateAssumption DEF Init
<1>2. TypeOK /\ CounterBounded /\ [Next]_vars => CounterBounded'
  BY NextCounterBounded
<1> QED BY <1>1, <1>2, TypeCorrect, PTL DEF Spec

\* Hence a full counter is always attended to: no single later error opens the
\* circuit on the strength of errors that a success or an opening has ended.
THEOREM CounterReset == Spec => []CounterAttended
<1>1. TypeOK /\ CounterBounded => CounterAttended
  <2> SUFFICES ASSUME TypeOK, CounterBounded, failures >= Threshold
               PROVE  \E c \in Callers : pc[c] \in {"opening", "resetting"}
    BY DEF CounterAttended
  <2>1. Cardinality(Attending) # 0
    BY GateAssumption, AttendingFinite DEF TypeOK, CounterBounded
  <2>2. Attending # {}
    BY <2>1, FS_EmptySet
  <2> QED BY <2>2 DEF Attending
<1> QED BY <1>1, TypeCorrect, CounterRace, PTL

\* Together: types, the contract of degradation and the bound of the race.
THEOREM Invariant == Spec => []IInv
<1>1. TypeOK /\ ClosedNeedsRms /\ CounterBounded => IInv
  BY DEF IInv
<1> QED BY <1>1, TypeCorrect, Degradation, CounterRace, PTL

-----------------------------------------------------------------------------
(* The circuit.                                                            *)

Opening == {c \in Callers : pc[c] = "opening"}
Past == {c \in Callers : pc[c] = "checked"}

\* Who is about to open the circuit counts as an opening.
OpeningsPaid ==
  /\ failures <= errors
  /\ openings + Cardinality(Opening) > 0 =>
       openings + Cardinality(Opening) + Threshold - 1 <= errors

LEMMA OpeningFinite == IsFiniteSet(Opening) /\ Cardinality(Opening) \in Nat
BY GateAssumption, FS_Subset, FS_CardinalityType DEF Opening

\* Every opening is paid for by errors, whatever races on the counter.
LEMMA NextOpeningsPaid ==
  ASSUME TypeOK, OpeningsPaid, [Next]_vars
  PROVE  OpeningsPaid'
<1> DEFINE A == Opening
           B == {c \in Callers : pc'[c] = "opening"}
<1>1. /\ IsFiniteSet(A) /\ Cardinality(A) \in Nat
      /\ IsFiniteSet(B) /\ Cardinality(B) \in Nat
  BY GateAssumption, OpeningFinite, FS_Subset, FS_CardinalityType
<1>2. /\ failures \in Nat /\ errors \in Nat /\ openings \in Nat /\ Threshold \in Nat \ {0}
      /\ failures <= errors
      /\ openings + Cardinality(A) > 0 => openings + Cardinality(A) + Threshold - 1 <= errors
  BY GateAssumption DEF TypeOK, OpeningsPaid
<1>3. SUFFICES /\ failures' <= errors'
               /\ openings' + Cardinality(B) > 0 =>
                    openings' + Cardinality(B) + Threshold - 1 <= errors'
  BY DEF OpeningsPaid, Opening
<1>4. CASE A = B /\ openings' = openings /\ errors' = errors /\ failures' \in {0, failures}
  BY <1>1, <1>2, <1>4
<1>5. ASSUME NEW c \in Callers, CountError(c), pc[c] \in {"checked", "calling"}
      PROVE  /\ failures' <= errors'
             /\ openings' + Cardinality(B) > 0 =>
                  openings' + Cardinality(B) + Threshold - 1 <= errors'
  <2>1. /\ failures' = failures + 1 /\ errors' = errors + 1 /\ openings' = openings
        /\ c \notin A
    BY <1>5 DEF CountError, Opening
  <2>2. CASE failures + 1 >= Threshold
    <3>1. pc' = [pc EXCEPT ![c] = "opening"]
      BY <1>5, <2>2 DEF CountError
    <3>2. B = A \cup {c}
      BY <3>1 DEF Opening, TypeOK
    <3>3. Cardinality(B) = Cardinality(A) + 1
      BY <1>1, <2>1, <3>2, FS_AddElement
    <3> QED BY <1>1, <1>2, <2>1, <2>2, <3>3
  <2>3. CASE ~ (failures + 1 >= Threshold)
    <3>1. pc' = [pc EXCEPT ![c] = "failing"]
      BY <1>5, <2>3 DEF CountError
    <3>2. B = A
      BY <1>5, <3>1 DEF Opening, TypeOK
    <3> QED BY <1>1, <1>2, <2>1, <3>2
  <2> QED BY <2>2, <2>3
<1>6. ASSUME NEW c \in Callers, Open(c)
      PROVE  /\ failures' <= errors'
             /\ openings' + Cardinality(B) > 0 =>
                  openings' + Cardinality(B) + Threshold - 1 <= errors'
  <2>1. c \in A /\ B = A \ {c}
    BY <1>6 DEF Open, Opening, TypeOK
  <2>2. Cardinality(B) = Cardinality(A) - 1
    BY <1>1, <2>1, FS_RemoveElement
  <2>3. failures' = failures /\ errors' = errors /\ openings' = openings + 1
    BY <1>6 DEF Open, history
  <2> QED BY <1>1, <1>2, <2>2, <2>3
<1>7. \/ A = B /\ openings' = openings /\ errors' = errors /\ failures' \in {0, failures}
      \/ \E c \in Callers : CountError(c) /\ pc[c] \in {"checked", "calling"}
      \/ \E c \in Callers : Open(c)
  <2>1. CASE Tick \/ UNCHANGED vars
    BY <2>1 DEF Tick, vars, history, Opening
  <2>2. ASSUME NEW c \in Callers, TransportError(c) \/ OtherError(c)
        PROVE  CountError(c) /\ pc[c] \in {"checked", "calling"}
    BY <2>2 DEF TransportError, OtherError
  <2>3. ASSUME NEW c \in Callers, NEW p \in Processes, DecideOpen(c, p) \/ DecideClosed(c, p)
        PROVE  A = B /\ openings' = openings /\ errors' = errors /\ failures' = failures
    BY <2>3 DEF DecideOpen, DecideClosed, circuitVars, history, Opening, TypeOK, Places
  <2>4. ASSUME NEW c \in Callers, Send(c) \/ Fail(c)
        PROVE  A = B /\ openings' = openings /\ errors' = errors /\ failures' = failures
    BY <2>4 DEF Send, Fail, circuitVars, history, Opening, TypeOK, Places
  <2>5. ASSUME NEW c \in Callers, Answered(c) \/ Reset(c)
        PROVE  A = B /\ openings' = openings /\ errors' = errors /\ failures' = 0
    BY <2>5 DEF Answered, Reset, history, Opening, TypeOK, Places
  <2> QED BY <2>1, <2>2, <2>3, <2>4, <2>5 DEF Next, Decide
<1> QED BY <1>4, <1>5, <1>6, <1>7

\* While the circuit is open, who is past its check counts as leaked.
LeaksPaid ==
  /\ leaked <= openings * (Cardinality(Callers) - 1)
  /\ remaining > 0 => leaked + Cardinality(Past) <= openings * (Cardinality(Callers) - 1)

LEMMA OneMore ==
  ASSUME NEW n \in Nat, NEW k \in Int
  PROVE  n * k \in Int /\ (n + 1) * k = n * k + k
OBVIOUS

\* All callers but the one that opens the circuit may be past the check then, and
\* nobody gets there while it is open.
LEMMA NextLeaksPaid ==
  ASSUME TypeOK, LeaksPaid, [Next]_vars
  PROVE  LeaksPaid'
<1> DEFINE K == Cardinality(Callers) - 1
           A == Past
           B == {c \in Callers : pc'[c] = "checked"}
<1>1. /\ IsFiniteSet(A) /\ Cardinality(A) \in Nat
      /\ IsFiniteSet(B) /\ Cardinality(B) \in Nat
      /\ Cardinality(Callers) \in Nat /\ K \in Int
  BY GateAssumption, FS_Subset, FS_CardinalityType DEF Past
<1>2. /\ leaked \in Nat /\ openings \in Nat /\ remaining \in Nat /\ Cooldown \in Nat
      /\ openings * K \in Int
      /\ leaked <= openings * K
      /\ remaining > 0 => leaked + Cardinality(A) <= openings * K
  BY <1>1, OneMore, GateAssumption DEF TypeOK, LeaksPaid
<1>3. SUFFICES /\ leaked' <= openings' * K
               /\ remaining' > 0 => leaked' + Cardinality(B) <= openings' * K
  BY DEF LeaksPaid, Past
<1> HIDE DEF K
<1>4. CASE /\ leaked' = leaked /\ openings' = openings
           /\ remaining' > 0 => remaining > 0 /\ B \subseteq A
  <2>1. B \subseteq A => Cardinality(B) <= Cardinality(A)
    BY <1>1, FS_Subset
  <2> QED BY <1>1, <1>2, <1>4, <2>1
<1>5. ASSUME NEW c \in Callers, Send(c)
      PROVE  /\ leaked' <= openings' * K
             /\ remaining' > 0 => leaked' + Cardinality(B) <= openings' * K
  <2>1. c \in A /\ B = A \ {c}
    BY <1>5 DEF Send, Past, TypeOK
  <2>2. Cardinality(B) = Cardinality(A) - 1
    BY <1>1, <2>1, FS_RemoveElement
  <2>3. /\ openings' = openings /\ remaining' = remaining
        /\ leaked' = IF remaining > 0 THEN leaked + 1 ELSE leaked
    BY <1>5 DEF Send, circuitVars
  <2> QED BY <1>1, <1>2, <2>2, <2>3
<1>6. ASSUME NEW c \in Callers, Open(c)
      PROVE  /\ leaked' <= openings' * K
             /\ remaining' > 0 => leaked' + Cardinality(B) <= openings' * K
  <2>1. B \subseteq Callers \ {c}
    BY <1>6 DEF Open, TypeOK
  <2>2. /\ IsFiniteSet(Callers \ {c})
        /\ Cardinality(Callers \ {c}) = Cardinality(Callers) - 1
    BY GateAssumption, FS_RemoveElement
  <2>3. Cardinality(B) <= K
    BY <2>1, <2>2, FS_Subset DEF K
  <2>4. leaked' = leaked /\ openings' = openings + 1
    BY <1>6 DEF Open, history
  <2>5. openings' * K = openings * K + K
    BY <1>1, <1>2, <2>4, OneMore
  <2> QED BY <1>1, <1>2, <2>3, <2>4, <2>5
<1>7. \/ /\ leaked' = leaked /\ openings' = openings
         /\ remaining' > 0 => remaining > 0 /\ B \subseteq A
      \/ \E c \in Callers : Send(c) \/ Open(c)
  <2>1. CASE Tick \/ UNCHANGED vars
    BY <1>2, <2>1 DEF Tick, vars, history, Past
  <2>2. ASSUME NEW c \in Callers, CountError(c)
        PROVE  leaked' = leaked /\ openings' = openings /\ remaining' = remaining /\ B \subseteq A
    BY <2>2 DEF CountError, Past, TypeOK, Places
  <2>3. ASSUME NEW c \in Callers, NEW p \in Processes, DecideOpen(c, p)
        PROVE  leaked' = leaked /\ openings' = openings /\ remaining' = remaining /\ B \subseteq A
    BY <2>3 DEF DecideOpen, circuitVars, history, Past
  <2>4. ASSUME NEW c \in Callers, NEW p \in Processes, DecideClosed(c, p)
        PROVE  leaked' = leaked /\ openings' = openings /\ remaining' = 0
    BY <2>4 DEF DecideClosed, circuitVars, history
  <2>5. ASSUME NEW c \in Callers, Answered(c) \/ Reset(c) \/ Fail(c)
        PROVE  leaked' = leaked /\ openings' = openings /\ remaining' = remaining /\ B \subseteq A
    BY <2>5 DEF Answered, Reset, Fail, circuitVars, history, Past, TypeOK, Places
  <2> QED BY <2>1, <2>2, <2>3, <2>4, <2>5 DEF Next, Decide, TransportError, OtherError
<1> QED BY <1>4, <1>5, <1>6, <1>7

\* For any number of goroutines and any threshold: the circuit opens once for Threshold
\* errors and at most once more for each that races with them, and an opening lets no
\* more calls slip past than there are other callers.
THEOREM Circuit == Spec => []CircuitSound
<1>1. Init => OpeningsPaid /\ LeaksPaid
  <2> SUFFICES ASSUME Init PROVE OpeningsPaid /\ LeaksPaid
    OBVIOUS
  <2>1. Opening = {}
    BY DEF Init, Opening
  <2>2. Cardinality(Opening) = 0
    BY <2>1, FS_EmptySet
  <2>3. Cardinality(Callers) \in Nat
    BY GateAssumption, FS_CardinalityType
  <2>4. openings * (Cardinality(Callers) - 1) = 0
    BY <2>3 DEF Init
  <2> QED BY <2>2, <2>4 DEF Init, OpeningsPaid, LeaksPaid
<1>2. TypeOK /\ OpeningsPaid /\ LeaksPaid /\ [Next]_vars => OpeningsPaid' /\ LeaksPaid'
  BY NextOpeningsPaid, NextLeaksPaid
<1>3. TypeOK /\ OpeningsPaid /\ LeaksPaid => CircuitSound
  <2> SUFFICES ASSUME TypeOK, OpeningsPaid, LeaksPaid, openings > 0
               PROVE  openings + Threshold - 1 <= errors
    BY DEF CircuitSound, OpeningsOwedToErrors, LeakBounded, LeaksPaid
  <2>1. /\ Cardinality(Opening) \in Nat /\ openings \in Nat /\ errors \in Nat
        /\ Threshold \in Nat
    BY OpeningFinite, GateAssumption DEF TypeOK
  <2> QED BY <2>1 DEF OpeningsPaid
<1> QED BY <1>1, <1>2, <1>3, TypeCorrect, PTL DEF Spec
=============================================================================
