----------------------------- MODULE TruckRoute ------------------------------
(***************************************************************************)
(* Routes of the HERE client (client/here): a route through stops, which   *)
(* becomes one leg per pair of stops, and the manoeuvres of a route, each  *)
(* of which is a piece of the route's line; and the decoding of a line.    *)
(*                                                                         *)
(* HERE is external: it answers with sections, one per leg, and more where *)
(* a leg takes a ferry.  Between two calls its answer may change.          *)
(***************************************************************************)
EXTENDS Integers, FiniteSets, SequencesExt

CONSTANTS
  Sections,     \* what a section may be: summary, length, base and traffic durations,
                \* the points of its line and the offsets of its actions in them
  MaxSections,  \* bound: sections of a leg
  MaxLegs,      \* bound: legs of a route
  Lines,        \* the lines looked at: sequences of points, of two or three numbers
  Precision     \* of the numbers

Answers == SeqOf(Sections, MaxSections) \ {<<>>}

RouteAssumption ==
  /\ MaxSections \in Nat \ {0} /\ MaxLegs \in Nat \ {0} /\ Precision \in 0..15
  /\ \A s \in Sections :
       /\ s.summary \in BOOLEAN
       /\ s.length \in Nat /\ s.base \in Nat /\ s.duration \in Nat /\ s.points \in Nat
       /\ \A i \in DOMAIN s.offsets : s.offsets[i] \in -1..s.points

VARIABLES
  route,    \* HERE: the sections of each leg
  wanted,    \* "legs", "manoeuvres", or "line"
  stage,    \* "asking", "walking" leg by leg, or what was returned: "ok", "error"
  legs,     \* the legs so far: distance, duration, arrival
  nav,      \* the manoeuvres: start and end in the line
  bill,     \* history: calls so far
  answers,  \* history: the answers the legs were made from
  text      \* a line, and how many of its characters came

routeVars == <<route, wanted, stage, legs, nav, bill, answers, text>>

-----------------------------------------------------------------------------
(* Lines: HERE's encoding, whose characters are their values 0..63, and    *)
(* DecodeFlexiblePolyline.                                                 *)

Dims(line) == IF line = <<>> THEN 2 ELSE Len(line[1])

\* HERE: five bits a character, the lowest first, 32 more where others follow.
Characters(n) ==
  LET more == {k \in 0..4 : n >= 32 ^ (k + 1)}
      chars == Cardinality(more) + 1
  IN [i \in 1..chars |-> ((n \div 32 ^ (i - 1)) % 32) + (IF i < chars THEN 32 ELSE 0)]
Unsigned(n) == IF n < 0 THEN -2 * n - 1 ELSE 2 * n
Encode(line) ==
  LET delta(i, d) == line[i][d] - IF i = 1 THEN 0 ELSE line[i - 1][d]
      point(i) == FlattenSeq([d \in 1..Dims(line) |-> Characters(Unsigned(delta(i, d)))])
  IN Characters(1) \o Characters(Precision + 16 * (Dims(line) - 2))
       \o FlattenSeq([i \in DOMAIN line |-> point(i)])

\* decodeUnsignedValue: the values of a text, none if it ends within one.
Values(data) ==
  LET ends == SelectSeq([i \in DOMAIN data |-> i], LAMBDA i : data[i] < 32)
      first(k) == IF k = 1 THEN 1 ELSE ends[k - 1] + 1
      value(k) == FoldFunction(LAMBDA x, y : x + y, 0,
                    [i \in first(k)..ends[k] |-> (data[i] % 32) * 32 ^ (i - first(k))])
  IN [k \in DOMAIN ends |-> value(k)]

\* (broken) The sign bit is read, the one it takes from the number is not.
SignedByHalf(u) == IF u % 2 = 1 THEN -(u \div 2) ELSE u \div 2

\* decodeSignedValue.
Signed(u) == IF u % 2 = 1 THEN -(u \div 2) - 1 ELSE u \div 2

\* DecodeFlexiblePolyline: the points, in two numbers, or an error.
Decode(data) ==
  LET v == Values(data)
      header == v[2]
      dims == IF header \div 16 = 0 THEN 2 ELSE 3
      points == (Len(v) - 2) \div dims
      sum(i, d) == FoldFunction(LAMBDA x, y : x + y, 0,
                     [k \in 1..i |-> Signed(v[2 + dims * (k - 1) + d])])
  IN CASE data = <<>> -> [ok |-> TRUE, points |-> <<>>]
       [] data # <<>> /\ (data[Len(data)] >= 32 \/ Len(v) < 2 \/ (Len(v) - 2) % dims # 0) ->
            [ok |-> FALSE, points |-> <<>>]
       [] OTHER -> [ok |-> TRUE, points |-> [i \in 1..points |-> <<sum(i, 1), sum(i, 2)>>]]

-----------------------------------------------------------------------------
(* The client.                                                             *)

RouteInit ==
  /\ \/ /\ wanted \in {"legs", "manoeuvres"}
        /\ route \in SeqOf(Answers, MaxLegs) \ {<<>>}
        /\ text = [line |-> <<>>, came |-> 0]
     \/ /\ wanted = "line"
        /\ route = <<>>
        /\ \E line \in Lines : text = [line |-> line, came |-> 0]
  /\ stage = "asking" /\ legs = <<>> /\ nav = <<>> /\ bill = 0 /\ answers = <<>>

\* A section without a summary counts for nothing.
Length(s) == IF s.summary THEN s.length ELSE 0
Base(s) == IF s.summary THEN s.base ELSE 0
Duration(s) == IF s.summary THEN s.duration ELSE 0
Sum(f(_), seq) == FoldLeft(LAMBDA n, s : n + f(s), 0, seq)

Arrival == IF legs = <<>> THEN 0 ELSE legs[Len(legs)].arrival

\* A leg of one section, departing at the arrival of the one before (parseRouteResponse).
LegOf(s, departure) ==
  [distance |-> Length(s), duration |-> Base(s), arrival |-> departure + Duration(s)]

\* CalculateMultiStopRoute, where each section is a leg.
LegsOf(sections) ==
  [i \in DOMAIN sections |-> LegOf(sections[i], Sum(Duration, SubSeq(sections, 1, i - 1)))]

\* (broken) Sections are taken for legs also when there are more of them.
AskLegsUnmatched ==
  /\ stage = "asking" /\ wanted = "legs"
  /\ bill' = 1
  /\ LET sections == FlattenSeq(route)
     IN /\ legs' = LegsOf(SubSeq(sections, 1, Len(route)))
        /\ answers' = route
        /\ stage' = "ok"
  /\ UNCHANGED <<route, wanted, nav, text>>

\* CalculateMultiStopRoute: the whole route in one call.
AskLegs ==
  /\ stage = "asking" /\ wanted = "legs"
  /\ bill' = 1
  /\ LET sections == FlattenSeq(route)
     IN IF Len(sections) = Len(route)
        THEN legs' = LegsOf(sections) /\ answers' = route /\ stage' = "ok"
        ELSE stage' = "walking" /\ UNCHANGED <<legs, answers>>
  /\ UNCHANGED <<route, wanted, nav, text>>

\* calculateMultiStopPerLeg: one leg more.  Of its sections the first is read.
Walk ==
  /\ stage = "walking"
  /\ bill' = bill + 1
  /\ LET answer == route[Len(legs) + 1]
     IN /\ legs' = Append(legs, LegOf(answer[1], Arrival))
        /\ answers' = Append(answers, answer)
  /\ stage' = IF Len(legs') = Len(route) THEN "ok" ELSE "walking"
  /\ UNCHANGED <<route, wanted, nav, text>>

\* A call fails, or there is no route: what was read of the legs is given up.
Fail ==
  /\ stage \in {"asking", "walking"} /\ wanted # "line"
  /\ stage' = "error" /\ bill' = bill + 1
  /\ legs' = <<>> /\ answers' = <<>>
  /\ UNCHANGED <<route, wanted, nav, text>>

\* sanitizeOffset.
Sanitized(offset, length) ==
  CASE length = 0 \/ offset < 0 -> 0
    [] length # 0 /\ offset >= length -> length - 1
    [] OTHER -> offset

\* buildResultFromRoute: the line is the first section's.
Steps(sections) ==
  LET n == sections[1].points
      starts == FlattenSeq([i \in DOMAIN sections |->
                  [k \in DOMAIN sections[i].offsets |-> Sanitized(sections[i].offsets[k], n)]])
  IN [i \in DOMAIN starts |->
       [start |-> starts[i],
        end |-> CASE i < Len(starts) -> starts[i + 1]
                  [] i = Len(starts) /\ n > 0 -> n - 1
                  [] OTHER -> 0]]

\* BuildTruckRouteMultiStop, RerouteFrom: all stops in one call.
AskManoeuvres ==
  /\ stage = "asking" /\ wanted = "manoeuvres"
  /\ bill' = 1 /\ stage' = "ok"
  /\ LET sections == FlattenSeq(route)
     IN /\ nav' = Steps(sections)
        /\ legs' = <<[distance |-> Sum(Length, sections), duration |-> Sum(Base, sections),
                      arrival |-> Sum(Duration, sections)]>>
        /\ answers' = <<sections>>
  /\ UNCHANGED <<route, wanted, text>>

\* HERE: a leg is routed otherwise from now on.
Change ==
  /\ stage = "walking"
  /\ \E i \in DOMAIN route, a \in Answers : i > Len(legs) /\ route' = [route EXCEPT ![i] = a]
  /\ UNCHANGED <<wanted, stage, legs, nav, bill, answers, text>>

\* HERE: one character more of a line.
Receive ==
  /\ wanted = "line" /\ text.came < Len(Encode(text.line))
  /\ text' = [text EXCEPT !.came = text.came + 1]
  /\ UNCHANGED <<route, wanted, stage, legs, nav, bill, answers>>

RouteNext == AskLegs \/ Walk \/ Fail \/ AskManoeuvres \/ Change \/ Receive

RouteSpec == RouteInit /\ [][RouteNext]_routeVars

-----------------------------------------------------------------------------
(* Properties.                                                             *)

TypeOK ==
  /\ route \in SeqOf(Answers, MaxLegs)
  /\ wanted \in {"legs", "manoeuvres", "line"} /\ stage \in {"asking", "walking", "ok", "error"}
  /\ Len(legs) = Len(answers) /\ Len(legs) <= Len(route)
  /\ bill \in 0..(Len(route) + 1)

Told == stage = "ok" /\ wanted = "legs"

\* A leg is the whole way between its stops, unless the route was walked and HERE
\* answered it with a ferry: then it is what comes before the ferry, and the legs after
\* it arrive too early (CalculateMultiStopRoute, calculateMultiStopPerLeg).
LegsWhole == Told =>
  /\ Len(legs) = Len(route)
  /\ \A i \in DOMAIN legs :
       LET short == {k \in 1..i : Len(answers[k]) > 1}
           late == FoldLeft(LAMBDA n, a : n + Sum(Duration, a), 0, SubSeq(answers, 1, i))
       IN /\ Len(answers[i]) = 1 => legs[i].distance = Sum(Length, answers[i])
          /\ legs[i].distance <= Sum(Length, answers[i])
          /\ legs[i].arrival <= late
          /\ short = {} => legs[i].arrival = late

\* A route without a ferry costs one call, any other one more per leg at most, and
\* nothing of a failed walk is returned (CalculateMultiStopRoute).
Billed ==
  /\ stage = "ok" => bill \in {1, Len(route) + 1}
  /\ Told /\ bill > 1 => Len(legs) = bill - 1
  /\ stage = "error" => legs = <<>>

\* The manoeuvres of a route of one section cut its line into pieces that follow each
\* other to its end; with more sections those of the first are in its line where they
\* belong, and those of the others somewhere in it (buildResultFromRoute).
ManoeuvresFollow == stage = "ok" /\ wanted = "manoeuvres" =>
  LET sections == answers[1]
      n == sections[1].points
      own == sections[1].offsets
  IN /\ \A i \in DOMAIN nav : n > 0 => nav[i].start \in 0..(n - 1) /\ nav[i].end \in 0..(n - 1)
     /\ \A i \in DOMAIN own : own[i] \in 0..(n - 1) => nav[i].start = own[i]
     /\ \A i \in 1..(Len(nav) - 1) : nav[i].end = nav[i + 1].start
     /\ \A i \in 1..(Len(own) - 1) : nav[i].start <= nav[i].end
     /\ nav # <<>> /\ n > 0 => nav[Len(nav)].end = n - 1
     /\ legs[1].distance = Sum(Length, sections)

\* A line that comes whole is read as it was, and one that is cut off is an error or a
\* beginning of it (DecodeFlexiblePolyline).
LinesRead ==
  LET data == Encode(text.line)
      read == Decode(SubSeq(data, 1, text.came))
      flat == [i \in DOMAIN text.line |-> <<text.line[i][1], text.line[i][2]>>]
  IN /\ text.came = Len(data) => read.ok /\ read.points = flat
     /\ read.ok => IsPrefix(read.points, flat)

RouteSound == TypeOK /\ LegsWhole /\ Billed /\ ManoeuvresFollow /\ LinesRead
=============================================================================
