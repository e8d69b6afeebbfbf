--------------------------- MODULE RequestsProofs ---------------------------
(***************************************************************************)
(* Proofs about Requests, for every list of parameters, every conversion   *)
(* and every data: reading a list pair by pair, twice, gives what the list *)
(* as a whole means, and a Calculator used again starts like a new one.    *)
(***************************************************************************)
EXTENDS Requests, FiniteSetTheorems, SequenceTheorems, TLAPS

-----------------------------------------------------------------------------
(***************************************************************************)
(* The parameters.  The invariant says what is known of the pairs before   *)
(* pos, in each of the two passes.                                         *)
(***************************************************************************)

CommonNames == {"scenario", "forward"} \cup Numeric

\* k is the last of the first `limit` pairs with the name n.
IsLast(k, n, limit) ==
    /\ k \in 1 .. limit /\ parameters[k].name = n
    /\ \A j \in 1 .. limit : parameters[j].name = n => j <= k

\* No pair among the first `limit` has the name n.
NotAmong(n, limit) == \A k \in 1 .. limit : parameters[k].name # n

\* The flag for alternatives is up in one of the first `limit` pairs.
Asked(limit) ==
    /\ request = "route"
    /\ \E k \in 1 .. limit : /\ parameters[k].name = "alternatives"
                             /\ parameters[k].text \in {"true", "1"}

\* What ReadPoint has made of the first `limit` pairs.
PointsRead(limit) ==
    /\ \A k \in 1 .. limit :
         IsPoint(request, parameters[k].name) =>
           /\ parameters[k].text \in DOMAIN Coordinates
           /\ parameters[k].name \in DOMAIN points
    /\ \A n \in DOMAIN points :
         /\ IsPoint(request, n)
         /\ \E k \in 1 .. limit :
              IsLast(k, n, limit) /\ points[n] = Coordinates[parameters[k].text]
    /\ alternatives = Asked(limit)

\* Every point the request must have is among the points read.
PointsThere == \A k \in DOMAIN PointNames(request) : PointNames(request)[k] \in DOMAIN points

\* What ReadCommon has made of the first `limit` pairs: the number of n, ...
NumberRead(n, limit) ==
    \/ NotAmong(n, limit) /\ common[n] = Defaults[n]
    \/ \E k \in 1 .. limit :
         IsLast(k, n, limit) /\ common[n] = Adjusted(n, Integer[parameters[k].text])

\* ... the scenario ...
ScenarioRead(limit) ==
    \/ NotAmong("scenario_id", limit) /\ common["scenario"] = {}
    \/ \E k \in 1 .. limit :
         IsLast(k, "scenario_id", limit) /\ common["scenario"] = {Uuid[parameters[k].text]}

\* ... the direction, which one time_type of "1" turns for good ...
Forward(limit) ==
    \A k \in 1 .. limit : parameters[k].name = "time_type" => parameters[k].text # "1"

\* ... and all of them.
CommonRead(limit) ==
    /\ DOMAIN common = CommonNames
    /\ \A k \in 1 .. limit : ~Wrong(parameters[k])
    /\ \A n \in Numeric : NumberRead(n, limit)
    /\ ScenarioRead(limit)
    /\ common["forward"] = Forward(limit)

\* The inductive invariant: what is known while the pairs are read.
ReadingInv ==
    /\ parameters \in Seq([name : STRING, text : Texts])
    /\ pos \in 1 .. Len(parameters) + 1
    /\ pass \in {"points", "common"} => request \in {"route", "accessibility"}
    /\ pass = "points" => PointsRead(pos - 1) /\ common = Defaults
    /\ pass = "common" => /\ PointsRead(Len(parameters)) /\ PointsThere
                          /\ CommonRead(pos - 1)
    /\ AcceptedWhenComplete /\ LastPairCounts /\ CalculatorCanRely /\ ErrorNamesTheCause

-----------------------------------------------------------------------------
\* The last pair of a name is the one whose text counts.
LEMMA LastTextIs ==
    ASSUME parameters \in Seq([name : STRING, text : Texts]), NEW n, NEW k,
           IsLast(k, n, Len(parameters))
    PROVE  Given(n) /\ LastText(n) = parameters[k].text
  <1>1. k \in Places(n) /\ \A j \in Places(n) : j <= k
    BY DEF IsLast, Places
  <1>2. \A l \in Places(n) : (\A j \in Places(n) : j <= l) => l = k
    BY <1>1 DEF Places
  <1>. QED
    BY <1>1, <1>2 DEF Given, LastText

\* A name with no pair is not given.
LEMMA NotGivenIs ==
    ASSUME parameters \in Seq([name : STRING, text : Texts]), NEW n
    PROVE  NotAmong(n, Len(parameters)) <=> ~Given(n)
  BY DEF NotAmong, Given, Places

\* The names of points, one by one.
LEMMA PointNamesAre ==
    /\ request = "route" => /\ DOMAIN PointNames(request) = {1, 2}
                            /\ PointNames(request)[1] = "origin"
                            /\ PointNames(request)[2] = "destination"
    /\ request = "accessibility" => /\ DOMAIN PointNames(request) = {1}
                                    /\ PointNames(request)[1] = "place"
  BY DEF PointNames

\* The names a request takes for points.
LEMMA IsPointMeans ==
    ASSUME NEW n
    PROVE  /\ request = "route" => (IsPoint(request, n) <=> n \in {"origin", "destination"})
           /\ request = "accessibility" => (IsPoint(request, n) <=> n = "place")
  BY PointNamesAre DEF IsPoint

\* One more pair read: which pair is the last of its name.
LEMMA LastExtends ==
    ASSUME NEW limit \in Nat, NEW n, NEW k
    PROVE  /\ parameters[limit + 1].name = n => IsLast(limit + 1, n, limit + 1)
           /\ (IsLast(k, n, limit) /\ parameters[limit + 1].name # n) => IsLast(k, n, limit + 1)
           /\ (NotAmong(n, limit) /\ parameters[limit + 1].name # n) => NotAmong(n, limit + 1)
  BY DEF IsLast, NotAmong
\* Away from "done" there is nothing to show of the four properties.
LEMMA NotDoneYet ==
    pass' # "done" =>
      /\ AcceptedWhenComplete' /\ LastPairCounts' /\ CalculatorCanRely' /\ ErrorNamesTheCause'
  BY DEF AcceptedWhenComplete, LastPairCounts, CalculatorCanRely, ErrorNamesTheCause

\* A pair whose text is no point ends the reading with an error that names it.
LEMMA PointThrown ==
    ASSUME ReadingInv, pass = "points", pos <= Len(parameters),
           IsPoint(request, Name), Text \notin DOMAIN Coordinates, Throw(INVALID(Name))
    PROVE  ReadingInv'
  <1>1. pos \in DOMAIN parameters
    BY DEF ReadingInv
  <1>2. request = "route" => \/ Name = "origin" /\ outcome' = "INVALID_ORIGIN"
                             \/ Name = "destination" /\ outcome' = "INVALID_DESTINATION"
    BY IsPointMeans DEF Throw, INVALID
  <1>3. request = "accessibility" => outcome' = "INVALID_PLACE"
    BY IsPointMeans DEF Throw, INVALID
  <1>4. outcome' # "accepted"
    BY <1>2, <1>3 DEF ReadingInv
  <1>5. AcceptedWhenComplete'
    BY <1>1, <1>4 DEF AcceptedWhenComplete, Throw, Name, Text
  <1>6. ErrorNamesTheCause'
    <2>. SUFFICES ASSUME request = "route" PROVE ErrorNamesTheCause'
      BY DEF ErrorNamesTheCause, Throw
    <2>1. pos \in Places(Name)
      BY <1>1 DEF Places, Name
    <2>2. CASE Name = "origin" /\ outcome' = "INVALID_ORIGIN"
      BY <2>1, <2>2 DEF ErrorNamesTheCause, Throw, getResponseCode, Places, Text
    <2>3. CASE Name = "destination" /\ outcome' = "INVALID_DESTINATION"
      BY <2>1, <2>3 DEF ErrorNamesTheCause, Throw, getResponseCode, Places, Text
    <2>. QED
      BY <1>2, <2>2, <2>3
  <1>. QED
    BY <1>4, <1>5, <1>6 DEF ReadingInv, Throw, LastPairCounts, CalculatorCanRely

\* Any other pair adds its point, or nothing, to what was read before it.
LEMMA PointTaken ==
    ASSUME ReadingInv, ReadPoint, IsPoint(request, Name) => Text \in DOMAIN Coordinates
    PROVE  ReadingInv'
  <1>. DEFINE isPoint == IsPoint(request, Name)
  <1>1. /\ pass = "points" /\ pos \in Nat /\ pos >= 1 /\ pos <= Len(parameters)
        /\ Len(parameters) \in Nat
    BY DEF ReadingInv, ReadPoint
  <1>2. /\ pos' = pos + 1 /\ UNCHANGED <<request, parameters, pass, common, outcome>>
        /\ points' = IF isPoint
                     THEN [p \in DOMAIN points \cup {Name} |->
                             IF p = Name THEN Coordinates[Text] ELSE points[p]]
                     ELSE points
        /\ alternatives' = (alternatives \/ (/\ request = "route" /\ Name = "alternatives"
                                             /\ Text \in {"true", "1"}))
    BY DEF ReadPoint, Throw
  <1>3. PointsRead(pos - 1)
    BY <1>1 DEF ReadingInv
  <1>4. \A k \in 1 .. pos : k \in 1 .. pos - 1 \/ k = pos
    BY <1>1
  <1>5. PointsRead(pos - 1)'
    <2>1. \A k \in 1 .. pos : IsPoint(request, parameters[k].name) =>
            parameters[k].text \in DOMAIN Coordinates /\ parameters[k].name \in DOMAIN points'
      BY <1>2, <1>3, <1>4 DEF PointsRead, Name, Text
    <2>2. ASSUME NEW n \in DOMAIN points'
          PROVE  /\ IsPoint(request, n)
                 /\ \E k \in 1 .. pos :
                      IsLast(k, n, pos) /\ points'[n] = Coordinates[parameters[k].text]
      <3>1. CASE isPoint /\ n = Name
        BY <1>1, <1>2, <3>1 DEF IsLast, Name, Text
      <3>2. CASE ~(isPoint /\ n = Name)
        <4>1. n \in DOMAIN points /\ points'[n] = points[n]
          BY <1>2, <2>2, <3>2
        <4>2. PICK k \in 1 .. pos - 1 : IsLast(k, n, pos - 1) /\ points[n] = Coordinates[parameters[k].text]
          BY <1>3, <4>1 DEF PointsRead
        <4>3. IsPoint(request, n)
          BY <1>1, <1>3, <4>1 DEF PointsRead, ReadingInv
        <4>4. parameters[pos].name # n
          BY <3>2, <4>3 DEF Name
        <4>5. IsLast(k, n, pos)
          BY <1>1, <4>2, <4>4 DEF IsLast
        <4>. QED
          BY <1>1, <4>1, <4>2, <4>3, <4>5
      <3>. QED
        BY <3>1, <3>2
    <2>3. alternatives' = Asked(pos)
      <3>1. alternatives = Asked(pos - 1)
        BY <1>3 DEF PointsRead
      <3>2. Asked(pos) <=> \/ Asked(pos - 1)
                           \/ request = "route" /\ Name = "alternatives" /\ Text \in {"true", "1"}
        BY <1>1, <1>4 DEF Asked, Name, Text
      <3>3. Asked(pos) \in BOOLEAN
        BY DEF Asked
      <3>. QED
        BY <1>2, <3>1, <3>2, <3>3, Zenon
    <2>4. pos' - 1 = pos
      BY <1>1, <1>2
    <2>5. \A k, n : IsLast(k, n, pos - 1)' <=> IsLast(k, n, pos)
      BY <1>2, <2>4 DEF IsLast
    <2>6. Asked(pos - 1)' = Asked(pos)
      BY <1>2, <2>4 DEF Asked
    <2>7. (alternatives = Asked(pos - 1))'
      BY <2>3, <2>6, Zenon
    <2>8. \A n \in DOMAIN points' :
            /\ IsPoint(request', n)
            /\ \E k \in 1 .. (pos' - 1) :
                 /\ IsLast(k, n, pos - 1)'
                 /\ points'[n] = Coordinates[parameters'[k].text]
      <3>. SUFFICES ASSUME NEW n \in DOMAIN points'
                    PROVE  /\ IsPoint(request', n)
                           /\ \E k \in 1 .. (pos' - 1) :
                                /\ IsLast(k, n, pos - 1)'
                                /\ points'[n] = Coordinates[parameters'[k].text]
        OBVIOUS
      <3>1. PICK k \in 1 .. pos :
              IsLast(k, n, pos) /\ points'[n] = Coordinates[parameters[k].text]
        BY <2>2
      <3>2. IsLast(k, n, pos - 1)' /\ parameters' = parameters /\ k \in 1 .. (pos' - 1)
        BY <1>2, <2>4, <2>5, <3>1
      <3>3. IsPoint(request', n)
        BY <1>2, <2>2
      <3>. QED
        BY <3>1, <3>2, <3>3
    <2>. QED
      BY <1>2, <2>1, <2>4, <2>7, <2>8 DEF PointsRead
  <1>. QED
    BY <1>1, <1>2, <1>5, NotDoneYet DEF ReadingInv

\* A point that is missing: none of the pairs has its name.
LEMMA PointMissing ==
    ASSUME ReadingInv, pass = "points", pos > Len(parameters),
           NEW k \in DOMAIN PointNames(request), PointNames(request)[k] \notin DOMAIN points,
           \A j \in 1 .. k - 1 : PointNames(request)[j] \in DOMAIN points,
           Throw(MISSING(PointNames(request)[k]))
    PROVE  ReadingInv'
  <1>. DEFINE n == PointNames(request)[k]
  <1>1. PointsRead(Len(parameters)) /\ parameters \in Seq([name : STRING, text : Texts])
    BY DEF ReadingInv
  <1>2. IsPoint(request, n)
    BY DEF IsPoint
  <1>3. ~Given(n)
    BY <1>1, <1>2 DEF PointsRead, Given, Places
  <1>4. request = "route" => \/ n = "origin" /\ outcome' = "MISSING_ORIGIN"
                             \/ n = "destination" /\ outcome' = "MISSING_DESTINATION"
    BY PointNamesAre DEF Throw, MISSING
  <1>5. request = "accessibility" => outcome' = "MISSING_PLACE"
    BY PointNamesAre DEF Throw, MISSING
  <1>6. outcome' # "accepted"
    BY <1>4, <1>5 DEF ReadingInv
  <1>7. AcceptedWhenComplete'
    BY <1>3, <1>6 DEF AcceptedWhenComplete, Throw, Given, Places
  <1>8. ErrorNamesTheCause'
    <2>1. CASE n = "origin" /\ outcome' = "MISSING_ORIGIN"
      BY <1>3, <2>1 DEF ErrorNamesTheCause, Throw, getResponseCode, Given, Places
    <2>2. CASE n = "destination" /\ outcome' = "MISSING_DESTINATION"
      BY <1>3, <2>2 DEF ErrorNamesTheCause, Throw, getResponseCode, Given, Places
    <2>3. CASE request # "route"
      BY <2>3 DEF ErrorNamesTheCause, Throw
    <2>. QED
      BY <1>4, <2>1, <2>2, <2>3
  <1>. QED
    BY <1>6, <1>7, <1>8 DEF ReadingInv, Throw, LastPairCounts, CalculatorCanRely

\* All points are there: the second pass starts with the defaults.
LEMMA CommonStarts ==
    ASSUME ReadingInv, pass = "points", pos > Len(parameters), PointsThere,
           pass' = "common", pos' = 1,
           UNCHANGED <<request, parameters, points, alternatives, common, outcome>>
    PROVE  ReadingInv'
  <1>1. PointsRead(Len(parameters))'
    <2>1. pos - 1 = Len(parameters)
      BY DEF ReadingInv
    <2>2. PointsRead(Len(parameters))
      BY <2>1 DEF ReadingInv
    <2>. QED
      BY <2>2 DEF PointsRead, IsLast, Asked
  <1>2. CommonRead(pos - 1)'
    <2>1. common' = Defaults /\ pos' - 1 = 0
      BY DEF ReadingInv
    <2>2. DOMAIN Defaults = CommonNames /\ Defaults["scenario"] = {} /\ Defaults["forward"] = TRUE
      BY DEF Defaults, CommonNames, Numeric
    <2>3. (common["forward"] = Forward(pos - 1))'
      <3>1. Forward(pos - 1)' = TRUE
        BY <2>1 DEF Forward
      <3>. QED
        BY <2>1, <2>2, <3>1, Zenon
    <2>4. /\ \A k \in 1 .. (pos' - 1) : ~Wrong(parameters[k])'
          /\ \A n \in Numeric : NumberRead(n, pos - 1)'
          /\ ScenarioRead(pos - 1)'
      BY <2>1, <2>2 DEF NumberRead, ScenarioRead, NotAmong
    <2>. QED
      BY <2>1, <2>2, <2>3, <2>4 DEF CommonRead
  <1>3. PointsThere'
    BY DEF PointsThere
  <1>. QED
    BY <1>1, <1>2, <1>3, NotDoneYet DEF ReadingInv

\* A pair createCommonParameter cannot read ends the reading with an error
\* that names it.
LEMMA CommonThrown ==
    ASSUME ReadingInv, pass = "common", pos <= Len(parameters), NEW type,
           \/ Name \in Numeric /\ Text \notin DOMAIN Integer /\ type = "INVALID_NUMERICAL_DATA"
           \/ Name = "scenario_id" /\ Text \notin KnownScenario /\ type = "INVALID_SCENARIO",
           Throw(type)
    PROVE  ReadingInv'
  <1>1. pos \in DOMAIN parameters
    BY DEF ReadingInv
  <1>2. Wrong(parameters[pos])
    BY DEF Wrong, Name, Text
  <1>3. outcome' = type /\ outcome' # "accepted"
    BY DEF Throw
  <1>4. AcceptedWhenComplete'
    BY <1>1, <1>2, <1>3 DEF AcceptedWhenComplete, Throw, Wrong
  <1>5. ErrorNamesTheCause'
    <2>1. pos \in Places(Name)
      BY <1>1 DEF Places, Name
    <2>2. CASE Name \in Numeric /\ type = "INVALID_NUMERICAL_DATA"
      BY <1>2, <1>3, <2>1, <2>2 DEF ErrorNamesTheCause, Throw, getResponseCode, Places, Wrong
    <2>3. CASE Name = "scenario_id" /\ type = "INVALID_SCENARIO"
      BY <1>2, <1>3, <2>1, <2>3 DEF ErrorNamesTheCause, Throw, getResponseCode, Places, Wrong
    <2>. QED
      BY <2>2, <2>3
  <1>. QED
    BY <1>3, <1>4, <1>5 DEF ReadingInv, Throw, LastPairCounts, CalculatorCanRely

\* Any other pair adds what it says, or nothing, to what was read before it.
LEMMA CommonTaken ==
    ASSUME ReadingInv, pass = "common", pos <= Len(parameters), ~Wrong(parameters[pos]),
           common' = CASE Name \in Numeric ->
                             [common EXCEPT ![Name] = Adjusted(Name, Integer[Text])]
                        [] Name = "scenario_id" -> [common EXCEPT !.scenario = {Uuid[Text]}]
                        [] Name = "time_type" /\ Text = "1" -> [common EXCEPT !.forward = FALSE]
                        [] OTHER -> common,
           pos' = pos + 1,
           UNCHANGED <<request, parameters, pass, points, alternatives, outcome>>
    PROVE  ReadingInv'
  <1>1. /\ pos \in Nat /\ pos >= 1 /\ Len(parameters) \in Nat /\ pos' - 1 = pos
        /\ CommonRead(pos - 1) /\ PointsRead(Len(parameters)) /\ PointsThere
    BY DEF ReadingInv
  <1>2. \A k \in 1 .. pos : k \in 1 .. pos - 1 \/ k = pos
    BY <1>1
  <1>3. DOMAIN common = CommonNames
    BY <1>1 DEF CommonRead
  <1>4. "scenario_id" \notin Numeric /\ "time_type" \notin Numeric
    BY DEF Numeric
  <1>5. /\ DOMAIN common' = CommonNames
        /\ \A n \in Numeric : common'[n] = IF n = Name THEN Adjusted(n, Integer[Text]) ELSE common[n]
        /\ common'["scenario"] = IF Name = "scenario_id" THEN {Uuid[Text]} ELSE common["scenario"]
        /\ common'["forward"] = IF Name = "time_type" /\ Text = "1" THEN FALSE ELSE common["forward"]
    <2>1. CASE Name \in Numeric
      <3>1. common' = [common EXCEPT ![Name] = Adjusted(Name, Integer[Text])]
        BY <2>1, <1>4
      <3>. QED
        BY <1>3, <1>4, <2>1, <3>1 DEF CommonNames, Numeric
    <2>2. CASE Name = "scenario_id"
      <3>1. common' = [common EXCEPT !["scenario"] = {Uuid[Text]}]
        BY <2>2, <1>4
      <3>. QED
        BY <1>3, <1>4, <2>2, <3>1 DEF CommonNames, Numeric
    <2>3. CASE Name = "time_type" /\ Text = "1"
      <3>1. common' = [common EXCEPT !["forward"] = FALSE]
        BY <2>3, <1>4
      <3>. QED
        BY <1>3, <1>4, <2>3, <3>1 DEF CommonNames, Numeric
    <2>4. CASE Name \notin Numeric /\ Name # "scenario_id" /\ ~(Name = "time_type" /\ Text = "1")
      BY <1>3, <2>4
    <2>. QED
      BY <2>1, <2>2, <2>3, <2>4
  <1>6. CommonRead(pos - 1)'
    <2>1. \A k \in 1 .. pos : ~Wrong(parameters[k])'
      BY <1>1, <1>2 DEF CommonRead, Wrong
    <2>2. ASSUME NEW n \in Numeric
          PROVE  NumberRead(n, pos - 1)'
      <3>1. NumberRead(n, pos - 1)
        BY <1>1 DEF CommonRead
      <3>2. CASE n = Name
        <4>1. IsLast(pos, n, pos)
          BY <1>1, <3>2 DEF IsLast, Name
        <4>. QED
          BY <1>1, <1>5, <3>2, <4>1 DEF NumberRead, IsLast, Text
      <3>3. CASE n # Name
        <4>1. common'[n] = common[n]
          BY <1>5, <3>3
        <4>2. NotAmong(n, pos - 1) => NotAmong(n, pos - 1)'
          BY <1>1, <1>2, <3>3 DEF NotAmong, Name
        <4>3. \A k \in 1 .. pos - 1 : IsLast(k, n, pos - 1) => IsLast(k, n, pos - 1)'
          BY <1>1, <1>2, <3>3 DEF IsLast, Name
        <4>4. parameters' = parameters /\ \A k \in 1 .. pos - 1 : k \in 1 .. (pos' - 1)
          BY <1>1
        <4>5. CASE NotAmong(n, pos - 1) /\ common[n] = Defaults[n]
          BY <4>1, <4>2, <4>5 DEF NumberRead
        <4>6. ASSUME NEW k \in 1 .. pos - 1, IsLast(k, n, pos - 1),
                     common[n] = Adjusted(n, Integer[parameters[k].text])
              PROVE  NumberRead(n, pos - 1)'
          BY <4>1, <4>3, <4>4, <4>6 DEF NumberRead
        <4>. QED
          BY <3>1, <4>5, <4>6 DEF NumberRead
      <3>. QED
        BY <3>2, <3>3
    <2>3. ScenarioRead(pos - 1)'
      <3>1. ScenarioRead(pos - 1)
        BY <1>1 DEF CommonRead
      <3>2. CASE Name = "scenario_id"
        <4>1. IsLast(pos, "scenario_id", pos)
          BY <1>1, <3>2 DEF IsLast, Name
        <4>. QED
          BY <1>1, <1>5, <3>2, <4>1 DEF ScenarioRead, IsLast, Text
      <3>3. CASE Name # "scenario_id"
        <4>1. common'["scenario"] = common["scenario"]
          BY <1>5, <3>3
        <4>2. NotAmong("scenario_id", pos - 1) => NotAmong("scenario_id", pos - 1)'
          BY <1>1, <1>2, <3>3 DEF NotAmong, Name
        <4>3. \A k \in 1 .. pos - 1 : IsLast(k, "scenario_id", pos - 1) => IsLast(k, "scenario_id", pos - 1)'
          BY <1>1, <1>2, <3>3 DEF IsLast, Name
        <4>4. parameters' = parameters /\ \A k \in 1 .. pos - 1 : k \in 1 .. (pos' - 1)
          BY <1>1
        <4>5. CASE NotAmong("scenario_id", pos - 1) /\ common["scenario"] = {}
          BY <4>1, <4>2, <4>5 DEF ScenarioRead
        <4>6. ASSUME NEW k \in 1 .. pos - 1, IsLast(k, "scenario_id", pos - 1),
                     common["scenario"] = {Uuid[parameters[k].text]}
              PROVE  ScenarioRead(pos - 1)'
          BY <4>1, <4>3, <4>4, <4>6 DEF ScenarioRead
        <4>. QED
          BY <3>1, <4>5, <4>6 DEF ScenarioRead
      <3>. QED
        BY <3>2, <3>3
    <2>4. (common["forward"] = Forward(pos - 1))'
      <3>1. common["forward"] = Forward(pos - 1)
        BY <1>1 DEF CommonRead
      <3>2. Forward(pos - 1)' <=> Forward(pos - 1) /\ ~(Name = "time_type" /\ Text = "1")
        BY <1>1, <1>2 DEF Forward, Name, Text
      <3>3. Forward(pos - 1)' \in BOOLEAN /\ Forward(pos - 1) \in BOOLEAN
        BY DEF Forward
      <3>4. CASE Name = "time_type" /\ Text = "1"
        BY <1>5, <3>2, <3>3, <3>4
      <3>5. CASE ~(Name = "time_type" /\ Text = "1")
        <4>1. common'["forward"] = common["forward"]
          BY <1>5, <3>5
        <4>. QED
          BY <3>1, <3>2, <3>3, <3>5, <4>1, Zenon
      <3>. QED
        BY <3>4, <3>5
    <2>. QED
      BY <1>1, <1>5, <2>1, <2>2, <2>3, <2>4 DEF CommonRead
  <1>7. PointsRead(Len(parameters))' /\ PointsThere'
    BY <1>1 DEF PointsRead, PointsThere, IsLast, Asked
  <1>. QED
    BY <1>1, <1>6, <1>7, NotDoneYet DEF ReadingInv

\* All pairs are read: what the second pass made of them is what the list
\* as a whole says.
LEMMA ListRead ==
    ASSUME ReadingInv, pass = "common", pos > Len(parameters)
    PROVE  /\ \A k \in DOMAIN parameters : ~Wrong(parameters[k])
           /\ \A k \in DOMAIN parameters :
                IsPoint(request, parameters[k].name) => parameters[k].text \in DOMAIN Coordinates
           /\ \A k \in DOMAIN PointNames(request) :
                /\ Given(PointNames(request)[k])
                /\ points[PointNames(request)[k]] = Coordinates[LastText(PointNames(request)[k])]
           /\ alternatives = Asked(Len(parameters))
           /\ IF Given("scenario_id") THEN /\ common.scenario = {Uuid[LastText("scenario_id")]}
                                           /\ LastText("scenario_id") \in KnownScenario
              ELSE common.scenario = {}
           /\ \A n \in Numeric :
                /\ common[n] = IF Given(n) THEN Adjusted(n, Integer[LastText(n)]) ELSE Defaults[n]
                /\ Given(n) => LastText(n) \in DOMAIN Integer
           /\ common.forward = Forward(Len(parameters))
  <1>1. parameters \in Seq([name : STRING, text : Texts]) /\ pos - 1 = Len(parameters)
    BY DEF ReadingInv
  <1>2. DOMAIN parameters = 1 .. Len(parameters) /\ Len(parameters) \in Nat
    BY <1>1
  <1>3. CommonRead(Len(parameters)) /\ PointsRead(Len(parameters)) /\ PointsThere
    BY <1>1 DEF ReadingInv
  <1>4. \A k \in DOMAIN parameters : ~Wrong(parameters[k])
    BY <1>2, <1>3 DEF CommonRead
  <1>5. \A k \in DOMAIN parameters :
          IsPoint(request, parameters[k].name) => parameters[k].text \in DOMAIN Coordinates
    BY <1>2, <1>3 DEF PointsRead
  <1>6. ASSUME NEW k \in DOMAIN PointNames(request)
        PROVE  /\ Given(PointNames(request)[k])
               /\ points[PointNames(request)[k]] = Coordinates[LastText(PointNames(request)[k])]
    <2>1. PointNames(request)[k] \in DOMAIN points
      BY <1>3 DEF PointsThere
    <2>2. PICK j : /\ IsLast(j, PointNames(request)[k], Len(parameters))
                   /\ points[PointNames(request)[k]] = Coordinates[parameters[j].text]
      BY <1>3, <2>1 DEF PointsRead
    <2>. QED
      BY <1>1, <2>2, LastTextIs
  <1>7. IF Given("scenario_id") THEN /\ common["scenario"] = {Uuid[LastText("scenario_id")]}
                                     /\ LastText("scenario_id") \in KnownScenario
        ELSE common["scenario"] = {}
    <2>1. CASE NotAmong("scenario_id", Len(parameters)) /\ common["scenario"] = {}
      BY <1>1, <2>1, NotGivenIs
    <2>2. ASSUME NEW k, IsLast(k, "scenario_id", Len(parameters)),
                 common["scenario"] = {Uuid[parameters[k].text]}
          PROVE  /\ Given("scenario_id") /\ LastText("scenario_id") = parameters[k].text
                 /\ LastText("scenario_id") \in KnownScenario
      <3>1. Given("scenario_id") /\ LastText("scenario_id") = parameters[k].text
        BY <1>1, <2>2, LastTextIs
      <3>2. k \in DOMAIN parameters /\ parameters[k].name = "scenario_id"
        BY <1>2, <2>2 DEF IsLast
      <3>. QED
        BY <1>4, <3>1, <3>2 DEF Wrong
    <2>. QED
      BY <1>3, <2>1, <2>2 DEF CommonRead, ScenarioRead
  <1>8. ASSUME NEW n \in Numeric
        PROVE  /\ common[n] = IF Given(n) THEN Adjusted(n, Integer[LastText(n)]) ELSE Defaults[n]
               /\ Given(n) => LastText(n) \in DOMAIN Integer
    <2>1. CASE NotAmong(n, Len(parameters)) /\ common[n] = Defaults[n]
      BY <1>1, <2>1, NotGivenIs
    <2>2. ASSUME NEW k, IsLast(k, n, Len(parameters)),
                 common[n] = Adjusted(n, Integer[parameters[k].text])
          PROVE  /\ Given(n) /\ LastText(n) = parameters[k].text
                 /\ LastText(n) \in DOMAIN Integer
      <3>1. Given(n) /\ LastText(n) = parameters[k].text
        BY <1>1, <2>2, LastTextIs
      <3>2. k \in DOMAIN parameters /\ parameters[k].name = n
        BY <1>2, <2>2 DEF IsLast
      <3>. QED
        BY <1>4, <3>1, <3>2 DEF Wrong
    <2>. QED
      BY <1>3, <2>1, <2>2 DEF CommonRead, NumberRead
  <1>9. alternatives = Asked(Len(parameters)) /\ common["forward"] = Forward(Len(parameters))
    BY <1>3, Zenon DEF PointsRead, CommonRead
  <1>. QED
    BY <1>4, <1>5, <1>6, <1>7, <1>8, <1>9, Zenon

\* What there is to know of the largest int.
LEMMA MaxInt == MAX_INT \in Int /\ MAX_INT > 1800
  BY SMT DEF MAX_INT

\* The branches of createCommonParameter: the range of what each one keeps.
LEMMA AdjustedRange ==
    ASSUME NEW v \in -MAX_INT .. MAX_INT
    PROVE  /\ Adjusted("time_of_trip", v) = IF v < 0 THEN -1 ELSE v
           /\ Adjusted("min_waiting_time", v) \in 0 .. MAX_INT
           /\ \/ Adjusted("max_first_waiting_time", v) = -1
              \/ Adjusted("max_first_waiting_time", v) \in 1 .. MAX_INT
           /\ \A n \in {"max_travel_time", "max_access_travel_time", "max_egress_travel_time",
                        "max_transfer_travel_time"} : Adjusted(n, v) \in 1 .. MAX_INT
  <1>1. v \in Int /\ v <= MAX_INT
    BY MaxInt, SMT
  <1>2. /\ Adjusted("time_of_trip", v) = IF v < 0 THEN -1 ELSE v
        /\ Adjusted("min_waiting_time", v) = IF v < 0 THEN 0 ELSE v
        /\ Adjusted("max_first_waiting_time", v) = IF v <= 0 THEN -1 ELSE v
        /\ \A n \in {"max_travel_time", "max_access_travel_time", "max_egress_travel_time",
                     "max_transfer_travel_time"} : Adjusted(n, v) = IF v <= 0 THEN MAX_INT ELSE v
    BY DEF Adjusted
  <1>. QED
    BY <1>1, <1>2, MaxInt, SMT

\* The defaults lie in the same ranges, except that there is no time.
LEMMA DefaultsRange ==
    /\ Defaults["time_of_trip"] = -1 /\ Defaults["min_waiting_time"] \in 0 .. MAX_INT
    /\ Defaults["max_first_waiting_time"] \in 1 .. MAX_INT
    /\ \A n \in {"max_travel_time", "max_access_travel_time", "max_egress_travel_time",
                 "max_transfer_travel_time"} : Defaults[n] \in 1 .. MAX_INT
  BY MaxInt, SMT DEF Defaults

\* The validation at the end sees the whole list.
LEMMA ListChecked ==
    ASSUME ReadingInv, CheckCommon
    PROVE  ReadingInv'
  <1>1. /\ pass = "common" /\ pos > Len(parameters)
        /\ pass' = "done" /\ UNCHANGED <<request, parameters, pos, points, alternatives, common>>
        /\ outcome' = IF common.scenario = {} THEN "MISSING_SCENARIO"
             ELSE IF common.scenario \cap Served = {} THEN "EMPTY_SCENARIO"
             ELSE IF common.time_of_trip < 0 THEN "MISSING_TIME_OF_TRIP"
             ELSE "accepted"
    BY DEF CheckCommon, Throw
  <1>2. /\ parameters \in Seq([name : STRING, text : Texts])
        /\ request \in {"route", "accessibility"}
    BY <1>1 DEF ReadingInv
  <1>3. IF Given("scenario_id") THEN /\ common.scenario = {Uuid[LastText("scenario_id")]}
                                     /\ LastText("scenario_id") \in KnownScenario
        ELSE common.scenario = {}
    BY <1>1, ListRead
  <1>4. /\ common.time_of_trip = IF Given("time_of_trip")
                                 THEN Adjusted("time_of_trip", Integer[LastText("time_of_trip")])
                                 ELSE -1
        /\ Given("time_of_trip") => LastText("time_of_trip") \in DOMAIN Integer
    BY <1>1, ListRead, DefaultsRange DEF Numeric
  <1>5. Given("time_of_trip") => Integer[LastText("time_of_trip")] \in -MAX_INT .. MAX_INT
    BY <1>4, ConversionsAssumption
  <1>6. /\ common.time_of_trip \in Int
        /\ common.time_of_trip >= 0 <=> Given("time_of_trip") /\ Integer[LastText("time_of_trip")] >= 0
        /\ Given("time_of_trip") => Integer[LastText("time_of_trip")] \in Int
        /\ common.time_of_trip <= MAX_INT
    BY <1>4, <1>5, AdjustedRange, MaxInt, SMT
  <1>7. common.scenario \cap Served # {} <=>
          Given("scenario_id") /\ Uuid[LastText("scenario_id")] \in Served
    BY <1>3
  <1>8. outcome' = "accepted" <=> /\ Given("scenario_id") /\ Uuid[LastText("scenario_id")] \in Served
                                  /\ Given("time_of_trip") /\ Integer[LastText("time_of_trip")] >= 0
    BY <1>1, <1>3, <1>6, <1>7
  <1>9. AcceptedWhenComplete'
    <2>1. AcceptedWhenComplete' <=>
            (outcome' = "accepted" <=>
              /\ \A k \in DOMAIN parameters : ~Wrong(parameters[k])
              /\ \A k \in DOMAIN parameters :
                    IsPoint(request, parameters[k].name) => parameters[k].text \in DOMAIN Coordinates
              /\ \A k \in DOMAIN PointNames(request) : Given(PointNames(request)[k])
              /\ Given("scenario_id") /\ Uuid[LastText("scenario_id")] \in Served
              /\ Given("time_of_trip") /\ Integer[LastText("time_of_trip")] >= 0)
      BY <1>1 DEF AcceptedWhenComplete, Wrong, Given, LastText, Places
    <2>. QED
      BY <1>1, <1>8, <2>1, ListRead
  <1>10. LastPairCounts'
    <2>. SUFFICES ASSUME outcome' = "accepted" PROVE LastPairCounts'
      BY DEF LastPairCounts
    <2>1. LastPairCounts' <=>
            /\ common.scenario = {Uuid[LastText("scenario_id")]}
            /\ \A n \in Numeric :
                 common[n] = IF Given(n) THEN Adjusted(n, Integer[LastText(n)]) ELSE Defaults[n]
            /\ common.forward = (\A k \in Places("time_type") : parameters[k].text # "1")
            /\ \A k \in DOMAIN PointNames(request) :
                 points[PointNames(request)[k]] = Coordinates[LastText(PointNames(request)[k])]
            /\ alternatives <=> /\ request = "route"
                                /\ \E k \in Places("alternatives") :
                                     parameters[k].text \in {"true", "1"}
      BY <1>1 DEF LastPairCounts, Given, LastText, Places
    <2>2. common.scenario = {Uuid[LastText("scenario_id")]}
      BY <1>3, <1>8
    <2>3. (\A k \in Places("time_type") : parameters[k].text # "1") = Forward(Len(parameters))
      BY <1>2 DEF Places, Forward
    <2>4. common.forward = (\A k \in Places("time_type") : parameters[k].text # "1")
      BY <1>1, <2>3, ListRead, Zenon
    <2>5. Asked(Len(parameters)) <=> /\ request = "route"
                                     /\ \E k \in Places("alternatives") :
                                          parameters[k].text \in {"true", "1"}
      BY <1>2 DEF Places, Asked
    <2>6. alternatives = Asked(Len(parameters))
      BY <1>1, ListRead, Zenon
    <2>7. alternatives <=> /\ request = "route"
                           /\ \E k \in Places("alternatives") :
                                parameters[k].text \in {"true", "1"}
      BY <2>5, <2>6, Zenon
    <2>8. /\ \A n \in Numeric :
                 common[n] = IF Given(n) THEN Adjusted(n, Integer[LastText(n)]) ELSE Defaults[n]
          /\ \A k \in DOMAIN PointNames(request) :
                 points[PointNames(request)[k]] = Coordinates[LastText(PointNames(request)[k])]
      BY <1>1, ListRead, Zenon
    <2>. QED
      BY <2>1, <2>2, <2>4, <2>7, <2>8, Zenon
  <1>11. CalculatorCanRely'
    <2>. SUFFICES ASSUME outcome' = "accepted" PROVE CalculatorCanRely'
      BY DEF CalculatorCanRely
    <2>1. ASSUME NEW n \in Numeric
          PROVE  \/ common[n] = Defaults[n]
                 \/ \E v \in -MAX_INT .. MAX_INT : common[n] = Adjusted(n, v)
      BY <1>1, ListRead, ConversionsAssumption
    <2>2. /\ common["min_waiting_time"] \in 0 .. MAX_INT
          /\ \/ common["max_first_waiting_time"] = -1
             \/ common["max_first_waiting_time"] \in 1 .. MAX_INT
      <3>1. "min_waiting_time" \in Numeric /\ "max_first_waiting_time" \in Numeric
        BY DEF Numeric
      <3>. QED
        BY <2>1, <3>1, AdjustedRange, DefaultsRange
    <2>3. ASSUME NEW n \in {"max_travel_time", "max_access_travel_time", "max_egress_travel_time",
                            "max_transfer_travel_time"}
          PROVE  common[n] \in 1 .. MAX_INT
      <3>1. n \in Numeric
        BY DEF Numeric
      <3>. QED
        BY <2>1, <3>1, AdjustedRange, DefaultsRange
    <2>4. common.scenario # {} /\ common.scenario \subseteq Served
      BY <1>3, <1>8
    <2>5. common.time_of_trip \in 0 .. MAX_INT
      BY <1>6, <1>8, MaxInt, SMT
    <2>. QED
      BY <1>1, <2>2, <2>3, <2>4, <2>5 DEF CalculatorCanRely, Served
  <1>12. ErrorNamesTheCause'
    <2>. SUFFICES ASSUME outcome' # "accepted", request = "route" PROVE ErrorNamesTheCause'
      BY <1>1 DEF ErrorNamesTheCause
    <2>1. CASE outcome' = "MISSING_SCENARIO"
      <3>1. ~Given("scenario_id")
        BY <1>1, <1>3, <2>1
      <3>. QED
        BY <1>1, <2>1, <3>1 DEF ErrorNamesTheCause, getResponseCode, Given, Places
    <2>2. CASE outcome' = "EMPTY_SCENARIO"
      <3>1. Given("scenario_id") /\ Uuid[LastText("scenario_id")] \notin Served
        BY <1>1, <1>3, <1>7, <2>2
      <3>. QED
        BY <1>1, <2>2, <3>1 DEF ErrorNamesTheCause, getResponseCode, Given, Places, LastText
    <2>3. CASE outcome' = "MISSING_TIME_OF_TRIP"
      <3>1. Given("time_of_trip") => Integer[LastText("time_of_trip")] < 0
        BY <1>1, <1>6, <2>3
      <3>. QED
        BY <1>1, <2>3, <3>1 DEF ErrorNamesTheCause, getResponseCode, Given, Places, LastText
    <2>. QED
      BY <1>1, <2>1, <2>2, <2>3
  <1>. QED
    BY <1>1, <1>2, <1>9, <1>10, <1>11, <1>12 DEF ReadingInv

\* The invariant holds when a request comes in, or none does.
LEMMA ReadingInit == Init => ReadingInv
  <1>. SUFFICES ASSUME Init PROVE ReadingInv
    OBVIOUS
  <1>1. CASE ParametersInit
    <2>1. parameters \in Seq([name : STRING, text : Texts]) /\ pos = 1 /\ pass = "points"
      BY <1>1, ListsAssumption DEF ParametersInit
    <2>2. PointsRead(0)
      <3>1. Asked(0) = FALSE
        BY DEF Asked
      <3>2. alternatives = Asked(0)
        BY <1>1, <3>1, Zenon DEF ParametersInit
      <3>. QED
        BY <1>1, <3>2 DEF ParametersInit, PointsRead
    <2>. QED
      BY <1>1, <2>1, <2>2 DEF ParametersInit, ReadingInv, AcceptedWhenComplete, LastPairCounts,
                              CalculatorCanRely, ErrorNamesTheCause
  <1>2. CASE parameters = <<>> /\ pos = 1 /\ pass = "over"
    BY <1>2 DEF ReadingInv, AcceptedWhenComplete, LastPairCounts, CalculatorCanRely,
                ErrorNamesTheCause
  <1>. QED
    BY <1>1, <1>2 DEF Init

\* Every step keeps it.
LEMMA ReadingStep == ReadingInv /\ [Next]_vars => ReadingInv'
  <1>. SUFFICES ASSUME ReadingInv, [Next]_vars PROVE ReadingInv'
    OBVIOUS
  <1>1. CASE UNCHANGED parametersVars
    <2>1. PointsRead(pos - 1)' = PointsRead(pos - 1)
      BY <1>1 DEF parametersVars, PointsRead, IsLast, Asked
    <2>2. PointsRead(Len(parameters))' = PointsRead(Len(parameters)) /\ PointsThere' = PointsThere
      BY <1>1 DEF parametersVars, PointsRead, PointsThere, IsLast, Asked
    <2>3. CommonRead(pos - 1)' = CommonRead(pos - 1)
      BY <1>1 DEF parametersVars, CommonRead, NumberRead, ScenarioRead, Forward, NotAmong, IsLast, Wrong
    <2>4. AcceptedWhenComplete' = AcceptedWhenComplete
      BY <1>1 DEF parametersVars, AcceptedWhenComplete, Wrong, Given, LastText, Places
    <2>5. LastPairCounts' = LastPairCounts /\ CalculatorCanRely' = CalculatorCanRely
      BY <1>1 DEF parametersVars, LastPairCounts, CalculatorCanRely, Given, LastText, Places
    <2>6. ErrorNamesTheCause' = ErrorNamesTheCause
      BY <1>1 DEF parametersVars, ErrorNamesTheCause, Wrong, Given, LastText, Places
    <2>. QED
      BY <1>1, <2>1, <2>2, <2>3, <2>4, <2>5, <2>6 DEF parametersVars, ReadingInv
  <1>2. CASE ReadPoint
    BY <1>2, PointThrown, PointTaken DEF ReadPoint
  <1>3. CASE CheckPoints
    BY <1>3, PointMissing, CommonStarts DEF CheckPoints, PointsThere
  <1>4. CASE ReadCommon
    BY <1>4, CommonThrown, CommonTaken DEF ReadCommon
  <1>5. CASE CheckCommon
    BY <1>5, ListChecked
  <1>6. CASE Accepted
    BY <1>6 DEF Accepted, ReadingInv, AcceptedWhenComplete, LastPairCounts, CalculatorCanRely,
                ErrorNamesTheCause
  <1>. QED
    BY <1>1, <1>2, <1>3, <1>4, <1>5, <1>6 DEF Next, vars, ReadParameters, ParametersNext, Refused,
       CalculateNext, OdTrip, parametersVars

\* The invariant of the two passes over the pairs, for every list.
THEOREM ReadingInvariant == Spec => []ReadingInv
  BY ReadingInit, ReadingStep, PTL DEF Spec

\* createRouteODParameter, createAccessibilityParameter and
\* createCommonParameter accept exactly the lists that are complete and
\* readable, in whatever order the pairs come.
THEOREM RequestAcceptedWhenComplete == Spec => []AcceptedWhenComplete
  <1>1. ReadingInv => AcceptedWhenComplete
    BY DEF ReadingInv
  <1>. QED
    BY <1>1, ReadingInvariant, PTL

\* The parameters of an accepted request are those of the last pair of each
\* name, or the defaults.
THEOREM RequestLastPairCounts == Spec => []LastPairCounts
  <1>1. ReadingInv => LastPairCounts
    BY DEF ReadingInv
  <1>. QED
    BY <1>1, ReadingInvariant, PTL

\* The calculation may take the ranges of the parameters for granted.
THEOREM RequestCalculatorCanRely == Spec => []CalculatorCanRely
  <1>1. ReadingInv => CalculatorCanRely
    BY DEF ReadingInv
  <1>. QED
    BY <1>1, ReadingInvariant, PTL

\* getResponseCode names a parameter only when that parameter is at fault.
THEOREM RequestErrorNamesTheCause == Spec => []ErrorNamesTheCause
  <1>1. ReadingInv => ErrorNamesTheCause
    BY DEF ReadingInv
  <1>. QED
    BY <1>1, ReadingInvariant, PTL

-----------------------------------------------------------------------------
(***************************************************************************)
(* The Calculator.  A record is known by its fields.                       *)
(***************************************************************************)

CalcFields ==
    {"odTrip", "accessFootpaths", "egressFootpaths", "nodesAccess", "nodesEgress",
     "departureTime", "arrivalTime", "minAccess", "maxAccess", "minEgress", "maxEgress",
     "tentative", "reverseTentative", "forwardSteps", "reverseSteps", "overlay",
     "connectionSet", "disabled"}

IsCalc(c) == c = [f \in CalcFields |-> c[f]]

\* The same fields, the same Calculator.
LEMMA SameFields ==
    ASSUME NEW c, NEW d, IsCalc(c), IsCalc(d), \A f \in CalcFields : c[f] = d[f]
    PROVE  c = d
  BY DEF IsCalc

LEMMA NewFields ==
    /\ DOMAIN NewCalculator = CalcFields
    /\ NewCalculator["odTrip"] = NoTrip
  BY DEF NewCalculator, CalcFields

\* What the first lines of reset leave.
AfterCleared(d, c, b) ==
    /\ DOMAIN d = CalcFields /\ IsCalc(d)
    /\ d["accessFootpaths"] = IF b THEN {} ELSE c["accessFootpaths"]
    /\ d["egressFootpaths"] = IF b THEN {} ELSE c["egressFootpaths"]
    /\ d["departureTime"] = IF ~query.forward THEN -1
                            ELSE IF c["odTrip"] # NoTrip THEN c["odTrip"].departure
                            ELSE query.time
    /\ d["arrivalTime"] = IF query.forward THEN -1 ELSE query.time
    /\ d["overlay"] = "clean" /\ d["forwardSteps"] = {} /\ d["reverseSteps"] = {}
    /\ d["minAccess"] = MAX_INT /\ d["maxAccess"] = -1
    /\ d["minEgress"] = MAX_INT /\ d["maxEgress"] = -1
    /\ \A f \in {"odTrip", "nodesAccess", "nodesEgress", "tentative", "reverseTentative",
                 "connectionSet", "disabled"} : d[f] = c[f]

\* That it does so.
LEMMA ClearedFields ==
    ASSUME NEW c, DOMAIN c = CalcFields, NEW b, NEW d, d = Cleared(c, b)
    PROVE  AfterCleared(d, c, b)
  BY DEF Cleared, CalcFields, IsCalc, AfterCleared

\* The fields the part for the origin writes.
AccessFields ==
    {"accessFootpaths", "nodesAccess", "forwardSteps", "tentative", "minAccess", "maxAccess"}

AfterAccess(d, c, b, reply) ==
    LET paths == IF b THEN AccessFootpaths(c, reply) ELSE c["accessFootpaths"] IN
    /\ DOMAIN d = CalcFields /\ IsCalc(d)
    /\ d["accessFootpaths"] = paths /\ d["nodesAccess"] = paths
    /\ d["forwardSteps"] = NodesOf(paths)
    /\ d["tentative"] = [n \in NodeSet |-> IF n \in NodesOf(paths)
                                           THEN c["departureTime"] + TimeAt(paths, n)
                                           ELSE MAX_INT]
    /\ d["minAccess"] = Least(TimesOf(paths)) /\ d["maxAccess"] = Greatest(TimesOf(paths))
    /\ \A f \in CalcFields \ AccessFields : d[f] = c[f]

\* That it does so.
LEMMA WithAccessFields ==
    ASSUME NEW c, DOMAIN c = CalcFields, NEW b, NEW reply, NEW d,
           d = WithAccess(c, b, reply)
    PROVE  AfterAccess(d, c, b, reply)
  BY DEF WithAccess, CalcFields, AccessFields, IsCalc, AfterAccess

\* The fields the part for the destination writes.
EgressFields ==
    {"egressFootpaths", "nodesEgress", "reverseSteps", "reverseTentative", "minEgress", "maxEgress"}

AfterEgress(d, c, b, reply) ==
    LET paths == IF b THEN EgressFootpaths(c, reply) ELSE c["egressFootpaths"] IN
    /\ DOMAIN d = CalcFields /\ IsCalc(d)
    /\ d["egressFootpaths"] = paths /\ d["nodesEgress"] = paths
    /\ d["reverseSteps"] = NodesOf(paths)
    /\ d["reverseTentative"] = [n \in NodeSet |-> IF n \in NodesOf(paths)
                                                  THEN c["arrivalTime"] - TimeAt(paths, n)
                                                  ELSE -1]
    /\ d["minEgress"] = Least(TimesOf(paths)) /\ d["maxEgress"] = Greatest(TimesOf(paths))
    /\ \A f \in CalcFields \ EgressFields : d[f] = c[f]

\* That it does so.
LEMMA WithEgressFields ==
    ASSUME NEW c, DOMAIN c = CalcFields, NEW b, NEW reply, NEW d,
           d = WithEgress(c, b, reply)
    PROVE  AfterEgress(d, c, b, reply)
  BY DEF WithEgress, CalcFields, EgressFields, IsCalc, AfterEgress

AfterFilters(d, c, s, lines) ==
    /\ DOMAIN d = CalcFields /\ IsCalc(d)
    /\ d["connectionSet"] = getConnectionsForScenario(s)
    /\ d["disabled"] = {t \in getConnectionsForScenario(s) : t.line \in lines}
    /\ \A f \in CalcFields \ {"connectionSet", "disabled"} : d[f] = c[f]

\* That it does so.
LEMMA FilterFields ==
    ASSUME NEW c, DOMAIN c = CalcFields, NEW s, NEW lines, NEW d, d = ResetFilters(c, s, lines)
    PROVE  AfterFilters(d, c, s, lines)
  BY DEF ResetFilters, CalcFields, IsCalc, AfterFilters

\* The footpaths found do not depend on what the Calculator held before.
LEMMA FootpathsAsked ==
    ASSUME NEW c, NEW d, c["odTrip"] = d["odTrip"], NEW reply
    PROVE  /\ AccessFootpaths(c, reply) = AccessFootpaths(d, reply)
           /\ EgressFootpaths(c, reply) = EgressFootpaths(d, reply)
  <1>1. c.odTrip = d.odTrip
    OBVIOUS
  <1>. QED
    BY <1>1 DEF AccessFootpaths, EgressFootpaths

\* What the part of reset before the filters leaves, for a query with an
\* origin and a destination: nothing of the Calculator but its OD trip, the
\* footpaths it is to keep, and the filters.
AfterFootpaths(x, c, b, r) ==
    /\ DOMAIN x = CalcFields /\ IsCalc(x)
    /\ x["odTrip"] = c["odTrip"]
    /\ x["connectionSet"] = c["connectionSet"] /\ x["disabled"] = c["disabled"]
    /\ x["overlay"] = "clean"
    /\ x["departureTime"] = IF ~query.forward THEN -1
                            ELSE IF c["odTrip"] # NoTrip THEN c["odTrip"].departure
                            ELSE query.time
    /\ x["arrivalTime"] = IF query.forward THEN -1 ELSE query.time
    /\ x["accessFootpaths"] =
         IF b THEN AccessFootpaths(c, r.access) ELSE c["accessFootpaths"]
    /\ x["nodesAccess"] = x["accessFootpaths"]
    /\ x["forwardSteps"] = NodesOf(x["accessFootpaths"])
    /\ x["tentative"] = [n \in NodeSet |->
         IF n \in NodesOf(x["accessFootpaths"])
         THEN x["departureTime"] + TimeAt(x["accessFootpaths"], n) ELSE MAX_INT]
    /\ x["minAccess"] = Least(TimesOf(x["accessFootpaths"]))
    /\ x["maxAccess"] = Greatest(TimesOf(x["accessFootpaths"]))
    /\ x["egressFootpaths"] =
         IF b THEN EgressFootpaths(c, r.egress) ELSE c["egressFootpaths"]
    /\ x["nodesEgress"] = x["egressFootpaths"]
    /\ x["reverseSteps"] = NodesOf(x["egressFootpaths"])
    /\ x["reverseTentative"] = [n \in NodeSet |->
         IF n \in NodesOf(x["egressFootpaths"])
         THEN x["arrivalTime"] - TimeAt(x["egressFootpaths"], n) ELSE -1]
    /\ x["minEgress"] = Least(TimesOf(x["egressFootpaths"]))
    /\ x["maxEgress"] = Greatest(TimesOf(x["egressFootpaths"]))

\* That it does so.
LEMMA FootpathsFields ==
    ASSUME NEW c, DOMAIN c = CalcFields, NEW b, NEW r, query.kind # "accessibility",
           NEW x, x = Footpaths(c, b, r)
    PROVE  AfterFootpaths(x, c, b, r)
  <1>a. PICK access : access = IF b THEN AccessFootpaths(c, r.access) ELSE c["accessFootpaths"]
    OBVIOUS
  <1>e. PICK egress : egress = IF b THEN EgressFootpaths(c, r.egress) ELSE c["egressFootpaths"]
    OBVIOUS
  <1>1. HasOrigin /\ HasDestination
    BY DEF HasOrigin, HasDestination
  <1>2. PICK c1 : c1 = Cleared(c, b)
    OBVIOUS
  <1>3. PICK c2 : c2 = WithAccess(c1, b, r.access)
    OBVIOUS
  <1>4. x = WithEgress(c2, b, r.egress)
    BY <1>1, <1>2, <1>3 DEF Footpaths
  <1>5. /\ DOMAIN c1 = CalcFields
        /\ c1["accessFootpaths"] = IF b THEN {} ELSE c["accessFootpaths"]
        /\ c1["egressFootpaths"] = IF b THEN {} ELSE c["egressFootpaths"]
        /\ c1["departureTime"] = IF ~query.forward THEN -1
                                 ELSE IF c["odTrip"] # NoTrip THEN c["odTrip"].departure
                                 ELSE query.time
        /\ c1["arrivalTime"] = IF query.forward THEN -1 ELSE query.time
        /\ c1["overlay"] = "clean"
        /\ c1["odTrip"] = c["odTrip"]
        /\ c1["connectionSet"] = c["connectionSet"] /\ c1["disabled"] = c["disabled"]
    <2>1. AfterCleared(c1, c, b)
      BY <1>2, ClearedFields
    <2>. QED
      BY <2>1 DEF AfterCleared
  <1>6. access = IF b THEN AccessFootpaths(c1, r.access) ELSE c1["accessFootpaths"]
    BY <1>a, <1>5, FootpathsAsked
  <1>7. /\ DOMAIN c2 = CalcFields
        /\ c2["accessFootpaths"] = access /\ c2["nodesAccess"] = access
        /\ c2["forwardSteps"] = NodesOf(access)
        /\ c2["tentative"] = [n \in NodeSet |-> IF n \in NodesOf(access)
                                                THEN c1["departureTime"] + TimeAt(access, n)
                                                ELSE MAX_INT]
        /\ c2["minAccess"] = Least(TimesOf(access)) /\ c2["maxAccess"] = Greatest(TimesOf(access))
        /\ \A f \in CalcFields \ AccessFields : c2[f] = c1[f]
    <2>1. AfterAccess(c2, c1, b, r.access)
      BY <1>3, <1>5, WithAccessFields
    <2>. QED
      BY <1>6, <2>1 DEF AfterAccess
  <1>8. \A f \in {"odTrip", "egressFootpaths", "connectionSet", "disabled", "arrivalTime",
                  "departureTime", "overlay"} : f \in CalcFields \ AccessFields
    BY DEF CalcFields, AccessFields
  <1>9. /\ c2["odTrip"] = c1["odTrip"] /\ c2["egressFootpaths"] = c1["egressFootpaths"]
        /\ c2["connectionSet"] = c1["connectionSet"] /\ c2["disabled"] = c1["disabled"]
        /\ c2["arrivalTime"] = c1["arrivalTime"] /\ c2["departureTime"] = c1["departureTime"]
        /\ c2["overlay"] = c1["overlay"]
    BY <1>7, <1>8
  <1>10. egress = IF b THEN EgressFootpaths(c2, r.egress) ELSE c2["egressFootpaths"]
    BY <1>e, <1>5, <1>9, FootpathsAsked
  <1>11. /\ DOMAIN x = CalcFields /\ IsCalc(x)
         /\ x["egressFootpaths"] = egress /\ x["nodesEgress"] = egress
         /\ x["reverseSteps"] = NodesOf(egress)
         /\ x["reverseTentative"] = [n \in NodeSet |-> IF n \in NodesOf(egress)
                                                       THEN c2["arrivalTime"] - TimeAt(egress, n)
                                                       ELSE -1]
         /\ x["minEgress"] = Least(TimesOf(egress)) /\ x["maxEgress"] = Greatest(TimesOf(egress))
         /\ \A f \in CalcFields \ EgressFields : x[f] = c2[f]
    <2>1. AfterEgress(x, c2, b, r.egress)
      BY <1>4, <1>7, WithEgressFields
    <2>. QED
      BY <1>10, <2>1 DEF AfterEgress
  <1>12. \A f \in AccessFields \cup {"odTrip", "connectionSet", "disabled", "arrivalTime",
                                     "departureTime", "overlay"} : f \in CalcFields \ EgressFields
    BY DEF CalcFields, AccessFields, EgressFields
  <1>13. /\ x["odTrip"] = c2["odTrip"]
         /\ x["connectionSet"] = c2["connectionSet"] /\ x["disabled"] = c2["disabled"]
         /\ x["arrivalTime"] = c2["arrivalTime"] /\ x["departureTime"] = c2["departureTime"]
         /\ x["overlay"] = c2["overlay"]
    BY <1>11, <1>12
  <1>14. /\ x["accessFootpaths"] = c2["accessFootpaths"] /\ x["nodesAccess"] = c2["nodesAccess"]
         /\ x["forwardSteps"] = c2["forwardSteps"] /\ x["tentative"] = c2["tentative"]
         /\ x["minAccess"] = c2["minAccess"] /\ x["maxAccess"] = c2["maxAccess"]
    BY <1>11, <1>12 DEF AccessFields
  <1>. QED
    BY <1>a, <1>e, <1>5, <1>7, <1>9, <1>11, <1>13, <1>14 DEF AfterFootpaths

\* A new Calculator that is given an OD trip.
LEMMA NewWithTrip ==
    ASSUME NEW trip, NEW d, d = [NewCalculator EXCEPT !.odTrip = trip]
    PROVE  DOMAIN d = CalcFields /\ d["odTrip"] = trip
  BY DEF NewCalculator, CalcFields

\* Two Calculators with the same OD trip, and the same footpaths found or
\* kept, leave the part before the filters with the same fields.
LEMMA SameFootpaths ==
    ASSUME NEW c, NEW d, c["odTrip"] = d["odTrip"], NEW b, NEW t, NEW r, NEW x1, NEW y1,
           AfterFootpaths(x1, c, b, r), AfterFootpaths(y1, d, t, r),
           x1["accessFootpaths"] = y1["accessFootpaths"],
           x1["egressFootpaths"] = y1["egressFootpaths"]
    PROVE  \A f \in CalcFields \ {"connectionSet", "disabled"} : x1[f] = y1[f]
  <1>1. AfterFootpaths(x1, c, b, r)
    OBVIOUS
  <1>2. AfterFootpaths(y1, d, t, r)
    OBVIOUS
  <1>3. \A f \in CalcFields \ {"connectionSet", "disabled"} : x1[f] = y1[f]
    <2>1. /\ x1["odTrip"] = y1["odTrip"] /\ x1["overlay"] = y1["overlay"]
          /\ x1["departureTime"] = y1["departureTime"] /\ x1["arrivalTime"] = y1["arrivalTime"]
      BY <1>1, <1>2 DEF AfterFootpaths
    <2>2. /\ x1["nodesAccess"] = y1["nodesAccess"]
          /\ x1["forwardSteps"] = y1["forwardSteps"]
          /\ x1["minAccess"] = y1["minAccess"] /\ x1["maxAccess"] = y1["maxAccess"]
      <3>1. PICK p1 : p1 = x1["accessFootpaths"] /\ p1 = y1["accessFootpaths"]
        OBVIOUS
      <3>2. /\ x1["nodesAccess"] = p1 /\ x1["forwardSteps"] = NodesOf(p1)
            /\ x1["minAccess"] = Least(TimesOf(p1)) /\ x1["maxAccess"] = Greatest(TimesOf(p1))
        BY <1>1, <3>1, Zenon DEF AfterFootpaths
      <3>3. /\ y1["nodesAccess"] = p1 /\ y1["forwardSteps"] = NodesOf(p1)
            /\ y1["minAccess"] = Least(TimesOf(p1)) /\ y1["maxAccess"] = Greatest(TimesOf(p1))
        BY <1>2, <3>1, Zenon DEF AfterFootpaths
      <3>. QED
        BY <3>2, <3>3
    <2>3. /\ x1["nodesEgress"] = y1["nodesEgress"]
          /\ x1["reverseSteps"] = y1["reverseSteps"]
          /\ x1["minEgress"] = y1["minEgress"] /\ x1["maxEgress"] = y1["maxEgress"]
      <3>1. PICK p1 : p1 = x1["egressFootpaths"] /\ p1 = y1["egressFootpaths"]
        OBVIOUS
      <3>2. /\ x1["nodesEgress"] = p1 /\ x1["reverseSteps"] = NodesOf(p1)
            /\ x1["minEgress"] = Least(TimesOf(p1)) /\ x1["maxEgress"] = Greatest(TimesOf(p1))
        BY <1>1, <3>1, Zenon DEF AfterFootpaths
      <3>3. /\ y1["nodesEgress"] = p1 /\ y1["reverseSteps"] = NodesOf(p1)
            /\ y1["minEgress"] = Least(TimesOf(p1)) /\ y1["maxEgress"] = Greatest(TimesOf(p1))
        BY <1>2, <3>1, Zenon DEF AfterFootpaths
      <3>. QED
        BY <3>2, <3>3
    <2>4. x1["tentative"] = y1["tentative"]
      <3>1. PICK t1, p1 : t1 = x1["departureTime"] /\ p1 = x1["accessFootpaths"]
        OBVIOUS
      <3>2. x1["tentative"] = [n \in NodeSet |-> IF n \in NodesOf(p1)
                                                 THEN t1 + TimeAt(p1, n) ELSE MAX_INT]
        BY <1>1, <3>1, Zenon DEF AfterFootpaths
      <3>3. t1 = y1["departureTime"] /\ p1 = y1["accessFootpaths"]
        BY <2>1, <3>1
      <3>4. y1["tentative"] = [n \in NodeSet |-> IF n \in NodesOf(p1)
                                                 THEN t1 + TimeAt(p1, n) ELSE MAX_INT]
        BY <1>2, <3>3, Zenon DEF AfterFootpaths
      <3>. QED
        BY <3>2, <3>4, Zenon
    <2>5. x1["reverseTentative"] = y1["reverseTentative"]
      <3>1. PICK t1, p1 : t1 = x1["arrivalTime"] /\ p1 = x1["egressFootpaths"]
        OBVIOUS
      <3>2. x1["reverseTentative"] = [n \in NodeSet |-> IF n \in NodesOf(p1)
                                                        THEN t1 - TimeAt(p1, n) ELSE -1]
        BY <1>1, <3>1, Zenon DEF AfterFootpaths
      <3>3. t1 = y1["arrivalTime"] /\ p1 = y1["egressFootpaths"]
        BY <2>1, <3>1
      <3>4. y1["reverseTentative"] = [n \in NodeSet |-> IF n \in NodesOf(p1)
                                                        THEN t1 - TimeAt(p1, n) ELSE -1]
        BY <1>2, <3>3, Zenon DEF AfterFootpaths
      <3>. QED
        BY <3>2, <3>4, Zenon
    <2>. QED
      BY <2>1, <2>2, <2>3, <2>4, <2>5 DEF CalcFields
  <1>. QED
    BY <1>3

\* A Calculator that keeps nothing but footpaths a new one would come to as
\* well leaves reset like a new one.
LEMMA SameReset ==
    ASSUME NEW c, DOMAIN c = CalcFields, NEW d, DOMAIN d = CalcFields, c["odTrip"] = d["odTrip"],
           NEW b, NEW t, NEW lines, NEW r, query.kind # "accessibility",
           NEW x1, x1 = Footpaths(c, b, r), NEW y1, y1 = Footpaths(d, t, r),
           x1["accessFootpaths"] = y1["accessFootpaths"],
           x1["egressFootpaths"] = y1["egressFootpaths"],
           NEW y, y = ResetFilters(y1, scenario, lines),
           NEW x, x = ResetFilters(x1, scenario, lines)
    PROVE  /\ x = y /\ DOMAIN x = CalcFields /\ x["odTrip"] = c["odTrip"]
           /\ x["accessFootpaths"] = x1["accessFootpaths"]
           /\ x["egressFootpaths"] = x1["egressFootpaths"]
  <1>1. AfterFootpaths(x1, c, b, r)
    BY FootpathsFields
  <1>2. AfterFootpaths(y1, d, t, r)
    BY FootpathsFields
  <1>3. DOMAIN x1 = CalcFields /\ x1["odTrip"] = c["odTrip"] /\ DOMAIN y1 = CalcFields
    BY <1>1, <1>2 DEF AfterFootpaths
  <1>4. \A f \in CalcFields \ {"connectionSet", "disabled"} : x1[f] = y1[f]
    BY <1>1, <1>2, SameFootpaths
  <1>5. AfterFilters(x, x1, scenario, lines)
    BY <1>3, FilterFields
  <1>6. AfterFilters(y, y1, scenario, lines)
    BY <1>3, FilterFields
  <1>7. /\ DOMAIN x = CalcFields /\ IsCalc(x) /\ IsCalc(y)
        /\ x["connectionSet"] = y["connectionSet"] /\ x["disabled"] = y["disabled"]
        /\ \A f \in CalcFields \ {"connectionSet", "disabled"} : x[f] = x1[f] /\ y[f] = y1[f]
    BY <1>5, <1>6, Zenon DEF AfterFilters
  <1>8. \A f \in CalcFields : x[f] = y[f]
    BY <1>4, <1>7
  <1>9. \A f \in {"odTrip", "accessFootpaths", "egressFootpaths"} :
          f \in CalcFields \ {"connectionSet", "disabled"}
    BY DEF CalcFields
  <1>. QED
    BY <1>3, <1>7, <1>8, <1>9, SameFields

\* The same when it keeps filters a new one would set.
LEMMA KeptReset ==
    ASSUME NEW c, DOMAIN c = CalcFields, NEW d, DOMAIN d = CalcFields, c["odTrip"] = d["odTrip"],
           NEW b, NEW t, NEW lines, NEW r, query.kind # "accessibility",
           NEW x1, x1 = Footpaths(c, b, r), NEW y1, y1 = Footpaths(d, t, r),
           x1["accessFootpaths"] = y1["accessFootpaths"],
           x1["egressFootpaths"] = y1["egressFootpaths"],
           NEW y, y = ResetFilters(y1, scenario, lines),
           c["connectionSet"] = y["connectionSet"], c["disabled"] = y["disabled"]
    PROVE  x1 = y /\ DOMAIN x1 = CalcFields /\ x1["odTrip"] = c["odTrip"]
  <1>1. AfterFootpaths(x1, c, b, r)
    BY FootpathsFields
  <1>2. AfterFootpaths(y1, d, t, r)
    BY FootpathsFields
  <1>3. /\ DOMAIN x1 = CalcFields /\ IsCalc(x1) /\ x1["odTrip"] = c["odTrip"]
        /\ DOMAIN y1 = CalcFields
        /\ x1["connectionSet"] = y["connectionSet"] /\ x1["disabled"] = y["disabled"]
    BY <1>1, <1>2 DEF AfterFootpaths
  <1>4. \A f \in CalcFields \ {"connectionSet", "disabled"} : x1[f] = y1[f]
    BY <1>1, <1>2, SameFootpaths
  <1>5. AfterFilters(y, y1, scenario, lines)
    BY <1>3, FilterFields
  <1>6. IsCalc(y) /\ \A f \in CalcFields \ {"connectionSet", "disabled"} : y[f] = y1[f]
    BY <1>5 DEF AfterFilters
  <1>7. \A f \in CalcFields : x1[f] = y[f]
    BY <1>3, <1>4, <1>6
  <1>. QED
    BY <1>3, <1>6, <1>7, SameFields

\* All fields of the same values: the same first part of reset.
LEMMA SameCleared ==
    ASSUME NEW c, NEW d, DOMAIN c = CalcFields, DOMAIN d = CalcFields,
           \A f \in CalcFields : c[f] = d[f]
    PROVE  Cleared(c, TRUE) = Cleared(d, TRUE)
  <1>1. PICK x, y, b : b = TRUE /\ x = Cleared(c, b) /\ y = Cleared(d, b)
    OBVIOUS
  <1>2. AfterCleared(x, c, b) /\ AfterCleared(y, d, b)
    BY <1>1, ClearedFields
  <1>3. /\ x["accessFootpaths"] = {} /\ y["accessFootpaths"] = {}
        /\ x["egressFootpaths"] = {} /\ y["egressFootpaths"] = {}
    BY <1>1, <1>2 DEF AfterCleared
  <1>4. c["odTrip"] = d["odTrip"]
    BY DEF CalcFields
  <1>5. x["departureTime"] = y["departureTime"] /\ x["arrivalTime"] = y["arrivalTime"]
    BY <1>2, <1>4 DEF AfterCleared
  <1>6. /\ x["overlay"] = y["overlay"] /\ x["forwardSteps"] = y["forwardSteps"]
        /\ x["reverseSteps"] = y["reverseSteps"]
        /\ x["minAccess"] = y["minAccess"] /\ x["maxAccess"] = y["maxAccess"]
        /\ x["minEgress"] = y["minEgress"] /\ x["maxEgress"] = y["maxEgress"]
    BY <1>2 DEF AfterCleared
  <1>7. \A f \in {"odTrip", "nodesAccess", "nodesEgress", "tentative", "reverseTentative",
                  "connectionSet", "disabled"} : f \in CalcFields /\ x[f] = c[f] /\ y[f] = d[f]
    BY <1>2 DEF AfterCleared, CalcFields
  <1>8. \A f \in CalcFields : x[f] = y[f]
    BY <1>3, <1>5, <1>6, <1>7 DEF CalcFields
  <1>. QED
    BY <1>1, <1>2, <1>8, SameFields DEF AfterCleared

\* What reset does whatever the query: it keeps the OD trip and sets the
\* filters.
AfterReset(x, c, lines) ==
    /\ DOMAIN x = CalcFields /\ x["odTrip"] = c["odTrip"]
    /\ x["connectionSet"] = getConnectionsForScenario(scenario)
    /\ x["disabled"] = {t \in getConnectionsForScenario(scenario) : t.line \in lines}

\* That it does so.
LEMMA ResetKeeps ==
    ASSUME NEW c, DOMAIN c = CalcFields, NEW b, NEW r, NEW lines, NEW x, x = Reset(c, b, TRUE, lines, r)
    PROVE  AfterReset(x, c, lines)
  <1>1. PICK c1 : c1 = Cleared(c, b)
    OBVIOUS
  <1>2. DOMAIN c1 = CalcFields /\ c1["odTrip"] = c["odTrip"]
    <2>1. AfterCleared(c1, c, b)
      BY <1>1, ClearedFields
    <2>. QED
      BY <2>1 DEF AfterCleared
  <1>3. PICK c2 : c2 = IF HasOrigin THEN WithAccess(c1, b, r.access) ELSE c1
    OBVIOUS
  <1>4. "odTrip" \in CalcFields \ AccessFields /\ "odTrip" \in CalcFields \ EgressFields
        /\ "odTrip" \in CalcFields \ {"connectionSet", "disabled"}
    BY DEF CalcFields, AccessFields, EgressFields
  <1>5. DOMAIN c2 = CalcFields /\ c2["odTrip"] = c["odTrip"]
    <2>1. HasOrigin => AfterAccess(c2, c1, b, r.access)
      BY <1>2, <1>3, WithAccessFields
    <2>. QED
      BY <1>2, <1>3, <1>4, <2>1 DEF AfterAccess
  <1>6. PICK c3 : c3 = IF HasDestination THEN WithEgress(c2, b, r.egress) ELSE c2
    OBVIOUS
  <1>7. DOMAIN c3 = CalcFields /\ c3["odTrip"] = c["odTrip"]
    <2>1. HasDestination => AfterEgress(c3, c2, b, r.egress)
      BY <1>5, <1>6, WithEgressFields
    <2>. QED
      BY <1>4, <1>5, <1>6, <2>1 DEF AfterEgress
  <1>8. x = ResetFilters(c3, scenario, lines)
    BY <1>1, <1>3, <1>6 DEF Reset, Footpaths
  <1>. QED
    <2>1. AfterFilters(x, c3, scenario, lines)
      BY <1>7, <1>8, FilterFields
    <2>. QED
      BY <1>4, <1>7, <2>1 DEF AfterFilters, AfterReset

-----------------------------------------------------------------------------
\* The trips the scenario and the lines excluded leave, once set.
FiltersSet ==
    /\ calc["connectionSet"] = getConnectionsForScenario(scenario)
    /\ calc["disabled"] = {t \in getConnectionsForScenario(scenario) : t.line \in except}

\* The footpaths an alternative may keep are the ones it would find itself.
FootpathsKept ==
    /\ calc["accessFootpaths"] = Filtered(query.origin, query.maxAccess, replies.access)
    /\ calc["egressFootpaths"] = Filtered(query.destination, query.maxEgress, replies.egress)

\* The inductive invariant: what a calculation may count on of the ones
\* before it.
ResetsInv ==
    /\ calls \in Nat
    /\ DOMAIN calc = CalcFields
    /\ query.kind # "odTrips" => calc["odTrip"] = NoTrip
    /\ pc = "parse" => calls = 0
    /\ calls = 0 => /\ calc = NewCalculator /\ resetFilters = TRUE /\ except = {}
                    /\ pc # "ready"
    /\ query.kind = "odTrips" => except = {}
    /\ (query.kind = "route" /\ calls > 0 /\ pc \in {"call", "ready"}) => FootpathsKept
    /\ pc = "ready" => FiltersSet
    /\ (query.kind = "odTrips" /\ resetFilters = FALSE) => FiltersSet
    /\ resetFilters \in BOOLEAN
    /\ NothingLeftOver

-----------------------------------------------------------------------------
\* Reset reads nothing but the query, its scenario and the filter's kind.
LEMMA ResetUnchanged ==
    ASSUME UNCHANGED <<query, scenario, euclidean>>,
           NEW c, NEW b, NEW fb, NEW lines, NEW r
    PROVE  Reset(c, b, fb, lines, r)' = Reset(c, b, fb, lines, r)
  <1>1. HasOrigin' = HasOrigin /\ HasDestination' = HasDestination
    BY DEF HasOrigin, HasDestination
  <1>2. Cleared(c, b)' = Cleared(c, b)
    BY DEF Cleared
  <1>3. \A d, reply : WithAccess(d, b, reply)' = WithAccess(d, b, reply)
    BY DEF WithAccess, AccessFootpaths, Filtered
  <1>4. \A d, reply : WithEgress(d, b, reply)' = WithEgress(d, b, reply)
    BY DEF WithEgress, EgressFootpaths, Filtered
  <1>5. Footpaths(c, b, r)' = Footpaths(c, b, r)
    BY <1>1, <1>2, <1>3, <1>4 DEF Footpaths
  <1>. QED
    BY <1>5 DEF Reset

\* So the property, after a step, is about the calculation just prepared.
LEMMA NothingLeftOverNext ==
    ASSUME UNCHANGED <<query, scenario, euclidean>>, NEW x, NEW lines, NEW r,
           calc' = x, except' = lines, replies' = r,
           x = Reset([NewCalculator EXCEPT !.odTrip = x.odTrip], TRUE, TRUE, lines, r)
    PROVE  NothingLeftOver'
  <1>1. PICK d : d = [NewCalculator EXCEPT !.odTrip = x.odTrip]
    OBVIOUS
  <1>2. Reset(d, TRUE, TRUE, lines, r)' = Reset(d, TRUE, TRUE, lines, r)
    BY ResetUnchanged
  <1>3. NothingLeftOver' <=> (pc' = "ready" => x = Reset(d, TRUE, TRUE, lines, r)')
    BY <1>1 DEF NothingLeftOver
  <1>. QED
    BY <1>1, <1>2, <1>3

\* The first calculation of a request starts from a new Calculator.
LEMMA FirstStep ==
    ASSUME ResetsInv, FirstCalculation
    PROVE  ResetsInv'
  <1>1. PICK r : Prepare(calc, TRUE, TRUE, {}, r)
    BY DEF FirstCalculation
  <1>2. /\ pc = "call" /\ calls' = 1 /\ replies' = r /\ except' = {}
        /\ UNCHANGED <<query, scenario, euclidean, resetFilters>>
        /\ query.kind # "odTrips" /\ calc = NewCalculator /\ resetFilters = TRUE
        /\ DOMAIN calc = CalcFields /\ calc["odTrip"] = NoTrip
    BY <1>1 DEF FirstCalculation, Prepare, ResetsInv
  <1>3. CASE pc' = "thrown" /\ calc' = calc
    BY <1>2, <1>3 DEF ResetsInv, NothingLeftOver
  <1>4. CASE pc' = "ready" /\ calc' = Reset(calc, TRUE, TRUE, {}, r)
    <2>1. PICK x : x = Reset(calc, TRUE, TRUE, {}, r)
      OBVIOUS
    <2>2. /\ DOMAIN x = CalcFields /\ x["odTrip"] = NoTrip
          /\ x["connectionSet"] = getConnectionsForScenario(scenario)
          /\ x["disabled"] = {t \in getConnectionsForScenario(scenario) : t.line \in {}}
      <3>1. AfterReset(x, calc, {})
        BY <1>2, <2>1, ResetKeeps
      <3>. QED
        BY <1>2, <3>1 DEF AfterReset
    <2>3. x = Reset([NewCalculator EXCEPT !.odTrip = x.odTrip], TRUE, TRUE, {}, r)
      <3>1. PICK d : d = [NewCalculator EXCEPT !.odTrip = x.odTrip]
        OBVIOUS
      <3>2. DOMAIN d = CalcFields /\ \A f \in CalcFields : calc[f] = d[f]
        BY <1>2, <2>2, <3>1
      <3>3. Cleared(calc, TRUE) = Cleared(d, TRUE)
        BY <1>2, <3>2, SameCleared
      <3>4. Footpaths(calc, TRUE, r) = Footpaths(d, TRUE, r)
        BY <3>3 DEF Footpaths
      <3>. QED
        BY <2>1, <3>1, <3>4 DEF Reset
    <2>4. NothingLeftOver'
      BY <1>2, <1>4, <2>1, <2>3, NothingLeftOverNext
    <2>5. FiltersSet'
      BY <1>2, <1>4, <2>1, <2>2 DEF FiltersSet
    <2>6. query.kind = "route" =>
            /\ x["accessFootpaths"] = Filtered(query.origin, query.maxAccess, r.access)
            /\ x["egressFootpaths"] = Filtered(query.destination, query.maxEgress, r.egress)
      <3>. SUFFICES ASSUME query.kind = "route"
                    PROVE  /\ x["accessFootpaths"] = Filtered(query.origin, query.maxAccess, r.access)
                           /\ x["egressFootpaths"] = Filtered(query.destination, query.maxEgress, r.egress)
        OBVIOUS
      <3>1. PICK y, b : y = Footpaths(calc, b, r) /\ b = TRUE
        OBVIOUS
      <3>2. AfterFootpaths(y, calc, b, r)
        BY <1>2, <3>1, FootpathsFields
      <3>3. AfterFilters(x, y, scenario, {})
        <4>1. x = ResetFilters(y, scenario, {})
          BY <2>1, <3>1 DEF Reset
        <4>2. DOMAIN y = CalcFields
          BY <3>2 DEF AfterFootpaths
        <4>. QED
          BY <4>1, <4>2, FilterFields
      <3>4. x["accessFootpaths"] = y["accessFootpaths"] /\ x["egressFootpaths"] = y["egressFootpaths"]
        BY <3>3 DEF AfterFilters, CalcFields
      <3>5. /\ y["accessFootpaths"] = AccessFootpaths(calc, r.access)
            /\ y["egressFootpaths"] = EgressFootpaths(calc, r.egress)
        BY <3>1, <3>2 DEF AfterFootpaths
      <3>6. calc.odTrip = NoTrip
        BY <1>2
      <3>. QED
        BY <3>4, <3>5, <3>6 DEF AccessFootpaths, EgressFootpaths
    <2>7. query.kind = "route" => FootpathsKept'
      BY <1>2, <1>4, <2>1, <2>6 DEF FootpathsKept, Filtered
    <2>8. calls' \in Nat /\ calls' # 0
      BY <1>2
    <2>9. /\ DOMAIN calc' = CalcFields /\ calc'["odTrip"] = NoTrip /\ query'.kind # "odTrips"
          /\ resetFilters' \in BOOLEAN /\ pc' = "ready"
      BY <1>2, <1>4, <2>1, <2>2
    <2>10. query'.kind = "route" => FootpathsKept'
      BY <1>2, <2>7
    <2>. QED
      BY <2>4, <2>5, <2>8, <2>9, <2>10 DEF ResetsInv
  <1>. QED
    BY <1>1, <1>3, <1>4 DEF Prepare

\* An alternative keeps the footpaths and sets its own filters.
LEMMA AlternativeStep ==
    ASSUME ResetsInv, AlternativeCalculation
    PROVE  ResetsInv'
  <1>1. PICK lines : Prepare(calc, FALSE, TRUE, lines, replies)
    BY DEF AlternativeCalculation
  <1>2. /\ pc = "call" /\ calls \in Nat /\ calls > 0 /\ calls' = calls + 1
        /\ replies' = replies /\ except' = lines
        /\ UNCHANGED <<query, scenario, euclidean, resetFilters>>
        /\ query.kind = "route" /\ DOMAIN calc = CalcFields /\ calc["odTrip"] = NoTrip
        /\ FootpathsKept
    BY <1>1 DEF AlternativeCalculation, Prepare, ResetsInv
  <1>3. thrown' = "none" /\ pc' = "ready" /\ calc' = Reset(calc, FALSE, TRUE, lines, replies)
    BY <1>1 DEF Prepare, ResetThrows
  <1>4. PICK x : x = Reset(calc, FALSE, TRUE, lines, replies)
    OBVIOUS
  <1>5. PICK d : d = [NewCalculator EXCEPT !.odTrip = NoTrip]
    OBVIOUS
  <1>6. DOMAIN d = CalcFields /\ d["odTrip"] = NoTrip
    BY <1>5, NewWithTrip
  <1>7. PICK x1, b : x1 = Footpaths(calc, b, replies) /\ b = FALSE
    OBVIOUS
  <1>8. PICK y1, t : y1 = Footpaths(d, t, replies) /\ t = TRUE
    OBVIOUS
  <1>9. AfterFootpaths(x1, calc, b, replies) /\ AfterFootpaths(y1, d, t, replies)
    BY <1>2, <1>6, <1>7, <1>8, FootpathsFields
  <1>10. /\ x1["accessFootpaths"] = calc["accessFootpaths"]
         /\ x1["egressFootpaths"] = calc["egressFootpaths"]
    BY <1>7, <1>9 DEF AfterFootpaths
  <1>11. /\ y1["accessFootpaths"] = calc["accessFootpaths"]
         /\ y1["egressFootpaths"] = calc["egressFootpaths"]
    <2>1. /\ y1["accessFootpaths"] = AccessFootpaths(d, replies.access)
          /\ y1["egressFootpaths"] = EgressFootpaths(d, replies.egress)
      BY <1>8, <1>9 DEF AfterFootpaths
    <2>2. d.odTrip = NoTrip
      BY <1>6
    <2>. QED
      BY <1>2, <2>1, <2>2 DEF FootpathsKept, AccessFootpaths, EgressFootpaths
  <1>12. PICK y : y = ResetFilters(y1, scenario, lines)
    OBVIOUS
  <1>13. x = ResetFilters(x1, scenario, lines)
    BY <1>4, <1>7 DEF Reset
  <1>14. /\ x = y /\ DOMAIN x = CalcFields /\ x["odTrip"] = NoTrip
         /\ x["accessFootpaths"] = calc["accessFootpaths"]
         /\ x["egressFootpaths"] = calc["egressFootpaths"]
    <2>1. x1 = Footpaths(calc, b, replies) /\ y1 = Footpaths(d, t, replies)
      BY <1>7, <1>8
    <2>2. /\ x1["accessFootpaths"] = y1["accessFootpaths"]
          /\ x1["egressFootpaths"] = y1["egressFootpaths"]
          /\ calc["odTrip"] = d["odTrip"] /\ query.kind # "accessibility"
      BY <1>2, <1>6, <1>10, <1>11
    <2>3. DOMAIN calc = CalcFields /\ DOMAIN d = CalcFields
      BY <1>2, <1>6
    <2>4. /\ x = y /\ DOMAIN x = CalcFields /\ x["odTrip"] = calc["odTrip"]
          /\ x["accessFootpaths"] = x1["accessFootpaths"]
          /\ x["egressFootpaths"] = x1["egressFootpaths"]
      BY <1>12, <1>13, <2>1, <2>2, <2>3, SameReset
    <2>. QED
      BY <1>2, <1>10, <2>4
  <1>15. NothingLeftOver'
    <2>1. y = Reset(d, TRUE, TRUE, lines, replies)
      BY <1>8, <1>12 DEF Reset
    <2>2. d = [NewCalculator EXCEPT !.odTrip = x.odTrip]
      BY <1>5, <1>14
    <2>3. PICK r : r = replies
      OBVIOUS
    <2>. QED
      BY <1>2, <1>3, <1>4, <1>14, <2>1, <2>2, <2>3, NothingLeftOverNext
  <1>16. FiltersSet'
    <2>1. AfterReset(x, calc, lines)
      BY <1>2, <1>4, ResetKeeps
    <2>. QED
      BY <1>2, <1>3, <1>4, <2>1 DEF FiltersSet, AfterReset
  <1>17. FootpathsKept'
    BY <1>2, <1>3, <1>4, <1>14 DEF FootpathsKept, Filtered
  <1>18. calls' \in Nat /\ calls' # 0
    BY <1>2
  <1>19. /\ DOMAIN calc' = CalcFields /\ calc'["odTrip"] = NoTrip /\ query'.kind = "route"
         /\ resetFilters' \in BOOLEAN /\ pc' = "ready"
    BY <1>2, <1>3, <1>4, <1>14 DEF ResetsInv
  <1>. QED
    BY <1>15, <1>16, <1>17, <1>18, <1>19 DEF ResetsInv

\* An OD trip finds its own footpaths and may keep the filters.
LEMMA OdTripStep ==
    ASSUME ResetsInv, OdTripCalculation
    PROVE  ResetsInv'
  <1>1. PICK c, trip : /\ trip = OdTrips[calls + 1] /\ c = [calc EXCEPT !.odTrip = trip]
                       /\ Prepare(c, TRUE, resetFilters, {}, replies)
    BY DEF OdTripCalculation
  <1>2. /\ pc = "call" /\ calls \in Nat /\ calls' = calls + 1
        /\ replies' = replies /\ except' = {}
        /\ UNCHANGED <<query, scenario, euclidean, resetFilters>>
        /\ query.kind = "odTrips" /\ DOMAIN calc = CalcFields /\ resetFilters \in BOOLEAN
        /\ except = {}
    BY <1>1 DEF OdTripCalculation, Prepare, ResetsInv
  <1>3. /\ DOMAIN c = CalcFields /\ c["odTrip"] = trip
        /\ c["connectionSet"] = calc["connectionSet"] /\ c["disabled"] = calc["disabled"]
    BY <1>1, <1>2 DEF CalcFields
  <1>4. calls' \in Nat /\ calls' # 0
    BY <1>2
  <1>5. CASE pc' = "thrown" /\ calc' = c
    <2>1. (query.kind = "odTrips" /\ resetFilters = FALSE) => FiltersSet'
      BY <1>2, <1>3, <1>5 DEF ResetsInv, FiltersSet
    <2>2. NothingLeftOver'
      BY <1>5 DEF NothingLeftOver
    <2>. QED
      BY <1>2, <1>3, <1>4, <1>5, <2>1, <2>2 DEF ResetsInv
  <1>6. CASE pc' = "ready" /\ calc' = Reset(c, TRUE, resetFilters, {}, replies)
    <2>1. PICK d : d = [NewCalculator EXCEPT !.odTrip = trip]
      OBVIOUS
    <2>2. DOMAIN d = CalcFields /\ d["odTrip"] = trip
      BY <2>1, NewWithTrip
    <2>3. PICK x1, y1, b : /\ x1 = Footpaths(c, b, replies) /\ y1 = Footpaths(d, b, replies)
                           /\ b = TRUE
      OBVIOUS
    <2>4. AfterFootpaths(x1, c, b, replies) /\ AfterFootpaths(y1, d, b, replies)
      BY <1>2, <1>3, <2>2, <2>3, FootpathsFields
    <2>5. /\ x1["accessFootpaths"] = y1["accessFootpaths"]
          /\ x1["egressFootpaths"] = y1["egressFootpaths"]
      <3>1. /\ AccessFootpaths(c, replies.access) = AccessFootpaths(d, replies.access)
            /\ EgressFootpaths(c, replies.egress) = EgressFootpaths(d, replies.egress)
        BY <1>3, <2>2, FootpathsAsked
      <3>. QED
        BY <2>3, <2>4, <3>1 DEF AfterFootpaths
    <2>6. PICK y, none : none = {} /\ y = ResetFilters(y1, scenario, none)
      OBVIOUS
    <2>7. PICK x : x = calc'
      OBVIOUS
    <2>8. AfterFilters(y, y1, scenario, {})
      <3>1. DOMAIN y1 = CalcFields
        BY <2>4 DEF AfterFootpaths
      <3>. QED
        BY <2>6, <3>1, FilterFields
    <2>9. \/ x = ResetFilters(x1, scenario, {})
          \/ x = x1 /\ c["connectionSet"] = y["connectionSet"] /\ c["disabled"] = y["disabled"]
      <3>1. CASE resetFilters = TRUE
        BY <1>6, <2>3, <2>7, <3>1 DEF Reset
      <3>2. CASE resetFilters = FALSE
        <4>1. x = x1
          BY <1>6, <2>3, <2>7, <3>2 DEF Reset
        <4>2. FiltersSet
          BY <1>2, <3>2 DEF ResetsInv
        <4>. QED
          BY <1>2, <1>3, <2>8, <4>1, <4>2 DEF FiltersSet, AfterFilters
      <3>. QED
        BY <1>2, <3>1, <3>2
    <2>10. x = y /\ DOMAIN x = CalcFields /\ x["odTrip"] = trip
      <3>1. x1 = Footpaths(c, b, replies) /\ y1 = Footpaths(d, b, replies)
        BY <2>3
      <3>2. c["odTrip"] = d["odTrip"] /\ query.kind # "accessibility"
        BY <1>2, <1>3, <2>2
      <3>3. y = ResetFilters(y1, scenario, none)
        BY <2>6
      <3>4. \/ x = ResetFilters(x1, scenario, none)
            \/ x = x1 /\ c["connectionSet"] = y["connectionSet"] /\ c["disabled"] = y["disabled"]
        BY <2>6, <2>9
      <3>5. x = y /\ DOMAIN x = CalcFields /\ x["odTrip"] = c["odTrip"]
        <4>1. CASE x = ResetFilters(x1, scenario, none)
          BY <1>3, <2>2, <2>5, <3>1, <3>2, <3>3, <4>1, SameReset
        <4>2. CASE x = x1 /\ c["connectionSet"] = y["connectionSet"] /\ c["disabled"] = y["disabled"]
          <5>1. x1 = y /\ DOMAIN x1 = CalcFields /\ x1["odTrip"] = c["odTrip"]
            BY <1>3, <2>2, <2>5, <3>1, <3>2, <3>3, <4>2, KeptReset
          <5>. QED
            BY <4>2, <5>1
        <4>. QED
          BY <3>4, <4>1, <4>2
      <3>. QED
        BY <1>3, <3>5
    <2>11. NothingLeftOver'
      <3>1. y = Reset(d, TRUE, TRUE, {}, replies)
        BY <2>3, <2>6 DEF Reset
      <3>2. d = [NewCalculator EXCEPT !.odTrip = x.odTrip]
        BY <2>1, <2>10
      <3>. QED
        BY <1>2, <2>7, <2>10, <3>1, <3>2, NothingLeftOverNext
    <2>12. FiltersSet'
      BY <1>2, <2>7, <2>8, <2>10 DEF FiltersSet, AfterFilters
    <2>. QED
      BY <1>2, <1>4, <1>6, <2>7, <2>10, <2>11, <2>12 DEF ResetsInv
  <1>. QED
    BY <1>1, <1>5, <1>6 DEF Prepare

\* A calculation leaves the footpaths, the filters and the OD trip alone.
LEMMA CalculateStep ==
    ASSUME ResetsInv, NEW found \in BOOLEAN, Calculate(found)
    PROVE  ResetsInv'
  <1>1. /\ pc = "ready" /\ pc' \in {"call", "done"}
        /\ resetFilters' = (resetFilters /\ ~found)
        /\ UNCHANGED <<query, scenario, euclidean, replies, except, calls>>
    BY DEF Calculate
  <1>2. /\ DOMAIN calc' = CalcFields /\ calc'["odTrip"] = calc["odTrip"]
        /\ calc'["connectionSet"] = calc["connectionSet"] /\ calc'["disabled"] = calc["disabled"]
        /\ calc'["accessFootpaths"] = calc["accessFootpaths"]
        /\ calc'["egressFootpaths"] = calc["egressFootpaths"]
    BY DEF Calculate, ResetsInv, CalcFields
  <1>3. FiltersSet'
    BY <1>1, <1>2 DEF ResetsInv, FiltersSet
  <1>4. calls # 0 /\ calls > 0 /\ calls \in Nat
    BY <1>1 DEF ResetsInv
  <1>5. query.kind = "route" => FootpathsKept'
    BY <1>1, <1>2, <1>4 DEF ResetsInv, FootpathsKept, Filtered
  <1>6. resetFilters' \in BOOLEAN
    BY <1>1, Zenon
  <1>7. NothingLeftOver'
    BY <1>1 DEF NothingLeftOver
  <1>. QED
    BY <1>1, <1>2, <1>3, <1>4, <1>5, <1>6, <1>7 DEF ResetsInv

\* Steps that leave the Calculator and its query as they are.
LEMMA OtherStep ==
    ASSUME ResetsInv, UNCHANGED <<query, scenario, euclidean, calc, resetFilters, replies, except, calls>>,
           pc' = pc \/ pc' \in {"thrown", "done"}
    PROVE  ResetsInv'
  <1>1. FiltersSet' = FiltersSet
    BY DEF FiltersSet
  <1>2. FootpathsKept' = FootpathsKept
    BY DEF FootpathsKept, Filtered
  <1>3. NothingLeftOver'
    <2>1. CASE pc' = "ready"
      <3>1. PICK x, lines, r : x = calc /\ lines = except /\ r = replies
        OBVIOUS
      <3>2. x = Reset([NewCalculator EXCEPT !.odTrip = x.odTrip], TRUE, TRUE, lines, r)
        BY <2>1, <3>1 DEF ResetsInv, NothingLeftOver
      <3>. QED
        BY <3>1, <3>2, NothingLeftOverNext
    <2>2. CASE pc' # "ready"
      BY <2>2 DEF NothingLeftOver
    <2>. QED
      BY <2>1, <2>2
  <1>. QED
    BY <1>1, <1>2, <1>3 DEF ResetsInv

\* The invariant holds at the start.
LEMMA ResetsInvInit == Init => ResetsInv
  <1>. SUFFICES ASSUME Init PROVE ResetsInv
    OBVIOUS
  <1>1. /\ calc = NewCalculator /\ resetFilters = TRUE /\ except = {} /\ calls = 0
        /\ pc \in {"parse", "call"}
    BY DEF Init, ResetsInit
  <1>2. ~(calls > 0) /\ resetFilters \in BOOLEAN /\ resetFilters # FALSE /\ pc # "ready"
    BY <1>1
  <1>3. DOMAIN calc = CalcFields /\ calc["odTrip"] = NoTrip
    BY <1>1, NewFields
  <1>. QED
    BY <1>1, <1>2, <1>3 DEF ResetsInv, NothingLeftOver

\* Every step keeps it.
LEMMA ResetsInvStep == ResetsInv /\ [Next]_vars => ResetsInv'
  <1>. SUFFICES ASSUME ResetsInv, [Next]_vars PROVE ResetsInv'
    OBVIOUS
  <1>1. CASE ReadParameters
    BY <1>1, OtherStep DEF ReadParameters, resetsVars
  <1>2. CASE Refused
    BY <1>2, OtherStep DEF Refused
  <1>3. CASE Accepted
    <2>1. /\ calls' = 0 /\ calc' = NewCalculator /\ resetFilters' = TRUE /\ except' = {}
          /\ pc' = "call"
      BY <1>3 DEF Accepted, ResetsInv
    <2>2. ~(calls' > 0) /\ resetFilters' \in BOOLEAN /\ resetFilters' # FALSE
      BY <2>1
    <2>3. DOMAIN calc' = CalcFields /\ calc'["odTrip"] = NoTrip
      BY <2>1, NewFields
    <2>. QED
      BY <2>1, <2>2, <2>3 DEF ResetsInv, NothingLeftOver
  <1>4. CASE CalculateNext
    BY <1>4, FirstStep, AlternativeStep, CalculateStep DEF CalculateNext
  <1>5. CASE OdTrip
    <2>1. CASE NextOdTrip
      BY <2>1, OdTripStep DEF NextOdTrip
    <2>2. CASE NotRouted \/ Routed
      BY <2>2, CalculateStep DEF NotRouted, Routed
    <2>3. CASE BeginLeg \/ AddConnection \/ EndLeg
      BY <2>3, OtherStep DEF BeginLeg, AddConnection, EndLeg, resetsVars
    <2>4. CASE Return
      BY <2>4, OtherStep DEF Return
    <2>. QED
      BY <1>5, <2>1, <2>2, <2>3, <2>4 DEF OdTrip, OdTripsNext
  <1>6. CASE UNCHANGED vars
    BY <1>6, OtherStep DEF vars, resetsVars
  <1>. QED
    BY <1>1, <1>2, <1>3, <1>4, <1>5, <1>6 DEF Next

\* Of a Calculator used again, by alternatives or by OD trips, nothing is
\* left over: reset makes it what a new Calculator would be.
THEOREM CalculatorNothingLeftOver == Spec => []NothingLeftOver
  <1>1. ResetsInv => NothingLeftOver
    BY DEF ResetsInv
  <1>. QED
    BY <1>1, ResetsInvInit, ResetsInvStep, PTL DEF Spec

-----------------------------------------------------------------------------
(***************************************************************************)
(* The footpaths OSRM's answer makes.                                      *)
(***************************************************************************)

\* The nodes near a point are finitely many.
LEMMA NearFinite ==
    ASSUME NEW p, NEW m
    PROVE  IsFiniteSet(Near(p, m))
  <1>1. Nodes \in Surjection(DOMAIN Nodes, NodeSet)
    BY NodesAssumption DEF NodeSet, Surjection
  <1>2. IsFiniteSet(DOMAIN Nodes)
    <2>1. DOMAIN Nodes = 1 .. Len(Nodes) /\ Len(Nodes) \in Nat
      BY NodesAssumption
    <2>. QED
      BY <2>1, FS_Interval
  <1>3. IsFiniteSet(NodeSet)
    BY <1>1, <1>2, FS_Surjection
  <1>. QED
    BY <1>3, FS_Subset DEF Near

\* The query string names every near node, and no other.
LEMMA CandidatesAre ==
    ASSUME NEW p, NEW m
    PROVE  /\ Candidates(p, m) \in Seq(Near(p, m))
           /\ \A n \in Near(p, m) : \E k \in DOMAIN Candidates(p, m) : Candidates(p, m)[k] = n
  <1>1. PICK near : near = Near(p, m)
    OBVIOUS
  <1>2. Cardinality(near) \in Nat /\ ExistsBijection(1 .. Cardinality(near), near)
    BY <1>1, NearFinite, FS_CardinalityType
  <1>3. PICK s \in [1 .. Cardinality(near) -> near] : \A n \in near : \E k \in DOMAIN s : s[k] = n
    BY <1>2 DEF ExistsBijection, Bijection, Surjection
  <1>4. /\ Candidates(p, m) \in [1 .. Cardinality(near) -> near]
        /\ \A n \in near : \E k \in DOMAIN Candidates(p, m) : Candidates(p, m)[k] = n
    BY <1>1, <1>3 DEF Candidates
  <1>. QED
    BY <1>1, <1>2, <1>4

\* Every footpath has the duration of its own node: the number i of the row
\* is the one of the candidate before it.
LEMMA OsrmTable ==
    ASSUME NEW p, NEW m
    PROVE  OsrmFootpaths(p, m, FALSE, "table") =
             {[node |-> n, time |-> WalkTo[p][n]] :
                n \in {k \in NodeSet : Bird[p][k] <= m /\ WalkTo[p][k] <= m}}
  <1>. DEFINE found == {[node |-> n, time |-> WalkTo[p][n]] :
                          n \in {k \in NodeSet : Bird[p][k] <= m /\ WalkTo[p][k] <= m}}
  <1>1. PICK nodes, near : nodes = Candidates(p, m) /\ near = Near(p, m)
    OBVIOUS
  <1>2. /\ nodes \in Seq(near)
        /\ \A n \in near : \E k \in DOMAIN nodes : nodes[k] = n
    BY <1>1, CandidatesAre
  <1>3. CASE nodes = <<>>
    <2>1. near = {}
      BY <1>2, <1>3
    <2>2. OsrmFootpaths(p, m, FALSE, "table") = {}
      BY <1>1, <1>3 DEF OsrmFootpaths
    <2>. QED
      BY <1>1, <2>1, <2>2 DEF Near
  <1>4. CASE nodes # <<>>
    <2>1. PICK row, rest : /\ rest = [k \in DOMAIN nodes |-> WalkTo[p][nodes[k]]]
                           /\ row = <<0>> \o rest
      OBVIOUS
    <2>2. OsrmFootpaths(p, m, FALSE, "table") = RowFootpaths(row, nodes, m)
      BY <1>1, <1>4, <2>1 DEF OsrmFootpaths, DurationTable
    <2>3. PICK values : values = {0} \cup {WalkTo[p][n] : n \in near}
      OBVIOUS
    <2>4. DOMAIN nodes = 1 .. Len(nodes) /\ Len(nodes) \in Nat /\ \A k \in DOMAIN nodes : nodes[k] \in near
      BY <1>2
    <2>5. rest \in Seq(values) /\ Len(rest) = Len(nodes) /\ <<0>> \in Seq(values)
      BY <2>1, <2>3, <2>4
    <2>6. /\ Len(row) = 1 + Len(nodes)
          /\ \A k \in 2 .. Len(row) : row[k] = rest[k - 1]
      BY <2>1, <2>4, <2>5, ConcatProperties
    <2>7. \A k \in 2 .. Len(row) : k - 1 \in DOMAIN nodes /\ row[k] = WalkTo[p][nodes[k - 1]]
      BY <2>1, <2>4, <2>6
    <2>8. \A k \in DOMAIN nodes : k + 1 \in 2 .. Len(row) /\ (k + 1) - 1 = k
      BY <2>4, <2>6
    <2>9. RowFootpaths(row, nodes, m) \subseteq found
      BY <1>1, <2>4, <2>7 DEF RowFootpaths, Near
    <2>10. ASSUME NEW n \in near, WalkTo[p][n] <= m
           PROVE  [node |-> n, time |-> WalkTo[p][n]] \in RowFootpaths(row, nodes, m)
      <3>1. PICK k \in DOMAIN nodes : nodes[k] = n
        BY <1>2
      <3>2. k + 1 \in 2 .. Len(row) /\ nodes[(k + 1) - 1] = n /\ row[k + 1] = WalkTo[p][n]
        BY <2>7, <2>8, <3>1
      <3>. QED
        BY <2>10, <3>2 DEF RowFootpaths
    <2>11. found \subseteq RowFootpaths(row, nodes, m)
      BY <1>1, <2>10 DEF Near
    <2>. QED
      BY <2>2, <2>9, <2>11
  <1>. QED
    BY <1>3, <1>4

\* The access footpaths a reset leaves are the ones found, or those kept.
LEMMA AccessPaths ==
    ASSUME NEW c, DOMAIN c = CalcFields, NEW b, NEW r, HasOrigin, NEW y, y = Footpaths(c, b, r)
    PROVE  /\ DOMAIN y = CalcFields
           /\ y["accessFootpaths"] =
                IF b THEN AccessFootpaths(c, r.access) ELSE c["accessFootpaths"]
  <1>1. PICK c1 : c1 = Cleared(c, b)
    OBVIOUS
  <1>2. /\ DOMAIN c1 = CalcFields /\ c1["odTrip"] = c["odTrip"]
        /\ ~b => c1["accessFootpaths"] = c["accessFootpaths"]
    <2>1. AfterCleared(c1, c, b)
      BY <1>1, ClearedFields
    <2>. QED
      BY <2>1 DEF AfterCleared
  <1>3. PICK c2 : c2 = WithAccess(c1, b, r.access)
    OBVIOUS
  <1>4. /\ DOMAIN c2 = CalcFields
        /\ c2["accessFootpaths"] =
             IF b THEN AccessFootpaths(c, r.access) ELSE c["accessFootpaths"]
    <2>1. AfterAccess(c2, c1, b, r.access)
      BY <1>2, <1>3, WithAccessFields
    <2>2. AccessFootpaths(c1, r.access) = AccessFootpaths(c, r.access)
      BY <1>2, FootpathsAsked
    <2>. QED
      BY <1>2, <2>1, <2>2 DEF AfterAccess
  <1>5. y = IF HasDestination THEN WithEgress(c2, b, r.egress) ELSE c2
    BY <1>1, <1>3 DEF Footpaths
  <1>6. CASE HasDestination
    <2>1. AfterEgress(y, c2, b, r.egress)
      BY <1>4, <1>5, <1>6, WithEgressFields
    <2>2. "accessFootpaths" \in CalcFields \ EgressFields
      BY DEF CalcFields, EgressFields
    <2>. QED
      BY <1>4, <2>1, <2>2 DEF AfterEgress
  <1>7. CASE ~HasDestination
    BY <1>4, <1>5, <1>7
  <1>. QED
    BY <1>6, <1>7

\* Once a request has been calculated, its access footpaths are those of a
\* table of OSRM: with any other answer there would be none, and the request
\* would have ended with NO_ACCESS_AT_ORIGIN.
AccessFound ==
    (query.kind # "odTrips" /\ HasOrigin /\ ~euclidean /\ calls > 0 /\ pc \in {"call", "ready"}) =>
      calc["accessFootpaths"] = OsrmFootpaths(query.origin, query.maxAccess, FALSE, "table")

\* The first calculation finds them.
LEMMA FirstAccess ==
    ASSUME ResetsInv, FirstCalculation
    PROVE  AccessFound'
  <1>1. PICK r : Prepare(calc, TRUE, TRUE, {}, r)
    BY DEF FirstCalculation
  <1>2. /\ pc = "call" /\ UNCHANGED <<query, scenario, euclidean>>
        /\ query.kind # "odTrips" /\ DOMAIN calc = CalcFields /\ calc["odTrip"] = NoTrip
    BY <1>1 DEF FirstCalculation, Prepare, ResetsInv
  <1>3. CASE pc' = "thrown"
    BY <1>3 DEF AccessFound
  <1>4. CASE /\ pc' = "ready" /\ calc' = Reset(calc, TRUE, TRUE, {}, r)
             /\ ResetThrows(calc, TRUE, r) = "none"
    <2>. SUFFICES ASSUME HasOrigin, ~euclidean
                  PROVE  calc'["accessFootpaths"] =
                           OsrmFootpaths(query.origin, query.maxAccess, FALSE, "table")
      BY <1>2 DEF AccessFound, HasOrigin
    <2>1. PICK y, b : y = Footpaths(calc, b, r) /\ b = TRUE
      OBVIOUS
    <2>2. y = Footpaths(calc, b, r)
      BY <2>1
    <2>3. /\ DOMAIN y = CalcFields
          /\ y["accessFootpaths"] =
               IF b THEN AccessFootpaths(calc, r.access) ELSE calc["accessFootpaths"]
      BY <1>2, <2>2, AccessPaths
    <2>4. y["accessFootpaths"] = AccessFootpaths(calc, r.access)
      BY <2>1, <2>3
    <2>5. calc.odTrip = NoTrip
      BY <1>2
    <2>6. y["accessFootpaths"] = OsrmFootpaths(query.origin, query.maxAccess, FALSE, r.access)
      BY <2>4, <2>5 DEF AccessFootpaths, Filtered
    <2>7. y["accessFootpaths"] # {}
      <3>1. y = Footpaths(calc, TRUE, r)
        BY <2>1
      <3>. QED
        BY <1>4, <2>5, <3>1 DEF ResetThrows
    <2>8. r.access = "table"
      BY <2>6, <2>7 DEF OsrmFootpaths
    <2>9. calc' = ResetFilters(y, scenario, {})
      BY <1>4, <2>1 DEF Reset
    <2>10. PICK x : x = calc'
      OBVIOUS
    <2>11. AfterFilters(x, y, scenario, {})
      BY <2>3, <2>9, <2>10, FilterFields
    <2>12. "accessFootpaths" \in CalcFields \ {"connectionSet", "disabled"}
      BY DEF CalcFields
    <2>. QED
      BY <2>6, <2>8, <2>10, <2>11, <2>12 DEF AfterFilters
  <1>. QED
    BY <1>1, <1>3, <1>4 DEF Prepare

\* Steps that leave the Calculator and its query as they are.
LEMMA AccessUnchanged ==
    ASSUME AccessFound, UNCHANGED <<query, euclidean, calc, calls>>,
           pc' = pc \/ pc' \in {"thrown", "done"}
    PROVE  AccessFound'
  BY DEF AccessFound, HasOrigin

\* The later steps keep them: an alternative keeps the footpaths, and for a
\* route those kept are the ones of the answers remembered.
LEMMA AccessStep == ResetsInv /\ ResetsInv' /\ AccessFound /\ [Next]_vars => AccessFound'
  <1>. SUFFICES ASSUME ResetsInv, ResetsInv', AccessFound, [Next]_vars PROVE AccessFound'
    OBVIOUS
  <1>c. ASSUME NEW found \in BOOLEAN, Calculate(found) PROVE AccessFound'
    <2>1. /\ pc = "ready" /\ UNCHANGED <<query, scenario, euclidean, replies, except, calls>>
      BY <1>c DEF Calculate
    <2>2. calc'["accessFootpaths"] = calc["accessFootpaths"]
      BY <1>c DEF Calculate, ResetsInv, CalcFields
    <2>. QED
      BY <2>1, <2>2 DEF AccessFound, HasOrigin
  <1>1. CASE ReadParameters
    BY <1>1, AccessUnchanged DEF ReadParameters, resetsVars
  <1>2. CASE Refused
    BY <1>2, AccessUnchanged DEF Refused
  <1>3. CASE Accepted
    <2>1. calls' = 0
      BY <1>3 DEF Accepted, ResetsInv
    <2>. QED
      BY <2>1 DEF AccessFound
  <1>4. CASE AlternativeCalculation
    <2>1. PICK lines : Prepare(calc, FALSE, TRUE, lines, replies)
      BY <1>4 DEF AlternativeCalculation
    <2>2. /\ pc = "call" /\ calls \in Nat /\ calls > 0 /\ calls' = calls + 1 /\ replies' = replies
          /\ UNCHANGED <<query, euclidean>> /\ query.kind = "route"
      BY <1>4, <2>1 DEF AlternativeCalculation, Prepare, ResetsInv
    <2>3. pc' = "ready"
      BY <2>1 DEF Prepare, ResetThrows
    <2>4. FootpathsKept /\ FootpathsKept'
      BY <2>2, <2>3 DEF ResetsInv
    <2>5. calc'["accessFootpaths"] = calc["accessFootpaths"]
      BY <2>2, <2>4 DEF FootpathsKept, Filtered
    <2>. QED
      BY <2>2, <2>5 DEF AccessFound, HasOrigin
  <1>5. CASE CalculateNext
    BY <1>4, <1>5, <1>c, FirstAccess DEF CalculateNext
  <1>6. CASE OdTrip
    <2>1. CASE NextOdTrip
      BY <2>1 DEF NextOdTrip, OdTripCalculation, Prepare, AccessFound
    <2>2. CASE NotRouted \/ Routed
      BY <2>2, <1>c DEF NotRouted, Routed
    <2>3. CASE BeginLeg \/ AddConnection \/ EndLeg
      BY <2>3, AccessUnchanged DEF BeginLeg, AddConnection, EndLeg, resetsVars
    <2>4. CASE Return
      BY <2>4, AccessUnchanged DEF Return
    <2>. QED
      BY <1>6, <2>1, <2>2, <2>3, <2>4 DEF OdTrip, OdTripsNext
  <1>7. CASE UNCHANGED vars
    BY <1>7, AccessUnchanged DEF vars, resetsVars
  <1>. QED
    BY <1>1, <1>2, <1>3, <1>5, <1>6, <1>7 DEF Next

\* OSRM's durations, one number longer than the list of nodes, are paired
\* with their own nodes, and an alternative keeps them so.
THEOREM CalculatorFootpathsOfTheirNodes == Spec => []FootpathsOfTheirNodes
  <1>1. Init => AccessFound
    BY DEF Init, ResetsInit, AccessFound
  <1>2. ResetsInv /\ AccessFound => FootpathsOfTheirNodes
    <2>. SUFFICES ASSUME ResetsInv, AccessFound, pc = "ready", query.kind # "odTrips", HasOrigin, ~euclidean
                  PROVE  FootpathsOfTheirNodes
      BY DEF FootpathsOfTheirNodes
    <2>1. calls > 0
      BY DEF ResetsInv
    <2>2. calc.accessFootpaths = OsrmFootpaths(query.origin, query.maxAccess, FALSE, "table")
      BY <2>1 DEF AccessFound
    <2>3. PICK p, m : p = query.origin /\ m = query.maxAccess
      OBVIOUS
    <2>. QED
      BY <2>2, <2>3, OsrmTable DEF FootpathsOfTheirNodes
  <1>. QED
    BY <1>1, <1>2, ResetsInvInit, ResetsInvStep, AccessStep, PTL DEF Spec
=============================================================================
