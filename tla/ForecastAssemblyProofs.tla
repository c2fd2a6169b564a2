----------------------- MODULE ForecastAssemblyProofs -----------------------
(***************************************************************************)
(* Theorems of ForecastAssembly, for all ages, distances and time zones,   *)
(* and of LegacyPort and LegacySpecies.                                    *)
(*                                                                         *)
(* The envelope is only looked at once the assembly is done, so the        *)
(* invariant ties it to the results then (Returned), and says for every    *)
(* phase which last resorts have been asked (Asked).                       *)
(***************************************************************************)
EXTENDS ForecastAssembly, LegacyPort, LegacySpecies, TLAPS, FiniteSetTheorems,
        WellFoundedInduction

Typed ==
  /\ location \in Locations
  /\ phase \in Phases
  /\ result \in [Providers -> Results]

Returned == IF Done THEN envelope = Envelope(result) ELSE envelope = NoEnvelope

Asked ==
  /\ \A s \in Fetched : result[s].kind = "pending" => phase = "gathering"
  /\ result["coops_wind"].kind = "pending" => phase = "coops_wind"
  /\ result["gridpoint_wind"].kind = "pending" => phase = "gridpoint_wind"
  /\ phase \in {"coops_wind", "gridpoint_wind"} =>
       Settled(result, "marine_zone") /\ Settled(result, "buoy")
  /\ phase = "gridpoint_wind" => Settled(result, "coops_wind")

Started ==
  phase \notin {"idle", "raised"} => \A s \in Fetched : result[s].kind # "unasked"

AssemblyInv == Typed /\ Returned /\ Asked /\ Started

-----------------------------------------------------------------------------
(* What a fetch can leave behind.                                           *)

LEMMA ReadingsTyped ==
  \A s \in Providers : Readings(s) \subseteq Results
<1> SUFFICES ASSUME NEW s \in Providers, NEW x \in Readings(s) PROVE x \in Results
  OBVIOUS
<1>1. x.kind = "ok" /\ x.reports \in Reports(s) /\ x.age \in Ages \union {NoAge}
      /\ x = [kind |-> x.kind, reports |-> x.reports, age |-> x.age]
  BY DEF Readings
<1>2. Reports(s) \subseteq SUBSET ({"wind", "wave", "direction"} \union Fetched)
  <2>1. CASE s \in {"marine_zone", "buoy"}
    BY <2>1 DEF Reports
  <2>2. CASE s = "coops_wind"
    BY <2>2 DEF Reports
  <2>3. CASE s = "gridpoint_wind"
    BY <2>3 DEF Reports
  <2>4. CASE s \in {"water_temp", "alerts", "tides"}
    BY <2>4 DEF Reports, Fetched
  <2> QED
    BY <2>1, <2>2, <2>3, <2>4 DEF Providers, Fetched, LastResort
<1> QED
  BY <1>1, <1>2 DEF Results

LEMMA WithoutTyped ==
  \A k \in {"unasked", "pending", "error", "ok"} : Without(k) \in Results /\ Without(k).kind = k
BY DEF Without, Results

(* One result replaced.                                                     *)
LEMMA ResultTyped ==
  ASSUME Typed, NEW s \in Providers, NEW x \in Results,
         result' = [result EXCEPT ![s] = x]
  PROVE  /\ result' \in [Providers -> Results]
         /\ result'[s] = x
         /\ \A t \in Providers : t # s => result'[t] = result[t]
BY DEF Typed

LEMMA SettledKept ==
  ASSUME NEW s, NEW r, NEW q, r[s] = q[s], Settled(q, s)
  PROVE  Settled(r, s)
BY DEF Settled, Reported

LEMMA NoWindSettles ==
  ASSUME NEW r, Wind(r) = "none"
  PROVE  \A s \in {"marine_zone", "buoy", "coops_wind", "gridpoint_wind"} : ~Reported(r, s, "wind")
<1> SUFFICES ASSUME NEW i \in 1..4, Reported(r, WindOrder[i], "wind") PROVE FALSE
  <2>1. \A s \in {"marine_zone", "buoy", "coops_wind", "gridpoint_wind"} :
           \E i \in 1..4 : WindOrder[i] = s
    BY DEF WindOrder
  <2> QED
    BY <2>1
<1>1. DOMAIN WindOrder = 1..4
  BY DEF WindOrder
<1>2. \A j \in 1..4 : WindOrder[j] # "none"
  BY DEF WindOrder
<1> DEFINE having == {j \in 1..4 : Reported(r, WindOrder[j], "wind")}
           first == CHOOSE j \in having : \A k \in having : j <= k
<1>3. \E j \in having : \A k \in having : j <= k
  <2>1. \E j \in 1..4 : j \in having /\ \A k \in having : j <= k
    <3>1. having \subseteq 1..4 /\ i \in having
      OBVIOUS
    <3> HIDE DEF having
    <3> QED
      BY <3>1
  <2> QED
    BY <2>1
<1>4. first \in having
  BY <1>3
<1>5. Wind(r) = WindOrder[first]
  BY <1>1 DEF Wind, FirstOf
<1> QED
  BY <1>2, <1>4, <1>5

-----------------------------------------------------------------------------
(* The steps                                                                *)

LEMMA InitStep == AssemblyInit => AssemblyInv
<1> SUFFICES ASSUME AssemblyInit PROVE AssemblyInv
  OBVIOUS
<1>1. Typed
  BY WithoutTyped DEF AssemblyInit, Typed, Phases
<1>2. \A s \in Providers : result[s].kind = "unasked"
  BY WithoutTyped DEF AssemblyInit
<1> QED
  BY <1>1, <1>2 DEF AssemblyInit, AssemblyInv, Returned, Asked, Started, Done, Providers, LastResort

LEMMA AssembleStep == AssemblyInv /\ Assemble => AssemblyInv'
<1> SUFFICES ASSUME AssemblyInv, Assemble PROVE AssemblyInv'
  OBVIOUS
<1>1. /\ phase' = "gathering" /\ envelope' = NoEnvelope /\ location' = location
      /\ \A s \in LastResort : result'[s] = Without("unasked")
      /\ result' \in [Providers -> Results]
  BY WithoutTyped DEF Assemble, Providers
<1>2. Typed'
  BY <1>1 DEF AssemblyInv, Typed, Phases
<1>3. Returned'
  BY <1>1 DEF Returned, Done
<1>4. Asked'
  BY <1>1, WithoutTyped DEF Asked, LastResort
<1>5. \A s \in Fetched : result'[s] \in {Without("pending"), Without("error")}
  BY DEF Assemble, Providers, Fetched, LastResort
<1>6. Started'
  BY <1>5, WithoutTyped DEF Started
<1> QED
  BY <1>2, <1>3, <1>4, <1>6 DEF AssemblyInv

LEMMA FetchStep ==
  ASSUME AssemblyInv, NEW s \in Fetched, FetchEnds(s)
  PROVE  AssemblyInv'
<1>1. s \in Providers /\ s \notin LastResort
  BY DEF Providers, Fetched, LastResort
<1>2. PICK x \in Readings(s) \union {Without("error")} : result' = [result EXCEPT ![s] = x]
  BY DEF FetchEnds
<1>3. x \in Results
  BY <1>1, ReadingsTyped, WithoutTyped
<1>4. /\ result' \in [Providers -> Results]
      /\ \A t \in LastResort : result'[t] = result[t]
      /\ phase = "gathering" /\ UNCHANGED <<location, phase, envelope>>
  BY <1>1, <1>2, <1>3, ResultTyped DEF AssemblyInv, FetchEnds, Providers
<1>5. Typed' /\ Returned'
  BY <1>4 DEF AssemblyInv, Typed, Returned, Done
<1>6. Asked'
  BY <1>4 DEF AssemblyInv, Asked, LastResort
<1>7. x.kind # "unasked"
  BY WithoutTyped DEF Readings
<1>8. Started'
  <2>1. result'[s] = x /\ \A t \in Providers : t # s => result'[t] = result[t]
    BY <1>1, <1>2, <1>3, ResultTyped DEF AssemblyInv
  <2> QED
    BY <1>4, <1>7, <2>1 DEF AssemblyInv, Started, Providers
<1> QED
  BY <1>5, <1>6, <1>8 DEF AssemblyInv

LEMMA EnvelopePrimed ==
  ASSUME UNCHANGED location
  PROVE  Envelope(result)' = Envelope(result')
BY DEF Envelope, Statuses, Warnings, Wind, Wave, Direction, FirstOf, WindOrder, Reported, Scored,
       Confidence, Points, Down, AgePenalty, AgeSeen, FallbackPenalty, DistancePenalty

(* What Return leaves in the envelope is of the results then.               *)
LEMMA ReturnStep ==
  ASSUME UNCHANGED location, Return(result')
  PROVE  Returned' /\ phase' = "done"
BY EnvelopePrimed DEF Return, Returned, Done

LEMMA EndGatherStep == AssemblyInv /\ EndGather => AssemblyInv'
<1> SUFFICES ASSUME AssemblyInv, EndGather PROVE AssemblyInv'
  OBVIOUS
<1>1. /\ phase = "gathering" /\ UNCHANGED location
      /\ \A s \in Providers : result[s].kind # "pending"
  BY DEF AssemblyInv, Asked, EndGather, Providers, LastResort
<1>2. "coops_wind" \in Providers /\ "gridpoint_wind" \in Providers
  BY DEF Providers, LastResort
<1>3. CASE Return(result) /\ UNCHANGED result
  <2>1. Returned' /\ phase' = "done"
    BY <1>1, <1>3, ReturnStep
  <2>2. Started'
    BY <1>1, <1>3 DEF AssemblyInv, Started
  <2> QED
    BY <1>1, <1>2, <1>3, <2>1, <2>2 DEF AssemblyInv, Typed, Phases, Asked, Providers
<1>4. CASE Wind(result) = "none" /\ AskLastResort
  <2>1. Settled(result, "marine_zone") /\ Settled(result, "buoy")
    BY <1>1, <1>4, NoWindSettles DEF Settled, Providers, Fetched
  <2>2. Returned
    BY DEF AssemblyInv
  <2>3. CASE "water_temp" \in location.stations
    <3>1. /\ phase' = "coops_wind" /\ envelope' = envelope
          /\ result' = [result EXCEPT !["coops_wind"] = Without("pending")]
      BY <1>4, <2>3 DEF AskLastResort
    <3>2. /\ result' \in [Providers -> Results]
          /\ \A t \in Providers : t # "coops_wind" => result'[t] = result[t]
      BY <1>2, <3>1, ResultTyped, WithoutTyped DEF AssemblyInv
    <3>3. Typed' /\ Returned'
      BY <1>1, <2>2, <3>1, <3>2 DEF AssemblyInv, Typed, Phases, Returned, Done
    <3>4. Asked'
      BY <1>1, <1>2, <2>1, <3>1, <3>2, SettledKept DEF Asked, Providers, Fetched, LastResort
    <3>5. Started'
      BY <1>1, <3>2 DEF AssemblyInv, Started, Providers, Fetched
    <3> QED
      BY <3>3, <3>4, <3>5 DEF AssemblyInv
  <2>4. CASE "water_temp" \notin location.stations
    <3>1. /\ phase' = "gridpoint_wind" /\ envelope' = envelope
          /\ result' = [result EXCEPT !["coops_wind"] = Without("error"),
                                      !["gridpoint_wind"] = Without("pending")]
      BY <1>4, <2>4 DEF AskLastResort
    <3>2. /\ result' \in [Providers -> Results]
          /\ result'["coops_wind"] = Without("error")
          /\ \A t \in Fetched : result'[t] = result[t]
      BY <1>2, <3>1, WithoutTyped DEF AssemblyInv, Typed, Providers, Fetched
    <3>3. Typed' /\ Returned'
      BY <1>1, <2>2, <3>1, <3>2 DEF AssemblyInv, Typed, Phases, Returned, Done
    <3>4. Settled(result', "coops_wind")
      BY <3>2, WithoutTyped DEF Settled, Reported
    <3>5. Asked'
      <4>1. Settled(result, "marine_zone")' /\ Settled(result, "buoy")' /\ Settled(result, "coops_wind")'
        BY <2>1, <3>2, <3>4 DEF Settled, Reported, Fetched
      <4>2. \A s \in Fetched : result'[s].kind # "pending"
        BY <1>1, <3>2 DEF Providers
      <4>3. result'["coops_wind"].kind # "pending"
        BY <3>2, WithoutTyped
      <4> QED
        BY <3>1, <4>1, <4>2, <4>3 DEF Asked
    <3>6. Started'
      BY <1>1, <3>2 DEF AssemblyInv, Started
    <3> QED
      BY <3>3, <3>5, <3>6 DEF AssemblyInv
  <2> QED
    BY <2>3, <2>4
<1> QED
  BY <1>3, <1>4 DEF EndGather

LEMMA EndCoopsWindStep == AssemblyInv /\ EndCoopsWind => AssemblyInv'
<1> SUFFICES ASSUME AssemblyInv, EndCoopsWind PROVE AssemblyInv'
  OBVIOUS
<1>1. "coops_wind" \in Providers /\ "gridpoint_wind" \in Providers
  BY DEF Providers, LastResort
<1>2. phase = "coops_wind" /\ UNCHANGED location /\ envelope = NoEnvelope
  BY DEF EndCoopsWind, AssemblyInv, Returned, Done
<1>3. \A s \in Fetched : result[s].kind # "pending"
  BY <1>2 DEF AssemblyInv, Asked
<1>4. result["gridpoint_wind"].kind # "pending"
  BY <1>2 DEF AssemblyInv, Asked
<1>5. PICK x \in Readings("coops_wind") \union {Without("error")} :
        \/ /\ result' = [result EXCEPT !["coops_wind"] = x]
           /\ x.kind = "ok" /\ Return(result')
        \/ /\ result' = [result EXCEPT !["coops_wind"] = x, !["gridpoint_wind"] = Without("pending")]
           /\ x.kind # "ok" /\ phase' = "gridpoint_wind" /\ UNCHANGED envelope
  BY DEF EndCoopsWind
<1>6. x \in Results
  BY <1>1, ReadingsTyped, WithoutTyped
<1>7. CASE /\ result' = [result EXCEPT !["coops_wind"] = x]
           /\ x.kind = "ok" /\ Return(result')
  <2>1. Returned' /\ phase' = "done"
    BY <1>2, <1>7, ReturnStep
  <2>2. /\ result' \in [Providers -> Results]
        /\ result'["coops_wind"] = x
        /\ \A t \in Providers : t # "coops_wind" => result'[t] = result[t]
    BY <1>1, <1>6, <1>7, ResultTyped DEF AssemblyInv
  <2>3. Typed'
    BY <1>2, <2>1, <2>2 DEF AssemblyInv, Typed, Phases
  <2>4. Asked'
    BY <1>3, <1>4, <1>7, <2>1, <2>2 DEF Asked, Providers, Fetched, LastResort
  <2>5. Started'
    BY <1>2, <2>2 DEF AssemblyInv, Started, Providers, Fetched
  <2> QED
    BY <2>1, <2>3, <2>4, <2>5 DEF AssemblyInv
<1>8. CASE /\ result' = [result EXCEPT !["coops_wind"] = x, !["gridpoint_wind"] = Without("pending")]
           /\ x.kind # "ok" /\ phase' = "gridpoint_wind" /\ UNCHANGED envelope
  <2>1. /\ result' \in [Providers -> Results]
        /\ result'["coops_wind"] = x
        /\ \A t \in Fetched : result'[t] = result[t]
    BY <1>1, <1>6, <1>8, WithoutTyped DEF AssemblyInv, Typed, Providers, Fetched
  <2>2. Typed' /\ Returned'
    BY <1>2, <1>8, <2>1 DEF AssemblyInv, Typed, Phases, Returned, Done
  <2>3. x = Without("error")
    BY <1>5, <1>8 DEF Readings
  <2>4. Settled(result, "coops_wind")' /\ result'["coops_wind"].kind # "pending"
    BY <2>1, <2>3, WithoutTyped DEF Settled, Reported
  <2>5. Settled(result, "marine_zone")' /\ Settled(result, "buoy")'
    BY <1>2, <2>1 DEF AssemblyInv, Asked, Settled, Reported, Fetched
  <2>6. Started'
    BY <1>2, <2>1 DEF AssemblyInv, Started
  <2> QED
    BY <1>3, <1>8, <2>1, <2>2, <2>4, <2>5, <2>6 DEF AssemblyInv, Asked
<1> QED
  BY <1>5, <1>7, <1>8

LEMMA EndGridpointWindStep == AssemblyInv /\ EndGridpointWind => AssemblyInv'
<1> SUFFICES ASSUME AssemblyInv, EndGridpointWind PROVE AssemblyInv'
  OBVIOUS
<1>1. "gridpoint_wind" \in Providers
  BY DEF Providers, LastResort
<1>2. phase = "gridpoint_wind" /\ UNCHANGED location
  BY DEF EndGridpointWind
<1>3. PICK x \in Readings("gridpoint_wind") \union {Without("error")} :
         result' = [result EXCEPT !["gridpoint_wind"] = x]
  BY DEF EndGridpointWind
<1>4. x \in Results /\ x.kind # "pending"
  BY <1>1, ReadingsTyped, WithoutTyped DEF Readings
<1>5. /\ result' \in [Providers -> Results]
      /\ result'["gridpoint_wind"] = x
      /\ \A t \in Providers : t # "gridpoint_wind" => result'[t] = result[t]
  BY <1>1, <1>3, <1>4, ResultTyped DEF AssemblyInv
<1>6. Returned' /\ phase' = "done"
  BY <1>2, ReturnStep DEF EndGridpointWind
<1>7. Typed'
  BY <1>2, <1>5, <1>6 DEF AssemblyInv, Typed, Phases
<1>8. Asked'
  BY <1>2, <1>4, <1>5, <1>6 DEF AssemblyInv, Asked, Providers, Fetched, LastResort
<1>9. Started'
  BY <1>2, <1>5 DEF AssemblyInv, Started, Providers, Fetched
<1> QED
  BY <1>6, <1>7, <1>8, <1>9 DEF AssemblyInv

LEMMA FetchRaisesStep == AssemblyInv /\ FetchRaises => AssemblyInv'
<1> SUFFICES ASSUME AssemblyInv, FetchRaises PROVE AssemblyInv'
  OBVIOUS
<1>1. phase \in {"gathering", "coops_wind", "gridpoint_wind"}
  BY DEF FetchRaises, AssemblyInv, Asked, Providers, LastResort
<1>2. envelope' = NoEnvelope /\ phase' = "raised" /\ UNCHANGED location
  BY <1>1 DEF FetchRaises, AssemblyInv, Returned, Done
<1>3. /\ result' \in [Providers -> Results]
      /\ \A s \in Providers : result'[s].kind = "unasked"
  BY WithoutTyped DEF FetchRaises
<1> QED
  BY <1>2, <1>3 DEF AssemblyInv, Typed, Phases, Returned, Done, Asked, Started, Providers, LastResort

LEMMA StutterStep == AssemblyInv /\ UNCHANGED assemblyVars => AssemblyInv'
<1> SUFFICES ASSUME AssemblyInv, UNCHANGED assemblyVars PROVE AssemblyInv'
  OBVIOUS
<1>1. result' = result /\ location' = location /\ phase' = phase /\ envelope' = envelope
  BY DEF assemblyVars
<1>2. Envelope(result)' = Envelope(result')
  BY <1>1, EnvelopePrimed
<1>3. Envelope(result') = Envelope(result)
  BY <1>1
<1> QED
  BY <1>1, <1>2, <1>3 DEF AssemblyInv, Typed, Returned, Asked, Started, Done, Settled, Reported

LEMMA AssemblyInvariance == AssemblySpec => []AssemblyInv
<1>1. AssemblyInv /\ [AssemblyNext]_assemblyVars => AssemblyInv'
  BY AssembleStep, FetchStep, EndGatherStep, EndCoopsWindStep, EndGridpointWindStep,
     FetchRaisesStep, StutterStep DEF AssemblyNext
<1> QED
  BY <1>1, InitStep, PTL DEF AssemblySpec

(* A last resort is only ever on its way when every source of wind before   *)
(* it has answered and reported none.                                       *)
THEOREM FallbacksComeLast == AssemblySpec => FallbacksAreLastResort
<1> DEFINE LastAsked == \A i, j \in DOMAIN WindOrder :
       (i < j /\ result[WindOrder[j]].kind = "pending" /\ WindOrder[j] \in LastResort) =>
         Settled(result, WindOrder[i])
<1>1. AssemblyInv => LastAsked
  <2> SUFFICES ASSUME AssemblyInv, NEW i \in DOMAIN WindOrder, NEW j \in DOMAIN WindOrder,
                      i < j, result[WindOrder[j]].kind = "pending", WindOrder[j] \in LastResort
               PROVE  Settled(result, WindOrder[i])
    OBVIOUS
  <2>1. /\ i \in 1..4 /\ j \in 1..4
        /\ WindOrder[1] = "marine_zone" /\ WindOrder[2] = "buoy"
        /\ WindOrder[3] = "coops_wind" /\ WindOrder[4] = "gridpoint_wind"
    BY DEF WindOrder
  <2>3. CASE j = 3
    BY <2>1, <2>3 DEF AssemblyInv, Asked
  <2>4. CASE j = 4
    BY <2>1, <2>4 DEF AssemblyInv, Asked
  <2>5. CASE j \in {1, 2}
    BY <2>1, <2>5 DEF LastResort
  <2> QED
    BY <2>1, <2>3, <2>4, <2>5
<1>2. LastAsked' => \A i, j \in DOMAIN WindOrder :
         (i < j /\ result'[WindOrder[j]].kind = "pending" /\ WindOrder[j] \in LastResort) =>
           Settled(result', WindOrder[i])
  BY DEF WindOrder, Settled, Reported
<1> QED
  BY <1>1, <1>2, AssemblyInvariance, PTL DEF FallbacksAreLastResort

-----------------------------------------------------------------------------
(* Confidence                                                               *)

(* Down counts: there are at most as many records as there are providers.   *)
LEMMA DownIsFinite ==
  ASSUME NEW r
  PROVE  IsFiniteSet(Down(r))
<1> DEFINE named == <<"marine_zone", "water_temp", "buoy", "alerts", "tides", "coops_wind", "gridpoint_wind">>
           All == {[provider |-> s, state |-> "unavailable"] : s \in Providers}
           f == [i \in 1..7 |-> [provider |-> named[i], state |-> "unavailable"]]
<1>1. \A s \in Providers : \E i \in 1..7 : named[i] = s
  BY DEF Providers, Fetched, LastResort
<1>2. \A i \in 1..7 : named[i] \in Providers
  BY DEF Providers, Fetched, LastResort
<1> HIDE DEF named
<1>3. f \in Surjection(1..7, All)
  BY <1>1, <1>2 DEF Surjection
<1>4. IsFiniteSet(1..7)
  <2>1. 1 \in Int /\ 7 \in Int
    OBVIOUS
  <2> QED
    BY <2>1, FS_Interval
<1> HIDE DEF f, All
<1>5. IsFiniteSet(All)
  BY <1>3, <1>4, FS_Surjection
<1>6. Down(r) \subseteq All
  BY DEF Down, Statuses, All
<1> QED
  BY <1>5, <1>6, FS_Subset

LEMMA HighMeans ==
  ASSUME Typed, result["water_temp"].kind \in {"ok", "error"}, Confidence(result) = "high"
  PROVE  /\ Down(result) = {}
         /\ result["water_temp"].kind = "ok" /\ result["water_temp"].age < 5
         /\ location.miles < 50
         /\ location.miles < 25 \/ result["water_temp"].age < 2
<1> DEFINE n == Cardinality(Down(result))
           temp == result["water_temp"]
<1>1. n \in Nat
  BY DownIsFinite, FS_CardinalityType
<1>2. /\ temp.age \in Ages \union {NoAge} /\ location.west \in Wests
      /\ location.miles \in Distances \union {NoMiles}
  BY DEF Typed, Results, Locations, Providers, Fetched
<1>3. temp.age \in Int /\ location.west \in Nat /\ location.miles \in Int
  <2>1. NoAge \in Int /\ NoMiles \in Int
    BY DEF NoAge, NoMiles
  <2>2. Ages \subseteq Int /\ Distances \subseteq Int /\ Wests \subseteq Nat
    BY AssemblyAssumption
  <2> QED
    BY <1>2, <2>1, <2>2, Zenon
<1>4. AgeSeen(result) \in Int /\ (temp.kind = "ok" => AgeSeen(result) >= temp.age)
  BY <1>3 DEF AgeSeen
<1>5. AgePenalty(result) = IF AgeSeen(result) >= 5 THEN 18 ELSE IF AgeSeen(result) >= 2 THEN 8 ELSE 0
  BY DEF AgePenalty, AgeClass
<1>6. FallbackPenalty(result) = IF temp.kind = "ok" THEN 0 ELSE 15
  BY DEF FallbackPenalty
<1>7. DistancePenalty = IF location.miles >= 50 THEN 18 ELSE IF location.miles >= 25 THEN 8 ELSE 0
  BY DEF DistancePenalty
<1>8. 100 - 25 * n - AgePenalty(result) - FallbackPenalty(result) - DistancePenalty >= 85
  BY DEF Confidence, Points
<1>9. n = 0
  BY <1>1, <1>3, <1>4, <1>5, <1>6, <1>7, <1>8
<1>10. Down(result) = {}
  BY <1>9, DownIsFinite, FS_EmptySet
<1>11. temp.kind = "ok"
  <2>1. temp.kind = "error" => [provider |-> "water_temp", state |-> "unavailable"] \in Down(result)
    BY DEF Down, Statuses, Providers, Fetched
  <2> QED
    BY <1>10, <2>1
<1> QED
  BY <1>3, <1>4, <1>5, <1>6, <1>7, <1>8, <1>9, <1>10, <1>11

(* High confidence: every source has answered, the temperature is live and  *)
(* not stale, the anchor near, for all ages, time zones and distances.      *)
THEOREM HighConfidenceIsEarned == AssemblySpec => []HighIsWellFounded
<1>1. ASSUME AssemblyInv, Done, envelope.confidence = "high"
      PROVE  /\ Down(result) = {}
             /\ envelope.temperature = "live" /\ result["water_temp"].age < 5
             /\ location.miles < 50
             /\ location.miles < 25 \/ result["water_temp"].age < 2
  <2>1. envelope = Envelope(result)
    BY <1>1 DEF AssemblyInv, Returned
  <2>2. /\ envelope.confidence = Confidence(result)
        /\ envelope.temperature = IF result["water_temp"].kind = "ok" THEN "live" ELSE "average"
    BY <2>1 DEF Envelope
  <2>3. result["water_temp"].kind \in {"ok", "error"}
    <3>1. result["water_temp"].kind \in {"unasked", "pending", "error", "ok"}
      BY <1>1 DEF AssemblyInv, Typed, Results, Providers, Fetched
    <3> QED
      BY <1>1, <3>1 DEF AssemblyInv, Asked, Started, Done, Fetched
  <2> QED
    BY <1>1, <2>2, <2>3, HighMeans DEF AssemblyInv
<1>2. AssemblyInv => HighIsWellFounded
  BY <1>1 DEF HighIsWellFounded
<1> QED
  BY <1>2, AssemblyInvariance, PTL

-----------------------------------------------------------------------------
(* The type of the envelope                                                 *)

LEMMA FirstIsShown ==
  ASSUME NEW r, NEW q, NEW n \in {2, 4}, NEW order, DOMAIN order = 1..n,
         \A i \in 1..n : order[i] \in Providers
  PROVE  FirstOf(r, q, order) \in Shown
<1> DEFINE having == {i \in 1..n : Reported(r, order[i], q)}
           first == CHOOSE i \in having : \A j \in having : i <= j
<1>1. CASE having = {}
  BY <1>1 DEF FirstOf, Shown
<1>2. CASE having # {}
  <2>1. \E i \in having : \A j \in having : i <= j
    <3>1. having \subseteq 1..n
      OBVIOUS
    <3>2. having # {} /\ having \subseteq 1..4
      BY <1>2, <3>1
    <3> HIDE DEF having
    <3>3. \A i \in 1..4 : (i \in having /\ \A j \in 1..4 : j < i => j \notin having)
                           => \A j \in having : i <= j
      BY <3>2
    <3>4. \E i \in 1..4 : i \in having /\ \A j \in 1..4 : j < i => j \notin having
      <4>1. CASE 1 \in having
        BY <4>1
      <4>2. CASE 1 \notin having /\ 2 \in having
        BY <4>2
      <4>3. CASE {1, 2} \intersect having = {} /\ 3 \in having
        BY <4>3
      <4>4. CASE {1, 2, 3} \intersect having = {} /\ 4 \in having
        BY <4>4
      <4>5. \E j \in 1..4 : j \in having
        BY <3>2
      <4> QED
        BY <4>1, <4>2, <4>3, <4>4, <4>5
    <3> QED
      BY <3>3, <3>4
  <2>2. first \in 1..n
    BY <2>1
  <2>3. FirstOf(r, q, order) = order[first]
    BY <1>2 DEF FirstOf
  <2> QED
    BY <2>2, <2>3 DEF Shown
<1> QED
  BY <1>1, <1>2

LEMMA EnvelopeTyped ==
  ASSUME Typed
  PROVE  Envelope(result) \in Envelopes
<1>1. Wind(result) \in Shown /\ Direction(result) \in Shown
  <2>1. DOMAIN WindOrder = 1..4 /\ \A i \in 1..4 : WindOrder[i] \in Providers
    BY DEF WindOrder, Providers, Fetched, LastResort
  <2> QED
    BY <2>1, FirstIsShown DEF Wind, Direction
<1>2. Wave(result) \in Shown
  <2> DEFINE order == <<"marine_zone", "buoy">>
  <2>1. DOMAIN order = 1..2 /\ \A i \in 1..2 : order[i] \in Providers
    BY DEF Providers, Fetched
  <2>2. Wave(result) = FirstOf(result, "wave", order)
    BY DEF Wave
  <2> HIDE DEF order
  <2> QED
    BY <2>1, <2>2, FirstIsShown
<1>3. Statuses(result) \in SUBSET [provider : Providers, state : {"ok", "unavailable"}]
  BY DEF Statuses
<1>4. Warnings(result) \in SUBSET Providers
  BY DEF Warnings, Providers
<1>5. /\ Scored(result) \in BOOLEAN
      /\ AgeClass(AgeSeen(result)) \in {"recent", "aging", "stale"}
      /\ Confidence(result) \in {"high", "medium", "low"}
  BY DEF Scored, AgeClass, Confidence
<1>6. (result["tides"].kind = "ok") \in BOOLEAN
  OBVIOUS
<1> DEFINE state == IF Wind(result) # "none" THEN "fresh" ELSE "partial"
           temperature == IF result["water_temp"].kind = "ok" THEN "live" ELSE "average"
<1>7. state \in {"fresh", "partial"} /\ temperature \in {"live", "average"}
  OBVIOUS
<1>8. Envelope(result) =
        [state |-> state, sources |-> Statuses(result), warnings |-> Warnings(result),
         temperature |-> temperature,
         wind |-> Wind(result), wave |-> Wave(result), direction |-> Direction(result),
         scored |-> Scored(result), tides |-> result["tides"].kind = "ok",
         age |-> AgeClass(AgeSeen(result)), confidence |-> Confidence(result)]
  BY DEF Envelope
<1> HIDE DEF state, temperature
<1> QED
  BY <1>1, <1>2, <1>3, <1>4, <1>5, <1>6, <1>7, <1>8 DEF Envelopes

(* Every variable keeps its type, the envelope with it.                     *)
THEOREM AssemblyIsTyped == AssemblySpec => []AssemblyTypeOK
<1>1. AssemblyInv => AssemblyTypeOK
  BY EnvelopeTyped DEF AssemblyInv, Typed, Returned, AssemblyTypeOK
<1> QED
  BY <1>1, AssemblyInvariance, PTL

-----------------------------------------------------------------------------
(***************************************************************************)
(* LegacyPort and LegacySpecies                                            *)
(***************************************************************************)

-----------------------------------------------------------------------------
(* The tables of the legacy function                                        *)

LEMMA PastTable3 ==
  ASSUME NEW x \in Int, NEW b1 \in Int, NEW b2 \in Int, NEW b3 \in Int, NEW v1, NEW v2, NEW v3
  PROVE  Past(x, <<<<b1, v1>>, <<b2, v2>>, <<b3, v3>>>>) =
           IF x >= b1 THEN v1 ELSE IF x >= b2 THEN v2 ELSE IF x >= b3 THEN v3 ELSE 0
<1> DEFINE t    == <<<<b1, v1>>, <<b2, v2>>, <<b3, v3>>>>
           fits == {i \in DOMAIN t : x >= t[i][1]}
           f    == CHOOSE i \in fits : \A j \in fits : i <= j
<1>1. DOMAIN t = 1..3 /\ t[1] = <<b1, v1>> /\ t[2] = <<b2, v2>> /\ t[3] = <<b3, v3>>
  OBVIOUS
<1>2. Past(x, t) = IF fits = {} THEN 0 ELSE t[f][2]
  BY DEF Past, First
<1> QED
  BY <1>1, <1>2

LEMMA PastTable2 ==
  ASSUME NEW x \in Int, NEW b1 \in Int, NEW b2 \in Int, NEW v1, NEW v2
  PROVE  Past(x, <<<<b1, v1>>, <<b2, v2>>>>) =
           IF x >= b1 THEN v1 ELSE IF x >= b2 THEN v2 ELSE 0
<1> DEFINE t    == <<<<b1, v1>>, <<b2, v2>>>>
           fits == {i \in DOMAIN t : x >= t[i][1]}
           f    == CHOOSE i \in fits : \A j \in fits : i <= j
<1>1. DOMAIN t = 1..2 /\ t[1] = <<b1, v1>> /\ t[2] = <<b2, v2>>
  OBVIOUS
<1>2. Past(x, t) = IF fits = {} THEN 0 ELSE t[f][2]
  BY DEF Past, First
<1> QED
  BY <1>1, <1>2

LEMMA VerdictTable ==
  ASSUME NEW s \in Int
  PROVE  Absent \notin Int => LegacyVerdict(s) = Verdict(s)
<1> SUFFICES ASSUME Absent \notin Int PROVE LegacyVerdict(s) = Verdict(s)
  OBVIOUS
<1> DEFINE t    == <<<<80, "Excellent">>, <<64, "Good">>, <<48, "Fair">>, <<32, "Challenging">>>>
           fits == {i \in DOMAIN t : s >= t[i][1]}
           f    == CHOOSE i \in fits : \A j \in fits : i <= j
<1>1. /\ DOMAIN t = 1..4
      /\ t[1] = <<80, "Excellent">> /\ t[2] = <<64, "Good">> /\ t[3] = <<48, "Fair">>
      /\ t[4] = <<32, "Challenging">>
  OBVIOUS
<1>2. LegacyVerdict(s) = IF fits = {} THEN "Poor" ELSE t[f][2]
  BY DEF LegacyVerdict, First
<1>3. Verdict(s) = IF s >= 80 THEN "Excellent" ELSE IF s >= 64 THEN "Good"
                   ELSE IF s >= 48 THEN "Fair" ELSE IF s >= 32 THEN "Challenging" ELSE "Poor"
  BY DEF Verdict
<1> HIDE DEF t
<1>4. LegacyVerdict(s) = IF s >= 80 THEN "Excellent" ELSE IF s >= 64 THEN "Good"
                   ELSE IF s >= 48 THEN "Fair" ELSE IF s >= 32 THEN "Challenging" ELSE "Poor"
  BY <1>1, <1>2
<1> QED
  BY <1>3, <1>4

-----------------------------------------------------------------------------
LEMMA WindTables ==
  ASSUME NEW w \in Int
  PROVE  /\ WindScore(w) = IF w <= 8 THEN 14 ELSE IF w <= 12 THEN 8 ELSE IF w <= 16 THEN 2
                           ELSE IF w <= 20 THEN -8 ELSE IF w <= 25 THEN -16 ELSE -26
         /\ WindImpact(w) = WindScore(w)
<1>1. WindScore(w) = IF w <= 8 THEN 14 ELSE IF w <= 12 THEN 8 ELSE IF w <= 16 THEN 2
                     ELSE IF w <= 20 THEN -8 ELSE IF w <= 25 THEN -16 ELSE -26
  <2> DEFINE t    == <<<<8, 14>>, <<12, 8>>, <<16, 2>>, <<20, -8>>, <<25, -16>>>>
             fits == {i \in DOMAIN t : w <= t[i][1]}
             f    == CHOOSE i \in fits : \A j \in fits : i <= j
  <2>1. /\ DOMAIN t = 1..5
        /\ t[1] = <<8, 14>> /\ t[2] = <<12, 8>> /\ t[3] = <<16, 2>>
        /\ t[4] = <<20, -8>> /\ t[5] = <<25, -16>>
    OBVIOUS
  <2>2. WindScore(w) = IF fits = {} THEN -26 ELSE t[f][2]
    BY DEF WindScore, UpTo, First
  <2> HIDE DEF t
  <2> QED
    BY <2>1, <2>2
<1>2. WindImpact(w) = IF w <= 8 THEN 14 ELSE IF w <= 12 THEN 8 ELSE IF w <= 16 THEN 2
                      ELSE IF w <= 20 THEN -8 ELSE IF w <= 25 THEN -16 ELSE -26
  BY DEF WindImpact
<1> QED
  BY <1>1, <1>2

LEMMA WaveTables ==
  ASSUME NEW h \in Int
  PROVE  /\ WaveScore(h) = IF h <= 3 THEN 10 ELSE IF h <= 6 THEN 6 ELSE IF h <= 10 THEN -4
                           ELSE IF h <= 14 THEN -12 ELSE -22
         /\ WaveImpact(h) = WaveScore(h)
<1>1. WaveScore(h) = IF h <= 3 THEN 10 ELSE IF h <= 6 THEN 6 ELSE IF h <= 10 THEN -4
                     ELSE IF h <= 14 THEN -12 ELSE -22
  <2> DEFINE t    == <<<<3, 10>>, <<6, 6>>, <<10, -4>>, <<14, -12>>>>
             fits == {i \in DOMAIN t : h <= t[i][1]}
             f    == CHOOSE i \in fits : \A j \in fits : i <= j
  <2>1. /\ DOMAIN t = 1..4
        /\ t[1] = <<3, 10>> /\ t[2] = <<6, 6>> /\ t[3] = <<10, -4>>
        /\ t[4] = <<14, -12>>
    OBVIOUS
  <2>2. WaveScore(h) = IF fits = {} THEN -22 ELSE t[f][2]
    BY DEF WaveScore, UpTo, First
  <2> HIDE DEF t
  <2> QED
    BY <2>1, <2>2
<1>2. WaveImpact(h) = IF h <= 3 THEN 10 ELSE IF h <= 6 THEN 6 ELSE IF h <= 10 THEN -4
                      ELSE IF h <= 14 THEN -12 ELSE -22
  BY DEF WaveImpact
<1> QED
  BY <1>1, <1>2

LEMMA TypeScoreFalls ==
  ASSUME NEW c, NEW d, NEW x, c.wind \in Int, d.wind \in Int, c.wave \in Int, d.wave \in Int,
         c.wind <= d.wind, c.wave <= d.wave
  PROVE  TypeScore(c, x) \in Int /\ TypeScore(d, x) \in Int /\ TypeScore(d, x) <= TypeScore(c, x)
<1> DEFINE kayakWind(e)    == Past(e.wind, <<<<20, -16>>, <<15, -10>>, <<10, -4>>>>)
           kayakWave(e)    == Past(e.wave, <<<<6, -10>>, <<4, -4>>>>)
           flyWind(e)      == Past(e.wind, <<<<20, -12>>, <<15, -8>>, <<10, -3>>>>)
           jettyWave(e)    == Past(e.wave, <<<<8, -12>>, <<4, -5>>>>)
           offshoreWave(e) == Past(e.wave, <<<<12, -6>>, <<8, -2>>>>)
           charterWave(e)  == Past(e.wave, <<<<12, -10>>, <<8, -5>>>>)
<1>1. kayakWind(c) \in Int /\ kayakWind(d) \in Int /\ kayakWind(d) <= kayakWind(c)
  BY PastTable3
<1>2. kayakWave(c) \in Int /\ kayakWave(d) \in Int /\ kayakWave(d) <= kayakWave(c)
  BY PastTable2
<1>3. flyWind(c) \in Int /\ flyWind(d) \in Int /\ flyWind(d) <= flyWind(c)
  BY PastTable3
<1>4. jettyWave(c) \in Int /\ jettyWave(d) \in Int /\ jettyWave(d) <= jettyWave(c)
  BY PastTable2
<1>5. offshoreWave(c) \in Int /\ offshoreWave(d) \in Int /\ offshoreWave(d) <= offshoreWave(c)
  BY PastTable2
<1>6. charterWave(c) \in Int /\ charterWave(d) \in Int /\ charterWave(d) <= charterWave(c)
  BY PastTable2
<1>7. CharterScore(c) \in Int /\ CharterScore(d) \in Int /\ CharterScore(d) <= CharterScore(c)
  BY <1>6 DEF CharterScore, If
<1> HIDE DEF kayakWind, kayakWave, flyWind, jettyWave, offshoreWave, charterWave
<1> DEFINE kayak(e)    == If("kayak" \in x.types, kayakWind(e) + kayakWave(e))
           fly(e)      == If("fly" \in x.types, flyWind(e) + If(e.wave < 8, 5))
           wade(e)     == If("wade" \in x.types /\ "surf" \notin x.types,
                             If(e.wave < 8, 4) + If(e.wind <= 8, 3))
           jetty(e)    == If("jetty" \in x.types, jettyWave(e))
           bridge(e)   == If("bridge" \in x.types, If(e.wave < 8, 4) + If(Moving(x), 4))
           charter(e)  == If("charter" \in x.types, CharterScore(e))
           offshore(e) == If("offshore" \in x.types /\ "charter" \notin x.types, offshoreWave(e))
           total(e)    == kayak(e) + fly(e) + wade(e) + jetty(e) + bridge(e) + charter(e) + offshore(e)
<1>8. TypeScore(c, x) = total(c) /\ TypeScore(d, x) = total(d)
  BY DEF TypeScore, kayakWind, kayakWave, flyWind, jettyWave, offshoreWave
<1>9. kayak(c) \in Int /\ kayak(d) \in Int /\ kayak(d) <= kayak(c)
  BY <1>1, <1>2 DEF If
<1>10. fly(c) \in Int /\ fly(d) \in Int /\ fly(d) <= fly(c)
  BY <1>3 DEF If
<1>11. wade(c) \in Int /\ wade(d) \in Int /\ wade(d) <= wade(c)
  BY DEF If
<1>12. jetty(c) \in Int /\ jetty(d) \in Int /\ jetty(d) <= jetty(c)
  BY <1>4 DEF If
<1>13. bridge(c) \in Int /\ bridge(d) \in Int /\ bridge(d) <= bridge(c)
  BY DEF If
<1>14. charter(c) \in Int /\ charter(d) \in Int /\ charter(d) <= charter(c)
  BY <1>7 DEF If
<1>15. offshore(c) \in Int /\ offshore(d) \in Int /\ offshore(d) <= offshore(c)
  BY <1>5 DEF If
<1> HIDE DEF kayak, fly, wade, jetty, bridge, charter, offshore
<1>16. total(c) \in Int /\ total(d) \in Int /\ total(d) <= total(c)
  BY <1>9, <1>10, <1>11, <1>12, <1>13, <1>14, <1>15
<1> QED
  BY <1>8, <1>16

-----------------------------------------------------------------------------
(* What the conditions of a score are. *)
WellTyped(c) ==
  /\ c.region \in Regions /\ c.temperature \in Maybe(Int) /\ c.is_fallback \in BOOLEAN
  /\ c.now \in Maybe(Int) /\ c.sun \in Maybe([rise : Int, set : Int])
  /\ c.solunar \in Maybe([rating : DOMAIN RatingBonus, illumination : Int])

LEMMA GivenFields ==
  ASSUME NEW s \in Signals, NEW w, NEW h, NEW c, c = With(s, w, h)
  PROVE  /\ c.wind = w /\ c.wave = h
         /\ c.region = s.region /\ c.direction = s.direction
         /\ c.temperature = s.temperature /\ c.is_fallback = s.is_fallback
         /\ c.now = s.now /\ c.sun = s.sun /\ c.solunar = s.solunar
         /\ WellTyped(c)
<1>1. DOMAIN s = {"wind", "wave", "region", "direction", "temperature", "is_fallback", "now", "sun", "solunar"}
  BY PortAssumption
<1>2. /\ c.wind = w /\ c.wave = h
      /\ c.region = s.region /\ c.direction = s.direction
      /\ c.temperature = s.temperature /\ c.is_fallback = s.is_fallback
      /\ c.now = s.now /\ c.sun = s.sun /\ c.solunar = s.solunar
  BY <1>1 DEF With
<1>3. WellTyped(s)
  BY PortAssumption DEF WellTyped
<1> QED
  BY <1>2, <1>3 DEF WellTyped

LEMMA RegionDirections ==
  ASSUME NEW c, c.region \in Regions
  PROVE  DirectionImpact(c) = DirectionScore(c) /\ DirectionScore(c) \in Int
<1>1. CASE c.region = "pacific"
  BY <1>1 DEF DirectionImpact, DirectionScore, wind_orientation_for_region, onshore_dirs, offshore_dirs,
             _wind_orientation, _DIRS_BY_ORIENTATION, East, West, Gulf
<1>2. CASE c.region = "gulf"
  BY <1>2 DEF DirectionImpact, DirectionScore, wind_orientation_for_region, onshore_dirs, offshore_dirs,
             _wind_orientation, _DIRS_BY_ORIENTATION, East, West, Gulf
<1>3. CASE c.region = "hawaii"
  BY <1>3 DEF DirectionImpact, DirectionScore, wind_orientation_for_region, onshore_dirs, offshore_dirs,
             _wind_orientation, _DIRS_BY_ORIENTATION, East, West, Gulf
<1>4. CASE c.region = "atlantic"
  BY <1>4 DEF DirectionImpact, DirectionScore, wind_orientation_for_region, onshore_dirs, offshore_dirs,
             _wind_orientation, _DIRS_BY_ORIENTATION, East, West, Gulf
<1> QED
  BY <1>1, <1>2, <1>3, <1>4 DEF Regions

LEMMA TemperatureParts ==
  ASSUME NEW c, c.temperature \in Maybe(Int), c.is_fallback \in BOOLEAN
  PROVE  /\ TemperatureImpact(c.temperature) \in Int /\ LiveImpact(c) \in Int
         /\ TemperatureScore(c) = TemperatureImpact(c.temperature) + LiveImpact(c)
<1> DEFINE t == c.temperature
<1>1. CASE t = Absent
  BY <1>1 DEF TemperatureImpact, LiveImpact, TemperatureScore
<1>2. CASE t # Absent
  <2>1. t \in Int
    BY <1>2 DEF Maybe
  <2>2. /\ TemperatureImpact(t) = IF 58 <= t /\ t <= 78 THEN 6 ELSE IF 50 <= t /\ t <= 84 THEN 2 ELSE -4
        /\ LiveImpact(c) = IF ~c.is_fallback THEN 1 ELSE 0
        /\ TemperatureScore(c) = (IF ~c.is_fallback THEN 1 ELSE 0)
             + (IF 58 <= t /\ t <= 78 THEN 6
                ELSE IF (50 <= t /\ t < 58) \/ (78 < t /\ t <= 84) THEN 2 ELSE -4)
    BY <1>2, Zenon DEF TemperatureImpact, LiveImpact, TemperatureScore, If
  <2> QED
    BY <2>1, <2>2
<1> QED
  BY <1>1, <1>2

LEMMA Lights ==
  ASSUME NEW c, c.now \in Maybe(Int), c.sun \in Maybe([rise : Int, set : Int])
  PROVE  LightImpact(c) = LightScore(c) /\ LightScore(c) \in Int
<1>1. CASE c.now = Absent \/ c.sun = Absent
  BY <1>1 DEF LightImpact, LightScore
<1>2. CASE ~(c.now = Absent \/ c.sun = Absent)
  <2>1. c.now \in Int /\ c.sun.rise \in Int /\ c.sun.set \in Int
    BY <1>2 DEF Maybe
  <2>2. /\ Near(c.now, c.sun.rise) <=> Within(c.now, c.sun.rise, 120)
        /\ Near(c.sun.set, c.now) <=> Within(c.now, c.sun.set, 120)
    BY <2>1 DEF Near, Within
  <2> QED
    BY <1>2, <2>2 DEF LightImpact, LightScore, If
<1> QED
  BY <1>1, <1>2

LEMMA Solunars ==
  ASSUME NEW c, c.solunar \in Maybe([rating : DOMAIN RatingBonus, illumination : Int])
  PROVE  SolunarImpact(c) = SolunarScore(c) /\ SolunarScore(c) \in Int
<1>1. CASE c.solunar = Absent
  BY <1>1 DEF SolunarImpact, SolunarScore
<1>2. CASE c.solunar # Absent
  <2>1. c.solunar.rating \in {"Excellent", "Good", "Fair", "Poor"} /\ c.solunar.illumination \in Int
    BY <1>2 DEF Maybe, RatingBonus
  <2>2. RatingImpact(c.solunar.rating) = RatingBonus[c.solunar.rating]
        /\ RatingBonus[c.solunar.rating] \in Int
    BY <2>1 DEF RatingImpact, RatingBonus
  <2> QED
    BY <1>2, <2>1, <2>2 DEF SolunarImpact, SolunarScore, IlluminationImpact, If
<1> QED
  BY <1>1, <1>2

LEMMA NothingLeftOut ==
  ASSUME NEW c
  PROVE  /\ TideScore(c, NoAngler) = 0 /\ TypeScore(c, NoAngler) = 0
         /\ LimitScore(c, NoAngler) = 0 /\ QualityScore(NoAngler) = 0
<1> USE DEF NoAngler, If
<1>1. TideScore(c, NoAngler) = 0
  BY DEF TideScore, Moving
<1>2. TypeScore(c, NoAngler) = 0
  BY DEF TypeScore
<1>3. LimitScore(c, NoAngler) = 0
  BY DEF LimitScore, Over
<1>4. QualityScore(NoAngler) = 0
  BY DEF QualityScore
<1> QED
  BY <1>1, <1>2, <1>3, <1>4

-----------------------------------------------------------------------------
LEMMA ScoresAgree ==
  ASSUME NEW c, WellTyped(c), c.wind \in Int, c.wave \in Int
  PROVE  Score(c) = LegacyScore(c, NoAngler) /\ Score(c) \in Int
<1> DEFINE s == 50 + WindImpact(c.wind) + WaveImpact(c.wave) + DirectionImpact(c)
                   + TemperatureImpact(c.temperature) + LiveImpact(c) + LightImpact(c)
                   + SolunarImpact(c)
           l == 50 + WindScore(c.wind) + WaveScore(c.wave) + DirectionScore(c)
                   + TemperatureScore(c) + TideScore(c, NoAngler) + LightScore(c) + SolunarScore(c)
                   + TypeScore(c, NoAngler) + LimitScore(c, NoAngler) + QualityScore(NoAngler)
<1>1. WindImpact(c.wind) = WindScore(c.wind) /\ WindScore(c.wind) \in Int
  BY WindTables
<1>2. WaveImpact(c.wave) = WaveScore(c.wave) /\ WaveScore(c.wave) \in Int
  BY WaveTables
<1>3. DirectionImpact(c) = DirectionScore(c) /\ DirectionScore(c) \in Int
  BY RegionDirections DEF WellTyped
<1>4. /\ TemperatureImpact(c.temperature) \in Int /\ LiveImpact(c) \in Int
      /\ TemperatureScore(c) = TemperatureImpact(c.temperature) + LiveImpact(c)
  BY TemperatureParts DEF WellTyped
<1>5. LightImpact(c) = LightScore(c) /\ LightScore(c) \in Int
  BY Lights DEF WellTyped
<1>6. SolunarImpact(c) = SolunarScore(c) /\ SolunarScore(c) \in Int
  BY Solunars DEF WellTyped
<1>7. s = l /\ s \in Int
  BY <1>1, <1>2, <1>3, <1>4, <1>5, <1>6, NothingLeftOut
<1>8. c.wind # Absent /\ c.wave # Absent
  BY PortAssumption
<1>9. Score(c) = Clamped(s)
  BY <1>8 DEF Score
<1>10. LegacyScore(c, NoAngler) = IF l < 0 THEN 0 ELSE IF l > 100 THEN 100 ELSE l
  BY <1>8 DEF LegacyScore
<1> HIDE DEF s, l
<1> QED
  BY <1>7, <1>9, <1>10 DEF Clamped

LEMMA LimitScoreFalls ==
  ASSUME NEW c, NEW d, NEW x, c.wind \in Int, d.wind \in Int, c.wave \in Int, d.wave \in Int,
         c.wind <= d.wind, c.wave <= d.wave, x.max_wind \in Maybe(Int), x.max_wave \in Maybe(Int)
  PROVE  /\ LimitScore(c, x) \in Int /\ LimitScore(d, x) \in Int
         /\ LimitScore(d, x) <= LimitScore(c, x)
<1>1. Over(c.wind, x.max_wind) => Over(d.wind, x.max_wind)
  BY DEF Over, Maybe
<1>2. Over(c.wave, x.max_wave) => Over(d.wave, x.max_wave)
  BY DEF Over, Maybe
<1> QED
  BY <1>1, <1>2 DEF LimitScore, If

LEMMA LegacyScoreFalls ==
  ASSUME NEW c, NEW d, NEW x, WellTyped(c), c.wind \in Int, d.wind \in Int, c.wave \in Int,
         d.wave \in Int, c.wind <= d.wind, c.wave <= d.wave,
         c.region = d.region, c.direction = d.direction, c.temperature = d.temperature,
         c.is_fallback = d.is_fallback, c.now = d.now, c.sun = d.sun, c.solunar = d.solunar,
         x.max_wind \in Maybe(Int), x.max_wave \in Maybe(Int)
  PROVE  LegacyScore(d, x) <= LegacyScore(c, x)
<1> DEFINE s(e) == 50 + WindScore(e.wind) + WaveScore(e.wave) + DirectionScore(e)
                   + TemperatureScore(e) + TideScore(e, x) + LightScore(e) + SolunarScore(e)
                   + TypeScore(e, x) + LimitScore(e, x) + QualityScore(x)
<1>1. /\ WindScore(c.wind) \in Int /\ WindScore(d.wind) \in Int
      /\ WindScore(d.wind) <= WindScore(c.wind)
  BY WindTables
<1>2. /\ WaveScore(c.wave) \in Int /\ WaveScore(d.wave) \in Int
      /\ WaveScore(d.wave) <= WaveScore(c.wave)
  BY WaveTables
<1>3. DirectionScore(c) \in Int /\ DirectionScore(d) = DirectionScore(c)
  BY RegionDirections DEF WellTyped, DirectionScore
<1>4. TemperatureScore(c) \in Int /\ TemperatureScore(d) = TemperatureScore(c)
  BY TemperatureParts DEF WellTyped, TemperatureScore
<1>5. TideScore(c, x) \in Int /\ TideScore(d, x) = TideScore(c, x)
  BY DEF TideScore, If
<1>6. LightScore(c) \in Int /\ LightScore(d) = LightScore(c)
  BY Lights DEF WellTyped, LightScore
<1>7. SolunarScore(c) \in Int /\ SolunarScore(d) = SolunarScore(c)
  BY Solunars DEF WellTyped, SolunarScore
<1>8. /\ TypeScore(c, x) \in Int /\ TypeScore(d, x) \in Int
      /\ TypeScore(d, x) <= TypeScore(c, x)
  BY TypeScoreFalls
<1>9. /\ LimitScore(c, x) \in Int /\ LimitScore(d, x) \in Int
      /\ LimitScore(d, x) <= LimitScore(c, x)
  BY LimitScoreFalls
<1>10. QualityScore(x) \in Int
  BY DEF QualityScore, If
<1>11. s(c) \in Int /\ s(d) \in Int /\ s(d) <= s(c)
  BY <1>1, <1>2, <1>3, <1>4, <1>5, <1>6, <1>7, <1>8, <1>9, <1>10
<1>12. Absent \notin {c.wind, c.wave} /\ Absent \notin {d.wind, d.wave}
  BY PortAssumption
<1>13. /\ LegacyScore(c, x) = IF s(c) < 0 THEN 0 ELSE IF s(c) > 100 THEN 100 ELSE s(c)
       /\ LegacyScore(d, x) = IF s(d) < 0 THEN 0 ELSE IF s(d) > 100 THEN 100 ELSE s(d)
  BY <1>12 DEF LegacyScore
<1> HIDE DEF s
<1> QED
  BY <1>11, <1>13

-----------------------------------------------------------------------------
(* The variables keep their types.                                          *)
PortTypeOK ==
  /\ wind \in Maybe(Winds) /\ wave \in Maybe(Waves)
  /\ signals \in Signals /\ angler \in Anglers \union {NoAngler}
  /\ day \in Days \union {NoDay}

LEMMA PortInvariance == PortSpec => []PortTypeOK
<1>1. PortInit => PortTypeOK
  BY DEF PortInit, PortTypeOK
<1>2. PortTypeOK /\ [PortNext]_portVars => PortTypeOK'
  BY DEF PortTypeOK, PortNext, FreshenWind, BuildSeas, Above, Maybe, portVars
<1> QED
  BY <1>1, <1>2, PTL DEF PortSpec

(* "All thresholds, point values, and verdict tiers are unchanged": for all *)
(* winds, waves and signals the score and verdict of the port are those of  *)
(* the legacy function without what the port leaves out.                    *)
THEOREM ScoreIsPorted == PortSpec => []PortedScoreAgrees
<1>1. PortTypeOK => PortedScoreAgrees
  <2> SUFFICES ASSUME PortTypeOK, angler = NoAngler
               PROVE  /\ Score(Conditions) = LegacyScore(Conditions, NoAngler)
                      /\ Verdict(Score(Conditions)) = LegacyVerdict(LegacyScore(Conditions, NoAngler))
    BY DEF PortedScoreAgrees
  <2>1. Conditions.wind = wind /\ Conditions.wave = wave /\ WellTyped(Conditions)
    <3>1. Conditions = With(signals, wind, wave) /\ signals \in Signals
      BY DEF PortTypeOK, Conditions
    <3> QED
      BY <3>1, GivenFields
  <2>2. CASE wind = Absent \/ wave = Absent
    BY <2>1, <2>2 DEF Score, LegacyScore, Verdict, LegacyVerdict
  <2>3. CASE ~(wind = Absent \/ wave = Absent)
    <3>1. Conditions.wind \in Int /\ Conditions.wave \in Int
      BY <2>1, <2>3, PortAssumption DEF PortTypeOK, Maybe
    <3>2. Score(Conditions) = LegacyScore(Conditions, NoAngler) /\ Score(Conditions) \in Int
      BY <2>1, <3>1, ScoresAgree
    <3> QED
      BY <3>2, VerdictTable, PortAssumption
  <2> QED
    BY <2>2, <2>3
<1> QED
  BY <1>1, PortInvariance, PTL

(* More wind or higher seas never score higher, for all tables of winds and *)
(* waves, signals, fishing types, limits, tides and water qualities.        *)
THEOREM WorseSeasScoreLower == PortSpec => WorseSeasNeverScoreHigher
<1> DEFINE c == Conditions
           d == With(signals, wind', wave')
<1>1. ASSUME PortTypeOK, PortNext, wind # Absent, wave # Absent
      PROVE  /\ Score(Conditions)' <= Score(Conditions)
             /\ LegacyScore(Conditions, angler)' <= LegacyScore(Conditions, angler)
  <2>1. signals' = signals /\ angler' = angler
    BY <1>1 DEF PortNext, FreshenWind, BuildSeas
  <2>2. /\ wind \in Int /\ wave \in Int /\ wind' \in Int /\ wave' \in Int
        /\ wind <= wind' /\ wave <= wave'
    <3>1. wind \in Int /\ wave \in Int
      BY <1>1, PortAssumption DEF PortTypeOK, Maybe
    <3>2. Winds \subseteq Int /\ Waves \subseteq Int
      BY PortAssumption
    <3>3. CASE FreshenWind
      <4>1. wind' \in Winds /\ wind' > wind /\ wave' = wave
        BY <3>3 DEF FreshenWind, Above
      <4> QED
        BY <3>1, <3>2, <4>1
    <3>4. CASE BuildSeas
      <4>1. wave' \in Waves /\ wave' > wave /\ wind' = wind
        BY <3>4 DEF BuildSeas, Above
      <4> QED
        BY <3>1, <3>2, <4>1
    <3> QED
      BY <1>1, <3>3, <3>4 DEF PortNext
  <2>3. /\ WellTyped(c) /\ WellTyped(d) /\ c.wind = wind /\ c.wave = wave /\ d.wind = wind' /\ d.wave = wave'
        /\ c.region = d.region /\ c.direction = d.direction /\ c.temperature = d.temperature
        /\ c.is_fallback = d.is_fallback /\ c.now = d.now /\ c.sun = d.sun /\ c.solunar = d.solunar
    <3>1. /\ c = With(signals, wind, wave)
          /\ d = With(signals, wind', wave') /\ signals \in Signals
      BY <1>1 DEF PortTypeOK, Conditions
    <3> HIDE DEF c, d
    <3>2. /\ WellTyped(c) /\ c.wind = wind /\ c.wave = wave
          /\ c.region = signals.region /\ c.direction = signals.direction
          /\ c.temperature = signals.temperature /\ c.is_fallback = signals.is_fallback
          /\ c.now = signals.now /\ c.sun = signals.sun /\ c.solunar = signals.solunar
      BY <3>1, GivenFields
    <3>3. /\ WellTyped(d) /\ d.wind = wind' /\ d.wave = wave'
          /\ d.region = signals.region /\ d.direction = signals.direction
          /\ d.temperature = signals.temperature /\ d.is_fallback = signals.is_fallback
          /\ d.now = signals.now /\ d.sun = signals.sun /\ d.solunar = signals.solunar
      BY <3>1, GivenFields
    <3> QED
      BY <3>2, <3>3
  <2>4. /\ angler.max_wind \in Maybe(Int) /\ angler.max_wave \in Maybe(Int)
        /\ NoAngler.max_wind \in Maybe(Int) /\ NoAngler.max_wave \in Maybe(Int)
    <3>1. NoAngler.max_wind = Absent /\ NoAngler.max_wave = Absent
      BY DEF NoAngler
    <3>2. Absent \in Maybe(Int)
      BY DEF Maybe
    <3> QED
      BY <1>1, <3>1, <3>2, PortAssumption DEF PortTypeOK
  <2>5. Conditions' = d
    BY <2>1 DEF Conditions, With
  <2> HIDE DEF c, d
  <2>6. LegacyScore(d, angler) <= LegacyScore(c, angler)
    BY <2>2, <2>3, <2>4, LegacyScoreFalls
  <2>7. LegacyScore(d, NoAngler) <= LegacyScore(c, NoAngler)
    BY <2>2, <2>3, <2>4, LegacyScoreFalls
  <2>8. Score(d) <= Score(c)
    BY <2>2, <2>3, <2>7, ScoresAgree
  <2>9. /\ Score(Conditions)' = Score(d)
        /\ LegacyScore(Conditions, angler)' = LegacyScore(d, angler)
    BY <2>1, <2>5
  <2> QED
    BY <2>6, <2>8, <2>9 DEF c
<1>2. PortTypeOK /\ [PortNext]_portVars =>
        [wind # Absent /\ wave # Absent =>
           /\ Score(Conditions)' <= Score(Conditions)
           /\ LegacyScore(Conditions, angler)' <= LegacyScore(Conditions, angler)]_portVars
  BY <1>1
<1> QED
  BY <1>2, PortInvariance, PTL DEF PortSpec, WorseSeasNeverScoreHigher
-----------------------------------------------------------------------------
(* Sums over finite sets.  The library's induction takes a predicate as its *)
(* parameter, which no prover here can instantiate; a set takes its place.  *)
LEMMA NatsByInduction ==
  ASSUME NEW T \in SUBSET Nat, 0 \in T, \A n \in T : n + 1 \in T
  PROVE  T = Nat
<1> SUFFICES ASSUME Nat \ T # {} PROVE FALSE
  OBVIOUS
<1>1. PICK x \in Nat \ T : \A y \in Nat \ T : ~ (<<y, x>> \in OpToRel(<, Nat))
  BY NatLessThanWellFounded, WFMin, Zenon
<1>2. \A y \in Nat \ T : ~ (y < x)
  BY <1>1, Zenon DEF OpToRel
<1> QED
  BY <1>2

One(s) == CHOOSE x \in s : TRUE

(* What the sum over s of the function F is, if rest is that over its parts. *)
Plus(F, rest, s) == IF s = {} THEN 0 ELSE F[One(s)] + rest[s \ {One(s)}]

(* SumFunction of the community modules picks one such function.            *)
IsSum(g, S, F) == g = [s \in SUBSET S |-> Plus(F, g, s)]

LEMMA OneIsLeftOut ==
  ASSUME NEW S, IsFiniteSet(S), NEW s \in SUBSET S, s # {}
  PROVE  /\ One(s) \in S
         /\ s \ {One(s)} \in SUBSET S
         /\ Cardinality(s) \in Nat
         /\ Cardinality(s \ {One(s)}) = Cardinality(s) - 1
<1>1. One(s) \in s
  BY Zenon DEF One
<1>2. IsFiniteSet(s)
  BY FS_Subset
<1>3. Cardinality(s) \in Nat /\ Cardinality(s \ {One(s)}) = Cardinality(s) - 1
  BY <1>1, <1>2, FS_CardinalityType, FS_RemoveElement
<1> QED
  BY <1>1, <1>3

LEMMA SumsExist ==
  ASSUME NEW S, IsFiniteSet(S), NEW F \in [S -> Nat]
  PROVE  \E g : IsSum(g, S, F)
<1> DEFINE Small(k) == {s \in SUBSET S : Cardinality(s) <= k}
           T == {k \in Nat : \E g \in [Small(k) -> Nat] : \A s \in Small(k) : g[s] = Plus(F, g, s)}
<1>1. 0 \in T
  <2> DEFINE zero == [s \in Small(0) |-> 0]
  <2>1. \A s \in Small(0) : s = {}
    <3> SUFFICES ASSUME NEW s \in Small(0), s # {} PROVE FALSE
      OBVIOUS
    <3>1. Cardinality(s) \in Nat /\ Cardinality(s) <= 0 /\ IsFiniteSet(s)
      BY FS_Subset, FS_CardinalityType
    <3> QED
      BY <3>1, FS_EmptySet
  <2>2. \A s \in Small(0) : zero[s] = Plus(F, zero, s)
    BY <2>1 DEF Plus
  <2>3. zero \in [Small(0) -> Nat]
    OBVIOUS
  <2> HIDE DEF zero, Small
  <2> QED
    BY <2>2, <2>3
<1>2. ASSUME NEW k \in T PROVE k + 1 \in T
  <2>1. PICK g \in [Small(k) -> Nat] : \A s \in Small(k) : g[s] = Plus(F, g, s)
    OBVIOUS
  <2> DEFINE next == [s \in Small(k + 1) |-> Plus(F, g, s)]
  <2>2. ASSUME NEW s \in Small(k + 1), s # {}
        PROVE  /\ s \ {One(s)} \in Small(k)
               /\ s \ {One(s)} \in Small(k + 1)
               /\ F[One(s)] \in Nat
    <3>1. s \in SUBSET S /\ Cardinality(s) <= k + 1
      OBVIOUS
    <3>2. /\ One(s) \in S
          /\ s \ {One(s)} \in SUBSET S
          /\ Cardinality(s) \in Nat
          /\ Cardinality(s \ {One(s)}) = Cardinality(s) - 1
      BY <2>2, <3>1, OneIsLeftOut
    <3>3. Cardinality(s \ {One(s)}) <= k /\ Cardinality(s \ {One(s)}) <= k + 1
      BY <3>1, <3>2
    <3> QED
      BY <3>2, <3>3
  <2>3. \A s \in Small(k) : s \in Small(k + 1)
    <3> SUFFICES ASSUME NEW s \in Small(k) PROVE s \in Small(k + 1)
      OBVIOUS
    <3>1. Cardinality(s) \in Nat
      BY FS_Subset, FS_CardinalityType
    <3> QED
      BY <3>1
  <2> HIDE DEF Small
  <2>4. \A s \in Small(k) : next[s] = g[s]
    BY <2>1, <2>3
  <2>5. next \in [Small(k + 1) -> Nat]
    <3> SUFFICES ASSUME NEW s \in Small(k + 1) PROVE Plus(F, g, s) \in Nat
      OBVIOUS
    <3>1. CASE s = {}
      BY <3>1 DEF Plus
    <3>2. CASE s # {}
      <4>1. g[s \ {One(s)}] \in Nat /\ F[One(s)] \in Nat
        BY <2>1, <2>2, <3>2
      <4> QED
        BY <3>2, <4>1 DEF Plus
    <3> QED
      BY <3>1, <3>2
  <2>6. ASSUME NEW s \in Small(k + 1) PROVE next[s] = Plus(F, next, s)
    <3>0. next[s] = Plus(F, g, s)
      OBVIOUS
    <3> HIDE DEF next
    <3>1. CASE s = {}
      BY <3>0, <3>1 DEF Plus
    <3>2. CASE s # {}
      <4>1. next[s \ {One(s)}] = g[s \ {One(s)}]
        BY <2>2, <2>4, <3>2
      <4> QED
        BY <3>0, <3>2, <4>1 DEF Plus
    <3> QED
      BY <3>1, <3>2
  <2> HIDE DEF next
  <2>7. k + 1 \in Nat
    OBVIOUS
  <2> QED
    BY <2>5, <2>6, <2>7
<1>3. T = Nat
  <2> HIDE DEF T
  <2>1. T \in SUBSET Nat
    BY DEF T
  <2> QED
    BY <1>1, <1>2, <2>1, NatsByInduction
<1>4. Cardinality(S) \in Nat
  BY FS_CardinalityType
<1>5. PICK g \in [Small(Cardinality(S)) -> Nat] :
        \A s \in Small(Cardinality(S)) : g[s] = Plus(F, g, s)
  BY <1>3, <1>4
<1>6. Small(Cardinality(S)) = SUBSET S
  BY FS_Subset
<1> HIDE DEF Small
<1>7. g \in [SUBSET S -> Nat] /\ \A s \in SUBSET S : g[s] = Plus(F, g, s)
  BY <1>5, <1>6
<1>8. g = [s \in SUBSET S |-> Plus(F, g, s)]
  BY <1>7
<1> QED
  BY <1>8 DEF IsSum

LEMMA SumsAreNat ==
  ASSUME NEW S, IsFiniteSet(S), NEW F \in [S -> Nat], NEW g, IsSum(g, S, F)
  PROVE  g[S] \in Nat
<1> DEFINE T == {k \in Nat : \A s \in SUBSET S : Cardinality(s) = k => g[s] \in Nat}
<1>0. \A s \in SUBSET S : g[s] = Plus(F, g, s)
  BY DEF IsSum
<1>1. 0 \in T
  <2> SUFFICES ASSUME NEW s \in SUBSET S, Cardinality(s) = 0 PROVE g[s] \in Nat
    OBVIOUS
  <2>1. s = {}
    BY FS_Subset, FS_EmptySet
  <2>2. Plus(F, g, s) = 0
    BY <2>1, Zenon DEF Plus
  <2>3. g[s] = Plus(F, g, s)
    BY <1>0, Zenon
  <2> QED
    BY <2>2, <2>3
<1>2. ASSUME NEW k \in T PROVE k + 1 \in T
  <2> SUFFICES ASSUME NEW s \in SUBSET S, Cardinality(s) = k + 1 PROVE g[s] \in Nat
    OBVIOUS
  <2>1. s # {}
    <3>1. k \in Nat /\ Cardinality({}) = 0
      BY FS_EmptySet
    <3> QED
      BY <3>1
  <2>2. /\ One(s) \in S
        /\ s \ {One(s)} \in SUBSET S
        /\ Cardinality(s \ {One(s)}) = k
    BY <2>1, OneIsLeftOut
  <2>3. F[One(s)] \in Nat /\ g[s \ {One(s)}] \in Nat
    BY <2>2
  <2>4. Plus(F, g, s) = F[One(s)] + g[s \ {One(s)}]
    BY <2>1, Zenon DEF Plus
  <2>5. g[s] = Plus(F, g, s)
    BY <1>0, Zenon
  <2> QED
    BY <2>3, <2>4, <2>5
<1>3. T = Nat
  <2> HIDE DEF T
  <2>1. T \in SUBSET Nat
    BY DEF T
  <2> QED
    BY <1>1, <1>2, <2>1, NatsByInduction
<1> QED
  BY <1>3, FS_CardinalityType

(* What SumFunction adds up of natural numbers is one.                      *)
LEMMA SumIsNat ==
  ASSUME NEW S, IsFiniteSet(S), NEW F \in [S -> Nat]
  PROVE  SumFunction(F) \in Nat
<1> DEFINE Rest(k, s) == IF s = {} THEN 0
                         ELSE F[CHOOSE x \in s : TRUE] + k[s \ {CHOOSE x \in s : TRUE}]
           it == CHOOSE k : k = [s \in SUBSET S |-> Rest(k, s)]
<1>1. PICK f : IsSum(f, S, F)
  BY SumsExist
<1>2. \A k, s : Plus(F, k, s) = Rest(k, s)
  BY Zenon DEF Plus, One
<1>3. f = [s \in SUBSET S |-> Rest(f, s)]
  BY <1>1, <1>2, Zenon DEF IsSum
<1>4. it = [s \in SUBSET S |-> Rest(it, s)]
  BY <1>3, Zenon
<1>5. DOMAIN F = S
  OBVIOUS
<1>6. SumFunction(F) = it[S]
  BY <1>5, Zenon DEF SumFunction, SumFunctionOnSet, FoldFunctionOnSet, MapThenFoldSet
<1> HIDE DEF it, Rest
<1>7. IsSum(it, S, F)
  BY <1>2, <1>4, Zenon DEF IsSum
<1> QED
  BY <1>6, <1>7, SumsAreNat

-----------------------------------------------------------------------------
(* The hours of a day: what is not summed over the periods and tides.       *)

LEMMA ColumnsAgree ==
  ASSUME NEW q \in Int
  PROVE  NearestHour(q) = Column(q)
<1>1. q % 4 \in 0..3 /\ q \div 4 \in Int
  OBVIOUS
<1> QED
  BY <1>1 DEF NearestHour, Column, RoundHalfEven

LEMMA NearAgree ==
  ASSUME NEW q \in Int, NEW h \in Hours
  PROVE  Distance(q, h) \in Nat /\ Distance(q, h) = Magnitude(4 * h - q)
BY DEF Distance, Magnitude, Hours

LEMMA SunsAgree ==
  ASSUME NEW q \in Int, NEW h \in Hours
  PROVE  SunBoost(q, h) = Slope(q, h, 30, 6)
<1>1. PICK n \in Nat : n = Distance(q, h) /\ n = Magnitude(4 * h - q)
  BY NearAgree
<1>2. CASE n >= 6
  BY <1>1, <1>2 DEF SunBoost, Slope
<1>3. CASE n < 6
  <2>1. SunBoost(q, h) = 400 * (6 - n)
    BY <1>1, <1>3 DEF SunBoost
  <2>2. Slope(q, h, 30, 6) = (80 * 30 * (6 - n)) \div 6
    BY <1>1, <1>3 DEF Slope
  <2> QED
    BY <1>3, <2>1, <2>2
<1> QED
  BY <1>2, <1>3

LEMMA PeriodsAgree ==
  ASSUME NEW p \in Int \X Int, NEW h \in Hours
  PROVE  InPeriod(p, h) <=> 4 * h \in p[1]..p[2]
BY DEF InPeriod, Hours

LEMMA ReasonsAgree ==
  ASSUME NEW d, d.rise \in Int, d.set \in Int, d.majors \subseteq Int \X Int,
         d.minors \subseteq Int \X Int, d.tides \in Seq(Int \X {"high", "low"}), NEW h \in Hours
  PROVE  Reasons(d, h) = TimelineReasons(d, h)
<1>1. SunBoost(d.rise, h) = Slope(d.rise, h, 30, 6) /\ SunBoost(d.set, h) = Slope(d.set, h, 30, 6)
  BY SunsAgree
<1>2. /\ \A p \in d.majors : InPeriod(p, h) <=> 4 * h \in p[1]..p[2]
      /\ \A p \in d.minors : InPeriod(p, h) <=> 4 * h \in p[1]..p[2]
  BY PeriodsAgree
<1>3. ASSUME NEW i \in DOMAIN d.tides
      PROVE  Distance(d.tides[i][1], h) = Magnitude(4 * h - d.tides[i][1])
  <2>1. d.tides[i] \in Int \X {"high", "low"}
    OBVIOUS
  <2>2. d.tides[i][1] \in Int
    BY <2>1
  <2> QED
    BY <2>2, NearAgree
<1> DEFINE Names == {"Dawn", "Dusk", "Major solunar", "Minor solunar", "High tide", "Low tide"}
           Nigh(kind) == \E i \in DOMAIN d.tides : Distance(d.tides[i][1], h) < 4 /\ d.tides[i][2] = kind
           Inside(periods) == \E p \in periods : InPeriod(p, h)
           In(periods) == \E p \in periods : 4 * h \in p[1]..p[2]
           Tide(kind) == \E i \in DOMAIN d.tides : d.tides[i][2] = kind /\ Magnitude(4 * h - d.tides[i][1]) < 4
<1>4. /\ Reasons(d, h) \subseteq Names
      /\ ("Dawn" \in Reasons(d, h)) <=> (SunBoost(d.rise, h) > 640)
      /\ ("Dusk" \in Reasons(d, h)) <=> (SunBoost(d.set, h) > 640)
      /\ ("Major solunar" \in Reasons(d, h)) <=> Inside(d.majors)
      /\ ("Minor solunar" \in Reasons(d, h)) <=> Inside(d.minors)
      /\ ("High tide" \in Reasons(d, h)) <=> Nigh("high")
      /\ ("Low tide" \in Reasons(d, h)) <=> Nigh("low")
  <2> DEFINE Holds(r) ==
        CASE r = "Dawn" -> SunBoost(d.rise, h) > 640
          [] r = "Dusk" -> SunBoost(d.set, h) > 640
          [] r = "Major solunar" -> \E p \in d.majors : InPeriod(p, h)
          [] r = "Minor solunar" -> \E p \in d.minors : InPeriod(p, h)
          [] OTHER -> \E i \in DOMAIN d.tides :
               /\ Distance(d.tides[i][1], h) < 4
               /\ d.tides[i][2] = IF r = "High tide" THEN "high" ELSE "low"
  <2>1. Reasons(d, h) = {r \in Names : Holds(r)}
    BY DEF Reasons
  <2>2. Holds("Dawn") <=> (SunBoost(d.rise, h) > 640)
    OBVIOUS
  <2>3. Holds("Dusk") <=> (SunBoost(d.set, h) > 640)
    OBVIOUS
  <2>4. Holds("Major solunar") <=> Inside(d.majors)
    OBVIOUS
  <2>5. Holds("Minor solunar") <=> Inside(d.minors)
    OBVIOUS
  <2>6. Holds("High tide") <=> Nigh("high")
    OBVIOUS
  <2>7. Holds("Low tide") <=> Nigh("low")
    OBVIOUS
  <2> HIDE DEF Holds, Near
  <2> QED
    BY ZenonT(30), <2>1, <2>2, <2>3, <2>4, <2>5, <2>6, <2>7
<1>5. /\ TimelineReasons(d, h) \subseteq Names
      /\ ("Dawn" \in TimelineReasons(d, h)) <=> (Slope(d.rise, h, 30, 6) > 640)
      /\ ("Dusk" \in TimelineReasons(d, h)) <=> (Slope(d.set, h, 30, 6) > 640)
      /\ ("Major solunar" \in TimelineReasons(d, h)) <=> In(d.majors)
      /\ ("Minor solunar" \in TimelineReasons(d, h)) <=> In(d.minors)
      /\ ("High tide" \in TimelineReasons(d, h)) <=> Tide("high")
      /\ ("Low tide" \in TimelineReasons(d, h)) <=> Tide("low")
  <2> DEFINE dawn == Slope(d.rise, h, 30, 6) > 640
             dusk == Slope(d.set, h, 30, 6) > 640
  <2>1. 8 * 80 = 640
    OBVIOUS
  <2>2. TimelineReasons(d, h) =
          {r \in {"Dawn"} : dawn} \union {r \in {"Dusk"} : dusk}
          \union {r \in {"Major solunar"} : In(d.majors)}
          \union {r \in {"Minor solunar"} : In(d.minors)}
          \union {r \in {"High tide"} : Tide("high")}
          \union {r \in {"Low tide"} : Tide("low")}
    BY <2>1 DEF TimelineReasons
  <2> HIDE DEF dawn, dusk, In, Tide
  <2>3. /\ TimelineReasons(d, h) \subseteq Names
        /\ ("Dawn" \in TimelineReasons(d, h)) <=> dawn
        /\ ("Dusk" \in TimelineReasons(d, h)) <=> dusk
        /\ ("Major solunar" \in TimelineReasons(d, h)) <=> In(d.majors)
        /\ ("Minor solunar" \in TimelineReasons(d, h)) <=> In(d.minors)
        /\ ("High tide" \in TimelineReasons(d, h)) <=> Tide("high")
        /\ ("Low tide" \in TimelineReasons(d, h)) <=> Tide("low")
    BY <2>2
  <2> QED
    BY <2>3 DEF dawn, dusk
<1>6. /\ Nigh("high") <=> Tide("high")
      /\ Nigh("low") <=> Tide("low")
  BY <1>3, Zenon
<1>7. /\ Inside(d.majors) <=> In(d.majors)
      /\ Inside(d.minors) <=> In(d.minors)
  BY <1>2, Zenon
<1> HIDE DEF Names, Nigh, Tide, Inside, In
<1>8. \A r \in Names : (r \in Reasons(d, h)) <=> (r \in TimelineReasons(d, h))
  <2>1. ("Dawn" \in Reasons(d, h)) <=> ("Dawn" \in TimelineReasons(d, h))
    <3>1. ("Dawn" \in Reasons(d, h)) <=> (SunBoost(d.rise, h) > 640)
      BY <1>4, Zenon
    <3>2. ("Dawn" \in TimelineReasons(d, h)) <=> (Slope(d.rise, h, 30, 6) > 640)
      BY <1>5, Zenon
    <3>3. (SunBoost(d.rise, h) > 640) <=> (Slope(d.rise, h, 30, 6) > 640)
      BY <1>1, Zenon
    <3> QED
      BY ZenonT(30), <3>1, <3>2, <3>3
  <2>2. ("Dusk" \in Reasons(d, h)) <=> ("Dusk" \in TimelineReasons(d, h))
    <3>1. ("Dusk" \in Reasons(d, h)) <=> (SunBoost(d.set, h) > 640)
      BY <1>4, Zenon
    <3>2. ("Dusk" \in TimelineReasons(d, h)) <=> (Slope(d.set, h, 30, 6) > 640)
      BY <1>5, Zenon
    <3>3. (SunBoost(d.set, h) > 640) <=> (Slope(d.set, h, 30, 6) > 640)
      BY <1>1, Zenon
    <3> QED
      BY ZenonT(30), <3>1, <3>2, <3>3
  <2>3. ("Major solunar" \in Reasons(d, h)) <=> ("Major solunar" \in TimelineReasons(d, h))
    <3>1. ("Major solunar" \in Reasons(d, h)) <=> (Inside(d.majors))
      BY <1>4, Zenon
    <3>2. ("Major solunar" \in TimelineReasons(d, h)) <=> (In(d.majors))
      BY <1>5, Zenon
    <3>3. (Inside(d.majors)) <=> (In(d.majors))
      BY <1>7, Zenon
    <3> QED
      BY <3>1, <3>2, <3>3, Zenon
  <2>4. ("Minor solunar" \in Reasons(d, h)) <=> ("Minor solunar" \in TimelineReasons(d, h))
    <3>1. ("Minor solunar" \in Reasons(d, h)) <=> (Inside(d.minors))
      BY <1>4, Zenon
    <3>2. ("Minor solunar" \in TimelineReasons(d, h)) <=> (In(d.minors))
      BY <1>5, Zenon
    <3>3. (Inside(d.minors)) <=> (In(d.minors))
      BY <1>7, Zenon
    <3> QED
      BY <3>1, <3>2, <3>3, Zenon
  <2>5. ("High tide" \in Reasons(d, h)) <=> ("High tide" \in TimelineReasons(d, h))
    <3>1. ("High tide" \in Reasons(d, h)) <=> (Nigh("high"))
      BY <1>4, Zenon
    <3>2. ("High tide" \in TimelineReasons(d, h)) <=> (Tide("high"))
      BY <1>5, Zenon
    <3>3. (Nigh("high")) <=> (Tide("high"))
      BY <1>6, Zenon
    <3> QED
      BY <3>1, <3>2, <3>3, Zenon
  <2>6. ("Low tide" \in Reasons(d, h)) <=> ("Low tide" \in TimelineReasons(d, h))
    <3>1. ("Low tide" \in Reasons(d, h)) <=> (Nigh("low"))
      BY <1>4, Zenon
    <3>2. ("Low tide" \in TimelineReasons(d, h)) <=> (Tide("low"))
      BY <1>5, Zenon
    <3>3. (Nigh("low")) <=> (Tide("low"))
      BY <1>6, Zenon
    <3> QED
      BY <3>1, <3>2, <3>3, Zenon
  <2> QED
    BY <2>1, <2>2, <2>3, <2>4, <2>5, <2>6 DEF Names
<1> QED
  BY <1>4, <1>5, <1>8, Zenon

Rounded(a, m, k) == RoundHalfEven(a * k, m)

Truncated(a, m, k) == (((a * 100) \div m) * k) \div 100

(* int() twice on the one side, round() on the other: for every activity    *)
(* and every peak, the port's level is at most two higher.                  *)
LEMMA RoundingRaisesByTwo ==
  ASSUME NEW m \in Nat \ {0}, NEW a \in Nat, NEW k \in {65, 82, 100}
  PROVE  Rounded(a, m, k) - Truncated(a, m, k) \in 0..2
<1>1. PICK p \in Int, x \in Int : p = (a * 100) \div m /\ x = m * p /\ x <= 100 * a /\ 100 * a < x + m
  OBVIOUS
<1>2. PICK q \in Int, y \in Int : q = (a * k) \div m /\ y = m * q /\ y <= a * k /\ a * k < y + m
  OBVIOUS
<1>3. PICK l \in Int : l = (p * k) \div 100 /\ 100 * l <= p * k /\ p * k < 100 * l + 100
  OBVIOUS
<1>4. PICK z \in Int : z = m * l
  OBVIOUS
<1>5. m * (p * k) = x * k
  BY <1>1
<1>6. 100 * z <= x * k /\ x * k <= 100 * z + 100 * m
  <2>1. m * (100 * l) <= m * (p * k) /\ m * (p * k) <= m * (100 * l + 100)
    BY <1>3
  <2>2. m * (100 * l) = 100 * z /\ m * (100 * l + 100) = 100 * z + 100 * m
    BY <1>4
  <2> QED
    BY <1>5, <2>1, <2>2
<1>7. z <= a * k /\ a * k < z + 2 * m
  BY <1>1, <1>6
<1>8. l <= q
  <2> SUFFICES ASSUME q + 1 <= l PROVE FALSE
    OBVIOUS
  <2>1. m * (q + 1) <= m * l
    OBVIOUS
  <2> QED
    BY <1>2, <1>4, <1>7, <2>1
<1>9. q <= l + 1
  <2> SUFFICES ASSUME l + 2 <= q PROVE FALSE
    OBVIOUS
  <2>1. m * (l + 2) <= m * q
    OBVIOUS
  <2> QED
    BY <1>2, <1>4, <1>7, <2>1
<1>10. RoundHalfEven(a * k, m) \in {q, q + 1}
  BY <1>2 DEF RoundHalfEven
<1>11. l = Truncated(a, m, k)
  BY <1>1, <1>3 DEF Truncated
<1>12. PICK n \in Int : n = Rounded(a, m, k) /\ n \in {q, q + 1}
  BY <1>2, <1>10 DEF Rounded
<1>13. n - l \in 0..2
  BY <1>8, <1>9, <1>12
<1> QED
  BY <1>11, <1>12, <1>13

-----------------------------------------------------------------------------
LEMMA TidesTyped ==
  ASSUME NEW tides \in Seq(Int \X {"high", "low"}), NEW i \in DOMAIN tides
  PROVE  tides[i][1] \in Int
<1>1. tides[i] \in Int \X {"high", "low"}
  OBVIOUS
<1> QED
  BY <1>1

LEMMA TideEventsAgree ==
  ASSUME NEW d, d.tides \in Seq(Int \X {"high", "low"}), NEW h
  PROVE  TideEvent(d, h) = TimelineTide(d, h)
<1>1. \A i \in DOMAIN d.tides : NearestHour(d.tides[i][1]) = Column(d.tides[i][1])
  BY TidesTyped, ColumnsAgree
<1>2. {i \in DOMAIN d.tides : NearestHour(d.tides[i][1]) = h}
        = {i \in DOMAIN d.tides : Column(d.tides[i][1]) = h}
  BY <1>1
<1> QED
  BY <1>2, Zenon DEF TideEvent, TimelineTide

LEMMA PeriodSumsAgree ==
  ASSUME NEW periods \in SUBSET (Int \X Int), IsFiniteSet(periods), NEW h \in Hours,
         NEW points \in Nat, NEW edge \in Nat,
         NEW boost \in Nat, boost = 80 * points, NEW less \in Nat, less = 80 * edge
  PROVE  /\ Solunar(periods, h, points, edge) \in Nat
         /\ PeriodBoost(periods, h, boost, less) = Solunar(periods, h, points, edge)
<1> DEFINE ported == [p \in periods |-> IF InPeriod(p, h) THEN boost
                                        ELSE IF AtEdge(p, h) THEN less ELSE 0]
           legacy == [p \in periods |->
                        IF 4 * h \in p[1]..p[2] THEN 80 * points
                        ELSE IF {Magnitude(4 * h - p[1]), Magnitude(4 * h - p[2])} \intersect 0..3 # {}
                        THEN 80 * edge ELSE 0]
<1>1. ASSUME NEW p \in periods PROVE ported[p] = legacy[p]
  <2>1. p[1] \in Int /\ p[2] \in Int
    OBVIOUS
  <2>2. PICK m \in Nat, n \in Nat :
          /\ m = Distance(p[1], h) /\ m = Magnitude(4 * h - p[1])
          /\ n = Distance(p[2], h) /\ n = Magnitude(4 * h - p[2])
    BY <2>1, NearAgree
  <2>3. AtEdge(p, h) <=> (m < 4 \/ n < 4)
    BY <2>2 DEF AtEdge
  <2>4. ({m, n} \intersect 0..3 # {}) <=> (m < 4 \/ n < 4)
    <3>1. ({m, n} \intersect 0..3 # {}) <=> (m \in 0..3 \/ n \in 0..3)
      BY Zenon
    <3> QED
      BY <3>1
  <2>5. InPeriod(p, h) <=> 4 * h \in p[1]..p[2]
    BY PeriodsAgree
  <2> QED
    BY <2>2, <2>3, <2>4, <2>5
<1>2. ported = legacy
  BY <1>1
<1>3. legacy \in [periods -> Nat]
  OBVIOUS
<1>4. /\ PeriodBoost(periods, h, boost, less) = SumFunction(ported)
      /\ Solunar(periods, h, points, edge) = SumFunction(legacy)
  BY Zenon DEF PeriodBoost, Solunar
<1> HIDE DEF ported, legacy
<1> QED
  BY <1>2, <1>3, <1>4, SumIsNat

LEMMA TideSumsAgree ==
  ASSUME NEW d, d.tides \in Seq(Int \X {"high", "low"}), NEW h \in Hours
  PROVE  /\ Tides(d, h) \in Nat
         /\ SumFunction([i \in DOMAIN d.tides |-> TideBoost(d.tides[i], h)]) = Tides(d, h)
<1> DEFINE ported == [i \in DOMAIN d.tides |-> TideBoost(d.tides[i], h)]
           legacy == [i \in DOMAIN d.tides |->
                        Slope(d.tides[i][1], h, IF d.tides[i][2] = "high" THEN 20 ELSE 12, 8)]
<1>1. ASSUME NEW i \in DOMAIN d.tides
      PROVE  legacy[i] \in Nat /\ ported[i] = legacy[i]
  <2>1. PICK q \in Int : q = d.tides[i][1]
    BY TidesTyped
  <2>2. PICK n \in Nat : n = Distance(q, h) /\ n = Magnitude(4 * h - q)
    BY NearAgree
  <2>3. ported[i] = IF n < 8 THEN (IF d.tides[i][2] = "high" THEN 200 ELSE 120) * (8 - n) ELSE 0
    BY <2>1, <2>2 DEF TideBoost
  <2>4. legacy[i] = IF n >= 8 THEN 0
                    ELSE (80 * (IF d.tides[i][2] = "high" THEN 20 ELSE 12) * (8 - n)) \div 8
    BY <2>1, <2>2 DEF Slope
  <2> HIDE DEF ported, legacy
  <2>5. CASE n >= 8
    BY <2>3, <2>4, <2>5
  <2>6. CASE n < 8 /\ d.tides[i][2] = "high"
    BY <2>3, <2>4, <2>6
  <2>7. CASE n < 8 /\ d.tides[i][2] # "high"
    BY <2>3, <2>4, <2>7
  <2> QED
    BY <2>5, <2>6, <2>7
<1>2. ported = legacy
  BY <1>1
<1>3. legacy \in [DOMAIN d.tides -> Nat]
  BY <1>1
<1>4. IsFiniteSet(DOMAIN d.tides)
  <2>1. DOMAIN d.tides = 1..Len(d.tides) /\ Len(d.tides) \in Nat
    OBVIOUS
  <2> QED
    BY <2>1, FS_Interval
<1>5. Tides(d, h) = SumFunction(legacy)
  BY Zenon DEF Tides
<1> HIDE DEF legacy
<1> QED
  BY <1>2, <1>3, <1>4, <1>5, SumIsNat

-----------------------------------------------------------------------------
(* What the outlooks are given is of these types.                           *)
IsDay(d) ==
  /\ d.rise \in Int /\ d.set \in Int /\ d.illumination \in Int
  /\ d.majors \in SUBSET (Int \X Int) /\ IsFiniteSet(d.majors)
  /\ d.minors \in SUBSET (Int \X Int) /\ IsFiniteSet(d.minors)
  /\ d.tides \in Seq(Int \X {"high", "low"})

(* 160ths of a point on the one side, fortieths on the other.               *)
LEMMA ActivitiesAgree ==
  ASSUME NEW d, IsDay(d), NEW h \in Hours
  PROVE  /\ TimelineActivity(d, h) \in Nat \ {0}
         /\ Activity(d, h) = 4 * TimelineActivity(d, h)
<1>1. PICK s \in Nat, t \in Nat :
        /\ s = SunBoost(d.rise, h) /\ s = Slope(d.rise, h, 30, 6)
        /\ t = SunBoost(d.set, h) /\ t = Slope(d.set, h, 30, 6)
  <2>1. SunBoost(d.rise, h) \in Nat /\ SunBoost(d.set, h) \in Nat
    BY NearAgree DEF SunBoost, IsDay
  <2> QED
    BY <2>1, SunsAgree DEF IsDay
<1>2. PICK a \in Nat : a = Solunar(d.majors, h, 35, 15) /\ a = PeriodBoost(d.majors, h, 2800, 1200)
  <2>1. d.majors \in SUBSET (Int \X Int) /\ IsFiniteSet(d.majors)
    BY DEF IsDay
  <2>2. 35 \in Nat /\ 15 \in Nat /\ 2800 \in Nat /\ 1200 \in Nat /\ 2800 = 80 * 35 /\ 1200 = 80 * 15
    OBVIOUS
  <2>3. /\ Solunar(d.majors, h, 35, 15) \in Nat
        /\ PeriodBoost(d.majors, h, 2800, 1200) = Solunar(d.majors, h, 35, 15)
    BY <2>1, <2>2, PeriodSumsAgree
  <2> QED
    BY <2>3
<1>3. PICK b \in Nat : b = Solunar(d.minors, h, 20, 8) /\ b = PeriodBoost(d.minors, h, 1600, 640)
  <2>1. d.minors \in SUBSET (Int \X Int) /\ IsFiniteSet(d.minors)
    BY DEF IsDay
  <2>2. 20 \in Nat /\ 8 \in Nat /\ 1600 \in Nat /\ 640 \in Nat /\ 1600 = 80 * 20 /\ 640 = 80 * 8
    OBVIOUS
  <2>3. /\ Solunar(d.minors, h, 20, 8) \in Nat
        /\ PeriodBoost(d.minors, h, 1600, 640) = Solunar(d.minors, h, 20, 8)
    BY <2>1, <2>2, PeriodSumsAgree
  <2> QED
    BY <2>3
<1>4. PICK c \in Nat : c = Tides(d, h) /\ c = SumFunction([i \in DOMAIN d.tides |-> TideBoost(d.tides[i], h)])
  BY TideSumsAgree DEF IsDay
<1>5. PICK n \in Nat : n = 1200 + s + t + a + b + c
  OBVIOUS
<1>6. Activity(d, h) = Weight(d, h) * n
  BY <1>1, <1>2, <1>3, <1>4, <1>5 DEF Activity
<1> DEFINE night == h >= 23 \/ h <= 4
           moon  == d.illumination >= 70 /\ (h >= 21 \/ h <= 3)
<1>7. TimelineActivity(d, h) =
        (IF moon THEN 5 ELSE 4) * (IF night THEN 7 * n ELSE 10 * n)
  <2>1. 15 * 80 + Sun(d, h) + Solunar(d.majors, h, 35, 15) + Solunar(d.minors, h, 20, 8) + Tides(d, h) = n
    BY <1>1, <1>2, <1>3, <1>4, <1>5 DEF Sun
  <2> QED
    BY <2>1 DEF TimelineActivity
<1>8. Weight(d, h) = (IF night THEN 28 ELSE 40) * (IF moon THEN 5 ELSE 4)
  <2>1. night <=> h \in {23, 0, 1, 2, 3, 4}
    BY DEF Hours
  <2>2. moon <=> (d.illumination >= 70 /\ h \in {21, 22, 23, 0, 1, 2, 3})
    BY DEF Hours
  <2> HIDE DEF night, moon
  <2> QED
    BY <2>1, <2>2, Zenon DEF Weight
<1> HIDE DEF night, moon
<1>9. n > 0
  BY <1>5
<1> QED
  BY <1>6, <1>7, <1>8, <1>9

-----------------------------------------------------------------------------
LEMMA BestHour ==
  ASSUME NEW f \in [Hours -> Nat]
  PROVE  \E h \in Hours : f[h] = Max(Range(f)) /\ \A g \in Hours : f[g] <= f[h]
<1> DEFINE T == {k \in Nat : k <= 23 => \E h \in 0..k : \A g \in 0..k : f[g] <= f[h]}
<1>0. \A h \in 0..23 : f[h] \in Nat
  BY DEF Hours
<1>1. 0 \in T
  BY <1>0
<1>2. ASSUME NEW k \in T PROVE k + 1 \in T
  <2> SUFFICES ASSUME k + 1 <= 23
               PROVE  \E h \in 0..(k + 1) : \A g \in 0..(k + 1) : f[g] <= f[h]
    OBVIOUS
  <2>1. PICK h \in 0..k : \A g \in 0..k : f[g] <= f[h]
    OBVIOUS
  <2>2. f[k + 1] \in Nat /\ f[h] \in Nat
    BY <1>0
  <2>3. CASE f[k + 1] <= f[h]
    BY <2>1, <2>3
  <2>4. CASE f[h] < f[k + 1]
    <3>1. \A g \in 0..k : f[g] <= f[k + 1]
      BY <1>0, <2>1, <2>2, <2>4
    <3> QED
      BY <2>2, <3>1
  <2> QED
    BY <2>2, <2>3, <2>4
<1>3. T = Nat
  <2> HIDE DEF T
  <2>1. T \in SUBSET Nat
    BY DEF T
  <2> QED
    BY <1>1, <1>2, <2>1, NatsByInduction
<1>4. PICK h \in Hours : \A g \in Hours : f[g] <= f[h]
  <2>1. 23 \in T
    BY <1>3
  <2> QED
    BY <2>1 DEF Hours
<1>5. Range(f) \subseteq Nat /\ f[h] \in Range(f) /\ \A n \in Range(f) : f[h] >= n
  BY <1>4 DEF Range
<1>6. Max(Range(f)) \in Range(f) /\ \A n \in Range(f) : Max(Range(f)) >= n
  BY <1>5, Zenon DEF Max
<1> QED
  BY <1>4, <1>5, <1>6

LEMMA DivisionIsUnique ==
  ASSUME NEW n \in Nat, NEW m \in Nat \ {0}, NEW q \in Nat, NEW r \in Nat,
         n = m * q + r, r < m
  PROVE  n \div m = q /\ n % m = r
<1>1. PICK x \in Nat, y \in Nat : x = n \div m /\ y = n % m /\ n = m * x + y /\ y < m
  OBVIOUS
<1>2. ~ (x + 1 <= q)
  <2> SUFFICES ASSUME x + 1 <= q PROVE FALSE
    OBVIOUS
  <2>1. m * (x + 1) <= m * q
    OBVIOUS
  <2> QED
    BY <1>1, <2>1
<1>3. ~ (q + 1 <= x)
  <2> SUFFICES ASSUME q + 1 <= x PROVE FALSE
    OBVIOUS
  <2>1. m * (q + 1) <= m * x
    OBVIOUS
  <2> QED
    BY <1>1, <2>1
<1> QED
  BY <1>1, <1>2, <1>3

(* A common factor of both leaves a rounded quotient as it is.              *)
LEMMA RoundingScales ==
  ASSUME NEW n \in Nat, NEW m \in Nat \ {0}
  PROVE  RoundHalfEven(4 * n, 4 * m) = RoundHalfEven(n, m)
<1>1. PICK q \in Nat, r \in Nat, x \in Nat :
        q = n \div m /\ r = n % m /\ x = m * q /\ n = x + r /\ r < m
  OBVIOUS
<1>2. (4 * n) \div (4 * m) = q /\ (4 * n) % (4 * m) = 4 * r
  <2>1. (4 * m) * q = 4 * x
    BY <1>1
  <2>2. 4 * n = (4 * m) * q + 4 * r /\ 4 * r < 4 * m
    BY <1>1, <2>1
  <2>3. 4 * n \in Nat /\ 4 * m \in Nat \ {0} /\ 4 * r \in Nat
    OBVIOUS
  <2> QED
    BY <2>2, <2>3, DivisionIsUnique
<1>3. RoundHalfEven(4 * n, 4 * m) =
        IF 2 * (4 * r) > 4 * m \/ (2 * (4 * r) = 4 * m /\ q % 2 = 1) THEN q + 1 ELSE q
  BY <1>2 DEF RoundHalfEven
<1>4. RoundHalfEven(n, m) = IF 2 * r > m \/ (2 * r = m /\ q % 2 = 1) THEN q + 1 ELSE q
  BY <1>1 DEF RoundHalfEven
<1> QED
  BY <1>3, <1>4

LEMMA LevelsAgree ==
  ASSUME NEW d, IsDay(d), WindMultiplier(d.wind) = condition_mult(wind_speed(d)), NEW h \in Hours
  PROVE  Level(d)[h] - TimelineLevel(d)[h] \in 0..2
<1> DEFINE ported == [g \in Hours |-> Activity(d, g)]
           legacy == [g \in Hours |-> TimelineActivity(d, g)]
<1>1. /\ legacy \in [Hours -> Nat] /\ ported \in [Hours -> Nat]
      /\ \A g \in Hours : legacy[g] \in Nat \ {0} /\ ported[g] = 4 * legacy[g]
  BY ActivitiesAgree
<1>2. PICK k \in {65, 82, 100} : k = WindMultiplier(d.wind)
  BY DEF WindMultiplier
<1>3. Level(d)[h] = RoundHalfEven(ported[h] * k, Max(Range(ported)))
  BY <1>2 DEF Level
<1>4. TimelineLevel(d)[h] = (((legacy[h] * 100) \div Max(Range(legacy))) * k) \div 100
  BY <1>2 DEF TimelineLevel
<1> HIDE DEF ported, legacy
<1>5. PICK p \in Hours : ported[p] = Max(Range(ported)) /\ \A g \in Hours : ported[g] <= ported[p]
  BY <1>1, BestHour
<1>6. PICK l \in Hours : legacy[l] = Max(Range(legacy)) /\ \A g \in Hours : legacy[g] <= legacy[l]
  BY <1>1, BestHour
<1>7. PICK m \in Nat \ {0} : m = Max(Range(legacy)) /\ 4 * m = Max(Range(ported))
  <2>1. /\ legacy[p] \in Nat /\ legacy[l] \in Nat \ {0}
        /\ ported[p] = 4 * legacy[p] /\ ported[l] = 4 * legacy[l]
    BY <1>1
  <2>2. legacy[p] <= legacy[l] /\ ported[l] <= ported[p]
    BY <1>5, <1>6
  <2>3. legacy[p] = legacy[l]
    BY <2>1, <2>2
  <2> QED
    BY <1>5, <1>6, <2>1, <2>3
<1>8. PICK a \in Nat : a = legacy[h] /\ ported[h] = 4 * a
  BY <1>1
<1>9. RoundHalfEven(ported[h] * k, Max(Range(ported))) = RoundHalfEven(a * k, m)
  <2>1. ported[h] * k = 4 * (a * k) /\ a * k \in Nat
    BY <1>8
  <2> QED
    BY <1>7, <2>1, RoundingScales
<1>10. Rounded(a, m, k) - Truncated(a, m, k) \in 0..2
  BY RoundingRaisesByTwo
<1>11. Level(d)[h] = Rounded(a, m, k)
  BY <1>3, <1>9, Zenon DEF Rounded
<1>12. TimelineLevel(d)[h] = Truncated(a, m, k)
  BY <1>4, <1>7, <1>8, Zenon DEF Truncated
<1> QED
  BY <1>10, <1>11, <1>12, Zenon

-----------------------------------------------------------------------------
LEMMA TodayIsDay ==
  ASSUME day \in Days
  PROVE  IsDay(Today) /\ Today.wind = wind
<1>1. day \in [wind : {Absent}, rise : Int, set : Int, majors : SUBSET (Int \X Int),
                minors : SUBSET (Int \X Int), tides : Seq(Int \X {"high", "low"}), illumination : Int]
  BY PortAssumption
<1>2. IsFiniteSet(day.majors) /\ IsFiniteSet(day.minors)
  BY PortAssumption
<1>3. /\ Today.wind = wind /\ Today.rise = day.rise /\ Today.set = day.set
      /\ Today.majors = day.majors /\ Today.minors = day.minors /\ Today.tides = day.tides
      /\ Today.illumination = day.illumination
  BY <1>1 DEF Today
<1> QED
  BY <1>1, <1>2, <1>3 DEF IsDay

(* The port's outlook is the legacy timeline, but for rounding: for every   *)
(* day, every wind of the same class and every sum over the periods and     *)
(* tides of that day.                                                       *)
THEOREM OutlookIsPorted == PortSpec => []OutlooksAgreeInEqualWind
<1>1. PortTypeOK => OutlooksAgreeInEqualWind
  <2> SUFFICES ASSUME PortTypeOK, day # NoDay, WindMultiplier(wind) = condition_mult(wind_speed(Today)),
                      NEW h \in Hours
               PROVE  /\ \A field \in {"reasons", "sun", "tide", "feeding"} :
                            Outlook(Today)[h][field] = Timeline(Today)[h][field]
                      /\ Outlook(Today)[h].level - Timeline(Today)[h].level \in 0..2
    BY DEF OutlooksAgreeInEqualWind, SameHours
  <2>1. IsDay(Today) /\ Today.wind = wind
    BY TodayIsDay DEF PortTypeOK
  <2> DEFINE d == Today
  <2> HIDE DEF d
  <2>2. IsDay(d) /\ d.wind = wind /\ WindMultiplier(d.wind) = condition_mult(wind_speed(d))
    BY <2>1 DEF d
  <2>3. Reasons(d, h) = TimelineReasons(d, h)
    BY <2>2, ReasonsAgree DEF IsDay
  <2>4. TideEvent(d, h) = TimelineTide(d, h)
    BY <2>2, TideEventsAgree DEF IsDay
  <2>5. Level(d)[h] - TimelineLevel(d)[h] \in 0..2
    BY <2>2, LevelsAgree
  <2>6. NearestHour(d.set) = Column(d.set) /\ NearestHour(d.rise) = Column(d.rise)
    BY <2>2, ColumnsAgree DEF IsDay
  <2>7. /\ \A p \in d.majors : InPeriod(p, h) <=> 4 * h \in p[1]..p[2]
        /\ \A p \in d.minors : InPeriod(p, h) <=> 4 * h \in p[1]..p[2]
    BY <2>2, PeriodsAgree DEF IsDay
  <2>8. /\ Outlook(d)[h].level = Level(d)[h]
        /\ Outlook(d)[h].reasons = Reasons(d, h)
        /\ Outlook(d)[h].sun = SunEvent(d, h)
        /\ Outlook(d)[h].tide = TideEvent(d, h)
        /\ Outlook(d)[h].feeding = Feeding(d, h)
    BY DEF Outlook
  <2>9. /\ Timeline(d)[h].level = TimelineLevel(d)[h]
        /\ Timeline(d)[h].reasons = TimelineReasons(d, h)
        /\ Timeline(d)[h].sun = IF Column(d.set) = h THEN "sunset"
                                ELSE IF Column(d.rise) = h THEN "sunrise" ELSE "none"
        /\ Timeline(d)[h].tide = TimelineTide(d, h)
        /\ Timeline(d)[h].feeding = IF \E p \in d.majors : 4 * h \in p[1]..p[2] THEN "major"
                                    ELSE IF \E p \in d.minors : 4 * h \in p[1]..p[2] THEN "minor"
                                    ELSE "none"
    BY DEF Timeline
  <2>10. SunEvent(d, h) = Timeline(d)[h].sun
    BY <2>6, <2>9 DEF SunEvent
  <2>11. Feeding(d, h) = Timeline(d)[h].feeding
    BY <2>7, <2>9 DEF Feeding
  <2>12. /\ Outlook(d)[h].reasons = Timeline(d)[h].reasons
         /\ Outlook(d)[h].sun = Timeline(d)[h].sun
         /\ Outlook(d)[h].tide = Timeline(d)[h].tide
         /\ Outlook(d)[h].feeding = Timeline(d)[h].feeding
         /\ Outlook(d)[h].level - Timeline(d)[h].level \in 0..2
    BY <2>3, <2>4, <2>5, <2>8, <2>9, <2>10, <2>11, Zenon
  <2> QED
    BY <2>12 DEF d
<1> QED
  BY <1>1, PortInvariance, PTL

-----------------------------------------------------------------------------
(* The profile                                                              *)

(* The sets of species that some of the methods reach. *)
LEMMA ReachedByMore ==
  ASSUME NEW few, NEW more, few \subseteq more
  PROVE  UNION {Reaches(t) : t \in few} \subseteq UNION {Reaches(t) : t \in more}
OBVIOUS

(* Each gate of the filter lets through with more what it did with less.    *)
LEMMA FilterIsMonotone ==
  ASSUME NEW sp, NEW few, NEW more, NEW wanted, NEW others,
         few # {}, few \subseteq more, wanted \subseteq others, wanted # {} \/ others = {},
         _profile_filter(sp, few, wanted)
  PROVE  _profile_filter(sp, more, others)
<1>1. /\ sp.offshore => few \intersect {"offshore", "charter", "kayak"} # {}
      /\ few = {"charter"} => "charter" \in sp.methods
      /\ few = {"fly"} => "fly" \in sp.methods
      /\ \/ sp.methods = {} \/ sp.offshore
         \/ sp.methods \intersect UNION {Reaches(t) : t \in few} # {}
      /\ wanted # {} => sp.targets \intersect wanted # {}
  BY DEF _profile_filter
<1>2. sp.offshore => more \intersect {"offshore", "charter", "kayak"} # {}
  BY <1>1
<1>3. \A one : more = {one} => few = {one}
  OBVIOUS
<1>4. \/ sp.methods = {} \/ sp.offshore
      \/ sp.methods \intersect UNION {Reaches(t) : t \in more} # {}
  BY <1>1, ReachedByMore
<1>5. others # {} => sp.targets \intersect others # {}
  BY <1>1
<1> QED
  BY <1>1, <1>2, <1>3, <1>4, <1>5 DEF _profile_filter

(* Naming one more method or target hides nothing, for every catalog and    *)
(* every division of it into the sets of the methods.                       *)
THEOREM MoreMethodsReachMore == SpeciesSpec => MoreMethodsNeverHide
<1>1. ASSUME methods # {}, targets # {} \/ targets' = {}, NEW p \in Places,
             methods \subseteq methods', targets \subseteq targets',
             _profile_filter(Catalog[p], methods, targets)
      PROVE  _profile_filter(Catalog[p], methods', targets')
  BY <1>1, FilterIsMonotone
<1>2. SpeciesInit /\ [][SpeciesNext]_speciesVars => MoreMethodsNeverHide
  <2>1. [SpeciesNext]_speciesVars =>
          [methods # {} /\ (targets # {} \/ targets' = {}) =>
             \A p \in Places : /\ methods \subseteq methods' /\ targets \subseteq targets'
                                /\ _profile_filter(Catalog[p], methods, targets)
               => _profile_filter(Catalog[p], methods, targets)']_speciesVars
    BY <1>1 DEF _profile_filter, Places, Reaches, Inshore
  <2> QED
    BY <2>1, PTL DEF MoreMethodsNeverHide
<1> QED
  BY <1>2 DEF SpeciesSpec

-----------------------------------------------------------------------------
(* The order of the list.                                                   *)

LEMMA OneOfIsInt ==
  ASSUME NEW a, NEW x \in Int, NEW b, NEW y \in Int
  PROVE  OneOf(a, x, b, y) \in Int
BY DEF OneOf

LEMMA ModifierIsInt ==
  ASSUME NEW sp, NEW s
  PROVE  Modifier(sp, s) \in Int
<1> DEFINE dirs    == _DIRS_BY_ORIENTATION[s.coast]
           low     == s.hour < 7 \/ s.hour > 18
           midday  == s.hour \in 10..15
           Likes(x) == x \in sp.likes
           ofDirection ==
             IF Likes("onshore") THEN OneOf(s.direction \in dirs.on, 5, s.direction \in dirs.off, -3)
             ELSE IF Likes("calm") THEN OneOf(s.direction \in dirs.off, 5, s.direction \in dirs.on, -3) ELSE 0
           ofWind ==
             IF s.wind = Absent THEN 0
             ELSE IF Likes("rough") THEN OneOf(s.wind \in 20..36, 3, s.wind < 10, -2)
             ELSE IF Likes("calm") THEN OneOf(s.wind < 16, 3, s.wind > 30, -2) ELSE 0
           ofWave ==
             IF s.wave = Absent THEN 0
             ELSE IF Likes("rough") THEN OneOf(s.wave \in 4..10, 4, s.wave < 2, -1)
             ELSE IF Likes("calm") THEN OneOf(s.wave < 4, 4, s.wave > 8, -2) ELSE 0
           ofLight ==
             IF Likes("low light") THEN OneOf(low, 3, midday, -1)
             ELSE IF Likes("daylight") THEN OneOf(midday, 3, low, -1) ELSE 0
<1>1. Modifier(sp, s) = Unit * (ofDirection + ofWind + ofWave + ofLight)
  BY DEF Modifier
<1>2. ofDirection \in Int
  BY OneOfIsInt
<1>3. ofWind \in Int
  BY OneOfIsInt
<1>4. ofWave \in Int
  BY OneOfIsInt
<1>5. ofLight \in Int
  <2> HIDE DEF low, midday, Likes
  <2>1. CASE Likes("low light")
    <3>1. ofLight = OneOf(low, 3, midday, -1)
      BY <2>1, Zenon
    <3> HIDE DEF ofLight
    <3> QED
      BY <3>1, SMT DEF OneOf
  <2>2. CASE ~Likes("low light") /\ Likes("daylight")
    <3>1. ofLight = OneOf(midday, 3, low, -1)
      BY <2>2, Zenon
    <3> HIDE DEF ofLight
    <3> QED
      BY <3>1, SMT DEF OneOf
  <2>3. CASE ~Likes("low light") /\ ~Likes("daylight")
    <3>1. ofLight = 0
      BY <2>3, Zenon
    <3> HIDE DEF ofLight
    <3> QED
      BY <3>1
  <2> HIDE DEF ofLight
  <2> QED
    BY <2>1, <2>2, <2>3
<1> HIDE DEF ofDirection, ofWind, ofWave, ofLight
<1> QED
  BY <1>1, <1>2, <1>3, <1>4, <1>5 DEF Unit

LEMMA ScoreIsInt ==
  ASSUME NEW sp, NEW m, NEW t \in Int, NEW s, sp.survives \in Int \X Int, sp.ideal \in Int \X Int
  PROVE  _score_species(sp, m, t, s) \in Int
<1>1. PICK a \in Int, b \in Int, c \in Int, d \in Int :
        a = sp.survives[1] /\ b = sp.survives[2] /\ c = sp.ideal[1] /\ d = sp.ideal[2]
  OBVIOUS
<1>2. CASE t \notin a..b
  BY <1>1, <1>2 DEF _score_species, Unit
<1>3. CASE t \in a..b
  <2>1. TemperatureFit(sp, t) \in Int
    <3>1. TemperatureFit(sp, t) =
            CASE t \in c..d -> 50 * Unit
              [] t < c -> (50 * Unit * (t - a)) \div (c - a)
              [] OTHER -> (50 * Unit * (b - t)) \div (b - d)
      BY <1>1 DEF TemperatureFit
    <3>2. CASE t \in c..d
      BY <3>1, <3>2 DEF Unit
    <3>3. CASE t < c
      BY <1>3, <3>1, <3>3 DEF Unit
    <3>4. CASE t > d /\ ~(t < c)
      BY <1>3, <3>1, <3>4 DEF Unit
    <3> QED
      BY <3>2, <3>3, <3>4
  <2>2. PICK f \in Int, g \in Int : f = TemperatureFit(sp, t) /\ g = Modifier(sp, s)
    BY <2>1, ModifierIsInt
  <2>3. _score_species(sp, m, t, s) =
          f + g + Unit * (IF m \in sp.peak THEN 30 ELSE IF m \in sp.good THEN 15 ELSE 0)
    BY <1>1, <1>3, <2>2 DEF _score_species
  <2> QED
    BY <2>3 DEF Unit
<1> QED
  BY <1>2, <1>3

LEMMA PlacesAre ==
  /\ IsFiniteSet(Places) /\ Places \subseteq Int
  /\ warmth \in Temperatures => \A p \in Places : ScoreAt(p) \in Int
<1>1. Places = 1..Len(Catalog) /\ Len(Catalog) \in Nat
  BY SpeciesAssumption DEF Places
<1>2. IsFiniteSet(Places) /\ Places \subseteq Int
  BY <1>1, FS_Interval
<1>3. ASSUME warmth \in Temperatures, NEW p \in Places PROVE ScoreAt(p) \in Int
  BY <1>3, SpeciesAssumption, ScoreIsInt DEF ScoreAt
<1> QED
  BY <1>2, <1>3

LEMMA BeforeIsOrder ==
  ASSUME warmth \in Temperatures
  PROVE  /\ \A p \in Places : ~Before(p, p)
         /\ \A p, q \in Places : p # q => Before(p, q) \/ Before(q, p)
         /\ \A p, q, r \in Places : Before(p, q) /\ Before(q, r) => Before(p, r)
         /\ \A p, q \in Places : Before(p, q) => ScoreAt(p) >= ScoreAt(q)
BY PlacesAre DEF Before

-----------------------------------------------------------------------------
(* A list that ends before p has all of its places taken, by what is before *)
(* p.                                                                       *)
LEMMA FullWhenCut ==
  ASSUME warmth \in Temperatures, NEW S \in SUBSET Places, NEW p \in Places, NEW n \in Nat,
         ~(Cardinality({q \in S : Before(q, p)}) < n)
  PROVE  /\ Cardinality(Foremost(n, S)) = n
         /\ \A q \in Foremost(n, S) : ScoreAt(q) >= ScoreAt(p)
<1> DEFINE Ahead(x) == {q \in S : Before(q, x)}
           B == Ahead(p)
           b == Cardinality(B)
           rank == [x \in B |-> Cardinality(Ahead(x))]
           F == Foremost(n, S)
<1>1. /\ \A x : IsFiniteSet(Ahead(x)) /\ Cardinality(Ahead(x)) \in Nat
      /\ B \subseteq S /\ IsFiniteSet(S)
  <2>1. IsFiniteSet(S)
    BY PlacesAre, FS_Subset
  <2> QED
    BY <2>1, FS_Subset, FS_CardinalityType
<1>2. b \in Nat /\ n <= b
  BY <1>1
<1>3. F = {x \in S : Cardinality(Ahead(x)) < n}
  BY DEF Foremost
<1>4. ASSUME NEW x \in S, ~Before(x, p) PROVE ~(Cardinality(Ahead(x)) < n)
  <2>1. B \subseteq Ahead(x)
    BY <1>4, BeforeIsOrder
  <2>2. b <= Cardinality(Ahead(x))
    BY <1>1, <2>1, FS_Subset
  <2> HIDE DEF Ahead, b, B
  <2> QED
    BY <1>1, <1>2, <2>2
<1>5. F = {x \in B : rank[x] < n}
  BY <1>3, <1>4
<1>6. ASSUME NEW x \in S, NEW y \in S, Before(x, y)
      PROVE  Cardinality(Ahead(x)) < Cardinality(Ahead(y))
  <2>1. Ahead(x) \subseteq Ahead(y) /\ x \in Ahead(y) /\ x \notin Ahead(x)
    BY <1>6, BeforeIsOrder
  <2>2. Cardinality(Ahead(x)) <= Cardinality(Ahead(y)) /\ Cardinality(Ahead(y)) # Cardinality(Ahead(x))
    BY <1>1, <2>1, FS_Subset
  <2> HIDE DEF Ahead
  <2> QED
    BY <1>1, <2>2
<1>7. ASSUME NEW x \in B PROVE rank[x] \in 0..(b - 1)
  <2>1. Ahead(x) \subseteq B /\ x \in B /\ x \notin Ahead(x)
    BY <1>7, BeforeIsOrder
  <2>2. Cardinality(Ahead(x)) <= b /\ b # Cardinality(Ahead(x)) /\ Cardinality(Ahead(x)) \in Nat
    BY <1>1, <2>1, FS_Subset
  <2>3. rank[x] = Cardinality(Ahead(x))
    BY <1>7
  <2> HIDE DEF Ahead, b, B, rank
  <2> QED
    BY <1>2, <2>2, <2>3
<1>8. ASSUME NEW x \in B, NEW y \in B, rank[x] = rank[y] PROVE x = y
  <2>1. x = y \/ Before(x, y) \/ Before(y, x)
    BY BeforeIsOrder
  <2>2. x \in S /\ y \in S /\ Cardinality(Ahead(x)) = Cardinality(Ahead(y))
        /\ Cardinality(Ahead(x)) \in Nat
    BY <1>1, <1>8
  <2> HIDE DEF Ahead, B, rank
  <2> QED
    BY <1>6, <2>1, <2>2
<1>9. rank \in Injection(B, 0..(b - 1))
  <2>1. rank \in [B -> 0..(b - 1)]
    <3>1. rank = [x \in B |-> rank[x]]
      OBVIOUS
    <3> HIDE DEF rank, b, B
    <3> QED
      BY <1>7, <3>1
  <2> HIDE DEF rank, b, B
  <2> QED
    BY <1>8, <2>1 DEF Injection, IsInjective
<1>10. IsFiniteSet(0..(b - 1)) /\ Cardinality(0..(b - 1)) = b
  <2> HIDE DEF b
  <2> QED
    BY <1>2, FS_Interval
<1>11. rank \in Surjection(B, 0..(b - 1))
  <2>1. IsFiniteSet(B) /\ Cardinality(B) = Cardinality(0..(b - 1))
    BY <1>10, <1>1
  <2> HIDE DEF b, B, rank
  <2> QED
    BY <1>9, <1>10, <2>1, FS_Injection
<1> DEFINE f == [x \in F |-> rank[x]]
<1>12. f \in Bijection(F, 0..(n - 1))
  <2>1. F \subseteq B /\ \A x \in F : rank[x] < n
    BY <1>5
  <2>2. \A i \in 0..(b - 1) : \E x \in B : rank[x] = i
    BY <1>11 DEF Surjection
  <2> HIDE DEF b, B, rank, F
  <2>3. ASSUME NEW i \in 0..(n - 1) PROVE \E x \in F : f[x] = i
    <3>1. i \in 0..(b - 1)
      BY <1>2
    <3>2. PICK x \in B : rank[x] = i
      BY <2>2, <3>1
    <3>3. x \in F
      BY <1>5, <3>2
    <3> QED
      BY <3>2, <3>3
  <2>4. \A x \in F : f[x] \in 0..(n - 1)
    BY <1>7, <2>1
  <2>5. \A x, y \in F : f[x] = f[y] => x = y
    BY <1>8, <2>1
  <2>6. f \in [F -> 0..(n - 1)]
    BY <2>4
  <2> HIDE DEF f
  <2> QED
    BY <2>3, <2>5, <2>6 DEF Bijection, Injection, IsInjective, Surjection
<1>13. Cardinality(F) = n
  <2>1. IsFiniteSet(0..(n - 1)) /\ Cardinality(0..(n - 1)) = n
    BY FS_Interval
  <2>2. IsFiniteSet(F)
    BY <1>1, <1>3, FS_Subset
  <2>3. ExistsBijection(F, 0..(n - 1))
    BY <1>12 DEF ExistsBijection
  <2> HIDE DEF F
  <2> QED
    BY <2>1, <2>2, <2>3, FS_Bijection
<1>14. \A q \in F : ScoreAt(q) >= ScoreAt(p)
  BY <1>5, BeforeIsOrder
<1> QED
  BY <1>13, <1>14
-----------------------------------------------------------------------------
(* The rules.                                                               *)

(* The windows as the code reads them hold the months they cover. *)
LEMMA MonthsAreCovered ==
  ASSUME NEW from \in Months, NEW to \in Months, NEW m \in Months
  PROVE  (m \in IF to >= from THEN from..to ELSE (from..12) \union (1..to))
         <=> ((m + 12 - from) % 12 <= (to + 12 - from) % 12)
<1>1. \A x \in Months : (m + 12 - x) % 12 = IF m >= x THEN m - x ELSE m + 12 - x
  <2> SUFFICES ASSUME NEW x \in Months
               PROVE  (m + 12 - x) % 12 = IF m >= x THEN m - x ELSE m + 12 - x
    OBVIOUS
  <2>1. m \in 1..12 /\ x \in 1..12
    BY DEF Months
  <2> QED
    BY <2>1
<1>2. (to + 12 - from) % 12 = IF to >= from THEN to - from ELSE to + 12 - from
  BY DEF Months
<1>3. (m + 12 - from) % 12 = IF m >= from THEN m - from ELSE m + 12 - from
  BY <1>1
<1> QED
  BY <1>2, <1>3 DEF Months

LEMMA WindowMonths ==
  ASSUME NEW w \in Windows, NEW m \in Months
  PROVE  Covers(w, m) <=> m \in IF w.to >= w.from THEN w.from..w.to ELSE (w.from..12) \union (1..w.to)
<1>1. w.from \in Months /\ w.to \in Months
  BY DEF Windows, Months
<1> QED
  BY <1>1, MonthsAreCovered DEF Covers

LEMMA MonthsOfCover ==
  ASSUME NEW W \in SUBSET Windows, NEW m \in Months
  PROVE  m \in MonthsOf(W) <=> \E w \in W : Covers(w, m)
<1> DEFINE M(w) == IF w.to >= w.from THEN w.from..w.to ELSE (w.from..12) \union (1..w.to)
<1>1. MonthsOf(W) = UNION {M(w) : w \in W}
  BY DEF MonthsOf
<1>2. \A w \in W : Covers(w, m) <=> m \in M(w)
  BY WindowMonths
<1> HIDE DEF M
<1> QED
  BY <1>1, <1>2

(* A rule that is legal says none of what comes before that. *)
LEMMA LegalSaysNothingElse ==
  ASSUME NEW rule, rule # NoRule, NEW m, classify_legality(rule, m) = "legal"
  PROVE  /\ ~Says(BagText(rule) \union rule.season \union rule.notes, "prohibited")
         /\ m \notin _parse_closed_months_text(rule)
         /\ ~Says(BagText(rule) \union rule.season \union rule.notes, "closed")
         /\ ~Says(BagText(rule) \union rule.season \union rule.notes, "released")
         /\ ~Says(BagText(rule) \union rule.season, "partly")
         /\ BagText(rule) \intersect NoneToKeep = {}
<1> DEFINE bag == BagText(rule)
           combined == bag \union rule.season \union rule.notes
           P1 == (combined = {} /\ rule.windows = {}) \/ Says(rule.notes, "missing")
           P2 == Says(combined, "prohibited")
           P3 == m \in _parse_closed_months_text(rule) \/ Says(combined, "closed")
           P4 == \/ Says(combined, "released") \/ Says(bag \union rule.season, "partly")
                 \/ bag \intersect NoneToKeep # {}
           P5 == \/ Says(combined, "permit") \/ Says(combined, "hedged") \/ "seasonal" \in rule.season
                 \/ "check with the state" \in rule.season /\ "open year-round" \notin rule.season
           v == Verdicts(rule, m)
           D == {i \in 1..6 : v[i].if}
<1>1. v = <<[is |-> "unknown", if |-> P1], [is |-> "prohibited", if |-> P2],
            [is |-> "out_of_season", if |-> P3], [is |-> "catch_and_release", if |-> P4],
            [is |-> "restricted", if |-> P5], [is |-> "legal", if |-> TRUE]>>
  BY DEF Verdicts
<1>2. v[Min({i \in DOMAIN v : v[i].if})].is = "legal"
  BY DEF classify_legality
<1> HIDE DEF P1, P2, P3, P4, P5, v
<1>3. /\ DOMAIN v = 1..6 /\ v[6].if
      /\ \A i \in 1..5 : v[i].is # "legal"
      /\ P2 => v[2].if
      /\ P3 => v[3].if
      /\ P4 => v[4].if
  BY <1>1
<1>4. \E x \in D : \A y \in D : x <= y
  <2>1. 6 \in D
    BY <1>3
  <2> QED
    BY <2>1
<1>5. Min(D) \in D /\ \A y \in D : Min(D) <= y
  BY <1>4 DEF Min
<1>6. Min(D) = 6
  BY <1>2, <1>3, <1>5
<1>7. \A i \in 1..5 : i \notin D
  BY <1>5, <1>6
<1>8. ~P2 /\ ~P3 /\ ~P4
  BY <1>3, <1>7
<1> QED
  BY <1>8 DEF P2, P3, P4

(* So a legal rule that lets nobody keep a fish says so in another way. *)
LEMMA LegalIsKept ==
  ASSUME NEW rule, rule # NoRule, NEW m \in Months, rule.windows \subseteq Windows,
         classify_legality(rule, m) = "legal", ~Keeping(rule, m)
  PROVE  \/ rule.bag = NumberZero
         \/ Says({rule.bag} \union rule.season \union rule.notes, "unread")
         \/ \E w \in rule.windows : w.says = "closed in other words" /\ Covers(w, m)
         \/ OutOfThem(Seasons(rule), m)
<1> SUFFICES ASSUME rule.bag # NumberZero,
                    ~Says({rule.bag} \union rule.season \union rule.notes, "unread"),
                    \A w \in rule.windows : w.says = "closed in other words" => ~Covers(w, m)
             PROVE  OutOfThem(Seasons(rule), m)
  OBVIOUS
<1> DEFINE bag == BagText(rule)
           text == {rule.bag} \union rule.season \union rule.notes
<1>1. /\ ~Says(bag \union rule.season \union rule.notes, "prohibited")
      /\ m \notin _parse_closed_months_text(rule)
      /\ ~Says(bag \union rule.season \union rule.notes, "closed")
      /\ ~Says(bag \union rule.season \union rule.notes, "released")
      /\ ~Says(bag \union rule.season, "partly")
      /\ bag \intersect NoneToKeep = {}
  BY LegalSaysNothingElse
<1>2. bag = {rule.bag} \ {""}
  BY DEF BagText
<1>3. rule.bag \notin NoneToKeep \union {NumberZero}
  BY <1>1, <1>2 DEF NoneToKeep
<1>4. \A kind \in {"prohibited", "closed", "released", "unread"} : ~Says(text, kind)
  <2>1. "" \notin Phrases["prohibited"] /\ "" \notin Phrases["closed"] /\ "" \notin Phrases["released"]
    BY DEF Phrases
  <2> QED
    BY <1>1, <1>2, <2>1 DEF Says
<1>5. ~Says({rule.bag} \union rule.season, "partly")
  <2>1. "" \notin Phrases["partly"]
    BY DEF Phrases
  <2> QED
    BY <1>1, <1>2, <2>1 DEF Says
<1>6. \A w \in rule.windows : w.says = "closed" => ~Covers(w, m)
  <2>1. {w \in rule.windows : w.says = "closed"} \in SUBSET Windows
    OBVIOUS
  <2> QED
    BY <1>1, <2>1, MonthsOfCover DEF _parse_closed_months_text
<1>7. \A w \in rule.windows \ Seasons(rule) : ~Covers(w, m)
  <2>1. \A w \in rule.windows : w.says \in {"open", "closed", "closed in other words", "months alone"}
    BY DEF Windows
  <2> QED
    BY <1>6, <2>1 DEF Seasons
<1> QED
  BY <1>3, <1>4, <1>5, <1>7 DEF Keeping

(* And its card says closed when nothing but the windows it is open in does. *)
LEMMA CardSaysClosed ==
  ASSUME NEW rule, NEW m \in Months, rule.windows \subseteq Windows,
         \E w \in rule.windows : w.says = "open",
         \A w \in rule.windows : w.says = "open" => ~Covers(w, m),
         \A w \in rule.windows : w.says # "closed",
         ~Says(rule.season \union rule.notes, "year_round")
  PROVE  season_status(rule, m) = "closed"
<1> DEFINE opens == {w \in rule.windows : w.says = "open"}
<1>1. _parse_closed_months_text(rule) = {}
  <2>1. {w \in rule.windows : w.says = "closed"} = {}
    OBVIOUS
  <2> QED
    BY <2>1 DEF _parse_closed_months_text, MonthsOf
<1>2. m \notin _parse_open_months_text(rule)
  BY MonthsOfCover DEF _parse_open_months_text
<1>3. _parse_open_months_text(rule) # {}
  <2>1. PICK w \in opens : w \in Windows
    OBVIOUS
  <2>2. w.from \in Months /\ Covers(w, w.from)
    <3>1. w.from \in 1..12 /\ w.to \in 1..12
      BY <2>1 DEF Windows, Months
    <3> QED
      BY <3>1, <2>1, WindowMonths DEF Months
  <2>3. w.from \in MonthsOf(opens)
    BY <2>1, <2>2, MonthsOfCover
  <2> QED
    BY <2>3 DEF _parse_open_months_text
<1> QED
  BY <1>1, <1>2, <1>3 DEF season_status

-----------------------------------------------------------------------------
(* What a page is asked with. *)
AskedInv ==
  /\ warmth \in Temperatures /\ month \in Months /\ rules \in RuleBooks

LEMMA AskedInvariance == SpeciesSpec => []AskedInv
<1>1. SpeciesInit => AskedInv
  BY DEF SpeciesInit, AskedInv
<1>2. AskedInv /\ [SpeciesNext]_speciesVars => AskedInv'
  BY DEF AskedInv, SpeciesNext, MonthPasses, WaterWarms, TakeUp, speciesVars, Months
<1> QED
  BY <1>1, <1>2, PTL DEF SpeciesSpec

(* Whatever the rules are, a species that they let no one keep is           *)
(* recommended only when they say so in a way that the code does not read.  *)
THEOREM UnreadRulesSlipThrough == SpeciesSpec => []OnlyUnreadRulesSlipThrough
<1>1. AskedInv => OnlyUnreadRulesSlipThrough
  <2> DEFINE Opens(r) == {w \in r.windows : w.says = "open"}
  <2> SUFFICES ASSUME AskedInv, NEW p \in Recommended, NEW rule, rule = rules[p], rule # NoRule,
                      ~Keeping(rule, month)
               PROVE  \/ rule.bag = NumberZero
                      \/ Says({rule.bag} \union rule.season \union rule.notes, "unread")
                      \/ \E w \in rule.windows : w.says = "closed in other words" /\ Covers(w, month)
                      \/ /\ OutOfThem(Seasons(rule), month)
                         /\ \/ Opens(rule) = {}
                            \/ season_status(rule, month) = "closed"
                            \/ \E w \in rule.windows : w.says = "closed"
                            \/ Says(rule.season \union rule.notes, "year_round")
    BY DEF OnlyUnreadRulesSlipThrough
  <2>1. p \in Places /\ ~Hidden(p)
    BY DEF Recommended, Foremost, Allowed, Biting
  <2>2. classify_legality(rule, month) = "legal"
    BY <2>1 DEF Hidden, should_hide_from_forecast, Status
  <2>3. rule.windows \subseteq Windows /\ month \in Months
    BY <2>1, SpeciesAssumption DEF AskedInv
  <2>4. \/ rule.bag = NumberZero
        \/ Says({rule.bag} \union rule.season \union rule.notes, "unread")
        \/ \E w \in rule.windows : w.says = "closed in other words" /\ Covers(w, month)
        \/ OutOfThem(Seasons(rule), month)
    BY <2>2, <2>3, LegalIsKept
  <2>5. ASSUME OutOfThem(Seasons(rule), month), Opens(rule) # {},
               \A w \in rule.windows : w.says # "closed",
               ~Says(rule.season \union rule.notes, "year_round")
        PROVE  season_status(rule, month) = "closed"
    <3>1. \A w \in rule.windows : w.says = "open" => ~Covers(w, month)
      BY <2>5 DEF OutOfThem, Seasons
    <3> QED
      BY <2>3, <2>5, <3>1, CardSaysClosed
  <2> QED
    BY <2>4, <2>5
<1> QED
  BY <1>1, AskedInvariance, PTL

(* However long the catalog and the lists are, what is left out of a list   *)
(* bites no better than what fills it.                                      *)
THEOREM ListsHoldTheBest == SpeciesSpec => []NothingBetterIsLeftOut
<1>1. AskedInv => NothingBetterIsLeftOut
  <2> SUFFICES ASSUME AskedInv, NEW p \in Biting \ Recommended
               PROVE  LET Full(S, most) == Cardinality(S) = most /\ \A q \in S : ScoreAt(q) >= ScoreAt(p)
                      IN IF ~Hidden(p) THEN Full(Recommended, MaxShown)
                         ELSE Status(p) \in {"out_of_season", "prohibited"}
                              => p \in Closures \/ Full(Closures, MaxWarned) \/ Full(Recommended, MaxShown)
    BY DEF NothingBetterIsLeftOut
  <2> DEFINE Full(S, most) == Cardinality(S) = most /\ \A q \in S : ScoreAt(q) >= ScoreAt(p)
             Late(S, n) == ~(Cardinality({q \in S : Before(q, p)}) < n)
  <2>1. /\ warmth \in Temperatures /\ p \in Places /\ MaxShown \in Nat /\ MaxWarned \in Nat
        /\ Allowed \in SUBSET Places /\ closures_out \in SUBSET Places
    BY SpeciesAssumption DEF AskedInv, Biting, Allowed, closures_out
  <2>2. Late(Allowed, MaxShown) => Full(Recommended, MaxShown)
    BY <2>1, FullWhenCut DEF Recommended
  <2>3. Late(closures_out, MaxWarned) => Full(Closures, MaxWarned)
    BY <2>1, FullWhenCut DEF Closures
  <2>4. ~Hidden(p) => Late(Allowed, MaxShown)
    BY DEF Recommended, Foremost, Allowed
  <2>5. Hidden(p) /\ Status(p) \in {"out_of_season", "prohibited"} =>
          p \in Closures \/ Late(closures_out, MaxWarned) \/ Late(Allowed, MaxShown)
    BY DEF Closures, Foremost, closures_out
  <2> HIDE DEF Late, Full
  <2>6. /\ ~Hidden(p) => Full(Recommended, MaxShown)
        /\ Hidden(p) /\ Status(p) \in {"out_of_season", "prohibited"} =>
             p \in Closures \/ Full(Closures, MaxWarned) \/ Full(Recommended, MaxShown)
    BY <2>2, <2>3, <2>4, <2>5
  <2> QED
    BY <2>6 DEF Full
<1> QED
  BY <1>1, AskedInvariance, PTL
=============================================================================
