----------------------- MODULE LegacyForecastsProofs ------------------------
(***************************************************************************)
(* Theorems of LegacyGeneration, for any number of generations, and of     *)
(* LegacyDashboard, for any number of readers, threads and profiles.       *)
(***************************************************************************)
EXTENDS LegacyGeneration, LegacyDashboard, FiniteSetTheorems, TLAPS

(* The places of the sources in the order in which they are taken.          *)
LEMMA Places ==
  /\ \A s \in Range(Order) : Place(s) \in 1..12 /\ Order[Place(s)] = s
  /\ Place("currents") = 10 /\ Place("observation") = 11
  /\ {"currents", "observation"} \subseteq Range(Order)
  /\ Range(Order) \intersect (Data \union {"marine", "temperature"}) = {}
  /\ Range(Order) \intersect (Averages \union {Nothing, "data"}) = {}
<1>1. DOMAIN Order = 1..12
  BY DEF Order
<1>2. \A s \in Range(Order) : Place(s) \in 1..12 /\ Order[Place(s)] = s
  <2>1. SUFFICES ASSUME NEW s \in Range(Order) PROVE Place(s) \in 1..12 /\ Order[Place(s)] = s
    OBVIOUS
  <2>2. \E i \in DOMAIN Order : Order[i] = s
    BY DEF Range
  <2> QED
    BY <1>1, <2>2 DEF Place
<1>3. Order[10] = "currents" /\ Order[11] = "observation"
  BY DEF Order
<1>4. {"currents", "observation"} \subseteq Range(Order)
  BY <1>1, <1>3 DEF Range
<1>5. \A i \in 1..12 : /\ Order[i] = "currents" => i = 10
                       /\ Order[i] = "observation" => i = 11
                       /\ Order[i] \notin {"wind", "waves", "wind_dir", "marine", "temperature"}
                       /\ Order[i] \notin Averages \union {Nothing, "data"}
  <2>1. SUFFICES ASSUME NEW i \in 1..12
                 PROVE  /\ Order[i] = "currents" => i = 10
                        /\ Order[i] = "observation" => i = 11
                        /\ Order[i] \notin {"wind", "waves", "wind_dir", "marine", "temperature"}
                        /\ Order[i] \notin Averages \union {Nothing, "data"}
    OBVIOUS
  <2>2. /\ Order[1] = "alerts" /\ Order[2] = "state alerts" /\ Order[3] = "pressure"
        /\ Order[4] = "weather" /\ Order[5] = "environment" /\ Order[6] = "water quality"
        /\ Order[7] = "fao" /\ Order[8] = "river" /\ Order[9] = "bathymetry"
        /\ Order[10] = "currents" /\ Order[11] = "observation" /\ Order[12] = "tides"
    BY DEF Order
  <2>3. \/ i = 1 \/ i = 2 \/ i = 3 \/ i = 4 \/ i = 5 \/ i = 6 \/ i = 7
        \/ i = 8 \/ i = 9 \/ i = 10 \/ i = 11 \/ i = 12
    OBVIOUS
  <2> QED
    BY <2>2, <2>3 DEF Averages, Located, Generic, Nothing
<1>6. Place("currents") = 10 /\ Place("observation") = 11
  BY <1>2, <1>4, <1>5
<1>7. Range(Order) \intersect (Data \union {"marine", "temperature"}) = {}
  <2>1. SUFFICES ASSUME NEW s \in Range(Order) PROVE s \notin Data \union {"marine", "temperature"}
    OBVIOUS
  <2>2. PICK i \in 1..12 : Order[i] = s
    BY <1>2
  <2> QED
    BY <1>5, <2>2 DEF Data
<1>8. Range(Order) \intersect (Averages \union {Nothing, "data"}) = {}
  <2>1. SUFFICES ASSUME NEW s \in Range(Order) PROVE s \notin Averages \union {Nothing, "data"}
    OBVIOUS
  <2>2. PICK i \in 1..12 : Order[i] = s
    BY <1>2
  <2> QED
    BY <1>5, <2>2
<1> QED
  BY <1>2, <1>4, <1>6, <1>7, <1>8

(* The answers a forecast waits for: each once, an observation of the       *)
(* currents after their predictions.                                        *)
LEMMA AnswersAre ==
  ASSUME NEW f \in Forecasts
  PROVE  /\ Answers(f) \in Seq(Range(Order) \union {"marine", "temperature"})
         /\ Len(Answers(f)) \in Nat /\ Len(Answers(f)) >= 2
         /\ DOMAIN Answers(f) = 1..Len(Answers(f))
         /\ Answers(f)[1] = "marine" /\ Answers(f)[2] = "temperature"
         /\ \A i \in 3..Len(Answers(f)) : Answers(f)[i] \in Range(Order)
         /\ \A i, j \in DOMAIN Answers(f) : Answers(f)[i] = Answers(f)[j] => i = j
         /\ \A i, j \in DOMAIN Answers(f) :
              Answers(f)[i] = "currents" /\ Answers(f)[j] = "observation" => i < j
         /\ (\E i \in DOMAIN Answers(f) : Answers(f)[i] = "currents") =>
              \E j \in DOMAIN Answers(f) : Answers(f)[j] = "observation"
         /\ (\E j \in DOMAIN Answers(f) : Answers(f)[j] = "observation") =>
              \E i \in DOMAIN Answers(f) : Answers(f)[i] = "currents"
<1> DEFINE o == Others[f]
           m == Len(o)
           names == Range(Order) \union {"marine", "temperature"}
           a == Answers(f)
<1>1. /\ o \in Seq(Range(Order)) /\ m \in Nat /\ DOMAIN o = 1..m
      /\ \A i, j \in DOMAIN o : i < j => Place(o[i]) < Place(o[j])
      /\ "observation" \in Range(o) <=> "currents" \in Range(o)
  BY GenerationAssumption
<1>2. \A i \in 1..m : o[i] \in Range(Order) /\ Place(o[i]) \in 1..12
  BY <1>1, Places
<1>3. /\ a \in Seq(names) /\ Len(a) = m + 2 /\ DOMAIN a = 1..(m + 2)
      /\ a[1] = "marine" /\ a[2] = "temperature"
      /\ \A i \in 3..(m + 2) : a[i] = o[i - 2]
  <2>1. /\ <<"marine", "temperature">> \in Seq(names) /\ Len(<<"marine", "temperature">>) = 2
        /\ o \in Seq(names)
    BY <1>1
  <2> QED
    BY <1>1, <2>1 DEF Answers
<1> HIDE DEF o, m, a
<1>4. \A i \in 3..(m + 2) : i - 2 \in 1..m /\ a[i] \in Range(Order) /\ Place(a[i]) \in 1..12
  BY <1>1, <1>2, <1>3
<1>5. \A i, j \in 3..(m + 2) : i < j => Place(a[i]) < Place(a[j])
  <2> SUFFICES ASSUME NEW i \in 3..(m + 2), NEW j \in 3..(m + 2), i < j
               PROVE  Place(a[i]) < Place(a[j])
    OBVIOUS
  <2>1. i - 2 \in DOMAIN o /\ j - 2 \in DOMAIN o /\ i - 2 < j - 2
    BY <1>1
  <2> QED
    BY <1>1, <1>3, <2>1
<1>6. \A i \in 1..(m + 2) : i = 1 \/ i = 2 \/ i \in 3..(m + 2)
  BY <1>1
<1>7. \A i \in 3..(m + 2) : a[i] # "marine" /\ a[i] # "temperature"
  BY <1>4, Places
<1>8. \A i, j \in 3..(m + 2) : a[i] = a[j] => i = j
  <2> SUFFICES ASSUME NEW i \in 3..(m + 2), NEW j \in 3..(m + 2), a[i] = a[j], i # j PROVE FALSE
    OBVIOUS
  <2>1. i < j \/ j < i
    BY <1>1
  <2>2. Place(a[i]) < Place(a[j]) \/ Place(a[j]) < Place(a[i])
    BY <1>5, <2>1
  <2> QED
    BY <1>4, <2>2
<1>9. \A i, j \in DOMAIN a : a[i] = a[j] => i = j
  BY <1>3, <1>6, <1>7, <1>8
<1>10. ASSUME NEW i \in DOMAIN a, NEW j \in DOMAIN a, a[i] = "currents", a[j] = "observation"
       PROVE  i < j
  <2>1. i \in 3..(m + 2) /\ j \in 3..(m + 2)
    BY <1>3, <1>6, <1>10
  <2>2. ~(Place(a[j]) < Place(a[i])) /\ i # j
    BY <1>10, Places
  <2> QED
    BY <1>5, <2>1, <2>2, <1>1
<1>11. \A s \in Range(Order) : s \in Range(o) <=> \E i \in DOMAIN a : a[i] = s
  <2> SUFFICES ASSUME NEW s \in Range(Order)
               PROVE  s \in Range(o) <=> \E i \in DOMAIN a : a[i] = s
    OBVIOUS
  <2>1. ASSUME NEW i \in DOMAIN a, a[i] = s PROVE s \in Range(o)
    <3>1. i \in 3..(m + 2)
      BY <1>3, <1>6, <2>1, Places
    <3>2. i - 2 \in DOMAIN o /\ o[i - 2] = s
      BY <1>1, <1>3, <2>1, <3>1
    <3> QED
      BY <3>2 DEF Range
  <2>2. ASSUME s \in Range(o) PROVE \E i \in DOMAIN a : a[i] = s
    <3>1. PICK j \in 1..m : o[j] = s
      BY <1>1, <2>2 DEF Range
    <3>2. j + 2 \in 3..(m + 2) /\ (j + 2) - 2 = j
      BY <1>1
    <3>3. a[j + 2] = s
      BY <1>3, <3>1, <3>2
    <3> QED
      BY <1>3, <3>2, <3>3, <1>1
  <2> QED
    BY <2>1, <2>2
<1>12. (\E i \in DOMAIN a : a[i] = "currents") <=> (\E j \in DOMAIN a : a[j] = "observation")
  BY <1>1, <1>11, Places
<1>13. /\ Len(a) \in Nat /\ Len(a) >= 2 /\ DOMAIN a = 1..Len(a)
       /\ \A i \in 3..Len(a) : a[i] \in Range(Order)
  BY <1>1, <1>3, <1>4
<1> QED
  BY <1>3, <1>9, <1>10, <1>12, <1>13 DEF a

-----------------------------------------------------------------------------
(* The temperature is asked for once.                                       *)
Temperature(f) == Call(f, "temperature")

AskedOnce(f) ==
  /\ \A i, j \in DOMAIN queue : queue[i] = Temperature(f) /\ queue[j] = Temperature(f) => i = j
  /\ \A i \in DOMAIN queue : queue[i] = Temperature(f) =>
       Temperature(f) \notin running /\ AnswersOf(f, "temperature") = {} /\ step[f] # 0
  /\ Temperature(f) \in running => AnswersOf(f, "temperature") = {} /\ step[f] # 0
  /\ step[f] = 0 => AnswersOf(f, "temperature") = {}

(* What the marine call has found, and what the forecast shows of it.       *)
MarineInv(f) ==
  /\ \A d \in Data : found[f][d] \in DOMAIN Reports \union {None, Located}
  /\ \A d \in Data : found[f][d] \in DOMAIN Reports => Credit(found[f][d], d) \in sources_used[f]
  /\ \A d \in Data : found[f][d] = Located => d \in fallbacks_triggered[f]
  /\ AnswersOf(f, "marine") # {} => Missing(f) = {}
  /\ \A c \in sources_used[f] : c.datum \in Data =>
       found[f][c.datum] = c.source /\ c.source \in DOMAIN Reports
  /\ step[f] > 1 =>
       \/ Missing(f) = {} /\ \A d \in Data : shown[f][d] = found[f][d]
       \/ /\ Call(f, "marine") \in late /\ "marine" \in fallbacks_triggered[f]
          /\ \A d \in Data : shown[f][d] = Generic

TemperatureInv(f) ==
  /\ \A a, b \in AnswersOf(f, "temperature") : a = b
  /\ \A a \in AnswersOf(f, "temperature") :
       \/ a = "live" /\ Credit("live", "temperature") \in sources_used[f]
       \/ a = Located /\ "temperature" \in fallbacks_triggered[f]
  /\ \A c \in sources_used[f] : c.datum = "temperature" =>
       c.source = "live" /\ "live" \in AnswersOf(f, "temperature")
  /\ step[f] > 2 =>
       \/ shown[f]["temperature"] \in AnswersOf(f, "temperature")
       \/ /\ Temperature(f) \in late /\ "temperature" \in fallbacks_triggered[f]
          /\ shown[f]["temperature"] = Generic

(* The other sources, each at its turn; the predictions of the currents are *)
(* credited when the turn is the observation's.                             *)
IsTaken(f, s) == \E i \in DOMAIN Answers(f) : Answers(f)[i] = s /\ i < step[f]

Credited(f, s) == \E c \in sources_used[f] : c.datum = s

OtherInv(f) ==
  /\ \A c \in sources_used[f] :
       \/ c.datum \in Data \union {"temperature"}
       \/ c.datum \in Range(Order) /\ c.source = c.datum
  /\ \A s \in Range(Order) : IsTaken(f, s) => shown[f][s] \in {s, Nothing}
  /\ \A s \in Range(Order) \ {"currents"} : Credited(f, s) => IsTaken(f, s) /\ shown[f][s] = s
  /\ \A s \in Range(Order) \ {"currents"} :
       IsTaken(f, s) /\ shown[f][s] = s => Credit(s, s) \in sources_used[f]
  /\ Credited(f, "currents") =>
       /\ IsTaken(f, "observation")
       /\ shown[f]["currents"] = "currents" \/ shown[f]["observation"] = "observation"
  /\ IsTaken(f, "observation") /\ shown[f]["currents"] = "currents" =>
       Credit("currents", "currents") \in sources_used[f]

(* CreditsMatchTheForecast, of one forecast and what is named in it.        *)
From(d) == IF d \in Data THEN "marine" ELSE d

MatchesWith(f, credits, notes) ==
  /\ \A d \in DOMAIN shown[f] :
       /\ shown[f][d] \notin Averages \union {Nothing} => Credit(shown[f][d], d) \in credits
       /\ shown[f][d] \in Averages => {d, From(d)} \intersect notes # {}
  /\ \A c \in credits :
       \/ shown[f][c.datum] = c.source
       \/ Call(f, From(c.datum)) \in late
       \/ c.datum = "currents" /\ shown[f]["observation"] = "observation"

Matches(f) ==
  step[f] = Finished(f) => MatchesWith(f, published[f].credits, published[f].notes)

ForecastInv(f) == MarineInv(f) /\ TemperatureInv(f) /\ OtherInv(f) /\ Matches(f)

Shapes ==
  /\ queue \in Seq(Calls)
  /\ step \in [Forecasts -> Nat]
  /\ DOMAIN found = Forecasts /\ tried \in [Forecasts -> Nat] /\ DOMAIN answers = Forecasts
  /\ DOMAIN shown = Forecasts /\ DOMAIN sources_used = Forecasts
  /\ DOMAIN fallbacks_triggered = Forecasts /\ DOMAIN published = Forecasts
  /\ \A f \in Forecasts : DOMAIN shown[f] = Data \union (Range(Answers(f)) \ {"marine"})

(* What the other sources answer. *)
PlainAnswers(f) == \A s \in Range(Order) : AnswersOf(f, s) \subseteq {"data", Nothing}

GenerationInv ==
  /\ Shapes
  /\ \A f \in Forecasts : AskedOnce(f) /\ PlainAnswers(f) /\ ForecastInv(f)

LEMMA GenerationInvInit == GenerationInit => GenerationInv
<1> SUFFICES ASSUME GenerationInit PROVE GenerationInv
  OBVIOUS
<1>1. Shapes
  BY DEF GenerationInit, Shapes
<1>2. ASSUME NEW f \in Forecasts
      PROVE  /\ step[f] = 0 /\ queue = <<>> /\ running = {} /\ answers[f] = {}
             /\ sources_used[f] = {} /\ fallbacks_triggered[f] = {}
             /\ \A d \in Data : found[f][d] = None
  BY DEF GenerationInit
<1>3. None \notin DOMAIN Reports
  BY GenerationAssumption
<1>4. None # Located
  BY DEF None, Located
<1>5. \A f \in Forecasts : Finished(f) # 0
  BY AnswersAre DEF Finished, Collected
<1>6. ASSUME NEW f \in Forecasts PROVE AskedOnce(f) /\ PlainAnswers(f) /\ ForecastInv(f)
  <2>1. \A s : AnswersOf(f, s) = {}
    BY <1>2 DEF AnswersOf
  <2>2. AskedOnce(f)
    BY <1>2, <2>1 DEF AskedOnce
  <2>3. MarineInv(f)
    BY <1>2, <1>3, <1>4, <2>1 DEF MarineInv
  <2>4. TemperatureInv(f)
    BY <1>2, <2>1 DEF TemperatureInv
  <2>5. \A s : ~IsTaken(f, s) /\ ~Credited(f, s)
    BY <1>2, AnswersAre DEF IsTaken, Credited
  <2>6. OtherInv(f)
    BY <1>2, <2>5 DEF OtherInv
  <2>7. Matches(f)
    BY <1>2, <1>5 DEF Matches
  <2> QED
    BY <2>1, <2>2, <2>3, <2>4, <2>6, <2>7 DEF ForecastInv, PlainAnswers
<1> QED
  BY <1>1, <1>6 DEF GenerationInv

-----------------------------------------------------------------------------
(* Nothing of a forecast changes, but that other calls of it are late.      *)
Untouched(f) ==
  /\ step'[f] = step[f] /\ found'[f] = found[f] /\ shown'[f] = shown[f]
  /\ sources_used'[f] = sources_used[f] /\ fallbacks_triggered'[f] = fallbacks_triggered[f]
  /\ published'[f] = published[f]
  /\ late \subseteq late'

SameAnswers(f, s) == AnswersOf(f, s)' = AnswersOf(f, s)

(* What one more answer makes of the answers.                               *)
LEMMA AnswersGrow ==
  ASSUME NEW f, NEW r, NEW a, answers'[f] = answers[f] \union {<<r, a>>}
  PROVE  /\ AnswersOf(f, r)' = AnswersOf(f, r) \union {a}
         /\ \A s : s # r => SameAnswers(f, s)
<1>1. PICK p : p = <<r, a>>
  OBVIOUS
<1>2. p[1] = r /\ p[2] = a
  BY <1>1
<1>3. ASSUME NEW s, NEW x
      PROVE  /\ x \in AnswersOf(f, s) <=> \E y \in answers[f] : y[1] = s /\ y[2] = x
             /\ x \in AnswersOf(f, s)' <=> \E y \in answers'[f] : y[1] = s /\ y[2] = x
  BY DEF AnswersOf
<1>4. \A y : y \in answers'[f] <=> y \in answers[f] \/ y = p
  BY <1>1
<1>5. ASSUME NEW s, NEW x
      PROVE  x \in AnswersOf(f, s)' <=> x \in AnswersOf(f, s) \/ (s = r /\ x = a)
  BY <1>2, <1>3, <1>4
<1>6. \A x : x \in AnswersOf(f, r)' <=> x \in AnswersOf(f, r) \union {a}
  BY <1>5
<1>7. \A s : s # r => \A x : x \in AnswersOf(f, s)' <=> x \in AnswersOf(f, s)
  BY <1>5
<1>8. AnswersOf(f, r)' = AnswersOf(f, r) \union {a}
  BY <1>6, Zenon
<1>9. ASSUME NEW s, s # r PROVE AnswersOf(f, s)' = AnswersOf(f, s)
  <2>1. \A x : x \in AnswersOf(f, s)' <=> x \in AnswersOf(f, s)
    BY <1>7, <1>9
  <2> QED
    BY <2>1, Zenon
<1> QED
  BY <1>8, <1>9 DEF SameAnswers

LEMMA SameMarine ==
  ASSUME NEW f, MarineInv(f), Untouched(f), SameAnswers(f, "marine")
  PROVE  MarineInv(f)'
BY DEF MarineInv, Untouched, SameAnswers, Missing

LEMMA SameTemperature ==
  ASSUME NEW f, TemperatureInv(f), Untouched(f), SameAnswers(f, "temperature")
  PROVE  TemperatureInv(f)'
BY DEF TemperatureInv, Untouched, SameAnswers

LEMMA SameOther ==
  ASSUME NEW f, OtherInv(f), Untouched(f)
  PROVE  OtherInv(f)'
<1>1. \A s : IsTaken(f, s)' = IsTaken(f, s) /\ Credited(f, s)' = Credited(f, s)
  BY DEF Untouched, IsTaken, Credited
<1> QED
  BY <1>1 DEF OtherInv, Untouched

LEMMA SameMatches ==
  ASSUME NEW f, Matches(f), step'[f] = step[f], shown'[f] = shown[f],
         published'[f] = published[f], late \subseteq late'
  PROVE  Matches(f)'
<1>1. MatchesWith(f, published[f].credits, published[f].notes) =>
        MatchesWith(f, published[f].credits, published[f].notes)'
  BY DEF MatchesWith
<1>2. UNCHANGED Finished(f)
  BY DEF Finished, Collected, Answers
<1> QED
  BY <1>1, <1>2 DEF Matches

LEMMA SameForecast ==
  ASSUME NEW f, ForecastInv(f), Untouched(f), answers'[f] = answers[f]
  PROVE  ForecastInv(f)'
<1>1. \A s : SameAnswers(f, s)
  BY DEF SameAnswers, AnswersOf
<1> QED
  BY <1>1, SameMarine, SameTemperature, SameOther, SameMatches DEF ForecastInv, Untouched

-----------------------------------------------------------------------------
(* The queue of the pool                                                    *)

LEMMA CallsAre ==
  /\ \A c \in Calls : c.for \in Forecasts /\ c = Call(c.for, c.of)
  /\ \A f \in Forecasts : \A i \in DOMAIN Answers(f) : Call(f, Answers(f)[i]) \in Calls
  /\ \A f \in Forecasts : \A i \in Images : Call(f, i) \in Calls
BY DEF Calls, Call, Range

LEMMA SameCalls ==
  ASSUME NEW f, NEW g, NEW r, NEW s
  PROVE  /\ Call(f, r) = Call(g, s) <=> f = g /\ r = s
         /\ Call(f, r).for = f /\ Call(f, r).of = r
BY DEF Call

(* The calls at the end of a longer queue.                                  *)
LEMMA Joins ==
  ASSUME NEW S, NEW q \in Seq(S), NEW r \in Seq(S)
  PROVE  /\ q \o r \in Seq(S)
         /\ Len(q) \in Nat /\ Len(r) \in Nat
         /\ DOMAIN q = 1..Len(q) /\ DOMAIN r = 1..Len(r)
         /\ DOMAIN (q \o r) = 1..(Len(q) + Len(r))
         /\ \A i \in DOMAIN q : (q \o r)[i] = q[i]
         /\ \A i \in DOMAIN (q \o r) :
              i \in DOMAIN q \/ (i - Len(q) \in DOMAIN r /\ (q \o r)[i] = r[i - Len(q)])
OBVIOUS

LEMMA ImagesInOrder ==
  ASSUME NEW f \in Forecasts
  PROVE  /\ SetToSeq(ImagesOf(f)) \in Seq(Calls)
         /\ \A i \in DOMAIN SetToSeq(ImagesOf(f)) : SetToSeq(ImagesOf(f))[i] \in ImagesOf(f)
<1> DEFINE S == ImagesOf(f)
           n == Cardinality(S)
<1>1. IsFiniteSet(S)
  <2>1. IsFiniteSet(Images)
    BY GenerationAssumption
  <2>2. IsFiniteSet({Call(f, i) : i \in Images})
    <3> DEFINE b == [i \in Images |-> Call(f, i)]
    <3>1. b \in Surjection(Images, {Call(f, i) : i \in Images})
      BY DEF Surjection
    <3> QED
      BY <2>1, <3>1, FS_Surjection
  <2> QED
    BY <2>2 DEF ImagesOf
<1>2. n \in Nat /\ ExistsBijection(1..n, S)
  BY <1>1, FS_CardinalityType
<1>3. PICK b : b \in Bijection(1..n, S)
  BY <1>2 DEF ExistsBijection
<1>4. b \in [1..n -> S] /\ IsInjective(b)
  BY <1>3, Zenon DEF Bijection, Injection
<1>5. SetToSeq(S) \in [1..n -> S]
  BY <1>3, <1>4 DEF SetToSeq
<1>6. S \subseteq Calls
  BY CallsAre DEF ImagesOf
<1> HIDE DEF S, n
<1> QED
  BY <1>2, <1>5, <1>6 DEF S

LEMMA SubmittedAre ==
  ASSUME NEW f \in Forecasts
  PROVE  /\ Submitted(f) \in Seq(Calls)
         /\ DOMAIN Submitted(f) = DOMAIN Answers(f)
         /\ \A i \in DOMAIN Submitted(f) : Submitted(f)[i] = Call(f, Answers(f)[i])
BY CallsAre, AnswersAre DEF Submitted

(* A queue that grows by calls for g, the temperature at most once.         *)
LEMMA Queued ==
  ASSUME GenerationInv, NEW g \in Forecasts, NEW r \in Seq(Calls), queue' = queue \o r,
         \A i \in DOMAIN r : r[i].for = g,
         \A i, j \in DOMAIN r : r[i] = Temperature(g) /\ r[j] = Temperature(g) => i = j,
         \A i \in DOMAIN r : r[i] = Temperature(g) => step[g] = 0,
         step' = [step EXCEPT ![g] = @ + 1], UNCHANGED <<running, answers>>,
         NEW f \in Forecasts
  PROVE  AskedOnce(f)'
<1>1. /\ AskedOnce(f) /\ queue \in Seq(Calls) /\ step[f] \in Nat
      /\ step'[f] # 0 => f = g \/ step[f] # 0
      /\ step'[f] = 0 => step[f] = 0
      /\ step[f] # 0 => step'[f] # 0
      /\ f = g => step'[f] # 0
  BY DEF GenerationInv, Shapes
<1>2. /\ DOMAIN queue = 1..Len(queue) /\ Len(queue) \in Nat
      /\ \A i \in DOMAIN queue : queue'[i] = queue[i]
      /\ \A i \in DOMAIN queue' :
           i \in DOMAIN queue \/ (i - Len(queue) \in DOMAIN r /\ queue'[i] = r[i - Len(queue)])
      /\ DOMAIN queue' \subseteq Nat
  BY <1>1, Joins
<1>3. AnswersOf(f, "temperature")' = AnswersOf(f, "temperature")
  BY DEF AnswersOf
<1>4. ASSUME NEW i \in DOMAIN queue', queue'[i] = Temperature(f), i \notin DOMAIN queue
      PROVE  f = g /\ step[g] = 0 /\ i - Len(queue) \in DOMAIN r /\ r[i - Len(queue)] = Temperature(g)
  <2>1. i - Len(queue) \in DOMAIN r /\ r[i - Len(queue)] = Temperature(f)
    BY <1>2, <1>4
  <2>2. f = g
    BY <2>1, SameCalls DEF Temperature
  <2> QED
    BY <2>1, <2>2
<1>5. ASSUME NEW i \in DOMAIN queue', queue'[i] = Temperature(f),
             NEW j \in DOMAIN queue', queue'[j] = Temperature(f)
      PROVE  i = j
  <2>1. CASE i \in DOMAIN queue /\ j \in DOMAIN queue
    BY <1>1, <1>2, <1>5, <2>1 DEF AskedOnce
  <2>2. CASE i \notin DOMAIN queue /\ j \notin DOMAIN queue
    <3>1. i - Len(queue) = j - Len(queue)
      BY <1>4, <1>5, <2>2
    <3> QED
      BY <1>2, <3>1
  <2>3. CASE i \in DOMAIN queue /\ j \notin DOMAIN queue
    BY <1>1, <1>2, <1>4, <1>5, <2>3 DEF AskedOnce
  <2>4. CASE i \notin DOMAIN queue /\ j \in DOMAIN queue
    BY <1>1, <1>2, <1>4, <1>5, <2>4 DEF AskedOnce
  <2> QED
    BY <2>1, <2>2, <2>3, <2>4
<1>6. ASSUME NEW i \in DOMAIN queue', queue'[i] = Temperature(f)
      PROVE  Temperature(f) \notin running /\ AnswersOf(f, "temperature") = {} /\ step'[f] # 0
  <2>1. CASE i \in DOMAIN queue
    BY <1>1, <1>2, <1>6, <2>1 DEF AskedOnce
  <2>2. CASE i \notin DOMAIN queue
    BY <1>1, <1>4, <1>6, <2>2 DEF AskedOnce
  <2> QED
    BY <2>1, <2>2
<1>7. UNCHANGED Temperature(f)
  BY DEF Temperature, Call
<1> QED
  BY <1>1, <1>3, <1>5, <1>6, <1>7 DEF AskedOnce

(* The head of the queue is what a thread is at next.                       *)
LEMMA TakenOnce ==
  ASSUME GenerationInv, TakeCall, NEW f \in Forecasts
  PROVE  AskedOnce(f)' /\ queue' \in Seq(Calls)
<1>1. AskedOnce(f) /\ queue \in Seq(Calls) /\ queue # <<>>
  BY DEF GenerationInv, Shapes, TakeCall
<1>2. /\ queue' = Tail(queue) /\ running' = running \union {Head(queue)}
      /\ UNCHANGED <<step, answers>>
  BY DEF TakeCall
<1>3. /\ Head(queue) = queue[1] /\ 1 \in DOMAIN queue /\ queue' \in Seq(Calls)
      /\ \A i \in DOMAIN queue' : i + 1 \in DOMAIN queue /\ queue'[i] = queue[i + 1]
      /\ DOMAIN queue' \subseteq Nat \ {0}
  BY <1>1, <1>2
<1>4. AnswersOf(f, "temperature")' = AnswersOf(f, "temperature")
  BY <1>2 DEF AnswersOf
<1>5. \A i, j \in DOMAIN queue' :
        queue'[i] = Temperature(f) /\ queue'[j] = Temperature(f) => i = j
  <2> SUFFICES ASSUME NEW i \in DOMAIN queue', NEW j \in DOMAIN queue',
                      queue'[i] = Temperature(f), queue'[j] = Temperature(f)
               PROVE  i = j
    OBVIOUS
  <2>1. i + 1 = j + 1
    BY <1>1, <1>3 DEF AskedOnce
  <2> QED
    BY <1>3, <2>1
<1>6. ASSUME NEW i \in DOMAIN queue', queue'[i] = Temperature(f) PROVE Temperature(f) \notin running'
  <2>1. i + 1 # 1 /\ i + 1 \in DOMAIN queue /\ queue[i + 1] = Temperature(f)
    BY <1>3, <1>6
  <2> QED
    BY <1>1, <1>2, <1>3, <2>1 DEF AskedOnce
<1>7. UNCHANGED Temperature(f)
  BY DEF Temperature, Call
<1> QED
  BY <1>1, <1>2, <1>3, <1>4, <1>5, <1>6, <1>7 DEF AskedOnce

(* A call that ends leaves its thread, with one more answer.                *)
LEMMA EndedOnce ==
  ASSUME GenerationInv, NEW c \in Calls, NEW a, Ended(c, a), UNCHANGED <<queue, step>>,
         NEW f \in Forecasts
  PROVE  AskedOnce(f)'
<1>1. AskedOnce(f) /\ c \in running /\ running' = running \ {c}
  BY DEF GenerationInv, Ended
<1>2. UNCHANGED Temperature(f)
  BY DEF Temperature, Call
<1>3. CASE c # Temperature(f)
  <2>1. AnswersOf(f, "temperature")' = AnswersOf(f, "temperature")
    <3>1. CASE f # c.for
      BY <3>1 DEF Ended, AnswersOf, GenerationInv, Shapes
    <3>2. CASE f = c.for
      <4>1. c.of # "temperature"
        BY <1>3, <3>2, CallsAre DEF Temperature
      <4>2. answers'[f] = answers[f] \union {<<c.of, a>>}
        BY <3>2 DEF Ended, GenerationInv, Shapes
      <4> QED
        BY ZenonT(30), <4>1, <4>2, AnswersGrow DEF SameAnswers
    <3> QED
      BY <3>1, <3>2
  <2> QED
    BY <1>1, <1>2, <1>3, <2>1 DEF AskedOnce
<1>4. CASE c = Temperature(f)
  <2>1. step[f] # 0 /\ \A i \in DOMAIN queue : queue[i] # Temperature(f)
    BY <1>1, <1>4 DEF AskedOnce
  <2> QED
    BY <1>1, <1>2, <1>4, <2>1 DEF AskedOnce
<1> QED
  BY <1>3, <1>4

-----------------------------------------------------------------------------
(* One action at a time                                                     *)

LEMMA OthersKeep ==
  ASSUME GenerationInv, NEW g \in Forecasts, NEW f \in Forecasts, f # g,
         Untouched(f), answers'[f] = answers[f]
  PROVE  ForecastInv(f)'
BY SameForecast DEF GenerationInv

(* What is credited of r is credited still, and nothing else. *)
LEMMA CreditedGrows ==
  ASSUME NEW f, NEW C, sources_used'[f] = sources_used[f] \union C
  PROVE  \A r : Credited(f, r)' <=> Credited(f, r) \/ \E c \in C : c.datum = r
BY DEF Credited

LEMMA StartKeeps ==
  ASSUME GenerationInv, NEW g \in Forecasts, Start(g), NEW f \in Forecasts
  PROVE  ForecastInv(f)'
<1>1. /\ UNCHANGED <<found, answers, late, shown, sources_used, fallbacks_triggered, published>>
      /\ step[g] = 0 /\ step'[g] = 1 /\ (f # g => step'[f] = step[f])
  BY DEF Start, GenerationInv, Shapes
<1>2. CASE f # g
  BY <1>1, <1>2, OthersKeep DEF Untouched
<1>3. CASE f = g
  <2>1. MarineInv(f) /\ TemperatureInv(f) /\ OtherInv(f)
    BY DEF GenerationInv, ForecastInv
  <2>2. \A r : AnswersOf(f, r)' = AnswersOf(f, r)
    BY <1>1 DEF AnswersOf
  <2>3. \A r : ~IsTaken(f, r) /\ ~IsTaken(f, r)' /\ Credited(f, r)' = Credited(f, r)
    <3>1. \A i \in DOMAIN Answers(f) : ~(i < 1) /\ ~(i < 0)
      BY AnswersAre
    <3>2. UNCHANGED Answers(f)
      BY DEF Answers
    <3> QED
      BY <1>1, <1>3, <3>1, <3>2 DEF IsTaken, Credited
  <2>4. MarineInv(f)'
    BY <1>1, <1>3, <2>1, <2>2 DEF MarineInv, Missing
  <2>5. TemperatureInv(f)'
    BY <1>1, <1>3, <2>1, <2>2 DEF TemperatureInv
  <2>6. OtherInv(f)'
    BY <1>1, <1>3, <2>1, <2>3 DEF OtherInv
  <2>7. Matches(f)'
    BY <1>1, <1>3, AnswersAre DEF Matches, Finished, Collected
  <2> QED
    BY <2>4, <2>5, <2>6, <2>7 DEF ForecastInv
<1> QED
  BY <1>2, <1>3

LEMMA EndOtherKeeps ==
  ASSUME GenerationInv, NEW c \in Calls, EndOther(c), NEW f \in Forecasts
  PROVE  ForecastInv(f)'
<1>1. Untouched(f)
  BY DEF EndOther, Untouched
<1>2. PICK a : Ended(c, a)
  BY DEF EndOther
<1>3. CASE f # c.for
  BY <1>1, <1>2, <1>3, CallsAre, OthersKeep DEF Ended, GenerationInv, Shapes
<1>4. CASE f = c.for
  <2>1. answers'[f] = answers[f] \union {<<c.of, a>>}
    BY <1>2, <1>4 DEF Ended, GenerationInv, Shapes
  <2>2. SameAnswers(f, "marine") /\ SameAnswers(f, "temperature")
    <3>1. \A r : r # c.of => SameAnswers(f, r)
      BY <2>1, AnswersGrow, Zenon
    <3> QED
      BY <3>1 DEF EndOther
  <2> QED
    BY <1>1, <2>2, SameMarine, SameTemperature, SameOther, SameMatches
    DEF ForecastInv, GenerationInv, Untouched
<1> QED
  BY <1>3, <1>4

LEMMA EndTemperatureKeeps ==
  ASSUME GenerationInv, NEW c \in Calls, EndTemperature(c), NEW f \in Forecasts
  PROVE  ForecastInv(f)'
<1>1. /\ UNCHANGED <<step, found, late, shown, published>>
      /\ c.of = "temperature" /\ c.for \in Forecasts
      /\ f # c.for => sources_used'[f] = sources_used[f] /\ fallbacks_triggered'[f] = fallbacks_triggered[f]
  BY CallsAre DEF EndTemperature, GenerationInv, Shapes
<1>2. CASE f # c.for
  BY <1>1, <1>2, OthersKeep DEF Ended, GenerationInv, Shapes, Untouched, EndTemperature
<1>3. CASE f = c.for
  <2>1. c = Temperature(f) /\ c \in running
    BY <1>1, <1>3, CallsAre DEF Temperature, EndTemperature, Ended
  <2>2. /\ AnswersOf(f, "temperature") = {}
        /\ MarineInv(f) /\ TemperatureInv(f) /\ OtherInv(f) /\ Matches(f)
    BY <2>1 DEF GenerationInv, AskedOnce, ForecastInv
  <2>3. PICK k : k = Credit("live", "temperature")
    OBVIOUS
  <2>4. k.datum = "temperature" /\ k.source = "live"
    BY <2>3 DEF Credit
  <2>5. PICK a, C, N :
          /\ answers'[f] = answers[f] \union {<<"temperature", a>>}
          /\ sources_used'[f] = sources_used[f] \union C
          /\ fallbacks_triggered'[f] = fallbacks_triggered[f] \union N
          /\ C \subseteq {k}
          /\ \/ a = "live" /\ C = {k}
             \/ a = Located /\ N = {"temperature"} /\ C = {}
    <3>1. CASE Ended(c, "live") /\ sources_used' = [sources_used EXCEPT ![c.for] = @ \union {k}]
               /\ UNCHANGED fallbacks_triggered
      <4>1. /\ answers'[f] = answers[f] \union {<<"temperature", "live">>}
            /\ sources_used'[f] = sources_used[f] \union {k}
            /\ fallbacks_triggered'[f] = fallbacks_triggered[f] \union {}
        BY <1>1, <1>3, <3>1 DEF Ended, GenerationInv, Shapes
      <4> QED
        BY <4>1
    <3>2. CASE /\ Ended(c, Located) /\ UNCHANGED sources_used
               /\ fallbacks_triggered' = [fallbacks_triggered EXCEPT ![c.for] = @ \union {"temperature"}]
      <4>1. /\ answers'[f] = answers[f] \union {<<"temperature", Located>>}
            /\ sources_used'[f] = sources_used[f] \union {}
            /\ fallbacks_triggered'[f] = fallbacks_triggered[f] \union {"temperature"}
        BY <1>1, <1>3, <3>2 DEF Ended, GenerationInv, Shapes
      <4> QED
        BY <4>1
    <3> QED
      BY <2>3, <3>1, <3>2 DEF EndTemperature
  <2>6. AnswersOf(f, "temperature")' = {a} /\ AnswersOf(f, "marine")' = AnswersOf(f, "marine")
    <3>1. /\ AnswersOf(f, "temperature")' = AnswersOf(f, "temperature") \union {a}
          /\ \A r : r # "temperature" => SameAnswers(f, r)
      BY <2>5, AnswersGrow, Zenon
    <3>2. SameAnswers(f, "marine")
      BY <3>1
    <3> QED
      BY <2>2, <3>1, <3>2 DEF SameAnswers
  <2>7. MarineInv(f)'
    BY <1>1, <2>2, <2>4, <2>5, <2>6 DEF MarineInv, Missing, Data
  <2>8. TemperatureInv(f)'
    BY <1>1, <2>2, <2>3, <2>4, <2>5, <2>6 DEF TemperatureInv
  <2>9. OtherInv(f)'
    <3>1. \A r \in Range(Order) : Credited(f, r)' = Credited(f, r)
      <4>1. "temperature" \notin Range(Order)
        BY Places
      <4>2. \A x \in C : x.datum \notin Range(Order)
        BY <2>4, <2>5, <4>1
      <4> QED
        BY <2>5, <4>2 DEF Credited
    <3>2. \A r : IsTaken(f, r)' = IsTaken(f, r)
      BY <1>1 DEF IsTaken
    <3> QED
      BY <1>1, <2>2, <2>4, <2>5, <3>1, <3>2, Places DEF OtherInv
  <2>10. Matches(f)'
    BY <1>1, <2>2, SameMatches
  <2> QED
    BY <2>7, <2>8, <2>9, <2>10 DEF ForecastInv
<1> QED
  BY <1>2, <1>3

LEMMA NamesDiffer ==
  /\ None # Located /\ Located # Generic /\ None # Generic /\ None # Nothing /\ Nothing # "data"
  /\ \A s \in DOMAIN Reports : s \notin {None, Located, Generic, Nothing}
BY GenerationAssumption DEF None, Located, Generic, Nothing, Averages

LEMMA TrySourceKeeps ==
  ASSUME GenerationInv, NEW c \in Calls, TrySource(c), NEW f \in Forecasts
  PROVE  ForecastInv(f)'
<1>1. /\ UNCHANGED <<step, answers, late, shown, published, fallbacks_triggered>>
      /\ c.for \in Forecasts
      /\ f # c.for => sources_used'[f] = sources_used[f] /\ found'[f] = found[f]
  BY CallsAre DEF TrySource, GenerationInv, Shapes
<1>2. CASE f # c.for
  BY <1>1, <1>2, OthersKeep DEF Untouched
<1>3. CASE f = c.for
  <2>1. MarineInv(f) /\ TemperatureInv(f) /\ OtherInv(f) /\ Matches(f)
    BY DEF GenerationInv, ForecastInv
  <2>2. PICK s, R :
          /\ s \in DOMAIN Reports /\ R \subseteq Missing(f) /\ Missing(f) # {}
          /\ found'[f] = [d \in Data |-> IF d \in R THEN s ELSE found[f][d]]
          /\ sources_used'[f] = sources_used[f] \union {Credit(s, d) : d \in R}
    <3>1. PICK s : s = Marine[f][tried[f] + 1]
      OBVIOUS
    <3> DEFINE next == Marine[c.for][tried[c.for] + 1]
    <3>2. PICK reported \in SUBSET Reports[next] :
            /\ found' = [found EXCEPT ![c.for] =
                 [d \in Data |-> IF d \in Missing(c.for) \intersect reported THEN next ELSE found[c.for][d]]]
            /\ sources_used' = [sources_used EXCEPT ![c.for] =
                 @ \union {Credit(next, d) : d \in Missing(c.for) \intersect reported}]
      BY Zenon DEF TrySource
    <3>3. s \in DOMAIN Reports
      <4>1. tried[f] \in Nat /\ tried[f] < Len(Marine[f]) /\ Marine[f] \in Seq(DOMAIN Reports)
        BY <1>3, GenerationAssumption DEF TrySource, GenerationInv, Shapes
      <4> QED
        BY <3>1, <4>1
    <3>4. PICK R : R = Missing(f) \intersect reported
      OBVIOUS
    <3>5. /\ found'[f] = [d \in Data |-> IF d \in R THEN s ELSE found[f][d]]
          /\ sources_used'[f] = sources_used[f] \union {Credit(s, d) : d \in R}
      BY ZenonT(30), <1>3, <3>1, <3>2, <3>4 DEF GenerationInv, Shapes
    <3>6. R \subseteq Missing(f) /\ Missing(f) # {}
      BY <1>3, <3>4 DEF TrySource
    <3> QED
      BY <3>3, <3>5, <3>6
  <2>3. \A d \in Data : d \in R => found[f][d] = None
    BY <2>2 DEF Missing
  <2>4. \A k \in sources_used'[f] : k \in sources_used[f] \/ (k.datum \in R /\ k.source = s)
    BY <2>2 DEF Credit
  <2>5. \A d \in R : Credit(s, d) \in sources_used'[f]
    BY <2>2
  <2>6. R \subseteq Data
    BY <2>2 DEF Missing
  <2>7. \A r : AnswersOf(f, r)' = AnswersOf(f, r)
    BY <1>1 DEF AnswersOf
  <2>8. MarineInv(f)'
    <3>1. /\ \A d \in Data : found'[f][d] = IF d \in R THEN s ELSE found[f][d]
          /\ sources_used[f] \subseteq sources_used'[f]
      BY <2>2
    <3>2. AnswersOf(f, "marine") = {}
      BY <2>1, <2>2 DEF MarineInv
    <3>3. \A k \in sources_used'[f] : k.datum \in Data =>
            found'[f][k.datum] = k.source /\ k.source \in DOMAIN Reports
      BY <2>1, <2>2, <2>3, <2>4, <3>1, NamesDiffer DEF MarineInv
    <3>4. /\ \A d \in Data : found'[f][d] \in DOMAIN Reports \union {None, Located}
          /\ \A d \in Data : found'[f][d] \in DOMAIN Reports => Credit(found'[f][d], d) \in sources_used'[f]
          /\ \A d \in Data : found'[f][d] = Located => d \in fallbacks_triggered'[f]
      BY <1>1, <2>1, <2>2, <2>5, <3>1, NamesDiffer DEF MarineInv
    <3> QED
      BY <1>1, <2>1, <2>2, <2>7, <3>2, <3>3, <3>4 DEF MarineInv
  <2>9. TemperatureInv(f)'
    BY <1>1, <2>1, <2>2, <2>4, <2>6, <2>7 DEF TemperatureInv, Data
  <2>10. OtherInv(f)'
    <3>1. \A r \in Range(Order) : Credited(f, r)' = Credited(f, r)
      BY <2>2, <2>4, <2>6, Places DEF Credited
    <3>2. \A r : IsTaken(f, r)' = IsTaken(f, r)
      BY <1>1 DEF IsTaken
    <3> QED
      BY <1>1, <2>1, <2>2, <2>4, <2>6, <3>1, <3>2, Places DEF OtherInv
  <2>11. Matches(f)'
    BY <1>1, <2>1, SameMatches
  <2> QED
    BY <2>8, <2>9, <2>10, <2>11 DEF ForecastInv
<1> QED
  BY <1>2, <1>3

LEMMA EndMarineKeeps ==
  ASSUME GenerationInv, NEW c \in Calls, EndMarine(c), NEW f \in Forecasts
  PROVE  ForecastInv(f)'
<1>1. /\ UNCHANGED <<step, late, shown, published, sources_used>>
      /\ c.for \in Forecasts /\ c.of = "marine" /\ Ended(c, "data")
      /\ f # c.for => fallbacks_triggered'[f] = fallbacks_triggered[f] /\ found'[f] = found[f]
  BY CallsAre DEF EndMarine, GenerationInv, Shapes
<1>2. CASE f # c.for
  BY <1>1, <1>2, OthersKeep DEF Untouched, Ended, GenerationInv, Shapes
<1>3. CASE f = c.for
  <2>1. MarineInv(f) /\ TemperatureInv(f) /\ OtherInv(f) /\ Matches(f)
    BY DEF GenerationInv, ForecastInv
  <2>2. /\ found'[f] = [d \in Data |-> IF d \in Missing(f) THEN Located ELSE found[f][d]]
        /\ fallbacks_triggered'[f] = fallbacks_triggered[f] \union Missing(f)
        /\ answers'[f] = answers[f] \union {<<"marine", "data">>}
    BY <1>1, <1>3 DEF EndMarine, NotesOf, Ended, GenerationInv, Shapes
  <2>3. SameAnswers(f, "temperature") /\ AnswersOf(f, "marine")' = AnswersOf(f, "marine") \union {"data"}
    <3>1. /\ AnswersOf(f, "marine")' = AnswersOf(f, "marine") \union {"data"}
          /\ \A r : r # "marine" => SameAnswers(f, r)
      BY <2>2, AnswersGrow, Zenon
    <3> QED
      BY <3>1
  <2>4. /\ \A d \in Data : (d \in Missing(f)) <=> (found[f][d] = None)
        /\ \A d \in Data : d \in Missing(f) => found'[f][d] = Located
        /\ \A d \in Data : d \notin Missing(f) => found'[f][d] = found[f][d]
    BY <2>2 DEF Missing
  <2>5. Missing(f)' = {}
    <3>1. \A d \in Data : found'[f][d] # None
      BY <2>4 DEF None, Located
    <3> QED
      BY <3>1 DEF Missing
  <2>6. MarineInv(f)'
    <3>1. /\ \A d \in Data : found'[f][d] \in DOMAIN Reports \union {None, Located}
          /\ \A d \in Data : found'[f][d] \in DOMAIN Reports => Credit(found'[f][d], d) \in sources_used'[f]
          /\ \A d \in Data : found'[f][d] = Located => d \in fallbacks_triggered'[f]
      BY <1>1, <2>1, <2>2, <2>4, NamesDiffer DEF MarineInv
    <3>2. \A k \in sources_used'[f] : k.datum \in Data =>
            found'[f][k.datum] = k.source /\ k.source \in DOMAIN Reports
      <4> SUFFICES ASSUME NEW k \in sources_used[f], k.datum \in Data
                   PROVE  found'[f][k.datum] = k.source /\ k.source \in DOMAIN Reports
        BY <1>1
      <4>1. found[f][k.datum] = k.source /\ k.source \in DOMAIN Reports
        BY <2>1 DEF MarineInv
      <4>2. found[f][k.datum] # None
        BY <4>1, NamesDiffer
      <4> QED
        BY <2>4, <4>1, <4>2
    <3>3. Missing(f) = {} => \A d \in Data : found'[f][d] = found[f][d]
      BY <2>4
    <3>4. "marine" \in fallbacks_triggered[f] => "marine" \in fallbacks_triggered'[f]
      BY <2>2
    <3> QED
      BY <1>1, <2>1, <2>5, <3>1, <3>2, <3>3, <3>4 DEF MarineInv
  <2>7. TemperatureInv(f)'
    BY <1>1, <2>1, <2>2, <2>3 DEF TemperatureInv, SameAnswers
  <2>8. OtherInv(f)'
    <3>1. \A r : IsTaken(f, r)' = IsTaken(f, r) /\ Credited(f, r)' = Credited(f, r)
      BY <1>1 DEF IsTaken, Credited
    <3> QED
      BY <1>1, <2>1, <3>1 DEF OtherInv
  <2>9. Matches(f)'
    BY <1>1, <2>1, SameMatches
  <2> QED
    BY <2>6, <2>7, <2>8, <2>9 DEF ForecastInv
<1> QED
  BY <1>2, <1>3

-----------------------------------------------------------------------------
(* The answers in their order                                               *)

(* A step of g alone, as far as the forecast, its credits and notes go.     *)
Turn(g) ==
  /\ UNCHANGED <<found, answers, published>>
  /\ late \subseteq late'
  /\ fallbacks_triggered[g] \subseteq fallbacks_triggered'[g]
  /\ step'[g] = step[g] + 1

TurnOf(g, f) == f # g => Untouched(f)

LEMMA TakenGrows ==
  ASSUME NEW f \in Forecasts, step[f] \in Nat, step'[f] = step[f] + 1
  PROVE  /\ \A r : IsTaken(f, r)' <=>
              IsTaken(f, r) \/ (step[f] \in DOMAIN Answers(f) /\ r = Awaited(f))
         /\ step[f] \in DOMAIN Answers(f) => ~IsTaken(f, Awaited(f))
         /\ \A r : IsTaken(f, r) => \E i \in DOMAIN Answers(f) : Answers(f)[i] = r
<1>1. UNCHANGED Answers(f)
  BY DEF Answers
<1>2. /\ DOMAIN Answers(f) \subseteq Nat
      /\ \A i, j \in DOMAIN Answers(f) : Answers(f)[i] = Answers(f)[j] => i = j
  BY AnswersAre
<1>3. \A i \in DOMAIN Answers(f) : i < step'[f] <=> (i < step[f] \/ i = step[f])
  BY <1>2
<1> QED
  BY <1>1, <1>2, <1>3 DEF IsTaken, Awaited

(* Past the last answer, all are taken and nothing changes any more. *)
LEMMA PastAll ==
  ASSUME GenerationInv, NEW f \in Forecasts, step[f] >= Collected(f),
         step'[f] = step[f] + 1,
         UNCHANGED <<found, answers, late, shown, sources_used, fallbacks_triggered>>
  PROVE  MarineInv(f)' /\ TemperatureInv(f)' /\ OtherInv(f)'
<1>1. MarineInv(f) /\ TemperatureInv(f) /\ OtherInv(f) /\ step[f] \in Nat
  BY DEF GenerationInv, ForecastInv, Shapes
<1>2. \A r : AnswersOf(f, r)' = AnswersOf(f, r)
  BY DEF AnswersOf
<1>3. step[f] > 2 /\ step'[f] > 2 /\ step[f] \notin DOMAIN Answers(f)
  BY <1>1, AnswersAre DEF Collected
<1>4. \A r : IsTaken(f, r)' <=> IsTaken(f, r)
  BY <1>1, <1>3, TakenGrows
<1>5. \A r : Credited(f, r)' = Credited(f, r)
  BY DEF Credited
<1> QED
  BY <1>1, <1>2, <1>3, <1>4, <1>5 DEF MarineInv, TemperatureInv, OtherInv, Missing

(* The forecast that has all its answers shows what it credits and notes.   *)
LEMMA AllMatch ==
  ASSUME GenerationInv, NEW f \in Forecasts, step[f] > Len(Answers(f))
  PROVE  MatchesWith(f, sources_used[f], fallbacks_triggered[f])
<1>1. /\ MarineInv(f) /\ TemperatureInv(f) /\ OtherInv(f) /\ step[f] \in Nat
      /\ DOMAIN shown[f] = Data \union (Range(Answers(f)) \ {"marine"})
  BY DEF GenerationInv, ForecastInv, Shapes
<1>2. step[f] > 1 /\ step[f] > 2
  BY <1>1, AnswersAre
<1>3. \A i \in DOMAIN Answers(f) : IsTaken(f, Answers(f)[i])
  <2> SUFFICES ASSUME NEW i \in DOMAIN Answers(f) PROVE IsTaken(f, Answers(f)[i])
    OBVIOUS
  <2>1. i < step[f]
    BY <1>1, AnswersAre
  <2> QED
    BY <2>1 DEF IsTaken
<1>4. /\ "temperature" \notin Data /\ "temperature" \notin Averages /\ "live" \notin Averages
      /\ Range(Order) \intersect Data = {}
  BY Places DEF Data, Averages, Located, Generic
<1>5. ASSUME NEW d \in Data
      PROVE  /\ shown[f][d] \notin Averages \union {Nothing} =>
                  Credit(shown[f][d], d) \in sources_used[f]
             /\ shown[f][d] \in Averages => {d, From(d)} \intersect fallbacks_triggered[f] # {}
  <2>1. From(d) = "marine"
    BY DEF From
  <2>2. CASE Missing(f) = {} /\ shown[f][d] = found[f][d]
    <3>1. found[f][d] \in DOMAIN Reports \/ found[f][d] = Located
      BY <1>1, <2>2 DEF MarineInv, Missing
    <3>2. CASE found[f][d] \in DOMAIN Reports
      BY <1>1, <2>2, <3>2, NamesDiffer DEF MarineInv, Averages
    <3>3. CASE found[f][d] = Located
      BY <1>1, <2>2, <3>3 DEF MarineInv, Averages
    <3> QED
      BY <3>1, <3>2, <3>3
  <2>3. CASE "marine" \in fallbacks_triggered[f] /\ shown[f][d] = Generic
    BY <2>1, <2>3 DEF Averages
  <2> QED
    BY <1>1, <1>2, <2>2, <2>3 DEF MarineInv
<1>6. /\ shown[f]["temperature"] \notin Averages \union {Nothing} =>
           Credit(shown[f]["temperature"], "temperature") \in sources_used[f]
      /\ shown[f]["temperature"] \in Averages =>
           {"temperature", From("temperature")} \intersect fallbacks_triggered[f] # {}
  <2>1. \/ shown[f]["temperature"] = "live" /\ Credit("live", "temperature") \in sources_used[f]
        \/ shown[f]["temperature"] = Located /\ "temperature" \in fallbacks_triggered[f]
        \/ shown[f]["temperature"] = Generic /\ "temperature" \in fallbacks_triggered[f]
    BY <1>1, <1>2 DEF TemperatureInv
  <2> QED
    BY <1>4, <2>1 DEF Averages
<1>7. ASSUME NEW s \in Range(Order), IsTaken(f, s)
      PROVE  /\ shown[f][s] \notin Averages \union {Nothing} =>
                  Credit(shown[f][s], s) \in sources_used[f]
             /\ shown[f][s] \notin Averages
  <2>1. shown[f][s] \in {s, Nothing}
    BY <1>1, <1>7 DEF OtherInv
  <2>2. Nothing \notin Averages /\ s \notin Averages
    BY <1>7, Places DEF Nothing, Averages, Located, Generic
  <2>3. CASE s # "currents"
    BY <1>1, <1>7, <2>1, <2>2, <2>3 DEF OtherInv
  <2>4. CASE s = "currents"
    <3>1. IsTaken(f, "observation")
      BY <1>3, <1>7, <2>4, AnswersAre DEF IsTaken
    <3> QED
      BY <1>1, <2>1, <2>2, <2>4, <3>1 DEF OtherInv
  <2> QED
    BY <2>3, <2>4
<1>8. \A d \in DOMAIN shown[f] :
        /\ shown[f][d] \notin Averages \union {Nothing} => Credit(shown[f][d], d) \in sources_used[f]
        /\ shown[f][d] \in Averages => {d, From(d)} \intersect fallbacks_triggered[f] # {}
  <2> SUFFICES ASSUME NEW d \in DOMAIN shown[f]
               PROVE  /\ shown[f][d] \notin Averages \union {Nothing} =>
                           Credit(shown[f][d], d) \in sources_used[f]
                      /\ shown[f][d] \in Averages => {d, From(d)} \intersect fallbacks_triggered[f] # {}
    OBVIOUS
  <2>1. d \in Data \/ d = "temperature" \/ (d \in Range(Order) /\ IsTaken(f, d))
    <3>1. CASE d \notin Data
      <4>1. PICK i \in DOMAIN Answers(f) : Answers(f)[i] = d /\ d # "marine"
        BY <1>1, <3>1 DEF Range
      <4>2. i = 1 \/ i = 2 \/ i \in 3..Len(Answers(f))
        BY AnswersAre
      <4> QED
        BY <1>3, <4>1, <4>2, AnswersAre
    <3> QED
      BY <3>1
  <2> QED
    BY <1>5, <1>6, <1>7, <2>1
<1>9. ASSUME NEW c \in sources_used[f]
      PROVE  \/ shown[f][c.datum] = c.source
             \/ Call(f, From(c.datum)) \in late
             \/ c.datum = "currents" /\ shown[f]["observation"] = "observation"
  <2>1. CASE c.datum \in Data
    BY <1>1, <1>2, <2>1 DEF MarineInv, From
  <2>2. CASE c.datum = "temperature"
    <3>1. From(c.datum) = "temperature"
      BY <1>4, <2>2 DEF From
    <3>2. c.source = "live" /\ "live" \in AnswersOf(f, "temperature")
      BY <1>1, <2>2 DEF TemperatureInv
    <3>3. \/ shown[f]["temperature"] \in AnswersOf(f, "temperature")
          \/ Temperature(f) \in late
      BY <1>1, <1>2 DEF TemperatureInv
    <3>4. shown[f]["temperature"] \in AnswersOf(f, "temperature") => shown[f]["temperature"] = "live"
      BY <1>1, <3>2 DEF TemperatureInv
    <3> QED
      BY <2>2, <3>1, <3>2, <3>3, <3>4 DEF Temperature
  <2>3. CASE c.datum \in Range(Order) /\ c.source = c.datum
    <3>1. Credited(f, c.datum)
      BY DEF Credited
    <3>2. CASE c.datum # "currents"
      BY <1>1, <2>3, <3>1, <3>2 DEF OtherInv
    <3>3. CASE c.datum = "currents"
      BY <1>1, <2>3, <3>1, <3>3 DEF OtherInv
    <3> QED
      BY <3>2, <3>3
  <2> QED
    BY <1>1, <2>1, <2>2, <2>3 DEF OtherInv
<1> QED
  BY <1>8, <1>9 DEF MatchesWith

LEMMA AskForImagesKeeps ==
  ASSUME GenerationInv, NEW g \in Forecasts, AskForImages(g), NEW f \in Forecasts
  PROVE  ForecastInv(f)'
<1>1. /\ UNCHANGED <<found, answers, late, shown, sources_used, fallbacks_triggered, published>>
      /\ step[g] = Collected(g) /\ step'[g] = step[g] + 1 /\ step[g] \in Nat
      /\ Collected(g) \in Nat /\ (f # g => step'[f] = step[f])
  BY AnswersAre DEF AskForImages, GenerationInv, Shapes, Collected
<1>2. CASE f # g
  BY <1>1, <1>2, OthersKeep DEF Untouched
<1>3. CASE f = g
  <2>1. MarineInv(f)' /\ TemperatureInv(f)' /\ OtherInv(f)'
    BY <1>1, <1>3, PastAll
  <2>2. Matches(f)'
    BY <1>1, <1>3 DEF Matches, Finished, Collected, Answers
  <2> QED
    BY <2>1, <2>2 DEF ForecastInv
<1> QED
  BY <1>2, <1>3

LEMMA PublishKeeps ==
  ASSUME GenerationInv, NEW g \in Forecasts, Publish(g), NEW f \in Forecasts
  PROVE  ForecastInv(f)'
<1>1. /\ UNCHANGED <<found, answers, late, shown, sources_used, fallbacks_triggered>>
      /\ step[g] = Collected(g) + 1 /\ step'[g] = step[g] + 1 /\ step[g] \in Nat
      /\ Collected(g) \in Nat
      /\ f # g => step'[f] = step[f] /\ published'[f] = published[f]
      /\ published'[g] = [credits |-> sources_used[g], notes |-> fallbacks_triggered[g]]
  BY AnswersAre DEF Publish, GenerationInv, Shapes, Collected, Finished
<1>2. CASE f # g
  BY <1>1, <1>2, OthersKeep DEF Untouched
<1>3. CASE f = g
  <2>1. MarineInv(f)' /\ TemperatureInv(f)' /\ OtherInv(f)'
    BY <1>1, <1>3, PastAll
  <2>2. MatchesWith(f, sources_used[f], fallbacks_triggered[f])
    BY <1>1, <1>3, AllMatch, AnswersAre DEF Collected
  <2>3. MatchesWith(f, published[f].credits, published[f].notes)'
    BY <1>1, <1>3, <2>2 DEF MatchesWith
  <2> QED
    BY <2>1, <2>3 DEF ForecastInv, Matches
<1> QED
  BY <1>2, <1>3

-----------------------------------------------------------------------------
(* An answer that has come, or is no longer waited for: what it changes of  *)
(* the forecast g, whose credits grow by C.                                 *)
Answered(g, C) ==
  /\ step[g] \in DOMAIN Answers(g) /\ step'[g] = step[g] + 1
  /\ UNCHANGED <<found, answers, published>>
  /\ late \subseteq late' /\ fallbacks_triggered[g] \subseteq fallbacks_triggered'[g]
  /\ sources_used'[g] = sources_used[g] \union C

LEMMA AnsweredBefore ==
  ASSUME GenerationInv, NEW g \in Forecasts, NEW C, Answered(g, C)
  PROVE  /\ step[g] \in Nat /\ step[g] >= 1
         /\ Awaited(g) \in Range(Order) \union {"marine", "temperature"}
         /\ (Awaited(g) = "marine") <=> (step[g] = 1)
         /\ (Awaited(g) = "temperature") <=> (step[g] = 2)
         /\ (Awaited(g) \in Range(Order)) <=> (step[g] > 2)
         /\ MarineInv(g) /\ TemperatureInv(g) /\ OtherInv(g) /\ PlainAnswers(g)
         /\ \A r : AnswersOf(g, r)' = AnswersOf(g, r)
         /\ Matches(g)'
<1>1. step[g] \in DOMAIN Answers(g) /\ step[g] \in Nat
  BY DEF Answered, GenerationInv, Shapes
<1>2. /\ step[g] >= 1 /\ step[g] \in 1..Len(Answers(g)) /\ Len(Answers(g)) \in Nat
      /\ Answers(g)[1] = "marine" /\ Answers(g)[2] = "temperature"
      /\ \A i \in 3..Len(Answers(g)) : Answers(g)[i] \in Range(Order)
  BY <1>1, AnswersAre
<1>3. step[g] = 1 \/ step[g] = 2 \/ step[g] \in 3..Len(Answers(g))
  BY <1>2
<1>4. /\ "marine" \notin Range(Order) /\ "temperature" \notin Range(Order)
  BY Places
<1>5. \A r : AnswersOf(g, r)' = AnswersOf(g, r)
  BY DEF Answered, AnswersOf
<1>6. Matches(g)'
  <2>1. UNCHANGED Answers(g)
    BY DEF Answers
  <2>2. step'[g] # Len(Answers(g)) + 1 + 2
    BY <1>2 DEF Answered
  <2> QED
    BY <2>1, <2>2 DEF Matches, Finished, Collected
<1> QED
  BY <1>1, <1>2, <1>3, <1>4, <1>5, <1>6 DEF GenerationInv, ForecastInv, Awaited

LEMMA MarineAnswered ==
  ASSUME GenerationInv, NEW g \in Forecasts, Answered(g, {}), Awaited(g) = "marine",
         \A d \in DOMAIN shown[g] \ Data : shown'[g][d] = shown[g][d],
         \/ AnswersOf(g, "marine") # {} /\ \A d \in Data : shown'[g][d] = found[g][d]
         \/ /\ Call(g, "marine") \in late' /\ "marine" \in fallbacks_triggered'[g]
            /\ \A d \in Data : shown'[g][d] = Generic
  PROVE  ForecastInv(g)'
<1> step'[g] = step[g] + 1
  BY DEF Answered
<1>1. /\ step[g] = 1 /\ step'[g] = 2
      /\ MarineInv(g) /\ TemperatureInv(g) /\ OtherInv(g) /\ Matches(g)'
      /\ \A r : AnswersOf(g, r)' = AnswersOf(g, r)
  BY AnsweredBefore
<1>2. /\ found'[g] = found[g] /\ sources_used'[g] = sources_used[g]
      /\ fallbacks_triggered[g] \subseteq fallbacks_triggered'[g]
  BY DEF Answered
<1>3. MarineInv(g)'
  <2>1. Missing(g)' = Missing(g) /\ Call(g, "marine")' = Call(g, "marine")
    BY <1>2 DEF Missing, Call
  <2> QED
    BY <1>1, <1>2, <2>1 DEF MarineInv
<1>4. TemperatureInv(g)'
  BY <1>1, <1>2 DEF TemperatureInv
<1>5. OtherInv(g)'
  <2>1. \A r \in Range(Order) : ~IsTaken(g, r) /\ ~IsTaken(g, r)'
    <3>1. \A r : IsTaken(g, r)' <=> IsTaken(g, r) \/ r = "marine"
      BY <1>1, TakenGrows DEF Answered
    <3>2. \A r : ~IsTaken(g, r)
      <4>1. \A i \in DOMAIN Answers(g) : ~(i < 1)
        BY AnswersAre
      <4> QED
        BY <1>1, <4>1 DEF IsTaken
    <3> QED
      BY <3>1, <3>2, Places
  <2>2. \A r : Credited(g, r)' = Credited(g, r)
    BY <1>2 DEF Credited
  <2>3. {"currents", "observation"} \subseteq Range(Order)
    BY Places
  <2> QED
    BY <1>1, <1>2, <2>1, <2>2, <2>3 DEF OtherInv
<1> QED
  BY <1>1, <1>3, <1>4, <1>5 DEF ForecastInv

LEMMA TemperatureAnswered ==
  ASSUME GenerationInv, NEW g \in Forecasts, Answered(g, {}), Awaited(g) = "temperature",
         \A d \in DOMAIN shown[g] \ {"temperature"} : shown'[g][d] = shown[g][d],
         \/ shown'[g]["temperature"] \in AnswersOf(g, "temperature")
         \/ /\ Temperature(g) \in late' /\ "temperature" \in fallbacks_triggered'[g]
            /\ shown'[g]["temperature"] = Generic
  PROVE  ForecastInv(g)'
<1>1. /\ step[g] = 2 /\ step'[g] = 3
      /\ MarineInv(g) /\ TemperatureInv(g) /\ OtherInv(g) /\ Matches(g)'
      /\ \A r : AnswersOf(g, r)' = AnswersOf(g, r)
  BY AnsweredBefore DEF Answered
<1>2. /\ found'[g] = found[g] /\ sources_used'[g] = sources_used[g]
      /\ fallbacks_triggered[g] \subseteq fallbacks_triggered'[g] /\ late \subseteq late'
  BY DEF Answered
<1>3. MarineInv(g)'
  <2>1. Missing(g)' = Missing(g) /\ Call(g, "marine")' = Call(g, "marine")
    BY <1>2 DEF Missing, Call
  <2>2. \A d \in Data : shown'[g][d] = shown[g][d]
    BY DEF GenerationInv, Shapes, Data
  <2> QED
    BY <1>1, <1>2, <2>1, <2>2 DEF MarineInv
<1>4. TemperatureInv(g)'
  <2>1. Temperature(g)' = Temperature(g)
    BY DEF Temperature, Call
  <2> QED
    BY <1>1, <1>2, <2>1 DEF TemperatureInv
<1>5. OtherInv(g)'
  <2>1. \A r \in Range(Order) : ~IsTaken(g, r) /\ ~IsTaken(g, r)'
    <3>1. \A r : IsTaken(g, r)' <=> IsTaken(g, r) \/ r = "temperature"
      BY <1>1, TakenGrows DEF Answered
    <3>2. \A r : IsTaken(g, r) => r = "marine"
      <4>1. \A i \in DOMAIN Answers(g) : i < 2 => i = 1
        BY AnswersAre
      <4> QED
        BY <1>1, <4>1, AnswersAre DEF IsTaken
    <3> QED
      BY <3>1, <3>2, Places
  <2>2. \A r : Credited(g, r)' = Credited(g, r)
    BY <1>2 DEF Credited
  <2>3. {"currents", "observation"} \subseteq Range(Order)
    BY Places
  <2> QED
    BY <1>1, <1>2, <2>1, <2>2, <2>3 DEF OtherInv
<1> QED
  BY <1>1, <1>3, <1>4, <1>5 DEF ForecastInv

(* An observation of the currents, and their predictions before it. *)
CreditsOf(g, s, v) ==
  IF s = "currents" THEN {}
  ELSE {x \in {Credit(s, s)} : v = s}
         \union {x \in {Credit("currents", "currents")} :
                   s = "observation" /\ (v = s \/ shown[g]["currents"] = "currents")}

LEMMA OtherAnswered ==
  ASSUME GenerationInv, NEW g \in Forecasts, NEW C, Answered(g, C), NEW s, NEW v,
         s = Awaited(g), s \in Range(Order), v \in {s, Nothing}, C = CreditsOf(g, s, v),
         shown'[g] = [shown[g] EXCEPT ![s] = v]
  PROVE  ForecastInv(g)'
<1>1. /\ step[g] > 2 /\ step[g] \in Nat /\ step'[g] = step[g] + 1 /\ step'[g] > 2
      /\ MarineInv(g) /\ TemperatureInv(g) /\ OtherInv(g) /\ Matches(g)'
      /\ \A r : AnswersOf(g, r)' = AnswersOf(g, r)
  BY AnsweredBefore DEF Answered
<1>2. /\ found'[g] = found[g] /\ sources_used'[g] = sources_used[g] \union C
      /\ fallbacks_triggered[g] \subseteq fallbacks_triggered'[g] /\ late \subseteq late'
  BY DEF Answered
<1>3. /\ s \notin Data /\ s # "temperature" /\ s # "marine"
      /\ "temperature" \notin Data /\ "currents" # "observation"
      /\ "currents" \notin Data /\ "observation" \notin Data
  BY Places DEF Data
<1>4. /\ \A r \in Data \union {"temperature"} : shown'[g][r] = shown[g][r]
      /\ \A r \in DOMAIN shown[g] \ {s} : shown'[g][r] = shown[g][r]
      /\ s \in DOMAIN shown[g] => shown'[g][s] = v
  BY <1>3
<1>5. s \in DOMAIN shown[g]
  BY <1>3, AnswersAre DEF Answered, Awaited, GenerationInv, Shapes, Range
<1>6. \A c \in C : /\ c.datum = c.source /\ c.datum \in {s, "currents"} /\ c = Credit(c.datum, c.datum)
                   /\ c.datum = s \/ s = "observation"
  BY DEF CreditsOf, Credit
<1>7. \A c \in C : c.datum \in Range(Order) /\ c.datum \notin Data \union {"temperature"}
  BY <1>6, <1>3, Places
<1>8. MarineInv(g)'
  <2>1. Missing(g)' = Missing(g) /\ Call(g, "marine")' = Call(g, "marine")
    BY <1>2 DEF Missing, Call
  <2>2. \A c \in sources_used'[g] : c.datum \in Data => c \in sources_used[g]
    BY <1>2, <1>7
  <2> QED
    BY <1>1, <1>2, <1>4, <2>1, <2>2 DEF MarineInv
<1>9. TemperatureInv(g)'
  <2>1. Temperature(g)' = Temperature(g)
    BY DEF Temperature, Call
  <2>2. \A c \in sources_used'[g] : c.datum = "temperature" => c \in sources_used[g]
    BY <1>2, <1>7
  <2> QED
    BY <1>1, <1>2, <1>4, <2>1, <2>2 DEF TemperatureInv
<1>10. /\ \A r : IsTaken(g, r)' <=> IsTaken(g, r) \/ r = s
       /\ ~IsTaken(g, s)
  BY <1>1, TakenGrows DEF Answered
<1>11. \A r \in Range(Order) : IsTaken(g, r) => r \in DOMAIN shown[g] /\ r # s
  <2> SUFFICES ASSUME NEW r \in Range(Order), IsTaken(g, r) PROVE r \in DOMAIN shown[g] /\ r # s
    OBVIOUS
  <2>1. r # "marine" /\ r # s
    BY <1>10, Places
  <2>2. \E i \in DOMAIN Answers(g) : Answers(g)[i] = r
    BY DEF IsTaken
  <2>3. r \in Range(Answers(g))
    BY <2>2 DEF Range
  <2>4. DOMAIN shown[g] = Data \union (Range(Answers(g)) \ {"marine"})
    BY DEF GenerationInv, Shapes
  <2> QED
    BY <2>1, <2>3, <2>4
<1>12. \A r : Credited(g, r)' <=> Credited(g, r) \/ \E c \in C : c.datum = r
  BY <1>2 DEF Credited
<1>13. \A r \in Range(Order) \ {"currents"} : (\E c \in C : c.datum = r) <=> r = s /\ v = s
  <2> SUFFICES ASSUME NEW r \in Range(Order) \ {"currents"}
               PROVE  (\E c \in C : c.datum = r) <=> r = s /\ v = s
    OBVIOUS
  <2>1. ASSUME NEW c \in C, c.datum = r PROVE r = s /\ v = s
    <3>1. r = s
      BY <1>6, <2>1
    <3>2. c # Credit("currents", "currents")
      BY <2>1 DEF Credit
    <3> QED
      BY <3>1, <3>2 DEF CreditsOf
  <2>2. ASSUME r = s, v = s PROVE \E c \in C : c.datum = r
    <3>1. Credit(s, s) \in C
      BY <2>2 DEF CreditsOf
    <3>2. Credit(s, s).datum = s
      BY DEF Credit
    <3> QED
      BY <2>2, <3>1, <3>2
  <2> QED
    BY <2>1, <2>2
<1>14. (\E c \in C : c.datum = "currents") <=>
         s = "observation" /\ (v = s \/ shown[g]["currents"] = "currents")
  <2>1. ASSUME NEW c \in C, c.datum = "currents"
        PROVE  s = "observation" /\ (v = s \/ shown[g]["currents"] = "currents")
    <3>1. s # "currents"
      BY DEF CreditsOf
    <3>2. c # Credit(s, s)
      BY <2>1, <3>1 DEF Credit
    <3> QED
      BY <3>1, <3>2 DEF CreditsOf
  <2>2. ASSUME s = "observation", v = s \/ shown[g]["currents"] = "currents"
        PROVE  \E c \in C : c.datum = "currents"
    <3>1. Credit("currents", "currents") \in C
      BY <2>2, <1>3 DEF CreditsOf
    <3>2. Credit("currents", "currents").datum = "currents"
      BY DEF Credit
    <3> QED
      BY <3>1, <3>2
  <2> QED
    BY <2>1, <2>2
<1>15. OtherInv(g)'
  <2>1. \A c \in sources_used'[g] :
          \/ c.datum \in Data \union {"temperature"}
          \/ c.datum \in Range(Order) /\ c.source = c.datum
    BY <1>1, <1>2, <1>6, <1>7 DEF OtherInv
  <2>2. \A r \in Range(Order) : IsTaken(g, r)' => shown'[g][r] \in {r, Nothing}
    BY <1>1, <1>4, <1>5, <1>10, <1>11 DEF OtherInv
  <2>3. \A r \in Range(Order) \ {"currents"} :
          Credited(g, r)' => IsTaken(g, r)' /\ shown'[g][r] = r
    BY <1>1, <1>4, <1>5, <1>10, <1>11, <1>12, <1>13 DEF OtherInv
  <2>4. \A r \in Range(Order) \ {"currents"} :
          IsTaken(g, r)' /\ shown'[g][r] = r => Credit(r, r) \in sources_used'[g]
    <3> SUFFICES ASSUME NEW r \in Range(Order) \ {"currents"}, IsTaken(g, r)', shown'[g][r] = r
                 PROVE  Credit(r, r) \in sources_used'[g]
      OBVIOUS
    <3>1. CASE IsTaken(g, r)
      BY <1>1, <1>2, <1>4, <1>11, <3>1 DEF OtherInv
    <3>2. CASE r = s
      BY <1>2, <1>4, <1>5, <3>2 DEF CreditsOf
    <3> QED
      BY <1>10, <3>1, <3>2
  <2>5. IsTaken(g, "observation")' => IsTaken(g, "currents")'
    <3>1. UNCHANGED Answers(g)
      BY DEF Answers
    <3> QED
      BY <1>1, <3>1, AnswersAre DEF IsTaken
  <2>6. s = "observation" => IsTaken(g, "currents") /\ shown'[g]["currents"] = shown[g]["currents"]
    BY <1>3, <1>4, <1>10, <1>11, <2>5, Places
  <2>7. s = "currents" => ~IsTaken(g, "observation") /\ ~IsTaken(g, "observation")'
    <3>1. IsTaken(g, "observation") => IsTaken(g, "currents")
      BY <1>1, AnswersAre DEF IsTaken
    <3> QED
      BY <1>3, <1>10, <3>1
  <2>8. /\ s # "currents" /\ IsTaken(g, "currents") => shown'[g]["currents"] = shown[g]["currents"]
        /\ s # "observation" /\ IsTaken(g, "observation") =>
             shown'[g]["observation"] = shown[g]["observation"]
    BY <1>4, <1>11, Places
  <2>9. IsTaken(g, "observation") => IsTaken(g, "currents")
    BY <1>1, AnswersAre DEF IsTaken
  <2>10. Credited(g, "currents")' =>
          /\ IsTaken(g, "observation")'
          /\ shown'[g]["currents"] = "currents" \/ shown'[g]["observation"] = "observation"
    <3>1. CASE Credited(g, "currents")
      BY <1>1, <1>10, <2>7, <2>8, <2>9, <3>1 DEF OtherInv
    <3>2. CASE \E c \in C : c.datum = "currents"
      BY <1>4, <1>5, <1>10, <1>14, <2>6, <3>2
    <3> QED
      BY <1>12, <3>1, <3>2
  <2>11. IsTaken(g, "observation")' /\ shown'[g]["currents"] = "currents" =>
           Credit("currents", "currents") \in sources_used'[g]
    <3> SUFFICES ASSUME IsTaken(g, "observation")', shown'[g]["currents"] = "currents"
                 PROVE  Credit("currents", "currents") \in sources_used'[g]
      OBVIOUS
    <3>1. CASE IsTaken(g, "observation")
      BY <1>1, <1>2, <2>7, <2>8, <2>9, <3>1 DEF OtherInv
    <3>2. CASE s = "observation"
      BY <1>2, <1>3, <2>6, <3>2 DEF CreditsOf
    <3> QED
      BY <1>10, <3>1, <3>2
  <2> QED
    BY <2>1, <2>2, <2>3, <2>4, <2>10, <2>11 DEF OtherInv
<1> QED
  BY <1>1, <1>8, <1>9, <1>15 DEF ForecastInv

(* When it is the observation's turn, the currents have been taken. *)
LEMMA CurrentsTaken ==
  ASSUME GenerationInv, NEW g \in Forecasts, NEW C, Answered(g, C), Awaited(g) = "observation"
  PROVE  shown[g]["currents"] \in {"currents", Nothing}
<1>1. step[g] \in DOMAIN Answers(g) /\ Answers(g)[step[g]] = "observation" /\ OtherInv(g)
  BY AnsweredBefore DEF Answered, Awaited
<1>2. IsTaken(g, "currents")
  BY <1>1, AnswersAre DEF IsTaken
<1> QED
  BY <1>1, <1>2, Places DEF OtherInv

LEMMA CreditsAre ==
  ASSUME NEW g, NEW s, s # "marine", s # "temperature", NEW a \in {"data", Nothing}, NEW v,
         (v = s) <=> (a = "data"),
         s = "observation" => shown[g]["currents"] \in {"currents", Nothing}
  PROVE  Credits(g, s, a) = CreditsOf(g, s, v)
<1>1. Nothing # "data" /\ Nothing # "currents"
  BY DEF Nothing
<1>2. CASE s = "currents"
  BY <1>2 DEF Credits, CreditsOf
<1>3. CASE s = "observation"
  <2>1. Credits(g, s, a) =
          {Credit(s, s) : x \in {"data"} \intersect {a}}
            \union {Credit("currents", "currents") : x \in {"data", "currents"} \intersect {a, shown[g]["currents"]}}
    BY <1>3 DEF Credits
  <2>2. CreditsOf(g, s, v) =
          {x \in {Credit(s, s)} : v = s}
            \union {x \in {Credit("currents", "currents")} :
                      s = "observation" /\ (v = s \/ shown[g]["currents"] = "currents")}
    BY <1>3 DEF CreditsOf
  <2>3. ({"data"} \intersect {a} # {}) <=> (v = s)
    OBVIOUS
  <2>4. ({"data", "currents"} \intersect {a, shown[g]["currents"]} # {})
          <=> (v = s \/ shown[g]["currents"] = "currents")
    BY <1>1, <1>3
  <2> QED
    BY <1>3, <2>1, <2>2, <2>3, <2>4
<1>4. CASE s \notin {"currents", "observation"}
  BY <1>4 DEF Credits, CreditsOf
<1> QED
  BY <1>2, <1>3, <1>4

LEMMA ReceiveKeeps ==
  ASSUME GenerationInv, NEW g \in Forecasts, Receive(g), NEW f \in Forecasts
  PROVE  ForecastInv(f)'
<1>1. PICK s : s = Awaited(g)
  OBVIOUS
<1>2. PICK a \in AnswersOf(g, s) :
        /\ shown' = [shown EXCEPT ![g] = Shows(g, s, a)]
        /\ sources_used' = [sources_used EXCEPT ![g] = @ \union Credits(g, s, a)]
  BY <1>1 DEF Receive
<1>3. /\ step[g] \in DOMAIN Answers(g) /\ step' = [step EXCEPT ![g] = @ + 1]
      /\ UNCHANGED <<queue, running, found, tried, answers, late, fallbacks_triggered, published>>
  BY DEF Receive
<1>4. CASE f # g
  BY <1>2, <1>3, <1>4, OthersKeep DEF Untouched, GenerationInv, Shapes
<1>5. CASE f = g
  <2>1. /\ Answered(g, Credits(g, s, a)) /\ shown'[g] = Shows(g, s, a)
    BY <1>2, <1>3 DEF Answered, GenerationInv, Shapes
  <2>2. DOMAIN shown[g] = Data \union (Range(Answers(g)) \ {"marine"})
    BY DEF GenerationInv, Shapes
  <2>3. s \in Range(Order) \union {"marine", "temperature"} /\ PlainAnswers(g)
    BY <1>1, <2>1, AnsweredBefore
  <2>4. CASE s = "marine"
    <3>1. Credits(g, s, a) = {}
      BY <2>4 DEF Credits
    <3>2. shown'[g] = [d \in DOMAIN shown[g] |-> IF d \in Data THEN found[g][d] ELSE shown[g][d]]
      BY <2>1, <2>4 DEF Shows, WithData
    <3>3. \A d \in Data : shown'[g][d] = found[g][d]
      BY <2>2, <3>2
    <3>4. Answered(g, {}) /\ AnswersOf(g, "marine") # {} /\ Awaited(g) = "marine"
      BY <1>1, <1>2, <2>1, <2>4, <3>1
    <3> QED
      BY <1>5, <3>2, <3>3, <3>4, MarineAnswered
  <2>5. CASE s = "temperature"
    <3>1. Credits(g, s, a) = {}
      BY <2>5 DEF Credits
    <3>2. shown'[g] = [shown[g] EXCEPT !["temperature"] = a]
      BY <2>1, <2>5 DEF Shows
    <3>3. "temperature" \in DOMAIN shown[g]
      BY <1>1, <1>3, <2>2, <2>5 DEF Awaited, Range
    <3>4. Answered(g, {}) /\ a \in AnswersOf(g, "temperature") /\ Awaited(g) = "temperature"
      BY <1>1, <1>2, <2>1, <2>5, <3>1
    <3> QED
      BY <1>5, <3>2, <3>3, <3>4, TemperatureAnswered
  <2>6. CASE s \in Range(Order)
    <3>1. a \in {"data", Nothing} /\ s # "marine" /\ s # "temperature"
      BY <1>2, <2>3, <2>6, Places DEF PlainAnswers
    <3>2. PICK v : v = IF a = "data" THEN s ELSE Nothing
      OBVIOUS
    <3>3. shown'[g] = [shown[g] EXCEPT ![s] = v]
      BY <2>1, <3>1, <3>2 DEF Shows
    <3>4. (v = s) <=> (a = "data")
      BY <2>6, <3>1, <3>2, Places
    <3>5. s = "observation" => shown[g]["currents"] \in {"currents", Nothing}
      BY <1>1, <2>1, CurrentsTaken
    <3>6. Credits(g, s, a) = CreditsOf(g, s, v)
      BY <3>1, <3>4, <3>5, CreditsAre
    <3> QED
      BY <1>1, <1>5, <2>1, <2>6, <3>2, <3>3, <3>6, OtherAnswered
  <2> QED
    BY <2>3, <2>4, <2>5, <2>6
<1> QED
  BY <1>4, <1>5

LEMMA TimeOutKeeps ==
  ASSUME GenerationInv, NEW g \in Forecasts, TimeOut(g), NEW f \in Forecasts
  PROVE  ForecastInv(f)'
<1>1. PICK s : s = Awaited(g)
  OBVIOUS
<1>2. PICK without :
        /\ without = IF s = "marine" THEN WithData(g, [d \in Data |-> Generic])
                     ELSE [shown[g] EXCEPT ![s] = IF s = "temperature" THEN Generic ELSE Nothing]
        /\ shown' = [shown EXCEPT ![g] = without]
        /\ late' = late \union {Call(g, s)}
        /\ sources_used' = [sources_used EXCEPT ![g] = @ \union Credits(g, s, Nothing)]
        /\ fallbacks_triggered' = [fallbacks_triggered EXCEPT ![g] = @ \union NoteOf(s)]
  BY <1>1, Zenon DEF TimeOut
<1>3. /\ step[g] \in DOMAIN Answers(g) /\ step' = [step EXCEPT ![g] = @ + 1]
      /\ UNCHANGED <<queue, running, found, tried, answers, published>>
  BY DEF TimeOut
<1>4. CASE f # g
  BY <1>2, <1>3, <1>4, OthersKeep DEF Untouched, GenerationInv, Shapes
<1>5. CASE f = g
  <2>1. Answered(g, Credits(g, s, Nothing)) /\ shown'[g] = without
    BY <1>2, <1>3 DEF Answered, GenerationInv, Shapes
  <2>2. DOMAIN shown[g] = Data \union (Range(Answers(g)) \ {"marine"})
    BY DEF GenerationInv, Shapes
  <2>3. s \in Range(Order) \union {"marine", "temperature"}
    BY <1>1, <2>1, AnsweredBefore
  <2>4. s \in {"marine", "temperature"} => s \in fallbacks_triggered'[g]
    BY <1>2 DEF NoteOf, GenerationInv, Shapes
  <2>5. Call(g, s) \in late'
    BY <1>2
  <2>6. CASE s = "marine"
    <3>1. Credits(g, s, Nothing) = {}
      BY <2>6 DEF Credits
    <3>2. shown'[g] = [d \in DOMAIN shown[g] |->
                         IF d \in Data THEN [e \in Data |-> Generic][d] ELSE shown[g][d]]
      BY <1>2, <2>1, <2>6 DEF WithData
    <3>3. \A d \in Data : shown'[g][d] = Generic
      BY <2>2, <3>2
    <3>4. Answered(g, {}) /\ Awaited(g) = "marine"
      BY <1>1, <2>1, <2>6, <3>1
    <3> QED
      BY <1>5, <2>4, <2>5, <2>6, <3>2, <3>3, <3>4, MarineAnswered
  <2>7. CASE s = "temperature"
    <3>1. Credits(g, s, Nothing) = {}
      BY <2>7 DEF Credits
    <3>2. shown'[g] = [shown[g] EXCEPT !["temperature"] = Generic]
      BY <1>2, <2>1, <2>7
    <3>3. "temperature" \in DOMAIN shown[g]
      BY <1>1, <1>3, <2>2, <2>7 DEF Awaited, Range
    <3>4. Answered(g, {}) /\ Awaited(g) = "temperature"
      BY <1>1, <2>1, <2>7, <3>1
    <3>5. Temperature(g) \in late' /\ "temperature" \in fallbacks_triggered'[g]
      BY <2>4, <2>5, <2>7 DEF Temperature
    <3> QED
      BY <1>5, <3>2, <3>3, <3>4, <3>5, TemperatureAnswered
  <2>8. CASE s \in Range(Order)
    <3>1. s # "marine" /\ s # "temperature" /\ Nothing # s
      BY <2>8, Places
    <3>2. shown'[g] = [shown[g] EXCEPT ![s] = Nothing]
      BY <1>2, <2>1, <3>1
    <3>3. s = "observation" => shown[g]["currents"] \in {"currents", Nothing}
      BY <1>1, <2>1, CurrentsTaken
    <3>4. Credits(g, s, Nothing) = CreditsOf(g, s, Nothing)
      <4>1. (Nothing = s) <=> (Nothing = "data")
        BY <3>1, NamesDiffer
      <4> QED
        BY <3>1, <3>3, <4>1, CreditsAre
    <3> QED
      BY <1>1, <1>5, <2>1, <2>8, <3>2, <3>4, OtherAnswered
  <2> QED
    BY <2>3, <2>6, <2>7, <2>8
<1> QED
  BY <1>4, <1>5

-----------------------------------------------------------------------------
(* All actions                                                              *)

LEMMA ShapesKept ==
  ASSUME GenerationInv, GenerationNext
  PROVE  Shapes'
<1>1. Shapes
  BY DEF GenerationInv
<1>2. ASSUME NEW f \in Forecasts PROVE UNCHANGED Answers(f) /\ Collected(f) \in Nat
  BY AnswersAre DEF Answers, Collected
<1>3. UNCHANGED Calls
  BY DEF Calls, Call, Answers
<1>4. CASE TakeCall
  <2>1. queue' \in Seq(Calls)
    BY <1>1, <1>4 DEF Shapes, TakeCall
  <2> QED
    BY <1>1, <1>2, <1>3, <1>4, <2>1 DEF Shapes, TakeCall
<1>5. ASSUME NEW c \in Calls, CallStep(c) PROVE Shapes'
  <2>1. CASE EndOther(c)
    BY <1>1, <1>2, <1>3, <2>1 DEF Shapes, EndOther, Ended
  <2>2. CASE EndTemperature(c)
    BY <1>1, <1>2, <1>3, <2>2 DEF Shapes, EndTemperature, Ended
  <2>3. CASE TrySource(c)
    <3> DEFINE next == Marine[c.for][tried[c.for] + 1]
    <3>1. \E reported \in SUBSET Reports[next] :
            /\ found' = [found EXCEPT ![c.for] =
                 [d \in Data |-> IF d \in Missing(c.for) \intersect reported THEN next ELSE found[c.for][d]]]
            /\ sources_used' = [sources_used EXCEPT ![c.for] =
                 @ \union {Credit(next, d) : d \in Missing(c.for) \intersect reported}]
      BY <2>3, Zenon DEF TrySource
    <3>2. DOMAIN found' = Forecasts /\ DOMAIN sources_used' = Forecasts
      BY <1>1, <3>1 DEF Shapes
    <3>3. tried' = [tried EXCEPT ![c.for] = @ + 1]
      BY <2>3, Zenon DEF TrySource
    <3>4. tried' \in [Forecasts -> Nat]
      BY <1>1, <3>3, CallsAre DEF Shapes
    <3>5. UNCHANGED <<step, queue, running, answers, late, shown, fallbacks_triggered, published>>
      BY <2>3, Zenon DEF TrySource
    <3> QED
      BY <1>1, <1>2, <1>3, <3>2, <3>4, <3>5 DEF Shapes
  <2>4. CASE EndMarine(c)
    BY <1>1, <1>2, <1>3, <2>4 DEF Shapes, EndMarine, Ended
  <2> QED
    BY <1>5, <2>1, <2>2, <2>3, <2>4 DEF CallStep
<1>6. ASSUME NEW f \in Forecasts, Start(f) \/ ForecastStep(f) PROVE Shapes'
  <2>1. CASE Start(f)
    <3>1. queue' \in Seq(Calls)
      BY <1>1, <2>1, SubmittedAre, Joins DEF Start, Shapes
    <3>2. step' \in [Forecasts -> Nat]
      BY <1>1, <2>1 DEF Start, Shapes
    <3> QED
      BY <1>1, <1>2, <1>3, <2>1, <3>1, <3>2 DEF Shapes, Start
  <2>2. CASE Receive(f)
    <3>1. step' \in [Forecasts -> Nat]
      BY <1>1, <2>2 DEF Receive, Shapes
    <3>2. PICK a : /\ shown' = [shown EXCEPT ![f] = Shows(f, Awaited(f), a)]
                   /\ DOMAIN sources_used' = Forecasts
      BY <1>1, <2>2 DEF Receive, Shapes
    <3>3. DOMAIN Shows(f, Awaited(f), a) = DOMAIN shown[f]
      BY DEF Shows, WithData
    <3>4. DOMAIN shown' = Forecasts /\ \A g \in Forecasts : DOMAIN shown'[g] = DOMAIN shown[g]
      BY <1>1, <3>2, <3>3 DEF Shapes
    <3>5. UNCHANGED <<queue, running, found, tried, answers, late, fallbacks_triggered, published>>
      BY <2>2 DEF Receive
    <3> QED
      BY <1>1, <1>2, <1>3, <3>1, <3>2, <3>4, <3>5 DEF Shapes
  <2>3. CASE TimeOut(f)
    <3>1. step' \in [Forecasts -> Nat]
      BY <1>1, <2>3 DEF TimeOut, Shapes
    <3>2. PICK s, without :
            /\ without = IF s = "marine" THEN WithData(f, [d \in Data |-> Generic])
                         ELSE [shown[f] EXCEPT ![s] = IF s = "temperature" THEN Generic ELSE Nothing]
            /\ shown' = [shown EXCEPT ![f] = without]
      BY <2>3, Zenon DEF TimeOut
    <3>3. DOMAIN without = DOMAIN shown[f]
      BY <3>2 DEF WithData
    <3>4. DOMAIN shown' = Forecasts /\ \A g \in Forecasts : DOMAIN shown'[g] = DOMAIN shown[g]
      BY <1>1, <3>2, <3>3 DEF Shapes
    <3>5. /\ UNCHANGED <<queue, running, found, tried, answers, published>>
          /\ DOMAIN sources_used' = Forecasts /\ DOMAIN fallbacks_triggered' = Forecasts
      BY <1>1, <2>3 DEF TimeOut, Shapes
    <3> QED
      BY <1>1, <1>2, <1>3, <3>1, <3>4, <3>5 DEF Shapes
  <2>4. CASE AskForImages(f)
    <3>1. queue' \in Seq(Calls)
      BY <1>1, <2>4, ImagesInOrder, Joins DEF AskForImages, Shapes
    <3>2. step' \in [Forecasts -> Nat]
      BY <1>1, <2>4 DEF AskForImages, Shapes
    <3> QED
      BY <1>1, <1>2, <1>3, <2>4, <3>1, <3>2 DEF Shapes, AskForImages
  <2>5. CASE Publish(f)
    <3>1. step' \in [Forecasts -> Nat]
      BY <1>1, <1>2, <2>5 DEF Publish, Shapes, Finished
    <3> QED
      BY <1>1, <1>2, <1>3, <2>5, <3>1 DEF Shapes, Publish
  <2> QED
    BY <1>6, <2>1, <2>2, <2>3, <2>4, <2>5 DEF ForecastStep
<1> QED
  BY <1>4, <1>5, <1>6 DEF GenerationNext, PoolStep

LEMMA AskedOnceKept ==
  ASSUME GenerationInv, GenerationNext, NEW f \in Forecasts
  PROVE  AskedOnce(f)'
<1>1. CASE TakeCall
  BY <1>1, TakenOnce
<1>2. ASSUME NEW c \in Calls, NEW a, Ended(c, a), UNCHANGED <<queue, step>> PROVE AskedOnce(f)'
  BY <1>2, EndedOnce
<1>3. ASSUME UNCHANGED <<queue, running, answers>>,
             NEW g \in Forecasts, step'[g] # 0, step[g] # 0, \A h \in Forecasts \ {g} : step'[h] = step[h]
      PROVE  AskedOnce(f)'
  <2>1. AskedOnce(f)
    BY DEF GenerationInv
  <2>2. UNCHANGED Temperature(f) /\ UNCHANGED AnswersOf(f, "temperature")
    BY <1>3 DEF Temperature, Call, AnswersOf
  <2>3. (step'[f] = 0) <=> (step[f] = 0)
    BY <1>3
  <2> QED
    BY <1>3, <2>1, <2>2, <2>3 DEF AskedOnce
<1>4. ASSUME NEW c \in Calls, CallStep(c) PROVE AskedOnce(f)'
  <2>1. CASE EndOther(c)
    BY <1>2, <2>1 DEF EndOther
  <2>2. CASE EndTemperature(c)
    BY <1>2, <2>2 DEF EndTemperature
  <2>3. CASE TrySource(c)
    <3>1. UNCHANGED <<queue, running, answers, step>> /\ UNCHANGED AnswersOf(f, "temperature")
          /\ UNCHANGED Temperature(f)
      BY <2>3 DEF TrySource, AnswersOf, Temperature, Call
    <3>2. AskedOnce(f)
      BY DEF GenerationInv
    <3> QED
      BY <3>1, <3>2 DEF AskedOnce
  <2>4. CASE EndMarine(c)
    BY <1>2, <2>4 DEF EndMarine
  <2> QED
    BY <1>4, <2>1, <2>2, <2>3, <2>4 DEF CallStep
<1>5. ASSUME NEW g \in Forecasts, Start(g) \/ ForecastStep(g) PROVE AskedOnce(f)'
  <2>1. step \in [Forecasts -> Nat] /\ Finished(g) # 0
    BY AnswersAre DEF GenerationInv, Shapes, Finished, Collected
  <2>2. CASE Start(g)
    <3>1. /\ queue' = queue \o Submitted(g) /\ step' = [step EXCEPT ![g] = @ + 1]
          /\ step[g] = 0 /\ UNCHANGED <<running, answers>>
      BY <2>1, <2>2 DEF Start
    <3>2. \A i, j \in DOMAIN Submitted(g) :
            Submitted(g)[i] = Temperature(g) /\ Submitted(g)[j] = Temperature(g) => i = j
      <4>1. \A i \in DOMAIN Submitted(g) :
              Submitted(g)[i] = Temperature(g) => Answers(g)[i] = "temperature"
        BY SubmittedAre, SameCalls DEF Temperature
      <4> QED
        BY <4>1, SubmittedAre, AnswersAre
    <3>3. \A i \in DOMAIN Submitted(g) : Submitted(g)[i].for = g
      BY SubmittedAre, SameCalls
    <3> QED
      BY <3>1, <3>2, <3>3, Queued, SubmittedAre
  <2>3. CASE Receive(g)
    <3>1. step[g] # 0 /\ step'[g] # 0 /\ \A h \in Forecasts \ {g} : step'[h] = step[h]
      BY <2>1, <2>3, AnswersAre DEF Receive
    <3> QED
      BY <1>3, <2>3, <3>1 DEF Receive
  <2>4. CASE TimeOut(g)
    <3>1. step[g] # 0 /\ step'[g] # 0 /\ \A h \in Forecasts \ {g} : step'[h] = step[h]
      BY <2>1, <2>4, AnswersAre DEF TimeOut
    <3> QED
      BY <1>3, <2>4, <3>1 DEF TimeOut
  <2>5. CASE AskForImages(g)
    <3>1. \A i \in DOMAIN SetToSeq(ImagesOf(g)) :
            /\ SetToSeq(ImagesOf(g))[i].for = g
            /\ SetToSeq(ImagesOf(g))[i] # Temperature(g)
      <4>1. \A c \in ImagesOf(g) : c.for = g /\ c # Temperature(g)
        BY GenerationAssumption DEF ImagesOf, Call, Temperature
      <4> QED
        BY <4>1, ImagesInOrder
    <3>2. /\ queue' = queue \o SetToSeq(ImagesOf(g)) /\ step' = [step EXCEPT ![g] = @ + 1]
          /\ UNCHANGED <<running, answers>>
      BY <2>5 DEF AskForImages
    <3> QED
      BY <3>1, <3>2, Queued, ImagesInOrder
  <2>6. CASE Publish(g)
    <3>1. step[g] # 0 /\ step'[g] # 0 /\ \A h \in Forecasts \ {g} : step'[h] = step[h]
      BY <2>1, <2>6, AnswersAre DEF Publish, Collected
    <3> QED
      BY <1>3, <2>6, <3>1 DEF Publish
  <2> QED
    BY <1>5, <2>2, <2>3, <2>4, <2>5, <2>6 DEF ForecastStep
<1> QED
  BY <1>1, <1>4, <1>5 DEF GenerationNext, PoolStep

LEMMA PlainAnswersKept ==
  ASSUME GenerationInv, GenerationNext, NEW f \in Forecasts
  PROVE  PlainAnswers(f)'
<1>1. PlainAnswers(f)
  BY DEF GenerationInv
<1>2. CASE UNCHANGED answers
  BY <1>1, <1>2 DEF PlainAnswers, AnswersOf
<1>3. ASSUME NEW c \in Calls, NEW a, Ended(c, a), c.of \in Range(Order) => a \in {"data", Nothing}
      PROVE  PlainAnswers(f)'
  <2>1. CASE f # c.for
    <3>1. answers'[f] = answers[f]
      BY <1>3, <2>1 DEF Ended, GenerationInv, Shapes
    <3> QED
      BY <1>1, <3>1 DEF PlainAnswers, AnswersOf
  <2>2. CASE f = c.for
    <3>1. answers'[f] = answers[f] \union {<<c.of, a>>}
      BY <1>3, <2>2 DEF Ended, GenerationInv, Shapes
    <3>2. /\ AnswersOf(f, c.of)' = AnswersOf(f, c.of) \union {a}
          /\ \A s : s # c.of => SameAnswers(f, s)
      BY <3>1, AnswersGrow, Zenon
    <3> QED
      BY <1>1, <1>3, <3>2 DEF PlainAnswers, SameAnswers
  <2> QED
    BY <2>1, <2>2
<1>4. ASSUME NEW c \in Calls, CallStep(c) PROVE PlainAnswers(f)'
  <2>1. CASE EndOther(c)
    BY <1>3, <2>1 DEF EndOther
  <2>2. CASE EndTemperature(c)
    BY <1>3, <2>2, Places DEF EndTemperature
  <2>3. CASE TrySource(c)
    BY <1>2, <2>3 DEF TrySource
  <2>4. CASE EndMarine(c)
    BY <1>3, <2>4, Places DEF EndMarine
  <2> QED
    BY <1>4, <2>1, <2>2, <2>3, <2>4 DEF CallStep
<1>5. ASSUME NEW g \in Forecasts, Start(g) \/ ForecastStep(g) PROVE UNCHANGED answers
  BY <1>5 DEF Start, ForecastStep, Receive, TimeOut, AskForImages, Publish
<1>6. CASE TakeCall
  BY <1>2, <1>6 DEF TakeCall
<1> QED
  BY <1>2, <1>4, <1>5, <1>6 DEF GenerationNext, PoolStep

LEMMA GenerationInvNext == GenerationInv /\ [GenerationNext]_generationVars => GenerationInv'
<1> SUFFICES ASSUME GenerationInv, [GenerationNext]_generationVars PROVE GenerationInv'
  OBVIOUS
<1>1. CASE UNCHANGED generationVars
  <2>1. Shapes'
    BY <1>1 DEF generationVars, GenerationInv, Shapes, Calls, Call, Answers
  <2>2. ASSUME NEW f \in Forecasts PROVE (AskedOnce(f) /\ PlainAnswers(f) /\ ForecastInv(f))'
    <3>1. ForecastInv(f)'
      BY <1>1, SameForecast DEF generationVars, Untouched, GenerationInv
    <3>2. UNCHANGED Temperature(f) /\ \A s : AnswersOf(f, s)' = AnswersOf(f, s)
      BY <1>1 DEF generationVars, Temperature, Call, AnswersOf
    <3> QED
      BY <1>1, <3>1, <3>2 DEF generationVars, AskedOnce, PlainAnswers, GenerationInv
  <2> QED
    BY <2>1, <2>2 DEF GenerationInv
<1>2. CASE GenerationNext
  <2>1. ASSUME NEW f \in Forecasts PROVE ForecastInv(f)'
    <3>1. CASE TakeCall
      BY <3>1, SameForecast DEF TakeCall, Untouched, GenerationInv
    <3>2. ASSUME NEW c \in Calls, CallStep(c) PROVE ForecastInv(f)'
      BY <3>2, EndOtherKeeps, EndTemperatureKeeps, TrySourceKeeps, EndMarineKeeps DEF CallStep
    <3>3. ASSUME NEW g \in Forecasts, Start(g) \/ ForecastStep(g) PROVE ForecastInv(f)'
      BY <3>3, StartKeeps, ReceiveKeeps, TimeOutKeeps, AskForImagesKeeps, PublishKeeps DEF ForecastStep
    <3> QED
      BY <1>2, <3>1, <3>2, <3>3 DEF GenerationNext, PoolStep
  <2> QED
    BY <1>2, <2>1, ShapesKept, AskedOnceKept, PlainAnswersKept DEF GenerationInv
<1> QED
  BY <1>1, <1>2

(* What a finished forecast shows of a source is credited to it, and an     *)
(* average is noted; what is credited is shown, but for the calls it gave up *)
(* on and the currents of an observation (generate_forecast,                *)
(* _collect_sources), whatever its threads do after it gave up.             *)
THEOREM CreditsAreTrue == GenerationSpec => []CreditsMatchTheForecast
<1>1. GenerationInit => GenerationInv
  BY GenerationInvInit
<1>2. GenerationInv => CreditsMatchTheForecast
  BY DEF GenerationInv, ForecastInv, Matches, MatchesWith, CreditsMatchTheForecast, From
<1> QED
  BY <1>1, <1>2, GenerationInvNext, PTL DEF GenerationSpec

-----------------------------------------------------------------------------
(***************************************************************************)
(* LegacyDashboard                                                         *)
(***************************************************************************)

WindUnits == {"knots", "mph"}
PageProfiles  == {Profile[r] : r \in Readers} \union {Anyone}
Forecast  == [gen : Nat, wind : WindUnits, read : WindUnits, for : PageProfiles,
              caught : BOOLEAN, hour : Nat \union {Nil}]

(* A forecast as it is for anyone.                                          *)
IsPlain(f) == f.hour = Nil /\ f.for = Anyone /\ f.caught = FALSE

(* Forecast i is the one a key stands for, made as of its hour of a day.    *)
MadeFor(i, key) ==
  /\ i \in Refs
  /\ objects[i].gen = key.gen
  /\ objects[i].for = key.profile
  /\ objects[i].caught = key.caught
  /\ objects[i].hour \in Nat
  /\ key.hour = HourOfDay(objects[i].hour)

(* What a thread has of the forecast it loaded, by where it is.             *)
Loaded(w) ==
  /\ w.who \in Readers
  /\ w.caught \in BOOLEAN
  /\ w.floor \in Nat /\ w.floor <= clock

HasBase(w) ==
  /\ Loaded(w)
  /\ w.base \in Refs
  /\ IsPlain(objects[w.base])

HasKey(w) ==
  /\ HasBase(w)
  /\ w.key.gen = objects[w.base].gen
  /\ w.key.profile = Profile[w.who]
  /\ w.key.caught = w.caught
  /\ w.asked \in Nat /\ w.floor <= w.asked /\ w.asked <= clock
  /\ w.key.hour = HourOfDay(w.asked)

HasForecast(w) ==
  /\ HasBase(w)
  /\ w.ref \in Refs
  /\ objects[w.ref].gen = objects[w.base].gen
  /\ objects[w.ref].for = Profile[w.who]
  /\ objects[w.ref].caught = w.caught
  /\ \/ objects[w.ref].hour = Nil
     \/ \E h \in w.floor..clock : HourOfDay(h) = HourOfDay(objects[w.ref].hour)

ThreadOK(w) ==
  /\ {"pc", "who", "caught", "base", "ref", "key", "asked", "victim", "floor"} = DOMAIN w
  /\ w.pc \in {"idle", "generating", "loaded", "make", "pop", "store", "done"}
  /\ w.pc = "generating" => Loaded(w)
  /\ w.pc = "loaded" => HasBase(w) /\ w.ref = w.base
  /\ w.pc = "make" => HasKey(w)
  /\ w.pc \in {"pop", "store"} => HasKey(w) /\ MadeFor(w.ref, w.key)
  /\ w.pc = "done" => HasForecast(w)

EntryMade(e) == MadeFor(e.ref, e.key)

HeapInv ==
  /\ clock \in Nat /\ made \in Nat
  /\ objects \in Seq(Forecast)
  /\ \A i \in Refs : objects[i].hour # Nil => objects[i].hour <= clock
  /\ mem # Nil => mem \in Refs /\ IsPlain(objects[mem])
  /\ row # Nil => row \in Nat

MphInv ==
  /\ MisreadOnlyAfterMphPage
  /\ \A i \in Refs : objects[i].hour = Nil /\ objects[i].wind = "mph" => objects[i].gen \in exposed

EntriesInv ==
  /\ \E S : personal \in Seq(S)
  /\ \A i \in DOMAIN personal : EntryMade(personal[i])

ThreadsInv ==
  /\ DOMAIN work = Threads
  /\ \A x \in Threads : ThreadOK(work[x])

DashboardInv == HeapInv /\ MphInv /\ EntriesInv /\ ThreadsInv

LEMMA DashboardInvInit == DashboardInit => DashboardInv
  BY DashboardAssumption
  DEF DashboardInit, DashboardInv, HeapInv, MphInv, EntriesInv, ThreadsInv, ThreadOK, Rested, Refs,
      MisreadOnlyAfterMphPage

-----------------------------------------------------------------------------
(* Of a forecast that exists only the wind is ever changed.                 *)
Kept ==
  /\ clock \in Nat /\ clock' \in Nat /\ clock <= clock'
  /\ Refs \subseteq Refs'
  /\ \A i \in Refs : /\ objects'[i].gen = objects[i].gen
                     /\ objects'[i].for = objects[i].for
                     /\ objects'[i].caught = objects[i].caught
                     /\ objects'[i].hour = objects[i].hour

LEMMA MadeForStays ==
  ASSUME Kept, NEW i, NEW key, MadeFor(i, key)
  PROVE  MadeFor(i, key)'
  BY DEF Kept, MadeFor

LEMMA ThreadStays ==
  ASSUME Kept, NEW w, ThreadOK(w)
  PROVE  ThreadOK(w)'
  <1>1. Loaded(w) => Loaded(w)'
    BY DEF Kept, Loaded
  <1>2. HasBase(w) => HasBase(w)'
    BY <1>1 DEF Kept, HasBase, IsPlain
  <1>3. HasKey(w) => HasKey(w)'
    BY <1>2 DEF Kept, HasKey, HasBase
  <1>4. HasForecast(w) => HasForecast(w)'
    BY <1>2 DEF Kept, HasForecast, HasBase
  <1> QED
    BY <1>1, <1>2, <1>3, <1>4, MadeForStays DEF ThreadOK

LEMMA EntriesStay ==
  ASSUME Kept, EntriesInv, UNCHANGED personal
  PROVE  EntriesInv'
  BY MadeForStays DEF EntriesInv, EntryMade

LEMMA ThreadsStay ==
  ASSUME Kept, ThreadsInv, NEW x \in Threads, NEW w, At(x, w), ThreadOK(w)'
  PROVE  ThreadsInv'
  BY ThreadStays DEF ThreadsInv, At

(* A new forecast at the end of the heap.                                   *)
LEMMA HeapGrows ==
  ASSUME HeapInv, NEW f \in Forecast, objects' = Append(objects, f), UNCHANGED clock,
         NEW n, n = New
  PROVE  /\ Kept
         /\ objects' \in Seq(Forecast)
         /\ n \in Refs' /\ objects'[n] = f
         /\ Refs' = Refs \union {n}
         /\ \A i \in Refs : objects'[i] = objects[i]
  BY DEF HeapInv, Kept, Refs, New

LEMMA PlainlyTyped ==
  ASSUME NEW g \in Nat
  PROVE  /\ Plainly(g) \in Forecast
         /\ IsPlain(Plainly(g))
         /\ Plainly(g).wind = "knots" /\ Plainly(g).read = "knots" /\ Plainly(g).hour = Nil
  BY DEF Plainly, Forecast, IsPlain, WindUnits, PageProfiles

LEMMA PlainHeap ==
  ASSUME HeapInv, MphInv, NEW g \in Nat, objects' = Append(objects, Plainly(g)),
         UNCHANGED <<clock, exposed>>, NEW n, n = New, mem' = n,
         made' \in Nat, row' # Nil => row' \in Nat
  PROVE  HeapInv' /\ MphInv' /\ Kept /\ n \in Refs' /\ IsPlain(objects[n])'
  <1> DEFINE f == Plainly(g)
  <1>1. /\ f \in Forecast /\ IsPlain(f) /\ f.wind = "knots" /\ f.read = "knots" /\ f.hour = Nil
    BY PlainlyTyped
  <1>2. objects' = Append(objects, f)
    OBVIOUS
  <1> HIDE DEF f
  <1>3. /\ Kept /\ objects' \in Seq(Forecast) /\ n \in Refs' /\ objects'[n] = f
        /\ Refs' = Refs \union {n}
        /\ \A i \in Refs : objects'[i] = objects[i]
    BY <1>1, <1>2, HeapGrows
  <1>4. IsPlain(objects[n])'
    BY <1>1, <1>3 DEF IsPlain
  <1>5. HeapInv'
    <2>1. \A i \in Refs' : objects'[i].hour # Nil => objects'[i].hour <= clock'
      BY <1>1, <1>3 DEF HeapInv
    <2>2. IsPlain(objects[mem])'
      BY <1>4 DEF IsPlain
    <2> QED
      BY <1>3, <2>1, <2>2 DEF HeapInv
  <1>6. MphInv'
    BY <1>1, <1>3 DEF MphInv, MisreadOnlyAfterMphPage
  <1> QED
    BY <1>3, <1>4, <1>5, <1>6

-----------------------------------------------------------------------------
LEMMA LoadOK ==
  ASSUME DashboardInv, NEW x \in Threads, NEW r \in Readers, Load(x, r)
  PROVE  DashboardInv'
  <1> USE DEF DashboardInv
  <1>1. PICK w : w = [Rested EXCEPT !.pc = "loaded", !.who = r,
                                    !.caught = (x = "page" /\ r \in caught), !.floor = clock]
    OBVIOUS
  <1>2. /\ DOMAIN w = {"pc", "who", "caught", "base", "ref", "key", "asked", "victim", "floor"}
        /\ w.pc = "loaded" /\ w.who = r /\ w.floor = clock
    BY <1>1 DEF Rested
  <1>3. w.caught \in BOOLEAN
    <2>1. w.caught = (x = "page" /\ r \in caught)
      BY <1>1, Zenon DEF Rested
    <2> QED
      BY <2>1, Zenon
  <1>4. ASSUME NEW i, i \in Refs', IsPlain(objects[i])', UNCHANGED clock,
               NEW u, u = [w EXCEPT !.base = i, !.ref = i]
        PROVE  ThreadOK(u)'
    <2>1. /\ DOMAIN u = DOMAIN w /\ u.pc = "loaded" /\ u.base = i /\ u.ref = i
          /\ u.who = w.who /\ u.caught = w.caught /\ u.floor = w.floor
      BY <1>2, <1>4
    <2>2. HasBase(u)'
      BY <1>2, <1>3, <1>4, <2>1 DEF HasBase, Loaded, IsPlain, HeapInv
    <2> QED
      BY <1>2, <2>1, <2>2 DEF ThreadOK
  <1>5. CASE mem # Nil
    <2>1. PICK i : i = mem
      OBVIOUS
    <2>2. PICK u : u = [w EXCEPT !.base = i, !.ref = i]
      OBVIOUS
    <2>3. At(x, u) /\ UNCHANGED <<objects, mem, clock, row, made, personal, exposed>>
      BY <1>1, <1>5, <2>1, <2>2 DEF Load
    <2>4. Kept /\ HeapInv' /\ MphInv'
      BY <2>3 DEF Kept, HeapInv, MphInv, MisreadOnlyAfterMphPage, Refs, IsPlain
    <2>5. i \in Refs' /\ IsPlain(objects[i])'
      BY <1>5, <2>1, <2>3 DEF HeapInv, IsPlain, Refs
    <2>6. ThreadOK(u)'
      BY <1>4, <2>2, <2>3, <2>5
    <2> QED
      BY <2>3, <2>4, <2>6, ThreadsStay, EntriesStay
  <1>6. CASE mem = Nil /\ row # Nil
    <2>1. PICK i : i = New
      OBVIOUS
    <2>2. PICK u : u = [w EXCEPT !.base = i, !.ref = i]
      OBVIOUS
    <2>3. /\ At(x, u) /\ objects' = Append(objects, Plainly(row)) /\ mem' = i
          /\ UNCHANGED <<clock, row, made, personal, exposed>>
      BY <1>1, <1>6, <2>1, <2>2 DEF Load
    <2>4. HeapInv' /\ MphInv' /\ Kept /\ i \in Refs' /\ IsPlain(objects[i])'
      BY <1>6, <2>1, <2>3, PlainHeap DEF HeapInv
    <2>5. ThreadOK(u)'
      BY <1>4, <2>2, <2>3, <2>4
    <2> QED
      BY <2>3, <2>4, <2>5, ThreadsStay, EntriesStay
  <1>7. CASE mem = Nil /\ row = Nil
    <2>1. PICK u : u = [w EXCEPT !.pc = "generating"]
      OBVIOUS
    <2>2. At(x, u) /\ UNCHANGED <<objects, mem, clock, row, made, personal, exposed>>
      BY <1>1, <1>7, <2>1 DEF Load
    <2>3. Kept /\ HeapInv' /\ MphInv'
      BY <2>2 DEF Kept, HeapInv, MphInv, MisreadOnlyAfterMphPage, Refs, IsPlain
    <2>4. /\ DOMAIN u = DOMAIN w /\ u.pc = "generating"
          /\ u.who = w.who /\ u.caught = w.caught /\ u.floor = w.floor
      BY <1>2, <2>1
    <2>5. ThreadOK(u)'
      BY <1>2, <1>3, <2>2, <2>4 DEF ThreadOK, Loaded, HeapInv
    <2> QED
      BY <2>2, <2>3, <2>5, ThreadsStay, EntriesStay
  <1> QED
    BY <1>5, <1>6, <1>7

LEMMA GenerateOK ==
  ASSUME DashboardInv, NEW x \in Threads \union {Nil}, Generate(x)
  PROVE  DashboardInv'
  <1> USE DEF DashboardInv
  <1>1. PICK n : n = New
    OBVIOUS
  <1>2. PICK g \in Nat : g = made'
    BY DEF Generate, HeapInv
  <1>3. /\ objects' = Append(objects, Plainly(g)) /\ mem' = n /\ row' = g /\ made' = g
        /\ UNCHANGED <<clock, personal, exposed>>
    BY <1>1, <1>2 DEF Generate
  <1>4. HeapInv' /\ MphInv' /\ Kept /\ n \in Refs' /\ IsPlain(objects[n])'
    BY <1>1, <1>3, PlainHeap
  <1>5. EntriesInv'
    BY <1>3, <1>4, EntriesStay
  <1>6. CASE x = Nil
    BY <1>4, <1>5, <1>6, ThreadStays DEF Generate, ThreadsInv
  <1>7. CASE x # Nil
    <2>1. PICK w : w = work[x]
      OBVIOUS
    <2>2. PICK u : u = [w EXCEPT !.pc = "loaded", !.base = n, !.ref = n]
      OBVIOUS
    <2>3. x \in Threads /\ w.pc = "generating" /\ ThreadOK(w) /\ At(x, u)
      BY <1>1, <1>7, <2>1, <2>2 DEF Generate, ThreadsInv
    <2>4. DOMAIN w = {"pc", "who", "caught", "base", "ref", "key", "asked", "victim", "floor"} /\ Loaded(w)
      BY <2>3 DEF ThreadOK
    <2>5. /\ DOMAIN u = DOMAIN w /\ u.pc = "loaded" /\ u.base = n /\ u.ref = n
          /\ u.who = w.who /\ u.caught = w.caught /\ u.floor = w.floor
      BY <2>2, <2>4
    <2>6. HasBase(u)'
      BY <1>3, <1>4, <2>4, <2>5 DEF HasBase, Loaded, IsPlain
    <2>7. ThreadOK(u)'
      BY <2>4, <2>5, <2>6 DEF ThreadOK
    <2> QED
      BY <1>4, <1>5, <2>3, <2>7, ThreadsStay
  <1> QED
    BY <1>6, <1>7

-----------------------------------------------------------------------------
LEMMA QuietStep ==
  ASSUME HeapInv, MphInv, UNCHANGED <<clock, objects, mem, row, made, exposed>>
  PROVE  HeapInv' /\ MphInv' /\ Kept
  BY DEF HeapInv, MphInv, MisreadOnlyAfterMphPage, Kept, Refs, IsPlain

LEMMA DoneOK ==
  ASSUME Kept, ThreadsInv, NEW x \in Threads, NEW w, NEW ref, ThreadOK(w), Done(x, w, ref),
         NEW u, u = [w EXCEPT !.pc = "done", !.ref = ref], HasForecast(u)'
  PROVE  ThreadsInv'
  <1>1. ThreadOK(u)'
    <2>1. DOMAIN u = {"pc", "who", "caught", "base", "ref", "key", "asked", "victim", "floor"} /\ u.pc = "done"
      BY DEF ThreadOK
    <2> QED
      BY <2>1 DEF ThreadOK
  <1>2. ThreadOK(Rested)'
    BY DEF ThreadOK, Rested
  <1>3. At(x, u) \/ At(x, Rested)
    BY DEF Done
  <1>4. CASE At(x, u)
    BY <1>1, <1>4, ThreadsStay
  <1>5. CASE At(x, Rested)
    <2>1. PICK v : v = Rested
      OBVIOUS
    <2>2. ThreadOK(v)' /\ At(x, v)
      BY <1>5, <2>1 DEF ThreadOK, Rested
    <2> QED
      BY <2>2, ThreadsStay
  <1> QED
    BY <1>3, <1>4, <1>5

LEMMA LookupOK ==
  ASSUME DashboardInv, NEW x \in Threads, Lookup(x)
  PROVE  DashboardInv'
  <1> USE DEF DashboardInv
  <1>1. HeapInv' /\ MphInv' /\ Kept /\ EntriesInv'
    BY QuietStep, EntriesStay DEF Lookup
  <1>2. PICK w : w = work[x]
    OBVIOUS
  <1>3. PICK key : key = KeyOf(w)
    OBVIOUS
  <1>4. w.pc = "loaded" /\ ThreadOK(w) /\ HasBase(w) /\ w.ref = w.base
    BY <1>2 DEF Lookup, ThreadsInv, ThreadOK
  <1>5. DOMAIN w = {"pc", "who", "caught", "base", "ref", "key", "asked", "victim", "floor"}
    BY <1>4 DEF ThreadOK
  <1>6. /\ key.gen = objects[w.base].gen /\ key.hour = HourOfDay(clock)
        /\ key.profile = Profile[w.who] /\ key.caught = w.caught
    BY <1>3 DEF KeyOf
  <1>7. CASE Profile[w.who] = Anyone /\ ~w.caught
    <2>1. PICK u : u = [w EXCEPT !.pc = "done", !.ref = w.ref]
      OBVIOUS
    <2>2. /\ u.who = w.who /\ u.caught = w.caught /\ u.base = w.base /\ u.ref = w.ref
          /\ u.floor = w.floor
      BY <1>5, <2>1
    <2>3. w.caught = FALSE
      BY <1>4, <1>7, Zenon DEF HasBase, Loaded
    <2>4. objects[w.ref].caught = w.caught
      BY <1>4, <2>3, Zenon DEF HasBase, IsPlain
    <2>5. HasForecast(u)'
      BY <1>4, <1>7, <2>2, <2>4 DEF HasForecast, HasBase, Loaded, IsPlain, Lookup, Refs
    <2>6. Done(x, w, w.ref)
      BY <1>2, <1>7 DEF Lookup
    <2> QED
      BY <1>1, <1>4, <2>1, <2>5, <2>6, DoneOK
  <1>8. CASE ~(Profile[w.who] = Anyone /\ ~w.caught) /\ Find(key) # {}
    <2>1. PICK i : i = CHOOSE j \in Find(key) : TRUE
      OBVIOUS
    <2>2. i \in Find(key)
      BY <1>8, <2>1
    <2>3. PICK e : e = personal[i]
      OBVIOUS
    <2>4. EntryMade(e) /\ e.key = key
      BY <2>2, <2>3 DEF Find, EntriesInv
    <2>5. MadeFor(e.ref, key)
      BY <2>4 DEF EntryMade
    <2>6. PICK u : u = [w EXCEPT !.pc = "done", !.ref = e.ref]
      OBVIOUS
    <2>7. /\ u.who = w.who /\ u.caught = w.caught /\ u.base = w.base /\ u.ref = e.ref
          /\ u.floor = w.floor
      BY <1>5, <2>6
    <2>8. HasForecast(u)'
      <3>1. PICK h : h = objects[e.ref].hour
        OBVIOUS
      <3>2. HourOfDay(clock) = HourOfDay(h) /\ clock \in w.floor..clock
        BY <1>4, <1>6, <2>5, <3>1 DEF MadeFor, HasBase, Loaded, HeapInv
      <3>3. /\ UNCHANGED <<objects, clock>> /\ e.ref \in Refs
            /\ objects[e.ref].gen = objects[w.base].gen /\ objects[e.ref].for = Profile[w.who]
            /\ objects[e.ref].caught = w.caught
        BY <1>6, <2>5 DEF MadeFor, Lookup
      <3>4. HasBase(u)'
        BY <1>4, <2>7, <3>3 DEF HasBase, Loaded, IsPlain, Refs
      <3>5. objects'[u.ref].hour = h /\ \E t \in u.floor..clock' : HourOfDay(t) = HourOfDay(h)
        BY <2>7, <3>1, <3>2, <3>3
      <3> QED
        BY <2>7, <3>3, <3>4, <3>5 DEF HasForecast, Refs, HourOfDay
    <2>9. Done(x, w, e.ref)
      BY <1>2, <1>3, <1>8, <2>1, <2>3 DEF Lookup
    <2> QED
      BY <1>1, <1>4, <2>6, <2>8, <2>9, DoneOK
  <1>9. CASE ~(Profile[w.who] = Anyone /\ ~w.caught) /\ Find(key) = {}
    <2>1. PICK u : u = [w EXCEPT !.pc = "make", !.key = key, !.asked = clock]
      OBVIOUS
    <2>2. /\ DOMAIN u = DOMAIN w /\ u.pc = "make" /\ u.key = key /\ u.asked = clock
          /\ u.who = w.who /\ u.caught = w.caught /\ u.base = w.base /\ u.floor = w.floor
      BY <1>5, <2>1
    <2>3. At(x, u)
      BY <1>2, <1>3, <1>9, <2>1 DEF Lookup
    <2>4. HasKey(u)'
      BY <1>4, <1>6, <2>2 DEF HasKey, HasBase, Loaded, Lookup, Refs, IsPlain, HeapInv
    <2>5. ThreadOK(u)'
      BY <1>5, <2>2, <2>4 DEF ThreadOK
    <2> QED
      BY <1>1, <2>3, <2>5, ThreadsStay
  <1> QED
    BY <1>7, <1>8, <1>9

LEMMA PersonalizeOK ==
  ASSUME DashboardInv, NEW x \in Threads, Personalize(x)
  PROVE  DashboardInv'
  <1> USE DEF DashboardInv
  <1>1. PICK w : w = work[x]
    OBVIOUS
  <1>2. PICK n : n = New
    OBVIOUS
  <1>3. PICK f : f = Personalized(w)
    OBVIOUS
  <1>4. PICK b : b = objects[w.base]
    OBVIOUS
  <1>5. w.pc = "make" /\ ThreadOK(w) /\ HasKey(w)
    BY <1>1 DEF Personalize, ThreadsInv, ThreadOK
  <1>6. DOMAIN w = {"pc", "who", "caught", "base", "ref", "key", "asked", "victim", "floor"}
    BY <1>5 DEF ThreadOK
  <1>7. b \in Forecast /\ IsPlain(b) /\ w.base \in Refs
    BY <1>4, <1>5 DEF HasKey, HasBase, HeapInv, Refs
  <1>8. /\ f \in Forecast
        /\ f.gen = b.gen /\ f.read = b.wind /\ f.wind = b.wind /\ f.hour = w.asked
        /\ f.for = Profile[w.who] /\ f.caught = w.caught
    <2>1. f = [b EXCEPT !.read = b.wind, !.for = Profile[w.who], !.caught = w.caught, !.hour = w.asked]
      BY <1>3, <1>4 DEF Personalized
    <2>2. w.caught \in BOOLEAN /\ Profile[w.who] \in PageProfiles /\ w.asked \in Nat
      BY <1>5 DEF HasKey, HasBase, Loaded, PageProfiles, HeapInv
    <2> QED
      BY <1>7, <2>1, <2>2 DEF Forecast
  <1>9. /\ objects' = Append(objects, f)
        /\ UNCHANGED <<clock, mem, row, made, personal, exposed>>
    BY <1>1, <1>3 DEF Personalize, WithCopy
  <1>10. /\ Kept /\ objects' \in Seq(Forecast) /\ n \in Refs' /\ objects'[n] = f
         /\ Refs' = Refs \union {n}
         /\ \A i \in Refs : objects'[i] = objects[i]
    BY <1>2, <1>8, <1>9, HeapGrows
  <1>11. f.hour # Nil /\ f.hour <= clock
    BY <1>5, <1>8, DashboardAssumption DEF HasKey
  <1>12. HeapInv'
    BY <1>9, <1>10, <1>11 DEF HeapInv, IsPlain
  <1>13. f.read = "mph" => f.gen \in exposed
    BY <1>4, <1>7, <1>8 DEF MphInv, IsPlain
  <1>14. MphInv'
    BY <1>9, <1>10, <1>11, <1>13 DEF MphInv, MisreadOnlyAfterMphPage
  <1>15. EntriesInv'
    BY <1>9, <1>10, EntriesStay
  <1>16. PICK u : At(x, u) /\ DOMAIN u = DOMAIN w /\ u.pc \in {"pop", "store"} /\ u.ref = n
                  /\ u.key = w.key /\ u.asked = w.asked /\ u.who = w.who /\ u.caught = w.caught /\ u.base = w.base
                  /\ u.floor = w.floor
    <2>1. Len(objects') = New
      BY <1>9 DEF HeapInv, New
    <2>2. PICK v : v = [w EXCEPT !.ref = n]
      OBVIOUS
    <2>3. DOMAIN v = DOMAIN w /\ v.ref = n /\ v.key = w.key /\ v.asked = w.asked /\ v.who = w.who /\ v.caught = w.caught
          /\ v.base = w.base /\ v.floor = w.floor
      BY <1>6, <2>2
    <2>4. PICK a : a = [v EXCEPT !.pc = "pop", !.victim = personal[1].key]
      OBVIOUS
    <2>5. PICK s : s = [v EXCEPT !.pc = "store"]
      OBVIOUS
    <2>6. At(x, a) \/ At(x, s)
      <3>1. PICK m : m = IF Len(objects') = New THEN New ELSE work[x].ref
        OBVIOUS
      <3>2. m = n
        BY <1>2, <2>1, <3>1
      <3>3. At(x, IF IsFull THEN [[work[x] EXCEPT !.ref = m] EXCEPT !.pc = "pop", !.victim = personal[1].key]
                            ELSE [[work[x] EXCEPT !.ref = m] EXCEPT !.pc = "store"])
        BY <3>1, Zenon DEF Personalize
      <3> QED
        BY <1>1, <2>2, <2>4, <2>5, <3>2, <3>3
    <2>7. /\ DOMAIN a = DOMAIN w /\ a.pc = "pop" /\ a.ref = n /\ a.key = w.key /\ a.asked = w.asked
          /\ a.who = w.who /\ a.caught = w.caught /\ a.base = w.base /\ a.floor = w.floor
      BY <1>6, <2>3, <2>4
    <2>8. /\ DOMAIN s = DOMAIN w /\ s.pc = "store" /\ s.ref = n /\ s.key = w.key /\ s.asked = w.asked
          /\ s.who = w.who /\ s.caught = w.caught /\ s.base = w.base /\ s.floor = w.floor
      BY <1>6, <2>3, <2>5
    <2> QED
      BY <2>6, <2>7, <2>8
  <1>17. HasKey(u)'
    <2>1. Loaded(w)'
      BY <1>5, <1>9 DEF HasKey, HasBase, Loaded
    <2> QED
      BY <1>5, <1>9, <1>10, <1>16, <2>1 DEF HasKey, HasBase, Loaded, IsPlain
  <1>18. MadeFor(u.ref, u.key)'
    BY <1>4, <1>5, <1>8, <1>9, <1>10, <1>16 DEF MadeFor, HasKey, HeapInv
  <1>19. ThreadOK(u)'
    BY <1>6, <1>16, <1>17, <1>18 DEF ThreadOK
  <1> QED
    BY <1>10, <1>12, <1>14, <1>15, <1>16, <1>19, ThreadsStay

(* What is left of the cache was there before. *)
LEMMA RemoveAtKeeps ==
  ASSUME NEW S, NEW s \in Seq(S), NEW k \in DOMAIN s
  PROVE  /\ RemoveAt(s, k) \in Seq(S)
         /\ \A i \in DOMAIN RemoveAt(s, k) : \E j \in DOMAIN s : RemoveAt(s, k)[i] = s[j]
  <1> DEFINE a == SubSeq(s, 1, k - 1)
             b == SubSeq(s, k + 1, Len(s))
  <1>1. /\ a \in Seq(S) /\ Len(a) = k - 1 /\ k \in 1..Len(s) /\ Len(s) \in Nat
        /\ \A i \in 1..Len(a) : a[i] = s[i]
    OBVIOUS
  <1>2. /\ b \in Seq(S) /\ Len(b) = Len(s) - k
        /\ \A i \in 1..Len(b) : b[i] = s[i + k]
    OBVIOUS
  <1> HIDE DEF a, b
  <1>3. /\ a \o b \in Seq(S) /\ Len(a \o b) = Len(s) - 1
        /\ \A i \in 1..(Len(s) - 1) :
             (a \o b)[i] = IF i <= Len(a) THEN a[i] ELSE b[i - Len(a)]
    BY <1>1, <1>2, SMTT(20)
  <1>4. \A i \in 1..(Len(s) - 1) : (a \o b)[i] = IF i <= k - 1 THEN s[i] ELSE s[i + 1]
    <2> SUFFICES ASSUME NEW i \in 1..(Len(s) - 1)
                 PROVE  (a \o b)[i] = IF i <= k - 1 THEN s[i] ELSE s[i + 1]
      OBVIOUS
    <2>1. CASE i <= k - 1
      BY <1>1, <1>3, <2>1
    <2>2. CASE ~(i <= k - 1)
      <3>1. i - Len(a) \in 1..Len(b) /\ (i - Len(a)) + k = i + 1
        BY <1>1, <1>2, <2>2
      <3> QED
        BY <1>1, <1>2, <1>3, <2>2, <3>1
    <2> QED
      BY <2>1, <2>2
  <1>5. RemoveAt(s, k) = a \o b
    BY DEF RemoveAt, a, b
  <1>6. \A i \in 1..(Len(s) - 1) : i \in DOMAIN s /\ i + 1 \in DOMAIN s
    OBVIOUS
  <1>7. DOMAIN (a \o b) = 1..(Len(s) - 1)
    BY <1>3
  <1>8. \A i \in DOMAIN (a \o b) : \E j \in DOMAIN s : (a \o b)[i] = s[j]
    BY <1>4, <1>6, <1>7
  <1> QED
    BY <1>3, <1>5, <1>8

LEMMA EvictOK ==
  ASSUME DashboardInv, NEW x \in Threads, Evict(x)
  PROVE  DashboardInv'
  <1> USE DEF DashboardInv
  <1>1. HeapInv' /\ MphInv' /\ Kept
    BY QuietStep DEF Evict
  <1>2. PICK w : w = work[x]
    OBVIOUS
  <1>3. w.pc = "pop" /\ ThreadOK(w)
    BY <1>2 DEF Evict, ThreadsInv
  <1>4. DOMAIN w = {"pc", "who", "caught", "base", "ref", "key", "asked", "victim", "floor"}
    BY <1>3 DEF ThreadOK
  <1>5. CASE Find(w.victim) # {}
    <2>1. PICK k : k = CHOOSE i \in Find(w.victim) : TRUE
      OBVIOUS
    <2>2. k \in DOMAIN personal
      BY <1>5, <2>1 DEF Find
    <2>3. personal' = RemoveAt(personal, k)
      BY <1>2, <1>5, <2>1 DEF Evict
    <2>4. /\ \E S : personal' \in Seq(S)
          /\ \A i \in DOMAIN personal' : \E j \in DOMAIN personal : personal'[i] = personal[j]
      BY <2>2, <2>3, RemoveAtKeeps DEF EntriesInv
    <2>5. \A i \in DOMAIN personal' : EntryMade(personal[i])'
      <3>1. SUFFICES ASSUME NEW i \in DOMAIN personal' PROVE EntryMade(personal[i])'
        OBVIOUS
      <3>2. PICK j \in DOMAIN personal : personal'[i] = personal[j]
        BY <2>4
      <3>3. PICK e : e = personal[j]
        OBVIOUS
      <3>4. MadeFor(e.ref, e.key)'
        BY <1>1, <3>3, MadeForStays DEF EntriesInv, EntryMade
      <3> QED
        BY <3>2, <3>3, <3>4 DEF EntryMade
    <2>6. EntriesInv'
      BY <2>4, <2>5 DEF EntriesInv
    <2>7. PICK u : u = [w EXCEPT !.pc = "store"]
      OBVIOUS
    <2>8. At(x, u)
      BY <1>2, <1>5, <2>7 DEF Evict
    <2>9. /\ DOMAIN u = DOMAIN w /\ u.pc = "store" /\ u.key = w.key /\ u.who = w.who /\ u.asked = w.asked
          /\ u.caught = w.caught /\ u.base = w.base /\ u.ref = w.ref /\ u.floor = w.floor
      BY <1>4, <2>7
    <2>10. ThreadOK(u)
      BY <1>3, <1>4, <2>9 DEF ThreadOK, HasKey, HasBase, Loaded
    <2> QED
      BY <1>1, <2>6, <2>8, <2>10, ThreadStays, ThreadsStay
  <1>6. CASE Find(w.victim) = {}
    <2>1. PICK v : v = Rested
      OBVIOUS
    <2>2. ThreadOK(v)' /\ At(x, v) /\ UNCHANGED personal
      BY <1>2, <1>6, <2>1 DEF ThreadOK, Rested, Evict
    <2> QED
      BY <1>1, <2>2, ThreadsStay, EntriesStay
  <1> QED
    BY <1>5, <1>6

LEMMA StoreOK ==
  ASSUME DashboardInv, NEW x \in Threads, Store(x)
  PROVE  DashboardInv'
  <1> USE DEF DashboardInv
  <1>1. HeapInv' /\ MphInv' /\ Kept
    BY QuietStep DEF Store
  <1>2. PICK w : w = work[x]
    OBVIOUS
  <1>3. w.pc = "store" /\ ThreadOK(w) /\ Done(x, w, w.ref) /\ HasKey(w) /\ MadeFor(w.ref, w.key)
    BY <1>2 DEF Store, ThreadsInv, ThreadOK
  <1>4. DOMAIN w = {"pc", "who", "caught", "base", "ref", "key", "asked", "victim", "floor"}
    BY <1>3 DEF ThreadOK
  <1>5. PICK e : e = [key |-> w.key, ref |-> w.ref]
    OBVIOUS
  <1>6. EntryMade(e)'
    BY <1>1, <1>3, <1>5, MadeForStays DEF EntryMade
  <1>7. personal' = Put(personal, e)
    BY <1>2, <1>5 DEF Store
  <1>8. /\ \E S : personal' \in Seq(S)
        /\ \A i \in DOMAIN personal' :
             personal'[i] = e \/ (i \in DOMAIN personal /\ personal'[i] = personal[i])
    <2>1. PICK S : personal \in Seq(S)
      BY DEF EntriesInv
    <2>2. PICK T : T = S \union {e}
      OBVIOUS
    <2>3. CASE \E i \in DOMAIN personal : personal[i].key = e.key
      <3>1. personal' = [i \in DOMAIN personal |-> IF personal[i].key = e.key THEN e ELSE personal[i]]
        BY <1>7, <2>3 DEF Put
      <3>2. personal' \in [1..Len(personal) -> T] /\ Len(personal) \in Nat
        BY <2>1, <2>2, <3>1
      <3>3. personal' \in Seq(T)
        BY <3>2
      <3>4. \E Z : personal' \in Seq(Z)
        BY <3>3
      <3> QED
        BY <3>1, <3>4
    <2>4. CASE ~\E i \in DOMAIN personal : personal[i].key = e.key
      <3>1. personal' = Append(personal, e)
        BY <1>7, <2>4 DEF Put
      <3>2. personal \in Seq(T) /\ e \in T
        BY <2>1, <2>2
      <3>3. /\ personal' \in Seq(T)
            /\ \A i \in DOMAIN personal' :
                 personal'[i] = e \/ (i \in DOMAIN personal /\ personal'[i] = personal[i])
        BY <3>1, <3>2
      <3>4. \E Z : personal' \in Seq(Z)
        BY <3>3
      <3> QED
        BY <3>3, <3>4
    <2> QED
      BY <2>3, <2>4
  <1>9. \A i \in DOMAIN personal' : EntryMade(personal[i])'
    <2>1. SUFFICES ASSUME NEW i \in DOMAIN personal' PROVE EntryMade(personal[i])'
      OBVIOUS
    <2>2. CASE personal'[i] = e
      BY <1>6, <2>2 DEF EntryMade
    <2>3. CASE i \in DOMAIN personal /\ personal'[i] = personal[i]
      <3>1. PICK o : o = personal[i]
        OBVIOUS
      <3>2. MadeFor(o.ref, o.key)'
        BY <1>1, <2>3, <3>1, MadeForStays DEF EntriesInv, EntryMade
      <3> QED
        BY <2>3, <3>1, <3>2 DEF EntryMade
    <2> QED
      BY <1>8, <2>2, <2>3
  <1>10. EntriesInv'
    BY <1>8, <1>9 DEF EntriesInv
  <1>11. PICK u : u = [w EXCEPT !.pc = "done", !.ref = w.ref]
    OBVIOUS
  <1>12. /\ u.who = w.who /\ u.caught = w.caught /\ u.base = w.base /\ u.ref = w.ref
         /\ u.floor = w.floor
    BY <1>4, <1>11
  <1>13. HasForecast(u)'
    <2>1. PICK h : h = objects[w.ref].hour
      OBVIOUS
    <2>2. HourOfDay(w.asked) = HourOfDay(h) /\ w.asked \in w.floor..clock
      BY <1>3, <2>1 DEF MadeFor, HasKey, HasBase, Loaded, HeapInv
    <2>3. /\ UNCHANGED <<objects, clock>> /\ w.ref \in Refs
          /\ objects[w.ref].gen = objects[w.base].gen /\ objects[w.ref].for = Profile[w.who]
          /\ objects[w.ref].caught = w.caught
      BY <1>3 DEF MadeFor, HasKey, Store
    <2>4. HasBase(u)'
      BY <1>3, <1>12, <2>3 DEF HasKey, HasBase, Loaded, IsPlain, Refs
    <2>5. objects'[u.ref].hour = h /\ \E t \in u.floor..clock' : HourOfDay(t) = HourOfDay(h)
      BY <1>12, <2>1, <2>2, <2>3
    <2> QED
      BY <1>12, <2>3, <2>4, <2>5 DEF HasForecast, Refs, HourOfDay
  <1> QED
    BY <1>1, <1>3, <1>10, <1>11, <1>13, DoneOK

LEMMA RenderOK ==
  ASSUME DashboardInv, Render
  PROVE  DashboardInv'
  <1> USE DEF DashboardInv
  <1>1. PICK w : w = work["page"]
    OBVIOUS
  <1>2. PICK unit : unit = IF Units[w.who] = "mph" THEN "mph" ELSE objects[w.ref].wind
    OBVIOUS
  <1>3. /\ w.pc = "done" /\ HasForecast(w) /\ w.ref \in Refs
        /\ UNCHANGED <<clock, mem, row, made, personal>>
    BY <1>1 DEF Render, ThreadsInv, ThreadOK, Threads, HasForecast
  <1>4. objects' = [objects EXCEPT ![w.ref] = [objects[w.ref] EXCEPT !.wind = unit]]
    BY <1>1, <1>2, <1>3 DEF Render, HeapInv, Refs
  <1>5. unit \in WindUnits
    <2>1. objects[w.ref] \in Forecast
      BY <1>3 DEF HeapInv, Refs
    <2>2. objects[w.ref].wind \in WindUnits /\ "mph" \in WindUnits
      BY <2>1 DEF Forecast, WindUnits
    <2> QED
      BY <1>2, <2>2, Zenon
  <1>6. PICK f : f = [objects[w.ref] EXCEPT !.wind = unit]
    OBVIOUS
  <1>7. /\ f \in Forecast /\ f.gen = objects[w.ref].gen /\ f.for = objects[w.ref].for
        /\ f.caught = objects[w.ref].caught /\ f.hour = objects[w.ref].hour
        /\ f.read = objects[w.ref].read /\ f.wind = unit
    <2>1. objects[w.ref] \in Forecast
      BY <1>3 DEF HeapInv, Refs
    <2> QED
      BY <1>5, <1>6, <2>1 DEF Forecast
  <1>8. /\ objects' \in Seq(Forecast) /\ Refs' = Refs
        /\ objects'[w.ref] = f
        /\ \A i \in Refs : i # w.ref => objects'[i] = objects[i]
    BY <1>3, <1>4, <1>6, <1>7 DEF HeapInv, Refs
  <1>9. Kept
    BY <1>3, <1>7, <1>8 DEF Kept, HeapInv
  <1>10. HeapInv'
    BY <1>3, <1>7, <1>8 DEF HeapInv, IsPlain
  <1>11. exposed \subseteq exposed'
    BY DEF Render
  <1>12. f.hour = Nil /\ f.wind = "mph" => f.gen \in exposed'
    <2>1. CASE Units[w.who] = "mph"
      BY <1>1, <1>7, <2>1 DEF Render
    <2>2. CASE Units[w.who] # "mph"
      BY <1>2, <1>3, <1>7, <1>11, <2>2 DEF MphInv
    <2> QED
      BY <2>1, <2>2
  <1>13. MphInv'
    BY <1>3, <1>7, <1>8, <1>11, <1>12 DEF MphInv, MisreadOnlyAfterMphPage
  <1>14. PICK v : v = Rested
    OBVIOUS
  <1>15. ThreadOK(v)' /\ At("page", v) /\ "page" \in Threads
    BY <1>14 DEF ThreadOK, Rested, Render, Threads
  <1> QED
    BY <1>3, <1>9, <1>10, <1>13, <1>15, ThreadsStay, EntriesStay

LEMMA DashboardInvNext == DashboardInv /\ [DashboardNext]_dashboardVars => DashboardInv'
  <1> SUFFICES ASSUME DashboardInv, [DashboardNext]_dashboardVars PROVE DashboardInv'
    OBVIOUS
  <1>1. ASSUME NEW x \in Threads, ThreadSteps(x) PROVE DashboardInv'
    BY <1>1, LoadOK, GenerateOK, LookupOK, PersonalizeOK, EvictOK, StoreOK DEF ThreadSteps
  <1>2. Generate(Nil) => DashboardInv'
    BY GenerateOK
  <1>3. ASSUME Forget \/ HourPasses \/ (\E r \in Readers : LogCatch(r)) \/ UNCHANGED dashboardVars
        PROVE  DashboardInv'
    <2>1. HeapInv' /\ MphInv' /\ Kept
      <3>1. /\ UNCHANGED <<objects, row, made, exposed>>
            /\ mem' = mem \/ mem' = Nil
            /\ clock' = clock \/ clock' = clock + 1
        BY <1>3 DEF Forget, HourPasses, LogCatch, dashboardVars
      <3>2. clock \in Nat /\ clock' \in Nat /\ clock <= clock'
        BY <3>1 DEF DashboardInv, HeapInv
      <3>3. \A i \in Refs : objects[i].hour # Nil => objects[i].hour \in Nat
        <4>1. ASSUME NEW f \in Forecast, f.hour # Nil PROVE f.hour \in Nat
          BY <4>1 DEF Forecast
        <4>2. \A i \in Refs : objects[i] \in Forecast
          BY DEF DashboardInv, HeapInv, Refs
        <4> QED
          BY <4>1, <4>2
      <3>4. HeapInv'
        <4>1. \A i \in Refs' : objects'[i].hour # Nil => objects'[i].hour <= clock'
          BY <3>1, <3>2, <3>3 DEF DashboardInv, HeapInv, Refs
        <4>2. mem' # Nil => mem' \in Refs' /\ IsPlain(objects[mem])'
          BY <3>1 DEF DashboardInv, HeapInv, Refs, IsPlain
        <4> QED
          BY <3>1, <3>2, <4>1, <4>2 DEF DashboardInv, HeapInv
      <3> QED
        BY <3>1, <3>2, <3>4 DEF DashboardInv, MphInv, MisreadOnlyAfterMphPage, Kept, Refs
    <2>2. UNCHANGED <<personal, work>>
      BY <1>3 DEF Forget, HourPasses, LogCatch, dashboardVars
    <2>3. ThreadsInv'
      BY <2>1, <2>2, ThreadStays DEF DashboardInv, ThreadsInv
    <2> QED
      BY <2>1, <2>2, <2>3, EntriesStay DEF DashboardInv
  <1> QED
    BY <1>1, <1>2, <1>3, RenderOK DEF DashboardNext

(* Winds in miles per hour are taken for knots only in a forecast that a   *)
(* reader who has chosen them had seen as it is for anyone (views.py:167). *)
THEOREM MisreadsFollowMphPages == DashboardSpec => []MisreadOnlyAfterMphPage
  <1>1. DashboardInv => MisreadOnlyAfterMphPage
    BY DEF DashboardInv, MphInv
  <1> QED
    BY <1>1, DashboardInvInit, DashboardInvNext, PTL DEF DashboardSpec

LEMMA RenderShows ==
  ASSUME DashboardInv, Render
  PROVE  LET w == work["page"]
             given == objects'[w.ref]
         IN /\ given.gen = objects[w.base].gen
            /\ given.for = Profile[w.who] /\ given.caught = w.caught
            /\ given.hour # Nil => \E h \in w.floor..clock : HourOfDay(h) = HourOfDay(given.hour)
            /\ Units[w.who] = "mph" => given.wind = "mph"
  <1>1. PICK w : w = work["page"]
    OBVIOUS
  <1>2. HasForecast(w)
    BY <1>1 DEF DashboardInv, ThreadsInv, ThreadOK, Threads, Render
  <1>3. PICK f : f = objects[w.ref]
    OBVIOUS
  <1>4. /\ w.ref \in Refs /\ f \in Forecast /\ f.gen = objects[w.base].gen
        /\ f.for = Profile[w.who] /\ f.caught = w.caught
    BY <1>2, <1>3 DEF HasForecast, DashboardInv, HeapInv, Refs
  <1>5. f.hour # Nil => \E h \in w.floor..clock : HourOfDay(h) = HourOfDay(f.hour)
    BY <1>2, <1>3, <1>4 DEF HasForecast, HasBase, Loaded, DashboardInv, HeapInv, Forecast
  <1>6. PICK unit : unit = IF Units[w.who] = "mph" THEN "mph" ELSE f.wind
    OBVIOUS
  <1>7. objects' = [objects EXCEPT ![w.ref] = [f EXCEPT !.wind = unit]]
    BY <1>1, <1>3, <1>4, <1>6 DEF Render, DashboardInv, HeapInv, Refs
  <1>8. objects'[w.ref] = [f EXCEPT !.wind = unit]
    BY <1>4, <1>7 DEF DashboardInv, HeapInv, Refs
  <1>9. /\ objects'[w.ref].gen = f.gen /\ objects'[w.ref].for = f.for
        /\ objects'[w.ref].caught = f.caught /\ objects'[w.ref].hour = f.hour
        /\ objects'[w.ref].wind = unit
    BY <1>4, <1>8 DEF Forecast
  <1> QED
    BY <1>1, <1>4, <1>5, <1>6, <1>9

(* A page is of the forecast loaded for it and personalized for the        *)
(* reader, with the catches logged and as of an hour of the day that it    *)
(* was since it was asked for: no reader is given another's from the       *)
(* shared cache (domain/forecast.py:3778).                                 *)
THEOREM PagesAreTheReaders == DashboardSpec => PagesAreForTheirReader
  <1>1. DashboardInv /\ [DashboardNext]_dashboardVars =>
          [Render =>
             LET w == work["page"]
                 given == objects'[w.ref]
             IN /\ given.gen = objects[w.base].gen
                /\ given.for = Profile[w.who] /\ given.caught = w.caught
                /\ given.hour # Nil => \E h \in w.floor..clock : HourOfDay(h) = HourOfDay(given.hour)
                /\ Units[w.who] = "mph" => given.wind = "mph"]_dashboardVars
    BY RenderShows
  <1> QED
    BY <1>1, DashboardInvInit, DashboardInvNext, PTL DEF DashboardSpec, PagesAreForTheirReader
=============================================================================
