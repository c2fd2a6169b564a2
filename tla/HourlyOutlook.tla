--------------------------- MODULE HourlyOutlook ---------------------------
(***************************************************************************)
(* apps/api/app/domain/timing.py: the 24 hours of build_hourly_outlook.    *)
(*                                                                         *)
(* A day is a record: the quarters of an hour since midnight at which the  *)
(* sun rises and sets, the solunar periods as pairs of quarters (one that  *)
(* passes midnight ends before it starts), the tides of today as pairs of  *)
(* a quarter and a kind, the moon's illumination, and the low end of the   *)
(* wind range in knots.  Activity is in eightieths of a point, and the     *)
(* night and the moon weigh in with 160ths, so that nothing is rounded     *)
(* before the level is; the code's floats may be off by a level where the  *)
(* exact value is a whole or a half.                                       *)
(***************************************************************************)
EXTENDS FiniteSetsExt, SequencesExt

CONSTANT NoWind      \* wind_range None

Hours == 0..23

Distance(q, h) == IF q > 4 * h THEN q - 4 * h ELSE 4 * h - q

(* round(q / 4) % 24, a half going to the even hour. *)
NearestHour(q) ==
  LET h == q \div 4
      up == q % 4 = 3 \/ (q % 4 = 2 /\ h % 2 = 1)
  IN (IF up THEN h + 1 ELSE h) % 24

SunBoost(q, h) == IF Distance(q, h) < 6 THEN 400 * (6 - Distance(q, h)) ELSE 0

(* mutant: a period ends before its last hour *)
InPeriodOpen(p, h) == p[1] <= 4 * h /\ 4 * h < p[2]

InPeriod(p, h) == p[1] <= 4 * h /\ 4 * h <= p[2]

AtEdge(p, h) == Distance(p[1], h) < 4 \/ Distance(p[2], h) < 4

PeriodBoost(periods, h, within, edge) ==
  SumFunction([p \in periods |->
                 IF InPeriod(p, h) THEN within ELSE IF AtEdge(p, h) THEN edge ELSE 0])

TideBoost(t, h) ==
  IF Distance(t[1], h) < 8
  THEN (IF t[2] = "high" THEN 200 ELSE 120) * (8 - Distance(t[1], h)) ELSE 0

Weight(d, h) ==
  (IF h \in {23, 0, 1, 2, 3, 4} THEN 28 ELSE 40)
    * (IF d.illumination >= 70 /\ h \in {21, 22, 23, 0, 1, 2, 3} THEN 5 ELSE 4)

Activity(d, h) ==
  Weight(d, h)
    * (1200 + SunBoost(d.rise, h) + SunBoost(d.set, h)
         + PeriodBoost(d.majors, h, 2800, 1200) + PeriodBoost(d.minors, h, 1600, 640)
         + SumFunction([i \in DOMAIN d.tides |-> TideBoost(d.tides[i], h)]))

(* 25 and 15 mph in knots *)
WindMultiplier(w) ==
  IF w = NoWind THEN 100
  ELSE IF w * 115078 >= 2500000 THEN 65 ELSE IF w * 115078 >= 1500000 THEN 82 ELSE 100

RoundHalfEven(n, m) ==
  LET q == n \div m
      r == 2 * (n % m)
  IN IF r > m \/ (r = m /\ q % 2 = 1) THEN q + 1 ELSE q

Level(d) ==
  LET activity == [h \in Hours |-> Activity(d, h)]
      max_val  == Max(Range(activity))
  IN [h \in Hours |-> RoundHalfEven(activity[h] * WindMultiplier(d.wind), max_val)]

_tag_for_level(level) ==
  IF level >= 75 THEN "prime" ELSE IF level >= 50 THEN "high"
  ELSE IF level >= 30 THEN "med" ELSE "low"

Reasons(d, h) ==
  {r \in {"Dawn", "Dusk", "Major solunar", "Minor solunar", "High tide", "Low tide"} :
     CASE r = "Dawn" -> SunBoost(d.rise, h) > 640
       [] r = "Dusk" -> SunBoost(d.set, h) > 640
       [] r = "Major solunar" -> \E p \in d.majors : InPeriod(p, h)
       [] r = "Minor solunar" -> \E p \in d.minors : InPeriod(p, h)
       [] OTHER -> \E i \in DOMAIN d.tides :
            /\ Distance(d.tides[i][1], h) < 4
            /\ d.tides[i][2] = IF r = "High tide" THEN "high" ELSE "low"}

Feeding(d, h) ==
  IF \E p \in d.majors : InPeriod(p, h) THEN "major"
  ELSE IF \E p \in d.minors : InPeriod(p, h) THEN "minor" ELSE "none"

(* The sunset is entered last, and the later of two tides. *)
SunEvent(d, h) ==
  IF NearestHour(d.set) = h THEN "sunset"
  ELSE IF NearestHour(d.rise) = h THEN "sunrise" ELSE "none"

TideEvent(d, h) ==
  LET at == {i \in DOMAIN d.tides : NearestHour(d.tides[i][1]) = h}
  IN IF at = {} THEN "none" ELSE d.tides[Max(at)][2]

(* build_hourly_outlook *)
Outlook(d) ==
  LET level == Level(d)
      peak  == Max(Range(level))
  IN [h \in Hours |->
        [level |-> level[h], tag |-> _tag_for_level(level[h]),
         peak |-> level[h] = peak /\ peak >= 50, reasons |-> Reasons(d, h),
         sun |-> SunEvent(d, h), tide |-> TideEvent(d, h), feeding |-> Feeding(d, h)]]
=============================================================================
