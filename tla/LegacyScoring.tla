--------------------------- MODULE LegacyScoring ---------------------------
(***************************************************************************)
(* The score of the Flask application: score_conditions of                 *)
(* domain/forecast.py, from which apps/api's was ported.  It is given the  *)
(* same signals and, in x, what the port leaves out: the tide, the ways    *)
(* the angler fishes and the limits they have set, and the water quality.  *)
(*                                                                         *)
(* Units as in Scoring.  The bonus for a big tidal range is never given:   *)
(* it looks for a "height", and services/noaa.py reports "height_ft" and   *)
(* "height_num".                                                           *)
(***************************************************************************)
EXTENDS Scoring, Sequences

FishingTypes == {"surf", "kayak", "fly", "wade", "jetty", "bridge", "charter", "offshore"}

(* The value beside the first bound that x does not exceed, or has not      *)
(* reached; otherwise when there is none.                                   *)
First(P(_), tiers, otherwise) ==
  LET fits == {i \in DOMAIN tiers : P(tiers[i][1])}
  IN IF fits = {} THEN otherwise ELSE tiers[CHOOSE i \in fits : \A j \in fits : i <= j][2]

UpTo(x, tiers, otherwise) == First(LAMBDA bound : x <= bound, tiers, otherwise)
Past(x, tiers)            == First(LAMBDA bound : x >= bound, tiers, 0)

WindScore(w) == UpTo(w, <<<<8, 14>>, <<12, 8>>, <<16, 2>>, <<20, -8>>, <<25, -16>>>>, -26)
WaveScore(h) == UpTo(h, <<<<3, 10>>, <<6, 6>>, <<10, -4>>, <<14, -12>>>>, -22)

_wind_orientation ==
  [pacific |-> "west", gulf |-> "gulf", hawaii |-> "hawaii", atlantic |-> "east"]

East == [on |-> {"S", "SE", "E", "SSE", "ESE", "SSW", "ENE", "NE"},
         off |-> {"N", "NW", "W", "NNW", "WNW", "NNE"}]
West == [on |-> {"W", "NW", "SW", "WNW", "WSW", "NNW", "SSW"},
         off |-> {"E", "NE", "SE", "ENE", "ESE", "NNE", "SSE"}]
Gulf == [on |-> {"S", "SSW", "SW", "SSE", "SE", "WSW", "ESE"},
         off |-> {"N", "NNE", "NE", "NNW", "NW", "ENE", "WNW"}]

_DIRS_BY_ORIENTATION ==
  [east |-> East, west |-> West, gulf |-> Gulf, hawaii |-> [on |-> {}, off |-> {}]]

DirectionScore(c) ==
  LET dirs == _DIRS_BY_ORIENTATION[_wind_orientation[c.region]]
  IN IF c.direction \in dirs.off THEN 4 ELSE IF c.direction \in dirs.on THEN -4 ELSE 0

If(condition, points) == IF condition THEN points ELSE 0

TemperatureScore(c) ==
  LET t == c.temperature
  IN IF t = Absent THEN 0
     ELSE If(~c.is_fallback, 1)
          + (IF 58 <= t /\ t <= 78 THEN 6
             ELSE IF (50 <= t /\ t < 58) \/ (78 < t /\ t <= 84) THEN 2 ELSE -4)

Within(s, t, minutes) == s - t <= minutes /\ t - s <= minutes

Moving(x) == x.tide_state \in {"Rising", "Falling"}

(* The hours of the turns are put on today's date.                          *)
TideScore(c, x) ==
  If(Moving(x), 2)
    + If(c.now # Absent /\ \E turn \in x.turns : Within(turn, c.now, 90), 3)

LightScore(c) ==
  IF c.now = Absent \/ c.sun = Absent THEN 0
  ELSE If(Within(c.now, c.sun.rise, 120), 4) + If(Within(c.now, c.sun.set, 120), 4)

RatingBonus == [Excellent |-> 8, Good |-> 4, Fair |-> 0, Poor |-> -6]

SolunarScore(c) ==
  IF c.solunar = Absent THEN 0
  ELSE LET i == c.solunar.illumination
       IN RatingBonus[c.solunar.rating]
          + (IF 40 <= i /\ i <= 85 THEN 2 ELSE If(i < 10 \/ 95 < i, 1))

(* mutant: the two limits the other way round *)
CharterScoreSwapped(c) == Past(c.wave, <<<<12, -5>>, <<8, -10>>>>) + If(c.wind >= 20, -6)

CharterScore(c) == Past(c.wave, <<<<12, -10>>, <<8, -5>>>>) + If(c.wind >= 20, -6)

TypeScore(c, x) ==
  LET ft == x.types
      calm == c.wave < 8
  IN If("kayak" \in ft, Past(c.wind, <<<<20, -16>>, <<15, -10>>, <<10, -4>>>>)
                          + Past(c.wave, <<<<6, -10>>, <<4, -4>>>>))
     + If("fly" \in ft, Past(c.wind, <<<<20, -12>>, <<15, -8>>, <<10, -3>>>>) + If(calm, 5))
     + If("wade" \in ft /\ "surf" \notin ft, If(calm, 4) + If(c.wind <= 8, 3))
     + If("jetty" \in ft, Past(c.wave, <<<<8, -12>>, <<4, -5>>>>))
     + If("bridge" \in ft, If(calm, 4) + If(Moving(x), 4))
     + If("charter" \in ft, CharterScore(c))
     + If("offshore" \in ft /\ "charter" \notin ft, Past(c.wave, <<<<12, -6>>, <<8, -2>>>>))

Over(value, limit) == limit # Absent /\ value > limit

LimitScore(c, x) == If(Over(c.wind, x.max_wind), -12) + If(Over(c.wave, x.max_wave), -12)

QualityScore(x) ==
  IF x.quality = Absent THEN 0
  ELSE If(x.quality.hab = "danger", -20) + If(x.quality.hab = "watch", -8)
       + If(x.quality.oxygen # Absent /\ x.quality.oxygen < 5, -6)

(* score_conditions *)
LegacyScore(c, x) ==
  IF Absent \in {c.wind, c.wave} THEN Absent
  ELSE LET s == 50 + WindScore(c.wind) + WaveScore(c.wave) + DirectionScore(c)
                   + TemperatureScore(c) + TideScore(c, x) + LightScore(c) + SolunarScore(c)
                   + TypeScore(c, x) + LimitScore(c, x) + QualityScore(x)
       IN IF s < 0 THEN 0 ELSE IF s > 100 THEN 100 ELSE s

LegacyVerdict(s) ==
  IF s = Absent THEN "Unknown"
  ELSE First(LAMBDA bound : s >= bound,
             <<<<80, "Excellent">>, <<64, "Good">>, <<48, "Fair">>, <<32, "Challenging">>>>, "Poor")
=============================================================================
