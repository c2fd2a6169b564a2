------------------------------ MODULE Scoring ------------------------------
(***************************************************************************)
(* apps/api/app/domain/scoring.py: the score of a forecast from 0 to 100.  *)
(* All impacts are whole, so round() changes nothing.  Wind is in knots,   *)
(* waves in half feet, temperatures in degrees F, times in minutes.  The   *)
(* wording and the order of the factors are left out.                      *)
(***************************************************************************)
EXTENDS Integers

CONSTANT Absent      \* None: what a source has not reported

Directions == {"N", "NNE", "NE", "ENE", "E", "ESE", "SE", "SSE",
               "S", "SSW", "SW", "WSW", "W", "WNW", "NW", "NNW"}

Regions == {"pacific", "gulf", "hawaii", "atlantic"}

(* The first word of conditions_region decides.                             *)
wind_orientation_for_region(region) ==
  CASE region = "pacific" -> "west"
    [] region \in {"gulf", "hawaii"} -> region
    [] OTHER -> "east"

onshore_dirs(orientation) ==
  CASE orientation = "west"   -> {"W", "NW", "SW", "WNW", "WSW", "NNW", "SSW"}
    [] orientation = "gulf"   -> {"S", "SSW", "SW", "SSE", "SE", "WSW", "ESE"}
    [] orientation = "hawaii" -> {}
    [] OTHER -> {"S", "SE", "E", "SSE", "ESE", "SSW", "ENE", "NE"}

offshore_dirs(orientation) ==
  CASE orientation = "west"   -> {"E", "NE", "SE", "ENE", "ESE", "NNE", "SSE"}
    [] orientation = "gulf"   -> {"N", "NNE", "NE", "NNW", "NW", "ENE", "WNW"}
    [] orientation = "hawaii" -> {}
    [] OTHER -> {"N", "NW", "W", "NNW", "WNW", "NNE"}

-----------------------------------------------------------------------------
WindImpact(w) ==
  CASE w <= 8  -> 14 [] w > 8 /\ w <= 12 -> 8 [] w > 12 /\ w <= 16 -> 2
    [] w > 16 /\ w <= 20 -> -8 [] w > 20 /\ w <= 25 -> -16 [] OTHER -> -26

WaveImpact(h) ==
  CASE h <= 3 -> 10 [] h > 3 /\ h <= 6 -> 6 [] h > 6 /\ h <= 10 -> -4
    [] h > 10 /\ h <= 14 -> -12 [] OTHER -> -22

DirectionImpact(c) ==
  LET o == wind_orientation_for_region(c.region)
  IN IF c.direction \in offshore_dirs(o) THEN 4
     ELSE IF c.direction \in onshore_dirs(o) THEN -4 ELSE 0

(* mutant: a temperature of 84 degrees is off-peak                          *)
TemperatureImpactBelow(t) ==
  IF t = Absent THEN 0
  ELSE IF 58 <= t /\ t <= 78 THEN 6
  ELSE IF 50 <= t /\ t < 84 THEN 2 ELSE -4

TemperatureImpact(t) ==
  IF t = Absent THEN 0
  ELSE IF 58 <= t /\ t <= 78 THEN 6
  ELSE IF 50 <= t /\ t <= 84 THEN 2 ELSE -4

LiveImpact(c) == IF c.temperature # Absent /\ ~c.is_fallback THEN 1 ELSE 0

Near(s, t) == -120 <= s - t /\ s - t <= 120

LightImpact(c) ==
  IF c.now = Absent \/ c.sun = Absent THEN 0
  ELSE (IF Near(c.now, c.sun.rise) THEN 4 ELSE 0) + (IF Near(c.sun.set, c.now) THEN 4 ELSE 0)

RatingImpact(r) ==
  CASE r = "Excellent" -> 8 [] r = "Good" -> 4 [] r = "Poor" -> -6 [] OTHER -> 0

IlluminationImpact(i) ==
  IF 40 <= i /\ i <= 85 THEN 2 ELSE IF i < 10 \/ i > 95 THEN 1 ELSE 0

SolunarImpact(c) ==
  IF c.solunar = Absent THEN 0
  ELSE RatingImpact(c.solunar.rating) + IlluminationImpact(c.solunar.illumination)

Clamped(s) == IF s < 0 THEN 0 ELSE IF s > 100 THEN 100 ELSE s

Verdict(s) ==
  CASE s = Absent -> "Unknown" [] s # Absent /\ s >= 80 -> "Excellent"
    [] s # Absent /\ s >= 64 /\ s < 80 -> "Good" [] s # Absent /\ s >= 48 /\ s < 64 -> "Fair"
    [] s # Absent /\ s >= 32 /\ s < 48 -> "Challenging" [] OTHER -> "Poor"

(* score_conditions *)
Score(c) ==
  IF c.wind = Absent \/ c.wave = Absent THEN Absent
  ELSE Clamped(50 + WindImpact(c.wind) + WaveImpact(c.wave) + DirectionImpact(c)
                  + TemperatureImpact(c.temperature) + LiveImpact(c) + LightImpact(c)
                  + SolunarImpact(c))
=============================================================================
