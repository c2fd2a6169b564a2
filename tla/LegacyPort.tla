----------------------------- MODULE LegacyPort -----------------------------
(***************************************************************************)
(* The score and the outlook of apps/api beside those of the Flask         *)
(* application they were ported from, on the same inputs, while the wind   *)
(* freshens and the seas build.                                            *)
(***************************************************************************)
EXTENDS LegacyScoring, LegacyOutlook

CONSTANTS Winds, Waves,     \* knots, half feet
          Signals,          \* the other conditions a score is given
          Anglers,          \* the tide, profiles and water qualities LegacyScore is given
          Days, NoDay       \* what the outlooks are given; NoDay, nothing to compare

Maybe(S) == S \union {Absent}

ASSUME PortAssumption ==
  /\ Winds \subseteq Int /\ Waves \subseteq Int /\ Absent \notin Int
  /\ Signals \subseteq
       [wind : {Absent}, wave : {Absent}, region : Regions, direction : Directions \union {""},
        temperature : Maybe(Int), is_fallback : BOOLEAN, now : Maybe(Int),
        sun : Maybe([rise : Int, set : Int]),
        solunar : Maybe([rating : DOMAIN RatingBonus, illumination : Int])]
  /\ Days \subseteq
       [wind : {Absent}, rise : Int, set : Int, majors : SUBSET (Int \X Int),
        minors : SUBSET (Int \X Int), tides : Seq(Int \X {"high", "low"}), illumination : Int]
  /\ \A d \in Days : IsFiniteSet(d.majors) /\ IsFiniteSet(d.minors)
  /\ \A x \in Anglers : x.max_wind \in Maybe(Int) /\ x.max_wave \in Maybe(Int)

(* What LegacyScore is given of no tide, profile and quality.               *)
NoAngler == [tide_state |-> "", turns |-> {}, types |-> {}, max_wind |-> Absent,
             max_wave |-> Absent, quality |-> Absent]

VARIABLES wind, wave, signals, angler, day

portVars == <<wind, wave, signals, angler, day>>

With(s, w, h) == [s EXCEPT !.wind = w, !.wave = h]

Conditions == With(signals, wind, wave)

Today == [day EXCEPT !.wind = wind]

PortInit ==
  /\ wind \in Maybe(Winds) /\ wave \in Maybe(Waves)
  /\ signals \in Signals /\ angler \in Anglers \union {NoAngler} /\ day \in Days \union {NoDay}

(* The next value of S after n, if there is one. *)
Above(S, n) == {m \in S : m > n /\ \A k \in S : k > n => m <= k}

FreshenWind ==
  /\ wind # Absent /\ wind' \in Above(Winds, wind)
  /\ UNCHANGED <<wave, signals, angler, day>>

BuildSeas ==
  /\ wave # Absent /\ wave' \in Above(Waves, wave)
  /\ UNCHANGED <<wind, signals, angler, day>>

PortNext == FreshenWind \/ BuildSeas

PortSpec == PortInit /\ [][PortNext]_portVars

-----------------------------------------------------------------------------
(* "All thresholds, point values, and verdict tiers are unchanged from the  *)
(* legacy function": without what the port leaves out, the two agree.       *)
PortedScoreAgrees ==
  LET legacy == LegacyScore(Conditions, NoAngler)
  IN angler = NoAngler =>
       Score(Conditions) = legacy /\ Verdict(Score(Conditions)) = LegacyVerdict(legacy)

(* More wind or higher seas never score higher, whatever the angler fishes  *)
(* for: the adjustments of the fishing types and the limits, each with      *)
(* thresholds of its own, never take back more than the sea state costs.    *)
WorseSeasNeverScoreHigher ==
  [][wind # Absent /\ wave # Absent =>
       /\ Score(Conditions)' <= Score(Conditions)
       /\ LegacyScore(Conditions, angler)' <= LegacyScore(Conditions, angler)]_portVars

SameHours ==
  LET ported == Outlook(Today)
      legacy == Timeline(Today)
  IN \A h \in Hours :
       /\ \A field \in {"reasons", "sun", "tide", "feeding"} : ported[h][field] = legacy[h][field]
       /\ ported[h].level - legacy[h].level \in 0..2

(* The port's outlook is the legacy timeline, but for rounding: the same     *)
(* reasons, events and feeding bands, and levels at most two higher, as     *)
(* long as the wind is of the same class for both.                          *)
OutlooksAgreeInEqualWind ==
  day # NoDay /\ WindMultiplier(wind) = condition_mult(wind_speed(Today)) => SameHours
=============================================================================
