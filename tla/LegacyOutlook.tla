--------------------------- MODULE LegacyOutlook ---------------------------
(***************************************************************************)
(* build_activity_timeline of domain/forecast.py in the Flask application, *)
(* from which HourlyOutlook was ported, for the same days.  The multiplier *)
(* of the pressure trend, which the port leaves out, is 1.                 *)
(***************************************************************************)
EXTENDS HourlyOutlook

Magnitude(n) == IF n < 0 THEN -n ELSE n

(* What one thing that happens at quarter q adds to hour h: at most most,   *)
(* falling to nothing at radius quarters.                                   *)
Slope(q, h, most, radius) ==
  IF Magnitude(4 * h - q) >= radius THEN 0 ELSE (80 * most * (radius - Magnitude(4 * h - q))) \div radius

Sun(d, h) == Slope(d.rise, h, 30, 6) + Slope(d.set, h, 30, 6)

Solunar(periods, h, points, edge) ==
  SumFunction([p \in periods |->
                 IF 4 * h \in p[1]..p[2] THEN 80 * points
                 ELSE IF {Magnitude(4 * h - p[1]), Magnitude(4 * h - p[2])} \intersect 0..3 # {}
                 THEN 80 * edge ELSE 0])

Tides(d, h) ==
  SumFunction([i \in DOMAIN d.tides |->
                 Slope(d.tides[i][1], h, IF d.tides[i][2] = "high" THEN 20 ELSE 12, 8)])

(* Times 7/10 at night, and 5/4 under a bright moon. *)
TimelineActivity(d, h) ==
  LET day   == 15 * 80 + Sun(d, h) + Solunar(d.majors, h, 35, 15) + Solunar(d.minors, h, 20, 8)
                       + Tides(d, h)
      night == IF h >= 23 \/ h <= 4 THEN 7 * day ELSE 10 * day
  IN IF d.illumination >= 70 /\ (h >= 21 \/ h <= 3) THEN 5 * night ELSE 4 * night

(* The first number of conditions["wind"], "SW 10-15 kt".                   *)
wind_speed(d) == IF d.wind = NoWind THEN 0 ELSE d.wind

condition_mult(speed) == IF speed >= 25 THEN 65 ELSE IF speed >= 15 THEN 82 ELSE 100

(* int() of the normalized activity, and again of what is left of it. *)
TimelineLevel(d) ==
  LET activity == [h \in Hours |-> TimelineActivity(d, h)]
      max_val  == Max(Range(activity))
      mult     == condition_mult(wind_speed(d))
  IN [h \in Hours |-> (((activity[h] * 100) \div max_val) * mult) \div 100]

TimelineReasons(d, h) ==
  LET At(q, most, radius) == Slope(q, h, most, radius)
      Tide(kind) == \E i \in DOMAIN d.tides : d.tides[i][2] = kind /\ Magnitude(4 * h - d.tides[i][1]) < 4
      In(periods) == \E p \in periods : 4 * h \in p[1]..p[2]
  IN {r \in {"Dawn"} : At(d.rise, 30, 6) > 8 * 80} \union {r \in {"Dusk"} : At(d.set, 30, 6) > 8 * 80}
     \union {r \in {"Major solunar"} : In(d.majors)} \union {r \in {"Minor solunar"} : In(d.minors)}
     \union {r \in {"High tide"} : Tide("high")} \union {r \in {"Low tide"} : Tide("low")}

(* int(round(q / 4)) % 24 *)
Column(q) == RoundHalfEven(q, 4) % 24

(* The last of the tides that round to hour h is the one it shows. *)
TimelineTide(d, h) ==
  LET at == {i \in DOMAIN d.tides : Column(d.tides[i][1]) = h}
  IN IF at = {} THEN "none" ELSE d.tides[Max(at)][2]

(* build_activity_timeline *)
Timeline(d) ==
  LET level == TimelineLevel(d)
      In(periods, h) == \E p \in periods : 4 * h \in p[1]..p[2]
  IN [h \in Hours |->
        [level |-> level[h], tag |-> _tag_for_level(level[h]),
         peak |-> level[h] >= 50 /\ \A g \in Hours : level[g] <= level[h],
         reasons |-> TimelineReasons(d, h),
         sun |-> IF Column(d.set) = h THEN "sunset"
                 ELSE IF Column(d.rise) = h THEN "sunrise" ELSE "none",
         tide |-> TimelineTide(d, h),
         feeding |-> IF In(d.majors, h) THEN "major" ELSE IF In(d.minors, h) THEN "minor" ELSE "none"]]
=============================================================================
