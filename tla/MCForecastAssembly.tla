------------------------- MODULE MCForecastAssembly -------------------------
(* Small instances of ForecastAssembly and LegacyPort for TLC: how a        *)
(* forecast comes to its conditions, and what it makes of them.  Each       *)
(* behaviour shows one of the two.                                          *)
EXTENDS ForecastAssembly, LegacyPort, LegacySpecies

VARIABLE part

forecastVars == <<assemblyVars, portVars, speciesVars, part>>

Plain == [wind |-> Absent, wave |-> Absent, region |-> "atlantic", direction |-> "", temperature |-> 70,
          is_fallback |-> TRUE, now |-> Absent, sun |-> Absent, solunar |-> Absent]

(* Every value of each signal, the others plain or, for the score to be     *)
(* within its limits or beyond, good.                                       *)
MCSignals ==
  LET suns == {[rise |-> 360, set |-> 480], [rise |-> 400, set |-> 1100]}
      solunars == [rating : {"Excellent", "Good", "Fair", "Poor"}, illumination : {9, 10, 40, 85, 86, 96}]
      Good == [Plain EXCEPT !.now = 390, !.sun = [rise |-> 400, set |-> 480]]
  IN {Plain} \union {[s EXCEPT !.region = r, !.direction = d] : s \in {Plain, Good}, r \in Regions, d \in Directions}
     \union {[Plain EXCEPT !.temperature = t, !.is_fallback = f] :
               t \in {Absent, 49, 50, 57, 58, 78, 79, 84, 85}, f \in BOOLEAN}
     \union {[Plain EXCEPT !.now = n, !.sun = s] : n \in {Absent, 239, 240, 480, 521}, s \in suns}
     \union {[s EXCEPT !.solunar = v] : s \in {Plain, Good}, v \in solunars}

(* All sets of fishing types, and with two of them the rest of a profile.   *)
MCAnglers ==
  {[NoAngler EXCEPT !.types = t] : t \in SUBSET FishingTypes}
  \union [tide_state : {"", "Rising"}, turns : {{}, {390}, {600}}, types : {{"bridge"}, {"fly", "wade"}},
          max_wind : {Absent, 13}, max_wave : {Absent, 5},
          quality : {Absent} \union [hab : {"", "watch", "danger"}, oxygen : {Absent, 4, 5}]]

(* A period of this half-length around a quarter of the day. *)
Around(q, half) == <<(q + 96 - half) % 96, (q + half) % 96>>

MCDays ==
  {[wind |-> Absent, rise |-> r, set |-> r + 51, majors |-> {Around(m, 4), Around(m + 49, 4)},
    minors |-> {Around(m + 23, 2), Around(m + 73, 2)},
    tides |-> <<<<t, "high">>, <<t + 24, "low">>, <<t + 50, "high">>, <<t + 74, "low">>>>,
    illumination |-> i] :
     r \in {22, 25}, m \in {1, 10, 18, 27, 44}, t \in {0, 7, 18}, i \in {69, 70}}

Fish == [methods |-> {}, offshore |-> FALSE, targets |-> {}, survives |-> <<50, 90>>, ideal |-> <<65, 80>>,
         peak |-> 4..6, good |-> {3, 7, 8}, likes |-> {}]

MCCatalog ==
  <<[Fish EXCEPT !.methods = {"inshore", "bridge"}, !.targets = {"bottom", "structure"}, !.good = 1..12],
    [Fish EXCEPT !.methods = {"surf", "fly"}, !.likes = {"onshore", "rough", "low light"}],
    [Fish EXCEPT !.methods = {"charter", "kayak"}, !.offshore = TRUE, !.likes = {"calm", "daylight"}],
    [Fish EXCEPT !.methods = {"pier"}, !.targets = {"structure"}, !.survives = <<70, 80>>, !.ideal = <<75, 75>>]>>

Rule == [bag |-> "5", season |-> {}, notes |-> {"slot limit"}, windows |-> {}]
Window(says, from, to) == [Rule EXCEPT !.windows = {[says |-> says, from |-> from, to |-> to]}]
Saying(season, notes) == [Rule EXCEPT !.season = season, !.notes = notes]

MCRules ==
  {NoRule, Rule, [Rule EXCEPT !.bag = "", !.notes = {}], [Rule EXCEPT !.bag = NumberZero],
   [Rule EXCEPT !.bag = "0/day"], [Rule EXCEPT !.bag = "not retained"],
   Window("open", 5, 9), Window("open", 10, 3), Window("months alone", 4, 12),
   Window("months alone", 7, 2), Window("closed", 11, 4), Window("closed in other words", 1, 5),
   [Window("open", 5, 9) EXCEPT !.season = {"open year-round"}],
   [Window("open", 5, 9) EXCEPT !.windows = @ \union {[says |-> "months alone", from |-> 11, to |-> 12]}],
   [Window("open", 6, 9) EXCEPT !.windows = @ \union {[says |-> "closed", from |-> 1, to |-> 2]}],
   Saying({"open"}, {"endangered species"}), Saying({"open"}, {"prohibited from retention"}),
   Saying({"open year-round"}, {"must be released"}), Saying({"no harvest"}, {}),
   Saying({"often closed"}, {}), Saying({"seasonal"}, {}), Saying({}, {"some areas: season closed"}),
   Saying({"closed season"}, {"harvest tag required"})}

(* Few of the rules for most of the species. *)
MCRuleBooks ==
  {[p \in 1..4 |-> NoRule]} \union
  {book \in [1..4 -> MCRules] :
     /\ book[1] \in {Rule, Window("closed", 11, 4)} /\ book[2] \in {NoRule, Window("closed", 4, 4)}
     /\ book[3] \in {Rule, Window("closed", 1, 4), Window("open", 10, 3), Saying({"open"}, {"endangered species"})}}

MCSkies ==
  {[coast |-> "gulf", direction |-> "S", wind |-> 25, wave |-> 6, hour |-> 6],
   [coast |-> "west", direction |-> "E", wind |-> 9, wave |-> 1, hour |-> 20]}

PortParts == {"signals", "anglers", "days"}

ForecastInit ==
  /\ part \in {"assembly", "rules", "profile"} \union PortParts
  /\ location \in IF part = "assembly" THEN Locations
                   ELSE [stations : {{}}, west : {Min(Wests)}, miles : {NoMiles}]
  /\ signals \in IF part = "signals" THEN Signals ELSE {Plain}
  /\ angler \in IF part = "anglers" THEN Anglers ELSE {NoAngler}
  /\ day \in IF part = "days" THEN Days ELSE {NoDay}
  /\ wind \in IF part \notin PortParts THEN {Absent} ELSE {Min(Winds), Absent}
  /\ wave \in IF part \notin {"signals", "anglers"} THEN {Absent} ELSE {Min(Waves), Absent}
  /\ sky \in IF part = "rules" THEN Skies ELSE {CHOOSE s \in Skies : TRUE}
  /\ rules \in IF part = "rules" THEN RuleBooks ELSE {[p \in Places |-> NoRule]}
  /\ warmth \in IF part = "rules" THEN {60} ELSE {40}
  /\ month \in IF part = "rules" THEN {1} ELSE {4}
  /\ methods \in IF part = "profile" THEN SUBSET Methods ELSE {{}}
  /\ targets = {}
  /\ AssemblyInit /\ PortInit /\ SpeciesInit

ForecastNext ==
  /\ UNCHANGED part
  /\ \/ part = "assembly" /\ AssemblyNext /\ UNCHANGED <<portVars, speciesVars>>
     \/ part \in PortParts /\ PortNext /\ UNCHANGED <<assemblyVars, speciesVars>>
     \/ part = "rules" /\ (MonthPasses \/ WaterWarms) /\ UNCHANGED <<assemblyVars, portVars>>
     \/ part = "profile" /\ TakeUp /\ UNCHANGED <<assemblyVars, portVars>>

ForecastSpec == ForecastInit /\ [][ForecastNext]_forecastVars
=============================================================================
