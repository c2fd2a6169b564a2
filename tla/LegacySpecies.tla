--------------------------- MODULE LegacySpecies ---------------------------
(***************************************************************************)
(* "What's biting" of the Flask application: which species a page          *)
(* recommends, in which order, and which it warns about.  Covers           *)
(* build_species_ranking and what it calls in domain/species.py, the       *)
(* verdict on a species' rules in regulations.py, and the closure advisory *)
(* of domain/forecast.py.                                                  *)
(*                                                                         *)
(* Abstracted: the catalog of species is Catalog, in its file's order; a   *)
(* species' sets of names are fields of its record.  The text of a rule is *)
(* the phrases and windows of months it holds.  Degrees are whole; winds   *)
(* and waves are the averages of their ranges, in half knots and half      *)
(* feet; points are in Unit-ths, exact when the widths of the ranges of    *)
(* temperatures divide 50 * Unit.                                          *)
(***************************************************************************)
EXTENDS LegacyScoring, SequencesExt

CONSTANTS Catalog,        \* a sequence of species
          NoRule,         \* what is looked up of a species without one
          RuleBooks,      \* what the rules may be: [1..Len(Catalog) -> rules]
          Skies,          \* [coast, direction, wind, wave, hour] of a forecast
          Temperatures,
          Targets,        \* "bottom", "pelagic", ...: kinds of fish to go for
          MaxShown,       \* 10 in the code
          MaxWarned       \* 4 in the code

Places == DOMAIN Catalog
Months == 1..12

(* The three methods that are one for the sets of species they reach.       *)
Inshore == {"inshore", "wade", "fly"}
Methods == Inshore \union {"surf", "pier", "jetty", "bridge", "kayak", "charter", "offshore"}

(* Those of the code, and unread: what the rules of the repository also say *)
(* of a fish to be let go.  What they say of its size is not read at all,   *)
(* and is among the unread.                                                 *)
Phrases ==
  [missing     |-> {"species-specific limits were not found"},
   year_round  |-> {"open year-round", "year-round", "closed year-round", "prohibited year-round"},
   prohibited  |-> {"closed year-round", "federally protected", "endangered species", "prohibited year-round"},
   closed      |-> {"season closed", "closed season"},
   released    |-> {"catch and release only", "harvest prohibited", "possession prohibited", "cannot be retained"},
   partly      |-> {"must be released", "no harvest"},
   permit      |-> {"harvest tag required", "harvest permit required"},
   hedged      |-> {"some areas", "some areas: season closed", "may be closed", "varies by area"},
   unread      |-> {"not retained", "prohibited from retention", "catch-and-release", "no take", "often closed"},
   other       |-> {"open", "seasonal", "check with the state", "slot limit"}]

NumberZero == "the number 0"
NoneToKeep == {"0", "0/day", "0 per day", "0 fish", "0 - prohibited"}

(* What a window of months stands after: the word the code looks for, the   *)
(* words for a closure it does not ("Closed Jan 1-May 31", "Protected       *)
(* during spawning (May-Jun)"), or none ("Apr 1 - Dec 31").                 *)
Windows == [says : {"open", "closed", "closed in other words", "months alone"}, from : Months, to : Months]

ASSUME SpeciesAssumption ==
  /\ MaxShown \in Nat \ {0} /\ MaxWarned \in Nat \ {0} /\ Temperatures \subseteq Int
  /\ Catalog \in Seq(Range(Catalog))
  /\ \A p \in Places :
       /\ Catalog[p].survives \in Int \X Int /\ Catalog[p].ideal \in Int \X Int
       /\ Catalog[p].methods \subseteq Methods \ {"offshore"}
       /\ Catalog[p].offshore \in BOOLEAN /\ Catalog[p].targets \subseteq Targets
  /\ \A book \in RuleBooks, p \in Places :
       book[p] # NoRule => book[p].windows \subseteq Windows

VARIABLES month, warmth, methods, targets, rules, sky

speciesVars == <<month, warmth, methods, targets, rules, sky>>

-----------------------------------------------------------------------------
(* The rules.                                                               *)

(* str(details.get("bag_limit") or ""), when the rules are loaded. *)
BagText(rule) == {rule.bag} \ {NumberZero, ""}

Says(texts, kind) == texts \intersect Phrases[kind] # {}

(* mutant: a window over the turn of the year is taken for an empty one *)
MonthsWithoutWrap(windows) == UNION {w.from..w.to : w \in windows}

MonthsOf(windows) ==
  UNION {IF w.to >= w.from THEN w.from..w.to ELSE (w.from..12) \union (1..w.to) : w \in windows}

(* The pattern wants the months next to the dash: "closed Jan 1-May 31" is  *)
(* not one.                                                                 *)
_parse_closed_months_text(rule) == MonthsOf({w \in rule.windows : w.says = "closed"})
_parse_open_months_text(rule)   == MonthsOf({w \in rule.windows : w.says = "open"})

(* What holds first of a rule decides. *)
Verdicts(rule, m) ==
  LET bag      == BagText(rule)
      combined == bag \union rule.season \union rule.notes
  IN <<[is |-> "unknown", if |-> (combined = {} /\ rule.windows = {}) \/ Says(rule.notes, "missing")],
       [is |-> "prohibited", if |-> Says(combined, "prohibited")],
       [is |-> "out_of_season", if |-> m \in _parse_closed_months_text(rule) \/ Says(combined, "closed")],
       [is |-> "catch_and_release",
        if |-> \/ Says(combined, "released") \/ Says(bag \union rule.season, "partly")
               \/ bag \intersect NoneToKeep # {}],
       [is |-> "restricted",
        if |-> \/ Says(combined, "permit") \/ Says(combined, "hedged") \/ "seasonal" \in rule.season
               \/ "check with the state" \in rule.season /\ "open year-round" \notin rule.season],
       [is |-> "legal", if |-> TRUE]>>

classify_legality(rule, m) ==
  IF rule = NoRule THEN "unknown"
  ELSE LET v == Verdicts(rule, m) IN v[Min({i \in DOMAIN v : v[i].if})].is

should_hide_from_forecast(status) == status # "legal"

season_status(rule, m) ==
  LET text   == rule.season \union rule.notes
      closed == _parse_closed_months_text(rule)
      open   == _parse_open_months_text(rule)
      Badge(isOpen) == IF isOpen THEN "open" ELSE "closed"
  IN IF Says(text, "year_round") THEN "open"
     ELSE IF closed # {} THEN Badge(m \notin closed)
     ELSE IF open # {} THEN Badge(m \in open)
     ELSE IF "open" \in text THEN "open" ELSE "unknown"

-----------------------------------------------------------------------------
(* The angler.                                                              *)

(* The sets of species a method reaches: bridges are fished from piers and  *)
(* inshore, and jetties from piers.                                         *)
Reaches(method) ==
  CASE method = "surf"    -> {"surf"}
    [] method = "pier"    -> {"pier", "jetty", "bridge"}
    [] method = "jetty"   -> {"pier", "jetty"}
    [] method = "bridge"  -> {"pier", "bridge"}
    [] method \in Inshore -> Inshore \union {"bridge"}
    [] method = "kayak"   -> {"kayak"}
    [] method = "charter" -> {"charter"}
    [] OTHER              -> {}

(* mutant: a species of a method fished as well is still for charters only *)
FiltersForCharter(sp, types, wanted) ==
  /\ types # {} => /\ sp.offshore => types \intersect {"offshore", "charter", "kayak"} # {}
                   /\ "charter" \in types => "charter" \in sp.methods
                   /\ types = {"fly"} => "fly" \in sp.methods
                   /\ \/ sp.methods = {} \/ sp.offshore
                      \/ sp.methods \intersect UNION {Reaches(t) : t \in types} # {}
  /\ wanted # {} => sp.targets \intersect wanted # {}

(* The filter of _build_profile_filter: no types, like "all", are any, and  *)
(* so are no targets, like "anything".                                      *)
_profile_filter(sp, types, wanted) ==
  /\ types # {} => /\ sp.offshore => types \intersect {"offshore", "charter", "kayak"} # {}
                   /\ types = {"charter"} => "charter" \in sp.methods
                   /\ types = {"fly"} => "fly" \in sp.methods
                   /\ \/ sp.methods = {} \/ sp.offshore
                      \/ sp.methods \intersect UNION {Reaches(t) : t \in types} # {}
  /\ wanted # {} => sp.targets \intersect wanted # {}

-----------------------------------------------------------------------------
(* The score.                                                               *)

Unit == 12

(* How near t is to the ideal range of a species, of 50 points.             *)
TemperatureFit(sp, t) ==
  LET low == sp.ideal[1] - sp.survives[1]
      high == sp.survives[2] - sp.ideal[2]
  IN CASE t \in sp.ideal[1]..sp.ideal[2] -> 50 * Unit
       [] t < sp.ideal[1] -> (50 * Unit * (t - sp.survives[1])) \div low
       [] OTHER           -> (50 * Unit * (sp.survives[2] - t)) \div high

OneOf(first, points, second, others) == IF first THEN points ELSE IF second THEN others ELSE 0

(* _build_conditions_modifier; likes are the sets of its tables.            *)
Modifier(sp, s) ==
  LET dirs    == _DIRS_BY_ORIENTATION[s.coast]
      low     == s.hour < 7 \/ s.hour > 18
      midday  == s.hour \in 10..15
      Likes(x) == x \in sp.likes
      direction ==
        IF Likes("onshore") THEN OneOf(s.direction \in dirs.on, 5, s.direction \in dirs.off, -3)
        ELSE IF Likes("calm") THEN OneOf(s.direction \in dirs.off, 5, s.direction \in dirs.on, -3) ELSE 0
      wind ==
        IF s.wind = Absent THEN 0
        ELSE IF Likes("rough") THEN OneOf(s.wind \in 20..36, 3, s.wind < 10, -2)
        ELSE IF Likes("calm") THEN OneOf(s.wind < 16, 3, s.wind > 30, -2) ELSE 0
      wave ==
        IF s.wave = Absent THEN 0
        ELSE IF Likes("rough") THEN OneOf(s.wave \in 4..10, 4, s.wave < 2, -1)
        ELSE IF Likes("calm") THEN OneOf(s.wave < 4, 4, s.wave > 8, -2) ELSE 0
      light ==
        IF Likes("low light") THEN OneOf(low, 3, midday, -1)
        ELSE IF Likes("daylight") THEN OneOf(midday, 3, low, -1) ELSE 0
  IN Unit * (direction + wind + wave + light)

_score_species(sp, m, t, s) ==
  IF t \notin sp.survives[1]..sp.survives[2] THEN -100 * Unit
  ELSE TemperatureFit(sp, t) + Modifier(sp, s)
       + Unit * (IF m \in sp.peak THEN 30 ELSE IF m \in sp.good THEN 15 ELSE 0)

SPECIES_SCORE_THRESHOLD == 30 * Unit

-----------------------------------------------------------------------------
(* The ranking.                                                             *)

ScoreAt(p) == _score_species(Catalog[p], month, warmth, sky)

(* The places in the catalog of those that bite for this angler.            *)
Biting == {p \in Places : /\ _profile_filter(Catalog[p], methods, targets)
                         /\ ScoreAt(p) >= SPECIES_SCORE_THRESHOLD}

(* A list is the set of what is in it, in this order: the best first, and   *)
(* sort() is stable.                                                        *)
Before(q, p) == ScoreAt(q) > ScoreAt(p) \/ (ScoreAt(q) = ScoreAt(p) /\ q < p)

Foremost(n, S) == {p \in S : Cardinality({q \in S : Before(q, p)}) < n}

Status(p) == classify_legality(rules[p], month)

(* A species without a rule is shown without a status. *)
Hidden(p) == rules[p] # NoRule /\ should_hide_from_forecast(Status(p))

Allowed == {p \in Biting : ~Hidden(p)}

(* mutant: the list is cut before the rules are looked at *)
RecommendedOfTheFirst == {p \in Foremost(MaxShown, Biting) : ~Hidden(p)}

Recommended == Foremost(MaxShown, Allowed)

(* The closures the loop passes before the list is full.                    *)
closures_out ==
  {p \in Biting : /\ Hidden(p) /\ Status(p) \in {"out_of_season", "prohibited"}
                 /\ Cardinality({q \in Allowed : Before(q, p)}) < MaxShown}

(* Sorted already, and a species is once in the catalog of a coast.         *)
Closures == Foremost(MaxWarned, closures_out)

-----------------------------------------------------------------------------
SpeciesInit ==
  /\ month \in Months /\ warmth \in Temperatures /\ sky \in Skies
  /\ methods \in SUBSET Methods /\ targets \in SUBSET Targets
  /\ rules \in RuleBooks

MonthPasses ==
  /\ month' = 1 + (month % 12)
  /\ UNCHANGED <<warmth, methods, targets, rules, sky>>

WaterWarms ==
  /\ warmth' \in {t \in Temperatures : t > warmth}
  /\ UNCHANGED <<month, methods, targets, rules, sky>>

(* The profile's form. *)
TakeUp ==
  /\ \/ \E t \in Methods : methods' = methods \union {t} /\ targets' = targets
     \/ \E t \in Targets : targets' = targets \union {t} /\ methods' = methods
  /\ UNCHANGED <<month, warmth, rules, sky>>

SpeciesNext == MonthPasses \/ WaterWarms \/ TakeUp

SpeciesSpec == SpeciesInit /\ [][SpeciesNext]_speciesVars

-----------------------------------------------------------------------------
(* Months of the year from w.from on, around its turn. *)
Covers(w, m) == (m + 12 - w.from) % 12 <= (w.to + 12 - w.from) % 12

Seasons(rule) == {w \in rule.windows : w.says \in {"open", "months alone"}}

OutOfThem(windows, m) == windows # {} /\ \A w \in windows : ~Covers(w, m)

Keeping(rule, m) ==
  LET text == {rule.bag} \union rule.season \union rule.notes
  IN /\ rule.bag \notin NoneToKeep \union {NumberZero}
     /\ \A kind \in {"prohibited", "closed", "released", "unread"} : ~Says(text, kind)
     /\ ~Says({rule.bag} \union rule.season, "partly")
     /\ \A w \in rule.windows \ Seasons(rule) : ~Covers(w, m)
     /\ ~OutOfThem(Seasons(rule), m)

(* "Only species with status legal appear in the forecast": one that its    *)
(* rules let no one keep this month is recommended only when the rules say  *)
(* so in a way the code does not read: a bag limit that is the number 0, a  *)
(* phrase it does not know, a closure in other words than its own, or only  *)
(* the months the season is in, with the word "open" or bare.  With that    *)
(* word the card says that the season is closed, unless the rules also      *)
(* speak of a closure in other months, or of the whole year.                *)
OnlyUnreadRulesSlipThrough ==
  \A p \in Recommended : rules[p] # NoRule /\ ~Keeping(rules[p], month) =>
     LET opens == {w \in rules[p].windows : w.says = "open"}
     IN \/ rules[p].bag = NumberZero
        \/ Says({rules[p].bag} \union rules[p].season \union rules[p].notes, "unread")
        \/ \E w \in rules[p].windows : w.says = "closed in other words" /\ Covers(w, month)
        \/ /\ OutOfThem(Seasons(rules[p]), month)
           /\ \/ opens = {}
              \/ season_status(rules[p], month) = "closed"
              \/ \E w \in rules[p].windows : w.says = "closed"
              \/ Says(rules[p].season \union rules[p].notes, "year_round")

(* Hiding a species never costs another its place: the list ends before a   *)
(* species that bites and may be kept only when it is full of species that  *)
(* bite as well or better.  And what is hidden because it is closed, and    *)
(* bites better than one shown, is warned about, unless the warnings are    *)
(* full of closures that bite as well or better.                            *)
NothingBetterIsLeftOut ==
  \A p \in Biting \ Recommended :
     LET Full(S, most) == Cardinality(S) = most /\ \A q \in S : ScoreAt(q) >= ScoreAt(p)
     IN IF ~Hidden(p) THEN Full(Recommended, MaxShown)
        ELSE Status(p) \in {"out_of_season", "prohibited"}
             => p \in Closures \/ Full(Closures, MaxWarned) \/ Full(Recommended, MaxShown)

(* To fish in one more way, or for one more kind of fish, never takes a     *)
(* species away from an angler who had named some: the gates for those who  *)
(* only charter and only fly fish, and those for the open sea, together     *)
(* with the sets each method reaches.                                       *)
MoreMethodsNeverHide ==
  [][methods # {} /\ (targets # {} \/ targets' = {}) =>
       \A p \in Places : /\ methods \subseteq methods' /\ targets \subseteq targets'
                          /\ _profile_filter(Catalog[p], methods, targets)
         => _profile_filter(Catalog[p], methods, targets)']_speciesVars

(* "bag_limit of zero means no retention allowed", and is hidden. *)
ZeroBagIsNeverShown ==
  \A p \in Recommended : rules[p] # NoRule => rules[p].bag \notin NoneToKeep \union {NumberZero}
=============================================================================
