-------------------------- MODULE ForecastAssembly --------------------------
(***************************************************************************)
(* One forecast assembled from its sources: assemble_forecast of           *)
(* apps/api/app/domain/assembly.py with assess_confidence of               *)
(* domain/confidence.py and the fetches of providers/.                     *)
(*                                                                         *)
(* Five fetches are gathered, and two sources of wind are tried one after  *)
(* the other while none has been reported.  A fetch ends with a reading,   *)
(* with a ProviderError, which the assembly degrades to an error, or with  *)
(* another exception (a body that is not JSON or lacks a key, a number     *)
(* that does not parse), which passes through it.  A reading is the set of *)
(* quantities it reports; which value is shown is told by its source.      *)
(* Astronomy and the outlook are pure and left out.                        *)
(***************************************************************************)
EXTENDS Integers, FiniteSets

CONSTANTS
  Ages,       \* hours since the water temperature was taken, in whole hours
  Wests,      \* hours a location's clock is behind that of DEFAULT_TIMEZONE
  Distances   \* anchor_miles of dynamic locations

ASSUME AssemblyAssumption ==
  Ages \subseteq Nat /\ Wests \subseteq Nat /\ Distances \subseteq Nat

NoMiles == -1          \* anchor_miles of a curated location
NoAge   == -1

Fetched == {"marine_zone", "water_temp", "buoy", "alerts", "tides"}
LastResort == {"coops_wind", "gridpoint_wind"}
Providers  == Fetched \union LastResort

(* Which stations a location has, and where it is.                          *)
Locations ==
  [stations : SUBSET {"marine_zone", "water_temp", "buoy", "tides"},
   west : Wests, miles : Distances \union {NoMiles}]

(* What a fetch that succeeds can report. *)
Reports(s) ==
  CASE s \in {"marine_zone", "buoy"} -> SUBSET {"wind", "wave", "direction"}
    [] s = "coops_wind"     -> {{"wind"}, {"wind", "direction"}}
    [] s = "gridpoint_wind" -> SUBSET {"wind", "direction"}
    [] OTHER                -> {{s}}

Results ==
  [kind : {"unasked", "pending", "error", "ok"},
   reports : SUBSET ({"wind", "wave", "direction"} \union Fetched),
   age : Ages \union {NoAge}]

Without(k) == [kind |-> k, reports |-> {}, age |-> NoAge]

Readings(s) ==
  [kind : {"ok"}, reports : Reports(s),
   age : IF s = "water_temp" THEN Ages ELSE {NoAge}]

Shown == Providers \union {"none"}

Envelopes ==
  [state : {"fresh", "partial"},
   sources : SUBSET [provider : Providers, state : {"ok", "unavailable"}],
   warnings : SUBSET Providers,
   temperature : {"live", "average"},
   wind : Shown, wave : Shown, direction : Shown,
   scored : BOOLEAN, tides : BOOLEAN,
   age : {"recent", "aging", "stale"},
   confidence : {"high", "medium", "low"}]

NoEnvelope == [state |-> "none"]

VARIABLES
  location,   \* the ResolvedLocation
  phase,      \* where assemble_forecast is
  result,     \* result[s]: the _FetchResult of each source
  envelope    \* the ForecastEnvelope returned

assemblyVars == <<location, phase, result, envelope>>

Phases == {"idle", "gathering", "coops_wind", "gridpoint_wind", "done", "raised"}

AssemblyTypeOK ==
  /\ location \in Locations
  /\ phase \in Phases
  /\ result \in [Providers -> Results]
  /\ envelope = NoEnvelope \/ envelope \in Envelopes

AssemblyInit ==
  /\ location \in Locations
  /\ phase = "idle"
  /\ result = [s \in Providers |-> Without("unasked")]
  /\ envelope = NoEnvelope

-----------------------------------------------------------------------------
Reported(r, s, q) == r[s].kind = "ok" /\ q \in r[s].reports

(* The first source of a sequence that reports the quantity. *)
FirstOf(r, q, order) ==
  LET having == {i \in DOMAIN order : Reported(r, order[i], q)}
  IN IF having = {} THEN "none"
     ELSE order[CHOOSE i \in having : \A j \in having : i <= j]

WindOrder == <<"marine_zone", "buoy", "coops_wind", "gridpoint_wind">>

(* _reconcile_range, over the sources that have answered by now. *)
Wind(r)      == FirstOf(r, "wind", WindOrder)
Wave(r)      == FirstOf(r, "wave", <<"marine_zone", "buoy">>)
Direction(r) == FirstOf(r, "direction", WindOrder)

(* Alerts have no SourceStatus: a failure is an empty list. *)
Statuses(r) ==
  {[provider |-> s, state |-> IF r[s].kind = "ok" THEN "ok" ELSE "unavailable"] :
     s \in {t \in Providers \ {"alerts"} : r[t].kind \in {"ok", "error"}}}

(* source_unavailable:* and fallback:*, each named by its source. *)
Warnings(r) ==
  {s \in Fetched \ {"alerts"} : r[s].kind = "error"}
    \union {s \in LastResort : r[s].kind = "ok"}

-----------------------------------------------------------------------------
(* assess_confidence *)

(* observed_at is parsed in DEFAULT_TIMEZONE, wherever the station is; the   *)
(* substituted average is dated now.                                        *)
AgeSeen(r) == IF r["water_temp"].kind = "ok" THEN r["water_temp"].age + location.west ELSE 0

AgeClass(h) == IF h >= 5 THEN "stale" ELSE IF h >= 2 THEN "aging" ELSE "recent"

AgePenalty(r) == [recent |-> 0, aging |-> 8, stale |-> 18][AgeClass(AgeSeen(r))]

FallbackPenalty(r) == IF r["water_temp"].kind = "ok" THEN 0 ELSE 15

(* mutant: > in place of >= *)
DistancePenaltyPast ==
  IF location.miles > 50 THEN 18 ELSE IF location.miles > 25 THEN 8 ELSE 0

DistancePenalty ==
  IF location.miles >= 50 THEN 18 ELSE IF location.miles >= 25 THEN 8 ELSE 0

Down(r) == {x \in Statuses(r) : x.state = "unavailable"}

Points(r) ==
  100 - 25 * Cardinality(Down(r))
      - AgePenalty(r) - FallbackPenalty(r) - DistancePenalty

(* max(0, points) is still low. *)
Confidence(r) ==
  IF Points(r) >= 85 THEN "high" ELSE IF Points(r) >= 55 THEN "medium" ELSE "low"

(* score_conditions has no score without both. *)
Scored(r) == Wind(r) # "none" /\ Wave(r) # "none"

Envelope(r) ==
  [state |-> IF Wind(r) # "none" THEN "fresh" ELSE "partial",
   sources |-> Statuses(r),
   warnings |-> Warnings(r),
   temperature |-> IF r["water_temp"].kind = "ok" THEN "live" ELSE "average",
   wind |-> Wind(r), wave |-> Wave(r), direction |-> Direction(r),
   scored |-> Scored(r),
   tides |-> r["tides"].kind = "ok",
   age |-> AgeClass(AgeSeen(r)),
   confidence |-> Confidence(r)]

-----------------------------------------------------------------------------
(* The gather starts; a source without a station is an error at once.  The  *)
(* alerts need no station.                                                  *)
Assemble ==
  /\ phase \in {"idle", "done", "raised"}
  /\ phase' = "gathering"
  /\ result' = [s \in Providers |->
       IF s \in LastResort THEN Without("unasked")
       ELSE IF s \in location.stations \union {"alerts"} THEN Without("pending")
       ELSE Without("error")]
  /\ envelope' = NoEnvelope
  /\ UNCHANGED location

(* A fetch of the gather ends.                                              *)
FetchEnds(s) ==
  /\ phase = "gathering" /\ s \in Fetched
  /\ result[s].kind = "pending"
  /\ \E r \in Readings(s) \union {Without("error")} :
       result' = [result EXCEPT ![s] = r]
  /\ UNCHANGED <<location, phase, envelope>>

Return(r) == phase' = "done" /\ envelope' = Envelope(r)

(* The station of the water temperature is the one asked for wind.          *)
AskLastResort ==
  /\ envelope' = envelope
  /\ IF "water_temp" \in location.stations
       THEN /\ phase' = "coops_wind"
            /\ result' = [result EXCEPT !["coops_wind"] = Without("pending")]
       ELSE /\ phase' = "gridpoint_wind"
            /\ result' = [result EXCEPT !["coops_wind"] = Without("error"),
                                        !["gridpoint_wind"] = Without("pending")]

(* mutant: the last resort is asked when there are no waves, too *)
EndGatherOnWaves ==
  /\ phase = "gathering"
  /\ \A s \in Fetched : result[s].kind # "pending"
  /\ IF Scored(result) THEN Return(result) /\ UNCHANGED result
                       ELSE AskLastResort
  /\ UNCHANGED location

EndGather ==
  /\ phase = "gathering"
  /\ \A s \in Fetched : result[s].kind # "pending"
  /\ IF Wind(result) # "none" THEN Return(result) /\ UNCHANGED result
                              ELSE AskLastResort
  /\ UNCHANGED location

EndCoopsWind ==
  /\ phase = "coops_wind"
  /\ \E r \in Readings("coops_wind") \union {Without("error")} :
       IF r.kind = "ok"
         THEN /\ result' = [result EXCEPT !["coops_wind"] = r]
              /\ Return(result')
         ELSE /\ result' = [result EXCEPT !["coops_wind"] = r,
                                          !["gridpoint_wind"] = Without("pending")]
              /\ phase' = "gridpoint_wind" /\ UNCHANGED envelope
  /\ UNCHANGED location

EndGridpointWind ==
  /\ phase = "gridpoint_wind"
  /\ \E r \in Readings("gridpoint_wind") \union {Without("error")} :
       result' = [result EXCEPT !["gridpoint_wind"] = r]
  /\ Return(result')
  /\ UNCHANGED location

(* An exception that is not a ProviderError fails the assembly.  The other   *)
(* fetches of a gather run on and are forgotten.                            *)
FetchRaises ==
  /\ \E s \in Providers : result[s].kind = "pending"
  /\ phase' = "raised"
  /\ result' = [s \in Providers |-> Without("unasked")]
  /\ UNCHANGED <<location, envelope>>

AssemblyNext ==
  \/ Assemble
  \/ \E s \in Fetched : FetchEnds(s)
  \/ EndGather \/ EndCoopsWind \/ EndGridpointWind
  \/ FetchRaises

AssemblySpec == AssemblyInit /\ [][AssemblyNext]_assemblyVars

-----------------------------------------------------------------------------
(* Properties *)

Done == phase = "done"

Settled(r, s) == r[s].kind # "pending" /\ ~Reported(r, s, "wind")

(* "Only in the already-degraded case": a fallback source is asked only     *)
(* once every source before it has answered, without wind.                  *)
FallbacksAreLastResort ==
  [][\A i, j \in DOMAIN WindOrder :
       (i < j /\ result'[WindOrder[j]].kind = "pending" /\ WindOrder[j] \in LastResort) =>
         Settled(result', WindOrder[i])]_assemblyVars

(* High confidence means that every source answered, that the temperature   *)
(* is live and not stale, and that the location is near its anchor.         *)
HighIsWellFounded ==
  Done /\ envelope.confidence = "high" =>
    /\ Down(result) = {}
    /\ envelope.temperature = "live" /\ result["water_temp"].age < 5
    /\ location.miles < 50
    /\ location.miles < 25 \/ result["water_temp"].age < 2

(* "Timestamps are interpreted with the right offset": the confidence        *)
(* judges a live temperature by its age.                                    *)
AgeIsTheReadings ==
  Done /\ envelope.temperature = "live" =>
    envelope.age = AgeClass(result["water_temp"].age)
=============================================================================
