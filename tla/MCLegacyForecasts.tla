------------------------- MODULE MCLegacyForecasts -------------------------
(* Small instances of LegacyGeneration and LegacyDashboard: the forecasts   *)
(* of the Flask application as they are made, and as they are shown.  They  *)
(* share nothing, and each behaviour shows one forecast made of many        *)
(* sources, two of few, or the pages of one location.                       *)
EXTENDS LegacyGeneration, LegacyDashboard, TLC

CONSTANTS inlet, plain

VARIABLE part

legacyForecastVars == <<generationVars, dashboardVars, part>>

MCMarine == [f \in Forecasts |-> IF f = inlet THEN <<"zone", "coops">> ELSE <<"coops">>]
MCReports == [s \in {"zone", "coops"} |-> IF s = "zone" THEN {"wind", "waves"} ELSE {"wind"}]
MCOthers == [f \in Forecasts |-> IF f = inlet THEN <<"alerts", "currents", "observation">> ELSE <<>>]

(* One reader has no profile, and reads winds in miles per hour.            *)
MCUnits == [r \in Readers |-> IF r = plain THEN "mph" ELSE "knots"]
MCProfile == [r \in Readers |-> IF r = plain THEN Anyone ELSE r]

LegacyForecastsInit ==
  /\ part \in {"many sources", "few sources", "pages"}
  /\ GenerationInit /\ DashboardInit

Begun(f) == part = IF f = inlet THEN "many sources" ELSE "few sources"

LegacyForecastsNext ==
  /\ UNCHANGED part
  /\ \/ /\ GenerationNext /\ UNCHANGED dashboardVars
        /\ \A f \in Forecasts : step'[f] # step[f] => Begun(f)
     \/ part = "pages" /\ DashboardNext /\ UNCHANGED generationVars

LegacyForecastsSpec ==
  LegacyForecastsInit /\ [][LegacyForecastsNext]_legacyForecastVars /\ GenerationFairness
=============================================================================
