------------------------------ MODULE MCLegacy ------------------------------
(* Small instances of the Flask application's forecasts and alerts.  They   *)
(* share nothing, and each behaviour shows one of them.                     *)
EXTENDS LegacyRefresh, LegacyAlerts

VARIABLE part

legacyVars == <<refreshVars, alertVars, part>>

MCSpots == <<"a", "b">>

(* Two processes and the anonymous forecast, with restarts; or one process  *)
(* and the forecasts of two users, with one request more.                   *)
RefreshParts == {"processes", "keys"}

LegacyInit ==
  /\ part \in RefreshParts \union {"alerts"}
  /\ RefreshInit
  /\ part # "processes" => history = None
  /\ restarts = IF part = "processes" THEN 0 ELSE MaxRestarts
  /\ requests = IF part = "processes" THEN 1 ELSE 0
  /\ AlertsInit
  /\ part # "alerts" => prefs = {}
  /\ part = "alerts" => prefs = Channels /\ subscriptions = Devices

LegacyNext ==
  /\ UNCHANGED part
  /\ \/ /\ \/ part \in RefreshParts /\ Tick
           \/ part = "processes" /\ \E p \in Processes : ProcessNext(p, {Anon})
           \/ part = "keys" /\ ProcessNext(CHOOSE p \in Processes : TRUE, Keys)
        /\ UNCHANGED alertVars
     \/ /\ part = "alerts" /\ AlertsNext
        /\ UNCHANGED refreshVars

LegacySpec == LegacyInit /\ [][LegacyNext]_legacyVars /\ RefreshFairness

(* The variables of both modules keep their types.                          *)
LegacyTypeOK == RefreshTypeOK /\ AlertsTypeOK
=============================================================================
