------------------------- MODULE MCForecastService -------------------------
(* Small instances of StationCatalogs and ForecastService for TLC: two      *)
(* resolutions at a time, or one whole request after the other.             *)
EXTENDS ForecastService, TLC

VARIABLE scope

mcVars == <<serviceVars, scope>>

First == CHOOSE c \in Callers : TRUE

Resolutions == scope = "resolutions" /\ CatalogsNext /\ UNCHANGED <<storeVars, op, made>>
Requests    == scope = "requests" /\ ServiceNext /\ \A c \in Callers \ {First} : outcome'[c] = "none"

ScopedInit == ServiceInit /\ scope \in {"resolutions", "requests"}
ScopedNext == (Resolutions \/ Requests) /\ UNCHANGED scope

(* ServiceFairness, for the steps of each scope.                            *)
ScopedFairness ==
  /\ \A c \in Callers, k \in Catalogs : WF_mcVars(CatalogCall(c, k) /\ UNCHANGED scope)
  /\ \A c \in Callers :
       /\ WF_mcVars(scope = "resolutions" /\ Gate(c) /\ UNCHANGED <<storeVars, op, made, scope>>)
       /\ WF_mcVars(scope = "requests" /\ Located(c) /\ UNCHANGED scope)
       /\ WF_mcVars(scope = "requests" /\ (Assembled(c) \/ FromCache(c)) /\ UNCHANGED scope)

ScopedSpec == ScopedInit /\ [][ScopedNext]_mcVars /\ ScopedFairness
=============================================================================
