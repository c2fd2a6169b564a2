-------------------------- MODULE ForecastService --------------------------
(***************************************************************************)
(* The forecast routes of apps/api/app/api/v1/forecasts.py for one dynamic *)
(* location: resolve_location_id over the station catalogs, then the       *)
(* snapshot cache.  StationCatalogs is composed with ForecastStore, which  *)
(* SnapshotCache is shown to implement, in place of the cache's locks.     *)
(*                                                                         *)
(* Between the gate and the snapshot cache the route does not await: the   *)
(* request that is located asks the cache in the same step.                *)
(***************************************************************************)
EXTENDS StationCatalogs

CONSTANTS Point, FreshTTL, StaleTTL, NoEntry

VARIABLES
  stored, asking, req, answer,  \* the snapshot cache, as ForecastStore has it
  op,       \* the route of each caller's request
  made      \* of the cached forecast: the catalogs that were full when its
            \* location was resolved, and when its request arrived

Store == INSTANCE ForecastStore WITH Keys <- {Point}

storeVars   == <<stored, asking, req, answer>>
serviceVars == <<catalogVars, storeVars, op, made>>

NotMade == [from |-> {}, asked |-> 0]

ServiceTypeOK ==
  /\ CatalogsTypeOK
  /\ stored[Point] \in Store!Entry \union {NoEntry}
  /\ asking \subseteq Callers
  /\ op \in [Callers -> {"get", "force"}]
  /\ made \in [from : SUBSET Catalogs, asked : Nat]

ServiceInit ==
  /\ CatalogsInit
  /\ Store!Init
  /\ op = [c \in Callers |-> "get"]
  /\ made = NotMade

FullFor(c) == {k \in Catalogs : got[c][k].stations = "full"}

-----------------------------------------------------------------------------
Request(c, o) ==
  /\ c \notin asking
  /\ Resolve(c)
  /\ op' = [op EXCEPT ![c] = o]
  /\ UNCHANGED <<storeVars, made>>

CatalogCall(c, k) ==
  /\ CallStep(c, k)
  /\ UNCHANGED <<storeVars, op, made>>

(* 422 unless the point is coastal; otherwise the route asks the cache.     *)
Located(c) ==
  /\ Gate(c)
  /\ \/ IsCoastal(c) /\ Store!Ask(c, Point, op[c])
     \/ ~IsCoastal(c) /\ UNCHANGED storeVars
  /\ UNCHANGED <<op, made>>

(* The cache's answer; a new forecast is assembled from the stations of the *)
(* location this very request resolved.                                     *)
Assembled(c) ==
  /\ c \in asking
  /\ \E at \in req[c].asked..clock : Store!Publish(c, at)
  /\ made' = [from |-> FullFor(c), asked |-> asked[c]]
  /\ UNCHANGED <<cache, queue, task, got, asked, outcome, op>>

FromCache(c) ==
  /\ c \in asking
  /\ \/ stored[Point] # NoEntry /\ Store!Serve(c, stored[Point])
     \/ /\ stored[Point] # NoEntry
        /\ \E at \in req[c].asked..clock : Store!FallBack(c, at, stored[Point])
     \/ Store!GiveUp(c)
  /\ UNCHANGED <<cache, queue, task, got, asked, outcome, op, made>>

(* get_or_refresh drops an expired forecast before it fetches a new one.    *)
Evict(c) ==
  /\ c \in asking
  /\ Store!Expire(c)
  /\ made' = NotMade
  /\ UNCHANGED <<cache, queue, task, got, asked, outcome, op>>

ServiceRestart ==
  /\ CatalogsRestart
  /\ Store!Crash
  /\ made' = NotMade
  /\ UNCHANGED op

ServiceTick ==
  /\ CatalogsTick
  /\ UNCHANGED <<storeVars, op, made>>

ServiceNext ==
  \/ \E c \in Callers, o \in {"get", "force"} : Request(c, o)
  \/ \E c \in Callers, k \in Catalogs : CatalogCall(c, k)
  \/ \E c \in Callers : Located(c) \/ Assembled(c) \/ FromCache(c) \/ Evict(c)
  \/ ServiceRestart
  \/ ServiceTick

ServiceSpec == ServiceInit /\ [][ServiceNext]_serviceVars

(* The upstreams answer or time out, and the cache answers all its callers  *)
(* (AnsweredUnlessHung of SnapshotCache).                                   *)
ServiceFairness ==
  /\ \A c \in Callers, k \in Catalogs : WF_serviceVars(CatalogCall(c, k))
  /\ \A c \in Callers :
       WF_serviceVars(Located(c)) /\ WF_serviceVars(Assembled(c) \/ FromCache(c))

-----------------------------------------------------------------------------
(* A forecast assembled for a location that was resolved on degraded        *)
(* catalogs enters the cache only for a request that arrived before         *)
(* negative_ttl_seconds after the upstream's recovery: from then on every   *)
(* new forecast is made from the right stations.                            *)
DegradedForecastsEnd ==
  stored[Point] # NoEntry /\ made.from # Catalogs =>
    made.asked < HealthyFrom + NegativeTTL

(* Every request comes to an end: a refusal, an error or a forecast.        *)
RequestsEnd ==
  \A c \in Callers :
    (outcome[c] = "pending" \/ c \in asking) ~> (outcome[c] # "pending" /\ c \notin asking)
=============================================================================
