-------------------------- MODULE StationCatalogs --------------------------
(***************************************************************************)
(* Resolving a dynamic location: resolve_location_id of                    *)
(* apps/api/app/api/deps.py over the StationCatalogCaches of               *)
(* providers/stations.py.                                                  *)
(*                                                                         *)
(* A resolution gathers get_or_refresh of every catalog at once.  Each     *)
(* cache has one asyncio.Lock, a FIFO queue whose head holds it, which is  *)
(* held across the fetch.  A fetch degrades a ProviderError to the empty   *)
(* catalog; a body that does not parse makes it raise.  asyncio.gather     *)
(* passes the first exception on and leaves its other tasks running.       *)
(*                                                                         *)
(* A catalog is "full" or "empty": a full one lists a station near the     *)
(* point of the resolution when it is one of Nearby.                       *)
(***************************************************************************)
EXTENDS Naturals, Sequences, FiniteSets

CONSTANTS
  Callers,      \* request tasks
  Catalogs,     \* the catalogs gathered: tide, water temperature, NDBC
  Gating,       \* those gate_coastal_point looks at: tide and NDBC
  Nearby,       \* those that list a station within reach of the point
  Failing,      \* those whose upstream can fail
  Raising,      \* of these, the JSON ones, whose fetch can also raise
  TTL,          \* ttl_seconds
  NegativeTTL,  \* negative_ttl_seconds
  HealthyFrom,  \* the upstream answers every fetch that ends from here on
  MaxTime,      \* bound on the clock
  None

ASSUME CatalogsAssumption ==
  /\ Gating \subseteq Catalogs /\ Nearby \subseteq Catalogs
  /\ Failing \subseteq Catalogs /\ Raising \subseteq Failing
  /\ Gating \intersect Nearby # {}
ASSUME TTLAssumption ==
  /\ TTL \in Nat /\ NegativeTTL \in Nat /\ HealthyFrom \in Nat
  /\ NegativeTTL <= TTL

Contents == {"full", "empty"}
Cached   == [stations : Contents, fetched_at : Nat]

ASSUME NoneAssumption == None \notin Cached

VARIABLES
  clock,      \* the injectable clock, in ticks
  cache,      \* cache[k]: _stations and _fetched_at
  queue,      \* queue[k]: callers of catalog k's lock, the head holds it
  task,       \* task[c][k]: where c's gathered call for k is
  got,        \* got[c][k]: the catalog that call returned
  asked,      \* when the caller's resolution began
  outcome     \* what became of it

catalogVars == <<clock, cache, queue, task, got, asked, outcome>>

Tasks    == {"idle", "waiting", "fetching", "done"}
Outcomes == {"none", "pending", "located", "not_coastal", "raised"}

CatalogsTypeOK ==
  /\ clock \in Nat
  /\ cache \in [Catalogs -> Cached \union {None}]
  /\ queue \in [Catalogs -> Seq(Callers)]
  /\ task \in [Callers -> [Catalogs -> Tasks]]
  /\ got \in [Callers -> [Catalogs -> Cached \union {None}]]
  /\ asked \in [Callers -> Nat]
  /\ outcome \in [Callers -> Outcomes]

NoTasks == [k \in Catalogs |-> "idle"]
NothingGot == [k \in Catalogs |-> None]

CatalogsInit ==
  /\ clock = 0
  /\ cache = [k \in Catalogs |-> None]
  /\ queue = [k \in Catalogs |-> <<>>]
  /\ task = [c \in Callers |-> NoTasks]
  /\ got = [c \in Callers |-> NothingGot]
  /\ asked = [c \in Callers |-> 0]
  /\ outcome = [c \in Callers |-> "none"]

-----------------------------------------------------------------------------
(* mutant: the lock admits every waiter *)
AnyWaiter(c, k) == \E i \in 1..Len(queue[k]) : queue[k][i] = c

HoldsLock(c, k) == queue[k] # <<>> /\ Head(queue[k]) = c

PositiveTTLOnly(e) == TTL                        \* mutant: one TTL for both
TTLOf(e) == IF e.stations = "full" THEN TTL ELSE NegativeTTL

(* mutant: the age is compared with <= *)
CurrentAtTTL(k) == cache[k] # None /\ clock <= cache[k].fetched_at + TTLOf(cache[k])

Current(k) == cache[k] # None /\ clock < cache[k].fetched_at + TTLOf(cache[k])

Active(c) == \E k \in Catalogs : task[c][k] \in {"waiting", "fetching"}

(* The calls of a request that has already failed finish unobserved. *)
Return(c, k, e) ==
  /\ task' = [task EXCEPT ![c][k] = "done"]
  /\ got' = [got EXCEPT ![c][k] = e]
  /\ queue' = [queue EXCEPT ![k] = Tail(@)]

(* gate_coastal_point: a station within reach in either gating catalog. *)
IsCoastal(c) == \E k \in Gating \intersect Nearby : got[c][k].stations = "full"

-----------------------------------------------------------------------------
(* resolve_location_id of a dynamic id: gather starts all three calls.  A   *)
(* caller stands for another request once all calls of its last one ended.  *)
Resolve(c) ==
  /\ outcome[c] # "pending"
  /\ ~Active(c)
  /\ outcome' = [outcome EXCEPT ![c] = "pending"]
  /\ asked' = [asked EXCEPT ![c] = clock]
  /\ task' = [task EXCEPT ![c] = [k \in Catalogs |-> "waiting"]]
  /\ got' = [got EXCEPT ![c] = NothingGot]
  /\ queue' = [k \in Catalogs |-> Append(queue[k], c)]
  /\ UNCHANGED <<clock, cache>>

(* get_or_refresh under the lock: a catalog within its TTL is returned.     *)
Reuse(c, k) ==
  /\ task[c][k] = "waiting"
  /\ HoldsLock(c, k)
  /\ Current(k)
  /\ Return(c, k, cache[k])
  /\ UNCHANGED <<clock, cache, asked, outcome>>

StartFetch(c, k) ==
  /\ task[c][k] = "waiting"
  /\ HoldsLock(c, k)
  /\ ~Current(k)
  /\ task' = [task EXCEPT ![c][k] = "fetching"]
  /\ UNCHANGED <<clock, cache, queue, got, asked, outcome>>

(* The result replaces whatever was cached, and is dated after the fetch.   *)
EndFetch(c, k, stations) ==
  /\ task[c][k] = "fetching"
  /\ stations = "empty" => k \in Failing /\ clock < HealthyFrom
  /\ LET e == [stations |-> stations, fetched_at |-> clock] IN
       /\ cache' = [cache EXCEPT ![k] = e]
       /\ Return(c, k, e)
  /\ UNCHANGED <<clock, asked, outcome>>

(* A fetch that raises leaves the cache alone; the first one of a gather    *)
(* makes the request fail, the others' tasks go on.                         *)
FetchRaises(c, k) ==
  /\ task[c][k] = "fetching"
  /\ k \in Raising
  /\ clock < HealthyFrom
  /\ task' = [task EXCEPT ![c][k] = "idle"]
  /\ queue' = [queue EXCEPT ![k] = Tail(@)]
  /\ outcome' = [outcome EXCEPT ![c] = "raised"]
  /\ UNCHANGED <<clock, cache, got, asked>>

(* All three are in: the gate, then resolve_dynamic_location.               *)
Gate(c) ==
  /\ outcome[c] = "pending"
  /\ \A k \in Catalogs : task[c][k] = "done"
  /\ outcome' = [outcome EXCEPT ![c] = IF IsCoastal(c) THEN "located" ELSE "not_coastal"]
  /\ task' = [task EXCEPT ![c] = NoTasks]
  /\ UNCHANGED <<clock, cache, queue, got, asked>>

(* The caches are process memory. *)
CatalogsRestart ==
  /\ cache' = [k \in Catalogs |-> None]
  /\ queue' = [k \in Catalogs |-> <<>>]
  /\ task' = [c \in Callers |-> NoTasks]
  /\ outcome' = [c \in Callers |-> IF outcome[c] = "pending" THEN "none" ELSE outcome[c]]
  /\ UNCHANGED <<clock, got, asked>>

CatalogsTick ==
  /\ clock < MaxTime
  /\ clock' = clock + 1
  /\ UNCHANGED <<cache, queue, task, got, asked, outcome>>

CallStep(c, k) ==
  \/ Reuse(c, k)
  \/ StartFetch(c, k)
  \/ \E stations \in Contents : EndFetch(c, k, stations)
  \/ FetchRaises(c, k)

CatalogsNext ==
  \/ \E c \in Callers : Resolve(c) \/ Gate(c)
  \/ \E c \in Callers, k \in Catalogs : CallStep(c, k)
  \/ CatalogsRestart
  \/ CatalogsTick

CatalogsSpec == CatalogsInit /\ [][CatalogsNext]_catalogVars

-----------------------------------------------------------------------------
(* Safety *)

(* "Concurrent callers serialize on the same fetch rather than triggering   *)
(* duplicate requests": one fetch per catalog is in flight, also while the  *)
(* calls of a failed gather are still running.                              *)
OneFetchPerCatalog ==
  \A c, d \in Callers, k \in Catalogs :
    task[c][k] = "fetching" /\ task[d][k] = "fetching" => c = d

(* The lock queues hold exactly the calls that are under way, each once.    *)
LockQueues ==
  \A k \in Catalogs :
    /\ \A i, j \in 1..Len(queue[k]) : queue[k][i] = queue[k][j] => i = j
    /\ \A i \in 1..Len(queue[k]) : task[queue[k][i]][k] \in {"waiting", "fetching"}
    /\ \A c \in Callers : task[c][k] \in {"waiting", "fetching"} =>
         \E i \in 1..Len(queue[k]) : queue[k][i] = c
    /\ \A c \in Callers : task[c][k] = "fetching" => HoldsLock(c, k)

(* A resolution is never built on a catalog that had already passed its TTL *)
(* when the request arrived, however long the calls waited for the locks.   *)
ResolvedOnCurrentCatalogs ==
  \A c \in Callers, k \in Catalogs :
    outcome[c] \in {"pending", "located", "not_coastal"} /\ got[c][k] # None =>
      \/ asked[c] <= got[c][k].fetched_at
      \/ asked[c] < got[c][k].fetched_at + TTLOf(got[c][k])

(* The upstream of a catalog is not asked again, however many callers wait, *)
(* until the last result is past its TTL: the negative TTL keeps an outage  *)
(* from turning "every caller into a fresh blocking fetch".                 *)
FetchesAreSpaced ==
  [][\A k \in Catalogs : cache[k] # None /\ cache'[k] # None /\ cache'[k] # cache[k] =>
       cache'[k].fetched_at >= cache[k].fetched_at + TTLOf(cache[k])]_catalogVars

(* "Still recovering quickly once the source is healthy again": a request   *)
(* that arrives at least negative_ttl_seconds after the upstream recovered  *)
(* resolves the point, whatever was cached or in flight during the outage.  *)
RecoversAfterOutage ==
  \A c \in Callers :
    asked[c] >= HealthyFrom + NegativeTTL => outcome[c] \notin {"not_coastal", "raised"}

=============================================================================
