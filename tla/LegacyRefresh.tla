--------------------------- MODULE LegacyRefresh ---------------------------
(***************************************************************************)
(* The Flask application's forecasts of one location: the three layers of  *)
(* storage/cache.py (process memory, the forecast_cache table, files), the *)
(* refresh queue of services/forecast_refresh.py, and the routes of        *)
(* web/views.py and web/api.py that read, generate and queue.              *)
(*                                                                         *)
(* gunicorn runs several processes with one request thread each            *)
(* (surf-forecast.service); each also runs the refresh worker and the      *)
(* notification poller, which loads the forecast as a request does.  The   *)
(* threads of a process interleave at every access to the memory or the    *)
(* table.                                                                  *)
(* A forecast is its generated_at; a key of the caches is a user id, Anon  *)
(* for norm_user_id(None).  What generate_forecast puts into a forecast is *)
(* left out.  One unit of time is CACHE_MAX_AGE_HOURS.                     *)
(***************************************************************************)
EXTENDS Integers, SequencesExt

CONSTANTS
  Processes, Keys, Anon,
  MemMax,        \* _MEM_CACHE_MAX
  DayLength,     \* a UTC day
  PruneAge,      \* max_age_days of the prune at startup
  LastTime,      \* bound on the clock
  MaxRequests,   \* bound on the requests and the poller's checks
  MaxRestarts,   \* bound on the restarts
  MaxPolls,      \* MAX_POLLS of the loading page
  None

ASSUME LegacyAssumption ==
  /\ Anon \in Keys /\ None \notin Keys /\ None \notin Nat
  /\ {MemMax, DayLength} \subseteq Nat \ {0}
  /\ {PruneAge, LastTime, MaxRequests, MaxRestarts, MaxPolls} \subseteq Nat

VARIABLES
  hour,          \* the clock
  memory,        \* _MEM_CACHE of each process: its entries, oldest insertion first
  table,         \* forecast_cache
  history,       \* the forecasts table, which only migrate.py fills
  file,          \* the JSON file of the location
  queue, enqueued, refreshing,     \* forecast_refresh.py's, of each process
  thread,        \* the request thread, the poller and the worker of each process
  visitor, polls,      \* the browser on forecast_loading.html and its polls
  requests, restarts,
  saved,         \* the forecast of each key whose save was over last in each process
  disturbed      \* keys with an excuse to be read older than saved

refreshVars == <<hour, memory, table, history, file, queue, enqueued, refreshing, thread,
                 visitor, polls, requests, restarts, saved, disturbed>>

Times == 0..LastTime
Loaders == {"request", "poller"}
Roles == {"request", "poller", "worker"}
Ops   == {"page", "poll", "forecast", "force", "outlook", "refresh", "alert"}
Idle  == [pc |-> "idle", op |-> None, key |-> None, at |-> None, floor |-> None]

-----------------------------------------------------------------------------
(* storage/cache.py                                                         *)

OverAge(t) == hour - t > 1

IsStale(t) == OverAge(t) \/ t \div DayLength < hour \div DayLength

(* Where a memory, which has a key at most once, has k.                     *)
Kept(entries, k) == {i \in DOMAIN entries : entries[i].key = k}
Place(entries, k) == CHOOSE i \in Kept(entries, k) : TRUE
InMemory(p, k) == IF Kept(memory[p], k) = {} THEN None ELSE memory[p][Place(memory[p], k)].at

MemSet(entries, k, t) ==
  IF Kept(entries, k) # {}
  THEN [i \in DOMAIN entries |-> IF entries[i].key = k THEN [key |-> k, at |-> t] ELSE entries[i]]
  ELSE Append(IF Len(entries) >= MemMax THEN Tail(entries) ELSE entries, [key |-> k, at |-> t])

MemPop(entries, k) ==
  IF Kept(entries, k) # {} THEN RemoveAt(entries, Place(entries, k)) ELSE entries

Older(s, t) == s # None /\ t # None /\ s < t

(* A thread at work on k: it has looked something up, or is generating it,  *)
(* and has not yet acted on it.                                             *)
AtWork(x, k) == x.key = k /\ x.pc \notin {"idle", "answer", "put", "taken", "over"}

(* The excuse: something of k is written while another thread works on k.   *)
Disturb(p, r, k) ==
  disturbed' = IF \E q \in Processes, s \in Roles : <<q, s>> # <<p, r>> /\ AtWork(thread[q][s], k)
               THEN disturbed \union {k} ELSE disturbed

Goto(p, r, x) == thread' = [thread EXCEPT ![p][r] = x]

Includes(op) == op # "outlook"

(* load_cached_forecast, as far as it needs the memory only.                *)
LoadMemory(p, r, op, k) ==
  LET t == InMemory(p, k)
      x == [pc |-> "query", op |-> op, key |-> k, at |-> None, floor |-> saved[p][k]]
  IN IF t # None /\ (Includes(op) \/ ~IsStale(t))
     THEN Goto(p, r, [x EXCEPT !.pc = "answer", !.at = t]) /\ UNCHANGED memory
     ELSE /\ Goto(p, r, x)
          /\ memory' = [memory EXCEPT ![p] = MemPop(@, k)]

Row(k) == IF table[k] # None THEN table[k] ELSE table[Anon]

Query(p, r) ==
  LET x == thread[p][r]
  IN /\ x.pc = "query"
     /\ IF Row(x.key) # None
        THEN Goto(p, r, [x EXCEPT !.pc = "found", !.at = Row(x.key)])
        ELSE Goto(p, r, [x EXCEPT !.pc = "missing"])
     /\ UNCHANGED <<hour, memory, table, history, file, queue, enqueued, refreshing, visitor, polls, requests, restarts, saved, disturbed>>

Found(p, r) ==
  LET x == thread[p][r]
      k == x.key
  IN /\ x.pc = "found"
     /\ Disturb(p, r, k)
     /\ IF IsStale(x.at) /\ ~Includes(x.op)
        THEN /\ table' = [table EXCEPT ![k] = None]
             /\ saved' = [q \in Processes |-> [saved[q] EXCEPT ![k] = None]]
             /\ Goto(p, r, [x EXCEPT !.pc = "pop", !.at = None])
             /\ UNCHANGED memory
        ELSE /\ memory' = [memory EXCEPT ![p] = MemSet(@, k, x.at)]
             /\ Goto(p, r, [x EXCEPT !.pc = "answer"])
             /\ UNCHANGED <<table, saved>>
     /\ UNCHANGED <<hour, history, file, queue, enqueued, refreshing, visitor, polls, requests,
                    restarts>>

Pop(p, r) ==
  LET x == thread[p][r]
  IN /\ x.pc = "pop"
     /\ Disturb(p, r, x.key)
     /\ memory' = [memory EXCEPT ![p] = MemPop(@, x.key)]
     /\ Goto(p, r, [x EXCEPT !.pc = "answer"])
     /\ UNCHANGED <<hour, table, history, file, queue, enqueued, refreshing, visitor, polls,
                    requests, restarts, saved>>

(* The historical table, then the file, which is copied into the table.     *)
Fallbacks(p, r) ==
  LET x == thread[p][r]
      Usable(t) == t # None /\ (Includes(x.op) \/ ~IsStale(t))
      t == IF Usable(history) THEN history ELSE IF Usable(file) THEN file ELSE None
  IN /\ x.pc = "missing"
     /\ Disturb(p, r, x.key)
     /\ IF t = None THEN UNCHANGED memory
                    ELSE memory' = [memory EXCEPT ![p] = MemSet(@, x.key, t)]
     /\ Goto(p, r, [x EXCEPT !.at = t,
               !.pc = IF t # None /\ ~Usable(history) THEN "migrate" ELSE "answer"])
     /\ UNCHANGED <<hour, table, history, file, queue, enqueued, refreshing, visitor, polls,
                    requests, restarts, saved>>

Migrate(p, r) ==
  LET x == thread[p][r]
  IN /\ x.pc = "migrate"
     /\ Disturb(p, r, x.key)
     /\ table' \in {table, [table EXCEPT ![x.key] = x.at]}
     /\ Goto(p, r, [x EXCEPT !.pc = "answer"])
     /\ UNCHANGED <<hour, memory, history, file, queue, enqueued, refreshing, visitor, polls,
                    requests, restarts, saved>>

(* save_forecast, by a loader or by the worker: the row, or the file when    *)
(* the row cannot be written, then the memory.                              *)
SaveRow(p, r) ==
  LET x == thread[p][r]
      k == x.key
  IN /\ x.pc = "generating"
     /\ \/ /\ table' = [table EXCEPT ![k] = x.at]
           /\ Disturb(p, r, k)
           /\ UNCHANGED file
        \/ /\ file' = x.at
           /\ disturbed' = Keys
           /\ UNCHANGED table
     /\ Goto(p, r, [x EXCEPT !.pc = "remember"])
     /\ UNCHANGED <<hour, memory, history, queue, enqueued, refreshing, visitor, polls, requests,
                    restarts, saved>>

(* The page the visitor asked for is on its way.                            *)
AfterAnswer(x) == IF x.op = "page" THEN "away" ELSE visitor

(* mutant: the entry in memory is left to expire *)
RememberedLater(entries, k, t) == entries

Remembered(entries, k, t) == MemSet(entries, k, t)

Remember(p, r) ==
  LET x == thread[p][r]
      k == x.key
  IN /\ x.pc = "remember"
     /\ Disturb(p, r, k)
     /\ memory' = [memory EXCEPT ![p] = Remembered(@, k, x.at)]
     /\ saved'  = [saved EXCEPT ![p][k] = x.at]
     /\ Goto(p, r, IF r = "worker" THEN [x EXCEPT !.pc = "over"] ELSE Idle)
     /\ visitor' = AfterAnswer(x)
     /\ UNCHANGED <<hour, table, history, file, queue, enqueued, refreshing, polls,
                    requests, restarts>>

(* prune_forecast_cache: a key is pruned or not.                            *)
Pruned(k) == table[k] # None /\ hour - table[k] > PruneAge

-----------------------------------------------------------------------------
(* generate_forecast takes its now when it starts; SaveRow follows its end. *)
Generate(x) == [x EXCEPT !.pc = "generating", !.at = hour]

(* mutant: no finally releases the key                                      *)
AfterFailureHeld(r, k) == Idle

AfterFailure(r, k) == IF r = "worker" THEN [Idle EXCEPT !.pc = "over", !.key = k] ELSE Idle

GenerateFails(p, r) ==
  LET x == thread[p][r]
  IN /\ x.pc = "generating"
     /\ Goto(p, r, AfterFailure(r, x.key))
     /\ visitor' = AfterAnswer(x)
     /\ UNCHANGED <<hour, memory, table, history, file, queue, enqueued, refreshing, polls, requests, restarts, saved, disturbed>>

-----------------------------------------------------------------------------
(* services/forecast_refresh.py                                             *)

(* mutant: a running refresh does not keep another one off the queue        *)
QueuedOnly(p, k) == k \in enqueued[p]

UnderWay(p, k) == k \in enqueued[p] \union refreshing[p]

(* enqueue_forecast_refresh up to the put, for the request x of p.          *)
Enqueue(p, x) ==
  IF UnderWay(p, x.key)
  THEN Goto(p, "request", Idle) /\ visitor' = AfterAnswer(x) /\ UNCHANGED enqueued
  ELSE /\ enqueued' = [enqueued EXCEPT ![p] = @ \union {x.key}]
       /\ Goto(p, "request", [x EXCEPT !.pc = "put"])
       /\ UNCHANGED visitor

Put(p) ==
  LET x == thread[p]["request"]
  IN /\ x.pc = "put"
     /\ queue' = [queue EXCEPT ![p] = Append(@, x.key)]
     /\ Goto(p, "request", Idle)
     /\ visitor' = AfterAnswer(x)
     /\ UNCHANGED <<hour, memory, table, history, file, enqueued, refreshing, polls,
                    requests, restarts, saved, disturbed>>

Take(p) ==
  /\ thread[p]["worker"].pc = "idle" /\ queue[p] # <<>>
  /\ queue' = [queue EXCEPT ![p] = Tail(@)]
  /\ Goto(p, "worker", [Idle EXCEPT !.pc = "taken", !.key = Head(queue[p])])
  /\ UNCHANGED <<hour, memory, table, history, file, enqueued, refreshing, visitor, polls,
                 requests, restarts, saved, disturbed>>

Start(p) ==
  LET x == thread[p]["worker"]
  IN /\ x.pc = "taken"
     /\ enqueued'   = [enqueued EXCEPT ![p] = @ \ {x.key}]
     /\ refreshing' = [refreshing EXCEPT ![p] = @ \union {x.key}]
     /\ Goto(p, "worker", Generate(x))
     /\ UNCHANGED <<hour, memory, table, history, file, queue, visitor, polls, requests,
                    restarts, saved, disturbed>>

Finally(p) ==
  LET x == thread[p]["worker"]
  IN /\ x.pc = "over"
     /\ refreshing' = [refreshing EXCEPT ![p] = @ \ {x.key}]
     /\ Goto(p, "worker", Idle)
     /\ UNCHANGED <<hour, memory, table, history, file, queue, enqueued, visitor, polls,
                    requests, restarts, saved, disturbed>>

-----------------------------------------------------------------------------
(* The routes                                                               *)

KeysOf(op) == IF op \in {"page", "poll", "refresh"} THEN {Anon} ELSE Keys

(* setup_select and /api/refresh queue; v1/forecast?force_refresh generates; *)
(* the others start with the memory.                                        *)
Request(p, op, k) ==
  LET x == [Idle EXCEPT !.op = op, !.key = k]
  IN /\ requests < MaxRequests /\ requests' = requests + 1
     /\ thread[p]["request"].pc = "idle"
     /\ CASE op = "refresh" -> Enqueue(p, x) /\ UNCHANGED memory
          [] op = "force" -> /\ Goto(p, "request", Generate(x))
                             /\ UNCHANGED <<memory, visitor, enqueued>>
          [] op = "page" -> /\ visitor = "away" /\ visitor' = "asking"
                            /\ LoadMemory(p, "request", op, k) /\ UNCHANGED enqueued
          [] OTHER -> LoadMemory(p, "request", op, k) /\ UNCHANGED <<visitor, enqueued>>
     /\ UNCHANGED <<hour, table, history, file, queue, refreshing, polls, restarts,
                    saved, disturbed>>

(* The loading page asks any process, and loads the forecast's page again   *)
(* once there is one that is not being refreshed, or it has asked for long. *)
Poll(p) ==
  /\ visitor = "waiting" /\ polls < MaxPolls
  /\ thread[p]["request"].pc = "idle"
  /\ LoadMemory(p, "request", "poll", Anon)
  /\ visitor' = "polling" /\ polls' = polls + 1
  /\ UNCHANGED <<hour, table, history, file, queue, enqueued, refreshing, requests,
                 restarts, saved, disturbed>>

Reload(p) ==
  /\ \/ visitor = "leaving"
     \/ visitor = "waiting" /\ polls = MaxPolls
  /\ thread[p]["request"].pc = "idle"
  /\ LoadMemory(p, "request", "page", Anon)
  /\ visitor' = "asking" /\ polls' = 0
  /\ UNCHANGED <<hour, table, history, file, queue, enqueued, refreshing, requests,
                 restarts, saved, disturbed>>

(* A check of the poller comes to this location, and ends with a forecast.  *)
Check(p) ==
  /\ requests < MaxRequests /\ requests' = requests + 1
  /\ thread[p]["poller"].pc = "idle"
  /\ LoadMemory(p, "poller", "alert", Anon)
  /\ UNCHANGED <<hour, table, history, file, queue, enqueued, refreshing, visitor, polls,
                 restarts, saved, disturbed>>

Alert(p) ==
  LET x == thread[p]["poller"]
  IN /\ x.pc = "answer"
     /\ Goto(p, "poller", IF x.at = None THEN Generate(x) ELSE Idle)
     /\ UNCHANGED <<hour, memory, table, history, file, queue, enqueued, refreshing, visitor, polls,
                    requests, restarts, saved, disturbed>>

(* What the route does with the forecast it has loaded, or with none.       *)
Respond(p) ==
  LET x == thread[p]["request"]
      Ends(v) == Goto(p, "request", Idle) /\ visitor' = v /\ UNCHANGED enqueued
  IN /\ x.pc = "answer"
     /\ CASE x.op = "poll" ->
               Ends(IF x.at # None /\ ~UnderWay(p, x.key) THEN "leaving" ELSE "waiting")
          [] x.op = "outlook" -> Ends(visitor)
          [] x.op \in {"page", "forecast"} /\ x.at = None ->
               IF x.op = "page" /\ UnderWay(p, x.key)
               THEN Ends("waiting")
               ELSE Goto(p, "request", Generate(x)) /\ UNCHANGED <<visitor, enqueued>>
          [] OTHER ->
               IF OverAge(x.at)
               THEN Enqueue(p, x)
               ELSE Ends(AfterAnswer(x))
     /\ UNCHANGED <<hour, memory, table, history, file, queue, refreshing, polls,
                    requests, restarts, saved, disturbed>>

-----------------------------------------------------------------------------
(* The process is killed and started again: its memory, its queue and the   *)
(* answers on their way are lost, and create_app prunes the table, in a      *)
(* thread that is taken to be through before anything else happens.         *)
Restart(p) ==
  LET x == thread[p]["request"]
  IN /\ restarts < MaxRestarts
     /\ restarts' = restarts + 1
     /\ memory'     = [memory EXCEPT ![p] = <<>>]
     /\ queue'      = [queue EXCEPT ![p] = <<>>]
     /\ enqueued'   = [enqueued EXCEPT ![p] = {}]
     /\ refreshing' = [refreshing EXCEPT ![p] = {}]
     /\ thread'     = [thread EXCEPT ![p] = [r \in Roles |-> Idle]]
     /\ table'      = [k \in Keys |-> IF Pruned(k) THEN None ELSE table[k]]
     /\ saved'      = [q \in Processes |-> [k \in Keys |-> IF Pruned(k) THEN None ELSE saved[q][k]]]
     /\ disturbed'  = disturbed \union {k \in Keys : Pruned(k)}
     /\ visitor'    = IF x.op = "poll" THEN "waiting" ELSE AfterAnswer(x)
     /\ UNCHANGED <<hour, history, file, polls, requests>>

Tick ==
  /\ hour < LastTime
  /\ hour' = hour + 1
  /\ UNCHANGED <<memory, table, history, file, queue, enqueued, refreshing, thread, visitor, polls, requests, restarts, saved, disturbed>>

RefreshInit ==
  /\ hour = 0
  /\ memory = [p \in Processes |-> <<>>]
  /\ table = [k \in Keys |-> None]
  /\ history \in {None, 0} /\ file = None
  /\ queue = [p \in Processes |-> <<>>]
  /\ enqueued = [p \in Processes |-> {}] /\ refreshing = enqueued
  /\ thread = [p \in Processes |-> [r \in Roles |-> Idle]]
  /\ visitor = "away" /\ polls = 0
  /\ requests \in 0..MaxRequests /\ restarts \in 0..MaxRestarts
  /\ saved = [p \in Processes |-> [k \in Keys |-> None]]
  /\ disturbed = {}

LoadSteps(p, r) == Query(p, r) \/ Found(p, r) \/ Pop(p, r) \/ Fallbacks(p, r) \/ Migrate(p, r)

RequestSteps(p) == LoadSteps(p, "request") \/ Respond(p) \/ Put(p)

PollerSteps(p) == LoadSteps(p, "poller") \/ Alert(p)

WorkerSteps(p) == Take(p) \/ Start(p) \/ Finally(p)

Steps(p, r) ==
  \/ r = "request" /\ RequestSteps(p)
  \/ r = "poller" /\ PollerSteps(p)
  \/ r = "worker" /\ WorkerSteps(p)
  \/ GenerateFails(p, r) \/ SaveRow(p, r) \/ Remember(p, r)

Visit(p) == Poll(p) \/ Reload(p)

(* Whatever process p may do, asked for the forecasts of the users in K.    *)
ProcessNext(p, K) ==
  \/ \E r \in Roles : Steps(p, r)
  \/ \E op \in Ops \ {"poll", "alert"} : \E k \in KeysOf(op) \intersect K : Request(p, op, k)
  \/ Visit(p) \/ Check(p)
  \/ Restart(p)

RefreshNext == Tick \/ \E p \in Processes : ProcessNext(p, Keys)

(* Every thread runs, the upstream requests of a generation have timeouts,  *)
(* and the page's timers fire.                                              *)
RefreshFairness ==
  /\ \A p \in Processes, r \in Roles : WF_refreshVars(Steps(p, r))
  /\ WF_refreshVars(\E p \in Processes : Visit(p))

RefreshSpec == RefreshInit /\ [][RefreshNext]_refreshVars /\ RefreshFairness

-----------------------------------------------------------------------------
(* Every variable keeps its type.                                           *)
RefreshTypeOK ==
  LET Maybe(S) == S \union {None}
  IN /\ hour \in Times
     /\ \A p \in Processes :
          /\ Len(memory[p]) <= MemMax
          /\ \A i \in DOMAIN memory[p] : memory[p][i] \in [key : Keys, at : Times]
          /\ queue[p] \in Seq(Keys)
          /\ \A r \in Roles :
               /\ thread[p][r].op \in Maybe(Ops) /\ thread[p][r].key \in Maybe(Keys)
               /\ thread[p][r].at \in Maybe(Times) /\ thread[p][r].floor \in Maybe(Times)
     /\ table \in [Keys -> Maybe(Times)] /\ {history, file} \subseteq Maybe(Times)
     /\ enqueued \in [Processes -> SUBSET Keys] /\ refreshing \in [Processes -> SUBSET Keys]
     /\ visitor \in {"away", "asking", "waiting", "polling", "leaving"} /\ polls \in 0..MaxPolls
     /\ saved \in [Processes -> [Keys -> Maybe(Times)]] /\ disturbed \subseteq Keys

(* "Queue a refresh if one is not already queued/running for this           *)
(* location/user": a process never has two of a key, counting the one a     *)
(* thread is about to put and the one the worker has taken.                 *)
OneRefreshPerKey ==
  \A p \in Processes :
    LET Putting(k) == thread[p]["request"].pc = "put" /\ thread[p]["request"].key = k
        Working(k) == thread[p]["worker"].key = k
    IN /\ \A i, j \in DOMAIN queue[p] : queue[p][i] = queue[p][j] => i = j
       /\ \A i \in DOMAIN queue[p] : ~Putting(queue[p][i]) /\ ~Working(queue[p][i])
       /\ \A k \in Keys : ~(Putting(k) /\ Working(k))

(* The memory is updated "so the next render sees fresh data without a DB   *)
(* round-trip": a process answers with a forecast older than one it had     *)
(* saved when the request came only if something of that key was written    *)
(* while another thread was at work on it, or a row could not be written.   *)
OnlyOverlapShowsOlder ==
  \A p \in Processes, r \in Loaders :
    LET x == thread[p][r]
    IN x.pc = "answer" /\ Older(x.at, x.floor) => x.key \in disturbed

(* The loading page gives way to the forecast or to an error.               *)
WaitingPageEnds == visitor = "waiting" ~> visitor = "away"
=============================================================================
