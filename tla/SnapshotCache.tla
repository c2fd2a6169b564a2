--------------------------- MODULE SnapshotCache ---------------------------
(***************************************************************************)
(* The forecast snapshot cache: SnapshotCache of                           *)
(* apps/api/app/infra/snapshot_cache.py, as domain/forecast_cache.py and   *)
(* the forecast routes use it.                                             *)
(*                                                                         *)
(* One asyncio.Lock per key serializes the callers.  The lock is modelled  *)
(* as a FIFO queue whose head holds it.  A caller holds the lock across    *)
(* the await of its fetch, so a fetch is two steps and everything that is  *)
(* not behind the same lock interleaves between them.                      *)
(*                                                                         *)
(* A cached value is a forecast envelope.  All that matters here is the    *)
(* time it was generated for: the `now` the route read when the request    *)
(* arrived, before it waited for the lock.  fetched_at is the time read    *)
(* under the lock, before the fetch.                                       *)
(***************************************************************************)
EXTENDS Naturals, Sequences

CONSTANTS
  Callers,    \* request tasks
  Keys,       \* resolved location ids
  FreshTTL,   \* fresh_ttl_seconds
  StaleTTL,   \* stale_ttl_seconds
  MaxTime,    \* bound on the clock
  NoEntry     \* the None of _entries.get(key)

ASSUME TTLAssumption ==
  FreshTTL \in Nat /\ StaleTTL \in Nat /\ FreshTTL <= StaleTTL

Ops     == {"get", "force"}
Entry   == [generated_at : Nat, fetched_at : Nat]
Request == [op : Ops, key : Keys, asked : Nat]

ASSUME NoEntryAssumption == NoEntry \notin Entry
ASSUME KeysAssumption == Keys # {}

VARIABLES
  clock,      \* the injectable clock, in ticks
  entries,    \* _entries
  queue,      \* queue[l]: callers of lock l in arrival order, the head holds it
  pc,         \* where each caller is
  req,        \* the caller's current or last request
  fetch,      \* of a caller that is fetching: `now` and `fallback_entry`
  reply       \* the caller's last answer

vars == <<clock, entries, queue, pc, req, fetch, reply>>

MaybeEntry == Entry \union {NoEntry}
NoFetch    == [at |-> 0, fallback |-> NoEntry]
NoReply    == [kind |-> "none", entry |-> NoEntry]

(* "hit" and "fetched" are CachedSnapshots with is_fresh, "fallback" is one *)
(* with is_fallback (the route relabels it STALE), "error" is a raise.      *)
ReplyKinds == {"none", "hit", "fetched", "fallback", "error"}

(* Every variable keeps its type: the entries and locks of SnapshotCache,   *)
(* and where each coroutine stands between two awaits.                      *)
TypeOK ==
  /\ clock \in Nat
  /\ entries \in [Keys -> MaybeEntry]
  /\ queue \in [Keys -> Seq(Callers)]
  /\ pc \in [Callers -> {"idle", "waiting", "fetching"}]
  /\ req \in [Callers -> Request]
  /\ fetch \in [Callers -> [at : Nat, fallback : MaybeEntry]]
  /\ reply \in [Callers -> [kind : ReplyKinds, entry : MaybeEntry]]

Init ==
  /\ clock = 0
  /\ entries = [k \in Keys |-> NoEntry]
  /\ queue = [k \in Keys |-> <<>>]
  /\ pc = [c \in Callers |-> "idle"]
  /\ req = [c \in Callers |->
              [op |-> "get", key |-> CHOOSE k \in Keys : TRUE, asked |-> 0]]
  /\ fetch = [c \in Callers |-> NoFetch]
  /\ reply = [c \in Callers |-> NoReply]

-----------------------------------------------------------------------------
(* The lock and the two ages *)

OneLock(k) == CHOOSE l \in Keys : TRUE          \* mutant: one lock for all keys
LockOf(k) == k                                  \* self._locks[key]

(* mutant: the lock admits every waiter *)
AnyWaiter(c) ==
  LET l == LockOf(req[c].key) IN \E i \in 1..Len(queue[l]) : queue[l][i] = c

HoldsLock(c) ==
  LET l == LockOf(req[c].key) IN queue[l] # <<>> /\ Head(queue[l]) = c

FreshAtTTL(e)   == clock <= e.fetched_at + FreshTTL     \* mutant: off by one
ExpiredEarly(e) == clock >= e.fetched_at + FreshTTL     \* mutant: the wrong TTL

Fresh(e)   == clock < e.fetched_at + FreshTTL
Expired(e) == clock >= e.fetched_at + StaleTTL

CachedFor(c) == entries[req[c].key]

FreshHit(c) ==
  /\ req[c].op = "get"
  /\ CachedFor(c) # NoEntry
  /\ Fresh(CachedFor(c))

Evicts(c) ==
  /\ req[c].op = "get"
  /\ CachedFor(c) # NoEntry
  /\ Expired(CachedFor(c))

(* Leaving `async with` wakes the next waiter.  *)
Answer(c, kind, entry) ==
  /\ pc' = [pc EXCEPT ![c] = "idle"]
  /\ queue' = [queue EXCEPT ![LockOf(req[c].key)] = Tail(@)]
  /\ fetch' = [fetch EXCEPT ![c] = NoFetch]
  /\ reply' = [reply EXCEPT ![c] = [kind |-> kind, entry |-> entry]]

-----------------------------------------------------------------------------
(* Actions *)

(* A route reads `now` and enters get_or_refresh or force_refresh.          *)
Call(c, k, op) ==
  /\ pc[c] = "idle"
  /\ pc' = [pc EXCEPT ![c] = "waiting"]
  /\ req' = [req EXCEPT ![c] = [op |-> op, key |-> k, asked |-> clock]]
  /\ queue' = [queue EXCEPT ![LockOf(k)] = Append(@, c)]
  /\ reply' = [reply EXCEPT ![c] = NoReply]
  /\ UNCHANGED <<clock, entries, fetch>>

(* get_or_refresh under the lock: a young enough entry is returned at once. *)
Hit(c) ==
  /\ pc[c] = "waiting"
  /\ HoldsLock(c)
  /\ FreshHit(c)
  /\ Answer(c, "hit", CachedFor(c))
  /\ UNCHANGED <<clock, entries, req>>

(* Otherwise, and always for force_refresh, the fetch is started.  Only     *)
(* get_or_refresh evicts an expired entry first.                            *)
StartFetch(c) ==
  /\ pc[c] = "waiting"
  /\ HoldsLock(c)
  /\ ~FreshHit(c)
  /\ LET kept == IF Evicts(c) THEN NoEntry ELSE CachedFor(c) IN
       /\ entries' = [entries EXCEPT ![req[c].key] = kept]
       /\ fetch' = [fetch EXCEPT ![c] = [at |-> clock, fallback |-> kept]]
  /\ pc' = [pc EXCEPT ![c] = "fetching"]
  /\ UNCHANGED <<clock, queue, req, reply>>

(* mutant: fetched_at is forgotten *)
FetchedUndated(c) == [generated_at |-> req[c].asked, fetched_at |-> NoEntry]

Fetched(c) == [generated_at |-> req[c].asked, fetched_at |-> fetch[c].at]

FetchOk(c) ==
  /\ pc[c] = "fetching"
  /\ entries' = [entries EXCEPT ![req[c].key] = Fetched(c)]
  /\ Answer(c, "fetched", Fetched(c))
  /\ UNCHANGED <<clock, req>>

FetchFail(c) ==
  /\ pc[c] = "fetching"
  /\ \/ /\ fetch[c].fallback # NoEntry
        /\ Answer(c, "fallback", fetch[c].fallback)
     \/ /\ fetch[c].fallback = NoEntry
        /\ Answer(c, "error", NoEntry)
  /\ UNCHANGED <<clock, entries, req>>

(* The cache is process memory: a restart loses it and the calls in flight. *)
Restart ==
  /\ entries' = [k \in Keys |-> NoEntry]
  /\ queue' = [k \in Keys |-> <<>>]
  /\ pc' = [c \in Callers |-> "idle"]
  /\ fetch' = [c \in Callers |-> NoFetch]
  /\ UNCHANGED <<clock, req, reply>>

Tick ==
  /\ clock < MaxTime
  /\ clock' = clock + 1
  /\ UNCHANGED <<entries, queue, pc, req, fetch, reply>>

Step(c) == Hit(c) \/ StartFetch(c) \/ FetchOk(c) \/ FetchFail(c)

Next ==
  \/ \E c \in Callers, k \in Keys, op \in Ops : Call(c, k, op)
  \/ \E c \in Callers : Step(c)
  \/ Restart
  \/ Tick

Spec == Init /\ [][Next]_vars

(* Every caller keeps being scheduled, and a fetch ends: each upstream      *)
(* request has a timeout and a bounded number of retries.  The exception is *)
(* a set of keys whose fetches may hang, to ask whom a hung fetch can hold. *)
FairExcept(hung) == \A c \in Callers : WF_vars(Step(c) /\ req[c].key \notin hung)

-----------------------------------------------------------------------------
(* Safety *)

(* The per-key lock makes the refresh of a key single-flight: while one     *)
(* caller is awaiting its fetch no other fetch for that key is in flight.   *)
SingleFlight ==
  \A c, d \in Callers :
    pc[c] = "fetching" /\ pc[d] = "fetching" /\ req[c].key = req[d].key => c = d

(* What a caller read before it awaited its fetch is still what is cached   *)
(* when it comes back: the fallback it will serve has not been replaced or  *)
(* evicted behind its back.                                                 *)
FallbackIsCurrent ==
  \A c \in Callers : pc[c] = "fetching" => fetch[c].fallback = CachedFor(c)

(* The envelope in the cache was generated for a request that had been made *)
(* before its fetch began, and no later than any request still in the       *)
(* queue: nobody who waits can be handed a forecast from its own future,    *)
(* and nobody who fetches can overwrite a newer one.                        *)
SnapshotsInRequestOrder ==
  \A k \in Keys : entries[k] # NoEntry =>
    /\ entries[k].generated_at <= entries[k].fetched_at
    /\ entries[k].fetched_at <= clock
    /\ \A c \in Callers : pc[c] # "idle" /\ req[c].key = k =>
          entries[k].generated_at <= req[c].asked

(* Why the above hold.  A lock's queue holds the callers that are not idle, *)
(* each once, in the order they asked, and whoever fetches is at its head.  *)
QueueInv ==
  /\ \A k \in Keys : \A i \in 1..Len(queue[k]) :
       pc[queue[k][i]] # "idle" /\ req[queue[k][i]].key = k
  /\ \A k \in Keys : \A i, j \in 1..Len(queue[k]) :
       /\ queue[k][i] = queue[k][j] => i = j
       /\ i <= j => req[queue[k][i]].asked <= req[queue[k][j]].asked
  /\ \A c \in Callers : pc[c] # "idle" =>
       \E i \in 1..Len(queue[req[c].key]) : queue[req[c].key][i] = c
  /\ \A c \in Callers : pc[c] = "fetching" => HoldsLock(c)

(* While c fetches, what is cached is older than its fetch, and what a GET  *)
(* kept to fall back to had not expired.                                    *)
CachedDuringFetch(c) ==
  /\ CachedFor(c).fetched_at <= fetch[c].at
  /\ req[c].op = "get" => fetch[c].at < CachedFor(c).fetched_at + StaleTTL

(* What is cached, what is about to be and what has been handed out for a   *)
(* key are in the order of the requests in its queue.                       *)
OrderInv ==
  /\ \A c \in Callers : req[c].asked <= clock
  /\ \A c \in Callers : pc[c] # "idle" => reply[c] = NoReply
  /\ \A c \in Callers : pc[c] = "fetching" =>
       /\ req[c].asked <= fetch[c].at /\ fetch[c].at <= clock
       /\ CachedFor(c) # NoEntry => CachedDuringFetch(c)
  /\ \A d \in Callers : reply[d].entry # NoEntry =>
       LET given == reply[d].entry.generated_at
           k     == req[d].key
       IN /\ given <= clock
          /\ entries[k] # NoEntry => given <= entries[k].generated_at
          /\ \A c \in Callers : pc[c] # "idle" /\ req[c].key = k => given <= req[c].asked

(* The inductive invariant of the safety proofs. *)
IndInv ==
  /\ TypeOK
  /\ QueueInv
  /\ FallbackIsCurrent
  /\ SnapshotsInRequestOrder
  /\ OrderInv

-----------------------------------------------------------------------------
(* Action properties *)

Answers(c) == pc[c] # "idle" /\ pc'[c] = "idle" /\ reply'[c].kind # "none"

(* A cached envelope is only ever replaced by one that is no older, by      *)
(* either of its two times, although requests overlap and fetches take      *)
(* arbitrarily long.                                                        *)
NeverReplacedByOlder ==
  [][\A k \in Keys : entries[k] # NoEntry /\ entries'[k] # NoEntry =>
       /\ entries'[k].generated_at >= entries[k].generated_at
       /\ entries'[k].fetched_at >= entries[k].fetched_at]_vars

(* Reads are monotonic: whoever is answered later, by a hit, a fetch or a   *)
(* fallback, evictions and restarts in between included, is given an        *)
(* envelope no older than the one any other caller of that key has already  *)
(* been given.                                                              *)
ReadsAreMonotonic ==
  [][\A c, d \in Callers :
       /\ Answers(c)
       /\ reply'[c].entry # NoEntry
       /\ pc[d] = "idle" /\ reply[d].entry # NoEntry
       /\ req[d].key = req[c].key
       => reply'[c].entry.generated_at >= reply[d].entry.generated_at]_vars

(* An answer labelled fresh is: it was generated for this very request, or  *)
(* the caller asked to be served from the cache and it is within            *)
(* fresh_ttl_seconds at the moment it is served.  A forced refresh is never *)
(* answered with somebody else's snapshot.                                  *)
FreshIsLiveOrYoung ==
  [][\A c \in Callers :
       Answers(c) /\ reply'[c].kind \in {"hit", "fetched"} =>
         \/ reply'[c].entry.generated_at = req[c].asked
         \/ req[c].op = "get" /\ clock < reply'[c].entry.fetched_at + FreshTTL]_vars

(* An outage blanks nobody who could be served: a caller is given an error  *)
(* only when there is nothing cached for its key.                           *)
ErrorOnlyWhenNothingCached ==
  [][\A c \in Callers :
       Answers(c) /\ reply'[c].kind = "error" => CachedFor(c) = NoEntry]_vars

(* A GET's fallback was younger than stale_ttl_seconds when its refresh was *)
(* attempted: a snapshot past that age is never shown again by a GET.       *)
GetFallbackIsEligible ==
  [][\A c \in Callers :
       Answers(c) /\ reply'[c].kind = "fallback" /\ req[c].op = "get" =>
         fetch[c].at < reply'[c].entry.fetched_at + StaleTTL]_vars

-----------------------------------------------------------------------------
(* Refinement *)

Store == INSTANCE ForecastStore WITH
  stored <- entries,
  asking <- {c \in Callers : pc[c] # "idle"},
  answer <- reply

(* The cache with its locks, queues and two-step fetches implements the     *)
(* store that answers every caller in one step: what a caller read before   *)
(* an await still holds after it.                                           *)
ImplementsStore == Store!Spec

-----------------------------------------------------------------------------
(* Liveness *)

(* Whoever waits for a key whose fetches end is answered, whatever hangs on *)
(* other keys: the lock is handed on by every way out of a call, and        *)
(* "callers for different keys never block each other".                     *)
AnsweredUnlessHung(hung) ==
  \A c \in Callers :
    (pc[c] # "idle" /\ req[c].key \notin hung) ~> (pc[c] = "idle")
=============================================================================
