----------------------------- MODULE HttpClient -----------------------------
(***************************************************************************)
(* BoundedHTTPClient of apps/api/app/infra/http_client.py: the one client  *)
(* every provider call of the process goes through.                        *)
(*                                                                         *)
(* A call makes up to MaxRetries + 1 attempts.  An attempt waits for the   *)
(* pool, the connection, the handshake, the request to be written and then *)
(* for every piece of the headers and of the body; each of these waits has *)
(* a timeout of its own, and the sleep before the next attempt doubles.    *)
(* Time passes only while every wait can still last, so a wait that is due *)
(* ends before the clock moves on.                                         *)
(*                                                                         *)
(* httpx is outside the repository.  Of it the model takes the connection  *)
(* limit, the order of the waits and which timeout each has.  Every piece  *)
(* of a body is one that aiter_bytes yields.                               *)
(***************************************************************************)
EXTENDS Integers, FiniteSets

CONSTANTS
  Fetchers,        \* tasks that call get_json or get_text
  MaxRetries,      \* max_retries
  Backoff,         \* Backoff[a]: backoff_base_seconds * 2**a
  ConnectTimeout,  \* connect_timeout: for the pool, the connection and the handshake
  ReadTimeout,     \* read_timeout: for the write, and for each piece read
  MaxHead,         \* the most pieces httpx takes the headers of a response in
  MaxBody,         \* max_response_bytes, in pieces
  MaxConnections,  \* max_connections
  TimeFrom         \* TimeFrom[a]: the longest a call lasts from its attempt a on

(* The longest an attempt can wait for the pool, the connection and the     *)
(* handshake; then to write; then for its headers; and then for each piece  *)
(* of the body, the one past the limit included.                            *)
OpenTime == 3 * ConnectTimeout
HeadTime == MaxHead * ReadTimeout
BodyTime == (MaxBody + 1) * ReadTimeout
AttemptTime == OpenTime + ReadTimeout + HeadTime + BodyTime

ASSUME HttpAssumption ==
  /\ MaxRetries \in Nat /\ Backoff \in [0..MaxRetries -> Nat]
  /\ ConnectTimeout \in Nat /\ ReadTimeout \in Nat
  /\ MaxHead \in Nat \ {0} /\ MaxBody \in Nat /\ MaxConnections \in Nat \ {0}

ASSUME TimeAssumption ==
  /\ TimeFrom \in [0..MaxRetries -> Nat]
  /\ TimeFrom[MaxRetries] = AttemptTime
  /\ \A a \in 0..MaxRetries :
       a < MaxRetries => TimeFrom[a] = AttemptTime + Backoff[a] + TimeFrom[a + 1]

VARIABLES
  stage,      \* stage[f]: where the call of f is
  attempt,    \* the local of _request_with_retries
  left,       \* how much longer the present wait may last
  received,   \* pieces so far of what is read, the headers or the body
  outcome,    \* what the last call came to
  spent       \* how long the call has lasted

httpVars == <<stage, attempt, left, received, outcome, spent>>

Exchange == {"connect", "handshake", "write", "headers", "body"}
Waits   == Exchange \union {"pool", "sleep"}
Stages  == Waits \union {"idle"}
(* ProviderError's subclasses, the two ways to succeed, and what is neither *)
Outcomes == {"none", "body", "timeout", "connection", "transient_status", "status", "too_large", "unparsed"}

(* "Only for transient failures (connection errors, timeouts, 429,          *)
(* 502/503/504)".                                                           *)
Retryable(r) == r \in {"timeout", "connection", "transient_status"}

HttpTypeOK ==
  /\ stage \in [Fetchers -> Stages]
  /\ attempt \in [Fetchers -> 0..MaxRetries]
  /\ left \in [Fetchers -> Nat]
  /\ received \in [Fetchers -> Nat]
  /\ outcome \in [Fetchers -> Outcomes]
  /\ spent \in [Fetchers -> Nat]

HttpInit ==
  /\ stage = [f \in Fetchers |-> "idle"]
  /\ attempt = [f \in Fetchers |-> 0]
  /\ left = [f \in Fetchers |-> 0]
  /\ received = [f \in Fetchers |-> 0]
  /\ outcome = [f \in Fetchers |-> "none"]
  /\ spent = [f \in Fetchers |-> 0]

-----------------------------------------------------------------------------
(* The connections of the pool that are in use. *)
InUse == {f \in Fetchers : stage[f] \in Exchange}

Wait(f, p, t) ==
  /\ stage' = [stage EXCEPT ![f] = p]
  /\ left' = [left EXCEPT ![f] = t]

Return(f, r) ==
  /\ Wait(f, "idle", 0)
  /\ outcome' = [outcome EXCEPT ![f] = r]
  /\ attempt' = [attempt EXCEPT ![f] = 0]
  /\ received' = [received EXCEPT ![f] = 0]

(* The except clause of _request_with_retries: the connection has been      *)
(* given back, and the call sleeps or raises.                               *)
AttemptEnds(f, r) ==
  /\ UNCHANGED spent
  /\ IF Retryable(r) /\ attempt[f] < MaxRetries
     THEN /\ Wait(f, "sleep", Backoff[attempt[f]])
          /\ received' = [received EXCEPT ![f] = 0]
          /\ UNCHANGED <<attempt, outcome>>
     ELSE Return(f, r)

-----------------------------------------------------------------------------
(* get_json or get_text is called: the first attempt asks the pool.         *)
Get(f) ==
  /\ stage[f] = "idle"
  /\ Wait(f, "pool", ConnectTimeout)
  /\ spent' = [spent EXCEPT ![f] = 0]
  /\ outcome' = [outcome EXCEPT ![f] = "none"]
  /\ UNCHANGED <<attempt, received>>

(* The call that is next opens a connection, or takes one that was kept     *)
(* alive and writes at once.                                                *)
Acquire(f) ==
  /\ stage[f] = "pool"
  /\ Cardinality(InUse) < MaxConnections
  /\ \/ Wait(f, "connect", ConnectTimeout)
     \/ Wait(f, "write", ReadTimeout)
  /\ UNCHANGED <<attempt, received, outcome, spent>>

Connected(f) ==
  /\ stage[f] = "connect"
  /\ Wait(f, "handshake", ConnectTimeout)
  /\ UNCHANGED <<attempt, received, outcome, spent>>

Secured(f) ==
  /\ stage[f] = "handshake"
  /\ Wait(f, "write", ReadTimeout)
  /\ UNCHANGED <<attempt, received, outcome, spent>>

Written(f) ==
  /\ stage[f] = "write"
  /\ Wait(f, "headers", ReadTimeout)
  /\ UNCHANGED <<attempt, received, outcome, spent>>

(* A piece of the headers that is not the last starts a new wait. *)
Header(f) ==
  /\ stage[f] = "headers"
  /\ received[f] + 1 < MaxHead
  /\ received' = [received EXCEPT ![f] = @ + 1]
  /\ Wait(f, "headers", ReadTimeout)
  /\ UNCHANGED <<attempt, outcome, spent>>

(* The headers are complete, and stream() is entered. *)
Streaming(f) ==
  /\ stage[f] = "headers"
  /\ received' = [received EXCEPT ![f] = 0]
  /\ Wait(f, "body", ReadTimeout)
  /\ UNCHANGED <<attempt, outcome, spent>>

(* The loop over aiter_bytes: the piece that exceeds the limit ends the     *)
(* call before its status is looked at; every other starts a new wait.      *)
Chunk(f) ==
  /\ stage[f] = "body"
  /\ IF received[f] = MaxBody
     THEN AttemptEnds(f, "too_large")
     ELSE /\ received' = [received EXCEPT ![f] = @ + 1]
          /\ Wait(f, "body", ReadTimeout)
          /\ UNCHANGED <<attempt, outcome, spent>>

(* The body is complete: its status decides, and get_json parses it.        *)
Complete(f) ==
  /\ stage[f] = "body"
  /\ \E r \in {"body", "unparsed", "transient_status", "status"} : AttemptEnds(f, r)

(* Any httpx.TransportError that is no timeout.                             *)
Break(f) ==
  /\ stage[f] \in Exchange
  /\ AttemptEnds(f, "connection")

(* PoolTimeout, ConnectTimeout, WriteTimeout or ReadTimeout.                *)
TimeOut(f) ==
  /\ stage[f] \in Exchange \union {"pool"}
  /\ left[f] = 0
  /\ AttemptEnds(f, "timeout")

(* mutant: the attempt is not counted *)
WakeUncounted(f) ==
  /\ stage[f] = "sleep"
  /\ left[f] = 0
  /\ Wait(f, "pool", ConnectTimeout)
  /\ UNCHANGED <<attempt, received, outcome, spent>>

(* asyncio.sleep is over. *)
Wake(f) ==
  /\ stage[f] = "sleep"
  /\ left[f] = 0
  /\ attempt' = [attempt EXCEPT ![f] = @ + 1]
  /\ Wait(f, "pool", ConnectTimeout)
  /\ UNCHANGED <<received, outcome, spent>>

Calling == {f \in Fetchers : stage[f] \in Waits}

HttpTick ==
  /\ Calling # {}
  /\ \A f \in Calling : left[f] > 0
  /\ left' = [f \in Fetchers |-> IF f \in Calling THEN left[f] - 1 ELSE left[f]]
  /\ spent' = [f \in Fetchers |-> IF f \in Calling THEN spent[f] + 1 ELSE spent[f]]
  /\ UNCHANGED <<stage, attempt, received, outcome>>

(* What the event loop or a timer does for a call without the provider.     *)
HttpStep(f) == Acquire(f) \/ TimeOut(f) \/ Wake(f)

HttpNext ==
  \/ \E f \in Fetchers :
       \/ Get(f) \/ HttpStep(f) \/ Connected(f) \/ Secured(f) \/ Written(f)
       \/ Header(f) \/ Streaming(f) \/ Chunk(f) \/ Complete(f) \/ Break(f)
  \/ HttpTick

HttpSpec == HttpInit /\ [][HttpNext]_httpVars

-----------------------------------------------------------------------------
(* "No unbounded waits": a call, and with it every cache lock held above    *)
(* it, lasts no longer than all its attempts and backoffs at their          *)
(* longest, however the provider and the other calls behave.                *)
CallsAreBounded == \A f \in Fetchers : spent[f] <= TimeFrom[0]

(* The strengthening that makes it inductive: what the call has lasted and  *)
(* what it can still last are together within the bound.  Gone is what the  *)
(* waits of this attempt up to the present one can have lasted.             *)
Gone(p, r) ==
  CASE p = "pool"      -> ConnectTimeout
    [] p = "connect"   -> 2 * ConnectTimeout
    [] p = "handshake" -> OpenTime
    [] p = "write"     -> OpenTime + ReadTimeout
    [] p = "headers"   -> OpenTime + ReadTimeout + (r + 1) * ReadTimeout
    [] p = "body"      -> OpenTime + ReadTimeout + HeadTime + (r + 1) * ReadTimeout
    [] OTHER           -> 0

Affordable(p, a, t, r, s) ==
  /\ p = "idle" => a = 0 /\ s <= TimeFrom[0]
  /\ p \in Exchange \union {"pool"} => s + t + TimeFrom[a] - Gone(p, r) <= TimeFrom[0]
  /\ p = "sleep" => a < MaxRetries /\ s + t + TimeFrom[a + 1] <= TimeFrom[0]
  /\ p = "headers" => r < MaxHead
  /\ p = "body" => r <= MaxBody
  /\ p \notin {"headers", "body"} => r = 0

WithinBudget ==
  \A f \in Fetchers : Affordable(stage[f], attempt[f], left[f], received[f], spent[f])

(* Every call comes back, also from a provider that accepts the connection  *)
(* and never sends anything, and also behind calls that fill the pool.      *)
CallsEnd == \A f \in Fetchers : stage[f] # "idle" ~> stage[f] = "idle"
=============================================================================
