--------------------------- MODULE ForecastStore ---------------------------
(***************************************************************************)
(* What the snapshot cache promises its callers, without locks, queues or  *)
(* fetches in flight: one register per key, and every answer a single step *)
(* that looks at the register as it is at that moment.  SnapshotCache is   *)
(* shown to implement this specification.                                  *)
(***************************************************************************)
EXTENDS Naturals

CONSTANTS Callers, Keys, FreshTTL, StaleTTL, NoEntry

VARIABLES
  clock,
  stored,     \* the envelope of each key
  asking,     \* the callers that have asked and not been answered
  req,        \* what each caller last asked
  answer      \* what it was last told

vars == <<clock, stored, asking, req, answer>>

Entry   == [generated_at : Nat, fetched_at : Nat]
NoAnswer == [kind |-> "none", entry |-> NoEntry]

Init ==
  /\ clock = 0
  /\ stored = [k \in Keys |-> NoEntry]
  /\ asking = {}
  /\ req = [c \in Callers |->
              [op |-> "get", key |-> CHOOSE k \in Keys : TRUE, asked |-> 0]]
  /\ answer = [c \in Callers |-> NoAnswer]

Ask(c, k, op) ==
  /\ c \notin asking
  /\ asking' = asking \union {c}
  /\ req' = [req EXCEPT ![c] = [op |-> op, key |-> k, asked |-> clock]]
  /\ answer' = [answer EXCEPT ![c] = NoAnswer]
  /\ UNCHANGED <<clock, stored>>

Tell(c, kind, entry) ==
  /\ asking' = asking \ {c}
  /\ answer' = [answer EXCEPT ![c] = [kind |-> kind, entry |-> entry]]
  /\ UNCHANGED <<clock, req>>

(* A young envelope answers a caller that did not insist on a new one. *)
Serve(c, e) ==
  /\ req[c].op = "get"
  /\ clock < e.fetched_at + FreshTTL
  /\ Tell(c, "hit", e)
  /\ UNCHANGED stored

(* A new envelope, generated for this request, never replaces a newer one. *)
Publish(c, at) ==
  LET e   == [generated_at |-> req[c].asked, fetched_at |-> at]
      old == stored[req[c].key]
  IN /\ req[c].asked <= at /\ at <= clock
     /\ old # NoEntry =>
          /\ old.generated_at <= e.generated_at
          /\ old.fetched_at <= e.fetched_at
     /\ stored' = [stored EXCEPT ![req[c].key] = e]
     /\ Tell(c, "fetched", e)

(* A caller whose refresh was tried at time `at` and failed is told what is *)
(* stored; a GET only if that had not expired when the refresh was tried.   *)
FallBack(c, at, e) ==
  /\ req[c].asked <= at /\ at <= clock
  /\ req[c].op = "get" => at < e.fetched_at + StaleTTL
  /\ Tell(c, "fallback", e)
  /\ UNCHANGED stored

(* An error is the answer only when nothing is stored. *)
GiveUp(c) ==
  /\ stored[req[c].key] = NoEntry
  /\ Tell(c, "error", NoEntry)
  /\ UNCHANGED stored

(* Only an expired envelope is ever dropped, by a GET that comes upon it ... *)
Expire(c) ==
  LET old == stored[req[c].key] IN
    /\ req[c].op = "get"
    /\ old # NoEntry
    /\ clock >= old.fetched_at + StaleTTL
    /\ stored' = [stored EXCEPT ![req[c].key] = NoEntry]
    /\ UNCHANGED <<clock, asking, req, answer>>

(* ... unless the process is: then nobody asking is ever told. *)
Crash ==
  /\ stored' = [k \in Keys |-> NoEntry]
  /\ asking' = {}
  /\ UNCHANGED <<clock, req, answer>>

Pass ==
  /\ clock' = clock + 1
  /\ UNCHANGED <<stored, asking, req, answer>>

Next ==
  \/ \E c \in Callers \ asking, k \in Keys, op \in {"get", "force"} : Ask(c, k, op)
  \/ \E c \in asking :
       \/ \E e \in {stored[req[c].key]} \ {NoEntry} :
            Serve(c, e) \/ \E at \in 0..clock : FallBack(c, at, e)
       \/ \E at \in 0..clock : Publish(c, at)
       \/ GiveUp(c)
       \/ Expire(c)
  \/ Crash
  \/ Pass

Spec == Init /\ [][Next]_vars
=============================================================================
