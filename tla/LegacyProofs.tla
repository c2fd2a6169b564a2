---------------------------- MODULE LegacyProofs ----------------------------
(***************************************************************************)
(* Theorems of LegacyRefresh, LegacyAlerts and LegacyAccounts.             *)
(*                                                                         *)
(* OneRefreshPerKey is not inductive: what keeps a key from being queued   *)
(* again are the two sets, so KeyInv says of every key in the queue, about *)
(* to be put or being worked on in which of the sets it is.                *)
(* OnlyOverlapShowsOlder speaks of answers; OverlapInv says what the       *)
(* memories, the table and every thread at work on a key hold of it until  *)
(* there is an excuse.                                                     *)
(***************************************************************************)
EXTENDS LegacyRefresh, LegacyAlerts, LegacyAccounts, FiniteSetTheorems, TLAPS

ThreadFields == {"pc", "op", "key", "at", "floor"}

(* The shape of the state, as far as the queue depends on it.               *)
Shape ==
  /\ DOMAIN thread = Processes
  /\ \A p \in Processes :
       /\ DOMAIN thread[p] = Roles
       /\ \A r \in Roles :
            /\ DOMAIN thread[p][r] = ThreadFields
            /\ IF thread[p][r].pc = "idle" THEN thread[p][r].key = None
                                           ELSE thread[p][r].key \in Keys
  /\ queue \in [Processes -> Seq(Keys)]
  /\ enqueued \in [Processes -> SUBSET Keys]
  /\ refreshing \in [Processes -> SUBSET Keys]

Queued(p, k) == \E i \in DOMAIN queue[p] : queue[p][i] = k

KeyInv(p) ==
  LET x == thread[p]["request"]
      y == thread[p]["worker"]
  IN /\ \A i, j \in DOMAIN queue[p] : queue[p][i] = queue[p][j] => i = j
     /\ \A k \in Keys : Queued(p, k) => k \in enqueued[p]
     /\ \A k \in Keys : k \in enqueued[p] => k \notin refreshing[p]
     /\ x.pc = "put" => x.key \in enqueued[p] /\ ~Queued(p, x.key)
     /\ y.pc = "taken" => y.key \in enqueued[p] /\ ~Queued(p, y.key)
     /\ x.pc = "put" /\ y.pc = "taken" => x.key # y.key
     /\ y.pc \notin {"idle", "taken"} => y.key \in refreshing[p]

RefreshInv == Shape /\ \A p \in Processes : KeyInv(p)

(* What another step may do to process p: nothing that concerns its keys.   *)
Quiet(p) ==
  LET x == thread[p]["request"]
      y == thread[p]["worker"]
  IN /\ queue'[p] = queue[p] /\ enqueued'[p] = enqueued[p] /\ refreshing'[p] = refreshing[p]
     /\ thread'[p]["request"].pc = "put" => thread'[p]["request"] = x
     /\ thread'[p]["worker"].key = y.key
     /\ thread'[p]["worker"].pc = "taken" <=> y.pc = "taken"
     /\ thread'[p]["worker"].pc = "idle" <=> y.pc = "idle"

LEMMA QuietKeepsKeyInv ==
  ASSUME NEW p \in Processes, KeyInv(p), Quiet(p)
  PROVE  KeyInv(p)'
BY DEF KeyInv, Quiet, Queued

(* A thread goes on with x.                                                 *)
WellFormed(x) == DOMAIN x = ThreadFields /\ IF x.pc = "idle" THEN x.key = None ELSE x.key \in Keys

LEMMA IdleWellFormed == WellFormed(Idle) /\ Idle.pc = "idle"
BY DEF WellFormed, Idle, ThreadFields

LEMMA GotoShape ==
  ASSUME Shape, NEW p \in Processes, NEW r \in Roles, NEW x, WellFormed(x), Goto(p, r, x)
  PROVE  /\ thread'[p][r] = x
         /\ \A q \in Processes : q # p => thread'[q] = thread[q]
         /\ \A s \in Roles : s # r => thread'[p][s] = thread[p][s]
         /\ DOMAIN thread' = Processes
         /\ \A q \in Processes :
              DOMAIN thread'[q] = Roles /\ \A s \in Roles : WellFormed(thread'[q][s])
<1>1. /\ thread'[p][r] = x
      /\ \A q \in Processes : q # p => thread'[q] = thread[q]
      /\ \A s \in Roles : s # r => thread'[p][s] = thread[p][s]
      /\ DOMAIN thread' = Processes
      /\ \A q \in Processes : DOMAIN thread'[q] = Roles
  BY DEF Shape, Goto
<1>2. \A q \in Processes, s \in Roles : WellFormed(thread[q][s])
  BY DEF Shape, WellFormed
<1> QED
  BY <1>1, <1>2

LEMMA LoadersAre ==
  /\ \A r \in Loaders : r \in Roles /\ r # "worker"
  /\ Roles = Loaders \union {"worker"} /\ "request" \in Loaders /\ "poller" \in Loaders
BY DEF Loaders, Roles

(* A loader of p that neither begins nor ends a put.                        *)
LEMMA QuietLoader ==
  ASSUME RefreshInv, NEW p \in Processes, NEW r \in Loaders, NEW x, WellFormed(x), x.pc # "put",
         Goto(p, r, x), UNCHANGED <<queue, enqueued, refreshing>>
  PROVE  RefreshInv'
<1>1. "request" \in Roles /\ "worker" \in Roles /\ r \in Roles /\ r # "worker"
  BY LoadersAre
<1>2. Shape'
  BY <1>1, GotoShape DEF RefreshInv, Shape, WellFormed
<1>3. \A q \in Processes : Quiet(q)
  BY <1>1, GotoShape DEF RefreshInv, Quiet
<1> QED
  BY <1>2, <1>3, QuietKeepsKeyInv DEF RefreshInv

(* The worker of p goes on with the key it has.                             *)
LEMMA QuietWorker ==
  ASSUME RefreshInv, NEW p \in Processes, NEW x, WellFormed(x),
         x.pc \notin {"idle", "taken"}, thread[p]["worker"].pc \notin {"idle", "taken"},
         x.key = thread[p]["worker"].key,
         Goto(p, "worker", x), UNCHANGED <<queue, enqueued, refreshing>>
  PROVE  RefreshInv'
<1>1. "request" \in Roles /\ "worker" \in Roles
  BY DEF Roles
<1>2. Shape'
  BY <1>1, GotoShape DEF RefreshInv, Shape, WellFormed
<1>3. \A q \in Processes : Quiet(q)
  BY <1>1, GotoShape DEF RefreshInv, Quiet
<1> QED
  BY <1>2, <1>3, QuietKeepsKeyInv DEF RefreshInv

-----------------------------------------------------------------------------
(* The steps that move a key: one lemma each.                               *)

LEMMA EnqueueKeeps ==
  ASSUME RefreshInv, NEW p \in Processes, NEW x, DOMAIN x = ThreadFields, x.key \in Keys,
         Enqueue(p, x), UNCHANGED <<queue, refreshing>>
  PROVE  RefreshInv'
<1> DEFINE y == [x EXCEPT !.pc = "put"]
<1>1. "request" \in Roles /\ "worker" \in Roles
  BY DEF Roles
<1>2. CASE UnderWay(p, x.key)
  <2>1. Goto(p, "request", Idle) /\ UNCHANGED enqueued
    BY <1>2 DEF Enqueue
  <2> QED
    BY <2>1, IdleWellFormed, LoadersAre, QuietLoader
<1>3. CASE ~UnderWay(p, x.key)
  <2>1. enqueued' = [enqueued EXCEPT ![p] = @ \union {x.key}] /\ Goto(p, "request", y)
    BY <1>3 DEF Enqueue
  <2>2. WellFormed(y) /\ y.pc = "put" /\ y.key = x.key
    BY DEF WellFormed, ThreadFields
  <2> HIDE DEF y
  <2>3. /\ thread'[p]["request"] = y
        /\ \A q \in Processes : q # p => thread'[q] = thread[q]
        /\ thread'[p]["worker"] = thread[p]["worker"]
    BY <1>1, <2>1, <2>2, GotoShape DEF RefreshInv
  <2>4. /\ enqueued'[p] = enqueued[p] \union {x.key}
        /\ \A q \in Processes : q # p => enqueued'[q] = enqueued[q]
        /\ enqueued' \in [Processes -> SUBSET Keys]
    BY <2>1 DEF RefreshInv, Shape
  <2>5. Shape'
    BY <1>1, <2>1, <2>2, <2>4, GotoShape DEF RefreshInv, Shape, WellFormed
  <2>6. \A q \in Processes : q # p => KeyInv(q)'
    <3>1. \A q \in Processes : q # p => Quiet(q)
      BY <2>3, <2>4 DEF Quiet
    <3> QED
      BY <3>1, QuietKeepsKeyInv DEF RefreshInv
  <2>7. KeyInv(p)'
    BY <1>3, <2>2, <2>3, <2>4 DEF RefreshInv, KeyInv, UnderWay, Queued
  <2> QED
    BY <2>5, <2>6, <2>7 DEF RefreshInv
<1> QED
  BY <1>2, <1>3

LEMMA PutKeeps ==
  ASSUME RefreshInv, NEW p \in Processes, Put(p)
  PROVE  RefreshInv'
<1> DEFINE k == thread[p]["request"].key
<1>1. "request" \in Roles /\ "worker" \in Roles
  BY DEF Roles
<1>2. /\ thread[p]["request"].pc = "put" /\ k \in Keys
      /\ queue' = [queue EXCEPT ![p] = Append(@, k)]
      /\ Goto(p, "request", Idle)
      /\ UNCHANGED <<enqueued, refreshing>>
  BY <1>1 DEF Put, RefreshInv, Shape
<1> HIDE DEF k
<1>3. /\ thread'[p]["request"] = Idle
      /\ \A q \in Processes : q # p => thread'[q] = thread[q]
      /\ thread'[p]["worker"] = thread[p]["worker"]
  BY <1>1, <1>2, IdleWellFormed, GotoShape DEF RefreshInv
<1>4. /\ queue'[p] = Append(queue[p], k) /\ queue[p] \in Seq(Keys)
      /\ \A q \in Processes : q # p => queue'[q] = queue[q]
      /\ queue' \in [Processes -> Seq(Keys)]
  BY <1>2 DEF RefreshInv, Shape
<1>5. Shape'
  BY <1>1, <1>2, <1>4, IdleWellFormed, GotoShape DEF RefreshInv, Shape, WellFormed
<1>6. \A q \in Processes : q # p => KeyInv(q)'
  <2>1. \A q \in Processes : q # p => Quiet(q)
    BY <1>2, <1>3, <1>4 DEF Quiet
  <2> QED
    BY <2>1, QuietKeepsKeyInv DEF RefreshInv
<1>7. KeyInv(p)'
  <2>1. k \in enqueued[p] /\ ~Queued(p, k)
    BY <1>2 DEF RefreshInv, KeyInv, k
  <2>2. \A m \in Keys : Queued(p, m)' <=> Queued(p, m) \/ m = k
    <3>1. \A i \in DOMAIN queue'[p] :
             IF i \in DOMAIN queue[p] THEN queue'[p][i] = queue[p][i] ELSE queue'[p][i] = k
      BY <1>4
    <3>2. DOMAIN queue[p] \subseteq DOMAIN queue'[p] /\ \E i \in DOMAIN queue'[p] : queue'[p][i] = k
      BY <1>4
    <3> QED
      BY <3>1, <3>2 DEF Queued
  <2>3. \A i, j \in DOMAIN queue'[p] : queue'[p][i] = queue'[p][j] => i = j
    <3>1. \A i, j \in DOMAIN queue[p] : queue[p][i] = queue[p][j] => i = j
      BY DEF RefreshInv, KeyInv
    <3>2. \A i \in DOMAIN queue[p] : queue[p][i] # k
      BY <2>1 DEF Queued
    <3> QED
      BY <1>4, <3>1, <3>2
  <2>4. thread[p]["worker"].pc = "taken" => thread[p]["worker"].key # k
    BY <1>2 DEF RefreshInv, KeyInv, k
  <2>5. thread[p]["worker"].pc = "taken" => thread[p]["worker"].key \in Keys
    BY <1>1 DEF RefreshInv, Shape
  <2> QED
    BY <1>1, <1>2, <1>3, <2>1, <2>2, <2>3, <2>4, <2>5, IdleWellFormed DEF RefreshInv, KeyInv
<1> QED
  BY <1>5, <1>6, <1>7 DEF RefreshInv

LEMMA TakeKeeps ==
  ASSUME RefreshInv, NEW p \in Processes, Take(p)
  PROVE  RefreshInv'
<1> DEFINE k == Head(queue[p])
           y == [Idle EXCEPT !.pc = "taken", !.key = k]
<1>1. "request" \in Roles /\ "worker" \in Roles
  BY DEF Roles
<1>2. queue[p] \in Seq(Keys) /\ queue[p] # <<>>
  BY DEF Take, RefreshInv, Shape
<1>3. k \in Keys /\ 1 \in DOMAIN queue[p] /\ k = queue[p][1]
  BY <1>2
<1>4. /\ thread[p]["worker"].pc = "idle"
      /\ queue' = [queue EXCEPT ![p] = Tail(@)]
      /\ Goto(p, "worker", y)
      /\ UNCHANGED <<enqueued, refreshing>>
  BY DEF Take
<1>5. WellFormed(y) /\ y.pc = "taken" /\ y.key = k
  BY <1>3 DEF WellFormed, ThreadFields, Idle
<1> HIDE DEF k, y
<1>6. /\ thread'[p]["worker"] = y
      /\ \A q \in Processes : q # p => thread'[q] = thread[q]
      /\ thread'[p]["request"] = thread[p]["request"]
  BY <1>1, <1>4, <1>5, GotoShape DEF RefreshInv
<1>7. /\ queue'[p] = Tail(queue[p])
      /\ \A q \in Processes : q # p => queue'[q] = queue[q]
      /\ queue' \in [Processes -> Seq(Keys)]
  BY <1>2, <1>4 DEF RefreshInv, Shape
<1>8. Shape'
  BY <1>1, <1>4, <1>5, <1>7, GotoShape DEF RefreshInv, Shape, WellFormed
<1>9. \A q \in Processes : q # p => KeyInv(q)'
  <2>1. \A q \in Processes : q # p => Quiet(q)
    BY <1>4, <1>6, <1>7 DEF Quiet
  <2> QED
    BY <2>1, QuietKeepsKeyInv DEF RefreshInv
<1>10. KeyInv(p)'
  <2>1. \A i, j \in DOMAIN queue[p] : queue[p][i] = queue[p][j] => i = j
    BY DEF RefreshInv, KeyInv
  <2>2. \A i \in DOMAIN queue'[p] :
           /\ i + 1 \in DOMAIN queue[p] /\ queue'[p][i] = queue[p][i + 1]
           /\ i \in Int /\ i + 1 # 1
    BY <1>2, <1>7
  <2>3. \A i, j \in DOMAIN queue'[p] : queue'[p][i] = queue'[p][j] => i = j
    <3> SUFFICES ASSUME NEW i \in DOMAIN queue'[p], NEW j \in DOMAIN queue'[p],
                        queue'[p][i] = queue'[p][j]
                 PROVE  i = j
      OBVIOUS
    <3>1. i + 1 = j + 1
      BY <2>1, <2>2
    <3>2. i \in Int /\ j \in Int
      BY <2>2
    <3> QED
      BY <3>1, <3>2
  <2>4. \A m \in Keys : Queued(p, m)' => Queued(p, m)
    BY <2>2 DEF Queued
  <2>5. \A i \in DOMAIN queue'[p] : queue'[p][i] # k
    BY <1>3, <2>1, <2>2
  <2>6. k \in enqueued[p]
    BY <1>3 DEF RefreshInv, KeyInv, Queued
  <2>7. thread[p]["request"].pc = "put" => thread[p]["request"].key # k
    BY <1>3 DEF RefreshInv, KeyInv, Queued
  <2>8. thread[p]["request"].pc = "put" => thread[p]["request"].key \in Keys
    BY <1>1 DEF RefreshInv, Shape
  <2> QED
    BY <1>3, <1>4, <1>5, <1>6, <2>3, <2>4, <2>5, <2>6, <2>7, <2>8 DEF RefreshInv, KeyInv, Queued
<1> QED
  BY <1>8, <1>9, <1>10 DEF RefreshInv

LEMMA StartKeeps ==
  ASSUME RefreshInv, NEW p \in Processes, Start(p)
  PROVE  RefreshInv'
<1> DEFINE x == thread[p]["worker"]
           k == x.key
           y == Generate(x)
<1>1. "request" \in Roles /\ "worker" \in Roles
  BY DEF Roles
<1>2. /\ x.pc = "taken" /\ k \in Keys /\ DOMAIN x = ThreadFields
      /\ enqueued'   = [enqueued EXCEPT ![p] = @ \ {k}]
      /\ refreshing' = [refreshing EXCEPT ![p] = @ \union {k}]
      /\ Goto(p, "worker", y)
      /\ UNCHANGED queue
  BY <1>1 DEF Start, RefreshInv, Shape
<1>3. WellFormed(y) /\ y.pc = "generating" /\ y.key = k
  BY <1>2 DEF WellFormed, ThreadFields, Generate
<1>4. k \in enqueued[p] /\ ~Queued(p, k)
  BY <1>2 DEF RefreshInv, KeyInv
<1>5. thread[p]["request"].pc = "put" => thread[p]["request"].key # k
  BY <1>2 DEF RefreshInv, KeyInv
<1> HIDE DEF k, y, x
<1>6. /\ thread'[p]["worker"] = y
      /\ \A q \in Processes : q # p => thread'[q] = thread[q]
      /\ thread'[p]["request"] = thread[p]["request"]
  BY <1>1, <1>2, <1>3, GotoShape DEF RefreshInv
<1>7. /\ enqueued'[p] = enqueued[p] \ {k} /\ refreshing'[p] = refreshing[p] \union {k}
      /\ \A q \in Processes : q # p => enqueued'[q] = enqueued[q] /\ refreshing'[q] = refreshing[q]
      /\ enqueued' \in [Processes -> SUBSET Keys] /\ refreshing' \in [Processes -> SUBSET Keys]
  BY <1>2 DEF RefreshInv, Shape
<1>8. Shape'
  BY <1>1, <1>2, <1>3, <1>7, GotoShape DEF RefreshInv, Shape, WellFormed
<1>9. \A q \in Processes : q # p => KeyInv(q)'
  <2>1. \A q \in Processes : q # p => Quiet(q)
    BY <1>2, <1>6, <1>7 DEF Quiet
  <2> QED
    BY <2>1, QuietKeepsKeyInv DEF RefreshInv
<1>10. KeyInv(p)'
  BY <1>2, <1>3, <1>4, <1>5, <1>6, <1>7 DEF RefreshInv, KeyInv, Queued
<1> QED
  BY <1>8, <1>9, <1>10 DEF RefreshInv

LEMMA FinallyKeeps ==
  ASSUME RefreshInv, NEW p \in Processes, Finally(p)
  PROVE  RefreshInv'
<1> DEFINE x == thread[p]["worker"]
           k == x.key
<1>1. "request" \in Roles /\ "worker" \in Roles
  BY DEF Roles
<1>2. /\ refreshing' = [refreshing EXCEPT ![p] = @ \ {k}]
      /\ Goto(p, "worker", Idle)
      /\ UNCHANGED <<queue, enqueued>>
  BY DEF Finally
<1> HIDE DEF k, x
<1>6. /\ thread'[p]["worker"] = Idle
      /\ \A q \in Processes : q # p => thread'[q] = thread[q]
      /\ thread'[p]["request"] = thread[p]["request"]
  BY <1>1, <1>2, IdleWellFormed, GotoShape DEF RefreshInv
<1>7. /\ refreshing'[p] = refreshing[p] \ {k}
      /\ \A q \in Processes : q # p => refreshing'[q] = refreshing[q]
      /\ refreshing' \in [Processes -> SUBSET Keys]
  BY <1>2 DEF RefreshInv, Shape
<1>8. Shape'
  BY <1>1, <1>2, <1>7, IdleWellFormed, GotoShape DEF RefreshInv, Shape, WellFormed
<1>9. \A q \in Processes : q # p => KeyInv(q)'
  <2>1. \A q \in Processes : q # p => Quiet(q)
    BY <1>2, <1>6, <1>7 DEF Quiet
  <2> QED
    BY <2>1, QuietKeepsKeyInv DEF RefreshInv
<1>10. KeyInv(p)'
  BY <1>2, <1>6, <1>7, IdleWellFormed DEF RefreshInv, KeyInv, Queued
<1> QED
  BY <1>8, <1>9, <1>10 DEF RefreshInv

LEMMA RestartKeeps ==
  ASSUME RefreshInv, NEW p \in Processes, Restart(p)
  PROVE  RefreshInv'
<1>1. "request" \in Roles /\ "worker" \in Roles
  BY DEF Roles
<1>2. /\ thread' = [thread EXCEPT ![p] = [r \in Roles |-> Idle]]
      /\ queue' = [queue EXCEPT ![p] = <<>>]
      /\ enqueued' = [enqueued EXCEPT ![p] = {}]
      /\ refreshing' = [refreshing EXCEPT ![p] = {}]
  BY DEF Restart
<1>3. /\ thread'[p] = [r \in Roles |-> Idle] /\ DOMAIN thread' = Processes
      /\ queue'[p] = <<>> /\ enqueued'[p] = {} /\ refreshing'[p] = {}
      /\ \A q \in Processes : q # p => /\ thread'[q] = thread[q] /\ queue'[q] = queue[q]
                                       /\ enqueued'[q] = enqueued[q]
                                       /\ refreshing'[q] = refreshing[q]
  BY <1>2 DEF RefreshInv, Shape
<1>4. Shape'
  <2>1. \A q \in Processes : DOMAIN thread'[q] = Roles /\ \A s \in Roles : WellFormed(thread'[q][s])
    BY <1>3, IdleWellFormed DEF RefreshInv, Shape, WellFormed
  <2>2. /\ queue' \in [Processes -> Seq(Keys)]
        /\ enqueued' \in [Processes -> SUBSET Keys] /\ refreshing' \in [Processes -> SUBSET Keys]
    BY <1>2 DEF RefreshInv, Shape
  <2> QED
    BY <1>3, <2>1, <2>2 DEF Shape, WellFormed
<1>5. \A q \in Processes : q # p => KeyInv(q)'
  <2>1. \A q \in Processes : q # p => Quiet(q)
    BY <1>3 DEF Quiet
  <2> QED
    BY <2>1, QuietKeepsKeyInv DEF RefreshInv
<1>6. KeyInv(p)'
  BY <1>1, <1>3, IdleWellFormed DEF KeyInv, Queued
<1> QED
  BY <1>4, <1>5, <1>6 DEF RefreshInv

-----------------------------------------------------------------------------
(* The steps that leave the queue and the sets alone.                       *)

LEMMA LoadKeeps ==
  ASSUME RefreshInv, NEW p \in Processes, NEW r \in Loaders, NEW op, NEW k \in Keys,
         LoadMemory(p, r, op, k), UNCHANGED <<queue, enqueued, refreshing>>
  PROVE  RefreshInv'
<1> DEFINE t == InMemory(p, k)
           x == [pc |-> "query", op |-> op, key |-> k, at |-> None, floor |-> saved[p][k]]
           z == [x EXCEPT !.pc = "answer", !.at = t]
<1>1. Goto(p, r, z) \/ Goto(p, r, x)
  BY DEF LoadMemory
<1> HIDE DEF t
<1>2. WellFormed(x) /\ x.pc # "put" /\ WellFormed(z) /\ z.pc # "put"
  BY DEF WellFormed, ThreadFields
<1> HIDE DEF x, z
<1> QED
  BY <1>1, <1>2, QuietLoader

LEMMA LookupKeeps ==
  ASSUME RefreshInv, NEW p \in Processes, NEW r \in Loaders, LoadSteps(p, r)
  PROVE  RefreshInv'
<1> DEFINE x == thread[p][r]
<1>1. UNCHANGED <<queue, enqueued, refreshing>>
  BY DEF LoadSteps, Query, Found, Pop, Fallbacks, Migrate
<1>2. x.pc # "idle" /\ x.key \in Keys /\ DOMAIN x = ThreadFields
  BY LoadersAre DEF LoadSteps, Query, Found, Pop, Fallbacks, Migrate, RefreshInv, Shape
<1>3. PICK pc \in {"found", "missing", "pop", "answer", "migrate"} : \E at :
         \/ Goto(p, r, [x EXCEPT !.pc = pc])
         \/ Goto(p, r, [x EXCEPT !.pc = pc, !.at = at])
         \/ Goto(p, r, [x EXCEPT !.at = at, !.pc = pc])
  <2>1. CASE Query(p, r)
    BY <2>1 DEF Query
  <2>2. CASE Found(p, r)
    BY <2>2 DEF Found
  <2>3. CASE Pop(p, r)
    BY <2>3 DEF Pop
  <2>4. CASE Fallbacks(p, r)
    BY <2>4 DEF Fallbacks
  <2>5. CASE Migrate(p, r)
    BY <2>5 DEF Migrate
  <2> QED
    BY <2>1, <2>2, <2>3, <2>4, <2>5 DEF LoadSteps
<1>4. PICK at :
         \/ Goto(p, r, [x EXCEPT !.pc = pc])
         \/ Goto(p, r, [x EXCEPT !.pc = pc, !.at = at])
         \/ Goto(p, r, [x EXCEPT !.at = at, !.pc = pc])
  BY <1>3
<1> DEFINE y == [x EXCEPT !.pc = pc]
           z == [x EXCEPT !.pc = pc, !.at = at]
           w == [x EXCEPT !.at = at, !.pc = pc]
<1>5. /\ WellFormed(y) /\ y.pc # "put"
      /\ WellFormed(z) /\ z.pc # "put"
      /\ WellFormed(w) /\ w.pc # "put"
  BY <1>2 DEF WellFormed, ThreadFields
<1>6. Goto(p, r, y) \/ Goto(p, r, z) \/ Goto(p, r, w)
  BY <1>4
<1> HIDE DEF y, z, w
<1> QED
  BY <1>1, <1>5, <1>6, QuietLoader

LEMMA RespondKeeps ==
  ASSUME RefreshInv, NEW p \in Processes, Respond(p)
  PROVE  RefreshInv'
<1> DEFINE x == thread[p]["request"]
           y == Generate(x)
<1>1. x.key \in Keys /\ DOMAIN x = ThreadFields
  BY DEF Respond, RefreshInv, Shape, Roles
<1>2. UNCHANGED <<queue, refreshing>>
  BY DEF Respond
<1>3. \/ Goto(p, "request", Idle) /\ UNCHANGED enqueued
      \/ Goto(p, "request", y) /\ UNCHANGED enqueued
      \/ Enqueue(p, x)
  BY DEF Respond
<1>4. WellFormed(y) /\ y.pc # "put"
  BY <1>1 DEF WellFormed, Generate, ThreadFields
<1> HIDE DEF x, y
<1> QED
  BY <1>1, <1>2, <1>3, <1>4, IdleWellFormed, LoadersAre, QuietLoader, EnqueueKeeps

LEMMA AlertKeeps ==
  ASSUME RefreshInv, NEW p \in Processes, Alert(p)
  PROVE  RefreshInv'
<1> DEFINE x == thread[p]["poller"]
           y == Generate(x)
<1>1. x.key \in Keys /\ DOMAIN x = ThreadFields
  BY LoadersAre DEF Alert, RefreshInv, Shape
<1>2. UNCHANGED <<queue, enqueued, refreshing>>
  BY DEF Alert
<1>3. Goto(p, "poller", Idle) \/ Goto(p, "poller", y)
  BY DEF Alert
<1>4. WellFormed(y) /\ y.pc # "put"
  BY <1>1 DEF WellFormed, Generate, ThreadFields
<1> HIDE DEF x, y
<1> QED
  BY <1>2, <1>3, <1>4, IdleWellFormed, LoadersAre, QuietLoader

LEMMA RequestKeeps ==
  ASSUME RefreshInv, NEW p \in Processes, NEW op \in Ops, NEW k \in Keys, Request(p, op, k)
  PROVE  RefreshInv'
<1> DEFINE x == [Idle EXCEPT !.op = op, !.key = k]
           y == Generate(x)
<1>1. x.key = k /\ DOMAIN x = ThreadFields
  BY DEF Idle, ThreadFields
<1>2. UNCHANGED <<queue, refreshing>>
  BY DEF Request
<1>3. \/ Enqueue(p, x)
      \/ Goto(p, "request", y) /\ UNCHANGED enqueued
      \/ LoadMemory(p, "request", op, k) /\ UNCHANGED enqueued
  BY DEF Request
<1>4. WellFormed(y) /\ y.pc # "put"
  BY DEF WellFormed, Generate, ThreadFields, Idle
<1> HIDE DEF x, y
<1> QED
  BY <1>1, <1>2, <1>3, <1>4, LoadersAre, QuietLoader, EnqueueKeeps, LoadKeeps

(* The steps of a thread of either kind.                                    *)
LEMMA ThreadKeeps ==
  ASSUME RefreshInv, NEW p \in Processes, NEW r \in Roles,
         GenerateFails(p, r) \/ SaveRow(p, r) \/ Remember(p, r)
  PROVE  RefreshInv'
<1> DEFINE x == thread[p][r]
           f == AfterFailure(r, x.key)
           s == [x EXCEPT !.pc = "remember"]
           e == IF r = "worker" THEN [x EXCEPT !.pc = "over"] ELSE Idle
<1>1. UNCHANGED <<queue, enqueued, refreshing>>
  BY DEF GenerateFails, SaveRow, Remember
<1>2. x.pc \in {"generating", "remember"} /\ x.key \in Keys /\ DOMAIN x = ThreadFields
  BY DEF GenerateFails, SaveRow, Remember, RefreshInv, Shape
<1>3. Goto(p, r, f) \/ Goto(p, r, s) \/ Goto(p, r, e)
  BY DEF GenerateFails, SaveRow, Remember
<1>4. WellFormed(f) /\ WellFormed(s) /\ WellFormed(e) /\ f.pc # "put" /\ s.pc # "put" /\ e.pc # "put"
  BY <1>2, IdleWellFormed DEF WellFormed, ThreadFields, AfterFailure, Idle
<1>5. CASE r \in Loaders
  <2> HIDE DEF f, s, e
  <2> QED
    BY <1>1, <1>3, <1>4, <1>5, QuietLoader
<1>6. CASE r = "worker"
  <2>1. /\ f.key = x.key /\ s.key = x.key /\ e.key = x.key
        /\ {f.pc, s.pc, e.pc} \subseteq {"over", "remember"}
    BY <1>2, <1>6 DEF AfterFailure, Idle, ThreadFields
  <2> HIDE DEF f, s, e
  <2> QED
    BY <1>1, <1>2, <1>3, <1>4, <1>6, <2>1, QuietWorker
<1> QED
  BY <1>5, <1>6, LoadersAre

-----------------------------------------------------------------------------
LEMMA RefreshInvInit == RefreshInit => RefreshInv
<1> SUFFICES ASSUME RefreshInit PROVE RefreshInv
  OBVIOUS
<1>1. Shape
  BY IdleWellFormed DEF RefreshInit, Shape, WellFormed
<1>2. \A p \in Processes : KeyInv(p)
  BY IdleWellFormed DEF RefreshInit, KeyInv, Queued, Roles
<1> QED
  BY <1>1, <1>2 DEF RefreshInv

LEMMA RefreshInvNext == RefreshInv /\ [RefreshNext]_refreshVars => RefreshInv'
<1> SUFFICES ASSUME RefreshInv, [RefreshNext]_refreshVars PROVE RefreshInv'
  OBVIOUS
<1>1. CASE UNCHANGED <<queue, enqueued, refreshing, thread>>
  BY <1>1 DEF RefreshInv, Shape, KeyInv, Queued
<1>2. CASE Tick \/ UNCHANGED refreshVars
  BY <1>1, <1>2 DEF Tick, refreshVars
<1>3. ASSUME NEW p \in Processes, ProcessNext(p, Keys) PROVE RefreshInv'
  <2>1. CASE \E r \in Roles : Steps(p, r)
    <3>1. PICK r \in Roles : Steps(p, r)
      BY <2>1
    <3>2. CASE RequestSteps(p)
      BY <3>2, LoadersAre, LookupKeeps, RespondKeeps, PutKeeps DEF RequestSteps
    <3>3. CASE WorkerSteps(p)
      BY <3>3, TakeKeeps, StartKeeps, FinallyKeeps DEF WorkerSteps
    <3>4. CASE PollerSteps(p)
      BY <3>4, LoadersAre, LookupKeeps, AlertKeeps DEF PollerSteps
    <3> QED
      BY <3>1, <3>2, <3>3, <3>4, ThreadKeeps DEF Steps
  <2>2. ASSUME NEW op \in Ops \ {"poll", "alert"}, NEW k \in KeysOf(op) \intersect Keys, Request(p, op, k)
        PROVE  RefreshInv'
    BY <2>2, RequestKeeps
  <2>3. CASE Visit(p) \/ Check(p)
    <3>1. UNCHANGED <<queue, enqueued, refreshing>>
      BY <2>3 DEF Visit, Poll, Reload, Check
    <3>2. PICK r \in Loaders, op \in Ops : LoadMemory(p, r, op, Anon)
      BY <2>3, LoadersAre DEF Visit, Poll, Reload, Check, Ops
    <3> QED
      BY <3>1, <3>2, LegacyAssumption, LoadKeeps
  <2>4. CASE Restart(p)
    BY <2>4, RestartKeeps
  <2> QED
    BY <1>3, <2>1, <2>2, <2>3, <2>4 DEF ProcessNext
<1> QED
  BY <1>2, <1>3 DEF RefreshNext

LEMMA RefreshInvImplies == RefreshInv => OneRefreshPerKey
<1> SUFFICES ASSUME RefreshInv, NEW p \in Processes
             PROVE  LET Putting(k) == thread[p]["request"].pc = "put" /\ thread[p]["request"].key = k
                        Working(k) == thread[p]["worker"].key = k
                    IN /\ \A i, j \in DOMAIN queue[p] : queue[p][i] = queue[p][j] => i = j
                       /\ \A i \in DOMAIN queue[p] : ~Putting(queue[p][i]) /\ ~Working(queue[p][i])
                       /\ \A k \in Keys : ~(Putting(k) /\ Working(k))
  BY DEF OneRefreshPerKey
<1>1. KeyInv(p)
  BY DEF RefreshInv
<1>2. \A i \in DOMAIN queue[p] : queue[p][i] \in Keys
  BY DEF RefreshInv, Shape
<1>3. thread[p]["worker"].key \in Keys => thread[p]["worker"].pc # "idle"
  BY LegacyAssumption DEF RefreshInv, Shape, Roles
<1> QED
  BY <1>1, <1>2, <1>3 DEF KeyInv, Queued

(* However many processes, users, requests, failures and restarts there     *)
(* are, a process never has two refreshes of a key queued or at work.       *)
THEOREM RefreshesAreSingle == RefreshSpec => []OneRefreshPerKey
<1>1. RefreshInv /\ [RefreshNext]_refreshVars => RefreshInv'
  BY RefreshInvNext
<1> QED
  BY <1>1, RefreshInvInit, RefreshInvImplies, PTL DEF RefreshSpec

-----------------------------------------------------------------------------
(* What a process answers with.                                             *)

(* What is cached and saved of a key no excuse has been written for: the    *)
(* table and the memory of p have nothing older than p has saved,           *)
MaybeTime == Nat \union {None}
Entry     == [key : Keys, at : Nat]

Agreed(k) ==
  \A p \in Processes :
    saved[p][k] # None =>
      /\ table[k] # None /\ table[k] >= saved[p][k]
      /\ \A i \in DOMAIN memory[p] : memory[p][i].key = k => memory[p][i].at >= saved[p][k]

(* and a thread at work on it what it has looked up or generated since, for *)
(* who writes of it meanwhile is an excuse.                                 *)
Claim(p, r, k) ==
  LET x == thread[p][r]
  IN x.key = k =>
     /\ x.pc = "query" => x.floor = saved[p][k]
     /\ x.pc = "found" => x.floor = saved[p][k] /\ (x.floor # None => x.at >= x.floor)
     /\ x.pc \in {"missing", "migrate"} => x.floor = None /\ table[k] = None
     /\ x.pc = "pop" => x.at = None
     /\ x.pc = "answer" => ~Older(x.at, x.floor)
     /\ x.pc = "generating" => \A q \in Processes : saved[q][k] # None => saved[q][k] <= x.at
     /\ x.pc = "remember" => table[k] = x.at

Fits(x, h) ==
  /\ x.at \in MaybeTime /\ x.floor \in MaybeTime
  /\ x.pc \in {"generating", "remember"} => x.at # None /\ x.at <= h
  /\ x.pc \in {"found", "migrate"} => x.at # None

Timed ==
  /\ hour \in Nat /\ DOMAIN memory = Processes
  /\ \A p \in Processes : memory[p] \in Seq(Entry)
  /\ table \in [Keys -> MaybeTime] /\ history \in MaybeTime /\ file \in MaybeTime
  /\ saved \in [Processes -> [Keys -> MaybeTime]]
  /\ \A p \in Processes, k \in Keys : saved[p][k] # None => saved[p][k] <= hour
  /\ \A p \in Processes, r \in Roles : Fits(thread[p][r], hour)

OverlapInv ==
  /\ Timed
  /\ \A k \in Keys \ disturbed : Agreed(k) /\ \A p \in Processes, r \in Roles : Claim(p, r, k)

-----------------------------------------------------------------------------
LEMMA RemovedKeep ==
  ASSUME NEW S, NEW s \in Seq(S), NEW k \in DOMAIN s
  PROVE  /\ RemoveAt(s, k) \in Seq(S)
         /\ \A i \in DOMAIN RemoveAt(s, k) : \E j \in DOMAIN s : RemoveAt(s, k)[i] = s[j]
<1> DEFINE a == SubSeq(s, 1, k - 1)
           b == SubSeq(s, k + 1, Len(s))
<1>1. /\ a \in Seq(S) /\ Len(a) = k - 1 /\ k \in 1..Len(s) /\ Len(s) \in Nat
      /\ \A i \in 1..Len(a) : a[i] = s[i]
  OBVIOUS
<1>2. /\ b \in Seq(S) /\ Len(b) = Len(s) - k
      /\ \A i \in 1..Len(b) : b[i] = s[i + k]
  OBVIOUS
<1> HIDE DEF a, b
<1>3. /\ a \o b \in Seq(S) /\ DOMAIN (a \o b) = 1..(Len(s) - 1)
      /\ \A i \in 1..(Len(s) - 1) :
           (a \o b)[i] = IF i <= Len(a) THEN a[i] ELSE b[i - Len(a)]
  BY <1>1, <1>2, SMTT(60)
<1>4. ASSUME NEW i \in 1..(Len(s) - 1) PROVE \E j \in DOMAIN s : (a \o b)[i] = s[j]
  <2>1. CASE i <= Len(a)
    BY <1>1, <1>3, <2>1
  <2>2. CASE ~(i <= Len(a))
    <3>1. PICK n : n = i - Len(a)
      OBVIOUS
    <3>2. n \in 1..Len(b) /\ n + k \in DOMAIN s
      BY SMTT(30), <1>1, <1>2, <2>2, <3>1
    <3>3. b[n] = s[n + k] /\ (a \o b)[i] = b[n]
      BY <1>2, <1>3, <2>2, <3>1, <3>2
    <3> QED
      BY <3>2, <3>3
  <2> QED
    BY <2>1, <2>2
<1>5. RemoveAt(s, k) = a \o b
  BY DEF RemoveAt, a, b
<1> QED
  BY <1>3, <1>4, <1>5

LEMMA PlaceIs ==
  ASSUME NEW s, NEW k, Kept(s, k) # {}
  PROVE  Place(s, k) \in DOMAIN s /\ s[Place(s, k)].key = k
<1>1. Place(s, k) \in Kept(s, k)
  BY DEF Place
<1> QED
  BY <1>1 DEF Kept

(* What is set, taken out and found in a memory. *)
LEMMA MemSetIs ==
  ASSUME NEW s \in Seq(Entry), NEW k \in Keys, NEW t \in Nat
  PROVE  /\ MemSet(s, k, t) \in Seq(Entry)
         /\ \A i \in DOMAIN MemSet(s, k, t) :
              /\ MemSet(s, k, t)[i].key = k => MemSet(s, k, t)[i].at = t
              /\ MemSet(s, k, t)[i].key # k => \E j \in DOMAIN s : MemSet(s, k, t)[i] = s[j]
<1> DEFINE e == [key |-> k, at |-> t]
           m == MemSet(s, k, t)
<1>1. e.key = k /\ e.at = t /\ e \in Entry
  BY DEF Entry
<1>4. m = IF Kept(s, k) # {} THEN [i \in DOMAIN s |-> IF s[i].key = k THEN e ELSE s[i]]
          ELSE Append(IF Len(s) >= MemMax THEN Tail(s) ELSE s, e)
  BY DEF MemSet
<1> HIDE DEF e, m
<1>2. CASE Kept(s, k) # {}
  <2>1. m = [i \in 1..Len(s) |-> IF s[i].key = k THEN e ELSE s[i]]
    BY <1>2, <1>4
  <2>2. \A i \in 1..Len(s) : s[i] \in Entry /\ i \in DOMAIN s
    OBVIOUS
  <2>3. m \in Seq(Entry) /\ DOMAIN m = 1..Len(s)
    BY <1>1, <2>1, <2>2
  <2>4. \A i \in DOMAIN m : m[i] = IF s[i].key = k THEN e ELSE s[i]
    BY <2>1
  <2> QED
    BY <1>1, <2>2, <2>3, <2>4 DEF m
<1>3. CASE Kept(s, k) = {}
  <2>1. \A i \in DOMAIN s : s[i].key # k
    BY <1>3 DEF Kept
  <2>2. PICK c : c = IF Len(s) >= MemMax THEN Tail(s) ELSE s
    OBVIOUS
  <2>3. c \in Seq(Entry) /\ \A i \in DOMAIN c : \E j \in DOMAIN s : c[i] = s[j]
    <3>1. CASE Len(s) >= MemMax
      <4>1. Len(s) >= 1 /\ s # <<>>
        BY <3>1, LegacyAssumption
      <4>2. Tail(s) \in Seq(Entry) /\ \A i \in DOMAIN Tail(s) : Tail(s)[i] = s[i + 1] /\ i + 1 \in DOMAIN s
        BY <4>1
      <4> QED
        BY <2>2, <3>1, <4>2
    <3>2. CASE ~(Len(s) >= MemMax)
      BY <2>2, <3>2
    <3> QED
      BY <3>1, <3>2
  <2>4. m = Append(c, e)
    BY <1>3, <1>4, <2>2
  <2>5. /\ Append(c, e) \in Seq(Entry)
        /\ \A i \in DOMAIN Append(c, e) : Append(c, e)[i] = e \/ (i \in DOMAIN c /\ Append(c, e)[i] = c[i])
    BY <1>1, <2>3
  <2>6. m \in Seq(Entry) /\ \A i \in DOMAIN m : m[i] = e \/ \E j \in DOMAIN s : m[i] = s[j]
    BY <2>3, <2>4, <2>5
  <2> QED
    BY <1>1, <2>1, <2>6 DEF m
<1> QED
  BY <1>2, <1>3

LEMMA MemPopIs ==
  ASSUME NEW s \in Seq(Entry), NEW k
  PROVE  /\ MemPop(s, k) \in Seq(Entry)
         /\ \A i \in DOMAIN MemPop(s, k) : \E j \in DOMAIN s : MemPop(s, k)[i] = s[j]
<1>1. CASE Kept(s, k) # {}
  <2>1. Place(s, k) \in DOMAIN s /\ MemPop(s, k) = RemoveAt(s, Place(s, k))
    BY <1>1, PlaceIs DEF MemPop
  <2> QED
    BY <2>1, RemovedKeep
<1>2. CASE Kept(s, k) = {}
  BY <1>2 DEF MemPop
<1> QED
  BY <1>1, <1>2

LEMMA InMemoryIs ==
  ASSUME Timed, NEW p \in Processes, NEW k
  PROVE  \/ InMemory(p, k) = None
         \/ /\ InMemory(p, k) \in Nat
            /\ \E i \in DOMAIN memory[p] : memory[p][i].key = k /\ memory[p][i].at = InMemory(p, k)
<1>1. CASE Kept(memory[p], k) # {}
  <2>1. PICK i \in DOMAIN memory[p] : i = Place(memory[p], k) /\ memory[p][i].key = k
    BY <1>1, PlaceIs
  <2>2. InMemory(p, k) = memory[p][i].at
    BY <1>1, <2>1 DEF InMemory
  <2>3. memory[p][i] \in Entry
    BY DEF Timed
  <2> QED
    BY <2>1, <2>2, <2>3 DEF Entry
<1>2. CASE Kept(memory[p], k) = {}
  BY <1>2 DEF InMemory
<1> QED
  BY <1>1, <1>2

-----------------------------------------------------------------------------
(* What steps have in common                                                *)

LEMMA GotoIs ==
  ASSUME Shape, NEW p \in Processes, NEW r \in Roles, NEW x, Goto(p, r, x)
  PROVE  /\ thread'[p][r] = x
         /\ \A q \in Processes : q # p => thread'[q] = thread[q]
         /\ \A s \in Roles : s # r => thread'[p][s] = thread[p][s]
BY DEF Shape, Goto

(* Only p's role r moves, and where it does. *)
Alone(p, r, x) ==
  /\ thread'[p][r] = x
  /\ \A q \in Processes : q # p => thread'[q] = thread[q]
  /\ \A s \in Roles : s # r => thread'[p][s] = thread[p][s]

LEMMA ThreadsFit ==
  ASSUME Timed, NEW p \in Processes, NEW r \in Roles, NEW x, Alone(p, r, x), Fits(x, hour),
         hour' = hour
  PROVE  \A q \in Processes, s \in Roles : Fits(thread'[q][s], hour')
<1> SUFFICES ASSUME NEW q \in Processes, NEW s \in Roles PROVE Fits(thread'[q][s], hour)
  OBVIOUS
<1>1. thread'[q][s] = x \/ thread'[q][s] = thread[q][s]
  BY DEF Alone
<1> QED
  BY <1>1 DEF Timed

(* A thread goes on, and at most forgets something of the memories.         *)
LEMMA QuietOverlap ==
  ASSUME OverlapInv, NEW p \in Processes, NEW r \in Roles, NEW x, Alone(p, r, x), Fits(x, hour),
         UNCHANGED <<hour, table, history, file, saved>>, disturbed \subseteq disturbed',
         DOMAIN memory' = Processes,
         \A q \in Processes : memory'[q] \in Seq(Entry),
         \A q \in Processes : \A i \in DOMAIN memory'[q] :
           \E j \in DOMAIN memory[q] : memory'[q][i] = memory[q][j],
         \A k \in Keys \ disturbed : Claim(p, r, k)'
  PROVE  OverlapInv'
<1>1. Timed /\ Timed'
  BY ThreadsFit DEF OverlapInv, Timed
<1>2. ASSUME NEW k \in Keys \ disturbed' PROVE Agreed(k)'
  BY <1>2 DEF OverlapInv, Agreed
<1>3. ASSUME NEW k \in Keys \ disturbed', NEW q \in Processes, NEW s \in Roles PROVE Claim(q, s, k)'
  <2>1. CASE q = p /\ s = r
    BY <1>3, <2>1
  <2>2. CASE ~(q = p /\ s = r)
    <3>1. thread'[q][s] = thread[q][s]
      BY <2>2 DEF Alone
    <3>2. Claim(q, s, k)
      BY <1>3 DEF OverlapInv
    <3> QED
      BY <3>1, <3>2 DEF Claim
  <2> QED
    BY <2>1, <2>2
<1> QED
  BY <1>1, <1>2, <1>3 DEF OverlapInv

(* A thread writes of the key h, which is excused if another is at work.    *)
LEMMA WritingOverlap ==
  ASSUME OverlapInv, NEW p \in Processes, NEW r \in Roles, NEW x, Alone(p, r, x),
         NEW h \in Keys, Disturb(p, r, h), x.key \in {h, None}, Timed',
         \A k \in Keys \ {h} : table'[k] = table[k] /\ \A q \in Processes : saved'[q][k] = saved[q][k],
         \A q \in Processes : \A i \in DOMAIN memory'[q] :
           memory'[q][i].key # h => \E j \in DOMAIN memory[q] : memory'[q][i] = memory[q][j],
         h \notin disturbed' => Agreed(h)' /\ Claim(p, r, h)'
  PROVE  OverlapInv'
<1>1. disturbed \subseteq disturbed' /\ disturbed' \subseteq disturbed \union {h}
  BY DEF Disturb
<1>2. ASSUME NEW k \in Keys \ disturbed' PROVE Agreed(k)'
  <2>1. CASE k # h
    <3>1. Agreed(k) /\ table'[k] = table[k] /\ \A q \in Processes : saved'[q][k] = saved[q][k]
      BY <1>1, <1>2, <2>1 DEF OverlapInv
    <3> QED
      BY <2>1, <3>1 DEF Agreed
  <2> QED
    BY <1>2, <2>1
<1>3. ASSUME NEW k \in Keys \ disturbed', NEW q \in Processes, NEW s \in Roles PROVE Claim(q, s, k)'
  <2>1. CASE q = p /\ s = r
    <3>1. CASE k = h
      BY <1>3, <2>1, <3>1
    <3>2. CASE k # h
      BY <2>1, <3>2, LegacyAssumption DEF Claim, Alone
    <3> QED
      BY <3>1, <3>2
  <2>2. CASE ~(q = p /\ s = r)
    <3>1. thread'[q][s] = thread[q][s] /\ Claim(q, s, k)
      BY <1>1, <1>3, <2>2 DEF Alone, OverlapInv
    <3>2. CASE k # h
      BY <3>1, <3>2 DEF Claim
    <3>3. CASE k = h
      <4>1. ~AtWork(thread[q][s], k)
        BY <1>3, <2>2, <3>3 DEF Disturb
      <4> QED
        BY <3>1, <4>1 DEF Claim, AtWork
    <3> QED
      BY <3>2, <3>3
  <2> QED
    BY <2>1, <2>2
<1> QED
  BY <1>2, <1>3 DEF OverlapInv

-----------------------------------------------------------------------------
(* The steps that write nothing                                             *)

LEMMA MemoriesStay ==
  ASSUME Timed, memory' = memory
  PROVE  /\ DOMAIN memory' = Processes /\ \A q \in Processes : memory'[q] \in Seq(Entry)
         /\ \A q \in Processes : \A i \in DOMAIN memory'[q] :
              \E j \in DOMAIN memory[q] : memory'[q][i] = memory[q][j]
BY DEF Timed

(* A thread that is not at work afterwards, or has begun to generate. *)
LEMMA RestsOverlap ==
  ASSUME OverlapInv, Shape, NEW p \in Processes, NEW r \in Roles, NEW x, Goto(p, r, x),
         x.at \in MaybeTime, x.floor \in MaybeTime,
         x.pc \in {"idle", "put", "taken", "over"} \/ (x.pc = "generating" /\ x.at = hour),
         UNCHANGED <<hour, memory, table, history, file, saved, disturbed>>
  PROVE  OverlapInv'
<1>1. Timed /\ hour \in Nat /\ hour # None
  BY LegacyAssumption DEF OverlapInv, Timed
<1>2. Alone(p, r, x)
  BY GotoIs DEF Alone
<1>3. Fits(x, hour)
  BY <1>1 DEF Fits
<1>4. ASSUME NEW k \in Keys PROVE Claim(p, r, k)'
  <2>1. thread'[p][r] = x /\ \A q \in Processes : saved'[q][k] # None => saved'[q][k] <= hour
    BY <1>1, <1>2 DEF Alone, Timed
  <2> QED
    BY <2>1 DEF Claim
<1> QED
  BY <1>1, <1>2, <1>3, <1>4, MemoriesStay, QuietOverlap

LEMMA LoadOverlap ==
  ASSUME OverlapInv, Shape, NEW p \in Processes, NEW r \in Loaders, NEW op, NEW k \in Keys,
         LoadMemory(p, r, op, k),
         UNCHANGED <<hour, table, history, file, saved, disturbed>>
  PROVE  OverlapInv'
<1>1. PICK t, f : t = InMemory(p, k) /\ f = saved[p][k]
  OBVIOUS
<1> DEFINE x == [pc |-> "query", op |-> op, key |-> k, at |-> None, floor |-> f]
           y == [x EXCEPT !.pc = "answer", !.at = t]
<1>2. \/ t # None /\ Goto(p, r, y) /\ UNCHANGED memory
      \/ Goto(p, r, x) /\ memory' = [memory EXCEPT ![p] = MemPop(@, k)]
  BY <1>1 DEF LoadMemory
<1>3. /\ x.pc = "query" /\ x.key = k /\ x.at = None /\ x.floor = f
      /\ y.pc = "answer" /\ y.key = k /\ y.at = t /\ y.floor = f
  OBVIOUS
<1> HIDE DEF x, y
<1>4. Timed /\ f \in MaybeTime /\ t \in MaybeTime /\ r \in Roles
  BY <1>1, InMemoryIs, LoadersAre DEF OverlapInv, Timed, MaybeTime
<1>5. CASE t # None /\ Goto(p, r, y) /\ UNCHANGED memory
  <2>1. Alone(p, r, y) /\ Fits(y, hour)
    BY <1>3, <1>4, <1>5, GotoIs DEF Alone, Fits
  <2>2. ASSUME NEW h \in Keys \ disturbed PROVE Claim(p, r, h)'
    <3>1. thread'[p][r] = y
      BY <2>1 DEF Alone
    <3>2. CASE h # k
      BY <1>3, <3>1, <3>2 DEF Claim
    <3>3. CASE h = k
      <4>1. PICK i \in DOMAIN memory[p] : memory[p][i].key = k /\ memory[p][i].at = t /\ t \in Nat
        BY <1>1, <1>4, <1>5, InMemoryIs
      <4>2. f # None => t >= f
        BY <1>1, <2>2, <3>3, <4>1 DEF OverlapInv, Agreed
      <4>3. ~Older(t, f)
        BY <1>4, <4>1, <4>2 DEF Older, MaybeTime
      <4> QED
        BY <1>3, <3>1, <4>3 DEF Claim
    <3> QED
      BY <3>2, <3>3
  <2> QED
    BY <1>4, <1>5, <2>1, <2>2, MemoriesStay, QuietOverlap
<1>6. CASE Goto(p, r, x) /\ memory' = [memory EXCEPT ![p] = MemPop(@, k)]
  <2>1. Alone(p, r, x) /\ Fits(x, hour)
    BY <1>3, <1>4, <1>6, GotoIs DEF Alone, Fits, MaybeTime
  <2>2. ASSUME NEW h \in Keys \ disturbed PROVE Claim(p, r, h)'
    <3>1. thread'[p][r] = x /\ saved'[p][k] = f
      BY <1>1, <2>1 DEF Alone
    <3> QED
      BY <1>3, <3>1 DEF Claim
  <2>3. /\ DOMAIN memory' = Processes /\ \A q \in Processes : memory'[q] \in Seq(Entry)
        /\ \A q \in Processes : \A i \in DOMAIN memory'[q] :
             \E j \in DOMAIN memory[q] : memory'[q][i] = memory[q][j]
    <3>1. memory[p] \in Seq(Entry) /\ DOMAIN memory' = Processes
      BY <1>4, <1>6 DEF Timed
    <3>2. memory'[p] = MemPop(memory[p], k) /\ \A q \in Processes \ {p} : memory'[q] = memory[q]
      BY <1>4, <1>6 DEF Timed
    <3>3. memory'[p] \in Seq(Entry) /\ \A i \in DOMAIN memory'[p] :
            \E j \in DOMAIN memory[p] : memory'[p][i] = memory[p][j]
      BY <3>1, <3>2, MemPopIs
    <3> QED
      BY <1>4, <3>1, <3>2, <3>3 DEF Timed
  <2> QED
    BY <1>4, <1>6, <2>1, <2>2, <2>3, QuietOverlap
<1> QED
  BY <1>2, <1>5, <1>6

LEMMA QueryOverlap ==
  ASSUME OverlapInv, Shape, NEW p \in Processes, NEW r \in Loaders, Query(p, r)
  PROVE  OverlapInv'
<1>1. PICK x, k, row : x = thread[p][r] /\ k = x.key /\ row = Row(k)
  OBVIOUS
<1>2. /\ x.pc = "query"
      /\ IF row # None THEN Goto(p, r, [x EXCEPT !.pc = "found", !.at = row])
                       ELSE Goto(p, r, [x EXCEPT !.pc = "missing"])
      /\ UNCHANGED <<hour, memory, table, history, file, saved, disturbed>>
  BY <1>1 DEF Query
<1>3. /\ Timed /\ r \in Roles /\ k \in Keys /\ DOMAIN x = ThreadFields
      /\ x.at \in MaybeTime /\ x.floor \in MaybeTime
  BY <1>1, <1>2, LoadersAre DEF OverlapInv, Timed, Fits, Shape
<1>4. row \in MaybeTime /\ (table[k] # None => row = table[k]) /\ (row = None => table[k] = None)
  BY <1>1, <1>3, LegacyAssumption DEF Row, Timed
<1>5. k \notin disturbed => Agreed(k) /\ x.floor = saved[p][k]
  <2>1. k \notin disturbed => Claim(p, r, k) /\ Agreed(k)
    BY <1>3 DEF OverlapInv
  <2> QED
    BY <1>1, <1>2, <2>1 DEF Claim
<1>6. k \notin disturbed /\ x.floor # None => row # None /\ row >= x.floor
  BY <1>3, <1>4, <1>5 DEF Agreed
<1>7. CASE row # None
  <2> DEFINE y == [x EXCEPT !.pc = "found", !.at = row]
  <2>1. y.pc = "found" /\ y.at = row /\ y.key = k /\ y.floor = x.floor
    BY <1>1, <1>3 DEF ThreadFields
  <2>2. Goto(p, r, y)
    BY <1>2, <1>7
  <2> HIDE DEF y
  <2>3. Alone(p, r, y) /\ Fits(y, hour)
    BY <1>3, <1>4, <1>7, <2>1, <2>2, GotoIs DEF Alone, Fits
  <2>4. ASSUME NEW h \in Keys \ disturbed PROVE Claim(p, r, h)'
    <3>1. thread'[p][r] = y /\ saved'[p][k] = saved[p][k]
      BY <1>2, <2>3 DEF Alone
    <3> QED
      BY <1>5, <1>6, <1>7, <2>1, <2>4, <3>1 DEF Claim
  <2> QED
    BY <1>2, <1>3, <2>3, <2>4, MemoriesStay, QuietOverlap
<1>8. CASE row = None
  <2> DEFINE y == [x EXCEPT !.pc = "missing"]
  <2>1. y.pc = "missing" /\ y.at = x.at /\ y.key = k /\ y.floor = x.floor
    BY <1>1, <1>3 DEF ThreadFields
  <2>2. Goto(p, r, y)
    BY <1>2, <1>8
  <2> HIDE DEF y
  <2>3. Alone(p, r, y) /\ Fits(y, hour)
    BY <1>3, <2>1, <2>2, GotoIs DEF Alone, Fits
  <2>4. ASSUME NEW h \in Keys \ disturbed PROVE Claim(p, r, h)'
    <3>1. thread'[p][r] = y /\ table' = table
      BY <1>2, <2>3 DEF Alone
    <3> QED
      BY <1>4, <1>6, <1>8, <2>1, <2>4, <3>1 DEF Claim
  <2> QED
    BY <1>2, <1>3, <2>3, <2>4, MemoriesStay, QuietOverlap
<1> QED
  BY <1>7, <1>8

LEMMA RespondOverlap ==
  ASSUME OverlapInv, Shape, NEW p \in Processes, Respond(p)
  PROVE  OverlapInv'
<1>1. PICK x : x = thread[p]["request"]
  OBVIOUS
<1>2. /\ Timed /\ "request" \in Roles
      /\ x.at \in MaybeTime /\ x.floor \in MaybeTime
  BY <1>1 DEF OverlapInv, Timed, Fits, Roles
<1>3. /\ x.pc = "answer" /\ UNCHANGED <<hour, memory, table, history, file, saved, disturbed>>
      /\ \/ Goto(p, "request", Idle) \/ Goto(p, "request", Generate(x))
         \/ Goto(p, "request", [x EXCEPT !.pc = "put"])
  BY <1>1 DEF Respond, Enqueue
<1>4. x.pc # "idle" /\ DOMAIN x = ThreadFields
  BY <1>1, <1>2, <1>3 DEF Shape
<1>5. /\ Idle.pc = "idle" /\ Idle.at \in MaybeTime /\ Idle.floor \in MaybeTime
      /\ Generate(x).pc = "generating" /\ Generate(x).at = hour /\ Generate(x).floor = x.floor
      /\ [x EXCEPT !.pc = "put"].pc = "put" /\ [x EXCEPT !.pc = "put"].at = x.at
      /\ [x EXCEPT !.pc = "put"].floor = x.floor
  BY <1>4 DEF Idle, Generate, ThreadFields, MaybeTime
<1>6. hour \in MaybeTime
  BY <1>2 DEF Timed, MaybeTime
<1> QED
  BY <1>2, <1>3, <1>5, <1>6, RestsOverlap

LEMMA AlertOverlap ==
  ASSUME OverlapInv, Shape, NEW p \in Processes, Alert(p)
  PROVE  OverlapInv'
<1>1. PICK x : x = thread[p]["poller"]
  OBVIOUS
<1>2. /\ Timed /\ "poller" \in Roles /\ hour \in MaybeTime
      /\ x.at \in MaybeTime /\ x.floor \in MaybeTime
  BY <1>1, LoadersAre DEF OverlapInv, Timed, Fits, MaybeTime
<1>3. /\ x.pc = "answer" /\ UNCHANGED <<hour, memory, table, history, file, saved, disturbed>>
      /\ Goto(p, "poller", Idle) \/ Goto(p, "poller", Generate(x))
  BY <1>1 DEF Alert
<1>4. DOMAIN x = ThreadFields
  BY <1>1, <1>2 DEF Shape
<1>5. /\ Idle.pc = "idle" /\ Idle.at \in MaybeTime /\ Idle.floor \in MaybeTime
      /\ Generate(x).pc = "generating" /\ Generate(x).at = hour /\ Generate(x).floor = x.floor
  BY <1>4 DEF Idle, Generate, ThreadFields, MaybeTime
<1> QED
  BY <1>2, <1>3, <1>5, RestsOverlap

-----------------------------------------------------------------------------
(* The steps that write                                                     *)

LEMMA MemoriesSet ==
  ASSUME Timed, NEW p \in Processes, NEW k \in Keys, NEW t \in Nat,
         memory' = [memory EXCEPT ![p] = MemSet(@, k, t)]
  PROVE  /\ DOMAIN memory' = Processes /\ \A q \in Processes : memory'[q] \in Seq(Entry)
         /\ \A q \in Processes : \A i \in DOMAIN memory'[q] :
              memory'[q][i].key # k => \E j \in DOMAIN memory[q] : memory'[q][i] = memory[q][j]
         /\ \A i \in DOMAIN memory'[p] : memory'[p][i].key = k => memory'[p][i].at = t
         /\ \A q \in Processes \ {p} : memory'[q] = memory[q]
<1>1. /\ memory[p] \in Seq(Entry) /\ DOMAIN memory' = Processes
      /\ memory'[p] = MemSet(memory[p], k, t) /\ \A q \in Processes \ {p} : memory'[q] = memory[q]
  BY DEF Timed
<1>2. /\ memory'[p] \in Seq(Entry)
      /\ \A i \in DOMAIN memory'[p] :
           /\ memory'[p][i].key = k => memory'[p][i].at = t
           /\ memory'[p][i].key # k => \E j \in DOMAIN memory[p] : memory'[p][i] = memory[p][j]
  <2>1. PICK s : s = memory[p]
    OBVIOUS
  <2>2. s \in Seq(Entry) /\ memory'[p] = MemSet(s, k, t)
    BY <1>1, <2>1
  <2>3. /\ MemSet(s, k, t) \in Seq(Entry)
        /\ \A i \in DOMAIN MemSet(s, k, t) :
             /\ MemSet(s, k, t)[i].key = k => MemSet(s, k, t)[i].at = t
             /\ MemSet(s, k, t)[i].key # k => \E j \in DOMAIN s : MemSet(s, k, t)[i] = s[j]
    BY <2>2, MemSetIs
  <2> QED
    BY <2>1, <2>2, <2>3
<1>3. ASSUME NEW q \in Processes
      PROVE  /\ memory'[q] \in Seq(Entry)
             /\ \A i \in DOMAIN memory'[q] :
                  memory'[q][i].key # k => \E j \in DOMAIN memory[q] : memory'[q][i] = memory[q][j]
  <2>1. CASE q = p
    BY <1>2, <2>1
  <2>2. CASE q # p
    <3>1. memory'[q] = memory[q] /\ memory[q] \in Seq(Entry)
      BY <1>1, <2>2 DEF Timed
    <3> QED
      BY <3>1
  <2> QED
    BY <2>1, <2>2
<1> QED
  BY <1>1, <1>2, <1>3

(* What a request that works on a key knows. *)
LEMMA AtItsKey ==
  ASSUME OverlapInv, Shape, NEW p \in Processes, NEW r \in Roles, NEW x, x = thread[p][r],
         x.pc # "idle"
  PROVE  /\ Timed /\ x.key \in Keys /\ DOMAIN x = ThreadFields /\ Fits(x, hour)
         /\ x.key \notin disturbed => Agreed(x.key) /\ Claim(p, r, x.key)
BY DEF OverlapInv, Timed, Shape

LEMMA FoundOverlap ==
  ASSUME OverlapInv, Shape, NEW p \in Processes, NEW r \in Loaders, Found(p, r)
  PROVE  OverlapInv'
<1>1. PICK x, k : x = thread[p][r] /\ k = x.key
  OBVIOUS
<1>2. /\ x.pc = "found" /\ Disturb(p, r, k)
      /\ \/ /\ table' = [table EXCEPT ![k] = None]
            /\ saved' = [q \in Processes |-> [saved[q] EXCEPT ![k] = None]]
            /\ Goto(p, r, [x EXCEPT !.pc = "pop", !.at = None])
            /\ UNCHANGED memory
         \/ /\ memory' = [memory EXCEPT ![p] = MemSet(@, k, x.at)]
            /\ Goto(p, r, [x EXCEPT !.pc = "answer"])
            /\ UNCHANGED <<table, saved>>
      /\ UNCHANGED <<hour, history, file>>
  BY <1>1 DEF Found
<1>3. /\ Timed /\ r \in Roles /\ k \in Keys /\ DOMAIN x = ThreadFields
      /\ x.at \in Nat /\ x.floor \in MaybeTime
      /\ k \notin disturbed => Agreed(k) /\ x.floor = saved[p][k] /\ (x.floor # None => x.at >= x.floor)
  <2>1. r \in Roles
    BY LoadersAre
  <2>2. /\ Timed /\ k \in Keys /\ DOMAIN x = ThreadFields /\ Fits(x, hour)
        /\ k \notin disturbed => Agreed(k) /\ Claim(p, r, k)
    BY <1>1, <1>2, <2>1, AtItsKey
  <2> QED
    BY <1>1, <1>2, <2>1, <2>2 DEF Fits, Claim, MaybeTime
<1>4. disturbed \subseteq disturbed'
  BY <1>2 DEF Disturb
<1>5. CASE /\ table' = [table EXCEPT ![k] = None]
           /\ saved' = [q \in Processes |-> [saved[q] EXCEPT ![k] = None]]
           /\ Goto(p, r, [x EXCEPT !.pc = "pop", !.at = None])
           /\ UNCHANGED memory
  <2> DEFINE y == [x EXCEPT !.pc = "pop", !.at = None]
  <2>1. y.pc = "pop" /\ y.at = None /\ y.key = k /\ y.floor = x.floor
    BY <1>1, <1>3 DEF ThreadFields
  <2>2. Goto(p, r, y)
    BY <1>5
  <2> HIDE DEF y
  <2>3. Alone(p, r, y) /\ Fits(y, hour)
    BY <1>3, <2>1, <2>2, GotoIs DEF Alone, Fits, MaybeTime
  <2>4. /\ table' \in [Keys -> MaybeTime] /\ saved' \in [Processes -> [Keys -> MaybeTime]]
        /\ \A h \in Keys \ {k} : table'[h] = table[h] /\ \A q \in Processes : saved'[q][h] = saved[q][h]
        /\ \A q \in Processes : saved'[q][k] = None
    BY <1>3, <1>5 DEF Timed, MaybeTime
  <2>5. Timed'
    <3>1. \A q \in Processes, h \in Keys : saved'[q][h] # None => saved'[q][h] <= hour
      BY <1>3, <2>4 DEF Timed
    <3>2. \A q \in Processes, s \in Roles : Fits(thread'[q][s], hour)
      BY <1>2, <1>3, <2>3, ThreadsFit
    <3> QED
      BY <1>2, <1>3, <1>5, <2>4, <3>1, <3>2 DEF Timed
  <2>6. Agreed(k)'
    BY <2>4 DEF Agreed
  <2>7. Claim(p, r, k)'
    BY <2>1, <2>3 DEF Claim, Alone
  <2> QED
    BY <1>2, <1>3, <1>5, <2>1, <2>3, <2>4, <2>5, <2>6, <2>7, WritingOverlap
<1>6. CASE /\ memory' = [memory EXCEPT ![p] = MemSet(@, k, x.at)]
           /\ Goto(p, r, [x EXCEPT !.pc = "answer"])
           /\ UNCHANGED <<table, saved>>
  <2> DEFINE y == [x EXCEPT !.pc = "answer"]
  <2>1. y.pc = "answer" /\ y.at = x.at /\ y.key = k /\ y.floor = x.floor
    BY <1>1, <1>3 DEF ThreadFields
  <2>2. Goto(p, r, y)
    BY <1>6
  <2> HIDE DEF y
  <2>3. Alone(p, r, y) /\ Fits(y, hour)
    BY <1>3, <2>1, <2>2, GotoIs DEF Alone, Fits, MaybeTime
  <2>4. /\ DOMAIN memory' = Processes /\ \A q \in Processes : memory'[q] \in Seq(Entry)
        /\ \A q \in Processes : \A i \in DOMAIN memory'[q] :
             memory'[q][i].key # k => \E j \in DOMAIN memory[q] : memory'[q][i] = memory[q][j]
        /\ \A i \in DOMAIN memory'[p] : memory'[p][i].key = k => memory'[p][i].at = x.at
        /\ \A q \in Processes \ {p} : memory'[q] = memory[q]
    BY <1>3, <1>6, MemoriesSet
  <2>5. Timed'
    <3>1. \A q \in Processes, s \in Roles : Fits(thread'[q][s], hour)
      BY <1>2, <1>3, <2>3, ThreadsFit
    <3> QED
      BY <1>2, <1>3, <1>6, <2>4, <3>1 DEF Timed
  <2>6. ASSUME k \notin disturbed' PROVE Agreed(k)' /\ Claim(p, r, k)'
    <3>1. Agreed(k) /\ x.floor = saved[p][k] /\ (x.floor # None => x.at >= x.floor)
      BY <1>3, <1>4, <2>6
    <3>2. Agreed(k)'
      BY <1>6, <2>4, <3>1 DEF Agreed
    <3>3. ~Older(x.at, x.floor)
      BY <1>3, <3>1 DEF Older, MaybeTime
    <3> QED
      BY <2>1, <2>3, <3>2, <3>3 DEF Claim, Alone
  <2>7. \A h \in Keys \ {k} : table'[h] = table[h] /\ \A q \in Processes : saved'[q][h] = saved[q][h]
    BY <1>6
  <2>8. Disturb(p, r, k) /\ k \in Keys /\ r \in Roles /\ y.key \in {k, None}
        /\ Alone(p, r, y)
    BY <1>2, <1>3, <2>1, <2>3
  <2>9. \A q \in Processes : \A i \in DOMAIN memory'[q] :
          memory'[q][i].key # k => \E j \in DOMAIN memory[q] : memory'[q][i] = memory[q][j]
    BY <2>4
  <2> QED
    BY <2>5, <2>6, <2>7, <2>8, <2>9, WritingOverlap
<1> QED
  BY <1>2, <1>5, <1>6

LEMMA PopOverlap ==
  ASSUME OverlapInv, Shape, NEW p \in Processes, NEW r \in Loaders, Pop(p, r)
  PROVE  OverlapInv'
<1>1. PICK x, k : x = thread[p][r] /\ k = x.key
  OBVIOUS
<1>2. /\ x.pc = "pop" /\ Disturb(p, r, k)
      /\ memory' = [memory EXCEPT ![p] = MemPop(@, k)]
      /\ Goto(p, r, [x EXCEPT !.pc = "answer"])
      /\ UNCHANGED <<hour, table, history, file, saved>>
  BY <1>1 DEF Pop
<1>3. /\ Timed /\ r \in Roles /\ k \in Keys /\ DOMAIN x = ThreadFields
      /\ x.at \in MaybeTime /\ x.floor \in MaybeTime
      /\ k \notin disturbed => x.at = None
  <2>1. r \in Roles
    BY LoadersAre
  <2>2. /\ Timed /\ k \in Keys /\ DOMAIN x = ThreadFields /\ Fits(x, hour)
        /\ k \notin disturbed => Claim(p, r, k)
    BY <1>1, <1>2, <2>1, AtItsKey
  <2> QED
    BY <1>1, <1>2, <2>1, <2>2 DEF Fits, Claim
<1> DEFINE y == [x EXCEPT !.pc = "answer"]
<1>4. y.pc = "answer" /\ y.at = x.at /\ y.key = k /\ y.floor = x.floor
  BY <1>1, <1>3 DEF ThreadFields
<1>5. Goto(p, r, y) /\ disturbed \subseteq disturbed'
  BY <1>2 DEF Disturb
<1> HIDE DEF y
<1>6. Alone(p, r, y) /\ Fits(y, hour)
  BY <1>3, <1>4, <1>5, GotoIs DEF Alone, Fits
<1>7. ASSUME NEW h \in Keys \ disturbed PROVE Claim(p, r, h)'
  BY <1>3, <1>4, <1>6, <1>7 DEF Claim, Alone, Older
<1>8. /\ DOMAIN memory' = Processes /\ \A q \in Processes : memory'[q] \in Seq(Entry)
      /\ \A q \in Processes : \A i \in DOMAIN memory'[q] :
           \E j \in DOMAIN memory[q] : memory'[q][i] = memory[q][j]
  <2>1. memory[p] \in Seq(Entry) /\ DOMAIN memory' = Processes
    BY <1>2, <1>3 DEF Timed
  <2>2. memory'[p] = MemPop(memory[p], k) /\ \A q \in Processes \ {p} : memory'[q] = memory[q]
    BY <1>2, <1>3 DEF Timed
  <2>3. memory'[p] \in Seq(Entry) /\ \A i \in DOMAIN memory'[p] :
          \E j \in DOMAIN memory[p] : memory'[p][i] = memory[p][j]
    BY <2>1, <2>2, MemPopIs
  <2> QED
    BY <1>3, <2>1, <2>2, <2>3 DEF Timed
<1> QED
  BY <1>2, <1>3, <1>5, <1>6, <1>7, <1>8, QuietOverlap

(* Nothing of the key is in the table, nor saved. *)
LEMMA FallbacksOverlap ==
  ASSUME OverlapInv, Shape, NEW p \in Processes, NEW r \in Loaders, Fallbacks(p, r)
  PROVE  OverlapInv'
<1>1. PICK x, k : x = thread[p][r] /\ k = x.key
  OBVIOUS
<1>2. r \in Roles /\ x.pc = "missing" /\ Disturb(p, r, k)
      /\ UNCHANGED <<hour, table, history, file, saved>>
  BY <1>1, LoadersAre DEF Fallbacks
<1>3. /\ Timed /\ k \in Keys /\ DOMAIN x = ThreadFields /\ Fits(x, hour)
      /\ k \notin disturbed => Agreed(k) /\ Claim(p, r, k)
  BY <1>1, <1>2, AtItsKey
<1>4. PICK t \in MaybeTime, pc \in {"migrate", "answer"} :
        /\ IF t = None THEN UNCHANGED memory ELSE memory' = [memory EXCEPT ![p] = MemSet(@, k, t)]
        /\ Goto(p, r, [x EXCEPT !.at = t, !.pc = pc])
        /\ pc = "migrate" => t # None
  <2>1. None \in MaybeTime /\ history \in MaybeTime /\ file \in MaybeTime
    BY <1>3 DEF Timed, MaybeTime
  <2> QED
    BY <1>1, <2>1 DEF Fallbacks
<1> DEFINE y == [x EXCEPT !.at = t, !.pc = pc]
<1>5. y.pc = pc /\ y.at = t /\ y.key = k /\ y.floor = x.floor
  BY <1>1, <1>3 DEF ThreadFields
<1>6. Goto(p, r, y) /\ disturbed \subseteq disturbed'
  BY <1>2, <1>4 DEF Disturb
<1> HIDE DEF y
<1>7. Alone(p, r, y) /\ Fits(y, hour)
  BY <1>2, <1>3, <1>4, <1>5, <1>6, GotoIs DEF Alone, Fits
<1>8. /\ DOMAIN memory' = Processes /\ \A q \in Processes : memory'[q] \in Seq(Entry)
      /\ \A q \in Processes : \A i \in DOMAIN memory'[q] :
           memory'[q][i].key # k => \E j \in DOMAIN memory[q] : memory'[q][i] = memory[q][j]
  <2>1. CASE t = None
    BY <1>3, <1>4, <2>1, MemoriesStay
  <2>2. CASE t # None
    BY <1>3, <1>4, <2>2, MemoriesSet DEF MaybeTime
  <2> QED
    BY <2>1, <2>2
<1>9. Timed'
  <2>1. \A q \in Processes, s \in Roles : Fits(thread'[q][s], hour)
    BY <1>2, <1>3, <1>7, ThreadsFit
  <2> QED
    BY <1>2, <1>3, <1>8, <2>1 DEF Timed
<1>10. ASSUME k \notin disturbed' PROVE Agreed(k)' /\ Claim(p, r, k)'
  <2>1. Agreed(k) /\ x.floor = None /\ table[k] = None
    BY <1>1, <1>2, <1>3, <1>6, <1>10 DEF Claim
  <2>2. \A q \in Processes : saved[q][k] = None
    BY <2>1 DEF Agreed
  <2>3. Agreed(k)'
    BY <1>2, <2>2 DEF Agreed
  <2>4. Claim(p, r, k)'
    BY <1>2, <1>4, <1>5, <1>7, <2>1 DEF Claim, Alone, Older
  <2> QED
    BY <2>3, <2>4
<1> QED
  BY <1>2, <1>3, <1>5, <1>7, <1>8, <1>9, <1>10, WritingOverlap

LEMMA MigrateOverlap ==
  ASSUME OverlapInv, Shape, NEW p \in Processes, NEW r \in Loaders, Migrate(p, r)
  PROVE  OverlapInv'
<1>1. PICK x, k : x = thread[p][r] /\ k = x.key
  OBVIOUS
<1>2. /\ r \in Roles /\ x.pc = "migrate" /\ Disturb(p, r, k)
      /\ table' \in {table, [table EXCEPT ![k] = x.at]}
      /\ Goto(p, r, [x EXCEPT !.pc = "answer"])
      /\ UNCHANGED <<hour, memory, history, file, saved>>
  BY <1>1, LoadersAre DEF Migrate
<1>3. /\ Timed /\ k \in Keys /\ DOMAIN x = ThreadFields /\ Fits(x, hour)
      /\ k \notin disturbed => Agreed(k) /\ Claim(p, r, k)
  BY <1>1, <1>2, AtItsKey
<1> DEFINE y == [x EXCEPT !.pc = "answer"]
<1>5. y.pc = "answer" /\ y.at = x.at /\ y.key = k /\ y.floor = x.floor
  BY <1>1, <1>3 DEF ThreadFields
<1>6. Goto(p, r, y) /\ disturbed \subseteq disturbed'
  BY <1>2 DEF Disturb
<1> HIDE DEF y
<1>7. Alone(p, r, y) /\ Fits(y, hour)
  BY <1>2, <1>3, <1>5, <1>6, GotoIs DEF Alone, Fits
<1>8. table' \in [Keys -> MaybeTime] /\ \A h \in Keys \ {k} : table'[h] = table[h]
  BY <1>2, <1>3 DEF Timed, Fits
<1>9. Timed'
  <2>1. \A q \in Processes, s \in Roles : Fits(thread'[q][s], hour)
    BY <1>2, <1>3, <1>7, ThreadsFit
  <2> QED
    BY <1>2, <1>3, <1>8, <2>1 DEF Timed
<1>10. ASSUME k \notin disturbed' PROVE Agreed(k)' /\ Claim(p, r, k)'
  <2>1. Agreed(k) /\ x.floor = None /\ table[k] = None
    BY <1>1, <1>2, <1>3, <1>6, <1>10 DEF Claim
  <2>2. \A q \in Processes : saved[q][k] = None
    BY <2>1 DEF Agreed
  <2>3. Agreed(k)'
    BY <1>2, <2>2 DEF Agreed
  <2>4. Claim(p, r, k)'
    BY <1>5, <1>7, <2>1 DEF Claim, Alone, Older
  <2> QED
    BY <2>3, <2>4
<1>11. \A q \in Processes : \A i \in DOMAIN memory'[q] :
         memory'[q][i].key # k => \E j \in DOMAIN memory[q] : memory'[q][i] = memory[q][j]
  BY <1>2
<1> QED
  BY <1>2, <1>3, <1>5, <1>7, <1>8, <1>9, <1>10, <1>11, WritingOverlap

LEMMA SaveRowOverlap ==
  ASSUME OverlapInv, Shape, NEW p \in Processes, NEW r \in Roles, SaveRow(p, r)
  PROVE  OverlapInv'
<1>1. PICK x, k : x = thread[p][r] /\ k = x.key
  OBVIOUS
<1>2. /\ x.pc = "generating"
      /\ \/ table' = [table EXCEPT ![k] = x.at] /\ Disturb(p, r, k) /\ UNCHANGED file
         \/ file' = x.at /\ disturbed' = Keys /\ UNCHANGED table
      /\ Goto(p, r, [x EXCEPT !.pc = "remember"])
      /\ UNCHANGED <<hour, memory, history, saved>>
  BY <1>1 DEF SaveRow
<1>3. /\ Timed /\ k \in Keys /\ DOMAIN x = ThreadFields /\ Fits(x, hour)
      /\ k \notin disturbed => Agreed(k) /\ Claim(p, r, k)
  BY <1>1, <1>2, AtItsKey
<1> DEFINE y == [x EXCEPT !.pc = "remember"]
<1>5. y.pc = "remember" /\ y.at = x.at /\ y.key = k /\ y.floor = x.floor
  BY <1>1, <1>3 DEF ThreadFields
<1>6. Goto(p, r, y)
  BY <1>2
<1> HIDE DEF y
<1>7. Alone(p, r, y) /\ Fits(y, hour) /\ x.at # None /\ x.at \in Nat
  BY <1>2, <1>3, <1>5, <1>6, GotoIs DEF Alone, Fits, MaybeTime
<1>8. /\ table' \in [Keys -> MaybeTime] /\ \A h \in Keys \ {k} : table'[h] = table[h]
      /\ file' \in MaybeTime
  BY <1>2, <1>3, <1>7 DEF Timed, MaybeTime
<1>9. Timed'
  <2>1. \A q \in Processes, s \in Roles : Fits(thread'[q][s], hour)
    BY <1>2, <1>3, <1>7, ThreadsFit
  <2> QED
    BY <1>2, <1>3, <1>8, <2>1 DEF Timed
<1>10. CASE disturbed' = Keys
  BY <1>9, <1>10 DEF OverlapInv
<1>11. CASE table' = [table EXCEPT ![k] = x.at] /\ Disturb(p, r, k)
  <2>1. disturbed \subseteq disturbed' /\ table'[k] = x.at
    BY <1>3, <1>11 DEF Disturb, Timed
  <2>2. ASSUME k \notin disturbed' PROVE Agreed(k)' /\ Claim(p, r, k)'
    <3>1. Agreed(k) /\ \A q \in Processes : saved[q][k] # None => saved[q][k] <= x.at
      BY <1>1, <1>2, <1>3, <2>1, <2>2 DEF Claim
    <3>2. \A q \in Processes : saved[q][k] \in MaybeTime
      BY <1>3 DEF Timed
    <3>3. Agreed(k)'
      <4> SUFFICES ASSUME NEW q \in Processes, saved[q][k] # None
                   PROVE  /\ x.at # None /\ x.at >= saved[q][k]
                          /\ \A i \in DOMAIN memory[q] : memory[q][i].key = k => memory[q][i].at >= saved[q][k]
        BY <1>2, <2>1 DEF Agreed
      <4> QED
        BY <1>7, <3>1, <3>2 DEF Agreed, MaybeTime
    <3>4. Claim(p, r, k)'
      BY <1>5, <1>7, <2>1 DEF Claim, Alone
    <3> QED
      BY <3>3, <3>4
  <2>3. \A q \in Processes : \A i \in DOMAIN memory'[q] :
          memory'[q][i].key # k => \E j \in DOMAIN memory[q] : memory'[q][i] = memory[q][j]
    BY <1>2
  <2> QED
    BY <1>2, <1>3, <1>5, <1>7, <1>8, <1>9, <1>11, <2>2, <2>3, WritingOverlap
<1> QED
  BY <1>2, <1>10, <1>11

LEMMA RememberOverlap ==
  ASSUME OverlapInv, Shape, NEW p \in Processes, NEW r \in Roles, Remember(p, r)
  PROVE  OverlapInv'
<1>1. PICK x, k : x = thread[p][r] /\ k = x.key
  OBVIOUS
<1>2. /\ x.pc = "remember" /\ Disturb(p, r, k)
      /\ memory' = [memory EXCEPT ![p] = MemSet(@, k, x.at)]
      /\ saved' = [saved EXCEPT ![p][k] = x.at]
      /\ Goto(p, r, Idle) \/ Goto(p, r, [x EXCEPT !.pc = "over"])
      /\ UNCHANGED <<hour, table, history, file>>
  BY <1>1 DEF Remember, Remembered
<1>3. /\ Timed /\ k \in Keys /\ DOMAIN x = ThreadFields /\ Fits(x, hour)
      /\ k \notin disturbed => Agreed(k) /\ Claim(p, r, k)
  BY <1>1, <1>2, AtItsKey
<1>4. x.at # None /\ x.at \in Nat /\ x.at <= hour /\ x.floor \in MaybeTime
  BY <1>2, <1>3 DEF Fits, MaybeTime
<1>5. PICK y : /\ Goto(p, r, y) /\ y.pc \in {"idle", "over"} /\ y.key \in {k, None}
               /\ y.at \in MaybeTime /\ y.floor \in MaybeTime
  <2>1. CASE Goto(p, r, Idle)
    <3>1. Idle.pc = "idle" /\ Idle.key = None /\ Idle.at = None /\ Idle.floor = None
      BY DEF Idle
    <3> QED
      BY <2>1, <3>1 DEF MaybeTime
  <2>2. CASE Goto(p, r, [x EXCEPT !.pc = "over"])
    <3> DEFINE z == [x EXCEPT !.pc = "over"]
    <3>1. z.pc = "over" /\ z.key = k /\ z.at = x.at /\ z.floor = x.floor
      BY <1>1, <1>3 DEF ThreadFields
    <3>2. Goto(p, r, z)
      BY <2>2
    <3> HIDE DEF z
    <3> QED
      BY <1>4, <3>1, <3>2 DEF MaybeTime
  <2> QED
    BY <1>2, <2>1, <2>2
<1>6. disturbed \subseteq disturbed'
  BY <1>2 DEF Disturb
<1>7. Alone(p, r, y) /\ Fits(y, hour)
  BY <1>5, GotoIs DEF Alone, Fits
<1>8. /\ DOMAIN memory' = Processes /\ \A q \in Processes : memory'[q] \in Seq(Entry)
      /\ \A q \in Processes : \A i \in DOMAIN memory'[q] :
           memory'[q][i].key # k => \E j \in DOMAIN memory[q] : memory'[q][i] = memory[q][j]
      /\ \A i \in DOMAIN memory'[p] : memory'[p][i].key = k => memory'[p][i].at = x.at
      /\ \A q \in Processes \ {p} : memory'[q] = memory[q]
  BY <1>2, <1>3, <1>4, MemoriesSet
<1>9. /\ saved' \in [Processes -> [Keys -> MaybeTime]]
      /\ saved'[p][k] = x.at /\ \A q \in Processes \ {p} : saved'[q] = saved[q]
      /\ \A q \in Processes, h \in Keys \ {k} : saved'[q][h] = saved[q][h]
  BY <1>2, <1>3, <1>4 DEF Timed, MaybeTime
<1>10. Timed'
  <2>1. \A q \in Processes, s \in Roles : Fits(thread'[q][s], hour)
    BY <1>2, <1>3, <1>7, ThreadsFit
  <2>2. \A q \in Processes, h \in Keys : saved'[q][h] # None => saved'[q][h] <= hour
    <3> SUFFICES ASSUME NEW q \in Processes, NEW h \in Keys, saved'[q][h] # None
                 PROVE  saved'[q][h] <= hour
      OBVIOUS
    <3>1. CASE q = p /\ h = k
      BY <1>4, <1>9, <3>1
    <3>2. CASE ~(q = p /\ h = k)
      <4>1. saved'[q][h] = saved[q][h]
        BY <1>9, <3>2
      <4> QED
        BY <1>3, <4>1 DEF Timed
    <3> QED
      BY <3>1, <3>2
  <2> QED
    BY <1>2, <1>3, <1>8, <1>9, <2>1, <2>2 DEF Timed
<1>11. ASSUME k \notin disturbed' PROVE Agreed(k)' /\ Claim(p, r, k)'
  <2>1. Agreed(k) /\ table[k] = x.at
    BY <1>1, <1>2, <1>3, <1>6, <1>11 DEF Claim
  <2>2. Agreed(k)'
    <3> SUFFICES ASSUME NEW q \in Processes, saved'[q][k] # None
                 PROVE  /\ table[k] # None /\ table[k] >= saved'[q][k]
                        /\ \A i \in DOMAIN memory'[q] : memory'[q][i].key = k => memory'[q][i].at >= saved'[q][k]
      BY <1>2 DEF Agreed
    <3>1. CASE q = p
      BY <1>4, <1>8, <1>9, <2>1, <3>1
    <3>2. CASE q # p
      BY <1>8, <1>9, <2>1, <3>2 DEF Agreed
    <3> QED
      BY <3>1, <3>2
  <2>3. Claim(p, r, k)'
    BY <1>5, <1>7 DEF Claim, Alone
  <2> QED
    BY <2>2, <2>3
<1>12. \A h \in Keys \ {k} : table'[h] = table[h] /\ \A q \in Processes : saved'[q][h] = saved[q][h]
  BY <1>2, <1>9
<1>13. Disturb(p, r, k) /\ k \in Keys /\ y.key \in {k, None} /\ Alone(p, r, y)
  BY <1>2, <1>3, <1>5, <1>7
<1>14. \A q \in Processes : \A i \in DOMAIN memory'[q] :
         memory'[q][i].key # k => \E j \in DOMAIN memory[q] : memory'[q][i] = memory[q][j]
  BY <1>8
<1> QED
  BY <1>10, <1>11, <1>12, <1>13, <1>14, WritingOverlap

-----------------------------------------------------------------------------
(* The other steps                                                          *)

LEMMA IdleIs ==
  /\ Idle.pc = "idle" /\ Idle.key = None /\ Idle.at = None /\ Idle.floor = None
  /\ None \in MaybeTime /\ "request" \in Roles /\ "worker" \in Roles
BY DEF Idle, MaybeTime, Roles

(* The queue and the worker's own steps. *)
LEMMA QueueOverlap ==
  ASSUME OverlapInv, Shape, NEW p \in Processes,
         \/ Put(p) \/ Take(p) \/ Start(p) \/ Finally(p) \/ \E r \in Roles : GenerateFails(p, r)
  PROVE  OverlapInv'
<1>1. Timed /\ hour \in MaybeTime
  BY DEF OverlapInv, Timed, MaybeTime
<1>2. CASE Put(p)
  <2>1. Goto(p, "request", Idle) /\ UNCHANGED <<hour, memory, table, history, file, saved, disturbed>>
    BY <1>2 DEF Put
  <2> QED
    BY <2>1, IdleIs, RestsOverlap
<1>3. CASE Take(p)
  <2>1. PICK k : /\ Goto(p, "worker", [Idle EXCEPT !.pc = "taken", !.key = k])
                 /\ UNCHANGED <<hour, memory, table, history, file, saved, disturbed>>
    BY <1>3 DEF Take
  <2> DEFINE y == [Idle EXCEPT !.pc = "taken", !.key = k]
  <2>2. y.pc = "taken" /\ y.at = None /\ y.floor = None
    BY DEF Idle
  <2>3. Goto(p, "worker", y)
    BY <2>1
  <2> HIDE DEF y
  <2> QED
    BY <2>1, <2>2, <2>3, IdleIs, RestsOverlap
<1>4. CASE Start(p)
  <2>1. PICK x : /\ x = thread[p]["worker"] /\ x.pc = "taken" /\ Goto(p, "worker", Generate(x))
                 /\ UNCHANGED <<hour, memory, table, history, file, saved, disturbed>>
    BY <1>4 DEF Start
  <2>2. DOMAIN x = ThreadFields /\ x.floor \in MaybeTime
    BY <1>1, <2>1, IdleIs DEF Shape, Timed, Fits
  <2>3. Generate(x).pc = "generating" /\ Generate(x).at = hour /\ Generate(x).floor = x.floor
    BY <2>2 DEF Generate, ThreadFields
  <2> QED
    BY <1>1, <2>1, <2>2, <2>3, IdleIs, RestsOverlap
<1>5. CASE Finally(p)
  <2>1. Goto(p, "worker", Idle) /\ UNCHANGED <<hour, memory, table, history, file, saved, disturbed>>
    BY <1>5 DEF Finally
  <2> QED
    BY <2>1, IdleIs, RestsOverlap
<1>6. ASSUME NEW r \in Roles, GenerateFails(p, r) PROVE OverlapInv'
  <2>1. PICK y : /\ Goto(p, r, y) /\ y = AfterFailure(r, thread[p][r].key)
                 /\ UNCHANGED <<hour, memory, table, history, file, saved, disturbed>>
    BY <1>6 DEF GenerateFails
  <2>2. y.pc \in {"idle", "over"} /\ y.at = None /\ y.floor = None
    BY <2>1 DEF AfterFailure, Idle
  <2> QED
    BY <2>1, <2>2, IdleIs, RestsOverlap
<1> QED
  BY <1>2, <1>3, <1>4, <1>5, <1>6

(* A route starts with the memory, the queue or a generation. *)
LEMMA RequestOverlap ==
  ASSUME OverlapInv, Shape, NEW p \in Processes, NEW op, NEW k \in Keys, Request(p, op, k)
  PROVE  OverlapInv'
<1> DEFINE x == [Idle EXCEPT !.op = op, !.key = k]
<1>1. /\ DOMAIN x = ThreadFields /\ x.pc = "idle" /\ x.key = k /\ x.at = None /\ x.floor = None
      /\ x.op = op
  BY DEF Idle, ThreadFields
<1>2. /\ \/ Enqueue(p, x) /\ UNCHANGED memory
         \/ Goto(p, "request", Generate(x)) /\ UNCHANGED memory
         \/ LoadMemory(p, "request", op, k)
      /\ UNCHANGED <<hour, table, history, file, saved, disturbed>>
  BY DEF Request
<1> HIDE DEF x
<1>3. hour \in MaybeTime
  BY DEF OverlapInv, Timed, MaybeTime
<1>4. CASE Enqueue(p, x) /\ UNCHANGED memory
  <2>1. Goto(p, "request", Idle) \/ Goto(p, "request", [x EXCEPT !.pc = "put"])
    BY <1>4 DEF Enqueue
  <2>2. CASE Goto(p, "request", Idle)
    BY <1>2, <1>4, <2>2, IdleIs, RestsOverlap
  <2>3. CASE Goto(p, "request", [x EXCEPT !.pc = "put"])
    <3> DEFINE y == [x EXCEPT !.pc = "put"]
    <3>1. y.pc = "put" /\ y.at = None /\ y.floor = None
      BY <1>1 DEF ThreadFields
    <3>2. Goto(p, "request", y)
      BY <2>3
    <3> HIDE DEF y
    <3> QED
      BY <1>2, <1>4, <3>1, <3>2, IdleIs, RestsOverlap
  <2> QED
    BY <2>1, <2>2, <2>3
<1>5. CASE Goto(p, "request", Generate(x)) /\ UNCHANGED memory
  <2>1. Generate(x).pc = "generating" /\ Generate(x).at = hour /\ Generate(x).floor = None
    BY <1>1 DEF Generate, ThreadFields
  <2> QED
    BY <1>2, <1>3, <1>5, <2>1, IdleIs, RestsOverlap
<1>6. CASE LoadMemory(p, "request", op, k)
  BY <1>2, <1>6, LoadersAre, LoadOverlap
<1> QED
  BY <1>2, <1>4, <1>5, <1>6

(* The threads of p are lost, and what was pruned is excused. *)
LEMMA RestartOverlap ==
  ASSUME OverlapInv, Shape, NEW p \in Processes, Restart(p)
  PROVE  OverlapInv'
<1>1. PICK P : P = {k \in Keys : Pruned(k)}
  OBVIOUS
<1>2. Timed /\ DOMAIN thread = Processes
  BY DEF OverlapInv, Shape
<1>3. /\ memory' = [memory EXCEPT ![p] = <<>>]
      /\ thread' = [thread EXCEPT ![p] = [r \in Roles |-> Idle]]
      /\ table' = [k \in Keys |-> IF k \in P THEN None ELSE table[k]]
      /\ saved' = [q \in Processes |-> [k \in Keys |-> IF k \in P THEN None ELSE saved[q][k]]]
      /\ disturbed' = disturbed \union P
      /\ UNCHANGED <<hour, history, file>>
  BY <1>1 DEF Restart
<1>4. /\ memory'[p] = <<>> /\ DOMAIN memory' = Processes
      /\ \A q \in Processes \ {p} : memory'[q] = memory[q]
  BY <1>2, <1>3 DEF Timed
<1>5. /\ \A r \in Roles : thread'[p][r] = Idle
      /\ \A q \in Processes \ {p} : thread'[q] = thread[q]
  BY <1>2, <1>3
<1>6. /\ \A k \in Keys \ P : table'[k] = table[k] /\ \A q \in Processes : saved'[q][k] = saved[q][k]
      /\ \A k \in P : \A q \in Processes : saved'[q][k] = None
      /\ table' \in [Keys -> MaybeTime] /\ saved' \in [Processes -> [Keys -> MaybeTime]]
  BY <1>1, <1>2, <1>3 DEF Timed, MaybeTime
<1>7. Timed'
  <2>1. \A q \in Processes : memory'[q] \in Seq(Entry)
    <3>1. memory'[p] \in Seq(Entry)
      BY <1>4
    <3>2. \A q \in Processes \ {p} : memory'[q] \in Seq(Entry)
      BY <1>2, <1>4 DEF Timed
    <3> QED
      BY <3>1, <3>2
  <2>2. \A q \in Processes, k \in Keys : saved'[q][k] # None => saved'[q][k] <= hour
    BY <1>1, <1>2, <1>6 DEF Timed
  <2>3. \A q \in Processes, r \in Roles : Fits(thread'[q][r], hour)
    <3>1. Fits(Idle, hour)
      BY IdleIs DEF Fits
    <3> QED
      BY <1>2, <1>5, <3>1 DEF Timed
  <2> QED
    BY <1>2, <1>3, <1>4, <1>6, <2>1, <2>2, <2>3 DEF Timed
<1>8. ASSUME NEW k \in Keys \ disturbed'
      PROVE  Agreed(k)' /\ \A q \in Processes, r \in Roles : Claim(q, r, k)'
  <2>1. k \in Keys \ disturbed /\ k \notin P /\ Agreed(k)
    BY <1>3, <1>8 DEF OverlapInv
  <2>2. table'[k] = table[k] /\ \A q \in Processes : saved'[q][k] = saved[q][k]
    BY <1>6, <2>1
  <2>3. Agreed(k)'
    <3> SUFFICES ASSUME NEW q \in Processes, saved[q][k] # None
                 PROVE  /\ table[k] # None /\ table[k] >= saved[q][k]
                        /\ \A i \in DOMAIN memory'[q] : memory'[q][i].key = k => memory'[q][i].at >= saved[q][k]
      BY <2>2 DEF Agreed
    <3>1. CASE q = p
      BY <1>4, <2>1, <3>1 DEF Agreed
    <3>2. CASE q # p
      BY <1>4, <2>1, <3>2 DEF Agreed
    <3> QED
      BY <3>1, <3>2
  <2>4. ASSUME NEW q \in Processes, NEW r \in Roles PROVE Claim(q, r, k)'
    <3>1. CASE q = p
      <4>1. thread'[q][r].key = None
        BY <1>5, <3>1, IdleIs
      <4> QED
        BY <4>1, LegacyAssumption DEF Claim
    <3>2. CASE q # p
      <4>1. thread'[q][r] = thread[q][r] /\ Claim(q, r, k)
        BY <1>5, <2>1, <3>2 DEF OverlapInv
      <4> QED
        BY <2>2, <4>1 DEF Claim
    <3> QED
      BY <3>1, <3>2
  <2> QED
    BY <2>3, <2>4
<1> QED
  BY <1>7, <1>8 DEF OverlapInv

(* Time passes, or nothing does of the refresh's state. *)
LEMMA QuietHourOverlap ==
  ASSUME OverlapInv, hour' \in {hour, hour + 1},
         UNCHANGED <<memory, table, history, file, thread, saved, disturbed>>
  PROVE  OverlapInv'
<1>1. Timed /\ hour \in Nat /\ hour' \in Nat /\ hour <= hour'
  BY DEF OverlapInv, Timed
<1>2. \A p \in Processes, k \in Keys : saved[p][k] # None => saved[p][k] <= hour'
  BY <1>1 DEF Timed, MaybeTime
<1>3. ASSUME NEW x, Fits(x, hour) PROVE Fits(x, hour')
  BY <1>1, <1>3 DEF Fits, MaybeTime
<1>4. Timed'
  BY <1>1, <1>2, <1>3 DEF Timed
<1>5. \A k \in Keys : Agreed(k) => Agreed(k)'
  BY DEF Agreed
<1>6. \A k \in Keys, p \in Processes, r \in Roles : Claim(p, r, k) => Claim(p, r, k)'
  BY DEF Claim
<1> QED
  BY <1>4, <1>5, <1>6 DEF OverlapInv

LEMMA OverlapInvInit ==
  ASSUME RefreshInit
  PROVE  OverlapInv
<1>1. /\ hour = 0 /\ memory = [p \in Processes |-> <<>>] /\ table = [k \in Keys |-> None]
      /\ history \in {None, 0} /\ file = None
      /\ thread = [p \in Processes |-> [r \in Roles |-> Idle]]
      /\ saved = [p \in Processes |-> [k \in Keys |-> None]]
  BY DEF RefreshInit
<1>2. Fits(Idle, hour)
  BY IdleIs DEF Fits
<1>3. Timed
  BY <1>1, <1>2 DEF Timed, MaybeTime
<1>4. \A k \in Keys : Agreed(k)
  BY <1>1 DEF Agreed
<1>5. \A k \in Keys, p \in Processes, r \in Roles : Claim(p, r, k)
  BY <1>1, IdleIs, LegacyAssumption DEF Claim
<1> QED
  BY <1>3, <1>4, <1>5 DEF OverlapInv

LEMMA OverlapInvNext ==
  ASSUME RefreshInv, OverlapInv, [RefreshNext]_refreshVars
  PROVE  OverlapInv'
<1>1. Shape /\ Anon \in Keys
  BY LegacyAssumption DEF RefreshInv
<1>2. CASE UNCHANGED refreshVars
  BY <1>2, QuietHourOverlap DEF refreshVars
<1>3. CASE Tick
  BY <1>3, QuietHourOverlap DEF Tick
<1>4. ASSUME NEW p \in Processes, ProcessNext(p, Keys) PROVE OverlapInv'
  <2>1. CASE \E r \in Roles : Steps(p, r)
    <3>1. PICK r \in Roles : Steps(p, r)
      BY <2>1
    <3>5. ASSUME NEW l \in Loaders, LoadSteps(p, l) PROVE OverlapInv'
      BY <1>1, <3>5, QueryOverlap, FoundOverlap, PopOverlap, FallbacksOverlap, MigrateOverlap
         DEF LoadSteps
    <3>2. CASE RequestSteps(p)
      BY <1>1, <3>2, <3>5, LoadersAre, RespondOverlap, QueueOverlap DEF RequestSteps
    <3>6. CASE PollerSteps(p)
      BY <1>1, <3>5, <3>6, LoadersAre, AlertOverlap DEF PollerSteps
    <3>3. CASE WorkerSteps(p)
      BY <1>1, <3>3, QueueOverlap DEF WorkerSteps
    <3>4. CASE GenerateFails(p, r) \/ SaveRow(p, r) \/ Remember(p, r)
      BY <1>1, <3>4, QueueOverlap, SaveRowOverlap, RememberOverlap
    <3> QED
      BY <3>1, <3>2, <3>3, <3>4, <3>6 DEF Steps
  <2>2. CASE \E op \in Ops \ {"poll", "alert"} : \E k \in KeysOf(op) \intersect Keys : Request(p, op, k)
    BY <1>1, <2>2, RequestOverlap
  <2>3. CASE Visit(p) \/ Check(p)
    <3>1. PICK r \in Loaders, op \in Ops :
            /\ LoadMemory(p, r, op, Anon)
            /\ UNCHANGED <<hour, table, history, file, saved, disturbed>>
      BY <2>3, LoadersAre DEF Visit, Poll, Reload, Check, Ops
    <3> QED
      BY <1>1, <3>1, LoadOverlap
  <2>4. CASE Restart(p)
    BY <1>1, <2>4, RestartOverlap
  <2> QED
    BY <1>4, <2>1, <2>2, <2>3, <2>4 DEF ProcessNext
<1> QED
  BY <1>2, <1>3, <1>4 DEF RefreshNext

(* A process answers with a forecast older than one it had saved when the   *)
(* request came only if something of that key was written while another     *)
(* thread was at work on it, or a row could not be written.                 *)
THEOREM OlderOnlyByOverlap == RefreshSpec => []OnlyOverlapShowsOlder
<1>1. RefreshInit => RefreshInv /\ OverlapInv
  BY RefreshInvInit, OverlapInvInit
<1>2. (RefreshInv /\ OverlapInv) /\ [RefreshNext]_refreshVars => (RefreshInv /\ OverlapInv)'
  BY RefreshInvNext, OverlapInvNext
<1>3. RefreshInv /\ OverlapInv => OnlyOverlapShowsOlder
  <2> SUFFICES ASSUME RefreshInv, OverlapInv, NEW p \in Processes, NEW r \in Loaders, NEW x,
                      x = thread[p][r], x.pc = "answer", Older(x.at, x.floor),
                      x.key \notin disturbed
               PROVE  FALSE
    BY DEF OnlyOverlapShowsOlder
  <2>1. r \in Roles /\ Shape
    BY LoadersAre DEF RefreshInv
  <2>2. Claim(p, r, x.key)
    BY <2>1, AtItsKey
  <2> QED
    BY <2>2 DEF Claim
<1> QED
  BY <1>1, <1>2, <1>3, PTL DEF RefreshSpec

-----------------------------------------------------------------------------
(***************************************************************************)
(* LegacyAlerts                                                            *)
(***************************************************************************)

(* What Head, Tail and Append do to a sequence without repetitions.         *)
LEMMA TailOfInjective ==
  ASSUME NEW S, NEW s \in Seq(S), s # <<>>, IsInjective(s)
  PROVE  /\ Head(s) \in S /\ Tail(s) \in Seq(S) /\ IsInjective(Tail(s))
         /\ Head(s) \notin Range(Tail(s))
         /\ Range(s) = {Head(s)} \union Range(Tail(s))
<1>1. /\ Len(s) \in Nat /\ Len(s) >= 1 /\ DOMAIN s = 1..Len(s) /\ Head(s) = s[1] /\ 1 \in DOMAIN s
      /\ Tail(s) \in Seq(S) /\ Len(Tail(s)) = Len(s) - 1 /\ DOMAIN Tail(s) = 1..(Len(s) - 1)
  OBVIOUS
<1>2. \A i \in 1..(Len(s) - 1) : Tail(s)[i] = s[i + 1] /\ i + 1 \in DOMAIN s
  BY <1>1
<1>3. IsInjective(Tail(s))
  BY <1>1, <1>2 DEF IsInjective
<1>4. Head(s) \notin Range(Tail(s))
  BY <1>1, <1>2 DEF IsInjective, Range
<1>5. \A i \in DOMAIN s : i = 1 \/ (i - 1 \in 1..(Len(s) - 1) /\ s[i] = Tail(s)[i - 1])
  BY <1>1, <1>2
<1>6. Range(s) = {Head(s)} \union Range(Tail(s))
  <2>1. ASSUME NEW x \in Range(s) PROVE x \in {Head(s)} \union Range(Tail(s))
    BY ZenonT(30), <1>1, <1>5 DEF Range
  <2>2. ASSUME NEW x \in {Head(s)} \union Range(Tail(s)) PROVE x \in Range(s)
    BY <1>1, <1>2 DEF Range
  <2> QED
    BY <2>1, <2>2
<1> QED
  BY <1>1, <1>3, <1>4, <1>6

LEMMA AppendToInjective ==
  ASSUME NEW S, NEW s \in Seq(S), NEW e \in S, IsInjective(s), e \notin Range(s)
  PROVE  /\ Append(s, e) \in Seq(S) /\ IsInjective(Append(s, e))
         /\ Range(Append(s, e)) = Range(s) \union {e}
<1>1. /\ Len(s) \in Nat /\ DOMAIN s = 1..Len(s) /\ DOMAIN Append(s, e) = 1..(Len(s) + 1)
      /\ Append(s, e)[Len(s) + 1] = e
      /\ \A i \in 1..Len(s) : Append(s, e)[i] = s[i] /\ s[i] \in Range(s)
  BY DEF Range
<1>2. \A i \in 1..(Len(s) + 1) : i \in 1..Len(s) \/ i = Len(s) + 1
  BY <1>1
<1>3. IsInjective(Append(s, e))
  BY <1>1, <1>2 DEF IsInjective
<1>4. Range(Append(s, e)) = Range(s) \union {e}
  <2>1. ASSUME NEW x \in Range(Append(s, e)) PROVE x \in Range(s) \union {e}
    BY <1>1, <1>2 DEF Range
  <2>2. ASSUME NEW x \in Range(s) \union {e} PROVE x \in Range(Append(s, e))
    BY <1>1 DEF Range
  <2> QED
    BY <2>1, <2>2
<1> QED
  BY <1>3, <1>4

Entries == Locations \X Dates

CheckOK(c) ==
  /\ {"pc", "left", "qualifying", "email_ok", "subs", "reached"} \subseteq DOMAIN c
  /\ c.pc \in {"asleep", "scan", "push"} /\ c.subs \subseteq Devices
  /\ c.left \in Seq(STRING) /\ c.qualifying \in Seq(Entries)
  /\ Range(c.left) \subseteq Locations /\ IsInjective(c.left) /\ IsInjective(c.qualifying)
  /\ \A e \in Range(c.qualifying) : e[1] \notin Range(c.left)
  /\ c.reached \subseteq Range(c.qualifying)
  /\ c.pc # "push" => c.reached = {}
  /\ c.pc = "push" /\ c.email_ok => Range(c.qualifying) \subseteq c.reached

(* The pollers that have told the user of e as often as they will, unless a *)
(* telling goes unrecorded.                                                 *)
Settled(c, L, e) == \/ e \in c.reached
                    \/ e \in L /\ e \notin Range(c.qualifying)

Spent(e) == {w \in Pollers : Settled(check[w], log, e)}

Told(e)   == told[e[1]][e[2]]
Lapsed(e) == lapses[e[1]][e[2]]

AlertsInv ==
  /\ today \in Dates /\ log \subseteq Entries
  /\ prefs \subseteq Channels /\ subscriptions \subseteq Devices
  /\ checks \in 0..MaxChecks
  /\ told \in [Locations -> [Dates -> Nat]] /\ lapses \in [Locations -> [Dates -> Nat]]
  /\ DOMAIN check = Pollers /\ \A w \in Pollers : CheckOK(check[w])
  /\ \A e \in Entries :
       /\ Told(e) <= Lapsed(e) + Cardinality(Spent(e))
       /\ e \in log => Told(e) > 0
       /\ \A w \in Pollers : e \in check[w].reached => Told(e) > 0

(* Nothing but a poller's own step, which may add to the log, takes it out  *)
(* of or into the Spent of an entry.                                        *)
LEMMA CountStep ==
  ASSUME AlertsInv, NEW w \in Pollers, NEW e \in Entries,
         \A u \in Pollers \ {w} : check'[u] = check[u],
         e \in log => e \in log',
         Told(e)' \in Nat, Lapsed(e)' \in Nat,
         Told(e)' + Lapsed(e) + (IF w \in Spent(e) THEN 1 ELSE 0)
           <= Told(e) + Lapsed(e)' + (IF w \in Spent(e)' THEN 1 ELSE 0)
  PROVE  Told(e)' <= Lapsed(e)' + Cardinality(Spent(e)')
<1>1. IsFiniteSet(Spent(e)) /\ IsFiniteSet(Spent(e)')
  BY FS_Subset, AlertsAssumption DEF Spent
<1>2. Spent(e) \ {w} \subseteq Spent(e)'
  BY DEF Spent, Settled
<1>3. /\ Cardinality(Spent(e)) \in Nat /\ Cardinality(Spent(e)') \in Nat
      /\ Cardinality(Spent(e) \ {w}) \in Nat /\ Cardinality(Spent(e)' \ {w}) \in Nat
      /\ IsFiniteSet(Spent(e)' \ {w})
  BY <1>1, FS_CardinalityType, FS_RemoveElement
<1>4. Cardinality(Spent(e)) = Cardinality(Spent(e) \ {w}) + IF w \in Spent(e) THEN 1 ELSE 0
  <2>1. Cardinality(Spent(e) \ {w}) = IF w \in Spent(e) THEN Cardinality(Spent(e)) - 1
                                                        ELSE Cardinality(Spent(e))
    BY <1>1, FS_RemoveElement
  <2> QED
    BY <1>3, <2>1
<1>5. Cardinality(Spent(e)') = Cardinality(Spent(e)' \ {w}) + IF w \in Spent(e)' THEN 1 ELSE 0
  BY <1>1, <1>3, FS_RemoveElement
<1>6. Cardinality(Spent(e) \ {w}) <= Cardinality(Spent(e)' \ {w})
  <2>1. Spent(e) \ {w} \subseteq Spent(e)' \ {w}
    BY <1>2
  <2> QED
    BY <2>1, <1>3, FS_Subset
<1>7. Told(e) \in Nat /\ Lapsed(e) \in Nat
  BY DEF AlertsInv, Told, Lapsed, Entries
<1>8. Told(e) <= Lapsed(e) + Cardinality(Spent(e))
  BY DEF AlertsInv
<1> DEFINE a == IF w \in Spent(e) THEN 1 ELSE 0
           b == IF w \in Spent(e)' THEN 1 ELSE 0
<1>9. /\ a \in Nat /\ b \in Nat /\ Told(e)' + Lapsed(e) + a <= Told(e) + Lapsed(e)' + b
      /\ Cardinality(Spent(e)) = Cardinality(Spent(e) \ {w}) + a
      /\ Cardinality(Spent(e)') = Cardinality(Spent(e)' \ {w}) + b
  BY <1>4, <1>5
<1> HIDE DEF a, b
<1> QED
  BY <1>3, <1>6, <1>7, <1>8, <1>9

LEMMA NoCheckOK == CheckOK(NoCheck) /\ Range(NoCheck.qualifying) = {}
BY DEF NoCheck, CheckOK, IsInjective, Range

Accounted(w, c, e) ==
  /\ Told(e)' + Lapsed(e) + (IF w \in Spent(e) THEN 1 ELSE 0)
       <= Told(e) + Lapsed(e)' + (IF Settled(c, log', e) THEN 1 ELSE 0)
  /\ Told(e)' >= Told(e)
  /\ e \in log' \/ e \in c.reached => Told(e)' > 0

LEMMA AlertsStep ==
  ASSUME AlertsInv, NEW w \in Pollers, NEW c, CheckOK(c), Set(w, c),
         UNCHANGED <<today, prefs>>, log \subseteq log', log' \subseteq Entries,
         subscriptions' \subseteq Devices, checks' \in 0..MaxChecks,
         told' \in [Locations -> [Dates -> Nat]], lapses' \in [Locations -> [Dates -> Nat]],
         \A e \in Entries : Accounted(w, c, e)
  PROVE  AlertsInv'
<1> DEFINE k == check'[w]
<1>1. /\ DOMAIN check' = Pollers /\ \A u \in Pollers \ {w} : check'[u] = check[u]
      /\ k = IF c.left = <<>> /\ c.qualifying = <<>> THEN NoCheck ELSE c
  BY DEF Set, AlertsInv
<1>2. CheckOK(k) /\ Range(k.qualifying) = Range(c.qualifying) /\ k.reached = c.reached
  <2>1. CASE c.left = <<>> /\ c.qualifying = <<>>
    <3>1. Range(c.qualifying) = {} /\ c.reached = {} /\ NoCheck.reached = {}
      BY <2>1 DEF CheckOK, Range, NoCheck
    <3> QED
      BY <1>1, <2>1, <3>1, NoCheckOK
  <2>2. CASE ~(c.left = <<>> /\ c.qualifying = <<>>)
    BY <1>1, <2>2
  <2> QED
    BY <2>1, <2>2
<1>3. ASSUME NEW e \in Entries
      PROVE  /\ Told(e)' <= Lapsed(e)' + Cardinality(Spent(e)')
             /\ e \in log' => Told(e)' > 0
             /\ \A u \in Pollers : e \in check'[u].reached => Told(e)' > 0
  <2>1. w \in Spent(e)' <=> Settled(c, log', e)
    BY <1>2 DEF Spent, Settled
  <2>2. Told(e)' \in Nat /\ Lapsed(e)' \in Nat
    BY DEF Told, Lapsed, Entries
  <2>3. Told(e)' + Lapsed(e) + (IF w \in Spent(e) THEN 1 ELSE 0)
          <= Told(e) + Lapsed(e)' + (IF w \in Spent(e)' THEN 1 ELSE 0)
    BY <2>1 DEF Accounted
  <2>4. Told(e)' <= Lapsed(e)' + Cardinality(Spent(e)')
    BY <1>1, <2>2, <2>3, CountStep
  <2>5. ASSUME NEW u \in Pollers, e \in check'[u].reached PROVE Told(e)' > 0
    <3>1. Told(e) \in Nat /\ Told(e)' >= Told(e)
      BY DEF AlertsInv, Told, Entries, Accounted
    <3>2. u # w => Told(e) > 0
      BY <1>1, <2>5 DEF AlertsInv
    <3>3. u = w => Told(e)' > 0
      BY <1>2, <2>5 DEF Accounted
    <3> QED
      BY <2>2, <3>1, <3>2, <3>3
  <2> QED
    BY <2>4, <2>5 DEF Accounted
<1>4. \A u \in Pollers : CheckOK(check[u])'
  BY ZenonT(30), <1>1, <1>2 DEF AlertsInv, CheckOK
<1> QED
  BY <1>1, <1>3, <1>4 DEF AlertsInv

LEMMA TellEffect ==
  ASSUME AlertsInv, NEW c, NEW S, Tell(c, S)
  PROVE  /\ told' \in [Locations -> [Dates -> Nat]]
         /\ \A e \in Entries : /\ Told(e)' = Told(e) + IF e \in S \ c.reached THEN 1 ELSE 0
                               /\ Told(e) \in Nat
<1>1. \A e \in Entries : e[1] \in Locations /\ e[2] \in Dates /\ e = <<e[1], e[2]>>
  BY DEF Entries
<1>2. \A l \in Locations, d \in Dates : told[l][d] \in Nat
  BY DEF AlertsInv
<1> QED
  BY <1>1, <1>2 DEF Tell, Told

LEMMA UnrecordedEffect ==
  ASSUME AlertsInv, NEW S, Unrecorded(S)
  PROVE  /\ lapses' \in [Locations -> [Dates -> Nat]]
         /\ \A e \in Entries : /\ Lapsed(e)' = Lapsed(e) + IF e \in S THEN 1 ELSE 0
                               /\ Lapsed(e) \in Nat
<1>1. \A e \in Entries : e[1] \in Locations /\ e[2] \in Dates /\ e = <<e[1], e[2]>>
  BY DEF Entries
<1>2. \A l \in Locations, d \in Dates : lapses[l][d] \in Nat
  BY DEF AlertsInv
<1> QED
  BY <1>1, <1>2 DEF Unrecorded, Lapsed

LEMMA CountsStay ==
  ASSUME AlertsInv, NEW e \in Entries
  PROVE  /\ Told(e) \in Nat /\ Lapsed(e) \in Nat
         /\ UNCHANGED told => Told(e)' = Told(e)
         /\ UNCHANGED lapses => Lapsed(e)' = Lapsed(e)
BY DEF AlertsInv, Told, Lapsed, Entries

LEMMA AlertsInvInit == AlertsInit => AlertsInv
<1> SUFFICES ASSUME AlertsInit PROVE AlertsInv
  OBVIOUS
<1>1. \A w \in Pollers : CheckOK(check[w]) /\ check[w].reached = {}
  BY NoCheckOK DEF AlertsInit, NoCheck
<1>2. /\ today \in Dates /\ log = {} /\ prefs \subseteq Channels /\ subscriptions \subseteq Devices
      /\ checks \in 0..MaxChecks /\ DOMAIN check = Pollers
      /\ told \in [Locations -> [Dates -> Nat]] /\ lapses \in [Locations -> [Dates -> Nat]]
  BY AlertsAssumption DEF AlertsInit, Dates, Channels
<1>3. ASSUME NEW e \in Entries PROVE Told(e) <= Lapsed(e) + Cardinality(Spent(e))
  <2>1. Told(e) = 0 /\ Lapsed(e) = 0
    BY DEF AlertsInit, Told, Lapsed, Entries
  <2>2. Cardinality(Spent(e)) \in Nat
    BY FS_Subset, FS_CardinalityType, AlertsAssumption DEF Spent
  <2> QED
    BY <2>1, <2>2
<1> QED
  BY <1>1, <1>2, <1>3 DEF AlertsInv

(* The steps that tell nobody and record nothing.                           *)
LEMMA AlertsStepQuiet ==
  ASSUME AlertsInv, NEW w \in Pollers, NEW c, CheckOK(c), Set(w, c),
         UNCHANGED <<today, log, prefs, subscriptions, told, lapses>>, checks' \in 0..MaxChecks,
         check[w].reached = {}, c.reached = {},
         \A e \in Range(c.qualifying) : e \in log => e \in Range(check[w].qualifying)
  PROVE  AlertsInv'
<1>1. ASSUME NEW e \in Entries PROVE Accounted(w, c, e)
  <2>1. Told(e)' = Told(e) /\ Lapsed(e)' = Lapsed(e) /\ Told(e) \in Nat /\ Lapsed(e) \in Nat
    BY CountsStay
  <2>2. w \in Spent(e) => Settled(c, log', e)
    BY DEF Spent, Settled
  <2>3. e \in log' => Told(e)' > 0
    BY <2>1 DEF AlertsInv
  <2> QED
    BY <2>1, <2>2, <2>3 DEF Accounted
<1> QED
  BY <1>1, AlertsStep DEF AlertsInv

LEMMA WakeUpOK == ASSUME AlertsInv, NEW w \in Pollers, WakeUp(w) PROVE AlertsInv'
<1> DEFINE c == [NoCheck EXCEPT !.pc = "scan", !.left = Spots]
<1>1. /\ CheckOK(c) /\ Range(c.qualifying) = {} /\ c.reached = {}
  <2>1. /\ c.pc = "scan" /\ c.left = Spots /\ c.qualifying = <<>> /\ c.subs = {} /\ c.reached = {}
        /\ {"pc", "left", "qualifying", "email_ok", "subs", "reached"} \subseteq DOMAIN c
    BY DEF NoCheck
  <2>2. <<>> \in Seq(Entries) /\ Range(<<>>) = {} /\ IsInjective(<<>>)
    BY DEF Range, IsInjective
  <2> HIDE DEF c
  <2> QED
    BY <2>1, <2>2, AlertsAssumption DEF CheckOK, Locations
<1>2. Set(w, c) /\ UNCHANGED <<today, log, prefs, subscriptions, told, lapses>>
  BY DEF WakeUp
<1>3. checks' \in 0..MaxChecks
  BY AlertsAssumption DEF WakeUp, AlertsInv
<1>4. check[w].reached = {}
  BY DEF WakeUp, AlertsInv, CheckOK
<1> HIDE DEF c
<1> QED
  BY <1>1, <1>2, <1>3, <1>4, AlertsStepQuiet

LEMMA LookOK == ASSUME AlertsInv, NEW w \in Pollers, Look(w) PROVE AlertsInv'
<1> DEFINE c == check[w]
           l == Head(c.left)
<1>1. /\ CheckOK(c) /\ c.pc = "scan" /\ c.left # <<>> /\ c.reached = {}
      /\ UNCHANGED <<today, log, prefs, subscriptions, checks, told, lapses>>
  BY DEF Look, AlertsInv, CheckOK
<1>2. PICK qualifies \in BOOLEAN :
        Set(w, [c EXCEPT !.left = Tail(@),
                         !.qualifying = IF qualifies /\ ~was_notified(l, today)
                                        THEN Append(@, <<l, today>>) ELSE @])
  BY DEF Look
<1> DEFINE q == IF qualifies /\ ~was_notified(l, today) THEN Append(c.qualifying, <<l, today>>)
                ELSE c.qualifying
           k == [c EXCEPT !.left = Tail(@), !.qualifying = q]
<1>3. /\ Tail(c.left) \in Seq(STRING) /\ IsInjective(Tail(c.left))
      /\ Range(c.left) = {l} \union Range(Tail(c.left)) /\ l \notin Range(Tail(c.left))
      /\ l \in Locations
  BY <1>1, TailOfInjective DEF CheckOK
<1>4. <<l, today>> \in Entries /\ <<l, today>> \notin Range(c.qualifying)
  BY <1>1, <1>3 DEF Entries, AlertsInv, CheckOK
<1>5. /\ q \in Seq(Entries) /\ IsInjective(q)
      /\ \/ Range(q) = Range(c.qualifying)
         \/ Range(q) = Range(c.qualifying) \union {<<l, today>>} /\ <<l, today>> \notin log
  <2>1. c.qualifying \in Seq(Entries) /\ IsInjective(c.qualifying)
    BY <1>1 DEF CheckOK
  <2>2. CASE qualifies /\ ~was_notified(l, today)
    BY <1>4, <2>1, <2>2, AppendToInjective DEF was_notified
  <2>3. CASE ~(qualifies /\ ~was_notified(l, today))
    BY <2>1, <2>3
  <2> QED
    BY <2>2, <2>3
<1>6. /\ k.left = Tail(c.left) /\ k.qualifying = q /\ k.reached = {} /\ k.pc = "scan"
      /\ k.subs = c.subs /\ k.email_ok = c.email_ok /\ DOMAIN k = DOMAIN c
  BY <1>1, <1>3, <1>5 DEF CheckOK
<1>7. Set(w, k)
  BY <1>2
<1> HIDE DEF q, k
<1>8. CheckOK(k)
  <2>1. \A e \in Range(q) : e[1] \notin Range(Tail(c.left))
    BY <1>1, <1>3, <1>5 DEF CheckOK
  <2> QED
    BY <1>1, <1>3, <1>5, <1>6, <2>1 DEF CheckOK
<1> QED
  BY <1>1, <1>5, <1>6, <1>7, <1>8, AlertsStepQuiet DEF AlertsInv

LEMMA EmailOK == ASSUME AlertsInv, NEW w \in Pollers, Email(w) PROVE AlertsInv'
<1> DEFINE c == check[w]
<1>1. /\ CheckOK(c) /\ c.pc = "scan" /\ c.reached = {}
      /\ UNCHANGED <<today, log, prefs, subscriptions, checks, lapses>>
  BY DEF Email, AlertsInv, CheckOK
<1>2. PICK arrives \in BOOLEAN, email_ok \in BOOLEAN :
        /\ email_ok => arrives
        /\ Tell(c, IF arrives THEN Range(c.qualifying) ELSE {})
        /\ Set(w, [c EXCEPT !.pc = "push", !.email_ok = email_ok,
                            !.reached = IF arrives THEN Range(c.qualifying) ELSE {},
                            !.subs = IF "push" \in prefs THEN subscriptions ELSE {}])
  BY DEF Email
<1> DEFINE R == IF arrives THEN Range(c.qualifying) ELSE {}
           k == [c EXCEPT !.pc = "push", !.email_ok = email_ok, !.reached = R,
                          !.subs = IF "push" \in prefs THEN subscriptions ELSE {}]
<1>3. /\ R \subseteq Range(c.qualifying) /\ R \subseteq Entries
      /\ email_ok => R = Range(c.qualifying)
  BY <1>1, <1>2 DEF CheckOK, Range
<1>4. Set(w, k) /\ Tell(c, R)
  BY <1>2
<1> HIDE DEF R
<1>5. /\ k.left = c.left /\ k.qualifying = c.qualifying /\ k.reached = R /\ k.pc = "push"
      /\ k.email_ok = email_ok
      /\ k.subs \subseteq Devices /\ DOMAIN k = DOMAIN c
  BY <1>1, <1>3 DEF CheckOK, AlertsInv
<1> HIDE DEF k
<1>6. CheckOK(k)
  <2>1. k.email_ok => Range(k.qualifying) \subseteq k.reached
    BY <1>3, <1>5, Zenon
  <2> QED
    BY <1>1, <1>3, <1>5, <2>1 DEF CheckOK
<1>7. ASSUME NEW e \in Entries PROVE Accounted(w, k, e)
  <2>1. /\ Told(e)' = Told(e) + IF e \in R THEN 1 ELSE 0
        /\ Told(e) \in Nat /\ Lapsed(e) \in Nat /\ Lapsed(e)' = Lapsed(e)
    BY <1>1, <1>4, TellEffect, CountsStay
  <2>2. e \in log => Told(e) > 0
    BY DEF AlertsInv
  <2>3. w \in Spent(e) <=> e \in log /\ e \notin Range(c.qualifying)
    BY <1>1 DEF Spent, Settled
  <2>4. CASE e \in R
    <3>1. Settled(k, log', e) /\ w \notin Spent(e) /\ Told(e)' = Told(e) + 1
      BY <1>3, <1>5, <2>1, <2>3, <2>4 DEF Settled
    <3> QED
      BY <2>1, <3>1 DEF Accounted
  <2>5. CASE e \notin R
    <3>1. Told(e)' = Told(e) /\ e \notin k.reached
      BY <1>5, <2>1, <2>5
    <3>2. w \in Spent(e) => Settled(k, log', e)
      BY <1>1, <1>5, <2>3 DEF Settled
    <3> QED
      BY <1>1, <2>1, <2>2, <3>1, <3>2 DEF Accounted
  <2> QED
    BY <2>4, <2>5
<1>8. told' \in [Locations -> [Dates -> Nat]]
  BY <1>4, TellEffect
<1> QED
  BY <1>1, <1>4, <1>6, <1>7, <1>8, AlertsStep DEF AlertsInv

(* A check ends with what it has told and not recorded.                     *)
LEMMA LapseOK ==
  ASSUME AlertsInv, NEW w \in Pollers, NEW R, check[w].reached \subseteq R, R \subseteq Entries,
         Tell(check[w], R), Unrecorded(R), Set(w, NoCheck),
         subscriptions' \subseteq Devices, UNCHANGED <<today, prefs, checks, log>>
  PROVE  AlertsInv'
<1> DEFINE c == check[w]
<1>1. CheckOK(NoCheck) /\ Range(NoCheck.qualifying) = {} /\ NoCheck.reached = {}
  BY NoCheckOK DEF NoCheck
<1>2. ASSUME NEW e \in Entries PROVE Accounted(w, NoCheck, e)
  <2>1. /\ Told(e)' = Told(e) + IF e \in R \ c.reached THEN 1 ELSE 0
        /\ Lapsed(e)' = Lapsed(e) + IF e \in R THEN 1 ELSE 0
        /\ Told(e) \in Nat /\ Lapsed(e) \in Nat
    BY TellEffect, UnrecordedEffect
  <2>2. e \in log => Told(e) > 0
    BY DEF AlertsInv
  <2>3. w \in Spent(e) => e \in c.reached \/ Settled(NoCheck, log', e)
    BY <1>1 DEF Spent, Settled
  <2>4. CASE e \in c.reached
    <3>1. Told(e)' = Told(e) /\ Lapsed(e)' = Lapsed(e) + 1
      BY <2>1, <2>4
    <3> QED
      BY <1>1, <2>1, <2>2, <3>1 DEF Accounted
  <2>5. CASE e \notin c.reached
    <3>1. Told(e)' + Lapsed(e) = Told(e) + Lapsed(e)' /\ Told(e)' >= Told(e)
      BY <2>1, <2>5
    <3> QED
      BY <1>1, <2>1, <2>2, <2>3, <2>5, <3>1 DEF Accounted
  <2> QED
    BY <2>4, <2>5
<1>3. told' \in [Locations -> [Dates -> Nat]] /\ lapses' \in [Locations -> [Dates -> Nat]]
  BY TellEffect, UnrecordedEffect
<1> QED
  BY <1>1, <1>2, <1>3, AlertsStep DEF AlertsInv

LEMMA CrashOK == ASSUME AlertsInv, NEW w \in Pollers, Crash(w) PROVE AlertsInv'
<1> DEFINE c == check[w]
<1>1. /\ Unrecorded(c.reached) /\ Set(w, NoCheck) /\ CheckOK(c)
      /\ UNCHANGED <<today, log, prefs, subscriptions, checks, told>>
  BY DEF Crash, AlertsInv
<1>2. Tell(c, c.reached)
  <2>1. \A l \in Locations, d \in Dates : told[l][d] = told[l][d] + 0
    BY DEF AlertsInv
  <2>2. told = [l \in Locations |-> [d \in Dates |-> told[l][d] + 0]]
    BY <2>1 DEF AlertsInv
  <2> QED
    BY <1>1, <2>2 DEF Tell
<1>3. c.reached \subseteq Entries
  BY <1>1 DEF CheckOK, Range
<1> QED
  BY <1>1, <1>2, <1>3, LapseOK DEF AlertsInv

LEMMA PushOK == ASSUME AlertsInv, NEW w \in Pollers, Push(w) PROVE AlertsInv'
<1> DEFINE c == check[w]
           e0 == Head(c.qualifying)
<1>1. /\ CheckOK(c) /\ c.pc = "push" /\ c.qualifying # <<>>
      /\ UNCHANGED <<today, prefs, checks>>
  BY DEF Push, AlertsInv
<1>2. PICK arrives \in SUBSET c.subs, ok \in SUBSET c.subs, gone \in SUBSET c.subs :
        ok \subseteq arrives /\
        LET reached == c.reached \union IF arrives # {} THEN {e0} ELSE {}
        IN /\ Tell(c, reached)
           /\ subscriptions' = subscriptions \ gone
           /\ \/ /\ log' = IF IsRecorded(c, ok) THEN log \union {e0} ELSE log
                 /\ Unrecorded(IF IsRecorded(c, ok) THEN {} ELSE reached \intersect {e0})
                 /\ Set(w, [c EXCEPT !.qualifying = Tail(@), !.reached = reached \ {e0}])
              \/ Unrecorded(reached) /\ Set(w, NoCheck) /\ UNCHANGED log
  BY DEF Push
<1> DEFINE R == c.reached \union IF arrives # {} THEN {e0} ELSE {}
           k == [c EXCEPT !.qualifying = Tail(@), !.reached = R \ {e0}]
<1>3. /\ e0 \in Entries /\ Tail(c.qualifying) \in Seq(Entries) /\ IsInjective(Tail(c.qualifying))
      /\ Range(c.qualifying) = {e0} \union Range(Tail(c.qualifying))
      /\ e0 \notin Range(Tail(c.qualifying))
  BY <1>1, TailOfInjective DEF CheckOK
<1>4. /\ c.reached \subseteq R /\ R \subseteq Range(c.qualifying) /\ R \subseteq Entries
      /\ c.email_ok \/ ok # {} => e0 \in R
  <2>1. R \subseteq Range(c.qualifying) /\ Range(c.qualifying) \subseteq Entries
    BY <1>1, <1>3 DEF CheckOK, Range
  <2>2. c.email_ok => e0 \in c.reached
    BY <1>1, <1>3 DEF CheckOK
  <2>3. ok # {} => arrives # {}
    BY <1>2
  <2> QED
    BY <2>1, <2>2, <2>3
<1>5. Tell(c, R) /\ subscriptions' \subseteq Devices
  BY <1>2 DEF AlertsInv
<1>6. told' \in [Locations -> [Dates -> Nat]]
  BY <1>5, TellEffect
<1>7. CASE Unrecorded(R) /\ Set(w, NoCheck) /\ UNCHANGED log
  BY <1>1, <1>4, <1>5, <1>7, LapseOK
<1>8. ASSUME NEW recorded \in BOOLEAN, recorded => e0 \in R,
             log' = IF recorded THEN log \union {e0} ELSE log,
             Unrecorded(IF recorded THEN {} ELSE R \intersect {e0}), Set(w, k)
      PROVE  AlertsInv'
  <2> HIDE DEF R
  <2>1. /\ k.left = c.left /\ k.qualifying = Tail(c.qualifying) /\ k.reached = R \ {e0}
        /\ k.pc = "push" /\ k.email_ok = c.email_ok /\ k.subs = c.subs /\ DOMAIN k = DOMAIN c
    BY <1>1 DEF CheckOK
  <2> HIDE DEF k
  <2>2. k.email_ok => Range(k.qualifying) \subseteq k.reached
    BY <1>1, <1>3, <1>4, <2>1 DEF CheckOK
  <2>3. CheckOK(k)
    BY <1>1, <1>3, <1>4, <2>1, <2>2 DEF CheckOK
  <2>4. ASSUME NEW e \in Entries PROVE Accounted(w, k, e)
    <3>1. /\ Told(e)' = Told(e) + IF e \in R \ c.reached THEN 1 ELSE 0
          /\ Lapsed(e)' = Lapsed(e) + IF e \in (IF recorded THEN {} ELSE R \intersect {e0})
                                     THEN 1 ELSE 0
          /\ Told(e) \in Nat /\ Lapsed(e) \in Nat
      BY <1>5, <1>8, TellEffect, UnrecordedEffect
    <3>2. /\ e \in log => Told(e) > 0
          /\ e \in c.reached => Told(e) > 0
      BY DEF AlertsInv
    <3>3. w \in Spent(e) <=> Settled(c, log, e)
      BY DEF Spent
    <3>4. e \in R => Told(e)' > 0
      BY <3>1, <3>2
    <3>5. CASE e # e0
      <4>1. (e \in log' <=> e \in log) /\ (e \in R <=> e \in c.reached)
        BY <1>8, <3>5 DEF R
      <4>2. Told(e)' = Told(e) /\ Lapsed(e)' = Lapsed(e)
        BY <3>1, <3>5, <4>1
      <4>3. Settled(c, log, e) => Settled(k, log', e)
        BY <1>3, <2>1, <3>5, <4>1 DEF Settled
      <4> QED
        BY <2>1, <3>1, <3>2, <3>3, <4>1, <4>2, <4>3 DEF Accounted
    <3>6. CASE e = e0 /\ recorded
      <4>1. e \in R /\ Settled(k, log', e) /\ Lapsed(e)' = Lapsed(e)
        BY <1>3, <1>8, <2>1, <3>1, <3>6 DEF Settled
      <4>2. e \notin c.reached => ~Settled(c, log, e)
        BY <1>3, <3>6 DEF Settled
      <4>3. Told(e)' = Told(e) + (IF e \in c.reached THEN 0 ELSE 1)
        BY <3>1, <4>1
      <4> QED
        BY <3>1, <3>3, <3>4, <4>1, <4>2, <4>3 DEF Accounted
    <3>7. CASE e = e0 /\ ~recorded
      <4>1. (e \in log' <=> e \in log) /\ e \notin k.reached
        BY <1>8, <2>1, <3>7
      <4>2. e \notin c.reached => ~Settled(c, log, e)
        BY <1>3, <3>7 DEF Settled
      <4>3. CASE e \in R
        <5>1. Lapsed(e)' = Lapsed(e) + 1
          BY <3>1, <3>7, <4>3
        <5>2. Told(e)' = Told(e) + (IF e \in c.reached THEN 0 ELSE 1)
          BY <3>1, <4>3
        <5> QED
          BY <3>1, <3>3, <3>4, <4>1, <4>2, <4>3, <5>1, <5>2 DEF Accounted
      <4>4. CASE e \notin R
        <5>1. Lapsed(e)' = Lapsed(e) /\ Told(e)' = Told(e)
          BY <3>1, <3>7, <4>4
        <5> QED
          BY <1>4, <3>1, <3>2, <3>3, <4>1, <4>2, <4>4, <5>1 DEF Accounted
      <4> QED
        BY <4>3, <4>4
    <3> QED
      BY <3>5, <3>6, <3>7
  <2>5. lapses' \in [Locations -> [Dates -> Nat]]
    BY <1>8, UnrecordedEffect
  <2>6. log \subseteq log' /\ log' \subseteq Entries
    BY <1>3, <1>8 DEF AlertsInv
  <2> QED
    BY <1>1, <1>5, <1>6, <1>8, <2>3, <2>4, <2>5, <2>6, AlertsStep DEF AlertsInv
<1>9. CASE /\ log' = IF IsRecorded(c, ok) THEN log \union {e0} ELSE log
           /\ Unrecorded(IF IsRecorded(c, ok) THEN {} ELSE R \intersect {e0})
           /\ Set(w, k)
  <2>1. IsRecorded(c, ok) => e0 \in R
    BY <1>4 DEF IsRecorded
  <2>2. CASE IsRecorded(c, ok)
    BY <1>8, <1>9, <2>1, <2>2
  <2>3. CASE ~IsRecorded(c, ok)
    BY <1>8, <1>9, <2>3
  <2> QED
    BY <2>2, <2>3
<1> QED
  BY <1>2, <1>7, <1>9

LEMMA AlertsInvNext == AlertsInv /\ [AlertsNext]_alertVars => AlertsInv'
<1> SUFFICES ASSUME AlertsInv, [AlertsNext]_alertVars PROVE AlertsInv'
  OBVIOUS
<1>1. ASSUME UNCHANGED <<log, prefs, subscriptions, check, checks, told, lapses>>,
             today' \in Dates
      PROVE  AlertsInv'
  <2>1. \A e \in Entries : /\ Told(e)' = Told(e) /\ Lapsed(e)' = Lapsed(e)
                          /\ Spent(e)' = Spent(e)
    BY <1>1 DEF Told, Lapsed, Spent, Settled
  <2> QED
    BY <1>1, <2>1 DEF AlertsInv, CheckOK
<1>2. CASE Midnight
  BY <1>1, <1>2, AlertsAssumption DEF Midnight, AlertsInv, Dates
<1>3. CASE UNCHANGED alertVars
  BY <1>1, <1>3 DEF alertVars, AlertsInv
<1> QED
  BY <1>2, <1>3, WakeUpOK, LookOK, EmailOK, PushOK, CrashOK DEF AlertsNext

(* A user is told of a location for a date at most once by each poller,    *)
(* and once more for each check that told and could not record it; what    *)
(* the log holds was told (services/notifications.py:480), wherever one    *)
(* crashes.                                                                *)
THEOREM AlertsMatchLog == AlertsSpec => []AlertsMatchTheLog
<1>1. AlertsInv => AlertsMatchTheLog
  <2> SUFFICES ASSUME AlertsInv, NEW l \in Locations, NEW d \in Dates
               PROVE  /\ told[l][d] <= Cardinality(Pollers) + lapses[l][d]
                      /\ <<l, d>> \in log => told[l][d] > 0
    BY DEF AlertsMatchTheLog
  <2> DEFINE e == <<l, d>>
  <2>1. e \in Entries /\ Told(e) = told[l][d] /\ Lapsed(e) = lapses[l][d] /\ Lapsed(e) \in Nat
    BY CountsStay DEF Entries, Told, Lapsed
  <2>2. Cardinality(Spent(e)) <= Cardinality(Pollers) /\ Cardinality(Spent(e)) \in Nat
        /\ Cardinality(Pollers) \in Nat
    <3>1. Spent(e) \subseteq Pollers
      BY DEF Spent
    <3> QED
      BY <3>1, FS_Subset, FS_CardinalityType, AlertsAssumption
  <2> HIDE DEF e
  <2>3. Told(e) <= Lapsed(e) + Cardinality(Spent(e)) /\ (e \in log => Told(e) > 0)
        /\ Told(e) \in Nat
    BY <2>1, CountsStay DEF AlertsInv
  <2> QED
    BY <2>1, <2>2, <2>3 DEF e
<1> QED
  BY <1>1, AlertsInvInit, AlertsInvNext, PTL DEF AlertsSpec

(* The checks of the pollers, the log and what was told keep their types   *)
(* (services/notifications.py).                                            *)
THEOREM AlertsTypes == AlertsSpec => []AlertsTypeOK
<1>1. AlertsInv => AlertsTypeOK
  BY DEF AlertsInv, AlertsTypeOK, CheckOK, Entries, Range
<1> QED
  BY <1>1, AlertsInvInit, AlertsInvNext, PTL DEF AlertsSpec

-----------------------------------------------------------------------------
(***************************************************************************)
(* LegacyAccounts                                                          *)
(***************************************************************************)

(* What a process has cached of the user was true then: a version that is   *)
(* no longer the user's was cached no later than the last login or change   *)
(* of password.                                                             *)
VersionInv ==
  /\ moment \in Nat /\ bumped \in Nat /\ bumped <= moment
  /\ version \in Nat
  /\ DOMAIN user_cache = Workers
  /\ \A w \in Workers : user_cache[w] # Nil =>
       /\ user_cache[w].at \in Nat /\ user_cache[w].at <= moment
       /\ user_cache[w].version # version => user_cache[w].at <= bumped

(* The steps that leave version and bumped alone; an entry is kept, is      *)
(* dropped or is the version there is.                                      *)
LEMMA CachedAfterwards ==
  ASSUME VersionInv, UNCHANGED <<moment, version, bumped>>,
         NEW v \in Workers,
         \/ user_cache' = user_cache
         \/ user_cache' = [user_cache EXCEPT ![v] = Nil]
         \/ user_cache' = [user_cache EXCEPT ![v] = [at |-> moment, version |-> version]]
  PROVE  VersionInv'
BY DEF VersionInv

LEMMA VersionInvInit == AccountsInit => VersionInv
BY AccountsAssumption DEF AccountsInit, VersionInv

LEMMA VersionInvNext == VersionInv /\ [AccountsNext]_accountVars => VersionInv'
<1> SUFFICES ASSUME VersionInv, [AccountsNext]_accountVars PROVE VersionInv'
  OBVIOUS
<1>1. CASE UNCHANGED accountVars
  BY <1>1 DEF accountVars, VersionInv
<1>2. CASE Pass
  BY <1>2 DEF Pass, VersionInv
<1>3. ASSUME NEW w \in Workers, WorkerStep(w, Browsers, SessionOps \union PrefsOps)
      PROVE  VersionInv'
  <2>1. ASSUME NEW b \in Browsers, NEW op, Receive(w, b, op) PROVE VersionInv'
    BY <2>1, CachedAfterwards DEF Receive
  <2>2. CASE Done(w)
    BY <2>2, CachedAfterwards DEF Done
  <2>3. CASE ReadPrefs(w)
    BY <2>3, CachedAfterwards DEF ReadPrefs
  <2>4. CASE Save(w)
    BY <2>4, CachedAfterwards DEF Save
  <2>5. CASE Bump(w)
    BY <2>5 DEF Bump, VersionInv
  <2>6. CASE Stamp(w)
    BY <2>6, CachedAfterwards DEF Stamp
  <2>7. CASE Recycle(w)
    BY <2>7, CachedAfterwards DEF Recycle
  <2> QED
    BY <1>3, <2>1, <2>2, <2>3, <2>4, <2>5, <2>6, <2>7 DEF WorkerStep
<1> QED
  BY <1>1, <1>2, <1>3 DEF AccountsNext

(* A verdict that errs errs by what the process has cached, which is older  *)
(* than the last bump and not yet UserTTL old.                              *)
LEMMA VerdictStep ==
  ASSUME VersionInv, DOMAIN serving = Workers, [AccountsNext]_accountVars,
         NEW w \in Workers, NEW b \in Browsers, Arrives(w),
         serving'[w].browser = b, cookie[b] # Nil, serving'[w].op # "logout",
         (serving'[w].session # Nil) # (cookie[b] = version)
  PROVE  moment - bumped < UserTTL
<1>1. PICK c \in Browsers, op \in SessionOps \union PrefsOps : Receive(w, c, op)
  <2>1. serving' # serving
    BY DEF Arrives
  <2>2. ~Pass /\ ~UNCHANGED accountVars
    BY <2>1 DEF Pass, accountVars
  <2>3. PICK v \in Workers : WorkerStep(v, Browsers, SessionOps \union PrefsOps)
    BY <2>2 DEF AccountsNext
  <2>4. ASSUME serving[v] # Nil PROVE FALSE
    <3>1. v # w
      BY <2>4 DEF Arrives
    <3>2. ASSUME NEW y, serving' = [serving EXCEPT ![v] = y] PROVE FALSE
      BY <3>1, <3>2 DEF Arrives
    <3>3. \E y : serving' = [serving EXCEPT ![v] = y]
      BY <2>3, <2>4, Zenon
         DEF WorkerStep, Receive, Done, ReadPrefs, Save, Bump, Stamp, Recycle, Leave
    <3> QED
      BY <3>2, <3>3
  <2>5. \E c \in Browsers, op \in SessionOps \union PrefsOps : Receive(v, c, op)
    BY <2>3, <2>4 DEF WorkerStep, Done, ReadPrefs, Save, Bump, Stamp, Recycle
  <2>6. v = w
    BY <2>5, <2>4 DEF Receive, Arrives
  <2> QED
    BY <2>5, <2>6
<1>2. PICK form \in Forms(c, op) : serving'[w] = UserLoaded(w, c, op, form)
  BY <1>1 DEF Receive
<1>3. c = b /\ op # "logout" /\ serving'[w].session = IF cookie[b] = get_user(w) THEN cookie[b] ELSE Nil
  BY <1>2 DEF UserLoaded
<1>4. get_user(w) # version
  BY <1>3
<1>5. /\ user_cache[w] # Nil /\ moment - user_cache[w].at < UserTTL
      /\ user_cache[w].version # version
  BY <1>4 DEF get_user, Live
<1> QED
  BY <1>5, AccountsAssumption DEF VersionInv

(***************************************************************************)
(* The preferences.  Whatever a process has cached, a page shows or a      *)
(* request has read is the profile's still, field by field, unless the     *)
(* field was changed since.                                                *)
(***************************************************************************)
Agree(S, f) == f \in S <=> f \in profile

EntryOK(e, w) ==
  /\ e.at \in Nat /\ e.at <= moment
  /\ \A f \in Fields : Agree(e.prefs, f) \/ (changed[f].at >= e.at /\ changed[f].by # w)

PageOK(q) ==
  /\ q.at \in Nat /\ q.at <= moment
  /\ \A f \in Fields : Agree(q.prefs, f) \/ changed[f].at + PrefsTTL > q.at

RequestOK(x, w) ==
  /\ x.basis \in Nat /\ x.basis <= moment /\ {"pc", "read"} \subseteq DOMAIN x
  /\ x.op = "favorite" => x.form \subseteq Places
  /\ x.op = "settings" => x.form \subseteq Fields \ {"alerts"}
  /\ x.op = "alerts" => x.form \subseteq {"alerts", "weekly"}
  /\ x.pc = "prefs" => x.op \in PrefsOps
  /\ x.pc = "save" =>
       /\ x.op \in {"favorite", "settings", "alerts"}
       /\ x.op = "alerts" =>
            Agree(x.form, "weekly") \/ changed["weekly"].at + PrefsTTL > x.basis
       /\ x.op # "alerts" =>
            \A f \in Fields : Agree(x.read, f)
                               \/ (changed[f].at + PrefsTTL > x.basis /\ changed[f].by # w)

PrefsInv ==
  /\ moment \in Nat /\ profile \subseteq Fields
  /\ DOMAIN prefs_cache = Workers /\ DOMAIN serving = Workers /\ DOMAIN page = Browsers
  /\ \A f \in Fields : changed[f].at \in Nat
  /\ \A w \in Workers : prefs_cache[w] # Nil => EntryOK(prefs_cache[w], w)
  /\ \A b \in Browsers : page[b] # Nil => PageOK(page[b])
  /\ \A w \in Workers : serving[w] # Nil => RequestOK(serving[w], w)

LEMMA PrefsInvInit == AccountsInit => PrefsInv
BY DEF AccountsInit, PrefsInv

(* What happens to a field while time passes or worker v saves.             *)
FieldsMove(v) ==
  /\ moment' \in Nat /\ moment' >= moment
  /\ \A f \in Fields : \/ ((f \in profile') <=> (f \in profile)) /\ changed'[f] = changed[f]
                       \/ changed'[f] = [at |-> moment, by |-> v]

LEMMA EntryStays ==
  ASSUME PrefsInv, NEW v, FieldsMove(v), NEW e, NEW w, w # v, EntryOK(e, w)
  PROVE  EntryOK(e, w)'
<1> SUFFICES ASSUME NEW f \in Fields
             PROVE  (Agree(e.prefs, f) \/ (changed[f].at >= e.at /\ changed[f].by # w))'
  BY DEF EntryOK, FieldsMove, PrefsInv
<1> QED
  BY DEF EntryOK, FieldsMove, Agree, PrefsInv

LEMMA PageStays ==
  ASSUME PrefsInv, NEW v, FieldsMove(v), NEW q, PageOK(q)
  PROVE  PageOK(q)'
<1> SUFFICES ASSUME NEW f \in Fields
             PROVE  (Agree(q.prefs, f) \/ changed[f].at + PrefsTTL > q.at)'
  BY DEF PageOK, FieldsMove, PrefsInv
<1> QED
  BY AccountsAssumption DEF PageOK, FieldsMove, Agree, PrefsInv

LEMMA RequestStays ==
  ASSUME PrefsInv, NEW v, FieldsMove(v), NEW x, NEW w, w # v, RequestOK(x, w)
  PROVE  RequestOK(x, w)'
<1>1. x.basis <= moment'
  BY DEF RequestOK, FieldsMove, PrefsInv
<1>2. ASSUME x.pc = "save", x.op = "alerts"
      PROVE  (Agree(x.form, "weekly") \/ changed["weekly"].at + PrefsTTL > x.basis)'
  <2>1. "weekly" \in Fields
    BY DEF Fields
  <2> QED
    BY <1>2, <2>1, AccountsAssumption DEF RequestOK, FieldsMove, Agree, PrefsInv
<1>3. ASSUME x.pc = "save", x.op # "alerts", NEW f \in Fields
      PROVE  (Agree(x.read, f) \/ (changed[f].at + PrefsTTL > x.basis /\ changed[f].by # w))'
  BY <1>3, AccountsAssumption DEF RequestOK, FieldsMove, Agree, PrefsInv
<1> QED
  BY <1>1, <1>2, <1>3 DEF RequestOK

LEMMA PrefsInvKept ==
  ASSUME PrefsInv, NEW v, FieldsMove(v), profile' \subseteq Fields,
         DOMAIN prefs_cache' = Workers, DOMAIN serving' = Workers, DOMAIN page' = Browsers,
         \A w \in Workers : \/ prefs_cache'[w] = Nil
                            \/ w # v /\ prefs_cache'[w] = prefs_cache[w]
                            \/ EntryOK(prefs_cache[w], w)',
         \A b \in Browsers : page'[b] = Nil \/ page'[b] = page[b] \/ PageOK(page[b])',
         \A w \in Workers : \/ serving'[w] = Nil
                            \/ w # v /\ serving'[w] = serving[w]
                            \/ RequestOK(serving[w], w)'
  PROVE  PrefsInv'
<1>1. \A w \in Workers : prefs_cache'[w] # Nil => EntryOK(prefs_cache[w], w)'
  BY EntryStays DEF PrefsInv
<1>2. \A b \in Browsers : page'[b] # Nil => PageOK(page[b])'
  BY PageStays DEF PrefsInv
<1>3. \A w \in Workers : serving'[w] # Nil => RequestOK(serving[w], w)'
  BY RequestStays DEF PrefsInv
<1>4. \A f \in Fields : changed'[f].at \in Nat
  BY DEF PrefsInv, FieldsMove
<1> QED
  BY <1>1, <1>2, <1>3, <1>4 DEF PrefsInv, FieldsMove

(* The steps that leave the profile and the pages alone.                    *)
LEMMA PrefsInvQuiet ==
  ASSUME PrefsInv, UNCHANGED <<moment, profile, page, changed>>,
         DOMAIN prefs_cache' = Workers, DOMAIN serving' = Workers,
         \A w \in Workers : \/ prefs_cache'[w] = Nil
                            \/ prefs_cache'[w] = prefs_cache[w]
                            \/ EntryOK(prefs_cache'[w], w),
         \A w \in Workers : \/ serving'[w] = Nil
                            \/ serving'[w] = serving[w]
                            \/ RequestOK(serving'[w], w)
  PROVE  PrefsInv'
<1>1. ASSUME NEW e, NEW w, EntryOK(e, w) PROVE EntryOK(e, w)'
  BY <1>1 DEF EntryOK, Agree
<1>2. ASSUME NEW q, PageOK(q) PROVE PageOK(q)'
  BY <1>2 DEF PageOK, Agree
<1>3. ASSUME NEW x, NEW w, RequestOK(x, w) PROVE RequestOK(x, w)'
  BY <1>3 DEF RequestOK, Agree
<1> QED
  BY <1>1, <1>2, <1>3 DEF PrefsInv

(* What a process finds in its cache is older than PrefsTTL at most.        *)
LEMMA GetPreferences ==
  ASSUME PrefsInv, NEW w \in Workers, NEW f \in Fields
  PROVE  \/ Agree(get_preferences(w), f)
         \/ changed[f].at + PrefsTTL > moment /\ changed[f].by # w
BY AccountsAssumption DEF PrefsInv, EntryOK, get_preferences, Live, Agree

LEMMA KeepOK ==
  ASSUME PrefsInv, NEW w \in Workers, Keep(w)
  PROVE  /\ DOMAIN prefs_cache' = Workers
         /\ \A v \in Workers : prefs_cache'[v] = prefs_cache[v] \/ EntryOK(prefs_cache'[v], v)
<1>1. ASSUME NEW v \in Workers, prefs_cache'[v] = [at |-> moment, prefs |-> profile]
      PROVE  EntryOK(prefs_cache'[v], v)
  BY <1>1 DEF EntryOK, PrefsInv, Agree
<1> QED
  BY <1>1 DEF Keep, PrefsInv

LEMMA ArriveOK ==
  ASSUME PrefsInv, NEW w \in Workers, NEW b \in Browsers,
         NEW op \in SessionOps \union PrefsOps, Receive(w, b, op)
  PROVE  PrefsInv'
<1>1. PICK form \in Forms(b, op) : serving' = [serving EXCEPT ![w] = UserLoaded(w, b, op, form)]
  BY DEF Receive
<1> DEFINE x == UserLoaded(w, b, op, form)
<1>2. /\ x.op = op /\ x.form = form /\ {"pc", "read"} \subseteq DOMAIN x
      /\ x.basis = CASE op = "alerts" -> page[b].at [] op \in SessionOps -> 0 [] OTHER -> moment
      /\ x.pc \in {First(op), "done"}
  BY DEF UserLoaded
<1>3. op = "alerts" => /\ page[b] # Nil /\ form \subseteq {"alerts", "weekly"}
                       /\ "weekly" \in form <=> "weekly" \in page[b].prefs
  BY DEF Forms
<1>4. op = "favorite" => form \subseteq Places
  BY DEF Forms
<1>5. op = "settings" => form \subseteq Fields \ {"alerts"}
  BY DEF Forms
<1>6. x.basis \in Nat /\ x.basis <= moment
  BY <1>2, <1>3 DEF PrefsInv, PageOK, SessionOps, PrefsOps
<1>7. x.pc = "prefs" => op \in PrefsOps
  BY <1>2 DEF First, SessionOps, PrefsOps
<1>8. x.pc = "save" => op = "alerts"
  BY <1>2 DEF First, SessionOps, PrefsOps
<1>9. op = "alerts" => Agree(form, "weekly") \/ changed["weekly"].at + PrefsTTL > x.basis
  <2> SUFFICES ASSUME op = "alerts"
               PROVE  Agree(form, "weekly") \/ changed["weekly"].at + PrefsTTL > x.basis
    OBVIOUS
  <2>1. x.basis = page[b].at
    <3> HIDE DEF x
    <3> QED
      BY <1>2 DEF SessionOps
  <2>2. PageOK(page[b]) /\ "weekly" \in Fields
    BY <1>3 DEF PrefsInv, Fields
  <2>3. Agree(page[b].prefs, "weekly") \/ changed["weekly"].at + PrefsTTL > x.basis
    BY <2>1, <2>2 DEF PageOK
  <2> QED
    BY <1>3, <2>3 DEF Agree
<1>10. RequestOK(x, w)
  <2> HIDE DEF x
  <2> QED
    BY <1>2, <1>3, <1>4, <1>5, <1>6, <1>7, <1>8, <1>9 DEF RequestOK
<1>11. \A v \in Workers : serving'[v] = serving[v] \/ RequestOK(serving'[v], v)
  <2> HIDE DEF x
  <2> QED
    BY <1>1, <1>10 DEF PrefsInv, x
<1> QED
  BY <1>1, <1>11, PrefsInvQuiet DEF Receive, PrefsInv

LEMMA ReadPrefsOK ==
  ASSUME PrefsInv, NEW w \in Workers, ReadPrefs(w)
  PROVE  PrefsInv'
<1> DEFINE x == serving[w]
<1>1. /\ x # Nil /\ x.pc = "prefs" /\ RequestOK(x, w) /\ Keep(w)
      /\ UNCHANGED <<moment, profile, changed>>
  BY DEF ReadPrefs, PrefsInv
<1>2. CASE x.op = "account"
  <2>1. page' = [page EXCEPT ![x.browser] = [at |-> x.basis, prefs |-> get_preferences(w)]]
    BY <1>2 DEF ReadPrefs
  <2>2. serving' = [serving EXCEPT ![w] = Nil]
    BY <1>2 DEF ReadPrefs, Leave
  <2>3. PageOK([at |-> x.basis, prefs |-> get_preferences(w)])
    BY <1>1, GetPreferences, AccountsAssumption DEF PageOK, RequestOK, PrefsInv
  <2>4. \A b \in Browsers : page'[b] = page[b] \/ PageOK(page'[b])
    BY <2>1, <2>3 DEF PrefsInv
  <2>5. ASSUME NEW q, PageOK(q) PROVE PageOK(q)'
    BY <1>1, <2>5 DEF PageOK, Agree
  <2>6. ASSUME NEW e, NEW u, EntryOK(e, u) PROVE EntryOK(e, u)'
    BY <1>1, <2>6 DEF EntryOK, Agree
  <2>7. ASSUME NEW y, NEW u, RequestOK(y, u) PROVE RequestOK(y, u)'
    BY <1>1, <2>7 DEF RequestOK, Agree
  <2>8. \A u \in Workers : prefs_cache'[u] # Nil => EntryOK(prefs_cache[u], u)'
    BY <1>1, <2>6, KeepOK DEF PrefsInv
  <2>9. \A b \in Browsers : page'[b] # Nil => PageOK(page[b])'
    BY <2>4, <2>5 DEF PrefsInv
  <2>10. \A u \in Workers : serving'[u] # Nil => RequestOK(serving[u], u)'
    BY <2>2, <2>7 DEF PrefsInv
  <2> QED
    BY <1>1, <2>1, <2>2, <2>8, <2>9, <2>10, KeepOK DEF PrefsInv
<1>3. CASE x.op # "account"
  <2>1. serving' = [serving EXCEPT ![w].pc = IF x.op = "alerts" THEN "done" ELSE "save",
                                   ![w].read = get_preferences(w)]
        /\ UNCHANGED page
    BY <1>3 DEF ReadPrefs
  <2> DEFINE y == [x EXCEPT !.pc = IF x.op = "alerts" THEN "done" ELSE "save",
                            !.read = get_preferences(w)]
  <2>2. RequestOK(y, w)
    <3>1. /\ y.pc = (IF x.op = "alerts" THEN "done" ELSE "save") /\ y.read = get_preferences(w)
          /\ y.basis = x.basis /\ y.op = x.op /\ y.form = x.form /\ DOMAIN y = DOMAIN x
      BY <1>1 DEF RequestOK
    <3> HIDE DEF y
    <3>2. \A f \in Fields : Agree(y.read, f)
                            \/ (changed[f].at + PrefsTTL > y.basis /\ changed[f].by # w)
      BY <1>1, <3>1, GetPreferences, AccountsAssumption DEF RequestOK, PrefsInv
    <3> QED
      BY <1>1, <1>3, <3>1, <3>2 DEF RequestOK, PrefsOps
  <2>3. \A u \in Workers : serving'[u] = serving[u] \/ RequestOK(serving'[u], u)
    BY <2>1, <2>2 DEF PrefsInv
  <2> QED
    BY <1>1, <2>1, <2>3, KeepOK, PrefsInvQuiet DEF PrefsInv
<1> QED
  BY <1>2, <1>3

LEMMA OthersOK ==
  ASSUME PrefsInv, NEW w \in Workers, Done(w) \/ Bump(w) \/ Stamp(w) \/ Recycle(w)
  PROVE  PrefsInv'
<1>1. CASE Done(w)
  BY <1>1, PrefsInvQuiet DEF Done, Leave, PrefsInv
<1>2. CASE Bump(w)
  <2>1. RequestOK([serving[w] EXCEPT !.pc = "version"], w)
    BY <1>2 DEF Bump, PrefsInv, RequestOK
  <2>2. \A u \in Workers : serving'[u] = serving[u] \/ RequestOK(serving'[u], u)
    BY <1>2, <2>1 DEF PrefsInv, Bump
  <2> QED
    BY <1>2, <2>2, PrefsInvQuiet DEF Bump, PrefsInv
<1>3. CASE Stamp(w)
  <2>1. /\ DOMAIN prefs_cache' = Workers
        /\ \A v \in Workers : prefs_cache'[v] = prefs_cache[v] \/ EntryOK(prefs_cache'[v], v)
    BY <1>3, KeepOK DEF Stamp, PrefsInv
  <2> QED
    BY <1>3, <2>1, PrefsInvQuiet DEF Stamp, Leave, PrefsInv
<1>4. CASE Recycle(w)
  BY <1>4, PrefsInvQuiet DEF Recycle, PrefsInv
<1> QED
  BY <1>1, <1>2, <1>3, <1>4

(* A save moves only what it changes.                                       *)
LEMMA SaveMoves ==
  ASSUME PrefsInv, NEW w \in Workers, Save(w)
  PROVE  FieldsMove(w) /\ profile' \subseteq Fields
<1>1. profile' \subseteq Fields
  BY DEF Save, Written, PrefsInv, RequestOK, Differ, Fields
<1> QED
  BY <1>1 DEF Save, FieldsMove, Differ, PrefsInv

LEMMA SaveOK ==
  ASSUME PrefsInv, NEW w \in Workers, Save(w)
  PROVE  PrefsInv'
<1> DEFINE x == serving[w]
<1>1. FieldsMove(w) /\ profile' \subseteq Fields
  BY SaveMoves
<1>2. /\ x # Nil /\ x.pc = "save" /\ RequestOK(x, w)
      /\ prefs_cache' = [prefs_cache EXCEPT ![w] = Nil] /\ page' = page
  BY DEF Save, PrefsInv, Popped
<1>3. /\ DOMAIN serving' = Workers
      /\ \A u \in Workers : u # w => serving'[u] = serving[u]
      /\ serving'[w] = Nil \/ RequestOK(serving[w], w)'
  <2>1. CASE x.op = "alerts"
    <3> DEFINE y == [x EXCEPT !.pc = "prefs"]
    <3>1. serving' = [serving EXCEPT ![w] = y]
      BY <2>1 DEF Save
    <3>2. /\ y.pc = "prefs" /\ y.basis = x.basis /\ y.op = x.op /\ y.form = x.form
          /\ DOMAIN y = DOMAIN x
      BY <1>2 DEF RequestOK
    <3> HIDE DEF y
    <3>3. serving'[w] = y
      BY <3>1 DEF PrefsInv
    <3>4. /\ y.basis \in Nat /\ y.basis <= moment' /\ {"pc", "read"} \subseteq DOMAIN y
          /\ y.form \subseteq {"alerts", "weekly"} /\ y.op = "alerts"
      BY <1>1, <1>2, <2>1, <3>2 DEF RequestOK, FieldsMove, PrefsInv
    <3>5. RequestOK(serving[w], w)'
      BY <3>2, <3>3, <3>4 DEF RequestOK, PrefsOps
    <3> QED
      BY <3>1, <3>5 DEF PrefsInv
  <2>2. CASE x.op # "alerts"
    BY <2>2 DEF Save, Leave, PrefsInv
  <2> QED
    BY <2>1, <2>2
<1>4. \A u \in Workers : prefs_cache'[u] # Nil => EntryOK(prefs_cache[u], u)'
  BY <1>1, <1>2, EntryStays DEF PrefsInv
<1>5. \A b \in Browsers : page'[b] # Nil => PageOK(page[b])'
  BY <1>1, <1>2, PageStays DEF PrefsInv
<1>6. \A u \in Workers : serving'[u] # Nil => RequestOK(serving[u], u)'
  BY <1>1, <1>3, RequestStays DEF PrefsInv
<1>7. \A f \in Fields : changed'[f].at \in Nat
  BY <1>1 DEF PrefsInv, FieldsMove
<1> QED
  BY <1>1, <1>2, <1>3, <1>4, <1>5, <1>6, <1>7 DEF PrefsInv, FieldsMove

LEMMA PrefsInvNext == PrefsInv /\ [AccountsNext]_accountVars => PrefsInv'
<1> SUFFICES ASSUME PrefsInv, [AccountsNext]_accountVars PROVE PrefsInv'
  OBVIOUS
<1>1. CASE UNCHANGED accountVars
  BY <1>1, PrefsInvQuiet DEF accountVars, PrefsInv
<1>2. CASE Pass
  <2>1. PICK v : v \notin Workers
    BY NoSetContainsEverything
  <2>2. FieldsMove(v)
    BY <1>2 DEF Pass, FieldsMove, PrefsInv
  <2> QED
    BY <1>2, <2>1, <2>2, PrefsInvKept DEF Pass, PrefsInv
<1>3. ASSUME NEW w \in Workers, WorkerStep(w, Browsers, SessionOps \union PrefsOps)
      PROVE  PrefsInv'
  BY <1>3, ArriveOK, ReadPrefsOK, OthersOK, SaveOK DEF WorkerStep
<1> QED
  BY <1>1, <1>2, <1>3 DEF AccountsNext

(* A request writes, of what it is not there to set, what it has read.      *)
LEMMA UndoneStep ==
  ASSUME PrefsInv, [AccountsNext]_accountVars, NEW w \in Workers, Saves(w),
         NEW f \in Differ(profile, profile') \ Aims(serving[w])
  PROVE  /\ changed[f].at + PrefsTTL > serving[w].basis
         /\ serving[w].op # "alerts" => changed[f].by # w
<1> DEFINE x == serving[w]
<1>1. profile' # profile /\ x # Nil /\ x.pc = "save" /\ RequestOK(x, w)
  BY DEF Differ, Saves, PrefsInv
<1>2. PICK v \in Workers : Save(v)
  BY <1>1 DEF AccountsNext, accountVars, Pass, WorkerStep, Receive, Done, ReadPrefs, Bump,
     Stamp, Recycle
<1>3. v = w
  <2>1. ASSUME v # w, NEW y, serving' = [serving EXCEPT ![v] = y] PROVE FALSE
    BY <2>1 DEF Saves
  <2>2. \E y : serving' = [serving EXCEPT ![v] = y]
    BY <1>2, Zenon DEF Save, Leave
  <2> QED
    BY <2>1, <2>2
<1>4. profile' = Written(x) /\ f \in Fields
  BY <1>2, <1>3, SaveMoves DEF Save, Differ, PrefsInv
<1>5. CASE x.op = "favorite"
  <2>1. f \in Places /\ (f \in profile' <=> f \in x.read)
    BY <1>1, <1>4, <1>5 DEF Written, Differ, Aims, RequestOK
  <2> QED
    BY <1>1, <1>4, <1>5, <2>1 DEF RequestOK, Agree, Differ
<1>6. CASE x.op = "settings"
  <2>1. f = "alerts" /\ (f \in profile' <=> f \in x.read)
    BY <1>1, <1>4, <1>6 DEF Written, Aims, RequestOK
  <2> QED
    BY <1>1, <1>4, <1>6, <2>1 DEF RequestOK, Agree, Differ
<1>7. CASE x.op = "alerts"
  <2>1. f = "weekly" /\ (f \in profile' <=> f \in x.form)
    BY <1>1, <1>4, <1>7 DEF Written, Differ, Aims, RequestOK, Fields
  <2> QED
    BY <1>1, <1>4, <1>7, <2>1 DEF RequestOK, Agree, Differ
<1> QED
  BY <1>1, <1>5, <1>6, <1>7 DEF RequestOK

(* A request that saves undoes what it is not there to set only when that  *)
(* was changed within PrefsTTL of what the request is based on, and, but   *)
(* for the page of an alerts panel, by another worker (sqlite.py:24).      *)
THEOREM AccountsKeepRecentChanges == AccountsSpec => OnlyRecentChangesAreUndone
<1>1. PrefsInv /\ [AccountsNext]_accountVars =>
        [\A w \in Workers : Saves(w) =>
           \A f \in Differ(profile, profile') \ Aims(serving[w]) :
             /\ changed[f].at + PrefsTTL > serving[w].basis
             /\ serving[w].op # "alerts" => changed[f].by # w]_accountVars
  BY UndoneStep
<1> QED
  BY <1>1, PrefsInvInit, PrefsInvNext, PTL DEF AccountsSpec, OnlyRecentChangesAreUndone

(* A session is taken for older than the last login, or for the newest,    *)
(* wrongly only for UserTTL after that login or change (sqlite.py:35).     *)
THEOREM SessionVerdictsLagBriefly == AccountsSpec => VerdictsLagBriefly
<1>1. VersionInv /\ PrefsInv /\ [AccountsNext]_accountVars =>
        [\A w \in Workers, b \in Browsers :
           (Arrives(w) /\ serving'[w].browser = b /\ cookie[b] # Nil
              /\ serving'[w].op # "logout"
              /\ (serving'[w].session # Nil) # (cookie[b] = version)) =>
             moment - bumped < UserTTL]_accountVars
  BY VerdictStep DEF PrefsInv
<1> QED
  BY <1>1, VersionInvInit, VersionInvNext, PrefsInvInit, PrefsInvNext, PTL
     DEF AccountsSpec, VerdictsLagBriefly
=============================================================================
