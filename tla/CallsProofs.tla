---------------------------- MODULE CallsProofs -----------------------------
(***************************************************************************)
(* Theorems of HttpClient, for every number of calls, retries, connections *)
(* and chunks, and all timeouts and backoffs; of SignedCalls, for every    *)
(* number of calls, all validities, skews and delays, and all offsets that *)
(* SignedAssumption admits; and of LegacyRegulations, for all editions.    *)
(***************************************************************************)
EXTENDS HttpClient, SignedCalls, LegacyRegulations, TLAPS

HttpInv == HttpTypeOK /\ WithinBudget

(* Products: the waits for the pieces read so far are among those of all.   *)
LEMMA Pieces ==
  ASSUME NEW n \in Nat, NEW r \in Nat, r < n
  PROVE  /\ (r + 1) * ReadTimeout \in Nat /\ n * ReadTimeout \in Nat
         /\ (r + 1) * ReadTimeout <= n * ReadTimeout
         /\ (r + 2) * ReadTimeout = (r + 1) * ReadTimeout + ReadTimeout
         /\ (0 + 1) * ReadTimeout = ReadTimeout
  <1>1. ReadTimeout \in Nat /\ n - (r + 1) \in Nat
    BY HttpAssumption
  <1>2. n * ReadTimeout = (r + 1) * ReadTimeout + (n - (r + 1)) * ReadTimeout
    BY <1>1
  <1>3. (n - (r + 1)) * ReadTimeout \in Nat
    BY <1>1
  <1>4. (r + 1) * ReadTimeout \in Nat /\ n * ReadTimeout \in Nat
    BY <1>1
  <1>5. (r + 2) * ReadTimeout = (r + 1) * ReadTimeout + ReadTimeout
    BY <1>1
  <1>6. (0 + 1) * ReadTimeout = ReadTimeout
    BY <1>1
  <1> QED
    BY <1>2, <1>3, <1>4, <1>5, <1>6

LEMMA Parts ==
  /\ MaxRetries \in Nat /\ MaxBody \in Nat /\ MaxHead \in Nat /\ 0 < MaxHead
  /\ ConnectTimeout \in Nat /\ ReadTimeout \in Nat
  /\ OpenTime \in Nat /\ OpenTime = 3 * ConnectTimeout
  /\ HeadTime \in Nat /\ BodyTime \in Nat
  /\ ReadTimeout <= HeadTime /\ ReadTimeout <= BodyTime
  /\ AttemptTime \in Nat
  /\ AttemptTime = OpenTime + ReadTimeout + HeadTime + BodyTime
  <1>1. /\ MaxRetries \in Nat /\ MaxBody \in Nat /\ MaxHead \in Nat /\ 0 < MaxHead
        /\ ConnectTimeout \in Nat /\ ReadTimeout \in Nat
    BY HttpAssumption
  <1>2. HeadTime \in Nat /\ ReadTimeout <= HeadTime
    BY <1>1, Pieces DEF HeadTime
  <1>3. BodyTime \in Nat /\ ReadTimeout <= BodyTime
    <2>1. MaxBody + 1 \in Nat /\ 0 < MaxBody + 1
      BY <1>1
    <2> QED
      BY <1>1, <2>1, Pieces DEF BodyTime
  <1>4. OpenTime \in Nat /\ OpenTime = 3 * ConnectTimeout
    BY <1>1 DEF OpenTime
  <1>5. AttemptTime = OpenTime + ReadTimeout + HeadTime + BodyTime
    BY DEF AttemptTime
  <1> QED
    BY <1>1, <1>2, <1>3, <1>4, <1>5

(* What is left from an attempt on covers the attempt, and after it the     *)
(* backoff and the next attempts.                                           *)
LEMMA Budget ==
  ASSUME NEW a \in 0..MaxRetries
  PROVE  /\ TimeFrom[a] \in Nat /\ Backoff[a] \in Nat
         /\ AttemptTime <= TimeFrom[a]
         /\ a < MaxRetries => /\ a + 1 \in 0..MaxRetries
                              /\ TimeFrom[a + 1] \in Nat
                              /\ TimeFrom[a] = AttemptTime + Backoff[a] + TimeFrom[a + 1]
         /\ 0 \in 0..MaxRetries /\ TimeFrom[0] \in Nat
  <1>1. 0 \in 0..MaxRetries /\ (a < MaxRetries => a + 1 \in 0..MaxRetries)
    BY Parts
  <1>2. TimeFrom[a] \in Nat /\ TimeFrom[0] \in Nat /\ Backoff[a] \in Nat
    BY <1>1, HttpAssumption, TimeAssumption
  <1>3. a < MaxRetries => /\ TimeFrom[a + 1] \in Nat
                          /\ TimeFrom[a] = AttemptTime + Backoff[a] + TimeFrom[a + 1]
    BY <1>1, TimeAssumption
  <1>4. AttemptTime <= TimeFrom[a]
    <2>1. CASE a = MaxRetries
      BY <2>1, Parts, TimeAssumption
    <2>2. CASE a < MaxRetries
      BY <2>2, <1>2, <1>3, Parts
    <2> QED
      BY <2>1, <2>2, Parts
  <1> QED
    BY <1>1, <1>2, <1>3, <1>4

(* The waits up to the present one are among those of the attempt.          *)
LEMMA GoneIsPart ==
  ASSUME NEW p \in Exchange \union {"pool"}, NEW r \in Nat,
         p = "headers" => r < MaxHead, p = "body" => r <= MaxBody
  PROVE  Gone(p, r) \in Nat /\ Gone(p, r) <= AttemptTime
  <1>1. CASE p = "headers"
    <2>1. (r + 1) * ReadTimeout \in Nat /\ (r + 1) * ReadTimeout <= HeadTime
      BY <1>1, Parts, Pieces DEF HeadTime
    <2>2. Gone(p, r) = OpenTime + ReadTimeout + (r + 1) * ReadTimeout
      BY <1>1 DEF Gone
    <2> QED
      BY <2>1, <2>2, Parts
  <1>2. CASE p = "body"
    <2>1. (r + 1) * ReadTimeout \in Nat /\ (r + 1) * ReadTimeout <= BodyTime
      <3>1. MaxBody + 1 \in Nat /\ r < MaxBody + 1
        BY <1>2, Parts
      <3> QED
        BY <3>1, Pieces DEF BodyTime
    <2>2. Gone(p, r) = OpenTime + ReadTimeout + HeadTime + (r + 1) * ReadTimeout
      BY <1>2 DEF Gone
    <2> QED
      BY <2>1, <2>2, Parts
  <1>3. CASE p \in {"pool", "connect", "handshake", "write"}
    <2>1. Gone(p, r) \in {ConnectTimeout, 2 * ConnectTimeout, OpenTime, OpenTime + ReadTimeout}
      BY <1>3 DEF Gone
    <2> QED
      BY <2>1, Parts
  <1> QED
    BY <1>1, <1>2, <1>3 DEF Exchange

LEMMA HttpInitInv == HttpInit => HttpInv
  <1> SUFFICES ASSUME HttpInit PROVE HttpInv
    OBVIOUS
  <1>1. 0 \in 0..MaxRetries
    BY Parts
  <1>2. HttpTypeOK
    BY <1>1 DEF HttpInit, HttpTypeOK, Stages, Waits, Exchange, Outcomes
  <1>3. Affordable("idle", 0, 0, 0, 0)
    BY <1>1, Budget DEF Affordable, Exchange
  <1>4. WithinBudget
    BY <1>3 DEF HttpInit, WithinBudget
  <1> QED
    BY <1>2, <1>4 DEF HttpInv

-----------------------------------------------------------------------------
(* A step of one call: it suffices to look at that call. *)
LEMMA OnlyItsOwn ==
  ASSUME HttpInv, NEW f \in Fetchers,
         NEW p \in Stages, NEW t \in Nat, NEW a \in 0..MaxRetries,
         NEW r \in Nat, NEW e \in Outcomes, NEW s \in Nat,
         stage' = [stage EXCEPT ![f] = p], left' = [left EXCEPT ![f] = t],
         attempt' = [attempt EXCEPT ![f] = a], received' = [received EXCEPT ![f] = r],
         outcome' = [outcome EXCEPT ![f] = e], spent' = [spent EXCEPT ![f] = s],
         Affordable(p, a, t, r, s)
  PROVE  HttpInv'
  <1>1. HttpTypeOK'
    BY DEF HttpInv, HttpTypeOK
  <1>2. ASSUME NEW g \in Fetchers
        PROVE  Affordable(stage[g], attempt[g], left[g], received[g], spent[g])'
    <2>1. CASE g = f
      <3>1. /\ stage'[g] = p /\ left'[g] = t /\ attempt'[g] = a
            /\ received'[g] = r /\ spent'[g] = s
        BY <2>1 DEF HttpInv, HttpTypeOK
      <3> QED
        BY <3>1 DEF Affordable
    <2>2. CASE g # f
      <3>1. /\ stage'[g] = stage[g] /\ left'[g] = left[g] /\ attempt'[g] = attempt[g]
            /\ received'[g] = received[g] /\ spent'[g] = spent[g]
        BY <2>2 DEF HttpInv, HttpTypeOK
      <3>2. Affordable(stage[g], attempt[g], left[g], received[g], spent[g])
        BY DEF HttpInv, WithinBudget
      <3> QED
        BY <3>1, <3>2 DEF Affordable
    <2> QED
      BY <2>1, <2>2
  <1> QED
    BY <1>1, <1>2 DEF HttpInv, WithinBudget

(* What the invariant says of one call. *)
LEMMA OneCall ==
  ASSUME HttpInv, NEW f \in Fetchers
  PROVE  /\ attempt[f] \in 0..MaxRetries /\ received[f] \in Nat
         /\ left[f] \in Nat /\ spent[f] \in Nat
         /\ stage[f] \in Stages /\ outcome[f] \in Outcomes
         /\ Affordable(stage[f], attempt[f], left[f], received[f], spent[f])
         /\ TimeFrom[0] \in Nat /\ TimeFrom[attempt[f]] \in Nat
         /\ received[f] + 1 \in Nat
  <1>1. attempt[f] \in 0..MaxRetries /\ received[f] \in Nat
    BY DEF HttpInv, HttpTypeOK
  <1> QED
    BY <1>1, Budget DEF HttpInv, HttpTypeOK, WithinBudget

(* A new wait of an attempt, from one whose part of the budget is spent: it *)
(* is paid for by its own part.                                             *)
LEMMA Onward ==
  ASSUME HttpInv, NEW f \in Fetchers, NEW p \in Exchange, NEW t \in Nat, NEW r \in Nat,
         stage[f] \in Exchange \union {"pool"},
         Gone(stage[f], received[f]) + t <= Gone(p, r),
         p = "headers" => r < MaxHead, p = "body" => r <= MaxBody,
         p \notin {"headers", "body"} => r = 0
  PROVE  Affordable(p, attempt[f], t, r, spent[f])
  <1>1. p \in Exchange \union {"pool"}
    OBVIOUS
  <1>2. Gone(p, r) \in Nat /\ Gone(p, r) <= AttemptTime
    BY <1>1, GoneIsPart
  <1>3. /\ left[f] \in Nat /\ spent[f] \in Nat /\ received[f] \in Nat
        /\ TimeFrom[0] \in Nat /\ TimeFrom[attempt[f]] \in Nat
    BY OneCall
  <1>4. /\ stage[f] = "headers" => received[f] < MaxHead
        /\ stage[f] = "body" => received[f] <= MaxBody
        /\ spent[f] + left[f] + TimeFrom[attempt[f]] - Gone(stage[f], received[f]) <= TimeFrom[0]
    BY OneCall DEF Affordable
  <1>5. Gone(stage[f], received[f]) \in Nat
    BY <1>3, <1>4, GoneIsPart
  <1>6. spent[f] + t + TimeFrom[attempt[f]] - Gone(p, r) <= TimeFrom[0]
    BY <1>2, <1>3, <1>4, <1>5
  <1>7. p \notin {"idle", "sleep"}
    BY DEF Exchange
  <1> QED
    BY <1>6, <1>7 DEF Affordable

(* The same as a step of the call. *)
LEMMA OnwardInv ==
  ASSUME HttpInv, NEW f \in Fetchers, NEW p \in Exchange, NEW t \in Nat, NEW r \in Nat,
         stage[f] \in Exchange \union {"pool"},
         Gone(stage[f], received[f]) + t <= Gone(p, r),
         p = "headers" => r < MaxHead, p = "body" => r <= MaxBody,
         p \notin {"headers", "body"} => r = 0,
         Wait(f, p, t), received' = [received EXCEPT ![f] = r],
         UNCHANGED <<attempt, outcome, spent>>
  PROVE  HttpInv'
  <1>1. Affordable(p, attempt[f], t, r, spent[f])
    BY Onward
  <1>2. /\ stage' = [stage EXCEPT ![f] = p] /\ left' = [left EXCEPT ![f] = t]
        /\ attempt' = [attempt EXCEPT ![f] = attempt[f]]
        /\ outcome' = [outcome EXCEPT ![f] = outcome[f]]
        /\ spent' = [spent EXCEPT ![f] = spent[f]]
    BY DEF Wait, HttpInv, HttpTypeOK
  <1>3. p \in Stages
    BY DEF Stages, Waits
  <1>4. PICK a \in 0..MaxRetries, e \in Outcomes, s \in Nat :
           a = attempt[f] /\ e = outcome[f] /\ s = spent[f]
    BY OneCall
  <1>5. /\ stage' = [stage EXCEPT ![f] = p] /\ left' = [left EXCEPT ![f] = t]
        /\ attempt' = [attempt EXCEPT ![f] = a] /\ received' = [received EXCEPT ![f] = r]
        /\ outcome' = [outcome EXCEPT ![f] = e] /\ spent' = [spent EXCEPT ![f] = s]
        /\ Affordable(p, a, t, r, s)
    BY <1>1, <1>2, <1>4
  <1> QED
    BY <1>3, <1>5, OnlyItsOwn

(* Outside the two loops over pieces nothing has been received.             *)
LEMMA NothingReceived ==
  ASSUME HttpInv, NEW f \in Fetchers, stage[f] \notin {"headers", "body"}
  PROVE  received[f] = 0 /\ received = [received EXCEPT ![f] = 0]
  <1>1. received[f] = 0
    BY OneCall DEF Affordable
  <1> QED
    BY <1>1 DEF HttpInv, HttpTypeOK

(* The end of an attempt: whatever was left of it pays for the backoff.     *)
LEMMA AttemptEndsInv ==
  ASSUME HttpInv, NEW f \in Fetchers, NEW r \in Outcomes,
         stage[f] \in Exchange \union {"pool"},
         AttemptEnds(f, r)
  PROVE  HttpInv'
  <1> DEFINE a == attempt[f]
  <1>1. /\ a \in 0..MaxRetries /\ received[f] \in Nat
        /\ left[f] \in Nat /\ spent[f] \in Nat /\ outcome[f] \in Outcomes
    BY OneCall
  <1>2. spent[f] + TimeFrom[a] - AttemptTime <= TimeFrom[0]
    <2>1. /\ stage[f] = "headers" => received[f] < MaxHead
          /\ stage[f] = "body" => received[f] <= MaxBody
          /\ spent[f] + left[f] + TimeFrom[a] - Gone(stage[f], received[f]) <= TimeFrom[0]
      BY OneCall DEF Affordable
    <2>2. Gone(stage[f], received[f]) \in Nat /\ Gone(stage[f], received[f]) <= AttemptTime
      BY <1>1, <2>1, GoneIsPart
    <2>3. TimeFrom[a] \in Nat /\ TimeFrom[0] \in Nat /\ AttemptTime \in Nat
      BY <1>1, Budget, Parts
    <2> QED
      BY <1>1, <2>1, <2>2, <2>3
  <1>3. spent[f] <= TimeFrom[0]
    <2>1. TimeFrom[a] \in Nat /\ TimeFrom[0] \in Nat /\ AttemptTime \in Nat /\ AttemptTime <= TimeFrom[a]
      BY <1>1, Budget, Parts
    <2> QED
      BY <2>1, <1>1, <1>2
  <1>4. 0 \in 0..MaxRetries /\ 0 \in Nat
    BY Parts
  <1>5. spent' = [spent EXCEPT ![f] = spent[f]]
    BY DEF AttemptEnds, HttpInv, HttpTypeOK
  <1>6. CASE Retryable(r) /\ a < MaxRetries
    <2>1. /\ stage' = [stage EXCEPT ![f] = "sleep"]
          /\ left' = [left EXCEPT ![f] = Backoff[a]]
          /\ received' = [received EXCEPT ![f] = 0]
          /\ attempt' = [attempt EXCEPT ![f] = a]
          /\ outcome' = [outcome EXCEPT ![f] = outcome[f]]
      BY <1>6 DEF AttemptEnds, Wait, HttpInv, HttpTypeOK
    <2>2. Backoff[a] \in Nat /\ "sleep" \in Stages
      BY <1>1, Budget DEF Stages, Waits
    <2>3. spent[f] + Backoff[a] + TimeFrom[a + 1] <= TimeFrom[0]
      <3>1. /\ TimeFrom[a] = AttemptTime + Backoff[a] + TimeFrom[a + 1]
            /\ TimeFrom[a + 1] \in Nat /\ TimeFrom[0] \in Nat /\ AttemptTime \in Nat /\ TimeFrom[a] \in Nat
        BY <1>1, <1>6, Budget, Parts
      <3> QED
        BY <3>1, <2>2, <1>1, <1>2
    <2>4. Affordable("sleep", a, Backoff[a], 0, spent[f])
      BY <1>6, <2>3 DEF Affordable, Exchange
    <2> QED
      BY <1>1, <1>4, <1>5, <2>1, <2>2, <2>4, OnlyItsOwn
  <1>7. CASE ~(Retryable(r) /\ a < MaxRetries)
    <2>1. /\ stage' = [stage EXCEPT ![f] = "idle"]
          /\ left' = [left EXCEPT ![f] = 0]
          /\ received' = [received EXCEPT ![f] = 0]
          /\ attempt' = [attempt EXCEPT ![f] = 0]
          /\ outcome' = [outcome EXCEPT ![f] = r]
      BY <1>7 DEF AttemptEnds, Return, Wait
    <2>2. Affordable("idle", 0, 0, 0, spent[f]) /\ "idle" \in Stages
      BY <1>3 DEF Stages, Affordable, Exchange
    <2> QED
      BY <1>1, <1>4, <1>5, <2>1, <2>2, OnlyItsOwn
  <1> QED
    BY <1>6, <1>7

LEMMA HttpNextInv == HttpInv /\ [HttpNext]_httpVars => HttpInv'
  <1> SUFFICES ASSUME HttpInv, [HttpNext]_httpVars PROVE HttpInv'
    OBVIOUS
  <1>0. 0 \in 0..MaxRetries /\ 0 \in Nat
    BY Parts
  <1>w. {"connect", "handshake", "write", "headers", "body"} = Exchange
    BY DEF Exchange
  <1>1. ASSUME NEW f \in Fetchers, Get(f) PROVE HttpInv'
    <2>1. /\ stage' = [stage EXCEPT ![f] = "pool"] /\ left' = [left EXCEPT ![f] = ConnectTimeout]
          /\ spent' = [spent EXCEPT ![f] = 0]
          /\ outcome' = [outcome EXCEPT ![f] = "none"]
          /\ attempt' = [attempt EXCEPT ![f] = attempt[f]]
      BY <1>1 DEF Get, Wait, HttpInv, HttpTypeOK
    <2>2. attempt[f] = 0 /\ received' = [received EXCEPT ![f] = 0]
      <3>1. attempt[f] = 0
        BY <1>1, OneCall DEF Get, Affordable
      <3>2. received = [received EXCEPT ![f] = 0]
        BY <1>1, NothingReceived DEF Get
      <3> QED
        BY <1>1, <3>1, <3>2 DEF Get
    <2>3. attempt' = [attempt EXCEPT ![f] = 0] /\ "pool" \in Stages /\ "none" \in Outcomes
      BY <2>1, <2>2 DEF Stages, Waits, Outcomes
    <2>4. ConnectTimeout \in Nat /\ TimeFrom[0] \in Nat
      BY <1>0, Budget, Parts
    <2>5. Affordable("pool", 0, ConnectTimeout, 0, 0)
      BY <2>4 DEF Affordable, Gone
    <2> QED
      BY <1>0, <2>1, <2>2, <2>3, <2>4, <2>5, OnlyItsOwn
  <1>2. ASSUME NEW f \in Fetchers, Acquire(f) PROVE HttpInv'
    <2>1. received' = [received EXCEPT ![f] = 0] /\ received[f] = 0
      BY <1>2, NothingReceived DEF Acquire
    <2>2. stage[f] = "pool" /\ UNCHANGED <<attempt, outcome, spent>>
      BY <1>2 DEF Acquire
    <2>3. CASE Wait(f, "connect", ConnectTimeout)
      <3>1. Gone("pool", 0) + ConnectTimeout <= Gone("connect", 0)
        BY Parts DEF Gone
      <3> QED
        BY <1>0, <1>w, <2>1, <2>2, <2>3, <3>1, Parts, OnwardInv
    <2>4. CASE Wait(f, "write", ReadTimeout)
      <3>1. Gone("pool", 0) + ReadTimeout <= Gone("write", 0)
        BY Parts DEF Gone
      <3> QED
        BY <1>0, <1>w, <2>1, <2>2, <2>4, <3>1, Parts, OnwardInv
    <2> QED
      BY <1>2, <2>3, <2>4 DEF Acquire
  <1>3. ASSUME NEW f \in Fetchers, Connected(f) PROVE HttpInv'
    <2>1. received' = [received EXCEPT ![f] = 0] /\ received[f] = 0
      BY <1>3, NothingReceived DEF Connected
    <2>2. /\ stage[f] = "connect" /\ UNCHANGED <<attempt, outcome, spent>>
          /\ Wait(f, "handshake", ConnectTimeout)
      BY <1>3 DEF Connected
    <2>3. Gone("connect", 0) + ConnectTimeout <= Gone("handshake", 0)
      BY Parts DEF Gone
    <2> QED
      BY <1>0, <1>w, <2>1, <2>2, <2>3, Parts, OnwardInv
  <1>4. ASSUME NEW f \in Fetchers, Secured(f) PROVE HttpInv'
    <2>1. received' = [received EXCEPT ![f] = 0] /\ received[f] = 0
      BY <1>4, NothingReceived DEF Secured
    <2>2. /\ stage[f] = "handshake" /\ UNCHANGED <<attempt, outcome, spent>>
          /\ Wait(f, "write", ReadTimeout)
      BY <1>4 DEF Secured
    <2>3. Gone("handshake", 0) + ReadTimeout <= Gone("write", 0)
      BY Parts DEF Gone
    <2> QED
      BY <1>0, <1>w, <2>1, <2>2, <2>3, Parts, OnwardInv
  <1>5. ASSUME NEW f \in Fetchers, Written(f) PROVE HttpInv'
    <2>1. received' = [received EXCEPT ![f] = 0] /\ received[f] = 0
      BY <1>5, NothingReceived DEF Written
    <2>2. /\ stage[f] = "write" /\ UNCHANGED <<attempt, outcome, spent>>
          /\ Wait(f, "headers", ReadTimeout)
      BY <1>5 DEF Written
    <2>3. Gone("write", 0) + ReadTimeout <= Gone("headers", 0) /\ 0 < MaxHead
      <3>1. (0 + 1) * ReadTimeout = ReadTimeout
        BY Parts, Pieces
      <3> QED
        BY <3>1, Parts DEF Gone
    <2> QED
      BY <1>0, <1>w, <2>1, <2>2, <2>3, Parts, OnwardInv
  <1>6. ASSUME NEW f \in Fetchers, Header(f) PROVE HttpInv'
    <2> DEFINE r == received[f]
    <2>1. /\ stage[f] = "headers" /\ UNCHANGED <<attempt, outcome, spent>>
          /\ Wait(f, "headers", ReadTimeout) /\ r + 1 < MaxHead
          /\ received' = [received EXCEPT ![f] = r + 1]
      BY <1>6 DEF Header
    <2>2. r \in Nat /\ r < MaxHead /\ r + 1 \in Nat
      BY <2>1, OneCall, Parts DEF Affordable
    <2> HIDE DEF r
    <2>3. Gone("headers", r) + ReadTimeout <= Gone("headers", r + 1)
      <3>1. /\ (r + 1) * ReadTimeout \in Nat
            /\ (r + 2) * ReadTimeout = (r + 1) * ReadTimeout + ReadTimeout
        BY <2>2, Parts, Pieces
      <3>2. (r + 1) + 1 = r + 2
        BY <2>2
      <3>3. Gone("headers", r + 1) = OpenTime + ReadTimeout + (r + 2) * ReadTimeout
        BY <3>2 DEF Gone
      <3>4. Gone("headers", r) = OpenTime + ReadTimeout + (r + 1) * ReadTimeout
        BY DEF Gone
      <3> QED
        BY <3>1, <3>3, <3>4, Parts
    <2>4. received[f] = r
      BY DEF r
    <2> QED
      BY <1>w, <2>1, <2>2, <2>3, <2>4, Parts, OnwardInv
  <1>7. ASSUME NEW f \in Fetchers, Streaming(f) PROVE HttpInv'
    <2>1. /\ stage[f] = "headers" /\ UNCHANGED <<attempt, outcome, spent>>
          /\ Wait(f, "body", ReadTimeout) /\ received' = [received EXCEPT ![f] = 0]
      BY <1>7 DEF Streaming
    <2>2. received[f] \in Nat /\ received[f] < MaxHead
      BY <2>1, OneCall DEF Affordable
    <2>3. Gone("headers", received[f]) + ReadTimeout <= Gone("body", 0) /\ 0 <= MaxBody
      <3>1. /\ (received[f] + 1) * ReadTimeout \in Nat
            /\ (received[f] + 1) * ReadTimeout <= HeadTime
            /\ (0 + 1) * ReadTimeout = ReadTimeout
        BY <2>2, Parts, Pieces DEF HeadTime
      <3> QED
        BY <3>1, Parts DEF Gone
    <2> QED
      BY <1>0, <1>w, <2>1, <2>2, <2>3, Parts, OnwardInv
  <1>8. ASSUME NEW f \in Fetchers, Chunk(f) PROVE HttpInv'
    <2> DEFINE r == received[f]
    <2>1. r \in Nat /\ r <= MaxBody /\ r + 1 \in Nat
      BY <1>8, OneCall DEF Chunk, Affordable
    <2>2. CASE r = MaxBody
      BY <1>8, <1>w, <2>2, AttemptEndsInv DEF Chunk, Outcomes
    <2>3. CASE r # MaxBody
      <3>1. /\ stage[f] = "body" /\ UNCHANGED <<attempt, outcome, spent>>
            /\ Wait(f, "body", ReadTimeout)
            /\ received' = [received EXCEPT ![f] = r + 1]
        BY <1>8, <2>3 DEF Chunk
      <3> HIDE DEF r
      <3>2. r + 1 <= MaxBody
        BY <2>1, <2>3, Parts
      <3>3. Gone("body", r) + ReadTimeout <= Gone("body", r + 1)
        <4>1. /\ (r + 1) * ReadTimeout \in Nat
              /\ (r + 2) * ReadTimeout = (r + 1) * ReadTimeout + ReadTimeout
          BY <2>1, <3>2, Parts, Pieces
        <4>2. (r + 1) + 1 = r + 2
          BY <2>1
        <4>3. Gone("body", r + 1) = OpenTime + ReadTimeout + HeadTime + (r + 2) * ReadTimeout
          BY <4>2 DEF Gone
        <4>4. Gone("body", r) = OpenTime + ReadTimeout + HeadTime + (r + 1) * ReadTimeout
          BY DEF Gone
        <4> QED
          BY <4>1, <4>3, <4>4, Parts
      <3>4. received[f] = r
        BY DEF r
      <3> QED
        BY <1>w, <2>1, <3>1, <3>2, <3>3, <3>4, Parts, OnwardInv
    <2> QED
      BY <2>2, <2>3
  <1>9. ASSUME NEW f \in Fetchers, Complete(f) PROVE HttpInv'
    BY <1>9, <1>w, AttemptEndsInv DEF Complete, Outcomes
  <1>10. ASSUME NEW f \in Fetchers, Break(f) PROVE HttpInv'
    BY <1>10, AttemptEndsInv DEF Break, Outcomes
  <1>11. ASSUME NEW f \in Fetchers, TimeOut(f) PROVE HttpInv'
    BY <1>11, AttemptEndsInv DEF TimeOut, Outcomes
  <1>12. ASSUME NEW f \in Fetchers, Wake(f) PROVE HttpInv'
    <2>1. /\ stage' = [stage EXCEPT ![f] = "pool"] /\ left' = [left EXCEPT ![f] = ConnectTimeout]
          /\ spent' = [spent EXCEPT ![f] = spent[f]]
          /\ outcome' = [outcome EXCEPT ![f] = outcome[f]]
          /\ attempt' = [attempt EXCEPT ![f] = attempt[f] + 1]
      BY <1>12 DEF Wake, Wait, HttpInv, HttpTypeOK
    <2>2. received' = [received EXCEPT ![f] = 0]
      BY <1>12, NothingReceived DEF Wake
    <2>3. /\ attempt[f] \in 0..MaxRetries /\ outcome[f] \in Outcomes
          /\ spent[f] \in Nat /\ left[f] \in Nat
          /\ attempt[f] < MaxRetries
          /\ spent[f] + left[f] + TimeFrom[attempt[f] + 1] <= TimeFrom[0]
      BY <1>12, OneCall DEF Wake, Affordable
    <2>4. /\ attempt[f] + 1 \in 0..MaxRetries /\ TimeFrom[attempt[f] + 1] \in Nat
          /\ ConnectTimeout \in Nat /\ TimeFrom[0] \in Nat /\ "pool" \in Stages
      BY <2>3, Budget, Parts DEF Stages, Waits
    <2>5. Affordable("pool", attempt[f] + 1, ConnectTimeout, 0, spent[f])
      BY <2>3, <2>4 DEF Affordable, Gone
    <2> QED
      BY <1>0, <2>1, <2>2, <2>3, <2>4, <2>5, OnlyItsOwn
  <1>13. CASE HttpTick
    <2>1. HttpTypeOK'
      BY <1>13 DEF HttpTick, Calling, HttpInv, HttpTypeOK
    <2>2. ASSUME NEW f \in Fetchers
          PROVE  Affordable(stage[f], attempt[f], left[f], received[f], spent[f])'
      <3>0. Affordable(stage[f], attempt[f], left[f], received[f], spent[f])
        BY DEF HttpInv, WithinBudget
      <3>1. CASE f \in Calling
        <4>1. /\ stage'[f] = stage[f] /\ attempt'[f] = attempt[f] /\ received'[f] = received[f]
              /\ left'[f] = left[f] - 1 /\ spent'[f] = spent[f] + 1 /\ stage[f] # "idle"
          BY <1>13, <3>1 DEF HttpTick, Calling, Waits, Exchange, HttpInv, HttpTypeOK
        <4>2. left[f] \in Nat /\ spent[f] \in Nat /\ spent[f] + 1 + (left[f] - 1) = spent[f] + left[f]
          BY OneCall
        <4> QED
          BY <3>0, <4>1, <4>2 DEF Affordable
      <3>2. CASE f \notin Calling
        <4>1. /\ stage'[f] = stage[f] /\ attempt'[f] = attempt[f] /\ received'[f] = received[f]
              /\ left'[f] = left[f] /\ spent'[f] = spent[f]
          BY <1>13, <3>2 DEF HttpTick, HttpInv, HttpTypeOK
        <4> QED
          BY <3>0, <4>1 DEF Affordable
      <3> QED
        BY <3>1, <3>2
    <2> QED
      BY <2>1, <2>2 DEF HttpInv, WithinBudget
  <1>14. CASE UNCHANGED httpVars
    BY <1>14 DEF httpVars, HttpInv, HttpTypeOK, WithinBudget
  <1> QED
    BY <1>1, <1>2, <1>3, <1>4, <1>5, <1>6, <1>7, <1>8, <1>9, <1>10, <1>11, <1>12, <1>13, <1>14
       DEF HttpNext, HttpStep

(* Types, and a bound on what a call has lasted and can still last.         *)
THEOREM HttpInvariance == HttpSpec => []HttpInv
  BY HttpInitInv, HttpNextInv, PTL DEF HttpSpec

(* Every variable keeps its type. *)
THEOREM HttpTypeCorrectness == HttpSpec => []HttpTypeOK
  <1>1. HttpInv => HttpTypeOK
    BY DEF HttpInv
  <1> QED
    BY <1>1, HttpInvariance, PTL

(* No call, and with it no lock held above it, outlasts its attempts and    *)
(* backoffs at their longest.                                               *)
THEOREM CallsStayBounded == HttpSpec => []CallsAreBounded
  <1>1. HttpInv => CallsAreBounded
    <2> SUFFICES ASSUME HttpInv, NEW f \in Fetchers PROVE spent[f] <= TimeFrom[0]
      BY DEF CallsAreBounded
    <2>1. /\ attempt[f] \in 0..MaxRetries /\ received[f] \in Nat
          /\ left[f] \in Nat /\ spent[f] \in Nat /\ stage[f] \in Stages
          /\ TimeFrom[0] \in Nat /\ TimeFrom[attempt[f]] \in Nat
      BY OneCall
    <2>2. CASE stage[f] = "idle"
      BY <2>2, OneCall DEF Affordable
    <2>3. CASE stage[f] = "sleep"
      <3>1. /\ attempt[f] < MaxRetries
            /\ spent[f] + left[f] + TimeFrom[attempt[f] + 1] <= TimeFrom[0]
        BY <2>3, OneCall DEF Affordable
      <3>2. TimeFrom[attempt[f] + 1] \in Nat
        BY <2>1, <3>1, Budget
      <3> QED
        BY <2>1, <3>1, <3>2
    <2>4. CASE stage[f] \in Exchange \union {"pool"}
      <3>1. /\ stage[f] = "headers" => received[f] < MaxHead
            /\ stage[f] = "body" => received[f] <= MaxBody
            /\ spent[f] + left[f] + TimeFrom[attempt[f]] - Gone(stage[f], received[f]) <= TimeFrom[0]
        BY <2>4, OneCall DEF Affordable
      <3>2. Gone(stage[f], received[f]) \in Nat /\ Gone(stage[f], received[f]) <= AttemptTime
        BY <2>1, <2>4, <3>1, GoneIsPart
      <3>3. AttemptTime \in Nat /\ AttemptTime <= TimeFrom[attempt[f]]
        BY <2>1, Budget, Parts
      <3> QED
        BY <2>1, <3>1, <3>2, <3>3
    <2> QED
      BY <2>1, <2>2, <2>3, <2>4 DEF Stages, Waits
  <1> QED
    BY <1>1, HttpInvariance, PTL

-----------------------------------------------------------------------------
(***************************************************************************)
(* SignedCalls                                                             *)
(***************************************************************************)

SentAt(m) == m.issued_at - offset

(* The calls of the network are well-formed, one for each id. *)
SentInv ==
  /\ \A m, n \in sent : m.id = n.id => m = n
  /\ \A m \in sent : m.expires_at = m.issued_at + Validity /\ SentAt(m) <= now
  /\ \A i \in Ids : serves[i] > 0 => \E m \in sent : m.id = i
  /\ \A i \in Ids : verdict[i] # "none" => \E m \in sent : m.id = i

(* The guard remembers what this process has served, until it expires.      *)
GuardInv ==
  \A m \in sent :
    serves[m.id] > 0 /\ now < m.expires_at =>
      [id |-> m.id, expires_at |-> m.expires_at] \in seen

(* A key that calls may still arrive with is known to the verifier.         *)
KeyInv ==
  /\ signingKey \in keys
  /\ keys \in {{"old"}, {"old", "new"}, {"new"}}
  /\ \A m \in sent :
       /\ m.key \in keys \/ now > SentAt(m) + MaxDelay
       /\ m.key = "new" => signingKey = "new"
       /\ m.key = "old" /\ signingKey = "new" => SentAt(m) <= switched

SignedInv ==
  SignedTypeOK /\ SentInv /\ GuardInv /\ KeyInv /\ ServedOnce /\ PromptCallsAreServed

LEMMA SignedInitInv == SignedInit => SignedInv
  BY SignedAssumption
  DEF SignedInit, SignedInv, SignedTypeOK, SentInv, GuardInv, KeyInv, ServedOnce,
      PromptCallsAreServed, Keys, Verdicts, Call

(* What the assumption on the offsets gives for the one there is. *)
LEMMA Clocks ==
  ASSUME SignedTypeOK
  PROVE  /\ Validity \in Nat /\ MaxSkew \in Nat /\ MaxValidity \in Nat /\ MaxDelay \in Nat
         /\ 0 < Validity /\ Validity <= MaxValidity
         /\ offset \in Int /\ now \in Nat
         /\ MaxDelay - MaxSkew <= offset /\ MaxDelay - Validity <= offset /\ offset <= MaxSkew
  BY SignedAssumption DEF SignedTypeOK

(* A call that verify refuses before it asks the guard was not prompt.      *)
LEMMA RefusedIsLate ==
  ASSUME SignedInv, NEW m \in sent, Rejection(m, now) # "served"
  PROVE  now > SentAt(m) + MaxDelay
  <1>1. m \in Call /\ m.issued_at \in Int /\ m.expires_at \in Int
    BY DEF SignedInv, SignedTypeOK, Call
  <1>2. m.expires_at = m.issued_at + Validity /\ m.issued_at - offset <= now
    BY DEF SignedInv, SentInv, SentAt
  <1>3. /\ Validity \in Nat /\ MaxSkew \in Nat /\ MaxValidity \in Nat /\ MaxDelay \in Nat
        /\ 0 < Validity /\ Validity <= MaxValidity
        /\ offset \in Int /\ now \in Nat
        /\ MaxDelay - MaxSkew <= offset /\ MaxDelay - Validity <= offset /\ offset <= MaxSkew
    BY Clocks DEF SignedInv
  <1>4. ~(m.expires_at <= m.issued_at) /\ ~(m.expires_at - m.issued_at > MaxValidity)
    BY <1>1, <1>2, <1>3
  <1>5. CASE m.issued_at - now > MaxSkew \/ now - m.issued_at > MaxSkew
    BY <1>1, <1>2, <1>3, <1>5 DEF SentAt
  <1>6. CASE now > m.expires_at
    BY <1>1, <1>2, <1>3, <1>6 DEF SentAt
  <1>7. CASE m.key \notin keys
    BY <1>7 DEF SignedInv, KeyInv
  <1> QED
    BY <1>4, <1>5, <1>6, <1>7 DEF Rejection

-----------------------------------------------------------------------------
LEMMA SignInv == ASSUME SignedInv, NEW i \in Ids, Sign(i) PROVE SignedInv'
  <1> DEFINE new == [id |-> i, issued_at |-> now + offset,
                     expires_at |-> now + offset + Validity, key |-> signingKey]
  <1>1. /\ sent' = sent \union {new} /\ \A m \in sent : m.id # i
        /\ UNCHANGED <<now, offset, signingKey, keys, switched, seen, serves, verdict>>
    BY DEF Sign
  <1>2. /\ Validity \in Nat /\ offset \in Int /\ now \in Nat /\ MaxDelay \in Nat
    BY Clocks DEF SignedInv
  <1>3. /\ new \in Call /\ new.id = i /\ new.key = signingKey
        /\ new.expires_at = new.issued_at + Validity /\ new.issued_at - offset = now
    BY <1>2 DEF SignedInv, SignedTypeOK, Call
  <1>4. serves[i] = 0 /\ verdict[i] = "none"
    BY <1>1 DEF SignedInv, SentInv, SignedTypeOK
  <1> HIDE DEF new
  <1>5. SignedTypeOK'
    BY <1>1, <1>3 DEF SignedInv, SignedTypeOK
  <1>6. SentInv'
    BY <1>1, <1>2, <1>3 DEF SignedInv, SentInv, SentAt
  <1>7. GuardInv'
    BY <1>1, <1>3, <1>4 DEF SignedInv, GuardInv
  <1>8. KeyInv'
    <2>1. signingKey \in keys /\ keys \in {{"old"}, {"old", "new"}, {"new"}} /\ signingKey \in Keys
      BY DEF SignedInv, KeyInv, SignedTypeOK
    <2>2. ~(new.key = "old" /\ signingKey = "new") /\ (new.key = "new" => signingKey = "new")
      BY <1>3
    <2> QED
      BY <1>1, <1>3, <2>1, <2>2 DEF SignedInv, KeyInv, SentAt
  <1>9. ServedOnce' /\ PromptCallsAreServed'
    BY <1>1, <1>3, <1>4 DEF SignedInv, ServedOnce, PromptCallsAreServed
  <1> QED
    BY <1>5, <1>6, <1>7, <1>8, <1>9 DEF SignedInv

LEMMA DeliverInv ==
  ASSUME SignedInv, NEW m \in sent, NEW t \in now..now + 1, Deliver(m, t) PROVE SignedInv'
  <1> DEFINE r == Rejection(m, now)
             known == \E e \in Remembered(t) : e.id = m.id
             entry == [id |-> m.id, expires_at |-> m.expires_at]
             served == r = "served" /\ ~known
  <1>1. /\ now' = t
        /\ seen' = IF r # "served" THEN seen
                   ELSE IF known THEN Remembered(t) ELSE Remembered(t) \union {entry}
        /\ verdict' = [verdict EXCEPT ![m.id] =
                         IF r = "served" /\ known THEN "replay_detected" ELSE r]
        /\ serves' = IF r = "served" /\ ~known /\ serves[m.id] < 2
                     THEN [serves EXCEPT ![m.id] = @ + 1] ELSE serves
        /\ UNCHANGED <<offset, signingKey, keys, switched, sent>>
    BY DEF Deliver
  <1>2. /\ m \in Call /\ m.id \in Ids /\ m.expires_at \in Int /\ entry \in [id : Ids, expires_at : Int]
        /\ now \in Nat /\ t \in Nat /\ now <= t /\ offset \in Int /\ MaxDelay \in Nat
        /\ \A n \in sent : n.id \in Ids /\ n.expires_at \in Int /\ n.issued_at \in Int
        /\ serves \in [Ids -> 0..2] /\ verdict \in [Ids -> Verdicts]
        /\ seen \subseteq [id : Ids, expires_at : Int]
    BY Clocks DEF SignedInv, SignedTypeOK, Call
  <1>3. r \in Verdicts \ {"none", "replay_detected"}
    BY DEF Rejection, Verdicts
  <1>4. r # "served" => now > SentAt(m) + MaxDelay
    BY RefusedIsLate
  <1>5. \A n \in sent : n.id = m.id => n = m
    BY DEF SignedInv, SentInv
  <1>6. Remembered(t) = {e \in seen : e.expires_at > t}
    BY DEF Remembered
  <1> HIDE DEF r, known, entry
  <1>7. SignedTypeOK'
    <2>1. seen' \subseteq [id : Ids, expires_at : Int]
      BY <1>1, <1>2, <1>6
    <2>2. serves' \in [Ids -> 0..2]
      BY <1>1, <1>2
    <2>3. verdict' \in [Ids -> Verdicts]
      BY <1>1, <1>2, <1>3 DEF Verdicts
    <2> QED
      BY <1>1, <1>2, <2>1, <2>2, <2>3 DEF SignedInv, SignedTypeOK
  <1>8. SentInv'
    <2>1. \A n \in sent : SentAt(n)' = SentAt(n)
      BY <1>1 DEF SentAt
    <2>2. /\ \A n, o \in sent : n.id = o.id => n = o
          /\ \A n \in sent : n.expires_at = n.issued_at + Validity /\ SentAt(n) <= now /\ SentAt(n) \in Int
      BY <1>2 DEF SignedInv, SentInv, SentAt
    <2>3. \A i \in Ids : serves'[i] > 0 => \E n \in sent : n.id = i
      BY <1>1, <1>2 DEF SignedInv, SentInv
    <2>4. \A i \in Ids : verdict'[i] # "none" => \E n \in sent : n.id = i
      BY <1>1, <1>2 DEF SignedInv, SentInv
    <2> QED
      BY <1>1, <1>2, <2>1, <2>2, <2>3, <2>4 DEF SentInv
  <1>9. GuardInv' /\ ServedOnce'
    <2> SUFFICES ASSUME NEW n \in sent
                 PROVE  /\ serves'[n.id] > 0 /\ t < n.expires_at =>
                             [id |-> n.id, expires_at |-> n.expires_at] \in seen'
                        /\ serves'[n.id] > 1 => t >= n.expires_at
      BY <1>1 DEF GuardInv, ServedOnce
    <2>1. /\ serves[n.id] > 0 /\ now < n.expires_at =>
               [id |-> n.id, expires_at |-> n.expires_at] \in seen
          /\ serves[n.id] > 1 => now >= n.expires_at
      BY DEF SignedInv, GuardInv, ServedOnce
    <2>2. t < n.expires_at /\ [id |-> n.id, expires_at |-> n.expires_at] \in seen =>
            [id |-> n.id, expires_at |-> n.expires_at] \in Remembered(t)
      BY <1>2, <1>6
    <2>3. Remembered(t) \subseteq seen' \/ seen' = seen
      BY <1>1
    <2>4. CASE n.id # m.id \/ ~served
      <3>1. serves'[n.id] = serves[n.id]
        BY <1>1, <1>2, <2>4
      <3> QED
        BY <1>2, <2>1, <2>2, <2>3, <3>1
    <2>5. CASE n = m /\ served
      <3>1. entry \in seen'
        BY <1>1, <2>5
      <3>2. serves[m.id] > 0 => t >= m.expires_at
        <4> SUFFICES ASSUME serves[m.id] > 0, t < m.expires_at PROVE FALSE
          BY <1>2
        <4>1. [id |-> m.id, expires_at |-> m.expires_at] \in Remembered(t)
          BY <1>2, <2>1, <2>2, <2>5
        <4> QED
          BY <4>1, <2>5 DEF known
      <3>3. serves'[m.id] > 1 => serves[m.id] > 0
        <4>1. serves[m.id] \in 0..2 /\ (serves'[m.id] = serves[m.id] \/ serves'[m.id] = serves[m.id] + 1)
          BY <1>1, <1>2
        <4> QED
          BY <4>1
      <3> QED
        BY <2>5, <3>1, <3>2, <3>3 DEF entry
    <2> QED
      BY <1>5, <2>4, <2>5
  <1>10. KeyInv'
    <2>1. \A n \in sent : SentAt(n)' = SentAt(n) /\ SentAt(n) \in Int
      BY <1>1, <1>2 DEF SentAt
    <2> QED
      BY <1>1, <1>2, <2>1 DEF SignedInv, KeyInv
  <1>11. PromptCallsAreServed'
    <2> SUFFICES ASSUME NEW n \in sent,
                        verdict'[n.id] \notin {"none", "served", "replay_detected"}
                 PROVE  t > SentAt(n) + MaxDelay
      BY <1>1 DEF PromptCallsAreServed, SentAt
    <2>1. SentAt(n) \in Int
      BY <1>2 DEF SentAt
    <2>2. CASE n.id # m.id
      <3>1. verdict'[n.id] = verdict[n.id]
        BY <1>1, <1>2, <2>2
      <3>2. now > SentAt(n) + MaxDelay
        BY <3>1 DEF SignedInv, PromptCallsAreServed, SentAt
      <3> QED
        BY <1>2, <2>1, <3>2
    <2>3. CASE n = m
      <3>1. r # "served"
        BY <1>1, <1>2, <2>3
      <3> QED
        BY <1>2, <1>4, <2>1, <2>3, <3>1
    <2> QED
      BY <1>5, <2>2, <2>3
  <1> QED
    BY <1>7, <1>8, <1>9, <1>10, <1>11 DEF SignedInv

(* A restart forgets what was served along with that it was served. *)
LEMMA RestartInv ==
  ASSUME SignedInv, NEW ks \in {{"old"}, {"old", "new"}, {"new"}}, RestartVerifier(ks),
         signingKey \in ks,
         \A m \in sent : m.key \in ks \/ now > SentAt(m) + MaxDelay
  PROVE  SignedInv'
  <1>1. /\ keys' = ks /\ seen' = {} /\ serves' = [i \in Ids |-> 0]
        /\ UNCHANGED <<now, offset, signingKey, switched, sent, verdict>>
    BY DEF RestartVerifier
  <1>2. SignedTypeOK'
    BY <1>1 DEF SignedInv, SignedTypeOK, Keys
  <1>3. SentInv' /\ GuardInv' /\ ServedOnce' /\ PromptCallsAreServed'
    <2>1. \A m \in sent : m.id \in Ids
      BY DEF SignedInv, SignedTypeOK, Call
    <2> QED
      BY <1>1, <2>1 DEF SignedInv, SentInv, GuardInv, ServedOnce, PromptCallsAreServed, SentAt
  <1>4. KeyInv'
    BY <1>1 DEF SignedInv, KeyInv, SentAt
  <1> QED
    BY <1>2, <1>3, <1>4 DEF SignedInv

LEMMA SignedNextInv == SignedInv /\ [SignedNext]_signedVars => SignedInv'
  <1> SUFFICES ASSUME SignedInv, [SignedNext]_signedVars PROVE SignedInv'
    OBVIOUS
  <1>0. /\ now \in Nat /\ MaxDelay \in Nat /\ switched \in Nat
        /\ \A m \in sent : m.key \in Keys /\ SentAt(m) \in Int
    BY Clocks DEF SignedInv, SignedTypeOK, Call, SentAt
  <1>1. ASSUME NEW i \in Ids, Sign(i) PROVE SignedInv'
    BY <1>1, SignInv
  <1>2. ASSUME NEW m \in sent, NEW t \in now..now + 1, Deliver(m, t) PROVE SignedInv'
    BY <1>2, DeliverInv
  <1>3. CASE RestartVerifier(keys)
    BY <1>3, RestartInv DEF SignedInv, KeyInv
  <1>4. CASE AddKey
    <2>1. signingKey \in {"old", "new"} /\ \A m \in sent : m.key \in {"old", "new"}
      BY <1>0 DEF SignedInv, SignedTypeOK, Keys
    <2>2. {"new", "old"} = {"old", "new"}
      OBVIOUS
    <2> QED
      BY <1>4, <2>1, <2>2, RestartInv DEF AddKey
  <1>5. CASE TakeKey
    <2>1. /\ signingKey = "old" /\ "new" \in keys /\ signingKey' = "new" /\ switched' = now
          /\ UNCHANGED <<now, offset, keys, sent, seen, serves, verdict>>
      BY <1>5 DEF TakeKey
    <2>2. SignedTypeOK'
      BY <1>0, <2>1 DEF SignedInv, SignedTypeOK, Keys
    <2>3. SentInv' /\ GuardInv' /\ ServedOnce' /\ PromptCallsAreServed'
      BY <2>1 DEF SignedInv, SentInv, GuardInv, ServedOnce, PromptCallsAreServed, SentAt
    <2>4. KeyInv'
      BY <2>1 DEF SignedInv, KeyInv, SentInv, SentAt
    <2> QED
      BY <2>2, <2>3, <2>4 DEF SignedInv
  <1>6. CASE RetireKey
    <2>1. signingKey = "new" /\ now > switched + MaxDelay /\ RestartVerifier({"new"})
      BY <1>6 DEF RetireKey
    <2>2. \A m \in sent : m.key \in {"new"} \/ now > SentAt(m) + MaxDelay
      <3> SUFFICES ASSUME NEW m \in sent, m.key = "old" PROVE now > SentAt(m) + MaxDelay
        BY <1>0 DEF Keys
      <3>1. SentAt(m) <= switched
        BY <2>1 DEF SignedInv, KeyInv
      <3> QED
        BY <1>0, <2>1, <3>1
    <2> QED
      BY <2>1, <2>2, RestartInv
  <1>7. CASE SignedTick
    <2>1. now' = now + 1 /\ UNCHANGED <<offset, signingKey, keys, switched, sent, seen, serves, verdict>>
      BY <1>7 DEF SignedTick
    <2>2. \A m \in sent : m.id \in Ids /\ m.expires_at \in Int /\ m.issued_at \in Int
      BY DEF SignedInv, SignedTypeOK, Call
    <2>3. SignedTypeOK'
      BY <1>0, <2>1 DEF SignedInv, SignedTypeOK
    <2>4. SentInv' /\ KeyInv'
      BY <1>0, <2>1 DEF SignedInv, SentInv, KeyInv, SentAt
    <2>5. GuardInv' /\ ServedOnce' 
      BY <1>0, <2>1, <2>2 DEF SignedInv, GuardInv, ServedOnce
    <2>6. PromptCallsAreServed'
      BY <1>0, <2>1 DEF SignedInv, PromptCallsAreServed, SentAt
    <2> QED
      BY <2>3, <2>4, <2>5, <2>6 DEF SignedInv
  <1>8. CASE UNCHANGED signedVars
    BY <1>8 DEF signedVars, SignedInv, SignedTypeOK, SentInv, GuardInv, KeyInv, ServedOnce,
                PromptCallsAreServed, SentAt
  <1> QED
    BY <1>1, <1>2, <1>3, <1>4, <1>5, <1>6, <1>7, <1>8 DEF SignedNext

(* Types, the memory of the guard and the keys in use. *)
THEOREM SignedInvariance == SignedSpec => []SignedInv
  BY SignedInitInv, SignedNextInv, PTL DEF SignedSpec

(* Every variable keeps its type. *)
THEOREM SignedTypeCorrectness == SignedSpec => []SignedTypeOK
  <1>1. SignedInv => SignedTypeOK
    BY DEF SignedInv
  <1> QED
    BY <1>1, SignedInvariance, PTL

(* A process serves a call once before the instant at which it expires.     *)
THEOREM ServedAtMostOnce == SignedSpec => []ServedOnce
  <1>1. SignedInv => ServedOnce
    BY DEF SignedInv
  <1> QED
    BY <1>1, SignedInvariance, PTL

(* Neither skew nor restarts nor a rotation refuse a call that is prompt.   *)
THEOREM PromptMeansServed == SignedSpec => []PromptCallsAreServed
  <1>1. SignedInv => PromptCallsAreServed
    BY DEF SignedInv
  <1> QED
    BY <1>1, SignedInvariance, PTL

-----------------------------------------------------------------------------
(***************************************************************************)
(* LegacyRegulations                                                       *)
(***************************************************************************)

(* An edition that is about to be saved was published when it was scraped,  *)
(* and one in the table within the unit of time before its row was written; *)
(* neither is older than what a deleted table may show again.               *)
Since(text, time) == text \in Editions /\ ended[text] >= time /\ text >= purged

ScrapeOK(x) ==
  /\ {"pc", "host", "got", "at"} \subseteq DOMAIN x
  /\ x.pc \notin Answered => x.host \in Hosts
  /\ x.pc = "save" => /\ x.at \in Nat /\ x.at <= hour /\ hour <= x.at + 1
                      /\ x.got # Miss /\ ~keeps => Since(x.got, x.at)

RowOK(r) ==
  /\ r.at \in Nat /\ r.at <= hour
  /\ r.text # Miss /\ ~keeps => Since(r.text, r.at - 1)

RegulationsInv ==
  /\ hour \in 0..LastHour /\ edition \in Editions /\ purged \in Editions /\ purged <= edition
  /\ ended \in [Editions -> Nat] /\ \A e \in Editions : e >= edition => ended[e] = Never
  /\ ~keeps => \A h \in Hosts : kept[h] = NoPage
  /\ row # NoRow => RowOK(row)
  /\ DOMAIN scrape = Threads /\ \A t \in Threads : ScrapeOK(scrape[t])

LEMMA RegulationsInvInit == RegulationsInit => RegulationsInv
<1> SUFFICES ASSUME RegulationsInit PROVE RegulationsInv
  OBVIOUS
<1>1. ScrapeOK(NoScrape)
  BY DEF ScrapeOK, NoScrape, Answered
<1>2. Never \in Nat /\ 0 \in Editions /\ hour \in 0..LastHour
  BY RegulationsAssumption DEF RegulationsInit, Never, Editions
<1> QED
  BY <1>1, <1>2 DEF RegulationsInit, RegulationsInv

(* Steps of a thread that save nothing.                                     *)
LEMMA ThreadStep ==
  ASSUME RegulationsInv, UNCHANGED <<hour, keeps, edition, ended, purged>>,
         ~keeps => \A h \in Hosts : kept'[h] = NoPage,
         row' \in {row, NoRow} \/ RowOK(row'),
         DOMAIN scrape' = Threads,
         \A t \in Threads : scrape'[t] = scrape[t] \/ ScrapeOK(scrape'[t])
  PROVE  RegulationsInv'
<1>1. ASSUME NEW x, ScrapeOK(x) PROVE ScrapeOK(x)'
  BY <1>1 DEF ScrapeOK, Since
<1>2. ASSUME NEW r, RowOK(r) PROVE RowOK(r)'
  BY <1>2 DEF RowOK, Since
<1>3. \A t \in Threads : ScrapeOK(scrape[t])'
  BY <1>1 DEF RegulationsInv
<1>4. row' # NoRow => RowOK(row)'
  BY <1>2 DEF RegulationsInv
<1> QED
  BY <1>3, <1>4 DEF RegulationsInv

(* ... of which an answer is one.                                           *)
LEMMA AnswerOK ==
  ASSUME RegulationsInv, NEW t \in Threads, NEW text, Answer(t, text)
  PROVE  /\ DOMAIN scrape' = Threads
         /\ \A u \in Threads : scrape'[u] = scrape[u] \/ ScrapeOK(scrape'[u])
<1> DEFINE x == IF t \in Hosts THEN NoScrape
                ELSE [scrape[t] EXCEPT !.pc = IF text = Miss THEN "snapshot" ELSE "live",
                                       !.got = text, !.at = 0]
<1>1. scrape' = [scrape EXCEPT ![t] = x]
  BY DEF Answer
<1>2. ScrapeOK(x)
  BY DEF RegulationsInv, ScrapeOK, NoScrape, Answered
<1> HIDE DEF x
<1> QED
  BY <1>1, <1>2 DEF RegulationsInv

LEMMA AtOK ==
  ASSUME RegulationsInv, NEW t \in Threads, NEW pc, pc # "save", scrape' = At(t, pc),
         scrape[t].pc \notin Answered
  PROVE  /\ DOMAIN scrape' = Threads
         /\ \A u \in Threads : scrape'[u] = scrape[u] \/ ScrapeOK(scrape'[u])
<1>1. ScrapeOK([scrape[t] EXCEPT !.pc = pc])
  BY DEF RegulationsInv, ScrapeOK
<1> QED
  BY <1>1 DEF RegulationsInv, At

LEMMA AskOK == ASSUME RegulationsInv, NEW l \in Lookups, NEW h \in Hosts, Ask(l, h)
               PROVE  RegulationsInv'
<1> DEFINE x == [NoScrape EXCEPT !.pc = "cached", !.host = h]
<1>1. ScrapeOK(x)
  BY DEF NoScrape, ScrapeOK
<1>2. \A u \in Threads : scrape'[u] = scrape[u] \/ ScrapeOK(scrape'[u])
  BY <1>1 DEF Ask, RegulationsInv, Threads
<1> QED
  BY <1>2, ThreadStep DEF Ask, RegulationsInv

LEMMA BeginOK == ASSUME RegulationsInv, NEW h \in Hosts, Begin(h) PROVE RegulationsInv'
<1> DEFINE x == [NoScrape EXCEPT !.pc = "look", !.host = h]
<1>1. ScrapeOK(x)
  BY DEF NoScrape, ScrapeOK
<1>2. \A u \in Threads : scrape'[u] = scrape[u] \/ ScrapeOK(scrape'[u])
  BY <1>1 DEF Begin, RegulationsInv, Threads
<1> QED
  BY <1>2, ThreadStep DEF Begin, RegulationsInv

LEMMA ReadFreshOK == ASSUME RegulationsInv, NEW l \in Lookups, ReadFresh(l) PROVE RegulationsInv'
<1>1. l \in Threads
  BY DEF Threads
<1> QED
  BY <1>1, AnswerOK, AtOK, ThreadStep DEF ReadFresh, RegulationsInv, Answered

LEMMA LookAgainOK == ASSUME RegulationsInv, NEW t \in Threads, LookAgain(t) PROVE RegulationsInv'
BY AnswerOK, AtOK, ThreadStep DEF LookAgain, RegulationsInv, Answered

LEMMA RaiseOK == ASSUME RegulationsInv, NEW t \in Threads, Raise(t) PROVE RegulationsInv'
BY AnswerOK, ThreadStep DEF Raise, RegulationsInv

LEMMA ReadAnyOK == ASSUME RegulationsInv, NEW l \in Lookups, ReadAny(l) PROVE RegulationsInv'
<1>1. l \in Threads
  BY DEF Threads
<1>2. CASE row = NoRow /\ scrape' = At(l, "look")
  BY <1>1, <1>2, AtOK, ThreadStep DEF ReadAny, RegulationsInv, Answered
<1>3. CASE scrape' = [scrape EXCEPT ![l].pc = "live_stale", ![l].got = row.text]
  <2>1. ScrapeOK([scrape[l] EXCEPT !.pc = "live_stale", !.got = row.text])
    BY <1>1 DEF RegulationsInv, ScrapeOK, Answered
  <2>2. \A u \in Threads : scrape'[u] = scrape[u] \/ ScrapeOK(scrape'[u])
    BY <1>1, <1>3, <2>1 DEF RegulationsInv
  <2> QED
    BY <1>3, <2>2, ThreadStep DEF ReadAny, RegulationsInv
<1> QED
  BY <1>2, <1>3 DEF ReadAny

LEMMA FetchOK == ASSUME RegulationsInv, NEW t \in Threads, Fetch(t) PROVE RegulationsInv'
<1> DEFINE h == scrape[t].host
<1>1. PICK text : /\ Scraped(t, text)
                  /\ \/ kept[h] # NoPage /\ UNCHANGED kept
                     \/ text \in {Parsed(edition), Miss} /\ (UNCHANGED kept \/ keeps)
  BY DEF Fetch
<1>2. ~keeps => \A g \in Hosts : kept'[g] = NoPage
  BY <1>1 DEF RegulationsInv
<1>3. h \in Hosts
  BY DEF Fetch, RegulationsInv, ScrapeOK, Answered
<1>4. text # Miss /\ ~keeps => text = edition
  BY <1>1, <1>3 DEF RegulationsInv, Parsed
<1>5. text # Miss /\ ~keeps => Since(text, hour)
  BY <1>4, RegulationsAssumption DEF RegulationsInv, Since, Editions, Never
<1> DEFINE x == [scrape[t] EXCEPT !.pc = "save", !.got = text, !.at = hour]
<1>6. ScrapeOK(x)
  <2>1. /\ x.pc = "save" /\ x.got = text /\ x.at = hour /\ x.host = h
        /\ {"pc", "host", "got", "at"} \subseteq DOMAIN x
    BY DEF RegulationsInv, ScrapeOK
  <2> HIDE DEF x
  <2> QED
    BY <1>3, <1>5, <2>1 DEF ScrapeOK, RegulationsInv
<1>7. \A u \in Threads : scrape'[u] = scrape[u] \/ ScrapeOK(scrape'[u])
  BY <1>1, <1>6 DEF Scraped, RegulationsInv
<1> QED
  BY <1>1, <1>2, <1>7, ThreadStep DEF Fetch, Scraped, RegulationsInv

LEMMA SaveScrapeOK == ASSUME RegulationsInv, NEW t \in Threads, SaveScrape(t) PROVE RegulationsInv'
<1>1. row' = row \/ RowOK(row')
  <2>1. ASSUME row' = [text |-> scrape[t].got, at |-> hour] PROVE RowOK(row')
    BY <2>1, RegulationsAssumption DEF SaveScrape, RegulationsInv, ScrapeOK, RowOK, Since, Editions
  <2> QED
    BY <2>1 DEF SaveScrape
<1> QED
  BY <1>1, AnswerOK, ThreadStep DEF SaveScrape, RegulationsInv

LEMMA RestartHostOK == ASSUME RegulationsInv, NEW h \in Hosts, RestartHost(h) PROVE RegulationsInv'
<1>1. ScrapeOK(NoScrape)
  BY DEF ScrapeOK, NoScrape, Answered
<1>2. \A u \in Threads : scrape'[u] = scrape[u] \/ ScrapeOK(scrape'[u])
  BY <1>1 DEF RestartHost
<1> QED
  BY <1>2, ThreadStep DEF RestartHost, RegulationsInv

(* A table is deleted with no scrape about to be saved, or keeps its claim. *)
LEMMA InvalidateOK == ASSUME RegulationsInv, invalidate_cache PROVE RegulationsInv'
<1>1. CASE \E t \in Threads : scrape[t].pc = "save"
  BY <1>1, ThreadStep DEF invalidate_cache, RegulationsInv
<1>2. CASE \A t \in Threads : scrape[t].pc # "save"
  <2>1. \A t \in Threads : ScrapeOK(scrape[t])'
    BY <1>2 DEF invalidate_cache, RegulationsInv, ScrapeOK
  <2> QED
    BY <1>2, <2>1 DEF invalidate_cache, RegulationsInv, Editions
<1> QED
  BY <1>1, <1>2

LEMMA PublishOK == ASSUME RegulationsInv, Publish PROVE RegulationsInv'
<1>1. /\ edition' = edition + 1 /\ edition \in Nat /\ edition' \in Editions /\ hour \in Nat
      /\ ended' = [ended EXCEPT ![edition] = hour]
      /\ UNCHANGED <<hour, keeps, kept, row, scrape, purged>>
  BY RegulationsAssumption DEF Publish, RegulationsInv, Editions
<1>2. /\ ended' \in [Editions -> Nat]
      /\ \A e \in Editions : ended'[e] = ended[e] \/ (e = edition /\ ended'[e] = hour)
  BY <1>1 DEF RegulationsInv
<1>3. ASSUME NEW text, NEW time \in Int, time <= hour, Since(text, time) PROVE Since(text, time)'
  BY <1>1, <1>2, <1>3 DEF Since
<1>4. \A t \in Threads : ScrapeOK(scrape[t])'
  BY <1>1, <1>3 DEF ScrapeOK, RegulationsInv
<1>5. row' # NoRow => RowOK(row)'
  BY <1>1, <1>3 DEF RowOK, RegulationsInv
<1>6. \A e \in Editions : e >= edition' => ended'[e] = Never
  BY <1>1, <1>2 DEF RegulationsInv, Editions
<1>7. purged <= edition'
  BY <1>1 DEF RegulationsInv, Editions
<1> QED
  BY <1>1, <1>2, <1>4, <1>5, <1>6, <1>7 DEF RegulationsInv

LEMMA LaterOK == ASSUME RegulationsInv, Later PROVE RegulationsInv'
<1>1. /\ hour' = hour + 1 /\ hour \in Nat /\ hour' \in 0..LastHour
      /\ UNCHANGED <<keeps, edition, ended, kept, row, scrape, purged>>
  BY RegulationsAssumption DEF Later, RegulationsInv
<1>2. \A t \in Threads : ScrapeOK(scrape[t])'
  BY <1>1 DEF Later, ScrapeOK, RegulationsInv, Since
<1>3. row' # NoRow => RowOK(row)'
  BY <1>1 DEF RowOK, RegulationsInv, Since
<1> QED
  BY <1>1, <1>2, <1>3 DEF RegulationsInv

LEMMA RegulationsInvNext ==
  RegulationsInv /\ [RegulationsNext]_regVars => RegulationsInv'
<1> SUFFICES ASSUME RegulationsInv, [RegulationsNext]_regVars PROVE RegulationsInv'
  OBVIOUS
<1>1. CASE UNCHANGED regVars
  BY <1>1, ThreadStep DEF regVars, RegulationsInv
<1>2. CASE RegulationsNext
  BY <1>2, AskOK, ReadFreshOK, ReadAnyOK, LookAgainOK, FetchOK, SaveScrapeOK, RaiseOK, BeginOK,
     RestartHostOK, InvalidateOK, PublishOK, LaterOK DEF RegulationsNext, ScrapeStep
<1> QED
  BY <1>1, <1>2

(* An answer called live is what a fresh row or a scrape holds.             *)
LEMMA AnswersOfThreads ==
  ASSUME RegulationsInv, NEW t \in Threads, NEW text, Answer(t, text), NEW l \in Lookups,
         scrape[l].pc # "live", scrape'[l].pc = "live"
  PROVE  text # Miss /\ scrape'[l].got = text
<1>1. l \in Threads
  BY DEF Threads
<1> DEFINE x == IF t \in Hosts THEN NoScrape
                ELSE [scrape[t] EXCEPT !.pc = IF text = Miss THEN "snapshot" ELSE "live",
                                       !.got = text, !.at = 0]
<1>2. l = t /\ scrape'[l] = x
  BY <1>1 DEF Answer, RegulationsInv
<1>3. x.pc = "live" => text # Miss /\ x.got = text
  BY DEF RegulationsInv, ScrapeOK, NoScrape
<1> QED
  BY <1>2, <1>3

LEMMA LiveStep ==
  ASSUME RegulationsInv, [RegulationsNext]_regVars, NEW l \in Lookups,
         scrape[l].pc # "live", scrape'[l].pc = "live", ~keeps
  PROVE  ended[scrape'[l].got] >= hour - TTL - 1 /\ scrape'[l].got >= purged
<1>1. l \in Threads
  BY DEF Threads
<1>2. ASSUME NEW t \in Threads, NEW y, scrape' = [scrape EXCEPT ![t] = y], y.pc # "live"
      PROVE  FALSE
  BY <1>1, <1>2 DEF RegulationsInv
<1>3. ASSUME NEW t \in Threads, NEW pc, scrape' = At(t, pc), pc # "live" PROVE FALSE
  BY <1>1, <1>3 DEF At, RegulationsInv, ScrapeOK
<1>4. ASSUME NEW t \in Threads, Fresh, Answer(t, row.text)
      PROVE  ended[scrape'[l].got] >= hour - TTL - 1 /\ scrape'[l].got >= purged
  <2>1. row.text # Miss /\ scrape'[l].got = row.text
    BY <1>4, AnswersOfThreads
  <2>2. RowOK(row) /\ hour - row.at <= TTL
    BY <1>4 DEF Fresh, RegulationsInv
  <2> QED
    BY <2>1, <2>2, RegulationsAssumption DEF RowOK, Since, RegulationsInv
<1>5. ASSUME NEW t \in Threads, SaveScrape(t)
      PROVE  ended[scrape'[l].got] >= hour - TTL - 1 /\ scrape'[l].got >= purged
  <2>1. scrape[t].got # Miss /\ scrape'[l].got = scrape[t].got
    BY <1>5, AnswersOfThreads DEF SaveScrape
  <2>2. ScrapeOK(scrape[t]) /\ scrape[t].pc = "save"
    BY <1>5 DEF SaveScrape, RegulationsInv
  <2> QED
    BY <2>1, <2>2, RegulationsAssumption DEF ScrapeOK, Since, RegulationsInv
<1>6. ASSUME NEW k \in Lookups, (\E h \in Hosts : Ask(k, h)) \/ ReadFresh(k) \/ ReadAny(k)
      PROVE  ended[scrape'[l].got] >= hour - TTL - 1 /\ scrape'[l].got >= purged
  <2>1. k \in Threads
    BY DEF Threads
  <2>2. ASSUME NEW h \in Hosts, Ask(k, h) PROVE FALSE
    <3>1. [NoScrape EXCEPT !.pc = "cached", !.host = h].pc # "live"
      BY DEF NoScrape
    <3> QED
      BY <1>2, <2>1, <2>2, <3>1 DEF Ask
  <2>3. CASE ReadFresh(k)
    BY <1>3, <1>4, <2>1, <2>3 DEF ReadFresh
  <2>4. CASE ReadAny(k)
    <3>1. ~(scrape' = At(k, "look"))
      BY <1>3, <2>1
    <3>2. scrape' = [scrape EXCEPT ![k].pc = "live_stale", ![k].got = row.text]
      BY <2>4, <3>1 DEF ReadAny
    <3>3. [scrape[k] EXCEPT !.pc = "live_stale", !.got = row.text].pc # "live"
      BY <2>1 DEF RegulationsInv, ScrapeOK
    <3> QED
      BY <1>2, <2>1, <3>2, <3>3
  <2> QED
    BY <1>6, <2>2, <2>3, <2>4
<1>7. ASSUME NEW t \in Threads, LookAgain(t) \/ Fetch(t) \/ Raise(t)
      PROVE  ended[scrape'[l].got] >= hour - TTL - 1 /\ scrape'[l].got >= purged
  <2>1. CASE LookAgain(t)
    BY <1>3, <1>4, <2>1 DEF LookAgain
  <2>2. CASE Fetch(t)
    <3>1. PICK text : Scraped(t, text)
      BY <2>2 DEF Fetch
    <3>2. [scrape[t] EXCEPT !.pc = "save", !.got = text, !.at = hour].pc # "live"
      BY DEF RegulationsInv, ScrapeOK
    <3> QED
      BY ZenonT(30), <1>2, <3>1, <3>2 DEF Scraped
  <2>3. CASE Raise(t)
    BY <2>3, AnswersOfThreads DEF Raise
  <2> QED
    BY <1>7, <2>1, <2>2, <2>3
<1>8. ASSUME NEW h \in Hosts, Begin(h) PROVE FALSE
  <2>1. [NoScrape EXCEPT !.pc = "look", !.host = h].pc # "live" /\ h \in Threads
    BY DEF NoScrape, Threads
  <2> QED
    BY <1>2, <1>8, <2>1 DEF Begin
<1>9. ASSUME NEW h \in Hosts, RestartHost(h) PROVE FALSE
  BY <1>1, <1>9 DEF RestartHost, NoScrape
<1>10. ~(invalidate_cache \/ Publish \/ Later \/ UNCHANGED regVars)
  BY DEF invalidate_cache, Publish, Later, regVars
<1> QED
  BY <1>5, <1>6, <1>7, <1>8, <1>9, <1>10 DEF RegulationsNext, ScrapeStep

(* Where no process keeps the page, an answer called live is what the      *)
(* agency published within the TTL and the time of a scrape, and nothing a *)
(* refresh has thrown away (regulations.py:693-727,                        *)
(* reg_scraper.py:1524-1656), for any number of scrapes, texts and         *)
(* processes that start anew.                                              *)
THEOREM LiveAnswersAreCurrent == RegulationsSpec => LiveIsCurrent
<1>1. RegulationsInv /\ [RegulationsNext]_regVars =>
        [\A l \in Lookups :
           /\ scrape[l].pc # "live" /\ scrape'[l].pc = "live" /\ ~keeps
           => /\ ended[scrape'[l].got] >= hour - TTL - 1
              /\ scrape'[l].got >= purged]_regVars
  BY LiveStep
<1> QED
  BY <1>1, RegulationsInvInit, RegulationsInvNext, PTL DEF RegulationsSpec, LiveIsCurrent
=============================================================================
