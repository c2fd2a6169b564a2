------------------------ MODULE SnapshotCacheProofs ------------------------
(***************************************************************************)
(* Proofs about SnapshotCache, for every number of callers and keys and    *)
(* all values of the two TTLs.                                             *)
(***************************************************************************)
EXTENDS SnapshotCache, TLAPS

LEMMA InitInv == Init => IndInv
  <1> SUFFICES ASSUME Init PROVE IndInv
    OBVIOUS
  <1>1. TypeOK
    BY KeysAssumption DEF Init, TypeOK, MaybeEntry, Request, Ops, NoFetch, NoReply, ReplyKinds
  <1>2. QueueInv
    BY DEF Init, QueueInv, HoldsLock
  <1>3. FallbackIsCurrent /\ SnapshotsInRequestOrder
    BY DEF Init, FallbackIsCurrent, SnapshotsInRequestOrder
  <1>4. OrderInv
    BY DEF Init, OrderInv, NoReply
  <1> QED
    BY <1>1, <1>2, <1>3, <1>4 DEF IndInv

(* Queue lemmas: what a lock's queue looks like after a caller joins it at  *)
(* the tail, and after its head leaves.                                     *)
LEMMA AppendAt ==
  ASSUME NEW S, NEW q \in Seq(S), NEW x \in S
  PROVE  /\ Append(q, x) \in Seq(S)
         /\ Len(Append(q, x)) = Len(q) + 1
         /\ \A i \in 1..Len(q) : Append(q, x)[i] = q[i]
         /\ Append(q, x)[Len(q) + 1] = x
         /\ Append(q, x) # <<>>
         /\ q # <<>> => Head(Append(q, x)) = Head(q)
  <1>1. /\ Append(q, x) \in Seq(S)
        /\ Len(q) \in Nat
        /\ Len(Append(q, x)) = Len(q) + 1
        /\ \A i \in 1..Len(q) : Append(q, x)[i] = q[i]
        /\ Append(q, x)[Len(q) + 1] = x
    OBVIOUS
  <1>2. Append(q, x) # <<>>
    BY <1>1
  <1>3. ASSUME q # <<>> PROVE Head(Append(q, x)) = Head(q)
    <2>1. Head(q) = q[1] /\ 1 \in 1..Len(q)
      BY <1>3, <1>1
    <2>2. Head(Append(q, x)) = Append(q, x)[1]
      BY <1>1, <1>2
    <2> QED
      BY <2>1, <2>2, <1>1
  <1> QED
    BY <1>1, <1>2, <1>3

LEMMA TailAt ==
  ASSUME NEW S, NEW q \in Seq(S), q # <<>>
  PROVE  /\ Tail(q) \in Seq(S)
         /\ Len(q) \in Nat \ {0}
         /\ Len(Tail(q)) = Len(q) - 1
         /\ \A i \in 1..Len(Tail(q)) : Tail(q)[i] = q[i + 1]
         /\ Head(q) = q[1]
         /\ Head(q) \in S
  OBVIOUS

-----------------------------------------------------------------------------
(* Type correctness *)

LEMMA TypeStep == TypeOK /\ QueueInv /\ [Next]_vars => TypeOK'
  <1> SUFFICES ASSUME TypeOK, QueueInv, [Next]_vars PROVE TypeOK'
    OBVIOUS
  <1>0. \A c \in Callers : pc[c] = "fetching" => HoldsLock(c)
    BY DEF QueueInv
  <1> USE DEF TypeOK, MaybeEntry, Ops, ReplyKinds
  <1>1. ASSUME NEW c \in Callers, NEW k \in Keys, NEW op \in Ops, Call(c, k, op)
        PROVE  TypeOK'
    <2>1. queue' \in [Keys -> Seq(Callers)]
      BY <1>1, AppendAt DEF Call, LockOf
    <2>2. req' \in [Callers -> Request]
      BY <1>1 DEF Call, Request
    <2> QED
      BY <1>1, <2>1, <2>2 DEF Call, NoReply
  <1>2. ASSUME NEW c \in Callers, NEW kind \in ReplyKinds, NEW e \in MaybeEntry,
               HoldsLock(c), Answer(c, kind, e)
        PROVE  /\ queue' \in [Keys -> Seq(Callers)]
               /\ pc' \in [Callers -> {"idle", "waiting", "fetching"}]
               /\ fetch' \in [Callers -> [at : Nat, fallback : MaybeEntry]]
               /\ reply' \in [Callers -> [kind : ReplyKinds, entry : MaybeEntry]]
    <2>1. req[c].key \in Keys
      BY DEF Request
    <2>2. queue' \in [Keys -> Seq(Callers)]
      BY <1>2, <2>1, TailAt DEF Answer, HoldsLock, LockOf
    <2> QED
      BY <1>2, <2>2 DEF Answer, NoFetch
  <1>3. ASSUME NEW c \in Callers, Hit(c) PROVE TypeOK'
    BY <1>2, <1>3 DEF Hit, CachedFor, Request
  <1>4. ASSUME NEW c \in Callers, StartFetch(c) PROVE TypeOK'
    BY <1>4 DEF StartFetch, CachedFor, Request
  <1>5. ASSUME NEW c \in Callers, FetchOk(c) PROVE TypeOK'
    <2>1. Fetched(c) \in Entry
      BY DEF Fetched, Entry, Request
    <2> QED
      BY <1>0, <1>2, <1>5, <2>1 DEF FetchOk
  <1>6. ASSUME NEW c \in Callers, FetchFail(c) PROVE TypeOK'
    BY <1>0, <1>2, <1>6 DEF FetchFail
  <1>7. ASSUME Restart PROVE TypeOK'
    BY <1>7 DEF Restart, NoFetch
  <1>8. ASSUME Tick PROVE TypeOK'
    BY <1>8 DEF Tick
  <1>9. ASSUME UNCHANGED vars PROVE TypeOK'
    BY <1>9 DEF vars
  <1> QED
    BY <1>1, <1>3, <1>4, <1>5, <1>6, <1>7, <1>8, <1>9 DEF Next, Step

-----------------------------------------------------------------------------
(* The queue *)

(* A caller that joins the queue is the latest to have asked. *)
LEMMA CallQueue ==
  ASSUME TypeOK, QueueInv, \A c \in Callers : req[c].asked <= clock,
         NEW c \in Callers, NEW k \in Keys, NEW op \in Ops, Call(c, k, op)
  PROVE  QueueInv'
  <1> DEFINE q == queue[k]
             n == Len(q)
  <1>1. /\ q \in Seq(Callers)
        /\ n \in Nat
        /\ \A kk \in Keys : queue[kk] \in Seq(Callers) /\ Len(queue[kk]) \in Nat
        /\ \A kk \in Keys : \A i \in 1..Len(queue[kk]) :
             queue[kk][i] \in Callers /\ queue[kk][i] # c
    BY DEF TypeOK, QueueInv, Call
  <1>2. /\ pc' = [pc EXCEPT ![c] = "waiting"]
        /\ req' = [req EXCEPT ![c] = [op |-> op, key |-> k, asked |-> clock]]
        /\ queue' = [queue EXCEPT ![k] = Append(q, c)]
        /\ pc[c] = "idle"
    BY DEF Call, LockOf
  <1>3. /\ \A kk \in Keys : kk # k => queue'[kk] = queue[kk]
        /\ Len(queue'[k]) = n + 1
        /\ \A i \in 1..n : queue'[k][i] = queue[k][i]
        /\ queue'[k][n + 1] = c
        /\ queue'[k] # <<>>
        /\ q # <<>> => Head(queue'[k]) = Head(q)
    BY <1>1, <1>2, AppendAt DEF TypeOK
  <1>4. /\ pc'[c] = "waiting"
        /\ req'[c].key = k
        /\ req'[c].asked = clock
        /\ \A d \in Callers : d # c => pc'[d] = pc[d] /\ req'[d] = req[d]
    BY <1>2 DEF TypeOK
  <1>5. ASSUME NEW kk \in Keys, NEW i \in 1..Len(queue'[kk])
        PROVE  pc'[queue'[kk][i]] # "idle" /\ req'[queue'[kk][i]].key = kk
    <2>1. CASE kk = k /\ i = n + 1
      BY <2>1, <1>3, <1>4
    <2>2. CASE kk # k \/ i # n + 1
      <3>1. i \in 1..Len(queue[kk]) /\ queue'[kk][i] = queue[kk][i]
        BY <2>2, <1>1, <1>3
      <3>2. /\ queue[kk][i] \in Callers /\ queue[kk][i] # c
            /\ pc[queue[kk][i]] # "idle" /\ req[queue[kk][i]].key = kk
        BY <3>1, <1>1 DEF QueueInv
      <3> QED
        BY <3>1, <3>2, <1>4
    <2> QED
      BY <2>1, <2>2
  <1>6. ASSUME NEW kk \in Keys, NEW i \in 1..Len(queue'[kk]), NEW j \in 1..Len(queue'[kk])
        PROVE  /\ queue'[kk][i] = queue'[kk][j] => i = j
               /\ i <= j => req'[queue'[kk][i]].asked <= req'[queue'[kk][j]].asked
    <2>1. CASE kk # k
      <3>1. queue'[kk] = queue[kk]
        BY <2>1, <1>3
      <3> QED
        BY <3>1, <1>1, <1>4 DEF QueueInv
    <2>2. CASE kk = k /\ i # n + 1 /\ j # n + 1
      <3>1. i \in 1..n /\ j \in 1..n
        BY <2>2, <1>1, <1>3
      <3>2. queue'[k][i] = q[i] /\ queue'[k][j] = q[j]
        BY <3>1, <1>3
      <3>3. req'[q[i]] = req[q[i]] /\ req'[q[j]] = req[q[j]]
        BY <3>1, <1>1, <1>4
      <3>4. /\ q[i] = q[j] => i = j
            /\ i <= j => req[q[i]].asked <= req[q[j]].asked
        BY <3>1 DEF QueueInv
      <3> QED
        BY <2>2, <3>2, <3>3, <3>4
    <2>3. CASE kk = k /\ i = n + 1
      <3>1. queue'[k][i] = c /\ (i <= j => j = i)
        BY <2>3, <1>1, <1>3
      <3>2. req'[c].asked <= req'[c].asked
        BY <1>4 DEF TypeOK
      <3>3. j # n + 1 => queue'[k][j] # c
        BY <2>3, <1>1, <1>3
      <3> QED
        BY <2>3, <3>1, <3>2, <3>3
    <2>4. CASE kk = k /\ i # n + 1 /\ j = n + 1
      <3>1. i \in 1..n
        BY <2>4, <1>1, <1>3
      <3>2. /\ queue'[k][i] = q[i] /\ queue'[k][j] = c
            /\ q[i] \in Callers /\ q[i] # c
        BY <2>4, <3>1, <1>1, <1>3
      <3>3. req'[q[i]].asked <= req'[c].asked
        BY <3>2, <1>4
      <3> QED
        BY <2>4, <3>2, <3>3
    <2> QED
      BY <2>1, <2>2, <2>3, <2>4
  <1>7. ASSUME NEW d \in Callers, pc'[d] # "idle"
        PROVE  \E i \in 1..Len(queue'[req'[d].key]) : queue'[req'[d].key][i] = d
    <2>1. CASE d = c
      BY <2>1, <1>1, <1>3, <1>4
    <2>2. CASE d # c
      <3>1. PICK i \in 1..Len(queue[req[d].key]) : queue[req[d].key][i] = d
        BY <2>2, <1>4, <1>7 DEF QueueInv
      <3>2. req'[d].key = req[d].key /\ req[d].key \in Keys
        BY <2>2, <1>4 DEF TypeOK, Request
      <3>3. CASE req[d].key = k
        BY <3>1, <3>2, <3>3, <1>1, <1>3
      <3>4. CASE req[d].key # k
        BY <3>1, <3>2, <3>4, <1>3
      <3> QED
        BY <3>3, <3>4
    <2> QED
      BY <2>1, <2>2
  <1>8. ASSUME NEW d \in Callers, pc'[d] = "fetching"
        PROVE  HoldsLock(d)'
    <2>1. d # c /\ HoldsLock(d) /\ req[d].key \in Keys
      BY <1>4, <1>8 DEF QueueInv, TypeOK, Request
    <2>2. CASE req[d].key = k
      <3>1. queue[k] # <<>> /\ Head(queue[k]) = d
        BY <2>1, <2>2 DEF HoldsLock, LockOf
      <3>2. queue'[k] # <<>> /\ Head(queue'[k]) = d
        BY <3>1, <1>3
      <3> QED
        BY <3>2, <2>1, <2>2, <1>4 DEF HoldsLock, LockOf
    <2>3. CASE req[d].key # k
      BY <2>1, <2>3, <1>3, <1>4 DEF HoldsLock, LockOf
    <2> QED
      BY <2>2, <2>3
  <1> QED
    BY <1>5, <1>6, <1>7, <1>8 DEF QueueInv

(* A caller that leaves is the head; nobody else of its key is fetching.    *)
LEMMA AnswerQueue ==
  ASSUME TypeOK, QueueInv, NEW c \in Callers, pc[c] # "idle", HoldsLock(c),
         NEW kind, NEW e, Answer(c, kind, e), UNCHANGED req
  PROVE  QueueInv'
  <1> DEFINE k == req[c].key
             q == queue[k]
  <1>1. /\ k \in Keys
        /\ q \in Seq(Callers)
        /\ q # <<>>
        /\ Head(q) = c
        /\ \A kk \in Keys : queue[kk] \in Seq(Callers) /\ Len(queue[kk]) \in Nat
        /\ \A kk \in Keys : \A i \in 1..Len(queue[kk]) : queue[kk][i] \in Callers
    BY DEF TypeOK, Request, HoldsLock, LockOf
  <1>2. /\ pc' = [pc EXCEPT ![c] = "idle"]
        /\ queue' = [queue EXCEPT ![k] = Tail(q)]
    BY DEF Answer, LockOf
  <1>3. /\ \A kk \in Keys : kk # k => queue'[kk] = queue[kk]
        /\ queue'[k] \in Seq(Callers)
        /\ Len(queue'[k]) = Len(q) - 1
        /\ Len(q) \in Nat \ {0}
        /\ \A i \in 1..Len(queue'[k]) : queue'[k][i] = q[i + 1]
        /\ q[1] = c
    BY <1>1, <1>2, TailAt DEF TypeOK
  <1>4. /\ pc'[c] = "idle"
        /\ \A d \in Callers : d # c => pc'[d] = pc[d]
        /\ \A d \in Callers : req'[d] = req[d]
    BY <1>2 DEF TypeOK
  <1>5. ASSUME NEW kk \in Keys, NEW i \in 1..Len(queue'[kk])
        PROVE  pc'[queue'[kk][i]] # "idle" /\ req'[queue'[kk][i]].key = kk
    <2>1. CASE kk = k
      <3>1. i + 1 \in 1..Len(q) /\ 1 \in 1..Len(q) /\ i + 1 # 1
        BY <2>1, <1>3, <1>5
      <3>2. q[i + 1] # c
        BY <3>1, <1>1, <1>3 DEF QueueInv
      <3>3. q[i + 1] \in Callers /\ pc[q[i + 1]] # "idle" /\ req[q[i + 1]].key = k
        BY <3>1, <1>1 DEF QueueInv
      <3>4. queue'[kk][i] = q[i + 1]
        BY <2>1, <1>3
      <3> QED
        BY <3>2, <3>3, <3>4, <2>1, <1>4
    <2>2. CASE kk # k
      <3>1. queue'[kk] = queue[kk]
        BY <2>2, <1>3
      <3>2. /\ queue[kk][i] \in Callers
            /\ pc[queue[kk][i]] # "idle"
            /\ req[queue[kk][i]].key = kk
        BY <3>1, <1>1 DEF QueueInv
      <3> QED
        BY <3>1, <3>2, <2>2, <1>4
    <2> QED
      BY <2>1, <2>2
  <1>6. ASSUME NEW kk \in Keys, NEW i \in 1..Len(queue'[kk]), NEW j \in 1..Len(queue'[kk])
        PROVE  /\ queue'[kk][i] = queue'[kk][j] => i = j
               /\ i <= j => req'[queue'[kk][i]].asked <= req'[queue'[kk][j]].asked
    <2>1. CASE kk = k
      <3>1. i + 1 \in 1..Len(q) /\ j + 1 \in 1..Len(q) /\ (i <= j => i + 1 <= j + 1)
        BY <2>1, <1>3, <1>6
      <3>2. /\ q[i + 1] = q[j + 1] => i + 1 = j + 1
            /\ i <= j => req[q[i + 1]].asked <= req[q[j + 1]].asked
        BY <3>1, <1>1 DEF QueueInv
      <3>3. queue'[kk][i] = q[i + 1] /\ queue'[kk][j] = q[j + 1]
        BY <2>1, <1>3
      <3>4. q[i + 1] \in Callers /\ q[j + 1] \in Callers
        BY <3>1, <1>1
      <3> QED
        BY <3>2, <3>3, <3>4, <1>4
    <2>2. CASE kk # k
      <3>1. queue'[kk] = queue[kk]
        BY <2>2, <1>3
      <3> QED
        BY <3>1, <1>1, <1>4 DEF QueueInv
    <2> QED
      BY <2>1, <2>2
  <1>7. ASSUME NEW d \in Callers, pc'[d] # "idle"
        PROVE  \E i \in 1..Len(queue'[req'[d].key]) : queue'[req'[d].key][i] = d
    <2>1. d # c /\ req[d].key \in Keys
      BY <1>4, <1>7 DEF TypeOK, Request
    <2>2. PICK i \in 1..Len(queue[req[d].key]) : queue[req[d].key][i] = d
      BY <2>1, <1>4, <1>7 DEF QueueInv
    <2>3. CASE req[d].key = k
      <3>1. i # 1
        BY <2>1, <2>2, <2>3, <1>3
      <3>2. i - 1 \in 1..Len(queue'[k]) /\ queue'[k][i - 1] = d
        BY <3>1, <2>2, <2>3, <1>1, <1>3
      <3> QED
        BY <3>2, <2>3
    <2>4. CASE req[d].key # k
      BY <2>1, <2>2, <2>4, <1>3
    <2> QED
      BY <2>3, <2>4
  <1>8. ASSUME NEW d \in Callers, pc'[d] = "fetching"
        PROVE  HoldsLock(d)'
    <2>1. d # c /\ HoldsLock(d) /\ req[d].key \in Keys
      BY <1>4, <1>8 DEF QueueInv, TypeOK, Request
    <2>2. req[d].key # k
      BY <2>1, <1>1 DEF HoldsLock, LockOf
    <2> QED
      BY <2>1, <2>2, <1>3 DEF HoldsLock, LockOf
  <1> QED
    BY <1>5, <1>6, <1>7, <1>8 DEF QueueInv

LEMMA QueueStep == TypeOK /\ QueueInv /\ OrderInv /\ [Next]_vars => QueueInv'
  <1> SUFFICES ASSUME TypeOK, QueueInv, OrderInv, [Next]_vars PROVE QueueInv'
    OBVIOUS
  <1>0. /\ \A c \in Callers : pc[c] = "fetching" => HoldsLock(c)
        /\ \A c \in Callers : req[c].asked <= clock
    BY DEF QueueInv, OrderInv
  <1>1. ASSUME NEW c \in Callers, NEW k \in Keys, NEW op \in Ops, Call(c, k, op)
        PROVE  QueueInv'
    BY <1>0, <1>1, CallQueue
  <1>2. ASSUME NEW c \in Callers, Hit(c) PROVE QueueInv'
    BY <1>2, AnswerQueue DEF Hit
  <1>3. ASSUME NEW c \in Callers, StartFetch(c) PROVE QueueInv'
    <2>1. /\ queue' = queue /\ req' = req
          /\ pc' = [pc EXCEPT ![c] = "fetching"]
          /\ pc[c] # "idle"
          /\ HoldsLock(c)
      BY <1>3 DEF StartFetch
    <2>2. \A d \in Callers : pc[d] # "idle" <=> pc'[d] # "idle"
      BY <2>1 DEF TypeOK
    <2>3. \A k \in Keys : \A i \in 1..Len(queue[k]) : queue[k][i] \in Callers
      BY DEF TypeOK
    <2>4. \A d \in Callers : pc'[d] = "fetching" => HoldsLock(d)'
      BY <1>0, <2>1 DEF TypeOK, HoldsLock
    <2> QED
      BY <2>1, <2>2, <2>3, <2>4 DEF QueueInv
  <1>4. ASSUME NEW c \in Callers, FetchOk(c) PROVE QueueInv'
    BY <1>0, <1>4, AnswerQueue DEF FetchOk
  <1>5. ASSUME NEW c \in Callers, FetchFail(c) PROVE QueueInv'
    BY <1>0, <1>5, AnswerQueue DEF FetchFail
  <1>6. ASSUME Restart PROVE QueueInv'
    BY <1>6 DEF Restart, QueueInv, HoldsLock, TypeOK, Request
  <1>7. ASSUME Tick PROVE QueueInv'
    BY <1>7 DEF Tick, QueueInv, HoldsLock
  <1>8. ASSUME UNCHANGED vars PROVE QueueInv'
    BY <1>8 DEF vars, QueueInv, HoldsLock
  <1> QED
    BY <1>1, <1>2, <1>3, <1>4, <1>5, <1>6, <1>7, <1>8 DEF Next, Step

-----------------------------------------------------------------------------
(* The order of snapshots *)

(* Whoever holds the lock asked first among those who want the key, and is  *)
(* the only one that may be fetching.                                       *)
LEMMA HeadIsEarliest ==
  ASSUME TypeOK, QueueInv, NEW c \in Callers, HoldsLock(c),
         NEW d \in Callers, pc[d] # "idle", req[d].key = req[c].key
  PROVE  /\ req[c].asked <= req[d].asked
         /\ pc[d] = "fetching" => d = c
  <1> DEFINE q == queue[req[c].key]
  <1>1. q \in Seq(Callers) /\ q # <<>> /\ Head(q) = c /\ req[c].key \in Keys
    BY DEF TypeOK, Request, HoldsLock, LockOf
  <1>2. q[1] = c /\ Len(q) \in Nat \ {0}
    BY <1>1, TailAt
  <1>3. PICK i \in 1..Len(q) : q[i] = d
    BY DEF QueueInv
  <1>4. 1 \in 1..Len(q) /\ 1 <= i
    BY <1>2, <1>3
  <1>5. req[c].asked <= req[d].asked
    BY <1>1, <1>2, <1>3, <1>4 DEF QueueInv
  <1>6. pc[d] = "fetching" => d = c
    BY <1>1 DEF QueueInv, HoldsLock, LockOf
  <1> QED
    BY <1>5, <1>6

SnapshotInv == FallbackIsCurrent /\ SnapshotsInRequestOrder /\ OrderInv

LEMMA CallSnapshots ==
  ASSUME TypeOK, SnapshotInv,
         NEW c \in Callers, NEW k \in Keys, NEW op \in Ops, Call(c, k, op)
  PROVE  SnapshotInv'
  <1>1. /\ pc' = [pc EXCEPT ![c] = "waiting"]
        /\ req' = [req EXCEPT ![c] = [op |-> op, key |-> k, asked |-> clock]]
        /\ reply' = [reply EXCEPT ![c] = NoReply]
        /\ clock' = clock /\ entries' = entries /\ fetch' = fetch
    BY DEF Call
  <1>2. /\ pc'[c] = "waiting" /\ req'[c].key = k /\ req'[c].asked = clock
        /\ reply'[c] = NoReply /\ reply'[c].entry = NoEntry
        /\ \A d \in Callers : d # c =>
             pc'[d] = pc[d] /\ req'[d] = req[d] /\ reply'[d] = reply[d]
        /\ \A d \in Callers : req[d].key \in Keys /\ req[d].asked \in Nat
        /\ clock \in Nat
        /\ \A kk \in Keys : entries[kk] # NoEntry =>
             entries[kk].generated_at \in Nat /\ entries[kk].fetched_at \in Nat
    BY <1>1 DEF TypeOK, NoReply, Request, MaybeEntry, Entry
  <1>3. FallbackIsCurrent'
    BY <1>1, <1>2 DEF SnapshotInv, FallbackIsCurrent, CachedFor
  <1>4. SnapshotsInRequestOrder'
    BY <1>1, <1>2 DEF SnapshotInv, SnapshotsInRequestOrder
  <1>5. OrderInv'
    BY <1>1, <1>2 DEF SnapshotInv, OrderInv, CachedFor, CachedDuringFetch
  <1> QED
    BY <1>3, <1>4, <1>5 DEF SnapshotInv

(* A caller is answered with what is cached, with nothing, or with what it  *)
(* puts into the cache itself: the envelope generated for its own request.  *)
LEMMA AnswerSnapshots ==
  ASSUME TypeOK, TypeOK', QueueInv, SnapshotInv,
         NEW c \in Callers, pc[c] # "idle", HoldsLock(c), UNCHANGED <<clock, req>>,
         NEW kind, NEW e \in MaybeEntry, Answer(c, kind, e),
         \/ /\ entries' = entries
            /\ e = NoEntry \/ e = CachedFor(c)
         \/ /\ pc[c] = "fetching"
            /\ e = Fetched(c)
            /\ entries' = [entries EXCEPT ![req[c].key] = e]
  PROVE  SnapshotInv'
  <1> DEFINE k == req[c].key
  <1>1. /\ pc'[c] = "idle" /\ reply'[c].entry = e
        /\ \A d \in Callers : d # c =>
             pc'[d] = pc[d] /\ reply'[d] = reply[d] /\ fetch'[d] = fetch[d]
        /\ \A d \in Callers : req'[d] = req[d]
        /\ clock' = clock
    BY DEF Answer, TypeOK
  <1>2. /\ \A d \in Callers : req[d].key \in Keys /\ req[d].asked \in Nat
        /\ clock \in Nat
        /\ \A kk \in Keys : entries[kk] # NoEntry =>
             entries[kk].generated_at \in Nat /\ entries[kk].fetched_at \in Nat
        /\ \A d \in Callers : fetch[d].at \in Nat
        /\ \A d \in Callers : reply[d].entry # NoEntry => reply[d].entry.generated_at \in Nat
    BY DEF TypeOK, Request, MaybeEntry, Entry
  <1>3. \A d \in Callers : pc[d] # "idle" /\ req[d].key = k =>
          req[c].asked <= req[d].asked /\ (pc[d] = "fetching" => d = c)
    BY HeadIsEarliest
  <1>4. CASE entries' = entries /\ (e = NoEntry \/ e = CachedFor(c))
    <2>1. FallbackIsCurrent'
      BY <1>1, <1>4 DEF SnapshotInv, FallbackIsCurrent, CachedFor
    <2>2. SnapshotsInRequestOrder'
      BY <1>1, <1>4 DEF SnapshotInv, SnapshotsInRequestOrder
    <2>3. e # NoEntry =>
            /\ e = entries[k]
            /\ e.generated_at <= clock
            /\ \A d \in Callers : pc[d] # "idle" /\ req[d].key = k => e.generated_at <= req[d].asked
      BY <1>2, <1>4 DEF SnapshotInv, SnapshotsInRequestOrder, CachedFor
    <2>4. OrderInv'
      BY <1>1, <1>2, <1>4, <2>3 DEF SnapshotInv, OrderInv, CachedFor, CachedDuringFetch
    <2> QED
      BY <2>1, <2>2, <2>4 DEF SnapshotInv
  <1>5. CASE /\ pc[c] = "fetching"
             /\ e = Fetched(c)
             /\ entries' = [entries EXCEPT ![k] = e]
    <2>1. /\ e.generated_at = req[c].asked /\ e.fetched_at = fetch[c].at
          /\ req[c].asked <= fetch[c].at /\ fetch[c].at <= clock
      BY <1>5 DEF Fetched, SnapshotInv, OrderInv
    <2>2. entries'[k] = e /\ \A kk \in Keys : kk # k => entries'[kk] = entries[kk]
      BY <1>2, <1>5 DEF TypeOK
    <2>3. \A d \in Callers : pc'[d] = "fetching" => req[d].key # k
      BY <1>1, <1>3
    <2>4. FallbackIsCurrent'
      BY <1>1, <1>2, <2>2, <2>3 DEF SnapshotInv, FallbackIsCurrent, CachedFor
    <2>5. SnapshotsInRequestOrder'
      BY <1>1, <1>2, <1>3, <2>1, <2>2 DEF SnapshotInv, SnapshotsInRequestOrder
    <2>6. \A d \in Callers : pc'[d] = "fetching" =>
            /\ req'[d].asked <= fetch'[d].at /\ fetch'[d].at <= clock'
            /\ CachedFor(d)' # NoEntry => CachedDuringFetch(d)'
      BY <1>1, <1>2, <2>2, <2>3 DEF SnapshotInv, OrderInv, CachedFor, CachedDuringFetch
    <2>7. \A d \in Callers : reply[d].entry # NoEntry /\ req[d].key = k =>
            reply[d].entry.generated_at <= req[c].asked
      BY <1>5 DEF SnapshotInv, OrderInv
    <2>8. ASSUME NEW d \in Callers, reply'[d].entry # NoEntry
          PROVE  LET given == reply'[d].entry.generated_at
                     kk    == req'[d].key
                 IN /\ given <= clock'
                    /\ entries'[kk] # NoEntry => given <= entries'[kk].generated_at
                    /\ \A b \in Callers : pc'[b] # "idle" /\ req'[b].key = kk => given <= req'[b].asked
      <3>1. CASE d = c
        BY <3>1, <1>1, <1>2, <1>3, <2>1, <2>2
      <3>2. CASE d # c /\ req[d].key = k
        BY <3>2, <2>8, <1>1, <1>2, <1>3, <2>1, <2>2, <2>7 DEF SnapshotInv, OrderInv
      <3>3. CASE d # c /\ req[d].key # k
        BY <3>3, <2>8, <1>1, <1>2, <2>2 DEF SnapshotInv, OrderInv
      <3> QED
        BY <3>1, <3>2, <3>3
    <2>9. OrderInv'
      BY <1>1, <2>6, <2>8 DEF SnapshotInv, OrderInv
    <2> QED
      BY <2>4, <2>5, <2>9 DEF SnapshotInv
  <1> QED
    BY <1>4, <1>5

(* Starting a fetch may evict, and remembers what it left.                  *)
LEMMA StartFetchSnapshots ==
  ASSUME TypeOK, QueueInv, SnapshotInv, NEW c \in Callers, StartFetch(c)
  PROVE  SnapshotInv'
  <1> DEFINE k    == req[c].key
             kept == IF Evicts(c) THEN NoEntry ELSE CachedFor(c)
  <1>1. /\ pc' = [pc EXCEPT ![c] = "fetching"]
        /\ entries' = [entries EXCEPT ![k] = kept]
        /\ fetch' = [fetch EXCEPT ![c] = [at |-> clock, fallback |-> kept]]
        /\ clock' = clock /\ req' = req /\ reply' = reply
        /\ pc[c] # "idle" /\ HoldsLock(c)
    BY DEF StartFetch
  <1>2. /\ \A d \in Callers : req[d].key \in Keys /\ req[d].asked \in Nat
        /\ clock \in Nat
        /\ \A kk \in Keys : entries[kk] # NoEntry =>
             entries[kk].generated_at \in Nat /\ entries[kk].fetched_at \in Nat
        /\ \A d \in Callers : fetch[d].at \in Nat
    BY DEF TypeOK, Request, MaybeEntry, Entry
  <1>3. /\ \A d \in Callers : d # c => pc'[d] = pc[d] /\ fetch'[d] = fetch[d]
        /\ pc'[c] = "fetching" /\ fetch'[c].at = clock /\ fetch'[c].fallback = kept
        /\ entries'[k] = kept
        /\ \A kk \in Keys : kk # k => entries'[kk] = entries[kk]
        /\ \A kk \in Keys : entries'[kk] # NoEntry => entries'[kk] = entries[kk]
    BY <1>1, <1>2 DEF TypeOK, CachedFor
  <1>4. \A d \in Callers : d # c /\ pc'[d] = "fetching" => req[d].key # k
    BY <1>1, <1>3, HeadIsEarliest
  <1>5. FallbackIsCurrent'
    BY <1>1, <1>2, <1>3, <1>4 DEF SnapshotInv, FallbackIsCurrent, CachedFor
  <1>6. \A d \in Callers : pc'[d] # "idle" <=> pc[d] # "idle"
    BY <1>1, <1>3
  <1>7. SnapshotsInRequestOrder'
    BY <1>1, <1>2, <1>3, <1>6 DEF SnapshotInv, SnapshotsInRequestOrder
  <1>8. \A d \in Callers : pc'[d] = "fetching" =>
          /\ req'[d].asked <= fetch'[d].at /\ fetch'[d].at <= clock'
          /\ CachedFor(d)' # NoEntry => CachedDuringFetch(d)'
    <2> SUFFICES ASSUME NEW d \in Callers, pc'[d] = "fetching"
                 PROVE  /\ req'[d].asked <= fetch'[d].at /\ fetch'[d].at <= clock'
                        /\ CachedFor(d)' # NoEntry => CachedDuringFetch(d)'
      OBVIOUS
    <2>1. CASE d = c
      <3>1. kept # NoEntry =>
              /\ kept.fetched_at <= clock
              /\ req[c].op = "get" => clock < kept.fetched_at + StaleTTL
        BY <1>2, TTLAssumption
        DEF SnapshotInv, SnapshotsInRequestOrder, CachedFor, Evicts, Expired
      <3> QED
        BY <3>1, <2>1, <1>1, <1>2, <1>3 DEF SnapshotInv, OrderInv, CachedFor, CachedDuringFetch
    <2>2. CASE d # c
      BY <2>2, <1>1, <1>2, <1>3, <1>4 DEF SnapshotInv, OrderInv, CachedFor, CachedDuringFetch
    <2> QED
      BY <2>1, <2>2
  <1>9. OrderInv'
    BY <1>1, <1>2, <1>3, <1>6, <1>8 DEF SnapshotInv, OrderInv
  <1> QED
    BY <1>5, <1>7, <1>9 DEF SnapshotInv

LEMMA SnapshotStep == IndInv /\ TypeOK' /\ [Next]_vars => SnapshotInv'
  <1> SUFFICES ASSUME IndInv, TypeOK', [Next]_vars PROVE SnapshotInv'
    OBVIOUS
  <1>0. /\ TypeOK /\ QueueInv /\ SnapshotInv
        /\ \A c \in Callers : pc[c] = "fetching" => HoldsLock(c)
    BY DEF IndInv, SnapshotInv, QueueInv
  <1>1. ASSUME NEW c \in Callers, NEW k \in Keys, NEW op \in Ops, Call(c, k, op)
        PROVE  SnapshotInv'
    BY <1>0, <1>1, CallSnapshots
  <1>2. ASSUME NEW c \in Callers, Hit(c) PROVE SnapshotInv'
    <2>1. CachedFor(c) \in MaybeEntry
      BY <1>0 DEF TypeOK, CachedFor, Request
    <2> QED
      BY <1>0, <1>2, <2>1, AnswerSnapshots DEF Hit
  <1>3. ASSUME NEW c \in Callers, StartFetch(c) PROVE SnapshotInv'
    BY <1>0, <1>3, StartFetchSnapshots
  <1>4. ASSUME NEW c \in Callers, FetchOk(c) PROVE SnapshotInv'
    <2>1. Fetched(c) \in MaybeEntry
      BY <1>0 DEF TypeOK, Fetched, Request, Entry, MaybeEntry
    <2> QED
      BY <1>0, <1>4, <2>1, AnswerSnapshots DEF FetchOk
  <1>5. ASSUME NEW c \in Callers, FetchFail(c) PROVE SnapshotInv'
    <2>1. fetch[c].fallback = CachedFor(c) /\ CachedFor(c) \in MaybeEntry
      BY <1>0, <1>5 DEF TypeOK, CachedFor, Request, FetchFail, SnapshotInv, FallbackIsCurrent
    <2>2. NoEntry \in MaybeEntry
      BY DEF MaybeEntry
    <2> QED
      BY <1>0, <1>5, <2>1, <2>2, AnswerSnapshots DEF FetchFail
  <1>6. ASSUME Restart PROVE SnapshotInv'
    <2>1. \A d \in Callers : req[d].key \in Keys
      BY <1>0 DEF TypeOK, Request
    <2> QED
      BY <1>0, <1>6, <2>1
      DEF Restart, SnapshotInv, FallbackIsCurrent, SnapshotsInRequestOrder, OrderInv
  <1>7. ASSUME Tick PROVE SnapshotInv'
    <2>1. /\ clock \in Nat /\ clock' = clock + 1
          /\ UNCHANGED <<entries, queue, pc, req, fetch, reply>>
      BY <1>0, <1>7 DEF Tick, TypeOK
    <2>2. /\ \A d \in Callers : req[d].asked \in Nat /\ req[d].key \in Keys /\ fetch[d].at \in Nat
          /\ \A kk \in Keys : entries[kk] # NoEntry => entries[kk].fetched_at \in Nat
          /\ \A d \in Callers : reply[d].entry # NoEntry => reply[d].entry.generated_at \in Nat
      BY <1>0 DEF TypeOK, Request, MaybeEntry, Entry
    <2>3. FallbackIsCurrent' /\ SnapshotsInRequestOrder'
      BY <1>0, <2>1, <2>2
      DEF SnapshotInv, FallbackIsCurrent, SnapshotsInRequestOrder, CachedFor
    <2>4. OrderInv'
      BY <1>0, <2>1, <2>2 DEF SnapshotInv, OrderInv, CachedFor, CachedDuringFetch
    <2> QED
      BY <2>3, <2>4 DEF SnapshotInv
  <1>8. ASSUME UNCHANGED vars PROVE SnapshotInv'
    BY <1>0, <1>8
    DEF vars, SnapshotInv, FallbackIsCurrent, SnapshotsInRequestOrder, OrderInv, CachedFor,
        CachedDuringFetch
  <1> QED
    BY <1>1, <1>2, <1>3, <1>4, <1>5, <1>6, <1>7, <1>8 DEF Next, Step

-----------------------------------------------------------------------------
(* Theorems *)

LEMMA InvStep == IndInv /\ [Next]_vars => IndInv'
  <1> SUFFICES ASSUME IndInv, [Next]_vars PROVE IndInv'
    OBVIOUS
  <1>1. TypeOK'
    BY TypeStep DEF IndInv
  <1>2. QueueInv'
    BY QueueStep DEF IndInv
  <1>3. SnapshotInv'
    BY <1>1, SnapshotStep
  <1> QED
    BY <1>1, <1>2, <1>3 DEF IndInv, SnapshotInv

(* IndInv is an invariant: every variable keeps its type, each lock's queue *)
(* holds exactly the callers that are not idle, in the order they asked,    *)
(* and cached, pending and answered snapshots are in that order too.        *)
THEOREM Invariance == Spec => []IndInv
  BY InitInv, InvStep, PTL DEF Spec

THEOREM TypeCorrectness == Spec => []TypeOK
  <1>1. IndInv => TypeOK
    BY DEF IndInv
  <1> QED
    BY <1>1, Invariance, PTL

(* No two callers are ever fetching the same location's forecast.           *)
THEOREM RefreshIsSingleFlight == Spec => []SingleFlight
  <1>1. IndInv => SingleFlight
    BY HeadIsEarliest DEF IndInv, SingleFlight, QueueInv
  <1> QED
    BY <1>1, Invariance, PTL

(* What get_or_refresh read before awaiting the fetch is still what is      *)
(* cached when the fetch comes back.                                        *)
THEOREM FallbackStaysCurrent == Spec => []FallbackIsCurrent
  <1>1. IndInv => FallbackIsCurrent
    BY DEF IndInv
  <1> QED
    BY <1>1, Invariance, PTL

(* A cached forecast is no newer than any request still waiting for it.     *)
THEOREM SnapshotsFollowRequests == Spec => []SnapshotsInRequestOrder
  <1>1. IndInv => SnapshotsInRequestOrder
    BY DEF IndInv
  <1> QED
    BY <1>1, Invariance, PTL

(* A cached forecast is never replaced by an older one.                     *)
THEOREM CacheNeverGoesBack == Spec => NeverReplacedByOlder
  <1> DEFINE Forward == \A k \in Keys : entries[k] # NoEntry /\ entries'[k] # NoEntry =>
               /\ entries'[k].generated_at >= entries[k].generated_at
               /\ entries'[k].fetched_at >= entries[k].fetched_at
  <1>1. IndInv /\ [Next]_vars => Forward
    <2> SUFFICES ASSUME IndInv, [Next]_vars PROVE Forward
      OBVIOUS
    <2>0. /\ TypeOK /\ QueueInv /\ SnapshotsInRequestOrder /\ OrderInv
          /\ \A k \in Keys : entries[k] # NoEntry =>
               entries[k].generated_at \in Nat /\ entries[k].fetched_at \in Nat
      BY DEF IndInv, TypeOK, MaybeEntry, Entry
    <2>1. CASE entries' = entries
      BY <2>0, <2>1
    <2>2. ASSUME NEW c \in Callers, StartFetch(c) PROVE Forward
      BY <2>0, <2>2 DEF StartFetch, TypeOK, CachedFor, Request
    <2>3. ASSUME NEW c \in Callers, FetchOk(c) PROVE Forward
      <3>1. req[c].key \in Keys /\ pc[c] = "fetching"
            /\ entries' = [entries EXCEPT ![req[c].key] = Fetched(c)]
        BY <2>0, <2>3 DEF FetchOk, TypeOK, Request
      <3>2. entries[req[c].key] # NoEntry =>
              /\ Fetched(c).generated_at >= entries[req[c].key].generated_at
              /\ Fetched(c).fetched_at >= entries[req[c].key].fetched_at
        BY <2>0, <3>1
        DEF SnapshotsInRequestOrder, OrderInv, CachedFor, CachedDuringFetch, Fetched,
            TypeOK, Request
      <3> QED
        BY <2>0, <3>1, <3>2 DEF TypeOK
    <2>4. CASE Restart
      BY <2>4 DEF Restart
    <2> QED
      BY <2>1, <2>2, <2>3, <2>4 DEF Next, Step, Call, Hit, FetchFail, Tick, vars
  <1>2. IndInv /\ [Next]_vars => [Forward]_vars
    BY <1>1
  <1> QED
    BY <1>2, Invariance, PTL DEF Spec, NeverReplacedByOlder

-----------------------------------------------------------------------------
(* What callers are told *)

(* The steps that answer, and what each of them hands out.                  *)
LEMMA AnswerSteps ==
  ASSUME IndInv, [Next]_vars, NEW c \in Callers, Answers(c)
  PROVE  /\ pc[c] # "idle" /\ HoldsLock(c)
         /\ \/ FreshHit(c) /\ reply'[c].kind = "hit" /\ reply'[c].entry = CachedFor(c)
            \/ pc[c] = "fetching" /\ reply'[c].kind = "fetched" /\ reply'[c].entry = Fetched(c)
            \/ /\ pc[c] = "fetching" /\ CachedFor(c) # NoEntry
               /\ reply'[c].kind = "fallback" /\ reply'[c].entry = CachedFor(c)
            \/ /\ pc[c] = "fetching" /\ CachedFor(c) = NoEntry
               /\ reply'[c].kind = "error" /\ reply'[c].entry = NoEntry
  <1>0. /\ TypeOK /\ FallbackIsCurrent
        /\ pc[c] # "idle" /\ pc'[c] = "idle"
        /\ reply[c].kind = "none" /\ reply'[c].kind # "none"
        /\ \A d \in Callers : pc[d] = "fetching" => HoldsLock(d)
    BY DEF IndInv, QueueInv, OrderInv, Answers, NoReply
  <1>1. ASSUME NEW d \in Callers, NEW k \in Keys, NEW op \in Ops, Call(d, k, op)
        PROVE  FALSE
    BY <1>0, <1>1 DEF Call, TypeOK
  <1>2. ASSUME NEW d \in Callers, StartFetch(d) PROVE FALSE
    BY <1>0, <1>2 DEF StartFetch, TypeOK
  <1>3. CASE Restart \/ Tick \/ UNCHANGED vars
    BY <1>0, <1>3 DEF Restart, Tick, vars
  <1>4. ASSUME NEW d \in Callers, Hit(d) \/ FetchOk(d) \/ FetchFail(d) PROVE d = c
    BY <1>0, <1>4 DEF Hit, FetchOk, FetchFail, Answer, TypeOK
  <1>5. CASE Hit(c)
    BY <1>0, <1>5 DEF Hit, Answer, TypeOK
  <1>6. CASE FetchOk(c)
    BY <1>0, <1>6 DEF FetchOk, Answer, TypeOK
  <1>7. CASE FetchFail(c)
    BY <1>0, <1>7 DEF FetchFail, Answer, TypeOK, FallbackIsCurrent
  <1> QED
    BY <1>1, <1>2, <1>3, <1>4, <1>5, <1>6, <1>7 DEF Next, Step

(* However requests, refreshes and evictions overlap, nobody is given a     *)
(* forecast older than one already given to somebody for that location.     *)
THEOREM MonotonicReads == Spec => ReadsAreMonotonic
  <1> DEFINE Newer == \A c, d \in Callers :
               /\ Answers(c)
               /\ reply'[c].entry # NoEntry
               /\ pc[d] = "idle" /\ reply[d].entry # NoEntry
               /\ req[d].key = req[c].key
               => reply'[c].entry.generated_at >= reply[d].entry.generated_at
  <1>1. IndInv /\ [Next]_vars => Newer
    <2> SUFFICES ASSUME IndInv, [Next]_vars, NEW c \in Callers, NEW d \in Callers,
                        Answers(c), reply'[c].entry # NoEntry,
                        reply[d].entry # NoEntry, req[d].key = req[c].key
                 PROVE  reply'[c].entry.generated_at >= reply[d].entry.generated_at
      OBVIOUS
    <2>1. /\ reply'[c].entry = CachedFor(c) \/ reply'[c].entry = Fetched(c)
          /\ pc[c] # "idle"
      BY AnswerSteps
    <2>2. /\ CachedFor(c) # NoEntry => reply[d].entry.generated_at <= CachedFor(c).generated_at
          /\ reply[d].entry.generated_at <= req[c].asked
      BY <2>1 DEF IndInv, OrderInv, CachedFor
    <2>3. /\ CachedFor(c) # NoEntry => CachedFor(c).generated_at \in Nat
          /\ reply[d].entry.generated_at \in Nat
          /\ req[c].asked \in Nat
      BY DEF IndInv, TypeOK, CachedFor, Request, MaybeEntry, Entry
    <2>4. Fetched(c).generated_at = req[c].asked
      BY DEF Fetched
    <2> QED
      BY <2>1, <2>2, <2>3, <2>4
  <1>2. IndInv /\ [Next]_vars => [Newer]_vars
    BY <1>1
  <1> QED
    BY <1>2, Invariance, PTL DEF Spec, ReadsAreMonotonic

(* A failed refresh is an error only for a location with nothing cached.    *)
THEOREM OutageKeepsForecast == Spec => ErrorOnlyWhenNothingCached
  <1> DEFINE OnlyThen == \A c \in Callers :
               Answers(c) /\ reply'[c].kind = "error" => CachedFor(c) = NoEntry
  <1>1. IndInv /\ [Next]_vars => [OnlyThen]_vars
    BY AnswerSteps
  <1> QED
    BY <1>1, Invariance, PTL DEF Spec, ErrorOnlyWhenNothingCached

(* A GET never falls back to a forecast that had expired when it tried.     *)
THEOREM FallbackOfGetIsEligible == Spec => GetFallbackIsEligible
  <1> DEFINE Eligible == \A c \in Callers :
               Answers(c) /\ reply'[c].kind = "fallback" /\ req[c].op = "get" =>
                 fetch[c].at < reply'[c].entry.fetched_at + StaleTTL
  <1>1. IndInv /\ [Next]_vars => Eligible
    <2> SUFFICES ASSUME IndInv, [Next]_vars, NEW c \in Callers,
                        Answers(c), reply'[c].kind = "fallback", req[c].op = "get"
                 PROVE  fetch[c].at < reply'[c].entry.fetched_at + StaleTTL
      OBVIOUS
    <2>1. pc[c] = "fetching" /\ CachedFor(c) # NoEntry /\ reply'[c].entry = CachedFor(c)
      BY AnswerSteps
    <2> QED
      BY <2>1 DEF IndInv, OrderInv, CachedDuringFetch
  <1>2. IndInv /\ [Next]_vars => [Eligible]_vars
    BY <1>1
  <1> QED
    BY <1>2, Invariance, PTL DEF Spec, GetFallbackIsEligible

(* A forecast handed out as fresh was made for this request or is young,    *)
(* and a forced refresh is only ever answered with its own.                 *)
THEOREM FreshIsFresh == Spec => FreshIsLiveOrYoung
  <1> DEFINE Live == \A c \in Callers :
               Answers(c) /\ reply'[c].kind \in {"hit", "fetched"} =>
                 \/ reply'[c].entry.generated_at = req[c].asked
                 \/ req[c].op = "get" /\ clock < reply'[c].entry.fetched_at + FreshTTL
  <1>1. IndInv /\ [Next]_vars => Live
    <2> SUFFICES ASSUME IndInv, [Next]_vars, NEW c \in Callers,
                        Answers(c), reply'[c].kind \in {"hit", "fetched"}
                 PROVE  \/ reply'[c].entry.generated_at = req[c].asked
                        \/ /\ req[c].op = "get"
                           /\ clock < reply'[c].entry.fetched_at + FreshTTL
      OBVIOUS
    <2>1. \/ FreshHit(c) /\ reply'[c].entry = CachedFor(c)
          \/ reply'[c].entry = Fetched(c)
      BY AnswerSteps
    <2> QED
      BY <2>1 DEF FreshHit, Fresh, Fetched
  <1>2. IndInv /\ [Next]_vars => [Live]_vars
    BY <1>1
  <1> QED
    BY <1>2, Invariance, PTL DEF Spec, FreshIsLiveOrYoung

-----------------------------------------------------------------------------
(* Refinement *)

Asking == {c \in Callers : pc[c] # "idle"}

LEMMA InitRefines == Init => Store!Init
  BY DEF Init, Store!Init, Store!NoAnswer, NoReply

(* Answering removes exactly the caller from those that are asking.         *)
LEMMA AnswerRefines ==
  ASSUME TypeOK, NEW c \in Callers, pc[c] # "idle", NEW kind, NEW e,
         Answer(c, kind, e), UNCHANGED <<clock, req>>
  PROVE  Store!Tell(c, kind, e) /\ c \in Asking
  <1>1. pc'[c] = "idle" /\ \A d \in Callers : d # c => pc'[d] = pc[d]
    BY DEF Answer, TypeOK
  <1>2. {d \in Callers : pc'[d] # "idle"} = {d \in Callers : pc[d] # "idle"} \ {c}
    BY <1>1
  <1> QED
    BY <1>2 DEF Answer, Store!Tell, Asking

LEMMA StepRefines ==
  ASSUME IndInv, [Next]_vars
  PROVE  [Store!Next]_(Store!vars)
  <1>0. /\ TypeOK /\ QueueInv /\ FallbackIsCurrent /\ SnapshotsInRequestOrder /\ OrderInv
        /\ clock \in Nat
        /\ \A c \in Callers : req[c].key \in Keys /\ req[c].asked \in Nat /\ fetch[c].at \in Nat
    BY DEF IndInv, TypeOK, Request
  <1>1. ASSUME NEW c \in Callers, NEW k \in Keys, NEW op \in Ops, Call(c, k, op)
        PROVE  Store!Next
    <2>1. {d \in Callers : pc'[d] # "idle"} = Asking \union {c}
      BY <1>0, <1>1 DEF Call, TypeOK, Asking
    <2>2. Store!Ask(c, k, op) /\ c \in Callers \ Asking
      BY <1>1, <2>1 DEF Call, Store!Ask, Store!NoAnswer, NoReply, Asking
    <2> QED
      BY <2>2 DEF Store!Next, Ops, Asking
  <1>2. ASSUME NEW c \in Callers, Hit(c) PROVE Store!Next
    <2>1. Store!Tell(c, "hit", CachedFor(c)) /\ c \in Asking
      <3>1. /\ Answer(c, "hit", CachedFor(c)) /\ UNCHANGED <<clock, req>>
            /\ pc[c] # "idle"
        BY <1>2 DEF Hit
      <3> QED
        BY <1>0, <3>1, AnswerRefines DEF Store!Tell
    <2>2. Store!Serve(c, CachedFor(c)) /\ CachedFor(c) \in {entries[req[c].key]} \ {NoEntry}
      BY <1>2, <2>1 DEF Hit, FreshHit, Fresh, CachedFor, Store!Serve
    <2> QED
      BY <2>1, <2>2 DEF Store!Next, Asking
  <1>3. ASSUME NEW c \in Callers, StartFetch(c) PROVE [Store!Next]_(Store!vars)
    <2>1. {d \in Callers : pc'[d] # "idle"} = Asking
      BY <1>0, <1>3 DEF StartFetch, TypeOK, Asking
    <2>2. CASE Evicts(c)
      <3>1. Store!Expire(c) /\ c \in Asking
        BY <1>0, <1>3, <2>1, <2>2
        DEF StartFetch, Evicts, Expired, CachedFor, Store!Expire, Asking, TypeOK
      <3> QED
        BY <3>1 DEF Store!Next, Asking
    <2>3. CASE ~Evicts(c)
      <3>1. entries' = entries
        BY <1>0, <1>3, <2>3 DEF StartFetch, CachedFor, TypeOK
      <3> QED
        BY <1>3, <2>1, <3>1 DEF StartFetch, Store!vars, Asking
    <2> QED
      BY <2>2, <2>3
  <1>4. ASSUME NEW c \in Callers, FetchOk(c) PROVE Store!Next
    <2>1. Store!Tell(c, "fetched", Fetched(c)) /\ c \in Asking
      <3>1. /\ Answer(c, "fetched", Fetched(c)) /\ UNCHANGED <<clock, req>>
            /\ pc[c] # "idle"
        BY <1>4 DEF FetchOk
      <3> QED
        BY <1>0, <3>1, AnswerRefines DEF Store!Tell
    <2>2. /\ req[c].asked <= fetch[c].at /\ fetch[c].at <= clock
          /\ entries[req[c].key] # NoEntry =>
               /\ entries[req[c].key].generated_at <= req[c].asked
               /\ entries[req[c].key].fetched_at <= fetch[c].at
      BY <1>0, <1>4
      DEF FetchOk, OrderInv, SnapshotsInRequestOrder, CachedFor, CachedDuringFetch
    <2>3. Store!Publish(c, fetch[c].at)
      BY <1>4, <2>1, <2>2 DEF FetchOk, Fetched, Store!Publish
    <2>4. fetch[c].at \in 0..clock
      BY <1>0, <2>2
    <2> QED
      BY <2>1, <2>3, <2>4 DEF Store!Next, Asking
  <1>5. ASSUME NEW c \in Callers, FetchFail(c) PROVE Store!Next
    <2>1. fetch[c].fallback = CachedFor(c) /\ pc[c] = "fetching"
      BY <1>0, <1>5 DEF FetchFail, FallbackIsCurrent
    <2>2. CASE CachedFor(c) # NoEntry
      <3>1. Store!Tell(c, "fallback", CachedFor(c)) /\ c \in Asking
        <4>1. /\ Answer(c, "fallback", CachedFor(c)) /\ UNCHANGED <<clock, req>>
              /\ pc[c] # "idle"
          BY <1>5, <2>1, <2>2 DEF FetchFail
        <4> QED
          BY <1>0, <4>1, AnswerRefines DEF Store!Tell
      <3>2. /\ req[c].asked <= fetch[c].at /\ fetch[c].at <= clock
            /\ req[c].op = "get" => fetch[c].at < CachedFor(c).fetched_at + StaleTTL
        BY <1>0, <2>1, <2>2 DEF OrderInv, CachedDuringFetch
      <3>3. Store!FallBack(c, fetch[c].at, CachedFor(c)) /\ fetch[c].at \in 0..clock
        BY <1>0, <1>5, <3>1, <3>2 DEF FetchFail, Store!FallBack
      <3>4. CachedFor(c) \in {entries[req[c].key]} \ {NoEntry}
        BY <2>2 DEF CachedFor
      <3> QED
        BY <3>1, <3>3, <3>4 DEF Store!Next, Asking
    <2>3. CASE CachedFor(c) = NoEntry
      <3>1. Store!Tell(c, "error", NoEntry) /\ c \in Asking
        BY <1>0, <1>5, <2>1, <2>3, AnswerRefines DEF FetchFail
      <3>2. Store!GiveUp(c)
        BY <1>5, <2>3, <3>1 DEF FetchFail, Store!GiveUp, CachedFor
      <3> QED
        BY <3>1, <3>2 DEF Store!Next, Asking
    <2> QED
      BY <2>2, <2>3
  <1>6. CASE Restart
    <2>1. {d \in Callers : pc'[d] # "idle"} = {}
      BY <1>6 DEF Restart
    <2> QED
      BY <1>6, <2>1 DEF Restart, Store!Crash, Store!Next
  <1>7. CASE Tick
    BY <1>7 DEF Tick, Store!Pass, Store!Next
  <1>8. CASE UNCHANGED vars
    BY <1>8 DEF vars, Store!vars
  <1> QED
    BY <1>1, <1>2, <1>3, <1>4, <1>5, <1>6, <1>7, <1>8 DEF Next, Step

(* The cache with its locks, queues and fetches in flight implements the    *)
(* store in which every answer is one atomic step.                          *)
THEOREM Refinement == Spec => ImplementsStore
  <1>1. IndInv /\ [Next]_vars => [Store!Next]_(Store!vars)
    BY StepRefines
  <1> QED
    BY <1>1, InitRefines, Invariance, PTL DEF Spec, Store!Spec, ImplementsStore
=============================================================================
