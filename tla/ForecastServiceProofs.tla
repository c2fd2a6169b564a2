----------------------- MODULE ForecastServiceProofs ------------------------
(***************************************************************************)
(* Theorems of StationCatalogs, for every number of callers and catalogs   *)
(* and all values of the two TTLs, and of ForecastService, whose routes    *)
(* resolve the point first and then ask the cache of snapshots.            *)
(***************************************************************************)
EXTENDS ForecastService, TLAPS

(* Whatever is cached or was returned is dated in the past, a request's     *)
(* arrival too; an empty catalog is from the outage.                        *)
Dated(e) == e.stations = "empty" => e.fetched_at < HealthyFrom

TimeInv ==
  /\ \A c \in Callers : asked[c] <= clock
  /\ \A k \in Catalogs : cache[k] # None => cache[k].fetched_at <= clock /\ Dated(cache[k])
  /\ \A c \in Callers, k \in Catalogs : got[c][k] # None => Dated(got[c][k])

(* A call that ended well has its catalog, and while one is fetching what   *)
(* is cached has expired.                                                   *)
CallInv ==
  \A c \in Callers, k \in Catalogs :
    /\ task[c][k] = "done" => got[c][k] # None
    /\ task[c][k] = "fetching" /\ cache[k] # None =>
         clock >= cache[k].fetched_at + TTLOf(cache[k])

(* ResolvedOnCurrentCatalogs, whatever became of the request.               *)
CurrentWhenAsked ==
  \A c \in Callers, k \in Catalogs : got[c][k] # None =>
    \/ asked[c] <= got[c][k].fetched_at
    \/ asked[c] < got[c][k].fetched_at + TTLOf(got[c][k])

CatalogsInv ==
  /\ CatalogsTypeOK
  /\ LockQueues
  /\ TimeInv
  /\ CallInv
  /\ CurrentWhenAsked
  /\ RecoversAfterOutage

LEMMA CatalogsInitInv == CatalogsInit => CatalogsInv
  <1> SUFFICES ASSUME CatalogsInit PROVE CatalogsInv
    OBVIOUS
  <1>1. CatalogsTypeOK
    BY DEF CatalogsInit, CatalogsTypeOK, NoTasks, NothingGot, Tasks, Outcomes
  <1>2. LockQueues
    BY DEF CatalogsInit, LockQueues, NoTasks
  <1>3. TimeInv /\ CallInv /\ CurrentWhenAsked /\ RecoversAfterOutage
    BY DEF CatalogsInit, TimeInv, CallInv, CurrentWhenAsked, RecoversAfterOutage,
           NoTasks, NothingGot
  <1> QED
    BY <1>1, <1>2, <1>3 DEF CatalogsInv

(* What a lock's queue looks like after a call joins it at the tail, and    *)
(* after its head leaves.                                                   *)
LEMMA Joined ==
  ASSUME NEW q \in Seq(Callers), NEW c \in Callers
  PROVE  /\ Append(q, c) \in Seq(Callers)
         /\ Len(q) \in Nat
         /\ Len(Append(q, c)) = Len(q) + 1
         /\ \A i \in 1..Len(q) : Append(q, c)[i] = q[i]
         /\ Append(q, c)[Len(q) + 1] = c
         /\ Append(q, c) # <<>>
         /\ q # <<>> => Head(Append(q, c)) = Head(q)
  <1>1. /\ Append(q, c) \in Seq(Callers)
        /\ Len(q) \in Nat
        /\ Len(Append(q, c)) = Len(q) + 1
        /\ \A i \in 1..Len(q) : Append(q, c)[i] = q[i]
        /\ Append(q, c)[Len(q) + 1] = c
    OBVIOUS
  <1>2. Append(q, c) # <<>>
    BY <1>1
  <1>3. ASSUME q # <<>> PROVE Head(Append(q, c)) = Head(q)
    <2>1. Head(q) = q[1] /\ 1 \in 1..Len(q)
      BY <1>1, <1>3
    <2>2. Head(Append(q, c)) = Append(q, c)[1]
      BY <1>1, <1>2
    <2> QED
      BY <1>1, <2>1, <2>2
  <1> QED
    BY <1>1, <1>2, <1>3

LEMMA Left ==
  ASSUME NEW q \in Seq(Callers), q # <<>>
  PROVE  /\ Tail(q) \in Seq(Callers)
         /\ Len(q) \in Nat \ {0}
         /\ Len(Tail(q)) = Len(q) - 1
         /\ \A i \in 1..Len(Tail(q)) : Tail(q)[i] = q[i + 1]
         /\ Head(q) = q[1]
         /\ \A i \in 1..Len(q) : q[i] \in Callers
  OBVIOUS

-----------------------------------------------------------------------------
(* Type correctness *)

(* Who is fetching a catalog holds its lock, and so its queue has a head.   *)
LEMMA FetchingHolds ==
  ASSUME LockQueues, NEW c \in Callers, NEW k \in Catalogs, task[c][k] = "fetching"
  PROVE  HoldsLock(c, k)
  BY DEF LockQueues

LEMMA ReturnTyped ==
  ASSUME CatalogsTypeOK, NEW c \in Callers, NEW k \in Catalogs, NEW e \in Cached,
         HoldsLock(c, k), Return(c, k, e)
  PROVE  /\ queue' \in [Catalogs -> Seq(Callers)]
         /\ task' \in [Callers -> [Catalogs -> Tasks]]
         /\ got' \in [Callers -> [Catalogs -> Cached \union {None}]]
  <1>1. queue' \in [Catalogs -> Seq(Callers)]
    BY Left DEF CatalogsTypeOK, HoldsLock, Return
  <1>2. /\ task' = [task EXCEPT ![c] = [task[c] EXCEPT ![k] = "done"]]
        /\ got' = [got EXCEPT ![c] = [got[c] EXCEPT ![k] = e]]
    BY DEF CatalogsTypeOK, Return
  <1> QED
    BY <1>1, <1>2 DEF CatalogsTypeOK, Tasks

LEMMA CatalogsTypeStep ==
  CatalogsTypeOK /\ LockQueues /\ [CatalogsNext]_catalogVars => CatalogsTypeOK'
  <1> SUFFICES ASSUME CatalogsTypeOK, LockQueues, [CatalogsNext]_catalogVars
               PROVE  CatalogsTypeOK'
    OBVIOUS
  <1> USE DEF CatalogsTypeOK
  <1>1. ASSUME NEW c \in Callers, Resolve(c) PROVE CatalogsTypeOK'
    <2>1. queue' \in [Catalogs -> Seq(Callers)]
      BY <1>1, Joined DEF Resolve
    <2>2. /\ task' \in [Callers -> [Catalogs -> Tasks]]
          /\ got' \in [Callers -> [Catalogs -> Cached \union {None}]]
      BY <1>1 DEF Resolve, NothingGot, Tasks
    <2> QED
      BY <1>1, <2>1, <2>2 DEF Resolve, Outcomes
  <1>2. ASSUME NEW c \in Callers, Gate(c) PROVE CatalogsTypeOK'
    BY <1>2 DEF Gate, NoTasks, Tasks, Outcomes
  <1>3. ASSUME NEW c \in Callers, NEW k \in Catalogs, Reuse(c, k) PROVE CatalogsTypeOK'
    <2>1. cache[k] \in Cached
      BY <1>3 DEF Reuse, Current
    <2> QED
      BY <1>3, <2>1, ReturnTyped DEF Reuse
  <1>4. ASSUME NEW c \in Callers, NEW k \in Catalogs, StartFetch(c, k) PROVE CatalogsTypeOK'
    <2>1. task' = [task EXCEPT ![c] = [task[c] EXCEPT ![k] = "fetching"]]
      BY <1>4 DEF StartFetch
    <2> QED
      BY <1>4, <2>1 DEF StartFetch, Tasks
  <1>5. ASSUME NEW c \in Callers, NEW k \in Catalogs, NEW s \in Contents, EndFetch(c, k, s)
        PROVE  CatalogsTypeOK'
    <2> DEFINE e == [stations |-> s, fetched_at |-> clock]
    <2>1. e \in Cached
      BY DEF Cached
    <2>2. /\ task[c][k] = "fetching" /\ Return(c, k, e)
          /\ cache' = [cache EXCEPT ![k] = e]
          /\ UNCHANGED <<clock, asked, outcome>>
      BY <1>5 DEF EndFetch
    <2> QED
      BY <2>1, <2>2, FetchingHolds, ReturnTyped
  <1>6. ASSUME NEW c \in Callers, NEW k \in Catalogs, FetchRaises(c, k) PROVE CatalogsTypeOK'
    <2>1. HoldsLock(c, k)
      BY <1>6, FetchingHolds DEF FetchRaises
    <2>2. queue' \in [Catalogs -> Seq(Callers)]
      BY <1>6, <2>1, Left DEF FetchRaises, HoldsLock
    <2>3. task' = [task EXCEPT ![c] = [task[c] EXCEPT ![k] = "idle"]]
      BY <1>6 DEF FetchRaises
    <2> QED
      BY <1>6, <2>2, <2>3 DEF FetchRaises, Tasks, Outcomes
  <1>7. ASSUME CatalogsRestart PROVE CatalogsTypeOK'
    BY <1>7 DEF CatalogsRestart, NoTasks, Tasks, Outcomes
  <1>8. ASSUME CatalogsTick PROVE CatalogsTypeOK'
    BY <1>8 DEF CatalogsTick
  <1>9. ASSUME UNCHANGED catalogVars PROVE CatalogsTypeOK'
    BY <1>9 DEF catalogVars
  <1> QED
    BY <1>1, <1>2, <1>3, <1>4, <1>5, <1>6, <1>7, <1>8, <1>9 DEF CatalogsNext, CallStep

-----------------------------------------------------------------------------
(* The locks *)

InCall(t) == t \in {"waiting", "fetching"}

(* A request whose last calls have all ended joins every queue. *)
LEMMA ResolveQueues ==
  ASSUME CatalogsTypeOK, LockQueues, NEW c \in Callers, Resolve(c)
  PROVE  LockQueues'
  <1>1. /\ \A k \in Catalogs : ~InCall(task[c][k])
        /\ \A k \in Catalogs : task'[c][k] = "waiting"
        /\ \A d \in Callers : d # c => task'[d] = task[d]
    BY DEF CatalogsTypeOK, Resolve, Active, InCall
  <1> SUFFICES ASSUME NEW k \in Catalogs
               PROVE  /\ \A i, j \in 1..Len(queue'[k]) : queue'[k][i] = queue'[k][j] => i = j
                      /\ \A i \in 1..Len(queue'[k]) : InCall(task'[queue'[k][i]][k])
                      /\ \A d \in Callers : InCall(task'[d][k]) =>
                           \E i \in 1..Len(queue'[k]) : queue'[k][i] = d
                      /\ \A d \in Callers : task'[d][k] = "fetching" =>
                           queue'[k] # <<>> /\ Head(queue'[k]) = d
    BY DEF LockQueues, HoldsLock, InCall
  <1> DEFINE q == queue[k]
             n == Len(q)
  <1>2. /\ n \in Nat
        /\ \A i \in 1..n : q[i] \in Callers /\ InCall(task[q[i]][k]) /\ q[i] # c
        /\ \A i, j \in 1..n : q[i] = q[j] => i = j
    BY <1>1 DEF CatalogsTypeOK, LockQueues, InCall
  <1>3. /\ Len(queue'[k]) = n + 1
        /\ \A i \in 1..n : queue'[k][i] = q[i]
        /\ queue'[k][n + 1] = c
        /\ queue'[k] # <<>>
        /\ q # <<>> => Head(queue'[k]) = Head(q)
    BY Joined DEF CatalogsTypeOK, Resolve
  <1>4. \A i \in 1..Len(queue'[k]) : i = n + 1 \/ i \in 1..n
    BY <1>2, <1>3
  <1>5. \A i, j \in 1..Len(queue'[k]) : queue'[k][i] = queue'[k][j] => i = j
    BY <1>2, <1>3, <1>4
  <1>6. \A i \in 1..Len(queue'[k]) : InCall(task'[queue'[k][i]][k])
    BY SMTT(30), <1>1, <1>2, <1>3, <1>4 DEF InCall
  <1>7. ASSUME NEW d \in Callers, InCall(task'[d][k])
        PROVE  \E i \in 1..Len(queue'[k]) : queue'[k][i] = d
    <2>1. CASE d = c
      BY <2>1, <1>2, <1>3
    <2>2. CASE d # c
      <3>1. PICK i \in 1..n : q[i] = d
        BY <1>1, <1>7, <2>2 DEF LockQueues, InCall
      <3> QED
        BY <3>1, <1>2, <1>3
    <2> QED
      BY <2>1, <2>2
  <1>8. ASSUME NEW d \in Callers, task'[d][k] = "fetching"
        PROVE  queue'[k] # <<>> /\ Head(queue'[k]) = d
    <2>1. d # c /\ task[d][k] = "fetching"
      BY <1>1, <1>8
    <2>2. q # <<>> /\ Head(q) = d
      BY <2>1 DEF LockQueues, HoldsLock
    <2> QED
      BY <2>2, <1>3
  <1> QED
    BY <1>5, <1>6, <1>7, <1>8

(* The holder of a lock leaves its queue, by any way out of the call. *)
LEMMA LeaveQueues ==
  ASSUME CatalogsTypeOK, LockQueues, NEW c \in Callers, NEW k \in Catalogs,
         HoldsLock(c, k), NEW end \in {"done", "idle"},
         task' = [task EXCEPT ![c][k] = end],
         queue' = [queue EXCEPT ![k] = Tail(@)]
  PROVE  LockQueues'
  <1> DEFINE q == queue[k]
  <1>1. q \in Seq(Callers) /\ q # <<>> /\ Head(q) = c
    BY DEF CatalogsTypeOK, HoldsLock
  <1>2. /\ Len(q) \in Nat \ {0} /\ q[1] = c
        /\ Len(queue'[k]) = Len(q) - 1
        /\ \A i \in 1..Len(queue'[k]) : queue'[k][i] = q[i + 1]
        /\ \A i \in 1..Len(q) : q[i] \in Callers
        /\ queue'[k] \in Seq(Callers)
        /\ \A m \in Catalogs : m # k => queue'[m] = queue[m]
    BY <1>1, Left DEF CatalogsTypeOK
  <1>3. /\ task'[c][k] = end
        /\ \A d \in Callers, m \in Catalogs : d # c \/ m # k => task'[d][m] = task[d][m]
    BY DEF CatalogsTypeOK
  <1>4. ASSUME NEW d \in Callers, task'[d][k] = "fetching" PROVE FALSE
    <2>1. d # c /\ task[d][k] = "fetching"
      BY <1>3, <1>4
    <2> QED
      BY <2>1, <1>1 DEF LockQueues, HoldsLock
  <1>5. \A i \in 1..Len(queue'[k]) : /\ i + 1 \in 1..Len(q) /\ q[i + 1] # c
                                     /\ InCall(task'[queue'[k][i]][k])
    <2> SUFFICES ASSUME NEW i \in 1..Len(queue'[k])
                 PROVE  /\ i + 1 \in 1..Len(q) /\ q[i + 1] # c
                        /\ InCall(task'[queue'[k][i]][k])
      OBVIOUS
    <2>1. i + 1 \in 1..Len(q) /\ 1 \in 1..Len(q) /\ i + 1 # 1
      BY <1>2
    <2>2. q[i + 1] # c
      BY <2>1, <1>2 DEF LockQueues
    <2>3. InCall(task[q[i + 1]][k]) /\ q[i + 1] \in Callers
      BY <2>1, <1>2 DEF LockQueues, InCall
    <2> QED
      BY <2>1, <2>2, <2>3, <1>2, <1>3
  <1>6. \A i, j \in 1..Len(queue'[k]) : queue'[k][i] = queue'[k][j] => i = j
    <2> SUFFICES ASSUME NEW i \in 1..Len(queue'[k]), NEW j \in 1..Len(queue'[k]),
                        queue'[k][i] = queue'[k][j]
                 PROVE  i = j
      OBVIOUS
    <2>1. i + 1 \in 1..Len(q) /\ j + 1 \in 1..Len(q) /\ q[i + 1] = q[j + 1]
      BY <1>2, <1>5
    <2>2. i + 1 = j + 1
      BY <2>1 DEF LockQueues
    <2> QED
      BY <2>2, <1>2
  <1>7. ASSUME NEW d \in Callers, InCall(task'[d][k])
        PROVE  \E i \in 1..Len(queue'[k]) : queue'[k][i] = d
    <2>1. d # c /\ InCall(task[d][k])
      BY <1>3, <1>7 DEF InCall
    <2>2. PICK i \in 1..Len(q) : q[i] = d
      BY <2>1 DEF LockQueues, InCall
    <2>3. i # 1
      BY <2>1, <2>2, <1>2
    <2>4. i - 1 \in 1..Len(queue'[k]) /\ queue'[k][i - 1] = d
      BY <2>2, <2>3, <1>2
    <2> QED
      BY <2>4
  <1>8. ASSUME NEW m \in Catalogs, m # k
        PROVE  /\ \A i, j \in 1..Len(queue'[m]) : queue'[m][i] = queue'[m][j] => i = j
               /\ \A i \in 1..Len(queue'[m]) : InCall(task'[queue'[m][i]][m])
               /\ \A d \in Callers : InCall(task'[d][m]) =>
                    \E i \in 1..Len(queue'[m]) : queue'[m][i] = d
               /\ \A d \in Callers : task'[d][m] = "fetching" =>
                    queue'[m] # <<>> /\ Head(queue'[m]) = d
    <2>1. queue'[m] = queue[m] /\ \A d \in Callers : task'[d][m] = task[d][m]
      BY <1>2, <1>3, <1>8
    <2>2. \A i \in 1..Len(queue[m]) : queue[m][i] \in Callers
      BY DEF CatalogsTypeOK
    <2>3. /\ \A i, j \in 1..Len(queue[m]) : queue[m][i] = queue[m][j] => i = j
          /\ \A i \in 1..Len(queue[m]) : InCall(task[queue[m][i]][m])
          /\ \A d \in Callers : InCall(task[d][m]) => \E i \in 1..Len(queue[m]) : queue[m][i] = d
          /\ \A d \in Callers : task[d][m] = "fetching" => queue[m] # <<>> /\ Head(queue[m]) = d
      BY DEF LockQueues, HoldsLock, InCall
    <2>4. ASSUME NEW i \in 1..Len(queue'[m]) PROVE InCall(task'[queue'[m][i]][m])
      <3>1. queue'[m][i] = queue[m][i] /\ i \in 1..Len(queue[m])
        BY <2>1
      <3>2. task'[queue[m][i]][m] = task[queue[m][i]][m]
        BY <2>1, <2>2, <3>1
      <3>3. InCall(task[queue[m][i]][m])
        BY <2>3, <3>1
      <3> QED
        BY <3>1, <3>2, <3>3 DEF InCall
    <2>5. \A i, j \in 1..Len(queue'[m]) : queue'[m][i] = queue'[m][j] => i = j
      BY <2>1, <2>3
    <2>6. \A d \in Callers : InCall(task'[d][m]) =>
                    \E i \in 1..Len(queue'[m]) : queue'[m][i] = d
      BY ZenonT(30), <2>1, <2>3
    <2> QED
      BY <2>1, <2>3, <2>4, <2>5, <2>6
  <1> SUFFICES ASSUME NEW m \in Catalogs
               PROVE  /\ \A i, j \in 1..Len(queue'[m]) : queue'[m][i] = queue'[m][j] => i = j
                      /\ \A i \in 1..Len(queue'[m]) : InCall(task'[queue'[m][i]][m])
                      /\ \A d \in Callers : InCall(task'[d][m]) =>
                           \E i \in 1..Len(queue'[m]) : queue'[m][i] = d
                      /\ \A d \in Callers : task'[d][m] = "fetching" =>
                           queue'[m] # <<>> /\ Head(queue'[m]) = d
    BY DEF LockQueues, HoldsLock, InCall
  <1>9. CASE m = k
    BY ZenonT(30), <1>4, <1>5, <1>6, <1>7, <1>9
  <1> QED
    BY <1>8, <1>9

LEMMA LockStep ==
  CatalogsTypeOK /\ LockQueues /\ [CatalogsNext]_catalogVars => LockQueues'
  <1> SUFFICES ASSUME CatalogsTypeOK, LockQueues, [CatalogsNext]_catalogVars
               PROVE  LockQueues'
    OBVIOUS
  <1>0. /\ \A k \in Catalogs : \A i \in 1..Len(queue[k]) : queue[k][i] \in Callers
        /\ \A c \in Callers : task[c] \in [Catalogs -> Tasks]
    BY DEF CatalogsTypeOK
  <1>1. ASSUME NEW c \in Callers, Resolve(c) PROVE LockQueues'
    BY <1>1, ResolveQueues
  <1>2. ASSUME NEW c \in Callers, Gate(c) PROVE LockQueues'
    <2>1. \A d \in Callers, k \in Catalogs :
            /\ InCall(task'[d][k]) <=> InCall(task[d][k])
            /\ task'[d][k] = "fetching" <=> task[d][k] = "fetching"
      BY <1>2 DEF CatalogsTypeOK, Gate, NoTasks, InCall
    <2>2. UNCHANGED queue
      BY <1>2 DEF Gate
    <2> QED
      BY <1>0, <2>1, <2>2 DEF LockQueues, HoldsLock, InCall
  <1>3. ASSUME NEW c \in Callers, NEW k \in Catalogs, Reuse(c, k) PROVE LockQueues'
    BY <1>3, LeaveQueues DEF Reuse, Return
  <1>4. ASSUME NEW c \in Callers, NEW k \in Catalogs, StartFetch(c, k) PROVE LockQueues'
    <2>1. /\ \A d \in Callers, m \in Catalogs : InCall(task'[d][m]) <=> InCall(task[d][m])
          /\ \A d \in Callers, m \in Catalogs :
               task'[d][m] = "fetching" => task[d][m] = "fetching" \/ (d = c /\ m = k)
      BY <1>4 DEF CatalogsTypeOK, StartFetch, InCall
    <2>2. UNCHANGED queue /\ HoldsLock(c, k)
      BY <1>4 DEF StartFetch
    <2> QED
      BY <1>0, <2>1, <2>2 DEF LockQueues, HoldsLock, InCall
  <1>5. ASSUME NEW c \in Callers, NEW k \in Catalogs, NEW s \in Contents, EndFetch(c, k, s)
        PROVE  LockQueues'
    BY <1>5, FetchingHolds, LeaveQueues DEF EndFetch, Return
  <1>6. ASSUME NEW c \in Callers, NEW k \in Catalogs, FetchRaises(c, k) PROVE LockQueues'
    BY <1>6, FetchingHolds, LeaveQueues DEF FetchRaises
  <1>7. ASSUME CatalogsRestart PROVE LockQueues'
    BY <1>7 DEF CatalogsRestart, NoTasks, LockQueues
  <1>8. ASSUME CatalogsTick PROVE LockQueues'
    BY <1>8 DEF CatalogsTick, LockQueues, HoldsLock
  <1>9. ASSUME UNCHANGED catalogVars PROVE LockQueues'
    BY <1>9 DEF catalogVars, LockQueues, HoldsLock
  <1> QED
    BY <1>1, <1>2, <1>3, <1>4, <1>5, <1>6, <1>7, <1>8, <1>9 DEF CatalogsNext, CallStep

-----------------------------------------------------------------------------
(* What is cached and what was returned *)

(* A call that returns changes its own two fields. *)
LEMMA ReturnFields ==
  ASSUME CatalogsTypeOK, NEW c \in Callers, NEW k \in Catalogs, NEW e, Return(c, k, e)
  PROVE  /\ task'[c][k] = "done" /\ got'[c][k] = e
         /\ \A d \in Callers, m \in Catalogs : d # c \/ m # k =>
              task'[d][m] = task[d][m] /\ got'[d][m] = got[d][m]
  BY DEF CatalogsTypeOK, Return

(* The catalog a fetch delivers: dated now, and empty only in the outage.   *)
LEMMA Fetched ==
  ASSUME CatalogsTypeOK, NEW c \in Callers, NEW k \in Catalogs, NEW s \in Contents,
         EndFetch(c, k, s)
  PROVE  /\ cache'[k] \in Cached /\ cache'[k] # None
         /\ cache'[k].fetched_at = clock /\ Dated(cache'[k])
         /\ \A m \in Catalogs : m # k => cache'[m] = cache[m]
         /\ task[c][k] = "fetching" /\ Return(c, k, cache'[k])
         /\ UNCHANGED <<clock, asked, outcome>>
  <1> DEFINE e == [stations |-> s, fetched_at |-> clock]
  <1>1. cache' = [cache EXCEPT ![k] = e] /\ Return(c, k, e)
    BY DEF EndFetch
  <1>2. cache'[k] = e /\ \A m \in Catalogs : m # k => cache'[m] = cache[m]
    BY <1>1 DEF CatalogsTypeOK
  <1>3. e \in Cached /\ e # None
    BY NoneAssumption DEF Cached, CatalogsTypeOK
  <1>4. Dated(e)
    BY DEF Dated, EndFetch
  <1> QED
    BY <1>1, <1>2, <1>3, <1>4 DEF EndFetch

LEMMA TimeStep ==
  CatalogsTypeOK /\ TimeInv /\ [CatalogsNext]_catalogVars => TimeInv'
  <1> SUFFICES ASSUME CatalogsTypeOK, TimeInv, [CatalogsNext]_catalogVars
               PROVE  TimeInv'
    OBVIOUS
  <1>1. ASSUME NEW c \in Callers, Resolve(c) PROVE TimeInv'
    <2>1. /\ \A d \in Callers : d # c => asked'[d] = asked[d] /\ got'[d] = got[d]
          /\ asked'[c] = clock /\ \A k \in Catalogs : got'[c][k] = None
          /\ UNCHANGED <<clock, cache>>
      BY <1>1 DEF Resolve, NothingGot, CatalogsTypeOK
    <2>2. \A d \in Callers : asked'[d] <= clock'
      <3>1. clock \in Nat /\ \A d \in Callers : asked[d] <= clock
        BY DEF CatalogsTypeOK, TimeInv
      <3> QED
        BY <2>1, <3>1
    <2>3. \A d \in Callers, k \in Catalogs : got'[d][k] # None => Dated(got'[d][k])
      BY <2>1 DEF TimeInv
    <2> QED
      BY <2>1, <2>2, <2>3 DEF TimeInv
  <1>2. ASSUME NEW c \in Callers, Gate(c) PROVE TimeInv'
    BY <1>2 DEF Gate, TimeInv
  <1>3. ASSUME NEW c \in Callers, NEW k \in Catalogs, Reuse(c, k) PROVE TimeInv'
    <2>1. cache[k] # None /\ Return(c, k, cache[k]) /\ UNCHANGED <<clock, cache, asked>>
      BY <1>3 DEF Reuse, Current
    <2> QED
      BY <2>1, ReturnFields DEF TimeInv
  <1>4. ASSUME NEW c \in Callers, NEW k \in Catalogs, StartFetch(c, k) PROVE TimeInv'
    BY <1>4 DEF StartFetch, TimeInv
  <1>5. ASSUME NEW c \in Callers, NEW k \in Catalogs, NEW s \in Contents, EndFetch(c, k, s)
        PROVE  TimeInv'
    <2>1. \A d \in Callers, m \in Catalogs : got'[d][m] # None => Dated(got'[d][m])
      BY <1>5, Fetched, ReturnFields DEF TimeInv
    <2>2. \A m \in Catalogs : cache'[m] # None =>
            cache'[m].fetched_at <= clock /\ Dated(cache'[m])
      BY <1>5, Fetched DEF TimeInv, CatalogsTypeOK
    <2>3. UNCHANGED <<clock, asked>>
      BY <1>5 DEF EndFetch
    <2> QED
      BY <2>1, <2>2, <2>3 DEF TimeInv
  <1>6. ASSUME NEW c \in Callers, NEW k \in Catalogs, FetchRaises(c, k) PROVE TimeInv'
    BY <1>6 DEF FetchRaises, TimeInv
  <1>7. ASSUME CatalogsRestart PROVE TimeInv'
    BY <1>7 DEF CatalogsRestart, TimeInv
  <1>8. ASSUME CatalogsTick PROVE TimeInv'
    BY <1>8 DEF CatalogsTick, TimeInv, CatalogsTypeOK, Cached
  <1>9. ASSUME UNCHANGED catalogVars PROVE TimeInv'
    BY <1>9 DEF catalogVars, TimeInv
  <1> QED
    BY <1>1, <1>2, <1>3, <1>4, <1>5, <1>6, <1>7, <1>8, <1>9 DEF CatalogsNext, CallStep

LEMMA CallsStep ==
  CatalogsTypeOK /\ LockQueues /\ CallInv /\ [CatalogsNext]_catalogVars => CallInv'
  <1> SUFFICES ASSUME CatalogsTypeOK, LockQueues, CallInv, [CatalogsNext]_catalogVars
               PROVE  CallInv'
    OBVIOUS
  <1>1. ASSUME NEW c \in Callers, Resolve(c) PROVE CallInv'
    <2>1. /\ \A d \in Callers : d # c => task'[d] = task[d] /\ got'[d] = got[d]
          /\ \A k \in Catalogs : task'[c][k] = "waiting"
          /\ UNCHANGED <<clock, cache>>
      BY <1>1 DEF Resolve, CatalogsTypeOK
    <2> QED
      BY <2>1 DEF CallInv, TTLOf
  <1>2. ASSUME NEW c \in Callers, Gate(c) PROVE CallInv'
    <2>1. /\ \A d \in Callers : d # c => task'[d] = task[d]
          /\ \A k \in Catalogs : task'[c][k] = "idle"
          /\ UNCHANGED <<clock, cache, got>>
      BY <1>2 DEF Gate, NoTasks, CatalogsTypeOK
    <2> QED
      BY <2>1 DEF CallInv, TTLOf
  <1>3. ASSUME NEW c \in Callers, NEW k \in Catalogs, Reuse(c, k) PROVE CallInv'
    <2>1. cache[k] # None /\ Return(c, k, cache[k]) /\ UNCHANGED <<clock, cache>>
      BY <1>3 DEF Reuse, Current
    <2> QED
      BY <2>1, ReturnFields DEF CallInv, TTLOf
  <1>4. ASSUME NEW c \in Callers, NEW k \in Catalogs, StartFetch(c, k) PROVE CallInv'
    <2>1. /\ \A d \in Callers, m \in Catalogs : d # c \/ m # k => task'[d][m] = task[d][m]
          /\ task'[c][k] = "fetching"
          /\ UNCHANGED <<clock, cache, got>>
      BY <1>4 DEF StartFetch, CatalogsTypeOK
    <2>2. cache[k] # None => clock >= cache[k].fetched_at + TTLOf(cache[k])
      BY <1>4, TTLAssumption DEF StartFetch, Current, CatalogsTypeOK, Cached, TTLOf
    <2> QED
      BY <2>1, <2>2 DEF CallInv, TTLOf
  <1>5. ASSUME NEW c \in Callers, NEW k \in Catalogs, NEW s \in Contents, EndFetch(c, k, s)
        PROVE  CallInv'
    <2>1. \A d \in Callers : d # c => task[d][k] # "fetching"
      BY <1>5 DEF EndFetch, LockQueues, HoldsLock
    <2>2. /\ task'[c][k] = "done" /\ got'[c][k] # None
          /\ \A d \in Callers, m \in Catalogs : d # c \/ m # k =>
               task'[d][m] = task[d][m] /\ got'[d][m] = got[d][m]
          /\ \A m \in Catalogs : m # k => cache'[m] = cache[m]
          /\ UNCHANGED clock
      BY <1>5, Fetched, ReturnFields
    <2> QED
      BY <2>1, <2>2 DEF CallInv, TTLOf
  <1>6. ASSUME NEW c \in Callers, NEW k \in Catalogs, FetchRaises(c, k) PROVE CallInv'
    <2>1. /\ \A d \in Callers, m \in Catalogs : d # c \/ m # k => task'[d][m] = task[d][m]
          /\ task'[c][k] = "idle"
          /\ UNCHANGED <<clock, cache, got>>
      BY <1>6 DEF FetchRaises, CatalogsTypeOK
    <2> QED
      BY <2>1 DEF CallInv, TTLOf
  <1>7. ASSUME CatalogsRestart PROVE CallInv'
    BY <1>7 DEF CatalogsRestart, NoTasks, CallInv
  <1>8. ASSUME CatalogsTick PROVE CallInv'
    BY <1>8, TTLAssumption DEF CatalogsTick, CallInv, CatalogsTypeOK, Cached, TTLOf
  <1>9. ASSUME UNCHANGED catalogVars PROVE CallInv'
    BY <1>9 DEF catalogVars, CallInv, TTLOf
  <1> QED
    BY <1>1, <1>2, <1>3, <1>4, <1>5, <1>6, <1>7, <1>8, <1>9 DEF CatalogsNext, CallStep

LEMMA CurrentStep ==
  CatalogsTypeOK /\ TimeInv /\ CurrentWhenAsked /\ [CatalogsNext]_catalogVars
    => CurrentWhenAsked'
  <1> SUFFICES ASSUME CatalogsTypeOK, TimeInv, CurrentWhenAsked, [CatalogsNext]_catalogVars
               PROVE  CurrentWhenAsked'
    OBVIOUS
  <1>1. ASSUME NEW c \in Callers, Resolve(c) PROVE CurrentWhenAsked'
    <2>1. /\ \A d \in Callers : d # c => asked'[d] = asked[d] /\ got'[d] = got[d]
          /\ \A k \in Catalogs : got'[c][k] = None
      BY <1>1 DEF Resolve, NothingGot, CatalogsTypeOK
    <2> QED
      BY <2>1 DEF CurrentWhenAsked, TTLOf
  <1>2. ASSUME NEW c \in Callers, Gate(c) PROVE CurrentWhenAsked'
    BY <1>2 DEF Gate, CurrentWhenAsked, TTLOf
  <1>3. ASSUME NEW c \in Callers, NEW k \in Catalogs, Reuse(c, k) PROVE CurrentWhenAsked'
    <2>1. asked[c] < cache[k].fetched_at + TTLOf(cache[k])
      BY <1>3, TTLAssumption DEF Reuse, Current, TimeInv, CatalogsTypeOK, Cached, TTLOf
    <2>2. Return(c, k, cache[k]) /\ UNCHANGED asked
      BY <1>3 DEF Reuse
    <2> QED
      BY <2>1, <2>2, ReturnFields DEF CurrentWhenAsked, TTLOf
  <1>4. ASSUME NEW c \in Callers, NEW k \in Catalogs, StartFetch(c, k) PROVE CurrentWhenAsked'
    BY <1>4 DEF StartFetch, CurrentWhenAsked, TTLOf
  <1>5. ASSUME NEW c \in Callers, NEW k \in Catalogs, NEW s \in Contents, EndFetch(c, k, s)
        PROVE  CurrentWhenAsked'
    <2>1. asked[c] <= cache'[k].fetched_at
      BY <1>5, Fetched DEF TimeInv
    <2>2. Return(c, k, cache'[k]) /\ UNCHANGED asked
      BY <1>5, Fetched
    <2> QED
      BY <2>1, <2>2, ReturnFields DEF CurrentWhenAsked, TTLOf
  <1>6. ASSUME NEW c \in Callers, NEW k \in Catalogs, FetchRaises(c, k) PROVE CurrentWhenAsked'
    BY <1>6 DEF FetchRaises, CurrentWhenAsked, TTLOf
  <1>7. ASSUME CatalogsRestart PROVE CurrentWhenAsked'
    BY <1>7 DEF CatalogsRestart, CurrentWhenAsked, TTLOf
  <1>8. ASSUME CatalogsTick PROVE CurrentWhenAsked'
    BY <1>8 DEF CatalogsTick, CurrentWhenAsked, TTLOf
  <1>9. ASSUME UNCHANGED catalogVars PROVE CurrentWhenAsked'
    BY <1>9 DEF catalogVars, CurrentWhenAsked, TTLOf
  <1> QED
    BY <1>1, <1>2, <1>3, <1>4, <1>5, <1>6, <1>7, <1>8, <1>9 DEF CatalogsNext, CallStep

-----------------------------------------------------------------------------
(* The outage *)

(* A request that came negative_ttl_seconds after the recovery holds no     *)
(* empty catalog: it would have been dated before the recovery, and so have *)
(* expired before the request.                                              *)
LEMMA FullAfterOutage ==
  ASSUME CatalogsTypeOK, TimeInv, CurrentWhenAsked, NEW c \in Callers, NEW k \in Catalogs,
         asked[c] >= HealthyFrom + NegativeTTL, got[c][k] # None
  PROVE  got[c][k].stations = "full"
  <1> DEFINE e == got[c][k]
  <1>1. e \in Cached /\ asked[c] \in Nat
    BY DEF CatalogsTypeOK
  <1>2. e.stations \in Contents /\ e.fetched_at \in Nat
    BY <1>1 DEF Cached
  <1> SUFFICES ASSUME e.stations = "empty" PROVE FALSE
    BY <1>2 DEF Contents
  <1>3. e.fetched_at < HealthyFrom
    BY DEF TimeInv, Dated
  <1>4. asked[c] <= e.fetched_at \/ asked[c] < e.fetched_at + NegativeTTL
    BY DEF CurrentWhenAsked, TTLOf
  <1> QED
    BY <1>1, <1>2, <1>3, <1>4, TTLAssumption

LEMMA RecoveryStep ==
  /\ CatalogsTypeOK /\ TimeInv /\ CallInv /\ CurrentWhenAsked /\ RecoversAfterOutage
  /\ [CatalogsNext]_catalogVars
  => RecoversAfterOutage'
  <1> SUFFICES ASSUME CatalogsTypeOK, TimeInv, CallInv, CurrentWhenAsked,
                      RecoversAfterOutage, [CatalogsNext]_catalogVars
               PROVE  RecoversAfterOutage'
    OBVIOUS
  <1>1. ASSUME NEW c \in Callers, Resolve(c) PROVE RecoversAfterOutage'
    <2>1. /\ \A d \in Callers : d # c => asked'[d] = asked[d] /\ outcome'[d] = outcome[d]
          /\ outcome'[c] = "pending"
      BY <1>1 DEF Resolve, CatalogsTypeOK
    <2> QED
      BY <2>1 DEF RecoversAfterOutage
  <1>2. ASSUME NEW c \in Callers, Gate(c) PROVE RecoversAfterOutage'
    <2>1. /\ \A d \in Callers : d # c => outcome'[d] = outcome[d]
          /\ outcome'[c] = IF IsCoastal(c) THEN "located" ELSE "not_coastal"
          /\ UNCHANGED asked
      BY <1>2 DEF Gate, CatalogsTypeOK
    <2>2. ASSUME asked[c] >= HealthyFrom + NegativeTTL PROVE IsCoastal(c)
      <3>1. PICK k \in Gating \intersect Nearby : k \in Catalogs
        BY CatalogsAssumption
      <3>2. got[c][k] # None
        BY <1>2, <3>1 DEF Gate, CallInv
      <3>3. got[c][k].stations = "full"
        BY <2>2, <3>1, <3>2, FullAfterOutage
      <3> QED
        BY <3>1, <3>3 DEF IsCoastal
    <2> QED
      BY <2>1, <2>2 DEF RecoversAfterOutage
  <1>3. ASSUME NEW c \in Callers, NEW k \in Catalogs, CallStep(c, k), ~FetchRaises(c, k)
        PROVE  RecoversAfterOutage'
    BY <1>3 DEF CallStep, Reuse, StartFetch, EndFetch, RecoversAfterOutage
  <1>4. ASSUME NEW c \in Callers, NEW k \in Catalogs, FetchRaises(c, k)
        PROVE  RecoversAfterOutage'
    <2>1. /\ \A d \in Callers : d # c => outcome'[d] = outcome[d]
          /\ UNCHANGED asked /\ clock < HealthyFrom
      BY <1>4 DEF FetchRaises, CatalogsTypeOK
    <2>2. ~(asked[c] >= HealthyFrom + NegativeTTL)
      BY <2>1, TTLAssumption DEF TimeInv, CatalogsTypeOK
    <2> QED
      BY <2>1, <2>2 DEF RecoversAfterOutage
  <1>5. ASSUME CatalogsRestart PROVE RecoversAfterOutage'
    BY <1>5 DEF CatalogsRestart, RecoversAfterOutage
  <1>6. ASSUME CatalogsTick PROVE RecoversAfterOutage'
    BY <1>6 DEF CatalogsTick, RecoversAfterOutage
  <1>7. ASSUME UNCHANGED catalogVars PROVE RecoversAfterOutage'
    BY <1>7 DEF catalogVars, RecoversAfterOutage
  <1> QED
    BY <1>1, <1>2, <1>3, <1>4, <1>5, <1>6, <1>7 DEF CatalogsNext

-----------------------------------------------------------------------------
(* The theorems *)

LEMMA CatalogsInvStep == CatalogsInv /\ [CatalogsNext]_catalogVars => CatalogsInv'
  BY CatalogsTypeStep, LockStep, TimeStep, CallsStep, CurrentStep, RecoveryStep
  DEF CatalogsInv

(* The inductive invariant: the lock queues hold the calls under way, what  *)
(* they return is dated, and an empty catalog is dated in the outage.       *)
THEOREM CatalogsInvariance == CatalogsSpec => []CatalogsInv
  BY CatalogsInitInv, CatalogsInvStep, PTL DEF CatalogsSpec

THEOREM CatalogsTypeCorrectness == CatalogsSpec => []CatalogsTypeOK
  <1>1. CatalogsInv => CatalogsTypeOK
    BY DEF CatalogsInv
  <1> QED
    BY <1>1, CatalogsInvariance, PTL

(* Every lock queue holds the calls under way, each once, also the calls    *)
(* that a failed gather left running.                                       *)
THEOREM LocksAreQueued == CatalogsSpec => []LockQueues
  <1>1. CatalogsInv => LockQueues
    BY DEF CatalogsInv
  <1> QED
    BY <1>1, CatalogsInvariance, PTL

(* Any number of resolutions has at most one fetch per catalog in flight.   *)
THEOREM CatalogIsSingleFlight == CatalogsSpec => []OneFetchPerCatalog
  <1>1. CatalogsInv => OneFetchPerCatalog
    BY DEF CatalogsInv, LockQueues, HoldsLock, OneFetchPerCatalog
  <1> QED
    BY <1>1, CatalogsInvariance, PTL

(* No resolution uses a catalog that had expired when its request came.     *)
THEOREM ResolvedOnCurrent == CatalogsSpec => []ResolvedOnCurrentCatalogs
  <1>1. CatalogsInv => ResolvedOnCurrentCatalogs
    BY DEF CatalogsInv, CurrentWhenAsked, ResolvedOnCurrentCatalogs
  <1> QED
    BY <1>1, CatalogsInvariance, PTL

(* Requests that come negative_ttl_seconds after the upstreams recovered    *)
(* are all located.                                                         *)
THEOREM OutageRecovery == CatalogsSpec => []RecoversAfterOutage
  <1>1. CatalogsInv => RecoversAfterOutage
    BY DEF CatalogsInv
  <1> QED
    BY <1>1, CatalogsInvariance, PTL

(* A catalog is only replaced once it has expired, whoever replaces it.     *)
THEOREM FetchesStaySpaced == CatalogsSpec => FetchesAreSpaced
  <1> DEFINE Spaced == \A k \in Catalogs :
               cache[k] # None /\ cache'[k] # None /\ cache'[k] # cache[k] =>
                 cache'[k].fetched_at >= cache[k].fetched_at + TTLOf(cache[k])
  <1>1. CatalogsInv /\ [CatalogsNext]_catalogVars => Spaced
    <2> SUFFICES ASSUME CatalogsInv, [CatalogsNext]_catalogVars PROVE Spaced
      OBVIOUS
    <2>1. CASE cache' = cache
      BY <2>1
    <2>2. ASSUME NEW c \in Callers, NEW k \in Catalogs, NEW s \in Contents, EndFetch(c, k, s)
          PROVE  Spaced
      <3>1. /\ cache'[k].fetched_at = clock /\ task[c][k] = "fetching"
            /\ \A m \in Catalogs : m # k => cache'[m] = cache[m]
        BY <2>2, Fetched DEF CatalogsInv
      <3>2. cache[k] # None => clock >= cache[k].fetched_at + TTLOf(cache[k])
        BY <3>1 DEF CatalogsInv, CallInv
      <3> QED
        BY <3>1, <3>2
    <2>3. CASE CatalogsRestart
      BY <2>3 DEF CatalogsRestart
    <2> QED
      BY <2>1, <2>2, <2>3
      DEF CatalogsNext, CallStep, Resolve, Gate, Reuse, StartFetch, FetchRaises,
          CatalogsTick, catalogVars
  <1>2. CatalogsInv /\ [CatalogsNext]_catalogVars => [Spaced]_catalogVars
    BY <1>1
  <1> QED
    BY <1>2, CatalogsInvariance, PTL DEF CatalogsSpec, FetchesAreSpaced

-----------------------------------------------------------------------------
(***************************************************************************)
(* ForecastService: what is cached or being fetched is dated by the        *)
(* catalogs it was resolved on.                                            *)
(***************************************************************************)

(* What the routes keep of the cache: the requests are for the one point,   *)
(* and who asks the cache has got every catalog.                            *)
StoreInv ==
  /\ stored \in [{Point} -> Store!Entry \union {NoEntry}]
  /\ req \in [Callers -> [op : {"get", "force"}, key : {Point}, asked : Nat]]
  /\ op \in [Callers -> {"get", "force"}]
  /\ made \in [from : SUBSET Catalogs, asked : Nat]
  /\ asking \subseteq Callers

LocatedInv == \A c \in asking, k \in Catalogs : got[c][k] # None

ServiceInv == CatalogsInv /\ StoreInv /\ LocatedInv /\ DegradedForecastsEnd

(* Every step of the routes is a step of the catalogs, or leaves them alone. *)
LEMMA ServiceIsCatalogs == [ServiceNext]_serviceVars => [CatalogsNext]_catalogVars
  <1> USE DEF catalogVars
  <1>1. ASSUME NEW c \in Callers, Assembled(c) \/ FromCache(c) \/ Evict(c)
        PROVE  UNCHANGED catalogVars
    BY <1>1 DEF Assembled, FromCache, Evict, Store!Publish, Store!Serve, Store!FallBack,
         Store!GiveUp, Store!Expire, Store!Tell
  <1>2. ASSUME NEW c \in Callers, Located(c) PROVE Gate(c)
    BY <1>2 DEF Located
  <1>3. ASSUME NEW c \in Callers, NEW o \in {"get", "force"}, Request(c, o) PROVE Resolve(c)
    BY <1>3 DEF Request
  <1>4. ASSUME NEW c \in Callers, NEW k \in Catalogs, CatalogCall(c, k) PROVE CallStep(c, k)
    BY <1>4 DEF CatalogCall
  <1>5. ServiceRestart => CatalogsRestart
    BY DEF ServiceRestart
  <1>6. ServiceTick => CatalogsTick
    BY DEF ServiceTick
  <1>7. UNCHANGED serviceVars => UNCHANGED catalogVars
    BY DEF serviceVars
  <1> QED
    BY <1>1, <1>2, <1>3, <1>4, <1>5, <1>6, <1>7 DEF ServiceNext, CatalogsNext

LEMMA ServiceInitInv == ServiceInit => ServiceInv
  <1> SUFFICES ASSUME ServiceInit PROVE ServiceInv
    OBVIOUS
  <1>1. CatalogsInv
    BY CatalogsInitInv DEF ServiceInit
  <1>2. (CHOOSE k \in {Point} : TRUE) = Point
    OBVIOUS
  <1>3. StoreInv
    BY <1>2 DEF ServiceInit, Store!Init, StoreInv, NotMade
  <1>4. LocatedInv /\ DegradedForecastsEnd
    BY DEF ServiceInit, Store!Init, LocatedInv, DegradedForecastsEnd
  <1> QED
    BY <1>1, <1>3, <1>4 DEF ServiceInv

LEMMA StoreStep ==
  ASSUME ServiceInv, [ServiceNext]_serviceVars
  PROVE  StoreInv'
  <1> USE DEF StoreInv
  <1>1. StoreInv /\ clock \in Nat /\ asked \in [Callers -> Nat]
    BY DEF ServiceInv, CatalogsInv, CatalogsTypeOK
  <1>2. ASSUME NEW c \in Callers, NEW o \in {"get", "force"}, Request(c, o) PROVE StoreInv'
    BY <1>1, <1>2 DEF Request, storeVars
  <1>3. ASSUME NEW c \in Callers, NEW k \in Catalogs, CatalogCall(c, k) PROVE StoreInv'
    BY <1>1, <1>3 DEF CatalogCall, storeVars
  <1>4. ASSUME NEW c \in Callers, Located(c) PROVE StoreInv'
    BY <1>1, <1>4 DEF Located, storeVars, Store!Ask
  <1>5. ASSUME NEW c \in Callers, Assembled(c) PROVE StoreInv'
    <2>1. PICK at \in req[c].asked..clock : Store!Publish(c, at)
      BY <1>5 DEF Assembled
    <2>2. at \in Nat /\ req[c].key = Point
      BY <1>1, <2>1
    <2>3. [generated_at |-> req[c].asked, fetched_at |-> at] \in Store!Entry
      BY <1>1, <2>2 DEF Store!Entry
    <2>4. /\ stored' = [stored EXCEPT ![req[c].key] =
                          [generated_at |-> req[c].asked, fetched_at |-> at]]
          /\ asking' = asking \ {c} /\ UNCHANGED <<req, op>>
      BY <1>5, <2>1 DEF Store!Publish, Store!Tell, Assembled
    <2>5. made' \in [from : SUBSET Catalogs, asked : Nat]
      BY <1>1, <1>5 DEF Assembled, FullFor
    <2> QED
      BY <1>1, <2>2, <2>3, <2>4, <2>5
  <1>6. ASSUME NEW c \in Callers, FromCache(c) PROVE StoreInv'
    BY <1>1, <1>6 DEF FromCache, Store!Serve, Store!FallBack, Store!GiveUp, Store!Tell
  <1>7. ASSUME NEW c \in Callers, Evict(c) PROVE StoreInv'
    BY <1>1, <1>7 DEF Evict, Store!Expire, NotMade
  <1>8. ServiceRestart => StoreInv'
    BY <1>1 DEF ServiceRestart, Store!Crash, NotMade
  <1>9. ServiceTick \/ UNCHANGED serviceVars => StoreInv'
    BY <1>1 DEF ServiceTick, serviceVars, storeVars
  <1> QED
    BY <1>2, <1>3, <1>4, <1>5, <1>6, <1>7, <1>8, <1>9 DEF ServiceNext

LEMMA LocatedStep ==
  ASSUME ServiceInv, [ServiceNext]_serviceVars
  PROVE  LocatedInv'
  <1> USE DEF LocatedInv
  <1>1. /\ LocatedInv /\ asking \subseteq Callers /\ CallInv
        /\ got \in [Callers -> [Catalogs -> Cached \union {None}]]
        /\ task \in [Callers -> [Catalogs -> Tasks]]
    BY DEF ServiceInv, StoreInv, CatalogsInv, CatalogsTypeOK
  <1>2. ASSUME NEW c \in Callers, NEW o \in {"get", "force"}, Request(c, o) PROVE LocatedInv'
    BY <1>1, <1>2 DEF Request, storeVars, Resolve
  <1>3. ASSUME NEW c \in Callers, NEW k \in Catalogs, CatalogCall(c, k) PROVE LocatedInv'
    <2>1. ASSUME NEW e \in Cached, Return(c, k, e), asking' = asking PROVE LocatedInv'
      <3>1. e # None
        BY NoneAssumption
      <3>2. \A d \in Callers, m \in Catalogs : got'[d][m] = e \/ got'[d][m] = got[d][m]
        BY <1>1, <2>1 DEF Return
      <3> QED
        BY <1>1, <2>1, <3>1, <3>2
    <2>2. CASE Reuse(c, k)
      <3>1. cache[k] \in Cached
        BY <2>2 DEF Reuse, Current, ServiceInv, CatalogsInv, CatalogsTypeOK
      <3> QED
        BY <1>3, <2>1, <2>2, <3>1 DEF Reuse, CatalogCall, storeVars
    <2>3. ASSUME NEW s \in Contents, EndFetch(c, k, s) PROVE LocatedInv'
      <3>1. [stations |-> s, fetched_at |-> clock] \in Cached
        BY DEF Cached, ServiceInv, CatalogsInv, CatalogsTypeOK
      <3> QED
        BY <1>3, <2>1, <2>3, <3>1 DEF EndFetch, CatalogCall, storeVars
    <2>4. CASE StartFetch(c, k) \/ FetchRaises(c, k)
      BY <1>1, <1>3, <2>4 DEF StartFetch, FetchRaises, CatalogCall, storeVars
    <2> QED
      BY <1>3, <2>2, <2>3, <2>4 DEF CatalogCall, CallStep
  <1>4. ASSUME NEW c \in Callers, Located(c) PROVE LocatedInv'
    <2>1. \A k \in Catalogs : got[c][k] # None
      BY <1>1, <1>4 DEF Located, Gate, CallInv
    <2>2. got' = got /\ asking' \subseteq asking \union {c}
      BY <1>4 DEF Located, Gate, Store!Ask, storeVars
    <2> QED
      BY <1>1, <2>1, <2>2
  <1>5. ASSUME NEW c \in Callers, Assembled(c) \/ FromCache(c) \/ Evict(c) PROVE LocatedInv'
    <2>1. got' = got /\ asking' \subseteq asking
      BY <1>5 DEF Assembled, FromCache, Evict, Store!Publish, Store!Serve, Store!FallBack,
           Store!GiveUp, Store!Expire, Store!Tell
    <2> QED
      BY <1>1, <2>1
  <1>6. ServiceRestart => LocatedInv'
    BY DEF ServiceRestart, Store!Crash
  <1>7. ServiceTick \/ UNCHANGED serviceVars => LocatedInv'
    BY <1>1 DEF ServiceTick, CatalogsTick, serviceVars, storeVars, catalogVars
  <1> QED
    BY <1>2, <1>3, <1>4, <1>5, <1>6, <1>7 DEF ServiceNext

(* Who was resolved on an empty catalog had arrived before the negative TTL *)
(* of the outage's last result ran out.                                     *)
LEMMA DegradedArrivedEarly ==
  ASSUME ServiceInv, NEW c \in asking, FullFor(c) # Catalogs
  PROVE  asked[c] < HealthyFrom + NegativeTTL
  <1>1. /\ c \in Callers /\ LocatedInv /\ TimeInv /\ CurrentWhenAsked
        /\ got \in [Callers -> [Catalogs -> Cached \union {None}]]
        /\ asked[c] \in Nat
    BY DEF ServiceInv, StoreInv, CatalogsInv, CatalogsTypeOK
  <1>2. PICK k \in Catalogs : got[c][k].stations # "full"
    BY DEF FullFor
  <1> DEFINE e == got[c][k]
  <1>3. e \in Cached /\ e # None
    BY <1>1 DEF LocatedInv
  <1>4. e.stations = "empty" /\ e.fetched_at \in Nat
    BY <1>2, <1>3 DEF Cached, Contents
  <1>5. e.fetched_at < HealthyFrom
    BY <1>1, <1>3, <1>4 DEF TimeInv, Dated
  <1>6. asked[c] <= e.fetched_at \/ asked[c] < e.fetched_at + NegativeTTL
    BY <1>1, <1>3, <1>4 DEF CurrentWhenAsked, TTLOf
  <1> HIDE DEF e
  <1> QED
    BY <1>1, <1>4, <1>5, <1>6, TTLAssumption

LEMMA DegradedStep ==
  ASSUME ServiceInv, [ServiceNext]_serviceVars
  PROVE  DegradedForecastsEnd'
  <1> USE DEF DegradedForecastsEnd
  <1>1. /\ DegradedForecastsEnd /\ DOMAIN stored = {Point}
        /\ \A c \in Callers : req[c].key = Point
    BY DEF ServiceInv, StoreInv
  <1>2. UNCHANGED <<stored, made>> => DegradedForecastsEnd'
    BY <1>1
  <1>3. ASSUME NEW c \in Callers, Assembled(c) PROVE DegradedForecastsEnd'
    BY <1>3, DegradedArrivedEarly DEF Assembled
  <1>4. ASSUME NEW c \in Callers, Evict(c) PROVE DegradedForecastsEnd'
    BY <1>1, <1>4 DEF Evict, Store!Expire
  <1>5. ServiceRestart => DegradedForecastsEnd'
    BY DEF ServiceRestart, Store!Crash
  <1>6. ASSUME NEW c \in Callers, Located(c) \/ FromCache(c) PROVE UNCHANGED <<stored, made>>
    BY <1>6 DEF Located, FromCache, Store!Ask, Store!Serve, Store!FallBack, Store!GiveUp,
         storeVars
  <1>7. ASSUME NEW c \in Callers, NEW o \in {"get", "force"}, Request(c, o)
        PROVE  UNCHANGED <<stored, made>>
    BY <1>7 DEF Request, storeVars
  <1>8. ASSUME NEW c \in Callers, NEW k \in Catalogs, CatalogCall(c, k)
        PROVE  UNCHANGED <<stored, made>>
    BY <1>8 DEF CatalogCall, storeVars
  <1>9. ServiceTick \/ UNCHANGED serviceVars => UNCHANGED <<stored, made>>
    BY DEF ServiceTick, storeVars, serviceVars
  <1> QED
    BY <1>2, <1>3, <1>4, <1>5, <1>6, <1>7, <1>8, <1>9 DEF ServiceNext

(* A forecast made from stations that were resolved on degraded catalogs   *)
(* enters the cache only for a request that came NegativeTTL at most after *)
(* the upstream's recovery (forecasts.py:80-164, locations/stations.py),   *)
(* for any number of callers, whatever the cache of snapshots does.        *)
THEOREM DegradedForecastsGo == ServiceSpec => [](ServiceTypeOK /\ DegradedForecastsEnd)
  <1>1. ServiceInv /\ [ServiceNext]_serviceVars => ServiceInv'
    BY ServiceIsCatalogs, CatalogsInvStep, StoreStep, LocatedStep, DegradedStep DEF ServiceInv
  <1>2. ServiceInv => ServiceTypeOK /\ DegradedForecastsEnd
    BY DEF ServiceInv, CatalogsInv, StoreInv, ServiceTypeOK
  <1> QED
    BY <1>1, <1>2, ServiceInitInv, PTL DEF ServiceSpec
=============================================================================
