--------------------------- MODULE ServiceWorker ---------------------------
(***************************************************************************)
(* apps/web/public/sw.js: install, activate and the navigation strategy,   *)
(* network first with a copy to fall back on.                              *)
(*                                                                         *)
(* A path is the sequence of its parts, "/forecast/x" being                *)
(* <<"/", "forecast", "/", "x">>.  A response is the time it was rendered: *)
(* all that the strategy could get wrong about it is its age.  The assets, *)
(* whose URLs carry a hash of their content, never change and are left     *)
(* out, as is the page no worker controls yet.  Cache Storage and the life *)
(* cycle of workers are modelled from their use.                           *)
(***************************************************************************)
EXTENDS Naturals, SequencesExt

CONSTANTS
  Tabs,
  Paths,         \* paths one can navigate to
  TTL,           \* FORECAST_TTL_MS
  MaxRelease,    \* values of CACHE_VERSION are 1..MaxRelease
  MaxDelay,      \* bound on the time an answer takes from its rendering
  MaxVisits,     \* bound on the navigations
  MaxTime,
  Missing

Root    == <<"/">>
Offline == <<"/", "offline">>

CORE_SHELL         == {Root, Offline}
PAGE_CACHE_PATHS   == {Root, <<"/", "locations">>, <<"/", "forecast", "/">>, <<"/", "share", "/">>}
FORECAST_TTL_PATHS == {<<"/", "forecast", "/">>, <<"/", "share", "/">>}

ASSUME WorkerAssumption ==
  /\ CORE_SHELL \subseteq Paths
  /\ {TTL, MaxRelease, MaxDelay, MaxVisits, MaxTime} \subseteq Nat

VARIABLES
  time,
  release,     \* the release of the worker in control, 0 for none
  shell,       \* shell[r]: when release r's SHELL_CACHE was filled, or Missing
  pages,       \* pages[r]: release r's PAGE_CACHE
  nav,         \* nav[t]: the navigation of tab t, or Missing
  shown,       \* what the last navigation showed, and how old it was
  viewed,      \* viewed[r][p]: the latest rendering of p that r has shown a tab
  visits       \* navigations so far

workerVars == <<time, release, shell, pages, nav, shown, viewed, visits>>

Releases == 1..MaxRelease
(* alone is no part of the program: no other tab was on its way to the path *)
(* from when the navigation was asked for until its answer was stored.      *)
Copy == [rendered : Nat, cached_at : Nat, alone : BOOLEAN]
Navigation ==
  [path : Paths, by : Releases, at : {"asked", "answered", "stored"}, rendered : Nat, alone : BOOLEAN]

WorkerTypeOK ==
  /\ time \in Nat /\ release \in 0..MaxRelease
  /\ shell \in [Releases -> Nat \union {Missing}]
  /\ pages \in [Releases -> [Paths -> Copy \union {Missing}]]
  /\ nav \in [Tabs -> Navigation \union {Missing}]
  /\ shown \in [path : Paths, age : Nat] \union {Missing}
  /\ viewed \in [Releases -> [Paths -> Nat]]
  /\ visits \in 0..MaxVisits

WorkerInit ==
  /\ time = 0 /\ release = 0
  /\ shell = [r \in Releases |-> Missing]
  /\ pages = [r \in Releases |-> [p \in Paths |-> Missing]]
  /\ nav = [t \in Tabs |-> Missing] /\ shown = Missing
  /\ viewed = [r \in Releases |-> [p \in Paths |-> 0]]
  /\ visits = 0

-----------------------------------------------------------------------------
(* install: CORE_SHELL is fetched as a whole.                               *)
Install(r) ==
  /\ r > release /\ shell[r] = Missing
  /\ shell' = [shell EXCEPT ![r] = time]
  /\ UNCHANGED <<time, release, pages, nav, shown, viewed, visits>>

(* skipWaiting and activate: the caches of every other release are deleted; *)
(* a navigation under way keeps the PAGE_CACHE it has opened, but will open *)
(* the shell anew.                                                          *)
Activate(r) ==
  /\ r > release /\ shell[r] # Missing
  /\ release' = r
  /\ shell' = [s \in Releases |-> IF s = r THEN shell[s] ELSE Missing]
  /\ LET open == {r} \union {nav[t].by : t \in {u \in Tabs : nav[u] # Missing}}
     IN pages' = [s \in Releases |-> IF s \in open THEN pages[s] ELSE [p \in Paths |-> Missing]]
  /\ UNCHANGED <<time, nav, shown, viewed, visits>>

isPageCacheable(p) == \E prefix \in PAGE_CACHE_PATHS : IsPrefix(prefix, p)

ttlForPath(p) == \E prefix \in FORECAST_TTL_PATHS : IsPrefix(prefix, p)

OnTheWay(p) == {u \in Tabs : nav[u] # Missing /\ nav[u].path = p}

(* The fetch event of the worker in control handles a navigation.           *)
Navigate(t, p) ==
  /\ release # 0 /\ nav[t] = Missing
  /\ visits < MaxVisits /\ visits' = visits + 1
  /\ nav' = [u \in Tabs |->
       IF u = t
       THEN [path |-> p, by |-> release, at |-> "asked", rendered |-> 0, alone |-> OnTheWay(p) = {}]
       ELSE IF u \in OnTheWay(p) THEN [nav[u] EXCEPT !.alone = FALSE] ELSE nav[u]]
  /\ UNCHANGED <<time, release, shell, pages, shown, viewed>>

Render(t) ==
  /\ nav[t] # Missing /\ nav[t].at = "asked"
  /\ nav' = [nav EXCEPT ![t].at = "answered", ![t].rendered = time]
  /\ UNCHANGED <<time, release, shell, pages, shown, viewed, visits>>

(* An answer that is not ok is returned as it is, and nothing is stored.    *)
NotOk(t) ==
  /\ nav[t] # Missing /\ nav[t].at = "asked"
  /\ nav' = [nav EXCEPT ![t] = Missing] /\ shown' = Missing
  /\ UNCHANGED <<time, release, shell, pages, viewed, visits>>

(* The await of putWithTimestamp: what is on its way here can be stored     *)
(* after what was rendered later.  The offline page goes to the shell,      *)
(* where a copy of it changes nothing.                                      *)
Put(t) ==
  /\ nav[t] # Missing /\ nav[t].at = "answered"
  /\ nav' = [nav EXCEPT ![t].at = "stored"]
  /\ LET n == nav[t]
     IN pages' = IF n.path # Offline /\ isPageCacheable(n.path)
                 THEN [pages EXCEPT ![n.by][n.path] =
                         [rendered |-> n.rendered, cached_at |-> time, alone |-> n.alone]]
                 ELSE pages
  /\ UNCHANGED <<time, release, shell, shown, viewed, visits>>

Saw(r, p, rendered) ==
  viewed' = [viewed EXCEPT ![r][p] = IF rendered > @ THEN rendered ELSE @]

(* mutant: the put is not awaited, and is lost *)
AnsweredOnly(n) == n.at = "answered"

Returned(n) == n.at = "stored"

(* respondToNavigation returns, and the tab shows the answer.               *)
Arrive(t) ==
  /\ nav[t] # Missing /\ Returned(nav[t])
  /\ shown' = [path |-> nav[t].path, age |-> time - nav[t].rendered]
  /\ Saw(nav[t].by, nav[t].path, nav[t].rendered)
  /\ nav' = [nav EXCEPT ![t] = Missing]
  /\ UNCHANGED <<time, release, shell, pages, visits>>

(* mutant: milliseconds against seconds *)
IsStaleInSeconds(p, c) == ttlForPath(p) /\ time - c.cached_at > 1000 * TTL

IsStale(p, c) == ttlForPath(p) /\ time - c.cached_at > TTL

(* The fetch fails, or storing its answer does: a copy that is not stale,   *)
(* the copy of the shell, which has no timestamp, the offline page, or 503. *)
FallBack(t) ==
  /\ nav[t] # Missing
  /\ nav[t].at = "asked" \/ (nav[t].at = "answered" /\ isPageCacheable(nav[t].path))
  /\ LET p == nav[t].path
         r == nav[t].by
         c == pages[r][p]
         s == shell[r]
         Show(q, rendered) == shown' = [path |-> q, age |-> time - rendered]
         good     == c # Missing /\ ~IsStale(p, c)
         ofShell  == c = Missing /\ s # Missing /\ p \in CORE_SHELL
     IN \/ good /\ Show(p, c.rendered) /\ Saw(r, p, c.rendered)
        \/ ofShell /\ Show(p, s) /\ Saw(r, p, s)
        \/ ~good /\ ~ofShell /\ s # Missing /\ Show(Offline, s) /\ UNCHANGED viewed
        \/ ~good /\ s = Missing /\ shown' = Missing /\ UNCHANGED viewed
  /\ nav' = [nav EXCEPT ![t] = Missing]
  /\ UNCHANGED <<time, release, shell, pages, visits>>

WorkerTick ==
  /\ time < MaxTime
  /\ \A t \in Tabs : nav[t] # Missing /\ nav[t].at # "asked" => time - nav[t].rendered < MaxDelay
  /\ time' = time + 1
  /\ UNCHANGED <<release, shell, pages, nav, shown, viewed, visits>>

WorkerNext ==
  \/ \E r \in Releases : Install(r) \/ Activate(r)
  \/ \E t \in Tabs :
       \/ Render(t) \/ NotOk(t) \/ Put(t) \/ Arrive(t) \/ FallBack(t)
       \/ \E p \in Paths : Navigate(t, p)
  \/ WorkerTick

WorkerSpec == WorkerInit /\ [][WorkerNext]_workerVars

-----------------------------------------------------------------------------
(* "Past this age, a cached copy is more likely to mislead": no conditions  *)
(* are shown that were older than the TTL, give or take the time an answer  *)
(* is under way.                                                            *)
ForecastsShownAreYoung ==
  shown # Missing /\ ttlForPath(shown.path) => shown.age <= TTL + MaxDelay

(* Network first: what a visit without a network would be shown is nothing  *)
(* older than any tab has been shown of that page, for an answer is stored  *)
(* before it is returned.  Only where two tabs were on their way to it at   *)
(* the same time can the older answer be stored last, and then the copy is  *)
(* behind by no more than the time an answer is under way.                  *)
CopyIsTheLastSeen ==
  \A r \in Releases, p \in Paths :
    pages[r][p] # Missing =>
      /\ pages[r][p].alone => viewed[r][p] <= pages[r][p].rendered
      /\ viewed[r][p] <= pages[r][p].rendered + MaxDelay

(* "Only these path prefixes get their navigation responses cached":        *)
(* besides the front page, which names itself, what is kept begins with     *)
(* one of the others.  It does not hold: "/" begins every path.             *)
OnlyTheListedAreKept ==
  \A r \in Releases, p \in Paths \ {Root} :
    pages[r][p] # Missing => \E prefix \in PAGE_CACHE_PATHS \ {Root} : IsPrefix(prefix, p)

=============================================================================
