--------------------------- MODULE LocationSearch ---------------------------
(***************************************************************************)
(* The search field of apps/web/app/components/location-search.tsx: its    *)
(* React state, the debounce timer, the requests in flight and the effect  *)
(* that runs when the query has changed.                                   *)
(*                                                                         *)
(* The user's events are discrete, so React runs the effect before the     *)
(* next event: a change of the query and its effect are one step.  A       *)
(* request that is aborted leaves no trace.                                *)
(***************************************************************************)
EXTENDS Naturals

CONSTANTS
  Short,       \* queries of fewer than MIN_QUERY_LENGTH characters
  Long,        \* queries that are searched
  Names,       \* names of locations
  Found,       \* Found[q]: the names the search for q answers with
  MaxSearches, \* bound on the requests
  Nothing

ASSUME SearchAssumption ==
  /\ Names \subseteq Long /\ Short \intersect Long = {}
  /\ Found \in [Long -> SUBSET Names]
  /\ MaxSearches \in Nat
  /\ Nothing \notin Short \union Long

VARIABLES
  query,       \* what the field holds
  results,     \* the options
  isOpen,
  isSearching,
  active,      \* results[activeIndex], Nothing for -1
  error,
  skip,        \* skipNextSearchRef
  timer,       \* the query of the pending debounce timer, or Nothing
  flying,      \* requests under way: their controller and query
  controller,  \* abortRef, 0 for null
  searches,    \* requests so far
  picked       \* the last result selected

searchVars == <<query, results, isOpen, isSearching, active, error, skip, timer,
                flying, controller, searches, picked>>

Queries == Short \union Long

SearchTypeOK ==
  /\ query \in Queries
  /\ results \subseteq Names
  /\ isOpen \in BOOLEAN /\ isSearching \in BOOLEAN /\ error \in BOOLEAN /\ skip \in BOOLEAN
  /\ active \in Names \union {Nothing} /\ picked \in Names \union {Nothing}
  /\ timer \in Long \union {Nothing}
  /\ flying \subseteq [by : 1..MaxSearches, q : Long]
  /\ controller \in 0..MaxSearches /\ searches \in 0..MaxSearches

SearchInit ==
  /\ query \in Short
  /\ results = {} /\ flying = {}
  /\ isOpen = FALSE /\ isSearching = FALSE /\ error = FALSE /\ skip = FALSE
  /\ active = Nothing /\ picked = Nothing /\ timer = Nothing
  /\ controller = 0 /\ searches = 0

-----------------------------------------------------------------------------
(* mutant: the request of an older query goes on *)
Unaborted == flying

Unabandoned == {r \in flying : r.by # controller}

(* The effect of a change of the query to q: the timer is cleared, the last *)
(* request aborted, and unless a selection made the change a long query     *)
(* starts the timer and a short one clears the list.                        *)
Effect(q, skipping) ==
  /\ flying' = Unabandoned
  /\ skip' = FALSE
  /\ timer' = IF skipping \/ q \in Short THEN Nothing ELSE q
  /\ IF q \in Short /\ ~skipping
     THEN results' = {} /\ isSearching' = FALSE /\ error' = FALSE
     ELSE UNCHANGED <<results, isSearching, error>>

(* onChange *)
Type(q) ==
  /\ q # query
  /\ query' = q
  /\ Effect(q, skip)
  /\ isOpen' = (isOpen /\ (skip \/ q \in Long))
  /\ UNCHANGED <<active, controller, searches, picked>>

(* selectResult: a setQuery that changes nothing runs no effect.            *)
Select(n) ==
  /\ isOpen /\ n \in results
  /\ isOpen' = FALSE
  /\ active' = Nothing
  /\ picked' = n
  /\ query' = n
  /\ IF n = query
     THEN skip' = TRUE /\ UNCHANGED <<timer, flying, results, isSearching, error>>
     ELSE Effect(n, TRUE)
  /\ UNCHANGED <<controller, searches>>

(* The debounce timer fires. *)
Fire ==
  /\ timer # Nothing
  /\ searches < MaxSearches
  /\ isSearching' = TRUE /\ isOpen' = TRUE
  /\ searches' = searches + 1
  /\ controller' = searches + 1
  /\ flying' = flying \union {[by |-> searches + 1, q |-> timer]}
  /\ timer' = Nothing
  /\ UNCHANGED <<query, results, active, error, skip, picked>>

(* An answer arrives. *)
Land(r) ==
  /\ r \in flying
  /\ flying' = flying \ {r}
  /\ results' = Found[r.q] /\ isOpen' = TRUE /\ active' = Nothing /\ error' = FALSE
  /\ isSearching' = FALSE
  /\ UNCHANGED <<query, skip, timer, controller, searches, picked>>

(* It does not, or is no answer. *)
Fail(r) ==
  /\ r \in flying
  /\ flying' = flying \ {r}
  /\ results' = {} /\ error' = TRUE
  /\ isSearching' = FALSE
  /\ UNCHANGED <<query, isOpen, active, skip, timer, controller, searches, picked>>

(* Arrow keys and the pointer. *)
Highlight(n) ==
  /\ isOpen /\ n \in results
  /\ active' = n
  /\ UNCHANGED <<query, results, isOpen, isSearching, error, skip, timer, flying,
                 controller, searches, picked>>

(* Escape resets the highlight, a click elsewhere does not; focus opens.    *)
OpenOrClose ==
  /\ \/ isOpen /\ results # {} /\ isOpen' = FALSE /\ active' = Nothing
     \/ isOpen /\ isOpen' = FALSE /\ UNCHANGED active
     \/ ~isOpen /\ results # {} /\ isOpen' = TRUE /\ UNCHANGED active
  /\ UNCHANGED <<query, results, isSearching, error, skip, timer, flying,
                 controller, searches, picked>>

Answered == \E r \in flying : Land(r) \/ Fail(r)

SearchNext ==
  \/ \E q \in Queries : Type(q)
  \/ \E n \in Names : Select(n) \/ Highlight(n)
  \/ OpenOrClose \/ Fire \/ Answered

SearchSpec == SearchInit /\ [][SearchNext]_searchVars

-----------------------------------------------------------------------------
(* "A slow, now-stale response can never land after the fact and repopulate *)
(* the dropdown with results for a query the field no longer shows".        *)
FlyingForTheField == \A r \in flying : r.q = query

(* "Selecting a result is not a query edit, so it skips search exactly once": *)
(* what the user types is searched.  It does not hold: when the field holds *)
(* the name that is selected, the skip is left for the next edit.           *)
EditsAreSearched ==
  [][query' # query =>
       timer' = query' \/ (query' \in Short /\ results' = {}) \/ query' = picked']_searchVars
=============================================================================
