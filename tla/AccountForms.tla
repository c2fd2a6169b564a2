---------------------------- MODULE AccountForms ----------------------------
(***************************************************************************)
(* Two components of apps/web that act on an account:                      *)
(* preferences/preferences-form.tsx, with its loads and saves, and         *)
(* saved/saved-locations-list.tsx, with its removals.                      *)
(*                                                                         *)
(* React runs the effect of a mounting component once, and twice in its    *)
(* strict mode.  The five preferences are one value.  A fetch that rejects *)
(* is an event no handler of a save or a removal sees: the component stays *)
(* as it was.                                                              *)
(***************************************************************************)
EXTENDS Naturals, FiniteSets

CONSTANTS
  Values,     \* preferences
  EMPTY,      \* the form's initial state, which is not what is stored
  Spots,      \* saved locations
  MaxLoads,   \* bound on the loads
  MaxSubmits,   \* bound on the saves at a time
  Unset

ASSUME FormsAssumption == EMPTY \notin Values /\ {MaxLoads, MaxSubmits} \subseteq Nat

VARIABLES
  stored,      \* the account's preferences
  fields,      \* preferences
  isLoading, isSaving, loadError, wasSaved,
  requestId,   \* requestIdRef
  loads,       \* loads under way: their number, and the answer or Unset
  saves,       \* PATCHes under way: what was sent, and how far each is
  onList,      \* the account's saved locations
  locations,   \* the list shown
  removals,    \* removals under way: the spot, whether it is done, the list then
  removingId,
  listError

prefVars  == <<stored, fields, isLoading, isSaving, loadError, wasSaved, requestId, loads, saves>>
listVars  == <<onList, locations, removals, removingId, listError>>
formsVars == <<prefVars, listVars>>

FormsTypeOK ==
  /\ stored \in Values /\ fields \in Values \union {EMPTY}
  /\ {isLoading, isSaving, loadError, wasSaved, listError} \subseteq BOOLEAN
  /\ requestId \in 0..MaxLoads
  /\ loads \subseteq [id : 1..MaxLoads, answer : Values \union {Unset}]
  /\ saves \subseteq [sent : Values \union {EMPTY}, at : {"sent", "applied", "read"}]
  /\ onList \subseteq Spots /\ locations \subseteq Spots
  /\ removals \subseteq [spot : Spots, done : BOOLEAN, seen : SUBSET Spots]
  /\ removingId \in Spots \union {Unset}

(* The page is mounted: its first load, or in strict mode two.              *)
FormsInit ==
  /\ stored \in Values /\ fields = EMPTY
  /\ isLoading = TRUE
  /\ isSaving = FALSE /\ loadError = FALSE /\ wasSaved = FALSE
  /\ requestId \in {1, 2}
  /\ loads = {[id |-> i, answer |-> Unset] : i \in 1..requestId}
  /\ saves = {}
  /\ onList = Spots /\ locations = Spots
  /\ removals = {} /\ removingId = Unset /\ listError = FALSE

-----------------------------------------------------------------------------
(* The form is on the page. *)
Shown == ~isLoading /\ ~loadError

(* "Try again" *)
Retry ==
  /\ ~isLoading /\ loadError
  /\ requestId < MaxLoads
  /\ requestId' = requestId + 1
  /\ loads' = loads \union {[id |-> requestId + 1, answer |-> Unset]}
  /\ isLoading' = TRUE /\ loadError' = FALSE
  /\ UNCHANGED <<stored, fields, isSaving, wasSaved, saves, listVars>>

ReadStored(l) ==
  /\ l \in loads /\ l.answer = Unset
  /\ loads' = (loads \ {l}) \union {[l EXCEPT !.answer = stored]}
  /\ UNCHANGED <<stored, fields, isLoading, isSaving, loadError, wasSaved, requestId, saves,
                 listVars>>

IsLatest(l) == l.id = requestId

Loaded(l) ==
  /\ l \in loads /\ l.answer # Unset
  /\ loads' = loads \ {l}
  /\ IF IsLatest(l)
     THEN fields' = l.answer /\ isLoading' = FALSE
     ELSE UNCHANGED <<fields, isLoading>>
  /\ UNCHANGED <<stored, isSaving, loadError, wasSaved, requestId, saves, listVars>>

LoadFails(l) ==
  /\ l \in loads
  /\ loads' = loads \ {l}
  /\ IF IsLatest(l)
     THEN loadError' = TRUE /\ isLoading' = FALSE
     ELSE UNCHANGED <<loadError, isLoading>>
  /\ UNCHANGED <<stored, fields, isSaving, wasSaved, requestId, saves, listVars>>

Edit(v) ==
  /\ Shown /\ v # fields
  /\ fields' = v
  /\ UNCHANGED <<stored, isLoading, isSaving, loadError, wasSaved, requestId, loads, saves, listVars>>

(* handleSubmit *)
Submit ==
  /\ Shown /\ ~isSaving
  /\ Cardinality(saves) < MaxSubmits
  /\ isSaving' = TRUE /\ wasSaved' = FALSE
  /\ saves' = saves \union {[sent |-> fields, at |-> "sent"]}
  /\ UNCHANGED <<stored, fields, isLoading, loadError, requestId, loads, listVars>>

Patched(w) ==
  /\ w \in saves /\ w.at = "sent"
  /\ stored' = w.sent
  /\ saves' = (saves \ {w}) \union {[w EXCEPT !.at = "applied"]}
  /\ UNCHANGED <<fields, isLoading, isSaving, loadError, wasSaved, requestId, loads, listVars>>

(* The answer begins to arrive: the button works again, and the body is     *)
(* awaited; or it is a failure; or there is none, and the button does not   *)
(* work again.                                                              *)
SaveAnswered(w) ==
  /\ w \in saves /\ w.at # "read"
  /\ \/ w.at = "applied" /\ isSaving' = FALSE
        /\ saves' = (saves \ {w}) \union {[w EXCEPT !.at = "read"]}
     \/ isSaving' = FALSE /\ saves' = saves \ {w}
     \/ UNCHANGED isSaving /\ saves' = saves \ {w}
  /\ UNCHANGED <<stored, fields, isLoading, loadError, wasSaved, requestId, loads, listVars>>

(* The rest of the answer. *)
SaveRead(w) ==
  /\ w \in saves /\ w.at = "read"
  /\ saves' = saves \ {w}
  /\ \/ fields' = w.sent /\ wasSaved' = TRUE
     \/ UNCHANGED <<fields, wasSaved>>
  /\ UNCHANGED <<stored, isLoading, isSaving, loadError, requestId, loads, listVars>>

-----------------------------------------------------------------------------
(* handleRemove.  Bound: removals of one spot, asked for on one list, are   *)
(* one.                                                                     *)
HandleRemove(s) ==
  /\ ~listError /\ s \in locations /\ removingId # s
  /\ removingId' = s
  /\ removals' = removals \union {[spot |-> s, done |-> FALSE, seen |-> locations]}
  /\ UNCHANGED <<onList, locations, listError, prefVars>>

Deleted(r) ==
  /\ r \in removals /\ ~r.done /\ r.spot \in onList
  /\ onList' = onList \ {r.spot}
  /\ removals' = (removals \ {r}) \union {[r EXCEPT !.done = TRUE]}
  /\ UNCHANGED <<locations, removingId, listError, prefVars>>

Without(r) == locations \ {r.spot}

(* The answer of a removal; 404, any other failure; or no answer.           *)
RemoveEnds(r) ==
  /\ r \in removals
  /\ removals' = removals \ {r}
  /\ \/ r.done /\ locations' = Without(r) /\ removingId' = Unset /\ UNCHANGED listError
     \/ listError' = TRUE /\ removingId' = Unset /\ UNCHANGED locations
     \/ UNCHANGED <<locations, removingId, listError>>
  /\ UNCHANGED <<onList, prefVars>>

PrefNext ==
  \/ Retry \/ Submit
  \/ \E w \in saves : Patched(w) \/ SaveAnswered(w) \/ SaveRead(w)
  \/ \E l \in loads : ReadStored(l) \/ Loaded(l) \/ LoadFails(l)
  \/ \E v \in Values : Edit(v)

ListNext ==
  \/ \E s \in Spots : HandleRemove(s)
  \/ \E r \in removals : Deleted(r) \/ RemoveEnds(r)

FormsNext == PrefNext \/ ListNext

-----------------------------------------------------------------------------
(* "A load failure replaces the whole form with a retryable error state     *)
(* (never renders EMPTY as if it were real data)": nothing but what was     *)
(* stored, or typed, can be submitted.                                      *)
NeverEmptyAsReal == Shown => fields # EMPTY

(* However many removals are under way, a spot that has left the list does  *)
(* not come back with the answer of another one.                            *)
RemovedStaysRemoved == [][locations' \subseteq locations]_formsVars
=============================================================================
