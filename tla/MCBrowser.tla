----------------------------- MODULE MCBrowser -----------------------------
(* Small instances of the parts of apps/web that run in the browser, of the *)
(* account's data behind them, and of the sessions and preferences of the   *)
(* Flask application.  They share nothing, and each behaviour shows one of  *)
(* them.                                                                    *)
EXTENDS LocationSearch, ServiceWorker, AccountForms, MCAccountData, LegacyAccounts

VARIABLE part

browserVars == <<searchVars, workerVars, formsVars, vars, overlapped, accountVars, part>>

MCFound == [q \in Long |-> IF q = "w" THEN {"wb", "wi"} ELSE {q}]
MCPaths == {Root, Offline, <<"/", "forecast", "/", "x">>}
MCSavedPaths == {Root, Offline, <<"/", "saved">>}

Symmetry == Permutations(Tabs) \union Permutations(Slots)

(* Logins from two browsers of the Flask application, or the forms of one   *)
(* that stays signed in.                                                    *)
FlaskParts == {"sessions", "forms"}

(* Nothing of a part but its initial state matters to the others: one is enough. *)
BrowserInit ==
  /\ part \in {"search", "worker", "preferences", "list", "accounts"} \union FlaskParts
  /\ SearchInit /\ WorkerInit /\ FormsInit /\ HistoryInit /\ AccountsInit
  /\ part # "preferences" => stored = CHOOSE v \in Values : TRUE
  /\ part # "preferences" => requestId = 1
  /\ profile = {}
  /\ cookie[CHOOSE b \in Browsers : TRUE] = 0
  /\ part # "sessions" => cookie = [b \in Browsers |-> 0]

FlaskNext ==
  \/ part \in FlaskParts /\ Pass
  \/ part = "sessions" /\ \E w \in Workers : WorkerStep(w, Browsers, SessionOps)
  \/ part = "forms" /\ \E w \in Workers :
       WorkerStep(w, {CHOOSE b \in Browsers : TRUE}, PrefsOps)

BrowserNext ==
  /\ UNCHANGED part
  /\ \/ FlaskNext /\ UNCHANGED <<searchVars, workerVars, formsVars, vars, overlapped>>
     \/ /\ part = "accounts" /\ HistoryNext
        /\ UNCHANGED <<searchVars, workerVars, formsVars, accountVars>>
     \/ /\ UNCHANGED <<vars, overlapped, accountVars>>
        /\ \/ part = "search" /\ SearchNext /\ UNCHANGED <<workerVars, formsVars>>
           \/ part = "worker" /\ WorkerNext /\ UNCHANGED <<searchVars, formsVars>>
           \/ part = "preferences" /\ PrefNext /\ UNCHANGED <<searchVars, workerVars>>
           \/ part = "list" /\ ListNext /\ UNCHANGED <<searchVars, workerVars>>

BrowserSpec == BrowserInit /\ [][BrowserNext]_browserVars

(* The variables of the five modules keep their types.                      *)
BrowserTypeOK == SearchTypeOK /\ WorkerTypeOK /\ FormsTypeOK /\ TypeOK /\ AccountsTypeOK
=============================================================================
