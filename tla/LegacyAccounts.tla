--------------------------- MODULE LegacyAccounts ---------------------------
(***************************************************************************)
(* The Flask application's sessions and preferences of one user: the       *)
(* session cookie, whose version must be that of the users row, and the    *)
(* profiles row, each read through a cache of its gunicorn process         *)
(* (storage/sqlite.py) that only the writes of that process empty.         *)
(*                                                                         *)
(* A sync worker serves one request at a time; requests to different       *)
(* workers interleave at their statements.  The profile is the set of what *)
(* is on: pinned locations, the alerts with their settings, and the weekly *)
(* e-mail, which shares the notification_prefs column with the alerts.     *)
(* Registration, deletion and the rate limits are left out, the caches     *)
(* never fill, and a browser that is signed out does nothing but log in.   *)
(***************************************************************************)
EXTENDS Naturals, FiniteSets

CONSTANTS
  Workers, Browsers,
  Places,             \* locations one can pin
  UserTTL, PrefsTTL,  \* _USER_CACHE_TTL, _PREFS_CACHE_TTL
  LastMoment,         \* bound on the clock
  MaxHits,            \* bound on the requests
  Nil                 \* nothing cached, shown, served or signed in

ASSUME AccountsAssumption ==
  {UserTTL, PrefsTTL} \subseteq Nat \ {0} /\ {LastMoment, MaxHits} \subseteq Nat

VARIABLES
  moment,
  version,            \* users.session_version
  profile,            \* the profiles row
  user_cache, prefs_cache,    \* the entry of the user in each process
  cookie,             \* the session version in each browser's cookie
  page,               \* the account page each browser shows
  serving,            \* the request each worker is at
  hits,
  bumped,             \* when version was last raised
  changed             \* when, and by which worker, each field was last changed

accountVars == <<moment, version, profile, user_cache, prefs_cache, cookie, page, serving,
                 hits, bumped, changed>>

Moments == 0..LastMoment
Fields  == Places \union {"alerts", "weekly"}

(* mutant: an entry expires a moment late                                   *)
LiveThrough(e, ttl) == e # Nil /\ moment - e.at <= ttl

Live(e, ttl) == e # Nil /\ moment - e.at < ttl

Differ(S, T) == (S \ T) \union (T \ S)

AccountsInit ==
  /\ moment = 0 /\ version = 0 /\ profile \in SUBSET Fields
  /\ user_cache = [w \in Workers |-> Nil] /\ prefs_cache = user_cache
  /\ cookie \in [Browsers -> {0, Nil}]
  /\ page = [b \in Browsers |-> Nil]
  /\ serving = [w \in Workers |-> Nil]
  /\ hits = 0 /\ bumped = 0
  /\ changed = [f \in Fields |-> [at |-> 0, by |-> Nil]]

-----------------------------------------------------------------------------
(* "other" is any route that neither reads nor changes the preferences.     *)
SessionOps == {"login", "password", "logout", "other"}
PrefsOps   == {"account", "favorite", "settings", "alerts"}

(* The form of a request: the location to toggle; what the settings form    *)
(* has on; or the alerts, with the weekly e-mail as the page was rendered.  *)
Forms(b, op) ==
  CASE op = "favorite" -> {{f} : f \in Places}
    [] op = "settings" -> IF page[b] = Nil THEN {} ELSE SUBSET (Fields \ {"alerts"})
    [] op = "alerts"   -> IF page[b] = Nil THEN {} ELSE
                          LET weekly == page[b].prefs \intersect {"weekly"}
                          IN {weekly, weekly \union {"alerts"}}
    [] OTHER -> {{}}

(* The fields a request is there to set.                                    *)
Aims(x) ==
  CASE x.op = "favorite" -> x.form
    [] x.op = "settings" -> Fields \ {"alerts"}
    [] x.op = "alerts"   -> {"alerts"}

get_user(w) == IF Live(user_cache[w], UserTTL) THEN user_cache[w].version ELSE version

First(op) == CASE op \in {"login", "password"}              -> "bump"
               [] op \in {"account", "favorite", "settings"} -> "prefs"
               [] op = "alerts"                              -> "save"
               [] op \in {"logout", "other"}                 -> "done"

(* _load_user: a session of another version than get_user's is cleared, and *)
(* the route sends the browser to log in.                                   *)
UserLoaded(w, b, op, form) ==
  [browser |-> b, op |-> op, form |-> form, read |-> {},
   session |-> IF cookie[b] = get_user(w) /\ op # "logout" THEN cookie[b] ELSE Nil,
   pc |-> IF op = "login" \/ cookie[b] = get_user(w) THEN First(op) ELSE "done",
   basis |-> CASE op = "alerts" -> page[b].at [] op \in SessionOps -> 0 [] OTHER -> moment]

Receive(w, b, op) ==
  /\ serving[w] = Nil /\ hits < MaxHits
  /\ op = "login" \/ cookie[b] # Nil
  /\ hits' = hits + 1
  /\ \E form \in Forms(b, op) : serving' = [serving EXCEPT ![w] = UserLoaded(w, b, op, form)]
  /\ user_cache' = IF cookie[b] = Nil \/ Live(user_cache[w], UserTTL) THEN user_cache
                   ELSE [user_cache EXCEPT ![w] = [at |-> moment, version |-> version]]
  /\ UNCHANGED <<moment, version, profile, prefs_cache, cookie, page, bumped, changed>>

(* A session is permanent: every response sets the cookie anew.             *)
Leave(w, session) ==
  /\ cookie' = [cookie EXCEPT ![serving[w].browser] = session]
  /\ serving' = [serving EXCEPT ![w] = Nil]

Done(w) ==
  /\ serving[w] # Nil /\ serving[w].pc = "done"
  /\ Leave(w, serving[w].session)
  /\ UNCHANGED <<moment, version, profile, user_cache, prefs_cache, page, hits, bumped, changed>>

get_preferences(w) ==
  IF Live(prefs_cache[w], PrefsTTL) THEN prefs_cache[w].prefs ELSE profile

Keep(w) ==
  prefs_cache' = IF Live(prefs_cache[w], PrefsTTL) THEN prefs_cache
                 ELSE [prefs_cache EXCEPT ![w] = [at |-> moment, prefs |-> profile]]

ReadPrefs(w) ==
  LET x == serving[w]
  IN /\ x # Nil /\ x.pc = "prefs"
     /\ Keep(w)
     /\ IF x.op = "account"
        THEN /\ page' = [page EXCEPT ![x.browser] =
                           [at |-> x.basis, prefs |-> get_preferences(w)]]
             /\ Leave(w, x.session)
        ELSE /\ serving' = [serving EXCEPT ![w].pc = IF x.op = "alerts" THEN "done" ELSE "save",
                                           ![w].read = get_preferences(w)]
             /\ UNCHANGED <<cookie, page>>
     /\ UNCHANGED <<moment, version, profile, user_cache, hits, bumped, changed>>

(* The columns a request writes, with what it has read of them.             *)
Written(x) ==
  CASE x.op = "favorite" -> (profile \ Places) \union Differ(x.read \intersect Places, x.form)
    [] x.op = "settings" -> x.form \union (x.read \intersect {"alerts"})
    [] x.op = "alerts"   -> (profile \intersect Places) \union x.form

(* mutant: the saving process goes on with what it has cached               *)
PoppedNot(w) == prefs_cache

Popped(w) == [prefs_cache EXCEPT ![w] = Nil]

(* save_preferences; the profile route then reads what it answers with.     *)
Save(w) ==
  LET x == serving[w]
  IN /\ x # Nil /\ x.pc = "save"
     /\ profile' = Written(x)
     /\ prefs_cache' = Popped(w)
     /\ user_cache' = IF x.op = "settings" THEN [user_cache EXCEPT ![w] = Nil] ELSE user_cache
     /\ changed' = [f \in Fields |-> IF f \in Differ(profile, profile')
                                     THEN [at |-> moment, by |-> w] ELSE changed[f]]
     /\ IF x.op = "alerts"
        THEN serving' = [serving EXCEPT ![w].pc = "prefs"] /\ UNCHANGED cookie
        ELSE Leave(w, x.session)
     /\ UNCHANGED <<moment, version, page, hits, bumped>>

(* bump_session_version or change_password: the UPDATE ...                  *)
Bump(w) ==
  /\ serving[w] # Nil /\ serving[w].pc = "bump"
  /\ version' = version + 1 /\ bumped' = moment
  /\ serving' = [serving EXCEPT ![w].pc = "version"]
  /\ UNCHANGED <<moment, profile, user_cache, prefs_cache, cookie, page, hits, changed>>

(* ... and the SELECT, whose version the session gets.  A login then reads  *)
(* the preferences.                                                         *)
Stamp(w) ==
  /\ serving[w] # Nil /\ serving[w].pc = "version"
  /\ user_cache' = [user_cache EXCEPT ![w] = Nil]
  /\ IF serving[w].op = "login" THEN Keep(w) ELSE UNCHANGED prefs_cache
  /\ Leave(w, version)
  /\ UNCHANGED <<moment, version, profile, page, hits, bumped, changed>>

-----------------------------------------------------------------------------
(* A worker is killed and replaced; its browser gets no answer.             *)
Recycle(w) ==
  /\ serving[w] # Nil
  /\ serving' = [serving EXCEPT ![w] = Nil]
  /\ user_cache' = [user_cache EXCEPT ![w] = Nil] /\ prefs_cache' = [prefs_cache EXCEPT ![w] = Nil]
  /\ UNCHANGED <<moment, version, profile, cookie, page, hits, bumped, changed>>

Pass ==
  /\ moment < LastMoment
  /\ moment' = moment + 1
  /\ UNCHANGED <<version, profile, user_cache, prefs_cache, cookie, page, serving, hits,
                 bumped, changed>>

WorkerStep(w, B, ops) ==
  \/ \E b \in B, op \in ops : Receive(w, b, op)
  \/ Done(w) \/ ReadPrefs(w) \/ Save(w) \/ Bump(w) \/ Stamp(w)
  \/ Recycle(w)

AccountsNext ==
  \/ \E w \in Workers : WorkerStep(w, Browsers, SessionOps \union PrefsOps)
  \/ Pass

AccountsSpec == AccountsInit /\ [][AccountsNext]_accountVars

-----------------------------------------------------------------------------
(* Every variable keeps its type.                                           *)
AccountsTypeOK ==
  /\ moment \in Moments /\ hits \in 0..MaxHits
  /\ version \in 0..MaxHits /\ bumped \in Moments
  /\ profile \subseteq Fields
  /\ \A w \in Workers :
       /\ user_cache[w] = Nil \/ user_cache[w] \in [at : Moments, version : 0..version]
       /\ prefs_cache[w] = Nil \/ prefs_cache[w] \in [at : Moments, prefs : SUBSET Fields]
       /\ serving[w] = Nil \/ serving[w].pc \in {"prefs", "save", "bump", "version", "done"}
  /\ \A b \in Browsers :
       /\ cookie[b] \in 0..version \union {Nil}
       /\ page[b] = Nil \/ page[b] \in [at : Moments, prefs : SUBSET Fields]
  /\ changed \in [Fields -> [at : Moments, by : Workers \union {Nil}]]

Arrives(w) == serving[w] = Nil /\ serving'[w] # Nil

(* "Keeping the session_version invalidation lag negligible": a session is  *)
(* taken for older than the last login, or for the newest, wrongly only for *)
(* UserTTL after that login or change of password, whichever worker asks.   *)
VerdictsLagBriefly ==
  [][\A w \in Workers, b \in Browsers :
       (Arrives(w) /\ serving'[w].browser = b /\ cookie[b] # Nil /\ serving'[w].op # "logout"
          /\ (serving'[w].session # Nil) # (cookie[b] = version)) =>
         moment - bumped < UserTTL]_accountVars

Saves(w) == serving[w] # Nil /\ serving[w].pc = "save" /\ serving'[w] # serving[w]

(* "Invalidated immediately on write so changes take effect at the next     *)
(* request": a request that saves undoes what it is not there to set only   *)
(* when that was changed within PrefsTTL of what the request is based on,   *)
(* and, but for the page an alerts panel came with, by another worker.      *)
OnlyRecentChangesAreUndone ==
  [][\A w \in Workers : Saves(w) =>
       \A f \in Differ(profile, profile') \ Aims(serving[w]) :
         /\ changed[f].at + PrefsTTL > serving[w].basis
         /\ serving[w].op # "alerts" => changed[f].by # w]_accountVars
=============================================================================
