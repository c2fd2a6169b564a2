---------------------------- MODULE LegacyAlerts ----------------------------
(***************************************************************************)
(* services/notifications.py: the checks of one user who has opted in, by  *)
(* the notification poller each gunicorn process starts, against the       *)
(* notification_log table all of them share.                               *)
(*                                                                         *)
(* Whether the forecast of a location qualifies is any answer of           *)
(* evaluate_forecast, a failure to load it being one that does not.  An    *)
(* e-mail or a push may arrive although its sender reports a failure.      *)
(***************************************************************************)
EXTENDS Naturals, SequencesExt

CONSTANTS
  Pollers,
  Spots,         \* the ids of _user_location_ids, which are deduplicated
  Devices,       \* endpoints of the user's push subscriptions
  LastDay,       \* bound on the calendar
  MaxChecks,     \* bound on the checks
  MaxLapses      \* bound on the crashes and failed writes

ASSUME AlertsAssumption ==
  /\ IsFiniteSet(Pollers)
  /\ Spots \in Seq(STRING) /\ IsInjective(Spots)
  /\ LastDay \in Nat \ {0} /\ {MaxChecks, MaxLapses} \subseteq Nat

VARIABLES
  today,         \* the date at the locations, taken to be in one time zone
  log,           \* notification_log: <<location, sent_date>>
  prefs,         \* the channels the user has chosen
  subscriptions, \* push_subscriptions
  check,         \* the check each poller is in
  checks,
  told,          \* told[l][d]: the checks by which the user was told of l for date d
  lapses         \* lapses[l][d]: of those, the ones that ended without a record

alertVars == <<today, log, prefs, subscriptions, check, checks, told, lapses>>

Dates     == 1..LastDay
Locations == Range(Spots)
Channels  == {"email", "push"}

NoCheck == [pc |-> "asleep", left |-> <<>>, qualifying |-> <<>>, email_ok |-> FALSE,
            subs |-> {}, reached |-> {}]

(* A check with nothing left to look at or to tell of is over.              *)
Set(w, c) ==
  check' = [check EXCEPT ![w] = IF c.left = <<>> /\ c.qualifying = <<>> THEN NoCheck ELSE c]

AlertsInit ==
  /\ today = 1
  /\ log = {}
  /\ prefs \in SUBSET Channels
  /\ subscriptions \in IF "push" \in prefs THEN SUBSET Devices ELSE {{}}
  /\ check = [w \in Pollers |-> NoCheck]
  /\ checks = 0
  /\ told = [l \in Locations |-> [d \in Dates |-> 0]]
  /\ lapses = told

Midnight ==
  /\ today < LastDay
  /\ today' = today + 1
  /\ UNCHANGED <<log, prefs, subscriptions, check, checks, told, lapses>>

WakeUp(w) ==
  /\ check[w].pc = "asleep" /\ checks < MaxChecks
  /\ checks' = checks + 1
  /\ Set(w, [NoCheck EXCEPT !.pc = "scan", !.left = Spots])
  /\ UNCHANGED <<today, log, prefs, subscriptions, told, lapses>>

was_notified(l, d) == <<l, d>> \in log

(* One location of the scan, whose date the alert keeps.                    *)
Look(w) ==
  LET c == check[w]
      l == Head(c.left)
  IN /\ c.pc = "scan" /\ c.left # <<>>
     /\ \E qualifies \in BOOLEAN :
          Set(w, [c EXCEPT !.left = Tail(@),
                           !.qualifying = IF qualifies /\ ~was_notified(l, today)
                                          THEN Append(@, <<l, today>>) ELSE @])
     /\ UNCHANGED <<today, log, prefs, subscriptions, checks, told, lapses>>

(* Each entry of S is told of once more by a check that has not reached the *)
(* user with it before.                                                     *)
Tell(c, S) ==
  told' = [l \in Locations |-> [d \in Dates |->
             told[l][d] + IF <<l, d>> \in S \ c.reached THEN 1 ELSE 0]]

(* One digest for all of them; then the subscriptions are read.             *)
Email(w) ==
  LET c == check[w]
  IN /\ c.pc = "scan" /\ c.left = <<>> /\ c.qualifying # <<>>
     /\ \E arrives, email_ok \in BOOLEAN :
          /\ email_ok => arrives
          /\ arrives => "email" \in prefs
          /\ Tell(c, IF arrives THEN Range(c.qualifying) ELSE {})
          /\ Set(w, [c EXCEPT !.pc = "push", !.email_ok = email_ok,
                              !.reached = IF arrives THEN Range(c.qualifying) ELSE {},
                              !.subs = IF "push" \in prefs THEN subscriptions ELSE {}])
     /\ UNCHANGED <<today, log, prefs, subscriptions, checks, lapses>>

Unrecorded(S) ==
  lapses' = [l \in Locations |-> [d \in Dates |->
               lapses[l][d] + IF <<l, d>> \in S THEN 1 ELSE 0]]

MayLapse == \A l \in Locations, d \in Dates : lapses[l][d] < MaxLapses

(* mutant: recorded whether or not anything was sent                        *)
IsRecordedAlways(c, ok) == TRUE

IsRecorded(c, ok) == c.email_ok \/ ok # {}

(* The pushes of the next location, and its record if a channel reports it  *)
(* sent.  A device that answers 404 or 410 is forgotten.                    *)
Push(w) ==
  LET c == check[w]
      e == Head(c.qualifying)
  IN /\ c.pc = "push" /\ c.qualifying # <<>>
     /\ \E arrives \in SUBSET c.subs : \E ok \in SUBSET arrives, gone \in SUBSET (c.subs \ arrives) :
          LET reached == c.reached \union IF arrives # {} THEN {e} ELSE {}
          IN /\ Tell(c, reached)
             /\ subscriptions' = subscriptions \ gone
             /\ \/ /\ log' = IF IsRecorded(c, ok) THEN log \union {e} ELSE log
                   /\ Unrecorded(IF IsRecorded(c, ok) THEN {} ELSE reached \intersect {e})
                   /\ Set(w, [c EXCEPT !.qualifying = Tail(@), !.reached = reached \ {e}])
                \/ /\ MayLapse   \* record_notification raises, which ends the check
                   /\ Unrecorded(reached) /\ Set(w, NoCheck)
                   /\ UNCHANGED log
     /\ UNCHANGED <<today, prefs, checks>>

(* The process ends between two locations.                                  *)
Crash(w) ==
  LET c == check[w]
  IN /\ c.pc = "push" /\ c.qualifying # <<>> /\ MayLapse
     /\ Unrecorded(c.reached) /\ Set(w, NoCheck)
     /\ UNCHANGED <<today, log, prefs, subscriptions, checks, told>>

AlertsNext ==
  \/ \E w \in Pollers : \/ WakeUp(w) \/ Look(w) \/ Email(w) \/ Push(w) \/ Crash(w)
  \/ Midnight

AlertsSpec == AlertsInit /\ [][AlertsNext]_alertVars

-----------------------------------------------------------------------------
(* Every variable keeps its type.                                           *)
AlertsTypeOK ==
  /\ today \in Dates /\ log \subseteq Locations \X Dates
  /\ prefs \subseteq Channels /\ subscriptions \subseteq Devices
  /\ \A w \in Pollers :
       /\ check[w].pc \in {"asleep", "scan", "push"}
       /\ check[w].qualifying \in Seq(Locations \X Dates) /\ check[w].subs \subseteq Devices
       /\ check[w].reached \subseteq Locations \X Dates
  /\ checks \in 0..MaxChecks
  /\ told \in [Locations -> [Dates -> Nat]] /\ lapses \in [Locations -> [Dates -> Nat]]

(* "... and the user hasn't already been notified for that location today": *)
(* of a location the user is told for a date at most once by each process's *)
(* poller, and once more for each check that told and could not record it;  *)
(* and what the log holds the user was told of.                             *)
AlertsMatchTheLog ==
  \A l \in Locations, d \in Dates :
    /\ told[l][d] <= Cardinality(Pollers) + lapses[l][d]
    /\ <<l, d>> \in log => told[l][d] > 0
=============================================================================
