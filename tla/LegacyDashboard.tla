-------------------------- MODULE LegacyDashboard --------------------------
(***************************************************************************)
(* The forecasts of one location in the memory of one process of the Flask *)
(* application, and what they are made into for a reader: _render_forecast *)
(* and the conversion of winds in web/views.py, personalize_forecast and   *)
(* its cache in domain/forecast.py, notification_forecast_loader.          *)
(*                                                                         *)
(* Forecasts are dicts that the caches share with the threads at work on   *)
(* them, so they are objects of a heap here, changed in place.  A process  *)
(* has one request thread, and the thread of the notification poller and   *)
(* the worker that refreshes forecasts beside it.                          *)
(*                                                                         *)
(* Abstracted: of a forecast, the unit its winds are written in, the unit  *)
(* they were in when its species, rigs and score were made of them, and    *)
(* for whom and as of which hour; how it is loaded when the memory has     *)
(* none, and how refreshes are queued (LegacyRefresh): one that is stale   *)
(* is shown while the next is made, at any age; the preferences, which are *)
(* read afresh by each request.                                            *)
(***************************************************************************)
EXTENDS Integers, SequencesExt

CONSTANTS
  Readers, Units,      \* Units[r], "knots" or "mph"
  Profile, Anyone,     \* Profile[r]; Anyone, for no profile
  CacheMax,            \* _PERSONALIZE_CACHE_MAX
  HoursPerDay,         \* 24
  MaxEvents,           \* bound on all that happens but the steps of the threads
  Nil

ASSUME DashboardAssumption ==
  /\ Units \in [Readers -> {"knots", "mph"}]
  /\ DOMAIN Profile = Readers
  /\ CacheMax \in Nat \ {0} /\ HoursPerDay \in Nat \ {0}
  /\ MaxEvents \in Nat
  /\ Nil \notin Nat

VARIABLES
  clock,        \* hours that have passed
  objects,      \* the forecasts made so far; an index is a reference
  mem,          \* the entry of _MEM_CACHE, a reference or Nil
  row,          \* the generation of the row in forecast_cache
  made,         \* generations
  personal,     \* _PERSONALIZE_CACHE: [key, ref], oldest insertion first
  work,         \* what the threads are at
  caught,       \* the readers with a catch logged here
  events,       \* pages and alerts asked for, refreshes, catches, hours, ...
  exposed       \* generations shown to a reader in mph as they are for anyone

dashboardVars ==
  <<clock, objects, mem, row, made, personal, work, caught, events, exposed>>

Threads == {"page", "poller"}
Rested == [pc |-> "idle", who |-> Nil, caught |-> FALSE, base |-> Nil, ref |-> Nil, key |-> Nil,
           asked |-> Nil, victim |-> Nil, floor |-> Nil]

(* A forecast as generate_forecast makes it, and json.loads() of its row.   *)
Plainly(g) == [gen |-> g, wind |-> "knots", read |-> "knots", for |-> Anyone, caught |-> FALSE, hour |-> Nil]

Refs == DOMAIN objects
New == Len(objects) + 1

Happens == events < MaxEvents /\ events' = events + 1

At(x, w) == work' = [work EXCEPT ![x] = w]

(* An alert has no page to render. *)
Done(x, w, ref) ==
  At(x, IF x = "page" THEN [w EXCEPT !.pc = "done", !.ref = ref] ELSE Rested)

-----------------------------------------------------------------------------
(* Loading                                                                  *)

(* A reader's page, or an alert for a reader with a profile.                *)
Load(x, r) ==
  LET w == [Rested EXCEPT !.pc = "loaded", !.who = r, !.caught = (x = "page" /\ r \in caught),
                          !.floor = clock]
  IN /\ Happens
     /\ work[x].pc = "idle"
     /\ x = "poller" => Profile[r] # Anyone
     /\ IF mem # Nil THEN At(x, [w EXCEPT !.base = mem, !.ref = mem]) /\ UNCHANGED <<objects, mem>>
        ELSE IF row # Nil
        THEN /\ objects' = Append(objects, Plainly(row))
             /\ mem' = New
             /\ At(x, [w EXCEPT !.base = New, !.ref = New])
        ELSE At(x, [w EXCEPT !.pc = "generating"]) /\ UNCHANGED <<objects, mem>>
     /\ UNCHANGED <<clock, row, made, personal, caught, exposed>>

(* save_forecast: the row and the memory, by the refresh worker (Nil) or by *)
(* a thread that found none.                                                *)
Generate(x) ==
  /\ made' = made + 1
  /\ objects' = Append(objects, Plainly(made'))
  /\ mem' = New /\ row' = made'
  /\ IF x = Nil THEN Happens /\ UNCHANGED work
     ELSE /\ work[x].pc = "generating" /\ UNCHANGED events
          /\ At(x, [work[x] EXCEPT !.pc = "loaded", !.base = New, !.ref = New])
  /\ UNCHANGED <<clock, personal, caught, exposed>>

-----------------------------------------------------------------------------
(* personalize_forecast                                                     *)

(* The positions of a key in the dict: one at most.                         *)
Find(key) == {i \in DOMAIN personal : personal[i].key = key}

(* datetime.now(tz).hour: the same again a day later. *)
HourOfDay(t) == t % HoursPerDay

(* mutant: catches are not part of the key *)
KeyOfProfile(w) ==
  [gen |-> objects[w.base].gen, hour |-> HourOfDay(clock), profile |-> Profile[w.who], caught |-> FALSE]

(* Nor are the units. *)
KeyOf(w) ==
  [gen |-> objects[w.base].gen, hour |-> HourOfDay(clock), profile |-> Profile[w.who], caught |-> w.caught]

Lookup(x) ==
  LET w == work[x]
      key == KeyOf(w)
  IN /\ w.pc = "loaded"
     /\ IF Profile[w.who] = Anyone /\ ~w.caught THEN Done(x, w, w.ref)
        ELSE IF Find(key) # {} THEN Done(x, w, personal[CHOOSE i \in Find(key) : TRUE].ref)
        ELSE At(x, [w EXCEPT !.pc = "make", !.key = key, !.asked = clock])
     /\ UNCHANGED <<clock, objects, mem, row, made, personal, caught, events, exposed>>

(* A shallow copy, with species, advice and score made of what _parse_range *)
(* reads in the wind: numbers, whatever their unit.  The clock is read      *)
(* again for them, a moment later: the copy counts as of the hour it was    *)
(* asked for.                                                               *)
Personalized(w) ==
  LET f == objects[w.base]
  IN [f EXCEPT !.read = f.wind, !.for = Profile[w.who], !.caught = w.caught, !.hour = w.asked]

(* mutant: the forecast itself is changed, and is what is cached *)
WithoutCopy(w) == [objects EXCEPT ![w.base] = Personalized(w)]

WithCopy(w) == Append(objects, Personalized(w))

IsFull == Len(personal) >= CacheMax

(* Up to the look at the cache's length: no one else has the copy yet.      *)
Personalize(x) ==
  LET w == [work[x] EXCEPT !.ref = IF Len(objects') = New THEN New ELSE @]
  IN /\ work[x].pc = "make"
     /\ objects' = WithCopy(work[x])
     /\ At(x, IF IsFull THEN [w EXCEPT !.pc = "pop", !.victim = personal[1].key] ELSE [w EXCEPT !.pc = "store"])
     /\ UNCHANGED <<clock, mem, row, made, personal, caught, events, exposed>>

(* pop() of a key that the other thread has popped raises: the page fails,  *)
(* the alert is about the forecast as it is for anyone.                     *)
Evict(x) ==
  LET w == work[x]
  IN /\ w.pc = "pop"
     /\ IF Find(w.victim) # {}
        THEN /\ personal' = RemoveAt(personal, CHOOSE i \in Find(w.victim) : TRUE)
             /\ At(x, [w EXCEPT !.pc = "store"])
        ELSE At(x, Rested) /\ UNCHANGED personal
     /\ UNCHANGED <<clock, objects, mem, row, made, caught, events, exposed>>

Put(entries, e) ==
  IF \E i \in DOMAIN entries : entries[i].key = e.key
  THEN [i \in DOMAIN entries |-> IF entries[i].key = e.key THEN e ELSE entries[i]]
  ELSE Append(entries, e)

Store(x) ==
  LET w == work[x]
  IN /\ w.pc = "store"
     /\ personal' = Put(personal, [key |-> w.key, ref |-> w.ref])
     /\ Done(x, w, w.ref)
     /\ UNCHANGED <<clock, objects, mem, row, made, caught, events, exposed>>

-----------------------------------------------------------------------------
(* _apply_wind_unit_preference, which assigns to the forecast it is given,  *)
(* and the page of it.                                                      *)
Render ==
  LET w == work["page"]
  IN /\ w.pc = "done"
     /\ objects' = [objects EXCEPT ![w.ref].wind = IF Units[w.who] = "mph" THEN "mph" ELSE @]
     /\ exposed' = exposed \union {g \in {objects[w.ref].gen} : objects[w.ref].hour = Nil /\ Units[w.who] = "mph"}
     /\ At("page", Rested)
     /\ UNCHANGED <<clock, mem, row, made, personal, caught, events>>

-----------------------------------------------------------------------------
(* The forecast of another location takes the place in _MEM_CACHE.          *)
Forget ==
  /\ Happens
  /\ mem # Nil /\ mem' = Nil
  /\ UNCHANGED <<clock, objects, row, made, personal, work, caught, exposed>>

LogCatch(r) ==
  /\ Happens
  /\ r \notin caught
  /\ caught' = caught \union {r}
  /\ UNCHANGED <<clock, objects, mem, row, made, personal, work, exposed>>

HourPasses ==
  /\ Happens
  /\ clock' = clock + 1
  /\ UNCHANGED <<objects, mem, row, made, personal, work, caught, exposed>>

DashboardInit ==
  /\ clock = 0 /\ objects = <<>> /\ mem = Nil /\ row = Nil /\ made = 0
  /\ personal = <<>> /\ work = [x \in Threads |-> Rested]
  /\ caught = {} /\ events = 0 /\ exposed = {}

ThreadSteps(x) ==
  \/ \E r \in Readers : Load(x, r)
  \/ Generate(x) \/ Lookup(x) \/ Personalize(x) \/ Evict(x) \/ Store(x)

DashboardNext ==
  \/ \E x \in Threads : ThreadSteps(x)
  \/ Render
  \/ Generate(Nil) \/ Forget \/ HourPasses
  \/ \E r \in Readers : LogCatch(r)

DashboardSpec == DashboardInit /\ [][DashboardNext]_dashboardVars

-----------------------------------------------------------------------------
(* A page is of the forecast that was loaded for it, and personalized for   *)
(* the reader, with the catches logged when it was asked for: no reader is  *)
(* given another's from the shared cache.  It is as of an hour of the day   *)
(* that it was since then, but of that hour on an earlier day if the        *)
(* forecast is as old: the key has no date.  Nor has it units, and a reader *)
(* of knots may find miles per hour (see below), but not the reverse.       *)
PagesAreForTheirReader ==
  [][Render =>
       LET w == work["page"]
           shown == objects'[w.ref]
       IN /\ shown.gen = objects[w.base].gen
          /\ shown.for = Profile[w.who] /\ shown.caught = w.caught
          /\ shown.hour # Nil => \E h \in w.floor..clock : HourOfDay(h) = HourOfDay(shown.hour)
          /\ Units[w.who] = "mph" => shown.wind = "mph"]_dashboardVars

(* Winds in miles per hour are taken for knots, when the species and the    *)
(* score are made for an angler, only in a forecast that a reader who has   *)
(* chosen them had seen as it is for anyone.                                *)
MisreadOnlyAfterMphPage ==
  \A i \in Refs : objects[i].read = "mph" => objects[i].gen \in exposed

(* "Operates on isolated copies of the conditions dict and each outlook day *)
(* so the in-process caches (_MEM_CACHE, _PERSONALIZE_CACHE) are never      *)
(* mutated."                                                                *)
CachesAreNeverMutated ==
  [][\A i \in Refs : i = mem \/ (\E e \in Range(personal) : e.ref = i) => objects'[i] = objects[i]]_dashboardVars
=============================================================================
