------------------------- MODULE LegacyRegulations -------------------------
(***************************************************************************)
(* regulations.py and storage/reg_scraper.py: the lookups of one species   *)
(* in one state, answered from the reg_scrape_cache table all processes    *)
(* share, from the page of the state's agency, or from the snapshot that   *)
(* ships with the code; and the thread each process scrapes again in.      *)
(*                                                                         *)
(* What a page says of the species is the number of its edition.  The      *)
(* snapshot, and the reference to the agency when it has nothing either,   *)
(* is one answer.                                                          *)
(***************************************************************************)
EXTENDS Integers, Sequences

CONSTANTS
  Hosts,         \* gunicorn processes
  Lookups,       \* requests that look a regulation up
  Listed,        \* the editions of the page the scraper finds the species in
  LastEdition,   \* bound on the editions
  Miss,          \* an empty scrape
  NoRow,
  NoPage,
  TTL,           \* _CACHE_TTL_SECONDS
  LastHour,      \* bound on the clock
  MaxLookups     \* bound on the lookups

ASSUME RegulationsAssumption ==
  {LastEdition, TTL, LastHour, MaxLookups} \subseteq Nat

VARIABLES
  hour,
  keeps,         \* whether a process keeps the page of the state asked for (all but FL and TX)
  edition,       \* what the agency publishes
  ended,         \* when each edition was replaced
  kept,          \* the page a process keeps (_va_page_cache and its like)
  row,           \* the row of the species in reg_scrape_cache
  pending,       \* the processes with the species in _reg_refresh_pending
  queued,        \* of those, the ones whose _reg_bg_executor has yet to start it
  scrape,        \* what each lookup, and the thread of each process, is doing
  lookups,
  purged         \* the oldest edition a deleted table may show again

regVars == <<hour, keeps, edition, ended, kept, row, pending, queued, scrape, lookups, purged>>

Editions == 0..LastEdition
Texts    == Editions \union {Miss}
Never    == LastHour + 1
Threads  == Lookups \union Hosts

(* What a thread is at, what it has scraped and when, or how it answered.   *)
NoScrape == [pc |-> "idle", host |-> CHOOSE h \in Hosts : TRUE, got |-> Miss, at |-> 0]

Answered == {"idle", "live", "live_stale", "snapshot"}

At(t, pc) == [scrape EXCEPT ![t].pc = pc]

RegulationsInit ==
  /\ hour = 0 /\ edition = 0 /\ keeps \in BOOLEAN
  /\ ended = [e \in Editions |-> Never]
  /\ kept = [h \in Hosts |-> NoPage]
  /\ row = NoRow
  /\ pending = {} /\ queued = {}
  /\ scrape = [t \in Threads |-> NoScrape]
  /\ lookups = 0
  /\ purged = 0

(* mutant: rows never expire                                                *)
FreshForever == row # NoRow

Fresh == row # NoRow /\ hour - row.at <= TTL

Parsed(e) == IF e \in Listed THEN e ELSE Miss

(* mutant: a refresh does not give the species free                         *)
AnswerHeld(t, text) ==
  /\ scrape' = [scrape EXCEPT ![t] =
       IF t \in Hosts THEN NoScrape
       ELSE [@ EXCEPT !.pc = IF text = Miss THEN "snapshot" ELSE "live", !.got = text, !.at = 0]]
  /\ UNCHANGED pending

(* A lookup keeps its answer, the snapshot for an empty one; the thread of  *)
(* a process has nobody to tell and gives the species free.                 *)
Answer(t, text) ==
  /\ scrape' = [scrape EXCEPT ![t] =
       IF t \in Hosts THEN NoScrape
       ELSE [@ EXCEPT !.pc = IF text = Miss THEN "snapshot" ELSE "live", !.got = text, !.at = 0]]
  /\ pending' = pending \ {t}

Ask(l, h) ==
  /\ scrape[l].pc \in Answered /\ lookups < MaxLookups
  /\ lookups' = lookups + 1
  /\ scrape' = [scrape EXCEPT ![l] = [NoScrape EXCEPT !.pc = "cached", !.host = h]]
  /\ UNCHANGED <<hour, keeps, edition, ended, kept, row, pending, queued, purged>>

ReadFresh(l) ==
  /\ scrape[l].pc = "cached"
  /\ \/ Fresh /\ Answer(l, row.text)
     \/ ~Fresh /\ scrape' = At(l, "expired") /\ UNCHANGED pending
  /\ UNCHANGED <<hour, keeps, edition, ended, kept, row, queued, lookups, purged>>

(* One refresh of the species is queued or at work in a process.            *)
ScheduleRefresh(h) ==
  /\ pending' = pending \union {h}
  /\ queued' = IF h \in pending THEN queued ELSE queued \union {h}

(* An expired row is answered as it is, and an empty one too: it is given a *)
(* fetched_at, which makes it something the scraper found.                  *)
ReadAny(l) ==
  /\ scrape[l].pc = "expired"
  /\ \/ row = NoRow /\ scrape' = At(l, "look") /\ UNCHANGED <<pending, queued>>
     \/ /\ row # NoRow
        /\ ScheduleRefresh(scrape[l].host)
        /\ scrape' = [scrape EXCEPT ![l].pc = "live_stale", ![l].got = row.text]
  /\ UNCHANGED <<hour, keeps, edition, ended, kept, row, lookups, purged>>

Begin(h) ==
  /\ h \in queued /\ scrape[h].pc = "idle"
  /\ queued' = queued \ {h}
  /\ scrape' = [scrape EXCEPT ![h] = [NoScrape EXCEPT !.pc = "look", !.host = h]]
  /\ UNCHANGED <<hour, keeps, edition, ended, kept, row, pending, lookups, purged>>

(* scrape_regulation looks at the table once more.                          *)
LookAgain(t) ==
  /\ scrape[t].pc = "look"
  /\ \/ Fresh /\ Answer(t, row.text)
     \/ ~Fresh /\ scrape' = At(t, "fetch") /\ UNCHANGED pending
  /\ UNCHANGED <<hour, keeps, edition, ended, kept, row, queued, lookups, purged>>

Scraped(t, text) ==
  scrape' = [scrape EXCEPT ![t].pc = "save", ![t].got = text, ![t].at = hour]

(* The page, under the lock of the state: the kept one, a new one that is   *)
(* kept from then on, or none.                                              *)
Fetch(t) ==
  LET h == scrape[t].host
  IN /\ scrape[t].pc = "fetch"
     /\ \/ /\ kept[h] # NoPage
           /\ Scraped(t, Parsed(kept[h]))
           /\ UNCHANGED kept
        \/ /\ kept[h] = NoPage
           /\ Scraped(t, Parsed(edition))
           /\ kept' = IF keeps THEN [kept EXCEPT ![h] = edition] ELSE kept
        \/ /\ kept[h] = NoPage
           /\ Scraped(t, Miss)
           /\ UNCHANGED kept
     /\ UNCHANGED <<hour, keeps, edition, ended, row, pending, queued, lookups, purged>>

(* A scrape that found nothing is written too; a write may fail.            *)
SaveScrape(t) ==
  /\ scrape[t].pc = "save"
  /\ row' \in {row, [text |-> scrape[t].got, at |-> hour]}
  /\ Answer(t, scrape[t].got)
  /\ UNCHANGED <<hour, keeps, edition, ended, kept, queued, lookups, purged>>

(* A parser that raises: a lookup falls back, a refresh ends.               *)
Raise(t) ==
  /\ scrape[t].pc = "fetch"
  /\ Answer(t, Miss)
  /\ UNCHANGED <<hour, keeps, edition, ended, kept, row, queued, lookups, purged>>

(* POST /api/v1/regulations/refresh.                                        *)
invalidate_cache ==
  /\ row' = NoRow
  /\ purged' = IF \E t \in Threads : scrape[t].pc = "save" THEN purged ELSE edition
  /\ row # NoRow
  /\ UNCHANGED <<hour, keeps, edition, ended, kept, pending, queued, scrape, lookups>>

Publish ==
  /\ edition < LastEdition
  /\ edition' = edition + 1
  /\ ended' = [ended EXCEPT ![edition] = hour]
  /\ UNCHANGED <<hour, keeps, kept, row, pending, queued, scrape, lookups, purged>>

RestartHost(h) ==
  /\ \/ h \in pending \/ kept[h] # NoPage
     \/ \E t \in Threads : scrape[t].host = h /\ scrape[t].pc \notin Answered
  /\ kept' = [kept EXCEPT ![h] = NoPage]
  /\ pending' = pending \ {h} /\ queued' = queued \ {h}
  /\ scrape' = [t \in Threads |->
       IF scrape[t].host = h /\ scrape[t].pc \notin Answered THEN NoScrape ELSE scrape[t]]
  /\ UNCHANGED <<hour, keeps, edition, ended, row, lookups, purged>>

(* From the page to the table is shorter than a unit of time.               *)
Later ==
  /\ hour < LastHour
  /\ \A t \in Threads : scrape[t].pc = "save" => scrape[t].at = hour
  /\ hour' = hour + 1
  /\ UNCHANGED <<keeps, edition, ended, kept, row, pending, queued, scrape, lookups, purged>>

ScrapeStep(t) == LookAgain(t) \/ Fetch(t) \/ SaveScrape(t) \/ Raise(t)

RegulationsNext ==
  \/ \E l \in Lookups : (\E h \in Hosts : Ask(l, h)) \/ ReadFresh(l) \/ ReadAny(l)
  \/ \E t \in Threads : ScrapeStep(t)
  \/ \E h \in Hosts : Begin(h) \/ RestartHost(h)
  \/ invalidate_cache \/ Publish \/ Later

(* The thread of a process runs, and a request for a page times out.        *)
RegulationsFairness == \A h \in Hosts : WF_regVars(Begin(h) \/ ScrapeStep(h))

RegulationsSpec == RegulationsInit /\ [][RegulationsNext]_regVars /\ RegulationsFairness
-----------------------------------------------------------------------------
(* The variables keep their types. *)
RegulationsTypeOK ==
  /\ hour \in 0..LastHour /\ keeps \in BOOLEAN /\ edition \in Editions /\ purged \in Editions
  /\ ended \in [Editions -> 0..Never]
  /\ kept \in [Hosts -> Editions \union {NoPage}]
  /\ row \in [text : Texts, at : 0..LastHour] \union {NoRow}
  /\ queued \subseteq pending /\ pending \subseteq Hosts
  /\ scrape \in [Threads -> [pc : Answered \union {"cached", "expired", "look", "fetch", "save"},
                            host : Hosts, got : Texts, at : 0..LastHour]]
  /\ lookups \in 0..MaxLookups

(* Where no process keeps the page, an answer called live is what the       *)
(* agency published within the TTL and the time of a scrape, and nothing a  *)
(* refresh has thrown away while no scrape was between page and table       *)
(* (regulations.py:693-727, reg_scraper.py:1524-1656).                      *)
LiveIsCurrent ==
  [][\A l \in Lookups :
       /\ scrape[l].pc # "live" /\ scrape'[l].pc = "live" /\ ~keeps
       => /\ ended[scrape'[l].got] >= hour - TTL - 1
          /\ scrape'[l].got >= purged]_regVars

(* A species whose refresh was scheduled is given free again, so that the   *)
(* next expired answer can schedule another (regulations.py:521-548).       *)
RefreshesEnd == \A h \in Hosts : h \in pending ~> h \notin pending

(* A scrape that found nothing is answered from the snapshot                *)
(* (regulations.py:717: "stale_data == {} means a previous scrape found     *)
(* nothing; skip to snapshot").  It does not hold: an expired {} is given a  *)
(* fetched_at and is something then.                                        *)
MissesGoToTheSnapshot ==
  \A l \in Lookups : scrape[l].pc \in {"live", "live_stale"} => scrape[l].got # Miss
=============================================================================
