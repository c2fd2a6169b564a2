# SaltLine verification project

TLA+ modules, TLC runs and TLAPS proofs kept beside SaltLine. The canonical
application is `apps/api` (a FastAPI service) and `apps/web` (a Next.js site
that calls it). The Flask application at the repository root is what they are
ported from, and still runs; `v2/` holds archived copies of it. Paths that begin
with `apps/web` are given in full, other paths in the sections on the canonical
application are under `apps/api/app/`, and those in the sections on the Flask
application are under the repository root.

- [Inventory](#inventory): the parts of the system and what makes them correct
- [Modules](#modules): what is modelled, and how it corresponds to the code
- [Runs](#runs): what TLC checks, on which instances, under which fairness
- [Proofs](#proofs): what TLAPS proves, and along which argument
- [Disagreements](#disagreements-between-the-code-and-its-documents)
- [Not modelled](#not-modelled) and [Plan](#plan)

## Inventory

### apps/api and apps/web

A forecast request passes these parts in order. All of `apps/api` runs in one
asyncio event loop, so a coroutine is interrupted only where it awaits; that is
the grain of every module of it here.

    browser -> apps/web route handler -> signed call -> forecast route
      -> resolve_location_id -> StationCatalogCache x3  (one lock per catalog)
      -> SnapshotCache                                  (one lock per location)
         -> assemble_forecast -> five providers at once, two more in turn
            -> HttpClient (timeouts, retries)
         -> score_conditions, build_hourly_outlook

Account data takes the same road as far as the signed call, then `/v1/me/...`
and PostgreSQL.

| Component | State | Operations | What is hard | What makes it correct |
|---|---|---|---|---|
| Snapshot cache (`infra/snapshot_cache.py`, `domain/forecast_cache.py`) | `_entries`, `_locks`; process memory | `get_or_refresh`, `force_refresh` | the lock is held across a fetch of many seconds; `now` is read before the wait, `fetched_at` under the lock, the fallback before the fetch; two TTLs; restarts | one refresh per location at a time; neither the cache nor its readers go back in time; only an eligible envelope is served; an outage shows the last envelope |
| Station catalogs and resolution (`providers/stations.py`, `providers/coastal_bounds.py`, `api/deps.py`) | per catalog `_stations`, `_fetched_at`, a lock | `get_or_refresh`, `resolve_location_id` | three calls gathered: the first exception ends the request but not its sibling calls; a failed fetch is cached as an empty catalog for a shorter TTL | never resolved on an expired catalog; prompt recovery after an outage; fetches are spaced |
| Forecast routes (`api/v1/forecasts.py`) | none | GET, POST `.../refresh` | they depend on the catalogs before they reach the cache that is to bridge an outage | forecasts made in an outage end with it |
| Forecast assembly (`domain/assembly.py`, `normalize.py`, `confidence.py`, `models.py`) | one call's results | `assemble_forecast`, `assess_confidence` | 5 + 2 sources fail independently; the fallback chain depends on several optional answers | the chain is used late; confidence means something |
| Scoring and outlook (`domain/scoring.py`, `timing.py`) | none | pure functions | thresholds ported by hand, missing inputs, times of day modulo 24 | agreement with what was ported; a worse sea never scores higher |
| HTTP client (`infra/http_client.py`) | the connection pool | `get_json`, `get_text` | a timeout per wait and not per call; retries while a lock is held above; the pool shared by all calls | every call ends, in a bounded time |
| Signed calls (`infra/internal_signature.py`, `api/internal_auth.py`, `apps/web/lib/internal-*.ts`) | the replay guard; process memory | sign, verify, consume a nonce, rotate keys | two clocks, restarts, repeated delivery | a call is served at most once while it is valid, and is served when it is prompt |
| Account data (`api/v1/preferences.py`, `saved_locations.py`, `account.py`; `apps/web/lib/auth.ts`) | `user_preferences`, `saved_location`, the account row | GET/PATCH preferences, GET/POST/DELETE saved locations, export, deletion | every statement is an await; two services delete in turn; concurrent first writes | rows belong to their owner and go with the account; PATCH changes what it names |
| Location search (`apps/web/app/components/location-search.tsx`) | query, results, timer, aborts | type, select, highlight, answers | answers out of order, an effect that skips once | the field shows the last query's answers |
| Preferences form, saved list (`apps/web/app/preferences`, `saved`) | component state | load, save, remove | late answers, failed optimistic removals | what has been removed stays so; the form never saves what it has not loaded |
| Service worker (`apps/web/public/sw.js`) | two caches per release | install, activate, fetch | releases, tabs, answers out of order | offline shows the last page seen, and no old conditions |

### The Flask application

gunicorn runs several processes with one request thread each. Each process also
runs a refresh worker and a notification poller, and keeps caches of its own over
one SQLite database; a pool of 30 threads makes forecasts.

| Component | State | Operations | What is hard | What makes it correct |
|---|---|---|---|---|
| Forecast cache, refresh queue, routes (`storage/cache.py`, `services/forecast_refresh.py`, `web/views.py`, `web/api.py`) | memory, a table, files; a queue and two sets | load, save, prune, enqueue, refresh, poll | three layers that are read and written without a lock; the worker and the request thread; two processes | one refresh per key; what was saved is shown; the loading page ends |
| Making of forecasts (`domain/forecast.py`) | one call's futures; the shared pool | `generate_forecast`, `get_marine_conditions`, `_attach_species_images` | calls given up on run on, hold threads and append to shared lists | every forecast is made, and names its sources |
| Personalized forecasts (`web/views.py`, `domain/forecast.py`) | dicts shared by two caches and two threads | `_render_forecast`, `personalize_forecast` | objects changed in place; a shared cache looked up by a key | each reader gets their own |
| Species ranking and legality (`domain/species.py`, `regulations.py`) | none | `build_species_ranking`, `classify_legality` | overlapping sets; rules in prose; the order of filter, gate and cut | what may not be kept is hidden; nothing better is left out |
| Lookups of regulations (`regulations.py`, `storage/reg_scraper.py`) | a table, pages kept by processes, a pending set | `lookup_regulation`, background refresh | two readings of a row, kept misses, overlapping scrapes | what is called live is; refreshes end |
| Notifications (`services/notifications.py`, `push.py`) | the log, subscriptions | `run_notification_check` | sends before the record; two pollers | one alert per location and day, as far as the record goes |
| Sessions and preferences (`web/auth.py`, `storage/sqlite.py`) | `users`, `profiles`, a cache of each per process | login, logout, change of password, save | writes empty only the own cache; forms merge what they read | verdicts and lost changes last at most a TTL |
| Catch log (`static/js/fishing_log.js`) | localStorage | add, edit, remove | an index used after a wait; tabs | a catch stays until it is removed |
| Profile and favorites of a device (`static/js/page.js`, templates) | localStorage, the row | load, toggle, save | every page posts back what it was rendered with | only an outdated page undoes a change |
| Score and timeline (`domain/forecast.py`) | none | `score_conditions`, `build_activity_timeline` | (the reference of the port) | monotone in wind and sea |

`PROJECT.json` lists every component with its status and, under `hazards`, each
place where the code is hard to test, with the properties that would notice it
going wrong.

## Modules

| Module | Models | Role |
|---|---|---|
| `SnapshotCache` | `SnapshotCache` and its use by the routes | component |
| `ForecastStore` | what the cache promises: each answer is one step on one register per location | abstract specification; `SnapshotCache` implements it |
| `StationCatalogs` | the catalog caches and `resolve_location_id` | component |
| `ForecastService` | the two forecast routes | composes `StationCatalogs` with `ForecastStore` |
| `ForecastAssembly` | `assemble_forecast`, `assess_confidence` | component |
| `Scoring`, `HourlyOutlook` | `score_conditions`, `build_hourly_outlook` of `apps/api` | operators |
| `LegacyScoring`, `LegacyOutlook` | the functions of the Flask application they were ported from | reference definitions |
| `LegacyPort` | both beside each other, while the wind freshens and the sea builds | composes the four |
| `HttpClient` | `BoundedHTTPClient` | component |
| `SignedCalls` | signer, network, verifier, replay guard, key rotation | component |
| `AccountData` | `/v1/me/...` and account deletion | component |
| `LocationSearch`, `AccountForms`, `ServiceWorker` | the search field, the preferences form and the saved list, `sw.js` | components |
| `LegacyRefresh` | the forecast cache, the refresh queue and the routes of the Flask application | component |
| `LegacyAlerts`, `LegacyAccounts` | the notification poller; sessions and preferences | components |
| `LegacyRegulations` | lookups of regulations | component |
| `LegacySpecies` | species ranking, legality, closures | operators, over months, rules and anglers |
| `LegacyGeneration` | the making of forecasts over the shared pool | component |
| `LegacyDashboard` | pages and alerts over the shared forecast objects | component |
| `LegacyLog`, `LegacyDevice` | the catch log; the profile and favorites of a device | components |
| `SnapshotCacheProofs`, `ForecastServiceProofs`, `ForecastAssemblyProofs`, `CallsProofs`, `BrowserProofs`, `LegacyProofs`, `LegacyForecastsProofs`, `LegacyPagesProofs` | | the theorems, one module for the components of each `MC` module |
| `MC*` | | the instances TLC checks |

An `MC` module that extends several components lets each behaviour exercise one
of them (`part`, `side`, `scope`, `load`); they share no state there, as they
share none in the code. A definition that begins with "mutant:" in its comment is
not part of the model: it is a plausible mistake in the definition after it, and
each property is known to fail under one of them.

### SnapshotCache

| Model | Code |
|---|---|
| `entries[k]` | `_entries`; of an envelope only `generated_at`, of a `CachedSnapshot` also `fetched_at` |
| `queue[l]` | the `asyncio.Lock` of a key with its waiters, first come first served; the head holds it |
| `pc`, `fetch` | where the coroutine is: before the lock, or awaiting `fetch()` with the local `now` and `fallback_entry` |
| `Call` | the route reads `now` and enters `get_or_refresh` or `force_refresh` |
| `Hit`, `StartFetch`, `FetchOk`, `FetchFail` | the code under the lock, cut at the await of the fetch |
| `Restart` | the process ends; everything above is memory |

An envelope generated later is newer; nothing else of it matters here.
Cancellation of a request task is left out: the server cancels handlers only
while it shuts down, which is `Restart`.

`ForecastStore` has no locks, queues or fetches. `SnapshotCache` refines it with
`stored <- entries`, `asking <- {c : pc[c] # "idle"}`, `answer <- reply`: an
answer takes effect when the lock is released, and what the caller had read
before its await is still true then. A started fetch that evicts is `Expire`.

### StationCatalogs and ForecastService

A catalog is `"full"` or `"empty"`; a full one lists a station near the point of
the resolution when it is in `Nearby`, so that distances are left out. `Resolve`
starts all calls of the gather; `Reuse`, `StartFetch`, `EndFetch`, `FetchRaises`
are one call under its lock; `Gate` is the end of the gather with the coastal
gate. `EndFetch` with `"empty"` is the degradation of a `ProviderError`; a JSON
body that does not parse raises instead, which ends the request while its other
calls go on (`outcome = "raised"` with `Active(c)`). From `HealthyFrom` on the
upstreams answer.

`ForecastService` is a resolution followed by the snapshot cache as
`ForecastStore` describes it: the route does not await between the two, so being
located and asking the cache are one step. `made` records of the cached forecast
on which catalogs its location was resolved and when its request arrived.

### ForecastAssembly, Scoring, HourlyOutlook

A reading is the set of quantities it reports, and a value shown is told by its
source; the numbers are left out, the order of the sources is not. `FetchEnds`
is one fetch of the gather, `EndGather`, `EndCoopsWind` and `EndGridpointWind`
the decisions after each await. `Envelope` has the statuses, warnings, shown
sources and the confidence with its points and thresholds as the code computes
them. `AgeSeen` adds the hours between the clock of the location and that of
`DEFAULT_TIMEZONE`, in which `fetch_water_temperature` reads the time of a
reading when it is given no zone.

`Scoring` takes knots, half feet, degrees and minutes, so that every threshold is
exact; all impacts are whole. `HourlyOutlook` counts activity in fractions of a
point fine enough for nothing to be rounded before the level is. `LegacyScoring`
and `LegacyOutlook` are translated from `domain/forecast.py` on their own, with
what the port leaves out (tides, the angler, the water quality) as further
arguments.

### HttpClient and SignedCalls

An attempt of a call in `HttpClient` is a row of waits: for the pool, the connection
and the TLS handshake (5 s each, `connect_timeout`), for the request to be written, and
for every piece of the headers and then of the body (10 s each, `read_timeout`, also
for the write). Each has its own timeout, so headers and body can last as long as they
have pieces. A connection kept alive skips the opening. Time passes only while no wait
is due. The size limit is looked at before the status, a retried failure sleeps for
twice as long as the last, and what is not retried ends the call. httpx is modelled
from the limits and timeouts it is given and the order of its waits; `MaxHead` stands
for its limit on the size of the headers. Three things of it are left out: interim
(1xx) answers, pieces of a compressed body that decode to nothing, and a connection
that closes between its being handed out and its use, after which httpx asks the pool
again.

`SignedCalls` has the clocks of the two services an `offset` apart, a network
that keeps every call and delivers it at any time, the verifier's checks in their
order (the guard reads the clock again), and a rotation of three restarts that
each lose the guard. The signature itself is left out: both ends compute the same
function of the same fields.

### AccountData, LocationSearch, AccountForms, ServiceWorker

Calls in `Slots` of `AccountData` take one step per statement or commit; `seen`
is what a call has read. Transactions are READ COMMITTED. A flush is one step with
the commit that follows, where PostgreSQL checks the constraints; SQLAlchemy
writes only the columns whose new value differs from the one it read (`Sets`).
PostgreSQL, SQLAlchemy and Better Auth are outside the repository and are modelled
as the code uses them. One nullable column stands for the four.

In `LocationSearch` a change of the query and the effect it runs are one step,
since React runs the effect before the next discrete event; requests, the timer
and aborts are steps of their own. `AccountForms` has the loads and saves of the
preferences form with their request numbers, and the removals of the saved list.
`ServiceWorker` has a navigation as four steps (asked for, answered, its answer
stored, shown; or fallen back from before the answer is stored), two releases with
their caches, and the network as an environment action; a response is the time it was
rendered. `viewed` remembers the latest rendering shown of each page, and `alone`
whether another tab was on its way to the page between the asking and the storing.

### The modules of the Flask application

`LegacyRefresh` has the three layers of `storage/cache.py` (memory, table, file)
and the two tables behind them; a process has one request thread, the notification
poller, which loads the anonymous forecast and makes it if there is none (`Check`,
`Alert`), and one refresh worker, whose steps interleave at every access to the memory
or the database. `Query`,
`Found`, `Pop`, `Fallbacks`, `Migrate`, `SaveRow`, `Remember` are the stretches of
a load or a save by either (`Loaders`), `Enqueue`, `Put`, `Take`, `Start`, `Finally` those of a refresh,
`Request`, `Poll`, `Reload`, `Respond` those of the routes and of the loading page.
`saved` and `disturbed` remember for each key what was saved last and whether
another thread was at work on it.

`LegacyGeneration` is `generate_forecast` where it waits: `Start` hands its calls to
the pool, `TakeCall` is a thread, `TrySource`/`EndMarine`, `EndTemperature`,
`EndOther` are the calls, `Receive` and `TimeOut` the forecast's waits in their
order. Calls given up on (`late`) go on, and add to the lists the forecast shares
with them. A value shown is told by its source.

`LegacyDashboard` has the forecasts as objects of a heap, since the caches hold
references and `_apply_wind_unit_preference` assigns to the object it is given; of
a forecast it keeps the unit its winds are written in and the unit they were in
when its score was made. The request thread and the poller (with the worker's
saves as `Generate(Nil)`) take one step per look at a shared cache. The key of the
personalized copies has the hour of the day (`HourOfDay`), which comes round again
while a stale forecast is still served, and not the units.

`LegacySpecies` is `build_species_ranking` with all it calls: profile filter,
score, threshold, stable sort, gate, cut, and the closures it collects. A rule's
text is the set of phrases and windows of months it holds, a window with the words
that announce it or none; `unread` are the phrases that forbid and that the code does
not look for.

`LegacyRegulations` has a lookup's two readings of the table (`ReadFresh`,
`ReadAny`), the scrape with the page a process keeps, failed writes and parsers,
the background refresh and the route that empties the table. What an agency
publishes is the number of its edition.

`LegacyAlerts` is one user's check by the pollers of two processes (look, e-mail,
push and record, crash). `LegacyAccounts` is one request per worker at a time over
the caches of users and preferences. `LegacyLog` is the catch log in the tabs of
one browser, with the waits for photos and for the user's answer as steps.
`LegacyDevice` is what a dashboard posts back, and the row it goes to.

## Runs

The first eight must hold, the other four must fail: each shows a disagreement
described [below](#disagreements-between-the-code-and-its-documents).

| Run | Instance | Shows |
|---|---|---|
| `snapshot_cache` | `timed`: 2 callers, 1 location, TTLs 1 and 2, clock to 4; `crowd`: 3 callers, 2 locations, fetches of one of which may hang | one refresh per location, monotonic reads, what fresh means, the refinement of `ForecastStore`, and that callers off the hung location are answered |
| `forecast_service` | `resolutions`: 2 at a time; `requests`: whole ones, one after the other; 2 catalogs, TTLs 3 and 1 (1 and 2 for forecasts), healthy from 2, clock to 4 | no expired catalog is used, recovery from an outage, when degraded forecasts end, spacing of fetches |
| `forecast_assembly` | ages 1, 2, 5; 0 or 3 hours west; 10, 25, 50 miles; every set of stations and of answers; 14 winds by 11 waves with 205 signals or 734 anglers; 60 days; 4 species, 369 rule books, 2 skies, 12 months; all sets of methods | high confidence, the last resort, the two ports, monotone scores; the species recommended and hidden |
| `calls` | out: 2 calls, 2 retries, 1 connection, headers in up to 2 pieces and a body of 1, timeouts 1; in: 2 ids, validity 2, skew 3, offsets -1, 0, 3; regulations: 2 processes, 3 editions of which 2 list the species, TTL 1, 3 lookups | bounded calls; served once, and when prompt; what is called live, and the end of refreshes |
| `browser_and_accounts` | 3 searches; 3 visits by 2 tabs over 2 releases; 3 loads, 2 saves, 3 spots; 2 users, 2 calls at once, 2 saves; Flask's 2 workers and 2 browsers or 2 forms, 3 requests, TTLs 1 | the field's answers, what is shown offline, what a PATCH changes and a deletion leaves; how long old caches mislead |
| `legacy` | 2 processes, the anonymous forecast, 2 requests or checks of the poller, 1 restart, or 1 process, 2 keys, 3 requests; 2 pollers, 2 spots, 3 checks, 2 days | one refresh per key, what saves may be lost, the loading page ends; the log of alerts |
| `legacy_pages` | 2 tabs and 2 catches, or 1 tab and 3 of which 2 are kept, 2 waits; 2 processes, 2 types, 2 grounds, 2 pages opened, 2 edits | catches are kept; what undoes a profile |
| `legacy_forecasts` | a forecast of 2 marine sources and 3 others, or 2 forecasts of few, over 2 threads; 3 readers, a cache of 1 page, request thread and poller, a day of 2 hours, 4 events | every forecast is made and names its sources; each page is its reader's; where misread winds come from |
| `age_of_the_reading` | 3 hours west | the confidence misjudges the age of a reading |
| `zero_bag` | as `forecast_assembly` | a species of which none may be kept is recommended |
| `excluded_pages_are_kept` | as `browser_and_accounts`, with the path `/saved` | a page that is said to be left out is kept |
| `cache_mutated` | as `legacy_forecasts` | a page in miles per hour changes a cached forecast |

**What each run checks.** Each property has its statement, and the code it is about, in
the comment before it.

| Run | Module, configuration | Properties |
|---|---|---|
| `snapshot_cache` | `MCSnapshotCache`, `MCSnapshotCache.cfg` | `TypeOK`, `SingleFlight`, `ReadsAreMonotonic`, `FreshIsLiveOrYoung`, `ImplementsStore`, `AnsweredOffHungKeys` |
| `forecast_service` | `MCForecastService`, `MCForecastService.cfg` | `ResolvedOnCurrentCatalogs`, `RecoversAfterOutage`, `DegradedForecastsEnd`, `FetchesAreSpaced` |
| `forecast_assembly` | `MCForecastAssembly`, `MCForecastAssembly.cfg` | `HighIsWellFounded`, `FallbacksAreLastResort`, `PortedScoreAgrees`, `OutlooksAgreeInEqualWind`, `WorseSeasNeverScoreHigher`, `OnlyUnreadRulesSlipThrough`, `NothingBetterIsLeftOut`, `MoreMethodsNeverHide` |
| `age_of_the_reading` | `MCForecastAssembly`, `MCForecastAssemblyAge.cfg` | `AgeIsTheReadings` |
| `browser_and_accounts` | `MCBrowser`, `MCBrowser.cfg` | `FlyingForTheField`, `ForecastsShownAreYoung`, `CopyIsTheLastSeen`, `OnlyOverlapLeavesRows`, `OmittedFieldsUntouched`, `VerdictsLagBriefly`, `OnlyRecentChangesAreUndone` |
| `legacy` | `MCLegacy`, `MCLegacy.cfg` | `OneRefreshPerKey`, `OnlyOverlapShowsOlder`, `AlertsMatchTheLog`, `WaitingPageEnds` |
| `calls` | `MCCalls`, `MCCalls.cfg` | `CallsAreBounded`, `ServedOnce`, `PromptCallsAreServed`, `LiveIsCurrent`, `RefreshesEnd` |
| `legacy_pages` | `MCLegacyPages`, `MCLegacyPages.cfg` | `CatchesAreKept`, `OnlyOutdatedPagesUndo` |
| `excluded_pages_are_kept` | `MCBrowser`, `MCBrowserListed.cfg` | `OnlyTheListedAreKept` |
| `legacy_forecasts` | `MCLegacyForecasts`, `MCLegacyForecasts.cfg` | `CreditsMatchTheForecast`, `MisreadOnlyAfterMphPage`, `GenerationsEnd`, `PagesAreForTheirReader` |
| `zero_bag` | `MCForecastAssembly`, `MCForecastAssemblyBag.cfg` | `ZeroBagIsNeverShown` |
| `cache_mutated` | `MCLegacyForecasts`, `MCLegacyForecastsMutated.cfg` | `CachesAreNeverMutated` |

**Why the bounds are enough.**

- *Caches of `apps/api`.* Three callers give a holder of the lock, a waiter whose
  request is older than the holder's entry and one that arrives in between; keys
  share nothing, so one suffices where the question is not whom a key can block.
  The clocks run past both TTLs, counted from a fetch that itself lasted, so that
  fresh, stale and expired entries and each boundary between them occur. In
  `forecast_service` the clock passes the recovery by more than the negative TTL,
  one catalog can raise and one can only degrade, and the second caller meets the
  calls left by a failed gather.
- *Pure functions.* Winds, waves, ages, distances, temperatures and times of day
  are the boundaries of the classes with a value on their other side. A day's
  events lie on whole and half columns and around midnight. Each of the signals,
  and each part of an angler's profile, takes all its values, with the others plain
  or near a limit of the score; the proofs are for all combinations. The rule books
  have one rule for each verdict and way to write it, those the code does not read
  included (months alone, "often closed", "prohibited from retention"), with windows
  within a year and over its turn.
- *Calls.* Two retries have two different backoffs; one connection for two calls
  makes one wait for the other, retries included. The validity, the skew and the
  offsets reach each side of each of the verifier's checks.
- *Browser and accounts.* A third search is one that is typed while an older answer
  is under way and a newer one has landed. Two calls at once are a race for a row,
  and identifiers are never reused, so two saves show a save after a deletion.
- *Flask application.* Two processes suffice to have the caches differ, two threads
  of one to have them overlap, three requests to save, change and look again. Two
  threads for the pool are both held by late calls while a third waits. A cache of
  one page (64 in the code) is evicted from by two threads. A day of two hours ends
  within the instance, so that an hour of it comes again.

Symmetry is used only where safety alone is checked. Deadlock is not checked where
a bound (visits, requests, events) or the end of what is modelled (an account, a
forecast) stops an instance.

**Fairness.** Safety needs none. The liveness properties assume:

- `snapshot_cache`: the event loop keeps running a task that can run, and an
  upstream call ends, since `HttpClient` bounds it (`CallsAreBounded`), but for
  those of `HungKeys`. Weak fairness suffices because the lock is a queue: a caller
  at its head stays there until it moves.
- `calls`: timers fire and the executor of a process runs what it is given.
- `legacy`: the threads of a process run, and the browser's own timers poll the
  loading page.
- `legacy_forecasts`: the pool's threads run, each call ends by the timeouts of its
  requests, and a forecast under way goes on, by its own timeouts.

No fairness is put on new requests, on clocks, on restarts, or on a fetch's
succeeding.

**Stated, and run by no configuration.** `RequestsEnd` (`ForecastService`),
`CallsEnd` (`HttpClient`), `NeverEmptyAsReal` and `RemovedStaysRemoved`
(`AccountForms`) and the type invariants of the modules without proofs hold on the
same instances. `EditsAreSearched`, `ConsentIsTheUsers`, `MissesGoToTheSnapshot`
and `NoForeignAverages` do not, as their comments say, and are described below.

## Proofs

TLAPS proves the following for all values of the constants, from the named
assumptions of each module (among them: `TTLAssumption`, TTLs are naturals ordered
as the configuration has them; `CatalogsAssumption`, some gating catalog has a
station near the point; `TimeAssumption`, backoffs double; the offset and the delay
of a prompt call are within the skew and the validity).

| Theorem | Establishes |
|---|---|
| *`SnapshotCacheProofs`* | |
| `Invariance`, `TypeCorrectness` | the inductive invariant, and types |
| `RefreshIsSingleFlight`, `MonotonicReads`, `FreshIsFresh` | `SingleFlight`, `ReadsAreMonotonic`, `FreshIsLiveOrYoung` |
| `FallbackStaysCurrent`, `SnapshotsFollowRequests`, `CacheNeverGoesBack`, `OutageKeepsForecast`, `FallbackOfGetIsEligible` | `FallbackIsCurrent`, `SnapshotsInRequestOrder`, `NeverReplacedByOlder`, `ErrorOnlyWhenNothingCached`, `GetFallbackIsEligible`, which no run lists |
| `Refinement` | `SnapshotCache` implements `ForecastStore` |
| *`ForecastServiceProofs`* | |
| `CatalogsInvariance`, `CatalogsTypeCorrectness`, `LocksAreQueued`, `CatalogIsSingleFlight` | the inductive invariant, types, `LockQueues`, `OneFetchPerCatalog` |
| `ResolvedOnCurrent`, `OutageRecovery`, `FetchesStaySpaced` | `ResolvedOnCurrentCatalogs`, `RecoversAfterOutage`, `FetchesAreSpaced` |
| `DegradedForecastsGo` | `DegradedForecastsEnd`, of the catalogs and the cache together |
| *`ForecastAssemblyProofs`* | |
| `AssemblyIsTyped`, `FallbacksComeLast`, `HighConfidenceIsEarned` | types, `FallbacksAreLastResort`, `HighIsWellFounded` |
| `ScoreIsPorted`, `WorseSeasScoreLower`, `OutlookIsPorted` | `PortedScoreAgrees`, `WorseSeasNeverScoreHigher`, `OutlooksAgreeInEqualWind` |
| `MoreMethodsReachMore`, `UnreadRulesSlipThrough`, `ListsHoldTheBest` | `MoreMethodsNeverHide`, `OnlyUnreadRulesSlipThrough`, `NothingBetterIsLeftOut` |
| *`BrowserProofs`* | |
| `AccountDataIsTyped`, `PatchesKeepToTheirFields`, `PatchesTakeEffect`, `WipesAreComplete` | types, `OmittedFieldsUntouched`, `PatchTakesEffect`, `OnlyOverlapLeavesRows` |
| `SearchTypes`, `SearchesAreForTheField` | types, `FlyingForTheField` |
| `WorkerTypes`, `ShownForecastsAreYoung`, `CopiesAreTheLastSeen` | types, `ForecastsShownAreYoung`, `CopyIsTheLastSeen` |
| *`CallsProofs`* | |
| `HttpTypeCorrectness`, `CallsStayBounded` | types, `CallsAreBounded` |
| `SignedTypeCorrectness`, `ServedAtMostOnce`, `PromptMeansServed` | types, `ServedOnce`, `PromptCallsAreServed` |
| `LiveAnswersAreCurrent` | `LiveIsCurrent` |
| *`LegacyProofs`* | |
| `RefreshesAreSingle`, `OlderOnlyByOverlap` | `OneRefreshPerKey`, `OnlyOverlapShowsOlder` |
| `AlertsTypes`, `AlertsMatchLog` | types, `AlertsMatchTheLog` |
| `AccountsKeepRecentChanges`, `SessionVerdictsLagBriefly` | `OnlyRecentChangesAreUndone`, `VerdictsLagBriefly` |
| *`LegacyForecastsProofs`* | |
| `CreditsAreTrue` | `CreditsMatchTheForecast` |
| `MisreadsFollowMphPages`, `PagesAreTheReaders` | `MisreadOnlyAfterMphPage`, `PagesAreForTheirReader` |
| *`LegacyPagesProofs`* | |
| `CatchesStay` | `CatchesAreKept` |
| `DeviceTypes`, `OutdatedPagesAloneUndo` | types, `OnlyOutdatedPagesUndo` |

**`SnapshotCache`.** None of its properties is inductive. Single flight follows from
the lock only when one knows who may be in its queue, so `QueueInv` says that the
queue of a key holds the callers that are not idle, each once, *in the order in
which they asked*, and that who fetches is its head. The order is what the time
properties need: an entry carries the `asked` of the caller that fetched it, and by
FIFO everyone still queued asked later. `OrderInv` adds the same of what has been
handed out, across evictions and restarts, and that what is cached during a fetch is
older than the fetch.

**`StationCatalogs`, `ForecastService`.** A failed gather keeps its calls in the
queues, so the queues are related to `task`, not to `outcome`. `TimeInv` dates what
is cached and returned, an empty catalog before the recovery; `CallInv` says that a
catalog under refresh has expired. Recovery is then arithmetic: an empty catalog in
the hands of a request that came `NegativeTTL` after the recovery would have been
dated before the recovery and still be current at the request. The service adds that
a degraded forecast was asked for while its catalogs could still be empty.

**`ForecastAssembly`.** `AssemblyInv` says what each answer may be once it has been
returned (`Returned`), asked for (`Asked`) and at the start (`Started`). High
confidence needs 85 points; that no source is down then is a count of penalties over
a finite set, whose finiteness is shown by a surjection from the sources.

**`LegacyPort`.** The tables of thresholds are given as chains of conditions by
lemmas of their own; both scores are then sums of the same parts. Each part falls as
wind and waves rise, and so do sum and clamp.

The outlooks are sums over the periods and tides of a day, which `SumFunction`
defines by recursion. The library's induction takes a predicate as its parameter,
which none of the provers can instantiate; `NatsByInduction` takes a *set* of naturals
in its place, from the library's well-founded order. By it a function that solves the
recursion exists (`SumsExist`), and the sum is a natural number (`SumIsNat`). The two
days' activities are then the same sums in different units (`ActivitiesAgree`: 160ths
against fortieths of a point), their best hours the same (`BestHour`, by the same
induction), the rounded quotient is not changed by a common factor
(`RoundingScales`), and `int()` taken twice is zero to two below `round()`
(`RoundingRaisesByTwo`), where twice rounding down could lose one level each.

**`LegacySpecies`.** What a filter reaches grows with the sets of each method
(`ReachedByMore`). A list that was cut is full: `PlacesAre` numbers the species that
bite by `Before`, a total order, and `FullWhenCut` shows that the numbering is a
bijection, so that those of the first places are as many as the list is long.
`LegalIsKept` follows the order in which a rule's texts are read. The proof found a
property that was stated too strongly and held only because the instance had no such
rule: one with both an open window and "open year-round", or a closed window besides.
The property now says what the code does of them, and the instance has both.

**`AccountData`.** `Typed`, with who may change a row of `user_preferences`, and
`Swept`: while no call overlaps a wipe, the tables hold nothing of the account from
the statement that deleted it.

**`LocationSearch`, `ServiceWorker`.** `FieldInv`: what flies is by the last
controller and for the field, and while the timer runs nothing flies. `WorkerInv`
dates what is rendered, kept and shown. A navigation that is alone will not be behind
what its path has shown, since whatever was shown before it began was rendered before;
one whose answer is stored finds that copy, or one put there later (`NavOK`), so that
showing it leaves no copy behind by more than it may be.

**`HttpClient`, `SignedCalls`.** `TimeFrom[a]` is the longest the attempts from `a` on
can last, and `Gone` what the waits of an attempt up to the present one can have
lasted; `WithinBudget` says that what a call has spent and what its present wait
may still take leave room for the rest. `GuardInv` says that what was served and is still
valid is in the guard, `KeyInv` that the signer's key is among the verifier's at each
step of a rotation.

**`LegacyRegulations`.** `Since` dates an edition: it was published when it was
scraped and is none that a refresh has thrown away. A scrape that is about to be
saved has it for the time of the scrape, a row for one unit before it was written.

**`LegacyRefresh`.** `KeyInv` follows a key from the request that queues it through
`enqueued`, the queue, the worker's hand and `refreshing`: it is in one of them at a
time, across the gaps in which neither set has it. `OverlapInv` is about the keys
nobody overlapped on: their table and memory have nothing older than any process has
saved (`Agreed`), and a thread at work on one has what it looked up, at each of its
steps (`Claim`).

**`LegacyAlerts`.** What was told of an entry is counted by the pollers that are done
with it (`Spent`) and the tellings that could not be recorded (`lapses`). Only the
step of a poller itself changes whether it is done, so one telling is one more of
the count.

**`LegacyAccounts`.** `VersionInv`: a cached version that is not the user's is from
before the last change. `PrefsInv` says of every copy of the preferences, in a
process, on a page, in a request, that each field is the profile's or was changed
within `PrefsTTL` of what the copy is based on; the copies are told apart by whose
change it may be.

**`LegacyGeneration`.** The calls of a forecast interleave with its turns. For each
source the invariant relates what its call has found, what it has credited and what
the forecast shows of it (`MarineInv`, `TemperatureInv`, `OtherInv`), where a call
given up on (`late`) may go on crediting; `AskedOnce` is what makes the answer of the
temperature unique.

**`LegacyDashboard`.** Forecasts are objects that the caches and threads share, so the
invariant is of a heap: what `mem` refers to is made for no one (`HeapInv`), an entry
of the cache is made for its key (`EntriesInv`), at an hour that is the key's by its
place in the day, a thread has what its step says and the hour it was asked
(`ThreadsInv`), and a forecast converted to miles per hour has been on a page
(`MphInv`). Objects are never freed, which makes references stable.

**`LegacyLog`, `LegacyDevice`.** An entry is known by the catch it tells of: a tab that
adds one holds it alone (`AddsItsOwn`), one that edits has its own entry's text unless
entries have moved under it (`EditsItsOwn`), and a logged catch is in exactly one
entry (`HasOneEntry`). `DeviceInv`: until an outdated page has posted, the row and
every page that is not outdated have the profile the user meant.

**Only model-checked.** Every invariant and every action property of the passing runs
has its theorem. Liveness (`AnsweredOffHungKeys`, `WaitingPageEnds`, `RefreshesEnd`,
`GenerationsEnd`) needs `ENABLED`, which the prover does not reason about, and stays
with TLC, as do the properties that the code does not have.

## Disagreements between the code and its documents

### Shown by a run

| Run | The code | What it is held against |
|---|---|---|
| `age_of_the_reading` | `_fetch_water_temp` (`domain/assembly.py:330`) asks for the water temperature without the location's time zone: a reading from the Pacific is taken to be hours older than it is | `providers/noaa_coops.py:52` |
| `zero_bag` | a bag limit of the number 0 is read by `str(... or '')` as no text (`regulations.py:195`), and the species is legal | `regulations.py:464`, `:505` |
| `excluded_pages_are_kept` | the prefix `/` of `PAGE_CACHE_PATHS` begins every path, so every page is kept (`apps/web/public/sw.js:83`) | `sw.js:36-38` |
| `cache_mutated` | the converted winds are assigned to the cached forecast (`web/views.py:166`) | `web/views.py:156-157` |

### Shown by TLC, not listed as a run

Each of these definitions is in its module; naming it as an invariant or a property
of the module's run gives the counterexample.

- `EditsAreSearched` (`LocationSearch`): "Selecting a result is not a query edit, so
  it skips search exactly once" (`location-search.tsx:73-74`). When the field already
  holds the name that is selected (`:125`) the effect does not run, and the skip is left
  for the next edit.
- `MissesGoToTheSnapshot` (`LegacyRegulations`): "stale_data == {} means a previous
  scrape found nothing; skip to snapshot" (`regulations.py:717`, also
  `reg_scraper.py:1580-1581`). An expired `{}` is given a `fetched_at` (`:1619`), is
  something then, and is the answer.
- `ConsentIsTheUsers` (`LegacyDevice`): pages post the profile they were rendered with
  (`page.js:354`), and with it a consent to share catches (`schemas.py:322-323`) that
  the user has withdrawn since.
- `NoForeignAverages` (`LegacyGeneration`): after a timeout the forecast of a
  location gets the generic monthly averages (`forecast.py:2847-2865`), which are for
  "when no location is set" (`:133-134`).

### Noticed while reading

In `apps/api` and `apps/web`:

- A call that was authenticated before the account is deleted may insert its row after
  `delete_account_data` (`account.py:129`): `apps/web/lib/auth.ts:123` says "so no
  per-user data ever outlives the account that owns it". The row in
  `analytics_event` that names the user stays as well (`account.py:106`).
  `OnlyOverlapLeavesRows` is what does hold.
- Two first PATCHes of a user both insert; the second is a 500
  (`preferences.py:71`). The first GET creates no row, although
  `domain/preferences.py:77` says it does. `units: null` is not refused by the schema
  and fails on the column (`domain/preferences.py:99`).
- A location's id is saved as spelled, not as resolved, so two spellings of one point
  make two rows and no 409 (`domain/saved_locations.py:25`). One row whose catalogs are down fails the list as
  a whole (`saved_locations.py:62`), which keeps its connection meanwhile.
- A forced refresh that fails falls back to an entry of any age
  (`snapshot_cache.py:36`, `:155`, `:161`), and each queued caller repeats a fetch that
  has failed (`:47`). An unexpected body raises something other than a
  `ProviderError` and has no fallback (`forecast_cache.py:14`).
- While a catalog is down a point whose forecast is cached is refused, although a
  provider's failure "must not blank the forecast" (`docs/CANONICAL_ROADMAP.md:46`).
- The comment at `http_client.py:213-222` counts `PoolTimeout` among the connection
  errors; it is a timeout, and a `ProviderTimeoutError`. The size limit is applied before the status
  is looked at (`:184`).
- A signature is valid for 20 s at the signer and 30 s of skew are allowed at the
  verifier (`internal-api-client.ts:57`); a restart forgets the nonces, which
  `ServedOnce` allows for.
- `scoring.py:162` says the score is unknown if neither input is available, `:165`
  makes it so if either is missing. The outlook's thresholds of wind are converted
  from miles per hour to knots (`timing.py:86`), those of the timeline it is ported
  from are not: in the winds between, the two differ. The monthly average is that of
  the UTC month (`assembly.py:453`), and a gridpoint's wind may be announced beside
  the direction of another source (`assembly.py:583`).
- The save button of the preferences form stays busy after a rejected fetch
  (`preferences-form.tsx:74`).
- In `sw.js` a failing `put` is taken for being offline. Of two tabs on their way to
  one page the slower can store the older answer last; the copy is then behind what
  has been shown, by the time an answer is under way at most (`CopyIsTheLastSeen`).

In the Flask application:

- The account form merges its one flag into the alert settings its process has cached
  for up to five minutes, and wipes what another process has saved since
  (`web/auth.py:451-454`); the alerts panel posts that flag as it was rendered. `save_preferences` empties its cache before it writes
  (`sqlite.py:694`), so a reader in between caches the old row.
- A session ended in one process is known to another for up to 15 s
  (`app.py:190`; `VerdictsLagBriefly` bounds it).
- Alerts are decided on stale forecasts (`notifications.py:359`), and two processes
  each send one (`:4-6`).
- `_is_refreshing` is read after the forecast was not found (`views.py:442`): if the
  refresh ends in between, the request makes the forecast once more.
- A process keeps the first page it has fetched from some states for good
  (`reg_scraper.py:1538`); each later scrape reads it again and stamps the result as
  new (`:298-306` trusts the stamp).
- The catch log finds what it edits by its index (`fishing_log.js:318-324`): removing an
  entry above the one being edited, in the same tab, leaves the form saving over the
  neighbour, which keeps its own date and photos, or adding the catch a second time. A
  press whose photos are still being read saves over whatever is being edited by then,
  and a second press adds a second entry. A removal writes back the list from before
  its question. `CatchesAreKept` excepts these three and nothing else.
- Favorites are posted as objects and refused with a 400 (`schemas.py:213`): a
  device with a favorite syncs nothing. Favorites removed in one place are seeded
  again from the other, and the keys in `localStorage` are not the user's.
- A single change to `condition_tolerance`, `primary_goal`, `preferred_times`,
  `tide_preference` or `catch_release` personalizes nothing, by the early return at
  `forecast.py:3511-3520`; the best day reads a score that is computed later; closures
  are never personalized. The cache of personalized copies is keyed by the hour of the
  day (`forecast.py:91`): while a forecast is served stale, a page may be the copy of the
  day before, and it may be in the units of the request that made it.
- Two threads that evict may raise `KeyError`. The source "NOAA currents predictions"
  is credited for an observation. "Prohibited from retention", "often closed" and dated closures are
  not read as closed, months without a word for them (`regulations_data.json:3094`) are
  open the whole year, and a species with no rule is shown without a status while one
  whose rule is unknown is hidden.

## Not modelled

**Out of the prover's reach.** Liveness under fairness and `ENABLED` stay with TLC. No
module uses `RECURSIVE`. Of what folds compute, the sums of the outlooks are proved
about; `LegacyLog`'s fold only bounds the model.

**Abstracted data.** Bodies and their parsing, distances, units, normalization,
wording. Where a property depends on a conversion it is modelled by what it does: the
limit that is read as text, the clock that is read in another zone, the winds that
are converted twice.

**Left out of `apps/`.** Cancellation of a handler other than by the end of its
process; analytics (one insert per event whose failure is swallowed; nothing reads
the rows); astronomy (real arithmetic without state); migrations; the route
handlers and pages of Next.js, which pass a call on; the connection pool.

**Left out of the Flask application.** The tables of species, locations and
regulations, and the prose made of them (baits, rigs, tips, the spawning report);
the parsers of weather sources and of the states' pages; the builders of a
forecast's text; rate limits; registration, deletion, lockouts and the e-mail tokens;
the response cache of `services/http_client.py`; astronomy; the layout editor, the
lure bag, the camera, the statistics of the log, maps and trip plans.

**How much of the code this is.** Nearly half of the repository's implementation
lines are `v2/`, copies of the files the Flask application runs; much of the rest is
tables (`domain/species.py`, `locations.py`) and the prose and parsers named above.
They have no state and no steps, and a module about them would only repeat them. What
is modelled is the control: what waits, what is shared, what may fail or be lost, and
the decisions taken from it. It is about a tenth of the lines.

## Plan

Done: the path of a forecast through its caches and its assembly, account data, the
HTTP client, signed calls, scoring, the browser's parts; of the Flask application the
caches and queues, alerts, accounts, regulations, the log and the profile of a device,
making, ranking and personalizing forecasts. Left, in this order:

1. Proofs of what is stated and run by no configuration: `NeverEmptyAsReal` and
   `RemovedStaysRemoved`.
2. Registration, confirmation and reset of `web/auth.py`: tokens used once, while two
   processes cache the user; the lockout counters.
3. The rate limits of the Flask routes, per process, against the limits the routes state.
4. `ConnectionPool`: `list_saved_locations` holds a connection of 5 + 10 while it
   resolves its rows over the network.
5. The server's copies of the log, and the statistics computed of them.
6. The cache of species images and the response cache of `services/http_client.py`.
