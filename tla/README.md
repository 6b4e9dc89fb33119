# Verification of proton-cal

TLA+ models of proton-cal, a command-line client and MCP server for Proton
Calendar, with the TLC runs that check them and the TLAPS proofs about them.
Source references are to `src/`. `PROJECT.json` lists the components, the runs,
the seeded faults each property is tested against, the hazards the properties
are for, and, definition by definition, the lines each one models.

## The system

Many short commands and a few long-lived MCP servers share three things: a
session at Proton's API, a configuration directory, and the calendars.

| Component | State | Operations | Interacts with |
|---|---|---|---|
| session store (`pkg/config/config.go`) | `session.json`, its lock | Load, Save, Refresh, SetKeyPass, Clear | every process, through the lock |
| API client (`pkg/papi`) | cached tokens | Do: 401 → refresh once; 429 → wait | session store, server |
| login, logout (`pkg/auth`) | - | authenticate, save tokens, add passphrase; clear, drop cache, revoke | session store, cache, server |
| locked scope (`pkg/auth`) | scope of the session at the server | unlock, run, lock again | API client |
| bootstrap cache (`config/cache.go`, `calsvc/cacheapi.go`) | `cache.json`, a snapshot per process, served marks | Get, Put, Delete, ClearCache | API client, service |
| keychain (`pkg/calendar/keys.go`) | unlocked user and calendar keys | Unlock, Invalidate | cache, service |
| service (`calsvc/service.go`) | calendar list, default, keychain | resolve a selector, run with access, heal, replay | all below |
| event writes (`event/smart.go`, `write.go`) | the server's rows | SmartDelete, SmartUpdate, Create | server |
| event queries (`event/wire.go`, `recurrence`) | - | windows, pages, expansion | server |
| iCalendar codec (`ical`, `icaltime`), ICS export | - | build, patch, parse, fold, escape | event reads and writes |
| calendar management (`calsvc/calendar_ops.go`) | the server's calendars | create, update, delete | locked scope, service |
| frontends (`cli`, `mcpserver`), rendering | - | parse flags, print | service |

What is hard here:

* **Concurrency.** Processes share `session.json` and `cache.json`; goroutines
  of one process share a client, a cache snapshot and a keychain. Refresh
  tokens are single-use, so two refreshes must never race.
* **Failure in the middle.** A refresh whose answer is lost, a crash between a
  rotation and its save, a login that stops before its passphrase, a deletion
  that stops between its two requests. The server keeps no transactions across
  requests, does not cascade deletes, and an update replaces the whole row.
* **Stale state.** Cached calendars, keys and tokens are used until something
  fails; then exactly one retry with fresh ones is allowed.
* **Retries of what was done.** A reply may be lost after the request was
  carried out, and the user repeats the command.

What makes each component correct: the session is one chain of token
generations and only a dead session asks for a new login; cached responses are
the session's own; one retry per stale item, never on the wrong calendar;
a series shows each occurrence once, as its last successful edit left it;
queries lose and repeat nothing; the codec preserves what it does not touch.

## Modules

| Module | What it is |
|---|---|
| `SessionChain` | what session.json promises: one chain of token generations per login |
| `TokenRefresh` | the processes, their requests, the session file, its lock and the server's session |
| `TokenRefreshProofs` | its inductive invariant and the proofs of its properties |
| `BootstrapCache` | cache.json, its lock, the processes' snapshots, logins and logouts |
| `BootstrapCacheProofs` | its inductive invariant and the proofs of its properties |
| `KeyHealing` | the keychain of one process, what it was served from the cache, the retries with fresh keys, settings writes |
| `KeyHealingProofs` | its inductive invariant, that what came from the cache can be healed, and that settings writes are seen |
| `KeyHealingRetries` | the proof that stale cached responses are retried |
| `Agenda` | what the operations on a series do to the calendar a user sees |
| `EventSeries` | the rows of a series and SmartDelete/SmartUpdate, request by request |
| `EventSeriesProofs` | its inductive invariant; one row per occurrence, and no other's rows removed; that it implements `Agenda`, that its successes are complete, and that edits are not orphaned |
| `CalendarResolution` | from a selector to a calendar, the replay after "not found", creating, changing and deleting calendars |
| `CalendarResolutionProofs` | its inductive invariant and the proofs of its properties |
| `EventQuery` | windows, pages and expansion while other clients change events |
| `EventQueryProofs` | its inductive invariant and the proofs of its safety properties |
| `RecurrenceRules` | times and recurrence rules as operators: what is built, what is refused |
| `EventRecord` | what an update, a split and a deletion do to the content of an event |
| `EventCards` | the content of the rows: cards, patches, reading, export |
| `EventCardsProofs` | that rules built from options are ones the server supports, and what is checked of raw ones; the invariant of the rows, the proofs of their safety properties, and that each step is one of `EventRecord` |
| `MC...` | constants, symmetry and initial states for TLC |

### TokenRefresh

State: the server's view of each login (`status`, the newest token generation
`gen`, whether its access token has `expired`), the `file`, the `lock`, each
process (`proc`, its client's tokens `cached`) and each request (`req`).
A pair of tokens is known by its generation. `inflight` and `lost` are history:
which refresh requests may still arrive at the server, and which rotations
never reached the file.

`Client.Do` is one record per request: `Start` takes the process's tokens,
`Served`/`Unauthorized`/`UnauthorizedAgain`/`Throttled`/`Fails` are the
outcomes of `doOnce`, `via` is the code's `refreshed`. `SessionStore.Refresh`
is `GiveUp`, `RefreshRefuse`, `RefreshAdopt` or `RefreshRotate`; the rotation
then takes `Rotated`/`RotateRejected`/`RotateUnanswered` and
`RefreshSave`/`RefreshSaveFails` with the lock held, and `SetSession` after it
is released, so requests of one process interleave between saving and adopting.
`Login` is `Authenticate`, `LoginSave`, any number of requests and `SetKeyPass`;
`Logout` is `LogoutLoad`, `LogoutClear` and one request. `Exit` may happen at
any point: the operating system drops the lock, unsaved tokens are lost, and a
refresh that was sent may still be served (`LateRotation`).

Loading, saving and clearing hold the lock for one local read and write, so
each is one action that needs the lock free. `writeFileAtomic` renames, so a
crash leaves the old file or the new one. Left out: file-system errors on
reading, and a rotation answer with another UID (an error in the code).

### BootstrapCache

State: the login in session.json, cache.json (`doc`), its lock and what the
holder loaded (`work`), and each process's scope and snapshot. An entry is the
login it was fetched with. `Cache.update` is `UpdateBegins` (lock, reload) and
`UpdateWrites` or `UpdateWriteFails`; `UpdateLockFails` is its path without the
lock. `ClearCache` needs no lock, as in the code. A hit only reads the snapshot
and is no action; what it means to the process is in `KeyHealing`.

### KeyHealing

State: the server's `version` of each response (the account's user and
addresses as one, and each calendar's bootstrap) and the first version with the
keys in force (`keysOf`); the process's snapshot of the `cache` and cache.json
(`file`); the `served` marks; the `keychain`, its mutex `kcMu`, and the keychain objects (`chains`) that
a request may still hold when the service has dropped them; each goroutine
(`req`). A response in a keychain is its version and whether it came from the
cache, which the code does not keep: `HealableKeychain` relates it to the marks.

A request walks through `keychainLazy` (`KeychainHave`, or `KeychainBuild` with
the mutex held until `UnlockedAccount`), `Keychain.Unlock` (`OpenHave`,
`OpenMiss`, `UnlockedCalendar`) and its use (`UsedWell`, `Degraded`).
`cachedAPI.Get` is `GetHit` and `Mark`, or `Fetched` and `Put`: other requests
come in between. A failure leads to `Delete`, `Unmark` and, but for
`keychainLazy`'s own retry, `DropKeychain`, once each for `again` (keychainLazy),
`healed` (unlockCalendar) and `attempt` (withAccess). Every store or deletion is
`Update`, which is as best effort as `Cache.update` (cache.go:104-119): without the
lock only the snapshot changes; with it the snapshot is what the file has, changed,
and the write of the file may fail. Then what was deleted or replaced is still in
the file, and the next update of any other key brings it back (`Back`), be it one
of these responses or another (`PutElsewhere`), or the next start (`Restart`). A
settings write is
`Write`, `Delete`, `Unmark`, `Find`, `Forget` and a `Get` of what it reports.
Requests of `listAcrossCalendars` take the same steps, one goroutine per
calendar. `disturbed`, `blame`, `floor`, `written`, `raced` and `returned` are
history; `failed` counts the updates that failed.

Left out: selectors and the calendar list (`CalendarResolution`), other processes
(`BootstrapCache`), which can only bring in another cached version, and
`--no-cache`, which has nothing to heal.

### EventSeries and Agenda

State: the `rows` of one UID at the server. A schedule (start, zone, RRULE) is
known by the original starts it generates; an exception row by the start it
replaces and its SEQUENCE. Each operation is a record with its own copy of the
row it read (`snap`), and takes one action per request: `LookDelete` and
`LookUpdate` (the first Get), `SeriesGet` and `Related` (`resolveSeries`,
`ResolveOccurrence` and the decision), `Read` and `Write` (`update`),
`Create`, `List` (GetByUID) and `Remove` (`deleteRows`). `Fails` stops it
before any request; an accepted write's reply may be lost (`Answered`). The
server accepts a write of a row it has if the SEQUENCE rule allows, replaces
the whole row and does not cascade (docs/api.md, "Recurring events").

`Agenda` is what the user sees: per occurrence "none", "original" or
"edited", and the steps that may change it. `EventSeries` implements it with
the view a full expansion of the rows gives.

Left out: RRULE changes of an exception row (the commands would send them; what
the server then does is not documented; so that no exception has a rule, in the type
invariant and its theorem, is said of the other updates), and retries by `withAccess`, which
happen before the first write only.

### CalendarResolution

State: the server's calendars (`names`, `default`, `unborn` IDs, which are
`keyed`), the session's locked `scope`, the list in memory (`mem`), the list and
the default in the process's snapshot of the cache (`disk`) and in cache.json
(`file`), the `served` marks, and each request (`req`). Resolution
is `resolveWith`: `List...` obtains a list from memory, disk or the server,
`Default...` the default, `CheckDefault` reads an unlisted default again, and
`Resolved` refreshes the list once more before a selector is reported unknown or
the default passed over. A fetch is two steps (`ListAnswered`, `StoreList`), and
so is a hit (`ListHit`, `KeepList`, where the mark is looked at): other requests
come in between. What is stored or dropped goes through `Updates`, which may
fail as `Cache.update` may: then an entry that was dropped from the snapshot only
comes back with the next update, be it of these entries or of others
(`PutElsewhere`). `NotFound` and `Degraded` are the second attempt of
`withAccess` and `ListEvents`. Updates, creates and deletes are one action per
request to the server, each of which may be carried out although its reply is
lost; `UnlockScope`, `DeleteCalendar` and `Relock` are `WithLockedScope`. The
app creates, renames and deletes calendars and moves the default (`App`), and
another process stores what it fetched (`OtherStores`).

`since` and `overtaken` are history: the lists and the defaults the server has had
since a request's last turn, and whether another request has meanwhile stored an
answer that was out of date, or taken away a mark before this one looked at it, or
whether an old entry has come back from the file. A
turn is the request's beginning, its second attempt, or its writing of the
metadata; the defaults start anew also when it has written the default. A resolution
that was overtaken may be wrong; the code has no guard against it, and the next
one refreshes. An old entry may come back through the request's own update, too:
without that case TLC refutes `DetailIsFresh`.

### EventQuery

State: the `rows` of a calendar, the question (`asked`), the streams it is cut
into (`units`: stretches times the four types of rows), what was `found` (each row
with its stream and page), each stream's `cursor`. `FetchPage` is a request of
`queryStream`; pages are cut from the rows, in the order of their IDs, as they are at
that moment. `Raws` is the deduplication in `query`, where the first sighting counts, `ExpandOccurrences` and `ResolveOccurrence` are the
functions of `pkg/recurrence`. All-day rows are shifted by the zone asked for
(`skew`), which the pad is for. Rows carry the set of starts their rule
generates: what a rule means is the library's. A master without a rule, or with one
that cannot be parsed (`~Recurs`), is listed with its own times. Rows are `Lasting`:
an event ends after it starts, its rule begins with it, and it does not begin within
the pad of the epoch, where the code cuts windows off at 0.

### RecurrenceRules

Operators only: `parseWhen`, `DateValue` and `parseDateTime` for times in zones
of a fixed offset, `BuildRRule` and `buildRRule` for the structured options, and
`SanitizeRRule` for raw rules. `Checked` is what the client checks of any rule:
four of the server's limits, the last day only in the zone it is given in or in
UTC. `Supported` is the longer list docs/api.md:386-392 gives of what the server
accepts, in the event's zone. The two differ: a raw monthly rule with BYDAY alone, or
a yearly one with BYMONTHDAY and no BYMONTH, is passed on whatever the server
says, which README.md:311-312 and pkg/cli/update.go:41-45 of the repository leave to
the user.

### EventCards and EventRecord

State: the row of an event (`main`) and of one edited occurrence of it
(`single`). A row is its cards in the order they are read in, each with the part
it belongs to and a map from property names to the sets of their values, and its
plain fields; `NoRow` is a row without cards. `First`, `Latest` and `AllOf` say which
of the cards at some places wins. `Create`, `PatchCard`, `resealCard`,
`buildUpdateBody` and `seedExceptionRow` are the writes; `Decrypt`,
`buildVEventBody` and `GetEvent` the reads, with any subset of the calendar's keys.
`GetEvent` exports the series (`BuildSeriesICS`, in the order of
`orderSeriesRows`) or, without a master, the one row (`BuildICS`); only the former
falls back to the row's own colour and reminders when the row cannot be read. That
an export is incomplete is known to `withAccess` only, which then tries once more: what
is incomplete after that reaches the user without a mark (service.go:462-484), so
`ExportIsWhole` says what the mark means, not that the user sees it. The server's own columns
(`Column`) are taken from the signed shared card, a row comes back with at most
`MaxAnswers` answers, and an update replaces the row (`Put`). The events of
other clients are `AppRows`: they have conferences, organizers, alarms and
properties this client does not know, and skipped occurrences on both signed
cards.

`EventRecord` is the same in the user's terms: fields, not cards. `EventCards`
implements it with the content the rows decrypt to; `Copies` allows an edited
occurrence to lose its people and its conference, which is what the code does
(see Findings).

Operations are whole steps here: what happens between their requests is in
`EventSeries`. Left out: folding and escaping of lines, and zones with daylight
saving.

## Runs

| Run | Shows |
|---|---|
| `token_refresh` | safety of the refresh protocol and that it implements `SessionChain` |
| `refresh_progress` | every request ends |
| `logout_revokes` | finding: a logout with an expired access token revokes nothing |
| `bootstrap_cache` | only own responses are used, updates do not clobber |
| `key_healing` | stale cached keys are healed; settings writes are seen; when a failed write of the cache may undo that |
| `calendar_resolution` | old metadata misleads no request and no replay; reported details are fresh; the scope is left |
| `event_series` | safety of series operations and that they implement `Agenda` |
| `series_zone` | finding: a zone-only change leaves exceptions without originals |
| `event_query` | no row or occurrence is missed or listed twice, what is listed can be addressed, and a query ends |
| `moved_out` | finding: an occurrence edited out of the window is listed as unedited |
| `event_cards` | every line survives, on its card; a series repeats as asked; exports are whole; content changes as `EventRecord` says |
| `occurrence_drops` | finding: the first edit of an occurrence drops people and conference |

Bounds, and why they suffice:

* `token_refresh`: two logins (an old and a new one; a third repeats their
  relation), two processes with one request each, expiry up to generation 2 (a
  token can be stale by one and by two rotations). Rate limiting changes no
  token, so it is off here (`MaxRateLimitRetries = 0`) and on in
  `refresh_progress`, where both requests run in one process. All parameters are
  free in the proofs.
* `bootstrap_cache`: two processes with a goroutine each, two logins, two keys:
  one to clobber and one to write.
* `key_healing`: one calendar, two requests at a time (any number after one
  another), so that each retry can meet another request at every step; the
  account's keys change once, or the calendar's keys or settings (`MaxChanged`),
  and one update of the cache fails, at any point: before, during or between
  requests. Of the updates those fail that leave a response in the file which the
  snapshot does not have and which is old, or may yet be (`FailuresMatter`): without
  one, nothing old can come back. The instance passes without that bound as well
  (3.4 million states instead of 2.0). A larger instance, in which both responses change,
  passes too (12.9 million states, eleven minutes). A dropped keychain takes all
  calendars with it, so a second calendar adds no case of its own. That a
  calendar's keys and settings both change is beyond the run, but not beyond the
  proofs: there `StaleCacheIsRetried` needs its exception for `raced`, and fails
  without it with a `MaxVersion` of 3.
* `event_series`: two schedules over three slots (one shared, one lost and one
  gained by a change), room for two exceptions, two operations at a time and
  four in all: edit, change or fail, repeat, delete.
* `calendar_resolution`: two calendars and room for a third, one managed by
  others; pairs of concurrent requests that share metadata or a calendar; one
  step of the app or another process, or one failed update of the cache (`MaxEnv`
  counts them together), at any point (also between a request's two
  writes), and caches that are empty, current, or from before such a step (`MCInit`). With a failed update in addition to a step, the
  properties hold too (11 million states, eleven minutes).
* `event_query`: stretches of 4, pages of one row, two streams at a time, two
  occurrences per master, a pad of 1: one window is cut
  into two stretches, the others are not, and every limit is met. One change by another client, at any
  point.
* `event_cards`: days of four hours and a zone one hour east, so that a day
  ends differently in it; counts up to 3; two keys and two attendees, one more
  than the server returns; four changes: create, update, split, and update or
  delete again.

Deadlock is checked, except in the `EventSeries` and `EventCards` runs: after the
last operation that `MaxOps` or `MaxEdits` allows, nothing more happens. In
`key_healing` the check adds nothing, since `Restart` is always possible; that the
keychain's mutex is never leaked is in `TypeOK`.

Fairness is assumed in two runs. In `event_query`, that the query goes on asking
for pages: a request is answered or fails, and nothing is assumed of the
clients that change the rows meanwhile. In `refresh_progress`, weak fairness for a request that
is being served or rotates, since the HTTP client's timeout bounds every
exchange; strong fairness for taking the lock, which `TryLockContext` polls and
which others hold in between. A caller that cancels is allowed, not assumed.

The properties that say "`~raced`" hold as long as operations on one series do
not overlap. Overlapping updates lose each other's changes, since each replaces
the row it read; the code takes no precaution and the server offers none.
`OnlyItsOwnRows` and the types hold with overlaps too.

In `key_healing`, `StaleCacheIsRetried` excuses a request that was `disturbed`:
keys were replaced, another request invalidated, a late answer was cached, or an
old response came back from the file while it ran. Such a request may fail;
`HealableKeychain`, which has no such excuse, says that the next one is healed.
`WritesAreSeen` excuses calendars of which an old response has come back
(`returned`), which takes an update of the cache that failed. All three excuse calendars whose
settings write met another read (`raced`): the reader puts its old response into
the keychain, and its mark is gone. So old settings are shown, and when the
calendar's keys are replaced later, nothing is retried; the second list below
has both.

## Findings

The four violation runs are disagreements between the code and what its
documentation or comments say; `PROJECT.json` quotes the lines.

* `logout` revokes the session only while its access token is valid.
* `update --tz` without new times moves a series' occurrences across DST
  changes, but keeps the SEQUENCE and the exceptions.
* An occurrence that was edited to a time outside the listed window is listed at
  its original time, as if it had not been edited: the row that would hide the
  original is not among those the window is asked for.
* The first edit of one occurrence of a meeting drops its organizer, attendees
  and conference: its row is made from the texts, reminders and colour only.

Further properties that a reader of the documentation would expect are stated in
the modules and are refuted by TLC when added to a cfg; no run is kept for them:

* `NoNeedlessLogin` (TokenRefresh): an MCP server that was idle for two token
  lifetimes adopts the tokens another process rotated in between; they have
  expired as well, and the request ends with "run `proton-cal login`"
  (README.md:185-188). The next request succeeds.
* `LogoutLeavesNothing` (BootstrapCache): `logout` deletes cache.json, and a
  fetch under way in another process writes it again.
* `WrongKeysAreRetried` (KeyHealing): a server that fetched its keys, rather
  than reading them from the cache, or that has retried once, never retries
  again: after a key rotation it fails until it is restarted (README.md:197).
* `WritesAreAlwaysSeen` (KeyHealing): a settings write that meets a fetch of the
  same calendar is undone in the cache; old settings are shown, for up to 30
  days (docs/api.md:96-98).
  The same happens after a deletion whose write to the file failed: "so a subsequent
  fetch hits the network" (cacheapi.go:134-135), "so a subsequent read reflects
  the change" (service.go:373-374) and "read fresh" (calendar_ops.go:105-106) hold
  only if the best-effort update of the cache went through.
* `ExceptionsKeepUp` (EventSeries): deleting an occurrence bumps the master's
  SEQUENCE past its exceptions'; a later text edit of an edited occurrence is
  refused by the server (docs/api.md:376-380).
* `RerunCompletes` (CalendarResolution): a create that leaves a keyless calendar
  says "re-run create to complete it" (create.go:82); a second create makes a
  second calendar.
* `AnswersSurvive` (EventCards): an update sends back the attendees' answers it
  was given, which the server truncates for large meetings; the others are lost
  (docs/api.md:242-250).
* `UntilIsTheEndOfADay` (EventCards): a series whose zone is changed later, or
  that was created with a raw UNTIL, has an UNTIL that is not the end of a day
  in its zone (docs/api.md:393-396). `RepeatsAsAsked` says when it is.

Observed of rules: docs/api.md:386-392 lists more of what the server enforces than
`SanitizeRRule` checks, and a change of a series' start alone may leave it off the
rule, where the server wants the start to be the first occurrence; both end in the
server's refusal, which the repository's documentation tells the user to expect. A
raw COUNT of 0 or less is passed on. `BuildRRule` allows the last of the days also
in a zone west of UTC, where its UNTIL is in the next year, which `SanitizeRRule`
would refuse. `update --until` without times or a zone counts the day in the
configured zone, also for a series in another; hence the condition `meant` in
`RepeatsAsAsked`.

Observed in `EventCards`, without a document that says otherwise: clearing a
rule deletes the EXDATEs of the shared card only; moving a series keeps its
EXDATEs at the old instants; alarms of a card and reminders of the row are both
exported. An occurrence edit that is also given a count, an interval or a last day
ignores them, while `validate` refuses a repeat or a raw rule there ("recurrence
options cannot be combined with an occurrence edit", ops.go:419-421).

## Proofs

`TokenRefreshProofs` proves, for any sets of logins, processes and requests and
any bounds, the type invariant, all safety invariants and action properties of
`token_refresh`, and that `TokenRefresh` implements `SessionChain`. It assumes
only the named assumptions on the constants.

The properties are not inductive. `IInv` adds:

* `LockInv`: a request rotates or saves exactly while it holds the lock;
* `FileInv`: the file is at or one behind the server's generation, and what
  accounts for the difference;
* `ProcInv` (`HoldsInv`, `AuthedInv`), `NewInv`: a client's tokens are of an
  issued generation and not ahead of the file; an unsaved login is untouched;
* `ReqInv`: per phase of a request, how its tokens and the session it loaded
  relate to the file and the server; in particular, that the file is what the
  lock's holder loaded;
* `InflightInv`: which logins a late rotation can hit.

For each action a lemma `<Action>Step` proves `IInv'` conjunct by conjunct, and
`InvStep` assembles them; `FileIsAChain` maps each action to a step of
`SessionChain` or to a stutter (`ServerRefines`, `ProcRefines`,
`RequestRefines`).

`BootstrapCacheProofs` proves the type invariant, `OwnSessionOnly` and
`NoLostUpdate` for any numbers of logins, processes, goroutines and keys, from the
three assumptions on the constants. Its `IInv` adds that the file's entries are
of its scope's login (`DocInv`), as each snapshot's are (`SnapInv`), that a
response about to be stored is its process's own (`CallInv`), and that what the
lock's holder loaded is still what the file says, unless the file is not of its
login any more (`WorkInv`): a logout may remove it without the lock, and then
nothing is lost that the logout did not mean to remove.

`KeyHealingProofs` proves the type invariant and `HealableKeychain` for any numbers
of calendars, goroutines and changes at the server. `HealableKeychain` speaks of
what is in the keychain; the marks in `served` are set before that, one response at a
time. So `IInv` adds `HeldCovered`, the same of a cached response a request holds on
its way to the keychain, and `KeychainCovered`, where what drops a calendar's keys
is named exactly (a request that is about to find the keychain, or has found
this one). `LocalInv` says which key a request is about in each phase, and
`BuildInv` that nobody has a keychain while one is built. The assumption that there
are more keychain objects than requests stands for garbage collection.
Constants need be finite only here (`FreshChain`, by the pigeonhole principle).

Its second part proves `WritesAreSeen`. A response is `Fresh` if
it has every acknowledged write, and the writes under way whose requests have
emptied the cache already. From then on only fresh responses come into the cache and
into requests' hands, unless one was held across the deletion (`raced`), or an update
of the cache failed and the old one came back from the file (`returned`, `Reloaded`); the
keychain
may keep an older one until `Forget`, or until it is replaced (`KeychainOK`), and a
write is acknowledged after that.

`KeyHealingRetries` proves `StaleCacheIsRetried`, from what `KeyHealingProofs` says of
the marks. As long as a request is `Undisturbed`, what it has emptied the cache of
(`Healed`) is there in its current version or not at all, since a response that
comes back from the file disturbs those it is about; once it has also dropped
the keychain (`Dropped`), a new one is current for its calendar, whoever builds it.
So it cannot fail a second time. The first time it asks for the marks, and they
are there: to remove them is to disturb it. The proof needs what each request is
about (`MeOK`) and what two of them may be doing at the same time (`PairOK`).

`EventSeriesProofs` proves the type invariant, `OneRowPerOccurrence` and
`OnlyItsOwnRows`, for any slots, schedules, IDs and changes, and any number of
operations. All rests on `RidsKept`: an ID is issued once, and the occurrence
a row stands for never changes while the row is there. So `OpOK`, what an operation
knows of the rows it has read, survives whatever others do in between. Where
the property holds only without overlap, `AloneInv` says that one operation is under
way, and `NewInv` that the row it is about to create is not there yet.

Its second part proves that `EventSeries` implements `Agenda`, that a
reported success is complete, and `ExceptionsHaveOriginals`. The first two use
`SoloInv`: between the requests of an operation that has not overlapped, what it
has listed is all there is, and what it is about to create or remove is
what the user should see come or go. Each request is then a step of `Agenda`
(`EditsOne`, `HidesOne`, `Reschedules`, `DropsEdits`, `Cancels`) or a stutter.
The third needs `TidyInv`: exceptions without an original are there only while
an operation that will remove them is between its writes; and it assumes that
`"zone"` is not among the `Changes`, without which the finding `series_zone`
refutes it.

`CalendarResolutionProofs` proves the type invariant and all four safety properties of
`calendar_resolution`, for any calendars, names, menu of requests and number of
them, and any number of steps by the app and other processes. Their common invariant
says of each request where what it holds is from. What it has fetched itself since
its last turn is in `since` (`Heard`); what it was served from the caches has a mark,
or it was overtaken (`Known`); a request that dropped the caches (`NamesKnown`,
`DefaultKnown`) finds there only what the server has had since, unless it was
overtaken, also by what its own update has brought back (`CachesSeen`); and
`ScopeHeld` says which request the locked scope is for. The proof showed
that `DetailIsFresh` had promised too much: between the metadata and the default of
one update, the app may rename the calendar, while another request caches the new
list; the name in the reply is as of after the metadata write, not of after both. The
property says that now, and the run has the case.

`EventQueryProofs` proves the type invariant and the three safety properties of
`event_query`, for any rows, windows, zones, pads, page sizes, caps and changes
by other clients. A stream reads its pages in the order of the IDs: as long as
no row leaves its answer, ranks only grow, so what has been there all the time and
ranks before the cursor has been received (`ReadInv`). `UnitOf` shows that the
stretches leave no gap, and that the pad makes up for the skew of all-day rows.
Two attempts failed because the properties were false: the cap of
`expandMaster` also counts occurrences that were moved out of the window, since
their exceptions are not read; and a master whose rule cannot be parsed is listed
beside its exceptions. Both are in the properties and in the run now.

`EventCardsProofs` has three parts. The first proves, for any zones, days and limits,
that a rule built from structured options is one docs/api.md says the server supports
(`Supported`), repeats as the options say, and has as its UNTIL the last instant of
its day where the event is. Of a raw rule it proves less, because less is true: it is
passed on part by part as it was given, or not at all, and only within the four limits
that are checked (`Checked`), with the last day as UTC counts it. The run
`event_cards` evaluates the same operators on small inputs.

The second proves the type invariant, `EachLineInItsCard`,
`UntouchedLinesSurvive` and `ExportIsWhole`, for any requests, keys, rows of other
clients and number of changes. The assumptions say what requests are (times,
zones, at most one of each option) and what other clients store: rows that are as
`IsRow` has them, with one signed and one encrypted shared card, each property that
has one value on one card, and a rule within the limits of `Checked`. `IInv` is that both rows
are such rows, and that only the edited occurrence has a RECURRENCE-ID. It is
inductive because an update patches the signed shared card with structure only and
the encrypted one with texts only (`SignedPatchDoes`, `EncPatchDoes`, `CardPatched`,
`UpdatedRow`). So a property has one place, and whichever card wins, its lines are
the same (`ColumnAt`, `ScheduleAt`, `SingleIsAll`): that is what makes an export
whole (`BodyIsWhole`). Two things came out of it. `UntouchedLinesSurvive` had said
that a text changes only together with the user's own part of it; a request that
repeats the text drops the conference block from the description, and the run had no
such request. It now says that a text changes only to one that is asked for. And the
model exported a single row that could not be read in full with the row's own colour
and reminders, where the code has those that apply.

The third proves `CreatedAsAsked`, `ImplementsEventRecord` and `RepeatsAsAsked`. A row that the keys
open reads as one content (`ReadsAs`, `ReadFields`), made from what is in each
property's place, and a content is known by its fields (`SameContent`). So what a
step writes can be followed line by line to the field it is read as. A new event
reads back as what was asked for (`NewContent`, `CreateFields`, `CreatesAsAsked`); an
update makes of each field what the record's `Overridden` says (`UpdatedFields`,
`OverriddenFields`, `UpdateIsOverride`); the row seeded for an occurrence is one of
the record's `Copies` (`Copied`, `SeedIsCopy`). A lemma per
action (`CreateRefines`, `UpdateRefines`, ...) shows the record's step or a stutter;
`EveryStepRefines` assembles them, and `KeepsTheRecord` is the refinement. `UpdateRepeats` puts the first part and the
update together: the zone a last day is counted in is the one the series is in
after the update (`ZoneMeant`).

`IInv` is not enough for that: it says where properties are, not that they fit
together. `Coherent` adds that a row's times are all dates or all instants, that an
interval is positive and a text readable, that only attendees have answered, and that
an edited occurrence is all-day exactly when its series is. All of it is kept by every
step, and asked of the rows of other clients (`AppRowsAssumption`), as RFC 5545 asks it
of them. Of the requests the proofs assume that a date without a time is one
(`WallTime`), and that a raw interval is what rrule-go makes of it. Two things came
out of the attempt. `EventRecord` had an edited occurrence refuse, or count as a
significant change, a rule that came with it as a bare count or last day; the code
ignores it (`RuleGiven`), and the run had no such request. It has now. And
`resolveCreateTimes` let an all-day event have a time of day, which the code refuses
to parse.

Only model-checked: liveness (`refresh_progress`, `QueryEnds`), which is out of the
prover's reach. Every safety invariant, action property and refinement that a
passing run checks is also a theorem.

## Not modelled, and the plan

Frontends, rendering, cryptography and configuration are stateless or call
libraries; `PROJECT.json` says so for each. Within modelled components:

* what a recurrence rule generates is rrule-go's; the models take the set of
  starts, or days of fixed length;
* folding, escaping and the grammar of content lines, reminder specifications,
  the palette: pure functions on text, which the repository's tests cover
  and whose interesting inputs a small instance would not have;
* zones have a fixed offset, so DST appears only as the finding `series_zone`
  has it: a zone is part of a schedule;
* SRP, key generation and unlocking are the libraries'; keys are versions;
* `listAcrossCalendars` lists calendars in one step: the first error fails the
  listing, after all have ended.

What would come next: a composition of `CalendarResolution` with `BootstrapCache`,
so that `OtherStores` is another instance of the same requests; and the mark
`overtaken` replaced by a version of the cache, should the code get one.
