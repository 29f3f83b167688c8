# A verified model of YstuPortal

YstuPortal is a Go service in front of a university portal: a student signs in
with portal credentials, the service reads the profile and grades pages, keeps
them in PostgreSQL, caches the grades in Redis and answers a web client that is
identified by a JWT cookie. This directory holds TLA+ modules translated from
that code, TLC configurations that check them on small instances, and theorems
checked by TLAPS for every value of the constants.

## Inventory

| Component | State | Operations | Talks to |
|---|---|---|---|
| Use cases, `internal/logic/user.go` | none of its own | `Login`, `GetInfo`, `GetGrades`, `Logout` | provider, storage, cache |
| HTTP handlers, `internal/delivery/api/{login,user}.go` | cookies at the clients | `LoginPost`, `LogoutPost`, `GetUserInfo`, `GetUserGrades`, `AdminPing`, `AuthMiddleware`, `RequireRole` | use cases |
| Portal client, `internal/repository/userProvider/parser.go` | map user -> session (HTTP client, `lastUsed`) under a mutex | `GetUser`, `GetGrades`, `CloseSession`, `Close`, lazy pruning | the portal over HTTP |
| Storage, `internal/repository/userStorage/db/db.go` | tables `users`, `grades`, `subjects`, `subject_control` | `SaveUser` (one transaction), `GetUser` (two statements) | PostgreSQL |
| Cache, `internal/repository/cache/redis/grades.go` | one key per user with a TTL | `Get`, `Set` | Redis |
| Metrics, `internal/delivery/api/metrics.go` | five counters and a map of counts | `Middleware`, `Handler` | every request |
| Rate limiter, `login.go:60-66` | counts per address and window | library middleware in front of `LoginPost` | - |
| Lifecycle, `cmd/api/main.go`, `internal/server/server.go` | listener, open resources | start, signal, `Shutdown`, deferred closes | all of the above |
| Configuration, `internal/config/config.go` | - | `Load`, `validate` | environment |
| Migrations, `cmd/migrate`, `migrations/` | schema | up, down | PostgreSQL |
| Demo provider, `userProvider/demo.go` | none | fixed data | - |
| Web client, `AppState` and `Api` in `packages/web/main.dart.js` | login, profile, schedules, week, day, whether it is loading, server address | sign-in, sign-out, choice of week and day, address, reload | a server over HTTP |
| Web runtime, the rest of `packages/web` | Flutter and CanvasKit as built | - | the browser |

What makes it hard: every request is a goroutine that makes several calls to
things with a state of their own, and nothing ties the calls together.
`GetGrades` is a read-modify-write over a database, a remote page and a cache
with no transaction or lock around it; the session it uses is looked up under a
mutex and used after the mutex is released; sessions live in memory while
cookies, rows and cache entries survive the process; the portal ends sessions
on its own; pruning is lazy and global; a save may commit without its
acknowledgement; a failed cache is ignored. The counters of `/metrics` are
updated and read one by one. The role in a token is looked at nowhere again
until the token expires. The process stops with requests in flight. In the
browser, a sign-in writes shared state after each answer of the server, while
the user goes on clicking. `PROJECT.json` lists these hazards
line by line with the properties that cover them.

What makes each part correct:

* use cases and handlers: nothing is shown or cached before it is stored; a
  token implies a row; roles assigned by an administrator survive; data is lost
  only where two requests overlap; every request is answered;
* portal client: a student only ever gets pages of his own session; the TTL is
  honoured although nobody prunes in time; a session in use stays;
* storage: a save is all or nothing, and two saves never mix;
* cache: it may lag behind the database but not for good;
* grades page: what is read depends on what the page says and not on its layout;
* metrics: a report is wrong by at most the requests that were running, and the
  counters never drift apart;
* authentication: the limiter of a process lets no flood through, refuses nobody
  without cause and nobody for ever; a role opens nothing long after its provider
  was replaced;
* lifecycle: a graceful stop closes nothing under a handler and ends; without a
  signal, a failure is in the exit status;
* web client: data of two users are not mixed, nothing stays behind a sign-in that
  fails or a sign-out, and the examples stay what they are, as far as sign-ins do
  not overlap; however they do, what is drawn once all have ended exists and the
  form is usable.

## Modules

| Module | What it is |
|---|---|
| `UserManager` | the use cases as the handlers run them, with the database row, the Redis entry, the session and the cookies they act on |
| `GradesService` | what the service promises its clients about stored data; `UserManager` implements it |
| `UserManagerProofs` | the inductive invariant of `UserManager`, its theorems and the refinement |
| `MCUserManager` | its instances for TLC |
| `UserParser` | the portal client: the session map, its mutex, TTL and pruning, and the portal's logins |
| `SessionStates` | what `UserManager` assumes of the session map; `UserParser` implements it |
| `UserParserProofs` | the inductive invariant of `UserParser`, its theorems and the refinement |
| `MCUserParser` | its instances for TLC |
| `UserStorage` | `SaveUser` statement by statement, with PostgreSQL's row locks and the pool |
| `AtomicStore` | what `UserManager` assumes of `SaveUser`; `UserStorage` implements it |
| `UserStorageProofs` | the inductive invariant of `UserStorage`, its theorems and the refinement |
| `MCUserStorage` | its instances for TLC |
| `GradesTable` | `parseGrades`: which table, which columns, which rows, under changes of the layout |
| `GradesTableProofs`, `MCGradesTable` | its inductive invariant and theorems; its instance for TLC |
| `Auth` | the rate limiter, the token with its role and expiry, and the checks of protected handlers |
| `AuthProofs`, `MCAuth` | its inductive invariant and theorems; its instances for TLC |
| `Metrics` | the counters, updated by every request and read by those for `/metrics` |
| `MetricsProofs`, `MCMetrics` | its inductive invariant and theorems; its instance for TLC |
| `Lifecycle` | `run()` of one process after another: start, signal, shutdown, deferred closes |
| `LifecycleProofs`, `MCLifecycle` | its inductive invariant and theorems; its instance for TLC |
| `WebClient` | `AppState` and `Api` of the web client |
| `WebClientProofs`, `MCWebClient` | its inductive invariant and theorems; its instance for TLC |

### UserManager

One client is one device with at most one request in flight; several clients
may belong to one user. A step is one call that leaves the goroutine: a portal
page, a locked section of the session map, an SQL statement, the SQL
transaction, a Redis command.

| Code | Model |
|---|---|
| `LoginPost` -> `Login` -> `GetUser`, `SaveUser`, token | `LoginPost`, `Authenticate`, `RegisterSession`, `SaveLogin`, `IssueToken` |
| `GetUserInfo` -> `GetInfo` -> storage `GetUser` | `GetUserInfo`, `ReadRow`, `ReadInfoGrades` |
| `GetUserGrades` -> `GetGrades` | `GetUserGrades`, `CacheGet`, `ReadRow`, `ReadGrades`, `LookupSession`, `FetchGrades`, `SaveGrades`, `CacheSet` |
| `LogoutPost` -> `CloseSession`, cookie | `LogoutPost` |
| `exp` of the JWT, a lost cookie | `ExpireToken` |
| `sessionTTL` passing | `LapseSession` (removal is in the steps that prune) |
| TTL of a Redis key, eviction, a Redis restart (no persistence in docker-compose.yml) | `ExpireEntry` |
| a crash or deploy, `restart: unless-stopped` | `Restart` |
| the portal, an administrator | `Publish`, `AssignRole` |

`portal`, `users`, `cache`, `sessions` and `tokens` are the shared state, `pc`
and `held` are a handler's place and its `*domain.User`. `committed` and `raced`
are history variables, written by `Track` in every step and read by properties
only.

Data is abstracted to editions: the portal numbers the states of a student's
pages, and a profile or list of grades is the edition it was parsed from. That
keeps what the properties ask (older or newer, empty, nil, the same or another
list) and leaves out the text. Two things are below that level: a save keeps a
stored mail when the new one is empty (the portal never gives one), and
duplicate rows of a page are merged.

A failed Redis call and a missing Redis are the miss branch of `CacheGet` and
the branch of `CacheSet` that changes nothing, so the runs also cover the
service without Redis.

### UserParser

A call is a goroutine inside the provider; a step under `p.mu` is one action and
the portal requests are steps of their own. A client (an `http.Client` with its
cookie jar) is fresh when neither the map nor a call refers to it; TLC reuses
such clients, so a bounded number of them is no loss as long as one is free for
every login (users + callers). The clock is the number of ticks since
`lastUsed`, counted up to one past the TTL: the code asks nothing else of it. The
history field `unused` counts from the last time a call was given the session,
whether or not the code touched `lastUsed` then. The portal is external: it
shows pages of the user whose login a jar went through, ends logins whenever it
likes, and answers an ended one with a page that has no grades table; that is
how a refused login shows itself in the code too, as a page without a name.

`SessionStates` is the seam between the two: `UserManager` works with none, live
or lapsed per user, and `UserParser` is shown to do to these states exactly what
`UserManager` assumes.

`Close`, the deferred call at the end of `run()`, empties the map whoever is in a
call: after a listener that failed nobody waits for them.

### UserStorage

| Code (`db.go`) | Model |
|---|---|
| call of `SaveUser`, default role | `SaveUser` |
| `pgPool.Begin` | `Begin`, `FailBegin` |
| upsert of `users` | `UpsertUser` |
| `DELETE FROM grades` | `DeleteGrades` |
| the three upserts per row of the page | `UpsertSubject`, `UpsertControl`, `UpsertGrade` |
| `tx.Commit` | `Commit`, whose acknowledgement may be lost |
| an error of any statement, its early return, the deferred `Rollback` | `FailStatement` or `Victim`, then `Rollback` |
| death of the process | `Crash` |
| an administrator's `UPDATE` | `AssignRole` |

The transaction is the one `Begin` opens, READ COMMITTED. Its writes are in
`draft` until `Commit` merges them into the tables. `INSERT ... ON CONFLICT DO
UPDATE` locks the row, or the key it inserts, until the transaction ends, and
waits for whoever has it; the action is then simply not enabled, `WaitsFor` says
for whom, and `Victim` is the deadlock detector. Locks on grades and controls are
left out because nobody ever waits for them: a transaction touches grades only
with the row of their user locked, and a control only with its subject locked.
A failed statement ends the transaction in PostgreSQL at once, but the
connection stays out of the pool until the deferred `Rollback`, a step of its
own. The foreign keys are left out on purpose: `GradesReadable` then shows that
they never refuse a save.

The key of a grade also has semester, course and type of control, that of a
control the type; both are abstracted to the subject's title, which makes every
conflict on a longer key a conflict here. A commit that PostgreSQL is still
running when the caller's context is cancelled takes effect before the caller
goes on. The connections `GetUser` borrows for its two statements are not
counted.

`AtomicStore` is the seam to `UserManager`, which has `SaveUser` as one step that
stores all or nothing and may lose its acknowledgement: its `Save` and `Fail`
are what `SaveLogin` and `SaveGrades` do there.

### GradesTable

A page is what goquery makes of it: tables, their rows, the cells of these. The
operators are those of `parser.go:219-281`: `TableOf`, `HeaderRow` and
`HeaderIndex` find the table, the header and the columns, `IsGrade` and
`CellText` read the rows; `Td(row, i)` is what `row.Find("td").Eq(i - 1)` has, and
`InRowOrder` makes the list of the grades of the rows that have one. The steps are what the university may do to its page
without changing what it says: move a column (`MoveColumn`), add one
(`AddColumn`), make the cells of one `th` (`HeadColumn`), put a table before or
after (`AddTable`); each is followed by a parse. `GradesOf` is the reference: what
a reader sees under each heading.

`Pages` are any pages that are `WellFormed` (`PagesAssumption`): cells with the
tags, headings and `Texts` there are, one table with a header, in it rows as long
as each other and no heading twice. These are the pages for which "under a
heading" means something; what the rows say, which columns and other tables there
are, and where the `th` stand, is open. On other pages the code still returns
something: the last of two columns with one heading, the first of two tables.

Headings are counted among `th` and `td` (`parser.go:227`), the cells of a row
among `td` only (`parser.go:259`), so a `th` in a row shifts everything behind it,
without an error. `Aligned` says that no cell that is read is shifted; both
properties are about such pages. A page laid out by a table, whose one row then
has every cell of the page because `Find` goes to any depth (`parser.go:226`), is
outside the model.

### Auth

| Code | Model |
|---|---|
| limiter in front of `POST /auth/login` (`login.go:60-66`) | `Count`, `Passes` in `Login` |
| `LoginPost` -> `GetUser`, `SaveUser`, token | `Login`, `Authenticate`, `Save`, `Issue` |
| `AuthMiddleware` | `LetIn` |
| `RequireRole("admin")` before `/user/admin/ping` | `AdminPing` |
| `LogoutPost` | `Logout` |
| time, for windows and tokens | `Tick` |
| a restart with or without `DEMO_MODE` | `Restart` |

The limiter is Fiber's fixed-window one, external: a window starts with the first
login after the last window ended, every login counts, refused or not, and the
count is not kept past the first refused one, since the code tells no more. An
address is the peer of the connection. Clocks count up to, or down to, the point
where the code stops asking, so time is not bounded. `JWT_SECRET` is
configuration: cookies survive a restart, the limiter does not. `passed`, `ages`
and `ago` are history variables: how many logins the running process has let
through, when the last of all processes were, and how long ago a provider that
reports a role was running. `AtMostTwice` is about one process, as the limiter is:
each restart starts a count from nothing, so that no bound holds of a span in which
the process may restart. The role in the row is not in this module: no check of
the API asks for it, and how it is stored is in `UserManager`.

### Metrics

Each atomic operation of `Middleware` and `Handler`, and each section under
`statusCountsLock`, is a step of the goroutine that serves the request; a request
for `/metrics` is counted like any other and reads the counters in between. The
status is an error or not, and the total of the durations is the number of
requests it is the total of. No recovery middleware is installed, so a panic ends
the process: `Restart`.

### Lifecycle

`main` is the place of `run()`; the listener has a goroutine of its own, and so
does every request. `Close` is one deferred call, last opened first; `Exit` ends
what still runs. `Listen` binds the port or fails to (`unbound`), and a listener may
end by itself (`broken`); what `app.Listen` then returns, an error,
`context.Canceled` or nil, is in `errCh`. `Select` takes the signal or that: of the
three only an error becomes the exit status 1 (`main.go:90-94`). `Shutdown` finds a
listener and goes on to `Drain`, or none, because there is none yet or the port was
taken, and returns nil at once, or one that has failed, whose closing may fail.
`Kill` is SIGKILL, and a signal before `NotifyContext` is called. `wired` is what the use cases were built with
and `cut` the requests that turned to something of it that has been closed.
`DrainedBeforeClosed` speaks of stops in which `Shutdown` has waited: after a
listener that failed, and after a signal before the port was open, `run()`
returns with no wait, and requests in flight may be cut off. `ZeroIsNoFailure`
says what hides a failure from the exit status: a signal at any time before the
end, and a listener that ends with nil or `context.Canceled`.

### WebClient

The Dart source of the web client is not in the repository, only what dart2js
made of it: its application is lines 198547 to 200130 of `main.dart.js`, behind
8 MB of framework. The state it keeps is declared at lines 51416 to 51433, where
the rows of `PROJECT.json` point. That file locates code within the first 8,000,000 bytes
of a source, which here end at line 176123: a definition for code further down
names its function and lines in `symbol` instead, and is marked external for that
reason only. It is translated from those lines like any other.

| Code | Model |
|---|---|
| `AppState.signIn`, up to its first request | `SignIn`; `BlankSignIn`, `DemoSignIn`, `MalformedSignIn` when it ends there |
| `Api.login` and what follows it | `Refused`, `LoginAnswered`, `LoginThenDemo`, `LoginThenMalformed` |
| `Api.dashboard`: the addresses of profiles, then of schedules | `ProfileAnswered`, `ProfileThenMalformed`, `NextSchedule` |
| the end of `signIn`, its `catch` and `finally` | `Finish` with `Show`, `Fail` |
| `setServerUrl`, `signOut`, the week and the day | `SetServerUrl`, `SignOut`, `PickWeek`, `PickDay` |
| `AppState.load` | `Reload` |

JavaScript runs one callback at a time, so a step is all that runs between two
answers or gestures. `shown` is what was drawn at the last `notifyListeners`: the
button of the form is disabled by it, and Enter in the password field
(`main.dart.js:199390`) is not disabled at all, which is how sign-ins overlap.
`shared` tells whether `AppState.schedules` is the one map of the examples,
`demo`, which signing in may then write to (199239). The server may be any: with
and without a token, a profile or schedules at any address, or an error, or no
answer; a login that is refused may have got its cookie all the same, when only the
body of the answer could not be read (`Refused`). `asked` is whom the server takes
the sender for, by token or by cookie.

`hurried` is a history variable: whether the form was sent while a sign-in was under
way, never since the page was loaded, among the latest sign-ins (`now`), or only
among earlier ones (`before`): it goes from `now` to `before` when the form is sent
with nothing under way. What overlapping sign-ins do break, and what not:

* `SelectionExists` and `NeverStuckBusy` hold however sign-ins overlap. The former
  speaks of the time when none is under way: while one still is, behind the shell
  that another has brought up, the answer to its login sets a week (199240) that
  may not have the day.
* `ExamplesStay`: an overlapping sign-in may file its schedule in the examples,
  where it stays until a reload, but no week of them is ever lost.
* `MixNeedsHurry`, `ButtonWaits` and `NothingLeft` do not hold while the latest
  sign-ins overlap: one ends with the data of another, or fails while another goes
  on and fills in a profile and schedules behind the form. They hold again from
  the next sign-in that is alone, although it starts from what those have left.

The server of this repository has none of the addresses that `dashboard` asks
for profiles and schedules (198673, 198738): with it the client signs in and
shows the examples, as it does without a server, although the page then says
"Данные приходят с сервера" (199675).

## Runs

| Run | Shows |
|---|---|
| `um_safety` | `TypeOK`, `TokenHolderKnown`, `OnlyCommittedShown`, `LossNeedsRace`, `RoleKept`, `ImplementsService` |
| `um_liveness` | `EveryRequestAnswered`, `CacheConverges`, `FreshUnlessOverlapping` |
| `up_safety` | `TypeOK`, `FetchedOwn`, `HandedOutWithinTTL`, `KeptWhileUsed`, `ImplementsSessionStates` |
| `up_portal_expiry` | `ExpiredUpstreamIs409` is violated: a finding, see below |
| `us_safety` | `TypeOK` (with the count of connections), `GradesReadable`, `DeadlocksCrossUsers` |
| `us_liveness` | `EverySaveEnds`, `ImplementsStore` |
| `gt_layout` | `ReadsWhatIsWritten`, `LayoutDoesNotMatter` |
| `au_limits` | `TypeOK`, `RoleNotOutdated`, `AtMostTwice`, `RefusedAfterMax`, `LockoutEnds` |
| `mt_safety` | `TypeOK`, `ReportNearlyWhole` (with `ErrorsCoverStatuses`), `QuietAgrees` |
| `lc_stop` | `TypeOK` (with the order of closing), `DrainedBeforeClosed`, `ZeroIsNoFailure`, `StopEnds` |
| `wc_safety` | `TypeOK`, `MixNeedsHurry`, `ButtonWaits`, `ExamplesStay`, `SelectionExists`, `NothingLeft`, `NeverStuckBusy` |

Bounds. The users of `UserManager` share nothing in that model, so one user with
two devices is where all interference happens. Three editions (`MaxEdition` 2)
make an empty list, a list and a newer list; two are enough for `um_liveness`,
where an older list in the cache than in the database is the case that matters. Two roles make a role that a login could overwrite. In
`UserParser` pruning crosses users, so there are two of them, two callers and
the four clients that two sessions and two logins can need at once; TTL 1 tells
in use, idle and expired apart. In `UserStorage` two users and two subjects are
the least that can deadlock; `us_safety` has three goroutines over two
connections, so that one waits for the pool, and both orders of one user's page;
`us_liveness` has two goroutines and pages that differ in marks and credit units,
one of them with a subject twice. Nothing else is bounded there: requests, logins,
restarts and expirations are unlimited. 
`GradesTable` starts from four pages with a full row, a row without a title and a
row with nothing but one; four columns leave room for one to add, three tables
for one before and one after. `Auth` has two devices of one user behind one
address, and `RateLimitMax`, `Window` and `TTL` are 2: enough for a window that
fills, one that ends half full, and a token that is neither fresh nor expired; in
`au_limits` the providers are the demo, where the user is an administrator, and
the portal, which refuses him. Three goroutines and four requests between starts
in `Metrics` let two requests finish while a third is being reported.
`Lifecycle` has three requests at a time and unlimited ones in sequence.
`WebClient` has two users, two sign-ins at once, two addresses of schedules and
one of profiles; the server's schedules list another day than the examples, so
that a day that is kept when the schedules change shows. One week is enough for
what can be overwritten; that the week exists, for any number of them, is proved.

Devices are interchangeable in `um_safety`, users, callers and clients in
`up_safety`, goroutines in `us_safety` and `mt_safety`, users and sign-ins in
`wc_safety` (symmetry; these runs have no liveness property). Deadlock is checked
in every run.

Fairness (`FairSpec`, in `um_liveness`, `us_liveness`, `au_limits` and `lc_stop`). In `UserManager`, `WF(Serve(c))`: a handler that can go
on does, because Go schedules every goroutine, the portal client has a timeout
(`parser.go:78`), the mutex is held for a few map operations only, and PostgreSQL
and Redis answer or fail. `WF(ExpireEntry(u))`: Redis honours the TTL, which
`config.validate` keeps positive and `NewUserManagerWithCache` requires. Clients,
the portal, sessions, tokens and restarts are under no fairness. A restart
answers a request in the sense that its connection is closed.

In `UserStorage`, `SF(Advance(s))`: strong, because a row or a connection may be
taken and given back many times while a save waits; PostgreSQL's lock queues and
the pool (`pgxpool`) serve those who wait in turn. `WF(Victim(s))`:
`deadlock_timeout` is on by default. A save that ends may have failed.

In `Auth`, `WF(Tick)`: time passes. In `Lifecycle`, `WF(Run)`: Go schedules the
main goroutine, and `WF(Finish(r))`: a handler ends, by `EveryRequestAnswered`. Signals,
requests and the listener are under none, so `StopEnds` holds although requests
keep coming: the closed listener is what stops them.

`CacheConverges` has the portal publish finitely often (`MaxEdition`): with
endless changes nothing converges. `FreshUnlessOverlapping` is its counterpart with
no fairness: in a behaviour in which no user has two requests in flight at once,
Redis and what the devices were last shown never differ from PostgreSQL at all,
so that `CacheConverges` has only overlapping requests to repair. TLC and TLAPS
both take the antecedent `[]OneAtATime` as it stands, a condition on the whole
behaviour.

### Finding

`openapi.yaml:83-84` promises 409 from `/user/grades` when the upstream session
has expired. That holds for sessions the provider dropped (TTL, logout,
restart), not for one the portal ended: the map still has it, the page has no
grades table, and the error of `parser.go:243` becomes 500 (`api/user.go:68-69`).
`up_portal_expiry` finds login, portal end, lookup, fetch. The counterexample
rests on what the portal shows to an ended login, which the repository does not
say; any page without the table, and any error status, leads to the same 500.

## Proofs

All theorems hold for any sets of users, devices, roles, goroutines and clients,
any `MaxEdition`, `Blank` and TTL, any pages and pool size, any limits, roles,
providers, weeks, days and numbers of addresses, and any number of columns and
tables, under `ConstantsAssumption`, `ParserAssumption`, `StorageAssumption`,
`AuthAssumption`, `MetricsAssumption`, `ClientAssumption` and `PagesAssumption`:
constants have their types, the special values are not
editions, rows, users, sessions, roles or schedules, the limits are positive
(`config.go:86-93`), goroutines are finite in number, and the grades pages to start
from are well formed.

`UserManagerProofs` proves `Inv` inductive. None of the invariants is inductive
alone, and `Inv` adds what each of them leans on:

* `TypeOK` needs `HeldLists`: the row a handler stores must have a list or nil
  where `Upsert` expects one, and a handler about to cache holds a list;
* `TokenHolderKnown` needs `Known`: a handler past its save, or past reading a
  row, has one, and rows are never deleted;
* `OnlyCommittedShown` needs `Kept`: the lists in the hands of handlers that are
  about to answer or cache are committed already;
* `LossNeedsRace` needs `Published`, nothing stored or held is newer than the
  portal's edition, and `Undisturbed`, a handler inside its window that is not
  raced still agrees with the row.

From `Inv` follow `TypeCorrect`, `TokenHoldersKnown`, `CommittedBeforeShown`,
`RolesKept` and `LossesNeedRaces`; a step lemma per kind of action maps every step
to a step of `GradesService` or a stutter (`Refinement`).

`FreshAlone` proves `FreshUnlessOverlapping`. Its invariant, `CacheFresh`,
`ShownFresh` and `FreshHands` (who is about to cache holds the list of the row, who
is about to ask the portal has seen that the row has none), is preserved by every
step from a state with one request per user (`StepFresh`). One step does need
that: `SaveGrades` changes the list under the hands of another handler of the
user, and only `OneAtATime` says that there is none. That nothing replaces a
stored list (`ListsStay`) follows from `FreshHands` alone.

`UserParserProofs` proves, with `Exclusive` (a client in a running login is in no
other hands, and no two users share one), `Own` (a session's jar is its user's)
and `SameAge` (`lastUsed` is when the session was last given out), the theorems
`TypeCorrect`, `OwnGradesOnly`, `HandoutsWithinTTL`, `SessionsKept` and
`Refinement`.

`UserStorageProofs` proves, with `Place` (where a save is on its page), `Locks` (a
save past its first statement has its user locked, and only such saves have
locks) and `Drafted` (the uncommitted writes are exactly the tables the first
rows of the page make, on top of the stored row), the theorems `TypeCorrect`,
`Readable`, `UsersApart` and `Implementation`. `Drafted` is what the refinement
rests on: at `Commit` the draft is the whole page (`WholePage`), and the lock has
kept the stored row as `UpsertUser` read it. `UsersApart` follows from `Locks`:
in a cycle each save waits and is waited for, so it has its own user locked.

`AuthProofs` adds to `TypeOK` two parts. `Windows`: of the logins let through, as
many as the window has counted are younger than the window, the others are
older than it began, and those `RateLimitMax` further back are out of reach, as
they are a whole window old or another process let them through; with
it `LimiterHolds` and `RefusalsEarned` follow for any limit and window. `Granted`:
the role in a token was reported by a running provider at least as recently as
the token was signed; with it `RolesNotOutdated`.

`MetricsProofs` proves `Counted`, each counter is the number of requests the
goroutines' places say it should be, and `ReadRight`, what a goroutine has read so
far is within bounds of what the others may still do. From these follow
`ReportsNearlyWhole`, `ReportsCoverErrors` and `QuietCountersAgree`, for any number
of goroutines; the counting rests on the library's facts about cardinality.

`LifecycleProofs` proves, with `Asked` (only a signal leads to a shutdown, and to
status 0 only that or a listener that ended without an error) and `Quiet` (once drained, nobody is handled), `StopsAreGraceful` and
`StatusIsHonest`.

`WebClientProofs` proves one invariant, `IInv`, with the types of all places
(`Typed`), in three layers. Of every history: the form is busy only while a
sign-in is under way (`BusyEnds`), a place for a sign-in that holds none is empty,
no week of the examples is lost (`DemoWhole`), and what is drawn when none is under
way exists (`Drawn`), because each end of a sign-in draws the screen anew
(`DrawnStep`); from it follow `SelectionsExist` and half of `ExamplesKept`. Of one
in which no two sign-ins have overlapped: the examples are as loaded, the other
half. And of one whose latest sign-ins did not overlap (`Alone`): at most one is
under way, after its login was answered all it and the program have is of that
login (`Gathered`), and with none under way the state is that of somebody signed
in or of nobody (`Settled`). Before the answer to its login a sign-in may find
anything that others have left (`Pending`), and that it may is the point: whatever
it finds is replaced. From this layer follow `NoMix`, `ButtonsWait` and
`NothingStays`.

`GradesTableProofs` proves that every page reached is `WellFormed` and that `grades`
is what the code reads from it (`Invariance`, a lemma only: the one is what the moves
of the page keep, the other how every step is made); it has no recursion and no induction
over data. `LeastNatural` (a non-empty set of naturals has a least element, from
the library's well-foundedness of finite sets under strict inclusion) makes the
code's "first" and "last" places unique (`HeaderRowFirst`, `HeaderIndexOnce`,
`TableFound`); `TdCounted` says that the i-th `td` of a row is its i-th cell when
no `th` stands before it, the one place where counting matters. With these,
`ReadsGrades` shows the parse and the reference agree on any page that is
`Aligned`, whence `Reads`. For `LayoutsAlike`, two tables with the same titles in
the same rows carry the same grades (`CarriedGrades`), and each of the four moves
leaves a well-formed table that carries what the old one did (`MoveColumnKeeps`,
`AddColumnKeeps`, `HeadColumnKeeps`, `AddTableKeeps`): under every heading a row
still says what it said, because the cells move with their headings
(`InsertedAt`, `RemovedAt`).

All invariants and action properties of the passing runs are proved. Model-checked
only:
the liveness properties `EveryRequestAnswered`, `CacheConverges`, `EverySaveEnds`,
`LockoutEnds` and `StopEnds` (TLAPS does not reason about fairness and ENABLED
here), and the finding, which is a counterexample.

## Not modelled

The text of the pages: tables inside tables, their encoding, the name and the
group of the profile, the digits `extractInt` picks from a cell. JWT cryptography,
CORS, logging, request ids, JSON, the OpenAPI page, the texts of errors, the
grades of the demo provider (a constant) and the generated mocks. Configuration is
read once and appears as constants; migrations are SQL scripts run by hand, whose
tables and constraints `UserStorage` has.

Of `packages/web`, everything but `AppState` and `Api`: the month view, theme, tabs
and fixed pages, which share no state that others write, and the alternative
spellings of JSON fields. The rest of `main.dart.js`, some 174,000 of its 176,000
lines, is the Dart SDK and the Flutter framework as compiled by dart2js, and the
other files are Flutter's loader, CanvasKit and Skwasm: third-party code that is
in the repository only as a build. By lines, these files are nearly all of the
repository's JavaScript, so that the part of it that is modelled is small.
`PROJECT.json` gives the reason for each component.

## Plan

1. A composition of `Lifecycle` with `UserStorage`: saves that a stop, or its lack
   of a wait after a failed listener, cuts off.
2. `Auth` as a refinement of an abstract limiter, and `WebClient` of an abstract
   session: nobody, signing in, or somebody with data of his own.
3. The month view of the web client, and liveness of its sign-ins.
