# A formal model of Pruvon

Pruvon is a web UI that runs beside Dokku on one Linux host: a Go program (Fiber) that
turns browser requests into `dokku` and `docker` commands, keeps its users in one YAML file,
and is also started once a day by cron to back databases up. This directory models the parts
of it whose correctness depends on the order in which things happen, checks them with TLC and
proves the central facts with TLAPS. Paths below are relative to the repository; `PROJECT.json`
gives the lines each definition stands for.

## 1. Inventory

| Component | State it keeps | Operations | Interacts with |
| --- | --- | --- | --- |
| Tracked app actions (`services/apps/restart_operations.go`) | `operations`, `latestByApp` under one mutex; a goroutine per operation | start, get, latest; run, verify, finish; cleanup | dokku (`ps:*`, `apps:list`), handlers, the page that polls |
| Configuration file (`config/config.go`, `server/config.go`) | `currentConfig` under a mutex; `pruvon.yml`, `pruvon.yml.tmp` | load, save, overwrite in place, create default | every handler that changes users or backup settings |
| User administration (`handlers/api/users.go`, `backups.go`) | none of its own; a handler's copy of the configuration | create, update, password, delete; backup settings | configuration, sessions |
| Sessions and authorization (`middleware/auth.go`, `middleware/authz`, `templates`) | the session store, in memory | login, logout, check of a request, what a page shows | configuration |
| Service import (`handlers/api/service.go`, `handlers/ws/ws.go`) | `ImportTasks` under a mutex; files in `/tmp` | upload, claim, import, clean up | dokku `<type>:import` |
| Service export (`handlers/api/service.go`, `dokku/services.go`) | files in `/tmp`, named by service and minute | dump, compress, drop, download | dokku `<type>:export`, gzip |
| App creation and deletion (`handlers/ws/ws.go`, `handlers/api/apps.go`) | none; dokku's | sequences of dokku commands | dokku |
| Services, app settings (`handlers/api/service.go`, `services/apps/service.go`, `dokku/`) | none; dokku's | one or a few dokku commands and parsing | dokku |
| Streams and terminals (`handlers/ws/ws.go`, `stream/`) | goroutines per socket, `commandBuffer` | start, read, write, disconnect | docker, dokku, activity log |
| Update notice (`server/middleware.go`, `services/update`) | `updateState` under a mutex; a goroutine | show, refresh | GitHub |
| Backups (`backup/`) | files under `backup_dir`, named by date, week and month | export, compress, rotate, retain | dokku `<type>:export`, cron, manual runs |
| GitHub key sync (`ssh/github_sync.go`) | dokku's `authorized_keys` | fetch, add, move, remove | GitHub, dokku `ssh-keys:*`, users |
| Audit (`handlers/api/audit.go`, `dokku/audit.go`) | none | fetch, drop, put together, fill in, export | dokku `audit:*` |
| Metric and list caches (`system/info.go`, `handlers/api/backups.go`) | values with times, under mutexes | read, refresh | host, public-address service |
| Activity log (`services/logs`) | a file under a mutex | append, read | all handlers |

What is hard here: goroutines and requests that share a table and act on what they read before
(`restart_operations.go`, `import_tasks.go`, `middleware.go`); requests that read the shared
configuration, decide, and save a copy without a lock around the three (`users.go`); a file that
is replaced by system calls any of which can fail or be the last one before a crash
(`config.go`); clocks read outside the mutex that protects what they are compared with;
sequences of dokku commands of which one fails half way and whose failure one handler reports,
another one logs and a third passes over (`ws.go`, `apps.go`); two loops around one socket of
which each notices only its own end (`ws.go`); rules that are written twice and have to agree
(`authz`, `templates`). `PROJECT.json` lists each hazard at its line with the properties that
watch it.

## 2. Modules

| Module | Models |
| --- | --- |
| `AppActionLifecycle` | what the tracked actions promise: one slot per app |
| `RestartOperations` | the store of operations, its goroutines, the handlers, dokku's side of an app |
| `AtomicConfig` | what saving promises of the users: the saved ones change in one step, the running ones follow |
| `ConfigFile` | `SaveConfig`/`WriteConfigFile` per system call, with names, inodes and descriptors |
| `UserAdmin` | the administrators' requests against the shared configuration |
| `Access` | browsers and their sessions in front of `UserAdmin`: login, logout, the middleware |
| `ScopedAccess` | the grants of a scoped user, in the middleware and in the pages |
| `AppRequests` | the requests that run commands: apps created and deleted, settings, services |
| `AppForms` | what is asked of `AppRequests` in the runs |
| `ImportTasks` | uploads, the table of tasks, the importing sockets, the temporary files |
| `ServiceExports` | dumps, their compression and their download |
| `AuditTrail` | what is shown of the audit plugin's log |
| `Streams` | the two loops of a socket and the command at the other end |
| `UpdateCheck` | the cached answer of the update check and its refresh |
| `Calendar` | dates, ISO weeks and `AddDate`, as the backups use them |
| `Backups` | the daily backup run: rotation, export, compression, retention, failures, midnight |
| `GitHubKeySync` | the reconciliation of the managed keys, per command of dokku |
| `MC...` | what a run instantiates: parts, forms, grants, symmetry; the constants are in the `.cfg` files. `MCServicePages` has `MCStreams` as a part, `MCHostJobs` `MCBackups` and `MCGitHubKeySync` |
| `...Proofs` | the theorems of a module |

`Access` EXTENDS `UserAdmin` and is shown to implement it with its sessions added
(`ImplementsUserAdmin`); `ConfigFile` implements `AtomicConfig`, which is what `UserAdmin` takes
for granted of a write; `RestartOperations` implements `AppActionLifecycle`.

**RestartOperations.** `operations` and `latestByApp` are the two maps, `runner[id]` is the
goroutine of an operation with its place in `run` (`pc`), and `appState` is what dokku would
report. A step is one section under the mutex or one call to dokku; `start` is `StartNew` or
`StartReused`, both with the cleanup that every locked section begins with. Each dokku command
may fail at any time, and an app may be deployed, crash, be created or destroyed at any time
(`AppChanges`). The code only compares ages, so the clock is kept as the age of each remembered
instant, held at one more than the limit it is compared with; there is no clock to bound.
Identifiers are taken again when nothing refers to them: `OpIds` bounds how many operations are
kept at once, not how many are started.

**ConfigFile.** `os.WriteFile` is an open that truncates and a write, and the rename and the removal
are calls of their own. Two names lead to inodes, and a saver holds a descriptor, so that a rename
by one saver under the descriptor of another is what the kernel makes of it. Every call can fail;
with `Denied` it can fail for permission, which leads to the overwrite in place. Restarts happen
between any two calls. A configuration is a list of users and the backup settings. Handlers that
save a copy begin with `Save`; `handleUpdateBackupSettings` changes the running configuration
(`SetBackup`) and saves what that is by then (`Marshal`), so a save of it that fails leaves the
settings changed in memory: what is atomic are the users. Loss of power (there is no `fsync` before
the rename) is not modelled.

**UserAdmin.** A handler is split where it reads or writes the shared configuration: the first
look-up, the checks, the copy with its change, the write of the file, the publication. The write
of the file is one step, which `ConfigFile` justifies for one save at a time
(`ImplementsAtomicConfig`); the case in which it is not justified is `config_shared`. A user has
the four fields the checks read.

**Access.** A session is a name and a role in the store, which a restart empties. `Auth` brings it
up to date on every request (`syncConfiguredUser`); the handler then goes by the role in the
session, while others may demote, rename or delete the user. A browser does one thing at a time.
A session whose name is given to another user becomes that user's: nothing else identifies it.

**ScopedAccess.** Paths are sequences of tokens, so that "is a prefix of" is what it is in the
code, also within a name. `CheckAccess` is what the middleware asks, `getUserAllowedApps` and the
`Shows...` and `canCreate...` operators what the pages ask. One link disagrees: a user to whom only the
route `/services/*` gives services is shown the Services link (`ShowsServices`), and the page itself,
`/services`, is refused. `PagesMatchAccess` excepts these users by name (`OnlyBelowServices`).

**AppRequests.** A request is the list of commands its handler has still to run; each has what the
handler does if it fails: stop with an error, tell the browser and go on, log it, pass over it, and
how many later commands go with it. Where the code reads dokku's answer to decide what comes next
(`ReadConfig`, `SelectOption`), the list is extended at that step, with what dokku says then. A
command that fails may have done its work (`Trouble`), as may one whose output contains the word
"error", which many handlers take for a failure. Of dokku the model has what the handlers rely on:
it refuses what does not exist or is still linked, gives the first service of a kind the variable of
that kind, and brings settings into force on a deployment. With the creation of an app the
certificate is asked for before the first deployment, and so refused: the browser is told. A form has
no values that `handleAppCreate` skips in silence: an empty variable, a mount without a source or a
destination, a port without its other half.

**ImportTasks.** A task and its temporary file have one identifier. `upload[t]` is the place of
the upload handler, `socket[s]` that of the importing one; deferred calls are steps. After a
restart the files that are left are `orphan`: nothing in the code removes them.

**ServiceExports.** A file is none, empty, mixed or whole, and a command writes to the file it
opened, under whatever name. The download removes the file whether or not it was sent. An export
command that fails leaves its dump (`left`); exports of one service in one minute share both files.

**AuditTrail.** The plugin's log grows; the answers are operators of the log, the reader, the
service's links and one call that fails (`trouble`). A detail (source, image, revision, metadata) and
a person carry the number of the event they come from, so that what was filled into an event can be
traced. The limits of the code (24, 12, 10, 6, 48, 250) are the constants `PerApp` to `Page`, in their
order. When the apps cannot be listed `requireAuditAppAccess` sets an error status and returns
nil, so its handlers go on below an error status; the middleware has checked the app by then. An
event of an app the user may see but the service is not linked to is listed on the page of the
service if it mentions it, and not found there when it is opened. An export that could not read some
app is sent without it, unless nothing else is in it.

**Streams.** One socket is the whole system: handlers share nothing. The six handlers differ in
which loop is the handler and which its goroutine, in whether they know control messages and
backspaces, in whether their command has a terminal, and in whether they say good-bye; the record
`handler` has that, and the actions are the same for all. A browser that leaves closes its socket in
order: the first write after it may still pass. Each line that is typed is handed to `LogActivity`
(`handed`) before it goes to the command, and the handler passes over its error: the file may fail
any call (`logFailed`), and the parameters, JSON put together by hand, are none if the command has a
control byte (a tab, an arrow key), a backslash that means something else, or in the console a quote
(`IsRecordable`). Such a command runs and is not logged as typed (`unlogged`). A connection that is
lost without a word, which no loop notices, is not modelled. `StreamTerminal` of `internal/stream`
is called by nothing.

**UpdateCheck.** A page reads the clock, then takes the mutex and compares; the goroutine asks,
reads the clock, then stores. Both gaps are steps.

**Backups.** The disk is a set of files, each with the parts its name is made of: type, database,
rotation, the day and the number of the run that made it; `form` tells an export that was cut
off, one that was not compressed, and a compressed one. A run takes its date when it starts
(`stamp`), while the cleanup reads the clock again (`today`); `Midnight` can lie between. What a
rotation removes is an operator of its own (`Replaced`), with the week that `calculateRemWeek`
prints and the leading zero that keeps it from matching (`HasZero`). A failed export, compression
or `mkdir` ends its type (`SkipType`), as the early return of `backupDatabases` does. `Calendar`
has the real calendar, leap years and ISO weeks included, so the runs start at real dates. Each
failure, kill, missed day and midnight within a run counts as a trouble, at most `MaxTroubles` of
them. The host's clock is taken to be UTC (the code compares local time with dates parsed as
UTC), no run is at midnight exactly, and runs are one after the other.

**GitHubKeySync.** `keys` is dokku's file, `managed[s]` and `byData[s]` a sync's copy of it, read
once; `want[s]` what the configuration and GitHub told it. A sync goes through the target users in
order (`turn`), adds or takes over keys one command at a time, and then removes the managed keys
that are left. The fetches of all users are one step with the reading of the keys, and the check for
a name that is taken is one with the addition. Other syncs and administrators act between any two
steps. A name of the managed form has an owner and a suffix, and a sync takes the key of such a name
for a managed one, whoever added it: `handleSshKeyAdd` accepts any name, so administrators may add
such keys (`AddByHand`). Of two keys of one owner with the same material a sync's copy has one, and
of any two with the same material `byData` has either (`Copies`, `Index`). Names of the managed form
and others are told apart by `NamesAssumption`, which says what the two kinds are, not who uses
them. A key that was removed from one user and could not be added for the other one is lost until
the next sync, which is reported.

## 3. Runs

Small parts of the system share a run: a behaviour of `MCRequests`, `MCServicePages`, `MCHostJobs` and
`MCAccess` is a behaviour of one part, while the variables of the other parts keep an initial value.
A property of a part that stands still holds of its initial state, and its fair actions are disabled
or take no step, so each part is checked as if it were alone. A behaviour of `MCRestartOperations`
uses one app in every way, or two apps whose actions stop all processes. The limits only restrict
which requests come in and how an app changes by itself: they never block a step of a goroutine or
of the clock, the steps that are fair.

| Run | Question | Bounds |
| --- | --- | --- |
| `restart_operations` | one action at a time, outcomes that stay, nothing hidden by the cleanup, refinement of the lifecycle, every action settles | two kept operations, two process types, TTL and timeout 1; one app with `restart` and `stop`, or two apps whose actions stop all processes |
| `requests` | the users are saved atomically, a finished save is in the file; names stay unique; what requests report, destroy and leave | one saver, two lists of users, two backup settings, three inodes, denied calls or not; two requests that create users with two names; two requests of every form on one app or a new one, two failures each |
| `config_shared` | (violated) the file is whole with two savers | two savers |
| `access` | an administrator remains, sessions are what the users are; pages and middleware agree | one request at a time, three names, two browsers, two passwords, all kinds; grants of up to two routes, any apps and services |
| `users_last_admin` | (violated) an administrator remains with two requests | two administrators, two requests that update or delete |
| `users_lost_update` | (violated) no update undoes another one | two administrators, two requests that set passwords |
| `service_pages` | one owner, files with owners, files of taken tasks are removed; exports that are offered are whole, dumps go; the log is shown to those who may see it, and whole; streams end with their browser or command, what is run was handed to the log; one check at a time, spaced by the TTL | three tasks, three sockets; three exports, two names; logs of three events, or of two when a call fails, four readers; six handlers, three messages out of four; two pages, TTL 2, clock up to 6 |
| `host_jobs` | retention removes nothing too early, failures stay in their type and are reported; keys of other names stay, a failed fetch costs no key, success means in sync, no key moves to and fro | three databases of two types, November 2024 to February 2025, one trouble, 2 days, 3 weeks, 2 months kept, monthly on the 15th; two users, two keys, one name that is not of the managed form: two syncs that overlap on one key, or syncs and changes by hand one after the other, with at most two keys of managed names no sync would give |
| `backups_short_month` | (violated) the latest three months stay | default settings, February to June 2025, no trouble |
| `backups_year_end` | (violated) the latest six weeks stay | default settings, November 2024 to February 2025, no trouble |
| `app_deletion` | (violated) linked databases go | one app with two postgres services, no failure |
| `services_listed` | (violated) linked services are listed | a message queue, no failure |

Why the bounds are enough: two operations and two apps are the least with which one operation of an
app can expire while another one is kept; with ages held at the limit, TTL 0 and 1 already tell "at
the limit" from "past it". Two savers are the least that share a temporary name, three inodes the
least for a file, a temporary file and one that a descriptor still holds. Three users are the least
with two administrators and a user a request is not about; two routes the least of which one can
grant what the other one does not. Two failures in a request are the least of which the second one
meets what the first one left. Three exports are the least of which two share a name and one does
not. Three events are the least of which one is cut off, one is filled in and one is what it is
filled in from; four readers are an administrator and users with no, one and two apps. Four messages
have a line with a quote, a backspace, an enter with the beginning of another line, which cannot be
recorded, and a control message; three of them make a line that is cut, corrected and ended. Two
syncs are the least that overlap, two users the least that a key can move between; while syncs
overlap an administrator adds and removes names that are not of the managed form, and between syncs
any names: two keys of names no sync would give are the least of which a copy leaves one out. The
rotation run crosses a change of year and three of months, and keeps few backups, so that everything
a setting keeps is replaced several times; one trouble is the most that leaves one of two daily
backups. The days end at `LastDay`, where `host_jobs` goes on without a step; requests, exports and
uploads come a bounded number of times, which is why the run `requests` does not check deadlock and
`service_pages` has a step that changes nothing at such an end. For the theorems of section 4 no
bound is left.

Fairness: goroutines that can run do (the Go scheduler), dokku commands that a tracked action or an
import runs return in the end (the code has no timeout for them; it is assumed), the HTTP client of
the update check has a timeout of 5 seconds, and a closed pseudo terminal hangs its command up.
Requests, sockets that ask for a task, messages, browsers that leave, commands at work in a stream,
changes of apps and restarts are never forced. For the key sync no fairness is stated and no end is
claimed: it fetches with `http.DefaultClient`, which has no timeout.

The runs that are expected to be violated:

* `config_shared`: `config.go:185` says that `WriteConfigFile` *atomically writes* a canonical
  config file. Two savers share `path + ".tmp"`: the second one's open truncates the file the
  first one has written and is about to rename.
* `users_last_admin`: `users.go:314` refuses to remove the last enabled admin, and the page says
  it cannot be changed. The count and the save are not one section. One request demotes the first of
  two administrators; before it has published that, another one, which demotes the second, counts
  two as well; then the second copies what the first has published and saves it, and none is left.
* `users_lost_update`: a handler copies the configuration it has read and saves the copy. Two requests
  that set the passwords of two users both copy before either publishes; the second publication
  brings the first user's old password back, after `users_test.go:52` and the page
  (`user_management.html:467`) have it updated.
* `backups_short_month`: `backup/README.md:86` says that monthly backups keep the latest
  `keep_monthly_num` rotations. On May 29 three months back is February 29, that is March 1, and
  the backup of March 1 goes. With `do_monthly` 15, where no date overflows, `MonthsStay` passes;
  `LateMonthliesStay` proves it for every `do_monthly` above 3.
* `backups_year_end`: `backup/README.md:85` says that weekly backups keep the latest `keep_weekly_num`
  rotations. `calculateRemWeek` counts 53 weeks in every year. On January 12 2025, in week 2, it asks
  for week 49, and the backup of December 8 goes, five weeks old. What does hold passes in `host_jobs`:
  within a year all the weeks that are kept, across its end one fewer (`WeekliesLive`). The other
  oddity of that function removes too little: weeks 1 to 9 are looked for as `01` to `09` but stored as
  `1` to `9`, so their backups stay.
* `app_deletion`: the box of the page (`app_danger_zone.html:53`) says that all linked databases are
  removed permanently. The handler finds them by `DATABASE_URL`, `REDIS_URL` and the name
  `<app>-db`; a second database, whose URL dokku puts under another variable, stays.
* `services_listed`: the comment at `services/apps/service.go:658` says that `GetAppServices` returns
  the services linked to an app. Those whose URL `isValidDatabaseURL` does not know, message queues
  for example, are left out.

Properties that are narrower than one might wish, because the code does no more: `AnnouncedIsWhole`
is about exports that share their name with no other one; `SuccessIsComplete` about requests that
were alone, and about failures of which the browser was told nothing; `LeftStreamsEnd` about
terminals whose command prints or exits (an idle one whose browser has left stays, with its process);
`CommandsAreHandedOn` about what is handed to the log, not about what the log holds in the end;
`OnlyManagedNamesGo` about keys whose names do not have the managed form, though the page says of all
that are added by hand that they are preserved (`ssh_keys.html:615`); `ImplementsAtomicConfig` about
users, not backup settings; `AdminRemains` in `access` and the settling of a key sync about one request
and one sync at a time; `OutcomeIsFinal` about what follows a result, not about whether the status that
led to it was still true.

## 4. Proofs

| Module | Theorem | States |
| --- | --- | --- |
| `RestartOperationsProofs` | `Invariance`, `TypeCorrect`, `SingleAction`, `RunnersOwnActions` | `IInv`, `TypeOK`, `OneActivePerApp`, `ActiveHasRunner` |
| | `OutcomesStay`, `FollowsLifecycle`, `NothingIsHidden` | `OutcomeIsFinal`, `ImplementsLifecycle`, `AgeInv` and `NoHiddenOperation` |
| `ConfigFileProofs` | `AlwaysWhole`, `SavesAtomically` | `FileIsWhole`, `ImplementsAtomicConfig` (of the users), for one saver and no denied call |
| | `SavesLast` | `SavedMeansSaved`, for one saver, whatever is denied |
| `RequestsProofs` | `SavesStay`, `NamesStayUnique` | `SavesAreSaved`, `NamesAreUnique` |
| | `DataIsSafe`, `DeletionRepeats` | `DataOutlivesApp`, `DeletionCanBeRepeated`, for all forms, apps and services |
| | `SuccessStaysComplete` | `SuccessIsComplete`, for all forms, apps and services |
| `AccessProofs` | `UniqueNames`, `TypeCorrect` | `NamesAreUnique`, `TypeOK`, for any number of requests that may overlap |
| | `AdminStays` | `AdminRemains`, while requests do not overlap |
| | `StaleSessionsAreHarmless`, `OwnUpdateIsFollowed` | `ImplementsUserAdmin`, `OwnUpdateKeepsSession`, while one request is past the middleware |
| | `AdminStaysBehindSessions` | `AdminRemains` again, of browsers with sessions |
| | `OnlyWhatIsGranted`, `PagesAgree` | `GrantedAppsOnly`, `PagesMatchAccess`, for any paths, routes and names |
| `ServicePagesProofs` | `SingleOwner`, `FilesHaveOwners` | `OneOwner`, `FileIsOwned` |
| | `DumpsGo`, `OffersAreWhole` | `DumpsAreRemoved`, `AnnouncedIsWhole`, for any number of exports |
| | `AuditStaysScoped` | `AuditIsScoped`, for any events, apps, links and limits of the lists |
| | `AuditStaysFaithful` | `AuditIsFaithful`, for any log that fits one page of events (`MaxEvents <= Page`) and overviews that show no more than they ask each app for (`Shown <= PerApp`) |
| `BackupsProofs` | `DailiesRetained`, `FailuresStayLocal` | `DailiesStay`, `FailuresAreLocal`, for every calendar and all settings |
| | `LateMonthliesStay` | `MonthsStay`, for every calendar, when the program chooses the rotation and `do_monthly` is above 3 |
| | `WeekliesRetained` | `WeekliesLive` (within a year all kept weeks, across its end one fewer), from every first day, when the program chooses the rotation and at most 52 weeklies are kept |
| | `BackupsRemain` | `BackupRemains`, for all databases and every order of failures, kills and midnights, with one run a day and fewer troubles than daily backups are kept |
| `UpdateCheckProofs` | `SingleFlight`, `MovesForward`, `SpacedByTTL` | `UpdateInv`, `CacheIsMonotonic`, `ChecksAreSpaced` |
| | `RunCommandsAreHandedOn` | `CommandsAreHandedOn`, for any messages of any keys, however many |
| `GitHubKeySyncProofs` | `OtherNamesStay`, `SilenceIsHarmless` | `OnlyManagedNamesGo`, `FailedFetchIsHarmless`, for any number of syncs |
| | `NothingToDo`, `SuccessIsInSync` | `NoChurn`, `SuccessMeansInSync`, for any number of users and keys |

*One action per app.* `start` looks only at `latestByApp`, so uniqueness needs `ActiveIsLatest`
(an active operation is the one the pointer leads to); that is kept by `update`, which moves the
pointer, only because every update is by the goroutine of an operation that is active
(`ActiveHasRunner`), and that by the agreement of table and goroutine (`PcMatchesState`). The
five parts together are inductive.

*Outcomes and lifecycle.* By `ActiveHasRunner` an update is of an active operation, so one that is
over is only ever removed. The slot `AppActionLifecycle` has for an app is what its pointer leads to;
each call on the store is shown to move one slot by a step of the lifecycle, or none.

*Nothing is hidden.* The cleanup drops an operation and, if it leads there, the app's pointer; an
older operation would then stay with nothing that leads to it. That this cannot happen is an argument
about time: operations of an app follow each other, so the latest finishes last (`LatestFinishesLast`)
and is never older than another when the cleanup compares ages. The time of a result is taken before
it is stored, with any number of ticks between, so an active operation counts with the time its
goroutine has taken (`ResultAge`). `AgeInv` is inductive relative to `IInv`.

*Atomic save.* With one saver the temporary name leads to the saver's own descriptor from open to
rename (`SaverInv`) and never to the file (`TempIsApart`); so what is renamed is what was written,
and the users in memory are those in the file except between rename and publication, which is the
refinement's one state out of step. A saver that saves the running configuration itself (`sharing`)
has the users of it in its bytes, whatever has become of the backup settings. A success is answered
after that, so the file then has what was saved (`LastInv`), also by the overwrite in place of a
directory that denies the rename: for this one nothing is assumed of the directory. `RequestsProofs`
takes the theorem of `ConfigFileProofs` for both directories of the run, the second one through an
instance whose operators are shown to be the same.

*Unique names.* Only `ValidateUsers` inside `SaveConfig` protects the names; the proof shows that
it alone suffices: what is between write and publication has been validated.

*Administrators, updates and sessions.* Everything else about users is proved of behaviours in which
requests do not overlap (`OneAtATime` for `UserAdmin`, `OneRequest` for `Access`), and is false of
the others: the code checks and saves without a lock around the two, which `users_last_admin` and
`users_lost_update` show. The hypothesis is a formula about the behaviour, `[]OneAtATime`, so the
theorems speak of the same specification the runs check. `AdminInv` says what a single request may
rely on: what it has found and checked is still so, its copy is made from the shared users, and
memory and file differ only between write and publication. Which user `FindUser` finds then does not
depend on the order of the list, because the names are unique; that is why renaming and removing
need no bookkeeping of positions. For sessions, `SessionInv` says that while a request waits for its
handler the session of its browser is that of an enabled user; a browser with an older session never
gets past the middleware.

*Grants and paths.* `GrantedAppsOnly` and `PagesMatchAccess` say of every state what follows from
the operators alone, so the work is in lemmas about paths: what a prefix, a suffix, a segment and a
trimmed path are, token by token (`PrefixIs` to `FirstSegmentIs`), and what becomes of a path that is
put together from a root, a name and a rest (`PathParts`, `FirstIsName`). A path below the root of the
apps then has one tail, whose first segment is the app's whole name (`OneAppTail`, `AppAccess`): a name
that begins another one does not matter. For the list of apps, a route that covers the page of an app
gives the app (`CoveredIsGranted`), whether it ends in a star within a name, behind a slash or not at
all; what is listed and what is served are then both "everything, by name, or by a route"
(`ListedApps`, `ServedApps`). For a link, a route with a star that covers a page below `/apps/` without
being below it itself is `/*` (`CoversBelow`).

*Import tasks.* Ownership is handed from upload to table to socket; the parts about files need
the agreement of handler positions and files (`PcMatches`).

*Update check.* `refreshing` is set exactly as long as a goroutine is between start and store;
hence no second one can store an older instant, although clocks are read outside the mutex.

*Daily backups.* No invariant is needed: the only step that may remove a compressed daily backup
is the cleanup. The rotation removes backups of its own kind, and of the daily ones only those
that are not compressed (`ReplacedDailies`).

*Monthly backups.* The months of the calendar have 28 to 31 days, so a date that overflows when
months are taken off it lands on one of the first three days of the next month. Monthly backups of a
program left to itself are all of the day `do_monthly` (`DatesAreLate`); if that is a later one, the
cutoff is never after the backup of a month that is to be kept (`CutoffIsEarly`), and the
replacement of a month's backups leaves the newest one in place.

*Weekly backups.* A weekly backup is found by the number of its week alone, so what has to be shown is
how much time lies between a day and an earlier one whose week has the number `calculateRemWeek`
asks for. A day is one of the calendar if its date is one and its week the ISO week, that of its
Thursday (`InCalendar`); the next day then is one too (`TomorrowInCalendar`), which comes down to the
years that begin on a Monday between December 28 and January 3 (`YearStarts`) and to the last week of
a year having the number 52 or 53 (`YearsAreLong`). Two days follow each other (`Follows`)
when as many weeks have passed as their numbers say, or a year has begun and at least 52 more have; and
as many days as their dates say, of months of at least 28 days. `ScheduleInv` says this of every backup,
the run and the day it is, and that weekly and monthly backups are of the days the settings name. The
first day may be any day of the calendar; the definition of `InCalendar` is by the rule for
ISO weeks, not by `NextDay`. With 53 or more weeklies `calculateRemWeek` asks for this week or a later
one, so `KeepWeeklyNum <= 52` is needed.

*A backup remains.* The argument counts days. `Accounted` is a set of bad days, of which there are
at most as many as there were troubles: each day that counts is bad or has left a compressed backup
of every database (`Settled`); the days that count are the last `keep_daily_days` ones, before a
cleanup as of the run's day, after it as of today. A failure is that of the day its run has begun, a
missed run that of its day, and a midnight during a run that of the next day, which has no run of
its own any more if the first one takes long. Each action keeps such a set or adds one day to it
(`RunKeepsAccount` to `NoStartKeepsAccount`). With fewer troubles than days one of them was good
(`OneIsGood`), and its backups outlast the step: the cleanup leaves daily ones, and weekly and
monthly ones are kept longer (`BackupStays`, by the two ways of `Follows`). So whatever a step
removes of a database, a compressed backup of a good day is still there. That a run exports a
database once, and that of a day and a database there is never a partial backup beside a compressed
one (`FilesInv`), keeps the monthly cleanup from choosing a partial one for its month.

What `BackupsRemain` assumes (`Cron`, `KeptForLonger`) is what the installation sets up: one run a
day with `auto` (`scripts/cron/pruvon-backup:33`, in `/etc/cron.daily`), lists of types and
databases without repetitions, a daily backup dropped before the weekly and the monthly ones of its
days, which 7, 6 and 3, the program's own values, satisfy. Without it the property is false: as TLC
found, a second run on the day of a monthly backup that is cut off leaves a partial file of that
day, and the monthly cleanup may later keep that one and remove the whole one. And with few weeklies
but many dailies, the days on which no daily backup is made have nothing left of them while they
still count.

*Failures stay local.* A database of a type without a complaint either has its compressed backup of
this run or is still to be done: its type is, or its type is the current one and it is in the queue or
being worked on (`NothingForgotten`, with `PlacesAgree` for where the run is). At the cleanup nothing
is to be done.

*Commands and their log.* `StreamInv` compares two terminals: one that is given what the command has
received and what is about to be written to it, and one that is given the commands handed to the log
again, with an enter behind each, and then the line that is still open. As long as the command reads
they show the same, because each key does to the second what it does to the first (`EditIsShown`),
wherever the messages cut what is typed: also with a backspace the console logs as a key, one at the
start of a line, and an enter on an empty line. Once the command or its handler is over, what it has
received does not change any more and the lines that were handed on stay as they are
(`MessageIsShown`). What the log misses of them is kept by `LogInv`. Nothing is assumed of the
messages but that they are sequences of keys (`MessagesAssumption`).

*Exports.* A dump that is there has an export between the start of its command and the removal, or is
what a failed command left (`DumpIsOwned`); no export removes what would make this false for another,
because the owner of a dump is told by its name and step alone. For `OffersAreWhole`, an export that
has its name to itself has in its files what its step calls for (`SoleIsWhole`), and exports of other
names touch neither file. That a second one begins later is no exception: it takes the name away.

*Audit.* Every list a handler works with is one of events of the log, by where it was fetched from: of
the user's apps, or of the host and about the service (`ListsOfApps`, `ServiceEvents`). That putting
lists together and sorting them gives a list of the same events needs that a sorted list exists, for any
finite set of events (`SortedExists`: an element finds its place among the others). An event that is
filled in stays itself but for the actor and the details, and these are its own or those of an event of
the list it is filled in from (`EnrichedForm`, a loop over the related events); so nothing gets into an
answer that was not in such a list (`EnrichedKnown`). `LogInv` is what this rests on: the number of an
event is its place in the log, and the apps of a reader and those of the service are apps.

That nothing is missing from an answer (`AuditStaysFaithful`) is about the places of lists. An event
stands behind at least the events it stands behind in a list of some of them (`PlaceGrows`). So two
lists of the same events, the newest first, are the same (`OneList`), and an event among the
`Shown` newest of all is among as many of its app: cutting each app's list off first loses none of
them as long as `Shown <= PerApp` (`CollectedNewest`; the code asks for 24 to show 12, and for 10 to
show 6). Sorting a page or leaving events out of it keeps the order (`EnrichedList`, `Filtered`). The
loop that fills in an event never replaces a person, and ends with one if one took part
(`FilledActor`). The flows of the deployments grow event by event, the oldest first: each is the
whole deployment as far as it has been read (`FlowsGrow`, `Grouped`), and at the end it has the first
and the last time and the last status that was reported (`FlowIs`). The other pages ask for 250
events and 12 deployments; of a longer log they show a part by intention, so the theorem says
`MaxEvents <= Page`.

*Deletions.* A deletion is a list of commands, put together from what the form and dokku say and
shortened while it runs. `DeletionInv` says what is always true of the rest of it: the removal of
storage, if it is still there, is the last command and stands directly behind `apps:destroy`, no
command that fails takes its successors with it across that place, and of the commands whose failure
ends the request all are about the app itself. It is shown once for the whole list, when it is put
together (`PlanProper`), and kept by taking commands from its front (`RestFits`).

*Success.* What a form asks for is a set of goals, each the effect of one of its commands (`Goals`;
`GoalsAreGoals`, `GoalsFulfil`). `SuccessInv` says, of a request that runs alone and of whose
failure the browser has not heard, where each goal stands: it is reached and the rest of the list
spares it, or the rest leads there (`Leads`): it has a command with that effect whose failure would
be told, that no later command undoes and that no quiet failure skips. A new request's list leads to
all its goals, shown form by form (`PlanLeads`, with `CreationLeads` for the longest one, whose
services are a list of any length, and `DeletionLeads`); a command that succeeds reaches its goal
(`CommandTakesEffect`) and no other one's is lost (`EffectStays`); a failure that is told ends the
claim, and a quiet one skips no command a goal depends on (`ComesAfterQuietFailure`). When the list
is empty, every goal is reached (`SuccessIsFulfilled`). `DeletionInv` is needed beside it, for the
one list that is shortened while it runs.

The forms may be any that satisfy `FormsAssumption`: a kind the code knows, something to set or to
unset where the kind calls for it, an app that exists as a name unless the form is of a service, and
with a new app a list of services, each a type with a name, and wishes that the form has. A new app
without a domain gets no certificate even if it is asked for (`apps.go` runs the step only with a
domain, and `create_app.html:42` shows it as skipped), so its success does not promise one.

*Keys.* A sync removes only by its copy, which may be older than the file by any number of other
syncs. `CopyInv` says what is still true of it: it holds managed keys only, the users whose turn it
is have been answered for, and there are none outside the part that gives keys to users. It is
inductive for each sync by itself, so nothing about the others is needed. For a sync that nobody
interferes with (`picture` is not stale), `PictureInv` adds that its copy is the file as it is now,
but for keys it has left out and that may stay (of two keys of one owner with the same material,
given such names by hand, a copy has one; a sync that leaves a key it would have to remove to the
next one counts as interfered with), that the keys of the users it has been through are in place,
and that a key it could not give is in its report; at its end nothing wanted is missing
(`SuccessIsInSync`), and one that had nothing to do when it began has nothing to do at any step
(`NothingToDo`). The theorems take the key material to be a finite set (`DataAssumption`): the order
in which a user's keys are handled is a sequence of it.

*Loops over lists.* Where the code walks a list, the model has a recursive function or a fold, and
what it computes is proved for lists of every length without induction over data: if the claim were
false of some list there would be a shortest one, or a first place in it, where it is (the
natural numbers are well ordered), and that one is contradicted. `RemoveUser`, the concatenation of
the parts of a request and the keys of a message are done that way; for the last, `CourseExists` and
`OneCourse` say once for every loop that it has exactly one course.

Assumptions on constants: the types and the databases of each are sequences (`DatabasesAssumption`
of `Backups`), as the settings and dokku's list give them; the kinds of requests are those the
handlers have and `NoBrowser` is none (`UserAdmin`, `Access`, and `UserRequestsAssumption` for the
run `requests`); and of `MCAccess`, `GrantsAssumption`: paths are sequences of tokens, the names of
apps and services are not empty and have no slash, no app is called `create`, and a menu entry below
`/apps/` names an app. Nothing in the code keeps an app from being called `create`; the routes
reserve that segment for the form that creates one (`IsReservedAppPathSegment`), so such an app is
outside of what is shown here. `AuditAssumption` has the limits of the lists be numbers, the actor
of an event one of four kinds, and the host, the grants of a reader and the apps of the service what
they are. TLC evaluates all of the assumptions. `ServiceExports` assumes nothing.

Only model-checked: liveness (`ActionsSettle`, `ClaimedIsRemoved`, `RefreshEnds`, `LeftStreamsEnd`,
`DeadStreamsAreTold`), which is out of the prover's reach.

## 5. What is not modelled

Rendering, routing and installation; the YAML encoding; the parsing of dokku's output where it
changes no state; the comparison of two versions; the maintenance of the audit plugin; the killing of
a container. The metric and list caches show values nothing acts on; the public address can be asked
for twice in a row, because the lock is given up between the check and the refresh
(`system/info.go:346`). Of the activity log only what becomes of a typed
command is modelled; it is otherwise an append under one mutex.

Two saves that overlap can leave memory and file different, which the model of the file shows and
nothing in the repository promises otherwise. A save that fails after `handleUpdateBackupSettings`
has changed the running configuration leaves the new backup settings in memory; a test asks the
contrary of the handlers that change users (`users_test.go:146`), and they keep it, which is why
`ImplementsAtomicConfig` is about users. Not modelled either are the values `handleAppCreate` skips
in silence, and keys whose lines `ReadAuthorizedKeys` cannot parse, which no sync sees. Two backup
runs at the same time are not modelled. A backup that was cut off can displace a whole one made
earlier in the same month; the model has it, no property forbids it.

## 6. Plan

1. Done: tracked actions; configuration file, user administration and sessions; grants; apps, their
   settings and services; service import and export; audit; streams; update notice; backups; key sync.
2. Done: proofs of the safety and action properties the passing runs check, with the hypotheses named
   in section 4.
3. Next models: two backup runs at once; the lists of services and containers and the caches behind
   them.
