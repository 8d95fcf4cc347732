# Verification of VPNView

VPNView is a web panel, written in Go, for the users of sing-box, Xray and V2Ray.
It keeps the users in SQLite, writes those who are enabled into the configuration
file of the core, polls the core's traffic counters, and disables users who are
over quota, expired or too fast. This directory holds TLA+ models of that
behaviour, their TLC runs, and proofs checked by TLAPS. `PROJECT.json` lists runs,
mutants, findings, hazards and theorems, and maps every definition to the lines it
stands for.

## Inventory

| Component | State | Operations | What makes it correct | Where |
| --- | --- | --- | --- | --- |
| Adapter core synchronisation (`adapter/singbox`, `adapter/xray`: `config_manager.go`, `adapter.go`) | users in memory under a mutex, the JSON file, the debounce timer, running reloads | AddUser, RemoveUser (Disable and Enable are the same), reload after 5 s, start | a whole file holds every written change, a written change reaches the core, and a failed call or a restart loses no other user | `CoreSync` |
| Configuration documents (same files) | none: a document from a template and users | render, parse back, route markers, counted users | what is written is what is read back; the administrator's part stays; nothing is left of removed users | `ConfigDocument`, `Connections` |
| Traffic accounting (`traffic_service.go`, `store.go`) | last counters, speeds, rows, a mutex held over the network | poll, AddTraffic, forced poll of a delete | no byte is charged twice; what is lost is only what a fault loses | `TrafficAccounting`, `Strikes` |
| Account management (`user_handler.go`, `user_service.go`, `main.go`) | the steps of the running handlers | create, patch, delete, list, startup sync | rows and core entries agree | `Accounts` |
| Lifecycle enforcement (`lifecycle_service.go`) | the running check, speed strikes | checkAll, disableUser | who is over a limit is disabled in the end, who is not is never struck | `Accounts`, `Strikes` |
| Core manager and configuration (`core/manager.go`, `config.go`, `registry.go`) | runtimes, open statistics connections | normalise, create, select, close | exactly the cores that were switched on run, the default among them; nothing stays open | `Startup` |
| Login and address blocking (`auth/`, `auth_handler.go`, `middleware.go`, `router.go`) | failure counts, blocked addresses, cookies in the browser | login, logout, block, the chain of middlewares | the limit holds under concurrent logins; a session works until it ends and is gone after a logout | `Login` |
| Dynamic DNS (`ddns_service.go`, `cloudflare/provider.go`) | the running check | resolve, read, update | the record follows the address and never names a wrong one | `Ddns`, `Startup` |
| Clash connections and identity (`clash_client.go`, `identity/`, `ipmap.go`) | address to user mapping | resolve, list, kill | a connection is given to the right user | `Connections` |
| Stub adapter (`adapter/stub`) | simulated users and limits | limits, made-up traffic | what it cuts is not struck | `Strikes`, `Startup` |
| Subscriptions (`subscription*.go`) | records the client address | protocol and secret of a link | a link opens a door of the file | `ConfigDocument`, `Connections` |
| Statistics and capabilities (`stats_handler.go`, `capability_handler.go`) | none | read-only views | | not modelled |
| Web client (`web/js`) | session, cached lists, refresh timer | login, logout, refresh, forms | an old answer does not replace a newer one | not modelled |
| Installer (`install.sh`) | manifest, backups | install, rollback | a failed installation leaves the machine as it was | not modelled |

How they interact: the HTTP handlers run one goroutine per request and call
UserService; UserService and LifecycleService (one ticker goroutine) call the store
and the adapter of the user's core with no lock between the two; TrafficService
(another ticker goroutine, and DeleteUser) polls under its own mutex and adds to the
store, and LifecycleService reads the speeds under that mutex. The adapter locks its
map and file; its reload is a timer callback. The core reads the file whenever it is
told to reload or starts on its own. Every request but a subscription passes the list
of blocked addresses, the CSRF check and the token check in this order; a subscription
teaches the panel which address a user has, and the resolver uses that for
connections whose user the core does not name.

The hard behaviours are these: handlers, lifecycle, poll and timer interleave on
whole rows and on one file; the file is written in place; the pending reload, the
last counters, the failure counts and the handlers' progress are lost with the process;
each of several steps can fail; counters restart at zero; two tickers of the same
interval drift against each other; the panel reads back a document it has rewritten;
answers reach the browser in another order than they were made; the public address and
its record change while they are compared. `PROJECT.json` lists each hazard at its
line, with the properties that would notice.

## Plan

1. `CoreSync` with the abstract `UserTable`: done, proved.
2. `TrafficAccounting`: done, proved.
3. `Accounts` (handlers, lifecycle, startup sync): done, proved for one request.
4. `Strikes` (speeds, strikes, the poll's lock, the stub's limits): done, proved but for
   its liveness.
5. `Login` (addresses, cookies, middlewares): done, proved.
6. `ConfigDocument` and `Connections` (documents, links, attribution, killing): done,
   proved.
7. `Startup` with `Ddns` (normalisation, cores, startup sync, the DNS loop): done,
   proved but for its liveness.
8. Left: the asynchronous refreshes of the web client and the installer's rollback. Every
   safety property the runs check has its theorem; what could be proved further is what
   concurrent requests keep in `Accounts`, where the runs allow one at a time.

Each module follows the same lines: constants with named assumptions, one action per
step between which something else can run, a history variable only where a property
needs it, no RECURSIVE operator where theorems are wanted. Composition: `Startup`
extends `Ddns` and runs its loop between the start of the server and the end of the
process; `Connections` extends `ConfigDocument` and runs its functions on a living
adapter with clients; the file of `Accounts` is the `fileUsers` of `CoreSync`,
restricted to who is in it, and what each entry of it says is `ConfigDocument`'s; the
rows of `Accounts`, `TrafficAccounting` and `Strikes` are the same table, each with the
columns its properties read.

## The modules

**`CoreSync`** — one config-patching adapter and its core. `users` is
`ConfigManager.users`, `fileState`/`fileUsers` the configuration file (torn between the
truncation and the end of `os.WriteFile`), `pc` where each goroutine is (`rendering` and
`writing` hold `ConfigManager.mu`), `timer` and `firing` the debounce timer and the
callbacks it started, `loading` what the core has read and not yet served, `core` what
it serves, `proc` the panel's process, `rows` the enabled users of the store and
`toSync` those the startup sync has still to add. `AddUser`, `RemoveUser`,
`WriteRefused`, `Truncate`, `WriteShort`, `WriteDone`, `ArmReload` are the steps of a
call; `Fire`, `ReloadRead`, `ReloadFailed`, `ReloadOk`, `LoadFailed` those of a reload;
`Crash`, `Start`, `BootDone` those of the process. `SyncUser` and `SyncDone` are
`syncEnabledUsers`, which adds every enabled user again through the same steps and so
arms the timer; it ends before anybody else may call. Rows come and go as the services
save them: before the call in a creation, after it otherwise, and not at all when the
store fails. Three history variables record the last written change of a user, whether a
reload should have happened and did not since the last write, and the number of calls.
sing-box and Xray share this control; deployments without any automatic reload are not
modelled.

**`UserTable`** — what the adapter promises: tables are published, the core reads and
then serves a published one, or nothing, and the last one in the end.

**`TrafficAccounting`** — `counter` is the core's, `last` is
`TrafficService.lastTraffic`, `pending`/`shot` the answer of the running poll, `rows`
and `used` the store, `held` the rows that handlers have read and will write back.
`sent`, `recorded`, `base` and `calm` (nothing restarted, failed or wrote rows back so
far) are history. Upload and download are one number and one
core stands for all (the code keys both separately). The speeds `pollTraffic` computes
are not part of it.

**`Accounts`** — `rows` is the store, `mem` and `file` the users in the adapter's map
and file, `job` what each request does next and the row it has read, `due`, `seen` and
`cutting` the running `checkAll`. Every read, adapter call and write of a row is a
step. A failed adapter call has changed the map, as in `CoreSync`. Expiry and speed
strikes are a free choice among enabled users, the quota is decided by the row.

**`Login`** — `attempts` and `blacklist` are the maps of `IPBlocker`, `mu` its mutex,
`firewall` what the host drops, `req` the login requests. `Arrive` is
`IPBlockMiddleware`; `BadBody`, `Mismatch` and `Match` are what the handler makes of the
body; `RecordFailure` and `BlockAtSystemFirewall` are the failure, with the command that
runs while the mutex is held; `ResetAttempts` is the success. `answers` are login and
logout answers on their way, in any order; `DeliverLogin` and `DeliverLogout` are what
a browser does with their cookies (external), `Tick` and `CookiesExpire` time. Requests
other than logins are not steps but operators: `Executes` says whether a call with given
cookies, header and bearer token gets through the chain `NewRouter` builds. `guesses` is
history.

**`Strikes`** — time passes in seconds, and only when nothing is left to do at this
moment or a poll is held up (`Tick`). `pollDue` and `checkDue` are the channels of the
two tickers, which hold one tick. `PollTick`, `PollLock`, `Answer` and `QueryFailed` are
one `pollTraffic`, `DrainBegin` and `DrainLock` the one a delete forces; `CheckTick` and
`CheckSpeeds` are `checkAll` as far as speeds go; `SetEnabled` is the administrator, and
`UpdateRow` and `UpdateCore` are the two halves of his `UpdateUser`: `limit` is what the
rows say, `limits` what the stub has been told, and `patch` a limit on its way from one
to the other. `served` is apart from `enabled`, because a row that cannot be written
leaves the user out of the core; `PanelRestart` a restart. `Settle` ends the
disturbances: liveness is claimed from there on. A real core reports what was sent, the
stub makes numbers up and cuts them to the limit it knows.

**`ConfigDocument`** — functions from documents to documents: `Load`
(`loadUsersFromConfig`), `Render` (`writeConfigLocked`, with `InjectUserRouteMarkers`),
`Link` (`subscription.go`), for the three variants; `Existing` is the document users are
loaded from, `Source` the one a write starts from, which is the template where there is
one. A document is its inbounds with
their lists of users, its outbounds, its rules and its counted users; `Documents` says
what they are made of, `Names` stands for the strings in it, `NoList` for a list an
inbound does not have. Filtering a sequence is written by positions (`At`), not by
recursion, so that it can be proved about. **`Connections`**
runs them: `Start`, `AddUser`, `RemoveUser` and `DisableUser` write, `Reload` lets the
core take the file over, `Connect` and `Close` are clients at the core (external),
`Subscribe` remembers an address, `KillList`, `KillListFails`, `Kill` and `KillerEnds`
are the goroutines that close a disabled user's connections, one for each disabling, two
of which may be after the same user. A setting names the document at the config path, if
there is one (`found`), and the template (`base`), which may be quite different.

**`Ddns`** — `BeginCheck`, `QueryIP`, `NextResolver`, `GetDNSRecord`, `UpdateDNSRecord`,
`UpdateFails` are one check; between any two of them `HostChanges` and `OthersEdit` may
happen, until `Calm`. **`Startup`** — `Boot` is `applyDefaults`; `LoadCore`,
`LoadCoreFails` and `FinishCores` are `NewManager`; `SyncUser` is `syncEnabledUsers`;
`InitOnce`, `Serve` and `ServeFails` (any error of the listener) the rest of `main`;
`Stop` any end of the process, after which config.yaml may be another one.

`MC*` modules give constants and symmetry. Definitions commented as mutants are
faulty variants used to test the properties; the specifications do not use them.

## The runs

| Configuration | Result | Shows |
| --- | --- | --- |
| `CoreSyncFaults` | passes | `AckedInFile`, `AckedServedOrPending` with every fault and the startup sync |
| `CoreSyncLive` | passes | `EventuallyServed`; `UserTable` is implemented, its fairness included |
| `CoreSyncRestart` | violated | the last enabled user of a core, removed, is served for ever after a restart (finding) |
| `TrafficCounted` | passes | `NeverOverbilled` with every fault; exact and complete count while none occurs |
| `TrafficOverwrite` | violated | a late row takes traffic away (finding) |
| `AccountsSerial` | passes | `FailureSpoilsOnlyItsUser`, calls failing and restarts |
| `AccountsLifecycle` | passes | `ServedHasRow`, lifecycle goroutine and every fault; `QuotaEnforced` under fairness |
| `AccountsPatch` | violated | a PATCH changes a field it was not given (finding) |
| `Login` | passes | `GuessesBounded`, `BlockedWithCause` under overlapping logins; `SessionWorks`, `LogoutClears`, `CookieCallsNeedCsrf` whatever order answers arrive in |
| `Strikes` | passes | `HonestNeverStruck`, `TwoReadingsToDisable`, `LimitHonoured` with every disturbance; `HogDisabled` under fairness |
| `Connections` | passes | `RoundTrip`, `LinkWorks`, `ForeignKept`, `MarkersExact` for every document and user; `NobodyLockedOut` for every start; `AttributionExact`, `KillerThorough` with clients, reloads and restarts |
| `Startup` | passes | `RunsAsConfigured`, `NothingLeftOpen`, `EveryoneSynced` for every configuration; `DdnsWritesRight`, and `DdnsConverges` under fairness |

Bounds. Two users, because the hazards concern one user's call publishing or losing
another's change; two callers in `CoreSync`, because a call, a callback and a second
call are what the lock and the timer separate. `MaxOps` bounds calls, `MaxReloads`
callbacks running at once; two of each are enough for a callback that meets the write of
a later call. `CoreSyncFaults` has one credential, because who is in the file is what a
lost change is about, and starts from any rows and any file. `MaxSent` 2 lets a counter
move before and after a poll, a restart and a late write. `MaxUsed` reaches the quota.
One request at a time in `Accounts` is a condition of its properties, not only a bound:
see below. `Login` has three requests, as many as the limit of failures, so that all can
pass the list before one of them counts; two addresses, the host's own and another; two
secrets, so that a restart can change it; answers that live one tick longer than their
token; and five settings, one for each way the cookies can be made. `Strikes` has one
user, since users meet only in the lock; an interval of two seconds, so that a tick of
the other ticker falls on and between polls, three strikes, two limits, so that one can
be raised and lowered, and a rate that exceeds the lower limit in one second but not in
every average, and the higher one never. `Connections` has two users, one address both
can use, two connections, two killing goroutines and 23 settings: each variant with and
without a template, a template over another document with more or fewer inbounds, a
chosen inbound, and documents that hold users already, twice or without a name; clients
connect under two of them, which keeps the rest small. Connections and goroutines are
symmetric. Accounts have every protocol the links know but shadowsocks, none, and one
that no link knows. `Startup` has ten configurations of cores (each branch of the
normalisation, each reason a core cannot be made) and six of the DNS loop, 30
installations, three core ids and two accounts; no installation has both, because loop
and cores share nothing but the process. `CHECK_DEADLOCK FALSE` is used where calls are
bounded, or where a torn file stops the panel for good.

What a failure excuses is kept in history variables, never in a weaker action: `spoiled`
names the users whose own last attempt failed or was cut short, `missed` says that a
reload the core should have made did not happen, and nothing was written since.
`QuotaEnforced` assumes that restarts and refused rows come to an end; refusals of the
core need not. Its fairness forces only checks that find someone over quota: a check
that finds nobody may change nothing, and expiry and strikes stay a free choice.

Fairness. `CoreSync`: a goroutine inside a call goes on, a timer goes off, a reload
ends, the startup sync goes on, the service manager starts the panel again (`Restart=`
in the unit the installer writes); nobody is obliged to call. `TrafficAccounting` and
`Accounts`: the tickers go on and the steps of a poll or a check end. `Startup`: the DNS
loop goes on, and a request of it ends, in an answer or a failure (the client has a
timeout). `Strikes`: time passes, the goroutines take their ticks, and a core that is
asked once disturbances are over answers. Before that nothing obliges it to: the call
has no deadline, a core that hangs keeps the mutex of the traffic service for ever, and
whoever waits for it waits for ever. No property claims otherwise. All of this is weak
fairness. Strong fairness stands for one thing, the `sync.Mutex` of the traffic service:
Go hands a mutex to a goroutine that has waited for a millisecond, so whoever waits for
it gets it although others take it meanwhile (`PollLock`, `DrainLock`, `CheckSpeeds`).
`Settle` and `Calm` say from when on a liveness property counts; nothing obliges
disturbances to end.

## Findings

`CoreSyncRestart`, `TrafficOverwrite` and `AccountsPatch` each refute
a sentence of the code's comments; `PROJECT.json` quotes it. The first needs a core that
nobody enabled is left on: otherwise the startup sync adds somebody, and the reload this
asks for cuts the removed user off too.

A fourth has no run of its own: users are loaded from the existing file, lest clients be
cut off when the panel is first put in place (`config_manager.go:124`), but every write
starts from the template, so the first one locks out the clients of an inbound the
template lacks. `NobodyLockedOut` states what is kept: the inbounds of the types the
template has. Two more behaviours were met and are documented nowhere, so no run claims
them: with two concurrent requests a delete can fall between the core and the row of an
enable, leaving a core entry without a row, and a disable by the lifecycle goroutine can
fall around an enable, leaving a disabled user in the core. This is why `Accounts`
promises `ServedHasRow` for one request only.

## What is proved

Eight modules, `CoreSyncProofs`, `TrafficAccountingProofs`, `AccountsProofs`, `LoginProofs`,
`StrikesProofs`, `StartupProofs`, `ConfigDocumentProofs` and `ConnectionsProofs`, prove, for
every value of the constants that meets the named assumptions, every invariant and action
property that the passing runs check, and the safety half of the refinement:

- the type invariants of all seven state machines;
- `AckedInFile` and `AckedServedOrPending`. The first says nothing of a file that is
  torn, which holds nothing at all. Inductive with: one writer holds the lock; only the
  constructor and the sync write while the panel starts; the writer finds its own change
  in the map; a written change is also in the map, so the next write keeps it; a table
  the core is loading holds every written change unless a newer reload will come;
- `CoreSync` implements `UserTable`, step by step (the safety part);
- `NeverOverbilled`. Inductive with, per user: recorded bytes plus the counter never
  exceed sent bytes plus `last`, nor sent bytes plus the answer of the running poll, and
  recorded plus answer never exceed sent plus `last`. A restart of the core only lowers
  the left side, a poll hands the answer over to `last`. Copies of rows hold no more
  than was recorded;
- `ExactSinceBaseline`. Inductive with: before the first reading the row is empty, then
  it holds `last` less the baseline; what is read only goes up, from `last` through the
  answer of the running poll to the counter;
- `ServedHasRow`, assuming one request at a time (`Serial`), with every fault and the
  lifecycle goroutine. Inductive with: whoever is in the map or the file and not spoiled
  by an own failure has a row, because the next write of anyone publishes the map; who
  is about to be added has a row; who is about to lose the row has left both map and
  file; a creation is undone only where the failure is on record;
- `FailureSpoilsOnlyItsUser`, assuming one request at a time and no lifecycle goroutine.
  Inductive with: map, file and row agree on everybody who is neither spoiled nor being
  worked on; the request knows at each step what it has told the core already;
- `GuessesBounded` and `BlockedWithCause`, for any number of requests and addresses.
  Inductive with: one request at most holds the blocker's mutex; an address that is not
  blocked has at least as many counted failures and requests that are still to count as
  guesses; the requests that passed the list are bounded by those there are;
- `SessionWorks`, `LogoutClears` and `CookieCallsNeedCsrf`, for every set of settings.
  Inductive with: a browser never holds two cookies of one name; their paths are those
  the current setting gives; after a login that was delivered the jar holds all of them;
- `HonestNeverStruck`, for every interval, limit and rate. Inductive with: what the core
  has counted for an honest user since the last reading is at most the limit times the
  seconds since then, and these are at most the interval, because the poll is the first
  thing done when its tick comes. A poll forced in between only shortens the window, and
  the division by the whole interval then makes the speed too small, never too large;
- `TwoReadingsToDisable`, for every interval and number of strikes. Inductive with: the
  strikes of a user are at most twice the readings they rest on, and one less as long as
  another check can come before the next poll. It rests on the equality of the two
  intervals: after a check that strikes for the first time on a reading, the next check
  comes at the same moment as the poll or after it (`SecondIsLast`);
- `LimitHonoured`, with row and core written one after the other. Inductive with: a
  speed that is there and was read under a limit of the stub is no higher than that
  limit. So a strike for it means that the row has a lower limit by then. What the two
  writes of an `UpdateUser` and a reading between them can do is in the statement, not
  excluded from it;
- `RunsAsConfigured`, `NothingLeftOpen` and `EveryoneSynced`, for every configuration,
  file system and database. The first is stated from config.yaml as it was written, and
  rests on what the normalisation makes of it (`NormalizedFlags`). Inductive with: a
  core whose turn has come runs if it is switched on, and only then; a core whose turn
  has not come is not there; a statistics connection is open only for a core that was
  made and can be closed; who is not pending was given to a core or is accounted for;
- `DdnsWritesRight`, for any address, record and resolver. Inductive with: what the loop
  has heard is an address the host had since the check began, of the family asked for
  and public; what it has read is the configured record;
- `KillerThorough`, for every document and any number of clients and goroutines.
  Inductive with: what is due and still open is on the killer's list, because a
  connection the core names or sends through a marker is resolved to its owner before
  its address is looked at;
- `RoundTrip`, `LinkWorks`, `ForeignKept` and `MarkersExact`, for documents of any
  length, any table of users and any history of writes and restarts. Inductive with
  (`DocInv`): while the adapter runs, the file has the inbounds of the template or,
  without one, of the first document, rendered from the users in memory, and its
  outbounds and rules followed by the markers of some users, of exactly those in memory
  where there is a direct outbound to copy. A write without a template starts from the
  file of the write before, so this rests on two lemmas of `ConfigDocumentProofs`:
  taking the markers off a marked document gives the first one back (`OwnOfMarked`), and
  rendering an inbound twice is rendering it once (`RenderedTwice`). `RoundTrip` then
  follows from what `Load` returns of rendered inbounds (`LoadedFromRendered`),
  `LinkWorks` from the entry every user has in the inbound of the own protocol
  (`UserHasEntry`);
- `AttributionExact`. Inductive with: an open connection that goes through a marker goes
  through its owner's, because every marker rule in a document the core may have loaded
  names the user whose outbound it leads to;
- `NobodyLockedOut`, for every start, whatever document is found and whatever template
  is over it: an entry nothing else in the document is known by is the one that is
  loaded for its name, so every managed inbound of its type gets it with its secret
  (`EntrySurvives`).

What these proofs assume of documents is what `DocumentAssumption` and
`ConnectionsAssumption` say: they are well-formed, the one that is there first has no
outbounds or rules under the panel's marker prefix, and the final outbound is none of the
panel's. `NobodyLockedOut` leaves out entries without a secret, which let nobody in, and
entries that share their name, or lacking one their secret, with another: the later
inbound overwrites the earlier one there.

Model-checked only: `EventuallyServed`, `ImplementsLoading`, `EventuallyCounted`,
`QuotaEnforced`, `HogDisabled`, `DdnsConverges` (liveness under
fairness is out of the prover's reach, as is ENABLED). Induction over data is not available
to the prover either. The proofs about documents do without: the first or the last of a set
of positions is taken from the well-foundedness of the natural numbers (`SmallestOf`,
`LargestOf`), and sequences are compared entry by entry.

## Not modelled

The statistics and capability handlers are read-only views of what other components
keep; the request that kills one connection is offered to each core until one says yes
and changes nothing in the panel. The web client keeps lists and a timer of its own: its
requests are in `Login`, its rendering and the order of its refreshes are not modelled.
The installer edits files of the host through shell commands.

Within the modelled parts: how a subscription link is written out (its protocol and its
secret are modelled), the headers a browser remembers (HSTS, CSP), signatures and random
tokens (opaque), the global speed the core reports, the stub's random connections, and
log lines. SQLite's statements are atomic, which they are; a store error on a read ends a
handler and changes nothing, so it is left out, as is a core that is not configured any
more. The template and the adapter's configuration do not change between restarts. The
host's firewall drops addresses; behind a proxy it sees the proxy's and drops less than
in `Login`. Installations whose reload is not automatic are left out of `CoreSync`.
