# A verification project for PxProxy

PxProxy is an HTTP(S) and TCP reverse proxy in one Go program, with an
administration panel, sign-in with a second factor, health checks, brute-force
limiters and an updater. Several instances ("nodes") form a cluster by sharing a
PostgreSQL database. This directory holds TLA+ modules of its core logic, the
configurations TLC checks them with, and theorems that TLAPS checks.

To check one module and one theory:

    tlc -workers 2 -config cluster_pair.cfg MCClusterConfig.tla
    tlapm ClusterConfigProofs.tla

Every `.cfg` is a run of the MC module of its component (`PROJECT.json`, "runs").
`PROJECT.json` also maps each definition to the lines it stands for ("map"), lists
what is hard to test in the code ("hazards") and, for every property, a plausible
bug that breaks it ("mutants": the operators `Name_Variant` of the modules, which
no specification uses).

## Inventory

### The system's parts

| part | state | operations |
|---|---|---|
| configuration store (`internal/config`, `internal/store/pg.go`, `main.go`) | memory `cfg` and file `config.json` of each node; the row of `pxproxy_config`; `lastVer`, `backendOK`; LISTEN connections | Update, Save (file, then row), SetBackend, ReloadFromBytes, NoteBackendVersion, WatchChanges, the poll, start and stop |
| login limiters (`internal/security`, `main.go`, `pg.go`) | `Limiter.entries` per node; `pxproxy_locks` or `limiters.json` | Allowed, Fail, Reset, gc, Snapshot, Restore; save, load, sync |
| routes (`internal/rules`) | `Engine.routes`: host to rule, backends, connection counters, round-robin counter | Rebuild, lookup, Handler, three strategies |
| health checks (`internal/health`) | targets, statuses, the gauge of `internal/metrics` | SetTargets, probe, record, onChange |
| sessions and second factor (`internal/auth`, handlers of `server/admin.go`) | signed cookies; `totp.secrets`, `totp.require_for`, `session_secret`, `session_epoch` in the configuration | CompleteLogin, enrolment, challenge, IssueSession, ValidateSession, reset, revocation |
| TCP streams (`internal/stream`) | `Manager.running`, `lastErrs`; per listener its connections | Apply, acceptLoop, handle, stop, Close |
| audit log (`internal/security`, `pg.go`) | `audit.log` and its rotated files `audit-<stamp>.log`; `pxproxy_audit` | OpenAudit, Log, rotateLocked, Close, the sink |
| backups (`store/backup.go`, `pg.go`, `main.go`) | files `pxproxy-bd-*.json` of each node | Backup, Restore, List, Prune, Delete |
| updater (`internal/update`, `admin.go`) | the executable, its `.bak`, `pxproxy.update` and its `.part`; the restart script | Check, downloadAsset, apply, handleUpdateApply, scheduleRestart |
| OpenID Connect, SSO tickets, LDAP | cookies; a provider replaced by Reload | StartEntraLogin, HandleCallback, HandleAttach |
| panel and API (`server/admin.go`, `web/`) | none of its own | handlers that change the parts above |
| logger, metrics, secrets at rest | rotating log, counters, a key | formatting, cryptography |

### How they interact

- A handler of the panel calls `Store.Update` (the memory), then `Store.Save` (the
  file and the row), then `Admin.rebuild`, which copies the configuration and gives
  it to `Engine.Rebuild`; that ends with `Checker.SetTargets`.
- A write of the row notifies every listening node. Its watch goroutine, and a
  poll goroutine every 30 s, run the closure `reload`: load the row, replace the
  memory, write the file, note the version, rebuild the routes, `stream.Apply`,
  `auth.Reload`.
- The probe goroutine calls `onChange`, which copies a snapshot into the metrics.
- The proxy's handler asks the checker whether a backend is healthy and the
  authenticator whether a session is valid.
- The panel and a scheduler of each node copy the database into files; a restore
  replaces the tables and notifies every node like any other write.
- An update asked of the panel writes its event to the audit log, starts a script and
  waits for nothing: the script waits for the end of the process, with which the
  writer of the log ends, too.
- A sign-in asked for by another domain of the proxy goes on there with a ticket, from
  which that domain's node issues a session of its own.
- Logins consult and feed the limiters of their node; a goroutine merges them with
  `pxproxy_locks` every 30 s.

### What is hard here

Goroutines that change the same configuration with the mutex released between
their steps; a row replaced as a whole by several writers; versions read by a
query of their own; notifications that may be lost; an outage between a memory
that has changed and a row that has not; nodes that start during one; logins under
way when a lock is set; snapshots that travel and come back stale; answers of
probes for targets that have been replaced; routes replaced under requests; pages
of one user in several browsers; a reconfiguration that waits for connections under
a mutex; a restore that meets changes under way; two goroutines that prune one
directory; a log whose process may end, or whose disk may fail, in the middle of a
rotation; updates that share the names of their files. `PROJECT.json`, "hazards", has each at its line.

### What makes each part correct

| part | correct when |
|---|---|
| configuration store | acknowledged changes are kept and reach every member; file and memory agree; a node cut off keeps its changes to itself; requests end |
| limiters | no failure is counted twice; no lock is longer than configured; a merge never weakens one; entries are forgotten |
| health checks | the breaker says what the last probes said; the gauge follows; the failures of what is watched, and recoveries, are noticed in spite of rebuilds |
| routes | what is routed is watched, unless rebuilds cross; counters of connections return to what they were; weights are kept; a host gets its nearest rule, whatever order the map is walked in |
| second factor | nobody asked for a code gets in, or a ticket, without one; a confirmed device is one the user has; a revocation ends the sessions and tickets of those let in before it, but for a handler past its last check; who types right codes gets in |
| streams | what runs is what was applied; a stopped listener is empty; a reconfiguration ends |
| audit log | an event written stays readable until enough newer ones have been written, whatever fails |
| backups | the newest files are kept; what is restored stays, reaches every member and leaves the audit usable |
| OpenID Connect | who comes back from the provider with the state he was sent with passes the check |
| updater | at every instant a whole executable, or its whole copy, is in place, none is replaced by an older one, and none from the panel without a trace in the log |

## The modules

| module | stands for | notes |
|---|---|---|
| `ClusterConfig` | the configuration store of a cluster | requests (`pc`), the two reloading goroutines of each node (`rpc`), a node's start (`phase`), the database and its LISTEN connections |
| `ConfigRegister` | the row, if its writers never crossed: an abstract specification | implemented by `ClusterConfig` while every change is made at rest |
| `LoginLimiter` | limiters, logins and the sync of locks | requests step by step, time as a counter |
| `HealthChecker` | `health.Checker`, `onChange` and the gauge | |
| `LoadBalancer` | requests through `Engine.Handler` and the counters | every route ever built is kept, as requests keep theirs |
| `HostLookup` | `Engine.lookup`: the rule of a host | a function, compared with a reference definition by an `ASSUME` of `MCLoadBalancer` and by a theorem |
| `RulesEngine` | rebuilds together with health checks | composes `HealthChecker` (`INSTANCE`): `Watch` is `SetTargets` |
| `SecondFactor` | the sign-in of a user who may need a code, and the tickets of single sign-on | pages of several browsers, the administrators' changes |
| `StreamManager` | `stream.Manager`, its listeners and connections | |
| `BackupRestore` | backups and restores, with the members that change and reload the row | takes `Save`, reload and start as one step: `ClusterConfig` has them in detail |
| `EntraLogin` | the round trip of the state through the provider, and `Reload` | strings are sequences of tokens |
| `AuditTrail` | what the audit log promises: an abstract specification | two variables, two actions |
| `AuditLog` | `security.AuditLog`: writing, rotation, pruning, failing calls to the disk | implements `AuditTrail` (`Trail == INSTANCE AuditTrail WITH kept <- Kept`) |
| `Updater` | updates from the panel and from the command line, the restart script, starts | four file names that all of them share |
| `NodeUpkeep` | the upkeep of one node | composes `AuditLog` (`EXTENDS`) and `Updater` (`INSTANCE`): one process, and the event of an update |
| `MC...` | small instances of the above | constants and definitions for the `.cfg` |
| `ClusterConfigProofs`, `LoginLimiterProofs`, `RulesEngineProofs`, `SecondFactorProofs`, `StreamManagerProofs`, `BackupRestoreProofs`, `NodeUpkeepProofs`, `RequestProofs` | theorems | those of `AuditLog` and `Updater` are in `NodeUpkeepProofs`, which cites them; `RequestProofs` has those of `LoadBalancer` and `HostLookup`; one on `EntraLogin` is in `SecondFactorProofs` |

An action is the part of a handler between two points at which another goroutine
can change what it reads: a critical section of a mutex, a transaction, a request
to an upstream. The header of each module lists its abstractions. The main
correspondences are these.

- **ClusterConfig.** A configuration is the set of the administrators' changes it
  contains; no change undoes another, so a change that is missing has been lost.
  `mem`, `file`, `lastVer`, `backendOK` are fields of `Store` and its file; `dbCfg`
  and `dbVer` are the row; `engine` is what the routes were built from.
  `saveMu` is not a variable: who holds it follows from the program points
  (`SaveMuFree`). `Store.backend` has three values, as a pointer to a pool that has
  been closed behaves like neither of the others. A request is `Apply`, `SaveCopy`,
  `SaveWrite`, `PushCopy`, `Commit`, `SaveVersion`, `RebuildGet`, `Rebuild`; a
  reload is `ReloadLoad` to `ReloadBuild`; a start is `Start`, `Connect`,
  `AttachLoad`, `AttachSwap` with a failing twin of each.
- **LoginLimiter.** The limiters by address and by user are one map, since their
  keys differ and no step relates two keys. `fails` and `lastFail` are history.
  `Restart` covers an orderly stop (which saves once more) and a crash.
- **RulesEngine.** A rebuild is `Get`, `Swap`, `Watch`, in any of the goroutines that
  rebuild: the handlers of the panel, the watch, the poll. Nothing orders them, and
  `crossed` is history: the routes in place were put there while another rebuild had
  swapped its own and not yet called `SetTargets`.
- **HealthChecker.** `todo` and `current` are the loop of `probe`; `notify` is the
  point of `onChange`, which runs after `record` has unlocked. `added` is history:
  a target added anew is healthy without anyone being notified.
- **LoadBalancer.** A request is counted before it is sent and taken off when the
  headers come, or by the error handler; an upgrade is taken off twice, because the
  metrics' writer cannot be hijacked.
  `leastConns` reads the counters one after the other while other requests change
  them (`Compare`, `ReadCounter`, `ReadLast`; `seen` is what was read so far), so it
  may pick a backend that is no longer the least loaded. `picks` is history: the
  turns of the strategies that take turns.
- **SecondFactor.** Secrets are numbered; the app holds those it was shown.
  Cookies and tickets carry the epoch and key they were made with. A ticket is checked
  (`Attach`) and a session issued (`ReadEpoch`, `Sign`) in separate steps, as
  `HandleAttach` calls `IssueSession`, and may be opened again (`Revisit`). `asked`,
  `proven`, `straddled` and `slipped` are history: who owes a code, which secrets were
  proven, who was let in before the last revocation and not since, and which of these
  had a handler past its last check at the revocation or were given a ticket after it.
- **BackupRestore.** `pc` of a writer follows `SnapshotToJSON`, `WriteBackupFile` and
  `PruneBackupFiles`; files are known by the order in which they were written, which
  is what their times are compared for. A member is `stale` when a notification waits
  for it or its noted version is not the row's. A save may fail (`SaveFails`: the
  file or the push): the memory keeps the change, the row and its version stay, and the
  member's next save commits it. `expected`, `unsent` and `hurried` are history: what
  the row should hold, the changes a memory has whose save failed, and that a write did
  not wait for the others.
- **AuditLog.** Events are numbered as they are written; a file is an interval of them.
  `at` is the point `Log` has reached under its mutex (`Rename`, `Prune`, `Reopen`,
  `Write` and the failing twin of each): `Stop` may come between any two. The stamp of
  a rotated file is a number that `NewStamp` makes the next one, unless `ClockFaults`
  lets the second not pass or the local time go back.
- **Updater.** `file` says which release is under each of the names `exe`, `bak`,
  `update` and `part`, and `writer` who has not yet written all of it: a rename moves
  both, as the descriptor of a download stays open. `script` follows the lines of the
  script: wait for the process, two `mv`, start. `crossed` is history: two updates
  were in each other's way.
- **NodeUpkeep.** `up` of `AuditLog` is `running` of `Updater`. `PanelLogs` hands the
  log the event of an update, and `LogReturns` lets its handler go on, at the point
  where `Updater` alone has `Logged`.
- **EntraLogin.** The cookie and the state that is sent are sequences of tokens, and
  the check is `IsSuffix`, with its arguments as in the code. `oauth` and `verifier` are
  read and written one at a time, as the code has no lock around them.
- **StreamManager.** A connection goes through `accepted`, `counted` (in the wait
  group), `relayed` (registered, so that `stop` can close it) and `over`. A dial
  that fails is a connection that ends at once.

## The runs

All but the two at the end pass.

| run | specification, instance | states | checks |
|---|---|---|---|
| `cluster_calm` | `Spec` under the constraint `AllCalm`: two panels, an outage or a crash, failing writes of the file, one node polls | 2.3 M | `TypeOK`, `CalmChangesSurvive`: a change made at a member at rest is never lost |
| `cluster_node` | `FairSpec`: one node, two requests, an outage, two crashes, two attempts to attach | 163 k | `FileTracksMemory`, `DegradedStartIsolated`, `DetachedFileKeepsChanges`, `RequestsEnd` |
| `cluster_pair` | `FairSpec`: two members, one change, an outage and a lost LISTEN connection | 241 k | `LoneChangeReachesAll` |
| `limiter` | `FairSpec`: logins at two nodes with one address and user, lock after two failures, five instants, a restart | 479 k | `NoFailureCountedTwice`, `LockBounded`, `TableKeepsNewest`, `EntriesForgotten` |
| `engine` | `FairSpec`: two targets, down after two failures, two rebuilders, two lists of rules, any number of changes | 556 k | `BreakerConsistent`, `GaugeFollowsHealth`, `RoutedAreWatched`, `WatchedDownDetected`, `ConfiguredRecovered` |
| `balancer` | `Spec`: four requests, one of them an upgrade, seven rules, a rebuild | 1.2 M | `ConnsCounted`, `SharesKept`; TLC also evaluates `LookupFindsNearest` |
| `factor` | `FairSpec`: two browsers, four secrets, tickets that are used again, a reset, a revocation | 376 k | `FactorGiven`, `RevokedStayOut`, `EnrolmentProven`, `SignInEnds` |
| `stream` | `FairSpec`: two addresses, two callers of Apply, two connections, three calls | 233 k | `RunningAsApplied`, `StoppedIsEmpty`, `ApplyEnds` |
| `backup` | `FairSpec` under the constraint `Calm`: two members, two changes, two goroutines that back up, two files of which one is kept, two restores, crashes, saves that fail | 1.8 M | `NewestKept`, `RestoredStays`, `AuditIdsFree`, `RestoreReachesAll` |
| `upkeep` | `UpkeepSpec` under the constraint `Focus`: two updates from the panel and one from the command line, two releases, a start by the service manager; files of two events, of which two are kept, eight events | 351 k | `ExecutableSurvives`, `ScriptsAreLogged`, `NeverOlder`, `ScheduledInstalls`, `TrailKept`: that `AuditLog` implements `AuditTrail` |
| `cluster_lost_update` | `Spec`: two panels, no faults | | refutes `AcknowledgedSurvives` |
| `entra_state` | `Spec`: one browser | | refutes `OwnStateAccepted` |

### What the violations show

- **Lost update** (`cluster_lost_update`). `PgBackend.Save` takes an advisory lock
  and replaces the row whatever it holds: two panels that change the configuration
  at about the same time both get an answer of success, and the second write
  carries a copy without the first change. `DOCUMENTO_TECNICO.md:200` says the lock
  leaves no conflicts between nodes. `CalmChangesSurvive` is what holds instead: a
  change is lost only if another was under way, or its node was behind the row.
- **The state of the Entra sign-in** (`entra_state`). `StartEntraLogin` keeps `state` in
  the cookie and sends `randHex(8) + "." + state`. `HandleCallback` asks whether the
  cookie ends in a dot and the state of the query (`auth.go:312`): the two are the wrong
  way round, so what is looked for is longer than where it is looked for, and every
  sign-in that the provider sends back ends in "estado invalido".
  `DOCUMENTO_TECNICO.md:309` describes a callback that validates the state and goes on.

### Statements without a run

The last section of some modules states what the documentation or a comment says
and TLC refutes; put one in a `.cfg` to see the behaviour.

| module, statement | said in | constants that show it |
|---|---|---|
| `ClusterConfig`, `RefusedNotReplicated` | `DOCUMENTO_TECNICO.md:219` | those of `cluster_lost_update` with `Home <- SameHome`, `MaxOutages = 1` |
| `ClusterConfig`, `VersionNamesConfig` | `:201` | those of `cluster_lost_update` with `Home <- SameHome` |
| `ClusterConfig`, `RoutesFollowConfig` | `:355` | the same |
| `ClusterConfig`, `DegradedStartReported` | `:218` | those of `cluster_node` |
| `LoginLimiter`, `SyncBringsLocks` | `:202` | those of `limiter` |
| `LoginLimiter`, `LockLasts` | `:396` | three logins at one node, `Lockout = 3`, `LastTry = 3` |
| `LoadBalancer`, `LeastLoadedChosen`, `ConnsNotNegative` | `:552`, `:573` | those of `balancer`, without `SYMMETRY` for the first |
| `RulesEngine`, `RoutedAreProbed`, `ConfiguredDownDetected` | `:580` | those of `engine` |
| `RulesEngine`, `GaugeRecovers` | `:611` | the same |
| `SecondFactor`, `RevocationEndsAll` | `:323` | those of `factor` |
| `SecondFactor`, `CodesWithinOneStep` | `:346` | those of `factor` |
| `SecondFactor`, `ConfirmedWasProven` | `login_flow.go:144` | one browser, `Skew = 2`, `MaxSecrets = 2`, `MaxResets = 1`, `MaxRevokes = 0` |
| `StreamManager`, `TargetsAsApplied` | `stream.go:61` | those of `stream` with `Targets = {t1, t2}` |
| `BackupRestore`, `SnapshotIsAState` | `README.md:22` | those of `backup`, without the constraint |
| `BackupRestore`, `RestoreExcludesWriters` | `DOCUMENTO_TECNICO.md:256` | the same |
| `EntraLogin`, `ProviderStays` | `:201` | those of `entra_state` |
| `AuditLog`, `NothingDropped` | `:203` | those of `upkeep` |
| `AuditLog`, `TrailKept` | `:401` | those of `upkeep` with `ClockFaults = TRUE` |
| `Updater`, `RestartsByItself` | `web/app.js:566`, `web/index.html:314` | those of `upkeep` |
| `Updater`, `PreviousKept` | `admin.go:1129`, `web/index.html:314` | the same |
| `Updater`, `SafeTogether` | | `Panels = {}`, two command lines, `MaxRelease = 2` |
| `Updater`, `NeverOlderTogether` | | those of `upkeep` without the constraint |

`VersionNamesConfig` deserves a word: `reload` reads the version after the data, by
another query. A change committed in between gives the node the new version with the
old data, and the poll finds nothing to do. A notification, if it arrives, makes up for
it.

`ConfirmedWasProven`: `ConfirmSecret` checks the code against a copy and marks the entry in a
later `Update`; a reset in between leaves an entry with no secret that counts as enrolled.
The user is sent to a challenge no code can pass, until the next reset.

`ConfiguredDownDetected`: a handler (`admin.go:425`), the watch and the poll (`main.go:512-538`)
each take a copy of the rules, swap the routes and then call `SetTargets`, with no lock
around the three. When two are under way, the older copy may be the last the checker is
given: a target of the configuration is then not probed, and stays healthy, until the
next rebuild. What holds is that a target that is watched is noticed
(`WatchedDownDetected`), and that rebuilds that do not cross leave the routes and the
watched targets alike (`RoutedAreWatched`).

`RevocationEndsAll`: `HandleAttach` checks the ticket (`auth.go:445`) and then calls
`IssueSession` (`:450`), which reads the epoch and the secret afresh. A revocation in
between lets a ticket signed before it give a session that is valid after it; the
handlers that check a code or a password have the same window, and a ticket created
after the revocation for a user who signed in before it is good, too. `RevokedStayOut`
says that these are the only exceptions.

Nothing marks a ticket as used, whatever `:326` says of one that can be redeemed only once:
`Revisit` opens its address again, and until it expires, or the key changes, it gives
another session. `RevokedStayOut` and `FactorGiven` are checked with it.

`RestartsByItself`: the script waits for the end of the process, and nothing in the handler
or in the script ends it: the new release waits for the next stop.

### Bounds

- Two nodes are enough for every race of `ClusterConfig` that is stated: a race has
  a writer and a reader, or two writers, and a third node only repeats one of them.
  Two changes are the fewest that can overwrite each other. One outage and one
  crash, or two in `cluster_node`, let a node start during an outage and come back
  after it. `cluster_calm` lets one node poll, and one fall behind unless notified; its
  constraint keeps to the behaviours in which every change is made at a member at rest,
  the only ones its property speaks of, and at most one fault: a node that starts
  during an outage is no member, so its changes are not among them. `MaxTries` is 1 or 2 instead of
  3: an attempt after the first differs from it only in the pointer the first has left,
  which two attempts show.
- `limiter` has a lockout longer than the window, so that a lock outlives the window
  in which failures add up, and enough instants after the last login (`LastTry`) for
  every entry to expire twice over. Two failures at two nodes are what a lock
  needs; a restart is what makes a node take the whole table. With two logins none is
  under way when the lock is set: that case is covered by `NoDoubleCounting` and
  `LocksAreBounded`, which have any number of logins.
- In `engine`, two targets let one stay while another comes and goes, and two failures
  separate the first from the last. Of two rebuilders one can be anywhere while the other
  is between two of its steps; a third would only repeat one of them. `Lists` are the lists of
  rules there may be, here two that differ in one target. Nothing bounds the changes of
  the rules.
- `balancer` runs four requests, more than a cycle of its rules (the longest has a
  total weight of three); weight 0 stands for one left out.
- `factor` allows four secrets: one is generated at first and one after the reset, so
  the bound never ends a behaviour early.
- `backup` keeps one file of two, the least for which a late rename or a second pruner
  matters; one change may be undone by a restore and another follow it; the second
  restore finds members that the first has made stale; any save may fail. Its constraint keeps to the
  behaviours in which every change and restore starts when nothing else is under way,
  the only ones `RestoredStays` and `RestoreReachesAll` speak of, and for which a reload
  in one step is faithful; backups, pruning and crashes interleave freely.
- `stream` has three calls of Apply: start, stop and start again.
- `upkeep` has an update of the panel, its retry and one of the command line, which are
  the ways two updates can follow each other, and a second release, so that there is an
  older one to fall back to. Files of two events, two of them kept, are rotated three
  times in eight events, the third time with something to prune. The constraint `Focus`
  leaves alone what follows when two updates are in each other's way, of which the
  properties do not speak, and combines updates with the first `MaxBusy` events only; the
  log is then explored alone: what an update does with the log is to write one event. In
  the run the pruning of the log and an update therefore never meet; that an update's
  event stays while the log is pruned around it is what `UpdatesAreTraced` proves, with
  no such bound.

`CHECK_DEADLOCK FALSE` stands where changes, logins, requests, calls or time are
bounded: such a system comes to an end. Symmetry is used in `balancer` only, which
checks no temporal property, over the requests that are not upgrades.

### Fairness, and why the code justifies it

- Goroutines that are not blocked are scheduled: weak fairness of each request, each
  reload, each caller of Apply, each connection's own steps, the prober.
- Tickers fire: the poll, the sync of locks, gc and the probe round.
- A start runs to its end (`Boot`), and the database comes back (`DbBack`): the only
  two assumptions on the environment of `ClusterConfig`, made by its liveness
  properties alone. Nothing is assumed of `Apply` (nobody has to change anything),
  `Crash`, `ListenLost`, `DbDown`.
- Weak fairness is enough for the waiters of `saveMu`: the members that could take
  it for ever are those that keep reloading, and they stop once they hold the row.
- In `SecondFactor` the user is assumed to type a right code when asked again and
  again (`SF_vars(RightCode(b))`): an assumption on the user, without which sign-in
  need not end, and nothing the code does. In `StreamManager` no client has to hang
  up: `CutOff` is fair because the connection has been closed under it.
- `WatchedDownDetected` and `ConfiguredRecovered` take an upstream that stays silent,
  or keeps answering, from some time on; `Change` is not fair and may happen for ever.
- In `NodeUpkeep` only the restart scripts are fair, once they run: the shell goes on
  with its next line. Nothing is assumed of the stop they wait for, of the service
  manager or of who asks for updates; `ScriptKilled` is an exception the property names.
- In `BackupRestore` a request's save comes to its end, with success or without
  (`WF_vars(Save(m) \/ SaveFails(m))`), and the poll comes (`Reload`); nothing else is fair.

## What is proved

`tlapm` checks eight modules of proofs for every value of the constants: any nodes,
changes, logins, keys, browsers, targets, rules, addresses, updates, events and bounds
that satisfy the `ASSUME`s of the modules (types of the constants; numbers that are
counted up to are positive; a value that means "none" is no member). The assumptions
are evaluated by TLC in the runs. Each proof finds an invariant that every action keeps,
one step per action, and derives the property from it; temporal reasoning is only the
last step. Where a theorem needs more than the `ASSUME`s, its statement says so.

**ClusterConfigProofs**

- `TypeCorrect`: `Spec => []TypeOK`, one step per action (`TypeStep`).
- `DegradedIsolation`: `Spec => []DegradedStartIsolated`. The property alone is not
  inductive: a change could be in a copy on its way to the row. The invariant adds
  `PhaseInv` (nothing runs at a node that is not up, nor a reload at one that is not
  a member), `FreshInv` (a change not yet made is nowhere), `RowInv` (the row holds
  published changes) and `CleanInv` (no copy at a member holds a degraded change).
- `FileTracking`: `Spec => []FileTracksMemory`, from `WriterInv` (saveMu leaves one
  writer of the file) and `CopyInv` (what is about to be written is the memory,
  unless another copy is to follow).
- `DetachedFileSafe`: the action property `DetachedFileKeepsChanges`, from
  `DetachedInv`: at a node that is not attached the file is part of the memory, and
  the copy being written lies between the two.
- `CalmSurvival`: `Spec => []CalmChangesSurvive`, from `CalmInv`: while every change is made
  at a member at rest, one request is under way (`OneRequest`); until it has committed,
  its member holds the row and the change, no notification waits for it and the poll
  finds the version it has noted (`Steady`); from then on the row has the change
  (`Landed`).
- `CalmImplementsRegister`: `Spec => ([](hurried = {}) => Register!Spec)`, from the same
  `CalmInv`: as long as every change is made at a member at rest, the row is an atomic
  register. The copy that a request commits is the row and its own change (`Steady`), so a
  commit is `ConfigRegister`'s `Commit` whether its acknowledgement arrives or is lost;
  the end of a request is `Answer` (`Landed`); every other step, those of outages, reloads
  and restarts among them, is a stutter (`RegisterStep`). Without the hypothesis it does
  not hold: `cluster_lost_update` shows two panels whose changes cross.
- `NoUncommittedReads`: `Spec => []UnpublishedStaysHome`, from `OwnInv`: what has not been
  committed is in no copy another node's request or reload is handling. No hypothesis: it
  also holds of changes that cross, and of commits that fail.
- `AnsweredIsWritten`: `Spec => []AnsweredIsInFile`, from `WrittenInv`: at a node that is not
  attached, a change whose save has returned is in the file and in every copy about to be
  written over it (`saveMu` orders copy and write). It holds with `DiskFaults`, and
  `DetachedFileSafe` adds that without them the file keeps what it has.
- `OneFileWriter`: `Spec => []WriterInv`, the mutual exclusion `saveMu` is for.

**LoginLimiterProofs**

- `TypeCorrect`: `Spec => []TypeOK`.
- `TableNeverForgets`: `Spec => TableKeepsNewest`, from two lemmas on the merge: it is an
  upper bound of both its arguments in the order of lock states (`MergeIsUpper`), and
  that order is total up to what a row holds (`NewerIsOrder`); `MergeIsIdempotent`
  says that a row saved again changes nothing.
- `MergeOrderIsIrrelevant`: for any rows, the table ends with the same locks in whatever order two
  snapshots are merged into it, and one that comes again changes none. What the order
  decides is the time of the first failure only (`SameLocks`), for rows equally new.
  `MergeIsLeast` adds that the merge is the least upper bound: it locks nothing for longer
  than one of the two says. So the table is a join of what was saved.
- `NoDoubleCounting` and `LocksAreBounded`, from one invariant, `BoundedInv`: every
  copy of an entry, in a limiter, in a snapshot or in the table, is justified by the
  failures so far. `OperatorsBounded` says that gc, merge and Restore make no entry of
  their own, so only `Fail` has to be argued about.

**RulesEngineProofs**

- `TypeCorrect`: `Spec => []TypeOK`.
- `BreakerAgrees`: `Spec => []BreakerConsistent`; the property is inductive with the types.
- `GaugeFollows`: `Spec => []GaugeFollowsHealth`, from `GaugeInv`: the snapshot on its way
  to the gauge is already right about every target that has not been added since, and
  no probe begins before it arrives.
- `UncrossedRebuildsWatch`: `Spec => []RoutedAreWatched`, for any number of goroutines that
  rebuild, from `RouteInv`: unless the routes were put in place while another rebuild was
  between its two steps, only one is between them, and the routes are those it is going
  to give to the checker.
- `EngineRunsChecker`: `Spec => Health!Spec`: every step of the composition is a step of
  `HealthChecker` or a stutter (`CheckerStep`), so what is said of the checker does not
  depend on how the rules change.
- `BreakerNeedsItsFailures`: `Spec => [][OnlyProbesTakeDown]_vars`, from the types and
  `BreakerConsistent`.

**SecondFactorProofs**

- `TypeCorrect`: `Spec => []TypeOK`.
- `FactorAlwaysGiven`: `Spec => []FactorGiven`, from `FactorInv`: the code was given before
  the entry is marked.
- `RevocationEndsSessions`: `Spec => []RevokedStayOut`, from `RevokeInv`: what is carried by a
  browser let in before the last revocation, and not among the exceptions (`slipped`), is
  older than the epoch, and no handler of it has still to read the epoch.
- `EnrolmentsDoNotCross`: `Spec => []EnrolmentProven`, from `EnrolInv`: a secret a code was
  given for is not replaced while its entry waits to be marked.

**StreamManagerProofs**

- `TypeCorrect`: `Spec => []TypeOK`.
- `ListenersAsApplied`: `Spec => []RunningAsApplied`, from `MutexInv` (who is between lock
  and unlock applies the last list) and `MapInv` (what the list wants is running, has an
  error, or is still to be started).
- `StoppedListenersEmpty`: `Spec => []StoppedIsEmpty`, from `ConnInv`: a connection belongs to
  a listener of the map, or was missed by the stop of its listener.
- `NoListenerIsLost`: `Spec => []OpenIsRunning`, from `MapInv` and `ConnInv`: an open listener is the map's, so
  the next `Apply` can stop it and its address has no second one.
- `RemovedRulesCarryNothing`: `Spec => []RemovedCarryNothing`, from `MapInv` and `ConnInv`: what
  is live once `Apply` has returned is at an address of the last list, or was missed.

**BackupRestoreProofs**

- `TypeCorrect`: `Spec => []TypeOK`; what is about to get its name has been written
  (`TimeInv`).
- `SequenceIsAhead`: `Spec => []AuditIdsFree`, from what `SequenceAfter` gives (`SequenceMoves`).
- `RestoredIsKept`: `Spec => []RestoredStays`, from `RestoredInv`: a member without a reload to
  come has the row, the change it is about to save and those whose save failed, which
  its next save commits, too.
- `NewestAreKept`: `Spec => []NewestKept`, from `PruneInv`: a file that is gone, or about to be
  pruned, has `Keep` newer ones among all that ever got their name, which only become
  more (`LaterGrows`).
- `MaxIsLargest`, which the sequence and the pruning rest on, is an induction in disguise: the sets of
  numbers above those of a finite set are well-founded by inclusion, and a smallest one
  is empty.

**NodeUpkeepProofs**

- `TypeCorrect` of the log: `Spec => []TypeOK`; `UpdaterTypes`, the same of the updater.
- `TrailRefined`: the refinement, `Spec => TrailKept`, that is `Spec => Trail!Spec`, when the
  stamps of rotated files are later and later (`~ClockFaults`). The invariant `AgeInv` says
  that a rotated file is older than the file in use by `PerFile` events for each of the
  files in between, so one with `Keep` newer files (`ExcessIsOld`) has only events that
  `Keep * PerFile` others follow. Every step is then an `Append`, a `Forget` or a
  stutter (`TrailStep`).
- `ExecutableSafe` and `NeverDowngrades`: `ExecutableSurvives` and `NeverOlder` of `Updater`,
  for commands and requests that are not called alike (`Distinct`). One invariant,
  `OrderInv`, as long as no two updates have been in each other's way: one works at a
  time (`OneAtATime`), nobody but it writes a file (`Downloading`), the copy is whole
  while the executable is away (`Placing`), no file is of a later release than the one
  being fetched (`Current`), and what is downloaded or about to be moved by a script is
  not older than what is installed (`Offered`, `Scripts`).
- `UpkeepKeepsTrail`, `UpkeepKeepsExecutable`, `UpkeepNeverDowngrades`: every step of the
  composition is a step or a stutter of each part (`LogPart`, `UpdatePart`), so what was
  proved of the parts holds in the node, with the same hypotheses.
- `UpdatesAreTraced`: `UpkeepSpec => []ScriptsAreLogged`, from `EntryInv` (an update that has
  passed the log has its event in the files, or the log has dropped it) together with
  `AgeInv`: a rotation removes an event only when enough newer ones follow.

**RequestProofs**

- `TypeCorrect`: `Spec => []TypeOK`, with `ControlInv` (who waits for a backend has one) and
  `CompareInv` (who compares counters has one more to read).
- `SharesAreKept`: `Spec => []SharesKept`. The property is not inductive: it leaves a backend
  room within a cycle. `ShareInv` says exactly how often each has had its turn after `rr`
  choices (`Share`): its weight for every whole cycle, and of the current cycle the part
  that lies in its interval of the cumulative weights. `TurnIsItsOwn` says that these
  intervals divide the positions of a cycle among the backends, `ShareGrows` that a choice
  adds one to the share of the backend chosen and to no other, also where a cycle ends.
- `ConnectionsCounted`: `Spec => []ConnsCounted`, from `CountInv`: the sets of requests that the
  property counts are finite at any time, and each step that counts moves one request.
- `NeverNegative`: `ConnsNotNegative`, which TLC refutes, holds where `Upgrades = {}`.
- `LookupIsNearest`: for any labels, host and list of rules, `Nearest` of the rules is the one
  rule that `Lookup` returns. `ScanFinds` is the invariant of the loop; that the ends of one
  host are ends of one another is `SuffixesNest`.
- Two facts replace the library's theorems on induction and recursion, which no installed prover can
  instantiate: `Induction` is stated of a set of numbers and rests on the well-foundedness
  of the finite sets below them (`LeastExists`); `Recursion` says that a step function
  defines a function on `0..n`, so that `Cumulative` and `Scan` are what their equations say.

Of `EntraLogin`, in **SecondFactorProofs**:

- `NobodySignsIn`: no browser ever passes the check of the state: what is looked for is longer than
  the cookie (`OwnStateRefused`). This is the violation of `entra_state` for all tokens.

Model-checked only: all liveness, as temporal properties under fairness are beyond the
prover. No invariant of a passing run is left to TLC alone.

## Not modelled

- The web panel, routing and JSON of the API, the logger, the text of the metrics,
  the scripts of `deploy/`: input and output.
- Secrets at rest: cryptography on single values.
- LDAP, local passwords: one blocking call whose outcome is free in `LoginLimiter`.
- Certificates: `main.go` imports `internal/certs`, which is not in the repository.
- `store.FileBackend`: never constructed.
- Within the modelled parts: the numbered backups of `config.json`, a row that cannot
  be decoded, slices shared by copies of a configuration, the file `limiters.json` of
  a single node, expiry of cookies, deadlines of streams, texts and statistics of a
  health status, the table of locks and the check of the schema in backups, the
  instant between asking for the latest release and creating the file it goes to, an `mv`
  of the restart script that fails, a ticket opened after signing out, the
  OpenID Connect library, the script for Windows, the comparison of version strings.

## Plan

Done, in this order: `ClusterConfig` and its theorems, `LoginLimiter` and its
theorems, `HealthChecker`, `LoadBalancer`, `RulesEngine` (composing `HealthChecker`),
`SecondFactor`, `StreamManager`, `BackupRestore`, `EntraLogin`, `AuditLog` as an
implementation of `AuditTrail`, `Updater`, `NodeUpkeep` (composing the last two), the
tickets in `SecondFactor`, `HostLookup`, and the theorems of `RulesEngine`, `SecondFactor`,
`StreamManager`, `BackupRestore`, `AuditLog`, `Updater`, `NodeUpkeep`, `LoadBalancer` and
`HostLookup`.

Next:

1. The slices that copies of a configuration share (`Store.Get`): `handleRulesDelete`
   filters `c.Rules[:0]` and `handleRulesPost` writes `c.Rules[i]` in place, while
   `Engine.Rebuild` walks a copy without a lock. The routes may then be those of no
   configuration until the handler's own rebuild; the file and the row are not torn, as
   both are encoded under the lock.
2. The other handlers that change the configuration (`handleConfigPost`, `handleSetup`,
   `handleLocalPassword`) and what they validate.

Abstract specifications stated and implemented: `ConfigRegister` by `ClusterConfig`, `AuditTrail`
by `AuditLog` and by `NodeUpkeep`, `HealthChecker` by `RulesEngine`, `Updater` by `NodeUpkeep`.
Worth stating: the lock table as the join of every snapshot saved, which
`LoginLimiter` implements (the laws of the join are proved: `MergeOrderIsIrrelevant`).

Theorems worth proving next: that refinement; the sessions of `SecondFactor` as
grants that a revocation ends; the agreement of the checker and the gauge through
every probe, not at rest only.
