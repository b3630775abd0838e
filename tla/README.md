# TLA+ models of the StatusGate backend

StatusGate watches services (HTTP endpoints and VPN tunnels) and publishes their state.
Two processes share one PostgreSQL database: the **API** (FastAPI; public status, admin
edits, sign-in, imports, manual checks) and the **monitoring worker** (`python -m app.worker`),
whose main thread runs a scheduler cycle in a loop and which keeps one thread per persistent
OpenVPN component. These modules describe the parts of it in which steps of several actors
meet, TLC checks them on small instances, and TLAPS proves safety results for all instances.

## 1. Inventory

| Part | State | Operations | Talks to | What is hard | What makes it correct |
|---|---|---|---|---|---|
| Persistent VPN supervisor (`vpn_session_supervisor.py:479-581`, `worker/__main__.py`) | `_workers`, `_stop_events`, `_snapshots` | `sync`, `stop_all`, `_start_worker`, `_stop_worker` | database rows, worker threads | reads before the lock, joins that time out, a sync that fails half-way | no thread escapes the table, at most one undisturbed tunnel per component, wanted components are served |
| Worker threads (`vpn_session_supervisor.py:76-476`) | session handle, sampler, `_last_probe_ok`, failure count | `run`: load, check, connect, probe, record, wait | rows, events, namespaces, stop event | every call may raise; the component may be edited or deleted at any point | no handle and no running sampler outlives the thread, events come in pairs, an outage is announced once and always |
| Session and namespaces (`openvpn_session.py`, `vpn_netns.py`, `tun_iface.py`) | OpenVPN process, tun device, network namespace, temporary files | start, stop, is-up, probe | kernel, VPN server | names are per component, so two threads of one component collide | a failed start takes back what it can, and a new session starts beside what it cannot |
| Connection events and results (`connection_event_service.py`, `check_results`) | append-only rows | record, list, purge | worker threads, API | row and event are two transactions | the log tells the story of the tunnel |
| Tunnel ping sampler (`tunnel_ping_sampler.py`) | stop event, ping processes | window, persist | worker thread, database | outlives its 10 s join | runs only within its tunnel until it is told to stop |
| Scheduler (`monitoring_service.py:206-321`, `monitoring_admin_service.py`) | `last_checked_at`, results | `run_due_checks`, `run_check`, manual check, purge | checks, database, speed tests | one commit per cycle, which any check that raises discards; manual checks in another process | every due component is checked, results are recorded, the next check never counts from a later time than the newest |
| Ephemeral checks (`vpn_check_service.py`, `openvpn_runner.py`, `xray_runner.py`, `probe_service.py`) | `_vpn_check_lock`, route guard | OpenVPN, Xray and HTTP check | host routes | the lock is per process | a result says what the check found |
| Speed-test memory and schedule (`speed_test_memory.py`, `speed_test_config.py`, `network_enrich.py`) | the newest row's details, the shared slot | carry over, schedule, pick, measure | rows of three kinds of writer | memory lives in the newest row only; one VPN per cycle may measure | last success is never lost, interval and back-off are honoured, everyone has a turn |
| Host WAN baseline (`host_wan_speed.py`) | baseline, history, skip reason, a file | measure, store, attach | API and worker through the file | lost updates, check-then-act, takes the shared slot | a good baseline is not lost |
| Sign-in, accounts, roles (`auth_service.py`, `refresh_token_service.py`, `account_admin_service.py`) | accounts, refresh tokens, cookies | register, sign in, second factor, refresh, logout, edits | database, browsers | rotation and edits without locks, lost responses | a revocation is final, sessions do not fork by themselves, two factors mean two factors |
| DataGate import (`datagate/`, `ovpn_remote.py`) | integrations, components, files at DataGate | list, match, issue, import | remote API, operators' edits | minutes of remote calls before the one commit | a server that is linked right keeps its component, a run adds one at most, one file per monitor |
| Incidents (`incident_service.py`) | incidents and their updates | create, patch, delete, post updates | public status | checks on a row read earlier | an incident ends after it starts, every list that shows a day shows it on the same days |
| Public status, uptime (`public_status_service.py`, `uptime_stats.py`) | none | aggregation, page | rows that change while it reads | days, open outages, six SELECTs | downtime adds up, the parts of a page agree |
| Catalog (`catalog_service.py`) | projects, groups, components | CRUD | API, worker, import | check-then-insert | constraints hold |
| HTTP plumbing, schemas, middleware, egress address | none or a cache | parsing, formatting, I/O | | | not modelled |

The list of what is hard to test, at its line in the code, is in `PROJECT.json` under
`hazards`, with the properties that cover each entry.

## 2. Modules

| Module | Contents |
|---|---|
| `OpenVpnWorker` | `run()` of a worker thread, one action per step between two points at which another actor can interfere; the rows, events, namespaces and sessions it works on |
| `VpnSupervisor` | EXTENDS it with `sync`, `stop_all`, the administrators' edits; specification, fairness and properties |
| `SessionOwnership` | the abstract specification: who may run, hold a tunnel and be replaced |
| `VpnSupervisor_proofs` | the theorems about it |
| `SpeedTestRows` | what a row of `check_results` says of speed tests, read and written: pure operators |
| `SpeedViews` | how the chart and the summary of the status page each show the speed of a row |
| `SpeedTestMemory` | EXTENDS both with the checks that read the newest row and write the next |
| `SpeedTestMemory_proofs` | the theorems about it and about `SpeedViews` |
| `HealthChecks` | how an OpenVPN, an Xray and an HTTP check may end: pure operators |
| `Monitoring` | EXTENDS it with the scheduler's cycle, the WAN measurement, the pick of the speed test, manual checks, edits, crashes |
| `Monitoring_proofs` | the theorems about it |
| `RefreshTokens` | the table `refresh_tokens` and the statements of its repository and service |
| `AccountSessions` | EXTENDS it with every request that reads or writes accounts and sessions, statement by statement, and the browsers |
| `AccountSessions_proofs` | the theorems about it |
| `UptimeStats` | downtime, counts, status and availability of days: pure operators with a reference definition |
| `UptimeStats_proofs` | what these operators return for any checks of any day |
| `StatusPage` | EXTENDS `UptimeStats` with the rows of a project, everyone who writes them, and the reader that builds a page |
| `StatusPage_proofs` | the theorems about it |
| `DatagateMatch` | the matching of servers to components: pure operators |
| `DatagateImport` | EXTENDS it with imports call by call, DataGate's files and the operators' edits |
| `DatagateImport_proofs` | the theorems about it |
| `Sorting` | sorting as the code's `sorted()` does it, and a list cut down by a condition, in a form the provers can use |
| `OrderLemmas` | facts about sets of numbers, ranks, folds and orders of a set that several of the proofs need |
| `MCVpnSupervisor`, `MCSpeedTestMemory`, `MCMonitoring`, `MCAccountSessions`, `MCStatusPage`, `MCDatagateImport` | instances and symmetry for TLC |

### State and code

Every action names its code in `PROJECT.json` under `map`. Of `VpnSupervisor`:

| Variable | In the code |
|---|---|
| `row[c]` | the columns of `monitored_components` (and `projects.is_active`) the worker reads. `kind` is check type and connection mode together: `persistent`, `ephemeral`, or `retyped` (persistent mode, another type; the two columns are edited one at a time). `config` stands for everything else the fingerprint covers and the interval |
| `latest[c]` | outcome of the newest `check_results` row |
| `life[c]`, `avail[c]` | the two newest `connection_events` of the tunnel family and of the availability family |
| `netns[c]` | does the namespace `sg-<component>` exist |
| `stray`, `late`, `refusing` | the host: components with an OpenVPN process no handle names (an exception between `Popen` and the return of the start, or in a stop whose handle is dropped), components with a sampler that outlived `join(timeout=10)`, does `ip netns add` fail |
| `pc`, `comp`, `stop` | where the thread is in `run()`, `_component_id`, its stop event |
| `session[t]` | `handle` and the process behind it: `starting` is a process whose start has not returned, `up` / `down` a handle whose `is_openvpn_persistent_session_up` says so |
| `sampler`, `lastProbe`, `loaded` | local `sampler` (not told to stop), `_last_probe_ok`, and `component`: none, usable, or without a `config_text` |
| `announced` | history: the newest availability event this thread committed |
| `worker`, `snapshot` | `_workers`, `_snapshots` (`_stop_events` has the same keys) |
| `supervisor`, `wanted`, `todo`, `target`, `joining`, `next` | the main thread's position in `sync` / `stop_all` and its locals |
| `abandoned` | history: threads whose `join(timeout=30)` ran out |

A thread slot of the model is a `Thread` object; a slot is reused once the thread ended and
no table refers to it. Of `SpeedTestMemory`:

| Variable | In the code |
|---|---|
| `latest[c]` | the four speed-test fields of the download and of the upload in `details.network` of the newest row (`fetch_latest_check_results`); a row without network details is `BareRow` |
| `history[c]` | the row `latest_with_meaningful_speed_test` finds |
| `check`, `memory`, `run` | the check in progress, its `SpeedTestRunContext`, `run_speed_test` |
| `slot` | `_speed_test_last_at` |
| `phase` | has the worker thread of a persistent component a session (`OpenVpnWorker` has the details) |
| `lastGood`, `goods`, `lastTry`, `gap` | history: what was really measured and recorded, and whether a bare row came since |

Of `Monitoring`:

| Variable | In the code |
|---|---|
| `row[c]` | is the component there and active; `broken` is an active one whose columns make every check of it raise: a VPN without a configuration or with `inbounds` that are no list, a URL httpx cannot parse |
| `last[c]`, `newest[c]`, `tested[c]` | age of `last_checked_at`, of the newest row's `checked_at`, of the last attempt that row knows of |
| `pc`, `todo`, `bad`, `allowed`, `run` | the cycle: what is left of the due list (a set; `Before` is the order of the loop, `Id` the order of the ids), those read as broken, the result of `pick_staggered_speed_test_component_ids`, `run_speed_test` |
| `mine[c]` | the row this cycle has flushed and not committed |
| `slot`, `wan` | age of the worker's `_speed_test_last_at` and of its baseline |
| `manual` | the check the API process runs by hand |
| `met`, `crossed` | history: checks that overlapped a recorded one of the other process |

Of `AccountSessions` with `RefreshTokens`:

| Variable | In the code |
|---|---|
| `tokens[t]` | rows of `refresh_tokens`: account, `revoked_at` set, `replaced_by_id`, `expires_at` passed |
| `accounts[e]` | rows of `accounts` with their roles; `secret` and `totp` are `totp_secret` and `is_totp_enabled` |
| `cookies[b]` | refresh and access cookie of a browser, and a second factor it was asked for |
| `req[w]` | the request thread `w` serves: where it stands, the row it read, the row it will write, the tokens it selected |
| `parent`, `raced`, `ended`, `founders`, `confirmed`, `mixed`, `stranded`, `signedOut` | history |

Of `StatusPage`: `component`, `grouped`, `results`, `incident` are the tables; `patch[a]` is a
PATCH between its read and its write; `page` holds what each SELECT of the page returned;
`skewed` and `arrivals` are history. Of `DatagateImport`: `row` and `integration` are the
tables, `files` the client files at DataGate per common name, `imp[i]` the locals and the
session of an import: the batch it still has to do (`work`), the rows as it read them (`read`),
changed columns and new rows not committed yet (`pend`, `inserts`), `_reserved_slugs`
(`reserved`); `raced` and `stale` are history.

### Abstractions

* **Supervisor.** Time is left out: any wait may end at any moment, so every relative speed of the
  threads, of the 30 s join and of the 60-120 s connect is covered. `connect_failures` only
  lengthens waits and is not kept. A fault (`FaultKinds`) is an exception or refusal at a place
  where the call may raise: `db` (any transaction), `netns` (the host begins to refuse
  `ip netns add`, for as long as it likes), `os` (an exception of the system that nothing expects:
  a `Popen`, a kill or a log file that is refused, in a start, a stop or the session check),
  `connect` (timeout, move refused, interface not up), `probe` (an exception in a probe), `drop` (the
  tunnel ends), `join` (the 30 s of a thread or the 10 s of a sampler run out). `MaxFaults` bounds
  their number; contention over a namespace or a device name costs none, nor does a configuration
  without text (`Unusable`). What a thread cannot clean up goes on without it: a stray process
  holds the name of the tun device until its `--inactive 3600`, a late sampler ends after its window.
  Lifecycle and availability events are kept as windows of two; properties about the order of
  events speak of neighbours only. Deleting a component removes its rows (the foreign keys
  cascade); it is not created again, as its id is a fresh UUID. `self._stop` of the worker class
  shadows a method `threading.Thread` had up to Python 3.12; the Dockerfile and the README of the
  repository say Python 3.14, where joining works. SIGTERM is not handled by the program:
  `ShutDown` is the KeyboardInterrupt that reaches `finally` in `main()`; a second interrupt
  inside `stop_all` is not modelled.
* **Speed tests.** `SpeedTestMemory` has a clock, in units; a speed test is live or a cached copy,
  good, failed or limited (429), and has a time. `ok` with zero bytes is stored as a failure, which
  is why the branch of `should_run_speed_test` that looks for such a row (lines 194-200) has no
  counterpart. Of the statistics the number of samples is kept. Whether the stagger lets a
  component measure is a free choice of each check; the stagger itself is in `Monitoring`.
* **Scheduler.** Times are ages, and ages past the interval keep only their order (`Aged`), which
  is all the code compares; this makes the state space finite without bounding time. Two rows of
  one tick count in commit order. All VPNs have speed tests on, with one interval; the 429
  back-off is in `SpeedTestRows`. One manual check runs at a time, so the contention for
  `_vpn_check_lock` is not modelled; which attempt its row knows of is left open. Every check may
  raise: one of a `broken` row always does, any other may (`CheckRaises`). The memory
  recalled from an older row may have any age. Every component is ephemeral. A WAN measurement is never
  skipped for an open ephemeral session in the worker, whose checks are sequential.
* **Sign-in.** Passwords and mailboxes are correct, tokens opaque, a code is the secret it was
  computed from. An UPDATE writes the columns that differ from the row as read, and a role set is
  a set of rows. `email_verified` is set by no code path apart from the bootstrap, Google and the
  setting, so e-mail verification has no action.
* **Status page.** A day has two seconds. Only the statuses `investigating` and `resolved` are
  kept, as the others behave like the first. Two updates of one incident never have the same time,
  and no two checks of a component. Titles, messages and labels are left out.
* **DataGate.** Names and hosts are sets of words, so that a substring is a subset; scores are
  multiplied by twelve to be whole. The operators' choice of servers, disabled and unselected ones
  included, is any subset. `id` order is creation order; `check_url` and `connection_mode` are set
  together with the configuration. The look-up and the write of a slug in the catalog are one step: a clash
  at the constraint is answered like one at the look-up (409). Row locks between a flush and the
  commit are left out: they only rule orders out. An answer of DataGate may be lost after
  the file was issued.

## 3. Runs

| Run | Instance | Bounds | Shows |
|---|---|---|---|
| `SupervisorSafety` | 1 component, 2 threads, 2 configurations | 2 faults of all 7 kinds, 1 edit, shutdown | `TypeOK`; supervision (`RunningIsSupervised`), exclusive tunnel (`ExclusiveTunnel`), handles and samplers of live threads (`HeldByLiveWorker`), clean exit (`CleanExit`), probe memory (`MemoryMatchesEvents`), refinement of `SessionOwnership` (`ImplementsOwnership`) |
| `TwoComponents` | 2 components, 2 threads, 1 configuration | 1 database fault, 1 edit | a sync passes no wanted component over (`SyncServesAll`) |
| `LifecycleEvents` | as the first, events kept | 2 faults of `netns`, `connect`, `drop`; 2 edits; shutdown | lifecycle events are paired (`LifecyclePaired`) |
| `Liveness` | 1 component, 2 threads, 2 configurations, one of them without text | 1 fault of all 7 kinds, 1 edit; a refusing host may go on for ever | stopped workers finish (`StoppedWorkerFinishes`), the table converges (`TableConverges`), tunnels come back (`TunnelRecovers`), outages are reported (`OutageIsReported`), the last two unless a worker cannot start at all |
| `WantedServed` | 1 component | no fault, 2 edits | `WantedIsServed` **violated**: a thread that ended is not replaced |
| `AvailabilityRestart` | 1 component | no fault, 1 edit | `AvailabilityAlternates` **violated**: an outage is announced again after a replacement |
| `SpeedMemory` | 1 component of either mode, upload supported | interval 2, back-off 4, gap 1, 6 ticks | success, samples, attempt, display and spacing survive any sequence of rows (`SuccessRemembered`, `SamplesCounted`, `AttemptRemembered`, `SpeedStaysVisible`, `TestsAreSpaced`); chart and summary agree (`ViewsAgree`) |
| `UploadMemory` | the same | the same | `LifecycleKeepsSpeed` **violated**: a lifecycle row drops the upload memory |
| `AccountSessions` | 2 accounts, 2 browsers, 2 threads, 1 Google identity | 4 tokens, 2 secrets, 4 requests, lost responses or expiries | token chains (`TokenLineage`), forks (`ForksNeedOverlap`), final revocations (`RevocationIsFinal`), live cookies (`CookieLive`), complete logouts (`SignedOutStaysOut`), confirmed second factors (`TotpConfirmed`), a first administrator (`BootstrapAdmin`) |
| `StatusPage` | 2 components, 1 incident, 2 administrators, two days | 4 instants, 3 writes, 2 updates | downtime against its reference (`UptimeExact`), coherence of a page read while it changes (`PageCoherent`), order of an incident's times (`EndsAfterStart`); timeline and days show the same incidents, and an alert and the bar of today differ for two named reasons only (`IncidentViewsAgree`) |
| `Monitoring` | an OpenVPN, an Xray and an HTTP component, for ever | 1 crash, edit, deletion, purge or manual check | the next check counts from the newest row, or an older one after checks that overlapped (`LastCheckedIsNewest`); once no check raises any more results of every active component are recorded again and again (`ChecksRecorded`); speed tests take turns if the picked VPN can measure (`TurnsTaken`) |
| `DatagateImport` | a udp and a tcp server of one name, five starting tables | 3 imports (2 at once) or edits, 1 edit, 1 failing call | a commit adds at most one link to a server and takes none from a well linked one (`AtMostOneLinkAdded`), no file is issued twice (`MonitorIssuedOnce`) |

Why the bounds are enough: two threads of one component are the old and the new worker of a
replacement, and a third would need a second replacement while the first thread still
runs; one edit replaces or removes a worker, two bring a component back; two faults give
a failure during the handling of a failure (a join that runs out and a connect that fails
next to it). A refusing host needs one fault only, however long it refuses. The safety results of
the first three runs are also proved without bounds.
`LifecycleEvents` leaves database faults out: row and event are two transactions and
`_safe_record_connection_event` swallows errors, so with one a missing event is expected. It leaves
`os`, `probe` and `join` out for the reasons given with `LifecycleCorrect`.
In `SpeedMemory` components share nothing but the slot, which `OthersMeasure` takes for all
the others; six ticks hold a limited test, its whole back-off and a second test, with any
number of cached, bare and lost rows between. Its results are proved without bounds as well.
In `AccountSessions` two threads are a pair of overlapping requests, which is what every
statement of the services can meet; four events are two requests that set a situation up and the two that overlap, or
a sign-in, an overlapping pair and a lost answer; registration is open
(`AllowRegistration`), so its refusal in `CountAccounts` is not taken. All its properties are proved without the bounds.
In `StatusPage` a check, an outage across midnight and a PATCH of each administrator fit into four
instants and three writes. `Monitoring` has no bound on time: two VPNs compete for the turn and the
slot, the HTTP component follows them in the list, and any single disturbance may come at any
step, and any check may raise; liveness under it then speaks of what remains. `DatagateImport` has the smallest
pair of servers that are each other's second best match, and starts from tables that are empty,
filled by hand, linked, linked the wrong way round, and linked twice to one server; three imports are two that overlap and one that repeats.

Symmetry is used in safety runs only. `CHECK_DEADLOCK FALSE` appears where a shutdown ends the
system; in `TwoComponents`, where the two slots may both be taken by threads of one component
while the other waits for one (real threads are not limited); in the runs of `SpeedTestMemory` and
`StatusPage`, whose clocks end; and in `AccountSessions` and `DatagateImport`, which stop when
the bound on requests is reached.

### Fairness

`Fairness` of `VpnSupervisor` is weak fairness of the main thread (`SupervisorStep`) and of each
worker thread, and of the end of a stray process (`StrayEnds`). The main thread's loop has no exit and
catches every exception (`__main__.py:27-33`); every wait on an event, a socket or a process that a worker
thread started has a timeout, and the scheduler of the operating system runs each thread that can
run. The `ip` calls of `vpn_netns.py` (45, 53, 73, 96-115) have no timeout: that they return is an
assumption about the host. A stray process has `--inactive 3600` (`openvpn_session.py:111`).
Nothing is assumed of administrators, of shutdown, of faults, of the tunnel or of the host: it may
refuse namespaces for ever (`HostAllows` is not fair). Since any alternative of an action may be
taken for ever, the properties hold for every outcome of the probes.

Two properties name what they except. `TunnelRecovers` and `OutageIsReported` say nothing of a worker that
cannot start, because the host refuses namespaces or the row has no configuration: `run()` writes no
row on these two branches (lines 155-169, and 170-194 without an open session), so the newest
result stays what it was for as long as that lasts, an `up` included.

`Monitoring` assumes that time passes and that the worker takes its steps: the same loop, whose
checks all have timeouts, in a container with `restart: unless-stopped`. What a check returns is never fair,
nor is it that a check returns at all: `ChecksRecorded` has the premise that from some point on none
raises (a single one that raises in every cycle, of any kind of component, keeps all results from
being recorded), and `TurnsTaken` further that the picked VPN can measure (`Hindered`). Crashes, edits
and manual checks are bounded and not fair.

### Findings

* **A worker that ended is not replaced** (`WantedServed`). `sync()` compares ids and
  snapshots and never asks whether the thread runs. Deactivate and activate a component
  between two syncs: the thread saw the inactive row and returned, the snapshot is the
  same as before. A database error at `_load_component` (outside the inner `try`) has the
  same effect. Only an edit of the fingerprint or a restart brings the component back.
* **An outage is announced twice** (`AvailabilityRestart`). `_last_probe_ok` belongs to the
  thread; a replaced worker starts with `None` and records `unavailable` again, or never
  records the `available` that ends the outage.
* **A lifecycle row drops the upload speed** (`UploadMemory`). `_save_session_event` rebuilds the
  context with the download fields only. The row of the next `tunnel_up` or `tunnel_down` with
  network details has no upload memory, and as it knows a successful download no older row is
  consulted any more.

Observations while modelling, without a run of their own; the properties above are stated
around them:

* Speed tests: a bare row makes the next test due at once, past the back-off; the older row is
  looked up only when the newest knows no successful *download*, so an upload success next to a
  failed download is lost at the next bare row; a test whose row cannot be committed is forgotten
  and repeated. A VPN that is down for good keeps the oldest attempt and so its turn, although the
  docstring at `speed_test_config.py:218` speaks of a rotating order (`TurnsTaken` assumes that
  the picked one can measure); a failing WAN measurement with an earlier baseline is due again in
  every cycle and takes the slot each time.
* Supervisor: an exception between `Popen` and the return of the start (`killpg` refused, the log
  not readable; `openvpn_session.py:120-163`), or in a stop, leaves a process that no handle names; the next start of the component
  may fail for its device name until it exits by itself. While namespaces are refused, or the row has
  no configuration, an outage is not reported.
* Scheduler: a check that raises discards its whole cycle, and one that raises every time stops all
  recording until someone mends it. Not only a VPN whose configuration a PATCH took away does
  (`_config_text`; `inbounds` that are no list): `_run_http_health_check` catches `httpx.HTTPError` alone, so
  a URL that httpx cannot parse (`httpx.InvalidURL`; `check_url` is not validated), JSON nested too
  deeply (`RecursionError` at line 109) and a NUL in `body_preview`, which the column refuses at the flush, do as
  well, and a program that cannot be started (`vpn_check_service.py:146`, `276`). `ChecksRecorded`
  and `TurnsTaken` assume that in the end no check raises. A WAN template with braces other than its placeholders would raise in every cycle
  in which the WAN is due (`host_wan_speed.py:319`).
* Status page: the downtime of a day without checks is dropped, also in the middle of an outage
  (`public_status_service.py:453` and `942`); two PATCHes may leave an end before the start; an incident
  that is over, or yet to begin, by `starts_at` and `ends_at` still raises an alert, as `_active_alerts` (580-597)
  looks at its newest update alone, while no bar of today shows it.
* Sign-in: two refreshes that overlap split a session in two, and a refresh whose answer is lost,
  or whose account was deactivated meanwhile, has used up the browser's token.
* DataGate: two components linked to each other's server do not end up swapped
  (`matcher.py:187-198` refuses a component whose linked server was matched elsewhere meanwhile):
  after one import both are linked to one server and a new component takes the other, where
  `test_datagate.py:338` says "must rematch, not create a duplicate". Of two components linked to one
  server only the last one counts (`matcher.py:163`): if it is incompatible, the other one is
  matched anew, also to another server; `AtMostOneLinkAdded` names that server's holder for this
  reason, and bounds what is added, not what stays. An import that another one
  overtook takes a slug with a second number and creates a second component of a server. A slug of
  full length is cut back to itself, and the loop at `import_service.py:278` never ends. Two
  imports about to issue at once issue two files.

## 4. Proofs

`VpnSupervisor_proofs` holds, for all values of the constants that meet the five
assumptions of `OpenVpnWorker` (`KindAssumption`, `FaultAssumption`, `NameAssumption`,
`ConfigAssumption`, `LogAssumption`) and `EditAssumption`:

* `TypeCorrect`, the type invariant;
* `InductiveInvariant`, `IInv == TypeInv /\ Holdings /\ TableInv /\ JoinInv /\ StopAllInv`;
* `EveryWorkerSupervised`, `TunnelsExclusive`, `HeldOnlyByLive`, `ExitIsClean`,
  `MemoryCorrect`, `SyncIsComplete`: the safety invariants of the runs;
* `Refinement`: `Spec => Ownership!Spec`, initial states to initial states, every step to
  a step of `SessionOwnership` or a stutter;
* `LifecycleCorrect`: `Spec => []LifecyclePaired` from `Undisturbed`, that is, without the faults
  `db`, `probe`, `os` and `join`. The hypothesis says where the property ends: with a database error row and
  event part, an exception of a probe or a stop skips the `tunnel_down`, and after a join that ran out two
  threads write one log.

None of the invariants is inductive by itself. `Holdings` ties what a thread holds to its
program counter (a session is `starting` exactly in `connect` and `move`, a dead thread
holds nothing), which is what makes the handlers complete. `TableInv` says that the table
maps a component to a thread of that component and that every running thread that is not in
the table was told to stop. `JoinInv` says that a running thread outside the table is either the
one being joined or abandoned; exclusiveness follows from it and `Holdings`. `StopAllInv` says that what
`stop_all` has not visited yet is exactly what the table still holds. `SyncIsComplete`
needs one more conjunct, that the target of a replacement in progress is still to do. `LifecycleCorrect`
needs `LoneInv` (without abandoned threads a component has one live thread) and `LifeInv`: at each place
of that thread, `Open(t)` says whether the newest event is an open `tunnel_up`, and without a
thread none is open. Each of these is proved action by action; the temporal
theorems combine `Init => Inv` and `Inv /\ [Next]_vars => Inv'` by PTL.

`SpeedTestMemory_proofs` holds, from `ScheduleAssumption`, `UploadAssumption` and `ClockAssumption`:
`TypeCorrect`; `InductiveInvariant`; `SuccessIsNeverForgotten`, `EverySampleCounts`,
`AttemptIsNeverForgotten`, `SpeedIsShown` and the action property `SpacingIsKept`. The properties
speak of what the next check would recall, which the writing of a row does not preserve by
itself. `RowKnows`, `HistoryKnows` and `MemoryKnows` say what the newest row, the older row and a
context know; the lemmas `RememberKnows`, `CachedKnows` and `LiveKnows` show that reading and the two
ways of writing lead from one to the next, and `KnowledgeInv` adds that an open check's context is
still what the rows say and that a due test stays due. `ViewsCorrect` (chart and summary of `SpeedViews`
agree) rests on `ShowsInv`: a row that shows a value has its date, in every row and context.
`LifecycleKeepsSpeed` is refuted.

`AccountSessions_proofs` holds, from `SettingsAssumption`, `BoundsAssumption` and `NoneAssumption`:

* `TypeCorrect`. `TypeInv` adds to the types what a request at each place knows (`RequestOK`: its
  account exists when it edits one, its token is a row when it rotates one);
* `LineageCorrect` and the action property `RevocationCorrect`. The lemma `NextIsTokenStep` reduces
  every step of every request to one of the statements of `RefreshTokens` (`TokenStep`), and
  `TokensOnlyGrow`, `LineageStep` and `ReplacementStep` say what these do to the rows, so the
  argument does not depend on which requests overlap;
* `ForksCorrect`, by `ForkInv`: two holders of a token, or a holder of a token that was rotated already,
  have overlapped. A token that `rotate` reads as active has no rotation yet, by the lineage;
* `SignOutCorrect`, by `SweepInv`: a sweep has selected, or finds revoked, every token that was
  there when its request began. Tokens rotated meanwhile are revoked by the rotation;
* `BootstrapCorrect`, by `FirstInv`: who counted an account before the insert is right about it;
* `TotpCorrect`, by `TotpInv`: an account two edits are under way for is in `mixed`
  (`EditsMixed`), and the edit of any other has read its factor as it is and leaves a confirmed one
  (`EditOK`);
* `CookieCorrect`, by `CookieInv`: the token of a cookie is known to its browser and the requests of that
  browser alone (`Home`), the token a request has made to that request alone (`Unseen`), and the
  token of a cookie is live or a request of the browser brings another (`Waits`).

The lemma `WhoRelies` says which three reads lead to the places where a request relies on what it
read; the later invariants are proved from it.

`Monitoring_proofs` holds, from `IntervalAssumption`, `BoundAssumption`, `NoneAssumption`,
`FiniteAssumption` and `IdAssumption`: `TypeCorrect`; `InductiveInvariant`, `IInv`, the types together with
`WorkerMet` and `ManualMet`; `LastCheckedCorrect`. That `last_checked_at` is never later than the newest
row, and its time unless checks overlapped, is kept by no step alone: the worker flushes a time it commits at the end of the cycle, and
a manual check may commit in between. `WorkerMet` and `ManualMet` say that whoever then commits an
older time has met the other in `met`. Ages are packed when they pass the interval (`Aged`); the lemmas
`AgedKeepsOrder` and `AgedReflectsOrder` say that their order survives, in both directions.

`UptimeStats_proofs` has no theorem of a specification, but what `StatusPage_proofs` needs of the
arithmetic: the downtime loop equals its reference (`DowntimeIsExact`) and never exceeds the day
(`DowntimeFitsDay`, whatever the clock says), a status is a linear inequality on the counts
(`StatusSays`), and a group's status is the worst of its services' (`MergeFold`). The loop is a
fold over the sorted checks; `SortedEvents` says that sorting puts each in its place, `CountFold` gives
its value after each check, and `Exact` and `Open` in the proof of `DowntimeIsExact` say what it knows then:
the seconds of outage up to the next check, and since when the open one lasts.

`StatusPage_proofs` holds, from `DayAssumption`, `StampAssumption`, `NoneAssumption` and
`FiniteAssumption` (a project has finitely many components):

* `TypeCorrect`, by `TypeInv == OthersOK /\ IncidentsOK`;
* `EndsAfterStartCorrect`, by `PatchInv`: a PATCH that is alone on its incident (`Alone`) still knows the
  times of the row, so the order it checked is the order it writes;
* `IncidentViewsCorrect`. The SELECT for a range and the test of each day agree by arithmetic
  of days (`TimelineOfRow`): the witness is the later of the first day and the day of the start. An alert and the
  bar of today look at the same newest update unless one is dated later (`AlertsMatchBarsHolds`), so what is left are the
  incident's own times;
* `PageTornOnlyByArrivals`, the first part of `PageCoherent`, by `PageInv`: what a later SELECT
  has read was read by the first one or has arrived since (`Known`);
* `UptimeExactCorrect`, from `DowntimeIsExact` and `ResultsOK`: no two rows of a component have the same
  time, and none is of the future;
* `PageCoherentCorrect`. A day's downtime fits by `DowntimeFitsDay`, as the times the page read are distinct
  too (`TimedOK`). Sums of bars are folds over a set in some order: `SumIsTally` shows that they count every check of
  the cells once, so disjoint groups add up whatever the orders are (`GroupSums`), and `SumKeeps`
  that what holds of every bar and is kept by adding holds of the sum, which gives `SumNotWorse`.

`DatagateImport_proofs` holds, from `ListAssumption` (no server and no id twice), `WordsAssumption`,
`ServerAssumption`, `RequestAssumption`, `BoundsAssumption`, `StartAssumption` and `NoneAssumption`:

* `IssuedOnceCorrect`, which needs none of them, by `IssueInv`: who is about to issue a file has seen that
  there is none, or another import was about to issue the same;
* `ImportsCorrect`, the inductive invariant `ImportInv`, and from it `TypeCorrect` and `LinksCorrect`.

`ImportInv` begins at the match. Its candidates are sorted by a total order (`CandidateOrder`) and
consumed by a fold (`ConsumeFold`), so `MatchServersOK` follows by the smallest prefix that fails:
every pair is a kept link or takes a component that is free (`Free`), and no server and no
component is in two. `KeepsIs` says that a link is kept exactly if the last component linked to the
server is compatible (`WellLinked`), and `WorkForOK` that the jobs of an import are what `JobOK` allows.
From there `OneEach` says that no server occurs twice among the jobs left, the components updated and
those inserted, `JobsOK` that all three are what the match planned, and `Fresh` that links are as they were
read until another import commits. Each way a job can end is an instance of `JobDone`. `IdsLeft`, which
the types need as well, says that ids no row has had are in nobody's hands and that there is one for every insert
that is not committed. `CommitWrites` is the table after a commit; `CommitSettles` reads the links off it.

What these share is in `OrderLemmas`: a set of naturals has a smallest element, a bounded one a greatest;
an image of a finite set is finite; in a finite total order every rank is taken once (`RankOnto`); a fold
over a sequence exists and has its value at each prefix from the one before (`FoldExists`,
`PrefixValues`); `Sorted` returns every element once, in order (`SortedIs`), and `Only` what of a list is in a
set (`OnlySeq`). Induction there and in the proofs about folds is by a smallest counterexample.

Only model-checked:

* the liveness properties (`StoppedWorkerFinishes`, `TableConverges`, `TunnelRecovers`,
  `OutageIsReported`, `ChecksRecorded`, `TurnsTaken`): fairness and ENABLED are beyond the prover.

## 5. Plan

1. *Done*: `OpenVpnWorker`, `VpnSupervisor`, `SessionOwnership` and their proofs.
2. *Done*: `SpeedTestRows`, `SpeedTestMemory`, their proofs, `SpeedViews`.
3. *Done*: `HealthChecks`, `Monitoring` with the stagger and the WAN measurement.
4. *Done*: `RefreshTokens`, `AccountSessions` and their proofs.
5. *Done*: `UptimeStats`, `StatusPage`; `DatagateMatch`, `DatagateImport`.
6. *Done*: proofs about `Monitoring`, `UptimeStats`, `StatusPage` and `DatagateImport`, the remaining ones about
   `AccountSessions`, `SpeedViews` and the lifecycle events: every safety property of a passing run is
   the statement of a theorem.
7. Later: crash and restart of the worker process around `VpnSupervisor` (stale namespaces, a
   missing `tunnel_down`); the root namespace's tun devices, which ephemeral checks and starting
   persistent sessions share (`tun_iface.py:16`); the history file of the WAN baseline written by two processes.

## 6. Not modelled

* HTTP plumbing, schemas, error formatting, OpenAPI, hashing, labels and tooltips: no state that
  several actors share.
* The inside of a probe, of a download and of a tunnel (sockets, routes, log parsing, the egress
  address): I/O whose outcomes are free choices of the models.
* Migrations under `alembic/`; cascades of the foreign keys are in the actions that delete.
* The tunnel ping sampler's windows and the host WAN history: measurements that only charts read.
* Paging and listing: they only read.
* `_vpn_check_lock` between several manual checks, and projects, groups and kinds beyond their
  `is_active`.

`PROJECT.json`, `components`, names what is left out of each part.
