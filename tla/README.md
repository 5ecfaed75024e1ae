# SemiBase in TLA+

SemiBase prepares a Windows machine on which a Simple-Scada 2 project writes its
archive into PostgreSQL and SemiPlot reads it back. This directory holds TLA+
modules of its parts, the TLC configurations that check them on small instances,
and theorems that TLAPS checks for every value of the constants. `PROJECT.json`
lists the runs, the mutants that show each property can fail, the code lines
behind each definition, the hazards and the theorems.

    tlc -config Restart.cfg MCServiceRestart.tla
    tlapm ServiceRestart_proofs.tla

Eight modules hold theorems: `ServiceRestart_proofs`, `Provision_proofs`,
`ProvisionOutcome_proofs`, `CheckSession_proofs`, `Site_proofs`, `Setup_proofs`,
`ConfReader_proofs` and `Engine_proofs`.

## Inventory

| Component | Code | State it keeps or changes | Operations | Hard behaviour |
| --- | --- | --- | --- | --- |
| config phase | `internal/provision/config.go` | `postgresql.auto.conf`, `pending_restart` | twelve `ALTER SYSTEM`, reload, read pending, wait for the server | the reload is asynchronous; an administrator changes settings too |
| service restart | `service_windows.go` | the Windows service, the postmaster behind it | check, Stop, wait for the exit, Start, wait for Running, diagnose | `pg_ctl` reports before the postmaster has acted, cancellation in the middle, hangs, crashes, bounds |
| create phase | `create.go`, `schema.go`, `sql/` | roles, database, grants, default privileges, tables, the function, the schema version | 33 statements, each committed by itself | a cut after any statement, re-runs, two runs at once, the SCADA creating tables in between, builds of two versions |
| check phase | `check.go`, `runAs` | the role, transaction and savepoints of one connection; nothing that stays | probes asked as `semiplot` or `scada_writer`, questions to the catalog, a login | leaving role and transaction after every kind of error, telling a refusal from another failure, privileges that change between two questions |
| engine | `internal/engine` | none | read the service list, each data folder and its configuration files; classify | the machine changes while it is read; include files that nest or form a cycle |
| command line | `cmd/semibase/main.go`, `provision.go` | the context of the command | `site` = config, create, check; `bench` = create, check; `engine` | one five-minute bound and one interrupt over all the phases; a run that starts where another was cut off |
| setup | `Installer/SemiBase.iss` | what the wizard and the engine's answer told it | probe for the uninstaller, detect, probe port and folder, run the EDB installer, detect again, configure and start the service, run `site` | an answer that is old when it is used; an uninstaller or installer still at work; failures half way; advice that leads in a circle |
| console text | `text*.go`, `console.go` | none | formatting | none |
| packaging | `Dockerfile`, `.github`, `Installer/*.sh`, `make-icon.py` | none | build | none |

`site` runs config, create and check over connections of its own; config drives the
service control manager and, through it, `pg_ctl` and the postmaster. The setup calls
`semibase engine` up to three times and then `semibase site --restart-service`. The
SCADA and the operator act on the same cluster and the same service while all this
runs, and nothing locks them out: the shared state is the cluster's catalog, the
service's state and the files of the data folder.

What makes each part correct:

* config and restart: a service that a run stopped runs again, unless the machine
  failed the run; the Start never meets the old server; what the run says at its end
  is true; every run ends.
* create: a run that is cut off anywhere can be repeated; nothing a commissioned
  machine has is taken away by a later, parallel or older run; a password the SCADA
  holds is not changed; the viewer can read what the writer creates.
* check: it fails only over what is really wrong, what it passes is really there, its
  probes leave nothing, and each runs in the role it means to test.
* the command: exit code 0 means that everything is there; a re-run continues; what it
  prints for the operator to act on is true.
* engine: where it reports a port, it is the one PostgreSQL would use; a verdict is true
  of the machine it read.
* setup: it installs on a bare machine only, as far as it can list the data folder; its
  last page and its refusals are true; advice that could cost an archive comes only where
  the engine cannot place the archive; an operator who follows the advice gets there.

## Modules

| Module | Models | State |
| --- | --- | --- |
| `PgService` | the machine around a restart: service control manager, `pg_ctl runservice`, postmaster, administrator, operator. External: it is modelled from how the code uses it and from the facts recorded in `docs/architecture/provisioning.md` | `scm`, `pgctl`, `pgctlWaited`, `server`, `written`, `loaded`, `flagged`, `reload`, and the histories `lockFile`, `faults` |
| `ServiceRestart` (extends it) | `config` and everything below it: `openService`, `applySettings`, `restart`, `waitReady`, the second read of the pending settings | `pc`, `target` (what `--restart-service` names), `applied`, `sent`, `waited`, `queries`, `context`, `outcome`, `runs` |
| `RestartContract` | what the config phase promises, without polls and waits | `phase`, `verdict`, `server` |
| `ServiceRestart_proofs` | theorems about `ServiceRestart` | |
| `Provision` | create and check of any number of runs on one cluster, with the SCADA and the operator | the cluster (`objects`, `acls`, the two passwords, `trendsBy`, `unreadable`, `schemaVersion`); per run `pc`, `seen`, `outcome`, `options`; histories `raced`, `replaced` |
| `Provision_proofs`, `ProvisionOutcome_proofs` | theorems about `Provision` | |
| `CheckSession` | the check phase on its connection: the role, transaction and savepoint of every statement, each way it can end, and what the code concludes | the cluster (`held`, `messages`, `kept`); the session (`conn`, `role`, `saves`, `rows`, `broken`); the run (`pc`, `scope`, `cause`, `verdict`, `named`); histories `right`, `wrong`, `faults`, `moves` |
| `CheckSession_proofs` | theorems about `CheckSession` | |
| `Site` | `site` and `bench` from the command line to the exit code, over and over, with the phases under one context | the machine (`service`, `settings`, `created`); the run (`pc`, `command`, `host`, `restart`, `applied`, `sent`, `verdict`, `step`, `context`, `elapsed`, `exit`, `said`); histories `spared`, `faults` |
| `Site_proofs` | theorems about `Site` | |
| `Setup` | `InitializeSetup` and `PrepareToInstall`, with the EDB installer and uninstaller and the operator around them | the machine (`service`, `startup`, `data`, `files`, `removal`, `stranger`, `obstacle`, the passwords); per Setup `pc`, `detected`, `fresh`, `super`, `writerField`, `refusal`, `listed`, `edb`; histories `heir`, `company`, `faults`, `moves` |
| `Setup_proofs` | theorems about `Setup` | |
| `ConfReader` | `configuredPort`: the walk over `postgresql.conf`, its include files and `postgresql.auto.conf` | `disk`, `work` (the call stack), `port`, `source`, `verdict` |
| `ConfReader_proofs` | theorems about `ConfReader` | |
| `Engine` | `Detect`, `readService`, `describe`, `collectServices` and `Classify`, beside a machine that moves | the machine (`m`, histories `moved`, `moves`); `todo`, `step`, `reading`, `read`, `verdict` |
| `Engine_proofs` | theorems about `Engine` | |
| `MC*` | the instances TLC checks | |

### ServiceRestart

One action per call that can fail or be interleaved: a query of the service state, a
connect to the port, one `ALTER SYSTEM`, the reload, the Stop, the Start. Between two
of them the machine moves. `waited` counts ticks of the wait the run is in; a tick is
longer than a poll interval and shorter than every bound. `Cancel` is the interrupt or
the command's deadline (`main.go:125`): the steps before the Stop and after the Running
wait look at it, the detached part between them does not (`service_windows.go:200`).
`Kill` is a process that ends without running any code. `faults` collects what the
environment did wrong during the run, so that a property can say "unless".

Assumptions about the machine, each used by the code as well:

* `PgctlWait` is below `StopBound` and `StartBound`: `pg_ctl`'s 60 s against the run's
  180 s and 120 s. It is an `ASSUME`, and `BoundsOnlyForAHang` and `RunEnds` need it.
* A refused connect means that the postmaster is gone: it opens its sockets after
  writing `postmaster.pid` and closes them just before removing it (the code's own
  argument at `service_windows.go:219`).
* The service manager launches `pg_ctl` within one poll interval of accepting a Start:
  `PollStarted`'s second query does not see `launching` (`service_windows.go:276`).
* The operator starts and stops servers between runs, not during one. An
  administrator's `ALTER SYSTEM` may come at any time.

### Provision

`Script` is the list of statements create and then check issue, in their order;
`pc[r]` is the index of run `r`'s next one. A "check" step (`roleExists`,
`relationExists`, the `pg_database` query) only records what it saw and the "set" step
after it acts on that, so another run or the SCADA can come between the two. `objects`
and `acls` are what the cluster holds: each grant is named after the statement that
gives it, and `publicCreate` (PostgreSQL 14) and `publicExecute` (every new function)
come with defaults. A file sent as one simple-protocol query commits as one step, as
PostgreSQL runs it in one implicit transaction; so do the `REVOKE` and `GRANT` of the
function. `Cut` ends a run at any statement. `Fit` says which of these grants a tail
check asks for. The last step, `plotLogin`, logs in as `semiplot` with the password the
run was given or the convention; `replaced` holds the runs whose password another run
has overwritten since, the one thing that may make that login fail.

### CheckSession

`Script` is the phase from connect to the last question, "end" being the way out of a
`runAs`, a transaction or a savepoint. `Results` says how PostgreSQL may end a statement:
refused when, and only when, the session's role lacks the privilege; "aborted" in a
transaction that an error has spoilt; "transient" (a timeout) or "lost" at any time;
"integrity" when a row of the same name is in the way. `saves` is the stack of what a
rollback restores, the role among it. The deferred calls of Go are `scope`, the innermost
cleanup the run owes: a run that has failed still performs them, one that is killed does
not. `held` are the privileges in force; `right` and `wrong` collect which of them were as
they should be, and which were not, at some moment of the run, so that a verdict can be
held against the truth although an administrator keeps changing it.

`Provision` asks the same checks of the privileges create gives, with several runs at
once; `CheckSession` has one run and all it could find.

### Site

One context spans config, create and check. Time passes in ticks where it matters: the
two waits of a restart, which are detached from the context and may use it up, and each
step of create that is not done yet. A step an earlier run has done costs nothing, which
is what makes re-runs get on. `Cancel` is the interrupt, or a call that takes the rest of
the five minutes. Config keeps the calls `RestartContract` speaks of, under the mapping `ServiceRestart`
has (a server that is starting counts as alive), create is
`CreateSteps` steps, check is its three parts with a context and a connection of their
own; `ServiceRestart`, `Provision` and `CheckSession` have the rest of each. `created`
only grows: that a commissioned machine stays so is `Provision`'s `CommissionedStays`.

### Setup

One action per probe, tool or installer `PrepareToInstall` starts, since each sees the
machine at its own moment. `EngineState` is the verdict of `Classify` on this machine;
`obstacle` stands for what makes it ambiguous, unreadable and so on, which the operator
clears. The EDB installer works in steps of its own (`unpacking`, `initdb`, `service`)
and goes on when its Setup is killed, as `orphan`; the EDB uninstaller has returned when
its copy removes the service and then the files, and leaves the data folder. Facts about
both are those recorded in `docs/architecture/installer.md`; that `initdb` refuses a folder
that is not empty is PostgreSQL's. `FollowAdvice` does what a refusal's text says.
`company` records that someone else has touched the machine since the Setup's own engine
run: probes and acts are apart, nothing locks the machine, so the promises are made to a
Setup that was alone, whatever happened before.

Three things a probe may get wrong are in the model. `IsNonEmptyDirectory` answers False
for a folder whose listing fails: `ProbeFolder` then goes on to the installation, and
`listed` remembers it. A service without `-D`, or with an unreadable `PG_VERSION`, is
`incomplete` to the engine although an archive may stand behind it: the obstacle
`unplaced`, which goes with the service (no `-D`) or stays in the folder (`WithoutService`).
And a server whose superuser has another name has no role `postgres` (`noRole`): no password
logs in there (`LogsIn`), PostgreSQL answers 28P01, and Setup shows `SitePasswordWrong`
(installer.md:105). An engine that does not start and one that fails are two answers
(`Answers`), with `SiteNotStarted` for the one and `EngineFailed`, or `EdbFailed` after an
installation, for the other. `site` may fail half way through create, and in the middle of
its restart, which leaves the service stopped. At most one orphan is at work at a time.
The run has one Setup; what a second one could do to it, the orphan's installer and the
administrator's manual run of `site` do. The theorems hold for any number of Setups.

Left out: the pages' own checks of a field, which `PrepareToInstall` repeats, the ready
memo, the logs, the copy of the tool in the log folder, and refusals for a file that
cannot be written in Setup's own temporary folder.

### ConfReader and Engine

`read`, `apply` and `readDir` call each other; `work` is that stack, with a frame for
each file that is being read or will be. A line is reduced to its setting and value, a
syntax error being a setting of its own. The reference it is checked against has no
stack: `Places` collects every place an include leads to under the trail of line numbers
that leads there, and the last port line in the order of the trails is PostgreSQL's. The
reference takes its ports (`PostgresPorts`), what it calls an error (`Broken`) and when it
counts the depth (`TooDeep`: before it looks whether the file is there) from PostgreSQL and
nothing from the reader. The two differ in two cases, which `ReadsWhatPostgresReads` names:

* the reader refuses a port line out of range that a later line overrides, while PostgreSQL
  ignores all but the last entry of a parameter (the run `conf_documented`, see Findings);
* the reader passes over an `include_if_exists` of a file that does not exist at any depth,
  while PostgreSQL refuses one nested too deep before it looks for the file.

`Engine` has one action per call that reads the machine: the list, which may fail and end
the run without a verdict, a service's command
line, its state, `PG_VERSION`, the configuration, `postmaster.pid`. Between any two of
them a service may start, stop, crash, be created, deleted or edited. `conf` stands for
what `configuredPort` returns, read in one step: a file that changes between two of the
reader's own reads is not modelled. `moved` records what happened to each service during
the detection, and the properties say what the verdict is worth in spite of it.

## Runs

| Run | Configuration | What it shows |
| --- | --- | --- |
| `restart` | two runs of the tool, two settings of the run's (one needs a restart), one of an administrator's, `PgctlWait` 1, `StopBound` and `StartBound` 2, `ReadyBound` 1, `FairSpec` (267785 states) | `NoLockConflict`, `StrandedOnlyByAFault`, `BoundsOnlyForAHang`, and that "all settings active" and the diagnosis after a failed start are true when they are printed; `ServiceRestart` implements `RestartContract`; every run ends; an accepted Stop is undone or a fault explains why not |
| `restart_documented` | the same, one run, `Spec`; **expected to be violated** | provisioning.md names four cases that leave the service stopped; the code has two more (see Findings) |
| `provision_safety` | two interchangeable runs, three sets of options over two schema versions | everything `Provision` states |
| `check_session` | every privilege a probe or question is about, one of them wrong at the start or none, one change during the run | the role never leaks, nothing survives, and pass, `REVOKE` and `GRANT` are deserved |
| `site` | `Deadline` 2, three steps of create, three faults, `FairSpec` (42215 states) | exit code 0 means commissioned; no run shuts itself out; the limit leaves the service running; config keeps `RestartContract`; re-runs get done, however often the limit ends one |
| `site_documented` | the same with two faults; **expected to be violated** | the hint that a re-run continues is printed where it does not (see Findings) |
| `setup_safety` | one Setup run again and again, every machine (496 starts), one fault, one act of an administrator (1283862 states) | it installs on a machine without a service, with a free port and a folder that is empty or could not be listed; the Finished page is right; the password is refused only where nobody can log in with it; advice over an archive comes only where the engine cannot place it or the folder could not be listed |
| `setup_liveness` | the same from 180 starts, `FairSpec` | following the advice leads to a configured server, but on one that stays without the role `postgres` (388426 states) |
| `setup_documented` | one Setup, one fault, no administrator; **expected to be violated** | a data folder that cannot be listed is not refused (see Findings) |
| `conf_reader` | four files of at most two lines, one folder, `maxIncludeDepth` 2, ports 0, 1, 65535, 65536 | where the reader answers, PostgreSQL reads the files through and to the same port and file; where it refuses, PostgreSQL does not start, or a port line is out of range; it ends (39072 starts, 269554 states) |
| `conf_documented` | the same; **expected to be violated** | the last port setting does not count when one before it is out of range (see Findings) |
| `engine_detect` | two services, one named postgresql, in 1560 combinations of shapes; at most three moves of the machine | the verdict of a still machine is its row of the state table; on a moving one, candidates are not overlooked, an unreadable one was really unreadable, a found port is the server's |

The bounds are enough for what can go wrong. Two runs are needed because a run finds
what an earlier one left (a service stopped, settings written but not loaded, half of
the grants) and because two runs race; a third adds no new pair. The waits need two
ticks so that `pg_ctl` can give up before the run does and the run before a server
that never ends; a longer bound repeats the same choices. Two settings suffice to tell
"some written" from "all written" and one that needs a restart from one that does not.
In `Provision` the older build is given a writer password and the newer ones a viewer
password, so that each overwrite that could happen would show.
In `CheckSession` all thirty-odd privileges may be the wrong one, since each is asked in its
own place; one wrong thing and one change meet every verdict, and faults are unbounded.
In `Site` a deadline of two ticks can be used up by either wait, by both, or by create, and
three steps take two runs at least. Three faults suffice to cut off, leave stopped, and cut
off again.
In `Setup` every start is a condition `Init` lists; for liveness an obstacle meets one server
only (`FairInit`), since once it is cleared the machine is one of the other starts; a fault kills a Setup during the EDB
installation or fails one probe, and one act of an administrator falls between any two
steps. Two Setups at once exceed what a run of a few minutes can hold, so `Setups` has one
member there.
In `ConfReader` a depth of 2 is reached, and passed, by cycles of one and of two files.
In `Engine` a candidate and one more service meet every row of the state table, and three
moves let one service stop, be edited and start again while it is read.

Deadlock is not checked: the program ends, and the machine may then rest.

`TypeOK` is an invariant of `ConfReader`'s run. In the other modules it is a theorem, for
every value of the constants.

### Fairness

`FairSpec` assumes weak fairness of the run's own steps on calls that do not fail (a
goroutine is scheduled), of the clock, of the command's deadline (`Cancel`: the five
minutes do pass), of a `pg_ctl` that does not hang, and of a postmaster that opens its
sockets. It assumes nothing of a shutdown or a recovery, which may take for ever, nor of
the operator and the administrator, and no fault has to happen or to end.

In `Site` the run's steps are weakly fair (a goroutine is scheduled, and every call is
bounded by the context or by a wait of its own), and so are the server's start and end.
`EventuallyDone` is about an operator who is `Diligent` from some moment on: whatever he did
before, he then runs `site` on the machine itself, and starts the service first where it
stands still, as the code's message tells him. Faults are bounded.

In `Setup` the program, the EDB installer and the uninstaller go on. `ClickInstall` is
strongly fair, so that a wizard cancelled or killed now and then does not count. The
operator is `Diligent`: refused, he does what the text says, and runs Setup again with
passwords that meet the rules and, on an existing cluster, with the administrator's. An
administrator's own acts, and faults, are bounded. On a server without the role `postgres`
he does go round in a circle: `SitePasswordWrong` asks for a password, and none helps.
`EventuallyConfigured` leaves out a machine that stays so.

## Findings

`restart_documented`: `docs/architecture/provisioning.md:282` says "Four cases still
leave the service stopped". A query of the service state that fails after the accepted
Stop (`service_windows.go:238`) and a Start that the manager refuses
(`service_windows.go:205`) leave it stopped as well; the code's messages say so, the
table does not.

`site_documented`: main.go:130 prints "every step checks before it creates, so re-running it
continues from where it stopped" whenever the limit is past when an error comes back. The
waits of a restart are detached from the limit: they may outlive it and then fail with the
service stopped. The hint is printed then too, and the re-run is refused, because `site`
restarts a running service only. (The error before the hint does say that the service
stays stopped.)

`setup_documented`: `docs/architecture/installer.md:160` says "refuse when
`C:\Program Files\PostgreSQL\17\data` is not empty (`DataDirectoryNotEmpty`), since existing
data is never overwritten". `IsNonEmptyDirectory` (`SemiBase.iss:457`) starts from False and
keeps it when `FindFirst` fails, whatever the error: Setup then starts the PostgreSQL
installer over a folder that is not empty. (What the installer does there is its own affair;
`initdb` refuses such a folder.)

`conf_documented`: `engine.go:282` says "configuredPort returns the last active port setting
of postgresql.conf, its include files and postgresql.auto.conf in the order PostgreSQL reads
them"; `installer.md:371` and the test "the last setting wins" (`engine_test.go:410`) say so
too. `apply` (`engine.go:346`) refuses the first port line out of range, one that a later line
overrides included, so a server PostgreSQL starts on these files is `unreadable` to Setup.

Worth knowing, though no document contradicts it:

* A write probe that fails for a timeout or a lost connection orders its `GRANT` all the same:
  `writeProbeFailure` (`check.go:76`) takes no error class, where `refusalVerdict` and
  `writerMarkerFailure` do. `RepairsAreNeeded` excuses it with a fault.
* `FinishedTextNew` shows the password of the field. Where `semibase site` is run by hand
  between the EDB installer and Setup's own run, the writer keeps the manual run's password
  and the page shows one nobody has set (`FinishedPageIsTrue` holds for a Setup that was
  alone).
* `GRANT CREATE` on the schema (`create.go:100`) precedes the default privileges
  (`create.go:107`). A SCADA that creates `public.trends` in between leaves it unreadable
  to `semiplot`; create succeeds and the first tail check reports it
  (`TailFailsOnlyOverEarlyTrends`).

## Proofs

`ServiceRestart_proofs` proves, from the named assumptions `SettingsAssumption`,
`PgctlAssumption` and `BoundsAssumption` only:

* `TypeCorrect`: `Spec => []TypeOK`. `TypeOK` is the conjunction of labels, sets and
  numbers, and each has a lemma of its own.
* `StartMeetsNoLockFile`: `Spec => []NoLockConflict`. `NoLockConflict` is not inductive:
  a launch over a live server would break it. `StartInv` strengthens it with the chain
  of facts that rules such a launch out: from the Stop on the run's target is the
  service's own server (`OwnService`); while the run waits for the exit that server can
  only go down (`GoingDown`), so a refused connect finds it gone for good; and from the
  probe to `pg_ctl`'s launch there is no server (`LaunchIsFree`). The bounds play no
  part, so the result holds for any of them.
* `RestartKeepsContract`: `Spec => Contract!Spec`, under the mapping `Phase`, `Verdict`
  and "gone or alive". `ProgressInv` ties `pc` to what the run has sent and written, and
  each action maps to a step of the contract or to a stutter.

Its second half proves the other safety properties of `ServiceRestart` from the same
assumptions:

* `StoppedServiceRunsAgain`. `FaultlessInv` follows a run without a fault from its Stop to
  its end: the old server is gone when the bound is reached, and from the Start on `pg_ctl`
  launches, starts or watches a live server.
* `BoundsAreEnough`: `WaitsInv` holds each of the run's waits against `pg_ctl`'s, which
  began no later and ends first (`BoundsAssumption`); `ScmTells` reads the manager's state.
* `DiagnosisHolds`: where `pg_ctl` has given up, the server has its sockets open
  (`YoungServer`), so one connect tells the two cases apart.
* `ActiveHolds`: `PendingInv` ties `pending_restart` to what is written and loaded, once the
  reload is sent.

`Provision_proofs` proves, from `OptionsAssumption` only and for any set of runs:

* `TypeCorrect`: `Spec => []TypeOK`.
* `ToolTrendsAreReadable` and `TablesAreReadableFromThenOn`. `ToolTrendsReadable` alone
  is not inductive; `ReadableInv` adds `DefaultsInForce` (a run that is past the statement
  has the default privileges in force: the only way past it is to execute it, and no
  statement takes them back) and `UnreadableExist`. `setTrends` stands behind
  `defaultPrivileges` in `Script`, which is where the order of create enters.
* `VersionIsAFloor`: the version only rises, and a run gets past `metaSQL` only with the
  version at its own or above.
* `PasswordIsKept`: the only statement of a run that changes the writer's password
  creates the writer.

`ProvisionOutcome_proofs` proves the rest of what `Provision` states, from the same
assumption, so that all of its properties hold for any number of runs of any builds:

* `OutcomeInv` is the invariant. For each run it holds that what every passed statement
  was to achieve is in force (`Behind`: `Achieved` of each step before `pc`, which no other
  run, no build and no SCADA takes back), and that what the last "check" step saw is still
  so or was made so by someone else (`SeenHolds`).
* `ExitZeroIsCommissioned`: a run that is done is behind the whole script, so everything
  it achieved holds from then on.
* `RerunsContinue`: a statement fails only where an object it needs is missing, and those
  are behind it, or where one it creates has appeared since its check, which `raced` knows.
* `TailFindsWhatCreateMade`: each tail check asks for what is behind it, except for
  reading `trends`, which depends on who created it and when.
* `LoginFailureIsAnothers`: a run past `setPlot` whose password is not the cluster's has
  been replaced (`PasswordInv`).

`CheckSession_proofs` proves, from `FactsAssumption`:

* `TypeCorrect`, `RoleStays` (`[]RoleDoesNotLeak`) and `NothingIsLeft` (`[]NothingSurvives`).
  `ScopeInv` says of each place in the script which cleanup is owed there and what is on
  the stack: an open `runAs` alone has an empty stack, a transaction one entry, a savepoint
  two, each with the role that a rollback must restore, and every statement that writes
  stands inside a transaction.
* `PassIsDeserved`, `FailureIsExplained` and `RepairIsNeeded`: the verdict against the truth.
  A verdict says something about a privilege that was asked for earlier, in another role and
  perhaps in a transaction since rolled back, while `held` keeps changing. `TruthInv`
  carries the answer to the end: `RightInv` holds `held` against `right` and `wrong`, so
  that no change between two questions is lost; `RoleInv` says in which role each place of
  the script speaks, so that a refusal is about the privilege it is taken for; `KnownInv`,
  that every privilege the statements passed so far speak for (`Confirms`) is in `right`;
  and `CleanInv`, that without a fault the connection stands, a transaction is aborted only
  where a refused probe is rolled back next, and a read that failed has its cause in `wrong`.

`Site_proofs` proves, from `SiteAssumption`, for any deadline, any number of steps of
create, of runs and of faults:

* `TypeCorrect`; `DoneMeansCommissioned`, `RunsReachTheirServer` and `LimitLeavesItRunning`.
  None is inductive. `SiteInv` says of each place of a run what config has written and sent
  (`ConfigInv`, `SettingsInv`), that a run which restarts has a loopback host (`HostInv`),
  that the steps it has passed are done in the cluster (`StepInv`), and that without a
  failed call the service is where the run believes it (`SparedInv`).
* `ConfigContract`: the config phase of `Site` refines `RestartContract` as
  `ServiceRestart` does (`RestartKeepsContract`): the two agree on what config promises.

`Setup_proofs` proves, from `SetupAssumption`, for any number of Setups at once, of faults
and of an administrator's acts, the whole of what `Setup` states but its liveness:

* `TypeCorrect`; `InstallIsSafe`, `FinishedIsTrue`, `WrongPasswordIsWrong` and
  `ArchiveIsSpared`, each with the exceptions its property states (a folder that was not
  listed, a role `postgres` that is not there, an archive without a place). None is inductive. `Standing` says what a Setup that is still alone may
  count on at each place of `PrepareToInstall`: what each probe has shown so far, what the
  EDB installer it waits for has made, and what it has done itself. `Shape` ties the
  refusal, the installer and `fresh` to the place, and `HeirHasData` says that an archive
  from before is a cluster.
* The argument is one of frames: `Elsewhere` and `Outsiders` show that every step of another
  Setup, of an installer that is not one's own or of an administrator leaves what `Standing`
  reads as it was, or ends the Setup's being alone. The lemmas `Own...` treat its own steps.

`ConfReader_proofs` proves, from `FilesAssumption`, `DisksAssumption` (a file is a sequence
of lines, and an include names a file) and `DepthAssumption`, for any files, any includes
and any limit, both invariants of `ConfReader`:

* `StackIsTyped`: `Spec => []TypeOK`. `OpenFrame` adds what it takes: a file that is being
  read exists, and no deeper than the limit.
* `ReaderAgreesWithPostgres`: `Spec => []ReadsWhatPostgresReads`, the agreement of the reader
  with PostgreSQL where it answers, and the grounds on which it refuses. The reader has a stack and
  no trails, the reference has trails and no stack, so the invariant `WalkInv` says that
  there are trails `ts` for the frames of the stack, a set `V` of places that are done with
  and a set `D` of port lines that have been read, such that each frame is at its place
  (`AtPlaces`), inner frames read what comes before what the outer ones read (`InOrder`),
  each place that a root or a line already read leads to is on the stack or in `V`
  (`Complete`), all of `D` comes before the lines still to be read (`Passed`), and `port` is
  that of the last line of `D` (`LastRead`).
* A step replaces the innermost frame by none, by itself one line on, or by the called files
  and itself. `Shifted` states that once, and the lemmas `Shifted...` carry each part over;
  what remains for a step is what the new frames do (`ReturnWalks`, `AdvanceWalks`,
  `PortWalks`, `IncludeWalks`).
* At the end the stack is empty, so every place is in `V`, by induction over the depth
  (`AllDone`); the induction is an argument about finite sets (`SetInduction`), because
  the library's needs an operator for a parameter. `PlacesAre` unfolds the recursive
  function `Places` in the same way.

`Engine_proofs` proves, from `ServiceAssumption` (a machine has finitely many services),
`NumbersAssumption` and `MachinesAssumption`, for any set of services and any number of
moves, all that `Engine` states:

* `TypeCorrect`, `UnreadableHolds`, `FoundHolds`, `CandidatesHold` and `StillHolds`. The
  verdict alone is not inductive, since the machine moves on. `Sound` says of each entry
  that was read that it is still so, or which of the service's moves made it otherwise;
  `HalfRead` says it of the service in hand and `Absent` of one that was not listed or was
  skipped. `AccountInv` leaves no service out of the three.
* `Passing` sums up what one move of the machine may do to a service and what it leaves in
  `moved`; that the invariant survives the moves follows from it alone.
* `Concluded` ties the verdict to the candidates among the entries.

Only model-checked: the liveness properties `RunEnds`, `StopIsUndone`, `ReadingEnds`,
`EventuallyConfigured` and `EventuallyDone`, since TLAPS has no `ENABLED` and so no rule for
weak fairness. Every other property of a passing run is stated by a theorem.

## Not modelled

* Console text, code pages and the other formatting of messages: no state, no protocol.
* How flags, the connection string and a `postgresql.conf` line are parsed: each is
  reduced to its outcome (`ParseOptions`, `Connect`, `Line`).
* Packaging, CI and the installer's build: scripts that are not part of the program.
* The SQL function's body and the column constraints: data. Windows path comparison
  (`sameDataDirectory`) is one of `Confirm`'s outcomes. IPv4 against IPv6: the run probes
  the address its connection reached.
* A `postgresql.conf` that changes between two reads of `configuredPort`.

## Plan

Done: `PgService`, `ServiceRestart`, `RestartContract`, `Provision`, `ConfReader`, `Engine`,
`CheckSession`, `Site` and `Setup`, with the proofs above. Every safety
property, action property and refinement the runs check is a theorem as well. What is left
is the steps behind the liveness properties that need no fairness: in `ConfReader`, a
measure that each step of the reader lowers.
