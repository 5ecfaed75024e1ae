------------------------------ MODULE PgService ------------------------------
(***************************************************************************)
(* The machine a restart acts on: the Windows service control manager, the *)
(* pg_ctl process behind one PostgreSQL service, and the postmaster it     *)
(* launches. None of this is code of the repository: it is modelled from   *)
(* how internal/provision/service_windows.go and config.go use it and from *)
(* the facts that docs/architecture/provisioning.md ("The service          *)
(* restart") records.                                                      *)
(*                                                                         *)
(* An action here leaves the variables of the run alone; the module that   *)
(* EXTENDS this one conjoins that.                                         *)
(***************************************************************************)
EXTENDS Naturals, Sequences, FiniteSets

CONSTANTS
  Settings,      \* config.go's settings, in the order ALTER SYSTEM writes them
  Foreign,       \* settings an administrator may write while the tool runs
  NeedsRestart,  \* the settings the server reads at its start only
  PgctlWait      \* pg_ctl's own wait for a start or an exit, in ticks

RunSettings == {Settings[i] : i \in 1..Len(Settings)}
AllSettings == RunSettings \cup Foreign

ASSUME SettingsAssumption ==
  /\ Settings \in Seq(AllSettings) /\ Settings # <<>>
  /\ NeedsRestart \subseteq AllSettings
ASSUME PgctlAssumption == PgctlWait \in Nat \ {0}

VARIABLES
  scm,          \* the state QueryServiceStatus reports
  pgctl,        \* what the pg_ctl process behind the service is doing
  pgctlWaited,  \* ticks pg_ctl has spent in its present wait
  server,       \* the postmaster of the service's data directory
  written,      \* settings in postgresql.auto.conf
  loaded,       \* the NeedsRestart settings the postmaster started with
  flagged,      \* pg_settings.pending_restart
  reload,       \* a reload is signalled and not yet processed
  lockFile,     \* history: whether a postmaster met a live one's lock file
  faults        \* history: what the environment did wrong during this run

service == <<scm, pgctl, pgctlWaited>>
postmaster == <<server, loaded, flagged, reload>>
machine == <<scm, pgctl, pgctlWaited, server, loaded, flagged, reload, written,
             lockFile, faults>>

ScmStates == {"Running", "StopPending", "Stopped", "StartPending"}
PgctlStates ==
  {"none", "launching", "starting", "childless", "watching", "stopping", "hung"}
ServerStates == {"gone", "starting", "recovering", "serving", "stopping"}
Faults == {"hungPgctl", "slowShutdown", "serverExit", "slowStart",
           "queryError", "startRefused", "dialError", "serverError",
           "killed"}

MachineLabelsOK ==
  /\ scm \in ScmStates /\ pgctl \in PgctlStates /\ server \in ServerStates
  /\ reload \in {"none", "sent"} /\ lockFile \in {"respected", "met"}
MachineSetsOK ==
  /\ written \subseteq AllSettings
  /\ loaded \subseteq NeedsRestart /\ flagged \subseteq NeedsRestart
  /\ faults \subseteq Faults

\* A commissioned or a fresh server, up under its service; written settings
\* may wait for a restart since an earlier run.
MachineInit ==
  /\ scm = "Running" /\ pgctl = "watching" /\ pgctlWaited = 0
  /\ server = "serving"
  /\ written \in {{}, RunSettings}
  /\ loaded \in SUBSET (written \cap NeedsRestart)
  /\ flagged = (written \cap NeedsRestart) \ loaded
  /\ reload = "none" /\ lockFile = "respected" /\ faults = {}

-----------------------------------------------------------------------------
(* What the run sees of the machine. *)

\* The listening sockets open after postmaster.pid is written and close just
\* before it is removed, so a refused connect means the postmaster is gone.
SocketsOpen == server \in {"recovering", "serving", "stopping"}

\* Stop: pg_ctl sends the postmaster SIGINT and waits for its exit.
AcceptStop ==
  /\ scm = "Running" /\ pgctl = "watching"
  /\ scm' = "StopPending" /\ pgctl' = "stopping" /\ pgctlWaited' = 0
  /\ server' = IF server = "gone" THEN "gone" ELSE "stopping"
  /\ UNCHANGED <<loaded, flagged, reload>>

\* Start: the manager accepts it before it has launched the pg_ctl process.
AcceptStart ==
  /\ scm = "Stopped" /\ pgctl = "none"
  /\ pgctl' = "launching"
  /\ UNCHANGED <<scm, pgctlWaited>>

-----------------------------------------------------------------------------
(* pg_ctl runservice. *)

\* A new postmaster reads postgresql.auto.conf at its start; over a live one it
\* meets postmaster.pid and exits with "lock file already exists".
PgctlLaunch ==
  /\ pgctl = "launching"
  /\ scm' = "StartPending" /\ pgctlWaited' = 0
  /\ IF server = "gone"
       THEN /\ pgctl' = "starting" /\ server' = "starting"
            /\ loaded' = written \cap NeedsRestart
            /\ flagged' = {} /\ reload' = "none"
            /\ UNCHANGED lockFile
       ELSE /\ pgctl' = "childless" /\ lockFile' = "met"
            /\ UNCHANGED postmaster
  /\ UNCHANGED <<written, faults>>

PgctlReports(state, doing, fault) ==
  /\ scm' = state /\ pgctl' = doing
  /\ faults' = faults \cup fault
  /\ UNCHANGED <<pgctlWaited, postmaster, written, lockFile>>

PgctlStarted ==
  pgctl = "starting" /\ server = "serving" /\ PgctlReports("Running", "watching", {})

ChildExited == pgctl = "childless" \/ (pgctl = "starting" /\ server = "gone")

PgctlStartFailed == ChildExited /\ PgctlReports("Stopped", "none", {})

\* Without -t the start wait ends after 60 s, and a slower postmaster runs on
\* outside the service.
PgctlStartTimedOut ==
  /\ pgctl = "starting" /\ server \in {"starting", "recovering"}
  /\ pgctlWaited = PgctlWait
  /\ PgctlReports("Stopped", "none", {"slowStart"})

\* After a minute pg_ctl reports Stopped whether the postmaster is gone or not.
PgctlStopped ==
  /\ pgctl = "stopping"
  /\ server = "gone" \/ pgctlWaited = PgctlWait
  /\ PgctlReports("Stopped", "none", {})

PgctlServerDied ==
  pgctl = "watching" /\ server = "gone" /\ PgctlReports("Stopped", "none", {})

\* A hung pg_ctl reports nothing more.
PgctlHangs ==
  /\ pgctl \in {"starting", "stopping"}
  /\ PgctlReports(scm, "hung", {"hungPgctl"})

PgctlNext == PgctlLaunch \/ PgctlStarted \/ PgctlStartFailed
             \/ PgctlStartTimedOut \/ PgctlStopped \/ PgctlServerDied

-----------------------------------------------------------------------------
(* The postmaster. *)

ServerMoves(from, to, fault) ==
  /\ server \in from
  /\ server' = to
  /\ faults' = faults \cup fault
  /\ UNCHANGED <<service, loaded, flagged, reload, written, lockFile>>

ServerOpensSockets == ServerMoves({"starting"}, "recovering", {})
ServerReady == ServerMoves({"recovering"}, "serving", {})
ServerShutDown == ServerMoves({"stopping"}, "gone", {})

\* An exit nobody asked for: it cannot allocate its memory, or it crashes.
ServerExits ==
  ServerMoves({"starting", "recovering", "serving"}, "gone", {"serverExit"})

\* SIGHUP is processed some time after pg_reload_conf returned.
ServerReloads ==
  /\ reload = "sent" /\ server = "serving"
  /\ reload' = "none"
  /\ flagged' = (written \cap NeedsRestart) \ loaded
  /\ UNCHANGED <<service, server, loaded, written, lockFile, faults>>

\* An administrator's own ALTER SYSTEM and reload.
AdminAlters ==
  /\ server = "serving" /\ ~ Foreign \subseteq written
  /\ written' = written \cup Foreign
  /\ reload' = "sent"
  /\ UNCHANGED <<service, server, loaded, flagged, lockFile, faults>>

-----------------------------------------------------------------------------
(* The operator's recovery, as the run's messages spell it out. *)

OperatorStarts ==
  /\ server = "gone" /\ AcceptStart
  /\ UNCHANGED <<postmaster, written, lockFile, faults>>

\* pg_ctl stop of a server that runs outside its service
OperatorStopsOutside ==
  scm = "Stopped" /\ pgctl = "none" /\ ServerMoves({"recovering", "serving"}, "stopping", {})

-----------------------------------------------------------------------------
(* Time. A tick is a fraction of every bound and far longer than a poll: a   *)
(* launch, the opening of the sockets and a report that is due precede it.   *)

PgctlTimed == pgctl \in {"starting", "childless", "stopping"}

PgctlMayWait ==
  /\ pgctl # "launching" /\ server # "starting"
  /\ PgctlTimed => pgctlWaited < PgctlWait

PgctlTick == pgctlWaited' = IF PgctlTimed THEN pgctlWaited + 1 ELSE pgctlWaited
=============================================================================
