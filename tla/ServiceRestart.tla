--------------------------- MODULE ServiceRestart ---------------------------
(***************************************************************************)
(* The config phase of `semibase site` (internal/provision/config.go) and  *)
(* the service restart it may end in (service_windows.go), against the     *)
(* machine of PgService.                                                   *)
(*                                                                         *)
(* A run opens and checks the service named by --restart-service, writes   *)
(* the settings, reads which of them wait for a restart and, if any does,  *)
(* stops the service, waits for the postmaster to be gone, starts it and   *)
(* reads the pending settings again. Polls and probes are the atomic       *)
(* steps, as they are in the code: between two of them the manager,        *)
(* pg_ctl, the postmaster, an administrator and the run's own              *)
(* cancellation move freely.                                               *)
(***************************************************************************)
EXTENDS PgService

CONSTANTS
  StopBound,   \* serviceTimings.stop: Stop accepted .. connect refused
  StartBound,  \* serviceTimings.start: Start accepted .. Running
  ReadyBound,  \* readyTimeout: the superuser's connection after the restart
  MaxRuns      \* bound of the model: runs of the command in one behaviour

ASSUME BoundsAssumption ==
  /\ {StopBound, StartBound, ReadyBound, MaxRuns} \subseteq Nat
  /\ PgctlWait < StopBound /\ PgctlWait < StartBound

VARIABLES
  pc,        \* where the run is
  target,    \* what --restart-service names
  applied,   \* how many of Settings this run has written
  waited,    \* ticks of the wait the run is in
  queries,   \* awaitStarted's queries: none yet, or some
  context,   \* the command's context: done by an interrupt or phaseTimeout
  sent,      \* the last control the service accepted from this run
  outcome,   \* how the run ended
  runs       \* runs so far

progress == <<target, applied, sent>>
run == <<pc, target, applied, sent, waited, queries, context, outcome, runs>>
vars == <<machine, run>>

Targets == {"none", "disabled", "noD", "other", "mine"}
Sents == {"none", "stop", "start"}
Steps == {"idle", "open", "awaitRunning", "confirm", "apply", "reload", "pause",
          "stop", "awaitStopped", "awaitClosed", "start", "awaitStarted",
          "diagnose", "ready", "readAgain", "ended"}
BeforeWriting == {"idle", "open", "awaitRunning", "confirm"}
Outcomes == {"none", "refused", "applyFailed", "active", "noted",
             "stopRefused", "stillStopping", "queryFailedAfterStop",
             "outlived", "startRefused", "startBound",
             "queryFailedAfterStart", "outsideService", "probeFailed",
             "exitedAtStartup", "interrupted", "notReady", "stillPending",
             "restarted", "killed"}

LabelsOK ==
  /\ MachineLabelsOK
  /\ pc \in Steps /\ target \in Targets /\ sent \in Sents
  /\ context \in {"live", "done"} /\ outcome \in Outcomes
NumbersOK ==
  /\ pgctlWaited \in 0..PgctlWait /\ applied \in 0..Len(Settings)
  /\ waited \in Nat /\ queries \in 0..1 /\ runs \in Nat
TypeOK == LabelsOK /\ MachineSetsOK /\ NumbersOK

Init ==
  /\ MachineInit
  /\ pc = "idle" /\ target = "none" /\ applied = 0 /\ waited = 0
  /\ queries = 0 /\ context = "live" /\ sent = "none"
  /\ outcome = "none" /\ runs = 0

-----------------------------------------------------------------------------
(* Steps of a run. *)

Go(step) ==
  /\ pc' = step /\ waited' = 0
  /\ UNCHANGED <<queries, context, outcome, runs>>

End(verdict) ==
  /\ pc' = "ended" /\ outcome' = verdict
  /\ UNCHANGED <<waited, queries, context, runs>>

Still == UNCHANGED <<machine, progress>>

\* The environment failed a call the run made on the service.
Failed(fault) ==
  /\ faults' = faults \cup {fault}
  /\ UNCHANGED <<service, postmaster, written, lockFile, progress>>

\* A connection to --host:--port: another cluster's server stays up throughout.
Accepting == context = "live" /\ (target = "other" \/ server = "serving")
Answers == target = "other" \/ SocketsOpen

StartRun ==
  /\ pc \in {"idle", "ended"} /\ runs < MaxRuns
  /\ pc' = "open" /\ runs' = runs + 1
  /\ target' \in Targets
  /\ applied' = 0 /\ sent' = "none" /\ outcome' = "none"
  /\ waited' = 0 /\ queries' = 0 /\ context' = "live" /\ faults' = {}
  /\ UNCHANGED <<service, postmaster, written, lockFile>>

\* openService: the manager, the service and its Config
OpenService ==
  /\ pc = "open"
  /\ \/ target = "none" /\ Go("apply")
     \/ target \notin {"none", "disabled"} /\ Go("awaitRunning")
     \/ target # "none" /\ End("refused")
  /\ Still

PollRunning ==
  /\ pc = "awaitRunning"
  /\ \/ scm = "Running" /\ Go("confirm") /\ Still
     \/ scm \notin {"Running", "StartPending"} /\ End("refused") /\ Still
     \/ scm = "StartPending" /\ (context = "done" \/ waited >= StartBound) /\ End("refused") /\ Still
     \/ End("refused") /\ Failed("queryError")

\* confirmServes: -D in the PathName against SHOW data_directory
Confirm ==
  /\ pc = "confirm"
  /\ \/ target \notin {"noD", "other"} /\ Accepting /\ Go("apply")
     \/ End("refused")
  /\ Still

ApplySetting ==
  /\ pc = "apply" /\ Accepting
  /\ applied < Len(Settings)
  /\ applied' = applied + 1
  /\ written' = written \cup {Settings[applied + 1]}
  /\ Go(IF applied + 1 = Len(Settings) THEN "reload" ELSE "apply")
  /\ UNCHANGED <<service, postmaster, lockFile, faults, target, sent>>

\* mutant: no reload is sent
ReloadDropped == pc = "reload" /\ Accepting /\ Go("pause") /\ Still

\* pg_reload_conf returns before the server has acted on the signal.
Reload ==
  /\ pc = "reload" /\ Accepting
  /\ reload' = "sent"
  /\ Go("pause")
  /\ UNCHANGED <<service, server, loaded, flagged, written, lockFile, faults, progress>>

\* after pg_sleep(0.5): the server may still not have processed the signal
ReadPending ==
  /\ pc = "pause" /\ Accepting
  /\ \/ flagged = {} /\ End("active")
     \/ flagged # {} /\ target = "none" /\ End("noted")
     \/ flagged # {} /\ target # "none" /\ Go("stop")
  /\ Still

\* A statement or the connection fails, or the context is done.
ApplyFails == pc \in {"apply", "reload", "pause"} /\ End("applyFailed") /\ Still

\* No cancellation is looked at between the read and the Stop.
SendStop ==
  /\ pc = "stop"
  /\ \/ /\ AcceptStop /\ sent' = "stop" /\ Go("awaitStopped")
        /\ UNCHANGED <<written, lockFile, faults, target, applied>>
     \/ End("stopRefused") /\ Still

-----------------------------------------------------------------------------
(* The detached part: context.WithoutCancel, so cancelled plays no role. *)

\* mutant: the wait stays on the command's context
PollStoppedAttached ==
  /\ pc = "awaitStopped"
  /\ \/ scm = "Stopped" /\ Go("awaitClosed")
     \/ scm # "Stopped" /\ (context = "done" \/ waited >= StopBound) /\ End("stillStopping")
  /\ Still

\* mutant: the wait has no bound
PollStoppedUnbounded ==
  /\ pc = "awaitStopped" /\ scm = "Stopped"
  /\ Go("awaitClosed") /\ Still

\* awaitStopped and awaitListenerClosed share the bound that began at the Stop.
PollStopped ==
  /\ pc = "awaitStopped"
  /\ \/ /\ scm = "Stopped" /\ pc' = "awaitClosed"
        /\ UNCHANGED <<waited, queries, context, outcome, runs>> /\ Still
     \/ scm # "Stopped" /\ waited >= StopBound /\ End("stillStopping") /\ Still
     \/ End("queryFailedAfterStop") /\ Failed("queryError")

\* mutant: the Start follows Stopped at once
ProbeClosedSkipped == pc = "awaitClosed" /\ Go("start") /\ Still

\* mutant: at the deadline the Start is sent in any case
ProbeClosedStartsAnyway ==
  pc = "awaitClosed" /\ (~Answers \/ waited >= StopBound) /\ Go("start") /\ Still

\* A refusal counts even when it arrives at the deadline.
ProbeClosed ==
  /\ pc = "awaitClosed"
  /\ \/ ~Answers /\ Go("start") /\ Still
     \/ waited >= StopBound /\ Answers /\ End("outlived") /\ Still
     \/ waited >= StopBound /\ End("outlived") /\ Failed("dialError")

SendStart ==
  /\ pc = "start"
  /\ \/ /\ target # "disabled" /\ AcceptStart /\ sent' = "start"
        /\ pc' = "awaitStarted" /\ waited' = 0 /\ queries' = 0
        /\ UNCHANGED <<context, outcome, runs, postmaster, written,
                       lockFile, faults, target, applied>>
     \/ target # "disabled" /\ End("startRefused") /\ Failed("startRefused")
     \/ target = "disabled" /\ End("startRefused") /\ Still

\* mutant: Stopped counts from the first query on
PollStartedTooEager ==
  /\ pc = "awaitStarted"
  /\ scm \in {"Running", "Stopped"}
  /\ Go(IF scm = "Running" THEN "ready" ELSE "diagnose") /\ Still

\* mutant: only Running ends the wait
PollStartedRunningOnly ==
  /\ pc = "awaitStarted"
  /\ \/ scm = "Running" /\ Go("ready")
     \/ scm # "Running" /\ waited >= StartBound /\ End("startBound")
     \/ /\ scm # "Running" /\ queries = 0 /\ queries' = 1
        /\ UNCHANGED <<pc, waited, context, outcome, runs>>
  /\ Still

\* Stopped counts from the second query on, a poll interval after the Start.
PollStarted ==
  /\ pc = "awaitStarted"
  /\ queries > 0 => pgctl # "launching"
  /\ \/ /\ scm = "Running" /\ context = "live" /\ Go("ready") /\ Still
     \/ /\ scm = "Running" /\ context = "done" /\ End("interrupted") /\ Still
     \/ /\ scm = "Stopped" /\ queries > 0 /\ Go("diagnose") /\ Still
     \/ /\ scm \notin {"Running", "Stopped"} \/ (scm = "Stopped" /\ queries = 0)
        /\ IF waited < StartBound
             THEN /\ queries = 0 /\ queries' = 1
                  /\ UNCHANGED <<pc, waited, context, outcome, runs>>
             ELSE End("startBound")
        /\ Still
     \/ End("queryFailedAfterStart") /\ Failed("queryError")

\* stoppedAfterStart: one connect tells a slow startup from an exit
Diagnose ==
  /\ pc = "diagnose"
  /\ \/ Answers /\ End("outsideService") /\ Still
     \/ ~Answers /\ End("exitedAtStartup") /\ Still
     \/ End("probeFailed") /\ Failed("dialError")

-----------------------------------------------------------------------------
(* Attached again: waitReady and the second read of pending_restart. *)

\* Refused and 57P03 connects are retried; any other server error ends the wait.
WaitReady ==
  /\ pc = "ready"
  /\ \/ Accepting /\ Go("readAgain") /\ Still
     \/ (context = "done" \/ waited >= ReadyBound) /\ End("notReady") /\ Still
     \/ End("notReady") /\ Failed("serverError")

ReadAgain ==
  /\ pc = "readAgain"
  /\ \/ Accepting /\ flagged = {} /\ End("restarted")
     \/ Accepting /\ flagged # {} /\ End("stillPending")
     \/ End("notReady")
  /\ Still

RunStep == OpenService \/ PollRunning \/ Confirm \/ ApplySetting \/ Reload
           \/ ReadPending \/ ApplyFails \/ SendStop \/ PollStopped \/ ProbeClosed
           \/ SendStart \/ PollStarted \/ Diagnose \/ WaitReady \/ ReadAgain

-----------------------------------------------------------------------------
(* What happens to a run, and around it. *)

Running == pc \notin {"idle", "ended"}

\* os.Interrupt, or the five minutes of phaseTimeout
Cancel ==
  /\ Running /\ context = "live" /\ context' = "done"
  /\ UNCHANGED <<machine, pc, progress, waited, queries, outcome, runs>>

\* A closed console window, a logoff, a killed process: no code runs.
Kill == Running /\ End("killed") /\ Failed("killed")

\* The operator acts between runs, as the failed run told him to.
Operator ==
  /\ ~Running
  /\ OperatorStarts \/ OperatorStopsOutside
  /\ UNCHANGED run

Bound(step) ==
  CASE step \in {"awaitStopped", "awaitClosed"} -> StopBound
    [] step \in {"awaitRunning", "awaitStarted"} -> StartBound
    [] step = "ready" -> ReadyBound
    [] OTHER -> 0

InWait == pc \in {"awaitRunning", "awaitStopped", "awaitClosed", "awaitStarted", "ready"}

\* A run acts at its deadline, so time stands still there until it has; the
\* first query of awaitStarted follows the Start at once.
Tick ==
  /\ PgctlMayWait
  /\ InWait \/ PgctlTimed
  /\ InWait => waited < Bound(pc)
  /\ pc = "awaitStarted" => queries > 0
  /\ PgctlTick
  /\ waited' = IF InWait THEN waited + 1 ELSE waited
  /\ faults' = IF /\ pc \in {"awaitStopped", "awaitClosed"}
                  /\ waited + 1 = StopBound /\ server = "stopping"
                 THEN faults \cup {"slowShutdown"} ELSE faults
  /\ UNCHANGED <<scm, pgctl, postmaster, written, lockFile, pc, progress,
                 queries, context, outcome, runs>>

MachineStep ==
  /\ \/ PgctlLaunch \/ PgctlStarted \/ PgctlStartFailed \/ PgctlStartTimedOut
     \/ PgctlStopped \/ PgctlServerDied \/ PgctlHangs
     \/ ServerOpensSockets \/ ServerReady \/ ServerShutDown \/ ServerExits
     \/ ServerReloads \/ AdminAlters
  /\ UNCHANGED run

Next == StartRun \/ RunStep \/ Cancel \/ Kill \/ Operator \/ Tick \/ MachineStep

Spec == Init /\ [][Next]_vars

\* Fair: the run's goroutine on calls that do not fail, the clock, phaseTimeout, pg_ctl unless hung, and a
\* postmaster that opens its sockets. Not fair: kills, hangs, crashes, the
\* operator, an administrator, and how long a startup or a shutdown takes.
Fairness ==
  /\ WF_vars(RunStep /\ UNCHANGED faults) /\ WF_vars(Tick) /\ WF_vars(Cancel)
  /\ WF_vars(PgctlNext /\ UNCHANGED run)
  /\ WF_vars(ServerOpensSockets /\ UNCHANGED run)
FairSpec == Spec /\ Fairness

-----------------------------------------------------------------------------
(* Safety. *)

\* The Start never meets the old postmaster's lock file: awaitServerExit waits
\* for the refused connect, not for pg_ctl's Stopped (service_windows.go:219).
NoLockConflict == lockFile = "respected"

\* A service this run stopped runs again when the run has ended, however it was
\* cancelled, unless the machine failed the run (service_windows.go:193).
StrandedOnlyByAFault ==
  pc = "ended" /\ sent # "none" /\ faults = {} => scm = "Running"

EndsAs(verdicts) == pc # "ended" /\ pc' = "ended" /\ outcome' \in verdicts

\* "all settings active" is true of every setting the run wrote, but for a
\* reload still on its way after the pause; after a restart it is true of every
\* written setting the server has read (config.go:113, 145).
ActiveIsTrue ==
  /\ EndsAs({"active", "restarted"}) =>
       NeedsRestart \cap RunSettings \subseteq loaded \/ reload = "sent"
  /\ EndsAs({"restarted"}) =>
       server = "serving" /\ (NeedsRestart \cap written \subseteq loaded \/ reload = "sent")
ActiveIsTrueProp == [][ActiveIsTrue]_vars

\* The message after a Stopped tells the exit from the startup that outlasted
\* pg_ctl: only then does a server run outside its service (service_windows.go:298).
DiagnosisIsTrue ==
  /\ EndsAs({"outsideService"}) => pgctl = "none" /\ server # "gone"
  /\ EndsAs({"exitedAtStartup"}) => pgctl = "none" /\ server = "gone"
DiagnosisIsTrueProp == [][DiagnosisIsTrue]_vars

\* Only a pg_ctl that hangs makes the Running wait or the Stopped wait run out
\* its bound (provisioning.md, "The service restart").
BoundsOnlyForAHang == outcome \in {"startBound", "stillStopping"} => pgctl = "hung"

\* provisioning.md:282 names the cases that leave the service stopped: a slow
\* shutdown or a hung pg_ctl, a killed process, a server that exits during its
\* startup, and a startup longer than pg_ctl's wait.
DocumentedCases ==
  {"slowShutdown", "dialError", "hungPgctl", "killed", "serverExit", "slowStart"}
StoppedOnlyInDocumentedCases ==
  pc = "ended" /\ sent # "none" /\ scm = "Stopped" => faults \cap DocumentedCases # {}

-----------------------------------------------------------------------------
(* Liveness, under FairSpec. *)

\* Every run ends, whatever hangs (every wait has a bound, main.go:125 the rest).
RunEnds == (pc = "open") ~> (pc = "ended")

\* An accepted Stop is followed by a service that runs again, or by a fault: a
\* cancellation does not end the detached part (service_windows.go:200).
StopIsUndone == (sent = "stop") ~> (scm = "Running" \/ faults # {})

-----------------------------------------------------------------------------
(* What the phase promises, whatever the machine does. *)

Phase ==
  CASE sent = "start" -> "up"
    [] sent = "stop" -> "down"
    [] OTHER -> IF applied = 0 THEN "checking" ELSE "changing"

Verdict ==
  CASE outcome \in {"none", "refused", "interrupted", "restarted", "killed"} -> outcome
    [] outcome \in {"active", "noted"} -> "settled"
    [] outcome \in {"applyFailed", "stopRefused", "notReady", "stillPending"} -> "failed"
    [] outcome \in {"stillStopping", "queryFailedAfterStop", "outlived", "startRefused"}
         -> "leftStopped"
    [] OTHER -> "startFailed"

Contract ==
  INSTANCE RestartContract WITH
    phase <- Phase, verdict <- Verdict, server <- IF server = "gone" THEN "gone" ELSE "alive"

\* The phase implements RestartContract: what a verdict says is what the run did.
ImplementsContract == Contract!Spec
=============================================================================
