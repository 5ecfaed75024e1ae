-------------------------------- MODULE Site --------------------------------
(***************************************************************************)
(* semibase site and semibase bench from the command line to the exit code *)
(* (cmd/semibase/main.go, Site and Bench of internal/provision), run again *)
(* and again by an operator: config, create and check under one context,   *)
(* which an interrupt or the five minutes end.                             *)
(*                                                                         *)
(* The phases are coarse. config keeps the calls RestartContract speaks of *)
(* (module ServiceRestart has the rest), create is a number of steps that  *)
(* are found done by the next run (module Provision), check asks (module   *)
(* CheckSession). What is kept exactly is what the phases share: the       *)
(* context, its time, the server and what each run finds of the last one.  *)
(***************************************************************************)
EXTENDS Naturals

CONSTANTS
  Deadline,     \* phaseTimeout, in ticks: what work not done before takes
  CreateSteps,  \* steps of create with an effect that stays
  MaxFaults     \* bound: calls that fail, interrupts, kills, slow statements

ASSUME SiteAssumption ==
  Deadline \in Nat \ {0} /\ CreateSteps \in Nat /\ MaxFaults \in Nat

VARIABLES
  \* the machine --host names
  service,   \* of the server; "stopping" and "starting" count as alive
  settings,  \* config's: how far they have come to take effect
  created,   \* steps of create that are done
  \* one run
  pc,
  command, host, restart,  \* what it is given; restart: --restart-service
  applied, sent,           \* has config written settings, and sent a Stop, a Start
  verdict,                 \* how config ended
  step,                    \* steps of create passed
  context, elapsed,
  exit,                    \* the exit code
  said,                    \* what it printed that an operator acts on
  spared,                  \* have all calls of this run gone well
  faults

machine == <<service, settings, created>>
given == <<command, host, restart>>
config == <<applied, sent, verdict>>
ending == <<exit, said>>
vars == <<service, settings, created, pc, command, host, restart, applied, sent, verdict, step,
          context, elapsed, exit, said, spared, faults>>

Idle == {"off", "exited"}
Places == Idle \cup {"parse", "open", "apply", "pending", "stop", "stopped", "start", "started",
                     "ready", "create", "check", "login", "tail"}
Hosts == {"loopback", "socket", "remote"}
Verdicts == {"none", "refused", "failed", "settled", "leftStopped", "startFailed", "interrupted",
             "restarted", "killed"}

MachineOK ==
  /\ service \in {"running", "stopping", "stopped", "starting"}
  /\ settings \in {"unset", "written", "signalled", "flagged", "active"}
GivenOK == command \in {"site", "bench", "other"} /\ host \in Hosts /\ restart \in {"no", "yes"}
ConfigOK == applied \in {"no", "yes"} /\ sent \in {"none", "stop", "start"} /\ verdict \in Verdicts
RunOK ==
  /\ pc \in Places /\ context \in {"live", "deadline", "interrupted"}
  /\ exit \in {"none", "ok", "error", "usage", "killed"} /\ spared \in {"no", "yes"}
NumbersOK ==
  /\ created \in 0..CreateSteps /\ step \in 0..CreateSteps
  /\ elapsed \in 0..(Deadline + 1) /\ faults \in 0..MaxFaults
SaidOK == said \subseteq {"done", "waiting", "continues"}

TypeOK == MachineOK /\ GivenOK /\ ConfigOK /\ RunOK /\ NumbersOK /\ SaidOK

Init ==
  /\ service = "running" /\ settings = "unset" /\ created = 0
  /\ pc = "off" /\ command = "other" /\ host = "loopback" /\ restart = "no"
  /\ applied = "no" /\ sent = "none" /\ verdict = "none" /\ step = 0
  /\ context = "live" /\ elapsed = 0 /\ exit = "none" /\ said = {}
  /\ spared = "yes" /\ faults = 0

-----------------------------------------------------------------------------
(* Time, faults and the end of a run. *)

Fault == faults < MaxFaults /\ faults' = faults + 1 /\ spared' = "no"
NoFault == UNCHANGED <<faults, spared>>

Spend(ticks) ==
  /\ elapsed' = IF elapsed + ticks > Deadline THEN Deadline + 1 ELSE elapsed + ticks
  /\ context' = IF context = "live" /\ elapsed + ticks > Deadline THEN "deadline" ELSE context
InNoTime == UNCHANGED <<context, elapsed>>

Go(place) == pc' = place /\ UNCHANGED ending /\ UNCHANGED step

\* run's return after execute: the hint is for the deadline, whatever the error was.
ExitWithError ==
  /\ pc' = "exited" /\ exit' = "error" /\ UNCHANGED step
  /\ said' = IF context' = "deadline" THEN said \cup {"continues"} ELSE said

\* A connection from host: after a restart the server listens on the loopback interface.
Listens == service = "running" /\ (host = "remote" => settings # "active")
Can == context = "live" /\ Listens

\* A statement fails without a fault when the context is done or nobody listens.
Fails == Fault \/ (NoFault /\ ~Can)

-----------------------------------------------------------------------------
(* The command line. *)

Invoke ==
  /\ pc \in Idle /\ pc' = "parse"
  /\ command' \in {"site", "bench", "other"} /\ host' \in Hosts
  /\ restart' \in (IF command' = "site" THEN {"no", "yes"} ELSE {"no"})
  /\ applied' = "no" /\ sent' = "none" /\ verdict' = "none" /\ step' = 0
  /\ context' = "live" /\ elapsed' = 0 /\ exit' = "none" /\ said' = {} /\ spared' = "yes"
  /\ UNCHANGED machine /\ UNCHANGED faults

\* mutant: the host does not matter
ValidateAnyHost == TRUE

\* Options.Validate
Validate == restart = "yes" => host = "loopback"

\* help and version; a command that is unknown or missing
OtherExits == {"ok", "usage"}

\* semibase engine
EngineExits == {"ok", "usage", "error"}

\* Another command, or one whose flags do not parse.
ParseOther ==
  /\ pc = "parse" /\ command = "other"
  /\ pc' = "exited" /\ exit' \in OtherExits \cup EngineExits
  /\ NoFault /\ InNoTime /\ UNCHANGED machine /\ UNCHANGED given /\ UNCHANGED config /\ UNCHANGED <<step, said>>

ParseOptions ==
  /\ pc = "parse" /\ command # "other" /\ NoFault /\ InNoTime
  /\ IF Validate
       THEN Go(IF command = "bench" THEN "create" ELSE IF restart = "yes" THEN "open" ELSE "apply")
       ELSE pc' = "exited" /\ exit' = "usage" /\ UNCHANGED <<step, said>>
  /\ UNCHANGED machine /\ UNCHANGED given /\ UNCHANGED config

-----------------------------------------------------------------------------
(* config *)

EndsConfig(what) == verdict' = what /\ UNCHANGED <<applied, sent>>

OpenService ==
  /\ pc = "open" /\ InNoTime /\ UNCHANGED machine /\ UNCHANGED given
  /\ \/ NoFault /\ Can /\ Go("apply") /\ UNCHANGED config
     \/ Fails /\ ExitWithError /\ EndsConfig("refused")

\* mutant: no reload
ApplySettingsUnloaded ==
  /\ pc = "apply" /\ InNoTime /\ UNCHANGED given /\ UNCHANGED <<service, created>>
  /\ \/ /\ NoFault /\ Can /\ Go("pending")
        /\ settings' = IF settings = "unset" THEN "written" ELSE settings
        /\ applied' = "yes" /\ UNCHANGED <<sent, verdict>>
     \/ /\ Fails /\ ExitWithError /\ EndsConfig("failed")
        /\ settings' \in {settings, IF settings = "unset" THEN "written" ELSE settings}

\* The ALTER SYSTEMs and the reload; cut short, they have written some settings.
ApplySettings ==
  /\ pc = "apply" /\ InNoTime /\ UNCHANGED given /\ UNCHANGED <<service, created>>
  /\ \/ /\ NoFault /\ Can /\ Go("pending")
        /\ settings' = IF settings \in {"unset", "written"} THEN "signalled" ELSE settings
        /\ applied' = "yes" /\ UNCHANGED <<sent, verdict>>
     \/ /\ Fails /\ ExitWithError /\ EndsConfig("failed")
        /\ settings' \in {settings, IF settings = "unset" THEN "written" ELSE settings}

\* The pause is over; the server need not have acted on the reload.
ReadPending ==
  /\ pc = "pending" /\ InNoTime /\ UNCHANGED machine /\ UNCHANGED given
  /\ \/ /\ NoFault /\ Can /\ settings = "flagged" /\ restart = "yes"
        /\ Go("stop") /\ UNCHANGED config
     \/ /\ NoFault /\ Can /\ ~(settings = "flagged" /\ restart = "yes")
        /\ pc' = "create" /\ EndsConfig("settled") /\ UNCHANGED <<step, exit>>
        /\ said' = IF settings = "flagged" THEN said \cup {"waiting"} ELSE said
     \/ Fails /\ ExitWithError /\ EndsConfig("failed")

\* No cancellation is looked at before the Stop, nor from here to the Running wait's end.
SendStop ==
  /\ pc = "stop" /\ InNoTime /\ UNCHANGED given /\ UNCHANGED <<settings, created>>
  /\ \/ /\ NoFault /\ service = "running" /\ service' = "stopping"
        /\ sent' = "stop" /\ Go("stopped") /\ UNCHANGED <<applied, verdict>>
     \/ /\ Fault /\ ExitWithError /\ EndsConfig("failed") /\ UNCHANGED service

\* mutant: the wait is on the command's context
AwaitServerExitAttached ==
  /\ pc = "stopped" /\ UNCHANGED machine /\ UNCHANGED given
  /\ \/ /\ NoFault /\ service = "stopped" /\ UNCHANGED config
        /\ \E ticks \in 0..(Deadline + 1) : Spend(ticks)
        /\ Go("start")
     \/ /\ Fault \/ (NoFault /\ context # "live")
        /\ InNoTime /\ ExitWithError /\ EndsConfig("leftStopped")

\* mutant: the Start follows the Stop at once
AwaitServerExitNot ==
  /\ pc = "stopped" /\ UNCHANGED machine /\ UNCHANGED given /\ UNCHANGED config /\ NoFault /\ InNoTime /\ Go("start")

\* The wait may use up the five minutes and go on.
AwaitServerExit ==
  /\ pc = "stopped" /\ UNCHANGED machine /\ UNCHANGED given
  /\ \/ /\ NoFault /\ service = "stopped" /\ UNCHANGED config
        /\ \E ticks \in 0..(Deadline + 1) : Spend(ticks)
        /\ Go("start")
     \/ Fault /\ InNoTime /\ ExitWithError /\ EndsConfig("leftStopped")

Launched == service' = "starting" /\ settings' = IF settings = "unset" THEN "unset" ELSE "active"

SendStart ==
  /\ pc = "start" /\ InNoTime /\ UNCHANGED given /\ UNCHANGED created
  /\ \/ NoFault /\ Launched /\ sent' = "start" /\ Go("started") /\ UNCHANGED <<applied, verdict>>
     \/ Fault /\ ExitWithError /\ EndsConfig("leftStopped") /\ UNCHANGED <<service, settings>>

AwaitStarted ==
  /\ pc = "started" /\ UNCHANGED machine /\ UNCHANGED given
  /\ \/ /\ NoFault /\ service = "running"
        /\ \E ticks \in 0..(Deadline + 1) : Spend(ticks)
        /\ IF context' = "live" THEN Go("ready") /\ UNCHANGED config
                                ELSE ExitWithError /\ EndsConfig("interrupted")
     \/ /\ Fault \/ (NoFault /\ service = "stopped")
        /\ InNoTime /\ ExitWithError /\ EndsConfig("startFailed")

\* waitReady and the second read of the pending settings
WaitReady ==
  /\ pc = "ready" /\ InNoTime /\ UNCHANGED machine /\ UNCHANGED given
  /\ \/ NoFault /\ Can /\ Go("create") /\ EndsConfig("restarted")
     \/ Fails /\ ExitWithError /\ EndsConfig("failed")

-----------------------------------------------------------------------------
(* create and check *)

\* Is a step left
Todo == step < CreateSteps

\* mutant: a step is done anew, whatever is there
FoundNot == FALSE

\* "every step checks before it creates"
Found == step < created

Did == created' = IF step < created THEN created ELSE step + 1

\* A step that finds its work done takes no time to speak of. One that the deadline cuts
\* off may have committed.
Create ==
  /\ pc = "create" /\ UNCHANGED given /\ UNCHANGED config /\ UNCHANGED <<service, settings>>
  /\ \/ /\ NoFault /\ Can /\ Todo /\ Found
        /\ step' = step + 1 /\ InNoTime /\ UNCHANGED ending /\ UNCHANGED <<pc, created>>
     \/ /\ NoFault /\ Can /\ Todo /\ ~Found /\ elapsed < Deadline
        /\ step' = step + 1 /\ Did /\ Spend(1) /\ UNCHANGED ending /\ UNCHANGED pc
     \/ /\ NoFault /\ Can /\ Todo /\ ~Found /\ elapsed >= Deadline
        /\ Spend(1) /\ ExitWithError /\ (Did \/ UNCHANGED created)
     \/ NoFault /\ Can /\ ~Todo /\ InNoTime /\ Go("check") /\ UNCHANGED created
     \/ Fails /\ InNoTime /\ ExitWithError /\ UNCHANGED created

Check ==
  /\ pc = "check" /\ InNoTime /\ UNCHANGED machine /\ UNCHANGED given /\ UNCHANGED config
  /\ \/ NoFault /\ Can /\ Go("login")
     \/ Fails /\ ExitWithError

\* checkPlotLogin: not over a socket
CheckPlotLogin ==
  /\ pc = "login" /\ InNoTime /\ UNCHANGED machine /\ UNCHANGED given /\ UNCHANGED config
  /\ \/ NoFault /\ (Can \/ host = "socket") /\ Go("tail")
     \/ host # "socket" /\ Fails /\ ExitWithError

\* reportPendingRestart, then Done
Tail ==
  /\ pc = "tail" /\ InNoTime /\ UNCHANGED machine /\ UNCHANGED given /\ UNCHANGED config
  /\ \/ /\ NoFault /\ Can
        /\ pc' = "exited" /\ exit' = "ok" /\ UNCHANGED step
        /\ said' = said \cup {"done"} \cup (IF settings = "flagged" THEN {"waiting"} ELSE {})
     \/ Fails /\ ExitWithError

Run ==
  \/ ParseOther \/ ParseOptions \/ OpenService \/ ApplySettings \/ ReadPending \/ SendStop
  \/ AwaitServerExit \/ SendStart \/ AwaitStarted \/ WaitReady
  \/ Create \/ Check \/ CheckPlotLogin \/ Tail

-----------------------------------------------------------------------------
(* Around a run. *)

\* An interrupt, which the process catches in every phase; or a statement that takes the
\* rest of the five minutes.
Cancel ==
  /\ pc \notin Idle /\ context = "live"
  /\ context' \in (IF pc = "parse" THEN {"interrupted"} ELSE {"deadline", "interrupted"})
  /\ faults < MaxFaults /\ faults' = faults + 1
  /\ UNCHANGED machine /\ UNCHANGED given /\ UNCHANGED config /\ UNCHANGED ending /\ UNCHANGED <<pc, step, elapsed, spared>>

Kill ==
  /\ pc \notin Idle /\ Fault /\ pc' = "exited" /\ exit' = "killed"
  /\ verdict' = IF verdict = "none" THEN "killed" ELSE verdict
  /\ UNCHANGED machine /\ UNCHANGED given /\ UNCHANGED <<applied, sent, step, said, context, elapsed>>

Outside == UNCHANGED given /\ UNCHANGED config /\ UNCHANGED ending /\ UNCHANGED <<created, pc, step, context, elapsed>>

ServerExits == service = "stopping" /\ service' = "stopped" /\ NoFault /\ UNCHANGED settings /\ Outside
ServerReady == service = "starting" /\ service' = "running" /\ NoFault /\ UNCHANGED settings /\ Outside
ServerFails == service = "starting" /\ service' = "stopped" /\ Fault /\ UNCHANGED settings /\ Outside

ServerReloads ==
  /\ service = "running" /\ settings = "signalled" /\ settings' = "flagged"
  /\ NoFault /\ UNCHANGED service /\ Outside

\* The operator starts what stands still, and restarts what waits for it, as he was told.
OperatorStarts == pc \in Idle /\ service = "stopped" /\ Launched /\ NoFault /\ Outside
OperatorStops ==
  /\ pc \in Idle /\ service = "running" /\ settings = "flagged"
  /\ service' = "stopping" /\ NoFault /\ UNCHANGED settings /\ Outside

Around == ServerExits \/ ServerReady \/ ServerFails \/ ServerReloads \/ OperatorStarts \/ OperatorStops

Next == Invoke \/ Run \/ Cancel \/ Kill \/ Around

Spec == Init /\ [][Next]_vars

\* Fair: the program, the server, an operator who runs site on the machine itself until it is
\* done and first starts the service where it stands still.
Diligent ==
  pc \in Idle /\ pc' = "parse" =>
    service = "running" /\ command' = "site" /\ host' # "remote" /\ (restart' = "yes" => host' = "loopback")

FairSpec ==
  /\ Spec
  /\ WF_vars(Invoke /\ Diligent) /\ WF_vars(Run)
  /\ WF_vars(ServerExits) /\ WF_vars(ServerReady) /\ WF_vars(OperatorStarts)

-----------------------------------------------------------------------------
(* Safety. *)

\* An exit code 0 with Done means that everything is there, whichever run made it and however
\* many were cut off before: every step of create, and after site all settings, with a reload
\* on its way or behind (Site, Bench).
DoneIsCommissioned ==
  pc = "exited" /\ "done" \in said =>
    /\ created = CreateSteps
    /\ command = "site" => settings \notin {"unset", "written"}

\* No run shuts itself out: one that restarts the server, which listens on the loopback
\* interface from then on, reaches it afterwards (Validate, provision.go:49).
NotShutOutByItself == sent = "start" => (host = "remote" => settings # "active")

\* Where the run ran out of its limit, and no call failed, the service runs and a re-run can
\* finish the work (provisioning.md:291).
LimitLeavesServiceRunning ==
  pc = "exited" /\ "continues" \in said /\ spared = "yes" /\ sent # "none" =>
    service = "running"

\* main.go:130, what the run prints: "every step checks before it creates, so re-running it
\* continues from where it stopped". site refuses a service that does not run.
RerunContinues ==
  pc = "exited" /\ "continues" \in said /\ verdict = "leftStopped" => service = "running"

\* However often the five minutes end a run, re-runs get there, once the operator is diligent:
\* whatever he ran before, and against whichever server (main.go:125).
EventuallyDone == <>[][Diligent]_vars => <>(pc = "exited" /\ command = "site" /\ "done" \in said)

-----------------------------------------------------------------------------
(* The phase config of this module promises what module ServiceRestart's does. *)

Phase ==
  CASE sent = "start" -> "up"
    [] sent = "stop" -> "down"
    [] sent = "none" -> IF applied = "yes" THEN "changing" ELSE "checking"

Server == IF service = "stopped" THEN "gone" ELSE "alive"

Contract == INSTANCE RestartContract WITH phase <- Phase, verdict <- verdict, server <- Server

ConfigKeepsContract == Contract!Spec
=============================================================================
