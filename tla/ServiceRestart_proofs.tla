------------------------ MODULE ServiceRestart_proofs ------------------------
(***************************************************************************)
(* Theorems of ServiceRestart, for every list of settings and every value  *)
(* of the bounds that BoundsAssumption admits: its types, its safety, the  *)
(* contract it keeps, and in the second half how a run ends: that a        *)
(* service it stopped runs again, that its waits do not run out, and that  *)
(* what it says is true.                                                   *)
(***************************************************************************)
EXTENDS ServiceRestart, TLAPS

LEMMA SomeSettings == Len(Settings) \in Nat \ {0}
  BY SettingsAssumption

(***************************************************************************)
(* Type correctness. The three parts of TypeOK are kept apart: each is     *)
(* preserved for a reason of its own.                                      *)
(***************************************************************************)
LEMMA LabelsStep == ASSUME LabelsOK, Next PROVE LabelsOK'
<1> USE DEF LabelsOK, MachineLabelsOK, service, postmaster, machine, progress, run,
            Go, End, Still, Failed
<1>1. CASE StartRun
  BY <1>1 DEF StartRun, Steps, Sents, Outcomes
<1>2. CASE OpenService \/ PollRunning \/ Confirm
  BY <1>2 DEF OpenService, PollRunning, Confirm, Steps, Outcomes
<1>3. CASE ApplySetting \/ Reload \/ ReadPending \/ ApplyFails
  BY <1>3 DEF ApplySetting, Reload, ReadPending, ApplyFails, Steps, Outcomes
<1>4. CASE SendStop \/ PollStopped \/ ProbeClosed
  BY <1>4 DEF SendStop, AcceptStop, PollStopped, ProbeClosed, Steps, Outcomes,
    Sents, ScmStates, PgctlStates, ServerStates
<1>5. CASE SendStart \/ PollStarted
  BY <1>5 DEF SendStart, AcceptStart, PollStarted, Steps, Outcomes, Sents, PgctlStates
<1>6. CASE Diagnose \/ WaitReady \/ ReadAgain
  BY <1>6 DEF Diagnose, WaitReady, ReadAgain, Steps, Outcomes
<1>7. CASE Cancel \/ Kill
  BY <1>7 DEF Cancel, Kill, Steps, Outcomes
<1>8. CASE Operator
  BY <1>8 DEF Operator, OperatorStarts, OperatorStopsOutside, AcceptStart, ServerMoves,
    PgctlStates, ServerStates
<1>9. CASE Tick
  BY <1>9 DEF Tick
<1>10. CASE MachineStep
  BY <1>10 DEF MachineStep, PgctlLaunch, PgctlStarted, PgctlStartFailed,
    PgctlStartTimedOut, PgctlStopped, PgctlServerDied, PgctlHangs, PgctlReports,
    ServerOpensSockets, ServerReady, ServerShutDown, ServerExits, ServerMoves,
    ServerReloads, AdminAlters, ScmStates, PgctlStates, ServerStates
<1>11. QED
  BY <1>1, <1>2, <1>3, <1>4, <1>5, <1>6, <1>7, <1>8, <1>9, <1>10 DEF Next, RunStep

LEMMA SetsStep == ASSUME TypeOK, Next PROVE MachineSetsOK'
<1> USE DEF TypeOK, MachineSetsOK, service, postmaster, machine, progress, run,
            Go, End, Still, Failed, Faults
<1>1. CASE StartRun
  BY <1>1 DEF StartRun
<1>2. CASE OpenService \/ PollRunning \/ Confirm
  BY <1>2 DEF OpenService, PollRunning, Confirm
<1>3. CASE ApplySetting
  <2>1. Settings[applied + 1] \in AllSettings
    BY <1>3, SettingsAssumption DEF ApplySetting, NumbersOK
  <2>2. QED
    BY <1>3, <2>1 DEF ApplySetting
<1>4. CASE Reload \/ ReadPending \/ ApplyFails
  BY <1>4 DEF Reload, ReadPending, ApplyFails
<1>5. CASE SendStop \/ PollStopped \/ ProbeClosed
  BY <1>5 DEF SendStop, AcceptStop, PollStopped, ProbeClosed
<1>6. CASE SendStart \/ PollStarted
  BY <1>6 DEF SendStart, AcceptStart, PollStarted
<1>7. CASE Diagnose \/ WaitReady \/ ReadAgain
  BY <1>7 DEF Diagnose, WaitReady, ReadAgain
<1>8. CASE Cancel \/ Kill
  BY <1>8 DEF Cancel, Kill
<1>9. CASE Operator
  BY <1>9 DEF Operator, OperatorStarts, OperatorStopsOutside, AcceptStart, ServerMoves
<1>10. CASE Tick
  BY <1>10 DEF Tick
<1>11. CASE MachineStep
  <2>1. CASE PgctlLaunch \/ ServerReloads \/ AdminAlters
    BY <2>1 DEF PgctlLaunch, ServerReloads, AdminAlters, AllSettings
  <2>2. CASE PgctlStarted \/ PgctlStartFailed \/ PgctlStartTimedOut
             \/ PgctlStopped \/ PgctlServerDied \/ PgctlHangs
    BY <2>2 DEF PgctlStarted, PgctlStartFailed, PgctlStartTimedOut, PgctlStopped,
      PgctlServerDied, PgctlHangs, PgctlReports
  <2>3. CASE ServerOpensSockets \/ ServerReady \/ ServerShutDown \/ ServerExits
    BY <2>3 DEF ServerOpensSockets, ServerReady, ServerShutDown, ServerExits, ServerMoves
  <2>4. QED
    BY <1>11, <2>1, <2>2, <2>3 DEF MachineStep
<1>12. QED
  BY <1>1, <1>2, <1>3, <1>4, <1>5, <1>6, <1>7, <1>8, <1>9, <1>10, <1>11
  DEF Next, RunStep

LEMMA NumbersStep == ASSUME NumbersOK, Next PROVE NumbersOK'
<1> USE SomeSettings, PgctlAssumption
    DEF NumbersOK, service, postmaster, machine, progress, run, Go, End, Still, Failed
<1>1. CASE StartRun
  BY <1>1 DEF StartRun
<1>2. CASE OpenService \/ PollRunning \/ Confirm \/ Reload \/ ReadPending \/ ApplyFails
  BY <1>2 DEF OpenService, PollRunning, Confirm, Reload, ReadPending, ApplyFails
<1>3. CASE ApplySetting
  BY <1>3 DEF ApplySetting
<1>4. CASE SendStop \/ PollStopped \/ ProbeClosed
  BY <1>4 DEF SendStop, AcceptStop, PollStopped, ProbeClosed
<1>5. CASE SendStart \/ PollStarted
  BY <1>5 DEF SendStart, AcceptStart, PollStarted
<1>6. CASE Diagnose \/ WaitReady \/ ReadAgain \/ Cancel \/ Kill
  BY <1>6 DEF Diagnose, WaitReady, ReadAgain, Cancel, Kill
<1>7. CASE Operator
  BY <1>7 DEF Operator, OperatorStarts, OperatorStopsOutside, AcceptStart, ServerMoves
<1>8. CASE Tick
  BY <1>8 DEF Tick, PgctlMayWait, PgctlTick, PgctlTimed
<1>9. CASE MachineStep
  <2>1. pgctlWaited' \in {0, pgctlWaited}
    BY <1>9 DEF MachineStep, PgctlLaunch, PgctlStarted, PgctlStartFailed,
      PgctlStartTimedOut, PgctlStopped, PgctlServerDied, PgctlHangs, PgctlReports,
      ServerOpensSockets, ServerReady, ServerShutDown, ServerExits, ServerMoves,
      ServerReloads, AdminAlters
  <2>2. UNCHANGED run
    BY <1>9 DEF MachineStep
  <2>3. QED
    BY <2>1, <2>2
<1>10. QED
  BY <1>1, <1>2, <1>3, <1>4, <1>5, <1>6, <1>7, <1>8, <1>9 DEF Next, RunStep

LEMMA TypeInit == Init => TypeOK
  BY SomeSettings, PgctlAssumption
  DEF Init, MachineInit, AllSettings, TypeOK, LabelsOK, MachineLabelsOK, MachineSetsOK,
      NumbersOK, ScmStates, PgctlStates, ServerStates, Faults, Targets, Sents, Steps,
      Outcomes

\* Every reachable state is well typed.
THEOREM TypeCorrect == Spec => []TypeOK
<1>1. TypeOK /\ [Next]_vars => TypeOK'
  <2>1. TypeOK /\ Next => TypeOK'
    BY LabelsStep, SetsStep, NumbersStep DEF TypeOK
  <2>2. TypeOK /\ UNCHANGED vars => TypeOK'
    BY DEF vars, machine, run, TypeOK, LabelsOK, MachineLabelsOK, MachineSetsOK, NumbersOK
  <2>3. QED
    BY <2>1, <2>2
<1>2. QED
  BY TypeInit, <1>1, PTL DEF Spec

(***************************************************************************)
(* The Start never meets a live postmaster. NoLockConflict is not          *)
(* inductive: a launch is safe because the run sent its Start after a      *)
(* refused connect, and nothing brings a postmaster back in between. That  *)
(* needs the service to be the run's own (OwnService), or the refusal      *)
(* would be another server's.                                              *)
(***************************************************************************)
OwnService ==
  /\ pc \in {"awaitRunning", "confirm"} => target \notin {"none", "disabled"}
  /\ pc \in {"apply", "reload", "pause"} => target \in {"none", "mine"}
  /\ pc \in {"stop", "awaitStopped", "awaitClosed", "start"} => target = "mine"

\* From the Stop to the Start the old postmaster is on its way out or gone.
GoingDown ==
  /\ pc \in {"awaitStopped", "awaitClosed", "start"} =>
       server \in {"stopping", "gone"} /\ pgctl \in {"stopping", "none", "hung"}
  /\ pc \in {"awaitClosed", "start"} => pgctl = "none"
  /\ pc = "start" => server = "gone"

LaunchIsFree ==
  /\ scm = "Stopped" => pgctl \in {"none", "launching"}
  /\ pgctl = "launching" => server = "gone"

StartInv == OwnService /\ GoingDown /\ LaunchIsFree /\ NoLockConflict

LEMMA StartInvRunStep == ASSUME TypeOK, StartInv, RunStep PROVE StartInv'
<1> USE DEF StartInv, OwnService, GoingDown, LaunchIsFree, NoLockConflict, service,
            postmaster, machine, progress, Go, End, Still, Failed
<1>1. CASE OpenService \/ PollRunning \/ Confirm
  BY <1>1 DEF OpenService, PollRunning, Confirm, TypeOK, LabelsOK, Targets
<1>2. CASE ApplySetting \/ Reload \/ ReadPending \/ ApplyFails
  BY <1>2 DEF ApplySetting, Reload, ReadPending, ApplyFails
<1>3. CASE SendStop
  BY <1>3 DEF SendStop, AcceptStop
<1>4. CASE PollStopped
  BY <1>4 DEF PollStopped
<1>5. CASE ProbeClosed
  BY <1>5 DEF ProbeClosed, Answers, SocketsOpen
<1>6. CASE SendStart
  BY <1>6 DEF SendStart, AcceptStart
<1>7. CASE PollStarted \/ Diagnose \/ WaitReady \/ ReadAgain
  BY <1>7 DEF PollStarted, Diagnose, WaitReady, ReadAgain
<1>8. QED
  BY <1>1, <1>2, <1>3, <1>4, <1>5, <1>6, <1>7 DEF RunStep

LEMMA StartInvMachineStep == ASSUME TypeOK, StartInv, MachineStep PROVE StartInv'
<1> USE DEF StartInv, OwnService, GoingDown, LaunchIsFree, NoLockConflict, service,
            postmaster, run, MachineStep
<1>1. CASE PgctlLaunch
  BY <1>1 DEF PgctlLaunch
<1>2. CASE PgctlStarted \/ PgctlStartFailed \/ PgctlStartTimedOut
           \/ PgctlStopped \/ PgctlServerDied \/ PgctlHangs
  BY <1>2 DEF PgctlStarted, PgctlStartFailed, PgctlStartTimedOut, PgctlStopped,
    PgctlServerDied, PgctlHangs, PgctlReports, ChildExited
<1>3. CASE ServerOpensSockets \/ ServerReady \/ ServerShutDown \/ ServerExits
  BY <1>3 DEF ServerOpensSockets, ServerReady, ServerShutDown, ServerExits, ServerMoves
<1>4. CASE ServerReloads \/ AdminAlters
  BY <1>4 DEF ServerReloads, AdminAlters
<1>5. QED
  BY <1>1, <1>2, <1>3, <1>4

LEMMA StartInvNext == ASSUME TypeOK, StartInv, [Next]_vars PROVE StartInv'
<1>1. CASE StartRun
  BY <1>1 DEF StartRun, StartInv, OwnService, GoingDown, LaunchIsFree, NoLockConflict,
    service, postmaster
<1>2. CASE RunStep
  BY <1>2, StartInvRunStep
<1>3. CASE Cancel \/ Kill \/ Tick
  BY <1>3 DEF Cancel, Kill, Tick, End, Failed, StartInv, OwnService, GoingDown,
    LaunchIsFree, NoLockConflict, service, postmaster, machine, progress
<1>4. CASE Operator
  BY <1>4 DEF Operator, Running, OperatorStarts, OperatorStopsOutside, AcceptStart,
    ServerMoves, StartInv, OwnService, GoingDown, LaunchIsFree, NoLockConflict,
    service, postmaster, run
<1>5. CASE MachineStep
  BY <1>5, StartInvMachineStep
<1>6. CASE UNCHANGED vars
  BY <1>6 DEF vars, machine, run, StartInv, OwnService, GoingDown, LaunchIsFree,
    NoLockConflict
<1>7. QED
  BY <1>1, <1>2, <1>3, <1>4, <1>5, <1>6 DEF Next

\* No postmaster is ever launched over a live one: the wait for the refused
\* connect (awaitListenerClosed) is what the Start relies on.
THEOREM StartMeetsNoLockFile == Spec => []NoLockConflict
<1>1. Init => StartInv
  BY DEF Init, MachineInit, StartInv, OwnService, GoingDown, LaunchIsFree, NoLockConflict
<1>2. TypeOK /\ StartInv /\ [Next]_vars => StartInv'
  BY StartInvNext
<1>3. StartInv => NoLockConflict
  BY DEF StartInv
<1>4. QED
  BY <1>1, <1>2, <1>3, TypeCorrect, PTL DEF Spec

(***************************************************************************)
(* ServiceRestart implements RestartContract.                              *)
(***************************************************************************)
\* What the run has changed is known from where it is.
ProgressInv ==
  /\ pc # "ended" => outcome = "none"
  /\ pc \in BeforeWriting => applied = 0 /\ sent = "none"
  /\ pc = "apply" => sent = "none"
  /\ pc \in {"reload", "pause", "stop"} => applied # 0 /\ sent = "none"
  /\ pc \in {"awaitStopped", "awaitClosed", "start"} => sent = "stop"
  /\ pc \in {"awaitStarted", "diagnose", "ready", "readAgain"} => sent = "start"

LEMMA ProgressInvNext == ASSUME TypeOK, ProgressInv, [Next]_vars PROVE ProgressInv'
<1> USE DEF ProgressInv, BeforeWriting, machine, progress, run, Go, End, Still, Failed
<1>1. CASE StartRun
  BY <1>1 DEF StartRun
<1>2. CASE OpenService \/ PollRunning \/ Confirm
  BY <1>2 DEF OpenService, PollRunning, Confirm
<1>3. CASE ApplySetting
  BY <1>3 DEF ApplySetting, TypeOK, NumbersOK
<1>4. CASE Reload \/ ReadPending \/ ApplyFails
  BY <1>4 DEF Reload, ReadPending, ApplyFails
<1>5. CASE SendStop \/ PollStopped \/ ProbeClosed
  BY <1>5 DEF SendStop, PollStopped, ProbeClosed
<1>6. CASE SendStart \/ PollStarted
  BY <1>6 DEF SendStart, PollStarted
<1>7. CASE Diagnose \/ WaitReady \/ ReadAgain
  BY <1>7 DEF Diagnose, WaitReady, ReadAgain
<1>8. CASE Cancel \/ Kill \/ Tick
  BY <1>8 DEF Cancel, Kill, Tick
<1>9. CASE Operator \/ MachineStep \/ UNCHANGED vars
  BY <1>9 DEF Operator, MachineStep, vars
<1>10. QED
  BY <1>1, <1>2, <1>3, <1>4, <1>5, <1>6, <1>7, <1>8, <1>9 DEF Next, RunStep

\* A step that moves neither phase nor verdict is the environment's or a stutter.
LEMMA Unmoved ==
  ASSUME UNCHANGED <<sent, applied, outcome>>
  PROVE  Contract!Environment
  BY DEF Contract!Environment, Phase, Verdict

\* A step that ends the run concludes the contract if the phase admits the verdict.
LEMMA Concluding ==
  ASSUME outcome = "none", UNCHANGED <<sent, applied, server>>,
         Verdict' \in Contract!MaySay[Phase] \cup {"killed"}
  PROVE  Contract!Conclude
  BY DEF Contract!Conclude, Phase, Verdict

LEMMA MaySayPhases ==
  /\ Contract!MaySay["checking"] = {"refused", "failed"}
  /\ Contract!MaySay["changing"] = {"settled", "failed"}
  /\ Contract!MaySay["down"] = {"leftStopped"}
  /\ Contract!MaySay["up"] = {"startFailed", "interrupted", "restarted", "failed"}
  BY DEF Contract!MaySay

LEMMA ContractRunStep ==
  ASSUME TypeOK, ProgressInv, StartInv, RunStep
  PROVE  Contract!Next
<1> USE DEF ProgressInv, BeforeWriting, Go, End, Still, Failed, machine, service,
            postmaster, progress
<1>1. CASE UNCHANGED <<sent, applied, outcome>>
  BY <1>1, Unmoved DEF Contract!Next
<1>2. CASE OpenService \/ PollRunning \/ Confirm
  <2>1. pc' = "ended" => outcome' = "refused" /\ Phase = "checking"
    BY <1>2 DEF OpenService, PollRunning, Confirm, Phase
  <2>2. UNCHANGED <<sent, applied, server>> /\ (pc' # "ended" => outcome' = outcome)
    BY <1>2 DEF OpenService, PollRunning, Confirm
  <2>3. outcome = "none"
    BY <1>2 DEF OpenService, PollRunning, Confirm
  <2>4. CASE pc' = "ended"
    BY <2>1, <2>2, <2>3, <2>4, Concluding, MaySayPhases DEF Verdict, Contract!Next
  <2>5. QED
    BY <1>1, <2>2, <2>4
<1>3. CASE ApplySetting
  <2>1. applied' # 0
    BY <1>3, SomeSettings DEF ApplySetting, TypeOK, NumbersOK
  <2>2. sent = "none" /\ outcome = "none" /\ UNCHANGED <<sent, outcome, server>>
    BY <1>3 DEF ApplySetting
  <2>3. QED
    BY <2>1, <2>2 DEF Contract!Next, Contract!Write, Contract!Moves,
      Contract!Environment, Phase, Verdict
<1>4. CASE Reload \/ ReadPending \/ ApplyFails
  <2>1. pc' = "ended" =>
          \/ outcome' \in {"active", "noted"} /\ Phase = "changing"
          \/ outcome' = "applyFailed" /\ Phase \in {"checking", "changing"}
    BY <1>4 DEF Reload, ReadPending, ApplyFails, Phase
  <2>2. UNCHANGED <<sent, applied, server>> /\ (pc' # "ended" => outcome' = outcome)
    BY <1>4 DEF Reload, ReadPending, ApplyFails
  <2>3. outcome = "none"
    BY <1>4 DEF Reload, ReadPending, ApplyFails
  <2>4. CASE pc' = "ended"
    BY <2>1, <2>2, <2>3, <2>4, Concluding, MaySayPhases DEF Verdict, Contract!Next
  <2>5. QED
    BY <1>1, <2>2, <2>4
<1>5. CASE SendStop
  <2>1. CASE End("stopRefused") /\ Still
    <3>1. Phase = "changing" /\ Verdict' = "failed"
      BY <1>5, <2>1 DEF SendStop, Phase, Verdict
    <3>2. QED
      BY <1>5, <2>1, <3>1, Concluding, MaySayPhases DEF SendStop, Contract!Next
  <2>2. CASE ~(End("stopRefused") /\ Still)
    <3>1. sent = "none" /\ applied # 0 /\ sent' = "stop" /\ outcome = "none"
          /\ UNCHANGED <<applied, outcome>>
      BY <1>5, <2>2 DEF SendStop
    <3>2. (server = "gone") = (server' = "gone")
      BY <1>5, <2>2 DEF SendStop, AcceptStop
    <3>3. QED
      BY <3>1, <3>2 DEF Contract!Next, Contract!TakeDown, Contract!Moves, Phase, Verdict
  <2>3. QED
    BY <2>1, <2>2
<1>6. CASE PollStopped \/ ProbeClosed
  <2>1. pc' = "ended" =>
          outcome' \in {"stillStopping", "queryFailedAfterStop", "outlived"} /\ Phase = "down"
    BY <1>6 DEF PollStopped, ProbeClosed, Phase
  <2>2. UNCHANGED <<sent, applied, server>> /\ (pc' # "ended" => outcome' = outcome)
    BY <1>6 DEF PollStopped, ProbeClosed
  <2>3. outcome = "none"
    BY <1>6 DEF PollStopped, ProbeClosed
  <2>4. CASE pc' = "ended"
    BY <2>1, <2>2, <2>3, <2>4, Concluding, MaySayPhases DEF Verdict, Contract!Next
  <2>5. QED
    BY <1>1, <2>2, <2>4
<1>7. CASE SendStart
  <2>1. CASE pc' = "ended"
    <3>1. Phase = "down" /\ Verdict' = "leftStopped"
      BY <1>7, <2>1 DEF SendStart, Phase, Verdict
    <3>2. outcome = "none" /\ UNCHANGED <<sent, applied, server>>
      BY <1>7, <2>1 DEF SendStart
    <3>3. QED
      BY <3>1, <3>2, Concluding, MaySayPhases DEF Contract!Next
  <2>2. CASE pc' # "ended"
    <3>1. sent = "stop" /\ sent' = "start" /\ outcome = "none"
          /\ UNCHANGED <<applied, outcome, server>>
      BY <1>7, <2>2 DEF SendStart, AcceptStart
    <3>2. server = "gone"
      BY <1>7 DEF SendStart, StartInv, GoingDown
    <3>3. QED
      BY <3>1, <3>2 DEF Contract!Next, Contract!BringUp, Contract!Moves, Phase, Verdict
  <2>3. QED
    BY <2>1, <2>2
<1>8. CASE PollStarted
  <2>1. pc' = "ended" =>
          outcome' \in {"interrupted", "startBound", "queryFailedAfterStart"} /\ Phase = "up"
    BY <1>8 DEF PollStarted, Phase
  <2>2. UNCHANGED <<sent, applied, server>> /\ (pc' # "ended" => outcome' = outcome)
    BY <1>8 DEF PollStarted
  <2>3. outcome = "none"
    BY <1>8 DEF PollStarted
  <2>4. CASE pc' = "ended"
    BY <2>1, <2>2, <2>3, <2>4, Concluding, MaySayPhases DEF Verdict, Contract!Next
  <2>5. QED
    BY <1>1, <2>2, <2>4
<1>9. CASE Diagnose \/ WaitReady \/ ReadAgain
  <2>1. pc' = "ended" =>
          /\ outcome' \in {"outsideService", "exitedAtStartup", "probeFailed", "notReady",
                           "restarted", "stillPending"}
          /\ Phase = "up"
    BY <1>9 DEF Diagnose, WaitReady, ReadAgain, Phase
  <2>2. UNCHANGED <<sent, applied, server>> /\ (pc' # "ended" => outcome' = outcome)
    BY <1>9 DEF Diagnose, WaitReady, ReadAgain
  <2>3. outcome = "none"
    BY <1>9 DEF Diagnose, WaitReady, ReadAgain
  <2>4. CASE pc' = "ended"
    BY <2>1, <2>2, <2>3, <2>4, Concluding, MaySayPhases DEF Verdict, Contract!Next
  <2>5. QED
    BY <1>1, <2>2, <2>4
<1>10. QED
  BY <1>2, <1>3, <1>4, <1>5, <1>6, <1>7, <1>8, <1>9 DEF RunStep

LEMMA ContractNext ==
  ASSUME TypeOK, ProgressInv, StartInv, [Next]_vars
  PROVE  [Contract!Next]_Contract!vars
<1>1. CASE StartRun
  BY <1>1 DEF StartRun, Contract!Next, Contract!Begin, Phase, Verdict, postmaster
<1>2. CASE RunStep
  BY <1>2, ContractRunStep
<1>3. CASE Kill
  <2>1. outcome = "none" /\ Verdict' = "killed" /\ UNCHANGED <<sent, applied, server>>
    BY <1>3 DEF Kill, Running, End, Failed, ProgressInv, Verdict, postmaster, progress
  <2>2. QED
    BY <2>1, Concluding DEF Contract!Next
<1>4. CASE Cancel \/ Tick \/ Operator \/ MachineStep \/ UNCHANGED vars
  BY <1>4, Unmoved DEF Cancel, Tick, Operator, MachineStep, vars, run, progress, Contract!Next
<1>5. QED
  BY <1>1, <1>2, <1>3, <1>4 DEF Next

\* Whatever the machine does, the phase keeps the contract: no change before the
\* checks pass, one Stop, no Start over a live postmaster, honest verdicts.
THEOREM RestartKeepsContract == Spec => ImplementsContract
<1>1. Init => Contract!Init /\ ProgressInv /\ StartInv
  BY DEF Init, MachineInit, Contract!Init, Phase, Verdict, ProgressInv, StartInv,
    OwnService, GoingDown, LaunchIsFree, NoLockConflict
<1>2. TypeOK /\ ProgressInv /\ [Next]_vars => ProgressInv'
  BY ProgressInvNext
<1>3. TypeOK /\ StartInv /\ [Next]_vars => StartInv'
  BY StartInvNext
<1>4. TypeOK /\ ProgressInv /\ StartInv /\ [Next]_vars => [Contract!Next]_Contract!vars
  BY ContractNext
<1>5. QED
  BY <1>1, <1>2, <1>3, <1>4, TypeCorrect, PTL DEF Spec, ImplementsContract, Contract!Spec

-----------------------------------------------------------------------------
(***************************************************************************)
(* The service manager's state says what pg_ctl is doing, and pg_ctl has   *)
(* a child whenever it waits for a start.                                  *)
(***************************************************************************)
ScmTells ==
  /\ pgctl \in {"none", "launching"} => scm = "Stopped"
  /\ pgctl = "starting" => scm = "StartPending"
  /\ pgctl = "watching" => scm = "Running"
  /\ pgctl = "stopping" => scm = "StopPending"
  /\ pgctl = "hung" => scm \in {"StartPending", "StopPending"}
  /\ pgctl # "childless"

\* A postmaster that has no sockets yet is pg_ctl's child, and young.
YoungServer ==
  server = "starting" => pgctl \in {"starting", "hung"} /\ (pgctl = "starting" => pgctlWaited = 0)

\* pg_ctl's wait began when the run's did, or before.
WaitsInv ==
  /\ pc = "awaitStopped" /\ pgctl = "stopping" => waited <= pgctlWaited
  /\ pc = "awaitStarted" =>
       /\ pgctl # "stopping"
       /\ queries = 0 \/ pgctl = "launching" => waited = 0
       /\ pgctl = "starting" => waited <= pgctlWaited
  /\ pc \in {"awaitStarted", "diagnose", "ready", "readAgain"} => target = "mine"
  /\ pc = "diagnose" => pgctl = "none"

\* What a run without a fault may count on after its Stop and after its Start.
FaultlessInv ==
  faults = {} =>
    /\ sent # "none" => pgctl # "hung"
    /\ pc \in {"awaitStopped", "awaitClosed"} /\ waited >= StopBound => server = "gone"
    /\ pc = "ended" => sent # "stop"
    /\ sent = "start" =>
         /\ pgctl \in {"launching", "starting", "watching"}
         /\ pgctl # "launching" => server \in {"starting", "recovering", "serving"}
         /\ pc # "diagnose"
         /\ pc \in {"ready", "readAgain", "ended"} => pgctl = "watching"

\* What pg_settings shows, once the reload is sent, is a matter of one more reload at most.
PendingInv ==
  /\ \A i \in 1..applied : Settings[i] \in written
  /\ pc \in {"reload", "pause", "stop", "awaitStopped", "awaitClosed", "start", "awaitStarted",
             "diagnose", "ready", "readAgain"} => applied = Len(Settings)
  /\ pc \in {"pause", "stop", "awaitStopped", "awaitClosed", "start", "awaitStarted",
             "diagnose", "ready", "readAgain"} =>
       reload = "sent" \/ flagged = (written \cap NeedsRestart) \ loaded

RestartInv ==
  /\ ScmTells /\ YoungServer /\ WaitsInv /\ FaultlessInv /\ PendingInv /\ BoundsOnlyForAHang

-----------------------------------------------------------------------------
LEMMA Bounds ==
  /\ PgctlWait \in Nat \ {0} /\ StopBound \in Nat /\ StartBound \in Nat
  /\ PgctlWait < StopBound /\ PgctlWait < StartBound
BY PgctlAssumption, BoundsAssumption

LEMMA WaitBounds ==
  ASSUME NEW step
  PROVE  /\ step \in {"awaitStopped", "awaitClosed"} => Bound(step) = StopBound
         /\ step = "awaitStarted" => Bound(step) = StartBound
BY DEF Bound

\* Steps that leave the machine as it is: all but the controls, the settings and the faults.
MachineStays == UNCHANGED <<scm, pgctl, pgctlWaited, server>>

LEMMA RunTouches ==
  ASSUME StartRun \/ RunStep \/ Cancel \/ Kill
  PROVE  SendStop \/ SendStart \/ MachineStays
<1> USE DEF MachineStays, machine, service, postmaster, Still, Failed
<1>1. CASE StartRun \/ Cancel \/ Kill
  BY <1>1 DEF StartRun, Cancel, Kill
<1>2. CASE RunStep
  BY <1>2 DEF RunStep, OpenService, PollRunning, Confirm, ApplySetting, Reload, ReadPending,
    ApplyFails, PollStopped, ProbeClosed, PollStarted, Diagnose, WaitReady, ReadAgain
<1>3. QED
  BY <1>1, <1>2

LEMMA ScmTellsNext == ASSUME TypeOK, StartInv, ScmTells, [Next]_vars PROVE ScmTells'
<1> USE DEF ScmTells, service, postmaster
<1>1. CASE StartRun \/ RunStep \/ Cancel \/ Kill
  <2>1. CASE SendStop
    BY <2>1 DEF SendStop, AcceptStop, Still, machine
  <2>2. CASE SendStart
    BY <2>2 DEF SendStart, AcceptStart, Still, Failed, machine
  <2>3. CASE MachineStays
    BY <2>3 DEF MachineStays
  <2>4. QED
    BY <1>1, <2>1, <2>2, <2>3, RunTouches
<1>2. CASE Operator
  BY <1>2 DEF Operator, OperatorStarts, OperatorStopsOutside, AcceptStart, ServerMoves
<1>3. CASE Tick \/ UNCHANGED vars
  BY <1>3 DEF Tick, vars, machine
<1>4. CASE PgctlLaunch
  BY <1>4 DEF PgctlLaunch, StartInv, LaunchIsFree
<1>5. CASE PgctlStarted \/ PgctlStartFailed \/ PgctlStartTimedOut
           \/ PgctlStopped \/ PgctlServerDied \/ PgctlHangs
  BY <1>5 DEF PgctlStarted, PgctlStartFailed, PgctlStartTimedOut, PgctlStopped,
    PgctlServerDied, PgctlHangs, PgctlReports
<1>6. CASE ServerOpensSockets \/ ServerReady \/ ServerShutDown \/ ServerExits
           \/ ServerReloads \/ AdminAlters
  BY <1>6 DEF ServerOpensSockets, ServerReady, ServerShutDown, ServerExits, ServerMoves,
    ServerReloads, AdminAlters
<1>7. QED
  BY <1>1, <1>2, <1>3, <1>4, <1>5, <1>6 DEF Next, MachineStep

LEMMA YoungServerNext ==
  ASSUME TypeOK, StartInv, ScmTells, YoungServer, [Next]_vars PROVE YoungServer'
<1> USE DEF ScmTells, YoungServer, service, postmaster
<1>1. CASE StartRun \/ RunStep \/ Cancel \/ Kill
  <2>1. CASE SendStop
    BY <2>1 DEF SendStop, AcceptStop, Still, machine
  <2>2. CASE SendStart
    BY <2>2 DEF SendStart, AcceptStart, Still, Failed, machine, StartInv, GoingDown
  <2>3. CASE MachineStays
    BY <2>3 DEF MachineStays
  <2>4. QED
    BY <1>1, <2>1, <2>2, <2>3, RunTouches
<1>2. CASE Operator
  BY <1>2 DEF Operator, OperatorStarts, OperatorStopsOutside, AcceptStart, ServerMoves
<1>3. CASE Tick \/ UNCHANGED vars
  BY <1>3 DEF Tick, vars, machine, PgctlMayWait
<1>4. CASE PgctlLaunch
  BY <1>4 DEF PgctlLaunch
<1>5. CASE PgctlStarted \/ PgctlStartFailed \/ PgctlStartTimedOut
           \/ PgctlStopped \/ PgctlServerDied \/ PgctlHangs
  BY <1>5, Bounds DEF PgctlStarted, PgctlStartFailed, PgctlStartTimedOut, PgctlStopped,
    PgctlServerDied, PgctlHangs, PgctlReports, ChildExited
<1>6. CASE ServerOpensSockets \/ ServerReady \/ ServerShutDown \/ ServerExits
           \/ ServerReloads \/ AdminAlters
  BY <1>6 DEF ServerOpensSockets, ServerReady, ServerShutDown, ServerExits, ServerMoves,
    ServerReloads, AdminAlters
<1>7. QED
  BY <1>1, <1>2, <1>3, <1>4, <1>5, <1>6 DEF Next, MachineStep

LEMMA WaitsInvNext ==
  ASSUME TypeOK, StartInv, ScmTells, YoungServer, WaitsInv, [Next]_vars PROVE WaitsInv'
<1> USE DEF ScmTells, WaitsInv, service, postmaster, machine, progress, run, Go, End, Still, Failed
<1>1. CASE StartRun \/ Cancel \/ Kill
  BY <1>1 DEF StartRun, Cancel, Kill
<1>2. CASE OpenService \/ PollRunning \/ Confirm \/ ApplySetting \/ Reload \/ ReadPending \/ ApplyFails
  BY <1>2 DEF OpenService, PollRunning, Confirm, ApplySetting, Reload, ReadPending, ApplyFails
<1>3. CASE SendStop
  BY <1>3 DEF SendStop, AcceptStop
<1>4. CASE PollStopped \/ ProbeClosed
  BY <1>4 DEF PollStopped, ProbeClosed
<1>5. CASE SendStart
  BY <1>5 DEF SendStart, AcceptStart, StartInv, OwnService
<1>6. CASE PollStarted
  <2>1. scm = "Stopped" /\ queries > 0 => pgctl = "none"
    BY <1>6 DEF PollStarted, StartInv, LaunchIsFree
  <2>2. QED
    BY <1>6, <2>1 DEF PollStarted
<1>7. CASE Diagnose \/ WaitReady \/ ReadAgain
  BY <1>7 DEF Diagnose, WaitReady, ReadAgain
<1>8. CASE Operator
  BY <1>8 DEF Operator, Running, OperatorStarts, OperatorStopsOutside, AcceptStart, ServerMoves
<1>9. CASE Tick
  BY <1>9 DEF Tick, PgctlMayWait, PgctlTick, PgctlTimed, InWait, TypeOK, NumbersOK
<1>10. CASE UNCHANGED vars
  BY <1>10 DEF vars
<1>11. CASE PgctlLaunch /\ UNCHANGED run
  BY <1>11 DEF PgctlLaunch, TypeOK, NumbersOK
<1>12. CASE /\ \/ PgctlStarted \/ PgctlStartFailed \/ PgctlStartTimedOut
               \/ PgctlStopped \/ PgctlServerDied \/ PgctlHangs
            /\ UNCHANGED run
  BY <1>12 DEF PgctlStarted, PgctlStartFailed, PgctlStartTimedOut, PgctlStopped,
    PgctlServerDied, PgctlHangs, PgctlReports
<1>13. CASE /\ \/ ServerOpensSockets \/ ServerReady \/ ServerShutDown \/ ServerExits
               \/ ServerReloads \/ AdminAlters
            /\ UNCHANGED run
  BY <1>13 DEF ServerOpensSockets, ServerReady, ServerShutDown, ServerExits, ServerMoves,
    ServerReloads, AdminAlters
<1>14. QED
  BY <1>1, <1>2, <1>3, <1>4, <1>5, <1>6, <1>7, <1>8, <1>9, <1>10, <1>11, <1>12, <1>13
  DEF Next, RunStep, MachineStep

\* The two waits that a run gives up at their bound do so over a hung pg_ctl only.
LEMMA GivesUp ==
  ASSUME TypeOK, StartInv, ScmTells, WaitsInv,
         \/ pc = "awaitStopped" /\ scm # "Stopped" /\ waited >= StopBound
         \/ /\ pc = "awaitStarted" /\ waited >= StartBound
            /\ scm \notin {"Running", "Stopped"} \/ (scm = "Stopped" /\ queries = 0)
  PROVE  pgctl = "hung"
<1> USE Bounds DEF TypeOK, NumbersOK, LabelsOK, MachineLabelsOK, PgctlStates, ScmTells, WaitsInv
<1>1. CASE pc = "awaitStopped" /\ scm # "Stopped" /\ waited >= StopBound
  <2>1. pgctl \in {"stopping", "hung"}
    BY <1>1 DEF StartInv, GoingDown
  <2>2. pgctl # "stopping"
    BY <1>1
  <2>3. QED
    BY <2>1, <2>2
<1>2. CASE /\ pc = "awaitStarted" /\ waited >= StartBound
           /\ scm \notin {"Running", "Stopped"} \/ (scm = "Stopped" /\ queries = 0)
  <2>1. queries # 0 /\ pgctl # "starting"
    BY <1>2
  <2>2. scm \notin {"Running", "Stopped"}
    BY <1>2, <2>1
  <2>3. QED
    BY <1>2, <2>1, <2>2
<1>3. QED
  BY <1>1, <1>2

LEMMA BoundsNext ==
  ASSUME TypeOK, StartInv, ProgressInv, ScmTells, WaitsInv, BoundsOnlyForAHang, [Next]_vars
  PROVE  BoundsOnlyForAHang'
<1> USE DEF BoundsOnlyForAHang, service, postmaster, machine, progress, run, Go, End, Still, Failed
<1>1. CASE StartRun \/ Cancel \/ Kill
  BY <1>1 DEF StartRun, Cancel, Kill
<1>2. CASE OpenService \/ PollRunning \/ Confirm \/ ApplySetting \/ Reload \/ ReadPending \/ ApplyFails
  BY <1>2 DEF OpenService, PollRunning, Confirm, ApplySetting, Reload, ReadPending, ApplyFails
<1>3. CASE SendStop
  BY <1>3 DEF SendStop, AcceptStop
<1>4. CASE PollStopped
  <2>1. pc = "awaitStopped" /\ UNCHANGED pgctl
    BY <1>4 DEF PollStopped
  <2>2. outcome' = "stillStopping" /\ outcome # "stillStopping"
          => scm # "Stopped" /\ waited >= StopBound
    BY <1>4 DEF PollStopped
  <2>3. outcome' \in {outcome, "stillStopping", "queryFailedAfterStop"}
    BY <1>4 DEF PollStopped
  <2>4. QED
    BY <2>1, <2>2, <2>3, GivesUp
<1>5. CASE ProbeClosed
  BY <1>5 DEF ProbeClosed
<1>6. CASE SendStart
  <2>1. outcome = "none"
    BY <1>6 DEF SendStart, ProgressInv
  <2>2. QED
    BY <1>6, <2>1 DEF SendStart
<1>7. CASE PollStarted
  <2>1. pc = "awaitStarted" /\ UNCHANGED pgctl
    BY <1>7 DEF PollStarted
  <2>2. outcome = "none"
    BY <2>1 DEF ProgressInv
  <2>3. outcome' = "startBound" =>
          /\ ~(waited < StartBound)
          /\ scm \notin {"Running", "Stopped"} \/ (scm = "Stopped" /\ queries = 0)
    BY <1>7, <2>2 DEF PollStarted
  <2>4. outcome' # "stillStopping"
    BY <1>7, <2>2 DEF PollStarted
  <2>5. ~(waited < StartBound) => waited >= StartBound
    BY Bounds DEF TypeOK, NumbersOK
  <2>6. QED
    BY <2>1, <2>3, <2>4, <2>5, GivesUp
<1>8. CASE Diagnose \/ WaitReady \/ ReadAgain
  BY <1>8 DEF Diagnose, WaitReady, ReadAgain
<1>9. CASE Operator
  BY <1>9 DEF Operator, OperatorStarts, OperatorStopsOutside, AcceptStart, ServerMoves
<1>10. CASE Tick
  BY <1>10 DEF Tick
<1>11. CASE UNCHANGED vars
  BY <1>11 DEF vars
<1>12. CASE MachineStep
  <2>1. pgctl = "hung" => pgctl' = "hung"
    BY <1>12 DEF MachineStep, PgctlLaunch, PgctlStarted, PgctlStartFailed, PgctlStartTimedOut,
      PgctlStopped, PgctlServerDied, PgctlHangs, PgctlReports, ChildExited, ServerOpensSockets,
      ServerReady, ServerShutDown, ServerExits, ServerMoves, ServerReloads, AdminAlters
  <2>2. UNCHANGED outcome
    BY <1>12 DEF MachineStep
  <2>3. QED
    BY <2>1, <2>2
<1>13. QED
  BY <1>1, <1>2, <1>3, <1>4, <1>5, <1>6, <1>7, <1>8, <1>9, <1>10, <1>11, <1>12 DEF Next, RunStep

LEMMA FaultlessInvNext ==
  ASSUME TypeOK, StartInv, ProgressInv, ScmTells, YoungServer, WaitsInv, FaultlessInv, [Next]_vars
  PROVE  FaultlessInv'
<1> USE DEF FaultlessInv, service, postmaster, machine, progress, run, Go, End, Still, Failed
<1>1. CASE StartRun \/ Cancel \/ Kill
  BY <1>1 DEF StartRun, Cancel, Kill
<1>2. CASE OpenService \/ PollRunning \/ Confirm
  BY <1>2 DEF OpenService, PollRunning, Confirm, ProgressInv, BeforeWriting
<1>3. CASE ApplySetting \/ Reload \/ ReadPending \/ ApplyFails
  BY <1>3 DEF ApplySetting, Reload, ReadPending, ApplyFails, ProgressInv
<1>4. CASE SendStop
  BY <1>4, Bounds DEF SendStop, AcceptStop, ProgressInv
<1>5. CASE PollStopped
  <2>1. pc = "awaitStopped" /\ scm # "Stopped" /\ waited >= StopBound => pgctl = "hung"
    BY GivesUp
  <2>2. QED
    BY <1>5, <2>1 DEF PollStopped, ProgressInv
<1>6. CASE ProbeClosed
  <2>1. sent = "stop" /\ target = "mine" /\ (Answers => server # "gone")
    BY <1>6 DEF ProbeClosed, ProgressInv, StartInv, OwnService, Answers, SocketsOpen
  <2>2. QED
    BY <1>6, <2>1 DEF ProbeClosed
<1>7. CASE SendStart
  BY <1>7 DEF SendStart, AcceptStart, ProgressInv, StartInv, OwnService
<1>8. CASE PollStarted
  <2>1. pc = "awaitStarted" /\ sent = "start" /\ (queries > 0 => pgctl # "launching")
    BY <1>8 DEF PollStarted, ProgressInv
  <2>2. faults = {} => (scm = "Running" <=> pgctl = "watching")
    BY <2>1 DEF ScmTells
  <2>3. faults = {} => ~(scm = "Stopped" /\ queries > 0)
    BY <2>1 DEF ScmTells
  <2>4. /\ waited >= StartBound
        /\ scm \notin {"Running", "Stopped"} \/ (scm = "Stopped" /\ queries = 0)
        => pgctl = "hung"
    BY <2>1, GivesUp
  <2>5. ~(waited < StartBound) => waited >= StartBound
    BY Bounds DEF TypeOK, NumbersOK
  <2>6. QED
    BY <1>8, <2>1, <2>2, <2>3, <2>4, <2>5 DEF PollStarted
<1>9. CASE Diagnose \/ WaitReady \/ ReadAgain
  BY <1>9 DEF Diagnose, WaitReady, ReadAgain, ProgressInv
<1>10. CASE Operator
  <2>1. ~Running /\ UNCHANGED <<run, faults>>
    BY <1>10 DEF Operator, OperatorStarts, OperatorStopsOutside, ServerMoves
  <2>2. scm = "Stopped" /\ pgctl = "none" /\ pgctl' \in {"none", "launching"}
    BY <1>10 DEF Operator, OperatorStarts, OperatorStopsOutside, AcceptStart, ServerMoves
  <2>3. pc' \in {"idle", "ended"} /\ (pc = "idle" => sent = "none")
    BY <2>1 DEF Running, ProgressInv, BeforeWriting
  <2>4. QED
    BY <2>1, <2>2, <2>3 DEF TypeOK, LabelsOK, Sents
<1>11. CASE Tick
  <2>1. UNCHANGED <<pgctl, server, pc, sent>> /\ (faults' = {} => faults = {})
    BY <1>11 DEF Tick
  <2>2. ASSUME pc \in {"awaitStopped", "awaitClosed"}, faults' = {}, waited' >= StopBound
        PROVE  server = "gone"
    <3>1. waited < StopBound /\ waited' = waited + 1
      BY <1>11, <2>2, WaitBounds DEF Tick, InWait
    <3>2. waited + 1 = StopBound
      BY <2>2, <3>1, Bounds DEF TypeOK, NumbersOK
    <3>3. server # "stopping"
      BY <1>11, <2>2, <3>2 DEF Tick
    <3>4. QED
      BY <2>2, <3>3 DEF StartInv, GoingDown
  <2>3. QED
    BY <2>1, <2>2
<1>12. CASE UNCHANGED vars
  BY <1>12 DEF vars
<1>13. CASE PgctlLaunch /\ UNCHANGED run
  BY <1>13 DEF PgctlLaunch, StartInv, LaunchIsFree, GoingDown, ScmTells
<1>14. CASE /\ \/ PgctlStarted \/ PgctlStartFailed \/ PgctlStartTimedOut
               \/ PgctlStopped \/ PgctlServerDied \/ PgctlHangs
            /\ UNCHANGED run
  BY <1>14 DEF PgctlStarted, PgctlStartFailed, PgctlStartTimedOut, PgctlStopped,
    PgctlServerDied, PgctlHangs, PgctlReports, ChildExited
<1>15. CASE /\ \/ ServerOpensSockets \/ ServerReady \/ ServerShutDown \/ ServerExits
               \/ ServerReloads \/ AdminAlters
            /\ UNCHANGED run
  BY <1>15 DEF ServerOpensSockets, ServerReady, ServerShutDown, ServerExits, ServerMoves,
    ServerReloads, AdminAlters
<1>16. QED
  BY <1>1, <1>2, <1>3, <1>4, <1>5, <1>6, <1>7, <1>8, <1>9, <1>10, <1>11, <1>12, <1>13, <1>14,
     <1>15
  DEF Next, RunStep, MachineStep

LEMMA PendingInvNext ==
  ASSUME TypeOK, StartInv, PendingInv, [Next]_vars
  PROVE  PendingInv'
<1> USE DEF PendingInv, service, postmaster, machine, progress, run, Go, End, Still, Failed
<1>1. CASE StartRun
  BY <1>1 DEF StartRun
<1>2. CASE OpenService \/ PollRunning \/ Confirm
  BY <1>2 DEF OpenService, PollRunning, Confirm
<1>3. CASE ApplySetting
  <2>1. applied \in Nat /\ applied' = applied + 1 /\ pc' \in {"reload", "apply"}
    BY <1>3 DEF ApplySetting, TypeOK, NumbersOK
  <2>2. pc' = "reload" => applied' = Len(Settings)
    BY <1>3 DEF ApplySetting
  <2>3. written' = written \cup {Settings[applied + 1]}
    BY <1>3 DEF ApplySetting
  <2>4. ASSUME NEW i \in 1..applied' PROVE Settings[i] \in written'
    <3>1. i \in 1..applied \/ i = applied + 1
      BY <2>1
    <3>2. QED
      BY <2>3, <3>1
  <2>5. QED
    BY <2>1, <2>2, <2>4
<1>4. CASE Reload
  BY <1>4 DEF Reload
<1>5. CASE ReadPending \/ ApplyFails
  BY <1>5 DEF ReadPending, ApplyFails
<1>6. CASE SendStop \/ PollStopped \/ ProbeClosed
  BY <1>6 DEF SendStop, AcceptStop, PollStopped, ProbeClosed
<1>7. CASE SendStart \/ PollStarted
  BY <1>7 DEF SendStart, AcceptStart, PollStarted
<1>8. CASE Diagnose \/ WaitReady \/ ReadAgain
  BY <1>8 DEF Diagnose, WaitReady, ReadAgain
<1>9. CASE Cancel \/ Kill \/ Tick
  BY <1>9 DEF Cancel, Kill, Tick
<1>10. CASE Operator
  BY <1>10 DEF Operator, OperatorStarts, OperatorStopsOutside, AcceptStart, ServerMoves
<1>11. CASE UNCHANGED vars
  BY <1>11 DEF vars
<1>12. CASE MachineStep
  <2>1. UNCHANGED run /\ written \subseteq written'
    BY <1>12 DEF MachineStep, PgctlLaunch, PgctlStarted, PgctlStartFailed, PgctlStartTimedOut,
      PgctlStopped, PgctlServerDied, PgctlHangs, PgctlReports, ServerOpensSockets, ServerReady,
      ServerShutDown, ServerExits, ServerMoves, ServerReloads, AdminAlters
  <2>2. \/ UNCHANGED <<reload, flagged, written, loaded>>
        \/ reload' = "sent"
        \/ flagged' = (written' \cap NeedsRestart) \ loaded'
    <3>1. CASE PgctlLaunch
      BY <3>1 DEF PgctlLaunch
    <3>2. CASE ServerReloads \/ AdminAlters
      BY <3>2 DEF ServerReloads, AdminAlters
    <3>3. CASE ~(PgctlLaunch \/ ServerReloads \/ AdminAlters)
      BY <1>12, <3>3 DEF MachineStep, PgctlStarted, PgctlStartFailed, PgctlStartTimedOut,
        PgctlStopped, PgctlServerDied, PgctlHangs, PgctlReports, ServerOpensSockets,
        ServerReady, ServerShutDown, ServerExits, ServerMoves
    <3>4. QED
      BY <3>1, <3>2, <3>3
  <2>3. QED
    BY <2>1, <2>2
<1>13. QED
  BY <1>1, <1>2, <1>3, <1>4, <1>5, <1>6, <1>7, <1>8, <1>9, <1>10, <1>11, <1>12 DEF Next, RunStep

-----------------------------------------------------------------------------
LEMMA RestartInvInit == ASSUME Init, TypeOK PROVE RestartInv
<1> USE DEF Init, MachineInit
<1>1. ScmTells /\ YoungServer /\ WaitsInv
  BY DEF ScmTells, YoungServer, WaitsInv
<1>2. FaultlessInv /\ BoundsOnlyForAHang
  BY DEF FaultlessInv, BoundsOnlyForAHang
<1>3. PendingInv
  BY DEF PendingInv
<1>4. QED
  BY <1>1, <1>2, <1>3 DEF RestartInv

LEMMA RestartInvariant == Spec => [](TypeOK /\ StartInv /\ ProgressInv /\ RestartInv)
<1> DEFINE All == TypeOK /\ StartInv /\ ProgressInv /\ RestartInv
<1>1. Init => All
  <2> SUFFICES ASSUME Init PROVE All
    OBVIOUS
  <2>1. TypeOK
    BY TypeInit
  <2>2. StartInv
    BY DEF Init, MachineInit, StartInv, OwnService, GoingDown, LaunchIsFree, NoLockConflict
  <2>3. ProgressInv
    BY DEF Init, ProgressInv, BeforeWriting
  <2>4. QED
    BY <2>1, <2>2, <2>3, RestartInvInit
<1>2. All /\ [Next]_vars => All'
  <2> SUFFICES ASSUME All, [Next]_vars PROVE All'
    OBVIOUS
  <2>1. TypeOK'
    <3>1. CASE Next
      BY <3>1, LabelsStep, SetsStep, NumbersStep DEF TypeOK
    <3>2. CASE UNCHANGED vars
      BY <3>2 DEF vars, machine, run, TypeOK, LabelsOK, MachineLabelsOK, MachineSetsOK, NumbersOK
    <3>3. QED
      BY <3>1, <3>2
  <2>2. StartInv' /\ ProgressInv'
    BY StartInvNext, ProgressInvNext
  <2>3. ScmTells' /\ YoungServer' /\ WaitsInv'
    BY ScmTellsNext, YoungServerNext, WaitsInvNext DEF RestartInv
  <2>4. FaultlessInv' /\ BoundsOnlyForAHang' /\ PendingInv'
    BY FaultlessInvNext, BoundsNext, PendingInvNext DEF RestartInv
  <2>5. QED
    BY <2>1, <2>2, <2>3, <2>4 DEF RestartInv
<1>3. QED
  BY <1>1, <1>2, PTL DEF Spec

\* A service the run has stopped runs again when the run has ended, however often it was
\* cancelled and however long its waits are, unless the machine failed it.
THEOREM StoppedServiceRunsAgain == Spec => []StrandedOnlyByAFault
<1>1. TypeOK /\ RestartInv => StrandedOnlyByAFault
  BY DEF TypeOK, LabelsOK, Sents, RestartInv, FaultlessInv, ScmTells, StrandedOnlyByAFault
<1>2. QED
  BY <1>1, RestartInvariant, PTL

\* Whatever the bounds are, as long as they exceed pg_ctl's own wait, only a pg_ctl that
\* hangs makes the Stopped wait or the Running wait run out.
THEOREM BoundsAreEnough == Spec => []BoundsOnlyForAHang
<1>1. RestartInv => BoundsOnlyForAHang
  BY DEF RestartInv
<1>2. QED
  BY <1>1, RestartInvariant, PTL

\* "Outside its service" and "exited at startup" are so at the moment the run says it.
THEOREM DiagnosisHolds == Spec => DiagnosisIsTrueProp
<1>1. TypeOK /\ ProgressInv /\ RestartInv /\ [Next]_vars => [DiagnosisIsTrue]_vars
  <2> SUFFICES ASSUME TypeOK, ProgressInv, RestartInv, [Next]_vars,
                      EndsAs({"outsideService"}) \/ EndsAs({"exitedAtStartup"})
               PROVE  DiagnosisIsTrue
    BY DEF DiagnosisIsTrue
  <2>1. pc # "ended" /\ pc' = "ended" /\ outcome' \in {"outsideService", "exitedAtStartup"}
    BY DEF EndsAs
  <2>2. Diagnose
    BY <2>1 DEF Next, StartRun, RunStep, OpenService, PollRunning, Confirm, ApplySetting, Reload,
      ReadPending, ApplyFails, SendStop, PollStopped, ProbeClosed, SendStart, PollStarted,
      WaitReady, ReadAgain, Cancel, Kill, Operator, Tick, MachineStep, Go, End, run, vars
  <2>3. pgctl = "none" /\ target = "mine" /\ server # "starting"
    BY <2>2 DEF Diagnose, RestartInv, WaitsInv, YoungServer
  <2>4. /\ outcome' = "outsideService" => Answers
        /\ outcome' = "exitedAtStartup" => ~Answers
    BY <2>2 DEF Diagnose, End
  <2>5. server = "gone" <=> ~Answers
    BY <2>3 DEF Answers, SocketsOpen, TypeOK, LabelsOK, MachineLabelsOK, ServerStates
  <2>6. QED
    BY <2>1, <2>3, <2>4, <2>5 DEF DiagnosisIsTrue, EndsAs
<1>2. QED
  BY <1>1, RestartInvariant, PTL DEF Spec, DiagnosisIsTrueProp

\* "All settings active" is true when it is said, but for a reload still on its way.
THEOREM ActiveHolds == Spec => ActiveIsTrueProp
<1>1. TypeOK /\ ProgressInv /\ StartInv /\ RestartInv /\ [Next]_vars => [ActiveIsTrue]_vars
  <2> SUFFICES ASSUME TypeOK, ProgressInv, StartInv, RestartInv, [Next]_vars,
                      EndsAs({"active", "restarted"}) \/ EndsAs({"restarted"})
               PROVE  ActiveIsTrue
    BY DEF ActiveIsTrue
  <2>1. pc # "ended" /\ pc' = "ended" /\ outcome' \in {"active", "restarted"}
    BY DEF EndsAs
  <2>2. ReadPending \/ ReadAgain
    BY <2>1 DEF Next, StartRun, RunStep, OpenService, PollRunning, Confirm, ApplySetting, Reload,
      ApplyFails, SendStop, PollStopped, ProbeClosed, SendStart, PollStarted, Diagnose,
      WaitReady, Cancel, Kill, Operator, Tick, MachineStep, Go, End, run, vars
  <2>3. UNCHANGED <<loaded, reload, written, server>>
    BY <2>2 DEF ReadPending, ReadAgain, Still, machine
  <2>4. flagged = {} /\ pc \in {"pause", "readAgain"}
    BY <2>1, <2>2 DEF ReadPending, ReadAgain, Go, End
  <2>5. reload = "sent" \/ NeedsRestart \cap written \subseteq loaded
    BY <2>4 DEF RestartInv, PendingInv
  <2>6. RunSettings \subseteq written
    BY <2>4 DEF RestartInv, PendingInv, RunSettings
  <2>7. outcome' = "restarted" => server = "serving"
    BY <2>1, <2>2 DEF ReadPending, ReadAgain, Go, End, Accepting, RestartInv, WaitsInv
  <2>8. QED
    BY <2>3, <2>5, <2>6, <2>7 DEF ActiveIsTrue, EndsAs
<1>2. QED
  BY <1>1, RestartInvariant, PTL DEF Spec, ActiveIsTrueProp
=============================================================================
