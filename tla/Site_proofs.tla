----------------------------- MODULE Site_proofs -----------------------------
(***************************************************************************)
(* Theorems about Site: for any length of the limit, any number of steps   *)
(* of create and any number of faults.                                     *)
(***************************************************************************)
EXTENDS Site, TLAPS

USE DEF NoFault, InNoTime, Go, machine, given, config, ending

LEMMA MachineNext == ASSUME MachineOK, [Next]_vars PROVE MachineOK'
<1> USE DEF MachineOK
<1>1. CASE Invoke \/ Run
  BY <1>1 DEF Invoke, Run, ParseOther, EngineExits, OtherExits,
       ParseOptions, OpenService, ApplySettings, ReadPending,
    SendStop, AwaitServerExit, SendStart, Launched, AwaitStarted, WaitReady, Create, Check,
    CheckPlotLogin, Tail
<1>2. CASE Cancel \/ Kill
  BY <1>2 DEF Cancel, Kill
<1>3. CASE Around
  BY <1>3 DEF Around, ServerExits, ServerReady, ServerFails, ServerReloads, OperatorStarts,
    OperatorStops, Launched, Outside
<1>4. CASE UNCHANGED vars
  BY <1>4 DEF vars
<1>5. QED
  BY <1>1, <1>2, <1>3, <1>4 DEF Next

LEMMA GivenNext == ASSUME GivenOK, [Next]_vars PROVE GivenOK'
<1> USE DEF GivenOK
<1>1. CASE Invoke
  BY <1>1 DEF Invoke
<1>2. CASE Run
  BY <1>2 DEF Run, ParseOther, EngineExits, OtherExits,
       ParseOptions, OpenService, ApplySettings, ReadPending,
    SendStop, AwaitServerExit, SendStart, AwaitStarted, WaitReady, Create, Check,
    CheckPlotLogin, Tail
<1>3. CASE Cancel \/ Kill
  BY <1>3 DEF Cancel, Kill
<1>4. CASE Around
  BY <1>4 DEF Around, ServerExits, ServerReady, ServerFails, ServerReloads, OperatorStarts,
    OperatorStops, Outside
<1>5. CASE UNCHANGED vars
  BY <1>5 DEF vars
<1>6. QED
  BY <1>1, <1>2, <1>3, <1>4, <1>5 DEF Next

LEMMA ConfigNext == ASSUME ConfigOK, [Next]_vars PROVE ConfigOK'
<1> USE DEF ConfigOK, Verdicts, EndsConfig
<1>1. CASE Invoke
  BY <1>1 DEF Invoke
<1>2. CASE Run
  BY <1>2 DEF Run, ParseOther, EngineExits, OtherExits,
       ParseOptions, OpenService, ApplySettings, ReadPending,
    SendStop, AwaitServerExit, SendStart, AwaitStarted, WaitReady, Create, Check,
    CheckPlotLogin, Tail
<1>3. CASE Cancel \/ Kill
  BY <1>3 DEF Cancel, Kill
<1>4. CASE Around
  BY <1>4 DEF Around, ServerExits, ServerReady, ServerFails, ServerReloads, OperatorStarts,
    OperatorStops, Outside
<1>5. CASE UNCHANGED vars
  BY <1>5 DEF vars
<1>6. QED
  BY <1>1, <1>2, <1>3, <1>4, <1>5 DEF Next

LEMMA RunNext == ASSUME RunOK, [Next]_vars PROVE RunOK'
<1> USE DEF RunOK, Places, Idle, ExitWithError, Fails, Fault, Spend
<1>1. CASE Invoke
  BY <1>1 DEF Invoke
<1>2. CASE Run
  <2>1. CASE ParseOther \/ ParseOptions \/ OpenService \/ ApplySettings \/ ReadPending
    BY <2>1 DEF ParseOther, EngineExits, OtherExits,
         ParseOptions, OpenService, ApplySettings, ReadPending
  <2>2. CASE SendStop \/ AwaitServerExit \/ SendStart \/ AwaitStarted \/ WaitReady
    BY <2>2 DEF SendStop, AwaitServerExit, SendStart, AwaitStarted, WaitReady
  <2>3. CASE Create \/ Check \/ CheckPlotLogin \/ Tail
    BY <2>3 DEF Create, Check, CheckPlotLogin, Tail
  <2>4. QED
    BY <1>2, <2>1, <2>2, <2>3 DEF Run
<1>3. CASE Cancel \/ Kill
  BY <1>3 DEF Cancel, Kill
<1>4. CASE Around
  BY <1>4 DEF Around, ServerExits, ServerReady, ServerFails, ServerReloads, OperatorStarts,
    OperatorStops, Outside
<1>5. CASE UNCHANGED vars
  BY <1>5 DEF vars
<1>6. QED
  BY <1>1, <1>2, <1>3, <1>4, <1>5 DEF Next

LEMMA NumbersNext == ASSUME NumbersOK, [Next]_vars PROVE NumbersOK'
<1> USE SiteAssumption DEF NumbersOK, ExitWithError, Fails, Fault
<1>1. CASE Invoke
  BY <1>1 DEF Invoke
<1>2. CASE Run
  <2>1. CASE ParseOther \/ ParseOptions \/ OpenService \/ ApplySettings \/ ReadPending
    BY <2>1 DEF ParseOther, EngineExits, OtherExits,
         ParseOptions, OpenService, ApplySettings, ReadPending
  <2>2. CASE SendStop \/ SendStart \/ WaitReady
    BY <2>2 DEF SendStop, SendStart, WaitReady
  <2>3. CASE AwaitServerExit \/ AwaitStarted
    BY <2>3 DEF AwaitServerExit, AwaitStarted, Spend
  <2>4. CASE Create
    BY <2>4 DEF Create, Todo, Did, Spend
  <2>5. CASE Check \/ CheckPlotLogin \/ Tail
    BY <2>5 DEF Check, CheckPlotLogin, Tail
  <2>6. QED
    BY <1>2, <2>1, <2>2, <2>3, <2>4, <2>5 DEF Run
<1>3. CASE Cancel \/ Kill
  BY <1>3 DEF Cancel, Kill
<1>4. CASE Around
  BY <1>4 DEF Around, ServerExits, ServerReady, ServerFails, ServerReloads, OperatorStarts,
    OperatorStops, Outside
<1>5. CASE UNCHANGED vars
  BY <1>5 DEF vars
<1>6. QED
  BY <1>1, <1>2, <1>3, <1>4, <1>5 DEF Next

LEMMA SaidNext == ASSUME SaidOK, [Next]_vars PROVE SaidOK'
<1> USE DEF SaidOK, ExitWithError
<1>1. CASE Invoke
  BY <1>1 DEF Invoke
<1>2. CASE Run
  <2>1. CASE ParseOther \/ ParseOptions \/ OpenService \/ ApplySettings \/ ReadPending
    BY <2>1 DEF ParseOther, EngineExits, OtherExits,
         ParseOptions, OpenService, ApplySettings, ReadPending
  <2>2. CASE SendStop \/ AwaitServerExit \/ SendStart \/ AwaitStarted \/ WaitReady
    BY <2>2 DEF SendStop, AwaitServerExit, SendStart, AwaitStarted, WaitReady
  <2>3. CASE Create \/ Check \/ CheckPlotLogin \/ Tail
    BY <2>3 DEF Create, Check, CheckPlotLogin, Tail
  <2>4. QED
    BY <1>2, <2>1, <2>2, <2>3 DEF Run
<1>3. CASE Cancel \/ Kill
  BY <1>3 DEF Cancel, Kill
<1>4. CASE Around
  BY <1>4 DEF Around, ServerExits, ServerReady, ServerFails, ServerReloads, OperatorStarts,
    OperatorStops, Outside
<1>5. CASE UNCHANGED vars
  BY <1>5 DEF vars
<1>6. QED
  BY <1>1, <1>2, <1>3, <1>4, <1>5 DEF Next

\* Every variable of Site keeps its type, whatever the constants are.
THEOREM TypeCorrect == Spec => []TypeOK
<1>1. Init => TypeOK
  <2>1. Init => MachineOK /\ GivenOK
    BY DEF Init, MachineOK, GivenOK, Hosts
  <2>2. Init => ConfigOK /\ RunOK
    BY DEF Init, ConfigOK, Verdicts, RunOK, Places, Idle
  <2>3. Init => NumbersOK /\ SaidOK
    BY SiteAssumption DEF Init, NumbersOK, SaidOK
  <2>4. QED
    BY <2>1, <2>2, <2>3 DEF TypeOK
<1>2. TypeOK /\ [Next]_vars => TypeOK'
  BY MachineNext, GivenNext, ConfigNext, RunNext, NumbersNext, SaidNext DEF TypeOK
<1>3. QED
  BY <1>1, <1>2, PTL DEF Spec

-----------------------------------------------------------------------------
(* What each place of a run says of config, of the machine and of the steps passed. *)

InConfig == {"open", "apply", "pending", "stop", "stopped", "start", "started", "ready"}
PastCreate == {"check", "login", "tail"}

ConfigInv ==
  /\ pc \in {"parse", "open", "apply"} => applied = "no" /\ sent = "none" /\ verdict = "none"
  /\ pc \in {"pending", "stop"} => applied = "yes" /\ sent = "none" /\ verdict = "none"
  /\ pc \in {"stopped", "start"} => sent = "stop" /\ verdict = "none"
  /\ pc \in {"started", "ready"} => sent = "start" /\ verdict = "none"

SettingsInv ==
  /\ sent # "none" => applied = "yes"
  /\ applied = "yes" => settings \notin {"unset", "written"}
  /\ sent = "start" => settings = "active"
  /\ pc = "stop" => settings = "flagged"
  /\ pc = "start" => service = "stopped"

HostInv ==
  /\ pc \in InConfig /\ restart = "yes" => host = "loopback"
  /\ pc \in {"stop", "stopped", "start", "started", "ready"} => restart = "yes"
  /\ sent # "none" => host = "loopback"

StepInv ==
  /\ step <= created
  /\ pc \in PastCreate => step = CreateSteps
  /\ pc \in PastCreate \cup {"create"} /\ command = "site" => applied = "yes"
  /\ "done" \in said => pc = "exited" /\ created = CreateSteps
                        /\ (command = "site" => applied = "yes")
  /\ pc \notin Idle => exit = "none"

SparedInv ==
  /\ spared = "yes" /\ sent = "stop" => pc \in {"stopped", "start"}
  /\ spared = "yes" /\ sent = "start" =>
       service = "running" \/ (service = "starting" /\ pc = "started")

SiteInv == ConfigInv /\ SettingsInv /\ HostInv /\ StepInv /\ SparedInv

LEMMA ConfigInvNext == ASSUME ConfigInv, [Next]_vars PROVE ConfigInv'
<1> USE DEF ConfigInv, EndsConfig, ExitWithError, Idle
<1>1. CASE Invoke
  BY <1>1 DEF Invoke
<1>2. CASE Run
  <2>1. CASE ParseOther \/ ParseOptions
    BY <2>1 DEF ParseOther, EngineExits, OtherExits, ParseOptions, Validate
  <2>2. CASE OpenService \/ ApplySettings
    BY <2>2 DEF OpenService, ApplySettings
  <2>3. CASE ReadPending \/ SendStop
    BY <2>3 DEF ReadPending, SendStop
  <2>4. CASE AwaitServerExit \/ SendStart
    BY <2>4 DEF AwaitServerExit, SendStart, Launched
  <2>5. CASE AwaitStarted \/ WaitReady
    BY <2>5 DEF AwaitStarted, WaitReady
  <2>6. CASE Create
    BY <2>6 DEF Create, Todo, Found, Did
  <2>7. CASE Check \/ CheckPlotLogin \/ Tail
    BY <2>7 DEF Check, CheckPlotLogin, Tail
  <2>8. QED
    BY <1>2, <2>1, <2>2, <2>3, <2>4, <2>5, <2>6, <2>7 DEF Run
<1>3. CASE Cancel \/ Kill
  BY <1>3 DEF Cancel, Kill
<1>4. CASE Around
  BY <1>4 DEF Around, ServerExits, ServerReady, ServerFails, ServerReloads, OperatorStarts,
    OperatorStops, Launched, Outside
<1>5. CASE UNCHANGED vars
  BY <1>5 DEF vars
<1>6. QED
  BY <1>1, <1>2, <1>3, <1>4, <1>5 DEF Next

LEMMA SettingsInvNext == ASSUME ConfigInv, SettingsInv, [Next]_vars PROVE SettingsInv'
<1> USE DEF ConfigInv, SettingsInv, EndsConfig, ExitWithError, Idle
<1>1. CASE Invoke
  BY <1>1 DEF Invoke
<1>2. CASE Run
  <2>1. CASE ParseOther \/ ParseOptions
    BY <2>1 DEF ParseOther, EngineExits, OtherExits, ParseOptions, Validate
  <2>2. CASE OpenService \/ ApplySettings
    BY <2>2 DEF OpenService, ApplySettings
  <2>3. CASE ReadPending \/ SendStop
    BY <2>3 DEF ReadPending, SendStop
  <2>4. CASE AwaitServerExit \/ SendStart
    BY <2>4 DEF AwaitServerExit, SendStart, Launched
  <2>5. CASE AwaitStarted \/ WaitReady
    BY <2>5 DEF AwaitStarted, WaitReady
  <2>6. CASE Create
    BY <2>6 DEF Create, Todo, Found, Did
  <2>7. CASE Check \/ CheckPlotLogin \/ Tail
    BY <2>7 DEF Check, CheckPlotLogin, Tail
  <2>8. QED
    BY <1>2, <2>1, <2>2, <2>3, <2>4, <2>5, <2>6, <2>7 DEF Run
<1>3. CASE Cancel \/ Kill
  BY <1>3 DEF Cancel, Kill
<1>4. CASE Around
  BY <1>4 DEF Around, ServerExits, ServerReady, ServerFails, ServerReloads, OperatorStarts,
    OperatorStops, Launched, Outside
<1>5. CASE UNCHANGED vars
  BY <1>5 DEF vars
<1>6. QED
  BY <1>1, <1>2, <1>3, <1>4, <1>5 DEF Next

LEMMA HostInvNext == ASSUME ConfigInv, HostInv, [Next]_vars PROVE HostInv'
<1> USE DEF ConfigInv, HostInv, InConfig, EndsConfig, ExitWithError, Idle
<1>1. CASE Invoke
  BY <1>1 DEF Invoke
<1>2. CASE Run
  <2>1. CASE ParseOther \/ ParseOptions
    BY <2>1 DEF ParseOther, EngineExits, OtherExits, ParseOptions, Validate
  <2>2. CASE OpenService \/ ApplySettings
    BY <2>2 DEF OpenService, ApplySettings
  <2>3. CASE ReadPending \/ SendStop
    BY <2>3 DEF ReadPending, SendStop
  <2>4. CASE AwaitServerExit \/ SendStart
    BY <2>4 DEF AwaitServerExit, SendStart, Launched
  <2>5. CASE AwaitStarted \/ WaitReady
    BY <2>5 DEF AwaitStarted, WaitReady
  <2>6. CASE Create
    BY <2>6 DEF Create, Todo, Found, Did
  <2>7. CASE Check \/ CheckPlotLogin \/ Tail
    BY <2>7 DEF Check, CheckPlotLogin, Tail
  <2>8. QED
    BY <1>2, <2>1, <2>2, <2>3, <2>4, <2>5, <2>6, <2>7 DEF Run
<1>3. CASE Cancel \/ Kill
  BY <1>3 DEF Cancel, Kill
<1>4. CASE Around
  BY <1>4 DEF Around, ServerExits, ServerReady, ServerFails, ServerReloads, OperatorStarts,
    OperatorStops, Launched, Outside
<1>5. CASE UNCHANGED vars
  BY <1>5 DEF vars
<1>6. QED
  BY <1>1, <1>2, <1>3, <1>4, <1>5 DEF Next

LEMMA StepInvNext == ASSUME NumbersOK, ConfigInv, SettingsInv, StepInv, [Next]_vars PROVE StepInv'
<1> USE SiteAssumption DEF NumbersOK, ConfigInv, SettingsInv, StepInv, PastCreate, EndsConfig, ExitWithError, Idle
<1>1. CASE Invoke
  BY <1>1 DEF Invoke
<1>2. CASE Run
  <2>1. CASE ParseOther \/ ParseOptions
    BY <2>1 DEF ParseOther, EngineExits, OtherExits, ParseOptions, Validate
  <2>2. CASE OpenService \/ ApplySettings
    BY <2>2 DEF OpenService, ApplySettings
  <2>3. CASE ReadPending \/ SendStop
    BY <2>3 DEF ReadPending, SendStop
  <2>4. CASE AwaitServerExit \/ SendStart
    BY <2>4 DEF AwaitServerExit, SendStart, Launched
  <2>5. CASE AwaitStarted \/ WaitReady
    BY <2>5 DEF AwaitStarted, WaitReady
  <2>6. CASE Create
    BY <2>6 DEF Create, Todo, Found, Did
  <2>7. CASE Check \/ CheckPlotLogin \/ Tail
    BY <2>7 DEF Check, CheckPlotLogin, Tail
  <2>8. QED
    BY <1>2, <2>1, <2>2, <2>3, <2>4, <2>5, <2>6, <2>7 DEF Run
<1>3. CASE Cancel \/ Kill
  BY <1>3 DEF Cancel, Kill
<1>4. CASE Around
  BY <1>4 DEF Around, ServerExits, ServerReady, ServerFails, ServerReloads, OperatorStarts,
    OperatorStops, Launched, Outside
<1>5. CASE UNCHANGED vars
  BY <1>5 DEF vars
<1>6. QED
  BY <1>1, <1>2, <1>3, <1>4, <1>5 DEF Next

LEMMA SparedInvNext == ASSUME ConfigInv, SettingsInv, SparedInv, [Next]_vars PROVE SparedInv'
<1> USE DEF ConfigInv, SettingsInv, SparedInv, EndsConfig, ExitWithError, Fails, Fault, Idle
<1>1. CASE Invoke
  BY <1>1 DEF Invoke
<1>2. CASE Run
  <2>1. CASE ParseOther \/ ParseOptions
    BY <2>1 DEF ParseOther, EngineExits, OtherExits, ParseOptions, Validate
  <2>2. CASE OpenService \/ ApplySettings
    BY <2>2 DEF OpenService, ApplySettings
  <2>3. CASE ReadPending \/ SendStop
    BY <2>3 DEF ReadPending, SendStop
  <2>4. CASE AwaitServerExit \/ SendStart
    BY <2>4 DEF AwaitServerExit, SendStart, Launched
  <2>5. CASE AwaitStarted \/ WaitReady
    BY <2>5 DEF AwaitStarted, WaitReady
  <2>6. CASE Create
    BY <2>6 DEF Create, Todo, Found, Did
  <2>7. CASE Check \/ CheckPlotLogin \/ Tail
    BY <2>7 DEF Check, CheckPlotLogin, Tail
  <2>8. QED
    BY <1>2, <2>1, <2>2, <2>3, <2>4, <2>5, <2>6, <2>7 DEF Run
<1>3. CASE Cancel \/ Kill
  BY <1>3 DEF Cancel, Kill
<1>4. CASE Around
  BY <1>4 DEF Around, ServerExits, ServerReady, ServerFails, ServerReloads, OperatorStarts,
    OperatorStops, Launched, Outside
<1>5. CASE UNCHANGED vars
  BY <1>5 DEF vars
<1>6. QED
  BY <1>1, <1>2, <1>3, <1>4, <1>5 DEF Next

LEMMA SiteInvariant == Spec => []SiteInv
<1>1. Init => SiteInv
  BY SiteAssumption DEF Init, SiteInv, ConfigInv, SettingsInv, HostInv, InConfig, StepInv,
    PastCreate, SparedInv, Idle
<1>2. TypeOK /\ SiteInv /\ [Next]_vars => SiteInv'
  BY ConfigInvNext, SettingsInvNext, HostInvNext, StepInvNext, SparedInvNext DEF SiteInv, TypeOK
<1>3. QED
  BY <1>1, <1>2, TypeCorrect, PTL DEF Spec

\* Done is printed only where everything is there, for any number of runs cut off before.
THEOREM DoneMeansCommissioned == Spec => []DoneIsCommissioned
<1>1. SiteInv => DoneIsCommissioned
  BY DEF SiteInv, SettingsInv, StepInv, DoneIsCommissioned
<1>2. QED
  BY <1>1, SiteInvariant, PTL

\* The host rule of Validate is enough: a run that restarts the server reaches it afterwards.
THEOREM RunsReachTheirServer == Spec => []NotShutOutByItself
<1>1. SiteInv => NotShutOutByItself
  BY DEF SiteInv, HostInv, NotShutOutByItself
<1>2. QED
  BY <1>1, SiteInvariant, PTL

\* A limit that runs out in or after the restart leaves the service running.
THEOREM LimitLeavesItRunning == Spec => []LimitLeavesServiceRunning
<1>1. TypeOK /\ SiteInv => LimitLeavesServiceRunning
  BY DEF TypeOK, ConfigOK, SiteInv, SparedInv, LimitLeavesServiceRunning
<1>2. QED
  BY <1>1, SiteInvariant, TypeCorrect, PTL

-----------------------------------------------------------------------------
(* The contract of the config phase. *)

LEMMA ConcludeStep ==
  ASSUME verdict = "none", verdict' \in Contract!MaySay[Phase] \cup {"killed"},
         UNCHANGED <<sent, applied, service>>
  PROVE  Contract!Next
BY DEF Contract!Next, Contract!Conclude, Phase, Server

LEMMA MaySayPhases ==
  /\ Contract!MaySay["checking"] = {"refused", "failed"}
  /\ Contract!MaySay["changing"] = {"settled", "failed"}
  /\ Contract!MaySay["down"] = {"leftStopped"}
  /\ Contract!MaySay["up"] = {"startFailed", "interrupted", "restarted", "failed"}
BY DEF Contract!MaySay

LEMMA EnvironmentStep ==
  ASSUME UNCHANGED <<sent, applied, verdict>>
  PROVE  Contract!Next
BY DEF Contract!Next, Contract!Environment, Phase, Server

LEMMA ContractNext ==
  ASSUME TypeOK, SiteInv, [Next]_vars
  PROVE  [Contract!Next]_Contract!vars
<1> USE DEF EndsConfig
<1>1. CASE Invoke
  BY <1>1 DEF Invoke, Contract!Next, Contract!Begin, Phase, Server
<1>2. CASE OpenService
  <2>1. verdict = "none" /\ Phase = "checking"
    BY <1>2 DEF OpenService, SiteInv, ConfigInv, Phase
  <2>2. UNCHANGED <<sent, applied, service>> /\ verdict' \in {"none", "refused"}
    BY <1>2, <2>1 DEF OpenService
  <2>3. QED
    BY <2>1, <2>2, ConcludeStep, EnvironmentStep, MaySayPhases
<1>3. CASE ApplySettings
  <2>1. verdict = "none" /\ Phase = "checking" /\ sent = "none" /\ UNCHANGED <<sent, service>>
    BY <1>3 DEF ApplySettings, SiteInv, ConfigInv, Phase
  <2>2. CASE applied' = "yes" /\ UNCHANGED verdict
    BY <2>1, <2>2 DEF Contract!Next, Contract!Write, Contract!Moves, Phase, Server
  <2>3. CASE UNCHANGED applied /\ verdict' = "failed"
    BY <2>1, <2>3, ConcludeStep, MaySayPhases
  <2>4. QED
    BY <1>3, <2>2, <2>3 DEF ApplySettings
<1>4. CASE ReadPending
  <2>1. verdict = "none" /\ Phase = "changing"
    BY <1>4 DEF ReadPending, SiteInv, ConfigInv, Phase
  <2>2. UNCHANGED <<sent, applied, service>> /\ verdict' \in {"none", "settled", "failed"}
    BY <1>4, <2>1 DEF ReadPending
  <2>3. QED
    BY <2>1, <2>2, ConcludeStep, EnvironmentStep, MaySayPhases
<1>5. CASE SendStop
  <2>1. verdict = "none" /\ Phase = "changing" /\ sent = "none" /\ applied = "yes"
    BY <1>5 DEF SendStop, SiteInv, ConfigInv, Phase
  <2>2. CASE sent' = "stop" /\ service = "running" /\ service' = "stopping"
             /\ UNCHANGED <<applied, verdict>>
    BY <2>1, <2>2 DEF Contract!Next, Contract!TakeDown, Contract!Moves, Phase, Server
  <2>3. CASE UNCHANGED <<sent, applied, service>> /\ verdict' = "failed"
    BY <2>1, <2>3, ConcludeStep, MaySayPhases
  <2>4. QED
    BY <1>5, <2>2, <2>3 DEF SendStop
<1>6. CASE AwaitServerExit
  <2>1. verdict = "none" /\ Phase = "down"
    BY <1>6 DEF AwaitServerExit, SiteInv, ConfigInv, Phase
  <2>2. UNCHANGED <<sent, applied, service>> /\ verdict' \in {"none", "leftStopped"}
    BY <1>6, <2>1 DEF AwaitServerExit
  <2>3. QED
    BY <2>1, <2>2, ConcludeStep, EnvironmentStep, MaySayPhases
<1>7. CASE SendStart
  <2>1. verdict = "none" /\ Phase = "down" /\ sent = "stop" /\ service = "stopped"
    BY <1>7 DEF SendStart, SiteInv, ConfigInv, SettingsInv, Phase
  <2>2. CASE sent' = "start" /\ service' = "starting" /\ UNCHANGED <<applied, verdict>>
    BY <2>1, <2>2 DEF Contract!Next, Contract!BringUp, Contract!Moves, Phase, Server
  <2>3. CASE UNCHANGED <<sent, applied, service>> /\ verdict' = "leftStopped"
    BY <2>1, <2>3, ConcludeStep, MaySayPhases
  <2>4. QED
    BY <1>7, <2>2, <2>3 DEF SendStart, Launched
<1>8. CASE AwaitStarted \/ WaitReady
  <2>1. verdict = "none" /\ Phase = "up"
    BY <1>8 DEF AwaitStarted, WaitReady, SiteInv, ConfigInv, Phase
  <2>2. /\ UNCHANGED <<sent, applied, service>>
        /\ verdict' \in {"none", "startFailed", "interrupted", "restarted", "failed"}
    BY <1>8, <2>1 DEF AwaitStarted, WaitReady
  <2>3. QED
    BY <2>1, <2>2, ConcludeStep, EnvironmentStep, MaySayPhases
<1>9. CASE ParseOther \/ ParseOptions \/ Create \/ Check \/ CheckPlotLogin \/ Tail \/ Cancel
           \/ Around \/ UNCHANGED vars
  BY <1>9, EnvironmentStep DEF ParseOther, EngineExits, OtherExits,
       ParseOptions, Create, Check, CheckPlotLogin, Tail,
    Cancel, Around, ServerExits, ServerReady, ServerFails, ServerReloads, OperatorStarts,
    OperatorStops, Outside, vars
<1>10. CASE Kill
  <2>1. CASE verdict = "none"
    BY <1>10, <2>1, ConcludeStep DEF Kill
  <2>2. CASE verdict # "none"
    BY <1>10, <2>2, EnvironmentStep DEF Kill
  <2>3. QED
    BY <2>1, <2>2
<1>11. QED
  BY <1>1, <1>2, <1>3, <1>4, <1>5, <1>6, <1>7, <1>8, <1>9, <1>10 DEF Next, Run

\* The coarse config of Site keeps the same contract as the detailed one of ServiceRestart.
THEOREM ConfigContract == Spec => ConfigKeepsContract
<1>1. Init => Contract!Init
  BY DEF Init, Contract!Init, Phase, Server
<1>2. TypeOK /\ SiteInv /\ [Next]_vars => [Contract!Next]_Contract!vars
  BY ContractNext
<1>3. QED
  BY <1>1, <1>2, SiteInvariant, TypeCorrect, PTL DEF Spec, ConfigKeepsContract, Contract!Spec
=============================================================================
