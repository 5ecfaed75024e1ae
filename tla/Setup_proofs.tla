----------------------------- MODULE Setup_proofs -----------------------------
(***************************************************************************)
(* Theorems about Setup, for any number of Setups at once, any number of   *)
(* faults and any number of an administrator's acts.                       *)
(***************************************************************************)
EXTENDS Setup, TLAPS

USE DEF At, Go, Refuse, Looks, NoFault, Outside, machine, wizard, database

-----------------------------------------------------------------------------
(* Types. *)

LEMMA Fields ==
  /\ \A f \in SuperFields : SuperPasswordOrConvention(f) \in Passwords
  /\ \A f \in WriterFields : WriterPasswordOrConvention(f) \in Passwords
BY DEF SuperFields, WriterFields, SuperPasswordOrConvention, WriterPasswordOrConvention, Passwords

LEMMA EngineAnswers == ASSUME MachineOK PROVE EngineState \in States
BY DEF EngineState, States, Obstacles, MachineOK

LEMMA Told ==
  \A answer \in Obstacles \cup {"incomplete", "failed", "execError"} : EngineStateRefusal(answer) \in Refusals
BY DEF EngineStateRefusal, Obstacles, Refusals, ToldToAct

LEMMA NumbersNext == ASSUME NumbersOK, [Next]_vars PROVE NumbersOK'
<1> USE SetupAssumption DEF NumbersOK, Fault, Move, DetectEngine
<1>1. CASE \E s \in Setups : Launch(s) \/ ClickInstall(s) \/ ClickCancel(s) \/ Kill(s) \/ FollowAdvice(s)
  BY <1>1 DEF Launch, ClickInstall, ClickCancel, Kill, FollowAdvice
<1>2. CASE \E s \in Setups : PrepareToInstall(s)
  BY <1>2 DEF PrepareToInstall, KeepTool, ProbeUninstaller, Detect, ProbePort, ProbeFolder,
    StartEdb, EdbReturns, DetectAgain, ConfigService, StartService, SiteRefusal, SiteConnects,
    SiteCreates, SiteChecks
<1>3. CASE (\E e \in Installers : Edb(e)) \/ EdbOrphanEnds
  BY <1>3 DEF Edb, EdbUnpacks, EdbInitdb, EdbRegisters, EdbFails, EdbOrphanEnds
<1>4. CASE RemovalGoesOn \/ ManualRun \/ ServerStops \/ Uninstall \/ StrangerComes
  BY <1>4 DEF RemovalGoesOn, ManualRun, ServerStops, Uninstall, StrangerComes
<1>5. CASE UNCHANGED vars
  BY <1>5 DEF vars
<1>6. QED
  BY <1>1, <1>2, <1>3, <1>4, <1>5 DEF Next

LEMMA MachineNext == ASSUME MachineOK, SetupsOK, EdbOK, [Next]_vars PROVE MachineOK'
<1> USE DEF MachineOK, Passwords
<1>1. CASE \E s \in Setups : Launch(s) \/ ClickInstall(s) \/ ClickCancel(s) \/ Kill(s)
  BY <1>1 DEF Launch, ClickInstall, ClickCancel, Kill
<1>2. CASE \E s \in Setups : FollowAdvice(s)
  BY <1>2 DEF FollowAdvice, StartRemoval, WithoutService
<1>3. CASE \E s \in Setups : PrepareToInstall(s)
  <2> PICK s \in Setups : PrepareToInstall(s)
    BY <1>3
  <2>1. CASE SiteCreates(s)
    <3>1. writerField[s] \in WriterFields
      BY DEF SetupsOK
    <3>2. writer' \in Passwords
      BY <2>1, <3>1, Fields DEF SiteCreates
    <3>3. plot' \in Passwords /\ UNCHANGED <<service, startup, data, files, removal, stranger,
                                               obstacle, superuser, heir>>
      BY <2>1 DEF SiteCreates
    <3>4. QED
      BY <3>2, <3>3
  <2>2. CASE KeepTool(s) \/ ProbeUninstaller(s) \/ Detect(s) \/ ProbePort(s) \/ ProbeFolder(s)
    BY <2>2 DEF KeepTool, ProbeUninstaller, Detect, ProbePort, ProbeFolder
  <2>3. CASE StartEdb(s) \/ EdbReturns(s) \/ DetectAgain(s)
    BY <2>3 DEF StartEdb, EdbReturns, DetectAgain
  <2>4. CASE ConfigService(s) \/ StartService(s)
    BY <2>4 DEF ConfigService, StartService
  <2>5. CASE SiteConnects(s) \/ SiteChecks(s)
    BY <2>5 DEF SiteConnects, SiteChecks
  <2>6. QED
    BY <2>1, <2>2, <2>3, <2>4, <2>5 DEF PrepareToInstall
<1>4. CASE (\E e \in Installers : Edb(e)) \/ EdbOrphanEnds
  BY <1>4 DEF Edb, EdbUnpacks, EdbInitdb, EdbRegisters, EdbFails, EdbOrphanEnds, EdbOK
<1>5. CASE RemovalGoesOn \/ ManualRun \/ ServerStops \/ Uninstall \/ StrangerComes
  BY <1>5 DEF RemovalGoesOn, ManualRun, ServerStops, Uninstall, StrangerComes, Move, StartRemoval,
    WithoutService
<1>6. CASE UNCHANGED vars
  BY <1>6 DEF vars
<1>7. QED
  BY <1>1, <1>2, <1>3, <1>4, <1>5, <1>6 DEF Next

LEMMA EdbNext == ASSUME SetupsOK, EdbOK, [Next]_vars PROVE EdbOK'
<1> USE DEF EdbOK
<1>1. NoEdb \in [step : EdbSteps, superpassword : Passwords] /\ Setups \subseteq Installers
  BY DEF NoEdb, EdbSteps, Passwords, Installers
<1>2. CASE \E s \in Setups : Launch(s) \/ ClickInstall(s) \/ ClickCancel(s) \/ FollowAdvice(s)
  BY <1>2 DEF Launch, ClickInstall, ClickCancel, FollowAdvice
<1>3. CASE \E s \in Setups : Kill(s)
  BY <1>1, <1>3 DEF Kill, Installers
<1>4. CASE \E s \in Setups : PrepareToInstall(s)
  <2> PICK s \in Setups : PrepareToInstall(s)
    BY <1>4
  <2>1. CASE StartEdb(s)
    <3>1. super[s] \in SuperFields
      BY DEF SetupsOK
    <3>2. OptionFile(s) \in [step : EdbSteps, superpassword : Passwords]
      BY <3>1, Fields DEF OptionFile, EdbSteps
    <3>3. QED
      BY <2>1, <3>2 DEF StartEdb
  <2>2. CASE EdbReturns(s)
    BY <1>1, <2>2 DEF EdbReturns
  <2>3. CASE PrepareToInstall(s) /\ ~StartEdb(s) /\ ~EdbReturns(s)
    BY <2>3 DEF PrepareToInstall, KeepTool, ProbeUninstaller, Detect, ProbePort, ProbeFolder,
      DetectAgain, ConfigService, StartService, SiteConnects, SiteCreates, SiteChecks
  <2>4. QED
    BY <2>1, <2>2, <2>3
<1>5. CASE \E e \in Installers : Edb(e)
  BY <1>5 DEF Edb, EdbUnpacks, EdbInitdb, EdbRegisters, EdbFails, EdbStep, EdbSteps
<1>6. CASE EdbOrphanEnds
  BY <1>1, <1>6 DEF EdbOrphanEnds
<1>7. CASE RemovalGoesOn \/ ManualRun \/ ServerStops \/ Uninstall \/ StrangerComes \/ UNCHANGED vars
  BY <1>7 DEF RemovalGoesOn, ManualRun, ServerStops, Uninstall, StrangerComes, Move, vars
<1>8. QED
  BY <1>2, <1>3, <1>4, <1>5, <1>6, <1>7 DEF Next

LEMMA SetupsNext == ASSUME MachineOK, SetupsOK, [Next]_vars PROVE SetupsOK'
<1> USE DEF SetupsOK, Places, Resting, Refusals, ToldToAct
<1>1. ASSUME NEW s \in Setups \cup {"nobody", "orphan"}, Seen(s)
      PROVE  company' \in [Setups -> {"no", "yes"}]
  BY <1>1 DEF Seen
<1>2. EngineState \in States
  BY EngineAnswers
<1>3. CASE \E s \in Setups : Launch(s)
  BY <1>3, <1>2 DEF Launch, DetectEngine, Answers
<1>4. CASE \E s \in Setups : ClickInstall(s) \/ ClickCancel(s) \/ Kill(s)
  BY <1>4 DEF ClickInstall, ClickCancel, Kill
<1>5. CASE \E s \in Setups : FollowAdvice(s)
  BY <1>5, <1>1 DEF FollowAdvice
<1>6. CASE \E s \in Setups : PrepareToInstall(s)
  <2> PICK s \in Setups : PrepareToInstall(s)
    BY <1>6
  <2>1. CASE KeepTool(s) \/ ProbeUninstaller(s) \/ ProbePort(s) \/ ProbeFolder(s)
    BY <2>1 DEF KeepTool, ProbeUninstaller, ProbePort, ProbeFolder
  <2>2. CASE Detect(s)
    <3>1. PICK answer \in Answers :
            /\ fresh' = [fresh EXCEPT ![s] = IF answer = "fresh" THEN "yes" ELSE "no"]
            /\ IF answer = "found" THEN Go(s, "config")
               ELSE IF answer = "fresh"
                 THEN IF super[s] = "quoted" THEN Refuse(s, "SuperPasswordRules") ELSE Go(s, "port")
               ELSE Refuse(s, EngineStateRefusal(answer))
      BY <2>2 DEF Detect
    <3>2. answer \notin {"found", "fresh"} => EngineStateRefusal(answer) \in Refusals
      BY Told DEF States, Answers
    <3>3. fresh' \in [Setups -> {"no", "yes"}]
      BY <3>1
    <3>4. pc' \in [Setups -> Places] /\ refusal' \in [Setups -> {"none"} \cup Refusals]
      BY <3>1, <3>2
    <3>5. QED
      BY <2>2, <3>3, <3>4 DEF Detect
  <2>3. CASE StartEdb(s) \/ EdbReturns(s) \/ DetectAgain(s)
    BY <2>3 DEF StartEdb, EdbReturns, DetectAgain
  <2>4. CASE ConfigService(s) \/ StartService(s)
    BY <2>4, <1>1 DEF ConfigService, StartService
  <2>5. CASE SiteConnects(s) \/ SiteChecks(s)
    BY <2>5, <1>1 DEF SiteConnects, SiteChecks, SiteRefusal
  <2>6. CASE SiteCreates(s)
    BY <2>6, <1>1 DEF SiteCreates, SiteRefusal
  <2>7. QED
    BY <2>1, <2>2, <2>3, <2>4, <2>5, <2>6 DEF PrepareToInstall
<1>7. CASE \E e \in Installers : Edb(e)
  BY <1>7, <1>1 DEF Installers, Edb, EdbUnpacks, EdbInitdb, EdbRegisters, EdbFails
<1>8. CASE EdbOrphanEnds \/ UNCHANGED vars
  BY <1>8 DEF EdbOrphanEnds, vars
<1>9. CASE RemovalGoesOn \/ ManualRun \/ ServerStops \/ Uninstall \/ StrangerComes
  BY <1>9, <1>1 DEF RemovalGoesOn, ManualRun, ServerStops, Uninstall, StrangerComes, Move
<1>10. QED
  BY <1>3, <1>4, <1>5, <1>6, <1>7, <1>8, <1>9 DEF Next

LEMMA InitTypes == ASSUME Init PROVE TypeOK
<1>1. MachineOK
  <2>1. superuser \in Passwords /\ writer \in Passwords /\ plot \in Passwords
    BY DEF Init, Passwords, SuperFields
  <2>2. QED
    BY <2>1 DEF Init, MachineOK, Obstacles
<1>2. SetupsOK
  BY DEF Init, SetupsOK, Places, Resting, Answers, SuperFields, WriterFields
<1>3. EdbOK
  BY DEF Init, EdbOK, NoEdb, EdbSteps, Passwords
<1>4. NumbersOK
  <2>1. faults = 0 /\ moves = 0
    BY DEF Init
  <2>2. QED
    BY <2>1, SetupAssumption DEF NumbersOK
<1>5. QED
  BY <1>1, <1>2, <1>3, <1>4 DEF TypeOK

\* The machine, the wizard and the EDB installers keep the values the code gives them.
THEOREM TypeCorrect == Spec => []TypeOK
<1>1. Init => TypeOK
  BY InitTypes
<1>2. TypeOK /\ [Next]_vars => TypeOK'
  BY MachineNext, SetupsNext, EdbNext, NumbersNext DEF TypeOK
<1>3. QED
  BY <1>1, <1>2, PTL DEF Spec

-----------------------------------------------------------------------------
(* The inductive invariant: what a Setup may count on at each place of     *)
(* PrepareToInstall while nobody else has touched the machine.             *)

\* The cluster is the one the EDB installer of s has made.
Ours(s) == superuser = SuperPasswordOrConvention(super[s]) /\ writer = "none"

Starting == {"start", "connect", "create", "check", "finished"}
Remove == {"IncompleteInstallation", "IncompleteInstallationNoUninstaller", "EdbFailed",
           "DataDirectoryNotEmpty"}

Shape(s) ==
  /\ pc[s] \in {"port", "folder", "install", "edb", "again"} => fresh[s] = "yes"
  /\ refusal[s] # "none" => pc[s] = "refused"
  /\ edb[s].step # "idle" => pc[s] = "edb"

Standing(s) ==
  company[s] = "no" =>
    /\ pc[s] \in {"port", "folder", "install"} => service = "none"
    /\ pc[s] \in {"folder", "install"} => stranger = "no"
    /\ pc[s] = "install" => data = "empty" \/ listed[s] = "no"
    /\ pc[s] = "edb" => heir = "no" \/ listed[s] = "no"
    /\ pc[s] = "again" => heir = "no"
    /\ pc[s] = "edb" => edb[s].superpassword = SuperPasswordOrConvention(super[s])
    /\ edb[s].step = "unpacking" =>
         service = "none" /\ stranger = "no" /\ (data = "empty" \/ listed[s] = "no")
    /\ edb[s].step \in {"service", "succeeded"} => Ours(s) /\ heir = "no"
    /\ pc[s] \in {"again", "config", "start", "connect", "create"} /\ fresh[s] = "yes" => Ours(s)
    /\ pc[s] \in {"config"} \cup Starting => data = "cluster"
    /\ pc[s] \in Starting => startup = "auto"
    /\ pc[s] \in Starting \ {"start"} => service = "running"
    /\ pc[s] \in {"check", "finished"} =>
         /\ plot = "semiplot"
         /\ fresh[s] = "yes" => writer = WriterPasswordOrConvention(writerField[s])
    /\ refusal[s] = "SitePasswordWrong" => ~LogsIn(s) /\ fresh[s] = "no"
    /\ refusal[s] \in Remove /\ heir = "yes" /\ service # "none" =>
         obstacle = "unplaced" \/ listed[s] = "no"

HeirHasData == heir = "yes" => data = "cluster"

Inv == TypeOK /\ HeirHasData /\ \A s \in Setups : Shape(s) /\ Standing(s)

\* Nothing the invariant says of s has changed, or s is no longer alone.
Still(s) ==
  /\ pc'[s] = pc[s] /\ fresh'[s] = fresh[s] /\ super'[s] = super[s]
  /\ writerField'[s] = writerField[s] /\ refusal'[s] = refusal[s] /\ edb'[s] = edb[s]
  /\ listed'[s] = listed[s]
  /\ company'[s] = "no" => company[s] = "no" /\ UNCHANGED machine

LEMMA Frame ==
  ASSUME NEW s, Shape(s), Standing(s), Still(s)
  PROVE  Shape(s)' /\ Standing(s)'
<1>1. Shape(s)'
  BY DEF Shape, Still
<1>2. Standing(s)'
  BY DEF Standing, Still, Ours, LogsIn
<1>3. QED
  BY <1>1, <1>2

\* Whoever Seen(s) names, every other Setup is no longer alone.
LEMMA SeenByAll ==
  ASSUME NEW s, NEW t \in Setups, s # t, Seen(s)
  PROVE  company'[t] = "yes"
BY DEF Seen

\* A step of one Setup is none of another's business, unless it touches the machine.
LEMMA Elsewhere ==
  ASSUME SetupsOK, EdbOK, NEW t \in Setups, NEW s \in Setups, s # t,
         Launch(t) \/ ClickInstall(t) \/ ClickCancel(t) \/ PrepareToInstall(t) \/ Kill(t)
           \/ FollowAdvice(t)
  PROVE  Still(s)
<1> USE DEF SetupsOK, EdbOK
<1>1. s # "orphan" /\ s \in Installers /\ t \in Installers
  BY SetupAssumption DEF Installers
<1>2. Seen(t) => company'[s] = "yes"
  BY SeenByAll
<1>3. CASE Launch(t)
  BY <1>3 DEF Launch, Still
<1>4. CASE ClickInstall(t) \/ ClickCancel(t)
  BY <1>4 DEF ClickInstall, ClickCancel, Still
<1>5. CASE Kill(t)
  BY <1>1, <1>5 DEF Kill, Still
<1>6. CASE FollowAdvice(t)
  BY <1>2, <1>6 DEF FollowAdvice, Still
<1>7. CASE KeepTool(t) \/ ProbeUninstaller(t) \/ ProbePort(t) \/ ProbeFolder(t)
  BY <1>7 DEF KeepTool, ProbeUninstaller, ProbePort, ProbeFolder, Still
<1>8. CASE Detect(t)
  BY <1>8 DEF Detect, Still
<1>9. CASE StartEdb(t) \/ EdbReturns(t) \/ DetectAgain(t)
  BY <1>1, <1>9 DEF StartEdb, EdbReturns, DetectAgain, Still
<1>10. CASE ConfigService(t) \/ StartService(t)
  BY <1>2, <1>10 DEF ConfigService, StartService, Still
<1>11. CASE SiteConnects(t) \/ SiteChecks(t)
  BY <1>2, <1>11 DEF SiteConnects, SiteChecks, SiteRefusal, Still
<1>12. CASE SiteCreates(t)
  BY <1>2, <1>12 DEF SiteCreates, SiteRefusal, Still
<1>13. QED
  BY <1>3, <1>4, <1>5, <1>6, <1>7, <1>8, <1>9, <1>10, <1>11, <1>12 DEF PrepareToInstall

\* Whoever is no Setup, and the installer of a killed one, leaves no Setup alone.
LEMMA Outsiders ==
  ASSUME SetupsOK, EdbOK, NEW s \in Setups,
         \/ \E e \in Installers \ {s} : Edb(e)
         \/ EdbOrphanEnds \/ RemovalGoesOn \/ ManualRun \/ ServerStops \/ Uninstall
         \/ StrangerComes \/ UNCHANGED vars
  PROVE  Still(s)
<1> USE DEF SetupsOK, EdbOK
<1>1. s # "orphan" /\ s # "nobody" /\ s \in Installers
  BY SetupAssumption DEF Installers
<1>2. CASE \E e \in Installers \ {s} : Edb(e)
  <2> PICK e \in Installers \ {s} : Edb(e)
    BY <1>2
  <2>1. Seen(e) /\ Outside /\ edb' = [edb EXCEPT ![e] = edb'[e]]
    BY DEF Edb, EdbUnpacks, EdbInitdb, EdbRegisters, EdbFails, EdbStep
  <2>2. company'[s] = "yes"
    BY <2>1, SeenByAll
  <2>3. QED
    BY <1>1, <2>1, <2>2 DEF Still
<1>3. CASE EdbOrphanEnds
  BY <1>1, <1>3 DEF EdbOrphanEnds, Still
<1>4. CASE RemovalGoesOn \/ ManualRun \/ ServerStops \/ Uninstall \/ StrangerComes
  <2>1. Seen("nobody") /\ UNCHANGED <<wizard, pc, fresh, refusal, listed, edb>>
    BY <1>4 DEF RemovalGoesOn, ManualRun, ServerStops, Uninstall, StrangerComes, Move
  <2>2. company'[s] = "yes"
    BY <1>1, <2>1, SeenByAll
  <2>3. QED
    BY <2>1, <2>2 DEF Still
<1>5. CASE UNCHANGED vars
  BY <1>5 DEF vars, Still
<1>6. QED
  BY <1>2, <1>3, <1>4, <1>5

\* What the engine's answer says about the machine.
LEMMA Means ==
  /\ EngineState = "fresh" => service = "none"
  /\ EngineState = "found" => service # "none" /\ data = "cluster"
  /\ EngineState = "incomplete" => data # "cluster" \/ obstacle = "unplaced"
BY DEF EngineState

\* Only an incomplete installation is answered with what removes something.
LEMMA Spares ==
  \A answer \in Obstacles \cup {"failed", "execError"} :
    EngineStateRefusal(answer) \notin Remove \cup {"none", "SitePasswordWrong"}
BY DEF EngineStateRefusal, Obstacles, Remove

LEMMA IncompleteRefused == EngineStateRefusal("incomplete") \in Remove \ {"none"}
BY DEF EngineStateRefusal, Remove

-----------------------------------------------------------------------------
(* The own steps of a Setup, one lemma for a stretch of PrepareToInstall.  *)

LEMMA OwnPages ==
  ASSUME TypeOK, HeirHasData, NEW s \in Setups, Shape(s), Standing(s),
         \/ Launch(s) \/ ClickInstall(s) \/ ClickCancel(s) \/ Kill(s) \/ FollowAdvice(s)
         \/ KeepTool(s) \/ ProbeUninstaller(s)
  PROVE  Shape(s)' /\ Standing(s)'
<1> USE DEF TypeOK, SetupsOK, EdbOK, Shape, Standing, Ours, LogsIn, Starting, Remove
<1>1. CASE Launch(s)
  BY <1>1 DEF Launch, Resting
<1>2. CASE ClickInstall(s) \/ ClickCancel(s)
  BY <1>2 DEF ClickInstall, ClickCancel
<1>3. CASE Kill(s)
  <2>1. s # "orphan" /\ s \in Installers
    BY SetupAssumption DEF Installers
  <2>2. edb'[s] = NoEdb /\ pc'[s] = "killed" /\ refusal'[s] = "none" /\ UNCHANGED machine
    BY <1>3, <2>1 DEF Kill, Resting
  <2>3. edb'[s].step = "idle"
    BY <2>2 DEF NoEdb
  <2>4. QED
    BY <2>2, <2>3
<1>4. CASE FollowAdvice(s)
  BY <1>4 DEF FollowAdvice
<1>5. CASE KeepTool(s) \/ ProbeUninstaller(s)
  BY <1>5 DEF KeepTool, ProbeUninstaller
<1>6. QED
  BY <1>1, <1>2, <1>3, <1>4, <1>5

LEMMA OwnProbes ==
  ASSUME TypeOK, HeirHasData, NEW s \in Setups, Shape(s), Standing(s),
         \/ Detect(s) \/ ProbePort(s) \/ ProbeFolder(s)
  PROVE  Shape(s)' /\ Standing(s)'
<1> USE DEF TypeOK, SetupsOK, EdbOK, Shape, Standing, Ours, LogsIn, Starting, HeirHasData
<1>1. CASE Detect(s)
  <2>1. PICK answer \in Answers :
          /\ answer = EngineState \/ answer \in {"failed", "execError"}
          /\ fresh' = [fresh EXCEPT ![s] = IF answer = "fresh" THEN "yes" ELSE "no"]
          /\ IF answer = "found" THEN Go(s, "config")
             ELSE IF answer = "fresh"
               THEN IF super[s] = "quoted" THEN Refuse(s, "SuperPasswordRules") ELSE Go(s, "port")
             ELSE Refuse(s, EngineStateRefusal(answer))
    BY <1>1 DEF Detect, DetectEngine
  <2>2. At(s, "detect") /\ UNCHANGED <<machine, wizard, edb>>
    BY <1>1 DEF Detect
  <2>3. CASE answer = "found"
    BY <2>1, <2>2, <2>3, Means DEF Remove
  <2>4. CASE answer = "fresh"
    BY <2>1, <2>2, <2>4, Means DEF Remove
  <2>5. CASE answer = "incomplete"
    <3>1. EngineStateRefusal(answer) \in Remove
      BY <2>5, IncompleteRefused
    <3>2. heir # "yes" \/ obstacle = "unplaced"
      BY <2>1, <2>5, Means
    <3>3. pc'[s] = "refused" /\ refusal'[s] = EngineStateRefusal(answer)
      BY <2>1, <2>5
    <3>4. QED
      BY <2>2, <3>1, <3>2, <3>3 DEF Remove
  <2>6. CASE answer \in Obstacles \cup {"failed", "execError"}
    <3>1. EngineStateRefusal(answer) \notin Remove \cup {"none", "SitePasswordWrong"}
      BY <2>6, Spares
    <3>2. pc'[s] = "refused" /\ refusal'[s] = EngineStateRefusal(answer)
      BY <2>1, <2>6 DEF Obstacles
    <3>3. QED
      BY <2>2, <3>1, <3>2
  <2>7. QED
    BY <2>3, <2>4, <2>5, <2>6 DEF States, Answers
<1>2. CASE ProbePort(s)
  BY <1>2 DEF ProbePort, MachineOK, Remove
<1>3. CASE ProbeFolder(s)
  BY <1>3 DEF ProbeFolder, Remove
<1>4. QED
  BY <1>1, <1>2, <1>3

LEMMA OwnInstall ==
  ASSUME TypeOK, HeirHasData, NEW s \in Setups, Shape(s), Standing(s),
         \/ StartEdb(s) \/ EdbReturns(s) \/ DetectAgain(s) \/ Edb(s)
  PROVE  Shape(s)' /\ Standing(s)'
<1> USE DEF TypeOK, SetupsOK, EdbOK, Shape, Standing, Ours, LogsIn, Starting, Remove, HeirHasData
<1> s \in Installers
  BY DEF Installers
<1>1. CASE StartEdb(s)
  <2>1. data = "empty" => heir = "no"
    BY DEF MachineOK
  <2>2. QED
    BY <1>1, <2>1 DEF StartEdb, OptionFile
<1>2. CASE EdbReturns(s)
  <2>1. edb'[s].step = "idle"
    BY <1>2 DEF EdbReturns, NoEdb
  <2>2. QED
    BY <1>2, <2>1 DEF EdbReturns
<1>3. CASE DetectAgain(s)
  BY <1>3, Means DEF DetectAgain, DetectEngine
<1>4. CASE EdbUnpacks(s)
  BY <1>4 DEF EdbUnpacks, EdbStep, Seen
<1>5. CASE EdbInitdb(s)
  BY <1>5 DEF EdbInitdb, EdbStep, Seen
<1>6. CASE EdbRegisters(s)
  BY <1>6 DEF EdbRegisters, EdbStep, Seen
<1>7. CASE EdbFails(s)
  BY <1>7 DEF EdbFails, EdbStep, Seen
<1>8. QED
  BY <1>1, <1>2, <1>3, <1>4, <1>5, <1>6, <1>7 DEF Edb

LEMMA OwnSite ==
  ASSUME TypeOK, NEW s \in Setups, Shape(s), Standing(s),
         \/ ConfigService(s) \/ StartService(s) \/ SiteConnects(s) \/ SiteCreates(s) \/ SiteChecks(s)
  PROVE  Shape(s)' /\ Standing(s)'
<1> USE DEF TypeOK, SetupsOK, EdbOK, Shape, Standing, Ours, LogsIn, Starting, Remove
<1>1. CASE ConfigService(s)
  BY <1>1 DEF ConfigService, Seen
<1>2. CASE StartService(s)
  BY <1>2 DEF StartService, Seen
<1>3. CASE SiteConnects(s)
  BY <1>3 DEF SiteConnects, SiteRefusal
<1>4. CASE SiteCreates(s)
  BY <1>4 DEF SiteCreates, SiteRefusal, Seen
<1>5. CASE SiteChecks(s)
  BY <1>5 DEF SiteChecks, SiteRefusal
<1>6. QED
  BY <1>1, <1>2, <1>3, <1>4, <1>5

-----------------------------------------------------------------------------
(* The invariant, and the theorems. *)

\* An archive that was there before is a cluster: what empties the folder, or fills it anew,
\* ends it.
LEMMA HeirNext == ASSUME HeirHasData, [Next]_vars PROVE HeirHasData'
<1> USE DEF HeirHasData
<1>1. CASE \E s \in Setups : Launch(s) \/ ClickInstall(s) \/ ClickCancel(s) \/ Kill(s) \/ FollowAdvice(s)
  BY <1>1 DEF Launch, ClickInstall, ClickCancel, Kill, FollowAdvice
<1>2. CASE \E s \in Setups : PrepareToInstall(s)
  BY <1>2 DEF PrepareToInstall, KeepTool, ProbeUninstaller, Detect, ProbePort, ProbeFolder,
    StartEdb, EdbReturns, DetectAgain, ConfigService, StartService, SiteConnects, SiteCreates,
    SiteChecks
<1>3. CASE (\E e \in Installers : Edb(e)) \/ EdbOrphanEnds
  BY <1>3 DEF Edb, EdbUnpacks, EdbInitdb, EdbRegisters, EdbFails, EdbOrphanEnds
<1>4. CASE RemovalGoesOn \/ ManualRun \/ ServerStops \/ Uninstall \/ StrangerComes
  BY <1>4 DEF RemovalGoesOn, ManualRun, ServerStops, Uninstall, StrangerComes
<1>5. CASE UNCHANGED vars
  BY <1>5 DEF vars
<1>6. QED
  BY <1>1, <1>2, <1>3, <1>4, <1>5 DEF Next

LEMMA InvInit == ASSUME Init, TypeOK PROVE Inv
<1>1. HeirHasData
  BY DEF Init, HeirHasData
<1>2. ASSUME NEW s \in Setups PROVE Shape(s) /\ Standing(s)
  <2>1. pc[s] = "off" /\ refusal[s] = "none" /\ edb[s] = NoEdb
    BY DEF Init, Installers
  <2>2. edb[s].step = "idle"
    BY <2>1 DEF NoEdb
  <2>3. QED
    BY <2>1, <2>2 DEF Shape, Standing, Starting, Remove
<1>3. QED
  BY <1>1, <1>2 DEF Inv

LEMMA InvNext == ASSUME Inv, [Next]_vars PROVE Inv'
<1> USE DEF Inv
<1>1. TypeOK'
  BY MachineNext, SetupsNext, EdbNext, NumbersNext DEF TypeOK
<1>2. HeirHasData'
  BY HeirNext
<1>3. ASSUME NEW s \in Setups PROVE Shape(s)' /\ Standing(s)'
  <2>1. SetupsOK /\ EdbOK /\ Shape(s) /\ Standing(s)
    BY DEF TypeOK
  <2>2. CASE Launch(s) \/ ClickInstall(s) \/ ClickCancel(s) \/ PrepareToInstall(s) \/ Kill(s)
               \/ FollowAdvice(s) \/ Edb(s)
    BY <2>1, <2>2, OwnPages, OwnProbes, OwnInstall, OwnSite DEF PrepareToInstall
  <2>3. CASE \E t \in Setups \ {s} : Launch(t) \/ ClickInstall(t) \/ ClickCancel(t)
               \/ PrepareToInstall(t) \/ Kill(t) \/ FollowAdvice(t)
    BY <2>1, <2>3, Elsewhere, Frame
  <2>4. CASE \/ \E e \in Installers \ {s} : Edb(e)
             \/ EdbOrphanEnds \/ RemovalGoesOn \/ ManualRun \/ ServerStops \/ Uninstall
             \/ StrangerComes \/ UNCHANGED vars
    BY <2>1, <2>4, Outsiders, Frame
  <2>5. QED
    BY <2>2, <2>3, <2>4 DEF Next
<1>4. QED
  BY <1>1, <1>2, <1>3

LEMMA Invariant == Spec => []Inv
<1>1. Init => Inv
  BY InitTypes, InvInit
<1>2. Inv /\ [Next]_vars => Inv'
  BY InvNext
<1>3. QED
  BY <1>1, <1>2, PTL DEF Spec

\* PostgreSQL is only installed on a machine without a service of 17, with a free port and a
\* data folder that is empty or could not be listed, unless somebody else has changed the
\* machine meanwhile.
THEOREM InstallIsSafe == Spec => []InstallsOnABareMachine
<1>1. Inv => InstallsOnABareMachine
  BY DEF Inv, Standing, InstallsOnABareMachine, Alone
<1>2. QED
  BY <1>1, Invariant, PTL

\* The Finished page tells the truth: the server runs and starts by itself, and the
\* passwords it shows are the ones in the cluster.
THEOREM FinishedIsTrue == Spec => []FinishedPageIsTrue
<1>1. Inv => FinishedPageIsTrue
  BY DEF Inv, Standing, Starting, FinishedPageIsTrue, Alone, Serves
<1>2. QED
  BY <1>1, Invariant, PTL

\* A password is only called wrong where postgres cannot log in with it, never after a fresh
\* install.
THEOREM WrongPasswordIsWrong == Spec => []PasswordRefusalIsTrue
<1>1. Inv => PasswordRefusalIsTrue
  BY DEF Inv, Standing, PasswordRefusalIsTrue, Alone
<1>2. QED
  BY <1>1, Invariant, PTL

\* The advice to remove PostgreSQL, its service or its folder is given over the archive of a
\* server that was there before only where the engine cannot place that archive, or where
\* Setup could not list its folder.
THEOREM ArchiveIsSpared == Spec => []AdviceSparesTheArchive
<1>1. Inv => AdviceSparesTheArchive
  BY DEF Inv, Standing, Remove, AdviceSparesTheArchive, Alone
<1>2. QED
  BY <1>1, Invariant, PTL
=============================================================================
