-------------------------------- MODULE Setup --------------------------------
(***************************************************************************)
(* Setup (Installer/SemiBase.iss): the wizard's engine run, then           *)
(* PrepareToInstall, which probes the machine, installs PostgreSQL where   *)
(* none is, starts the service and runs semibase site, or refuses.         *)
(*                                                                         *)
(* Every probe reads the machine at its own moment, and the machine does   *)
(* not stand still: the EDB uninstaller exits before its copy has removed  *)
(* anything, the EDB installer of a killed Setup works on, no mutex stops  *)
(* a second Setup, and an administrator runs semibase by hand. An operator *)
(* reads the refusal, does what it says and runs Setup again.              *)
(***************************************************************************)
EXTENDS Naturals

CONSTANTS
  Setups,     \* the Setups that may run at once; each may be run again
  MaxFaults,  \* bound: probes, tools and steps that fail, and kills
  MaxMoves    \* bound: what an administrator does of his own accord

ASSUME SetupAssumption ==
  {"orphan", "nobody"} \cap Setups = {} /\ MaxFaults \in Nat /\ MaxMoves \in Nat

\* "" is an empty field. "quoted" breaks the rules of the EDB command line.
SuperFields == {"", "chosen", "quoted"}
WriterFields == {"", "chosen", "notAscii"}

SuperPasswordOrConvention(field) == IF field = "" THEN "postgres" ELSE field
WriterPasswordOrConvention(field) == IF field = "" THEN "scada_writer" ELSE field

VARIABLES
  \* the machine: the service and the data folder of PostgreSQL 17
  service, startup,
  data,        \* "leftover": not empty, and no cluster
  files,       \* is the uninstaller in the prefix
  removal,     \* what the uninstaller's running copy removes next
  stranger,    \* does a program no service runs hold port 5432
  obstacle,    \* what else makes the engine run answer anything but found or fresh
  superuser, writer, plot,  \* the passwords in the cluster; "noRole": its superuser is not postgres
  heir,        \* was the cluster there before the first Setup
  \* one Setup
  pc, detected, fresh,
  super, writerField,       \* the password page; without a writer field, the caller's variable
  refusal,
  listed,      \* could IsNonEmptyDirectory list the data folder
  edb,         \* the EDB installer a Setup started, and one whose Setup was killed
  company,     \* has anyone else touched the machine since PrepareToInstall's engine run
  faults, moves

database == <<superuser, writer, plot, heir>>
machine == <<service, startup, data, files, removal, stranger, obstacle, database>>
wizard == <<detected, super, writerField>>
vars == <<machine, wizard, pc, fresh, refusal, listed, edb, company, faults, moves>>

Resting == {"off", "finished", "refused", "cancelled", "killed"}
Places == Resting \cup
  {"wizard", "prepare", "uninstaller", "detect", "port", "folder", "install", "edb", "again",
   "config", "start", "connect", "create", "check"}
Obstacles == {"ambiguous", "unreadable", "portMismatch", "otherMajor"}
\* "unplaced": a cluster that is a problem to describe, since the service has no -D or
\* PG_VERSION cannot be read
InTheFolder == {"unreadable", "portMismatch", "unplaced"}  \* of the old server's
States == Obstacles \cup {"incomplete", "found", "fresh"}
Answers == States \cup {"failed", "execError"}

\* The refusals whose text tells the operator to do something but run Setup again.
ToldToAct == {"IncompleteInstallation", "EdbFailed", "IncompleteInstallationNoUninstaller",
              "DataDirectoryNotEmpty", "PortBusy", "UninstallerRunning", "SitePasswordWrong",
              "ServiceStartFailed", "SuperPasswordRules", "WriterPasswordNotAscii"}
                \cup Obstacles
Refusals == ToldToAct \cup {"CopyToolFailed", "EngineFailed", "ProbeFailed", "EdbNotStarted",
                            "SiteNotStarted", "ServiceConfigFailed", "SiteFailed"}

Installers == Setups \cup {"orphan"}
EdbSteps == {"idle", "unpacking", "initdb", "service", "succeeded", "failed"}
NoEdb == [step |-> "idle", superpassword |-> "none"]

Passwords == {"none", "noRole", "postgres", "scada_writer", "semiplot", "other"} \cup SuperFields \cup WriterFields

MachineOK ==
  /\ service \in {"none", "stopped", "running"} /\ startup \in {"auto", "disabled"}
  /\ data \in {"empty", "leftover", "cluster"} /\ files \in {"no", "yes"}
  /\ removal \in {"none", "service", "files"}
  /\ stranger \in {"no", "yes"} /\ obstacle \in {"none", "unplaced"} \cup Obstacles
  /\ superuser \in Passwords /\ writer \in Passwords /\ plot \in Passwords
  /\ heir \in {"no", "yes"}
SetupsOK ==
  /\ pc \in [Setups -> Places]
  /\ detected \in [Setups -> Answers]
  /\ fresh \in [Setups -> {"no", "yes"}] /\ listed \in [Setups -> {"no", "yes"}]
  /\ super \in [Setups -> SuperFields] /\ writerField \in [Setups -> WriterFields]
  /\ refusal \in [Setups -> {"none"} \cup Refusals]
  /\ company \in [Setups -> {"no", "yes"}]
EdbOK == edb \in [Installers -> [step : EdbSteps, superpassword : Passwords]]
NumbersOK == faults \in 0..MaxFaults /\ moves \in 0..MaxMoves

TypeOK == MachineOK /\ SetupsOK /\ EdbOK /\ NumbersOK

\* The machine before the first Setup.
Init ==
  /\ \/ service = "none" /\ data = "empty" /\ files = "no"
     \/ service = "none" /\ data \in {"leftover", "cluster"} /\ files = "no"
     \/ service = "stopped" /\ data \in {"empty", "leftover"} /\ files \in {"no", "yes"}
     \/ service \in {"stopped", "running"} /\ data = "cluster" /\ files \in {"no", "yes"}
  /\ startup \in (IF service = "none" THEN {"auto"} ELSE {"auto", "disabled"})
  /\ removal = "none" /\ stranger \in (IF service = "running" THEN {"no"} ELSE {"no", "yes"})
  /\ obstacle \in {"none", "otherMajor"} \cup
       (IF service = "none" \/ data # "cluster" THEN {} ELSE Obstacles \cup {"unplaced"})
  /\ heir = (IF data = "cluster" THEN "yes" ELSE "no")
  /\ superuser \in (IF data = "cluster" THEN {"postgres", "chosen", "noRole"} ELSE {"none"})
  /\ writer \in (IF data = "cluster" THEN {"none", "other"} ELSE {"none"})
  /\ plot = (IF writer = "none" THEN "none" ELSE "semiplot")
  /\ pc = [s \in Setups |-> "off"] /\ detected = [s \in Setups |-> "failed"]
  /\ fresh = [s \in Setups |-> "no"] /\ listed = [s \in Setups |-> "yes"]
  /\ super = [s \in Setups |-> ""] /\ writerField = [s \in Setups |-> ""]
  /\ refusal = [s \in Setups |-> "none"] /\ edb = [e \in Installers |-> NoEdb]
  /\ company = [s \in Setups |-> "no"] /\ faults = 0 /\ moves = 0

-----------------------------------------------------------------------------
(* The machine as semibase engine sees it (Classify, module Engine). *)

EngineState ==
  IF obstacle = "ambiguous" THEN "ambiguous"
  ELSE IF service = "none" THEN IF obstacle = "otherMajor" THEN "otherMajor" ELSE "fresh"
  ELSE IF data # "cluster" \/ obstacle = "unplaced" THEN "incomplete"
  ELSE IF obstacle = "unreadable" THEN "unreadable"
  ELSE IF obstacle = "portMismatch" /\ service = "running" THEN "portMismatch"
  ELSE "found"

Fault == faults < MaxFaults /\ faults' = faults + 1
NoFault == UNCHANGED faults

\* Two outcomes are no state: a run that exits non-zero, and ExecError, one that does not start.
DetectEngine(answer) ==
  \/ answer = EngineState /\ NoFault
  \/ answer \in {"failed", "execError"} /\ Fault

\* Someone but s acts on the machine (s: a Setup, or "nobody" among them).
Seen(s) == company' = [t \in Setups |-> IF t = s THEN company[t] ELSE "yes"]

-----------------------------------------------------------------------------
(* One Setup. *)

At(s, place) == pc[s] = place
Go(s, place) == pc' = [pc EXCEPT ![s] = place] /\ UNCHANGED refusal
Refuse(s, why) == pc' = [pc EXCEPT ![s] = "refused"] /\ refusal' = [refusal EXCEPT ![s] = why]

Looks == UNCHANGED <<machine, wizard, listed, edb, moves>>

\* InitializeSetup: returns True whatever the engine run found. The page is prefilled from
\* the environment, and the operator edits it.
Launch(s) ==
  /\ pc[s] \in Resting
  /\ \E answer \in Answers :
       DetectEngine(answer) /\ detected' = [detected EXCEPT ![s] = answer]
  /\ \E field \in SuperFields : super' = [super EXCEPT ![s] = field]
  /\ \E field \in WriterFields : writerField' = [writerField EXCEPT ![s] = field]
  /\ pc' = [pc EXCEPT ![s] = "wizard"] /\ refusal' = [refusal EXCEPT ![s] = "none"]
  /\ fresh' = [fresh EXCEPT ![s] = "no"] /\ listed' = [listed EXCEPT ![s] = "yes"]
  /\ company' = [company EXCEPT ![s] = "no"] /\ UNCHANGED <<machine, edb, moves>>

\* The pages only let the operator correct a field; PrepareToInstall enforces every rule.
ClickInstall(s) ==
  /\ At(s, "wizard") /\ Go(s, "prepare") /\ NoFault /\ Looks /\ UNCHANGED <<fresh, company>>

ClickCancel(s) ==
  /\ At(s, "wizard") /\ Go(s, "cancelled") /\ NoFault /\ Looks /\ UNCHANGED <<fresh, company>>

\* KeepToolRefusal, then WriterPasswordRefusal
KeepTool(s) ==
  /\ At(s, "prepare") /\ Looks /\ UNCHANGED <<fresh, company>>
  /\ \/ Fault /\ Refuse(s, "CopyToolFailed")
     \/ NoFault /\ writerField[s] = "notAscii" /\ Refuse(s, "WriterPasswordNotAscii")
     \/ NoFault /\ writerField[s] # "notAscii" /\ Go(s, "uninstaller")

\* UninstallerRefusal: a failed probe does not refuse.
ProbeUninstaller(s) ==
  /\ At(s, "uninstaller") /\ Looks /\ UNCHANGED <<fresh, company>>
  /\ \/ Fault /\ Go(s, "detect")
     \/ NoFault /\ removal # "none" /\ Refuse(s, "UninstallerRunning")
     \/ NoFault /\ removal = "none" /\ Go(s, "detect")

\* mutant: a service whose settings cannot be read counts as incomplete
EngineStateRefusalBroad(answer) ==
  IF answer \in {"incomplete", "unreadable"}
    THEN IF files = "yes" THEN "IncompleteInstallation" ELSE "IncompleteInstallationNoUninstaller"
  ELSE IF answer = "failed" THEN "EngineFailed"
  ELSE IF answer = "execError" THEN "SiteNotStarted"
  ELSE answer

EngineStateRefusal(answer) ==
  IF answer = "incomplete"
    THEN IF files = "yes" THEN "IncompleteInstallation" ELSE "IncompleteInstallationNoUninstaller"
  ELSE IF answer = "failed" THEN "EngineFailed"
  ELSE IF answer = "execError" THEN "SiteNotStarted"
  ELSE answer

\* mutant: acts on the answer of InitializeSetup
DetectStale(s) ==
  /\ At(s, "detect") /\ Looks /\ NoFault
  /\ fresh' = [fresh EXCEPT ![s] = IF detected[s] = "fresh" THEN "yes" ELSE "no"]
  /\ IF detected[s] = "found" THEN Go(s, "config")
     ELSE IF detected[s] = "fresh"
       THEN IF super[s] = "quoted" THEN Refuse(s, "SuperPasswordRules") ELSE Go(s, "port")
     ELSE Refuse(s, EngineStateRefusal(detected[s]))
  /\ company' = [company EXCEPT ![s] = "no"]

\* mutant: ProvisionedFresh is what the wizard's engine run found
DetectKeepsFresh(s) ==
  /\ At(s, "detect") /\ Looks
  /\ \E answer \in Answers :
       /\ DetectEngine(answer)
       /\ fresh' = [fresh EXCEPT ![s] = IF detected[s] = "fresh" THEN "yes" ELSE "no"]
       /\ IF answer = "found" THEN Go(s, "config")
          ELSE IF answer = "fresh"
            THEN IF super[s] = "quoted" THEN Refuse(s, "SuperPasswordRules") ELSE Go(s, "port")
          ELSE Refuse(s, EngineStateRefusal(answer))
  /\ company' = [company EXCEPT ![s] = "no"]

\* PrepareToInstall's own engine run, and the part of EngineRefusal that needs no probe.
Detect(s) ==
  /\ At(s, "detect") /\ Looks
  /\ \E answer \in Answers :
       /\ DetectEngine(answer)
       /\ fresh' = [fresh EXCEPT ![s] = IF answer = "fresh" THEN "yes" ELSE "no"]
       /\ IF answer = "found" THEN Go(s, "config")
          ELSE IF answer = "fresh"
            THEN IF super[s] = "quoted" THEN Refuse(s, "SuperPasswordRules") ELSE Go(s, "port")
          ELSE Refuse(s, EngineStateRefusal(answer))
  /\ company' = [company EXCEPT ![s] = "no"]

\* FreshMachineRefusal
ProbePort(s) ==
  /\ At(s, "port") /\ Looks /\ UNCHANGED <<fresh, company>>
  /\ LET accepts == stranger = "yes" \/ service = "running"
     IN  \/ Fault /\ Refuse(s, "ProbeFailed")
         \/ NoFault /\ accepts /\ Refuse(s, "PortBusy")
         \/ NoFault /\ ~accepts /\ Go(s, "folder")

\* IsNonEmptyDirectory: a folder FindFirst cannot list counts as empty.
ProbeFolder(s) ==
  /\ At(s, "folder") /\ UNCHANGED <<machine, wizard, edb, moves, fresh, company>>
  /\ \/ NoFault /\ data # "empty" /\ Refuse(s, "DataDirectoryNotEmpty") /\ UNCHANGED listed
     \/ NoFault /\ data = "empty" /\ Go(s, "install") /\ UNCHANGED listed
     \/ Fault /\ Go(s, "install") /\ listed' = [listed EXCEPT ![s] = "no"]

\* mutant: the field as it is
OptionFileRaw(s) == [step |-> "unpacking", superpassword |-> super[s]]

\* EDB runs before semibase, so Setup resolves the convention itself.
OptionFile(s) ==
  [step |-> "unpacking", superpassword |-> SuperPasswordOrConvention(super[s])]

\* InstallEngineRefusal up to the start of the installer
StartEdb(s) ==
  /\ At(s, "install") /\ UNCHANGED <<machine, wizard, moves, fresh, listed, company>>
  /\ \/ Fault /\ Refuse(s, "EdbNotStarted") /\ UNCHANGED edb
     \/ NoFault /\ Go(s, "edb") /\ edb' = [edb EXCEPT ![s] = OptionFile(s)]

EdbReturns(s) ==
  /\ At(s, "edb") /\ edb[s].step \in {"succeeded", "failed"}
  /\ edb' = [edb EXCEPT ![s] = NoEdb]
  /\ IF edb[s].step = "failed" THEN Refuse(s, "EdbFailed") ELSE Go(s, "again")
  /\ UNCHANGED <<machine, wizard, moves, fresh, listed, company, faults>>

\* The third engine run, for the service the install created.
DetectAgain(s) ==
  /\ At(s, "again") /\ Looks /\ UNCHANGED <<fresh, company>>
  /\ \E answer \in Answers :
       /\ DetectEngine(answer)
       /\ IF answer = "found" THEN Go(s, "config")
          ELSE Refuse(s, IF answer = "execError" THEN "SiteNotStarted" ELSE "EdbFailed")

\* mutant: the startup type Manual
ConfigServiceManual(s) ==
  /\ At(s, "config") /\ UNCHANGED <<fresh, wizard, listed, edb, moves>>
  /\ UNCHANGED <<service, data, files, removal, stranger, obstacle, database>>
  /\ \/ NoFault /\ service # "none" /\ startup' = "demand" /\ Go(s, "start") /\ Seen(s)
     \/ /\ Fault \/ (NoFault /\ service = "none")
        /\ Refuse(s, "ServiceConfigFailed") /\ UNCHANGED <<startup, company>>

\* mutant: a service that runs already is a failed start
StartServiceOnce(s) ==
  /\ At(s, "start") /\ UNCHANGED <<fresh, wizard, listed, edb, moves>>
  /\ UNCHANGED <<startup, data, files, removal, stranger, obstacle, database>>
  /\ LET starts == service = "stopped" /\ startup = "auto" /\ data = "cluster" /\ stranger = "no"
     IN  \/ NoFault /\ starts /\ service' = "running" /\ Go(s, "connect") /\ Seen(s)
         \/ /\ Fault \/ (NoFault /\ ~starts)
            /\ Refuse(s, "ServiceStartFailed") /\ UNCHANGED <<service, company>>

\* StartServiceRefusal: sc.exe config, then sc.exe start
ConfigService(s) ==
  /\ At(s, "config") /\ UNCHANGED <<fresh, wizard, listed, edb, moves>>
  /\ UNCHANGED <<service, data, files, removal, stranger, obstacle, database>>
  /\ \/ NoFault /\ service # "none" /\ startup' = "auto" /\ Go(s, "start") /\ Seen(s)
     \/ /\ Fault \/ (NoFault /\ service = "none")
        /\ Refuse(s, "ServiceConfigFailed") /\ UNCHANGED <<startup, company>>

StartService(s) ==
  /\ At(s, "start") /\ UNCHANGED <<fresh, wizard, listed, edb, moves>>
  /\ UNCHANGED <<startup, data, files, removal, stranger, obstacle, database>>
  /\ LET starts == service = "running" \/ (service = "stopped" /\ startup = "auto"
                                            /\ data = "cluster" /\ stranger = "no")
     IN  \/ NoFault /\ starts /\ service' = "running" /\ Go(s, "connect") /\ Seen(s)
         \/ /\ Fault \/ (NoFault /\ ~starts)
            /\ Refuse(s, "ServiceStartFailed") /\ UNCHANGED <<service, company>>

\* SiteRefusal: a line with SQLSTATE 28P01 is read as the superuser's password refused.
Serves == service = "running" /\ data = "cluster"
SiteRefusal(s, rejected) == Refuse(s, IF rejected THEN "SitePasswordWrong" ELSE "SiteFailed")

\* site logs in as the role postgres, whatever the server's superuser is called.
LogsIn(s) == superuser = SuperPasswordOrConvention(super[s])

\* The start of semibase, its login and the settings with the restart, which may leave the
\* service stopped (module ServiceRestart).
SiteConnects(s) ==
  /\ At(s, "connect") /\ UNCHANGED <<fresh, wizard, listed, edb, moves>>
  /\ UNCHANGED <<startup, data, files, removal, stranger, obstacle, database>>
  /\ \/ NoFault /\ Serves /\ LogsIn(s) /\ Go(s, "create") /\ UNCHANGED <<service, company>>
     \/ NoFault /\ Serves /\ ~LogsIn(s) /\ SiteRefusal(s, TRUE) /\ UNCHANGED <<service, company>>
     \/ NoFault /\ ~Serves /\ SiteRefusal(s, FALSE) /\ UNCHANGED <<service, company>>
     \/ Fault /\ Refuse(s, "SiteNotStarted") /\ UNCHANGED <<service, company>>
     \/ Fault /\ SiteRefusal(s, FALSE) /\ UNCHANGED <<service, company>>
     \/ Fault /\ Serves /\ LogsIn(s) /\ SiteRefusal(s, FALSE) /\ service' = "stopped" /\ Seen(s)

\* The create phase (module Provision): an existing writer keeps its password, and a run that
\* is cut off leaves what it has made.
SiteCreates(s) ==
  /\ At(s, "create") /\ UNCHANGED <<fresh, wizard, listed, edb, moves>>
  /\ UNCHANGED <<service, startup, data, files, removal, stranger, obstacle, superuser, heir>>
  /\ LET made == IF writer = "none" THEN WriterPasswordOrConvention(writerField[s]) ELSE writer
     IN  \/ /\ NoFault /\ Serves /\ Go(s, "check") /\ Seen(s)
            /\ writer' = made /\ plot' = "semiplot"
         \/ NoFault /\ ~Serves /\ SiteRefusal(s, FALSE) /\ UNCHANGED <<writer, plot, company>>
         \/ /\ Fault /\ SiteRefusal(s, FALSE) /\ Seen(s)
            /\ writer' \in {writer, made}
            /\ plot' \in (IF writer' = made THEN {plot, "semiplot"} ELSE {plot})

\* The check phase logs in as semiplot (module CheckSession).
SiteChecks(s) ==
  /\ At(s, "check") /\ Looks /\ UNCHANGED <<fresh, company>>
  /\ \/ NoFault /\ Serves /\ plot = "semiplot" /\ Go(s, "finished")
     \/ NoFault /\ Serves /\ plot # "semiplot" /\ SiteRefusal(s, TRUE)
     \/ (Fault \/ (NoFault /\ ~Serves)) /\ SiteRefusal(s, FALSE)

PrepareToInstall(s) ==
  \/ KeepTool(s) \/ ProbeUninstaller(s) \/ Detect(s) \/ ProbePort(s) \/ ProbeFolder(s)
  \/ StartEdb(s) \/ EdbReturns(s) \/ DetectAgain(s) \/ ConfigService(s) \/ StartService(s)
  \/ SiteConnects(s) \/ SiteCreates(s) \/ SiteChecks(s)

\* The EDB installer a killed Setup had started works on.
Kill(s) ==
  /\ pc[s] \notin Resting /\ Fault /\ Go(s, "killed")
  /\ edb["orphan"] = NoEdb \/ edb[s] = NoEdb
  /\ edb' = IF edb[s] = NoEdb THEN edb ELSE [edb EXCEPT ![s] = NoEdb, !["orphan"] = edb[s]]
  /\ UNCHANGED <<machine, wizard, moves, fresh, listed, company>>

-----------------------------------------------------------------------------
(* The EDB installer and the EDB uninstaller (docs/architecture/installer.md). *)

EdbStep(e, here, next) == edb[e].step = here /\ edb' = [edb EXCEPT ![e].step = next]
Outside == UNCHANGED <<wizard, pc, fresh, refusal, listed, moves>>

EdbUnpacks(e) ==
  /\ EdbStep(e, "unpacking", "initdb") /\ files' = "yes" /\ NoFault /\ Seen(e) /\ Outside
  /\ UNCHANGED <<service, startup, data, removal, stranger, obstacle, database>>

\* initdb refuses a folder that is not empty.
EdbInitdb(e) ==
  /\ EdbStep(e, "initdb", "service") /\ data = "empty"
  /\ data' = "cluster" /\ superuser' = edb[e].superpassword
  /\ writer' = "none" /\ plot' = "none" /\ heir' = "no"
  /\ NoFault /\ Seen(e) /\ Outside
  /\ UNCHANGED <<service, startup, files, removal, stranger, obstacle>>

EdbRegisters(e) ==
  /\ EdbStep(e, "service", "succeeded") /\ service = "none" /\ stranger = "no" /\ data = "cluster"
  /\ service' = "running" /\ startup' = "auto" /\ NoFault /\ Seen(e) /\ Outside
  /\ UNCHANGED <<data, files, removal, stranger, obstacle, database>>

\* A failure leaves what is installed so far, the service stopped or none.
EdbFails(e) ==
  /\ \E here \in {"unpacking", "initdb", "service"} : EdbStep(e, here, "failed")
  /\ \/ Fault
     \/ NoFault /\ edb[e].step = "initdb" /\ data # "empty"
     \/ /\ NoFault /\ edb[e].step = "service"
        /\ service # "none" \/ stranger = "yes" \/ data # "cluster"
  /\ service' \in (IF edb[e].step # "unpacking" /\ service = "none" THEN {"none", "stopped"}
                                                                  ELSE {service})
  /\ Seen(e) /\ Outside
  /\ UNCHANGED <<startup, data, files, removal, stranger, obstacle, database>>

\* No Setup waits for it.
EdbOrphanEnds ==
  /\ edb["orphan"].step \in {"succeeded", "failed"}
  /\ edb' = [edb EXCEPT !["orphan"] = NoEdb]
  /\ UNCHANGED <<machine, company, faults>> /\ Outside

Edb(e) == EdbUnpacks(e) \/ EdbInitdb(e) \/ EdbRegisters(e) \/ EdbFails(e)

\* What stands in the way once the service is gone: a missing -D goes with it.
WithoutService == IF obstacle = "unplaced" THEN {"unplaced", "none"} ELSE {obstacle}

\* The uninstaller's copy removes the service, a running one included, then the files; the
\* data folder stays.
RemovalGoesOn ==
  /\ removal # "none"
  /\ IF removal = "service"
       THEN /\ removal' = "files" /\ service' = "none" /\ obstacle' \in WithoutService
            /\ UNCHANGED files
       ELSE removal' = "none" /\ files' = "no" /\ UNCHANGED <<service, obstacle>>
  /\ UNCHANGED <<startup, data, stranger, database, edb, faults>>
  /\ Seen("nobody") /\ Outside

-----------------------------------------------------------------------------
(* The operator and the administrator. *)

StartRemoval == removal' = (IF files = "yes" THEN "service" ELSE removal)

\* Does what the refusal says; the passwords are seen to at the next Launch.
FollowAdvice(s) ==
  /\ pc[s] = "refused" /\ refusal[s] \in ToldToAct
  /\ refusal[s] \in {"UninstallerRunning", "IncompleteInstallation", "EdbFailed"} => removal = "none"
  /\ refusal' = [refusal EXCEPT ![s] = "none"]
  /\ IF refusal[s] \in {"IncompleteInstallation", "EdbFailed"} THEN StartRemoval
                                                              ELSE UNCHANGED removal
  /\ service' = (IF refusal[s] = "IncompleteInstallationNoUninstaller" THEN "none" ELSE service)
  /\ IF refusal[s] = "DataDirectoryNotEmpty"
       THEN data' = "empty" /\ superuser' = "none" /\ writer' = "none" /\ plot' = "none" /\ heir' = "no"
       ELSE UNCHANGED <<data, database>>
  /\ stranger' = (IF refusal[s] \in {"PortBusy", "ServiceStartFailed"} THEN "no" ELSE stranger)
  /\ obstacle' \in (IF \/ refusal[s] \in Obstacles
                       \/ refusal[s] = "DataDirectoryNotEmpty" /\ obstacle \in InTheFolder
                      THEN {"none"}
                    ELSE IF refusal[s] = "IncompleteInstallationNoUninstaller" THEN WithoutService
                    ELSE {obstacle})
  /\ Seen(s) /\ UNCHANGED <<startup, files, wizard, pc, fresh, listed, edb, faults, moves>>

Move == moves < MaxMoves /\ moves' = moves + 1
        /\ UNCHANGED <<wizard, pc, fresh, refusal, listed, edb, faults>> /\ Seen("nobody")

\* semibase site run by hand, with passwords of its own.
ManualRun ==
  /\ Move /\ Serves /\ plot' \in {"semiplot", "other"}
  /\ writer' = (IF writer = "none" THEN "other" ELSE writer)
  /\ UNCHANGED <<service, startup, data, files, removal, stranger, obstacle, superuser, heir>>

ServerStops ==
  /\ Move /\ service = "running" /\ service' = "stopped"
  /\ UNCHANGED <<startup, data, files, removal, stranger, obstacle, database>>

Uninstall ==
  /\ Move /\ removal = "none" /\ files = "yes" /\ StartRemoval
  /\ UNCHANGED <<service, startup, data, files, stranger, obstacle, database>>

StrangerComes ==
  /\ Move /\ service # "running" /\ stranger = "no" /\ stranger' = "yes"
  /\ UNCHANGED <<service, startup, data, files, removal, obstacle, database>>

Next ==
  \/ \E s \in Setups : \/ Launch(s) \/ ClickInstall(s) \/ ClickCancel(s) \/ PrepareToInstall(s)
                       \/ Kill(s) \/ FollowAdvice(s)
  \/ (\E e \in Installers : Edb(e)) \/ EdbOrphanEnds
  \/ RemovalGoesOn \/ ManualRun \/ ServerStops \/ Uninstall \/ StrangerComes

Spec == Init /\ [][Next]_vars

-----------------------------------------------------------------------------
(* Fairness: a program goes on. The operator starts as he likes; refused, he does what  *)
(* the text says, and runs Setup again with the passwords it asks for.                  *)

Fitting(s) ==
  /\ super[s] # "quoted" /\ writerField[s] # "notAscii"
  /\ data = "cluster" => LogsIn(s) \/ superuser = "noRole"

Diligent ==
  \A s \in Setups : pc[s] \in Resting \ {"off"} /\ pc'[s] = "wizard" =>
    refusal[s] \notin ToldToAct /\ Fitting(s)'

\* Cleared, an obstacle leaves a machine that is a start of its own: each meets one server.
FairInit ==
  Init /\ (obstacle = "none" \/ (startup = "auto" /\ superuser # "chosen" /\ writer = "none"))

FairSpec ==
  /\ FairInit /\ [][Next /\ Diligent]_vars
  /\ WF_vars(RemovalGoesOn) /\ WF_vars(EdbOrphanEnds)
  /\ \A e \in Installers : WF_vars(Edb(e))
  /\ \A s \in Setups : /\ WF_vars(Launch(s) /\ Diligent) /\ SF_vars(ClickInstall(s))
                       /\ WF_vars(PrepareToInstall(s)) /\ WF_vars(FollowAdvice(s))

-----------------------------------------------------------------------------
(* Safety. What a Setup tells is about the machine PrepareToInstall's engine run found:  *)
(* "company" excuses it when someone else has touched the machine since.                 *)

Alone(s) == company[s] = "no"

\* The PostgreSQL installer runs on a machine with no service of 17, a free port and a data
\* folder that is empty or that could not be listed, however the machine changed between the
\* wizard's engine run and Install (FreshMachineRefusal, IsNonEmptyDirectory).
InstallsOnABareMachine ==
  \A s \in Setups : edb[s].step = "unpacking" /\ Alone(s) =>
    service = "none" /\ stranger = "no" /\ (data = "empty" \/ listed[s] = "no")

\* installer.md, the fresh row: Setup refuses when the data folder is not empty, "since
\* existing data is never overwritten". IsNonEmptyDirectory answers False, and Setup goes on,
\* where the folder cannot be listed.
ExistingDataIsRefused ==
  \A s \in Setups : edb[s].step = "unpacking" /\ Alone(s) => data = "empty"

\* What the Finished page tells the SCADA to connect with is so: the server runs and starts
\* by itself, semiplot has its password, and the writer's password, shown after a fresh
\* install, is the one in the cluster (CurPageChanged, ProvisionedFresh).
FinishedPageIsTrue ==
  \A s \in Setups : pc[s] = "finished" /\ Alone(s) =>
    /\ Serves /\ startup = "auto" /\ plot = "semiplot"
    /\ fresh[s] = "yes" => writer = WriterPasswordOrConvention(writerField[s])

\* Setup calls the administrator's password wrong only where the role postgres cannot log in
\* with it, because it has another or because the server has no such role (installer.md), and
\* never in a cluster it has just made with that password: what else fails a login in the
\* same run is not taken for it (SiteRefusal, AppendSiteLine, conventionalSuperPassword).
PasswordRefusalIsTrue ==
  \A s \in Setups : refusal[s] = "SitePasswordWrong" /\ Alone(s) =>
    ~LogsIn(s) /\ fresh[s] = "no"

\* A refusal tells the operator to remove PostgreSQL, to delete its service or its folder,
\* while a service stands on an archive that was there before, only where the engine cannot
\* place that archive (installer.md, the incomplete row) or Setup could not list its folder:
\* a service it cannot read "never sends the reader to an uninstaller".
AdviceSparesTheArchive ==
  \A s \in Setups :
    /\ Alone(s) /\ heir = "yes" /\ service # "none"
    /\ refusal[s] \in {"IncompleteInstallation", "IncompleteInstallationNoUninstaller",
                       "EdbFailed", "DataDirectoryNotEmpty"}
    => obstacle = "unplaced" \/ listed[s] = "no"

\* An operator who does what he is told gets a configured server: no chain of refusals goes
\* round in a circle, whatever the machine was like and whatever was killed or failed. It does
\* on a server whose superuser is not postgres: no password helps there.
EventuallyConfigured == \A s \in Setups : [](superuser = "noRole") \/ <>(pc[s] = "finished")
=============================================================================
