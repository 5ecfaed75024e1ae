-------------------------------- MODULE Engine --------------------------------
(***************************************************************************)
(* `semibase engine` (internal/engine): Detect lists the Windows services, *)
(* reads each one and its data folder, and Classify names one of seven     *)
(* states the setup acts on. Nothing stops the machine while it is read:   *)
(* services start, stop, come and go, and an administrator edits the       *)
(* configuration between any two reads.                                    *)
(***************************************************************************)
EXTENDS Naturals, FiniteSets

CONSTANTS
  Service,      \* names a service may have
  PostgresName, \* those that start with "postgresql", in any letter case
  Machines,     \* machines to begin with: functions from Service to Entry
  Ports,        \* port numbers
  OptionPort,   \* the port a -o option sets
  Expected,     \* --expected-major
  Other,        \* another major version
  MaxMoves      \* bound of the model: steps of the machine in one behaviour

ASSUME ServiceAssumption == IsFiniteSet(Service) /\ PostgresName \subseteq Service
ASSUME NumbersAssumption ==
  /\ Ports \subseteq Nat \ {0} /\ OptionPort \in Ports
  /\ {Expected, Other} \subseteq Nat \ {0} /\ Expected # Other
  /\ MaxMoves \in Nat

\* A service, its data folder and the server it runs. conf is what configuredPort
\* returns for the folder (ConfReader), 0 for an error; pid is the port in
\* postmaster.pid, 0 without one; major is 0 without a readable PG_VERSION. query is
\* what the service manager answers: all, all but the state, or nothing.
Entry == [there : {"yes", "no"}, query : {"works", "noStatus", "fails"},
          command : {"notPgctl", "noData", "plain", "port", "badPort"},
          major : {0, Expected, Other}, conf : Ports \cup {0},
          running : {"yes", "no"}, pid : Ports \cup {0}]

ASSUME MachinesAssumption == Machines \subseteq [Service -> Entry]

VARIABLES
  m,        \* the machine
  moved,    \* history: what has happened to each service during the detection
  moves,    \* steps of the machine so far
  todo,     \* listed services not yet read
  step,     \* what Detect does next
  reading,  \* describe's Service so far, of the service being read
  read,     \* collectServices' result
  verdict   \* Classify's result

vars == <<m, moved, moves, todo, step, reading, read, verdict>>
detection == <<todo, step, reading, read, verdict>>

Moves == {"starts", "stops", "edits", "registers", "deletes", "initdb"}
States == {"ambiguous", "incomplete", "unreadable", "portMismatch", "found",
           "otherMajor", "fresh"}

\* problem and unreadable are set or empty; port and listening are 0 when unknown.
Blank(s) == [name |-> s, major |-> 0, running |-> "no", port |-> 0, listening |-> 0,
             problem |-> "no", unreadable |-> "no"]
Described == [name : Service, major : {0, Expected, Other}, running : {"yes", "no"},
              port : Ports \cup {0}, listening : Ports \cup {0},
              problem : {"yes", "no"}, unreadable : {"yes", "no"}]
NoVerdict == [state |-> "none"]

MachineOK ==
  /\ m \in [Service -> Entry] /\ moved \in [Service -> SUBSET Moves] /\ moves \in 0..MaxMoves
DetectionOK ==
  /\ todo \subseteq Service
  /\ step \in {"list", "config", "state", "major", "port", "listening", "done", "failed"}
  /\ reading \in Described /\ read \subseteq Described
VerdictOK ==
  verdict # NoVerdict =>
    /\ verdict.state \in States
    /\ verdict.state \in {"incomplete", "unreadable", "portMismatch", "found"} =>
         verdict.service \in read
    /\ verdict.state \in {"portMismatch", "found"} => verdict.service.port \in Ports
TypeOK == MachineOK /\ DetectionOK /\ VerdictOK

Init ==
  /\ m \in Machines
  /\ moved = [s \in Service |-> {}] /\ moves = 0
  /\ todo = {} /\ step = "list" /\ read = {} /\ verdict = NoVerdict
  /\ reading \in {Blank(s) : s \in Service}

-----------------------------------------------------------------------------
(* Detect. *)

\* OpenSCManager and ListServices; where one of them fails, Detect returns its error.
List ==
  /\ step = "list"
  /\ \/ todo' = {s \in Service : m[s].there = "yes"} /\ step' = "config"
     \/ step' = "failed" /\ UNCHANGED todo
  /\ UNCHANGED <<m, moved, moves, reading, read, verdict>>

Current == reading.name
Keep(service) == read' = read \cup {service} /\ step' = "config"

Openable(name) == m[name].there = "yes" /\ m[name].query # "fails"

\* A service that cannot be queried is a candidate under a postgresql name, and
\* skipped under another.
Unqueried(name) ==
  /\ step' = "config"
  /\ read' = IF name \in PostgresName
               THEN read \cup {[Blank(name) EXCEPT !.unreadable = "yes"]} ELSE read

\* readService: the command line, parsePgCtlCommand
ReadConfig ==
  /\ step = "config"
  /\ \E name \in todo :
       /\ todo' = todo \ {name}
       /\ reading' = Blank(name)
       /\ \/ ~Openable(name) /\ Unqueried(name)
          \/ /\ Openable(name) /\ m[name].command = "notPgctl"
             /\ UNCHANGED <<step, read>>
          \/ /\ Openable(name) /\ m[name].command # "notPgctl"
             /\ step' = "state" /\ UNCHANGED read
  /\ UNCHANGED <<m, moved, moves, verdict>>

\* opened.Query; start pending and stop pending count as stopped. The open
\* handle answers for a service that was deleted meanwhile.
ReadState ==
  /\ step = "state"
  /\ IF m[Current].query = "works"
       THEN /\ reading' = [reading EXCEPT !.running = m[Current].running]
            /\ step' = "major" /\ UNCHANGED read
       ELSE Unqueried(Current) /\ UNCHANGED reading
  /\ UNCHANGED <<m, moved, moves, todo, verdict>>

\* describe: -D and PG_VERSION
ReadMajor ==
  /\ step = "major"
  /\ IF m[Current].command = "noData" \/ m[Current].major = 0
       THEN Keep([reading EXCEPT !.problem = "yes"]) /\ UNCHANGED reading
       ELSE /\ reading' = [reading EXCEPT !.major = m[Current].major]
            /\ step' = "port" /\ UNCHANGED read
  /\ UNCHANGED <<m, moved, moves, todo, verdict>>

Configured(name) ==
  IF m[name].command = "port" THEN OptionPort
  ELSE IF m[name].command = "badPort" THEN 0 ELSE m[name].conf

\* describe: the -o port, else configuredPort
ReadPort ==
  /\ step = "port"
  /\ IF Configured(Current) = 0
       THEN Keep([reading EXCEPT !.unreadable = "yes"]) /\ UNCHANGED reading
       ELSE /\ reading' = [reading EXCEPT !.port = Configured(Current)]
            /\ step' = "listening" /\ UNCHANGED read
  /\ UNCHANGED <<m, moved, moves, todo, verdict>>

\* mutant: postmaster.pid is read of a stopped service as well
ReadListeningAlways ==
  /\ step = "listening"
  /\ Keep([reading EXCEPT !.listening = m[Current].pid,
                          !.unreadable = IF m[Current].pid = 0 THEN "yes" ELSE "no"])
  /\ UNCHANGED <<m, moved, moves, todo, reading, verdict>>

\* listeningPort, of a service that was running when it was queried
ReadListening ==
  /\ step = "listening"
  /\ IF reading.running = "no" THEN Keep(reading)
       ELSE Keep([reading EXCEPT !.listening = m[Current].pid,
                                 !.unreadable = IF m[Current].pid = 0 THEN "yes" ELSE "no"])
  /\ UNCHANGED <<m, moved, moves, todo, reading, verdict>>

\* mutant: a service that runs on another port than the configured one is found
ClassifyCandidateByPort(service) ==
  [service |-> service,
   state |-> CASE service.problem = "yes" -> "incomplete"
               [] service.problem = "no" /\ service.unreadable = "yes" -> "unreadable"
               [] OTHER -> "found"]

ClassifyCandidate(service) ==
  [service |-> service,
   state |->
     CASE service.problem = "yes" -> "incomplete"
       [] service.problem = "no" /\ service.unreadable = "yes" -> "unreadable"
       [] service.problem = "no" /\ service.unreadable = "no" ->
            IF service.running = "yes" /\ service.listening # service.port
              THEN "portMismatch" ELSE "found"]

\* mutant: a service of unknown major is no candidate
KnownCandidates == {service \in read : service.major = Expected}

Candidates == {service \in read : service.major \in {0, Expected}}

Classify ==
  /\ step = "config" /\ todo = {}
  /\ step' = "done"
  /\ verdict' = CASE Cardinality(Candidates) > 1 -> [state |-> "ambiguous"]
                  [] Cardinality(Candidates) = 1 ->
                       ClassifyCandidate(CHOOSE service \in Candidates : TRUE)
                  [] Cardinality(Candidates) = 0 ->
                       [state |-> IF read # {} THEN "otherMajor" ELSE "fresh"]
  /\ UNCHANGED <<m, moved, moves, todo, reading, read>>

DetectStep == List \/ ReadConfig \/ ReadState \/ ReadMajor \/ ReadPort
              \/ ReadListening \/ Classify

-----------------------------------------------------------------------------
(* The machine, while it is read. *)

Move(name, entry, move) ==
  /\ step \notin {"list", "done", "failed"} /\ moves < MaxMoves
  /\ m' = [m EXCEPT ![name] = entry] /\ moves' = moves + 1
  /\ moved' = [moved EXCEPT ![name] = @ \cup {move}]
  /\ UNCHANGED detection

\* The server listens on the port its configuration holds when it starts.
Starts(name) ==
  /\ m[name].there = "yes" /\ m[name].running = "no"
  /\ m[name].command # "notPgctl" /\ m[name].major # 0 /\ Configured(name) # 0
  /\ Move(name, [m[name] EXCEPT !.running = "yes", !.pid = Configured(name)], "starts")

\* A crash leaves postmaster.pid behind.
Stops(name) ==
  /\ m[name].running = "yes"
  /\ \E left \in {0, m[name].pid} :
       Move(name, [m[name] EXCEPT !.running = "no", !.pid = left], "stops")

Edits(name) ==
  \E conf \in (Ports \cup {0}) \ {m[name].conf} :
    m[name].major # 0 /\ Move(name, [m[name] EXCEPT !.conf = conf], "edits")

Registers(name) ==
  m[name].there = "no" /\ Move(name, [m[name] EXCEPT !.there = "yes"], "registers")

Deletes(name) ==
  /\ m[name].there = "yes" /\ m[name].running = "no"
  /\ Move(name, [m[name] EXCEPT !.there = "no"], "deletes")

Initdb(name) ==
  /\ m[name].major = 0 /\ m[name].running = "no"
  /\ Move(name, [m[name] EXCEPT !.major = Expected, !.conf = OptionPort], "initdb")

MachineMoves ==
  \E name \in Service : Starts(name) \/ Stops(name) \/ Edits(name) \/ Registers(name)
                        \/ Deletes(name) \/ Initdb(name)

Next == DetectStep \/ MachineMoves

Spec == Init /\ [][Next]_vars

-----------------------------------------------------------------------------
(* Safety. What the machine is, in the words of installer.md's state table. *)

PgctlService(name) == Openable(name) /\ m[name].command # "notPgctl"
Unplaceable(name) == m[name].command = "noData" \/ m[name].major = 0
Candidate(name) ==
  IF m[name].query = "works"
    THEN PgctlService(name) /\ (Unplaceable(name) \/ m[name].major = Expected)
    ELSE /\ m[name].there = "yes" /\ name \in PostgresName
         /\ m[name].query = "noStatus" => m[name].command # "notPgctl"
Unreadable(name) ==
  \/ m[name].query # "works" \/ Configured(name) = 0
  \/ m[name].running = "yes" /\ m[name].pid = 0

TableHolds ==
  CASE verdict.state = "ambiguous" ->
         \E a, b \in Service : a # b /\ Candidate(a) /\ Candidate(b)
    [] verdict.state \in {"incomplete", "unreadable", "portMismatch", "found"} ->
         LET name == verdict.service.name IN
         /\ Candidate(name) /\ \A other \in Service \ {name} : ~Candidate(other)
         /\ verdict.state = "incomplete" <=> m[name].query = "works" /\ Unplaceable(name)
         /\ verdict.state = "unreadable" => Unreadable(name)
         /\ verdict.state = "portMismatch" =>
              m[name].running = "yes" /\ Configured(name) # m[name].pid
         /\ verdict.state = "found" => verdict.service.port = Configured(name)
    [] verdict.state = "otherMajor" ->
         /\ \A name \in Service : ~Candidate(name)
         /\ \E name \in Service : PgctlService(name) /\ m[name].query = "works"
    [] verdict.state = "fresh" ->
         \A name \in Service :
           ~Candidate(name) /\ (PgctlService(name) => m[name].query # "works")

\* Of a machine that did not change while it was read, the verdict is the row of the
\* state table that holds (installer.md, "The machine's state"; Classify).
StillMachineIsClassified ==
  step = "done" /\ (\A name \in Service : moved[name] = {}) => TableHolds

\* Setup never installs beside a server, nor configures one of two: a candidate that
\* was there all the time is not overlooked, and two of them are ambiguous, whatever
\* started, stopped, appeared or was edited meanwhile (collectServices, Classify).
CandidatesAreNotOverlooked ==
  LET there == {name \in Service :
                  Candidate(name) /\ moved[name] \cap {"registers", "deletes", "initdb"} = {}}
  IN step = "done" =>
       /\ there # {} => verdict.state \notin {"fresh", "otherMajor"}
       /\ Cardinality(there) > 1 => verdict.state = "ambiguous"

\* The reader is sent to repair a file only for an error that was there: not because
\* the service stopped before its postmaster.pid was read, unless it did stop.
UnreadableIsReal ==
  verdict.state = "unreadable" =>
    LET name == verdict.service.name IN
      Unreadable(name) \/ moved[name] \cap {"stops", "edits", "deletes"} # {}

\* The port of a found service is the one its server listens on, if it runs by then:
\* a start or a restart during the detection does not matter, only an edit does.
FoundServesItsPort ==
  verdict.state = "found" =>
    LET name == verdict.service.name IN
      moved[name] \cap {"edits", "initdb"} = {} =>
        /\ verdict.service.port = Configured(name)
        /\ m[name].running = "yes" => m[name].pid = verdict.service.port
=============================================================================
