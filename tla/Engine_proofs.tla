---------------------------- MODULE Engine_proofs ----------------------------
(***************************************************************************)
(* Theorems about Engine, for any machines and any number of steps of the  *)
(* machine while it is read.                                               *)
(***************************************************************************)
EXTENDS Engine, FiniteSetTheorems, TLAPS

-----------------------------------------------------------------------------
(* The machine's steps, and what they leave to see in its history. *)

\* One step of the machine, seen from the service n.
Passing(n) ==
  /\ m'[n].query = m[n].query /\ m'[n].command = m[n].command
  /\ moved[n] \subseteq moved'[n] /\ (moved'[n] = {} => m'[n] = m[n])
  /\ m'[n].major # m[n].major => m[n].major = 0 /\ "initdb" \in moved'[n]
  /\ m'[n].conf # m[n].conf => {"edits", "initdb"} \cap moved'[n] # {}
  /\ m[n].major # 0 /\ m'[n].conf # m[n].conf => "edits" \in moved'[n]
  /\ m[n].there = "yes" => m'[n].there = "yes" \/ "deletes" \in moved'[n]
  /\ m[n].there = "no" => m'[n].there = "no" \/ "registers" \in moved'[n]
  /\ m[n].running = "yes" => m'[n].running = "yes" \/ "stops" \in moved'[n]
  /\ m'[n].running = "yes" =>
       m'[n].pid = IF m[n].running = "yes" THEN m[n].pid ELSE Configured(n)

LEMMA NumbersApart == Expected # 0 /\ Other # 0 /\ OptionPort # 0 /\ 0 \notin Ports /\ Expected # Other
BY NumbersAssumption

LEMMA MachinePasses ==
  ASSUME MachineOK, MachineMoves, NEW n \in Service
  PROVE  Passing(n) /\ UNCHANGED detection
<1> USE DEF MachineOK, Entry, Passing, Configured
<1>1. PICK name \in Service : Starts(name) \/ Stops(name) \/ Edits(name) \/ Registers(name)
                              \/ Deletes(name) \/ Initdb(name)
  BY DEF MachineMoves
<1>2. CASE Starts(name)
  BY <1>1, <1>2 DEF Starts, Move
<1>3. CASE Stops(name)
  BY <1>1, <1>3 DEF Stops, Move
<1>4. CASE Edits(name)
  <2>1. PICK conf \in (Ports \cup {0}) \ {m[name].conf} :
          /\ m[name].major # 0 /\ UNCHANGED detection
          /\ m' = [m EXCEPT ![name] = [m[name] EXCEPT !.conf = conf]]
          /\ moved' = [moved EXCEPT ![name] = @ \cup {"edits"}]
    BY <1>4 DEF Edits, Move
  <2>2. CASE n # name
    <3>1. m'[n] = m[n] /\ moved'[n] = moved[n]
      BY <2>1, <2>2
    <3>2. QED
      BY <2>1, <3>1
  <2>3. CASE n = name
    <3>1. "edits" \in moved'[n] /\ moved[n] \subseteq moved'[n]
      BY <2>1, <2>3
    <3>2. m'[n] = [m[n] EXCEPT !.conf = conf]
      BY <2>1, <2>3
    <3>3. /\ m'[n].query = m[n].query /\ m'[n].command = m[n].command
          /\ m'[n].there = m[n].there /\ m'[n].running = m[n].running
          /\ m'[n].major = m[n].major /\ m'[n].pid = m[n].pid
      BY <3>2
    <3>4. QED
      BY <2>1, <2>3, <3>1, <3>3
  <2>4. QED
    BY <2>2, <2>3
<1>5. CASE Registers(name)
  BY <1>1, <1>5 DEF Registers, Move
<1>6. CASE Deletes(name)
  BY <1>1, <1>6 DEF Deletes, Move
<1>7. CASE Initdb(name)
  <2>1. /\ m[name].major = 0 /\ m[name].running = "no" /\ UNCHANGED detection
        /\ m' = [m EXCEPT ![name] = [m[name] EXCEPT !.major = Expected, !.conf = OptionPort]]
        /\ moved' = [moved EXCEPT ![name] = @ \cup {"initdb"}]
    BY <1>7 DEF Initdb, Move
  <2>2. CASE n # name
    <3>1. m'[n] = m[n] /\ moved'[n] = moved[n]
      BY <2>1, <2>2
    <3>2. QED
      BY <2>1, <3>1
  <2>3. CASE n = name
    <3>1. "initdb" \in moved'[n] /\ moved[n] \subseteq moved'[n]
      BY <2>1, <2>3
    <3>2. m'[n] = [m[n] EXCEPT !.major = Expected, !.conf = OptionPort]
      BY <2>1, <2>3
    <3>3. /\ m'[n].query = m[n].query /\ m'[n].command = m[n].command
          /\ m'[n].there = m[n].there /\ m'[n].running = m[n].running
      BY <3>2
    <3>4. QED
      BY <2>1, <2>3, <3>1, <3>3
  <2>4. QED
    BY <2>2, <2>3
<1>8. QED
  BY <1>1, <1>2, <1>3, <1>4, <1>5, <1>6, <1>7

LEMMA Entries ==
  ASSUME NEW e \in Entry, NEW state \in {"yes", "no"}, NEW port \in Ports \cup {0}
  PROVE  /\ [e EXCEPT !.running = state, !.pid = port] \in Entry
         /\ [e EXCEPT !.major = Expected, !.conf = port] \in Entry
BY DEF Entry

LEMMA MachineNext == ASSUME MachineOK, [Next]_vars PROVE MachineOK'
<1> USE NumbersAssumption DEF MachineOK
<1>1. CASE DetectStep
  BY <1>1 DEF DetectStep, List, ReadConfig, ReadState, ReadMajor, ReadPort, ReadListening, Classify
<1>2. CASE UNCHANGED vars
  BY <1>2 DEF vars
<1>3. CASE MachineMoves
  <2>1. PICK name \in Service : Starts(name) \/ Stops(name) \/ Edits(name) \/ Registers(name)
                                \/ Deletes(name) \/ Initdb(name)
    BY <1>3 DEF MachineMoves
  <2>2. moves' \in 0..MaxMoves /\ moved' \in [Service -> SUBSET Moves]
    BY <2>1 DEF Starts, Stops, Edits, Registers, Deletes, Initdb, Move, Moves
  <2>3. m' \in [Service -> Entry]
    <3>1. Configured(name) \in Ports \cup {0}
      BY DEF Entry, Configured
    <3>2. CASE Starts(name)
      <4>1. [m[name] EXCEPT !.running = "yes", !.pid = Configured(name)] \in Entry
        BY <3>1, Entries
      <4>2. QED
        BY <3>2, <4>1 DEF Starts, Move
    <3>3. CASE Stops(name)
      <4>1. PICK left \in {0, m[name].pid} :
              m' = [m EXCEPT ![name] = [m[name] EXCEPT !.running = "no", !.pid = left]]
        BY <3>3 DEF Stops, Move
      <4>2. left \in Ports \cup {0}
        BY DEF Entry
      <4>3. [m[name] EXCEPT !.running = "no", !.pid = left] \in Entry
        BY <4>2, Entries
      <4>4. QED
        BY <4>1, <4>3
    <3>4. CASE Edits(name) \/ Registers(name) \/ Deletes(name)
      BY <3>4 DEF Entry, Edits, Registers, Deletes, Move
    <3>5. CASE Initdb(name)
      <4>1. [m[name] EXCEPT !.major = Expected, !.conf = OptionPort] \in Entry
        BY Entries
      <4>2. QED
        BY <3>5, <4>1 DEF Initdb, Move
    <3>6. QED
      BY <2>1, <3>2, <3>3, <3>4, <3>5
  <2>4. QED
    BY <2>2, <2>3
<1>4. QED
  BY <1>1, <1>2, <1>3 DEF Next

-----------------------------------------------------------------------------
(* Types of the detection. *)

LEMMA Blanks ==
  ASSUME NEW n \in Service
  PROVE  /\ Blank(n) \in Described /\ [Blank(n) EXCEPT !.unreadable = "yes"] \in Described
         /\ Blank(n).name = n /\ [Blank(n) EXCEPT !.unreadable = "yes"].name = n
BY DEF Blank, Described

LEMMA DetectionNext == ASSUME MachineOK, DetectionOK, [Next]_vars PROVE DetectionOK'
<1> USE DEF DetectionOK
<1> Current \in Service
  BY DEF Current, Described
<1>1. CASE List
  BY <1>1 DEF List
<1>2. CASE ReadConfig
  BY <1>2, Blanks DEF ReadConfig, Unqueried
<1>3. CASE ReadState
  <2>1. m[Current].running \in {"yes", "no"}
    BY DEF MachineOK, Entry
  <2>2. [reading EXCEPT !.running = m[Current].running] \in Described
    BY <2>1 DEF Described
  <2>3. QED
    BY <1>3, <2>2, Blanks DEF ReadState, Unqueried
<1>4. CASE ReadMajor
  <2>1. m[Current].major \in {0, Expected, Other}
    BY DEF MachineOK, Entry
  <2>2. /\ [reading EXCEPT !.major = m[Current].major] \in Described
        /\ [reading EXCEPT !.problem = "yes"] \in Described
    BY <2>1 DEF Described
  <2>3. QED
    BY <1>4, <2>2 DEF ReadMajor, Keep
<1>5. CASE ReadPort
  <2>1. Configured(Current) \in Ports \cup {0}
    BY NumbersAssumption DEF MachineOK, Entry, Configured
  <2>2. /\ [reading EXCEPT !.port = Configured(Current)] \in Described
        /\ [reading EXCEPT !.unreadable = "yes"] \in Described
    BY <2>1 DEF Described
  <2>3. QED
    BY <1>5, <2>2 DEF ReadPort, Keep
<1>6. CASE ReadListening
  <2>1. m[Current].pid \in Ports \cup {0}
    BY DEF MachineOK, Entry
  <2>2. [reading EXCEPT !.listening = m[Current].pid,
                        !.unreadable = IF m[Current].pid = 0 THEN "yes" ELSE "no"] \in Described
    BY <2>1 DEF Described
  <2>3. QED
    BY <1>6, <2>2 DEF ReadListening, Keep
<1>7. CASE Classify
  BY <1>7 DEF Classify
<1>8. CASE MachineMoves \/ UNCHANGED vars
  <2>1. UNCHANGED detection
    BY <1>8 DEF MachineMoves, Starts, Stops, Edits, Registers, Deletes, Initdb, Move, vars, detection
  <2>2. QED
    BY <2>1 DEF detection
<1>9. QED
  BY <1>1, <1>2, <1>3, <1>4, <1>5, <1>6, <1>7, <1>8 DEF Next, DetectStep

-----------------------------------------------------------------------------
(* The inductive invariant: what Detect has read is still so, or the       *)
(* history of the service says why not.                                    *)

Calm(n) == "edits" \notin moved[n] /\ "initdb" \notin moved[n]
Stayed(n) == m[n].there = "yes" \/ "deletes" \in moved[n]

\* An entry of a service that could not be queried
Unasked(e, n) ==
  e.problem = "no" /\ e.major = 0 =>
    /\ e.unreadable = "yes" /\ n \in PostgresName
    /\ "deletes" \notin moved[n] =>
         /\ m[n].query # "works" /\ m[n].there = "yes"
         /\ m[n].query = "noStatus" => m[n].command # "notPgctl"

\* of one without a data folder or a readable PG_VERSION
Troubled(e, n) ==
  e.problem = "yes" =>
    /\ e.major = 0 /\ m[n].query = "works" /\ m[n].command # "notPgctl" /\ Stayed(n)
    /\ Unplaceable(n) \/ "initdb" \in moved[n]

\* and of one with a cluster
Placed(e, n) ==
  e.major # 0 =>
    /\ e.problem = "no" /\ m[n].query = "works" /\ m[n].command \notin {"notPgctl", "noData"}
    /\ m[n].major = e.major /\ Stayed(n)
    /\ e.unreadable = "yes" => Unreadable(n) \/ moved[n] \cap {"stops", "edits", "deletes"} # {}
    /\ e.unreadable = "no" =>
         /\ e.port \in Ports
         /\ Calm(n) => e.port = Configured(n)
         /\ Calm(n) /\ (e.running = "no" \/ e.listening = e.port) /\ m[n].running = "yes" =>
              m[n].pid = e.port
         /\ moved[n] = {} => e.running = m[n].running /\ (e.running = "yes" => e.listening = m[n].pid)

Sound(e, n) == Unasked(e, n) /\ Troubled(e, n) /\ Placed(e, n)

InHand == step \in {"state", "major", "port", "listening"}

\* The service n that is being read
HalfRead(n) ==
  /\ m[n].command # "notPgctl" /\ m[n].query # "fails" /\ Stayed(n)
  /\ reading.problem = "no" /\ reading.unreadable = "no"
  /\ step \in {"state", "major"} => reading.major = 0
  /\ step # "state" =>
       /\ m[n].query = "works"
       /\ reading.running = "yes" => m[n].running = "yes" \/ "stops" \in moved[n]
       /\ reading.running = "no" /\ Calm(n) /\ m[n].running = "yes" => m[n].pid = Configured(n)
       /\ moved[n] = {} => reading.running = m[n].running
  /\ step \in {"port", "listening"} =>
       reading.major # 0 /\ m[n].major = reading.major /\ m[n].command # "noData"
  /\ step = "listening" => reading.port \in Ports /\ (Calm(n) => reading.port = Configured(n))

\* A service that is in nobody's hands
Absent(n) ==
  "registers" \notin moved[n] /\ "deletes" \notin moved[n] /\ "initdb" \notin moved[n] =>
    ~Candidate(n) /\ (PgctlService(n) => m[n].query # "works")

ReadInv == \A e \in read : Sound(e, e.name)
HandInv == InHand => HalfRead(Current)
OnceInv ==
  /\ \A a, b \in read : a.name = b.name => a = b
  /\ \A e \in read : e.name \notin todo /\ (InHand => e.name # Current)
  /\ InHand => Current \notin todo
  /\ step = "list" => read = {} /\ todo = {}
  /\ step = "done" => todo = {}
AccountInv ==
  /\ \A n \in todo : Stayed(n)
  /\ step \notin {"list", "failed"} => \A n \in Service :
       n \in todo \/ (InHand /\ n = Current) \/ (\E e \in read : e.name = n) \/ Absent(n)

-----------------------------------------------------------------------------
(* The machine's steps keep it. *)

LEMMA StayedPasses == ASSUME NEW n \in Service, Stayed(n), Passing(n) PROVE Stayed(n)'
BY DEF Stayed, Passing

LEMMA ConfiguredPasses ==
  ASSUME NEW n \in Service, Passing(n)
  PROVE  /\ Calm(n)' => Calm(n) /\ Configured(n)' = Configured(n)
         /\ m[n].major # 0 /\ "edits" \notin moved'[n] => Configured(n)' = Configured(n)
BY DEF Passing, Calm, Configured

LEMMA UnreadablePasses ==
  ASSUME MachineOK, NEW n \in Service, Passing(n), m[n].major # 0,
         Unreadable(n) \/ moved[n] \cap {"stops", "edits", "deletes"} # {}
  PROVE  Unreadable(n)' \/ moved'[n] \cap {"stops", "edits", "deletes"} # {}
<1>1. CASE moved[n] \cap {"stops", "edits", "deletes"} # {}
  BY <1>1 DEF Passing
<1>2. CASE Unreadable(n) /\ "edits" \notin moved'[n] /\ "stops" \notin moved'[n]
  <2>1. Configured(n)' = Configured(n)
    BY <1>2, ConfiguredPasses
  <2>2. CASE m[n].query # "works" \/ Configured(n) = 0
    BY <2>1, <2>2 DEF Passing, Unreadable
  <2>3. CASE m[n].running = "yes" /\ m[n].pid = 0
    <3>1. m'[n].running = "yes"
      BY <1>2, <2>3 DEF Passing
    <3>2. m'[n].pid = 0
      BY <2>3, <3>1 DEF Passing
    <3>3. QED
      BY <3>1, <3>2 DEF Unreadable
  <2>4. QED
    BY <1>2, <2>2, <2>3 DEF Unreadable
<1>3. QED
  BY <1>1, <1>2

LEMMA SoundPasses ==
  ASSUME MachineOK, NEW n \in Service, NEW e \in Described, Passing(n), Sound(e, n)
  PROVE  Sound(e, n)'
<1> USE DEF Sound
<1>1. Unasked(e, n)'
  BY DEF Unasked, Passing
<1>2. Troubled(e, n)'
  <2>1. CASE e.problem = "yes"
    <3>1. Stayed(n)'
      BY <2>1, StayedPasses DEF Troubled
    <3>2. Unplaceable(n)' \/ "initdb" \in moved'[n]
      BY <2>1 DEF Troubled, Passing, Unplaceable
    <3>3. QED
      BY <2>1, <3>1, <3>2 DEF Troubled, Passing
  <2>2. QED
    BY <2>1 DEF Troubled
<1>3. Placed(e, n)'
  <2>1. CASE e.major # 0
    <3>1. Stayed(n)' /\ m[n].major = e.major /\ m[n].major # 0
      BY <2>1, StayedPasses DEF Placed
    <3>2. m'[n].major = e.major /\ m'[n].query = m[n].query /\ m'[n].command = m[n].command
      BY <3>1 DEF Passing
    <3>3. ASSUME e.unreadable = "yes"
          PROVE  Unreadable(n)' \/ moved'[n] \cap {"stops", "edits", "deletes"} # {}
      BY <2>1, <3>1, <3>3, UnreadablePasses DEF Placed
    <3>4. ASSUME e.unreadable = "no", Calm(n)'
          PROVE  /\ e.port = Configured(n)'
                 /\ (e.running = "no" \/ e.listening = e.port) /\ m'[n].running = "yes" =>
                      m'[n].pid = e.port
      <4>1. Calm(n) /\ Configured(n)' = Configured(n)
        BY <3>4, ConfiguredPasses
      <4>2. e.port = Configured(n)
        BY <2>1, <3>4, <4>1 DEF Placed
      <4>3. QED
        BY <2>1, <3>4, <4>1, <4>2 DEF Placed, Passing
    <3>5. ASSUME e.unreadable = "no", moved'[n] = {}
          PROVE  /\ e.running = m'[n].running
                 /\ e.running = "yes" => e.listening = m'[n].pid
      BY <2>1, <3>5 DEF Placed, Passing
    <3>6. QED
      BY <2>1, <3>1, <3>2, <3>3, <3>4, <3>5 DEF Placed
  <2>2. QED
    BY <2>1 DEF Placed
<1>4. QED
  BY <1>1, <1>2, <1>3

LEMMA HalfReadPasses ==
  ASSUME MachineOK, NEW n \in Service, InHand, HalfRead(n), Passing(n), UNCHANGED detection
  PROVE  HalfRead(n)'
<1>1. UNCHANGED <<reading, step>> /\ Stayed(n)'
  BY StayedPasses DEF HalfRead, detection
<1>2. m'[n].command = m[n].command /\ m'[n].query = m[n].query
  BY DEF Passing
<1>3. ASSUME step # "state"
      PROVE  /\ reading.running = "yes" => m'[n].running = "yes" \/ "stops" \in moved'[n]
             /\ moved'[n] = {} => reading.running = m'[n].running
  BY <1>3 DEF HalfRead, Passing
<1>4. ASSUME step # "state", reading.running = "no", Calm(n)', m'[n].running = "yes"
      PROVE  m'[n].pid = Configured(n)'
  <2>1. Calm(n) /\ Configured(n)' = Configured(n)
    BY <1>4, ConfiguredPasses
  <2>2. QED
    BY <1>4, <2>1 DEF HalfRead, Passing
<1>5. ASSUME step \in {"port", "listening"} PROVE m'[n].major = reading.major
  BY <1>5 DEF HalfRead, Passing
<1>6. ASSUME step = "listening", Calm(n)' PROVE reading.port = Configured(n)'
  BY <1>6, ConfiguredPasses DEF HalfRead
<1>7. QED
  BY <1>1, <1>2, <1>3, <1>4, <1>5, <1>6 DEF HalfRead

LEMMA AbsentPasses ==
  ASSUME MachineOK, NEW n \in Service, Absent(n), Passing(n)
  PROVE  Absent(n)'
<1> SUFFICES ASSUME "registers" \notin moved'[n], "deletes" \notin moved'[n], "initdb" \notin moved'[n]
             PROVE  ~Candidate(n)' /\ (PgctlService(n)' => m'[n].query # "works")
  BY DEF Absent
<1>1. /\ m'[n].there = m[n].there /\ m'[n].query = m[n].query /\ m'[n].command = m[n].command
      /\ m'[n].major = m[n].major
  BY DEF Passing, MachineOK, Entry
<1>2. ~Candidate(n) /\ (PgctlService(n) => m[n].query # "works")
  BY DEF Passing, Absent
<1>3. QED
  BY <1>1, <1>2 DEF Candidate, PgctlService, Openable, Unplaceable

ReaderInv == ReadInv /\ HandInv /\ OnceInv /\ AccountInv

LEMMA ReaderPasses ==
  ASSUME MachineOK, DetectionOK, ReaderInv, MachineMoves
  PROVE  ReaderInv'
<1> USE DEF ReaderInv, DetectionOK
<1>1. UNCHANGED <<todo, step, reading, read>> /\ \A n \in Service : Passing(n)
  <2>1. PICK name \in Service : Starts(name) \/ Stops(name) \/ Edits(name) \/ Registers(name)
                                \/ Deletes(name) \/ Initdb(name)
    BY DEF MachineMoves
  <2>2. QED
    BY <2>1, MachinePasses DEF detection
<1>2. UNCHANGED detection
  BY DEF MachineMoves, Starts, Stops, Edits, Registers, Deletes, Initdb, Move
<1>3. \A e \in Described : e.name \in Service
  BY DEF Described
<1>4. ReadInv'
  <2> SUFFICES ASSUME NEW e \in read PROVE Sound(e, e.name)'
    BY <1>1 DEF ReadInv
  <2> DEFINE n == e.name
  <2>1. n \in Service /\ Passing(n) /\ Sound(e, n)
    BY <1>1, <1>3 DEF ReadInv
  <2>2. QED
    BY <2>1, SoundPasses
<1>5. HandInv'
  BY <1>1, <1>2, <1>3, HalfReadPasses DEF HandInv, InHand, Current
<1>6. OnceInv'
  BY <1>1 DEF OnceInv, InHand, Current
<1>7. AccountInv'
  <2>1. \A n \in todo : Stayed(n)'
    BY <1>1, StayedPasses DEF AccountInv
  <2>2. \A n \in Service : Absent(n) => Absent(n)'
    BY <1>1, AbsentPasses
  <2>3. QED
    BY <1>1, <2>1, <2>2 DEF AccountInv, InHand, Current
<1>8. QED
  BY <1>4, <1>5, <1>6, <1>7

-----------------------------------------------------------------------------
(* The steps of Detect keep it.                                            *)

Looking == UNCHANGED <<m, moved>>

LEMMA SoundStays ==
  ASSUME NEW e, NEW n, Looking
  PROVE  /\ Sound(e, n) => Sound(e, n)'
         /\ Stayed(n) => Stayed(n)'
         /\ Absent(n) => Absent(n)'
BY DEF Looking, Sound, Unasked, Troubled, Placed, Stayed, Absent, Unplaceable, Unreadable,
  Configured, Calm, Candidate, PgctlService, Openable

\* The service in hand has been read: its entry e joins the others.
LEMMA Joins ==
  ASSUME MachineOK, DetectionOK, ReaderInv, InHand, Looking, UNCHANGED todo,
         NEW e \in Described, e.name = Current, Sound(e, Current),
         read' = read \cup {e}, step' = "config"
  PROVE  ReaderInv'
<1> USE DEF ReaderInv, InHand
<1>1. ReadInv' /\ HandInv'
  BY SoundStays DEF ReadInv, HandInv
<1>2. OnceInv'
  BY DEF OnceInv
<1>3. AccountInv'
  BY SoundStays DEF AccountInv
<1>4. QED
  BY <1>1, <1>2, <1>3

\* It is skipped: nothing of it was a candidate.
LEMMA Skips ==
  ASSUME MachineOK, DetectionOK, ReaderInv, Looking, UNCHANGED read, step' = "config",
         NEW n \in Service, Absent(n),
         \/ InHand /\ n = Current /\ UNCHANGED todo
         \/ step = "config" /\ n \in todo /\ todo' = todo \ {n}
  PROVE  ReaderInv'
<1> USE DEF ReaderInv, InHand
<1>1. ReadInv' /\ HandInv'
  BY SoundStays DEF ReadInv, HandInv
<1>2. OnceInv'
  BY DEF OnceInv
<1>3. AccountInv'
  BY SoundStays DEF AccountInv
<1>4. QED
  BY <1>1, <1>2, <1>3

\* An entry of a service that could not be queried is sound.
LEMMA UnqueriedIsSound ==
  ASSUME NEW n \in PostgresName,
         "deletes" \notin moved[n] =>
           /\ m[n].query # "works" /\ m[n].there = "yes"
           /\ m[n].query = "noStatus" => m[n].command # "notPgctl"
  PROVE  Sound([Blank(n) EXCEPT !.unreadable = "yes"], n)
<1>1. /\ [Blank(n) EXCEPT !.unreadable = "yes"].problem = "no"
      /\ [Blank(n) EXCEPT !.unreadable = "yes"].unreadable = "yes"
      /\ [Blank(n) EXCEPT !.unreadable = "yes"].major = 0
  BY DEF Blank
<1>2. QED
  BY <1>1 DEF Sound, Unasked, Troubled, Placed

LEMMA ReaderList == ASSUME MachineOK, DetectionOK, ReaderInv, List PROVE ReaderInv'
<1> USE DEF ReaderInv, InHand, MachineOK, Entry
<1>1. step = "list" /\ read = {} /\ todo = {} /\ Looking /\ UNCHANGED <<reading, read>>
      /\ \/ step' = "config" /\ todo' = {s \in Service : m[s].there = "yes"}
         \/ step' = "failed" /\ todo' = todo
  BY DEF List, OnceInv, Looking
<1>2. ReadInv' /\ HandInv' /\ OnceInv'
  BY <1>1 DEF ReadInv, HandInv, OnceInv
<1>3. \A n \in Service : m[n].there = "no" => Absent(n)
  BY DEF Absent, Candidate, PgctlService, Openable
<1>4. step' = "config" => \A n \in Service : n \notin todo' => Absent(n)'
  BY <1>1, <1>3, SoundStays
<1>5. \A n \in todo' : Stayed(n)'
  BY <1>1 DEF Stayed, Looking
<1>6. AccountInv'
  BY <1>1, <1>4, <1>5 DEF AccountInv
<1>7. QED
  BY <1>2, <1>6

LEMMA ReaderConfig == ASSUME MachineOK, DetectionOK, ReaderInv, ReadConfig PROVE ReaderInv'
<1>1. PICK n \in todo :
        /\ todo' = todo \ {n} /\ reading' = Blank(n)
        /\ \/ ~Openable(n) /\ Unqueried(n)
           \/ Openable(n) /\ m[n].command = "notPgctl" /\ UNCHANGED <<step, read>>
           \/ Openable(n) /\ m[n].command # "notPgctl" /\ step' = "state" /\ UNCHANGED read
  BY DEF ReadConfig
<1>2. step = "config" /\ Looking /\ n \in Service /\ Stayed(n)
  BY DEF ReadConfig, Looking, DetectionOK, ReaderInv, AccountInv
<1> USE DEF ReaderInv, InHand
<1>3. CASE ~Openable(n) /\ Unqueried(n)
  <2>1. "deletes" \notin moved[n] => m[n].there = "yes" /\ m[n].query = "fails"
    BY <1>2, <1>3 DEF Openable, Stayed
  <2>2. CASE n \in PostgresName
    <3> DEFINE e == [Blank(n) EXCEPT !.unreadable = "yes"]
    <3>1. Sound(e, n) /\ e.name = n
      BY <1>2, <2>1, <2>2, UnqueriedIsSound, Blanks
    <3>2. read' = read \cup {e} /\ step' = "config"
      BY <1>3, <2>2 DEF Unqueried
    <3> HIDE DEF e
    <3>3. ReadInv' /\ HandInv'
      BY <1>2, <3>1, <3>2, SoundStays DEF ReadInv, HandInv
    <3>4. OnceInv'
      BY <1>1, <1>2, <3>1, <3>2 DEF OnceInv
    <3>5. AccountInv'
      BY <1>1, <1>2, <3>1, <3>2, SoundStays DEF AccountInv
    <3>6. QED
      BY <3>3, <3>4, <3>5
  <2>3. CASE n \notin PostgresName
    <3>1. Absent(n)
      BY <2>1, <2>3 DEF Absent, Candidate, PgctlService, Openable
    <3>2. UNCHANGED read /\ step' = "config"
      BY <1>3, <2>3 DEF Unqueried
    <3>3. QED
      BY <1>1, <1>2, <3>1, <3>2, Skips
  <2>4. QED
    BY <2>2, <2>3
<1>4. CASE Openable(n) /\ m[n].command = "notPgctl" /\ UNCHANGED <<step, read>>
  <2>1. Absent(n)
    BY <1>2, <1>4 DEF Absent, Candidate, PgctlService, Openable, MachineOK, Entry
  <2>2. UNCHANGED read /\ step' = "config"
    BY <1>2, <1>4
  <2>3. QED
    BY <1>1, <1>2, <2>1, <2>2, Skips
<1>5. CASE Openable(n) /\ m[n].command # "notPgctl" /\ step' = "state" /\ UNCHANGED read
  <2>1. Current' = n /\ reading'.problem = "no" /\ reading'.unreadable = "no" /\ reading'.major = 0
    BY <1>1 DEF Current, Blank
  <2>2. ReadInv' /\ HandInv'
    BY <1>2, <1>5, <2>1, SoundStays DEF ReadInv, HandInv, HalfRead, Openable, Looking
  <2>3. OnceInv'
    BY <1>1, <1>2, <1>5, <2>1 DEF OnceInv
  <2>4. AccountInv'
    BY <1>1, <1>2, <1>5, <2>1, SoundStays DEF AccountInv
  <2>5. QED
    BY <2>2, <2>3, <2>4
<1>6. QED
  BY <1>1, <1>3, <1>4, <1>5

LEMMA ReaderState == ASSUME MachineOK, DetectionOK, ReaderInv, ReadState PROVE ReaderInv'
<1> DEFINE n == Current
<1>1. step = "state" /\ InHand /\ Looking /\ UNCHANGED todo /\ n \in Service /\ HalfRead(n)
  BY DEF ReadState, Looking, InHand, DetectionOK, Described, Current, ReaderInv, HandInv
<1>2. m[n].running \in {"yes", "no"}
  BY <1>1 DEF MachineOK, Entry
<1>3. CASE m[n].query # "works"
  <2>1. UNCHANGED reading /\ Unqueried(n)
    BY <1>3 DEF ReadState
  <2>2. CASE n \in PostgresName
    <3> DEFINE e == [Blank(n) EXCEPT !.unreadable = "yes"]
    <3>1. Sound(e, n)
      BY <1>1, <1>3, <2>2, UnqueriedIsSound DEF HalfRead, Stayed
    <3>2. e \in Described /\ e.name = n
      BY <1>1, Blanks
    <3>3. read' = read \cup {e} /\ step' = "config"
      BY <2>1, <2>2 DEF Unqueried
    <3> HIDE DEF e
    <3>4. QED
      BY <1>1, <3>1, <3>2, <3>3, Joins
  <2>3. CASE n \notin PostgresName
    <3>1. Absent(n)
      BY <1>1, <1>3, <2>3 DEF Absent, Candidate, PgctlService, Openable, HalfRead
    <3>2. UNCHANGED read /\ step' = "config"
      BY <2>1, <2>3 DEF Unqueried
    <3>3. QED
      BY <1>1, <3>1, <3>2, Skips
  <2>4. QED
    BY <2>2, <2>3
<1>4. CASE m[n].query = "works"
  <2>1. reading' = [reading EXCEPT !.running = m[n].running] /\ step' = "major" /\ UNCHANGED read
    BY <1>4 DEF ReadState
  <2>2. /\ Current' = n /\ reading'.running = m[n].running /\ reading'.problem = reading.problem
        /\ reading'.unreadable = reading.unreadable /\ reading'.major = reading.major
    BY <2>1 DEF Current, DetectionOK, Described
  <2>3. HalfRead(n)'
    BY <1>1, <1>2, <1>4, <2>1, <2>2, SoundStays DEF HalfRead, Looking
  <2>4. ReadInv' /\ HandInv'
    BY <1>1, <2>1, <2>2, <2>3, SoundStays DEF ReadInv, HandInv, ReaderInv
  <2>5. OnceInv'
    BY <1>1, <2>1, <2>2 DEF OnceInv, ReaderInv, InHand
  <2>6. AccountInv'
    BY <1>1, <2>1, <2>2, SoundStays DEF AccountInv, ReaderInv, InHand
  <2>7. QED
    BY <2>4, <2>5, <2>6 DEF ReaderInv
<1>5. QED
  BY <1>3, <1>4

\* The service in hand stays there.
LEMMA GoesOn ==
  ASSUME ReaderInv, InHand, Looking, UNCHANGED <<todo, read>>, InHand', step' # "state",
         Current' = Current, HalfRead(Current)'
  PROVE  ReaderInv'
<1>1. ReadInv' /\ HandInv'
  BY SoundStays DEF ReadInv, HandInv, ReaderInv
<1>2. OnceInv'
  BY DEF OnceInv, ReaderInv, InHand
<1>3. AccountInv'
  BY SoundStays DEF AccountInv, ReaderInv, InHand
<1>4. QED
  BY <1>1, <1>2, <1>3 DEF ReaderInv

LEMMA ReaderMajor == ASSUME MachineOK, DetectionOK, ReaderInv, ReadMajor PROVE ReaderInv'
<1> DEFINE n == Current
<1>1. step = "major" /\ InHand /\ Looking /\ UNCHANGED todo /\ n \in Service /\ HalfRead(n)
  BY DEF ReadMajor, Looking, InHand, DetectionOK, Described, Current, ReaderInv, HandInv
<1>2. CASE m[n].command = "noData" \/ m[n].major = 0
  <2> DEFINE e == [reading EXCEPT !.problem = "yes"]
  <2>1. e \in Described /\ e.name = n /\ e.problem = "yes" /\ e.major = reading.major
    BY DEF DetectionOK, Described, Current
  <2>2. read' = read \cup {e} /\ step' = "config"
    BY <1>2 DEF ReadMajor, Keep
  <2> HIDE DEF e
  <2>3. Sound(e, n)
    BY <1>1, <1>2, <2>1 DEF Sound, Unasked, Troubled, Placed, HalfRead, Unplaceable
  <2>4. QED
    BY <1>1, <2>1, <2>2, <2>3, Joins
<1>3. CASE ~(m[n].command = "noData" \/ m[n].major = 0)
  <2>1. reading' = [reading EXCEPT !.major = m[n].major] /\ step' = "port" /\ UNCHANGED read
    BY <1>3 DEF ReadMajor
  <2>2. /\ Current' = n /\ reading'.major = m[n].major /\ reading'.problem = reading.problem
        /\ reading'.unreadable = reading.unreadable /\ reading'.running = reading.running
    BY <2>1 DEF Current, DetectionOK, Described
  <2>3. HalfRead(n)'
    BY <1>1, <1>3, <2>1, <2>2, SoundStays DEF HalfRead, Looking, Calm, Configured
  <2>4. InHand'
    BY <2>1 DEF InHand
  <2>5. QED
    BY <1>1, <2>1, <2>2, <2>3, <2>4, GoesOn
<1>4. QED
  BY <1>2, <1>3

LEMMA ReaderPort == ASSUME MachineOK, DetectionOK, ReaderInv, ReadPort PROVE ReaderInv'
<1> DEFINE n == Current
<1>1. step = "port" /\ InHand /\ Looking /\ UNCHANGED todo /\ n \in Service /\ HalfRead(n)
  BY DEF ReadPort, Looking, InHand, DetectionOK, Described, Current, ReaderInv, HandInv
<1>2. CASE Configured(n) = 0
  <2> DEFINE e == [reading EXCEPT !.unreadable = "yes"]
  <2>1. /\ e \in Described /\ e.name = n /\ e.problem = reading.problem
        /\ e.unreadable = "yes" /\ e.major = reading.major
    BY DEF DetectionOK, Described, Current
  <2>2. read' = read \cup {e} /\ step' = "config"
    BY <1>2 DEF ReadPort, Keep
  <2> HIDE DEF e
  <2>3. Sound(e, n)
    BY <1>1, <1>2, <2>1 DEF Sound, Unasked, Troubled, Placed, HalfRead, Unreadable
  <2>4. QED
    BY <1>1, <2>1, <2>2, <2>3, Joins
<1>3. CASE Configured(n) # 0
  <2>1. reading' = [reading EXCEPT !.port = Configured(n)] /\ step' = "listening" /\ UNCHANGED read
    BY <1>3 DEF ReadPort
  <2>2. /\ Current' = n /\ reading'.port = Configured(n) /\ reading'.problem = reading.problem
        /\ reading'.unreadable = reading.unreadable /\ reading'.running = reading.running
        /\ reading'.major = reading.major
    BY <2>1 DEF Current, DetectionOK, Described
  <2>3. Configured(n) \in Ports
    BY <1>1, <1>3, NumbersAssumption DEF MachineOK, Entry, Configured
  <2>4. Configured(n)' = Configured(n)
    BY <1>1, <2>2 DEF Configured, Looking
  <2>5. HalfRead(n)'
    BY <1>1, <2>1, <2>2, <2>3, <2>4, SoundStays DEF HalfRead, Looking, Calm
  <2>6. InHand'
    BY <2>1 DEF InHand
  <2>7. QED
    BY <1>1, <2>1, <2>2, <2>5, <2>6, GoesOn
<1>4. QED
  BY <1>2, <1>3

LEMMA ReaderListening == ASSUME MachineOK, DetectionOK, ReaderInv, ReadListening PROVE ReaderInv'
<1> DEFINE n == Current
<1>1. step = "listening" /\ InHand /\ Looking /\ UNCHANGED todo /\ n \in Service /\ HalfRead(n)
  BY DEF ReadListening, Looking, InHand, DetectionOK, Described, Current, ReaderInv, HandInv
<1>2. reading \in Described /\ reading.name = n
  BY DEF DetectionOK, Current
<1>3. CASE reading.running = "no"
  <2>1. read' = read \cup {reading} /\ step' = "config"
    BY <1>3 DEF ReadListening, Keep
  <2>2. Sound(reading, n)
    BY <1>1, <1>3 DEF Sound, Unasked, Troubled, Placed, HalfRead
  <2>3. QED
    BY <1>1, <1>2, <2>1, <2>2, Joins
<1>4. CASE reading.running = "yes"
  <2> DEFINE e == [reading EXCEPT !.listening = m[n].pid,
                                  !.unreadable = IF m[n].pid = 0 THEN "yes" ELSE "no"]
  <2>1. m[n].pid \in Ports \cup {0}
    BY <1>1 DEF MachineOK, Entry
  <2>2. /\ e \in Described /\ e.name = n /\ e.problem = reading.problem
        /\ e.major = reading.major /\ e.port = reading.port /\ e.running = "yes"
        /\ e.listening = m[n].pid /\ e.unreadable = IF m[n].pid = 0 THEN "yes" ELSE "no"
    BY <1>2, <1>4, <2>1 DEF Described
  <2>3. read' = read \cup {e} /\ step' = "config"
    BY <1>4 DEF ReadListening, Keep
  <2> HIDE DEF e
  <2>4. Sound(e, n)
    BY <1>1, <1>4, <2>2 DEF Sound, Unasked, Troubled, Placed, HalfRead, Unreadable
  <2>5. QED
    BY <1>1, <2>2, <2>3, <2>4, Joins
<1>5. QED
  BY <1>2, <1>3, <1>4 DEF Described

LEMMA ReaderClassify == ASSUME ReaderInv, Classify PROVE ReaderInv'
<1>1. Looking /\ UNCHANGED <<todo, reading, read>> /\ step = "config" /\ step' = "done" /\ todo = {}
  BY DEF Classify, Looking
<1>2. ReadInv' /\ HandInv'
  BY <1>1, SoundStays DEF ReadInv, HandInv, ReaderInv, InHand
<1>3. OnceInv'
  BY <1>1 DEF OnceInv, ReaderInv, InHand
<1>4. AccountInv'
  BY <1>1, SoundStays DEF AccountInv, ReaderInv, InHand
<1>5. QED
  BY <1>2, <1>3, <1>4 DEF ReaderInv

-----------------------------------------------------------------------------
(* Classify, and the theorems.                                             *)

Concluded ==
  \/ Cardinality(Candidates) > 1 /\ verdict.state = "ambiguous"
  \/ \E c \in Candidates : Candidates = {c} /\ verdict = ClassifyCandidate(c)
  \/ Candidates = {} /\ verdict.state = (IF read # {} THEN "otherMajor" ELSE "fresh")

VerdictInv == IF step = "done" THEN Concluded ELSE verdict = NoVerdict

LEMMA ClassifiedAs ==
  ASSUME NEW c \in Described
  PROVE  /\ ClassifyCandidate(c).service = c
         /\ c.problem = "yes" => ClassifyCandidate(c).state = "incomplete"
         /\ c.problem = "no" /\ c.unreadable = "yes" => ClassifyCandidate(c).state = "unreadable"
         /\ c.problem = "no" /\ c.unreadable = "no" =>
              ClassifyCandidate(c).state =
                IF c.running = "yes" /\ c.listening # c.port THEN "portMismatch" ELSE "found"
BY DEF ClassifyCandidate, Described

\* Every entry was made for a service of its own, so they are finitely many.
LEMMA ReadIsFinite == ASSUME DetectionOK, OnceInv PROVE IsFiniteSet(read)
<1> DEFINE f == [e \in read |-> e.name]
<1>1. f \in Injection(read, Service)
  BY DEF DetectionOK, Described, OnceInv, Injection, IsInjective
<1>2. QED
  BY <1>1, ServiceAssumption, FS_Injection

LEMMA VerdictNext ==
  ASSUME DetectionOK, ReaderInv, VerdictInv, [Next]_vars PROVE VerdictInv'
<1>1. CASE Classify
  <2>1. UNCHANGED read /\ step' = "done" /\ Candidates' = Candidates
    BY <1>1 DEF Classify, Candidates
  <2>2. IsFiniteSet(Candidates)
    BY ReadIsFinite, FS_Subset DEF ReaderInv, Candidates
  <2>3. Cardinality(Candidates) \in Nat
    BY <2>2, FS_CardinalityType
  <2>4. CASE Cardinality(Candidates) > 1
    <3>1. verdict' = [state |-> "ambiguous"]
      BY <1>1, <2>3, <2>4 DEF Classify
    <3>2. QED
      BY <2>1, <2>4, <3>1 DEF VerdictInv, Concluded
  <2>5. CASE Cardinality(Candidates) = 1
    <3>1. PICK c : Candidates = {c}
      BY <2>2, <2>5, FS_Singleton
    <3>2. verdict' = ClassifyCandidate(CHOOSE service \in Candidates : TRUE)
      BY <1>1, <2>5 DEF Classify
    <3>3. verdict' = ClassifyCandidate(c)
      BY <3>1, <3>2
    <3>4. QED
      BY <2>1, <3>1, <3>3 DEF VerdictInv, Concluded
  <2>6. CASE Cardinality(Candidates) = 0
    <3>1. Candidates = {}
      BY <2>2, <2>6, FS_EmptySet
    <3>2. verdict' = [state |-> IF read # {} THEN "otherMajor" ELSE "fresh"]
      BY <1>1, <2>6 DEF Classify
    <3>3. QED
      BY <2>1, <3>1, <3>2 DEF VerdictInv, Concluded
  <2>7. QED
    BY <2>3, <2>4, <2>5, <2>6
<1>2. CASE List \/ ReadConfig \/ ReadState \/ ReadMajor \/ ReadPort \/ ReadListening
  <2>1. step # "done" /\ step' # "done" /\ UNCHANGED verdict
    BY <1>2 DEF List, ReadConfig, ReadState, ReadMajor, ReadPort, ReadListening, Unqueried, Keep
  <2>2. QED
    BY <2>1 DEF VerdictInv
<1>3. CASE MachineMoves \/ UNCHANGED vars
  <2>1. UNCHANGED <<step, read, verdict>>
    BY <1>3 DEF MachineMoves, Starts, Stops, Edits, Registers, Deletes, Initdb, Move, vars, detection
  <2>2. QED
    BY <2>1 DEF VerdictInv, Concluded, Candidates
<1>4. QED
  BY <1>1, <1>2, <1>3 DEF Next, DetectStep

Inv == MachineOK /\ DetectionOK /\ ReaderInv /\ VerdictInv

LEMMA InvHolds == Spec => []Inv
<1>1. Init => Inv
  <2> SUFFICES ASSUME Init PROVE Inv
    OBVIOUS
  <2>1. MachineOK
    BY MachinesAssumption, NumbersAssumption DEF Init, MachineOK
  <2>2. DetectionOK
    BY Blanks DEF Init, DetectionOK
  <2>3. ReaderInv
    BY DEF Init, ReaderInv, ReadInv, HandInv, OnceInv, AccountInv, InHand
  <2>4. VerdictInv
    BY DEF Init, VerdictInv
  <2>5. QED
    BY <2>1, <2>2, <2>3, <2>4 DEF Inv
<1>2. Inv /\ [Next]_vars => Inv'
  <2> SUFFICES ASSUME Inv, [Next]_vars PROVE Inv'
    OBVIOUS
  <2> USE DEF Inv
  <2>1. MachineOK' /\ DetectionOK' /\ VerdictInv'
    BY MachineNext, DetectionNext, VerdictNext
  <2>2. CASE DetectStep
    BY <2>1, <2>2, ReaderList, ReaderConfig, ReaderState, ReaderMajor, ReaderPort, ReaderListening,
      ReaderClassify DEF DetectStep
  <2>3. CASE MachineMoves
    BY <2>1, <2>3, ReaderPasses
  <2>4. CASE UNCHANGED vars
    <3>1. Looking /\ UNCHANGED <<todo, step, reading, read>>
      BY <2>4 DEF vars, Looking
    <3>2. ReadInv' /\ AccountInv' /\ OnceInv'
      BY <3>1, SoundStays DEF ReaderInv, ReadInv, AccountInv, OnceInv, InHand, Current
    <3>3. HandInv'
      BY <3>1 DEF ReaderInv, HandInv, HalfRead, Stayed, Calm, Configured, Looking, InHand, Current
    <3>4. QED
      BY <2>1, <3>2, <3>3 DEF ReaderInv
  <2>5. QED
    BY <2>1, <2>2, <2>3, <2>4 DEF Next
<1>3. QED
  BY <1>1, <1>2, PTL DEF Spec

-----------------------------------------------------------------------------
(* What the invariant says of a verdict.                                   *)

\* A verdict about one service is about its entry, the only candidate.
LEMMA OneCandidate ==
  ASSUME Inv, verdict.state \in {"incomplete", "unreadable", "portMismatch", "found"}
  PROVE  /\ step = "done" /\ verdict = ClassifyCandidate(verdict.service)
         /\ Candidates = {verdict.service} /\ verdict.service \in Described
         /\ verdict.service.name \in Service /\ Sound(verdict.service, verdict.service.name)
<1>1. step = "done" /\ Concluded
  BY DEF Inv, VerdictInv, NoVerdict
<1>2. PICK c \in Candidates : Candidates = {c} /\ verdict = ClassifyCandidate(c)
  BY <1>1 DEF Concluded
<1>3. c \in Described /\ c \in read /\ c.name \in Service
  BY DEF Candidates, Inv, DetectionOK, Described
<1>4. verdict.service = c
  BY <1>2, <1>3, ClassifiedAs
<1>5. Sound(c, c.name)
  BY <1>3 DEF Inv, ReaderInv, ReadInv
<1>6. QED
  BY <1>1, <1>2, <1>3, <1>4, <1>5

LEMMA WhatItMeans ==
  ASSUME Inv, NEW c, c = verdict.service
  PROVE  /\ verdict.state = "incomplete" => c.problem = "yes"
         /\ verdict.state = "unreadable" => c.problem = "no" /\ c.unreadable = "yes"
         /\ verdict.state = "portMismatch" =>
              /\ c.problem = "no" /\ c.unreadable = "no" /\ c.major # 0
              /\ c.running = "yes" /\ c.listening # c.port
         /\ verdict.state = "found" =>
              /\ c.problem = "no" /\ c.unreadable = "no" /\ c.major # 0
              /\ c.running = "no" \/ c.listening = c.port
<1> SUFFICES ASSUME verdict.state \in {"incomplete", "unreadable", "portMismatch", "found"}
             PROVE  /\ verdict.state = "incomplete" => c.problem = "yes"
                    /\ verdict.state = "unreadable" => c.problem = "no" /\ c.unreadable = "yes"
                    /\ verdict.state = "portMismatch" =>
                         /\ c.problem = "no" /\ c.unreadable = "no" /\ c.major # 0
                         /\ c.running = "yes" /\ c.listening # c.port
                    /\ verdict.state = "found" =>
                         /\ c.problem = "no" /\ c.unreadable = "no" /\ c.major # 0
                         /\ c.running = "no" \/ c.listening = c.port
  OBVIOUS
<1>1. verdict = ClassifyCandidate(c) /\ c \in Described /\ Sound(c, c.name)
  BY OneCandidate
<1>2. /\ c.problem \in {"yes", "no"} /\ c.unreadable \in {"yes", "no"} /\ c.running \in {"yes", "no"}
  BY <1>1 DEF Described
<1>3. c.problem = "no" /\ c.unreadable = "no" => c.major # 0
  BY <1>1 DEF Sound, Unasked
<1>4. QED
  BY <1>1, <1>2, <1>3, ClassifiedAs

LEMMA VerdictIsTyped == Inv => VerdictOK
<1> SUFFICES ASSUME Inv, verdict # NoVerdict PROVE VerdictOK
  BY DEF VerdictOK
<1>1. Concluded
  BY DEF Inv, VerdictInv
<1>2. verdict.state \in States
  <2>1. CASE verdict.state = "ambiguous" \/ verdict.state = (IF read # {} THEN "otherMajor" ELSE "fresh")
    BY <2>1 DEF States
  <2>2. CASE \E c \in Candidates : Candidates = {c} /\ verdict = ClassifyCandidate(c)
    <3>1. PICK c \in Candidates : verdict = ClassifyCandidate(c)
      BY <2>2
    <3>2. c \in Described /\ c.problem \in {"yes", "no"} /\ c.unreadable \in {"yes", "no"}
      BY DEF Candidates, Inv, DetectionOK, Described
    <3>3. QED
      BY <3>1, <3>2, ClassifiedAs DEF States
  <2>3. QED
    BY <1>1, <2>1, <2>2 DEF Concluded
<1>3. verdict.state \in {"incomplete", "unreadable", "portMismatch", "found"} => verdict.service \in read
  BY OneCandidate DEF Candidates
<1>4. ASSUME verdict.state \in {"portMismatch", "found"} PROVE verdict.service.port \in Ports
  BY <1>4, OneCandidate, WhatItMeans DEF Sound, Placed
<1>5. QED
  BY <1>2, <1>3, <1>4 DEF VerdictOK

\* A candidate that was there all the time has an entry that counts.
LEMMA CandidateHasEntry ==
  ASSUME Inv, step = "done", NEW n \in Service, Candidate(n),
         moved[n] \cap {"registers", "deletes", "initdb"} = {}
  PROVE  \E e \in Candidates : e.name = n
<1> USE DEF Inv, ReaderInv
<1>1. ~Absent(n)
  BY DEF Absent
<1>2. PICK e \in read : e.name = n
  BY <1>1 DEF AccountInv, OnceInv, InHand
<1>3. e \in Described /\ Sound(e, n)
  BY <1>2 DEF DetectionOK, ReadInv
<1>4. e.major # 0 => e.major = Expected
  BY <1>3 DEF Sound, Placed, Candidate, Unplaceable
<1>5. QED
  BY <1>2, <1>4 DEF Candidates

\* Of a service nothing happened to, an entry that counts is of a candidate.
LEMMA EntryIsOfCandidate ==
  ASSUME Inv, NEW e \in Candidates, moved[e.name] = {}
  PROVE  e.name \in Service /\ Candidate(e.name)
<1>1. e \in read /\ e \in Described /\ e.name \in Service /\ e.problem \in {"yes", "no"}
  BY DEF Candidates, Inv, DetectionOK, Described
<1>2. Sound(e, e.name) /\ m[e.name].query \in {"works", "noStatus", "fails"}
  BY <1>1 DEF Inv, ReaderInv, ReadInv, MachineOK, Entry
<1>3. e.major = 0 \/ e.major = Expected
  BY DEF Candidates
<1>4. CASE e.major = 0 /\ e.problem = "no"
  BY <1>1, <1>2, <1>4 DEF Sound, Unasked, Candidate
<1>5. CASE e.problem = "yes"
  BY <1>1, <1>2, <1>5 DEF Sound, Troubled, Stayed, Candidate, PgctlService, Openable
<1>6. CASE e.major # 0
  BY <1>1, <1>2, <1>3, <1>6 DEF Sound, Placed, Stayed, Candidate, PgctlService, Openable
<1>7. QED
  BY <1>1, <1>3, <1>4, <1>5, <1>6

\* Two candidates are there exactly when two of them were read.
LEMMA TwoEntries ==
  ASSUME Inv, Cardinality(Candidates) > 1
  PROVE  \E a, b \in Candidates : a.name # b.name
<1>1. IsFiniteSet(Candidates)
  BY ReadIsFinite, FS_Subset DEF Inv, ReaderInv, Candidates
<1>2. Candidates # {}
  BY FS_EmptySet
<1>3. PICK a : a \in Candidates
  BY <1>2
<1>4. Candidates # {a}
  BY FS_Singleton
<1>5. PICK b \in Candidates : b # a
  BY <1>3, <1>4
<1>6. a.name # b.name
  BY <1>3, <1>5 DEF Inv, ReaderInv, OnceInv, Candidates
<1>7. QED
  BY <1>3, <1>5, <1>6

\* The state table, of a machine that did not change
LEMMA StillIsClassified ==
  ASSUME Inv, step = "done", \A name \in Service : moved[name] = {}
  PROVE  TableHolds
<1>1. Concluded
  BY DEF Inv, VerdictInv
<1>2. \A n \in Service : Candidate(n) => \E e \in Candidates : e.name = n
  BY CandidateHasEntry
<1>3. \A e \in Candidates : e.name \in Service /\ Candidate(e.name)
  <2> TAKE e \in Candidates
  <2>1. e.name \in Service
    BY DEF Candidates, Inv, DetectionOK, Described
  <2>2. QED
    BY <2>1, EntryIsOfCandidate
<1>4. CASE verdict.state = "ambiguous"
  <2>1. Cardinality(Candidates) > 1
    <3>1. CASE \E c \in Candidates : Candidates = {c} /\ verdict = ClassifyCandidate(c)
      <4>1. PICK c \in Candidates : verdict = ClassifyCandidate(c)
        BY <3>1
      <4>2. c \in Described /\ c.problem \in {"yes", "no"} /\ c.unreadable \in {"yes", "no"}
        BY DEF Candidates, Inv, DetectionOK, Described
      <4>3. QED
        BY <1>4, <4>1, <4>2, ClassifiedAs
    <3>2. QED
      BY <1>1, <1>4, <3>1 DEF Concluded
  <2>2. QED
    BY <1>3, <1>4, <2>1, TwoEntries DEF TableHolds
<1>5. CASE verdict.state \in {"incomplete", "unreadable", "portMismatch", "found"}
  <2> DEFINE c == verdict.service
  <2> DEFINE n == c.name
  <2>1. Candidates = {c} /\ c \in Described /\ n \in Service /\ Sound(c, n) /\ moved[n] = {}
    BY <1>5, OneCandidate
  <2>2. Candidate(n) /\ \A other \in Service \ {n} : ~Candidate(other)
    BY <1>2, <1>3, <2>1
  <2>3. /\ verdict.state = "incomplete" => c.problem = "yes"
        /\ verdict.state = "unreadable" => c.problem = "no" /\ c.unreadable = "yes"
        /\ verdict.state \in {"portMismatch", "found"} =>
             c.problem = "no" /\ c.unreadable = "no" /\ c.major # 0
        /\ verdict.state = "portMismatch" => c.running = "yes" /\ c.listening # c.port
    BY WhatItMeans
  <2> HIDE DEF c
  <2>4. verdict.state = "incomplete" <=> m[n].query = "works" /\ Unplaceable(n)
    <3>1. c.problem = "yes" => m[n].query = "works" /\ Unplaceable(n)
      BY <2>1 DEF Sound, Troubled
    <3>2. c.problem = "no" => ~(m[n].query = "works" /\ Unplaceable(n))
      BY <2>1, NumbersApart DEF Sound, Unasked, Placed, Unplaceable
    <3>3. QED
      BY <1>5, <2>3, <3>1, <3>2
  <2>5. verdict.state = "unreadable" => Unreadable(n)
    BY <2>1, <2>3 DEF Sound, Unasked, Placed, Unreadable
  <2>6. verdict.state \in {"portMismatch", "found"} =>
          /\ c.port = Configured(n) /\ c.running = m[n].running
          /\ c.running = "yes" => c.listening = m[n].pid
    BY <2>1, <2>3 DEF Sound, Placed, Calm
  <2>7. /\ verdict.state = "portMismatch" => m[n].running = "yes" /\ Configured(n) # m[n].pid
        /\ verdict.state = "found" => c.port = Configured(n)
    BY <2>3, <2>6
  <2>8. QED
    BY <1>5, <2>2, <2>4, <2>5, <2>7 DEF TableHolds, c
<1>6. ASSUME Candidates = {}, verdict.state = (IF read # {} THEN "otherMajor" ELSE "fresh")
      PROVE  TableHolds
  <2>1. \A n \in Service : ~Candidate(n)
    BY <1>2, <1>6
  <2>2. CASE read # {}
    <3>1. PICK e : e \in read /\ e.major \notin {0, Expected}
      BY <1>6, <2>2 DEF Candidates
    <3>2. e.name \in Service /\ Sound(e, e.name) /\ moved[e.name] = {}
      BY <3>1 DEF Inv, DetectionOK, ReaderInv, ReadInv, Described
    <3>3. PgctlService(e.name) /\ m[e.name].query = "works"
      BY <3>1, <3>2 DEF Sound, Placed, Stayed, PgctlService, Openable
    <3>4. QED
      BY <1>6, <2>1, <2>2, <3>2, <3>3 DEF TableHolds
  <2>3. CASE read = {}
    <3>1. ASSUME NEW n \in Service PROVE PgctlService(n) => m[n].query # "works"
      <4>1. Absent(n)
        BY <2>3 DEF Inv, ReaderInv, AccountInv, OnceInv, InHand
      <4>2. QED
        BY <4>1 DEF Absent
    <3>2. QED
      BY <1>6, <2>1, <2>3, <3>1 DEF TableHolds
  <2>4. QED
    BY <2>2, <2>3
<1>7. CASE \E c \in Candidates : Candidates = {c} /\ verdict = ClassifyCandidate(c)
  <2>1. PICK c \in Candidates : verdict = ClassifyCandidate(c)
    BY <1>7
  <2>2. /\ c \in Described /\ c.problem \in {"yes", "no"} /\ c.unreadable \in {"yes", "no"}
        /\ c.running \in {"yes", "no"}
    BY DEF Candidates, Inv, DetectionOK, Described
  <2>3. verdict.state \in {"incomplete", "unreadable", "portMismatch", "found"}
    BY <2>1, <2>2, ClassifiedAs
  <2>4. QED
    BY <1>5, <2>3
<1>8. QED
  BY <1>1, <1>4, <1>6, <1>7 DEF Concluded

-----------------------------------------------------------------------------
(* The theorems.                                                           *)

\* Detect and Classify keep their data in its types, and a verdict that names a
\* service names one that was read.
THEOREM TypeCorrect == Spec => []TypeOK
<1>1. Inv => TypeOK
  BY VerdictIsTyped DEF Inv, TypeOK
<1>2. QED
  BY <1>1, InvHolds, PTL

\* The reader is sent to repair a file only for an error that was there, or because
\* the service was stopped, edited or deleted while it was read.
THEOREM UnreadableHolds == Spec => []UnreadableIsReal
<1>1. ASSUME Inv, verdict.state = "unreadable" PROVE UnreadableIsReal
  <2> DEFINE c == verdict.service
  <2> DEFINE n == c.name
  <2>1. c.problem = "no" /\ c.unreadable = "yes" /\ Sound(c, n)
    BY <1>1, OneCandidate, WhatItMeans
  <2> SUFFICES Unreadable(n) \/ moved[n] \cap {"stops", "edits", "deletes"} # {}
    BY DEF UnreadableIsReal
  <2> HIDE DEF c
  <2>2. CASE c.major = 0
    BY <2>1, <2>2 DEF Sound, Unasked, Unreadable
  <2>3. CASE c.major # 0
    BY <2>1, <2>3 DEF Sound, Placed
  <2>4. QED
    BY <2>2, <2>3
<1>2. Inv => UnreadableIsReal
  BY <1>1 DEF UnreadableIsReal
<1>3. QED
  BY <1>2, InvHolds, PTL

\* The port of a found service is the one its server listens on, if it runs by then,
\* whatever started or stopped while it was read.
THEOREM FoundHolds == Spec => []FoundServesItsPort
<1>1. ASSUME Inv, verdict.state = "found" PROVE FoundServesItsPort
  <2> DEFINE c == verdict.service
  <2> DEFINE n == c.name
  <2>1. /\ Sound(c, n) /\ c.problem = "no" /\ c.unreadable = "no" /\ c.major # 0
        /\ c.running = "no" \/ c.listening = c.port
    BY <1>1, OneCandidate, WhatItMeans
  <2> SUFFICES ASSUME moved[n] \cap {"edits", "initdb"} = {}
               PROVE  /\ c.port = Configured(n)
                      /\ m[n].running = "yes" => m[n].pid = c.port
    BY DEF FoundServesItsPort
  <2> HIDE DEF c
  <2>2. Calm(n)
    BY DEF Calm
  <2>3. QED
    BY <2>1, <2>2 DEF Sound, Placed
<1>2. Inv => FoundServesItsPort
  BY <1>1 DEF FoundServesItsPort
<1>3. QED
  BY <1>2, InvHolds, PTL

\* Setup never installs beside a server, nor configures one of two: a candidate that
\* was there all the time is not overlooked, whatever happened to the others.
THEOREM CandidatesHold == Spec => []CandidatesAreNotOverlooked
<1> DEFINE there == {n \in Service : Candidate(n) /\ moved[n] \cap {"registers", "deletes", "initdb"} = {}}
<1>1. ASSUME Inv, step = "done", there # {} PROVE verdict.state \notin {"fresh", "otherMajor"}
  <2>1. PICK n \in Service : Candidate(n) /\ moved[n] \cap {"registers", "deletes", "initdb"} = {}
    BY <1>1
  <2>2. Candidates # {}
    BY <1>1, <2>1, CandidateHasEntry
  <2>3. CASE \E c \in Candidates : Candidates = {c} /\ verdict = ClassifyCandidate(c)
    <3>1. PICK c \in Candidates : verdict = ClassifyCandidate(c)
      BY <2>3
    <3>2. c \in Described /\ c.problem \in {"yes", "no"} /\ c.unreadable \in {"yes", "no"}
      BY <1>1 DEF Candidates, Inv, DetectionOK, Described
    <3>3. QED
      BY <3>1, <3>2, ClassifiedAs
  <2>4. QED
    BY <1>1, <2>2, <2>3 DEF Inv, VerdictInv, Concluded
<1>2. ASSUME Inv, step = "done", Cardinality(there) > 1 PROVE verdict.state = "ambiguous"
  <2>1. IsFiniteSet(there)
    BY ServiceAssumption, FS_Subset
  <2>2. there # {}
    BY <1>2, FS_EmptySet
  <2>3. PICK a : a \in there
    BY <2>2
  <2>4. there # {a}
    <3> HIDE DEF there
    <3>1. Cardinality({a}) = 1
      BY FS_Singleton
    <3>2. QED
      BY <1>2, <3>1
  <2>5. PICK b \in there : b # a
    BY <2>3, <2>4
  <2>6. \A n \in there : \E e \in Candidates : e.name = n
    BY <1>2, CandidateHasEntry
  <2>7. Candidates # {} /\ ~\E c \in Candidates : Candidates = {c}
    BY <2>3, <2>5, <2>6
  <2>8. QED
    BY <1>2, <2>7 DEF Inv, VerdictInv, Concluded
<1>3. Inv => CandidatesAreNotOverlooked
  BY <1>1, <1>2 DEF CandidatesAreNotOverlooked
<1>4. QED
  BY <1>3, InvHolds, PTL

\* Of a machine that did not change while it was read, the verdict is the row of the
\* state table that holds.
THEOREM StillHolds == Spec => []StillMachineIsClassified
<1>1. Inv => StillMachineIsClassified
  BY StillIsClassified DEF StillMachineIsClassified
<1>2. QED
  BY <1>1, InvHolds, PTL
=============================================================================
