--------------------------- MODULE Provision_proofs ---------------------------
(***************************************************************************)
(* Theorems about Provision, for any number of runs and any options.       *)
(***************************************************************************)
EXTENDS Provision, TLAPS

(* Where the statements that matter stand in the script. *)

LEMMA ScriptLength == Len(Script) = 41
BY DEF Script

LEMMA ScriptPlaces ==
  /\ Script[16] = "defaultPrivileges" /\ Script[23] = "metaSQL"
  /\ \A i \in 1..41 : /\ Script[i] = "setTrends" => i = 18
                      /\ Script[i] = "defaultPrivileges" => i = 16
                      /\ Script[i] = "metaSQL" => i = 23
BY DEF Script

LEMMA StatementPlaces == Statement("defaultPrivileges") = 16 /\ Statement("metaSQL") = 23
BY ScriptLength, ScriptPlaces DEF Statement

-----------------------------------------------------------------------------
(* Types. *)

LEMMA ScriptMoves ==
  ASSUME TypeOK, NEW r \in Run, Advance(r) \/ \E v \in Outcomes : Finish(r, v)
  PROVE  pc' \in [Run -> 1..Len(Script)] /\ outcome' \in [Run -> Outcomes]
BY ScriptLength DEF TypeOK, Advance, Finish, Outcomes

LEMMA CreateMoves ==
  ASSUME TypeOK, NEW r \in Run, NEW object \in Objects, NEW more \in SUBSET Objects,
         CreateAbsent(r, object, more)
  PROVE  /\ objects' \subseteq Objects /\ raced' \subseteq Run
         /\ pc' \in [Run -> 1..Len(Script)] /\ outcome' \in [Run -> Outcomes]
         /\ IF object \in objects THEN objects' = objects
                                  ELSE objects' = objects \cup {object} \cup more
<1>1. Advance(r) \/ Finish(r, "conflict")
  BY DEF CreateAbsent
<1>2. "conflict" \in Outcomes
  BY DEF Outcomes
<1>3. pc' \in [Run -> 1..Len(Script)] /\ outcome' \in [Run -> Outcomes]
  BY <1>1, <1>2, ScriptMoves
<1>4. objects' \subseteq Objects /\ raced' \subseteq Run
  BY DEF CreateAbsent, TypeOK, Overtaken
<1> QED
  BY <1>3, <1>4 DEF CreateAbsent

LEMMA InitTypes == Init => TypeOK
BY ScriptLength DEF Init, TypeOK, Outcomes

LEMMA RunTypes ==
  ASSUME TypeOK, NEW r \in Run, RunStep(r) \/ Cut(r)
  PROVE  TypeOK'
<1> USE DEF Outcomes
<1>1. CASE Start(r)
  BY <1>1 DEF Start, TypeOK, cluster
<1>2. CASE AssertServerVersion(r)
  <2>1. pc' \in [Run -> 1..Len(Script)] /\ outcome' \in [Run -> Outcomes]
    BY <1>2, ScriptMoves DEF AssertServerVersion
  <2> QED
    BY <1>2, <2>1 DEF AssertServerVersion, TypeOK, cluster
<1>3. CASE CheckExists(r)
  <2>1. pc' \in [Run -> 1..Len(Script)] /\ outcome' \in [Run -> Outcomes]
    BY <1>3, ScriptMoves DEF CheckExists
  <2> QED
    BY <1>3, <2>1 DEF CheckExists, TypeOK, cluster
<1>4. CASE SetWriter(r)
  <2>1. CASE CreateAbsent(r, "writer", {})
    <3>1. /\ pc' \in [Run -> 1..Len(Script)] /\ outcome' \in [Run -> Outcomes]
          /\ objects' \subseteq Objects /\ raced' \subseteq Run
          /\ objects' = objects \cup {"writer"}
      BY <2>1, CreateMoves DEF Objects
    <3>2. writerPassword' = IF "writer" \in objects THEN writerPassword
                                                    ELSE options[r].writer
      BY <1>4, <2>1 DEF SetWriter, CreateAbsent
    <3>3. options[r].writer \in Passwords
      BY OptionsAssumption DEF TypeOK
    <3> QED
      BY <1>4, <3>1, <3>2, <3>3 DEF SetWriter, TypeOK, Passwords
  <2>2. CASE seen[r] = "present"
    BY <1>4, <2>2, ScriptMoves DEF SetWriter, CreateAbsent, TypeOK
  <2> QED
    BY <1>4, <2>1, <2>2 DEF SetWriter
<1>5. CASE SetPlot(r)
  <2>1. /\ plotPassword' \in Passwords \cup {"none"} /\ replaced' \subseteq Run
        /\ UNCHANGED <<acls, writerPassword, trendsBy, unreadable, schemaVersion, seen, options>>
    BY <1>5, OptionsAssumption DEF SetPlot, Resets, TypeOK
  <2>2. CASE CreateAbsent(r, "plot", {})
    <3>1. /\ pc' \in [Run -> 1..Len(Script)] /\ outcome' \in [Run -> Outcomes]
          /\ objects' \subseteq Objects /\ raced' \subseteq Run
          /\ objects' = objects \cup {"plot"}
      BY <2>2, CreateMoves DEF Objects
    <3> QED
      BY <2>1, <3>1 DEF TypeOK
  <2>3. CASE seen[r] = "present"
    <3>1. pc' \in [Run -> 1..Len(Script)] /\ outcome' \in [Run -> Outcomes]
      BY <1>5, <2>3, ScriptMoves DEF SetPlot, CreateAbsent
    <3>2. UNCHANGED <<objects, raced>>
      BY <1>5, <2>3 DEF SetPlot, CreateAbsent
    <3> QED
      BY <2>1, <3>1, <3>2 DEF TypeOK
  <2> QED
    BY <1>5, <2>2, <2>3 DEF SetPlot
<1>6. CASE SetRegistrar(r)
  <2>1. CASE CreateAbsent(r, "registrar", {})
    <3>1. /\ pc' \in [Run -> 1..Len(Script)] /\ outcome' \in [Run -> Outcomes]
          /\ objects' \subseteq Objects /\ raced' \subseteq Run
          /\ objects' = objects \cup {"registrar"}
      BY <2>1, CreateMoves DEF Objects
    <3> QED
      BY <1>6, <3>1 DEF SetRegistrar, TypeOK
  <2>2. CASE seen[r] = "present"
    BY <1>6, <2>2, ScriptMoves DEF SetRegistrar, CreateAbsent, TypeOK
  <2> QED
    BY <1>6, <2>1, <2>2 DEF SetRegistrar
<1>7. CASE SetDatabase(r)
  <2>1. acls' \subseteq Acls
    BY <1>7 DEF SetDatabase, TypeOK, Acls
  <2>2. CASE CreateAbsent(r, "database", {})
    <3>1. /\ pc' \in [Run -> 1..Len(Script)] /\ outcome' \in [Run -> Outcomes]
          /\ objects' \subseteq Objects /\ raced' \subseteq Run
          /\ objects' = objects \cup {"database"}
      BY <2>2, CreateMoves DEF Objects
    <3> QED
      BY <1>7, <2>1, <3>1 DEF SetDatabase, TypeOK
  <2>3. CASE seen[r] = "present"
    BY <1>7, <2>3, ScriptMoves DEF SetDatabase, CreateAbsent, TypeOK
  <2> QED
    BY <1>7, <2>2, <2>3 DEF SetDatabase
<1>8. CASE SetTrends(r)
  <2>1. unreadable' \subseteq {"trends", "messages"}
    BY <1>8 DEF SetTrends, TypeOK, Created
  <2>2. CASE CreateAbsent(r, "trends", {"tpdefault"})
    <3>1. /\ pc' \in [Run -> 1..Len(Script)] /\ outcome' \in [Run -> Outcomes]
          /\ objects' \subseteq Objects /\ raced' \subseteq Run
          /\ IF "trends" \in objects THEN objects' = objects
                                     ELSE objects' = objects \cup {"trends", "tpdefault"}
      BY <2>2, CreateMoves DEF Objects
    <3>2. trendsBy' = IF "trends" \in objects THEN trendsBy ELSE "tool"
      BY <1>8, <2>2 DEF SetTrends, CreateAbsent
    <3>3. /\ trendsBy' \in {"none", "tool", "scada"}
          /\ trendsBy' = "none" <=> "trends" \notin objects'
      BY <3>1, <3>2 DEF TypeOK
    <3>4. "writer" \in objects' <=> "writer" \in objects
      BY <3>1
    <3> QED
      BY <1>8, <2>1, <3>1, <3>3, <3>4 DEF SetTrends, TypeOK
  <2>3. CASE seen[r] = "present"
    <3>1. pc' \in [Run -> 1..Len(Script)] /\ outcome' \in [Run -> Outcomes]
      BY <1>8, <2>3, ScriptMoves DEF SetTrends, CreateAbsent
    <3>2. UNCHANGED <<objects, trendsBy, raced>>
      BY <1>8, <2>3 DEF SetTrends, CreateAbsent
    <3> QED
      BY <1>8, <2>1, <3>1, <3>2 DEF SetTrends, TypeOK
  <2> QED
    BY <1>8, <2>2, <2>3 DEF SetTrends
<1>9. CASE SchemaFile(r)
  <2>1. pc' \in [Run -> 1..Len(Script)] /\ outcome' \in [Run -> Outcomes]
    BY <1>9, ScriptMoves DEF SchemaFile
  <2>2. acls' \subseteq Acls
    BY <1>9 DEF SchemaFile, TypeOK, Acls
  <2>3. schemaVersion' \in {0} \cup {o.version : o \in Options}
    BY <1>9 DEF SchemaFile, TypeOK
  <2>4. /\ objects' \subseteq Objects
        /\ "writer" \in objects' <=> "writer" \in objects
        /\ "trends" \in objects' <=> "trends" \in objects
    BY <1>9 DEF SchemaFile, TypeOK, Objects, Makes
  <2> QED
    BY <1>9, <2>1, <2>2, <2>3, <2>4 DEF SchemaFile, TypeOK
<1>10. CASE Privilege(r)
  BY <1>10, ScriptMoves DEF Privilege, TypeOK, Acls, Takes
<1>11. CASE TailCheck(r)
  BY <1>11, ScriptMoves DEF TailCheck, TypeOK, cluster
<1>12. CASE PlotLogin(r)
  BY <1>12, ScriptMoves DEF PlotLogin, TypeOK, cluster
<1>13. CASE Cut(r)
  BY <1>13, ScriptMoves DEF Cut, TypeOK, cluster
<1> QED
  BY <1>1, <1>2, <1>3, <1>4, <1>5, <1>6, <1>7, <1>8, <1>9, <1>10, <1>11, <1>12, <1>13 DEF RunStep

LEMMA TypesStep == TypeOK /\ [Next]_vars => TypeOK'
<1> SUFFICES ASSUME TypeOK, [Next]_vars PROVE TypeOK'
  OBVIOUS
<1>1. CASE \E r \in Run : RunStep(r) \/ Cut(r)
  BY <1>1, RunTypes
<1>2. CASE ScadaCreatesTrends
  <2>1. unreadable' \subseteq {"trends", "messages"} /\ raced' \subseteq Run
    BY <1>2 DEF ScadaCreatesTrends, Created, Overtaken, TypeOK
  <2>2. /\ objects' \subseteq Objects /\ "trends" \in objects'
        /\ "writer" \in objects' <=> "writer" \in objects
    BY <1>2 DEF ScadaCreatesTrends, TypeOK, Objects
  <2> QED
    BY <1>2, <2>1, <2>2 DEF ScadaCreatesTrends, TypeOK
<1>3. CASE ScadaCreatesMessages
  <2>1. unreadable' \subseteq {"trends", "messages"}
    BY <1>3 DEF ScadaCreatesMessages, Created, TypeOK
  <2>2. /\ objects' \subseteq Objects
        /\ "writer" \in objects' <=> "writer" \in objects
        /\ "trends" \in objects' <=> "trends" \in objects
    BY <1>3 DEF ScadaCreatesMessages, TypeOK, Objects
  <2> QED
    BY <1>3, <2>1, <2>2 DEF ScadaCreatesMessages, TypeOK
<1>4. CASE WriterPasswordChanges
  BY <1>4 DEF WriterPasswordChanges, TypeOK
<1>5. CASE UNCHANGED vars
  BY <1>5 DEF vars, cluster, TypeOK
<1> QED
  BY <1>1, <1>2, <1>3, <1>4, <1>5 DEF Next

\* Whatever the runs and their options, the cluster and the runs stay within their
\* types, a writer has a password exactly if it exists, and a trends has a creator.
THEOREM TypeCorrect == Spec => []TypeOK
BY InitTypes, TypesStep, PTL DEF Spec

-----------------------------------------------------------------------------
(* A run moves through the script one statement at a time, and no other run moves. *)

LEMMA OneStatement ==
  ASSUME TypeOK, NEW r \in Run, RunStep(r) \/ Cut(r)
  PROVE  \/ UNCHANGED pc
         \/ pc[r] + 1 \in 1..41 /\ pc' = [pc EXCEPT ![r] = pc[r] + 1]
<1>1. Advance(r) \/ UNCHANGED pc
  BY DEF RunStep, Start, AssertServerVersion, CheckExists, SetWriter, SetPlot, SetRegistrar,
         SetDatabase, SetTrends, SchemaFile, Privilege, TailCheck, PlotLogin, Cut, CreateAbsent, Finish
<1> QED
  BY <1>1, ScriptLength DEF Advance, Finish, TypeOK

LEMMA AroundTheRuns ==
  ASSUME ScadaCreatesTrends \/ ScadaCreatesMessages \/ WriterPasswordChanges
  PROVE  UNCHANGED <<acls, schemaVersion, pc, options>>
BY DEF ScadaCreatesTrends, ScadaCreatesMessages, WriterPasswordChanges

-----------------------------------------------------------------------------
(* The default privileges and what the writer creates. *)

DefaultsInForce ==
  \A r \in Run : pc[r] > Statement("defaultPrivileges") => "defaultPrivileges" \in acls
UnreadableExist == "trends" \in unreadable => "trends" \in objects

\* No statement takes the default privileges away.
LEMMA DefaultsStay ==
  ASSUME [Next]_vars, "defaultPrivileges" \in acls
  PROVE  "defaultPrivileges" \in acls'
<1>1. CASE \E r \in Run : Privilege(r)
  BY <1>1 DEF Privilege, Takes
<1>2. CASE \E r \in Run : SchemaFile(r)
  BY <1>2 DEF SchemaFile
<1>3. CASE \E r \in Run : SetDatabase(r)
  BY <1>3 DEF SetDatabase
<1>4. CASE \E r \in Run : Start(r) \/ AssertServerVersion(r) \/ CheckExists(r) \/ SetWriter(r)
                         \/ SetPlot(r) \/ SetRegistrar(r) \/ SetTrends(r) \/ TailCheck(r) \/ PlotLogin(r) \/ Cut(r)
  BY <1>4 DEF Start, AssertServerVersion, CheckExists, SetWriter, SetPlot, SetRegistrar,
              SetTrends, TailCheck, PlotLogin, Cut, cluster
<1>5. CASE UNCHANGED vars
  BY <1>5 DEF vars, cluster
<1> QED
  BY <1>1, <1>2, <1>3, <1>4, <1>5, AroundTheRuns DEF Next, RunStep

\* A run gets past the default privileges by no other statement.
LEMMA PrivilegeOnly ==
  ASSUME TypeOK, NEW r \in Run, RunStep(r) \/ Cut(r), pc'[r] # pc[r],
         Script[pc[r]] = "defaultPrivileges"
  PROVE  Privilege(r)
<1>1. ~Start(r) /\ ~Cut(r)
  BY DEF Start, Cut, Finish
<1>2. ~AssertServerVersion(r) /\ ~CheckExists(r)
  BY DEF AssertServerVersion, CheckExists, At
<1>3. ~SetWriter(r) /\ ~SetPlot(r) /\ ~SetRegistrar(r) /\ ~SetDatabase(r) /\ ~SetTrends(r)
  BY DEF SetWriter, SetPlot, SetRegistrar, SetDatabase, SetTrends, At
<1>4. ~SchemaFile(r) /\ ~TailCheck(r) /\ ~PlotLogin(r)
  BY DEF SchemaFile, TailCheck, PlotLogin, At, TailChecks
<1> QED
  BY <1>1, <1>2, <1>3, <1>4 DEF RunStep

\* The only way past the statement is the statement.
LEMMA DefaultsStep ==
  ASSUME TypeOK, DefaultsInForce, [Next]_vars
  PROVE  DefaultsInForce'
<1> USE StatementPlaces
<1>1. CASE UNCHANGED pc
  BY <1>1, DefaultsStay DEF DefaultsInForce
<1>2. ASSUME NEW r \in Run, RunStep(r) \/ Cut(r), pc[r] + 1 \in 1..41,
             pc' = [pc EXCEPT ![r] = pc[r] + 1]
      PROVE  DefaultsInForce'
  <2>1. pc[r] # 16 => "defaultPrivileges" \in acls \/ pc'[r] <= 16
    BY <1>2 DEF DefaultsInForce, TypeOK
  <2>2. pc[r] = 16 => Privilege(r)
    <3>1. pc'[r] # pc[r]
      BY <1>2, ScriptLength DEF TypeOK
    <3> QED
      BY <1>2, <3>1, PrivilegeOnly, ScriptPlaces
  <2>3. pc[r] = 16 => "defaultPrivileges" \in acls'
    <3> SUFFICES ASSUME pc[r] = 16 PROVE "defaultPrivileges" \in acls'
      OBVIOUS
    <3>1. Advance(r)
      BY <1>2, <2>2 DEF Privilege, Finish, TypeOK
    <3>2. acls' = (acls \ Takes("defaultPrivileges")) \cup ({"defaultPrivileges"} \cap Given)
      BY <1>2, <2>2, ScriptPlaces DEF Privilege, Finish, At, TypeOK
    <3> QED
      BY <3>2 DEF Given
  <2> QED
    BY <1>2, <2>1, <2>3, DefaultsStay DEF DefaultsInForce, TypeOK
<1>3. CASE \E r \in Run : RunStep(r) \/ Cut(r)
  BY <1>1, <1>2, <1>3, OneStatement
<1> QED
  BY <1>1, <1>3, AroundTheRuns DEF Next, vars

LEMMA ObjectsGrow ==
  ASSUME [Next]_vars
  PROVE  objects \subseteq objects'
<1>1. ASSUME NEW r \in Run, RunStep(r) \/ Cut(r)
      PROVE  objects \subseteq objects'
  BY <1>1 DEF RunStep, Start, AssertServerVersion, CheckExists, SetWriter, SetPlot, SetRegistrar,
              SetDatabase, SetTrends, SchemaFile, Privilege, TailCheck, PlotLogin, Cut, CreateAbsent, cluster
<1>2. CASE ScadaCreatesTrends \/ ScadaCreatesMessages \/ WriterPasswordChanges
  BY <1>2 DEF ScadaCreatesTrends, ScadaCreatesMessages, WriterPasswordChanges
<1> QED
  BY <1>1, <1>2 DEF Next, vars, cluster

\* setTrends comes after defaultPrivileges, so the tool's own trends is readable.
LEMMA TrendsAfterDefaults ==
  ASSUME TypeOK, DefaultsInForce, NEW r \in Run, SetTrends(r)
  PROVE  UNCHANGED unreadable
<1>1. pc[r] = 18
  BY ScriptLength, ScriptPlaces DEF SetTrends, At, TypeOK
<1>2. "defaultPrivileges" \in acls
  BY <1>1, StatementPlaces DEF DefaultsInForce
<1> QED
  BY <1>2 DEF SetTrends, Created, CreateAbsent

\* No other statement of a run touches the archive table or the list of unreadable ones.
LEMMA TrendsUntouched ==
  ASSUME NEW r \in Run, RunStep(r) \/ Cut(r), ~SetTrends(r)
  PROVE  UNCHANGED <<unreadable, trendsBy>>
BY DEF RunStep, Start, AssertServerVersion, CheckExists, SetWriter, SetPlot, SetRegistrar,
       SetDatabase, SchemaFile, Privilege, TailCheck, PlotLogin, Cut, cluster

ReadableInv == TypeOK /\ DefaultsInForce /\ UnreadableExist /\ ToolTrendsReadable

LEMMA ReadableInit == Init => ReadableInv
BY InitTypes, StatementPlaces
DEF Init, ReadableInv, DefaultsInForce, UnreadableExist, ToolTrendsReadable

LEMMA ReadableStep ==
  ASSUME ReadableInv, [Next]_vars
  PROVE  ReadableInv'
<1> USE DEF ReadableInv
<1>1. TypeOK' /\ DefaultsInForce' /\ objects \subseteq objects'
  BY TypesStep, DefaultsStep, ObjectsGrow
<1>2. ASSUME UNCHANGED <<unreadable, trendsBy>>
      PROVE  UnreadableExist' /\ ToolTrendsReadable'
  BY <1>1, <1>2 DEF UnreadableExist, ToolTrendsReadable
<1>3. ASSUME NEW r \in Run, SetTrends(r)
      PROVE  UnreadableExist' /\ ToolTrendsReadable'
  <2>1. UNCHANGED unreadable
    BY <1>3, TrendsAfterDefaults
  <2>2. UNCHANGED trendsBy \/ "trends" \notin objects
    BY <1>3 DEF SetTrends
  <2> QED
    BY <1>1, <2>1, <2>2 DEF UnreadableExist, ToolTrendsReadable
<1>4. CASE ScadaCreatesTrends
  BY <1>1, <1>4 DEF ScadaCreatesTrends, UnreadableExist, ToolTrendsReadable
<1>5. CASE ScadaCreatesMessages
  BY <1>1, <1>5 DEF ScadaCreatesMessages, Created, UnreadableExist, ToolTrendsReadable
<1>6. CASE WriterPasswordChanges
  BY <1>1, <1>2, <1>6 DEF WriterPasswordChanges
<1>7. CASE UNCHANGED vars
  BY <1>1, <1>2, <1>7 DEF vars, cluster
<1> QED
  BY <1>1, <1>2, <1>3, <1>4, <1>5, <1>6, <1>7, TrendsUntouched DEF Next

\* However many runs there are and wherever each of them stops, an archive table that
\* the tool created is one the viewer reads: create gives the default privileges
\* before the table (create.go, the order of create).
THEOREM ToolTrendsAreReadable == Spec => []ToolTrendsReadable
<1>1. Init => ReadableInv
  BY ReadableInit
<1>2. ReadableInv /\ [Next]_vars => ReadableInv'
  BY ReadableStep
<1>3. ReadableInv => ToolTrendsReadable
  BY DEF ReadableInv
<1> QED
  BY <1>1, <1>2, <1>3, PTL DEF Spec

\* Once any run has passed the default privileges, every table the SCADA or a run
\* creates is readable from birth (create.go, the comment above
\* defaultPrivilegesStatement).
THEOREM TablesAreReadableFromThenOn == Spec => ReadableFromThenOn
<1>1. ASSUME ReadableInv, [Next]_vars, \E r \in Run : pc[r] > Statement("defaultPrivileges")
      PROVE  unreadable' = unreadable
  <2>1. "defaultPrivileges" \in acls
    BY <1>1 DEF ReadableInv, DefaultsInForce
  <2>2. CASE \E r \in Run : RunStep(r) \/ Cut(r)
    BY <1>1, <2>2, TrendsAfterDefaults, TrendsUntouched DEF ReadableInv
  <2>3. CASE ScadaCreatesTrends \/ ScadaCreatesMessages
    BY <2>1, <2>3 DEF ScadaCreatesTrends, ScadaCreatesMessages, Created
  <2>4. CASE WriterPasswordChanges \/ UNCHANGED vars
    BY <2>4 DEF WriterPasswordChanges, vars, cluster
  <2> QED
    BY <1>1, <2>2, <2>3, <2>4 DEF Next
<1>2. ReadableInv /\ [Next]_vars =>
        [(\E r \in Run : pc[r] > Statement("defaultPrivileges")) => unreadable' = unreadable]_vars
  BY <1>1
<1>3. Init => ReadableInv
  BY ReadableInit
<1>4. ReadableInv /\ [Next]_vars => ReadableInv'
  BY ReadableStep
<1> QED
  BY <1>2, <1>3, <1>4, PTL DEF Spec, ReadableFromThenOn

-----------------------------------------------------------------------------
(* The schema version. *)

LEMMA VersionTypes ==
  ASSUME TypeOK
  PROVE  schemaVersion \in Nat /\ \A r \in Run : options[r].version \in Nat
BY OptionsAssumption DEF TypeOK

LEMMA OnlyUpwards ==
  ASSUME TypeOK, [Next]_vars
  PROVE  /\ schemaVersion' \in Nat /\ schemaVersion' >= schemaVersion
         /\ options' = options
<1>1. schemaVersion \in Nat /\ schemaVersion' \in Nat
  BY TypesStep, OptionsAssumption DEF TypeOK
<1>2. ASSUME NEW r \in Run, SchemaFile(r)
      PROVE  schemaVersion' >= schemaVersion /\ options' = options
  BY <1>1, <1>2, VersionTypes DEF SchemaFile
<1>3. ASSUME NEW r \in Run, RunStep(r) \/ Cut(r), ~SchemaFile(r)
      PROVE  UNCHANGED <<schemaVersion, options>>
  BY <1>3 DEF RunStep, Start, AssertServerVersion, CheckExists, SetWriter, SetPlot, SetRegistrar,
              SetDatabase, SetTrends, Privilege, TailCheck, PlotLogin, Cut, cluster
<1> QED
  BY <1>1, <1>2, <1>3, AroundTheRuns DEF Next, vars, cluster

\* metaSQL leaves the version at the run's own or above.
LEMMA MetaRaises ==
  ASSUME TypeOK, NEW r \in Run, RunStep(r) \/ Cut(r), pc'[r] # pc[r],
         Script[pc[r]] = "metaSQL"
  PROVE  schemaVersion' >= options[r].version
<1>1. ~Start(r) /\ ~Cut(r)
  BY DEF Start, Cut, Finish
<1>2. ~AssertServerVersion(r) /\ ~CheckExists(r)
  BY DEF AssertServerVersion, CheckExists, At
<1>3. ~SetWriter(r) /\ ~SetPlot(r) /\ ~SetRegistrar(r) /\ ~SetDatabase(r) /\ ~SetTrends(r)
  BY DEF SetWriter, SetPlot, SetRegistrar, SetDatabase, SetTrends, At
<1>4. ~Privilege(r) /\ ~TailCheck(r) /\ ~PlotLogin(r)
  BY DEF Privilege, Given, TailCheck, PlotLogin, At, TailChecks
<1>5. SchemaFile(r)
  BY <1>1, <1>2, <1>3, <1>4 DEF RunStep
<1>6. schemaVersion' = IF schemaVersion < options[r].version THEN options[r].version
                                                            ELSE schemaVersion
  BY <1>5 DEF SchemaFile, At, Finish
<1> QED
  BY <1>6, VersionTypes

LEMMA FloorStep ==
  ASSUME TypeOK, SchemaVersionIsAFloor, [Next]_vars
  PROVE  SchemaVersionIsAFloor'
<1> USE StatementPlaces
<1>1. schemaVersion \in Nat /\ \A r \in Run : options[r].version \in Nat
  BY VersionTypes
<1>2. CASE UNCHANGED pc
  BY <1>1, <1>2, OnlyUpwards DEF SchemaVersionIsAFloor
<1>3. ASSUME NEW r \in Run, RunStep(r) \/ Cut(r), pc[r] + 1 \in 1..41,
             pc' = [pc EXCEPT ![r] = pc[r] + 1]
      PROVE  SchemaVersionIsAFloor'
  <2>1. pc[r] \in 1..41 /\ pc'[r] = pc[r] + 1
    BY <1>3, ScriptLength DEF TypeOK
  <2>2. pc[r] = 23 => schemaVersion' >= options[r].version
    BY <1>3, <2>1, MetaRaises, ScriptPlaces
  <2>3. \A q \in Run : pc[q] > 23 => schemaVersion' >= options[q].version
    BY <1>1, OnlyUpwards DEF SchemaVersionIsAFloor
  <2>4. \A q \in Run : pc'[q] > 23 => pc[q] > 23 \/ (q = r /\ pc[r] = 23)
    BY <1>3, <2>1 DEF TypeOK
  <2> QED
    BY <2>2, <2>3, <2>4, OnlyUpwards DEF SchemaVersionIsAFloor
<1>4. CASE \E r \in Run : RunStep(r) \/ Cut(r)
  BY <1>2, <1>3, <1>4, OneStatement
<1> QED
  BY <1>2, <1>4, AroundTheRuns DEF Next, vars

\* For any number of runs of any builds, the version on record is never below the one
\* of a run that has written it (semiplot_meta.sql, the upsert's WHERE).
THEOREM VersionIsAFloor == Spec => []SchemaVersionIsAFloor
<1>1. Init => TypeOK /\ SchemaVersionIsAFloor
  BY InitTypes, StatementPlaces DEF Init, SchemaVersionIsAFloor
<1>2. TypeOK /\ SchemaVersionIsAFloor /\ [Next]_vars => (TypeOK /\ SchemaVersionIsAFloor)'
  BY TypesStep, FloorStep
<1> QED
  BY <1>1, <1>2, PTL DEF Spec

-----------------------------------------------------------------------------
(* The writer's password. *)

\* No run changes the password of a writer that exists, whatever was checked when
\* (create.go, ensureRole with resetExisting false).
THEOREM PasswordIsKept == Spec => WriterPasswordKept
<1>1. ASSUME TypeOK, [Next]_vars, writerPassword' # writerPassword
      PROVE  writerPassword = "none" \/ writerPassword' = "scada"
  <2>1. CASE \E r \in Run : RunStep(r) \/ Cut(r)
    <3>1. PICK r \in Run : RunStep(r) \/ Cut(r)
      BY <2>1
    <3>2. SetWriter(r)
      BY <1>1, <3>1 DEF RunStep, Start, AssertServerVersion, CheckExists, SetPlot, SetRegistrar,
                        SetDatabase, SetTrends, SchemaFile, Privilege, TailCheck, PlotLogin, Cut, cluster
    <3>3. "writer" \notin objects
      BY <1>1, <3>2 DEF SetWriter
    <3> QED
      BY <1>1, <3>3 DEF TypeOK
  <2>2. CASE ScadaCreatesTrends \/ ScadaCreatesMessages \/ UNCHANGED vars
    BY <1>1, <2>2 DEF ScadaCreatesTrends, ScadaCreatesMessages, vars, cluster
  <2>3. CASE WriterPasswordChanges
    BY <2>3 DEF WriterPasswordChanges
  <2> QED
    BY <1>1, <2>1, <2>2, <2>3 DEF Next
<1>2. TypeOK /\ [Next]_vars =>
        [writerPassword' # writerPassword => writerPassword = "none" \/ writerPassword' = "scada"]_vars
  BY <1>1
<1> QED
  BY <1>2, InitTypes, TypesStep, PTL DEF Spec, WriterPasswordKept
=============================================================================
