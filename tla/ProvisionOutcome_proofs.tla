----------------------- MODULE ProvisionOutcome_proofs -----------------------
(***************************************************************************)
(* What the end of a run tells, for any number of runs and any options:    *)
(* exit 0 means a machine that stays commissioned, and every failure of    *)
(* create or check has the cause that it names.                            *)
(***************************************************************************)
EXTENDS Provision_proofs

(* What each statement leaves behind, and that nothing takes it away. *)

Achieved(step) ==
  /\ step \in Given => step \in acls
  /\ step = "setWriter" => "writer" \in objects
  /\ step = "setPlot" => "plot" \in objects
  /\ step = "setRegistrar" => "registrar" \in objects
  /\ step = "setDatabase" => "database" \in objects
  /\ step = "setTrends" => {"trends", "tpdefault"} \subseteq objects
  /\ step = "tagsSQL" => "tags" \in objects
  /\ step = "registerSQL" => "register" \in objects
  /\ step = "groupsSQL" => {"groups", "penGroups"} \subseteq objects
  /\ step = "markersSQL" => "markers" \in objects
  /\ step = "metaSQL" => "meta" \in objects
  /\ step = "revokePublicCreate" => "database" \in objects /\ "publicCreate" \notin acls
  /\ step = "grantRegister" => "register" \in objects /\ "publicExecute" \notin acls
  /\ step = "plotReads" => "trends" \in objects /\ "trends" \notin unreadable

Behind(r) == \A i \in 1..41 : i < pc[r] => Achieved(Script[i])

\* The steps of the script that act, and what they need: made by an earlier step.
LEMMA SetPlaces ==
  \A i \in 1..41 :
    /\ Script[i] = "setWriter" <=> i = 3
    /\ Script[i] = "setPlot" <=> i = 5
    /\ Script[i] = "setRegistrar" <=> i = 7
    /\ Script[i] = "setDatabase" <=> i = 9
    /\ Script[i] = "setTrends" <=> i = 18
    /\ Script[i] = "tagsSQL" <=> i = 19
    /\ Script[i] = "registerSQL" <=> i = 20
    /\ Script[i] = "groupsSQL" <=> i = 21
    /\ Script[i] = "markersSQL" <=> i = 22
    /\ Script[i] = "metaSQL" <=> i = 23
BY DEF Script

LEMMA CheckPlaces ==
  \A i \in 1..41 :
    /\ Script[i] = "checkWriter" <=> i = 2
    /\ Script[i] = "checkPlot" <=> i = 4
    /\ Script[i] = "checkRegistrar" <=> i = 6
    /\ Script[i] = "checkDatabase" <=> i = 8
    /\ Script[i] = "checkTrends" <=> i = 17
BY DEF Script

LEMMA CheckedPlaces ==
  \A i \in 1..41 :
    /\ Checked(Script[i]) = "writer" <=> i = 2
    /\ Checked(Script[i]) = "plot" <=> i = 4
    /\ Checked(Script[i]) = "registrar" <=> i = 6
    /\ Checked(Script[i]) = "database" <=> i = 8
    /\ Checked(Script[i]) = "trends" <=> i = 17
<1> TAKE i \in 1..41
<1>1. CASE Script[i] \in {"checkWriter", "checkPlot", "checkRegistrar", "checkDatabase", "checkTrends"}
  BY <1>1, CheckPlaces DEF Checked
<1>2. CASE Script[i] \notin {"checkWriter", "checkPlot", "checkRegistrar", "checkDatabase", "checkTrends"}
  <2>1. Checked(Script[i]) = "none"
    BY <1>2 DEF Checked
  <2> QED
    BY <1>2, <2>1, CheckPlaces
<1> QED
  BY <1>1, <1>2

LEMMA PrivilegeSteps ==
  Given \cup {"revokePublicCreate"} =
    {"connectWriter", "connectPlot", "statementTimeout", "idleTimeout", "createWriter",
     "defaultPrivileges", "registrarTrends", "registrarTags", "registerOwner", "grantTags",
     "grantGroups", "grantPenGroups", "grantMarkers", "grantMeta", "grantRegister",
     "writerMarkers", "revokePublicCreate"}
BY DEF Given

LEMMA PrivilegeNeeds ==
  /\ Needs("connectWriter") = {"writer", "database"}
  /\ Needs("connectPlot") = {"plot", "database"}
  /\ Needs("statementTimeout") = {"plot"}
  /\ Needs("idleTimeout") = {"plot"}
  /\ Needs("createWriter") = {"writer", "database"}
  /\ Needs("defaultPrivileges") = {"writer", "plot", "database"}
  /\ Needs("registrarTrends") = {"registrar", "trends"}
  /\ Needs("registrarTags") = {"registrar", "tags"}
  /\ Needs("registerOwner") = {"registrar", "register"}
  /\ Needs("grantTags") = {"plot", "tags"}
  /\ Needs("grantGroups") = {"plot", "groups"}
  /\ Needs("grantPenGroups") = {"plot", "penGroups"}
  /\ Needs("grantMarkers") = {"plot", "markers"}
  /\ Needs("grantMeta") = {"plot", "meta"}
  /\ Needs("grantRegister") = {"plot", "register"}
  /\ Needs("writerMarkers") = {"writer", "markers"}
  /\ Needs("revokePublicCreate") = {"database"}
BY DEF Needs

LEMMA FileNeeds ==
  /\ Needs("tagsSQL") = {"database"}
  /\ Needs("registerSQL") = {"trends", "tags"}
  /\ Needs("groupsSQL") = {"tags"}
  /\ Needs("markersSQL") = {"database"}
  /\ Needs("metaSQL") = {"database"}
BY DEF Needs

LEMMA FileMakes ==
  /\ Makes("tagsSQL") = {"tags"}
  /\ Makes("registerSQL") = {"register"}
  /\ Makes("groupsSQL") = {"groups", "penGroups"}
  /\ Makes("markersSQL") = {"markers"}
  /\ Makes("metaSQL") = {"meta"}
BY DEF Makes

LEMMA PrivilegeTakes ==
  /\ Takes("grantRegister") = {"publicExecute"}
  /\ Takes("revokePublicCreate") = {"publicCreate"}
  /\ \A step \in Given : Takes(step) \subseteq {"publicExecute", "publicCreate"}
BY DEF Takes

LEMMA LatePlaces ==
  \A i \in 1..41 :
    /\ Script[i] \in Given \cup {"revokePublicCreate"} => i > 9
    /\ Script[i] \in {"registrarTrends", "registrarTags", "registerOwner", "grantTags",
                      "grantGroups", "grantPenGroups", "grantMarkers", "grantMeta",
                      "grantRegister", "writerMarkers"} => i > 23
BY DEF Script, Given

\* What a run that has come this far can rely on.
LEMMA BehindObjects ==
  ASSUME TypeOK, NEW r \in Run, Behind(r)
  PROVE  /\ pc[r] > 9 => {"writer", "plot", "registrar", "database"} \subseteq objects
         /\ pc[r] > 18 => {"trends", "tpdefault"} \subseteq objects
         /\ pc[r] > 19 => "tags" \in objects
         /\ pc[r] > 23 => {"register", "groups", "penGroups", "markers", "meta"} \subseteq objects
<1>1. pc[r] \in 1..41
  BY ScriptLength DEF TypeOK
<1>2. \A i \in 1..41 : i < pc[r] => Achieved(Script[i])
  BY DEF Behind
<1>3. pc[r] > 9 => {"writer", "plot", "registrar", "database"} \subseteq objects
  <2>1. SUFFICES ASSUME pc[r] > 9
                 PROVE  {"writer", "plot", "registrar", "database"} \subseteq objects
    OBVIOUS
  <2>2. Achieved("setWriter") /\ Achieved("setPlot") /\ Achieved("setRegistrar") /\ Achieved("setDatabase")
    BY <1>1, <1>2, <2>1, SetPlaces
  <2> QED
    BY <2>2 DEF Achieved
<1>4. pc[r] > 18 => {"trends", "tpdefault"} \subseteq objects
  BY <1>1, <1>2, SetPlaces DEF Achieved
<1>5. pc[r] > 19 => "tags" \in objects
  BY <1>1, <1>2, SetPlaces DEF Achieved
<1>6. pc[r] > 23 => {"register", "groups", "penGroups", "markers", "meta"} \subseteq objects
  <2>1. SUFFICES ASSUME pc[r] > 23
                 PROVE  {"register", "groups", "penGroups", "markers", "meta"} \subseteq objects
    OBVIOUS
  <2>2. Achieved("registerSQL") /\ Achieved("groupsSQL") /\ Achieved("markersSQL") /\ Achieved("metaSQL")
    BY <1>1, <1>2, <2>1, SetPlaces
  <2> QED
    BY <2>2 DEF Achieved
<1> QED
  BY <1>3, <1>4, <1>5, <1>6

\* Every statement names only what an earlier one has made.
LEMMA NeedsAreMet ==
  ASSUME TypeOK, NEW r \in Run, Behind(r),
         Script[pc[r]] \in Given \cup {"revokePublicCreate"}
                           \cup {"tagsSQL", "registerSQL", "groupsSQL", "markersSQL", "metaSQL"}
  PROVE  Needs(Script[pc[r]]) \subseteq objects
<1>1. pc[r] \in 1..41
  BY ScriptLength DEF TypeOK
<1>2. CASE Script[pc[r]] \in Given \cup {"revokePublicCreate"}
  <2>1. pc[r] > 9
    BY <1>1, <1>2, LatePlaces
  <2>2. CASE pc[r] > 23
    <3>1. {"writer", "plot", "registrar", "database", "trends", "tags", "register", "groups",
           "penGroups", "markers", "meta"} \subseteq objects
      BY <2>1, <2>2, <1>1, BehindObjects
    <3> QED
      BY <1>2, <3>1, PrivilegeSteps, PrivilegeNeeds
  <2>3. CASE ~(pc[r] > 23)
    <3>1. {"writer", "plot", "registrar", "database"} \subseteq objects
      BY <2>1, BehindObjects
    <3>2. Script[pc[r]] \in {"connectWriter", "connectPlot", "statementTimeout", "idleTimeout",
                             "createWriter", "defaultPrivileges", "revokePublicCreate"}
      BY <1>1, <1>2, <2>3, LatePlaces, PrivilegeSteps
    <3> QED
      BY <3>1, <3>2, PrivilegeNeeds
  <2> QED
    BY <2>2, <2>3
<1>3. CASE Script[pc[r]] \in {"tagsSQL", "registerSQL", "groupsSQL", "markersSQL", "metaSQL"}
  <2>1. pc[r] >= 19 /\ (Script[pc[r]] \in {"registerSQL", "groupsSQL"} => pc[r] >= 20)
    BY <1>1, <1>3, SetPlaces
  <2>2. {"database", "trends"} \subseteq objects
    BY <1>1, <2>1, BehindObjects
  <2>3. Script[pc[r]] \in {"registerSQL", "groupsSQL"} => "tags" \in objects
    BY <1>1, <2>1, BehindObjects
  <2> QED
    BY <1>3, <2>2, <2>3, FileNeeds
<1> QED
  BY <1>2, <1>3

-----------------------------------------------------------------------------
(* What has been achieved stays. *)

\* No statement takes away what another gave; PUBLIC gains a privilege only with a new object.
LEMMA GrantsStay ==
  ASSUME [Next]_vars
  PROVE  /\ acls \cap Given \subseteq acls'
         /\ "publicCreate" \in acls' \ acls => "database" \notin objects
         /\ "publicExecute" \in acls' \ acls => "register" \notin objects
<1>1. CASE \E r \in Run : Privilege(r)
  <2>1. PICK r \in Run, step \in Given \cup {"revokePublicCreate"} :
               acls' = acls \/ acls' = (acls \ Takes(step)) \cup ({step} \cap Given)
    BY <1>1 DEF Privilege
  <2>2. Takes(step) \subseteq {"publicExecute", "publicCreate"}
    BY <2>1, PrivilegeTakes
  <2>3. "publicExecute" \notin Given /\ "publicCreate" \notin Given
    BY DEF Given
  <2> QED
    BY <2>1, <2>2, <2>3
<1>2. CASE \E r \in Run : SchemaFile(r)
  BY <1>2 DEF SchemaFile
<1>3. CASE \E r \in Run : SetDatabase(r)
  BY <1>3 DEF SetDatabase
<1>4. CASE \E r \in Run : Start(r) \/ AssertServerVersion(r) \/ CheckExists(r) \/ SetWriter(r)
                         \/ SetPlot(r) \/ SetRegistrar(r) \/ SetTrends(r) \/ TailCheck(r)
                         \/ PlotLogin(r) \/ Cut(r)
  BY <1>4 DEF Start, AssertServerVersion, CheckExists, SetWriter, SetPlot, SetRegistrar,
              SetTrends, TailCheck, PlotLogin, Cut, cluster
<1>5. CASE UNCHANGED vars
  BY <1>5 DEF vars, cluster
<1> QED
  BY <1>1, <1>2, <1>3, <1>4, <1>5, AroundTheRuns DEF Next, RunStep

\* A table becomes unreadable only as it is created.
LEMMA ReadableStays ==
  ASSUME [Next]_vars, "trends" \in objects, "trends" \notin unreadable
  PROVE  "trends" \notin unreadable'
<1>1. CASE \E r \in Run : RunStep(r) \/ Cut(r)
  <2>1. PICK r \in Run : RunStep(r) \/ Cut(r)
    BY <1>1
  <2>2. CASE SetTrends(r)
    BY <2>2 DEF SetTrends
  <2> QED
    BY <2>1, <2>2, TrendsUntouched
<1>2. CASE ScadaCreatesTrends \/ ScadaCreatesMessages \/ WriterPasswordChanges
  BY <1>2 DEF ScadaCreatesTrends, ScadaCreatesMessages, WriterPasswordChanges, Created
<1> QED
  BY <1>1, <1>2 DEF Next, vars, cluster

LEMMA AchievedStays ==
  ASSUME [Next]_vars, NEW step, Achieved(step)
  PROVE  Achieved(step)'
BY ObjectsGrow, GrantsStay, ReadableStays DEF Achieved

-----------------------------------------------------------------------------
(* What a run's check saw is still so at its statement, or the run is in raced. *)

Sees(r, place, object) ==
  pc[r] = place /\ outcome[r] = "running" =>
    /\ seen[r] = "present" => object \in objects
    /\ seen[r] = "absent" /\ object \in objects => r \in raced

SeenHolds(r) ==
  /\ Sees(r, 3, "writer") /\ Sees(r, 5, "plot") /\ Sees(r, 7, "registrar")
  /\ Sees(r, 9, "database") /\ Sees(r, 18, "trends")

LEMMA PlaceOf ==
  ASSUME TypeOK, NEW r \in Run, NEW step, At(r, step)
  PROVE  /\ pc[r] \in 1..41 /\ outcome[r] = "running"
         /\ step = "setWriter" => pc[r] = 3
         /\ step = "setPlot" => pc[r] = 5
         /\ step = "setRegistrar" => pc[r] = 7
         /\ step = "setDatabase" => pc[r] = 9
         /\ step = "setTrends" => pc[r] = 18
         /\ step \in {"tagsSQL", "registerSQL", "groupsSQL", "markersSQL", "metaSQL"} => pc[r] > 18
<1>1. pc[r] \in 1..41
  BY ScriptLength DEF TypeOK
<1> QED
  BY <1>1, SetPlaces DEF At

LEMMA TailSteps ==
  /\ \A step \in TailChecks : step # "plotReads" => Achieved(step)'
  /\ Achieved("assertServerVersion")' /\ Achieved("plotLogin")'
  /\ \A step \in {"checkWriter", "checkPlot", "checkRegistrar", "checkDatabase", "checkTrends"} :
       Achieved(step)'
BY DEF TailChecks, Achieved, Given

\* A statement that lets its run go on has done what it is for.
LEMMA Executed ==
  ASSUME TypeOK, NEW r \in Run, Behind(r), SeenHolds(r), RunStep(r) \/ Cut(r), pc'[r] # pc[r],
         NEW step, step = Script[pc[r]]
  PROVE  Achieved(step)'
<1>1. ~Start(r) /\ ~Cut(r)
  BY DEF Start, Cut, Finish
<1>3. CASE AssertServerVersion(r) \/ CheckExists(r) \/ PlotLogin(r)
  BY <1>3, TailSteps DEF AssertServerVersion, CheckExists, PlotLogin, At
<1>4. CASE SetWriter(r)
  <2>1. pc[r] = 3 /\ outcome[r] = "running" /\ step = "setWriter"
    BY <1>4, PlaceOf DEF SetWriter, At
  <2>2. "writer" \in objects'
    BY <1>4, <2>1 DEF SetWriter, CreateAbsent, Finish, SeenHolds, Sees
  <2> QED
    BY <2>1, <2>2 DEF Achieved, Given
<1>5. CASE SetPlot(r)
  <2>1. pc[r] = 5 /\ outcome[r] = "running" /\ step = "setPlot"
    BY <1>5, PlaceOf DEF SetPlot, At
  <2>2. "plot" \in objects'
    BY <1>5, <2>1 DEF SetPlot, CreateAbsent, Finish, SeenHolds, Sees
  <2> QED
    BY <2>1, <2>2 DEF Achieved, Given
<1>6. CASE SetRegistrar(r)
  <2>1. pc[r] = 7 /\ outcome[r] = "running" /\ step = "setRegistrar"
    BY <1>6, PlaceOf DEF SetRegistrar, At
  <2>2. "registrar" \in objects'
    BY <1>6, <2>1 DEF SetRegistrar, CreateAbsent, Finish, SeenHolds, Sees
  <2> QED
    BY <2>1, <2>2 DEF Achieved, Given
<1>7. CASE SetDatabase(r)
  <2>1. pc[r] = 9 /\ outcome[r] = "running" /\ step = "setDatabase"
    BY <1>7, PlaceOf DEF SetDatabase, At
  <2>2. "database" \in objects'
    BY <1>7, <2>1 DEF SetDatabase, CreateAbsent, Finish, SeenHolds, Sees
  <2> QED
    BY <2>1, <2>2 DEF Achieved, Given
<1>8. CASE SetTrends(r)
  <2>1. pc[r] = 18 /\ outcome[r] = "running" /\ step = "setTrends"
    BY <1>8, PlaceOf DEF SetTrends, At
  <2>2. {"trends", "tpdefault"} \subseteq objects'
    BY <1>8, <2>1 DEF SetTrends, CreateAbsent, Finish, SeenHolds, Sees
  <2> QED
    BY <2>1, <2>2 DEF Achieved, Given
<1>9. CASE SchemaFile(r)
  <2>1. /\ step \in {"tagsSQL", "registerSQL", "groupsSQL", "markersSQL", "metaSQL"}
        /\ objects' = objects \cup Makes(step)
    BY <1>9 DEF SchemaFile, At, Finish
  <2> QED
    BY <2>1, FileMakes DEF Achieved, Given
<1>10. CASE Privilege(r)
  <2>1. /\ step \in Given \cup {"revokePublicCreate"}
        /\ Needs(step) \subseteq objects /\ UNCHANGED objects
        /\ acls' = (acls \ Takes(step)) \cup ({step} \cap Given)
    BY <1>10 DEF Privilege, At, Finish
  <2>2. step \in Given => step \in acls'
    BY <2>1
  <2>3. step = "revokePublicCreate" => "database" \in objects' /\ "publicCreate" \notin acls'
    BY <2>1, PrivilegeNeeds, PrivilegeTakes DEF Given
  <2>4. step = "grantRegister" => "register" \in objects' /\ "publicExecute" \notin acls'
    BY <2>1, PrivilegeNeeds, PrivilegeTakes DEF Given
  <2> QED
    BY <2>1, <2>2, <2>3, <2>4, PrivilegeSteps DEF Achieved
<1>11. CASE TailCheck(r)
  <2>1. step \in TailChecks /\ Fit(step) /\ UNCHANGED cluster
    BY <1>11 DEF TailCheck, At, Finish
  <2>2. CASE step = "plotReads"
    <3>1. "trends" \in objects /\ "trends" \notin unreadable
      BY <2>1, <2>2 DEF Fit
    <3> QED
      BY <2>1, <2>2, <3>1 DEF Achieved, Given, cluster
  <2> QED
    BY <2>1, <2>2, TailSteps
<1> QED
  BY <1>1, <1>3, <1>4, <1>5, <1>6, <1>7, <1>8, <1>9, <1>10, <1>11 DEF RunStep

\* A run that has not started is at its first statement.
ReadyInv == \A r \in Run : outcome[r] = "ready" => pc[r] = 1

LEMMA ReadyStep == TypeOK /\ ReadyInv /\ [Next]_vars => ReadyInv'
<1> SUFFICES ASSUME TypeOK, ReadyInv, [Next]_vars PROVE ReadyInv'
  OBVIOUS
<1>1. CASE \E r \in Run : RunStep(r) \/ Cut(r)
  <2>1. PICK r \in Run : RunStep(r) \/ Cut(r)
    BY <1>1
  <2>2. CASE Start(r)
    BY <2>2 DEF Start, ReadyInv, TypeOK
  <2>3. CASE ~Start(r)
    <3>1. Advance(r) \/ \E v \in Outcomes \ {"ready"} : Finish(r, v)
      BY <2>1, <2>3 DEF RunStep, AssertServerVersion, CheckExists, SetWriter, SetPlot, SetRegistrar,
           SetDatabase, SetTrends, SchemaFile, Privilege, TailCheck, PlotLogin, Cut, CreateAbsent, Outcomes
    <3>2. outcome[r] = "running"
      BY <2>1, <2>3 DEF RunStep, AssertServerVersion, CheckExists, SetWriter, SetPlot, SetRegistrar,
           SetDatabase, SetTrends, SchemaFile, Privilege, TailCheck, PlotLogin, Cut, At
    <3>3. /\ \A q \in Run \ {r} : pc'[q] = pc[q] /\ outcome'[q] = outcome[q]
          /\ outcome'[r] # "ready"
      BY <3>1, <3>2, ScriptLength DEF Advance, Finish, TypeOK
    <3> QED
      BY <3>3 DEF ReadyInv
  <2> QED
    BY <2>2, <2>3
<1>2. CASE ScadaCreatesTrends \/ ScadaCreatesMessages \/ WriterPasswordChanges \/ UNCHANGED vars
  BY <1>2 DEF ScadaCreatesTrends, ScadaCreatesMessages, WriterPasswordChanges, vars, ReadyInv
<1> QED
  BY <1>1, <1>2 DEF Next

\* A check moves its run on, so a run that stays where it is has not checked again.
LEMMA CheckMoves ==
  ASSUME TypeOK, NEW r \in Run, CheckExists(r)
  PROVE  pc'[r] = pc[r] + 1 /\ pc[r] + 1 \in 1..41
<1>1. pc[r] \in {2, 4, 6, 8, 17}
  BY ScriptLength, CheckPlaces DEF CheckExists, At, TypeOK
<1> QED
  BY <1>1, ScriptLength DEF CheckExists, Advance, TypeOK

\* raced forgets a run only at its next check, which also renews what it saw.
LEMMA RacedStays ==
  ASSUME TypeOK, [Next]_vars, NEW r \in Run, pc'[r] = pc[r]
  PROVE  seen'[r] = seen[r] /\ (r \in raced => r \in raced')
<1>1. CASE \E q \in Run : CheckExists(q)
  <2>1. PICK q \in Run : CheckExists(q)
    BY <1>1
  <2>2. q # r
    BY <2>1, CheckMoves
  <2> QED
    BY <2>1, <2>2 DEF CheckExists, TypeOK
<1>2. ASSUME NEW q \in Run, RunStep(q) \/ Cut(q), ~CheckExists(q)
      PROVE  UNCHANGED seen /\ raced \subseteq raced'
  BY <1>2 DEF RunStep, Start, AssertServerVersion, SetWriter, SetPlot, SetRegistrar,
           SetDatabase, SetTrends, SchemaFile, Privilege, TailCheck, PlotLogin, Cut, CreateAbsent
<1>3. CASE ScadaCreatesTrends \/ ScadaCreatesMessages \/ WriterPasswordChanges \/ UNCHANGED vars
  BY <1>3 DEF ScadaCreatesTrends, ScadaCreatesMessages, WriterPasswordChanges, vars
<1> QED
  BY <1>1, <1>2, <1>3 DEF Next

Created5 == {"writer", "plot", "registrar", "database", "trends"}

\* Whoever creates an object between a run's check and its statement puts it in raced.
LEMMA RacedGrows ==
  ASSUME TypeOK, [Next]_vars, NEW object \in Created5, object \in objects', object \notin objects,
         NEW r \in Overtaken(object), pc'[r] = pc[r]
  PROVE  r \in raced'
<1>1. CASE \E q \in Run : RunStep(q) \/ Cut(q)
  <2>1. PICK q \in Run : RunStep(q) \/ Cut(q)
    BY <1>1
  <2>2. \/ SetWriter(q) \/ SetPlot(q) \/ SetRegistrar(q) \/ SetDatabase(q) \/ SetTrends(q)
        \/ SchemaFile(q)
    BY <2>1 DEF RunStep, Start, AssertServerVersion, CheckExists, Privilege, TailCheck, PlotLogin,
                Cut, cluster
  <2>3. ~SchemaFile(q)
    BY FileMakes DEF SchemaFile, Created5
  <2>4. PICK made \in Created5, more \in SUBSET {"tpdefault"} : CreateAbsent(q, made, more)
    BY <2>2, <2>3 DEF SetWriter, SetPlot, SetRegistrar, SetDatabase, SetTrends, Created5
  <2>5. made = object
    BY <2>4 DEF CreateAbsent, Created5
  <2>6. r # q
    <3>1. CASE pc[q] = Len(Script)
      BY <3>1, <2>2, <2>3, ScriptLength, PlaceOf DEF SetWriter, SetPlot, SetRegistrar, SetDatabase, SetTrends
    <3>2. CASE pc[q] # Len(Script)
      BY <2>4, <2>5, <3>2, ScriptLength DEF CreateAbsent, Advance, TypeOK
    <3> QED
      BY <3>1, <3>2
  <2> QED
    BY <2>4, <2>5, <2>6 DEF CreateAbsent
<1>2. CASE ScadaCreatesTrends \/ ScadaCreatesMessages
  BY <1>2 DEF ScadaCreatesTrends, ScadaCreatesMessages, Created5
<1>3. CASE WriterPasswordChanges \/ UNCHANGED vars
  BY <1>3 DEF WriterPasswordChanges, vars, cluster
<1> QED
  BY <1>1, <1>2, <1>3 DEF Next

\* Only a run's own step moves it.
LEMMA OwnStep ==
  ASSUME TypeOK, [Next]_vars, NEW r \in Run, pc'[r] # pc[r]
  PROVE  (RunStep(r) \/ Cut(r)) /\ pc'[r] = pc[r] + 1
<1>1. CASE \E q \in Run : RunStep(q) \/ Cut(q)
  <2>1. PICK q \in Run : RunStep(q) \/ Cut(q)
    BY <1>1
  <2>2. pc' = [pc EXCEPT ![q] = pc[q] + 1]
    BY <2>1, OneStatement
  <2> QED
    BY <2>1, <2>2 DEF TypeOK
<1>2. CASE ScadaCreatesTrends \/ ScadaCreatesMessages \/ WriterPasswordChanges \/ UNCHANGED vars
  BY <1>2, AroundTheRuns DEF vars
<1> QED
  BY <1>1, <1>2 DEF Next

LEMMA OnlyACheck ==
  ASSUME TypeOK, NEW r \in Run, RunStep(r) \/ Cut(r), pc'[r] # pc[r], pc[r] \in {2, 4, 6, 8, 17}
  PROVE  CheckExists(r)
<1>1. Script[pc[r]] \in {"checkWriter", "checkPlot", "checkRegistrar", "checkDatabase", "checkTrends"}
  BY CheckPlaces
<1>2. ~Start(r) /\ ~Cut(r)
  BY DEF Start, Cut, Finish
<1>3. /\ ~AssertServerVersion(r) /\ ~SetWriter(r) /\ ~SetPlot(r) /\ ~SetRegistrar(r)
      /\ ~SetDatabase(r) /\ ~SetTrends(r) /\ ~SchemaFile(r) /\ ~PlotLogin(r)
  BY <1>1 DEF AssertServerVersion, SetWriter, SetPlot, SetRegistrar, SetDatabase, SetTrends,
              SchemaFile, PlotLogin, At
<1>4. ~Privilege(r) /\ ~TailCheck(r)
  BY <1>1 DEF Privilege, Given, TailCheck, TailChecks, At
<1> QED
  BY <1>2, <1>3, <1>4 DEF RunStep

\* A run past its first statement does not start again.
LEMMA StillRunning ==
  ASSUME TypeOK, ReadyInv, [Next]_vars, NEW r \in Run, pc[r] # 1, outcome'[r] = "running"
  PROVE  outcome[r] = "running"
<1>1. CASE \E q \in Run : RunStep(q) \/ Cut(q)
  <2>1. PICK q \in Run : RunStep(q) \/ Cut(q)
    BY <1>1
  <2>2. CASE Start(q)
    BY <2>2 DEF Start, ReadyInv, TypeOK
  <2>3. CASE ~Start(q)
    <3>1. outcome[q] = "running"
      BY <2>1, <2>3 DEF RunStep, AssertServerVersion, CheckExists, SetWriter, SetPlot, SetRegistrar,
           SetDatabase, SetTrends, SchemaFile, Privilege, TailCheck, PlotLogin, Cut, At
    <3>2. Advance(q) \/ \E v \in Outcomes : Finish(q, v)
      BY <2>1, <2>3 DEF RunStep, AssertServerVersion, CheckExists, SetWriter, SetPlot, SetRegistrar,
           SetDatabase, SetTrends, SchemaFile, Privilege, TailCheck, PlotLogin, Cut, CreateAbsent, Outcomes
    <3> QED
      BY <3>1, <3>2 DEF Advance, Finish, TypeOK
  <2> QED
    BY <2>2, <2>3
<1>2. CASE ScadaCreatesTrends \/ ScadaCreatesMessages \/ WriterPasswordChanges \/ UNCHANGED vars
  BY <1>2 DEF ScadaCreatesTrends, ScadaCreatesMessages, WriterPasswordChanges, vars
<1> QED
  BY <1>1, <1>2 DEF Next

LEMMA SeesStep ==
  ASSUME TypeOK, ReadyInv, [Next]_vars, NEW r \in Run, NEW place \in {3, 5, 7, 9, 18},
         NEW object \in Created5, Checked(Script[place - 1]) = object, Sees(r, place, object)
  PROVE  Sees(r, place, object)'
<1> SUFFICES ASSUME pc'[r] = place, outcome'[r] = "running"
             PROVE  /\ seen'[r] = "present" => object \in objects'
                    /\ seen'[r] = "absent" /\ object \in objects' => r \in raced'
  BY DEF Sees
<1>1. CASE pc[r] = place
  <2>1. outcome[r] = "running"
    BY <1>1, StillRunning
  <2>2. seen'[r] = seen[r] /\ (r \in raced => r \in raced')
    BY <1>1, RacedStays
  <2>3. seen[r] = "absent" => r \in Overtaken(object)
    BY <1>1, <2>1 DEF Overtaken
  <2> QED
    BY <1>1, <2>1, <2>2, <2>3, ObjectsGrow, RacedGrows DEF Sees
<1>2. CASE pc[r] # place
  <2>1. (RunStep(r) \/ Cut(r)) /\ pc[r] = place - 1
    BY <1>2, OwnStep, ScriptLength DEF TypeOK
  <2>2. CheckExists(r)
    BY <1>2, <2>1, OnlyACheck
  <2>3. /\ UNCHANGED objects
        /\ seen' = [seen EXCEPT ![r] = IF object \in objects THEN "present" ELSE "absent"]
    BY <2>1, <2>2 DEF CheckExists, At, cluster
  <2> QED
    BY <2>3 DEF TypeOK
<1> QED
  BY <1>1, <1>2

-----------------------------------------------------------------------------
(* The invariant of a run, and what its end tells. *)

OutcomeInv ==
  /\ ReadableInv /\ ReadyInv
  /\ \A r \in Run : Behind(r) /\ SeenHolds(r)

LEMMA OutcomeInit == Init => OutcomeInv
BY ReadableInit DEF Init, OutcomeInv, ReadyInv, Behind, SeenHolds, Sees

LEMMA OutcomeStep == OutcomeInv /\ [Next]_vars => OutcomeInv'
<1> SUFFICES ASSUME OutcomeInv, [Next]_vars PROVE OutcomeInv'
  OBVIOUS
<1> USE DEF OutcomeInv
<1>1. TypeOK
  BY DEF ReadableInv
<1>2. ReadableInv'
  BY ReadableStep
<1>3. ReadyInv'
  BY <1>1, ReadyStep
<1>4. ASSUME NEW r \in Run PROVE SeenHolds(r)'
  <2>1. SeenHolds(r)
    OBVIOUS
  <2>2. /\ Checked(Script[2]) = "writer" /\ Checked(Script[4]) = "plot"
        /\ Checked(Script[6]) = "registrar" /\ Checked(Script[8]) = "database"
        /\ Checked(Script[17]) = "trends"
    BY CheckedPlaces
  <2>3. Sees(r, 3, "writer")' /\ Sees(r, 5, "plot")'
    BY <1>1, <2>1, <2>2, SeesStep DEF SeenHolds, Created5
  <2>4. Sees(r, 7, "registrar")' /\ Sees(r, 9, "database")' /\ Sees(r, 18, "trends")'
    BY <1>1, <2>1, <2>2, SeesStep DEF SeenHolds, Created5
  <2> QED
    BY <2>3, <2>4 DEF SeenHolds
<1>5. ASSUME NEW r \in Run PROVE Behind(r)'
  <2>1. ASSUME NEW i \in 1..41, i < pc'[r] PROVE Achieved(Script[i])'
    <3>1. CASE i < pc[r]
      BY <3>1, AchievedStays DEF Behind
    <3>2. CASE ~(i < pc[r])
      <4>1. pc[r] \in 1..41 /\ pc'[r] # pc[r]
        BY <1>1, <2>1, <3>2, ScriptLength DEF TypeOK
      <4>2. (RunStep(r) \/ Cut(r)) /\ i = pc[r]
        BY <1>1, <2>1, <3>2, <4>1, OwnStep
      <4> QED
        BY <1>1, <4>1, <4>2, Executed
    <3> QED
      BY <3>1, <3>2
  <2> QED
    BY <2>1 DEF Behind
<1> QED
  BY <1>2, <1>3, <1>4, <1>5

\* Only a run's own step ends it.
LEMMA OwnEnd ==
  ASSUME TypeOK, [Next]_vars, NEW r \in Run, outcome'[r] # outcome[r]
  PROVE  RunStep(r) \/ Cut(r)
<1>1. CASE \E q \in Run : RunStep(q) \/ Cut(q)
  <2>1. PICK q \in Run : RunStep(q) \/ Cut(q)
    BY <1>1
  <2>2. \A p \in Run \ {q} : outcome'[p] = outcome[p]
    BY <2>1 DEF RunStep, Start, AssertServerVersion, CheckExists, SetWriter, SetPlot, SetRegistrar,
         SetDatabase, SetTrends, SchemaFile, Privilege, TailCheck, PlotLogin, Cut, CreateAbsent,
         Advance, Finish, TypeOK
  <2> QED
    BY <2>1, <2>2
<1>2. CASE ScadaCreatesTrends \/ ScadaCreatesMessages \/ WriterPasswordChanges \/ UNCHANGED vars
  BY <1>2 DEF ScadaCreatesTrends, ScadaCreatesMessages, WriterPasswordChanges, vars
<1> QED
  BY <1>1, <1>2 DEF Next

\* A run that has ended stays where it ended, with the verdict it ended with.
LEMMA EndedStays ==
  ASSUME TypeOK, [Next]_vars, NEW r \in Run, outcome[r] \notin {"ready", "running"}
  PROVE  outcome'[r] = outcome[r] /\ pc'[r] = pc[r]
<1>1. ~RunStep(r) /\ ~Cut(r)
  BY DEF RunStep, Start, AssertServerVersion, CheckExists, SetWriter, SetPlot, SetRegistrar,
         SetDatabase, SetTrends, SchemaFile, Privilege, TailCheck, PlotLogin, Cut, At
<1> QED
  BY <1>1, OwnEnd, OwnStep

\* Exit 0 comes with the last statement only.
DoneInv == \A r \in Run : outcome[r] = "done" => pc[r] = 41

LEMMA DoneStep == TypeOK /\ DoneInv /\ [Next]_vars => DoneInv'
<1> SUFFICES ASSUME TypeOK, DoneInv, [Next]_vars, NEW r \in Run, outcome'[r] = "done"
             PROVE  pc'[r] = 41
  BY DEF DoneInv
<1>1. CASE outcome[r] = "done"
  BY <1>1, EndedStays DEF DoneInv
<1>2. CASE outcome[r] # "done"
  <2>1. RunStep(r) \/ Cut(r)
    BY <1>2, OwnEnd
  <2>2. ~Start(r) /\ ~Cut(r)
    BY <1>2 DEF Start, Cut, Finish, TypeOK
  <2>3. \A v \in Outcomes \ {"done"} : ~Finish(r, v)
    BY DEF Finish, TypeOK
  <2>4. Advance(r) \/ \E v \in Outcomes \ {"done"} : Finish(r, v)
    BY <2>1, <2>2 DEF RunStep, AssertServerVersion, CheckExists, SetWriter, SetPlot, SetRegistrar,
         SetDatabase, SetTrends, SchemaFile, Privilege, TailCheck, PlotLogin, CreateAbsent, Outcomes
  <2> QED
    BY <1>2, <2>3, <2>4, ScriptLength DEF Advance, Finish, TypeOK
<1> QED
  BY <1>1, <1>2

LEMMA GivenPlaces ==
  /\ \A step \in Given : \E i \in 1..40 : Script[i] = step
  /\ Script[14] = "revokePublicCreate" /\ Script[32] = "grantRegister" /\ Script[34] = "plotReads"
BY DEF Given, Script

LEMMA DoneMeans ==
  ASSUME OutcomeInv, DoneInv
  PROVE  CommissionedStays
<1> SUFFICES ASSUME NEW r \in Run, outcome[r] = "done"
             PROVE  /\ Objects \ {"messages"} \subseteq objects
                    /\ Given \subseteq acls
                    /\ acls \cap {"publicCreate", "publicExecute"} = {}
                    /\ "trends" \notin unreadable
  BY DEF CommissionedStays
<1>1. pc[r] = 41 /\ TypeOK /\ Behind(r)
  BY DEF DoneInv, OutcomeInv, ReadableInv
<1>2. \A i \in 1..40 : Achieved(Script[i])
  BY <1>1 DEF Behind
<1>3. Objects \ {"messages"} \subseteq objects
  BY <1>1, BehindObjects DEF Objects
<1>4. Given \subseteq acls
  BY <1>2, GivenPlaces DEF Achieved
<1>5. Achieved("revokePublicCreate") /\ Achieved("grantRegister") /\ Achieved("plotReads")
  BY <1>2, GivenPlaces
<1> QED
  BY <1>3, <1>4, <1>5 DEF Achieved

\* Once a run has exited 0 the machine is commissioned, and nothing that runs beside or
\* after it, an older build or a failing run included, undoes it (Site, Bench).
THEOREM ExitZeroIsCommissioned == Spec => []CommissionedStays
<1>1. Init => OutcomeInv /\ DoneInv
  BY OutcomeInit DEF Init, DoneInv
<1>2. OutcomeInv /\ DoneInv /\ [Next]_vars => OutcomeInv' /\ DoneInv'
  BY OutcomeStep, DoneStep DEF OutcomeInv, ReadableInv
<1>3. OutcomeInv /\ DoneInv => CommissionedStays
  BY DoneMeans
<1> QED
  BY <1>1, <1>2, <1>3, PTL DEF Spec

-----------------------------------------------------------------------------
(* Why a run failed. *)

\* The tool's archive table comes with its default partition.
ToolHasDefault == trendsBy = "tool" => "tpdefault" \in objects

LEMMA ToolHasDefaultStep == ToolHasDefault /\ [Next]_vars => ToolHasDefault'
<1> SUFFICES ASSUME ToolHasDefault, [Next]_vars PROVE ToolHasDefault'
  OBVIOUS
<1>1. CASE \E r \in Run : SetTrends(r)
  BY <1>1, ObjectsGrow DEF SetTrends, CreateAbsent, ToolHasDefault
<1>2. CASE \E r \in Run : (RunStep(r) \/ Cut(r)) /\ ~SetTrends(r)
  BY <1>2, ObjectsGrow, TrendsUntouched DEF ToolHasDefault
<1>3. CASE ScadaCreatesTrends
  BY <1>3 DEF ScadaCreatesTrends, ToolHasDefault
<1>4. CASE ScadaCreatesMessages \/ WriterPasswordChanges \/ UNCHANGED vars
  BY <1>4, ObjectsGrow DEF ScadaCreatesMessages, WriterPasswordChanges, vars, cluster, ToolHasDefault
<1> QED
  BY <1>1, <1>2, <1>3, <1>4 DEF Next

\* A table has one creator for good.
LEMMA CreatorStays ==
  ASSUME TypeOK, [Next]_vars, trendsBy = "scada"
  PROVE  trendsBy' = "scada"
<1>1. "trends" \in objects
  BY DEF TypeOK
<1>2. CASE \E r \in Run : RunStep(r) \/ Cut(r)
  BY <1>1, <1>2, TrendsUntouched DEF SetTrends
<1>3. CASE ScadaCreatesTrends \/ ScadaCreatesMessages \/ WriterPasswordChanges \/ UNCHANGED vars
  BY <1>3 DEF ScadaCreatesTrends, ScadaCreatesMessages, WriterPasswordChanges, vars, cluster
<1> QED
  BY <1>2, <1>3 DEF Next

\* Which step of a run gives which verdict.
LEMMA VerdictOf ==
  ASSUME NEW r \in Run, RunStep(r) \/ Cut(r), outcome'[r] # outcome[r], TypeOK
  PROVE  /\ outcome'[r] = "conflict" => \/ SetWriter(r) \/ SetPlot(r) \/ SetRegistrar(r)
                                         \/ SetDatabase(r) \/ SetTrends(r)
         /\ outcome'[r] = "noDefault" => SetTrends(r)
         /\ outcome'[r] = "missing" => SchemaFile(r) \/ Privilege(r)
         /\ outcome'[r] = "unfit" => TailCheck(r) \/ PlotLogin(r)
         /\ outcome'[r] = "lockedOut" => PlotLogin(r)
<1>1. CASE SetWriter(r) \/ SetPlot(r) \/ SetRegistrar(r) \/ SetDatabase(r)
  BY <1>1 DEF SetWriter, SetPlot, SetRegistrar, SetDatabase, CreateAbsent, Advance, Finish,
              TypeOK, Created5
<1>2. CASE SetTrends(r)
  BY <1>2 DEF SetTrends, CreateAbsent, Advance, Finish, TypeOK, Created5
<1>3. CASE SchemaFile(r) \/ Privilege(r)
  BY <1>3 DEF SchemaFile, Privilege, Advance, Finish, TypeOK
<1>4. CASE TailCheck(r)
  BY <1>4 DEF TailCheck, Advance, Finish, TypeOK
<1>5. CASE PlotLogin(r)
  BY <1>5 DEF PlotLogin, Advance, Finish, TypeOK
<1>6. CASE Start(r) \/ AssertServerVersion(r) \/ CheckExists(r) \/ Cut(r)
  BY <1>6 DEF Start, AssertServerVersion, CheckExists, Cut, Advance, Finish, TypeOK
<1> QED
  BY <1>1, <1>2, <1>3, <1>4, <1>5, <1>6 DEF RunStep

\* A creating statement conflicts only with whoever came between it and its check.
LEMMA ConflictIsRaced ==
  ASSUME TypeOK, NEW r \in Run, SeenHolds(r), RunStep(r) \/ Cut(r),
         outcome'[r] = "conflict", outcome[r] # "conflict"
  PROVE  r \in raced'
<1>1. ASSUME NEW object, NEW more, CreateAbsent(r, object, more)
      PROVE  seen[r] = "absent" /\ object \in objects /\ UNCHANGED raced
  BY <1>1 DEF CreateAbsent, Advance, Finish, TypeOK
<1>2. ~Advance(r)
  BY DEF Advance, Finish, TypeOK
<1>3. CASE SetWriter(r)
  BY <1>1, <1>2, <1>3, PlaceOf DEF SetWriter, SeenHolds, Sees
<1>4. CASE SetPlot(r)
  BY <1>1, <1>2, <1>4, PlaceOf DEF SetPlot, SeenHolds, Sees
<1>5. CASE SetRegistrar(r)
  BY <1>1, <1>2, <1>5, PlaceOf DEF SetRegistrar, SeenHolds, Sees
<1>6. CASE SetDatabase(r)
  BY <1>1, <1>2, <1>6, PlaceOf DEF SetDatabase, SeenHolds, Sees
<1>7. CASE SetTrends(r)
  <2>1. CreateAbsent(r, "trends", {"tpdefault"})
    BY <1>2, <1>7 DEF SetTrends, Finish, TypeOK
  <2> QED
    BY <1>1, <1>7, <2>1, PlaceOf DEF SetTrends, SeenHolds, Sees
<1> QED
  BY <1>3, <1>4, <1>5, <1>6, <1>7, VerdictOf

\* create refuses an archive table without a default partition only if the SCADA made it.
LEMMA NoDefaultIsForeign ==
  ASSUME TypeOK, ToolHasDefault, NEW r \in Run, SeenHolds(r), RunStep(r) \/ Cut(r),
         outcome'[r] = "noDefault", outcome[r] # "noDefault"
  PROVE  trendsBy = "scada"
<1>1. SetTrends(r) /\ ~Advance(r)
  BY VerdictOf DEF Advance, Finish, TypeOK
<1>2. seen[r] = "present" /\ "tpdefault" \notin objects
  BY <1>1 DEF SetTrends, CreateAbsent, Finish, TypeOK
<1>3. "trends" \in objects
  BY <1>1, <1>2, PlaceOf DEF SetTrends, SeenHolds, Sees
<1> QED
  BY <1>2, <1>3 DEF ToolHasDefault, TypeOK

LEMMA NothingIsMissing ==
  ASSUME TypeOK, NEW r \in Run, Behind(r), RunStep(r) \/ Cut(r),
         outcome'[r] = "missing", outcome[r] # "missing"
  PROVE  FALSE
<1>1. ~Advance(r)
  BY DEF Advance, Finish, TypeOK
<1>2. SchemaFile(r) \/ Privilege(r)
  BY VerdictOf
<1>3. PICK step \in Given \cup {"revokePublicCreate"}
                     \cup {"tagsSQL", "registerSQL", "groupsSQL", "markersSQL", "metaSQL"} :
             Script[pc[r]] = step /\ ~(Needs(step) \subseteq objects)
  BY <1>1, <1>2 DEF SchemaFile, Privilege, At
<1> QED
  BY <1>3, NeedsAreMet

ExplainedInv == OutcomeInv /\ ToolHasDefault /\ FailuresAreExplained

LEMMA ExplainedStep == ExplainedInv /\ [Next]_vars => ExplainedInv'
<1> SUFFICES ASSUME ExplainedInv, [Next]_vars PROVE ExplainedInv'
  OBVIOUS
<1>1. TypeOK /\ OutcomeInv' /\ ToolHasDefault'
  BY OutcomeStep, ToolHasDefaultStep DEF ExplainedInv, OutcomeInv, ReadableInv
<1>2. ASSUME NEW r \in Run
      PROVE  /\ outcome'[r] = "conflict" => r \in raced'
             /\ outcome'[r] = "noDefault" => trendsBy' = "scada"
             /\ outcome'[r] # "missing"
  <2>1. SeenHolds(r) /\ Behind(r) /\ ToolHasDefault
    BY DEF ExplainedInv, OutcomeInv
  <2>2. CASE outcome'[r] # outcome[r]
    <3>1. RunStep(r) \/ Cut(r)
      BY <1>1, <2>2, OwnEnd
    <3>2. outcome'[r] = "conflict" => r \in raced'
      BY <1>1, <2>1, <2>2, <3>1, ConflictIsRaced
    <3>3. outcome'[r] = "noDefault" => trendsBy' = "scada"
      BY <1>1, <2>1, <2>2, <3>1, NoDefaultIsForeign, CreatorStays
    <3> QED
      BY <1>1, <2>1, <2>2, <3>1, <3>2, <3>3, NothingIsMissing
  <2>3. CASE outcome'[r] = outcome[r]
    <3>1. outcome[r] = "conflict" => pc'[r] = pc[r]
      BY <1>1, EndedStays
    <3> QED
      BY <1>1, <2>3, <3>1, RacedStays, CreatorStays DEF ExplainedInv, FailuresAreExplained
  <2> QED
    BY <2>2, <2>3
<1>3. FailuresAreExplained'
  BY <1>2 DEF FailuresAreExplained
<1> QED
  BY <1>1, <1>3 DEF ExplainedInv

\* create fails only where a run or the SCADA came between its check and its statement, or
\* over the SCADA's own trends without tpdefault; never over what a cut run left behind.
THEOREM RerunsContinue == Spec => []FailuresAreExplained
<1>1. Init => ExplainedInv
  BY OutcomeInit DEF Init, ExplainedInv, ToolHasDefault, FailuresAreExplained
<1>2. ExplainedInv => FailuresAreExplained
  BY DEF ExplainedInv
<1> QED
  BY <1>1, <1>2, ExplainedStep, PTL DEF Spec

-----------------------------------------------------------------------------
(* Why the tail failed. *)

LEMMA TailPlaces ==
  \A i \in 1..41 : /\ Script[i] \in TailChecks => i > 33
                   /\ Script[i] = "plotLogin" => i = 41
BY DEF Script, TailChecks

\* Of the tail's checks only the viewer's SELECT can fail once create has gone through.
LEMMA OnlyReadsCanFail ==
  ASSUME TypeOK, NEW r \in Run, Behind(r), pc[r] > 33, NEW step \in TailChecks, ~Fit(step)
  PROVE  step = "plotReads" /\ "trends" \in unreadable
<1>1. pc[r] \in 1..41 /\ \A i \in 1..33 : Achieved(Script[i])
  BY ScriptLength DEF TypeOK, Behind
<1>2. {"trends", "meta"} \subseteq objects
  BY <1>1, BehindObjects
<1>3. \A i \in 34..41 : Script[i] \notin Given
  BY DEF Script, Given
<1>4. Given \subseteq acls
  BY <1>1, <1>3, GivenPlaces DEF Achieved
<1>5. "publicCreate" \notin acls /\ "publicExecute" \notin acls
  <2>1. Achieved("revokePublicCreate") /\ Achieved("grantRegister")
    BY <1>1, GivenPlaces
  <2> QED
    BY <2>1 DEF Achieved
<1>6. Fit("plotReadsVersion") /\ Fit("plotWrites") /\ Fit("writerAddsMarkers")
  BY <1>4 DEF Fit, Given
<1>7. Fit("publicCannotRegister") /\ Fit("plotCannotWrite") /\ Fit("plotCannotCreate")
  BY <1>2, <1>5 DEF Fit
<1>8. step = "plotReads"
  BY <1>6, <1>7 DEF TailChecks
<1> QED
  BY <1>2, <1>8 DEF Fit

LEMMA UnreadableStays ==
  ASSUME [Next]_vars, "trends" \in unreadable
  PROVE  "trends" \in unreadable'
<1>1. CASE \E r \in Run : SetTrends(r)
  BY <1>1 DEF SetTrends, Created
<1>2. CASE \E r \in Run : (RunStep(r) \/ Cut(r)) /\ ~SetTrends(r)
  BY <1>2, TrendsUntouched
<1>3. CASE ScadaCreatesTrends \/ ScadaCreatesMessages \/ WriterPasswordChanges \/ UNCHANGED vars
  BY <1>3 DEF ScadaCreatesTrends, ScadaCreatesMessages, WriterPasswordChanges, Created, vars, cluster
<1> QED
  BY <1>1, <1>2, <1>3 DEF Next

LEMMA UnfitIsForeign ==
  ASSUME ReadableInv, NEW r \in Run, Behind(r), RunStep(r) \/ Cut(r),
         outcome'[r] = "unfit", outcome[r] # "unfit"
  PROVE  trendsBy = "scada" /\ "trends" \in unreadable
<1>1. TypeOK /\ pc[r] \in 1..41
  BY ScriptLength DEF ReadableInv, TypeOK
<1>2. ~Advance(r)
  BY <1>1 DEF Advance, Finish, TypeOK
<1>3. "trends" \in unreadable
  <2>1. CASE TailCheck(r)
    <3>1. PICK step \in TailChecks : Script[pc[r]] = step /\ ~Fit(step)
      BY <1>2, <2>1 DEF TailCheck, At
    <3> QED
      BY <1>1, <3>1, TailPlaces, OnlyReadsCanFail
  <2>2. CASE PlotLogin(r)
    <3>1. pc[r] = 41 /\ ~("connectPlot" \in acls /\ Fit("plotReads"))
      BY <1>1, <1>2, <2>2, TailPlaces DEF PlotLogin, At, Finish, TypeOK
    <3>2. \A i \in 1..40 : Achieved(Script[i])
      BY <3>1 DEF Behind
    <3>3. "connectPlot" \in acls
      BY <3>2, GivenPlaces DEF Achieved, Given
    <3> QED
      BY <1>1, <3>1, <3>3, OnlyReadsCanFail DEF TailChecks
  <2> QED
    BY <1>1, <2>1, <2>2, VerdictOf
<1> QED
  BY <1>1, <1>3 DEF ReadableInv, UnreadableExist, ToolTrendsReadable, TypeOK

TailInv == OutcomeInv /\ TailFailsOnlyOverEarlyTrends

LEMMA TailStep == TailInv /\ [Next]_vars => TailInv'
<1> SUFFICES ASSUME TailInv, [Next]_vars PROVE TailInv'
  OBVIOUS
<1>1. ReadableInv /\ TypeOK /\ OutcomeInv'
  BY OutcomeStep DEF TailInv, OutcomeInv, ReadableInv
<1>2. ASSUME NEW r \in Run, outcome'[r] = "unfit"
      PROVE  trendsBy' = "scada" /\ "trends" \in unreadable'
  <2>1. trendsBy = "scada" /\ "trends" \in unreadable
    <3>1. CASE outcome[r] = "unfit"
      BY <3>1 DEF TailInv, TailFailsOnlyOverEarlyTrends
    <3>2. CASE outcome[r] # "unfit"
      BY <1>1, <1>2, <3>2, OwnEnd, UnfitIsForeign DEF TailInv, OutcomeInv
    <3> QED
      BY <3>1, <3>2
  <2> QED
    BY <1>1, <2>1, CreatorStays, UnreadableStays
<1> QED
  BY <1>1, <1>2 DEF TailInv, TailFailsOnlyOverEarlyTrends

\* create establishes what check asks: the tail fails only over a trends that the SCADA
\* created before the default privileges.
THEOREM TailFindsWhatCreateMade == Spec => []TailFailsOnlyOverEarlyTrends
<1>1. Init => TailInv
  BY OutcomeInit DEF Init, TailInv, TailFailsOnlyOverEarlyTrends
<1>2. TailInv => TailFailsOnlyOverEarlyTrends
  BY DEF TailInv
<1> QED
  BY <1>1, <1>2, TailStep, PTL DEF Spec

-----------------------------------------------------------------------------
(* The viewer's password. *)

\* Past its reset a run's password is the viewer's, or another run has replaced it.
PasswordInv ==
  \A r \in Run : pc[r] > 5 => r \in replaced \/ plotPassword = options[r].plot

LEMMA SetPlotPlace == Statement("setPlot") = 5
BY ScriptLength, SetPlaces DEF Statement

LEMMA PasswordStep == TypeOK /\ PasswordInv /\ [Next]_vars => PasswordInv'
<1> SUFFICES ASSUME TypeOK, PasswordInv, [Next]_vars, NEW r \in Run, pc'[r] > 5
             PROVE  r \in replaced' \/ plotPassword' = options'[r].plot
  BY DEF PasswordInv
<1>1. UNCHANGED options
  BY DEF Next, RunStep, Start, AssertServerVersion, CheckExists, SetWriter, SetPlot, SetRegistrar,
         SetDatabase, SetTrends, SchemaFile, Privilege, TailCheck, PlotLogin, Cut,
         ScadaCreatesTrends, ScadaCreatesMessages, WriterPasswordChanges, vars
<1>2. pc[r] \in 1..41 /\ (pc'[r] = pc[r] \/ pc'[r] = pc[r] + 1)
  BY OwnStep, ScriptLength DEF TypeOK
<1>3. CASE \E q \in Run : SetPlot(q)
  <2>1. PICK q \in Run : SetPlot(q)
    BY <1>3
  <2>2. pc[q] = 5
    BY <2>1, PlaceOf DEF SetPlot
  <2>3. CASE Resets(q)
    <3>1. CASE r = q \/ options[r].plot = options[q].plot
      BY <1>1, <2>3, <3>1 DEF Resets
    <3>2. CASE r # q /\ options[r].plot # options[q].plot
      <4>1. pc'[r] = pc[r]
        BY <2>1, <3>2 DEF SetPlot, CreateAbsent, Advance, Finish, TypeOK
      <4> QED
        BY <2>3, <3>2, <4>1, SetPlotPlace DEF Resets
    <3> QED
      BY <3>1, <3>2
  <2>4. CASE ~Resets(q)
    <3>1. UNCHANGED <<plotPassword, replaced, pc>>
      BY <2>1, <2>4 DEF SetPlot, CreateAbsent, Finish
    <3> QED
      BY <1>1, <3>1 DEF PasswordInv
  <2> QED
    BY <2>3, <2>4
<1>4. CASE ~(\E q \in Run : SetPlot(q))
  <2>1. UNCHANGED <<plotPassword, replaced>>
    BY <1>4 DEF Next, RunStep, Start, AssertServerVersion, CheckExists, SetWriter, SetRegistrar,
           SetDatabase, SetTrends, SchemaFile, Privilege, TailCheck, PlotLogin, Cut,
           ScadaCreatesTrends, ScadaCreatesMessages, WriterPasswordChanges, vars, cluster
  <2>2. pc[r] > 5
    <3>1. CASE pc[r] = 5
      <4>1. Script[pc[r]] = "setPlot" /\ pc'[r] # pc[r]
        BY <1>2, <3>1, SetPlaces
      <4>2. RunStep(r) /\ ~Start(r)
        BY <4>1, OwnStep DEF Start, Cut, Finish
      <4>3. /\ ~AssertServerVersion(r) /\ ~CheckExists(r) /\ ~SetWriter(r) /\ ~SetRegistrar(r)
            /\ ~SetDatabase(r) /\ ~SetTrends(r) /\ ~SchemaFile(r) /\ ~PlotLogin(r)
        BY <4>1 DEF AssertServerVersion, CheckExists, SetWriter, SetRegistrar, SetDatabase,
                    SetTrends, SchemaFile, PlotLogin, At
      <4>4. ~Privilege(r) /\ ~TailCheck(r)
        BY <4>1 DEF Privilege, Given, TailCheck, TailChecks, At
      <4> QED
        BY <1>4, <4>2, <4>3, <4>4 DEF RunStep
    <3>2. CASE pc[r] # 5
      BY <1>2, <3>2
    <3> QED
      BY <3>1, <3>2
  <2> QED
    BY <1>1, <2>1, <2>2 DEF PasswordInv
<1> QED
  BY <1>3, <1>4

\* A run's own login fails only where another run, given another password, has replaced
\* the viewer's since (resolvePasswords, ensureRole, checkPlotLogin).
THEOREM LoginFailureIsAnothers == Spec => LoginFailsOnlyAfterAnotherRun
<1>1. ASSUME TypeOK, PasswordInv, [Next]_vars, NEW r \in Run, outcome'[r] = "lockedOut",
             outcome[r] # "lockedOut"
      PROVE  r \in replaced
  <2>1. PlotLogin(r)
    BY <1>1, OwnEnd, VerdictOf
  <2>2. pc[r] \in 1..41 /\ Script[pc[r]] = "plotLogin"
    BY <1>1, <2>1, ScriptLength DEF PlotLogin, At, TypeOK
  <2>3. plotPassword # options[r].plot
    BY <1>1, <2>1 DEF PlotLogin, Advance, Finish, TypeOK
  <2> QED
    BY <1>1, <2>2, <2>3, TailPlaces DEF PasswordInv
<1>2. TypeOK /\ PasswordInv /\ [Next]_vars =>
        [\A r \in Run : outcome'[r] = "lockedOut" => outcome[r] = "lockedOut" \/ r \in replaced]_vars
  BY <1>1
<1>3. Init => TypeOK /\ PasswordInv
  BY InitTypes DEF Init, PasswordInv
<1> QED
  BY <1>2, <1>3, PasswordStep, TypesStep, PTL DEF Spec, LoginFailsOnlyAfterAnotherRun
=============================================================================
