------------------------------ MODULE Provision ------------------------------
(***************************************************************************)
(* The create and check phases of `semibase site` and `semibase bench`     *)
(* (internal/provision/create.go, schema.go, sql/ and check.go), statement *)
(* by statement, against one PostgreSQL cluster.                           *)
(*                                                                         *)
(* create has no transaction of its own: every statement commits, and a    *)
(* run may end after any of them (a lost connection, the command timeout,  *)
(* a killed process). check only reads: its probes are rolled back.        *)
(*                                                                         *)
(* Several runs act on the cluster, one after another or at once: a re-run *)
(* after a failure, the setup's run beside an operator's, builds of        *)
(* different schema versions. The SCADA, which owns the archive, creates   *)
(* tables of its own in between. SET ROLE is left to the session: a role   *)
(* assumed for a statement is part of that statement's effect here.        *)
(***************************************************************************)
EXTENDS Naturals, Sequences, FiniteSets

CONSTANTS
  Run,      \* runs of the command
  Options   \* what a run is given, and the schema version its build carries

\* A password is a given one or the convention, which for the writer stands for none
\* given.
Passwords == {"convention", "given"}

ASSUME OptionsAssumption ==
  Options \subseteq [writer : Passwords, plot : Passwords, version : Nat \ {0}]

\* mutant: create sets the default privileges after the archive table
ScriptGrantsLate == <<
  "assertServerVersion",
  "checkWriter", "setWriter", "checkPlot", "setPlot", "checkRegistrar", "setRegistrar",
  "checkDatabase", "setDatabase",
  "connectWriter", "connectPlot", "statementTimeout", "idleTimeout",
  "revokePublicCreate", "createWriter",
  "checkTrends", "setTrends", "defaultPrivileges",
  "tagsSQL", "registerSQL", "groupsSQL", "markersSQL", "metaSQL",
  "registrarTrends", "registrarTags", "registerOwner",
  "grantTags", "grantGroups", "grantPenGroups", "grantMarkers", "grantMeta",
  "grantRegister", "writerMarkers",
  "plotReads", "plotReadsVersion", "plotWrites", "publicCannotRegister",
  "plotCannotWrite", "plotCannotCreate", "writerAddsMarkers", "plotLogin" >>

\* The statements in the order create, then check, issue them. A "check" step only
\* reads, and the "set" step after it acts on what was read.
Script == <<
  "assertServerVersion",
  "checkWriter", "setWriter", "checkPlot", "setPlot", "checkRegistrar", "setRegistrar",
  "checkDatabase", "setDatabase",
  "connectWriter", "connectPlot", "statementTimeout", "idleTimeout",
  "revokePublicCreate", "createWriter", "defaultPrivileges",
  "checkTrends", "setTrends",
  "tagsSQL", "registerSQL", "groupsSQL", "markersSQL", "metaSQL",
  "registrarTrends", "registrarTags", "registerOwner",
  "grantTags", "grantGroups", "grantPenGroups", "grantMarkers", "grantMeta",
  "grantRegister", "writerMarkers",
  "plotReads", "plotReadsVersion", "plotWrites", "publicCannotRegister",
  "plotCannotWrite", "plotCannotCreate", "writerAddsMarkers", "plotLogin" >>

Statement(step) == CHOOSE i \in 1..Len(Script) : Script[i] = step

Objects == {"writer", "plot", "registrar", "database", "trends", "tpdefault",
            "tags", "register", "groups", "penGroups", "markers", "meta", "messages"}

\* An ACL entry or a role setting that a statement of the script gives is named
\* after that statement; PUBLIC's three come with an object's defaults.
Given == {"connectWriter", "connectPlot", "statementTimeout", "idleTimeout",
          "createWriter", "defaultPrivileges", "registrarTrends", "registrarTags",
          "registerOwner", "grantTags", "grantGroups", "grantPenGroups",
          "grantMarkers", "grantMeta", "grantRegister", "writerMarkers"}
Acls == Given \cup {"publicCreate", "publicExecute"}

\* The objects a plain statement names: without one of them it fails.
Needs(step) ==
  CASE step \in {"connectWriter"} -> {"writer", "database"}
    [] step \in {"connectPlot"} -> {"plot", "database"}
    [] step \in {"statementTimeout", "idleTimeout"} -> {"plot"}
    [] step = "createWriter" -> {"writer", "database"}
    [] step = "defaultPrivileges" -> {"writer", "plot", "database"}
    [] step = "registrarTrends" -> {"registrar", "trends"}
    [] step = "registrarTags" -> {"registrar", "tags"}
    [] step = "registerOwner" -> {"registrar", "register"}
    [] step = "grantTags" -> {"plot", "tags"}
    [] step = "grantGroups" -> {"plot", "groups"}
    [] step = "grantPenGroups" -> {"plot", "penGroups"}
    [] step = "grantMarkers" -> {"plot", "markers"}
    [] step = "grantMeta" -> {"plot", "meta"}
    [] step = "grantRegister" -> {"plot", "register"}
    [] step = "writerMarkers" -> {"writer", "markers"}
    [] step = "tagsSQL" -> {"database"}
    [] step = "registerSQL" -> {"trends", "tags"}
    [] step = "groupsSQL" -> {"tags"}
    [] OTHER -> {"database"}

\* CREATE TABLE IF NOT EXISTS and CREATE OR REPLACE FUNCTION of the schema files
Makes(step) ==
  CASE step = "tagsSQL" -> {"tags"}
    [] step = "registerSQL" -> {"register"}
    [] step = "groupsSQL" -> {"groups", "penGroups"}
    [] step = "markersSQL" -> {"markers"}
    [] step = "metaSQL" -> {"meta"}
    [] OTHER -> {}

VARIABLES
  \* the cluster
  objects,         \* what exists
  acls,            \* privileges, ownerships and role settings in force
  writerPassword,  \* of scada_writer: the SCADA project holds it too
  plotPassword,    \* of semiplot
  trendsBy,        \* who created public.trends
  unreadable,      \* tables of the writer created without default privileges
  schemaVersion,   \* semiplot_meta.schema_version
  \* the runs
  pc,              \* index in Script of the run's next statement
  seen,            \* what the run's last "check" step found
  outcome,         \* how the run ended
  options,         \* what it was given
  raced,           \* history: who got in between a run's check and its statement
  replaced         \* history: the runs whose viewer password another run has replaced

cluster == <<objects, acls, writerPassword, plotPassword, trendsBy, unreadable, schemaVersion>>
vars == <<cluster, pc, seen, outcome, options, raced, replaced>>

Outcomes == {"ready", "running", "done", "refused", "cut", "conflict", "missing", "noDefault",
             "unfit", "lockedOut"}

TypeOK ==
  /\ objects \subseteq Objects /\ acls \subseteq Acls
  /\ writerPassword \in Passwords \cup {"none", "scada"}
  /\ plotPassword \in Passwords \cup {"none"}
  /\ trendsBy \in {"none", "tool", "scada"}
  /\ unreadable \subseteq {"trends", "messages"}
  /\ schemaVersion \in {0} \cup {o.version : o \in Options}
  /\ pc \in [Run -> 1..Len(Script)]
  /\ seen \in [Run -> {"absent", "present"}]
  /\ outcome \in [Run -> Outcomes]
  /\ options \in [Run -> Options]
  /\ raced \subseteq Run /\ replaced \subseteq Run
  /\ (writerPassword = "none") <=> ("writer" \notin objects)
  /\ (trendsBy = "none") <=> ("trends" \notin objects)

\* A cluster no run has touched.
Init ==
  /\ objects = {} /\ acls = {} /\ trendsBy = "none" /\ unreadable = {}
  /\ writerPassword = "none" /\ plotPassword = "none" /\ schemaVersion = 0
  /\ pc = [r \in Run |-> 1]
  /\ seen = [r \in Run |-> "absent"]
  /\ outcome = [r \in Run |-> "ready"]
  /\ options \in [Run -> Options]
  /\ raced = {} /\ replaced = {}

-----------------------------------------------------------------------------
(* Steps of a run. *)

At(r, step) == outcome[r] = "running" /\ Script[pc[r]] = step

Finish(r, verdict) ==
  /\ outcome' = [outcome EXCEPT ![r] = verdict]
  /\ UNCHANGED pc

Advance(r) ==
  IF pc[r] = Len(Script)
    THEN Finish(r, "done")
    ELSE pc' = [pc EXCEPT ![r] = @ + 1] /\ UNCHANGED outcome

Start(r) ==
  /\ outcome[r] = "ready"
  /\ outcome' = [outcome EXCEPT ![r] = "running"]
  /\ UNCHANGED <<cluster, pc, seen, options, replaced, raced>>

\* A version below the floor, or another major than the one expected.
AssertServerVersion(r) ==
  /\ At(r, "assertServerVersion")
  /\ Advance(r) \/ Finish(r, "refused")
  /\ UNCHANGED <<cluster, seen, options, replaced, raced>>

Checked(step) ==
  CASE step = "checkWriter" -> "writer"
    [] step = "checkPlot" -> "plot"
    [] step = "checkRegistrar" -> "registrar"
    [] step = "checkDatabase" -> "database"
    [] step = "checkTrends" -> "trends"
    [] OTHER -> "none"

\* roleExists, the pg_database query and relationExists
CheckExists(r) ==
  /\ \E step \in {"checkWriter", "checkPlot", "checkRegistrar", "checkDatabase", "checkTrends"} :
       /\ At(r, step)
       /\ seen' = [seen EXCEPT ![r] =
                     IF Checked(step) \in objects THEN "present" ELSE "absent"]
  /\ Advance(r) /\ raced' = raced \ {r}
  /\ UNCHANGED <<cluster, options, replaced>>

\* The runs whose check of this object is now out of date.
Overtaken(object) ==
  {r \in Run : /\ outcome[r] = "running" /\ seen[r] = "absent"
               /\ pc[r] > 1 /\ Checked(Script[pc[r] - 1]) = object}

\* Creates what the check found absent; a statement that finds it there fails.
CreateAbsent(r, object, more) ==
  /\ seen[r] = "absent"
  /\ IF object \in objects
       THEN Finish(r, "conflict") /\ UNCHANGED <<objects, raced>>
       ELSE /\ objects' = objects \cup {object} \cup more
            /\ Advance(r)
            /\ raced' = raced \cup (Overtaken(object) \ {r})

\* mutant: an existing writer takes the given password as well
SetWriterResets(r) ==
  /\ At(r, "setWriter")
  /\ \/ /\ CreateAbsent(r, "writer", {})
        /\ writerPassword' = IF "writer" \in objects THEN writerPassword
                                                     ELSE options[r].writer
     \/ /\ seen[r] = "present" /\ Advance(r) /\ UNCHANGED <<objects, raced>>
        /\ writerPassword' = IF options[r].writer = "given" THEN "given" ELSE writerPassword
  /\ UNCHANGED <<acls, plotPassword, trendsBy, unreadable, schemaVersion, seen, options, replaced>>

\* resetExisting is false: an existing writer keeps its password.
SetWriter(r) ==
  /\ At(r, "setWriter")
  /\ \/ /\ CreateAbsent(r, "writer", {})
        /\ writerPassword' = IF "writer" \in objects THEN writerPassword
                                                     ELSE options[r].writer
     \/ seen[r] = "present" /\ Advance(r) /\ UNCHANGED <<objects, raced, writerPassword>>
  /\ UNCHANGED <<acls, plotPassword, trendsBy, unreadable, schemaVersion, seen, options, replaced>>

\* The viewer logs in with this run's password, and no longer with those before.
Resets(r) ==
  /\ plotPassword' = options[r].plot
  /\ replaced' = {q \in Run \ {r} : options[q].plot # options[r].plot /\ pc[q] > Statement("setPlot")}

\* mutant: an existing viewer keeps its password
SetPlotKeeps(r) ==
  /\ At(r, "setPlot")
  /\ \/ /\ CreateAbsent(r, "plot", {})
        /\ IF "plot" \in objects THEN UNCHANGED <<plotPassword, replaced>> ELSE Resets(r)
     \/ /\ seen[r] = "present" /\ Advance(r)
        /\ UNCHANGED <<objects, raced, plotPassword, replaced>>
  /\ UNCHANGED <<acls, writerPassword, trendsBy, unreadable, schemaVersion, seen, options>>

\* resetExisting is true, and resolvePasswords leaves the viewer's never empty: an
\* existing viewer goes back to the given password or the convention.
SetPlot(r) ==
  /\ At(r, "setPlot")
  /\ \/ /\ CreateAbsent(r, "plot", {})
        /\ IF "plot" \in objects THEN UNCHANGED <<plotPassword, replaced>> ELSE Resets(r)
     \/ seen[r] = "present" /\ Advance(r) /\ UNCHANGED <<objects, raced>> /\ Resets(r)
  /\ UNCHANGED <<acls, writerPassword, trendsBy, unreadable, schemaVersion, seen, options>>

SetRegistrar(r) ==
  /\ At(r, "setRegistrar")
  /\ \/ CreateAbsent(r, "registrar", {})
     \/ seen[r] = "present" /\ Advance(r) /\ UNCHANGED <<objects, raced>>
  /\ UNCHANGED <<acls, writerPassword, plotPassword, trendsBy, unreadable, schemaVersion,
                 seen, options, replaced>>

\* PostgreSQL 14 still grants PUBLIC the CREATE on schema public of a new database.
SetDatabase(r) ==
  /\ At(r, "setDatabase")
  /\ \/ /\ CreateAbsent(r, "database", {})
        /\ IF "database" \in objects THEN UNCHANGED acls
           ELSE \E public \in SUBSET {"publicCreate"} : acls' = acls \cup public
     \/ seen[r] = "present" /\ Advance(r) /\ UNCHANGED <<objects, acls, raced>>
  /\ UNCHANGED <<writerPassword, plotPassword, trendsBy, unreadable, schemaVersion, seen, options, replaced>>

\* A table the writer creates is readable by semiplot if the default privileges
\* are in force by then.
Created(table) ==
  unreadable' = IF "defaultPrivileges" \in acls THEN unreadable ELSE unreadable \cup {table}

\* mutant: trends.sql is sent as two statements, and a run may end between them
SetTrendsInTwo(r) ==
  /\ At(r, "setTrends")
  /\ \/ /\ CreateAbsent(r, "trends", {"tpdefault"})
        /\ IF "trends" \in objects THEN UNCHANGED <<trendsBy, unreadable>>
                                   ELSE trendsBy' = "tool" /\ Created("trends")
     \/ /\ seen[r] = "absent" /\ "trends" \notin objects
        /\ objects' = objects \cup {"trends"} /\ trendsBy' = "tool" /\ Created("trends")
        /\ Finish(r, "cut") /\ UNCHANGED raced
     \/ /\ seen[r] = "present"
        /\ IF "tpdefault" \in objects THEN Advance(r) ELSE Finish(r, "noDefault")
        /\ UNCHANGED <<objects, trendsBy, unreadable, raced>>
  /\ UNCHANGED <<acls, writerPassword, plotPassword, schemaVersion, seen, options, replaced>>

\* trends.sql as SET ROLE scada_writer, one implicit transaction; an existing
\* table is only inspected.
SetTrends(r) ==
  /\ At(r, "setTrends")
  /\ \/ /\ CreateAbsent(r, "trends", {"tpdefault"})
        /\ IF "trends" \in objects THEN UNCHANGED <<trendsBy, unreadable>>
                                   ELSE trendsBy' = "tool" /\ Created("trends")
     \/ /\ seen[r] = "present"
        /\ IF "tpdefault" \in objects THEN Advance(r) ELSE Finish(r, "noDefault")
        /\ UNCHANGED <<objects, trendsBy, unreadable, raced>>
  /\ UNCHANGED <<acls, writerPassword, plotPassword, schemaVersion, seen, options, replaced>>

\* mutant: the function is dropped and created anew on every run
SchemaFileRecreates(r) ==
  \E step \in {"tagsSQL", "registerSQL", "groupsSQL", "markersSQL", "metaSQL"} :
    /\ At(r, step) /\ Advance(r)
    /\ objects' = objects \cup Makes(step)
    /\ acls' = IF step = "registerSQL"
                 THEN (acls \ {"grantRegister", "registerOwner"}) \cup {"publicExecute"}
                 ELSE acls
    /\ schemaVersion' = IF step = "metaSQL" /\ schemaVersion < options[r].version
                          THEN options[r].version ELSE schemaVersion
    /\ UNCHANGED <<writerPassword, plotPassword, trendsBy, unreadable, seen, options, replaced, raced>>

\* mutant: the upsert writes the build's version whatever it finds
SchemaFileOverwrites(r) ==
  \E step \in {"tagsSQL", "registerSQL", "groupsSQL", "markersSQL", "metaSQL"} :
    /\ At(r, step) /\ Advance(r)
    /\ objects' = objects \cup Makes(step)
    /\ acls' = IF step = "registerSQL" /\ "register" \notin objects
                 THEN acls \cup {"publicExecute"} ELSE acls
    /\ schemaVersion' = IF step = "metaSQL" THEN options[r].version ELSE schemaVersion
    /\ UNCHANGED <<writerPassword, plotPassword, trendsBy, unreadable, seen, options, replaced, raced>>

\* The five schema files. A new function is executable by PUBLIC and owned by the
\* superuser; a replaced one keeps its owner and its privileges. The upsert of
\* semiplot_meta.sql only ever raises the version.
SchemaFile(r) ==
  \E step \in {"tagsSQL", "registerSQL", "groupsSQL", "markersSQL", "metaSQL"} :
    /\ At(r, step)
    /\ IF Needs(step) \subseteq objects
         THEN /\ Advance(r)
              /\ objects' = objects \cup Makes(step)
              /\ acls' = IF step = "registerSQL" /\ "register" \notin objects
                           THEN acls \cup {"publicExecute"} ELSE acls
              /\ schemaVersion' = IF step = "metaSQL" /\ schemaVersion < options[r].version
                                    THEN options[r].version ELSE schemaVersion
         ELSE Finish(r, "missing") /\ UNCHANGED <<objects, acls, schemaVersion>>
    /\ UNCHANGED <<writerPassword, plotPassword, trendsBy, unreadable, seen, options, replaced, raced>>

Takes(step) ==
  CASE step = "grantRegister" -> {"publicExecute"}
    [] step = "revokePublicCreate" -> {"publicCreate"}
    [] OTHER -> {}

\* mutant: the default privileges omit FOR ROLE, so they bind the superuser's tables
PrivilegeForSelf(r) ==
  \E step \in Given \cup {"revokePublicCreate"} :
    /\ At(r, step)
    /\ IF Needs(step) \subseteq objects
         THEN /\ Advance(r)
              /\ acls' = (acls \ Takes(step)) \cup (({step} \cap Given) \ {"defaultPrivileges"})
         ELSE Finish(r, "missing") /\ UNCHANGED acls
    /\ UNCHANGED <<objects, writerPassword, plotPassword, trendsBy, unreadable,
                   schemaVersion, seen, options, replaced, raced>>

\* One GRANT, REVOKE or ALTER. grantRegister's REVOKE and GRANT travel in one
\* simple-protocol query, so they commit together.
Privilege(r) ==
  \E step \in Given \cup {"revokePublicCreate"} :
    /\ At(r, step)
    /\ IF Needs(step) \subseteq objects
         THEN Advance(r) /\ acls' = (acls \ Takes(step)) \cup ({step} \cap Given)
         ELSE Finish(r, "missing") /\ UNCHANGED acls
    /\ UNCHANGED <<objects, writerPassword, plotPassword, trendsBy, unreadable,
                   schemaVersion, seen, options, replaced, raced>>

\* What a check of the tail asks of the cluster. A direct grant or PUBLIC's lets the
\* viewer call the function, which reads and inserts with its owner's privileges.
Fit(step) ==
  CASE step = "plotReads" -> "trends" \in objects /\ "trends" \notin unreadable
    [] step = "plotReadsVersion" -> "grantMeta" \in acls
    [] step = "plotWrites" ->
         /\ {"grantTags", "grantGroups", "grantPenGroups", "grantMarkers"} \subseteq acls
         /\ {"grantRegister", "publicExecute"} \cap acls # {}
         /\ "registerOwner" \in acls => {"registrarTrends", "registrarTags"} \subseteq acls
    [] step = "publicCannotRegister" -> "publicExecute" \notin acls
    [] step = "plotCannotWrite" -> {"trends", "meta"} \subseteq objects
    [] step = "plotCannotCreate" -> "publicCreate" \notin acls
    [] step = "writerAddsMarkers" -> "writerMarkers" \in acls

TailChecks == {"plotReads", "plotReadsVersion", "plotWrites", "publicCannotRegister",
               "plotCannotWrite", "plotCannotCreate", "writerAddsMarkers"}

\* The tail: the first check that fails ends the run with an error.
TailCheck(r) ==
  \E step \in TailChecks :
    /\ At(r, step)
    /\ IF Fit(step) THEN Advance(r) ELSE Finish(r, "unfit")
    /\ UNCHANGED <<cluster, seen, options, replaced, raced>>

\* checkPlotLogin, over TCP: the password this run was given, then the probe
PlotLogin(r) ==
  /\ At(r, "plotLogin")
  /\ IF plotPassword # options[r].plot THEN Finish(r, "lockedOut")
     ELSE IF "connectPlot" \in acls /\ Fit("plotReads") THEN Advance(r)
     ELSE Finish(r, "unfit")
  /\ UNCHANGED <<cluster, seen, options, replaced, raced>>

\* The connection is lost, the context is done, the process dies or the server
\* refuses the statement (two GRANTs on one object at once): the run ends at any
\* statement, and that statement has not committed. Where it has, the run ends
\* before the next one.
Cut(r) ==
  /\ outcome[r] = "running"
  /\ Finish(r, "cut")
  /\ UNCHANGED <<cluster, seen, options, replaced, raced>>

RunStep(r) == Start(r) \/ AssertServerVersion(r) \/ CheckExists(r)
              \/ SetWriter(r) \/ SetPlot(r) \/ SetRegistrar(r) \/ SetDatabase(r)
              \/ SetTrends(r) \/ SchemaFile(r) \/ Privilege(r)
              \/ TailCheck(r) \/ PlotLogin(r)

-----------------------------------------------------------------------------
(* Around the runs. *)

\* The SCADA, logged in as scada_writer, may create in schema public.
ScadaMayCreate ==
  {"writer", "database"} \subseteq objects /\ acls \cap {"createWriter", "publicCreate"} # {}

ScadaCreatesTrends ==
  /\ ScadaMayCreate /\ "trends" \notin objects
  /\ \E default \in SUBSET {"tpdefault"} : objects' = objects \cup {"trends"} \cup default
  /\ trendsBy' = "scada" /\ Created("trends")
  /\ raced' = raced \cup Overtaken("trends")
  /\ UNCHANGED <<acls, writerPassword, plotPassword, schemaVersion, pc, seen, outcome, options, replaced>>

ScadaCreatesMessages ==
  /\ ScadaMayCreate /\ "messages" \notin objects
  /\ objects' = objects \cup {"messages"} /\ Created("messages")
  /\ UNCHANGED <<acls, writerPassword, plotPassword, trendsBy, schemaVersion,
                 pc, seen, outcome, options, replaced, raced>>

\* The operator gives the writer the password of the SCADA project.
WriterPasswordChanges ==
  /\ "writer" \in objects /\ writerPassword # "scada"
  /\ writerPassword' = "scada"
  /\ UNCHANGED <<objects, acls, plotPassword, trendsBy, unreadable, schemaVersion,
                 pc, seen, outcome, options, replaced, raced>>

Next ==
  \/ \E r \in Run : RunStep(r) \/ Cut(r)
  \/ ScadaCreatesTrends \/ ScadaCreatesMessages \/ WriterPasswordChanges

Spec == Init /\ [][Next]_vars

-----------------------------------------------------------------------------
(* Safety. *)

\* The SCADA project holds the writer's password too: no run, whatever its flags and
\* whatever ran before or beside it, changes the password of a writer that exists
\* (create.go, "a run never changes it").
WriterPasswordKept ==
  [][writerPassword' # writerPassword => writerPassword = "none" \/ writerPassword' = "scada"]_vars

\* The archive table this tool creates is one the viewer reads, whichever run
\* created it and wherever earlier runs stopped: the default privileges of its owner
\* are in force by then, and never taken away (createArchiveTable).
ToolTrendsReadable == trendsBy = "tool" => "trends" \notin unreadable

\* Once any run has set the default privileges, the SCADA's tables are readable from
\* birth, whatever later and parallel runs do or fail to do (create.go, the comment
\* above defaultPrivilegesStatement).
ReadableFromThenOn ==
  [][(\E r \in Run : pc[r] > Statement("defaultPrivileges")) => unreadable' = unreadable]_vars

\* When a run has exited 0 the machine is commissioned, and no later, parallel,
\* older or failing run undoes it: every object and grant is in place, PUBLIC holds
\* neither CREATE nor EXECUTE, and the viewer reads trends (Site, Bench).
CommissionedStays ==
  (\E r \in Run : outcome[r] = "done") =>
    /\ Objects \ {"messages"} \subseteq objects
    /\ Given \subseteq acls
    /\ acls \cap {"publicCreate", "publicExecute"} = {}
    /\ "trends" \notin unreadable

\* schema_version is a floor: it is never below the build of a run that has written
\* it, so an older build that runs later does not hide a newer schema
\* (semiplot_meta.sql).
SchemaVersionIsAFloor ==
  \A r \in Run : pc[r] > Statement("metaSQL") => schemaVersion >= options[r].version

\* A re-run continues from wherever an earlier run stopped. create fails only where
\* a run or the SCADA got between its check and its statement, or over a trends
\* without tpdefault that the SCADA made; never over what a cut run left behind
\* (main.go: "every step checks before it creates").
FailuresAreExplained ==
  \A r \in Run :
    /\ outcome[r] = "conflict" => r \in raced
    /\ outcome[r] = "noDefault" => trendsBy = "scada"
    /\ outcome[r] # "missing"

\* create establishes what check asks: the tail fails only over a trends the SCADA
\* created before the default privileges, even with other runs in progress.
TailFailsOnlyOverEarlyTrends ==
  \A r \in Run : outcome[r] = "unfit" => trendsBy = "scada" /\ "trends" \in unreadable

\* The run's own login fails only where another run, given another password, has replaced it
\* since: neither an older password nor the convention survives a run's reset
\* (resolvePasswords, ensureRole with resetExisting).
LoginFailsOnlyAfterAnotherRun ==
  [][\A r \in Run : outcome'[r] = "lockedOut" => outcome[r] = "lockedOut" \/ r \in replaced]_vars
=============================================================================
