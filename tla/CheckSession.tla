---------------------------- MODULE CheckSession ----------------------------
(***************************************************************************)
(* The check phase on its connection (internal/provision/check.go, and     *)
(* runAs and connect of provision.go): which role a statement runs as,     *)
(* whether its transaction still accepts statements, what is left behind,  *)
(* and what the run may conclude from an error.                            *)
(*                                                                         *)
(* PostgreSQL keeps the role inside transactions: a rollback restores the  *)
(* role in force when the transaction, or the savepoint, began. After an   *)
(* error a transaction refuses every statement but a rollback. A           *)
(* cancelled context is a lost connection to this code: no statement after *)
(* it reaches the server. Beside the run an administrator, or another run, *)
(* grants and revokes.                                                     *)
(***************************************************************************)
EXTENDS Naturals, Sequences, FiniteSets

CONSTANTS
  Facts,     \* the privileges an administrator changes; MCCheckSession takes all
  MaxMoves   \* bound: changes made while the run is in progress

-----------------------------------------------------------------------------
(* The statements of the run, in order, and what they ask. *)

WriteProbes == {"updateTags", "insertGroup", "updateGroup", "insertPenGroup",
                "updatePenGroup", "deletePenGroup", "deleteGroup",
                "insertMarker", "updateMarker", "deleteMarker"}
ForbiddenProbes == {"insertTag", "deleteTag", "rekeyTag"}
ShadowProbes == {"register", "shadowTable", "shadowGrant", "shadowInsert", "shadowRegister"}

\* has_..._privilege: a fact of the catalog that must not hold
Questions == {"publicRegister", "writeTrends", "writeMessages", "writeVersion",
              "createInPublic", "writerReads", "writerMoves", "writerDeletes",
              "writerTruncates"}

\* mutant: a single savepoint around all the refused probes
ScriptOneSavepoint == <<
  "connect", "settings",
  "asPlot", "readTrends", "end", "diagnose", "asPlot", "readVersion", "end", "diagnose",
  "asPlot", "begin",
  "register", "shadowTable", "shadowGrant", "shadowInsert", "shadowRegister", "shadowLookup",
  "updateTags", "insertGroup", "updateGroup", "insertPenGroup", "updatePenGroup",
  "deletePenGroup", "deleteGroup", "insertMarker", "updateMarker", "deleteMarker",
  "savepoint", "insertTag", "deleteTag", "rekeyTag", "end", "end", "end",
  "publicRegister", "writeTrends", "messages", "writeMessages", "writeVersion",
  "createInPublic", "asWriter", "begin", "addMarker", "end", "end",
  "writerReads", "writerMoves", "writerDeletes", "writerTruncates",
  "plotLogin", "pending" >>

\* "end" leaves the innermost of runAs, the transaction and the savepoint. The three
\* questions about a table are one entry.
Script == <<
  "connect", "settings",
  "asPlot", "readTrends", "end", "diagnose", "asPlot", "readVersion", "end", "diagnose",
  "asPlot", "begin",
  "register", "shadowTable", "shadowGrant", "shadowInsert", "shadowRegister", "shadowLookup",
  "updateTags", "insertGroup", "updateGroup", "insertPenGroup", "updatePenGroup",
  "deletePenGroup", "deleteGroup", "insertMarker", "updateMarker", "deleteMarker",
  "savepoint", "insertTag", "end", "savepoint", "deleteTag", "end",
  "savepoint", "rekeyTag", "end", "end", "end",
  "publicRegister", "writeTrends", "messages", "writeMessages", "writeVersion",
  "createInPublic", "asWriter", "begin", "addMarker", "end", "end",
  "writerReads", "writerMoves", "writerDeletes", "writerTruncates",
  "plotLogin", "pending" >>

\* What must hold, and what must not. "temporary" is the TEMPORARY privilege on the
\* database; "shadowed" a function body that reads its caller's trends.
Wanted == WriteProbes \cup {"superuser", "usage", "readTrends", "readVersion", "readTags",
                            "register", "temporary", "addMarker", "login"}
Unwanted == ForbiddenProbes \cup Questions \cup {"shadowed"}

ASSUME FactsAssumption == Facts \subseteq Wanted \cup Unwanted /\ MaxMoves \in Nat

\* The privileges a probe needs; those of a table or function, and USAGE on its schema.
Privileges(p) ==
  CASE p = "shadowTable" -> {"temporary"}
    [] p \in {"shadowGrant", "shadowInsert"} -> {}
    [] p = "shadowRegister" -> {"register", "usage"}
    [] p = "shadowLookup" -> {"readTags", "usage"}
    [] p \in {"superuser", "usage", "temporary", "login", "shadowed"} \cup Questions -> {p}
    [] OTHER -> {p, "usage"}

\* PUBLIC's EXECUTE on the function is the viewer's as well.
Enough(p, h) ==
  Privileges(p) \subseteq h \cup (IF "publicRegister" \in h THEN {"register"} ELSE {})

Right(f, h) == IF f \in Wanted THEN Enough(f, h) ELSE ~Enough(f, h)
RightOnes(h) == {f \in Wanted \cup Unwanted : Right(f, h)}

-----------------------------------------------------------------------------
VARIABLES
  \* the cluster and the target
  held,        \* privileges in force
  messages,    \* has the SCADA created public.messages
  socketHost,  \* is --host a socket directory
  kept,        \* what the run's probes have committed
  \* the session on the server
  conn, role,
  saves,       \* per open transaction or savepoint: the role and the rows it began with
  rows,        \* what the open transaction has written
  broken,      \* an error has aborted the open transaction
  \* the run
  pc, scope,   \* scope: the innermost of the deferred cleanups it owes
  cause,       \* how the last probe ended (probeErr)
  verdict, named,
  \* history
  right, wrong,  \* facts that were right, and wrong, at some moment of the run
  faults, moves

world == <<held, messages, socketHost>>
session == <<conn, role, saves, rows, broken, kept>>
run == <<pc, scope, cause, verdict, named>>
history == <<right, wrong, faults, moves>>
vars == <<world, session, run, history>>

Verdicts == {"running", "passed", "grant", "revoke", "defect", "other", "killed"}
Roles == {"superuser", "semiplot", "scadaWriter"}

Statements == {Script[i] : i \in DOMAIN Script}
Saves == [role : Roles, rows : SUBSET Statements]

TypeOK ==
  /\ held \subseteq Wanted \cup Unwanted
  /\ messages \in {"absent", "present"} /\ socketHost \in {"no", "yes"}
  /\ conn \in {"none", "open", "lost", "closed"} /\ role \in Roles
  /\ saves \in Seq(Saves)
  /\ broken \in {"no", "yes"}
  /\ rows \subseteq Statements /\ kept \subseteq Statements
  /\ pc \in DOMAIN Script /\ scope \in {"none", "role", "transaction", "savepoint"}
  /\ cause \in {"none", "refused", "error"}
  /\ verdict \in Verdicts
  /\ named \in {"none"} \cup Wanted \cup Unwanted
  /\ right \subseteq Wanted \cup Unwanted /\ wrong \subseteq Wanted \cup Unwanted
  /\ faults \subseteq {"transient", "lost", "integrity"} /\ moves \in 0..MaxMoves

\* create has just granted what is wanted; at most one thing is otherwise.
Init ==
  /\ held \in {Wanted} \cup {Wanted \ {f} : f \in Facts \cap Wanted}
                       \cup {Wanted \cup {f} : f \in Facts \cap Unwanted}
  /\ messages \in {"absent", "present"} /\ socketHost \in {"no", "yes"}
  /\ kept = {} /\ conn = "none" /\ role = "superuser" /\ saves = <<>>
  /\ rows = {} /\ broken = "no"
  /\ pc = 1 /\ scope = "none" /\ cause = "none" /\ verdict = "running" /\ named = "none"
  /\ right = RightOnes(held) /\ wrong = (Wanted \cup Unwanted) \ RightOnes(held)
  /\ faults = {} /\ moves = 0

-----------------------------------------------------------------------------
(* The server: what a statement does to the session. *)

AllResults == {"ok", "refused", "integrity", "aborted", "transient", "lost"}

At(p) == verdict = "running" /\ Script[pc] = p

\* The session's role is superuser, and may do everything but the SUSET settings
\* when it is not, or the role a probe is meant for.
Can(p) ==
  \/ role = "superuser" /\ (p = "settings" => "superuser" \in held)
  \/ role = (IF p = "addMarker" THEN "scadaWriter" ELSE "semiplot") /\ Enough(p, held)
  \/ p \in {"reset", "begin", "savepoint"} \cup Questions \cup {"diagnose", "messages", "pending"}

\* A row of the same name, or a pen of the probe's id, is in the way of an INSERT
\* that has passed the privilege check.
Possible(p, result) ==
  \/ result = "lost"
  \/ conn = "open" /\ broken = "yes" /\ result = "aborted"
  \/ /\ conn = "open" /\ broken = "no"
     /\ \/ result = "transient"
        \/ result = "refused" /\ ~Can(p)
        \/ result = "ok" /\ Can(p)
        \/ result = "integrity" /\ Can(p) /\ p \in {"insertGroup", "insertTag"}
Results(p) == {result \in AllResults : Possible(p, result)}

Leaves(p) == {p} \cap (WriteProbes \cup ForbiddenProbes \cup ShadowProbes \cup {"addMarker"})

Drop ==
  /\ conn' = "lost" /\ role' = "superuser" /\ saves' = <<>> /\ rows' = {} /\ broken' = "no"
  /\ UNCHANGED kept

Fault(result) == faults' = faults \cup ({result} \cap {"transient", "lost", "integrity"})

\* A statement with this result; "to" is the role after it. Outside a transaction it
\* commits.
Exec(p, result, to) ==
  /\ result \in Results(p) /\ Fault(result)
  /\ IF result = "lost" THEN Drop
     ELSE /\ UNCHANGED <<conn, saves>>
          /\ role' = IF result = "ok" THEN to ELSE role
          /\ broken' = IF result = "ok" \/ saves = <<>> THEN broken ELSE "yes"
          /\ rows' = IF result = "ok" /\ saves # <<>> THEN rows \cup Leaves(p) ELSE rows
          /\ kept' = IF result = "ok" /\ saves = <<>> THEN kept \cup Leaves(p) ELSE kept

Push(p) ==
  /\ "ok" \in Results(p)
  /\ saves' = Append(saves, [role |-> role, rows |-> rows])
  /\ UNCHANGED <<conn, role, rows, broken, kept, faults>>

Pop ==
  /\ conn = "open" /\ saves # <<>>
  /\ LET save == saves[Len(saves)]
     IN  role' = save.role /\ rows' = save.rows
  /\ saves' = SubSeq(saves, 1, Len(saves) - 1) /\ broken' = "no"
  /\ UNCHANGED <<conn, kept, faults>>

-----------------------------------------------------------------------------
(* The run. *)

Proceed == pc' = pc + 1 /\ UNCHANGED <<verdict, named>>
Fail(kind, what) == verdict' = kind /\ named' = what /\ UNCHANGED pc

Idle == UNCHANGED <<world, right, wrong, moves>>

Connect ==
  /\ At("connect")
  /\ \/ Proceed /\ conn' = "open" /\ UNCHANGED faults
     \/ Fail("other", "none") /\ Fault("lost") /\ UNCHANGED conn
  /\ UNCHANGED <<role, saves, rows, broken, kept, scope, cause>> /\ Idle

\* What the code makes of an error: the run goes on, or ends with a verdict.
Plain == [result \in AllResults |-> IF result = "ok" THEN "on" ELSE "other"]
IfRefused(verdictThen) ==
  [result \in AllResults |-> CASE result = "ok" -> "on"
                               [] result = "refused" -> verdictThen
                               [] OTHER -> "other"]

\* Executes a statement of the run and judges its result.
Ask(p, judgement, what) ==
  /\ At(p)
  /\ \E result \in Results(p) :
       /\ Exec(p, result, role)
       /\ IF judgement[result] = "on" THEN Proceed ELSE Fail(judgement[result], what)
       /\ cause' = IF result = "ok" THEN "none"
                   ELSE IF result = "refused" THEN "refused" ELSE "error"
  /\ UNCHANGED scope /\ Idle

\* superuserSessionSettings: only a role without rolsuper is refused one
SessionSettingFailure == IfRefused("grant")
Settings == Ask("settings", SessionSettingFailure, "superuser")

AssumeRole ==
  /\ verdict = "running" /\ Script[pc] \in {"asPlot", "asWriter"}
  /\ \E result \in Results(Script[pc]) :
       /\ Exec(Script[pc], result, IF Script[pc] = "asPlot" THEN "semiplot" ELSE "scadaWriter")
       /\ IF result = "ok" THEN Proceed /\ scope' = "role"
                           ELSE Fail("other", "none") /\ UNCHANGED scope
  /\ UNCHANGED cause /\ Idle

\* mutant: the probes run without a transaction
BeginNothing ==
  /\ At("begin") /\ Proceed /\ scope' = "transaction"
  /\ UNCHANGED <<session, cause, faults>> /\ Idle

\* The driver closes a connection whose BEGIN fails.
Begin ==
  /\ At("begin")
  /\ \/ Push("begin") /\ Proceed /\ scope' = "transaction"
     \/ Drop /\ Fault("lost") /\ Fail("other", "none") /\ UNCHANGED scope
  /\ UNCHANGED cause /\ Idle

Savepoint ==
  /\ At("savepoint")
  /\ \/ Push("savepoint") /\ Proceed /\ scope' = "savepoint"
     \/ \E result \in Results("savepoint") \ {"ok"} :
          Exec("savepoint", result, role) /\ Fail("other", "none") /\ UNCHANGED scope
  /\ UNCHANGED cause /\ Idle

Outer == [savepoint |-> "transaction", transaction |-> "role", role |-> "none"]

\* The deferred Rollback, whose error is not looked at.
RollBack ==
  \/ Pop
  \/ Drop /\ Fault("lost")

\* mutant: the role is dropped before the transaction is rolled back
LeaveInOrder ==
  /\ scope # "none" /\ (At("end") \/ verdict # "running")
  /\ scope' = Outer[scope]
  /\ IF scope = "savepoint" \/ (scope = "role" /\ saves # <<>>)
       THEN RollBack /\ (IF verdict = "running" THEN Proceed
                                                ELSE UNCHANGED <<pc, verdict, named>>)
       ELSE \E result \in Results("reset") :
              /\ Exec("reset", result, "superuser")
              /\ IF verdict # "running" THEN UNCHANGED <<pc, verdict, named>>
                 ELSE IF result = "ok" THEN Proceed ELSE Fail("other", "none")
  /\ UNCHANGED cause /\ Idle

\* The cleanup of the innermost scope, at its end or on the way out of a failed run:
\* Rollback, or runAs's RESET ROLE, which is reported unless fn has failed already.
Leave ==
  /\ scope # "none" /\ (At("end") \/ verdict # "running")
  /\ scope' = Outer[scope]
  /\ IF scope # "role"
       THEN RollBack /\ (IF verdict = "running" THEN Proceed
                                                ELSE UNCHANGED <<pc, verdict, named>>)
       ELSE \E result \in Results("reset") :
              /\ Exec("reset", result, "superuser")
              /\ IF verdict # "running" THEN UNCHANGED <<pc, verdict, named>>
                 ELSE IF result = "ok" THEN Proceed ELSE Fail("other", "none")
  /\ UNCHANGED cause /\ Idle

\* assertPlotReads and assertPlotReadsTheSchemaVersion keep the error and drop the role
\* before they act on it.
ReadProbe ==
  \E p \in {"readTrends", "readVersion"} : Ask(p, [result \in AllResults |-> "on"], p)

\* diagnoseFailedRead asks the catalog; the other read blames its one grant.
Diagnose ==
  /\ At("diagnose") /\ UNCHANGED <<scope, cause>> /\ Idle
  /\ \/ cause = "none" /\ Proceed /\ UNCHANGED <<session, faults>>
     \/ /\ cause # "none" /\ Script[pc - 2] = "readVersion"
        /\ Fail("grant", "readVersion") /\ UNCHANGED <<session, faults>>
     \/ /\ cause # "none" /\ Script[pc - 2] = "readTrends"
        /\ \E result \in Results("diagnose") :
              /\ Exec("diagnose", result, role)
              /\ IF result # "ok" THEN Fail("other", "none")
                 ELSE Fail("grant", IF "readTrends" \in held THEN "usage" ELSE "readTrends")

\* The call of the registration function and the replayed attack: an error is
\* reported as it is.
ShadowProbe == \E p \in ShadowProbes : Ask(p, Plain, "none")

\* Did the second call register the attack's pen?
ShadowLookup ==
  Ask("shadowLookup",
      [Plain EXCEPT !["ok"] = IF "shadowed" \in held THEN "defect" ELSE "on"], "shadowed")

\* writeProbeFailure names the grant whatever the error.
WriteProbeFailure == [result \in AllResults |-> IF result = "ok" THEN "on" ELSE "grant"]
WriteProbe == \E p \in WriteProbes : Ask(p, WriteProbeFailure, p)

\* mutant: any error counts as a refusal
RefusalVerdictLax == [result \in AllResults |-> IF result = "ok" THEN "revoke" ELSE "on"]

\* mutant: any error but a refusal is read as a grant that is too wide
RefusalVerdictBlames == [result \in AllResults |-> IF result = "refused" THEN "on" ELSE "revoke"]

\* A constraint is checked past the privilege.
RefusalVerdict ==
  [result \in AllResults |-> CASE result = "refused" -> "on"
                               [] result \in {"ok", "integrity"} -> "revoke"
                               [] OTHER -> "other"]

\* assertRefused, inside its savepoint
ForbiddenProbe == \E p \in ForbiddenProbes : Ask(p, RefusalVerdict, p)

Question ==
  \E p \in Questions : Ask(p, [Plain EXCEPT !["ok"] = IF p \in held THEN "revoke" ELSE "on"], p)

\* public.messages is asked about only where it exists.
MessagesExist ==
  /\ At("messages")
  /\ \E result \in Results("messages") :
       /\ Exec("messages", result, role)
       /\ IF result # "ok" THEN Fail("other", "none")
          ELSE IF messages = "present" THEN Proceed
          ELSE pc' = pc + 2 /\ UNCHANGED <<verdict, named>>
  /\ UNCHANGED <<scope, cause>> /\ Idle

WriterMarkerFailure == IfRefused("grant")

AddMarker == Ask("addMarker", WriterMarkerFailure, "addMarker")

\* A connection of its own, as semiplot with the run's password; none over a socket.
PlotLogin ==
  /\ At("plotLogin")
  /\ \/ socketHost = "yes" /\ Proceed /\ UNCHANGED faults
     \/ /\ socketHost = "no" /\ {"login", "readTrends", "usage"} \subseteq held
        /\ Proceed /\ UNCHANGED faults
     \/ /\ socketHost = "no" /\ ~({"login", "readTrends", "usage"} \subseteq held)
        /\ Fail("other", "none") /\ UNCHANGED faults
     \/ socketHost = "no" /\ Fault("transient") /\ Fail("other", "none")
  /\ UNCHANGED <<session, scope, cause>> /\ Idle

\* A pending restart is only a warning.
ReportPendingRestart == Ask("pending", [Plain EXCEPT !["ok"] = "passed"], "none")

\* The deferred Close of a run that has ended: the server drops what is open.
Close ==
  /\ verdict # "running" /\ scope = "none" /\ conn # "closed"
  /\ conn' = "closed" /\ role' = "superuser" /\ saves' = <<>> /\ rows' = {} /\ broken' = "no"
  /\ UNCHANGED <<kept, run, faults>> /\ Idle

Step == Connect \/ Settings \/ AssumeRole \/ Begin \/ Savepoint \/ Leave
        \/ ReadProbe \/ Diagnose \/ ShadowProbe \/ ShadowLookup \/ WriteProbe
        \/ ForbiddenProbe \/ Question \/ MessagesExist \/ AddMarker \/ PlotLogin
        \/ ReportPendingRestart \/ Close

-----------------------------------------------------------------------------
(* Around the run. *)

\* The process ends without running its deferred calls.
Kill ==
  /\ conn # "closed"
  /\ verdict' = "killed" /\ named' = "none" /\ scope' = "none"
  /\ conn' = "closed" /\ role' = "superuser" /\ saves' = <<>> /\ rows' = {} /\ broken' = "no"
  /\ UNCHANGED <<kept, pc, cause, faults>> /\ Idle

\* An administrator or another run grants or revokes; the session's superuser stays one.
Regrant(f) ==
  /\ verdict = "running" /\ moves < MaxMoves /\ f # "superuser"
  /\ moves' = moves + 1
  /\ held' = (held \ {f}) \cup ({f} \ held)
  /\ right' = right \cup RightOnes(held')
  /\ wrong' = wrong \cup ((Wanted \cup Unwanted) \ RightOnes(held'))
  /\ UNCHANGED <<messages, socketHost, session, run, faults>>

ScadaCreatesMessages ==
  /\ verdict = "running" /\ moves < MaxMoves
  /\ messages = "absent" /\ messages' = "present" /\ moves' = moves + 1
  /\ UNCHANGED <<held, socketHost, session, run, right, wrong, faults>>

Next == Step \/ Kill \/ ScadaCreatesMessages \/ \E f \in Facts : Regrant(f)

Spec == Init /\ [][Next]_vars

-----------------------------------------------------------------------------
(* Safety. *)

\* A leaked role would silently change what every later statement is allowed to do
\* (the comment above runAs): whenever a run that goes on is outside runAs, the session
\* is the superuser's own, in no transaction.
RoleDoesNotLeak ==
  verdict = "running" /\ scope = "none" /\ conn = "open" => role = "superuser" /\ saves = <<>>

\* No probe row, pen, group, marker or table survives the check, however it ends
\* (provisioning.md, "a probe row must not survive the check that wrote it").
NothingSurvives == kept = {}

\* What a passing run vouches for was so when it asked: every privilege was as it
\* should be at some moment of the run, and throughout when nobody changed one. A
\* socket host vouches for no login, a run without messages for no right on it.
Vouched == (Wanted \cup Unwanted)
             \ ((IF socketHost = "yes" THEN {"login"} ELSE {})
                 \cup (IF messages = "absent" \/ moves > 0 THEN {"writeMessages"} ELSE {}))
PassMeansAsked == verdict = "passed" => Vouched \subseteq right

\* A run that is told of no fault and finds every privilege in order passes: one refused
\* probe does not spoil a later one, and the probes' own rows do not (assertRefused, the
\* order of plotWriteProbes).
FailuresHaveACause ==
  verdict \in {"grant", "revoke", "defect", "other"} => faults # {} \/ wrong # {}

\* What the run orders to be repaired was wrong: a timeout, a lost connection or an aborted
\* transaction is taken neither for a privilege too many nor, at the writer's marker and the
\* superuser attribute, for a missing one; and without a fault every GRANT it orders was
\* missing, or the schema was shut (refusalVerdict, writerMarkerFailure,
\* sessionSettingFailure, diagnoseFailedRead).
RepairsAreNeeded ==
  /\ verdict \in {"revoke", "defect"} => named \in wrong
  /\ verdict = "grant" =>
       /\ named \in {"addMarker", "superuser"} => named \in wrong
       /\ faults = {} => named \in wrong \/ "readTrends" \in wrong
=============================================================================
