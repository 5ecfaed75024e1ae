------------------------- MODULE CheckSession_proofs -------------------------
(***************************************************************************)
(* Theorems about CheckSession, for any privileges, any number of changes  *)
(* to them and any faults.                                                 *)
(***************************************************************************)
EXTENDS CheckSession, SequenceTheorems, TLAPS

(* Where a run stands in its scopes, by its place in the script. *)

\* The innermost cleanup a run owes that is at statement i.
Owed(i) ==
  IF i \in {4, 5, 8, 9, 12, 39, 47, 50} THEN "role"
  ELSE IF i \in 13..29 \/ i \in {32, 35, 38, 48, 49} THEN "transaction"
  ELSE IF i \in {30, 31, 33, 34, 36, 37} THEN "savepoint"
  ELSE "none"

Control == {"asPlot", "asWriter", "begin", "savepoint", "end", "pending"}

LEMMA ScriptDomain == DOMAIN Script = 1..56
BY DEF Script

LEMMA Openings ==
  ASSUME NEW i \in 1..56
  PROVE  /\ Script[i] \in {"asPlot", "asWriter"} =>
              Owed(i) = "none" /\ Owed(i + 1) = "role" /\ i < 56
         /\ Script[i] = "begin" => Owed(i) = "role" /\ Owed(i + 1) = "transaction" /\ i < 56
         /\ Script[i] = "savepoint" =>
              Owed(i) = "transaction" /\ Owed(i + 1) = "savepoint" /\ i < 56
BY DEF Script, Owed

LEMMA Ends ==
  ASSUME NEW i \in 1..56, Script[i] = "end"
  PROVE  /\ Owed(i) # "none" /\ i < 56
         /\ Owed(i + 1) = Outer[Owed(i)]
BY DEF Script, Owed, Outer

LEMMA Plains ==
  ASSUME NEW i \in 1..56, Script[i] \notin Control
  PROVE  Owed(i + 1) = Owed(i) /\ i < 56
BY DEF Script, Owed, Control

LEMMA MessagesPlace ==
  ASSUME NEW i \in 1..56, Script[i] = "messages"
  PROVE  i = 42 /\ Owed(i + 1) = "none" /\ Owed(i + 2) = "none"
BY DEF Script, Owed

LEMMA ConnectPlace ==
  ASSUME NEW i \in 1..56, Script[i] = "connect"
  PROVE  i = 1 /\ Owed(i) = "none"
BY DEF Script, Owed

LEMMA Writings ==
  ASSUME NEW i \in 1..56, Leaves(Script[i]) # {}
  PROVE  Owed(i) \in {"transaction", "savepoint"}
BY DEF Script, Owed, Leaves, WriteProbes, ForbiddenProbes, ShadowProbes

-----------------------------------------------------------------------------
(* The session: what a statement, a new transaction and a rollback do to it. *)

SessionType ==
  /\ conn \in {"none", "open", "lost", "closed"} /\ role \in Roles
  /\ saves \in Seq(Saves) /\ broken \in {"no", "yes"}
  /\ rows \subseteq Statements /\ kept \subseteq Statements
  /\ faults \subseteq {"transient", "lost", "integrity"}

LEMMA ExecTypes ==
  ASSUME SessionType, NEW p, NEW result, NEW to \in Roles, Exec(p, result, to),
         p \in Statements \/ Leaves(p) = {}
  PROVE  SessionType'
<1>1. Leaves(p) \subseteq Statements
  BY DEF Leaves
<1> QED
  BY <1>1, EmptySeq DEF Exec, Drop, Fault, SessionType, Roles

\* A statement outside a transaction commits what it writes; none changes the stack.
LEMMA ExecEffect ==
  ASSUME SessionType, NEW p, NEW result, NEW to, Exec(p, result, to)
  PROVE  /\ \/ conn = "open" /\ conn' = "open" /\ saves' = saves
            \/ conn' = "lost" /\ saves' = <<>> /\ role' = "superuser"
         /\ kept' # kept => conn = "open" /\ saves = <<>> /\ Leaves(p) # {}
         /\ conn' = "open" => role' \in {role, to} /\ (result = "ok" => role' = to)
BY DEF Exec, Drop, Results, Possible, SessionType

LEMMA PushTypes ==
  ASSUME SessionType, NEW p, Push(p)
  PROVE  /\ SessionType' /\ Len(saves') = Len(saves) + 1
         /\ conn = "open" /\ conn' = "open" /\ kept' = kept
<1>1. [role |-> role, rows |-> rows] \in Saves
  BY DEF SessionType, Saves
<1>2. saves' \in Seq(Saves) /\ Len(saves') = Len(saves) + 1
  BY <1>1 DEF Push, SessionType
<1> QED
  BY <1>2 DEF Push, SessionType, Results, Possible

LEMMA PopTypes ==
  ASSUME SessionType, Pop
  PROVE  /\ SessionType' /\ Len(saves') = Len(saves) - 1
         /\ conn = "open" /\ conn' = "open" /\ kept' = kept
<1>1. Len(saves) \in Nat \ {0}
  BY EmptySeq DEF Pop, SessionType
<1>2. saves[Len(saves)] \in Saves
  BY <1>1 DEF SessionType
<1>3. role' \in Roles /\ rows' \subseteq Statements
  BY <1>2 DEF Pop, Saves
<1>4. \A i \in 1..(Len(saves) - 1) : saves[i] \in Saves
  BY <1>1 DEF SessionType
<1>5. saves' \in Seq(Saves) /\ Len(saves') = Len(saves) - 1
  <2> DEFINE n == Len(saves) - 1
  <2>1. n \in Nat /\ 1 \in Int /\ saves' = SubSeq(saves, 1, n)
    BY <1>1 DEF Pop
  <2>2. \A i \in 1..n : saves[i] \in Saves
    BY <1>4
  <2> HIDE DEF n
  <2>3. /\ SubSeq(saves, 1, n) \in Seq(Saves)
        /\ Len(SubSeq(saves, 1, n)) = IF 1 <= n THEN n - 1 + 1 ELSE 0
    BY <2>1, <2>2, SubSeqProperties
  <2>4. saves' \in Seq(Saves)
    BY <2>1, <2>3
  <2>5. Len(saves') = n
    BY <2>1, <2>3
  <2> QED
    BY <2>4, <2>5 DEF n
<1> QED
  BY <1>3, <1>5 DEF Pop, SessionType

LEMMA DropTypes ==
  ASSUME SessionType, Drop, Fault("lost")
  PROVE  /\ SessionType' /\ conn' = "lost" /\ kept' = kept
         /\ saves' = <<>> /\ role' = "superuser"
BY EmptySeq DEF Drop, Fault, SessionType, Roles

-----------------------------------------------------------------------------
(* The invariant: the run's scope follows from its place in the script, and  *)
(* the server's stack of savepoints from the run's scope.                    *)

Height(s) == IF s = "savepoint" THEN 2 ELSE IF s = "transaction" THEN 1 ELSE 0

RunType ==
  /\ pc \in 1..56 /\ scope \in {"none", "role", "transaction", "savepoint"}
  /\ cause \in {"none", "refused", "error"} /\ verdict \in Verdicts
  /\ named \in {"none"} \cup Wanted \cup Unwanted

ScopeInv ==
  /\ verdict = "running" => scope = Owed(pc)
  /\ conn = "open" => Len(saves) = Height(scope)
  /\ conn # "open" => saves = <<>> /\ role = "superuser"

SafeInv == SessionType /\ RunType /\ ScopeInv /\ RoleDoesNotLeak /\ NothingSurvives

LEMMA InitSafe == Init => SafeInv
BY EmptySeq DEF Init, SafeInv, SessionType, RunType, ScopeInv, RoleDoesNotLeak, NothingSurvives,
                Roles, Verdicts, Owed, Height

\* No statement of the run writes outside a transaction.
LEMMA NothingWrites ==
  ASSUME SafeInv, verdict = "running", NEW result, NEW to, Exec(Script[pc], result, to)
  PROVE  kept' = kept
<1> SUFFICES ASSUME kept' # kept
             PROVE  FALSE
  OBVIOUS
<1>1. conn = "open" /\ saves = <<>> /\ Leaves(Script[pc]) # {}
  BY ExecEffect DEF SafeInv
<1>2. scope \in {"transaction", "savepoint"}
  BY <1>1, Writings DEF SafeInv, RunType, ScopeInv
<1>3. Len(saves) \in {1, 2}
  BY <1>1, <1>2 DEF SafeInv, ScopeInv, Height
<1> QED
  BY <1>1, <1>3, EmptySeq

Judgements == [AllResults -> Verdicts \cup {"on"}]

LEMMA AskKeeps ==
  ASSUME SafeInv, NEW p, NEW j \in Judgements, NEW w \in {"none"} \cup Wanted \cup Unwanted,
         Ask(p, j, w), p \notin Control \/ (p = "pending" /\ \A r \in AllResults : j[r] # "on"),
         \A r \in AllResults : j[r] # "running"
  PROVE  SafeInv'
<1> PICK result \in Results(p) :
       /\ Exec(p, result, role)
       /\ IF j[result] = "on" THEN Proceed ELSE Fail(j[result], w)
       /\ cause' = IF result = "ok" THEN "none"
                   ELSE IF result = "refused" THEN "refused" ELSE "error"
  BY DEF Ask
<1>1. /\ verdict = "running" /\ p = Script[pc] /\ scope' = scope /\ pc \in 1..56
      /\ result \in AllResults
  BY DEF Ask, At, SafeInv, RunType, Results
<1>2. p \in Statements /\ role \in Roles /\ SessionType
  BY <1>1, ScriptDomain DEF Statements, SafeInv, SessionType
<1>3. SessionType'
  BY <1>2, ExecTypes
<1>4. NothingSurvives'
  BY <1>1, NothingWrites DEF NothingSurvives, SafeInv
<1>5. /\ \/ conn = "open" /\ conn' = "open" /\ saves' = saves
         \/ conn' = "lost" /\ saves' = <<>> /\ role' = "superuser"
      /\ conn' = "open" => role' = role
  BY <1>2, ExecEffect
<1>6. CASE j[result] = "on"
  <2>1. p \notin Control
    BY <1>1, <1>6
  <2>2. Owed(pc + 1) = Owed(pc) /\ pc < 56
    BY <1>1, <2>1, Plains
  <2>3. Proceed
    BY <1>6
  <2>4. RunType' /\ ScopeInv'
    BY <1>1, <1>5, <2>2, <2>3 DEF SafeInv, RunType, ScopeInv, Proceed
  <2>5. RoleDoesNotLeak'
    BY <1>1, <1>5, <2>3 DEF SafeInv, RoleDoesNotLeak, Proceed
  <2> QED
    BY <1>3, <1>4, <2>4, <2>5 DEF SafeInv
<1>7. CASE j[result] # "on"
  <2>1. Fail(j[result], w) /\ j[result] \in Verdicts \ {"running"}
    BY <1>1, <1>7 DEF Judgements
  <2>2. RunType' /\ ScopeInv' /\ RoleDoesNotLeak'
    BY <1>1, <1>5, <2>1 DEF SafeInv, RunType, ScopeInv, Fail, RoleDoesNotLeak
  <2> QED
    BY <1>3, <1>4, <2>2 DEF SafeInv
<1> QED
  BY <1>6, <1>7

-----------------------------------------------------------------------------
(* One lemma per kind of step. *)

\* The statements that are judged by a table.
Judged ==
  Settings \/ ReadProbe \/ ShadowProbe \/ ShadowLookup \/ WriteProbe
  \/ ForbiddenProbe \/ Question \/ AddMarker \/ ReportPendingRestart

LEMMA JudgedKeeps ==
  ASSUME SafeInv, Judged
  PROVE  SafeInv'
<1> USE DEF Judgements, AllResults, Verdicts, Control
<1>1. CASE Settings
  <2>1. SessionSettingFailure \in Judgements
    BY DEF SessionSettingFailure, IfRefused
  <2> QED
    BY <1>1, <2>1, AskKeeps DEF Settings, SessionSettingFailure, IfRefused, Wanted
<1>2. CASE ReadProbe
  <2> PICK p \in {"readTrends", "readVersion"} : Ask(p, [result \in AllResults |-> "on"], p)
    BY <1>2 DEF ReadProbe
  <2> QED
    BY AskKeeps DEF Wanted
<1>3. CASE ShadowProbe
  <2> PICK p \in ShadowProbes : Ask(p, Plain, "none")
    BY <1>3 DEF ShadowProbe
  <2> QED
    BY AskKeeps DEF Plain, ShadowProbes
<1>4. CASE ShadowLookup
  BY <1>4, AskKeeps DEF ShadowLookup, Plain, Unwanted
<1>5. CASE WriteProbe
  <2> PICK p \in WriteProbes : Ask(p, WriteProbeFailure, p)
    BY <1>5 DEF WriteProbe
  <2> QED
    BY AskKeeps DEF WriteProbeFailure, WriteProbes, Wanted
<1>6. CASE ForbiddenProbe
  <2> PICK p \in ForbiddenProbes : Ask(p, RefusalVerdict, p)
    BY <1>6 DEF ForbiddenProbe
  <2> QED
    BY AskKeeps DEF RefusalVerdict, ForbiddenProbes, Unwanted
<1>7. CASE Question
  <2> PICK p \in Questions :
        Ask(p, [Plain EXCEPT !["ok"] = IF p \in held THEN "revoke" ELSE "on"], p)
    BY <1>7 DEF Question
  <2> QED
    BY AskKeeps DEF Plain, Questions, Unwanted
<1>8. CASE AddMarker
  BY <1>8, AskKeeps DEF AddMarker, WriterMarkerFailure, IfRefused, Wanted
<1>9. CASE ReportPendingRestart
  BY <1>9, AskKeeps DEF ReportPendingRestart, Plain
<1> QED
  BY <1>1, <1>2, <1>3, <1>4, <1>5, <1>6, <1>7, <1>8, <1>9 DEF Judged

LEMMA ConnectKeeps == SafeInv /\ Connect => SafeInv'
<1> SUFFICES ASSUME SafeInv, Connect
             PROVE  SafeInv'
  OBVIOUS
<1>1. /\ Script[pc] = "connect" /\ verdict = "running" /\ scope' = scope /\ cause' = cause
      /\ role' = role /\ saves' = saves /\ kept' = kept /\ pc \in 1..56
  BY DEF Connect, At, SafeInv, RunType
<1>2. pc = 1 /\ scope = "none"
  BY <1>1, ConnectPlace DEF SafeInv, ScopeInv
<1>3. saves = <<>> /\ role = "superuser"
  <2>1. CASE conn = "open"
    BY <1>1, <1>2, <2>1 DEF SafeInv, RoleDoesNotLeak
  <2>2. CASE conn # "open"
    BY <2>2 DEF SafeInv, ScopeInv
  <2> QED
    BY <2>1, <2>2
<1>4. conn' \in {"open", conn} /\ (Proceed \/ Fail("other", "none")) /\ SessionType'
  BY DEF Connect, Fault, SafeInv, SessionType
<1>5. Owed(pc + 1) = "none" /\ Height("none") = 0 /\ Len(<<>>) = 0
  BY <1>2 DEF Owed, Height
<1>6. /\ pc' \in 1..56 /\ verdict' \in {"running", "other"} /\ named' \in {named, "none"}
      /\ verdict' = "running" => pc' = pc + 1
  BY <1>1, <1>2, <1>4 DEF Proceed, Fail
<1>7. RunType'
  BY <1>1, <1>6 DEF RunType, SafeInv, Verdicts
<1> QED
  BY <1>1, <1>2, <1>3, <1>4, <1>5, <1>6, <1>7
  DEF SafeInv, ScopeInv, RoleDoesNotLeak, NothingSurvives

LEMMA AssumeRoleKeeps == SafeInv /\ AssumeRole => SafeInv'
<1> SUFFICES ASSUME SafeInv, AssumeRole
             PROVE  SafeInv'
  OBVIOUS
<1>0. /\ verdict = "running" /\ pc \in 1..56 /\ cause' = cause
      /\ Script[pc] \in {"asPlot", "asWriter"}
  BY DEF AssumeRole, SafeInv, RunType
<1> DEFINE to == IF Script[pc] = "asPlot" THEN "semiplot" ELSE "scadaWriter"
<1> PICK result \in Results(Script[pc]) :
      /\ Exec(Script[pc], result, to)
      /\ IF result = "ok" THEN Proceed /\ scope' = "role"
                          ELSE Fail("other", "none") /\ UNCHANGED scope
  BY DEF AssumeRole
<1>1. Owed(pc) = "none" /\ Owed(pc + 1) = "role" /\ pc < 56 /\ scope = "none"
  BY <1>0, Openings DEF SafeInv, ScopeInv
<1>2. to \in Roles /\ Script[pc] \in Statements
  BY <1>0, ScriptDomain DEF Roles, Statements
<1> HIDE DEF to
<1>3. SessionType'
  BY <1>2, ExecTypes DEF SafeInv
<1>4. /\ \/ conn = "open" /\ conn' = "open" /\ saves' = saves
         \/ conn' = "lost" /\ saves' = <<>> /\ role' = "superuser"
      /\ kept' = kept
  BY <1>0, ExecEffect, NothingWrites DEF SafeInv
<1>5. /\ pc' \in 1..56 /\ verdict' \in {"running", "other"} /\ named' \in {named, "none"}
      /\ verdict' = "running" => pc' = pc + 1 /\ scope' = "role"
      /\ scope' \in {"none", "role"}
  BY <1>0, <1>1 DEF Proceed, Fail
<1>6. RunType'
  BY <1>0, <1>5 DEF RunType, SafeInv, Verdicts
<1>7. ScopeInv'
  BY <1>1, <1>4, <1>5 DEF SafeInv, ScopeInv, Height
<1> QED
  BY <1>3, <1>4, <1>5, <1>6, <1>7 DEF SafeInv, RoleDoesNotLeak, NothingSurvives

\* BEGIN and SAVEPOINT push the session's role and rows; a failed one changes no scope.
LEMMA PushKeeps ==
  ASSUME SafeInv, NEW p \in {"begin", "savepoint"}, At(p), Push(p), Proceed,
         scope' = IF p = "begin" THEN "transaction" ELSE "savepoint", cause' = cause
  PROVE  SafeInv'
<1>1. pc \in 1..56 /\ verdict = "running" /\ Script[pc] = p
  BY DEF At, SafeInv, RunType
<1>2. /\ scope = (IF p = "begin" THEN "role" ELSE "transaction")
      /\ scope = Owed(pc) /\ scope' = Owed(pc + 1) /\ pc < 56
  BY <1>1, Openings DEF SafeInv, ScopeInv
<1>5. Height(scope') = Height(scope) + 1
  BY <1>2 DEF Height
<1>3. /\ SessionType' /\ Len(saves') = Len(saves) + 1
      /\ conn = "open" /\ conn' = "open" /\ kept' = kept
  BY PushTypes DEF SafeInv
<1>4. RunType' /\ ScopeInv'
  BY <1>1, <1>2, <1>3, <1>5 DEF Proceed, RunType, ScopeInv, SafeInv
<1> QED
  BY <1>3, <1>4 DEF SafeInv, RoleDoesNotLeak, NothingSurvives

LEMMA DroppedKeeps ==
  ASSUME SafeInv, Drop, Fault("lost"), Fail("other", "none"), UNCHANGED <<scope, cause>>
  PROVE  SafeInv'
<1>1. SessionType' /\ conn' = "lost" /\ kept' = kept /\ saves' = <<>> /\ role' = "superuser"
  BY DropTypes DEF SafeInv
<1> QED
  BY <1>1 DEF SafeInv, RunType, ScopeInv, Fail, Verdicts, RoleDoesNotLeak, NothingSurvives

LEMMA BeginKeeps == SafeInv /\ Begin => SafeInv'
BY PushKeeps, DroppedKeeps DEF Begin

LEMMA SavepointKeeps == SafeInv /\ Savepoint => SafeInv'
<1> SUFFICES ASSUME SafeInv, Savepoint
             PROVE  SafeInv'
  OBVIOUS
<1>1. CASE Push("savepoint") /\ Proceed /\ scope' = "savepoint"
  BY <1>1, PushKeeps DEF Savepoint
<1>2. CASE \E result \in Results("savepoint") \ {"ok"} :
             Exec("savepoint", result, role) /\ Fail("other", "none") /\ UNCHANGED scope
  <2> PICK result \in Results("savepoint") \ {"ok"} :
             Exec("savepoint", result, role) /\ Fail("other", "none") /\ UNCHANGED scope
    BY <1>2
  <2>1. verdict = "running" /\ Script[pc] = "savepoint" /\ cause' = cause /\ pc \in 1..56
    BY DEF Savepoint, At, SafeInv, RunType
  <2>2. "savepoint" \in Statements /\ role \in Roles
    BY <2>1, ScriptDomain DEF Statements, SafeInv, SessionType
  <2>3. SessionType'
    BY <2>2, ExecTypes DEF SafeInv
  <2>4. /\ \/ conn = "open" /\ conn' = "open" /\ saves' = saves
           \/ conn' = "lost" /\ saves' = <<>> /\ role' = "superuser"
        /\ kept' = kept
    BY <2>1, ExecEffect, NothingWrites DEF SafeInv
  <2> QED
    BY <2>1, <2>3, <2>4
    DEF SafeInv, RunType, ScopeInv, Fail, Verdicts, RoleDoesNotLeak, NothingSurvives
<1> QED
  BY <1>1, <1>2 DEF Savepoint

\* A cleanup leaves one scope; the server's stack loses what that scope had pushed.
LEMMA LeaveKeeps == SafeInv /\ Leave => SafeInv'
<1> SUFFICES ASSUME SafeInv, Leave
             PROVE  SafeInv'
  OBVIOUS
<1>1. /\ scope \in {"role", "transaction", "savepoint"} /\ scope' = Outer[scope]
      /\ cause' = cause /\ pc \in 1..56 /\ (At("end") \/ verdict # "running")
  BY DEF Leave, SafeInv, RunType
<1>2. scope' \in {"none", "role", "transaction"} /\ (scope' = "none" <=> scope = "role")
  BY <1>1 DEF Outer
<1>3. verdict = "running" => Owed(pc + 1) = scope' /\ pc < 56
  BY <1>1, Ends DEF At, SafeInv, ScopeInv
<1>4. CASE scope # "role"
  <2>1. /\ RollBack
        /\ IF verdict = "running" THEN Proceed ELSE UNCHANGED <<pc, verdict, named>>
    BY <1>4 DEF Leave
  <2>2. SessionType' /\ kept' = kept
    BY <2>1, PopTypes, DropTypes DEF RollBack, SafeInv
  <2>3. \/ conn = "open" /\ conn' = "open" /\ Len(saves') = Len(saves) - 1
        \/ conn' = "lost" /\ saves' = <<>> /\ role' = "superuser"
    BY <2>1, PopTypes, DropTypes DEF RollBack, SafeInv
  <2>4. Height(scope') = Height(scope) - 1
    BY <1>1, <1>4 DEF Outer, Height
  <2>5. RunType' /\ (verdict' = "running" => scope' = Owed(pc'))
    BY <1>1, <1>2, <1>3, <2>1 DEF RunType, SafeInv, Proceed
  <2>6. ScopeInv'
    BY <2>3, <2>4, <2>5 DEF ScopeInv, SafeInv
  <2> QED
    BY <1>2, <1>4, <2>2, <2>5, <2>6 DEF SafeInv, RoleDoesNotLeak, NothingSurvives
<1>5. CASE scope = "role"
  <2> PICK result \in Results("reset") :
        /\ Exec("reset", result, "superuser")
        /\ IF verdict # "running" THEN UNCHANGED <<pc, verdict, named>>
           ELSE IF result = "ok" THEN Proceed ELSE Fail("other", "none")
    BY <1>5 DEF Leave
  <2>1. Leaves("reset") = {} /\ "superuser" \in Roles
    BY DEF Leaves, WriteProbes, ForbiddenProbes, ShadowProbes, Roles
  <2>2. SessionType'
    BY <2>1, ExecTypes DEF SafeInv
  <2>3. /\ \/ conn = "open" /\ conn' = "open" /\ saves' = saves
           \/ conn' = "lost" /\ saves' = <<>> /\ role' = "superuser"
        /\ kept' = kept
        /\ conn' = "open" /\ result = "ok" => role' = "superuser"
    BY <2>1, ExecEffect DEF SafeInv
  <2>4. scope' = "none" /\ Height(scope) = 0 /\ Height(scope') = 0
    BY <1>1, <1>5 DEF Outer, Height
  <2>5. RunType' /\ (verdict' = "running" => scope' = Owed(pc') /\ result = "ok")
    BY <1>1, <1>3, <2>4 DEF RunType, SafeInv, Proceed, Fail, Verdicts
  <2>6. ScopeInv'
    BY <2>3, <2>4, <2>5 DEF ScopeInv, SafeInv
  <2>7. conn' = "open" => saves' = <<>>
    BY <2>2, <2>4, <2>6, EmptySeq DEF ScopeInv, SessionType
  <2> QED
    BY <2>2, <2>3, <2>5, <2>6, <2>7 DEF SafeInv, RoleDoesNotLeak, NothingSurvives
<1> QED
  BY <1>4, <1>5

LEMMA MessagesExistKeeps == SafeInv /\ MessagesExist => SafeInv'
<1> SUFFICES ASSUME SafeInv, MessagesExist
             PROVE  SafeInv'
  OBVIOUS
<1>1. /\ verdict = "running" /\ Script[pc] = "messages" /\ pc \in 1..56
      /\ scope' = scope /\ cause' = cause
  BY DEF MessagesExist, At, SafeInv, RunType
<1>2. pc = 42 /\ scope = "none" /\ Owed(pc + 1) = "none" /\ Owed(pc + 2) = "none"
  BY <1>1, MessagesPlace, Plains DEF Control, SafeInv, ScopeInv
<1> PICK result \in Results("messages") :
      /\ Exec("messages", result, role)
      /\ IF result # "ok" THEN Fail("other", "none")
         ELSE IF messages = "present" THEN Proceed
         ELSE pc' = pc + 2 /\ UNCHANGED <<verdict, named>>
  BY DEF MessagesExist
<1>3. "messages" \in Statements /\ role \in Roles /\ SessionType
  BY <1>1, ScriptDomain DEF Statements, SafeInv, SessionType
<1>4. SessionType'
  BY <1>3, ExecTypes
<1>5. /\ \/ conn = "open" /\ conn' = "open" /\ saves' = saves
         \/ conn' = "lost" /\ saves' = <<>> /\ role' = "superuser"
      /\ conn' = "open" => role' = role
      /\ kept' = kept
  BY <1>1, <1>3, ExecEffect, NothingWrites
<1>6. /\ verdict' = "running" => pc' \in {pc + 1, pc + 2}
      /\ pc' \in {pc, pc + 1, pc + 2} /\ verdict' \in {"running", "other"}
      /\ named' \in {named, "none"}
  BY <1>1 DEF Proceed, Fail
<1>7. RunType' /\ ScopeInv'
  BY <1>1, <1>2, <1>5, <1>6 DEF RunType, ScopeInv, SafeInv, Verdicts
<1> QED
  BY <1>1, <1>4, <1>5, <1>7 DEF SafeInv, RoleDoesNotLeak, NothingSurvives

LEMMA DiagnoseKeeps == SafeInv /\ Diagnose => SafeInv'
<1> SUFFICES ASSUME SafeInv, Diagnose
             PROVE  SafeInv'
  OBVIOUS
<1>1. /\ verdict = "running" /\ Script[pc] = "diagnose" /\ pc \in 1..56
      /\ scope' = scope /\ cause' = cause
  BY DEF Diagnose, At, SafeInv, RunType
<1>2. Owed(pc + 1) = Owed(pc) /\ pc < 56 /\ scope = Owed(pc)
  BY <1>1, Plains DEF Control, SafeInv, ScopeInv
<1>3. /\ SessionType' /\ kept' = kept
      /\ \/ conn' = conn /\ saves' = saves /\ role' = role
         \/ conn' = "lost" /\ saves' = <<>> /\ role' = "superuser"
  <2>1. CASE UNCHANGED <<session, faults>>
    BY <2>1 DEF session, SafeInv, SessionType
  <2>2. CASE \E result \in Results("diagnose") : Exec("diagnose", result, role)
    <3> PICK result \in Results("diagnose") : Exec("diagnose", result, role)
      BY <2>2
    <3>1. "diagnose" \in Statements /\ role \in Roles /\ SessionType
      BY <1>1, ScriptDomain DEF Statements, SafeInv, SessionType
    <3> QED
      BY <1>1, <3>1, ExecTypes, ExecEffect, NothingWrites
  <2> QED
    BY <2>1, <2>2 DEF Diagnose
<1>4. \/ Proceed
      \/ \E kind \in {"grant", "other"}, what \in {"none", "usage", "readTrends", "readVersion"} :
            Fail(kind, what)
  BY DEF Diagnose
<1>5. RunType'
  BY <1>1, <1>2, <1>4 DEF RunType, SafeInv, Verdicts, Proceed, Fail, Wanted
<1>6. verdict' = "running" => pc' = pc + 1
  BY <1>1, <1>4 DEF Proceed, Fail
<1> QED
  BY <1>1, <1>2, <1>3, <1>5, <1>6 DEF SafeInv, ScopeInv, RoleDoesNotLeak, NothingSurvives

LEMMA PlotLoginKeeps == SafeInv /\ PlotLogin => SafeInv'
<1> SUFFICES ASSUME SafeInv, PlotLogin
             PROVE  SafeInv'
  OBVIOUS
<1>1. /\ verdict = "running" /\ Script[pc] = "plotLogin" /\ pc \in 1..56
      /\ UNCHANGED <<session, scope, cause>>
  BY DEF PlotLogin, At, SafeInv, RunType
<1>2. Owed(pc + 1) = Owed(pc) /\ pc < 56
  BY <1>1, Plains DEF Control
<1>3. (Proceed \/ Fail("other", "none")) /\ (faults' = faults \/ Fault("transient"))
  BY DEF PlotLogin
<1>4. SessionType'
  BY <1>1, <1>3 DEF SafeInv, SessionType, session, Fault
<1>5. RunType'
  BY <1>1, <1>2, <1>3 DEF RunType, SafeInv, Verdicts, Proceed, Fail
<1>6. verdict' = "running" => pc' = pc + 1
  BY <1>1, <1>3 DEF Proceed, Fail
<1> QED
  BY <1>1, <1>2, <1>4, <1>5, <1>6
  DEF SafeInv, ScopeInv, session, RoleDoesNotLeak, NothingSurvives

\* The connection of a run that is over.
LEMMA ClosingKeeps == SafeInv /\ (Close \/ Kill) => SafeInv'
<1> SUFFICES ASSUME SafeInv, Close \/ Kill
             PROVE  SafeInv'
  OBVIOUS
<1>1. SessionType' /\ kept' = kept /\ conn' = "closed" /\ saves' = <<>> /\ role' = "superuser"
  BY EmptySeq DEF Close, Kill, SafeInv, SessionType, Roles
<1>2. RunType' /\ verdict' # "running"
  BY DEF Close, Kill, SafeInv, RunType, run, Verdicts
<1> QED
  BY <1>1, <1>2 DEF SafeInv, ScopeInv, RoleDoesNotLeak, NothingSurvives

LEMMA SurroundingsKeep ==
  ASSUME SafeInv, UNCHANGED <<session, run, faults>>
  PROVE  SafeInv'
<1>1. SessionType' /\ RunType'
  BY DEF SafeInv, SessionType, RunType, session, run
<1> QED
  BY <1>1 DEF SafeInv, ScopeInv, RoleDoesNotLeak, NothingSurvives, session, run

LEMMA SafeStep == SafeInv /\ [Next]_vars => SafeInv'
<1> SUFFICES ASSUME SafeInv, [Next]_vars
             PROVE  SafeInv'
  OBVIOUS
<1>1. CASE Step
  <2>1. CASE Judged
    BY <2>1, JudgedKeeps
  <2> QED
    BY <1>1, <2>1, ConnectKeeps, AssumeRoleKeeps, BeginKeeps, SavepointKeeps, LeaveKeeps,
       DiagnoseKeeps, MessagesExistKeeps, PlotLoginKeeps, ClosingKeeps DEF Step, Judged
<1>2. CASE Kill
  BY <1>2, ClosingKeeps
<1>3. CASE ScadaCreatesMessages \/ \E f \in Facts : Regrant(f)
  BY <1>3, SurroundingsKeep DEF ScadaCreatesMessages, Regrant
<1>4. CASE UNCHANGED vars
  BY <1>4, SurroundingsKeep DEF vars, history
<1> QED
  BY <1>1, <1>2, <1>3, <1>4 DEF Next

LEMMA SafeAlways == Spec => []SafeInv
BY InitSafe, SafeStep, PTL DEF Spec

-----------------------------------------------------------------------------
(* What is around the run. *)

WorldType ==
  /\ held \subseteq Wanted \cup Unwanted
  /\ messages \in {"absent", "present"} /\ socketHost \in {"no", "yes"}
  /\ right \subseteq Wanted \cup Unwanted /\ wrong \subseteq Wanted \cup Unwanted
  /\ moves \in 0..MaxMoves

LEMMA StepIsIdle == Step \/ Kill => Idle
BY DEF Step, Connect, Settings, AssumeRole, Begin, Savepoint, Leave, ReadProbe, Diagnose,
       ShadowProbe, ShadowLookup, WriteProbe, ForbiddenProbe, Question, MessagesExist,
       AddMarker, PlotLogin, ReportPendingRestart, Close, Kill, Ask

LEMMA WorldStep == WorldType /\ [Next]_vars => WorldType'
<1> SUFFICES ASSUME WorldType, [Next]_vars
             PROVE  WorldType'
  OBVIOUS
<1>1. CASE Step \/ Kill
  BY <1>1, StepIsIdle DEF Idle, WorldType, world
<1>2. CASE ScadaCreatesMessages
  BY <1>2, FactsAssumption DEF ScadaCreatesMessages, WorldType
<1>3. ASSUME NEW f \in Facts, Regrant(f)
      PROVE  WorldType'
  <2>1. held' \subseteq Wanted \cup Unwanted /\ moves' \in 0..MaxMoves
    BY <1>3, FactsAssumption DEF Regrant, WorldType
  <2>2. RightOnes(held') \subseteq Wanted \cup Unwanted
    BY DEF RightOnes
  <2> QED
    BY <1>3, <2>1, <2>2 DEF Regrant, WorldType
<1>4. CASE UNCHANGED vars
  BY <1>4 DEF vars, WorldType, world, history
<1> QED
  BY <1>1, <1>2, <1>3, <1>4 DEF Next

-----------------------------------------------------------------------------
(* What the run says. The session's role is the one a probe is meant for   *)
(* (RoleInv), what has been asked so far was in order (KnownInv), and      *)
(* without a fault every error has a privilege for its reason (CleanInv).  *)

\* The role of the session at statement i, once it is connected.
RoleAt(i) ==
  IF Owed(i) = "none" THEN "superuser" ELSE IF i < 40 THEN "semiplot" ELSE "scadaWriter"

RoleInv ==
  verdict = "running" /\ conn = "open" =>
    role = RoleAt(pc) /\ \A i \in 1..Len(saves) : saves[i].role = RoleAt(pc)

\* What a run that goes on past statement p has been told.
Confirms(p) ==
  IF p = "settings" THEN {"superuser"}
  ELSE IF p = "readTrends" THEN {"readTrends", "usage"}
  ELSE IF p = "shadowTable" THEN {"temporary"}
  ELSE IF p = "shadowLookup" THEN {"readTags", "shadowed"}
  ELSE IF p = "plotLogin" THEN {"login"}
  ELSE {p} \cap (Wanted \cup Unwanted)

\* A read that failed is acted on two statements later.
Unread(j) == j \in {4, 8} /\ pc <= j + 2 /\ cause # "none"
Learnt(f) ==
  \/ f \in right
  \/ f = "login" /\ socketHost = "yes"
  \/ f = "writeMessages" /\ (messages = "absent" \/ moves > 0)
KnownInv ==
  verdict = "running" =>
    \A j \in 1..(pc - 1) : Unread(j) \/ \A f \in Confirms(Script[j]) : Learnt(f)

RightInv == \A f \in Wanted \cup Unwanted : f \in (IF Right(f, held) THEN right ELSE wrong)

CleanInv ==
  verdict = "running" /\ faults = {} =>
    /\ pc = 1 \/ conn = "open"
    /\ broken = "yes" => pc \in {31, 34, 37}
    /\ pc \in {5, 6} /\ cause # "none" => "readTrends" \in wrong
    /\ pc \in {9, 10} /\ cause # "none" => "readVersion" \in wrong

LEMMA Places ==
  ASSUME NEW i \in 1..56
  PROVE  /\ Script[i] \in {"asPlot", "asWriter"} =>
              Script[i] = IF i < 40 THEN "asPlot" ELSE "asWriter"
         /\ Script[i] = "settings" => i = 2
         /\ Script[i] = "readTrends" => i = 4
         /\ Script[i] = "readVersion" => i = 8
         /\ Script[i] = "diagnose" => i \in {6, 10}
         /\ Script[i] = "pending" => i = 56
         /\ Script[i] = "end" /\ Owed(i) = "role" => i \in {5, 9, 39, 50}
         /\ i \in {5, 9, 31, 34, 37} => Script[i] = "end"
BY DEF Script, Owed

LEMMA ProbePlaces ==
  ASSUME NEW i \in 1..56
  PROVE  /\ Script[i] \in {"readTrends", "readVersion", "shadowLookup"} \cup ShadowProbes
                          \cup WriteProbes \cup ForbiddenProbes =>
              Owed(i) # "none" /\ i < 40
         /\ Script[i] = "addMarker" => Owed(i) # "none" /\ i > 40
         /\ Script[i] \in ForbiddenProbes => i \in {30, 33, 36}
BY DEF Script, Owed, ShadowProbes, WriteProbes, ForbiddenProbes

\* Every fact has a statement that asks for it.
LEMMA AllAsked ==
  ASSUME NEW f \in Wanted \cup Unwanted
  PROVE  \E j \in 1..55 : f \in Confirms(Script[j])
<1>1. CASE f \in {"superuser", "usage", "readTrends", "temporary", "readTags", "shadowed", "login"}
  <2>1. /\ Script[2] = "settings" /\ Script[4] = "readTrends" /\ Script[14] = "shadowTable"
        /\ Script[18] = "shadowLookup" /\ Script[55] = "plotLogin"
    BY DEF Script
  <2> QED
    BY <1>1, <2>1 DEF Confirms
<1>2. CASE f \notin {"superuser", "usage", "readTrends", "temporary", "readTags", "shadowed", "login"}
  <2>1. PICK j \in 1..55 : Script[j] = f
    <3>1. CASE f \in {"readVersion", "register", "addMarker"}
      BY <3>1 DEF Script
    <3>2. CASE f \in WriteProbes
      BY <3>2 DEF Script, WriteProbes
    <3>3. CASE f \in ForbiddenProbes
      BY <3>3 DEF Script, ForbiddenProbes
    <3>4. CASE f \in Questions
      BY <3>4 DEF Script, Questions
    <3> QED
      BY <1>2, <3>1, <3>2, <3>3, <3>4 DEF Wanted, Unwanted
  <2>2. f \in Confirms(f)
    BY <1>2 DEF Confirms, Wanted, Unwanted, WriteProbes, ForbiddenProbes, Questions
  <2> QED
    BY <2>1, <2>2
<1> QED
  BY <1>1, <1>2

LEMMA PrivilegesOf ==
  /\ \A p \in {"superuser", "usage", "temporary", "login", "shadowed"} \cup Questions :
       Privileges(p) = {p}
  /\ Privileges("shadowTable") = {"temporary"}
  /\ Privileges("shadowGrant") = {} /\ Privileges("shadowInsert") = {}
  /\ Privileges("shadowRegister") = Privileges("register")
  /\ Privileges("shadowLookup") = Privileges("readTags")
  /\ Privileges("readTrends") = {"readTrends", "usage"}
BY DEF Privileges, Questions

-----------------------------------------------------------------------------
(* What a statement's result says of the privileges in force. *)

\* A fact is right exactly if its privileges are in force, or, unwanted, are not.
LEMMA FactsAre ==
  ASSUME RightInv
  PROVE  /\ \A f \in Wanted : f \in (IF Enough(f, held) THEN right ELSE wrong)
         /\ \A f \in Unwanted : f \in (IF Enough(f, held) THEN wrong ELSE right)
<1>1. \A f \in Unwanted : f \notin Wanted
  BY DEF Wanted, Unwanted, WriteProbes, ForbiddenProbes, Questions
<1> QED
  BY <1>1 DEF RightInv, Right

\* The privileges that are not named after the statement that asks for them.
LEMMA EnoughIs ==
  /\ \A f \in {"superuser", "usage", "temporary", "login", "shadowed"} \cup Questions :
       Enough(f, held) <=> f \in held
  /\ Enough("shadowTable", held) <=> Enough("temporary", held)
  /\ Enough("shadowGrant", held) /\ Enough("shadowInsert", held)
  /\ Enough("shadowRegister", held) <=> Enough("register", held)
  /\ Enough("shadowLookup", held) <=> Enough("readTags", held)
  /\ Enough("readTrends", held) => Enough("usage", held) /\ {"readTrends", "usage"} \subseteq held
BY PrivilegesOf DEF Enough, Questions

LEMMA SettingsCan ==
  ASSUME role = "superuser"
  PROVE  Can("settings") <=> "superuser" \in held
BY DEF Can, Questions

LEMMA ProbeCan ==
  ASSUME role = "semiplot",
         NEW p \in {"readTrends", "readVersion", "shadowLookup"} \cup ShadowProbes
                   \cup WriteProbes \cup ForbiddenProbes
  PROVE  Can(p) <=> Enough(p, held)
BY DEF Can, Questions, ShadowProbes, WriteProbes, ForbiddenProbes

LEMMA MarkerCan ==
  ASSUME role = "scadaWriter"
  PROVE  Can("addMarker") <=> Enough("addMarker", held)
BY DEF Can, Questions

LEMMA FreeCan ==
  ASSUME NEW p \in {"reset", "begin", "savepoint"} \cup Questions \cup {"diagnose", "messages", "pending"}
  PROVE  Can(p)
BY DEF Can

Told(p, result) ==
  /\ result \in {"ok", "integrity"} => Can(p)
  /\ result = "refused" => ~Can(p)
  /\ result # "lost" => conn = "open"
  /\ faults \subseteq faults' /\ (faults' = {} => result \in {"ok", "refused"})

LEMMA ExecTells ==
  ASSUME SafeInv, CleanInv, verdict = "running", pc \notin {31, 34, 37},
         NEW p, NEW result, NEW to, Exec(p, result, to)
  PROVE  Told(p, result)
<1>1. result \in AllResults /\ Possible(p, result) /\ Fault(result)
  BY DEF Exec, Results
<1>2. faults \subseteq faults' /\ (faults' = {} => faults = {})
  BY <1>1 DEF Fault
<1>3. result \in {"transient", "lost", "integrity"} => faults' # {}
  BY <1>1 DEF Fault
<1>4. result = "aborted" => faults # {}
  BY <1>1 DEF Possible, CleanInv
<1>5. result \in {"ok", "refused", "integrity", "aborted", "transient", "lost"}
  BY <1>1 DEF AllResults
<1> QED
  BY <1>1, <1>2, <1>3, <1>4, <1>5 DEF Told, Possible

\* What a verdict rests on.
Deserved(kind, what) ==
  /\ kind \in Verdicts \ {"running", "killed"}
  /\ kind \in {"revoke", "defect"} => what \in wrong
  /\ kind = "grant" =>
       /\ what \in {"addMarker", "superuser"} => what \in wrong
       /\ faults' = {} => what \in wrong \/ "readTrends" \in wrong
  /\ kind = "other" => faults' # {} \/ wrong # {}
  /\ kind = "passed" => pc = 56

CauseOf(result) ==
  IF result = "ok" THEN "none" ELSE IF result = "refused" THEN "refused" ELSE "error"

\* A statement that is judged by a table: the run goes on, having learnt what the
\* statement confirms, or ends with a verdict it can justify.
Judgement(result) ==
  /\ Exec(Script[pc], result, role) /\ Told(Script[pc], result)
  /\ UNCHANGED scope /\ cause' = CauseOf(result) /\ Idle
  /\ \/ /\ Proceed
        /\ result = "ok" \/ pc \in {4, 8} \/ (pc \in {30, 33, 36} /\ result = "refused")
        /\ pc \in {4, 8} /\ cause' # "none" /\ faults' = {} => Script[pc] \in wrong
        /\ (pc \in {4, 8} /\ cause' # "none") \/ \A f \in Confirms(Script[pc]) : f \in right
     \/ \E kind, what : Fail(kind, what) /\ Deserved(kind, what)

AskPlace(p) == Script[pc] = p /\ pc \in 1..56 /\ verdict = "running" /\ pc \notin {5, 6, 9, 10, 31, 34, 37}
LEMMA Asked ==
  ASSUME SafeInv, CleanInv, NEW p, NEW j, NEW w, Ask(p, j, w), p \notin {"end", "diagnose"}
  PROVE  /\ AskPlace(p)
         /\ \E result \in AllResults :
              /\ Exec(Script[pc], result, role) /\ Told(Script[pc], result)
              /\ UNCHANGED scope /\ cause' = CauseOf(result) /\ Idle
              /\ IF j[result] = "on" THEN Proceed ELSE Fail(j[result], w)
<1>1. Script[pc] = p /\ pc \in 1..56 /\ verdict = "running"
  BY DEF Ask, At, SafeInv, RunType
<1>2. pc \notin {5, 6, 9, 10, 31, 34, 37}
  <2>1. Script[6] = "diagnose" /\ Script[10] = "diagnose"
    BY DEF Script
  <2> QED
    BY <1>1, <2>1, Places
<1>3. PICK result \in Results(p) :
        /\ Exec(p, result, role)
        /\ IF j[result] = "on" THEN Proceed ELSE Fail(j[result], w)
        /\ cause' = CauseOf(result)
  BY DEF Ask, CauseOf
<1>4. Told(p, result) /\ result \in AllResults
  BY <1>1, <1>2, <1>3, ExecTells DEF Results
<1> QED
  BY <1>1, <1>2, <1>3, <1>4 DEF Ask, AskPlace

\* The role a probe is asked in.
LEMMA AskedAs ==
  ASSUME SafeInv, RoleInv, verdict = "running", conn = "open"
  PROVE  /\ Script[pc] = "settings" => role = "superuser"
         /\ Script[pc] \in {"readTrends", "readVersion", "shadowLookup"} \cup ShadowProbes
                           \cup WriteProbes \cup ForbiddenProbes => role = "semiplot"
         /\ Script[pc] = "addMarker" => role = "scadaWriter"
<1>1. pc \in 1..56 /\ role = RoleAt(pc)
  BY DEF SafeInv, RunType, RoleInv
<1>2. Script[pc] = "settings" => Owed(pc) = "none"
  BY <1>1, Places DEF Owed
<1> QED
  BY <1>1, <1>2, ProbePlaces DEF RoleAt

LEMMA SettingsSay ==
  ASSUME SafeInv, RoleInv, RightInv, CleanInv, Settings
  PROVE  \E result \in AllResults : Judgement(result)
<1>1. PICK result \in AllResults :
        /\ Exec(Script[pc], result, role) /\ Told(Script[pc], result)
        /\ UNCHANGED scope /\ cause' = CauseOf(result) /\ Idle
        /\ IF SessionSettingFailure[result] = "on" THEN Proceed
           ELSE Fail(SessionSettingFailure[result], "superuser")
  BY Asked DEF Settings
<1>2. AskPlace("settings")
  BY Asked DEF Settings
<1>3. result \in {"ok", "refused"} => role = "superuser"
  BY <1>1, <1>2, AskedAs DEF Told, AskPlace
<1>4. (result = "ok" => "superuser" \in right) /\ (result = "refused" => "superuser" \in wrong)
  BY <1>1, <1>2, <1>3, SettingsCan, EnoughIs, FactsAre DEF Told, AskPlace, Wanted
<1>5. CASE result = "ok"
  <2>1. Proceed
    BY <1>1, <1>5 DEF SessionSettingFailure, IfRefused
  <2>2. \A f \in Confirms(Script[pc]) : f \in right
    BY <1>2, <1>4, <1>5 DEF Confirms, AskPlace
  <2> QED
    BY <1>1, <1>5, <2>1, <2>2 DEF Judgement, CauseOf
<1>6. CASE result = "refused"
  <2>1. Fail("grant", "superuser")
    BY <1>1, <1>6 DEF SessionSettingFailure, IfRefused
  <2>2. Deserved("grant", "superuser")
    BY <1>4, <1>6 DEF Deserved, Verdicts
  <2> QED
    BY <1>1, <2>1, <2>2 DEF Judgement, CauseOf
<1>7. CASE result \notin {"ok", "refused"}
  <2>1. Fail("other", "superuser")
    BY <1>1, <1>7 DEF SessionSettingFailure, IfRefused
  <2>2. Deserved("other", "superuser")
    BY <1>1, <1>7 DEF Deserved, Verdicts, Told
  <2> QED
    BY <1>1, <2>1, <2>2 DEF Judgement, CauseOf
<1> QED
  BY <1>5, <1>6, <1>7

LEMMA ReadProbeSays ==
  ASSUME SafeInv, RoleInv, RightInv, CleanInv, ReadProbe
  PROVE  \E result \in AllResults : Judgement(result)
<1>1. PICK p \in {"readTrends", "readVersion"} : Ask(p, [result \in AllResults |-> "on"], p)
  BY DEF ReadProbe
<1>2. AskPlace(p) /\ pc \in {4, 8}
  BY <1>1, Asked, Places DEF AskPlace
<1>3. PICK result \in AllResults :
        /\ Exec(Script[pc], result, role) /\ Told(Script[pc], result)
        /\ UNCHANGED scope /\ cause' = CauseOf(result) /\ Idle /\ Proceed
  BY <1>1, Asked
<1>4. result \in {"ok", "refused"} => (result = "ok" <=> Enough(p, held))
  BY <1>2, <1>3, AskedAs, ProbeCan DEF Told, AskPlace
<1>5. p \in Wanted /\ "usage" \in Wanted
  BY DEF Wanted
<1>6. result = "ok" => \A f \in Confirms(p) : f \in right
  BY <1>4, <1>5, EnoughIs, FactsAre DEF Confirms
<1>7. result = "refused" => p \in wrong
  BY <1>4, <1>5, FactsAre
<1>8. /\ cause' # "none" /\ faults' = {} => Script[pc] \in wrong
      /\ cause' # "none" \/ \A f \in Confirms(Script[pc]) : f \in right
  BY <1>2, <1>3, <1>6, <1>7 DEF CauseOf, AskPlace, Told
<1> QED
  BY <1>2, <1>3, <1>8 DEF Judgement

LEMMA ShadowProbeSays ==
  ASSUME SafeInv, RoleInv, RightInv, CleanInv, ShadowProbe
  PROVE  \E result \in AllResults : Judgement(result)
<1>1. PICK p \in ShadowProbes : Ask(p, Plain, "none")
  BY DEF ShadowProbe
<1>2. AskPlace(p)
  BY <1>1, Asked DEF ShadowProbes
<1>3. PICK result \in AllResults :
        /\ Exec(Script[pc], result, role) /\ Told(Script[pc], result)
        /\ UNCHANGED scope /\ cause' = CauseOf(result) /\ Idle
        /\ IF Plain[result] = "on" THEN Proceed ELSE Fail(Plain[result], "none")
  BY <1>1, Asked DEF ShadowProbes
<1>4. result \in {"ok", "refused"} => (result = "ok" <=> Enough(p, held))
  BY <1>2, <1>3, AskedAs, ProbeCan DEF Told, AskPlace
<1>5. /\ Enough(p, held) => \A f \in Confirms(p) : f \in right
      /\ ~Enough(p, held) => wrong # {}
  <2>1. {"register", "temporary"} \subseteq Wanted
    BY DEF Wanted
  <2>2. Confirms(p) \subseteq (IF p = "register" THEN {"register"} ELSE
                               IF p = "shadowTable" THEN {"temporary"} ELSE {})
    BY DEF Confirms, ShadowProbes, Wanted, Unwanted, WriteProbes, ForbiddenProbes, Questions
  <2> QED
    BY <2>1, <2>2, EnoughIs, FactsAre DEF ShadowProbes
<1>6. CASE result = "ok"
  <2>1. Proceed
    BY <1>3, <1>6 DEF Plain
  <2> QED
    BY <1>2, <1>3, <1>4, <1>5, <1>6, <2>1 DEF Judgement, AskPlace, CauseOf
<1>7. CASE result # "ok"
  <2>1. Fail("other", "none")
    BY <1>3, <1>7 DEF Plain
  <2>2. Deserved("other", "none")
    BY <1>3, <1>4, <1>5, <1>7 DEF Deserved, Verdicts, Told
  <2> QED
    BY <1>3, <2>1, <2>2 DEF Judgement, CauseOf
<1> QED
  BY <1>6, <1>7

LEMMA ShadowLookupSays ==
  ASSUME SafeInv, RoleInv, RightInv, CleanInv, ShadowLookup
  PROVE  \E result \in AllResults : Judgement(result)
<1> DEFINE j == [Plain EXCEPT !["ok"] = IF "shadowed" \in held THEN "defect" ELSE "on"]
<1>1. Ask("shadowLookup", j, "shadowed")
  BY DEF ShadowLookup
<1>0. "shadowLookup" \notin {"end", "diagnose"}
  OBVIOUS
<1>2. AskPlace("shadowLookup")
  BY <1>1, Asked
<1>3. PICK result \in AllResults :
        /\ Exec(Script[pc], result, role) /\ Told(Script[pc], result)
        /\ UNCHANGED scope /\ cause' = CauseOf(result) /\ Idle
        /\ IF j[result] = "on" THEN Proceed ELSE Fail(j[result], "shadowed")
  <2> HIDE DEF j
  <2> QED
    BY <1>1, <1>0, Asked
<1>4. result \in {"ok", "refused"} => (result = "ok" <=> Enough("readTags", held))
  BY <1>2, <1>3, AskedAs, ProbeCan, EnoughIs DEF Told, AskPlace
<1>5. /\ "readTags" \in (IF Enough("readTags", held) THEN right ELSE wrong)
      /\ "shadowed" \in (IF "shadowed" \in held THEN wrong ELSE right)
  BY EnoughIs, FactsAre DEF Wanted, Unwanted
<1>6. CASE result = "ok" /\ "shadowed" \notin held
  <2>1. Proceed
    BY <1>3, <1>6 DEF Plain
  <2>2. \A f \in Confirms(Script[pc]) : f \in right
    BY <1>2, <1>4, <1>5, <1>6 DEF Confirms, AskPlace
  <2> QED
    BY <1>3, <1>6, <2>1, <2>2 DEF Judgement, CauseOf
<1>7. CASE result = "ok" /\ "shadowed" \in held
  <2>1. Fail("defect", "shadowed")
    BY <1>3, <1>7 DEF Plain
  <2>2. Deserved("defect", "shadowed")
    BY <1>5, <1>7 DEF Deserved, Verdicts
  <2> QED
    BY <1>3, <2>1, <2>2 DEF Judgement, CauseOf
<1>8. CASE result # "ok"
  <2>1. Fail("other", "shadowed")
    BY <1>3, <1>8 DEF Plain
  <2>2. Deserved("other", "shadowed")
    BY <1>3, <1>4, <1>5, <1>8 DEF Deserved, Verdicts, Told
  <2> QED
    BY <1>3, <2>1, <2>2 DEF Judgement, CauseOf
<1> QED
  BY <1>6, <1>7, <1>8

LEMMA WriteProbeSays ==
  ASSUME SafeInv, RoleInv, RightInv, CleanInv, WriteProbe
  PROVE  \E result \in AllResults : Judgement(result)
<1>1. PICK p \in WriteProbes : Ask(p, WriteProbeFailure, p)
  BY DEF WriteProbe
<1>2. AskPlace(p) /\ p \notin {"addMarker", "superuser"}
  BY <1>1, Asked DEF WriteProbes
<1>3. PICK result \in AllResults :
        /\ Exec(Script[pc], result, role) /\ Told(Script[pc], result)
        /\ UNCHANGED scope /\ cause' = CauseOf(result) /\ Idle
        /\ IF WriteProbeFailure[result] = "on" THEN Proceed ELSE Fail(WriteProbeFailure[result], p)
  BY <1>1, Asked DEF WriteProbes
<1>4. result \in {"ok", "refused"} => (result = "ok" <=> Enough(p, held))
  BY <1>2, <1>3, AskedAs, ProbeCan DEF Told, AskPlace
<1>5. p \in (IF Enough(p, held) THEN right ELSE wrong) /\ Confirms(p) \subseteq {p}
  BY FactsAre DEF Wanted, WriteProbes, Confirms
<1>6. CASE result = "ok"
  <2>1. Proceed
    BY <1>3, <1>6 DEF WriteProbeFailure
  <2> QED
    BY <1>2, <1>3, <1>4, <1>5, <1>6, <2>1 DEF Judgement, AskPlace, CauseOf
<1>7. CASE result # "ok"
  <2>1. Fail("grant", p)
    BY <1>3, <1>7 DEF WriteProbeFailure
  <2>2. Deserved("grant", p)
    BY <1>2, <1>3, <1>4, <1>5, <1>7 DEF Deserved, Verdicts, Told
  <2> QED
    BY <1>3, <2>1, <2>2 DEF Judgement, CauseOf
<1> QED
  BY <1>6, <1>7

LEMMA ForbiddenProbeSays ==
  ASSUME SafeInv, RoleInv, RightInv, CleanInv, ForbiddenProbe
  PROVE  \E result \in AllResults : Judgement(result)
<1>1. PICK p \in ForbiddenProbes : Ask(p, RefusalVerdict, p)
  BY DEF ForbiddenProbe
<1>2. AskPlace(p) /\ pc \in {30, 33, 36}
  BY <1>1, Asked, ProbePlaces DEF ForbiddenProbes, AskPlace
<1>3. PICK result \in AllResults :
        /\ Exec(Script[pc], result, role) /\ Told(Script[pc], result)
        /\ UNCHANGED scope /\ cause' = CauseOf(result) /\ Idle
        /\ IF RefusalVerdict[result] = "on" THEN Proceed ELSE Fail(RefusalVerdict[result], p)
  BY <1>1, Asked DEF ForbiddenProbes
<1>4. /\ result = "refused" => ~Enough(p, held)
      /\ result \in {"ok", "integrity"} => Enough(p, held)
  BY <1>2, <1>3, AskedAs, ProbeCan DEF Told, AskPlace
<1>5. p \in (IF Enough(p, held) THEN wrong ELSE right) /\ Confirms(p) \subseteq {p}
  BY FactsAre DEF Unwanted, ForbiddenProbes, Confirms
<1>6. CASE result = "refused"
  <2>1. Proceed
    BY <1>3, <1>6 DEF RefusalVerdict
  <2> QED
    BY <1>2, <1>3, <1>4, <1>5, <1>6, <2>1 DEF Judgement, AskPlace, CauseOf
<1>7. CASE result \in {"ok", "integrity"}
  <2>1. Fail("revoke", p)
    BY <1>3, <1>7 DEF RefusalVerdict
  <2>2. Deserved("revoke", p)
    BY <1>4, <1>5, <1>7 DEF Deserved, Verdicts
  <2> QED
    BY <1>3, <2>1, <2>2 DEF Judgement, CauseOf
<1>8. CASE result \notin {"ok", "integrity", "refused"}
  <2>1. Fail("other", p)
    BY <1>3, <1>8 DEF RefusalVerdict
  <2>2. Deserved("other", p)
    BY <1>3, <1>8 DEF Deserved, Verdicts, Told
  <2> QED
    BY <1>3, <2>1, <2>2 DEF Judgement, CauseOf
<1> QED
  BY <1>6, <1>7, <1>8

LEMMA QuestionSays ==
  ASSUME SafeInv, RoleInv, RightInv, CleanInv, Question
  PROVE  \E result \in AllResults : Judgement(result)
<1>1. PICK p \in Questions :
        Ask(p, [Plain EXCEPT !["ok"] = IF p \in held THEN "revoke" ELSE "on"], p)
  BY DEF Question
<1> DEFINE j == [Plain EXCEPT !["ok"] = IF p \in held THEN "revoke" ELSE "on"]
<1>2. AskPlace(p)
  BY <1>1, Asked DEF Questions
<1>3. PICK result \in AllResults :
        /\ Exec(Script[pc], result, role) /\ Told(Script[pc], result)
        /\ UNCHANGED scope /\ cause' = CauseOf(result) /\ Idle
        /\ IF j[result] = "on" THEN Proceed ELSE Fail(j[result], p)
  BY <1>1, Asked DEF Questions
<1>4. result # "refused"
  BY <1>2, <1>3, FreeCan DEF Told, AskPlace
<1>5. p \in (IF p \in held THEN wrong ELSE right) /\ Confirms(p) \subseteq {p}
  BY EnoughIs, FactsAre DEF Unwanted, Questions, Confirms
<1>6. CASE result = "ok" /\ p \notin held
  <2>1. Proceed
    BY <1>3, <1>6 DEF Plain
  <2> QED
    BY <1>2, <1>3, <1>5, <1>6, <2>1 DEF Judgement, AskPlace, CauseOf
<1>7. CASE result = "ok" /\ p \in held
  <2>1. Fail("revoke", p)
    BY <1>3, <1>7 DEF Plain
  <2>2. Deserved("revoke", p)
    BY <1>5, <1>7 DEF Deserved, Verdicts
  <2> QED
    BY <1>3, <2>1, <2>2 DEF Judgement, CauseOf
<1>8. CASE result # "ok"
  <2>1. Fail("other", p)
    BY <1>3, <1>8 DEF Plain
  <2>2. Deserved("other", p)
    BY <1>3, <1>4, <1>8 DEF Deserved, Verdicts, Told
  <2> QED
    BY <1>3, <2>1, <2>2 DEF Judgement, CauseOf
<1> QED
  BY <1>6, <1>7, <1>8

LEMMA AddMarkerSays ==
  ASSUME SafeInv, RoleInv, RightInv, CleanInv, AddMarker
  PROVE  \E result \in AllResults : Judgement(result)
<1>1. AskPlace("addMarker")
  BY Asked DEF AddMarker
<1>2. PICK result \in AllResults :
        /\ Exec(Script[pc], result, role) /\ Told(Script[pc], result)
        /\ UNCHANGED scope /\ cause' = CauseOf(result) /\ Idle
        /\ IF WriterMarkerFailure[result] = "on" THEN Proceed
           ELSE Fail(WriterMarkerFailure[result], "addMarker")
  BY Asked DEF AddMarker
<1>3. result \in {"ok", "refused"} => (result = "ok" <=> Enough("addMarker", held))
  BY <1>1, <1>2, AskedAs, MarkerCan DEF Told, AskPlace
<1>4. /\ "addMarker" \in (IF Enough("addMarker", held) THEN right ELSE wrong)
      /\ Confirms("addMarker") \subseteq {"addMarker"}
  BY FactsAre DEF Wanted, Confirms
<1>5. CASE result = "ok"
  <2>1. Proceed
    BY <1>2, <1>5 DEF WriterMarkerFailure, IfRefused
  <2> QED
    BY <1>1, <1>2, <1>3, <1>4, <1>5, <2>1 DEF Judgement, AskPlace, CauseOf
<1>6. CASE result = "refused"
  <2>1. Fail("grant", "addMarker")
    BY <1>2, <1>6 DEF WriterMarkerFailure, IfRefused
  <2>2. Deserved("grant", "addMarker")
    BY <1>3, <1>4, <1>6 DEF Deserved, Verdicts
  <2> QED
    BY <1>2, <2>1, <2>2 DEF Judgement, CauseOf
<1>7. CASE result \notin {"ok", "refused"}
  <2>1. Fail("other", "addMarker")
    BY <1>2, <1>7 DEF WriterMarkerFailure, IfRefused
  <2>2. Deserved("other", "addMarker")
    BY <1>2, <1>7 DEF Deserved, Verdicts, Told
  <2> QED
    BY <1>2, <2>1, <2>2 DEF Judgement, CauseOf
<1> QED
  BY <1>5, <1>6, <1>7

LEMMA PendingSays ==
  ASSUME SafeInv, RoleInv, RightInv, CleanInv, ReportPendingRestart
  PROVE  \E result \in AllResults : Judgement(result)
<1> DEFINE j == [Plain EXCEPT !["ok"] = "passed"]
<1>0. Ask("pending", j, "none") /\ "pending" \notin {"end", "diagnose"}
  BY DEF ReportPendingRestart
<1>1. AskPlace("pending")
  BY <1>0, Asked
<1>2. PICK result \in AllResults :
        /\ Exec(Script[pc], result, role) /\ Told(Script[pc], result)
        /\ UNCHANGED scope /\ cause' = CauseOf(result) /\ Idle
        /\ IF j[result] = "on" THEN Proceed ELSE Fail(j[result], "none")
  <2> HIDE DEF j
  <2> QED
    BY <1>0, Asked
<1>3. result # "refused" /\ pc = 56
  BY <1>1, <1>2, FreeCan, Places DEF Told, AskPlace
<1>4. CASE result = "ok"
  <2>1. Fail("passed", "none")
    BY <1>2, <1>4 DEF Plain
  <2>2. Deserved("passed", "none")
    BY <1>3 DEF Deserved, Verdicts
  <2> QED
    BY <1>2, <2>1, <2>2 DEF Judgement, CauseOf
<1>5. CASE result # "ok"
  <2>1. Fail("other", "none")
    BY <1>2, <1>5 DEF Plain
  <2>2. Deserved("other", "none")
    BY <1>2, <1>3, <1>5 DEF Deserved, Verdicts, Told
  <2> QED
    BY <1>2, <2>1, <2>2 DEF Judgement, CauseOf
<1> QED
  BY <1>4, <1>5

LEMMA JudgedSays ==
  ASSUME SafeInv, RoleInv, RightInv, CleanInv, Judged
  PROVE  \E result \in AllResults : Judgement(result)
BY SettingsSay, ReadProbeSays, ShadowProbeSays, ShadowLookupSays, WriteProbeSays,
   ForbiddenProbeSays, QuestionSays, AddMarkerSays, PendingSays DEF Judged

-----------------------------------------------------------------------------
(* One lemma per kind of step: what a verdict rests on, and what is learnt.    *)

Verdict == PassMeansAsked /\ FailuresHaveACause /\ RepairsAreNeeded
TellInv == RoleInv /\ KnownInv /\ CleanInv /\ Verdict
TruthInv == SafeInv /\ WorldType /\ RightInv /\ TellInv

LEMMA InitTells == Init => RightInv /\ TellInv
<1> SUFFICES ASSUME Init
             PROVE  RightInv /\ TellInv
  OBVIOUS
<1>1. RightInv
  BY DEF Init, RightInv, RightOnes
<1>2. RoleInv /\ KnownInv /\ CleanInv /\ Verdict
  BY DEF Init, RoleInv, KnownInv, CleanInv, Verdict, PassMeansAsked, FailuresHaveACause,
         RepairsAreNeeded
<1> QED
  BY <1>1, <1>2 DEF TellInv

\* A verdict on what is known.
LEMMA FailTells ==
  ASSUME TruthInv, verdict = "running", NEW kind, NEW what, Fail(kind, what),
         Deserved(kind, what), Idle
  PROVE  TellInv'
<1>1. RoleInv' /\ KnownInv' /\ CleanInv'
  BY DEF Fail, Deserved, RoleInv, KnownInv, CleanInv
<1>2. PassMeansAsked'
  <2> SUFFICES ASSUME kind = "passed", NEW f \in Vouched
               PROVE  f \in right
    BY DEF PassMeansAsked, Fail, Idle, world, Vouched
  <2>1. PICK j \in 1..55 : f \in Confirms(Script[j])
    BY AllAsked DEF Vouched
  <2>2. pc = 56
    BY DEF Deserved
  <2>3. ~Unread(j) /\ j \in 1..(pc - 1)
    BY <2>2 DEF Unread
  <2>4. Learnt(f)
    BY <2>1, <2>3 DEF TruthInv, TellInv, KnownInv
  <2> QED
    BY <2>4 DEF Learnt, Vouched
<1>3. FailuresHaveACause' /\ RepairsAreNeeded'
  <2>1. verdict' = kind /\ named' = what /\ wrong' = wrong
    BY DEF Fail, Idle
  <2>2. kind = "grant" => faults' # {} \/ wrong # {}
    BY DEF Deserved
  <2> QED
    BY <2>1, <2>2 DEF Deserved, FailuresHaveACause, RepairsAreNeeded, Verdicts
<1> QED
  BY <1>1, <1>2, <1>3 DEF TellInv, Verdict

\* After its verdict a run only cleans up.
LEMMA OverTells ==
  ASSUME TruthInv, verdict # "running", verdict' \in {verdict, "killed"},
         verdict' = verdict => named' = named \/ verdict = "killed", faults \subseteq faults', Idle
  PROVE  TellInv'
<1>1. verdict' # "running"
  OBVIOUS
<1>2. RoleInv' /\ KnownInv' /\ CleanInv'
  BY <1>1 DEF RoleInv, KnownInv, CleanInv
<1>3. Verdict'
  BY DEF TruthInv, TellInv, Verdict, PassMeansAsked, FailuresHaveACause, RepairsAreNeeded,
         Idle, world, Vouched
<1> QED
  BY <1>2, <1>3 DEF TellInv

\* A run that goes on.
LEMMA OnTells ==
  ASSUME verdict' = "running", RoleInv', KnownInv', CleanInv'
  PROVE  TellInv'
BY DEF TellInv, Verdict, PassMeansAsked, FailuresHaveACause, RepairsAreNeeded

LEMMA RoleOn ==
  ASSUME RoleInv, verdict = "running", RoleAt(pc') = RoleAt(pc),
         conn' = "open" => conn = "open" /\ role' = role /\ saves' = saves
  PROVE  RoleInv'
BY DEF RoleInv

\* What has been learnt stays so.
LEMMA KnownOn ==
  ASSUME SafeInv, KnownInv, verdict = "running", Proceed, Idle,
         pc \in {5, 6, 9, 10} => cause' = cause,
         pc \in {6, 10} => cause = "none",
         (pc \in {4, 8} /\ cause' # "none") \/ \A f \in Confirms(Script[pc]) : Learnt(f)
  PROVE  KnownInv'
<1>1. pc \in 1..56 /\ pc' = pc + 1
  BY DEF SafeInv, RunType, Proceed
<1>2. \A f : Learnt(f) <=> Learnt(f)'
  BY DEF Learnt, Idle, world
<1>3. \A j \in 1..(pc - 1) : Unread(j) => Unread(j)'
  BY <1>1 DEF Unread
<1>4. \A j \in 1..(pc - 1) : Unread(j)' \/ \A f \in Confirms(Script[j]) : Learnt(f)
  BY <1>3 DEF KnownInv
<1>5. \A j \in 1..56 : j = pc => Unread(j)' \/ \A f \in Confirms(Script[j]) : Learnt(f)
  BY <1>1 DEF Unread
<1>6. ASSUME NEW j \in 1..pc
      PROVE  Unread(j)' \/ \A f \in Confirms(Script[j]) : Learnt(f)'
  <2>1. j = pc \/ j \in 1..(pc - 1)
    BY <1>1
  <2>2. j \in 1..56
    BY <1>1
  <2> QED
    BY <1>2, <1>4, <1>5, <2>1, <2>2
<1>7. pc' - 1 = pc
  BY <1>1
<1> QED
  BY <1>6, <1>7 DEF KnownInv

LEMMA JudgedPlace ==
  ASSUME SafeInv, Judged
  PROVE  /\ verdict = "running" /\ pc \in 1..56 /\ pc \notin {5, 6, 9, 10, 31, 34, 37}
         /\ RoleAt(pc + 1) = RoleAt(pc) \/ pc = 56
<1>1. PICK p \in Statements \ {"end", "diagnose"} : At(p) /\ p \notin Control \ {"pending"}
  <2> USE DEF Judged, Ask, Control
  <2>1. At("settings") \/ At("shadowLookup") \/ At("addMarker") \/ At("pending")
        \/ \E p \in {"readTrends", "readVersion"} \cup ShadowProbes \cup WriteProbes
                     \cup ForbiddenProbes \cup Questions : At(p)
    BY DEF Settings, ReadProbe, ShadowProbe, ShadowLookup, WriteProbe, ForbiddenProbe, Question,
           AddMarker, ReportPendingRestart
  <2>2. \A p : At(p) => p \in Statements
    BY ScriptDomain DEF At, Statements, SafeInv, RunType
  <2> QED
    BY <2>1, <2>2 DEF ShadowProbes, WriteProbes, ForbiddenProbes, Questions
<1>2. Script[pc] = p /\ pc \in 1..56 /\ verdict = "running"
  BY <1>1 DEF At, SafeInv, RunType
<1>3. pc \notin {5, 6, 9, 10, 31, 34, 37}
  <2>1. Script[6] = "diagnose" /\ Script[10] = "diagnose"
    BY DEF Script
  <2> QED
    BY <1>1, <1>2, <2>1, Places
<1>4. pc # 56 => p \notin Control
  BY <1>1, <1>2, Places
<1>5. pc # 56 => Owed(pc + 1) = Owed(pc) /\ (pc < 40 <=> pc + 1 < 40 \/ pc = 39)
  BY <1>2, <1>4, Plains
<1>6. pc # 39
  BY <1>1, <1>2 DEF Script
<1> QED
  BY <1>2, <1>3, <1>5, <1>6 DEF RoleAt

LEMMA JudgedTells ==
  ASSUME TruthInv, Judged
  PROVE  TellInv'
<1>1. PICK result \in AllResults : Judgement(result)
  BY JudgedSays DEF TruthInv, TellInv
<1>2. /\ verdict = "running" /\ pc \in 1..56 /\ pc \notin {5, 6, 9, 10, 31, 34, 37}
      /\ RoleAt(pc + 1) = RoleAt(pc) \/ pc = 56
  BY JudgedPlace DEF TruthInv
<1>3. CASE \E kind, what : Fail(kind, what) /\ Deserved(kind, what)
  BY <1>1, <1>2, <1>3, FailTells DEF Judgement
<1>4. CASE /\ Proceed
           /\ result = "ok" \/ pc \in {4, 8} \/ (pc \in {30, 33, 36} /\ result = "refused")
           /\ pc \in {4, 8} /\ cause' # "none" /\ faults' = {} => Script[pc] \in wrong
           /\ (pc \in {4, 8} /\ cause' # "none") \/ \A f \in Confirms(Script[pc]) : f \in right
  <2>1. pc' = pc + 1 /\ verdict' = "running" /\ pc # 56
    <3>1. Script[56] = "pending" /\ Confirms("pending") = {}
      BY DEF Script, Confirms, Wanted, Unwanted, WriteProbes, ForbiddenProbes, Questions
    <3>2. SafeInv'
      BY JudgedKeeps DEF TruthInv
    <3> QED
      BY <1>2, <1>4, <3>2 DEF Proceed, SafeInv, RunType
  <2>2. KnownInv'
    BY <1>1, <1>2, <1>4, KnownOn DEF TruthInv, TellInv, Judgement, Learnt
  <2>3. /\ Exec(Script[pc], result, role) /\ Told(Script[pc], result) /\ Idle
        /\ SessionType
    BY <1>1 DEF Judgement, TruthInv, SafeInv
  <2>4. RoleInv'
    <3>1. conn' = "open" => conn = "open" /\ role' = role /\ saves' = saves
      BY <2>3, ExecEffect
    <3> QED
      BY <1>2, <2>1, <3>1, RoleOn DEF TruthInv, TellInv
  <2>5. CleanInv'
    <3> SUFFICES ASSUME faults' = {}
                 PROVE  CleanInv'
      BY DEF CleanInv
    <3>1. result \in {"ok", "refused"} /\ conn = "open" /\ faults = {}
      BY <2>3 DEF Told
    <3>2. conn' = "open" /\ broken = "no"
      BY <1>2, <2>3, <3>1 DEF Exec, TruthInv, TellInv, CleanInv, SessionType
    <3>3. broken' = "yes" => pc \in {30, 33, 36}
      <4>1. CASE pc \in {4, 8}
        <5>1. Len(saves) = 0
          BY <1>2, <3>1, <4>1 DEF TruthInv, SafeInv, ScopeInv, Owed, Height
        <5>2. saves = <<>>
          BY <2>3, <5>1, EmptySeq DEF SessionType
        <5> QED
          BY <2>3, <3>1, <3>2, <5>2 DEF Exec
      <4>2. CASE pc \notin {4, 8}
        BY <1>4, <2>3, <3>1, <3>2, <4>2 DEF Exec
      <4> QED
        BY <4>1, <4>2
    <3>4. Script[4] = "readTrends" /\ Script[8] = "readVersion" /\ wrong' = wrong
      BY <2>3 DEF Script, Idle
    <3>5. pc' \in {5, 6} => pc = 4
      BY <1>2, <2>1
    <3>6. pc' \in {9, 10} => pc = 8
      BY <1>2, <2>1
    <3>7. broken' = "yes" => pc' \in {31, 34, 37}
      BY <2>1, <3>3
    <3> QED
      BY <1>4, <2>1, <3>2, <3>4, <3>5, <3>6, <3>7 DEF CleanInv
  <2> QED
    BY <2>1, <2>2, <2>4, <2>5, OnTells
<1> QED
  BY <1>1, <1>3, <1>4 DEF Judgement

\* The statements that say nothing of a privilege.
LEMMA Silent ==
  ASSUME NEW i \in 1..56,
         Script[i] \in Control \cup {"connect", "diagnose", "messages"}
  PROVE  Confirms(Script[i]) = {} /\ i \notin {4, 8}
BY DEF Script, Control, Confirms, Wanted, Unwanted, WriteProbes, ForbiddenProbes, Questions

LEMMA LostTells ==
  ASSUME TruthInv, verdict = "running", Fail("other", "none"), faults' # {}, Idle
  PROVE  TellInv'
BY FailTells DEF Deserved, Verdicts

LEMMA ConnectTells ==
  ASSUME TruthInv, Connect
  PROVE  TellInv'
<1>1. /\ Script[pc] = "connect" /\ verdict = "running" /\ Idle
      /\ UNCHANGED <<role, saves, rows, broken, kept, scope, cause>>
  BY DEF Connect, At
<1>2. pc = 1 /\ Owed(1) = "none" /\ Owed(2) = "none"
  BY <1>1, ConnectPlace DEF TruthInv, SafeInv, RunType, Owed
<1>3. CASE Fail("other", "none") /\ Fault("lost")
  BY <1>1, <1>3, LostTells DEF Fault
<1>4. CASE Proceed /\ conn' = "open" /\ UNCHANGED faults
  <2>1. pc' = 2 /\ verdict' = "running"
    BY <1>1, <1>2, <1>4 DEF Proceed
  <2>2. KnownInv'
    BY <1>1, <1>2, <1>4, Silent, KnownOn DEF TruthInv, TellInv
  <2>3. CleanInv'
    BY <1>1, <1>2, <1>4, <2>1 DEF TruthInv, TellInv, CleanInv
  <2>4. role = "superuser" /\ (conn = "open" => saves = <<>>)
    BY <1>1, <1>2 DEF TruthInv, SafeInv, ScopeInv, RoleDoesNotLeak
  <2>5. saves = <<>>
    BY <2>4 DEF TruthInv, SafeInv, ScopeInv
  <2>6. RoleInv'
    BY <1>1, <1>2, <2>1, <2>4, <2>5 DEF RoleInv, RoleAt
  <2> QED
    BY <2>1, <2>2, <2>3, <2>6, OnTells
<1> QED
  BY <1>3, <1>4 DEF Connect

LEMMA AssumeRoleTells ==
  ASSUME TruthInv, AssumeRole
  PROVE  TellInv'
<1>1. /\ verdict = "running" /\ pc \in 1..56 /\ Script[pc] \in {"asPlot", "asWriter"}
      /\ cause' = cause /\ Idle
  BY DEF AssumeRole, TruthInv, SafeInv, RunType
<1> DEFINE to == IF Script[pc] = "asPlot" THEN "semiplot" ELSE "scadaWriter"
<1> PICK result \in Results(Script[pc]) :
      /\ Exec(Script[pc], result, to)
      /\ IF result = "ok" THEN Proceed /\ scope' = "role"
                          ELSE Fail("other", "none") /\ UNCHANGED scope
  BY DEF AssumeRole
<1>2. /\ Owed(pc) = "none" /\ Owed(pc + 1) = "role" /\ pc < 56 /\ scope = "none"
      /\ Script[pc] = (IF pc < 40 THEN "asPlot" ELSE "asWriter")
      /\ pc \notin {4, 5, 6, 8, 9, 10, 31, 34, 37, 39}
  <2>1. Script[39] = "end" /\ Script[6] = "diagnose" /\ Script[10] = "diagnose"
        /\ Script[4] = "readTrends" /\ Script[8] = "readVersion"
    BY DEF Script
  <2>2. pc \notin {5, 9, 31, 34, 37}
    BY <1>1, Places
  <2>3. pc \notin {4, 6, 8, 10, 39}
    BY <1>1, <2>1
  <2>4. Owed(pc) = "none" /\ Owed(pc + 1) = "role" /\ pc < 56 /\ scope = "none"
    BY <1>1, Openings DEF TruthInv, SafeInv, ScopeInv
  <2>5. Script[pc] = (IF pc < 40 THEN "asPlot" ELSE "asWriter")
    BY <1>1, Places
  <2> QED
    BY <2>2, <2>3, <2>4, <2>5
<1>3. to = RoleAt(pc + 1)
  <2>1. pc < 40 <=> pc + 1 < 40
    BY <1>1, <1>2
  <2> QED
    BY <1>2, <2>1 DEF RoleAt
<1>4. Told(Script[pc], result)
  BY <1>1, <1>2, ExecTells DEF TruthInv, TellInv
<1> HIDE DEF to
<1>5. SessionType /\ saves = <<>>
  <2>1. Len(saves) = 0 \/ saves = <<>>
    BY <1>2 DEF TruthInv, SafeInv, ScopeInv, Height
  <2> QED
    BY <2>1, EmptySeq DEF TruthInv, SafeInv, SessionType
<1>6. CASE result = "ok"
  <2>1. Proceed /\ pc' = pc + 1 /\ verdict' = "running"
    BY <1>1, <1>6 DEF Proceed
  <2>2. KnownInv'
    BY <1>1, <1>2, <2>1, Silent, KnownOn DEF TruthInv, TellInv, Control
  <2>3. conn' = "open" => role' = to /\ saves' = <<>>
    BY <1>5, <1>6, ExecEffect
  <2>4. RoleInv'
    BY <1>3, <2>1, <2>3 DEF RoleInv
  <2>5. CleanInv'
    <3> SUFFICES ASSUME faults' = {}
                 PROVE  CleanInv'
      BY DEF CleanInv
    <3>1. conn = "open" /\ faults = {} /\ conn' = "open" /\ broken' = broken
      BY <1>4, <1>6 DEF Told, Exec
    <3>2. broken = "no"
      BY <1>1, <1>2, <3>1 DEF TruthInv, TellInv, CleanInv, SafeInv, SessionType
    <3> QED
      BY <1>1, <1>2, <2>1, <3>1, <3>2 DEF CleanInv
  <2> QED
    BY <2>1, <2>2, <2>4, <2>5, OnTells
<1>7. CASE result # "ok"
  <2>1. faults' # {} \/ result = "refused"
    BY <1>4, <1>7 DEF Told
  <2>2. result # "refused"
    <3> SUFFICES ASSUME result = "refused"
                 PROVE  FALSE
      OBVIOUS
    <3>1. conn = "open" /\ ~Can(Script[pc])
      BY <1>4 DEF Told
    <3>2. role = "superuser"
      BY <1>1, <1>2, <3>1 DEF TruthInv, TellInv, RoleInv, RoleAt
    <3> QED
      BY <1>1, <3>1, <3>2 DEF Can
  <2> QED
    BY <1>1, <1>7, <2>1, <2>2, LostTells
<1> QED
  BY <1>6, <1>7

LEMMA PushTells ==
  ASSUME TruthInv, NEW p \in {"begin", "savepoint"}, At(p), Push(p), Proceed, cause' = cause, Idle
  PROVE  TellInv'
<1>1. Script[pc] = p /\ verdict = "running" /\ pc \in 1..56
  BY DEF At, TruthInv, SafeInv, RunType
<1>2. /\ Owed(pc) # "none" /\ Owed(pc + 1) # "none" /\ pc < 56
      /\ pc \notin {4, 5, 6, 8, 9, 10, 31, 34, 37, 39}
  <2>1. Script[39] = "end" /\ Script[6] = "diagnose" /\ Script[10] = "diagnose"
        /\ Script[4] = "readTrends" /\ Script[8] = "readVersion"
    BY DEF Script
  <2> QED
    BY <1>1, <2>1, Openings, Places
<1>3. pc' = pc + 1 /\ verdict' = "running" /\ RoleAt(pc + 1) = RoleAt(pc)
  BY <1>1, <1>2 DEF Proceed, RoleAt
<1>4. KnownInv'
  BY <1>1, <1>2, Silent, KnownOn DEF TruthInv, TellInv, Control
<1>5. /\ conn = "open" /\ conn' = "open" /\ broken = "no" /\ broken' = "no" /\ role' = role
      /\ saves' = Append(saves, [role |-> role, rows |-> rows]) /\ faults' = faults
  BY DEF Push, Results, Possible
<1>6. RoleInv'
  <2>1. role = RoleAt(pc) /\ \A i \in 1..Len(saves) : saves[i].role = RoleAt(pc)
    BY <1>1, <1>5 DEF TruthInv, TellInv, RoleInv
  <2>2. saves \in Seq(Saves) /\ [role |-> role, rows |-> rows] \in Saves
    BY DEF TruthInv, SafeInv, SessionType, Saves
  <2>3. /\ Len(saves') = Len(saves) + 1
        /\ \A i \in 1..Len(saves) : saves'[i] = saves[i]
        /\ saves'[Len(saves) + 1] = [role |-> role, rows |-> rows]
    BY <1>5, <2>2
  <2>4. Len(saves) \in Nat
    BY <2>2
  <2>5. ASSUME NEW i \in 1..Len(saves')
        PROVE  saves'[i].role = RoleAt(pc)
    <3>1. i \in 1..Len(saves) \/ i = Len(saves) + 1
      BY <2>3, <2>4
    <3> QED
      BY <2>1, <2>3, <3>1
  <2> QED
    BY <1>3, <1>5, <2>1, <2>5 DEF RoleInv
<1>7. CleanInv'
  BY <1>1, <1>2, <1>3, <1>5 DEF CleanInv
<1> QED
  BY <1>3, <1>4, <1>6, <1>7, OnTells

LEMMA BeginTells ==
  ASSUME TruthInv, Begin
  PROVE  TellInv'
<1>1. At("begin") /\ cause' = cause /\ Idle /\ verdict = "running"
  BY DEF Begin, At
<1>2. CASE Push("begin") /\ Proceed
  BY <1>1, <1>2, PushTells
<1>3. CASE Fault("lost") /\ Fail("other", "none")
  BY <1>1, <1>3, LostTells DEF Fault
<1> QED
  BY <1>2, <1>3 DEF Begin

LEMMA SavepointTells ==
  ASSUME TruthInv, Savepoint
  PROVE  TellInv'
<1>1. At("savepoint") /\ cause' = cause /\ Idle /\ verdict = "running" /\ pc \in 1..56
  BY DEF Savepoint, At, TruthInv, SafeInv, RunType
<1>2. CASE Push("savepoint") /\ Proceed
  BY <1>1, <1>2, PushTells
<1>3. CASE \E result \in Results("savepoint") \ {"ok"} :
             Exec("savepoint", result, role) /\ Fail("other", "none") /\ UNCHANGED scope
  <2> PICK result \in Results("savepoint") \ {"ok"} :
             Exec("savepoint", result, role) /\ Fail("other", "none") /\ UNCHANGED scope
    BY <1>3
  <2>1. pc \notin {31, 34, 37}
    BY <1>1, Places DEF At
  <2>2. Told("savepoint", result)
    BY <1>1, <2>1, ExecTells DEF TruthInv, TellInv
  <2>3. faults' # {}
    BY <2>2, FreeCan DEF Told
  <2> QED
    BY <1>1, <2>3, LostTells
<1> QED
  BY <1>2, <1>3 DEF Savepoint

LEMMA RollBackTells ==
  ASSUME TruthInv, RollBack
  PROVE  /\ conn' = "open" => /\ conn = "open" /\ role' = saves[Len(saves)].role
                               /\ Len(saves) \in Nat \ {0} /\ Len(saves') = Len(saves) - 1
                               /\ \A i \in 1..Len(saves') : saves'[i] = saves[i]
         /\ broken' = "no" /\ faults \subseteq faults'
         /\ faults' = {} => conn' = "open" /\ faults = {}
<1>1. CASE Drop /\ Fault("lost")
  BY <1>1 DEF Drop, Fault
<1>2. CASE Pop
  <2>1. Len(saves) \in Nat \ {0} /\ Len(saves') = Len(saves) - 1
    BY <1>2, PopTypes, EmptySeq DEF Pop, TruthInv, SafeInv, SessionType
  <2>2. \A i \in 1..(Len(saves) - 1) : saves'[i] = saves[i]
    <3> DEFINE n == Len(saves) - 1
    <3>1. n \in Nat /\ 1 \in Int /\ saves' = SubSeq(saves, 1, n) /\ saves \in Seq(Saves)
      BY <1>2, <2>1 DEF Pop, TruthInv, SafeInv, SessionType
    <3>2. \A i \in 1..n : saves[i] \in Saves
      BY <2>1, <3>1
    <3> HIDE DEF n
    <3>3. \A i \in 1..n : SubSeq(saves, 1, n)[i] = saves[1 + i - 1]
      BY <3>1, <3>2, SubSeqProperties
    <3>4. \A i \in 1..n : saves'[i] = saves[i]
      BY <3>1, <3>3
    <3> QED
      BY <3>4 DEF n
  <2> QED
    BY <1>2, <2>1, <2>2 DEF Pop
<1> QED
  BY <1>1, <1>2 DEF RollBack

LEMMA LeaveTells ==
  ASSUME TruthInv, Leave
  PROVE  TellInv'
<1>1. /\ scope # "none" /\ (At("end") \/ verdict # "running") /\ cause' = cause /\ Idle
      /\ pc \in 1..56
  BY DEF Leave, TruthInv, SafeInv, RunType
<1>2. CASE verdict # "running"
  <2>1. UNCHANGED <<pc, verdict, named>>
    BY <1>2 DEF Leave
  <2>2. faults \subseteq faults'
    BY RollBackTells DEF Leave, Exec, Fault
  <2> QED
    BY <1>1, <1>2, <2>1, <2>2, OverTells
<1>3. CASE verdict = "running"
  <2>1. Script[pc] = "end" /\ scope = Owed(pc) /\ pc < 56 /\ Owed(pc + 1) = Outer[Owed(pc)]
    BY <1>1, <1>3, Ends DEF At, TruthInv, SafeInv, ScopeInv
  <2>2. pc \notin {4, 6, 8, 10} /\ Confirms(Script[pc]) = {}
    <3>1. Script[6] = "diagnose" /\ Script[10] = "diagnose"
      BY DEF Script
    <3> QED
      BY <1>1, <2>1, <3>1, Silent DEF Control
  <2>3. Proceed => KnownInv'
    BY <1>1, <1>3, <2>2, KnownOn DEF TruthInv, TellInv
  <2>4. CASE scope # "role"
    <3>1. RollBack /\ Proceed
      BY <1>3, <2>4 DEF Leave
    <3>2. pc' = pc + 1 /\ verdict' = "running" /\ pc \notin {5, 9}
      BY <1>3, <2>1, <2>4, <3>1 DEF Proceed, Owed
    <3>3. RoleAt(pc + 1) = RoleAt(pc)
      <4>1. Owed(pc) # "none" /\ Owed(pc + 1) # "none"
        BY <1>1, <2>1, <2>4 DEF Outer, Owed
      <4>2. pc # 39
        BY <2>1, <2>4 DEF Owed
      <4> QED
        BY <1>1, <4>1, <4>2 DEF RoleAt
    <3>4. RoleInv'
      <4> SUFFICES ASSUME conn' = "open"
                   PROVE  role' = RoleAt(pc) /\ \A i \in 1..Len(saves') : saves'[i].role = RoleAt(pc)
        BY <3>2, <3>3 DEF RoleInv
      <4>1. /\ conn = "open" /\ role' = saves[Len(saves)].role
            /\ Len(saves) \in Nat \ {0} /\ Len(saves') = Len(saves) - 1
            /\ \A i \in 1..Len(saves') : saves'[i] = saves[i]
        BY <3>1, RollBackTells
      <4>2. \A i \in 1..Len(saves) : saves[i].role = RoleAt(pc)
        BY <1>3, <4>1 DEF TruthInv, TellInv, RoleInv
      <4> HIDE DEF RoleAt
      <4>3. role' = RoleAt(pc)
        BY <4>1, <4>2
      <4>4. ASSUME NEW i \in 1..Len(saves')
            PROVE  saves'[i].role = RoleAt(pc)
        BY <4>1, <4>2
      <4> QED
        BY <4>3, <4>4
    <3>5. CleanInv'
      BY <1>1, <2>2, <3>1, <3>2, RollBackTells DEF CleanInv
    <3> QED
      BY <2>3, <3>1, <3>2, <3>4, <3>5, OnTells
  <2>5. CASE scope = "role"
    <3> PICK result \in Results("reset") :
          /\ Exec("reset", result, "superuser")
          /\ IF result = "ok" THEN Proceed ELSE Fail("other", "none")
      BY <1>3, <2>5 DEF Leave
    <3>0. pc \in {5, 9, 39, 50}
      <4>1. Owed(pc) = "role" /\ Script[pc] = "end"
        BY <2>1, <2>5
      <4> HIDE DEF Owed
      <4> QED
        BY <1>1, <4>1, Places
    <3>1. pc \in {5, 9, 39, 50} /\ pc \notin {31, 34, 37}
      BY <3>0
    <3>2. Told("reset", result)
      BY <1>3, <3>1, ExecTells DEF TruthInv, TellInv
    <3>3. CASE result = "ok"
      <4>1. Proceed /\ pc' = pc + 1 /\ verdict' = "running"
        BY <1>3, <3>3 DEF Proceed
      <4>2. RoleAt(pc + 1) = "superuser"
        BY <2>1, <2>5 DEF Outer, RoleAt
      <4>3. conn' = "open" => role' = "superuser" /\ saves' = saves /\ conn = "open"
        BY <3>3, ExecEffect DEF TruthInv, SafeInv
      <4>4. conn = "open" => Len(saves) = 0
        BY <2>5 DEF TruthInv, SafeInv, ScopeInv, Height
      <4>5. RoleInv'
        BY <4>1, <4>2, <4>3, <4>4 DEF RoleInv
      <4>6. CleanInv'
        <5> SUFFICES ASSUME faults' = {}
                     PROVE  CleanInv'
          BY DEF CleanInv
        <5>1. conn = "open" /\ faults = {} /\ conn' = "open" /\ broken' = broken
          BY <3>2, <3>3 DEF Told, Exec
        <5>2. broken # "yes"
          BY <1>3, <3>1, <5>1 DEF TruthInv, TellInv, CleanInv
        <5>3. wrong' = wrong
          BY <1>1 DEF Idle
        <5>4. pc \in {5, 6} /\ cause # "none" => "readTrends" \in wrong
          BY <1>3, <5>1 DEF TruthInv, TellInv, CleanInv
        <5>5. pc \in {9, 10} /\ cause # "none" => "readVersion" \in wrong
          BY <1>3, <5>1 DEF TruthInv, TellInv, CleanInv
        <5> QED
          BY <1>1, <3>1, <4>1, <5>1, <5>2, <5>3, <5>4, <5>5 DEF CleanInv
      <4> QED
        BY <2>3, <4>1, <4>5, <4>6, OnTells
    <3>4. CASE result # "ok"
      <4>1. faults' # {}
        BY <3>2, <3>4, FreeCan DEF Told
      <4> QED
        BY <1>1, <1>3, <3>4, <4>1, LostTells
    <3> QED
      BY <3>3, <3>4
  <2> QED
    BY <2>4, <2>5
<1> QED
  BY <1>2, <1>3

LEMMA MessagesTell ==
  ASSUME TruthInv, MessagesExist
  PROVE  TellInv'
<1>1. /\ Script[pc] = "messages" /\ verdict = "running" /\ pc = 42 /\ cause' = cause /\ Idle
  BY MessagesPlace DEF MessagesExist, At, TruthInv, SafeInv, RunType
<1> PICK result \in Results("messages") :
      /\ Exec("messages", result, role)
      /\ IF result # "ok" THEN Fail("other", "none")
         ELSE IF messages = "present" THEN Proceed
         ELSE pc' = pc + 2 /\ UNCHANGED <<verdict, named>>
  BY DEF MessagesExist
<1>2. Told("messages", result)
  BY <1>1, ExecTells DEF TruthInv, TellInv
<1>3. CASE result # "ok"
  <2>1. faults' # {}
    BY <1>2, <1>3, FreeCan DEF Told
  <2> QED
    BY <1>1, <1>3, <2>1, LostTells
<1>4. CASE result = "ok"
  <2>1. pc' \in {43, 44} /\ verdict' = "running"
    BY <1>1, <1>4 DEF Proceed
  <2>2. KnownInv'
    <3>1. Confirms("messages") = {} /\ Script[43] = "writeMessages"
          /\ Confirms("writeMessages") \subseteq {"writeMessages"}
      BY DEF Confirms, Script, Wanted, Unwanted, WriteProbes, ForbiddenProbes, Questions
    <3>2. CASE messages = "present"
      BY <1>1, <1>4, <3>1, <3>2, KnownOn DEF TruthInv, TellInv
    <3>3. CASE messages # "present"
      <4>1. pc' = 44
        BY <1>1, <1>4, <3>3
      <4>2. messages = "absent" /\ UNCHANGED <<right, socketHost, messages, moves>>
        <5>1. messages \in {"absent", "present"}
          BY DEF TruthInv, WorldType
        <5> QED
          BY <1>1, <3>3, <5>1 DEF Idle, world
      <4>3. \A f : Learnt(f) => Learnt(f)'
        BY <4>2 DEF Learnt
      <4>4. \A j \in 1..41 : \A f \in Confirms(Script[j]) : Learnt(f)
        BY <1>1 DEF TruthInv, TellInv, KnownInv, Unread
      <4>5. Learnt("writeMessages")
        BY <4>2 DEF Learnt
      <4>6. ASSUME NEW j \in 1..43
            PROVE  \A f \in Confirms(Script[j]) : Learnt(f)'
        <5>1. j \in 1..41 \/ j = 42 \/ j = 43
          OBVIOUS
        <5> QED
          BY <1>1, <3>1, <4>3, <4>4, <4>5, <5>1
      <4> QED
        BY <4>1, <4>6 DEF KnownInv
    <3> QED
      BY <3>2, <3>3
  <2>3. RoleInv'
    <3>1. RoleAt(42) = RoleAt(43) /\ RoleAt(42) = RoleAt(44)
      BY DEF RoleAt, Owed
    <3>2. conn' = "open" => conn = "open" /\ role' = role /\ saves' = saves
      BY ExecEffect DEF TruthInv, SafeInv
    <3>3. RoleAt(pc') = RoleAt(pc)
      BY <1>1, <2>1, <3>1
    <3> QED
      BY <1>1, <3>2, <3>3, RoleOn DEF TruthInv, TellInv
  <2>4. CleanInv'
    <3> SUFFICES ASSUME faults' = {}
                 PROVE  CleanInv'
      BY DEF CleanInv
    <3>1. conn = "open" /\ faults = {} /\ conn' = "open" /\ broken' = broken
      BY <1>2, <1>4 DEF Told, Exec
    <3>2. broken # "yes"
      BY <1>1, <3>1 DEF TruthInv, TellInv, CleanInv
    <3> QED
      BY <2>1, <3>1, <3>2 DEF CleanInv
  <2> QED
    BY <2>1, <2>2, <2>3, <2>4, OnTells
<1> QED
  BY <1>3, <1>4

LEMMA DiagnoseTells ==
  ASSUME TruthInv, Diagnose
  PROVE  TellInv'
<1>1. /\ Script[pc] = "diagnose" /\ verdict = "running" /\ pc \in {6, 10} /\ cause' = cause /\ Idle
  BY Places DEF Diagnose, At, TruthInv, SafeInv, RunType
<1>2. Script[4] = "readTrends" /\ Script[8] = "readVersion" /\ 6 - 2 = 4 /\ 10 - 2 = 8
  BY DEF Script
<1>3. CASE cause = "none" /\ Proceed /\ UNCHANGED <<session, faults>>
  <2>1. pc' \in {7, 11} /\ verdict' = "running"
    BY <1>1, <1>3 DEF Proceed
  <2>2. KnownInv'
    BY <1>1, <1>3, Silent, KnownOn DEF TruthInv, TellInv
  <2>3. RoleInv'
    <3>1. RoleAt(6) = RoleAt(7) /\ RoleAt(10) = RoleAt(11)
      BY DEF RoleAt, Owed
    <3>2. RoleAt(pc') = RoleAt(pc)
      BY <1>1, <1>3, <3>1 DEF Proceed
    <3> QED
      BY <1>1, <1>3, <3>2, RoleOn DEF TruthInv, TellInv, session
  <2>4. CleanInv'
    <3> SUFFICES ASSUME faults' = {}
                 PROVE  CleanInv'
      BY DEF CleanInv
    <3>1. conn' = "open" /\ broken' # "yes"
      BY <1>1, <1>3 DEF TruthInv, TellInv, CleanInv, session
    <3> QED
      BY <2>1, <3>1 DEF CleanInv
  <2> QED
    BY <2>1, <2>2, <2>3, <2>4, OnTells
<1>4. CASE cause # "none" /\ Fail("grant", "readVersion") /\ pc = 10 /\ UNCHANGED <<session, faults>>
  <2>1. Deserved("grant", "readVersion")
    BY <1>1, <1>4 DEF Deserved, Verdicts, TruthInv, TellInv, CleanInv
  <2> QED
    BY <1>1, <1>4, <2>1, FailTells
<1>5. CASE /\ cause # "none" /\ pc = 6
           /\ \E result \in Results("diagnose") :
                /\ Exec("diagnose", result, role)
                /\ IF result # "ok" THEN Fail("other", "none")
                   ELSE Fail("grant", IF "readTrends" \in held THEN "usage" ELSE "readTrends")
  <2> PICK result \in Results("diagnose") :
                /\ Exec("diagnose", result, role)
                /\ IF result # "ok" THEN Fail("other", "none")
                   ELSE Fail("grant", IF "readTrends" \in held THEN "usage" ELSE "readTrends")
    BY <1>5
  <2>1. Told("diagnose", result)
    BY <1>1, <1>5, ExecTells DEF TruthInv, TellInv
  <2>2. CASE result # "ok"
    <3>1. faults' # {}
      BY <2>1, <2>2, FreeCan DEF Told
    <3> QED
      BY <1>1, <2>2, <3>1, LostTells
  <2>3. CASE result = "ok"
    <3>1. PICK what \in {"usage", "readTrends"} : Fail("grant", what)
      BY <2>3
    <3>2. faults' = {} => "readTrends" \in wrong
      BY <1>1, <1>5, <2>1 DEF Told, TruthInv, TellInv, CleanInv
    <3>3. Deserved("grant", what)
      BY <3>2 DEF Deserved, Verdicts
    <3> QED
      BY <1>1, <3>1, <3>3, FailTells
  <2> QED
    BY <2>2, <2>3
<1>6. /\ Script[pc - 2] = "readVersion" => pc = 10
      /\ Script[pc - 2] = "readTrends" => pc = 6
  BY <1>1, <1>2
<1> QED
  BY <1>3, <1>4, <1>5, <1>6 DEF Diagnose

LEMMA PlotLoginTells ==
  ASSUME TruthInv, PlotLogin
  PROVE  TellInv'
<1>1. /\ Script[pc] = "plotLogin" /\ verdict = "running" /\ pc = 55 /\ cause' = cause /\ Idle
      /\ UNCHANGED session
  <2>1. \A i \in 1..56 : Script[i] = "plotLogin" => i = 55
    BY DEF Script
  <2> QED
    BY <2>1 DEF PlotLogin, At, TruthInv, SafeInv, RunType
<1>2. /\ "login" \in (IF Enough("login", held) THEN right ELSE wrong)
      /\ "usage" \in (IF Enough("usage", held) THEN right ELSE wrong)
      /\ "readTrends" \in (IF Enough("readTrends", held) THEN right ELSE wrong)
  BY FactsAre DEF TruthInv, Wanted
<1>3. CASE Fail("other", "none")
  <2>1. faults' # {} \/ wrong # {}
    <3>1. CASE Fault("transient")
      BY <3>1 DEF Fault
    <3>2. CASE ~({"login", "readTrends", "usage"} \subseteq held)
      BY <1>2, <3>2, EnoughIs
    <3>3. CASE Proceed
      BY <1>1, <1>3, <3>3 DEF Proceed, Fail
    <3> QED
      BY <3>1, <3>2, <3>3 DEF PlotLogin
  <2>2. Deserved("other", "none")
    BY <2>1 DEF Deserved, Verdicts
  <2> QED
    BY <1>1, <1>3, <2>2, FailTells
<1>4. CASE Proceed /\ UNCHANGED faults /\ (socketHost = "yes" \/ "login" \in held)
  <2>1. pc' = 56 /\ verdict' = "running"
    BY <1>1, <1>4 DEF Proceed
  <2>2. Confirms("plotLogin") = {"login"}
    BY DEF Confirms
  <2>3. Learnt("login")
    BY <1>2, <1>4, EnoughIs DEF Learnt
  <2>4. KnownInv'
    BY <1>1, <1>4, <2>2, <2>3, KnownOn DEF TruthInv, TellInv
  <2>5. RoleInv'
    <3>1. RoleAt(55) = RoleAt(56)
      BY DEF RoleAt, Owed
    <3>2. RoleAt(pc') = RoleAt(pc)
      BY <1>1, <2>1, <3>1
    <3> QED
      BY <1>1, <3>2, RoleOn DEF TruthInv, TellInv, session
  <2>6. CleanInv'
    <3> SUFFICES ASSUME faults' = {}
                 PROVE  CleanInv'
      BY DEF CleanInv
    <3>1. conn' = "open" /\ broken' # "yes"
      BY <1>1, <1>4 DEF TruthInv, TellInv, CleanInv, session
    <3> QED
      BY <2>1, <3>1 DEF CleanInv
  <2> QED
    BY <2>1, <2>4, <2>5, <2>6, OnTells
<1> QED
  BY <1>3, <1>4 DEF PlotLogin

LEMMA ClosingTells ==
  ASSUME TruthInv, Close \/ Kill
  PROVE  TellInv'
<1>1. CASE verdict # "running"
  <2>1. /\ verdict' \in {verdict, "killed"} /\ faults' = faults /\ Idle
        /\ verdict' = verdict => named' = named \/ verdict = "killed"
    BY DEF Close, Kill, run
  <2> QED
    BY <1>1, <2>1, OverTells
<1>2. CASE verdict = "running"
  <2>1. verdict' = "killed"
    BY <1>2 DEF Close, Kill
  <2> QED
    BY <2>1 DEF TellInv, RoleInv, KnownInv, CleanInv, Verdict, PassMeansAsked, FailuresHaveACause,
                RepairsAreNeeded
<1> QED
  BY <1>1, <1>2

LEMMA SurroundingsTell ==
  ASSUME TruthInv, verdict = "running", UNCHANGED <<session, run, faults, socketHost>>,
         right \subseteq right', wrong \subseteq wrong', moves' \in {moves, moves + 1},
         messages' = messages \/ moves' > 0
  PROVE  TellInv'
<1>1. RoleInv' /\ CleanInv' /\ verdict' = "running"
  BY DEF TruthInv, TellInv, RoleInv, CleanInv, session, run
<1>2. \A f : Learnt(f) => Learnt(f)'
  BY DEF Learnt, TruthInv, WorldType
<1>3. \A j : Unread(j) => Unread(j)'
  BY DEF Unread, run
<1>4. KnownInv'
  BY <1>2, <1>3 DEF TruthInv, TellInv, KnownInv, run
<1> QED
  BY <1>1, <1>4, OnTells

LEMMA RegrantTells ==
  ASSUME TruthInv, NEW f \in Facts, Regrant(f)
  PROVE  RightInv' /\ TellInv'
<1>1. RightInv'
  BY DEF RightInv, Regrant, RightOnes
<1>2. /\ verdict = "running" /\ UNCHANGED <<session, run, faults, socketHost, messages>>
      /\ right \subseteq right' /\ wrong \subseteq wrong' /\ moves' = moves + 1
  BY DEF Regrant
<1>3. TellInv'
  BY <1>2, SurroundingsTell
<1> QED
  BY <1>1, <1>3

LEMMA ScadaTells ==
  ASSUME TruthInv, ScadaCreatesMessages
  PROVE  RightInv' /\ TellInv'
<1>1. /\ verdict = "running" /\ UNCHANGED <<session, run, faults, socketHost, held>>
      /\ right' = right /\ wrong' = wrong /\ moves' = moves + 1 /\ moves \in Nat
  BY FactsAssumption DEF ScadaCreatesMessages, TruthInv, WorldType
<1>2. TellInv'
  BY <1>1, SurroundingsTell
<1>3. RightInv'
  BY <1>1 DEF TruthInv, RightInv
<1> QED
  BY <1>2, <1>3

LEMMA TruthStep == TruthInv /\ [Next]_vars => TruthInv'
<1> SUFFICES ASSUME TruthInv, [Next]_vars
             PROVE  RightInv' /\ TellInv'
  BY SafeStep, WorldStep DEF TruthInv
<1>1. CASE Step \/ Kill
  <2>1. RightInv'
    BY <1>1, StepIsIdle DEF Idle, world, TruthInv, RightInv
  <2>2. CASE Judged
    BY <2>1, <2>2, JudgedTells
  <2>3. CASE Close \/ Kill
    BY <2>1, <2>3, ClosingTells
  <2> QED
    BY <1>1, <2>1, <2>2, <2>3, ConnectTells, AssumeRoleTells, BeginTells, SavepointTells,
       LeaveTells, DiagnoseTells, MessagesTell, PlotLoginTells DEF Step, Judged
<1>2. CASE ScadaCreatesMessages \/ \E f \in Facts : Regrant(f)
  BY <1>2, ScadaTells, RegrantTells
<1>3. CASE UNCHANGED vars
  BY <1>3 DEF vars, world, session, run, history, TruthInv, RightInv, TellInv, RoleInv, KnownInv,
     Unread, Learnt, CleanInv, Verdict, PassMeansAsked, Vouched, FailuresHaveACause,
     RepairsAreNeeded
<1> QED
  BY <1>1, <1>2, <1>3 DEF Next

LEMMA InitWorld == Init => WorldType
BY FactsAssumption DEF Init, WorldType, RightOnes, Wanted, Unwanted

LEMMA TruthAlways == Spec => []TruthInv
<1>1. Init => TruthInv
  BY InitSafe, InitWorld, InitTells DEF TruthInv
<1> QED
  BY <1>1, TruthStep, PTL DEF Spec

-----------------------------------------------------------------------------
(* Theorems. *)

\* Every run of the check phase stays within its types.
THEOREM TypeCorrect == Spec => []TypeOK
<1>1. SafeInv /\ WorldType => TypeOK
  BY ScriptDomain DEF SafeInv, SessionType, RunType, WorldType, TypeOK
<1> QED
  BY <1>1, InitWorld, SafeAlways, WorldStep, PTL DEF Spec

\* Outside runAs a run that goes on is the superuser's own session, in no transaction,
\* whatever was refused, lost or revoked before: no question is asked as the wrong role.
THEOREM RoleStays == Spec => []RoleDoesNotLeak
<1>1. SafeInv => RoleDoesNotLeak
  BY DEF SafeInv
<1> QED
  BY <1>1, SafeAlways, PTL

\* Every write of the check happens inside a transaction that is rolled back: nothing
\* is committed, however the run ends.
THEOREM NothingIsLeft == Spec => []NothingSurvives
<1>1. SafeInv => NothingSurvives
  BY DEF SafeInv
<1> QED
  BY <1>1, SafeAlways, PTL

\* What a run that passes vouches for (runChecks) was so: each privilege was as it should
\* be at some moment of the run.
THEOREM PassIsDeserved == Spec => []PassMeansAsked
<1>1. TruthInv => PassMeansAsked
  BY DEF TruthInv, TellInv, Verdict
<1> QED
  BY <1>1, TruthAlways, PTL

\* A run that fails was told of a fault, or a privilege was wrong at some moment of it: no
\* probe makes a later one fail (assertRefused, plotWriteProbes).
THEOREM FailureIsExplained == Spec => []FailuresHaveACause
<1>1. TruthInv => FailuresHaveACause
  BY DEF TruthInv, TellInv, Verdict
<1> QED
  BY <1>1, TruthAlways, PTL

\* A REVOKE or a repair that a run orders names what was wrong, and so does a GRANT where no
\* fault was told, or the schema was shut (refusalVerdict, diagnoseFailedRead).
THEOREM RepairIsNeeded == Spec => []RepairsAreNeeded
<1>1. TruthInv => RepairsAreNeeded
  BY DEF TruthInv, TellInv, Verdict
<1> QED
  BY <1>1, TruthAlways, PTL
=============================================================================
