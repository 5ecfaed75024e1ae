--------------------------- MODULE RestartContract ---------------------------
(***************************************************************************)
(* What the config phase promises about the service it may restart, without *)
(* how it waits or what it polls (internal/provision/config.go and         *)
(* service_windows.go):                                                    *)
(*                                                                         *)
(*   - a refused run has changed no setting and sent the service nothing;  *)
(*   - no Stop before the settings are written, and one Stop at most;      *)
(*   - no Start while a postmaster of the data directory is alive;         *)
(*   - a run that has stopped the service never reports success, or        *)
(*     anything that reads as if the service were untouched, before it has *)
(*     sent the Start; a cancelled one says so only after the Start.       *)
(***************************************************************************)

VARIABLES
  phase,    \* how far the run has changed the machine
  verdict,  \* what the run says of itself at its end
  server    \* a postmaster of the service's data directory: alive or gone

Phases == {"checking", "changing", "down", "up"}

\* What a run may say once it has come as far as each phase.
MaySay ==
  [checking |-> {"refused", "failed"},
   changing |-> {"settled", "failed"},
   down     |-> {"leftStopped"},
   up       |-> {"startFailed", "interrupted", "restarted", "failed"}]

vars == <<phase, verdict, server>>

Init == phase = "checking" /\ verdict = "none" /\ server \in {"alive", "gone"}

Begin == phase' = "checking" /\ verdict' = "none" /\ server' = server

Moves(from, to) ==
  phase = from /\ verdict = "none" /\ phase' = to /\ verdict' = verdict

Write == Moves("checking", "changing") /\ server' = server
TakeDown == Moves("changing", "down") /\ server' = server
\* The postmaster may come up with the Start itself, or later (Environment).
BringUp == Moves("down", "up") /\ server = "gone" /\ server' \in {"alive", "gone"}

Conclude ==
  /\ verdict = "none"
  /\ verdict' \in MaySay[phase] \cup {"killed"}
  /\ UNCHANGED <<phase, server>>

\* Postmasters come and go; the operator, pg_ctl and crashes see to it.
Environment == server' \in {"alive", "gone"} /\ UNCHANGED <<phase, verdict>>

Next == Begin \/ Write \/ TakeDown \/ BringUp \/ Conclude \/ Environment

Spec == Init /\ [][Next]_vars
=============================================================================
