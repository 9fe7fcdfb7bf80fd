-------------------------- MODULE ProcessLifecycle --------------------------
(***************************************************************************)
(* What a multi-stage process promises to the rest of the application: it  *)
(* is started once, is listed and authorized while it runs (neither when   *)
(* the authorization is refused), gives its authorization back before it   *)
(* reports a result, and reports exactly one result.                       *)
(***************************************************************************)
CONSTANT Authorized  \* whether the process was started with an AuthorizationKeeper

VARIABLES
  phase,       \* "setup", "running", "succeeded" or "failed"
  authorized,  \* the process retains its AuthorizationKeeper
  listed,      \* the process is in MultiStageProcess.started_processes
  held         \* from outside: a call the process canceled has no answer

vars == <<phase, authorized, listed>>

Init == phase = "setup" /\ ~authorized /\ ~listed

Start ==
  /\ phase = "setup"
  /\ phase' = "running"
  /\ \/ authorized' = Authorized /\ listed' = TRUE
     \/ Authorized /\ UNCHANGED <<authorized, listed>>

GiveBackAuthorization ==
  /\ phase = "running" /\ authorized
  /\ authorized' = FALSE
  /\ UNCHANGED <<phase, listed>>

Finish ==
  /\ phase = "running" /\ ~authorized
  /\ phase' \in {"succeeded", "failed"}
  /\ listed' = FALSE
  /\ UNCHANGED authorized

Next == Start \/ GiveBackAuthorization \/ Finish

\* A started process ends unless a canceled call holds it forever; nothing
\* makes anybody start it.
Ending == ~held /\ (GiveBackAuthorization \/ Finish)
Spec == Init /\ [][Next]_vars /\ WF_vars(Ending)
=============================================================================
