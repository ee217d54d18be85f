----------------------------- MODULE RecordsTorn -----------------------------
(* Records whose deploys may die between two of their writes. *)
EXTENDS Records

\* The lock of a process that died is taken as no one's, and what its deploy
\* had wiped and not yet written again is gone.
DeployDie ==
  /\ deploy.at \notin {"none", "planned"}
  /\ deploy' = NoDeploy
  /\ UNCHANGED <<ref, revision, commits, call, answer, applied, package, deploys>>

TornSpec == Init /\ [][Next \/ DeployDie]_vars

\* A deploy mints a record only where there was none: "none is silently reset"
\* (workspaceDeployWith).
NeverReminted ==
  [][deploy.action = "mint" /\ commits' # commits => applied = <<>>]_vars
=============================================================================
