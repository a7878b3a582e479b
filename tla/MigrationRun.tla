---------------------------- MODULE MigrationRun ----------------------------
(***************************************************************************)
(* The pipeline implements the contract of a run.                          *)
(***************************************************************************)
EXTENDS MigrationGraph

stage ==
  IF next \in Stopped THEN "ended"
  ELSE IF next = "approval_gate" THEN "awaiting" ELSE "running"

Contract == INSTANCE RunContract WITH
              gated     <- config.github_target_repo
                             /\ config.require_human_approval_before_pr,
              decision  <- approval_status,
              published <- github.branch

\* Whatever waves, retries, failures and aborts the pipeline goes through, an
\* observer of the run sees the behaviour RunContract describes: the order of
\* pause, decision and publication of build.py, approval.py and pr_publish.py,
\* and that a run which is not waiting for its reviewer stops or pauses.
ImplementsContract == Contract!Spec
=============================================================================
