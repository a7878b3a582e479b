----------------------------- MODULE RunThread -----------------------------
(***************************************************************************)
(* The LangGraph thread of one run, seen from the processes that execute   *)
(* it: the Celery workers start it and the API resumes it, and they meet   *)
(* only in the checkpoint in Postgres and on GitHub.  MigrationGraph looks *)
(* inside the pipeline; here everything before the draft is one node,      *)
(* "work".                                                                 *)
(*                                                                         *)
(* An execution is one call of graph.ainvoke.  It has its own copy of the  *)
(* state.  LangGraph saves a checkpoint for every node but lets the next   *)
(* node start before the save is through, so the copy may be ahead of the  *)
(* checkpoint (`saved' is FALSE) until the call returns.                   *)
(***************************************************************************)
EXTENDS Integers, FiniteSets

CONSTANTS Process     \* the API requests and the workers: whoever calls ainvoke

VARIABLES
  config,             \* the two fields of the run configuration that route
  checkpoint,         \* the last saved state of the thread
  exec,               \* exec[p]: the execution of process p
  github              \* what pr_publish has left on GitHub

threadVars == <<config, checkpoint, exec, github>>

ThreadNode == {"none", "work", "approval_gate", "pr_publish", "END"}

Decision == {"none", "approved", "rejected"}

\* WORKING and STOPPED stand for the phases of a run before its draft and for
\* the final phases of a run that never has one.
Phase == {"NONE", "WORKING", "AGGREGATING", "AWAITING_APPROVAL", "PR_GENERATION",
          "DONE", "FAILED", "REJECTED", "STOPPED"}

\* What aget_state returns; next = "none" if the thread has no checkpoint.
Snapshot == [next : ThreadNode, approval_status : Decision, phase : Phase]

NoCheckpoint == [next |-> "none", approval_status |-> "none", phase |-> "NONE"]

\* resume is the value of Command(resume=...), "none" for a fresh start.
Execution == [on : BOOLEAN, state : Snapshot, resume : Decision,
              published : {"nothing", "branch"}, saved : BOOLEAN]

NoExecution == [on |-> FALSE, state |-> NoCheckpoint, resume |-> "none",
                published |-> "nothing", saved |-> TRUE]

Config == [github_target_repo : BOOLEAN,
           require_human_approval_before_pr : BOOLEAN]

ThreadTypeOK ==
  /\ config \in Config
  /\ checkpoint \in Snapshot
  /\ exec \in [Process -> Execution]
  /\ github \in [branch : BOOLEAN, pulls : Nat]

NeedsHumanApproval ==
  config.github_target_repo /\ config.require_human_approval_before_pr

-----------------------------------------------------------------------------
(* Executions.                                                             *)

ThreadInit ==
  /\ config \in Config
  /\ exec = [p \in Process |-> NoExecution]
  /\ github = [branch |-> FALSE, pulls |-> 0]

\* ainvoke(initial_state): a new run of the graph from its first node on the
\* same thread; what earlier runs wrote to the other fields stays.
Start(p) ==
  /\ ~ exec[p].on
  /\ exec' = [exec EXCEPT ![p] =
       [NoExecution EXCEPT !.on = TRUE, !.saved = FALSE,
          !.state = [checkpoint EXCEPT !.next = "work", !.phase = "WORKING"]]]
  /\ UNCHANGED <<config, checkpoint, github>>

\* ainvoke(Command(resume=...)): continue from the checkpoint of this moment.
Resume(p, decision) ==
  /\ ~ exec[p].on
  /\ exec' = [exec EXCEPT ![p] =
       [NoExecution EXCEPT !.on = TRUE, !.state = checkpoint, !.resume = decision]]
  /\ UNCHANGED <<config, checkpoint, github>>

\* A node of execution p has finished with the update (status, phase), and the
\* router of its edge has chosen the next node.
FinishNode(p, node, status, phase) ==
  exec' = [exec EXCEPT ![p] =
    [@ EXCEPT !.state = [next |-> node, approval_status |-> status, phase |-> phase],
              !.saved = FALSE]]

Running(p, node) == exec[p].on /\ exec[p].state.next = node

Save(p) ==
  /\ exec[p].on /\ ~ exec[p].saved
  /\ checkpoint' = exec[p].state
  /\ exec' = [exec EXCEPT ![p].saved = TRUE]
  /\ UNCHANGED <<config, github>>

Returns_OnlyAtTheEnd(p) ==
  exec[p].on /\ exec[p].saved /\ exec[p].state.next = "END"

\* ainvoke returns at the end, or at the interrupt() of a gate reached without
\* a resume value, when everything is saved.
Returns(p) ==
  /\ exec[p].on /\ exec[p].saved
  /\ \/ exec[p].state.next = "END"
     \/ exec[p].state.next = "approval_gate" /\ exec[p].resume = "none"

Drop(ps) == exec' = [p \in Process |-> IF p \in ps THEN NoExecution ELSE exec[p]]

-----------------------------------------------------------------------------
(* The nodes.                                                              *)

Work_UnknownEdge(p, drafted) ==
  /\ Running(p, "work")
  /\ FinishNode(p, IF drafted THEN "publish" ELSE "END",
                exec[p].state.approval_status, "AGGREGATING")
  /\ UNCHANGED <<config, checkpoint, github>>

\* Comprehension to aggregation: a draft, or a run that stops without one.
\* With a draft, route_after_aggregate and request_approval.
Work(p, drafted) ==
  /\ Running(p, "work")
  /\ LET status == exec[p].state.approval_status
     IN  IF ~ drafted THEN FinishNode(p, "END", status, "STOPPED")
         ELSE IF NeedsHumanApproval
              THEN FinishNode(p, "approval_gate", status, "AWAITING_APPROVAL")
              ELSE FinishNode(p, "pr_publish", status, "AGGREGATING")
  /\ UNCHANGED <<config, checkpoint, github>>

ApprovalGate_UnknownEdge(p) ==
  /\ Running(p, "approval_gate")
  /\ exec[p].resume # "none"
  /\ FinishNode(p, "publish", exec[p].resume, "PR_GENERATION")
  /\ UNCHANGED <<config, checkpoint, github>>

ApprovalGate_FailsOpen(p) ==
  /\ Running(p, "approval_gate")
  /\ exec[p].resume # "none"
  /\ FinishNode(p, "pr_publish", "approved", "PR_GENERATION")
  /\ UNCHANGED <<config, checkpoint, github>>

\* The gate is run again from its first line, and interrupt() returns the
\* resume value.
ApprovalGate(p) ==
  /\ Running(p, "approval_gate")
  /\ exec[p].resume # "none"
  /\ IF exec[p].resume = "approved"
     THEN FinishNode(p, "pr_publish", "approved", "PR_GENERATION")
     ELSE FinishNode(p, "END", "rejected", "REJECTED")
  /\ UNCHANGED <<config, checkpoint, github>>

MayPublish(p) ==
  /\ config.github_target_repo
  /\ NeedsHumanApproval => exec[p].state.approval_status = "approved"

\* The early returns of pr_publish: a dry run, and approval not recorded.
NotPublished(p) ==
  /\ Running(p, "pr_publish")
  /\ ~ MayPublish(p)
  /\ FinishNode(p, "END", exec[p].state.approval_status,
                IF config.github_target_repo THEN "FAILED" ELSE "DONE")
  /\ UNCHANGED <<config, checkpoint, github>>

PushBranch_Forced(p) ==
  /\ Running(p, "pr_publish")
  /\ MayPublish(p)
  /\ exec[p].published = "nothing"
  /\ github' = [github EXCEPT !.branch = TRUE]
  /\ exec' = [exec EXCEPT ![p].published = "branch"]
  /\ UNCHANGED <<config, checkpoint>>

\* create_git_ref: the branch is named after the run, and GitHub refuses to
\* create a ref that exists.
PushBranch(p) ==
  /\ Running(p, "pr_publish")
  /\ MayPublish(p)
  /\ exec[p].published = "nothing"
  /\ ~ github.branch
  /\ github' = [github EXCEPT !.branch = TRUE]
  /\ exec' = [exec EXCEPT ![p].published = "branch"]
  /\ UNCHANGED <<config, checkpoint>>

\* create_pull; if its answer is lost the pull request is open all the same.
OpenPull(p, acknowledged) ==
  /\ Running(p, "pr_publish")
  /\ exec[p].published = "branch"
  /\ github' = [github EXCEPT !.pulls = @ + 1]
  /\ FinishNode(p, "END", exec[p].state.approval_status,
                IF acknowledged THEN "DONE" ELSE "FAILED")
  /\ UNCHANGED <<config, checkpoint>>

\* Any exception of the publisher before the pull request is open.
PublishFails(p) ==
  /\ Running(p, "pr_publish")
  /\ MayPublish(p)
  /\ FinishNode(p, "END", exec[p].state.approval_status, "FAILED")
  /\ UNCHANGED <<config, checkpoint, github>>

GraphStep(p) ==
  \/ \E drafted \in BOOLEAN : Work(p, drafted)
  \/ ApprovalGate(p)
  \/ NotPublished(p)
  \/ PushBranch(p)
  \/ \E acknowledged \in BOOLEAN : OpenPull(p, acknowledged)
  \/ PublishFails(p)
  \/ Save(p)

-----------------------------------------------------------------------------
(* What every deployment of the processes must keep.                       *)

\* However many processes execute the thread, and whichever of them die, a run
\* opens at most one pull request: pr_publish goes on to create_pull only
\* after it created the branch of the run, which only one execution can.
PublishedOnce == github.pulls <= 1
=============================================================================
