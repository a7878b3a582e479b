--------------------------- MODULE MCApprovalApi ---------------------------
(***************************************************************************)
(* Instances of ApprovalApi and what the repository says of them.          *)
(***************************************************************************)
EXTENDS ApprovalApi, TLC

Interchangeable == Permutations(Request) \cup Permutations(Replica)

\* Reviewers who ask again until their decision is accepted, and from some
\* moment on no more failures.
InsistingSpec ==
  /\ FairSpec
  /\ \A r \in Request : WF_vars(Ask(r))
  /\ <>[][\E r \in Request : Ask(r) \/ Handle(r)]_vars

\* db/checkpointer.py:17-19: the checkpoint "lets us resume a run after an
\* interrupt() (human approval) or after a worker crash: reconnect with the
\* same thread_id and LangGraph replays from the last checkpoint".  A run that
\* was approved and whose process died in pr_publish must then get to its end
\* once a process is up again and asked to.
ApprovedRunEnds == checkpoint.next = "pr_publish" ~> checkpoint.next = "END"

\* readme.md:194: phase rejected means "A reviewer declined; terminal, nothing
\* published".
RejectedMeansUnpublished == checkpoint.phase = "REJECTED" => ~ github.branch
=============================================================================
