----------------------------- MODULE MCService -----------------------------
(***************************************************************************)
(* Instances of Service and what the repository says of them.              *)
(***************************************************************************)
EXTENDS Service

\* celery_app.py:22-23: "a worker restart mid-run should not silently drop the
\* task", and db/checkpointer.py:17-19, after a worker crash "LangGraph replays
\* from the last checkpoint": an accepted run reaches its gate or its end.
RestartDoesNotDropTheRun ==
  submitted = "queued" ~> checkpoint.next \in {"approval_gate", "pr_publish", "END"}
=============================================================================
