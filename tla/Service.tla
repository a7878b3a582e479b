------------------------------ MODULE Service ------------------------------
(***************************************************************************)
(* The deployed system for one run: the workers that start it and the API  *)
(* processes that resume it, composed over the thread they share.  A       *)
(* worker and a request never talk to each other: each step of one leaves  *)
(* the other's own state alone.                                            *)
(***************************************************************************)
EXTENDS ApprovalApi, WorkerDelivery

\* Workers and requests are different processes.
ASSUME ServiceAssumption == Worker \cap Request = {}

serviceVars == <<threadVars, apiVars, workerVars>>

ServiceInit == ThreadInit /\ ApiInit /\ WorkerInit

ServiceNext ==
  \/ WorkerNext /\ UNCHANGED apiVars
  \/ ApiNext /\ UNCHANGED workerVars

ServiceSpec == ServiceInit /\ [][ServiceNext]_serviceVars

\* Celery hands a queued message to an idle worker, and a job or a handler that
\* can go on does.  The graph's own calls have timeouts.  That a git clone and a
\* call to Postgres or GitHub end, well or not, is assumed: the code sets no
\* timeout for them and Celery no time limit for a job.  Clients, deaths and
\* timeouts of the broker owe nothing.
FairService ==
  /\ ServiceSpec
  /\ \A w \in Worker : WF_serviceVars(JobStepOf(w) /\ UNCHANGED apiVars)
  /\ \A r \in Request : /\ SF_serviceVars(Acquire(r) /\ UNCHANGED workerVars)
                        /\ WF_serviceVars(Handle(r) /\ UNCHANGED workerVars)

-----------------------------------------------------------------------------
(* The service implements the contract of a run.  A decision counts from   *)
(* the moment the gate has taken it, saved or not.                         *)

decision ==
  IF \E p \in Process : exec[p].state.approval_status = "approved" THEN "approved"
  ELSE IF \E p \in Process : exec[p].state.approval_status = "rejected" THEN "rejected"
  ELSE checkpoint.approval_status

stage ==
  IF github.branch \/ checkpoint.next = "END" \/ decision = "rejected" THEN "ended"
  ELSE IF checkpoint.next = "approval_gate" /\ decision = "none" THEN "awaiting"
  ELSE "running"

Contract == INSTANCE RunContract WITH
              gated     <- NeedsHumanApproval,
              published <- github.branch

\* One API process and any number of workers: whatever the workers, the broker
\* and the reviewers do, and even if workers die and jobs are delivered twice,
\* an observer of the checkpoint and of GitHub sees pause, decision and
\* publication in the order of RunContract, each at most once.  A redelivered
\* job never takes back a decision or runs a decided run again.
ServiceKeepsContract == Contract!Safety

\* As long as the API process lives, a run that was approved comes to its end,
\* published or failed, whatever happens to the workers.
ApprovedRunFinishes == decision = "approved" ~> stage = "ended"
=============================================================================
