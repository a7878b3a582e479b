--------------------------- MODULE WorkerDelivery ---------------------------
(***************************************************************************)
(* A submitted run on its way through the broker and the Celery workers:   *)
(* app/api/task_submitter.py, app/worker and app/services/repo_prep.py.    *)
(* One delivery of the job prepares the two directories of the run,        *)
(* connects to the checkpoint store and runs the graph; the message is     *)
(* acknowledged when the job has returned or raised (task_acks_late).      *)
(* Redis delivers it again when the worker dies, and also when it stays    *)
(* unacknowledged for longer than the visibility timeout.  All workers     *)
(* share STACKMIGRATE_WORK_DIR, as in docker-compose.yml.                  *)
(***************************************************************************)
EXTENDS RunThread

CONSTANTS Worker,          \* pool processes that can run the job
          MaxDeaths,       \* bound on the workers that die
          MaxTimeouts,     \* bound on redeliveries by visibility timeout
          MayRaise         \* whether a job may raise or lose its pool process

ASSUME WorkerAssumption ==
  /\ Worker \subseteq Process
  /\ MaxDeaths \in Nat
  /\ MaxTimeouts \in Nat
  /\ MayRaise \in BOOLEAN

VARIABLES
  submitted,               \* the answer to POST /migrations
  queued,                  \* copies of the message waiting in the broker
  job,                     \* job[w]: where worker w is in _run_migration_async
  source, target,          \* the two directories of the run
  hasTargetRepo,           \* target_repo_url of the request
  deaths, timeouts,        \* faults so far
  starts, returned, failed \* history: calls of ainvoke, and how jobs ended

workerVars == <<submitted, queued, job, source, target, hasTargetRepo,
                deaths, timeouts, starts, returned, failed>>

JobStep == {"idle", "source", "cloning_source", "target", "cloning_target",
            "setup", "graph"}

Directory == {"absent", "partial", "complete"}

WorkerTypeOK ==
  /\ ThreadTypeOK
  /\ submitted \in {"no", "queued", "error"}
  /\ queued \in Nat
  /\ job \in [Worker -> JobStep]
  /\ source \in Directory /\ target \in Directory
  /\ hasTargetRepo \in BOOLEAN
  /\ deaths \in 0..MaxDeaths /\ timeouts \in 0..MaxTimeouts
  /\ starts \in Nat
  /\ returned \in BOOLEAN /\ failed \in BOOLEAN

-----------------------------------------------------------------------------

WorkerInit ==
  /\ checkpoint = NoCheckpoint
  /\ submitted = "no"
  /\ queued = 0
  /\ job = [w \in Worker |-> "idle"]
  /\ source = "absent" /\ target = "absent"
  /\ hasTargetRepo \in BOOLEAN
  /\ deaths = 0 /\ timeouts = 0
  /\ starts = 0
  /\ returned = FALSE /\ failed = FALSE

\* send_task; it may raise, whether or not the broker got the message.
Submit(accepted) ==
  /\ submitted = "no"
  /\ submitted' = IF accepted THEN "queued" ELSE "error"
  /\ queued' \in IF accepted THEN {1} ELSE {0, 1}
  /\ UNCHANGED <<threadVars, job, source, target, hasTargetRepo, deaths,
                 timeouts, starts, returned, failed>>

Receive(w) ==
  /\ job[w] = "idle"
  /\ queued > 0
  /\ queued' = queued - 1
  /\ job' = [job EXCEPT ![w] = "source"]
  /\ UNCHANGED <<threadVars, submitted, source, target, hasTargetRepo, deaths,
                 timeouts, starts, returned, failed>>

MoveTo(w, step) == job' = [job EXCEPT ![w] = step]

\* An exception leaves the job: Celery records it and acknowledges.
JobFails(w) ==
  /\ MoveTo(w, "idle")
  /\ failed' = TRUE

CloneInto_Overwrites(dir, dirNext, w, step, cloning) ==
  /\ job[w] = step
  /\ dirNext = "partial" /\ MoveTo(w, cloning) /\ UNCHANGED failed

\* git.Repo.clone_from refuses a directory that is not empty.
CloneInto(dir, dirNext, w, step, cloning) ==
  /\ job[w] = step
  /\ IF dir = "absent"
     THEN dirNext = "partial" /\ MoveTo(w, cloning) /\ UNCHANGED failed
     ELSE dirNext = dir /\ JobFails(w)

\* The clone ends, or raises (bad URL, no access) and git removes the directory.
CloneEnds(dirNext, w, cloning, step) ==
  /\ job[w] = cloning
  /\ \/ dirNext = "complete" /\ MoveTo(w, step) /\ UNCHANGED failed
     \/ MayRaise /\ dirNext = "absent" /\ JobFails(w)

PrepareSource(w) ==
  /\ \/ CloneInto(source, source', w, "source", "cloning_source")
     \/ CloneEnds(source', w, "cloning_source", "target")
  /\ UNCHANGED <<threadVars, submitted, queued, target, hasTargetRepo, deaths,
                 timeouts, starts, returned>>

\* Without a target repository the scaffold is written over whatever is there;
\* a stack without scaffold raises.
Scaffold(w) ==
  /\ job[w] = "target"
  /\ ~ hasTargetRepo
  /\ \/ target' = "complete" /\ MoveTo(w, "setup") /\ UNCHANGED failed
     \/ MayRaise /\ target' = "partial" /\ JobFails(w)

PrepareTarget(w) ==
  /\ \/ hasTargetRepo /\ CloneInto(target, target', w, "target", "cloning_target")
     \/ CloneEnds(target', w, "cloning_target", "setup")
     \/ Scaffold(w)
  /\ UNCHANGED <<threadVars, submitted, queued, source, hasTargetRepo, deaths,
                 timeouts, starts, returned>>

\* get_checkpointer, setup() and build_graph, then ainvoke(initial_state): from
\* the first node, also on a thread that has a checkpoint.
StartGraph(w) ==
  /\ job[w] = "setup"
  /\ Start(w)
  /\ MoveTo(w, "graph")
  /\ starts' = starts + 1
  /\ UNCHANGED <<submitted, queued, source, target, hasTargetRepo, deaths,
                 timeouts, returned, failed>>

\* An exception of Postgres or of a node, or the death of the pool process of
\* the job, which Celery turns into a failure (task_reject_on_worker_lost is
\* not set): acknowledged, with the directories and the checkpoint as they are.
JobAborts(w) ==
  /\ MayRaise
  /\ job[w] # "idle"
  /\ JobFails(w)
  /\ Drop({w})
  /\ UNCHANGED <<config, checkpoint, github, submitted, queued, source, target,
                 hasTargetRepo, deaths, timeouts, starts, returned>>

\* ainvoke has returned, at the end of the graph or at the approval gate.
Acknowledge(w) ==
  /\ job[w] = "graph"
  /\ Returns(w)
  /\ MoveTo(w, "idle")
  /\ returned' = TRUE
  /\ Drop({w})
  /\ UNCHANGED <<config, checkpoint, github, submitted, queued, source, target,
                 hasTargetRepo, deaths, timeouts, starts, failed>>

WorkerDies_AcksEarly(w) ==
  /\ job[w] # "idle"
  /\ deaths < MaxDeaths
  /\ deaths' = deaths + 1
  /\ MoveTo(w, "idle")
  /\ Drop({w})
  /\ UNCHANGED <<config, checkpoint, github, submitted, queued, source, target,
                 hasTargetRepo, timeouts, starts, returned, failed>>

\* The worker dies with the message unacknowledged: it is queued again.
WorkerDies(w) ==
  /\ job[w] # "idle"
  /\ deaths < MaxDeaths
  /\ deaths' = deaths + 1
  /\ queued' = queued + 1
  /\ MoveTo(w, "idle")
  /\ Drop({w})
  /\ UNCHANGED <<config, checkpoint, github, submitted, source, target,
                 hasTargetRepo, timeouts, starts, returned, failed>>

\* The job outlives the visibility timeout, an hour by default: a second copy
\* goes out while the first still runs.  By then it has begun to clone.
VisibilityTimeout(w) ==
  /\ job[w] \notin {"idle", "source"}
  /\ timeouts < MaxTimeouts
  /\ timeouts' = timeouts + 1
  /\ queued' = queued + 1
  /\ UNCHANGED <<threadVars, submitted, job, source, target, hasTargetRepo,
                 deaths, starts, returned, failed>>

\* What worker w does of its own accord.
JobStepOf(w) ==
  \/ Receive(w) \/ PrepareSource(w) \/ PrepareTarget(w)
  \/ StartGraph(w) \/ Acknowledge(w)
  \/ GraphStep(w) /\ UNCHANGED workerVars

WorkerNext ==
  \/ \E accepted \in BOOLEAN : Submit(accepted)
  \/ \E w \in Worker : \/ JobStepOf(w) \/ JobAborts(w) \/ WorkerDies(w)
                       \/ VisibilityTimeout(w)

-----------------------------------------------------------------------------
(* Properties.                                                             *)

Idle == queued = 0 /\ \A w \in Worker : job[w] = "idle"

\* celery_app.py:22-24: with task_acks_late the message outlives the worker: a
\* run that was accepted and that no one works on any more has come to a return
\* of its graph or to a recorded failure.
JobIsNotLost == submitted = "queued" /\ Idle => returned \/ failed

\* However often the job is delivered, also while an earlier delivery is still
\* at work, the graph of a run is started once: repo_prep.py:97 clones into the
\* directory of the run, which the first delivery has left.
GraphStartsOnce == starts <= 1

\* Once ainvoke has returned to some worker, the status endpoint reports a run
\* that waits, publishes or has ended, never again one that is unknown or under
\* way: no later delivery starts the thread from its first node.
ReturnedRunStays ==
  returned => checkpoint.next \in {"approval_gate", "pr_publish", "END"}

\* Every accepted job comes to rest: no delivery is repeated for ever.  It takes
\* for granted that a clone ends, which repo_prep.py does not bound.
JobSettles == submitted = "queued" ~> Idle
=============================================================================
