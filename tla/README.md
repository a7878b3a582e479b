# A TLA+ model of StackMigrate

StackMigrate moves a part of a code base from one stack to another (Spring Boot
to FastAPI today). A run reads the source repository with language models, plans
tasks, lets models write the target code in parallel, runs the tests in Docker,
retries what failed, and opens a pull request, after a reviewer's approval if
the request asks for it. This directory models what such a run does, checks it
with TLC on small instances and proves the main results with TLAPS for all
sizes.

Paths below are relative to `src/app/` unless they start with `src/`.

## The system

| Part | State it keeps | Operations | Talks to |
|---|---|---|---|
| HTTP API (`api/`, `main.py`) | a lock per run, in the process | submit, status, approve, reject | Celery (by task name), the checkpoint store, the graph (it resumes a paused run in its own process) |
| Worker (`worker/`, `services/repo_prep.py`) | the directories of the run | receive a job, clone, build the initial state, run the graph | Redis, git, the graph |
| Checkpoints (`db/checkpointer.py`) | the graph state after every node | save, load | Postgres |
| Graph (`graph/build.py`, `graph/routing.py`) | `GraphState` (`graph/state/`) | eleven nodes, five routers | everything below |
| Comprehension (`graph/nodes/comprehension.py`, `adapters/`) | - | one extraction call per file, unit ids, references between units | language model |
| Synthesis (`graph/nodes/synthesis.py`) | - | group units by target path into tasks with dependencies | - |
| Editor (`graph/nodes/editor.py`) | - | one call per ready task, all tasks of a wave in parallel | language model |
| Budget (`graph/state/budget.py`, `budget_reconcile.py`, `budget_abort.py`) | money, calls, start time | three ceilings, size of a wave, fold in the costs of a wave, abort | the routers |
| Effective diffs (`graph/diffs.py`) | - (pure) | which attempt's files count, which files are stale | sandbox, aggregate, publisher |
| Sandbox (`graph/nodes/sandbox_test.py`, `sandbox/`) | the target workspace | delete stale files, write diffs, install, test | file system, Docker |
| Error analysis (`graph/nodes/error_analysis.py`) | the retry round | blame, retry or escalate | language model |
| Aggregate, approval, publication (`graph/nodes/aggregate.py`, `approval.py`, `pr_publish.py`, `vcs/`) | the draft, the decision | draft, pause, decide, commit, branch, pull request | reviewer, GitHub |

The nodes interact only through `GraphState`. One router, `route_to_editors`,
stands behind synthesis, every wave and error analysis; dependency waves and
retries are the same loop. Only editor branches run in parallel, and they write
through reducers: tasks are merged by id, results and costs are appended.

What is hard about it:

* **The clock.** The wall-clock ceiling is read by the router, a second time in
  the same router call, and a third time by each branch. Each reading may be the
  first that sees it expired.
* **The attempts.** `editor_results` only grows. Sandbox, aggregate and publisher
  each derive from it, at different times, which files count, and a file of an
  old attempt may still be on disk.
* **The loop.** Failures of the model and failures of the tests go through
  different code, with two caps that count different things.
* **The budget.** Branches cannot update it; their costs go through a list and a
  consumed index. The size of a wave rests on a guess of what a call costs.
* **The edges.** A node signals with `phase`, the routers look at other fields
  (`full_suite_result`, `pr_draft`, ready tasks), and the two can disagree.
* **The outside.** A model may raise, or answer with something that does not
  parse; Docker may be away; GitHub may fail after it has created the branch.
* **Several processes.** A worker starts a run, the API finishes it, and they meet
  only in the checkpoint and on GitHub. Either may die on the way; the broker may
  deliver a job twice; there may be several API processes, each with its own
  lock; and LangGraph runs a node before the checkpoint of the last one is saved.
* **Names.** Ids of units and tasks are slugs of names a model has read somewhere,
  references between units are names too, and reducers keep one entry per id.

`PROJECT.json` lists these as hazards, each at its line with the properties that
would catch it.

What makes each part correct:

* routing: no work that could be done is passed over; dependencies come first; a
  run ends, and in a phase that says what happened;
* budget: every call is counted once; the ceilings hold up to a known slack;
* attempts and sandbox: what ships is what passed, file by file; no path leaves
  the workspace;
* retries: bounded per task and per run, and never undone;
* approval: a gated run publishes after a yes, and what the reviewer saw; a run
  touches GitHub at most once;
* planning: every extracted unit ends up in exactly one task, and a task waits for
  the tasks its units name;
* API and worker: one decision per run, and answers that say what happened; no
  accepted job is lost, started twice or published twice.

## The modules

| Module | Models |
|---|---|
| `Budget` | `BudgetState` as pure operators on a record |
| `EffectiveDiffs` | `graph/diffs.py` as closed forms on a list of attempts |
| `DiffsByDict` | the same file statement by statement, with Python's dicts: the reference for the closed forms |
| `MigrationGraph` | one run: all nodes, edges and routers, the workspace and GitHub; the properties |
| `RunContract` | abstract specification: what the rest of the system may rely on |
| `MigrationRun` | the refinement mapping from `MigrationGraph` to `RunContract` |
| `Planning` | from the source repository to the task list: file discovery, the extraction loop, ids and references, grouping into tasks, the reducer |
| `RunThread` | the LangGraph thread of one run as the processes see it: checkpoint, executions, gate and publisher |
| `ApprovalApi` | the status, approve and reject endpoints of one or more API processes, on top of `RunThread` |
| `WorkerDelivery` | submission, broker, workers and repository preparation, on top of `RunThread` |
| `Service` | `ApprovalApi` and `WorkerDelivery` composed over one thread, and the refinement mapping to `RunContract` |
| `MCMigrationGraph`, `MCClaims`, `MCPlanning`, `MCApprovalApi`, `MCService` | instances for TLC; statements of the documentation that the code does not keep |
| `InductionProofs` | what the proofs about loops need: induction over sets of naturals, and that a recursively defined function is what its equation says |
| `MigrationGraphProofs`, `PublicationProofs`, `BudgetProofs` | the theorems about the pipeline: types, scheduling and retries; what is tested, approved and published, and the contract; calls and costs |
| `DiffsProofs`, `PlanningProofs` | the theorems about the diffs and about planning |
| `ApprovalProofs`, `ServiceProofs` | the theorems about the API and about the composed service |

### State and actions of `MigrationGraph`

Variables have the names of the fields of `GraphState`. `next` is what LangGraph
calls the next node, plus `END` and `raised` (an exception left the graph, the
run has no further step). `sent` holds the editor branches of the current wave
that have not ended. `late` says whether the wall clock has passed its limit.
`workspace` is the set of files in `target_workspace_path`, `github` what the
run left on GitHub, and `billed` a history of the calls that returned and of what they cost. A call whose
answer has no parsed result returned too and was paid: `ComprehensionRaises`,
`EditorRaises` and `AnalysisRaises` bill it, and record it nowhere, because the
exception leaves the node before `budget_deltas` or `record_call` is reached. In
comprehension the cost of all extractions before it is lost with it.

A node is one action, or one per outcome; the action includes the router behind
the node:

| Node | Actions |
|---|---|
| `comprehension` | `ComprehensionSkipped`, `Comprehend`, `ComprehensionRaises` |
| `synthesis` | `Synthesis` |
| `editor` | `EditorSkips`, `EditorFails`, `EditorGenerates`, `EditorRaises`, per branch |
| `budget_reconcile` | `ReconcileDelta` per entry of the loop, `ReconcileDone` |
| `sandbox_test` | `SandboxSkipped`, `SandboxRefuses`, `SandboxRuns`, `SandboxRaises` |
| `error_analysis` | `NothingToAnalyse`, `AnalysisGivesUp`, `Analyse`, `AnalysisRaises` |
| `aggregate` | `Aggregate` |
| `request_approval`, `approval_gate` | `RequestApproval`, `ApprovalGate` (taken by `Review`) |
| `pr_publish` | `NotPublished`, `PrPublish` with `Publish` |
| `budget_abort` | `BudgetAbort` |
| (time) | `ClockExpires` |

What is abstracted:

* Money is counted in whole units. The source divides floats after adding an
  epsilon, so that the division behaves like the exact one.
* A task is its position in the task list; a plan is any graph of `Plans` on the
  tasks, also one with cycles, which arise from data models that refer to each
  other. `Planning` shows which plans comprehension and synthesis produce
  (`PlanIsAdmissible` is what `GraphAssumption` asks of a plan).
* A path is an atom. Two spellings of one file (`a` and `./a`) are not
  distinguished. Whether `_resolve_safe_path` and `publishable_path_problem`
  refuse a path is given by two sets.
* The content of a generated file is the position of the attempt that wrote it:
  two attempts never write the same content, so that "the same file" means "from
  the same attempt".
* FAILED, ERROR and TIMEOUT are one outcome: all readers compare with PASSED.
* A branch is one step at the moment of its budget check. It reads nothing that
  another branch writes, so a later end changes nothing that can be observed
  before the wave has ended. LangGraph applies the updates of a wave together;
  nothing reads them before `budget_reconcile`. If a branch raises, the model
  keeps what its siblings had finished, and the run has stopped; LangGraph may drop
  it, which is why nothing is claimed of how much a run that raised has lost.
* `ReconcileDelta` is one iteration of a loop that nothing else interleaves with,
  except time.
* In `AnalysisGivesUp` an exhausted budget and a failed call are one action: they
  do the same.
* An operating-system error while files are written ends the run as
  `SandboxRaises` does; that some files may then be missing is left out, as
  nothing reads the workspace of such a run.
* `error_log`, `test_results`, texts, prompts and timings are left out.

### State and actions of `Planning`

`files` are the discovered files still to be analysed, as positions in the walk of
the source tree (the loop takes the least), `pending` the raw units
with their ids (`pending_units`), `units` the `ComprehensionResult`, `plan` what
the reducer keeps of the tasks. The actions are the paths through the body of the
loop (`BudgetStops`, `ExtractFile`, `ExtractionFails`, `UnparsedAnswer`), then
`ResolveReferences` and `Synthesis`. The operators have the names of the Python
functions: `DiscoverFiles`, `AssignId`, `ReferencedNames`, `NameToId`,
`SuggestTargetPath`, `RunSynthesis`, `MergeTaskLists`.

A slug is the sequence of the words between its underscores: ids, paths and task
ids are put together from slugs, so that two of them are the same string exactly if
they are the same sequence. The slug of a name without letters or digits is one
empty word, which keeps `config::_2` (a second nameless unit) apart from
`config::2` (a unit named 2). A word is a numeral or some other text, so that the
suffixes `_assign_id` tries differ from each other. What `slugify` and `lower` do
to a name, and which names the regular expression for type names finds, is
tabulated by the instance. Of a payload the model keeps its class, its name and
the names it references; notes of the model on a file are left out.

### State and actions of `RunThread`, `ApprovalApi`, `WorkerDelivery`

`checkpoint` is what `aget_state` returns: the next node, the phase, the decision.
`exec[p]` is the call of `ainvoke` that process `p` is in, with its own copy of
the state. `FinishNode` moves the copy and `Save` writes it to the checkpoint,
separately: LangGraph saves behind the running node by default, so a crash may
lose the update of a node whose effects are already on GitHub. `Returns` needs
everything saved. Everything before the draft is the single node `work`;
`pr_publish` is split at the two calls that leave a trace, `PushBranch` and
`OpenPull`. The branch is named after the run, and GitHub refuses to create a
branch that exists.

| Code | Actions |
|---|---|
| `_decide` (`api/app.py`) | `Acquire` (the lock of the process), `Look` (read under the lock, 404, 409), `ResumeGraph`, the nodes, `Decided`; `ResumeRaises` for exceptions |
| `approve_migration`, `reject_migration` | `Ask`, again after any answer but a 200 |
| an API process dies | `ApiCrash`: its locks and executions are gone |
| `submit_migration`, `CeleryTaskSubmitter` | `Submit`; a failing `send_task` may have queued the job all the same |
| `run_migration` | `Receive`, `PrepareSource`, `PrepareTarget`, `StartGraph`, the nodes, `Acknowledge`; `JobAborts` for exceptions anywhere |
| `GitRepoPreparer` | `CloneInto`, `CloneEnds`, `Scaffold`; a directory is absent, partial or complete |
| `task_acks_late` | `WorkerDies` puts the message back; `VisibilityTimeout` delivers it again while the job runs |

Outside the repository, and modelled from how the code uses it: LangGraph's
checkpoints and `interrupt()`, Celery's acknowledgement, the visibility timeout of
the Redis transport (one hour; `max_wall_clock_seconds` is also an hour and does
not stop a running node, so a job can outlive it), git's refusal to clone into a
directory that is not empty, and that it removes what a failed clone has written.
A visibility timeout comes only after the job has begun to clone; that a worker
takes an hour to get there is left out.

A definition `Name_Variant` is a plausible mistake in `Name`. The specification
does not use it; replacing `Name` by it must break a property (`mutants` in
`PROJECT.json`).

## What TLC checks

| Run | Instance | Distinct states | Shows |
|---|---|---|---|
| `pipeline` | 3 tasks, chain and cycle, 3 paths, 1 retry, 3 rounds | 294,357 | `TypeOK`, `ShipsWhatWasTested`, `ShipsWhatWasApproved`, `NoReadyLeftBehind`, `RetryBounds`, `ForbiddenPathsStayOut`, `FinalPhaseIsTruthful`, `DependencyOrder`, `TerminalTasksStay` |
| `budget_limits` | 3 independent tasks, ceilings 9 and 5 calls, calls of 1 and 3, comprehension for 1, 5 or 8 | 249,034 | `CallsCounted`, `CostAccounted`, `CallCeiling`, `OvershootAtMostOneWave` |
| `liveness` | 2 tasks, `max_retry_rounds` 0, all calls cost 2, reserve 3, ceiling 11, `FairSpec` | 128,154 | `OvershootAtMostOneCall`, `Terminates`, `ImplementsContract` |
| `diffs` | 3 tasks, 2 paths, 4 attempts | 180,968 | `ClosedFormAgrees`, `EveryPathOnce` |
| `planning` | 6 files, 12 names, 4 scopes, calls of 0 to 2, 4 units of money | 3,846 | `TypeOK`, `UnitIdsAreUnique`, `EveryUnitIsPlannedOnce`, `PlanIsAdmissible`, `ExtractionOvershoot` |
| `decisions` | 3 requests, 1 API process, failures, `FairSpec` | 44,116 | `ApiTypeOK`, `DecidedOnce`, `AnswersAreTruthful`, `PublishedOnce`, `NothingUnapproved`, `EveryRequestIsAnswered` |
| `service` | 2 workers, 1 client, 1 API process, 2 deaths, 1 visibility timeout, exceptions, `FairService` | 125,928 | `WorkerTypeOK`, `JobIsNotLost`, `GraphStartsOnce`, `ReturnedRunStays`, `ServiceKeepsContract`, `JobSettles`, `ApprovedRunFinishes` |

Why these bounds are enough for the interesting cases:

* three tasks are the fewest with a chain and a task beside it, which gives waves
  of different width, a dependent blocked by an escalation while another task
  goes on, and a cycle beside a task that can run;
* three paths give a file two tasks write, a file one attempt writes and the
  next does not (and which the target repository already has), and a path that
  is refused;
* one retry and three rounds let either cap be the one that ends the loop; with
  `max_retry_rounds` 0 the default of 5 is in force and the per-task cap decides;
* in `budget_limits` the call ceiling is reached in the middle of a wave and the
  cost ceiling before and after it; comprehension that leaves 4 units of money makes
  a wave of calls dearer than their reserve pass the ceiling by a whole call, and one
  that leaves 1 would let a wave without a reserve pass it by much more;
* four attempts by three tasks include every order of first attempts and retries
  that decides who owns a path.

* the names of `planning` are chosen to collide: spellings with the same lower case
  and different slugs, different spellings with the same slug, a class named like a
  suffixed id, a unit without a name, one named like the suffix (`2`), one without a
  letter or digit (`$`), data models that refer to each other and to
  themselves; one file cannot be read, one lies in a skipped directory, and a
  controller named just `Controller` has an empty stem;
* three requests allow an approve, a reject and a repeated one to be in flight at
  once;
* two workers and up to four deliveries (two deaths and a timeout besides the
  first) let a late delivery meet a first one that is cloning, at work, at the
  gate, or done. One client is enough there: it asks again after every answer but
  a decision, and how several clients compete is the question of `decisions`.

No run uses symmetry: tasks are ordered by their place in the list, paths differ
in role, and the runs of the service check liveness.

The pipeline has no state from which a run cannot go on, except the two ways of
having stopped (`Finished`), and of three requests one can always be sent again,
so deadlock is checked. Only in `service` it is not: its one request may have been
accepted and its job be over.

`Replicas.cfg` checks `PublishedOnce` and `NothingUnapproved` with two API
processes (60,957 states, with symmetry). It is not among the runs because
`ApiPublishesOnce` and `GateFailsClosed` prove both for any number.

**Fairness.** `FairSpec` adds weak fairness of `GraphStep`, everything the
process that runs the graph does by itself. Calls of the language models time
out (120 and 180 seconds, two retries), containers are killed at their limits, and
GitHub's library has a timeout of its own, so a node always ends. Nothing is assumed about the reviewer or about the clock:
`Terminates` therefore says that a run stops *or* waits at the gate, and
`ImplementsContract` inherits exactly that. A crash of the process is not part
of this model.

In `ApprovalApi` a handler that can go on does (weak fairness of `Handle`): the
event loop runs every task, and that a call to Postgres or GitHub ends is assumed of
their libraries. `asyncio.Lock` is first come, first served, so a request that waits while
others come and go gets the lock (strong fairness of `Acquire`). `FairService`
adds that a worker goes on with its job and takes a queued message when idle. For
the clones this is an assumption the code does not guarantee:
`git.Repo.clone_from` (`services/repo_prep.py:97`) has no timeout and Celery sets no
time limit, so `JobSettles` holds of jobs whose clones end, well or not.
Clients, deaths, exceptions and timeouts of the broker are never required to
happen. `claim_resume` alone assumes more, in favour of the code: clients ask
again until their decision is accepted, and failures end.

### Where the code and its documentation disagree

Each of these runs checks one statement of the repository, and TLC finds a run
of the code that breaks it.

| Run | The statement | What happens |
|---|---|---|
| `claim_skipped` | `src/readme.md:90` | The clock expires between the router's check and the branch's. The branch skips its task, nothing else is ready, the tests pass without it, the branch is published. |
| `claim_final_phase` | `src/readme.md:145`, `189` | One entry of an analysis says retry, so the phase is `editing`; a second entry for the same task escalates it (or its dependency is escalated in the same answer), so nothing is ready and the run ends. |
| `claim_hard_stop` | `graph/nodes/sandbox_test.py:43` | In a second round a path is refused. The result of the first round is still there and is analysed; tasks are retried. |
| `claim_resume` | `db/checkpointer.py:17` | The API process dies in `pr_publish`. The checkpoint is past the gate, so every later decision gets a 409, and nothing else resumes a thread. |
| `claim_restart` | `worker/celery_app.py:22` | The redelivered job cannot clone into the directory the first delivery has left. It fails, and the run stays where it was. |

Smaller disagreements have a configuration of their own, which TLC answers with a
counterexample, and no entry among the runs:

| Configuration | The statement | What happens |
|---|---|---|
| `ClaimPartial.cfg` | `graph/nodes/budget_abort.py:8` | A task in a cycle, or behind an escalated one, never becomes ready. Without required approval the others are published. |
| `ClaimClock.cfg` | `src/readme.md:189` | The clock expires between the router's two readings: no branch is sent, and the run ends in `editing` with its tasks pending. |
| `ClaimFanout.cfg` | `graph/nodes/editor.py:70` | An answer without a parsed result raises after the try block and ends the run. |
| `ClaimWorkspace.cfg` | `graph/diffs.py:19` | A retry no longer writes a file that replaced one of the target repository. It is deleted from the workspace, yet the branch still has the original. |
| `ClaimOvershoot.cfg` | `graph/state/budget.py:72` | A first cheap call makes the next wave wide; its calls are dear. `liveness` checks the case in which the comment is right, `budget_limits` what holds in general. |
| `ClaimRejected.cfg` | `src/readme.md:194` | Two API processes resume one run. One publishes, the other records the rejection. |
| `ClaimExtraction.cfg` | `graph/nodes/comprehension.py:16` | The loop asks only whether money is left, not whether calls are. |
| `ClaimSharedNames.cfg` | `graph/nodes/comprehension.py:158` | Of several units with a name the first is taken, without a note. |
| `ClaimAnchors.cfg` | `adapters/springboot/source_adapter.py:65` | Terms are looked for in the whole path; `Java` matches every file. |

(`ClaimPartial` to `ClaimOvershoot` belong to `MCClaims`, `ClaimRejected` to
`MCApprovalApi`, the last three to `MCPlanning`. Several API replicas are a known
gap of `src/readme.md`.)

`claim_restart` and `GraphStartsOnce` are two sides of one line: the refused clone
is what loses the run after a restart, and also the only thing that keeps a second
delivery from starting the graph again on a thread that waits or is decided. The
mutant of `CloneInto` shows it: with a clone that overwrites, `GraphStartsOnce`,
`ReturnedRunStays` and `ServiceKeepsContract` all fail. Whoever makes preparation
repeatable has to make the start of the graph look at the checkpoint.

## What TLAPS proves

The theorems about the pipeline are about its `Spec`, for every number of tasks, all plans, paths,
costs and limits that satisfy `BudgetAssumption` (ceilings are naturals, the
default reserve is positive) and `GraphAssumption` (at least one task, no task
depends on itself or on a task outside the plan, as `run_synthesis` ensures;
the sets of paths and costs have their types). Cycles are allowed.

| Theorem | States |
|---|---|
| `TypeCorrect` | `[]TypeOK` |
| `NothingReadyIsLeftBehind` | `[]NoReadyLeftBehind` |
| `RetriesAreBounded` | `[]RetryBounds` |
| `DependenciesComeFirst` | `DependencyOrder` |
| `FinishedTasksStay` | `TerminalTasksStay` |
| `TestedIsShipped` | `[]ShipsWhatWasTested` |
| `ApprovedIsShipped` | `[]ShipsWhatWasApproved` |
| `ForbiddenPathsNeverOut` | `[]ForbiddenPathsStayOut` |
| `FinalPhaseTruth` | `[]FinalPhaseIsTruthful` |
| `EveryCallCounted` | `[]CallsCounted` |
| `CallsStayBelowCeiling` | `[]CallCeiling` |
| `EveryCostAccounted` | `[]CostAccounted` |
| `OneWaveOvershoot` | `[]OvershootAtMostOneWave`, if some call is the dearest and comprehension spends less than the ceiling and one such call |
| `OneCallOvershoot` | `[]OvershootAtMostOneCall`, if besides all calls cost the same, no more than the default reserve |
| `ContractIsKept` | `Contract!Safety`: the pipeline implements the safety part of `RunContract` |

The arguments:

* **Scheduling** (`SchedulingInv`). Every task of a running wave is ready
  (`WaveInv`): a branch only changes its own task, and never takes SUCCEEDED away
  from another. So when the router finds nothing ready, nothing is, and this
  stays so through test, analysis and publication, because judging tasks that had
  succeeded can make only those tasks ready. A run that has used its last round
  has stopped (`LastRoundInv`): in the last round every verdict escalates, so
  nothing becomes ready. Without `NoReadyLeftBehind` this would fail: a task left
  over could carry the run into one more round.
* **Publication** (`PublicationInv`). Every generated file in the workspace was
  written by some attempt in the list, so it is effective or stale; removing the
  stale and writing the effective ones leaves exactly the effective ones
  (`TestedIsEffective`). After a pass no task and no result changes, so the
  publisher computes the same set (`TestedInv`), and the draft lists its paths
  (`DraftInv`).
* **Phase** (`PhaseInv`). While a run is under way nothing is on GitHub, and
  ABORTED_BUDGET leads to `budget_abort` and nowhere else.
* **Calls** (`CallsInv`). Outside a wave all deltas are consumed, so the router's
  check sees the true count; a wave starts below the ceiling and has at most
  `NumTasks` branches (`WaveCalls`). A call whose answer raises is made and not
  counted (`CallsLost`). It is the last of its run, so no check comes after it, and
  it was made below the ceiling or as one of the wave; `CallCeiling` counts it.
* **Costs** (`CostStep`). `CostAccounted` compares what was billed with the budget and
  the sum of the deltas not consumed. `Totals` are the sums of all prefixes of
  `budget_deltas`, a recursive function: appending a delta leaves the sums before it
  alone (`TotalsAppend`), and consuming one moves it from the list to the budget. The
  two are equal until an exception ends the run; then the budget may lack what was
  paid for the answer that raised, and never holds more than was paid (`Paid`).
* **Overshoot** (`OvershootInv`). For each call of a wave at least `reserve` was
  there: the default, or the largest call seen, which is no less than the cheapest
  call. So what is spent plus a dearest call for each branch still out stays within
  the ceiling and `NumTasks` times the difference, unless the wave is a single call
  (`WaveCost`, from `RouterCost`). An answer that raises costs no more than was set aside
  for it (`OvershootRaises`). Comprehension happens once and before any other cost; its bound is the hypothesis of the theorems and what
  `ExtractionOvershootsByOneCall` says of its loop. `OneCallOvershoot` is the case in
  which the difference is 0; it is what the comment at `graph/state/budget.py:72`
  says of all runs.
* **Contract** (`RunInv`). The gate is reached only by gated runs, and a decision
  is recorded only on the way to publication or to the end (`GateInv`).

The inductive invariants were checked with TLC on the instances of `pipeline`
and `budget_limits` before they were proved.

The theorems about the diffs hold for all sets of tasks and paths and all lists of
attempts (`DictAssumption`: the bound on their length is a natural number).

| Theorem | States |
|---|---|
| `DictsAgree` | `[]ClosedFormAgrees`: the closed forms that `MigrationGraph` uses compute what the code's two loops over dicts compute |
| `PathsShippedOnce` | `[]EveryPathOnce` |

`LatestResultsByTask` lists the tasks in the order of their first attempt, each with
its last one (`ItemsAreLatest`, from the invariant of the loop that adds one result
at a time); the second loop gives a path to the last effective item that writes it.
Both invariants are proved by induction on the number of elements a loop has seen.

The theorems about planning hold for all source trees, names, conversions of names
and answers of the model that satisfy `PlanningAssumption`: the files of the tree
have different paths, `slugify` returns slugs, costs are naturals and there is at
least one, and the words of the code itself are possible words.

| Theorem | States |
|---|---|
| `PlanningTypes` | `[]TypeOK` |
| `UniqueUnitIds` | `[]UnitIdsAreUnique` |
| `UnitsPlannedOnce` | `[]EveryUnitIsPlannedOnce` |
| `AdmissiblePlans` | `[]PlanIsAdmissible` |
| `ExtractionOvershootsByOneCall` | `[]ExtractionOvershoot` |

The arguments:

* **Ids** (`AssignedIdIsNew`). The suffixed ids of one base are all different
  (`SuffixedIds`), and there are more of them than used ids, so one is free; the loop
  over the units of a file and the loop over the files keep the ids different
  (`AddUnitsKeepsIdsUnique`).
* **Tasks** (`TaskIdsTellPathsApart`). A task id is the slug of a path. Two different
  target paths have different ones: the directory is always two words, and what is
  left of a module's slug in a longer slug still tells it apart
  (`WordsTellSlugsApart`; only the empty slug leaves nothing). So the reducer keeps every task
  (`MergeKeepsATask`), and the task of a unit is the one of its path.
* **Dependencies** (`DependenciesOfAUnit`). Ids are unique, so a reference resolves to
  one unit, which is in one task; the plan's edges are these, without a task's own.

The theorems about the API and the service hold for every set of requests, API
processes and workers and any bounds on deaths and timeouts, from `ApiAssumption`,
`WorkerAssumption` and `ServiceAssumption` (requests and workers are processes, and
different ones; no request is called `Nobody`).

| Theorem | States | For |
|---|---|---|
| `ApiTypeCorrect` | `[]ApiTypeOK` | any API processes, with failures |
| `ApiPublishesOnce` | `[]PublishedOnce` | any API processes, with failures |
| `GateFailsClosed` | `[]NothingUnapproved` | any API processes, with failures |
| `OneDecision` | `[]DecidedOnce` | one API process, with failures |
| `TruthfulAnswers` | `[]AnswersAreTruthful` | one API process, with failures |
| `ServiceTypeCorrect` | `[]WorkerTypeOK` | any workers and API processes |
| `StartsOnce` | `[]GraphStartsOnce` | any workers and API processes |
| `NotLost` | `[]JobIsNotLost` | any workers and API processes |
| `ReturnedStays` | `[]ReturnedRunStays` | any workers and API processes |
| `ServicePublishesOnce` | `[]PublishedOnce` | any workers and API processes |
| `ServiceContract` | `ServiceKeepsContract` | any workers, one API process that stays up |

The arguments:

* **One pull request** (`PublishInv`). An execution whose `published` is "branch"
  has created the branch itself; there is at most one such execution, and none
  once the pull request is open, because the branch then exists. This needs no
  lock, so it holds for any number of processes.
* **The gate fails closed** (`UnapprovedInv`). Every execution past the gate, and
  every checkpoint past it, carries an "approved" that came from a request.
* **One decision** (`LockInv`, `Progress`, `DecisionInv`). With one process a
  request past `Acquire` holds the lock, so only one execution exists at a time
  and the checkpoint moves only on its behalf. Once a request was accepted the
  checkpoint is at END (`EndedAs`), and `Look` answers 409 to all others. A crash
  before that frees the lock, but leaves either the pause, which can be decided
  again, or a state that is no longer waiting.
* **One start** (`DeliveryInv`). The clone of the source is a lock of the run that
  is never released except by a failed clone, in which case the delivery that held
  it is over: at most one delivery is past it (`Past`).
* **Hand-over** (`HandoverInv`). A request executes only nodes after the gate
  (`Late`), and there is something to resume only when the worker's execution is
  at the gate or over; from then on only late nodes are written.
* **Contract** (`QuietInv`). While a worker executes, no decision exists
  (`Undecided`), and a run that waits is at its gate in the checkpoint and in every
  execution that could still save (`AtItsGate`). So each step of a process is a
  step of `RunContract` or changes none of its variables. The theorem excludes
  failures of the API process because of them the contract does not hold: an
  execution that dies between the gate and `Save` takes a decision back.

Every invariant and every action property of the passing runs has a theorem. Only
model-checked, because they are liveness under fairness, which is out of the prover's
reach: `Terminates`, the fairness of `ImplementsContract`, `EveryRequestIsAnswered`,
`JobSettles` and `ApprovedRunFinishes`.

**Induction.** The induction theorems of the library take a predicate as a parameter,
which the installed provers cannot instantiate. `InductionProofs` states what is
needed about sets instead: a set that contains 0 and with n also n + 1 contains all
naturals up to a bound (`SetInduction`, `UpToInduction`), a non-empty set of naturals
has a least element (`LeastNumber`), and the equation of a recursive function over
`0..n` has a solution, whose values stay in a set the step stays in (`Recursion`,
`RecursionStays`). A loop's invariant then is the set of the counts for which it holds.

## Not modelled

* Prompts, descriptions of units, the instructions of a task and the draft's texts:
  formatting without a reader in the program.
* The registries of adapters, `guess_unit_name` and `likely_kind`: constant tables,
  and values nothing reads.
* Logging and tracing (`core/observability.py`): `observed_node` returns what the
  node returns, and re-raises what it raises.
* Authentication and the validation of requests: a request that fails either
  changes nothing.
* Prices and tokens in `core/llm.py`: a call has some cost. Retries inside the
  model clients are part of one call.
* Two runs at once: they share no state. Directories, threads, branches and locks
  go by the run's id.
* LangGraph's recursion limit. `run_config` sets none, so the library raises after
  its default number of supersteps, which a plan of many waves can reach. It would
  end a run between two nodes, as a crash does; no safety property depends on it, and
  `Terminates` holds with it as without.
* The schema of the checkpoint tables and the serialisation of the state.

## Plan

Done, in this order: `Budget`, `EffectiveDiffs`, `MigrationGraph`, the MC modules,
`RunContract` and its refinement, the theorems about the pipeline; then
`RunThread`, `ApprovalApi`, `WorkerDelivery`, their composition `Service` with its
refinement of `RunContract`, `Planning`, and the theorems about API and service; then
costs and overshoot, the diffs, and planning.

Next:

1. Proofs: that `MigrationGraph` started from a plan of `Planning` keeps to
   `GraphAssumption`, as one theorem over both modules.
2. The contract of the service when the API process fails: which weaker contract
   holds, and its proof.
3. `MigrationGraph` in place of the node `work` of `RunThread`, to see which
   intermediate checkpoints a restarted worker would find if preparation were
   repeatable.
