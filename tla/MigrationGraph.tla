--------------------------- MODULE MigrationGraph ---------------------------
(***************************************************************************)
(* One migration run: the LangGraph pipeline that app/graph/build.py wires *)
(* from the nodes in app/graph/nodes and the routers in                    *)
(* app/graph/routing.py.                                                   *)
(*                                                                         *)
(* `next' is the node the graph runs next ("END" when it has stopped,      *)
(* "raised" when an exception left the graph).  Every node is one action   *)
(* or, where the node has several outcomes, one action per outcome; the    *)
(* action includes the router on the node's outgoing edge.  Only the       *)
(* editor node runs in parallel: `sent' is the set of branches of the      *)
(* current Send() wave that have not finished.  A branch touches its own   *)
(* task and the append-only lists and reads nothing another branch writes: *)
(* its check of the budget, its call and its updates are one step, taken   *)
(* at the moment of the check.  A branch that started before the clock ran *)
(* out and ends after it is the step taken before ClockExpires.            *)
(*                                                                         *)
(* Language models, Docker and GitHub are the environment: what they       *)
(* answer, and whether they answer, is a nondeterministic choice.          *)
(*                                                                         *)
(* A definition Name_Variant just before Name is a faulty variant of Name, *)
(* not used by the specification: the properties below must tell it from   *)
(* the real one.                                                           *)
(***************************************************************************)
EXTENDS Integers, Sequences, FiniteSets, Budget, EffectiveDiffs

CONSTANTS NumTasks,            \* tasks a plan may have, numbered in list order
          Plans,               \* the task graphs synthesis may produce
          MaxRetries,          \* MigrationTask.max_retries
          MaxRetryRounds,      \* max_retry_rounds of the request
          CallCosts,           \* possible costs of an editor or analysis call
          ExtractionCosts,     \* possible total costs of comprehension
          Path,                \* paths a generated file may have
          BasePaths,           \* files of the target repository before the run
          UnsafePaths,         \* paths _resolve_safe_path refuses
          UnpublishablePaths,  \* paths publishable_path_problem refuses
          Emits,               \* Emits[t]: file sets an editor may return for t
          ClockMayExpire       \* whether the wall clock can run out

Task == 1..NumTasks

\* A plan: the tasks of the list and, for each, depends_on_task_ids.  Nothing
\* in run_synthesis rules out a cycle.
PlanType == [tasks : SUBSET Task, deps : [Task -> SUBSET Task]]

NoPlan == [tasks |-> {}, deps |-> [t \in Task |-> {}]]

ASSUME GraphAssumption ==
  /\ NumTasks \in Nat \ {0}
  /\ Plans \subseteq PlanType
  /\ \A p \in Plans : /\ p.tasks # {}
                      /\ \A t \in Task : p.deps[t] \subseteq p.tasks \ {t}
  /\ MaxRetries \in Nat
  /\ MaxRetryRounds \in Nat
  /\ CallCosts \subseteq Nat
  /\ ExtractionCosts \subseteq Nat
  /\ BasePaths \subseteq Path
  /\ UnsafePaths \subseteq Path
  /\ UnpublishablePaths \subseteq Path
  /\ Emits \in [Task -> SUBSET SUBSET Path]
  /\ ClockMayExpire \in BOOLEAN

VARIABLES
  next,                    \* the node to run, or how the graph stopped
  sent,                    \* editor branches of the current wave still running
  phase, plan, tasks, editor_results,
  budget, budget_deltas, budget_deltas_consumed,
  full_suite_result, retry_round,
  pr_draft, aggregated_diff_paths, approval_status, pr_url,
  config,                  \* the two fields of the run configuration that route
  late,                    \* has the wall clock passed its limit?
  workspace,               \* files of target_workspace_path
  github,                  \* the branch and pull request of this run
  billed                   \* history: the calls that returned and their cost,
                           \* whether or not the node then raised; comprehension
                           \* as a whole is one call, as in the code

controlVars == <<next, sent>>
taskVars    == <<plan, tasks, editor_results>>
recordVars  == <<budget, budget_deltas, budget_deltas_consumed>>
budgetVars  == <<budget, budget_deltas, budget_deltas_consumed, billed>>
testVars    == <<full_suite_result, retry_round, workspace>>
outputVars  == <<pr_draft, aggregated_diff_paths, approval_status, pr_url,
                 github>>

vars == <<controlVars, phase, taskVars, budgetVars, testVars, outputVars,
          config, late>>

-----------------------------------------------------------------------------
(* The types of the state.                                                 *)

Node == {"comprehension", "synthesis", "editor", "budget_reconcile",
         "sandbox_test", "error_analysis", "aggregate", "request_approval",
         "approval_gate", "pr_publish", "budget_abort"}

Stopped == {"END", "raised"}

\* TaskStatus, without IN_PROGRESS and FAILED, which no code assigns.  ABSENT
\* marks a number that is not (yet) in the task list.
TaskStatus == {"ABSENT", "PENDING", "SUCCEEDED", "RETRYING", "SKIPPED",
               "NEEDS_HUMAN"}

\* MigrationPhase; "NONE" until the first node has set it.
MigrationPhase == {"NONE", "SYNTHESIS_PLANNING", "EDITING", "ERROR_ANALYSIS",
                   "AGGREGATING", "AWAITING_APPROVAL", "PR_GENERATION", "DONE",
                   "REJECTED", "FAILED", "ABORTED_BUDGET", "NEEDS_HUMAN"}

MigrationTask == [status : TaskStatus, retry_count : Nat]

EditorResult == [task : Task, files : SUBSET Path]

\* full_suite_result: absent, PASSED, or one of FAILED, ERROR and TIMEOUT,
\* which every reader treats alike.
TestOutcome == {"none", "passed", "failed"}

File == [path : Path, content : Nat]

Config == [github_target_repo : BOOLEAN,
           require_human_approval_before_pr : BOOLEAN]

-----------------------------------------------------------------------------
(* Helpers of the nodes and the routers.                                   *)

\* The reducer of `tasks': an update replaces the entries it names.
MergeTaskLists(existing, new) ==
  [t \in Task |-> IF t \in DOMAIN new THEN new[t] ELSE existing[t]]

Succeeded(ts) == {t \in Task : ts[t].status = "SUCCEEDED"}

GetReadyTasks_SettledIsEnough(ts, deps) ==
  {t \in Task : /\ ts[t].status \in {"PENDING", "RETRYING"}
                /\ \A u \in deps[t] : ts[u].status \notin {"PENDING", "RETRYING"}}

\* A dependency that is SKIPPED, NEEDS_HUMAN or part of a cycle never lets its
\* dependents become ready.
GetReadyTasks(ts, deps) ==
  {t \in Task : /\ ts[t].status \in {"PENDING", "RETRYING"}
                /\ deps[t] \subseteq Succeeded(ts)}

\* ready[:k], the first k tasks in list order.
FirstOf(ready, k) ==
  {t \in ready : Cardinality({u \in ready : u < t}) < k}

\* What the clock may say at a later reading within the same step.
Later(l) == IF ClockMayExpire THEN {l, TRUE} ELSE {l}

\* Where the router goes, with which tasks, and what the clock said last.
Route(node, wave, l) == [next |-> node, sent |-> wave, late |-> l]

RouteToEditors_TestsWhenBroke(ts, deps, b, l1, l2, noReadyTasks) ==
  LET ready == GetReadyTasks(ts, deps)
      wave  == FirstOf(ready, AffordableCalls(b, Cardinality(ready), l2))
  IN  Route(IF wave = {} THEN noReadyTasks ELSE "editor", wave, l2)

(***************************************************************************)
(* route_to_editors, the router behind synthesis, budget_reconcile and     *)
(* error_analysis.  It reads the clock twice: in its own is_exhausted()    *)
(* (l1) and again inside affordable_calls() (l2).  If the clock runs out   *)
(* between the two, affordable_calls returns 0, the list of Sends is empty *)
(* and LangGraph, with nothing scheduled, stops.                           *)
(***************************************************************************)
RouteToEditors(ts, deps, b, l1, l2, noReadyTasks) ==
  LET ready == GetReadyTasks(ts, deps)
      wave  == FirstOf(ready, AffordableCalls(b, Cardinality(ready), l2))
  IN  IF ready = {} THEN Route(noReadyTasks, {}, l2)
      ELSE IF IsExhausted(b, l1) THEN Route("budget_abort", {}, l2)
      ELSE Route(IF wave = {} THEN "END" ELSE "editor", wave, l2)

\* The routes the router may take if the clock says l when it starts.
Routes(ts, deps, b, l, noReadyTasks) ==
  UNION {{RouteToEditors(ts, deps, b, l1, l2, noReadyTasks) : l2 \in Later(l1)} :
         l1 \in Later(l)}

\* The router runs at the end of a node's step.
Dispatch(ts, b, noReadyTasks) ==
  \E r \in Routes(ts, plan.deps, b, late, noReadyTasks) :
    /\ next' = r.next
    /\ sent' = r.sent
    /\ late' = r.late

RouteAfterComprehension(ph) ==
  IF ph = "ABORTED_BUDGET" THEN "budget_abort" ELSE "synthesis"

RouteAfterSandbox(result) ==
  IF result = "passed" THEN "aggregate" ELSE "error_analysis"

NeedsHumanApproval_Inverted(c) ==
  c.github_target_repo /\ ~ c.require_human_approval_before_pr

NeedsHumanApproval(c) ==
  c.github_target_repo /\ c.require_human_approval_before_pr

RouteAfterAggregate(draft, c) ==
  IF ~ draft THEN "END"
  ELSE IF NeedsHumanApproval(c) THEN "request_approval" ELSE "pr_publish"

RouteAfterApproval_AnyDecision(status) ==
  IF status # "none" THEN "pr_publish" ELSE "END"

RouteAfterApproval(status) ==
  IF status = "approved" THEN "pr_publish" ELSE "END"

\* max_retry_rounds or DEFAULT_MAX_RETRY_ROUNDS: a request for 0 rounds gets 5.
RetryRoundCap == IF MaxRetryRounds = 0 THEN 5 ELSE MaxRetryRounds

\* The history of a call whose answer reached the node.
Bill(b, cost) == [calls |-> b.calls + 1, usd |-> b.usd + cost]

-----------------------------------------------------------------------------
(* The initial state of a run, as _run_migration_async builds it.          *)

Init ==
  /\ next = "comprehension"
  /\ sent = {}
  /\ phase = "NONE"
  /\ plan = NoPlan
  /\ tasks = [t \in Task |-> [status |-> "ABSENT", retry_count |-> 0]]
  /\ editor_results = <<>>
  /\ budget = NewBudget
  /\ budget_deltas = <<>>
  /\ budget_deltas_consumed = 0
  /\ full_suite_result = "none"
  /\ retry_round = 0
  /\ pr_draft = FALSE
  /\ aggregated_diff_paths = {}
  /\ approval_status = "none"
  /\ pr_url = FALSE
  /\ config \in Config
  /\ late = FALSE
  /\ workspace = {[path |-> p, content |-> BaseContent] : p \in BasePaths}
  /\ github = [branch |-> FALSE, pr |-> FALSE, files |-> {}]
  /\ billed = [calls |-> 0, usd |-> 0]

-----------------------------------------------------------------------------
(* comprehension and synthesis.                                            *)

ComprehensionSkipped ==
  /\ next = "comprehension"
  /\ IsExhausted(budget, late)
  /\ phase' = "ABORTED_BUDGET"
  /\ next' = RouteAfterComprehension(phase')
  /\ UNCHANGED <<sent, taskVars, budgetVars, testVars, outputVars, config, late>>

\* All extraction calls together are recorded as one call that does not count
\* towards the largest call.  The units found fix the plan synthesis makes;
\* NoPlan stands for zero units.
Comprehend(p, cost) ==
  /\ next = "comprehension"
  /\ ~ IsExhausted(budget, late)
  /\ plan' = p
  /\ budget' = RecordCall(budget, cost, FALSE)
  /\ billed' = Bill(billed, cost)
  /\ phase' = IF p.tasks = {} THEN "FAILED" ELSE "SYNTHESIS_PLANNING"
  /\ next' = RouteAfterComprehension(phase')
  /\ UNCHANGED <<sent, tasks, editor_results, budget_deltas,
                 budget_deltas_consumed, testVars, outputVars, config, late>>

\* The client returns an answer whose `parsed' is None: the node dereferences
\* it outside its try block.  `cost' is what the extraction calls up to that
\* answer cost; the node is left before record_call, so none of it is recorded.
ComprehensionRaises(cost) ==
  /\ next = "comprehension"
  /\ ~ IsExhausted(budget, late)
  /\ billed' = Bill(billed, cost)
  /\ next' = "raised"
  /\ UNCHANGED <<sent, phase, taskVars, recordVars, testVars, outputVars,
                 config, late>>

Synthesis ==
  /\ next = "synthesis"
  /\ phase' = IF plan.tasks = {} THEN "FAILED" ELSE "EDITING"
  /\ tasks' = MergeTaskLists(tasks,
                [t \in plan.tasks |-> [status |-> "PENDING", retry_count |-> 0]])
  /\ Dispatch(tasks', budget, "sandbox_test")
  /\ UNCHANGED <<plan, editor_results, budgetVars, testVars, outputVars, config>>

-----------------------------------------------------------------------------
(* editor: one branch per task of the wave, then budget_reconcile.         *)

\* Branch t ends; the static edge to budget_reconcile waits for all of them.
EndBranch(t) ==
  /\ sent' = sent \ {t}
  /\ next' = IF sent' = {} THEN "budget_reconcile" ELSE "editor"

\* The branch's own check of the budget it was sent, made when it starts.
EditorSkips(t) ==
  /\ next = "editor" /\ t \in sent
  /\ IsExhausted(budget, late)
  /\ tasks' = [tasks EXCEPT ![t].status = "SKIPPED"]
  /\ EndBranch(t)
  /\ UNCHANGED <<phase, plan, editor_results, budgetVars, testVars, outputVars,
                 config, late>>

\* generate() raises: one retry is used up, and no cost is recorded.
FailedAttempt_NotCounted(task) == [task EXCEPT !.status = "RETRYING"]

FailedAttempt(task) ==
  LET retry_count == task.retry_count + 1
  IN  [status |-> IF retry_count > MaxRetries THEN "NEEDS_HUMAN" ELSE "RETRYING",
       retry_count |-> retry_count]

EditorFails(t) ==
  /\ next = "editor" /\ t \in sent
  /\ ~ IsExhausted(budget, late)
  /\ tasks' = [tasks EXCEPT ![t] = FailedAttempt(tasks[t])]
  /\ EndBranch(t)
  /\ UNCHANGED <<phase, plan, editor_results, budgetVars, testVars, outputVars,
                 config, late>>

EditorGenerates(t, files, cost) ==
  /\ next = "editor" /\ t \in sent
  /\ ~ IsExhausted(budget, late)
  /\ tasks' = [tasks EXCEPT ![t].status = "SUCCEEDED"]
  /\ editor_results' = Append(editor_results, [task |-> t, files |-> files])
  /\ budget_deltas' = Append(budget_deltas, cost)
  /\ billed' = Bill(billed, cost)
  /\ EndBranch(t)
  /\ UNCHANGED <<phase, plan, budget, budget_deltas_consumed, testVars,
                 outputVars, config, late>>

\* An answer whose `parsed' is None: response.result.files is evaluated after
\* the try block, the exception leaves the node and cancels the wave.  The call
\* was paid, but the delta that carries its cost is never returned.
EditorRaises(t, cost) ==
  /\ next = "editor" /\ t \in sent
  /\ ~ IsExhausted(budget, late)
  /\ billed' = Bill(billed, cost)
  /\ next' = "raised"
  /\ sent' = {}
  /\ UNCHANGED <<phase, taskVars, recordVars, testVars, outputVars, config, late>>

\* One iteration of the node's loop over deltas[consumed:]; no other code runs
\* between two iterations.
ReconcileDelta ==
  /\ next = "budget_reconcile"
  /\ budget_deltas_consumed < Len(budget_deltas)
  /\ budget' = RecordCall(budget, budget_deltas[budget_deltas_consumed + 1], TRUE)
  /\ budget_deltas_consumed' = budget_deltas_consumed + 1
  /\ UNCHANGED <<controlVars, phase, taskVars, budget_deltas, billed, testVars,
                 outputVars, config, late>>

ReconcileDone_ForgetsIndex ==
  /\ next = "budget_reconcile"
  /\ budget_deltas_consumed = Len(budget_deltas)
  /\ budget_deltas_consumed' = 0
  /\ Dispatch(tasks, budget, "sandbox_test")
  /\ UNCHANGED <<phase, taskVars, budget, budget_deltas, billed, testVars,
                 outputVars, config>>

ReconcileDone ==
  /\ next = "budget_reconcile"
  /\ budget_deltas_consumed = Len(budget_deltas)
  /\ Dispatch(tasks, budget, "sandbox_test")
  /\ UNCHANGED <<phase, taskVars, budgetVars, testVars, outputVars, config>>

-----------------------------------------------------------------------------
(* sandbox_test.                                                           *)

Effective == EffectiveDiffs(editor_results, Succeeded(tasks))
Stale     == StalePaths(editor_results, Succeeded(tasks))

\* remove_paths and apply_diffs, when neither meets an unsafe path.
RemovePaths(ws, paths) == {f \in ws : f.path \notin paths}
ApplyDiffs(ws, diffs) == RemovePaths(ws, PathsOf(diffs)) \cup diffs

Tested(ws) == ApplyDiffs(RemovePaths(ws, Stale), Effective)

\* _resolve_safe_path raises for one of the paths it is asked about.
PathRefused_StaleOnly == Stale \cap UnsafePaths # {}

PathRefused == (Stale \cup PathsOf(Effective)) \cap UnsafePaths # {}

\* No effective diffs: nothing is run and full_suite_result keeps its value.
SandboxSkipped ==
  /\ next = "sandbox_test"
  /\ Effective = {}
  /\ phase' = "ERROR_ANALYSIS"
  /\ next' = RouteAfterSandbox(full_suite_result)
  /\ UNCHANGED <<sent, taskVars, budgetVars, testVars, outputVars, config, late>>

\* UnsafeDiffPathError.  remove_paths checks all its paths before it deletes;
\* apply_diffs checks all of its own before it writes, but after the deletion.
SandboxRefuses ==
  /\ next = "sandbox_test"
  /\ Effective # {}
  /\ PathRefused
  /\ workspace' = IF Stale \cap UnsafePaths # {}
                  THEN workspace ELSE RemovePaths(workspace, Stale)
  /\ phase' = "FAILED"
  /\ next' = RouteAfterSandbox(full_suite_result)
  /\ UNCHANGED <<sent, taskVars, budgetVars, full_suite_result, retry_round,
                 outputVars, config, late>>

\* How a container of the sandbox ends: its exit code, or the kill at its limit.
ContainerEnd == {"zero", "nonzero", "timeout"}

\* parse_test_output: of all exit codes only 0 is a pass.
ParseTestOutput(exit) == IF exit = "zero" THEN "passed" ELSE "failed"

SandboxOutcome_NotRun(install, test) ==
  IF install # "zero" THEN "not_run"
  ELSE IF test = "timeout" THEN "failed" ELSE ParseTestOutput(test)

\* The outcome of a full run: the test container starts only if the install
\* container exited with 0.
SandboxOutcome(install, test) ==
  IF install # "zero" \/ test = "timeout" THEN "failed" ELSE ParseTestOutput(test)

SandboxRuns(install, test) ==
  /\ next = "sandbox_test"
  /\ Effective # {}
  /\ ~ PathRefused
  /\ workspace' = Tested(workspace)
  /\ full_suite_result' = SandboxOutcome(install, test)
  /\ phase' = IF full_suite_result' = "passed"
               THEN "AGGREGATING" ELSE "ERROR_ANALYSIS"
  /\ next' = RouteAfterSandbox(full_suite_result')
  /\ UNCHANGED <<sent, taskVars, budgetVars, retry_round, outputVars, config,
                 late>>

\* Docker is unreachable or refuses the container: only a timeout is caught.
SandboxRaises ==
  /\ next = "sandbox_test"
  /\ Effective # {}
  /\ ~ PathRefused
  /\ workspace' = Tested(workspace)
  /\ next' = "raised"
  /\ UNCHANGED <<sent, phase, taskVars, budgetVars, full_suite_result,
                 retry_round, outputVars, config, late>>

-----------------------------------------------------------------------------
(* error_analysis.                                                         *)

Candidates_AnyStatus ==
  {t \in Task : \E k \in DOMAIN editor_results : editor_results[k].task = t}

\* The tasks whose code was in the failing test run.
Candidates ==
  {t \in Succeeded(tasks) :
     \E k \in DOMAIN editor_results : editor_results[k].task = t}

Escalated(ts) ==
  [t \in ts |-> [tasks[t] EXCEPT !.status = "NEEDS_HUMAN"]]

NothingToAnalyse ==
  /\ next = "error_analysis"
  /\ full_suite_result = "none" \/ Candidates = {}
  /\ phase' = "NEEDS_HUMAN"
  /\ retry_round' = retry_round + 1
  /\ Dispatch(tasks, budget, "END")
  /\ UNCHANGED <<taskVars, budgetVars, full_suite_result, workspace, outputVars,
                 config>>

\* The budget is exhausted, or analyze() raises: everything is escalated.
AnalysisGivesUp ==
  /\ next = "error_analysis"
  /\ full_suite_result # "none" /\ Candidates # {}
  /\ phase' = "NEEDS_HUMAN"
  /\ retry_round' = retry_round + 1
  /\ tasks' = MergeTaskLists(tasks, Escalated(Candidates))
  /\ Dispatch(tasks', budget, "END")
  /\ UNCHANGED <<plan, editor_results, budgetVars, full_suite_result, workspace,
                 outputVars, config>>

Judged_OneMoreRetry(task, isRetryable, round) ==
  LET retry_count == task.retry_count + 1
      escalate    == \/ round >= RetryRoundCap
                     \/ ~ isRetryable
                     \/ retry_count > MaxRetries + 1
  IN  [status |-> IF escalate THEN "NEEDS_HUMAN" ELSE "RETRYING",
       retry_count |-> retry_count]

\* The task one entry of the answer produces: retry or escalate.
Judged(task, isRetryable, round) ==
  LET retry_count == task.retry_count + 1
      escalate    == \/ round >= RetryRoundCap
                     \/ ~ isRetryable
                     \/ retry_count > MaxRetries
  IN  [status |-> IF escalate THEN "NEEDS_HUMAN" ELSE "RETRYING",
       retry_count |-> retry_count]

(***************************************************************************)
(* The answer is a list of entries (task, is_retryable); entries for other *)
(* tasks than the candidates are ignored.  `entries' is the set of those   *)
(* left.  A task may have several: each is judged from the same candidate, *)
(* and the reducer keeps the last one, verdict[t].  any_retrying looks at  *)
(* all of them.                                                            *)
(***************************************************************************)
Analyse(entries, verdict, cost) ==
  /\ next = "error_analysis"
  /\ full_suite_result # "none" /\ Candidates # {}
  /\ ~ IsExhausted(budget, late)
  /\ retry_round' = retry_round + 1
  /\ tasks' = MergeTaskLists(tasks,
                [t \in DOMAIN verdict |->
                   Judged(tasks[t], verdict[t], retry_round')])
  /\ phase' = IF \E e \in entries :
                   Judged(tasks[e[1]], e[2], retry_round').status = "RETRYING"
              THEN "EDITING" ELSE "NEEDS_HUMAN"
  /\ budget' = RecordCall(budget, cost, TRUE)
  /\ billed' = Bill(billed, cost)
  /\ Dispatch(tasks', budget', "END")
  /\ UNCHANGED <<plan, editor_results, budget_deltas, budget_deltas_consumed,
                 full_suite_result, workspace, outputVars, config>>

\* The verdicts a set of entries can end in.
Verdicts(entries) ==
  {v \in [{e[1] : e \in entries} -> BOOLEAN] :
     \A t \in DOMAIN v : <<t, v[t]>> \in entries}

\* An answer whose `parsed' is None, dereferenced after the try block and before
\* record_call: the call was paid and is not recorded.
AnalysisRaises(cost) ==
  /\ next = "error_analysis"
  /\ full_suite_result # "none" /\ Candidates # {}
  /\ ~ IsExhausted(budget, late)
  /\ billed' = Bill(billed, cost)
  /\ next' = "raised"
  /\ UNCHANGED <<sent, phase, taskVars, recordVars, testVars, outputVars,
                 config, late>>

-----------------------------------------------------------------------------
(* aggregate, approval, publication and abort.                             *)

\* publishable_path_problem finds nothing to object to.
Publishable(files) == PathsOf(files) \cap UnpublishablePaths = {}

Aggregate ==
  /\ next = "aggregate"
  /\ LET shippable == Effective # {} /\ Publishable(Effective)
     IN  /\ pr_draft' = (pr_draft \/ shippable)
         /\ aggregated_diff_paths' = IF shippable THEN PathsOf(Effective)
                                     ELSE aggregated_diff_paths
         /\ phase' = IF shippable THEN "AGGREGATING" ELSE "FAILED"
  /\ next' = RouteAfterAggregate(pr_draft', config)
  /\ UNCHANGED <<sent, taskVars, budgetVars, testVars, approval_status, pr_url,
                 github, config, late>>

RequestApproval ==
  /\ next = "request_approval"
  /\ phase' = "AWAITING_APPROVAL"
  /\ next' = "approval_gate"
  /\ UNCHANGED <<sent, taskVars, budgetVars, testVars, outputVars, config, late>>

\* The run is resumed with a decision; anything but approved = True rejects.
ApprovalGate(approved) ==
  /\ next = "approval_gate"
  /\ approval_status' = IF approved THEN "approved" ELSE "rejected"
  /\ phase' = IF approved THEN "PR_GENERATION" ELSE "REJECTED"
  /\ next' = RouteAfterApproval(approval_status')
  /\ UNCHANGED <<sent, taskVars, budgetVars, testVars, pr_draft,
                 aggregated_diff_paths, pr_url, github, config, late>>

\* The three early returns of pr_publish: no draft, no target repository (a
\* dry run), and approval required but not recorded.
MayPublish ==
  /\ pr_draft
  /\ config.github_target_repo
  /\ NeedsHumanApproval(config) => approval_status = "approved"

NotPublished ==
  /\ next = "pr_publish"
  /\ ~ MayPublish
  /\ phase' = IF ~ pr_draft THEN phase
              ELSE IF ~ config.github_target_repo THEN "DONE" ELSE "FAILED"
  /\ next' = "END"
  /\ UNCHANGED <<sent, taskVars, budgetVars, testVars, outputVars, config, late>>

(***************************************************************************)
(* GitHubPRPublisher.publish: check the paths, create the tree and commit, *)
(* the branch, the pull request.  `reached' is the last of the two steps   *)
(* that leave a trace and took effect.                                     *)
(***************************************************************************)
Publish(reached) ==
  /\ reached # "none" => Publishable(Effective) /\ ~ github.branch
  /\ github' = [branch |-> github.branch \/ reached # "none",
                pr     |-> github.pr \/ reached = "pull",
                files  |-> IF reached = "none" THEN github.files ELSE Effective]

\* An exception in any step of the publisher, or a lost answer, is caught by
\* publish_approved_pr and recorded as FAILED.
PrPublish(reached, acknowledged) ==
  /\ next = "pr_publish"
  /\ MayPublish
  /\ Publish(reached)
  /\ acknowledged => reached = "pull"
  /\ pr_url' = acknowledged
  /\ phase' = IF acknowledged THEN "DONE" ELSE "FAILED"
  /\ next' = "END"
  /\ UNCHANGED <<sent, taskVars, budgetVars, testVars, pr_draft,
                 aggregated_diff_paths, approval_status, config, late>>

\* _UNFINISHED
Unfinished_PendingOnly == {"PENDING"}

Unfinished == {"PENDING", "RETRYING"}

BudgetAbort ==
  /\ next = "budget_abort"
  /\ tasks' = [t \in Task |-> IF tasks[t].status \in Unfinished
                              THEN [tasks[t] EXCEPT !.status = "SKIPPED"]
                              ELSE tasks[t]]
  /\ phase' = "ABORTED_BUDGET"
  /\ next' = "END"
  /\ UNCHANGED <<sent, plan, editor_results, budgetVars, testVars, outputVars,
                 config, late>>

-----------------------------------------------------------------------------
(* The specification.                                                      *)

\* Time passes at any moment, also while a run waits for its reviewer.
ClockExpires ==
  /\ next \notin Stopped
  /\ ~ late
  /\ late' \in Later(late) \ {late}
  /\ UNCHANGED <<controlVars, phase, taskVars, budgetVars, testVars, outputVars,
                 config>>

Editor(t) ==
  \/ EditorSkips(t)
  \/ EditorFails(t)
  \/ \E files \in Emits[t], cost \in CallCosts : EditorGenerates(t, files, cost)
  \/ \E cost \in CallCosts : EditorRaises(t, cost)

\* What the process running the graph does by itself.
GraphStep ==
  \/ ComprehensionSkipped
  \/ \E p \in Plans \cup {NoPlan}, cost \in ExtractionCosts : Comprehend(p, cost)
  \/ \E cost \in ExtractionCosts : ComprehensionRaises(cost)
  \/ Synthesis
  \/ \E t \in Task : Editor(t)
  \/ ReconcileDelta
  \/ ReconcileDone
  \/ SandboxSkipped
  \/ SandboxRefuses
  \/ \E install, test \in ContainerEnd : SandboxRuns(install, test)
  \/ SandboxRaises
  \/ NothingToAnalyse
  \/ AnalysisGivesUp
  \/ \E entries \in SUBSET (Candidates \X BOOLEAN), cost \in CallCosts :
       \E verdict \in Verdicts(entries) : Analyse(entries, verdict, cost)
  \/ \E cost \in CallCosts : AnalysisRaises(cost)
  \/ Aggregate
  \/ RequestApproval
  \/ NotPublished
  \/ \E reached \in {"none", "branch", "pull"}, acknowledged \in BOOLEAN :
       PrPublish(reached, acknowledged)
  \/ BudgetAbort

\* A reviewer decides, through the API.
Review == \E approved \in BOOLEAN : ApprovalGate(approved)

\* A run that has stopped stays stopped.
Finished == next \in Stopped /\ UNCHANGED vars

Next == GraphStep \/ Review \/ ClockExpires \/ Finished

Spec == Init /\ [][Next]_vars

\* The calls of the language models have a timeout (120 or 180 seconds), and the
\* sandbox kills a container at its limit; that GitHub answers or fails is left
\* to the default of its library.  So a step the graph can take is taken.
\* Neither the clock nor the reviewer is obliged to move.
FairSpec == Spec /\ WF_vars(GraphStep)

-----------------------------------------------------------------------------
(* Safety.                                                                 *)

\* Every variable has its type.
TypeOK ==
  /\ next \in Node \cup Stopped
  /\ sent \in SUBSET Task
  /\ phase \in MigrationPhase
  /\ plan \in PlanType
  /\ tasks \in [Task -> MigrationTask]
  /\ editor_results \in Seq(EditorResult)
  /\ budget \in BudgetState
  /\ budget_deltas \in Seq(Nat)
  /\ budget_deltas_consumed \in 0..Len(budget_deltas)
  /\ full_suite_result \in TestOutcome
  /\ retry_round \in Nat
  /\ pr_draft \in BOOLEAN
  /\ aggregated_diff_paths \in SUBSET Path
  /\ approval_status \in {"none", "approved", "rejected"}
  /\ pr_url \in BOOLEAN
  /\ config \in Config
  /\ late \in BOOLEAN
  /\ workspace \in SUBSET File
  /\ github \in [branch : BOOLEAN, pr : BOOLEAN, files : SUBSET File]
  /\ billed \in [calls : Nat, usd : Nat]

Generated(files) == {f \in files : f.content # BaseContent}

\* What reaches GitHub is, file for file and attempt for attempt, the generated
\* code that the passing sandbox run had in its workspace: nothing else was
\* there, nothing of it is missing (graph/diffs.py, sandbox_test, pr_publish).
ShipsWhatWasTested ==
  github.branch => /\ full_suite_result = "passed"
                   /\ github.files = Generated(workspace)

\* When approval is required, a branch exists on GitHub only after a reviewer
\* said yes, and it holds exactly the paths the reviewer was shown
\* (approval_gate, needs_human_approval, publish_approved_pr).
ShipsWhatWasApproved ==
  github.branch =>
    /\ config.require_human_approval_before_pr => approval_status = "approved"
    /\ PathsOf(github.files) = aggregated_diff_paths

\* From the sandbox to the pull request no task is waiting that an editor could
\* still do: the run never tests or publishes past work it could dispatch
\* (route_to_editors, including its budget exit).
NoReadyLeftBehind ==
  next \in {"sandbox_test", "error_analysis", "aggregate", "request_approval",
            "approval_gate", "pr_publish"}
    => GetReadyTasks(tasks, plan.deps) = {}

\* The two bounds of the retry loop hold together: no task that can still run
\* or ship has been attempted more than max_retries + 1 times, one more failure
\* escalates it, and no run analyses more failures than its round cap
\* (editor failure path, error_analysis).
RetryBounds ==
  /\ retry_round <= RetryRoundCap
  /\ \A t \in Task :
       /\ tasks[t].retry_count <= MaxRetries + 1
       /\ tasks[t].retry_count > MaxRetries => tasks[t].status = "NEEDS_HUMAN"

\* Every call that returned is in the budget exactly once or still waits in
\* budget_deltas, across waves and retries, unless an exception ended the run:
\* the answer a node raised on was paid and is counted nowhere, but even then
\* no call is counted that was not made (editor, budget_reconcile,
\* error_analysis, comprehension).
CallsCounted ==
  LET counted == budget.llm_calls_made
                   + (Len(budget_deltas) - budget_deltas_consumed)
  IN  /\ counted <= billed.calls
      /\ next # "raised" => counted = billed.calls

\* Totals(costs)[n] is what the first n entries of a list of costs add up to.
Totals(costs) ==
  LET total[n \in 0..Len(costs)] == IF n = 0 THEN 0 ELSE total[n - 1] + costs[n]
  IN  total

\* What the budget has recorded, and what the wave's branches have put into
\* budget_deltas and budget_reconcile has not consumed yet.
AccountedUsd ==
  budget.spent_usd + (Totals(budget_deltas)[Len(budget_deltas)]
                        - Totals(budget_deltas)[budget_deltas_consumed])

\* To the unit, what the returned calls cost is in the accounts, unless an
\* exception ended the run: what its last answer cost is then missing from the
\* budget, which never holds more than was paid (editor, budget_reconcile,
\* record_call, comprehension).
CostAccounted ==
  /\ AccountedUsd <= billed.usd
  /\ next # "raised" => AccountedUsd = billed.usd

\* The call ceiling is checked between waves, not within one: a run can pass
\* it by all but one of the calls of its last wave, and by no more.
CallCeiling == billed.calls < MaxLlmCalls + NumTasks \/ billed.calls = 0

\* A run spends past its cost ceiling by less than one call
\* (affordable_calls).  It holds when every call costs the same and no more
\* than the default reserve; see the README for what happens otherwise.
OvershootAtMostOneCall == \E cost \in CallCosts : billed.usd < MaxUsd + cost

\* Whatever calls cost, a run spends past its cost ceiling by less than one
\* call, or by what the calls of one wave cost more than was set aside for
\* them: the default reserve, or the cheapest call that was ever the largest
\* one seen (affordable_calls, route_to_editors).
OvershootAtMostOneWave ==
  \E dear \in CallCosts, reserve \in (CallCosts \ {0}) \cup {DefaultReserve} :
    \/ billed.usd < MaxUsd + dear
    \/ billed.usd <= MaxUsd + NumTasks * (dear - reserve)

\* No path outside the workspace is ever written, and none that must not be
\* published reaches GitHub, whatever mix of attempts is in the list
\* (apply_diffs, aggregate, publish).
ForbiddenPathsStayOut ==
  /\ PathsOf(Generated(workspace)) \cap UnsafePaths = {}
  /\ PathsOf(github.files) \cap UnpublishablePaths = {}

\* What the status endpoint reports at the end is what happened: DONE means
\* that the pull request exists unless the run was a dry run, REJECTED and
\* ABORTED_BUDGET that nothing was published, and an aborted run leaves no task
\* that still looks unfinished (pr_publish, approval_gate, budget_abort).
FinalPhaseIsTruthful ==
  next = "END" =>
    /\ phase = "DONE" => (github.pr <=> config.github_target_repo)
    /\ phase \in {"REJECTED", "ABORTED_BUDGET", "NEEDS_HUMAN"} => ~ github.branch
    /\ phase = "ABORTED_BUDGET" =>
         \A t \in Task : tasks[t].status \notin {"PENDING", "RETRYING"}
    /\ pr_url => github.pr

\* Code for a task is generated only while all its dependencies have succeeded,
\* in the first waves and in every retry (get_ready_tasks, the Send fanout).
DependencyOrder ==
  [][editor_results' # editor_results =>
       LET task == editor_results'[Len(editor_results')].task
       IN  plan.deps[task] \subseteq Succeeded(tasks)]_vars

\* An escalated or skipped task is never touched again, and no step gives a
\* task back a retry it has used (error_analysis, get_ready_tasks).
TerminalTasksStay ==
  [][\A t \in Task :
       /\ tasks[t].status \in {"NEEDS_HUMAN", "SKIPPED"} => tasks'[t] = tasks[t]
       /\ tasks'[t].retry_count >= tasks[t].retry_count]_vars

-----------------------------------------------------------------------------
(* Liveness.                                                               *)

\* Every run stops or reaches its reviewer: waves, generation failures and
\* retry rounds cannot go on for ever (error_analysis, lines 12 to 25).
Terminates == <>(next \in Stopped \cup {"approval_gate"})
=============================================================================
