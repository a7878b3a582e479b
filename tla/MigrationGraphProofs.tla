------------------------ MODULE MigrationGraphProofs ------------------------
(***************************************************************************)
(* Theorems about MigrationGraph, for every value of its constants: the    *)
(* types of its state, then which tasks run, in which order and how often  *)
(* (route_to_editors, the Send waves and the retry loop).                  *)
(***************************************************************************)
EXTENDS MigrationGraph, FiniteSetTheorems, TLAPS

-----------------------------------------------------------------------------
(* Lemmas about the operators.                                             *)

\* Every effective diff is a file whose content is a generated one and whose
\* path some attempt wrote (effective_diffs).
LEMMA EffectiveDiffsType ==
  ASSUME NEW results \in Seq(EditorResult), NEW succeeded
  PROVE  /\ EffectiveDiffs(results, succeeded) \subseteq Generated(File)
         /\ PathsOf(EffectiveDiffs(results, succeeded)) \subseteq EverWritten(results)
         /\ EverWritten(results) \subseteq Path
<1>1. ASSUME NEW k \in DOMAIN results
      PROVE  k \in Nat /\ k # 0 /\ results[k].files \subseteq Path
  <2>1. k \in 1..Len(results)
    OBVIOUS
  <2>2. results[k] \in EditorResult
    BY <2>1
  <2> QED BY <2>1, <2>2 DEF EditorResult
<1>2. ASSUME NEW d \in EffectiveDiffs(results, succeeded)
      PROVE  \E k \in DOMAIN results :
               d.path \in results[k].files /\ d = [path |-> d.path, content |-> k]
  BY <1>2 DEF EffectiveDiffs, EffectiveResults
<1>3. EffectiveDiffs(results, succeeded) \subseteq Generated(File)
  BY <1>1, <1>2 DEF Generated, File, BaseContent
<1>4. PathsOf(EffectiveDiffs(results, succeeded)) \subseteq EverWritten(results)
  BY <1>2 DEF PathsOf, EverWritten
<1>5. EverWritten(results) \subseteq Path
  BY <1>1 DEF EverWritten
<1> QED BY <1>3, <1>4, <1>5

\* The wave is a part of the ready tasks (the slice in route_to_editors).
LEMMA WaveIsReady ==
  ASSUME NEW ready, NEW k
  PROVE  FirstOf(ready, k) \subseteq ready
BY DEF FirstOf

\* Each route is the answer of route_to_editors for some reading of the clock.
LEMMA RouteForm ==
  ASSUME NEW ts, NEW deps, NEW b, NEW l, NEW nr,
         NEW r \in Routes(ts, deps, b, l, nr)
  PROVE  \E l1 \in Later(l) : \E l2 \in Later(l1) :
           r = RouteToEditors(ts, deps, b, l1, l2, nr)
BY DEF Routes

\* Whatever it decides, the router sends a part of the ready tasks, and goes to
\* its no-ready target only if there are none.
LEMMA RouterOutcome ==
  ASSUME NEW ts, NEW deps, NEW b, NEW l, NEW nr,
         NEW r \in Routes(ts, deps, b, l, nr)
  PROVE  /\ r.sent \subseteq GetReadyTasks(ts, deps)
         /\ \/ r.next = nr /\ r.sent = {} /\ GetReadyTasks(ts, deps) = {}
            \/ r.next \in {"budget_abort", "END"} /\ r.sent = {}
            \/ r.next = "editor"
<1>1. PICK l1 \in Later(l) : \E l2 \in Later(l1) :
        r = RouteToEditors(ts, deps, b, l1, l2, nr)
  BY RouteForm
<1>2. PICK l2 \in Later(l1) : r = RouteToEditors(ts, deps, b, l1, l2, nr)
  BY <1>1
<1> QED BY <1>2, WaveIsReady DEF RouteToEditors, Route

\* The clock only moves forward while the router runs.
LEMMA RouterClock ==
  ASSUME NEW ts, NEW deps, NEW b, NEW l, NEW nr,
         NEW r \in Routes(ts, deps, b, l, nr)
  PROVE  r.late = l \/ r.late = TRUE
<1>1. PICK l1 \in Later(l) : \E l2 \in Later(l1) :
        r = RouteToEditors(ts, deps, b, l1, l2, nr)
  BY RouteForm
<1>2. PICK l2 \in Later(l1) : r = RouteToEditors(ts, deps, b, l1, l2, nr)
  BY <1>1
<1>3. l2 = l \/ l2 = TRUE
  BY <1>1, <1>2 DEF Later
<1> QED BY <1>2, <1>3 DEF RouteToEditors, Route

\* Tasks are sent only while the call ceiling has not been reached.
LEMMA RouterBudget ==
  ASSUME NEW ts, NEW deps, NEW b, NEW l, NEW nr,
         NEW r \in Routes(ts, deps, b, l, nr), r.sent # {}
  PROVE  ~ (b.llm_calls_made >= MaxLlmCalls)
<1>1. PICK l1 \in Later(l) : \E l2 \in Later(l1) :
        r = RouteToEditors(ts, deps, b, l1, l2, nr)
  BY RouteForm
<1>2. PICK l2 \in Later(l1) : r = RouteToEditors(ts, deps, b, l1, l2, nr)
  BY <1>1
<1>3. ~ IsExhausted(b, l1)
  BY <1>2 DEF RouteToEditors, Route
<1> QED BY <1>3 DEF IsExhausted

\* The operators of the budget stay within its type.
LEMMA RecordCallType ==
  ASSUME NEW b \in BudgetState, NEW cost \in Nat, NEW track
  PROVE  /\ RecordCall(b, cost, track) \in BudgetState
         /\ RecordCall(b, cost, track).llm_calls_made = b.llm_calls_made + 1
BY DEF RecordCall, BudgetState, Larger

\* Merging well-typed updates into a well-typed list (_merge_task_lists).
LEMMA MergeType ==
  ASSUME NEW old \in [Task -> MigrationTask], NEW S \in SUBSET Task,
         NEW new \in [S -> MigrationTask]
  PROVE  MergeTaskLists(old, new) \in [Task -> MigrationTask]
BY DEF MergeTaskLists

\* Changing the status of one task, or of a task record.
LEMMA StatusType ==
  ASSUME NEW task \in MigrationTask, NEW status \in TaskStatus
  PROVE  [task EXCEPT !.status = status] \in MigrationTask
BY DEF MigrationTask

\* The same inside the list of tasks.
LEMMA StatusUpdateType ==
  ASSUME NEW ts \in [Task -> MigrationTask], NEW t \in Task, NEW status \in TaskStatus
  PROVE  [ts EXCEPT ![t].status = status] \in [Task -> MigrationTask]
<1>1. [ts[t] EXCEPT !.status = status] \in MigrationTask
  BY StatusType
<1>2. [ts EXCEPT ![t].status = status]
        = [ts EXCEPT ![t] = [ts[t] EXCEPT !.status = status]]
  OBVIOUS
<1> QED BY <1>1, <1>2

\* A failed or a judged attempt leaves a well-typed task.
LEMMA JudgedType ==
  ASSUME NEW task \in MigrationTask, NEW r, NEW round
  PROVE  /\ Judged(task, r, round) \in MigrationTask
         /\ FailedAttempt(task) \in MigrationTask
BY DEF Judged, FailedAttempt, MigrationTask, TaskStatus

-----------------------------------------------------------------------------
(* Type correctness.                                                       *)

\* The initial state of _run_migration_async is well typed.
LEMMA InitType == Init => TypeOK
<1> SUFFICES ASSUME Init PROVE TypeOK
  OBVIOUS
<1> USE GraphAssumption DEF Init
<1>1. plan \in PlanType
  BY DEF PlanType, NoPlan
<1>2. tasks \in [Task -> MigrationTask]
  BY DEF MigrationTask, TaskStatus
<1>3. budget \in BudgetState
  BY DEF BudgetState, NewBudget
<1>4. workspace \in SUBSET File
  BY DEF File, BaseContent
<1>5. github \in [branch : BOOLEAN, pr : BOOLEAN, files : SUBSET File]
  OBVIOUS
<1>6. billed \in [calls : Nat, usd : Nat]
  OBVIOUS
<1>7. editor_results \in Seq(EditorResult) /\ budget_deltas \in Seq(Nat)
  OBVIOUS
<1>8. budget_deltas_consumed \in 0..Len(budget_deltas)
  OBVIOUS
<1>9. next \in Node \cup Stopped
  BY DEF Node
<1>10. phase \in MigrationPhase
  BY DEF MigrationPhase
<1>11. full_suite_result \in TestOutcome
  BY DEF TestOutcome
<1> QED
  BY <1>1, <1>2, <1>3, <1>4, <1>5, <1>6, <1>7, <1>8, <1>9, <1>10, <1>11
     DEF TypeOK

\* The step that runs the router leaves a node, a wave and a clock.
LEMMA DispatchType ==
  ASSUME NEW ACTION ts, NEW ACTION b, NEW nr \in Node \cup Stopped,
         late \in BOOLEAN, Dispatch(ts, b, nr)
  PROVE  late' \in BOOLEAN /\ sent' \in SUBSET Task /\ next' \in Node \cup Stopped
<1>1. PICK r \in Routes(ts, plan.deps, b, late, nr) :
        next' = r.next /\ sent' = r.sent /\ late' = r.late
  BY DEF Dispatch
<1>2. sent' \in SUBSET Task
  BY <1>1, RouterOutcome DEF GetReadyTasks
<1>3. next' \in Node \cup Stopped
  BY <1>1, RouterOutcome DEF Node, Stopped
<1>4. late' \in BOOLEAN
  BY <1>1, RouterClock
<1> QED BY <1>2, <1>3, <1>4

\* The nodes before the first wave keep the types.
LEMMA ComprehensionType ==
  ASSUME TypeOK,
         \/ ComprehensionSkipped
         \/ \E p \in Plans \cup {NoPlan}, cost \in ExtractionCosts : Comprehend(p, cost)
         \/ \E cost \in ExtractionCosts : ComprehensionRaises(cost)
         \/ Synthesis
  PROVE  TypeOK'
<1> USE GraphAssumption DEF controlVars, taskVars, budgetVars, testVars, outputVars
<1>1. CASE ComprehensionSkipped
  BY <1>1 DEF TypeOK, ComprehensionSkipped, RouteAfterComprehension, Node,
              MigrationPhase
<1>2. ASSUME NEW p \in Plans \cup {NoPlan}, NEW cost \in ExtractionCosts,
             Comprehend(p, cost)
      PROVE  TypeOK'
  <2>1. plan' \in PlanType
    BY <1>2 DEF Comprehend, NoPlan, PlanType
  <2>2. budget' \in BudgetState
    BY <1>2, RecordCallType DEF Comprehend, TypeOK
  <2>3. billed' \in [calls : Nat, usd : Nat]
    BY <1>2 DEF Comprehend, TypeOK, Bill
  <2>4. next' \in Node /\ phase' \in MigrationPhase
    BY <1>2 DEF Comprehend, RouteAfterComprehension, Node, MigrationPhase
  <2> QED BY <1>2, <2>1, <2>2, <2>3, <2>4 DEF Comprehend, TypeOK
<1>3. CASE \E cost \in ExtractionCosts : ComprehensionRaises(cost)
  <2>1. PICK cost \in ExtractionCosts : ComprehensionRaises(cost)
    BY <1>3
  <2>2. billed' \in [calls : Nat, usd : Nat]
    BY <2>1 DEF ComprehensionRaises, TypeOK, Bill
  <2> QED BY <2>1, <2>2 DEF ComprehensionRaises, TypeOK, Stopped, recordVars
<1>4. CASE Synthesis
  <2>1. [t \in plan.tasks |-> [status |-> "PENDING", retry_count |-> 0]]
          \in [plan.tasks -> MigrationTask]
    BY DEF MigrationTask, TaskStatus
  <2>2. tasks' \in [Task -> MigrationTask]
    BY <1>4, <2>1, MergeType DEF Synthesis, TypeOK, PlanType
  <2>3. late' \in BOOLEAN /\ sent' \subseteq Task /\ next' \in Node \cup Stopped
    BY <1>4, DispatchType DEF Synthesis, TypeOK, Node
  <2>4. phase' \in MigrationPhase
    BY <1>4 DEF Synthesis, MigrationPhase
  <2> QED BY <1>4, <2>2, <2>3, <2>4 DEF Synthesis, TypeOK
<1> QED BY <1>1, <1>2, <1>3, <1>4

\* However a branch of the editor ends, the types are kept.
LEMMA EditorType ==
  ASSUME TypeOK, NEW t \in Task, Editor(t)
  PROVE  TypeOK'
<1> USE GraphAssumption DEF controlVars, taskVars, budgetVars, testVars, outputVars
<1>1. CASE EditorSkips(t)
  <2>1. tasks' \in [Task -> MigrationTask]
    BY <1>1, StatusUpdateType DEF EditorSkips, TypeOK, TaskStatus
  <2> QED BY <1>1, <2>1 DEF EditorSkips, EndBranch, TypeOK, Node
<1>2. CASE EditorFails(t)
  <2>1. tasks' \in [Task -> MigrationTask]
    BY <1>2, JudgedType DEF EditorFails, TypeOK
  <2> QED BY <1>2, <2>1 DEF EditorFails, EndBranch, TypeOK, Node
<1>3. ASSUME NEW files \in Emits[t], NEW cost \in CallCosts,
             EditorGenerates(t, files, cost)
      PROVE  TypeOK'
  <2>1. tasks' \in [Task -> MigrationTask]
    BY <1>3, StatusUpdateType DEF EditorGenerates, TypeOK, TaskStatus
  <2>2. editor_results' \in Seq(EditorResult)
    BY <1>3 DEF EditorGenerates, TypeOK, EditorResult
  <2>3. budget_deltas' \in Seq(Nat) /\ budget_deltas_consumed' \in 0..Len(budget_deltas')
    BY <1>3 DEF EditorGenerates, TypeOK
  <2>4. billed' \in [calls : Nat, usd : Nat]
    BY <1>3 DEF EditorGenerates, TypeOK, Bill
  <2>5. sent' \in SUBSET Task /\ next' \in Node
    BY <1>3 DEF EditorGenerates, EndBranch, TypeOK, Node
  <2> QED BY <1>3, <2>1, <2>2, <2>3, <2>4, <2>5 DEF EditorGenerates, TypeOK
<1>4. CASE \E cost \in CallCosts : EditorRaises(t, cost)
  <2>1. PICK cost \in CallCosts : EditorRaises(t, cost)
    BY <1>4
  <2>2. billed' \in [calls : Nat, usd : Nat]
    BY <2>1 DEF EditorRaises, TypeOK, Bill
  <2> QED BY <2>1, <2>2 DEF EditorRaises, TypeOK, Stopped, recordVars
<1> QED BY <1>1, <1>2, <1>3, <1>4 DEF Editor

\* budget_reconcile keeps the types, the index into budget_deltas included.
LEMMA ReconcileType ==
  ASSUME TypeOK, ReconcileDelta \/ ReconcileDone
  PROVE  TypeOK'
<1> USE DEF controlVars, taskVars, budgetVars, testVars, outputVars
<1>1. CASE ReconcileDelta
  <2>1. budget_deltas[budget_deltas_consumed + 1] \in Nat
    BY <1>1 DEF ReconcileDelta, TypeOK
  <2>2. budget' \in BudgetState
    BY <1>1, <2>1, RecordCallType DEF ReconcileDelta, TypeOK
  <2>3. budget_deltas_consumed' \in 0..Len(budget_deltas')
    BY <1>1 DEF ReconcileDelta, TypeOK
  <2> QED BY <1>1, <2>2, <2>3 DEF ReconcileDelta, TypeOK
<1>2. CASE ReconcileDone
  <2>1. late' \in BOOLEAN /\ sent' \subseteq Task /\ next' \in Node \cup Stopped
    BY <1>2, DispatchType DEF ReconcileDone, TypeOK, Node
  <2> QED BY <1>2, <2>1 DEF ReconcileDone, TypeOK
<1> QED BY <1>1, <1>2

\* Every outcome of sandbox_test keeps the types.
LEMMA SandboxType ==
  ASSUME TypeOK,
         \/ SandboxSkipped
         \/ SandboxRefuses
         \/ \E install, test \in ContainerEnd : SandboxRuns(install, test)
         \/ SandboxRaises
  PROVE  TypeOK'
<1> USE DEF controlVars, taskVars, budgetVars, testVars, outputVars
<1>1. Tested(workspace) \subseteq File
  BY EffectiveDiffsType DEF Tested, ApplyDiffs, RemovePaths, Effective, TypeOK, Generated
<1>2. RemovePaths(workspace, Stale) \subseteq File
  BY DEF RemovePaths, TypeOK
<1>3. \A result : RouteAfterSandbox(result) \in Node
  BY DEF RouteAfterSandbox, Node
<1>4. CASE SandboxSkipped
  BY <1>3, <1>4 DEF SandboxSkipped, TypeOK, MigrationPhase
<1>5. CASE SandboxRefuses
  BY <1>2, <1>3, <1>5 DEF SandboxRefuses, TypeOK, MigrationPhase
<1>6. ASSUME NEW install \in ContainerEnd, NEW test \in ContainerEnd,
             SandboxRuns(install, test)
      PROVE  TypeOK'
  <2>1. full_suite_result' \in TestOutcome /\ phase' \in MigrationPhase
    BY <1>6 DEF SandboxRuns, SandboxOutcome, ParseTestOutput, TestOutcome, MigrationPhase
  <2> QED BY <1>1, <1>3, <1>6, <2>1 DEF SandboxRuns, TypeOK
<1>7. CASE SandboxRaises
  BY <1>1, <1>7 DEF SandboxRaises, TypeOK, Stopped
<1> QED BY <1>4, <1>5, <1>6, <1>7

\* error_analysis keeps the types, whatever the answer says.
LEMMA AnalysisType ==
  ASSUME TypeOK,
         \/ NothingToAnalyse
         \/ AnalysisGivesUp
         \/ \E entries \in SUBSET (Candidates \X BOOLEAN), cost \in CallCosts :
              \E verdict \in Verdicts(entries) : Analyse(entries, verdict, cost)
         \/ \E cost \in CallCosts : AnalysisRaises(cost)
  PROVE  TypeOK'
<1> USE GraphAssumption DEF controlVars, taskVars, budgetVars, testVars, outputVars
<1>1. "END" \in Node \cup Stopped
  BY DEF Stopped
<1>2. Candidates \in SUBSET Task
  BY DEF Candidates, Succeeded
<1>3. CASE NothingToAnalyse
  <2>1. late' \in BOOLEAN /\ sent' \in SUBSET Task /\ next' \in Node \cup Stopped
    BY <1>1, <1>3, DispatchType DEF NothingToAnalyse, TypeOK
  <2> QED BY <1>3, <2>1 DEF NothingToAnalyse, TypeOK, MigrationPhase
<1>4. CASE AnalysisGivesUp
  <2>1. late' \in BOOLEAN /\ sent' \in SUBSET Task /\ next' \in Node \cup Stopped
    BY <1>1, <1>4, DispatchType DEF AnalysisGivesUp, TypeOK
  <2>2. Escalated(Candidates) \in [Candidates -> MigrationTask]
    BY <1>2, StatusType DEF Escalated, TypeOK, TaskStatus
  <2>3. tasks' \in [Task -> MigrationTask]
    BY <1>2, <1>4, <2>2, MergeType DEF AnalysisGivesUp, TypeOK
  <2> QED BY <1>4, <2>1, <2>3 DEF AnalysisGivesUp, TypeOK, MigrationPhase
<1>5. ASSUME NEW entries \in SUBSET (Candidates \X BOOLEAN), NEW cost \in CallCosts,
             NEW verdict \in Verdicts(entries), Analyse(entries, verdict, cost)
      PROVE  TypeOK'
  <2>1. late' \in BOOLEAN /\ sent' \in SUBSET Task /\ next' \in Node \cup Stopped
    BY <1>1, <1>5, DispatchType DEF Analyse, TypeOK
  <2>2. DOMAIN verdict \in SUBSET Task
    BY <1>2 DEF Verdicts
  <2>3. [t \in DOMAIN verdict |-> Judged(tasks[t], verdict[t], retry_round')]
          \in [DOMAIN verdict -> MigrationTask]
    BY <2>2, JudgedType DEF TypeOK
  <2>4. tasks' \in [Task -> MigrationTask]
    BY <1>5, <2>2, <2>3, MergeType DEF Analyse, TypeOK
  <2>5. budget' \in BudgetState
    BY <1>5, RecordCallType DEF Analyse, TypeOK
  <2>6. billed' \in [calls : Nat, usd : Nat]
    BY <1>5 DEF Analyse, TypeOK, Bill
  <2>7. phase' \in MigrationPhase /\ retry_round' \in Nat
    BY <1>5 DEF Analyse, TypeOK, MigrationPhase
  <2> QED BY <1>5, <2>1, <2>4, <2>5, <2>6, <2>7 DEF Analyse, TypeOK
<1>6. CASE \E cost \in CallCosts : AnalysisRaises(cost)
  <2>1. PICK cost \in CallCosts : AnalysisRaises(cost)
    BY <1>6
  <2>2. billed' \in [calls : Nat, usd : Nat]
    BY <2>1 DEF AnalysisRaises, TypeOK, Bill
  <2> QED BY <2>1, <2>2 DEF AnalysisRaises, TypeOK, Stopped, recordVars
<1> QED BY <1>3, <1>4, <1>5, <1>6

\* The nodes from aggregate to the end of the run keep the types.
LEMMA OutputType ==
  ASSUME TypeOK,
         \/ Aggregate
         \/ RequestApproval
         \/ Review
         \/ NotPublished
         \/ \E reached \in {"none", "branch", "pull"}, acknowledged \in BOOLEAN :
              PrPublish(reached, acknowledged)
         \/ BudgetAbort
  PROVE  TypeOK'
<1> USE DEF controlVars, taskVars, budgetVars, testVars, outputVars
<1>1. Effective \subseteq File /\ PathsOf(Effective) \subseteq Path
  BY EffectiveDiffsType DEF Effective, TypeOK, Generated
<1>2. CASE Aggregate
  <2>1. pr_draft' \in BOOLEAN
    BY <1>2, Zenon DEF Aggregate, TypeOK
  <2>2. aggregated_diff_paths' \in SUBSET Path /\ phase' \in MigrationPhase
    BY <1>1, <1>2 DEF Aggregate, TypeOK, MigrationPhase
  <2>3. next' \in Node \cup Stopped
    BY <1>2 DEF Aggregate, RouteAfterAggregate, Node, Stopped
  <2> QED BY <1>2, <2>1, <2>2, <2>3 DEF Aggregate, TypeOK
<1>3. CASE RequestApproval
  BY <1>3 DEF RequestApproval, TypeOK, MigrationPhase, Node
<1>4. ASSUME NEW approved \in BOOLEAN, ApprovalGate(approved)
      PROVE  TypeOK'
  BY <1>4 DEF ApprovalGate, TypeOK, MigrationPhase, Node, Stopped, RouteAfterApproval
<1>5. CASE NotPublished
  BY <1>5 DEF NotPublished, TypeOK, MigrationPhase, Stopped
<1>6. ASSUME NEW reached \in {"none", "branch", "pull"}, NEW acknowledged \in BOOLEAN,
             PrPublish(reached, acknowledged)
      PROVE  TypeOK'
  <2>1. github' \in [branch : BOOLEAN, pr : BOOLEAN, files : SUBSET File]
    <3>1. (github.branch \/ reached # "none") \in BOOLEAN
          /\ (github.pr \/ reached = "pull") \in BOOLEAN
      BY Zenon
    <3>2. (IF reached = "none" THEN github.files ELSE Effective) \in SUBSET File
      BY <1>1 DEF TypeOK
    <3> QED BY <1>6, <3>1, <3>2, Zenon DEF PrPublish, Publish
  <2>2. phase' \in MigrationPhase /\ next' \in Node \cup Stopped /\ pr_url' \in BOOLEAN
    BY <1>6 DEF PrPublish, MigrationPhase, Stopped
  <2> QED BY <1>6, <2>1, <2>2 DEF PrPublish, TypeOK
<1>7. CASE BudgetAbort
  <2>1. tasks' \in [Task -> MigrationTask]
    BY <1>7, StatusType DEF BudgetAbort, TypeOK, TaskStatus
  <2> QED BY <1>7, <2>1 DEF BudgetAbort, TypeOK, MigrationPhase, Stopped
<1> QED BY <1>2, <1>3, <1>4, <1>5, <1>6, <1>7 DEF Review

\* No step leaves the types.
LEMMA NextType ==
  ASSUME TypeOK, [Next]_vars
  PROVE  TypeOK'
<1> USE DEF controlVars, taskVars, budgetVars, testVars, outputVars
<1>1. CASE GraphStep
  BY <1>1, ComprehensionType, EditorType, ReconcileType, SandboxType, AnalysisType,
     OutputType, Zenon DEF GraphStep
<1>2. CASE Review
  BY <1>2, OutputType
<1>3. CASE ClockExpires
  <2>1. late' \in BOOLEAN
    BY <1>3 DEF ClockExpires, Later, TypeOK
  <2> QED BY <1>3, <2>1 DEF ClockExpires, TypeOK
<1>4. CASE UNCHANGED vars
  BY <1>4 DEF vars, TypeOK
<1> QED BY <1>1, <1>2, <1>3, <1>4 DEF Next, Finished

\* Type correctness of the pipeline, for every number of tasks, every plan,
\* every retry limit, every budget and every environment: in particular the
\* index into budget_deltas never leaves the list, whatever waves were sent.
THEOREM TypeCorrect == Spec => []TypeOK
<1>1. TypeOK /\ [Next]_vars => TypeOK'
  BY NextType
<1> QED BY InitType, <1>1, PTL DEF Spec
-----------------------------------------------------------------------------
(* Which tasks run, in which order and how often.                          *)

\* While a wave is running, every task still in it is ready: branches end one
\* by one, and none of them takes a dependency away from the others.  Before
\* synthesis there are no tasks.
WaveInv ==
  /\ sent # {} => next = "editor"
  /\ sent \subseteq GetReadyTasks(tasks, plan.deps)
  /\ next \in {"comprehension", "synthesis"} =>
       \A t \in Task : tasks[t].status = "ABSENT" /\ tasks[t].retry_count = 0

\* The run that has used its last round has stopped: a verdict of the last
\* round escalates, and nothing else was ready.
LastRoundInv == retry_round >= RetryRoundCap => next = "END"

\* The inductive invariant: RetryBounds needs NoReadyLeftBehind (else other
\* tasks could carry a run into one more round), which needs WaveInv.
SchedulingInv ==
  TypeOK /\ WaveInv /\ NoReadyLeftBehind /\ RetryBounds /\ LastRoundInv

-----------------------------------------------------------------------------
(* What the router and the ends of the branches do.                        *)

\* RouterOutcome, for the step that runs the router.
LEMMA DispatchOutcome ==
  ASSUME NEW ACTION ts, NEW ACTION b, NEW nr, Dispatch(ts, b, nr)
  PROVE  /\ sent' \subseteq GetReadyTasks(ts, plan.deps)
         /\ \/ next' = nr /\ sent' = {} /\ GetReadyTasks(ts, plan.deps) = {}
            \/ next' \in {"budget_abort", "END"} /\ sent' = {}
            \/ next' = "editor"
<1>1. PICK r \in Routes(ts, plan.deps, b, late, nr) :
        next' = r.next /\ sent' = r.sent /\ late' = r.late
  BY DEF Dispatch
<1> QED BY <1>1, RouterOutcome

\* If no task is ready, the router goes to its no-ready target.
LEMMA DispatchNothing ==
  ASSUME NEW ACTION ts, NEW ACTION b, NEW nr, Dispatch(ts, b, nr),
         GetReadyTasks(ts, plan.deps) = {}
  PROVE  next' = nr /\ sent' = {}
<1>1. PICK r \in Routes(ts, plan.deps, b, late, nr) :
        next' = r.next /\ sent' = r.sent /\ late' = r.late
  BY DEF Dispatch
<1>2. PICK l1 \in Later(late) : \E l2 \in Later(l1) :
        r = RouteToEditors(ts, plan.deps, b, l1, l2, nr)
  BY RouteForm
<1>3. PICK l2 \in Later(l1) : r = RouteToEditors(ts, plan.deps, b, l1, l2, nr)
  BY <1>2
<1> QED BY <1>1, <1>3 DEF RouteToEditors, Route

\* Changing a ready task leaves every other ready task ready.
LEMMA OthersStayReady ==
  ASSUME NEW ts \in [Task -> MigrationTask], NEW deps,
         NEW t \in GetReadyTasks(ts, deps), NEW new
  PROVE  GetReadyTasks(ts, deps) \ {t} \subseteq GetReadyTasks([ts EXCEPT ![t] = new], deps)
BY DEF GetReadyTasks, Succeeded

\* Escalating tasks that had succeeded makes no task ready.
LEMMA EscalationReadiesNothing ==
  ASSUME NEW ts \in [Task -> MigrationTask], NEW ts2 \in [Task -> MigrationTask],
         NEW deps, GetReadyTasks(ts, deps) = {},
         \A t \in Task : ts2[t].status = ts[t].status \/ ts2[t].status = "NEEDS_HUMAN"
  PROVE  GetReadyTasks(ts2, deps) = {}
BY DEF GetReadyTasks, Succeeded

\* The cap is at least one round, also when 0 was asked for.
LEMMA CapPositive == RetryRoundCap \in Nat /\ RetryRoundCap >= 1
BY GraphAssumption DEF RetryRoundCap

-----------------------------------------------------------------------------
(* Every step keeps the invariant.                                         *)

\* The nodes of the second half of the pipeline, and how one of its nodes may
\* hand over to the next while tasks, plan and round stay as they are.
Testing == {"sandbox_test", "error_analysis", "aggregate", "request_approval",
            "approval_gate", "pr_publish"}

HandsOver ==
  /\ next # "END"
  /\ next' # "comprehension"
  /\ next' = "synthesis" => next = "comprehension"
  /\ next' \in Testing => next \in Testing

\* The steps that leave the tasks, the plan and the round alone.
LEMMA QuietStep ==
  ASSUME SchedulingInv, tasks' = tasks, plan' = plan, retry_round' = retry_round,
         sent' = sent \/ sent' = {}, sent = {} \/ sent' = {} \/ next' = next,
         HandsOver \/ next' = next
  PROVE  WaveInv' /\ NoReadyLeftBehind' /\ RetryBounds' /\ LastRoundInv'
<1> USE DEF HandsOver, Testing
<1>1. WaveInv'
  BY DEF SchedulingInv, WaveInv, GetReadyTasks, Succeeded
<1>2. NoReadyLeftBehind'
  BY DEF SchedulingInv, NoReadyLeftBehind, GetReadyTasks, Succeeded
<1>3. RetryBounds'
  BY DEF SchedulingInv, RetryBounds
<1>4. LastRoundInv'
  BY DEF SchedulingInv, LastRoundInv
<1> QED BY <1>1, <1>2, <1>3, <1>4

\* Synthesis creates the tasks and sends the first wave.
LEMMA SynthesisScheduling ==
  ASSUME SchedulingInv, Synthesis
  PROVE  WaveInv' /\ NoReadyLeftBehind' /\ RetryBounds' /\ LastRoundInv'
<1> USE GraphAssumption DEF Synthesis
<1>1. UNCHANGED <<plan, retry_round>>
  BY DEF testVars
<1>2. \A t \in Task : tasks'[t].retry_count = 0
  BY DEF SchedulingInv, WaveInv, MergeTaskLists
<1>3. /\ sent' \subseteq GetReadyTasks(tasks', plan.deps)
      /\ \/ next' = "sandbox_test" /\ sent' = {} /\ GetReadyTasks(tasks', plan.deps) = {}
         \/ next' \in {"budget_abort", "END"} /\ sent' = {}
         \/ next' = "editor"
  BY DispatchOutcome
<1>4. WaveInv'
  BY <1>1, <1>3 DEF WaveInv, GetReadyTasks, Succeeded
<1>5. NoReadyLeftBehind'
  BY <1>1, <1>3 DEF NoReadyLeftBehind, GetReadyTasks, Succeeded
<1>6. RetryBounds'
  BY <1>1, <1>2 DEF SchedulingInv, RetryBounds
<1>7. LastRoundInv'
  BY <1>1 DEF SchedulingInv, LastRoundInv
<1> QED BY <1>4, <1>5, <1>6, <1>7

\* A branch of the wave ends: its task is changed, the others stay ready.
LEMMA BranchEnds ==
  ASSUME SchedulingInv, NEW t \in sent, EndBranch(t), next = "editor",
         UNCHANGED <<plan, retry_round>>,
         NEW new \in MigrationTask, tasks' = [tasks EXCEPT ![t] = new],
         new.retry_count <= MaxRetries + 1,
         new.retry_count > MaxRetries => new.status = "NEEDS_HUMAN"
  PROVE  WaveInv' /\ NoReadyLeftBehind' /\ RetryBounds' /\ LastRoundInv'
<1>1. t \in GetReadyTasks(tasks, plan.deps) /\ t \in Task
  BY DEF SchedulingInv, WaveInv, TypeOK
<1>2. sent \ {t} \subseteq GetReadyTasks(tasks', plan.deps)
  BY <1>1, OthersStayReady DEF SchedulingInv, WaveInv, TypeOK
<1>3. WaveInv'
  BY <1>2 DEF WaveInv, EndBranch, GetReadyTasks, Succeeded
<1>4. NoReadyLeftBehind'
  BY DEF NoReadyLeftBehind, EndBranch
<1>5. RetryBounds'
  BY <1>1 DEF SchedulingInv, RetryBounds, TypeOK
<1>6. LastRoundInv'
  BY DEF SchedulingInv, LastRoundInv
<1> QED BY <1>3, <1>4, <1>5, <1>6

\* The four ends of a branch.
LEMMA EditorScheduling ==
  ASSUME SchedulingInv, NEW t \in Task, Editor(t)
  PROVE  WaveInv' /\ NoReadyLeftBehind' /\ RetryBounds' /\ LastRoundInv'
<1> USE DEF taskVars, budgetVars, testVars, outputVars
<1>0. MaxRetries \in Nat
  BY GraphAssumption
<1>1. ASSUME t \in sent
      PROVE  /\ tasks[t] \in MigrationTask
             /\ tasks[t].status \in {"PENDING", "RETRYING"}
             /\ tasks[t].retry_count \in Nat /\ tasks[t].retry_count <= MaxRetries
  <2>1. tasks[t] \in MigrationTask
    BY DEF SchedulingInv, TypeOK
  <2>2. tasks[t].status \in {"PENDING", "RETRYING"}
    BY <1>1 DEF SchedulingInv, WaveInv, GetReadyTasks
  <2>3. tasks[t].retry_count \in Nat /\ ~ (tasks[t].retry_count > MaxRetries)
    BY <2>1, <2>2 DEF SchedulingInv, RetryBounds, MigrationTask
  <2> QED BY <1>0, <2>1, <2>2, <2>3
<1>2. CASE EditorSkips(t)
  <2>1. [tasks[t] EXCEPT !.status = "SKIPPED"] \in MigrationTask
    BY <1>1, <1>2, StatusType DEF EditorSkips, TaskStatus
  <2>2. [tasks[t] EXCEPT !.status = "SKIPPED"].retry_count <= MaxRetries
    BY <1>1, <1>2 DEF EditorSkips, MigrationTask
  <2>3. tasks' = [tasks EXCEPT ![t] = [tasks[t] EXCEPT !.status = "SKIPPED"]]
    BY <1>2 DEF EditorSkips, SchedulingInv, TypeOK
  <2>4. [tasks[t] EXCEPT !.status = "SKIPPED"].retry_count \in Nat
    BY <2>1 DEF MigrationTask
  <2>5. /\ [tasks[t] EXCEPT !.status = "SKIPPED"].retry_count <= MaxRetries + 1
        /\ ~ ([tasks[t] EXCEPT !.status = "SKIPPED"].retry_count > MaxRetries)
    BY <1>0, <2>2, <2>4
  <2> QED BY <1>2, <2>1, <2>3, <2>5, BranchEnds DEF EditorSkips
<1>3. CASE EditorFails(t)
  <2>1. FailedAttempt(tasks[t]) \in MigrationTask
    BY <1>1, <1>3, JudgedType DEF EditorFails
  <2>2. /\ FailedAttempt(tasks[t]).retry_count <= MaxRetries + 1
        /\ FailedAttempt(tasks[t]).retry_count > MaxRetries
             => FailedAttempt(tasks[t]).status = "NEEDS_HUMAN"
    BY <1>1, <1>3, GraphAssumption DEF EditorFails, FailedAttempt
  <2> QED BY <1>3, <2>1, <2>2, BranchEnds DEF EditorFails
<1>4. ASSUME NEW files \in Emits[t], NEW cost \in CallCosts,
             EditorGenerates(t, files, cost)
      PROVE  WaveInv' /\ NoReadyLeftBehind' /\ RetryBounds' /\ LastRoundInv'
  <2>1. [tasks[t] EXCEPT !.status = "SUCCEEDED"] \in MigrationTask
    BY <1>1, <1>4, StatusType DEF EditorGenerates, TaskStatus
  <2>2. [tasks[t] EXCEPT !.status = "SUCCEEDED"].retry_count <= MaxRetries
    BY <1>1, <1>4 DEF EditorGenerates, MigrationTask
  <2>3. tasks' = [tasks EXCEPT ![t] = [tasks[t] EXCEPT !.status = "SUCCEEDED"]]
    BY <1>4 DEF EditorGenerates, SchedulingInv, TypeOK
  <2>4. [tasks[t] EXCEPT !.status = "SUCCEEDED"].retry_count \in Nat
    BY <2>1 DEF MigrationTask
  <2>5. /\ [tasks[t] EXCEPT !.status = "SUCCEEDED"].retry_count <= MaxRetries + 1
        /\ ~ ([tasks[t] EXCEPT !.status = "SUCCEEDED"].retry_count > MaxRetries)
    BY <1>0, <2>2, <2>4
  <2> QED BY <1>4, <2>1, <2>3, <2>5, BranchEnds DEF EditorGenerates
<1>5. CASE \E cost \in CallCosts : EditorRaises(t, cost)
  BY <1>5, QuietStep DEF EditorRaises, HandsOver, Testing
<1> QED BY <1>2, <1>3, <1>4, <1>5 DEF Editor

\* Comprehension fixes the plan, while there are no tasks yet.
LEMMA ComprehendScheduling ==
  ASSUME SchedulingInv, NEW p \in Plans \cup {NoPlan}, NEW cost \in ExtractionCosts,
         Comprehend(p, cost)
  PROVE  WaveInv' /\ NoReadyLeftBehind' /\ RetryBounds' /\ LastRoundInv'
<1> USE DEF testVars, outputVars
<1>1. /\ UNCHANGED <<tasks, sent, retry_round>> /\ next = "comprehension"
      /\ next' \in {"budget_abort", "synthesis"}
  BY DEF Comprehend, RouteAfterComprehension
<1>2. sent = {}
  BY <1>1 DEF SchedulingInv, WaveInv
<1>3. WaveInv'
  BY <1>1, <1>2 DEF SchedulingInv, WaveInv
<1>4. NoReadyLeftBehind'
  BY <1>1 DEF NoReadyLeftBehind
<1>5. RetryBounds'
  BY <1>1 DEF SchedulingInv, RetryBounds
<1>6. LastRoundInv'
  BY <1>1 DEF SchedulingInv, LastRoundInv
<1> QED BY <1>3, <1>4, <1>5, <1>6

\* error_analysis uses up a round and sends the tasks it lets retry.
LEMMA RoundEnds ==
  ASSUME SchedulingInv, next = "error_analysis", plan' = plan, TypeOK',
         retry_round' = retry_round + 1, NEW ACTION b, Dispatch(tasks', b, "END"),
         \A t \in Task :
           \/ tasks'[t] = tasks[t]
           \/ /\ tasks'[t].status = "NEEDS_HUMAN"
              /\ tasks'[t].retry_count <= MaxRetries + 1
           \/ /\ retry_round' < RetryRoundCap
              /\ tasks'[t].retry_count <= MaxRetries
  PROVE  WaveInv' /\ NoReadyLeftBehind' /\ RetryBounds' /\ LastRoundInv'
<1>0. MaxRetries \in Nat /\ retry_round \in Nat /\ RetryRoundCap \in Nat
  BY GraphAssumption, CapPositive DEF SchedulingInv, TypeOK
<1>1. /\ sent' \subseteq GetReadyTasks(tasks', plan.deps)
      /\ \/ next' = "END" /\ sent' = {}
         \/ next' = "budget_abort" /\ sent' = {}
         \/ next' = "editor"
  BY DispatchOutcome
<1>2. ~ (retry_round >= RetryRoundCap)
  BY DEF SchedulingInv, LastRoundInv
<1>3. WaveInv'
  BY <1>1 DEF WaveInv
<1>4. NoReadyLeftBehind'
  BY <1>1 DEF NoReadyLeftBehind
<1>5. RetryBounds'
  <2>1. ASSUME NEW t \in Task
        PROVE  /\ tasks'[t].retry_count <= MaxRetries + 1
               /\ tasks'[t].retry_count > MaxRetries => tasks'[t].status = "NEEDS_HUMAN"
    <3>1. tasks'[t].retry_count \in Nat
      BY DEF TypeOK, MigrationTask
    <3>2. CASE tasks'[t] = tasks[t]
      BY <3>2 DEF SchedulingInv, RetryBounds
    <3>3. CASE tasks'[t] # tasks[t]
      BY <1>0, <3>1, <3>3
    <3> QED BY <3>2, <3>3
  <2>2. retry_round' <= RetryRoundCap
    BY <1>0, <1>2
  <2> QED BY <2>1, <2>2, CapPositive DEF RetryBounds
<1>6. LastRoundInv'
  <2> SUFFICES ASSUME retry_round' >= RetryRoundCap PROVE next' = "END"
    BY DEF LastRoundInv
  <2>1. GetReadyTasks(tasks, plan.deps) = {}
    BY DEF SchedulingInv, NoReadyLeftBehind
  <2>2. \A t \in Task : tasks'[t].status = tasks[t].status
                          \/ tasks'[t].status = "NEEDS_HUMAN"
    BY <1>0
  <2>3. GetReadyTasks(tasks', plan.deps) = {}
    BY <2>1, <2>2, EscalationReadiesNothing DEF SchedulingInv, TypeOK
  <2> QED BY <2>3, DispatchNothing
<1> QED BY <1>3, <1>4, <1>5, <1>6

\* Each outcome of error_analysis is the end of a round.
LEMMA AnalysisScheduling ==
  ASSUME SchedulingInv, TypeOK',
         \/ NothingToAnalyse
         \/ AnalysisGivesUp
         \/ \E entries \in SUBSET (Candidates \X BOOLEAN), cost \in CallCosts :
              \E verdict \in Verdicts(entries) : Analyse(entries, verdict, cost)
         \/ \E cost \in CallCosts : AnalysisRaises(cost)
  PROVE  WaveInv' /\ NoReadyLeftBehind' /\ RetryBounds' /\ LastRoundInv'
<1> USE DEF taskVars, budgetVars, testVars, outputVars
<1>1. CASE NothingToAnalyse
  <2>1. Dispatch(tasks', budget, "END") /\ tasks' = tasks
    BY <1>1 DEF NothingToAnalyse
  <2> QED BY <1>1, <2>1, RoundEnds DEF NothingToAnalyse
<1>2. ASSUME NEW t \in Candidates
      PROVE  /\ t \in Task /\ tasks[t] \in MigrationTask
             /\ tasks[t].retry_count \in Nat /\ tasks[t].retry_count <= MaxRetries
  <2>1. t \in Task /\ tasks[t].status = "SUCCEEDED" /\ tasks[t] \in MigrationTask
    BY DEF Candidates, Succeeded, SchedulingInv, TypeOK
  <2>2. tasks[t].retry_count \in Nat /\ ~ (tasks[t].retry_count > MaxRetries)
    BY <2>1 DEF SchedulingInv, RetryBounds, MigrationTask
  <2>3. MaxRetries \in Nat
    BY GraphAssumption
  <2> QED BY <2>1, <2>2, <2>3
<1>3. CASE AnalysisGivesUp
  <2>1. ASSUME NEW t \in Task, tasks'[t] # tasks[t]
        PROVE  tasks'[t].status = "NEEDS_HUMAN" /\ tasks'[t].retry_count <= MaxRetries + 1
    <3>1. t \in Candidates /\ tasks'[t] = [tasks[t] EXCEPT !.status = "NEEDS_HUMAN"]
      BY <1>3, <2>1 DEF AnalysisGivesUp, MergeTaskLists, Escalated
    <3>2. tasks'[t].status = "NEEDS_HUMAN" /\ tasks'[t].retry_count = tasks[t].retry_count
      BY <1>2, <3>1 DEF MigrationTask
    <3> QED BY <1>2, <3>1, <3>2, GraphAssumption
  <2> QED BY <1>3, <2>1, RoundEnds DEF AnalysisGivesUp
<1>4. ASSUME NEW entries \in SUBSET (Candidates \X BOOLEAN), NEW cost \in CallCosts,
             NEW verdict \in Verdicts(entries), Analyse(entries, verdict, cost)
      PROVE  WaveInv' /\ NoReadyLeftBehind' /\ RetryBounds' /\ LastRoundInv'
  <2>1. ASSUME NEW t \in Task, tasks'[t] # tasks[t]
        PROVE  \/ /\ tasks'[t].status = "NEEDS_HUMAN"
                  /\ tasks'[t].retry_count <= MaxRetries + 1
               \/ /\ retry_round' < RetryRoundCap
                  /\ tasks'[t].retry_count <= MaxRetries
    <3>1. DOMAIN verdict \subseteq Candidates
      BY DEF Verdicts
    <3>2. t \in Candidates /\ tasks'[t] = Judged(tasks[t], verdict[t], retry_round')
      BY <1>4, <2>1, <3>1 DEF Analyse, MergeTaskLists
    <3>3. retry_round' \in Nat /\ RetryRoundCap \in Nat /\ MaxRetries \in Nat
      BY CapPositive, GraphAssumption DEF TypeOK
    <3> QED BY <1>2, <3>2, <3>3 DEF Judged
  <2>2. /\ next = "error_analysis" /\ plan' = plan /\ retry_round' = retry_round + 1
        /\ Dispatch(tasks', budget', "END")
    BY <1>4 DEF Analyse
  <2> QED BY <2>1, <2>2, RoundEnds
<1>5. CASE \E cost \in CallCosts : AnalysisRaises(cost)
  BY <1>5, QuietStep
     DEF AnalysisRaises, HandsOver, Testing, SchedulingInv, WaveInv
<1> QED BY <1>1, <1>3, <1>4, <1>5

\* The steps that neither run the router nor touch tasks, plan or round.
LEMMA OtherScheduling ==
  ASSUME SchedulingInv,
         \/ ComprehensionSkipped
         \/ \E cost \in ExtractionCosts : ComprehensionRaises(cost)
         \/ ReconcileDelta
         \/ SandboxSkipped
         \/ SandboxRefuses
         \/ \E install, test \in ContainerEnd : SandboxRuns(install, test)
         \/ SandboxRaises
         \/ Aggregate
         \/ RequestApproval
         \/ Review
         \/ NotPublished
         \/ \E reached \in {"none", "branch", "pull"}, acknowledged \in BOOLEAN :
              PrPublish(reached, acknowledged)
         \/ ClockExpires
  PROVE  WaveInv' /\ NoReadyLeftBehind' /\ RetryBounds' /\ LastRoundInv'
<1> USE DEF controlVars, taskVars, budgetVars, testVars, outputVars
<1> DEFINE Same == tasks' = tasks /\ plan' = plan /\ retry_round' = retry_round /\ sent' = sent
<1>1. sent = {} \/ next = "editor"
  BY DEF SchedulingInv, WaveInv
<1>2. CASE ReconcileDelta \/ ClockExpires
  <2>1. Same /\ next' = next
    BY <1>2 DEF ReconcileDelta, ClockExpires
  <2> QED BY <2>1, QuietStep
<1>3. ASSUME Same, next # "editor", HandsOver
      PROVE  WaveInv' /\ NoReadyLeftBehind' /\ RetryBounds' /\ LastRoundInv'
  BY <1>1, <1>3, QuietStep
<1> USE DEF HandsOver, Testing
<1>4. CASE \/ ComprehensionSkipped
           \/ \E cost \in ExtractionCosts : ComprehensionRaises(cost)
  BY <1>3, <1>4 DEF ComprehensionSkipped, ComprehensionRaises, RouteAfterComprehension
<1>5. CASE SandboxSkipped \/ SandboxRefuses \/ SandboxRaises
  BY <1>3, <1>5 DEF SandboxSkipped, SandboxRefuses, SandboxRaises, RouteAfterSandbox
<1>6. CASE \E install, test \in ContainerEnd : SandboxRuns(install, test)
  BY <1>3, <1>6 DEF SandboxRuns, RouteAfterSandbox
<1>7. CASE Aggregate
  BY <1>3, <1>7 DEF Aggregate, RouteAfterAggregate
<1>8. CASE RequestApproval \/ NotPublished
  BY <1>3, <1>8 DEF RequestApproval, NotPublished
<1>9. CASE Review
  BY <1>3, <1>9 DEF Review, ApprovalGate, RouteAfterApproval
<1>10. CASE \E reached \in {"none", "branch", "pull"}, acknowledged \in BOOLEAN :
              PrPublish(reached, acknowledged)
  BY <1>3, <1>10 DEF PrPublish
<1> QED BY <1>2, <1>4, <1>5, <1>6, <1>7, <1>8, <1>9, <1>10

\* After the last branch of a wave, the router sends the next one or goes to
\* the sandbox.
LEMMA ReconcileScheduling ==
  ASSUME SchedulingInv, ReconcileDone
  PROVE  WaveInv' /\ NoReadyLeftBehind' /\ RetryBounds' /\ LastRoundInv'
<1>1. UNCHANGED <<tasks, plan, retry_round>> /\ next = "budget_reconcile"
  BY DEF ReconcileDone, taskVars, testVars
<1>2. /\ sent' \subseteq GetReadyTasks(tasks, plan.deps)
      /\ \/ next' = "sandbox_test" /\ sent' = {} /\ GetReadyTasks(tasks, plan.deps) = {}
         \/ next' \in {"budget_abort", "END"} /\ sent' = {}
         \/ next' = "editor"
  BY DispatchOutcome DEF ReconcileDone
<1>3. WaveInv'
  BY <1>1, <1>2 DEF WaveInv
<1>4. NoReadyLeftBehind'
  BY <1>1, <1>2 DEF NoReadyLeftBehind
<1>5. RetryBounds' /\ LastRoundInv'
  BY <1>1 DEF SchedulingInv, RetryBounds, LastRoundInv
<1> QED BY <1>3, <1>4, <1>5

\* budget_abort marks what is unfinished and ends the run.
LEMMA AbortScheduling ==
  ASSUME SchedulingInv, BudgetAbort
  PROVE  WaveInv' /\ NoReadyLeftBehind' /\ RetryBounds' /\ LastRoundInv'
<1>1. next = "budget_abort" /\ next' = "END" /\ sent' = sent /\ retry_round' = retry_round
  BY DEF BudgetAbort, testVars
<1>2. sent = {}
  BY <1>1 DEF SchedulingInv, WaveInv
<1>3. WaveInv' /\ NoReadyLeftBehind' /\ LastRoundInv'
  BY <1>1, <1>2 DEF WaveInv, NoReadyLeftBehind, LastRoundInv
<1>4. RetryBounds'
  <2>1. ASSUME NEW t \in Task
        PROVE  /\ tasks'[t].retry_count = tasks[t].retry_count
               /\ tasks[t].status = "NEEDS_HUMAN" => tasks'[t].status = "NEEDS_HUMAN"
    BY DEF BudgetAbort, Unfinished, SchedulingInv, TypeOK, MigrationTask
  <2> QED BY <1>1, <2>1 DEF SchedulingInv, RetryBounds
<1> QED BY <1>3, <1>4

\* The invariant is inductive.
LEMMA SchedulingStep ==
  ASSUME SchedulingInv, [Next]_vars
  PROVE  SchedulingInv'
<1>1. TypeOK'
  BY NextType DEF SchedulingInv
<1>2. CASE GraphStep
  BY <1>1, <1>2, ComprehendScheduling, SynthesisScheduling, EditorScheduling,
     ReconcileScheduling, AnalysisScheduling, AbortScheduling, OtherScheduling, Zenon
     DEF GraphStep, SchedulingInv
<1>3. CASE Review \/ ClockExpires
  BY <1>1, <1>3, OtherScheduling DEF SchedulingInv
<1>4. CASE UNCHANGED vars
  <2>1. UNCHANGED <<tasks, plan, retry_round, sent, next>>
    BY <1>4 DEF vars, controlVars, taskVars, testVars
  <2> QED BY <1>1, <2>1, QuietStep DEF SchedulingInv
<1> QED BY <1>2, <1>3, <1>4 DEF Next, Finished

\* It holds when a run starts.
LEMMA SchedulingInit == Init => SchedulingInv
<1> SUFFICES ASSUME Init PROVE SchedulingInv
  OBVIOUS
<1>1. TypeOK
  BY InitType
<1>2. WaveInv /\ NoReadyLeftBehind
  BY DEF Init, WaveInv, NoReadyLeftBehind
<1>3. RetryBounds /\ LastRoundInv
  BY CapPositive, GraphAssumption DEF Init, RetryBounds, LastRoundInv
<1> QED BY <1>1, <1>2, <1>3 DEF SchedulingInv

\* The scheduling invariant holds throughout every run.
THEOREM SchedulingCorrect == Spec => []SchedulingInv
<1>1. SchedulingInv /\ [Next]_vars => SchedulingInv'
  BY SchedulingStep
<1> QED BY SchedulingInit, <1>1, PTL DEF Spec

-----------------------------------------------------------------------------
(* The properties the runs check.                                          *)

\* From the sandbox to the pull request no ready task is left behind, for every
\* task graph and every budget (route_to_editors).
THEOREM NothingReadyIsLeftBehind == Spec => []NoReadyLeftBehind
<1>1. SchedulingInv => NoReadyLeftBehind
  BY DEF SchedulingInv
<1> QED BY SchedulingCorrect, <1>1, PTL

\* Retries stay within max_retries and within the cap on rounds, for every
\* limit and every sequence of verdicts (editor, error_analysis).
THEOREM RetriesAreBounded == Spec => []RetryBounds
<1>1. SchedulingInv => RetryBounds
  BY DEF SchedulingInv
<1> QED BY SchedulingCorrect, <1>1, PTL

\* Only a branch that generated code appends to editor_results.
LEMMA WhoAppends ==
  ASSUME [Next]_vars, editor_results' # editor_results
  PROVE  \E t \in Task : \E files \in Emits[t], cost \in CallCosts :
           EditorGenerates(t, files, cost)
<1> USE DEF taskVars
<1>1. CASE Review \/ ClockExpires \/ UNCHANGED vars
  BY <1>1 DEF Review, ApprovalGate, ClockExpires, vars
<1>2. CASE GraphStep
  <2>1. ~ ( \/ ComprehensionSkipped
            \/ \E p \in Plans \cup {NoPlan}, cost \in ExtractionCosts : Comprehend(p, cost)
            \/ \E cost \in ExtractionCosts : ComprehensionRaises(cost)
            \/ Synthesis )
    BY DEF ComprehensionSkipped, Comprehend, ComprehensionRaises, Synthesis
  <2>2. ~ (ReconcileDelta \/ ReconcileDone \/ BudgetAbort)
    BY DEF ReconcileDelta, ReconcileDone, BudgetAbort
  <2>3. ~ ( \/ SandboxSkipped \/ SandboxRefuses \/ SandboxRaises
            \/ \E install, test \in ContainerEnd : SandboxRuns(install, test) )
    BY DEF SandboxSkipped, SandboxRefuses, SandboxRuns, SandboxRaises
  <2>4. ~ ( \/ NothingToAnalyse \/ AnalysisGivesUp
            \/ \E cost \in CallCosts : AnalysisRaises(cost)
            \/ \E entries \in SUBSET (Candidates \X BOOLEAN), cost \in CallCosts :
                 \E verdict \in Verdicts(entries) : Analyse(entries, verdict, cost) )
    BY DEF NothingToAnalyse, AnalysisGivesUp, Analyse, AnalysisRaises
  <2>5. ~ ( \/ Aggregate \/ RequestApproval \/ NotPublished
            \/ \E reached \in {"none", "branch", "pull"}, acknowledged \in BOOLEAN :
                 PrPublish(reached, acknowledged) )
    BY DEF Aggregate, RequestApproval, NotPublished, PrPublish
  <2>6. PICK t \in Task : Editor(t)
    BY <1>2, <2>1, <2>2, <2>3, <2>4, <2>5, Zenon DEF GraphStep
  <2>7. ~ ( \/ EditorSkips(t) \/ EditorFails(t)
            \/ \E cost \in CallCosts : EditorRaises(t, cost) )
    BY DEF EditorSkips, EditorFails, EditorRaises
  <2> QED BY <2>6, <2>7, Zenon DEF Editor
<1> QED BY <1>1, <1>2 DEF Next, Finished

\* Code for a task is generated only while its dependencies have succeeded, for
\* every task graph, every number of waves and every retry (get_ready_tasks).
THEOREM DependenciesComeFirst == Spec => DependencyOrder
<1>1. ASSUME SchedulingInv, [Next]_vars, editor_results' # editor_results
      PROVE  LET task == editor_results'[Len(editor_results')].task
             IN  plan.deps[task] \subseteq Succeeded(tasks)
  <2>1. PICK t \in Task : \E files \in Emits[t], cost \in CallCosts :
          EditorGenerates(t, files, cost)
    BY <1>1, WhoAppends
  <2>2. PICK files \in Emits[t], cost \in CallCosts : EditorGenerates(t, files, cost)
    BY <2>1
  <2>3. editor_results'[Len(editor_results')] = [task |-> t, files |-> files]
    BY <1>1, <2>2 DEF EditorGenerates, SchedulingInv, TypeOK
  <2>4. t \in GetReadyTasks(tasks, plan.deps)
    BY <1>1, <2>2 DEF EditorGenerates, SchedulingInv, WaveInv
  <2> QED BY <2>3, <2>4 DEF GetReadyTasks
<1>2. SchedulingInv /\ [Next]_vars =>
        [editor_results' # editor_results =>
           LET task == editor_results'[Len(editor_results')].task
           IN  plan.deps[task] \subseteq Succeeded(tasks)]_vars
  BY <1>1
<1> QED BY <1>2, SchedulingCorrect, PTL DEF Spec, DependencyOrder

\* What a step may do to a task.
Kept(t) ==
  /\ tasks[t].status \in {"NEEDS_HUMAN", "SKIPPED"} => tasks'[t] = tasks[t]
  /\ tasks'[t].retry_count >= tasks[t].retry_count

\* Every step that changes tasks keeps the ones that are finished.
LEMMA TasksKept ==
  ASSUME SchedulingInv, [Next]_vars, NEW t \in Task
  PROVE  Kept(t)
<1> USE DEF taskVars
<1>0. tasks[t] \in MigrationTask /\ tasks[t].retry_count \in Nat
  BY DEF SchedulingInv, TypeOK, MigrationTask
<1>1. ASSUME tasks' = tasks PROVE Kept(t)
  BY <1>0, <1>1 DEF Kept
<1>2. CASE Review \/ ClockExpires \/ UNCHANGED vars
  BY <1>1, <1>2 DEF Review, ApprovalGate, ClockExpires, vars
<1>3. CASE \/ ComprehensionSkipped
           \/ \E p \in Plans \cup {NoPlan}, cost \in ExtractionCosts : Comprehend(p, cost)
           \/ \E cost \in ExtractionCosts : ComprehensionRaises(cost)
  BY <1>1, <1>3 DEF ComprehensionSkipped, Comprehend, ComprehensionRaises
<1>4. CASE Synthesis
  BY <1>4 DEF Synthesis, SchedulingInv, WaveInv, MergeTaskLists, Kept
<1>5. ASSUME NEW u \in Task, Editor(u) PROVE Kept(t)
  <2>1. CASE \E cost \in CallCosts : EditorRaises(u, cost)
    BY <1>1, <2>1 DEF EditorRaises
  <2>2. ASSUME ~ \E cost \in CallCosts : EditorRaises(u, cost)
        PROVE  /\ u \in sent
               /\ \E new : /\ tasks' = [tasks EXCEPT ![u] = new]
                           /\ \/ new.retry_count = tasks[u].retry_count
                              \/ new.retry_count = tasks[u].retry_count + 1
    <3>1. tasks \in [Task -> MigrationTask] /\ tasks[u] \in MigrationTask
      BY DEF SchedulingInv, TypeOK
    <3>2. CASE EditorSkips(u)
      <4>1. tasks' = [tasks EXCEPT ![u] = [tasks[u] EXCEPT !.status = "SKIPPED"]]
        BY <3>1, <3>2 DEF EditorSkips
      <4>2. [tasks[u] EXCEPT !.status = "SKIPPED"].retry_count = tasks[u].retry_count
        BY <3>1 DEF MigrationTask
      <4> QED BY <3>2, <4>1, <4>2 DEF EditorSkips
    <3>3. CASE EditorFails(u)
      <4>1. FailedAttempt(tasks[u]).retry_count = tasks[u].retry_count + 1
        BY DEF FailedAttempt
      <4> QED BY <3>3, <4>1 DEF EditorFails
    <3>4. ASSUME NEW files \in Emits[u], NEW cost \in CallCosts,
                 EditorGenerates(u, files, cost)
          PROVE  /\ u \in sent
                 /\ \E new : /\ tasks' = [tasks EXCEPT ![u] = new]
                             /\ new.retry_count = tasks[u].retry_count
      <4>1. tasks' = [tasks EXCEPT ![u] = [tasks[u] EXCEPT !.status = "SUCCEEDED"]]
        BY <3>1, <3>4 DEF EditorGenerates
      <4>2. [tasks[u] EXCEPT !.status = "SUCCEEDED"].retry_count = tasks[u].retry_count
        BY <3>1 DEF MigrationTask
      <4> QED BY <3>4, <4>1, <4>2 DEF EditorGenerates
    <3> QED BY <1>5, <2>2, <3>2, <3>3, <3>4 DEF Editor
  <2>3. ASSUME u \in sent PROVE tasks[u].status \in {"PENDING", "RETRYING"}
    BY <2>3 DEF SchedulingInv, WaveInv, GetReadyTasks
  <2> QED BY <1>0, <2>1, <2>2, <2>3 DEF Kept, SchedulingInv, TypeOK
<1>6. CASE ReconcileDelta \/ ReconcileDone
  BY <1>1, <1>6 DEF ReconcileDelta, ReconcileDone
<1>7. CASE \/ SandboxSkipped \/ SandboxRefuses \/ SandboxRaises
           \/ \E install, test \in ContainerEnd : SandboxRuns(install, test)
  BY <1>1, <1>7 DEF SandboxSkipped, SandboxRefuses, SandboxRuns, SandboxRaises
<1>8. CASE \/ NothingToAnalyse
           \/ \E cost \in CallCosts : AnalysisRaises(cost)
  BY <1>1, <1>8 DEF NothingToAnalyse, AnalysisRaises
<1>9. ASSUME t \in Candidates PROVE tasks[t].status = "SUCCEEDED"
  BY <1>9 DEF Candidates, Succeeded
<1>10. CASE AnalysisGivesUp
  <2>1. CASE t \in Candidates
    <3>1. tasks'[t] = [tasks[t] EXCEPT !.status = "NEEDS_HUMAN"]
      BY <1>10, <2>1 DEF AnalysisGivesUp, MergeTaskLists, Escalated
    <3>2. tasks'[t].retry_count = tasks[t].retry_count
      BY <1>0, <3>1 DEF MigrationTask
    <3> QED BY <1>0, <1>9, <2>1, <3>2 DEF Kept
  <2>2. CASE t \notin Candidates
    <3>1. tasks'[t] = tasks[t]
      BY <1>10, <2>2 DEF AnalysisGivesUp, MergeTaskLists, Escalated
    <3> QED BY <1>0, <3>1 DEF Kept
  <2> QED BY <2>1, <2>2
<1>11. ASSUME NEW entries \in SUBSET (Candidates \X BOOLEAN), NEW cost \in CallCosts,
              NEW verdict \in Verdicts(entries), Analyse(entries, verdict, cost)
       PROVE  Kept(t)
  <2>1. DOMAIN verdict \subseteq Candidates
    BY DEF Verdicts
  <2>2. CASE t \in DOMAIN verdict
    <3>1. tasks'[t].retry_count = tasks[t].retry_count + 1
      BY <1>11, <2>2 DEF Analyse, MergeTaskLists, Judged
    <3> QED BY <1>0, <1>9, <2>1, <2>2, <3>1 DEF Kept
  <2>3. CASE t \notin DOMAIN verdict
    <3>1. tasks'[t] = tasks[t]
      BY <1>11, <2>3 DEF Analyse, MergeTaskLists
    <3> QED BY <1>0, <3>1 DEF Kept
  <2> QED BY <2>2, <2>3
<1>12. CASE \/ Aggregate \/ RequestApproval \/ NotPublished
            \/ \E reached \in {"none", "branch", "pull"}, acknowledged \in BOOLEAN :
                 PrPublish(reached, acknowledged)
  BY <1>1, <1>12 DEF Aggregate, RequestApproval, NotPublished, PrPublish
<1>13. CASE BudgetAbort
  <2>1. CASE tasks[t].status \in Unfinished
    <3>1. tasks'[t] = [tasks[t] EXCEPT !.status = "SKIPPED"]
      BY <1>13, <2>1 DEF BudgetAbort
    <3>2. tasks'[t].retry_count = tasks[t].retry_count
      BY <1>0, <3>1 DEF MigrationTask
    <3> QED BY <1>0, <2>1, <3>2 DEF Kept, Unfinished
  <2>2. CASE tasks[t].status \notin Unfinished
    <3>1. tasks'[t] = tasks[t]
      BY <1>13, <2>2 DEF BudgetAbort
    <3> QED BY <1>0, <3>1 DEF Kept
  <2> QED BY <2>1, <2>2
<1> QED
  BY <1>2, <1>3, <1>4, <1>5, <1>6, <1>7, <1>8, <1>10, <1>11, <1>12, <1>13, Zenon
     DEF Next, GraphStep, Finished

\* An escalated or skipped task is never touched again and used retries are
\* never given back, for every plan and every sequence of verdicts.
THEOREM FinishedTasksStay == Spec => TerminalTasksStay
<1>1. SchedulingInv /\ [Next]_vars =>
        [\A t \in Task :
           /\ tasks[t].status \in {"NEEDS_HUMAN", "SKIPPED"} => tasks'[t] = tasks[t]
           /\ tasks'[t].retry_count >= tasks[t].retry_count]_vars
  BY TasksKept DEF Kept
<1> QED BY <1>1, SchedulingCorrect, PTL DEF Spec, TerminalTasksStay
=============================================================================
