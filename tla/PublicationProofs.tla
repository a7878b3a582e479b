------------------------- MODULE PublicationProofs --------------------------
(***************************************************************************)
(* What a run ships and what it says it did: the theorems about            *)
(* sandbox_test, aggregate, approval_gate and pr_publish, about the phase  *)
(* the status endpoint reports, and that the pipeline implements the       *)
(* safety part of the contract of a run.                                   *)
(***************************************************************************)
EXTENDS MigrationRun, MigrationGraphProofs

\* The nodes between the passing test run and the end, and those that have the
\* draft of the pull request.
Shipping == {"aggregate", "request_approval", "approval_gate", "pr_publish"}
Drafted  == {"request_approval", "approval_gate", "pr_publish"}

\* The generated files in the workspace are all the run's own, whatever rounds
\* wrote them; a passing result is never left over when the sandbox runs again;
\* once it has passed, the workspace holds the effective diffs and no other
\* generated file.
TestedInv ==
  /\ PathsOf(Generated(workspace)) \subseteq EverWritten(editor_results)
  /\ full_suite_result = "passed" => next \in Shipping \cup {"END"}
  /\ next \in Shipping => /\ full_suite_result = "passed"
                          /\ Generated(workspace) = Effective

\* The draft is made once and describes the effective diffs; publishing is the
\* last step.
DraftInv ==
  /\ pr_draft => next \in Drafted \cup {"END"}
  /\ next \in Drafted => aggregated_diff_paths = PathsOf(Effective)
  /\ github.branch => next = "END"
  /\ ~ github.branch => github.files = {}

PublicationInv ==
  /\ TypeOK /\ TestedInv /\ DraftInv
  /\ ShipsWhatWasTested /\ ShipsWhatWasApproved /\ ForbiddenPathsStayOut

-----------------------------------------------------------------------------
(* What the sandbox leaves in the workspace.                               *)

\* Removing the stale paths and writing the effective diffs leaves exactly the
\* effective diffs as generated files, if all generated files were the run's.
LEMMA TestedIsEffective ==
  ASSUME TypeOK, PathsOf(Generated(workspace)) \subseteq EverWritten(editor_results)
  PROVE  Generated(Tested(workspace)) = Effective
<1>1. Effective \subseteq Generated(File)
  BY EffectiveDiffsType DEF Effective, TypeOK
<1>2. ASSUME NEW f \in Generated(Tested(workspace)), f \notin Effective
      PROVE  FALSE
  <2>1. /\ f \in Generated(workspace) /\ f.path \notin Stale
        /\ f.path \notin PathsOf(Effective)
    BY <1>2 DEF Tested, ApplyDiffs, RemovePaths, Generated
  <2>2. f.path \in EverWritten(editor_results)
    BY <2>1 DEF PathsOf
  <2> QED BY <2>1, <2>2 DEF Stale, StalePaths, Effective
<1>3. Effective \subseteq Generated(Tested(workspace))
  BY <1>1 DEF Tested, ApplyDiffs, Generated
<1> QED BY <1>2, <1>3

\* Effective paths were written by some attempt, and are paths.
LEMMA EffectivePaths ==
  ASSUME TypeOK
  PROVE  /\ PathsOf(Effective) \subseteq EverWritten(editor_results)
         /\ PathsOf({}) = {}
<1>1. PathsOf(Effective) \subseteq EverWritten(editor_results)
  BY EffectiveDiffsType DEF Effective, TypeOK
<1>2. PathsOf({}) = {}
  BY DEF PathsOf
<1> QED BY <1>1, <1>2

-----------------------------------------------------------------------------
(* Every step keeps the invariant.                                         *)

\* A step that changes nothing the invariant speaks of.
LEMMA PublicationUnchanged ==
  ASSUME PublicationInv, TypeOK',
         UNCHANGED <<next, tasks, editor_results, full_suite_result, workspace>>,
         UNCHANGED <<pr_draft, aggregated_diff_paths, approval_status, github, config>>
  PROVE  PublicationInv'
<1>1. Effective' = Effective
  BY DEF Effective, Succeeded
<1>2. TestedInv' /\ DraftInv'
  BY <1>1 DEF PublicationInv, TestedInv, DraftInv
<1>3. ShipsWhatWasTested' /\ ShipsWhatWasApproved' /\ ForbiddenPathsStayOut'
  BY DEF PublicationInv, ShipsWhatWasTested, ShipsWhatWasApproved,
         ForbiddenPathsStayOut
<1> QED BY <1>2, <1>3 DEF PublicationInv

\* A step of the graph before the tests have passed, outside the sandbox.
EarlyStep ==
  /\ next \notin Shipping \cup Stopped /\ next' \notin Shipping
  /\ UNCHANGED <<full_suite_result, workspace>>
  /\ UNCHANGED <<pr_draft, aggregated_diff_paths, approval_status, github, config>>
  /\ EverWritten(editor_results) \subseteq EverWritten(editor_results')

\* Nothing is on GitHub yet, so such a step keeps the invariant.
LEMMA PublicationEarly ==
  ASSUME PublicationInv, TypeOK', EarlyStep
  PROVE  PublicationInv'
<1> USE DEF EarlyStep, Stopped
<1>1. ~ github.branch /\ github.files = {} /\ ~ pr_draft
  BY DEF PublicationInv, DraftInv, Drafted, Shipping
<1>2. TestedInv'
  BY DEF PublicationInv, TestedInv
<1>3. DraftInv'
  BY <1>1 DEF DraftInv, Drafted, Shipping
<1>4. ShipsWhatWasTested' /\ ShipsWhatWasApproved'
  BY <1>1 DEF ShipsWhatWasTested, ShipsWhatWasApproved
<1>5. ForbiddenPathsStayOut'
  BY DEF PublicationInv, ForbiddenPathsStayOut
<1> QED BY <1>2, <1>3, <1>4, <1>5 DEF PublicationInv

\* All the steps of that kind.
LEMMA StepsBeforeTests ==
  ASSUME TypeOK,
         \/ ComprehensionSkipped
         \/ \E p \in Plans \cup {NoPlan}, cost \in ExtractionCosts : Comprehend(p, cost)
         \/ \E cost \in ExtractionCosts : ComprehensionRaises(cost)
         \/ Synthesis
         \/ \E t \in Task : Editor(t)
         \/ ReconcileDone
         \/ NothingToAnalyse
         \/ AnalysisGivesUp
         \/ \E entries \in SUBSET (Candidates \X BOOLEAN), cost \in CallCosts :
              \E verdict \in Verdicts(entries) : Analyse(entries, verdict, cost)
         \/ \E cost \in CallCosts : AnalysisRaises(cost)
         \/ BudgetAbort
  PROVE  EarlyStep
<1> USE DEF EarlyStep, Shipping, Stopped, controlVars, taskVars, budgetVars, testVars,
        outputVars
<1>1. CASE \/ ComprehensionSkipped
           \/ \E cost \in ExtractionCosts : ComprehensionRaises(cost)
           \/ \E p \in Plans \cup {NoPlan}, cost \in ExtractionCosts : Comprehend(p, cost)
  BY <1>1 DEF ComprehensionSkipped, Comprehend, ComprehensionRaises,
              RouteAfterComprehension
<1>2. ASSUME NEW ACTION ts, NEW ACTION b, NEW nr \in {"sandbox_test", "END"},
             Dispatch(ts, b, nr)
      PROVE  next' \notin Shipping
  <2>1. PICK r \in Routes(ts, plan.deps, b, late, nr) : next' = r.next
    BY <1>2 DEF Dispatch
  <2> QED BY <2>1, RouterOutcome
<1>3. CASE Synthesis
  <2>1. next' \notin Shipping
    BY <1>2, <1>3 DEF Synthesis
  <2> QED BY <1>3, <2>1 DEF Synthesis
<1>4. ASSUME NEW t \in Task, Editor(t) PROVE EarlyStep
  <2>1. CASE EditorSkips(t)
    BY <2>1 DEF EditorSkips, EndBranch
  <2>2. CASE EditorFails(t)
    BY <2>2 DEF EditorFails, EndBranch
  <2>3. ASSUME NEW files \in Emits[t], NEW cost \in CallCosts,
               EditorGenerates(t, files, cost)
        PROVE  EarlyStep
    <3>1. \A k \in DOMAIN editor_results :
            k \in DOMAIN editor_results' /\ editor_results'[k] = editor_results[k]
      BY <2>3 DEF EditorGenerates, TypeOK
    <3>2. EverWritten(editor_results) \subseteq EverWritten(editor_results')
      BY <3>1 DEF EverWritten
    <3> QED BY <2>3, <3>2 DEF EditorGenerates, EndBranch
  <2>4. CASE \E cost \in CallCosts : EditorRaises(t, cost)
    BY <2>4 DEF EditorRaises
  <2> QED BY <1>4, <2>1, <2>2, <2>3, <2>4 DEF Editor
<1>5. CASE ReconcileDone
  <2>1. next' \notin Shipping
    BY <1>2, <1>5 DEF ReconcileDone
  <2> QED BY <1>5, <2>1 DEF ReconcileDone
<1>6. CASE NothingToAnalyse \/ AnalysisGivesUp
  <2>1. next' \notin Shipping
    BY <1>2, <1>6 DEF NothingToAnalyse, AnalysisGivesUp
  <2> QED BY <1>6, <2>1 DEF NothingToAnalyse, AnalysisGivesUp
<1>7. ASSUME NEW entries \in SUBSET (Candidates \X BOOLEAN), NEW cost \in CallCosts,
             NEW verdict \in Verdicts(entries), Analyse(entries, verdict, cost)
      PROVE  EarlyStep
  <2>1. next' \notin Shipping
    BY <1>2, <1>7 DEF Analyse
  <2> QED BY <1>7, <2>1 DEF Analyse
<1>8. CASE \/ BudgetAbort
           \/ \E cost \in CallCosts : AnalysisRaises(cost)
  BY <1>8 DEF AnalysisRaises, BudgetAbort
<1> QED BY <1>1, <1>3, <1>4, <1>5, <1>6, <1>7, <1>8

\* A step of the sandbox: whichever way it ends, what it leaves is the run's own
\* and safe, and only a run of the tests on exactly the effective diffs passes.
SandboxEnds ==
  /\ next = "sandbox_test"
  /\ UNCHANGED <<tasks, editor_results>>
  /\ UNCHANGED <<pr_draft, aggregated_diff_paths, approval_status, github, config>>
  /\ PathsOf(Generated(workspace')) \subseteq EverWritten(editor_results)
  /\ PathsOf(Generated(workspace')) \cap UnsafePaths = {}
  /\ \/ next' \in {"error_analysis", "raised"} /\ full_suite_result' # "passed"
     \/ /\ next' = "aggregate" /\ full_suite_result' = "passed"
        /\ Generated(workspace') = Effective

\* A step of that kind keeps the invariant.
LEMMA PublicationSandbox ==
  ASSUME PublicationInv, TypeOK', SandboxEnds
  PROVE  PublicationInv'
<1> USE DEF SandboxEnds
<1>1. ~ github.branch /\ github.files = {} /\ ~ pr_draft
  BY DEF PublicationInv, DraftInv, Drafted
<1>2. Effective' = Effective
  BY DEF Effective, Succeeded
<1>3. TestedInv'
  BY <1>2 DEF TestedInv, Shipping
<1>4. DraftInv'
  BY <1>1 DEF DraftInv, Drafted
<1>5. ShipsWhatWasTested' /\ ShipsWhatWasApproved'
  BY <1>1 DEF ShipsWhatWasTested, ShipsWhatWasApproved
<1>6. ForbiddenPathsStayOut'
  BY <1>1, EffectivePaths DEF PublicationInv, ForbiddenPathsStayOut
<1> QED BY <1>3, <1>4, <1>5, <1>6 DEF PublicationInv

\* The four outcomes of sandbox_test are of that kind.
LEMMA SandboxSteps ==
  ASSUME PublicationInv,
         \/ SandboxSkipped
         \/ SandboxRefuses
         \/ \E install, test \in ContainerEnd : SandboxRuns(install, test)
         \/ SandboxRaises
  PROVE  SandboxEnds
<1> USE DEF SandboxEnds, taskVars, testVars, outputVars
<1>1. next = "sandbox_test" /\ full_suite_result # "passed"
  BY DEF SandboxSkipped, SandboxRefuses, SandboxRuns, SandboxRaises,
         PublicationInv, TestedInv, Shipping
<1>2. /\ PathsOf(Generated(workspace)) \subseteq EverWritten(editor_results)
      /\ PathsOf(Generated(workspace)) \cap UnsafePaths = {}
  BY DEF PublicationInv, TestedInv, ForbiddenPathsStayOut
<1>3. PathsOf(Generated(RemovePaths(workspace, Stale))) \subseteq PathsOf(Generated(workspace))
  BY DEF PathsOf, Generated, RemovePaths
<1>4. CASE SandboxSkipped
  BY <1>1, <1>2, <1>4 DEF SandboxSkipped, RouteAfterSandbox
<1>5. CASE SandboxRefuses
  <2>1. workspace' = workspace \/ workspace' = RemovePaths(workspace, Stale)
    BY <1>5 DEF SandboxRefuses
  <2>2. /\ PathsOf(Generated(workspace')) \subseteq EverWritten(editor_results)
        /\ PathsOf(Generated(workspace')) \cap UnsafePaths = {}
    BY <1>2, <1>3, <2>1
  <2> QED BY <1>1, <1>5, <2>2 DEF SandboxRefuses, RouteAfterSandbox
<1>6. ASSUME ~ PathRefused, workspace' = Tested(workspace)
      PROVE  /\ Generated(workspace') = Effective
             /\ PathsOf(Generated(workspace')) \subseteq EverWritten(editor_results)
             /\ PathsOf(Generated(workspace')) \cap UnsafePaths = {}
  <2>1. Generated(workspace') = Effective
    BY <1>2, <1>6, TestedIsEffective DEF PublicationInv
  <2>2. PathsOf(Effective) \subseteq EverWritten(editor_results)
    BY EffectivePaths DEF PublicationInv
  <2>3. PathsOf(Effective) \cap UnsafePaths = {}
    BY <1>6 DEF PathRefused
  <2> QED BY <2>1, <2>2, <2>3
<1>7. ASSUME NEW install \in ContainerEnd, NEW test \in ContainerEnd,
             SandboxRuns(install, test)
      PROVE  SandboxEnds
  BY <1>6, <1>7 DEF SandboxRuns, SandboxOutcome, ParseTestOutput, RouteAfterSandbox
<1>8. CASE SandboxRaises
  BY <1>1, <1>6, <1>8 DEF SandboxRaises
<1> QED BY <1>4, <1>5, <1>7, <1>8

\* aggregate drafts the pull request from the diffs that were tested.
LEMMA PublicationAggregate ==
  ASSUME PublicationInv, TypeOK', Aggregate
  PROVE  PublicationInv'
<1> USE DEF taskVars, testVars, outputVars, Aggregate
<1>1. next = "aggregate" /\ next' \in Drafted \cup {"END"}
  BY DEF RouteAfterAggregate, Drafted
<1>2. ~ github.branch /\ github.files = {} /\ ~ pr_draft
  BY <1>1 DEF PublicationInv, DraftInv, Drafted
<1>3. Effective' = Effective
  BY DEF Effective, Succeeded
<1>4. next' \in Drafted => aggregated_diff_paths' = PathsOf(Effective)
  BY <1>2 DEF RouteAfterAggregate, Drafted
<1>5. TestedInv'
  BY <1>1, <1>3 DEF PublicationInv, TestedInv, Shipping, Drafted
<1>6. DraftInv'
  BY <1>1, <1>2, <1>3, <1>4 DEF DraftInv
<1>7. ShipsWhatWasTested' /\ ShipsWhatWasApproved'
  BY <1>2 DEF ShipsWhatWasTested, ShipsWhatWasApproved
<1>8. ForbiddenPathsStayOut'
  BY DEF PublicationInv, ForbiddenPathsStayOut
<1> QED BY <1>5, <1>6, <1>7, <1>8 DEF PublicationInv

\* Asking for approval, the answer, and the early returns of pr_publish.
LEMMA PublicationReview ==
  ASSUME PublicationInv, TypeOK', RequestApproval \/ Review \/ NotPublished
  PROVE  PublicationInv'
<1> USE DEF taskVars, testVars, outputVars
<1>1. /\ next \in Drafted /\ next' \in Drafted \cup {"END"}
      /\ UNCHANGED <<tasks, editor_results, full_suite_result, workspace>>
      /\ UNCHANGED <<pr_draft, aggregated_diff_paths, github, config>>
  BY DEF RequestApproval, Review, ApprovalGate, NotPublished, RouteAfterApproval,
         Drafted
<1>2. ~ github.branch /\ github.files = {}
  BY <1>1 DEF PublicationInv, DraftInv, Drafted
<1>3. Effective' = Effective
  BY <1>1 DEF Effective, Succeeded
<1>4. TestedInv'
  BY <1>1, <1>3 DEF PublicationInv, TestedInv, Shipping, Drafted
<1>5. DraftInv'
  BY <1>1, <1>2, <1>3 DEF PublicationInv, DraftInv
<1>6. ShipsWhatWasTested' /\ ShipsWhatWasApproved'
  BY <1>1, <1>2 DEF ShipsWhatWasTested, ShipsWhatWasApproved
<1>7. ForbiddenPathsStayOut'
  BY <1>1 DEF PublicationInv, ForbiddenPathsStayOut
<1> QED BY <1>4, <1>5, <1>6, <1>7 DEF PublicationInv

\* pr_publish, however far the publisher gets.
LEMMA PublicationPublish ==
  ASSUME PublicationInv, TypeOK', NEW reached \in {"none", "branch", "pull"},
         NEW acknowledged \in BOOLEAN, PrPublish(reached, acknowledged)
  PROVE  PublicationInv'
<1> USE DEF taskVars, testVars, outputVars, PrPublish, Publish
<1>1. next = "pr_publish" /\ next' = "END"
  OBVIOUS
<1>2. /\ ~ github.branch /\ github.files = {}
      /\ aggregated_diff_paths = PathsOf(Effective)
      /\ full_suite_result = "passed" /\ Generated(workspace) = Effective
  BY <1>1 DEF PublicationInv, DraftInv, TestedInv, Drafted, Shipping
<1>3. CASE reached = "none"
  <2>1. ~ github'.branch /\ github'.files = {}
    BY <1>2, <1>3
  <2>2. TestedInv' /\ DraftInv'
    BY <1>1, <2>1 DEF PublicationInv, TestedInv, DraftInv, Shipping, Drafted
  <2>3. ShipsWhatWasTested' /\ ShipsWhatWasApproved'
    BY <2>1 DEF ShipsWhatWasTested, ShipsWhatWasApproved
  <2>4. ForbiddenPathsStayOut'
    BY <2>1, EffectivePaths DEF PublicationInv, ForbiddenPathsStayOut
  <2> QED BY <2>2, <2>3, <2>4 DEF PublicationInv
<1>4. CASE reached # "none"
  <2>1. github'.branch /\ github'.files = Effective
    BY <1>4
  <2>2. TestedInv' /\ DraftInv'
    BY <1>1, <2>1 DEF PublicationInv, TestedInv, DraftInv, Shipping, Drafted
  <2>3. ShipsWhatWasTested'
    BY <1>2, <2>1 DEF ShipsWhatWasTested
  <2>4. ShipsWhatWasApproved'
    BY <1>2, <2>1 DEF ShipsWhatWasApproved, MayPublish, NeedsHumanApproval
  <2>5. ForbiddenPathsStayOut'
    BY <1>4, <2>1 DEF PublicationInv, ForbiddenPathsStayOut, Publishable
  <2> QED BY <2>2, <2>3, <2>4, <2>5 DEF PublicationInv
<1> QED BY <1>3, <1>4

\* The invariant is inductive.
LEMMA PublicationStep ==
  ASSUME PublicationInv, [Next]_vars
  PROVE  PublicationInv'
<1>1. TypeOK /\ TypeOK'
  BY NextType DEF PublicationInv
<1>2. CASE ReconcileDelta \/ ClockExpires \/ UNCHANGED vars
  <2>1. /\ UNCHANGED <<next, tasks, editor_results, full_suite_result, workspace>>
        /\ UNCHANGED <<pr_draft, aggregated_diff_paths, approval_status, github, config>>
    BY <1>2 DEF ReconcileDelta, ClockExpires, vars, controlVars, taskVars, testVars,
                outputVars
  <2> QED BY <1>1, <2>1, PublicationUnchanged
<1>3. CASE GraphStep
  BY <1>1, <1>2, <1>3, StepsBeforeTests, PublicationEarly, SandboxSteps,
     PublicationSandbox, PublicationAggregate, PublicationReview, PublicationPublish,
     Zenon DEF GraphStep
<1>4. CASE Review
  BY <1>1, <1>4, PublicationReview
<1> QED BY <1>2, <1>3, <1>4 DEF Next, Finished

\* It holds when a run starts: the workspace is a clone of the target.
LEMMA PublicationInit == Init => PublicationInv
<1> SUFFICES ASSUME Init PROVE PublicationInv
  OBVIOUS
<1>1. TypeOK
  BY InitType
<1>2. Generated(workspace) = {}
  BY DEF Init, Generated
<1>3. PathsOf(Generated(workspace)) = {} /\ PathsOf({}) = {}
  BY <1>2 DEF PathsOf
<1>4. TestedInv
  BY <1>3 DEF Init, TestedInv, Shipping
<1>5. DraftInv
  BY DEF Init, DraftInv, Drafted
<1>6. ShipsWhatWasTested /\ ShipsWhatWasApproved /\ ForbiddenPathsStayOut
  BY <1>3 DEF Init, ShipsWhatWasTested, ShipsWhatWasApproved, ForbiddenPathsStayOut
<1> QED BY <1>1, <1>4, <1>5, <1>6 DEF PublicationInv

\* The publication invariant holds throughout every run.
THEOREM PublicationCorrect == Spec => []PublicationInv
<1>1. PublicationInv /\ [Next]_vars => PublicationInv'
  BY PublicationStep
<1> QED BY PublicationInit, <1>1, PTL DEF Spec

-----------------------------------------------------------------------------
(* The properties the runs check.                                          *)

\* What reaches GitHub is the generated code that passed the tests, for every
\* plan, every mix of attempts and every number of rounds.
THEOREM TestedIsShipped == Spec => []ShipsWhatWasTested
<1>1. PublicationInv => ShipsWhatWasTested
  BY DEF PublicationInv
<1> QED BY PublicationCorrect, <1>1, PTL

\* Where approval is required nothing reaches GitHub without it, and what does
\* has the paths the reviewer was shown.
THEOREM ApprovedIsShipped == Spec => []ShipsWhatWasApproved
<1>1. PublicationInv => ShipsWhatWasApproved
  BY DEF PublicationInv
<1> QED BY PublicationCorrect, <1>1, PTL

\* Nothing is written outside the workspace and nothing unpublishable is
\* published, whatever paths the language model chose.
THEOREM ForbiddenPathsNeverOut == Spec => []ForbiddenPathsStayOut
<1>1. PublicationInv => ForbiddenPathsStayOut
  BY DEF PublicationInv
<1> QED BY PublicationCorrect, <1>1, PTL
-----------------------------------------------------------------------------
(* The phase the status endpoint reports at the end of a run.              *)

\* Until the run ends nothing is on GitHub and no final phase is set, except
\* that an aborted run passes through budget_abort.
UnderWayInv ==
  /\ next # "END" => /\ ~ github.branch /\ ~ github.pr /\ ~ pr_url
                     /\ phase \notin {"DONE", "REJECTED"}
  /\ phase = "ABORTED_BUDGET" => next \in {"budget_abort", "END"}

PhaseInv == TypeOK /\ UnderWayInv /\ FinalPhaseIsTruthful

\* A step that publishes nothing, and ends the run neither as done nor as
\* aborted.
PlainStep ==
  /\ next # "END" /\ github' = github /\ pr_url' = pr_url
  /\ phase' # "DONE"
  /\ phase' = "REJECTED" => next' = "END"
  /\ phase' = "ABORTED_BUDGET" => next' = "budget_abort"

\* Such a step keeps the invariant.
LEMMA PlainPhase ==
  ASSUME PhaseInv, TypeOK', PlainStep
  PROVE  PhaseInv'
<1> USE DEF PlainStep
<1>1. ~ github.branch /\ ~ github.pr /\ ~ pr_url
  BY DEF PhaseInv, UnderWayInv
<1>2. UnderWayInv'
  BY <1>1 DEF UnderWayInv
<1>3. FinalPhaseIsTruthful'
  BY <1>1 DEF FinalPhaseIsTruthful
<1> QED BY <1>2, <1>3 DEF PhaseInv

\* The steps of that kind: all but the end of pr_publish and budget_abort.
LEMMA PlainSteps ==
  ASSUME PhaseInv,
         \/ ComprehensionSkipped
         \/ \E p \in Plans \cup {NoPlan}, cost \in ExtractionCosts : Comprehend(p, cost)
         \/ \E cost \in ExtractionCosts : ComprehensionRaises(cost)
         \/ Synthesis
         \/ \E t \in Task : Editor(t)
         \/ ReconcileDelta
         \/ ReconcileDone
         \/ SandboxSkipped
         \/ SandboxRefuses
         \/ \E install, test \in ContainerEnd : SandboxRuns(install, test)
         \/ SandboxRaises
         \/ NothingToAnalyse
         \/ AnalysisGivesUp
         \/ \E entries \in SUBSET (Candidates \X BOOLEAN), cost \in CallCosts :
              \E verdict \in Verdicts(entries) : Analyse(entries, verdict, cost)
         \/ \E cost \in CallCosts : AnalysisRaises(cost)
         \/ Aggregate
         \/ RequestApproval
         \/ Review
  PROVE  PlainStep
<1> USE DEF PlainStep, controlVars, outputVars
<1>1. next # "END" => phase \notin {"DONE", "REJECTED"}
  BY DEF PhaseInv, UnderWayInv
<1>2. next \notin {"budget_abort", "END"} => phase # "ABORTED_BUDGET"
  BY DEF PhaseInv, UnderWayInv
<1>3. CASE \/ ComprehensionSkipped
           \/ \E cost \in ExtractionCosts : ComprehensionRaises(cost)
           \/ \E p \in Plans \cup {NoPlan}, cost \in ExtractionCosts : Comprehend(p, cost)
  BY <1>1, <1>2, <1>3 DEF ComprehensionSkipped, Comprehend, ComprehensionRaises,
                          RouteAfterComprehension
<1>4. CASE Synthesis \/ ReconcileDelta \/ ReconcileDone
  BY <1>1, <1>2, <1>4 DEF Synthesis, ReconcileDelta, ReconcileDone
<1>5. ASSUME NEW t \in Task, Editor(t) PROVE PlainStep
  BY <1>1, <1>2, <1>5
     DEF Editor, EditorSkips, EditorFails, EditorGenerates, EditorRaises
<1>6. CASE \/ SandboxSkipped \/ SandboxRefuses \/ SandboxRaises
           \/ \E install, test \in ContainerEnd : SandboxRuns(install, test)
  BY <1>1, <1>2, <1>6 DEF SandboxSkipped, SandboxRefuses, SandboxRuns, SandboxRaises
<1>7. CASE \/ NothingToAnalyse \/ AnalysisGivesUp
           \/ \E cost \in CallCosts : AnalysisRaises(cost)
  BY <1>1, <1>2, <1>7 DEF NothingToAnalyse, AnalysisGivesUp, AnalysisRaises
<1>8. ASSUME NEW entries \in SUBSET (Candidates \X BOOLEAN), NEW cost \in CallCosts,
             NEW verdict \in Verdicts(entries), Analyse(entries, verdict, cost)
      PROVE  PlainStep
  BY <1>8 DEF Analyse
<1>9. CASE Aggregate \/ RequestApproval
  BY <1>9 DEF Aggregate, RequestApproval
<1>10. CASE Review
  BY <1>10 DEF Review, ApprovalGate, RouteAfterApproval
<1> QED BY <1>3, <1>4, <1>5, <1>6, <1>7, <1>8, <1>9, <1>10

\* The early returns of pr_publish: a dry run is done without a pull request.
LEMMA NotPublishedPhase ==
  ASSUME PhaseInv, TypeOK', NotPublished
  PROVE  PhaseInv'
<1> USE DEF NotPublished, outputVars
<1>1. /\ ~ github.branch /\ ~ github.pr /\ ~ pr_url /\ phase \notin {"DONE", "REJECTED"}
      /\ phase # "ABORTED_BUDGET"
  BY DEF PhaseInv, UnderWayInv
<1>2. phase' = "DONE" => ~ config.github_target_repo
  BY <1>1
<1>3. UnderWayInv'
  BY DEF UnderWayInv
<1>4. FinalPhaseIsTruthful'
  BY <1>1, <1>2 DEF FinalPhaseIsTruthful
<1> QED BY <1>3, <1>4 DEF PhaseInv

\* The publisher: done exactly if the pull request was acknowledged.
LEMMA PublishedPhase ==
  ASSUME PhaseInv, TypeOK', NEW reached \in {"none", "branch", "pull"},
         NEW acknowledged \in BOOLEAN, PrPublish(reached, acknowledged)
  PROVE  PhaseInv'
<1> USE DEF PrPublish, Publish, MayPublish
<1>1. next' = "END" /\ config' = config /\ config.github_target_repo
  OBVIOUS
<1>2. acknowledged => github'.pr
  OBVIOUS
<1>3. /\ phase' \in {"DONE", "FAILED"} /\ pr_url' = acknowledged
      /\ phase' = "DONE" => acknowledged
  OBVIOUS
<1>4. UnderWayInv'
  BY <1>1, <1>3 DEF UnderWayInv
<1>5. FinalPhaseIsTruthful'
  BY <1>1, <1>2, <1>3 DEF FinalPhaseIsTruthful
<1> QED BY <1>4, <1>5 DEF PhaseInv

\* budget_abort leaves no unfinished task.
LEMMA AbortedPhase ==
  ASSUME PhaseInv, TypeOK', BudgetAbort
  PROVE  PhaseInv'
<1> USE DEF BudgetAbort, outputVars
<1>1. ~ github.branch /\ ~ github.pr /\ ~ pr_url
  BY DEF PhaseInv, UnderWayInv
<1>2. ASSUME NEW t \in Task PROVE tasks'[t].status \notin {"PENDING", "RETRYING"}
  BY DEF Unfinished, PhaseInv, TypeOK, MigrationTask
<1>3. UnderWayInv'
  BY DEF UnderWayInv
<1>4. FinalPhaseIsTruthful'
  BY <1>1, <1>2 DEF FinalPhaseIsTruthful
<1> QED BY <1>3, <1>4 DEF PhaseInv

\* The invariant is inductive.
LEMMA PhaseStep ==
  ASSUME PhaseInv, [Next]_vars
  PROVE  PhaseInv'
<1>1. TypeOK'
  BY NextType DEF PhaseInv
<1>2. CASE ClockExpires \/ UNCHANGED vars
  <2>1. UNCHANGED <<next, phase, tasks, config, pr_url, github>>
    BY <1>2 DEF ClockExpires, vars, controlVars, taskVars, outputVars
  <2> QED BY <1>1, <2>1 DEF PhaseInv, UnderWayInv, FinalPhaseIsTruthful
<1>3. CASE GraphStep
  BY <1>1, <1>3, PlainSteps, PlainPhase, NotPublishedPhase, PublishedPhase,
     AbortedPhase, Zenon DEF GraphStep
<1>4. CASE Review
  BY <1>1, <1>4, PlainSteps, PlainPhase
<1> QED BY <1>2, <1>3, <1>4 DEF Next, Finished

\* It holds when a run starts.
LEMMA PhaseInit == Init => PhaseInv
BY InitType DEF Init, PhaseInv, UnderWayInv, FinalPhaseIsTruthful

\* The final phase of a run says what happened, for every plan, budget and
\* environment: done means published (or a dry run), rejected, aborted and
\* needs_human mean that nothing was, and no aborted run hides unfinished work.
THEOREM FinalPhaseTruth == Spec => []FinalPhaseIsTruthful
<1>1. PhaseInv /\ [Next]_vars => PhaseInv'
  BY PhaseStep
<1>2. PhaseInv => FinalPhaseIsTruthful
  BY DEF PhaseInv
<1> QED BY PhaseInit, <1>1, <1>2, PTL DEF Spec
-----------------------------------------------------------------------------
(* The pipeline implements the safety part of the contract of a run.  (Its *)
(* liveness part is checked by TLC.)                                       *)

\* Only a run that must be approved reaches the gate, nobody has decided before
\* it does, and the only way on from a decision is a yes.
GateInv ==
  /\ next \in {"request_approval", "approval_gate"} =>
       config.github_target_repo /\ config.require_human_approval_before_pr
  /\ approval_status # "none" => next \in {"pr_publish", "END"}

RunInv == PublicationInv /\ GateInv

\* A step of the pipeline that an observer of the run does not see, or sees as
\* its end without publication.
PlainOrEnd ==
  /\ next \notin Stopped \cup {"approval_gate"} /\ next' # "approval_gate"
  /\ UNCHANGED <<config, approval_status, github>>
  /\ next' = "request_approval" => NeedsHumanApproval(config)
  /\ next = "pr_publish" => next' = "END"

\* Which steps these are: all but the two around the gate, the publication and
\* those that leave `next' alone.
LEMMA PlainOrEndSteps ==
  ASSUME RunInv, GraphStep, ~ RequestApproval, next' # next,
         ~ \E reached \in {"none", "branch", "pull"}, acknowledged \in BOOLEAN :
             PrPublish(reached, acknowledged)
  PROVE  PlainOrEnd
<1> USE DEF PlainOrEnd, outputVars, Stopped
<1>1. ASSUME EarlyStep PROVE PlainOrEnd
  BY <1>1 DEF EarlyStep, Shipping
<1>2. ASSUME SandboxEnds PROVE PlainOrEnd
  BY <1>2 DEF SandboxEnds
<1>3. CASE Aggregate
  BY <1>3 DEF Aggregate, RouteAfterAggregate
<1>4. CASE NotPublished
  BY <1>4 DEF NotPublished
<1>5. ~ ReconcileDelta
  BY DEF ReconcileDelta, controlVars
<1>6. TypeOK /\ PublicationInv
  BY DEF RunInv, PublicationInv
<1> QED
  BY <1>1, <1>2, <1>3, <1>4, <1>5, <1>6, StepsBeforeTests, SandboxSteps, Zenon
     DEF GraphStep

\* Such a step is one of the contract, or stutters, and keeps the invariant.
LEMMA PlainOrEndContract ==
  ASSUME RunInv, PlainOrEnd
  PROVE  GateInv' /\ [Contract!Next]_Contract!vars
<1> USE DEF PlainOrEnd
<1>1. GateInv'
  BY DEF RunInv, GateInv, NeedsHumanApproval, Stopped
<1>2. github.branch = FALSE
  BY DEF RunInv, PublicationInv, DraftInv, TypeOK, Stopped
<1>3. stage = "running"
  BY DEF stage
<1>4. CASE next' \notin Stopped
  <2>1. stage' = "running"
    BY <1>4 DEF stage
  <2>2. UNCHANGED Contract!vars
    BY <1>3, <2>1 DEF Contract!vars
  <2> QED BY <1>1, <2>2
<1>5. CASE next' \in Stopped
  <2>1. stage' = "ended"
    BY <1>5 DEF stage
  <2>2. Contract!End(FALSE)
    BY <1>2, <1>3, <2>1 DEF Contract!End
  <2> QED BY <1>1, <2>2 DEF Contract!Next
<1> QED BY <1>4, <1>5

\* The invariant is inductive and every step is one of the contract.
LEMMA RunStep ==
  ASSUME RunInv, [Next]_vars
  PROVE  RunInv' /\ [Contract!Next]_Contract!vars
<1> USE DEF outputVars
<1> SUFFICES GateInv' /\ [Contract!Next]_Contract!vars
  BY PublicationStep DEF RunInv
<1>1. PublicationInv'
  BY PublicationStep DEF RunInv
<1>3. ASSUME UNCHANGED <<next, config, approval_status, github>>
      PROVE  GateInv' /\ [Contract!Next]_Contract!vars
  BY <1>3 DEF RunInv, GateInv, Contract!vars, stage
<1>4. CASE RequestApproval
  <2>1. /\ next = "request_approval" /\ next' = "approval_gate"
        /\ UNCHANGED <<config, approval_status, github>>
    BY <1>4 DEF RequestApproval
  <2>2. /\ config.github_target_repo /\ config.require_human_approval_before_pr
        /\ approval_status = "none"
    BY <2>1 DEF RunInv, GateInv
  <2>3. GateInv'
    BY <2>1, <2>2 DEF GateInv
  <2>4. stage = "running" /\ stage' = "awaiting"
    BY <2>1 DEF stage, Stopped
  <2>5. Contract!Pause
    BY <2>1, <2>2, <2>4 DEF Contract!Pause
  <2> QED BY <2>3, <2>5 DEF Contract!Next
<1>5. ASSUME NEW approved \in BOOLEAN, ApprovalGate(approved)
      PROVE  GateInv' /\ [Contract!Next]_Contract!vars
  <2>1. next = "approval_gate" /\ UNCHANGED <<config, github>>
    BY <1>5 DEF ApprovalGate
  <2>2. CASE approved
    <3>1. next' = "pr_publish" /\ approval_status' = "approved"
      BY <1>5, <2>2 DEF ApprovalGate, RouteAfterApproval
    <3>2. stage = "awaiting" /\ stage' = "running"
      BY <2>1, <3>1 DEF stage, Stopped
    <3>3. Contract!Approve
      BY <2>1, <3>1, <3>2 DEF Contract!Approve
    <3>4. GateInv'
      BY <3>1 DEF GateInv
    <3> QED BY <3>3, <3>4 DEF Contract!Next
  <2>3. CASE ~ approved
    <3>1. next' = "END" /\ approval_status' = "rejected"
      BY <1>5, <2>3 DEF ApprovalGate, RouteAfterApproval
    <3>2. stage = "awaiting" /\ stage' = "ended"
      BY <2>1, <3>1 DEF stage, Stopped
    <3>3. Contract!Reject
      BY <2>1, <3>1, <3>2 DEF Contract!Reject
    <3>4. GateInv'
      BY <3>1 DEF GateInv
    <3> QED BY <3>3, <3>4 DEF Contract!Next
  <2> QED BY <2>2, <2>3
<1>6. ASSUME NEW reached \in {"none", "branch", "pull"}, NEW acknowledged \in BOOLEAN,
             PrPublish(reached, acknowledged)
      PROVE  GateInv' /\ [Contract!Next]_Contract!vars
  <2>1. /\ next = "pr_publish" /\ next' = "END"
        /\ UNCHANGED <<config, approval_status>> /\ MayPublish
    BY <1>6 DEF PrPublish
  <2>2. GateInv'
    BY <2>1 DEF GateInv
  <2>3. stage = "running" /\ stage' = "ended"
    BY <2>1 DEF stage, Stopped
  <2>4. github'.branch \in BOOLEAN
    BY <1>1 DEF PublicationInv, TypeOK
  <2>5. Contract!End(github'.branch)
    BY <2>1, <2>3, <2>4 DEF Contract!End, MayPublish, NeedsHumanApproval
  <2> QED BY <2>2, <2>4, <2>5 DEF Contract!Next
<1>7. CASE GraphStep /\ next' = next
  <2>1. UNCHANGED <<config, approval_status, github>>
    BY <1>7 DEF GraphStep, ComprehensionSkipped, Comprehend, ComprehensionRaises,
       Synthesis, Editor, EditorSkips, EditorFails, EditorGenerates, EditorRaises,
       ReconcileDelta, ReconcileDone, SandboxSkipped, SandboxRefuses, SandboxRuns,
       SandboxRaises, NothingToAnalyse, AnalysisGivesUp, Analyse, AnalysisRaises,
       Aggregate, RequestApproval, NotPublished, PrPublish, BudgetAbort
  <2> QED BY <1>3, <1>7, <2>1
<1>8. CASE GraphStep /\ next' # next
  BY <1>4, <1>6, <1>8, PlainOrEndSteps, PlainOrEndContract
<1>9. CASE ClockExpires \/ UNCHANGED vars
  BY <1>3, <1>9 DEF ClockExpires, vars, controlVars
<1> QED
  BY <1>5, <1>7, <1>8, <1>9 DEF Next, Review, Finished

\* A run starts as the contract says.
LEMMA RunInit == Init => RunInv /\ Contract!Init
<1> SUFFICES ASSUME Init PROVE RunInv /\ Contract!Init
  OBVIOUS
<1>1. GateInv
  BY DEF Init, GateInv
<1>2. stage = "running"
  BY DEF Init, stage, Stopped
<1>3. (config.github_target_repo /\ config.require_human_approval_before_pr) \in BOOLEAN
  OBVIOUS
<1>4. Contract!Init
  BY <1>2, <1>3 DEF Init, Contract!Init
<1> QED BY <1>1, <1>4, PublicationInit DEF RunInv

\* Whatever waves, retries and failures it goes through, a run is seen from
\* outside to pause only if it must be approved, to touch GitHub at most once,
\* as its last step, and after a yes where one is required.
THEOREM ContractIsKept == Spec => Contract!Safety
<1>1. RunInv /\ [Next]_vars => RunInv' /\ [Contract!Next]_Contract!vars
  BY RunStep
<1> QED BY RunInit, <1>1, PTL DEF Spec, Contract!Safety
=============================================================================
