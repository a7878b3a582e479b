---------------------------- MODULE BudgetProofs ----------------------------
(***************************************************************************)
(* What a run spends: the theorems about the two-step accounting of calls  *)
(* and costs (budget_deltas, then budget_reconcile), the ceiling on calls, *)
(* and how far a run goes past its cost ceiling.                           *)
(***************************************************************************)
EXTENDS MigrationGraphProofs, InductionProofs

\* Outside a wave, and unless an exception cut one short, every delta has been
\* consumed: the router never decides on a stale budget.
SettledInv ==
  next \notin {"editor", "budget_reconcile", "raised"}
    => budget_deltas_consumed = Len(budget_deltas)

\* The calls made and those the wave can still make.
WaveCalls ==
  next = "editor" => billed.calls + Cardinality(sent) < MaxLlmCalls + NumTasks

CallsInv == TypeOK /\ CallsCounted /\ SettledInv /\ WaveCalls /\ CallCeiling

-----------------------------------------------------------------------------
(* Facts about waves and calls.                                            *)

\* A wave has at most as many branches as there are tasks.
LEMMA WaveSize ==
  ASSUME NEW S \in SUBSET Task
  PROVE  IsFiniteSet(S) /\ Cardinality(S) \in Nat /\ Cardinality(S) <= NumTasks
<1>1. NumTasks \in Nat
  BY GraphAssumption
<1>2. IsFiniteSet(Task) /\ Cardinality(Task) = NumTasks
  BY <1>1, FS_Interval DEF Task
<1> QED BY <1>2, FS_Subset, FS_CardinalityType

\* The numbers involved.
LEMMA CallNumbers ==
  ASSUME TypeOK
  PROVE  /\ MaxLlmCalls \in Nat /\ NumTasks \in Nat /\ NumTasks >= 1
         /\ billed.calls \in Nat /\ budget.llm_calls_made \in Nat
         /\ budget_deltas_consumed \in Nat /\ Len(budget_deltas) \in Nat
         /\ budget_deltas_consumed <= Len(budget_deltas)
<1>1. MaxLlmCalls \in Nat /\ NumTasks \in Nat /\ NumTasks >= 1
  BY GraphAssumption, BudgetAssumption
<1>2. billed.calls \in Nat /\ budget.llm_calls_made \in Nat
  BY DEF TypeOK, BudgetState
<1>3. /\ budget_deltas_consumed \in Nat /\ Len(budget_deltas) \in Nat
      /\ budget_deltas_consumed <= Len(budget_deltas)
  BY DEF TypeOK
<1> QED BY <1>1, <1>2, <1>3

\* A wave is sent only below the ceiling, by the budget the router was given.
LEMMA DispatchCalls ==
  ASSUME NEW ACTION ts, NEW ACTION b, NEW nr, Dispatch(ts, b, nr), sent' # {}
  PROVE  ~ (b.llm_calls_made >= MaxLlmCalls)
<1>1. PICK r \in Routes(ts, plan.deps, b, late, nr) :
        next' = r.next /\ sent' = r.sent /\ late' = r.late
  BY DEF Dispatch
<1> QED BY <1>1, RouterBudget

-----------------------------------------------------------------------------
(* Every step keeps the invariant.                                         *)

\* A step that makes no call and sends no wave.
LEMMA CallsQuiet ==
  ASSUME CallsInv, TypeOK', billed' = billed, budget' = budget,
         budget_deltas' = budget_deltas,
         budget_deltas_consumed' = budget_deltas_consumed,
         \/ next' = next /\ sent' = sent
         \/ next \notin {"editor", "budget_reconcile", "raised"} /\ next' # "editor"
         \/ next' = "raised"
  PROVE  CallsInv'
<1>1. CallsCounted' /\ CallCeiling'
  BY DEF CallsInv, CallsCounted, CallCeiling
<1>2. SettledInv' /\ WaveCalls'
  BY DEF CallsInv, SettledInv, WaveCalls
<1> QED BY <1>1, <1>2 DEF CallsInv

\* An answer that a node raises on: the call was paid and is recorded nowhere.
AnswerLost(cost) ==
  /\ next' = "raised"
  /\ billed' = Bill(billed, cost)
  /\ UNCHANGED recordVars

\* Such a call is not counted; the run ends with fewer calls in its budget than
\* it made.
LEMMA CallsLost ==
  ASSUME CallsInv, TypeOK', NEW cost, AnswerLost(cost),
         billed.calls + 1 < MaxLlmCalls + NumTasks
  PROVE  CallsInv'
<1>1. /\ next' = "raised" /\ billed'.calls = billed.calls + 1
      /\ UNCHANGED <<budget, budget_deltas, budget_deltas_consumed>>
  BY DEF AnswerLost, Bill, recordVars
<1>2. CallsCounted' /\ CallCeiling'
  BY <1>1, CallNumbers DEF CallsInv, CallsCounted, CallCeiling
<1>3. SettledInv' /\ WaveCalls'
  BY <1>1 DEF SettledInv, WaveCalls
<1> QED BY <1>2, <1>3 DEF CallsInv

\* A step that runs the router with everything counted.
LEMMA CallsDispatch ==
  ASSUME CallsInv, TypeOK', NEW ACTION ts, NEW nr, Dispatch(ts, budget', nr),
         budget_deltas' = budget_deltas,
         budget_deltas_consumed' = budget_deltas_consumed,
         budget_deltas_consumed = Len(budget_deltas),
         billed'.calls = budget'.llm_calls_made,
         billed'.calls < MaxLlmCalls + NumTasks \/ billed'.calls = 0
  PROVE  CallsInv'
<1>1. billed'.calls \in Nat /\ MaxLlmCalls \in Nat /\ NumTasks \in Nat /\ NumTasks >= 1
  BY CallNumbers DEF CallsInv, TypeOK
<1>2. Len(budget_deltas) \in Nat
  BY CallNumbers DEF CallsInv
<1>3. CallsCounted' /\ SettledInv' /\ CallCeiling'
  BY <1>1, <1>2 DEF CallsCounted, SettledInv, CallCeiling
<1>4. billed'.calls + Cardinality(sent') < MaxLlmCalls + NumTasks
  <2>1. Cardinality(sent') \in Nat /\ Cardinality(sent') <= NumTasks
    BY WaveSize DEF TypeOK
  <2>2. CASE sent' = {}
    BY <1>1, <2>2, FS_EmptySet
  <2>3. CASE sent' # {}
    <3>1. ~ (budget'.llm_calls_made >= MaxLlmCalls)
      BY <2>3, DispatchCalls
    <3> QED BY <1>1, <2>1, <3>1
  <2> QED BY <2>2, <2>3
<1> QED BY <1>3, <1>4 DEF CallsInv, WaveCalls

\* The router behind synthesis and budget_reconcile.
LEMMA CallsRouted ==
  ASSUME CallsInv, TypeOK', Synthesis \/ ReconcileDone
  PROVE  CallsInv'
<1> USE DEF budgetVars
<1>1. /\ UNCHANGED <<budget, budget_deltas, budget_deltas_consumed, billed>>
      /\ budget_deltas_consumed = Len(budget_deltas) /\ next # "raised"
  BY DEF Synthesis, ReconcileDone, CallsInv, SettledInv
<1>2. billed.calls = budget.llm_calls_made
  BY <1>1, CallNumbers DEF CallsInv, CallsCounted
<1>4. CASE Synthesis
  <2>1. Dispatch(tasks', budget', "sandbox_test")
    BY <1>1, <1>4 DEF Synthesis
  <2> QED BY <1>1, <1>2, <2>1, CallsDispatch DEF CallsInv, CallCeiling
<1>5. CASE ReconcileDone
  <2>1. Dispatch(tasks, budget', "sandbox_test")
    BY <1>1, <1>5 DEF ReconcileDone
  <2> QED BY <1>1, <1>2, <2>1, CallsDispatch DEF CallsInv, CallCeiling
<1> QED BY <1>4, <1>5

\* Comprehension is counted as one call, made below the ceiling.
LEMMA CallsComprehend ==
  ASSUME CallsInv, TypeOK', NEW p \in Plans \cup {NoPlan}, NEW cost \in ExtractionCosts,
         Comprehend(p, cost)
  PROVE  CallsInv'
<1>1. /\ next = "comprehension" /\ next' \in {"budget_abort", "synthesis"}
      /\ UNCHANGED <<budget_deltas, budget_deltas_consumed>>
      /\ ~ (budget.llm_calls_made >= MaxLlmCalls)
  BY DEF Comprehend, RouteAfterComprehension, IsExhausted
<1>2. /\ billed'.calls = billed.calls + 1
      /\ budget'.llm_calls_made = budget.llm_calls_made + 1
  BY DEF Comprehend, Bill, RecordCall
<1>3. budget_deltas_consumed = Len(budget_deltas)
  BY <1>1 DEF CallsInv, SettledInv
<1>4. CallsCounted' /\ CallCeiling'
  BY <1>1, <1>2, <1>3, CallNumbers DEF CallsInv, CallsCounted, CallCeiling
<1>5. SettledInv' /\ WaveCalls'
  BY <1>1, <1>3 DEF SettledInv, WaveCalls
<1> QED BY <1>4, <1>5 DEF CallsInv

\* So is a comprehension that raises, but in no budget.
LEMMA CallsComprehensionLost ==
  ASSUME CallsInv, TypeOK', NEW cost \in ExtractionCosts, ComprehensionRaises(cost)
  PROVE  CallsInv'
<1>1. /\ next = "comprehension" /\ AnswerLost(cost)
      /\ ~ (budget.llm_calls_made >= MaxLlmCalls)
  BY DEF ComprehensionRaises, AnswerLost, IsExhausted
<1>2. billed.calls = budget.llm_calls_made
  BY <1>1, CallNumbers DEF CallsInv, CallsCounted, SettledInv
<1>3. billed.calls + 1 < MaxLlmCalls + NumTasks
  BY <1>1, <1>2, CallNumbers DEF CallsInv
<1> QED BY <1>1, <1>3, CallsLost

\* A branch ends: it makes at most the one call that was set aside for it.
LEMMA CallsEditor ==
  ASSUME CallsInv, TypeOK', NEW t \in Task, Editor(t)
  PROVE  CallsInv'
<1> USE DEF budgetVars, outputVars, testVars
<1>1. IsFiniteSet(sent) /\ Cardinality(sent) \in Nat
  BY WaveSize DEF CallsInv, TypeOK
<1>2. ASSUME t \in sent
      PROVE  /\ Cardinality(sent \ {t}) = Cardinality(sent) - 1
             /\ Cardinality(sent) >= 1
  BY <1>1, <1>2, FS_RemoveElement, FS_EmptySet
<1>3. CASE EditorSkips(t) \/ EditorFails(t)
  <2>1. /\ t \in sent /\ sent' = sent \ {t} /\ next = "editor"
        /\ next' \in {"editor", "budget_reconcile"}
        /\ UNCHANGED <<budget, budget_deltas, budget_deltas_consumed, billed>>
    BY <1>3 DEF EditorSkips, EditorFails, EndBranch
  <2>2. CallsCounted' /\ CallCeiling'
    BY <2>1 DEF CallsInv, CallsCounted, CallCeiling
  <2>3. SettledInv'
    BY <2>1 DEF SettledInv
  <2>4. WaveCalls'
    BY <1>1, <1>2, <2>1, CallNumbers DEF CallsInv, WaveCalls
  <2> QED BY <2>2, <2>3, <2>4 DEF CallsInv
<1>4. ASSUME NEW files \in Emits[t], NEW cost \in CallCosts,
             EditorGenerates(t, files, cost)
      PROVE  CallsInv'
  <2>1. /\ t \in sent /\ sent' = sent \ {t} /\ next = "editor"
        /\ next' \in {"editor", "budget_reconcile"}
        /\ UNCHANGED <<budget, budget_deltas_consumed>>
        /\ billed'.calls = billed.calls + 1
    BY <1>4 DEF EditorGenerates, EndBranch, Bill
  <2>2. Len(budget_deltas') = Len(budget_deltas) + 1
    BY <1>4 DEF EditorGenerates, CallsInv, TypeOK
  <2>3. billed.calls + Cardinality(sent) < MaxLlmCalls + NumTasks
    BY <2>1 DEF CallsInv, WaveCalls
  <2>4. CallsCounted'
    BY <2>1, <2>2, CallNumbers DEF CallsInv, CallsCounted
  <2>5. CallCeiling' /\ WaveCalls'
    BY <1>1, <1>2, <2>1, <2>3, CallNumbers DEF CallsInv, CallCeiling, WaveCalls
  <2>6. SettledInv'
    BY <2>1 DEF SettledInv
  <2> QED BY <2>4, <2>5, <2>6 DEF CallsInv
<1>5. ASSUME NEW cost \in CallCosts, EditorRaises(t, cost)
      PROVE  CallsInv'
  <2>1. t \in sent /\ next = "editor" /\ AnswerLost(cost)
    BY <1>5 DEF EditorRaises, AnswerLost
  <2>2. billed.calls + Cardinality(sent) < MaxLlmCalls + NumTasks
    BY <2>1 DEF CallsInv, WaveCalls
  <2>3. billed.calls + 1 < MaxLlmCalls + NumTasks
    BY <1>1, <1>2, <2>1, <2>2, CallNumbers DEF CallsInv
  <2> QED BY <2>1, <2>3, CallsLost
<1> QED BY <1>3, <1>4, <1>5 DEF Editor

\* budget_reconcile moves one delta into the budget.
LEMMA CallsReconcile ==
  ASSUME CallsInv, TypeOK', ReconcileDelta
  PROVE  CallsInv'
<1>1. /\ next = "budget_reconcile" /\ next' = next
      /\ UNCHANGED <<budget_deltas, billed>>
      /\ budget_deltas_consumed' = budget_deltas_consumed + 1
      /\ budget'.llm_calls_made = budget.llm_calls_made + 1
  BY DEF ReconcileDelta, RecordCall, controlVars
<1>2. CallsCounted'
  BY <1>1, CallNumbers DEF CallsInv, CallsCounted
<1>3. SettledInv' /\ WaveCalls' /\ CallCeiling'
  BY <1>1 DEF CallsInv, SettledInv, WaveCalls, CallCeiling
<1> QED BY <1>2, <1>3 DEF CallsInv

\* error_analysis makes at most one call, below the ceiling.
LEMMA CallsAnalysis ==
  ASSUME CallsInv, TypeOK',
         \/ NothingToAnalyse
         \/ AnalysisGivesUp
         \/ \E entries \in SUBSET (Candidates \X BOOLEAN), cost \in CallCosts :
              \E verdict \in Verdicts(entries) : Analyse(entries, verdict, cost)
         \/ \E cost \in CallCosts : AnalysisRaises(cost)
  PROVE  CallsInv'
<1> USE DEF budgetVars
<1>1. next = "error_analysis" /\ budget_deltas_consumed = Len(budget_deltas)
  BY DEF NothingToAnalyse, AnalysisGivesUp, Analyse, AnalysisRaises, CallsInv, SettledInv
<1>2. billed.calls = budget.llm_calls_made
  BY <1>1, CallNumbers DEF CallsInv, CallsCounted
<1>3. CASE NothingToAnalyse \/ AnalysisGivesUp
  <2>1. UNCHANGED <<budget, budget_deltas, budget_deltas_consumed, billed>>
    BY <1>3 DEF NothingToAnalyse, AnalysisGivesUp
  <2>2. Dispatch(tasks, budget', "END") \/ Dispatch(tasks', budget', "END")
    BY <1>3, <2>1 DEF NothingToAnalyse, AnalysisGivesUp
  <2> QED BY <1>1, <1>2, <2>1, <2>2, CallsDispatch DEF CallsInv, CallCeiling
<1>4. ASSUME NEW entries \in SUBSET (Candidates \X BOOLEAN), NEW cost \in CallCosts,
             NEW verdict \in Verdicts(entries), Analyse(entries, verdict, cost)
      PROVE  CallsInv'
  <2>1. /\ UNCHANGED <<budget_deltas, budget_deltas_consumed>>
        /\ ~ (budget.llm_calls_made >= MaxLlmCalls)
        /\ Dispatch(tasks', budget', "END")
    BY <1>4 DEF Analyse, IsExhausted
  <2>2. /\ billed'.calls = billed.calls + 1
        /\ budget'.llm_calls_made = budget.llm_calls_made + 1
    BY <1>4 DEF Analyse, Bill, RecordCall
  <2>3. billed'.calls = budget'.llm_calls_made /\ billed'.calls < MaxLlmCalls + NumTasks
    BY <1>2, <2>1, <2>2, CallNumbers DEF CallsInv
  <2> QED BY <1>1, <2>1, <2>3, CallsDispatch
<1>5. ASSUME NEW cost \in CallCosts, AnalysisRaises(cost)
      PROVE  CallsInv'
  <2>1. AnswerLost(cost) /\ ~ (budget.llm_calls_made >= MaxLlmCalls)
    BY <1>5 DEF AnalysisRaises, AnswerLost, IsExhausted
  <2>2. billed.calls + 1 < MaxLlmCalls + NumTasks
    BY <1>2, <2>1, CallNumbers DEF CallsInv
  <2> QED BY <2>1, <2>2, CallsLost
<1> QED BY <1>3, <1>4, <1>5

\* The invariant is inductive.
LEMMA CallsStep ==
  ASSUME CallsInv, [Next]_vars
  PROVE  CallsInv'
<1> USE DEF budgetVars, controlVars
<1>1. TypeOK'
  BY NextType DEF CallsInv
<1>2. CASE ComprehensionSkipped
  BY <1>1, <1>2, CallsQuiet DEF ComprehensionSkipped, RouteAfterComprehension
<1>3. CASE \/ SandboxSkipped \/ SandboxRefuses \/ SandboxRaises
           \/ \E install, test \in ContainerEnd : SandboxRuns(install, test)
  BY <1>1, <1>3, CallsQuiet
     DEF SandboxSkipped, SandboxRefuses, SandboxRuns, SandboxRaises, RouteAfterSandbox
<1>4. CASE \/ Aggregate \/ RequestApproval \/ NotPublished \/ BudgetAbort
  BY <1>1, <1>4, CallsQuiet
     DEF Aggregate, RouteAfterAggregate, RequestApproval, NotPublished, BudgetAbort
<1>5. CASE \/ Review
           \/ \E reached \in {"none", "branch", "pull"}, acknowledged \in BOOLEAN :
                PrPublish(reached, acknowledged)
  BY <1>1, <1>5, CallsQuiet DEF Review, ApprovalGate, RouteAfterApproval, PrPublish
<1>6. CASE ClockExpires \/ UNCHANGED vars
  BY <1>1, <1>6, CallsQuiet DEF ClockExpires, vars
<1>7. CASE GraphStep
  BY <1>1, <1>2, <1>3, <1>4, <1>5, <1>7, CallsComprehend,
     CallsComprehensionLost, CallsRouted, CallsEditor, CallsReconcile, CallsAnalysis,
     Zenon DEF GraphStep
<1> QED BY <1>5, <1>6, <1>7 DEF Next, Finished

\* It holds when a run starts.
LEMMA CallsInit == Init => CallsInv
<1> SUFFICES ASSUME Init PROVE CallsInv
  OBVIOUS
<1>1. Len(budget_deltas) = 0
  BY DEF Init
<1>2. CallsCounted /\ SettledInv
  BY <1>1 DEF Init, NewBudget, CallsCounted, SettledInv
<1>3. WaveCalls /\ CallCeiling
  BY DEF Init, WaveCalls, CallCeiling
<1> QED BY <1>2, <1>3, InitType DEF CallsInv

\* The accounting invariant holds throughout every run.
THEOREM CallsCorrect == Spec => []CallsInv
<1>1. CallsInv /\ [Next]_vars => CallsInv'
  BY CallsStep
<1> QED BY CallsInit, <1>1, PTL DEF Spec

-----------------------------------------------------------------------------
(* The properties the runs check.                                          *)

\* Every call that returned is counted exactly once, for every number of tasks,
\* waves and rounds, until an exception ends the run; the budget of such a run
\* counts no call that was not made, and misses those that were lost with the
\* exception (editor, budget_reconcile, error_analysis, comprehension).
THEOREM EveryCallCounted == Spec => []CallsCounted
<1>1. CallsInv => CallsCounted
  BY DEF CallsInv
<1> QED BY CallsCorrect, <1>1, PTL

\* A run makes fewer calls than max_llm_calls plus the number of tasks: the
\* ceiling can be passed within a wave, for every size of wave, but no wave is
\* sent once it has been reached (route_to_editors, editor).
THEOREM CallsStayBelowCeiling == Spec => []CallCeiling
<1>1. CallsInv => CallCeiling
  BY DEF CallsInv
<1> QED BY CallsCorrect, <1>1, PTL

-----------------------------------------------------------------------------
(* To the unit: the money.                                                 *)

\* The prefix totals obey the equations that define them.
LEMMA TotalsUnfold ==
  ASSUME NEW costs \in Seq(Nat)
  PROVE  /\ Totals(costs) \in [0..Len(costs) -> Nat]
         /\ Totals(costs)[0] = 0
         /\ \A n \in 1..Len(costs) :
              Totals(costs)[n] = Totals(costs)[n - 1] + costs[n]
<1> DEFINE N == Len(costs)
           step == [n \in 1..N |-> [x \in Nat |-> x + costs[n]]]
           Equation(f) == f = [n \in 0..N |-> IF n = 0 THEN 0 ELSE f[n - 1] + costs[n]]
<1>1. N \in Nat /\ step \in [1..N -> [Nat -> Nat]]
  OBVIOUS
<1>2. PICK f : Recurs(f, Nat, 0, step, N)
  <2> HIDE DEF N, step
  <2> QED BY <1>1, Recursion
<1>3. ASSUME NEW n \in 1..N PROVE f[n - 1] \in Nat /\ f[n] = f[n - 1] + costs[n]
  <2>1. n - 1 \in 0..N
    BY <1>1
  <2>2. f[n - 1] \in Nat
    BY <1>2, <2>1 DEF Recurs
  <2> QED BY <1>2, <2>2 DEF Recurs
<1>4. Equation(f)
  BY <1>2, <1>3 DEF Recurs
<1>5. Equation(Totals(costs))
  BY <1>4, Zenon DEF Totals
<1>6. /\ Totals(costs)[0] = 0
      /\ \A n \in 1..N : Totals(costs)[n] = Totals(costs)[n - 1] + costs[n]
  <2>1. ASSUME NEW n \in 0..N
        PROVE  Totals(costs)[n] = IF n = 0 THEN 0 ELSE Totals(costs)[n - 1] + costs[n]
    BY <1>5, Zenon
  <2> QED BY <1>1, <2>1
<1>7. Recurs(Totals(costs), Nat, 0, step, N)
  <2>1. Totals(costs) = [n \in 0..N |-> Totals(costs)[n]]
    BY <1>5, Zenon
  <2>2. \A n \in 1..N : Totals(costs)[n - 1] \in Nat
                         => Totals(costs)[n] = step[n][Totals(costs)[n - 1]]
    BY <1>6
  <2> HIDE DEF N, step, Equation
  <2> QED BY <1>1, <1>6, <2>1, <2>2, RecursionStays
<1> QED BY <1>6, <1>7 DEF Recurs

\* Appending a cost adds it to the last total and leaves the others.
LEMMA TotalsAppend ==
  ASSUME NEW costs \in Seq(Nat), NEW c \in Nat
  PROVE  /\ \A n \in 0..Len(costs) : Totals(Append(costs, c))[n] = Totals(costs)[n]
         /\ Totals(Append(costs, c))[Len(costs) + 1] = Totals(costs)[Len(costs)] + c
<1> DEFINE new == Append(costs, c)
           N == Len(costs)
           T == {n \in Nat : n <= N => Totals(new)[n] = Totals(costs)[n]}
<1>1. /\ new \in Seq(Nat) /\ Len(new) = N + 1 /\ N \in Nat /\ new[N + 1] = c
      /\ \A n \in 1..N : new[n] = costs[n]
  OBVIOUS
<1> HIDE DEF new
<1>2. 0 \in T
  BY <1>1, TotalsUnfold
<1>3. ASSUME NEW n \in T PROVE n + 1 \in T
  <2> SUFFICES ASSUME n + 1 <= N PROVE Totals(new)[n + 1] = Totals(costs)[n + 1]
    OBVIOUS
  <2>1. /\ n + 1 \in 1..N /\ n + 1 \in 1..Len(new) /\ (n + 1) - 1 = n
        /\ Totals(new)[n] = Totals(costs)[n]
    BY <1>1
  <2>2. /\ Totals(new)[n + 1] = Totals(new)[n] + new[n + 1]
        /\ Totals(costs)[n + 1] = Totals(costs)[n] + costs[n + 1]
    BY ONLY <1>1, <2>1, TotalsUnfold
  <2> QED BY <1>1, <2>1, <2>2
<1>4. T = Nat
  BY <1>2, <1>3, SetInduction
<1>5. \A n \in 0..N : Totals(new)[n] = Totals(costs)[n]
  BY <1>1, <1>4
<1>6. Totals(new)[N + 1] = Totals(new)[N] + c
  <2>1. N + 1 \in 1..Len(new) /\ (N + 1) - 1 = N
    BY <1>1
  <2> QED BY <1>1, <2>1, TotalsUnfold
<1> QED BY <1>1, <1>5, <1>6 DEF new

\* A step that leaves the accounts alone, and a run that raised where it is.
KeepsAccounts == UNCHANGED budgetVars /\ (next = "raised" => next' = "raised")

\* The steps that touch the accounts; every other step leaves them alone.
LEMMA WhoSpends ==
  ASSUME [Next]_vars
  PROVE  \/ KeepsAccounts
         \/ \E cost \in CallCosts \cup ExtractionCosts : AnswerLost(cost)
         \/ \E p \in Plans \cup {NoPlan}, cost \in ExtractionCosts : Comprehend(p, cost)
         \/ \E t \in Task, cost \in CallCosts :
              \E files \in Emits[t] : EditorGenerates(t, files, cost)
         \/ ReconcileDelta
         \/ \E entries \in SUBSET (Candidates \X BOOLEAN), cost \in CallCosts :
              \E verdict \in Verdicts(entries) : Analyse(entries, verdict, cost)
<1>1. ASSUME \/ ComprehensionSkipped \/ Synthesis \/ ReconcileDone
             \/ SandboxSkipped \/ SandboxRefuses \/ SandboxRaises
             \/ \E install, test \in ContainerEnd : SandboxRuns(install, test)
      PROVE  KeepsAccounts
  BY <1>1 DEF KeepsAccounts, ComprehensionSkipped, Synthesis, ReconcileDone, SandboxSkipped,
     SandboxRefuses, SandboxRaises, SandboxRuns
<1>2. ASSUME \/ NothingToAnalyse \/ AnalysisGivesUp \/ Aggregate
             \/ RequestApproval \/ NotPublished \/ BudgetAbort \/ Review
             \/ \E reached \in {"none", "branch", "pull"}, acknowledged \in BOOLEAN :
                  PrPublish(reached, acknowledged)
      PROVE  KeepsAccounts
  BY <1>2 DEF KeepsAccounts, NothingToAnalyse, AnalysisGivesUp, Aggregate, RequestApproval,
     NotPublished, BudgetAbort, Review, ApprovalGate, PrPublish
<1>3. ASSUME NEW t \in Task, EditorSkips(t) \/ EditorFails(t)
      PROVE  KeepsAccounts
  BY <1>3 DEF KeepsAccounts, EditorSkips, EditorFails
<1>4. ASSUME ClockExpires \/ UNCHANGED vars
      PROVE  KeepsAccounts
  BY <1>4 DEF KeepsAccounts, ClockExpires, vars, budgetVars, controlVars
<1>5. ASSUME NEW cost, ComprehensionRaises(cost) \/ AnalysisRaises(cost)
      PROVE  AnswerLost(cost)
  BY <1>5 DEF ComprehensionRaises, AnalysisRaises, AnswerLost
<1>6. ASSUME NEW cost, NEW t, EditorRaises(t, cost)
      PROVE  AnswerLost(cost)
  BY <1>6 DEF EditorRaises, AnswerLost
<1>7. ASSUME \/ \E cost \in ExtractionCosts : ComprehensionRaises(cost)
             \/ \E cost \in CallCosts : AnalysisRaises(cost)
             \/ \E t \in Task : \E cost \in CallCosts : EditorRaises(t, cost)
      PROVE  \E cost \in CallCosts \cup ExtractionCosts : AnswerLost(cost)
  BY <1>5, <1>6, <1>7
<1> QED BY <1>1, <1>2, <1>3, <1>4, <1>7, Zenon DEF Next, GraphStep, Editor, Finished

\* The totals at the end of the list and at the index.
LEMMA MoneyNumbers ==
  ASSUME TypeOK
  PROVE  /\ billed.usd \in Nat /\ budget.spent_usd \in Nat
         /\ budget_deltas \in Seq(Nat)
         /\ Totals(budget_deltas)[Len(budget_deltas)] \in Nat
         /\ Totals(budget_deltas)[budget_deltas_consumed] \in Nat
<1>1. /\ billed.usd \in Nat /\ budget.spent_usd \in Nat
      /\ budget_deltas \in Seq(Nat)
  BY DEF TypeOK, BudgetState
<1>2. budget_deltas_consumed \in 0..Len(budget_deltas) /\ Len(budget_deltas) \in Nat
  BY <1>1 DEF TypeOK
<1>3. Totals(budget_deltas) \in [0..Len(budget_deltas) -> Nat]
  BY <1>1, TotalsUnfold
<1> QED BY <1>1, <1>2, <1>3

\* A call is paid: the accounts follow, or the run has raised.
LEMMA Paid ==
  ASSUME TypeOK, TypeOK', CostAccounted, NEW cost \in Nat,
         billed'.usd = billed.usd + cost,
         \/ AccountedUsd' = AccountedUsd + cost /\ next # "raised"
         \/ AccountedUsd' = AccountedUsd /\ next' = "raised"
  PROVE  CostAccounted'
<1>1. AccountedUsd \in Int /\ billed.usd \in Int
  BY MoneyNumbers DEF AccountedUsd
<1>2. AccountedUsd <= billed.usd /\ (next # "raised" => AccountedUsd = billed.usd)
  BY DEF CostAccounted
<1>3. AccountedUsd' <= billed'.usd /\ (next' # "raised" => AccountedUsd' = billed'.usd)
  BY <1>1, <1>2
<1> QED BY <1>3 DEF CostAccounted

\* Every step keeps the books in balance.
LEMMA CostStep ==
  ASSUME TypeOK, CostAccounted, [Next]_vars
  PROVE  CostAccounted'
<1>0. TypeOK' /\ CallCosts \subseteq Nat /\ ExtractionCosts \subseteq Nat
  BY NextType, GraphAssumption
<1>1. CASE KeepsAccounts
  BY <1>1 DEF KeepsAccounts, budgetVars, CostAccounted, AccountedUsd
<1>2. ASSUME NEW p \in Plans \cup {NoPlan}, NEW cost \in ExtractionCosts,
             Comprehend(p, cost)
      PROVE  CostAccounted'
  <2>1. /\ billed'.usd = billed.usd + cost
        /\ budget'.spent_usd = budget.spent_usd + cost
        /\ UNCHANGED <<budget_deltas, budget_deltas_consumed>> /\ next # "raised"
    BY <1>2 DEF Comprehend, Bill, RecordCall
  <2>2. AccountedUsd' = AccountedUsd + cost
    BY <1>0, <2>1, MoneyNumbers DEF AccountedUsd
  <2> QED BY <1>0, <2>1, <2>2, Paid
<1>3. ASSUME NEW t \in Task, NEW cost \in CallCosts, NEW files \in Emits[t],
             EditorGenerates(t, files, cost)
      PROVE  CostAccounted'
  <2>1. /\ billed'.usd = billed.usd + cost
        /\ budget_deltas' = Append(budget_deltas, cost)
        /\ UNCHANGED <<budget, budget_deltas_consumed>> /\ next # "raised"
    BY <1>3 DEF EditorGenerates, Bill
  <2>2. cost \in Nat
    BY <1>0
  <2>3. /\ Len(budget_deltas') = Len(budget_deltas) + 1
        /\ budget_deltas_consumed \in 0..Len(budget_deltas)
    BY <2>1 DEF TypeOK
  <2>4. /\ Totals(budget_deltas')[Len(budget_deltas) + 1]
             = Totals(budget_deltas)[Len(budget_deltas)] + cost
        /\ Totals(budget_deltas')[budget_deltas_consumed]
             = Totals(budget_deltas)[budget_deltas_consumed]
    BY <2>1, <2>2, <2>3, MoneyNumbers, TotalsAppend
  <2>5. AccountedUsd' = AccountedUsd + cost
    BY <2>1, <2>2, <2>3, <2>4, MoneyNumbers, SMTT(30) DEF AccountedUsd
  <2> QED BY <1>0, <2>1, <2>2, <2>5, Paid
<1>4. CASE ReconcileDelta
  <2>1. /\ budget'.spent_usd
             = budget.spent_usd + budget_deltas[budget_deltas_consumed + 1]
        /\ budget_deltas_consumed' = budget_deltas_consumed + 1
        /\ UNCHANGED <<budget_deltas, billed, next>>
    BY <1>4 DEF ReconcileDelta, RecordCall, controlVars
  <2>2. /\ budget_deltas_consumed + 1 \in 1..Len(budget_deltas)
        /\ (budget_deltas_consumed + 1) - 1 = budget_deltas_consumed
    BY <1>4 DEF ReconcileDelta, TypeOK
  <2>3. Totals(budget_deltas)[budget_deltas_consumed + 1]
          = Totals(budget_deltas)[budget_deltas_consumed]
              + budget_deltas[budget_deltas_consumed + 1]
    BY ONLY <2>2, MoneyNumbers, TotalsUnfold, TypeOK
  <2>4. budget_deltas[budget_deltas_consumed + 1] \in Nat
    BY <2>2, MoneyNumbers, SMTT(30)
  <2>5. AccountedUsd' = AccountedUsd
    BY <2>1, <2>3, <2>4, MoneyNumbers DEF AccountedUsd
  <2> QED BY <2>1, <2>5 DEF CostAccounted
<1>5. ASSUME NEW entries \in SUBSET (Candidates \X BOOLEAN), NEW cost \in CallCosts,
             NEW verdict \in Verdicts(entries), Analyse(entries, verdict, cost)
      PROVE  CostAccounted'
  <2>1. /\ billed'.usd = billed.usd + cost
        /\ budget'.spent_usd = budget.spent_usd + cost
        /\ UNCHANGED <<budget_deltas, budget_deltas_consumed>> /\ next # "raised"
    BY <1>5 DEF Analyse, Bill, RecordCall
  <2>2. AccountedUsd' = AccountedUsd + cost
    BY <1>0, <2>1, MoneyNumbers DEF AccountedUsd
  <2> QED BY <1>0, <2>1, <2>2, Paid
<1>6. ASSUME NEW cost \in CallCosts \cup ExtractionCosts, AnswerLost(cost)
      PROVE  CostAccounted'
  <2>1. /\ next' = "raised" /\ billed'.usd = billed.usd + cost
        /\ UNCHANGED <<budget, budget_deltas, budget_deltas_consumed>>
    BY <1>6 DEF AnswerLost, Bill, recordVars
  <2>2. AccountedUsd' = AccountedUsd
    BY <2>1 DEF AccountedUsd
  <2> QED BY <1>0, <2>1, <2>2, Paid
<1> QED BY <1>1, <1>2, <1>3, <1>4, <1>5, <1>6, WhoSpends, Zenon

\* Until an exception ends it, the books of every run balance, whatever calls
\* cost and however the waves, retries and failures fall: no cost is recorded
\* twice, none is lost between budget_deltas and the budget.  A run that raised
\* has paid more than its budget says, never less (editor, budget_reconcile,
\* error_analysis, comprehension).
THEOREM EveryCostAccounted == Spec => []CostAccounted
<1>1. Init => CostAccounted
  <2>1. ASSUME Init PROVE CostAccounted
    <3>1. Len(budget_deltas) = 0 /\ budget_deltas_consumed = 0
      BY <2>1 DEF Init
    <3>2. billed.usd = 0 /\ budget.spent_usd = 0
      BY <2>1 DEF Init, NewBudget
    <3> QED BY <2>1, <3>1, <3>2, InitType, MoneyNumbers DEF CostAccounted, AccountedUsd
  <2> QED BY <2>1
<1>2. TypeOK /\ CostAccounted /\ [Next]_vars => CostAccounted'
  BY CostStep
<1> QED BY <1>1, <1>2, TypeCorrect, PTL DEF Spec

-----------------------------------------------------------------------------
(* How far a run goes past its cost ceiling.                               *)

\* The dearest call, a lower bound of everything that is ever set aside for
\* one, and what is known of comprehension (PlanningProofs shows it of its
\* loop).
Prices(dear, reserve) ==
  /\ dear \in CallCosts \ {0}
  /\ reserve \in Nat \ {0} /\ reserve <= DefaultReserve
  /\ \A cost \in CallCosts : cost <= dear /\ (cost # 0 => reserve <= cost)
  /\ \A cost \in ExtractionCosts : cost < MaxUsd + dear

\* Past the ceiling by less than a call, or by the error of one wave.
Within(usd, dear, reserve) ==
  \/ usd < MaxUsd + dear
  \/ usd <= MaxUsd + NumTasks * (dear - reserve)

\* The largest call recorded so far is none, or no less than the reserve.
PricesSeen(reserve) ==
  /\ budget.max_call_cost_usd = 0 \/ reserve <= budget.max_call_cost_usd
  /\ \A i \in 1..Len(budget_deltas) : budget_deltas[i] \in CallCosts

\* What a wave can still cost stays within the bound.
WaveCost(dear, reserve) ==
  next = "editor" => Within(billed.usd + Cardinality(sent) * dear, dear, reserve)

\* Nothing is spent before comprehension has ended.
UnspentInv == next = "comprehension" => billed.usd = 0

SpentInv(dear, reserve) ==
  /\ PricesSeen(reserve) /\ WaveCost(dear, reserve)
  /\ Within(billed.usd, dear, reserve)

OvershootInv(dear, reserve) ==
  CallsInv /\ CostAccounted /\ UnspentInv /\ SpentInv(dear, reserve)

\* The numbers involved.
LEMMA PriceNumbers ==
  ASSUME NEW dear, NEW reserve, Prices(dear, reserve)
  PROVE  /\ dear \in Nat \ {0} /\ reserve \in Nat \ {0} /\ reserve <= dear
         /\ dear - reserve \in Nat /\ NumTasks * (dear - reserve) \in Nat
         /\ NumTasks \in Nat /\ MaxUsd \in Nat
<1>1. dear \in Nat \ {0} /\ reserve \in Nat \ {0} /\ reserve <= dear
  BY GraphAssumption DEF Prices
<1>2. NumTasks \in Nat /\ MaxUsd \in Nat
  BY GraphAssumption, BudgetAssumption
<1>3. dear - reserve \in Nat
  BY <1>1
<1> QED BY <1>1, <1>2, <1>3

\* Spending less stays within the bound.
LEMMA WithinLess ==
  ASSUME NEW dear, NEW reserve, Prices(dear, reserve),
         NEW more \in Nat, NEW less \in Nat, less <= more, Within(more, dear, reserve)
  PROVE  Within(less, dear, reserve)
<1> DEFINE slack == NumTasks * (dear - reserve)
<1>1. slack \in Nat /\ dear \in Nat /\ MaxUsd \in Nat
  BY PriceNumbers
<1>2. more < MaxUsd + dear \/ more <= MaxUsd + slack
  BY DEF Within
<1> HIDE DEF slack
<1>3. less < MaxUsd + dear \/ less <= MaxUsd + slack
  BY <1>1, <1>2
<1> QED BY <1>3 DEF Within, slack

\* ready[:k] has at most k elements.
LEMMA FirstOfSize ==
  ASSUME NEW ready \in SUBSET Task, NEW k \in Nat
  PROVE  Cardinality(FirstOf(ready, k)) <= k
<1> DEFINE S == FirstOf(ready, k)
<1>1. S \in SUBSET Task /\ S \subseteq ready
  BY DEF FirstOf
<1>2. IsFiniteSet(S) /\ Cardinality(S) \in Nat
  BY <1>1, WaveSize
<1>3. CASE S = {}
  BY <1>3, FS_EmptySet
<1>4. CASE S # {}
  <2> DEFINE gaps == {NumTasks - u : u \in S}
  <2>1. NumTasks \in Nat /\ \A u \in S : u \in 1..NumTasks
    BY <1>1, GraphAssumption DEF Task
  <2>2. gaps \subseteq Nat /\ gaps # {}
    BY <1>4, <2>1
  <2>3. PICK g \in gaps : \A h \in gaps : g <= h
    BY <2>2, LeastNumber
  <2>4. PICK t \in S : g = NumTasks - t
    OBVIOUS
  <2>5. ASSUME NEW u \in S PROVE u <= t
    <3>1. NumTasks - u \in gaps
      OBVIOUS
    <3>2. NumTasks - t <= NumTasks - u
      BY <2>3, <2>4, <3>1
    <3> QED BY <2>1, <2>4, <3>2
  <2> DEFINE before == {u \in ready : u < t}
  <2>6. S \ {t} \subseteq before
    BY <1>1, <2>1, <2>5
  <2>7. IsFiniteSet(before) /\ Cardinality(before) \in Nat
    <3>1. before \in SUBSET Task
      OBVIOUS
    <3> QED BY <3>1, WaveSize
  <2>8. Cardinality(before) < k
    BY <2>4 DEF FirstOf
  <2>9. Cardinality(S \ {t}) = Cardinality(S) - 1
    BY <1>2, <2>4, FS_RemoveElement
  <2> HIDE DEF S, before
  <2>10. Cardinality(S \ {t}) <= Cardinality(before)
    BY <2>6, <2>7, FS_Subset
  <2> QED BY <1>2, <2>7, <2>8, <2>9, <2>10 DEF S
<1> QED BY <1>3, <1>4

\* A wave of n calls for which the reserve is set aside.
LEMMA WaveWithin ==
  ASSUME NEW dear, NEW reserve, Prices(dear, reserve),
         NEW usd \in Nat, NEW n \in Nat, n <= NumTasks, usd < MaxUsd,
         n <= 1 \/ usd + n * reserve <= MaxUsd
  PROVE  Within(usd + n * dear, dear, reserve)
<1> DEFINE gap == dear - reserve
<1>1. /\ dear \in Nat /\ reserve \in Nat /\ gap \in Nat /\ NumTasks \in Nat
      /\ MaxUsd \in Nat
  BY PriceNumbers
<1>2. CASE n <= 1
  <2>1. n * dear <= dear /\ n * dear \in Nat
    BY <1>1, <1>2
  <2> QED BY <1>1, <2>1 DEF Within
<1>3. CASE usd + n * reserve <= MaxUsd
  <2>1. n * dear = n * reserve + n * gap
    BY <1>1
  <2>2. n * gap <= NumTasks * gap /\ n * gap \in Nat /\ NumTasks * gap \in Nat
    BY <1>1
  <2>3. n * reserve \in Nat
    BY <1>1
  <2> DEFINE a == n * gap
             b == NumTasks * gap
             r == n * reserve
             d == n * dear
  <2>4. d = r + a /\ a <= b /\ a \in Nat /\ b \in Nat /\ r \in Nat /\ usd + r <= MaxUsd
    BY <1>3, <2>1, <2>2, <2>3
  <2> HIDE DEF a, b, r, d
  <2>5. usd + d <= MaxUsd + b
    BY <1>1, <2>4
  <2> QED BY <2>5 DEF Within, b, d
<1> QED BY <1>2, <1>3

\* The calls the budget affords are one, or their reserve is there.
LEMMA AffordableReserve ==
  ASSUME NEW b \in BudgetState, NEW wanted \in Nat, NEW l, NEW reserve \in Nat,
         reserve <= Reserve(b), ~ (b.spent_usd >= MaxUsd)
  PROVE  LET calls == AffordableCalls(b, wanted, l)
         IN  calls \in Nat /\ (calls <= 1 \/ b.spent_usd + calls * reserve <= MaxUsd)
<1>1. MaxUsd \in Nat /\ DefaultReserve \in Nat \ {0}
  BY BudgetAssumption
<1>2. /\ b.spent_usd \in Nat /\ Reserve(b) \in Nat \ {0}
  BY <1>1 DEF Reserve, BudgetState
<1> DEFINE left == MaxUsd - b.spent_usd
           d == left \div Reserve(b)
           calls == AffordableCalls(b, wanted, l)
<1>3. left \in Nat /\ RemainingUsd(b) = left
  BY <1>1, <1>2 DEF RemainingUsd, Larger
<1>4. d \in Nat /\ d * Reserve(b) <= left
  BY <1>2, <1>3
<1> HIDE DEF d
<1>5. calls \in Nat /\ (calls <= 1 \/ calls <= d)
  <2>1. calls = 0 \/ calls = Larger(1, Smaller(wanted, d))
    BY <1>3 DEF AffordableCalls, d
  <2> QED BY <1>4, <2>1 DEF Larger, Smaller
<1> HIDE DEF calls
<1>6. ASSUME calls <= d PROVE b.spent_usd + calls * reserve <= MaxUsd
  <2>1. calls * reserve <= left /\ calls * reserve \in Nat
    BY <1>2, <1>3, <1>4, <1>5, <1>6
  <2> QED BY <1>1, <1>2, <2>1
<1> QED BY <1>5, <1>6 DEF calls

\* So the wave the router sends stays within the bound.
LEMMA RouterCost ==
  ASSUME NEW dear, NEW reserve, Prices(dear, reserve),
         NEW ts, NEW deps, NEW b \in BudgetState, NEW l, NEW nr, reserve <= Reserve(b),
         NEW r \in Routes(ts, deps, b, l, nr), r.sent # {}
  PROVE  Within(b.spent_usd + Cardinality(r.sent) * dear, dear, reserve)
<1>1. PICK l1 \in Later(l) : \E l2 \in Later(l1) :
        r = RouteToEditors(ts, deps, b, l1, l2, nr)
  BY RouteForm
<1>2. PICK l2 \in Later(l1) : r = RouteToEditors(ts, deps, b, l1, l2, nr)
  BY <1>1
<1> DEFINE ready == GetReadyTasks(ts, deps)
           calls == AffordableCalls(b, Cardinality(ready), l2)
           n == Cardinality(r.sent)
<1>3. ~ IsExhausted(b, l1) /\ r.sent = FirstOf(ready, calls)
  BY <1>2 DEF RouteToEditors, Route
<1>4. ready \in SUBSET Task /\ Cardinality(ready) \in Nat
  <2>1. ready \in SUBSET Task
    BY DEF GetReadyTasks
  <2> QED BY <2>1, WaveSize
<1>5. ~ (b.spent_usd >= MaxUsd)
  BY <1>3 DEF IsExhausted
<1>6. reserve \in Nat /\ MaxUsd \in Nat /\ b.spent_usd \in Nat
  BY PriceNumbers DEF BudgetState
<1> HIDE DEF ready
<1>7. calls \in Nat /\ (calls <= 1 \/ b.spent_usd + calls * reserve <= MaxUsd)
  BY <1>4, <1>5, <1>6, AffordableReserve
<1> HIDE DEF calls
<1>8. n \in Nat /\ n <= calls /\ n <= NumTasks
  <2>1. FirstOf(ready, calls) \in SUBSET Task
    BY <1>4 DEF FirstOf
  <2> QED BY <1>3, <1>4, <1>7, <2>1, FirstOfSize, WaveSize
<1> HIDE DEF n
<1>9. n * reserve <= calls * reserve /\ n * reserve \in Nat /\ calls * reserve \in Nat
  BY <1>6, <1>7, <1>8
<1>10. n <= 1 \/ b.spent_usd + n * reserve <= MaxUsd
  BY <1>6, <1>7, <1>8, <1>9
<1>11. b.spent_usd < MaxUsd
  BY <1>5, <1>6
<1>12. Within(b.spent_usd + n * dear, dear, reserve)
  BY <1>6, <1>8, <1>10, <1>11, WaveWithin
<1> QED BY <1>12 DEF n

\* A step that costs nothing and sends nothing.
LEMMA OvershootQuiet ==
  ASSUME NEW CONSTANT dear, NEW CONSTANT reserve, Prices(dear, reserve),
         OvershootInv(dear, reserve), TypeOK', UNCHANGED budgetVars,
         next' = "editor" => next = "editor" /\ sent' \subseteq sent
  PROVE  SpentInv(dear, reserve)'
<1>1. PricesSeen(reserve)' /\ Within(billed.usd, dear, reserve)' /\ billed' = billed
  BY DEF OvershootInv, SpentInv, PricesSeen, budgetVars
<1>2. ASSUME next' = "editor"
      PROVE  Within(billed.usd + Cardinality(sent') * dear, dear, reserve)
  <2>1. sent \in SUBSET Task /\ sent' \subseteq sent
    BY <1>2 DEF OvershootInv, CallsInv, TypeOK
  <2>2. /\ Cardinality(sent) \in Nat /\ Cardinality(sent') \in Nat
        /\ Cardinality(sent') <= Cardinality(sent)
    BY <2>1, WaveSize, FS_Subset
  <2>3. dear \in Nat /\ billed.usd \in Nat
    BY PriceNumbers DEF OvershootInv, CallsInv, TypeOK
  <2>4. /\ Cardinality(sent') * dear <= Cardinality(sent) * dear
        /\ Cardinality(sent') * dear \in Nat /\ Cardinality(sent) * dear \in Nat
    BY <2>2, <2>3
  <2>5. Within(billed.usd + Cardinality(sent) * dear, dear, reserve)
    BY <1>2 DEF OvershootInv, SpentInv, WaveCost
  <2>6. /\ billed.usd + Cardinality(sent') * dear \in Nat
        /\ billed.usd + Cardinality(sent) * dear \in Nat
        /\ billed.usd + Cardinality(sent') * dear <= billed.usd + Cardinality(sent) * dear
    BY <2>3, <2>4
  <2> QED BY <2>5, <2>6, WithinLess
<1>3. WaveCost(dear, reserve)'
  BY <1>1, <1>2 DEF WaveCost, Within
<1> QED BY <1>1, <1>3 DEF SpentInv

\* A step that ends in the router, with everything accounted for.
LEMMA OvershootDispatch ==
  ASSUME NEW CONSTANT dear, NEW CONSTANT reserve, Prices(dear, reserve),
         TypeOK', CostAccounted', budget_deltas_consumed' = Len(budget_deltas'),
         PricesSeen(reserve)', NEW ACTION ts, NEW nr, Dispatch(ts, budget', nr),
         nr # "raised",
         Within(billed.usd, dear, reserve)'
  PROVE  SpentInv(dear, reserve)'
<1>1. billed'.usd = budget'.spent_usd
  <2>1. /\ billed'.usd \in Nat /\ budget'.spent_usd \in Nat
        /\ budget_deltas' \in Seq(Nat) /\ Len(budget_deltas') \in 0..Len(budget_deltas')
    BY DEF TypeOK, BudgetState
  <2>2. Totals(budget_deltas')[Len(budget_deltas')] \in Nat
    BY <2>1, TotalsUnfold
  <2>3. next' # "raised"
    BY DispatchOutcome
  <2> QED BY <2>1, <2>2, <2>3 DEF CostAccounted, AccountedUsd
<1>2. PICK r \in Routes(ts, plan.deps, budget', late, nr) :
        next' = r.next /\ sent' = r.sent /\ late' = r.late
  BY DEF Dispatch
<1>3. budget' \in BudgetState /\ reserve <= Reserve(budget')
  <2>1. budget' \in BudgetState
    BY DEF TypeOK
  <2> QED BY <2>1 DEF PricesSeen, Reserve, Prices
<1>4. Within(billed'.usd + Cardinality(sent') * dear, dear, reserve)
  <2>1. CASE sent' = {}
    <3>1. billed'.usd \in Nat /\ dear \in Nat /\ Cardinality(sent') = 0
      BY <2>1, FS_EmptySet, PriceNumbers DEF TypeOK
    <3>2. billed'.usd + Cardinality(sent') * dear = billed'.usd
      BY <3>1
    <3> QED BY <3>2 DEF Within
  <2>2. CASE sent' # {}
    BY <1>1, <1>2, <1>3, <2>2, RouterCost
  <2> QED BY <2>1, <2>2
<1> QED BY <1>4 DEF SpentInv, WaveCost, Within

\* One generated answer: the call was counted when the wave was sent.
LEMMA OvershootGenerates ==
  ASSUME NEW CONSTANT dear, NEW CONSTANT reserve, Prices(dear, reserve),
         OvershootInv(dear, reserve), TypeOK',
         NEW t \in Task, NEW cost \in CallCosts, NEW files \in Emits[t],
         EditorGenerates(t, files, cost)
  PROVE  SpentInv(dear, reserve)'
<1>1. /\ next = "editor" /\ t \in sent /\ sent' = sent \ {t}
      /\ billed'.usd = billed.usd + cost
      /\ budget_deltas' = Append(budget_deltas, cost) /\ budget' = budget
  BY DEF EditorGenerates, EndBranch, Bill
<1>2. IsFiniteSet(sent) /\ Cardinality(sent) \in Nat
  BY WaveSize DEF OvershootInv, CallsInv, TypeOK
<1>3. Cardinality(sent') = Cardinality(sent) - 1 /\ Cardinality(sent) >= 1
  BY <1>1, <1>2, FS_RemoveElement, FS_EmptySet
<1>4. /\ billed.usd \in Nat /\ budget_deltas \in Seq(Nat)
      /\ dear \in Nat /\ cost \in Nat /\ cost <= dear
  BY PriceNumbers, GraphAssumption DEF OvershootInv, CallsInv, TypeOK, Prices
<1> DEFINE before == billed.usd + Cardinality(sent) * dear
           after == billed'.usd + Cardinality(sent') * dear
<1>5. ASSUME NEW n \in Nat, n >= 1
      PROVE  /\ n * dear \in Nat /\ (n - 1) * dear \in Nat
             /\ n * dear = (n - 1) * dear + dear
  BY <1>4, <1>5
<1>6. /\ before \in Nat /\ after \in Nat /\ billed'.usd \in Nat
      /\ after <= before /\ billed'.usd <= before
  <2> DEFINE whole == Cardinality(sent) * dear
             rest == Cardinality(sent') * dear
  <2>1. whole \in Nat /\ rest \in Nat /\ whole = rest + dear
    BY <1>2, <1>3, <1>5
  <2> HIDE DEF whole, rest
  <2>2. billed'.usd = billed.usd + cost
    BY <1>1
  <2>3. before = billed.usd + whole /\ after = billed'.usd + rest
    BY DEF whole, rest
  <2> HIDE DEF before, after
  <2> QED BY <1>4, <2>1, <2>2, <2>3, SMTT(30)
<1>7. Within(before, dear, reserve)
  BY <1>1 DEF OvershootInv, SpentInv, WaveCost
<1> HIDE DEF before, after
<1>8. Within(after, dear, reserve) /\ Within(billed'.usd, dear, reserve)
  BY <1>6, <1>7, WithinLess
<1>9. PricesSeen(reserve)'
  BY <1>1, <1>4 DEF OvershootInv, SpentInv, PricesSeen
<1> QED BY <1>8, <1>9 DEF SpentInv, WaveCost, Within, after

\* A recorded call keeps the largest one seen above the reserve.
LEMMA RecordedPrice ==
  ASSUME NEW CONSTANT dear, NEW CONSTANT reserve, Prices(dear, reserve),
         NEW b \in BudgetState, b.max_call_cost_usd = 0 \/ reserve <= b.max_call_cost_usd,
         NEW cost \in CallCosts
  PROVE  LET seen == RecordCall(b, cost, TRUE).max_call_cost_usd
         IN  seen = 0 \/ reserve <= seen
<1>1. cost \in Nat /\ reserve \in Nat /\ b.max_call_cost_usd \in Nat
  BY PriceNumbers, GraphAssumption DEF BudgetState
<1>2. cost = 0 \/ reserve <= cost
  BY DEF Prices
<1> QED BY <1>1, <1>2 DEF RecordCall, Larger

\* budget_reconcile spends nothing; it only learns what calls cost.
LEMMA OvershootReconcile ==
  ASSUME NEW CONSTANT dear, NEW CONSTANT reserve, Prices(dear, reserve),
         OvershootInv(dear, reserve), ReconcileDelta
  PROVE  SpentInv(dear, reserve)'
<1>1. /\ next' = "budget_reconcile" /\ UNCHANGED <<billed, budget_deltas>>
      /\ budget_deltas_consumed + 1 \in 1..Len(budget_deltas)
      /\ budget' = RecordCall(budget, budget_deltas[budget_deltas_consumed + 1], TRUE)
  BY DEF ReconcileDelta, controlVars, OvershootInv, CallsInv, TypeOK
<1>2. budget_deltas[budget_deltas_consumed + 1] \in CallCosts
  BY <1>1 DEF OvershootInv, SpentInv, PricesSeen
<1>3. budget \in BudgetState
  BY DEF OvershootInv, CallsInv, TypeOK
<1>4. PricesSeen(reserve)'
  BY <1>1, <1>2, <1>3, RecordedPrice DEF PricesSeen, OvershootInv, SpentInv
<1> QED BY <1>1, <1>4 DEF WaveCost, OvershootInv, SpentInv, Within

\* Analysis makes its one call below the ceiling.
LEMMA OvershootAnalysis ==
  ASSUME NEW CONSTANT dear, NEW CONSTANT reserve, Prices(dear, reserve),
         OvershootInv(dear, reserve), TypeOK', CostAccounted',
         NEW entries \in SUBSET (Candidates \X BOOLEAN), NEW cost \in CallCosts,
         NEW verdict \in Verdicts(entries), Analyse(entries, verdict, cost)
  PROVE  SpentInv(dear, reserve)'
<1>1. /\ next = "error_analysis" /\ ~ (budget.spent_usd >= MaxUsd)
      /\ budget' = RecordCall(budget, cost, TRUE) /\ billed'.usd = billed.usd + cost
      /\ UNCHANGED <<budget_deltas, budget_deltas_consumed>>
      /\ Dispatch(tasks', budget', "END")
  BY DEF Analyse, IsExhausted, Bill
<1>2. budget_deltas_consumed = Len(budget_deltas)
  BY <1>1 DEF OvershootInv, CallsInv, SettledInv
<1>3. billed.usd = budget.spent_usd /\ budget.spent_usd \in Nat /\ MaxUsd \in Nat
  BY <1>1, <1>2, MoneyNumbers, BudgetAssumption
     DEF OvershootInv, CallsInv, CostAccounted, AccountedUsd
<1>4. cost \in Nat /\ dear \in Nat /\ cost <= dear
  BY PriceNumbers, GraphAssumption DEF Prices
<1>5. billed'.usd < MaxUsd + dear
  BY <1>1, <1>3, <1>4
<1>6. budget \in BudgetState
  BY DEF OvershootInv, CallsInv, TypeOK
<1>7. PricesSeen(reserve)'
  BY <1>1, <1>6, RecordedPrice DEF PricesSeen, OvershootInv, SpentInv
<1>8. Within(billed.usd, dear, reserve)'
  BY <1>5 DEF Within
<1> QED BY <1>1, <1>2, <1>7, <1>8, OvershootDispatch

\* An answer that a node raises on: the exception ends the run, so what that
\* answer cost is the last that is spent.
LEMMA OvershootLost ==
  ASSUME NEW CONSTANT dear, NEW CONSTANT reserve, Prices(dear, reserve),
         OvershootInv(dear, reserve), NEW cost \in Nat, AnswerLost(cost),
         Within(billed.usd + cost, dear, reserve)
  PROVE  SpentInv(dear, reserve)' /\ UnspentInv'
<1>1. /\ next' = "raised" /\ billed'.usd = billed.usd + cost
      /\ UNCHANGED <<budget, budget_deltas>>
  BY DEF AnswerLost, Bill, recordVars
<1>2. PricesSeen(reserve)' /\ Within(billed.usd, dear, reserve)'
  BY <1>1 DEF OvershootInv, SpentInv, PricesSeen, Within
<1> QED BY <1>1, <1>2 DEF SpentInv, WaveCost, UnspentInv

\* It stays within the bound in each of the three nodes: comprehension has
\* spent nothing before, an editor's call was set aside, and analysis makes its
\* call below the ceiling.
LEMMA OvershootRaises ==
  ASSUME NEW CONSTANT dear, NEW CONSTANT reserve, Prices(dear, reserve),
         OvershootInv(dear, reserve),
         \/ \E cost \in ExtractionCosts : ComprehensionRaises(cost)
         \/ \E t \in Task : \E cost \in CallCosts : EditorRaises(t, cost)
         \/ \E cost \in CallCosts : AnalysisRaises(cost)
  PROVE  SpentInv(dear, reserve)' /\ UnspentInv'
<1>1. dear \in Nat /\ MaxUsd \in Nat /\ billed.usd \in Nat
  BY PriceNumbers DEF OvershootInv, CallsInv, TypeOK
<1>2. ASSUME NEW cost \in ExtractionCosts, ComprehensionRaises(cost)
      PROVE  SpentInv(dear, reserve)' /\ UnspentInv'
  <2>1. AnswerLost(cost) /\ billed.usd = 0
    BY <1>2 DEF ComprehensionRaises, AnswerLost, OvershootInv, UnspentInv
  <2>2. cost \in Nat /\ Within(billed.usd + cost, dear, reserve)
    BY <2>1, GraphAssumption DEF Within, Prices
  <2> QED BY <2>1, <2>2, OvershootLost
<1>3. ASSUME NEW t \in Task, NEW cost \in CallCosts, EditorRaises(t, cost)
      PROVE  SpentInv(dear, reserve)' /\ UnspentInv'
  <2>1. AnswerLost(cost) /\ next = "editor" /\ t \in sent
    BY <1>3 DEF EditorRaises, AnswerLost
  <2>2. cost \in Nat /\ cost <= dear
    BY GraphAssumption DEF Prices
  <2>3. Cardinality(sent) \in Nat /\ Cardinality(sent) >= 1
    <3>1. IsFiniteSet(sent) /\ Cardinality(sent) \in Nat
      BY WaveSize DEF OvershootInv, CallsInv, TypeOK
    <3> QED BY <2>1, <3>1, FS_EmptySet
  <2> DEFINE wave == Cardinality(sent) * dear
  <2>4. wave \in Nat /\ dear <= wave
    BY <1>1, <2>3
  <2>5. Within(billed.usd + wave, dear, reserve)
    BY <2>1 DEF OvershootInv, SpentInv, WaveCost
  <2> HIDE DEF wave
  <2>6. /\ billed.usd + wave \in Nat /\ billed.usd + cost \in Nat
        /\ billed.usd + cost <= billed.usd + wave
    BY <1>1, <2>2, <2>4
  <2>7. Within(billed.usd + cost, dear, reserve)
    BY <2>5, <2>6, WithinLess
  <2> QED BY <2>1, <2>2, <2>7, OvershootLost
<1>4. ASSUME NEW cost \in CallCosts, AnalysisRaises(cost)
      PROVE  SpentInv(dear, reserve)' /\ UnspentInv'
  <2>1. /\ next = "error_analysis" /\ ~ (budget.spent_usd >= MaxUsd)
        /\ AnswerLost(cost)
    BY <1>4 DEF AnalysisRaises, AnswerLost, IsExhausted
  <2>2. budget_deltas_consumed = Len(budget_deltas)
    BY <2>1 DEF OvershootInv, CallsInv, SettledInv
  <2>3. billed.usd = budget.spent_usd
    BY <2>1, <2>2, MoneyNumbers DEF OvershootInv, CallsInv, CostAccounted, AccountedUsd
  <2>4. cost \in Nat /\ cost <= dear
    BY GraphAssumption DEF Prices
  <2>5. Within(billed.usd + cost, dear, reserve)
    BY <1>1, <2>1, <2>3, <2>4 DEF Within
  <2> QED BY <2>1, <2>4, <2>5, OvershootLost
<1> QED BY <1>2, <1>3, <1>4

\* The router behind synthesis, budget_reconcile and an analysis without a call.
LEMMA OvershootRouted ==
  ASSUME NEW CONSTANT dear, NEW CONSTANT reserve, Prices(dear, reserve),
         OvershootInv(dear, reserve), TypeOK', CostAccounted',
         Synthesis \/ ReconcileDone \/ NothingToAnalyse \/ AnalysisGivesUp
  PROVE  SpentInv(dear, reserve)'
<1>1. UNCHANGED <<budget, budget_deltas, budget_deltas_consumed, billed>>
  BY DEF Synthesis, ReconcileDone, NothingToAnalyse, AnalysisGivesUp, budgetVars
<1>2. budget_deltas_consumed = Len(budget_deltas)
  BY DEF Synthesis, ReconcileDone, NothingToAnalyse, AnalysisGivesUp, OvershootInv,
     CallsInv, SettledInv
<1>3. PICK nr \in {"sandbox_test", "END"} :
        Dispatch(tasks, budget', nr) \/ Dispatch(tasks', budget', nr)
  BY <1>1 DEF Synthesis, ReconcileDone, NothingToAnalyse, AnalysisGivesUp
<1>4. PricesSeen(reserve)' /\ Within(billed.usd, dear, reserve)'
  BY <1>1 DEF OvershootInv, SpentInv, PricesSeen, Within
<1> QED BY <1>1, <1>2, <1>3, <1>4, OvershootDispatch

\* A step that neither spends nor runs the router.
SparesBudget ==
  /\ UNCHANGED budgetVars
  /\ next' = "editor" => next = "editor" /\ sent' \subseteq sent
  /\ next' = "comprehension" => next = "comprehension"

\* Which steps these are.
LEMMA SparingSteps ==
  ASSUME [Next]_vars
  PROVE  \/ SparesBudget
         \/ \E p \in Plans \cup {NoPlan}, cost \in ExtractionCosts : Comprehend(p, cost)
         \/ \E t \in Task, cost \in CallCosts :
              \E files \in Emits[t] : EditorGenerates(t, files, cost)
         \/ ReconcileDelta
         \/ \E entries \in SUBSET (Candidates \X BOOLEAN), cost \in CallCosts :
              \E verdict \in Verdicts(entries) : Analyse(entries, verdict, cost)
         \/ Synthesis \/ ReconcileDone \/ NothingToAnalyse \/ AnalysisGivesUp
         \/ \E cost \in ExtractionCosts : ComprehensionRaises(cost)
         \/ \E t \in Task : \E cost \in CallCosts : EditorRaises(t, cost)
         \/ \E cost \in CallCosts : AnalysisRaises(cost)
<1> USE DEF SparesBudget
<1>1. ASSUME \/ ComprehensionSkipped \/ SandboxSkipped
             \/ SandboxRefuses \/ SandboxRaises
             \/ \E install, test \in ContainerEnd : SandboxRuns(install, test)
      PROVE  SparesBudget
  BY <1>1 DEF ComprehensionSkipped, SandboxSkipped, SandboxRefuses, SandboxRaises,
     SandboxRuns, RouteAfterComprehension, RouteAfterSandbox
<1>2. ASSUME \/ Aggregate \/ RequestApproval \/ NotPublished
             \/ BudgetAbort \/ Review
             \/ \E reached \in {"none", "branch", "pull"}, acknowledged \in BOOLEAN :
                  PrPublish(reached, acknowledged)
      PROVE  SparesBudget
  BY <1>2 DEF Aggregate, RequestApproval, NotPublished, BudgetAbort,
     Review, ApprovalGate, PrPublish, RouteAfterAggregate, RouteAfterApproval
<1>3. ASSUME NEW t \in Task, EditorSkips(t) \/ EditorFails(t)
      PROVE  SparesBudget
  BY <1>3 DEF EditorSkips, EditorFails, EndBranch
<1>4. ASSUME ClockExpires \/ UNCHANGED vars
      PROVE  SparesBudget
  BY <1>4 DEF ClockExpires, vars, budgetVars, controlVars
<1> HIDE DEF SparesBudget
<1> QED BY <1>1, <1>2, <1>3, <1>4, Zenon DEF Next, GraphStep, Editor, Finished

\* The invariant is inductive.
LEMMA OvershootStep ==
  ASSUME NEW CONSTANT dear, NEW CONSTANT reserve, Prices(dear, reserve),
         OvershootInv(dear, reserve), [Next]_vars
  PROVE  OvershootInv(dear, reserve)'
<1> DEFINE Goal == SpentInv(dear, reserve)' /\ UnspentInv'
<1>1. CallsInv' /\ TypeOK' /\ CostAccounted'
  BY CallsStep, CostStep DEF OvershootInv, CallsInv
<1>2. ASSUME NEW p \in Plans \cup {NoPlan}, NEW cost \in ExtractionCosts,
             Comprehend(p, cost)
      PROVE  Goal
  <2>1. /\ next = "comprehension" /\ next' \in {"budget_abort", "synthesis"}
        /\ budget' = RecordCall(budget, cost, FALSE) /\ billed'.usd = billed.usd + cost
        /\ budget_deltas' = budget_deltas
    BY <1>2 DEF Comprehend, RouteAfterComprehension, Bill
  <2>2. billed'.usd = cost
    BY <2>1, GraphAssumption DEF OvershootInv, UnspentInv
  <2>3. PricesSeen(reserve)'
    BY <2>1 DEF RecordCall, PricesSeen, OvershootInv, SpentInv
  <2>4. Within(billed.usd, dear, reserve)'
    BY <2>2 DEF Within, Prices
  <2> QED BY <2>1, <2>3, <2>4 DEF SpentInv, WaveCost, UnspentInv
<1>3. ASSUME NEW t \in Task, NEW cost \in CallCosts, NEW files \in Emits[t],
             EditorGenerates(t, files, cost)
      PROVE  Goal
  <2>1. UnspentInv'
    BY <1>3 DEF EditorGenerates, EndBranch, UnspentInv
  <2> QED BY <1>1, <1>3, <2>1, OvershootGenerates
<1>4. ASSUME ReconcileDelta PROVE Goal
  <2>1. UnspentInv'
    BY <1>4 DEF ReconcileDelta, controlVars, UnspentInv
  <2> QED BY <1>4, <2>1, OvershootReconcile
<1>5. ASSUME NEW entries \in SUBSET (Candidates \X BOOLEAN), NEW cost \in CallCosts,
             NEW verdict \in Verdicts(entries), Analyse(entries, verdict, cost)
      PROVE  Goal
  <2>1. Dispatch(tasks', budget', "END")
    BY <1>5 DEF Analyse
  <2>2. UnspentInv'
    BY <2>1, DispatchOutcome DEF UnspentInv
  <2> QED BY <1>1, <1>5, <2>2, OvershootAnalysis, Zenon
<1>6. ASSUME Synthesis \/ ReconcileDone \/ NothingToAnalyse \/ AnalysisGivesUp
      PROVE  Goal
  <2>1. PICK nr \in {"sandbox_test", "END"} :
          Dispatch(tasks, budget, nr) \/ Dispatch(tasks', budget, nr)
    BY <1>6 DEF Synthesis, ReconcileDone, NothingToAnalyse, AnalysisGivesUp
  <2>2. UnspentInv'
    BY <2>1, DispatchOutcome DEF UnspentInv
  <2> QED BY <1>1, <1>6, <2>2, OvershootRouted, Zenon
<1>7. ASSUME SparesBudget PROVE Goal
  <2>1. UnspentInv'
    BY <1>7 DEF SparesBudget, budgetVars, OvershootInv, UnspentInv
  <2> QED BY <1>1, <1>7, <2>1, OvershootQuiet, Zenon DEF SparesBudget
<1>8. ASSUME \/ \E cost \in ExtractionCosts : ComprehensionRaises(cost)
             \/ \E t \in Task : \E cost \in CallCosts : EditorRaises(t, cost)
             \/ \E cost \in CallCosts : AnalysisRaises(cost)
      PROVE  Goal
  BY <1>8, OvershootRaises, Zenon
<1> HIDE DEF Goal
<1>9. Goal
  BY <1>2, <1>3, <1>4, <1>5, <1>6, <1>7, <1>8, SparingSteps, Zenon
<1> QED BY <1>1, <1>9 DEF Goal, OvershootInv

\* It holds at the start.
LEMMA OvershootInit ==
  ASSUME NEW CONSTANT dear, NEW CONSTANT reserve, Prices(dear, reserve), Init
  PROVE  OvershootInv(dear, reserve)
<1>1. /\ next = "comprehension" /\ billed.usd = 0 /\ Len(budget_deltas) = 0
      /\ budget_deltas_consumed = 0
      /\ budget.max_call_cost_usd = 0 /\ budget.spent_usd = 0
  BY DEF Init, NewBudget
<1>2. TypeOK /\ CallsInv
  BY CallsInit, InitType
<1>3. CostAccounted
  BY <1>1, <1>2, MoneyNumbers DEF CostAccounted, AccountedUsd
<1>4. 0 < MaxUsd + dear
  BY PriceNumbers
<1>5. Within(billed.usd, dear, reserve)
  BY <1>1, <1>4 DEF Within
<1> QED BY <1>1, <1>2, <1>3, <1>5
     DEF OvershootInv, SpentInv, PricesSeen, WaveCost, UnspentInv

\* If there is a dearest call, and comprehension alone does not pass the
\* ceiling by one (which PlanningProofs shows of its loop), a run spends past
\* its cost ceiling by less than one call, or by what the calls of one wave
\* cost more than the cheapest reserve, for every number of tasks and every
\* size of wave (affordable_calls, route_to_editors, error_analysis).
THEOREM OneWaveOvershoot ==
  ASSUME NEW CONSTANT dear \in CallCosts \ {0}, \A cost \in CallCosts : cost <= dear,
         \A cost \in ExtractionCosts : cost < MaxUsd + dear
  PROVE  Spec => []OvershootAtMostOneWave
<1> DEFINE Reserves == (CallCosts \ {0}) \cup {DefaultReserve}
<1>1. Reserves \subseteq Nat \ {0} /\ Reserves # {}
  BY GraphAssumption, BudgetAssumption
<1>2. PICK reserve \in Reserves : \A r \in Reserves : reserve <= r
  BY <1>1, LeastNumber
<1>3. Prices(dear, reserve)
  BY <1>1, <1>2 DEF Prices
<1>4. Init => OvershootInv(dear, reserve)
  BY <1>3, OvershootInit
<1>5. OvershootInv(dear, reserve) /\ [Next]_vars => OvershootInv(dear, reserve)'
  BY <1>3, OvershootStep
<1>6. OvershootInv(dear, reserve) => OvershootAtMostOneWave
  BY DEF OvershootInv, SpentInv, Within, OvershootAtMostOneWave
<1> QED BY <1>4, <1>5, <1>6, PTL DEF Spec

\* If every call costs the same, no more than the default reserve, nothing is
\* dearer than what was set aside for it: a run then spends past its cost
\* ceiling by less than one call (affordable_calls).
THEOREM OneCallOvershoot ==
  ASSUME NEW CONSTANT c \in Nat \ {0}, CallCosts = {c}, c <= DefaultReserve,
         \A cost \in ExtractionCosts : cost < MaxUsd + c
  PROVE  Spec => []OvershootAtMostOneCall
<1>1. Prices(c, c)
  BY DEF Prices
<1>2. Init => OvershootInv(c, c)
  BY <1>1, OvershootInit
<1>3. OvershootInv(c, c) /\ [Next]_vars => OvershootInv(c, c)'
  BY <1>1, OvershootStep
<1>4. OvershootInv(c, c) => OvershootAtMostOneCall
  <2> SUFFICES ASSUME OvershootInv(c, c) PROVE billed.usd < MaxUsd + c
    BY DEF OvershootAtMostOneCall
  <2>1. NumTasks * (c - c) = 0 /\ MaxUsd \in Nat /\ billed.usd \in Nat
    BY GraphAssumption, BudgetAssumption DEF OvershootInv, CallsInv, TypeOK
  <2>2. Within(billed.usd, c, c)
    BY DEF OvershootInv, SpentInv
  <2> QED BY <2>1, <2>2 DEF Within
<1> QED BY <1>2, <1>3, <1>4, PTL DEF Spec
=============================================================================
