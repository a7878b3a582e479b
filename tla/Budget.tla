------------------------------- MODULE Budget -------------------------------
(***************************************************************************)
(* The budget of a run: app/graph/state/budget.py.  Pure operators on the  *)
(* record that class BudgetState keeps.  Money is counted in whole units   *)
(* (the source uses floats and adds an epsilon before its floor division,  *)
(* so that the division behaves like the exact one used here).  The wall   *)
(* clock is an argument: `late' says whether elapsed_seconds() has reached *)
(* max_wall_clock_seconds at the moment of the call.                       *)
(* A definition Name_Variant is a faulty variant of Name that the          *)
(* properties of the runs must reject.                                     *)
(***************************************************************************)
EXTENDS Integers

CONSTANTS MaxUsd,           \* max_usd
          MaxLlmCalls,      \* max_llm_calls
          DefaultReserve    \* default_call_reserve_usd

ASSUME BudgetAssumption ==
  /\ MaxUsd \in Nat
  /\ MaxLlmCalls \in Nat
  /\ DefaultReserve \in Nat \ {0}

\* The fields of BudgetState that change during a run.
BudgetState == [spent_usd : Nat, llm_calls_made : Nat, max_call_cost_usd : Nat]

NewBudget == [spent_usd |-> 0, llm_calls_made |-> 0, max_call_cost_usd |-> 0]

Larger(a, b) == IF a >= b THEN a ELSE b
Smaller(a, b) == IF a <= b THEN a ELSE b

RemainingUsd(b) == Larger(0, MaxUsd - b.spent_usd)

IsExhausted_CallsOffByOne(b, late) ==
  \/ b.spent_usd >= MaxUsd
  \/ b.llm_calls_made > MaxLlmCalls
  \/ late

\* exhausted_reason() is not None: any one of the three ceilings is reached.
IsExhausted(b, late) ==
  \/ b.spent_usd >= MaxUsd
  \/ b.llm_calls_made >= MaxLlmCalls
  \/ late

RecordCall_OnlyTracked(b, cost, trackMax) ==
  [spent_usd         |-> b.spent_usd + cost,
   llm_calls_made    |-> b.llm_calls_made + IF trackMax THEN 1 ELSE 0,
   max_call_cost_usd |-> Larger(b.max_call_cost_usd, cost)]

\* record_call with calls = 1, the only value any caller passes.
RecordCall(b, cost, trackMax) ==
  [spent_usd         |-> b.spent_usd + cost,
   llm_calls_made    |-> b.llm_calls_made + 1,
   max_call_cost_usd |-> IF trackMax THEN Larger(b.max_call_cost_usd, cost)
                                     ELSE b.max_call_cost_usd]

\* The largest call seen so far, or the default guess while that is 0.
Reserve(b) ==
  IF b.max_call_cost_usd # 0 THEN b.max_call_cost_usd ELSE DefaultReserve

AffordableCalls_NoReserve(b, wanted, late) ==
  IF IsExhausted(b, late) THEN 0 ELSE wanted

AffordableCalls(b, wanted, late) ==
  IF wanted <= 0 \/ IsExhausted(b, late)
  THEN 0
  ELSE Larger(1, Smaller(wanted, RemainingUsd(b) \div Reserve(b)))
=============================================================================
