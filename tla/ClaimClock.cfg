SPECIFICATION Spec
CONSTANTS
  MaxUsd = 20
  MaxLlmCalls = 20
  DefaultReserve = 1
  NumTasks = 3
  Plans <- ChainAndCycle
  MaxRetries = 1
  MaxRetryRounds = 3
  CallCosts = {1}
  ExtractionCosts = {1}
  model = model
  helper = helper
  escape = escape
  Path = {model, helper, escape}
  BasePaths = {helper}
  UnsafePaths = {escape}
  UnpublishablePaths = {escape}
  Emits <- PipelineEmits
  ClockMayExpire = TRUE
INVARIANTS
  EndsInAFinalPhase
