SPECIFICATION Spec
CONSTANTS
  MaxUsd = 9
  MaxLlmCalls = 5
  DefaultReserve = 2
  NumTasks = 3
  Plans <- Fanout
  MaxRetries = 1
  MaxRetryRounds = 2
  CallCosts = {1, 3}
  ExtractionCosts = {1, 5, 8}
  model = model
  helper = helper
  escape = escape
  Path = {model}
  BasePaths = {}
  UnsafePaths = {}
  UnpublishablePaths = {}
  Emits <- PlainEmits
  ClockMayExpire = TRUE
INVARIANTS
  CallsCounted
  CostAccounted
  CallCeiling
  OvershootAtMostOneWave
