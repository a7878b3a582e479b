SPECIFICATION Spec
CONSTANTS
  MaxUsd = 6
  MaxLlmCalls = 20
  DefaultReserve = 2
  NumTasks = 3
  Plans <- Fanout
  MaxRetries = 1
  MaxRetryRounds = 2
  CallCosts = {1, 3}
  ExtractionCosts = {1}
  model = model
  helper = helper
  escape = escape
  Path = {model}
  BasePaths = {}
  UnsafePaths = {}
  UnpublishablePaths = {}
  Emits <- PlainEmits
  ClockMayExpire = FALSE
INVARIANTS
  OvershootAtMostOneCall
