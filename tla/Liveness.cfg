SPECIFICATION FairSpec
CONSTANTS
  MaxUsd = 11
  MaxLlmCalls = 20
  DefaultReserve = 3
  NumTasks = 2
  Plans <- ShortOrPair
  MaxRetries = 1
  MaxRetryRounds = 0
  CallCosts = {2}
  ExtractionCosts = {0, 4}
  model = model
  helper = helper
  escape = escape
  Path = {model, helper, escape}
  BasePaths = {helper}
  UnsafePaths = {escape}
  UnpublishablePaths = {escape}
  Emits <- ShortEmits
  ClockMayExpire = TRUE
INVARIANTS
  OvershootAtMostOneCall
PROPERTIES
  Terminates
  ImplementsContract
