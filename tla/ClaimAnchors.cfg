SPECIFICATION Spec
CONSTANTS
  Name <- MCName
  Texts <- MCTexts
  Slugify <- MCSlugify
  Lower <- MCLower
  Capitalized <- MCCapitalized
  Tree <- MCTree
  Scopes <- MCScopes
  Answers <- MCAnswers
  CallCosts = {0, 1, 2}
  RemainingUsd = 4
  RemainingCalls = 2
INVARIANTS
  AnchorsMatchByTheirOwnName
