SPECIFICATION LiveSpec
CONSTANTS
  reader = reader
  server = server
  NoPolicy = NoPolicy
  NoProfile = NoProfile
  NoLock = NoLock
  NoRule = NoRule
  Call = {reader, server}
  Proposal = {"one", "two"}
  Policy = {"policy"}
  RuleId = {"first", "second", "never"}
  MaxRevision = 2
  Work <- MCWork
  Rules <- MCRules
  AlwaysPrompt <- MCAlwaysPrompt
  Budget <- MCBudget
INVARIANTS
  TypeOK
  DecisionsAreBudgeted
PROPERTIES
  DecidedOnce
  NoLostChange
  
CHECK_DEADLOCK FALSE
