SPECIFICATION Spec
CONSTANTS
  Paths <- MCPaths
  Calls <- MCCalls
  Defined <- MCDefined
  CompletionTools <- MCCompletionTools
  Declares <- MCDeclares
  Batches <- MCBatches
  RetryLimit = 3
  MaxDepth = 2
  MaxMessages = 3
INVARIANT FollowUpCanBeSent
CHECK_DEADLOCK FALSE
