SPECIFICATION Spec
CONSTANTS
  Number <- MCNumber
  Arity <- MCArity
  Variables = {"a", "b"}
  Largest = 10000
  MaxTokens <- MCMaxTokens
  Environments <- MCEnvironments
INVARIANTS EvaluationInv
PROPERTIES ExpressionsAreAccepted
CHECK_DEADLOCK FALSE
