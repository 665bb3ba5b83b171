SPECIFICATION Spec
CONSTANTS
  Handles = {h1}
  Owner = owner
  MaxCalls = 3
CHECK_DEADLOCK FALSE
INVARIANTS FailureIsNamed FinalizedIsComplete
PROPERTIES BarrierIsTrue NoOkAfterLoss CallsReturn JoinReturns
