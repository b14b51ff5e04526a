SPECIFICATION MCSpec
CONSTANTS
  MaxErrors = 5
  Capacity = 1
  MaxAttempts = 2
  Setups <- ProxySetups
INVARIANTS  BreakerTrips AnswersMatch StopReleases  GracefulOrder
PROPERTIES  CommandsAnswered
CHECK_DEADLOCK FALSE
