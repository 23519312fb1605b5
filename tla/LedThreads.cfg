SPECIFICATION Spec
CONSTANT Closed = {"led1"}
INVARIANTS TypeOK TimerSound ReadyIsQueued QueueSound HaltCauses
PROPERTIES Blinks NetSurvives CommandReturns
CHECK_DEADLOCK FALSE
