SPECIFICATION Spec
CONSTANT Closed = {"led1"}
PROPERTY ClosedIsStill
CHECK_DEADLOCK FALSE
