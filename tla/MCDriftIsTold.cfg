CONSTANT MaxNoise = 1
SPECIFICATION Spec
INVARIANT DriftIsTold
CHECK_DEADLOCK FALSE
