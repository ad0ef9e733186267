SPECIFICATION Spec
INVARIANT TimerStoppedOnce
CHECK_DEADLOCK FALSE
