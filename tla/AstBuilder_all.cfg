SPECIFICATION Spec
CONSTANT Tasks <- MCTasks
INVARIANT NothingLost
CHECK_DEADLOCK FALSE
