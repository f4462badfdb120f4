SPECIFICATION Spec
CHECK_DEADLOCK FALSE
INVARIANT RemainsLaunchable
