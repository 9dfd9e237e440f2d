CONSTANT MaxLength = 4
SPECIFICATION Spec
INVARIANT OnlyRepeatsSuppressed
CHECK_DEADLOCK FALSE
