CONSTANT MaxLength = 5
SPECIFICATION Spec
INVARIANTS VersionsAgree ListsInput
CHECK_DEADLOCK FALSE
