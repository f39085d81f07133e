SPECIFICATION Spec
CONSTANT MaxJoins = 3
INVARIANTS TypeOK RequiredIsPresent NullableIsNeeded
PROPERTY NullabilityIsKept
CHECK_DEADLOCK FALSE
