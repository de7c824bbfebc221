\* The members an object takes over by allOf: lost in the Go type.
SPECIFICATION Spec
CONSTANT Documents <- OneMissing
CHECK_DEADLOCK FALSE
INVARIANT NothingIsLost
