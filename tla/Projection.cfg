\* Every contract, Go type, projector and table of the SDK.
SPECIFICATION Spec
CONSTANT Documents <- OneMissing
CHECK_DEADLOCK FALSE
INVARIANT TypeOK
INVARIANT AdmittedIsStored
INVARIANT NothingInvented
INVARIANT OwnMembersReachTheRow
