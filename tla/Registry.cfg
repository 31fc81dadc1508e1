SPECIFICATION Spec
CONSTANTS
    ClientVersion = 1
    ServerVersions = {1, 2}
    NULL = NULL
    MaxInits = 3
    MaxGlobals = 2
    MaxOutputs = 2
CHECK_DEADLOCK FALSE
INVARIANTS RegistryTypeOK ManagerIsCurrent
PROPERTY InitReturns
