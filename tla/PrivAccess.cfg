SPECIFICATION Spec
CONSTANTS
    Headers <- MCHeaders
    VersionId <- MCVersionId
    Valid <- MCValid
    Address <- MCAddress
    Parts <- MCParts
    Accessor <- MCAccessor
    Releases <- MCReleases
    Windows = {w1, w2}
    MaxQueries = 2
SYMMETRY Symmetry
CHECK_DEADLOCK FALSE
INVARIANTS TypeOK IdIsInForce GdkDataIsIntact MappedIsKnown AccessorsFit PartsAgree UnknownIsNoticed OldGtkIsUntouched
