SPECIFICATION Spec
CONSTANTS
    Structs = {1, 2, 3}
    Embeds <- MCEmbeds
    Texts = {"a", "b"}
    Members <- MCMembers
    TagSets <- MCTagSets
    BranchSets <- MCBranchSets
    MinSupported <- MCMin
    MaxSupported <- MCMax
    BadRelease <- MCBad
CHECK_DEADLOCK FALSE
INVARIANTS VersionsInOrder PicksTheRightLayout NoNeedlessVersion AccessorsAreSound
