CONSTANTS
    Chars <- MCChars
    Trees <- MCTrees
    Lists <- MCLists
    Special <- MCSpecial
    Breaks <- MCBreaks
SPECIFICATION Spec
CHECK_DEADLOCK FALSE
INVARIANTS
    SegmentTypeOK
    Sound
    Complete
    GlobFinds
    IgnoredBelow
    IgnoreCoversGlob
PROPERTIES
    ImplementsSegment
    GlobEnds
