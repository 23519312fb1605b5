SPECIFICATION Spec
CONSTANTS
    Texts <- MCTexts
    NumTokens = 12
    Junk <- MCJunk
    BufSz = 2
    Frames <- MCFrames
INVARIANTS TypeOK Nested ValueIsNext AcceptedIsComplete ArrayItems ShownAreMembers FieldsShown
PROPERTY Returns
