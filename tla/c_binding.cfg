SPECIFICATION CSpec
CONSTANTS
    Wrong = Wrong
    Descriptions <- MCDescriptions
    Holders = {h1, h2}
    Items = {i1, i2, i3}
    Refs = {r1, r2}
    Values = {v0, v1}
    Initial = v0
    Null = Null
SYMMETRY MCSymmetry
CHECK_DEADLOCK FALSE
INVARIANTS CTypeOK OwnedIsAlive NothingLeaks BorrowedIsAlive EqualityIsSound TwinsAreApart
