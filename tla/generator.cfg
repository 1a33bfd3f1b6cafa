SPECIFICATION Spec
CONSTANTS
    Wrong = Wrong
    Absent = Absent
    NoFile = NoFile
    Torn = Torn
    Nothing = Nothing
    MaxEdits = 1
    MaxKills = 1
    Directory <- MCDirectory
    Descriptions <- MCDescriptions
INVARIANTS
    GeneratorTypeOK
    UpToDate
    NothingFailsSilently
    FilesFitTogether
    NoexceptCannotThrow
PROPERTIES
    RerunWritesNothing
