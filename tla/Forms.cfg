SPECIFICATION FormsSpec
CONSTANTS
    Ids = {"r1", "r2"}
    Main = "r1"
    Words = {"a", "e_acute"}
    Accented = {"e_acute"}
    MaxText = 3
    MaxList = 2
    MaxStamp = 2
    Begun <- SomeBegun
    DatePieces <- PiecesOfDates
    ChoicePieces <- PiecesOfChoices
    Common <- CommonWords
    Keyboard <- KeyboardWords
    MaxDate = 7
    MaxLength = 18
INVARIANTS SavedIsReadable FormAndServiceAgree
PROPERTIES EditsKeepWhatWasEntered
CHECK_DEADLOCK FALSE
