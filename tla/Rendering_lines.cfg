SPECIFICATION RenderingSpec
CONSTANTS
    Toggles = {"b", "i"}
    Colours = {"red"}
    NoColour = "none"
    HexSize = 2
    DecimalSize = 1
    Width = 5
    MaxNodes = 4
    MaxDepth = 2
INVARIANTS
    LinesRead
    LettersKept
    LongLinesAreWords
CHECK_DEADLOCK FALSE
