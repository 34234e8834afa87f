SPECIFICATION Spec
CONSTANTS
    Rows = 3
    Cols = 2
    Glyph <- MCGlyph
    Space = " "
    Block = "#"
    NIL = "nil"
    NL = "newline"
    Key <- MCKey
    Dot = "."
    QuitLines <- MCQuitLines
    Prompt <- MCPrompt
    Output <- MCOutput
    MaxMonInp = 4
    MaxUserInput = 3
    MaxLine = 3
    Uis = {TRUE, FALSE}
INVARIANT
    BackspaceErases
CHECK_DEADLOCK FALSE
