SPECIFICATION TermSpec
CONSTANTS
    VgaW = 4
    VgaH = 3
    FbW = 6
    FbH = 5
    Margin = 1
    CellW = 1
    CellH = 1
    HeightPerStep = 2
    MaxAuto = 2
    MaxScale = 3
    Letters = {"a"}
    MaxLine = 4
    Outputs <- MCOutputs
INVARIANTS
    
    KeyboardStaysLive
    EchoShowsLine
CHECK_DEADLOCK FALSE
