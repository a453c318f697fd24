CONSTANTS
    BufSize = 4
    Width = 2
    Height = 2
    MaxRows = 4
    Key <- MCKey
    KbdUs <- MCKbdUs
    KbdUsShift <- MCKbdUsShift
    Glyph <- MCGlyph
SPECIFICATION EchoSpec
VIEW View
INVARIANTS
    ScreenShowsPaper
CHECK_DEADLOCK FALSE
