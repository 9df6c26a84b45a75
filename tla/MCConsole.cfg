SPECIFICATION Spec
CONSTANTS
    VGA_WIDTH = 3
    VGA_HEIGHT = 3
    Word = 32
    scancode_map <- MCScancodes
    shift_map <- MCShifted
    Dead = {"ctrl"}
    Size = 5
    Outputs <- MCOutputs
    Serial <- MCSerial
    MaxSerial = 2
INVARIANTS ShiftHeld CommandIsTyped LineShown EchoWhole
VIEW MCView
