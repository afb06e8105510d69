SPECIFICATION Spec
CONSTANTS
    Window = 2
    Modulo = 8
    Count = 2
    MaxRounds = 2
INVARIANT NothingForgotten
