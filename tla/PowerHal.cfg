SPECIFICATION Spec
CONSTANTS
    Thread = {u1, u2}
    Hint = {"VSYNC"}
    Short = 5
    Launch = 5
    Wake = 1
    Boot = 5
    Word = 20
    Wide = 40
    MaxWakes = 1
    MaxLag = 1
SYMMETRY Threads
INVARIANT BoostsBounded
INVARIANT NeverDeaf
