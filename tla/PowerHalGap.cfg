SPECIFICATION Spec
CONSTANTS
    Thread = {u1}
    Hint = {"INTERACTION"}
    Short = 5
    Launch = 5
    Wake = 5
    Boot = 5
    Word = 20
    Wide = 40
    MaxWakes = 0
    MaxLag = 0
INVARIANT BoostMaintained
