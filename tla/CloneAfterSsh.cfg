CONSTANTS
    UIDs = {u1, u2, u3}
    NoUID = NoUID
    Sources = {"git"}
    Commands = {"up", "ssh"}
    Faults = {"clone"}
    MaxCommands = 3
SYMMETRY Symmetry
SPECIFICATION Spec
INVARIANTS CloneIsRetried
