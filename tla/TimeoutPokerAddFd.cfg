SPECIFICATION Spec
CONSTANTS
    c1 = c1
    c2 = c2
    Client = {c1, c2}
    Node = {cpu_freq_min}
    Timeout = {1, 2}
    FdLimit = 5
    Failures = {"open", "pipe", "addFd"}
    Key <- MCKey
    MaxKey = 3
    MaxLag = 1
SYMMETRY Threads
INVARIANT NoConstraintLeaks
