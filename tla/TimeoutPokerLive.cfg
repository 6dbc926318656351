SPECIFICATION FairSpec
CONSTANTS
    c1 = c1
    c2 = c2
    Client = {c1, c2}
    Node = {cpu_freq_min}
    Timeout = {1}
    FdLimit = 4
    Failures = {"open", "pipe"}
    Key <- MCKey
    MaxKey = 3
    MaxLag = 1
INVARIANT NoConstraintLeaks
PROPERTY PokerDelivers
