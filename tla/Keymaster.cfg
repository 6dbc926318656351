SPECIFICATION Spec
CONSTANTS
    Thread = {t1, t2}
    Id = {k1, k2}
    Malformed = Malformed
SYMMETRY Interchangeable
INVARIANT PrivateHasPublic
INVARIANT KeysKept
INVARIANT DeletedForGood
INVARIANT NothingStranded
INVARIANT FailsOnlyForCause
PROPERTY KeysLive
