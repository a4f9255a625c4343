SPECIFICATION Spec
CONSTANTS
    r1 = r1  r2 = r2
    v1 = v1  v2 = v2
    a = a  b = b
    Old = old
    Runs = {r1, r2}
    Tags = {v1, v2}
    Revisions = {a, b}
    MaxAttempts = 2
    MaxMoves = 3
\* Runs end.
CHECK_DEADLOCK FALSE
SYMMETRY ReleaseSymmetry
INVARIANTS
    TagsOnMain
    NativeFirst
    ConflictNeedsRace
    TagIsSource
PROPERTY
    MainKeepsHistory
