SPECIFICATION RunnerSpec
CONSTANTS
    runner = runner  other = other
    c1 = c1  c2 = c2
    t1 = t1  t2 = t2
    Goroutines = {runner, other}
    Clients = {c1, c2}
    Threads = {t1, t2}
    Home <- MCHome
    Kinds = {"managed", "other"}
    Candidates = 1
    MaxUses <- MCMaxUses
    MaxChanges = 1
    Runner = runner
\* A scenario that is over, and a process without a binding, may rest.
CHECK_DEADLOCK FALSE
SYMMETRY ClientSymmetry
INVARIANTS
    MisuseNeedsRace
    OwnMessage
    OneLibrary
    KeysMatch
    DemandHeard
    ClientReleased
