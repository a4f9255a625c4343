SPECIFICATION Spec
CONSTANTS
    zap1 = zap1  zap2 = zap2  line1 = line1  line2 = line2
    r1 = r1  r2 = r2
    Vulnerabilities = {zap1, zap2, line1, line2}
    Tool <- MCTool
    Rule <- MCRule
    Part <- MCPart
    Rank <- MCRank
    LastPart = 2
    Places = {1, 2}
    Runs = {r1, r2}
    MaxEdits = 3
\* Runs end.
CHECK_DEADLOCK FALSE
SYMMETRY RunSymmetry
INVARIANTS
    AcceptanceIsPersonal
    EverythingDescribed
PROPERTY
    NothingForgotten
