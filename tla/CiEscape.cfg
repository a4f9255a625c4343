SPECIFICATION Spec
CONSTANTS
    None = None
    r1 = r1  r2 = r2  r3 = r3  r4 = r4
    ci = ci  release = release
    main = main  b1 = b1  b2 = b2
    p1 = p1  p2 = p2
    o1 = o1  o2 = o2
    j1 = j1  j2 = j2  j3 = j3
    s1 = s1  s2 = s2
    w1 = w1  w2 = w2
    Runs = {r1, r2}
    Context <- SamePR
    Workflows = {ci, release}
    Branches = {main, b1, b2}
    PullRequests = {p1, p2}
    Origins = {o1}
    Jobs = {j1, j2}
    Signature <- OwnSignatures
    Signatures = {s1, s2, "workflow completion"}
    Engines = {w1, w2}
    HistoryLimit = 4
    HumanReviewAfter = 2
    SystemicAfter = 3
    MaxRemediationDepth = 2
    MaxAttempts = 1
    MaxCompletions = 2
    MaxFaults = 0
    MaxReplays = 0
    Unrenderable = {j2}
    MaxCopies = 0
\* The environment is bounded: once its budgets are spent the system may rest.
CHECK_DEADLOCK FALSE
SYMMETRY EngineSymmetry
PROPERTIES
    BatchFinished
