SPECIFICATION FairSpec
CONSTANTS
    None = None
    r1 = r1  r2 = r2  r3 = r3  r4 = r4
    ci = ci  release = release
    main = main  b1 = b1  b2 = b2
    p1 = p1  p2 = p2
    o1 = o1  o2 = o2
    j1 = j1  j2 = j2  j3 = j3
    s1 = s1  s2 = s2
    w1 = w1  w2 = w2
    Runs = {r1, r2, r3}
    Context <- ThreePushes
    Workflows = {ci}
    Branches = {main}
    PullRequests = {}
    Origins = {}
    Jobs = {j1}
    Signature <- OneJob
    Signatures = {s1, "workflow completion"}
    Engines = {w1, w2}
    HistoryLimit = 2
    HumanReviewAfter = 1
    SystemicAfter = 2
    MaxRemediationDepth = 2
    MaxAttempts = 1
    MaxCompletions = 3
    MaxFaults = 1
    MaxReplays = 1
    Unrenderable = {}
    MaxCopies = 1
\* The environment is bounded: once its budgets are spent the system may rest.
CHECK_DEADLOCK FALSE
INVARIANTS
    ExactCount
PROPERTIES
    ImplementsLedger
    DeliveriesEnd
