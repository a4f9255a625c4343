SPECIFICATION Spec
CONSTANTS
    Scanners <- MCScanners
    PhaseOf <- MCPhaseOf
    Tolerant <- MCTolerant
    NoContext <- MCNoContext
    Required <- MCRequired
    Severity <- MCSeverity
    Limit <- MCLimit
    Artifacts = 2
    MinArtifacts = 1
\* A job that has ended does nothing more.
CHECK_DEADLOCK FALSE
INVARIANTS
    PassHasEvidence
    NothingUnseen
    WithinLimits
PROPERTIES
    MetaRemembers
