SPECIFICATION SessionSpec
CONSTANTS
    MaxNode = 5
    PageSize = 2
    PageLimit = 2
    Retries = 2
    MaxChanges = 2
    t1 = t1  t2 = t2
    p1 = p1  p2 = p2
    Absent = Absent
    Teams = {t1, t2}
    Projects = {p1, p2}
    Slugs = {"ours", "theirs"}
    Keys = {"SDK", "sdk", "OPS"}
    Upper <- MCUpper
    StateIds <- MCStateIds
    AskedSlug = "ours"
    AskedKey = "sdk"
    Workspaces <- MCWorkspaces
    CheckedIn <- MCCheckedIn
    MaxDrift = 1
\* A job whose call has ended, or that failed, does nothing more.
CHECK_DEADLOCK FALSE
INVARIANTS
    TypeOK
    ListingComplete
    JobsComplete
    ListedOnce
    AppliedOnce
    MissingMeansAbsent
PROPERTIES
    RoutedAsAsked
