CONSTANTS
    Assignments <- MCAssignments
    Resource <- MCResource
    Managers = {"apt", "deb"}
    Packages = {"x", "y"}
    Paths = {"/f", "/g"}
    Contents = {"red", "blue"}
    Torn = "torn"
    Absent = "absent"
    NoCache = NoCache
SPECIFICATION ResourceSpec
INVARIANTS
    ComplianceIsFresh
    EnforcedIsPostChecked
    PolicyIsolation
    ReportIsTrue
    NoTempLeft
CHECK_DEADLOCK FALSE
