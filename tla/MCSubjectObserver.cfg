\* Four observers that wait for each other, fail, come and go.
CONSTANTS
    Observers = {a, b, c, d}
SPECIFICATION SubjectSpec
INVARIANTS
    CleanBetweenSends
    ToldOnce
    WaitsHonoured
    FailuresReportedOnce
PROPERTIES
    SendCompletes
