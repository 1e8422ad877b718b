CONSTANTS
    s1 = s1  s2 = s2  s3 = s3  c1 = c1  c2 = c2  d1 = d1  d2 = d2
    Scan = {s1}
    Domain = {d1}
    DomainOf <- OneDomain
    Check = {c1, c2}
    Worker = {w1}
    MaxJobs = 1
    MaxTries = 2
    MaxFaults = 2
    MaxCrashes = 2
    MaxExpiries = 1
    NoWorker = NoWorker  NoReport = NoReport  NoCheck = NoCheck  NoEvent = NoEvent
SPECIFICATION Spec
SYMMETRY Symmetry
INVARIANTS TypeOK ProgressIsExact CompleteAfterSaved StoresAgree ReturnedIsAnswered SilentOnlyIfLost
    StreamStaysShort ReportsAreWholeRuns
PROPERTY KeepsProtocol
\* Every scan ends and no new one is drawn: the model stops there.
CHECK_DEADLOCK FALSE
