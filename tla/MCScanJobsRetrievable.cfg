CONSTANTS
    s1 = s1  s2 = s2  s3 = s3  c1 = c1  c2 = c2  d1 = d1  d2 = d2
    Scan = {s1, s2}
    Domain = {d1}
    DomainOf <- OneDomain
    Check = {c1}
    Worker = {w1}
    MaxJobs = 2
    MaxTries = 1
    MaxFaults = 0
    MaxCrashes = 0
    MaxExpiries = 0
    NoWorker = NoWorker  NoReport = NoReport  NoCheck = NoCheck  NoEvent = NoEvent
SPECIFICATION Spec
INVARIANT CompleteIsRetrievable
\* Every scan ends and no new one is drawn: the model stops there.
CHECK_DEADLOCK FALSE
