CONSTANTS
    s1 = s1  c1 = c1  c2 = c2  d1 = d1
    Scan = {s1}
    Domain = {d1}
    DomainOf <- OneDomain
    Check = {c1, c2}
    Worker = {w1}
    MaxJobs = 1
    MaxTries = 2
    MaxFaults = 0
    MaxCrashes = 1
    MaxExpiries = 0
    NoWorker = NoWorker  NoReport = NoReport  NoCheck = NoCheck  NoEvent = NoEvent
    Followed = s1
    Reader = {r1}
    BatchSize = 2
    MaxDrops = 0
SPECIFICATION FairSystemSpec
INVARIANT ReportMatchesWhatWasHeard
PROPERTY ReadersAreTold
\* Every scan ends and no new one is drawn: the model stops there.
CHECK_DEADLOCK FALSE
