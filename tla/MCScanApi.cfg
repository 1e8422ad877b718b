CONSTANTS
    s1 = s1  s2 = s2  d1 = d1
    Scan = {s1, s2}
    Domain = {d1}
    DomainOf <- OneDomain
    WaysOf <- QueueBesideHere
    Check = {c1}
    Worker = {w1}
    MaxJobs = 1
    MaxTries = 2
    MaxFaults = 1
    MaxCrashes = 1
    MaxExpiries = 1
    Request = {g1}
    MaxTroubles = 2
    NoWorker = NoWorker  NoReport = NoReport  NoCheck = NoCheck  NoEvent = NoEvent  NoScan = NoScan
SPECIFICATION ApiSpec
INVARIANTS ApiTypeOK ReportsKeepTheirScan EveryReportIsARun AnnouncedIsServed StoresAgreeOverReads CallIsRetrievable
\* Every scan ends and no new one is drawn: the model stops there.
CHECK_DEADLOCK FALSE
