CONSTANTS
    Check <- RegisteredChecks
    SeverityOf <- RegisteredSeverity
    Score <- SomeScores
    NoScore = NoScore
    Server = {ns1, ns2}
    MaxServers = 2
    MaxFaults = 1
    Suite <- SomeSuites
    MaxSuites = 3
    MaxDeployments = 2
    Burst = 4
    Concurrency = 2
    Secured = {5, 6}
    Quotas = {2, 7}
    Capacities = {2, 4}
    MaxWindows = 1
    MaxErrors = 2
SPECIFICATION Spec
SYMMETRY Symmetry
INVARIANTS TypeOK GradeWithinChecks DnsScoreMatchesDetails TransferVerdict SslScoreMatchesDetails DetailsCost BurstFindsLimiter VerdictsAreTheTargets
PROPERTY PulledTowardsNewResult
\* The part that runs comes to its end.
CHECK_DEADLOCK FALSE
