CONSTANTS
    Reader = {r1}
    Event = {check, complete}
    Terminal = {complete}
    BatchSize = 2
    MaxLog = 4
    MaxDrops = 2
    MaxExpiries = 1
SPECIFICATION FairSpec
INVARIANTS TypeOK ReceivedInOrder TerminalEndsResponse
PROPERTY AllReachReaders
\* Every reader may leave once nothing more is published: the model stops there.
CHECK_DEADLOCK FALSE
