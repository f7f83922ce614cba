\* Clients that write one at a time and repeat a write whose answer they did not
\* get, with crashes and failing file operations.
CONSTANTS
    b0 = b0
    b1 = b1
    b2 = b2
    i1 = i1
    i2 = i2
    e1 = e1
    Inserts = {i1, i2}
    Embeds = {e1}
    Queries = {q1}
    Searches = {}
    Pages = {}
    Batch = {b0, b1, b2}
    BatchOf <- MCBatchOf
    Seed <- MCSeed
    Origins = {"new", "existing"}
    SerialClients = TRUE
    MaxCrashes = 2
    MaxFaults = 1
    Absent = Absent
    Torn = Torn
    NoOne = NoOne
SPECIFICATION Spec
INVARIANTS
    AckedDurable
    NothingLost
    AckedOnce
    CommittedReads
PROPERTIES
    ImplementsPromise
