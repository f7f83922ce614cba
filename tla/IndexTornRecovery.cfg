\* A crash while .bin is written back from the replica.
CONSTANTS
    b0 = b0
    b1 = b1
    b2 = b2
    i1 = i1
    i2 = i2
    e1 = e1
    Inserts = {i1}
    Embeds = {}
    Queries = {q1}
    Searches = {}
    Pages = {}
    Batch = {b0, b1, b2}
    BatchOf <- MCBatchOf
    Seed <- MCSeed
    Origins = {"restored"}
    SerialClients = TRUE
    MaxCrashes = 1
    MaxFaults = 0
    Absent = Absent
    Torn = Torn
    NoOne = NoOne
SPECIFICATION Spec
INVARIANTS
    NothingLost
