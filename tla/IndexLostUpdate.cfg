\* Two clients write at the same time.
CONSTANTS
    b0 = b0
    b1 = b1
    b2 = b2
    i1 = i1
    i2 = i2
    e1 = e1
    Inserts = {i1}
    Embeds = {e1}
    Queries = {}
    Searches = {}
    Pages = {}
    Batch = {b0, b1, b2}
    BatchOf <- MCBatchOf
    Seed <- MCSeed
    Origins = {"existing"}
    SerialClients = FALSE
    MaxCrashes = 0
    MaxFaults = 0
    Absent = Absent
    Torn = Torn
    NoOne = NoOne
SPECIFICATION Spec
INVARIANTS
    AckedDurable
CHECK_DEADLOCK FALSE
