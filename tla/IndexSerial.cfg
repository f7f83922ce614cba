\* Clients that write one at a time, no crash, no failing file operation: every
\* way the files may look at the start, with recovery from the replica.
CONSTANTS
    b0 = b0
    b1 = b1
    b2 = b2
    i1 = i1
    i2 = i2
    e1 = e1
    Inserts = {i1}
    Embeds = {e1}
    Queries = {q1}
    Searches = {s1}
    Pages = {p1}
    Batch = {b0, b1, b2}
    BatchOf <- MCBatchOf
    Seed <- MCSeed
    Origins = {"new", "existing", "restored"}
    SerialClients = TRUE
    MaxCrashes = 0
    MaxFaults = 0
    Absent = Absent
    Torn = Torn
    NoOne = NoOne
SPECIFICATION Spec
INVARIANTS
    TypeOK
    QuietDiskAgrees
PROPERTIES
    MonotonicReads
    ImplementsPromise
