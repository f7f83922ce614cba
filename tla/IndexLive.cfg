\* A write and two readers that load and recover at the same time, with a crash
\* and a failing file operation: every request the server starts on ends.
CONSTANTS
    b0 = b0
    b1 = b1
    b2 = b2
    i1 = i1
    i2 = i2
    e1 = e1
    Inserts = {i1}
    Embeds = {}
    Queries = {q1}
    Searches = {s1}
    Pages = {}
    Batch = {b0, b1, b2}
    BatchOf <- MCBatchOf
    Seed <- MCSeed
    Origins = {"new", "restored"}
    SerialClients = FALSE
    MaxCrashes = 1
    MaxFaults = 1
    Absent = Absent
    Torn = Torn
    NoOne = NoOne
SPECIFICATION FairSpec
PROPERTIES
    RequestsEnd
