\* A write, a query, a backup and a restore: the query is answered from the cache
\* entry of before the restore.
CONSTANTS
    b0 = b0
    b1 = b1
    b2 = b2
    i1 = i1
    Inserts = {i1}
    Embeds = {}
    Queries = {q1}
    Searches = {}
    Pages = {}
    Batch = {b0, b1, b2}
    BatchOf <- MCBatchOf
    Seed <- MCSeed
    Origins = {"existing"}
    SerialClients = FALSE
    MaxCrashes = 0
    MaxFaults = 0
    Absent = Absent
    Torn = Torn
    NoOne = NoOne
    Backups = {k1}
    Restores = {r1}
    Deletes = {}
    MaxBackups = 1
    MaxClock = 0
SPECIFICATION BackupSpec
CHECK_DEADLOCK FALSE
INVARIANTS
    RestoreServed
