\* A write, two backups, a restore and a deletion at the same time, with a crash
\* and a failing file operation.  Each is sent once: then the system may stop.
CONSTANTS
    b0 = b0
    b1 = b1
    b2 = b2
    i1 = i1
    Inserts = {i1}
    Embeds = {}
    Queries = {}
    Searches = {}
    Pages = {}
    Batch = {b0, b1, b2}
    BatchOf <- MCBatchOf
    Seed <- MCSeed
    Origins = {"new", "existing"}
    SerialClients = TRUE
    MaxCrashes = 1
    MaxFaults = 1
    Absent = Absent
    Torn = Torn
    NoOne = NoOne
    Backups = {k1, k2}
    Restores = {r1}
    Deletes = {d1}
    MaxBackups = 1
    MaxClock = 1
SPECIFICATION BackupSpec
CHECK_DEADLOCK FALSE
SYMMETRY MCSymmetry
INVARIANTS
    BackupTypeOK
    ArchivesCommitted
    RetentionKeeps
PROPERTY
    KeepsPromise
