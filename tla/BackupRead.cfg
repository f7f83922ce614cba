\* A write, a reader, two backups and a restore at the same time, with a crash.
CONSTANTS
    b0 = b0
    b1 = b1
    b2 = b2
    i1 = i1
    Inserts = {i1}
    Embeds = {}
    Queries = {q1}
    Searches = {}
    Pages = {}
    Batch = {b0, b1, b2}
    BatchOf <- MCBatchOf
    Seed <- MCSeed
    Origins = {"existing"}
    SerialClients = TRUE
    MaxCrashes = 1
    MaxFaults = 0
    Absent = Absent
    Torn = Torn
    NoOne = NoOne
    Backups = {k1, k2}
    Restores = {r1}
    Deletes = {}
    MaxBackups = 1
    MaxClock = 0
SPECIFICATION BackupSpec
SYMMETRY MCSymmetry
INVARIANTS
    CommittedReads
    ArchivesAgree
    RestoredExactly
