\* Three requests, on a new or a used installation, with a crash and a failing
\* file operation.  Each request is sent once, and a torn file ends it all: the
\* system may stop.  A restore ends with setting a node count and the time of the
\* last use, so the requests that only do the one or the other are left out.
CONSTANTS
    Default = s0
    Sources = {s0, s1}
    Names = {d}
    Requests = {r1, r2, r3}
    Intervals <- MCIntervals
    Kinds = {"schedule", "restore"}
    MaxCrashes = 1
    MaxFaults = 1
    None = None
SPECIFICATION FairSpec
CHECK_DEADLOCK FALSE
INVARIANTS
    TypeOK
    AckedUsable
    AckedDurable
    OneOwner
    DirsListed
    FileCurrent
PROPERTIES
    FieldsKept
    RequestsEnd
