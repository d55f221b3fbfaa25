SPECIFICATION FairServeSpec
CONSTANTS
    a = a
    b = b
    c = c
    Absent = Absent
    Malformed = Malformed
    Runs = {a, b, c}
    Snapshots <- MCSnapshots
    MaxPublishers = 2
    Port = 80
    MaxEdits = 3
INVARIANTS
    ServeTypeOK
    OneSessionPerRun
    DetachedOnPurpose
PROPERTIES
    Follows
CHECK_DEADLOCK FALSE
