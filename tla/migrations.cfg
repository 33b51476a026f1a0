\* Three replicas start on any prefix of the two revisions.
SPECIFICATION FairSpec
CONSTANTS
    Replicas = {r1, r2, r3}
    Head = 2
    MaxCrashes = 2
    MaxLost = 1
INVARIANTS
    RevisionsOnce
    LockSerializes
    ServesAtHead
PROPERTIES
    AllServe
\* Replicas that serve do not migrate again.
CHECK_DEADLOCK FALSE
