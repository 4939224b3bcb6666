SPECIFICATION LeaseSpec
CONSTANTS
    Processes = {p1, p2, p3}
    NoLease = NoLease
INVARIANTS
    ReclaimOnlyWhenGone
CHECK_DEADLOCK FALSE
