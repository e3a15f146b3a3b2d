SPECIFICATION FairSpec
CONSTANTS
    Invocations = {r1, r2}
    Leases = {r1, r2}
    EodKey = eod
    Keys = {eod}
    Batches = {1, 2}
    NoBatch = NoBatch
    NoLease = NoLease
    MaxTime = 4
    LeaseTtl = 2
    MaxDeferredAttempts = 2
    RetryBackoff = 2
    BackoffMultiplier = 2
    ScheduledAt = 0
    GracePeriod = 1
    StartBy = 2
    Scheduled = {r1}
    EarlierStatuses = {"absent", "partial_success", "skipped_no_new_market_date"}
    MaxClock = 2
INVARIANTS
    SchedulerTypeOK
    OneActiveLeasePerKey
    LeasesHonoured
    OneBatchWithoutOverrun
    ProbesBounded
PROPERTIES
    RetiredLeasesStand
    ImplementsExclusiveLease
    VerdictsStand
    EveryRunEnds
CHECK_DEADLOCK FALSE
