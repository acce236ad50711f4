CONSTANTS
    Kinds <- TwoKinds
    Servers = {a}
    Local = local
    Interval = 2
    Never = never
    RetainedJobs = 1
    Ids = {1, 2, 3, 4}
    MaxChanges = 2
SPECIFICATION FairSpec
INVARIANT SingleFlight
PROPERTY SyncsComeBack
