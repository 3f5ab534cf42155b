CONSTANTS
    User = {"olga", "mallory"}
    NoUser = "nobody"
    Connection = {1, 2}
    UserOf <- OneUser
    Grant = {"ENABLED"}
    Origin = {"FRESH", "LEGACY"}
    Fault = {"crash", "disable", "lookup", "auth", "inconsistent"}
    MaxDate = 2
    MaxTrigger = 2
    MaxRevision = 1
    MaxCandidates = 1
SPECIFICATION FairConnSpec
INVARIANT ConnTypeOK
INVARIANT OpenMeansGranted
INVARIANT PendingHasCause
INVARIANT NoContradiction
PROPERTY DisableSticks
PROPERTY ImplementsTrust
PROPERTY TriggersSettle
PROPERTY GateOpens
