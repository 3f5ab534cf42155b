CONSTANTS
    User = {"olga", "mallory"}
    NoUser = "nobody"
    Connection = {1, 2, 3}
    UserOf <- OneUser
    Grant = {"ENABLED"}
    Origin = {"FRESH"}
    Fault = {}
    MaxDate = 2
    MaxTrigger = 3
    MaxRevision = 1
    MaxCandidates = 1
SPECIFICATION FairConnSpec
INVARIANT FreshConnectionIsReady
