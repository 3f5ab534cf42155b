CONSTANTS
    User = {"olga", "mallory"}
    NoUser = "nobody"
    Connection = {1, 2}
    UserOf <- OneUser
    Grant = {"ENABLED"}
    Origin = {"FRESH", "LEGACY"}
    Fault = {"lookup"}
    MaxDate = 2
    MaxTrigger = 2
    MaxRevision = 2
    MaxCandidates = 1
SPECIFICATION FairConnSpec
PROPERTY StartsReachReady
