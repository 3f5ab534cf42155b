CONSTANTS
    Seed = {"s1", "s2"}
    Bot = {"b1", "b2"}
    None = "none"
    Inode = {1, 2, 3}
    Root = TRUE
    Origin = {"ABSENT", "LEGACY"}
    Attempts = 2
    Fault = {"crash", "power", "io", "telegram", "stop", "operator"}
    MaxFaults = 4
SPECIFICATION FairInstSpec
INVARIANT InstTypeOK
INVARIANT LeftoversAccepted
INVARIANT PublishedCodeWorks
INVARIANT FilesFollowOwner
INVARIANT WebhookAccepted
INVARIANT OneBotPerSeed
INVARIANT ChallengesAnswerable
PROPERTY NoCodeAfterClaim
PROPERTY ComesUp
