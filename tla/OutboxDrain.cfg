CONSTANTS
    MaxUpdate = 1
    Chat = {"alice"}
    ChatOf <- OneChat
    MaxAttempts = 2
    Modes = {"LIVE"}
    Traffic = {"INBOUND"}
    Fault = {"crash"}
    Verdict = {"SPAM", "ALLOW"}
    Answer = {"INCORRECT"}
    RightSets <- AllRights
    MaxRetries = 2
    Reply = {"OK", "NO_RIGHTS", "TIMEOUT", "RETRYABLE", "ALREADY_APPLIED", "REJECTED"}
    Ambiguous = {"TIMEOUT", "RETRYABLE"}
    MaxRows = 3
SPECIFICATION FairService
INVARIANT RetryBudget
INVARIANT ShownOncePerAttempt
INVARIANT RepeatedOnlyOnFailure
INVARIANT NoSilentPrompt
PROPERTY OutboxDrains
