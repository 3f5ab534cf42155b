CONSTANTS
    MaxUpdate = 3
    Chat = {"alice"}
    ChatOf <- OneChat
    MaxAttempts = 2
    Modes = {"LIVE"}
    Traffic = {"INBOUND", "OWNER", "DELETED", "RESET"}
    Fault = {"crash", "storage", "reorder", "late_edit"}
    Verdict = {"SPAM", "ERROR"}
    Answer = {"CORRECT", "INCORRECT", "NON_NUMERIC"}
    RightSets <- AllRights
SPECIFICATION Spec
INVARIANT PendingHasChallenge
INVARIANT AttemptsAccounted
INVARIANT EffectsOnce
