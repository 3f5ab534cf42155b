CONSTANTS
    MaxUpdate = 2
    Chat = {"alice"}
    ChatOf <- OneChat
    MaxAttempts = 2
    Modes = {"LIVE"}
    Traffic = {"INBOUND", "OWNER", "RESET"}
    Fault = {"crash", "dispatch", "retire"}
    Verdict = {"ALLOW", "SPAM"}
    Answer = {"CORRECT", "INCORRECT", "NON_NUMERIC"}
    RightSets <- AllRights
    MaxRetries = 0
    Reply = {"OK", "TIMEOUT", "RETRYABLE"}
    Ambiguous = {"TIMEOUT", "RETRYABLE"}
    MaxRows = 0
SPECIFICATION ServiceSpec
INVARIANT ServiceTypeOK
INVARIANT NoSilentPrompt
PROPERTY NeverReopens
