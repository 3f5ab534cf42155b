CONSTANTS
    MaxUpdate = 2
    Chat = {"alice"}
    ChatOf <- OneChat
    MaxAttempts = 2
    Modes = {"LIVE"}
    Traffic = {"INBOUND", "CONNECTION"}
    Fault = {}
    Verdict = {"ALLOW"}
    Answer = {"CORRECT", "INCORRECT", "NON_NUMERIC"}
    RightSets <- AllRights
    MaxRetries = 0
    Reply = {"OK"}
    Ambiguous = {}
    MaxRows = 9
SPECIFICATION ServiceSpec
PROPERTY DisabledForCause
