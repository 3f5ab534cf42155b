CONSTANTS
    MaxUpdate = 3
    Chat = {"alice"}
    ChatOf <- OneChat
    MaxAttempts = 2
    Modes = {"LIVE"}
    Traffic = {"INBOUND", "CONNECTION", "QUERY"}
    Fault = {"retire"}
    Verdict = {"SPAM"}
    Answer = {"CORRECT", "INCORRECT", "NON_NUMERIC"}
    RightSets <- AllRights
    MaxRetries = 0
    Reply = {"OK"}
    Ambiguous = {}
    MaxRows = 0
SPECIFICATION FairService
PROPERTY KeylessDelivered
