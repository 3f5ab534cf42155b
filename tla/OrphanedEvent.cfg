CONSTANTS
    MaxUpdate = 1
    Chat = {"alice"}
    ChatOf <- OneChat
    MaxAttempts = 2
    Modes = {"LIVE"}
    Traffic = {"INBOUND"}
    Fault = {"crash", "retire"}
    Verdict = {"ALLOW"}
    Answer = {"CORRECT", "INCORRECT", "NON_NUMERIC"}
    RightSets <- AllRights
SPECIFICATION Spec
INVARIANT StartupCanRecover
