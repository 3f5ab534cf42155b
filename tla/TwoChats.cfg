CONSTANTS
    MaxUpdate = 3
    Chat = {"alice", "bob"}
    ChatOf <- TwoChats
    MaxAttempts = 1
    Modes = {"LIVE"}
    Traffic = {"INBOUND", "OWNER", "CONNECTION"}
    Fault = {"crash", "retire"}
    Verdict = {"ALLOW"}
    Answer = {"INCORRECT"}
    RightSets <- SomeRights
SPECIFICATION FairSpec
INVARIANT ChallengeRows
PROPERTY ImplementsGate
PROPERTY RecordedGetApplied
PROPERTY GateReopens
