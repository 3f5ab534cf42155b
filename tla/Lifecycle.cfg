CONSTANTS
    MaxUpdate = 3
    Chat = {"alice"}
    ChatOf <- OneChat
    MaxAttempts = 2
    Modes = {"LIVE"}
    Traffic = {"INBOUND", "EDITED", "OWNER", "BOT", "DELETED", "RESET", "UNBLOCK", "DRY_RUN", "QUERY"}
    Fault = {"crash"}
    Verdict = {"ALLOW", "SPAM"}
    Answer = {"CORRECT", "INCORRECT", "NON_NUMERIC"}
    RightSets <- AllRights
SPECIFICATION Spec
INVARIANT TypeOK
INVARIANT ChallengeMatchesState
INVARIANT SpentMeansClosed
INVARIANT ActiveIffOwnerReply
INVARIANT CleanupSparesOwner
INVARIANT RecordedStaysApplicable
INVARIANT OneInFlight
PROPERTY ImplementsGate
