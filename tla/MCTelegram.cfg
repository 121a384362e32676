SPECIFICATION MCSpec
CONSTANTS
    u1 = u1
    u2 = u2
    u3 = u3
    u4 = u4
    home = home
    group = group
    Updates = {u1, u2, u3, u4}
    Chats = {home, group}
    Chat <- MCChat
    Refused = {u4}
    MaxTasks = 3
    MaxParts = 2
    MaxFailures = 1
    MaxRestarts = 1
    MaxUpdates = 3
    MaxMessages = 2
    Attempts = 2
    MaxFailedRequests = 1
    MaxCrashes = 1
INVARIANTS
    AskedInTurn
    LostWithItsTask
    NoUpdateLost
    SentInOrder
PROPERTIES
    TasksEnd
    EveryUpdateConfirmed
CHECK_DEADLOCK FALSE
