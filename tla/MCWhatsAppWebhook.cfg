SPECIFICATION FairSpec
CONSTANTS
    m1 = m1
    m2 = m2
    m3 = m3
    ann = ann
    bob = bob
    Ids = {m1, m2, m3}
    Senders = {ann, bob}
    Sender <- MCSender
    Payloads <- MCPayloads
    SeenLimit = 2
    MaxTasks = 3
    MaxParts = 2
    MaxFailures = 1
    MaxRestarts = 1
INVARIANTS
    TablesExact
    AskedOnce
    LostWithItsTask
PROPERTIES
    TasksEnd
CHECK_DEADLOCK FALSE
