CONSTANTS
    EventCap = 2
    SanityCheck = TRUE
    Webhooks = {"ParticipantConnected", "ParticipantDisconnectedIntentionally", "ParticipantConnectionAborted"}
SPECIFICATION Spec
INVARIANTS
    TypeOK
    OneRestartCycle
    RestartCycleAlive
    StaleResultDiscarded
PROPERTIES
    KeepsPromise
    QuietAfterClose
