CONSTANTS
    EventCap = 1
    SanityCheck = FALSE
    Webhooks = {"ParticipantDisconnectedIntentionally"}
SPECIFICATION FairSpec
PROPERTIES
    LeavesWaiting
    TerminalStateReported
    StoppedJobExits
