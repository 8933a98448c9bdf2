CONSTANTS
    EventCap = 1
    SanityCheck = TRUE
    WebhooksLost = TRUE
    Webhooks = {"ParticipantConnected", "ParticipantDisconnectedIntentionally",
                "ParticipantConnectionAborted"}
SPECIFICATION WatchSpec
INVARIANT ReportsAreTrue
PROPERTIES ConnectedNeverLeavesEarly WatchedLeaveIsSent
