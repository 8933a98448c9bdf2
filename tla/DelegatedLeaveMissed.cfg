CONSTANTS
    EventCap = 1
    SanityCheck = FALSE
    WebhooksLost = FALSE
    Webhooks = {"ParticipantDisconnectedIntentionally"}
SPECIFICATION LeaveFairSpec
PROPERTIES
    LeaveIsSent
