SPECIFICATION Spec
CONSTANTS
    Sessions = {s1, s2}
    Allowlisted = {s2}
    Senders = {"", "a"}
    MaxRecipients = 2
    UserRecipients = 3
    UserMessages = 1
    FailedAuth = 1
    MaxRedisErrors = 1
    MaxAttempts = 2
INVARIANTS
    AcceptedIsEntitled
    RecipientsBounded
