CONSTANTS
    u1 = u1
    u2 = u2
    Users <- MCUsers
    Status <- MCStatus
    NoUser = NoUser
    Tampered = Tampered
    Chars <- MCChars
    SecuritySecret <- MCConfiguredSecret
    LegacySecret <- MCUnset
    DefaultSecret <- MCDefaultSecret
    KnownSecrets <- MCKnownSecrets
    MinSecretLen = 2
    TTLConfig = 2
    DefaultTTL = 3
    MaxTime = 3
    MaxTokens = 3
    DBErrors = TRUE
SPECIFICATION Spec
INVARIANTS
    Authenticity
