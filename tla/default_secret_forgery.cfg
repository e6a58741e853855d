CONSTANTS
    u1 = u1
    u2 = u2
    Users <- MCUsers
    Status <- MCStatus
    NoUser = NoUser
    Tampered = Tampered
    Chars <- MCChars
    SecuritySecret <- MCUnset
    LegacySecret <- MCUnset
    DefaultSecret <- MCDefaultSecret
    KnownSecrets <- MCKnownSecrets
    MinSecretLen = 2
    TTLConfig = 0
    DefaultTTL = 3
    MaxTime = 3
    MaxTokens = 3
    DBErrors = FALSE
SPECIFICATION Spec
INVARIANTS
    Authenticity
