SPECIFICATION Spec
CONSTANTS
    KEY = 2
    PREFIX = 2
    MAX_MESSAGE_SIZE = 100
    PublicKeys <- MCPublicKeys
    Providers <- MCProviders
    OtherServers <- MCOtherServers
    OtherClients <- MCOtherClients
    Symbols <- MCSymbols
    Cuts <- MCCuts
INVARIANTS
    AnsweredAsNamed
    VerdictsExact
    DamageIsSeen
    RefusalHasCause
    MessagesAsWritten
CHECK_DEADLOCK FALSE
