SPECIFICATION FairSpec
CONSTANTS
    Messages = 2
    QueueCap = 1
    SlotCtx = 5
    NamedCap = 0
    MinCutTokens = 2
    Guard = 2
    UserTokens = 1
    Margin = 1
    Faults = TRUE
    Interrupts = TRUE
INVARIANTS
    TypeOK
    EnterIsHeard
    TokensAreTheTurns
    
    SlotHoldsTheTurn
PROPERTIES
    ImplementsConversation
    InterruptsEnd
    ReturnedIsShown
