\* Clients and the server: Reads that cut messages, tokens, a full pool and shutdown.
SPECIFICATION Spec
CHECK_DEADLOCK FALSE
CONSTANTS
    c1 = c1
    c2 = c2
    Clients <- TwoClients
    BufSize = 10
    MaxConns = 1
    Token <- TokenLine
    Results <- SomeResults
    Loads <- ServerLoads
INVARIANTS
    NoPhantom
    AuthFirst
    
    ClosedOnReturn
    
PROPERTIES
    AnswerOrEnd
    ConnReturned
    SignalEnds
