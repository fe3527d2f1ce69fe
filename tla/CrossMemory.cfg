SPECIFICATION Spec
CONSTANTS
    Spaces <- MCSpaces
    Clients = {c1}
    UserKind <- MCUserKind
    LXs <- MCLXs
    MaxChain = 2
INVARIANTS
    TypeOK
    OneCurrentArea
    RunningServerReachable
    NoCallToTheDead

    
CHECK_DEADLOCK FALSE
