SPECIFICATION Spec
CONSTANTS
    Spaces <- MCSpaces
    Clients = {}
    UserKind <- MCUserKind
    LXs <- MCLXs
    MaxChain = 2
INVARIANTS
    LookupsAgree
CHECK_DEADLOCK FALSE
