\* Two users in one chat, two updates at a time.
CONSTANTS
    h1 = h1
    h2 = h2
    ann = ann
    bob = bob
    chat = chat
    NoSession = NoSession
    Users <- MCUsers
    Chats <- MCChats
    Handlers <- MCHandlers
    MaxDocument = 2
    MaxLate = 0
SPECIFICATION Spec
SYMMETRY MCSymmetry
INVARIANTS
    TypeOK
    OwnDocumentsOnly
    ScopeAsChosen
