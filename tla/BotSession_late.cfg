\* One user, late calls, under fairness.
CONSTANTS
    h1 = h1
    h2 = h2
    ann = ann
    bob = bob
    chat = chat
    NoSession = NoSession
    Users <- MCOneUser
    Chats <- MCChats
    Handlers <- MCHandlers
    MaxDocument = 1
    MaxLate = 1
SPECIFICATION FairSpec
PROPERTIES
    NeverReactivated
    Served
