\* Two requests of two Telegram users, with legal and illegal headers.
CONSTANTS
    r1 = r1
    r2 = r2
    ann = ann
    bea = bea
    NoName = NoName
    Requests <- MCTwo
    TelegramIds <- MCTelegramIds
    Names <- MCNames
    MaxUserId = 3
SPECIFICATION FairSpec
INVARIANTS
    TypeOK
    OneRowPerUser
    ActsAsItself
PROPERTIES
    NameNeverErased
    Served
