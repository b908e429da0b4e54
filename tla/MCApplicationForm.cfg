SPECIFICATION FormSpec
CONSTANTS
    a1 = a1
    a2 = a2
    a3 = a3
    u1 = u1
    u2 = u2
    title = title
    pay = pay
    currency = currency
    l1 = l1
    l2 = l2
    s1 = s1
    s2 = s2
    NoUrl = NoUrl
    None = None
    Applications <- MCApplications
    Own <- MCOwn
    Urls <- MCUrls
    Fields <- MCFields
    Required <- MCRequired
    Filled <- MCFilled
    Currency = currency
    Pay <- MCPay
    Has <- MCHas
    InDollars <- MCInDollars
    Loads <- MCLoads
    Saves <- MCSaves
    MaxMoves = 5
INVARIANTS
    FormTypeOK
    EditSavesItsRecord
PROPERTIES
    TypedIsKept
CHECK_DEADLOCK FALSE
