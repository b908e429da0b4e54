SPECIFICATION Spec
CONSTANTS
    u1 = u1
    u2 = u2
    a1 = a1
    a2 = a2
    p1 = p1
    p2 = p2
    p1tracked = p1tracked
    r1 = r1
    r2 = r2
    NoUser = NoUser
    NoUrl = NoUrl
    NoPosting = NoPosting
    Users <- MCUsers
    Moderators <- MCModerators
    Applications <- MCApplications
    Urls <- MCUrls
    Postings <- MCPostings
    Posting <- MCPosting
    MaxPay = 1
    Requests <- MCRequests
SYMMETRY MCSymmetry
INVARIANTS
    TypeOK
    OneRecordPerKey
    PayInOrder
PROPERTIES
    AuthorityKept
    ErasedForGood
CHECK_DEADLOCK FALSE
