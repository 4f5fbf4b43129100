CONSTANTS
    Users = {u1}
    Registered = {u1}
    Stars = {}
    Receipts = {r1,r2}
    Reviews = {a1, a2}
    Grants = {}
    Revokes = {}
    Days = {1}
    Backend = "postgresql"
    MaxTime = 1
    None = None
    MaxId = 2
SPECIFICATION FairSpec
INVARIANTS TypeOK ApprovalPaidOut ExpiryExplained NeverBeyondGrants ReviewsWhatItShows
PROPERTIES TasksFinish
