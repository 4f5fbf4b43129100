CONSTANTS
    Users = {u1,u2}
    Registered = {u1}
    Stars = {s1}
    Receipts = {r1}
    Reviews = {a1}
    Grants = {g1}
    Revokes = {v1}
    Days = {0, 1}
    Backend = "sqlite"
    MaxTime = 0
    None = None
    MaxId = 2
SPECIFICATION Spec
INVARIANTS ApprovalPaidOut NeverBeyondGrants
SYMMETRY TaskSymmetry
