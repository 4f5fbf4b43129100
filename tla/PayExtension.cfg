CONSTANTS
    Users = {u1}
    Registered = {u1}
    Stars = {s1}
    Receipts = {}
    Reviews = {}
    Grants = {g1}
    Revokes = {}
    Days = {1}
    Backend = "sqlite"
    MaxTime = 0
    None = None
    MaxId = 1
SPECIFICATION Spec
INVARIANTS GrantNeverCrashes
