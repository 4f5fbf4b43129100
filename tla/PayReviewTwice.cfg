CONSTANTS
    Users = {u1}
    Registered = {u1}
    Stars = {}
    Receipts = {r1}
    Reviews = {a1, a2}
    Grants = {}
    Revokes = {}
    Days = {1}
    Backend = "postgresql"
    MaxTime = 0
    None = None
    MaxId = 1
SPECIFICATION Spec
PROPERTIES ReviewedOnce
