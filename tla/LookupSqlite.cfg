CONSTANTS
    Viewers = {v1, v2}
    Editors = {e1}
    Registered = {v1}
    Admins = {}
    Banned = {}
    Premium = {}
    Movies = {m1}
    Codes = {c1}
    Rules = {"public", "hidden"}
    EditKinds = {"active", "delete"}
    Backend = "sqlite"
    TTL = 1
    MaxSize = 2
    FillDelay = 1
    MaxTime = 3
    None = None
SPECIFICATION Spec
INVARIANTS TypeOK BoundedStaleness BoundedPoisoning InvalidatedNeverServed ViewsNeverExceedSends
