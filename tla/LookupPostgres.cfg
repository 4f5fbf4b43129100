CONSTANTS
    Viewers = {v1}
    Editors = {e1, e2}
    Registered = {v1}
    Admins = {}
    Banned = {v1}
    Premium = {v1}
    Movies = {m1, m2}
    Codes = {c1, c2}
    Rules = {"public"}
    EditKinds = {"code", "delete", "active"}
    Backend = "postgresql"
    TTL = 1
    MaxSize = 2
    FillDelay = 1
    MaxTime = 0
    None = None
SPECIFICATION FairSpec
INVARIANTS InvalidatedNeverServed
PROPERTIES TasksFinish
