CONSTANTS
    Viewers = {v1, v2}
    Editors = {}
    Registered = {v1}
    Admins = {}
    Banned = {}
    Premium = {}
    Movies = {m1}
    Codes = {c1}
    Rules = {"public"}
    EditKinds = {"caption"}
    Backend = "sqlite"
    TTL = 1
    MaxSize = 1
    FillDelay = 1
    MaxTime = 1
    None = None
SPECIFICATION Spec
INVARIANTS HitsAreReadable
