SPECIFICATION Spec
CONSTANTS
    Films = {m1, m2}
    Backends = {"sqlite"}
    Origins = {"new"}
    Commands = 1
    Crashes = 0
INVARIANT ProvisionedIsUsable
