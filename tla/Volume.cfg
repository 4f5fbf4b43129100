SPECIFICATION FairSpec
CONSTANTS
    Films = {m1, m2}
    Backends = {"sqlite", "postgresql"}
    Origins = {"new", "legacy", "revision 3", "revision 1", "head"}
    Commands = 3
    Crashes = 1
INVARIANTS TypeOK RowsSurvive StampNeverAhead TablesFollowVersion CreatedIsUsable
PROPERTY ComesUp
