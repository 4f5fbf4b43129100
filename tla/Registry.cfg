CONSTANTS
    g = g
    p = p
    a1 = a1
    a2 = a2
    c1 = c1
    c2 = c2
    f1 = f1
    Tasks = {t1, t2}
    Chats = {g, p}
    Groups = {g}
    Admins = {a1, a2}
    AdminOf <- OneAdminEach
    Codes = {c1, c2}
    Files = {f1}
    Asked = {c1}
    Imports <- OfTwoRows
    Earlier = Earlier
    Openings <- Found
    Bookings <- Booked
    Kinds = {"media", "text", "done", "open", "reserve", "release", "import"}
    MaxAttempts = 2
    Backend = "postgresql"
    None = None
SPECIFICATION FairSpec
INVARIANTS TypeOK CaptureUsedOnce ToldIffStored
PROPERTIES ReservationsRespected CaptureNotReplaced TasksFinish
