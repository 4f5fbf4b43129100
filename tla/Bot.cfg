SPECIFICATION FairSpec
CONSTANTS
    t1 = t1
    t2 = t2
    t3 = t3
    u1 = u1
    u2 = u2
    u3 = u3
    u4 = u4
    channel = channel
    page = page
    None = None
    Earlier = Earlier
    Tasks = {t1, t2, t3}
    Users = {u1, u2, u3, u4}
    Admin = u1
    Targets = {channel, page}
    External = {page}
    Keys <- MCKeys
    OnByDefault = {"referral"}
    Workloads <- MCWorkloads
    Threshold = 2
    Batch = 3
    Attempts = 2
    Keep = 1
INVARIANTS TypeOK ReferralsAddUp GreetedOnlyIfAdmitted  SentOnce BackupsHoldSettled
PROPERTIES ToggleLostOnlyToAnother TasksFinish
