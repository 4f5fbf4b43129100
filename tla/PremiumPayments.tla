-------------------------- MODULE PremiumPayments ---------------------------
(***************************************************************************)
(* Selling and granting Premium: Stars payments, card receipts and their   *)
(* review, grants and revocations by hand.                                 *)
(*                                                                         *)
(* Every update is a task with its own transaction.  A handler reads a row *)
(* (SELECT), decides, and flushes the columns it changed; it keeps the row *)
(* locks of what it flushed until its commit.  What it read may be out of  *)
(* date by then, and its last Bot API call comes before the commit, so a   *)
(* call that fails undoes all of it.                                       *)
(***************************************************************************)
EXTENDS Integers, FiniteSets

CONSTANTS
    Users, Registered,  \* Telegram accounts; those that have a row in users
    Stars,      \* successful_payment messages
    Receipts,   \* card receipts sent by users
    Reviews,    \* clicks of admins on approve or reject
    Grants,     \* grants of days by an admin
    Revokes,    \* revocations by an admin
    Days,       \* values of premium_duration_days and of days typed by admins
    Backend,    \* "sqlite" or "postgresql"
    MaxTime,    \* bound on the clock, in days
    MaxId,      \* bound on payment_requests.id
    None        \* no row, no value

Tasks == Stars \cup Receipts \cup Reviews \cup Grants \cup Revokes

Ids == 1 .. MaxId

ASSUME PaymentsAssumption ==
    /\ Registered \subseteq Users
    /\ Days \subseteq Nat
    /\ Backend \in {"sqlite", "postgresql"}
    /\ MaxTime \in Nat
    /\ MaxId \in Nat \ {0}
    /\ Stars \cap (Receipts \cup Reviews \cup Grants \cup Revokes) = {}
    /\ Receipts \cap (Reviews \cup Grants \cup Revokes) = {}
    /\ Reviews \cap (Grants \cup Revokes) = {}
    /\ Grants \cap Revokes = {}

Verdicts == {"approved", "rejected"}

UserRows == [premium : BOOLEAN, expires : Nat \cup {None}]
Requests == [user : Users, days : Days, status : Verdicts \cup {"pending"},
             paidBy : Stars \cup Receipts]
Jobs == [user : Users \cup {None}, days : Days \cup {None}, request : Ids \cup {None},
         paidBy : Receipts \cup {None}, verdict : Verdicts \cup {None}]
Histories == [by : Tasks, user : Users, request : Ids \cup {None}, days : Days, expires : Nat]
Buttons == [request : Ids, paidBy : Receipts]

ASSUME NoneAssumption ==
    None \notin Tasks \cup Users \cup UserRows \cup Requests \cup Jobs \cup Nat \cup Verdicts

VARIABLES
    user,     \* committed users rows
    request,  \* committed payment_requests rows
    history,  \* committed premium_history rows
    granted,  \* history: days granted to each user in all
    owner,    \* the task whose uncommitted write locks a users or payment_requests row
    lastId,   \* PostgreSQL's sequence behind payment_requests.id
    clock,    \* datetime.now(UTC), in days
    at,       \* where each task is
    job,      \* what each task is about
    seen,     \* the users row a task read
    draft,    \* what it made of that row
    buttons   \* the approve/reject messages admins have been sent

vars == <<user, request, history, granted, owner, lastId, clock, at, job, seen, draft,
          buttons>>

Steps == {"idle", "find", "write", "insert", "alert", "fetch", "mark", "excuse",
          "reply", "commit", "done", "failed", "crashed", "killed"}

(* The rows that can be locked; a request's row goes by its id.            *)
Rows == (Users \X {"user"}) \cup (Ids \X {"request"})

RowsOK ==
    /\ user \in [Users -> UserRows \cup {None}]
    /\ request \in [Ids -> Requests \cup {None}]
    /\ history \subseteq Histories
    /\ owner \in [Rows -> Tasks \cup {None}]
    /\ lastId \in Ids \cup {0}
    /\ clock \in Nat
    /\ at \in [Tasks -> Steps]
    /\ job \in [Tasks -> Jobs \cup {None}]
    /\ seen \in [Tasks -> UserRows \cup {None}]
    /\ draft \in [Tasks -> UserRows \cup {None}]
    /\ buttons \subseteq Buttons

TypeOK == RowsOK /\ granted \in [Users -> Nat]

Init ==
    /\ user = [u \in Users |-> IF u \in Registered THEN [premium |-> FALSE, expires |-> None]
                                                   ELSE None]
    /\ request = [r \in Ids |-> None]
    /\ history = {}
    /\ granted = [u \in Users |-> 0]
    /\ owner = [w \in Rows |-> None]
    /\ lastId = 0
    /\ clock = 0
    /\ at = [t \in Tasks |-> "idle"]
    /\ job = [t \in Tasks |-> None]
    /\ seen = [t \in Tasks |-> None]
    /\ draft = [t \in Tasks |-> None]
    /\ buttons = {}

-----------------------------------------------------------------------------
(* SQLite's one writer owns every row; PostgreSQL locks the row updated.   *)
LocksOf(w)     == IF Backend = "sqlite" THEN Rows ELSE {w}
LocksOfInsert  == IF Backend = "sqlite" THEN Rows ELSE {}

MayLock(t, rows) == \A w \in rows : owner[w] \in {None, t}
Lock(t, rows)    == owner' = [w \in Rows |-> IF w \in rows THEN t ELSE owner[w]]

(* Slip: a transaction ends and keeps its locks.                           *)
NotReleased(gone) == owner

Released(gone)   == [w \in Rows |-> IF owner[w] \in gone THEN None ELSE owner[w]]

Goto(t, step) == at' = [at EXCEPT ![t] = step]

(* An exception leaves session_scope by its rollback.                      *)
Rollback(t, step) == Goto(t, step) /\ owner' = Released({t})

Begin(t, step, about) ==
    /\ at[t] = "idle"
    /\ job' = [job EXCEPT ![t] = about]
    /\ Goto(t, step)
    /\ UNCHANGED <<user, request, history, granted, owner, lastId, clock, seen, draft, buttons>>

(* grant() refuses days <= 0 before it reads anything.                     *)
FindOrExcuse(d) == IF d > 0 THEN "find" ELSE "excuse"

-----------------------------------------------------------------------------
(* The five kinds of task; days come from the invoice's payload, from the  *)
(* settings at the time of the receipt, or from the admin's message.       *)

OnSuccessfulPayment(t, u, d) ==
    Begin(t, FindOrExcuse(d),
          [user |-> u, days |-> d, request |-> None, paidBy |-> None, verdict |-> None])

ReceiveReceipt(t, u, d) ==
    Begin(t, "insert",
          [user |-> u, days |-> d, request |-> None, paidBy |-> None, verdict |-> None])

IsPending(r) == r # None /\ r.status = "pending"

(* An admin clicks a message sent when the receipt came, or one of those   *)
(* list_pending_payments sends about the requests that are pending.        *)
Listed == {[request |-> r, paidBy |-> request[r].paidBy] :
              r \in {q \in Ids : IsPending(request[q])}}

ReviewPayment(t, b, verdict) ==
    /\ b \in buttons \cup Listed
    /\ Begin(t, "fetch", [user |-> None, days |-> None, request |-> b.request,
                          paidBy |-> b.paidBy, verdict |-> verdict])

ReceivePremiumDays(t, u, d) ==
    Begin(t, FindOrExcuse(d),
          [user |-> u, days |-> d, request |-> None, paidBy |-> None, verdict |-> None])

RevokePremium(t, u) ==
    Begin(t, "find",
          [user |-> u, days |-> None, request |-> None, paidBy |-> None, verdict |-> None])

-----------------------------------------------------------------------------
(* mark_reviewed: the status is checked on the row as read ...             *)
Fetch(t) ==
    /\ at[t] = "fetch"
    /\ LET r == request[job[t].request] IN
       \/ /\ ~ IsPending(r)
          /\ Goto(t, "excuse")
          /\ UNCHANGED job
       \/ /\ IsPending(r)
          /\ job' = [job EXCEPT ![t].user = r.user, ![t].days = r.days]
          /\ Goto(t, "mark")
    /\ UNCHANGED <<user, request, history, owner, lastId, clock, seen, draft, buttons>>

(* Slip: an approval is recorded without its grant.                        *)
MarkReviewedOnly(t) ==
    /\ at[t] = "mark"
    /\ LET rows == LocksOf(<<job[t].request, "request">>) IN MayLock(t, rows) /\ Lock(t, rows)
    /\ Goto(t, "reply")
    /\ UNCHANGED <<user, request, history, lastId, clock, job, seen, draft, buttons>>

(* ... and overwritten by a flush that does not check it again.  A grant   *)
(* refused for its days is caught, and the review stands.                  *)
MarkReviewed(t) ==
    /\ at[t] = "mark"
    /\ LET rows == LocksOf(<<job[t].request, "request">>) IN MayLock(t, rows) /\ Lock(t, rows)
    /\ Goto(t, IF job[t].verdict = "approved" /\ job[t].days > 0 THEN "find" ELSE "reply")
    /\ UNCHANGED <<user, request, history, lastId, clock, job, seen, draft, buttons>>

(* "The expiry if it is later than now, else now": SQLite gives back a     *)
(* datetime without a time zone, and comparing it with now raises.         *)
Incomparable(r) == Backend = "sqlite" /\ r.expires # None

Base(r) == IF r.expires # None /\ r.expires > clock THEN r.expires ELSE clock

(* Slips: the days are granted twice over; they are taken away.            *)
GrantedTwice(r, d)     == [premium |-> TRUE, expires |-> Base(r) + d + d]
GrantedBackwards(r, d) == [premium |-> TRUE, expires |-> Base(r) - d]

Granted(r, d) == [premium |-> TRUE, expires |-> Base(r) + d]
Revoked       == [premium |-> FALSE, expires |-> None]

(* grant() and revoke() read the users row and compute the new one.        *)
FindUser(t) ==
    /\ at[t] = "find"
    /\ LET r == user[job[t].user] IN
       \/ /\ r = None
          /\ Goto(t, IF t \in Reviews THEN "reply" ELSE "excuse")
          /\ UNCHANGED <<owner, seen, draft>>
       \/ /\ r # None
          /\ t \notin Revokes
          /\ Incomparable(r)
          /\ Rollback(t, "crashed")
          /\ UNCHANGED <<seen, draft>>
       \/ /\ r # None
          /\ ~ (t \notin Revokes /\ Incomparable(r))
          /\ seen' = [seen EXCEPT ![t] = r]
          /\ draft' = [draft EXCEPT ![t] = IF t \in Revokes THEN Revoked
                                           ELSE Granted(r, job[t].days)]
          /\ Goto(t, "write")
          /\ UNCHANGED owner
    /\ UNCHANGED <<user, request, history, lastId, clock, job, buttons>>

(* The flush: UPDATE users if a column changed, INSERT INTO                *)
(* premium_history if it is a grant.                                       *)
WriteLocks(t) ==
    (IF seen[t] # draft[t] THEN LocksOf(<<job[t].user, "user">>) ELSE {})
        \cup (IF t \in Revokes THEN {} ELSE LocksOfInsert)

WriteUser(t) ==
    /\ at[t] = "write"
    /\ MayLock(t, WriteLocks(t))
    /\ Lock(t, WriteLocks(t))
    /\ Goto(t, IF t \in Stars THEN "insert" ELSE "reply")
    /\ UNCHANGED <<user, request, history, lastId, clock, job, seen, draft, buttons>>

(* SQLite hands out the successor of the largest id present, PostgreSQL    *)
(* the next one of a sequence that no rollback takes back.                 *)
Present == {r \in Ids : request[r] # None}

(* Slip: the id of a request that was rolled back is used again.           *)
IsNewIdAnywhere(r) ==
    (\A q \in Present : q < r) /\ (r = 1 \/ r - 1 \in Present)

IsNewId(r) ==
    IF Backend = "sqlite"
    THEN (\A q \in Present : q < r) /\ (r = 1 \/ r - 1 \in Present)
    ELSE r = lastId + 1

(* create_request; its user_id references users.                           *)
CreateRequest(t) ==
    /\ at[t] = "insert"
    /\ MayLock(t, LocksOfInsert)
    /\ \E r \in Ids :
          /\ IsNewId(r)
          /\ lastId' = IF Backend = "sqlite" THEN lastId ELSE r
          /\ \/ /\ user[job[t].user] = None
                /\ Rollback(t, "failed")
                /\ UNCHANGED job
             \/ /\ user[job[t].user] # None
                /\ Lock(t, LocksOfInsert)
                /\ job' = [job EXCEPT ![t].request = r]
                /\ Goto(t, IF t \in Stars THEN "reply" ELSE "alert")
    /\ UNCHANGED <<user, request, history, clock, seen, draft, buttons>>

(* Every admin is sent the receipt with its buttons before the row is      *)
(* committed; a message that cannot be sent is skipped.                    *)
NotifyAdmins(t) ==
    /\ at[t] = "alert"
    /\ \/ buttons' = buttons \cup {[request |-> job[t].request, paidBy |-> t]}
       \/ UNCHANGED buttons
    /\ Goto(t, "reply")
    /\ UNCHANGED <<user, request, history, owner, lastId, clock, job, seen, draft>>

(* The answer to the user or admin, which nothing guards.                  *)
Reply(t) ==
    /\ at[t] = "reply"
    /\ \/ Goto(t, "commit") /\ UNCHANGED owner
       \/ Rollback(t, "failed")
    /\ UNCHANGED <<user, request, history, lastId, clock, job, seen, draft, buttons>>

(* The answer of a handler that has written nothing.                       *)
Excuse(t) ==
    /\ at[t] = "excuse"
    /\ \E step \in {"done", "failed"} : Goto(t, step)
    /\ UNCHANGED <<user, request, history, owner, lastId, clock, job, seen, draft, buttons>>

-----------------------------------------------------------------------------
(* An UPDATE names the columns whose value changed, and no other.  Of the  *)
(* columns of premium_history only user_id and expires_at are in the code; *)
(* the task, the request and the days are kept for the properties.         *)
Updated(r, old, new) ==
    [premium |-> IF new.premium = old.premium THEN r.premium ELSE new.premium,
     expires |-> IF new.expires = old.expires THEN r.expires ELSE new.expires]

(* Slip: a receipt counts as approved when it comes in.                    *)
NewRequestApproved(t) ==
    [user |-> job[t].user, days |-> job[t].days, paidBy |-> t, status |-> "approved"]

NewRequest(t) ==
    [user |-> job[t].user, days |-> job[t].days, paidBy |-> t,
     status |-> IF t \in Stars THEN "approved" ELSE "pending"]

(* Slip: the history gets the date of the grant for its expiry.            *)
NewHistoryOfNow(t) ==
    [by |-> t, user |-> job[t].user, request |-> job[t].request,
     days |-> job[t].days, expires |-> clock]

NewHistory(t) ==
    [by |-> t, user |-> job[t].user, request |-> job[t].request,
     days |-> job[t].days, expires |-> draft[t].expires]

Commit(t) ==
    /\ at[t] = "commit"
    /\ request' = [r \in Ids |->
          IF r # job[t].request THEN request[r]
          ELSE IF t \in Reviews THEN [request[r] EXCEPT !.status = job[t].verdict]
          ELSE NewRequest(t)]
    /\ user' = IF draft[t] = None THEN user
               ELSE [user EXCEPT ![job[t].user] = Updated(@, seen[t], draft[t])]
    /\ history' = IF draft[t] = None \/ t \in Revokes THEN history
                  ELSE history \cup {NewHistory(t)}
    /\ granted' = IF draft[t] = None \/ t \in Revokes THEN granted
                  ELSE [granted EXCEPT ![job[t].user] = @ + job[t].days]
    /\ owner' = Released({t})
    /\ Goto(t, "done")
    /\ UNCHANGED <<lastId, clock, job, seen, draft, buttons>>

(* busy_timeout: "database is locked".                                     *)
Wanted(t) ==
    CASE at[t] = "mark"   -> LocksOf(<<job[t].request, "request">>)
      [] at[t] = "write"  -> WriteLocks(t)
      [] at[t] = "insert" -> LocksOfInsert
      [] OTHER            -> {}

LockTimeout(t) ==
    /\ Backend = "sqlite"
    /\ ~ MayLock(t, Wanted(t))
    /\ Rollback(t, "failed")
    /\ UNCHANGED <<user, request, history, lastId, clock, job, seen, draft, buttons>>

(* The process dies and starts again: open transactions are rolled back,   *)
(* and updates not handled yet are dropped (drop_pending_updates).         *)
Ended == {"done", "failed", "crashed", "killed"}

Restart ==
    /\ \E t \in Tasks : at[t] \notin Ended \cup {"idle"}
    /\ at' = [t \in Tasks |-> IF at[t] \in Ended \cup {"idle"} THEN at[t] ELSE "killed"]
    /\ owner' = [w \in Rows |-> None]
    /\ UNCHANGED <<user, request, history, granted, lastId, clock, job, seen, draft, buttons>>

Tick ==
    /\ clock < MaxTime
    /\ clock' = clock + 1
    /\ UNCHANGED <<user, request, history, granted, owner, lastId, at, job, seen, draft, buttons>>

(* A review may stay undone, since there may be nothing to review.         *)
AllOver == (\A t \in Tasks : at[t] \in Ended \cup {"idle"}) /\ UNCHANGED vars

TaskStep(t) ==
    \/ /\ \/ Fetch(t) \/ MarkReviewed(t) \/ FindUser(t) \/ WriteUser(t) \/ CreateRequest(t)
          \/ NotifyAdmins(t) \/ Reply(t) \/ Excuse(t) \/ LockTimeout(t)
       /\ UNCHANGED granted
    \/ Commit(t)

Next ==
    \/ \E t \in Stars, u \in Users, d \in Days : OnSuccessfulPayment(t, u, d)
    \/ \E t \in Receipts, u \in Users, d \in Days : ReceiveReceipt(t, u, d)
    \/ \E t \in Reviews, b \in Buttons, verdict \in Verdicts : ReviewPayment(t, b, verdict)
    \/ \E t \in Grants, u \in Users, d \in Days : ReceivePremiumDays(t, u, d)
    \/ \E t \in Revokes, u \in Users : RevokePremium(t, u)
    \/ \E t \in Tasks : TaskStep(t)
    \/ Restart
    \/ Tick
    \/ AllOver

Spec == Init /\ [][Next]_vars

(* A task that has begun is driven by the event loop; a lock is waited for *)
(* until its holder's transaction ends.                                    *)
FairSpec == Spec /\ \A t \in Tasks : WF_vars(TaskStep(t))

-----------------------------------------------------------------------------
(* Review and grant are one transaction: an approved request of at least   *)
(* one day has been granted, and nothing is granted on a request that is   *)
(* not stored or not reviewed, whatever fails half way and however reviews *)
(* race (premium_center.py:132-145, premium.py:324-340).                   *)
ApprovalPaidOut ==
    /\ \A r \in Ids :
          (request[r] # None /\ request[r].status = "approved" /\ request[r].days > 0)
          => \E h \in history : h.request = r
    /\ \A h \in history :
          h.request # None => /\ request[h.request] # None
                              /\ request[h.request].status # "pending"

(* The audit trail explains every expiry date: grants that overtake each   *)
(* other may lose days but never mix into a date nobody granted            *)
(* (premium_service.py:34-46).                                             *)
ExpiryExplained ==
    \A u \in Users :
        (user[u] # None /\ user[u].expires # None)
        => \E h \in history : h.user = u /\ h.expires = user[u].expires

(* No interleaving of grants gives a user more Premium time than the days  *)
(* that were granted in all (premium_service.py:35-42).                    *)
NeverBeyondGrants ==
    \A u \in Users :
        (user[u] # None /\ user[u].expires # None)
        => user[u].expires <= clock + granted[u]

(* On PostgreSQL the payment an admin's click decides on is the one the    *)
(* clicked message shows, although that message may have been sent for a   *)
(* request that was rolled back: a sequence takes no id back               *)
(* (premium.py:257, 267, base.py:32-44).                                   *)
ReviewsWhatItShows ==
    \A t \in Reviews :
        at[t] = "mark" => request[job[t].request].paidBy = job[t].paidBy

(* A task that has begun ends: transactions never wait for each other in a *)
(* circle, since requests are locked before users (premium_center.py:133,  *)
(* 140).                                                                   *)
TasksFinish == \A t \in Tasks : (at[t] # "idle") ~> (at[t] \in Ended)

(* --- Stated by the repository's text, not by what the code does. --- *)

(* "errors if already reviewed" (payment_service.py:70): once reviewed, a  *)
(* request's status and what was granted on it stay.                       *)
ReviewedOnce ==
    [][ \A r \in Ids :
          (request[r] # None /\ request[r].status # "pending")
          => /\ request'[r] = request[r]
             /\ \A h \in history' \ history : h.request # r ]_vars

(* "Grant or extend premium" (premium_service.py:28): extending never      *)
(* raises anything but the errors the handlers expect.                     *)
GrantNeverCrashes == \A t \in Tasks : at[t] # "crashed"
=============================================================================
