--------------------------- MODULE PaymentsProofs ---------------------------
(***************************************************************************)
(* What PremiumPayments guarantees for every number of tasks and users,    *)
(* any durations and both database backends.                               *)
(***************************************************************************)
EXTENDS PremiumPayments, TLAPS

Inserters == Stars \cup Receipts

(* From its INSERT until its end, an inserter holds an id not committed.   *)
InFlight(t) == t \in Inserters /\ at[t] \in {"alert", "reply", "commit"}

(* What a task knows at each of its steps.                                 *)
KnowsUser(t) ==
    /\ job[t] # None
    /\ job[t].user \in Users
    /\ t \notin Revokes => job[t].days \in Days
    /\ user[job[t].user] # None

JobControl(t) ==
    /\ at[t] # "idle" => job[t] # None
    /\ at[t] \in {"find", "insert"} => /\ job[t].user \in Users
                                       /\ t \notin Revokes => job[t].days \in Days
    /\ at[t] = "mark" => KnowsUser(t)
    /\ InFlight(t) => KnowsUser(t)

DraftControl(t) ==
    /\ draft[t] # None => /\ KnowsUser(t)
                          /\ seen[t] # None
                          /\ t \in Revokes <=> draft[t].expires = None
    /\ at[t] = "idle" => draft[t] = None
    /\ at[t] = "write" => draft[t] # None
    /\ (t \in Stars /\ at[t] \in {"insert", "reply", "commit"}) => draft[t] # None

KindControl(t) ==
    /\ t \in Stars => at[t] \notin {"fetch", "mark", "alert"}
    /\ t \in Receipts => at[t] \notin {"fetch", "mark", "find", "write"} /\ draft[t] = None
    /\ t \in Reviews => at[t] \notin {"insert", "alert"}
    /\ t \in Grants \cup Revokes => /\ at[t] \notin {"fetch", "mark", "insert", "alert"}
                                    /\ job[t] # None => job[t].request = None
    /\ InFlight(t) => job[t].request \in Ids

ReviewControl(t) ==
    t \in Reviews =>
      /\ job[t] # None => job[t].request \in Ids /\ job[t].verdict \in Verdicts
      /\ at[t] \in {"mark", "find", "write", "reply", "commit"} =>
           /\ request[job[t].request] # None
           /\ request[job[t].request].user = job[t].user
           /\ request[job[t].request].days = job[t].days
      /\ (at[t] \in {"reply", "commit"} /\ job[t].verdict = "approved" /\ job[t].days > 0)
           => draft[t] # None

Control == \A t \in Tasks :
               JobControl(t) /\ DraftControl(t) /\ KindControl(t) /\ ReviewControl(t)

(* An id handed out is neither stored nor handed out a second time: a      *)
(* sequence only grows, and SQLite's inserter is the only writer.          *)
IdsFresh ==
    /\ \A t \in Inserters : InFlight(t) => request[job[t].request] = None
    /\ \A t, u \in Inserters :
          (InFlight(t) /\ InFlight(u) /\ t # u) => job[t].request # job[u].request
    /\ Backend = "sqlite" =>
          \A t \in Inserters : InFlight(t) => \A w \in Rows : owner[w] = t
    /\ Backend # "sqlite" =>
          /\ \A r \in Ids : request[r] # None => r <= lastId
          /\ \A t \in Inserters : InFlight(t) => job[t].request <= lastId

PayersStored == \A r \in Ids : request[r] # None => user[request[r].user] # None

IInv == RowsOK /\ Control /\ IdsFresh /\ PayersStored /\ ApprovalPaidOut /\ ExpiryExplained

-----------------------------------------------------------------------------
(* Values the steps compute.                                               *)
LEMMA KindsDisjoint ==
    /\ \A t \in Stars : t \notin Receipts \cup Reviews \cup Grants \cup Revokes
    /\ \A t \in Receipts : t \notin Reviews \cup Grants \cup Revokes
    /\ \A t \in Reviews : t \notin Grants \cup Revokes
    /\ \A t \in Grants : t \notin Revokes
BY PaymentsAssumption

LEMMA RowValues ==
    ASSUME NEW p \in BOOLEAN, NEW e \in Nat \cup {None}
    PROVE  /\ [premium |-> p, expires |-> e] \in UserRows
           /\ [premium |-> p, expires |-> e] # None
BY NoneAssumption DEF UserRows

LEMMA GrantedValue ==
    ASSUME NEW r \in UserRows, NEW d \in Nat, clock \in Nat
    PROVE  Granted(r, d) \in UserRows /\ Granted(r, d) # None /\ Granted(r, d).expires # None
<1>1. Base(r) \in Nat
  BY DEF Base, UserRows
<1>2. Base(r) + d \in Nat /\ Base(r) + d # None
  BY <1>1, NoneAssumption
<1> QED
  BY <1>2, RowValues DEF Granted

LEMMA UpdatedValue ==
    ASSUME NEW r \in UserRows, NEW old \in UserRows, NEW new \in UserRows
    PROVE  /\ Updated(r, old, new) \in UserRows
           /\ Updated(r, old, new) # None
           /\ Updated(r, old, new).expires \in {r.expires, new.expires}
<1> DEFINE p == IF new.premium = old.premium THEN r.premium ELSE new.premium
           e == IF new.expires = old.expires THEN r.expires ELSE new.expires
<1>1. r.premium \in BOOLEAN /\ new.premium \in BOOLEAN
  BY DEF UserRows
<1>2. p \in BOOLEAN
  BY <1>1, Zenon
<1>3. e \in Nat \cup {None} /\ e \in {r.expires, new.expires}
  BY DEF UserRows
<1>4. Updated(r, old, new) = [premium |-> p, expires |-> e]
  BY DEF Updated
<1> HIDE DEF p, e
<1> QED
  BY <1>2, <1>3, <1>4, RowValues

LEMMA InitEstablishes == Init => IInv
<1>1. SUFFICES ASSUME Init PROVE IInv
  OBVIOUS
<1>2. user \in [Users -> UserRows \cup {None}]
  BY <1>1, RowValues DEF Init
<1>3. RowsOK
  BY <1>1, <1>2 DEF Init, RowsOK, Steps
<1>4. Control
  BY <1>1 DEF Init, Control, JobControl, DraftControl, KindControl, ReviewControl, InFlight,
             Inserters
<1>5. IdsFresh
  BY <1>1 DEF Init, IdsFresh, InFlight, Inserters, Tasks
<1>6. PayersStored /\ ApprovalPaidOut
  BY <1>1 DEF Init, PayersStored, ApprovalPaidOut
<1>7. ExpiryExplained
  <2>1. SUFFICES ASSUME NEW u \in Users, user[u] # None PROVE user[u].expires = None
    BY DEF ExpiryExplained
  <2> QED
    BY <1>1, <2>1 DEF Init
<1> QED
  BY <1>3, <1>4, <1>5, <1>6, <1>7 DEF IInv

-----------------------------------------------------------------------------
(* A step of one task that commits nothing concerns that task alone.       *)
Alone(t) ==
    /\ UNCHANGED <<user, request, history>>
    /\ \A u \in Tasks \ {t} : /\ at'[u] = at[u] /\ job'[u] = job[u]
                               /\ seen'[u] = seen[u] /\ draft'[u] = draft[u]

LEMMA AloneStep ==
    ASSUME IInv, NEW t \in Tasks, Alone(t), RowsOK', IdsFresh',
           JobControl(t)', DraftControl(t)', KindControl(t)', ReviewControl(t)'
    PROVE  IInv'
<1>1. ASSUME NEW u \in Tasks, u # t
      PROVE  JobControl(u)' /\ DraftControl(u)' /\ KindControl(u)' /\ ReviewControl(u)'
  <2>1. JobControl(u) /\ DraftControl(u) /\ KindControl(u) /\ ReviewControl(u)
    BY DEF IInv, Control
  <2>2. /\ at'[u] = at[u] /\ job'[u] = job[u] /\ seen'[u] = seen[u] /\ draft'[u] = draft[u]
        /\ UNCHANGED <<user, request>>
    BY <1>1 DEF Alone
  <2> QED
    BY <2>1, <2>2 DEF JobControl, DraftControl, KindControl, ReviewControl, KnowsUser, InFlight
<1>2. Control'
  BY <1>1 DEF Control
<1>3. PayersStored' /\ ApprovalPaidOut' /\ ExpiryExplained'
  BY DEF IInv, Alone, PayersStored, ApprovalPaidOut, ExpiryExplained
<1> QED
  BY <1>2, <1>3 DEF IInv

(* It hands out no id, and takes no lock another task holds.               *)
LEMMA FreshKept ==
    ASSUME IInv, NEW t \in Tasks, Alone(t), lastId' \in {lastId, lastId + 1},
           \A w \in Rows : owner'[w] = owner[w] \/ owner[w] \in {None, t},
           InFlight(t)' => /\ InFlight(t) /\ job'[t].request = job[t].request
                           /\ UNCHANGED owner
    PROVE  IdsFresh'
<1>1. \A u \in Inserters : InFlight(u)' =>
          /\ InFlight(u) /\ job'[u].request = job[u].request
          /\ \A w \in Rows : owner[w] = u => owner'[w] = u
  <2>1. SUFFICES ASSUME NEW u \in Inserters, InFlight(u)'
                 PROVE  /\ InFlight(u) /\ job'[u].request = job[u].request
                        /\ \A w \in Rows : owner[w] = u => owner'[w] = u
    OBVIOUS
  <2>2. u \in Tasks /\ u # None
    BY NoneAssumption DEF Inserters, Tasks
  <2>3. CASE u = t
    BY <2>1, <2>3
  <2>4. CASE u # t
    BY <2>1, <2>2, <2>4 DEF Alone, InFlight
  <2> QED
    BY <2>3, <2>4
<1>2. request' = request
  BY DEF Alone
<1>3. ASSUME NEW m \in Ids, m <= lastId PROVE m <= lastId'
  BY <1>3, PaymentsAssumption DEF IInv, RowsOK, Ids
<1>4. \A u \in Inserters : InFlight(u) => job[u].request \in Ids
  BY DEF IInv, Control, KindControl, Inserters, Tasks
<1> QED
  BY <1>1, <1>2, <1>3, <1>4 DEF IInv, IdsFresh

-----------------------------------------------------------------------------
(* One lemma per action.                                                   *)
LEMMA BeginStep ==
    ASSUME IInv, NEW t \in Tasks, NEW step \in {"find", "excuse", "insert", "fetch"},
           NEW about \in Jobs, Begin(t, step, about),
           step \in {"find", "insert"} =>
               about.user \in Users /\ (t \notin Revokes => about.days \in Days),
           t \in Stars => step \in {"find", "excuse"},
           t \in Receipts => step = "insert",
           t \in Reviews => (step = "fetch" /\ about.request \in Ids /\ about.verdict \in Verdicts),
           t \in Grants \cup Revokes => step \in {"find", "excuse"} /\ about.request = None
    PROVE  IInv'
<1> USE DEF IInv
<1>1. /\ at[t] = "idle" /\ at' = [at EXCEPT ![t] = step] /\ job' = [job EXCEPT ![t] = about]
      /\ UNCHANGED <<user, request, history, owner, lastId, clock, seen, draft, buttons>>
  BY DEF Begin, Goto
<1>2. RowsOK' /\ about # None
  BY <1>1, NoneAssumption DEF RowsOK, Steps
<1>3. at'[t] = step /\ job'[t] = about /\ Alone(t)
  BY <1>1 DEF RowsOK, Alone
<1>4. ~ InFlight(t)'
  BY <1>3 DEF InFlight
<1>5. IdsFresh'
  BY <1>1, <1>3, <1>4, FreshKept
<1>6. DraftControl(t)
  BY DEF Control
<1>7. draft'[t] = None
  BY <1>1, <1>6 DEF DraftControl
<1>8. user' = user
  BY <1>1
<1>9. JobControl(t)' /\ DraftControl(t)'
  <2>1. JobControl(t)'
    BY <1>2, <1>3, <1>4 DEF JobControl
  <2>2. DraftControl(t)'
    BY <1>3, <1>7 DEF DraftControl
  <2> QED
    BY <2>1, <2>2
<1>10. KindControl(t)' /\ ReviewControl(t)'
  BY <1>2, <1>3, <1>4, <1>7, KindsDisjoint DEF KindControl, ReviewControl
<1> QED
  BY <1>2, <1>3, <1>5, <1>9, <1>10, AloneStep

LEMMA FetchStep ==
    ASSUME IInv, NEW t \in Tasks, Fetch(t)
    PROVE  IInv'
<1> USE DEF IInv
<1>1. /\ at[t] = "fetch" /\ t \in Reviews
      /\ UNCHANGED <<user, request, history, owner, lastId, clock, seen, draft, buttons>>
  BY DEF Fetch, Control, KindControl, Tasks
<1>2. job[t] \in Jobs /\ job[t].request \in Ids /\ job[t].verdict \in Verdicts
  BY <1>1 DEF Control, JobControl, ReviewControl, RowsOK
<1>3. draft[t] = None \/ KnowsUser(t)
  BY DEF Control, DraftControl
<1> DEFINE r == request[job[t].request]
<1>4. CASE at' = [at EXCEPT ![t] = "excuse"] /\ job' = job
  <2>1. RowsOK' /\ Alone(t) /\ at'[t] = "excuse"
    BY <1>1, <1>4 DEF RowsOK, Steps, Alone
  <2>2. ~ InFlight(t)'
    BY <2>1 DEF InFlight
  <2>3. IdsFresh'
    BY <1>1, <2>1, <2>2, FreshKept
  <2>4. JobControl(t)' /\ DraftControl(t)' /\ KindControl(t)' /\ ReviewControl(t)'
    BY <1>1, <1>4, <2>1 DEF Control, JobControl, DraftControl, KindControl, ReviewControl, KnowsUser, InFlight, Inserters
  <2> QED
    BY <2>1, <2>3, <2>4, AloneStep
<1>5. CASE /\ IsPending(r) /\ at' = [at EXCEPT ![t] = "mark"]
           /\ job' = [job EXCEPT ![t].user = r.user, ![t].days = r.days]
  <2> DEFINE j == [job[t] EXCEPT !.user = r.user, !.days = r.days]
  <2>1. r \in Requests
    BY <1>2, <1>5 DEF IsPending, RowsOK
  <2>2. j \in Jobs /\ j # None
    BY <1>2, <2>1, NoneAssumption DEF Jobs, Requests
  <2>3. /\ j.user = r.user /\ j.days = r.days
        /\ j.request = job[t].request /\ j.verdict = job[t].verdict
    BY <1>2 DEF Jobs
  <2>4. job' = [job EXCEPT ![t] = j]
    BY <1>2, <1>5 DEF RowsOK, Jobs
  <2>5. r.user \in Users /\ r.days \in Days /\ user[r.user] # None /\ r # None
    BY <1>2, <1>5, <2>1 DEF Requests, PayersStored, IsPending
  <2> HIDE DEF j
  <2>6. RowsOK' /\ Alone(t) /\ at'[t] = "mark" /\ job'[t] = j
    BY <1>1, <1>5, <2>2, <2>4 DEF RowsOK, Steps, Alone
  <2>7. ~ InFlight(t)'
    BY <2>6 DEF InFlight
  <2>8. IdsFresh'
    BY <1>1, <2>6, <2>7, FreshKept
  <2>9. KnowsUser(t)'
    BY <1>1, <2>2, <2>3, <2>5, <2>6 DEF KnowsUser
  <2>10. JobControl(t)'
    BY <2>2, <2>6, <2>7, <2>9 DEF JobControl
  <2>11. DraftControl(t)'
    BY <1>1, <2>6, <2>9, KindsDisjoint DEF Control, DraftControl
  <2>12. KindControl(t)' /\ ReviewControl(t)'
    BY <1>1, <1>2, <2>3, <2>5, <2>6, <2>7, KindsDisjoint DEF KindControl, ReviewControl
  <2> QED
    BY <2>6, <2>8, <2>10, <2>11, <2>12, AloneStep
<1> QED
  BY <1>4, <1>5 DEF Fetch, Goto

LEMMA MarkReviewedStep ==
    ASSUME IInv, NEW t \in Tasks, MarkReviewed(t)
    PROVE  IInv'
<1> USE DEF IInv
<1>1. /\ at[t] = "mark" /\ t \in Reviews
      /\ UNCHANGED <<user, request, history, lastId, clock, job, seen, draft, buttons>>
  BY DEF MarkReviewed, Control, KindControl, Tasks
<1>2. PICK step \in {"find", "reply"} :
         /\ at' = [at EXCEPT ![t] = step]
         /\ step = "reply" => ~ (job[t].verdict = "approved" /\ job[t].days > 0)
  BY DEF MarkReviewed, Goto
<1>3. PICK rows \in SUBSET Rows : MayLock(t, rows) /\ Lock(t, rows)
  <2>1. LocksOf(<<job[t].request, "request">>) \subseteq Rows
    BY <1>1 DEF LocksOf, Rows, Control, JobControl, ReviewControl
  <2> QED
    BY <2>1 DEF MarkReviewed
<1>4. RowsOK' /\ Alone(t) /\ at'[t] = step
  BY <1>1, <1>2, <1>3 DEF RowsOK, Steps, Alone, Lock
<1>5. ~ InFlight(t)'
  BY <1>1, <1>4, KindsDisjoint DEF InFlight, Inserters
<1>6. \A w \in Rows : owner'[w] = owner[w] \/ owner[w] \in {None, t}
  BY <1>3 DEF MayLock, Lock
<1>7. IdsFresh'
  BY <1>1, <1>4, <1>5, <1>6, FreshKept
<1>8. JobControl(t)' /\ DraftControl(t)' /\ KindControl(t)' /\ ReviewControl(t)'
  BY <1>1, <1>2, <1>4, KindsDisjoint DEF Control, JobControl, DraftControl, KindControl, ReviewControl, KnowsUser, InFlight, Inserters
<1> QED
  BY <1>4, <1>7, <1>8, AloneStep

(* A handler that ends, or that only has its excuse left to send.          *)
LEMMA EndStep ==
    ASSUME IInv, NEW t \in Tasks, NEW step \in {"excuse", "done", "failed", "crashed"},
           at[t] # "idle", Goto(t, step), owner' \in {owner, Released({t})},
           lastId' \in {lastId, lastId + 1}, lastId' \in Ids \cup {0},
           UNCHANGED <<user, request, history, clock, job, seen, draft, buttons>>
    PROVE  IInv'
<1> USE DEF IInv
<1>1. at' = [at EXCEPT ![t] = step]
  BY DEF Goto
<1>2. owner' \in [Rows -> Tasks \cup {None}]
  BY DEF RowsOK, Released
<1>3. RowsOK' /\ Alone(t) /\ at'[t] = step
  BY <1>1, <1>2 DEF RowsOK, Steps, Alone
<1>4. ~ InFlight(t)'
  BY <1>3 DEF InFlight
<1>5. \A w \in Rows : owner'[w] = owner[w] \/ owner[w] \in {None, t}
  BY DEF Released
<1>6. IdsFresh'
  BY <1>3, <1>4, <1>5, FreshKept
<1>7. JobControl(t) /\ DraftControl(t) /\ KindControl(t) /\ ReviewControl(t)
  BY DEF Control
<1>8. JobControl(t)' /\ DraftControl(t)'
  BY <1>3, <1>4, <1>7 DEF JobControl, DraftControl, KnowsUser
<1>9. KindControl(t)' /\ ReviewControl(t)'
  BY <1>3, <1>4, <1>7 DEF KindControl, ReviewControl
<1> QED
  BY <1>3, <1>6, <1>8, <1>9, AloneStep

LEMMA FindUserStep ==
    ASSUME IInv, NEW t \in Tasks, FindUser(t)
    PROVE  IInv'
<1> USE DEF IInv
<1>1. /\ at[t] = "find" /\ t \notin Receipts
      /\ UNCHANGED <<user, request, history, lastId, clock, job, buttons>>
  BY DEF FindUser, Control, KindControl
<1>2. job[t] # None /\ job[t].user \in Users /\ (t \notin Revokes => job[t].days \in Days)
  BY <1>1 DEF Control, JobControl
<1> DEFINE r == user[job[t].user]
<1>3. CASE r = None
  <2>1. t \notin Reviews
    BY <1>1, <1>2, <1>3 DEF Control, ReviewControl, PayersStored
  <2>2. Goto(t, "excuse") /\ UNCHANGED <<owner, seen, draft>>
    BY <1>3, <2>1 DEF FindUser
  <2> QED
    BY <1>1, <2>2, EndStep DEF RowsOK
<1>4. CASE Rollback(t, "crashed") /\ UNCHANGED <<seen, draft>>
  BY <1>1, <1>4, EndStep DEF Rollback, RowsOK
<1>5. CASE /\ r # None /\ Goto(t, "write") /\ UNCHANGED owner
           /\ seen' = [seen EXCEPT ![t] = r]
           /\ draft' = [draft EXCEPT ![t] = IF t \in Revokes THEN Revoked
                                            ELSE Granted(r, job[t].days)]
  <2> DEFINE d == IF t \in Revokes THEN Revoked ELSE Granted(r, job[t].days)
  <2>1. r \in UserRows
    BY <1>2, <1>5 DEF RowsOK
  <2>2. Revoked \in UserRows /\ Revoked # None /\ Revoked.expires = None
    BY RowValues DEF Revoked
  <2>3. t \notin Revokes => /\ Granted(r, job[t].days) \in UserRows
                            /\ Granted(r, job[t].days) # None
                            /\ Granted(r, job[t].days).expires # None
    BY <1>2, <2>1, GrantedValue, PaymentsAssumption DEF RowsOK
  <2>4. d \in UserRows /\ d # None /\ (t \in Revokes <=> d.expires = None)
    BY <2>2, <2>3, Zenon
  <2>5. draft' = [draft EXCEPT ![t] = d]
    BY <1>5
  <2> HIDE DEF d
  <2>6. /\ RowsOK' /\ Alone(t) /\ at'[t] = "write" /\ seen'[t] = r /\ draft'[t] = d
        /\ job'[t] = job[t]
    BY <1>1, <1>5, <2>1, <2>4, <2>5 DEF RowsOK, Steps, Alone, Goto
  <2>7. ~ InFlight(t)'
    BY <2>6 DEF InFlight
  <2>8. IdsFresh'
    BY <1>1, <1>5, <2>6, <2>7, FreshKept
  <2>9. KnowsUser(t)'
    BY <1>1, <1>2, <1>5 DEF KnowsUser
  <2>10. JobControl(t)' /\ DraftControl(t)'
    BY <1>2, <1>5, <2>4, <2>6, <2>7, <2>9 DEF JobControl, DraftControl
  <2>11. KindControl(t) /\ ReviewControl(t)
    BY DEF Control
  <2>12. KindControl(t)' /\ ReviewControl(t)'
    BY <1>1, <2>4, <2>6, <2>7, <2>11 DEF KindControl, ReviewControl
  <2> QED
    BY <2>6, <2>8, <2>10, <2>12, AloneStep
<1> QED
  BY <1>3, <1>4, <1>5 DEF FindUser

LEMMA WriteUserStep ==
    ASSUME IInv, NEW t \in Tasks, WriteUser(t)
    PROVE  IInv'
<1> USE DEF IInv
<1>1. /\ at[t] = "write" /\ t \notin Receipts
      /\ UNCHANGED <<user, request, history, lastId, clock, job, seen, draft, buttons>>
  BY DEF WriteUser, Control, KindControl
<1>2. JobControl(t) /\ DraftControl(t) /\ KindControl(t) /\ ReviewControl(t)
  BY DEF Control
<1>3. draft[t] # None /\ KnowsUser(t)
  BY <1>1, <1>2 DEF DraftControl
<1> DEFINE step == IF t \in Stars THEN "insert" ELSE "reply"
<1>4. at' = [at EXCEPT ![t] = step]
  BY DEF WriteUser, Goto
<1>5. PICK rows \in SUBSET Rows : MayLock(t, rows) /\ Lock(t, rows)
  <2>1. WriteLocks(t) \subseteq Rows
    BY <1>3 DEF WriteLocks, LocksOf, LocksOfInsert, Rows, KnowsUser
  <2> QED
    BY <2>1 DEF WriteUser
<1>6. RowsOK' /\ Alone(t) /\ at'[t] = step
  BY <1>1, <1>4, <1>5 DEF RowsOK, Steps, Alone, Lock
<1>7. ~ InFlight(t)'
  BY <1>1, <1>6 DEF InFlight, Inserters
<1>8. \A w \in Rows : owner'[w] = owner[w] \/ owner[w] \in {None, t}
  BY <1>5 DEF MayLock, Lock
<1>9. IdsFresh'
  BY <1>1, <1>6, <1>7, <1>8, FreshKept
<1>10. JobControl(t)' /\ DraftControl(t)'
  BY <1>1, <1>2, <1>3, <1>6, <1>7 DEF JobControl, DraftControl, KnowsUser
<1>11. KindControl(t)' /\ ReviewControl(t)'
  BY <1>1, <1>2, <1>3, <1>6, <1>7, KindsDisjoint DEF KindControl, ReviewControl
<1> QED
  BY <1>6, <1>9, <1>10, <1>11, AloneStep

LEMMA CreateRequestStep ==
    ASSUME IInv, NEW t \in Tasks, CreateRequest(t)
    PROVE  IInv'
<1> USE DEF IInv
<1>1. /\ at[t] = "insert" /\ t \in Inserters
      /\ UNCHANGED <<user, request, history, clock, seen, draft, buttons>>
  BY DEF CreateRequest, Control, KindControl, Inserters, Tasks
<1>2. JobControl(t) /\ DraftControl(t) /\ KindControl(t)
  BY DEF Control
<1>3. /\ job[t] \in Jobs /\ job[t] # None /\ job[t].user \in Users
      /\ job[t].days \in Days /\ t \notin Reviews \cup Grants \cup Revokes
  BY <1>1, <1>2, KindsDisjoint DEF JobControl, RowsOK, Inserters
<1>4. PICK r \in Ids :
         /\ IsNewId(r)
         /\ lastId' = IF Backend = "sqlite" THEN lastId ELSE r
         /\ \/ /\ user[job[t].user] = None
               /\ Rollback(t, "failed")
               /\ UNCHANGED job
            \/ /\ user[job[t].user] # None
               /\ Lock(t, LocksOfInsert)
               /\ job' = [job EXCEPT ![t].request = r]
               /\ Goto(t, IF t \in Stars THEN "reply" ELSE "alert")
  BY DEF CreateRequest
<1>5. lastId' \in {lastId, lastId + 1} /\ lastId' \in Ids \cup {0}
  BY <1>4 DEF IsNewId, RowsOK
<1>6. CASE Rollback(t, "failed") /\ UNCHANGED job
  BY <1>1, <1>5, <1>6, EndStep DEF Rollback
<1>7. CASE /\ user[job[t].user] # None
           /\ Lock(t, LocksOfInsert)
           /\ job' = [job EXCEPT ![t].request = r]
           /\ Goto(t, IF t \in Stars THEN "reply" ELSE "alert")
  <2> DEFINE j == [job[t] EXCEPT !.request = r]
             step == IF t \in Stars THEN "reply" ELSE "alert"
  <2>1. j \in Jobs /\ j # None
    BY <1>3, NoneAssumption DEF Jobs
  <2>2. j.request = r /\ j.user = job[t].user /\ j.days = job[t].days
    BY <1>3 DEF Jobs
  <2>3. job' = [job EXCEPT ![t] = j] /\ at' = [at EXCEPT ![t] = step]
    BY <1>3, <1>7 DEF RowsOK, Goto
  <2> HIDE DEF j
  <2>4. LocksOfInsert \subseteq Rows
    BY DEF LocksOfInsert
  <2>5. /\ RowsOK' /\ Alone(t) /\ job'[t] = j /\ at'[t] = step /\ at'[t] \in {"reply", "alert"}
    BY <1>1, <1>5, <1>7, <2>1, <2>3, <2>4 DEF RowsOK, Steps, Alone, Lock
  <2>6. KnowsUser(t)' /\ InFlight(t)'
    BY <1>1, <1>3, <1>7, <2>1, <2>2, <2>5 DEF KnowsUser, InFlight
  <2>7. JobControl(t)' /\ DraftControl(t)'
    BY <1>1, <1>2, <1>3, <2>1, <2>2, <2>5, <2>6 DEF JobControl, DraftControl
  <2>8. KindControl(t)' /\ ReviewControl(t)'
    BY <1>1, <1>2, <1>3, <2>2, <2>5, KindsDisjoint DEF KindControl, ReviewControl, Inserters
  <2>9. ASSUME NEW u \in Inserters, u # t, InFlight(u)'
        PROVE  InFlight(u) /\ job'[u] = job[u]
    BY <2>5, <2>9 DEF Alone, InFlight, Inserters, Tasks
  <2>10. IdsFresh'
    <3>1. CASE Backend = "sqlite"
      <4>1. request[r] = None
        BY <1>4, <3>1, PaymentsAssumption DEF IsNewId, Present, Ids
      <4>2. LocksOfInsert = Rows /\ <<1, "request">> \in Rows
        BY <3>1, PaymentsAssumption DEF LocksOfInsert, Rows, Ids
      <4>3. \A w \in Rows : owner'[w] = t /\ owner[w] \in {None, t}
        BY <1>7, <4>2 DEF CreateRequest, MayLock, Lock
      <4>4. \A u \in Inserters : InFlight(u)' => u = t
        <5>1. SUFFICES ASSUME NEW u \in Inserters, InFlight(u), u # t PROVE FALSE
          BY <2>9
        <5>2. owner[<<1, "request">>] = u /\ u # None
          BY <3>1, <4>2, <5>1, NoneAssumption DEF IdsFresh, Inserters, Tasks
        <5> QED
          BY <4>2, <4>3, <5>1, <5>2
      <4> QED
        BY <1>1, <2>2, <2>5, <3>1, <4>1, <4>3, <4>4 DEF IdsFresh
    <3>2. CASE Backend # "sqlite"
      <4>1. r = lastId + 1 /\ lastId' = r /\ lastId \in Nat
        BY <1>4, <3>2, PaymentsAssumption DEF IsNewId, RowsOK, Ids
      <4>2. \A q \in Ids : request[q] # None => q # r /\ q <= lastId'
        BY <3>2, <4>1, PaymentsAssumption DEF IdsFresh, Ids
      <4>3. \A u \in Inserters : (InFlight(u)' /\ u # t) =>
               /\ job'[u].request # r /\ job'[u].request <= lastId'
               /\ job'[u].request = job[u].request /\ InFlight(u)
        <5>1. SUFFICES ASSUME NEW u \in Inserters, InFlight(u)', u # t
                       PROVE  /\ job[u].request # r /\ job[u].request <= r
          BY <2>9, <4>1
        <5>2. InFlight(u) /\ job[u].request <= lastId /\ job[u].request \in Ids
          BY <2>9, <3>2, <5>1 DEF IdsFresh, Control, KindControl, Inserters, Tasks
        <5> QED
          BY <4>1, <5>2, PaymentsAssumption DEF Ids
      <4> QED
        BY <1>1, <2>2, <2>5, <3>2, <4>1, <4>2, <4>3 DEF IdsFresh
    <3> QED
      BY <3>1, <3>2
  <2> QED
    BY <2>5, <2>7, <2>8, <2>10, AloneStep
<1> QED
  BY <1>4, <1>6, <1>7

(* The steps that only talk to Telegram.                                   *)
LEMMA MessageStep ==
    ASSUME IInv, NEW t \in Tasks,
           NotifyAdmins(t) \/ (at[t] = "reply" /\ Goto(t, "commit") /\ UNCHANGED <<owner, buttons>>),
           UNCHANGED <<user, request, history, owner, lastId, clock, job, seen, draft>>
    PROVE  IInv'
<1> USE DEF IInv
<1>1. PICK step \in {"reply", "commit"} : /\ at' = [at EXCEPT ![t] = step]
                                          /\ step = "reply" => at[t] = "alert"
                                          /\ step = "commit" => at[t] = "reply"
  BY DEF NotifyAdmins, Goto
<1>2. JobControl(t) /\ DraftControl(t) /\ KindControl(t) /\ ReviewControl(t)
  BY DEF Control
<1>3. buttons' \subseteq Buttons
  <2>1. CASE UNCHANGED buttons
    BY <2>1 DEF RowsOK
  <2>2. CASE at[t] = "alert" /\ buttons' = buttons \cup {[request |-> job[t].request, paidBy |-> t]}
    <3>1. t \in Receipts /\ job[t].request \in Ids
      BY <1>2, <2>2 DEF KindControl, InFlight, Inserters, Tasks
    <3> QED
      BY <2>2, <3>1 DEF RowsOK, Buttons
  <2> QED
    BY <2>1, <2>2 DEF NotifyAdmins
<1>4. RowsOK' /\ Alone(t) /\ at'[t] = step
  BY <1>1, <1>3 DEF RowsOK, Steps, Alone
<1>5. InFlight(t)' => InFlight(t)
  BY <1>1, <1>4 DEF InFlight
<1>6. IdsFresh'
  BY <1>4, <1>5, FreshKept
<1>7. JobControl(t)' /\ DraftControl(t)'
  BY <1>1, <1>2, <1>4, <1>5, KindsDisjoint DEF JobControl, DraftControl, KindControl, KnowsUser
<1>8. KindControl(t)' /\ ReviewControl(t)'
  BY <1>1, <1>2, <1>4, <1>5, KindsDisjoint DEF KindControl, ReviewControl
<1> QED
  BY <1>4, <1>6, <1>7, <1>8, AloneStep

-----------------------------------------------------------------------------
(* A commit stores the request of an inserter, or a verdict on a request.  *)
OnRequest(t) == job[t].request \in Ids

LEMMA CommitRequest ==
    ASSUME IInv, NEW t \in Tasks, Commit(t), OnRequest(t)
    PROVE  LET r == job[t].request IN
           /\ request'[r] \in Requests /\ request'[r] # None
           /\ request'[r].user = job[t].user /\ request'[r].days = job[t].days
           /\ user[job[t].user] # None
           /\ request[r] # None => t \in Reviews
           /\ t \in Reviews => request[r] # None /\ request'[r].status = job[t].verdict
           /\ t \in Stars => request'[r].status # "pending"
           /\ \A q \in Ids \ {r} : request'[q] = request[q]
<1> USE DEF IInv
<1> DEFINE r == job[t].request
<1>1. at[t] = "commit" /\ job[t] # None /\ r \in Ids
  BY DEF Commit, OnRequest, Control, JobControl
<1>2. JobControl(t) /\ DraftControl(t) /\ KindControl(t) /\ ReviewControl(t)
  BY DEF Control
<1>3. t \in Stars \cup Receipts \cup Reviews
  BY <1>1, <1>2, NoneAssumption DEF KindControl, Tasks, Ids
<1>4. \A q \in Ids \ {r} : request'[q] = request[q]
  BY DEF Commit
<1>5. CASE t \in Inserters
  <2>1. t \notin Reviews /\ InFlight(t) /\ KnowsUser(t) /\ job[t].days \in Days
    BY <1>1, <1>2, <1>5, KindsDisjoint DEF Inserters, InFlight, JobControl, KnowsUser
  <2>2. request[r] = None /\ request'[r] = NewRequest(t)
    BY <1>1, <1>5, <2>1 DEF IdsFresh, Commit
  <2> DEFINE status == IF t \in Stars THEN "approved" ELSE "pending"
  <2>3. status \in Verdicts \cup {"pending"}
    BY DEF Verdicts
  <2>4. NewRequest(t) = [user |-> job[t].user, days |-> job[t].days, paidBy |-> t, status |-> status]
    BY DEF NewRequest
  <2>5. NewRequest(t) \in Requests /\ (t \in Stars => NewRequest(t).status # "pending")
    BY <1>5, <2>1, <2>3, <2>4 DEF Requests, KnowsUser, Inserters
  <2> QED
    BY <1>4, <2>1, <2>2, <2>4, <2>5, NoneAssumption DEF KnowsUser
<1>6. CASE t \in Reviews
  <2>1. /\ request[r] # None /\ request[r].user = job[t].user /\ request[r].days = job[t].days
        /\ job[t].verdict \in Verdicts /\ t \notin Stars
    BY <1>1, <1>2, <1>6, KindsDisjoint DEF ReviewControl
  <2>2. request[r] \in Requests
    BY <1>1, <2>1 DEF RowsOK
  <2>3. request'[r] = [request[r] EXCEPT !.status = job[t].verdict]
    BY <1>1, <1>6 DEF Commit
  <2>4. request'[r] \in Requests /\ request'[r].user = request[r].user
        /\ request'[r].days = request[r].days /\ request'[r].status = job[t].verdict
    BY <2>1, <2>2, <2>3 DEF Requests
  <2>5. user[job[t].user] # None
    BY <1>1, <2>1 DEF PayersStored
  <2> QED
    BY <1>4, <1>6, <2>1, <2>4, <2>5, NoneAssumption
<1> QED
  BY <1>3, <1>5, <1>6 DEF Inserters

(* It stores the users row as changed, and a grant in the history.         *)
LEMMA CommitGrant ==
    ASSUME IInv, NEW t \in Tasks, Commit(t)
    PROVE  /\ draft[t] = None => user' = user /\ history' = history
           /\ draft[t] # None =>
                /\ job[t].user \in Users /\ user[job[t].user] # None
                /\ user' = [user EXCEPT ![job[t].user] =
                               Updated(user[job[t].user], seen[t], draft[t])]
                /\ Updated(user[job[t].user], seen[t], draft[t]) \in UserRows
                /\ Updated(user[job[t].user], seen[t], draft[t]) # None
                /\ Updated(user[job[t].user], seen[t], draft[t]).expires
                      \in {user[job[t].user].expires, draft[t].expires}
           /\ (draft[t] # None /\ t \in Revokes) =>
                draft[t].expires = None /\ history' = history
           /\ (draft[t] # None /\ t \notin Revokes) =>
                NewHistory(t) \in Histories /\ history' = history \cup {NewHistory(t)}
<1> USE DEF IInv
<1>1. DraftControl(t) /\ KindControl(t) /\ ReviewControl(t)
  BY DEF Control
<1>2. CASE draft[t] = None
  BY <1>2 DEF Commit
<1>3. CASE draft[t] # None
  <2>1. KnowsUser(t) /\ seen[t] # None /\ (t \in Revokes <=> draft[t].expires = None)
    BY <1>1, <1>3 DEF DraftControl
  <2>2. /\ job[t].user \in Users /\ job[t] \in Jobs
        /\ user[job[t].user] \in UserRows /\ user[job[t].user] # None
        /\ seen[t] \in UserRows /\ draft[t] \in UserRows
    BY <1>3, <2>1 DEF KnowsUser, RowsOK
  <2>3. ASSUME t \notin Revokes PROVE NewHistory(t) \in Histories
    <3>1. draft[t].expires \in Nat /\ job[t].days \in Days /\ job[t].request \in Ids \cup {None}
      BY <2>1, <2>2, <2>3 DEF UserRows, KnowsUser, Jobs
    <3> QED
      BY <2>2, <3>1 DEF NewHistory, Histories
  <2>4. user' = [user EXCEPT ![job[t].user] = Updated(user[job[t].user], seen[t], draft[t])]
    BY <1>3 DEF Commit
  <2>5. /\ t \in Revokes => history' = history
        /\ t \notin Revokes => history' = history \cup {NewHistory(t)}
    BY <1>3 DEF Commit
  <2> QED
    BY <1>3, <2>1, <2>2, <2>3, <2>4, <2>5, UpdatedValue
<1> QED
  BY <1>2, <1>3

LEMMA CommitStep ==
    ASSUME IInv, NEW t \in Tasks, Commit(t)
    PROVE  IInv'
<1> USE DEF IInv
<1> DEFINE r == job[t].request
           x == job[t].user
<1>1. /\ at[t] = "commit" /\ at' = [at EXCEPT ![t] = "done"] /\ owner' = Released({t})
      /\ UNCHANGED <<lastId, clock, job, seen, draft, buttons>>
  BY DEF Commit, Goto
<1>2. JobControl(t) /\ DraftControl(t) /\ KindControl(t) /\ ReviewControl(t)
  BY DEF Control
<1>3. job[t] # None
  BY <1>1, <1>2 DEF JobControl
<1>4. ~ OnRequest(t) => request' = request
  <2>1. SUFFICES ASSUME ~ OnRequest(t) PROVE request' = request
    OBVIOUS
  <2>2. request' = [q \in Ids |-> request[q]]
    BY <2>1 DEF Commit, OnRequest
  <2> QED
    BY <2>2 DEF RowsOK
(* What every other row of the three tables looks like afterwards.         *)
<1>5. \A q \in Ids : request[q] # None =>
          /\ request'[q] # None
          /\ request'[q].user = request[q].user /\ request'[q].days = request[q].days
          /\ request'[q] = request[q] \/ (t \in Reviews /\ q = r)
  <2>1. CASE OnRequest(t)
    <3>1. \A q \in Ids \ {r} : request'[q] = request[q]
      BY <2>1, CommitRequest
    <3>2. request[r] # None => /\ request'[r] # None /\ t \in Reviews
                               /\ request'[r].user = job[t].user
                               /\ request'[r].days = job[t].days
      BY <2>1, CommitRequest
    <3>3. t \in Reviews => request[r].user = job[t].user /\ request[r].days = job[t].days
      BY <1>1, <1>2 DEF ReviewControl
    <3> QED
      BY <3>1, <3>2, <3>3
  <2> QED
    BY <1>4, <2>1
<1>6. \A u \in Users : user[u] # None => user'[u] # None
  BY CommitGrant DEF RowsOK
<1>7. history \subseteq history'
  BY CommitGrant
<1>8. RowsOK'
  <2>1. user' \in [Users -> UserRows \cup {None}]
    BY CommitGrant DEF RowsOK
  <2>2. request' \in [Ids -> Requests \cup {None}]
    <3>1. CASE OnRequest(t)
      <4>1. \A q \in Ids : request'[q] \in Requests \cup {None}
        BY <3>1, CommitRequest DEF RowsOK
      <4>2. DOMAIN request' = Ids /\ request' = [q \in Ids |-> request'[q]]
        BY DEF Commit
      <4> QED
        BY <4>1, <4>2
    <3> QED
      BY <1>4, <3>1 DEF RowsOK
  <2>3. history' \subseteq Histories
    BY CommitGrant DEF RowsOK
  <2>4. owner' \in [Rows -> Tasks \cup {None}]
    BY <1>1 DEF RowsOK, Released
  <2> QED
    BY <1>1, <2>1, <2>2, <2>3, <2>4 DEF RowsOK, Steps
<1>9. at'[t] = "done" /\ ~ InFlight(t)' /\ \A u \in Tasks \ {t} : at'[u] = at[u]
  BY <1>1 DEF RowsOK, InFlight
<1>10. Control'
  <2>1. SUFFICES ASSUME NEW u \in Tasks
                 PROVE  (JobControl(u) /\ DraftControl(u) /\ KindControl(u) /\ ReviewControl(u))'
    BY DEF Control
  <2>2. JobControl(u) /\ DraftControl(u) /\ KindControl(u) /\ ReviewControl(u)
    BY DEF Control
  <2>3. at'[u] = at[u] \/ (at'[u] = "done" /\ at[u] # "idle")
    BY <1>1, <1>9
  <2>4. KnowsUser(u) => KnowsUser(u)'
    BY <1>1, <1>6 DEF KnowsUser
  <2>5. InFlight(u)' => InFlight(u)
    BY <2>3 DEF InFlight
  <2>6. JobControl(u)' /\ DraftControl(u)'
    BY <1>1, <2>2, <2>3, <2>4, <2>5 DEF JobControl, DraftControl
  <2>7. KindControl(u)'
    BY <1>1, <2>2, <2>3, <2>5 DEF KindControl
  <2>8. (u \in Reviews /\ job[u] # None) => job[u].request \in Ids
    BY <2>2 DEF ReviewControl
  <2>9. ReviewControl(u)'
    BY <1>1, <1>5, <2>2, <2>3, <2>8 DEF ReviewControl, JobControl
  <2> QED
    BY <2>6, <2>7, <2>9
<1>11. IdsFresh'
  <2>1. ASSUME NEW u \in Inserters, InFlight(u)'
        PROVE  /\ InFlight(u) /\ u # t /\ job'[u].request = job[u].request
               /\ job[u].request \in Ids /\ job[u].request # r
               /\ request'[job[u].request] = None
               /\ \A w \in Rows : owner[w] = u => owner'[w] = u
    <3>1. u \in Tasks /\ u # t /\ InFlight(u) /\ u # None
      BY <1>9, <2>1, NoneAssumption DEF InFlight, Inserters, Tasks
    <3>2. job[u].request \in Ids /\ request[job[u].request] = None
      BY <2>1, <3>1 DEF Control, KindControl, IdsFresh
    <3>3. job[u].request # r
      <4>1. CASE t \in Inserters
        BY <1>1, <3>1, <4>1 DEF InFlight, IdsFresh
      <4>2. CASE t \in Reviews
        BY <1>1, <1>2, <1>3, <3>2, <4>2 DEF ReviewControl
      <4>3. CASE t \in Grants \cup Revokes
        BY <1>2, <1>3, <3>2, <4>3, NoneAssumption DEF KindControl, Ids
      <4> QED
        BY <4>1, <4>2, <4>3 DEF Tasks, Inserters
    <3>4. request'[job[u].request] = None
      BY <1>4, <3>2, <3>3, CommitRequest
    <3>5. \A w \in Rows : owner[w] = u => owner'[w] = u
      BY <1>1, <3>1 DEF Released
    <3> QED
      BY <1>1, <3>1, <3>2, <3>3, <3>4, <3>5
  <2>2. Backend # "sqlite" => \A q \in Ids : request'[q] # None => q <= lastId'
    <3>1. SUFFICES ASSUME Backend # "sqlite", NEW q \in Ids, request'[q] # None
                   PROVE  q <= lastId
      BY <1>1
    <3>2. CASE request[q] # None
      BY <3>1, <3>2 DEF IdsFresh
    <3>3. CASE request[q] = None
      <4>1. OnRequest(t) /\ q = r /\ t \notin Reviews
        BY <1>4, <3>1, <3>3, CommitRequest
      <4>2. t \in Inserters
        BY <1>2, <1>3, <4>1, NoneAssumption DEF KindControl, Tasks, Inserters, OnRequest, Ids
      <4> QED
        BY <1>1, <3>1, <4>1, <4>2 DEF IdsFresh, InFlight
    <3> QED
      BY <3>2, <3>3
  <2> QED
    BY <1>1, <2>1, <2>2 DEF IdsFresh
<1>12. PayersStored'
  <2>1. SUFFICES ASSUME NEW q \in Ids, request'[q] # None PROVE user'[request'[q].user] # None
    BY DEF PayersStored
  <2>2. CASE OnRequest(t) /\ q = r
    BY <1>2, <1>6, <1>8, <2>2, CommitRequest DEF RowsOK, Requests
  <2>3. CASE ~ (OnRequest(t) /\ q = r)
    <3>1. request'[q] = request[q]
      BY <1>4, <2>3, CommitRequest
    <3> QED
      BY <1>6, <2>1, <3>1 DEF PayersStored, RowsOK, Requests
  <2> QED
    BY <2>2, <2>3
<1>13. ApprovalPaidOut'
  <2>1. ASSUME NEW q \in Ids, request'[q] # None,
               request'[q].status = "approved", request'[q].days > 0
        PROVE  \E h \in history' : h.request = q
    <3>1. CASE OnRequest(t) /\ q = r
      <4>1. t \in Stars \cup Receipts \cup Reviews
        BY <1>2, <1>3, <3>1, NoneAssumption DEF KindControl, Tasks, OnRequest, Ids
      <4>2. draft[t] # None \/ t \in Receipts
        BY <1>1, <1>2, <2>1, <3>1, <4>1, CommitRequest DEF DraftControl, ReviewControl
      <4>3. CASE draft[t] # None
        <5>1. NewHistory(t) \in history' /\ NewHistory(t).request = q
          BY <3>1, <4>1, <4>3, CommitGrant, KindsDisjoint DEF NewHistory
        <5> QED
          BY <5>1
      <4>4. CASE t \in Receipts
        <5>1. request'[r] = NewRequest(t) /\ t \notin Stars
          BY <3>1, <4>4, KindsDisjoint DEF Commit, OnRequest
        <5> QED
          BY <2>1, <3>1, <5>1 DEF NewRequest
      <4> QED
        BY <4>2, <4>3, <4>4
    <3>2. CASE ~ (OnRequest(t) /\ q = r)
      <4>1. request'[q] = request[q]
        BY <1>4, <3>2, CommitRequest
      <4> QED
        BY <1>7, <2>1, <4>1 DEF ApprovalPaidOut
    <3> QED
      BY <3>1, <3>2
  <2>2. ASSUME NEW h \in history', h.request # None
        PROVE  request'[h.request] # None /\ request'[h.request].status # "pending"
    <3>1. CASE h \in history
      <4>1. /\ h.request \in Ids /\ request[h.request] # None
            /\ request[h.request].status # "pending"
        BY <2>2, <3>1 DEF ApprovalPaidOut, RowsOK, Histories
      <4>2. CASE request'[h.request] = request[h.request]
        BY <4>1, <4>2
      <4>3. CASE t \in Reviews /\ h.request = r
        <5>1. request'[r] # None /\ request'[r].status \in Verdicts
          BY <1>2, <1>3, <4>1, <4>3, CommitRequest DEF OnRequest, ReviewControl
        <5> QED
          BY <4>3, <5>1 DEF Verdicts
      <4> QED
        BY <1>5, <4>1, <4>2, <4>3
    <3>2. CASE h \notin history
      <4>1. draft[t] # None /\ t \notin Revokes /\ h = NewHistory(t) /\ h \in Histories
        BY <3>2, CommitGrant
      <4>2. h.request = r /\ OnRequest(t)
        BY <2>2, <4>1 DEF NewHistory, Histories, OnRequest
      <4>3. t \in Stars \cup Reviews
        BY <1>2, <1>3, <2>2, <4>1, <4>2 DEF KindControl, Tasks
      <4>4. request'[r].status # "pending"
        <5>1. CASE t \in Stars
          BY <4>2, <5>1, CommitRequest
        <5>2. CASE t \in Reviews
          <6>1. request'[r].status \in Verdicts
            BY <1>2, <1>3, <4>2, <5>2, CommitRequest DEF ReviewControl
          <6> QED
            BY <6>1 DEF Verdicts
        <5> QED
          BY <4>3, <5>1, <5>2
      <4> QED
        BY <4>2, <4>4, CommitRequest
    <3> QED
      BY <3>1, <3>2
  <2> QED
    BY <2>1, <2>2 DEF ApprovalPaidOut
<1>14. ExpiryExplained'
  <2>1. SUFFICES ASSUME NEW u \in Users, user'[u] # None, user'[u].expires # None
                 PROVE  \E h \in history' : h.user = u /\ h.expires = user'[u].expires
    BY DEF ExpiryExplained
  <2>2. CASE user'[u] = user[u]
    BY <1>7, <2>1, <2>2 DEF ExpiryExplained
  <2>3. CASE user'[u] # user[u]
    <3>1. /\ draft[t] # None /\ u = x /\ user[x] # None
          /\ user'[x].expires \in {user[x].expires, draft[t].expires}
      BY <2>3, CommitGrant DEF RowsOK
    <3>2. CASE user'[x].expires = user[x].expires
      BY <1>7, <2>1, <3>1, <3>2 DEF ExpiryExplained
    <3>3. CASE user'[x].expires = draft[t].expires
      <4>1. t \notin Revokes /\ NewHistory(t) \in history'
        BY <2>1, <3>1, <3>3, CommitGrant
      <4>2. NewHistory(t).user = x /\ NewHistory(t).expires = draft[t].expires
        BY DEF NewHistory
      <4> QED
        BY <3>1, <3>3, <4>1, <4>2
    <3> QED
      BY <3>1, <3>2, <3>3
  <2> QED
    BY <2>2, <2>3
<1> QED
  BY <1>8, <1>10, <1>11, <1>12, <1>13, <1>14

(* Restart leaves nobody in flight; time changes no row.                   *)
LEMMA RestartStep == ASSUME IInv, Restart PROVE IInv'
<1> USE DEF IInv
<1>1. /\ \A t \in Tasks : at'[t] = at[t] \/ (at'[t] = "killed" /\ at[t] # "idle")
      /\ \A t \in Tasks : ~ InFlight(t)'
  BY DEF Restart, Ended, InFlight
<1>2. UNCHANGED <<user, request, history, lastId, clock, job, seen, draft, buttons>>
  BY DEF Restart
<1>3. RowsOK'
  <2>1. at' \in [Tasks -> Steps] /\ owner' \in [Rows -> Tasks \cup {None}]
    BY DEF Restart, RowsOK, Steps
  <2> QED
    BY <1>2, <2>1 DEF RowsOK
<1>4. ASSUME NEW t \in Tasks
      PROVE  (JobControl(t) /\ DraftControl(t) /\ KindControl(t) /\ ReviewControl(t))'
  <2>1. JobControl(t) /\ DraftControl(t) /\ KindControl(t) /\ ReviewControl(t)
    BY DEF Control
  <2>2. JobControl(t)' /\ DraftControl(t)'
    BY <1>1, <1>2, <2>1 DEF JobControl, DraftControl, KnowsUser
  <2>3. KindControl(t)' /\ ReviewControl(t)'
    BY <1>1, <1>2, <2>1 DEF KindControl, ReviewControl
  <2> QED
    BY <2>2, <2>3
<1>5. Control'
  BY <1>4 DEF Control
<1>6. IdsFresh'
  BY <1>1, <1>2 DEF IdsFresh, Inserters, Tasks
<1>7. PayersStored' /\ ApprovalPaidOut' /\ ExpiryExplained'
  BY <1>2 DEF PayersStored, ApprovalPaidOut, ExpiryExplained
<1> QED
  BY <1>3, <1>5, <1>6, <1>7

LEMMA TimePasses ==
    ASSUME IInv, clock' \in Nat,
           UNCHANGED <<user, request, history, owner, lastId, at, job, seen, draft, buttons>>
    PROVE  IInv'
<1>1. RowsOK'
  BY DEF IInv, RowsOK
<1>2. Control'
  BY DEF IInv, Control, JobControl, DraftControl, KindControl, ReviewControl, KnowsUser, InFlight
<1>3. IdsFresh' /\ PayersStored' /\ ApprovalPaidOut' /\ ExpiryExplained'
  BY DEF IInv, IdsFresh, InFlight, PayersStored, ApprovalPaidOut, ExpiryExplained
<1> QED
  BY <1>1, <1>2, <1>3 DEF IInv

LEMMA BeginSteps ==
    ASSUME IInv,
           \/ \E t \in Stars, u \in Users, d \in Days : OnSuccessfulPayment(t, u, d)
           \/ \E t \in Receipts, u \in Users, d \in Days : ReceiveReceipt(t, u, d)
           \/ \E t \in Reviews, b \in Buttons, verdict \in Verdicts : ReviewPayment(t, b, verdict)
           \/ \E t \in Grants, u \in Users, d \in Days : ReceivePremiumDays(t, u, d)
           \/ \E t \in Revokes, u \in Users : RevokePremium(t, u)
    PROVE  IInv'
<1> DEFINE bought(u, d) ==
             [user |-> u, days |-> d, request |-> None, paidBy |-> None, verdict |-> None]
           clicked(b, verdict) ==
             [user |-> None, days |-> None, request |-> b.request,
              paidBy |-> b.paidBy, verdict |-> verdict]
<1>1. \A u \in Users, d \in Days \cup {None} : bought(u, d) \in Jobs
  BY DEF Jobs
<1>2. \A b \in Buttons, verdict \in Verdicts : clicked(b, verdict) \in Jobs /\ b.request \in Ids
  BY DEF Jobs, Buttons
<1>3. \A d \in Days : FindOrExcuse(d) \in {"find", "excuse"}
  BY DEF FindOrExcuse
<1>4. ASSUME NEW t \in Stars, NEW u \in Users, NEW d \in Days, OnSuccessfulPayment(t, u, d)
      PROVE  IInv'
  BY <1>1, <1>3, <1>4, KindsDisjoint, BeginStep DEF OnSuccessfulPayment, Tasks
<1>5. ASSUME NEW t \in Receipts, NEW u \in Users, NEW d \in Days, ReceiveReceipt(t, u, d)
      PROVE  IInv'
  BY <1>1, <1>5, KindsDisjoint, BeginStep DEF ReceiveReceipt, Tasks
<1>6. ASSUME NEW t \in Reviews, NEW b \in Buttons, NEW verdict \in Verdicts,
             ReviewPayment(t, b, verdict)
      PROVE  IInv'
  BY <1>2, <1>6, KindsDisjoint, BeginStep DEF ReviewPayment, Tasks
<1>7. ASSUME NEW t \in Grants, NEW u \in Users, NEW d \in Days, ReceivePremiumDays(t, u, d)
      PROVE  IInv'
  BY <1>1, <1>3, <1>7, KindsDisjoint, BeginStep DEF ReceivePremiumDays, Tasks
<1>8. ASSUME NEW t \in Revokes, NEW u \in Users, RevokePremium(t, u)
      PROVE  IInv'
  BY <1>1, <1>8, KindsDisjoint, BeginStep DEF RevokePremium, Tasks
<1> QED
  BY <1>4, <1>5, <1>6, <1>7, <1>8

-----------------------------------------------------------------------------
LEMMA TaskSteps == ASSUME IInv, NEW t \in Tasks, TaskStep(t) PROVE IInv'
<1>1. lastId \in Ids \cup {0}
  BY DEF IInv, RowsOK
<1>2. CASE Reply(t)
  <2>1. CASE Goto(t, "commit") /\ UNCHANGED owner
    BY <1>2, <2>1, MessageStep DEF Reply
  <2>2. CASE Rollback(t, "failed")
    BY <1>1, <1>2, <2>2, EndStep DEF Reply, Rollback
  <2> QED
    BY <1>2, <2>1, <2>2 DEF Reply
<1>3. CASE NotifyAdmins(t)
  BY <1>3, MessageStep DEF NotifyAdmins
<1>4. CASE Excuse(t)
  BY <1>1, <1>4, EndStep DEF Excuse
<1>5. CASE LockTimeout(t)
  <2>1. at[t] # "idle"
    BY <1>5 DEF LockTimeout, Wanted, MayLock
  <2> QED
    BY <1>1, <1>5, <2>1, EndStep DEF LockTimeout, Rollback
<1> QED
  BY <1>2, <1>3, <1>4, <1>5, FetchStep, MarkReviewedStep, FindUserStep, WriteUserStep,
     CreateRequestStep, CommitStep DEF TaskStep

LEMMA StepPreserves == IInv /\ [Next]_vars => IInv'
<1>1. SUFFICES ASSUME IInv, [Next]_vars PROVE IInv'
  OBVIOUS
<1>2. clock \in Nat
  BY <1>1 DEF IInv, RowsOK
<1>3. CASE UNCHANGED vars
  BY <1>1, <1>2, <1>3, TimePasses DEF vars
<1>4. CASE \E t \in Tasks : TaskStep(t)
  BY <1>1, <1>4, TaskSteps
<1>5. CASE Restart
  BY <1>1, <1>5, RestartStep
<1>6. CASE Tick
  BY <1>1, <1>2, <1>6, TimePasses DEF Tick
<1>7. CASE AllOver
  BY <1>1, <1>2, <1>7, TimePasses DEF AllOver, vars
<1> QED
  BY <1>1, <1>3, <1>4, <1>5, <1>6, <1>7, BeginSteps DEF Next

LEMMA InvariantHolds == Spec => []IInv
<1>1. Init => IInv
  BY InitEstablishes
<1>2. IInv /\ [Next]_vars => IInv'
  BY StepPreserves
<1> QED
  BY <1>1, <1>2, PTL DEF Spec

-----------------------------------------------------------------------------
(* What bounds the expiry dates: none, stored or about to be, is further   *)
(* away than the days granted so far and those being granted.              *)
Fresh(t) == at[t] \in {"idle", "fetch"} => draft[t] = None

Within(t) ==
    draft[t] # None /\ draft[t].expires # None =>
        draft[t].expires <= clock + granted[job[t].user] + job[t].days

NInv ==
    /\ granted \in [Users -> Nat]
    /\ \A t \in Tasks : Fresh(t) /\ Within(t)
    /\ NeverBeyondGrants

LEMMA DraftIs ==
    ASSUME IInv, NEW t \in Tasks, draft[t] # None, draft[t].expires # None
    PROVE  job[t].user \in Users /\ job[t].days \in Nat /\ draft[t].expires \in Nat
<1>1. DraftControl(t) /\ draft[t] \in UserRows
  BY DEF IInv, Control, RowsOK
<1> QED
  BY <1>1, PaymentsAssumption DEF DraftControl, KnowsUser, UserRows

(* What stays within the bounds does so as time passes and days are        *)
(* granted.                                                                *)
LEMMA StaysWithin ==
    ASSUME IInv, IInv', NInv, NEW t \in Tasks,
           draft'[t] = draft[t],
           draft[t] # None => job'[t].user = job[t].user /\ job'[t].days = job[t].days,
           clock' \in Nat, clock' >= clock,
           granted' \in [Users -> Nat], \A u \in Users : granted'[u] >= granted[u]
    PROVE  Within(t)'
<1> SUFFICES ASSUME draft[t] # None, draft[t].expires # None
             PROVE  draft[t].expires <= clock' + granted'[job[t].user] + job[t].days
  BY DEF Within
<1>1. job[t].user \in Users /\ job[t].days \in Nat /\ draft[t].expires \in Nat
  BY DraftIs
<1>2. draft[t].expires <= clock + granted[job[t].user] + job[t].days
  BY DEF NInv, Within
<1>3. granted[job[t].user] \in Nat /\ granted'[job[t].user] \in Nat /\ clock \in Nat
  BY <1>1 DEF NInv, IInv, RowsOK
<1>4. granted'[job[t].user] >= granted[job[t].user]
  BY <1>1
<1> QED
  BY <1>1, <1>2, <1>3, <1>4

(* Steps that store nothing and compute no expiry date.                    *)
LEMMA NothingGranted ==
    ASSUME IInv, IInv', NInv, clock' >= clock, granted' = granted, user' = user,
           \A t \in Tasks :
              /\ draft'[t] = draft[t]
              /\ draft[t] # None => job'[t].user = job[t].user /\ job'[t].days = job[t].days
              /\ at'[t] \in {"idle", "fetch"} => at[t] \in {"idle", "fetch"}
    PROVE  NInv'
<1>1. clock \in Nat /\ clock' \in Nat /\ \A u \in Users : granted[u] \in Nat
  BY DEF IInv, RowsOK, NInv
<1>2. ASSUME NEW t \in Tasks PROVE Fresh(t)' /\ Within(t)'
  <2>1. Within(t)'
    BY <1>1, StaysWithin DEF NInv
  <2> QED
    BY <2>1 DEF NInv, Fresh
<1>3. NeverBeyondGrants'
  <2> SUFFICES ASSUME NEW u \in Users, user[u] # None, user[u].expires # None
               PROVE  user[u].expires <= clock' + granted[u]
    BY DEF NeverBeyondGrants
  <2>1. user[u].expires <= clock + granted[u] /\ user[u].expires \in Nat
    BY DEF NInv, NeverBeyondGrants, IInv, RowsOK, UserRows
  <2> QED
    BY <1>1, <2>1
<1> QED
  BY <1>2, <1>3 DEF NInv

LEMMA GrantComputed ==
    ASSUME IInv, IInv', NInv, NEW t \in Tasks, FindUser(t), UNCHANGED granted
    PROVE  NInv'
<1>0. clock \in Nat /\ DOMAIN at = Tasks /\ DOMAIN draft = Tasks /\ granted \in [Users -> Nat]
  BY DEF IInv, RowsOK, NInv
<1>1. /\ at[t] = "find" /\ UNCHANGED <<user, clock, job>>
      /\ \A o \in Tasks \ {t} : at'[o] = at[o] /\ draft'[o] = draft[o]
      /\ at'[t] \in {"reply", "excuse", "crashed", "write"}
  BY <1>0 DEF FindUser, Goto, Rollback
<1>2. draft'[t] # None /\ draft'[t] # draft[t] => Within(t)'
  <2> SUFFICES ASSUME draft'[t] # draft[t], draft'[t].expires # None
               PROVE  draft'[t].expires <= clock + granted[job[t].user] + job[t].days
    BY <1>1 DEF Within
  <2> DEFINE r == user[job[t].user]
  <2>1. draft'[t] \in {Revoked, Granted(r, job[t].days)}
        /\ (t \notin Revokes => draft'[t] = Granted(r, job[t].days)) /\ r # None
    BY <1>0 DEF FindUser
  <2>2. t \notin Revokes
    <3>1. t \in Revokes => draft'[t] = Revoked
      BY <1>0 DEF FindUser
    <3> QED
      BY <3>1 DEF Revoked
  <2>3. job[t].user \in Users /\ job[t].days \in Nat
    BY <1>1, <2>2, PaymentsAssumption DEF IInv, Control, JobControl
  <2>4. r.expires # None => r.expires \in Nat /\ r.expires <= clock + granted[job[t].user]
    BY <2>1, <2>3 DEF NInv, NeverBeyondGrants, IInv, RowsOK, UserRows
  <2>5. granted[job[t].user] \in Nat
    BY <1>0, <2>3
  <2>6. Base(r) \in Nat /\ Base(r) <= clock + granted[job[t].user]
    BY <1>0, <2>4, <2>5 DEF Base
  <2> HIDE DEF r
  <2>7. draft'[t].expires = Base(r) + job[t].days
    BY <2>1, <2>2 DEF Granted
  <2> QED
    BY <1>0, <2>3, <2>5, <2>6, <2>7
<1>3. ASSUME NEW o \in Tasks PROVE Fresh(o)' /\ Within(o)'
  <2>1. CASE draft'[o] = draft[o]
    <3>1. Within(o)'
      BY <1>0, <1>1, <2>1, StaysWithin
    <3> QED
      BY <1>1, <2>1, <3>1 DEF NInv, Fresh
  <2>2. CASE draft'[o] # draft[o]
    <3>1. o = t
      BY <1>1, <2>2
    <3> QED
      BY <1>1, <1>2, <2>2, <3>1 DEF Within, Fresh
  <2> QED
    BY <2>1, <2>2
<1> QED
  BY <1>0, <1>1, <1>3 DEF NInv, NeverBeyondGrants

LEMMA GrantStored ==
    ASSUME IInv, IInv', NInv, NEW t \in Tasks, Commit(t)
    PROVE  NInv'
<1>0. /\ clock \in Nat /\ DOMAIN at = Tasks /\ granted \in [Users -> Nat]
      /\ UNCHANGED <<clock, job, draft>> /\ at' = [at EXCEPT ![t] = "done"]
  BY DEF IInv, RowsOK, NInv, Commit, Goto
<1>1. draft[t] # None => job[t].user \in Users /\ (t \notin Revokes => job[t].days \in Nat)
  BY PaymentsAssumption DEF IInv, Control, DraftControl, KnowsUser
<1>2. /\ draft[t] = None \/ t \in Revokes => granted' = granted
      /\ ~ (draft[t] = None \/ t \in Revokes) =>
            granted' = [granted EXCEPT ![job[t].user] = @ + job[t].days]
  BY DEF Commit
<1>3. granted' \in [Users -> Nat] /\ \A u \in Users : granted'[u] >= granted[u]
  <2>1. CASE draft[t] = None \/ t \in Revokes
    BY <1>0, <1>2, <2>1
  <2>2. CASE ~ (draft[t] = None \/ t \in Revokes)
    BY <1>0, <1>1, <1>2, <2>2
  <2> QED
    BY <2>1, <2>2
<1>4. ASSUME NEW o \in Tasks PROVE Fresh(o)' /\ Within(o)'
  <2>1. Within(o)'
    BY <1>0, <1>3, StaysWithin
  <2> QED
    BY <1>0, <2>1 DEF NInv, Fresh
<1>5. NeverBeyondGrants'
  <2> SUFFICES ASSUME NEW u \in Users, user'[u] # None, user'[u].expires # None
               PROVE  user'[u].expires <= clock + granted'[u]
    BY <1>0 DEF NeverBeyondGrants
  <2>1. CASE user'[u] = user[u]
    <3>1. user[u].expires <= clock + granted[u] /\ user[u].expires \in Nat
      BY <2>1 DEF NInv, NeverBeyondGrants, IInv, RowsOK, UserRows
    <3>2. granted[u] \in Nat /\ granted'[u] \in Nat /\ granted'[u] >= granted[u]
      BY <1>0, <1>3
    <3> QED
      BY <1>0, <2>1, <3>1, <3>2
  <2>2. CASE user'[u] # user[u]
    <3>1. /\ draft[t] # None /\ u = job[t].user /\ user[u] # None
          /\ user'[u].expires \in {user[u].expires, draft[t].expires}
      BY <2>2, CommitGrant DEF IInv, RowsOK
    <3>2. CASE user'[u].expires = user[u].expires
      <4>1. user[u].expires <= clock + granted[u] /\ user[u].expires \in Nat
        BY <3>1, <3>2 DEF NInv, NeverBeyondGrants, IInv, RowsOK, UserRows
      <4>2. granted[u] \in Nat /\ granted'[u] \in Nat /\ granted'[u] >= granted[u]
        BY <1>0, <1>3
      <4> QED
        BY <1>0, <3>2, <4>1, <4>2
    <3>3. CASE user'[u].expires = draft[t].expires
      <4>1. t \notin Revokes
        BY <3>1, <3>3 DEF IInv, Control, DraftControl
      <4>2. granted'[u] = granted[u] + job[t].days
        BY <1>0, <1>2, <3>1, <4>1
      <4>3. draft[t].expires <= clock + granted[u] + job[t].days
        BY <3>1, <3>3 DEF NInv, Within
      <4>4. granted[u] \in Nat /\ job[t].days \in Nat /\ draft[t].expires \in Nat
        BY <1>0, <1>1, <3>1, <3>3, <4>1, DraftIs
      <4> QED
        BY <1>0, <3>3, <4>2, <4>3, <4>4
    <3> QED
      BY <3>1, <3>2, <3>3
  <2> QED
    BY <2>1, <2>2
<1> QED
  BY <1>3, <1>4, <1>5 DEF NInv

LEMMA TasksKeepWithin ==
    ASSUME IInv, IInv', NInv, NEW t \in Tasks, TaskStep(t)
    PROVE  NInv'
<1>0. clock \in Nat /\ DOMAIN at = Tasks /\ DOMAIN job = Tasks /\ job[t] \in Jobs \cup {None}
  BY DEF IInv, RowsOK
<1>1. CASE Fetch(t) /\ UNCHANGED granted
  <2>1. draft[t] = None /\ UNCHANGED <<user, clock, draft>>
    BY <1>1 DEF Fetch, NInv, Fresh
  <2>2. \A o \in Tasks \ {t} : at'[o] = at[o] /\ job'[o] = job[o]
    BY <1>0, <1>1 DEF Fetch, Goto
  <2>3. at'[t] \in {"excuse", "mark"}
    BY <1>0, <1>1 DEF Fetch, Goto
  <2> QED
    BY <1>0, <1>1, <2>1, <2>2, <2>3, NothingGranted
<1>2. CASE CreateRequest(t) /\ UNCHANGED granted
  <2>1. /\ UNCHANGED <<user, clock, draft>>
        /\ at'[t] \in {"failed", "reply", "alert"}
        /\ \A o \in Tasks \ {t} : at'[o] = at[o] /\ job'[o] = job[o]
    BY <1>0, <1>2 DEF CreateRequest, Goto, Rollback
  <2>2. job[t] \in Jobs
    BY <1>0, <1>2 DEF CreateRequest, IInv, Control, JobControl
  <2>3. job' = job \/ \E r : job' = [job EXCEPT ![t].request = r]
    BY <1>2 DEF CreateRequest
  <2>4. job'[t].user = job[t].user /\ job'[t].days = job[t].days
    BY <1>0, <2>2, <2>3 DEF Jobs
  <2> QED
    BY <1>0, <1>2, <2>1, <2>4, NothingGranted
<1>3. CASE /\ \/ MarkReviewed(t) \/ WriteUser(t) \/ NotifyAdmins(t) \/ Reply(t)
              \/ Excuse(t) \/ LockTimeout(t)
           /\ UNCHANGED granted
  <2>1. UNCHANGED <<user, clock, job, draft>>
    BY <1>3 DEF MarkReviewed, WriteUser, NotifyAdmins, Reply, Excuse, LockTimeout
  <2>2. \E step : step \notin {"idle", "fetch"} /\ Goto(t, step)
    BY <1>3 DEF MarkReviewed, WriteUser, NotifyAdmins, Reply, Excuse, LockTimeout, Rollback
  <2>3. \A o \in Tasks : at'[o] \in {"idle", "fetch"} => at[o] \in {"idle", "fetch"}
    BY <1>0, <2>2 DEF Goto
  <2> QED
    BY <1>0, <1>3, <2>1, <2>3, NothingGranted
<1> QED
  BY <1>1, <1>2, <1>3, GrantComputed, GrantStored DEF TaskStep

LEMMA NextKeepsWithin == IInv /\ NInv /\ [Next]_vars => NInv'
<1> SUFFICES ASSUME IInv, NInv, [Next]_vars PROVE NInv'
  OBVIOUS
<1>0. /\ IInv' /\ clock \in Nat /\ DOMAIN at = Tasks /\ DOMAIN job = Tasks
  BY StepPreserves DEF IInv, RowsOK
<1>1. ASSUME NEW t \in Tasks, NEW step, NEW about, Begin(t, step, about) PROVE NInv'
  <2>1. /\ at[t] = "idle" /\ draft[t] = None /\ UNCHANGED <<user, granted, clock, draft>>
        /\ \A o \in Tasks \ {t} : at'[o] = at[o] /\ job'[o] = job[o]
    BY <1>0, <1>1 DEF Begin, Goto, NInv, Fresh
  <2> QED
    BY <1>0, <2>1, NothingGranted
<1>2. ASSUME NEW t \in Tasks, TaskStep(t) PROVE NInv'
  BY <1>0, <1>2, TasksKeepWithin
<1>3. CASE Restart
  <2>1. \A t \in Tasks : at'[t] \in {"idle", "fetch"} => at[t] \in {"idle", "fetch"}
    BY <1>3 DEF Restart
  <2> QED
    BY <1>0, <1>3, <2>1, NothingGranted DEF Restart
<1>4. CASE Tick
  BY <1>0, <1>4, NothingGranted DEF Tick
<1>5. CASE UNCHANGED vars
  BY <1>0, <1>5, NothingGranted DEF vars
<1> QED
  BY <1>1, <1>2, <1>3, <1>4, <1>5
     DEF Next, AllOver, Tasks, OnSuccessfulPayment, ReceiveReceipt, ReviewPayment,
         ReceivePremiumDays, RevokePremium

LEMMA WithinHolds == Spec => []NInv
<1>1. Init => NInv
  <2> SUFFICES ASSUME Init PROVE NInv
    OBVIOUS
  <2>1. \A u \in Users : user[u] # None => user[u].expires = None
    BY DEF Init
  <2> QED
    BY <2>1 DEF Init, NInv, Fresh, Within, NeverBeyondGrants
<1> QED
  BY <1>1, NextKeepsWithin, InvariantHolds, PTL DEF Spec

-----------------------------------------------------------------------------
(* Every variable keeps its type: no task writes a users or                *)
(* payment_requests row it has not read or made (premium_service.py:34-56, *)
(* payment_service.py:67-82).                                              *)
THEOREM TypeCorrect == Spec => []TypeOK
<1>1. IInv /\ NInv => TypeOK
  BY DEF IInv, NInv, TypeOK
<1> QED
  BY <1>1, InvariantHolds, WithinHolds, PTL

(* Whatever fails, restarts or races, an approved request of at least one  *)
(* day has its grant, and no grant is for a request that is missing or     *)
(* pending (premium_center.py:132-145, premium.py:324-340).                *)
THEOREM ApprovalIsPaidOut == Spec => []ApprovalPaidOut
<1>1. IInv => ApprovalPaidOut
  BY DEF IInv
<1> QED
  BY <1>1, InvariantHolds, PTL

(* Whatever grants and revocations overtake each other, every stored       *)
(* expiry date is one the history says was granted to that user            *)
(* (premium_service.py:34-56).                                             *)
THEOREM ExpiryIsExplained == Spec => []ExpiryExplained
<1>1. IInv => ExpiryExplained
  BY DEF IInv
<1> QED
  BY <1>1, InvariantHolds, PTL

(* However grants, revocations and reviews overtake each other, nobody has *)
(* more Premium time than the days he was granted in all                   *)
(* (premium_service.py:35-42).                                             *)
THEOREM GrantsBoundExpiry == Spec => []NeverBeyondGrants
<1>1. NInv => NeverBeyondGrants
  BY DEF NInv
<1> QED
  BY <1>1, WithinHolds, PTL

-----------------------------------------------------------------------------
(* What a click decides on.  Request r is, or is going to be, the one that *)
(* task p paid by, and no other task has been given its id or ever will:   *)
(* PostgreSQL's sequence has passed it.                                    *)
Shows(r, p) ==
    /\ r \in Ids /\ r <= lastId
    /\ request[r] # None => request[r].paidBy = p
    /\ \A t \in Inserters : InFlight(t) /\ job[t].request = r => t = p

VInv ==
    /\ \A b \in buttons : Shows(b.request, b.paidBy)
    /\ \A t \in Reviews : job[t] # None => Shows(job[t].request, job[t].paidBy)

(* An id that has been handed out stays with its payment, unless a step    *)
(* hands out another one or stores it.                                     *)
LEMMA ShownStays ==
    ASSUME IInv, NEW r, NEW p, Shows(r, p), lastId' \in Nat, lastId' >= lastId,
           request'[r] = request[r],
           \A t \in Inserters : InFlight(t)' /\ job'[t].request = r =>
               InFlight(t) /\ job[t].request = r
    PROVE  Shows(r, p)'
<1>1. r \in Nat /\ lastId \in Nat
  BY DEF Shows, Ids, IInv, RowsOK
<1> QED
  BY <1>1 DEF Shows

(* Most steps hand out nothing, send nothing and begin no review.          *)
LEMMA StillShown ==
    ASSUME IInv, VInv, UNCHANGED <<lastId, request, buttons>>,
           \A t \in Inserters : InFlight(t)' => InFlight(t) /\ job'[t].request = job[t].request,
           \A t \in Reviews : job'[t] # None =>
               /\ job[t] # None
               /\ job'[t].request = job[t].request /\ job'[t].paidBy = job[t].paidBy
    PROVE  VInv'
<1>1. lastId \in Nat
  BY DEF IInv, RowsOK, Ids
<1>2. ASSUME NEW r, NEW p, Shows(r, p) PROVE Shows(r, p)'
  BY <1>1, <1>2, ShownStays
<1> QED
  BY <1>2 DEF VInv

LEMMA ReviewBegins ==
    ASSUME Backend = "postgresql", IInv, VInv, NEW t \in Reviews, NEW b \in Buttons,
           NEW verdict \in Verdicts, ReviewPayment(t, b, verdict)
    PROVE  VInv'
<1>0. DOMAIN at = Tasks /\ DOMAIN job = Tasks /\ lastId \in Nat
  BY DEF IInv, RowsOK, Ids
<1> DEFINE about == [user |-> None, days |-> None, request |-> b.request,
                     paidBy |-> b.paidBy, verdict |-> verdict]
<1>1. /\ Begin(t, "fetch", about) /\ b \in buttons \cup Listed
  BY DEF ReviewPayment
<1>2. about.request = b.request /\ about.paidBy = b.paidBy
  OBVIOUS
<1> HIDE DEF about
<1>3. /\ UNCHANGED <<lastId, request, buttons>> /\ job'[t] = about
      /\ \A o \in Tasks \ {t} : at'[o] = at[o] /\ job'[o] = job[o]
  BY <1>0, <1>1 DEF Begin, Goto, Tasks
<1>4. Shows(b.request, b.paidBy)
  <2>1. CASE b \in buttons
    BY <2>1 DEF VInv
  <2>2. CASE b \in Listed
    <3>1. PICK r \in Ids : /\ IsPending(request[r])
                           /\ b = [request |-> r, paidBy |-> request[r].paidBy]
      BY <2>2 DEF Listed
    <3>2. b.request = r /\ b.paidBy = request[r].paidBy /\ request[r] # None
      BY <3>1 DEF IsPending
    <3>3. r <= lastId /\ \A o \in Inserters : InFlight(o) => job[o].request # r
      BY <3>2 DEF IInv, IdsFresh
    <3> QED
      BY <3>2, <3>3 DEF Shows
  <2> QED
    BY <1>1, <2>1, <2>2
<1>5. \A o \in Inserters : o # t /\ o \in Tasks
  BY KindsDisjoint DEF Inserters, Tasks
<1>6. ASSUME NEW r, NEW p, Shows(r, p) PROVE Shows(r, p)'
  BY <1>0, <1>3, <1>5, <1>6, ShownStays DEF InFlight
<1> QED
  BY <1>2, <1>3, <1>4, <1>6 DEF VInv, Tasks

(* The sequence hands out an id that nobody has seen.                      *)
LEMMA RequestCreated ==
    ASSUME Backend = "postgresql", IInv, VInv, NEW t \in Tasks, CreateRequest(t)
    PROVE  VInv'
<1>0. DOMAIN at = Tasks /\ DOMAIN job = Tasks /\ lastId \in Nat /\ at[t] = "insert"
  BY DEF IInv, RowsOK, Ids, CreateRequest
<1>1. t \in Inserters /\ t \notin Reviews
  BY <1>0, KindsDisjoint DEF IInv, Control, KindControl, Inserters, Tasks
<1>2. job[t] \in Jobs
  BY <1>0 DEF IInv, Control, JobControl, RowsOK
<1>3. /\ UNCHANGED <<request, buttons>> /\ lastId' = lastId + 1
      /\ \A o \in Tasks \ {t} : at'[o] = at[o] /\ job'[o] = job[o]
      /\ at'[t] = "failed" \/ job'[t].request = lastId + 1
  BY <1>0, <1>2 DEF CreateRequest, IsNewId, Goto, Rollback, Jobs
<1>4. ASSUME NEW r, NEW p, Shows(r, p) PROVE Shows(r, p)'
  <2>1. r <= lastId /\ r \in Nat
    BY <1>4 DEF Shows, Ids
  <2>2. ~ (InFlight(t)' /\ job'[t].request = r)
    BY <1>0, <1>3, <2>1 DEF InFlight
  <2> QED
    BY <1>0, <1>3, <1>4, <2>2, ShownStays DEF InFlight, Inserters, Tasks
<1> QED
  BY <1>1, <1>3, <1>4 DEF VInv, Tasks

(* The message that admins get shows the payment that has the id.          *)
LEMMA ButtonsSent ==
    ASSUME Backend = "postgresql", IInv, VInv, NEW t \in Tasks, NotifyAdmins(t)
    PROVE  VInv'
<1>0. DOMAIN at = Tasks /\ lastId \in Nat /\ at[t] = "alert"
  BY DEF IInv, RowsOK, Ids, NotifyAdmins
<1>1. t \in Inserters /\ InFlight(t) /\ job[t].request \in Ids
  BY <1>0, KindsDisjoint DEF IInv, Control, KindControl, InFlight, Inserters, Tasks
<1>2. /\ UNCHANGED <<request, lastId, job>>
      /\ \A o \in Tasks : at'[o] = at[o] \/ (o = t /\ at'[o] = "reply")
      /\ buttons' \subseteq buttons \cup {[request |-> job[t].request, paidBy |-> t]}
  BY <1>0 DEF NotifyAdmins, Goto
<1>3. Shows(job[t].request, t)
  <2>1. request[job[t].request] = None /\ job[t].request <= lastId
    BY <1>1 DEF IInv, IdsFresh
  <2> QED
    BY <1>1, <2>1 DEF Shows, IInv, IdsFresh
<1>4. ASSUME NEW r, NEW p, Shows(r, p) PROVE Shows(r, p)'
  BY <1>0, <1>1, <1>2, <1>4, ShownStays DEF InFlight, Inserters, Tasks
<1>5. ASSUME NEW b \in buttons' PROVE Shows(b.request, b.paidBy)'
  BY <1>2, <1>3, <1>4, <1>5 DEF VInv
<1>6. ASSUME NEW o \in Reviews
      PROVE  (job[o] # None => Shows(job[o].request, job[o].paidBy))'
  <2>1. job[o] # None => Shows(job[o].request, job[o].paidBy)
    BY DEF VInv
  <2>2. ASSUME NEW j, j = job[o], j # None PROVE Shows(j.request, j.paidBy)'
    BY <1>4, <2>1, <2>2
  <2> QED
    BY <1>2, <2>2
<1> QED
  BY <1>5, <1>6 DEF VInv

(* The payment that had the id is stored under it.                         *)
LEMMA RequestStored ==
    ASSUME IInv, VInv, NEW t \in Tasks, Commit(t)
    PROVE  VInv'
<1>0. DOMAIN at = Tasks /\ lastId \in Nat /\ at[t] = "commit"
  BY DEF IInv, RowsOK, Ids, Commit
<1>1. /\ UNCHANGED <<lastId, job, buttons>> /\ at' = [at EXCEPT ![t] = "done"]
  BY DEF Commit, Goto
<1>2. ASSUME NEW r, NEW p, Shows(r, p) PROVE Shows(r, p)'
  <2>1. r \in Ids
    BY <1>2 DEF Shows
  <2>2. \A o \in Inserters : InFlight(o)' => InFlight(o)
    BY <1>0, <1>1 DEF InFlight, Inserters, Tasks
  <2>3. CASE request'[r] = request[r]
    BY <1>0, <1>1, <1>2, <2>2, <2>3, ShownStays
  <2>4. CASE request'[r] # request[r]
    <3>1. r = job[t].request
      BY <2>1, <2>4 DEF Commit
    <3>2. request'[r].paidBy = p
      <4>1. CASE t \in Reviews
        <5>1. request[r] # None /\ request[r] \in Requests
          BY <1>0, <2>1, <3>1, <4>1 DEF IInv, Control, ReviewControl, RowsOK
        <5>2. request'[r] = [request[r] EXCEPT !.status = job[t].verdict]
          BY <2>1, <3>1, <4>1 DEF Commit
        <5> QED
          BY <1>2, <5>1, <5>2 DEF Shows, Requests
      <4>2. CASE t \notin Reviews
        <5>1. t \in Inserters
          <6>1. t \in Grants \cup Revokes => job[t].request = None
            BY <1>0 DEF IInv, Control, KindControl, JobControl
          <6> QED
            BY <2>1, <3>1, <4>2, <6>1, NoneAssumption DEF Inserters, Tasks, Ids
        <5>2. request'[r].paidBy = t
          BY <2>1, <3>1, <4>2 DEF Commit, NewRequest
        <5>3. InFlight(t)
          BY <1>0, <5>1 DEF InFlight
        <5> QED
          BY <1>2, <3>1, <5>1, <5>2, <5>3 DEF Shows
      <4> QED
        BY <4>1, <4>2
    <3> QED
      BY <1>1, <1>2, <2>2, <3>2 DEF Shows
  <2> QED
    BY <2>3, <2>4
<1> QED
  BY <1>1, <1>2 DEF VInv

LEMMA NextKeepsShown ==
    ASSUME Backend = "postgresql"
    PROVE  IInv /\ VInv /\ [Next]_vars => VInv'
<1> SUFFICES ASSUME IInv, VInv, [Next]_vars PROVE VInv'
  OBVIOUS
<1>0. DOMAIN at = Tasks /\ DOMAIN job = Tasks /\ Inserters \cup Reviews \subseteq Tasks
  BY DEF IInv, RowsOK, Inserters, Tasks
<1>1. ASSUME NEW t \in Tasks \ Reviews, NEW step \in {"find", "excuse", "insert"}, NEW about,
             Begin(t, step, about)
      PROVE  VInv'
  BY <1>0, <1>1, StillShown DEF Begin, Goto, InFlight
<1>2. ASSUME NEW t \in Tasks, Fetch(t) PROVE VInv'
  <2>1. /\ UNCHANGED <<lastId, request, buttons>> /\ at[t] = "fetch"
        /\ at'[t] \in {"excuse", "mark"}
        /\ \A o \in Tasks \ {t} : at'[o] = at[o] /\ job'[o] = job[o]
    BY <1>0, <1>2 DEF Fetch, Goto
  <2>2. job[t] \in Jobs
    BY <2>1 DEF IInv, Control, JobControl, RowsOK
  <2>3. /\ job'[t].request = job[t].request /\ job'[t].paidBy = job[t].paidBy
        /\ job[t] # None
    BY <1>0, <1>2, <2>1, <2>2 DEF Fetch, Jobs, IInv, Control, JobControl
  <2> QED
    BY <1>0, <2>1, <2>3, StillShown DEF InFlight
<1>3. ASSUME NEW t \in Tasks,
             \/ MarkReviewed(t) \/ FindUser(t) \/ WriteUser(t) \/ Reply(t) \/ Excuse(t)
             \/ LockTimeout(t)
      PROVE  VInv'
  <2>1. UNCHANGED <<lastId, request, buttons, job>>
    BY <1>3 DEF MarkReviewed, FindUser, WriteUser, Reply, Excuse, LockTimeout
  <2>2. \E step : Goto(t, step) /\ (t \in Inserters /\ step \in {"alert", "reply", "commit"}
                                    => InFlight(t))
    <3>1. t \in Receipts => at[t] \notin {"mark", "find", "write"}
      BY DEF IInv, Control, KindControl
    <3>2. t \in Stars => at[t] # "mark" /\ t \notin Reviews
      BY KindsDisjoint DEF IInv, Control, KindControl
    <3> QED
      BY <1>3, <3>1, <3>2
         DEF MarkReviewed, FindUser, WriteUser, Reply, Excuse, LockTimeout, Rollback, InFlight,
             Inserters
  <2>3. \A o \in Inserters : InFlight(o)' => InFlight(o)
    BY <1>0, <2>2 DEF Goto, InFlight
  <2> QED
    BY <2>1, <2>3, StillShown
<1>4. ASSUME NEW t \in Tasks, TaskStep(t) PROVE VInv'
  BY <1>2, <1>3, <1>4, RequestCreated, ButtonsSent, RequestStored DEF TaskStep
<1>5. CASE Restart
  <2>1. \A t \in Inserters : ~ InFlight(t)'
    BY <1>0, <1>5 DEF Restart, InFlight, Ended
  <2> QED
    BY <1>5, <2>1, StillShown DEF Restart
<1>6. CASE Tick \/ UNCHANGED vars
  <2>1. UNCHANGED <<lastId, request, buttons, job, at>>
    BY <1>6 DEF Tick, vars
  <2> QED
    BY <2>1, StillShown DEF InFlight
<1>7. ASSUME NEW t \in Stars \cup Receipts \cup Grants \cup Revokes, NEW step, NEW about,
             Begin(t, step, about), step \in {"find", "excuse", "insert"}
      PROVE  VInv'
  BY <1>1, <1>7, KindsDisjoint DEF Tasks
<1>8. \A d : FindOrExcuse(d) \in {"find", "excuse"}
  BY DEF FindOrExcuse
<1> QED
  BY <1>4, <1>5, <1>6, <1>7, <1>8, ReviewBegins
     DEF Next, AllOver, OnSuccessfulPayment, ReceiveReceipt, ReceivePremiumDays, RevokePremium

(* On PostgreSQL an admin decides on the payment that his message shows,   *)
(* although it may have been sent for a request that was rolled back       *)
(* (premium.py:257, 267, premium_center.py:122-205): no other payment ever *)
(* gets its id.                                                            *)
THEOREM ClicksDecideWhatTheyShow ==
    ASSUME Backend = "postgresql"
    PROVE  Spec => []ReviewsWhatItShows
<1>1. Init => VInv
  BY DEF Init, VInv, Tasks
<1>2. IInv /\ VInv => ReviewsWhatItShows
  <2> SUFFICES ASSUME IInv, VInv, NEW t \in Reviews, at[t] = "mark"
               PROVE  request[job[t].request].paidBy = job[t].paidBy
    BY DEF ReviewsWhatItShows
  <2>1. job[t] # None /\ request[job[t].request] # None
    BY DEF IInv, Control, JobControl, ReviewControl, Tasks
  <2> QED
    BY <2>1 DEF VInv, Shows
<1>3. IInv /\ VInv /\ [Next]_vars => VInv'
  BY NextKeepsShown
<1> QED
  BY <1>1, <1>2, <1>3, InvariantHolds, PTL DEF Spec
=============================================================================
