------------------------------ MODULE Updates ------------------------------
(***************************************************************************)
(* What the components of the bot share: every update of Telegram's is a   *)
(* task, one coroutine with one AsyncSession and one transaction around    *)
(* its handler.                                                            *)
(*                                                                         *)
(* The database is a function from columns of rows to values.  A session   *)
(* keeps what it has loaded (its identity map) and does not read it again; *)
(* what it has flushed is locked until the transaction ends: the row on    *)
(* PostgreSQL, everything on SQLite.                                       *)
(***************************************************************************)
EXTENDS Naturals, FiniteSets, Functions

CONSTANTS
    Tasks,      \* the updates, and the runs of the daily job
    Users, Admin,   \* of Telegram, registered or not
    Targets,    \* channels and pages to subscribe to
    Keys, OnByDefault,   \* settings
    Workloads,  \* what the updates are, and what they find
    Earlier,    \* an update from before
    None

ASSUME UpdatesAssumption == Admin \in Users /\ None \notin Users \cup {"on", "off"}

(* One cell, and rows over others, as in module TLC.                       *)
cell :> value  == [c \in {cell} |-> value]
upper @@ lower == [c \in DOMAIN upper \cup DOMAIN lower |->
                      IF c \in DOMAIN upper THEN upper[c] ELSE lower[c]]

Kinds == {"start", "recheck", "confirm", "add", "platform", "pick", "cancelAdd", "text",
          "toggleActive", "toggleMandatory", "remove", "toggleSetting", "editSetting",
          "ban", "unban", "mute", "blacklist", "unblock", "compose", "send", "cancel",
          "backup", "daily"}

FsmStates == {"none", "choosing", "title", "url", "instructions", "value", "blacklist",
              "content", "buttons", "confirm"}
Fields == {"platform", "title", "url", "entryType"}

(* The admin's conversation: its state, which fields have been given, the  *)
(* setting to change and the update that brought the message to send.      *)
Conversations == [state : FsmStates, fields : SUBSET Fields, key : Keys \cup {None},
                  content : Tasks \cup {Earlier, None}]
Cleared == [state |-> "none", fields |-> {}, key |-> None, content |-> None]

(* Columns and what a row has in them before it is written.                *)
Blank == [user |-> None, invites |-> 0, starts |-> 0, banned |-> FALSE, muted |-> FALSE,
          premium |-> FALSE, reward |-> None, bonus |-> None, setting |-> None,
          entry |-> None, target |-> None, active |-> FALSE, mandatory |-> FALSE,
          confirmed |-> None, campaign |-> None, failure |-> None, log |-> None]

OfUsers   == {"user", "invites", "starts", "banned", "muted", "premium"}
OfTargets == {"target", "active", "mandatory"}

Cells ==
    (OfUsers \X Users) \cup (OfTargets \X Targets) \cup ({"setting"} \X Keys)
    \cup ({"confirmed"} \X (Users \X Targets)) \cup ({"failure"} \X (Tasks \X Users))
    \cup ({"reward", "bonus", "campaign", "log"} \X Tasks)
    \cup ({"entry"} \X (Tasks \cup {Earlier}))

(* The cell that is None when the row of a cell is not there.              *)
Primary(cell) == <<CASE cell[1] \in OfUsers   -> "user"
                     [] cell[1] \in OfTargets -> "target"
                     [] OTHER                 -> cell[1], cell[2]>>

Of(rows, cell) == IF cell \in DOMAIN rows THEN rows[cell] ELSE Blank[cell[1]]
Written(rows) == Restrict(rows, {c \in DOMAIN rows : rows[c] # Blank[c[1]]})

VARIABLES
    backend,
    db,       \* what is committed: the cells that are not blank
    session,  \* what each session has loaded or written
    wrote,    \* the cells each transaction has written
    fsm,      \* MemoryStorage: the admin's conversation
    at, job,  \* where each task is, and its locals
    told,     \* history: what each task has told its user
    restarts  \* bound: times the process is killed

core == <<at, job, told, session, wrote, fsm, db, backend, restarts>>

Ended == {"unused", "done", "failed"}
Running(t) == at[t] \notin Ended \cup {"idle"}

(* kind, by, arg: the update.  raw: the state it was met with.  out: what  *)
(* is going to be told.  The rest are locals of the handlers.              *)
Asked(kind, by, arg) ==
    [kind |-> kind, by |-> by, arg |-> arg, raw |-> "none", todo |-> {}, missing |-> {},
     key |-> None, value |-> None, isNew |-> FALSE, out |-> None]

(* What comes with a command or in the data of a button.                   *)
OfATarget == {"confirm", "pick", "toggleActive", "toggleMandatory", "remove"}

IsUpdate(j) ==
    /\ j.kind \in Kinds /\ j.by \in Users /\ j = Asked(j.kind, j.by, j.arg)
    /\ j.kind = "start" => j.arg \in Users \cup {None}
    /\ j.kind \in OfATarget => j.arg \in Targets
    /\ j.kind \in {"toggleSetting", "editSetting"} => j.arg \in Keys
    /\ j.kind \in {"ban", "unban", "mute"} => j.arg \in Users
    /\ j.kind = "unblock" => j.arg \in Tasks \cup {Earlier}
    /\ j.kind = "text" => j.arg # None

(* Rows that an update adds one of, and that are named after it.           *)
OfATask == {"reward", "bonus", "campaign", "failure", "log"}

ASSUME WorkloadAssumption ==
    \A w \in Workloads :
        /\ w.backends \subseteq {"sqlite", "postgresql"}
        /\ DOMAIN w.rows \subseteq Cells
        /\ \A c \in DOMAIN w.rows :
              /\ c[1] \notin OfATask \cup {"invites"}
              /\ c[1] = "user" => w.rows[c] = [by |-> None]   \* invited by nobody
        /\ w.chat \in Conversations
        /\ DOMAIN w.updates \subseteq Tasks
        /\ \A t \in DOMAIN w.updates : IsUpdate(w.updates[t])
        /\ w.restarts \in Nat

-----------------------------------------------------------------------------
(* Sessions and transactions.                                              *)
Sees(t) == session[t] @@ db
Val(t, cell) == Of(Sees(t), cell)

Locks(o, cells) ==
    IF backend = "sqlite" THEN wrote[o] # {}
    ELSE \E c \in wrote[o], d \in cells : Primary(c) = Primary(d)

MayWrite(t, cells) == \A o \in Tasks \ {t} : ~ Locks(o, cells)

Goto(t, step) == at' = [at EXCEPT ![t] = step]

Learn(t, locals, step) ==
    /\ job' = [job EXCEPT ![t] = locals]
    /\ Goto(t, step)
    /\ UNCHANGED <<backend, db, session, wrote, fsm, told, restarts>>

Pass(t, step)  == Learn(t, job[t], step)
Answer(t, out) == Learn(t, [job[t] EXCEPT !.out = out], "reply")

(* SELECT: of the rows there are, what is not known yet is.                *)
Load(t, cells, locals, step) ==
    /\ LET found == {c \in cells : Of(db, Primary(c)) # None}
       IN  session' = [session EXCEPT ![t] = @ @@ [c \in found |-> Of(db, c)]]
    /\ job' = [job EXCEPT ![t] = locals]
    /\ Goto(t, step)
    /\ UNCHANGED <<backend, db, wrote, fsm, told, restarts>>

Hold(t, cells, step) == Load(t, cells, job[t], step)

(* A flush waits for the locks of others.                                  *)
Flush(t, values, step) ==
    /\ MayWrite(t, DOMAIN values)
    /\ session' = [session EXCEPT ![t] = values @@ @]
    /\ wrote' = [wrote EXCEPT ![t] = @ \cup DOMAIN values]
    /\ Goto(t, step)
    /\ UNCHANGED <<backend, db, fsm, job, told, restarts>>

(* It writes the attributes that differ from what was loaded.              *)
Put(t, values, step) ==
    LET changed == {c \in DOMAIN values : Val(t, c) # values[c]}
    IN  IF changed = {} THEN Pass(t, step)
        ELSE Flush(t, Restrict(values, changed), step)

(* The database refuses a row that is there by now, and one that refers to *)
(* a row that is not.                                                      *)
Add(t, values, needs, step) ==
    \/ /\ MayWrite(t, DOMAIN values)
       /\ \/ \E c \in DOMAIN values : Of(db, Primary(c)) # None
          \/ \E c \in needs : Val(t, c) = None
       /\ Pass(t, "abort")
    \/ /\ \A c \in DOMAIN values : Of(db, Primary(c)) = None
       /\ \A c \in needs : Val(t, c) # None
       /\ Flush(t, values, step)

(* UPDATE or DELETE of a row that is gone by now: StaleDataError.          *)
Change(t, values, row, step) ==
    \/ /\ MayWrite(t, DOMAIN values) /\ Of(db, row) = None
       /\ Pass(t, "abort")
    \/ /\ Of(db, row) # None
       /\ Put(t, values, step)

Converse(t, conversation, step) ==
    /\ fsm' = conversation
    /\ Goto(t, step)
    /\ UNCHANGED <<backend, db, session, wrote, job, told, restarts>>

(* A setting: its row, or its default.                                     *)
On(rows, key) == IF Of(rows, <<"setting", key>>) = None THEN key \in OnByDefault
                 ELSE Of(rows, <<"setting", key>>) = "on"

(* An active entry of the blacklist.                                       *)
IsBlocked(rows, u) == \E e \in Tasks \cup {Earlier} : Of(rows, <<"entry", e>>) = u

Log(t) == at[t] = "log" /\ Flush(t, <<"log", t>> :> TRUE, "reply")

-----------------------------------------------------------------------------
(* What an update finds: a transaction of its own, and the FSM state that  *)
(* decides where it goes.                                                  *)
Receive(t) ==
    /\ at[t] = "idle"
    /\ Learn(t, [job[t] EXCEPT !.raw = fsm.state], "route")

(* The answer comes before the commit, and may fail.                       *)
Reply(t) ==
    /\ at[t] = "reply"
    /\ \/ told' = [told EXCEPT ![t] = job[t].out] /\ Goto(t, "commit")
       \/ Goto(t, "abort") /\ UNCHANGED told
    /\ UNCHANGED <<backend, db, session, wrote, fsm, job, restarts>>

Closed(t) ==
    /\ session' = [session EXCEPT ![t] = <<>>]
    /\ wrote' = [wrote EXCEPT ![t] = {}]

Commit(t) ==
    /\ at[t] = "commit"
    /\ db' = Written([c \in wrote[t] |-> session[t][c]] @@ db)
    /\ Closed(t)
    /\ Goto(t, "done")
    /\ UNCHANGED <<backend, fsm, job, told, restarts>>

(* Slip: the session is left as it is.                                     *)
RollbackOnly(t) ==
    /\ at[t] = "abort"
    /\ Goto(t, "failed")
    /\ UNCHANGED <<backend, db, session, wrote, fsm, job, told, restarts>>

(* Slip: a failed update goes back to the queue.                           *)
RollbackAndRetry(t) ==
    /\ at[t] = "abort"
    /\ Closed(t)
    /\ Goto(t, "idle")
    /\ UNCHANGED <<backend, db, fsm, job, told, restarts>>

(* ErrorHandlingMiddleware tells the user, if it can.                      *)
Rollback(t) ==
    /\ at[t] = "abort"
    /\ Closed(t)
    /\ Goto(t, "failed")
    /\ UNCHANGED <<backend, db, fsm, job, told, restarts>>

Kill ==
    /\ restarts > 0
    /\ restarts' = restarts - 1
    /\ session' = [t \in Tasks |-> <<>>]
    /\ wrote' = [t \in Tasks |-> {}]
    /\ fsm' = Cleared
    /\ \E again \in SUBSET {t \in Tasks : at[t] \notin {"idle", "unused"}
                                     /\ job[t].kind # "daily"} :
          /\ at' = [t \in Tasks |-> IF t \in again THEN "idle"
                                    ELSE IF Running(t) THEN "failed" ELSE at[t]]
          /\ job' = [t \in Tasks |-> IF t \in again
                                     THEN Asked(job[t].kind, job[t].by, job[t].arg)
                                     ELSE job[t]]
          /\ told' = [t \in Tasks |-> IF t \in again THEN None ELSE told[t]]
    /\ UNCHANGED <<backend, db>>

CoreInit(w) ==
    /\ backend \in w.backends
    /\ db = Written(w.rows)
    /\ fsm = w.chat
    /\ at = [t \in Tasks |-> IF t \in DOMAIN w.updates THEN "idle" ELSE "unused"]
    /\ job = [t \in Tasks |-> IF t \in DOMAIN w.updates THEN w.updates[t]
                              ELSE Asked("start", Admin, None)]
    /\ session = [t \in Tasks |-> <<>>]
    /\ wrote = [t \in Tasks |-> {}]
    /\ told = [t \in Tasks |-> None]
    /\ restarts = w.restarts

CoreTypeOK ==
    /\ backend \in {"sqlite", "postgresql"}
    /\ DOMAIN db \subseteq Cells
    /\ \A t \in Tasks : /\ wrote[t] \subseteq DOMAIN session[t]
                        /\ DOMAIN session[t] \subseteq Cells
    /\ fsm \in Conversations
    /\ \A t \in Tasks :
          /\ job[t].kind \in Kinds /\ job[t].by \in Users
          /\ job[t].raw \in FsmStates
          /\ job[t].missing \subseteq Targets
          /\ ~ Running(t) => session[t] = <<>> /\ wrote[t] = {}
    /\ restarts \in Nat
=============================================================================
