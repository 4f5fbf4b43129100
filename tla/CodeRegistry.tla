---------------------------- MODULE CodeRegistry ----------------------------
(***************************************************************************)
(* How movies get their codes: reservations, generated codes, imports, and *)
(* the conversations in which admins hand media over.                      *)
(*                                                                         *)
(* A task is one update from an admin: one coroutine, one transaction.  A  *)
(* conversation (an admin in a chat) has its FSM state in memory.  aiogram *)
(* reads that state when the update comes in, to choose the handler, and   *)
(* the handler runs after several awaits: IsAdminFilter asks the database  *)
(* once per router.  By then the state may be another one.                 *)
(*                                                                         *)
(* Codes are only taken here; MovieLookup has the edits that free them.    *)
(***************************************************************************)
EXTENDS Naturals, Sequences

CONSTANTS
    Tasks,        \* the updates
    Chats,        \* the conversations
    Groups,       \* those in a group: its media messages are captured
    Admins, AdminOf, \* who is talking in a conversation
    Codes, Files,
    Kinds,        \* the updates in use
    Asked,        \* the codes admins type
    Imports,      \* the code columns of files to import; None: a bad row
    Earlier,      \* a message captured before
    Openings,     \* what MemoryStorage may be found with
    Bookings,     \* what reserved_codes may be found with
    MaxAttempts,  \* _MAX_ATTEMPTS
    Backend,      \* "sqlite": one writer at a time; "postgresql": row locks
    None          \* no code, no file, no row, no task

FormSteps == {"media", "title", "year", "genre", "description"}
FsmStates == {"none", "code", "collecting"} \cup FormSteps

Conversations == [state : FsmStates, file : Files \cup {None}, titled : BOOLEAN,
                  from : Tasks \cup {Earlier, None}]
Reservations == [by : Admins, released : BOOLEAN]

ASSUME RegistryAssumption ==
    /\ Groups \subseteq Chats
    /\ AdminOf \in [Chats -> Admins]
    /\ Kinds \subseteq {"media", "text", "done", "open", "reserve", "release", "import"}
    /\ Asked \subseteq Codes
    /\ Imports \subseteq Seq(Codes \cup {None})
    /\ Openings \subseteq [Chats -> Conversations]
    /\ \A fs \in Openings : \A chat \in Chats :
          /\ fs[chat].from \in {Earlier, None}
          /\ \A other \in Chats : fs[chat].from = fs[other].from =>
                fs[chat].from = None \/ chat = other
    /\ Earlier \notin Tasks
    /\ Bookings \subseteq [Codes -> Reservations \cup {None}]
    /\ MaxAttempts \in Nat \ {0}
    /\ Backend \in {"sqlite", "postgresql"}

(* What a task is about.  raw: the FSM state its update was met with; from:*)
(* the message whose capture it took; rows: what is left of an import.     *)
Jobs == [kind : Kinds, chat : Chats, raw : FsmStates, code : Codes \cup {None},
         file : Files \cup {None}, from : Tasks \cup {Earlier, None},
         rows : Seq(Codes \cup {None}), tries : Nat, opens : FsmStates]
MovieRows == [file : Files, by : Tasks]
Drafts == [added : SUBSET Codes, freed : SUBSET Codes, booked : SUBSET Codes]

ASSUME RegistryNoneAssumption ==
    None \notin Codes \cup Files \cup Tasks \cup {Earlier} \cup Jobs \cup MovieRows \cup Reservations

Tables == {"movie", "reserved"} \X Codes

VARIABLES
    movie,     \* committed movies rows by code
    reserved,  \* committed reserved_codes rows by code
    holder,    \* the task whose uncommitted write locks a row or a key
    draft,     \* what each transaction wrote
    fsm,       \* MemoryStorage
    gen,       \* _generation_lock: the task that holds it
    at, job,   \* where each task is, and its locals
    told,      \* history: the codes a task has confirmed to its admin
    late       \* history: codes reserved after a creation had looked

vars == <<movie, reserved, holder, draft, fsm, gen, at, job, told, late>>

Ended == {"done", "failed"}
CreateSteps == {"checkReserved", "checkTaken", "draw", "probe", "insert", "free"}
Steps == {"idle", "route", "rows", "findTaken", "findReserved", "book", "log", "reply",
          "warn", "keep", "commit", "abort"} \cup CreateSteps \cup Ended

TypeOK ==
    /\ movie \in [Codes -> MovieRows \cup {None}]
    /\ reserved \in [Codes -> Reservations \cup {None}]
    /\ holder \in [Tables -> Tasks \cup {None}]
    /\ draft \in [Tasks -> Drafts]
    /\ fsm \in [Chats -> Conversations]
    /\ gen \in Tasks \cup {None}
    /\ at \in [Tasks -> Steps]
    /\ job \in [Tasks -> Jobs \cup {None}]
    /\ told \in [Tasks -> SUBSET Codes]
    /\ late \in SUBSET (Tasks \X Codes)

NoDraft == [added |-> {}, freed |-> {}, booked |-> {}]
Cleared == [state |-> "none", file |-> None, titled |-> FALSE, from |-> None]

Init ==
    /\ movie = [c \in Codes |-> None]
    /\ reserved \in Bookings
    /\ holder = [r \in Tables |-> None]
    /\ draft = [t \in Tasks |-> NoDraft]
    /\ fsm \in Openings
    /\ gen = None
    /\ at = [t \in Tasks |-> "idle"]
    /\ job = [t \in Tasks |-> None]
    /\ told = [t \in Tasks |-> {}]
    /\ late = {}

-----------------------------------------------------------------------------
(* Transactions.                                                           *)
LocksOf(table, c) == IF Backend = "sqlite" THEN Tables ELSE {<<table, c>>}
LocksOfInsert     == IF Backend = "sqlite" THEN Tables ELSE {}

MayLock(t, rows) == \A r \in rows : holder[r] \in {None, t}
Lock(t, rows)    == holder' = [r \in Tables |-> IF r \in rows THEN t ELSE holder[r]]

(* Slip: a transaction ends and keeps its locks.                           *)
StillHeld(t)     == holder

Released(t)      == [r \in Tables |-> IF holder[r] = t THEN None ELSE holder[r]]

Goto(t, step) == at' = [at EXCEPT ![t] = step]

(* What the session of t sees: committed rows and its own.                 *)
IsStored(t, c)   == movie[c] # None \/ c \in draft[t].added
IsReserved(t, c) == /\ reserved[c] # None /\ ~ reserved[c].released
                    /\ c \notin draft[t].freed
Admin(t)         == AdminOf[job[t].chat]

-----------------------------------------------------------------------------
(* An update comes in.  The text "/done" stands for those that are no code.*)
Receive(t, kind, chat, code, file, rows, opens) ==
    /\ at[t] = "idle" /\ kind \in Kinds
    /\ job' = [job EXCEPT ![t] =
          [kind |-> kind, chat |-> chat, raw |-> fsm[chat].state, code |-> code,
           file |-> file, from |-> None, rows |-> rows, tries |-> 0, opens |-> opens]]
    /\ Goto(t, "route")
    /\ UNCHANGED <<movie, reserved, holder, draft, fsm, gen, told, late>>

ReceiveAny(t, chat) ==
    \/ \E f \in Files : Receive(t, "media", chat, None, f, <<>>, "none")
    \/ \E c \in Asked : Receive(t, "text", chat, c, None, <<>>, "none")
    \/ Receive(t, "done", chat, None, None, <<>>, "none")
    \/ \E s \in {"media", "collecting"} : Receive(t, "open", chat, None, None, <<>>, s)
    \/ \E k \in {"reserve", "release"}, c \in Asked : Receive(t, k, chat, c, None, <<>>, "none")
    \/ \E rows \in Imports, f \in Files : Receive(t, "import", chat, None, f, rows, "none")

(* ThrottlingMiddleware may refuse any message; a button it never sees.    *)
Throttle(t) ==
    /\ at[t] = "route" /\ job[t].kind # "open"
    /\ Goto(t, "failed")
    /\ UNCHANGED <<movie, reserved, holder, draft, fsm, gen, job, told, late>>

(* Routing.  Commands come first, then the capture, which takes every      *)
(* media message of a group; the rest goes by the state met on arrival.    *)
IsMessage(t)      == job[t].kind \in {"media", "text", "done"}
IsText(t)         == job[t].kind \in {"text", "done"}
ToCapture(t)      == at[t] = "route" /\ job[t].kind = "media" /\ job[t].chat \in Groups
ToStateOf(t, raw) == /\ at[t] = "route" /\ IsMessage(t) /\ job[t].raw = raw
                     /\ ~ ToCapture(t)

(* Between flows a message is a viewer's: MovieLookup has those.           *)
Ignore(t) ==
    /\ ToStateOf(t, "none")
    /\ Goto(t, "done")
    /\ UNCHANGED <<movie, reserved, holder, draft, fsm, gen, job, told, late>>

-----------------------------------------------------------------------------
(* The media queue.                                                        *)
SetFsm(t, conversation) == fsm' = [fsm EXCEPT ![job[t].chat] = conversation]

Captured(t) == [fsm[job[t].chat] EXCEPT !.state = "code", !.file = job[t].file, !.from = t]

(* Slip: the state met on arrival decides whether the chat is free.        *)
CaptureMediaByRaw(t) ==
    /\ ToCapture(t)
    /\ \/ /\ job[t].raw # "none"
          /\ Goto(t, "done")
          /\ UNCHANGED fsm
       \/ /\ job[t].raw = "none"
          /\ SetFsm(t, Captured(t))
          /\ Goto(t, "reply")
    /\ UNCHANGED <<movie, reserved, holder, draft, gen, job, told, late>>

(* After the filters' awaits the state is asked for again; from there to   *)
(* set_state nothing suspends.                                             *)
CaptureMedia(t) ==
    /\ ToCapture(t)
    /\ LET chat == job[t].chat IN
       \/ /\ fsm[chat].state # "none"
          /\ Goto(t, "done")
          /\ UNCHANGED fsm
       \/ /\ fsm[chat].state = "none"
          /\ SetFsm(t, Captured(t))
          /\ Goto(t, "reply")
    /\ UNCHANGED <<movie, reserved, holder, draft, gen, job, told, late>>

(* Slip: the state is cleared only once the movie is there.                *)
ReceiveCodeKeeping(t) ==
    /\ ToStateOf(t, "code") /\ IsText(t)
    /\ job' = [job EXCEPT ![t].file = fsm[job[t].chat].file, ![t].from = fsm[job[t].chat].from]
    /\ Goto(t, IF job[t].code = None \/ fsm[job[t].chat].file = None
               THEN "abort" ELSE "checkReserved")
    /\ UNCHANGED <<movie, reserved, holder, draft, fsm, gen, told, late>>

(* get_data and clear, with nothing in between; a text that is no code and *)
(* data without a file (another message took it) raise after that.         *)
ReceiveCode(t) ==
    /\ ToStateOf(t, "code") /\ IsText(t)
    /\ job' = [job EXCEPT ![t].file = fsm[job[t].chat].file, ![t].from = fsm[job[t].chat].from]
    /\ SetFsm(t, Cleared)
    /\ Goto(t, IF job[t].code = None \/ fsm[job[t].chat].file = None
               THEN "abort" ELSE "checkReserved")
    /\ UNCHANGED <<movie, reserved, holder, draft, gen, told, late>>

-----------------------------------------------------------------------------
(* The add-movie form and the bulk upload.                                 *)
OpenFlow(t) ==
    /\ at[t] = "route" /\ job[t].kind = "open"
    /\ fsm' = [fsm EXCEPT ![job[t].chat].state = job[t].opens]
    /\ Goto(t, "reply")
    /\ UNCHANGED <<movie, reserved, holder, draft, gen, job, told, late>>

IsDuplicate(f) == \E c \in Codes : movie[c] # None /\ movie[c].file = f

ReceiveMedia(t) ==
    /\ ToStateOf(t, "media")
    /\ \/ /\ IsText(t)
          /\ Goto(t, "reply")
       \/ /\ ~ IsText(t) /\ IsDuplicate(job[t].file)
          /\ Goto(t, "warn")
       \/ /\ ~ IsText(t) /\ ~ IsDuplicate(job[t].file)
          /\ Goto(t, "keep")
    /\ UNCHANGED <<movie, reserved, holder, draft, fsm, gen, job, told, late>>

(* Whatever has become of the conversation since the SELECT.               *)
KeepMedia(t) ==
    /\ at[t] = "keep"
    /\ fsm' = [fsm EXCEPT ![job[t].chat].file = job[t].file,
                          ![job[t].chat].state = "title"]
    /\ Goto(t, "reply")
    /\ UNCHANGED <<movie, reserved, holder, draft, gen, job, told, late>>

(* The state is cleared after the warning has been sent.                   *)
Warn(t) ==
    /\ at[t] = "warn"
    /\ \/ SetFsm(t, Cleared) /\ Goto(t, "commit")
       \/ Goto(t, "abort") /\ UNCHANGED fsm
    /\ UNCHANGED <<movie, reserved, holder, draft, gen, job, told, late>>

(* A title must be text, and a good one; year and genre take anything.     *)
ReceiveTitle(t) ==
    /\ ToStateOf(t, "title")
    /\ \/ /\ IsText(t)
          /\ fsm' = [fsm EXCEPT ![job[t].chat].titled = TRUE, ![job[t].chat].state = "year"]
          /\ Goto(t, "reply")
       \/ /\ IsText(t)
          /\ Goto(t, "abort")
          /\ UNCHANGED fsm
       \/ /\ ~ IsText(t)
          /\ Goto(t, "reply")
          /\ UNCHANGED fsm
    /\ UNCHANGED <<movie, reserved, holder, draft, gen, job, told, late>>

FieldAfter == [year |-> "genre", genre |-> "description"]

ReceiveYearOrGenre(t) ==
    /\ \E raw \in DOMAIN FieldAfter :
          /\ ToStateOf(t, raw)
          /\ fsm' = [fsm EXCEPT ![job[t].chat].state = FieldAfter[raw]]
    /\ Goto(t, "reply")
    /\ UNCHANGED <<movie, reserved, holder, draft, gen, job, told, late>>

ReceiveDescription(t) ==
    /\ ToStateOf(t, "description")
    /\ LET data == fsm[job[t].chat] IN
       /\ job' = [job EXCEPT ![t].file = data.file, ![t].from = data.from]
       /\ Goto(t, IF data.titled /\ data.file # None THEN "draw" ELSE "abort")
    /\ SetFsm(t, Cleared)
    /\ UNCHANGED <<movie, reserved, holder, draft, gen, told, late>>

CollectBulkMedia(t) ==
    /\ ToStateOf(t, "collecting") /\ job[t].kind # "done"
    /\ Goto(t, IF IsText(t) \/ IsDuplicate(job[t].file) THEN "reply" ELSE "draw")
    /\ UNCHANGED <<movie, reserved, holder, draft, fsm, gen, job, told, late>>

FinishBulkUpload(t) ==
    /\ ToStateOf(t, "collecting") /\ job[t].kind = "done"
    /\ SetFsm(t, Cleared)
    /\ Goto(t, "reply")
    /\ UNCHANGED <<movie, reserved, holder, draft, gen, job, told, late>>

-----------------------------------------------------------------------------
(* create_movie.  A code that was asked for is checked against other       *)
(* admins' reservations and the catalogue; a generated one against the     *)
(* catalogue only, under a lock that is let go before the INSERT.          *)
IsImport(t)    == job[t].kind = "import"
IsGenerated(t) == job[t].kind # "import" /\ job[t].raw \in {"description", "collecting"}

AfterRefusal(t) == IF IsImport(t) THEN "rows" ELSE "reply"
AfterCreate(t)  == IF IsImport(t) THEN "rows" ELSE "log"

(* Slip: a reservation keeps its owner out.                                *)
OwnReserved(t, c) == IsReserved(t, c) /\ reserved[c].by = Admin(t)

OthersReserved(t, c) == IsReserved(t, c) /\ reserved[c].by # Admin(t)

CheckReserved(t) ==
    /\ at[t] = "checkReserved"
    /\ Goto(t, IF OthersReserved(t, job[t].code) THEN AfterRefusal(t) ELSE "checkTaken")
    /\ UNCHANGED <<movie, reserved, holder, draft, fsm, gen, job, told, late>>

CheckTaken(t) ==
    /\ at[t] = "checkTaken"
    /\ Goto(t, IF IsStored(t, job[t].code) THEN AfterRefusal(t) ELSE "insert")
    /\ UNCHANGED <<movie, reserved, holder, draft, fsm, gen, job, told, late>>

Draw(t) ==
    /\ at[t] = "draw"
    /\ gen = None
    /\ gen' = t
    /\ Goto(t, "probe")
    /\ UNCHANGED <<movie, reserved, holder, draft, fsm, job, told, late>>

Probe(t) ==
    /\ at[t] = "probe"
    /\ \E c \in Codes :
       \/ /\ ~ IsStored(t, c)
          /\ job' = [job EXCEPT ![t].code = c]
          /\ gen' = None
          /\ Goto(t, "insert")
       \/ /\ IsStored(t, c) /\ job[t].tries + 1 < MaxAttempts
          /\ job' = [job EXCEPT ![t].tries = @ + 1]
          /\ UNCHANGED <<gen, at>>
       \/ /\ IsStored(t, c) /\ job[t].tries + 1 = MaxAttempts
          /\ gen' = None
          /\ Goto(t, "abort")
          /\ UNCHANGED job
    /\ UNCHANGED <<movie, reserved, holder, draft, fsm, told, late>>

(* The unique index makes the INSERT wait for an uncommitted one of the    *)
(* same code, and fail for a committed one (IntegrityError, which no       *)
(* handler expects).                                                       *)
Insert(t) ==
    /\ at[t] = "insert"
    /\ LET c == job[t].code IN
       /\ MayLock(t, LocksOf("movie", c))
       /\ \/ /\ movie[c] # None
             /\ Goto(t, "abort")
             /\ UNCHANGED <<holder, draft>>
          \/ /\ movie[c] = None
             /\ Lock(t, LocksOf("movie", c))
             /\ draft' = [draft EXCEPT ![t].added = @ \cup {c}]
             /\ Goto(t, "free")
    /\ UNCHANGED <<movie, reserved, fsm, gen, job, told, late>>

(* release_reservation: whoever made the reservation.                      *)
FreeLocks(t) == IF IsReserved(t, job[t].code) THEN LocksOf("reserved", job[t].code) ELSE {}

Free(t) ==
    /\ at[t] = "free"
    /\ MayLock(t, FreeLocks(t))
    /\ Lock(t, FreeLocks(t))
    /\ draft' = IF IsReserved(t, job[t].code)
                THEN [draft EXCEPT ![t].freed = @ \cup {job[t].code}] ELSE draft
    /\ Goto(t, AfterCreate(t))
    /\ UNCHANGED <<movie, reserved, fsm, gen, job, told, late>>

-----------------------------------------------------------------------------
(* The commands.                                                           *)
Command(t) ==
    /\ at[t] = "route"
    /\ \/ job[t].kind = "reserve" /\ Goto(t, "findTaken")
       \/ job[t].kind = "release" /\ Goto(t, "free")
       \/ job[t].kind = "import"  /\ Goto(t, "rows")
    /\ UNCHANGED <<movie, reserved, holder, draft, fsm, gen, job, told, late>>

FindTaken(t) ==
    /\ at[t] = "findTaken"
    /\ Goto(t, IF IsStored(t, job[t].code) THEN "reply" ELSE "findReserved")
    /\ UNCHANGED <<movie, reserved, holder, draft, fsm, gen, job, told, late>>

(* A reservation of one's own is returned as it is, and logged again.      *)
FindReserved(t) ==
    /\ at[t] = "findReserved"
    /\ Goto(t, IF OthersReserved(t, job[t].code) THEN "reply"
               ELSE IF IsReserved(t, job[t].code) THEN "log" ELSE "book")
    /\ UNCHANGED <<movie, reserved, holder, draft, fsm, gen, job, told, late>>

(* A released row stays and keeps its code: the INSERT fails.              *)
Book(t) ==
    /\ at[t] = "book"
    /\ LET c == job[t].code IN
       /\ MayLock(t, LocksOf("reserved", c))
       /\ \/ /\ reserved[c] # None
             /\ Goto(t, "abort")
             /\ UNCHANGED <<holder, draft>>
          \/ /\ reserved[c] = None
             /\ Lock(t, LocksOf("reserved", c))
             /\ draft' = [draft EXCEPT ![t].booked = {c}]
             /\ Goto(t, "log")
    /\ UNCHANGED <<movie, reserved, fsm, gen, job, told, late>>

(* A malformed value (a year that is no number) raises out of the import;  *)
(* incomplete rows are skipped and left out here.                          *)
NextRow(t) ==
    /\ at[t] = "rows"
    /\ LET rows == job[t].rows IN
       \/ /\ rows = <<>>
          /\ Goto(t, "log")
          /\ UNCHANGED job
       \/ /\ rows # <<>>
          /\ job' = [job EXCEPT ![t].code = Head(rows), ![t].rows = Tail(rows)]
          /\ Goto(t, IF Head(rows) = None THEN "abort" ELSE "checkReserved")
    /\ UNCHANGED <<movie, reserved, holder, draft, fsm, gen, told, late>>

-----------------------------------------------------------------------------
(* The end of every handler.                                               *)
Log(t) ==
    /\ at[t] = "log"
    /\ MayLock(t, LocksOfInsert)
    /\ Lock(t, LocksOfInsert)
    /\ Goto(t, "reply")
    /\ UNCHANGED <<movie, reserved, draft, fsm, gen, job, told, late>>

(* Slip: the code that was refused is confirmed too.                       *)
ConfirmedRefused(t) == draft[t].added \cup ({job[t].code} \ {None})

Confirmed(t) == draft[t].added

Reply(t) ==
    /\ at[t] = "reply"
    /\ \/ Goto(t, "commit") /\ told' = [told EXCEPT ![t] = Confirmed(t)]
       \/ Goto(t, "abort")  /\ UNCHANGED told
    /\ UNCHANGED <<movie, reserved, holder, draft, fsm, gen, job, late>>

(* Slip: the chat is taken for the admin.                                  *)
ReservationOfChat(t) == [by |-> job[t].chat, released |-> FALSE]

ReservationOf(t) == [by |-> Admin(t), released |-> FALSE]

HasLooked(t, c) == job[t] # None /\ job[t].code = c /\ at[t] \in {"checkTaken", "insert", "free"}

EndTransaction(t, step) ==
    /\ draft' = [draft EXCEPT ![t] = NoDraft]
    /\ holder' = Released(t)
    /\ Goto(t, step)

Commit(t) ==
    /\ at[t] = "commit"
    /\ movie' = [c \in Codes |-> IF c \in draft[t].added
                                 THEN [file |-> job[t].file, by |-> t] ELSE movie[c]]
    /\ reserved' = [c \in Codes |->
          IF c \in draft[t].booked THEN ReservationOf(t)
          ELSE IF c \in draft[t].freed THEN [reserved[c] EXCEPT !.released = TRUE]
          ELSE reserved[c]]
    /\ late' = late \cup {x \in Tasks \X draft[t].booked : HasLooked(x[1], x[2])}
    /\ EndTransaction(t, "done")
    /\ UNCHANGED <<fsm, gen, job, told>>

(* session_scope rolls back; ErrorHandlingMiddleware answers afterwards.   *)
Rollback(t) ==
    /\ at[t] = "abort"
    /\ EndTransaction(t, "failed")
    /\ UNCHANGED <<movie, reserved, fsm, gen, job, told, late>>

(* SQLite's busy_timeout, PostgreSQL's deadlock detection.                 *)
Wanted(t) ==
    CASE at[t] = "insert" -> LocksOf("movie", job[t].code)
      [] at[t] = "free"   -> FreeLocks(t)
      [] at[t] = "book"   -> LocksOf("reserved", job[t].code)
      [] at[t] = "log"    -> LocksOfInsert
      [] OTHER            -> {}

WaitsFor(t, u) == u # t /\ \E r \in Wanted(t) : holder[r] = u
Deadlocked(t)  == \E S \in SUBSET Tasks :
                     t \in S /\ \A x \in S : \E y \in S : WaitsFor(x, y)

LockTimeout(t) ==
    /\ IF Backend = "sqlite" THEN ~ MayLock(t, Wanted(t)) ELSE Deadlocked(t)
    /\ EndTransaction(t, "failed")
    /\ UNCHANGED <<movie, reserved, fsm, gen, job, told, late>>

(* The process dies and starts again: MemoryStorage and the lock are new.  *)
Restart ==
    /\ \E t \in Tasks : at[t] \notin Ended \cup {"idle"}
    /\ at' = [t \in Tasks |-> IF at[t] \in Ended \cup {"idle"} THEN at[t] ELSE "failed"]
    /\ draft' = [t \in Tasks |-> NoDraft]
    /\ holder' = [r \in Tables |-> None]
    /\ fsm' = [chat \in Chats |-> Cleared]
    /\ gen' = None
    /\ UNCHANGED <<movie, reserved, job, told, late>>

AllOver == (\A t \in Tasks : at[t] \in Ended) /\ UNCHANGED vars

CreateStep(t) ==
    CheckReserved(t) \/ CheckTaken(t) \/ Draw(t) \/ Probe(t) \/ Insert(t) \/ Free(t)

HandlerStep(t) ==
    \/ Throttle(t) \/ Ignore(t) \/ CaptureMedia(t) \/ ReceiveCode(t) \/ OpenFlow(t)
    \/ ReceiveMedia(t) \/ Warn(t) \/ KeepMedia(t) \/ ReceiveTitle(t)
    \/ ReceiveYearOrGenre(t) \/ ReceiveDescription(t) \/ CollectBulkMedia(t)
    \/ FinishBulkUpload(t) \/ Command(t)
    \/ FindTaken(t) \/ FindReserved(t) \/ Book(t) \/ NextRow(t)

TaskStep(t) ==
    CreateStep(t) \/ HandlerStep(t) \/ Log(t) \/ Reply(t) \/ Commit(t) \/ Rollback(t)
    \/ LockTimeout(t)

Next ==
    \/ \E t \in Tasks, chat \in Chats : ReceiveAny(t, chat)
    \/ \E t \in Tasks : TaskStep(t)
    \/ Restart
    \/ AllOver

Spec == Init /\ [][Next]_vars

(* The event loop runs every task that can run; answers from Telegram and  *)
(* the database come or time out.                                          *)
FairSpec == Spec /\ \A t \in Tasks : WF_vars(TaskStep(t))

-----------------------------------------------------------------------------
(* A reservation ends by the release command, by its owner's own creation, *)
(* by a code generated without looking at reservations, or by a creation   *)
(* that had looked before the reservation was committed; never by another  *)
(* admin's creation that could have seen it (movie_service.py:82-94,       *)
(* 174-176, 299-304).                                                      *)
Holds(c) == reserved[c] # None /\ ~ reserved[c].released

ReservationsRespected ==
    [][ \A c \in Codes, t \in Tasks :
          (Holds(c) /\ ~ Holds(c)' /\ at[t] = "commit" /\ at'[t] = "done")
          => \/ job[t].kind = "release"
             \/ Admin(t) = reserved[c].by
             \/ IsGenerated(t)
             \/ <<t, c>> \in late ]_vars

(* What an admin dropped into a group is not replaced by the next message  *)
(* of the same album, or of anybody's, while its code is awaited           *)
(* (media_queue.py:64-65).                                                 *)
CaptureNotReplaced ==
    [][ \A chat \in Chats :
          (fsm[chat].state = "code" /\ fsm'[chat].from # fsm[chat].from)
          => fsm'[chat].from = None ]_vars

(* One capture becomes at most one movie, although two texts may both have *)
(* been met with the state that awaits a code (media_queue.py:94-95).      *)
CaptureUsedOnce ==
    \A t, u \in Tasks :
        (t # u /\ job[t] # None /\ job[u] # None /\ job[t].from # None)
        => job[t].from # job[u].from

(* The catalogue agrees with what admins were told: a task that ends well  *)
(* has stored the codes it confirmed and no others, and one that fails has *)
(* stored nothing, whichever row of an import failed                       *)
(* (movie_service.py:174-177, 534-556, session.py:31-39).                  *)
StoredBy(t) == {c \in Codes : movie[c] # None /\ movie[c].by = t}

ToldIffStored ==
    \A t \in Tasks : StoredBy(t) = IF at[t] = "done" THEN told[t] ELSE {}

(* Every update ends: no lock is left behind, and imports that wait for    *)
(* each other's codes are told apart by the database.                      *)
TasksFinish == \A t \in Tasks : (at[t] # "idle") ~> (at[t] \in Ended)
=============================================================================
