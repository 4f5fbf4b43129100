------------------------------ MODULE Backups ------------------------------
(***************************************************************************)
(* Backups: copies of the SQLite file, made while the bot works on it.     *)
(* The database is in WAL mode: what is committed goes to the log, and     *)
(* reaches the file when the last connection is closed, or at a commit     *)
(* that finds the log long enough.  The copy is of the file alone.         *)
(***************************************************************************)
EXTENDS Updates, FiniteSetsExt

CONSTANT Keep   \* _MAX_BACKUPS_TO_KEEP

ASSUME KeepAssumption == Keep \in Nat \ {0}

VARIABLES
    main,      \* the database file
    recent,    \* history: cells written since the last time the bot was idle
    copies     \* backups by number: what was read first and last

storage == <<main, recent>>

Newest(n, names) == {x \in names : Cardinality({y \in names : y > x}) < n}

Copying(t) == at[t] = "copying"

-----------------------------------------------------------------------------
(* Who has a connection open, before and after a step.  IsAdminFilter asks *)
(* the database for the role of everybody but the owner before a handler   *)
(* is found; the owner's needs no query, and these handlers make none.     *)
QueryLess == {"add", "compose", "cancel", "editSetting", "backup", "daily"}
Connected ==
    {t \in Tasks : /\ Running(t) /\ job[t].kind \notin QueryLess
                   /\ at[t] = "route" => job[t].by # Admin}

(* The file is followed where a backup is to come.                         *)
Followed == backend = "sqlite" /\ \E t \in Tasks : job[t].kind \in {"backup", "daily"}

Differ(rows, others) ==
    {c \in DOMAIN rows \cup DOMAIN others : Of(rows, c) # Of(others, c)}

Changed == Differ(db, db')
LastIsClosed == Connected # {} /\ Connected' = {}
Unsettled == IF LastIsClosed /\ ~ (\E t \in Tasks : Copying(t)') THEN {}
             ELSE recent \cup Changed

(* Slip: connections go back to a pool and stay open.                      *)
CheckpointPooled ==
    /\ main' \in IF Followed /\ Changed # {} THEN {main, db'} ELSE {main}
    /\ recent' = IF ~ Followed THEN recent ELSE Unsettled

Checkpoint ==
    /\ main' \in IF ~ Followed THEN {main} ELSE IF LastIsClosed THEN {db'}
                  ELSE IF Changed # {} THEN {main, db'} ELSE {main}
    /\ recent' = IF ~ Followed THEN recent ELSE Unsettled

-----------------------------------------------------------------------------
(* shutil.copy2: the file is read while it may be written.                 *)
BeginCopy(t) ==
    /\ at[t] = "route" /\ job[t].kind \in {"backup", "daily"} /\ backend = "sqlite"
    /\ LET name == Max(DOMAIN copies \cup {0}) + 1
       IN  /\ copies' = (name :> [whole |-> FALSE, first |-> main, last |-> main,
                                  committed |-> db, unsure |-> {}]) @@ copies
           /\ Learn(t, [job[t] EXCEPT !.value = name], "copying")

EndCopy(t) ==
    /\ Copying(t)
    /\ copies' = IF job[t].value \notin DOMAIN copies THEN copies
                 ELSE [copies EXCEPT ![job[t].value] =
                          [@ EXCEPT !.whole = TRUE, !.last = main, !.committed = db,
                                    !.unsure = recent]]
    /\ Pass(t, IF job[t].kind = "daily" THEN "prune" ELSE "reply")

Prune(t) ==
    /\ at[t] = "prune"
    /\ copies' = Restrict(copies, Newest(Keep, DOMAIN copies))
    /\ Pass(t, "done")

(* PostgreSQL: the handler says so, the job logs it.                       *)
NoFile(t) ==
    /\ at[t] = "route" /\ job[t].kind \in {"backup", "daily"} /\ backend # "sqlite"
    /\ Pass(t, IF job[t].kind = "daily" THEN "done" ELSE "reply")
    /\ UNCHANGED copies

BackupsStep(t) == BeginCopy(t) \/ EndCopy(t) \/ Prune(t) \/ NoFile(t)

BackupsInit ==
    /\ main = IF Followed THEN db ELSE <<>>
    /\ recent = {}
    /\ copies = <<>>
=============================================================================
