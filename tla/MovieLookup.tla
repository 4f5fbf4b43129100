---------------------------- MODULE MovieLookup -----------------------------
(***************************************************************************)
(* Delivering a movie by its code while admins edit the catalogue.         *)
(*                                                                         *)
(* Every update is one asyncio task with one database session and one      *)
(* transaction (DatabaseMiddleware, session_scope); tasks interleave at    *)
(* their awaits.  All of them share the process-wide _movie_code_cache,    *)
(* which stores the ORM instance the loading session produced.  So what a  *)
(* cached entry means depends on what becomes of that session: while it is *)
(* open the instance writes through it, after its commit the instance is a *)
(* detached snapshot, after its rollback it is expired and unreadable.     *)
(*                                                                         *)
(* A viewer handles one code request, an editor one catalogue edit.  An    *)
(* instance is named by the viewer whose session loaded it.                *)
(***************************************************************************)
EXTENDS Integers, FiniteSets

CONSTANTS
    Viewers,     \* tasks that ask for a movie
    Editors,     \* tasks that edit one
    Registered,  \* the viewers that have a row in users
    Admins,      \* the viewers that are active admins
    Banned,      \* the viewers whose users row has is_banned or is_muted
    Premium,     \* the viewers whose users row has is_premium
    Movies, Codes,
    Rules,       \* the members of MovieVisibility in use
    EditKinds,   \* the admin edits in use
    Backend,     \* "sqlite": one writer at a time; "postgresql": row locks
    TTL, MaxSize,
    FillDelay,   \* most time between reading a row and caching it
    MaxTime,     \* bound on the clock
    None         \* no task, no code, no instance, no row

Tasks == Viewers \cup Editors

ASSUME LookupAssumption ==
    /\ IsFiniteSet(Codes)
    /\ TTL \in Nat /\ MaxSize \in Nat \ {0} /\ FillDelay \in Nat /\ MaxTime \in Nat
    /\ Backend \in {"sqlite", "postgresql"}
    /\ Viewers \cap Editors = {}
    /\ Registered \cup Admins \subseteq Viewers
    /\ Banned \cup Premium \subseteq Registered
    /\ Rules \subseteq {"public", "vip", "hidden", "premium",
                        "admin_only", "subscriber_only", "referral_only"}
    /\ EditKinds \subseteq {"caption", "visibility", "active", "code", "delete"}

(* No value stands for its own absence.                                    *)
Rows == [code : Codes, rule : Rules, active : BOOLEAN, views : Nat]
Instances == [movie : Movies, rule : Rules, views : Nat, dirty : BOOLEAN,
              state : {"attached", "detached", "expired"},
              readAt : Nat, staleAt : Nat \cup {-1}, expiredAt : Nat \cup {-1}]
Requests == [code : Codes, button : BOOLEAN]
Edits == [movie : Movies, kind : EditKinds, to : Codes \cup Rules \cup {None}, seen : Rows]

ASSUME NoneAssumption ==
    None \notin Tasks \cup Rows \cup Instances \cup Requests \cup Edits
                \cup [expires : Nat, val : Viewers]

Code == INSTANCE CacheStore WITH Keys <- Codes, Vals <- Viewers, NoEntry <- None

VARIABLES
    row,     \* committed movies rows; None once deleted
    owner,   \* the task whose uncommitted write locks the row
    cache,   \* _movie_code_cache
    clock,   \* time.monotonic()
    at,      \* where each task is
    req,     \* what each viewer asked for
    obj,     \* the instance each viewer's session loaded
    using,   \* the instance each viewer works with: its own or another's
    edit,    \* the edit each editor performs
    sent,    \* history: the viewers whose movie Telegram accepted
    withdrawn \* history: the cached copies an edit was to remove

vars == <<row, owner, cache, clock, at, req, obj, using, edit, sent, withdrawn>>

ViewerSteps == {"idle", "count", "gate", "lookup", "read", "fill", "check", "logHit",
                "logMiss", "send", "register", "record"}
EndSteps == {"reply", "commit", "abort", "done", "failed"}

TypeOK ==
    /\ row \in [Movies -> Rows \cup {None}]
    /\ owner \in [Movies -> Tasks \cup {None}]
    /\ cache \in Code!Caches
    /\ clock \in Nat
    /\ at \in [Tasks -> ViewerSteps \cup {"write"} \cup EndSteps]
    /\ req \in [Viewers -> Requests \cup {None}]
    /\ obj \in [Viewers -> Instances \cup {None}]
    /\ using \in [Viewers -> Viewers \cup {None}]
    /\ edit \in [Editors -> Edits \cup {None}]
    /\ sent \in SUBSET Viewers
    /\ withdrawn \in SUBSET Viewers

Init ==
    /\ row \in [Movies -> [code : Codes, rule : Rules, active : {TRUE}, views : {0}]]
    /\ \A m, n \in Movies : row[m].code = row[n].code => m = n
    /\ owner = [m \in Movies |-> None]
    /\ cache = Code!EmptyCache
    /\ clock = 0
    /\ at = [t \in Tasks |-> "idle"]
    /\ req = [t \in Viewers |-> None]
    /\ obj = [t \in Viewers |-> None]
    /\ using = [t \in Viewers |-> None]
    /\ edit = [e \in Editors |-> None]
    /\ sent = {}
    /\ withdrawn = {}

-----------------------------------------------------------------------------
(* Transactions.  SQLite admits one writer: the first INSERT, UPDATE or    *)
(* DELETE of a transaction locks the database until it ends, which is to   *)
(* say every row.  PostgreSQL locks the rows that are updated.             *)
LocksOf(m)  == IF Backend = "sqlite" THEN Movies ELSE {m}
LocksOfInsert == IF Backend = "sqlite" THEN Movies ELSE {}

MayLock(t, rows) == \A m \in rows : owner[m] \in {None, t}
Lock(t, rows)    == owner' = [m \in Movies |-> IF m \in rows THEN t ELSE owner[m]]

(* Slip: a transaction ends and keeps its locks.                           *)
KeepLocks(t)     == UNCHANGED owner

ReleaseLocks(t)  == owner' = [m \in Movies |-> IF owner[m] = t THEN None ELSE owner[m]]

Goto(t, step) == at' = [at EXCEPT ![t] = step]

(* Any flush also writes the viewer's own instance if somebody changed it; *)
(* the UPDATE of a row deleted meanwhile matches none: StaleDataError.     *)
IsDirty(t)      == obj[t] # None /\ obj[t].dirty
FlushLocks(t)   == IF IsDirty(t) THEN LocksOf(obj[t].movie) ELSE {}
FlushFails(t)   == IsDirty(t) /\ row[obj[t].movie] = None

-----------------------------------------------------------------------------
(* Viewers.                                                                *)

(* UserActivityMiddleware sits on the update observer and asks the Update  *)
(* for from_user.  An Update has none, so nothing is injected and every    *)
(* handler runs with db_user = None.                                       *)
InjectedUser(t) == None

Receive(t, c, button) ==
    /\ at[t] = "idle"
    /\ req' = [req EXCEPT ![t] = [code |-> c, button |-> button]]
    /\ Goto(t, IF button THEN "gate" ELSE "count")
    /\ UNCHANGED <<row, owner, cache, clock, obj, using, edit, sent, withdrawn>>

(* The plain-text path: assert_not_restricted if db_user is known, then    *)
(* increment_search_count, which updates the users row if there is one.    *)
CountLocks(t) == IF t \in Registered THEN LocksOfInsert ELSE {}

CountSearch(t) ==
    /\ at[t] = "count"
    /\ MayLock(t, CountLocks(t))
    /\ Lock(t, CountLocks(t))
    /\ Goto(t, IF InjectedUser(t) \in Banned THEN "abort" ELSE "gate")
    /\ UNCHANGED <<row, cache, clock, req, obj, using, edit, sent, withdrawn>>

(* The force-subscribe gate: Telegram says whether it opens.               *)
Gate(t) ==
    /\ at[t] = "gate"
    /\ \E step \in {"lookup", "reply"} : Goto(t, step)
    /\ UNCHANGED <<row, owner, cache, clock, req, obj, using, edit, sent, withdrawn>>

(* Slip: every hit renews the entry.                                       *)
LookupRenewing(t) ==
    /\ at[t] = "lookup"
    /\ LET c == req[t].code IN
       \/ /\ Code!IsHit(cache, c, clock)
          /\ using' = [using EXCEPT ![t] = cache.entry[c].val]
          /\ cache' = Code!AfterSet(cache, c, cache.entry[c].val, clock)
          /\ Goto(t, "check")
       \/ /\ ~ Code!IsHit(cache, c, clock)
          /\ cache' = Code!AfterGet(cache, c, clock)
          /\ Goto(t, "read")
          /\ UNCHANGED using
    /\ UNCHANGED <<row, owner, clock, req, obj, edit, sent, withdrawn>>

Lookup(t) ==
    /\ at[t] = "lookup"
    /\ LET c == req[t].code IN
       \/ /\ Code!IsHit(cache, c, clock)
          /\ using' = [using EXCEPT ![t] = cache.entry[c].val]
          /\ Goto(t, "check")
          /\ UNCHANGED cache
       \/ /\ ~ Code!IsHit(cache, c, clock)
          /\ cache' = Code!AfterGet(cache, c, clock)
          /\ Goto(t, "read")
          /\ UNCHANGED using
    /\ UNCHANGED <<row, owner, clock, req, obj, edit, sent, withdrawn>>

(* The SELECT sees committed rows: a viewer has no movie write of its own. *)
IsActiveAt(m, c) == row[m] # None /\ row[m].code = c /\ row[m].active

ReadRow(t) ==
    /\ at[t] = "read"
    /\ \/ \E m \in Movies :
             /\ IsActiveAt(m, req[t].code)
             /\ obj' = [obj EXCEPT ![t] =
                   [movie |-> m, rule |-> row[m].rule, views |-> row[m].views,
                    dirty |-> FALSE, state |-> "attached",
                    readAt |-> clock, staleAt |-> -1, expiredAt |-> -1]]
             /\ Goto(t, "fill")
       \/ /\ \A m \in Movies : ~ IsActiveAt(m, req[t].code)
          /\ Goto(t, "logMiss")
          /\ UNCHANGED obj
    /\ UNCHANGED <<row, owner, cache, clock, req, using, edit, sent, withdrawn>>

Fill(t) ==
    /\ at[t] = "fill"
    /\ cache' = Code!AfterSet(cache, req[t].code, t, clock)
    /\ using' = [using EXCEPT ![t] = t]
    /\ Goto(t, "check")
    /\ UNCHANGED <<row, owner, clock, req, obj, edit, sent, withdrawn>>

(* assert_visible_to; is_premium is read off db_user, and the gate has     *)
(* been passed, so is_subscribed holds.  has_referral, read off db_user    *)
(* too, never holds.                                                       *)
VisibleTo(rule, t) ==
    \/ rule \in {"public", "vip", "subscriber_only"}
    \/ rule = "premium" /\ InjectedUser(t) \in Premium
    \/ rule \in {"admin_only", "premium", "referral_only"} /\ t \in Admins

(* Reading any attribute of an expired instance raises.                    *)
IsReadable(t) == obj[using[t]].state # "expired"

Check(t) ==
    /\ at[t] = "check"
    /\ Goto(t, IF ~ IsReadable(t) THEN "abort"
               ELSE IF VisibleTo(obj[using[t]].rule, t) THEN "logHit"
               ELSE "logMiss")
    /\ UNCHANGED <<row, owner, cache, clock, req, obj, using, edit, sent, withdrawn>>

(* INSERT INTO search_logs, then deliver or apologise.                     *)
LogSearch(t) ==
    /\ at[t] \in {"logHit", "logMiss"}
    /\ MayLock(t, LocksOfInsert \cup FlushLocks(t))
    /\ Lock(t, LocksOfInsert \cup FlushLocks(t))
    /\ Goto(t, IF FlushFails(t) THEN "abort"
               ELSE IF at[t] = "logHit" THEN "send" ELSE "reply")
    /\ UNCHANGED <<row, cache, clock, req, obj, using, edit, sent, withdrawn>>

(* Slip: a refused message is taken for a delivered one.                   *)
SendUnchecked(t) ==
    /\ at[t] = "send"
    /\ IsReadable(t)
    /\ sent' \in {sent, sent \cup {t}}
    /\ Goto(t, "register")
    /\ UNCHANGED <<row, owner, cache, clock, req, obj, using, edit, withdrawn>>

(* copy_message or send_<type>; Telegram may refuse or not answer.         *)
Send(t) ==
    /\ at[t] = "send"
    /\ \/ /\ IsReadable(t)
          /\ sent' = sent \cup {t}
          /\ Goto(t, "register")
       \/ /\ Goto(t, "abort")
          /\ UNCHANGED sent
    /\ UNCHANGED <<row, owner, cache, clock, req, obj, using, edit, withdrawn>>

(* Slip: the counter is decremented.                                       *)
CountedDown(o) == [obj EXCEPT ![o].views = @ - 1,
                              ![o].dirty = @ \/ obj[o].state = "attached"]

(* register_delivery adds one to a number in memory and flushes the        *)
(* viewer's own session, whichever session the instance belongs to.        *)
Counted(o) == [obj EXCEPT ![o].views = @ + 1,
                          ![o].dirty = @ \/ obj[o].state = "attached"]

Register(t) ==
    /\ at[t] = "register"
    /\ \/ /\ ~ IsReadable(t)
          /\ Goto(t, "abort")
          /\ UNCHANGED <<owner, obj>>
       \/ /\ IsReadable(t) /\ using[t] # t
          /\ obj' = Counted(using[t])
          /\ Goto(t, "record")
          /\ UNCHANGED owner
       \/ /\ IsReadable(t) /\ using[t] = t
          /\ LET rows == LocksOf(obj[t].movie) IN MayLock(t, rows) /\ Lock(t, rows)
          /\ obj' = Counted(t)
          /\ Goto(t, IF row[obj[t].movie] = None THEN "abort" ELSE "record")
    /\ UNCHANGED <<row, cache, clock, req, using, edit, sent, withdrawn>>

(* increment_movies_received and the audit entry.  No advertisement        *)
(* follows: without db_user the search count passed on is 0.               *)
Record(t) ==
    /\ at[t] = "record"
    /\ MayLock(t, LocksOfInsert \cup FlushLocks(t))
    /\ Lock(t, LocksOfInsert \cup FlushLocks(t))
    /\ Goto(t, IF FlushFails(t) \/ ~ IsReadable(t) THEN "abort"
               ELSE IF req[t].button THEN "reply" ELSE "commit")
    /\ UNCHANGED <<row, cache, clock, req, obj, using, edit, sent, withdrawn>>

(* expire_on_commit is off: after commit and close the instance keeps its  *)
(* values and belongs to no session.                                       *)
CommitViewer(t) ==
    /\ at[t] = "commit"
    /\ MayLock(t, FlushLocks(t))
    /\ \/ /\ FlushFails(t)
          /\ Goto(t, "abort")
          /\ UNCHANGED <<row, owner, obj>>
       \/ /\ ~ FlushFails(t)
          /\ row' = IF IsDirty(t)
                    THEN [row EXCEPT ![obj[t].movie].views = obj[t].views]
                    ELSE row
          /\ obj' = IF obj[t] = None THEN obj
                    ELSE [obj EXCEPT ![t].state = "detached", ![t].dirty = FALSE]
          /\ ReleaseLocks(t)
          /\ Goto(t, "done")
    /\ UNCHANGED <<cache, clock, req, using, edit, sent, withdrawn>>

-----------------------------------------------------------------------------
(* Editors.  An edit that would not change the row writes nothing and is   *)
(* left out: the values offered are new.  set_visibility is an operation   *)
(* of the service that no handler calls yet.                               *)

Targets(kind, r) ==
    CASE kind = "visibility" -> Rules \ {r.rule}
      [] kind = "code"       -> Codes \ {r.code}
      [] OTHER               -> {None}

(* The instances that have been through the cache and show the movie as it *)
(* still is; for an edit that a rename has overtaken, none.                *)
CurrentCopies(m, r) ==
    {t \in Viewers : /\ obj[t] # None /\ obj[t].movie = m /\ at[t] # "fill"
                     /\ obj[t].staleAt = -1
                     /\ row[m].code = r.code}

(* The row is read through a session of the editor's own, never from the   *)
(* cache.  An inactive movie can be reached by id but not by code, so its  *)
(* code and caption cannot be replaced.  delete() invalidates at once.     *)
Editable(m, kind) ==
    row[m] # None /\ (kind \in {"code", "caption"} => row[m].active)

Open(e, m, kind) ==
    /\ at[e] = "idle"
    /\ \/ /\ ~ Editable(m, kind)
          /\ Goto(e, "failed")
          /\ UNCHANGED <<edit, cache, withdrawn>>
       \/ /\ Editable(m, kind)
          /\ \E to \in Targets(kind, row[m]) :
                edit' = [edit EXCEPT ![e] =
                           [movie |-> m, kind |-> kind, to |-> to, seen |-> row[m]]]
          /\ \/ /\ kind = "delete"
                /\ cache' = Code!AfterInvalidate(cache, row[m].code)
                /\ withdrawn' = withdrawn \cup CurrentCopies(m, row[m])
             \/ kind # "delete" /\ UNCHANGED <<cache, withdrawn>>
          /\ Goto(e, "write")
    /\ UNCHANGED <<row, owner, clock, req, obj, using, sent>>

CodeTaken(c) == \E m \in Movies : row[m] # None /\ row[m].code = c

(* A unique index makes the second of two uncommitted claims wait.         *)
CodeClaimed(e, c) ==
    \E d \in Editors \ {e} : /\ at[d] \in {"reply", "commit", "abort"}
                             /\ edit[d] # None
                             /\ edit[d].kind = "code" /\ edit[d].to = c

(* The flush, then the invalidation of the code that was read and of the   *)
(* new one.  An UPDATE of a deleted row fails, a DELETE of one does not.   *)
Refused(ed) == \/ ed.kind # "delete" /\ row[ed.movie] = None
               \/ ed.kind = "code" /\ CodeTaken(ed.to)

(* Slip: only the code the movie gets is invalidated.                      *)
InvalidatedNewOnly(ed) == IF ed.kind = "code" THEN {ed.to} ELSE {}

Invalidated(ed) == IF ed.kind = "code" THEN {ed.seen.code, ed.to} ELSE {ed.seen.code}

WriteEdit(e) ==
    /\ at[e] = "write"
    /\ LET ed == edit[e] IN
       /\ MayLock(e, LocksOf(ed.movie))
       /\ ed.kind = "code" => ~ CodeClaimed(e, ed.to)
       /\ Lock(e, LocksOf(ed.movie))
       /\ \/ /\ Refused(ed)
             /\ Goto(e, "abort")
             /\ UNCHANGED <<cache, withdrawn>>
          \/ /\ ~ Refused(ed) /\ ed.kind = "delete"
             /\ Goto(e, "reply")
             /\ UNCHANGED <<cache, withdrawn>>
          \/ /\ ~ Refused(ed) /\ ed.kind # "delete"
             /\ cache' = Code!Drop(cache, Invalidated(ed))
             /\ withdrawn' = withdrawn \cup CurrentCopies(ed.movie, ed.seen)
             /\ Goto(e, "reply")
    /\ UNCHANGED <<row, clock, req, obj, using, edit, sent>>

(* Only the changed column is written, with the value decided on when the  *)
(* row was read.                                                           *)
Edited(r, ed) ==
    IF r = None THEN None
    ELSE CASE ed.kind = "delete"     -> None
           [] ed.kind = "visibility" -> [r EXCEPT !.rule = ed.to]
           [] ed.kind = "active"     -> [r EXCEPT !.active = ~ ed.seen.active]
           [] ed.kind = "code"       -> [r EXCEPT !.code = ed.to]
           [] ed.kind = "caption"    -> r

CommitEdit(e) ==
    /\ at[e] = "commit"
    /\ row' = [row EXCEPT ![edit[e].movie] = Edited(@, edit[e])]
    /\ obj' = [t \in Viewers |->
                 IF obj[t] # None /\ obj[t].movie = edit[e].movie /\ obj[t].staleAt = -1
                 THEN [obj[t] EXCEPT !.staleAt = clock]
                 ELSE obj[t]]
    /\ ReleaseLocks(e)
    /\ Goto(e, "done")
    /\ UNCHANGED <<cache, clock, req, using, edit, sent, withdrawn>>

-----------------------------------------------------------------------------
(* Both.                                                                   *)

(* The last Bot API call of the handler; if it raises, session_scope rolls *)
(* everything back.                                                        *)
Reply(t) ==
    /\ at[t] = "reply"
    /\ \E step \in {"commit", "abort"} : Goto(t, step)
    /\ UNCHANGED <<row, owner, cache, clock, req, obj, using, edit, sent, withdrawn>>

(* rollback() expires every instance of the session, close() detaches it.  *)
Rollback(t) ==
    /\ at[t] = "abort"
    /\ obj' = IF t \in Editors \/ obj[t] = None THEN obj
              ELSE [obj EXCEPT ![t].state = "expired", ![t].dirty = FALSE,
                               ![t].expiredAt = clock]
    /\ ReleaseLocks(t)
    /\ Goto(t, "failed")
    /\ UNCHANGED <<row, cache, clock, req, using, edit, sent, withdrawn>>

(* SQLite's busy_timeout: "database is locked".                            *)
Wanted(t) ==
    CASE at[t] = "count" -> CountLocks(t)
      [] at[t] \in {"logHit", "logMiss", "record"} -> LocksOfInsert \cup FlushLocks(t)
      [] at[t] = "register" /\ using[t] = t /\ IsReadable(t) -> LocksOf(obj[t].movie)
      [] at[t] = "commit" /\ t \in Viewers -> FlushLocks(t)
      [] at[t] = "write" -> LocksOf(edit[t].movie)
      [] OTHER -> {}

LockTimeout(t) ==
    /\ Backend = "sqlite"
    /\ ~ MayLock(t, Wanted(t))
    /\ Goto(t, "abort")
    /\ UNCHANGED <<row, owner, cache, clock, req, obj, using, edit, sent, withdrawn>>

(* The database answers a read within FillDelay.                           *)
Tick ==
    /\ clock < MaxTime
    /\ \A t \in Viewers : at[t] = "fill" => clock < obj[t].readAt + FillDelay
    /\ clock' = clock + 1
    /\ UNCHANGED <<row, owner, cache, at, req, obj, using, edit, sent, withdrawn>>

(* Every request and every edit has been dealt with.                       *)
AllOver == (\A t \in Tasks : at[t] \in {"done", "failed"}) /\ UNCHANGED vars

ViewerStep(t) ==
    \/ CountSearch(t) \/ Gate(t) \/ Lookup(t) \/ ReadRow(t) \/ Fill(t) \/ Check(t)
    \/ LogSearch(t) \/ Send(t) \/ Register(t) \/ Record(t) \/ CommitViewer(t)

EditorStep(e) == WriteEdit(e) \/ CommitEdit(e)

TaskStep(t) == Reply(t) \/ Rollback(t) \/ LockTimeout(t)

Next ==
    \/ \E t \in Viewers, c \in Codes, button \in BOOLEAN : Receive(t, c, button)
    \/ \E t \in Viewers : ViewerStep(t)
    \/ \E e \in Editors, m \in Movies, kind \in EditKinds : Open(e, m, kind)
    \/ \E e \in Editors : EditorStep(e)
    \/ \E t \in Tasks : TaskStep(t)
    \/ Tick
    \/ AllOver

Spec == Init /\ [][Next]_vars

(* A started task is driven by the event loop: database calls return or    *)
(* time out, Bot API calls return or time out.                             *)
FairSpec ==
    /\ Spec
    /\ \A t \in Viewers : WF_vars(ViewerStep(t) \/ TaskStep(t))
    /\ \A e \in Editors : WF_vars(EditorStep(e) \/ TaskStep(e))

-----------------------------------------------------------------------------
Served(c) == obj[cache.entry[c].val]

(* A lookup may be answered from an instance that a committed edit has     *)
(* outdated (hidden, disabled, renamed, deleted, other caption), although  *)
(* every edit invalidates: it does so before its commit, and a concurrent  *)
(* miss reads the old row and caches it afterwards.  Such answers end at   *)
(* most TTL plus the duration of one read after the commit                 *)
(* (movie_service.py:3-7, 62-69, 179-225, 306-310).                        *)
BoundedStaleness ==
    \A c \in Codes :
        (Code!IsHit(cache, c, clock) /\ Served(c).staleAt # -1)
        => clock - Served(c).staleAt <= TTL + FillDelay

(* An instance whose session was rolled back makes every hit on its code   *)
(* raise, but no longer than TTL after that rollback                       *)
(* (movie_service.py:62-68, session.py:32-39).                             *)
BoundedPoisoning ==
    \A c \in Codes :
        (Code!IsHit(cache, c, clock) /\ Served(c).state = "expired")
        => clock - Served(c).expiredAt <= TTL

(* Invalidating by code reaches every copy that matters: an instance that  *)
(* was in the cache, and up to date, when an edit of its movie invalidated *)
(* is never served again, under any code.  The edit must not have been     *)
(* overtaken by a rename, since it then invalidates a code the movie no    *)
(* longer has (movie_service.py:5-6, 179-225, 306-310).                    *)
InvalidatedNeverServed ==
    \A c \in Codes : Code!IsHit(cache, c, clock) => cache.entry[c].val \notin withdrawn

(* The views column never claims more deliveries than Telegram accepted,   *)
(* although instances are shared between sessions and written back by      *)
(* sessions that did not count (movie_repository.py:123-131).              *)
ViewsNeverExceedSends ==
    \A m \in Movies :
        row[m] # None =>
        row[m].views <= Cardinality({t \in sent : obj[using[t]].movie = m})

(* No task waits forever for a lock or is left behind half way.            *)
TasksFinish ==
    \A t \in Tasks : (at[t] # "idle") ~> (at[t] \in {"done", "failed"})

(* --- Stated by the repository's text, not by what the code does. --- *)

(* "Return the active movie for code, raising if it is missing"            *)
(* (movie_service.py:54): a hit yields a movie the handler can read.       *)
HitsAreReadable ==
    \A c \in Codes : Code!IsHit(cache, c, clock) => Served(c).state # "expired"
=============================================================================
