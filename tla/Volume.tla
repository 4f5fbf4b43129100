------------------------------- MODULE Volume -------------------------------
(***************************************************************************)
(* The database of a deployment, from its first start through upgrades,    *)
(* downgrades and restarts: alembic on one side, create_all and the        *)
(* in-place rebuild of movies at every start on the other.                 *)
(*                                                                         *)
(* SQLite runs a CREATE, ALTER or DROP on its own until the connection has *)
(* written a row, because the driver opens a transaction only then; what   *)
(* follows is in that transaction.  On PostgreSQL all of it is in one.     *)
(* The process may die between any two statements.                         *)
(***************************************************************************)
EXTENDS Schema

CONSTANTS
    Films,      \* rows of movies
    Backends,   \* of "sqlite" and "postgresql"
    Origins,    \* what the volume is found with
    Commands,   \* alembic commands an operator gives
    Crashes     \* times the process dies in the middle

ASSUME VolumeAssumption ==
    /\ Films # {}
    /\ Origins \subseteq {"new", "legacy", "revision 1", "revision 3", "head"}
    /\ Backends \subseteq {"sqlite", "postgresql"}
    /\ Commands \in Nat /\ Crashes \in Nat

Kept == "_movies_pre_fk_drop"
Stores == {"movies", Kept, "copy"}  \* copy: _alembic_tmp_movies

VARIABLES
    backend,
    db,      \* what a new connection would find
    work,    \* what the connection at work sees
    open,    \* its transaction has begun
    phase,   \* what runs
    todo,    \* the statements left
    commands, crashes,
    added,   \* history: the movies added and never dropped by a downgrade
    pure,    \* history: nothing but alembic has run, and to its end
    manual,  \* history: alembic has run
    cut      \* history: a downgrade has been cut short

vars == <<backend, db, work, open, phase, todo, commands, crashes, added, pure, manual,
          cut>>
ghosts == <<added, pure, manual, cut>>

-----------------------------------------------------------------------------
(* What a statement does.                                                  *)
Has(d, table) == table \in DOMAIN d.tables

Without(tables, gone) == [t \in DOMAIN tables \ {gone} |-> tables[t]]
With(tables, t, table) ==
    [s \in DOMAIN tables \cup {t} |-> IF s = t THEN table ELSE tables[s]]

Reshaped(table, op) ==
    [table EXCEPT !.cols = (@ \cup op.cols) \ op.gone]

Renamed(tables, from, to) == With(Without(tables, from), to, tables[from])

Apply(d, op) ==
    LET t == op.table IN
    CASE op.do = "create" ->
           [d EXCEPT !.tables = With(@, t, [op.as EXCEPT !.indexed = t # "movies"])]
      [] op.do = "index"    -> [d EXCEPT !.tables[t].indexed = TRUE]
      [] op.do = "dropIndex" -> IF t = Kept THEN [d EXCEPT !.tables[t].indexed = FALSE] ELSE d
      [] op.do = "add"      -> [d EXCEPT !.tables[t] = Reshaped(@, op)]
      [] op.do = "drop"     -> [d EXCEPT !.tables = Without(@, t),
                                         !.rows = [s \in Stores |-> IF s = t THEN {} ELSE @[s]]]
      [] op.do = "makeCopy" -> [d EXCEPT !.copies = @ \cup {t}]
      [] op.do = "fillCopy" -> IF t = "movies" THEN [d EXCEPT !.rows["copy"] = d.rows[t]] ELSE d
      [] op.do = "swap"     -> [d EXCEPT !.tables[t] = Reshaped(@, op),
                                         !.copies = @ \ {t},
                                         !.rows["copy"] = IF t = "movies" THEN {} ELSE @]
      [] op.do = "setAside" -> [d EXCEPT !.tables = Renamed(@, "movies", Kept),
                                         !.rows[Kept] = d.rows["movies"],
                                         !.rows["movies"] = {}]
      [] op.do = "carryOver" -> [d EXCEPT !.rows["movies"] = d.rows[Kept]]
      [] op.do = "stamp"    -> [d EXCEPT !.stamp = op.rev]

Writes == {"fillCopy", "carryOver", "stamp"}

(* Statements the database accepts.                                        *)
NamesTaken(d, t) == t = "movies" /\ Has(d, Kept) /\ d.tables[Kept].indexed
TypeMissing(cols) == backend = "postgresql" /\ cols \cap AddedEnums # {}
BadDefault(op)   == /\ backend = "postgresql" /\ op.table \in LowercaseDefaults
                    /\ op.as = Models[op.table]

Accepts(d, op) ==
    LET t == op.table IN
    CASE op.do = "create"    -> ~ Has(d, t) /\ ~ BadDefault(op)
      [] op.do = "index"     -> ~ NamesTaken(d, t)
      [] op.do = "add"       -> /\ Has(d, t) /\ op.cols \cap d.tables[t].cols = {}
                                /\ ~ TypeMissing(op.cols)
      [] op.do = "makeCopy"  -> Has(d, t) /\ t \notin d.copies
      [] op.do = "swap"      -> /\ Has(d, t) /\ op.cols \cap d.tables[t].cols = {}
                                /\ op.gone \subseteq d.tables[t].cols
                                /\ ~ TypeMissing(op.cols)
      [] op.do = "setAside"  -> ~ Has(d, Kept)
      [] op.do = "dropIndex" -> Has(d, t) /\ d.tables[t].indexed
      [] op.do = "carryOver" -> d.rows[Kept] = {} \/ NoServerDefault \subseteq d.tables[Kept].cols
      [] op.do = "drop"      -> Has(d, t)
      [] OTHER               -> TRUE

-----------------------------------------------------------------------------
(* Alembic.  On SQLite every revision has a transaction of its own.        *)
Commit   == Op("commit", "", {}, {})
Stamp(r) == [Op("stamp", "", {}, {}) EXCEPT !.rev = r]

(* Slip: the version is written before the revision's statements.          *)
RevisionStampedFirst(ops, r) == <<Stamp(r), Commit>> \o ops \o <<Commit>>

Revision(ops, r) ==
    ops \o <<Stamp(r)>> \o (IF backend = "sqlite" THEN <<Commit>> ELSE <<>>)

UpgradeSteps(from) ==
    FlattenSeq([i \in 1 .. HeadRevision - from |-> Revision(Upgrades[from + i], from + i)])
    \o (IF backend = "postgresql" THEN <<Commit>> ELSE <<>>)

DowngradeSteps(from) ==
    Revision(Downgrades[from], from - 1)
    \o (IF backend = "postgresql" THEN <<Commit>> ELSE <<>>)

Untouched == [tables |-> <<>>, copies |-> {}, stamp |-> 0, rows |-> [s \in Stores |-> {}]]

(* The tables of a revision: those its upgrades and the ones before it     *)
(* create, with every column they give them.                               *)
AtRevision == [r \in 0 .. HeadRevision |->
    LET past     == UNION {Range(Upgrades[i]) : i \in 1 .. r}
        creating == {op \in past : op.do = "create"}
        Cols(t)  == UNION {op.cols \cup op.as.cols : op \in {o \in past : o.table = t}}
        Final(t) == [(CHOOSE op \in creating : op.table = t).as EXCEPT
                        !.cols = Cols(t), !.indexed = TRUE]
    IN  [Untouched EXCEPT !.stamp = r,
                          !.tables = [t \in {op.table : op \in creating} |-> Final(t)]]]

-----------------------------------------------------------------------------
(* The start of the bot: create_all makes the tables that are missing and  *)
(* leaves the others as they are.                                          *)
CreateTable(t) ==
    <<CreateAs(t, Models[t])>> \o (IF t = "movies" THEN Index(t) ELSE <<>>)

(* Slip: the tables that are there are made again.                         *)
CreateAllBlindly(d) ==
    FlattenSeq([i \in DOMAIN CreationOrder |-> CreateTable(CreationOrder[i])])

(* Slip: one table is taken for all of them.                               *)
CreateAllOrNone(d) ==
    IF Has(d, "users") THEN <<>>
    ELSE FlattenSeq([i \in DOMAIN CreationOrder |-> CreateTable(CreationOrder[i])])

CreateAll(d) ==
    FlattenSeq([i \in DOMAIN CreationOrder |->
                   LET t == CreationOrder[i] IN IF Has(d, t) THEN <<>> ELSE CreateTable(t)])

(* Slip: the old table goes before its rows have been copied.              *)
RebuildDroppingFirst ==
    <<Op("setAside", "movies", {}, {}), Op("dropIndex", Kept, {}, {})>>
    \o CreateTable("movies") \o DropTable(Kept) \o <<Op("carryOver", "movies", {}, {})>>

Rebuild ==
    <<Op("setAside", "movies", {}, {}), Op("dropIndex", Kept, {}, {})>>
    \o CreateTable("movies") \o <<Op("carryOver", "movies", {}, {})>> \o DropTable(Kept)

BootSteps(d) ==
    CreateAll(d)
    \o (IF backend = "sqlite" /\ Has(d, "movies") /\ d.tables["movies"].fk
        THEN Rebuild ELSE <<>>)
    \o <<Commit>>

-----------------------------------------------------------------------------
(* Files the volume may be found with: none; one of an early release, with *)
(* the foreign key and a movie; one that alembic has made.                 *)
Legacy ==
    [Untouched EXCEPT
        !.tables = [t \in Names |-> [Models[t] EXCEPT !.indexed = TRUE,
                                                      !.fk = t = "movies"]],
        !.rows = [s \in Stores |-> IF s = "movies" THEN {CHOOSE f \in Films : TRUE} ELSE {}]]

Found(origin) ==
    CASE origin = "new"    -> Untouched
      [] origin = "legacy" -> Legacy
      [] origin = "revision 1" -> AtRevision[1]
      [] origin = "revision 3" -> AtRevision[3]
      [] origin = "head"   -> AtRevision[HeadRevision]

Init ==
    /\ backend \in Backends
    /\ \E origin \in Origins :
          /\ backend = "sqlite" \/ origin = "new"
          /\ db = Found(origin)
          /\ manual = (origin \notin {"new", "legacy"})
          /\ pure = (origin # "legacy")
    /\ work = db /\ open = FALSE
    /\ phase = "down" /\ todo = <<>>
    /\ commands = Commands /\ crashes = Crashes
    /\ added = db.rows["movies"]
    /\ cut = FALSE

Run(what, steps) ==
    /\ phase = "down"
    /\ phase' = what /\ todo' = steps
    /\ UNCHANGED <<backend, db, work, open, crashes, added>>

Upgrade ==
    /\ commands > 0 /\ db.stamp < HeadRevision
    /\ Run("upgrade", UpgradeSteps(db.stamp))
    /\ commands' = commands - 1
    /\ manual' = TRUE
    /\ UNCHANGED <<pure, cut>>

Downgrade ==
    /\ commands > 0 /\ db.stamp > 0
    /\ Run("downgrade", DowngradeSteps(db.stamp))
    /\ commands' = commands - 1
    /\ UNCHANGED <<pure, manual, cut>>

Boot ==
    /\ Run("boot", BootSteps(db))
    /\ pure' = FALSE
    /\ UNCHANGED <<commands, manual, cut>>

Stop ==
    /\ phase = "up" /\ phase' = "down"
    /\ UNCHANGED <<backend, db, work, open, todo, commands, crashes, ghosts>>

-----------------------------------------------------------------------------
Busy == phase \in {"upgrade", "downgrade", "boot"}
Now  == Head(todo)

(* Statements that change the schema.                                      *)
Define ==
    /\ Busy /\ Now.do \notin Writes \cup {"commit"} /\ Accepts(work, Now)
    /\ work' = Apply(work, Now)
    /\ db' = IF backend = "sqlite" /\ ~ open THEN work' ELSE db
    /\ open' = (open \/ backend = "postgresql")
    /\ todo' = Tail(todo)
    /\ added' = IF phase = "downgrade" THEN added \cap UNION {work'.rows[s] : s \in Stores}
                ELSE added
    /\ UNCHANGED <<backend, phase, commands, crashes, pure, manual, cut>>

(* Statements that write rows: from the first one on there is a transaction.*)
Write ==
    /\ Busy /\ Now.do \in Writes /\ Accepts(work, Now)
    /\ work' = Apply(work, Now)
    /\ open' = TRUE
    /\ todo' = Tail(todo)
    /\ UNCHANGED <<backend, db, phase, commands, crashes, ghosts>>

CommitWork ==
    /\ Busy /\ Now.do = "commit"
    /\ db' = work
    /\ open' = FALSE
    /\ todo' = Tail(todo)
    /\ phase' = IF Tail(todo) # <<>> THEN phase ELSE IF phase = "boot" THEN "up" ELSE "down"
    /\ UNCHANGED <<backend, work, commands, crashes, ghosts>>

(* Slip: the statements left are not forgotten.                            *)
OverGoingOn ==
    /\ work' = db /\ open' = FALSE
    /\ phase' = "down" /\ UNCHANGED todo
    /\ pure' = FALSE
    /\ cut' = (cut \/ phase = "downgrade")

Over ==
    /\ work' = db /\ open' = FALSE
    /\ phase' = "down" /\ todo' = <<>>
    /\ pure' = FALSE
    /\ cut' = (cut \/ phase = "downgrade")

(* The exception ends the command, or the bot, which Railway starts again. *)
Fail ==
    /\ Busy /\ ~ Accepts(work, Now)
    /\ Over
    /\ UNCHANGED <<backend, db, commands, crashes, added, manual>>

Crash ==
    /\ Busy /\ crashes > 0
    /\ Over
    /\ crashes' = crashes - 1
    /\ UNCHANGED <<backend, db, commands, added, manual>>

(* A table can be written the way its model writes it.                     *)
Writable(d, t) ==
    /\ Has(d, t)
    /\ Models[t].cols \subseteq d.tables[t].cols
    /\ backend = "sqlite" => d.tables[t].id # "bigint"

AddMovie ==
    /\ phase = "up" /\ Writable(db, "movies")
    /\ \E f \in Films \ added :
          /\ added' = added \cup {f}
          /\ db' = [db EXCEPT !.rows["movies"] = @ \cup {f}]
    /\ work' = db'
    /\ UNCHANGED <<backend, open, phase, todo, commands, crashes, pure, manual, cut>>

Statement == Define \/ Write \/ CommitWork \/ Fail

Next == Upgrade \/ Downgrade \/ Boot \/ Stop \/ Statement \/ Crash \/ AddMovie

Spec == Init /\ [][Next]_vars

(* A command that runs goes on; a bot that is down is started again        *)
(* (restartPolicyType ON_FAILURE), also while an operator gives up.        *)
FairSpec == Spec /\ WF_vars(Statement) /\ WF_vars(Boot)

-----------------------------------------------------------------------------
TypeOK ==
    /\ backend \in Backends
    /\ \A d \in {db, work} :
          /\ DOMAIN d.tables \subseteq Names \cup {Kept}
          /\ d.copies \subseteq Names
          /\ d.stamp \in 0 .. HeadRevision
          /\ d.rows \in [Stores -> SUBSET Films]
    /\ open \in BOOLEAN
    /\ phase \in {"down", "upgrade", "downgrade", "boot", "up"}
    /\ Busy <=> todo # <<>>
    /\ commands \in 0 .. Commands /\ crashes \in 0 .. Crashes
    /\ added \subseteq Films
    /\ {pure, manual, cut} \subseteq BOOLEAN

(* No movie is lost or doubled by an upgrade, a start or the rebuild, at   *)
(* whichever statement the process dies: it is in movies, or still in the  *)
(* table the rebuild set aside (engine.py:137-146).                        *)
RowsSurvive ==
    /\ added = db.rows["movies"] \cup db.rows[Kept]
    /\ db.rows["movies"] \cap db.rows[Kept] = {}

(* The version alembic has written is never ahead of the tables, except    *)
(* while a downgrade is under way or was cut short (env.py:56-59).         *)
StampNeverAhead ==
    (phase # "downgrade" /\ ~ cut) =>
        LET promised == AtRevision[db.stamp].tables IN
        \A t \in DOMAIN promised :
            \/ Has(db, t) /\ promised[t].cols \subseteq db.tables[t].cols
            \/ t = "movies" /\ Has(db, Kept) /\ promised[t].cols \subseteq db.tables[Kept].cols

(* Each downgrade takes back what its upgrade made, to the last column, so *)
(* that the tables depend on the version alone; PostgreSQL keeps to this   *)
(* whatever fails (0001-0005).                                             *)
TablesFollowVersion ==
    (phase = "down" /\ (backend = "postgresql" \/ pure)) =>
        db.tables = AtRevision[db.stamp].tables

(* A database alembic never touched ends with every table as the models    *)
(* write it, however often its first starts were cut short (engine.py:92). *)
CreatedIsUsable ==
    (phase = "up" /\ ~ manual) => \A t \in Names : Writable(db, t)

(* A bot on SQLite comes up, whatever was interrupted before; unless       *)
(* movies has the old foreign key again while a table is still set aside.  *)
Wedged == Has(db, Kept) /\ Has(db, "movies") /\ db.tables["movies"].fk

ComesUp == (backend = "sqlite" /\ ~ Wedged) ~> (phase = "up" \/ Wedged)

(* The documented way to a new database, alembic upgrade head and then the *)
(* start of the bot, gives tables the bot can write (README.md:65-66, 125).*)
ProvisionedIsUsable ==
    (phase = "up" /\ db.stamp = HeadRevision) => \A t \in Names : Writable(db, t)
=============================================================================
