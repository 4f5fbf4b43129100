----------------------------- MODULE BotProofs -----------------------------
(***************************************************************************)
(* What Bot guarantees for every number of updates, users, targets and     *)
(* settings, every workload and both database backends.                    *)
(***************************************************************************)
EXTENDS Bot, TLAPS, WellFoundedInduction

JobFields == {"kind", "by", "arg", "raw", "todo", "missing", "key", "value", "isNew", "out"}

(* Every task has its place, its locals, its session and its deliveries.   *)
Shape ==
    /\ DOMAIN at = Tasks
    /\ DOMAIN job = Tasks /\ \A t \in Tasks : DOMAIN job[t] = JobFields
    /\ DOMAIN session = Tasks /\ DOMAIN wrote = Tasks /\ DOMAIN told = Tasks

(* A step of one task leaves the others alone, and its update what it was. *)
Alone(t) ==
    /\ Shape'
    /\ UNCHANGED <<backend, restarts>>
    /\ \A o \in Tasks \ {t} :
          /\ at'[o] = at[o] /\ job'[o] = job[o] /\ told'[o] = told[o]
          /\ session'[o] = session[o] /\ wrote'[o] = wrote[o]

SameTransaction(t) ==
    db' = db /\ session'[t] = session[t] /\ wrote'[t] = wrote[t]

SameTalk(t) == fsm' = fsm /\ told'[t] = told[t]

-----------------------------------------------------------------------------
(* The operators on rows.                                                  *)
LEMMA CellValue ==
    ASSUME NEW c, NEW v
    PROVE  DOMAIN (c :> v) = {c} /\ (c :> v)[c] = v
BY DEF :>

LEMMA RowsOver ==
    ASSUME NEW f, NEW g
    PROVE  /\ DOMAIN (f @@ g) = DOMAIN f \cup DOMAIN g
           /\ \A x \in DOMAIN f : (f @@ g)[x] = f[x]
           /\ \A x \in DOMAIN g \ DOMAIN f : (f @@ g)[x] = g[x]
BY DEF @@

LEMMA Restricted ==
    ASSUME NEW f, NEW S
    PROVE  DOMAIN Restrict(f, S) = S /\ \A x \in S : Restrict(f, S)[x] = f[x]
BY DEF Restrict

-----------------------------------------------------------------------------
(* What each way of taking a step does.                                    *)
LEMMA LearnDoes ==
    ASSUME Shape, NEW t \in Tasks, NEW l, DOMAIN l = JobFields, NEW s,
           Learn(t, l, s)
    PROVE  /\ Alone(t) /\ SameTransaction(t) /\ SameTalk(t)
           /\ at'[t] = s /\ job'[t] = l
BY DEF Shape, Learn, Goto, Alone, SameTransaction, SameTalk

LEMMA PassDoes ==
    ASSUME Shape, NEW t \in Tasks, NEW s, Pass(t, s)
    PROVE  /\ Alone(t) /\ SameTransaction(t) /\ SameTalk(t)
           /\ at'[t] = s /\ job'[t] = job[t]
BY LearnDoes DEF Pass, Shape

LEMMA AnswerDoes ==
    ASSUME Shape, NEW t \in Tasks, NEW out, Answer(t, out)
    PROVE  /\ Alone(t) /\ SameTransaction(t) /\ SameTalk(t)
           /\ at'[t] = "reply" /\ job'[t] = [job[t] EXCEPT !.out = out]
<1> DEFINE l == [job[t] EXCEPT !.out = out]
<1>1. DOMAIN l = JobFields
  BY DEF Shape
<1>2. Learn(t, l, "reply")
  BY DEF Answer
<1> HIDE DEF l
<1>3. /\ Alone(t) /\ SameTransaction(t) /\ SameTalk(t)
      /\ at'[t] = "reply" /\ job'[t] = l
  BY <1>1, <1>2, LearnDoes
<1> QED
  BY <1>3 DEF l

LEMMA LoadDoes ==
    ASSUME Shape, NEW t \in Tasks, NEW cells, NEW l, DOMAIN l = JobFields, NEW s,
           Load(t, cells, l, s)
    PROVE  /\ Alone(t) /\ SameTalk(t) /\ db' = db /\ wrote'[t] = wrote[t]
           /\ at'[t] = s /\ job'[t] = l
           /\ DOMAIN session[t] \subseteq DOMAIN session'[t]
           /\ \A c \in DOMAIN session[t] : session'[t][c] = session[t][c]
           /\ \A c \in DOMAIN session'[t] \ DOMAIN session[t] :
                 /\ c \in cells /\ session'[t][c] = Of(db, c)
                 /\ Of(db, Primary(c)) # None
           /\ \A c \in cells : Of(db, Primary(c)) # None => c \in DOMAIN session'[t]
<1> DEFINE found == {c \in cells : Of(db, Primary(c)) # None}
           new   == [c \in found |-> Of(db, c)]
<1>1. session'[t] = session[t] @@ new
  BY DEF Load, Shape
<1>2. /\ Alone(t) /\ SameTalk(t) /\ db' = db /\ wrote'[t] = wrote[t]
      /\ at'[t] = s /\ job'[t] = l
  BY DEF Shape, Load, Goto, Alone, SameTalk
<1>3. DOMAIN new = found /\ \A c \in found : new[c] = Of(db, c)
  OBVIOUS
<1> HIDE DEF new
<1>4. /\ DOMAIN session'[t] = DOMAIN session[t] \cup found
      /\ \A c \in DOMAIN session[t] : session'[t][c] = session[t][c]
      /\ \A c \in found \ DOMAIN session[t] : session'[t][c] = new[c]
  BY <1>1, <1>3 DEF @@
<1> QED
  BY <1>2, <1>3, <1>4

LEMMA FlushDoes ==
    ASSUME Shape, NEW t \in Tasks, NEW values, NEW s, Flush(t, values, s)
    PROVE  /\ Alone(t) /\ SameTalk(t) /\ db' = db
           /\ at'[t] = s /\ job'[t] = job[t]
           /\ MayWrite(t, DOMAIN values)
           /\ wrote'[t] = wrote[t] \cup DOMAIN values
           /\ DOMAIN session'[t] = DOMAIN session[t] \cup DOMAIN values
           /\ \A c \in DOMAIN values : session'[t][c] = values[c]
           /\ \A c \in DOMAIN session[t] \ DOMAIN values : session'[t][c] = session[t][c]
<1>1. session'[t] = values @@ session[t]
  BY DEF Flush, Shape
<1>2. /\ Alone(t) /\ SameTalk(t) /\ db' = db
      /\ at'[t] = s /\ job'[t] = job[t]
      /\ MayWrite(t, DOMAIN values)
      /\ wrote'[t] = wrote[t] \cup DOMAIN values
  BY DEF Shape, Flush, Goto, Alone, SameTalk
<1>3. /\ DOMAIN session'[t] = DOMAIN values \cup DOMAIN session[t]
      /\ \A c \in DOMAIN values : session'[t][c] = values[c]
      /\ \A c \in DOMAIN session[t] \ DOMAIN values : session'[t][c] = session[t][c]
  BY <1>1 DEF @@
<1>4. DOMAIN session'[t] = DOMAIN session[t] \cup DOMAIN values
  BY <1>3
<1> QED
  BY <1>2, <1>3, <1>4

LEMMA PutDoes ==
    ASSUME Shape, NEW t \in Tasks, NEW values, NEW s, Put(t, values, s)
    PROVE  LET changed == {c \in DOMAIN values : Val(t, c) # values[c]}
           IN  /\ Alone(t) /\ SameTalk(t) /\ db' = db
               /\ at'[t] = s /\ job'[t] = job[t]
               /\ changed # {} => MayWrite(t, changed)
               /\ wrote'[t] = wrote[t] \cup changed
               /\ DOMAIN session'[t] = DOMAIN session[t] \cup changed
               /\ \A c \in changed : session'[t][c] = values[c]
               /\ \A c \in DOMAIN session[t] \ changed : session'[t][c] = session[t][c]
<1> DEFINE changed == {c \in DOMAIN values : Val(t, c) # values[c]}
<1>1. CASE changed = {}
  <2>1. Pass(t, s)
    BY <1>1 DEF Put
  <2> QED
    BY <1>1, <2>1, PassDoes DEF SameTransaction
<1>2. CASE changed # {}
  <2>1. Flush(t, Restrict(values, changed), s)
    BY <1>2 DEF Put
  <2>2. DOMAIN Restrict(values, changed) = changed
        /\ \A c \in changed : Restrict(values, changed)[c] = values[c]
    BY Restricted
  <2> DEFINE new == Restrict(values, changed)
  <2>3. Flush(t, new, s) /\ DOMAIN new = changed /\ \A c \in changed : new[c] = values[c]
    BY <2>1, <2>2
  <2> HIDE DEF new, changed
  <2> QED
    BY <2>3, FlushDoes DEF changed
<1> QED
  BY <1>1, <1>2

(* Refused, a transaction is on its way out and has written nothing.       *)
LEMMA AddDoes ==
    ASSUME Shape, NEW t \in Tasks, NEW values, NEW needs, NEW s,
           Add(t, values, needs, s)
    PROVE  /\ Alone(t) /\ SameTalk(t) /\ db' = db /\ job'[t] = job[t]
           /\ \/ SameTransaction(t) /\ at'[t] = "abort"
              \/ /\ Flush(t, values, s)
                 /\ \A c \in DOMAIN values : Of(db, Primary(c)) = None
                 /\ \A c \in needs : Val(t, c) # None
<1>1. CASE Pass(t, "abort")
  BY <1>1, PassDoes DEF SameTransaction
<1>2. CASE /\ \A c \in DOMAIN values : Of(db, Primary(c)) = None
           /\ \A c \in needs : Val(t, c) # None
           /\ Flush(t, values, s)
  BY <1>2, FlushDoes
<1> QED
  BY <1>1, <1>2 DEF Add

LEMMA ChangeDoes ==
    ASSUME Shape, NEW t \in Tasks, NEW values, NEW row, NEW s,
           Change(t, values, row, s)
    PROVE  /\ Alone(t) /\ SameTalk(t) /\ db' = db /\ job'[t] = job[t]
           /\ \/ SameTransaction(t) /\ at'[t] = "abort"
              \/ Put(t, values, s) /\ Of(db, row) # None
<1>1. CASE MayWrite(t, DOMAIN values) /\ Of(db, row) = None /\ Pass(t, "abort")
  BY <1>1, PassDoes DEF SameTransaction
<1>2. CASE Of(db, row) # None /\ Put(t, values, s)
  BY <1>2, PutDoes
<1> QED
  BY <1>1, <1>2 DEF Change

LEMMA ConverseDoes ==
    ASSUME Shape, NEW t \in Tasks, NEW conversation, NEW s,
           Converse(t, conversation, s)
    PROVE  /\ Alone(t) /\ SameTransaction(t) /\ told'[t] = told[t]
           /\ at'[t] = s /\ job'[t] = job[t] /\ fsm' = conversation
BY DEF Shape, Converse, Goto, Alone, SameTransaction

-----------------------------------------------------------------------------
(* Where a task is tells what its locals are, and that it has no           *)
(* transaction yet, or none any more.                                      *)
SettingSteps == {"find setting", "insert setting", "update setting"}
InviteSteps  == {"referrer", "invite", "reward", "bonus", "granted"}
NoSession    == {"idle", "route", "copying", "prune"} \cup Ended

Fits(step, l) ==
    /\ step \in InviteSteps => l.kind = "start" /\ l.arg # l.by /\ l.arg \in Users
    /\ step \in {"maintenance", "find", "register", "registered"} => l.kind = "start"
    /\ step \in {"gate", "check", "admit", "count"} => l.kind \in {"start", "recheck"}
    /\ step = "confirming" => l.kind = "confirm"
    /\ step \in {"picked", "adding"} => l.kind = "pick"
    /\ step = "edit" => l.kind \in {"toggleActive", "toggleMandatory", "remove"}
    /\ step = "unblock" => l.kind = "unblock"
    /\ step = "act" => l.kind \in {"ban", "unban", "mute"}
    /\ step \in SettingSteps => l.key \in Keys /\ l.value # None
    /\ step = "refuse" => l.key \in Keys
    /\ step = "check" => l.todo \subseteq Targets
    /\ step = "batch" => l.todo \subseteq Users

Located(t) ==
    /\ at[t] \in NoSession => session[t] = <<>> /\ wrote[t] = {}
    /\ Fits(at[t], job[t])

Typed(t) ==
    /\ IsUpdate(Asked(job[t].kind, job[t].by, job[t].arg))
    /\ job[t].raw \in FsmStates
    /\ job[t].missing \subseteq Targets
    /\ wrote[t] \subseteq DOMAIN session[t]
    /\ DOMAIN session[t] \subseteq Cells

CInv ==
    /\ Shape
    /\ backend \in {"sqlite", "postgresql"} /\ restarts \in Nat
    /\ DOMAIN db \subseteq Cells
    /\ fsm \in Conversations
    /\ \A t \in Tasks : Located(t) /\ Typed(t)

SameUpdate(t) ==
    job'[t].kind = job[t].kind /\ job'[t].by = job[t].by /\ job'[t].arg = job[t].arg

(* A step that is none of a campaign's, of a backup's or of the end of a   *)
(* transaction.                                                            *)
CampaignSteps == {"create", "announce", "recipients", "batch"}
BackupSteps   == {"copying", "prune"}

Ordinary(t) ==
    /\ db' = db
    /\ at[t] \notin CampaignSteps \cup BackupSteps \cup Ended \cup {"commit", "abort"}
    /\ at'[t] \notin CampaignSteps \cup BackupSteps \cup Ended \cup {"idle"}
    /\ fsm'.content \in {fsm.content, None}

Good(t) ==
    /\ Alone(t) /\ SameUpdate(t)
    /\ DOMAIN db' \subseteq Cells
    /\ fsm' \in Conversations
    /\ Located(t)' /\ Typed(t)'

LEMMA GoodStep ==
    ASSUME CInv, NEW t \in Tasks, Good(t)
    PROVE  CInv'
<1>1. ASSUME NEW o \in Tasks, o # t PROVE Located(o)' /\ Typed(o)'
  <2>1. Located(o) /\ Typed(o)
    BY DEF CInv
  <2>2. /\ at'[o] = at[o] /\ job'[o] = job[o]
        /\ session'[o] = session[o] /\ wrote'[o] = wrote[o]
    BY <1>1 DEF Good, Alone
  <2> QED
    BY <2>1, <2>2 DEF Located, Typed
<1> QED
  BY <1>1 DEF Good, Alone, CInv

-----------------------------------------------------------------------------
LEMMA CellsOfAll ==
    /\ \A u \in Users : /\ OfUsers \X {u} \subseteq Cells
                        /\ \A x \in OfUsers : <<x, u>> \in Cells
    /\ \A c \in Targets : Flags(c) \subseteq Cells /\ \A x \in OfTargets : <<x, c>> \in Cells
    /\ \A k \in Keys : <<"setting", k>> \in Cells
    /\ \A u \in Users, c \in Targets : <<"confirmed", <<u, c>>>> \in Cells
    /\ \A t \in Tasks, u \in Users : <<"failure", <<t, u>>>> \in Cells
    /\ \A t \in Tasks : \A x \in {"reward", "bonus", "campaign", "log"} : <<x, t>> \in Cells
    /\ \A e \in Tasks \cup {Earlier} : <<"entry", e>> \in Cells
BY DEF Cells, Flags, OfUsers, OfTargets

LEMMA TargetCellsAre ==
    ASSUME NEW c, NEW a, NEW m
    PROVE  DOMAIN TargetCells(c, a, m) = Flags(c)
BY DEF TargetCells, Flags, @@, :>

-----------------------------------------------------------------------------
(* Where a task may go with which locals.                                  *)
LEMMA FitsWhen ==
    ASSUME NEW l
    PROVE  /\ Fits("reply", l) /\ Fits("log", l) /\ Fits("abort", l) /\ Fits("commit", l)
           /\ Fits("new external", l) /\ Fits("new entry", l) /\ Fits("create", l)
           /\ Fits("announce", l) /\ Fits("recipients", l)
           /\ Fits("idle", l) /\ Fits("route", l) /\ Fits("copying", l)
           /\ Fits("prune", l) /\ Fits("done", l) /\ Fits("failed", l) /\ Fits("unused", l)
           /\ l.kind = "start" /\ l.arg # l.by /\ l.arg \in Users =>
                 /\ Fits("referrer", l) /\ Fits("invite", l) /\ Fits("reward", l)
                 /\ Fits("bonus", l) /\ Fits("granted", l)
           /\ l.kind = "start" =>
                 /\ Fits("maintenance", l) /\ Fits("find", l) /\ Fits("register", l)
                 /\ Fits("registered", l)
           /\ l.kind \in {"start", "recheck"} =>
                 /\ Fits("gate", l) /\ Fits("admit", l) /\ Fits("count", l)
                 /\ l.todo \subseteq Targets => Fits("check", l)
           /\ l.kind = "confirm" => Fits("confirming", l)
           /\ l.kind = "pick" => Fits("picked", l) /\ Fits("adding", l)
           /\ l.kind \in {"toggleActive", "toggleMandatory", "remove"} => Fits("edit", l)
           /\ l.kind = "unblock" => Fits("unblock", l)
           /\ l.kind \in {"ban", "unban", "mute"} => Fits("act", l)
           /\ l.key \in Keys /\ l.value # None =>
                 /\ Fits("find setting", l) /\ Fits("insert setting", l)
                 /\ Fits("update setting", l)
           /\ l.key \in Keys => Fits("refuse", l)
           /\ l.todo \subseteq Users => Fits("batch", l)
BY DEF Fits, InviteSteps, SettingSteps

LEMMA InTransaction ==
    \A s \in {"reply", "log", "abort", "commit", "new external", "new entry", "create",
              "announce", "recipients", "referrer", "invite", "reward", "bonus", "granted",
              "maintenance", "find", "register", "registered", "gate", "admit", "count",
              "check", "confirming", "picked", "adding", "edit", "unblock", "act",
              "find setting", "insert setting", "update setting", "refuse", "batch"} :
        s \notin NoSession
BY DEF NoSession, Ended

-----------------------------------------------------------------------------
(* What the place of a task tells.                                         *)
LEMMA Placed ==
    ASSUME CInv, NEW t \in Tasks
    PROVE  /\ job[t].by \in Users /\ job[t].raw \in FsmStates /\ job[t].missing \subseteq Targets
           /\ job[t].kind \in OfATarget => job[t].arg \in Targets
           /\ job[t].kind \in {"toggleSetting", "editSetting"} => job[t].arg \in Keys
           /\ job[t].kind \in {"ban", "unban", "mute"} => job[t].arg \in Users
           /\ job[t].kind = "unblock" => job[t].arg \in Tasks \cup {Earlier}
           /\ job[t].kind = "start" => job[t].arg \in Users \cup {None}
           /\ job[t].kind = "text" => job[t].arg # None
           /\ at[t] \in {"referrer", "invite", "reward", "bonus", "granted"} =>
                 job[t].kind = "start" /\ job[t].arg # job[t].by /\ job[t].arg \in Users
           /\ at[t] \in {"maintenance", "find", "register", "registered"} => job[t].kind = "start"
           /\ at[t] \in {"gate", "check", "admit", "count"} => job[t].kind \in {"start", "recheck"}
           /\ at[t] = "confirming" => job[t].kind = "confirm" /\ job[t].arg \in Targets
           /\ at[t] \in {"picked", "adding"} => job[t].kind = "pick" /\ job[t].arg \in Targets
           /\ at[t] = "edit" => job[t].arg \in Targets
           /\ at[t] = "unblock" => job[t].kind = "unblock"
           /\ at[t] = "act" => job[t].kind \in {"ban", "unban", "mute"}
           /\ at[t] \in {"find setting", "insert setting", "update setting"} =>
                 job[t].key \in Keys /\ job[t].value # None
           /\ at[t] = "refuse" => job[t].key \in Keys
           /\ at[t] = "check" => job[t].todo \subseteq Targets
           /\ at[t] = "batch" => job[t].todo \subseteq Users
<1>1. Fits(at[t], job[t]) /\ Typed(t)
  BY DEF CInv, Located
<1>2. IsUpdate(Asked(job[t].kind, job[t].by, job[t].arg))
  BY <1>1 DEF Typed
<1>3. /\ job[t].by \in Users
      /\ job[t].kind \in OfATarget => job[t].arg \in Targets
      /\ job[t].kind \in {"toggleSetting", "editSetting"} => job[t].arg \in Keys
      /\ job[t].kind \in {"ban", "unban", "mute"} => job[t].arg \in Users
      /\ job[t].kind = "unblock" => job[t].arg \in Tasks \cup {Earlier}
      /\ job[t].kind = "start" => job[t].arg \in Users \cup {None}
      /\ job[t].kind = "text" => job[t].arg # None
  BY <1>2 DEF IsUpdate, Asked
<1> QED
  BY <1>1, <1>3 DEF Fits, Typed, InviteSteps, SettingSteps, OfATarget

(* What a step has to see to, according to the way it is taken.            *)
Informed(t, l) ==
    /\ DOMAIN l = JobFields
    /\ l.kind = job[t].kind /\ l.by = job[t].by /\ l.arg = job[t].arg
    /\ l.raw \in FsmStates /\ l.missing \subseteq Targets

LEMMA StillInformed == ASSUME CInv, NEW t \in Tasks PROVE Informed(t, job[t])
BY DEF CInv, Shape, Typed, Informed

LEMMA LearnGood ==
    ASSUME CInv, NEW t \in Tasks, NEW l, Informed(t, l), NEW s, Learn(t, l, s), Fits(s, l),
           s \in NoSession => at[t] \in NoSession
    PROVE  Good(t)
<1>1. /\ Alone(t) /\ SameTransaction(t) /\ SameTalk(t)
      /\ at'[t] = s /\ job'[t] = l
  BY LearnDoes DEF Informed, CInv
<1>2. Typed(t) /\ Located(t)
  BY DEF CInv
<1>3. Typed(t)'
  BY <1>1, <1>2 DEF Typed, SameTransaction, Informed
<1>4. Located(t)'
  BY <1>1, <1>2 DEF Located, SameTransaction
<1> QED
  BY <1>1, <1>3, <1>4 DEF Good, SameUpdate, Informed, SameTransaction, SameTalk, CInv

LEMMA PassGood ==
    ASSUME CInv, NEW t \in Tasks, NEW s, Pass(t, s), Fits(s, job[t]),
           s \in NoSession => at[t] \in NoSession
    PROVE  Good(t)
BY StillInformed, LearnGood DEF Pass

LEMMA AnswerGood ==
    ASSUME CInv, NEW t \in Tasks, NEW out, Answer(t, out)
    PROVE  Good(t)
<1> DEFINE l == [job[t] EXCEPT !.out = out]
<1>1. Informed(t, l)
  BY StillInformed DEF Informed
<1>2. Learn(t, l, "reply")
  BY DEF Answer
<1> HIDE DEF l
<1>3. Fits("reply", l) /\ "reply" \notin NoSession
  BY DEF Fits, NoSession, Ended, InviteSteps, SettingSteps
<1> QED
  BY <1>1, <1>2, <1>3, LearnGood

LEMMA LoadGood ==
    ASSUME CInv, NEW t \in Tasks, NEW cells \in SUBSET Cells, NEW l, Informed(t, l), NEW s,
           Load(t, cells, l, s), Fits(s, l), s \notin NoSession
    PROVE  Good(t)
<1>0. Shape /\ DOMAIN l = JobFields
  BY DEF Informed, CInv
<1>a. Alone(t) /\ SameTalk(t)
  BY <1>0, LoadDoes
<1>d. at'[t] = s /\ job'[t] = l
  BY <1>0 DEF Load, Goto, Shape
<1>c. db' = db /\ wrote'[t] = wrote[t] /\ DOMAIN session[t] \subseteq DOMAIN session'[t]
  BY <1>0, LoadDoes
<1>b. \A c \in DOMAIN session'[t] \ DOMAIN session[t] : c \in cells
  BY <1>0, LoadDoes
<1>1. /\ Alone(t) /\ SameTalk(t) /\ db' = db /\ wrote'[t] = wrote[t]
      /\ at'[t] = s /\ job'[t] = l
      /\ DOMAIN session[t] \subseteq DOMAIN session'[t]
      /\ \A c \in DOMAIN session'[t] \ DOMAIN session[t] : c \in cells
  BY <1>a, <1>b, <1>c, <1>d
<1>2. Typed(t)
  BY DEF CInv
<1>3. Typed(t)'
  BY <1>1, <1>2 DEF Typed, Informed
<1>4. Located(t)'
  BY <1>1 DEF Located
<1> QED
  BY <1>1, <1>3, <1>4 DEF Good, SameUpdate, Informed, SameTalk, CInv

LEMMA HoldGood ==
    ASSUME CInv, NEW t \in Tasks, NEW cells \in SUBSET Cells, NEW s,
           Hold(t, cells, s), Fits(s, job[t]), s \notin NoSession
    PROVE  Good(t)
BY StillInformed, LoadGood DEF Hold

LEMMA FlushGood ==
    ASSUME CInv, NEW t \in Tasks, NEW values, DOMAIN values \subseteq Cells, NEW s,
           Flush(t, values, s), Fits(s, job[t]), s \notin NoSession
    PROVE  Good(t)
<1>1. /\ Alone(t) /\ SameTalk(t) /\ db' = db
      /\ at'[t] = s /\ job'[t] = job[t]
      /\ wrote'[t] = wrote[t] \cup DOMAIN values
      /\ DOMAIN session'[t] = DOMAIN session[t] \cup DOMAIN values
  BY FlushDoes DEF CInv
<1>2. Typed(t)
  BY DEF CInv
<1>3. Typed(t)'
  BY <1>1, <1>2 DEF Typed
<1>4. Located(t)'
  BY <1>1 DEF Located
<1> QED
  BY <1>1, <1>3, <1>4 DEF Good, SameUpdate, SameTalk, CInv

LEMMA PutGood ==
    ASSUME CInv, NEW t \in Tasks, NEW values, DOMAIN values \subseteq Cells, NEW s,
           Put(t, values, s), Fits(s, job[t]), s \notin NoSession
    PROVE  Good(t)
<1> DEFINE changed == {c \in DOMAIN values : Val(t, c) # values[c]}
<1>1. CASE changed = {}
  <2>1. Pass(t, s)
    BY <1>1 DEF Put
  <2> QED
    BY <2>1, PassGood
<1>2. CASE changed # {}
  <2>1. Flush(t, Restrict(values, changed), s)
    BY <1>2 DEF Put
  <2>2. DOMAIN Restrict(values, changed) \subseteq Cells
    BY Restricted
  <2> QED
    BY <2>1, <2>2, FlushGood
<1> QED
  BY <1>1, <1>2

LEMMA AbortGood ==
    ASSUME CInv, NEW t \in Tasks, Pass(t, "abort")
    PROVE  Good(t)
BY PassGood, FitsWhen, InTransaction

LEMMA AddGood ==
    ASSUME CInv, NEW t \in Tasks, NEW values, DOMAIN values \subseteq Cells, NEW needs, NEW s,
           Add(t, values, needs, s), Fits(s, job[t]), s \notin NoSession
    PROVE  Good(t)
BY AbortGood, FlushGood DEF Add

LEMMA ChangeGood ==
    ASSUME CInv, NEW t \in Tasks, NEW values, DOMAIN values \subseteq Cells, NEW row, NEW s,
           Change(t, values, row, s), Fits(s, job[t]), s \notin NoSession
    PROVE  Good(t)
BY AbortGood, PutGood DEF Change

LEMMA ConverseGood ==
    ASSUME CInv, NEW t \in Tasks, NEW conversation \in Conversations, NEW s,
           Converse(t, conversation, s), Fits(s, job[t]), s \notin NoSession
    PROVE  Good(t)
<1>1. /\ Alone(t) /\ SameTransaction(t) /\ told'[t] = told[t]
      /\ at'[t] = s /\ job'[t] = job[t] /\ fsm' = conversation
  BY ConverseDoes DEF CInv
<1>2. Typed(t)
  BY DEF CInv
<1>3. Typed(t)' /\ Located(t)'
  BY <1>1, <1>2 DEF Typed, Located, SameTransaction
<1> QED
  BY <1>1, <1>3 DEF Good, SameUpdate, SameTransaction, CInv

-----------------------------------------------------------------------------
(* Mandatory subscriptions.                                                *)
LEMMA SubscriptionsGood ==
    ASSUME CInv, NEW t \in Tasks, SubscriptionsStep(t)
    PROVE  Good(t)
<1>0. Informed(t, job[t])
  BY StillInformed
<1>c. Cleared \in Conversations
  BY DEF Cleared, Conversations, FsmStates
<1>1. CASE ListTargets(t)
  <2> DEFINE l == [job[t] EXCEPT !.todo = Demanded(Sees(t)), !.missing = {}]
  <2>1. Informed(t, l) /\ l.todo \subseteq Targets
    BY <1>0 DEF Informed, Demanded
  <2>2. Learn(t, l, "check") /\ at[t] = "gate"
    BY <1>1 DEF ListTargets
  <2>3. Fits("check", l)
    BY <2>1, <2>2, Placed, FitsWhen DEF Informed
  <2> HIDE DEF l
  <2> QED
    BY <2>1, <2>2, <2>3, LearnGood, InTransaction
<1>2. CASE CheckTarget(t)
  <2>1. PICK c \in job[t].todo, member \in BOOLEAN :
           Learn(t, [job[t] EXCEPT !.todo = @ \ {c},
                                   !.missing = IF member THEN @ ELSE @ \cup {c}], "check")
    BY <1>2 DEF CheckTarget, IsMember
  <2> DEFINE l == [job[t] EXCEPT !.todo = @ \ {c},
                                 !.missing = IF member THEN @ ELSE @ \cup {c}]
  <2>2. at[t] = "check" /\ job[t].todo \subseteq Targets
    BY <1>2, Placed DEF CheckTarget
  <2>3. Informed(t, l) /\ l.todo \subseteq Targets
    BY <1>0, <2>2 DEF Informed
  <2>4. Fits("check", l)
    BY <2>2, <2>3, Placed, FitsWhen DEF Informed
  <2> HIDE DEF l
  <2>5. Learn(t, l, "check")
    BY <2>1 DEF l
  <2> QED
    BY <2>3, <2>4, <2>5, LearnGood, InTransaction
<1>3. CASE Decide(t)
  <2> DEFINE l == [job[t] EXCEPT !.out = "greeted"]
  <2>1. Informed(t, l)
    BY <1>0 DEF Informed
  <2>2. at[t] = "check" /\ (Answer(t, "gate") \/ Learn(t, l, "admit"))
    BY <1>3 DEF Decide
  <2> HIDE DEF l
  <2>3. Fits("admit", l)
    BY <2>1, <2>2, Placed, FitsWhen DEF Informed
  <2> QED
    BY <2>1, <2>2, <2>3, LearnGood, AnswerGood, InTransaction
<1>4. CASE LoadUser(t)
  <2>1. Fits("count", job[t]) /\ Fits("reply", job[t])
        /\ OfUsers \X {job[t].by} \subseteq Cells
    BY <1>4, Placed, FitsWhen, CellsOfAll DEF LoadUser
  <2> QED
    BY <1>4, <2>1, PassGood, HoldGood, InTransaction DEF LoadUser
<1>5. CASE RecordStart(t)
  <2> DEFINE starts == <<"starts", job[t].by>>
  <2>1. Put(t, starts :> Val(t, starts) + 1, "reply")
    BY <1>5 DEF RecordStart
  <2>2. starts \in Cells
    BY Placed, CellsOfAll DEF OfUsers
  <2>3. DOMAIN (starts :> Val(t, starts) + 1) \subseteq Cells
    BY <2>2 DEF :>
  <2> QED
    BY <2>1, <2>3, PutGood, FitsWhen, InTransaction
<1>6. CASE Recheck(t)
  <2>1. Fits("gate", job[t])
    BY <1>6, FitsWhen DEF Recheck
  <2> QED
    BY <1>6, <2>1, PassGood, InTransaction DEF Recheck
<1>7. CASE Confirm(t)
  <2> DEFINE l == [job[t] EXCEPT !.out = "confirmed"]
  <2>1. Informed(t, l)
    BY <1>0 DEF Informed
  <2>2. job[t].kind = "confirm" /\ (Answer(t, "confirmed") \/ Learn(t, l, "confirming"))
    BY <1>7 DEF Confirm
  <2> HIDE DEF l
  <2>3. Fits("confirming", l)
    BY <2>1, <2>2, FitsWhen DEF Informed
  <2> QED
    BY <2>1, <2>2, <2>3, LearnGood, AnswerGood, InTransaction
<1>8. CASE InsertConfirmation(t)
  <2> DEFINE row == <<"confirmed", <<job[t].by, job[t].arg>>>>
  <2>1. job[t].by \in Users /\ job[t].arg \in Targets
    BY <1>8, Placed DEF InsertConfirmation
  <2>2. row \in Cells
    BY <2>1, CellsOfAll
  <2>3. DOMAIN (row :> TRUE) \subseteq Cells
    BY <2>2 DEF :>
  <2>4. Add(t, row :> TRUE, {<<"user", job[t].by>>, <<"target", job[t].arg>>}, "reply")
    BY <1>8 DEF InsertConfirmation
  <2> QED
    BY <2>3, <2>4, AddGood, FitsWhen, InTransaction
<1>9. CASE StartAdd(t)
  <2>1. [fsm EXCEPT !.state = "choosing"] \in Conversations
    BY DEF CInv, Conversations, FsmStates
  <2> QED
    BY <1>9, <2>1, ConverseGood, FitsWhen, InTransaction DEF StartAdd
<1>10. CASE CancelAdd(t)
  BY <1>10, <1>c, ConverseGood, FitsWhen, InTransaction DEF CancelAdd
<1>11. CASE ChoosePlatform(t)
  <2> DEFINE next == IF job[t].arg = "telegram" THEN Cleared
                     ELSE [fsm EXCEPT !.state = "title", !.fields = @ \cup {"platform"}]
  <2>1. next \in Conversations
    BY <1>c DEF CInv, Conversations, FsmStates, Fields
  <2>2. Converse(t, next, "reply")
    BY <1>11 DEF ChoosePlatform
  <2> HIDE DEF next
  <2> QED
    BY <2>1, <2>2, ConverseGood, FitsWhen, InTransaction
<1>12. CASE PickChat(t)
  <2>1. Fits("picked", job[t])
    BY <1>12, FitsWhen DEF PickChat
  <2> QED
    BY <1>12, <1>c, <2>1, ConverseGood, InTransaction DEF PickChat
<1>13. CASE FindPicked(t)
  <2> DEFINE l == [job[t] EXCEPT !.isNew = Of(db, <<"target", job[t].arg>>) = None]
  <2>1. Informed(t, l)
    <3> DEFINE new == Of(db, <<"target", job[t].arg>>) = None
    <3> HIDE DEF new
    <3>1. Informed(t, [job[t] EXCEPT !.isNew = new])
      BY <1>0 DEF Informed
    <3> QED
      BY <3>1 DEF new
  <2>2. at[t] = "picked" /\ (Load(t, Flags(job[t].arg), l, "adding") \/ Answer(t, "no chat"))
    BY <1>13 DEF FindPicked
  <2> HIDE DEF l
  <2>3. Fits("adding", l) /\ Flags(job[t].arg) \subseteq Cells
    BY <2>1, <2>2, Placed, CellsOfAll, FitsWhen DEF Informed
  <2> QED
    BY <2>1, <2>2, <2>3, LoadGood, AnswerGood, InTransaction
<1>14. CASE AddTelegram(t)
  <2> DEFINE c == job[t].arg
             cells == TargetCells(c, TRUE, TRUE)
  <2>1. Add(t, cells, {}, "log") \/ Change(t, cells, <<"target", c>>, "log")
    BY <1>14 DEF AddTelegram
  <2>2. c \in Targets
    BY <1>14, Placed DEF AddTelegram
  <2>3. Flags(c) \subseteq Cells /\ DOMAIN cells = Flags(c)
    BY <2>2, TargetCellsAre, CellsOfAll
  <2> HIDE DEF cells, c
  <2>4. DOMAIN cells \subseteq Cells
    BY <2>3
  <2> QED
    BY <2>1, <2>4, AddGood, ChangeGood, FitsWhen, InTransaction
<1>15. CASE ReceiveTitleOrUrl(t)
  <2> DEFINE next == [fsm EXCEPT !.fields = @ \cup {job[t].raw},
                                 !.state = IF job[t].raw = "title" THEN "url"
                                           ELSE "instructions"]
  <2>1. job[t].raw \in {"title", "url"}
        /\ (Pass(t, "abort") \/ Converse(t, next, "reply"))
    BY <1>15 DEF ReceiveTitleOrUrl
  <2>2. next \in Conversations
    BY <2>1 DEF CInv, Conversations, FsmStates, Fields
  <2> HIDE DEF next
  <2> QED
    BY <2>1, <2>2, AbortGood, ConverseGood, FitsWhen, InTransaction
<1>16. CASE ReceiveInstructions(t)
  BY <1>16, <1>c, ConverseGood, FitsWhen, InTransaction DEF ReceiveInstructions
<1>17. CASE AddExternal(t)
  <2>1. PICK c \in External : Add(t, TargetCells(c, TRUE, TRUE), {}, "log")
    BY <1>17 DEF AddExternal
  <2>2. c \in Targets
    BY ExternalAssumption
  <2>3. DOMAIN TargetCells(c, TRUE, TRUE) = Flags(c) /\ Flags(c) \subseteq Cells
    BY <2>2, TargetCellsAre, CellsOfAll
  <2> DEFINE cells == TargetCells(c, TRUE, TRUE)
  <2>4. DOMAIN cells \subseteq Cells
    BY <2>3
  <2> QED
    BY <2>1, <2>4, AddGood, FitsWhen, InTransaction
<1>18. CASE Edit(t)
  <2>1. job[t].kind \in {"toggleActive", "toggleMandatory", "remove"}
        /\ (Pass(t, "reply") \/ Hold(t, Flags(job[t].arg), "edit"))
    BY <1>18 DEF Edit
  <2>2. Flags(job[t].arg) \subseteq Cells
    BY <2>1, Placed, CellsOfAll DEF OfATarget
  <2>3. Fits("edit", job[t])
    BY <2>1, FitsWhen
  <2> QED
    BY <2>1, <2>2, <2>3, PassGood, HoldGood, FitsWhen, InTransaction
<1>19. CASE SaveEdit(t)
  <2> DEFINE c == job[t].arg
             row == <<"target", c>>
             flag == <<IF job[t].kind = "toggleActive" THEN "active" ELSE "mandatory", c>>
             confirmed == [x \in {"confirmed"} \X (Users \X {c}) |-> None]
             gone == row :> None @@ confirmed
             changed == flag :> ~ Val(t, flag)
  <2>1. Change(t, gone, row, "log") \/ Change(t, changed, row, "reply")
    BY <1>19 DEF SaveEdit
  <2>2. c \in Targets
    BY <1>19, Placed DEF SaveEdit
  <2>3. row \in Cells /\ flag \in Cells
    BY <2>2, CellsOfAll DEF OfTargets
  <2>4. {"confirmed"} \X (Users \X {c}) \subseteq Cells
    BY <2>2 DEF Cells
  <2> DEFINE value == ~ Val(t, flag)
  <2> HIDE DEF confirmed, row, flag, c, value
  <2>5. DOMAIN confirmed \subseteq Cells
    BY <2>4 DEF confirmed
  <2>6. DOMAIN gone \subseteq Cells
    BY <2>3, <2>5 DEF @@, :>
  <2>7. DOMAIN changed \subseteq Cells
    BY <2>3 DEF :>
  <2> HIDE DEF gone, changed
  <2> QED
    BY <2>1, <2>6, <2>7, ChangeGood, FitsWhen, InTransaction
<1> QED
  BY <1>1, <1>2, <1>3, <1>4, <1>5, <1>6, <1>7, <1>8, <1>9, <1>10, <1>11, <1>12, <1>13,
     <1>14, <1>15, <1>16, <1>17, <1>18, <1>19 DEF SubscriptionsStep

-----------------------------------------------------------------------------
(* Registration.                                                           *)
LEMMA RegistrationGood ==
    ASSUME CInv, NEW t \in Tasks, RegistrationStep(t)
    PROVE  Good(t)
<1>0. Informed(t, job[t])
  BY StillInformed
<1>1. CASE CheckBlacklist(t)
  <2>1. Fits("maintenance", job[t])
    BY <1>1, FitsWhen DEF CheckBlacklist
  <2> QED
    BY <1>1, <2>1, PassGood, AnswerGood, InTransaction DEF CheckBlacklist
<1>2. CASE CheckMaintenance(t)
  <2>1. Fits("find", job[t])
    BY <1>2, Placed, FitsWhen DEF CheckMaintenance
  <2> QED
    BY <1>2, <2>1, PassGood, AnswerGood, InTransaction DEF CheckMaintenance
<1>3. CASE FindUser(t)
  <2> DEFINE new == Of(db, <<"user", job[t].by>>) = None
             l == [job[t] EXCEPT !.isNew = new]
  <2>1. Load(t, OfUsers \X {job[t].by}, l, "register") /\ at[t] = "find"
    BY <1>3 DEF FindUser
  <2> HIDE DEF new
  <2>2. Informed(t, l)
    BY <1>0 DEF Informed
  <2> HIDE DEF l
  <2>3. Fits("register", l) /\ OfUsers \X {job[t].by} \subseteq Cells
    BY <2>1, <2>2, Placed, CellsOfAll, FitsWhen DEF Informed
  <2> QED
    BY <2>1, <2>2, <2>3, LoadGood, InTransaction
<1>4. CASE UpdateName(t)
  <2> DEFINE user == <<"user", job[t].by>>
             value == Val(t, user)
  <2>1. (Pass(t, "gate") \/ Flush(t, user :> value, "gate")) /\ at[t] = "register"
    BY <1>4 DEF UpdateName
  <2>2. Fits("gate", job[t]) /\ user \in Cells
    BY <2>1, Placed, CellsOfAll, FitsWhen DEF OfUsers
  <2> HIDE DEF value
  <2>3. DOMAIN (user :> value) \subseteq Cells
    BY <2>2 DEF :>
  <2> QED
    BY <2>1, <2>2, <2>3, PassGood, FlushGood, InTransaction
<1>5. CASE NewUser(t)
  <2> DEFINE r == Referrer(t)
             user == <<"user", job[t].by>>
             row == user :> [by |-> r]
             next == IF r = None THEN "registered" ELSE "referrer"
             needs == IF r = None THEN {} ELSE {<<"user", r>>}
  <2>1. Add(t, row, needs, next) /\ at[t] = "register"
    BY <1>5 DEF NewUser
  <2>2. user \in Cells
    BY Placed, CellsOfAll DEF OfUsers
  <2>3. DOMAIN row \subseteq Cells
    BY <2>2 DEF :>
  <2>4. Fits(next, job[t])
    BY <2>1, Placed, FitsWhen DEF Referrer
  <2>5. next \notin NoSession
    BY InTransaction
  <2> HIDE DEF row, next, needs
  <2> QED
    BY <2>1, <2>3, <2>4, <2>5, AddGood
<1>6. CASE LoadReferrer(t)
  <2>1. Fits("invite", job[t]) /\ OfUsers \X {Referrer(t)} \subseteq Cells
    BY <1>6, Placed, FitsWhen, CellsOfAll DEF LoadReferrer, Referrer
  <2> QED
    BY <1>6, <2>1, HoldGood, InTransaction DEF LoadReferrer
<1>7. CASE CountInvite(t)
  <2> DEFINE invites == <<"invites", Referrer(t)>>
             value == Val(t, invites) + 1
  <2>1. Put(t, invites :> value, "registered") /\ at[t] = "invite"
    BY <1>7 DEF CountInvite
  <2>2. invites \in Cells /\ Fits("registered", job[t])
    BY <2>1, Placed, FitsWhen, CellsOfAll DEF Referrer, OfUsers
  <2> HIDE DEF value
  <2>3. DOMAIN (invites :> value) \subseteq Cells
    BY <2>2 DEF :>
  <2> QED
    BY <2>1, <2>2, <2>3, PutGood, InTransaction
<1>8. CASE LogRegistration(t)
  <2> DEFINE next == IF Referrer(t) = None THEN "gate" ELSE "reward"
  <2>1. Flush(t, <<"log", t>> :> TRUE, next) /\ at[t] = "registered"
    BY <1>8 DEF LogRegistration
  <2>2. <<"log", t>> \in Cells
    BY CellsOfAll
  <2>3. DOMAIN (<<"log", t>> :> TRUE) \subseteq Cells
    BY <2>2 DEF :>
  <2>4. Fits(next, job[t])
    BY <2>1, Placed, FitsWhen DEF Referrer
  <2>5. next \notin NoSession
    BY InTransaction
  <2> HIDE DEF next
  <2> QED
    BY <2>1, <2>3, <2>4, <2>5, FlushGood
<1>9. CASE Reward(t)
  <2> DEFINE row == <<"reward", t>> :> Referrer(t)
  <2>1. at[t] = "reward" /\ (Add(t, row, {}, "bonus") \/ Pass(t, "gate"))
    BY <1>9 DEF Reward
  <2>2. <<"reward", t>> \in Cells
    BY CellsOfAll
  <2>3. DOMAIN row \subseteq Cells
    BY <2>2 DEF :>
  <2>4. Fits("bonus", job[t]) /\ Fits("gate", job[t])
    BY <2>1, Placed, FitsWhen
  <2> HIDE DEF row
  <2> QED
    BY <2>1, <2>3, <2>4, AddGood, PassGood, InTransaction
<1>10. CASE Bonus(t)
  <2> DEFINE premium == <<"premium", Referrer(t)>>
             row == premium :> TRUE
  <2>1. /\ at[t] = "bonus"
        /\ Pass(t, "gate") \/ Pass(t, "abort") \/ Flush(t, row, "granted")
    BY <1>10 DEF Bonus
  <2>2. premium \in Cells /\ Fits("granted", job[t]) /\ Fits("gate", job[t])
    BY <2>1, Placed, FitsWhen, CellsOfAll DEF Referrer, OfUsers
  <2>3. DOMAIN row \subseteq Cells
    BY <2>2 DEF :>
  <2> HIDE DEF row
  <2> QED
    BY <2>1, <2>2, <2>3, PassGood, AbortGood, FlushGood, InTransaction
<1>11. CASE NoteBonus(t)
  <2> DEFINE row == <<"bonus", t>> :> Referrer(t)
  <2>1. at[t] = "granted" /\ Add(t, row, {}, "gate")
    BY <1>11 DEF NoteBonus
  <2>2. <<"bonus", t>> \in Cells
    BY CellsOfAll
  <2>3. DOMAIN row \subseteq Cells
    BY <2>2 DEF :>
  <2>4. Fits("gate", job[t])
    BY <2>1, Placed, FitsWhen
  <2> HIDE DEF row
  <2> QED
    BY <2>1, <2>3, <2>4, AddGood, InTransaction
<1> QED
  BY <1>1, <1>2, <1>3, <1>4, <1>5, <1>6, <1>7, <1>8, <1>9, <1>10, <1>11
     DEF RegistrationStep

-----------------------------------------------------------------------------
(* The panel.                                                              *)
LEMMA PanelGood ==
    ASSUME CInv, NEW t \in Tasks, PanelStep(t)
    PROVE  Good(t)
<1>0. Informed(t, job[t])
  BY StillInformed
<1>1. CASE ToggleSetting(t)
  <2> DEFINE value == IF On(Sees(t), job[t].arg) THEN "off" ELSE "on"
             l == [job[t] EXCEPT !.key = job[t].arg, !.value = value]
  <2>1. Learn(t, l, "find setting") /\ job[t].kind = "toggleSetting"
    BY <1>1 DEF ToggleSetting, Handling
  <2>2. job[t].arg \in Keys /\ value # None
    BY <2>1, Placed, UpdatesAssumption
  <2> HIDE DEF value
  <2>3. Informed(t, l) /\ l.key \in Keys /\ l.value # None
    BY <1>0, <2>2 DEF Informed, JobFields
  <2> HIDE DEF l
  <2>4. Fits("find setting", l)
    BY <2>3, FitsWhen
  <2> QED
    BY <2>1, <2>3, <2>4, LearnGood, InTransaction
<1>2. CASE FindSetting(t)
  <2> DEFINE row == <<"setting", job[t].key>>
  <2>1. at[t] = "find setting" /\ (Pass(t, "insert setting") \/ Hold(t, {row}, "update setting"))
    BY <1>2 DEF FindSetting
  <2>2. row \in Cells /\ Fits("insert setting", job[t]) /\ Fits("update setting", job[t])
    BY <2>1, Placed, FitsWhen, CellsOfAll
  <2> HIDE DEF row
  <2> QED
    BY <2>1, <2>2, PassGood, HoldGood, InTransaction
<1>3. CASE InsertSetting(t) \/ UpdateSetting(t)
  <2> DEFINE row == <<"setting", job[t].key>>
             value == row :> job[t].value
  <2>1. /\ at[t] \in {"insert setting", "update setting"}
        /\ Add(t, value, {}, "reply") \/ Put(t, value, "reply")
    BY <1>3 DEF InsertSetting, UpdateSetting
  <2>2. row \in Cells
    BY <2>1, Placed, CellsOfAll
  <2>3. DOMAIN value \subseteq Cells
    BY <2>2 DEF :>
  <2> HIDE DEF value
  <2> QED
    BY <2>1, <2>3, AddGood, PutGood, FitsWhen, InTransaction
<1>4. CASE EditSetting(t)
  <2> DEFINE next == [fsm EXCEPT !.state = "value", !.key = job[t].arg]
  <2>1. Converse(t, next, "reply") /\ job[t].kind = "editSetting"
    BY <1>4 DEF EditSetting, Handling
  <2>2. job[t].arg \in Keys
    BY <2>1, Placed
  <2>3. next \in Conversations
    BY <2>2 DEF CInv, Conversations, FsmStates
  <2> HIDE DEF next
  <2> QED
    BY <2>1, <2>3, ConverseGood, FitsWhen, InTransaction
<1>5. CASE ReceiveValue(t)
  <2> DEFINE l == [job[t] EXCEPT !.key = fsm.key, !.value = job[t].arg]
             s == IF fsm.key = None THEN "reply"
                  ELSE IF job[t].arg = "bad" THEN "refuse" ELSE "find setting"
  <2>1. Typed(t) /\ Shape
    BY DEF CInv
  <2>2. job' = [job EXCEPT ![t] = l] /\ at' = [at EXCEPT ![t] = s]
    BY <1>5 DEF ReceiveValue, Goto
  <2>3. UNCHANGED <<backend, db, session, wrote, told, restarts>>
    BY <1>5 DEF ReceiveValue
  <2>4. fsm.key \in Keys \cup {None} /\ fsm \in Conversations
    BY DEF CInv, Conversations
  <2>5. fsm' \in Conversations
    BY <1>5, <2>4 DEF ReceiveValue, Conversations, Cleared, FsmStates
  <2>6. /\ DOMAIN l = JobFields /\ Informed(t, l)
        /\ l.key = fsm.key /\ l.value = job[t].arg /\ job[t].arg # None
    BY <1>0, <1>5, Placed DEF Informed, JobFields, ReceiveValue, Reading
  <2>7. Fits(s, l) /\ s \notin NoSession
    <3>1. \/ s = "reply"
          \/ s \in {"refuse", "find setting"} /\ l.key \in Keys /\ l.value # None
      BY <2>4, <2>6
    <3> HIDE DEF s, l
    <3> QED
      BY <3>1, FitsWhen, InTransaction
  <2> HIDE DEF l, s
  <2>8. job'[t] = l /\ at'[t] = s
    BY <2>1, <2>2 DEF Shape
  <2>9. Alone(t)
    BY <2>1, <2>2, <2>3, <2>6 DEF Alone, Shape
  <2>10. Typed(t)' /\ Located(t)'
    BY <2>1, <2>3, <2>6, <2>7, <2>8 DEF Typed, Located, Informed
  <2> QED
    BY <2>3, <2>5, <2>6, <2>8, <2>9, <2>10 DEF Good, SameUpdate, Informed, CInv
<1>6. CASE OpenBlacklist(t)
  <2> DEFINE next == [fsm EXCEPT !.state = "blacklist", !.fields = @ \cup {"entryType"}]
  <2>1. Converse(t, next, "reply")
    BY <1>6 DEF OpenBlacklist
  <2>2. next \in Conversations
    BY DEF CInv, Conversations, FsmStates, Fields
  <2> HIDE DEF next
  <2> QED
    BY <2>1, <2>2, ConverseGood, FitsWhen, InTransaction
<1>7. CASE ReceiveBlocked(t)
  <2>1. Pass(t, "reply") \/ Pass(t, "new entry")
    BY <1>7 DEF ReceiveBlocked
  <2> QED
    BY <2>1, PassGood, FitsWhen, InTransaction
<1>8. CASE AddEntry(t)
  <2> DEFINE row == <<"entry", t>> :> job[t].arg
  <2>1. Flush(t, row, "reply")
    BY <1>8 DEF AddEntry
  <2>2. <<"entry", t>> \in Cells
    BY CellsOfAll
  <2>3. DOMAIN row \subseteq Cells
    BY <2>2 DEF :>
  <2> HIDE DEF row
  <2> QED
    BY <2>1, <2>3, FlushGood, FitsWhen, InTransaction
<1>9. CASE Unblock(t)
  <2> DEFINE entry == <<"entry", job[t].arg>>
  <2>1. job[t].kind = "unblock" /\ (Pass(t, "reply") \/ Hold(t, {entry}, "unblock"))
    BY <1>9 DEF Unblock, Handling
  <2>2. entry \in Cells
    BY <2>1, Placed, CellsOfAll
  <2>3. Fits("unblock", job[t]) /\ Fits("reply", job[t])
    BY <2>1, FitsWhen
  <2> HIDE DEF entry
  <2> QED
    BY <2>1, <2>2, <2>3, PassGood, HoldGood, InTransaction
<1>10. CASE DeactivateEntry(t)
  <2> DEFINE entry == <<"entry", job[t].arg>>
             row == entry :> "inactive"
  <2>1. Put(t, row, "reply") /\ at[t] = "unblock"
    BY <1>10 DEF DeactivateEntry
  <2>2. entry \in Cells
    BY <2>1, Placed, CellsOfAll
  <2>3. DOMAIN row \subseteq Cells
    BY <2>2 DEF :>
  <2> HIDE DEF row
  <2> QED
    BY <2>1, <2>3, PutGood, FitsWhen, InTransaction
<1>11. CASE FindUserToAct(t)
  <2>1. /\ job[t].kind \in {"ban", "unban", "mute"}
        /\ Pass(t, "reply") \/ Hold(t, OfUsers \X {job[t].arg}, "act")
    BY <1>11 DEF FindUserToAct
  <2>2. OfUsers \X {job[t].arg} \subseteq Cells
    BY <2>1, Placed, CellsOfAll
  <2>3. Fits("act", job[t]) /\ Fits("reply", job[t])
    BY <2>1, FitsWhen
  <2> QED
    BY <2>1, <2>2, <2>3, PassGood, HoldGood, InTransaction
<1>12. CASE ActOnUser(t)
  <2> DEFINE muted == <<"muted", job[t].arg>>
             banned == <<"banned", job[t].arg>>
             value == ~ Val(t, muted)
             ban == job[t].kind = "ban"
  <2>1. at[t] = "act" /\ (Put(t, muted :> value, "log") \/ Put(t, banned :> ban, "log"))
    BY <1>12 DEF ActOnUser
  <2>2. muted \in Cells /\ banned \in Cells
    BY <2>1, Placed, CellsOfAll DEF OfUsers
  <2> HIDE DEF value, ban
  <2>3. DOMAIN (muted :> value) \subseteq Cells /\ DOMAIN (banned :> ban) \subseteq Cells
    BY <2>2 DEF :>
  <2> QED
    BY <2>1, <2>3, PutGood, FitsWhen, InTransaction
<1>13. CASE RefuseValue(t)
  <2> DEFINE next == [fsm EXCEPT !.state = "value", !.key = job[t].key]
  <2>1. at[t] = "refuse" /\ (Converse(t, next, "commit") \/ Pass(t, "abort"))
    BY <1>13 DEF RefuseValue
  <2>2. next \in Conversations
    BY <2>1, Placed DEF CInv, Conversations, FsmStates
  <2> HIDE DEF next
  <2> QED
    BY <2>1, <2>2, ConverseGood, PassGood, FitsWhen, InTransaction
<1> QED
  BY <1>1, <1>2, <1>3, <1>4, <1>5, <1>6, <1>7, <1>8, <1>9, <1>10, <1>11, <1>12, <1>13
     DEF PanelStep

-----------------------------------------------------------------------------
(* Receiving, logging, answering, and the end of a transaction.            *)
LEMMA Ending ==
    ASSUME CInv, NEW t \in Tasks, Closed(t), NEW s \in {"done", "failed", "idle"}, Goto(t, s),
           UNCHANGED <<backend, fsm, job, told, restarts>>, DOMAIN db' \subseteq Cells
    PROVE  Good(t)
<1>1. Shape /\ Typed(t) /\ Located(t) /\ fsm \in Conversations
  BY DEF CInv
<1>2. session'[t] = <<>> /\ wrote'[t] = {} /\ at'[t] = s /\ job'[t] = job[t]
  BY <1>1 DEF Closed, Goto, Shape
<1>3. Alone(t)
  BY <1>1 DEF Closed, Goto, Shape, Alone
<1>4. Fits(s, job[t])
  BY FitsWhen
<1>5. DOMAIN <<>> \subseteq Cells
  OBVIOUS
<1>6. Typed(t)' /\ Located(t)'
  BY <1>1, <1>2, <1>4, <1>5 DEF Typed, Located
<1> QED
  BY <1>1, <1>2, <1>3, <1>6 DEF Good, SameUpdate

LEMMA CommitGood ==
    ASSUME CInv, NEW t \in Tasks, Commit(t)
    PROVE  Good(t)
<1> DEFINE rows == [c \in wrote[t] |-> session[t][c]] @@ db
<1>1. DOMAIN db \subseteq Cells /\ wrote[t] \subseteq Cells
  BY DEF CInv, Typed
<1>2. DOMAIN rows \subseteq Cells
  BY <1>1 DEF @@
<1>3. db' = Written(rows)
  BY DEF Commit
<1> HIDE DEF rows
<1>4. DOMAIN db' \subseteq Cells
  BY <1>2, <1>3, Restricted DEF Written, Restrict
<1> QED
  BY <1>4, Ending DEF Commit

LEMMA RollbackGood ==
    ASSUME CInv, NEW t \in Tasks, Rollback(t)
    PROVE  Good(t)
BY Ending DEF Rollback, CInv

LEMMA ReplyGood ==
    ASSUME CInv, NEW t \in Tasks, Reply(t)
    PROVE  Good(t)
<1>1. Shape /\ Typed(t) /\ Located(t) /\ fsm \in Conversations
  BY DEF CInv
<1>2. PICK s \in {"commit", "abort"} : Goto(t, s)
  BY DEF Reply
<1>3. at'[t] = s /\ Fits(s, job[t]) /\ s \notin NoSession
  BY <1>1, <1>2, FitsWhen, InTransaction DEF Goto, Shape
<1>4. Alone(t)
  BY <1>1, <1>2 DEF Reply, Goto, Shape, Alone
<1>5. UNCHANGED <<backend, db, session, wrote, fsm, job, restarts>>
  BY DEF Reply
<1>6. Typed(t)' /\ Located(t)'
  BY <1>1, <1>3, <1>5 DEF Typed, Located
<1> QED
  BY <1>1, <1>4, <1>5, <1>6 DEF Good, SameUpdate, CInv

LEMMA CoreGood ==
    ASSUME CInv, NEW t \in Tasks,
           \/ Receive(t) \/ Ignore(t) \/ Throttle(t) \/ LockTimeout(t)
           \/ Log(t) \/ Reply(t) \/ Commit(t) \/ Rollback(t)
    PROVE  Good(t)
<1>1. CASE Receive(t)
  <2> DEFINE l == [job[t] EXCEPT !.raw = fsm.state]
  <2>1. Learn(t, l, "route") /\ at[t] = "idle"
    BY <1>1 DEF Receive
  <2>2. Informed(t, l)
    BY StillInformed DEF Informed, CInv, Conversations
  <2> HIDE DEF l
  <2> QED
    BY <2>1, <2>2, LearnGood, FitsWhen DEF NoSession
<1>2. CASE Ignore(t) \/ Throttle(t) \/ LockTimeout(t)
  <2>1. Pass(t, "commit") \/ Pass(t, "abort")
    BY <1>2 DEF Ignore, Throttle, LockTimeout
  <2> QED
    BY <2>1, PassGood, FitsWhen, InTransaction
<1>3. CASE Log(t)
  <2> DEFINE row == <<"log", t>> :> TRUE
  <2>1. Flush(t, row, "reply")
    BY <1>3 DEF Log
  <2>2. <<"log", t>> \in Cells
    BY CellsOfAll
  <2>3. DOMAIN row \subseteq Cells
    BY <2>2 DEF :>
  <2> HIDE DEF row
  <2> QED
    BY <2>1, <2>3, FlushGood, FitsWhen, InTransaction
<1> QED
  BY <1>1, <1>2, <1>3, ReplyGood, CommitGood, RollbackGood

-----------------------------------------------------------------------------
(* Broadcasts.                                                             *)
LEMMA ComposeGood ==
    ASSUME CInv, NEW t \in Tasks, ComposeStep(t)
    PROVE  Good(t)
<1>1. CASE Compose(t) \/ ReceiveContent(t) \/ ReceiveButtons(t) \/ CancelSend(t)
  <2>1. /\ [fsm EXCEPT !.state = "content"] \in Conversations
        /\ [fsm EXCEPT !.state = "confirm"] \in Conversations
    BY DEF CInv, Conversations, FsmStates
  <2>2. [fsm EXCEPT !.content = t, !.state = "buttons"] \in Conversations
    BY DEF CInv, Conversations, FsmStates
  <2>3. Cleared \in Conversations
    BY DEF Conversations, FsmStates, Cleared
  <2> QED
    BY <1>1, <2>1, <2>2, <2>3, ConverseGood, FitsWhen, InTransaction
       DEF Compose, ReceiveContent, ReceiveButtons, CancelSend
<1>2. CASE ConfirmSend(t)
  <2> DEFINE l == [job[t] EXCEPT !.value = fsm.content]
             s == IF fsm.content = None THEN "abort" ELSE "create"
  <2>1. Typed(t) /\ Shape
    BY DEF CInv
  <2>2. job' = [job EXCEPT ![t] = l] /\ at' = [at EXCEPT ![t] = s]
    BY <1>2 DEF ConfirmSend, Goto
  <2>3. UNCHANGED <<backend, db, session, wrote, told, restarts>> /\ fsm' \in Conversations
    BY <1>2 DEF ConfirmSend, Conversations, Cleared, FsmStates
  <2>4. DOMAIN l = JobFields /\ Informed(t, l)
    BY StillInformed DEF Informed, JobFields
  <2>5. Fits(s, l) /\ s \notin NoSession
    BY FitsWhen, InTransaction
  <2> HIDE DEF l, s
  <2>6. job'[t] = l /\ at'[t] = s
    BY <2>1, <2>2 DEF Shape
  <2>7. Alone(t)
    BY <2>1, <2>2, <2>3, <2>4 DEF Alone, Shape
  <2>8. Typed(t)' /\ Located(t)'
    BY <2>1, <2>3, <2>4, <2>5, <2>6 DEF Typed, Located, Informed
  <2> QED
    BY <2>3, <2>4, <2>6, <2>7, <2>8 DEF Good, SameUpdate, Informed, CInv
<1> QED
  BY <1>1, <1>2 DEF ComposeStep

LEMMA Untouched ==
    ASSUME CInv, NEW t \in Tasks, UNCHANGED core
    PROVE  Good(t)
BY DEF CInv, core, Good, Alone, Shape, SameUpdate, Located, Typed

LEMMA CountedGood ==
    ASSUME CInv, NEW t \in Tasks, NEW count, Counted(t, count), NEW l, Informed(t, l),
           DOMAIN job' = Tasks, DOMAIN at' = Tasks, job'[t] = l, at'[t] = "batch",
           \A o \in Tasks \ {t} : at'[o] = at[o] /\ job'[o] = job[o], l.todo \subseteq Users,
           UNCHANGED <<backend, db, wrote, fsm, told, restarts>>
    PROVE  Good(t)
<1>1. Shape /\ Typed(t) /\ DOMAIN l = JobFields
  BY DEF CInv, Informed
<1> DEFINE row == Campaign(t) :> count
<1>2. session'[t] = row @@ session[t]
  BY <1>1 DEF Counted, Shape
<1>3. Campaign(t) \in Cells
  BY CellsOfAll DEF Campaign
<1>4. DOMAIN row \subseteq Cells
  BY <1>3 DEF :>
<1> HIDE DEF row
<1>5. DOMAIN session'[t] = DOMAIN row \cup DOMAIN session[t]
  BY <1>2 DEF @@
<1>6. at'[t] = "batch" /\ job'[t] = l
  OBVIOUS
<1>7. DOMAIN session' = Tasks /\ \A o \in Tasks \ {t} : session'[o] = session[o]
  BY <1>1 DEF Counted, Shape
<1>8. Alone(t)
  BY <1>1, <1>7 DEF Alone, Shape
<1>9. Typed(t)'
  BY <1>1, <1>4, <1>5, <1>6 DEF Typed, Informed
<1>10. Located(t)'
  BY <1>6, FitsWhen, InTransaction DEF Located
<1> QED
  BY <1>6, <1>8, <1>9, <1>10 DEF Good, SameUpdate, Informed, CInv

LEMMA CountGood ==
    ASSUME CInv, NEW t \in Tasks, NEW field, Count(t, field),
           UNCHANGED <<backend, db, wrote, fsm, at, job, told, restarts>>
    PROVE  Good(t)
<1>1. CASE at[t] = "batch"
  <2>1. PICK count : Counted(t, count)
    BY <1>1 DEF Count
  <2>2. Informed(t, job[t]) /\ job[t].todo \subseteq Users
    BY <1>1, StillInformed, Placed
  <2>3. DOMAIN job' = Tasks /\ DOMAIN at' = Tasks
    BY DEF CInv, Shape
  <2> QED
    BY <1>1, <2>1, <2>2, <2>3, CountedGood
<1>2. CASE at[t] # "batch"
  <2>1. UNCHANGED core
    BY <1>2 DEF Count, core
  <2> QED
    BY <2>1, Untouched
<1> QED
  BY <1>1, <1>2

LEMMA DeliveryGood ==
    ASSUME CInv, NEW t \in Tasks, NEW u \in DOMAIN legs[t], u \in Users, DeliveryStep(t, u)
    PROVE  Good(t)
<1>1. CASE Deliver(t, u) \/ FailToDeliver(t, u)
  BY <1>1, CountGood DEF Deliver, FailToDeliver
<1>2. CASE WaitForFlood(t, u)
  BY <1>2, Untouched DEF WaitForFlood
<1>3. CASE NoteFailure(t, u)
  <2>1. Pass(t, "abort") \/ UNCHANGED core
    BY <1>3 DEF NoteFailure
  <2> QED
    BY <2>1, AbortGood, Untouched
<1>4. CASE FailureNoted(t, u)
  <2> DEFINE row == <<"failure", <<t, u>>>> :> TRUE
  <2>1. (at[t] = "batch" /\ Add(t, row, {}, "batch")) \/ UNCHANGED core
    BY <1>4 DEF FailureNoted
  <2>2. CASE UNCHANGED core
    BY <2>2, Untouched
  <2>3. CASE at[t] = "batch" /\ Add(t, row, {}, "batch")
    <3>1. <<"failure", <<t, u>>>> \in Cells
      BY CellsOfAll
    <3>2. DOMAIN row \subseteq Cells
      BY <3>1 DEF :>
    <3>3. Fits("batch", job[t])
      BY <2>3, Placed, FitsWhen
    <3> HIDE DEF row
    <3> QED
      BY <2>3, <3>2, <3>3, AddGood, InTransaction
  <2> QED
    BY <2>1, <2>2, <2>3
<1> QED
  BY <1>1, <1>2, <1>3, <1>4 DEF DeliveryStep

LEMMA CampaignGood ==
    ASSUME CInv, NEW t \in Tasks, DOMAIN legs[t] \subseteq Users, CampaignStep(t)
    PROVE  Good(t)
<1>0. Informed(t, job[t])
  BY StillInformed
<1>1. CASE CreateCampaign(t)
  <2> DEFINE row == Campaign(t) :> [content |-> job[t].value,
                                    total |-> 0, sent |-> 0, failed |-> 0]
  <2>1. Add(t, row, {}, "announce")
    BY <1>1 DEF CreateCampaign
  <2>2. Campaign(t) \in Cells
    BY CellsOfAll DEF Campaign
  <2>3. DOMAIN row \subseteq Cells
    BY <2>2 DEF :>
  <2> HIDE DEF row
  <2> QED
    BY <2>1, <2>3, AddGood, FitsWhen, InTransaction
<1>2. CASE Announce(t)
  BY <1>2, PassGood, FitsWhen, InTransaction DEF Announce
<1>3. CASE ListRecipients(t)
  <2>1. PICK recipients \in SUBSET Users :
           /\ job' = [job EXCEPT ![t].todo = recipients]
           /\ \E count : Counted(t, count)
    BY <1>3 DEF ListRecipients
  <2> DEFINE l == [job[t] EXCEPT !.todo = recipients]
  <2>2. Informed(t, l) /\ l.todo \subseteq Users
    BY <1>0 DEF Informed, JobFields
  <2>3. /\ DOMAIN job' = Tasks /\ DOMAIN at' = Tasks /\ job'[t] = l /\ at'[t] = "batch"
        /\ \A o \in Tasks \ {t} : at'[o] = at[o] /\ job'[o] = job[o]
    BY <1>3, <2>1 DEF ListRecipients, Goto, CInv, Shape
  <2> HIDE DEF l
  <2>4. UNCHANGED <<backend, db, wrote, fsm, told, restarts>>
    BY <1>3 DEF ListRecipients
  <2> QED
    BY <2>1, <2>2, <2>3, <2>4, CountedGood
<1>4. CASE StartBatch(t)
  <2>1. PICK next : Learn(t, [job[t] EXCEPT !.todo = @ \ next], "batch")
    BY <1>4 DEF StartBatch
  <2> DEFINE l == [job[t] EXCEPT !.todo = @ \ next]
  <2>2. job[t].todo \subseteq Users
    BY <1>4, Placed DEF StartBatch, BatchIsOver
  <2>3. Informed(t, l) /\ l.todo \subseteq Users
    BY <1>0, <2>2 DEF Informed, JobFields
  <2>4. Learn(t, l, "batch")
    BY <2>1
  <2> HIDE DEF l
  <2>5. Fits("batch", l)
    BY <2>3, FitsWhen
  <2> QED
    BY <2>3, <2>4, <2>5, LearnGood, InTransaction
<1>5. CASE Finish(t)
  BY <1>5, PassGood, FitsWhen, InTransaction DEF Finish
<1>6. ASSUME NEW u \in DOMAIN legs[t], DeliveryStep(t, u) PROVE Good(t)
  <2>1. u \in Users
    OBVIOUS
  <2> QED
    BY <1>6, <2>1, DeliveryGood
<1> QED
  BY <1>1, <1>2, <1>3, <1>4, <1>5, <1>6 DEF CampaignStep

-----------------------------------------------------------------------------
(* Backups.                                                                *)
LEMMA BackupsGood ==
    ASSUME CInv, NEW t \in Tasks, BackupsStep(t)
    PROVE  Good(t)
<1>0. Informed(t, job[t])
  BY StillInformed
<1>1. CASE BeginCopy(t)
  <2>1. PICK name : Learn(t, [job[t] EXCEPT !.value = name], "copying")
    BY <1>1 DEF BeginCopy
  <2> DEFINE l == [job[t] EXCEPT !.value = name]
  <2>2. Informed(t, l)
    BY <1>0 DEF Informed, JobFields
  <2>3. Learn(t, l, "copying") /\ at[t] \in NoSession
    BY <1>1, <2>1 DEF BeginCopy, NoSession
  <2> HIDE DEF l
  <2> QED
    BY <2>2, <2>3, LearnGood, FitsWhen
<1>2. CASE EndCopy(t) \/ Prune(t) \/ NoFile(t)
  <2>1. at[t] \in NoSession /\ (Pass(t, "prune") \/ Pass(t, "reply") \/ Pass(t, "done"))
    BY <1>2 DEF EndCopy, Prune, NoFile, NoSession, Copying
  <2> QED
    BY <2>1, PassGood, FitsWhen
<1> QED
  BY <1>1, <1>2 DEF BackupsStep

-----------------------------------------------------------------------------
LEMMA StepGood ==
    ASSUME CInv, NEW t \in Tasks, DOMAIN legs[t] \subseteq Users, Step(t)
    PROVE  Good(t)
BY CoreGood, SubscriptionsGood, RegistrationGood, PanelGood, ComposeGood, CampaignGood,
   BackupsGood DEF Step, CampaignsStep

LEMMA KillKeeps ==
    ASSUME CInv, Kill
    PROVE  CInv'
<1>1. PICK again \in SUBSET {t \in Tasks : at[t] \notin {"idle", "unused"}
                                     /\ job[t].kind # "daily"} :
          /\ at' = [t \in Tasks |-> IF t \in again THEN "idle"
                                    ELSE IF Running(t) THEN "failed" ELSE at[t]]
          /\ job' = [t \in Tasks |-> IF t \in again
                                     THEN Asked(job[t].kind, job[t].by, job[t].arg)
                                     ELSE job[t]]
          /\ told' = [t \in Tasks |-> IF t \in again THEN None ELSE told[t]]
  BY DEF Kill
<1>2. session' = [t \in Tasks |-> <<>>] /\ wrote' = [t \in Tasks |-> {}] /\ fsm' = Cleared
      /\ UNCHANGED <<backend, db>>
  BY DEF Kill
<1>3. \A o \in Tasks : DOMAIN Asked(job[o].kind, job[o].by, job[o].arg) = JobFields
  BY DEF Asked, JobFields
<1>4. Shape'
  BY <1>1, <1>2, <1>3 DEF Shape, CInv
<1>5. restarts' \in Nat
  BY DEF Kill, CInv
<1>6. Cleared \in Conversations
  BY DEF Cleared, Conversations, FsmStates
<1>7. ASSUME NEW t \in Tasks PROVE Located(t)' /\ Typed(t)'
  <2> DEFINE fresh == Asked(job[t].kind, job[t].by, job[t].arg)
  <2>1. Located(t) /\ Typed(t)
    BY DEF CInv
  <2>2. session'[t] = <<>> /\ wrote'[t] = {} /\ DOMAIN <<>> = {}
    BY <1>2
  <2>3. CASE t \in again
    <3>1. at'[t] = "idle" /\ job'[t] = fresh
      BY <1>1, <2>3
    <3>2. /\ fresh.kind = job[t].kind /\ fresh.by = job[t].by /\ fresh.arg = job[t].arg
          /\ fresh.raw = "none" /\ fresh.missing = {}
      BY DEF Asked
    <3> HIDE DEF fresh
    <3>3. Typed(t)'
      BY <2>1, <2>2, <3>1, <3>2 DEF Typed, FsmStates
    <3> QED
      BY <2>2, <3>1, <3>3, FitsWhen DEF Located
  <2>4. CASE t \notin again
    <3>1. /\ job'[t] = job[t]
          /\ at'[t] = "failed" \/ at'[t] = at[t]
      BY <1>1, <2>4
    <3>2. Typed(t)'
      BY <2>1, <2>2, <3>1 DEF Typed
    <3> QED
      BY <2>1, <2>2, <3>1, <3>2, FitsWhen DEF Located
  <2> QED
    BY <2>3, <2>4
<1> QED
  BY <1>2, <1>4, <1>5, <1>6, <1>7 DEF CInv

-----------------------------------------------------------------------------
(* What is kept outside of the core.                                       *)
LegFields == {"step", "left"}

LegsOK ==
    /\ DOMAIN legs = Tasks
    /\ \A t \in Tasks : /\ DOMAIN legs[t] \subseteq Users
                        /\ \A u \in DOMAIN legs[t] : DOMAIN legs[t][u] = LegFields

(* A backup's number is one more than the greatest there is.               *)
Numbered == DOMAIN copies \subseteq Nat /\ \E n \in Nat : \A x \in DOMAIN copies : x <= n

TInv ==
    /\ CInv /\ LegsOK /\ Numbered
    /\ members \in [Targets -> SUBSET Users] /\ moves \in Nat
    /\ reached \in [Contents \X Users -> Nat] /\ composed \in [Contents -> Nat]
    /\ DOMAIN main \subseteq Cells /\ recent \subseteq Cells

LEMMA GreatestOf ==
    ASSUME NEW S \in SUBSET Nat, S # {}, NEW n \in Nat, \A x \in S : x <= n
    PROVE  Max(S) \in S /\ \A x \in S : Max(S) >= x
<1> DEFINE less == OpToRel(<, Nat)
           bounds == {m \in Nat : \A x \in S : x <= m}
<1>1. \A x, y \in Nat : x < y => <<x, y>> \in less
  BY DEF OpToRel
<1>2. IsWellFoundedOn(less, Nat)
  BY NatLessThanWellFounded
<1>3. n \in bounds /\ bounds \subseteq Nat
  OBVIOUS
<1> HIDE DEF less
<1>4. PICK m \in bounds : \A y \in bounds : ~ (<<y, m>> \in less)
  <2> HIDE DEF bounds
  <2> QED
    BY <1>2, <1>3, WFMin
<1>5. m \in S
  <2> SUFFICES ASSUME m \notin S PROVE FALSE
    OBVIOUS
  <2>1. m \in Nat /\ \A x \in S : x < m
    OBVIOUS
  <2>2. PICK x \in S : TRUE
    OBVIOUS
  <2>3. m - 1 \in Nat /\ m - 1 < m /\ \A y \in S : y <= m - 1
    BY <2>1, <2>2
  <2>4. m - 1 \in bounds /\ <<m - 1, m>> \in less
    BY <1>1, <2>1, <2>3
  <2> QED
    BY <1>4, <2>4
<1>6. \E x \in S : \A y \in S : x >= y
  BY <1>5
<1> QED
  BY <1>6 DEF Max

LEMMA NextNumber ==
    ASSUME Numbered
    PROVE  LET name == Max(DOMAIN copies \cup {0}) + 1
           IN  name \in Nat /\ \A x \in DOMAIN copies : x < name
<1>1. PICK n \in Nat : \A x \in DOMAIN copies : x <= n
  BY DEF Numbered
<1> DEFINE S == DOMAIN copies \cup {0}
<1>2. S \in SUBSET Nat /\ S # {} /\ \A x \in S : x <= n
  BY <1>1 DEF Numbered
<1> DEFINE m == Max(S)
<1>3. m \in S /\ \A x \in S : m >= x
  <2> HIDE DEF S
  <2> QED
    BY <1>2, GreatestOf
<1> HIDE DEF m
<1>4. m + 1 \in Nat /\ \A x \in DOMAIN copies : x < m + 1
  BY <1>2, <1>3
<1> QED
  BY <1>4 DEF m

-----------------------------------------------------------------------------
LEMMA DeliveryKeepsLegs ==
    ASSUME LegsOK, NEW t \in Tasks, NEW u \in DOMAIN legs[t], DeliveryStep(t, u),
           reached \in [Contents \X Users -> Nat]
    PROVE  LegsOK' /\ reached' \in [Contents \X Users -> Nat]
<1>1. ASSUME NEW step, Leg(t, u, step) PROVE LegsOK'
  BY <1>1 DEF LegsOK, Leg, LegFields
<1>2. CASE WaitForFlood(t, u)
  BY <1>2 DEF LegsOK, WaitForFlood, LegFields
<1>3. ASSUME Reach(t, u) \/ UNCHANGED reached PROVE reached' \in [Contents \X Users -> Nat]
  BY <1>3 DEF Reach
<1> QED
  BY <1>1, <1>2, <1>3
     DEF DeliveryStep, WaitForFlood, Deliver, FailToDeliver, NoteFailure, FailureNoted

LEMMA CampaignKeepsLegs ==
    ASSUME TInv, NEW t \in Tasks, CampaignStep(t)
    PROVE  LegsOK' /\ reached' \in [Contents \X Users -> Nat]
<1>0. LegsOK /\ reached \in [Contents \X Users -> Nat]
  BY DEF TInv
<1>1. CASE (CreateCampaign(t) \/ Announce(t) \/ ListRecipients(t)) /\ UNCHANGED deliveries
  BY <1>0, <1>1 DEF deliveries, LegsOK
<1>2. CASE StartBatch(t)
  <2>1. PICK next \in SUBSET job[t].todo :
           legs' = [legs EXCEPT ![t] = [u \in next |-> [step |-> "sending", left |-> Attempts]]]
    BY <1>2 DEF StartBatch, kSubset
  <2>2. next \subseteq Users
    BY <1>2, <2>1, Placed DEF StartBatch, BatchIsOver, TInv
  <2> QED
    BY <1>0, <1>2, <2>1, <2>2 DEF LegsOK, LegFields, StartBatch
<1>3. CASE Finish(t)
  BY <1>0, <1>3 DEF LegsOK, Finish
<1>4. ASSUME NEW u \in DOMAIN legs[t], DeliveryStep(t, u)
      PROVE  LegsOK' /\ reached' \in [Contents \X Users -> Nat]
  BY <1>0, <1>4, DeliveryKeepsLegs
<1> QED
  BY <1>1, <1>2, <1>3, <1>4 DEF CampaignStep

LEMMA BackupsKeepNumbers ==
    ASSUME TInv, NEW t \in Tasks, BackupsStep(t)
    PROVE  Numbered'
<1>0. Numbered
  BY DEF TInv
<1>1. CASE BeginCopy(t)
  <2> DEFINE name == Max(DOMAIN copies \cup {0}) + 1
             copy == name :> [whole |-> FALSE, first |-> main, last |-> main,
                              committed |-> db, unsure |-> {}]
  <2>1. copies' = copy @@ copies
    BY <1>1 DEF BeginCopy
  <2>2. name \in Nat /\ \A x \in DOMAIN copies : x < name
    BY <1>0, NextNumber
  <2> HIDE DEF name
  <2>3. DOMAIN copy = {name}
    BY DEF :>
  <2> HIDE DEF copy
  <2>4. DOMAIN copies' = {name} \cup DOMAIN copies
    BY <2>1, <2>3 DEF @@
  <2>5. DOMAIN copies' \subseteq Nat /\ \A x \in DOMAIN copies' : x <= name
    BY <1>0, <2>2, <2>4 DEF Numbered
  <2> QED
    BY <2>2, <2>5 DEF Numbered
<1>2. CASE EndCopy(t) \/ Prune(t) \/ NoFile(t)
  <2>1. DOMAIN copies' \subseteq DOMAIN copies
    BY <1>2, Restricted DEF EndCopy, Prune, NoFile, Newest, Restrict
  <2> QED
    BY <1>0, <2>1 DEF Numbered
<1> QED
  BY <1>1, <1>2 DEF BackupsStep

LEMMA CheckpointKeeps ==
    ASSUME TInv, DOMAIN db' \subseteq Cells, Checkpoint
    PROVE  DOMAIN main' \subseteq Cells /\ recent' \subseteq Cells
<1>1. DOMAIN db \subseteq Cells /\ DOMAIN main \subseteq Cells /\ recent \subseteq Cells
  BY DEF TInv, CInv
<1>2. main' \in {main, db'}
  BY DEF Checkpoint
<1>3. Changed \subseteq Cells
  BY <1>1 DEF Changed, Differ
<1>4. recent' \subseteq recent \cup Changed
  BY DEF Checkpoint, Unsettled
<1> QED
  BY <1>1, <1>2, <1>3, <1>4

LEMMA StepKeepsTypes ==
    ASSUME TInv, NEW t \in Tasks, Step(t)
    PROVE  TInv'
<1>0. CInv /\ LegsOK /\ Numbered /\ reached \in [Contents \X Users -> Nat]
      /\ composed \in [Contents -> Nat]
  BY DEF TInv
<1>1. Good(t)
  BY <1>0, StepGood DEF LegsOK
<1>2. CInv' /\ DOMAIN db' \subseteq Cells
  BY <1>0, <1>1, GoodStep DEF Good
<1>3. DOMAIN main' \subseteq Cells /\ recent' \subseteq Cells
  BY <1>2, CheckpointKeeps DEF Step
<1>4. members' = members /\ moves' = moves
  BY DEF Step, outside
<1>5. LegsOK' /\ reached' \in [Contents \X Users -> Nat]
  <2>1. CASE CampaignStep(t)
    BY <2>1, CampaignKeepsLegs
  <2>2. CASE UNCHANGED deliveries
    BY <1>0, <2>2 DEF deliveries, LegsOK
  <2> QED
    BY <2>1, <2>2 DEF Step, CampaignsStep, ComposeStep, campaigns
<1>6. composed' \in [Contents -> Nat]
  <2>1. CASE ReceiveContent(t)
    <3>1. composed' = [composed EXCEPT ![t] = @ + 1] /\ t \in Contents
      BY <2>1 DEF ReceiveContent, Contents
    <3> QED
      BY <1>0, <3>1
  <2>2. CASE UNCHANGED composed
    BY <1>0, <2>2
  <2> QED
    BY <2>1, <2>2 DEF Step, CampaignsStep, ComposeStep, campaigns
<1>7. Numbered'
  <2>1. CASE BackupsStep(t)
    BY <2>1, BackupsKeepNumbers
  <2>2. CASE UNCHANGED copies
    BY <1>0, <2>2 DEF Numbered
  <2> QED
    BY <2>1, <2>2 DEF Step
<1> QED
  BY <1>2, <1>3, <1>4, <1>5, <1>6, <1>7 DEF TInv

LEMMA InitTypes == Init => TInv
<1> SUFFICES ASSUME Init PROVE TInv
  OBVIOUS
<1>1. PICK w \in Workloads : CoreInit(w) /\ members = w.members /\ moves = w.moves
  BY DEF Init
<1>2. /\ w.backends \subseteq {"sqlite", "postgresql"} /\ DOMAIN w.rows \subseteq Cells
      /\ w.chat \in Conversations /\ DOMAIN w.updates \subseteq Tasks
      /\ \A t \in DOMAIN w.updates : IsUpdate(w.updates[t])
      /\ w.restarts \in Nat
  BY WorkloadAssumption
<1>3. members \in [Targets -> SUBSET Users] /\ moves \in Nat
  BY <1>1, MembersAssumption
<1>4. DOMAIN db \subseteq Cells
  BY <1>1, <1>2, Restricted DEF CoreInit, Written, Restrict
<1>5. \A t \in Tasks : IsUpdate(job[t])
  <2> TAKE t \in Tasks
  <2>1. CASE t \in DOMAIN w.updates
    BY <1>1, <1>2, <2>1 DEF CoreInit
  <2>2. CASE t \notin DOMAIN w.updates
    <3>1. job[t] = Asked("start", Admin, None)
      BY <1>1, <2>2 DEF CoreInit
    <3>2. IsUpdate(Asked("start", Admin, None))
      BY UpdatesAssumption DEF IsUpdate, Asked, Kinds, OfATarget
    <3> QED
      BY <3>1, <3>2
  <2> QED
    BY <2>1, <2>2
<1>6. ASSUME NEW t \in Tasks
      PROVE  /\ DOMAIN job[t] = JobFields /\ job[t].raw = "none" /\ job[t].missing = {}
             /\ IsUpdate(Asked(job[t].kind, job[t].by, job[t].arg))
  <2>1. IsUpdate(job[t])
    BY <1>5
  <2>2. job[t] = Asked(job[t].kind, job[t].by, job[t].arg)
    BY <2>1 DEF IsUpdate
  <2>3. /\ DOMAIN Asked(job[t].kind, job[t].by, job[t].arg) = JobFields
        /\ Asked(job[t].kind, job[t].by, job[t].arg).raw = "none"
        /\ Asked(job[t].kind, job[t].by, job[t].arg).missing = {}
    BY DEF Asked, JobFields
  <2> QED
    BY <2>1, <2>2, <2>3
<1>7. Shape
  BY <1>1, <1>6 DEF CoreInit, Shape
<1>8. ASSUME NEW t \in Tasks PROVE Located(t) /\ Typed(t)
  <2>1. at[t] \in {"idle", "unused"} /\ session[t] = <<>> /\ wrote[t] = {} /\ DOMAIN <<>> = {}
    BY <1>1 DEF CoreInit
  <2>2. Located(t)
    BY <2>1, FitsWhen DEF Located
  <2> QED
    BY <1>6, <2>1, <2>2 DEF Typed, FsmStates
<1>9. CInv
  BY <1>1, <1>2, <1>4, <1>7, <1>8 DEF CoreInit, CInv
<1>10. LegsOK /\ reached \in [Contents \X Users -> Nat] /\ composed \in [Contents -> Nat]
  BY DEF Init, CampaignsInit, LegsOK
<1>11. DOMAIN main \subseteq Cells /\ recent \subseteq Cells /\ Numbered
  BY <1>4 DEF Init, BackupsInit, Numbered
<1> QED
  BY <1>3, <1>9, <1>10, <1>11 DEF TInv

LEMMA NextKeepsTypes == TInv /\ [Next]_vars => TInv'
<1> SUFFICES ASSUME TInv, [Next]_vars PROVE TInv'
  OBVIOUS
<1>1. ASSUME NEW t \in Tasks, Turn(t) PROVE TInv'
  BY <1>1, StepKeepsTypes DEF Turn
<1>2. CASE Join
  <2>1. UNCHANGED core /\ UNCHANGED <<campaigns, storage, copies>>
    BY <1>2 DEF Join, Move
  <2>2. CInv'
    BY <2>1 DEF TInv, core, CInv, Shape, Located, Typed
  <2>3. members' \in [Targets -> SUBSET Users] /\ moves' \in Nat
    BY <1>2 DEF Join, Move, TInv
  <2> QED
    BY <2>1, <2>2, <2>3 DEF TInv, LegsOK, Numbered, campaigns, deliveries, storage
<1>3. CASE Crash
  <2>1. CInv'
    BY <1>3, KillKeeps DEF Crash, TInv
  <2>2. LegsOK'
    BY <1>3 DEF Crash, LegsOK
  <2> QED
    BY <1>3, <2>1, <2>2 DEF Crash, TInv, Numbered, outside, storage
<1>4. CASE UNCHANGED vars
  <2>1. UNCHANGED <<core, outside, campaigns, storage, copies>>
    BY <1>4 DEF vars
  <2>2. CInv'
    BY <2>1 DEF TInv, core, CInv, Shape, Located, Typed
  <2> QED
    BY <2>1, <2>2 DEF TInv, LegsOK, Numbered, campaigns, deliveries, storage, outside
<1> QED
  BY <1>1, <1>2, <1>3, <1>4 DEF Next, AllOver

LEMMA TypesHold == Spec => []TInv
<1> QED
  BY InitTypes, NextKeepsTypes, PTL DEF Spec

(* Everything stays what it is meant to be, whatever updates, restarts and *)
(* deliveries come in whatever order: what is committed, loaded or written *)
(* are cells there are (session.py:13-39), what a handler relies on is in  *)
(* the data of its update or in the conversation (states.py), a task that  *)
(* is not running holds no transaction, and backups are numbered.          *)
THEOREM BotTypes == Spec => []TypeOK
<1>1. TInv => TypeOK
  <2> SUFFICES ASSUME TInv PROVE TypeOK
    OBVIOUS
  <2>1. ASSUME NEW t \in Tasks
        PROVE  /\ job[t].kind \in Kinds /\ job[t].by \in Users
               /\ job[t].raw \in FsmStates
               /\ job[t].missing \subseteq Targets
               /\ ~ Running(t) => session[t] = <<>> /\ wrote[t] = {}
               /\ wrote[t] \subseteq DOMAIN session[t]
               /\ DOMAIN session[t] \subseteq Cells
    <3>1. Located(t) /\ Typed(t)
      BY DEF TInv, CInv
    <3>2. job[t].kind \in Kinds /\ job[t].by \in Users
      BY <3>1 DEF Typed, IsUpdate, Asked
    <3> QED
      BY <3>1, <3>2 DEF Typed, Located, Running, NoSession
  <2>2. CoreTypeOK
    BY <2>1 DEF CoreTypeOK, TInv, CInv
  <2> QED
    BY <2>2 DEF TypeOK, TInv, LegsOK, Numbered
<1> QED
  BY <1>1, TypesHold, PTL

-----------------------------------------------------------------------------
(* Most steps have nothing to do with a campaign, a backup or the end of a *)
(* transaction.                                                            *)
Moved(t, s) == at'[t] = s /\ db' = db /\ fsm' = fsm

LEMMA WaysMove ==
    ASSUME Shape, NEW t \in Tasks
    PROVE  /\ \A s : Pass(t, s) => Moved(t, s)
           /\ \A out : Answer(t, out) => Moved(t, "reply")
           /\ \A cells, s : Hold(t, cells, s) => Moved(t, s)
           /\ \A values, s : Flush(t, values, s) => Moved(t, s)
           /\ \A values, s : Put(t, values, s) => Moved(t, s)
           /\ \A values, needs, s : Add(t, values, needs, s) => Moved(t, s) \/ Moved(t, "abort")
           /\ \A values, row, s :
                 Change(t, values, row, s) => Moved(t, s) \/ Moved(t, "abort")
           /\ \A c, s : Converse(t, c, s) => at'[t] = s /\ db' = db /\ fsm' = c
<1>1. ASSUME NEW s, NEW l, Learn(t, l, s) PROVE Moved(t, s)
  BY <1>1 DEF Learn, Goto, Shape, Moved
<1>2. ASSUME NEW s, Pass(t, s) PROVE Moved(t, s)
  BY <1>1, <1>2 DEF Pass
<1>3. ASSUME NEW out, Answer(t, out) PROVE Moved(t, "reply")
  BY <1>1, <1>3 DEF Answer
<1>4. ASSUME NEW cells, NEW s, Hold(t, cells, s) PROVE Moved(t, s)
  BY <1>4 DEF Hold, Load, Goto, Shape, Moved
<1>5. ASSUME NEW values, NEW s, Flush(t, values, s) PROVE Moved(t, s)
  BY <1>5 DEF Flush, Goto, Shape, Moved
<1>6. ASSUME NEW values, NEW s, Put(t, values, s) PROVE Moved(t, s)
  BY <1>2, <1>5, <1>6 DEF Put
<1>7. ASSUME NEW values, NEW needs, NEW s, Add(t, values, needs, s)
      PROVE  Moved(t, s) \/ Moved(t, "abort")
  BY <1>2, <1>5, <1>7 DEF Add
<1>8. ASSUME NEW values, NEW row, NEW s, Change(t, values, row, s)
      PROVE  Moved(t, s) \/ Moved(t, "abort")
  BY <1>2, <1>6, <1>8 DEF Change
<1>9. ASSUME NEW c, NEW s, Converse(t, c, s) PROVE at'[t] = s /\ db' = db /\ fsm' = c
  BY <1>9 DEF Converse, Goto, Shape
<1> QED
  BY <1>2, <1>3, <1>4, <1>5, <1>6, <1>7, <1>8, <1>9

PlainSteps ==
    {"route", "reply", "log", "abort", "commit", "new external", "new entry", "referrer",
     "invite", "reward", "bonus", "granted", "maintenance", "find", "register", "registered",
     "gate", "admit", "count", "check", "confirming", "picked", "adding", "edit", "unblock",
     "act", "find setting", "insert setting", "update setting", "refuse"}

LEMMA PlainIsOrdinary ==
    ASSUME NEW t, at[t] \in PlainSteps \ {"commit", "abort"}, at'[t] \in PlainSteps, db' = db,
           fsm' = fsm \/ fsm'.content \in {fsm.content, None}
    PROVE  Ordinary(t)
BY DEF Ordinary, PlainSteps, CampaignSteps, BackupSteps, Ended

LEMMA SubscriptionsOrdinary ==
    ASSUME CInv, NEW t \in Tasks, SubscriptionsStep(t)
    PROVE  Ordinary(t)
<1>0. Shape /\ fsm \in Conversations
  BY DEF CInv
<1>1. ASSUME NEW l, NEW s, Learn(t, l, s) PROVE Moved(t, s)
  BY <1>0, <1>1 DEF Learn, Goto, Shape, Moved
<1>2. ASSUME NEW cells, NEW l, NEW s, Load(t, cells, l, s) PROVE Moved(t, s)
  BY <1>0, <1>2 DEF Load, Goto, Shape, Moved
<1>3. Cleared.content = None
  BY DEF Cleared
<1> USE PlainIsOrdinary DEF Moved, PlainSteps
<1>4. CASE ListTargets(t)
  BY <1>1, <1>4 DEF ListTargets
<1>5. CASE CheckTarget(t)
  BY <1>1, <1>5 DEF CheckTarget
<1>6. CASE Decide(t)
  BY <1>0, <1>1, <1>6, WaysMove DEF Decide
<1>7. CASE LoadUser(t) \/ RecordStart(t) \/ Recheck(t)
  BY <1>0, <1>7, WaysMove DEF LoadUser, RecordStart, Recheck
<1>8. CASE Confirm(t)
  BY <1>0, <1>1, <1>8, WaysMove DEF Confirm
<1>9. CASE InsertConfirmation(t)
  BY <1>0, <1>9, WaysMove DEF InsertConfirmation
<1>10. CASE StartAdd(t) \/ CancelAdd(t) \/ PickChat(t)
  <2>1. PICK next \in {[fsm EXCEPT !.state = "choosing"], Cleared} :
           at[t] = "route" /\ (Converse(t, next, "reply") \/ Converse(t, next, "picked"))
    BY <1>10 DEF StartAdd, CancelAdd, PickChat
  <2>2. next.content \in {fsm.content, None}
    BY <1>0, <1>3 DEF Conversations
  <2> QED
    BY <1>0, <2>1, <2>2, WaysMove
<1>11. CASE ChoosePlatform(t)
  <2> DEFINE next == IF job[t].arg = "telegram" THEN Cleared
                     ELSE [fsm EXCEPT !.state = "title", !.fields = @ \cup {"platform"}]
  <2>1. at[t] = "route" /\ Converse(t, next, "reply")
    BY <1>11 DEF ChoosePlatform
  <2>2. next.content \in {fsm.content, None}
    BY <1>0, <1>3 DEF Conversations
  <2> HIDE DEF next
  <2> QED
    BY <1>0, <2>1, <2>2, WaysMove
<1>12. CASE FindPicked(t)
  <2>1. at[t] = "picked" /\ ((\E cells, l : Load(t, cells, l, "adding")) \/ Answer(t, "no chat"))
    BY <1>12 DEF FindPicked
  <2> QED
    BY <1>0, <1>2, <2>1, WaysMove
<1>13. CASE AddTelegram(t)
  <2>1. /\ at[t] = "adding"
        /\ \E values, needs, row : Add(t, values, needs, "log") \/ Change(t, values, row, "log")
    BY <1>13 DEF AddTelegram
  <2> QED
    BY <1>0, <2>1, WaysMove
<1>14. CASE ReceiveTitleOrUrl(t)
  <2> DEFINE next == [fsm EXCEPT !.fields = @ \cup {job[t].raw},
                                 !.state = IF job[t].raw = "title" THEN "url"
                                           ELSE "instructions"]
  <2>1. at[t] = "route" /\ (Pass(t, "abort") \/ Converse(t, next, "reply"))
    BY <1>14 DEF ReceiveTitleOrUrl
  <2>2. next.content = fsm.content
    BY <1>0 DEF Conversations
  <2> HIDE DEF next
  <2> QED
    BY <1>0, <2>1, <2>2, WaysMove
<1>15. CASE ReceiveInstructions(t)
  <2>1. at[t] = "route" /\ (Converse(t, Cleared, "new external") \/ Converse(t, Cleared, "abort"))
    BY <1>15 DEF ReceiveInstructions
  <2> QED
    BY <1>0, <1>3, <2>1, WaysMove
<1>16. CASE AddExternal(t)
  BY <1>0, <1>16, WaysMove DEF AddExternal
<1>17. CASE Edit(t)
  BY <1>0, <1>17, WaysMove DEF Edit
<1>18. CASE SaveEdit(t)
  BY <1>0, <1>18, WaysMove DEF SaveEdit
<1> QED
  BY <1>4, <1>5, <1>6, <1>7, <1>8, <1>9, <1>10, <1>11, <1>12, <1>13, <1>14, <1>15, <1>16,
     <1>17, <1>18 DEF SubscriptionsStep

LEMMA RegistrationOrdinary ==
    ASSUME CInv, NEW t \in Tasks, RegistrationStep(t)
    PROVE  Ordinary(t)
<1>0. Shape
  BY DEF CInv
<1>2. ASSUME NEW cells, NEW l, NEW s, Load(t, cells, l, s) PROVE Moved(t, s)
  BY <1>0, <1>2 DEF Load, Goto, Shape, Moved
<1> USE PlainIsOrdinary DEF Moved, PlainSteps
<1>3. CASE CheckBlacklist(t) \/ CheckMaintenance(t) \/ UpdateName(t) \/ LoadReferrer(t)
  BY <1>0, <1>3, WaysMove DEF CheckBlacklist, CheckMaintenance, UpdateName, LoadReferrer
<1>4. CASE FindUser(t)
  <2>1. at[t] = "find" /\ \E cells, l : Load(t, cells, l, "register")
    BY <1>4 DEF FindUser
  <2> QED
    BY <1>2, <2>1
<1>5. CASE NewUser(t)
  BY <1>0, <1>5, WaysMove DEF NewUser
<1>6. CASE CountInvite(t) \/ LogRegistration(t) \/ NoteBonus(t)
  <2>1. CASE CountInvite(t)
    <3>1. at[t] = "invite" /\ \E values : Put(t, values, "registered")
      BY <2>1 DEF CountInvite
    <3> QED
      BY <1>0, <3>1, WaysMove
  <2>2. CASE LogRegistration(t)
    <3>1. /\ at[t] = "registered"
          /\ \E values : Flush(t, values, "gate") \/ Flush(t, values, "reward")
      BY <2>2 DEF LogRegistration
    <3> QED
      BY <1>0, <3>1, WaysMove
  <2>3. CASE NoteBonus(t)
    BY <1>0, <2>3, WaysMove DEF NoteBonus
  <2> QED
    BY <1>6, <2>1, <2>2, <2>3
<1>7. CASE Reward(t)
  BY <1>0, <1>7, WaysMove DEF Reward
<1>8. CASE Bonus(t)
  <2>1. /\ at[t] = "bonus"
        /\ Pass(t, "gate") \/ Pass(t, "abort") \/ \E values : Flush(t, values, "granted")
    BY <1>8 DEF Bonus
  <2> QED
    BY <1>0, <2>1, WaysMove
<1> QED
  BY <1>3, <1>4, <1>5, <1>6, <1>7, <1>8 DEF RegistrationStep

LEMMA PanelOrdinary ==
    ASSUME CInv, NEW t \in Tasks, PanelStep(t)
    PROVE  Ordinary(t)
<1>0. Shape /\ fsm \in Conversations
  BY DEF CInv
<1>2. ASSUME NEW l, NEW s, Learn(t, l, s) PROVE Moved(t, s)
  BY <1>0, <1>2 DEF Learn, Goto, Shape, Moved
<1> USE PlainIsOrdinary DEF Moved, PlainSteps
<1>3. CASE ToggleSetting(t)
  <2>1. at[t] = "route" /\ \E l : Learn(t, l, "find setting")
    BY <1>3 DEF ToggleSetting, Handling
  <2> QED
    BY <1>2, <2>1
<1>4. CASE FindSetting(t) \/ InsertSetting(t) \/ UpdateSetting(t) \/ ReceiveBlocked(t)
  <2>1. CASE FindSetting(t)
    BY <1>0, <2>1, WaysMove DEF FindSetting
  <2>2. CASE InsertSetting(t)
    BY <1>0, <2>2, WaysMove DEF InsertSetting
  <2>3. CASE UpdateSetting(t)
    BY <1>0, <2>3, WaysMove DEF UpdateSetting
  <2>4. CASE ReceiveBlocked(t)
    <3>1. at[t] = "route" /\ (Pass(t, "reply") \/ Pass(t, "new entry"))
      BY <2>4 DEF ReceiveBlocked, Reading
    <3> QED
      BY <1>0, <3>1, WaysMove
  <2> QED
    BY <1>4, <2>1, <2>2, <2>3, <2>4
<1>5. CASE EditSetting(t) \/ OpenBlacklist(t)
  <2>1. PICK next \in {[fsm EXCEPT !.state = "value", !.key = job[t].arg],
                       [fsm EXCEPT !.state = "blacklist", !.fields = @ \cup {"entryType"}]} :
           at[t] = "route" /\ Converse(t, next, "reply")
    BY <1>5 DEF EditSetting, OpenBlacklist, Handling
  <2>2. next.content = fsm.content
    BY <1>0 DEF Conversations
  <2> QED
    BY <1>0, <2>1, <2>2, WaysMove
<1>6. CASE ReceiveValue(t)
  BY <1>0, <1>6 DEF ReceiveValue, Reading, Goto, Shape, Cleared
<1>7. CASE AddEntry(t) \/ Unblock(t) \/ DeactivateEntry(t)
  BY <1>0, <1>7, WaysMove DEF AddEntry, Unblock, DeactivateEntry, Handling
<1>8. CASE FindUserToAct(t) \/ ActOnUser(t)
  <2>1. \/ at[t] = "route" /\ (Pass(t, "reply") \/ \E cells : Hold(t, cells, "act"))
        \/ at[t] = "act" /\ \E values : Put(t, values, "log")
    BY <1>8 DEF FindUserToAct, ActOnUser
  <2> QED
    BY <1>0, <2>1, WaysMove
<1>9. CASE RefuseValue(t)
  <2> DEFINE next == [fsm EXCEPT !.state = "value", !.key = job[t].key]
  <2>1. at[t] = "refuse" /\ (Converse(t, next, "commit") \/ Pass(t, "abort"))
    BY <1>9 DEF RefuseValue
  <2>2. next.content = fsm.content
    BY <1>0 DEF Conversations
  <2> QED
    BY <1>0, <2>1, <2>2, WaysMove
<1> QED
  BY <1>3, <1>4, <1>5, <1>6, <1>7, <1>8, <1>9 DEF PanelStep

LEMMA CoreOrdinary ==
    ASSUME CInv, NEW t \in Tasks, Ignore(t) \/ Throttle(t) \/ Log(t) \/ Reply(t)
    PROVE  Ordinary(t)
<1>0. Shape
  BY DEF CInv
<1> USE PlainIsOrdinary DEF Moved, PlainSteps
<1>1. CASE Ignore(t) \/ Throttle(t) \/ Log(t)
  <2>1. \/ at[t] = "route" /\ (Pass(t, "commit") \/ Pass(t, "abort"))
        \/ at[t] = "log" /\ \E values : Flush(t, values, "reply")
    BY <1>1 DEF Ignore, Throttle, Log
  <2> QED
    BY <1>0, <2>1, WaysMove
<1>2. CASE Reply(t)
  BY <1>0, <1>2 DEF Reply, Goto, Shape
<1> QED
  BY <1>1, <1>2

LEMMA OrdinarySteps ==
    ASSUME CInv, NEW t \in Tasks,
           \/ Receive(t) \/ Ignore(t) \/ Throttle(t) \/ Log(t) \/ Reply(t)
           \/ SubscriptionsStep(t) \/ RegistrationStep(t) \/ PanelStep(t)
    PROVE  Ordinary(t)
<1>1. CASE Receive(t)
  BY <1>1 DEF Receive, Learn, Goto, CInv, Shape, Ordinary, CampaignSteps, BackupSteps, Ended
<1> QED
  BY <1>1, CoreOrdinary, SubscriptionsOrdinary, RegistrationOrdinary, PanelOrdinary

-----------------------------------------------------------------------------
(* What a delivery moves.                                                  *)
LegsAlone(t) == \A o \in Tasks \ {t} : legs'[o] = legs[o]

LEMMA DeliveryMoves ==
    ASSUME TInv, NEW t \in Tasks, NEW u \in DOMAIN legs[t], DeliveryStep(t, u)
    PROVE  /\ fsm' = fsm /\ job'[t] = job[t] /\ LegsAlone(t)
           /\ at'[t] = at[t] \/ (at[t] = "batch" /\ at'[t] = "abort")
           /\ DOMAIN legs'[t] = DOMAIN legs[t]
           /\ \A o \in DOMAIN legs[t] \ {u} : legs'[t][o] = legs[t][o]
<1>0. Shape /\ LegsOK
  BY DEF TInv, CInv
<1>1. /\ DOMAIN legs'[t] = DOMAIN legs[t] /\ LegsAlone(t)
      /\ \A o \in DOMAIN legs[t] \ {u} : legs'[t][o] = legs[t][o]
  <2>1. ASSUME NEW step, Leg(t, u, step)
        PROVE  /\ DOMAIN legs'[t] = DOMAIN legs[t] /\ LegsAlone(t)
               /\ \A o \in DOMAIN legs[t] \ {u} : legs'[t][o] = legs[t][o]
    BY <1>0, <2>1 DEF Leg, LegsOK, LegsAlone
  <2>2. CASE WaitForFlood(t, u)
    BY <1>0, <2>2 DEF WaitForFlood, LegsOK, LegsAlone
  <2> QED
    BY <2>1, <2>2 DEF DeliveryStep, Deliver, FailToDeliver, NoteFailure, FailureNoted
<1>2. /\ fsm' = fsm /\ job'[t] = job[t]
      /\ at'[t] = at[t] \/ (at[t] = "batch" /\ at'[t] = "abort")
  <2>1. CASE Deliver(t, u) \/ FailToDeliver(t, u) \/ WaitForFlood(t, u)
    BY <2>1 DEF Deliver, FailToDeliver, WaitForFlood, core
  <2>2. CASE NoteFailure(t, u)
    <3>1. (at[t] = "batch" /\ Pass(t, "abort")) \/ UNCHANGED core
      BY <2>2 DEF NoteFailure
    <3> QED
      BY <1>0, <3>1, PassDoes DEF core, SameTalk
  <2>3. CASE FailureNoted(t, u)
    <3>1. \/ at[t] = "batch" /\ \E values : Add(t, values, {}, "batch")
          \/ UNCHANGED core
      BY <2>3 DEF FailureNoted
    <3>2. CASE UNCHANGED core
      BY <3>2 DEF core
    <3>3. ASSUME at[t] = "batch", NEW values, Add(t, values, {}, "batch")
          PROVE  /\ fsm' = fsm /\ job'[t] = job[t]
                 /\ at'[t] = at[t] \/ (at[t] = "batch" /\ at'[t] = "abort")
      <4>1. job'[t] = job[t]
        BY <1>0, <3>3, AddDoes
      <4> QED
        BY <1>0, <3>3, <4>1, WaysMove DEF Moved
    <3> QED
      BY <3>1, <3>2, <3>3
  <2> QED
    BY <2>1, <2>2, <2>3 DEF DeliveryStep
<1> QED
  BY <1>1, <1>2

-----------------------------------------------------------------------------
(* What a step writes, according to where its task is: nothing that        *)
(* another transaction has locked.                                         *)
Columns(step) ==
    CASE step = "register"                 -> {"user"}
      [] step = "invite"                   -> {"invites"}
      [] step = "bonus"                    -> {"premium"}
      [] step = "count"                    -> {"starts"}
      [] step = "act"                      -> {"banned", "muted"}
      [] step = "reward"                   -> {"reward"}
      [] step = "granted"                  -> {"bonus"}
      [] step \in {"registered", "log"}    -> {"log"}
      [] step = "confirming"               -> {"confirmed"}
      [] step \in {"adding", "new external"} -> OfTargets
      [] step = "edit"                     -> OfTargets \cup {"confirmed"}
      [] step \in SettingSteps             -> {"setting"}
      [] step \in {"new entry", "unblock"} -> {"entry"}
      [] OTHER                             -> {}

Touches(t, columns) ==
    /\ \A c : c[1] \notin columns =>
          /\ c \in wrote'[t] <=> c \in wrote[t]
          /\ c \in wrote[t] => session'[t][c] = session[t][c]
    /\ wrote'[t] = wrote[t] \/ MayWrite(t, wrote'[t] \ wrote[t])

LEMMA WaysTouch ==
    ASSUME CInv, NEW t \in Tasks, NEW columns
    PROVE  /\ Touches(t, {}) => Touches(t, columns)
           /\ \A l, s : Learn(t, l, s) => Touches(t, columns)
           /\ \A cells, l, s : Load(t, cells, l, s) => Touches(t, columns)
           /\ \A c, s : Converse(t, c, s) => Touches(t, columns)
           /\ \A values, s : (\A c \in DOMAIN values : c[1] \in columns) =>
                 /\ Flush(t, values, s) => Touches(t, columns)
                 /\ Put(t, values, s) => Touches(t, columns)
                 /\ \A needs : Add(t, values, needs, s) => Touches(t, columns)
                 /\ \A row : Change(t, values, row, s) => Touches(t, columns)
<1>0. Shape /\ wrote[t] \subseteq DOMAIN session[t]
  BY DEF CInv, Typed
<1>1. Touches(t, {}) => Touches(t, columns)
  BY DEF Touches
<1>2. ASSUME session'[t] = session[t], wrote'[t] = wrote[t] PROVE Touches(t, columns)
  BY <1>2 DEF Touches
<1>3. ASSUME NEW l, NEW s, Learn(t, l, s) PROVE Touches(t, columns)
  BY <1>2, <1>3 DEF Learn
<1>4. ASSUME NEW cells, NEW l, NEW s, Load(t, cells, l, s) PROVE Touches(t, columns)
  <2> DEFINE new == [c \in {c \in cells : Of(db, Primary(c)) # None} |-> Of(db, c)]
  <2>1. session'[t] = session[t] @@ new /\ wrote'[t] = wrote[t]
    BY <1>0, <1>4 DEF Load, Shape
  <2> HIDE DEF new
  <2>2. \A c \in DOMAIN session[t] : session'[t][c] = session[t][c]
    BY <2>1 DEF @@
  <2> QED
    BY <1>0, <2>1, <2>2 DEF Touches
<1>5. ASSUME NEW c, NEW s, Converse(t, c, s) PROVE Touches(t, columns)
  BY <1>2, <1>5 DEF Converse
<1>6. ASSUME NEW values, NEW s, \A c \in DOMAIN values : c[1] \in columns, Flush(t, values, s)
      PROVE  Touches(t, columns)
  <2>1. /\ wrote'[t] = wrote[t] \cup DOMAIN values
        /\ \A c \in DOMAIN session[t] \ DOMAIN values : session'[t][c] = session[t][c]
        /\ MayWrite(t, DOMAIN values)
    BY <1>0, <1>6, FlushDoes
  <2>2. wrote'[t] \ wrote[t] \subseteq DOMAIN values
    BY <2>1
  <2>3. MayWrite(t, wrote'[t] \ wrote[t])
    BY <2>1, <2>2 DEF MayWrite, Locks
  <2> QED
    BY <1>0, <1>6, <2>1, <2>3 DEF Touches
<1>7. ASSUME NEW values, NEW s, \A c \in DOMAIN values : c[1] \in columns, Put(t, values, s)
      PROVE  Touches(t, columns)
  <2> DEFINE changed == {c \in DOMAIN values : Val(t, c) # values[c]}
  <2>1. Pass(t, s) \/ Flush(t, Restrict(values, changed), s)
    BY <1>7 DEF Put
  <2>2. \A c \in DOMAIN Restrict(values, changed) : c[1] \in columns
    BY <1>7, Restricted
  <2> QED
    BY <1>3, <1>6, <2>1, <2>2 DEF Pass
<1>8. ASSUME NEW values, NEW s, \A c \in DOMAIN values : c[1] \in columns, NEW needs,
             Add(t, values, needs, s)
      PROVE  Touches(t, columns)
  BY <1>0, <1>2, <1>6, <1>8, AddDoes DEF SameTransaction
<1>9. ASSUME NEW values, NEW s, \A c \in DOMAIN values : c[1] \in columns, NEW row,
             Change(t, values, row, s)
      PROVE  Touches(t, columns)
  BY <1>0, <1>2, <1>7, <1>9, ChangeDoes DEF SameTransaction
<1> QED
  BY <1>1, <1>3, <1>4, <1>5, <1>6, <1>7, <1>8, <1>9

LEMMA CellTouch ==
    ASSUME CInv, NEW t \in Tasks, NEW c, NEW columns, c[1] \in columns
    PROVE  /\ \A v, s : Flush(t, c :> v, s) => Touches(t, columns)
           /\ \A v, s : Put(t, c :> v, s) => Touches(t, columns)
           /\ \A v, needs, s : Add(t, c :> v, needs, s) => Touches(t, columns)
           /\ \A v, row, s : Change(t, c :> v, row, s) => Touches(t, columns)
<1>1. \A v : \A d \in DOMAIN (c :> v) : d[1] \in columns
  BY DEF :>
<1> QED
  BY <1>1, WaysTouch

LEMMA SubscriptionsTouch ==
    ASSUME CInv, NEW t \in Tasks, SubscriptionsStep(t)
    PROVE  Touches(t, Columns(at[t]))
<1> DEFINE columns == Columns(at[t])
<1>1. CASE ListTargets(t) \/ CheckTarget(t) \/ Decide(t) \/ LoadUser(t) \/ Recheck(t)
           \/ Confirm(t)
  BY <1>1, WaysTouch DEF ListTargets, CheckTarget, Decide, LoadUser, Recheck, Confirm, Answer,
                         Pass, Hold
<1>2. CASE RecordStart(t)
  <2>1. at[t] = "count" /\ \E v : Put(t, <<"starts", job[t].by>> :> v, "reply")
    BY <1>2 DEF RecordStart
  <2>2. <<"starts", job[t].by>>[1] \in columns
    BY <2>1 DEF Columns, SettingSteps
  <2> QED
    BY <2>1, <2>2, CellTouch
<1>3. CASE InsertConfirmation(t)
  <2> DEFINE cell == <<"confirmed", <<job[t].by, job[t].arg>>>>
  <2>1. at[t] = "confirming" /\ \E needs : Add(t, cell :> TRUE, needs, "reply")
    BY <1>3 DEF InsertConfirmation
  <2>2. cell[1] \in columns
    BY <2>1 DEF Columns, SettingSteps
  <2> HIDE DEF cell, columns
  <2>3. Touches(t, columns)
    BY <2>1, <2>2, CellTouch
  <2> QED
    BY <2>3 DEF columns
<1>4. CASE StartAdd(t) \/ CancelAdd(t) \/ ChoosePlatform(t) \/ PickChat(t)
           \/ ReceiveTitleOrUrl(t) \/ ReceiveInstructions(t)
  <2>1. (\E c, s : Converse(t, c, s)) \/ Pass(t, "abort")
    BY <1>4 DEF StartAdd, CancelAdd, ChoosePlatform, PickChat, ReceiveTitleOrUrl,
                ReceiveInstructions
  <2> QED
    BY <2>1, WaysTouch DEF Pass
<1>5. CASE FindPicked(t) \/ Edit(t)
  BY <1>5, WaysTouch DEF FindPicked, Edit, Hold, Answer, Pass
<1>6. CASE AddTelegram(t) \/ AddExternal(t)
  <2>1. /\ at[t] \in {"adding", "new external"}
        /\ \E c, needs, row : \/ Add(t, TargetCells(c, TRUE, TRUE), needs, "log")
                              \/ Change(t, TargetCells(c, TRUE, TRUE), row, "log")
    BY <1>6 DEF AddTelegram, AddExternal
  <2>2. \A c : \A d \in DOMAIN TargetCells(c, TRUE, TRUE) : d[1] \in columns
    <3>1. columns \in {OfTargets, OfTargets \cup {"confirmed"}}
      BY <2>1 DEF Columns, SettingSteps
    <3> HIDE DEF columns
    <3>2. ASSUME NEW c, NEW d \in DOMAIN TargetCells(c, TRUE, TRUE) PROVE d[1] \in columns
      <4>1. d \in Flags(c)
        BY <3>2 DEF TargetCells, Flags, @@, :>
      <4> QED
        BY <3>1, <4>1 DEF Flags, OfTargets
    <3> QED
      BY <3>2
  <2> HIDE DEF columns
  <2>3. Touches(t, columns)
    BY <2>1, <2>2, WaysTouch
  <2> QED
    BY <2>3 DEF columns
<1>7. CASE SaveEdit(t)
  <2> DEFINE c    == job[t].arg
             flag == <<IF job[t].kind = "toggleActive" THEN "active" ELSE "mandatory", c>>
             rest == [x \in {"confirmed"} \X (Users \X {c}) |-> None]
             gone == <<"target", c>> :> None @@ rest
  <2>1. /\ at[t] = "edit"
        /\ \/ \E row, s : Change(t, gone, row, s)
           \/ \E v, row, s : Change(t, flag :> v, row, s)
    BY <1>7 DEF SaveEdit
  <2>2. columns = OfTargets \cup {"confirmed"}
    BY <2>1 DEF Columns, SettingSteps
  <2>3. flag[1] \in columns
    BY <2>2 DEF OfTargets
  <2>4. \A d \in DOMAIN gone : d[1] \in columns
    <3>1. DOMAIN gone = {<<"target", c>>} \cup ({"confirmed"} \X (Users \X {c}))
      BY DEF :>, @@
    <3> QED
      BY <2>2, <3>1 DEF OfTargets
  <2> HIDE DEF gone, flag, columns
  <2>5. Touches(t, columns)
    BY <2>1, <2>3, <2>4, WaysTouch, CellTouch
  <2> QED
    BY <2>5 DEF columns
<1> QED
  BY <1>1, <1>2, <1>3, <1>4, <1>5, <1>6, <1>7 DEF SubscriptionsStep

LEMMA RegistrationTouches ==
    ASSUME CInv, NEW t \in Tasks, RegistrationStep(t)
    PROVE  Touches(t, Columns(at[t]))
<1> DEFINE columns == Columns(at[t])
<1>1. CASE CheckBlacklist(t) \/ CheckMaintenance(t) \/ FindUser(t) \/ LoadReferrer(t)
  BY <1>1, WaysTouch DEF CheckBlacklist, CheckMaintenance, FindUser, LoadReferrer, Answer,
                         Pass, Hold
<1>2. ASSUME NEW cell, NEW v, NEW needs, NEW s, cell[1] \in columns,
             Flush(t, cell :> v, s) \/ Put(t, cell :> v, s) \/ Add(t, cell :> v, needs, s)
             \/ Pass(t, s)
      PROVE  Touches(t, columns)
  <2> HIDE DEF columns
  <2> QED
    BY <1>2, CellTouch, WaysTouch DEF Pass
<1>3. CASE UpdateName(t) \/ NewUser(t)
  <2>1. at[t] = "register"
        /\ \E v, needs, s : \/ Flush(t, <<"user", job[t].by>> :> v, s) \/ Pass(t, s)
                            \/ Add(t, <<"user", job[t].by>> :> v, needs, s)
    BY <1>3 DEF UpdateName, NewUser
  <2>2. <<"user", job[t].by>>[1] \in columns
    BY <2>1 DEF Columns, SettingSteps
  <2> QED
    BY <1>2, <2>1, <2>2
<1>4. CASE CountInvite(t)
  <2>1. at[t] = "invite" /\ \E v : Put(t, <<"invites", Referrer(t)>> :> v, "registered")
    BY <1>4 DEF CountInvite
  <2>2. <<"invites", Referrer(t)>>[1] \in columns
    BY <2>1 DEF Columns, SettingSteps
  <2> QED
    BY <1>2, <2>1, <2>2
<1>5. CASE LogRegistration(t)
  <2>1. at[t] = "registered" /\ \E s : Flush(t, <<"log", t>> :> TRUE, s)
    BY <1>5 DEF LogRegistration
  <2>2. <<"log", t>>[1] \in columns
    BY <2>1 DEF Columns, SettingSteps
  <2> QED
    BY <1>2, <2>1, <2>2
<1>6. CASE Reward(t) \/ NoteBonus(t)
  <2>1. \/ /\ at[t] = "reward"
           /\ \E v, needs, s : Add(t, <<"reward", t>> :> v, needs, s) \/ Pass(t, s)
        \/ at[t] = "granted" /\ \E v, needs, s : Add(t, <<"bonus", t>> :> v, needs, s)
    BY <1>6 DEF Reward, NoteBonus
  <2>2. /\ at[t] = "reward" => <<"reward", t>>[1] \in columns
        /\ at[t] = "granted" => <<"bonus", t>>[1] \in columns
    BY DEF Columns, SettingSteps
  <2>3. \E cell, v, needs, s : cell[1] \in columns
                               /\ (Add(t, cell :> v, needs, s) \/ Pass(t, s))
    BY <2>1, <2>2
  <2> QED
    BY <1>2, <2>3
<1>7. CASE Bonus(t)
  <2>1. /\ at[t] = "bonus"
        /\ \E s : Pass(t, s) \/ Flush(t, <<"premium", Referrer(t)>> :> TRUE, s)
    BY <1>7 DEF Bonus
  <2>2. <<"premium", Referrer(t)>>[1] \in columns
    BY <2>1 DEF Columns, SettingSteps
  <2> QED
    BY <1>2, <2>1, <2>2
<1> QED
  BY <1>1, <1>3, <1>4, <1>5, <1>6, <1>7 DEF RegistrationStep

LEMMA PanelTouches ==
    ASSUME CInv, NEW t \in Tasks, PanelStep(t)
    PROVE  Touches(t, Columns(at[t]))
<1> DEFINE columns == Columns(at[t])
<1>1. CASE ToggleSetting(t) \/ FindSetting(t) \/ ReceiveBlocked(t) \/ Unblock(t)
           \/ FindUserToAct(t)
  BY <1>1, WaysTouch DEF ToggleSetting, FindSetting, ReceiveBlocked, Unblock, FindUserToAct,
                         Pass, Hold
<1>2. CASE EditSetting(t) \/ OpenBlacklist(t)
  <2>1. \E c, s : Converse(t, c, s)
    BY <1>2 DEF EditSetting, OpenBlacklist
  <2> QED
    BY <2>1, WaysTouch
<1>3. CASE ReceiveValue(t)
  BY <1>3 DEF ReceiveValue, Touches
<1>4. ASSUME NEW cell, NEW v, NEW needs, NEW s, cell[1] \in columns,
             Flush(t, cell :> v, s) \/ Put(t, cell :> v, s) \/ Add(t, cell :> v, needs, s)
      PROVE  Touches(t, columns)
  <2> HIDE DEF columns
  <2> QED
    BY <1>4, CellTouch
<1>5. CASE InsertSetting(t) \/ UpdateSetting(t)
  <2>1. /\ at[t] \in SettingSteps
        /\ \E v, needs, s : \/ Add(t, <<"setting", job[t].key>> :> v, needs, s)
                            \/ Put(t, <<"setting", job[t].key>> :> v, s)
    BY <1>5 DEF InsertSetting, UpdateSetting, SettingSteps
  <2>2. <<"setting", job[t].key>>[1] \in columns
    BY <2>1 DEF Columns, SettingSteps
  <2> QED
    BY <1>4, <2>1, <2>2
<1>6. CASE AddEntry(t) \/ DeactivateEntry(t)
  <2>1. /\ at[t] \in {"new entry", "unblock"}
        /\ \E e, v, s : Flush(t, <<"entry", e>> :> v, s) \/ Put(t, <<"entry", e>> :> v, s)
    BY <1>6 DEF AddEntry, DeactivateEntry
  <2>2. \A e : <<"entry", e>>[1] \in columns
    BY <2>1 DEF Columns, SettingSteps
  <2> QED
    BY <1>4, <2>1, <2>2
<1>7. CASE ActOnUser(t)
  <2> DEFINE muted  == <<"muted", job[t].arg>>
             banned == <<"banned", job[t].arg>>
  <2>1. at[t] = "act" /\ \E v, s : Put(t, muted :> v, s) \/ Put(t, banned :> v, s)
    BY <1>7 DEF ActOnUser
  <2>2. muted[1] \in columns /\ banned[1] \in columns
    BY <2>1 DEF Columns, SettingSteps
  <2> HIDE DEF muted, banned, columns
  <2>3. Touches(t, columns)
    BY <2>1, <2>2, CellTouch
  <2> QED
    BY <2>3 DEF columns
<1>8. CASE RefuseValue(t)
  <2>1. (\E c, s : Converse(t, c, s)) \/ Pass(t, "abort")
    BY <1>8 DEF RefuseValue
  <2> QED
    BY <2>1, WaysTouch DEF Pass
<1> QED
  BY <1>1, <1>2, <1>3, <1>5, <1>6, <1>7, <1>8 DEF PanelStep

(* Which columns a step writes, unless it is a campaign's or the end of a  *)
(* transaction.                                                            *)
LEMMA StepsTouch ==
    ASSUME CInv, NEW t \in Tasks,
           \/ Receive(t) \/ Ignore(t) \/ Throttle(t) \/ LockTimeout(t) \/ Log(t) \/ Reply(t)
           \/ SubscriptionsStep(t) \/ RegistrationStep(t) \/ PanelStep(t)
           \/ ComposeStep(t) \/ BackupsStep(t)
    PROVE  Touches(t, Columns(at[t]))
<1>1. CASE Receive(t) \/ Ignore(t) \/ Throttle(t) \/ LockTimeout(t)
  BY <1>1, WaysTouch DEF Receive, Ignore, Throttle, LockTimeout, Pass
<1>2. CASE Reply(t)
  BY <1>2 DEF Reply, Touches
<1>3. CASE Log(t)
  <2> DEFINE columns == Columns(at[t])
  <2>1. at[t] = "log" /\ Flush(t, <<"log", t>> :> TRUE, "reply")
    BY <1>3 DEF Log
  <2>2. <<"log", t>>[1] \in columns
    BY <2>1 DEF Columns, SettingSteps
  <2> HIDE DEF columns
  <2>3. Touches(t, columns)
    BY <2>1, <2>2, CellTouch
  <2> QED
    BY <2>3 DEF columns
<1>4. CASE ComposeStep(t)
  <2>1. (\E c, s : Converse(t, c, s)) \/ ConfirmSend(t)
    BY <1>4 DEF ComposeStep, Compose, ReceiveContent, ReceiveButtons, CancelSend
  <2>2. CASE ConfirmSend(t)
    BY <2>2 DEF ConfirmSend, Touches
  <2> QED
    BY <2>1, <2>2, WaysTouch
<1>5. CASE BackupsStep(t)
  <2>1. \E l, s : Learn(t, l, s)
    BY <1>5 DEF BackupsStep, BeginCopy, EndCopy, Prune, NoFile, Pass
  <2> QED
    BY <2>1, WaysTouch
<1> QED
  BY <1>1, <1>2, <1>3, <1>4, <1>5, SubscriptionsTouch, RegistrationTouches, PanelTouches

LEMMA CampaignTouches ==
    ASSUME CInv, NEW t \in Tasks, CampaignStep(t)
    PROVE  Touches(t, {"campaign", "failure"})
<1> DEFINE columns == {"campaign", "failure"}
<1>0. Shape /\ wrote[t] \subseteq DOMAIN session[t]
  BY DEF CInv, Typed
<1>1. CASE CreateCampaign(t)
  <2>1. \E v, s : Add(t, Campaign(t) :> v, {}, s)
    BY <1>1 DEF CreateCampaign
  <2>2. Campaign(t)[1] \in columns
    BY DEF Campaign
  <2> QED
    BY <2>1, <2>2, CellTouch
<1>2. CASE Announce(t) \/ StartBatch(t) \/ Finish(t)
  <2>1. \E l, s : Learn(t, l, s)
    BY <1>2 DEF Announce, StartBatch, Finish, Pass
  <2> QED
    BY <2>1, WaysTouch
<1>3. ASSUME NEW a, Counted(t, a), wrote' = wrote PROVE Touches(t, columns)
  <2>1. session'[t] = (Campaign(t) :> a) @@ session[t]
    BY <1>0, <1>3 DEF Counted, Shape
  <2>2. \A c \in wrote[t] : c # Campaign(t) => session'[t][c] = session[t][c]
    BY <1>0, <2>1 DEF @@, :>
  <2>3. \A c : c[1] \notin columns => c # Campaign(t)
    BY DEF Campaign
  <2> QED
    BY <1>3, <2>2, <2>3 DEF Touches
<1>4. ASSUME session' = session, wrote' = wrote PROVE Touches(t, columns)
  BY <1>4 DEF Touches
<1>5. CASE ListRecipients(t)
  <2>1. wrote' = wrote /\ \E a : Counted(t, a)
    BY <1>5 DEF ListRecipients
  <2> QED
    BY <1>3, <2>1
<1>6. ASSUME NEW u, DeliveryStep(t, u) PROVE Touches(t, columns)
  <2>1. CASE Deliver(t, u) \/ FailToDeliver(t, u)
    <3>1. wrote' = wrote /\ ((\E a : Counted(t, a)) \/ session' = session)
      BY <2>1 DEF Deliver, FailToDeliver, Count
    <3> QED
      BY <1>3, <1>4, <3>1
  <2>2. CASE WaitForFlood(t, u) \/ NoteFailure(t, u)
    <3>1. Pass(t, "abort") \/ UNCHANGED core
      BY <2>2 DEF WaitForFlood, NoteFailure
    <3> QED
      BY <1>4, <3>1, WaysTouch DEF Pass, core
  <2>3. CASE FailureNoted(t, u)
    <3> DEFINE cell == <<"failure", <<t, u>>>>
    <3>1. Add(t, cell :> TRUE, {}, "batch") \/ UNCHANGED core
      BY <2>3 DEF FailureNoted
    <3>2. cell[1] \in columns
      OBVIOUS
    <3> HIDE DEF cell, columns
    <3> QED
      BY <1>4, <3>1, <3>2, CellTouch DEF core
  <2> QED
    BY <1>6, <2>1, <2>2, <2>3 DEF DeliveryStep
<1> QED
  BY <1>1, <1>2, <1>5, <1>6 DEF CampaignStep

-----------------------------------------------------------------------------
(* What a commit brings into the database.                                 *)
LEMMA CommittedCells ==
    ASSUME NEW t \in Tasks, Commit(t), NEW c
    PROVE  Of(db', c) = IF c \in wrote[t] THEN session[t][c] ELSE Of(db, c)
<1> DEFINE new  == [d \in wrote[t] |-> session[t][d]]
           rows == new @@ db
<1>1. DOMAIN rows = wrote[t] \cup DOMAIN db
      /\ \A d \in DOMAIN rows : rows[d] = IF d \in wrote[t] THEN session[t][d] ELSE db[d]
  BY DEF @@
<1>2. db' = Written(rows)
  BY DEF Commit
<1> HIDE DEF rows
<1>3. DOMAIN db' = {d \in DOMAIN rows : rows[d] # Blank[d[1]]}
      /\ \A d \in DOMAIN db' : db'[d] = rows[d]
  BY <1>2, Restricted DEF Written
<1> QED
  BY <1>1, <1>3 DEF Of

=============================================================================
