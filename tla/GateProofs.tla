------------------------------ MODULE GateProofs ------------------------------
(***************************************************************************)
(* What /start promises.                                                   *)
(*                                                                         *)
(* Whoever is greeted has been let in: GreetedOnlyIfAdmitted of Bot.  The  *)
(* gate reads the list of targets, the blacklist and the settings through  *)
(* its session, and asks Telegram about one target after the other.  What  *)
(* it has found is true of some moment since the update came: its session  *)
(* holds no cell of these, and what the history has seen only gets weaker. *)
(*                                                                         *)
(* Invitations, rewards and bonuses agree: ReferralsAddUp of Bot.  What a  *)
(* registration has written is complete when it commits; no two            *)
(* transactions lock the same row; and on SQLite the counter it has read   *)
(* is the one in the database until it commits, as nobody else writes.     *)
(***************************************************************************)
EXTENDS BotProofs, FiniteSetTheorems

(* The columns that a task at the gate loads or writes.                    *)
Own == OfUsers \cup {"reward", "bonus", "log"}

PastDoor  == {"find", "register", "referrer", "invite", "registered", "reward", "bonus",
              "granted", "gate", "check", "admit", "count"}
PastList  == PastDoor \cup {"maintenance"}
Leaving   == {"reply", "abort", "commit", "done", "failed"}
GateSteps == PastList \cup Leaving \cup {"idle", "route", "unused"}

Admitted(t) ==
    /\ seen[t].demanded \subseteq seen[t].joined
    /\ job[t].kind = "start" =>
          ~ seen[t].blocked /\ (seen[t].closed => job[t].by = Admin)

(* Where the task is and what it is going to say.                          *)
GatePlaced(t) ==
    /\ at[t] \in GateSteps
    /\ \A c \in DOMAIN session[t] : c[1] \in Own
    /\ job[t].out = "greeted" => at[t] \in {"admit", "count"} \cup Leaving
    /\ at[t] \in {"admit", "count"} => job[t].out = "greeted"
    /\ told[t] # None => at[t] \in {"commit", "done", "failed"}

(* What it has found.                                                      *)
GateFound(t) ==
    /\ at[t] = "check" =>
          seen[t].demanded \subseteq job[t].todo \cup job[t].missing \cup seen[t].joined
    /\ job[t].out = "greeted" => Admitted(t)
    /\ job[t].kind = "start" /\ at[t] \in PastList => ~ seen[t].blocked
    /\ job[t].kind = "start" /\ at[t] \in PastDoor => (seen[t].closed => job[t].by = Admin)

Guarded(t) ==
    /\ Gated(t) => /\ GatePlaced(t)
                   /\ told[t] = "greeted" => Admitted(t)
                   /\ Running(t) /\ told[t] = None => GateFound(t)
    /\ ~ Gated(t) => job[t].out # "greeted" /\ told[t] # "greeted"

GInv == TInv /\ \A t \in Tasks : Guarded(t)

-----------------------------------------------------------------------------
(* What a step tells and what it is going to tell: nothing new but in      *)
(* Decide and Reply.                                                       *)
Quiet(t) == told'[t] = told[t] /\ (job'[t].out = "greeted" => job[t].out = "greeted")

LEMMA QuietWays ==
    ASSUME Shape, NEW t \in Tasks
    PROVE  /\ \A s : Pass(t, s) => Quiet(t)
           /\ \A out : Answer(t, out) /\ out # "greeted" => Quiet(t)
           /\ \A l, s : Learn(t, l, s) /\ l.out = job[t].out => Quiet(t)
           /\ \A cells, l, s : Load(t, cells, l, s) /\ l.out = job[t].out => Quiet(t)
           /\ \A cells, s : Hold(t, cells, s) => Quiet(t)
           /\ \A values, s : Flush(t, values, s) => Quiet(t)
           /\ \A values, s : Put(t, values, s) => Quiet(t)
           /\ \A values, needs, s : Add(t, values, needs, s) => Quiet(t)
           /\ \A values, row, s : Change(t, values, row, s) => Quiet(t)
           /\ \A c, s : Converse(t, c, s) => Quiet(t)
<1>1. ASSUME NEW l, NEW s, Learn(t, l, s), l.out = job[t].out \/ l.out # "greeted"
      PROVE  Quiet(t)
  BY <1>1 DEF Learn, Shape, Quiet
<1>2. ASSUME NEW s, Pass(t, s) PROVE Quiet(t)
  BY <1>1, <1>2 DEF Pass
<1>3. ASSUME NEW out, Answer(t, out), out # "greeted" PROVE Quiet(t)
  <2>1. [job[t] EXCEPT !.out = out].out = out
    BY DEF Shape, JobFields
  <2> QED
    BY <1>1, <1>3, <2>1 DEF Answer
<1>4. ASSUME NEW cells, NEW l, NEW s, Load(t, cells, l, s), l.out = job[t].out
      PROVE  Quiet(t)
  BY <1>4 DEF Load, Shape, Quiet
<1>5. ASSUME NEW cells, NEW s, Hold(t, cells, s) PROVE Quiet(t)
  BY <1>4, <1>5 DEF Hold
<1>6. ASSUME NEW values, NEW s, Flush(t, values, s) PROVE Quiet(t)
  BY <1>6 DEF Flush, Quiet
<1>7. ASSUME NEW values, NEW s, Put(t, values, s) PROVE Quiet(t)
  BY <1>2, <1>6, <1>7 DEF Put
<1>8. ASSUME NEW values, NEW needs, NEW s, Add(t, values, needs, s) PROVE Quiet(t)
  BY <1>2, <1>6, <1>8 DEF Add
<1>9. ASSUME NEW values, NEW row, NEW s, Change(t, values, row, s) PROVE Quiet(t)
  BY <1>2, <1>7, <1>9 DEF Change
<1>10. ASSUME NEW c, NEW s, Converse(t, c, s) PROVE Quiet(t)
  BY <1>10 DEF Converse, Quiet
<1> QED
  BY <1>1, <1>2, <1>3, <1>4, <1>5, <1>6, <1>7, <1>8, <1>9, <1>10

LEMMA SubscriptionsQuiet ==
    ASSUME Shape, NEW t \in Tasks, SubscriptionsStep(t)
    PROVE  Quiet(t) \/ Decide(t)
<1>1. CASE ListTargets(t)
  <2>1. [job[t] EXCEPT !.todo = Demanded(Sees(t)), !.missing = {}].out = job[t].out
    BY DEF Shape, JobFields
  <2> QED
    BY <1>1, <2>1, QuietWays DEF ListTargets
<1>2. CASE CheckTarget(t)
  <2>1. PICK l, s : l.out = job[t].out /\ Learn(t, l, s)
    <3>1. PICK c, member :
             Learn(t, [job[t] EXCEPT !.todo = @ \ {c},
                                     !.missing = IF member THEN @ ELSE @ \cup {c}], "check")
      BY <1>2 DEF CheckTarget
    <3> DEFINE l == [job[t] EXCEPT !.todo = @ \ {c},
                                   !.missing = IF member THEN @ ELSE @ \cup {c}]
    <3>2. l.out = job[t].out
      BY DEF Shape, JobFields
    <3> HIDE DEF l
    <3> QED
      BY <3>1, <3>2 DEF l
  <2> QED
    BY <2>1, QuietWays
<1>3. CASE LoadUser(t) \/ RecordStart(t) \/ Recheck(t)
  <2>1. \/ (\E s : Pass(t, s)) \/ (\E cells, s : Hold(t, cells, s))
        \/ (\E values, s : Put(t, values, s))
    BY <1>3 DEF LoadUser, RecordStart, Recheck
  <2> QED
    BY <2>1, QuietWays
<1>4. CASE Confirm(t)
  <2>1. ASSUME Learn(t, [job[t] EXCEPT !.out = "confirmed"], "confirming") PROVE Quiet(t)
    BY <2>1 DEF Learn, Shape, JobFields, Quiet
  <2> QED
    BY <1>4, <2>1, QuietWays DEF Confirm
<1>5. CASE FindPicked(t)
  <2>1. ASSUME NEW new,
               Load(t, Flags(job[t].arg), [job[t] EXCEPT !.isNew = new], "adding")
        PROVE  Quiet(t)
    <3>1. [job[t] EXCEPT !.isNew = new].out = job[t].out
      BY DEF Shape, JobFields
    <3> QED
      BY <2>1, <3>1, QuietWays
  <2> QED
    BY <1>5, <2>1, QuietWays DEF FindPicked
<1>6. CASE \/ InsertConfirmation(t) \/ AddTelegram(t) \/ AddExternal(t) \/ Edit(t)
           \/ SaveEdit(t)
  <2>1. \/ (\E values, needs, s : Add(t, values, needs, s)) \/ (\E s : Pass(t, s))
        \/ (\E values, row, s : Change(t, values, row, s))
        \/ (\E cells, s : Hold(t, cells, s))
    BY <1>6 DEF InsertConfirmation, AddTelegram, AddExternal, Edit, SaveEdit
  <2> QED
    BY <2>1, QuietWays
<1>7. CASE \/ StartAdd(t) \/ CancelAdd(t) \/ ChoosePlatform(t) \/ PickChat(t)
           \/ ReceiveTitleOrUrl(t) \/ ReceiveInstructions(t)
  <2>1. (\E c, s : Converse(t, c, s)) \/ (\E s : Pass(t, s))
    BY <1>7 DEF StartAdd, CancelAdd, ChoosePlatform, PickChat, ReceiveTitleOrUrl,
                ReceiveInstructions
  <2> QED
    BY <2>1, QuietWays
<1> QED
  BY <1>1, <1>2, <1>3, <1>4, <1>5, <1>6, <1>7 DEF SubscriptionsStep

LEMMA RegistrationQuiet ==
    ASSUME Shape, NEW t \in Tasks, RegistrationStep(t)
    PROVE  Quiet(t)
<1>1. CASE CheckBlacklist(t) \/ CheckMaintenance(t)
  BY <1>1, QuietWays DEF CheckBlacklist, CheckMaintenance
<1>2. CASE FindUser(t)
  <2> DEFINE l == [job[t] EXCEPT !.isNew = Of(db, <<"user", job[t].by>>) = None]
  <2>1. l.out = job[t].out
    BY DEF Shape, JobFields
  <2>2. Load(t, OfUsers \X {job[t].by}, l, "register")
    BY <1>2 DEF FindUser
  <2> HIDE DEF l
  <2> QED
    BY <2>1, <2>2, QuietWays
<1>3. CASE \/ UpdateName(t) \/ NewUser(t) \/ LoadReferrer(t) \/ CountInvite(t)
           \/ LogRegistration(t) \/ Reward(t) \/ Bonus(t) \/ NoteBonus(t)
  <2>1. \/ (\E s : Pass(t, s)) \/ (\E values, s : Flush(t, values, s))
        \/ (\E values, needs, s : Add(t, values, needs, s))
        \/ (\E cells, s : Hold(t, cells, s)) \/ (\E values, s : Put(t, values, s))
    BY <1>3 DEF UpdateName, NewUser, LoadReferrer, CountInvite, LogRegistration, Reward,
                Bonus, NoteBonus
  <2> QED
    BY <2>1, QuietWays
<1> QED
  BY <1>1, <1>2, <1>3 DEF RegistrationStep

LEMMA PanelQuiet ==
    ASSUME Shape, NEW t \in Tasks, PanelStep(t)
    PROVE  Quiet(t)
<1>1. CASE ToggleSetting(t)
  <2>1. PICK key, value :
           Learn(t, [job[t] EXCEPT !.key = key, !.value = value], "find setting")
    BY <1>1 DEF ToggleSetting
  <2>2. [job[t] EXCEPT !.key = key, !.value = value].out = job[t].out
    BY DEF Shape, JobFields
  <2> QED
    BY <2>1, <2>2, QuietWays
<1>2. CASE ReceiveValue(t)
  BY <1>2 DEF ReceiveValue, Shape, JobFields, Quiet
<1>3. CASE \/ FindSetting(t) \/ InsertSetting(t) \/ UpdateSetting(t) \/ EditSetting(t)
           \/ OpenBlacklist(t) \/ ReceiveBlocked(t) \/ AddEntry(t) \/ Unblock(t)
           \/ DeactivateEntry(t) \/ FindUserToAct(t) \/ ActOnUser(t) \/ RefuseValue(t)
  <2>1. \/ (\E s : Pass(t, s)) \/ (\E values, s : Flush(t, values, s))
        \/ (\E values, needs, s : Add(t, values, needs, s))
        \/ (\E cells, s : Hold(t, cells, s)) \/ (\E values, s : Put(t, values, s))
        \/ (\E c, s : Converse(t, c, s))
    BY <1>3 DEF FindSetting, InsertSetting, UpdateSetting, EditSetting, OpenBlacklist,
                ReceiveBlocked, AddEntry, Unblock, DeactivateEntry, FindUserToAct, ActOnUser,
                RefuseValue
  <2> QED
    BY <2>1, QuietWays
<1> QED
  BY <1>1, <1>2, <1>3 DEF PanelStep

LEMMA DeliveryQuiet ==
    ASSUME Shape, NEW t \in Tasks, NEW u, DeliveryStep(t, u)
    PROVE  Quiet(t)
<1>1. ASSUME UNCHANGED <<job, told>> PROVE Quiet(t)
  BY <1>1 DEF Quiet
<1>2. CASE Deliver(t, u) \/ WaitForFlood(t, u) \/ FailToDeliver(t, u)
  BY <1>1, <1>2 DEF Deliver, WaitForFlood, FailToDeliver, core
<1>3. CASE NoteFailure(t, u) \/ FailureNoted(t, u)
  <2>1. \/ (\E s : Pass(t, s)) \/ (\E values, needs, s : Add(t, values, needs, s))
        \/ UNCHANGED core
    BY <1>3 DEF NoteFailure, FailureNoted
  <2> QED
    BY <1>1, <2>1, QuietWays DEF core
<1> QED
  BY <1>2, <1>3 DEF DeliveryStep

LEMMA CampaignsQuiet ==
    ASSUME Shape, NEW t \in Tasks, CampaignsStep(t)
    PROVE  Quiet(t)
<1>1. CASE Compose(t) \/ ReceiveContent(t) \/ ReceiveButtons(t) \/ CancelSend(t)
  <2>1. \E c, s : Converse(t, c, s)
    BY <1>1 DEF Compose, ReceiveContent, ReceiveButtons, CancelSend
  <2> QED
    BY <2>1, QuietWays
<1>2. CASE ConfirmSend(t)
  BY <1>2 DEF ConfirmSend, Shape, JobFields, Quiet
<1>3. CASE CreateCampaign(t) \/ Announce(t) \/ Finish(t)
  <2>1. (\E s : Pass(t, s)) \/ (\E values, needs, s : Add(t, values, needs, s))
    BY <1>3 DEF CreateCampaign, Announce, Finish
  <2> QED
    BY <2>1, QuietWays
<1>4. CASE ListRecipients(t)
  <2>1. PICK recipients : job' = [job EXCEPT ![t].todo = recipients]
    BY <1>4 DEF ListRecipients
  <2> QED
    BY <1>4, <2>1 DEF ListRecipients, Shape, JobFields, Quiet
<1>5. CASE StartBatch(t)
  <2>1. PICK next : Learn(t, [job[t] EXCEPT !.todo = @ \ next], "batch")
    BY <1>5 DEF StartBatch
  <2>2. [job[t] EXCEPT !.todo = @ \ next].out = job[t].out
    BY DEF Shape, JobFields
  <2> QED
    BY <2>1, <2>2, QuietWays
<1> QED
  BY <1>1, <1>2, <1>3, <1>4, <1>5, DeliveryQuiet DEF CampaignsStep, ComposeStep, CampaignStep

LEMMA BackupsQuiet ==
    ASSUME Shape, NEW t \in Tasks, BackupsStep(t)
    PROVE  Quiet(t)
<1>1. CASE BeginCopy(t)
  <2>1. PICK name : Learn(t, [job[t] EXCEPT !.value = name], "copying")
    BY <1>1 DEF BeginCopy
  <2>2. [job[t] EXCEPT !.value = name].out = job[t].out
    BY DEF Shape, JobFields
  <2> QED
    BY <2>1, <2>2, QuietWays
<1>2. CASE EndCopy(t) \/ Prune(t) \/ NoFile(t)
  <2>1. \E s : Pass(t, s)
    BY <1>2 DEF EndCopy, Prune, NoFile
  <2> QED
    BY <2>1, QuietWays
<1> QED
  BY <1>1, <1>2 DEF BackupsStep

LEMMA StepQuiet ==
    ASSUME Shape, NEW t \in Tasks, Step(t)
    PROVE  Quiet(t) \/ Decide(t) \/ Reply(t)
<1>1. CASE Receive(t)
  <2>1. [job[t] EXCEPT !.raw = fsm.state].out = job[t].out
    BY DEF Shape, JobFields
  <2> QED
    BY <1>1, <2>1, QuietWays DEF Receive
<1>2. CASE Ignore(t) \/ Throttle(t) \/ LockTimeout(t) \/ Log(t)
  <2>1. (\E s : Pass(t, s)) \/ (\E values, s : Flush(t, values, s))
    BY <1>2 DEF Ignore, Throttle, LockTimeout, Log
  <2> QED
    BY <2>1, QuietWays
<1>3. CASE Commit(t) \/ Rollback(t)
  BY <1>3 DEF Commit, Rollback, Quiet
<1> QED
  BY <1>1, <1>2, <1>3, SubscriptionsQuiet, RegistrationQuiet, PanelQuiet, CampaignsQuiet,
     BackupsQuiet DEF Step

-----------------------------------------------------------------------------
(* What the history has seen of a task at the gate gets weaker: fewer      *)
(* targets demanded all the time, more where he has been a member.         *)
Weaker(t) ==
    /\ seen'[t].demanded \subseteq seen[t].demanded
    /\ seen[t].joined \subseteq seen'[t].joined
    /\ seen'[t].blocked => seen[t].blocked
    /\ seen'[t].closed => seen[t].closed

LEMMA SeenOf ==
    ASSUME Watch, NEW t \in Tasks
    PROVE  /\ told[t] # None /\ told'[t] # None => seen'[t] = seen[t]
           /\ Gated(t) /\ (Running(t)' \/ told'[t] # None)
              /\ ~ (told[t] # None /\ told'[t] # None) =>
                 /\ seen'[t].demanded = seen[t].demanded \cap Demanded(db')
                 /\ seen'[t].joined = seen[t].joined
                                      \cup {c \in Targets : job[t].by \in members'[c]}
                 /\ seen'[t].blocked <=> seen[t].blocked /\ IsBlocked(db', job[t].by)
                 /\ seen'[t].closed <=> seen[t].closed /\ On(db', "maintenance")
<1> DEFINE next == [demanded |-> seen[t].demanded \cap Demanded(db'),
                    joined   |-> seen[t].joined
                                 \cup {c \in Targets : job[t].by \in members'[c]},
                    blocked  |-> seen[t].blocked /\ IsBlocked(db', job[t].by),
                    closed   |-> seen[t].closed /\ On(db', "maintenance")]
<1>1. seen'[t] = IF told[t] # None /\ told'[t] # None THEN seen[t]
                 ELSE IF Gated(t) /\ (Running(t)' \/ told'[t] # None) THEN next ELSE Untold
  BY DEF Watch
<1>2. /\ next.demanded = seen[t].demanded \cap Demanded(db')
      /\ next.joined = seen[t].joined \cup {c \in Targets : job[t].by \in members'[c]}
  OBVIOUS
<1>3. next.blocked = (seen[t].blocked /\ IsBlocked(db', job[t].by))
  BY Zenon
<1>4. next.closed = (seen[t].closed /\ On(db', "maintenance"))
  BY Zenon
<1> HIDE DEF next
<1> QED
  BY <1>1, <1>2, <1>3, <1>4

LEMMA SeenWeakens ==
    ASSUME Watch, NEW t \in Tasks, Gated(t), Running(t)' \/ told'[t] # None
    PROVE  Weaker(t)
BY SeenOf DEF Weaker

LEMMA StillAdmitted ==
    ASSUME NEW t \in Tasks, Admitted(t), Weaker(t), SameUpdate(t)
    PROVE  Admitted(t)'
BY DEF Admitted, Weaker, SameUpdate

(* A task that does not move, or is stopped by a crash.                    *)
LEMMA Unmoved ==
    ASSUME NEW t \in Tasks, Guarded(t), Watch,
           told'[t] = told[t] /\ job'[t] = job[t],
           \A c \in DOMAIN session'[t] : c[1] \in Own \/ c \in DOMAIN session[t],
           at'[t] = at[t] \/ (at'[t] \in {"done", "failed"})
    PROVE  Guarded(t)'
<1>1. SameUpdate(t) /\ (Gated(t)' <=> Gated(t))
  BY DEF SameUpdate, Gated
<1>2. CASE ~ Gated(t)
  BY <1>1, <1>2 DEF Guarded
<1>3. CASE Gated(t)
  <2>1. GatePlaced(t)'
    BY <1>3 DEF Guarded, GatePlaced, GateSteps, Leaving
  <2>2. (told[t] = "greeted" => Admitted(t)')
    <3>1. told[t] = "greeted" => told'[t] # None
      BY NothingIsSaid
    <3> QED
      BY <1>1, <1>3, <3>1, SeenWeakens, StillAdmitted DEF Guarded
  <2>3. ASSUME Running(t)', told'[t] = None PROVE GateFound(t)'
    <3>1. at'[t] = at[t] /\ GateFound(t)
      BY <1>3, <2>3 DEF Guarded, Running, Ended
    <3>2. Weaker(t)
      BY <1>3, <2>3, SeenWeakens
    <3>3. job[t].out = "greeted" => Admitted(t)'
      BY <1>1, <3>1, <3>2, StillAdmitted DEF GateFound
    <3> QED
      BY <3>1, <3>2, <3>3 DEF GateFound, Weaker
  <2> QED
    BY <1>1, <1>3, <2>1, <2>2, <2>3 DEF Guarded
<1> QED
  BY <1>2, <1>3


-----------------------------------------------------------------------------
(* The steps of a task at the gate.                                        *)
OwnColumns(t) == \A c \in DOMAIN session'[t] : c[1] \in Own \/ c \in DOMAIN session[t]

LEMMA OwnWays ==
    ASSUME Shape, NEW t \in Tasks
    PROVE  /\ SameTransaction(t) => OwnColumns(t)
           /\ \A cells, l, s : Load(t, cells, l, s) /\ DOMAIN l = JobFields
                               /\ (\A c \in cells : c[1] \in Own) => OwnColumns(t)
           /\ \A c, v, s : Flush(t, c :> v, s) /\ c[1] \in Own => OwnColumns(t)
           /\ \A c, v, s : Put(t, c :> v, s) /\ c[1] \in Own => OwnColumns(t)
           /\ \A c, v, needs, s : Add(t, c :> v, needs, s) /\ c[1] \in Own => OwnColumns(t)
<1>1. ASSUME SameTransaction(t) PROVE OwnColumns(t)
  BY <1>1 DEF SameTransaction, OwnColumns
<1>2. ASSUME NEW cells, NEW l, NEW s, Load(t, cells, l, s), DOMAIN l = JobFields,
             \A c \in cells : c[1] \in Own
      PROVE  OwnColumns(t)
  BY <1>2, LoadDoes DEF OwnColumns
<1>3. ASSUME NEW c, NEW v, NEW s, Flush(t, c :> v, s), c[1] \in Own
      PROVE  OwnColumns(t)
  <2> DEFINE values == c :> v
  <2>1. DOMAIN values = {c}
    BY CellValue
  <2>2. Flush(t, values, s)
    BY <1>3
  <2> HIDE DEF values
  <2>3. DOMAIN session'[t] = DOMAIN session[t] \cup DOMAIN values
    BY <2>2, FlushDoes
  <2> QED
    BY <1>3, <2>1, <2>3 DEF OwnColumns
<1>4. ASSUME NEW c, NEW v, NEW s, Put(t, c :> v, s), c[1] \in Own
      PROVE  OwnColumns(t)
  <2>1. PICK changed \in SUBSET DOMAIN (c :> v) :
           DOMAIN session'[t] = DOMAIN session[t] \cup changed
    BY <1>4, PutDoes
  <2>2. DOMAIN (c :> v) = {c}
    BY CellValue
  <2> QED
    BY <1>4, <2>1, <2>2 DEF OwnColumns
<1>5. ASSUME NEW c, NEW v, NEW needs, NEW s, Add(t, c :> v, needs, s), c[1] \in Own
      PROVE  OwnColumns(t)
  <2>1. SameTransaction(t) \/ Flush(t, c :> v, s)
    BY <1>5, AddDoes
  <2> QED
    BY <1>1, <1>3, <1>5, <2>1
<1> QED
  BY <1>1, <1>2, <1>3, <1>4, <1>5

Registering == {"find", "register", "referrer", "invite", "registered", "reward", "bonus",
                "granted"}

(* A step that finds nothing new and says nothing.                         *)
Onward(t) ==
    \/ at'[t] \in {"reply", "abort", "commit"}
    \/ at[t] = "admit" /\ at'[t] = "count"
    \/ at[t] \in Registering /\ at'[t] \in Registering \cup {"gate"}

LEMMA OnwardKeeps ==
    ASSUME NEW t \in Tasks, Guarded(t), Gated(t), Watch, Running(t), told[t] = None,
           SameUpdate(t), Quiet(t), OwnColumns(t), Onward(t),
           job'[t].out = job[t].out \/ at'[t] = "reply"
    PROVE  Guarded(t)'
<1>1. GatePlaced(t) /\ GateFound(t) /\ Gated(t)'
  BY DEF Guarded, Gated, SameUpdate
<1>2. GatePlaced(t)'
  BY <1>1 DEF GatePlaced, Onward, Quiet, OwnColumns, Registering, GateSteps, PastList, PastDoor,
              Leaving
<1>3. Running(t)'
  BY DEF Onward, Running, Ended, Registering
<1>4. Weaker(t)
  BY <1>3, SeenWeakens
<1>5. job'[t].out = "greeted" => Admitted(t)'
  BY <1>1, <1>4, StillAdmitted DEF GateFound, Quiet
<1>6. GateFound(t)'
  BY <1>1, <1>4, <1>5
     DEF GateFound, Onward, Registering, PastList, PastDoor, Weaker, SameUpdate
<1> QED
  BY <1>1, <1>2, <1>6, NothingIsSaid DEF Guarded, Quiet

(* Its session holds nothing of the list, the blacklist and the settings.  *)
LEMMA SeesWhatIs ==
    ASSUME NEW t \in Tasks, GatePlaced(t)
    PROVE  /\ Demanded(Sees(t)) = Demanded(db)
           /\ IsBlocked(Sees(t), job[t].by) <=> IsBlocked(db, job[t].by)
           /\ \A key : On(Sees(t), key) <=> On(db, key)
<1>1. ASSUME NEW c, c[1] \notin Own PROVE Of(Sees(t), c) = Of(db, c)
  <2>1. c \notin DOMAIN session[t]
    BY <1>1 DEF GatePlaced
  <2>2. /\ DOMAIN Sees(t) = DOMAIN session[t] \cup DOMAIN db
        /\ c \in DOMAIN db => Sees(t)[c] = db[c]
    BY <2>1 DEF Sees, @@
  <2> QED
    BY <2>1, <2>2 DEF Of
<1>2. \A x, k : x \in OfTargets \cup {"entry", "setting"} => <<x, k>>[1] \notin Own
  BY DEF OfTargets, Own, OfUsers
<1>3. \A k : /\ Of(Sees(t), <<"target", k>>) = Of(db, <<"target", k>>)
             /\ Of(Sees(t), <<"active", k>>) = Of(db, <<"active", k>>)
             /\ Of(Sees(t), <<"mandatory", k>>) = Of(db, <<"mandatory", k>>)
             /\ Of(Sees(t), <<"entry", k>>) = Of(db, <<"entry", k>>)
             /\ Of(Sees(t), <<"setting", k>>) = Of(db, <<"setting", k>>)
  BY <1>1, <1>2 DEF OfTargets
<1>4. Demanded(Sees(t)) = Demanded(db)
  BY <1>3 DEF Demanded
<1>5. IsBlocked(Sees(t), job[t].by) <=> IsBlocked(db, job[t].by)
  BY <1>3 DEF IsBlocked
<1>6. ASSUME NEW key PROVE On(Sees(t), key) <=> On(db, key)
  BY <1>3 DEF On
<1> QED
  BY <1>4, <1>5, <1>6


(* No other steps are taken at the gate.                                   *)
LEMMA GateTakes ==
    ASSUME NEW t \in Tasks, GatePlaced(t), Gated(t), Step(t)
    PROVE  \/ Receive(t) \/ Ignore(t) \/ Throttle(t) \/ LockTimeout(t) \/ Reply(t)
           \/ Commit(t) \/ Rollback(t)
           \/ ListTargets(t) \/ CheckTarget(t) \/ Decide(t) \/ LoadUser(t) \/ RecordStart(t)
           \/ Recheck(t) \/ RegistrationStep(t)
           \/ UNCHANGED core
<1>1. /\ at[t] \notin {"confirming", "picked", "adding", "new external", "edit", "log",
                       "find setting", "insert setting", "update setting", "new entry",
                       "unblock", "act", "create", "announce", "recipients", "batch",
                       "copying", "prune", "refuse"}
      /\ job[t].kind \in {"start", "recheck"}
  BY DEF GatePlaced, GateSteps, PastList, PastDoor, Leaving, Gated
<1>2. CASE SubscriptionsStep(t)
  BY <1>1, <1>2
     DEF SubscriptionsStep, Confirm, InsertConfirmation, StartAdd, CancelAdd, ChoosePlatform,
         PickChat, FindPicked, AddTelegram, ReceiveTitleOrUrl, ReceiveInstructions,
         AddExternal, Edit, SaveEdit
<1>3. ~ PanelStep(t)
  BY <1>1 DEF PanelStep, ToggleSetting, FindSetting, InsertSetting, UpdateSetting,
              EditSetting, ReceiveValue, RefuseValue, OpenBlacklist, ReceiveBlocked, AddEntry, Unblock,
              DeactivateEntry, FindUserToAct, ActOnUser, Handling, Reading
<1>4. CASE CampaignsStep(t)
  <2>1. ~ ComposeStep(t)
    BY <1>1 DEF ComposeStep, Compose, ReceiveContent, ReceiveButtons, CancelSend, ConfirmSend,
                Talk
  <2>2. PICK u : DeliveryStep(t, u)
    BY <1>1, <1>4, <2>1 DEF CampaignsStep, CampaignStep, CreateCampaign, Announce,
                            ListRecipients, StartBatch, Finish, BatchIsOver
  <2>3. CASE Deliver(t, u) \/ FailToDeliver(t, u)
    BY <1>1, <2>3 DEF Deliver, FailToDeliver, Count, core
  <2>4. CASE WaitForFlood(t, u) \/ NoteFailure(t, u) \/ FailureNoted(t, u)
    BY <1>1, <2>4 DEF WaitForFlood, NoteFailure, FailureNoted
  <2> QED
    BY <2>2, <2>3, <2>4 DEF DeliveryStep
<1>5. ~ BackupsStep(t) /\ ~ Log(t)
  BY <1>1 DEF BackupsStep, BeginCopy, EndCopy, Prune, NoFile, Copying, Log
<1> QED
  BY <1>2, <1>3, <1>4, <1>5 DEF Step

(* Registration, and what is recorded of a user who has been let in.       *)
LEMMA RegistersOnward ==
    ASSUME CInv, NEW t \in Tasks,
           \/ FindUser(t) \/ UpdateName(t) \/ NewUser(t) \/ LoadReferrer(t) \/ CountInvite(t)
           \/ LogRegistration(t) \/ Reward(t) \/ Bonus(t) \/ NoteBonus(t)
           \/ LoadUser(t) \/ RecordStart(t)
    PROVE  /\ OwnColumns(t) /\ Onward(t) /\ job'[t].out = job[t].out /\ db' = db
           /\ at[t] \in Registering \cup {"admit", "count"}
<1>0. Shape
  BY DEF CInv
<1>1. /\ \A u : <<"user", u>>[1] \in Own /\ <<"log", u>>[1] \in Own
                /\ <<"invites", u>>[1] \in Own /\ <<"starts", u>>[1] \in Own
                /\ <<"reward", u>>[1] \in Own /\ <<"bonus", u>>[1] \in Own
                /\ <<"premium", u>>[1] \in Own
      /\ \A u : \A c \in OfUsers \X {u} : c[1] \in Own
  BY DEF Own, OfUsers
<1>2. ASSUME NEW u, NEW s, Hold(t, OfUsers \X {u}, s)
      PROVE  OwnColumns(t) /\ job'[t] = job[t] /\ Moved(t, s)
  <2>1. DOMAIN job[t] = JobFields
    BY <1>0 DEF Shape
  <2>2. OwnColumns(t)
    BY <1>0, <1>1, <1>2, <2>1, OwnWays DEF Hold
  <2>3. job'[t] = job[t]
    BY <1>0, <1>2, <2>1, LoadDoes DEF Hold
  <2> QED
    BY <1>0, <1>2, <2>2, <2>3, WaysMove
<1>3. ASSUME NEW s, Pass(t, s)
      PROVE  OwnColumns(t) /\ job'[t] = job[t] /\ Moved(t, s)
  BY <1>0, <1>3, OwnWays, PassDoes, WaysMove
<1>4. ASSUME NEW c, NEW v, NEW s, c[1] \in Own, Flush(t, c :> v, s)
      PROVE  OwnColumns(t) /\ job'[t] = job[t] /\ Moved(t, s)
  <2>1. job'[t] = job[t]
    BY <1>4 DEF Flush
  <2> QED
    BY <1>0, <1>4, <2>1, OwnWays, WaysMove
<1>5. ASSUME NEW c, NEW v, NEW s, c[1] \in Own, Put(t, c :> v, s)
      PROVE  OwnColumns(t) /\ job'[t] = job[t] /\ Moved(t, s)
  <2>1. job'[t] = job[t]
    <3> DEFINE values == c :> v
    <3>1. Put(t, values, s)
      BY <1>5
    <3> HIDE DEF values
    <3> QED
      BY <1>0, <3>1, PutDoes
  <2> QED
    BY <1>0, <1>5, <2>1, OwnWays, WaysMove
<1>6. ASSUME NEW c, NEW v, NEW needs, NEW s, c[1] \in Own, Add(t, c :> v, needs, s)
      PROVE  OwnColumns(t) /\ job'[t] = job[t] /\ (Moved(t, s) \/ Moved(t, "abort"))
  <2>1. job'[t] = job[t]
    BY <1>0, <1>6, AddDoes
  <2> QED
    BY <1>0, <1>6, <2>1, OwnWays, WaysMove
<1> USE DEF Onward, Registering, Moved
<1>7. CASE FindUser(t)
  <2> DEFINE l == [job[t] EXCEPT !.isNew = Of(db, <<"user", job[t].by>>) = None]
             cells == OfUsers \X {job[t].by}
  <2>1. l.out = job[t].out /\ DOMAIN l = JobFields
    BY <1>0 DEF Shape, JobFields
  <2>2. Load(t, cells, l, "register") /\ at[t] = "find"
    BY <1>7 DEF FindUser
  <2>3. \A c \in cells : c[1] \in Own
    BY <1>1
  <2> HIDE DEF l, cells
  <2>4. OwnColumns(t)
    BY <1>0, <2>1, <2>2, <2>3, OwnWays
  <2>5. at'[t] = "register" /\ job'[t] = l /\ db' = db
    BY <1>0, <2>2 DEF Load, Goto, Shape
  <2> QED
    BY <2>1, <2>2, <2>4, <2>5
<1>8. CASE UpdateName(t) \/ NewUser(t)
  <2>1. at[t] = "register" /\ \/ Pass(t, "gate")
                              \/ \E v : Flush(t, <<"user", job[t].by>> :> v, "gate")
                              \/ \E v, needs : \E s \in {"registered", "referrer"} :
                                    Add(t, <<"user", job[t].by>> :> v, needs, s)
    BY <1>8 DEF UpdateName, NewUser
  <2> QED
    BY <1>1, <1>3, <1>4, <1>6, <2>1
<1>9. CASE LoadReferrer(t)
  BY <1>2, <1>9 DEF LoadReferrer
<1>10. CASE CountInvite(t)
  <2>1. at[t] = "invite" /\ \E v : Put(t, <<"invites", Referrer(t)>> :> v, "registered")
    BY <1>10 DEF CountInvite
  <2> QED
    BY <1>1, <1>5, <2>1
<1>11. CASE LogRegistration(t)
  <2>1. /\ at[t] = "registered"
        /\ \E s \in {"gate", "reward"} : Flush(t, <<"log", t>> :> TRUE, s)
    BY <1>11 DEF LogRegistration
  <2> QED
    BY <1>1, <1>4, <2>1
<1>12. CASE Reward(t) \/ NoteBonus(t)
  BY <1>1, <1>3, <1>6, <1>12 DEF Reward, NoteBonus
<1>13. CASE Bonus(t)
  <2>1. at[t] = "bonus" /\ \/ Pass(t, "gate") \/ Pass(t, "abort")
                           \/ \E r : Flush(t, <<"premium", r>> :> TRUE, "granted")
    BY <1>13 DEF Bonus
  <2> QED
    BY <1>1, <1>3, <1>4, <2>1
<1>14. CASE LoadUser(t)
  BY <1>2, <1>3, <1>14 DEF LoadUser
<1>15. CASE RecordStart(t)
  <2>1. at[t] = "count" /\ \E v : Put(t, <<"starts", job[t].by>> :> v, "reply")
    BY <1>15 DEF RecordStart
  <2> QED
    BY <1>1, <1>5, <2>1
<1> QED
  BY <1>7, <1>8, <1>9, <1>10, <1>11, <1>12, <1>13, <1>14, <1>15


(* What the gate finds out, step by step.                                  *)
LEMMA FindsOut ==
    ASSUME TInv, NEW t \in Tasks, Guarded(t), Gated(t), Watch, Running(t), told[t] = None,
           SameUpdate(t), db' = db, SameTransaction(t), Quiet(t),
           CheckBlacklist(t) \/ CheckMaintenance(t) \/ Recheck(t) \/ ListTargets(t)
    PROVE  Guarded(t)'
<1>0. Shape /\ CInv /\ GatePlaced(t) /\ GateFound(t) /\ Gated(t)' /\ told'[t] = None
  BY DEF TInv, CInv, Guarded, Gated, SameUpdate, Quiet
<1>1. OwnColumns(t)
  BY DEF SameTransaction, OwnColumns
<1>2. CASE at'[t] = "reply"
  BY <1>1, <1>2, OnwardKeeps DEF Onward
<1>3. ASSUME at'[t] \in {"maintenance", "find", "gate", "check"},
             Weaker(t) => GateFound(t)'
      PROVE  Guarded(t)'
  <2>1. at[t] \notin {"admit", "count"} \cup Leaving
    BY DEF CheckBlacklist, CheckMaintenance, Recheck, ListTargets, Leaving
  <2>2. GatePlaced(t)'
    BY <1>0, <1>1, <1>3, <2>1
       DEF GatePlaced, OwnColumns, Quiet, GateSteps, PastList, PastDoor, Leaving
  <2>3. Weaker(t)
    BY <1>0, <1>3, SeenWeakens DEF Running, Ended
  <2> QED
    BY <1>0, <1>3, <2>2, <2>3, NothingIsSaid DEF Guarded
<1>4. /\ Running(t)' =>
           /\ seen'[t].demanded \subseteq Demanded(db)
           /\ seen'[t].blocked => IsBlocked(db, job[t].by)
           /\ seen'[t].closed => On(db, "maintenance")
  BY <1>0, SeenOf
<1>5. job'[t].out # "greeted" \/ at[t] \in {"admit", "count"} \cup Leaving
  BY <1>0 DEF GatePlaced, Quiet
<1>6. at'[t] \in {"maintenance", "find", "gate", "check"} => Running(t)'
  BY DEF Running, Ended
<1> HIDE DEF Running
<1>7. CASE CheckBlacklist(t)
  <2>1. CASE IsBlocked(Sees(t), job[t].by)
    BY <1>0, <1>2, <1>7, <2>1, AnswerDoes DEF CheckBlacklist
  <2>2. CASE ~ IsBlocked(Sees(t), job[t].by)
    <3>1. at[t] = "route" /\ at'[t] = "maintenance"
      BY <1>0, <1>7, <2>2, PassDoes DEF CheckBlacklist
    <3>2. ~ seen'[t].blocked
      BY <1>0, <1>4, <1>6, <2>2, <3>1, SeesWhatIs
    <3>3. GateFound(t)'
      BY <1>5, <3>1, <3>2 DEF GateFound, PastDoor, Leaving
    <3> QED
      BY <1>3, <3>1, <3>3
  <2> QED
    BY <2>1, <2>2
<1>8. CASE CheckMaintenance(t)
  <2>1. CASE On(Sees(t), "maintenance") /\ job[t].by # Admin
    BY <1>0, <1>2, <1>8, <2>1, AnswerDoes DEF CheckMaintenance
  <2>2. CASE ~ (On(Sees(t), "maintenance") /\ job[t].by # Admin)
    <3>1. at[t] = "maintenance" /\ at'[t] = "find"
      BY <1>0, <1>8, <2>2, PassDoes DEF CheckMaintenance
    <3>2. seen'[t].closed => job[t].by = Admin
      BY <1>0, <1>4, <1>6, <2>2, <3>1, SeesWhatIs
    <3>3. Weaker(t) => GateFound(t)'
      BY <1>0, <1>5, <3>1, <3>2 DEF GateFound, PastList, Leaving, Weaker, SameUpdate
    <3> QED
      BY <1>3, <3>1, <3>3
  <2> QED
    BY <2>1, <2>2
<1>9. CASE Recheck(t)
  <2>1. at[t] = "route" /\ at'[t] = "gate" /\ job'[t].kind = "recheck"
    BY <1>0, <1>9, PassDoes DEF Recheck
  <2>2. GateFound(t)'
    BY <1>5, <2>1 DEF GateFound, Leaving
  <2> QED
    BY <1>3, <2>1, <2>2
<1>10. CASE ListTargets(t)
  <2> DEFINE l == [job[t] EXCEPT !.todo = Demanded(Sees(t)), !.missing = {}]
  <2>1. l.todo = Demanded(Sees(t)) /\ DOMAIN l = JobFields
    BY <1>0 DEF Shape, JobFields
  <2>2. at[t] = "gate" /\ Learn(t, l, "check")
    BY <1>10 DEF ListTargets
  <2> HIDE DEF l
  <2>3. at'[t] = "check" /\ job'[t].todo = Demanded(db)
    BY <1>0, <2>1, <2>2, LearnDoes, SeesWhatIs
  <2>4. seen'[t].demanded \subseteq job'[t].todo
    BY <1>4, <1>6, <2>3
  <2>5. Weaker(t) => GateFound(t)'
    BY <1>0, <1>5, <2>2, <2>3, <2>4
       DEF GateFound, PastList, PastDoor, Leaving, Weaker, SameUpdate
  <2> QED
    BY <1>3, <2>3, <2>5
<1> QED
  BY <1>7, <1>8, <1>9, <1>10

LEMMA Checks ==
    ASSUME TInv, NEW t \in Tasks, Guarded(t), Gated(t), Watch, Running(t), told[t] = None,
           SameUpdate(t), SameTransaction(t), UNCHANGED outside,
           CheckTarget(t) \/ Decide(t)
    PROVE  Guarded(t)'
<1>0. Shape /\ CInv /\ GatePlaced(t) /\ GateFound(t) /\ Gated(t)'
  BY DEF TInv, CInv, Guarded, Gated, SameUpdate
<1>1. OwnColumns(t)
  BY DEF SameTransaction, OwnColumns
<1>2. at[t] = "check" /\ job[t].out # "greeted"
  BY <1>0 DEF CheckTarget, Decide, GatePlaced, Leaving
<1>3. CASE CheckTarget(t)
  <2>0. PICK c \in job[t].todo : \E member \in IsMember(t, c) :
           Learn(t, [job[t] EXCEPT !.todo = @ \ {c},
                                   !.missing = IF member THEN @ ELSE @ \cup {c}], "check")
    BY <1>3 DEF CheckTarget
  <2>1. PICK member \in IsMember(t, c) :
           Learn(t, [job[t] EXCEPT !.todo = @ \ {c},
                                   !.missing = IF member THEN @ ELSE @ \cup {c}], "check")
    BY <2>0
  <2> DEFINE missing == IF member THEN job[t].missing ELSE job[t].missing \cup {c}
             l == [job[t] EXCEPT !.todo = @ \ {c}, !.missing = missing]
  <2>2. c \in Targets
    BY <1>0, <1>2, Placed
  <2>3. member => job[t].by \in members[c]
    BY DEF IsMember
  <2>4. Learn(t, l, "check")
    BY <2>1
  <2>5. c \in missing \/ (job[t].by \in members[c] /\ missing = job[t].missing)
    BY <2>3
  <2>6. job[t].missing \subseteq missing
    OBVIOUS
  <2> HIDE DEF missing
  <2>7. /\ l.todo = job[t].todo \ {c} /\ l.missing = missing /\ l.out = job[t].out
        /\ DOMAIN l = JobFields
    BY <1>0 DEF Shape, JobFields
  <2> HIDE DEF l
  <2>8. at'[t] = "check" /\ job'[t] = l /\ told'[t] = None
    BY <1>0, <2>4, <2>7, LearnDoes DEF SameTalk
  <2>9. Running(t)'
    BY <2>8 DEF Running, Ended
  <2>10. Weaker(t)
    BY <2>9, SeenWeakens
  <2>11. job[t].by \in members[c] => c \in seen'[t].joined
    BY <2>2, <2>8, <2>9, SeenOf DEF outside
  <2>12. seen'[t].demanded \subseteq job'[t].todo \cup job'[t].missing \cup seen'[t].joined
    BY <1>0, <1>2, <2>5, <2>6, <2>7, <2>8, <2>10, <2>11 DEF GateFound, Weaker
  <2>13. GatePlaced(t)'
    BY <1>0, <1>1, <1>2, <2>7, <2>8
       DEF GatePlaced, OwnColumns, GateSteps, PastList, PastDoor
  <2>14. GateFound(t)'
    BY <1>0, <1>2, <2>7, <2>8, <2>10, <2>12
       DEF GateFound, PastList, PastDoor, Weaker, SameUpdate
  <2> QED
    BY <1>0, <2>8, <2>13, <2>14, NothingIsSaid DEF Guarded
<1>4. CASE Decide(t)
  <2>1. CASE job[t].missing # {}
    <3>1. Answer(t, "gate")
      BY <1>4, <2>1 DEF Decide
    <3>2. at'[t] = "reply" /\ Quiet(t)
      BY <1>0, <3>1, AnswerDoes, QuietWays
    <3> QED
      BY <1>1, <3>2, OnwardKeeps DEF Onward
  <2>2. CASE job[t].missing = {}
    <3> DEFINE l == [job[t] EXCEPT !.out = "greeted"]
    <3>1. Learn(t, l, "admit") /\ job[t].todo = {}
      BY <1>4, <2>2 DEF Decide
    <3>2. l.out = "greeted" /\ DOMAIN l = JobFields
      BY <1>0 DEF Shape, JobFields
    <3> HIDE DEF l
    <3>3. at'[t] = "admit" /\ job'[t] = l /\ told'[t] = None
      BY <1>0, <3>1, <3>2, LearnDoes DEF SameTalk
    <3>4. Weaker(t)
      BY <3>3, SeenWeakens DEF Running, Ended
    <3>5. Admitted(t)
      BY <1>0, <1>2, <2>2, <3>1 DEF GateFound, Admitted, PastList, PastDoor
    <3>6. Admitted(t)'
      BY <3>4, <3>5, StillAdmitted
    <3>7. GatePlaced(t)'
      BY <1>0, <1>1, <3>2, <3>3 DEF GatePlaced, OwnColumns, GateSteps, PastList, PastDoor
    <3>8. GateFound(t)'
      BY <3>3, <3>6 DEF GateFound, Admitted
    <3> QED
      BY <1>0, <3>3, <3>7, <3>8, NothingIsSaid DEF Guarded
  <2> QED
    BY <2>1, <2>2
<1> QED
  BY <1>3, <1>4


(* The first step and the last ones.                                       *)
LEMMA Arrives ==
    ASSUME TInv, NEW t \in Tasks, Guarded(t), Gated(t), Receive(t)
    PROVE  Guarded(t)'
<1>0. Shape /\ GatePlaced(t)
  BY DEF TInv, CInv, Guarded
<1> DEFINE l == [job[t] EXCEPT !.raw = fsm.state]
<1>1. l.out = job[t].out /\ l.kind = job[t].kind /\ DOMAIN l = JobFields
  BY <1>0 DEF Shape, JobFields
<1>2. Learn(t, l, "route") /\ at[t] = "idle"
  BY DEF Receive
<1> HIDE DEF l
<1>3. /\ at'[t] = "route" /\ job'[t] = l /\ told'[t] = told[t]
      /\ session'[t] = session[t]
  BY <1>0, <1>1, <1>2, LearnDoes DEF SameTalk, SameTransaction
<1>4. job[t].out # "greeted" /\ told[t] = None
  BY <1>0, <1>2 DEF GatePlaced, Leaving
<1>5. GatePlaced(t)'
  BY <1>0, <1>1, <1>3, <1>4 DEF GatePlaced, GateSteps
<1>6. GateFound(t)'
  BY <1>1, <1>3, <1>4 DEF GateFound, PastList, PastDoor
<1> QED
  BY <1>1, <1>3, <1>4, <1>5, <1>6, NothingIsSaid DEF Guarded, Gated

LEMMA Tells ==
    ASSUME TInv, NEW t \in Tasks, Guarded(t), Gated(t), Watch, Reply(t)
    PROVE  Guarded(t)'
<1>0. Shape /\ GatePlaced(t) /\ Running(t) /\ told[t] = None /\ GateFound(t)
  BY DEF TInv, CInv, Guarded, GatePlaced, Reply, Running, Ended
<1>1. /\ at'[t] \in {"commit", "abort"} /\ job'[t] = job[t] /\ session'[t] = session[t]
      /\ told'[t] = None \/ (told'[t] = job[t].out /\ at'[t] = "commit")
  BY <1>0 DEF Reply, Goto, Shape
<1>2. Weaker(t)
  <2>1. Gated(t) /\ Running(t)'
    BY <1>1 DEF Running, Ended
  <2> QED
    BY <2>1, SeenWeakens
<1>3. job[t].out = "greeted" => Admitted(t)'
  BY <1>0, <1>1, <1>2, StillAdmitted DEF GateFound, SameUpdate
<1>4. GatePlaced(t)'
  BY <1>0, <1>1 DEF GatePlaced, GateSteps, Leaving
<1>5. GateFound(t)'
  BY <1>1, <1>3 DEF GateFound, PastList, PastDoor
<1> QED
  BY <1>1, <1>3, <1>4, <1>5, NothingIsSaid DEF Guarded, Gated

LEMMA Ends ==
    ASSUME TInv, NEW t \in Tasks, Guarded(t), Watch, Commit(t) \/ Rollback(t)
    PROVE  Guarded(t)'
<1>1. at'[t] \in {"done", "failed"}
  BY DEF TInv, CInv, Shape, Commit, Rollback, Goto
<1>2. told'[t] = told[t] /\ job'[t] = job[t] /\ DOMAIN session'[t] = {}
  BY DEF TInv, CInv, Shape, Commit, Rollback, Closed
<1> QED
  BY <1>1, <1>2, Unmoved

LEMMA GuardedStep ==
    ASSUME TInv, NEW t \in Tasks, Guarded(t), Gated(t), Step(t), Good(t), Watch
    PROVE  Guarded(t)'
<1>0. CInv /\ Shape /\ GatePlaced(t) /\ SameUpdate(t) /\ UNCHANGED outside
  BY DEF TInv, CInv, Guarded, Good, Step
<1>1. CASE Receive(t)
  BY <1>1, Arrives
<1>2. CASE Reply(t)
  BY <1>2, Tells
<1>3. CASE Commit(t) \/ Rollback(t)
  BY <1>3, Ends
<1>4. CASE UNCHANGED core
  BY <1>4, Unmoved DEF core
<1>5. ASSUME Running(t), at[t] \notin {"commit", "done", "failed"}
      PROVE  told[t] = None
  BY <1>0, <1>5 DEF GatePlaced
<1>6. CASE Ignore(t) \/ Throttle(t) \/ LockTimeout(t)
  <2>1. \E s \in {"commit", "abort"} : Pass(t, s)
    BY <1>6 DEF Ignore, Throttle, LockTimeout
  <2>2. at[t] = "route" \/ at[t] \in Writing
    BY <1>6 DEF Ignore, Throttle, LockTimeout
  <2>3. Running(t) /\ told[t] = None
    BY <1>5, <2>2 DEF Writing, Running, Ended
  <2>4. at'[t] \in {"commit", "abort"} /\ job'[t] = job[t] /\ Quiet(t) /\ OwnColumns(t)
    BY <1>0, <2>1, PassDoes, QuietWays, OwnWays
  <2> QED
    BY <1>0, <2>3, <2>4, OnwardKeeps DEF Onward
<1>7. CASE \/ FindUser(t) \/ UpdateName(t) \/ NewUser(t) \/ LoadReferrer(t) \/ CountInvite(t)
           \/ LogRegistration(t) \/ Reward(t) \/ Bonus(t) \/ NoteBonus(t)
           \/ LoadUser(t) \/ RecordStart(t)
  <2>1. /\ OwnColumns(t) /\ Onward(t) /\ job'[t].out = job[t].out
        /\ at[t] \in Registering \cup {"admit", "count"}
    BY <1>0, <1>7, RegistersOnward
  <2>2. Running(t) /\ told[t] = None
    BY <1>5, <2>1 DEF Registering, Running, Ended
  <2>3. Quiet(t)
    <3>1. SubscriptionsStep(t) \/ RegistrationStep(t)
      BY <1>7 DEF SubscriptionsStep, RegistrationStep
    <3>2. ~ Decide(t)
      BY <2>1 DEF Decide, Registering
    <3> QED
      BY <1>0, <3>1, <3>2, SubscriptionsQuiet, RegistrationQuiet
  <2> QED
    BY <1>0, <2>1, <2>2, <2>3, OnwardKeeps
<1>8. CASE CheckBlacklist(t) \/ CheckMaintenance(t) \/ Recheck(t) \/ ListTargets(t)
  <2>1. at[t] \in {"route", "maintenance", "gate"}
    BY <1>8 DEF CheckBlacklist, CheckMaintenance, Recheck, ListTargets
  <2>2. Running(t) /\ told[t] = None
    BY <1>5, <2>1 DEF Running, Ended
  <2>3. Quiet(t)
    <3>1. SubscriptionsStep(t) \/ RegistrationStep(t)
      BY <1>8 DEF SubscriptionsStep, RegistrationStep
    <3>2. ~ Decide(t)
      BY <2>1 DEF Decide
    <3> QED
      BY <1>0, <3>1, <3>2, SubscriptionsQuiet, RegistrationQuiet
  <2>4. UNCHANGED <<db, session, wrote>>
    BY <1>8 DEF CheckBlacklist, CheckMaintenance, Recheck, ListTargets, Answer, Pass, Learn
  <2> QED
    BY <1>0, <1>8, <2>2, <2>3, <2>4, FindsOut DEF SameTransaction
<1>9. CASE CheckTarget(t) \/ Decide(t)
  <2>1. Running(t) /\ told[t] = None
    <3>1. at[t] = "check"
      BY <1>9 DEF CheckTarget, Decide
    <3> QED
      BY <1>5, <3>1 DEF Running, Ended
  <2>2. UNCHANGED <<db, session, wrote>>
    BY <1>9 DEF CheckTarget, Decide, Answer, Learn
  <2> QED
    BY <1>0, <1>9, <2>1, <2>2, Checks DEF SameTransaction
<1> QED
  BY <1>0, <1>1, <1>2, <1>3, <1>4, <1>6, <1>7, <1>8, <1>9, GateTakes DEF RegistrationStep

(* Nobody is greeted elsewhere.                                            *)
LEMMA GreetsNowhereElse ==
    ASSUME TInv, NEW t \in Tasks, Guarded(t), ~ Gated(t), Step(t), Good(t)
    PROVE  Guarded(t)'
<1>0. CInv /\ Shape /\ ~ Gated(t)'
  BY DEF TInv, CInv, Good, SameUpdate, Gated
<1>1. job[t].out # "greeted" /\ told[t] # "greeted"
  BY DEF Guarded
<1>2. ~ Decide(t)
  BY <1>0, Placed DEF Decide, Gated
<1>3. CASE Quiet(t)
  BY <1>0, <1>1, <1>3 DEF Quiet, Guarded
<1>4. CASE Reply(t)
  <2>1. job'[t] = job[t] /\ told'[t] \in {told[t], job[t].out}
    BY <1>0, <1>4 DEF Reply, Shape
  <2> QED
    BY <1>0, <1>1, <2>1 DEF Guarded
<1> QED
  BY <1>0, <1>2, <1>3, <1>4, StepQuiet

(* A crash: the task begins again or is over.                              *)
LEMMA StoppedByCrash ==
    ASSUME TInv, NEW t \in Tasks, Guarded(t), Crash, Watch
    PROVE  Guarded(t)'
<1>1. /\ DOMAIN session'[t] = {}
      /\ \/ /\ at'[t] = "idle" /\ told'[t] = None
            /\ job'[t] = Asked(job[t].kind, job[t].by, job[t].arg)
         \/ /\ at'[t] \in {"failed", at[t]} /\ job'[t] = job[t] /\ told'[t] = told[t]
  BY DEF Crash, Kill
<1>2. CASE /\ at'[t] = "idle" /\ told'[t] = None
           /\ job'[t] = Asked(job[t].kind, job[t].by, job[t].arg)
  <2>1. job'[t].out = None /\ job'[t].kind = job[t].kind
    BY <1>2 DEF Asked
  <2> QED
    BY <1>1, <1>2, <2>1, NothingIsSaid
       DEF Guarded, Gated, GatePlaced, GateSteps, Running, Ended
<1>3. CASE at'[t] \in {"failed", at[t]} /\ job'[t] = job[t] /\ told'[t] = told[t]
  BY <1>1, <1>3, Unmoved
<1> QED
  BY <1>1, <1>2, <1>3

LEMMA NextKeepsGuard == GInv /\ [Next]_vars => GInv'
<1> SUFFICES ASSUME GInv, [Next]_vars PROVE GInv'
  OBVIOUS
<1>0. TInv /\ TInv' /\ \A t \in Tasks : Guarded(t)
  BY NextKeepsTypes DEF GInv
<1>1. ASSUME NEW t \in Tasks, Turn(t), NEW o \in Tasks PROVE Guarded(o)'
  <2>1. Step(t) /\ Watch /\ Good(t)
    BY <1>0, <1>1, StepGood DEF Turn, TInv, LegsOK
  <2>2. CASE o = t
    BY <1>0, <2>1, <2>2, GuardedStep, GreetsNowhereElse
  <2>3. CASE o # t
    BY <1>0, <2>1, <2>3, Unmoved DEF Good, Alone
  <2> QED
    BY <2>2, <2>3
<1>2. ASSUME Join, Watch, NEW o \in Tasks PROVE Guarded(o)'
  BY <1>0, <1>2, Unmoved DEF Join, Move, core
<1>3. ASSUME Crash, Watch, NEW o \in Tasks PROVE Guarded(o)'
  BY <1>0, <1>3, StoppedByCrash
<1>4. ASSUME UNCHANGED vars, NEW o \in Tasks PROVE Guarded(o)'
  BY <1>0, <1>4
     DEF vars, core, Guarded, Gated, GatePlaced, GateFound, Admitted, Running
<1> QED
  BY <1>0, <1>1, <1>2, <1>3, <1>4 DEF Next, AllOver, GInv

LEMMA InitGuard == Init => GInv
<1> SUFFICES ASSUME Init PROVE GInv
  OBVIOUS
<1>1. TInv
  BY InitTypes
<1>2. ASSUME NEW t \in Tasks PROVE Guarded(t)
  <2>1. /\ at[t] \in {"idle", "unused"} /\ DOMAIN session[t] = {} /\ told[t] = None
    BY DEF Init, CoreInit
  <2>2. job[t].out = None
    <3>1. PICK w \in Workloads : CoreInit(w)
      BY DEF Init
    <3>2. IsUpdate(job[t]) \/ job[t] = Asked("start", Admin, None)
      BY <3>1, WorkloadAssumption DEF CoreInit
    <3> QED
      BY <3>2 DEF IsUpdate, Asked
  <2> QED
    BY <2>1, <2>2, NothingIsSaid DEF Guarded, GatePlaced, GateSteps, Running, Ended
<1> QED
  BY <1>1, <1>2 DEF GInv

(* Whoever is greeted has been let in, whatever the admin changes and      *)
(* whoever joins or leaves while the gate asks (start.py:56-107,           *)
(* movie_code.py:284-315): every target that was demanded all the while    *)
(* had him as a member at some time since he asked, and one who sent       *)
(* /start was not blacklisted, nor the bot closed to him, all the while.   *)
THEOREM GateHolds == Spec => []GreetedOnlyIfAdmitted
<1>1. GInv => GreetedOnlyIfAdmitted
  BY DEF GInv, Guarded, Admitted, GreetedOnlyIfAdmitted
<1> QED
  BY <1>1, InitGuard, NextKeepsGuard, PTL DEF Spec

-----------------------------------------------------------------------------
(* No row is locked by two transactions; on SQLite, one has all the locks. *)
Exclusive ==
    \A a, b \in Tasks : a # b =>
        \A c \in wrote[a], d \in wrote[b] : backend # "sqlite" /\ Primary(c) # Primary(d)

(* What has to agree, and whose cells of it a task writes.                 *)
Tallied == {"user", "invites", "reward", "bonus"}
Mine(t) == {c \in wrote[t] : c[1] \in Tallied}

(* The cells that t may write of it: its user, whether there and by whom   *)
(* invited, the referrer's counter, the reward and the bonus.              *)
UserOf(t)    == <<"user", job[t].by>>
InvitesOf(t) == <<"invites", Referrer(t)>>
RewardOf(t)  == <<"reward", t>>
BonusOf(t)   == <<"bonus", t>>
Switch       == <<"setting", "referral">>

(* A count of the invitations of t's referrer, before t.                   *)
Before(t, n) ==
    /\ n \in Nat /\ n <= Cardinality(InvitedBy(Referrer(t)))
    /\ backend = "sqlite" => n = Of(db, InvitesOf(t))

(* t has added its user.                                                   *)
Fresh(t) == job[t].isNew /\ UserOf(t) \in wrote[t]

(* What it has written then: an invitation of a user that is not there     *)
(* yet, counted once, and a reward and a bonus for the referrer.           *)
Brings(t) ==
    /\ Of(db, UserOf(t)) = None /\ session[t][UserOf(t)] = [by |-> Referrer(t)]
    /\ InvitesOf(t) \in Mine(t) => /\ session[t][InvitesOf(t)] \in Nat \ {0}
                                   /\ Before(t, session[t][InvitesOf(t)] - 1)
    /\ \A c \in {RewardOf(t), BonusOf(t)} \cap Mine(t) :
          session[t][c] = Referrer(t) /\ Of(db, c) = None

(* The invitation earns a bonus.                                           *)
Due(t) == session[t][InvitesOf(t)] % Threshold = 0

(* All that belongs to it: no reward only where a row says so, and a bonus *)
(* when it is due.                                                         *)
Complete(t) ==
    LET invited == {UserOf(t), InvitesOf(t)}
    IN  \/ Referrer(t) = None /\ Mine(t) = {UserOf(t)}
        \/ /\ Referrer(t) # None
           /\ \/ Mine(t) = invited /\ Of(db, Switch) # None
              \/ /\ Mine(t) = invited \cup {RewardOf(t)}
                 /\ backend = "sqlite" => ~ Due(t)
              \/ /\ Mine(t) = invited \cup {RewardOf(t), BonusOf(t)}
                 /\ backend = "sqlite" => Due(t)

Enrolling == InviteSteps \cup {"registered"}

(* How far it is, by where it is.                                          *)
Progress(t) ==
    LET invited == {UserOf(t), InvitesOf(t)}
    IN  /\ at[t] \in {"referrer", "invite"} => Mine(t) = {UserOf(t)}
        /\ at[t] = "referrer" => /\ InvitesOf(t) \notin DOMAIN session[t]
                                 /\ Of(db, <<"user", Referrer(t)>>) # None
        /\ at[t] = "invite" => /\ InvitesOf(t) \in DOMAIN session[t]
                               /\ Before(t, session[t][InvitesOf(t)])
        /\ at[t] = "registered" =>
              Mine(t) = IF Referrer(t) = None THEN {UserOf(t)} ELSE invited
        /\ at[t] = "reward" => Mine(t) = invited
        /\ at[t] \in {"bonus", "granted"} => Mine(t) = invited \cup {RewardOf(t)}
        /\ at[t] = "granted" => (backend = "sqlite" => Due(t))
        /\ at[t] \notin Enrolling \cup {"abort"} => Complete(t)

(* A task whose user is there has nothing to add.                          *)
Returns(t) ==
    /\ Mine(t) \subseteq {UserOf(t)}
    /\ UserOf(t) \in wrote[t] => /\ Of(db, UserOf(t)) # None
                                 /\ session[t][UserOf(t)] = Of(db, UserOf(t))
    /\ at[t] \notin Enrolling

(* /start, before it has written anything.                                 *)
Arriving(t) ==
    /\ at[t] \in {"maintenance", "find"} => session[t] = <<>>
    /\ at[t] = "register" =>
          /\ wrote[t] = {} /\ DOMAIN session[t] \subseteq OfUsers \X {job[t].by}
          /\ ~ job[t].isNew => Of(db, UserOf(t)) # None
          /\ UserOf(t) \in DOMAIN session[t] =>
                Of(db, UserOf(t)) # None /\ session[t][UserOf(t)] = Of(db, UserOf(t))

(* What a task has to do with it.                                          *)
Joins(t) ==
    /\ job[t].kind = "start" => /\ Arriving(t)
                                /\ Fresh(t) => Brings(t) /\ Progress(t)
                                /\ ~ Fresh(t) => Returns(t)
    /\ job[t].kind # "start" => Mine(t) = {}
    /\ \A c \in wrote[t] : c[1] = "setting" => session[t][c] # None

(* What the database says of a referrer can be counted.                    *)
GivenTo(column, r) == {t \in Tasks : Of(db, <<column, t>>) = r}

TalliedFor(r) ==
    /\ Of(db, <<"invites", r>>) \in Nat
    /\ IsFiniteSet(GivenTo("reward", r)) /\ IsFiniteSet(GivenTo("bonus", r))

Tallies == \A r \in Users : TalliedFor(r)

(* The inductive invariant.                                                *)
RInv ==
    /\ GInv /\ Exclusive
    /\ ReferralsAddUp /\ Tallies
    /\ \A t \in Tasks : Joins(t)

-----------------------------------------------------------------------------
(* Operators.                                                              *)
LEMMA NextQuotient ==
    ASSUME NEW n \in Nat, NEW d \in Nat \ {0}
    PROVE  /\ n \div d \in Nat /\ n % d \in Nat
           /\ (n + 1) % d = 0 => (n + 1) \div d = (n \div d) + 1
           /\ (n + 1) % d # 0 => (n + 1) \div d = n \div d
<1> DEFINE q == n \div d
           p == (n + 1) \div d
           m == n % d
           k == (n + 1) % d
<1>1. /\ q \in Nat /\ p \in Nat /\ m \in 0 .. (d - 1) /\ k \in 0 .. (d - 1)
      /\ n = d * q + m /\ n + 1 = d * p + k
  OBVIOUS
<1> HIDE DEF q, p, m, k
<1>2. d * (p - q) = m + 1 - k
  BY <1>1
<1>3. p - q >= 2 => d * (p - q) >= d * 2
  BY <1>1
<1>4. p - q <= -1 => d * (p - q) <= -d
  BY <1>1
<1>5. p - q \in {0, 1}
  BY <1>1, <1>2, <1>3, <1>4
<1>6. p - q = 0 => k = m + 1
  BY <1>1, <1>2
<1>7. p - q = 1 => k = m + 1 - d
  BY <1>1, <1>2
<1> QED
  BY <1>1, <1>5, <1>6, <1>7 DEF q, p, m, k

LEMMA CellsOfATask ==
    ASSUME CInv, NEW t \in Tasks
    PROVE  /\ UserOf(t)[1] = "user" /\ InvitesOf(t)[1] = "invites"
           /\ RewardOf(t)[1] = "reward" /\ BonusOf(t)[1] = "bonus" /\ Switch[1] = "setting"
           /\ Primary(UserOf(t)) = UserOf(t) /\ Primary(RewardOf(t)) = RewardOf(t)
           /\ Primary(BonusOf(t)) = BonusOf(t)
           /\ Primary(InvitesOf(t)) = <<"user", Referrer(t)>>
           /\ job[t].by \in Users /\ Referrer(t) # job[t].by
           /\ job[t].kind = "start" => Referrer(t) \in Users \cup {None}
BY Placed, UpdatesAssumption
   DEF UserOf, InvitesOf, RewardOf, BonusOf, Switch, Primary, OfUsers, OfTargets, Referrer

-----------------------------------------------------------------------------
(* Locks.                                                                  *)
LEMMA StaysExclusive ==
    ASSUME Exclusive, NEW t \in Tasks, Alone(t),
           wrote'[t] = {} \/ \E columns : Touches(t, columns)
    PROVE  Exclusive'
<1>1. ASSUME NEW o \in Tasks \ {t}, NEW c \in wrote'[t], NEW d \in wrote[o]
      PROVE  backend # "sqlite" /\ Primary(c) # Primary(d)
  <2>1. CASE c \in wrote[t]
    BY <1>1, <2>1 DEF Exclusive
  <2>2. CASE c \notin wrote[t]
    <3>1. MayWrite(t, wrote'[t] \ wrote[t])
      BY <1>1, <2>2 DEF Touches
    <3> QED
      BY <1>1, <2>2, <3>1 DEF MayWrite, Locks
  <2> QED
    BY <2>1, <2>2
<1> SUFFICES ASSUME NEW a \in Tasks, NEW b \in Tasks, a # b,
                    NEW c \in wrote'[a], NEW d \in wrote'[b]
             PROVE  backend # "sqlite" /\ Primary(c) # Primary(d)
  BY DEF Exclusive, Alone
<1>2. \A o \in Tasks \ {t} : wrote'[o] = wrote[o]
  BY DEF Alone
<1>3. CASE a = t
  BY <1>1, <1>2, <1>3
<1>4. CASE b = t
  BY <1>1, <1>2, <1>4
<1>5. CASE a # t /\ b # t
  BY <1>2, <1>5 DEF Exclusive
<1> QED
  BY <1>3, <1>4, <1>5

-----------------------------------------------------------------------------
(* What makes a task's part stay what it is.                               *)
LEMMA JoinsUnchanged ==
    ASSUME NEW t \in Tasks, Joins(t), db' = db, backend' = backend, at'[t] = at[t],
           job'[t] = job[t], session'[t] = session[t], wrote'[t] = wrote[t]
    PROVE  Joins(t)'
<1>1. /\ Referrer(t)' = Referrer(t) /\ UserOf(t)' = UserOf(t) /\ Mine(t)' = Mine(t)
      /\ RewardOf(t)' = RewardOf(t) /\ BonusOf(t)' = BonusOf(t)
      /\ InvitesOf(t)' = InvitesOf(t)
  BY DEF Referrer, UserOf, InvitesOf, Mine, RewardOf, BonusOf
<1>2. \A r : InvitedBy(r)' = InvitedBy(r)
  BY DEF InvitedBy
<1>3. Fresh(t)' = Fresh(t) /\ Brings(t)' = Brings(t) /\ Returns(t)' = Returns(t)
  BY <1>1, <1>2 DEF Fresh, Brings, Returns, Before
<1>4. Complete(t)' = Complete(t)
  BY <1>1 DEF Complete, Due
<1>5. Progress(t)' = Progress(t)
  BY <1>1, <1>2, <1>4 DEF Progress, Before, Due
<1>6. Arriving(t)' = Arriving(t)
  BY <1>1 DEF Arriving
<1> QED
  BY <1>1, <1>3, <1>5, <1>6 DEF Joins

(* Before it has written, and when it is over.                             *)
LEMMA NothingJoins ==
    ASSUME NEW t \in Tasks, wrote'[t] = {}, at'[t] \notin Enrolling, Arriving(t)'
    PROVE  Joins(t)'
<1>1. Mine(t)' = {} /\ ~ Fresh(t)'
  BY DEF Mine, Fresh
<1>2. Returns(t)'
  BY <1>1 DEF Returns
<1> QED
  BY <1>1, <1>2 DEF Joins

(* A step that writes none of the cells that have to agree.                *)
Keeps(t) ==
    /\ Mine(t)' = Mine(t) /\ \A c \in Mine(t) : session'[t][c] = session[t][c]
    /\ \A c \in wrote'[t] : c[1] = "setting" =>
          c \in wrote[t] /\ session'[t][c] = session[t][c]

LEMMA TouchesKeep ==
    ASSUME NEW t \in Tasks, NEW columns, Touches(t, columns),
           columns \cap (Tallied \cup {"setting"}) = {}
    PROVE  Keeps(t)
<1>1. \A c : c[1] \in Tallied \cup {"setting"} =>
         /\ c \in wrote'[t] <=> c \in wrote[t]
         /\ c \in wrote[t] => session'[t][c] = session[t][c]
  BY DEF Touches
<1> QED
  BY <1>1 DEF Keeps, Mine

LEMMA PassesOn ==
    ASSUME NEW t \in Tasks, Joins(t), job[t].kind = "start", db' = db, backend' = backend,
           job'[t].kind = job[t].kind, job'[t].by = job[t].by, job'[t].arg = job[t].arg,
           job'[t].isNew = job[t].isNew, Keeps(t),
           at[t] \notin Enrolling \cup {"abort"} \/ at'[t] = "abort",
           at'[t] \notin Enrolling \cup {"maintenance", "find", "register"}
    PROVE  Joins(t)'
<1>1. /\ Referrer(t)' = Referrer(t) /\ UserOf(t)' = UserOf(t)
      /\ RewardOf(t)' = RewardOf(t) /\ BonusOf(t)' = BonusOf(t)
      /\ InvitesOf(t)' = InvitesOf(t)
  BY DEF Referrer, UserOf, InvitesOf, RewardOf, BonusOf
<1>2. \A r : InvitedBy(r)' = InvitedBy(r)
  BY DEF InvitedBy
<1>3. Mine(t)' = Mine(t) /\ \A c \in Mine(t) : session'[t][c] = session[t][c]
  BY DEF Keeps
<1>4. (UserOf(t) \in wrote[t] <=> UserOf(t) \in Mine(t))
      /\ (UserOf(t) \in wrote'[t] <=> UserOf(t) \in Mine(t)')
  BY DEF Mine, UserOf, Tallied
<1>5. Fresh(t)' <=> Fresh(t)
  BY <1>1, <1>3, <1>4 DEF Fresh
<1>6. ASSUME Fresh(t) PROVE Brings(t)' /\ Progress(t)'
  <2>1. Brings(t) /\ Progress(t) /\ UserOf(t) \in Mine(t)
    BY <1>4, <1>6 DEF Joins, Fresh
  <2>2. Brings(t)'
    BY <1>1, <1>2, <1>3, <2>1 DEF Brings, Before
  <2>3. Complete(t) => Complete(t)'
    BY <1>1, <1>3 DEF Complete, Due
  <2> QED
    BY <2>1, <2>2, <2>3 DEF Progress, Enrolling, InviteSteps
<1>7. ASSUME ~ Fresh(t) PROVE Returns(t)'
  BY <1>1, <1>3, <1>4, <1>7 DEF Joins, Returns
<1> QED
  BY <1>3, <1>5, <1>6, <1>7 DEF Joins, Arriving, Keeps

-----------------------------------------------------------------------------
(* Settings: what is written is a value.                                   *)
LEMMA AtSettings ==
    ASSUME NEW t \in Tasks, at[t] \in SettingSteps,
           \/ Receive(t) \/ Ignore(t) \/ Throttle(t) \/ LockTimeout(t) \/ Log(t) \/ Reply(t)
           \/ SubscriptionsStep(t) \/ RegistrationStep(t) \/ PanelStep(t)
           \/ ComposeStep(t) \/ BackupsStep(t)
    PROVE  FindSetting(t) \/ InsertSetting(t) \/ UpdateSetting(t) \/ LockTimeout(t)
<1>1. at[t] \in {"find setting", "insert setting", "update setting"}
  BY DEF SettingSteps
<1>2. ~ SubscriptionsStep(t)
  BY <1>1
     DEF SubscriptionsStep, ListTargets, CheckTarget, Decide, LoadUser, RecordStart, Recheck,
         Confirm, InsertConfirmation, StartAdd, CancelAdd, ChoosePlatform, PickChat, FindPicked,
         AddTelegram, ReceiveTitleOrUrl, ReceiveInstructions, AddExternal, Edit, SaveEdit
<1>3. ~ RegistrationStep(t)
  BY <1>1
     DEF RegistrationStep, CheckBlacklist, CheckMaintenance, FindUser, UpdateName, NewUser,
         LoadReferrer, CountInvite, LogRegistration, Reward, Bonus, NoteBonus
<1>4. PanelStep(t) => FindSetting(t) \/ InsertSetting(t) \/ UpdateSetting(t)
  BY <1>1
     DEF PanelStep, ToggleSetting, EditSetting, ReceiveValue, RefuseValue, OpenBlacklist,
         ReceiveBlocked, AddEntry, Unblock, DeactivateEntry, FindUserToAct, ActOnUser, Handling, Reading
<1>5. ~ ComposeStep(t)
  BY <1>1 DEF ComposeStep, Compose, ReceiveContent, ReceiveButtons, CancelSend, ConfirmSend,
              Talk
<1>6. ~ BackupsStep(t)
  BY <1>1 DEF BackupsStep, BeginCopy, EndCopy, Prune, NoFile, Copying
<1>7. ~ (Receive(t) \/ Ignore(t) \/ Throttle(t) \/ Log(t) \/ Reply(t))
  BY <1>1 DEF Receive, Ignore, Throttle, Log, Reply
<1> QED
  BY <1>2, <1>3, <1>4, <1>5, <1>6, <1>7

LEMMA SettingsHaveValues ==
    ASSUME CInv, NEW t \in Tasks,
           \A c \in wrote[t] : c[1] = "setting" => session[t][c] # None,
           \/ Receive(t) \/ Ignore(t) \/ Throttle(t) \/ LockTimeout(t) \/ Log(t) \/ Reply(t)
           \/ SubscriptionsStep(t) \/ RegistrationStep(t) \/ PanelStep(t)
           \/ ComposeStep(t) \/ BackupsStep(t)
    PROVE  \A c \in wrote'[t] : c[1] = "setting" => session'[t][c] # None
<1>0. Shape /\ DOMAIN job[t] = JobFields /\ wrote[t] \subseteq DOMAIN session[t]
  BY DEF CInv, Shape, Typed
<1>1. CASE at[t] \notin SettingSteps
  <2>1. Touches(t, Columns(at[t])) /\ "setting" \notin Columns(at[t])
    BY <1>1, StepsTouch DEF Columns, OfTargets
  <2> QED
    BY <2>1 DEF Touches
<1>2. CASE LockTimeout(t)
  BY <1>0, <1>2, PassDoes DEF LockTimeout, SameTransaction
<1>3. CASE FindSetting(t)
  <2> DEFINE cells == {<<"setting", job[t].key>>}
  <2>1. (\E s : Pass(t, s)) \/ Load(t, cells, job[t], "update setting")
    BY <1>3 DEF FindSetting, Hold
  <2> HIDE DEF cells
  <2> QED
    BY <1>0, <2>1, PassDoes, LoadDoes DEF SameTransaction
<1>4. CASE at[t] \in SettingSteps /\ (InsertSetting(t) \/ UpdateSetting(t))
  <2> DEFINE row == <<"setting", job[t].key>>
             value == row :> job[t].value
  <2>1. Add(t, value, {}, "reply") \/ Put(t, value, "reply")
    BY <1>4 DEF InsertSetting, UpdateSetting
  <2>2. job[t].value # None
    BY <1>4, Placed DEF SettingSteps
  <2>3. \A c \in DOMAIN value : value[c] # None
    BY <2>2 DEF :>
  <2> HIDE DEF value
  <2>4. ASSUME NEW new, Flush(t, new, "reply"), \A c \in DOMAIN new : new[c] # None
        PROVE  \A c \in wrote'[t] : c[1] = "setting" => session'[t][c] # None
    BY <1>0, <2>4, FlushDoes
  <2>5. ASSUME Pass(t, "reply") \/ SameTransaction(t)
        PROVE  \A c \in wrote'[t] : c[1] = "setting" => session'[t][c] # None
    BY <1>0, <2>5, PassDoes DEF SameTransaction
  <2>6. CASE Put(t, value, "reply")
    <3> DEFINE changed == {c \in DOMAIN value : Val(t, c) # value[c]}
    <3>1. Pass(t, "reply") \/ Flush(t, Restrict(value, changed), "reply")
      BY <2>6 DEF Put
    <3>2. \A c \in DOMAIN Restrict(value, changed) : Restrict(value, changed)[c] # None
      BY <2>3, Restricted
    <3> QED
      BY <2>4, <2>5, <3>1, <3>2
  <2>7. CASE Add(t, value, {}, "reply")
    <3>1. SameTransaction(t) \/ Flush(t, value, "reply")
      BY <1>0, <2>7, AddDoes
    <3> QED
      BY <2>3, <2>4, <2>5, <3>1
  <2> QED
    BY <2>1, <2>6, <2>7
<1> QED
  BY <1>1, <1>2, <1>3, <1>4, AtSettings

(* Updates other than /start.                                              *)
LEMMA OthersJoin ==
    ASSUME CInv, NEW t \in Tasks, Joins(t), job[t].kind # "start", SameUpdate(t),
           \/ Receive(t) \/ Ignore(t) \/ Throttle(t) \/ LockTimeout(t) \/ Log(t) \/ Reply(t)
           \/ SubscriptionsStep(t) \/ RegistrationStep(t) \/ PanelStep(t)
           \/ ComposeStep(t) \/ BackupsStep(t) \/ CampaignStep(t)
    PROVE  Joins(t)'
<1>1. ASSUME NEW columns, Touches(t, columns), columns \cap Tallied = {} PROVE Mine(t)' = {}
  <2>1. \A c : c[1] \in Tallied => (c \in wrote'[t] <=> c \in wrote[t])
    BY <1>1 DEF Touches
  <2> QED
    BY <2>1 DEF Mine, Joins
<1>2. CASE CampaignStep(t)
  <2> DEFINE columns == {"campaign", "failure"}
  <2>1. Touches(t, columns) /\ columns \cap (Tallied \cup {"setting"}) = {}
    BY <1>2, CampaignTouches DEF Tallied
  <2> HIDE DEF columns
  <2>2. Keeps(t) /\ Mine(t)' = {}
    BY <1>1, <2>1, TouchesKeep
  <2> QED
    BY <2>2 DEF Joins, Keeps, SameUpdate
<1>3. CASE ~ CampaignStep(t)
  <2>1. Touches(t, Columns(at[t])) /\ \A c \in wrote'[t] : c[1] = "setting" => session'[t][c] # None
    BY <1>3, StepsTouch, SettingsHaveValues DEF Joins
  <2>2. at[t] \notin {"register", "invite", "reward", "granted"}
    BY Placed
  <2>3. Columns(at[t]) \cap Tallied = {}
    BY <2>2 DEF Columns, Tallied, OfTargets
  <2>4. Mine(t)' = {}
    BY <1>1, <2>1, <2>3
  <2> QED
    BY <2>1, <2>4 DEF Joins, SameUpdate
<1> QED
  BY <1>2, <1>3

-----------------------------------------------------------------------------
(* /start outside of the registration.                                     *)
LEMMA GatePasses ==
    ASSUME CInv, NEW t \in Tasks, Joins(t), job[t].kind = "start", Good(t),
           \/ ListTargets(t) \/ CheckTarget(t) \/ Decide(t) \/ LoadUser(t) \/ RecordStart(t)
           \/ Reply(t)
    PROVE  Joins(t)'
<1>0. Shape /\ DOMAIN job[t] = JobFields /\ SameUpdate(t) /\ backend' = backend
  BY DEF CInv, Shape, Good, Alone
<1>1. at[t] \in {"gate", "check", "admit", "count", "reply"}
  BY DEF ListTargets, CheckTarget, Decide, LoadUser, RecordStart, Reply
<1>2. Keeps(t)
  <2>1. Touches(t, Columns(at[t]))
    BY StepsTouch DEF SubscriptionsStep
  <2>2. Columns(at[t]) \cap (Tallied \cup {"setting"}) = {}
    BY <1>1 DEF Columns, Tallied, SettingSteps
  <2> QED
    BY <2>1, <2>2, TouchesKeep
<1>3. /\ db' = db /\ job'[t].isNew = job[t].isNew
      /\ at'[t] \in {"check", "reply", "admit", "count", "commit", "abort"}
  <2>1. ASSUME NEW l, NEW s, Learn(t, l, s), l.isNew = job[t].isNew
        PROVE  db' = db /\ job'[t].isNew = job[t].isNew /\ at'[t] = s
    BY <1>0, <2>1 DEF Learn, Goto, Shape
  <2>2. ASSUME NEW s, Pass(t, s) \/ \E cells : Hold(t, cells, s)
        PROVE  db' = db /\ job'[t].isNew = job[t].isNew /\ at'[t] = s
    BY <1>0, <2>2 DEF Pass, Learn, Hold, Load, Goto, Shape
  <2>3. CASE ListTargets(t)
    <3> DEFINE l == [job[t] EXCEPT !.todo = Demanded(Sees(t)), !.missing = {}]
    <3>1. l.isNew = job[t].isNew /\ Learn(t, l, "check")
      BY <1>0, <2>3 DEF ListTargets, JobFields
    <3> HIDE DEF l
    <3> QED
      BY <2>1, <3>1
  <2>4. CASE CheckTarget(t)
    <3>1. PICK c, member :
             Learn(t, [job[t] EXCEPT !.todo = @ \ {c},
                                     !.missing = IF member THEN @ ELSE @ \cup {c}], "check")
      BY <2>4 DEF CheckTarget
    <3> DEFINE l == [job[t] EXCEPT !.todo = @ \ {c},
                                   !.missing = IF member THEN @ ELSE @ \cup {c}]
    <3>2. l.isNew = job[t].isNew /\ Learn(t, l, "check")
      BY <1>0, <3>1 DEF JobFields
    <3> HIDE DEF l
    <3> QED
      BY <2>1, <3>2
  <2>5. CASE Decide(t)
    <3> DEFINE l(out) == [job[t] EXCEPT !.out = out]
    <3>1. Learn(t, l("gate"), "reply") \/ Learn(t, l("greeted"), "admit")
      BY <2>5 DEF Decide, Answer
    <3>2. \A out : l(out).isNew = job[t].isNew
      BY <1>0 DEF JobFields
    <3> HIDE DEF l
    <3> QED
      BY <2>1, <3>1, <3>2
  <2>6. CASE LoadUser(t)
    BY <2>2, <2>6 DEF LoadUser
  <2>7. CASE RecordStart(t)
    <3> DEFINE value == <<"starts", job[t].by>> :> Val(t, <<"starts", job[t].by>>) + 1
    <3>1. Put(t, value, "reply")
      BY <2>7 DEF RecordStart
    <3> HIDE DEF value
    <3> QED
      BY <1>0, <3>1, PutDoes
  <2>8. CASE Reply(t)
    BY <1>0, <2>8 DEF Reply, Goto, Shape
  <2> QED
    BY <2>3, <2>4, <2>5, <2>6, <2>7, <2>8
<1> QED
  BY <1>0, <1>1, <1>2, <1>3, PassesOn DEF Enrolling, InviteSteps, SameUpdate

(* Steps that end it early.                                                *)
LEMMA AbortsIn ==
    ASSUME CInv, NEW t \in Tasks, Joins(t), job[t].kind = "start", Good(t), Pass(t, "abort")
    PROVE  Joins(t)'
<1>1. Touches(t, {})
  BY WaysTouch DEF Pass
<1>2. Keeps(t)
  BY <1>1, TouchesKeep
<1>3. job'[t] = job[t] /\ at'[t] = "abort" /\ db' = db
  BY PassDoes DEF CInv, SameTransaction
<1> QED
  BY <1>2, <1>3, PassesOn DEF Enrolling, InviteSteps, Good, Alone

LEMMA NotYet ==
    ASSUME CInv, NEW t \in Tasks, Good(t), at[t] \in {"idle", "route"},
           Receive(t) \/ Ignore(t) \/ Throttle(t) \/ Recheck(t)
    PROVE  Joins(t)'
<1>1. wrote[t] = {} /\ Shape
  BY DEF CInv, Located, NoSession
<1>2. \E l, s : Learn(t, l, s) /\ s \in {"route", "commit", "abort", "gate"}
  BY DEF Receive, Ignore, Throttle, Recheck, Pass
<1>3. wrote'[t] = {} /\ at'[t] \in {"route", "commit", "abort", "gate"}
  BY <1>1, <1>2 DEF Learn, Goto, Shape
<1> QED
  BY <1>3, NothingJoins DEF Enrolling, InviteSteps, Arriving

-----------------------------------------------------------------------------
(* The registration.                                                       *)
LEMMA ComesIn ==
    ASSUME CInv, NEW t \in Tasks, Joins(t), Good(t),
           CheckBlacklist(t) \/ CheckMaintenance(t) \/ FindUser(t)
    PROVE  Joins(t)'
<1>0. Shape /\ DOMAIN job[t] = JobFields /\ wrote[t] \subseteq DOMAIN session[t] /\ SameUpdate(t)
  BY DEF CInv, Shape, Typed, Good
<1>1. session[t] = <<>> /\ DOMAIN session[t] = {} /\ wrote[t] = {}
  <2>1. at[t] \in {"route", "maintenance", "find"} /\ job[t].kind = "start"
    BY Placed DEF CheckBlacklist, CheckMaintenance, FindUser
  <2>2. session[t] = <<>>
    BY <2>1 DEF CInv, Located, NoSession, Joins, Arriving
  <2> QED
    BY <1>0, <2>2
<1>2. CASE CheckBlacklist(t) \/ CheckMaintenance(t)
  <2>1. \E l, s : Learn(t, l, s) /\ s \in {"reply", "maintenance", "find"}
    BY <1>2 DEF CheckBlacklist, CheckMaintenance, Answer, Pass
  <2>2. session'[t] = <<>> /\ wrote'[t] = {} /\ at'[t] \in {"reply", "maintenance", "find"}
    BY <1>0, <1>1, <2>1 DEF Learn, Goto, Shape
  <2> QED
    BY <2>2, NothingJoins DEF Enrolling, InviteSteps, Arriving
<1>3. CASE FindUser(t)
  <2> DEFINE cells == OfUsers \X {job[t].by}
             l == [job[t] EXCEPT !.isNew = Of(db, UserOf(t)) = None]
  <2>1. Load(t, cells, l, "register")
    BY <1>3 DEF FindUser, UserOf
  <2>2. DOMAIN l = JobFields /\ l.by = job[t].by
    BY <1>0 DEF JobFields
  <2>6. ~ l.isNew => Of(db, UserOf(t)) # None
    BY <1>0 DEF JobFields
  <2> HIDE DEF l, cells
  <2>3. /\ db' = db /\ wrote'[t] = wrote[t] /\ at'[t] = "register" /\ job'[t] = l
        /\ \A c \in DOMAIN session'[t] \ DOMAIN session[t] :
              c \in cells /\ session'[t][c] = Of(db, c) /\ Of(db, Primary(c)) # None
    <3>1. Shape /\ DOMAIN l = JobFields
      BY <1>0, <2>2
    <3>2. db' = db /\ wrote'[t] = wrote[t] /\ at'[t] = "register" /\ job'[t] = l
      BY <2>1, <3>1 DEF Load, Goto, Shape
    <3>3. ASSUME NEW c \in DOMAIN session'[t] \ DOMAIN session[t]
          PROVE  c \in cells /\ session'[t][c] = Of(db, c) /\ Of(db, Primary(c)) # None
      BY <2>1, <3>1, <3>3, LoadDoes
    <3> QED
      BY <3>2, <3>3
  <2>4. UserOf(t)' = UserOf(t) /\ Primary(UserOf(t)) = UserOf(t)
    BY <2>2, <2>3, CellsOfATask DEF UserOf
  <2>5. Arriving(t)'
    BY <1>1, <2>2, <2>3, <2>4, <2>6 DEF Arriving, cells
  <2> QED
    BY <1>1, <2>3, <2>5, NothingJoins DEF Enrolling, InviteSteps
<1> QED
  BY <1>2, <1>3

(* What is written over a session.                                         *)
LEMMA SeesUnloaded ==
    ASSUME NEW t \in Tasks, NEW c
    PROVE  Val(t, c) = IF c \in DOMAIN session[t] THEN session[t][c] ELSE Of(db, c)
BY DEF Val, Sees, Of, @@

LEMMA NamesOnly ==
    ASSUME CInv, NEW t \in Tasks, Joins(t), Good(t), job[t].kind = "start", UpdateName(t)
    PROVE  Joins(t)'
<1>0. Shape /\ SameUpdate(t) /\ at[t] = "register" /\ ~ job[t].isNew
  BY DEF CInv, Good, UpdateName
<1>1. wrote[t] = {} /\ Of(db, UserOf(t)) # None /\ Val(t, UserOf(t)) = Of(db, UserOf(t))
  BY <1>0, SeesUnloaded DEF Joins, Arriving
<1>2. CASE Pass(t, "gate")
  <2>1. wrote'[t] = {} /\ at'[t] = "gate"
    BY <1>0, <1>1, <1>2, PassDoes DEF SameTransaction
  <2> QED
    BY <2>1, NothingJoins DEF Enrolling, InviteSteps, Arriving
<1>3. CASE Flush(t, UserOf(t) :> Val(t, UserOf(t)), "gate")
  <2> DEFINE value == UserOf(t) :> Val(t, UserOf(t))
  <2>1. DOMAIN value = {UserOf(t)} /\ value[UserOf(t)] = Of(db, UserOf(t))
    BY <1>1 DEF :>
  <2>2. Flush(t, value, "gate")
    BY <1>3
  <2> HIDE DEF value
  <2>3. /\ wrote'[t] = {UserOf(t)} /\ session'[t][UserOf(t)] = Of(db, UserOf(t))
        /\ at'[t] = "gate" /\ db' = db /\ job'[t] = job[t]
    BY <1>0, <1>1, <2>1, <2>2, FlushDoes
  <2>4. UserOf(t)' = UserOf(t) /\ ~ Fresh(t)'
    BY <1>0, <2>3 DEF UserOf, Fresh
  <2>5. Returns(t)'
    BY <1>1, <2>3, <2>4 DEF Returns, Mine, Enrolling, InviteSteps
  <2>6. UserOf(t)[1] # "setting"
    BY CellsOfATask
  <2> QED
    BY <1>0, <2>3, <2>4, <2>5, <2>6 DEF Joins, Arriving, SameUpdate
<1> QED
  BY <1>2, <1>3 DEF UpdateName, UserOf

(* What one more cell changes.                                             *)
Further(t, c, v, s) ==
    /\ db' = db /\ backend' = backend /\ job'[t] = job[t] /\ at'[t] = s
    /\ Referrer(t)' = Referrer(t) /\ UserOf(t)' = UserOf(t) /\ InvitesOf(t)' = InvitesOf(t)
    /\ RewardOf(t)' = RewardOf(t) /\ BonusOf(t)' = BonusOf(t)
    /\ \A r : InvitedBy(r)' = InvitedBy(r)
    /\ wrote'[t] = wrote[t] \cup {c} /\ DOMAIN session'[t] = DOMAIN session[t] \cup {c}
    /\ session'[t][c] = v
    /\ \A d \in DOMAIN session[t] : d # c => session'[t][d] = session[t][d]
    /\ Mine(t)' = Mine(t) \cup {d \in {c} : d[1] \in Tallied}

LEMMA FlushesCell ==
    ASSUME CInv, NEW t \in Tasks, NEW c, NEW v, NEW s, Flush(t, c :> v, s)
    PROVE  Further(t, c, v, s)
<1> DEFINE value == c :> v
<1>0. Shape /\ DOMAIN value = {c} /\ value[c] = v /\ Flush(t, value, s)
  BY DEF CInv, :>
<1> HIDE DEF value
<1>1. /\ Alone(t) /\ db' = db /\ at'[t] = s /\ job'[t] = job[t]
      /\ wrote'[t] = wrote[t] \cup {c} /\ DOMAIN session'[t] = DOMAIN session[t] \cup {c}
      /\ session'[t][c] = v
      /\ \A d \in DOMAIN session[t] \ {c} : session'[t][d] = session[t][d]
  BY <1>0, FlushDoes
<1>2. /\ Referrer(t)' = Referrer(t) /\ UserOf(t)' = UserOf(t) /\ InvitesOf(t)' = InvitesOf(t)
      /\ RewardOf(t)' = RewardOf(t) /\ BonusOf(t)' = BonusOf(t)
  BY <1>1 DEF Referrer, UserOf, InvitesOf, RewardOf, BonusOf
<1>3. \A r : InvitedBy(r)' = InvitedBy(r)
  BY <1>1 DEF InvitedBy
<1>4. Mine(t)' = Mine(t) \cup {d \in {c} : d[1] \in Tallied}
  BY <1>1 DEF Mine
<1> QED
  BY <1>1, <1>2, <1>3, <1>4 DEF Further, Alone

LEMMA JoinsFurther ==
    ASSUME CInv, NEW t \in Tasks, Joins(t), job[t].kind = "start",
           NEW c, NEW v, NEW s, Further(t, c, v, s), c[1] # "setting",
           s \notin {"maintenance", "find", "register"},
           Fresh(t)' /\ Brings(t)' /\ Progress(t)'
    PROVE  Joins(t)'
<1>1. \A d \in wrote'[t] : d[1] = "setting" => d \in wrote[t] /\ session'[t][d] = session[t][d]
  BY DEF Further, CInv, Typed
<1>2. Arriving(t)'
  BY DEF Arriving, Further
<1>3. \A d \in wrote'[t] : d[1] = "setting" => session'[t][d] # None
  BY <1>1 DEF Joins
<1> QED
  BY <1>2, <1>3 DEF Joins, Further

LEMMA AddsItself ==
    ASSUME CInv, NEW t \in Tasks, Joins(t), Good(t), job[t].kind = "start", NewUser(t)
    PROVE  Joins(t)'
<1> DEFINE r    == Referrer(t)
           c    == UserOf(t)
           v    == [by |-> r]
           s    == IF r = None THEN "registered" ELSE "referrer"
           need == IF r = None THEN {} ELSE {<<"user", r>>}
<1>0. Shape /\ SameUpdate(t) /\ at[t] = "register" /\ job[t].isNew
  BY DEF CInv, Good, NewUser
<1>1. wrote[t] = {} /\ DOMAIN session[t] \subseteq OfUsers \X {job[t].by}
  BY <1>0 DEF Joins, Arriving
<1>2. Add(t, c :> v, need, s)
  BY DEF NewUser, UserOf
<1>3. CASE SameTransaction(t) /\ at'[t] = "abort"
  BY <1>1, <1>3, NothingJoins DEF SameTransaction, Enrolling, InviteSteps, Arriving
<1>4. ASSUME Flush(t, c :> v, s), Of(db, c) = None, \A d \in need : Val(t, d) # None
      PROVE  Joins(t)'
  <2>1. Further(t, c, v, s)
    BY <1>4, FlushesCell
  <2>2. /\ r # job[t].by /\ c[1] \in Tallied /\ c[1] # "setting" /\ c # InvitesOf(t)
        /\ c # RewardOf(t) /\ c # BonusOf(t)
    BY CellsOfATask DEF Tallied
  <2>3. Mine(t)' = {c} /\ UserOf(t)' = c /\ wrote'[t] = {c} /\ session'[t][c] = v
    BY <1>1, <2>1, <2>2 DEF Further, Mine
  <2>4. Fresh(t)'
    BY <1>0, <2>1, <2>3 DEF Fresh, Further
  <2>5. Brings(t)'
    BY <1>4, <2>1, <2>2, <2>3 DEF Brings, Further
  <2>6. Progress(t)'
    <3>1. CASE r = None
      <4>1. at'[t] = "registered" /\ Referrer(t)' = None
        BY <2>1, <3>1 DEF Further
      <4> QED
        BY <2>3, <4>1 DEF Progress, Enrolling, InviteSteps
    <3>2. CASE r # None
      <4>1. at'[t] = "referrer" /\ Referrer(t)' = r /\ InvitesOf(t)' = InvitesOf(t) /\ db' = db
        BY <2>1, <3>2 DEF Further
      <4>2. InvitesOf(t) \notin DOMAIN session[t] /\ <<"user", r>> \notin DOMAIN session[t]
        BY <1>1, <2>2 DEF InvitesOf
      <4>3. InvitesOf(t) \notin DOMAIN session'[t]
        BY <2>1, <2>2, <4>2 DEF Further
      <4>4. Of(db, <<"user", r>>) # None
        BY <1>4, <3>2, <4>2, SeesUnloaded
      <4> QED
        BY <2>3, <4>1, <4>3, <4>4 DEF Progress, Enrolling, InviteSteps
    <3> QED
      BY <3>1, <3>2
  <2> QED
    BY <2>1, <2>2, <2>4, <2>5, <2>6, JoinsFurther
<1>5. Of(db, Primary(c)) = Of(db, c)
  BY CellsOfATask
<1>6. DOMAIN (c :> v) = {c}
  BY DEF :>
<1> DEFINE value == c :> v
<1>7. Add(t, value, need, s) /\ DOMAIN value = {c}
  BY <1>2, <1>6
<1>8. ASSUME Flush(t, value, s), Of(db, c) = None, \A d \in need : Val(t, d) # None
      PROVE  Joins(t)'
  BY <1>4, <1>8
<1> HIDE DEF value, need, s, v
<1> QED
  BY <1>0, <1>3, <1>5, <1>7, <1>8, AddDoes

LEMMA StillNamed ==
    ASSUME NEW t \in Tasks, job'[t] = job[t], db' = db
    PROVE  /\ Referrer(t)' = Referrer(t) /\ UserOf(t)' = UserOf(t)
           /\ InvitesOf(t)' = InvitesOf(t) /\ RewardOf(t)' = RewardOf(t)
           /\ BonusOf(t)' = BonusOf(t) /\ \A r : InvitedBy(r)' = InvitedBy(r)
<1>1. /\ Referrer(t)' = Referrer(t) /\ UserOf(t)' = UserOf(t) /\ InvitesOf(t)' = InvitesOf(t)
      /\ RewardOf(t)' = RewardOf(t) /\ BonusOf(t)' = BonusOf(t)
  BY DEF Referrer, UserOf, InvitesOf, RewardOf, BonusOf
<1>2. \A r : InvitedBy(r)' = InvitedBy(r)
  BY DEF InvitedBy
<1> QED
  BY <1>1, <1>2

LEMMA EnrollingIsFresh ==
    ASSUME CInv, NEW t \in Tasks, Joins(t), at[t] \in Enrolling
    PROVE  /\ job[t].kind = "start" /\ Fresh(t) /\ Brings(t) /\ Progress(t)
           /\ UserOf(t) \in Mine(t) /\ UserOf(t) \in wrote[t]
<1>1. job[t].kind = "start"
  BY Placed DEF Enrolling, InviteSteps
<1>2. Fresh(t)
  BY <1>1 DEF Joins, Returns
<1>3. UserOf(t)[1] = "user"
  BY CellsOfATask
<1> QED
  BY <1>1, <1>2, <1>3 DEF Joins, Fresh, Mine, Tallied

LEMMA LoadsReferrer ==
    ASSUME CInv, NEW t \in Tasks, Joins(t), Good(t), Tallies, ReferralsAddUp, LoadReferrer(t)
    PROVE  Joins(t)'
<1> DEFINE cells == OfUsers \X {Referrer(t)}
           c     == InvitesOf(t)
<1>0. /\ Shape /\ SameUpdate(t) /\ backend' = backend /\ at[t] = "referrer"
      /\ wrote[t] \subseteq DOMAIN session[t]
  BY DEF CInv, Typed, Good, Alone, LoadReferrer
<1>1. /\ job[t].kind = "start" /\ Fresh(t) /\ Brings(t) /\ Progress(t)
      /\ Mine(t) = {UserOf(t)} /\ c \notin DOMAIN session[t]
      /\ Of(db, <<"user", Referrer(t)>>) # None
  BY <1>0, EnrollingIsFresh DEF Enrolling, InviteSteps, Progress
<1>2. c \in cells /\ Primary(c) = <<"user", Referrer(t)>> /\ c[1] = "invites"
  BY CellsOfATask DEF InvitesOf, OfUsers
<1>3. Referrer(t) \in Users
  BY <1>0, Placed DEF Referrer
<1>4. Before(t, Of(db, c))
  BY <1>3 DEF Before, Tallies, TalliedFor, ReferralsAddUp, AddsUpFor, InvitesOf
<1>5. Load(t, cells, job[t], "invite")
  BY DEF LoadReferrer, Hold
<1> HIDE DEF cells
<1>6. db' = db /\ wrote'[t] = wrote[t] /\ at'[t] = "invite" /\ job'[t] = job[t]
  BY <1>0, <1>5 DEF Load, Goto, Shape
<1>7. /\ \A d \in DOMAIN session[t] : session'[t][d] = session[t][d]
      /\ c \in DOMAIN session'[t] /\ session'[t][c] = Of(db, c)
  <2>1. DOMAIN job[t] = JobFields
    BY <1>0 DEF Shape
  <2>2. /\ \A d \in DOMAIN session[t] : session'[t][d] = session[t][d]
        /\ \A d \in DOMAIN session'[t] \ DOMAIN session[t] : session'[t][d] = Of(db, d)
        /\ \A d \in cells : Of(db, Primary(d)) # None => d \in DOMAIN session'[t]
    BY <1>0, <1>5, <2>1, LoadDoes
  <2> QED
    BY <1>1, <1>2, <2>2
<1>8. /\ Referrer(t)' = Referrer(t) /\ UserOf(t)' = UserOf(t) /\ InvitesOf(t)' = c
      /\ RewardOf(t)' = RewardOf(t) /\ BonusOf(t)' = BonusOf(t)
      /\ \A r : InvitedBy(r)' = InvitedBy(r)
  BY <1>6, StillNamed
<1> HIDE DEF c
<1>9. Mine(t)' = Mine(t)
  BY <1>6 DEF Mine
<1>10. \A d \in wrote[t] : session'[t][d] = session[t][d]
  BY <1>0, <1>7
<1>11. Fresh(t)' /\ UserOf(t) \in wrote[t]
  BY <1>1, <1>6, <1>8 DEF Fresh
<1>12. Brings(t)'
  <2>1. UserOf(t) # c /\ UserOf(t) # RewardOf(t) /\ UserOf(t) # BonusOf(t)
    BY CellsOfATask DEF c
  <2>2. InvitesOf(t)' \notin Mine(t)' /\ {RewardOf(t)', BonusOf(t)'} \cap Mine(t)' = {}
    BY <1>1, <1>8, <1>9, <2>1
  <2>3. Of(db, UserOf(t))' = None /\ session'[t][UserOf(t)'] = [by |-> Referrer(t)']
    BY <1>1, <1>6, <1>8, <1>10, <1>11 DEF Brings
  <2> QED
    BY <2>2, <2>3 DEF Brings
<1>13. Progress(t)'
  <2>1. Before(t, Of(db, c))'
    BY <1>0, <1>4, <1>6, <1>8 DEF Before, c
  <2>2. Before(t, session[t][InvitesOf(t)])'
    BY <1>0, <1>4, <1>6, <1>7, <1>8 DEF Before, c
  <2> QED
    BY <1>1, <1>6, <1>7, <1>8, <1>9, <2>2 DEF Progress, Enrolling, InviteSteps
<1> QED
  BY <1>0, <1>1, <1>6, <1>10, <1>11, <1>12, <1>13 DEF Joins, Arriving, SameUpdate

(* A further cell that is none of the tallied, or a new one.               *)
LEMMA FurtherBrings ==
    ASSUME CInv, NEW t \in Tasks, NEW c, NEW v, NEW s, Further(t, c, v, s), Brings(t),
           UserOf(t) \in wrote[t], c \notin {UserOf(t), InvitesOf(t)},
           c \in {RewardOf(t), BonusOf(t)} => v = Referrer(t) /\ Of(db, c) = None
    PROVE  Brings(t)'
<1>1. \A d \in wrote[t] : d \in DOMAIN session[t]
  BY DEF CInv, Typed
<1>2. /\ Of(db, UserOf(t))' = None /\ session'[t][UserOf(t)'] = [by |-> Referrer(t)']
  BY <1>1 DEF Further, Brings
<1>3. InvitesOf(t)' \in Mine(t)' => /\ InvitesOf(t) \in Mine(t) /\ InvitesOf(t)' = InvitesOf(t)
                                    /\ session'[t][InvitesOf(t)'] = session[t][InvitesOf(t)]
  BY <1>1 DEF Further, Mine
<1>4. ASSUME InvitesOf(t)' \in Mine(t)'
      PROVE  /\ session'[t][InvitesOf(t)'] \in Nat \ {0}
             /\ Before(t, session[t][InvitesOf(t)] - 1)'
  <2>1. session[t][InvitesOf(t)] \in Nat \ {0} /\ Before(t, session[t][InvitesOf(t)] - 1)
    BY <1>3, <1>4 DEF Brings
  <2> DEFINE n == session[t][InvitesOf(t)]
  <2>2. Before(t, n - 1)
    BY <2>1
  <2>3. session[t][InvitesOf(t)]' = n
    BY <1>3, <1>4
  <2> QED
    BY <1>3, <1>4, <2>1, <2>2, <2>3 DEF Before, Further
<1>5. ASSUME NEW d \in {RewardOf(t)', BonusOf(t)'} \cap Mine(t)'
      PROVE  session'[t][d] = Referrer(t)' /\ Of(db, d)' = None
  <2>1. CASE d = c
    BY <1>5, <2>1 DEF Further
  <2>2. CASE d # c
    <3>1. d \in {RewardOf(t), BonusOf(t)} \cap Mine(t)
      BY <1>5, <2>2 DEF Further
    <3>2. session[t][d] = Referrer(t) /\ Of(db, d) = None /\ d \in wrote[t]
      BY <3>1 DEF Brings, Mine
    <3> QED
      BY <1>1, <2>2, <3>2 DEF Further
  <2> QED
    BY <2>1, <2>2
<1> QED
  BY <1>2, <1>4, <1>5 DEF Brings

LEMMA PutsCell ==
    ASSUME CInv, NEW t \in Tasks, NEW c, NEW v, NEW s, Put(t, c :> v, s), Val(t, c) # v
    PROVE  Further(t, c, v, s)
<1>1. DOMAIN (c :> v) = {c} /\ (c :> v)[c] = v
  BY CellValue
<1>2. {x \in DOMAIN (c :> v) : Val(t, x) # (c :> v)[x]} = {c}
  BY <1>1
<1>3. Restrict(c :> v, {c}) = c :> v
  BY DEF Restrict, :>
<1>4. Flush(t, c :> v, s)
  BY <1>2, <1>3 DEF Put
<1> QED
  BY <1>4, FlushesCell

LEMMA CountsInvite ==
    ASSUME CInv, NEW t \in Tasks, Joins(t), Good(t), CountInvite(t)
    PROVE  Joins(t)'
<1> DEFINE c == InvitesOf(t)
<1> PICK n : n = session[t][c]
  OBVIOUS
<1> DEFINE v == n + 1
<1>1. /\ at[t] = "invite" /\ Referrer(t) # None
  BY UpdatesAssumption, Placed DEF CountInvite, Referrer
<1>2. /\ job[t].kind = "start" /\ Fresh(t) /\ Brings(t) /\ UserOf(t) \in wrote[t]
      /\ Mine(t) = {UserOf(t)} /\ c \in DOMAIN session[t] /\ Before(t, n)
  BY <1>1, EnrollingIsFresh DEF Enrolling, InviteSteps, Progress
<1>3. Put(t, c :> v, "registered")
  BY <1>2, SeesUnloaded DEF CountInvite, InvitesOf
<1>4. Val(t, c) # v
  BY <1>2, SeesUnloaded DEF Before
<1>5. Further(t, c, v, "registered")
  BY <1>3, <1>4, PutsCell
<1>6. /\ c[1] = "invites" /\ c # UserOf(t) /\ c # RewardOf(t) /\ c # BonusOf(t)
      /\ UserOf(t) # RewardOf(t) /\ UserOf(t) # BonusOf(t)
  BY CellsOfATask
<1>7. v \in Nat \ {0} /\ v - 1 = n /\ UserOf(t) \in DOMAIN session[t]
  BY <1>2 DEF Before, CInv, Typed
<1> HIDE DEF c, v
<1>8. /\ InvitesOf(t)' = c /\ UserOf(t)' = UserOf(t) /\ RewardOf(t)' = RewardOf(t)
      /\ BonusOf(t)' = BonusOf(t) /\ Referrer(t)' = Referrer(t) /\ at'[t] = "registered"
      /\ Mine(t)' = {UserOf(t), c} /\ wrote'[t] = wrote[t] \cup {c} /\ job'[t] = job[t]
      /\ session'[t][c] = v /\ session'[t][UserOf(t)] = session[t][UserOf(t)]
      /\ db' = db
  BY <1>2, <1>5, <1>6, <1>7 DEF Further, Tallied, c
<1>9. Fresh(t)'
  BY <1>2, <1>8 DEF Fresh
<1>10. Brings(t)'
  <2>1. Before(t, n)'
    BY <1>2, <1>5 DEF Further, Before, c
  <2>2. Before(t, session[t][InvitesOf(t)] - 1)'
    BY <1>7, <1>8, <2>1 DEF Before
  <2>3. {RewardOf(t)', BonusOf(t)'} \cap Mine(t)' = {}
    BY <1>6, <1>8
  <2>4. Of(db, UserOf(t))' = None /\ session'[t][UserOf(t)'] = [by |-> Referrer(t)']
    BY <1>2, <1>8 DEF Brings
  <2>5. session'[t][InvitesOf(t)'] \in Nat \ {0}
    BY <1>7, <1>8
  <2> QED
    BY <2>2, <2>3, <2>4, <2>5 DEF Brings
<1>11. Progress(t)'
  BY <1>1, <1>8 DEF Progress, Enrolling, InviteSteps
<1> QED
  BY <1>2, <1>5, <1>6, <1>9, <1>10, <1>11, JoinsFurther

LEMMA LogsRegistration ==
    ASSUME CInv, NEW t \in Tasks, Joins(t), Good(t), LogRegistration(t)
    PROVE  Joins(t)'
<1> PICK s : s = IF Referrer(t) = None THEN "gate" ELSE "reward"
  OBVIOUS
<1> DEFINE c == <<"log", t>>
           mine == IF Referrer(t) = None THEN {UserOf(t)} ELSE {UserOf(t), InvitesOf(t)}
<1>0. \E v : at[t] = "registered" /\ Flush(t, c :> v, s)
  BY DEF LogRegistration
<1>1. PICK v : at[t] = "registered" /\ Flush(t, c :> v, s)
  BY <1>0
<1>2. /\ job[t].kind = "start" /\ Fresh(t) /\ Brings(t) /\ UserOf(t) \in wrote[t]
      /\ Mine(t) = mine
  BY <1>1, EnrollingIsFresh DEF Enrolling, InviteSteps, Progress
<1>3. Further(t, c, v, s)
  BY <1>1, FlushesCell
<1>4. c[1] = "log"
  OBVIOUS
<1> HIDE DEF c
<1>5. Mine(t)' = Mine(t) /\ job'[t] = job[t]
  BY <1>3, <1>4 DEF Further, Tallied
<1>6. Fresh(t)'
  BY <1>2, <1>3 DEF Further, Fresh
<1>7. Brings(t)'
  <2>1. c \notin {UserOf(t), InvitesOf(t), RewardOf(t), BonusOf(t)}
    BY <1>4, CellsOfATask
  <2> QED
    BY <1>2, <1>3, <2>1, FurtherBrings
<1>8. Progress(t)'
  <2>1. CASE Referrer(t) = None
    <3>1. at'[t] = "gate" /\ Referrer(t)' = None /\ Mine(t)' = {UserOf(t)'}
      BY <1>2, <1>3, <1>5, <2>1 DEF Further
    <3> QED
      BY <3>1 DEF Progress, Complete, Enrolling, InviteSteps
  <2>2. CASE Referrer(t) # None
    <3>1. at'[t] = "reward" /\ Mine(t)' = {UserOf(t)', InvitesOf(t)'}
      BY <1>2, <1>3, <1>5, <2>2 DEF Further
    <3> QED
      BY <3>1 DEF Progress, Enrolling, InviteSteps
  <2> QED
    BY <2>1, <2>2
<1>9. s \notin {"maintenance", "find", "register"}
  OBVIOUS
<1> HIDE DEF mine
<1> QED
  BY <1>2, <1>3, <1>4, <1>6, <1>7, <1>8, <1>9, JoinsFurther

LEMMA AbortsJoin ==
    ASSUME NEW t \in Tasks, Joins(t), job[t].kind = "start", backend' = backend,
           SameTransaction(t), at'[t] = "abort", job'[t] = job[t]
    PROVE  Joins(t)'
<1>1. Keeps(t) /\ db' = db
  BY DEF SameTransaction, Keeps, Mine
<1> QED
  BY <1>1, PassesOn DEF Enrolling, InviteSteps

LEMMA GoesOn ==
    ASSUME NEW t \in Tasks, Joins(t), job[t].kind = "start", Fresh(t), Brings(t),
           backend' = backend, SameTransaction(t), job'[t] = job[t],
           at'[t] \notin {"maintenance", "find", "register"}, Progress(t)'
    PROVE  Joins(t)'
<1>1. /\ Referrer(t)' = Referrer(t) /\ UserOf(t)' = UserOf(t)
      /\ InvitesOf(t)' = InvitesOf(t) /\ RewardOf(t)' = RewardOf(t)
      /\ BonusOf(t)' = BonusOf(t) /\ \A r : InvitedBy(r)' = InvitedBy(r)
  BY StillNamed DEF SameTransaction
<1>2. Mine(t)' = Mine(t) /\ db' = db /\ wrote'[t] = wrote[t] /\ session'[t] = session[t]
  BY DEF SameTransaction, Mine
<1>3. Fresh(t)' /\ Brings(t)'
  BY <1>1, <1>2 DEF Fresh, Brings, Before
<1> QED
  BY <1>2, <1>3 DEF Joins, Arriving

LEMMA Rewards ==
    ASSUME CInv, NEW t \in Tasks, Joins(t), Good(t), GatePlaced(t), Reward(t)
    PROVE  Joins(t)'
<1> DEFINE c == RewardOf(t)
           invited == {UserOf(t), InvitesOf(t)}
<1>0. Shape /\ backend' = backend /\ at[t] = "reward"
  BY DEF CInv, Good, Alone, Reward
<1>1. /\ job[t].kind = "start" /\ Fresh(t) /\ Brings(t) /\ UserOf(t) \in wrote[t]
      /\ Mine(t) = invited /\ Referrer(t) # None
  BY <1>0, EnrollingIsFresh, Placed, UpdatesAssumption
     DEF Enrolling, InviteSteps, Progress, Referrer
<1>2. CASE Pass(t, "gate") /\ ~ On(Sees(t), "referral")
  <2>1. ~ On(db, "referral")
    BY <1>2, SeesWhatIs
  <2>2. Of(db, Switch) # None
    BY <2>1, RewardsAssumption DEF On, Switch
  <2>3. /\ SameTransaction(t) /\ job'[t] = job[t] /\ at'[t] = "gate"
    BY <1>0, <1>2, PassDoes
  <2>4. /\ Referrer(t)' = Referrer(t) /\ UserOf(t)' = UserOf(t) /\ InvitesOf(t)' = InvitesOf(t)
    BY <2>3, StillNamed DEF SameTransaction
  <2>5. Complete(t)'
    <3>1. Mine(t)' = {UserOf(t)', InvitesOf(t)'}
      BY <1>1, <2>3, <2>4 DEF SameTransaction, Mine
    <3>2. Referrer(t)' # None /\ Of(db, Switch)' # None
      BY <1>1, <2>2, <2>3, <2>4 DEF SameTransaction, Switch
    <3> QED
      BY <3>1, <3>2 DEF Complete
  <2>6. Progress(t)'
    BY <2>3, <2>5 DEF Progress, Enrolling, InviteSteps
  <2> QED
    BY <1>0, <1>1, <2>3, <2>6, GoesOn
<1>3. ASSUME NEW r, r = Referrer(t), Flush(t, c :> r, "bonus"), Of(db, c) = None
      PROVE  Joins(t)'
  <2>1. Further(t, c, r, "bonus")
    BY <1>3, FlushesCell
  <2>2. c \notin {UserOf(t), InvitesOf(t), BonusOf(t)} /\ c[1] = "reward"
    BY CellsOfATask
  <2>3. Fresh(t)'
    BY <1>1, <2>1 DEF Fresh, Further
  <2>4. Brings(t)'
    BY <1>1, <1>3, <2>1, <2>2, FurtherBrings
  <2>5. /\ Mine(t)' = {UserOf(t)', InvitesOf(t)', RewardOf(t)'} /\ at'[t] = "bonus"
    BY <1>1, <2>1, <2>2 DEF Further, Tallied
  <2>6. Progress(t)'
    BY <2>5 DEF Progress, Enrolling, InviteSteps
  <2> QED
    BY <1>1, <2>1, <2>2, <2>3, <2>4, <2>6, JoinsFurther
<1>4. CASE Add(t, c :> Referrer(t), {}, "bonus")
  <2> PICK r : r = Referrer(t)
    OBVIOUS
  <2> DEFINE value == c :> r
  <2>1. Add(t, value, {}, "bonus") /\ DOMAIN value = {c}
    BY <1>4, CellValue
  <2>2. Flush(t, value, "bonus") /\ Of(db, c) = None => Joins(t)'
    BY <1>3
  <2>3. Primary(c) = c
    BY CellsOfATask
  <2> HIDE DEF value
  <2>4. \/ SameTransaction(t) /\ at'[t] = "abort" /\ job'[t] = job[t]
        \/ Flush(t, value, "bonus") /\ Of(db, c) = None
    BY <1>0, <2>1, <2>3, AddDoes
  <2> QED
    BY <1>0, <1>1, <2>2, <2>4, AbortsJoin
<1> QED
  BY <1>2, <1>4 DEF Reward, RewardOf

LEMMA GrantsBonus ==
    ASSUME CInv, NEW t \in Tasks, Joins(t), Good(t), Bonus(t)
    PROVE  Joins(t)'
<1> DEFINE mine == {UserOf(t), InvitesOf(t), RewardOf(t)}
           c    == <<"premium", Referrer(t)>>
<1>0. Shape /\ backend' = backend /\ at[t] = "bonus"
  BY DEF CInv, Good, Alone, Bonus
<1>1. /\ job[t].kind = "start" /\ Fresh(t) /\ Brings(t) /\ UserOf(t) \in wrote[t]
      /\ Mine(t) = mine /\ Referrer(t) # None
  BY <1>0, EnrollingIsFresh, Placed, UpdatesAssumption
     DEF Enrolling, InviteSteps, Progress, Referrer
<1>2. InvitesOf(t) \in DOMAIN session[t] /\ Val(t, InvitesOf(t)) = session[t][InvitesOf(t)]
  BY <1>1, SeesUnloaded DEF Mine, CInv, Typed
<1>3. \/ ~ Due(t) /\ Pass(t, "gate")
      \/ Pass(t, "abort")
      \/ \E v : Due(t) /\ Flush(t, c :> v, "granted")
  BY <1>2 DEF Bonus, Due, InvitesOf
<1>4. CASE ~ Due(t) /\ Pass(t, "gate")
  <2>1. /\ SameTransaction(t) /\ job'[t] = job[t] /\ at'[t] = "gate"
    BY <1>0, <1>4, PassDoes
  <2>2. /\ Referrer(t)' = Referrer(t) /\ UserOf(t)' = UserOf(t)
        /\ InvitesOf(t)' = InvitesOf(t) /\ RewardOf(t)' = RewardOf(t)
    BY <2>1, StillNamed DEF SameTransaction
  <2>3. Mine(t)' = {UserOf(t)', InvitesOf(t)', RewardOf(t)'} /\ Referrer(t)' # None
    BY <1>1, <2>1, <2>2 DEF SameTransaction, Mine
  <2>4. ~ Due(t)'
    BY <1>4, <2>1, <2>2 DEF SameTransaction, Due
  <2>5. Complete(t)'
    BY <2>3, <2>4 DEF Complete
  <2>6. Progress(t)'
    BY <2>1, <2>5 DEF Progress, Enrolling, InviteSteps
  <2> QED
    BY <1>0, <1>1, <2>1, <2>6, GoesOn
<1>5. CASE Pass(t, "abort")
  BY <1>0, <1>1, <1>5, PassDoes, AbortsJoin
<1>6. CASE \E v : Due(t) /\ Flush(t, c :> v, "granted")
  <2>1. PICK v : Due(t) /\ Flush(t, c :> v, "granted")
    BY <1>6
  <2>2. Further(t, c, v, "granted")
    BY <2>1, FlushesCell
  <2>3. c[1] = "premium" /\ c \notin {UserOf(t), InvitesOf(t), RewardOf(t), BonusOf(t)}
    BY CellsOfATask
  <2> HIDE DEF c
  <2>4. Fresh(t)'
    BY <1>1, <2>2 DEF Fresh, Further
  <2>5. Brings(t)'
    BY <1>1, <2>2, <2>3, FurtherBrings
  <2>6. Mine(t)' = {UserOf(t)', InvitesOf(t)', RewardOf(t)'} /\ at'[t] = "granted"
    BY <1>1, <2>2, <2>3 DEF Further, Tallied
  <2>7. Due(t)'
    BY <1>2, <2>1, <2>2, <2>3 DEF Due, Further
  <2>8. Progress(t)'
    BY <2>6, <2>7 DEF Progress, Enrolling, InviteSteps
  <2> QED
    BY <1>1, <2>2, <2>3, <2>4, <2>5, <2>8, JoinsFurther
<1> QED
  BY <1>3, <1>4, <1>5, <1>6

LEMMA NotesBonus ==
    ASSUME CInv, NEW t \in Tasks, Joins(t), Good(t), NoteBonus(t)
    PROVE  Joins(t)'
<1> DEFINE c    == BonusOf(t)
           mine == {UserOf(t), InvitesOf(t), RewardOf(t)}
<1>0. Shape /\ backend' = backend /\ at[t] = "granted"
  BY DEF CInv, Good, Alone, NoteBonus
<1>1. /\ job[t].kind = "start" /\ Fresh(t) /\ Brings(t) /\ UserOf(t) \in wrote[t]
      /\ Mine(t) = mine /\ Referrer(t) # None
      /\ backend = "sqlite" => Due(t)
  BY <1>0, EnrollingIsFresh, Placed, UpdatesAssumption
     DEF Enrolling, InviteSteps, Progress, Referrer
<1>2. InvitesOf(t) \in DOMAIN session[t]
  BY <1>1 DEF Mine, CInv, Typed
<1>3. ASSUME NEW r, r = Referrer(t), Flush(t, c :> r, "gate"), Of(db, c) = None
      PROVE  Joins(t)'
  <2>1. Further(t, c, r, "gate")
    BY <1>3, FlushesCell
  <2>2. c \notin {UserOf(t), InvitesOf(t), RewardOf(t)} /\ c[1] = "bonus"
    BY CellsOfATask
  <2>3. Fresh(t)'
    BY <1>1, <2>1 DEF Fresh, Further
  <2>4. Brings(t)'
    BY <1>1, <1>3, <2>1, <2>2, FurtherBrings
  <2>5. /\ Mine(t)' = {UserOf(t)', InvitesOf(t)'} \cup {RewardOf(t)', BonusOf(t)'}
        /\ at'[t] = "gate" /\ Referrer(t)' # None /\ backend' = backend
    BY <1>1, <2>1, <2>2 DEF Further, Tallied
  <2>6. backend = "sqlite" => Due(t)'
    BY <1>1, <1>2, <2>1, <2>2 DEF Due, Further
  <2>7. Complete(t)'
    BY <2>5, <2>6 DEF Complete
  <2>8. Progress(t)'
    BY <2>5, <2>7 DEF Progress, Enrolling, InviteSteps
  <2> QED
    BY <1>1, <2>1, <2>2, <2>3, <2>4, <2>8, JoinsFurther
<1>4. Add(t, c :> Referrer(t), {}, "gate")
  BY DEF NoteBonus, BonusOf
<1> PICK r : r = Referrer(t)
  OBVIOUS
<1> DEFINE value == c :> r
<1>5. Add(t, value, {}, "gate") /\ DOMAIN value = {c}
  BY <1>4, CellValue
<1>6. Flush(t, value, "gate") /\ Of(db, c) = None => Joins(t)'
  BY <1>3
<1>7. Primary(c) = c
  BY CellsOfATask
<1> HIDE DEF value
<1>8. \/ SameTransaction(t) /\ at'[t] = "abort" /\ job'[t] = job[t]
      \/ Flush(t, value, "gate") /\ Of(db, c) = None
  BY <1>0, <1>5, <1>7, AddDoes
<1> QED
  BY <1>0, <1>1, <1>6, <1>8, AbortsJoin

(* A step of /start that does not end it.                                  *)
LEMMA StartJoins ==
    ASSUME CInv, NEW t \in Tasks, Joins(t), Good(t), job[t].kind = "start", GatePlaced(t),
           Tallies, ReferralsAddUp, Step(t), ~ Commit(t), ~ Rollback(t)
    PROVE  Joins(t)'
<1>0. Shape /\ Gated(t) /\ SameUpdate(t)
  BY DEF CInv, Gated, Good
<1>1. \/ Receive(t) \/ Ignore(t) \/ Throttle(t) \/ LockTimeout(t) \/ Reply(t)
      \/ ListTargets(t) \/ CheckTarget(t) \/ Decide(t) \/ LoadUser(t) \/ RecordStart(t)
      \/ Recheck(t) \/ RegistrationStep(t) \/ UNCHANGED core
  BY <1>0, GateTakes
<1>2. CASE Receive(t) \/ Ignore(t) \/ Throttle(t) \/ Recheck(t)
  <2>1. at[t] \in {"idle", "route"}
    BY <1>2 DEF Receive, Ignore, Throttle, Recheck
  <2> QED
    BY <1>2, <2>1, NotYet
<1>3. CASE LockTimeout(t)
  BY <1>3, AbortsIn DEF LockTimeout
<1>4. CASE \/ ListTargets(t) \/ CheckTarget(t) \/ Decide(t) \/ LoadUser(t) \/ RecordStart(t)
           \/ Reply(t)
  BY <1>4, GatePasses
<1>5. CASE UNCHANGED core
  BY <1>5, JoinsUnchanged DEF core
<1>6. CASE RegistrationStep(t)
  <2>1. CASE CheckBlacklist(t) \/ CheckMaintenance(t) \/ FindUser(t)
    BY <2>1, ComesIn
  <2>2. CASE UpdateName(t) \/ NewUser(t)
    BY <2>2, NamesOnly, AddsItself
  <2>3. CASE LoadReferrer(t) \/ CountInvite(t) \/ LogRegistration(t)
    BY <2>3, LoadsReferrer, CountsInvite, LogsRegistration
  <2>4. CASE Reward(t) \/ Bonus(t) \/ NoteBonus(t)
    BY <2>4, Rewards, GrantsBonus, NotesBonus
  <2> QED
    BY <1>6, <2>1, <2>2, <2>3, <2>4 DEF RegistrationStep
<1> QED
  BY <1>1, <1>2, <1>3, <1>4, <1>5, <1>6

-----------------------------------------------------------------------------
(* The commit.                                                             *)
(* A user once there is there as he is, and the switch once set is set.    *)
UsersStay ==
    /\ \A c : c[1] = "user" /\ Of(db, c) # None => Of(db, c)' = Of(db, c)
    /\ Of(db, Switch) # None => Of(db, Switch)' # None

LEMMA CommitKeepsUsers ==
    ASSUME CInv, NEW t \in Tasks, Joins(t), Commit(t)
    PROVE  UsersStay
<1>1. \A c : Of(db', c) = IF c \in wrote[t] THEN session[t][c] ELSE Of(db, c)
  BY CommittedCells
<1>2. ASSUME NEW c, c[1] = "user", Of(db, c) # None, c \in wrote[t]
      PROVE  session[t][c] = Of(db, c)
  <2>1. c \in Mine(t)
    BY <1>2 DEF Mine, Tallied
  <2>2. job[t].kind = "start"
    BY <2>1 DEF Joins
  <2>3. CASE Fresh(t)
    <3>1. Complete(t) /\ Of(db, UserOf(t)) = None
      BY <2>2, <2>3 DEF Joins, Progress, Brings, Commit, Enrolling, InviteSteps
    <3>2. c = UserOf(t)
      BY <1>2, <2>1, <3>1, CellsOfATask DEF Complete
    <3> QED
      BY <1>2, <3>1, <3>2
  <2>4. CASE ~ Fresh(t)
    BY <2>1, <2>2, <2>4, <1>2 DEF Joins, Returns
  <2> QED
    BY <2>3, <2>4
<1>3. Of(db, Switch) # None => Of(db', Switch) # None
  BY <1>1 DEF Joins, Switch
<1> QED
  BY <1>1, <1>2, <1>3 DEF UsersStay, Of, Switch
LEMMA InvitedGrow ==
    ASSUME UsersStay, NEW r \in Users \cup {None}
    PROVE  /\ InvitedBy(r) \subseteq InvitedBy(r)'
           /\ Cardinality(InvitedBy(r)) \in Nat /\ Cardinality(InvitedBy(r)') \in Nat
           /\ Cardinality(InvitedBy(r)) <= Cardinality(InvitedBy(r)')
<1>1. [by |-> r] # None
  BY RewardsAssumption
<1>2. ASSUME NEW u \in InvitedBy(r) PROVE u \in InvitedBy(r)'
  <2>1. u \in Users /\ Of(db, <<"user", u>>) = [by |-> r]
    BY <1>2 DEF InvitedBy
  <2>2. Of(db, <<"user", u>>)' = Of(db, <<"user", u>>)
    BY <1>1, <2>1 DEF UsersStay
  <2> QED
    BY <2>1, <2>2 DEF InvitedBy
<1>3. InvitedBy(r)' \subseteq Users
  BY DEF InvitedBy
<1> DEFINE S == InvitedBy(r)
           T == InvitedBy(r)'
<1>4. S \subseteq T /\ T \subseteq Users
  BY <1>2, <1>3
<1> HIDE DEF S, T
<1>5. IsFiniteSet(T)
  BY <1>4, CampaignAssumption, FS_Subset
<1>6. IsFiniteSet(S) /\ Cardinality(S) <= Cardinality(T)
  BY <1>4, <1>5, FS_Subset
<1>7. Cardinality(S) \in Nat /\ Cardinality(T) \in Nat
  BY <1>5, <1>6, FS_CardinalityType
<1> QED
  BY <1>4, <1>6, <1>7 DEF S, T

LEMMA CommitLeavesLocked ==
    ASSUME Exclusive, NEW t \in Tasks, Commit(t), NEW o \in Tasks, o # t
    PROVE  /\ \A c \in wrote[o] : Of(db, c)' = Of(db, c)
           /\ backend = "sqlite" /\ wrote[o] # {} => \A c : Of(db, c)' = Of(db, c)
<1>1. \A c : Of(db', c) = IF c \in wrote[t] THEN session[t][c] ELSE Of(db, c)
  BY CommittedCells
<1>2. \A c \in wrote[o] : c \notin wrote[t]
  BY DEF Exclusive
<1>3. backend = "sqlite" /\ wrote[o] # {} => wrote[t] = {}
  BY DEF Exclusive
<1> QED
  BY <1>1, <1>2, <1>3 DEF Of

LEMMA CommitLeavesOthers ==
    ASSUME CInv, Exclusive, UsersStay, NEW t \in Tasks, Good(t), Commit(t),
           NEW o \in Tasks, o # t, Joins(o)
    PROVE  Joins(o)'
<1>1. /\ at'[o] = at[o] /\ job'[o] = job[o] /\ session'[o] = session[o]
      /\ wrote'[o] = wrote[o] /\ backend' = backend
  BY DEF Good, Alone
<1>2. /\ Referrer(o)' = Referrer(o) /\ UserOf(o)' = UserOf(o) /\ InvitesOf(o)' = InvitesOf(o)
      /\ RewardOf(o)' = RewardOf(o) /\ BonusOf(o)' = BonusOf(o) /\ Mine(o)' = Mine(o)
  BY <1>1 DEF Referrer, UserOf, InvitesOf, RewardOf, BonusOf, Mine
<1>3. /\ \A c \in wrote[o] : Of(db, c)' = Of(db, c)
      /\ backend = "sqlite" /\ wrote[o] # {} => \A c : Of(db, c)' = Of(db, c)
  BY CommitLeavesLocked
<1>4. UserOf(o)[1] = "user" /\ \A c \in Mine(o) : c \in wrote[o]
  BY CellsOfATask DEF Mine
<1>5. CASE job[o].kind # "start"
  BY <1>1, <1>2, <1>5 DEF Joins
<1>6. CASE job[o].kind = "start"
  <2>0. Fresh(o)' <=> Fresh(o)
    BY <1>1, <1>2 DEF Fresh
  <2>1. Arriving(o)'
    <3>1. Arriving(o)
      BY <1>6 DEF Joins
    <3>2. Of(db, UserOf(o)) # None => Of(db', UserOf(o)) = Of(db, UserOf(o))
      BY <1>4 DEF UsersStay
    <3> QED
      BY <1>1, <1>2, <3>1, <3>2 DEF Arriving
  <2>2. ASSUME ~ Fresh(o) PROVE Returns(o)'
    BY <1>1, <1>2, <1>3, <1>6, <2>2 DEF Joins, Returns
  <2>3. ASSUME Fresh(o) PROVE Brings(o)' /\ Progress(o)'
    <3>1. Brings(o) /\ Progress(o) /\ UserOf(o) \in wrote[o]
      BY <1>6, <2>3 DEF Joins, Fresh
    <3>2. ASSUME NEW n, Before(o, n)
          PROVE  /\ n \in Nat /\ n <= Cardinality(InvitedBy(Referrer(o)))'
                 /\ backend = "sqlite" => n = Of(db, InvitesOf(o))'
      <4>1. Referrer(o) \in Users \cup {None}
        BY <1>6, CellsOfATask
      <4>2. /\ Cardinality(InvitedBy(Referrer(o))) \in Nat
            /\ Cardinality(InvitedBy(Referrer(o))') \in Nat
            /\ Cardinality(InvitedBy(Referrer(o))) <= Cardinality(InvitedBy(Referrer(o))')
        <5> PICK r \in Users \cup {None} : r = Referrer(o)
          BY <4>1
        <5>1. /\ Cardinality(InvitedBy(r)) \in Nat /\ Cardinality(InvitedBy(r)') \in Nat
              /\ Cardinality(InvitedBy(r)) <= Cardinality(InvitedBy(r)')
          BY InvitedGrow
        <5> QED
          BY <1>2, <5>1
      <4>3. n \in Nat /\ n <= Cardinality(InvitedBy(Referrer(o)))
        BY <3>2 DEF Before
      <4>4. backend = "sqlite" => n = Of(db, InvitesOf(o))'
        BY <1>2, <1>3, <3>1, <3>2 DEF Before
      <4> QED
        BY <4>2, <4>3, <4>4
    <3>3. Brings(o)'
      BY <1>1, <1>2, <1>3, <1>4, <3>1, <3>2 DEF Brings, Before
    <3>4. Progress(o)'
      <4>1. Of(db, <<"user", Referrer(o)>>) # None => Of(db', <<"user", Referrer(o)>>) # None
        BY DEF UsersStay
      <4>2. Complete(o) => Complete(o)'
        BY <1>1, <1>2 DEF Complete, Due, UsersStay, Switch
      <4> QED
        BY <1>1, <1>2, <3>1, <3>2, <4>1, <4>2 DEF Progress, Before, Due
    <3> QED
      BY <3>3, <3>4
  <2> QED
    BY <1>1, <1>2, <1>6, <2>0, <2>1, <2>2, <2>3 DEF Joins
<1> QED
  BY <1>5, <1>6

LEMMA SwitchStays ==
    ASSUME UsersStay
    PROVE  Of(db', <<"setting", "referral">>) = None => Of(db, <<"setting", "referral">>) = None
BY DEF UsersStay, Switch

(* A referrer of whom nothing changes.                                     *)
LEMMA AddsUpAsBefore ==
    ASSUME NEW r \in Users, AddsUpFor(r), TalliedFor(r), UsersStay, backend' = backend,
           InvitedBy(r)' = InvitedBy(r), Of(db', <<"invites", r>>) = Of(db, <<"invites", r>>),
           GivenTo("reward", r)' = GivenTo("reward", r),
           GivenTo("bonus", r)' = GivenTo("bonus", r)
    PROVE  AddsUpFor(r)' /\ TalliedFor(r)'
<1>1. \A column : Given(column, r) = Cardinality(GivenTo(column, r))
  BY DEF Given, GivenTo
<1>2. \A column : Given(column, r)' = Cardinality(GivenTo(column, r)')
  BY DEF Given, GivenTo
<1>3. Given("reward", r)' = Given("reward", r) /\ Given("bonus", r)' = Given("bonus", r)
  BY <1>1, <1>2
<1> QED
  BY <1>3, SwitchStays DEF AddsUpFor, TalliedFor

(* A commit that changes nothing of what has to agree.                     *)
LEMMA AllAsBefore ==
    ASSUME ReferralsAddUp, Tallies, UsersStay, backend' = backend,
           \A c : c[1] \in Tallied => Of(db', c) = Of(db, c)
    PROVE  ReferralsAddUp' /\ Tallies'
<1> SUFFICES ASSUME NEW r \in Users PROVE AddsUpFor(r)' /\ TalliedFor(r)'
  BY DEF ReferralsAddUp, Tallies
<1>1. InvitedBy(r)' = InvitedBy(r)
  BY DEF InvitedBy, Tallied
<1>2. GivenTo("reward", r)' = GivenTo("reward", r) /\ GivenTo("bonus", r)' = GivenTo("bonus", r)
  BY DEF GivenTo, Tallied
<1>3. Of(db', <<"invites", r>>) = Of(db, <<"invites", r>>)
  BY DEF Tallied
<1> QED
  BY <1>1, <1>2, <1>3, AddsUpAsBefore DEF ReferralsAddUp, Tallies

LEMMA QuietCommit ==
    ASSUME CInv, ReferralsAddUp, Tallies, UsersStay, NEW t \in Tasks, Good(t), Joins(t),
           Commit(t), ~ (job[t].kind = "start" /\ Fresh(t))
    PROVE  ReferralsAddUp' /\ Tallies'
<1>1. \A c : Of(db', c) = IF c \in wrote[t] THEN session[t][c] ELSE Of(db, c)
  BY CommittedCells
<1>2. \A c \in Mine(t) : session[t][c] = Of(db, c)
  BY DEF Joins, Returns, Mine
<1>3. \A c : c[1] \in Tallied => Of(db', c) = Of(db, c)
  BY <1>1, <1>2 DEF Mine
<1> QED
  BY <1>3, AllAsBefore DEF Good, Alone

(* Whom a reward or a bonus has been given to, after the commit.           *)
LEMMA GivenAfter ==
    ASSUME CInv, NEW t \in Tasks, Brings(t),
           \A c : c[1] \in Tallied =>
              Of(db', c) = IF c \in Mine(t) THEN session[t][c] ELSE Of(db, c),
           Mine(t) \subseteq {UserOf(t), InvitesOf(t), RewardOf(t), BonusOf(t)},
           NEW column \in {"reward", "bonus"}, NEW r \in Users
    PROVE  /\ <<column, t>> \in Mine(t) /\ r = Referrer(t) =>
                 t \notin GivenTo(column, r) /\ GivenTo(column, r)' = GivenTo(column, r) \cup {t}
           /\ <<column, t>> \notin Mine(t) \/ r # Referrer(t) =>
                 GivenTo(column, r)' = GivenTo(column, r)
<1>1. column \in Tallied /\ \A o \in Tasks : <<column, o>> \in Mine(t) => o = t
  BY DEF UserOf, InvitesOf, RewardOf, BonusOf, Tallied
<1>2. \A o \in Tasks \ {t} : Of(db', <<column, o>>) = Of(db, <<column, o>>)
  BY <1>1
<1>3. <<column, t>> \in Mine(t) => /\ Of(db', <<column, t>>) = Referrer(t)
                                   /\ Of(db, <<column, t>>) = None
  <2>1. <<column, t>> \in {RewardOf(t), BonusOf(t)}
    BY DEF RewardOf, BonusOf
  <2> QED
    BY <1>1, <2>1 DEF Brings
<1>4. <<column, t>> \notin Mine(t) => Of(db', <<column, t>>) = Of(db, <<column, t>>)
  BY <1>1
<1>5. r # None
  BY UpdatesAssumption
<1>6. \A o : o \in GivenTo(column, r)' <=> o \in Tasks /\ Of(db', <<column, o>>) = r
  BY DEF GivenTo
<1>7. \A o : o \in GivenTo(column, r) <=> o \in Tasks /\ Of(db, <<column, o>>) = r
  BY DEF GivenTo
<1>8. ASSUME <<column, t>> \in Mine(t), r = Referrer(t)
      PROVE  t \notin GivenTo(column, r) /\ GivenTo(column, r)' = GivenTo(column, r) \cup {t}
  BY <1>2, <1>3, <1>5, <1>6, <1>7, <1>8
<1>9. ASSUME <<column, t>> \notin Mine(t) \/ r # Referrer(t)
      PROVE  GivenTo(column, r)' = GivenTo(column, r)
  BY <1>2, <1>3, <1>4, <1>5, <1>6, <1>7, <1>9
<1> QED
  BY <1>8, <1>9

(* Who has been invited by whom.                                           *)
LEMMA InvitedAfter ==
    ASSUME CInv, NEW t \in Tasks, Brings(t), UserOf(t) \in Mine(t),
           \A c : c[1] \in Tallied =>
              Of(db', c) = IF c \in Mine(t) THEN session[t][c] ELSE Of(db, c),
           Mine(t) \subseteq {UserOf(t), InvitesOf(t), RewardOf(t), BonusOf(t)}, NEW r \in Users
    PROVE  /\ r = Referrer(t) => /\ job[t].by \notin InvitedBy(r)
                                 /\ InvitedBy(r)' = InvitedBy(r) \cup {job[t].by}
           /\ r # Referrer(t) => InvitedBy(r)' = InvitedBy(r)
<1> DEFINE new == [by |-> Referrer(t)]
           row == [by |-> r]
<1>0. job[t].by \in Users
  BY CellsOfATask
<1>1. Of(db, <<"user", job[t].by>>) = None /\ Of(db', <<"user", job[t].by>>) = new
  <2>1. UserOf(t)[1] \in Tallied
    BY DEF UserOf, Tallied
  <2> QED
    BY <2>1 DEF Brings, UserOf
<1>2. \A u \in Users \ {job[t].by} : Of(db', <<"user", u>>) = Of(db, <<"user", u>>)
  <2> SUFFICES ASSUME NEW u \in Users \ {job[t].by}
               PROVE  Of(db', <<"user", u>>) = Of(db, <<"user", u>>)
    OBVIOUS
  <2>1. <<"user", u>> \notin {UserOf(t), InvitesOf(t), RewardOf(t), BonusOf(t)}
    BY DEF UserOf, InvitesOf, RewardOf, BonusOf
  <2>2. <<"user", u>>[1] \in Tallied
    BY DEF Tallied
  <2> QED
    BY <2>1, <2>2
<1>3. row # None /\ (row = new <=> r = Referrer(t))
  <2>1. row # None
    BY RewardsAssumption
  <2>2. row.by = r /\ new.by = Referrer(t)
    OBVIOUS
  <2> QED
    BY <2>1, <2>2
<1> HIDE DEF row, new
<1>4. \A u : u \in InvitedBy(r)' <=> u \in Users /\ Of(db', <<"user", u>>) = row
  BY DEF InvitedBy, row
<1>5. \A u : u \in InvitedBy(r) <=> u \in Users /\ Of(db, <<"user", u>>) = row
  BY DEF InvitedBy, row
<1>6. ASSUME r = Referrer(t)
      PROVE  /\ job[t].by \notin InvitedBy(r)
             /\ InvitedBy(r)' = InvitedBy(r) \cup {job[t].by}
  BY <1>0, <1>1, <1>2, <1>3, <1>4, <1>5, <1>6
<1>7. ASSUME r # Referrer(t) PROVE InvitedBy(r)' = InvitedBy(r)
  BY <1>0, <1>1, <1>2, <1>3, <1>4, <1>5, <1>7
<1> QED
  BY <1>6, <1>7

(* The commit of a new user, for the one who has invited him.              *)
LEMMA ReferrerAddsUp ==
    ASSUME CInv, NEW t \in Tasks, Brings(t), Complete(t), UserOf(t) \in Mine(t), UsersStay,
           \A c : c[1] \in Tallied =>
              Of(db', c) = IF c \in Mine(t) THEN session[t][c] ELSE Of(db, c),
           Mine(t) \subseteq {UserOf(t), InvitesOf(t), RewardOf(t), BonusOf(t)},
           backend' = backend,
           NEW r \in Users, r = Referrer(t), AddsUpFor(r), TalliedFor(r)
    PROVE  AddsUpFor(r)' /\ TalliedFor(r)'
<1> DEFINE by == job[t].by
           rewarded == RewardOf(t) \in Mine(t)
           granted  == BonusOf(t) \in Mine(t)
<1> PICK S : S = InvitedBy(r)
  OBVIOUS
<1> PICK R : R = GivenTo("reward", r)
  OBVIOUS
<1> PICK B : B = GivenTo("bonus", r)
  OBVIOUS
<1> PICK n : n = Cardinality(S)
  OBVIOUS
<1> PICK v : v = session[t][InvitesOf(t)]
  OBVIOUS
<1>1. InvitedBy(r)' = S \cup {by} /\ by \notin S /\ r \notin S /\ by # r
  BY InvitedAfter, CellsOfATask DEF AddsUpFor
<1>2. IsFiniteSet(S) /\ n \in Nat /\ Cardinality(S \cup {by}) = n + 1
  <2>1. S \subseteq Users
    BY DEF InvitedBy
  <2>2. IsFiniteSet(S)
    BY <2>1, CampaignAssumption, FS_Subset
  <2> QED
    BY <1>1, <2>2, FS_CardinalityType, FS_AddElement
<1>3. IsFiniteSet(R) /\ IsFiniteSet(B) /\ Cardinality(R) \in Nat /\ Cardinality(B) \in Nat
  BY FS_CardinalityType DEF TalliedFor
<1>4. /\ rewarded => t \notin R /\ GivenTo("reward", r)' = R \cup {t}
      /\ ~ rewarded => GivenTo("reward", r)' = R
      /\ granted => t \notin B /\ GivenTo("bonus", r)' = B \cup {t}
      /\ ~ granted => GivenTo("bonus", r)' = B
  <2>1. \A column \in {"reward", "bonus"} :
           /\ <<column, t>> \in Mine(t) => /\ t \notin GivenTo(column, r)
                                           /\ GivenTo(column, r)' = GivenTo(column, r) \cup {t}
           /\ <<column, t>> \notin Mine(t) => GivenTo(column, r)' = GivenTo(column, r)
    BY GivenAfter
  <2> QED
    BY <2>1 DEF RewardOf, BonusOf
<1>5. Given("reward", r) = Cardinality(R) /\ Given("bonus", r) = Cardinality(B)
  BY DEF Given, GivenTo
<1>6. /\ Given("reward", r)' = Cardinality(GivenTo("reward", r)')
      /\ Given("bonus", r)' = Cardinality(GivenTo("bonus", r)')
  BY DEF Given, GivenTo
<1>7. /\ Given("reward", r)' = Cardinality(R) + (IF rewarded THEN 1 ELSE 0)
      /\ Given("bonus", r)' = Cardinality(B) + (IF granted THEN 1 ELSE 0)
      /\ IsFiniteSet(GivenTo("reward", r)') /\ IsFiniteSet(GivenTo("bonus", r)')
  <2> HIDE DEF rewarded, granted
  <2>1. ASSUME NEW T, IsFiniteSet(T), Cardinality(T) \in Nat, NEW G,
               \/ G = T \cup {t} /\ t \notin T
               \/ G = T
        PROVE  /\ IsFiniteSet(G)
               /\ Cardinality(G) = IF G = T THEN Cardinality(T) ELSE Cardinality(T) + 1
    BY <2>1, FS_AddElement
  <2>2. /\ IsFiniteSet(GivenTo("reward", r)')
        /\ Cardinality(GivenTo("reward", r)') = Cardinality(R) + (IF rewarded THEN 1 ELSE 0)
    <3> PICK G : G = GivenTo("reward", r)'
      OBVIOUS
    <3>1. G = (IF rewarded THEN R \cup {t} ELSE R) /\ (rewarded => t \notin R)
      BY <1>4
    <3> QED
      BY <1>3, <2>1, <3>1
  <2>3. /\ IsFiniteSet(GivenTo("bonus", r)')
        /\ Cardinality(GivenTo("bonus", r)') = Cardinality(B) + (IF granted THEN 1 ELSE 0)
    <3> PICK G : G = GivenTo("bonus", r)'
      OBVIOUS
    <3>1. G = (IF granted THEN B \cup {t} ELSE B) /\ (granted => t \notin B)
      BY <1>4
    <3> QED
      BY <1>3, <2>1, <3>1
  <2> QED
    BY <1>6, <2>2, <2>3
<1>8. /\ InvitesOf(t) \in Mine(t) /\ (granted => rewarded)
      /\ ~ rewarded => Of(db, Switch) # None
      /\ backend = "sqlite" /\ granted => v % Threshold = 0
      /\ backend = "sqlite" /\ rewarded /\ ~ granted => v % Threshold # 0
  <2>1. r # None
    BY UpdatesAssumption
  <2>2. /\ RewardOf(t) \notin {UserOf(t), InvitesOf(t)}
        /\ BonusOf(t) \notin {UserOf(t), InvitesOf(t), RewardOf(t)}
    BY CellsOfATask
  <2> QED
    BY <2>1, <2>2 DEF Complete, Due
<1>9. /\ v \in Nat \ {0} /\ v - 1 <= n /\ (backend = "sqlite" => v - 1 = Of(db, InvitesOf(t)))
      /\ Of(db', <<"invites", r>>) = v
  <2>1. <<"invites", r>> = InvitesOf(t) /\ InvitesOf(t)[1] \in Tallied
    BY DEF InvitesOf, Tallied
  <2> QED
    BY <1>8, <2>1 DEF Brings, Before
<1>10. /\ Cardinality(R) <= n
       /\ Of(db, <<"setting", "referral">>) = None => Cardinality(R) = n
       /\ backend = "sqlite" => Of(db, <<"invites", r>>) = n
       /\ backend = "sqlite" => Cardinality(B) <= n \div Threshold
       /\ backend = "sqlite" /\ Of(db, <<"setting", "referral">>) = None =>
             Cardinality(B) = n \div Threshold
  BY <1>5 DEF AddsUpFor
<1>11. backend = "sqlite" => v = n + 1
  BY <1>2, <1>9, <1>10 DEF InvitesOf
<1>12. /\ n \div Threshold \in Nat
       /\ (n + 1) % Threshold = 0 => (n + 1) \div Threshold = (n \div Threshold) + 1
       /\ (n + 1) % Threshold # 0 => (n + 1) \div Threshold = n \div Threshold
  BY <1>2, ThresholdAssumption, NextQuotient
<1>13. TalliedFor(r)'
  BY <1>7, <1>9 DEF TalliedFor
<1>14. /\ Of(db', <<"setting", "referral">>) = None =>
             Of(db, <<"setting", "referral">>) = None /\ rewarded
  BY <1>8, SwitchStays DEF UsersStay, Switch
<1> HIDE DEF rewarded, granted, by
<1>15. v <= n + 1
  BY <1>2, <1>9
<1>16. /\ Given("reward", r)' <= n + 1
       /\ Of(db', <<"setting", "referral">>) = None => Given("reward", r)' = n + 1
  BY <1>2, <1>3, <1>7, <1>10, <1>14
<1>17. ASSUME backend = "sqlite"
       PROVE  /\ Given("bonus", r)' <= (n + 1) \div Threshold
              /\ Of(db', <<"setting", "referral">>) = None =>
                    Given("bonus", r)' = (n + 1) \div Threshold
  <2> PICK q \in Nat : q = n \div Threshold
    BY <1>12
  <2> PICK p : p = (n + 1) \div Threshold
    OBVIOUS
  <2>1. CASE granted
    <3>1. p = q + 1
      BY <1>8, <1>11, <1>12, <1>17, <2>1
    <3>2. Given("bonus", r)' = Cardinality(B) + 1
      BY <1>7, <2>1
    <3> QED
      BY <1>3, <1>10, <1>14, <1>17, <3>1, <3>2
  <2>2. CASE ~ granted
    <3>1. p \in {q, q + 1} /\ (rewarded => p = q)
      BY <1>8, <1>11, <1>12, <1>17, <2>2
    <3>2. Given("bonus", r)' = Cardinality(B)
      BY <1>3, <1>7, <2>2
    <3> QED
      BY <1>3, <1>10, <1>14, <1>17, <3>1, <3>2
  <2> QED
    BY <2>1, <2>2
<1>18. AddsUpFor(r)'
  <2>1. InvitedBy(r)' = S \cup {by} /\ Cardinality(S \cup {by}) = n + 1 /\ r \notin S \cup {by}
    BY <1>1, <1>2
  <2>2. Cardinality(InvitedBy(r))' = n + 1 /\ r \notin InvitedBy(r)'
    BY <2>1
  <2> QED
    BY <1>9, <1>11, <1>15, <1>16, <1>17, <2>2 DEF AddsUpFor
<1> QED
  BY <1>13, <1>18

LEMMA FreshCommit ==
    ASSUME CInv, ReferralsAddUp, Tallies, UsersStay, NEW t \in Tasks, Good(t), Joins(t),
           Commit(t), job[t].kind = "start", Fresh(t)
    PROVE  ReferralsAddUp' /\ Tallies'
<1>1. Brings(t) /\ Complete(t) /\ backend' = backend
  BY DEF Joins, Progress, Commit, Enrolling, InviteSteps, Good, Alone
<1>2. UserOf(t) \in Mine(t)
  BY CellsOfATask DEF Fresh, Mine, Tallied
<1>3. Mine(t) \subseteq {UserOf(t), InvitesOf(t), RewardOf(t), BonusOf(t)}
  BY <1>1 DEF Complete
<1>4. \A c : c[1] \in Tallied =>
         Of(db', c) = IF c \in Mine(t) THEN session[t][c] ELSE Of(db, c)
  <2>1. \A c : Of(db', c) = IF c \in wrote[t] THEN session[t][c] ELSE Of(db, c)
    BY CommittedCells
  <2> QED
    BY <2>1 DEF Mine
<1> SUFFICES ASSUME NEW r \in Users PROVE AddsUpFor(r)' /\ TalliedFor(r)'
  BY DEF ReferralsAddUp, Tallies
<1>5. AddsUpFor(r) /\ TalliedFor(r)
  BY DEF ReferralsAddUp, Tallies
<1>6. CASE r = Referrer(t)
  BY <1>1, <1>2, <1>3, <1>4, <1>5, <1>6, ReferrerAddsUp
<1>7. CASE r # Referrer(t)
  <2>1. InvitedBy(r)' = InvitedBy(r)
    BY <1>1, <1>2, <1>3, <1>4, <1>7, InvitedAfter
  <2>2. \A column \in {"reward", "bonus"} : GivenTo(column, r)' = GivenTo(column, r)
    BY <1>1, <1>3, <1>4, <1>7, GivenAfter
  <2>3. Of(db', <<"invites", r>>) = Of(db, <<"invites", r>>)
    <3>1. <<"invites", r>> \notin {UserOf(t), InvitesOf(t), RewardOf(t), BonusOf(t)}
      BY <1>7 DEF UserOf, InvitesOf, RewardOf, BonusOf
    <3>2. <<"invites", r>>[1] \in Tallied
      BY DEF Tallied
    <3> QED
      BY <1>3, <1>4, <3>1, <3>2
  <2> QED
    BY <1>1, <1>5, <2>1, <2>2, <2>3, AddsUpAsBefore
<1> QED
  BY <1>6, <1>7

-----------------------------------------------------------------------------
(* All steps.                                                              *)
LEMMA OnlyCommitsWrite ==
    ASSUME TInv, NEW t \in Tasks, Step(t), ~ Commit(t)
    PROVE  db' = db
<1>0. CInv /\ Shape
  BY DEF TInv, CInv
<1>1. CASE \/ Receive(t) \/ Ignore(t) \/ Throttle(t) \/ Log(t) \/ Reply(t)
           \/ SubscriptionsStep(t) \/ RegistrationStep(t) \/ PanelStep(t)
  BY <1>0, <1>1, OrdinarySteps DEF Ordinary
<1>2. CASE LockTimeout(t) \/ Rollback(t)
  BY <1>2 DEF LockTimeout, Rollback, Pass, Learn
<1>3. CASE ComposeStep(t)
  BY <1>3 DEF ComposeStep, Compose, ReceiveContent, ReceiveButtons, CancelSend, ConfirmSend,
              Talk, Converse, Learn, Answer, Pass
<1>4. CASE BackupsStep(t)
  BY <1>4 DEF BackupsStep, BeginCopy, EndCopy, Prune, NoFile, Pass, Learn
<1>5. CASE CampaignStep(t)
  <2>1. CASE CreateCampaign(t) \/ Announce(t) \/ ListRecipients(t)
    BY <2>1 DEF CreateCampaign, Announce, ListRecipients, Add, Flush, Pass, Learn
  <2>2. CASE StartBatch(t) \/ Finish(t)
    BY <2>2 DEF StartBatch, Finish, Pass, Learn
  <2>3. ASSUME NEW u \in DOMAIN legs[t], DeliveryStep(t, u) PROVE db' = db
    <3>1. FailureNoted(t, u) => db' = db
      BY DEF FailureNoted, Add, Flush, Pass, Learn, core
    <3>2. NoteFailure(t, u) => db' = db
      BY DEF NoteFailure, Pass, Learn, core
    <3> QED
      BY <2>3, <3>1, <3>2 DEF DeliveryStep, Deliver, WaitForFlood, FailToDeliver, core
  <2> QED
    BY <1>5, <2>1, <2>2, <2>3 DEF CampaignStep
<1> QED
  BY <1>1, <1>2, <1>3, <1>4, <1>5 DEF Step, CampaignsStep

LEMMA SumsUnchanged ==
    ASSUME ReferralsAddUp, Tallies, db' = db, backend' = backend
    PROVE  ReferralsAddUp' /\ Tallies'
<1>1. UsersStay
  BY DEF UsersStay
<1>2. \A c : c[1] \in Tallied => Of(db', c) = Of(db, c)
  OBVIOUS
<1> QED
  BY <1>1, <1>2, AllAsBefore

LEMMA ExclusiveStep ==
    ASSUME CInv, Exclusive, NEW t \in Tasks, Step(t), Good(t)
    PROVE  Exclusive'
<1>0. Shape /\ Alone(t)
  BY DEF CInv, Good
<1>1. CASE Commit(t) \/ Rollback(t)
  <2>1. wrote'[t] = {}
    BY <1>0, <1>1 DEF Commit, Rollback, Closed, Shape
  <2> QED
    BY <1>0, <2>1, StaysExclusive
<1>2. CASE CampaignStep(t)
  <2>1. \E columns : Touches(t, columns)
    BY <1>2, CampaignTouches
  <2> QED
    BY <1>0, <2>1, StaysExclusive
<1>3. CASE \/ Receive(t) \/ Ignore(t) \/ Throttle(t) \/ LockTimeout(t) \/ Log(t) \/ Reply(t)
           \/ SubscriptionsStep(t) \/ RegistrationStep(t) \/ PanelStep(t)
           \/ ComposeStep(t) \/ BackupsStep(t)
  <2>1. Touches(t, Columns(at[t]))
    BY <1>3, StepsTouch
  <2>2. \E columns : Touches(t, columns)
    BY <2>1
  <2> QED
    BY <1>0, <2>2, StaysExclusive
<1> QED
  BY <1>1, <1>2, <1>3 DEF Step, CampaignsStep

LEMMA StepReferrals ==
    ASSUME RInv, NEW t \in Tasks, Step(t), Good(t)
    PROVE  Exclusive' /\ ReferralsAddUp' /\ Tallies' /\ \A o \in Tasks : Joins(o)'
<1>0. /\ TInv /\ CInv /\ Shape /\ Exclusive /\ ReferralsAddUp /\ Tallies /\ Alone(t)
      /\ SameUpdate(t) /\ backend' = backend /\ \A o \in Tasks : Joins(o) /\ Guarded(o)
  BY DEF RInv, GInv, TInv, CInv, Good, Alone
<1>1. Exclusive'
  BY <1>0, ExclusiveStep
<1>2. CASE Commit(t)
  <2>1. UsersStay
    BY <1>0, <1>2, CommitKeepsUsers
  <2>2. ReferralsAddUp' /\ Tallies'
    BY <1>0, <1>2, <2>1, QuietCommit, FreshCommit
  <2>3. wrote'[t] = {} /\ at'[t] = "done"
    BY <1>0, <1>2 DEF Commit, Closed, Goto, Shape
  <2>4. Joins(t)'
    BY <2>3, NothingJoins DEF Enrolling, InviteSteps, Arriving
  <2>5. \A o \in Tasks : o # t => Joins(o)'
    BY <1>0, <1>2, <2>1, CommitLeavesOthers
  <2> QED
    BY <1>1, <2>2, <2>4, <2>5
<1>3. CASE ~ Commit(t)
  <2>1. db' = db
    BY <1>0, <1>3, OnlyCommitsWrite
  <2>2. ReferralsAddUp' /\ Tallies'
    BY <1>0, <2>1, SumsUnchanged
  <2>3. \A o \in Tasks : o # t => Joins(o)'
    BY <1>0, <2>1, JoinsUnchanged DEF Alone
  <2>4. Joins(t)'
    <3>1. CASE Rollback(t)
      <4>1. wrote'[t] = {} /\ at'[t] = "failed"
        BY <1>0, <3>1 DEF Rollback, Closed, Goto, Shape
      <4> QED
        BY <4>1, NothingJoins DEF Enrolling, InviteSteps, Arriving
    <3>2. CASE job[t].kind = "start" /\ ~ Rollback(t)
      <4>1. GatePlaced(t)
        BY <1>0, <3>2 DEF Guarded, Gated
      <4> QED
        BY <1>0, <1>3, <3>2, <4>1, StartJoins
    <3>3. CASE job[t].kind # "start" /\ ~ Rollback(t)
      <4>1. \/ Receive(t) \/ Ignore(t) \/ Throttle(t) \/ LockTimeout(t) \/ Log(t) \/ Reply(t)
            \/ SubscriptionsStep(t) \/ RegistrationStep(t) \/ PanelStep(t)
            \/ ComposeStep(t) \/ BackupsStep(t) \/ CampaignStep(t)
        BY <1>3, <3>3 DEF Step, CampaignsStep
      <4> QED
        BY <1>0, <3>3, <4>1, OthersJoin
    <3> QED
      BY <3>1, <3>2, <3>3
  <2> QED
    BY <1>1, <2>2, <2>3, <2>4
<1> QED
  BY <1>2, <1>3

LEMMA CrashReferrals ==
    ASSUME RInv, Kill
    PROVE  Exclusive' /\ ReferralsAddUp' /\ Tallies' /\ \A o \in Tasks : Joins(o)'
<1>1. \A o \in Tasks : wrote'[o] = {}
  BY DEF Kill
<1>2. db' = db /\ backend' = backend
  BY DEF Kill
<1>3. ASSUME NEW o \in Tasks PROVE Joins(o)'
  <2>1. at'[o] \in {"idle", "failed"} \cup Ended
    BY DEF Kill, Running
  <2> QED
    BY <1>1, <2>1, NothingJoins DEF Enrolling, InviteSteps, Arriving, Ended
<1> QED
  BY <1>1, <1>2, <1>3, SumsUnchanged DEF RInv, Exclusive

LEMMA NextKeepsReferrals == RInv /\ [Next]_vars => RInv'
<1> SUFFICES ASSUME RInv, [Next]_vars PROVE RInv'
  OBVIOUS
<1>0. GInv /\ GInv' /\ CInv
  BY NextKeepsGuard DEF RInv, GInv, TInv
<1>1. ASSUME NEW t \in Tasks, Turn(t) PROVE RInv'
  <2>1. Step(t) /\ Good(t)
    BY <1>0, <1>1, StepGood DEF Turn, GInv, TInv, LegsOK
  <2> QED
    BY <1>0, <2>1, StepReferrals DEF RInv
<1>2. CASE UNCHANGED core
  <2>1. \A o \in Tasks : Joins(o)'
    BY <1>2, JoinsUnchanged DEF RInv, core
  <2>2. ReferralsAddUp' /\ Tallies'
    BY <1>2, SumsUnchanged DEF RInv, core
  <2>3. Exclusive'
    BY <1>2 DEF RInv, Exclusive, core
  <2> QED
    BY <1>0, <2>1, <2>2, <2>3 DEF RInv
<1>3. CASE Crash
  BY <1>0, <1>3, CrashReferrals DEF RInv, Crash
<1>4. Join \/ UNCHANGED vars => UNCHANGED core
  BY DEF Join, Move, vars
<1> QED
  BY <1>1, <1>2, <1>3, <1>4 DEF Next, AllOver

LEMMA InitReferrals == Init => RInv
<1> SUFFICES ASSUME Init PROVE RInv
  OBVIOUS
<1>1. GInv
  BY InitGuard
<1>2. \A t \in Tasks : wrote[t] = {} /\ at[t] \in {"idle", "unused"}
  BY DEF Init, CoreInit
<1>3. Exclusive
  BY <1>2 DEF Exclusive
<1>4. ASSUME NEW t \in Tasks PROVE Joins(t)
  BY <1>2 DEF Joins, Mine, Fresh, Returns, Arriving, Enrolling, InviteSteps
<1>5. PICK w \in Workloads : CoreInit(w)
  BY DEF Init
<1>6. ASSUME NEW c, c[1] \in {"invites", "reward", "bonus"} PROVE Of(db, c) = Blank[c[1]]
  <2>1. c \notin DOMAIN w.rows
    BY <1>6, WorkloadAssumption DEF OfATask
  <2>2. DOMAIN db \subseteq DOMAIN w.rows
    BY <1>5 DEF CoreInit, Written, Restrict
  <2> QED
    BY <2>1, <2>2 DEF Of
<1>7. ASSUME NEW u \in Users PROVE Of(db, <<"user", u>>) \in {None, [by |-> None]}
  <2>1. db = Written(w.rows)
    BY <1>5 DEF CoreInit
  <2>2. CASE <<"user", u>> \in DOMAIN db
    <3>1. <<"user", u>> \in DOMAIN w.rows /\ db[<<"user", u>>] = w.rows[<<"user", u>>]
      BY <2>1, <2>2 DEF Written, Restrict
    <3>2. w.rows[<<"user", u>>] = [by |-> None]
      BY <3>1, WorkloadAssumption
    <3> QED
      BY <2>2, <3>1, <3>2 DEF Of
  <2>3. CASE <<"user", u>> \notin DOMAIN db
    BY <2>3 DEF Of, Blank
  <2> QED
    BY <2>2, <2>3
<1>8. ASSUME NEW r \in Users PROVE AddsUpFor(r) /\ TalliedFor(r)
  <2>1. r # None /\ [by |-> r] # None /\ [by |-> r] # [by |-> None]
    <3>1. r # None /\ [by |-> r] # None
      BY UpdatesAssumption, RewardsAssumption
    <3>2. [by |-> r].by = r /\ [by |-> None].by = None
      OBVIOUS
    <3> QED
      BY <3>1, <3>2
  <2>2. InvitedBy(r) = {}
    BY <1>7, <2>1 DEF InvitedBy
  <2>3. Of(db, <<"invites", r>>) = 0
    BY <1>6 DEF Blank
  <2>4. \A column \in {"reward", "bonus"} : {t \in Tasks : Of(db, <<column, t>>) = r} = {}
    BY <1>6, <2>1 DEF Blank
  <2>5. Given("reward", r) = 0 /\ Given("bonus", r) = 0 /\ Cardinality(InvitedBy(r)) = 0
    BY <2>2, <2>4, FS_EmptySet DEF Given
  <2>6. 0 \div Threshold = 0
    BY ThresholdAssumption
  <2> QED
    <3>1. AddsUpFor(r)
      BY <2>2, <2>3, <2>5, <2>6 DEF AddsUpFor
    <3>2. TalliedFor(r)
      <4>1. GivenTo("reward", r) = {} /\ GivenTo("bonus", r) = {}
        BY <2>4 DEF GivenTo
      <4>2. IsFiniteSet({})
        BY FS_EmptySet
      <4>3. IsFiniteSet(GivenTo("reward", r)) /\ IsFiniteSet(GivenTo("bonus", r))
        BY <4>1, <4>2
      <4> QED
        BY <2>3, <4>3 DEF TalliedFor
    <3> QED
      BY <3>1, <3>2
<1> QED
  BY <1>1, <1>3, <1>4, <1>8 DEF RInv, ReferralsAddUp, Tallies

(* Invitations, rewards and bonuses agree with who was invited by whom,    *)
(* however the registrations of several users interleave, fail or are      *)
(* repeated after a restart (user_service.py:24-59,                        *)
(* referral_reward_service.py:29-58).                                      *)
THEOREM ReferralsHold == Spec => []ReferralsAddUp
<1>1. RInv => ReferralsAddUp
  BY DEF RInv
<1> QED
  BY <1>1, InitReferrals, NextKeepsReferrals, PTL DEF Spec
=============================================================================
