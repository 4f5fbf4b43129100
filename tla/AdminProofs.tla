----------------------------- MODULE AdminProofs ------------------------------
(***************************************************************************)
(* What the administrators' long jobs promise, of Bot.                     *)
(*                                                                         *)
(* Backups: what a finished copy holds, BackupsHoldSettled.  Where they    *)
(* are made, the file and what is committed differ only in what has been   *)
(* written since the bot was last idle, and so does what a copy read       *)
(* first, as long as it is being made: while somebody copies, nothing is   *)
(* taken as settled anew.                                                  *)
(*                                                                         *)
(* Campaigns: nobody gets a message more often than it was composed,       *)
(* SentOnce.  What is composed is a copy for every user.  It is held by    *)
(* the conversation, then owed by the one campaign that took it, then      *)
(* sent; no step makes more of it.  And what a campaign reports adds up to *)
(* its recipients, CampaignsAccountForAll.                                 *)
(***************************************************************************)
EXTENDS BotProofs, FiniteSetTheorems

-----------------------------------------------------------------------------
(* Backups.                                                                *)
CopyFields == {"whole", "first", "last", "committed", "unsure"}

FileFollows == Followed => Differ(main, db) \subseteq recent

CopyFollows(t) ==
    Copying(t) =>
        /\ Followed
        /\ job[t].value \in DOMAIN copies =>
              Differ(copies[job[t].value].first, db) \subseteq recent

CopiesAre == \A n \in DOMAIN copies : DOMAIN copies[n] = CopyFields

BInv ==
    /\ TInv /\ FileFollows /\ CopiesAre /\ BackupsHoldSettled
    /\ \A t \in Tasks : CopyFollows(t)

-----------------------------------------------------------------------------
LEMMA DifferFromItself == ASSUME NEW a PROVE Differ(a, a) = {}
BY DEF Differ

LEMMA DifferTriangle ==
    ASSUME NEW a, NEW b, NEW c
    PROVE  Differ(a, c) \subseteq Differ(a, b) \cup Differ(b, c)
BY DEF Differ, Of

-----------------------------------------------------------------------------
(* What updates there are never changes, nor whether the file is followed. *)
LEMMA StillFollowed ==
    ASSUME backend' = backend, \A t \in Tasks : job'[t].kind = job[t].kind
    PROVE  Followed' = Followed
BY DEF Followed

LEMMA CheckpointFollows ==
    ASSUME BInv, Checkpoint, Followed, Followed'
    PROVE  /\ FileFollows'
           /\ (\E t \in Tasks : Copying(t)') => recent' = recent \cup Changed
<1>1. Differ(main, db) \subseteq recent
  BY DEF BInv, FileFollows
<1>2. CASE LastIsClosed
  <2>1. main' = db'
    BY <1>2 DEF Checkpoint
  <2>2. Differ(main', db') = {}
    BY <2>1, DifferFromItself
  <2> QED
    BY <2>2 DEF Checkpoint, Unsettled, FileFollows
<1>3. CASE ~ LastIsClosed
  <2>1. recent' = recent \cup Changed /\ main' \in {main, db'}
    BY <1>3 DEF Checkpoint, Unsettled
  <2>2. CASE main' = db'
    <3>1. Differ(main', db') = {}
      BY <2>2, DifferFromItself
    <3> QED
      BY <2>1, <3>1 DEF FileFollows
  <2>3. CASE main' = main
    <3>1. Differ(main, db') \subseteq Differ(main, db) \cup Differ(db, db')
      BY DifferTriangle
    <3> QED
      BY <1>1, <2>1, <2>3, <3>1 DEF FileFollows, Changed
  <2> QED
    BY <2>1, <2>2, <2>3
<1> QED
  BY <1>2, <1>3

LEMMA FollowedAfter ==
    ASSUME BInv, NEW t \in Tasks, Good(t)
    PROVE  Followed' = Followed
<1>1. \A o \in Tasks : job'[o].kind = job[o].kind
  BY DEF Good, Alone, SameUpdate
<1>2. backend' = backend
  BY DEF Good, Alone
<1> QED
  BY <1>1, <1>2, StillFollowed

(* What a copy read first is what it was, or the file as it is now.        *)
FirstsKept ==
    \A n \in DOMAIN copies' :
        \/ n \in DOMAIN copies /\ copies'[n].first = copies[n].first
        \/ copies'[n].first = main

LEMMA CopiesFollow ==
    ASSUME BInv, NEW t \in Tasks, Good(t), Checkpoint, FirstsKept,
           at'[t] = "copying" =>
              \/ at[t] = "copying" /\ job'[t] = job[t]
              \/ Followed /\ copies'[job'[t].value].first = main
    PROVE  FileFollows' /\ \A o \in Tasks : CopyFollows(o)'
<1>1. Followed' = Followed
  BY FollowedAfter
<1>2. FileFollows'
  <2>1. CASE Followed
    BY <1>1, <2>1, CheckpointFollows
  <2>2. CASE ~ Followed
    BY <1>1, <2>2 DEF FileFollows
  <2> QED
    BY <2>1, <2>2
<1>3. ASSUME NEW o \in Tasks, Copying(o)', Followed, job'[o].value \in DOMAIN copies',
             NEW rows, Differ(rows, db) \subseteq recent
      PROVE  Differ(rows, db') \subseteq recent'
  <2>1. recent' = recent \cup Changed
    BY <1>1, <1>3, CheckpointFollows
  <2>2. Differ(rows, db') \subseteq Differ(rows, db) \cup Differ(db, db')
    BY DifferTriangle
  <2> QED
    BY <1>3, <2>1, <2>2 DEF Changed
<1>4. ASSUME NEW o \in Tasks, Copying(o)'
      PROVE  /\ Followed
             /\ \/ at[o] = "copying" /\ job'[o] = job[o]
                \/ copies'[job'[o].value].first = main
  <2>1. CASE o = t
    BY <1>4, <2>1 DEF Copying, BInv, CopyFollows
  <2>2. CASE o # t
    <3>1. at[o] = "copying" /\ job'[o] = job[o]
      BY <1>4, <2>2 DEF Copying, Good, Alone
    <3> QED
      BY <3>1 DEF Copying, BInv, CopyFollows
  <2> QED
    BY <2>1, <2>2
<1>5. ASSUME NEW o \in Tasks, Copying(o)', job'[o].value \in DOMAIN copies'
      PROVE  Differ(copies'[job'[o].value].first, db') \subseteq recent'
  <2> DEFINE first == copies'[job'[o].value].first
  <2>1. Differ(first, db) \subseteq recent
    <3>1. CASE first = main
      BY <1>4, <1>5, <3>1 DEF BInv, FileFollows
    <3>2. CASE first # main
      <4>1. at[o] = "copying" /\ job'[o] = job[o]
        BY <1>4, <1>5, <3>2
      <4>2. job[o].value \in DOMAIN copies /\ first = copies[job[o].value].first
        BY <1>5, <3>2, <4>1 DEF FirstsKept
      <4> QED
        BY <4>1, <4>2 DEF BInv, CopyFollows, Copying
    <3> QED
      BY <3>1, <3>2
  <2> HIDE DEF first
  <2>2. Differ(first, db') \subseteq recent'
    BY <1>3, <1>4, <1>5, <2>1
  <2> QED
    BY <2>2 DEF first
<1>6. ASSUME NEW o \in Tasks PROVE CopyFollows(o)'
  BY <1>1, <1>4, <1>5 DEF CopyFollows
<1> QED
  BY <1>2, <1>6

-----------------------------------------------------------------------------
LEMMA OnlyBackupsCopy ==
    ASSUME TInv, NEW t \in Tasks, Step(t), ~ BackupsStep(t)
    PROVE  /\ copies' = copies
           /\ at'[t] = "copying" => at[t] = "copying" /\ job'[t] = job[t]
<1>0. Shape /\ CInv
  BY DEF TInv, CInv
<1>1. copies' = copies
  BY DEF Step
<1>2. CASE \/ Receive(t) \/ Ignore(t) \/ Throttle(t) \/ Log(t) \/ Reply(t)
           \/ SubscriptionsStep(t) \/ RegistrationStep(t) \/ PanelStep(t)
  <2>1. Ordinary(t)
    BY <1>0, <1>2, OrdinarySteps
  <2> QED
    BY <1>1, <2>1 DEF Ordinary, BackupSteps
<1>3. CASE LockTimeout(t) \/ Commit(t) \/ Rollback(t)
  <2>1. at'[t] \in {"abort", "done", "failed"}
    BY <1>0, <1>3, WaysMove DEF LockTimeout, Commit, Rollback, Goto, Shape, Moved
  <2> QED
    BY <1>1, <2>1
<1>4. CASE ComposeStep(t)
  <2>1. CASE ConfirmSend(t)
    BY <1>0, <1>1, <2>1 DEF ConfirmSend, Goto, Shape
  <2>2. CASE Compose(t) \/ ReceiveContent(t) \/ ReceiveButtons(t) \/ CancelSend(t)
    <3>1. \E next : Converse(t, next, "reply")
      BY <2>2 DEF Compose, ReceiveContent, ReceiveButtons, CancelSend
    <3> QED
      BY <1>0, <1>1, <3>1, WaysMove
  <2> QED
    BY <1>4, <2>1, <2>2 DEF ComposeStep
<1>5. CASE CampaignStep(t)
  <2>1. ASSUME NEW u \in DOMAIN legs[t], DeliveryStep(t, u)
        PROVE  at'[t] = "copying" => at[t] = "copying" /\ job'[t] = job[t]
    BY <2>1, DeliveryMoves
  <2>2. CASE CreateCampaign(t)
    <3>1. \E values : Add(t, values, {}, "announce")
      BY <2>2 DEF CreateCampaign
    <3> QED
      BY <1>0, <1>1, <3>1, WaysMove DEF Moved
  <2>3. CASE Announce(t) \/ Finish(t)
    BY <1>0, <1>1, <2>3, WaysMove DEF Announce, Finish, Moved
  <2>4. CASE ListRecipients(t) \/ StartBatch(t)
    <3>1. at'[t] = "batch"
      BY <1>0, <2>4 DEF ListRecipients, StartBatch, Learn, Goto, Shape
    <3> QED
      BY <1>1, <3>1
  <2> QED
    BY <1>1, <1>5, <2>1, <2>2, <2>3, <2>4 DEF CampaignStep
<1> QED
  BY <1>2, <1>3, <1>4, <1>5 DEF Step, CampaignsStep

(* Copies there are stay what they are, except the one that is finished.   *)
Settled(copy) ==
    copy.whole => /\ Differ(copy.first, copy.committed) \subseteq copy.unsure
                  /\ Differ(copy.last, copy.committed) \subseteq copy.unsure

LEMMA BackupSteady ==
    ASSUME BInv, NEW t \in Tasks, BackupsStep(t)
    PROVE  /\ FirstsKept
           /\ \A n \in DOMAIN copies' : DOMAIN copies'[n] = CopyFields /\ Settled(copies'[n])
           /\ at'[t] = "copying" => Followed /\ copies'[job'[t].value].first = main
<1>0. Shape /\ Numbered
  BY DEF BInv, TInv, CInv
<1>1. \A n \in DOMAIN copies : DOMAIN copies[n] = CopyFields /\ Settled(copies[n])
  BY DEF BInv, CopiesAre, BackupsHoldSettled, Settled
<1>2. CASE BeginCopy(t)
  <2> DEFINE name == Max(DOMAIN copies \cup {0}) + 1
             copy == [whole |-> FALSE, first |-> main, last |-> main,
                      committed |-> db, unsure |-> {}]
             l == [job[t] EXCEPT !.value = name]
  <2>1. copies' = (name :> copy) @@ copies /\ Learn(t, l, "copying")
    BY <1>2 DEF BeginCopy
  <2>2. Followed
    BY <1>2 DEF BeginCopy, Followed
  <2>3. DOMAIN copy = CopyFields /\ Settled(copy) /\ copy.first = main
    BY DEF CopyFields, Settled
  <2> HIDE DEF name, copy
  <2>4. /\ DOMAIN copies' = {name} \cup DOMAIN copies
        /\ copies'[name] = copy
        /\ \A n \in DOMAIN copies \ {name} : copies'[n] = copies[n]
    BY <2>1 DEF @@, :>
  <2>5. l.value = name
    BY <1>0 DEF Shape, JobFields
  <2> HIDE DEF l
  <2>6. job'[t] = l
    BY <1>0, <2>1 DEF Learn, Shape
  <2>7. FirstsKept
    BY <2>3, <2>4 DEF FirstsKept
  <2>8. \A n \in DOMAIN copies' : DOMAIN copies'[n] = CopyFields /\ Settled(copies'[n])
    BY <1>1, <2>3, <2>4
  <2> QED
    BY <2>2, <2>3, <2>4, <2>5, <2>6, <2>7, <2>8
<1>3. CASE EndCopy(t)
  <2>1. at'[t] \in {"prune", "reply"}
    BY <1>0, <1>3, WaysMove DEF EndCopy, Moved
  <2>2. CASE job[t].value \notin DOMAIN copies
    <3>1. copies' = copies
      BY <1>3, <2>2 DEF EndCopy
    <3> QED
      BY <1>1, <2>1, <3>1 DEF FirstsKept
  <2>3. CASE job[t].value \in DOMAIN copies
    <3> DEFINE name == job[t].value
               old == copies[name]
               copy == [old EXCEPT !.whole = TRUE, !.last = main, !.committed = db,
                                   !.unsure = recent]
    <3>1. copies' = [copies EXCEPT ![name] = copy]
      BY <1>3, <2>3 DEF EndCopy
    <3>2. DOMAIN old = CopyFields
      BY <1>1, <2>3
    <3>3. Followed /\ Differ(old.first, db) \subseteq recent
      BY <1>3, <2>3 DEF EndCopy, BInv, CopyFollows
    <3>4. Differ(main, db) \subseteq recent
      BY <3>3 DEF BInv, FileFollows
    <3>5. /\ DOMAIN copy = CopyFields /\ copy.first = old.first /\ copy.last = main
          /\ copy.committed = db /\ copy.unsure = recent
      BY <3>2 DEF CopyFields
    <3> HIDE DEF copy
    <3>6. Settled(copy)
      BY <3>3, <3>4, <3>5 DEF Settled
    <3>7. /\ DOMAIN copies' = DOMAIN copies
          /\ copies'[name] = copy
          /\ \A n \in DOMAIN copies \ {name} : copies'[n] = copies[n]
      BY <2>3, <3>1
    <3> QED
      BY <1>1, <2>1, <3>5, <3>6, <3>7 DEF FirstsKept
  <2> QED
    BY <2>2, <2>3
<1>4. CASE Prune(t)
  <2>1. at'[t] = "done"
    BY <1>0, <1>4, WaysMove DEF Prune, Moved
  <2>2. /\ DOMAIN copies' \subseteq DOMAIN copies
        /\ \A n \in DOMAIN copies' : copies'[n] = copies[n]
    BY <1>4 DEF Prune, Newest, Restrict
  <2> QED
    BY <1>1, <2>1, <2>2 DEF FirstsKept
<1>5. CASE NoFile(t)
  <2>1. at'[t] \in {"done", "reply"} /\ copies' = copies
    BY <1>0, <1>5, WaysMove DEF NoFile, Moved
  <2> QED
    BY <1>1, <2>1 DEF FirstsKept
<1> QED
  BY <1>2, <1>3, <1>4, <1>5 DEF BackupsStep

LEMMA NextKeepsBackups == BInv /\ [Next]_vars => BInv'
<1> SUFFICES ASSUME BInv, [Next]_vars PROVE BInv'
  OBVIOUS
<1>0. TInv /\ TInv'
  BY NextKeepsTypes DEF BInv
<1>1. ASSUME NEW t \in Tasks, Turn(t) PROVE BInv'
  <2>0. Step(t) /\ Checkpoint
    BY <1>1 DEF Turn, Step
  <2>1. Good(t)
    BY <1>0, <2>0, StepGood DEF TInv, LegsOK
  <2>2. CASE BackupsStep(t)
    <3>1. /\ FirstsKept
          /\ \A n \in DOMAIN copies' : DOMAIN copies'[n] = CopyFields /\ Settled(copies'[n])
          /\ at'[t] = "copying" => Followed /\ copies'[job'[t].value].first = main
      BY <2>2, BackupSteady
    <3>2. FileFollows' /\ \A o \in Tasks : CopyFollows(o)'
      BY <2>0, <2>1, <3>1, CopiesFollow
    <3>3. CopiesAre' /\ BackupsHoldSettled'
      BY <3>1 DEF CopiesAre, BackupsHoldSettled, Settled
    <3> QED
      BY <1>0, <3>2, <3>3 DEF BInv
  <2>3. CASE ~ BackupsStep(t)
    <3>1. /\ copies' = copies
          /\ at'[t] = "copying" => at[t] = "copying" /\ job'[t] = job[t]
      BY <1>0, <2>0, <2>3, OnlyBackupsCopy
    <3>2. FirstsKept
      BY <3>1 DEF FirstsKept
    <3>3. FileFollows' /\ \A o \in Tasks : CopyFollows(o)'
      BY <2>0, <2>1, <3>1, <3>2, CopiesFollow
    <3>4. CopiesAre' /\ BackupsHoldSettled'
      BY <3>1 DEF BInv, CopiesAre, BackupsHoldSettled
    <3> QED
      BY <1>0, <3>3, <3>4 DEF BInv
  <2> QED
    BY <2>2, <2>3
<1>2. CASE Crash
  <2>1. UNCHANGED <<backend, db, main, recent, copies>>
    BY <1>2 DEF Crash, Kill, storage
  <2>2. ASSUME NEW t \in Tasks PROVE job'[t].kind = job[t].kind /\ at'[t] # "copying"
    BY <1>2 DEF Crash, Kill, Asked, Running, Ended
  <2>3. Followed' = Followed
    BY <2>1, <2>2, StillFollowed
  <2> QED
    BY <1>0, <2>1, <2>2, <2>3
       DEF BInv, FileFollows, CopiesAre, BackupsHoldSettled, CopyFollows, Copying
<1>3. CASE Join \/ UNCHANGED vars
  <2>1. UNCHANGED <<core, storage, copies>>
    BY <1>3 DEF Join, Move, vars
  <2> QED
    BY <1>0, <2>1 DEF BInv, FileFollows, CopiesAre, BackupsHoldSettled, CopyFollows, Copying,
                      Followed, core, storage
<1> QED
  BY <1>1, <1>2, <1>3 DEF Next, AllOver

LEMMA InitBackups == Init => BInv
<1> SUFFICES ASSUME Init PROVE BInv
  OBVIOUS
<1>1. TInv
  BY InitTypes
<1>2. DOMAIN copies = {} /\ (Followed => main = db)
  BY DEF Init, BackupsInit
<1>3. FileFollows
  BY <1>2, DifferFromItself DEF FileFollows
<1>4. \A t \in Tasks : at[t] \in {"idle", "unused"}
  BY DEF Init, CoreInit
<1> QED
  BY <1>1, <1>2, <1>3, <1>4 DEF BInv, CopiesAre, BackupsHoldSettled, CopyFollows, Copying

(* A backup copies the database file while transactions go on and the log  *)
(* is written back at any commit (backup_service.py:40-53).  What it read  *)
(* first and what it read last are what was committed when it was finished *)
(* in every cell that had been left alone since the last time every        *)
(* connection was closed and nobody was copying.                           *)
THEOREM BackupsHold == Spec => []BackupsHoldSettled
<1>1. BInv => BackupsHoldSettled
  BY DEF BInv
<1> QED
  BY <1>1, InitBackups, NextKeepsBackups, PTL DEF Spec

-----------------------------------------------------------------------------
(* Campaigns.                                                              *)
One(condition) == IF condition THEN 1 ELSE 0

(* A campaign that has still to send message x to user u.                  *)
Owes(t, x, u) ==
    /\ job[t].value = x
    /\ \/ at[t] \in {"create", "announce", "recipients"}
       \/ at[t] = "batch" /\ u \in job[t].todo
       \/ LegIs(t, u, "sending")

Owing(x, u) == {t \in Tasks : Owes(t, x, u)}

Held(x) == One(x # None /\ fsm.content = x)

(* Deliveries are under way where a campaign is or has failed, and not to  *)
(* those it has not come to yet.                                           *)
LegsPlaced ==
    \A t \in Tasks :
        /\ DOMAIN legs[t] # {} => at[t] \in {"batch", "abort", "failed"}
        /\ at[t] = "batch" => job[t].todo \cap DOMAIN legs[t] = {}

BudgetKept ==
    \A x \in Contents, u \in Users :
        /\ IsFiniteSet(Owing(x, u))
        /\ Cardinality(Owing(x, u)) + Held(x) + reached[<<x, u>>] <= composed[x]

SInv == TInv /\ LegsPlaced /\ BudgetKept

-----------------------------------------------------------------------------
LEMMA Tally ==
    ASSUME NEW S, IsFiniteSet(S), NEW T, NEW t, S \ {t} = T \ {t}
    PROVE  /\ IsFiniteSet(T)
           /\ Cardinality(S \ {t}) \in Nat
           /\ Cardinality(S) = Cardinality(S \ {t}) + One(t \in S)
           /\ Cardinality(T) = Cardinality(S \ {t}) + One(t \in T)
<1> DEFINE R == S \ {t}
<1>1. IsFiniteSet(R) /\ Cardinality(R) \in Nat /\ t \notin R
  BY FS_Subset, FS_CardinalityType
<1>2. IsFiniteSet(R \cup {t}) /\ Cardinality(R \cup {t}) = Cardinality(R) + 1
  BY <1>1, FS_AddElement
<1>3. (t \in S => S = R \cup {t}) /\ (t \notin S => S = R)
  OBVIOUS
<1>4. (t \in T => T = R \cup {t}) /\ (t \notin T => T = R)
  OBVIOUS
<1> HIDE DEF R
<1>5. Cardinality(S) = Cardinality(R) + One(t \in S)
  BY <1>1, <1>2, <1>3 DEF One
<1>6. IsFiniteSet(T) /\ Cardinality(T) = Cardinality(R) + One(t \in T)
  <2>1. CASE t \in T
    BY <1>2, <1>4, <2>1 DEF One
  <2>2. CASE t \notin T
    BY <1>1, <1>4, <2>2 DEF One
  <2> QED
    BY <2>1, <2>2
<1> QED
  BY <1>1, <1>5, <1>6 DEF R

(* What a step of one task has to see to.                                  *)
Kept(t, x, u) ==
    One(Owes(t, x, u)') + Held(x)' + reached'[<<x, u>>] + composed[x]
        <= One(Owes(t, x, u)) + Held(x) + reached[<<x, u>>] + composed'[x]

LEMMA BudgetStep ==
    ASSUME SInv, TInv', NEW t \in Tasks, Alone(t), LegsAlone(t),
           NEW x \in Contents, NEW u \in Users, Kept(t, x, u)
    PROVE  /\ IsFiniteSet(Owing(x, u)')
           /\ Cardinality(Owing(x, u)') + Held(x)' + reached'[<<x, u>>] <= composed'[x]
<1>1. ASSUME NEW o \in Tasks, o # t PROVE Owes(o, x, u)' <=> Owes(o, x, u)
  <2>1. at'[o] = at[o] /\ job'[o] = job[o] /\ legs'[o] = legs[o]
    BY <1>1 DEF Alone, LegsAlone
  <2> QED
    BY <2>1 DEF Owes, LegIs
<1> DEFINE S == Owing(x, u)
           T == Owing(x, u)'
<1>2. S \ {t} = T \ {t} /\ (t \in S <=> Owes(t, x, u)) /\ (t \in T <=> Owes(t, x, u)')
  BY <1>1 DEF Owing
<1>3. IsFiniteSet(S) /\ Cardinality(S) + Held(x) + reached[<<x, u>>] <= composed[x]
  BY DEF SInv, BudgetKept
<1>4. /\ reached[<<x, u>>] \in Nat /\ reached'[<<x, u>>] \in Nat
      /\ composed[x] \in Nat /\ composed'[x] \in Nat
  BY DEF SInv, TInv
<1>5. Held(x) \in Nat /\ Held(x)' \in Nat
  BY DEF Held, One
<1> HIDE DEF S, T
<1>6. /\ IsFiniteSet(T)
      /\ Cardinality(S \ {t}) \in Nat
      /\ Cardinality(S) = Cardinality(S \ {t}) + One(t \in S)
      /\ Cardinality(T) = Cardinality(S \ {t}) + One(t \in T)
  BY <1>2, <1>3, Tally
<1>7. One(t \in S) = One(Owes(t, x, u)) /\ One(t \in T) = One(Owes(t, x, u)')
  BY <1>2 DEF One
<1>8. One(t \in S) \in Nat /\ One(t \in T) \in Nat
  BY DEF One
<1>9. Cardinality(T) + Held(x)' + reached'[<<x, u>>] <= composed'[x]
  BY <1>3, <1>4, <1>5, <1>6, <1>7, <1>8 DEF Kept
<1> QED
  BY <1>6, <1>9 DEF T

-----------------------------------------------------------------------------
(* Steps outside of a campaign make no copies.                             *)
Fine(t) ==
    /\ LegsAlone(t) /\ LegsPlaced'
    /\ \A x \in Contents, u \in Users : Kept(t, x, u)

LEMMA Numbers ==
    ASSUME TInv, NEW x \in Contents, NEW u \in Users
    PROVE  reached[<<x, u>>] \in Nat /\ composed[x] \in Nat
BY DEF TInv

LEMMA PlacedElsewhere ==
    ASSUME SInv, NEW t \in Tasks, Alone(t), LegsAlone(t),
           DOMAIN legs'[t] # {} => at'[t] \in {"batch", "abort", "failed"},
           at'[t] = "batch" => job'[t].todo \cap DOMAIN legs'[t] = {}
    PROVE  LegsPlaced'
<1> SUFFICES ASSUME NEW o \in Tasks
             PROVE  /\ DOMAIN legs'[o] # {} => at'[o] \in {"batch", "abort", "failed"}
                    /\ at'[o] = "batch" => job'[o].todo \cap DOMAIN legs'[o] = {}
  BY DEF LegsPlaced
<1>1. CASE o = t
  BY <1>1
<1>2. CASE o # t
  BY <1>2 DEF SInv, LegsPlaced, Alone, LegsAlone
<1> QED
  BY <1>1, <1>2

LEMMA QuietFine ==
    ASSUME SInv, NEW t \in Tasks, Alone(t), UNCHANGED campaigns,
           at[t] \notin {"batch", "abort", "failed"}, at'[t] \notin CampaignSteps,
           fsm'.content \in {fsm.content, None}
    PROVE  Fine(t)
<1>1. legs' = legs /\ reached' = reached /\ composed' = composed /\ LegsAlone(t)
  BY DEF campaigns, deliveries, LegsAlone
<1>2. DOMAIN legs[t] = {}
  BY DEF SInv, LegsPlaced
<1>3. LegsPlaced'
  BY <1>1, <1>2, PlacedElsewhere DEF CampaignSteps
<1>4. ASSUME NEW x \in Contents, NEW u \in Users PROVE Kept(t, x, u)
  <2>1. ~ Owes(t, x, u)'
    BY <1>1, <1>2 DEF Owes, LegIs, CampaignSteps
  <2>2. Held(x)' <= Held(x) /\ Held(x) \in Nat /\ Held(x)' \in Nat
    BY DEF Held, One
  <2>3. reached[<<x, u>>] \in Nat /\ composed[x] \in Nat
    BY Numbers DEF SInv
  <2>4. One(Owes(t, x, u)') = 0 /\ One(Owes(t, x, u)) \in Nat
    BY <2>1 DEF One
  <2> QED
    BY <1>1, <2>2, <2>3, <2>4 DEF Kept
<1> QED
  BY <1>1, <1>3, <1>4 DEF Fine

LEMMA ComposeFine ==
    ASSUME SInv, NEW t \in Tasks, Good(t), ComposeStep(t)
    PROVE  Fine(t)
<1>0. Shape /\ fsm \in Conversations /\ Alone(t)
  BY DEF SInv, TInv, CInv, Good
<1>1. at[t] = "route" /\ legs' = legs /\ reached' = reached /\ LegsAlone(t)
  BY DEF ComposeStep, Compose, ReceiveContent, ReceiveButtons, CancelSend, ConfirmSend,
         Talk, deliveries, LegsAlone
<1>2. DOMAIN legs[t] = {}
  BY <1>1 DEF SInv, LegsPlaced
<1>3. CASE (Compose(t) \/ ReceiveButtons(t) \/ CancelSend(t)) /\ UNCHANGED composed
  <2>1. PICK next \in {[fsm EXCEPT !.state = "content"], [fsm EXCEPT !.state = "confirm"],
                       Cleared} : Converse(t, next, "reply")
    BY <1>3 DEF Compose, ReceiveButtons, CancelSend
  <2>2. next.content \in {fsm.content, None}
    BY <1>0 DEF Conversations, Cleared
  <2>3. fsm' = next /\ at'[t] = "reply"
    BY <1>0, <2>1, ConverseDoes
  <2> QED
    BY <1>0, <1>1, <1>3, <2>2, <2>3, QuietFine DEF campaigns, deliveries, CampaignSteps
<1>4. CASE ReceiveContent(t)
  <2> DEFINE next == [fsm EXCEPT !.content = t, !.state = "buttons"]
  <2>1. Converse(t, next, "reply") /\ composed' = [composed EXCEPT ![t] = @ + 1]
    BY <1>4 DEF ReceiveContent
  <2>2. next.content = t
    BY <1>0 DEF Conversations
  <2> HIDE DEF next
  <2>3. fsm'.content = t /\ at'[t] = "reply"
    BY <1>0, <2>1, <2>2, ConverseDoes
  <2>4. LegsPlaced'
    BY <1>0, <1>1, <1>2, <2>3, PlacedElsewhere
  <2>5. ASSUME NEW x \in Contents, NEW u \in Users PROVE Kept(t, x, u)
    <3>1. ~ Owes(t, x, u)'
      BY <1>1, <1>2, <2>3 DEF Owes, LegIs
    <3>2. One(Owes(t, x, u)') = 0 /\ One(Owes(t, x, u)) \in Nat
      BY <3>1 DEF One
    <3>3. reached[<<x, u>>] \in Nat /\ composed[x] \in Nat /\ t \in Contents
          /\ composed \in [Contents -> Nat]
      BY Numbers DEF SInv, TInv, Contents
    <3>4. composed'[x] = composed[x] + One(x = t)
      BY <2>1, <3>3 DEF One
    <3>5. Held(x)' <= Held(x) + One(x = t) /\ Held(x) \in Nat /\ Held(x)' \in Nat
          /\ One(x = t) \in Nat
      BY <2>3 DEF Held, One
    <3> QED
      BY <1>1, <3>2, <3>3, <3>4, <3>5 DEF Kept
  <2> QED
    BY <1>1, <2>4, <2>5 DEF Fine
<1>5. CASE ConfirmSend(t) /\ UNCHANGED composed
  <2>1. /\ job'[t] = [job[t] EXCEPT !.value = fsm.content]
        /\ at'[t] = IF fsm.content = None THEN "abort" ELSE "create"
        /\ fsm'.content = None
    BY <1>0, <1>5 DEF ConfirmSend, Goto, Shape, Cleared
  <2>2. job'[t].value = fsm.content
    BY <1>0, <2>1 DEF Shape, JobFields
  <2>3. LegsPlaced'
    BY <1>0, <1>1, <1>2, <2>1, PlacedElsewhere
  <2>4. ASSUME NEW x \in Contents, NEW u \in Users PROVE Kept(t, x, u)
    <3>1. Owes(t, x, u)' <=> x # None /\ fsm.content = x
      BY <1>1, <1>2, <2>1, <2>2 DEF Owes, LegIs
    <3>2. One(Owes(t, x, u)') = Held(x) /\ Held(x)' = 0 /\ Held(x) \in Nat
          /\ One(Owes(t, x, u)) \in Nat
      BY <2>1, <3>1 DEF One, Held
    <3>3. reached[<<x, u>>] \in Nat /\ composed[x] \in Nat
      BY Numbers DEF SInv
    <3> QED
      BY <1>1, <1>5, <3>2, <3>3 DEF Kept
  <2> QED
    BY <1>1, <2>3, <2>4 DEF Fine
<1> QED
  BY <1>3, <1>4, <1>5 DEF ComposeStep

(* One that only stops owing, or goes on to owe what it owed.              *)
LEMMA OwesNoMore ==
    ASSUME SInv, NEW t \in Tasks, fsm' = fsm, composed' = composed, NEW x \in Contents,
           NEW u \in Users, Owes(t, x, u)' => Owes(t, x, u),
           reached'[<<x, u>>] = reached[<<x, u>>]
    PROVE  Kept(t, x, u)
<1>1. One(Owes(t, x, u)') <= One(Owes(t, x, u))
      /\ One(Owes(t, x, u)) \in Nat /\ One(Owes(t, x, u)') \in Nat
  BY DEF One
<1>2. Held(x)' = Held(x) /\ Held(x) \in Nat
  BY DEF Held, One
<1>3. reached[<<x, u>>] \in Nat /\ composed[x] \in Nat
  BY Numbers DEF SInv
<1> QED
  BY <1>1, <1>2, <1>3 DEF Kept

LEMMA StartsFine ==
    ASSUME SInv, NEW t \in Tasks, Good(t), UNCHANGED <<deliveries, composed>>,
           CreateCampaign(t) \/ Announce(t) \/ ListRecipients(t)
    PROVE  Fine(t)
<1>0. Shape /\ Alone(t) /\ legs' = legs /\ reached' = reached /\ LegsAlone(t)
      /\ composed' = composed
  BY DEF SInv, TInv, CInv, Good, deliveries, LegsAlone
<1>1. /\ at[t] \in {"create", "announce", "recipients"}
      /\ at'[t] \in {"announce", "recipients", "batch", "abort"}
      /\ fsm' = fsm /\ job'[t].value = job[t].value
  <2>1. CASE CreateCampaign(t)
    <3>1. at[t] = "create" /\ \E values : Add(t, values, {}, "announce")
      BY <2>1 DEF CreateCampaign
    <3>2. job'[t] = job[t]
      BY <1>0, <3>1, AddDoes
    <3> QED
      BY <1>0, <3>1, <3>2, WaysMove DEF Moved
  <2>2. CASE Announce(t)
    BY <1>0, <2>2, PassDoes DEF Announce, SameTalk
  <2>3. CASE ListRecipients(t)
    BY <1>0, <2>3 DEF ListRecipients, Goto, Shape, JobFields
  <2> QED
    BY <2>1, <2>2, <2>3
<1>2. DOMAIN legs[t] = {}
  BY <1>1 DEF SInv, LegsPlaced
<1>3. LegsPlaced'
  BY <1>0, <1>2, PlacedElsewhere
<1>4. ASSUME NEW x \in Contents, NEW u \in Users PROVE Kept(t, x, u)
  <2>1. Owes(t, x, u)' => Owes(t, x, u)
    BY <1>0, <1>1, <1>2 DEF Owes, LegIs
  <2> QED
    BY <1>0, <1>1, <2>1, OwesNoMore
<1> QED
  BY <1>0, <1>3, <1>4 DEF Fine

LEMMA BatchesFine ==
    ASSUME SInv, NEW t \in Tasks, Good(t), UNCHANGED composed, StartBatch(t) \/ Finish(t)
    PROVE  Fine(t)
<1>0. Shape /\ Alone(t) /\ LegsOK
  BY DEF SInv, TInv, CInv, Good
<1>1. reached' = reached /\ fsm' = fsm /\ composed' = composed /\ at[t] = "batch"
  BY DEF StartBatch, Finish, Learn, Pass, BatchIsOver
<1>2. CASE StartBatch(t)
  <2>1. PICK next \in SUBSET job[t].todo :
           /\ legs' = [legs EXCEPT ![t] = [u \in next |-> [step |-> "sending", left |-> Attempts]]]
           /\ Learn(t, [job[t] EXCEPT !.todo = @ \ next], "batch")
    BY <1>2 DEF StartBatch, kSubset
  <2>2. /\ at'[t] = "batch" /\ job'[t].todo = job[t].todo \ next
        /\ job'[t].value = job[t].value
    BY <1>0, <2>1 DEF Learn, Goto, Shape, JobFields
  <2>3. LegsAlone(t) /\ DOMAIN legs'[t] = next
    BY <1>0, <2>1 DEF LegsAlone, LegsOK
  <2>4. LegsPlaced'
    BY <1>0, <2>2, <2>3, PlacedElsewhere
  <2>5. ASSUME NEW x \in Contents, NEW u \in Users PROVE Kept(t, x, u)
    <3>1. Owes(t, x, u)' => Owes(t, x, u)
      BY <1>1, <2>2, <2>3 DEF Owes, LegIs
    <3> QED
      BY <1>1, <3>1, OwesNoMore
  <2> QED
    BY <2>3, <2>4, <2>5 DEF Fine
<1>3. CASE Finish(t)
  <2>1. at'[t] = "log" /\ job'[t] = job[t]
    BY <1>0, <1>3, PassDoes DEF Finish
  <2>2. LegsAlone(t) /\ DOMAIN legs'[t] = {}
    BY <1>0, <1>3 DEF Finish, LegsAlone, LegsOK
  <2>3. LegsPlaced'
    BY <1>0, <2>1, <2>2, PlacedElsewhere
  <2>4. ASSUME NEW x \in Contents, NEW u \in Users PROVE Kept(t, x, u)
    <3>1. ~ Owes(t, x, u)'
      BY <2>1, <2>2 DEF Owes, LegIs
    <3> QED
      BY <1>1, <3>1, OwesNoMore
  <2> QED
    BY <2>2, <2>3, <2>4 DEF Fine
<1> QED
  BY <1>2, <1>3

LEMMA DeliveryFine ==
    ASSUME SInv, NEW t \in Tasks, Good(t), NEW u \in DOMAIN legs[t], DeliveryStep(t, u),
           UNCHANGED composed
    PROVE  Fine(t)
<1>0. Shape /\ LegsOK /\ Alone(t) /\ reached \in [Contents \X Users -> Nat]
  BY DEF SInv, TInv, CInv, Good
<1>1. /\ fsm' = fsm /\ job'[t] = job[t] /\ LegsAlone(t)
      /\ at'[t] = at[t] \/ (at[t] = "batch" /\ at'[t] = "abort")
      /\ DOMAIN legs'[t] = DOMAIN legs[t]
      /\ \A o \in DOMAIN legs[t] \ {u} : legs'[t][o] = legs[t][o]
  BY DeliveryMoves DEF SInv
<1>2. /\ at[t] \in {"batch", "abort", "failed"}
      /\ at[t] = "batch" => u \notin job[t].todo /\ job[t].todo \cap DOMAIN legs[t] = {}
  BY DEF SInv, LegsPlaced
<1>3. LegsPlaced'
  BY <1>0, <1>1, <1>2, PlacedElsewhere
<1>4. ASSUME NEW x \in Contents, NEW v \in Users, v # u \/ x # job[t].value
      PROVE  Kept(t, x, v)
  <2>1. Owes(t, x, v)' => Owes(t, x, v)
    BY <1>1, <1>2, <1>4 DEF Owes, LegIs
  <2>2. reached'[<<x, v>>] = reached[<<x, v>>]
    <3>1. reached' = reached \/ Reach(t, u)
      BY DEF DeliveryStep, Deliver, FailToDeliver, WaitForFlood, NoteFailure, FailureNoted
    <3> QED
      BY <1>0, <1>4, <3>1 DEF Reach
  <2> QED
    BY <1>1, <2>1, <2>2, OwesNoMore
<1>5. ASSUME NEW x \in Contents, u \in Users, x = job[t].value PROVE Kept(t, x, u)
  <2>1. CASE Deliver(t, u) \/ FailToDeliver(t, u)
    <3>1. Owes(t, x, u)
      BY <1>5, <2>1 DEF Deliver, FailToDeliver, Sending, Owes
    <3>2. legs'[t][u].step \in {"sent", "failing"}
      BY <1>0, <2>1 DEF Deliver, FailToDeliver, Leg, LegsOK
    <3>3. ~ Owes(t, x, u)'
      BY <1>1, <1>2, <3>2 DEF Owes, LegIs
    <3>4. reached'[<<x, u>>] \in {reached[<<x, u>>], reached[<<x, u>>] + 1}
      <4>1. reached' = reached \/ Reach(t, u)
        BY <2>1 DEF Deliver, FailToDeliver
      <4> QED
        BY <1>0, <1>5, <4>1 DEF Reach
    <3>5. One(Owes(t, x, u)) = 1 /\ One(Owes(t, x, u)') = 0
      BY <3>1, <3>3 DEF One
    <3>6. Held(x)' = Held(x) /\ Held(x) \in Nat
      BY <1>1 DEF Held, One
    <3>7. reached[<<x, u>>] \in Nat /\ composed[x] \in Nat
      BY <1>5, Numbers DEF SInv
    <3> QED
      BY <3>4, <3>5, <3>6, <3>7 DEF Kept
  <2>2. CASE WaitForFlood(t, u)
    <3>1. legs'[t][u].step = legs[t][u].step /\ reached' = reached
      BY <1>0, <2>2 DEF WaitForFlood, LegsOK, LegFields
    <3>2. Owes(t, x, u)' => Owes(t, x, u)
      BY <1>1, <1>2, <3>1 DEF Owes, LegIs
    <3> QED
      BY <1>1, <1>5, <3>1, <3>2, OwesNoMore
  <2>3. CASE NoteFailure(t, u) \/ FailureNoted(t, u)
    <3>1. legs'[t][u].step \in {"failed", "flushing"} /\ reached' = reached
      <4>1. PICK step \in {"failed", "flushing"} : Leg(t, u, step)
        BY <2>3 DEF NoteFailure, FailureNoted
      <4> QED
        BY <1>0, <2>3, <4>1 DEF NoteFailure, FailureNoted, Leg, LegsOK
    <3>2. ~ Owes(t, x, u)'
      BY <1>1, <1>2, <3>1 DEF Owes, LegIs
    <3> QED
      BY <1>1, <1>5, <3>1, <3>2, OwesNoMore
  <2> QED
    BY <2>1, <2>2, <2>3 DEF DeliveryStep
<1> QED
  BY <1>1, <1>3, <1>4, <1>5 DEF Fine

LEMMA BackupFine ==
    ASSUME SInv, NEW t \in Tasks, Good(t), UNCHANGED campaigns, BackupsStep(t)
    PROVE  Fine(t)
<1>0. Shape /\ Alone(t)
  BY DEF SInv, TInv, CInv, Good
<1>1. /\ at[t] \in {"route", "copying", "prune"}
      /\ \E l, s : Learn(t, l, s) /\ s \in {"copying", "prune", "reply", "done"}
  BY DEF BackupsStep, BeginCopy, EndCopy, Prune, NoFile, Copying, Pass
<1>2. at'[t] \in {"copying", "prune", "reply", "done"} /\ fsm' = fsm
  BY <1>0, <1>1 DEF Learn, Goto, Shape
<1> QED
  BY <1>0, <1>1, <1>2, QuietFine DEF CampaignSteps

LEMMA EndFine ==
    ASSUME SInv, NEW t \in Tasks, Good(t), UNCHANGED campaigns,
           LockTimeout(t) \/ Commit(t) \/ Rollback(t)
    PROVE  Fine(t)
<1>0. Shape /\ Alone(t)
  BY DEF SInv, TInv, CInv, Good
<1>1. CASE LockTimeout(t) \/ Commit(t)
  <2>1. at[t] \notin {"batch", "abort", "failed"} /\ at'[t] \in {"abort", "done"} /\ fsm' = fsm
    BY <1>0, <1>1, WaysMove DEF LockTimeout, Writing, Commit, Goto, Shape, Moved
  <2> QED
    BY <1>0, <2>1, QuietFine DEF CampaignSteps
<1>2. CASE Rollback(t)
  <2>1. /\ at'[t] = "failed" /\ job' = job /\ fsm' = fsm /\ legs' = legs /\ LegsAlone(t)
        /\ reached' = reached /\ composed' = composed
    BY <1>0, <1>2 DEF Rollback, Goto, Shape, campaigns, deliveries, LegsAlone
  <2>2. LegsPlaced'
    BY <1>0, <2>1, PlacedElsewhere
  <2>3. ASSUME NEW x \in Contents, NEW u \in Users PROVE Kept(t, x, u)
    <3>1. Owes(t, x, u)' => Owes(t, x, u)
      BY <2>1 DEF Owes, LegIs
    <3> QED
      BY <2>1, <3>1, OwesNoMore
  <2> QED
    BY <2>1, <2>2, <2>3 DEF Fine
<1> QED
  BY <1>1, <1>2

-----------------------------------------------------------------------------
LEMMA StepFine ==
    ASSUME SInv, NEW t \in Tasks, Step(t)
    PROVE  Good(t) /\ Fine(t)
<1>0. CInv /\ LegsOK
  BY DEF SInv, TInv
<1>1. Good(t) /\ Alone(t)
  BY <1>0, StepGood DEF LegsOK, Good
<1>2. CASE /\ \/ Receive(t) \/ Ignore(t) \/ Throttle(t) \/ Log(t) \/ Reply(t)
              \/ SubscriptionsStep(t) \/ RegistrationStep(t) \/ PanelStep(t)
           /\ UNCHANGED campaigns
  <2>1. Ordinary(t)
    BY <1>0, <1>2, OrdinarySteps
  <2>2. at[t] \notin {"batch", "abort", "failed"} /\ at'[t] \notin CampaignSteps
        /\ fsm'.content \in {fsm.content, None}
    BY <2>1 DEF Ordinary, CampaignSteps, Ended
  <2> QED
    BY <1>1, <1>2, <2>2, QuietFine
<1>3. CASE (LockTimeout(t) \/ Commit(t) \/ Rollback(t)) /\ UNCHANGED campaigns
  BY <1>1, <1>3, EndFine
<1>4. CASE ComposeStep(t)
  BY <1>1, <1>4, ComposeFine
<1>5. CASE CampaignStep(t) /\ UNCHANGED composed
  <2>1. ASSUME NEW u \in DOMAIN legs[t], DeliveryStep(t, u) PROVE Fine(t)
    BY <1>1, <1>5, <2>1, DeliveryFine
  <2> QED
    BY <1>1, <1>5, <2>1, StartsFine, BatchesFine DEF CampaignStep
<1>6. CASE BackupsStep(t) /\ UNCHANGED campaigns
  BY <1>1, <1>6, BackupFine
<1> QED
  BY <1>1, <1>2, <1>3, <1>4, <1>5, <1>6 DEF Step, CampaignsStep

LEMMA NextKeepsBudget == SInv /\ [Next]_vars => SInv'
<1> SUFFICES ASSUME SInv, [Next]_vars PROVE SInv'
  OBVIOUS
<1>0. TInv'
  BY NextKeepsTypes DEF SInv
<1>1. ASSUME NEW t \in Tasks, Turn(t) PROVE SInv'
  <2>1. Good(t) /\ Fine(t)
    BY <1>1, StepFine DEF Turn
  <2>2. \A x \in Contents, u \in Users :
           /\ IsFiniteSet(Owing(x, u)')
           /\ Cardinality(Owing(x, u)') + Held(x)' + reached'[<<x, u>>] <= composed'[x]
    BY <1>0, <2>1, BudgetStep DEF Fine, Good
  <2> QED
    BY <1>0, <2>1, <2>2 DEF SInv, Fine, BudgetKept
<1>2. CASE Crash
  <2>1. /\ legs' = [t \in Tasks |-> <<>>] /\ reached' = reached /\ composed' = composed
        /\ fsm' = Cleared
    BY <1>2 DEF Crash, Kill
  <2>2. \A t \in Tasks : at'[t] \notin CampaignSteps /\ DOMAIN legs'[t] = {}
    <3> TAKE t \in Tasks
    <3>1. at'[t] \in {"idle", "failed"} \/ (at'[t] = at[t] /\ ~ Running(t))
      BY <1>2 DEF Crash, Kill
    <3> QED
      BY <2>1, <3>1 DEF Running, Ended, CampaignSteps
  <2>3. LegsPlaced'
    BY <2>2 DEF LegsPlaced, CampaignSteps
  <2>4. ASSUME NEW x \in Contents, NEW u \in Users
        PROVE  /\ IsFiniteSet(Owing(x, u)')
               /\ Cardinality(Owing(x, u)') + Held(x)' + reached'[<<x, u>>] <= composed'[x]
    <3>1. Owing(x, u)' = {}
      BY <2>2 DEF Owing, Owes, LegIs, CampaignSteps
    <3>2. Held(x)' = 0 /\ Held(x) \in Nat
      BY <2>1 DEF Held, One, Cleared
    <3>3. IsFiniteSet(Owing(x, u))
          /\ Cardinality(Owing(x, u)) + Held(x) + reached[<<x, u>>] <= composed[x]
      BY DEF SInv, BudgetKept
    <3>4. Cardinality(Owing(x, u)) \in Nat /\ reached[<<x, u>>] \in Nat /\ composed[x] \in Nat
      BY <3>3, FS_CardinalityType, Numbers DEF SInv
    <3>5. reached[<<x, u>>] <= composed[x]
      BY <3>2, <3>3, <3>4
    <3> QED
      BY <2>1, <3>1, <3>2, <3>4, <3>5, FS_EmptySet
  <2> QED
    BY <1>0, <2>3, <2>4 DEF SInv, BudgetKept
<1>3. CASE Join \/ UNCHANGED vars
  <2>1. UNCHANGED <<core, campaigns>>
    BY <1>3 DEF Join, Move, vars
  <2>2. LegsPlaced' /\ BudgetKept'
    BY <2>1 DEF SInv, LegsPlaced, BudgetKept, Owing, Owes, LegIs, Held, One, core, campaigns,
                deliveries
  <2> QED
    BY <1>0, <2>2 DEF SInv
<1> QED
  BY <1>1, <1>2, <1>3 DEF Next, AllOver

LEMMA InitBudget == Init => SInv
<1> SUFFICES ASSUME Init PROVE SInv
  OBVIOUS
<1>1. TInv
  BY InitTypes
<1>2. \A t \in Tasks : DOMAIN legs[t] = {} /\ at[t] \in {"idle", "unused"}
  BY DEF Init, CampaignsInit, CoreInit
<1>3. LegsPlaced
  BY <1>2 DEF LegsPlaced
<1>4. ASSUME NEW x \in Contents, NEW u \in Users
      PROVE  /\ IsFiniteSet(Owing(x, u))
             /\ Cardinality(Owing(x, u)) + Held(x) + reached[<<x, u>>] <= composed[x]
  <2>1. Owing(x, u) = {}
    BY <1>2 DEF Owing, Owes, LegIs
  <2>2. Held(x) <= composed[x] /\ Held(x) \in Nat /\ composed[x] \in Nat
    BY DEF Held, One, Init, CampaignsInit
  <2>3. reached[<<x, u>>] = 0
    BY DEF Init, CampaignsInit
  <2> QED
    BY <2>1, <2>2, <2>3, FS_EmptySet
<1> QED
  BY <1>1, <1>3, <1>4 DEF SInv, BudgetKept

(* A message reaches a user at most as often as it was composed: the one   *)
(* who taps "Send" takes it out of the conversation (broadcast.py:99-109), *)
(* a delivery is tried again only when nothing was delivered, and a        *)
(* campaign comes to every user in one batch (broadcast_service.py:58-136).*)
THEOREM SentOnceHolds == Spec => []SentOnce
<1>1. SInv => SentOnce
  <2> SUFFICES ASSUME SInv, NEW x \in Contents, NEW u \in Users
               PROVE  reached[<<x, u>>] <= composed[x]
    BY DEF SentOnce
  <2>1. /\ IsFiniteSet(Owing(x, u))
        /\ Cardinality(Owing(x, u)) + Held(x) + reached[<<x, u>>] <= composed[x]
    BY DEF SInv, BudgetKept
  <2>2. /\ Cardinality(Owing(x, u)) \in Nat /\ reached[<<x, u>>] \in Nat /\ composed[x] \in Nat
        /\ Held(x) \in Nat
    BY <2>1, FS_CardinalityType, Numbers DEF SInv, Held, One
  <2> QED
    BY <2>1, <2>2
<1> QED
  BY <1>1, InitBudget, NextKeepsBudget, PTL DEF Spec

-----------------------------------------------------------------------------
(* The account that a campaign keeps in its session until it is committed. *)
Opened(t)     == Campaign(t) \in wrote[t]
Account(t)    == session[t][Campaign(t)]
Failure(t, u) == <<"failure", <<t, u>>>>

Going(t, steps) == {u \in DOMAIN legs[t] : legs[t][u].step \in steps}

(* Who is still to be sent to, who has been given up, who has got message  *)
(* x.                                                                      *)
Due(t)  == (IF at[t] = "batch" THEN job[t].todo ELSE {}) \cup Going(t, {"sending"})
Lost(t) == {u \in Users : Failure(t, u) \in wrote[t]} \cup Going(t, {"failing", "flushing"})
Got(r, x) == {u \in Users : r[<<x, u>>] > 0}

Balanced(t) ==
    LET account == Account(t)
    IN  /\ account \in Accounts
        /\ account.total = account.sent + account.failed + Cardinality(Due(t))
        /\ account.failed = Cardinality(Lost(t))
        /\ account.sent <= Cardinality(Got(reached, account.content) \ (Due(t) \cup Lost(t)))
        /\ Due(t) \cap Lost(t) = {}
        /\ at[t] \in {"announce", "recipients"} => account.total = 0
        /\ at[t] \in {"announce", "recipients", "batch"} => account.content = job[t].value

(* What is committed of it.                                                *)
Refused(t) == {u \in Users : Of(db, Failure(t, u)) # None}

Reported(t) ==
    LET campaign == Of(db, Campaign(t))
    IN  /\ Refused(t) # {} => campaign # None
        /\ campaign # None =>
              /\ campaign \in Accounts
              /\ campaign.total = campaign.sent + campaign.failed
              /\ campaign.failed = Cardinality(Refused(t))
              /\ campaign.sent <= Cardinality(Got(reached, campaign.content) \ Refused(t))

Owned(t) ==
    \A c \in wrote[t] : /\ c[1] = "campaign" => c = Campaign(t)
                        /\ c[1] = "failure" => \E u \in Users : c = Failure(t, u)

Accounted(t) ==
    /\ Owned(t)
    /\ at[t] \in {"announce", "recipients", "batch"} => Opened(t)
    /\ at[t] = "create" => wrote[t] = {} /\ job[t].value \in Contents
    /\ Opened(t) => Of(db, Campaign(t)) = None
    /\ Opened(t) /\ at[t] # "abort" => Balanced(t)
    /\ \A u \in Users : Failure(t, u) \in wrote[t] =>
          Opened(t) /\ session[t][Failure(t, u)] = TRUE
    /\ Reported(t)

AInv == SInv /\ \A t \in Tasks : Accounted(t)

-----------------------------------------------------------------------------
LEMMA UsersFinite ==
    ASSUME NEW S \in SUBSET Users
    PROVE  IsFiniteSet(S) /\ Cardinality(S) \in Nat
BY CampaignAssumption, FS_Subset, FS_CardinalityType

LEMMA MoreUsers ==
    ASSUME NEW S \in SUBSET Users, NEW T \in SUBSET S
    PROVE  Cardinality(T) <= Cardinality(S)
BY UsersFinite, FS_Subset

LEMMA OneMore ==
    ASSUME NEW S \in SUBSET Users, NEW u \in Users
    PROVE  /\ u \notin S => Cardinality(S \cup {u}) = Cardinality(S) + 1
           /\ u \in S => Cardinality(S \ {u}) = Cardinality(S) - 1
BY UsersFinite, FS_AddElement, FS_RemoveElement

(* A user who got a message keeps it.                                      *)
Growing == \A x \in Contents, u \in Users : reached'[<<x, u>>] >= reached[<<x, u>>]

LEMMA NothingTaken == ASSUME TInv, reached' = reached PROVE Growing
<1> SUFFICES ASSUME NEW x \in Contents, NEW u \in Users
             PROVE  reached'[<<x, u>>] >= reached[<<x, u>>]
  BY DEF Growing
<1>1. reached[<<x, u>>] \in Nat
  BY DEF TInv
<1> QED
  BY <1>1

LEMMA GotGrows ==
    ASSUME TInv, TInv', Growing, NEW x \in Contents
    PROVE  Got(reached, x) \subseteq Got(reached', x)
<1> SUFFICES ASSUME NEW u \in Users, reached[<<x, u>>] > 0 PROVE reached'[<<x, u>>] > 0
  BY DEF Got
<1>1. reached[<<x, u>>] \in Nat /\ reached'[<<x, u>>] \in Nat
  BY DEF TInv
<1>2. reached'[<<x, u>>] >= reached[<<x, u>>]
  BY DEF Growing
<1> QED
  BY <1>1, <1>2

LEMMA InUsers ==
    ASSUME TInv, NEW t \in Tasks
    PROVE  Due(t) \subseteq Users /\ Lost(t) \subseteq Users
<1>1. DOMAIN legs[t] \subseteq Users
  BY DEF TInv, LegsOK
<1>2. at[t] = "batch" => job[t].todo \subseteq Users
  BY Placed DEF TInv
<1> QED
  BY <1>1, <1>2 DEF Due, Lost, Going

-----------------------------------------------------------------------------
(* The committed report of a task stays right while its cells stay.        *)
SameCells(t) ==
    /\ Of(db', Campaign(t)) = Of(db, Campaign(t))
    /\ \A u \in Users : Of(db', Failure(t, u)) = Of(db, Failure(t, u))

LEMMA ReportStays ==
    ASSUME AInv, TInv', Growing, NEW t \in Tasks, SameCells(t)
    PROVE  Reported(t)'
<1> DEFINE campaign == Of(db, Campaign(t))
           W == Refused(t)
<1>1. Of(db', Campaign(t)) = campaign /\ Refused(t)' = W
  BY DEF SameCells, Refused
<1>2. Reported(t) /\ W \subseteq Users
  BY DEF AInv, Accounted, Refused
<1>3. CASE campaign = None
  BY <1>1, <1>2, <1>3 DEF Reported
<1>4. CASE campaign # None
  <2>1. /\ campaign \in Accounts
        /\ campaign.total = campaign.sent + campaign.failed
        /\ campaign.failed = Cardinality(W)
        /\ campaign.sent <= Cardinality(Got(reached, campaign.content) \ W)
    BY <1>2, <1>4 DEF Reported
  <2> DEFINE x == campaign.content
             G == Got(reached, x) \ W
             H == Got(reached', x) \ W
  <2>2. G \subseteq H /\ H \subseteq Users
    <3>1. x \in Contents
      BY <2>1 DEF Accounts
    <3> QED
      BY <3>1, GotGrows DEF AInv, SInv, Got
  <2>3. Cardinality(G) <= Cardinality(H) /\ Cardinality(G) \in Nat /\ Cardinality(H) \in Nat
    BY <2>2, MoreUsers, UsersFinite
  <2>4. campaign.sent \in Nat
    BY <2>1 DEF Accounts
  <2>5. campaign.sent <= Cardinality(H)
    BY <2>1, <2>3, <2>4
  <2> HIDE DEF campaign, W
  <2> QED
    BY <1>1, <1>4, <2>1, <2>5 DEF Reported
<1> QED
  BY <1>3, <1>4

(* Where a task stays with the same account, only more has been got.       *)
LEMMA BalanceStays ==
    ASSUME TInv, TInv', Growing, NEW t \in Tasks, Balanced(t),
           Account(t)' = Account(t), Due(t)' = Due(t), Lost(t)' = Lost(t),
           at'[t] \in {"announce", "recipients", "batch"} =>
               /\ at'[t] = "batch" <=> at[t] = "batch"
               /\ at[t] \in {"announce", "recipients", "batch"} /\ job'[t].value = job[t].value
    PROVE  Balanced(t)'
<1> DEFINE a == Account(t)
           x == a.content
           gone == Due(t) \cup Lost(t)
           G == Got(reached, x) \ gone
           H == Got(reached', x) \ gone
<1>1. /\ a \in Accounts
      /\ a.total = a.sent + a.failed + Cardinality(Due(t))
      /\ a.failed = Cardinality(Lost(t))
      /\ a.sent <= Cardinality(G)
      /\ Due(t) \cap Lost(t) = {}
      /\ at[t] \in {"announce", "recipients"} => a.total = 0
      /\ at[t] \in {"announce", "recipients", "batch"} => a.content = job[t].value
  BY DEF Balanced
<1>2. G \subseteq H /\ H \subseteq Users
  <2>1. x \in Contents
    BY <1>1 DEF Accounts
  <2> QED
    BY <2>1, GotGrows DEF Got
<1>3. Cardinality(G) <= Cardinality(H) /\ Cardinality(G) \in Nat /\ Cardinality(H) \in Nat
  BY <1>2, MoreUsers, UsersFinite
<1>4. a.sent \in Nat
  BY <1>1 DEF Accounts
<1>5. a.sent <= Cardinality(H)
  BY <1>1, <1>3, <1>4
<1> QED
  BY <1>1, <1>5 DEF Balanced

LEMMA OthersAccounted ==
    ASSUME AInv, TInv', Growing, NEW t \in Tasks, Alone(t), LegsAlone(t),
           NEW o \in Tasks, o # t, SameCells(o)
    PROVE  Accounted(o)'
<1>1. /\ at'[o] = at[o] /\ job'[o] = job[o] /\ legs'[o] = legs[o]
      /\ session'[o] = session[o] /\ wrote'[o] = wrote[o]
  BY DEF Alone, LegsAlone
<1>2. Accounted(o)
  BY DEF AInv
<1>3. Reported(o)'
  BY ReportStays
<1>4. /\ Account(o)' = Account(o) /\ Due(o)' = Due(o) /\ Lost(o)' = Lost(o)
      /\ Opened(o)' <=> Opened(o)
  BY <1>1 DEF Account, Due, Lost, Going, Opened
<1>5. Opened(o)' /\ at'[o] # "abort" => Balanced(o)'
  BY <1>1, <1>2, <1>4, BalanceStays DEF Accounted, AInv, SInv
<1>6. Opened(o)' => Of(db', Campaign(o)) = None
  BY <1>2, <1>4 DEF Accounted, SameCells
<1>7. Owned(o)'
  BY <1>1, <1>2 DEF Accounted, Owned
<1>8. \A u \in Users : (Failure(o, u) \in wrote[o])' =>
          Opened(o)' /\ session'[o][Failure(o, u)] = TRUE
  BY <1>1, <1>2, <1>4 DEF Accounted
<1>9. /\ at'[o] \in {"announce", "recipients", "batch"} => Opened(o)'
      /\ at'[o] = "create" => wrote'[o] = {} /\ job'[o].value \in Contents
  BY <1>1, <1>2, <1>4 DEF Accounted
<1> QED
  BY <1>3, <1>5, <1>6, <1>7, <1>8, <1>9 DEF Accounted

-----------------------------------------------------------------------------
(* Steps that are none of a campaign's or of the end of a transaction.     *)
LEMMA NoCampaignColumn ==
    ASSUME NEW s
    PROVE  "campaign" \notin Columns(s) /\ "failure" \notin Columns(s)
BY DEF Columns, OfTargets

LEMMA ApartAccounted ==
    ASSUME AInv, TInv', LegsPlaced', NEW t \in Tasks, Alone(t), UNCHANGED deliveries, db' = db,
           Touches(t, Columns(at[t])),
           at[t] \notin {"announce", "recipients", "batch", "abort"},
           at'[t] \notin {"announce", "recipients", "batch"},
           at'[t] = "create" => wrote'[t] = {} /\ job'[t].value \in Contents
    PROVE  \A o \in Tasks : Accounted(o)'
<1>0. legs' = legs /\ reached' = reached
  BY DEF deliveries
<1>1. Growing
  BY <1>0, NothingTaken DEF AInv, SInv
<1>2. \A o \in Tasks : SameCells(o)
  BY DEF SameCells
<1>3. ASSUME NEW o \in Tasks, o # t PROVE Accounted(o)'
  BY <1>0, <1>1, <1>2, <1>3, OthersAccounted DEF LegsAlone
<1>4. Accounted(t)'
  <2>1. Accounted(t) /\ Owned(t)
    BY DEF AInv, Accounted
  <2>2. \A c : c[1] \in {"campaign", "failure"} =>
           /\ c \in wrote'[t] <=> c \in wrote[t]
           /\ c \in wrote[t] => session'[t][c] = session[t][c]
    BY NoCampaignColumn DEF Touches
  <2>3. Campaign(t)[1] = "campaign" /\ \A u : Failure(t, u)[1] = "failure"
    BY DEF Campaign, Failure
  <2>4. /\ Opened(t)' <=> Opened(t)
        /\ Opened(t) => Account(t)' = Account(t)
        /\ \A u : Failure(t, u) \in wrote'[t] <=> Failure(t, u) \in wrote[t]
        /\ \A u : Failure(t, u) \in wrote[t] =>
              session'[t][Failure(t, u)] = session[t][Failure(t, u)]
    BY <2>2, <2>3 DEF Opened, Account
  <2>5. Due(t)' = Due(t) /\ Lost(t)' = Lost(t)
    BY <1>0, <2>4 DEF Due, Lost, Going
  <2>6. Opened(t)' => Balanced(t)'
    BY <1>1, <2>1, <2>4, <2>5, BalanceStays DEF Accounted, AInv, SInv
  <2>7. Owned(t)'
    BY <2>1, <2>2 DEF Owned
  <2>8. Reported(t)'
    BY <1>1, <1>2, ReportStays
  <2> QED
    BY <2>1, <2>4, <2>6, <2>7, <2>8 DEF Accounted
<1> QED
  BY <1>3, <1>4

(* The end of a transaction.                                               *)
LEMMA CommitAccounted ==
    ASSUME AInv, TInv', LegsPlaced', NEW t \in Tasks, Alone(t), UNCHANGED deliveries, Commit(t)
    PROVE  \A o \in Tasks : Accounted(o)'
<1>0. legs' = legs /\ reached' = reached /\ Shape /\ at[t] = "commit"
  BY DEF deliveries, AInv, SInv, TInv, CInv, Commit
<1>1. Growing
  BY <1>0, NothingTaken DEF AInv, SInv
<1>2. Accounted(t) /\ Owned(t)
  BY DEF AInv, Accounted
<1>3. ASSUME NEW o \in Tasks, o # t PROVE Accounted(o)'
  <2>1. Campaign(o) \notin wrote[t] /\ \A u \in Users : Failure(o, u) \notin wrote[t]
    BY <1>2, <1>3 DEF Owned, Campaign, Failure
  <2>2. SameCells(o)
    BY <2>1, CommittedCells DEF SameCells
  <2> QED
    BY <1>0, <1>1, <1>3, <2>2, OthersAccounted DEF LegsAlone
<1>4. Accounted(t)'
  <2>1. wrote'[t] = {} /\ at'[t] = "done"
    BY <1>0 DEF Commit, Closed, Goto, Shape
  <2>2. Reported(t)'
    <3>1. CASE Opened(t)
      <4>1. Balanced(t) /\ Of(db, Campaign(t)) = None /\ Reported(t)
        BY <1>0, <1>2, <3>1 DEF Accounted
      <4>2. Due(t) = {} /\ Going(t, {"failing", "flushing"}) = {}
        BY <1>0 DEF AInv, SInv, LegsPlaced, Due, Going
      <4> DEFINE a == Account(t)
                 F == {u \in Users : Failure(t, u) \in wrote[t]}
      <4>3. Lost(t) = F
        BY <4>2 DEF Lost
      <4>4. Of(db', Campaign(t)) = a
        BY <3>1, CommittedCells DEF Opened, Account
      <4>5. Refused(t)' = F
        <5>1. \A u \in Users : Of(db, Failure(t, u)) = None
          BY <4>1 DEF Reported, Refused
        <5>2. \A u \in Users : Failure(t, u) \in wrote[t] => session[t][Failure(t, u)] = TRUE
          BY <1>2 DEF Accounted
        <5>3. \A u \in Users : Of(db', Failure(t, u)) # None <=> Failure(t, u) \in wrote[t]
          BY <5>1, <5>2, CommittedCells, NoRowAssumption
        <5> QED
          BY <5>3 DEF Refused
      <4> HIDE DEF a, F
      <4>6. /\ a \in Accounts /\ a.total = a.sent + a.failed + Cardinality({})
            /\ a.failed = Cardinality(F) /\ a.sent <= Cardinality(Got(reached, a.content) \ F)
        BY <4>1, <4>2, <4>3 DEF Balanced, a
      <4>7. a.total = a.sent + a.failed /\ a # None
        BY <4>6, FS_EmptySet, NoRowAssumption DEF Accounts
      <4>8. \A x : Got(reached', x) = Got(reached, x)
        BY <1>0 DEF Got
      <4> QED
        BY <4>4, <4>5, <4>6, <4>7, <4>8 DEF Reported
    <3>2. CASE ~ Opened(t)
      <4>1. Campaign(t) \notin wrote[t] /\ \A u \in Users : Failure(t, u) \notin wrote[t]
        BY <1>2, <3>2 DEF Accounted, Opened
      <4>2. SameCells(t)
        BY <4>1, CommittedCells DEF SameCells
      <4> QED
        BY <1>1, <4>2, ReportStays
    <3> QED
      BY <3>1, <3>2
  <2> QED
    BY <2>1, <2>2 DEF Accounted, Owned, Opened
<1> QED
  BY <1>3, <1>4

LEMMA RollbackAccounted ==
    ASSUME AInv, TInv', LegsPlaced', NEW t \in Tasks, Alone(t), UNCHANGED deliveries, Rollback(t)
    PROVE  \A o \in Tasks : Accounted(o)'
<1>0. legs' = legs /\ reached' = reached /\ Shape /\ db' = db
  BY DEF deliveries, AInv, SInv, TInv, CInv, Rollback
<1>1. Growing
  BY <1>0, NothingTaken DEF AInv, SInv
<1>2. \A o \in Tasks : SameCells(o)
  BY <1>0 DEF SameCells
<1>3. ASSUME NEW o \in Tasks, o # t PROVE Accounted(o)'
  BY <1>0, <1>1, <1>2, <1>3, OthersAccounted DEF LegsAlone
<1>4. wrote'[t] = {} /\ at'[t] = "failed"
  BY <1>0 DEF Rollback, Closed, Goto, Shape
<1>5. Reported(t)'
  BY <1>1, <1>2, ReportStays
<1> QED
  BY <1>3, <1>4, <1>5 DEF Accounted, Owned, Opened

-----------------------------------------------------------------------------
(* The steps of a campaign.                                                *)
LEMMA CreateAccounted ==
    ASSUME AInv, TInv', LegsPlaced', NEW t \in Tasks, Alone(t), UNCHANGED deliveries,
           CreateCampaign(t)
    PROVE  Accounted(t)'
<1>0. legs' = legs /\ reached' = reached /\ Shape /\ at[t] = "create" /\ Accounted(t)
  BY DEF deliveries, AInv, SInv, TInv, CInv, CreateCampaign
<1> DEFINE new == [content |-> job[t].value, total |-> 0, sent |-> 0, failed |-> 0]
           row == Campaign(t)
<1>1. wrote[t] = {} /\ new \in Accounts
  BY <1>0 DEF Accounted, Accounts
<1>2. new.content = job[t].value /\ new.total = 0 /\ new.sent = 0 /\ new.failed = 0
  OBVIOUS
<1>3. Add(t, row :> new, {}, "announce")
  BY DEF CreateCampaign
<1> HIDE DEF new
<1>4. /\ db' = db /\ job'[t] = job[t]
      /\ \/ SameTransaction(t) /\ at'[t] = "abort"
         \/ /\ Flush(t, row :> new, "announce")
            /\ \A c \in DOMAIN (row :> new) : Of(db, Primary(c)) = None
  BY <1>0, <1>3, AddDoes
<1>5. SameCells(t) /\ Growing
  BY <1>0, <1>4, NothingTaken DEF SameCells, AInv, SInv
<1>6. Reported(t)'
  BY <1>5, ReportStays
<1>7. CASE SameTransaction(t) /\ at'[t] = "abort"
  BY <1>1, <1>6, <1>7 DEF SameTransaction, Accounted, Owned, Opened
<1>8. CASE /\ Flush(t, row :> new, "announce")
           /\ \A c \in DOMAIN (row :> new) : Of(db, Primary(c)) = None
  <2>1. DOMAIN (row :> new) = {row} /\ (row :> new)[row] = new
    BY CellValue
  <2>2. /\ at'[t] = "announce" /\ wrote'[t] = {row} /\ session'[t][row] = new
    BY <1>0, <1>1, <1>8, <2>1, FlushDoes
  <2>3. Of(db, row) = None
    <3>1. Primary(row) = row
      BY DEF Primary, Campaign, OfUsers, OfTargets
    <3> QED
      BY <1>8, <2>1, <3>1
  <2>4. row # Failure(t, t) /\ \A u : row # Failure(t, u)
    BY DEF Failure, Campaign
  <2>5. DOMAIN legs'[t] = {}
    BY <2>2 DEF LegsPlaced
  <2>6. Due(t)' = {} /\ Lost(t)' = {}
    BY <2>2, <2>4, <2>5 DEF Due, Lost, Going
  <2>7. Account(t)' = new /\ Cardinality({}) = 0
    BY <2>2, FS_EmptySet DEF Account
  <2>8. Cardinality(Got(reached', new.content) \ ({} \cup {})) \in Nat
    <3>1. Got(reached', new.content) \ ({} \cup {}) \subseteq Users
      BY DEF Got
    <3> QED
      BY <3>1, UsersFinite
  <2>9. Balanced(t)'
    <3> DEFINE n == Cardinality(Got(reached', new.content) \ ({} \cup {}))
    <3>1. n \in Nat /\ new.sent <= n
      BY <1>2, <2>8
    <3> HIDE DEF n
    <3> QED
      BY <1>1, <1>2, <1>4, <2>6, <2>7, <3>1 DEF Balanced, n
  <2>10. Owned(t)' /\ \A u \in Users : Failure(t, u) \notin wrote'[t]
    BY <2>2, <2>4 DEF Owned, Campaign
  <2> QED
    BY <1>4, <1>6, <2>2, <2>3, <2>9, <2>10 DEF Accounted, Opened
<1> QED
  BY <1>4, <1>7, <1>8

LEMMA AnnounceAccounted ==
    ASSUME AInv, TInv', LegsPlaced', NEW t \in Tasks, Alone(t), UNCHANGED deliveries,
           Announce(t)
    PROVE  Accounted(t)' /\ db' = db
<1>0. legs' = legs /\ reached' = reached /\ Shape /\ at[t] = "announce" /\ Accounted(t)
  BY DEF deliveries, AInv, SInv, TInv, CInv, Announce
<1>1. /\ SameTransaction(t) /\ job'[t] = job[t] /\ at'[t] \in {"recipients", "abort"}
  BY <1>0, PassDoes DEF Announce
<1>2. SameCells(t) /\ Growing
  BY <1>0, <1>1, NothingTaken DEF SameCells, AInv, SInv, SameTransaction
<1>3. Reported(t)'
  BY <1>2, ReportStays
<1>4. Balanced(t)
  BY <1>0 DEF Accounted
<1>5. Due(t)' = Due(t) /\ Lost(t)' = Lost(t) /\ Account(t)' = Account(t)
  BY <1>0, <1>1 DEF Due, Lost, Going, Account, SameTransaction
<1>6. Balanced(t)'
  BY <1>0, <1>1, <1>2, <1>4, <1>5, BalanceStays DEF AInv, SInv
<1> QED
  BY <1>0, <1>1, <1>3, <1>6 DEF Accounted, Owned, Opened, SameTransaction

(* What a step of an opened campaign has to see to.                        *)
LEMMA OnceBalanced ==
    ASSUME AInv, TInv', Growing, NEW t \in Tasks, SameCells(t), Opened(t), at'[t] # "create",
           NEW F, \A c \in F : \E u \in Users : c = Failure(t, u), wrote'[t] = wrote[t] \cup F,
           \A u \in Users : Failure(t, u) \in wrote'[t] => session'[t][Failure(t, u)] = TRUE,
           at'[t] # "abort" => Balanced(t)'
    PROVE  Accounted(t)'
<1>1. Accounted(t)
  BY DEF AInv
<1>2. Reported(t)'
  BY ReportStays
<1>3. Owned(t)'
  <2>1. \A c \in F : c[1] = "failure"
    BY DEF Failure
  <2> QED
    BY <1>1, <2>1 DEF Accounted, Owned
<1>4. Opened(t)' /\ Of(db', Campaign(t)) = None
  BY <1>1 DEF Opened, Accounted, SameCells
<1> QED
  BY <1>2, <1>3, <1>4 DEF Accounted

LEMMA CountedIs ==
    ASSUME Shape, NEW t \in Tasks, NEW count, Counted(t, count)
    PROVE  /\ session'[t][Campaign(t)] = count
           /\ \A c \in DOMAIN session[t] \ {Campaign(t)} : session'[t][c] = session[t][c]
<1> DEFINE new == Campaign(t) :> count
<1>1. session'[t] = new @@ session[t]
  BY DEF Counted, Shape
<1>2. DOMAIN new = {Campaign(t)} /\ new[Campaign(t)] = count
  BY CellValue
<1> HIDE DEF new
<1> QED
  BY <1>1, <1>2 DEF @@

LEMMA FailuresStay ==
    ASSUME AInv, NEW t \in Tasks, NEW count, Counted(t, count)
    PROVE  \A u \in Users : Failure(t, u) \in wrote[t] => session'[t][Failure(t, u)] = TRUE
<1>1. Shape /\ wrote[t] \subseteq DOMAIN session[t] /\ Accounted(t)
  BY DEF AInv, SInv, TInv, CInv, Typed
<1>2. \A u : Failure(t, u) # Campaign(t)
  BY DEF Failure, Campaign
<1> QED
  BY <1>1, <1>2, CountedIs DEF Accounted

LEMMA ListAccounted ==
    ASSUME AInv, TInv', LegsPlaced', NEW t \in Tasks, Alone(t), UNCHANGED deliveries,
           ListRecipients(t)
    PROVE  Accounted(t)' /\ db' = db
<1>0. legs' = legs /\ reached' = reached /\ Shape /\ at[t] = "recipients" /\ Accounted(t)
  BY DEF deliveries, AInv, SInv, TInv, CInv, ListRecipients
<1> DEFINE recipients == {u \in Users : /\ Of(db, <<"user", u>>) # None
                                         /\ ~ Of(db, <<"banned", u>>)}
           total == Cardinality(recipients)
           count == [session[t][Campaign(t)] EXCEPT !.total = total]
<1>1. /\ job'[t].todo = recipients /\ job'[t].value = job[t].value
      /\ Counted(t, count) /\ at'[t] = "batch" /\ db' = db /\ wrote'[t] = wrote[t]
  BY <1>0 DEF ListRecipients, Goto, Shape, JobFields
<1>2. total \in Nat /\ recipients \subseteq Users
  BY UsersFinite
<1> HIDE DEF recipients, total
<1>3. Balanced(t) /\ Opened(t) /\ DOMAIN legs[t] = {}
  BY <1>0 DEF Accounted, AInv, SInv, LegsPlaced
<1>4. Due(t) = {} /\ Due(t)' = recipients
  BY <1>0, <1>1, <1>3 DEF Due, Going
<1>5. Lost(t)' = Lost(t)
  BY <1>0, <1>1 DEF Lost, Going
<1> DEFINE a == Account(t)
<1>6. /\ a \in Accounts /\ a.total = a.sent + a.failed + Cardinality({})
      /\ a.failed = Cardinality(Lost(t)) /\ a.total = 0 /\ a.content = job[t].value
  BY <1>0, <1>3, <1>4 DEF Balanced
<1>7. Lost(t) \subseteq Users
  BY InUsers DEF AInv, SInv
<1>8. a.sent = 0 /\ a.failed = 0 /\ Lost(t) = {}
  <2>1. a.sent \in Nat /\ a.failed \in Nat
    BY <1>6 DEF Accounts
  <2>2. a.sent = 0 /\ a.failed = 0
    BY <1>6, <2>1, FS_EmptySet
  <2> QED
    BY <1>6, <1>7, <2>2, UsersFinite, FS_EmptySet
<1>9. /\ count \in Accounts /\ count.total = total /\ count.sent = 0 /\ count.failed = 0
      /\ count.content = job[t].value
  BY <1>2, <1>6, <1>8 DEF Accounts, Account
<1>10. Account(t)' = count
  BY <1>0, <1>1, CountedIs DEF Account
<1> HIDE DEF count, a
<1> DEFINE n == Cardinality(Got(reached', count.content) \ (recipients \cup {}))
<1>11. n \in Nat /\ count.sent <= n
  <2>1. Got(reached', count.content) \ (recipients \cup {}) \subseteq Users
    BY DEF Got
  <2> QED
    BY <1>9, <2>1, UsersFinite
<1> HIDE DEF n
<1>12. Balanced(t)'
  <2>1. count.total = count.sent + count.failed + Cardinality(recipients)
    BY <1>2, <1>9 DEF total
  <2>2. count.failed = Cardinality({})
    BY <1>9, FS_EmptySet
  <2> QED
    BY <1>1, <1>4, <1>5, <1>8, <1>9, <1>10, <1>11, <2>1, <2>2 DEF Balanced, n, Got
<1>13. SameCells(t) /\ Growing
  BY <1>0, <1>1, NothingTaken DEF SameCells, AInv, SInv
<1>14. \A u \in Users : Failure(t, u) \in wrote'[t] => session'[t][Failure(t, u)] = TRUE
  BY <1>1, FailuresStay
<1> DEFINE F == {}
<1>15. wrote'[t] = wrote[t] \cup F /\ \A c \in F : \E u \in Users : c = Failure(t, u)
  BY <1>1
<1> QED
  BY <1>1, <1>3, <1>12, <1>13, <1>14, <1>15, OnceBalanced

LEMMA BatchAccounted ==
    ASSUME AInv, TInv', LegsPlaced', NEW t \in Tasks, Alone(t), StartBatch(t) \/ Finish(t)
    PROVE  Accounted(t)' /\ db' = db /\ reached' = reached /\ LegsAlone(t)
<1>0. Shape /\ LegsOK /\ at[t] = "batch" /\ Landed(t) /\ reached' = reached /\ Accounted(t)
  BY DEF AInv, SInv, TInv, CInv, StartBatch, Finish, BatchIsOver
<1>1. Balanced(t) /\ Opened(t)
  BY <1>0 DEF Accounted
<1>2. Going(t, {"sending"}) = {} /\ Going(t, {"failing", "flushing"}) = {}
  BY <1>0 DEF Landed, Going
<1> DEFINE failed == {u \in Users : Failure(t, u) \in wrote[t]}
<1>3. Due(t) = job[t].todo /\ Lost(t) = failed
  BY <1>0, <1>2 DEF Due, Lost
<1>4. /\ SameTransaction(t) /\ LegsAlone(t)
      /\ Due(t)' = Due(t) /\ Going(t, {"failing", "flushing"})' = {}
      /\ \/ at'[t] = "batch" /\ job'[t].value = job[t].value
         \/ at'[t] = "log"
  <2>1. CASE StartBatch(t)
    <3> DEFINE sending == [step |-> "sending", left |-> Attempts]
    <3>1. PICK next \in SUBSET job[t].todo :
             /\ legs' = [legs EXCEPT ![t] = [u \in next |-> sending]]
             /\ Learn(t, [job[t] EXCEPT !.todo = @ \ next], "batch")
      BY <2>1 DEF StartBatch, kSubset
    <3>2. /\ at'[t] = "batch" /\ job'[t].todo = job[t].todo \ next
          /\ job'[t].value = job[t].value /\ SameTransaction(t)
      BY <1>0, <3>1 DEF Learn, Goto, Shape, JobFields, SameTransaction
    <3>3. LegsAlone(t) /\ DOMAIN legs'[t] = next /\ \A u \in next : legs'[t][u].step = "sending"
      BY <1>0, <3>1 DEF LegsAlone, LegsOK
    <3>4. Going(t, {"sending"})' = next /\ Going(t, {"failing", "flushing"})' = {}
      BY <3>3 DEF Going
    <3> QED
      BY <1>3, <3>2, <3>3, <3>4 DEF Due
  <2>2. CASE Finish(t)
    <3>1. at'[t] = "log" /\ SameTransaction(t)
      BY <1>0, <2>2, PassDoes DEF Finish
    <3>2. LegsAlone(t) /\ DOMAIN legs'[t] = {}
      BY <1>0, <2>2 DEF Finish, LegsAlone, LegsOK
    <3>3. Due(t)' = {} /\ Going(t, {"failing", "flushing"})' = {}
      BY <3>1, <3>2 DEF Due, Going
    <3> QED
      BY <1>3, <2>2, <3>1, <3>2, <3>3 DEF Finish
  <2> QED
    BY <2>1, <2>2
<1>5. Lost(t)' = Lost(t) /\ Account(t)' = Account(t)
  BY <1>3, <1>4 DEF Lost, Account, SameTransaction
<1>6. SameCells(t) /\ Growing
  BY <1>0, <1>4, NothingTaken DEF SameCells, AInv, SInv, SameTransaction
<1>7. Balanced(t)'
  BY <1>0, <1>1, <1>4, <1>5, <1>6, BalanceStays DEF AInv, SInv
<1>8. \A u \in Users : Failure(t, u) \in wrote'[t] => session'[t][Failure(t, u)] = TRUE
  BY <1>0, <1>4 DEF SameTransaction, Accounted
<1> DEFINE F == {}
<1>9. wrote'[t] = wrote[t] \cup F /\ \A c \in F : \E u \in Users : c = Failure(t, u)
  BY <1>4 DEF SameTransaction
<1>10. Accounted(t)'
  BY <1>1, <1>4, <1>6, <1>7, <1>8, <1>9, OnceBalanced
<1> QED
  BY <1>0, <1>4, <1>10 DEF SameTransaction

(* A delivery that goes on to another step.                                *)
LEMMA GoingMoves ==
    ASSUME LegsOK, NEW t \in Tasks, NEW u \in DOMAIN legs[t], NEW step, Leg(t, u, step),
           NEW steps
    PROVE  Going(t, steps)' = IF step \in steps THEN Going(t, steps) \cup {u}
                              ELSE Going(t, steps) \ {u}
<1>1. /\ DOMAIN legs'[t] = DOMAIN legs[t] /\ legs'[t][u].step = step
      /\ \A o \in DOMAIN legs[t] \ {u} : legs'[t][o] = legs[t][o]
  BY DEF Leg, LegsOK
<1> QED
  BY <1>1 DEF Going

LEMMA DeliveryFrame ==
    ASSUME AInv, TInv', NEW t \in Tasks, NEW u \in DOMAIN legs[t], DeliveryStep(t, u)
    PROVE  /\ db' = db /\ Growing
           /\ at[t] # "batch" => SameTransaction(t) /\ at'[t] = at[t]
<1>0. Shape /\ LegsOK
  BY DEF AInv, SInv, TInv, CInv
<1>1. db' = db /\ (at[t] # "batch" => SameTransaction(t))
  <2>1. CASE Deliver(t, u) \/ FailToDeliver(t, u) \/ WaitForFlood(t, u)
    BY <2>1 DEF Deliver, FailToDeliver, WaitForFlood, Count, core, SameTransaction
  <2>2. CASE NoteFailure(t, u)
    <3>1. Pass(t, "abort") \/ UNCHANGED core
      BY <2>2 DEF NoteFailure
    <3> QED
      BY <1>0, <3>1, PassDoes DEF core, SameTransaction
  <2>3. CASE FailureNoted(t, u)
    <3>1. \/ at[t] = "batch" /\ \E values : Add(t, values, {}, "batch")
          \/ UNCHANGED core
      BY <2>3 DEF FailureNoted
    <3> QED
      BY <1>0, <3>1, AddDoes DEF core, SameTransaction
  <2> QED
    BY <2>1, <2>2, <2>3 DEF DeliveryStep
<1>2. Growing
  <2>1. reached' = reached \/ Reach(t, u)
    BY DEF DeliveryStep, Deliver, FailToDeliver, WaitForFlood, NoteFailure, FailureNoted
  <2>2. reached \in [Contents \X Users -> Nat]
    BY DEF AInv, SInv, TInv
  <2> QED
    BY <2>1, <2>2 DEF Reach, Growing
<1>3. at[t] # "batch" => at'[t] = at[t]
  BY DeliveryMoves DEF AInv, SInv
<1> QED
  BY <1>1, <1>2, <1>3

(* One that comes too late changes no account.                             *)
LEMMA LateAccounted ==
    ASSUME AInv, TInv', NEW t \in Tasks, NEW u \in DOMAIN legs[t], DeliveryStep(t, u),
           at[t] # "batch"
    PROVE  Accounted(t)'
<1>1. db' = db /\ Growing /\ SameTransaction(t) /\ at'[t] = at[t]
  BY DeliveryFrame
<1>2. Accounted(t) /\ at[t] \in {"abort", "failed"} /\ Located(t)
  BY DEF AInv, SInv, LegsPlaced, TInv, CInv
<1>3. Reported(t)'
  BY <1>1, ReportStays DEF SameCells
<1>4. at[t] = "failed" => wrote[t] = {}
  BY <1>2 DEF Located, NoSession, Ended
<1>5. Owned(t)' /\ (Opened(t)' <=> Opened(t))
  BY <1>1, <1>2 DEF Accounted, Owned, Opened, SameTransaction
<1> QED
  BY <1>1, <1>2, <1>3, <1>4, <1>5 DEF Accounted, Opened, SameTransaction

LEMMA DeliverAccounted ==
    ASSUME AInv, TInv', NEW t \in Tasks, NEW u \in DOMAIN legs[t], Deliver(t, u), at[t] = "batch"
    PROVE  Accounted(t)'
<1>0. /\ Shape /\ LegsOK /\ u \in Users /\ db' = db /\ Growing
      /\ at' = at /\ job' = job /\ wrote' = wrote
  BY DeliveryFrame DEF AInv, SInv, TInv, CInv, LegsOK, DeliveryStep, Deliver
<1>1. Accounted(t) /\ Opened(t) /\ Balanced(t)
  BY DEF AInv, Accounted
<1> DEFINE a == Account(t)
           count == [a EXCEPT !.sent = @ + 1]
           x == job[t].value
           D == Due(t)
           L == Lost(t)
<1>2. /\ a \in Accounts /\ a.total = a.sent + a.failed + Cardinality(D)
      /\ a.failed = Cardinality(L) /\ a.sent <= Cardinality(Got(reached, x) \ (D \cup L))
      /\ D \cap L = {} /\ a.content = x
  BY <1>1 DEF Balanced
<1>3. D \subseteq Users /\ L \subseteq Users /\ x \in Contents
  BY <1>2, InUsers DEF AInv, SInv, Accounts
<1>4. u \in D /\ u \notin job[t].todo
  BY DEF Deliver, Sending, LegIs, Due, Going, AInv, SInv, LegsPlaced
<1>5. Due(t)' = D \ {u} /\ Lost(t)' = L
  <2>1. legs[t][u].step = "sending" /\ Leg(t, u, "sent")
    BY DEF Deliver, Sending, LegIs
  <2>2. /\ Going(t, {"sending"})' = Going(t, {"sending"}) \ {u}
        /\ Going(t, {"failing", "flushing"})' = Going(t, {"failing", "flushing"}) \ {u}
    BY <1>0, <2>1, GoingMoves
  <2>3. u \notin Going(t, {"failing", "flushing"})
    BY <2>1 DEF Going
  <2> QED
    BY <1>0, <1>4, <2>2, <2>3 DEF Due, Lost
<1>6. Counted(t, count)
  BY DEF Deliver, Count, Account
<1>7. /\ count \in Accounts /\ count.total = a.total /\ count.sent = a.sent + 1
      /\ count.failed = a.failed /\ count.content = x
  BY <1>2 DEF Accounts
<1> HIDE DEF count, D, L, x
<1>8. Account(t)' = count
  BY <1>0, <1>6, CountedIs DEF Account
<1> DEFINE G == Got(reached, x) \ (D \cup L)
           H == Got(reached', x) \ ((D \ {u}) \cup L)
<1>9. G \cup {u} \subseteq H /\ H \subseteq Users /\ u \notin G /\ G \subseteq Users
  <2>1. u \in Got(reached', x)
    <3>1. reached' = [reached EXCEPT ![<<x, u>>] = @ + 1]
      BY DEF Deliver, Reach, x
    <3>2. reached \in [Contents \X Users -> Nat]
      BY DEF AInv, SInv, TInv
    <3>3. reached[<<x, u>>] \in Nat /\ reached'[<<x, u>>] = reached[<<x, u>>] + 1
      BY <1>0, <1>3, <3>1, <3>2
    <3>4. reached'[<<x, u>>] > 0
      BY <3>3
    <3> QED
      BY <1>0, <3>4 DEF Got
  <2>2. u \notin L
    BY <1>2, <1>4
  <2>3. Got(reached, x) \subseteq Got(reached', x) /\ Got(reached', x) \subseteq Users
    BY <1>0, <1>3, GotGrows DEF AInv, SInv, Got
  <2> QED
    BY <1>4, <2>1, <2>2, <2>3
<1>10. a.sent + 1 <= Cardinality(H)
  <2> HIDE DEF G, H
  <2>1. G \cup {u} \subseteq Users /\ Cardinality(G \cup {u}) = Cardinality(G) + 1
    BY <1>0, <1>9, OneMore
  <2>2. Cardinality(G \cup {u}) <= Cardinality(H) /\ Cardinality(H) \in Nat
    BY <1>9, <2>1, MoreUsers, UsersFinite
  <2>3. Cardinality(G) \in Nat /\ a.sent \in Nat /\ a.sent <= Cardinality(G)
    BY <1>2, <1>9, UsersFinite DEF Accounts, G
  <2> QED
    BY <2>1, <2>2, <2>3
<1>11. a.total = (a.sent + 1) + a.failed + Cardinality(D \ {u})
  <2>1. Cardinality(D \ {u}) = Cardinality(D) - 1 /\ Cardinality(D) \in Nat
    BY <1>0, <1>3, <1>4, OneMore, UsersFinite
  <2>2. a.sent \in Nat /\ a.failed \in Nat /\ a.total \in Nat
    BY <1>2 DEF Accounts
  <2> QED
    BY <1>2, <2>1, <2>2
<1>12. Balanced(t)'
  <2>1. (D \ {u}) \cap L = {}
    BY <1>2
  <2>2. count.total = count.sent + count.failed + Cardinality(D \ {u})
    BY <1>7, <1>11
  <2>3. count.sent <= Cardinality(Got(reached', count.content) \ ((D \ {u}) \cup L))
    BY <1>7, <1>10
  <2> HIDE DEF a
  <2> QED
    BY <1>0, <1>2, <1>5, <1>7, <1>8, <2>1, <2>2, <2>3 DEF Balanced, x, Got
<1>13. \A v \in Users : Failure(t, v) \in wrote'[t] => session'[t][Failure(t, v)] = TRUE
  BY <1>0, <1>6, FailuresStay
<1>14. SameCells(t)
  BY <1>0 DEF SameCells
<1> DEFINE F == {}
<1>15. wrote'[t] = wrote[t] \cup F /\ \A c \in F : \E v \in Users : c = Failure(t, v)
  BY <1>0
<1>16. at'[t] = "batch" /\ Growing
  BY <1>0
<1> HIDE DEF F
<1> QED
  BY <1>1, <1>12, <1>13, <1>14, <1>15, <1>16, OnceBalanced

LEMMA GiveUpAccounted ==
    ASSUME AInv, TInv', NEW t \in Tasks, NEW u \in DOMAIN legs[t], FailToDeliver(t, u),
           at[t] = "batch"
    PROVE  Accounted(t)'
<1>0. /\ Shape /\ LegsOK /\ u \in Users /\ db' = db /\ Growing
      /\ at' = at /\ job' = job /\ wrote' = wrote
  BY DeliveryFrame DEF AInv, SInv, TInv, CInv, LegsOK, DeliveryStep, FailToDeliver
<1>1. Accounted(t) /\ Opened(t) /\ Balanced(t)
  BY DEF AInv, Accounted
<1> DEFINE a == Account(t)
           count == [a EXCEPT !.failed = @ + 1]
           x == job[t].value
           D == Due(t)
           L == Lost(t)
<1>2. /\ a \in Accounts /\ a.total = a.sent + a.failed + Cardinality(D)
      /\ a.failed = Cardinality(L) /\ a.sent <= Cardinality(Got(reached, x) \ (D \cup L))
      /\ D \cap L = {} /\ a.content = x
  BY <1>1 DEF Balanced
<1>3. D \subseteq Users /\ L \subseteq Users /\ x \in Contents
  BY <1>2, InUsers DEF AInv, SInv, Accounts
<1>4. u \in D /\ u \notin job[t].todo
  BY DEF FailToDeliver, Sending, LegIs, Due, Going, AInv, SInv, LegsPlaced
<1>5. Due(t)' = D \ {u} /\ Lost(t)' = L \cup {u}
  <2>1. legs[t][u].step = "sending" /\ Leg(t, u, "failing")
    BY DEF FailToDeliver, Sending, LegIs
  <2>2. /\ Going(t, {"sending"})' = Going(t, {"sending"}) \ {u}
        /\ Going(t, {"failing", "flushing"})' = Going(t, {"failing", "flushing"}) \cup {u}
    BY <1>0, <2>1, GoingMoves
  <2> QED
    BY <1>0, <1>4, <2>2 DEF Due, Lost
<1>6. Counted(t, count)
  BY DEF FailToDeliver, Count, Account
<1>7. /\ count \in Accounts /\ count.total = a.total /\ count.sent = a.sent
      /\ count.failed = a.failed + 1 /\ count.content = x
  BY <1>2 DEF Accounts
<1> HIDE DEF count, D, L, x
<1>8. Account(t)' = count
  BY <1>0, <1>6, CountedIs DEF Account
<1>9. Cardinality(L \cup {u}) = Cardinality(L) + 1
  BY <1>0, <1>2, <1>3, <1>4, OneMore
<1> DEFINE G == Got(reached, x) \ (D \cup L)
           H == Got(reached', x) \ ((D \ {u}) \cup (L \cup {u}))
<1>10. a.sent <= Cardinality(H)
  <2>1. Got(reached, x) \subseteq Got(reached', x) /\ Got(reached', x) \subseteq Users
    BY <1>0, <1>3, GotGrows DEF AInv, SInv, Got
  <2>2. G \subseteq H /\ H \subseteq Users /\ a.sent <= Cardinality(G)
    BY <1>2, <1>4, <2>1
  <2> HIDE DEF G, H
  <2>3. Cardinality(G) <= Cardinality(H) /\ Cardinality(G) \in Nat /\ Cardinality(H) \in Nat
    BY <2>2, MoreUsers, UsersFinite
  <2>4. a.sent \in Nat
    BY <1>2 DEF Accounts
  <2> QED
    BY <2>2, <2>3, <2>4
<1>11. a.total = a.sent + (a.failed + 1) + Cardinality(D \ {u})
  <2>1. Cardinality(D \ {u}) = Cardinality(D) - 1 /\ Cardinality(D) \in Nat
    BY <1>0, <1>3, <1>4, OneMore, UsersFinite
  <2>2. a.sent \in Nat /\ a.failed \in Nat /\ a.total \in Nat
    BY <1>2 DEF Accounts
  <2> QED
    BY <1>2, <2>1, <2>2
<1>12. Balanced(t)'
  <2>1. (D \ {u}) \cap (L \cup {u}) = {}
    BY <1>2
  <2>2. /\ count.total = count.sent + count.failed + Cardinality(D \ {u})
        /\ count.failed = Cardinality(L \cup {u})
    BY <1>2, <1>7, <1>9, <1>11
  <2>3. count.sent <= Cardinality(Got(reached', count.content) \ ((D \ {u}) \cup (L \cup {u})))
    BY <1>7, <1>10
  <2> HIDE DEF a
  <2> QED
    BY <1>0, <1>5, <1>7, <1>8, <2>1, <2>2, <2>3 DEF Balanced, x, Got
<1>13. \A v \in Users : Failure(t, v) \in wrote'[t] => session'[t][Failure(t, v)] = TRUE
  BY <1>0, <1>6, FailuresStay
<1>14. SameCells(t)
  BY <1>0 DEF SameCells
<1> DEFINE F == {}
<1>15. wrote'[t] = wrote[t] \cup F /\ \A c \in F : \E v \in Users : c = Failure(t, v)
  BY <1>0
<1>16. at'[t] = "batch" /\ Growing
  BY <1>0
<1> HIDE DEF F
<1> QED
  BY <1>1, <1>12, <1>13, <1>14, <1>15, <1>16, OnceBalanced

(* A delivery that waits, and one whose failure is written down.           *)
LEMMA NoteAccounted ==
    ASSUME AInv, TInv', NEW t \in Tasks, NEW u \in DOMAIN legs[t],
           WaitForFlood(t, u) \/ NoteFailure(t, u) \/ FailureNoted(t, u), at[t] = "batch"
    PROVE  Accounted(t)'
<1>0. Shape /\ LegsOK /\ u \in Users /\ db' = db /\ Growing /\ job'[t] = job[t]
  BY DeliveryFrame, DeliveryMoves DEF AInv, SInv, TInv, CInv, LegsOK, DeliveryStep
<1>1. Accounted(t) /\ Opened(t) /\ Balanced(t)
  BY DEF AInv, Accounted
<1>2. SameCells(t) /\ Growing
  BY <1>0 DEF SameCells
<1>3. ASSUME SameTransaction(t), at'[t] = "abort" \/ (at'[t] = "batch" /\ Balanced(t)')
      PROVE  Accounted(t)'
  <2> DEFINE F == {}
  <2>1. wrote'[t] = wrote[t] \cup F /\ \A c \in F : \E v \in Users : c = Failure(t, v)
    BY <1>3 DEF SameTransaction
  <2>2. \A v \in Users : Failure(t, v) \in wrote'[t] => session'[t][Failure(t, v)] = TRUE
    BY <1>1, <1>3 DEF Accounted, SameTransaction
  <2>3. at'[t] # "create" /\ (at'[t] # "abort" => Balanced(t)')
    BY <1>3
  <2> HIDE DEF F
  <2> QED
    BY <1>1, <1>2, <2>1, <2>2, <2>3, OnceBalanced
<1>4. ASSUME Account(t)' = Account(t), Due(t)' = Due(t), Lost(t)' = Lost(t), at'[t] = "batch"
      PROVE  Balanced(t)'
  BY <1>0, <1>1, <1>4, BalanceStays DEF AInv, SInv
<1>5. CASE WaitForFlood(t, u)
  <2>1. UNCHANGED core /\ legs[t][u].step = "sending"
    BY <1>5 DEF WaitForFlood, Sending, LegIs
  <2>2. /\ DOMAIN legs'[t] = DOMAIN legs[t]
        /\ \A v \in DOMAIN legs[t] : legs'[t][v].step = legs[t][v].step
    BY <1>0, <1>5 DEF WaitForFlood, LegsOK, LegFields
  <2>3. \A steps : Going(t, steps)' = Going(t, steps)
    BY <2>2 DEF Going
  <2>4. SameTransaction(t) /\ at'[t] = "batch"
    BY <2>1 DEF core, SameTransaction
  <2>5. Due(t)' = Due(t) /\ Lost(t)' = Lost(t) /\ Account(t)' = Account(t)
    BY <1>0, <2>3, <2>4 DEF Due, Lost, Account, SameTransaction
  <2> QED
    BY <1>3, <1>4, <2>4, <2>5
<1>6. CASE NoteFailure(t, u)
  <2>1. CASE Pass(t, "abort")
    BY <1>0, <1>3, <2>1, PassDoes
  <2>2. CASE UNCHANGED core /\ Leg(t, u, "flushing")
    <3>1. SameTransaction(t) /\ at'[t] = "batch" /\ legs[t][u].step = "failing"
      BY <1>6, <2>2 DEF core, SameTransaction, NoteFailure, LegIs
    <3>2. /\ Going(t, {"sending"})' = Going(t, {"sending"}) \ {u}
          /\ Going(t, {"failing", "flushing"})' = Going(t, {"failing", "flushing"}) \cup {u}
      BY <1>0, <2>2, GoingMoves
    <3>3. u \notin Going(t, {"sending"}) /\ u \in Going(t, {"failing", "flushing"})
      BY <3>1 DEF Going
    <3>4. Due(t)' = Due(t) /\ Lost(t)' = Lost(t) /\ Account(t)' = Account(t)
      BY <1>0, <3>1, <3>2, <3>3 DEF Due, Lost, Account, SameTransaction
    <3> QED
      BY <1>3, <1>4, <3>1, <3>4
  <2> QED
    BY <1>6, <2>1, <2>2 DEF NoteFailure
<1>7. CASE FailureNoted(t, u)
  <2> DEFINE cell == Failure(t, u)
  <2>1. Leg(t, u, "failed") /\ legs[t][u].step = "flushing" /\ Add(t, cell :> TRUE, {}, "batch")
    BY <1>7 DEF FailureNoted, LegIs, Failure
  <2>2. \/ SameTransaction(t) /\ at'[t] = "abort"
        \/ Flush(t, cell :> TRUE, "batch")
    BY <1>0, <2>1, AddDoes
  <2>3. CASE Flush(t, cell :> TRUE, "batch")
    <3> DEFINE new == cell :> TRUE
    <3>1. DOMAIN new = {cell} /\ new[cell] = TRUE /\ Flush(t, new, "batch")
      BY <2>3 DEF :>
    <3> HIDE DEF new, cell
    <3>2. /\ at'[t] = "batch" /\ wrote'[t] = wrote[t] \cup {cell} /\ session'[t][cell] = TRUE
          /\ \A c \in DOMAIN session[t] \ {cell} : session'[t][c] = session[t][c]
      BY <1>0, <3>1, FlushDoes
    <3> USE DEF cell
    <3>3. wrote[t] \subseteq DOMAIN session[t]
      BY DEF AInv, SInv, TInv, CInv, Typed
    <3>4. Account(t)' = Account(t)
      BY <1>1, <3>2, <3>3 DEF Account, Opened, Campaign, Failure
    <3>5. /\ Going(t, {"sending"})' = Going(t, {"sending"}) \ {u}
          /\ Going(t, {"failing", "flushing"})' = Going(t, {"failing", "flushing"}) \ {u}
      BY <1>0, <2>1, GoingMoves
    <3>6. u \notin Going(t, {"sending"}) /\ u \in Going(t, {"failing", "flushing"})
      BY <2>1 DEF Going
    <3>7. \A v \in Users : Failure(t, v) \in wrote'[t] <=> Failure(t, v) \in wrote[t] \/ v = u
      BY <3>2 DEF Failure
    <3>8. Due(t)' = Due(t) /\ Lost(t)' = Lost(t)
      BY <1>0, <3>2, <3>5, <3>6, <3>7 DEF Due, Lost
    <3>9. Balanced(t)'
      BY <1>4, <3>2, <3>4, <3>8
    <3>10. \A v \in Users : Failure(t, v) \in wrote'[t] => session'[t][Failure(t, v)] = TRUE
      BY <1>1, <3>2, <3>3 DEF Accounted
    <3> DEFINE F == {cell}
    <3>11. wrote'[t] = wrote[t] \cup F /\ \A c \in F : \E v \in Users : c = Failure(t, v)
      BY <1>0, <3>2
    <3> HIDE DEF cell, F
    <3> QED
      BY <1>1, <1>2, <3>2, <3>9, <3>10, <3>11, OnceBalanced
  <2> QED
    BY <1>3, <2>2, <2>3
<1> QED
  BY <1>5, <1>6, <1>7

LEMMA DeliveryAccounted ==
    ASSUME AInv, TInv', NEW t \in Tasks, NEW u \in DOMAIN legs[t], DeliveryStep(t, u)
    PROVE  Accounted(t)'
BY LateAccounted, DeliverAccounted, GiveUpAccounted, NoteAccounted DEF DeliveryStep

LEMMA CampaignAccounted ==
    ASSUME AInv, TInv', LegsPlaced', NEW t \in Tasks, Alone(t), CampaignStep(t)
    PROVE  \A o \in Tasks : Accounted(o)'
<1>1. Accounted(t)' /\ db' = db /\ Growing /\ LegsAlone(t)
  <2>1. CASE (CreateCampaign(t) \/ Announce(t) \/ ListRecipients(t)) /\ UNCHANGED deliveries
    <3>1. legs' = legs /\ reached' = reached
      BY <2>1 DEF deliveries
    <3>2. Growing /\ LegsAlone(t)
      BY <3>1, NothingTaken DEF AInv, SInv, LegsAlone
    <3>3. CASE CreateCampaign(t)
      <4>1. \E values : Add(t, values, {}, "announce")
        BY <3>3 DEF CreateCampaign
      <4>2. db' = db
        BY <4>1, AddDoes DEF AInv, SInv, TInv, CInv
      <4> QED
        BY <2>1, <3>2, <3>3, <4>2, CreateAccounted
    <3> QED
      BY <2>1, <3>2, <3>3, AnnounceAccounted, ListAccounted
  <2>2. CASE StartBatch(t) \/ Finish(t)
    BY <2>2, BatchAccounted, NothingTaken DEF AInv, SInv
  <2>3. ASSUME NEW u \in DOMAIN legs[t], DeliveryStep(t, u)
        PROVE  Accounted(t)' /\ db' = db /\ Growing /\ LegsAlone(t)
    BY <2>3, DeliveryAccounted, DeliveryFrame, DeliveryMoves DEF AInv, SInv
  <2> QED
    BY <2>1, <2>2, <2>3 DEF CampaignStep
<1>2. \A o \in Tasks : SameCells(o)
  BY <1>1 DEF SameCells
<1> QED
  BY <1>1, <1>2, OthersAccounted

LEMMA ComposeAccounted ==
    ASSUME AInv, TInv', LegsPlaced', NEW t \in Tasks, Alone(t), ComposeStep(t)
    PROVE  \A o \in Tasks : Accounted(o)'
<1>0. Shape /\ fsm \in Conversations /\ Located(t) /\ CInv
  BY DEF AInv, SInv, TInv, CInv
<1>1. at[t] = "route" /\ UNCHANGED deliveries
  BY DEF ComposeStep, Compose, ReceiveContent, ReceiveButtons, CancelSend, ConfirmSend, Talk
<1>2. Touches(t, Columns(at[t]))
  BY <1>0, StepsTouch
<1>3. /\ db' = db
      /\ \/ at'[t] \in {"reply", "abort"}
         \/ at'[t] = "create" /\ wrote'[t] = {} /\ job'[t].value \in Contents
  <2>1. CASE \E c : Converse(t, c, "reply")
    <3>1. PICK c : Converse(t, c, "reply")
      BY <2>1
    <3> QED
      BY <1>0, <3>1, WaysMove
  <2>2. CASE ConfirmSend(t)
    <3>1. /\ job'[t] = [job[t] EXCEPT !.value = fsm.content] /\ wrote' = wrote /\ db' = db
          /\ at'[t] = IF fsm.content = None THEN "abort" ELSE "create"
      BY <1>0, <2>2 DEF ConfirmSend, Goto, Shape
    <3>2. job'[t].value = fsm.content
      BY <1>0, <3>1 DEF Shape, JobFields
    <3>3. wrote[t] = {}
      BY <1>0, <1>1 DEF Located, NoSession
    <3>4. fsm.content \in Contents \cup {None}
      BY <1>0 DEF Conversations, Contents
    <3> QED
      BY <3>1, <3>2, <3>3, <3>4
  <2> QED
    BY <2>1, <2>2 DEF ComposeStep, Compose, ReceiveContent, ReceiveButtons, CancelSend
<1> QED
  BY <1>1, <1>2, <1>3, ApartAccounted

-----------------------------------------------------------------------------
LEMMA StepAccounted ==
    ASSUME SInv', AInv, NEW t \in Tasks, Step(t)
    PROVE  \A o \in Tasks : Accounted(o)'
<1>0. CInv /\ LegsOK /\ Shape /\ TInv' /\ LegsPlaced'
  BY DEF AInv, SInv, TInv, CInv
<1>1. Alone(t)
  BY StepFine DEF AInv, Good
<1>2. CASE /\ \/ Receive(t) \/ Ignore(t) \/ Throttle(t) \/ Log(t) \/ Reply(t)
              \/ SubscriptionsStep(t) \/ RegistrationStep(t) \/ PanelStep(t)
           /\ UNCHANGED campaigns
  <2>1. Ordinary(t) /\ Touches(t, Columns(at[t]))
    BY <1>0, <1>2, OrdinarySteps, StepsTouch
  <2>2. /\ db' = db /\ at[t] \notin {"announce", "recipients", "batch", "abort"}
        /\ at'[t] \notin {"create", "announce", "recipients", "batch"}
        /\ UNCHANGED deliveries
    BY <1>2, <2>1 DEF Ordinary, CampaignSteps, campaigns
  <2> QED
    BY <1>0, <1>1, <2>1, <2>2, ApartAccounted
<1>3. CASE LockTimeout(t) /\ UNCHANGED campaigns
  <2>1. Touches(t, Columns(at[t]))
    BY <1>0, <1>3, StepsTouch
  <2>2. /\ db' = db /\ at[t] \in Writing /\ at'[t] = "abort" /\ UNCHANGED deliveries
    BY <1>0, <1>3, PassDoes DEF LockTimeout, SameTransaction, campaigns
  <2> QED
    BY <1>0, <1>1, <2>1, <2>2, ApartAccounted DEF Writing
<1>4. CASE (Commit(t) \/ Rollback(t)) /\ UNCHANGED campaigns
  BY <1>0, <1>1, <1>4, CommitAccounted, RollbackAccounted DEF campaigns
<1>5. CASE ComposeStep(t)
  BY <1>0, <1>1, <1>5, ComposeAccounted
<1>6. CASE CampaignStep(t)
  BY <1>0, <1>1, <1>6, CampaignAccounted
<1>7. CASE BackupsStep(t) /\ UNCHANGED campaigns
  <2>1. Touches(t, Columns(at[t]))
    BY <1>0, <1>7, StepsTouch
  <2>2. /\ at[t] \in {"route", "copying", "prune"}
        /\ \E l, s : Learn(t, l, s) /\ s \in {"copying", "prune", "reply", "done"}
    BY <1>7 DEF BackupsStep, BeginCopy, EndCopy, Prune, NoFile, Copying, Pass
  <2>3. at'[t] \in {"copying", "prune", "reply", "done"} /\ db' = db
    BY <1>0, <2>2 DEF Learn, Goto, Shape
  <2>4. UNCHANGED deliveries
    BY <1>7 DEF campaigns
  <2> QED
    BY <1>0, <1>1, <2>1, <2>2, <2>3, <2>4, ApartAccounted
<1> QED
  BY <1>2, <1>3, <1>4, <1>5, <1>6, <1>7 DEF Step, CampaignsStep

LEMMA NextKeepsAccounts == AInv /\ [Next]_vars => AInv'
<1> SUFFICES ASSUME AInv, [Next]_vars PROVE AInv'
  OBVIOUS
<1>0. SInv' /\ TInv'
  BY NextKeepsBudget DEF AInv, SInv
<1>1. ASSUME NEW t \in Tasks, Turn(t) PROVE AInv'
  BY <1>0, <1>1, StepAccounted DEF Turn, AInv
<1>2. CASE Crash
  <2>1. reached' = reached /\ db' = db /\ wrote' = [t \in Tasks |-> {}]
    BY <1>2 DEF Crash, Kill
  <2>2. Growing /\ \A t \in Tasks : SameCells(t)
    BY <2>1, NothingTaken DEF AInv, SInv, SameCells
  <2>3. \A t \in Tasks : at'[t] \notin CampaignSteps
    <3> TAKE t \in Tasks
    <3>1. at'[t] \in {"idle", "failed"} \/ (at'[t] = at[t] /\ ~ Running(t))
      BY <1>2 DEF Crash, Kill
    <3> QED
      BY <3>1 DEF Running, Ended, CampaignSteps
  <2>4. ASSUME NEW t \in Tasks PROVE Accounted(t)'
    <3>1. Reported(t)'
      BY <1>0, <2>2, ReportStays
    <3>2. wrote'[t] = {}
      BY <2>1
    <3> QED
      BY <2>3, <3>1, <3>2 DEF Accounted, Owned, Opened, CampaignSteps
  <2> QED
    BY <1>0, <2>4 DEF AInv
<1>3. CASE Join \/ UNCHANGED vars
  <2>1. UNCHANGED <<core, campaigns>>
    BY <1>3 DEF Join, Move, vars
  <2>2. ASSUME NEW t \in Tasks PROVE Accounted(t)'
    <3>1. /\ at' = at /\ job' = job /\ legs' = legs /\ db' = db /\ session' = session
          /\ wrote' = wrote /\ reached' = reached
      BY <2>1 DEF core, campaigns, deliveries
    <3>2. /\ Account(t)' = Account(t) /\ Due(t)' = Due(t) /\ Lost(t)' = Lost(t)
          /\ Opened(t)' = Opened(t) /\ \A x : Got(reached', x) = Got(reached, x)
      BY <3>1 DEF Account, Due, Lost, Going, Opened, Got
    <3>3. Growing /\ SameCells(t)
      BY <3>1, NothingTaken DEF AInv, SInv, SameCells
    <3>4. Reported(t)'
      BY <1>0, <3>3, ReportStays
    <3>5. Balanced(t) => Balanced(t)'
      BY <1>0, <3>1, <3>2, <3>3, BalanceStays DEF AInv, SInv
    <3>6. Owned(t)' = Owned(t) /\ Accounted(t)
      BY <3>1 DEF Owned, AInv
    <3> QED
      BY <3>1, <3>2, <3>4, <3>5, <3>6 DEF Accounted
  <2> QED
    BY <1>0, <2>2 DEF AInv
<1> QED
  BY <1>1, <1>2, <1>3 DEF Next, AllOver

LEMMA InitAccounts == Init => AInv
<1> SUFFICES ASSUME Init, NEW t \in Tasks PROVE Accounted(t)
  BY InitBudget DEF AInv
<1>1. PICK w \in Workloads : CoreInit(w)
  BY DEF Init
<1>2. DOMAIN db \subseteq DOMAIN w.rows
  BY <1>1, Restricted DEF CoreInit, Written
<1>3. \A c \in DOMAIN w.rows : c[1] \notin OfATask
  BY WorkloadAssumption
<1>4. Campaign(t)[1] \in OfATask /\ \A u : Failure(t, u)[1] \in OfATask
  BY DEF Campaign, Failure, OfATask
<1>5. Of(db, Campaign(t)) = None /\ \A u \in Users : Of(db, Failure(t, u)) = None
  BY <1>2, <1>3, <1>4 DEF Of, Blank, Campaign, Failure
<1>6. Reported(t)
  BY <1>5 DEF Reported, Refused
<1>7. wrote[t] = {} /\ at[t] \in {"idle", "unused"}
  BY <1>1 DEF CoreInit
<1> QED
  BY <1>6, <1>7 DEF Accounted, Owned, Opened

(* What a committed campaign says of itself adds up: everyone it set out   *)
(* to reach was either sent to or given up, whoever was given up is        *)
(* written down, and there are at least as many who got the message and    *)
(* were not given up as it counts.  The counters are kept on the session   *)
(* all through the batches and the failures added to it one by one; they   *)
(* are committed at once, when no delivery is left                         *)
(* (broadcast_service.py:58-115).                                          *)
THEOREM CampaignsBalance == Spec => []CampaignsAccountForAll
<1>1. AInv => CampaignsAccountForAll
  <2> SUFFICES ASSUME AInv, NEW t \in Tasks, Of(db, Campaign(t)) # None
               PROVE  LET campaign == Of(db, Campaign(t))
                          failed == Refused(t)
                      IN  /\ campaign.sent + campaign.failed = campaign.total
                          /\ campaign.failed = Cardinality(failed)
                          /\ campaign.sent <= Cardinality(Got(reached, campaign.content) \ failed)
    BY DEF CampaignsAccountForAll, Campaign, Refused, Failure, Got
  <2>1. Reported(t)
    BY DEF AInv, Accounted
  <2> QED
    BY <2>1 DEF Reported
<1> QED
  BY <1>1, InitAccounts, NextKeepsAccounts, PTL DEF Spec

=============================================================================
