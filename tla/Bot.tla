-------------------------------- MODULE Bot --------------------------------
(***************************************************************************)
(* The bot as it runs: updates of several users and of an admin, and the   *)
(* daily job, all at once on one database, while users join and leave      *)
(* channels and the process is killed.                                     *)
(***************************************************************************)
EXTENDS Registration, Panel, Campaigns, Backups

ASSUME NothingIsSaid == None # "greeted"   \* of a task that has told nothing yet

VARIABLE seen   \* history: what was true while a task went through the gate

vars == <<core, outside, campaigns, storage, copies, seen>>

-----------------------------------------------------------------------------
(* Updates nobody handles end quietly; messages that come too soon and     *)
(* waits that last too long end in an error.                               *)
Routed(j) ==
    CASE j.kind = "text"             -> j.raw \notin {"none", "choosing", "confirm"}
      [] j.kind = "platform"         -> j.raw = "choosing"
      [] j.kind \in {"send", "cancel"} -> j.raw = "confirm"
      [] OTHER                       -> TRUE

Ignore(t) == at[t] = "route" /\ ~ Routed(job[t]) /\ Pass(t, "commit")

IsMessage(t) == job[t].kind \in {"start", "text"}

Throttle(t) ==
    /\ at[t] = "route" /\ IsMessage(t) /\ Routed(job[t])
    /\ \E o \in Tasks \ {t} : IsMessage(o) /\ job[o].by = job[t].by
                              /\ at[o] \notin {"unused", "idle"}
    /\ Pass(t, "abort")

Writing == {"register", "invite", "registered", "reward", "bonus", "granted", "count",
            "confirming", "adding", "new external", "edit", "log", "insert setting",
            "update setting", "new entry", "unblock", "act", "create"}

(* busy_timeout: SQLite's writers do not wait for ever.                    *)
LockTimeout(t) ==
    /\ backend = "sqlite" /\ at[t] \in Writing
    /\ \E o \in Tasks \ {t} : wrote[o] # {}
    /\ Pass(t, "abort")

Step(t) ==
    /\ \/ /\ \/ Receive(t) \/ Ignore(t) \/ Throttle(t) \/ LockTimeout(t)
             \/ Log(t) \/ Reply(t) \/ Commit(t) \/ Rollback(t)
             \/ SubscriptionsStep(t) \/ RegistrationStep(t) \/ PanelStep(t)
          /\ UNCHANGED <<campaigns, copies>>
       \/ CampaignsStep(t) /\ UNCHANGED copies
       \/ BackupsStep(t) /\ UNCHANGED campaigns
    /\ UNCHANGED outside
    /\ Checkpoint

(* A crash leaves the log as it is.                                        *)
Crash ==
    /\ Kill
    /\ legs' = [t \in Tasks |-> <<>>]
    /\ UNCHANGED <<reached, composed, outside, storage, copies>>

Join == Move /\ UNCHANGED <<campaigns, storage, copies>>

-----------------------------------------------------------------------------
(* Since a task has arrived: what has been demanded all the time, where    *)
(* its user has been a member at some time, whether he was blocked and the *)
(* bot closed all the time.                                                *)
Untold == [demanded |-> Targets, joined |-> {}, blocked |-> TRUE, closed |-> TRUE]

Gated(t) == job[t].kind \in {"start", "recheck"}

Watch ==
    seen' = [t \in Tasks |->
        IF told[t] # None /\ told'[t] # None THEN seen[t]
        ELSE IF Gated(t) /\ (Running(t)' \/ told'[t] # None)
        THEN [demanded |-> seen[t].demanded \cap Demanded(db'),
              joined   |-> seen[t].joined
                           \cup {c \in Targets : job[t].by \in members'[c]},
              blocked  |-> seen[t].blocked /\ IsBlocked(db', job[t].by),
              closed   |-> seen[t].closed /\ On(db', "maintenance")]
        ELSE Untold]

-----------------------------------------------------------------------------
Init ==
    /\ \E w \in Workloads : CoreInit(w) /\ members = w.members /\ moves = w.moves
    /\ CampaignsInit /\ BackupsInit
    /\ seen = [t \in Tasks |-> Untold]

Turn(t) == Step(t) /\ Watch

AllOver ==
    /\ \A t \in Tasks : at[t] \in Ended /\ Landed(t)
    /\ UNCHANGED vars

Next ==
    \/ \E t \in Tasks : Turn(t)
    \/ Join /\ Watch
    \/ Crash /\ Watch
    \/ AllOver

Spec == Init /\ [][Next]_vars

(* The event loop runs every task that can go on, and Telegram, the        *)
(* database and the file system answer.                                    *)
FairSpec == Spec /\ \A t \in Tasks : WF_vars(Turn(t))

-----------------------------------------------------------------------------
TypeOK ==
    /\ CoreTypeOK
    /\ members \in [Targets -> SUBSET Users] /\ moves \in Nat
    /\ \A t \in Tasks : DOMAIN legs[t] \subseteq Users
    /\ reached \in [Contents \X Users -> Nat] /\ composed \in [Contents -> Nat]
    /\ DOMAIN main \subseteq Cells /\ recent \subseteq Cells
    /\ DOMAIN copies \subseteq Nat

(* Invitations, rewards and bonuses agree with who was invited by whom     *)
(* (user_service.py:24-59, referral_reward_service.py:29-58): nobody       *)
(* invites himself; where rewards have always been on, every invited user  *)
(* is one reward; on SQLite, where writers exclude each other, the counter *)
(* is the number of invited users, and every Threshold of them one bonus.  *)
(* On PostgreSQL the counter may be behind.                                *)
InvitedBy(r) == {u \in Users : Of(db, <<"user", u>>) = [by |-> r]}
Given(column, r) == Cardinality({t \in Tasks : Of(db, <<column, t>>) = r})

AddsUpFor(r) ==
    LET invited == Cardinality(InvitedBy(r))
        alwaysOn == Of(db, <<"setting", "referral">>) = None
        exact == backend = "sqlite"
    IN  /\ r \notin InvitedBy(r)
        /\ Of(db, <<"invites", r>>) <= invited
        /\ Given("reward", r) <= invited
        /\ alwaysOn => Given("reward", r) = invited
        /\ exact => Of(db, <<"invites", r>>) = invited
        /\ exact => Given("bonus", r) <= invited \div Threshold
        /\ exact /\ alwaysOn => Given("bonus", r) = invited \div Threshold

ReferralsAddUp == \A r \in Users : AddsUpFor(r)

(* Whoever is greeted has been let in: every target that was mandatory all *)
(* the while had him as a member at some time since he asked, and one who  *)
(* sent /start was not blacklisted, nor the bot closed to him, all the     *)
(* while (start.py:56-107, movie_code.py:284-315).                         *)
GreetedOnlyIfAdmitted ==
    \A t \in Tasks : told[t] = "greeted" =>
        /\ seen[t].demanded \subseteq seen[t].joined
        /\ job[t].kind = "start" =>
              ~ seen[t].blocked /\ (seen[t].closed => job[t].by = Admin)

(* A campaign in the database is complete: every recipient is counted as   *)
(* sent or failed, every failure is written down, and nobody is counted as *)
(* sent who got nothing (broadcast_service.py:58-115).                     *)
CampaignsAccountForAll ==
    \A t \in Tasks :
        LET campaign == Of(db, <<"campaign", t>>)
            failed == {u \in Users : Of(db, <<"failure", <<t, u>>>>) # None}
            got == {u \in Users : reached[<<campaign.content, u>>] > 0}
        IN  campaign # None =>
              /\ campaign.sent + campaign.failed = campaign.total
              /\ campaign.failed = Cardinality(failed)
              /\ campaign.sent <= Cardinality(got \ failed)

(* However often and whenever "Send" is tapped, whatever Telegram answers  *)
(* and the process is killed, nobody gets a message more often than it was *)
(* composed: once, unless Telegram repeats the updates that composed it    *)
(* after a restart (broadcast.py:99-109, broadcast_service.py:117-136).    *)
SentOnce == \A x \in Contents, u \in Users : reached[<<x, u>>] <= composed[x]

(* A finished backup holds what was settled: whatever no transaction has   *)
(* changed since the bot was last idle is in it, in the part that was read *)
(* first as in the part that was read last (backup_service.py:40-53).      *)
BackupsHoldSettled ==
    \A n \in DOMAIN copies : copies[n].whole =>
        /\ Differ(copies[n].first, copies[n].committed) \subseteq copies[n].unsure
        /\ Differ(copies[n].last, copies[n].committed) \subseteq copies[n].unsure

(* A toggle that is confirmed changes its setting, or was overtaken by     *)
(* another confirmed toggle of it: no failed insert, no rollback and no    *)
(* missing row loses one (settings_center.py:87-88, settings_service.py:   *)
(* 213-233).  Two at once may well count as one.                           *)
Toggles(k, step) ==
    {t \in Tasks : at[t] = step /\ job[t].kind = "toggleSetting" /\ job[t].arg = k}

ToggleLostOnlyToAnother ==
    [][ \A k \in Keys : \A t \in Toggles(k, "commit") :
           (at'[t] = "done" /\ On(db', k) = On(db, k)) => Toggles(k, "done") # {} ]_vars

(* Every update is over in the end, committed or rolled back: nobody waits *)
(* for ever for a lock, an answer or another delivery (session.py:13-39).  *)
TasksFinish == <>[](\A t \in Tasks : at[t] \in Ended /\ Landed(t))
=============================================================================
