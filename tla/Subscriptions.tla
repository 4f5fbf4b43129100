---------------------------- MODULE Subscriptions ----------------------------
(***************************************************************************)
(* Mandatory subscriptions: the gate in front of /start and of "Check", a  *)
(* user's own confirmation, and the admin's list of targets.  Telegram is  *)
(* asked about each target in turn, while users join and leave and the     *)
(* admin edits the list.                                                   *)
(***************************************************************************)
EXTENDS Updates

CONSTANT External   \* targets without a chat id: pages, sites, other bots

ASSUME ExternalAssumption == External \subseteq Targets

ASSUME MembersAssumption ==
    \A w \in Workloads : w.members \in [Targets -> SUBSET Users] /\ w.moves \in Nat

VARIABLES
    members,   \* Telegram: who is in which chat
    moves      \* bound: times somebody joins or leaves

outside == <<members, moves>>

TargetCells(c, active, mandatory) ==
    <<"target", c>> :> TRUE @@ <<"active", c>> :> active
    @@ <<"mandatory", c>> :> mandatory

Flags(c) == {<<"target", c>>, <<"active", c>>, <<"mandatory", c>>}

Demanded(rows) ==
    {c \in Targets : Of(rows, <<"target", c>>) # None /\ Of(rows, <<"active", c>>)
                     /\ Of(rows, <<"mandatory", c>>)}

-----------------------------------------------------------------------------
(* The gate.                                                               *)
ListTargets(t) ==
    /\ at[t] = "gate"
    /\ Learn(t, [job[t] EXCEPT !.todo = Demanded(Sees(t)), !.missing = {}], "check")

(* Slip: when Telegram cannot say, the user is let through.                *)
IsMemberFailingOpen(t, c) == IF c \in External THEN {FALSE}
                             ELSE {job[t].by \in members[c], TRUE}

(* What the check of one target answers: Telegram may fail to say.         *)
IsMember(t, c) == IF c \in External THEN {FALSE}
                  ELSE {job[t].by \in members[c], FALSE}

CheckTarget(t) ==
    /\ at[t] = "check"
    /\ \E c \in job[t].todo : \E member \in IsMember(t, c) :
          Learn(t, [job[t] EXCEPT !.todo = @ \ {c},
                                  !.missing = IF member THEN @ ELSE @ \cup {c}], "check")

Decide(t) ==
    /\ at[t] = "check" /\ job[t].todo = {}
    /\ IF job[t].missing # {} THEN Answer(t, "gate")
       ELSE Learn(t, [job[t] EXCEPT !.out = "greeted"], "admit")

LoadUser(t) ==
    /\ at[t] = "admit"
    /\ IF Val(t, <<"user", job[t].by>>) = None THEN Pass(t, "reply")
       ELSE Hold(t, OfUsers \X {job[t].by}, "count")

RecordStart(t) ==
    /\ at[t] = "count"
    /\ LET starts == <<"starts", job[t].by>>
       IN  Put(t, starts :> Val(t, starts) + 1, "reply")

(* "Check" below the gate shown by /start.                                 *)
Recheck(t) == at[t] = "route" /\ job[t].kind = "recheck" /\ Pass(t, "gate")

(* "Confirmed", tapped for a target nobody can verify.                     *)
Confirm(t) ==
    /\ at[t] = "route" /\ job[t].kind = "confirm"
    /\ IF Val(t, <<"confirmed", <<job[t].by, job[t].arg>>>>) # None
       THEN Answer(t, "confirmed")
       ELSE Learn(t, [job[t] EXCEPT !.out = "confirmed"], "confirming")

InsertConfirmation(t) ==
    /\ at[t] = "confirming"
    /\ Add(t, <<"confirmed", <<job[t].by, job[t].arg>>>> :> TRUE,
           {<<"user", job[t].by>>, <<"target", job[t].arg>>}, "reply")

-----------------------------------------------------------------------------
(* The admin's list.                                                       *)
StartAdd(t) ==
    /\ at[t] = "route" /\ job[t].kind = "add"
    /\ Converse(t, [fsm EXCEPT !.state = "choosing"], "reply")

CancelAdd(t) ==
    /\ at[t] = "route" /\ job[t].kind = "cancelAdd"
    /\ Converse(t, Cleared, "reply")

ChoosePlatform(t) ==
    /\ at[t] = "route" /\ job[t].kind = "platform" /\ job[t].raw = "choosing"
    /\ Converse(t, IF job[t].arg = "telegram" THEN Cleared
                   ELSE [fsm EXCEPT !.state = "title", !.fields = @ \cup {"platform"}],
                "reply")

(* A chat the bot was added to, tapped.                                    *)
PickChat(t) ==
    /\ at[t] = "route" /\ job[t].kind = "pick"
    /\ Converse(t, Cleared, "picked")

FindPicked(t) ==
    /\ at[t] = "picked"
    /\ \/ Load(t, Flags(job[t].arg),
               [job[t] EXCEPT !.isNew = Of(db, <<"target", job[t].arg>>) = None],
               "adding")
       \/ Answer(t, "no chat")                    \* no longer discovered

AddTelegram(t) ==
    /\ at[t] = "adding"
    /\ LET c == job[t].arg
       IN  IF job[t].isNew THEN Add(t, TargetCells(c, TRUE, TRUE), {}, "log")
           ELSE Change(t, TargetCells(c, TRUE, TRUE), <<"target", c>>, "log")

ReceiveTitleOrUrl(t) ==
    /\ at[t] = "route" /\ job[t].kind = "text" /\ job[t].raw \in {"title", "url"}
    /\ IF job[t].arg = "empty" THEN Pass(t, "abort")
       ELSE Converse(t, [fsm EXCEPT !.fields = @ \cup {job[t].raw},
                                    !.state = IF job[t].raw = "title" THEN "url"
                                              ELSE "instructions"], "reply")

(* The conversation may be another one by now.                             *)
ReceiveInstructions(t) ==
    /\ at[t] = "route" /\ job[t].kind = "text" /\ job[t].raw = "instructions"
    /\ Converse(t, Cleared, IF {"platform", "title", "url"} \subseteq fsm.fields
                            THEN "new external" ELSE "abort")

(* No two rows are the same page: another row, inactive or not, is there.  *)
AddExternal(t) ==
    /\ at[t] = "new external"
    /\ \E c \in External :
          /\ Val(t, <<"target", c>>) = None
          /\ Add(t, TargetCells(c, TRUE, TRUE), {}, "log")

Edit(t) ==
    /\ at[t] = "route" /\ job[t].kind \in {"toggleActive", "toggleMandatory", "remove"}
    /\ IF Val(t, <<"target", job[t].arg>>) = None THEN Pass(t, "reply")
       ELSE Hold(t, Flags(job[t].arg), "edit")

SaveEdit(t) ==
    /\ at[t] = "edit"
    /\ LET c == job[t].arg
           row == <<"target", c>>
           kind == job[t].kind
           flag == <<IF kind = "toggleActive" THEN "active" ELSE "mandatory", c>>
       IN  IF kind = "remove"
           THEN Change(t, row :> None @@ [x \in {"confirmed"} \X (Users \X {c}) |-> None],
                       row, "log")
           ELSE Change(t, flag :> ~ Val(t, flag), row, "reply")

-----------------------------------------------------------------------------
SubscriptionsStep(t) ==
    \/ ListTargets(t) \/ CheckTarget(t) \/ Decide(t) \/ LoadUser(t) \/ RecordStart(t)
    \/ Recheck(t) \/ Confirm(t) \/ InsertConfirmation(t)
    \/ StartAdd(t) \/ CancelAdd(t) \/ ChoosePlatform(t) \/ PickChat(t) \/ FindPicked(t)
    \/ AddTelegram(t) \/ ReceiveTitleOrUrl(t) \/ ReceiveInstructions(t) \/ AddExternal(t)
    \/ Edit(t) \/ SaveEdit(t)

(* Users join and leave as they like.                                      *)
Move ==
    /\ moves > 0 /\ moves' = moves - 1
    /\ \E u \in Users, c \in Targets \ External :
          members' = [members EXCEPT ![c] = IF u \in @ THEN @ \ {u} ELSE @ \cup {u}]
    /\ UNCHANGED core
=============================================================================
