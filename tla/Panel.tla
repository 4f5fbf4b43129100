------------------------------- MODULE Panel -------------------------------
(***************************************************************************)
(* The admin's panel: settings, the blacklist, and what is done to a user. *)
(***************************************************************************)
EXTENDS Updates

Handling(t, kind) == at[t] = "route" /\ job[t].kind = kind
Reading(t, state) == at[t] = "route" /\ job[t].kind = "text" /\ job[t].raw = state

-----------------------------------------------------------------------------
(* Slip: a setting without a row is taken for off.                         *)
ToggleStored(t) ==
    /\ Handling(t, "toggleSetting")
    /\ Learn(t, [job[t] EXCEPT !.key = job[t].arg,
                               !.value = IF Of(Sees(t), <<"setting", job[t].arg>>) = "on"
                                         THEN "off" ELSE "on"],
             "find setting")

(* Settings: SELECT, and INSERT or UPDATE of what the SELECT found.  What  *)
(* get() has loaded nobody refers to when it returns: set() reads again.   *)
ToggleSetting(t) ==
    /\ Handling(t, "toggleSetting")
    /\ Learn(t, [job[t] EXCEPT !.key = job[t].arg,
                               !.value = IF On(Sees(t), job[t].arg) THEN "off" ELSE "on"],
             "find setting")

FindSetting(t) ==
    /\ at[t] = "find setting"
    /\ LET row == <<"setting", job[t].key>>
       IN  IF Val(t, row) = None THEN Pass(t, "insert setting")
           ELSE Hold(t, {row}, "update setting")

InsertSetting(t) ==
    /\ at[t] = "insert setting"
    /\ Add(t, <<"setting", job[t].key>> :> job[t].value, {}, "reply")

UpdateSetting(t) ==
    /\ at[t] = "update setting"
    /\ Put(t, <<"setting", job[t].key>> :> job[t].value, "reply")

EditSetting(t) ==
    /\ Handling(t, "editSetting")
    /\ Converse(t, [fsm EXCEPT !.state = "value", !.key = job[t].arg], "reply")

(* Text for a setting; "bad" is no number where one is wanted.             *)
ReceiveValue(t) ==
    /\ Reading(t, "value")
    /\ fsm' = Cleared
    /\ job' = [job EXCEPT ![t].key = fsm.key, ![t].value = job[t].arg]
    /\ Goto(t, IF fsm.key = None THEN "reply"
               ELSE IF job[t].arg = "bad" THEN "refuse" ELSE "find setting")
    /\ UNCHANGED <<backend, db, session, wrote, told, restarts>>

(* The state is set again after the answer, which may fail.                *)
RefuseValue(t) ==
    /\ at[t] = "refuse"
    /\ \/ Converse(t, [fsm EXCEPT !.state = "value", !.key = job[t].key], "commit")
       \/ Pass(t, "abort")

-----------------------------------------------------------------------------
(* The blacklist.                                                          *)
OpenBlacklist(t) ==
    /\ Handling(t, "blacklist")
    /\ Converse(t, [fsm EXCEPT !.state = "blacklist", !.fields = @ \cup {"entryType"}],
                "reply")

(* The conversation stays open: every text is one more value.              *)
ReceiveBlocked(t) ==
    /\ Reading(t, "blacklist")
    /\ IF "entryType" \notin fsm.fields \/ IsBlocked(Sees(t), job[t].arg)
       THEN Pass(t, "reply")
       ELSE Pass(t, "new entry")

AddEntry(t) ==
    /\ at[t] = "new entry"
    /\ Flush(t, <<"entry", t>> :> job[t].arg, "reply")

(* arg: the update that added the entry.  The row stays, inactive.         *)
Unblock(t) ==
    /\ Handling(t, "unblock")
    /\ LET entry == <<"entry", job[t].arg>>
       IN  IF Val(t, entry) = None THEN Pass(t, "reply") ELSE Hold(t, {entry}, "unblock")

DeactivateEntry(t) ==
    /\ at[t] = "unblock"
    /\ Put(t, <<"entry", job[t].arg>> :> "inactive", "reply")

-----------------------------------------------------------------------------
(* Bans and mutes.                                                         *)
FindUserToAct(t) ==
    /\ at[t] = "route" /\ job[t].kind \in {"ban", "unban", "mute"}
    /\ IF Val(t, <<"user", job[t].arg>>) = None THEN Pass(t, "reply")
       ELSE Hold(t, OfUsers \X {job[t].arg}, "act")

ActOnUser(t) ==
    /\ at[t] = "act"
    /\ LET u == job[t].arg
           muted == <<"muted", u>>
       IN  Put(t, IF job[t].kind = "mute" THEN muted :> ~ Val(t, muted)
                  ELSE <<"banned", u>> :> (job[t].kind = "ban"), "log")

-----------------------------------------------------------------------------
PanelStep(t) ==
    \/ ToggleSetting(t) \/ FindSetting(t) \/ InsertSetting(t) \/ UpdateSetting(t)
    \/ EditSetting(t) \/ ReceiveValue(t) \/ RefuseValue(t) \/ OpenBlacklist(t)
    \/ ReceiveBlocked(t) \/ AddEntry(t) \/ Unblock(t) \/ DeactivateEntry(t)
    \/ FindUserToAct(t) \/ ActOnUser(t)
=============================================================================
