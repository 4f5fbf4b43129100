---------------------------- MODULE Registration ----------------------------
(***************************************************************************)
(* /start: who may enter, the first row of a user, and what the user who   *)
(* invited him gets.  The gate of Subscriptions follows.                   *)
(***************************************************************************)
EXTENDS Subscriptions

CONSTANT Threshold   \* referral_premium_bonus_threshold

ASSUME ThresholdAssumption == Threshold \in Nat \ {0}

(* Rewards are on unless a row says otherwise; no row of a user is None.   *)
ASSUME RewardsAssumption ==
    "referral" \in OnByDefault /\ None \notin [by : Users \cup {None}]

CheckBlacklist(t) ==
    /\ at[t] = "route" /\ job[t].kind = "start"
    /\ IF IsBlocked(Sees(t), job[t].by) THEN Answer(t, "blocked")
       ELSE Pass(t, "maintenance")

CheckMaintenance(t) ==
    /\ at[t] = "maintenance"
    /\ IF On(Sees(t), "maintenance") /\ job[t].by # Admin THEN Answer(t, "maintenance")
       ELSE Pass(t, "find")

FindUser(t) ==
    /\ at[t] = "find"
    /\ Load(t, OfUsers \X {job[t].by},
            [job[t] EXCEPT !.isNew = Of(db, <<"user", job[t].by>>) = None], "register")

(* arg: the number behind /start, if any.                                  *)
Referrer(t) == IF job[t].arg = job[t].by THEN None ELSE job[t].arg

(* Slip: whoever comes back counts as invited again.                       *)
UpdateNameAndCount(t) ==
    /\ at[t] = "register" /\ ~ job[t].isNew
    /\ Pass(t, IF Referrer(t) = None THEN "gate" ELSE "referrer")

(* A user who is known has his name brought up to date: an UPDATE, if it   *)
(* has changed.                                                            *)
UpdateName(t) ==
    /\ at[t] = "register" /\ ~ job[t].isNew
    /\ LET user == <<"user", job[t].by>>
       IN  Pass(t, "gate") \/ Flush(t, user :> Val(t, user), "gate")

NewUser(t) ==
    /\ at[t] = "register" /\ job[t].isNew
    /\ LET r == Referrer(t)
       IN  Add(t, <<"user", job[t].by>> :> [by |-> r],
               IF r = None THEN {} ELSE {<<"user", r>>},
               IF r = None THEN "registered" ELSE "referrer")

LoadReferrer(t) ==
    /\ at[t] = "referrer"
    /\ Hold(t, OfUsers \X {Referrer(t)}, "invite")

CountInvite(t) ==
    /\ at[t] = "invite"
    /\ LET invites == <<"invites", Referrer(t)>>
       IN  Put(t, invites :> Val(t, invites) + 1, "registered")

LogRegistration(t) ==
    /\ at[t] = "registered"
    /\ Flush(t, <<"log", t>> :> TRUE, IF Referrer(t) = None THEN "gate" ELSE "reward")

Reward(t) ==
    /\ at[t] = "reward"
    /\ IF On(Sees(t), "referral")
       THEN Add(t, <<"reward", t>> :> Referrer(t), {}, "bonus")
       ELSE Pass(t, "gate")

(* Every Threshold-th invitation.  SQLite gives the expiry back without a  *)
(* time zone, and comparing it raises TypeError.                           *)
Bonus(t) ==
    /\ at[t] = "bonus"
    /\ LET r == Referrer(t)
       IN  IF Val(t, <<"invites", r>>) % Threshold # 0 THEN Pass(t, "gate")
           ELSE IF backend = "sqlite" /\ Val(t, <<"premium", r>>) THEN Pass(t, "abort")
           ELSE Flush(t, <<"premium", r>> :> TRUE, "granted")

NoteBonus(t) ==
    /\ at[t] = "granted"
    /\ Add(t, <<"bonus", t>> :> Referrer(t), {}, "gate")

RegistrationStep(t) ==
    \/ CheckBlacklist(t) \/ CheckMaintenance(t) \/ FindUser(t) \/ UpdateName(t)
    \/ NewUser(t) \/ LoadReferrer(t) \/ CountInvite(t) \/ LogRegistration(t)
    \/ Reward(t) \/ Bonus(t) \/ NoteBonus(t)
=============================================================================
