----------------------------- MODULE Campaigns -----------------------------
(***************************************************************************)
(* Broadcasts: the conversation that composes a message, and the campaign  *)
(* that copies it to every user who is not banned, batch by batch.  The    *)
(* deliveries of a batch run side by side on the session of the campaign,  *)
(* which is one transaction from the first row to the last.                *)
(***************************************************************************)
EXTENDS Updates, FiniteSetsExt

CONSTANTS Batch,      \* _BATCH_SIZE
          Attempts    \* of a delivery that Telegram asks to wait with

ASSUME CampaignAssumption ==
    Batch \in Nat \ {0} /\ Attempts \in Nat \ {0} /\ IsFiniteSet(Users)

VARIABLES
    legs,      \* the deliveries of the batch a task is at
    reached,   \* history: copies of a message that a user got
    composed   \* history: times a message has been composed, by repeated updates too

deliveries == <<legs, reached>>
campaigns  == <<deliveries, composed>>

Contents == Tasks \cup {Earlier}
Accounts == [content : Contents, total : Nat, sent : Nat, failed : Nat]

ASSUME NoRowAssumption == None # TRUE /\ None \notin Accounts

Talk(t, kind, raw) == at[t] = "route" /\ job[t].kind = kind /\ job[t].raw = raw

-----------------------------------------------------------------------------
(* The conversation.                                                       *)
Compose(t) ==
    /\ at[t] = "route" /\ job[t].kind = "compose"
    /\ Converse(t, [fsm EXCEPT !.state = "content"], "reply")

ReceiveContent(t) ==
    /\ Talk(t, "text", "content")
    /\ Converse(t, [fsm EXCEPT !.content = t, !.state = "buttons"], "reply")
    /\ composed' = [composed EXCEPT ![t] = @ + 1]

ReceiveButtons(t) ==
    /\ Talk(t, "text", "buttons")
    /\ Converse(t, [fsm EXCEPT !.state = "confirm"], "reply")

CancelSend(t) ==
    /\ Talk(t, "cancel", "confirm")
    /\ Converse(t, Cleared, "reply")

(* Slip: the conversation is cleared when the campaign is over.            *)
ConfirmSendAndKeep(t) ==
    /\ Talk(t, "send", "confirm")
    /\ IF fsm.content = None THEN Pass(t, "abort")
       ELSE Learn(t, [job[t] EXCEPT !.value = fsm.content], "create")

(* What was composed is taken and cleared; who comes second finds nothing. *)
ConfirmSend(t) ==
    /\ Talk(t, "send", "confirm")
    /\ fsm' = Cleared
    /\ job' = [job EXCEPT ![t].value = fsm.content]
    /\ Goto(t, IF fsm.content = None THEN "abort" ELSE "create")
    /\ UNCHANGED <<backend, db, session, wrote, told, restarts>>

ComposeStep(t) ==
    /\ \/ ReceiveContent(t)
       \/ /\ Compose(t) \/ ReceiveButtons(t) \/ CancelSend(t) \/ ConfirmSend(t)
          /\ UNCHANGED composed
    /\ UNCHANGED deliveries

-----------------------------------------------------------------------------
(* The campaign.                                                           *)
Campaign(t) == <<"campaign", t>>

Counted(t, count) ==
    session' = [session EXCEPT ![t] = (Campaign(t) :> count) @@ @]

CreateCampaign(t) ==
    /\ at[t] = "create"
    /\ Add(t, Campaign(t) :> [content |-> job[t].value,
                              total |-> 0, sent |-> 0, failed |-> 0],
           {}, "announce")

Announce(t) ==
    /\ at[t] = "announce"
    /\ Pass(t, "recipients") \/ Pass(t, "abort")

ListRecipients(t) ==
    /\ at[t] = "recipients"
    /\ LET recipients == {u \in Users : /\ Of(db, <<"user", u>>) # None
                                         /\ ~ Of(db, <<"banned", u>>)}
           total == Cardinality(recipients)
       IN  /\ job' = [job EXCEPT ![t].todo = recipients]
           /\ Counted(t, [session[t][Campaign(t)] EXCEPT !.total = total])
    /\ Goto(t, "batch")
    /\ UNCHANGED <<backend, db, wrote, fsm, told, restarts>>

LegIs(t, u, step) == u \in DOMAIN legs[t] /\ legs[t][u].step = step
Landed(t) == \A u \in DOMAIN legs[t] : legs[t][u].step \in {"sent", "failed"}
BatchIsOver(t) == at[t] = "batch" /\ Landed(t)

StartBatch(t) ==
    /\ BatchIsOver(t) /\ job[t].todo # {}
    /\ LET size == Min({Batch, Cardinality(job[t].todo)})
       IN  \E next \in kSubset(size, job[t].todo) :
              /\ legs' = [legs EXCEPT ![t] = [u \in next |->
                            [step |-> "sending", left |-> Attempts]]]
              /\ Learn(t, [job[t] EXCEPT !.todo = @ \ next], "batch")
    /\ UNCHANGED reached

Finish(t) ==
    /\ BatchIsOver(t) /\ job[t].todo = {}
    /\ legs' = [legs EXCEPT ![t] = <<>>]
    /\ Pass(t, "log")
    /\ UNCHANGED reached

-----------------------------------------------------------------------------
(* One delivery.                                                           *)
Leg(t, u, step) == legs' = [legs EXCEPT ![t][u] = [step |-> step, left |-> 0]]
Sending(t, u) == LegIs(t, u, "sending")
Reach(t, u) == reached' = [reached EXCEPT ![<<job[t].value, u>>] = @ + 1]

(* The campaign may have ended without this delivery.                      *)
Count(t, field) ==
    IF at[t] = "batch"
    THEN Counted(t, [session[t][Campaign(t)] EXCEPT ![field] = @ + 1])
    ELSE UNCHANGED session

Deliver(t, u) ==
    /\ Sending(t, u)
    /\ Reach(t, u) /\ Leg(t, u, "sent") /\ Count(t, "sent")
    /\ UNCHANGED <<backend, db, wrote, fsm, at, job, told, restarts>>

(* Telegram asks to wait: the only error that is tried again.              *)
WaitForFlood(t, u) ==
    /\ Sending(t, u) /\ legs[t][u].left > 1
    /\ legs' = [legs EXCEPT ![t][u].left = @ - 1]
    /\ UNCHANGED <<core, reached>>

(* Any other error, before or after the message got through.               *)
FailToDeliver(t, u) ==
    /\ Sending(t, u)
    /\ Reach(t, u) \/ UNCHANGED reached
    /\ Leg(t, u, "failing") /\ Count(t, "failed")
    /\ UNCHANGED <<backend, db, wrote, fsm, at, job, told, restarts>>

(* Slip: a failure is written down when the session has time for it.       *)
NoteFailureIfFree(t, u) ==
    /\ LegIs(t, u, "failing")
    /\ Leg(t, u, IF \E o \in DOMAIN legs[t] : LegIs(t, o, "flushing") THEN "failed"
                 ELSE "flushing")
    /\ UNCHANGED <<core, reached>>

(* A session that is flushing refuses to flush again: the campaign fails.  *)
NoteFailure(t, u) ==
    /\ LegIs(t, u, "failing")
    /\ LET busy == \E o \in DOMAIN legs[t] : LegIs(t, o, "flushing")
           over == at[t] # "batch"
       IN  /\ Leg(t, u, IF over \/ busy THEN "failed" ELSE "flushing")
           /\ IF busy /\ ~ over THEN Pass(t, "abort") ELSE UNCHANGED core
    /\ UNCHANGED reached

FailureNoted(t, u) ==
    /\ LegIs(t, u, "flushing")
    /\ Leg(t, u, "failed")
    /\ IF at[t] = "batch" THEN Add(t, <<"failure", <<t, u>>>> :> TRUE, {}, "batch")
       ELSE UNCHANGED core
    /\ UNCHANGED reached

-----------------------------------------------------------------------------
DeliveryStep(t, u) ==
    \/ Deliver(t, u) \/ WaitForFlood(t, u) \/ FailToDeliver(t, u)
    \/ NoteFailure(t, u) \/ FailureNoted(t, u)

CampaignStep(t) ==
    \/ (CreateCampaign(t) \/ Announce(t) \/ ListRecipients(t)) /\ UNCHANGED deliveries
    \/ StartBatch(t) \/ Finish(t)
    \/ \E u \in DOMAIN legs[t] : DeliveryStep(t, u)

CampaignsStep(t) == ComposeStep(t) \/ (CampaignStep(t) /\ UNCHANGED composed)

CampaignsInit ==
    /\ legs = [t \in Tasks |-> <<>>]
    /\ reached = [x \in Contents \X Users |-> 0]
    /\ composed = [x \in Contents |-> IF fsm.content = x THEN 1 ELSE 0]
=============================================================================
