------------------------------- MODULE MCBot -------------------------------
(***************************************************************************)
(* Workloads for Bot: what the updates are and what they find.  Each has   *)
(* two or three updates that can get into each other's way.                *)
(***************************************************************************)
EXTENDS Bot

CONSTANTS t1, t2, t3, u1, u2, u3, u4, channel, page

MCKeys == {"maintenance", "referral", "limit", "price"}
Both == {"sqlite", "postgresql"}

Known(us)   == [x \in {"user"} \X us |-> [by |-> None]]
Demands(cs) == [x \in OfTargets \X cs |-> TRUE]
Boss(kind, arg) == Asked(kind, Admin, arg)

Talking(state, fields) == [Cleared EXCEPT !.state = state, !.fields = fields]

Work(backends, rows, updates) ==
    [backends |-> backends, rows |-> Known({u1}) @@ rows, chat |-> Cleared,
     updates |-> updates, members |-> [c \in Targets |-> {}], moves |-> 0, restarts |-> 0]

Three(a, b, c) == t1 :> a @@ t2 :> b @@ t3 :> c
Two(a, b) == t1 :> a @@ t2 :> b

-----------------------------------------------------------------------------
(* Invited users, one of whom taps twice; one after a restart.             *)
Invitations == Work(Both, <<>>,
    Three(Asked("start", u2, u1), Asked("start", u3, u1), Asked("start", u2, u1)))

InvitedByNobody == [Work(Both, <<>>, Two(Asked("start", u2, u2), Asked("start", u3, u2)))
    EXCEPT !.restarts = 1]

(* The referrer has premium; rewards are switched off meanwhile.           *)
PremiumReferrer == Work({"sqlite"}, <<"premium", u1>> :> TRUE,
    Three(Asked("start", u2, u1), Asked("start", u3, u1), Boss("toggleSetting", "referral")))

-----------------------------------------------------------------------------
(* The gate, while somebody moves and the list is edited.                  *)
Gate == [Work({"sqlite"}, Known({u2}) @@ Demands({channel}),
              Three(Asked("start", u2, None), Asked("recheck", u2, None),
                    Boss("toggleMandatory", channel)))
    EXCEPT !.moves = 1]

GateRebuilt == [Work({"postgresql"},
                     Known({u2}) @@ <<"active", channel>> :> FALSE @@ Demands({channel}),
                     Three(Asked("recheck", u2, None), Boss("pick", channel),
                           Boss("remove", channel)))
    EXCEPT !.moves = 1]

GateOfPages == Work({"sqlite"}, Known({u2}) @@ Demands({page, channel}),
    Two(Asked("recheck", u2, None), Boss("toggleActive", page)))

Confirmations == Work(Both, Known({u2}) @@ Demands({page}),
    Three(Asked("confirm", u2, page), Asked("confirm", u2, page), Boss("remove", page)))

(* The doors: maintenance, and the blacklist.                              *)
Closing == Work({"sqlite"}, Known({u2}),
    Three(Asked("start", u2, None), Boss("toggleSetting", "maintenance"),
          Asked("start", u1, None)))

Blocking == [Work({"sqlite"}, Known({u2}),
                  Three(Boss("text", u2), Boss("text", u2), Asked("start", u2, None)))
    EXCEPT !.chat = Talking("blacklist", {"entryType"})]

Unblocking == Work({"sqlite"}, Known({u2}) @@ <<"entry", Earlier>> :> u2,
    Three(Asked("start", u2, None), Boss("unblock", Earlier), Boss("blacklist", None)))

-----------------------------------------------------------------------------
(* The admin's conversations, and one that is overtaken by another.        *)
Adding == Work({"sqlite"}, <<>>,
    Three(Boss("add", None), Boss("platform", "web"), Boss("platform", "telegram")))

Naming == [Work({"sqlite"}, <<>>,
                Three(Boss("text", "ok"), Boss("text", "empty"), Boss("cancelAdd", None)))
    EXCEPT !.chat = Talking("title", {"platform"}), !.restarts = 1]

Instructing == [Work({"sqlite"}, <<>>,
                     Three(Boss("text", "ok"), Boss("text", "ok"),
                           Boss("editSetting", "limit")))
    EXCEPT !.chat = Talking("instructions", {"platform", "title", "url"})]

(* Two numbers, which are typed; a switch, which is toggled.               *)
Settings == [Work(Both, <<>>,
                  Three(Boss("text", "on"), Boss("text", "bad"),
                        Boss("editSetting", "price")))
    EXCEPT !.chat = [Talking("value", {}) EXCEPT !.key = "limit"]]

TogglingTwice == Work(Both, <<"setting", "referral">> :> "on",
    Two(Boss("toggleSetting", "referral"), Boss("toggleSetting", "referral")))

Moderation == Work(Both, Known({u2}),
    Three(Boss("ban", u2), Boss("unban", u2), Boss("mute", u2)))

-----------------------------------------------------------------------------
(* Broadcasts: "Send" tapped twice, composed, cancelled.                   *)
Ready == [Talking("confirm", {}) EXCEPT !.content = Earlier]

Batches == [Work({"postgresql"}, Known({u2, u3, u4}), t1 :> Boss("send", None))
    EXCEPT !.chat = Ready]

TappedTwice == [Work({"postgresql"}, Known({u2}),
                     Two(Boss("send", None), Boss("send", None)))
    EXCEPT !.chat = Ready]

Banning == [Work(Both, Known({u2}), Two(Boss("send", None), Boss("ban", u2)))
    EXCEPT !.chat = Ready, !.restarts = 1]

Composing == [Work({"sqlite"}, <<>>,
                   Three(Boss("text", "ok"), Boss("text", "ok"), Boss("send", None)))
    EXCEPT !.chat = Talking("content", {})]

Cancelling == [Work({"sqlite"}, Known({u2}), Two(Boss("send", None), Boss("cancel", None)))
    EXCEPT !.chat = Ready]

Rewriting == [Work({"sqlite"}, Known({u2}),
                   Three(Boss("compose", None), Boss("text", "ok"), Boss("cancel", None)))
    EXCEPT !.chat = Ready, !.restarts = 1]

(* Backups.                                                                *)
CopyingTwice == Work({"sqlite"}, Known({u2}),
    Three(Boss("backup", None), Boss("daily", None), Boss("ban", u2)))

CopyingAmongWrites == Work({"sqlite"}, Known({u2}),
    Three(Boss("backup", None), Boss("ban", u2), Boss("mute", u2)))

CopyingInterrupted == [Work({"sqlite"}, Known({u2}),
                            Two(Boss("backup", None), Boss("ban", u2)))
    EXCEPT !.restarts = 1]

CopyingAmongUsers == Work({"sqlite"}, Known({u2}),
    Two(Boss("backup", None), Asked("start", u2, None)))

NoFileToCopy == Work({"postgresql"}, Known({u2}),
    Two(Boss("backup", None), Boss("daily", None)))

MCWorkloads ==
    {Invitations, InvitedByNobody, PremiumReferrer, Gate, GateRebuilt, GateOfPages,
     Confirmations, Closing, Blocking, Unblocking, Adding, Naming, Instructing, Settings,
     Moderation, Batches, TappedTwice, Banning, Composing, Cancelling, Rewriting,
     TogglingTwice, CopyingTwice, CopyingAmongWrites, CopyingInterrupted, CopyingAmongUsers,
     NoFileToCopy}

=============================================================================
