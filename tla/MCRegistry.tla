----------------------------- MODULE MCRegistry -----------------------------
(***************************************************************************)
(* CodeRegistry for TLC: one admin in a group, another in a private chat.  *)
(***************************************************************************)
EXTENDS CodeRegistry, TLC

CONSTANTS g, p, a1, a2, c1, c2, f1

OneAdminEach == (g :> a1) @@ (p :> a2)

(* The second one fails at its last row.                                   *)
OfTwoRows == {<<c1, c2>>, <<c2, c1, None>>}

(* In the middle of a bulk upload or of a form, at the end of a form, or   *)
(* with a captured message that awaits its code.                           *)
Begun(state) == [Cleared EXCEPT !.state = state]
Filled       == [Begun("description") EXCEPT !.file = f1, !.titled = TRUE]
Awaiting     == [Begun("code") EXCEPT !.file = f1, !.from = Earlier]

Found ==
    {(g :> Cleared)       @@ (p :> Begun("media")),
     (g :> Begun("year")) @@ (p :> Begun("collecting")),
     (g :> Awaiting)      @@ (p :> Filled)}

NotBooked == [c \in Codes |-> None]

Booked == {NotBooked, [NotBooked EXCEPT ![c1] = [by |-> a2, released |-> FALSE]]}
=============================================================================
