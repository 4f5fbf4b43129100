------------------------------ MODULE LossyMap ------------------------------
(***************************************************************************)
(* What a caller of TTLCache may rely on, and no more: a lookup answers    *)
(* either nothing, or the value last stored under that very key, and never *)
(* a value stored more than TTL ago or removed since.  An entry may vanish *)
(* at any time (expiry, eviction).  How entries are chosen for eviction is *)
(* no part of the promise; how many there may be is.                       *)
(***************************************************************************)
EXTENDS Integers, FiniteSets

CONSTANTS Keys, Vals, TTL, Nothing

VARIABLES stored,  \* per key: the value last stored and when, or Nothing
          clock,   \* the monotonic clock
          answer   \* what the last lookup returned: a key and a value, or Nothing

mapVars == <<stored, clock, answer>>

LInit == /\ stored = [k \in Keys |-> Nothing]
         /\ clock = 0
         /\ answer = Nothing

LStore(k, v) == /\ stored' = [stored EXCEPT ![k] = [val |-> v, at |-> clock]]
                /\ answer' = Nothing
                /\ UNCHANGED clock

LRemove(gone) == /\ stored' = [k \in Keys |-> IF k \in gone THEN Nothing ELSE stored[k]]
                 /\ answer' = Nothing
                 /\ UNCHANGED clock

LHit(k) == /\ stored[k] # Nothing
           /\ clock <= stored[k].at + TTL
           /\ answer' = [key |-> k, val |-> stored[k].val]
           /\ UNCHANGED <<stored, clock>>

LMiss == /\ answer' = Nothing
         /\ UNCHANGED <<stored, clock>>

LPass == /\ clock' = clock + 1
         /\ answer' = Nothing
         /\ UNCHANGED stored

LNext == \/ \E k \in Keys, v \in Vals : LStore(k, v)
         \/ \E gone \in SUBSET Keys : LRemove(gone)
         \/ \E k \in Keys : LHit(k)
         \/ LMiss
         \/ LPass

LSpec == LInit /\ [][LNext]_mapVars
=============================================================================
