----------------------------- MODULE CacheStore -----------------------------
(***************************************************************************)
(* The dictionary behind TTLCache (src/src/utils/cache.py) as a value, and *)
(* what each method does to it.  The class runs on one event loop and none *)
(* of its methods awaits, so a method is one operator applied in one step  *)
(* of whichever coroutine calls it.                                        *)
(*                                                                         *)
(* A Python dict remembers the order in which its present keys were first  *)
(* inserted, and set() evicts by it: "older" holds the pairs <<j, k>> of   *)
(* held keys such that j was inserted before k.                            *)
(***************************************************************************)
EXTENDS Integers, FiniteSets

CONSTANTS Keys,      \* what the cache is indexed by (movie codes, user ids)
          Vals,      \* what it stores
          TTL,       \* ttl_seconds
          MaxSize,   \* max_size
          NoEntry    \* marks a key that is not in the dict

(* Every cache of the program is built with a positive max_size.           *)
ASSUME CacheAssumption ==
    /\ IsFiniteSet(Keys)
    /\ TTL \in Nat
    /\ MaxSize \in Nat \ {0}
    /\ NoEntry \notin [expires : Nat, val : Vals]

Entries == [expires : Nat, val : Vals]

Caches == [entry : [Keys -> Entries \cup {NoEntry}],
           older : SUBSET (Keys \X Keys)]

EmptyCache == [entry |-> [k \in Keys |-> NoEntry], older |-> {}]

HeldKeys(c) == {k \in Keys : c.entry[k] # NoEntry}

(* Slip: entries outlive their ttl by one instant.                         *)
ExpiredKeysLate(c, now) == {k \in HeldKeys(c) : c.entry[k].expires + 1 < now}

(* An entry dies strictly after its expiry instant: expires_at < now.      *)
ExpiredKeys(c, now) == {k \in HeldKeys(c) : c.entry[k].expires < now}

IsHit(c, k, now) == k \in HeldKeys(c) \ ExpiredKeys(c, now)

(* Slip: a dropped key keeps its place in the order.                       *)
DropEntryOnly(c, gone) ==
    [c EXCEPT !.entry = [k \in Keys |-> IF k \in gone THEN NoEntry ELSE c.entry[k]]]

Drop(c, gone) ==
    [entry |-> [k \in Keys |-> IF k \in gone THEN NoEntry ELSE c.entry[k]],
     older |-> {p \in c.older : p[1] \notin gone /\ p[2] \notin gone}]

(* get() pops the entry it finds expired and leaves every other one alone. *)
AfterGet(c, k, now) == Drop(c, {k} \cap ExpiredKeys(c, now))

(* Slip: room is made only once the cache is over its limit.               *)
IsOverfull(c) == Cardinality(HeldKeys(c)) > MaxSize

IsFull(c) == Cardinality(HeldKeys(c)) >= MaxSize

(* Slip: the last key in insertion order is evicted.                       *)
NewestKey(c) == CHOOSE k \in HeldKeys(c) : \A j \in HeldKeys(c) : <<k, j>> \notin c.older

(* next(iter(self._store)): the first key in insertion order.              *)
OldestKey(c) == CHOOSE k \in HeldKeys(c) : \A j \in HeldKeys(c) : <<j, k>> \notin c.older

(* The two ways set() makes room; the second only if sweeping was not      *)
(* enough.  The key being written is not exempt.                           *)
Swept(c, now) == IF IsFull(c) THEN Drop(c, ExpiredKeys(c, now)) ELSE c
MadeRoom(c)   == IF IsFull(c) THEN Drop(c, {OldestKey(c)}) ELSE c

(* Assigning to a key already present keeps its place in the order.        *)
Insert(c, k, e) ==
    [entry |-> [c.entry EXCEPT ![k] = e],
     older |-> c.older \cup (IF k \in HeldKeys(c) THEN {} ELSE HeldKeys(c) \X {k})]

(* Slip: the ttl is subtracted.                                            *)
AfterSetBackdated(c, k, v, now) ==
    Insert(MadeRoom(Swept(c, now)), k, [expires |-> now - TTL, val |-> v])

AfterSet(c, k, v, now) ==
    Insert(MadeRoom(Swept(c, now)), k, [expires |-> now + TTL, val |-> v])

AfterInvalidate(c, k) == Drop(c, {k})
=============================================================================
