------------------------------ MODULE TTLCache ------------------------------
(***************************************************************************)
(* One TTLCache object (src/src/utils/cache.py) under every sequence of    *)
(* calls, interleaved with the passing of time.                            *)
(***************************************************************************)
EXTENDS CacheStore

CONSTANT MaxTime    \* bound on the clock

(* Nothing is stored that could be taken for the absence of an entry.      *)
ASSUME TTLCacheAssumption ==
    /\ MaxTime \in Nat
    /\ NoEntry \notin [val : Vals, at : Nat] \cup [key : Keys, val : Vals]

VARIABLES cache,    \* _store
          clock,    \* time.monotonic()
          answer,   \* what the last call returned
          stored    \* history: per key, what was last set (and when) unless removed since

vars == <<cache, clock, answer, stored>>

Stamps == [val : Vals, at : Nat]

TypeOK == /\ cache \in Caches
          /\ clock \in Nat
          /\ answer \in [key : Keys, val : Vals] \cup {NoEntry}
          /\ stored \in [Keys -> Stamps \cup {NoEntry}]

Init == /\ cache = EmptyCache
        /\ clock = 0
        /\ answer = NoEntry
        /\ stored = [k \in Keys |-> NoEntry]

Get(k) ==
    /\ answer' = IF IsHit(cache, k, clock)
                 THEN [key |-> k, val |-> cache.entry[k].val]
                 ELSE NoEntry
    /\ cache' = AfterGet(cache, k, clock)
    /\ UNCHANGED <<clock, stored>>

Set(k, v) ==
    /\ cache' = AfterSet(cache, k, v, clock)
    /\ stored' = [stored EXCEPT ![k] = [val |-> v, at |-> clock]]
    /\ answer' = NoEntry
    /\ UNCHANGED clock

Invalidate(k) ==
    /\ cache' = AfterInvalidate(cache, k)
    /\ stored' = [stored EXCEPT ![k] = NoEntry]
    /\ answer' = NoEntry
    /\ UNCHANGED clock

Clear ==
    /\ cache' = EmptyCache
    /\ stored' = [k \in Keys |-> NoEntry]
    /\ answer' = NoEntry
    /\ UNCHANGED clock

Tick ==
    /\ clock < MaxTime
    /\ clock' = clock + 1
    /\ answer' = NoEntry
    /\ UNCHANGED <<cache, stored>>

Next == \/ \E k \in Keys : Get(k) \/ Invalidate(k)
        \/ \E k \in Keys, v \in Vals : Set(k, v)
        \/ Clear
        \/ Tick

Spec == Init /\ [][Next]_vars

-----------------------------------------------------------------------------
(* The cache never holds more than max_size entries, whatever mixture of   *)
(* live and expired entries it is full of and whichever key is written     *)
(* (cache.py:59-70).                                                       *)
SizeBounded == Cardinality(HeldKeys(cache)) <= MaxSize

(* Eviction always finds a single first key: the insertion order is total  *)
(* on the keys that are held and mentions no other (cache.py:67).          *)
OrderMatchesEntries ==
    /\ cache.older \subseteq HeldKeys(cache) \X HeldKeys(cache)
    /\ \A j, k \in HeldKeys(cache) :
           j # k => (<<j, k>> \in cache.older <=> <<k, j>> \notin cache.older)

(* A live entry is lost only to its own invalidation, to clear(), or to a  *)
(* set() that found max_size entries all of them live, and then only one   *)
(* is lost, the one inserted before all others (cache.py:61-69).           *)
LiveEntryLostOnlyWhenFull ==
    [][ \A k \in Keys :
          (IsHit(cache, k, clock) /\ cache'.entry[k] = NoEntry /\ stored'[k] # NoEntry)
          => /\ Cardinality(HeldKeys(cache) \ ExpiredKeys(cache, clock)) = MaxSize
             /\ \A j \in HeldKeys(cache) \ {k} : <<k, j>> \in cache.older
      ]_vars

(* The cache is a lossy map: a hit is the last value stored under that     *)
(* key, stored at most TTL ago and not invalidated since.                  *)
Promise == INSTANCE LossyMap WITH Nothing <- NoEntry
ImplementsLossyMap == Promise!LSpec
=============================================================================
