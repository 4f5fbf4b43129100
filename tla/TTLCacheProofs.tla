--------------------------- MODULE TTLCacheProofs ---------------------------
(***************************************************************************)
(* What TTLCache guarantees for every set of keys and values, every        *)
(* ttl_seconds, every positive max_size and every horizon of the clock.    *)
(***************************************************************************)
EXTENDS TTLCache, FiniteSetTheorems, WellFoundedInduction, TLAPS

(* The insertion order relates held keys only, any two of them, and has a  *)
(* first element in every non-empty set of keys.                           *)
AnyTwo(c) == \A j, k \in HeldKeys(c) : j # k => <<j, k>> \in c.older \/ <<k, j>> \in c.older

Ordered(c) == /\ c.older \subseteq HeldKeys(c) \X HeldKeys(c)
              /\ AnyTwo(c)
              /\ IsWellFoundedOn(c.older, Keys)

(* Every entry is the image of what was last set under its key.            *)
Agrees == \A k \in Keys :
            cache.entry[k] # NoEntry =>
              /\ stored[k] # NoEntry
              /\ cache.entry[k].val = stored[k].val
              /\ cache.entry[k].expires = stored[k].at + TTL

IInv == TypeOK /\ Ordered(cache) /\ SizeBounded /\ Agrees

-----------------------------------------------------------------------------
(* A well-founded relation stays so when a key that is below nothing is    *)
(* put above some others.                                                  *)
LEMMA OrderExtends ==
    ASSUME NEW R, IsWellFoundedOn(R, Keys), NEW k \in Keys, NEW Q, NEW H \in SUBSET Keys,
           Q \subseteq R \cup (H \X {k}), k \notin H,
           \A j \in Keys : <<k, j>> \notin Q
    PROVE  IsWellFoundedOn(Q, Keys)
<1>1. SUFFICES ASSUME NEW T \in SUBSET Keys, T # {}
               PROVE  \E x \in T : \A y \in T : <<y, x>> \notin Q
  BY MinWF
<1>2. CASE T = {k}
  BY <1>2
<1>3. CASE T # {k}
  <2>1. T \ {k} # {} /\ T \ {k} \subseteq Keys
    BY <1>1, <1>3
  <2>2. PICK x \in T \ {k} : \A y \in T \ {k} : <<y, x>> \notin R
    BY <2>1, WFMin
  <2>3. \A y \in T : <<y, x>> \notin Q
    BY <2>2
  <2> QED
    BY <2>2, <2>3
<1> QED
  BY <1>2, <1>3

LEMMA DropProperties ==
    ASSUME NEW c \in Caches, Ordered(c), NEW gone \in SUBSET Keys
    PROVE  /\ Drop(c, gone) \in Caches
           /\ Ordered(Drop(c, gone))
           /\ HeldKeys(Drop(c, gone)) = HeldKeys(c) \ gone
           /\ \A k \in Keys : k \notin gone => Drop(c, gone).entry[k] = c.entry[k]
           /\ \A k \in gone : Drop(c, gone).entry[k] = NoEntry
<1> DEFINE d == Drop(c, gone)
<1>1. d \in Caches
  BY DEF Drop, Caches
<1>2. HeldKeys(d) = HeldKeys(c) \ gone
  BY DEF Drop, HeldKeys, Caches
<1>3. d.older \subseteq c.older /\ d.older \subseteq HeldKeys(d) \X HeldKeys(d)
  BY <1>2 DEF Drop, Ordered
<1>4. IsWellFoundedOn(d.older, Keys)
  BY <1>3, IsWellFoundedOnSubrelation DEF Ordered
<1>5. AnyTwo(d)
  BY <1>2 DEF Drop, Ordered, AnyTwo
<1> QED
  BY <1>1, <1>2, <1>3, <1>4, <1>5 DEF Drop, Ordered

LEMMA HeldFinite ==
    ASSUME NEW c \in Caches
    PROVE  /\ IsFiniteSet(HeldKeys(c))
           /\ HeldKeys(c) \subseteq Keys
           /\ Cardinality(HeldKeys(c)) \in Nat
BY FS_Subset, FS_CardinalityType, CacheAssumption DEF HeldKeys

(* Eviction always has a first key to pop.                                 *)
LEMMA OldestKeyHeld ==
    ASSUME NEW c \in Caches, Ordered(c), HeldKeys(c) # {}
    PROVE  OldestKey(c) \in HeldKeys(c)
<1>1. \E k \in HeldKeys(c) : \A j \in HeldKeys(c) : <<j, k>> \notin c.older
  BY WFMin, HeldFinite DEF Ordered
<1> QED
  BY <1>1 DEF OldestKey

(* After both stages of making room there is room for one more key.        *)
LEMMA RoomForOne ==
    ASSUME NEW c \in Caches, Ordered(c), Cardinality(HeldKeys(c)) <= MaxSize, NEW now \in Nat
    PROVE  LET room == MadeRoom(Swept(c, now))
           IN  /\ room \in Caches /\ Ordered(room)
               /\ HeldKeys(room) \subseteq HeldKeys(c)
               /\ \A k \in HeldKeys(room) : room.entry[k] = c.entry[k]
               /\ Cardinality(HeldKeys(room)) < MaxSize
<1> DEFINE s == Swept(c, now)
           room == MadeRoom(s)
<1>1. ExpiredKeys(c, now) \in SUBSET Keys
  BY DEF ExpiredKeys, HeldKeys
<1>2. /\ s \in Caches /\ Ordered(s)
      /\ HeldKeys(s) \subseteq HeldKeys(c)
      /\ \A k \in HeldKeys(s) : s.entry[k] = c.entry[k]
  BY <1>1, DropProperties, HeldFinite DEF Swept
<1>3. Cardinality(HeldKeys(s)) <= MaxSize
  BY <1>2, HeldFinite, FS_Subset, CacheAssumption
<1>4. CASE ~ IsFull(s)
  <2>1. room = s
    BY <1>4 DEF MadeRoom
  <2> QED
    BY <1>2, <1>4, <2>1, HeldFinite, CacheAssumption DEF IsFull
<1>5. CASE IsFull(s)
  <2>1. HeldKeys(s) # {}
    BY <1>5, FS_EmptySet, HeldFinite, <1>2, CacheAssumption DEF IsFull
  <2>2. OldestKey(s) \in HeldKeys(s) /\ OldestKey(s) \in Keys
    BY <2>1, <1>2, OldestKeyHeld, HeldFinite
  <2>3. room = Drop(s, {OldestKey(s)})
    BY <1>5 DEF MadeRoom
  <2>4. /\ room \in Caches /\ Ordered(room)
        /\ HeldKeys(room) = HeldKeys(s) \ {OldestKey(s)}
        /\ \A k \in HeldKeys(room) : room.entry[k] = s.entry[k]
    BY <2>2, <2>3, <1>2, DropProperties, HeldFinite
  <2>5. Cardinality(HeldKeys(room)) = Cardinality(HeldKeys(s)) - 1
    BY <2>2, <2>4, <1>2, FS_RemoveElement, HeldFinite
  <2> QED
    BY <1>2, <1>3, <2>4, <2>5, HeldFinite, CacheAssumption
<1> QED
  BY <1>4, <1>5

LEMMA SetProperties ==
    ASSUME NEW c \in Caches, Ordered(c), Cardinality(HeldKeys(c)) <= MaxSize,
           NEW now \in Nat, NEW k \in Keys, NEW v \in Vals
    PROVE  LET d == AfterSet(c, k, v, now)
           IN  /\ d \in Caches /\ Ordered(d)
               /\ Cardinality(HeldKeys(d)) <= MaxSize
               /\ d.entry[k] = [expires |-> now + TTL, val |-> v]
               /\ \A j \in Keys \ {k} : d.entry[j] = NoEntry \/ d.entry[j] = c.entry[j]
<1> DEFINE room == MadeRoom(Swept(c, now))
           e == [expires |-> now + TTL, val |-> v]
           d == Insert(room, k, e)
<1>1. /\ room \in Caches /\ Ordered(room)
      /\ HeldKeys(room) \subseteq HeldKeys(c)
      /\ \A j \in HeldKeys(room) : room.entry[j] = c.entry[j]
      /\ Cardinality(HeldKeys(room)) < MaxSize
  BY RoomForOne
<1>2. e \in Entries /\ e # NoEntry
  BY CacheAssumption DEF Entries
<1>3. d \in Caches
  BY <1>1, <1>2 DEF Insert, Caches, HeldKeys
<1>4. d.entry[k] = e /\ \A j \in Keys \ {k} : d.entry[j] = room.entry[j]
  BY <1>1 DEF Insert, Caches
<1>5. HeldKeys(d) = HeldKeys(room) \cup {k}
  BY <1>2, <1>4 DEF HeldKeys
<1>6. d.older \subseteq HeldKeys(d) \X HeldKeys(d)
  BY <1>1, <1>5 DEF Insert, Ordered
<1>7. IsWellFoundedOn(d.older, Keys)
  <2>1. CASE k \in HeldKeys(room)
    <3>1. d.older = room.older
      BY <2>1 DEF Insert
    <3> QED
      BY <3>1, <1>1 DEF Ordered
  <2>2. CASE k \notin HeldKeys(room)
    <3>1. d.older = room.older \cup (HeldKeys(room) \X {k})
      BY <2>2 DEF Insert
    <3>2. \A j \in Keys : <<k, j>> \notin d.older
      BY <3>1, <2>2, <1>1 DEF Ordered
    <3> QED
      BY <3>1, <3>2, <2>2, <1>1, HeldFinite, OrderExtends DEF Ordered
  <2> QED
    BY <2>1, <2>2
<1>8. Cardinality(HeldKeys(d)) <= MaxSize
  <2>1. \/ Cardinality(HeldKeys(d)) = Cardinality(HeldKeys(room))
        \/ Cardinality(HeldKeys(d)) = Cardinality(HeldKeys(room)) + 1
    BY <1>1, <1>5, HeldFinite, FS_AddElement
  <2> QED
    BY <2>1, <1>1, HeldFinite, CacheAssumption
<1>9. \A j \in Keys \ {k} : d.entry[j] = NoEntry \/ d.entry[j] = c.entry[j]
  BY <1>1, <1>4 DEF HeldKeys
<1>10. AnyTwo(d)
  BY <1>1, <1>5 DEF Insert, Ordered, AnyTwo
<1> QED
  BY <1>3, <1>4, <1>6, <1>7, <1>8, <1>9, <1>10 DEF AfterSet, Ordered
-----------------------------------------------------------------------------
LEMMA EmptyProperties ==
    /\ EmptyCache \in Caches /\ Ordered(EmptyCache)
    /\ HeldKeys(EmptyCache) = {}
<1>1. EmptyCache \in Caches /\ HeldKeys(EmptyCache) = {}
  BY DEF EmptyCache, Caches, HeldKeys
<1>2. IsWellFoundedOn({}, Keys)
  BY EmptyIsWellFounded
<1> QED
  BY <1>1, <1>2 DEF Ordered, AnyTwo, EmptyCache

LEMMA InitEstablishes == Init => IInv
<1>1. SUFFICES ASSUME Init PROVE IInv
  OBVIOUS
<1>2. TypeOK
  BY <1>1, EmptyProperties DEF Init, TypeOK
<1>3. Ordered(cache) /\ SizeBounded
  BY <1>1, EmptyProperties, FS_EmptySet, CacheAssumption DEF Init, SizeBounded
<1>4. Agrees
  BY <1>1 DEF Init, EmptyCache, Agrees
<1> QED
  BY <1>2, <1>3, <1>4 DEF IInv

(* Removing entries preserves all of it, provided the history forgets no   *)
(* more than the cache does.                                               *)
LEMMA DroppingPreserves ==
    ASSUME IInv, NEW gone \in SUBSET Keys, cache' = Drop(cache, gone),
           stored' \in [Keys -> Stamps \cup {NoEntry}],
           \A k \in Keys \ gone : stored'[k] = stored[k]
    PROVE  /\ cache' \in Caches /\ Ordered(cache)' /\ SizeBounded' /\ Agrees'
<1>1. /\ Drop(cache, gone) \in Caches /\ Ordered(Drop(cache, gone))
      /\ HeldKeys(Drop(cache, gone)) = HeldKeys(cache) \ gone
      /\ \A k \in Keys : k \notin gone => Drop(cache, gone).entry[k] = cache.entry[k]
      /\ \A k \in gone : Drop(cache, gone).entry[k] = NoEntry
  BY DropProperties DEF IInv, TypeOK
<1>2. cache' \in Caches /\ Ordered(cache')
  BY <1>1
<1>3. HeldKeys(cache') \subseteq HeldKeys(cache)
  BY <1>1
<1>4. Cardinality(HeldKeys(cache')) <= MaxSize
  BY <1>2, <1>3, HeldFinite, FS_Subset, CacheAssumption DEF IInv, TypeOK, SizeBounded
<1>5. Agrees'
  BY <1>1 DEF IInv, Agrees
<1> QED
  BY <1>2, <1>4, <1>5 DEF SizeBounded

LEMMA StepPreserves == IInv /\ [Next]_vars => IInv'
<1>1. SUFFICES ASSUME IInv, [Next]_vars PROVE IInv'
  OBVIOUS
<1> USE <1>1
<1>2. ASSUME NEW k \in Keys, Get(k) PROVE IInv'
  <2>1. {k} \cap ExpiredKeys(cache, clock) \in SUBSET Keys
    OBVIOUS
  <2>2. /\ cache' \in Caches /\ Ordered(cache)' /\ SizeBounded' /\ Agrees'
    BY <1>2, <2>1, DroppingPreserves DEF Get, AfterGet, IInv, TypeOK
  <2>3. answer' \in [key : Keys, val : Vals] \cup {NoEntry}
    BY <1>2 DEF Get, IsHit, HeldKeys, IInv, TypeOK, Caches, Entries
  <2> QED
    BY <1>2, <2>2, <2>3 DEF Get, IInv, TypeOK
<1>3. ASSUME NEW k \in Keys, Invalidate(k) PROVE IInv'
  <2>1. stored' \in [Keys -> Stamps \cup {NoEntry}] /\ \A j \in Keys \ {k} : stored'[j] = stored[j]
    BY <1>3 DEF Invalidate, IInv, TypeOK
  <2>2. /\ cache' \in Caches /\ Ordered(cache)' /\ SizeBounded' /\ Agrees'
    BY <1>3, <2>1, DroppingPreserves DEF Invalidate, AfterInvalidate
  <2> QED
    BY <1>3, <2>1, <2>2 DEF Invalidate, IInv, TypeOK
<1>4. ASSUME NEW k \in Keys, NEW v \in Vals, Set(k, v) PROVE IInv'
  <2>1. /\ cache' \in Caches /\ Ordered(cache')
        /\ Cardinality(HeldKeys(cache')) <= MaxSize
        /\ cache'.entry[k] = [expires |-> clock + TTL, val |-> v]
        /\ \A j \in Keys \ {k} : cache'.entry[j] = NoEntry \/ cache'.entry[j] = cache.entry[j]
    BY <1>4, SetProperties DEF Set, IInv, TypeOK, SizeBounded
  <2>2. stored' \in [Keys -> Stamps \cup {NoEntry}]
    BY <1>4 DEF Set, IInv, TypeOK, Stamps
  <2>3. stored'[k] = [val |-> v, at |-> clock] /\ \A j \in Keys \ {k} : stored'[j] = stored[j]
    BY <1>4 DEF Set, IInv, TypeOK
  <2>4. [val |-> v, at |-> clock] # NoEntry
    BY <2>2, <2>3, TTLCacheAssumption DEF IInv, TypeOK, Stamps
  <2>5. Agrees'
    BY <2>1, <2>3, <2>4 DEF IInv, Agrees
  <2> QED
    BY <1>4, <2>1, <2>2, <2>5 DEF Set, IInv, TypeOK, SizeBounded
<1>5. CASE Clear
  <2>1. /\ cache' \in Caches /\ Ordered(cache') /\ HeldKeys(cache') = {}
    BY <1>5, EmptyProperties DEF Clear
  <2>2. SizeBounded'
    BY <2>1, FS_EmptySet, CacheAssumption DEF SizeBounded
  <2>3. Agrees'
    BY <2>1 DEF Agrees, HeldKeys
  <2> QED
    BY <1>5, <2>1, <2>2, <2>3 DEF Clear, IInv, TypeOK
<1>6. CASE Tick
  BY <1>6 DEF Tick, IInv, TypeOK, SizeBounded, Agrees
<1>7. CASE UNCHANGED vars
  BY <1>7 DEF vars, IInv, TypeOK, SizeBounded, Agrees
<1> QED
  BY <1>2, <1>3, <1>4, <1>5, <1>6, <1>7 DEF Next

LEMMA InvariantHolds == Spec => []IInv
BY InitEstablishes, StepPreserves, PTL DEF Spec

(* Every reachable state of the cache is well typed (cache.py:37-43).      *)
THEOREM TypeCorrect == Spec => []TypeOK
BY InvariantHolds, PTL DEF IInv

(* The cache never grows beyond max_size, whatever is expired, evicted or  *)
(* overwritten on the way (cache.py:59-70).                                *)
THEOREM NeverOverfull == Spec => []SizeBounded
BY InvariantHolds, PTL DEF IInv

(* The insertion order is total on the keys that are held and knows no     *)
(* other (cache.py:67): a first key to evict is there, and only one.       *)
THEOREM OrderIsTotal == Spec => []OrderMatchesEntries
<1>1. IInv => OrderMatchesEntries
  <2> SUFFICES ASSUME IInv PROVE OrderMatchesEntries
    OBVIOUS
  <2>1. Ordered(cache) /\ HeldKeys(cache) \subseteq Keys
    BY DEF IInv, HeldKeys
  <2>2. ASSUME NEW j \in HeldKeys(cache), NEW k \in HeldKeys(cache), j # k
        PROVE  <<j, k>> \in cache.older <=> <<k, j>> \notin cache.older
    <3>1. \E x \in {j, k} : \A y \in {j, k} : <<y, x>> \notin cache.older
      <4> DEFINE two == {j, k}
      <4>1. two \subseteq Keys /\ two # {}
        BY <2>1
      <4>2. IsWellFoundedOn(cache.older, Keys)
        BY <2>1 DEF Ordered
      <4> HIDE DEF two
      <4>3. \E x \in two : \A y \in two : <<y, x>> \notin cache.older
        BY <4>1, <4>2, WFMin
      <4> QED
        BY <4>3 DEF two
    <3> QED
      BY <2>1, <2>2, <3>1 DEF Ordered, AnyTwo
  <2> QED
    BY <2>1, <2>2 DEF OrderMatchesEntries, Ordered
<1> QED
  BY <1>1, InvariantHolds, PTL

(* Eviction takes the key that was inserted before all others.             *)
LEMMA OldestIsFirst ==
    ASSUME NEW c \in Caches, Ordered(c), NEW k \in HeldKeys(c), k = OldestKey(c)
    PROVE  \A j \in HeldKeys(c) \ {k} : <<k, j>> \in c.older
<1>1. \E x \in HeldKeys(c) : \A j \in HeldKeys(c) : <<j, x>> \notin c.older
  BY WFMin, HeldFinite DEF Ordered
<1>2. \A j \in HeldKeys(c) : <<j, k>> \notin c.older
  BY <1>1 DEF OldestKey
<1> QED
  BY <1>2 DEF Ordered, AnyTwo

(* A set() makes a live entry give way only if it finds none that is       *)
(* expired and max_size of them, and then the first of them.               *)
LEMMA GivesWay ==
    ASSUME NEW c \in Caches, Ordered(c), Cardinality(HeldKeys(c)) <= MaxSize, NEW now \in Nat,
           NEW k \in HeldKeys(c) \ ExpiredKeys(c, now),
           MadeRoom(Swept(c, now)).entry[k] = NoEntry
    PROVE  /\ Cardinality(HeldKeys(c) \ ExpiredKeys(c, now)) = MaxSize
           /\ \A j \in HeldKeys(c) \ {k} : <<k, j>> \in c.older
<1> DEFINE s == Swept(c, now)
<1>1. ExpiredKeys(c, now) \in SUBSET Keys /\ k \in Keys /\ c.entry[k] # NoEntry
  BY DEF ExpiredKeys, HeldKeys
<1>2. /\ s \in Caches /\ Ordered(s) /\ HeldKeys(s) \subseteq HeldKeys(c)
      /\ s.entry[k] # NoEntry
      /\ IsFull(c) => HeldKeys(s) = HeldKeys(c) \ ExpiredKeys(c, now)
  BY <1>1, DropProperties DEF Swept
<1>3. IsFull(s)
  BY <1>2 DEF MadeRoom
<1>4. k = OldestKey(s)
  <2>1. k \in HeldKeys(s)
    BY <1>1, <1>2 DEF HeldKeys
  <2>2. OldestKey(s) \in Keys
    BY <1>2, <2>1, OldestKeyHeld, HeldFinite
  <2> QED
    BY <1>1, <1>2, <1>3, <2>2, DropProperties DEF MadeRoom
<1>5. IsFull(c)
  BY <1>3 DEF Swept
<1>6. HeldKeys(s) = HeldKeys(c) /\ Cardinality(HeldKeys(c)) = MaxSize
  <2>1. Cardinality(HeldKeys(s)) = Cardinality(HeldKeys(c))
    BY <1>2, <1>3, HeldFinite, FS_Subset, CacheAssumption DEF IsFull
  <2>2. HeldKeys(s) = HeldKeys(c)
    BY <1>2, <2>1, HeldFinite, FS_Subset
  <2> QED
    BY <1>5, <2>2, HeldFinite, CacheAssumption DEF IsFull
<1>7. s.older \subseteq c.older
  BY DEF Swept, Drop
<1>8. \A j \in HeldKeys(s) \ {k} : <<k, j>> \in s.older
  <2>1. k \in HeldKeys(s)
    BY <1>6
  <2> QED
    BY <1>2, <1>4, <2>1, OldestIsFirst
<1> QED
  BY <1>2, <1>5, <1>6, <1>7, <1>8

(* A live entry is lost only to its own invalidation, to clear(), or to a  *)
(* set() of another key that found max_size entries all of them live; it   *)
(* is then the one inserted before all others (cache.py:61-69).            *)
THEOREM LiveEntriesAreKept == Spec => LiveEntryLostOnlyWhenFull
<1> DEFINE Kept == \A k \in Keys :
          (IsHit(cache, k, clock) /\ cache'.entry[k] = NoEntry /\ stored'[k] # NoEntry)
          => /\ Cardinality(HeldKeys(cache) \ ExpiredKeys(cache, clock)) = MaxSize
             /\ \A j \in HeldKeys(cache) \ {k} : <<k, j>> \in cache.older
<1>1. IInv /\ [Next]_vars => [Kept]_vars
  <2> SUFFICES ASSUME IInv, Next, NEW k \in Keys,
                      IsHit(cache, k, clock), cache'.entry[k] = NoEntry, stored'[k] # NoEntry
               PROVE  /\ Cardinality(HeldKeys(cache) \ ExpiredKeys(cache, clock)) = MaxSize
                      /\ \A j \in HeldKeys(cache) \ {k} : <<k, j>> \in cache.older
    OBVIOUS
  <2>0. /\ cache \in Caches /\ Ordered(cache) /\ clock \in Nat
        /\ Cardinality(HeldKeys(cache)) <= MaxSize
        /\ k \in HeldKeys(cache) \ ExpiredKeys(cache, clock) /\ cache.entry[k] # NoEntry
    BY DEF IInv, TypeOK, SizeBounded, IsHit, HeldKeys
  <2>1. ASSUME NEW j \in Keys, Get(j) PROVE FALSE
    BY <2>0, <2>1 DEF Get, AfterGet, Drop
  <2>2. ASSUME NEW j \in Keys, Invalidate(j) PROVE FALSE
    BY <2>0, <2>2 DEF Invalidate, AfterInvalidate, Drop, IInv, TypeOK
  <2>3. ~ Clear /\ ~ Tick
    BY <2>0 DEF Clear, Tick
  <2>4. PICK j \in Keys, v \in Vals : Set(j, v)
    BY <2>1, <2>2, <2>3 DEF Next
  <2> DEFINE room == MadeRoom(Swept(cache, clock))
             e == [expires |-> clock + TTL, val |-> v]
  <2>5. cache'.entry = [room.entry EXCEPT ![j] = e]
    BY <2>4 DEF Set, AfterSet, Insert
  <2>6. room \in Caches /\ e # NoEntry
    BY <2>0, RoomForOne, CacheAssumption
  <2>7. room.entry[k] = NoEntry
    BY <2>5, <2>6 DEF Caches
  <2> QED
    BY <2>0, <2>7, GivesWay
<1> QED
  BY <1>1, InvariantHolds, PTL DEF Spec, LiveEntryLostOnlyWhenFull

-----------------------------------------------------------------------------
LEMMA InitRefines == Init => Promise!LInit
BY DEF Init, Promise!LInit

LEMMA StepRefines == IInv /\ [Next]_vars => [Promise!LNext]_(Promise!mapVars)
<1>1. SUFFICES ASSUME IInv, [Next]_vars PROVE [Promise!LNext]_(Promise!mapVars)
  OBVIOUS
<1> USE <1>1
<1>2. ASSUME NEW k \in Keys, Get(k) PROVE Promise!LNext
  <2>1. CASE IsHit(cache, k, clock)
    <3>1. cache.entry[k] # NoEntry /\ ~ (cache.entry[k].expires < clock)
      BY <2>1 DEF IsHit, HeldKeys, ExpiredKeys
    <3>2. /\ stored[k] # NoEntry
          /\ cache.entry[k].val = stored[k].val
          /\ cache.entry[k].expires = stored[k].at + TTL
      BY <3>1 DEF IInv, Agrees
    <3>3. clock <= stored[k].at + TTL
      BY <3>1, <3>2, CacheAssumption DEF IInv, TypeOK, Stamps
    <3>4. Promise!LHit(k)
      BY <1>2, <2>1, <3>2, <3>3 DEF Get, Promise!LHit
    <3> QED
      BY <3>4 DEF Promise!LNext
  <2>2. CASE ~ IsHit(cache, k, clock)
    BY <1>2, <2>2 DEF Get, Promise!LNext, Promise!LMiss
  <2> QED
    BY <2>1, <2>2
<1>3. ASSUME NEW k \in Keys, Invalidate(k) PROVE Promise!LNext
  <2>1. stored' = [j \in Keys |-> IF j \in {k} THEN NoEntry ELSE stored[j]]
    BY <1>3 DEF Invalidate, IInv, TypeOK
  <2>2. Promise!LRemove({k})
    BY <1>3, <2>1 DEF Invalidate, Promise!LRemove
  <2> QED
    BY <2>2 DEF Promise!LNext
<1>4. ASSUME NEW k \in Keys, NEW v \in Vals, Set(k, v) PROVE Promise!LNext
  BY <1>4 DEF Set, Promise!LNext, Promise!LStore
<1>5. CASE Clear
  <2>1. Promise!LRemove(Keys)
    BY <1>5 DEF Clear, Promise!LRemove
  <2> QED
    BY <2>1 DEF Promise!LNext
<1>6. CASE Tick
  BY <1>6 DEF Tick, Promise!LNext, Promise!LPass
<1>7. CASE UNCHANGED vars
  BY <1>7 DEF vars, Promise!mapVars
<1> QED
  BY <1>2, <1>3, <1>4, <1>5, <1>6, <1>7 DEF Next

(* TTLCache implements the lossy map its callers rely on: no hit is ever   *)
(* older than ttl_seconds, superseded, or taken from another key           *)
(* (cache.py:45-78).                                                       *)
THEOREM Refinement == Spec => ImplementsLossyMap
BY InvariantHolds, InitRefines, StepRefines, PTL DEF Spec, ImplementsLossyMap, Promise!LSpec
=============================================================================
