------------------------- MODULE MovieLookupProofs --------------------------
(***************************************************************************)
(* What MovieLookup guarantees for every number of viewers, editors,       *)
(* movies and codes, both database backends, and every TTL, cache size and *)
(* read delay.                                                             *)
(***************************************************************************)
EXTENDS MovieLookup, FiniteSetTheorems, TLAPS

(* Which of a task's variables are set at which step.                      *)
ViewerControl(t) ==
    /\ at[t] \in ViewerSteps \cup EndSteps
    /\ at[t] # "idle" => req[t] # None
    /\ at[t] \in {"idle", "count", "gate", "lookup", "read"} => obj[t] = None
    /\ at[t] = "fill" => obj[t] # None
    /\ at[t] \in {"check", "logHit", "send", "register", "record"} =>
           using[t] # None /\ obj[using[t]] # None

EditorControl(e) ==
    /\ at[e] \in {"idle", "write"} \cup EndSteps
    /\ at[e] \in {"write", "reply", "commit", "abort"} => edit[e] # None
    /\ edit[e] # None => /\ edit[e].kind = "code" => edit[e].to \in Codes
                         /\ edit[e].kind = "visibility" => edit[e].to \in Rules

Control == /\ \A t \in Viewers : ViewerControl(t)
           /\ \A e \in Editors : EditorControl(e)

(* Where an instance stands in time.                                       *)
InstanceTimes(t) ==
    obj[t] # None =>
      /\ obj[t].readAt <= clock
      /\ at[t] = "fill" => clock <= obj[t].readAt + FillDelay
      /\ obj[t].staleAt # -1 => obj[t].staleAt >= obj[t].readAt
      /\ obj[t].state = "expired" => at[t] = "failed"

(* An entry was filled in time by the owner of its instance, and before    *)
(* that session could be rolled back.                                      *)
EntryTimes(c) ==
    cache.entry[c] # None =>
      /\ Served(c) # None
      /\ at[cache.entry[c].val] # "fill"
      /\ cache.entry[c].expires <= clock + TTL
      /\ cache.entry[c].expires <= Served(c).readAt + FillDelay + TTL
      /\ Served(c).state = "expired" =>
             cache.entry[c].expires <= Served(c).expiredAt + TTL

IInv == /\ TypeOK
        /\ Control
        /\ \A t \in Viewers : InstanceTimes(t)
        /\ \A c \in Codes : EntryTimes(c)

-----------------------------------------------------------------------------
(* What the cache operations leave in the cache; no assumption on the      *)
(* insertion order is needed.                                              *)
LEMMA DropKeeps ==
    ASSUME NEW s \in Code!Caches, NEW gone
    PROVE  /\ Code!Drop(s, gone) \in Code!Caches
           /\ \A c \in Codes : Code!Drop(s, gone).entry[c] \in {None, s.entry[c]}
BY DEF Code!Drop, Code!Caches

LEMMA SetKeeps ==
    ASSUME NEW s \in Code!Caches, NEW k \in Codes, NEW v \in Viewers, NEW now \in Nat
    PROVE  LET d == Code!AfterSet(s, k, v, now)
           IN  /\ d \in Code!Caches
               /\ d.entry[k] = [expires |-> now + TTL, val |-> v]
               /\ \A c \in Codes \ {k} : d.entry[c] \in {None, s.entry[c]}
<1> DEFINE w == Code!Swept(s, now)
           r == Code!MadeRoom(w)
           e == [expires |-> now + TTL, val |-> v]
<1>1. w \in Code!Caches /\ \A c \in Codes : w.entry[c] \in {None, s.entry[c]}
  BY DropKeeps DEF Code!Swept
<1>2. r \in Code!Caches /\ \A c \in Codes : r.entry[c] \in {None, w.entry[c]}
  BY <1>1, DropKeeps DEF Code!MadeRoom
<1>3. e \in Code!Entries
  BY LookupAssumption DEF Code!Entries
<1>4. Code!Insert(r, k, e).entry = [r.entry EXCEPT ![k] = e]
  BY DEF Code!Insert
<1>5. Code!Insert(r, k, e) \in Code!Caches
  BY <1>2, <1>3 DEF Code!Insert, Code!Caches, Code!HeldKeys
<1> QED
  BY <1>1, <1>2, <1>4, <1>5 DEF Code!AfterSet, Code!Caches

LEMMA InitEstablishes == Init => IInv
<1>1. SUFFICES ASSUME Init PROVE IInv
  OBVIOUS
<1>2. row \in [Movies -> Rows \cup {None}]
  <2>1. ASSUME NEW r \in [code : Codes, rule : Rules, active : {TRUE}, views : {0}]
        PROVE  r \in Rows
    <3>1. r.code \in Codes /\ r.rule \in Rules /\ r.views \in Nat
      OBVIOUS
    <3>2. r.active \in BOOLEAN
      BY Zenon
    <3>3. r = [code |-> r.code, rule |-> r.rule, active |-> r.active, views |-> r.views]
      OBVIOUS
    <3> QED
      BY <3>1, <3>2, <3>3 DEF Rows
  <2>2. row \in [Movies -> [code : Codes, rule : Rules, active : {TRUE}, views : {0}]]
    BY <1>1 DEF Init
  <2> QED
    BY <2>1, <2>2
<1>3. cache \in Code!Caches /\ \A c \in Codes : cache.entry[c] = None
  BY <1>1 DEF Init, Code!EmptyCache, Code!Caches
<1>4. TypeOK
  BY <1>1, <1>2, <1>3 DEF Init, TypeOK, ViewerSteps, EndSteps
<1>5. Control
  BY <1>1, LookupAssumption DEF Init, Control, ViewerControl, EditorControl, ViewerSteps, EndSteps, Tasks
<1>6. (\A t \in Viewers : InstanceTimes(t)) /\ (\A c \in Codes : EntryTimes(c))
  BY <1>1, <1>3 DEF Init, InstanceTimes, EntryTimes
<1> QED
  BY <1>4, <1>5, <1>6 DEF IInv

-----------------------------------------------------------------------------
(* Moving a task, without touching instances, cache or clock, preserves    *)
(* the times unless the step concerns a fill or a failure.                 *)
LEMMA MovePreservesTimes ==
    ASSUME IInv, NEW t \in Tasks, NEW step \in {"count", "gate", "lookup", "read", "check",
                   "logHit", "logMiss", "send", "register", "record", "write",
                   "reply", "commit", "abort", "done", "failed"},
           at' = [at EXCEPT ![t] = step], at[t] \notin {"fill", "failed"},
           UNCHANGED <<obj, clock>>,
           cache' \in Code!Caches,
           \A c \in Codes : cache'.entry[c] \in {None, cache.entry[c]}
    PROVE  (\A u \in Viewers : InstanceTimes(u)') /\ (\A c \in Codes : EntryTimes(c)')
<1>1. ASSUME NEW u \in Viewers PROVE InstanceTimes(u)'
  BY LookupAssumption DEF IInv, TypeOK, InstanceTimes, Tasks
<1>2. ASSUME NEW c \in Codes PROVE EntryTimes(c)'
  <2>1. CASE cache'.entry[c] = None
    BY <2>1 DEF EntryTimes
  <2>2. CASE cache'.entry[c] = cache.entry[c] /\ cache.entry[c] # None
    <3>1. cache.entry[c].val \in Viewers
      BY <2>2 DEF IInv, TypeOK, Code!Caches, Code!Entries
    <3> QED
      BY <2>2, <3>1 DEF IInv, TypeOK, EntryTimes, Served, Tasks
  <2> QED
    BY <2>1, <2>2
<1> QED
  BY <1>1, <1>2
-----------------------------------------------------------------------------
(* Steps that move one viewer along and leave the instances alone.         *)
LEMMA QuietViewerStep ==
    ASSUME IInv, NEW t \in Viewers,
           CountSearch(t) \/ Gate(t) \/ Lookup(t) \/ Check(t) \/ LogSearch(t) \/ Send(t) \/ Record(t)
    PROVE  IInv'
<1> DEFINE Moved(step) == at' = [at EXCEPT ![t] = step]
<1> USE DEF IInv
<1>1. t \in Tasks /\ t \notin Editors
  BY LookupAssumption DEF Tasks
<1>2. CASE CountSearch(t)
  <2>1. PICK step \in {"abort", "gate"} : Moved(step)
    BY <1>2 DEF CountSearch, Goto
  <2>2. TypeOK'
    BY <1>2, <1>1, <2>1 DEF CountSearch, TypeOK, ViewerSteps, EndSteps, Lock, CountLocks
  <2>3. Control'
    BY <1>2, <1>1, <2>1 DEF CountSearch, TypeOK, Control, ViewerControl, EditorControl, ViewerSteps, EndSteps, Tasks
  <2>4. cache' \in Code!Caches /\ \A c \in Codes : cache'.entry[c] \in {None, cache.entry[c]}
    BY <1>2 DEF CountSearch, TypeOK
  <2>5. (\A u \in Viewers : InstanceTimes(u)') /\ (\A c \in Codes : EntryTimes(c)')
    BY <1>2, <1>1, <2>1, <2>4, MovePreservesTimes DEF CountSearch
  <2> QED
    BY <2>2, <2>3, <2>5
<1>3. CASE Gate(t)
  <2>1. PICK step \in {"lookup", "reply"} : Moved(step)
    BY <1>3 DEF Gate, Goto
  <2>2. TypeOK'
    BY <1>3, <1>1, <2>1 DEF Gate, TypeOK, ViewerSteps, EndSteps
  <2>3. Control'
    BY <1>3, <1>1, <2>1 DEF Gate, TypeOK, Control, ViewerControl, EditorControl, ViewerSteps, EndSteps, Tasks
  <2>4. cache' \in Code!Caches /\ \A c \in Codes : cache'.entry[c] \in {None, cache.entry[c]}
    BY <1>3 DEF Gate, TypeOK
  <2>5. (\A u \in Viewers : InstanceTimes(u)') /\ (\A c \in Codes : EntryTimes(c)')
    BY <1>3, <1>1, <2>1, <2>4, MovePreservesTimes DEF Gate
  <2> QED
    BY <2>2, <2>3, <2>5
<1>4. CASE Lookup(t)
  <2>1. /\ cache' \in Code!Caches
        /\ \A c \in Codes : cache'.entry[c] \in {None, cache.entry[c]}
    BY <1>4, DropKeeps DEF Lookup, TypeOK, Code!AfterGet, Code!Caches
  <2>2. PICK step \in {"check", "read"} : Moved(step)
    BY <1>4 DEF Lookup, Goto
  <2>3. using' \in [Viewers -> Viewers \cup {None}]
    BY <1>4, <1>1 DEF Lookup, TypeOK, Code!IsHit, Code!HeldKeys, Code!Caches, Code!Entries, Control, ViewerControl, Requests
  <2>4. at[t] = "lookup" /\ req[t] \in Requests
    BY <1>4, <1>1 DEF Lookup, TypeOK, Control, ViewerControl
  <2>5. TypeOK'
    BY <1>4, <1>1, <2>1, <2>2, <2>3 DEF Lookup, TypeOK, ViewerSteps, EndSteps
  <2>6. step = "check" => using'[t] # None /\ obj[using'[t]] # None
    <3>1. SUFFICES ASSUME step = "check"
                   PROVE  using'[t] # None /\ obj[using'[t]] # None
      OBVIOUS
    <3>2. Code!IsHit(cache, req[t].code, clock) /\ using' = [using EXCEPT ![t] = cache.entry[req[t].code].val]
      BY <3>1, <1>4, <1>1, <2>2 DEF Lookup, Goto, TypeOK
    <3>3. cache.entry[req[t].code] # None /\ req[t].code \in Codes
      BY <3>2, <2>4 DEF Code!IsHit, Code!HeldKeys, Requests
    <3>4. cache.entry[req[t].code].val \in Viewers
      BY <3>3 DEF TypeOK, Code!Caches, Code!Entries
    <3>5. obj[cache.entry[req[t].code].val] # None
      BY <3>3 DEF EntryTimes, Served
    <3>6. cache.entry[req[t].code].val # None
      BY <3>4, NoneAssumption DEF Tasks
    <3> QED
      BY <3>2, <3>4, <3>5, <3>6 DEF TypeOK
  <2>7. Control'
    BY <1>4, <1>1, <2>2, <2>4, <2>6 DEF Lookup, TypeOK, Control, ViewerControl, EditorControl, ViewerSteps, EndSteps, Tasks
  <2>8. (\A u \in Viewers : InstanceTimes(u)') /\ (\A c \in Codes : EntryTimes(c)')
    BY <1>4, <1>1, <2>1, <2>2, <2>4, MovePreservesTimes DEF Lookup
  <2> QED
    BY <2>5, <2>7, <2>8
<1>5. CASE Check(t)
  <2>1. PICK step \in {"abort", "logHit", "logMiss"} : Moved(step)
    BY <1>5 DEF Check, Goto
  <2>2. TypeOK'
    BY <1>5, <1>1, <2>1 DEF Check, TypeOK, ViewerSteps, EndSteps
  <2>3. Control'
    BY <1>5, <1>1, <2>1 DEF Check, TypeOK, Control, ViewerControl, EditorControl, ViewerSteps, EndSteps, Tasks
  <2>4. cache' \in Code!Caches /\ \A c \in Codes : cache'.entry[c] \in {None, cache.entry[c]}
    BY <1>5 DEF Check, TypeOK
  <2>5. (\A u \in Viewers : InstanceTimes(u)') /\ (\A c \in Codes : EntryTimes(c)')
    BY <1>5, <1>1, <2>1, <2>4, MovePreservesTimes DEF Check
  <2> QED
    BY <2>2, <2>3, <2>5
<1>6. CASE LogSearch(t)
  <2>1. PICK step \in {"abort", "send", "reply"} :
            Moved(step) /\ (step = "send" => at[t] = "logHit")
    BY <1>6 DEF LogSearch, Goto
  <2>2. TypeOK'
    BY <1>6, <1>1, <2>1 DEF LogSearch, TypeOK, ViewerSteps, EndSteps, Lock
  <2>3. Control'
    BY <1>6, <1>1, <2>1 DEF LogSearch, TypeOK, Control, ViewerControl, EditorControl, ViewerSteps, EndSteps, Tasks
  <2>4. cache' \in Code!Caches /\ \A c \in Codes : cache'.entry[c] \in {None, cache.entry[c]}
    BY <1>6 DEF LogSearch, TypeOK
  <2>5. (\A u \in Viewers : InstanceTimes(u)') /\ (\A c \in Codes : EntryTimes(c)')
    BY <1>6, <1>1, <2>1, <2>4, MovePreservesTimes DEF LogSearch
  <2> QED
    BY <2>2, <2>3, <2>5
<1>7. CASE Send(t)
  <2>1. PICK step \in {"register", "abort"} : Moved(step)
    BY <1>7 DEF Send, Goto
  <2>2. TypeOK'
    BY <1>7, <1>1, <2>1 DEF Send, TypeOK, ViewerSteps, EndSteps
  <2>3. Control'
    BY <1>7, <1>1, <2>1 DEF Send, TypeOK, Control, ViewerControl, EditorControl, ViewerSteps, EndSteps, Tasks
  <2>4. cache' \in Code!Caches /\ \A c \in Codes : cache'.entry[c] \in {None, cache.entry[c]}
    BY <1>7 DEF Send, TypeOK
  <2>5. (\A u \in Viewers : InstanceTimes(u)') /\ (\A c \in Codes : EntryTimes(c)')
    BY <1>7, <1>1, <2>1, <2>4, MovePreservesTimes DEF Send
  <2> QED
    BY <2>2, <2>3, <2>5
<1>8. CASE Record(t)
  <2>1. PICK step \in {"abort", "reply", "commit"} : Moved(step)
    BY <1>8 DEF Record, Goto
  <2>2. TypeOK'
    BY <1>8, <1>1, <2>1 DEF Record, TypeOK, ViewerSteps, EndSteps, Lock
  <2>3. Control'
    BY <1>8, <1>1, <2>1 DEF Record, TypeOK, Control, ViewerControl, EditorControl, ViewerSteps, EndSteps, Tasks
  <2>4. cache' \in Code!Caches /\ \A c \in Codes : cache'.entry[c] \in {None, cache.entry[c]}
    BY <1>8 DEF Record, TypeOK
  <2>5. (\A u \in Viewers : InstanceTimes(u)') /\ (\A c \in Codes : EntryTimes(c)')
    BY <1>8, <1>1, <2>1, <2>4, MovePreservesTimes DEF Record
  <2> QED
    BY <2>2, <2>3, <2>5
<1> QED
  BY <1>2, <1>3, <1>4, <1>5, <1>6, <1>7, <1>8
-----------------------------------------------------------------------------
(* A viewer's request arrives.                                             *)
LEMMA ReceiveStep ==
    ASSUME IInv, NEW t \in Viewers, NEW c \in Codes, NEW button \in BOOLEAN,
           Receive(t, c, button)
    PROVE  IInv'
<1> USE DEF IInv
<1>1. t \in Tasks /\ t \notin Editors
  BY LookupAssumption DEF Tasks
<1>2. PICK step \in {"gate", "count"} : at' = [at EXCEPT ![t] = step]
  BY DEF Receive, Goto
<1>3. [code |-> c, button |-> button] \in Requests /\ [code |-> c, button |-> button] # None
  BY NoneAssumption DEF Requests
<1>4. req' \in [Viewers -> Requests \cup {None}] /\ req'[t] # None
      /\ \A u \in Viewers \ {t} : req'[u] = req[u]
  BY <1>3 DEF Receive, TypeOK
<1>5. TypeOK'
  BY <1>1, <1>2, <1>4 DEF Receive, TypeOK, ViewerSteps, EndSteps
<1>6. Control'
  BY <1>1, <1>2, <1>4 DEF Receive, TypeOK, Control, ViewerControl, EditorControl, ViewerSteps, EndSteps, Tasks
<1>7. (\A u \in Viewers : InstanceTimes(u)') /\ (\A d \in Codes : EntryTimes(d)')
  <2>1. cache' \in Code!Caches /\ \A d \in Codes : cache'.entry[d] \in {None, cache.entry[d]}
    BY DEF Receive, TypeOK
  <2>2. at[t] \notin {"fill", "failed"} /\ UNCHANGED <<obj, clock>>
    BY DEF Receive
  <2> QED
    BY <1>1, <1>2, <2>1, <2>2, MovePreservesTimes
<1> QED
  BY <1>5, <1>6, <1>7

(* A miss reads the row: the new instance is as old as the clock.          *)
LEMMA ReadRowStep ==
    ASSUME IInv, NEW t \in Viewers, ReadRow(t)
    PROVE  IInv'
<1> USE DEF IInv
<1>1. t \in Tasks /\ t \notin Editors
  BY LookupAssumption DEF Tasks
<1>2. at[t] = "read" /\ obj[t] = None /\ UNCHANGED <<row, owner, cache, clock, req, using, edit, sent, withdrawn>>
  BY DEF ReadRow, Control, ViewerControl
<1>3. \A c \in Codes : cache.entry[c] # None => cache.entry[c].val \in Viewers \ {t}
  BY <1>2 DEF TypeOK, EntryTimes, Served, Code!Caches, Code!Entries
<1>4. CASE at' = [at EXCEPT ![t] = "logMiss"] /\ obj' = obj
  <2>1. TypeOK'
    BY <1>1, <1>2, <1>4 DEF TypeOK, ViewerSteps, EndSteps
  <2>2. Control'
    BY <1>1, <1>2, <1>4 DEF TypeOK, Control, ViewerControl, EditorControl, ViewerSteps, EndSteps, Tasks
  <2>3. cache' \in Code!Caches /\ \A d \in Codes : cache'.entry[d] \in {None, cache.entry[d]}
    BY <1>2 DEF TypeOK
  <2>4. (\A u \in Viewers : InstanceTimes(u)') /\ (\A d \in Codes : EntryTimes(d)')
    BY <1>1, <1>2, <1>4, <2>3, MovePreservesTimes
  <2> QED
    BY <2>1, <2>2, <2>4
<1>5. ASSUME NEW m \in Movies, IsActiveAt(m, req[t].code),
             obj' = [obj EXCEPT ![t] =
                   [movie |-> m, rule |-> row[m].rule, views |-> row[m].views,
                    dirty |-> FALSE, state |-> "attached",
                    readAt |-> clock, staleAt |-> -1, expiredAt |-> -1]],
             at' = [at EXCEPT ![t] = "fill"]
      PROVE  IInv'
  <2> DEFINE o == [movie |-> m, rule |-> row[m].rule, views |-> row[m].views,
                   dirty |-> FALSE, state |-> "attached",
                   readAt |-> clock, staleAt |-> -1, expiredAt |-> -1]
  <2>1. o \in Instances /\ o # None
    <3>1. row[m] \in Rows
      BY <1>5 DEF IsActiveAt, TypeOK
    <3>2. o \in Instances
      BY <3>1 DEF Instances, Rows, TypeOK
    <3> QED
      BY <3>2, NoneAssumption
  <2>2. obj'[t] = o /\ \A u \in Viewers \ {t} : obj'[u] = obj[u]
    BY <1>5 DEF TypeOK
  <2>3. obj' \in [Viewers -> Instances \cup {None}]
    BY <1>5, <2>1 DEF TypeOK
  <2>4. TypeOK'
    BY <1>1, <1>2, <1>5, <2>3 DEF TypeOK, ViewerSteps, EndSteps
  <2>5. Control'
    BY <1>1, <1>2, <1>5, <2>1, <2>2 DEF TypeOK, Control, ViewerControl, EditorControl, ViewerSteps, EndSteps, Tasks
  <2>6. ASSUME NEW u \in Viewers PROVE InstanceTimes(u)'
    <3>1. CASE u = t
      BY <3>1, <1>1, <1>2, <1>5, <2>2, LookupAssumption DEF TypeOK, InstanceTimes
    <3>2. CASE u # t
      BY <3>2, <1>1, <1>2, <1>5, <2>2 DEF TypeOK, InstanceTimes, Tasks
    <3> QED
      BY <3>1, <3>2
  <2>7. ASSUME NEW c \in Codes PROVE EntryTimes(c)'
    BY <1>1, <1>2, <1>3, <1>5, <2>2 DEF TypeOK, EntryTimes, Served, Tasks
  <2> QED
    BY <2>4, <2>5, <2>6, <2>7
<1> QED
  BY <1>2, <1>4, <1>5 DEF ReadRow, Goto

(* The instance enters the cache no later than FillDelay after its read.   *)
LEMMA FillStep ==
    ASSUME IInv, NEW t \in Viewers, Fill(t)
    PROVE  IInv'
<1> USE DEF IInv
<1>1. t \in Tasks /\ t \notin Editors /\ t # None
  BY LookupAssumption, NoneAssumption DEF Tasks
<1>2. /\ at[t] = "fill" /\ at' = [at EXCEPT ![t] = "check"]
      /\ using' = [using EXCEPT ![t] = t]
      /\ UNCHANGED <<row, owner, clock, req, obj, edit, sent, withdrawn>>
  BY DEF Fill, Goto
<1>3. req[t].code \in Codes /\ obj[t] # None
  BY <1>1, <1>2 DEF Control, ViewerControl, TypeOK, Requests
<1>4. /\ cache' \in Code!Caches
      /\ cache'.entry[req[t].code] = [expires |-> clock + TTL, val |-> t]
      /\ \A c \in Codes \ {req[t].code} : cache'.entry[c] \in {None, cache.entry[c]}
  BY <1>3, SetKeeps DEF Fill, TypeOK
<1>5. TypeOK'
  BY <1>1, <1>2, <1>4 DEF TypeOK, ViewerSteps, EndSteps
<1>6. Control'
  BY <1>1, <1>2, <1>3 DEF TypeOK, Control, ViewerControl, EditorControl, ViewerSteps, EndSteps, Tasks
<1>7. ASSUME NEW u \in Viewers PROVE InstanceTimes(u)'
  BY <1>1, <1>2 DEF TypeOK, InstanceTimes, Tasks
<1>8. ASSUME NEW c \in Codes PROVE EntryTimes(c)'
  <2>1. CASE c = req[t].code
    <3>1. clock <= obj[t].readAt + FillDelay /\ obj[t].state # "expired" /\ obj[t] \in Instances
      BY <1>2, <1>3 DEF InstanceTimes, TypeOK
    <3>2. obj[t].readAt \in Nat
      BY <3>1 DEF Instances
    <3> QED
      BY <2>1, <3>1, <3>2, <1>1, <1>2, <1>3, <1>4, LookupAssumption DEF TypeOK, EntryTimes, Served
  <2>2. CASE c # req[t].code /\ cache'.entry[c] # None
    <3>1. cache'.entry[c] = cache.entry[c]
      BY <2>2, <1>4
    <3>2. cache.entry[c].val \in Viewers
      BY <2>2, <3>1 DEF TypeOK, Code!Caches, Code!Entries
    <3> QED
      BY <2>2, <3>1, <3>2, <1>1, <1>2 DEF TypeOK, EntryTimes, Served, Tasks
  <2> QED
    BY <2>1, <2>2 DEF EntryTimes
<1> QED
  BY <1>5, <1>6, <1>7, <1>8
-----------------------------------------------------------------------------
(* What changing an instance in place may do to it: count a view, detach   *)
(* it, or mark it as outdated from now on.                                 *)
SameInstance(u) ==
    /\ obj[u] = None => obj'[u] = None
    /\ obj[u] # None => /\ obj'[u] # None
                        /\ obj'[u].readAt = obj[u].readAt
                        /\ obj'[u].expiredAt = obj[u].expiredAt
                        /\ obj'[u].staleAt \in {obj[u].staleAt, clock}
                        /\ obj'[u].state = "expired" => obj[u].state = "expired"

LEMMA ChangePreservesTimes ==
    ASSUME IInv, NEW t \in Tasks, NEW step \in {"record", "abort", "done"},
           at' = [at EXCEPT ![t] = step], at[t] \notin {"fill", "failed"},
           UNCHANGED <<cache, clock>>, \A u \in Viewers : SameInstance(u)
    PROVE  (\A u \in Viewers : InstanceTimes(u)') /\ (\A c \in Codes : EntryTimes(c)')
<1> USE DEF IInv
<1>1. ASSUME NEW u \in Viewers PROVE InstanceTimes(u)'
  <2>1. CASE obj[u] = None
    BY <2>1 DEF SameInstance, InstanceTimes
  <2>2. CASE obj[u] # None
    <3>1. obj[u] \in Instances /\ obj[u].readAt \in Nat /\ clock \in Nat
      BY <2>2 DEF TypeOK, Instances
    <3> QED
      BY <2>2, <3>1 DEF SameInstance, InstanceTimes, TypeOK, Tasks
  <2> QED
    BY <2>1, <2>2
<1>2. ASSUME NEW c \in Codes PROVE EntryTimes(c)'
  <2>1. CASE cache.entry[c] = None
    BY <2>1 DEF EntryTimes
  <2>2. CASE cache.entry[c] # None
    <3>1. cache.entry[c].val \in Viewers
      BY <2>2 DEF TypeOK, Code!Caches, Code!Entries
    <3> QED
      BY <2>2, <3>1 DEF TypeOK, SameInstance, EntryTimes, Served, Tasks
  <2> QED
    BY <2>1, <2>2
<1> QED
  BY <1>1, <1>2

(* Changing fields of an instance or a row within their types.             *)
LEMMA ChangedInstance ==
    ASSUME NEW i \in Instances, NEW v \in Nat, NEW d \in BOOLEAN,
           NEW s \in {"attached", "detached", "expired"}, NEW at0 \in Nat \cup {-1}
    PROVE  /\ [i EXCEPT !.views = v, !.dirty = d] \in Instances
           /\ [i EXCEPT !.state = s, !.dirty = d] \in Instances
           /\ [i EXCEPT !.state = s, !.dirty = d, !.expiredAt = at0] \in Instances
BY DEF Instances

LEMMA ChangedRow ==
    ASSUME NEW r \in Rows, NEW a \in BOOLEAN
    PROVE  [r EXCEPT !.active = a] \in Rows
BY DEF Rows

(* Counting a view in an instance.                                         *)
LEMMA CountedKeeps ==
    ASSUME IInv, NEW o \in Viewers, obj[o] # None, obj' = Counted(o)
    PROVE  /\ obj' \in [Viewers -> Instances \cup {None}]
           /\ \A u \in Viewers : SameInstance(u)
           /\ \A u \in Viewers : obj[u] # None => obj'[u] # None
<1>1. obj[o] \in Instances
  BY DEF IInv, TypeOK
<1> DEFINE new == [obj[o] EXCEPT !.views = @ + 1,
                                !.dirty = @ \/ obj[o].state = "attached"]
<1>2. new \in Instances
  <2>1. (obj[o].dirty \/ obj[o].state = "attached") \in BOOLEAN
    BY Zenon
  <2>2. obj[o].views + 1 \in Nat
    BY <1>1 DEF Instances
  <2> QED
    BY <1>1, <2>1, <2>2, ChangedInstance
<1>3. new # None
  BY <1>2, NoneAssumption
<1>4. obj' = [obj EXCEPT ![o] = new]
  BY <1>1 DEF Counted, IInv, TypeOK, Instances
<1>5. obj' \in [Viewers -> Instances \cup {None}]
  BY <1>2, <1>4 DEF IInv, TypeOK
<1>6. ASSUME NEW u \in Viewers PROVE SameInstance(u)
  BY <1>1, <1>3, <1>4 DEF SameInstance, IInv, TypeOK, Instances
<1> QED
  BY <1>5, <1>6 DEF SameInstance

LEMMA RegisterStep ==
    ASSUME IInv, NEW t \in Viewers, Register(t)
    PROVE  IInv'
<1> USE DEF IInv
<1>1. t \in Tasks /\ t \notin Editors
  BY LookupAssumption DEF Tasks
<1>2. /\ at[t] = "register" /\ UNCHANGED <<row, cache, clock, req, using, edit, sent, withdrawn>>
      /\ using[t] \in Viewers /\ obj[using[t]] # None
  BY <1>1 DEF Register, Control, ViewerControl, TypeOK
<1>3. PICK step \in {"record", "abort"} : at' = [at EXCEPT ![t] = step]
  BY DEF Register, Goto
<1>4. owner' \in [Movies -> Tasks \cup {None}]
  BY <1>1 DEF Register, Lock, TypeOK
<1>5. obj' = obj \/ \E o \in Viewers : obj[o] # None /\ obj' = Counted(o)
  BY <1>2 DEF Register
<1>6. /\ obj' \in [Viewers -> Instances \cup {None}]
      /\ \A u \in Viewers : SameInstance(u)
      /\ \A u \in Viewers : obj[u] # None => obj'[u] # None
  BY <1>5, CountedKeeps DEF SameInstance, TypeOK
<1>7. TypeOK'
  BY <1>1, <1>2, <1>3, <1>4, <1>6 DEF TypeOK, ViewerSteps, EndSteps
<1>8. Control'
  BY <1>1, <1>2, <1>3, <1>6 DEF TypeOK, Control, ViewerControl, EditorControl, ViewerSteps, EndSteps, Tasks, SameInstance
<1>9. (\A u \in Viewers : InstanceTimes(u)') /\ (\A c \in Codes : EntryTimes(c)')
  BY <1>1, <1>2, <1>3, <1>6, ChangePreservesTimes
<1> QED
  BY <1>7, <1>8, <1>9

LEMMA CommitViewerStep ==
    ASSUME IInv, NEW t \in Viewers, CommitViewer(t)
    PROVE  IInv'
<1> USE DEF IInv
<1>1. t \in Tasks /\ t \notin Editors
  BY LookupAssumption DEF Tasks
<1>2. at[t] = "commit" /\ UNCHANGED <<cache, clock, req, using, edit, sent, withdrawn>>
  BY DEF CommitViewer
<1>3. PICK step \in {"abort", "done"} : at' = [at EXCEPT ![t] = step]
  BY DEF CommitViewer, Goto
<1>4. owner' \in [Movies -> Tasks \cup {None}]
  BY DEF CommitViewer, ReleaseLocks, TypeOK
<1>5. row' \in [Movies -> Rows \cup {None}]
  <2>1. CASE row' = row
    BY <2>1 DEF TypeOK
  <2>2. CASE IsDirty(t) /\ ~ FlushFails(t) /\ row' = [row EXCEPT ![obj[t].movie].views = obj[t].views]
    <3>1. obj[t] \in Instances /\ row[obj[t].movie] # None
      BY <2>2 DEF IsDirty, FlushFails, TypeOK
    <3>2. obj[t].movie \in Movies /\ obj[t].views \in Nat
      BY <3>1 DEF Instances
    <3>3. row[obj[t].movie] \in Rows
      BY <3>1, <3>2 DEF TypeOK
    <3>4. [row[obj[t].movie] EXCEPT !.views = obj[t].views] \in Rows
      BY <3>2, <3>3 DEF Rows
    <3> QED
      BY <2>2, <3>2, <3>4 DEF TypeOK
  <2> QED
    BY <2>1, <2>2 DEF CommitViewer
<1>6. /\ obj' \in [Viewers -> Instances \cup {None}]
      /\ \A u \in Viewers : SameInstance(u)
  <2>1. CASE obj' = obj
    BY <2>1 DEF SameInstance, TypeOK
  <2>2. CASE obj[t] # None /\ obj' = [obj EXCEPT ![t].state = "detached", ![t].dirty = FALSE]
    <3> DEFINE new == [obj[t] EXCEPT !.state = "detached", !.dirty = FALSE]
    <3>1. obj[t] \in Instances
      BY <2>2 DEF TypeOK
    <3>2. new \in Instances /\ new # None
      BY <3>1, NoneAssumption DEF Instances
    <3>3. /\ new.readAt = obj[t].readAt /\ new.staleAt = obj[t].staleAt
          /\ new.expiredAt = obj[t].expiredAt /\ new.state = "detached"
      BY <3>1 DEF Instances
    <3>4. obj' = [obj EXCEPT ![t] = new]
      BY <2>2, <3>1 DEF TypeOK, Instances
    <3>5. obj'[t] = new /\ \A u \in Viewers \ {t} : obj'[u] = obj[u]
      BY <3>4 DEF TypeOK
    <3>6. obj' \in [Viewers -> Instances \cup {None}]
      BY <3>2, <3>4 DEF TypeOK
    <3>7. ASSUME NEW u \in Viewers PROVE SameInstance(u)
      <4> HIDE DEF new
      <4>1. CASE u = t
        BY <4>1, <2>2, <3>2, <3>3, <3>5 DEF SameInstance
      <4>2. CASE u # t
        BY <4>2, <3>5 DEF SameInstance
      <4> QED
        BY <4>1, <4>2
    <3> QED
      BY <3>6, <3>7
  <2> QED
    BY <2>1, <2>2 DEF CommitViewer
<1>7. TypeOK'
  BY <1>1, <1>2, <1>3, <1>4, <1>5, <1>6 DEF TypeOK, ViewerSteps, EndSteps
<1>8. Control'
  BY <1>1, <1>2, <1>3, <1>6 DEF TypeOK, Control, ViewerControl, EditorControl, ViewerSteps, EndSteps, Tasks, SameInstance
<1>9. (\A u \in Viewers : InstanceTimes(u)') /\ (\A c \in Codes : EntryTimes(c)')
  BY <1>1, <1>2, <1>3, <1>6, ChangePreservesTimes
<1> QED
  BY <1>7, <1>8, <1>9

-----------------------------------------------------------------------------
LEMMA OpenStep ==
    ASSUME IInv, NEW e \in Editors, NEW m \in Movies, NEW kind \in EditKinds, Open(e, m, kind)
    PROVE  IInv'
<1> USE DEF IInv
<1>1. e \in Tasks /\ e \notin Viewers
  BY LookupAssumption DEF Tasks
<1>2. at[e] = "idle" /\ UNCHANGED <<row, owner, clock, req, obj, using, sent>>
  BY DEF Open
<1>3. PICK step \in {"failed", "write"} :
         /\ at' = [at EXCEPT ![e] = step]
         /\ step = "failed" => edit' = edit
         /\ step = "write" => row[m] # None /\ \E to \in Targets(kind, row[m]) :
                edit' = [edit EXCEPT ![e] =
                           [movie |-> m, kind |-> kind, to |-> to, seen |-> row[m]]]
  BY DEF Open, Goto, Editable
<1>4. /\ edit' \in [Editors -> Edits \cup {None}]
      /\ \A d \in Editors \ {e} : edit'[d] = edit[d]
      /\ step = "failed" => edit'[e] = edit[e]
      /\ step = "write" => /\ edit'[e] # None
                           /\ edit'[e].kind = "code" => edit'[e].to \in Codes
                           /\ edit'[e].kind = "visibility" => edit'[e].to \in Rules
  <2>1. CASE step = "failed"
    BY <2>1, <1>3 DEF TypeOK
  <2>2. CASE step = "write"
    <3>1. PICK to \in Targets(kind, row[m]) :
             edit' = [edit EXCEPT ![e] = [movie |-> m, kind |-> kind, to |-> to, seen |-> row[m]]]
      BY <2>2, <1>3
    <3>2. row[m] \in Rows
      BY <2>2, <1>3 DEF TypeOK
    <3>3. /\ to \in Codes \cup Rules \cup {None}
          /\ kind = "code" => to \in Codes
          /\ kind = "visibility" => to \in Rules
      BY <3>1 DEF Targets
    <3>4. [movie |-> m, kind |-> kind, to |-> to, seen |-> row[m]] \in Edits
      BY <3>2, <3>3 DEF Edits
    <3>5. [movie |-> m, kind |-> kind, to |-> to, seen |-> row[m]] # None
      BY <3>4, NoneAssumption
    <3> QED
      BY <2>2, <3>1, <3>3, <3>4, <3>5 DEF TypeOK
  <2> QED
    BY <2>1, <2>2
<1>5. cache' \in Code!Caches /\ \A c \in Codes : cache'.entry[c] \in {None, cache.entry[c]}
  BY DropKeeps DEF Open, TypeOK, Code!AfterInvalidate
<1>6. withdrawn' \in SUBSET Viewers
  BY DEF Open, TypeOK, CurrentCopies
<1>7. TypeOK'
  BY <1>1, <1>2, <1>3, <1>4, <1>5, <1>6 DEF TypeOK, EndSteps
<1>8. Control'
  BY <1>1, <1>2, <1>3, <1>4 DEF TypeOK, Control, ViewerControl, EditorControl, ViewerSteps, EndSteps, Tasks
<1>9. (\A u \in Viewers : InstanceTimes(u)') /\ (\A c \in Codes : EntryTimes(c)')
  BY <1>1, <1>2, <1>3, <1>5, MovePreservesTimes
<1> QED
  BY <1>7, <1>8, <1>9

LEMMA WriteEditStep ==
    ASSUME IInv, NEW e \in Editors, WriteEdit(e)
    PROVE  IInv'
<1> USE DEF IInv
<1>1. e \in Tasks /\ e \notin Viewers
  BY LookupAssumption DEF Tasks
<1>2. at[e] = "write" /\ UNCHANGED <<row, clock, req, obj, using, edit, sent>>
  BY DEF WriteEdit
<1>3. PICK step \in {"abort", "reply"} : at' = [at EXCEPT ![e] = step]
  BY DEF WriteEdit, Goto
<1>4. owner' \in [Movies -> Tasks \cup {None}]
  BY <1>1 DEF WriteEdit, Lock, TypeOK
<1>5. cache' \in Code!Caches /\ \A c \in Codes : cache'.entry[c] \in {None, cache.entry[c]}
  BY DropKeeps DEF WriteEdit, TypeOK
<1>6. withdrawn' \in SUBSET Viewers
  BY DEF WriteEdit, TypeOK, CurrentCopies
<1>7. TypeOK'
  BY <1>1, <1>2, <1>3, <1>4, <1>5, <1>6 DEF TypeOK, EndSteps
<1>8. Control'
  BY <1>1, <1>2, <1>3 DEF TypeOK, Control, ViewerControl, EditorControl, ViewerSteps, EndSteps, Tasks
<1>9. (\A u \in Viewers : InstanceTimes(u)') /\ (\A c \in Codes : EntryTimes(c)')
  BY <1>1, <1>2, <1>3, <1>5, MovePreservesTimes
<1> QED
  BY <1>7, <1>8, <1>9

LEMMA CommitEditStep ==
    ASSUME IInv, NEW e \in Editors, CommitEdit(e)
    PROVE  IInv'
<1> USE DEF IInv
<1>1. e \in Tasks /\ e \notin Viewers
  BY LookupAssumption DEF Tasks
<1>2. /\ at[e] = "commit" /\ at' = [at EXCEPT ![e] = "done"]
      /\ UNCHANGED <<cache, clock, req, using, edit, sent, withdrawn>>
  BY DEF CommitEdit, Goto
<1>3. edit[e] \in Edits
  BY <1>1, <1>2 DEF Control, EditorControl, TypeOK
<1>4. owner' \in [Movies -> Tasks \cup {None}]
  BY DEF CommitEdit, ReleaseLocks, TypeOK
<1>5. row' \in [Movies -> Rows \cup {None}]
  <2> DEFINE kind == edit[e].kind
  <2>1. ASSUME NEW r \in Rows \cup {None} PROVE Edited(r, edit[e]) \in Rows \cup {None}
    <3>1. /\ kind \in {"caption", "visibility", "active", "code", "delete"}
          /\ kind = "code" => edit[e].to \in Codes
          /\ kind = "visibility" => edit[e].to \in Rules
      BY <1>3, <1>1, LookupAssumption, NoneAssumption DEF Control, EditorControl, Edits
    <3>2. CASE kind = "delete" \/ r = None
      BY <3>2 DEF Edited
    <3>3. CASE r \in Rows /\ r # None
      <4>1. CASE kind = "visibility"
        BY <3>1, <3>3, <4>1 DEF Edited, Rows
      <4>2. CASE kind = "active"
        <5>1. (~ edit[e].seen.active) \in BOOLEAN
          BY Zenon
        <5>2. [r EXCEPT !.active = ~ edit[e].seen.active] \in Rows
          BY <3>3, <5>1, ChangedRow
        <5> QED
          BY <3>3, <4>2, <5>2 DEF Edited
      <4>3. CASE kind = "code"
        BY <3>1, <3>3, <4>3 DEF Edited, Rows
      <4>4. CASE kind = "caption"
        BY <3>3, <4>4 DEF Edited
      <4> HIDE DEF kind
      <4> QED
        BY <3>1, <3>2, <4>1, <4>2, <4>3, <4>4
    <3> QED
      BY <3>2, <3>3
  <2>2. edit[e].movie \in Movies
    BY <1>3 DEF Edits
  <2> QED
    BY <2>1, <2>2 DEF CommitEdit, TypeOK
<1>6. /\ obj' \in [Viewers -> Instances \cup {None}]
      /\ \A u \in Viewers : SameInstance(u)
  <2>1. ASSUME NEW u \in Viewers
        PROVE  obj'[u] \in Instances \cup {None} /\ SameInstance(u)
    <3>1. CASE obj'[u] = obj[u]
      BY <3>1 DEF SameInstance, TypeOK
    <3>2. CASE obj[u] # None /\ obj'[u] = [obj[u] EXCEPT !.staleAt = clock]
      <4>1. obj[u] \in Instances /\ clock \in Nat
        BY <3>2 DEF TypeOK
      <4>2. obj'[u] \in Instances
        BY <3>2, <4>1 DEF Instances
      <4>3. obj'[u] # None
        BY <4>2, NoneAssumption
      <4> QED
        BY <3>2, <4>1, <4>2, <4>3 DEF SameInstance, Instances
    <3> QED
      BY <3>1, <3>2 DEF CommitEdit
  <2>2. obj' = [u \in Viewers |-> obj'[u]]
    BY DEF CommitEdit
  <2> QED
    BY <2>1, <2>2
<1>7. TypeOK'
  BY <1>1, <1>2, <1>4, <1>5, <1>6 DEF TypeOK, EndSteps
<1>8. Control'
  BY <1>1, <1>2, <1>6 DEF TypeOK, Control, ViewerControl, EditorControl, ViewerSteps, EndSteps, Tasks, SameInstance
<1>9. (\A u \in Viewers : InstanceTimes(u)') /\ (\A c \in Codes : EntryTimes(c)')
  BY <1>1, <1>2, <1>6, ChangePreservesTimes
<1> QED
  BY <1>7, <1>8, <1>9

-----------------------------------------------------------------------------
(* Steps of either kind of task.                                           *)
LEMMA ReplyOrTimeoutStep ==
    ASSUME IInv, NEW t \in Tasks, Reply(t) \/ LockTimeout(t)
    PROVE  IInv'
<1> USE DEF IInv
<1>1. UNCHANGED <<row, owner, cache, clock, req, obj, using, edit, sent, withdrawn>>
  BY DEF Reply, LockTimeout
<1>2. at[t] \in {"reply", "count", "logHit", "logMiss", "record", "register", "commit", "write"}
  <2>1. CASE Reply(t)
    BY <2>1 DEF Reply
  <2>2. CASE LockTimeout(t)
    <3>1. Wanted(t) # {}
      BY <2>2 DEF LockTimeout, MayLock
    <3> QED
      BY <3>1 DEF Wanted
  <2> QED
    BY <2>1, <2>2
<1>3. PICK step \in {"commit", "abort"} : at' = [at EXCEPT ![t] = step]
  BY DEF Reply, LockTimeout, Goto
<1>4. step = "commit" => at[t] = "reply"
  BY <1>2, <1>3 DEF Reply, LockTimeout, Goto, TypeOK
<1>5. TypeOK'
  BY <1>1, <1>3 DEF TypeOK, EndSteps
<1>6. ASSUME NEW u \in Viewers PROVE ViewerControl(u)'
  BY <1>1, <1>2, <1>3, LookupAssumption DEF TypeOK, Control, ViewerControl, ViewerSteps, EndSteps, Tasks
<1>7. ASSUME NEW e \in Editors PROVE EditorControl(e)'
  <2>1. EditorControl(e)
    BY DEF Control
  <2> QED
    BY <2>1, <1>1, <1>2, <1>3, LookupAssumption DEF TypeOK, EditorControl, EndSteps, Tasks
<1>8. cache' \in Code!Caches /\ \A c \in Codes : cache'.entry[c] \in {None, cache.entry[c]}
  BY <1>1 DEF TypeOK
<1>9. (\A u \in Viewers : InstanceTimes(u)') /\ (\A c \in Codes : EntryTimes(c)')
  BY <1>1, <1>2, <1>3, <1>8, MovePreservesTimes
<1> QED
  BY <1>5, <1>6, <1>7, <1>9 DEF Control

(* A rollback expires the instance now; whatever entry holds it was filled *)
(* no later than now.                                                      *)
LEMMA RollbackStep ==
    ASSUME IInv, NEW t \in Tasks, Rollback(t)
    PROVE  IInv'
<1> USE DEF IInv
<1>1. /\ at[t] = "abort" /\ at' = [at EXCEPT ![t] = "failed"]
      /\ UNCHANGED <<row, cache, clock, req, using, edit, sent, withdrawn>>
  BY DEF Rollback, Goto
<1>2. owner' \in [Movies -> Tasks \cup {None}]
  BY DEF Rollback, ReleaseLocks, TypeOK
<1>3. /\ obj' \in [Viewers -> Instances \cup {None}]
      /\ \A u \in Viewers \ {t} : obj'[u] = obj[u]
      /\ t \in Viewers /\ obj[t] = None => obj'[t] = None
      /\ t \in Viewers /\ obj[t] # None =>
           /\ obj'[t] # None /\ obj'[t].state = "expired" /\ obj'[t].expiredAt = clock
           /\ obj'[t].readAt = obj[t].readAt /\ obj'[t].staleAt = obj[t].staleAt
  <2>1. CASE obj' = obj /\ (t \in Editors \/ obj[t] = None)
    BY <2>1, LookupAssumption DEF TypeOK
  <2>2. CASE /\ t \in Viewers /\ obj[t] # None
             /\ obj' = [obj EXCEPT ![t].state = "expired", ![t].dirty = FALSE,
                                   ![t].expiredAt = clock]
    <3> DEFINE new == [obj[t] EXCEPT !.state = "expired", !.dirty = FALSE, !.expiredAt = clock]
    <3>1. obj[t] \in Instances /\ clock \in Nat
      BY <2>2 DEF TypeOK
    <3>2. new \in Instances
      BY <3>1, ChangedInstance
    <3>3. new # None
      BY <3>2, NoneAssumption
    <3>4. /\ new.state = "expired" /\ new.expiredAt = clock
          /\ new.readAt = obj[t].readAt /\ new.staleAt = obj[t].staleAt
      BY <3>1 DEF Instances
    <3>5. obj' = [obj EXCEPT ![t] = new]
      BY <2>2, <3>1 DEF TypeOK, Instances
    <3> HIDE DEF new
    <3>6. obj'[t] = new
      BY <2>2, <3>5 DEF TypeOK
    <3> QED
      BY <2>2, <3>2, <3>3, <3>4, <3>5, <3>6 DEF TypeOK
  <2> QED
    BY <2>1, <2>2 DEF Rollback, Tasks
<1>4. TypeOK'
  BY <1>1, <1>2, <1>3 DEF TypeOK, EndSteps
<1>5. ASSUME NEW u \in Viewers PROVE ViewerControl(u)'
  BY <1>1, <1>3 DEF TypeOK, Control, ViewerControl, ViewerSteps, EndSteps, Tasks
<1>6. ASSUME NEW e \in Editors PROVE EditorControl(e)'
  <2>1. EditorControl(e)
    BY DEF Control
  <2> QED
    BY <2>1, <1>1 DEF TypeOK, EditorControl, EndSteps, Tasks
<1>7. ASSUME NEW u \in Viewers PROVE InstanceTimes(u)'
  <2>1. CASE u = t
    BY <2>1, <1>1, <1>3 DEF TypeOK, InstanceTimes
  <2>2. CASE u # t
    BY <2>2, <1>1, <1>3 DEF TypeOK, InstanceTimes, Tasks
  <2> QED
    BY <2>1, <2>2
<1>8. ASSUME NEW c \in Codes PROVE EntryTimes(c)'
  <2>1. SUFFICES ASSUME cache.entry[c] # None PROVE EntryTimes(c)'
    BY <1>1 DEF EntryTimes
  <2>2. cache.entry[c].val \in Viewers
    BY <2>1 DEF TypeOK, Code!Caches, Code!Entries
  <2>3. CASE cache.entry[c].val = t
    BY <2>1, <2>2, <2>3, <1>1, <1>3 DEF TypeOK, EntryTimes, Served, Tasks
  <2>4. CASE cache.entry[c].val # t
    BY <2>1, <2>2, <2>4, <1>1, <1>3 DEF TypeOK, EntryTimes, Served, Tasks
  <2> QED
    BY <2>3, <2>4
<1> QED
  BY <1>4, <1>5, <1>6, <1>7, <1>8 DEF Control

(* Time passes, but not beyond the duration of a pending read.             *)
LEMMA TickStep ==
    ASSUME IInv, Tick
    PROVE  IInv'
<1> USE DEF IInv
<1>1. /\ clock \in Nat /\ clock' = clock + 1
      /\ UNCHANGED <<row, owner, cache, at, req, obj, using, edit, sent, withdrawn>>
      /\ \A t \in Viewers : at[t] = "fill" => clock < obj[t].readAt + FillDelay
  BY DEF Tick, TypeOK
<1>2. TypeOK'
  BY <1>1 DEF TypeOK
<1>3. Control'
  BY <1>1 DEF Control, ViewerControl, EditorControl
<1>4. ASSUME NEW u \in Viewers PROVE InstanceTimes(u)'
  <2>1. SUFFICES ASSUME obj[u] # None PROVE InstanceTimes(u)'
    BY <1>1 DEF InstanceTimes
  <2>2. obj[u].readAt \in Nat
    BY <2>1 DEF TypeOK, Instances
  <2> QED
    BY <2>1, <2>2, <1>1, LookupAssumption DEF InstanceTimes
<1>5. ASSUME NEW c \in Codes PROVE EntryTimes(c)'
  <2>1. SUFFICES ASSUME cache.entry[c] # None PROVE EntryTimes(c)'
    BY <1>1 DEF EntryTimes
  <2>2. cache.entry[c].expires \in Nat
    BY <2>1 DEF TypeOK, Code!Caches, Code!Entries
  <2> QED
    BY <2>1, <2>2, <1>1, LookupAssumption DEF EntryTimes, Served
<1> QED
  BY <1>2, <1>3, <1>4, <1>5

LEMMA StepPreserves == IInv /\ [Next]_vars => IInv'
<1>1. SUFFICES ASSUME IInv, [Next]_vars PROVE IInv'
  OBVIOUS
<1>2. ASSUME NEW t \in Viewers, NEW c \in Codes, NEW button \in BOOLEAN, Receive(t, c, button)
      PROVE  IInv'
  BY <1>1, <1>2, ReceiveStep
<1>3. ASSUME NEW t \in Viewers, ViewerStep(t) PROVE IInv'
  BY <1>1, <1>3, QuietViewerStep, ReadRowStep, FillStep, RegisterStep, CommitViewerStep
     DEF ViewerStep
<1>4. ASSUME NEW e \in Editors, NEW m \in Movies, NEW kind \in EditKinds, Open(e, m, kind)
      PROVE  IInv'
  BY <1>1, <1>4, OpenStep
<1>5. ASSUME NEW e \in Editors, EditorStep(e) PROVE IInv'
  BY <1>1, <1>5, WriteEditStep, CommitEditStep DEF EditorStep
<1>6. ASSUME NEW t \in Tasks, TaskStep(t) PROVE IInv'
  BY <1>1, <1>6, ReplyOrTimeoutStep, RollbackStep DEF TaskStep
<1>7. CASE Tick
  BY <1>1, <1>7, TickStep
<1>8. CASE UNCHANGED vars
  <2>1. TypeOK' /\ Control'
    BY <1>1, <1>8 DEF vars, IInv, TypeOK, Control, ViewerControl, EditorControl
  <2>2. (\A u \in Viewers : InstanceTimes(u)') /\ (\A c \in Codes : EntryTimes(c)')
    BY <1>1, <1>8 DEF vars, IInv, InstanceTimes, EntryTimes, Served
  <2> QED
    BY <2>1, <2>2 DEF IInv
<1> QED
  BY <1>1, <1>2, <1>3, <1>4, <1>5, <1>6, <1>7, <1>8 DEF Next, AllOver

LEMMA InvariantHolds == Spec => []IInv
<1>1. Init => IInv
  BY InitEstablishes
<1>2. IInv /\ [Next]_vars => IInv'
  BY StepPreserves
<1> QED
  BY <1>1, <1>2, PTL DEF Spec

-----------------------------------------------------------------------------
(* Every variable keeps its type: a task never works with a movie, cache   *)
(* entry or edit it does not have (movie_code.py:134-209).                 *)
THEOREM TypeCorrect == Spec => []TypeOK
<1>1. IInv => TypeOK
  BY DEF IInv
<1> QED
  BY <1>1, InvariantHolds, PTL

(* However edits and lookups interleave, on either backend, no lookup is   *)
(* answered from an outdated instance later than TTL and one read after    *)
(* the commit that outdated it (movie_service.py:62-69, 179-225).          *)
THEOREM StalenessBounded == Spec => []BoundedStaleness
<1>1. IInv => BoundedStaleness
  <2>1. SUFFICES ASSUME IInv, NEW c \in Codes, Code!IsHit(cache, c, clock), Served(c).staleAt # -1
                 PROVE  clock - Served(c).staleAt <= TTL + FillDelay
    BY DEF BoundedStaleness
  <2>2. /\ cache.entry[c] # None /\ ~ (cache.entry[c].expires < clock)
        /\ cache.entry[c].expires \in Nat /\ cache.entry[c].val \in Viewers
    BY <2>1 DEF IInv, TypeOK, Code!IsHit, Code!HeldKeys, Code!ExpiredKeys, Code!Caches, Code!Entries
  <2>3. Served(c) # None /\ cache.entry[c].expires <= Served(c).readAt + FillDelay + TTL
    BY <2>1, <2>2 DEF IInv, EntryTimes
  <2>4. Served(c) \in Instances /\ clock \in Nat
    BY <2>1, <2>2, <2>3 DEF IInv, TypeOK, Served
  <2>5. Served(c).readAt \in Nat /\ Served(c).staleAt \in Nat
    BY <2>1, <2>4 DEF Instances
  <2>6. Served(c).staleAt >= Served(c).readAt
    BY <2>1, <2>2, <2>3 DEF IInv, InstanceTimes, Served
  <2> QED
    BY <2>2, <2>3, <2>4, <2>5, <2>6, LookupAssumption
<1> QED
  BY <1>1, InvariantHolds, PTL

(* However sessions end, no lookup is answered from an instance rolled     *)
(* back more than TTL ago (movie_service.py:62-68, session.py:32-39).      *)
THEOREM PoisoningBounded == Spec => []BoundedPoisoning
<1>1. IInv => BoundedPoisoning
  <2>1. SUFFICES ASSUME IInv, NEW c \in Codes, Code!IsHit(cache, c, clock),
                        Served(c).state = "expired"
                 PROVE  clock - Served(c).expiredAt <= TTL
    BY DEF BoundedPoisoning
  <2>2. /\ cache.entry[c] # None /\ ~ (cache.entry[c].expires < clock)
        /\ cache.entry[c].expires \in Nat /\ cache.entry[c].val \in Viewers
    BY <2>1 DEF IInv, TypeOK, Code!IsHit, Code!HeldKeys, Code!ExpiredKeys, Code!Caches, Code!Entries
  <2>3. Served(c) # None /\ cache.entry[c].expires <= Served(c).expiredAt + TTL
    BY <2>1, <2>2 DEF IInv, EntryTimes
  <2>4. Served(c) \in Instances /\ clock \in Nat
    BY <2>1, <2>2, <2>3 DEF IInv, TypeOK, Served
  <2>5. Served(c).expiredAt \in Int
    BY <2>4 DEF Instances
  <2> QED
    BY <2>2, <2>3, <2>4, <2>5, LookupAssumption
<1> QED
  BY <1>1, InvariantHolds, PTL


-----------------------------------------------------------------------------
(* Which action sets which variable.                                       *)
LEMMA WhoSets ==
    ASSUME [Next]_vars
    PROVE  /\ \/ req' = req
              \/ \E t \in Viewers, c \in Codes, button \in BOOLEAN : Receive(t, c, button)
           /\ \/ row' = row
              \/ \E t \in Viewers : CommitViewer(t)
              \/ \E e \in Editors : CommitEdit(e)
           /\ \/ obj' = obj
              \/ \E t \in Viewers : ReadRow(t) \/ Register(t) \/ CommitViewer(t)
              \/ \E e \in Editors : CommitEdit(e)
              \/ \E t \in Tasks : Rollback(t)
           /\ using' = using \/ \E t \in Viewers : Lookup(t) \/ Fill(t)
           /\ sent' = sent \/ \E t \in Viewers : Send(t)
           /\ \/ withdrawn' = withdrawn
              \/ \E e \in Editors, m \in Movies, kind \in EditKinds : Open(e, m, kind)
              \/ \E e \in Editors : WriteEdit(e)
<1>1. ASSUME NEW t \in Viewers, NEW c \in Codes, NEW button \in BOOLEAN, Receive(t, c, button)
      PROVE  UNCHANGED <<row, obj, using, sent, withdrawn>>
  BY <1>1 DEF Receive
<1>2. ASSUME NEW t \in Viewers, ViewerStep(t)
      PROVE  /\ UNCHANGED <<req, withdrawn>>
             /\ row' = row \/ CommitViewer(t)
             /\ obj' = obj \/ ReadRow(t) \/ Register(t) \/ CommitViewer(t)
             /\ using' = using \/ Lookup(t) \/ Fill(t)
             /\ sent' = sent \/ Send(t)
  BY <1>2 DEF ViewerStep, CountSearch, Gate, Lookup, ReadRow, Fill, Check, LogSearch,
              Send, Register, Record, CommitViewer
<1>3. ASSUME NEW e \in Editors, NEW m \in Movies, NEW kind \in EditKinds, Open(e, m, kind)
      PROVE  UNCHANGED <<req, row, obj, using, sent>>
  BY <1>3 DEF Open
<1>4. ASSUME NEW e \in Editors, EditorStep(e)
      PROVE  /\ UNCHANGED <<req, using, sent>>
             /\ UNCHANGED <<row, obj>> \/ CommitEdit(e)
             /\ withdrawn' = withdrawn \/ WriteEdit(e)
  BY <1>4 DEF EditorStep, WriteEdit, CommitEdit
<1>5. ASSUME NEW t \in Tasks, TaskStep(t)
      PROVE  UNCHANGED <<req, row, using, sent, withdrawn>> /\ (obj' = obj \/ Rollback(t))
  BY <1>5 DEF TaskStep, Reply, Rollback, LockTimeout
<1>6. CASE Tick \/ UNCHANGED vars
  BY <1>6 DEF Tick, vars
<1> QED
  BY <1>1, <1>2, <1>3, <1>4, <1>5, <1>6 DEF Next, AllOver

(* A viewer only moves by a step of its own.                               *)
LEMMA ViewerMoves ==
    ASSUME IInv, [Next]_vars, NEW u \in Viewers, at'[u] # at[u]
    PROVE  \/ \E c \in Codes, button \in BOOLEAN : Receive(u, c, button)
           \/ ViewerStep(u)
           \/ TaskStep(u)
<1>1. DOMAIN at = Tasks /\ u \in Tasks /\ u \notin Editors
  BY LookupAssumption DEF IInv, TypeOK, Tasks
<1>2. ASSUME NEW t \in Viewers, NEW c \in Codes, NEW button \in BOOLEAN, Receive(t, c, button)
      PROVE  t = u
  BY <1>1, <1>2 DEF Receive, Goto
<1>3. ASSUME NEW t \in Viewers, ViewerStep(t) PROVE t = u
  <2>1. \E step : Goto(t, step)
    BY <1>3 DEF ViewerStep, CountSearch, Gate, Lookup, ReadRow, Fill, Check, LogSearch,
                Send, Register, Record, CommitViewer
  <2> QED
    BY <1>1, <2>1 DEF Goto
<1>4. ASSUME NEW e \in Editors, NEW m \in Movies, NEW kind \in EditKinds, Open(e, m, kind)
      PROVE  FALSE
  BY <1>1, <1>4 DEF Open, Goto
<1>5. ASSUME NEW e \in Editors, EditorStep(e) PROVE FALSE
  BY <1>1, <1>5 DEF EditorStep, WriteEdit, CommitEdit, Goto
<1>6. ASSUME NEW t \in Tasks, TaskStep(t) PROVE t = u
  BY <1>1, <1>6 DEF TaskStep, Reply, Rollback, LockTimeout, Goto
<1>7. CASE Tick \/ UNCHANGED vars
  BY <1>7 DEF Tick, vars
<1> QED
  BY <1>2, <1>3, <1>4, <1>5, <1>6, <1>7 DEF Next, AllOver

(* A request is not replaced once it has been received.                    *)
LEMMA RequestStays ==
    ASSUME IInv, [Next]_vars, NEW u \in Viewers, at[u] # "idle"
    PROVE  req'[u] = req[u]
<1>1. ASSUME NEW t \in Viewers, NEW c \in Codes, NEW button \in BOOLEAN, Receive(t, c, button)
      PROVE  req'[u] = req[u]
  BY <1>1 DEF Receive, IInv, TypeOK
<1> QED
  BY <1>1, WhoSets

(* Only a read makes an instance.                                          *)
LEMMA CopyMade ==
    ASSUME IInv, [Next]_vars, NEW u \in Viewers, obj[u] = None, obj'[u] # None
    PROVE  ReadRow(u)
<1>1. DOMAIN obj = Viewers /\ \A o : at[o] = "register" /\ o \in Viewers => obj[using[o]] # None
  BY DEF IInv, TypeOK, Control, ViewerControl
<1>2. ASSUME NEW t \in Viewers, ReadRow(t) PROVE t = u
  BY <1>1, <1>2 DEF ReadRow
<1>3. ASSUME NEW t \in Viewers, Register(t) PROVE FALSE
  <2>1. at[t] = "register" /\ using[t] # u
    BY <1>1, <1>3 DEF Register
  <2>2. using[t] \in Viewers
    BY <2>1 DEF IInv, TypeOK, Control, ViewerControl
  <2> QED
    BY <1>1, <1>3, <2>1, <2>2 DEF Register, Counted
<1>4. ASSUME NEW t \in Viewers, CommitViewer(t) PROVE FALSE
  BY <1>1, <1>4 DEF CommitViewer
<1>5. ASSUME NEW e \in Editors, CommitEdit(e) PROVE FALSE
  BY <1>1, <1>5 DEF CommitEdit
<1>6. ASSUME NEW t \in Tasks, Rollback(t) PROVE FALSE
  BY <1>1, <1>6 DEF Rollback
<1> QED
  BY <1>2, <1>3, <1>4, <1>5, <1>6, WhoSets

(* An instance stays one of the same movie, is outdated only by now, and   *)
(* counts at most the view that a step registers on it.                    *)
LEMMA CopyStays ==
    ASSUME IInv, [Next]_vars, NEW u \in Viewers, obj[u] # None
    PROVE  /\ obj'[u] # None
           /\ obj'[u].movie = obj[u].movie
           /\ obj'[u].staleAt \in {obj[u].staleAt, clock}
           /\ \/ obj'[u].views = obj[u].views
              \/ /\ obj'[u].views = obj[u].views + 1
                 /\ \E t \in Viewers : Register(t) /\ using[t] = u /\ at'[t] # "register"
<1>0. obj[u] \in Instances /\ DOMAIN obj = Viewers /\ IInv'
  BY StepPreserves DEF IInv, TypeOK
<1>1. CASE obj'[u] = obj[u]
  BY <1>1
<1>2. ASSUME NEW t \in Viewers, ReadRow(t) PROVE obj'[u] = obj[u]
  BY <1>0, <1>2 DEF ReadRow, IInv, Control, ViewerControl
<1>3. ASSUME NEW t \in Viewers, Register(t), obj'[u] # obj[u]
      PROVE  /\ obj'[u] # None
             /\ obj'[u].movie = obj[u].movie /\ obj'[u].staleAt = obj[u].staleAt
             /\ obj'[u].views = obj[u].views + 1
             /\ using[t] = u /\ at'[t] # "register"
  <2>1. obj' = Counted(using[t]) /\ using[t] = u
    BY <1>0, <1>3 DEF Register, Counted
  <2>2. obj'[u] # None
    BY <2>1, <1>0, CountedKeeps
  <2>3. at'[t] \in {"abort", "record"}
    BY <1>3, LookupAssumption DEF Register, Goto, IInv, TypeOK, Tasks
  <2> DEFINE d == obj[u].dirty \/ obj[u].state = "attached"
  <2>4. obj'[u] = [obj[u] EXCEPT !.views = @ + 1, !.dirty = d]
    BY <1>0, <2>1 DEF Counted, Instances
  <2> HIDE DEF d
  <2>5. /\ obj'[u].movie = obj[u].movie /\ obj'[u].staleAt = obj[u].staleAt
        /\ obj'[u].views = obj[u].views + 1
    BY <1>0, <2>4 DEF Instances
  <2> QED
    BY <2>1, <2>2, <2>3, <2>5
<1>4. ASSUME NEW t \in Viewers, CommitViewer(t), obj'[u] # obj[u]
      PROVE  /\ obj'[u] # None /\ obj'[u].movie = obj[u].movie
             /\ obj'[u].staleAt = obj[u].staleAt /\ obj'[u].views = obj[u].views
  <2>1. obj' = [obj EXCEPT ![t].state = "detached", ![t].dirty = FALSE] /\ t = u
    BY <1>0, <1>4 DEF CommitViewer
  <2>2. obj'[u] = [obj[u] EXCEPT !.state = "detached", !.dirty = FALSE]
    BY <1>0, <2>1 DEF Instances
  <2>3. obj'[u] # None
    BY <1>0, <2>2, ChangedInstance, NoneAssumption
  <2> QED
    BY <1>0, <2>2, <2>3 DEF Instances
<1>5. ASSUME NEW e \in Editors, CommitEdit(e), obj'[u] # obj[u]
      PROVE  /\ obj'[u] # None /\ obj'[u].movie = obj[u].movie
             /\ obj'[u].staleAt = clock /\ obj'[u].views = obj[u].views
  <2>1. obj'[u] = [obj[u] EXCEPT !.staleAt = clock] /\ clock \in Nat
    BY <1>0, <1>5 DEF CommitEdit, IInv, TypeOK
  <2>2. obj'[u] \in Instances
    BY <1>0, <2>1 DEF Instances
  <2> QED
    BY <1>0, <2>1, <2>2, NoneAssumption DEF Instances
<1>6. ASSUME NEW t \in Tasks, Rollback(t), obj'[u] # obj[u]
      PROVE  /\ obj'[u] # None /\ obj'[u].movie = obj[u].movie
             /\ obj'[u].staleAt = obj[u].staleAt /\ obj'[u].views = obj[u].views
  <2>1. /\ t = u
        /\ obj' = [obj EXCEPT ![t].state = "expired", ![t].dirty = FALSE, ![t].expiredAt = clock]
    BY <1>0, <1>6 DEF Rollback
  <2>2. obj'[u] = [obj[u] EXCEPT !.state = "expired", !.dirty = FALSE, !.expiredAt = clock]
    BY <1>0, <2>1 DEF Instances
  <2>3. obj'[u] # None
    <3>1. clock \in Nat \cup {-1} /\ FALSE \in BOOLEAN
      BY DEF IInv, TypeOK
    <3>2. obj'[u] \in Instances
      BY <1>0, <2>2, <3>1, ChangedInstance
    <3> QED
      BY <3>2, NoneAssumption
  <2> QED
    BY <1>0, <2>2, <2>3 DEF Instances
<1> QED
  BY <1>1, <1>2, <1>3, <1>4, <1>5, <1>6, WhoSets

(* A row changes by the commit of a viewer that counted, which sets its    *)
(* views, or by the commit of an edit, which leaves them.                  *)
LEMMA RowChanges ==
    ASSUME IInv, [Next]_vars, NEW m \in Movies, row'[m] # row[m]
    PROVE  /\ row[m] # None
           /\ \/ \E t \in Viewers :
                    /\ obj[t] # None /\ obj[t].movie = m
                    /\ row'[m] = [row[m] EXCEPT !.views = obj[t].views]
              \/ \E e \in Editors :
                    CommitEdit(e) /\ edit[e].movie = m /\ row'[m] = Edited(row[m], edit[e])
<1>1. DOMAIN row = Movies /\ row[m] \in Rows \cup {None}
  BY DEF IInv, TypeOK
<1>2. ASSUME NEW t \in Viewers, CommitViewer(t)
      PROVE  /\ row[m] # None /\ obj[t] # None /\ obj[t].movie = m
             /\ row'[m] = [row[m] EXCEPT !.views = obj[t].views]
  <2>1. /\ IsDirty(t) /\ ~ FlushFails(t)
        /\ row' = [row EXCEPT ![obj[t].movie].views = obj[t].views]
    BY <1>2 DEF CommitViewer
  <2>2. obj[t].movie = m /\ obj[t] # None
    BY <1>1, <2>1 DEF IsDirty
  <2> QED
    BY <1>1, <2>1, <2>2 DEF FlushFails
<1>3. ASSUME NEW e \in Editors, CommitEdit(e)
      PROVE  row[m] # None /\ edit[e].movie = m /\ row'[m] = Edited(row[m], edit[e])
  <2>1. row' = [row EXCEPT ![edit[e].movie] = Edited(@, edit[e])]
    BY <1>3 DEF CommitEdit
  <2>2. edit[e].movie = m /\ row'[m] = Edited(row[m], edit[e])
    BY <1>1, <2>1
  <2>3. row[m] # None
    BY <2>2 DEF Edited
  <2> QED
    BY <2>2, <2>3
<1> QED
  BY <1>2, <1>3, WhoSets

-----------------------------------------------------------------------------
(* Why invalidating by code is enough: an instance sits in the cache under *)
(* the code it was asked for, and while no edit of its movie has been      *)
(* committed that is still the code of the row.  A copy that was removed   *)
(* stays out, since its viewer is past the only step that caches it.       *)
WInv ==
    /\ \A c \in Codes : cache.entry[c] # None => req[cache.entry[c].val].code = c
    /\ \A t \in Viewers :
          obj[t] # None /\ obj[t].staleAt = -1 =>
              row[obj[t].movie] # None /\ row[obj[t].movie].code = req[t].code
    /\ \A t \in withdrawn :
          /\ obj[t] # None /\ at[t] # "fill"
          /\ \A c \in Codes : cache.entry[c] # None => cache.entry[c].val # t

(* A step leaves a cache entry, drops it, or is the fill that writes it.   *)
LEMMA EntryStays ==
    ASSUME IInv, [Next]_vars, NEW c \in Codes
    PROVE  \/ cache'.entry[c] \in {None, cache.entry[c]}
           \/ \E t \in Viewers : /\ Fill(t) /\ c = req[t].code
                                 /\ cache'.entry[c].val = t
<1> DEFINE Same == cache'.entry[c] \in {None, cache.entry[c]}
<1>0. cache \in Code!Caches /\ clock \in Nat
  BY DEF IInv, TypeOK
<1>1. ASSUME NEW t \in Viewers, NEW d \in Codes, NEW button \in BOOLEAN, Receive(t, d, button)
      PROVE  Same
  BY <1>1 DEF Receive
<1>2. ASSUME NEW t \in Viewers, ViewerStep(t)
      PROVE  Same \/ (Fill(t) /\ c = req[t].code /\ cache'.entry[c].val = t)
  <2>1. CASE Lookup(t)
    BY <1>0, <2>1, DropKeeps DEF Lookup, Code!AfterGet
  <2>2. CASE Fill(t)
    <3>1. req[t].code \in Codes
      BY <2>2, NoneAssumption DEF Fill, IInv, TypeOK, Control, ViewerControl, Requests
    <3>2. cache' = Code!AfterSet(cache, req[t].code, t, clock)
      BY <2>2 DEF Fill
    <3>3. /\ cache'.entry[req[t].code] = [expires |-> clock + TTL, val |-> t]
          /\ \A d \in Codes \ {req[t].code} : cache'.entry[d] \in {None, cache.entry[d]}
      BY <1>0, <3>1, <3>2, SetKeeps
    <3>4. cache'.entry[req[t].code].val = t
      BY <3>3
    <3> QED
      BY <2>2, <3>3, <3>4
  <2>3. CASE cache' = cache
    BY <2>3
  <2> QED
    BY <1>2, <2>1, <2>2, <2>3
       DEF ViewerStep, CountSearch, Gate, ReadRow, Check, LogSearch, Send, Register,
           Record, CommitViewer
<1>3. ASSUME NEW e \in Editors, NEW m \in Movies, NEW kind \in EditKinds, Open(e, m, kind)
      PROVE  Same
  BY <1>0, <1>3, DropKeeps DEF Open, Code!AfterInvalidate
<1>4. ASSUME NEW e \in Editors, EditorStep(e) PROVE Same
  BY <1>0, <1>4, DropKeeps DEF EditorStep, WriteEdit, CommitEdit
<1>5. ASSUME NEW t \in Tasks, TaskStep(t) PROVE Same
  BY <1>5 DEF TaskStep, Reply, Rollback, LockTimeout
<1>6. CASE Tick \/ UNCHANGED vars
  BY <1>6 DEF Tick, vars
<1> QED
  BY <1>1, <1>2, <1>3, <1>4, <1>5, <1>6 DEF Next, AllOver

(* What an edit withdraws is no longer under the code it was asked for.    *)
LEMMA WithdrawnNow ==
    ASSUME IInv, WInv, [Next]_vars, NEW t \in withdrawn', t \notin withdrawn
    PROVE  /\ t \in Viewers /\ obj[t] # None /\ at[t] # "fill"
           /\ cache'.entry[req[t].code] = None
<1> DEFINE Out(m, r, gone) == /\ t \in CurrentCopies(m, r) /\ r.code \in gone
                              /\ cache' = Code!Drop(cache, gone)
<1>1. ASSUME NEW e \in Editors, NEW m \in Movies, NEW kind \in EditKinds, Open(e, m, kind)
      PROVE  \E n, r, gone : Out(n, r, gone)
  <2>1. Out(m, row[m], {row[m].code})
    BY <1>1 DEF Open, Code!AfterInvalidate
  <2> QED
    BY <2>1
<1>2. ASSUME NEW e \in Editors, WriteEdit(e) PROVE \E n, r, gone : Out(n, r, gone)
  <2>1. Out(edit[e].movie, edit[e].seen, Invalidated(edit[e]))
    BY <1>2 DEF WriteEdit, Invalidated
  <2> QED
    BY <2>1
<1>3. PICK n, r, gone : Out(n, r, gone)
  BY <1>1, <1>2, WhoSets
<1>4. /\ t \in Viewers /\ obj[t] # None /\ at[t] # "fill" /\ obj[t].movie = n
      /\ obj[t].staleAt = -1 /\ row[n].code = r.code
  BY <1>3 DEF CurrentCopies
<1>5. req[t].code = r.code
  BY <1>4 DEF WInv
<1>6. req[t].code \in Codes
  BY <1>4 DEF IInv, TypeOK, Control, ViewerControl, Requests
<1> QED
  BY <1>3, <1>4, <1>5, <1>6 DEF Code!Drop

LEMMA WithdrawalStep == IInv /\ WInv /\ [Next]_vars => WInv'
<1>1. SUFFICES ASSUME IInv, WInv, [Next]_vars PROVE WInv'
  OBVIOUS
<1>2. IInv'
  BY <1>1, StepPreserves
<1>3. ASSUME NEW c \in Codes, cache'.entry[c] # None
      PROVE  req'[cache'.entry[c].val].code = c
  <2>1. CASE cache'.entry[c] = cache.entry[c]
    <3>1. cache.entry[c].val \in Viewers
      BY <1>1, <1>3, <2>1 DEF IInv, TypeOK, Code!Caches, Code!Entries
    <3>2. at[cache.entry[c].val] # "idle"
      BY <1>1, <1>3, <2>1, <3>1 DEF IInv, EntryTimes, Served, Control, ViewerControl
    <3> QED
      BY <1>1, <1>3, <2>1, <3>1, <3>2, RequestStays DEF WInv
  <2>2. ASSUME NEW t \in Viewers, Fill(t), c = req[t].code, cache'.entry[c].val = t
        PROVE  req'[cache'.entry[c].val].code = c
    BY <2>2 DEF Fill
  <2> QED
    BY <1>1, <1>3, <2>1, <2>2, EntryStays
<1>4. ASSUME NEW t \in Viewers, obj'[t] # None, obj'[t].staleAt = -1
      PROVE  row'[obj'[t].movie] # None /\ row'[obj'[t].movie].code = req'[t].code
  <2>1. CASE obj[t] = None
    <3>1. ReadRow(t)
      BY <1>1, <1>4, <2>1, CopyMade
    <3> DEFINE Read(m) == [movie |-> m, rule |-> row[m].rule, views |-> row[m].views,
                           dirty |-> FALSE, state |-> "attached",
                           readAt |-> clock, staleAt |-> -1, expiredAt |-> -1]
    <3>2. PICK m \in Movies : IsActiveAt(m, req[t].code) /\ obj' = [obj EXCEPT ![t] = Read(m)]
      BY <1>4, <2>1, <3>1 DEF ReadRow
    <3>3. obj'[t].movie = m
      BY <1>1, <3>2 DEF IInv, TypeOK
    <3> QED
      BY <3>1, <3>2, <3>3 DEF ReadRow, IsActiveAt
  <2>2. CASE obj[t] # None
    <3> DEFINE m == obj[t].movie
    <3>1. obj'[t].movie = m /\ obj[t].staleAt = -1
      <4>1. obj'[t].movie = m /\ obj'[t].staleAt \in {obj[t].staleAt, clock} /\ clock \in Nat
        BY <1>1, <2>2, CopyStays DEF IInv, TypeOK
      <4> QED
        BY <1>4, <4>1
    <3>2. m \in Movies
      BY <1>1, <2>2 DEF IInv, TypeOK, Instances
    <3>3. row[m] # None /\ row[m].code = req[t].code /\ row[m] \in Rows
      BY <1>1, <2>2, <3>1, <3>2 DEF WInv, IInv, TypeOK
    <3>4. req'[t] = req[t]
      BY <1>1, <2>2, RequestStays DEF IInv, Control, ViewerControl
    <3>5. row'[m] # None /\ row'[m].code = row[m].code
      <4>1. CASE row'[m] = row[m]
        BY <3>3, <4>1
      <4>2. ASSUME NEW o \in Viewers, obj[o] # None,
                   row'[m] = [row[m] EXCEPT !.views = obj[o].views]
            PROVE  row'[m] # None /\ row'[m].code = row[m].code
        <5>1. obj[o].views \in Nat
          BY <1>1, <4>2 DEF IInv, TypeOK, Instances
        <5>2. row'[m] \in Rows
          BY <3>3, <4>2, <5>1 DEF Rows
        <5> QED
          BY <3>3, <4>2, <5>2, NoneAssumption DEF Rows
      <4>3. ASSUME NEW e \in Editors, CommitEdit(e), edit[e].movie = m PROVE FALSE
        <5>1. obj'[t] = [obj[t] EXCEPT !.staleAt = clock] /\ obj[t] \in Instances
          BY <1>1, <2>2, <3>1, <4>3 DEF CommitEdit, IInv, TypeOK
        <5>2. obj'[t].staleAt = clock /\ clock \in Nat
          BY <1>1, <5>1 DEF Instances, IInv, TypeOK
        <5> QED
          BY <1>4, <5>2
      <4> QED
        BY <1>1, <3>2, <4>1, <4>2, <4>3, RowChanges
    <3> QED
      BY <3>1, <3>3, <3>4, <3>5
  <2> QED
    BY <2>1, <2>2
<1>5. ASSUME NEW t \in withdrawn'
      PROVE  /\ obj'[t] # None /\ at'[t] # "fill"
             /\ \A c \in Codes : cache'.entry[c] # None => cache'.entry[c].val # t
  <2>1. /\ t \in Viewers /\ obj[t] # None /\ at[t] # "fill"
        /\ t \in withdrawn \/ cache'.entry[req[t].code] = None
    BY <1>1, <1>5, WithdrawnNow DEF WInv, IInv, TypeOK
  <2>2. obj'[t] # None
    BY <1>1, <2>1, CopyStays
  <2>3. at'[t] # "fill"
    <3>1. SUFFICES ASSUME at'[t] = "fill" PROVE FALSE
      OBVIOUS
    <3>2. ReadRow(t)
      <4>1. at'[t] = "fill" /\ DOMAIN at = Tasks /\ t \in Tasks
        BY <1>1, <2>1, <3>1 DEF IInv, TypeOK, Tasks
      <4>2. \/ \E c \in Codes, button \in BOOLEAN : Receive(t, c, button)
            \/ ViewerStep(t)
            \/ TaskStep(t)
        BY <1>1, <2>1, <3>1, ViewerMoves
      <4> QED
        BY <4>1, <4>2 DEF Receive, ViewerStep, CountSearch, Gate, Lookup, Fill, Check,
                          LogSearch, Send, Register, Record, CommitViewer, TaskStep, Reply,
                          Rollback, LockTimeout, Goto
    <3> QED
      BY <1>1, <2>1, <3>2 DEF ReadRow, IInv, Control, ViewerControl
  <2>4. ASSUME NEW c \in Codes, cache'.entry[c] # None, cache'.entry[c].val = t PROVE FALSE
    <3>1. c = req'[t].code /\ req'[t] = req[t]
      BY <1>1, <1>3, <2>1, <2>4, RequestStays DEF IInv, Control, ViewerControl
    <3>2. cache'.entry[c] # cache.entry[c]
      BY <1>1, <2>1, <2>4, <3>1 DEF WInv
    <3>3. Fill(t)
      BY <1>1, <2>4, <3>2, EntryStays
    <3> QED
      BY <2>1, <3>3 DEF Fill
  <2> QED
    BY <2>2, <2>3, <2>4
<1> QED
  BY <1>3, <1>4, <1>5 DEF WInv

(* An edit that invalidates a code takes every up to date copy of its      *)
(* movie out of use for good, whichever code it is asked for by, unless a  *)
(* rename overtook the edit (movie_service.py:5-6, 179-225, 306-310).      *)
THEOREM InvalidationIsFinal == Spec => []InvalidatedNeverServed
<1>1. Init => IInv /\ WInv
  <2>1. ASSUME Init PROVE WInv
    BY <2>1 DEF Init, WInv, Code!EmptyCache
  <2> QED
    BY <2>1, InitEstablishes
<1>2. IInv /\ WInv /\ [Next]_vars => IInv' /\ WInv'
  BY StepPreserves, WithdrawalStep
<1>3. IInv /\ WInv => InvalidatedNeverServed
  BY DEF InvalidatedNeverServed, WInv, Code!IsHit, Code!HeldKeys
<1> QED
  BY <1>1, <1>2, <1>3, PTL DEF Spec


-----------------------------------------------------------------------------
(* The deliveries that may already be in a movie's views.                  *)
Counts(m) == {t \in sent : at[t] # "register" /\ obj[using[t]].movie = m}

(* A view is counted at most once for a delivery, so that neither a row    *)
(* nor an instance that may be written back to it is ahead of them.        *)
VInv ==
    /\ IsFiniteSet(sent)
    /\ \A t \in sent :
          /\ at[t] \in {"register", "record"} \cup EndSteps
          /\ using[t] # None /\ obj[using[t]] # None
    /\ \A t \in Viewers : at[t] = "register" => t \in sent
    /\ \A m \in Movies : row[m] # None => row[m].views <= Cardinality(Counts(m))
    /\ \A u \in Viewers :
          obj[u] # None => obj[u].views <= Cardinality(Counts(obj[u].movie))

LEMMA CountsFinite ==
    ASSUME IsFiniteSet(sent), NEW m
    PROVE  IsFiniteSet(Counts(m)) /\ Cardinality(Counts(m)) \in Nat
<1>1. IsFiniteSet(Counts(m))
  BY FS_Subset DEF Counts
<1> QED
  BY <1>1, FS_CardinalityType

(* A viewer that has been sent the movie does not come back.               *)
LEMMA SentMovesOn ==
    ASSUME IInv, VInv, [Next]_vars, NEW t \in sent
    PROVE  /\ at'[t] \in {"register", "record"} \cup EndSteps
           /\ at'[t] = "register" => at[t] = "register"
           /\ using'[t] = using[t]
           /\ obj'[using[t]] # None /\ obj'[using[t]].movie = obj[using[t]].movie
<1>1. /\ t \in Viewers /\ t \in Tasks /\ t \notin Editors /\ DOMAIN at = Tasks
      /\ at[t] \in {"register", "record"} \cup EndSteps /\ DOMAIN using = Viewers
      /\ using[t] \in Viewers /\ obj[using[t]] # None
  BY LookupAssumption DEF VInv, IInv, TypeOK, Tasks
<1>2. ASSUME at'[t] # at[t] PROVE at'[t] \in {"record"} \cup EndSteps
  <2>1. \/ \E c \in Codes, button \in BOOLEAN : Receive(t, c, button)
        \/ ViewerStep(t)
        \/ TaskStep(t)
    BY <1>1, <1>2, ViewerMoves
  <2>2. CASE ViewerStep(t)
    BY <1>1, <2>2 DEF ViewerStep, CountSearch, Gate, Lookup, ReadRow, Fill, Check,
                      LogSearch, Send, Register, Record, CommitViewer, Goto, EndSteps
  <2>3. CASE TaskStep(t)
    BY <1>1, <2>3 DEF TaskStep, Reply, Rollback, LockTimeout, Goto, EndSteps
  <2> QED
    BY <1>1, <2>1, <2>2, <2>3 DEF Receive, EndSteps
<1>3. ASSUME NEW o \in Viewers, Lookup(o) \/ Fill(o) PROVE using'[t] = using[t]
  BY <1>1, <1>3 DEF Lookup, Fill, EndSteps
<1>4. using'[t] = using[t]
  BY <1>3, WhoSets
<1> QED
  BY <1>1, <1>2, <1>4, CopyStays DEF EndSteps

(* Registering follows sending.                                            *)
LEMMA RegistersAreSent ==
    ASSUME IInv, VInv, [Next]_vars, NEW t \in Viewers, at'[t] = "register"
    PROVE  t \in sent'
<1>1. t \in Tasks /\ t \notin Editors /\ DOMAIN at = Tasks
  BY LookupAssumption DEF IInv, TypeOK, Tasks
<1>2. sent \subseteq sent'
  <2>1. ASSUME NEW o \in Viewers, Send(o) PROVE sent \subseteq sent'
    BY <2>1 DEF Send
  <2> QED
    BY <2>1, WhoSets
<1>3. CASE at[t] = "register"
  BY <1>2, <1>3 DEF VInv
<1>4. CASE at[t] # "register"
  <2>1. \/ \E c \in Codes, button \in BOOLEAN : Receive(t, c, button)
        \/ ViewerStep(t)
        \/ TaskStep(t)
    BY <1>4, ViewerMoves
  <2>2. Send(t)
    BY <1>1, <1>4, <2>1
       DEF Receive, ViewerStep, CountSearch, Gate, Lookup, ReadRow, Fill, Check, LogSearch,
           Register, Record, CommitViewer, TaskStep, Reply, Rollback, LockTimeout, Goto
  <2> QED
    BY <1>1, <2>2 DEF Send, Goto
<1> QED
  BY <1>3, <1>4

(* What may be counted only grows, and by one when a view is registered.   *)
LEMMA CountsGrow ==
    ASSUME IInv, VInv, [Next]_vars, NEW m, IsFiniteSet(sent')
    PROVE  /\ Cardinality(Counts(m)) <= Cardinality(Counts(m)')
           /\ \A t \in Viewers :
                 Register(t) /\ at'[t] # "register" /\ obj[using[t]].movie = m =>
                     Cardinality(Counts(m)) + 1 <= Cardinality(Counts(m)')
<1>1. sent \subseteq sent'
  <2>1. ASSUME NEW o \in Viewers, Send(o) PROVE sent \subseteq sent'
    BY <2>1 DEF Send
  <2> QED
    BY <2>1, WhoSets
<1>2. Counts(m) \subseteq Counts(m)'
  BY <1>1, SentMovesOn DEF Counts
<1>3. IsFiniteSet(Counts(m)) /\ IsFiniteSet(Counts(m)')
  <2>1. IsFiniteSet(Counts(m))
    BY CountsFinite DEF VInv
  <2>2. Counts(m)' \subseteq sent'
    BY DEF Counts
  <2> QED
    BY <2>1, <2>2, FS_Subset
<1>4. Cardinality(Counts(m)) <= Cardinality(Counts(m)')
  BY <1>2, <1>3, FS_Subset
<1>5. ASSUME NEW t \in Viewers, Register(t), at'[t] # "register", obj[using[t]].movie = m
      PROVE  Cardinality(Counts(m)) + 1 <= Cardinality(Counts(m)')
  <2>1. t \in sent /\ t \notin Counts(m)
    BY <1>5 DEF Register, VInv, Counts
  <2>2. t \in Counts(m)'
    BY <1>1, <1>5, <2>1, SentMovesOn DEF Counts
  <2>3. Cardinality(Counts(m) \cup {t}) = Cardinality(Counts(m)) + 1
    BY <1>3, <2>1, FS_AddElement
  <2>4. Counts(m) \cup {t} \subseteq Counts(m)'
    BY <1>2, <2>2
  <2> QED
    BY <1>3, <2>3, <2>4, FS_Subset
<1> QED
  BY <1>4, <1>5

LEMMA ViewsStep == IInv /\ VInv /\ [Next]_vars => VInv'
<1>1. SUFFICES ASSUME IInv, VInv, [Next]_vars PROVE VInv'
  OBVIOUS
<1>2. IInv'
  BY <1>1, StepPreserves
<1>3. IsFiniteSet(sent')
  <2>1. ASSUME NEW t \in Viewers, Send(t) PROVE sent' = sent \/ sent' = sent \cup {t}
    BY <2>1 DEF Send
  <2> QED
    BY <1>1, <2>1, WhoSets, FS_AddElement DEF VInv
<1>4. ASSUME NEW t \in sent'
      PROVE  /\ at'[t] \in {"register", "record"} \cup EndSteps
             /\ using'[t] # None /\ obj'[using'[t]] # None
  <2>1. CASE t \in sent
    BY <1>1, <2>1, SentMovesOn DEF VInv
  <2>2. ASSUME NEW o \in Viewers, Send(o), t \notin sent
        PROVE  /\ at'[t] = "register"
               /\ using'[t] # None /\ obj'[using'[t]] # None
    <3>1. t = o
      BY <1>4, <2>2 DEF Send
    <3>2. sent' # sent
      BY <1>4, <2>2
    <3>3. at'[o] = "register"
      BY <1>1, <2>2, <3>2 DEF Send, Goto, IInv, TypeOK, Tasks
    <3>4. using[o] # None /\ obj[using[o]] # None
      BY <1>1, <2>2 DEF Send, IInv, Control, ViewerControl
    <3> QED
      BY <2>2, <3>1, <3>3, <3>4 DEF Send
  <2> QED
    BY <1>1, <1>4, <2>1, <2>2, WhoSets
<1>5. \A t \in Viewers : at'[t] = "register" => t \in sent'
  BY <1>1, RegistersAreSent
<1>6. \A m : /\ Cardinality(Counts(m)) \in Nat /\ Cardinality(Counts(m)') \in Nat
             /\ Cardinality(Counts(m)) <= Cardinality(Counts(m)')
  <2> TAKE m
  <2>1. Cardinality(Counts(m)) \in Nat /\ Cardinality(Counts(m)) <= Cardinality(Counts(m)')
    BY <1>1, <1>3, CountsFinite, CountsGrow DEF VInv
  <2>2. IsFiniteSet(Counts(m)')
    <3>1. Counts(m)' \subseteq sent'
      BY DEF Counts
    <3> QED
      BY <1>3, <3>1, FS_Subset
  <2> QED
    BY <2>1, <2>2, FS_CardinalityType
<1>7. ASSUME NEW m \in Movies, row'[m] # None
      PROVE  row'[m].views <= Cardinality(Counts(m)')
  <2>1. row'[m] \in Rows /\ row'[m].views \in Nat
    BY <1>2, <1>7 DEF IInv, TypeOK, Rows
  <2>2. CASE row'[m] = row[m]
    BY <1>1, <1>6, <1>7, <2>1, <2>2 DEF VInv
  <2>3. CASE row'[m] # row[m]
    <3>1. row[m] # None /\ row[m] \in Rows
      BY <1>1, <2>3, RowChanges DEF IInv, TypeOK
    <3>2. ASSUME NEW t \in Viewers, obj[t] # None, obj[t].movie = m,
                 row'[m] = [row[m] EXCEPT !.views = obj[t].views]
          PROVE  row'[m].views <= Cardinality(Counts(m))
      BY <1>1, <3>1, <3>2 DEF VInv, Rows
    <3>3. ASSUME NEW e \in Editors, CommitEdit(e), row'[m] = Edited(row[m], edit[e])
          PROVE  row'[m].views <= Cardinality(Counts(m))
      <4>1. row'[m].views = row[m].views
        <5>1. CASE edit[e].kind = "active"
          <6> DEFINE a == ~ edit[e].seen.active
          <6>1. row'[m] = [row[m] EXCEPT !.active = a]
            BY <3>1, <3>3, <5>1 DEF Edited
          <6> HIDE DEF a
          <6> QED
            BY <3>1, <6>1 DEF Rows
        <5>2. CASE edit[e].kind \in {"visibility", "code", "caption"}
          BY <3>1, <3>3, <5>2 DEF Edited, Rows
        <5>3. edit[e].kind \in {"active", "visibility", "code", "caption"}
          <6>1. edit[e] \in Edits
            BY <1>1, <3>3, LookupAssumption DEF CommitEdit, IInv, TypeOK, Control, EditorControl
          <6> QED
            BY <1>7, <3>1, <3>3, <6>1, LookupAssumption DEF Edited, Edits
        <5> QED
          BY <5>1, <5>2, <5>3
      <4> QED
        BY <1>1, <3>1, <4>1 DEF VInv
    <3>4. row'[m].views <= Cardinality(Counts(m))
      BY <1>1, <2>3, <3>2, <3>3, RowChanges
    <3> QED
      BY <1>6, <2>1, <3>4
  <2> QED
    BY <2>2, <2>3
<1>8. ASSUME NEW u \in Viewers, obj'[u] # None, NEW n, obj'[u].movie = n
      PROVE  obj'[u].views <= Cardinality(Counts(n)')
  <2>1. CASE obj[u] = None
    <3>1. ReadRow(u)
      BY <1>1, <1>8, <2>1, CopyMade
    <3> DEFINE Read(m) == [movie |-> m, rule |-> row[m].rule, views |-> row[m].views,
                           dirty |-> FALSE, state |-> "attached",
                           readAt |-> clock, staleAt |-> -1, expiredAt |-> -1]
    <3>2. PICK m \in Movies : IsActiveAt(m, req[u].code) /\ obj' = [obj EXCEPT ![u] = Read(m)]
      BY <1>8, <2>1, <3>1 DEF ReadRow
    <3>3. obj'[u].movie = m /\ obj'[u].views = row[m].views /\ row[m] # None
      BY <1>1, <3>2 DEF IInv, TypeOK, IsActiveAt
    <3>4. row[m].views \in Nat /\ row[m].views <= Cardinality(Counts(m))
      BY <1>1, <3>3 DEF VInv, IInv, TypeOK, Rows
    <3> QED
      BY <1>6, <1>8, <3>3, <3>4
  <2>2. CASE obj[u] # None
    <3>1. /\ obj[u].movie = n
          /\ \/ obj'[u].views = obj[u].views
             \/ /\ obj'[u].views = obj[u].views + 1
                /\ \E t \in Viewers : Register(t) /\ using[t] = u /\ at'[t] # "register"
      BY <1>1, <1>8, <2>2, CopyStays
    <3>2. obj[u].views \in Nat /\ obj[u].views <= Cardinality(Counts(n))
      BY <1>1, <2>2, <3>1 DEF VInv, IInv, TypeOK, Instances
    <3>3. CASE obj'[u].views = obj[u].views
      BY <1>6, <3>2, <3>3
    <3>4. ASSUME NEW t \in Viewers, Register(t), using[t] = u, at'[t] # "register",
                 obj'[u].views = obj[u].views + 1
          PROVE  obj'[u].views <= Cardinality(Counts(n)')
      <4>1. Cardinality(Counts(n)) + 1 <= Cardinality(Counts(n)')
        BY <1>1, <1>3, <3>1, <3>4, CountsGrow
      <4> QED
        BY <1>6, <3>2, <3>4, <4>1
    <3> QED
      BY <3>1, <3>3, <3>4
  <2> QED
    BY <2>1, <2>2
<1>9. ASSUME NEW u \in Viewers
      PROVE  (obj[u] # None => obj[u].views <= Cardinality(Counts(obj[u].movie)))'
  BY <1>8 DEF Counts
<1> QED
  BY <1>3, <1>4, <1>5, <1>7, <1>9 DEF VInv

(* Although instances are shared between sessions and written back by      *)
(* sessions that did not count, a movie's views never claim more           *)
(* deliveries than Telegram accepted (movie_repository.py:123-131).        *)
THEOREM ViewsAreDeliveries == Spec => []ViewsNeverExceedSends
<1>1. Init => IInv /\ VInv
  <2>1. ASSUME Init PROVE VInv
    <3>1. sent = {} /\ \A m : Counts(m) = {}
      BY <2>1 DEF Init, Counts
    <3>2. \A m \in Movies : row[m].views = 0
      BY <2>1 DEF Init
    <3>3. /\ IsFiniteSet(sent)
          /\ \A m \in Movies : row[m].views <= Cardinality(Counts(m))
      BY <3>1, <3>2, FS_EmptySet
    <3>4. \A t \in Viewers : at[t] # "register" /\ obj[t] = None
      BY <2>1 DEF Init, Tasks
    <3> QED
      BY <3>1, <3>3, <3>4 DEF VInv
  <2> QED
    BY <2>1, InitEstablishes
<1>2. IInv /\ VInv /\ [Next]_vars => IInv' /\ VInv'
  BY StepPreserves, ViewsStep
<1>3. IInv /\ VInv => ViewsNeverExceedSends
  <2>1. SUFFICES ASSUME IInv, VInv, NEW m \in Movies, row[m] # None
                 PROVE  row[m].views <= Cardinality({t \in sent : obj[using[t]].movie = m})
    BY DEF ViewsNeverExceedSends
  <2> DEFINE all == {t \in sent : obj[using[t]].movie = m}
  <2>2. IsFiniteSet(all) /\ Counts(m) \subseteq all
    <3>1. IsFiniteSet(sent) /\ all \subseteq sent
      BY <2>1 DEF VInv
    <3> QED
      BY <3>1, FS_Subset DEF Counts
  <2>3. Cardinality(Counts(m)) <= Cardinality(all) /\ Cardinality(all) \in Nat
    BY <2>2, FS_Subset, FS_CardinalityType
  <2>4. row[m].views \in Nat /\ row[m].views <= Cardinality(Counts(m))
    BY <2>1 DEF VInv, IInv, TypeOK, Rows
  <2>5. Cardinality(Counts(m)) \in Nat
    BY <2>1, CountsFinite DEF VInv
  <2> QED
    BY <2>3, <2>4, <2>5
<1> QED
  BY <1>1, <1>2, <1>3, PTL DEF Spec
=============================================================================
