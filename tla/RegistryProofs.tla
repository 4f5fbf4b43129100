--------------------------- MODULE RegistryProofs ---------------------------
(***************************************************************************)
(* What CodeRegistry guarantees for every number of updates, chats, admins *)
(* and codes, any files to import and both database backends.              *)
(***************************************************************************)
EXTENDS CodeRegistry, TLAPS

(* What a task knows at each of its steps.                                 *)
Control(t) ==
    /\ job[t] = None <=> at[t] = "idle"
    /\ at[t] \in {"checkReserved", "checkTaken", "insert", "free", "findTaken",
                  "findReserved", "book"} => job[t].code \in Codes
    /\ at[t] \in {"rows", "checkReserved", "checkTaken", "draw", "probe", "insert"}
       => job[t].file \in Files
    /\ at[t] = "free" => job[t].kind = "release" \/ job[t].file \in Files
    /\ draft[t].added # {} => at[t] # "idle" /\ job[t].file \in Files
    /\ at[t] \in {"draw", "probe"} => IsGenerated(t)
    /\ at[t] \in {"idle", "route", "warn", "keep"} \cup Ended => draft[t] = NoDraft

Routed(t) ==
    at[t] = "route" => /\ job[t].kind \in {"media", "import"} => job[t].file \in Files
                       /\ job[t].kind \in {"text", "reserve", "release"} => job[t].code \in Codes
                       /\ job[t].from = None

(* What a task has told its admin, and what it has stored.                 *)
Confirms(t) ==
    /\ at[t] \notin {"commit"} \cup Ended => told[t] = {}
    /\ at[t] = "commit" => told[t] = draft[t].added
    /\ StoredBy(t) = IF at[t] = "done" THEN told[t] ELSE {}

(* Uncommitted rows are locked, so they are still new when committed.      *)
Locked(t) ==
    \A c \in Codes :
       /\ c \in draft[t].added  => holder[<<"movie", c>>] = t /\ movie[c] = None
       /\ c \in draft[t].booked => holder[<<"reserved", c>>] = t /\ reserved[c] = None
       /\ c \in draft[t].freed  => reserved[c] # None

(* Who may end the reservation of a code.                                  *)
Excused(t, c) ==
    \/ job[t].kind = "release"
    \/ Admin(t) = reserved[c].by
    \/ IsGenerated(t)
    \/ <<t, c>> \in late

Respects(t) ==
    \A c \in Codes : (c \in draft[t].freed \/ (HasLooked(t, c) /\ Holds(c))) => Excused(t, c)

(* A capture is in one chat or with one task, and its message was handled. *)
From(t) == IF job[t] = None THEN None ELSE job[t].from

Handled(m) == m \in Tasks => at[m] \notin {"idle", "route"}

Captures ==
    /\ \A t, u \in Tasks : From(t) = From(u) => From(t) = None \/ t = u
    /\ \A x, y \in Chats : fsm[x].from = fsm[y].from => fsm[x].from = None \/ x = y
    /\ \A t \in Tasks, x \in Chats : From(t) = fsm[x].from => From(t) = None
    /\ \A t \in Tasks : Handled(From(t))
    /\ \A x \in Chats : Handled(fsm[x].from)

IInv ==
    /\ TypeOK
    /\ \A t \in Tasks : /\ Control(t) /\ Routed(t) /\ Confirms(t)
                        /\ Locked(t) /\ Respects(t)
    /\ Captures

-----------------------------------------------------------------------------
LEMMA InitEstablishes == Init => IInv
<1>1. SUFFICES ASSUME Init PROVE IInv
  OBVIOUS
<1>2. TypeOK
  BY <1>1, RegistryAssumption DEF Init, TypeOK, Steps, NoDraft, Drafts
<1>3. \A t \in Tasks : at[t] = "idle" /\ job[t] = None /\ draft[t] = NoDraft /\ told[t] = {}
  BY <1>1 DEF Init
<1>4. ASSUME NEW t \in Tasks
      PROVE  Control(t) /\ Routed(t) /\ Confirms(t) /\ Locked(t) /\ Respects(t)
  <2>1. StoredBy(t) = {}
    BY <1>1 DEF Init, StoredBy
  <2> QED
    BY <1>3, <2>1 DEF Control, Routed, Confirms, Locked, Respects, HasLooked, NoDraft, Ended
<1>5. Captures
  <2>1. \A t \in Tasks : From(t) = None
    BY <1>3 DEF From
  <2>2. \A x \in Chats : fsm[x].from \in {Earlier, None}
    BY <1>1, RegistryAssumption DEF Init
  <2>3. \A x, y \in Chats : fsm[x].from = fsm[y].from => fsm[x].from = None \/ x = y
    BY <1>1, RegistryAssumption DEF Init
  <2>4. None \notin Tasks /\ Earlier \notin Tasks
    BY RegistryAssumption, RegistryNoneAssumption
  <2> QED
    BY <2>1, <2>2, <2>3, <2>4 DEF Captures, Handled
<1> QED
  BY <1>2, <1>4, <1>5 DEF IInv

-----------------------------------------------------------------------------
(* Steps of one task.                                                      *)
Alone(t) ==
    \A u \in Tasks : u # t => /\ at'[u] = at[u] /\ job'[u] = job[u]
                              /\ draft'[u] = draft[u] /\ told'[u] = told[u]

(* A step that writes nothing to the database concerns its task and the    *)
(* chats only.                                                             *)
LEMMA QuietStep ==
    ASSUME IInv, NEW t \in Tasks, Alone(t), TypeOK', Captures',
           UNCHANGED <<movie, reserved, holder, draft, late>>,
           Control(t)', Routed(t)', Confirms(t)', Respects(t)'
    PROVE  IInv'
<1>1. \A u \in Tasks : draft'[u] = draft[u]
  OBVIOUS
<1>2. ASSUME NEW u \in Tasks, u # t
      PROVE  (Control(u) /\ Routed(u) /\ Confirms(u) /\ Respects(u))'
  <2>1. Control(u) /\ Routed(u) /\ Confirms(u) /\ Respects(u)
    BY DEF IInv
  <2>2. at'[u] = at[u] /\ job'[u] = job[u] /\ draft'[u] = draft[u] /\ told'[u] = told[u]
    BY <1>2 DEF Alone
  <2>3. Control(u)' /\ Routed(u)'
    BY <2>1, <2>2 DEF Control, Routed, IsGenerated
  <2>4. Confirms(u)'
    BY <2>1, <2>2 DEF Confirms, StoredBy
  <2>5. Respects(u)'
    BY <2>1, <2>2 DEF Respects, HasLooked, Holds, Excused, Admin, IsGenerated
  <2> QED
    BY <2>3, <2>4, <2>5
<1>3. ASSUME NEW u \in Tasks PROVE Locked(u)'
  BY <1>1 DEF IInv, Locked
<1> QED
  BY <1>2, <1>3 DEF IInv

(* Captures that move: one chat and one task are concerned.                *)
LEMMA CapturesMove ==
    ASSUME IInv, NEW t \in Tasks, NEW x \in Chats, Alone(t), at'[t] \notin {"idle", "route"},
           \A y \in Chats : y # x => fsm'[y].from = fsm[y].from,
           \/ From(t)' = From(t) /\ fsm'[x].from \in {fsm[x].from, None}
           \/ From(t)' = fsm[x].from /\ fsm'[x].from = None
           \/ at[t] = "route" /\ From(t)' = From(t) /\ fsm'[x].from = t
    PROVE  Captures'
<1>1. Captures
  BY DEF IInv
<1>2. \A u \in Tasks : u # t => From(u)' = From(u)
  BY DEF Alone, From
<1>3. \A m : Handled(m) => Handled(m)'
  BY DEF Alone, Handled
<1>4. Handled(t)' /\ Handled(None)'
  BY RegistryNoneAssumption DEF Handled
<1>5. at[t] = "route" => /\ \A u \in Tasks : From(u) # t
                         /\ \A y \in Chats : fsm[y].from # t
  BY <1>1 DEF Captures, Handled
<1>6. t # None
  BY RegistryNoneAssumption
<1>7. CASE From(t)' = From(t) /\ fsm'[x].from \in {fsm[x].from, None}
  BY <1>1, <1>2, <1>3, <1>4, <1>7 DEF Captures
<1>8. CASE From(t)' = fsm[x].from /\ fsm'[x].from = None
  BY <1>1, <1>2, <1>3, <1>4, <1>8 DEF Captures
<1>9. CASE at[t] = "route" /\ From(t)' = From(t) /\ fsm'[x].from = t
  BY <1>1, <1>2, <1>3, <1>4, <1>5, <1>6, <1>9 DEF Captures
<1> QED
  BY <1>7, <1>8, <1>9

LEMMA CapturesStay ==
    ASSUME IInv, NEW t \in Tasks, Alone(t), at'[t] \notin {"idle", "route"},
           \A y \in Chats : fsm'[y].from = fsm[y].from, From(t)' = From(t)
    PROVE  Captures'
<1>1. Captures
  BY DEF IInv
<1>2. \A u \in Tasks : From(u)' = From(u)
  BY DEF Alone, From
<1>3. \A m : Handled(m) => Handled(m)'
  BY DEF Alone, Handled
<1> QED
  BY <1>1, <1>2, <1>3 DEF Captures

(* A quiet step from one label to another, with new locals j.              *)
Local(t, step, j, said) ==
    /\ step \in Steps \ {"idle", "route"} /\ j \in Jobs
    /\ at[t] \notin {"idle", "commit"} \cup Ended
    /\ at' = [at EXCEPT ![t] = step]
    /\ job' = [job EXCEPT ![t] = j]
    /\ told' = [told EXCEPT ![t] = said]
    /\ said = IF step = "commit" THEN draft[t].added ELSE told[t]
    /\ fsm' \in [Chats -> Conversations]
    /\ gen' \in Tasks \cup {None}
    /\ UNCHANGED <<movie, reserved, holder, draft, late>>

(* What the next step of a task, and its locals there, must agree with.    *)
Fits(t, step, j) ==
    /\ j.kind = job[t].kind /\ j.raw = job[t].raw /\ j.chat = job[t].chat
    /\ step \in {"checkReserved", "checkTaken", "insert", "free", "findTaken",
                 "findReserved", "book"} => j.code \in Codes
    /\ step \in {"rows", "checkReserved", "checkTaken", "draw", "probe", "insert"}
       => j.file \in Files
    /\ step = "free" => j.kind = "release" \/ j.file \in Files
    /\ draft[t].added # {} => j.file = job[t].file
    /\ step \in {"draw", "probe"} => IsGenerated(t)
    /\ step \in {"warn", "keep"} \cup Ended => draft[t] = NoDraft
    /\ step \in {"checkTaken", "insert", "free"} =>
          \A c \in Codes : j.code = c /\ Holds(c) => Excused(t, c)

LEMMA LocalStep ==
    ASSUME IInv, NEW t \in Tasks, NEW step, NEW j, NEW said, Captures',
           Local(t, step, j, said), Fits(t, step, j)
    PROVE  IInv'
<1> USE DEF Local, Fits
<1>1. /\ TypeOK /\ Control(t) /\ Routed(t) /\ Confirms(t) /\ Respects(t)
  BY DEF IInv
<1>2. j # None
  BY RegistryNoneAssumption
<1>3. at'[t] = step /\ job'[t] = j /\ draft'[t] = draft[t]
  BY <1>1 DEF TypeOK
<1>4. told'[t] = said
  BY <1>1 DEF TypeOK
<1>5. draft[t].added \in SUBSET Codes /\ told[t] \in SUBSET Codes
  BY <1>1 DEF TypeOK, Drafts
<1>6. TypeOK'
  <2>1. at' \in [Tasks -> Steps] /\ job' \in [Tasks -> Jobs \cup {None}]
    BY <1>1 DEF TypeOK
  <2>2. told' \in [Tasks -> SUBSET Codes]
    BY <1>1, <1>5 DEF TypeOK
  <2> QED
    BY <1>1, <2>1, <2>2 DEF TypeOK
<1>7. Alone(t)
  BY <1>1 DEF TypeOK, Alone
<1>8. IsGenerated(t)' = IsGenerated(t) /\ Admin(t)' = Admin(t)
  BY <1>3 DEF IsGenerated, Admin
<1>9. Control(t)' /\ Routed(t)'
  BY <1>1, <1>2, <1>3, <1>8 DEF Control, Routed
<1>10. Confirms(t)'
  <2>1. StoredBy(t)' = StoredBy(t) /\ StoredBy(t) = {} /\ told[t] = {}
    BY <1>1 DEF StoredBy, Confirms, Ended
  <2> QED
    BY <1>3, <1>4, <2>1 DEF Confirms, Ended
<1>11. Respects(t)'
  BY <1>1, <1>3, <1>8 DEF Respects, HasLooked, Holds, Excused
<1> QED
  BY <1>6, <1>7, <1>9, <1>10, <1>11, QuietStep

(* The same, when neither the chats nor the locals change.                 *)
LEMMA PlainStep ==
    ASSUME IInv, NEW t \in Tasks, NEW step \in Steps \ {"idle", "route", "commit"},
           at[t] \notin {"idle", "commit"} \cup Ended,
           at' = [at EXCEPT ![t] = step], gen' \in Tasks \cup {None},
           UNCHANGED <<movie, reserved, holder, draft, fsm, job, told, late>>,
           Fits(t, step, job[t])
    PROVE  IInv'
<1>1. TypeOK /\ Control(t)
  BY DEF IInv
<1>2. Local(t, step, job[t], told[t])
  BY <1>1 DEF TypeOK, Control, Local
<1>3. Alone(t) /\ at'[t] = step
  BY <1>1 DEF TypeOK, Alone
<1>4. Captures'
  BY <1>3, CapturesStay DEF From
<1> QED
  BY <1>2, <1>4, LocalStep

-----------------------------------------------------------------------------
(* An update arrives.                                                      *)
LEMMA ReceiveStep ==
    ASSUME IInv, NEW t \in Tasks, NEW kind, NEW chat \in Chats, NEW code \in Codes \cup {None},
           NEW file \in Files \cup {None}, NEW rows \in Seq(Codes \cup {None}),
           NEW opens \in FsmStates, Receive(t, kind, chat, code, file, rows, opens),
           kind \in {"media", "import"} => file \in Files,
           kind \in {"text", "reserve", "release"} => code \in Codes
    PROVE  IInv'
<1> DEFINE j == [kind |-> kind, chat |-> chat, raw |-> fsm[chat].state, code |-> code,
                 file |-> file, from |-> None, rows |-> rows, tries |-> 0, opens |-> opens]
<1>1. TypeOK /\ Control(t) /\ Confirms(t) /\ Captures
  BY DEF IInv
<1>2. /\ at[t] = "idle" /\ kind \in Kinds /\ job' = [job EXCEPT ![t] = j]
      /\ at' = [at EXCEPT ![t] = "route"]
      /\ UNCHANGED <<movie, reserved, holder, draft, fsm, gen, told, late>>
  BY DEF Receive, Goto
<1>3. j \in Jobs
  <2>1. fsm[chat].state \in FsmStates
    BY <1>1 DEF TypeOK, Conversations
  <2> QED
    BY <1>2, <2>1 DEF Jobs
<1>4. j # None
  BY <1>3, RegistryNoneAssumption
<1>5. at'[t] = "route" /\ job'[t] = j /\ draft'[t] = NoDraft /\ told'[t] = {}
  BY <1>1, <1>2 DEF TypeOK, Control, Confirms, Ended
<1>6. Alone(t)
  BY <1>1, <1>2 DEF TypeOK, Alone
<1>7. TypeOK'
  <2>1. at' \in [Tasks -> Steps] /\ job' \in [Tasks -> Jobs \cup {None}]
    BY <1>1, <1>2, <1>3 DEF TypeOK, Steps
  <2> QED
    BY <1>1, <1>2, <2>1 DEF TypeOK
<1>8. Captures'
  <2>1. \A u \in Tasks : From(u)' = From(u)
    <3>1. From(t) = None /\ From(t)' = None
      BY <1>1, <1>2, <1>4, <1>5 DEF Control, From
    <3> QED
      BY <1>6, <3>1 DEF Alone, From
  <2>2. \A m : Handled(m) => Handled(m)'
    BY <1>2, <1>6 DEF Alone, Handled
  <2> QED
    BY <1>1, <1>2, <2>1, <2>2 DEF Captures
<1>9. Control(t)' /\ Routed(t)'
  BY <1>4, <1>5 DEF Control, Routed, NoDraft, Ended
<1>10. Confirms(t)'
  BY <1>1, <1>2, <1>5 DEF Confirms, StoredBy, Ended
<1>11. Respects(t)'
  BY <1>5 DEF Respects, HasLooked, NoDraft
<1> QED
  BY <1>2, <1>6, <1>7, <1>8, <1>9, <1>10, <1>11, QuietStep

LEMMA ReceiveAnyStep ==
    ASSUME IInv, NEW t \in Tasks, NEW chat \in Chats, ReceiveAny(t, chat)
    PROVE  IInv'
<1>1. <<>> \in Seq(Codes \cup {None})
  OBVIOUS
<1>2. {"none", "media", "collecting"} \subseteq FsmStates
  BY DEF FsmStates, FormSteps
<1>3. Asked \subseteq Codes /\ Imports \subseteq Seq(Codes \cup {None})
  BY RegistryAssumption
<1>4. ASSUME NEW f \in Files, Receive(t, "media", chat, None, f, <<>>, "none") PROVE IInv'
  BY <1>1, <1>2, <1>4, ReceiveStep
<1>5. ASSUME NEW c \in Asked, Receive(t, "text", chat, c, None, <<>>, "none") PROVE IInv'
  BY <1>1, <1>2, <1>3, <1>5, ReceiveStep
<1>6. ASSUME Receive(t, "done", chat, None, None, <<>>, "none") PROVE IInv'
  BY <1>1, <1>2, <1>6, ReceiveStep
<1>7. ASSUME NEW s \in {"media", "collecting"}, Receive(t, "open", chat, None, None, <<>>, s)
      PROVE  IInv'
  BY <1>1, <1>2, <1>7, ReceiveStep
<1>8. ASSUME NEW k \in {"reserve", "release"}, NEW c \in Asked,
             Receive(t, k, chat, c, None, <<>>, "none")
      PROVE  IInv'
  <2>1. k \notin {"media", "import"}
    OBVIOUS
  <2> QED
    BY <1>1, <1>2, <1>3, <1>8, <2>1, ReceiveStep
<1>9. ASSUME NEW rows \in Imports, NEW f \in Files,
             Receive(t, "import", chat, None, f, rows, "none")
      PROVE  IInv'
  BY <1>2, <1>3, <1>9, ReceiveStep
<1> QED
  BY <1>4, <1>5, <1>6, <1>7, <1>8, <1>9 DEF ReceiveAny

-----------------------------------------------------------------------------
(* The handlers.                                                           *)
LEMMA Working ==
    ASSUME IInv, NEW t \in Tasks, at[t] # "idle"
    PROVE  /\ job[t] \in Jobs /\ job[t].chat \in Chats /\ job[t].kind \in Kinds
           /\ fsm[job[t].chat] \in Conversations
<1>1. job[t] \in Jobs
  BY DEF IInv, TypeOK, Control
<1>2. job[t].chat \in Chats /\ job[t].kind \in Kinds
  BY <1>1 DEF Jobs
<1> QED
  BY <1>1, <1>2 DEF IInv, TypeOK

(* A handler that changes its conversation, and answers or ends.           *)
LEMMA ChatStep ==
    ASSUME IInv, NEW t \in Tasks, at[t] \in {"route", "warn", "keep"}, NEW step \in {"reply", "commit"},
           NEW d \in Conversations, at' = [at EXCEPT ![t] = step],
           fsm' = [fsm EXCEPT ![job[t].chat] = d],
           \/ d.from \in {fsm[job[t].chat].from, None}
           \/ at[t] = "route" /\ d.from = t,
           UNCHANGED <<movie, reserved, holder, draft, gen, job, told, late>>
    PROVE  IInv'
<1>1. TypeOK /\ Control(t) /\ Confirms(t)
  BY DEF IInv
<1>2. job[t] \in Jobs /\ job[t].chat \in Chats
  BY Working
<1>3. draft[t] = NoDraft /\ told[t] = {}
  BY <1>1 DEF Control, Confirms, Ended
<1>4. Alone(t) /\ at'[t] = step
  BY <1>1 DEF TypeOK, Alone
<1>5. /\ fsm' \in [Chats -> Conversations] /\ fsm'[job[t].chat] = d
      /\ \A y \in Chats : y # job[t].chat => fsm'[y].from = fsm[y].from
  BY <1>1, <1>2 DEF TypeOK
<1>6. Captures'
  <2>1. From(t)' = From(t)
    BY DEF From
  <2>2. at'[t] \notin {"idle", "route"}
    BY <1>4
  <2> QED
    BY <1>2, <1>4, <1>5, <2>1, <2>2, CapturesMove
<1>7. Local(t, step, job[t], told[t])
  BY <1>1, <1>2, <1>3, <1>5 DEF TypeOK, Local, Steps, Ended, NoDraft
<1>8. Fits(t, step, job[t])
  BY <1>3 DEF Fits, Ended
<1> QED
  BY <1>6, <1>7, <1>8, LocalStep

(* A handler that takes what its conversation holds, to make a movie of it.*)
LEMMA TakeStep ==
    ASSUME IInv, NEW t \in Tasks, at[t] = "route", NEW step \in {"checkReserved", "draw", "abort"},
           at' = [at EXCEPT ![t] = step],
           job' = [job EXCEPT ![t].file = fsm[job[t].chat].file,
                              ![t].from = fsm[job[t].chat].from],
           fsm' = [fsm EXCEPT ![job[t].chat] = Cleared],
           step = "checkReserved" => job[t].code \in Codes,
           step # "abort" => fsm[job[t].chat].file \in Files,
           step = "draw" => IsGenerated(t),
           UNCHANGED <<movie, reserved, holder, draft, gen, told, late>>
    PROVE  IInv'
<1> DEFINE x == job[t].chat
           j == [job[t] EXCEPT !.file = fsm[x].file, !.from = fsm[x].from]
<1>1. TypeOK /\ Control(t)
  BY DEF IInv
<1>2. job[t] \in Jobs /\ x \in Chats /\ fsm[x] \in Conversations
  BY Working
<1>3. j \in Jobs /\ j.from = fsm[x].from /\ j.file = fsm[x].file
  BY <1>2 DEF Jobs, Conversations
<1>4. j # None
  BY <1>3, RegistryNoneAssumption
<1>5. job' = [job EXCEPT ![t] = j]
  BY <1>1 DEF TypeOK
<1>6. job'[t] = j /\ at'[t] = step
  BY <1>1, <1>5 DEF TypeOK
<1>7. Alone(t)
  BY <1>1, <1>5 DEF TypeOK, Alone
<1>8. Cleared \in Conversations /\ Cleared.from = None
  BY DEF Cleared, Conversations, FsmStates
<1>9. /\ fsm' \in [Chats -> Conversations] /\ fsm'[x].from = None
      /\ \A y \in Chats : y # x => fsm'[y].from = fsm[y].from
  BY <1>1, <1>2, <1>8 DEF TypeOK
<1>10. Captures'
  <2>1. From(t)' = fsm[x].from
    BY <1>3, <1>4, <1>6 DEF From
  <2>2. at'[t] \notin {"idle", "route"}
    BY <1>6
  <2> QED
    BY <1>2, <1>7, <1>9, <2>1, <2>2, CapturesMove
<1>11. Local(t, step, j, told[t])
  BY <1>1, <1>3, <1>5, <1>9 DEF TypeOK, Local, Steps, CreateSteps, Ended
<1>12. Fits(t, step, j)
  <2>1. draft[t].added = {}
    BY <1>1 DEF Control, NoDraft
  <2>2. j.kind = job[t].kind /\ j.raw = job[t].raw /\ j.chat = job[t].chat /\ j.code = job[t].code
    BY <1>2 DEF Jobs
  <2> QED
    BY <1>3, <2>1, <2>2 DEF Fits, Ended
<1> QED
  BY <1>10, <1>11, <1>12, LocalStep

(* Steps that only choose where the task goes.                             *)
LEMMA SimpleSteps ==
    ASSUME IInv, NEW t \in Tasks,
           \/ Throttle(t) \/ Ignore(t) \/ CheckReserved(t) \/ CheckTaken(t) \/ Draw(t)
           \/ FindTaken(t) \/ FindReserved(t) \/ Command(t) \/ CollectBulkMedia(t)
    PROVE  IInv'
<1>1. TypeOK /\ Control(t) /\ Routed(t) /\ Respects(t)
  BY DEF IInv
<1>2. gen \in Tasks \cup {None}
  BY <1>1 DEF TypeOK
<1>3. at[t] = "route" => draft[t] = NoDraft
  BY <1>1 DEF Control
<1>4. CASE Throttle(t)
  <2>1. Fits(t, "failed", job[t])
    BY <1>3, <1>4 DEF Throttle, Fits, NoDraft, Ended
  <2> QED
    BY <1>2, <1>4, <2>1, PlainStep DEF Throttle, Goto, Steps, Ended
<1>5. CASE Ignore(t)
  <2>1. Fits(t, "done", job[t])
    BY <1>3, <1>5 DEF Ignore, ToStateOf, Fits, NoDraft, Ended
  <2> QED
    BY <1>2, <1>5, <2>1, PlainStep DEF Ignore, ToStateOf, Goto, Steps, Ended
<1>6. CASE CheckReserved(t)
  <2>1. at[t] = "checkReserved" /\ job[t].code \in Codes /\ job[t].file \in Files
    BY <1>1, <1>6 DEF CheckReserved, Control
  <2>2. CASE OthersReserved(t, job[t].code)
    <3>1. AfterRefusal(t) \in {"rows", "reply"}
      BY DEF AfterRefusal
    <3>2. Fits(t, AfterRefusal(t), job[t])
      BY <2>1, <3>1 DEF Fits, Ended
    <3> QED
      BY <1>2, <1>6, <2>1, <2>2, <3>1, <3>2, PlainStep DEF CheckReserved, Goto, Steps, Ended
  <2>3. CASE ~ OthersReserved(t, job[t].code)
    <3>1. ASSUME NEW c \in Codes, job[t].code = c, Holds(c) PROVE Excused(t, c)
      <4>1. c \in draft[t].freed => Excused(t, c)
        BY <1>1 DEF Respects
      <4>2. c \notin draft[t].freed => reserved[c].by = Admin(t)
        BY <2>3, <3>1 DEF OthersReserved, IsReserved, Holds
      <4> QED
        BY <4>1, <4>2 DEF Excused
    <3>2. Fits(t, "checkTaken", job[t])
      BY <2>1, <3>1 DEF Fits, Ended
    <3> QED
      BY <1>2, <1>6, <2>1, <2>3, <3>2, PlainStep
         DEF CheckReserved, Goto, Steps, CreateSteps, Ended
  <2> QED
    BY <2>2, <2>3
<1>7. CASE CheckTaken(t)
  <2>1. at[t] = "checkTaken" /\ job[t].code \in Codes /\ job[t].file \in Files
    BY <1>1, <1>7 DEF CheckTaken, Control
  <2>2. \A c \in Codes : job[t].code = c /\ Holds(c) => Excused(t, c)
    BY <1>1, <2>1 DEF Control, Respects, HasLooked
  <2>3. PICK step \in {"rows", "reply", "insert"} :
           /\ at' = [at EXCEPT ![t] = step]
           /\ UNCHANGED <<movie, reserved, holder, draft, fsm, gen, job, told, late>>
    BY <1>7 DEF CheckTaken, AfterRefusal, Goto
  <2>4. Fits(t, step, job[t])
    BY <2>1, <2>2 DEF Fits, Ended
  <2> QED
    BY <1>2, <2>1, <2>3, <2>4, PlainStep DEF Steps, CreateSteps, Ended
<1>8. CASE Draw(t)
  <2>1. at[t] = "draw" /\ job[t].file \in Files /\ IsGenerated(t)
    BY <1>1, <1>8 DEF Draw, Control
  <2>2. Fits(t, "probe", job[t])
    BY <2>1 DEF Fits, Ended
  <2> QED
    BY <1>8, <2>1, <2>2, PlainStep DEF Draw, Goto, Steps, CreateSteps, Ended
<1>9. CASE FindTaken(t)
  <2>1. at[t] = "findTaken" /\ job[t].code \in Codes
    BY <1>1, <1>9 DEF FindTaken, Control
  <2>2. PICK step \in {"reply", "findReserved"} :
           /\ at' = [at EXCEPT ![t] = step]
           /\ UNCHANGED <<movie, reserved, holder, draft, fsm, gen, job, told, late>>
    BY <1>9 DEF FindTaken, Goto
  <2>3. Fits(t, step, job[t])
    BY <2>1 DEF Fits, Ended
  <2> QED
    BY <1>2, <2>1, <2>2, <2>3, PlainStep DEF Steps, Ended
<1>10. CASE FindReserved(t)
  <2>1. at[t] = "findReserved" /\ job[t].code \in Codes
    BY <1>1, <1>10 DEF FindReserved, Control
  <2>2. PICK step \in {"reply", "log", "book"} :
           /\ at' = [at EXCEPT ![t] = step]
           /\ UNCHANGED <<movie, reserved, holder, draft, fsm, gen, job, told, late>>
    BY <1>10 DEF FindReserved, Goto
  <2>3. Fits(t, step, job[t])
    BY <2>1 DEF Fits, Ended
  <2> QED
    BY <1>2, <2>1, <2>2, <2>3, PlainStep DEF Steps, Ended
<1>11. CASE Command(t)
  <2>1. PICK step \in {"findTaken", "free", "rows"} :
           /\ at[t] = "route" /\ at' = [at EXCEPT ![t] = step]
           /\ step = "findTaken" => job[t].kind = "reserve"
           /\ step = "free" => job[t].kind = "release"
           /\ step = "rows" => job[t].kind = "import"
           /\ UNCHANGED <<movie, reserved, holder, draft, fsm, gen, job, told, late>>
    BY <1>11 DEF Command, Goto
  <2>2. Fits(t, step, job[t])
    <3>1. step = "findTaken" => job[t].code \in Codes
      BY <1>1, <2>1 DEF Routed
    <3>2. step = "free" => job[t].code \in Codes /\ \A c \in Codes : Excused(t, c)
      BY <1>1, <2>1 DEF Routed, Excused
    <3>3. step = "rows" => job[t].file \in Files
      BY <1>1, <2>1 DEF Routed
    <3> QED
      BY <2>1, <3>1, <3>2, <3>3 DEF Fits, Ended
  <2> QED
    BY <1>2, <2>1, <2>2, PlainStep DEF Steps, CreateSteps, Ended
<1>12. CASE CollectBulkMedia(t)
  <2>1. /\ at[t] = "route" /\ IsMessage(t) /\ job[t].raw = "collecting" /\ job[t].kind # "done"
    BY <1>12 DEF CollectBulkMedia, ToStateOf
  <2>2. PICK step \in {"reply", "draw"} :
           /\ at' = [at EXCEPT ![t] = step]
           /\ step = "draw" => ~ IsText(t)
           /\ UNCHANGED <<movie, reserved, holder, draft, fsm, gen, job, told, late>>
    BY <1>12 DEF CollectBulkMedia, Goto
  <2>3. step = "draw" => job[t].file \in Files /\ IsGenerated(t)
    BY <1>1, <2>1, <2>2 DEF Routed, IsMessage, IsText, IsGenerated
  <2>4. Fits(t, step, job[t])
    BY <2>1, <2>3 DEF Fits, Ended
  <2> QED
    BY <1>2, <2>1, <2>2, <2>4, PlainStep DEF Steps, CreateSteps, Ended
<1> QED
  BY <1>4, <1>5, <1>6, <1>7, <1>8, <1>9, <1>10, <1>11, <1>12

(* Steps that change the conversation, or turn the message down.           *)
LEMMA ConversationSteps ==
    ASSUME IInv, NEW t \in Tasks,
           \/ CaptureMedia(t) \/ OpenFlow(t) \/ ReceiveMedia(t) \/ Warn(t) \/ KeepMedia(t)
           \/ ReceiveTitle(t) \/ ReceiveYearOrGenre(t) \/ FinishBulkUpload(t)
    PROVE  IInv'
<1>1. at[t] \in {"route", "warn", "keep"}
  BY DEF CaptureMedia, OpenFlow, ReceiveMedia, Warn, KeepMedia, ReceiveTitle,
         ReceiveYearOrGenre, FinishBulkUpload, ToCapture, ToStateOf
<1>2. TypeOK /\ Control(t) /\ Routed(t) /\ gen \in Tasks \cup {None}
  BY DEF IInv, TypeOK
<1>3. job[t] \in Jobs /\ fsm[job[t].chat] \in Conversations /\ job[t].chat \in Chats
  BY <1>1, Working
<1>4. draft[t] = NoDraft
  BY <1>1, <1>2 DEF Control
<1> DEFINE data == fsm[job[t].chat]
<1>5. ASSUME NEW step \in {"done", "reply", "warn", "keep", "abort"}, at' = [at EXCEPT ![t] = step],
             UNCHANGED <<movie, reserved, holder, draft, fsm, gen, job, told, late>>
      PROVE  IInv'
  <2>1. Fits(t, step, job[t])
    BY <1>4 DEF Fits, NoDraft
  <2> QED
    BY <1>1, <1>2, <1>5, <2>1, PlainStep DEF Steps, Ended
<1>6. /\ Cleared \in Conversations /\ Cleared.from = None
      /\ \A s \in FsmStates : /\ [data EXCEPT !.state = s] \in Conversations
                             /\ [data EXCEPT !.state = s].from = data.from
  BY <1>3 DEF Cleared, Conversations, FsmStates
<1>7. CASE CaptureMedia(t)
  <2>1. at[t] = "route" /\ job[t].file \in Files
    BY <1>2, <1>7 DEF CaptureMedia, ToCapture, Routed
  <2>2. Captured(t) \in Conversations /\ Captured(t).from = t
    BY <1>3, <2>1 DEF Captured, Conversations, FsmStates
  <2> QED
    BY <1>1, <1>5, <1>7, <2>1, <2>2, ChatStep DEF CaptureMedia, Goto, SetFsm
<1>8. CASE OpenFlow(t)
  <2>1. fsm' = [fsm EXCEPT ![job[t].chat] = [data EXCEPT !.state = job[t].opens]]
    BY <1>2, <1>3, <1>8 DEF OpenFlow, TypeOK
  <2>2. job[t].opens \in FsmStates
    BY <1>3 DEF Jobs
  <2> QED
    BY <1>1, <1>6, <1>8, <2>1, <2>2, ChatStep DEF OpenFlow, Goto
<1>9. CASE ReceiveMedia(t)
  BY <1>5, <1>9 DEF ReceiveMedia, Goto
<1>10. CASE Warn(t)
  BY <1>1, <1>5, <1>6, <1>10, ChatStep DEF Warn, Goto, SetFsm
<1>11. CASE ReceiveTitle(t)
  <2> DEFINE d == [data EXCEPT !.titled = TRUE, !.state = "year"]
  <2>1. d \in Conversations /\ d.from = data.from
    BY <1>3 DEF Conversations, FsmStates, FormSteps
  <2>2. CASE fsm' = [fsm EXCEPT ![job[t].chat].titled = TRUE, ![job[t].chat].state = "year"]
             /\ Goto(t, "reply")
    <3>1. fsm' = [fsm EXCEPT ![job[t].chat] = d]
      BY <1>2, <1>3, <2>2 DEF TypeOK
    <3> QED
      BY <1>1, <1>11, <2>1, <2>2, <3>1, ChatStep DEF ReceiveTitle, Goto
  <2> QED
    BY <1>5, <1>11, <2>2 DEF ReceiveTitle, Goto
<1>12. CASE ReceiveYearOrGenre(t)
  <2>1. PICK s \in FsmStates : fsm' = [fsm EXCEPT ![job[t].chat].state = s]
    <3>1. PICK raw \in DOMAIN FieldAfter :
             fsm' = [fsm EXCEPT ![job[t].chat].state = FieldAfter[raw]]
      BY <1>12 DEF ReceiveYearOrGenre
    <3>2. FieldAfter[raw] \in FsmStates
      BY DEF FieldAfter, FsmStates, FormSteps
    <3> QED
      BY <3>1, <3>2
  <2>2. fsm' = [fsm EXCEPT ![job[t].chat] = [data EXCEPT !.state = s]]
    BY <1>2, <1>3, <2>1 DEF TypeOK
  <2> QED
    BY <1>1, <1>6, <1>12, <2>2, ChatStep DEF ReceiveYearOrGenre, Goto
<1>13. CASE FinishBulkUpload(t)
  BY <1>1, <1>6, <1>13, ChatStep DEF FinishBulkUpload, Goto, SetFsm
<1>14. CASE KeepMedia(t)
  <2> DEFINE d == [data EXCEPT !.file = job[t].file, !.state = "title"]
  <2>1. fsm' = [fsm EXCEPT ![job[t].chat] = d]
    BY <1>2, <1>3, <1>14 DEF KeepMedia, TypeOK
  <2>2. d \in Conversations /\ d.from = data.from
    BY <1>3 DEF Jobs, Conversations, FsmStates, FormSteps
  <2> QED
    BY <1>1, <1>14, <2>1, <2>2, ChatStep DEF KeepMedia, Goto
<1> QED
  BY <1>7, <1>8, <1>9, <1>10, <1>11, <1>12, <1>13, <1>14

(* Steps that take what the conversation holds.                            *)
LEMMA TakingSteps ==
    ASSUME IInv, NEW t \in Tasks, ReceiveCode(t) \/ ReceiveDescription(t)
    PROVE  IInv'
<1>1. at[t] = "route"
  BY DEF ReceiveCode, ReceiveDescription, ToStateOf
<1>2. job[t] \in Jobs /\ fsm[job[t].chat] \in Conversations
  BY <1>1, Working
<1>3. /\ job[t].code \in Codes \cup {None}
      /\ fsm[job[t].chat].file \in Files \cup {None}
  BY <1>2 DEF Jobs, Conversations
<1>4. CASE ReceiveCode(t)
  <2>1. PICK step \in {"checkReserved", "abort"} :
           /\ at' = [at EXCEPT ![t] = step]
           /\ step # "abort" => job[t].code # None /\ fsm[job[t].chat].file # None
    BY <1>4 DEF ReceiveCode, Goto
  <2> QED
    BY <1>1, <1>3, <1>4, <2>1, TakeStep DEF ReceiveCode, SetFsm
<1>5. CASE ReceiveDescription(t)
  <2>1. PICK step \in {"draw", "abort"} :
           /\ at' = [at EXCEPT ![t] = step]
           /\ step # "abort" => fsm[job[t].chat].file # None
    BY <1>5 DEF ReceiveDescription, Goto
  <2>2. IsGenerated(t)
    BY <1>5 DEF ReceiveDescription, ToStateOf, IsMessage, IsGenerated
  <2> QED
    BY <1>1, <1>3, <1>5, <2>1, <2>2, TakeStep DEF ReceiveDescription, SetFsm
<1> QED
  BY <1>4, <1>5

(* Steps that change the task's own locals.                                *)
LEMMA LocalSteps ==
    ASSUME IInv, NEW t \in Tasks, Probe(t) \/ NextRow(t) \/ Reply(t)
    PROVE  IInv'
<1>1. TypeOK /\ Control(t) /\ Confirms(t) /\ Respects(t) /\ gen \in Tasks \cup {None}
  BY DEF IInv, TypeOK
<1>2. at[t] \in {"probe", "rows", "reply"}
  BY DEF Probe, NextRow, Reply
<1>3. job[t] \in Jobs
  BY <1>2, Working
<1>4. told' = [told EXCEPT ![t] = told[t]] \/ Reply(t)
  BY <1>1 DEF Probe, NextRow, TypeOK
<1>5. ASSUME NEW step \in Steps \ {"idle", "route", "commit"}, NEW j \in Jobs,
             at' = [at EXCEPT ![t] = step], job' = [job EXCEPT ![t] = j], j.from = job[t].from,
             gen' \in Tasks \cup {None},
             UNCHANGED <<movie, reserved, holder, draft, fsm, told, late>>, Fits(t, step, j)
      PROVE  IInv'
  <2>1. Local(t, step, j, told[t])
    BY <1>1, <1>2, <1>5 DEF TypeOK, Local, Ended
  <2>2. Alone(t) /\ at'[t] = step /\ job'[t] = j
    BY <1>1, <1>5 DEF TypeOK, Alone
  <2>3. j # None /\ job[t] # None
    BY <1>3, RegistryNoneAssumption
  <2>4. Captures'
    BY <1>5, <2>2, <2>3, CapturesStay DEF From
  <2> QED
    BY <2>1, <2>4, <1>5, LocalStep
<1>6. CASE Probe(t)
  <2>1. at[t] = "probe" /\ job[t].file \in Files /\ IsGenerated(t)
    BY <1>1, <1>6 DEF Probe, Control
  <2>2. PICK c \in Codes :
           \/ /\ job' = [job EXCEPT ![t].code = c] /\ gen' = None /\ Goto(t, "insert")
           \/ job' = [job EXCEPT ![t].tries = @ + 1] /\ UNCHANGED <<gen, at>>
           \/ gen' = None /\ Goto(t, "abort") /\ UNCHANGED job
    BY <1>6 DEF Probe
  <2>3. UNCHANGED <<movie, reserved, holder, draft, fsm, told, late>>
    BY <1>6 DEF Probe
  <2>4. CASE job' = [job EXCEPT ![t].code = c] /\ gen' = None /\ Goto(t, "insert")
    <3> DEFINE j == [job[t] EXCEPT !.code = c]
    <3>1. /\ j \in Jobs /\ job' = [job EXCEPT ![t] = j] /\ j.from = job[t].from
          /\ j.kind = job[t].kind /\ j.raw = job[t].raw /\ j.chat = job[t].chat
          /\ j.file = job[t].file /\ j.code = c
      BY <1>1, <1>3, <2>4 DEF Jobs, TypeOK
    <3>2. \A code \in Codes : Excused(t, code)
      BY <2>1 DEF Excused
    <3> HIDE DEF j
    <3>3. Fits(t, "insert", j)
      BY <2>1, <3>1, <3>2 DEF Fits, Ended
    <3> QED
      BY <1>5, <2>3, <2>4, <3>1, <3>3 DEF Goto, Steps, CreateSteps
  <2>5. CASE job' = [job EXCEPT ![t].tries = @ + 1] /\ UNCHANGED <<gen, at>>
    <3> DEFINE j == [job[t] EXCEPT !.tries = @ + 1]
    <3>1. /\ j \in Jobs /\ job' = [job EXCEPT ![t] = j] /\ j.from = job[t].from
          /\ j.kind = job[t].kind /\ j.raw = job[t].raw /\ j.chat = job[t].chat
          /\ j.file = job[t].file
      BY <1>1, <1>3, <2>5 DEF Jobs, TypeOK
    <3>2. at' = [at EXCEPT ![t] = "probe"]
      BY <1>1, <2>1, <2>5 DEF TypeOK
    <3> HIDE DEF j
    <3>3. Fits(t, "probe", j)
      BY <2>1, <3>1 DEF Fits, Ended
    <3> QED
      BY <1>1, <1>5, <2>3, <2>5, <3>1, <3>2, <3>3 DEF Steps, CreateSteps
  <2>6. CASE gen' = None /\ Goto(t, "abort") /\ UNCHANGED job
    <3>1. Fits(t, "abort", job[t])
      BY DEF Fits, Ended
    <3> QED
      BY <1>2, <2>3, <2>6, <3>1, PlainStep DEF Goto, Steps, Ended
  <2> QED
    BY <2>2, <2>4, <2>5, <2>6
<1>7. CASE NextRow(t)
  <2>1. at[t] = "rows" /\ job[t].file \in Files /\ job[t].rows \in Seq(Codes \cup {None})
    BY <1>1, <1>3, <1>7 DEF NextRow, Control, Jobs
  <2>2. CASE job[t].rows = <<>>
    <3>1. Fits(t, "log", job[t])
      BY DEF Fits, Ended
    <3> QED
      BY <1>1, <1>2, <1>7, <2>2, <3>1, PlainStep DEF NextRow, Goto, Steps, Ended
  <2>3. CASE job[t].rows # <<>>
    <3> DEFINE j == [job[t] EXCEPT !.code = Head(job[t].rows), !.rows = Tail(job[t].rows)]
    <3>1. Head(job[t].rows) \in Codes \cup {None} /\ Tail(job[t].rows) \in Seq(Codes \cup {None})
      BY <2>1, <2>3
    <3>2. /\ job' = [job EXCEPT ![t].code = Head(job[t].rows), ![t].rows = Tail(job[t].rows)]
          /\ Goto(t, IF Head(job[t].rows) = None THEN "abort" ELSE "checkReserved")
          /\ UNCHANGED <<movie, reserved, holder, draft, fsm, gen, told, late>>
      BY <1>7, <2>3 DEF NextRow
    <3>3. /\ j \in Jobs /\ job' = [job EXCEPT ![t] = j] /\ j.from = job[t].from
          /\ j.kind = job[t].kind /\ j.raw = job[t].raw /\ j.chat = job[t].chat
          /\ j.file = job[t].file /\ j.code = Head(job[t].rows)
      BY <1>1, <1>3, <3>1, <3>2 DEF Jobs, TypeOK
    <3> HIDE DEF j
    <3>4. PICK step \in {"abort", "checkReserved"} :
             at' = [at EXCEPT ![t] = step] /\ (step = "checkReserved" => j.code \in Codes)
      BY <3>1, <3>2, <3>3 DEF Goto
    <3>5. Fits(t, step, j)
      BY <2>1, <3>3, <3>4 DEF Fits, Ended
    <3> QED
      BY <1>1, <1>5, <3>2, <3>3, <3>4, <3>5 DEF Steps, CreateSteps
  <2> QED
    BY <2>2, <2>3
<1>8. CASE Reply(t)
  <2>1. CASE Goto(t, "abort") /\ UNCHANGED told
    <3>1. Fits(t, "abort", job[t])
      BY DEF Fits, Ended
    <3> QED
      BY <1>1, <1>2, <1>8, <2>1, <3>1, PlainStep DEF Reply, Goto, Steps, Ended
  <2>2. CASE Goto(t, "commit") /\ told' = [told EXCEPT ![t] = Confirmed(t)]
    <3>1. Fits(t, "commit", job[t])
      BY DEF Fits, Ended
    <3>2. Local(t, "commit", job[t], draft[t].added)
      BY <1>1, <1>2, <1>3, <1>8, <2>2
         DEF Reply, Goto, Confirmed, Local, TypeOK, Steps, Ended
    <3>3. Alone(t) /\ at'[t] = "commit"
      BY <1>1, <1>8, <2>2 DEF Reply, Goto, TypeOK, Alone
    <3>4. Captures'
      BY <1>8, <3>3, CapturesStay DEF Reply, From
    <3> QED
      BY <3>1, <3>2, <3>4, LocalStep
  <2> QED
    BY <1>8, <2>1, <2>2 DEF Reply
<1> QED
  BY <1>6, <1>7, <1>8

-----------------------------------------------------------------------------
(* Steps that write: nobody else loses a lock.                             *)
LEMMA WriteStep ==
    ASSUME IInv, NEW t \in Tasks, NEW step \in {"free", "rows", "log", "reply"},
           at[t] \in {"insert", "free", "book", "log"},
           NEW rows \in SUBSET Tables, MayLock(t, rows), Lock(t, rows), NEW d \in Drafts,
           at' = [at EXCEPT ![t] = step], draft' = [draft EXCEPT ![t] = d],
           Control(t)', Locked(t)', Respects(t)',
           UNCHANGED <<movie, reserved, fsm, gen, job, told, late>>
    PROVE  IInv'
<1>1. TypeOK /\ Confirms(t)
  BY DEF IInv
<1>2. at'[t] = step /\ Alone(t)
  BY <1>1 DEF TypeOK, Alone
<1>3. TypeOK'
  <2>1. at' \in [Tasks -> Steps] /\ draft' \in [Tasks -> Drafts]
    BY <1>1 DEF TypeOK, Steps, CreateSteps
  <2>2. holder' \in [Tables -> Tasks \cup {None}]
    BY <1>1 DEF TypeOK, Lock
  <2> QED
    BY <1>1, <2>1, <2>2 DEF TypeOK
<1>4. Captures'
  BY <1>2, CapturesStay DEF From
<1>5. Routed(t)' /\ Confirms(t)'
  BY <1>1, <1>2 DEF Routed, Confirms, StoredBy, Ended
<1>6. ASSUME NEW u \in Tasks, u # t
      PROVE  (Control(u) /\ Routed(u) /\ Confirms(u) /\ Locked(u) /\ Respects(u))'
  <2>1. Control(u) /\ Routed(u) /\ Confirms(u) /\ Locked(u) /\ Respects(u)
    BY DEF IInv
  <2>2. at'[u] = at[u] /\ draft'[u] = draft[u]
    BY <1>2, <1>6 DEF Alone
  <2>3. Control(u)' /\ Routed(u)'
    BY <2>1, <2>2 DEF Control, Routed, IsGenerated
  <2>4. Confirms(u)'
    BY <2>1, <2>2 DEF Confirms, StoredBy
  <2>5. Respects(u)'
    BY <2>1, <2>2 DEF Respects, HasLooked, Holds, Excused, Admin, IsGenerated
  <2>6. \A r \in Tables : holder[r] = u => holder'[r] = u
    BY <1>6, RegistryNoneAssumption DEF MayLock, Lock
  <2>7. \A c \in Codes : <<"movie", c>> \in Tables /\ <<"reserved", c>> \in Tables
    BY DEF Tables
  <2>8. Locked(u)'
    BY <2>1, <2>2, <2>6, <2>7 DEF Locked
  <2> QED
    BY <2>3, <2>4, <2>5, <2>8
<1> QED
  BY <1>3, <1>4, <1>5, <1>6 DEF IInv

LEMMA LockedRows ==
    ASSUME NEW c \in Codes
    PROVE  /\ LocksOf("movie", c) \in SUBSET Tables /\ <<"movie", c>> \in LocksOf("movie", c)
           /\ LocksOf("reserved", c) \in SUBSET Tables
           /\ <<"reserved", c>> \in LocksOf("reserved", c)
           /\ LocksOfInsert \in SUBSET Tables
           /\ <<"movie", c>> \in Tables /\ <<"reserved", c>> \in Tables
  BY DEF LocksOf, LocksOfInsert, Tables

(* Taking locks keeps one's own.                                           *)
LEMMA KeepsLocks ==
    ASSUME IInv, NEW t \in Tasks, NEW rows \in SUBSET Tables, Lock(t, rows),
           NEW c \in Codes
    PROVE  /\ holder[<<"movie", c>>] = t => holder'[<<"movie", c>>] = t
           /\ holder[<<"reserved", c>>] = t => holder'[<<"reserved", c>>] = t
           /\ <<"movie", c>> \in rows => holder'[<<"movie", c>>] = t
           /\ <<"reserved", c>> \in rows => holder'[<<"reserved", c>>] = t
  BY LockedRows DEF Lock

LEMMA InsertStep ==
    ASSUME IInv, NEW t \in Tasks, Insert(t)
    PROVE  IInv'
<1>1. TypeOK /\ Control(t) /\ Locked(t) /\ Respects(t) /\ draft[t] \in Drafts
  BY DEF IInv, TypeOK
<1>2. at[t] = "insert" /\ job[t].code \in Codes /\ job[t].file \in Files /\ job[t] # None
  BY <1>1 DEF Insert, Control
<1> DEFINE c == job[t].code
           rows == LocksOf("movie", c)
           d == [draft[t] EXCEPT !.added = @ \cup {c}]
<1>3. CASE movie[c] # None
  <2>1. Fits(t, "abort", job[t])
    BY DEF Fits, Ended
  <2> QED
    BY <1>1, <1>2, <1>3, <2>1, PlainStep DEF Insert, Goto, Steps, Ended, TypeOK
<1>4. CASE movie[c] = None
  <2>1. /\ MayLock(t, rows) /\ Lock(t, rows) /\ at' = [at EXCEPT ![t] = "free"]
        /\ draft' = [draft EXCEPT ![t].added = @ \cup {c}]
        /\ UNCHANGED <<movie, reserved, fsm, gen, job, told, late>>
    BY <1>4 DEF Insert, Goto
  <2>2. /\ d \in Drafts /\ d.added = draft[t].added \cup {c}
        /\ d.freed = draft[t].freed /\ d.booked = draft[t].booked
    BY <1>1, <1>2 DEF Drafts
  <2>3. draft' = [draft EXCEPT ![t] = d] /\ draft'[t] = d /\ at'[t] = "free"
    BY <1>1, <2>1 DEF TypeOK
  <2> HIDE DEF d
  <2>4. rows \in SUBSET Tables /\ <<"movie", c>> \in rows
    BY <1>2, LockedRows
  <2>5. Control(t)'
    BY <1>1, <1>2, <2>1, <2>2, <2>3 DEF Control, Ended
  <2>6. Locked(t)'
    <3>1. /\ \A x \in Codes :
                /\ holder[<<"movie", x>>] = t => holder'[<<"movie", x>>] = t
                /\ holder[<<"reserved", x>>] = t => holder'[<<"reserved", x>>] = t
          /\ holder'[<<"movie", c>>] = t
      BY <1>2, <2>1, <2>4, KeepsLocks
    <3> QED
      BY <1>1, <1>2, <1>4, <2>1, <2>2, <2>3, <3>1 DEF Locked
  <2>7. Respects(t)'
    BY <1>1, <1>2, <2>1, <2>2, <2>3
       DEF Respects, HasLooked, Holds, Excused, Admin, IsGenerated
  <2> QED
    BY <1>2, <2>1, <2>2, <2>3, <2>4, <2>5, <2>6, <2>7, WriteStep
<1> QED
  BY <1>3, <1>4

LEMMA FreeStep ==
    ASSUME IInv, NEW t \in Tasks, Free(t)
    PROVE  IInv'
<1>1. TypeOK /\ Control(t) /\ Locked(t) /\ Respects(t) /\ draft[t] \in Drafts
  BY DEF IInv, TypeOK
<1>2. at[t] = "free" /\ job[t].code \in Codes /\ job[t] # None
  BY <1>1 DEF Free, Control
<1> DEFINE c == job[t].code
           d == IF IsReserved(t, c) THEN [draft[t] EXCEPT !.freed = @ \cup {c}] ELSE draft[t]
<1>3. PICK step \in {"rows", "log"} : at' = [at EXCEPT ![t] = step] /\ step = AfterCreate(t)
  BY DEF Free, AfterCreate, Goto
<1>4. /\ MayLock(t, FreeLocks(t)) /\ Lock(t, FreeLocks(t))
      /\ draft' = IF IsReserved(t, c) THEN [draft EXCEPT ![t].freed = @ \cup {c}] ELSE draft
      /\ UNCHANGED <<movie, reserved, fsm, gen, job, told, late>>
  BY DEF Free
<1>5. /\ d \in Drafts /\ d.added = draft[t].added /\ d.booked = draft[t].booked
      /\ d.freed \in SUBSET (draft[t].freed \cup {c})
      /\ c \in d.freed => c \in draft[t].freed \/ IsReserved(t, c)
  BY <1>1, <1>2 DEF Drafts
<1>6. draft' = [draft EXCEPT ![t] = d] /\ draft'[t] = d /\ at'[t] = step
  BY <1>1, <1>3, <1>4 DEF TypeOK
<1> HIDE DEF d
<1>7. FreeLocks(t) \in SUBSET Tables
  BY <1>2, LockedRows DEF FreeLocks
<1>8. Control(t)'
  <2>1. step = "rows" => job[t].file \in Files
    BY <1>1, <1>2, <1>3 DEF Control, AfterCreate, IsImport
  <2> QED
    BY <1>1, <1>2, <1>4, <1>5, <1>6, <2>1 DEF Control, Ended
<1>9. Locked(t)'
  <2>1. IsReserved(t, c) => reserved[c] # None
    BY DEF IsReserved
  <2> QED
    BY <1>1, <1>4, <1>5, <1>6, <1>7, <2>1, KeepsLocks DEF Locked
<1>10. Respects(t)'
  <2>1. IsReserved(t, c) => Excused(t, c)
    BY <1>1, <1>2 DEF Respects, HasLooked, IsReserved, Holds
  <2>2. \A code \in Codes : code \in d.freed => Excused(t, code)
    BY <1>1, <1>5, <2>1 DEF Respects
  <2>3. \A code \in Codes : ~ HasLooked(t, code)'
    BY <1>6 DEF HasLooked
  <2> QED
    BY <1>4, <1>6, <2>2, <2>3 DEF Respects, Excused, Admin, IsGenerated
<1> QED
  BY <1>2, <1>3, <1>4, <1>5, <1>6, <1>7, <1>8, <1>9, <1>10, WriteStep

LEMMA BookStep ==
    ASSUME IInv, NEW t \in Tasks, Book(t)
    PROVE  IInv'
<1>1. TypeOK /\ Control(t) /\ Locked(t) /\ Respects(t) /\ draft[t] \in Drafts
  BY DEF IInv, TypeOK
<1>2. at[t] = "book" /\ job[t].code \in Codes /\ job[t] # None
  BY <1>1 DEF Book, Control
<1> DEFINE c == job[t].code
           rows == LocksOf("reserved", c)
           d == [draft[t] EXCEPT !.booked = {c}]
<1>3. CASE reserved[c] # None
  <2>1. Fits(t, "abort", job[t])
    BY DEF Fits, Ended
  <2> QED
    BY <1>1, <1>2, <1>3, <2>1, PlainStep DEF Book, Goto, Steps, Ended, TypeOK
<1>4. CASE reserved[c] = None
  <2>1. /\ MayLock(t, rows) /\ Lock(t, rows) /\ at' = [at EXCEPT ![t] = "log"]
        /\ draft' = [draft EXCEPT ![t].booked = {c}]
        /\ UNCHANGED <<movie, reserved, fsm, gen, job, told, late>>
    BY <1>4 DEF Book, Goto
  <2>2. /\ d \in Drafts /\ d.added = draft[t].added
        /\ d.freed = draft[t].freed /\ d.booked = {c}
    BY <1>1, <1>2 DEF Drafts
  <2>3. draft' = [draft EXCEPT ![t] = d] /\ draft'[t] = d /\ at'[t] = "log"
    BY <1>1, <2>1 DEF TypeOK
  <2> HIDE DEF d
  <2>4. rows \in SUBSET Tables /\ <<"reserved", c>> \in rows
    BY <1>2, LockedRows
  <2>5. Control(t)'
    BY <1>1, <1>2, <2>1, <2>2, <2>3 DEF Control, Ended
  <2>6. Locked(t)'
    <3>1. /\ \A x \in Codes :
                /\ holder[<<"movie", x>>] = t => holder'[<<"movie", x>>] = t
                /\ holder[<<"reserved", x>>] = t => holder'[<<"reserved", x>>] = t
          /\ holder'[<<"reserved", c>>] = t
      BY <1>2, <2>1, <2>4, KeepsLocks
    <3> QED
      BY <1>1, <1>2, <1>4, <2>1, <2>2, <2>3, <3>1 DEF Locked
  <2>7. Respects(t)'
    BY <1>1, <2>1, <2>2, <2>3 DEF Respects, HasLooked, Holds, Excused, Admin, IsGenerated
  <2> QED
    BY <1>2, <2>1, <2>2, <2>3, <2>4, <2>5, <2>6, <2>7, WriteStep
<1> QED
  BY <1>3, <1>4

LEMMA LogStep ==
    ASSUME IInv, NEW t \in Tasks, Log(t)
    PROVE  IInv'
<1>1. TypeOK /\ Control(t) /\ Locked(t) /\ Respects(t) /\ draft[t] \in Drafts
  BY DEF IInv, TypeOK
<1>2. /\ at[t] = "log" /\ MayLock(t, LocksOfInsert) /\ Lock(t, LocksOfInsert)
      /\ at' = [at EXCEPT ![t] = "reply"]
      /\ UNCHANGED <<movie, reserved, draft, fsm, gen, job, told, late>>
  BY DEF Log, Goto
<1>3. draft' = [draft EXCEPT ![t] = draft[t]] /\ at'[t] = "reply"
  BY <1>1, <1>2 DEF TypeOK
<1>4. LocksOfInsert \in SUBSET Tables
  BY DEF LocksOfInsert
<1>5. Control(t)'
  BY <1>1, <1>2, <1>3 DEF Control, Ended
<1>6. Locked(t)'
  BY <1>1, <1>2, <1>4, KeepsLocks DEF Locked
<1>7. Respects(t)'
  BY <1>1, <1>2, <1>3 DEF Respects, HasLooked, Holds, Excused, Admin, IsGenerated
<1> QED
  BY <1>1, <1>2, <1>3, <1>4, <1>5, <1>6, <1>7, WriteStep

-----------------------------------------------------------------------------
(* The ends of a transaction.                                              *)
LEMMA CommitStep ==
    ASSUME IInv, NEW t \in Tasks, Commit(t)
    PROVE  IInv'
<1>1. TypeOK /\ Control(t) /\ Confirms(t) /\ Locked(t) /\ draft[t] \in Drafts
  BY DEF IInv, TypeOK
<1>2. /\ at[t] = "commit"
      /\ movie' = [c \in Codes |-> IF c \in draft[t].added
                                   THEN [file |-> job[t].file, by |-> t] ELSE movie[c]]
      /\ reserved' = [c \in Codes |->
            IF c \in draft[t].booked THEN ReservationOf(t)
            ELSE IF c \in draft[t].freed THEN [reserved[c] EXCEPT !.released = TRUE]
            ELSE reserved[c]]
      /\ late' = late \cup {x \in Tasks \X draft[t].booked : HasLooked(x[1], x[2])}
      /\ draft' = [draft EXCEPT ![t] = NoDraft]
      /\ holder' = Released(t)
      /\ at' = [at EXCEPT ![t] = "done"]
      /\ UNCHANGED <<fsm, gen, job, told>>
  BY DEF Commit, EndTransaction, Goto
<1>3. job[t] \in Jobs /\ job[t].chat \in Chats
  BY <1>2, Working
<1>4. at'[t] = "done" /\ draft'[t] = NoDraft /\ Alone(t)
  BY <1>1, <1>2 DEF TypeOK, Alone
<1>5. \A c \in Codes : c \in draft[t].freed => reserved[c] \in Reservations
  BY <1>1 DEF TypeOK, Locked
<1>6. /\ draft[t].added \in SUBSET Codes /\ draft[t].freed \in SUBSET Codes
      /\ draft[t].booked \in SUBSET Codes
  BY <1>1 DEF Drafts
<1>7. \A c \in Codes : /\ movie[c] \in MovieRows \cup {None}
                      /\ reserved[c] \in Reservations \cup {None}
  BY <1>1 DEF TypeOK
<1>8. TypeOK'
  <2>1. movie' \in [Codes -> MovieRows \cup {None}]
    <3>1. draft[t].added # {} => [file |-> job[t].file, by |-> t] \in MovieRows
      BY <1>1 DEF Control, MovieRows
    <3> QED
      BY <1>2, <1>7, <3>1
  <2>2. reserved' \in [Codes -> Reservations \cup {None}]
    <3>1. ReservationOf(t) \in Reservations
      BY <1>3, RegistryAssumption DEF ReservationOf, Admin, Reservations
    <3>2. \A c \in Codes : c \in draft[t].freed =>
                            [reserved[c] EXCEPT !.released = TRUE] \in Reservations
      BY <1>5 DEF Reservations
    <3> QED
      BY <1>2, <1>7, <3>1, <3>2
  <2>3. late' \in SUBSET (Tasks \X Codes)
    BY <1>1, <1>2, <1>6 DEF TypeOK
  <2>4. at' \in [Tasks -> Steps] /\ draft' \in [Tasks -> Drafts]
    BY <1>1, <1>2 DEF TypeOK, Steps, Ended, NoDraft, Drafts
  <2>5. holder' \in [Tables -> Tasks \cup {None}]
    BY <1>1, <1>2 DEF TypeOK, Released
  <2> QED
    BY <1>1, <1>2, <2>1, <2>2, <2>3, <2>4, <2>5 DEF TypeOK
<1>9. Captures'
  BY <1>2, <1>4, CapturesStay DEF From
<1>10. Control(t)' /\ Routed(t)'
  BY <1>2, <1>3, <1>4, RegistryNoneAssumption DEF Control, Routed, NoDraft, Ended
<1>11. Locked(t)' /\ Respects(t)'
  BY <1>4 DEF Locked, Respects, HasLooked, NoDraft
<1>12. Confirms(t)'
  <2>1. told[t] = draft[t].added /\ StoredBy(t) = {}
    BY <1>1, <1>2 DEF Confirms, Ended
  <2>2. \A c \in Codes : c \in draft[t].added => movie'[c] # None /\ movie'[c].by = t
    <3>1. draft[t].added # {} => [file |-> job[t].file, by |-> t] \in MovieRows
      BY <1>1 DEF Control, MovieRows
    <3> QED
      BY <1>2, <3>1, RegistryNoneAssumption
  <2>3. \A c \in Codes : c \notin draft[t].added => movie'[c] = movie[c]
    BY <1>2
  <2>4. StoredBy(t)' = draft[t].added
    BY <1>6, <2>1, <2>2, <2>3 DEF StoredBy
  <2> QED
    BY <1>2, <1>4, <2>1, <2>4 DEF Confirms, Ended
<1>13. ASSUME NEW u \in Tasks, u # t
       PROVE  (Control(u) /\ Routed(u) /\ Confirms(u) /\ Locked(u) /\ Respects(u))'
  <2>1. Control(u) /\ Routed(u) /\ Confirms(u) /\ Locked(u) /\ Respects(u)
    BY DEF IInv
  <2>2. at'[u] = at[u] /\ draft'[u] = draft[u]
    BY <1>4, <1>13 DEF Alone
  <2>3. Control(u)' /\ Routed(u)'
    BY <1>2, <2>1, <2>2 DEF Control, Routed, IsGenerated
  <2>4. Confirms(u)'
    <3>1. \A c \in Codes :
             (movie'[c] # None /\ movie'[c].by = u) <=> (movie[c] # None /\ movie[c].by = u)
      BY <1>1, <1>2, <1>13 DEF Locked
    <3>2. StoredBy(u)' = StoredBy(u)
      BY <3>1 DEF StoredBy
    <3> QED
      BY <1>2, <2>1, <2>2, <3>2 DEF Confirms
  <2>5. \A r \in Tables : holder[r] = u => holder'[r] = u
    BY <1>2, <1>13 DEF Released
  <2>6. Locked(u)'
    <3>1. ASSUME NEW c \in Codes, c \in draft[u].added
          PROVE  holder'[<<"movie", c>>] = u /\ movie'[c] = None
      BY <1>1, <1>2, <1>13, <2>1, <2>5, <3>1, LockedRows DEF Locked
    <3>2. ASSUME NEW c \in Codes, c \in draft[u].booked
          PROVE  holder'[<<"reserved", c>>] = u /\ reserved'[c] = None
      BY <1>1, <1>2, <1>13, <2>1, <2>5, <3>2, LockedRows DEF Locked
    <3>3. ASSUME NEW c \in Codes, c \in draft[u].freed
          PROVE  reserved'[c] # None
      <4>1. reserved[c] # None /\ reserved[c] \in Reservations
        BY <1>7, <2>1, <3>3 DEF Locked
      <4>2. c \notin draft[t].booked
        BY <1>1, <4>1 DEF Locked
      <4>3. [reserved[c] EXCEPT !.released = TRUE] \in Reservations
        BY <4>1 DEF Reservations
      <4> QED
        BY <1>2, <4>1, <4>2, <4>3, RegistryNoneAssumption
    <3> QED
      BY <2>2, <3>1, <3>2, <3>3 DEF Locked
  <2>7. Respects(u)'
    <3> SUFFICES ASSUME NEW c \in Codes, (c \in draft[u].freed \/ (HasLooked(u, c) /\ Holds(c)))'
                 PROVE  Excused(u, c)'
      BY DEF Respects
    <3>1. HasLooked(u, c)' <=> HasLooked(u, c)
      BY <1>2, <2>2 DEF HasLooked
    <3>2. ASSUME c \notin draft[t].booked, c \in draft[t].freed
          PROVE  reserved'[c].by = reserved[c].by /\ reserved'[c].released
      <4>1. reserved'[c] = [reserved[c] EXCEPT !.released = TRUE]
        BY <1>2, <3>2
      <4> QED
        BY <1>5, <3>2, <4>1 DEF Reservations
    <3>3. c \notin draft[t].booked =>
            \/ reserved'[c] = reserved[c]
            \/ reserved'[c].by = reserved[c].by /\ reserved'[c].released
      BY <1>2, <3>2
    <3>4. ASSUME c \notin draft[t].booked, Excused(u, c) PROVE Excused(u, c)'
      BY <1>2, <3>3, <3>4 DEF Excused, Admin, IsGenerated
    <3>5. CASE c \in draft[u].freed
      <4>1. c \notin draft[t].booked
        BY <1>1, <2>1, <3>5 DEF Locked
      <4> QED
        BY <2>1, <3>4, <3>5, <4>1 DEF Respects
    <3>6. CASE HasLooked(u, c) /\ Holds(c)' /\ c \in draft[t].booked
      <4>1. <<u, c>> \in late'
        BY <1>2, <3>6
      <4> QED
        BY <4>1 DEF Excused
    <3>7. CASE HasLooked(u, c) /\ Holds(c)' /\ c \notin draft[t].booked
      <4>1. Holds(c)
        BY <3>3, <3>7 DEF Holds
      <4> QED
        BY <2>1, <3>4, <3>7, <4>1 DEF Respects
    <3> QED
      BY <2>2, <3>1, <3>5, <3>6, <3>7
  <2> QED
    BY <2>3, <2>4, <2>6, <2>7
<1> QED
  BY <1>8, <1>9, <1>10, <1>11, <1>12, <1>13 DEF IInv

(* Rolled back: by its handler, or by the database.                        *)
LEMMA FailStep ==
    ASSUME IInv, NEW t \in Tasks, Rollback(t) \/ LockTimeout(t)
    PROVE  IInv'
<1>1. TypeOK /\ Control(t) /\ Confirms(t)
  BY DEF IInv
<1>2. at[t] \in {"abort", "insert", "free", "book", "log"}
  <2>1. LockTimeout(t) => Wanted(t) # {}
    BY DEF LockTimeout, MayLock, Deadlocked, WaitsFor
  <2>2. Wanted(t) # {} => at[t] \in {"insert", "free", "book", "log"}
    BY DEF Wanted
  <2> QED
    BY <2>1, <2>2 DEF Rollback
<1>3. /\ draft' = [draft EXCEPT ![t] = NoDraft] /\ holder' = Released(t)
      /\ at' = [at EXCEPT ![t] = "failed"]
      /\ UNCHANGED <<movie, reserved, fsm, gen, job, told, late>>
  BY DEF Rollback, LockTimeout, EndTransaction, Goto
<1>4. at'[t] = "failed" /\ draft'[t] = NoDraft /\ Alone(t)
  BY <1>1, <1>3 DEF TypeOK, Alone
<1>5. TypeOK'
  <2>1. at' \in [Tasks -> Steps] /\ draft' \in [Tasks -> Drafts]
    BY <1>1, <1>3 DEF TypeOK, Steps, Ended, NoDraft, Drafts
  <2>2. holder' \in [Tables -> Tasks \cup {None}]
    BY <1>1, <1>3 DEF TypeOK, Released
  <2> QED
    BY <1>1, <1>3, <2>1, <2>2 DEF TypeOK
<1>6. Captures'
  BY <1>3, <1>4, CapturesStay DEF From
<1>7. Control(t)' /\ Routed(t)' /\ Locked(t)' /\ Respects(t)'
  BY <1>1, <1>2, <1>3, <1>4 DEF Control, Routed, Locked, Respects, HasLooked, NoDraft, Ended
<1>8. Confirms(t)'
  <2>1. StoredBy(t) = {}
    BY <1>1, <1>2 DEF Confirms
  <2>2. StoredBy(t)' = {}
    BY <1>3, <2>1 DEF StoredBy
  <2> QED
    BY <1>4, <2>2 DEF Confirms, Ended
<1>9. ASSUME NEW u \in Tasks, u # t
      PROVE  (Control(u) /\ Routed(u) /\ Confirms(u) /\ Locked(u) /\ Respects(u))'
  <2>1. Control(u) /\ Routed(u) /\ Confirms(u) /\ Locked(u) /\ Respects(u)
    BY DEF IInv
  <2>2. at'[u] = at[u] /\ draft'[u] = draft[u]
    BY <1>4, <1>9 DEF Alone
  <2>3. Control(u)' /\ Routed(u)'
    BY <1>3, <2>1, <2>2 DEF Control, Routed, IsGenerated
  <2>4. Confirms(u)'
    BY <1>3, <2>1, <2>2 DEF Confirms, StoredBy
  <2>5. Respects(u)'
    BY <1>3, <2>1, <2>2 DEF Respects, HasLooked, Holds, Excused, Admin, IsGenerated
  <2>6. \A c \in Codes :
           /\ holder[<<"movie", c>>] = u => holder'[<<"movie", c>>] = u
           /\ holder[<<"reserved", c>>] = u => holder'[<<"reserved", c>>] = u
    <3>1. \A r \in Tables : holder[r] = u => holder'[r] = u
      BY <1>3, <1>9 DEF Released
    <3> QED
      BY <3>1, LockedRows
  <2>7. Locked(u)'
    BY <1>3, <2>1, <2>2, <2>6 DEF Locked
  <2> QED
    BY <2>3, <2>4, <2>5, <2>7
<1> QED
  BY <1>5, <1>6, <1>7, <1>8, <1>9 DEF IInv

LEMMA RestartStep ==
    ASSUME IInv, Restart
    PROVE  IInv'
<1>1. TypeOK /\ Captures
  BY DEF IInv
<1>2. /\ at' = [t \in Tasks |-> IF at[t] \in Ended \cup {"idle"} THEN at[t] ELSE "failed"]
      /\ draft' = [t \in Tasks |-> NoDraft]
      /\ holder' = [r \in Tables |-> None]
      /\ fsm' = [chat \in Chats |-> Cleared]
      /\ gen' = None
      /\ UNCHANGED <<movie, reserved, job, told, late>>
  BY DEF Restart
<1>3. TypeOK'
  <2>1. at' \in [Tasks -> Steps] /\ draft' \in [Tasks -> Drafts]
    BY <1>1, <1>2 DEF TypeOK, Steps, Ended, NoDraft, Drafts
  <2>2. fsm' \in [Chats -> Conversations]
    BY <1>2 DEF Cleared, Conversations, FsmStates
  <2> QED
    BY <1>1, <1>2, <2>1, <2>2 DEF TypeOK
<1>4. ASSUME NEW t \in Tasks
      PROVE  (Control(t) /\ Routed(t) /\ Confirms(t) /\ Locked(t) /\ Respects(t))'
  <2>1. Control(t) /\ Confirms(t)
    BY DEF IInv
  <2>2. /\ at'[t] = IF at[t] \in Ended \cup {"idle"} THEN at[t] ELSE "failed"
        /\ draft'[t] = NoDraft
    BY <1>2
  <2>3. Control(t)' /\ Routed(t)' /\ Locked(t)' /\ Respects(t)'
    BY <1>2, <2>1, <2>2 DEF Control, Routed, Locked, Respects, HasLooked, NoDraft, Ended
  <2>4. StoredBy(t)' = StoredBy(t)
    BY <1>2 DEF StoredBy
  <2>5. Confirms(t)'
    BY <1>2, <2>1, <2>2, <2>4 DEF Confirms, Ended
  <2> QED
    BY <2>3, <2>5
<1>5. Captures'
  <2>1. \A t \in Tasks : From(t)' = From(t)
    BY <1>2 DEF From
  <2>2. \A x \in Chats : fsm'[x].from = None
    BY <1>2 DEF Cleared
  <2>3. \A m : Handled(m) => Handled(m)'
    BY <1>2 DEF Handled, Ended
  <2>4. Handled(None)'
    BY RegistryNoneAssumption DEF Handled
  <2> QED
    BY <1>1, <2>1, <2>2, <2>3, <2>4 DEF Captures
<1> QED
  BY <1>3, <1>4, <1>5 DEF IInv

-----------------------------------------------------------------------------
LEMMA TaskStepPreserves ==
    ASSUME IInv, NEW t \in Tasks, TaskStep(t)
    PROVE  IInv'
<1>1. CASE CreateStep(t)
  BY <1>1, SimpleSteps, LocalSteps, InsertStep, FreeStep DEF CreateStep
<1>2. CASE HandlerStep(t)
  BY <1>2, SimpleSteps, ConversationSteps, TakingSteps, LocalSteps, BookStep DEF HandlerStep
<1>3. CASE Log(t) \/ Reply(t) \/ Commit(t) \/ Rollback(t) \/ LockTimeout(t)
  BY <1>3, LogStep, LocalSteps, CommitStep, FailStep
<1> QED
  BY <1>1, <1>2, <1>3 DEF TaskStep

LEMMA StutterStep ==
    ASSUME IInv, UNCHANGED vars
    PROVE  IInv'
<1>1. TypeOK' /\ Captures'
  BY DEF IInv, TypeOK, Captures, From, Handled, vars
<1>2. ASSUME NEW t \in Tasks
      PROVE  (Control(t) /\ Routed(t) /\ Confirms(t) /\ Locked(t) /\ Respects(t))'
  BY DEF IInv, Control, Routed, Confirms, StoredBy, Locked, Respects, HasLooked, Holds,
         Excused, Admin, IsGenerated, vars
<1> QED
  BY <1>1, <1>2 DEF IInv

LEMMA StepPreserves ==
    ASSUME IInv, [Next]_vars
    PROVE  IInv'
<1>1. CASE \E t \in Tasks, chat \in Chats : ReceiveAny(t, chat)
  BY <1>1, ReceiveAnyStep
<1>2. CASE \E t \in Tasks : TaskStep(t)
  BY <1>2, TaskStepPreserves
<1>3. CASE Restart
  BY <1>3, RestartStep
<1>4. CASE AllOver \/ UNCHANGED vars
  BY <1>4, StutterStep DEF AllOver
<1> QED
  BY <1>1, <1>2, <1>3, <1>4 DEF Next

LEMMA InvariantHolds == Spec => []IInv
<1>1. IInv /\ [Next]_vars => IInv'
  BY StepPreserves
<1> QED
  BY <1>1, InitEstablishes, PTL DEF Spec

(* Every row, lock, conversation and task stays of its type.               *)
THEOREM TypeCorrect == Spec => []TypeOK
<1>1. IInv => TypeOK
  BY DEF IInv
<1> QED
  BY <1>1, InvariantHolds, PTL

(* One captured message becomes at most one movie, whatever texts were met *)
(* with the state that awaits its code (media_queue.py:94-95).             *)
THEOREM CapturesUsedOnce == Spec => []CaptureUsedOnce
<1>1. IInv => CaptureUsedOnce
  BY DEF IInv, Captures, From, CaptureUsedOnce
<1> QED
  BY <1>1, InvariantHolds, PTL

(* What an admin was told was stored is stored, and a task that failed     *)
(* stored nothing, on either backend and however many codes it wrote       *)
(* (movie_service.py:534-556, session.py:31-39).                           *)
THEOREM ToldIsStored == Spec => []ToldIffStored
<1>1. IInv => ToldIffStored
  BY DEF IInv, Confirms, ToldIffStored
<1> QED
  BY <1>1, InvariantHolds, PTL

-----------------------------------------------------------------------------
(* What a step may change in the shared state.                             *)
LEMMA WhoWritesReservations ==
    ASSUME [Next]_vars
    PROVE  UNCHANGED reserved \/ \E t \in Tasks : Commit(t)
<1>1. ASSUME NEW t \in Tasks, NEW chat \in Chats, ReceiveAny(t, chat) PROVE UNCHANGED reserved
  BY <1>1 DEF ReceiveAny, Receive
<1>2. ASSUME NEW t \in Tasks, TaskStep(t) PROVE UNCHANGED reserved \/ Commit(t)
  <2>1. CASE CreateStep(t)
    BY <2>1 DEF CreateStep, CheckReserved, CheckTaken, Draw, Probe, Insert, Free
  <2>2. CASE HandlerStep(t)
    BY <2>2 DEF HandlerStep, Throttle, Ignore, CaptureMedia, ReceiveCode, OpenFlow, ReceiveMedia,
                Warn, KeepMedia, ReceiveTitle, ReceiveYearOrGenre, ReceiveDescription,
                CollectBulkMedia, FinishBulkUpload, Command, FindTaken, FindReserved, Book, NextRow
  <2>3. CASE Log(t) \/ Reply(t) \/ Commit(t) \/ Rollback(t) \/ LockTimeout(t)
    BY <2>3 DEF Log, Reply, Rollback, LockTimeout
  <2> QED
    BY <1>2, <2>1, <2>2, <2>3 DEF TaskStep
<1>3. Restart \/ AllOver \/ UNCHANGED vars => UNCHANGED reserved
  BY DEF Restart, AllOver, vars
<1> QED
  BY <1>1, <1>2, <1>3 DEF Next

LEMMA CommitRespects ==
    ASSUME IInv, [Next]_vars, NEW c \in Codes, NEW t \in Tasks,
           Holds(c), ~ Holds(c)', at[t] = "commit", at'[t] = "done"
    PROVE  Excused(t, c)
<1>1. PICK u \in Tasks : Commit(u)
  BY WhoWritesReservations DEF Holds
<1>2. u = t
  BY <1>1 DEF Commit, EndTransaction, Goto, IInv, TypeOK
<1>3. reserved'[c] = IF c \in draft[t].booked THEN ReservationOf(t)
                     ELSE IF c \in draft[t].freed THEN [reserved[c] EXCEPT !.released = TRUE]
                     ELSE reserved[c]
  BY <1>1, <1>2 DEF Commit
<1>4. c \notin draft[t].booked
  BY DEF IInv, Locked, Holds
<1>5. c \in draft[t].freed
  BY <1>3, <1>4 DEF Holds
<1> QED
  BY <1>5 DEF IInv, Respects

(* A reservation ends only as it may: no creation that could have seen it  *)
(* ends another admin's (movie_service.py:82-94, 174-176, 299-304).        *)
THEOREM ReservationsAreRespected == Spec => ReservationsRespected
<1>1. IInv /\ [Next]_vars =>
        [ \A c \in Codes, t \in Tasks :
             (Holds(c) /\ ~ Holds(c)' /\ at[t] = "commit" /\ at'[t] = "done")
             => \/ job[t].kind = "release"
                \/ Admin(t) = reserved[c].by
                \/ IsGenerated(t)
                \/ <<t, c>> \in late ]_vars
  BY CommitRespects DEF Excused
<1> QED
  BY <1>1, InvariantHolds, PTL DEF Spec, ReservationsRespected

LEMMA CapturesKept ==
    ASSUME IInv, [Next]_vars, NEW x \in Chats, fsm[x].state = "code"
    PROVE  fsm'[x].from \in {fsm[x].from, None}
<1>1. TypeOK
  BY DEF IInv
<1>2. ASSUME NEW t \in Tasks, NEW chat \in Chats, ReceiveAny(t, chat) PROVE UNCHANGED fsm
  BY <1>2 DEF ReceiveAny, Receive
<1>3. ASSUME NEW t \in Tasks, TaskStep(t)
      PROVE  UNCHANGED fsm \/ fsm'[x].from \in {fsm[x].from, None}
  <2>1. CASE CreateStep(t)
    BY <2>1 DEF CreateStep, CheckReserved, CheckTaken, Draw, Probe, Insert, Free
  <2>2. CASE Throttle(t) \/ Ignore(t) \/ ReceiveMedia(t) \/ CollectBulkMedia(t) \/ Command(t)
             \/ FindTaken(t) \/ FindReserved(t) \/ Book(t) \/ NextRow(t)
    BY <2>2 DEF Throttle, Ignore, ReceiveMedia, CollectBulkMedia, Command, FindTaken,
                FindReserved, Book, NextRow
  <2>3. Cleared.from = None
    BY DEF Cleared
  <2>4. CASE CaptureMedia(t)
    BY <1>1, <2>4 DEF CaptureMedia, SetFsm, TypeOK
  <2>5. CASE ReceiveCode(t) \/ Warn(t) \/ ReceiveDescription(t) \/ FinishBulkUpload(t)
    BY <1>1, <2>3, <2>5 DEF ReceiveCode, Warn, ReceiveDescription, FinishBulkUpload, SetFsm, TypeOK
  <2>6. CASE OpenFlow(t) \/ KeepMedia(t) \/ ReceiveTitle(t) \/ ReceiveYearOrGenre(t)
    <3>1. fsm[x] \in Conversations
      BY <1>1 DEF TypeOK
    <3>2. CASE OpenFlow(t)
      BY <1>1, <3>1, <3>2 DEF OpenFlow, TypeOK, Conversations
    <3>3. CASE KeepMedia(t)
      BY <1>1, <3>1, <3>3 DEF KeepMedia, TypeOK, Conversations
    <3>4. CASE ReceiveTitle(t)
      BY <1>1, <3>1, <3>4 DEF ReceiveTitle, TypeOK, Conversations
    <3>5. CASE ReceiveYearOrGenre(t)
      BY <1>1, <3>1, <3>5 DEF ReceiveYearOrGenre, TypeOK, Conversations
    <3> QED
      BY <2>6, <3>2, <3>3, <3>4, <3>5
  <2>7. CASE Log(t) \/ Reply(t) \/ Commit(t) \/ Rollback(t) \/ LockTimeout(t)
    BY <2>7 DEF Log, Reply, Commit, Rollback, LockTimeout
  <2> QED
    BY <1>3, <2>1, <2>2, <2>4, <2>5, <2>6, <2>7 DEF TaskStep, HandlerStep
<1>4. Restart => fsm'[x].from = None
  BY DEF Restart, Cleared
<1>5. AllOver \/ UNCHANGED vars => UNCHANGED fsm
  BY DEF AllOver, vars
<1> QED
  BY <1>2, <1>3, <1>4, <1>5 DEF Next

(* What an admin dropped into a group waits for its code undisturbed: no   *)
(* other message takes its place (media_queue.py:64-65).                   *)
THEOREM CapturesAreKept == Spec => CaptureNotReplaced
<1>1. IInv /\ [Next]_vars =>
        [ \A chat \in Chats :
             (fsm[chat].state = "code" /\ fsm'[chat].from # fsm[chat].from)
             => fsm'[chat].from = None ]_vars
  BY CapturesKept
<1> QED
  BY <1>1, InvariantHolds, PTL DEF Spec, CaptureNotReplaced
=============================================================================
