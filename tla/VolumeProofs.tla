---------------------------- MODULE VolumeProofs ----------------------------
(***************************************************************************)
(* No command, start or crash of Volume loses a row that existed before    *)
(* it, leaves a schema behind that does not fit the stamped version, or    *)
(* gives the bot tables it cannot work with: for any films, any number of  *)
(* commands and crashes, and both backends.                                *)
(*                                                                         *)
(* What a command does is a list of statements, flattened from revisions.  *)
(* The first part describes the lists: what FlattenSeq puts where          *)
(* (induction is a least counterexample, by UpTo), what each revision may  *)
(* hold (UpPiece, DownPiece), and from that what a whole upgrade,          *)
(* downgrade or start is (UpgradeProgram, DowngradeProgram, BootProgram).  *)
(* The second part says what one statement does to the tables (Effect) and *)
(* a commit or a crash to the transaction, and the third joins them: IInv  *)
(* is kept by every step, with the conjuncts                               *)
(*   - TypeOK,                                                             *)
(*   - ProgramOK: the statements left belong to the command under way,     *)
(*   - RowsOK:    what a rebuild has set aside is carried over before any  *)
(*                commit can show that it was gone,                        *)
(*   - PgOK:      on PostgreSQL every upgrade from nothing is refused, so  *)
(*                nothing it writes is ever committed,                     *)
(*   - UsableOK:  a start ahead of its first commit has not been stamped,  *)
(*                and what a start creates has every column it is to have, *)
(*   - StampOK:   what a stamp promises is there, or is given by a         *)
(*                statement that comes before the stamp.                   *)
(* The last part joins to it ShapeOK, for the tables to the last flag:     *)
(* what there is together with what the statements left still make, or     *)
(* without what they still take, is what the version at the end has.       *)
(***************************************************************************)
EXTENDS Volume, SequenceTheorems, WellFoundedInduction, TLAPS

(* Induction up to n: a set that holds 0 and, with every number below n,   *)
(* the next.                                                               *)
LEMMA UpTo ==
    ASSUME NEW n \in Nat, NEW T \in SUBSET Nat, 0 \in T,
           \A m \in 0 .. n - 1 : m \in T => m + 1 \in T
    PROVE  \A m \in 0 .. n : m \in T
<1> DEFINE less == OpToRel(<, Nat)
           out  == {m \in 0 .. n : m \notin T}
<1>1. \A x, y \in Nat : x < y => <<x, y>> \in less
  BY DEF OpToRel
<1>2. IsWellFoundedOn(less, Nat)
  BY NatLessThanWellFounded
<1>3. out \subseteq Nat
  OBVIOUS
<1> HIDE DEF less
<1> SUFFICES ASSUME out # {} PROVE FALSE
  OBVIOUS
<1>4. PICK m \in out : \A y \in out : ~ (<<y, m>> \in less)
  <2> HIDE DEF out
  <2> QED
    BY <1>2, <1>3, WFMin
<1>5. m # 0 /\ m - 1 \in 0 .. n - 1 /\ m \in Nat /\ m - 1 \in Nat /\ m - 1 < m
  BY <1>4
<1>7. m - 1 \in T
  <2>1. <<m - 1, m>> \in less
    BY <1>1, <1>5
  <2> QED
    BY <1>4, <1>5, <2>1
<1>6. m - 1 + 1 = m
  BY <1>4
<1> QED
  BY <1>4, <1>5, <1>6, <1>7

(* What FlattenSeq computes by recursion, and where it puts the sequences. *)
Flattens(f, ss, n) ==
    f = [i \in 1 .. n |-> IF i = 1 THEN ss[i] ELSE f[i - 1] \o ss[i]]

Offsets(off, ss, n) ==
    /\ off \in [1 .. n + 1 -> Nat] /\ off[1] = 0
    /\ \A i \in 1 .. n : off[i + 1] = off[i] + Len(ss[i])
    /\ \A a \in 1 .. n, b \in 1 .. n + 1 : a < b => off[a] + Len(ss[a]) <= off[b]

Placed(s, off, ss, n) ==
    /\ Len(s) = off[n + 1]
    /\ \A a \in 1 .. n : \A j \in 1 .. Len(ss[a]) : s[off[a] + j] = ss[a][j]
    /\ \A k \in 1 .. Len(s) : \E a \in 1 .. n : \E j \in 1 .. Len(ss[a]) : k = off[a] + j

LEMMA FlattensByRecursion ==
    ASSUME NEW ss, Len(ss) # 0, \E f : Flattens(f, ss, Len(ss))
    PROVE  \E f : Flattens(f, ss, Len(ss)) /\ FlattenSeq(ss) = f[Len(ss)]
<1> DEFINE F == CHOOSE f : Flattens(f, ss, Len(ss))
<1>1. Flattens(F, ss, Len(ss))
  OBVIOUS
<1>2. FlattenSeq(ss) = F[Len(ss)]
  BY DEF FlattenSeq, Flattens
<1> QED
  BY <1>1, <1>2

LEMMA FlatteningIsUnique ==
    ASSUME NEW ss, NEW n \in Nat, NEW f, NEW g, Flattens(f, ss, n), Flattens(g, ss, n)
    PROVE  \A m \in 1 .. n : f[m] = g[m]
<1> DEFINE T == {m \in Nat : m \in 1 .. n => f[m] = g[m]}
<1>1. 0 \in T
  OBVIOUS
<1>2. ASSUME NEW m \in 0 .. n - 1, m \in T PROVE m + 1 \in T
  <2>1. m + 1 \in 1 .. n /\ (m + 1) - 1 = m
    OBVIOUS
  <2>2. CASE m = 0
    BY <2>1, <2>2 DEF Flattens
  <2>3. CASE m # 0
    <3>1. f[m] = g[m] /\ m + 1 # 1
      BY <1>2, <2>3
    <3>2. f[m + 1] = f[m] \o ss[m + 1] /\ g[m + 1] = g[m] \o ss[m + 1]
      BY <2>1, <3>1 DEF Flattens
    <3>3. f[m + 1] = g[m + 1] /\ m + 1 \in Nat
      BY <3>1, <3>2
    <3> QED
      BY <3>3
  <2> QED
    BY <2>2, <2>3
<1>3. \A m \in 0 .. n : m \in T
  <2> HIDE DEF T
  <2>1. T \in SUBSET Nat
    BY DEF T
  <2> QED
    BY <1>1, <1>2, <2>1, UpTo
<1> QED
  BY <1>3

LEMMA FlatteningExists ==
    ASSUME NEW S, NEW ss \in Seq(Seq(S))
    PROVE  \E f, off : /\ Flattens(f, ss, Len(ss)) /\ Offsets(off, ss, Len(ss))
                       /\ \A i \in 1 .. Len(ss) : f[i] \in Seq(S) /\ Placed(f[i], off, ss, i)
<1> DEFINE Upto(f, off, n) ==
              /\ Flattens(f, ss, n) /\ Offsets(off, ss, n)
              /\ \A i \in 1 .. n : f[i] \in Seq(S) /\ Placed(f[i], off, ss, i)
           T == {n \in Nat : n <= Len(ss) => \E f, off : Upto(f, off, n)}
<1>0. /\ Len(ss) \in Nat
      /\ \A i \in 1 .. Len(ss) : ss[i] \in Seq(S) /\ Len(ss[i]) \in Nat
  <2>1. Len(ss) \in Nat /\ \A i \in 1 .. Len(ss) : ss[i] \in Seq(S)
    BY LenProperties, ElementOfSeq
  <2> QED
    BY <2>1, LenProperties
<1>1. 0 \in T
  <2>1. Flattens([i \in 1 .. 0 |-> ss[i]], ss, 0)
    BY DEF Flattens
  <2>2. Offsets([i \in 1 .. 1 |-> 0], ss, 0)
    BY DEF Offsets
  <2>3. Upto([i \in 1 .. 0 |-> ss[i]], [i \in 1 .. 1 |-> 0], 0)
    BY <2>1, <2>2
  <2> QED
    BY <2>3
<1>2. ASSUME NEW m \in 0 .. Len(ss) - 1, m \in T PROVE m + 1 \in T
  <2>1. PICK f, off : Upto(f, off, m)
    BY <1>0, <1>2
  <2> DEFINE n == m + 1
             f2 == [i \in 1 .. n |-> IF i <= m THEN f[i]
                                     ELSE IF m = 0 THEN ss[1] ELSE f[m] \o ss[n]]
             off2 == [i \in 1 .. n + 1 |-> IF i <= n THEN off[i] ELSE off[n] + Len(ss[n])]
  <2>0. /\ m \in Nat /\ n \in Nat /\ n = m + 1 /\ n \in 1 .. Len(ss) /\ off[n] \in Nat
        /\ ss[n] \in Seq(S) /\ Len(ss[n]) \in Nat
    BY <1>0, <2>1 DEF Offsets
  <2>01. off \in [1 .. m + 1 -> Nat]
    BY <2>1 DEF Offsets
  <2>02. \A a \in 1 .. m : \A b \in 1 .. m + 1 : a < b => off[a] + Len(ss[a]) <= off[b]
    BY <2>1 DEF Offsets
  <2>03. \A a \in 1 .. m : off[a] \in Nat /\ Len(ss[a]) \in Nat /\ a \in 1 .. n
    BY <1>0, <2>0, <2>01
  <2>04. \A a \in 1 .. m : off[a] + Len(ss[a]) <= off[n]
    BY <2>0, <2>02
  <2>2. \A i \in 1 .. m : f2[i] = f[i] /\ i # n
    BY <2>0
  <2>3. f2[n] = IF m = 0 THEN ss[1] ELSE f[m] \o ss[n]
    BY <2>0
  <2>4. \A i \in 1 .. n : off2[i] = off[i]
    BY <2>0
  <2>5. off2[n + 1] = off[n] + Len(ss[n])
    BY <2>0
  <2>6. off2 \in [1 .. n + 1 -> Nat]
    <3>1. ASSUME NEW i \in 1 .. n + 1 PROVE off2[i] \in Nat
      <4>1. CASE i \in 1 .. n
        BY <2>0, <2>1, <2>4, <4>1 DEF Offsets
      <4>2. CASE i = n + 1
        BY <2>0, <2>5, <4>2
      <4> QED
        BY <2>0, <3>1, <4>1, <4>2
    <3> QED
      BY <3>1
  <2>7. Flattens(f2, ss, n)
    <3>1. ASSUME NEW i \in 1 .. n PROVE f2[i] = IF i = 1 THEN ss[i] ELSE f2[i - 1] \o ss[i]
      <4>1. CASE i = n /\ m = 0
        BY <2>0, <2>3, <4>1
      <4>2. CASE i = n /\ m # 0
        <5>1. i - 1 = m /\ i # 1 /\ m \in 1 .. m
          BY <2>0, <4>2
        <5>2. f2[m] = f[m]
          BY <2>2, <5>1
        <5> QED
          BY <2>3, <4>2, <5>1, <5>2
      <4>3. CASE i # n
        <5>1. i \in 1 .. m /\ (i # 1 => i - 1 \in 1 .. m)
          BY <2>0, <4>3
        <5>2. f[i] = IF i = 1 THEN ss[i] ELSE f[i - 1] \o ss[i]
          BY <2>1, <5>1 DEF Flattens
        <5> QED
          BY <2>2, <5>1, <5>2
      <4> QED
        BY <4>1, <4>2, <4>3
    <3>2. f2 = [i \in 1 .. n |-> f2[i]]
      OBVIOUS
    <3> HIDE DEF f2
    <3> QED
      BY <3>1, <3>2 DEF Flattens
  <2> HIDE DEF f2, off2, n
  <2>8. Offsets(off2, ss, n)
    <3>1. off2[1] = 0
      BY <2>0, <2>1, <2>4 DEF Offsets
    <3>2. ASSUME NEW i \in 1 .. n PROVE off2[i + 1] = off2[i] + Len(ss[i])
      <4>1. CASE i = n
        BY <2>0, <2>4, <2>5, <4>1
      <4>2. CASE i # n
        <5>1. i \in 1 .. m /\ i + 1 \in 1 .. n
          BY <2>0, <4>2
        <5>2. off[i + 1] = off[i] + Len(ss[i])
          BY <2>1, <5>1 DEF Offsets
        <5> QED
          BY <2>4, <5>1, <5>2
      <4> QED
        BY <4>1, <4>2
    <3>3. ASSUME NEW a \in 1 .. n, NEW b \in 1 .. n + 1, a < b
          PROVE  off2[a] + Len(ss[a]) <= off2[b]
      <4>1. CASE b \in 1 .. n
        <5>1. a \in 1 .. m /\ b \in 1 .. m + 1
          BY <2>0, <3>3, <4>1
        <5> QED
          BY <2>1, <2>4, <3>3, <4>1, <5>1 DEF Offsets
      <4>2. CASE b = n + 1 /\ a = n
        BY <2>0, <2>4, <2>5, <4>2
      <4>3. CASE b = n + 1 /\ a # n
        <5>1. a \in 1 .. m /\ n \in 1 .. m + 1 /\ a < n
          BY <2>0, <4>3
        <5>2. off[a] + Len(ss[a]) <= off[n]
          BY <2>04, <5>1
        <5>3. off[a] \in Nat /\ Len(ss[a]) \in Nat
          BY <2>03, <5>1
        <5> QED
          BY <2>0, <2>4, <2>5, <4>3, <5>2, <5>3
      <4> QED
        BY <2>0, <4>1, <4>2, <4>3
    <3> QED
      BY <2>6, <3>1, <3>2, <3>3 DEF Offsets
  <2>9. ASSUME NEW i \in 1 .. n PROVE f2[i] \in Seq(S) /\ Placed(f2[i], off2, ss, i)
    <3>1. CASE i \in 1 .. m
      <4>1. f2[i] \in Seq(S) /\ Placed(f[i], off, ss, i)
        BY <2>1, <2>2, <3>1
      <4>2. off2[i + 1] = off[i + 1] /\ \A a \in 1 .. i : off2[a] = off[a]
        BY <2>0, <2>4, <3>1
      <4>3. i + 1 \in 1 .. m + 1 /\ f2[i] = f[i]
        BY <2>2, <3>1
      <4>4. Placed(f[i], off2, ss, i)
        <5> HIDE <4>3
        <5> QED
          BY <4>1, <4>2 DEF Placed
      <4> QED
        BY <4>1, <4>3, <4>4
    <3>2. CASE i = n /\ m = 0
      <4>1. n = 1 /\ f2[1] = ss[1] /\ off2[1] = 0 /\ off2[2] = Len(ss[1]) /\ Len(ss[1]) \in Nat
        BY <2>0, <2>3, <2>8, <3>2 DEF Offsets
      <4>2. \A a \in 1 .. 1 : a = 1
        OBVIOUS
      <4>3. \A j \in 1 .. Len(ss[1]) : 0 + j = j /\ j = 0 + j
        BY <4>1
      <4> QED
        BY <2>0, <3>2, <4>1, <4>2, <4>3 DEF Placed
    <3>3. CASE i = n /\ m # 0
      <4>0. m \in 1 .. m /\ m \in 1 .. n
        BY <2>0, <3>3
      <4>1. f[m] \in Seq(S) /\ Placed(f[m], off, ss, m) /\ f2[n] = f[m] \o ss[n]
        BY <2>1, <2>3, <3>3, <4>0
      <4>2. /\ f[m] \o ss[n] \in Seq(S)
            /\ Len(f[m] \o ss[n]) = Len(f[m]) + Len(ss[n])
            /\ \A j \in 1 .. Len(f[m]) + Len(ss[n]) : (f[m] \o ss[n])[j] =
                  IF j <= Len(f[m]) THEN f[m][j] ELSE ss[n][j - Len(f[m])]
        BY <2>0, <4>1, ConcatProperties
      <4>3. Len(f[m]) = off[n]
        BY <2>0, <4>1 DEF Placed
      <4>4. Len(f2[n]) = off2[n + 1]
        BY <2>5, <4>1, <4>2, <4>3
      <4>5. ASSUME NEW a \in 1 .. n, NEW j \in 1 .. Len(ss[a])
            PROVE  f2[n][off2[a] + j] = ss[a][j]
        <5>0. off[a] \in Nat /\ off2[a] = off[a] /\ Len(ss[a]) \in Nat
          BY <1>0, <2>0, <2>1, <2>4 DEF Offsets
        <5>1. CASE a = n
          <6> DEFINE k == off[n] + j
          <6>1. j \in 1 .. Len(ss[n]) /\ Len(ss[n]) \in Nat /\ off[n] \in Nat
            BY <2>0, <4>5, <5>1
          <6>3. k \in 1 .. Len(f[m]) + Len(ss[n]) /\ ~ (k <= Len(f[m])) /\ k - Len(f[m]) = j
            <7> DEFINE x == off[n]
                       y == Len(ss[n])
            <7>1. j \in 1 .. y /\ y \in Nat /\ x \in Nat /\ k = x + j /\ Len(f[m]) = x
              BY <4>3, <6>1
            <7> HIDE DEF x, y, k
            <7>2. k \in 1 .. x + y /\ ~ (k <= x) /\ k - x = j
              BY <7>1
            <7> QED
              BY <7>1, <7>2 DEF y
          <6> HIDE DEF k
          <6>4. (f[m] \o ss[n])[k] = ss[n][j]
            BY <4>2, <6>3
          <6>2. (f[m] \o ss[n])[off[n] + j] = ss[n][j]
            BY <6>4 DEF k
          <6> QED
            BY <4>1, <5>0, <5>1, <6>2
        <5>2. CASE a \in 1 .. m
          <6>1. off[a] + Len(ss[a]) <= off[n]
            BY <2>04, <5>2
          <6> DEFINE x == off[a]
                     y == Len(ss[a])
          <6>4. x \in Nat /\ y \in Nat /\ j \in 1 .. y /\ x + y <= off[n]
            BY <4>5, <5>0, <6>1
          <6> HIDE DEF x, y
          <6>5. x + j \in 1 .. off[n]
            BY <2>0, <6>4
          <6>2. off[a] + j \in 1 .. Len(f[m]) + Len(ss[n]) /\ off[a] + j <= Len(f[m])
            BY <2>0, <4>3, <6>5 DEF x
          <6>3. f[m][off[a] + j] = ss[a][j]
            BY <4>1, <5>2 DEF Placed
          <6> QED
            BY <4>1, <4>2, <5>0, <5>2, <6>2, <6>3
        <5> QED
          BY <2>0, <5>1, <5>2
      <4>6. ASSUME NEW k \in 1 .. Len(f2[n])
            PROVE  \E a \in 1 .. n : \E j \in 1 .. Len(ss[a]) : k = off2[a] + j
        <5>1. CASE k \in 1 .. Len(f[m])
          <6>1. PICK a \in 1 .. m : \E j \in 1 .. Len(ss[a]) : k = off[a] + j
            BY <4>1, <5>1 DEF Placed
          <6>2. a \in 1 .. n /\ off2[a] = off[a]
            BY <2>0, <2>4
          <6> QED
            BY <6>1, <6>2
        <5>2. CASE k \notin 1 .. Len(f[m])
          <6>1. Len(f2[n]) = off[n] + Len(ss[n]) /\ off2[n] = off[n] /\ n \in 1 .. n
            BY <2>0, <2>4, <4>1, <4>2, <4>3
          <6>2. k - off[n] \in 1 .. Len(ss[n]) /\ k = off[n] + (k - off[n])
            BY <2>0, <4>3, <5>2, <6>1
          <6> QED
            BY <6>1, <6>2
        <5> QED
          BY <5>1, <5>2
      <4> QED
        BY <3>3, <4>1, <4>2, <4>4, <4>5, <4>6 DEF Placed
    <3> QED
      BY <2>0, <3>1, <3>2, <3>3
  <2>10. Upto(f2, off2, n)
    BY <2>7, <2>8, <2>9
  <2>11. n \in T
    BY <2>0, <2>10
  <2> QED
    BY <2>11 DEF n
<1>3. Len(ss) \in T
  <2> HIDE DEF T
  <2>1. T \in SUBSET Nat
    BY DEF T
  <2>2. \A m \in 0 .. Len(ss) : m \in T
    BY <1>0, <1>1, <1>2, <2>1, UpTo
  <2> QED
    BY <1>0, <2>2
<1> QED
  BY <1>0, <1>3

LEMMA Flattened ==
    ASSUME NEW S, NEW ss \in Seq(Seq(S))
    PROVE  /\ FlattenSeq(ss) \in Seq(S)
           /\ \E off : Offsets(off, ss, Len(ss)) /\ Placed(FlattenSeq(ss), off, ss, Len(ss))
<1>1. CASE Len(ss) = 0
  <2>1. ss = <<>>
    BY <1>1, EmptySeq
  <2>2. FlattenSeq(ss) = <<>>
    BY <1>1, <2>1 DEF FlattenSeq
  <2>3. <<>> \in Seq(S) /\ Len(<<>>) = 0
    BY EmptySeq
  <2>4. Offsets([i \in 1 .. 1 |-> 0], <<>>, 0) /\ Placed(<<>>, [i \in 1 .. 1 |-> 0], <<>>, 0)
    BY <2>3 DEF Offsets, Placed
  <2> QED
    BY <2>1, <2>2, <2>3, <2>4
<1>2. CASE Len(ss) # 0
  <2>1. PICK f, off : /\ Flattens(f, ss, Len(ss)) /\ Offsets(off, ss, Len(ss))
                      /\ \A i \in 1 .. Len(ss) : f[i] \in Seq(S) /\ Placed(f[i], off, ss, i)
    BY FlatteningExists
  <2>2. PICK g : Flattens(g, ss, Len(ss)) /\ FlattenSeq(ss) = g[Len(ss)]
    BY <1>2, <2>1, FlattensByRecursion
  <2>3. Len(ss) \in Nat /\ Len(ss) \in 1 .. Len(ss)
    BY <1>2, LenProperties
  <2>4. f[Len(ss)] = g[Len(ss)]
    BY <2>1, <2>2, <2>3, FlatteningIsUnique
  <2> QED
    BY <2>1, <2>2, <2>3, <2>4
<1> QED
  BY <1>1, <1>2

(* A sequence of whatever is in it.                                        *)
IsSeq(s) == s \in Seq(Range(s))

LEMMA Narrowed ==
    ASSUME NEW S, NEW s \in Seq(S)
    PROVE  IsSeq(s)
<1>1. Len(s) \in Nat /\ s \in [1 .. Len(s) -> S]
  BY LenProperties
<1>2. s \in [1 .. Len(s) -> Range(s)]
  BY <1>1 DEF Range
<1> QED
  BY <1>1, <1>2, SeqDef DEF IsSeq

LEMMA Widened ==
    ASSUME NEW s, IsSeq(s), NEW S, Range(s) \subseteq S
    PROVE  s \in Seq(S)
<1>1. Len(s) \in Nat /\ s \in [1 .. Len(s) -> Range(s)]
  BY LenProperties DEF IsSeq
<1>2. s \in [1 .. Len(s) -> S]
  BY <1>1
<1> QED
  BY <1>1, <1>2, SeqDef

LEMMA RangeOf ==
    ASSUME NEW s, IsSeq(s)
    PROVE  /\ Len(s) \in Nat /\ DOMAIN s = 1 .. Len(s)
           /\ \A i \in 1 .. Len(s) : s[i] \in Range(s)
           /\ \A x \in Range(s) : \E i \in 1 .. Len(s) : x = s[i]
<1>1. Len(s) \in Nat /\ DOMAIN s = 1 .. Len(s)
  BY LenProperties DEF IsSeq
<1> QED
  BY <1>1 DEF Range

LEMMA TailOf ==
    ASSUME NEW s, IsSeq(s), s # <<>>
    PROVE  /\ Len(s) \in Nat /\ Len(s) > 0 /\ Head(s) = s[1] /\ Head(s) \in Range(s)
           /\ IsSeq(Tail(s)) /\ Len(Tail(s)) = Len(s) - 1
           /\ \A i \in 1 .. Len(s) - 1 : Tail(s)[i] = s[i + 1]
           /\ Range(s) = {Head(s)} \cup Range(Tail(s))
<1>1. /\ Len(s) \in Nat /\ Len(s) > 0 /\ Head(s) = s[1] /\ Head(s) \in Range(s)
      /\ IsSeq(Tail(s)) /\ Len(Tail(s)) = Len(s) - 1
      /\ \A i \in 1 .. Len(s) - 1 : Tail(s)[i] = s[i + 1]
      /\ DOMAIN s = 1 .. Len(s)
  <2>1. s \in Seq(Range(s))
    BY DEF IsSeq
  <2>2. Len(s) \in Nat /\ Len(s) > 0 /\ DOMAIN s = 1 .. Len(s)
    BY <2>1, LenProperties, EmptySeq
  <2>3. /\ Head(s) = s[1] /\ Tail(s) \in Seq(Range(s)) /\ Len(Tail(s)) = Len(s) - 1
        /\ \A i \in 1 .. Len(Tail(s)) : Tail(s)[i] = s[i + 1]
    BY <2>1, HeadTailProperties
  <2>4. s[1] \in Range(s)
    BY <2>2 DEF Range
  <2> QED
    BY <2>2, <2>3, <2>4, Narrowed
<1>2. DOMAIN Tail(s) = 1 .. Len(s) - 1
  BY <1>1, LenProperties
<1>3. \A i \in 1 .. Len(s) : i = 1 \/ (i - 1 \in 1 .. Len(s) - 1 /\ i = (i - 1) + 1)
  BY <1>1
<1>4. \A i \in 1 .. Len(s) - 1 : i + 1 \in 1 .. Len(s)
  BY <1>1
<1>5. 1 \in 1 .. Len(s)
  BY <1>1
<1>6. ASSUME NEW x \in Range(s) PROVE x \in {Head(s)} \cup Range(Tail(s))
  <2>1. PICK i \in 1 .. Len(s) : x = s[i]
    BY <1>1 DEF Range
  <2>2. CASE i = 1
    BY <1>1, <2>1, <2>2
  <2>3. CASE i # 1
    <3>1. i - 1 \in DOMAIN Tail(s) /\ Tail(s)[i - 1] = s[(i - 1) + 1] /\ (i - 1) + 1 = i
      BY <1>1, <1>2, <2>3
    <3> QED
      BY <2>1, <3>1 DEF Range
  <2> QED
    BY <2>2, <2>3
<1>7. {Head(s)} \cup Range(Tail(s)) \subseteq Range(s)
  BY <1>1, <1>2, <1>4, <1>5 DEF Range
<1> QED
  BY <1>1, <1>6, <1>7

LEMMA Joined ==
    ASSUME NEW s, IsSeq(s), NEW t, IsSeq(t)
    PROVE  /\ IsSeq(s \o t) /\ Len(s \o t) = Len(s) + Len(t)
           /\ Len(s) \in Nat /\ Len(t) \in Nat
           /\ \A i \in 1 .. Len(s) : (s \o t)[i] = s[i]
           /\ \A j \in 1 .. Len(t) : (s \o t)[Len(s) + j] = t[j]
           /\ \A i \in 1 .. Len(s \o t) :
                 i \in 1 .. Len(s) \/ \E j \in 1 .. Len(t) : i = Len(s) + j
           /\ Range(s \o t) = Range(s) \cup Range(t)
<1> DEFINE m == Len(s)
           n == Len(t)
           S == Range(s) \cup Range(t)
<1>0. s \in Seq(S) /\ t \in Seq(S)
  BY Widened
<1> HIDE DEF S
<1>1. /\ m \in Nat /\ n \in Nat /\ IsSeq(s \o t) /\ Len(s \o t) = m + n
      /\ \A i \in 1 .. m + n : (s \o t)[i] = IF i <= m THEN s[i] ELSE t[i - m]
  BY <1>0, ConcatProperties, LenProperties, Narrowed
<1>2. DOMAIN s = 1 .. m /\ DOMAIN t = 1 .. n /\ DOMAIN (s \o t) = 1 .. m + n
  BY <1>1, RangeOf
<1> HIDE DEF m, n
<1>3. /\ \A i \in 1 .. m : i \in 1 .. m + n /\ i <= m
      /\ \A j \in 1 .. n : m + j \in 1 .. m + n /\ ~ (m + j <= m) /\ (m + j) - m = j
      /\ \A i \in 1 .. m + n : i \in 1 .. m \/ (i - m \in 1 .. n /\ i = m + (i - m))
  BY <1>1
<1>4. /\ \A i \in 1 .. m : (s \o t)[i] = s[i]
      /\ \A j \in 1 .. n : (s \o t)[m + j] = t[j]
      /\ \A i \in 1 .. m + n : i \in 1 .. m \/ \E j \in 1 .. n : i = m + j
  BY <1>1, <1>3
<1>5. ASSUME NEW x \in Range(s \o t) PROVE x \in Range(s) \cup Range(t)
  <2>1. PICK i \in 1 .. m + n : x = (s \o t)[i]
    BY <1>2 DEF Range
  <2>2. (\E k \in 1 .. m : x = s[k]) \/ \E k \in 1 .. n : x = t[k]
    BY <1>4, <2>1
  <2> QED
    BY <1>2, <2>2 DEF Range
<1>6. ASSUME NEW x \in Range(s) \cup Range(t) PROVE x \in Range(s \o t)
  <2>1. (\E k \in 1 .. m : x = s[k]) \/ \E k \in 1 .. n : x = t[k]
    BY <1>2 DEF Range
  <2>2. \E i \in 1 .. m + n : x = (s \o t)[i]
    BY <1>3, <1>4, <2>1
  <2> QED
    BY <1>2, <2>2 DEF Range
<1> QED
  BY <1>1, <1>4, <1>5, <1>6 DEF m, n

LEMMA Single ==
    ASSUME NEW x
    PROVE  /\ IsSeq(<<x>>) /\ Len(<<x>>) = 1 /\ <<x>>[1] = x /\ Range(<<x>>) = {x}
           /\ IsSeq(<<>>) /\ Len(<<>>) = 0 /\ Range(<<>>) = {}
<1>1. <<x>> \in Seq({x}) /\ <<>> \in Seq({x}) /\ Len(<<x>>) = 1 /\ Len(<<>>) = 0 /\ <<x>>[1] = x
  OBVIOUS
<1>2. IsSeq(<<x>>) /\ IsSeq(<<>>)
  BY <1>1, Narrowed
<1> QED
  BY <1>1, <1>2 DEF Range

LEMMA Joint ==
    ASSUME NEW s, IsSeq(s), NEW t, IsSeq(t), NEW u, u = s \o t
    PROVE  /\ IsSeq(u) /\ Len(u) = Len(s) + Len(t) /\ Len(s) \in Nat /\ Len(t) \in Nat
           /\ \A i \in 1 .. Len(s) : u[i] = s[i]
           /\ \A j \in 1 .. Len(t) : u[Len(s) + j] = t[j]
           /\ \A i \in 1 .. Len(u) :
                 i \in 1 .. Len(s) \/ \E j \in 1 .. Len(t) : i = Len(s) + j
           /\ Range(u) = Range(s) \cup Range(t)
<1>1. IsSeq(u) /\ Len(u) = Len(s) + Len(t)
  BY Joined
<1>2. Len(s) \in Nat /\ Len(t) \in Nat
  BY RangeOf
<1>3. \A i \in 1 .. Len(s) : u[i] = s[i]
  BY Joined
<1>4. \A j \in 1 .. Len(t) : u[Len(s) + j] = t[j]
  BY Joined
<1>5. \A i \in 1 .. Len(u) : i \in 1 .. Len(s) \/ \E j \in 1 .. Len(t) : i = Len(s) + j
  BY Joined
<1>6. Range(u) = Range(s) \cup Range(t)
  BY Joined
<1> QED
  BY <1>1, <1>2, <1>3, <1>4, <1>5, <1>6

LEMMA Appended ==
    ASSUME NEW s, IsSeq(s), NEW x, NEW u, u = s \o <<x>>
    PROVE  /\ IsSeq(u) /\ Len(s) \in Nat /\ Len(u) = Len(s) + 1 /\ u[Len(s) + 1] = x
           /\ \A i \in 1 .. Len(s) : u[i] = s[i]
           /\ Range(u) = Range(s) \cup {x}
<1> DEFINE t == <<x>>
<1>1. IsSeq(t) /\ u = s \o t
  BY Single
<1>2. Len(t) = 1 /\ t[1] = x /\ Range(t) = {x}
  BY Single
<1> HIDE DEF t
<1>3. /\ IsSeq(u) /\ Len(u) = Len(s) + Len(t) /\ Len(s) \in Nat
      /\ \A i \in 1 .. Len(s) : u[i] = s[i]
      /\ \A j \in 1 .. Len(t) : u[Len(s) + j] = t[j]
      /\ Range(u) = Range(s) \cup Range(t)
  <2>1. IsSeq(u) /\ Len(u) = Len(s) + Len(t)
    BY ONLY <1>1, IsSeq(s), Joint
  <2>2. Len(s) \in Nat
    BY RangeOf
  <2>3. \A i \in 1 .. Len(s) : u[i] = s[i]
    BY ONLY <1>1, IsSeq(s), Joint
  <2>4. \A j \in 1 .. Len(t) : u[Len(s) + j] = t[j]
    BY ONLY <1>1, IsSeq(s), Joint
  <2>5. Range(u) = Range(s) \cup Range(t)
    BY ONLY <1>1, IsSeq(s), Joint
  <2> QED
    BY <2>1, <2>2, <2>3, <2>4, <2>5
<1>4. u[Len(s) + 1] = x
  BY <1>2, <1>3
<1> QED
  BY <1>2, <1>3, <1>4

LEMMA FlattenedSteps ==
    ASSUME NEW n \in Nat, NEW ss, ss = [i \in 1 .. n |-> ss[i]],
           \A i \in 1 .. n : IsSeq(ss[i])
    PROVE  LET s == FlattenSeq(ss) IN
           /\ IsSeq(s)
           /\ \E off : Offsets(off, ss, n) /\ Placed(s, off, ss, n)
           /\ \A i \in 1 .. n : Range(ss[i]) \subseteq Range(s)
           /\ \A x \in Range(s) : \E i \in 1 .. n : x \in Range(ss[i])
<1> DEFINE S == UNION {Range(ss[i]) : i \in 1 .. n}
           s == FlattenSeq(ss)
<1>1. \A i \in 1 .. n : ss[i] \in Seq(S)
  <2> TAKE i \in 1 .. n
  <2> QED
    BY Widened
<1>2. ss \in Seq(Seq(S)) /\ Len(ss) = n
  <2>1. ss \in [1 .. n -> Seq(S)]
    BY <1>1
  <2>2. ss \in Seq(Seq(S))
    <3> DEFINE U == Seq(S)
    <3>1. ss \in [1 .. n -> U] /\ n \in Nat
      BY <2>1
    <3> HIDE DEF U
    <3>2. ss \in Seq(U)
      BY <3>1, SeqDef
    <3> QED
      BY <3>2 DEF U
  <2>3. DOMAIN ss = 1 .. n
    BY <2>1
  <2> QED
    BY <2>2, <2>3, LenProperties
<1>3. s \in Seq(S) /\ \E off : Offsets(off, ss, n) /\ Placed(s, off, ss, n)
  BY <1>2, Flattened
<1>4. PICK off : Offsets(off, ss, n) /\ Placed(s, off, ss, n)
  BY <1>3
<1>5. IsSeq(s)
  BY <1>3, Narrowed
<1> HIDE DEF s, S
<1>6. /\ Len(s) \in Nat /\ DOMAIN s = 1 .. Len(s)
      /\ \A i \in 1 .. n : Len(ss[i]) \in Nat /\ DOMAIN ss[i] = 1 .. Len(ss[i])
  BY <1>5, RangeOf
<1>7. ASSUME NEW i \in 1 .. n, NEW x \in Range(ss[i]) PROVE x \in Range(s)
  <2>1. PICK j \in 1 .. Len(ss[i]) : x = ss[i][j]
    BY <1>6 DEF Range
  <2>2. s[off[i] + j] = x
    BY <1>4, <2>1 DEF Placed
  <2>3. /\ off[i] \in Nat /\ off[n + 1] \in Nat /\ off[i] + Len(ss[i]) <= off[n + 1]
        /\ Len(s) = off[n + 1]
    <3>1. i < n + 1 /\ n + 1 \in 1 .. n + 1 /\ i \in 1 .. n + 1
      OBVIOUS
    <3> QED
      BY <1>4, <3>1 DEF Offsets, Placed
  <2>4. off[i] + j \in 1 .. Len(s)
    <3> DEFINE y == Len(ss[i])
               z == off[i]
    <3>1. y \in Nat /\ z \in Nat /\ Len(s) \in Nat /\ z + y <= Len(s) /\ j \in 1 .. y
      BY <1>6, <2>1, <2>3
    <3> HIDE DEF y, z
    <3>2. z + j \in 1 .. Len(s)
      BY <3>1
    <3> QED
      BY <3>2 DEF z
  <2> QED
    BY <1>6, <2>2, <2>4 DEF Range
<1>8. ASSUME NEW x \in Range(s) PROVE \E i \in 1 .. n : x \in Range(ss[i])
  <2>1. PICK k \in 1 .. Len(s) : x = s[k]
    BY <1>6 DEF Range
  <2>2. PICK i \in 1 .. n : \E j \in 1 .. Len(ss[i]) : k = off[i] + j
    BY <1>4 DEF Placed
  <2>3. PICK j \in 1 .. Len(ss[i]) : k = off[i] + j
    BY <2>2
  <2>4. s[k] = ss[i][j]
    BY <1>4, <2>3 DEF Placed
  <2> QED
    BY <1>6, <2>1, <2>4 DEF Range
<1> QED
  BY <1>4, <1>5, <1>7, <1>8 DEF s

-----------------------------------------------------------------------------
(* A table, and the database a statement is run on.                        *)
IsTable(x) == x = [cols |-> x.cols, id |-> x.id, fk |-> x.fk, indexed |-> x.indexed]

Database(d) ==
    /\ d = [tables |-> d.tables, copies |-> d.copies, stamp |-> d.stamp, rows |-> d.rows]
    /\ d.tables = [t \in DOMAIN d.tables |-> d.tables[t]]
    /\ DOMAIN d.tables \subseteq Names \cup {Kept}
    /\ \A t \in DOMAIN d.tables : IsTable(d.tables[t])
    /\ d.copies \subseteq Names
    /\ d.stamp \in 0 .. HeadRevision
    /\ d.rows \in [Stores -> SUBSET Films]

(* The tables that a later revision than the one that makes them alters.   *)
Early == {"movies", "users", "force_sub_channels", "media_sources", "admin_users",
          "action_logs"}

(* Statements of an upgrade, a downgrade and a start.                      *)
UpOp(op) ==
    /\ op.table \in Names /\ op.gone = {}
    /\ op.do \in {"create", "index", "add", "makeCopy", "fillCopy", "swap"}
    /\ op.do = "create" => op.cols = {} /\ IsTable(op.as)
    /\ op.do # "create" => op.as.cols = {} /\ op.table \in Early
    /\ op.do \notin {"add", "swap"} => op.cols = {}
    /\ op.table = "movies" => op.cols \cup op.as.cols \subseteq Models["movies"].cols

DownOp(op) ==
    /\ op.table \in Names /\ op.cols = {}
    /\ op.do \in {"drop", "dropIndex", "makeCopy", "fillCopy", "swap"}

CreateOp(op) ==
    \/ op.do = "create" /\ op.table \in Names /\ op.as = Models[op.table]
    \/ op.do = "index" /\ op.table = "movies"

BootOp(op) ==
    \/ CreateOp(op)
    \/ op.do \in {"setAside", "carryOver"}
    \/ op.do \in {"drop", "dropIndex"} /\ op.table = Kept

StampOp(op) == op.rev \in 0 .. HeadRevision /\ op = Stamp(op.rev)

Step(what, op) ==
    \/ op = Commit
    \/ what = "upgrade" /\ (UpOp(op) \/ StampOp(op))
    \/ what = "downgrade" /\ (DownOp(op) \/ StampOp(op))
    \/ what = "boot" /\ BootOp(op)

MakesMovies(op) == op.do = "create" /\ op.table = "movies"
DropsKept(op)   == op.do = "drop" /\ op.table = Kept
DropsMovies(op) == op.do = "drop" /\ op.table = "movies"

(* A copy takes the table's place as soon as it is filled.                 *)
CopiesSwapped(s) ==
    \A i \in 1 .. Len(s) : s[i].do = "fillCopy" =>
        i < Len(s) /\ s[i + 1].do = "swap" /\ s[i + 1].table = s[i].table

(* The order of a rebuild: once, and the old table goes right after its    *)
(* rows were carried over.                                                 *)
InTurn(s) ==
    \A i \in 1 .. Len(s) :
        /\ s[i].do = "setAside" =>
              /\ \E j \in i + 1 .. Len(s) : MakesMovies(s[j])
              /\ \A j \in i + 1 .. Len(s) : s[j].do # "setAside"
        /\ s[i].do = "carryOver" =>
              /\ i < Len(s) /\ DropsKept(s[i + 1])
              /\ \A j \in i + 1 .. Len(s) : s[j].do \notin {"setAside", "carryOver"}
        /\ DropsKept(s[i]) =>
              /\ i # 1 => s[i - 1].do = "carryOver"
              /\ \A j \in i + 1 .. Len(s) : s[j].do # "setAside" /\ ~ MakesMovies(s[j])

(* movies goes in a downgrade before a transaction has begun.              *)
DropsFirst(s) ==
    \A i, j \in 1 .. Len(s) : i < j /\ DropsMovies(s[j]) => s[i].do \notin Writes

(* movies is made by the first revision, before any version is written.    *)
MadeFirst(s) ==
    \A i, j \in 1 .. Len(s) : i < j /\ MakesMovies(s[j]) => s[i].do # "stamp"

Ahead == Range(todo)

ProgramOK ==
    /\ Busy => /\ IsSeq(todo) /\ todo # <<>> /\ todo[Len(todo)] = Commit
               /\ \A op \in Ahead : Step(phase, op)
               /\ CopiesSwapped(todo) /\ InTurn(todo) /\ MadeFirst(todo)
    /\ ~ Busy => todo = <<>> /\ work = db /\ open = FALSE
    /\ (\E op \in Ahead : op.do = "setAside") => Has(work, "movies")

RowsOK ==
    /\ added = work.rows["movies"] \cup work.rows[Kept]
    /\ added = db.rows["movies"] \cup db.rows[Kept]
    /\ db.rows["movies"] \cap db.rows[Kept] = {} /\ db.rows["copy"] = {}
    /\ IF todo # <<>> /\ DropsKept(Now) THEN open /\ work.rows["movies"] = work.rows[Kept]
       ELSE work.rows["movies"] \cap work.rows[Kept] = {}
    /\ \/ todo # <<>> /\ Now.do = "swap" /\ Now.table = "movies" /\ open
       \/ work.rows["copy"] = {}
    /\ \A d \in {db, work} : Has(d, Kept) \/ d.rows[Kept] = {}
    /\ (\E op \in Ahead : op.do = "carryOver") /\ (\A op \in Ahead : op.do # "setAside")
           => work.rows["movies"] = {}
    /\ (\E op \in Ahead : DropsMovies(op)) => ~ open /\ DropsFirst(todo)

(* On PostgreSQL the second revision adds a column of a type that nothing  *)
(* creates, and the models give an enum a default that is not a label of   *)
(* its type: neither alembic nor the bot ever commits anything.            *)
Refused(op) == (op.do = "swap" /\ TypeMissing(op.cols)) \/ (op.do = "create" /\ BadDefault(op))
Doomed(s)   == \E p \in 1 .. Len(s) : Refused(s[p]) /\ \A q \in 1 .. p : s[q].do # "commit"

PgOK == backend = "postgresql" =>
    /\ db = Untouched /\ phase \in {"down", "upgrade", "boot"}
    /\ Busy => Doomed(todo)

AsModelled(d, t) == Models[t].cols \subseteq d.tables[t].cols /\ d.tables[t].id # "bigint"

UsableOK == ~ manual =>
    /\ phase \in {"down", "boot", "up"} /\ db.stamp = 0 /\ work.stamp = 0
    /\ \A d \in {db, work} : \A t \in Names : Has(d, t) => AsModelled(d, t)
    /\ phase = "boot" => \A t \in Names :
          \/ Has(work, t) /\ (t = "movies" => \A op \in Ahead : op.do # "setAside")
          \/ \E op \in Ahead : op.do = "create" /\ op.table = t
    /\ phase = "up" => \A t \in Names : Has(db, t)

Promised(r)    == AtRevision[r].tables
Holds(d, t, c) == Has(d, t) /\ c \in d.tables[t].cols
Aside(d, t, c) == t = "movies" /\ ~ Has(d, t) /\ Has(d, Kept) /\ c \in d.tables[Kept].cols
Shows(d, t, c) == Holds(d, t, c) \/ Aside(d, t, c)
Covers(d, r)   ==
    \A t \in DOMAIN Promised(r) : \A c \in Promised(r)[t].cols : Shows(d, t, c)
Gives(op, t, c) == op.table = t /\ c \in op.cols \cup op.as.cols
Takes(op, r)    ==
    /\ op.table \in DOMAIN Promised(r)
    /\ \/ op.do = "drop"
       \/ op.do = "swap" /\ op.gone \cap Promised(r)[op.table].cols # {}

(* A version is written when the tables show what it promises, but for the *)
(* columns that the statements before it give.                             *)
Foreseen(d, s, k, t, c) ==
    \/ Holds(d, t, c)
    \/ Aside(d, t, c) /\ \A op \in Range(s) : ~ MakesMovies(op)
    \/ \E j \in 1 .. k - 1 : Gives(s[j], t, c)

Truthful(d, s) ==
    \A k \in 1 .. Len(s) : s[k].do = "stamp" =>
        \A t \in DOMAIN Promised(s[k].rev) : \A c \in Promised(s[k].rev)[t].cols :
            Foreseen(d, s, k, t, c)

StampOK == ~ cut =>
    /\ phase # "downgrade" => Covers(db, db.stamp) /\ Covers(work, work.stamp)
    /\ phase = "upgrade" =>
          Truthful(work, todo) /\ ((\E op \in Ahead : MakesMovies(op)) => work.stamp = 0)
    /\ phase = "downgrade" => \E s \in 0 .. HeadRevision :
          /\ Covers(work, s)
          /\ \A op \in Ahead : ~ Takes(op, s) /\ (op.do = "stamp" => op.rev = s)
          /\ work.stamp = s \/ \E op \in Ahead : op.do = "stamp"
    /\ phase = "boot" /\ (\E op \in Ahead : DropsKept(op))
          /\ (\A op \in Ahead : op.do # "setAside" /\ ~ MakesMovies(op))
       => Has(work, "movies") /\ Models["movies"].cols \subseteq work.tables["movies"].cols

-----------------------------------------------------------------------------
(* Tables and statements.                                                  *)
LEMMA NamesAre ==
    Names = {"action_logs", "ad_campaigns", "admin_login_attempts", "admin_sessions",
         "admin_users", "backup_records", "blacklist_entries", "bot_settings",
         "broadcast_failed_users", "broadcasts", "discovered_chats", "force_sub_channels",
         "force_sub_confirmations", "media_collections", "media_sources", "movies",
         "payment_requests", "premium_history", "referral_rewards", "reserved_codes",
         "search_logs", "support_messages", "system_logs", "users", "whitelist_entries"}
BY DEF Names, Models

LEMMA KeptIsNoName == Kept \notin Names /\ "" \notin Names /\ "movies" \in Names
BY NamesAre DEF Kept

LEMMA HeadIs == HeadRevision = 5
BY DEF HeadRevision, Upgrades

LEMMA TableIs ==
    ASSUME NEW cols, NEW id, NEW fk
    PROVE  /\ IsTable(Table(cols, id, fk)) /\ Table(cols, id, fk).cols = cols
           /\ Table(cols, id, fk).id = id /\ Table(cols, id, fk).fk = fk
BY DEF Table, IsTable

LEMMA ModelledIs ==
    ASSUME NEW cols
    PROVE  /\ IsTable(Modelled(cols)) /\ Modelled(cols).id = "rowid"
           /\ Modelled(cols).cols = cols \cup {"id"} \cup Stamps
<1> DEFINE all == cols \cup {"id"} \cup Stamps
           x   == Table(all, "rowid", FALSE)
<1>1. Modelled(cols) = x
  BY DEF Modelled
<1>2. IsTable(x) /\ x.cols = all /\ x.id = "rowid"
  <2> HIDE DEF all
  <2> QED
    BY DEF Table, IsTable
<1> HIDE DEF x
<1> QED
  BY <1>1, <1>2

LEMMA ModelsAre ==
    /\ \A t \in Names : IsTable(Models[t]) /\ Models[t].id # "bigint"
    /\ Models["movies"].cols = Movie \cup {"id"} \cup Stamps
<1>1. ASSUME NEW t \in Names, t \notin {"search_logs", "users"}
      PROVE  \E cols : Models[t] = Modelled(cols)
  BY <1>1, NamesAre DEF Models
<1>2. /\ Models["search_logs"] = Table(SearchLog \cup {"id"}, "rowid", FALSE)
      /\ Models["users"] = Table(User \cup Stamps, "none", FALSE)
      /\ Models["movies"] = Modelled(Movie)
  BY DEF Models
<1>3. \A t \in {"search_logs", "users"} : IsTable(Models[t]) /\ Models[t].id # "bigint"
  BY <1>2 DEF Table, IsTable
<1>4. \A t \in Names \ {"search_logs", "users"} : IsTable(Models[t]) /\ Models[t].id # "bigint"
  <2> TAKE t \in Names \ {"search_logs", "users"}
  <2>1. PICK cols : Models[t] = Modelled(cols)
    BY <1>1
  <2> QED
    BY <2>1, ModelledIs
<1> QED
  BY <1>2, <1>3, <1>4, ModelledIs

LEMMA OpIs ==
    ASSUME NEW do, NEW t, NEW cols, NEW gone
    PROVE  LET op == Op(do, t, cols, gone) IN
           /\ op.do = do /\ op.table = t /\ op.cols = cols /\ op.gone = gone
           /\ op.as.cols = {} /\ op.rev = 0
BY DEF Op, Table

LEMMA CreateIs ==
    ASSUME NEW t, NEW as
    PROVE  LET op == CreateAs(t, as) IN
           /\ op.do = "create" /\ op.table = t /\ op.cols = {} /\ op.gone = {} /\ op.as = as
BY DEF CreateAs, Op

LEMMA StampIs ==
    ASSUME NEW r
    PROVE  /\ Stamp(r).do = "stamp" /\ Stamp(r).rev = r
           /\ Stamp(r).table = "" /\ Stamp(r).cols = {} /\ Stamp(r).as.cols = {}
BY DEF Stamp, Op, Table

LEMMA CommitIs ==
    /\ Commit.do = "commit" /\ Commit.table = "" /\ Commit.cols = {} /\ Commit.as.cols = {}
BY DEF Commit, Op, Table

-----------------------------------------------------------------------------
(* What a revision makes, its downgrade takes back: the tables it creates  *)
(* and the columns it adds to earlier ones.                                *)
MadeBy(r) ==
    CASE r = 1 -> {"action_logs", "broadcast_failed_users", "broadcasts",
                   "force_sub_channels", "movies", "media_sources", "admin_users", "users"}
      [] r = 2 -> {"reserved_codes", "force_sub_confirmations"}
      [] r = 3 -> {"support_messages", "search_logs"}
      [] r = 4 -> {"referral_rewards", "premium_history", "ad_campaigns", "backup_records",
                   "system_logs", "admin_sessions", "admin_login_attempts",
                   "whitelist_entries", "blacklist_entries", "media_collections",
                   "bot_settings"}
      [] r = 5 -> {"discovered_chats"}

AddedBy(r, t) ==
    CASE r = 2 /\ t = "force_sub_channels" ->
           {"is_mandatory", "instructions", "url", "platform"}
      [] r = 2 /\ t = "users" ->
           {"is_verified", "last_known_client_hint", "admin_remarks", "notes",
            "warnings_count", "spam_score", "start_count"}
      [] r = 2 /\ t = "movies" ->
           {"source_message_id", "last_verified_at", "is_broken", "visibility"}
      [] r = 3 /\ t = "action_logs" -> {"context"}
      [] r = 3 /\ t = "media_sources" -> {"category"}
      [] r = 3 /\ t = "movies" ->
           {"director", "actor", "thumbnail_file_id", "resolution", "file_size_bytes",
            "part_number", "episode_number", "season_number", "series_title",
            "collection_type"}
      [] r = 4 /\ t = "admin_users" ->
           {"two_factor_enabled", "two_factor_secret", "login_pin_hash"}
      [] r = 4 /\ t = "movies" -> {"collection_id"}
      [] OTHER -> {}

KeyOf(t) == IF t = "users" THEN "none" ELSE "bigint"

UpgradeOp(r, op) ==
    /\ UpOp(op)
    /\ op.do = "create" => op.as.id = KeyOf(op.table) /\ op.as.fk = (op.table = "movies")
    /\ op.do = "create" => /\ op.table \in MadeBy(r) /\ "created_at" \in op.as.cols
                           /\ \A q \in 1 .. 5 : op.as.cols \cap AddedBy(q, op.table) = {}
    /\ op.do # "create" => op.cols \subseteq AddedBy(r, op.table)

DowngradeOp(r, op) ==
    /\ DownOp(op)
    /\ op.do = "drop" => op.table \in MadeBy(r)
    /\ op.do = "swap" => op.gone \subseteq AddedBy(r, op.table)

UpPiece(r, s)   == IsSeq(s) /\ CopiesSwapped(s) /\ \A op \in Range(s) : UpgradeOp(r, op)
DownPiece(r, s) == IsSeq(s) /\ CopiesSwapped(s) /\ \A op \in Range(s) : DowngradeOp(r, op)

LEMMA MadeOnce ==
    \A q, r \in 1 .. 5 :
        /\ MadeBy(r) \subseteq Names
        /\ q # r => MadeBy(q) \cap MadeBy(r) = {}
        /\ "movies" \in MadeBy(r) <=> r = 1
<1>1. \A r \in 1 .. 5 : r \in {1, 2, 3, 4, 5}
  OBVIOUS
<1>2. \A r \in 1 .. 5 : MadeBy(r) \subseteq Names /\ ("movies" \in MadeBy(r) <=> r = 1)
  BY <1>1, NamesAre DEF MadeBy
<1>3. ASSUME NEW q \in 1 .. 5, NEW r \in 1 .. 5, q # r PROVE MadeBy(q) \cap MadeBy(r) = {}
  <2>1. SUFFICES ASSUME NEW t \in MadeBy(q), t \in MadeBy(r) PROVE FALSE
    OBVIOUS
  <2>2. q \in {1, 2, 3, 4, 5} /\ r \in {1, 2, 3, 4, 5}
    BY <1>1
  <2>3. CASE q = 1
    BY <1>3, <2>1, <2>2, <2>3 DEF MadeBy
  <2>4. CASE q = 2
    BY <1>3, <2>1, <2>2, <2>4 DEF MadeBy
  <2>5. CASE q = 3
    BY <1>3, <2>1, <2>2, <2>5 DEF MadeBy
  <2>6. CASE q = 4
    BY <1>3, <2>1, <2>2, <2>6 DEF MadeBy
  <2>7. CASE q = 5
    BY <1>3, <2>1, <2>2, <2>7 DEF MadeBy
  <2> QED
    BY <2>2, <2>3, <2>4, <2>5, <2>6, <2>7
<1> QED
  BY <1>2, <1>3

LEMMA AddedOnce ==
    ASSUME NEW q \in 1 .. 5, NEW r \in 1 .. 5, q # r, NEW t
    PROVE  AddedBy(q, t) \cap AddedBy(r, t) = {}
<1>1. SUFFICES ASSUME NEW c \in AddedBy(q, t), c \in AddedBy(r, t) PROVE FALSE
  OBVIOUS
<1>2. q \in {1, 2, 3, 4, 5} /\ r \in {1, 2, 3, 4, 5}
  OBVIOUS
<1>3. t = "movies"
  BY <1>1, <1>2 DEF AddedBy
<1>4. CASE q = 2
  BY <1>1, <1>2, <1>3, <1>4 DEF AddedBy
<1>5. CASE q = 3
  BY <1>1, <1>2, <1>3, <1>5 DEF AddedBy
<1>6. CASE q = 4
  BY <1>1, <1>2, <1>3, <1>6 DEF AddedBy
<1> QED
  BY <1>1, <1>2, <1>4, <1>5, <1>6 DEF AddedBy

LEMMA AddedWhere ==
    ASSUME NEW r \in 1 .. 5, NEW t
    PROVE  /\ t \notin Early => AddedBy(r, t) = {}
           /\ AddedBy(r, "movies") \subseteq Models["movies"].cols
<1>1. r \in {1, 2, 3, 4, 5}
  OBVIOUS
<1>2. t \notin Early => AddedBy(r, t) = {}
  BY <1>1 DEF AddedBy, Early
<1>3. AddedBy(r, "movies") \subseteq Movie
  BY <1>1 DEF AddedBy, Movie
<1> QED
  BY <1>2, <1>3, ModelsAre

(* The statements of one operation of alembic, and of several.             *)
LEMMA CopiesJoin ==
    ASSUME NEW s, IsSeq(s), CopiesSwapped(s), NEW t, IsSeq(t), CopiesSwapped(t)
    PROVE  CopiesSwapped(s \o t)
<1> DEFINE m == Len(s)
           n == Len(t)
           u == s \o t
<1>1. /\ m \in Nat /\ n \in Nat /\ Len(u) = m + n
      /\ \A i \in 1 .. m : u[i] = s[i]
      /\ \A j \in 1 .. n : u[m + j] = t[j]
      /\ \A i \in 1 .. Len(u) : i \in 1 .. m \/ \E j \in 1 .. n : i = m + j
  BY Joined
<1>2. ASSUME NEW i \in 1 .. Len(u), u[i].do = "fillCopy"
      PROVE  i < Len(u) /\ u[i + 1].do = "swap" /\ u[i + 1].table = u[i].table
  <2>1. CASE i \in 1 .. m
    <3>1. i < m /\ s[i + 1].do = "swap" /\ s[i + 1].table = s[i].table
      BY <1>1, <1>2, <2>1 DEF CopiesSwapped
    <3>2. i + 1 \in 1 .. m
      BY <1>1, <2>1, <3>1
    <3> HIDE DEF m, u
    <3> QED
      BY <1>1, <2>1, <3>1, <3>2
  <2>2. CASE \E j \in 1 .. n : i = m + j
    <3>1. PICK j \in 1 .. n : i = m + j
      BY <2>2
    <3>2. t[j].do = "fillCopy"
      BY <1>1, <1>2, <3>1
    <3>3. j < n /\ t[j + 1].do = "swap" /\ t[j + 1].table = t[j].table
      BY <3>2 DEF CopiesSwapped
    <3> HIDE DEF m, n, u
    <3>4. j + 1 \in 1 .. n /\ i + 1 = m + (j + 1) /\ i < m + n
      BY <1>1, <3>1, <3>3
    <3> QED
      BY <1>1, <3>1, <3>3, <3>4
  <2> QED
    BY <1>1, <2>1, <2>2
<1> QED
  BY <1>2 DEF CopiesSwapped

LEMMA UpJoin ==
    ASSUME NEW r, NEW s, UpPiece(r, s), NEW t, UpPiece(r, t)
    PROVE  UpPiece(r, s \o t)
<1>1. IsSeq(s \o t) /\ Range(s \o t) = Range(s) \cup Range(t)
  BY Joined DEF UpPiece
<1>2. CopiesSwapped(s \o t)
  BY CopiesJoin DEF UpPiece
<1> QED
  BY <1>1, <1>2 DEF UpPiece

LEMMA DownJoin ==
    ASSUME NEW r, NEW s, DownPiece(r, s), NEW t, DownPiece(r, t)
    PROVE  DownPiece(r, s \o t)
<1>1. IsSeq(s \o t) /\ Range(s \o t) = Range(s) \cup Range(t)
  BY Joined DEF DownPiece
<1>2. CopiesSwapped(s \o t)
  BY CopiesJoin DEF DownPiece
<1> QED
  BY <1>1, <1>2 DEF DownPiece

LEMMA OneStep ==
    ASSUME NEW op, op.do # "fillCopy"
    PROVE  IsSeq(<<op>>) /\ CopiesSwapped(<<op>>) /\ Range(<<op>>) = {op}
<1>1. IsSeq(<<op>>) /\ Len(<<op>>) = 1 /\ <<op>>[1] = op /\ Range(<<op>>) = {op}
  BY Single
<1>2. \A i \in 1 .. Len(<<op>>) : <<op>>[i] = op
  BY <1>1
<1> QED
  BY <1>1, <1>2 DEF CopiesSwapped

LEMMA Nothing ==
    IsSeq(<<>>) /\ Len(<<>>) = 0 /\ Range(<<>>) = {} /\ CopiesSwapped(<<>>)
<1>1. IsSeq(<<>>) /\ Len(<<>>) = 0 /\ Range(<<>>) = {}
  <2>1. <<>> \in Seq({}) /\ Len(<<>>) = 0 /\ DOMAIN <<>> = {}
    OBVIOUS
  <2> QED
    BY <2>1, Narrowed DEF Range
<1>2. \A i \in 1 .. Len(<<>>) : FALSE
  BY <1>1
<1> QED
  BY <1>1, <1>2 DEF CopiesSwapped

LEMMA CreateAsPiece ==
    ASSUME NEW r \in 1 .. 5, NEW t \in MadeBy(r), NEW as, IsTable(as),
           "created_at" \in as.cols, as.id = KeyOf(t), as.fk = (t = "movies"),
           \A q \in 1 .. 5 : as.cols \cap AddedBy(q, t) = {},
           t = "movies" => as.cols \subseteq Models["movies"].cols
    PROVE  UpPiece(r, <<CreateAs(t, as)>>)
<1> DEFINE op == CreateAs(t, as)
<1>1. op.do = "create" /\ op.table = t /\ op.cols = {} /\ op.gone = {} /\ op.as = as
  BY DEF CreateAs, Op
<1>2. t \in Names
  BY MadeOnce
<1> HIDE DEF op
<1>3. UpgradeOp(r, op)
  BY <1>1, <1>2 DEF UpgradeOp, UpOp
<1>4. IsSeq(<<op>>) /\ CopiesSwapped(<<op>>) /\ Range(<<op>>) = {op}
  BY <1>1, OneStep
<1> QED
  BY <1>3, <1>4 DEF UpPiece, op

LEMMA CreatePiece ==
    ASSUME NEW r \in 1 .. 5, NEW t \in MadeBy(r), NEW cols,
           \A q \in 1 .. 5 : (cols \cup {"id"} \cup Stamps) \cap AddedBy(q, t) = {},
           t # "movies", t # "users"
    PROVE  UpPiece(r, Create(t, cols))
<1> DEFINE as == Table(cols \cup {"id"} \cup Stamps, "bigint", FALSE)
<1>1. IsTable(as) /\ as.cols = cols \cup {"id"} \cup Stamps /\ "created_at" \in as.cols
  <2>1. "created_at" \in Stamps
    BY DEF Stamps
  <2>2. IsTable(as) /\ as.cols = cols \cup {"id"} \cup Stamps
    BY DEF Table, IsTable
  <2> HIDE DEF as
  <2> QED
    BY <2>1, <2>2
<1>3. as.id = KeyOf(t) /\ as.fk = (t = "movies")
  BY DEF KeyOf, Table
<1> HIDE DEF as
<1>2. UpPiece(r, <<CreateAs(t, as)>>)
  BY <1>1, <1>3, CreateAsPiece
<1> QED
  BY <1>2 DEF as, Create

LEMMA CreateLatePiece ==
    ASSUME NEW r \in 1 .. 5, NEW t \in MadeBy(r) \ Early, NEW cols
    PROVE  UpPiece(r, Create(t, cols))
<1>1. t # "movies" /\ t # "users"
  BY DEF Early
<1>2. \A q \in 1 .. 5 : AddedBy(q, t) = {}
  BY AddedWhere
<1> QED
  BY <1>1, <1>2, CreatePiece

LEMMA AddPiece ==
    ASSUME NEW r \in 1 .. 5, NEW t \in Early \cap Names, NEW cols \in SUBSET AddedBy(r, t)
    PROVE  UpPiece(r, AddColumns(t, cols))
<1> DEFINE op == Op("add", t, cols, {})
<1>1. op.do = "add" /\ op.table = t /\ op.cols = cols /\ op.gone = {} /\ op.as.cols = {}
  BY OpIs
<1> HIDE DEF op
<1>2. t = "movies" => cols \subseteq Models["movies"].cols
  BY AddedWhere
<1>3. UpgradeOp(r, op)
  BY <1>1, <1>2 DEF UpgradeOp, UpOp
<1>4. IsSeq(<<op>>) /\ CopiesSwapped(<<op>>) /\ Range(<<op>>) = {op}
  BY <1>1, OneStep
<1> QED
  BY <1>3, <1>4 DEF UpPiece, op, AddColumns

LEMMA RecreateSteps ==
    ASSUME NEW t, NEW cols, NEW gone
    PROVE  LET s == Recreate(t, cols, gone) IN
           /\ IsSeq(s) /\ CopiesSwapped(s)
           /\ \A op \in Range(s) :
                 /\ op.table = t /\ op.as.cols = {}
                 /\ \/ op.do \in {"makeCopy", "fillCopy"} /\ op.cols = {} /\ op.gone = {}
                    \/ op.do = "swap" /\ op.cols = cols /\ op.gone = gone
           /\ Op("swap", t, cols, gone) \in Range(s)
<1> DEFINE a == Op("makeCopy", t, {}, {})
           b == Op("fillCopy", t, {}, {})
           c == Op("swap", t, cols, gone)
<1>1. a.do = "makeCopy" /\ a.table = t /\ a.cols = {} /\ a.gone = {} /\ a.as.cols = {}
  BY OpIs
<1>2. b.do = "fillCopy" /\ b.table = t /\ b.cols = {} /\ b.gone = {} /\ b.as.cols = {}
  BY OpIs
<1>3. c.do = "swap" /\ c.table = t /\ c.cols = cols /\ c.gone = gone /\ c.as.cols = {}
  BY OpIs
<1>4. Recreate(t, cols, gone) = <<a, b, c>>
  BY DEF Recreate
<1> HIDE DEF a, b, c
<1> DEFINE s == <<a, b, c>>
<1>5. s \in Seq({a, b, c}) /\ Len(s) = 3 /\ s[1] = a /\ s[2] = b /\ s[3] = c
  OBVIOUS
<1>6. IsSeq(s)
  BY <1>5, Narrowed
<1>7. Range(s) = {a, b, c}
  BY <1>5 DEF Range
<1>8. CopiesSwapped(s)
  <2> HIDE DEF s
  <2>1. \A i \in 1 .. Len(s) : i = 1 \/ i = 2 \/ i = 3
    BY <1>5
  <2>2. s[1].do # "fillCopy" /\ s[3].do # "fillCopy" /\ s[2 + 1] = c /\ 2 < Len(s)
    BY <1>1, <1>3, <1>5
  <2> QED
    BY <1>2, <1>3, <1>5, <2>1, <2>2 DEF CopiesSwapped
<1> HIDE DEF s
<1>9. \A op \in {a, b, c} :
         /\ op.table = t /\ op.as.cols = {}
         /\ \/ op.do \in {"makeCopy", "fillCopy"} /\ op.cols = {} /\ op.gone = {}
            \/ op.do = "swap" /\ op.cols = cols /\ op.gone = gone
  BY <1>1, <1>2, <1>3
<1> QED
  BY <1>4, <1>6, <1>7, <1>8, <1>9 DEF s, c

LEMMA RecreatePiece ==
    ASSUME NEW r \in 1 .. 5, NEW t \in Early \cap Names, NEW cols \in SUBSET AddedBy(r, t)
    PROVE  UpPiece(r, Recreate(t, cols, {}))
<1> DEFINE s == Recreate(t, cols, {})
<1>1. /\ IsSeq(s) /\ CopiesSwapped(s)
      /\ \A op \in Range(s) :
            /\ op.table = t /\ op.as.cols = {}
            /\ \/ op.do \in {"makeCopy", "fillCopy"} /\ op.cols = {} /\ op.gone = {}
               \/ op.do = "swap" /\ op.cols = cols /\ op.gone = {}
  BY RecreateSteps
<1> HIDE DEF s
<1>2. t = "movies" => cols \subseteq Models["movies"].cols
  BY AddedWhere
<1>3. \A op \in Range(s) : UpgradeOp(r, op)
  BY <1>1, <1>2 DEF UpgradeOp, UpOp
<1> QED
  BY <1>1, <1>3 DEF UpPiece, s

LEMMA TakePiece ==
    ASSUME NEW r \in 1 .. 5, NEW t \in Names, NEW gone \in SUBSET AddedBy(r, t)
    PROVE  DownPiece(r, Recreate(t, {}, gone)) /\ DownPiece(r, DropColumns(t, gone))
<1> DEFINE s == Recreate(t, {}, gone)
<1>1. /\ IsSeq(s) /\ CopiesSwapped(s)
      /\ \A op \in Range(s) :
            /\ op.table = t /\ op.as.cols = {}
            /\ \/ op.do \in {"makeCopy", "fillCopy"} /\ op.cols = {} /\ op.gone = {}
               \/ op.do = "swap" /\ op.cols = {} /\ op.gone = gone
  BY RecreateSteps
<1>2. DropColumns(t, gone) = s
  BY DEF DropColumns
<1> HIDE DEF s
<1>3. \A op \in Range(s) : DowngradeOp(r, op)
  BY <1>1 DEF DowngradeOp, DownOp
<1>4. DownPiece(r, s)
  BY <1>1, <1>3 DEF DownPiece
<1> QED
  BY <1>2, <1>4 DEF s

LEMMA DropPiece ==
    ASSUME NEW r \in 1 .. 5, NEW t
    PROVE  /\ t \in MadeBy(r) => DownPiece(r, DropTable(t))
           /\ t \in Names => DownPiece(r, DropIndex(t))
<1> DEFINE a == Op("drop", t, {}, {})
           b == Op("dropIndex", t, {}, {})
<1>1. a.do = "drop" /\ a.table = t /\ a.cols = {} /\ a.gone = {} /\ a.as.cols = {}
  BY OpIs
<1>2. b.do = "dropIndex" /\ b.table = t /\ b.cols = {} /\ b.gone = {} /\ b.as.cols = {}
  BY OpIs
<1>3. DropTable(t) = <<a>> /\ DropIndex(t) = <<b>>
  BY DEF DropTable, DropIndex
<1> HIDE DEF a, b
<1>4. MadeBy(r) \subseteq Names
  BY MadeOnce
<1>5. t \in MadeBy(r) => DowngradeOp(r, a)
  BY <1>1, <1>4 DEF DowngradeOp, DownOp
<1>6. t \in Names => DowngradeOp(r, b)
  BY <1>2 DEF DowngradeOp, DownOp
<1>7. /\ IsSeq(<<a>>) /\ CopiesSwapped(<<a>>) /\ Range(<<a>>) = {a}
      /\ IsSeq(<<b>>) /\ CopiesSwapped(<<b>>) /\ Range(<<b>>) = {b}
  BY <1>1, <1>2, OneStep
<1> QED
  BY <1>3, <1>5, <1>6, <1>7 DEF DownPiece

-----------------------------------------------------------------------------
(* The revisions.                                                          *)
LEMMA FirstUpgrade ==
    /\ UpPiece(1, Upgrade1)
    /\ \A t \in Early : \E op \in Range(Upgrade1) : op.do = "create" /\ op.table = t
<1> DEFINE p2 == Create("admin_users", {"telegram_id", "role", "added_by", "is_active"})
           p3 == Create("media_sources", {"chat_id", "title", "type", "priority", "is_active"})
           p5 == Index("movies")
           p6 == Create("force_sub_channels", {"chat_id", "chat_username", "title",
                     "invite_link", "position", "is_active", "added_by"})
           p7 == Create("broadcasts", {"admin_id", "content_type", "source_chat_id",
                     "source_message_id", "message_text", "reply_markup_json", "total_users",
                     "sent_count", "failed_count", "status", "started_at", "finished_at"})
           p8 == Create("broadcast_failed_users", {"broadcast_id", "telegram_id",
                     "error_message", "retried"})
           p9 == Create("action_logs", {"actor_id", "actor_role", "action", "entity_type",
                     "entity_id", "old_value", "new_value", "ip_address"})
<1>1. Upgrade1 = <<Users1>> \o p2 \o p3 \o <<Movies1>> \o p5 \o p6 \o p7 \o p8 \o p9
  BY DEF Upgrade1
<1>2. UpPiece(1, <<Users1>>)
  <2> DEFINE X  == {"telegram_id", "username", "first_name", "last_name",
                 "phone_number", "language_code", "is_banned", "ban_reason", "is_muted",
                 "is_premium", "premium_expires_at", "referred_by", "invite_count",
                 "movies_received_count", "searches_count", "joined_at", "last_active_at"}
                 \cup Stamps
             as == Table(X, "none", FALSE)
  <2>0. as.cols = X /\ "created_at" \in as.cols
    BY DEF Table, Stamps
  <2>1. \A q \in 1 .. 5 : as.cols \cap AddedBy(q, "users") = {}
    <3>1. \A q \in 1 .. 5 : X \cap AddedBy(q, "users") = {}
      BY DEF AddedBy, Stamps
    <3> QED
      BY <2>0, <3>1
  <2>2. IsTable(as) /\ Users1 = CreateAs("users", as)
    BY TableIs DEF Users1
  <2>4. as.id = KeyOf("users") /\ as.fk = ("users" = "movies")
    BY DEF KeyOf, Table
  <2>3. "users" \in MadeBy(1) /\ 1 \in 1 .. 5 /\ "users" # "movies"
    BY DEF MadeBy
  <2> HIDE DEF as
  <2> QED
    BY <2>0, <2>1, <2>2, <2>3, <2>4, CreateAsPiece
<1>3. UpPiece(1, <<Movies1>>)
  <2> DEFINE X  == {"id", "code", "title", "description", "telegram_file_id",
                 "media_type", "caption", "genre", "language", "country", "year", "quality",
                 "duration_minutes", "views_count", "downloads_count", "source_chat_id",
                 "added_by", "is_active"} \cup Stamps
             as == Table(X, "bigint", TRUE)
  <2>0. as.cols = X /\ "created_at" \in as.cols
    BY DEF Table, Stamps
  <2>1. \A q \in 1 .. 5 : as.cols \cap AddedBy(q, "movies") = {}
    <3>1. \A q \in 1 .. 5 : X \cap AddedBy(q, "movies") = {}
      BY DEF AddedBy, Stamps
    <3> QED
      BY <2>0, <3>1
  <2>2. IsTable(as) /\ Movies1 = CreateAs("movies", as)
    BY TableIs DEF Movies1
  <2>3. "movies" \in MadeBy(1) /\ 1 \in 1 .. 5
    BY DEF MadeBy
  <2>4. as.cols \subseteq Models["movies"].cols
    <3>1. X \subseteq Movie \cup {"id"} \cup Stamps
      BY DEF Movie
    <3> QED
      BY <2>0, <3>1, ModelsAre
  <2>5. as.id = KeyOf("movies") /\ as.fk = ("movies" = "movies")
    BY DEF KeyOf, Table
  <2> HIDE DEF as
  <2> QED
    BY <2>0, <2>1, <2>2, <2>3, <2>4, <2>5, CreateAsPiece
<1>4. /\ "admin_users" \in MadeBy(1) /\ "media_sources" \in MadeBy(1)
      /\ "force_sub_channels" \in MadeBy(1) /\ "action_logs" \in MadeBy(1)
      /\ "broadcasts" \in MadeBy(1) \ Early /\ "broadcast_failed_users" \in MadeBy(1) \ Early
      /\ 1 \in 1 .. 5
  BY DEF MadeBy, Early
<1>5. UpPiece(1, p2)
  <2>1. \A q \in 1 .. 5 : ({"telegram_id", "role", "added_by", "is_active"}
            \cup {"id"} \cup Stamps) \cap AddedBy(q, "admin_users") = {}
    BY DEF AddedBy, Stamps
  <2> QED
    BY <1>4, <2>1, CreatePiece
<1>6. UpPiece(1, p3)
  <2>1. \A q \in 1 .. 5 : ({"chat_id", "title", "type", "priority", "is_active"}
            \cup {"id"} \cup Stamps) \cap AddedBy(q, "media_sources") = {}
    BY DEF AddedBy, Stamps
  <2> QED
    BY <1>4, <2>1, CreatePiece
<1>7. UpPiece(1, p5)
  <2> DEFINE op == Op("index", "movies", {}, {})
  <2>1. op.do = "index" /\ op.table = "movies" /\ op.cols = {} /\ op.gone = {} /\ op.as.cols = {}
    BY OpIs
  <2>2. p5 = <<op>>
    BY DEF Index
  <2> HIDE DEF op
  <2>3. UpgradeOp(1, op)
    BY <2>1, KeptIsNoName DEF UpgradeOp, UpOp, Early
  <2>4. IsSeq(<<op>>) /\ CopiesSwapped(<<op>>) /\ Range(<<op>>) = {op}
    BY <2>1, OneStep
  <2> QED
    BY <2>2, <2>3, <2>4 DEF UpPiece
<1>8. UpPiece(1, p6)
  <2>1. \A q \in 1 .. 5 : ({"chat_id", "chat_username", "title", "invite_link", "position",
            "is_active", "added_by"} \cup {"id"} \cup Stamps)
            \cap AddedBy(q, "force_sub_channels") = {}
    BY DEF AddedBy, Stamps
  <2> QED
    BY <1>4, <2>1, CreatePiece
<1>9. UpPiece(1, p7) /\ UpPiece(1, p8)
  BY <1>4, CreateLatePiece
<1>10. UpPiece(1, p9)
  <2>1. \A q \in 1 .. 5 : ({"actor_id", "actor_role", "action", "entity_type",
            "entity_id", "old_value", "new_value", "ip_address"} \cup {"id"} \cup Stamps)
            \cap AddedBy(q, "action_logs") = {}
    BY DEF AddedBy, Stamps
  <2> QED
    BY <1>4, <2>1, CreatePiece
<1>11. /\ \E op \in Range(<<Users1>>) : op.do = "create" /\ op.table = "users"
       /\ \E op \in Range(<<Movies1>>) : op.do = "create" /\ op.table = "movies"
       /\ \E op \in Range(p2) : op.do = "create" /\ op.table = "admin_users"
       /\ \E op \in Range(p3) : op.do = "create" /\ op.table = "media_sources"
       /\ \E op \in Range(p6) : op.do = "create" /\ op.table = "force_sub_channels"
       /\ \E op \in Range(p9) : op.do = "create" /\ op.table = "action_logs"
  <2>1. ASSUME NEW t, NEW as
        PROVE  \E op \in Range(<<CreateAs(t, as)>>) : op.do = "create" /\ op.table = t
    <3>1. CreateAs(t, as).do = "create" /\ CreateAs(t, as).table = t
      BY DEF CreateAs, Op
    <3>2. CreateAs(t, as) \in Range(<<CreateAs(t, as)>>)
      BY Single
    <3> QED
      BY <3>1, <3>2
  <2> QED
    BY <2>1 DEF Users1, Movies1, Create
<1> HIDE DEF p2, p3, p5, p6, p7, p8, p9
<1> DEFINE q2 == <<Users1>> \o p2
           q3 == q2 \o p3
           q4 == q3 \o <<Movies1>>
           q5 == q4 \o p5
           q6 == q5 \o p6
           q7 == q6 \o p7
           q8 == q7 \o p8
           q9 == q8 \o p9
<1>12. UpPiece(1, q2) /\ Range(q2) = Range(<<Users1>>) \cup Range(p2)
  BY <1>2, <1>5, UpJoin, Joined DEF UpPiece
<1> HIDE DEF q2
<1>13. UpPiece(1, q3) /\ Range(q3) = Range(q2) \cup Range(p3)
  BY <1>12, <1>6, UpJoin, Joined DEF UpPiece
<1> HIDE DEF q3
<1>14. UpPiece(1, q4) /\ Range(q4) = Range(q3) \cup Range(<<Movies1>>)
  BY <1>13, <1>3, UpJoin, Joined DEF UpPiece
<1> HIDE DEF q4
<1>15. UpPiece(1, q5) /\ Range(q5) = Range(q4) \cup Range(p5)
  BY <1>14, <1>7, UpJoin, Joined DEF UpPiece
<1> HIDE DEF q5
<1>16. UpPiece(1, q6) /\ Range(q6) = Range(q5) \cup Range(p6)
  BY <1>15, <1>8, UpJoin, Joined DEF UpPiece
<1> HIDE DEF q6
<1>17. UpPiece(1, q7) /\ Range(q7) = Range(q6) \cup Range(p7)
  BY <1>16, <1>9, UpJoin, Joined DEF UpPiece
<1> HIDE DEF q7
<1>18. UpPiece(1, q8) /\ Range(q8) = Range(q7) \cup Range(p8)
  BY <1>17, <1>9, UpJoin, Joined DEF UpPiece
<1> HIDE DEF q8
<1>19. UpPiece(1, q9) /\ Range(q9) = Range(q8) \cup Range(p9)
  BY <1>18, <1>10, UpJoin, Joined DEF UpPiece
<1> HIDE DEF q9
<1>20. Upgrade1 = q9
  BY <1>1 DEF q2, q3, q4, q5, q6, q7, q8, q9
<1>21. \A t \in Early : \E op \in Range(q9) : op.do = "create" /\ op.table = t
  BY <1>11, <1>12, <1>13, <1>14, <1>15, <1>16, <1>17, <1>18, <1>19 DEF Early
<1> QED
  BY <1>19, <1>20, <1>21

LEMMA SecondUpgrade ==
    /\ UpPiece(2, Upgrade2)
    /\ \E op \in Range(Upgrade2) : op.do = "swap" /\ "visibility" \in op.cols
<1> DEFINE fresh == {"visibility", "is_broken", "last_verified_at", "source_message_id"}
           p1 == Recreate("movies", fresh, {})
           p2 == Recreate("users", {"start_count", "spam_score", "warnings_count", "notes",
                     "admin_remarks", "last_known_client_hint", "is_verified"}, {})
           p3 == Recreate("force_sub_channels", {"platform", "url", "instructions",
                     "is_mandatory"}, {})
           p4 == Create("force_sub_confirmations", {"user_id", "channel_id"})
           p5 == Create("reserved_codes", {"code", "reserved_by", "expires_at", "released"})
<1>1. Upgrade2 = p1 \o p2 \o p3 \o p4 \o p5
  BY DEF Upgrade2
<1>2. /\ "movies" \in Early \cap Names /\ "users" \in Early \cap Names
      /\ "force_sub_channels" \in Early \cap Names /\ 2 \in 1 .. 5
      /\ "force_sub_confirmations" \in MadeBy(2) \ Early
      /\ "reserved_codes" \in MadeBy(2) \ Early
  BY NamesAre DEF Early, MadeBy
<1>3. UpPiece(2, p1)
  <2>1. fresh \in SUBSET AddedBy(2, "movies")
    BY DEF AddedBy
  <2> QED
    BY <1>2, <2>1, RecreatePiece
<1>4. UpPiece(2, p2)
  <2>1. {"start_count", "spam_score", "warnings_count", "notes", "admin_remarks",
         "last_known_client_hint", "is_verified"} \in SUBSET AddedBy(2, "users")
    BY DEF AddedBy
  <2> QED
    BY <1>2, <2>1, RecreatePiece
<1>5. UpPiece(2, p3)
  <2>1. {"platform", "url", "instructions", "is_mandatory"}
            \in SUBSET AddedBy(2, "force_sub_channels")
    BY DEF AddedBy
  <2> QED
    BY <1>2, <2>1, RecreatePiece
<1>6. UpPiece(2, p4) /\ UpPiece(2, p5)
  BY <1>2, CreateLatePiece
<1>7. \E op \in Range(p1) : op.do = "swap" /\ "visibility" \in op.cols
  <2>1. Op("swap", "movies", fresh, {}) \in Range(p1)
    BY RecreateSteps
  <2>2. Op("swap", "movies", fresh, {}).do = "swap" /\ Op("swap", "movies", fresh, {}).cols = fresh
    BY DEF Op
  <2> QED
    BY <2>1, <2>2
<1> HIDE DEF p1, p2, p3, p4, p5
<1> DEFINE q2 == p1 \o p2
           q3 == q2 \o p3
           q4 == q3 \o p4
           q5 == q4 \o p5
<1>8. UpPiece(2, q2) /\ Range(q2) = Range(p1) \cup Range(p2)
  BY <1>3, <1>4, UpJoin, Joined DEF UpPiece
<1> HIDE DEF q2
<1>9. UpPiece(2, q3) /\ Range(q3) = Range(q2) \cup Range(p3)
  BY <1>8, <1>5, UpJoin, Joined DEF UpPiece
<1> HIDE DEF q3
<1>10. UpPiece(2, q4) /\ Range(q4) = Range(q3) \cup Range(p4)
  BY <1>9, <1>6, UpJoin, Joined DEF UpPiece
<1> HIDE DEF q4
<1>11. UpPiece(2, q5) /\ Range(q5) = Range(q4) \cup Range(p5)
  BY <1>10, <1>6, UpJoin, Joined DEF UpPiece
<1> HIDE DEF q5
<1>12. Upgrade2 = q5
  BY <1>1 DEF q2, q3, q4, q5
<1> QED
  BY <1>7, <1>8, <1>9, <1>10, <1>11, <1>12

LEMMA ThirdUpgrade == UpPiece(3, Upgrade3)
<1> DEFINE p1 == AddColumns("movies", {"collection_type", "series_title", "season_number",
                     "episode_number", "part_number", "file_size_bytes", "resolution",
                     "thumbnail_file_id", "actor", "director"})
           p2 == AddColumns("media_sources", {"category"})
           p3 == Recreate("admin_users", {}, {})
           p4 == AddColumns("action_logs", {"context"})
           as == Table({"id", "query_text", "query_type", "found", "user_id", "created_at"},
                       "bigint", FALSE)
           p5 == <<CreateAs("search_logs", as)>>
           p6 == Create("support_messages", {"user_id", "user_message", "admin_reply",
                     "replied_by", "status"})
<1>1. Upgrade3 = p1 \o p2 \o p3 \o p4 \o p5 \o p6
  BY DEF Upgrade3
<1>2. /\ "movies" \in Early \cap Names /\ "media_sources" \in Early \cap Names
      /\ "admin_users" \in Early \cap Names /\ "action_logs" \in Early \cap Names
      /\ "search_logs" \in MadeBy(3) \ Early /\ "support_messages" \in MadeBy(3) \ Early
      /\ "search_logs" # "movies" /\ 3 \in 1 .. 5
  BY NamesAre DEF Early, MadeBy
<1>3. UpPiece(3, p1)
  <2>1. {"collection_type", "series_title", "season_number", "episode_number",
         "part_number", "file_size_bytes", "resolution", "thumbnail_file_id", "actor",
         "director"} \in SUBSET AddedBy(3, "movies")
    BY DEF AddedBy
  <2> QED
    BY <1>2, <2>1, AddPiece
<1>4. UpPiece(3, p2) /\ UpPiece(3, p4)
  <2>1. /\ {"category"} \in SUBSET AddedBy(3, "media_sources")
        /\ {"context"} \in SUBSET AddedBy(3, "action_logs")
    BY DEF AddedBy
  <2> QED
    BY <1>2, <2>1, AddPiece
<1>5. UpPiece(3, p3)
  BY <1>2, RecreatePiece
<1>6. UpPiece(3, p5)
  <2>1. IsTable(as) /\ "created_at" \in as.cols
    <3>1. "created_at" \in as.cols
      BY DEF Table
    <3> QED
      BY <3>1, TableIs
  <2>2. \A q \in 1 .. 5 : AddedBy(q, "search_logs") = {}
    BY <1>2, AddedWhere
  <2>3. as.id = KeyOf("search_logs") /\ as.fk = ("search_logs" = "movies")
    BY DEF KeyOf, Table
  <2> HIDE DEF as
  <2> QED
    BY <1>2, <2>1, <2>2, <2>3, CreateAsPiece
<1>7. UpPiece(3, p6)
  BY <1>2, CreateLatePiece
<1> HIDE DEF p1, p2, p3, p4, p5, p6
<1> QED
  BY <1>1, <1>3, <1>4, <1>5, <1>6, <1>7, UpJoin

LEMMA FourthUpgrade == UpPiece(4, Upgrade4)
<1>1. /\ MadeBy(4) \cap Early = {} /\ 4 \in 1 .. 5
      /\ "movies" \in Early \cap Names /\ "admin_users" \in Early \cap Names
  BY NamesAre DEF MadeBy, Early
<1>2. \A t \in MadeBy(4) : \A cols : UpPiece(4, Create(t, cols))
  BY <1>1, CreateLatePiece
<1>3. UpPiece(4, AddColumns("movies", {"collection_id"}))
  <2>1. {"collection_id"} \in SUBSET AddedBy(4, "movies")
    BY DEF AddedBy
  <2> QED
    BY <1>1, <2>1, AddPiece
<1>4. UpPiece(4, Recreate("admin_users", {"login_pin_hash", "two_factor_secret",
                    "two_factor_enabled"}, {}))
  <2>1. {"login_pin_hash", "two_factor_secret", "two_factor_enabled"}
            \in SUBSET AddedBy(4, "admin_users")
    BY DEF AddedBy
  <2> QED
    BY <1>1, <2>1, RecreatePiece
<1>5. /\ "referral_rewards" \in MadeBy(4) /\ "premium_history" \in MadeBy(4)
      /\ "ad_campaigns" \in MadeBy(4) /\ "backup_records" \in MadeBy(4)
      /\ "system_logs" \in MadeBy(4) /\ "admin_sessions" \in MadeBy(4)
      /\ "admin_login_attempts" \in MadeBy(4) /\ "whitelist_entries" \in MadeBy(4)
      /\ "blacklist_entries" \in MadeBy(4) /\ "media_collections" \in MadeBy(4)
      /\ "bot_settings" \in MadeBy(4)
  BY DEF MadeBy
<1>6. UpPiece(4, Settings4)
  BY <1>2, <1>5 DEF Settings4
<1>7. UpPiece(4, Collections4)
  BY <1>2, <1>3, <1>5, UpJoin DEF Collections4
<1>8. UpPiece(4, Lists4)
  BY <1>2, <1>5, UpJoin DEF Lists4
<1>9. UpPiece(4, Login4)
  BY <1>2, <1>4, <1>5, UpJoin DEF Login4
<1>10. UpPiece(4, Records4)
  BY <1>2, <1>5, UpJoin DEF Records4
<1>11. UpPiece(4, Offers4)
  BY <1>2, <1>5, UpJoin DEF Offers4
<1> QED
  BY <1>6, <1>7, <1>8, <1>9, <1>10, <1>11, UpJoin DEF Upgrade4

LEMMA FifthUpgrade == UpPiece(5, Upgrade5)
<1>1. "discovered_chats" \in MadeBy(5) \ Early /\ 5 \in 1 .. 5
  BY DEF MadeBy, Early
<1> QED
  BY <1>1, CreateLatePiece DEF Upgrade5

LEMMA UpgradesAre ==
    /\ \A r \in 1 .. 5 : UpPiece(r, Upgrades[r])
    /\ \A t \in Early : \E op \in Range(Upgrades[1]) : op.do = "create" /\ op.table = t
    /\ \E op \in Range(Upgrades[2]) : op.do = "swap" /\ "visibility" \in op.cols
<1>1. /\ Upgrades[1] = Upgrade1 /\ Upgrades[2] = Upgrade2 /\ Upgrades[3] = Upgrade3
      /\ Upgrades[4] = Upgrade4 /\ Upgrades[5] = Upgrade5
  BY DEF Upgrades
<1>2. \A r \in 1 .. 5 : r = 1 \/ r = 2 \/ r = 3 \/ r = 4 \/ r = 5
  OBVIOUS
<1> QED
  BY <1>1, <1>2, FirstUpgrade, SecondUpgrade, ThirdUpgrade, FourthUpgrade, FifthUpgrade

LEMMA DowngradesAre == \A r \in 1 .. 5 : DownPiece(r, Downgrades[r])
<1>0. /\ \A r \in 1 .. 5 : \A t \in MadeBy(r) : DownPiece(r, DropTable(t))
      /\ \A r \in 1 .. 5 : \A t \in Names : DownPiece(r, DropIndex(t))
      /\ \A r \in 1 .. 5 : \A t \in Names : \A gone \in SUBSET AddedBy(r, t) :
            DownPiece(r, DropColumns(t, gone)) /\ DownPiece(r, Recreate(t, {}, gone))
  BY DropPiece, TakePiece
<1>1. DownPiece(1, Downgrade1)
  <2>1. /\ "action_logs" \in MadeBy(1) /\ "broadcast_failed_users" \in MadeBy(1)
        /\ "broadcasts" \in MadeBy(1) /\ "force_sub_channels" \in MadeBy(1)
        /\ "movies" \in MadeBy(1) /\ "media_sources" \in MadeBy(1)
        /\ "admin_users" \in MadeBy(1) /\ "users" \in MadeBy(1) /\ 1 \in 1 .. 5
    BY DEF MadeBy
  <2> QED
    BY <1>0, <2>1, DownJoin DEF Downgrade1
<1>2. DownPiece(2, Downgrade2)
  <2> DEFINE a == {"is_mandatory", "instructions", "url", "platform"}
             b == {"is_verified", "last_known_client_hint", "admin_remarks", "notes",
                   "warnings_count", "spam_score", "start_count"}
             c == {"source_message_id", "last_verified_at", "is_broken", "visibility"}
  <2>1. /\ "reserved_codes" \in MadeBy(2) /\ "force_sub_confirmations" \in MadeBy(2)
        /\ "users" \in Names /\ "movies" \in Names /\ "force_sub_channels" \in Names
        /\ 2 \in 1 .. 5
    BY NamesAre DEF MadeBy
  <2>2. /\ a \in SUBSET AddedBy(2, "force_sub_channels")
        /\ b \in SUBSET AddedBy(2, "users") /\ c \in SUBSET AddedBy(2, "movies")
    BY DEF AddedBy
  <2>3. Downgrade2 = DropTable("reserved_codes") \o DropTable("force_sub_confirmations")
                     \o DropColumns("force_sub_channels", a) \o DropIndex("users")
                     \o DropColumns("users", b) \o DropColumns("movies", c)
    BY DEF Downgrade2
  <2> HIDE DEF a, b, c
  <2>4. /\ DownPiece(2, DropTable("reserved_codes"))
        /\ DownPiece(2, DropTable("force_sub_confirmations"))
        /\ DownPiece(2, DropColumns("force_sub_channels", a))
        /\ DownPiece(2, DropIndex("users")) /\ DownPiece(2, DropColumns("users", b))
        /\ DownPiece(2, DropColumns("movies", c))
    BY <1>0, <2>1, <2>2
  <2> QED
    BY <2>3, <2>4, DownJoin
<1>3. DownPiece(3, Downgrade3)
  <2> DEFINE a == {"context"}
             b == {"category"}
             c == {"director", "actor", "thumbnail_file_id", "resolution",
                   "file_size_bytes", "part_number", "episode_number", "season_number",
                   "series_title", "collection_type"}
  <2>1. /\ "support_messages" \in MadeBy(3) /\ "search_logs" \in MadeBy(3)
        /\ "action_logs" \in Names /\ "movies" \in Names /\ "media_sources" \in Names
        /\ "admin_users" \in Names /\ 3 \in 1 .. 5
    BY NamesAre DEF MadeBy
  <2>2. /\ a \in SUBSET AddedBy(3, "action_logs") /\ b \in SUBSET AddedBy(3, "media_sources")
        /\ c \in SUBSET AddedBy(3, "movies")
    BY DEF AddedBy
  <2>3. Downgrade3 = DropTable("support_messages") \o DropTable("search_logs")
                     \o DropColumns("action_logs", a) \o Recreate("admin_users", {}, {})
                     \o DropIndex("media_sources") \o DropColumns("media_sources", b)
                     \o DropIndex("movies") \o DropColumns("movies", c)
    BY DEF Downgrade3
  <2> HIDE DEF a, b, c
  <2>4. /\ DownPiece(3, DropTable("support_messages")) /\ DownPiece(3, DropTable("search_logs"))
        /\ DownPiece(3, DropColumns("action_logs", a))
        /\ DownPiece(3, Recreate("admin_users", {}, {}))
        /\ DownPiece(3, DropIndex("media_sources"))
        /\ DownPiece(3, DropColumns("media_sources", b))
        /\ DownPiece(3, DropIndex("movies")) /\ DownPiece(3, DropColumns("movies", c))
    BY <1>0, <2>1, <2>2
  <2> QED
    BY <2>3, <2>4, DownJoin
<1>4. DownPiece(4, Downgrade4)
  <2> DEFINE a == {"two_factor_enabled", "two_factor_secret", "login_pin_hash"}
             b == {"collection_id"}
  <2>1. /\ "referral_rewards" \in MadeBy(4) /\ "premium_history" \in MadeBy(4)
        /\ "ad_campaigns" \in MadeBy(4) /\ "backup_records" \in MadeBy(4)
        /\ "system_logs" \in MadeBy(4) /\ "admin_sessions" \in MadeBy(4)
        /\ "admin_login_attempts" \in MadeBy(4) /\ "whitelist_entries" \in MadeBy(4)
        /\ "blacklist_entries" \in MadeBy(4) /\ "media_collections" \in MadeBy(4)
        /\ "bot_settings" \in MadeBy(4) /\ "movies" \in Names /\ "admin_users" \in Names
        /\ 4 \in 1 .. 5
    BY NamesAre DEF MadeBy
  <2>2. a \in SUBSET AddedBy(4, "admin_users") /\ b \in SUBSET AddedBy(4, "movies")
    BY DEF AddedBy
  <2>3. Downgrade4 = DropTable("referral_rewards") \o DropTable("premium_history")
                     \o DropTable("ad_campaigns") \o DropTable("backup_records")
                     \o DropTable("system_logs") \o DropColumns("admin_users", a)
                     \o DropTable("admin_sessions") \o DropTable("admin_login_attempts")
                     \o DropTable("whitelist_entries") \o DropTable("blacklist_entries")
                     \o DropIndex("movies") \o DropColumns("movies", b)
                     \o DropTable("media_collections") \o DropTable("bot_settings")
    BY DEF Downgrade4
  <2> HIDE DEF a, b
  <2>4. /\ \A t \in MadeBy(4) : DownPiece(4, DropTable(t))
        /\ DownPiece(4, DropColumns("admin_users", a))
        /\ DownPiece(4, DropIndex("movies")) /\ DownPiece(4, DropColumns("movies", b))
    BY <1>0, <2>1, <2>2
  <2> QED
    BY <2>1, <2>3, <2>4, DownJoin
<1>5. DownPiece(5, Downgrade5)
  <2>1. "discovered_chats" \in MadeBy(5) /\ 5 \in 1 .. 5
    BY DEF MadeBy
  <2> QED
    BY <1>0, <2>1 DEF Downgrade5
<1>6. /\ Downgrades[1] = Downgrade1 /\ Downgrades[2] = Downgrade2 /\ Downgrades[3] = Downgrade3
      /\ Downgrades[4] = Downgrade4 /\ Downgrades[5] = Downgrade5
  BY DEF Downgrades
<1>7. \A r \in 1 .. 5 : r = 1 \/ r = 2 \/ r = 3 \/ r = 4 \/ r = 5
  OBVIOUS
<1> QED
  BY <1>1, <1>2, <1>3, <1>4, <1>5, <1>6, <1>7

-----------------------------------------------------------------------------
(* What a version promises.                                                *)
MakesTable(r, t) ==
    \E q \in 1 .. r : \E op \in Range(Upgrades[q]) : op.do = "create" /\ op.table = t
GivenBy(r, t, c) ==
    \E q \in 1 .. r : \E op \in Range(Upgrades[q]) : Gives(op, t, c)

LEMMA UpgradeOps ==
    ASSUME NEW r \in 1 .. 5, NEW op \in Range(Upgrades[r])
    PROVE  UpgradeOp(r, op)
BY UpgradesAre DEF UpPiece

LEMMA Revised ==
    ASSUME NEW r \in 0 .. 5
    PROVE  LET d == AtRevision[r] IN
           /\ d = [tables |-> d.tables, copies |-> {}, stamp |-> r,
                   rows |-> [s \in Stores |-> {}]]
           /\ d.tables = [t \in DOMAIN d.tables |-> d.tables[t]]
           /\ \A t \in DOMAIN d.tables : t \in Names /\ IsTable(d.tables[t]) /\ MakesTable(r, t)
           /\ \A t : MakesTable(r, t) => t \in DOMAIN d.tables
           /\ \A t \in DOMAIN d.tables : \A c : c \in d.tables[t].cols <=> GivenBy(r, t, c)
<1> DEFINE past     == UNION {Range(Upgrades[i]) : i \in 1 .. r}
           creating == {op \in past : op.do = "create"}
           Cols(t)  == UNION {op.cols \cup op.as.cols : op \in {o \in past : o.table = t}}
           Final(t) == [(CHOOSE op \in creating : op.table = t).as EXCEPT
                           !.cols = Cols(t), !.indexed = TRUE]
           T        == [t \in {op.table : op \in creating} |-> Final(t)]
           d        == AtRevision[r]
<1>1. d = [Untouched EXCEPT !.stamp = r, !.tables = T]
  BY HeadIs DEF AtRevision
<1>2. d = [tables |-> T, copies |-> {}, stamp |-> r, rows |-> [s \in Stores |-> {}]]
  <2> HIDE DEF d, T
  <2> QED
    BY <1>1 DEF Untouched
<1>3. \A t : MakesTable(r, t) <=> \E op \in creating : op.table = t
  BY DEF MakesTable
<1>4. \A t, c : GivenBy(r, t, c) <=> c \in Cols(t)
  BY DEF GivenBy, Gives
<1>5. \A op \in creating : op.table \in Names /\ IsTable(op.as)
  <2> TAKE op \in creating
  <2>1. PICK q \in 1 .. r : op \in Range(Upgrades[q])
    OBVIOUS
  <2>2. q \in 1 .. 5
    OBVIOUS
  <2>3. UpgradeOp(q, op)
    BY <2>1, <2>2, UpgradeOps
  <2> QED
    BY <2>3 DEF UpgradeOp, UpOp
<1>6. ASSUME NEW t, \E op \in creating : op.table = t
      PROVE  IsTable(Final(t)) /\ Final(t).cols = Cols(t)
  <2> DEFINE op == CHOOSE op \in creating : op.table = t
  <2>1. op \in creating
    BY <1>6
  <2>2. IsTable(op.as)
    BY <1>5, <2>1
  <2> DEFINE as == op.as
             C  == Cols(t)
  <2>3. Final(t) = [as EXCEPT !.cols = C, !.indexed = TRUE]
    OBVIOUS
  <2>4. IsTable(as)
    BY <2>2
  <2> HIDE DEF as, C, Final, op
  <2>5. as = [cols |-> as.cols, id |-> as.id, fk |-> as.fk, indexed |-> as.indexed]
    BY <2>4 DEF IsTable
  <2>6. Final(t) = [cols |-> C, id |-> as.id, fk |-> as.fk, indexed |-> TRUE]
    BY <2>3, <2>5
  <2> QED
    BY <2>6 DEF IsTable, C
<1>7. \A t : t \in DOMAIN T <=> \E op \in creating : op.table = t
  BY DEF T
<1>8. \A t \in DOMAIN T : T[t] = Final(t)
  BY DEF T
<1>9. T = [t \in DOMAIN T |-> T[t]]
  BY DEF T
<1> HIDE DEF T, d, Cols, Final, creating, past
<1>10. d.tables = T
  BY <1>2
<1>11. \A t \in DOMAIN T : t \in Names /\ IsTable(T[t]) /\ MakesTable(r, t) /\ T[t].cols = Cols(t)
  BY <1>3, <1>5, <1>6, <1>7, <1>8
<1>12. \A t : MakesTable(r, t) => t \in DOMAIN T
  BY <1>3, <1>7
<1>13. \A t \in DOMAIN T : \A c : c \in T[t].cols <=> GivenBy(r, t, c)
  BY <1>4, <1>11
<1> QED
  BY <1>2, <1>9, <1>10, <1>11, <1>12, <1>13 DEF d

LEMMA PromisedIs ==
    ASSUME NEW r \in 0 .. 5
    PROVE  /\ \A t \in DOMAIN Promised(r) : t \in Names /\ MakesTable(r, t)
           /\ \A t : MakesTable(r, t) => t \in DOMAIN Promised(r)
           /\ \A t \in DOMAIN Promised(r) : \A c \in Promised(r)[t].cols : GivenBy(r, t, c)
           /\ \A t \in DOMAIN Promised(r) : \A c : GivenBy(r, t, c) => c \in Promised(r)[t].cols
BY Revised DEF Promised

(* Whatever gives a table a column comes with or after what makes it.      *)
LEMMA GivenIsMade ==
    ASSUME NEW r \in 0 .. 5, NEW t, NEW c, GivenBy(r, t, c)
    PROVE  t \in DOMAIN Promised(r) /\ c \in Promised(r)[t].cols
<1>1. PICK q \in 1 .. r : \E op \in Range(Upgrades[q]) : Gives(op, t, c)
  BY DEF GivenBy
<1>2. PICK op \in Range(Upgrades[q]) : Gives(op, t, c)
  BY <1>1
<1>3. q \in 1 .. 5 /\ 1 \in 1 .. r
  BY <1>1
<1>4. UpOp(op)
  BY <1>2, <1>3, UpgradeOps DEF UpgradeOp
<1>5. CASE op.do = "create"
  <2>1. MakesTable(r, t)
    BY <1>1, <1>2, <1>5 DEF MakesTable, Gives
  <2> QED
    BY <2>1, PromisedIs
<1>6. CASE op.do # "create"
  <2>1. t \in Early
    BY <1>2, <1>4, <1>6 DEF UpOp, Gives
  <2>2. MakesTable(r, t)
    BY <1>3, <2>1, UpgradesAre DEF MakesTable
  <2> QED
    BY <2>2, PromisedIs
<1> QED
  BY <1>5, <1>6

LEMMA PromisesGrow ==
    ASSUME NEW r \in 0 .. 5, NEW s \in 0 .. 5, s <= r, NEW t \in DOMAIN Promised(s),
           NEW c \in Promised(s)[t].cols
    PROVE  t \in DOMAIN Promised(r) /\ c \in Promised(r)[t].cols
<1>1. GivenBy(s, t, c)
  BY PromisedIs
<1>2. \A q \in 1 .. s : q \in 1 .. r
  OBVIOUS
<1>3. GivenBy(r, t, c)
  BY <1>1, <1>2 DEF GivenBy
<1> QED
  BY <1>3, GivenIsMade

LEMMA PromiseHasColumns ==
    ASSUME NEW r \in 0 .. 5, NEW t \in DOMAIN Promised(r)
    PROVE  Promised(r)[t].cols # {}
<1>1. PICK q \in 1 .. r : \E op \in Range(Upgrades[q]) : op.do = "create" /\ op.table = t
  BY PromisedIs DEF MakesTable
<1>2. PICK op \in Range(Upgrades[q]) : op.do = "create" /\ op.table = t
  BY <1>1
<1>3. q \in 1 .. 5
  OBVIOUS
<1>4. "created_at" \in op.as.cols
  BY <1>2, <1>3, UpgradeOps DEF UpgradeOp
<1>5. GivenBy(r, t, "created_at")
  BY <1>2, <1>4 DEF GivenBy, Gives
<1> QED
  BY <1>5, GivenIsMade

LEMMA NothingPromised == DOMAIN Promised(0) = {}
<1>1. \A t : ~ MakesTable(0, t)
  BY DEF MakesTable
<1>2. 0 \in 0 .. 5 /\ \A t \in DOMAIN Promised(0) : MakesTable(0, t)
  BY PromisedIs
<1> QED
  BY <1>1, <1>2

LEMMA MoviesPromised ==
    ASSUME NEW r \in 0 .. 5, NEW c
    PROVE  /\ "movies" \in DOMAIN Promised(r) => r # 0
           /\ "movies" \in DOMAIN Promised(r) /\ c \in Promised(r)["movies"].cols
                 => c \in Models["movies"].cols
<1>1. "movies" \in DOMAIN Promised(r) => r # 0
  BY NothingPromised
<1>2. ASSUME "movies" \in DOMAIN Promised(r), c \in Promised(r)["movies"].cols
      PROVE  c \in Models["movies"].cols
  <2>1. GivenBy(r, "movies", c)
    BY <1>2, PromisedIs
  <2>2. PICK q \in 1 .. r : \E op \in Range(Upgrades[q]) : Gives(op, "movies", c)
    BY <2>1 DEF GivenBy
  <2>3. PICK op \in Range(Upgrades[q]) : Gives(op, "movies", c)
    BY <2>2
  <2>4. q \in 1 .. 5
    OBVIOUS
  <2>5. UpOp(op)
    BY <2>3, <2>4, UpgradeOps DEF UpgradeOp
  <2> QED
    BY <2>3, <2>5 DEF UpOp, Gives
<1> QED
  BY <1>1, <1>2

(* A downgrade takes nothing of what the version it goes back to promises. *)
LEMMA DowngradeTakes ==
    ASSUME NEW r \in 1 .. 5, NEW op \in Range(Downgrades[r])
    PROVE  ~ Takes(op, r - 1)
<1>1. DowngradeOp(r, op)
  BY DowngradesAre DEF DownPiece
<1>2. r - 1 \in 0 .. 5 /\ \A q \in 1 .. r - 1 : q \in 1 .. 5 /\ q # r
  OBVIOUS
<1>3. SUFFICES ASSUME Takes(op, r - 1) PROVE FALSE
  OBVIOUS
<1>4. CASE op.do = "drop"
  <2>1. op.table \in MadeBy(r) /\ MakesTable(r - 1, op.table)
    BY <1>1, <1>2, <1>3, <1>4, PromisedIs DEF DowngradeOp, Takes
  <2>2. PICK q \in 1 .. r - 1 :
           \E o \in Range(Upgrades[q]) : o.do = "create" /\ o.table = op.table
    BY <2>1 DEF MakesTable
  <2>3. PICK o \in Range(Upgrades[q]) : o.do = "create" /\ o.table = op.table
    BY <2>2
  <2>4. op.table \in MadeBy(q)
    BY <1>2, <2>3, UpgradeOps DEF UpgradeOp
  <2> QED
    BY <1>2, <2>1, <2>4, MadeOnce
<1>5. CASE op.do = "swap" /\ op.gone \cap Promised(r - 1)[op.table].cols # {}
  <2>1. PICK c \in op.gone : c \in Promised(r - 1)[op.table].cols
    BY <1>5
  <2>2. c \in AddedBy(r, op.table) /\ GivenBy(r - 1, op.table, c)
    BY <1>1, <1>2, <1>3, <1>5, <2>1, PromisedIs DEF DowngradeOp, Takes
  <2>3. PICK q \in 1 .. r - 1 : \E o \in Range(Upgrades[q]) : Gives(o, op.table, c)
    BY <2>2 DEF GivenBy
  <2>4. PICK o \in Range(Upgrades[q]) : Gives(o, op.table, c)
    BY <2>3
  <2>5. UpgradeOp(q, o) /\ q \in 1 .. 5 /\ q # r
    BY <1>2, <2>4, UpgradeOps
  <2>6. AddedBy(q, op.table) \cap AddedBy(r, op.table) = {}
    BY <2>5, AddedOnce
  <2> QED
    BY <2>2, <2>4, <2>5, <2>6 DEF UpgradeOp, UpOp, Gives
<1> QED
  BY <1>3, <1>4, <1>5 DEF Takes

-----------------------------------------------------------------------------
(* The programs alembic runs.                                              *)
LEMMA RevisionIs ==
    ASSUME NEW ops, IsSeq(ops), CopiesSwapped(ops), NEW r
    PROVE  LET s == Revision(ops, r)
               m == Len(ops)
           IN  /\ IsSeq(s) /\ CopiesSwapped(s) /\ Len(s) \in Nat /\ m \in Nat
               /\ m + 1 \in 1 .. Len(s) /\ s[m + 1] = Stamp(r)
               /\ \A j \in 1 .. m : s[j] = ops[j] /\ j \in 1 .. Len(s)
               /\ \A j \in 1 .. Len(s) : j \in 1 .. m \/ j = m + 1 \/ s[j] = Commit
               /\ backend = "sqlite" => s[Len(s)] = Commit
               /\ backend # "sqlite" => \A j \in 1 .. Len(s) : j \in 1 .. m \/ j = m + 1
<1> DEFINE m   == Len(ops)
           a   == ops \o <<Stamp(r)>>
           end == IF backend = "sqlite" THEN <<Commit>> ELSE <<>>
           s   == a \o end
<1>1. Revision(ops, r) = s
  BY DEF Revision
<1>2. /\ IsSeq(<<Stamp(r)>>) /\ CopiesSwapped(<<Stamp(r)>>)
      /\ Len(<<Stamp(r)>>) = 1 /\ <<Stamp(r)>>[1] = Stamp(r)
  BY OneStep, Single, StampIs
<1>3. /\ IsSeq(a) /\ CopiesSwapped(a) /\ Len(a) = m + 1 /\ m \in Nat
      /\ a[m + 1] = Stamp(r) /\ \A j \in 1 .. m : a[j] = ops[j]
  BY <1>2, Joined, CopiesJoin
<1>4. /\ IsSeq(end) /\ CopiesSwapped(end) /\ Len(end) \in {0, 1}
      /\ \A j \in 1 .. Len(end) : end[j] = Commit
      /\ backend = "sqlite" => Len(end) = 1
      /\ backend # "sqlite" => Len(end) = 0
  <2>1. /\ IsSeq(<<Commit>>) /\ CopiesSwapped(<<Commit>>) /\ Len(<<Commit>>) = 1
        /\ <<Commit>>[1] = Commit
    BY OneStep, Single, CommitIs
  <2>2. IsSeq(<<>>) /\ Len(<<>>) = 0 /\ CopiesSwapped(<<>>)
    BY Nothing
  <2>3. CASE backend = "sqlite"
    BY <2>1, <2>3
  <2>4. CASE backend # "sqlite"
    BY <2>2, <2>4
  <2> QED
    BY <2>3, <2>4
<1> HIDE DEF a, end
<1>5. /\ IsSeq(s) /\ Len(s) = m + 1 + Len(end)
      /\ \A j \in 1 .. m + 1 : s[j] = a[j]
      /\ \A j \in 1 .. Len(end) : s[m + 1 + j] = end[j]
      /\ \A i \in 1 .. Len(s) : i \in 1 .. m + 1 \/ \E j \in 1 .. Len(end) : i = m + 1 + j
  <2>1. /\ IsSeq(s) /\ Len(s) = Len(a) + Len(end)
        /\ \A j \in 1 .. Len(a) : s[j] = a[j]
        /\ \A j \in 1 .. Len(end) : s[Len(a) + j] = end[j]
        /\ \A i \in 1 .. Len(s) : i \in 1 .. Len(a) \/ \E j \in 1 .. Len(end) : i = Len(a) + j
    <3>1. s = a \o end /\ IsSeq(a) /\ IsSeq(end)
      BY <1>3, <1>4
    <3> HIDE DEF s
    <3>2. IsSeq(s) /\ Len(s) = Len(a) + Len(end)
      BY <3>1, Joined
    <3>3. \A j \in 1 .. Len(a) : s[j] = a[j]
      BY <3>1, Joined
    <3>4. \A j \in 1 .. Len(end) : s[Len(a) + j] = end[j]
      BY <3>1, Joined
    <3>5. \A i \in 1 .. Len(s) : i \in 1 .. Len(a) \/ \E j \in 1 .. Len(end) : i = Len(a) + j
      BY <3>1, Joined
    <3> QED
      BY <3>2, <3>3, <3>4, <3>5
  <2> HIDE DEF s, m
  <2> QED
    BY <1>3, <2>1
<1>6. CopiesSwapped(s)
  BY <1>3, <1>4, CopiesJoin
<1> HIDE DEF s, m
<1>7. \A j \in 1 .. m : s[j] = ops[j] /\ j \in 1 .. Len(s)
  BY <1>3, <1>4, <1>5
<1>8. m + 1 \in 1 .. Len(s) /\ s[m + 1] = Stamp(r) /\ Len(s) \in Nat
  BY <1>3, <1>4, <1>5
<1>9. \A i \in 1 .. Len(s) : i \in 1 .. m \/ i = m + 1 \/ s[i] = Commit
  BY <1>3, <1>4, <1>5
<1>10. backend = "sqlite" => s[Len(s)] = Commit
  BY <1>3, <1>4, <1>5
<1>11. backend # "sqlite" => \A j \in 1 .. Len(s) : j \in 1 .. m \/ j = m + 1
  BY <1>3, <1>4, <1>5
<1> QED
  BY <1>1, <1>3, <1>5, <1>6, <1>7, <1>8, <1>9, <1>10, <1>11 DEF m

LEMMA CopiesFlattened ==
    ASSUME NEW n \in Nat, NEW ss, NEW off, NEW s, IsSeq(s), Offsets(off, ss, n),
           Placed(s, off, ss, n), \A i \in 1 .. n : IsSeq(ss[i]) /\ CopiesSwapped(ss[i])
    PROVE  CopiesSwapped(s)
<1>1. SUFFICES ASSUME NEW k \in 1 .. Len(s), s[k].do = "fillCopy"
               PROVE  k < Len(s) /\ s[k + 1].do = "swap" /\ s[k + 1].table = s[k].table
  BY DEF CopiesSwapped
<1>2. PICK i \in 1 .. n : \E j \in 1 .. Len(ss[i]) : k = off[i] + j
  BY DEF Placed
<1>3. PICK j \in 1 .. Len(ss[i]) : k = off[i] + j
  BY <1>2
<1>4. s[k] = ss[i][j]
  BY <1>3 DEF Placed
<1>5. j < Len(ss[i]) /\ ss[i][j + 1].do = "swap" /\ ss[i][j + 1].table = ss[i][j].table
  BY <1>1, <1>4 DEF CopiesSwapped
<1>6. Len(ss[i]) \in Nat
  BY RangeOf
<1>7. off[i] \in Nat /\ off[n + 1] \in Nat /\ off[i] + Len(ss[i]) <= off[n + 1]
  <2>1. i < n + 1 /\ i \in 1 .. n + 1 /\ n + 1 \in 1 .. n + 1
    OBVIOUS
  <2> QED
    BY <2>1 DEF Offsets
<1>8. Len(s) = off[n + 1]
  BY DEF Placed
<1>9. s[off[i] + (j + 1)] = ss[i][j + 1]
  <2>1. j + 1 \in 1 .. Len(ss[i])
    BY <1>3, <1>5, <1>6
  <2> QED
    BY <2>1 DEF Placed
<1>10. off[i] + (j + 1) = k + 1 /\ k < Len(s)
  <2> DEFINE x == off[i]
             y == Len(ss[i])
  <2>1. x \in Nat /\ y \in Nat /\ j \in 1 .. y /\ j < y /\ x + y <= Len(s) /\ k = x + j
        /\ Len(s) \in Nat
    BY <1>3, <1>5, <1>6, <1>7, <1>8
  <2> HIDE DEF x, y
  <2>2. x + (j + 1) = k + 1 /\ k < Len(s)
    BY <2>1
  <2> QED
    BY <2>2 DEF x
<1> QED
  BY <1>4, <1>5, <1>9, <1>10

(* Every statement of an upgrade, at its place in the revision it is of.   *)
LEMMA UpgradeRevisions ==
    ASSUME NEW from \in 0 .. 4
    PROVE  LET n  == HeadRevision - from
               ss == [i \in 1 .. n |-> Revision(Upgrades[from + i], from + i)]
               s  == FlattenSeq(ss)
           IN  /\ n \in 1 .. 5 /\ IsSeq(s) /\ CopiesSwapped(s)
               /\ \A i \in 1 .. n : /\ from + i \in 1 .. 5
                                    /\ ss[i] = Revision(Upgrades[from + i], from + i)
                                    /\ IsSeq(ss[i]) /\ Range(ss[i]) \subseteq Range(s)
               /\ \E off : Offsets(off, ss, n) /\ Placed(s, off, ss, n)
<1> DEFINE n  == HeadRevision - from
           ss == [i \in 1 .. n |-> Revision(Upgrades[from + i], from + i)]
           s  == FlattenSeq(ss)
<1>1. n \in 1 .. 5 /\ n \in Nat /\ \A i \in 1 .. n : from + i \in 1 .. 5
  BY HeadIs
<1>2. \A i \in 1 .. n : IsSeq(Upgrades[from + i]) /\ CopiesSwapped(Upgrades[from + i])
  BY <1>1, UpgradesAre DEF UpPiece
<1>3. \A i \in 1 .. n : IsSeq(ss[i]) /\ CopiesSwapped(ss[i])
  BY <1>2, RevisionIs
<1>4. ss = [i \in 1 .. n |-> ss[i]]
  OBVIOUS
<1>5. \A i \in 1 .. n : ss[i] = Revision(Upgrades[from + i], from + i)
  OBVIOUS
<1> HIDE DEF ss, n
<1>6. /\ IsSeq(s) /\ \E off : Offsets(off, ss, n) /\ Placed(s, off, ss, n)
      /\ \A i \in 1 .. n : Range(ss[i]) \subseteq Range(s)
  BY <1>1, <1>3, <1>4, FlattenedSteps
<1> HIDE DEF s
<1>7. PICK off : Offsets(off, ss, n) /\ Placed(s, off, ss, n)
  BY <1>6
<1>8. CopiesSwapped(s)
  BY <1>1, <1>3, <1>6, <1>7, CopiesFlattened
<1> QED
  BY <1>1, <1>3, <1>5, <1>6, <1>8 DEF s, ss, n

LEMMA UpgradeOps2 ==
    ASSUME NEW r \in 1 .. 5
    PROVE  /\ Len(Upgrades[r]) \in Nat /\ IsSeq(Upgrades[r])
           /\ \A j \in 1 .. Len(Upgrades[r]) :
                 /\ Upgrades[r][j] \in Range(Upgrades[r])
                 /\ UpgradeOp(r, Upgrades[r][j])
                 /\ Upgrades[r][j].do \notin {"stamp", "commit"}
           /\ \A op \in Range(Upgrades[r]) : \E j \in 1 .. Len(Upgrades[r]) : op = Upgrades[r][j]
<1>1. IsSeq(Upgrades[r])
  BY UpgradesAre DEF UpPiece
<1>2. \A op \in Range(Upgrades[r]) : op.do \notin {"stamp", "commit"}
  BY UpgradeOps DEF UpgradeOp, UpOp
<1> QED
  BY <1>1, <1>2, RangeOf, UpgradeOps

(* Where the statements of an upgrade are: revision i of the n begins after *)
(* off[i], with its own statements, its stamp, and its commit on SQLite.   *)
UpgradeLaid(from, n, ss, s, off) ==
    LET m(i) == Len(Upgrades[from + i]) IN
    /\ n = 5 - from /\ n \in 1 .. 5 /\ IsSeq(s) /\ CopiesSwapped(s) /\ Len(s) \in Nat
    /\ off[1] = 0 /\ off[n + 1] = Len(s) /\ off[n + 1] = off[n] + Len(ss[n])
    /\ \A i \in 1 .. n :
          /\ from + i \in 1 .. 5 /\ m(i) \in Nat /\ Len(ss[i]) \in Nat /\ off[i] \in Nat
          /\ m(i) + 1 \in 1 .. Len(ss[i]) /\ off[i] + Len(ss[i]) <= Len(s)
          /\ backend = "sqlite" => ss[i][Len(ss[i])] = Commit
    /\ \A i, j \in 1 .. n : i < j => off[i] + Len(ss[i]) <= off[j]
    /\ \A i \in 1 .. n : \A j \in 1 .. m(i) :
          ss[i][j] = Upgrades[from + i][j] /\ j \in 1 .. Len(ss[i])
    /\ \A i \in 1 .. n : \A j \in 1 .. Len(ss[i]) :
          /\ off[i] + j \in 1 .. Len(s) /\ s[off[i] + j] = ss[i][j]
          /\ \/ ss[i][j] = Commit /\ backend = "sqlite" /\ ss[i][j].do = "commit"
             \/ /\ j = m(i) + 1 /\ ss[i][j] = Stamp(from + i)
                /\ ss[i][j].do = "stamp" /\ ss[i][j].rev = from + i
             \/ /\ j \in 1 .. m(i) /\ ss[i][j] = Upgrades[from + i][j]
                /\ UpgradeOp(from + i, ss[i][j]) /\ ss[i][j].do \notin {"stamp", "commit"}
    /\ \A i \in 1 .. n : ss[i][m(i) + 1] = Stamp(from + i)
    /\ \A k \in 1 .. Len(s) : \E i \in 1 .. n : \E j \in 1 .. Len(ss[i]) : k = off[i] + j

LEMMA UpgradeLayout ==
    ASSUME NEW from \in 0 .. 4, backend \in {"sqlite", "postgresql"}
    PROVE  LET n  == HeadRevision - from
               ss == [i \in 1 .. n |-> Revision(Upgrades[from + i], from + i)]
               s  == FlattenSeq(ss)
           IN  \E off : UpgradeLaid(from, n, ss, s, off)
<1> DEFINE n  == HeadRevision - from
           ss == [i \in 1 .. n |-> Revision(Upgrades[from + i], from + i)]
           s  == FlattenSeq(ss)
<1>1. /\ n \in 1 .. 5 /\ IsSeq(s) /\ CopiesSwapped(s)
      /\ \A i \in 1 .. n : /\ from + i \in 1 .. 5
                           /\ ss[i] = Revision(Upgrades[from + i], from + i)
                           /\ IsSeq(ss[i]) /\ Range(ss[i]) \subseteq Range(s)
      /\ \E off : Offsets(off, ss, n) /\ Placed(s, off, ss, n)
  BY UpgradeRevisions
<1>2. n = 5 - from
  BY HeadIs
<1> HIDE DEF ss, s, n
<1>3. PICK off : Offsets(off, ss, n) /\ Placed(s, off, ss, n)
  BY <1>1
<1> DEFINE m(i) == Len(Upgrades[from + i])
<1>4. ASSUME NEW i \in 1 .. n
      PROVE  /\ m(i) \in Nat /\ Len(ss[i]) \in Nat
             /\ m(i) + 1 \in 1 .. Len(ss[i]) /\ ss[i][m(i) + 1] = Stamp(from + i)
             /\ \A j \in 1 .. m(i) : ss[i][j] = Upgrades[from + i][j] /\ j \in 1 .. Len(ss[i])
             /\ \A j \in 1 .. Len(ss[i]) : j \in 1 .. m(i) \/ j = m(i) + 1 \/ ss[i][j] = Commit
             /\ backend = "sqlite" => ss[i][Len(ss[i])] = Commit
             /\ backend # "sqlite" => \A j \in 1 .. Len(ss[i]) : j \in 1 .. m(i) \/ j = m(i) + 1
  <2> DEFINE r   == from + i
             ops == Upgrades[r]
  <2>1. r \in 1 .. 5 /\ ss[i] = Revision(ops, r)
    BY <1>1
  <2> HIDE DEF r
  <2>2. IsSeq(ops) /\ CopiesSwapped(ops)
    BY <2>1, UpgradesAre DEF UpPiece
  <2> HIDE DEF ops
  <2> DEFINE x == Revision(ops, r)
             l == Len(ops)
  <2>3. /\ IsSeq(x) /\ CopiesSwapped(x) /\ Len(x) \in Nat /\ l \in Nat
        /\ l + 1 \in 1 .. Len(x) /\ x[l + 1] = Stamp(r)
        /\ \A j \in 1 .. l : x[j] = ops[j] /\ j \in 1 .. Len(x)
        /\ \A j \in 1 .. Len(x) : j \in 1 .. l \/ j = l + 1 \/ x[j] = Commit
        /\ backend = "sqlite" => x[Len(x)] = Commit
        /\ backend # "sqlite" => \A j \in 1 .. Len(x) : j \in 1 .. l \/ j = l + 1
    BY <2>2, RevisionIs
  <2>4. ss[i] = x /\ m(i) = l /\ ops = Upgrades[from + i] /\ r = from + i
    BY <2>1 DEF r, ops
  <2> HIDE DEF x, l, m
  <2> QED
    BY <2>3, <2>4
<1>4a. ASSUME NEW a \in 1 .. n, NEW h \in 1 .. m(a)
       PROVE  ss[a][h] = Upgrades[from + a][h] /\ h \in 1 .. Len(ss[a])
  BY <1>4
<1>4b. ASSUME NEW a \in 1 .. n PROVE m(a) \in Nat /\ Len(ss[a]) \in Nat
  BY <1>4
<1>5. /\ Len(s) \in Nat /\ off[n + 1] = Len(s) /\ off[1] = 0
      /\ \A i \in 1 .. n : off[i] \in Nat /\ off[i] + Len(ss[i]) <= Len(s)
      /\ \A a, b \in 1 .. n : a < b => off[a] + Len(ss[a]) <= off[b]
  <2>1. Len(s) \in Nat
    BY <1>1, RangeOf
  <2>2. \A i \in 1 .. n : i < n + 1 /\ i \in 1 .. n + 1
    BY <1>1
  <2>3. n + 1 \in 1 .. n + 1
    BY <1>1
  <2> QED
    BY <1>3, <2>1, <2>2, <2>3 DEF Offsets, Placed
<1>6. /\ \A i \in 1 .. n : \A j \in 1 .. Len(ss[i]) : s[off[i] + j] = ss[i][j]
      /\ \A k \in 1 .. Len(s) : \E i \in 1 .. n : \E j \in 1 .. Len(ss[i]) : k = off[i] + j
  BY <1>3 DEF Placed
<1>7. ASSUME NEW i \in 1 .. n, NEW j \in 1 .. Len(ss[i])
      PROVE  off[i] + j \in 1 .. Len(s)
  <2> DEFINE x == off[i]
             y == Len(ss[i])
  <2>1. x \in Nat /\ y \in Nat /\ j \in 1 .. y /\ x + y <= Len(s) /\ Len(s) \in Nat
    BY <1>4, <1>5, <1>7
  <2> HIDE DEF x, y
  <2>2. x + j \in 1 .. Len(s)
    BY <2>1
  <2> QED
    BY <2>2 DEF x
<1>8. ASSUME NEW i \in 1 .. n, NEW j \in 1 .. Len(ss[i])
       PROVE  \/ ss[i][j] = Commit /\ backend = "sqlite" /\ ss[i][j].do = "commit"
              \/ /\ j = m(i) + 1 /\ ss[i][j] = Stamp(from + i)
                 /\ ss[i][j].do = "stamp" /\ ss[i][j].rev = from + i
              \/ /\ j \in 1 .. m(i) /\ ss[i][j] = Upgrades[from + i][j]
                 /\ UpgradeOp(from + i, ss[i][j]) /\ ss[i][j].do \notin {"stamp", "commit"}
  <2>1. \A h \in 1 .. m(i) : /\ UpgradeOp(from + i, Upgrades[from + i][h])
                             /\ Upgrades[from + i][h].do \notin {"stamp", "commit"}
    BY <1>1, UpgradeOps2
  <2>2. Stamp(from + i).do = "stamp" /\ Stamp(from + i).rev = from + i
    <3> DEFINE r == from + i
    <3>1. Stamp(r).do = "stamp" /\ Stamp(r).rev = r
      <4> HIDE DEF r
      <4> QED
        BY StampIs
    <3> QED
      BY <3>1
  <2> QED
    BY <1>4, <2>1, <2>2, CommitIs
<1>9. off[n + 1] = off[n] + Len(ss[n])
  <2>1. n \in 1 .. n
    BY <1>1
  <2> QED
    BY <1>3, <2>1 DEF Offsets
<1> HIDE DEF m
<1>10. UpgradeLaid(from, n, ss, s, off)
  BY <1>1, <1>2, <1>4, <1>4a, <1>5, <1>6, <1>7, <1>8, <1>9 DEF UpgradeLaid, m
<1> QED
  BY <1>10 DEF n, ss, s

LEMMA UpgradeFlat ==
    ASSUME NEW from \in 0 .. 4, backend \in {"sqlite", "postgresql"}
    PROVE  LET n  == HeadRevision - from
               ss == [i \in 1 .. n |-> Revision(Upgrades[from + i], from + i)]
               s  == FlattenSeq(ss)
           IN  /\ IsSeq(s) /\ CopiesSwapped(s) /\ Len(s) > 0 /\ Len(s) \in Nat
               /\ backend = "sqlite" => s[Len(s)] = Commit
               /\ \A k \in 1 .. Len(s) :
                     \/ s[k] = Commit /\ backend = "sqlite"
                     \/ s[k].rev \in from + 1 .. 5 /\ s[k] = Stamp(s[k].rev)
                     \/ \E q \in from + 1 .. 5 : UpgradeOp(q, s[k])
               /\ \A k \in 1 .. Len(s) : MakesMovies(s[k]) =>
                     from = 0 /\ \A i \in 1 .. k - 1 : s[i].do # "stamp"
               /\ \A k \in 1 .. Len(s) : s[k].do = "stamp" => \A t, c :
                     GivenBy(s[k].rev, t, c) => \/ GivenBy(from, t, c)
                                                \/ \E j \in 1 .. k - 1 : Gives(s[j], t, c)
               /\ from = 0 => \E k \in 1 .. Len(s) : s[k].do = "swap" /\ "visibility" \in s[k].cols
<1> DEFINE n  == HeadRevision - from
           ss == [i \in 1 .. n |-> Revision(Upgrades[from + i], from + i)]
           s  == FlattenSeq(ss)
<1>3. PICK off : UpgradeLaid(from, n, ss, s, off)
  BY UpgradeLayout
<1> HIDE DEF ss, s, n
<1> DEFINE m(i) == Len(Upgrades[from + i])
<1>1. /\ n \in 1 .. 5 /\ IsSeq(s) /\ CopiesSwapped(s)
      /\ \A i \in 1 .. n : from + i \in 1 .. 5
  BY <1>3 DEF UpgradeLaid
<1>2. n = 5 - from
  BY <1>3 DEF UpgradeLaid
<1>4. ASSUME NEW i \in 1 .. n
      PROVE  /\ m(i) \in Nat /\ Len(ss[i]) \in Nat
             /\ m(i) + 1 \in 1 .. Len(ss[i]) /\ ss[i][m(i) + 1] = Stamp(from + i)
             /\ \A j \in 1 .. m(i) : ss[i][j] = Upgrades[from + i][j] /\ j \in 1 .. Len(ss[i])
             /\ backend = "sqlite" => ss[i][Len(ss[i])] = Commit
  BY <1>3 DEF UpgradeLaid
<1>4a. ASSUME NEW a \in 1 .. n, NEW h \in 1 .. m(a)
       PROVE  ss[a][h] = Upgrades[from + a][h] /\ h \in 1 .. Len(ss[a])
  BY <1>4
<1>4b. ASSUME NEW a \in 1 .. n PROVE m(a) \in Nat /\ Len(ss[a]) \in Nat
  BY <1>4
<1>5. /\ Len(s) \in Nat /\ off[n + 1] = Len(s) /\ off[1] = 0
      /\ \A i \in 1 .. n : off[i] \in Nat /\ off[i] + Len(ss[i]) <= Len(s)
      /\ \A a, b \in 1 .. n : a < b => off[a] + Len(ss[a]) <= off[b]
  BY <1>3 DEF UpgradeLaid
<1>6. /\ \A i \in 1 .. n : \A j \in 1 .. Len(ss[i]) : s[off[i] + j] = ss[i][j]
      /\ \A k \in 1 .. Len(s) : \E i \in 1 .. n : \E j \in 1 .. Len(ss[i]) : k = off[i] + j
  BY <1>3 DEF UpgradeLaid
<1>7. ASSUME NEW i \in 1 .. n, NEW j \in 1 .. Len(ss[i])
      PROVE  off[i] + j \in 1 .. Len(s)
  BY <1>3 DEF UpgradeLaid
<1>8. Len(s) > 0
  <2>1. 1 \in 1 .. n
    BY <1>1
  <2>2. m(1) + 1 \in 1 .. Len(ss[1])
    BY <1>4, <2>1
  <2>3. off[1] + (m(1) + 1) \in 1 .. Len(s)
    BY <1>7, <2>1, <2>2
  <2> QED
    BY <1>5, <2>3
<1>9. ASSUME backend = "sqlite" PROVE s[Len(s)] = Commit
  <2>1. n \in 1 .. n
    BY <1>1
  <2>2. off[n + 1] = off[n] + Len(ss[n])
    BY <1>3 DEF UpgradeLaid
  <2>3. Len(ss[n]) \in 1 .. Len(ss[n]) /\ ss[n][Len(ss[n])] = Commit
    BY <1>4, <1>9, <2>1
  <2>4. s[off[n] + Len(ss[n])] = ss[n][Len(ss[n])]
    BY <1>6, <2>1, <2>3
  <2> QED
    BY <1>5, <2>2, <2>3, <2>4
<1>10. ASSUME NEW i \in 1 .. n, NEW j \in 1 .. Len(ss[i])
       PROVE  \/ ss[i][j] = Commit /\ backend = "sqlite" /\ ss[i][j].do = "commit"
              \/ /\ j = m(i) + 1 /\ ss[i][j] = Stamp(from + i)
                 /\ ss[i][j].do = "stamp" /\ ss[i][j].rev = from + i
              \/ /\ j \in 1 .. m(i) /\ ss[i][j] = Upgrades[from + i][j]
                 /\ UpgradeOp(from + i, ss[i][j]) /\ ss[i][j].do \notin {"stamp", "commit"}
  BY <1>3 DEF UpgradeLaid
<1>11. ASSUME NEW k \in 1 .. Len(s)
       PROVE  \/ s[k] = Commit /\ backend = "sqlite"
              \/ s[k].rev \in from + 1 .. 5 /\ s[k] = Stamp(s[k].rev)
              \/ \E q \in from + 1 .. 5 : UpgradeOp(q, s[k])
  <2>1. PICK i \in 1 .. n : \E j \in 1 .. Len(ss[i]) : k = off[i] + j
    BY <1>6
  <2>2. PICK j \in 1 .. Len(ss[i]) : k = off[i] + j
    BY <2>1
  <2>3. s[k] = ss[i][j]
    BY <1>6, <2>2
  <2>4. from + i \in from + 1 .. 5
    BY <1>1
  <2> QED
    BY <1>10, <2>3, <2>4
<1>12. ASSUME NEW k \in 1 .. Len(s), MakesMovies(s[k])
       PROVE  from = 0 /\ \A h \in 1 .. k - 1 : s[h].do # "stamp"
  <2>1. PICK i \in 1 .. n : \E j \in 1 .. Len(ss[i]) : k = off[i] + j
    BY <1>6
  <2>2. PICK j \in 1 .. Len(ss[i]) : k = off[i] + j
    BY <2>1
  <2>3. s[k] = ss[i][j]
    BY <1>6, <2>2
  <2>4. j \in 1 .. m(i) /\ UpgradeOp(from + i, ss[i][j])
    BY <1>10, <1>12, <2>3 DEF MakesMovies
  <2>5. "movies" \in MadeBy(from + i)
    BY <1>12, <2>3, <2>4 DEF UpgradeOp, MakesMovies
  <2>6. from + i = 1
    BY <1>1, <2>5, MadeOnce
  <2>7. from = 0 /\ i = 1
    BY <2>6
  <2>8. ASSUME NEW h \in 1 .. k - 1 PROVE s[h].do # "stamp"
    <3>0. k = j /\ h \in 1 .. Len(s) /\ h < j
      BY <1>5, <2>2, <2>7
    <3>1. PICK b \in 1 .. n : \E l \in 1 .. Len(ss[b]) : h = off[b] + l
      BY <1>6, <3>0
    <3>2. PICK l \in 1 .. Len(ss[b]) : h = off[b] + l
      BY <3>1
    <3>3. b = 1
      <4>1. SUFFICES ASSUME 1 < b PROVE FALSE
        OBVIOUS
      <4>2. off[1] + Len(ss[1]) <= off[b] /\ off[b] \in Nat /\ Len(ss[1]) \in Nat
        BY <1>4, <1>5, <2>7, <4>1
      <4> QED
        BY <1>5, <2>7, <2>2, <3>0, <3>2, <4>2
    <3>4. h = l /\ l \in 1 .. m(1)
      BY <1>4, <1>5, <2>4, <2>7, <3>0, <3>2, <3>3
    <3>5. s[h] = ss[1][l]
      BY <1>6, <3>2, <3>3
    <3>6. ss[1][l] = Upgrades[from + 1][l]
      <4>1. 1 \in 1 .. n
        BY <3>3
      <4> QED
        BY <1>4a, <3>4, <4>1
    <3>7. Upgrades[from + 1][l].do # "stamp"
      BY <1>1, <3>3, <3>4, UpgradeOps2
    <3> QED
      BY <3>5, <3>6, <3>7
  <2> QED
    BY <2>7, <2>8
<1>13. ASSUME NEW k \in 1 .. Len(s), s[k].do = "stamp", NEW t, NEW c, GivenBy(s[k].rev, t, c)
       PROVE  GivenBy(from, t, c) \/ \E j \in 1 .. k - 1 : Gives(s[j], t, c)
  <2>1. PICK i \in 1 .. n : \E j \in 1 .. Len(ss[i]) : k = off[i] + j
    BY <1>6
  <2>2. PICK j \in 1 .. Len(ss[i]) : k = off[i] + j
    BY <2>1
  <2>3. s[k] = ss[i][j]
    BY <1>6, <2>2
  <2>4. j = m(i) + 1 /\ s[k] = Stamp(from + i) /\ s[k].rev = from + i
    BY <1>10, <1>13, <2>3
  <2>5. PICK q \in 1 .. from + i : \E op \in Range(Upgrades[q]) : Gives(op, t, c)
    BY <1>13, <2>4 DEF GivenBy
  <2>6. PICK op \in Range(Upgrades[q]) : Gives(op, t, c)
    BY <2>5
  <2>7. CASE q <= from
    <3>1. q \in 1 .. from
      BY <2>7
    <3> QED
      BY <2>6, <3>1 DEF GivenBy
  <2>8. CASE ~ (q <= from)
    <3> DEFINE b == q - from
    <3>1. b \in 1 .. n /\ b <= i /\ from + b = q /\ q \in 1 .. 5
      BY <1>1, <2>8
    <3>2. PICK l \in 1 .. Len(Upgrades[q]) : op = Upgrades[q][l]
      BY <2>6, <3>1, UpgradeOps2
    <3> HIDE DEF b
    <3>3. l \in 1 .. m(b)
      BY <3>1, <3>2
    <3>4. ss[b][l] = op /\ l \in 1 .. Len(ss[b])
      <4>1. ss[b][l] = Upgrades[from + b][l] /\ l \in 1 .. Len(ss[b])
        BY <1>4a, <3>1, <3>3
      <4> QED
        BY <3>1, <3>2, <4>1
    <3>5. s[off[b] + l] = op /\ off[b] + l \in 1 .. Len(s)
      BY <1>6, <1>7, <3>1, <3>4
    <3>6. off[b] + l < k
      <4>0. off[b] \in Nat /\ off[i] \in Nat /\ m(i) \in Nat /\ Len(ss[b]) \in Nat
        BY <1>4b, <1>5, <3>1
      <4>1. CASE b = i
        <5> DEFINE x == off[i]
                   y == m(i)
        <5>1. l \in 1 .. y /\ y \in Nat /\ x \in Nat /\ k = x + j /\ j = y + 1
          BY <2>2, <2>4, <3>3, <4>0, <4>1
        <5> HIDE DEF x, y
        <5>2. x + l < k
          BY <5>1
        <5> QED
          BY <4>1, <5>2 DEF x
      <4>2. CASE b # i
        <5>1. off[b] + Len(ss[b]) <= off[i]
          BY <1>5, <3>1, <4>2
        <5> DEFINE x == off[b]
                   y == Len(ss[b])
                   z == off[i]
        <5>2. j \in Nat /\ j > 0
          <6> DEFINE w == m(i)
          <6>1. w \in Nat /\ j = w + 1
            BY <2>4, <4>0
          <6> HIDE DEF w
          <6> QED
            BY <6>1
        <5>3. x \in Nat /\ y \in Nat /\ z \in Nat /\ l \in 1 .. y /\ x + y <= z /\ k = z + j
          BY <2>2, <3>4, <4>0, <5>1
        <5> HIDE DEF x, y, z
        <5>4. x + l < k
          BY <5>2, <5>3
        <5> QED
          BY <5>4 DEF x
      <4> QED
        BY <4>1, <4>2
    <3>7. off[b] + l \in 1 .. k - 1
      <4> DEFINE x == off[b] + l
      <4>1. x \in 1 .. Len(s) /\ x < k /\ k \in 1 .. Len(s) /\ Len(s) \in Nat
        BY <1>5, <3>5, <3>6
      <4> HIDE DEF x
      <4>2. x \in 1 .. k - 1
        BY <4>1
      <4> QED
        BY <4>2 DEF x
    <3> QED
      BY <2>6, <3>5, <3>7
  <2> QED
    BY <2>7, <2>8
<1>14. ASSUME from = 0
       PROVE  \E k \in 1 .. Len(s) : s[k].do = "swap" /\ "visibility" \in s[k].cols
  <2>1. 2 \in 1 .. n /\ from + 2 = 2 /\ 2 \in 1 .. 5
    BY <1>2, <1>14
  <2>2. PICK op \in Range(Upgrades[2]) : op.do = "swap" /\ "visibility" \in op.cols
    BY UpgradesAre
  <2>3. PICK l \in 1 .. Len(Upgrades[2]) : op = Upgrades[2][l]
    BY <2>1, UpgradeOps2
  <2>4. ss[2][l] = op /\ l \in 1 .. Len(ss[2])
    BY <1>4, <2>1, <2>3
  <2>5. s[off[2] + l] = op /\ off[2] + l \in 1 .. Len(s)
    BY <1>6, <1>7, <2>1, <2>4
  <2> QED
    BY <2>2, <2>5
<1> QED
  BY <1>1, <1>5, <1>8, <1>9, <1>11, <1>12, <1>13, <1>14 DEF s, ss, n

LEMMA AlembicSteps ==
    ASSUME NEW op
    PROVE  /\ Step("upgrade", op) =>
                 op.do \in {"commit", "stamp", "create", "index", "add", "makeCopy",
                            "fillCopy", "swap"}
           /\ Step("downgrade", op) =>
                 op.do \in {"commit", "stamp", "drop", "dropIndex", "makeCopy",
                            "fillCopy", "swap"}
           /\ Step("upgrade", op) \/ Step("downgrade", op) => op.table # Kept
<1>1. StampOp(op) => op.do = "stamp" /\ op.table = ""
  <2>1. Stamp(op.rev).do = "stamp" /\ Stamp(op.rev).table = ""
    BY StampIs
  <2> QED
    BY <2>1 DEF StampOp
<1>2. Kept \notin Names /\ Kept # ""
  BY KeptIsNoName DEF Kept
<1>3. UpOp(op) => /\ op.do \in {"create", "index", "add", "makeCopy", "fillCopy", "swap"}
                  /\ op.table # Kept
  BY <1>2 DEF UpOp
<1>4. DownOp(op) => /\ op.do \in {"drop", "dropIndex", "makeCopy", "fillCopy", "swap"}
                    /\ op.table # Kept
  BY <1>2 DEF DownOp
<1>5. op = Commit => op.do = "commit" /\ op.table # Kept
  BY <1>2, CommitIs
<1> QED
  BY <1>1, <1>2, <1>3, <1>4, <1>5 DEF Step

LEMMA NoRebuildInTurn ==
    ASSUME NEW s, IsSeq(s),
           \A op \in Range(s) : op.do \notin {"setAside", "carryOver"} /\ ~ DropsKept(op)
    PROVE  InTurn(s)
BY RangeOf DEF InTurn

LEMMA UpgradeProgram ==
    ASSUME NEW from \in 0 .. 4, backend \in {"sqlite", "postgresql"}
    PROVE  LET s == UpgradeSteps(from) IN
           /\ IsSeq(s) /\ s # <<>> /\ s[Len(s)] = Commit
           /\ \A op \in Range(s) : Step("upgrade", op)
           /\ CopiesSwapped(s) /\ InTurn(s) /\ MadeFirst(s)
           /\ (\E op \in Range(s) : MakesMovies(op)) => from = 0
           /\ \A k \in 1 .. Len(s) : s[k].do = "stamp" =>
                 /\ s[k].rev \in 0 .. 5
                 /\ \A t, c : GivenBy(s[k].rev, t, c) =>
                       GivenBy(from, t, c) \/ \E j \in 1 .. k - 1 : Gives(s[j], t, c)
           /\ from = 0 /\ backend = "postgresql" => Doomed(s)
<1> DEFINE f   == FlattenSeq([i \in 1 .. HeadRevision - from |->
                                 Revision(Upgrades[from + i], from + i)])
           end == IF backend = "postgresql" THEN <<Commit>> ELSE <<>>
           s   == f \o end
           l   == Len(f)
<1>1. UpgradeSteps(from) = s
  BY DEF UpgradeSteps
<1>2. /\ IsSeq(f) /\ CopiesSwapped(f) /\ l > 0 /\ l \in Nat
      /\ backend = "sqlite" => f[l] = Commit
      /\ \A k \in 1 .. l : \/ f[k] = Commit /\ backend = "sqlite"
                           \/ f[k].rev \in from + 1 .. 5 /\ f[k] = Stamp(f[k].rev)
                           \/ \E q \in from + 1 .. 5 : UpgradeOp(q, f[k])
      /\ \A k \in 1 .. l : MakesMovies(f[k]) =>
            from = 0 /\ \A i \in 1 .. k - 1 : f[i].do # "stamp"
      /\ \A k \in 1 .. l : f[k].do = "stamp" => \A t, c :
            GivenBy(f[k].rev, t, c) => \/ GivenBy(from, t, c)
                                       \/ \E j \in 1 .. k - 1 : Gives(f[j], t, c)
      /\ from = 0 => \E k \in 1 .. l : f[k].do = "swap" /\ "visibility" \in f[k].cols
  BY UpgradeFlat
<1> HIDE DEF f
<1>3. /\ IsSeq(end) /\ CopiesSwapped(end)
      /\ \A j \in 1 .. Len(end) : end[j] = Commit
      /\ backend = "postgresql" => Len(end) = 1
      /\ backend # "postgresql" => Len(end) = 0
  <2>1. /\ IsSeq(<<Commit>>) /\ CopiesSwapped(<<Commit>>) /\ Len(<<Commit>>) = 1
        /\ <<Commit>>[1] = Commit
    BY OneStep, Single, CommitIs
  <2>3. CASE backend = "postgresql"
    BY <2>1, <2>3
  <2>4. CASE backend # "postgresql"
    BY Nothing, <2>4
  <2> QED
    BY <2>3, <2>4
<1> HIDE DEF end
<1>4. /\ IsSeq(s) /\ Len(s) = l + Len(end)
      /\ \A j \in 1 .. l : s[j] = f[j]
      /\ \A j \in 1 .. Len(end) : s[l + j] = end[j]
      /\ \A i \in 1 .. Len(s) : i \in 1 .. l \/ \E j \in 1 .. Len(end) : i = l + j
  <2>1. s = f \o end /\ IsSeq(f) /\ IsSeq(end)
    BY <1>2, <1>3
  <2> HIDE DEF s
  <2>2. IsSeq(s) /\ Len(s) = Len(f) + Len(end)
    BY <2>1, Joined
  <2>3. \A j \in 1 .. Len(f) : s[j] = f[j]
    BY <2>1, Joined
  <2>4. \A j \in 1 .. Len(end) : s[Len(f) + j] = end[j]
    BY <2>1, Joined
  <2>5. \A i \in 1 .. Len(s) : i \in 1 .. Len(f) \/ \E j \in 1 .. Len(end) : i = Len(f) + j
    BY <2>1, Joined
  <2> QED
    BY <2>2, <2>3, <2>4, <2>5
<1>5. CopiesSwapped(s)
  <2>1. IsSeq(f) /\ IsSeq(end) /\ CopiesSwapped(f) /\ CopiesSwapped(end)
    BY <1>2, <1>3
  <2> QED
    BY ONLY <2>1, CopiesJoin
<1> HIDE DEF s, l
<1>6. /\ Len(s) \in Nat /\ Len(s) > 0 /\ s[Len(s)] = Commit
      /\ \A k \in 1 .. l : k \in 1 .. Len(s)
  BY <1>2, <1>3, <1>4
<1>7. \A k \in 1 .. Len(s) : k \in 1 .. l \/ s[k] = Commit
  BY <1>3, <1>4
<1>8. ASSUME NEW k \in 1 .. Len(s) PROVE Step("upgrade", s[k])
  <2>1. CASE k \in 1 .. l
    <3>1. \/ s[k] = Commit
          \/ s[k].rev \in from + 1 .. 5 /\ s[k] = Stamp(s[k].rev)
          \/ \E q \in from + 1 .. 5 : UpgradeOp(q, s[k])
      BY <1>2, <1>4, <2>1
    <3>2. s[k].rev \in from + 1 .. 5 => s[k].rev \in 0 .. HeadRevision
      BY HeadIs
    <3> QED
      BY <3>1, <3>2 DEF Step, StampOp, UpgradeOp
  <2> QED
    BY <1>7, <2>1 DEF Step
<1>9. \A op \in Range(s) : Step("upgrade", op)
  BY <1>4, <1>8, RangeOf
<1>10. InTurn(s)
  <2>1. \A op \in Range(s) : op.do \notin {"setAside", "carryOver"} /\ ~ DropsKept(op)
    BY <1>9, AlembicSteps DEF DropsKept
  <2> QED
    BY <1>4, <2>1, NoRebuildInTurn
<1>11. ASSUME NEW k \in 1 .. Len(s), MakesMovies(s[k])
       PROVE  from = 0 /\ \A i \in 1 .. k - 1 : s[i].do # "stamp"
  <2>1. k \in 1 .. l
    BY <1>7, <1>11, CommitIs DEF MakesMovies
  <2>2. \A i \in 1 .. k - 1 : i \in 1 .. l
    BY <1>2, <2>1
  <2> QED
    BY <1>2, <1>4, <1>11, <2>1, <2>2
<1>12. MadeFirst(s)
  <2>1. \A i, k \in 1 .. Len(s) : i < k => i \in 1 .. k - 1
    BY <1>6
  <2> QED
    BY <1>11, <2>1 DEF MadeFirst
<1>13. (\E op \in Range(s) : MakesMovies(op)) => from = 0
  BY <1>4, <1>11, RangeOf
<1>14. ASSUME NEW k \in 1 .. Len(s), s[k].do = "stamp"
       PROVE  /\ s[k].rev \in 0 .. 5
              /\ \A t, c : GivenBy(s[k].rev, t, c) =>
                    GivenBy(from, t, c) \/ \E j \in 1 .. k - 1 : Gives(s[j], t, c)
  <2>1. k \in 1 .. l
    BY <1>7, <1>14, CommitIs
  <2>2. \A i \in 1 .. k - 1 : i \in 1 .. l
    BY <1>2, <2>1
  <2>3. s[k] = f[k] /\ \A i \in 1 .. k - 1 : s[i] = f[i]
    BY <1>4, <2>1, <2>2
  <2>4. s[k].rev \in 0 .. 5
    <3>1. \/ s[k] = Commit
          \/ s[k].rev \in from + 1 .. 5
          \/ \E q \in from + 1 .. 5 : UpgradeOp(q, s[k])
      BY <1>2, <1>4, <2>1
    <3>2. s[k] # Commit
      BY <1>14, CommitIs
    <3>3. \A q : ~ UpgradeOp(q, s[k])
      BY <1>14 DEF UpgradeOp, UpOp
    <3>4. from + 1 .. 5 \subseteq 0 .. 5
      OBVIOUS
    <3> QED
      BY <3>1, <3>2, <3>3, <3>4
  <2> QED
    BY <1>2, <1>14, <2>1, <2>3, <2>4
<1>15. ASSUME from = 0, backend = "postgresql" PROVE Doomed(s)
  <2>1. PICK k \in 1 .. l : f[k].do = "swap" /\ "visibility" \in f[k].cols
    BY <1>2, <1>15
  <2>2. k \in 1 .. Len(s) /\ s[k] = f[k]
    BY <1>4, <1>6
  <2>3. Refused(s[k])
    BY <1>15, <2>1, <2>2 DEF Refused, TypeMissing, AddedEnums
  <2>4. ASSUME NEW q \in 1 .. k PROVE s[q].do # "commit"
    <3>1. q \in 1 .. l /\ s[q] = f[q] /\ backend # "sqlite"
      BY <1>2, <1>4, <1>15, <2>1
    <3>2. \/ f[q].rev \in from + 1 .. 5 /\ f[q] = Stamp(f[q].rev)
          \/ \E i \in from + 1 .. 5 : UpgradeOp(i, f[q])
      BY <1>2, <3>1
    <3>3. f[q] = Stamp(f[q].rev) => f[q].do = "stamp"
      <4> DEFINE r == f[q].rev
      <4>1. Stamp(r).do = "stamp"
        <5> HIDE DEF r
        <5> QED
          BY StampIs
      <4> QED
        BY <4>1
    <3>4. ASSUME NEW i \in from + 1 .. 5, UpgradeOp(i, f[q]) PROVE f[q].do # "commit"
      BY <3>4 DEF UpgradeOp, UpOp
    <3>5. f[q].do # "commit"
      BY <3>2, <3>3, <3>4
    <3> QED
      BY <3>1, <3>5
  <2> QED
    BY <2>2, <2>3, <2>4 DEF Doomed
<1>16. s # <<>>
  BY <1>6, Nothing
<1> QED
  BY <1>1, <1>4, <1>5, <1>6, <1>9, <1>10, <1>12, <1>13, <1>14, <1>15, <1>16

LEMMA DowngradeProgram ==
    ASSUME NEW from \in 1 .. 5, backend = "sqlite"
    PROVE  LET s == DowngradeSteps(from) IN
           /\ IsSeq(s) /\ s # <<>> /\ s[Len(s)] = Commit
           /\ \A op \in Range(s) : Step("downgrade", op)
           /\ CopiesSwapped(s) /\ InTurn(s) /\ MadeFirst(s)
           /\ (\E op \in Range(s) : DropsMovies(op)) => DropsFirst(s)
           /\ \A op \in Range(s) :
                 ~ Takes(op, from - 1) /\ (op.do = "stamp" => op.rev = from - 1)
           /\ \E op \in Range(s) : op.do = "stamp"
<1> DEFINE ops == Downgrades[from]
           r   == from - 1
           x   == Revision(ops, r)
           s   == x \o <<>>
           m   == Len(ops)
<1>1. DowngradeSteps(from) = s
  BY DEF DowngradeSteps
<1>2. IsSeq(ops) /\ CopiesSwapped(ops) /\ \A op \in Range(ops) : DowngradeOp(from, op)
  BY DowngradesAre DEF DownPiece
<1>3. \A op \in Range(ops) : ~ Takes(op, r)
  BY DowngradeTakes
<1>4. r \in 0 .. HeadRevision
  BY HeadIs
<1> HIDE DEF ops, r
<1>5. /\ IsSeq(x) /\ CopiesSwapped(x) /\ Len(x) \in Nat /\ m \in Nat
      /\ m + 1 \in 1 .. Len(x) /\ x[m + 1] = Stamp(r)
      /\ \A j \in 1 .. m : x[j] = ops[j] /\ j \in 1 .. Len(x)
      /\ \A j \in 1 .. Len(x) : j \in 1 .. m \/ j = m + 1 \/ x[j] = Commit
      /\ x[Len(x)] = Commit
  BY <1>2, RevisionIs
<1>6. s = x
  BY <1>5, ConcatEmptySeq DEF IsSeq
<1> HIDE DEF s, x
<1>7. \A j \in 1 .. m : ops[j] \in Range(ops)
  BY <1>2, RangeOf DEF m
<1> HIDE DEF m
<1>8. Stamp(r).do = "stamp" /\ Stamp(r).rev = r /\ Stamp(r).table = ""
  BY StampIs
<1>9. Step("downgrade", Stamp(r))
  BY <1>4, <1>8 DEF Step, StampOp
<1>10. ASSUME NEW j \in 1 .. Len(x)
       PROVE  \/ j \in 1 .. m /\ DowngradeOp(from, x[j]) /\ ~ Takes(x[j], r)
              \/ j = m + 1 /\ x[j] = Stamp(r)
              \/ x[j] = Commit
  BY <1>2, <1>3, <1>5, <1>7
<1>11. \A j \in 1 .. Len(x) : Step("downgrade", x[j])
  BY <1>9, <1>10 DEF Step, DowngradeOp
<1>12. \A op \in Range(x) : Step("downgrade", op)
  BY <1>5, <1>11, RangeOf
<1>13. InTurn(x)
  <2>1. \A op \in Range(x) : op.do \notin {"setAside", "carryOver"} /\ ~ DropsKept(op)
    BY <1>12, AlembicSteps DEF DropsKept
  <2> QED
    BY <1>5, <2>1, NoRebuildInTurn
<1>14. MadeFirst(x)
  <2>1. \A op \in Range(x) : ~ MakesMovies(op)
    BY <1>12, AlembicSteps DEF MakesMovies
  <2> QED
    BY <1>5, <2>1, RangeOf DEF MadeFirst
<1>15. \A op \in Range(x) : ~ Takes(op, r) /\ (op.do = "stamp" => op.rev = r)
  <2>1. ~ Takes(Stamp(r), r) /\ ~ Takes(Commit, r)
    BY <1>8, CommitIs DEF Takes
  <2>2. \A j \in 1 .. Len(x) : ~ Takes(x[j], r) /\ (x[j].do = "stamp" => x[j].rev = r)
    BY <1>8, <1>10, <2>1, CommitIs DEF DowngradeOp, DownOp
  <2> QED
    BY <1>5, <2>2, RangeOf
<1>16. Stamp(r) \in Range(x)
  BY <1>5, RangeOf
<1>17. x # <<>>
  BY <1>5, Nothing
<1>18. ASSUME \E op \in Range(x) : DropsMovies(op) PROVE DropsFirst(x)
  <2>1. PICK j \in 1 .. Len(x) : DropsMovies(x[j])
    BY <1>5, <1>18, RangeOf
  <2>2. DowngradeOp(from, x[j])
    BY <1>8, <1>10, <2>1, CommitIs DEF DropsMovies
  <2>3. from = 1
    BY <2>1, <2>2, MadeOnce DEF DowngradeOp, DropsMovies
  <2>4. \A i \in 1 .. m : x[i].do \notin Writes
    <3>1. ops = Downgrade1
      BY <2>3 DEF ops, Downgrades
    <3>2. \A op \in Range(ops) : op.do = "drop"
      <4>1. \A t : IsSeq(DropTable(t)) /\ \A op \in Range(DropTable(t)) : op.do = "drop"
        <5> TAKE t
        <5>1. Op("drop", t, {}, {}).do = "drop"
          BY DEF Op
        <5>2. IsSeq(DropTable(t)) /\ Range(DropTable(t)) = {Op("drop", t, {}, {})}
          BY Single DEF DropTable
        <5> QED
          BY <5>1, <5>2
      <4> DEFINE Drops(u) == IsSeq(u) /\ \A op \in Range(u) : op.do = "drop"
      <4>2. \A u, v : Drops(u) /\ Drops(v) => Drops(u \o v)
        BY Joined
      <4>3. \A t : Drops(DropTable(t))
        BY <4>1
      <4> HIDE DEF Drops
      <4>4. Drops(Downgrade1)
        BY <4>2, <4>3 DEF Downgrade1
      <4> QED
        BY <3>1, <4>4 DEF Drops
    <3> QED
      BY <1>5, <1>7, <3>2 DEF Writes
  <2>5. ASSUME NEW i \in 1 .. Len(x), NEW h \in 1 .. Len(x), i < h, DropsMovies(x[h])
        PROVE  x[i].do \notin Writes
    <3>1. h \in 1 .. m
      BY <1>8, <1>10, <2>5, CommitIs DEF DropsMovies
    <3>2. i \in 1 .. m
      BY <1>5, <2>5, <3>1
    <3> QED
      BY <2>4, <3>2
  <2> QED
    BY <2>5 DEF DropsFirst
<1> QED
  BY <1>1, <1>5, <1>6, <1>8, <1>12, <1>13, <1>14, <1>15, <1>16, <1>17, <1>18 DEF r

-----------------------------------------------------------------------------
(* The program of a start.                                                 *)
LEMMA OrderIs ==
    /\ DOMAIN CreationOrder = 1 .. 25
    /\ \A i \in 1 .. 25 : CreationOrder[i] \in Names
    /\ \A t \in Names : \E i \in 1 .. 25 : CreationOrder[i] = t
<1>1. DOMAIN CreationOrder = 1 .. 25
  BY DEF CreationOrder
<1>2. /\ CreationOrder[1] = "action_logs" /\ CreationOrder[2] = "ad_campaigns"
      /\ CreationOrder[3] = "admin_login_attempts" /\ CreationOrder[4] = "admin_sessions"
      /\ CreationOrder[5] = "admin_users" /\ CreationOrder[6] = "backup_records"
      /\ CreationOrder[7] = "blacklist_entries" /\ CreationOrder[8] = "bot_settings"
      /\ CreationOrder[9] = "broadcasts" /\ CreationOrder[10] = "discovered_chats"
      /\ CreationOrder[11] = "force_sub_channels" /\ CreationOrder[12] = "media_collections"
      /\ CreationOrder[13] = "media_sources" /\ CreationOrder[14] = "reserved_codes"
      /\ CreationOrder[15] = "search_logs" /\ CreationOrder[16] = "support_messages"
      /\ CreationOrder[17] = "system_logs" /\ CreationOrder[18] = "users"
      /\ CreationOrder[19] = "whitelist_entries"
      /\ CreationOrder[20] = "broadcast_failed_users"
      /\ CreationOrder[21] = "force_sub_confirmations" /\ CreationOrder[22] = "movies"
      /\ CreationOrder[23] = "payment_requests" /\ CreationOrder[24] = "premium_history"
      /\ CreationOrder[25] = "referral_rewards"
  BY DEF CreationOrder
<1>3. \A i \in 1 .. 25 : i \in {1, 2, 3, 4, 5, 6, 7, 8, 9, 10, 11, 12, 13, 14, 15, 16, 17, 18,
                                19, 20, 21, 22, 23, 24, 25}
  OBVIOUS
<1>4. \A i \in 1 .. 25 : CreationOrder[i] \in Names
  BY <1>2, <1>3, NamesAre
<1>5. \A t \in Names : \E i \in 1 .. 25 : CreationOrder[i] = t
  BY <1>2, NamesAre
<1> QED
  BY <1>1, <1>4, <1>5

LEMMA CreateTableIs ==
    ASSUME NEW t \in Names
    PROVE  LET s == CreateTable(t) IN
           /\ IsSeq(s) /\ \A op \in Range(s) : CreateOp(op) /\ op.table = t
           /\ \E op \in Range(s) : op.do = "create" /\ op.table = t
<1> DEFINE a == CreateAs(t, Models[t])
           b == Op("index", "movies", {}, {})
<1>1. a.do = "create" /\ a.table = t /\ a.as = Models[t]
  BY DEF CreateAs, Op
<1>2. b.do = "index" /\ b.table = "movies"
  BY DEF Op
<1>3. CreateTable(t) = <<a>> \o (IF t = "movies" THEN <<b>> ELSE <<>>)
  BY DEF CreateTable, Index
<1> HIDE DEF a, b
<1>4. IsSeq(<<a>>) /\ Range(<<a>>) = {a} /\ IsSeq(<<b>>) /\ Range(<<b>>) = {b}
  BY Single
<1>5. CASE t = "movies"
  <2> DEFINE h == <<a>>
             u == h \o <<b>>
  <2>1. IsSeq(h) /\ Range(h) = {a}
    BY <1>4
  <2>2. u = h \o <<b>>
    OBVIOUS
  <2>3. CreateTable(t) = u
    BY <1>3, <1>5
  <2> HIDE DEF u, h
  <2>4. IsSeq(u)
    BY ONLY <2>1, <2>2, Appended
  <2>5. Range(u) = {a} \cup {b}
    <3>1. Range(u) = Range(h) \cup {b}
      BY ONLY <2>1, <2>2, Appended
    <3> QED
      BY <2>1, <3>1
  <2> QED
    BY <1>1, <1>2, <1>5, <2>3, <2>4, <2>5 DEF CreateOp
<1>6. CASE t # "movies"
  <2>1. <<a>> \o <<>> = <<a>>
    BY <1>4, ConcatEmptySeq DEF IsSeq
  <2> QED
    BY <1>1, <1>3, <1>4, <1>6, <2>1 DEF CreateOp
<1> QED
  BY <1>5, <1>6

LEMMA CreateAllIs ==
    ASSUME NEW d
    PROVE  LET s == CreateAll(d) IN
           /\ IsSeq(s) /\ Len(s) \in Nat
           /\ \A op \in Range(s) : CreateOp(op) /\ ~ Has(d, op.table)
           /\ \A t \in Names : Has(d, t) \/ \E op \in Range(s) : op.do = "create" /\ op.table = t
<1> DEFINE ss == [i \in 1 .. 25 |->
                     LET t == CreationOrder[i] IN IF Has(d, t) THEN <<>> ELSE CreateTable(t)]
           s  == FlattenSeq(ss)
<1>1. CreateAll(d) = s
  BY OrderIs DEF CreateAll
<1>2. ASSUME NEW i \in 1 .. 25
      PROVE  /\ IsSeq(ss[i])
             /\ \A op \in Range(ss[i]) : CreateOp(op) /\ ~ Has(d, op.table)
             /\ \/ Has(d, CreationOrder[i])
                \/ \E op \in Range(ss[i]) : op.do = "create" /\ op.table = CreationOrder[i]
  <2> DEFINE t == CreationOrder[i]
  <2>1. t \in Names
    BY OrderIs
  <2>2. ss[i] = IF Has(d, t) THEN <<>> ELSE CreateTable(t)
    OBVIOUS
  <2> HIDE DEF ss, t
  <2>3. CASE Has(d, t)
    BY <2>2, <2>3, Nothing DEF t
  <2>4. CASE ~ Has(d, t)
    <3>1. /\ IsSeq(CreateTable(t))
          /\ \A op \in Range(CreateTable(t)) : CreateOp(op) /\ op.table = t
          /\ \E op \in Range(CreateTable(t)) : op.do = "create" /\ op.table = t
      BY <2>1, CreateTableIs
    <3>2. ss[i] = CreateTable(t)
      BY <2>2, <2>4
    <3> QED
      BY <2>4, <3>1, <3>2 DEF t
  <2> QED
    BY <2>3, <2>4
<1>3. ss = [i \in 1 .. 25 |-> ss[i]]
  OBVIOUS
<1> HIDE DEF ss
<1>4. /\ IsSeq(s)
      /\ \A i \in 1 .. 25 : Range(ss[i]) \subseteq Range(s)
      /\ \A x \in Range(s) : \E i \in 1 .. 25 : x \in Range(ss[i])
  BY <1>2, <1>3, FlattenedSteps
<1> HIDE DEF s
<1>5. \A op \in Range(s) : CreateOp(op) /\ ~ Has(d, op.table)
  BY <1>2, <1>4
<1>6. ASSUME NEW t \in Names
      PROVE  Has(d, t) \/ \E op \in Range(s) : op.do = "create" /\ op.table = t
  <2>1. PICK i \in 1 .. 25 : CreationOrder[i] = t
    BY OrderIs
  <2> QED
    BY <1>2, <1>4, <2>1
<1> QED
  BY <1>1, <1>4, <1>5, <1>6, RangeOf

LEMMA RebuildIs ==
    LET s == Rebuild IN
    /\ IsSeq(s) /\ Len(s) = 6
    /\ s[1].do = "setAside"
    /\ s[2].do = "dropIndex" /\ s[2].table = Kept
    /\ s[3].do = "create" /\ s[3].table = "movies" /\ s[3].as = Models["movies"]
    /\ s[4].do = "index" /\ s[4].table = "movies"
    /\ s[5].do = "carryOver"
    /\ s[6].do = "drop" /\ s[6].table = Kept
<1> DEFINE a == Op("setAside", "movies", {}, {})
           b == Op("dropIndex", Kept, {}, {})
           c == CreateAs("movies", Models["movies"])
           e == Op("index", "movies", {}, {})
           f == Op("carryOver", "movies", {}, {})
           g == Op("drop", Kept, {}, {})
<1>1. /\ a.do = "setAside" /\ b.do = "dropIndex" /\ b.table = Kept
      /\ c.do = "create" /\ c.table = "movies" /\ c.as = Models["movies"]
      /\ e.do = "index" /\ e.table = "movies" /\ f.do = "carryOver"
      /\ g.do = "drop" /\ g.table = Kept
  BY DEF Op, CreateAs
<1>2. Rebuild = <<a, b>> \o (<<c>> \o <<e>>) \o <<f>> \o <<g>>
  BY DEF Rebuild, CreateTable, Index, DropTable
<1> HIDE DEF a, b, c, e, f, g
<1>3. /\ <<a, b>> \in Seq({a, b}) /\ Len(<<a, b>>) = 2
      /\ <<a, b>>[1] = a /\ <<a, b>>[2] = b
  OBVIOUS
<1>4. IsSeq(<<a, b>>)
  BY <1>3, Narrowed
<1> DEFINE x == <<a, b>>
           h == <<c>>
           u == h \o <<e>>
           v == x \o u
           w == v \o <<f>>
           s == w \o <<g>>
<1>5. IsSeq(h) /\ Len(h) = 1 /\ h[1] = c /\ IsSeq(x) /\ Len(x) = 2 /\ x[1] = a /\ x[2] = b
  BY <1>3, <1>4, Single
<1> HIDE DEF x, h
<1>6. u = h \o <<e>> /\ v = x \o u /\ w = v \o <<f>> /\ s = w \o <<g>>
  OBVIOUS
<1>7. Rebuild = s
  BY <1>2 DEF x, h
<1> HIDE DEF u, v, w, s
<1>8. IsSeq(u) /\ Len(u) = 2 /\ u[1] = c /\ u[2] = e
  <2>1. IsSeq(h) /\ u = h \o <<e>>
    BY <1>5, <1>6
  <2>2. IsSeq(u) /\ Len(u) = Len(h) + 1 /\ u[Len(h) + 1] = e
    BY ONLY <2>1, Appended
  <2>3. \A i \in 1 .. Len(h) : u[i] = h[i]
    BY ONLY <2>1, Appended
  <2> QED
    BY <1>5, <2>2, <2>3
<1>9. IsSeq(v) /\ Len(v) = 4 /\ v[1] = a /\ v[2] = b /\ v[3] = c /\ v[4] = e
  <2>1. IsSeq(x) /\ IsSeq(u) /\ v = x \o u
    BY <1>5, <1>6, <1>8
  <2>2. IsSeq(v) /\ Len(v) = Len(x) + Len(u)
    BY ONLY <2>1, Joint
  <2>3. \A i \in 1 .. Len(x) : v[i] = x[i]
    BY ONLY <2>1, Joint
  <2>4. \A j \in 1 .. Len(u) : v[Len(x) + j] = u[j]
    BY ONLY <2>1, Joint
  <2> QED
    BY <1>5, <1>8, <2>2, <2>3, <2>4
<1>10. IsSeq(w) /\ Len(w) = 5 /\ w[1] = a /\ w[2] = b /\ w[3] = c /\ w[4] = e /\ w[5] = f
  <2>1. IsSeq(v) /\ w = v \o <<f>>
    BY <1>6, <1>9
  <2>2. IsSeq(w) /\ Len(w) = Len(v) + 1 /\ w[Len(v) + 1] = f
    BY ONLY <2>1, Appended
  <2>3. \A i \in 1 .. Len(v) : w[i] = v[i]
    BY ONLY <2>1, Appended
  <2> QED
    BY <1>9, <2>2, <2>3
<1>11. /\ IsSeq(s) /\ Len(s) = 6 /\ s[1] = a /\ s[2] = b /\ s[3] = c /\ s[4] = e /\ s[5] = f
       /\ s[6] = g
  <2>1. IsSeq(w) /\ s = w \o <<g>>
    BY <1>6, <1>10
  <2>2. IsSeq(s) /\ Len(s) = Len(w) + 1 /\ s[Len(w) + 1] = g
    BY ONLY <2>1, Appended
  <2>3. \A i \in 1 .. Len(w) : s[i] = w[i]
    BY ONLY <2>1, Appended
  <2> QED
    BY <1>10, <2>2, <2>3
<1> QED
  BY <1>1, <1>7, <1>11

LEMMA BootShape ==
    ASSUME NEW d
    PROVE  LET s == BootSteps(d) IN
           /\ IsSeq(s)
           /\ \E m \in Nat :
                 /\ \A i \in 1 .. m : CreateOp(s[i]) /\ ~ Has(d, s[i].table)
                 /\ \A t \in Names :
                       Has(d, t) \/ \E i \in 1 .. m : s[i].do = "create" /\ s[i].table = t
                 /\ \/ Len(s) = m + 1 /\ s[m + 1] = Commit
                    \/ /\ Len(s) = m + 7 /\ Has(d, "movies") /\ s[m + 1].do = "setAside"
                       /\ s[m + 2].do = "dropIndex" /\ s[m + 2].table = Kept
                       /\ s[m + 3].do = "create" /\ s[m + 3].table = "movies"
                       /\ s[m + 3].as = Models["movies"]
                       /\ s[m + 4].do = "index" /\ s[m + 4].table = "movies"
                       /\ s[m + 5].do = "carryOver"
                       /\ s[m + 6].do = "drop" /\ s[m + 6].table = Kept
                       /\ s[m + 7] = Commit
<1> DEFINE P == backend = "sqlite" /\ Has(d, "movies") /\ d.tables["movies"].fk
           C == CreateAll(d)
           R == IF P THEN Rebuild ELSE <<>>
           u == C \o R
           s == u \o <<Commit>>
           m == Len(C)
<1>1. BootSteps(d) = s
  BY DEF BootSteps
<1>2. /\ IsSeq(C) /\ m \in Nat
      /\ \A op \in Range(C) : CreateOp(op) /\ ~ Has(d, op.table)
      /\ \A t \in Names : Has(d, t) \/ \E op \in Range(C) : op.do = "create" /\ op.table = t
  BY CreateAllIs
<1>3. /\ IsSeq(R)
      /\ \/ Len(R) = 0
         \/ /\ Len(R) = 6 /\ Has(d, "movies") /\ R[1].do = "setAside"
            /\ R[2].do = "dropIndex" /\ R[2].table = Kept
            /\ R[3].do = "create" /\ R[3].table = "movies" /\ R[3].as = Models["movies"]
            /\ R[4].do = "index" /\ R[4].table = "movies"
            /\ R[5].do = "carryOver" /\ R[6].do = "drop" /\ R[6].table = Kept
  <2>1. CASE P
    <3>1. R = Rebuild
      BY <2>1
    <3> HIDE DEF R
    <3> QED
      BY <2>1, <3>1, RebuildIs
  <2>2. CASE ~ P
    <3>1. R = <<>>
      BY <2>2
    <3> HIDE DEF R
    <3> QED
      BY <3>1, Nothing
  <2> QED
    BY <2>1, <2>2
<1>4. u = C \o R /\ s = u \o <<Commit>>
  OBVIOUS
<1> HIDE DEF C, R, u, s, P, m
<1>5. /\ IsSeq(u) /\ Len(u) = Len(C) + Len(R)
      /\ \A i \in 1 .. Len(C) : u[i] = C[i]
      /\ \A j \in 1 .. Len(R) : u[Len(C) + j] = R[j]
  <2>1. IsSeq(C) /\ IsSeq(R) /\ u = C \o R
    BY <1>2, <1>3, <1>4
  <2>2. IsSeq(u) /\ Len(u) = Len(C) + Len(R)
    BY ONLY <2>1, Joint
  <2>3. \A i \in 1 .. Len(C) : u[i] = C[i]
    BY ONLY <2>1, Joint
  <2>4. \A j \in 1 .. Len(R) : u[Len(C) + j] = R[j]
    BY ONLY <2>1, Joint
  <2> QED
    BY <2>2, <2>3, <2>4
<1>6. /\ IsSeq(s) /\ Len(s) = Len(u) + 1 /\ s[Len(u) + 1] = Commit
      /\ \A i \in 1 .. Len(u) : s[i] = u[i]
  <2>1. IsSeq(u) /\ s = u \o <<Commit>>
    BY <1>4, <1>5
  <2>2. IsSeq(s) /\ Len(s) = Len(u) + 1 /\ s[Len(u) + 1] = Commit
    BY ONLY <2>1, Appended
  <2>3. \A i \in 1 .. Len(u) : s[i] = u[i]
    BY ONLY <2>1, Appended
  <2> QED
    BY <2>2, <2>3
<1>7. \A i \in 1 .. m : C[i] \in Range(C)
  BY <1>2, RangeOf DEF m
<1>8. \A x \in Range(C) : \E i \in 1 .. m : x = C[i]
  BY <1>2, RangeOf DEF m
<1>9. \A i \in 1 .. m : s[i] = C[i]
  <2>1. \A i \in 1 .. m : i \in 1 .. Len(u)
    BY <1>2, <1>3, <1>5 DEF m
  <2> QED
    BY <1>5, <1>6, <2>1 DEF m
<1>10. \A i \in 1 .. m : CreateOp(s[i]) /\ ~ Has(d, s[i].table)
  BY <1>2, <1>7, <1>9
<1>11. \A t \in Names : Has(d, t) \/ \E i \in 1 .. m : s[i].do = "create" /\ s[i].table = t
  BY <1>2, <1>8, <1>9
<1>12. CASE Len(R) = 0
  <2>1. Len(s) = m + 1 /\ s[m + 1] = Commit
    BY <1>2, <1>5, <1>6, <1>12 DEF m
  <2> QED
    BY <1>1, <1>2, <1>6, <1>10, <1>11, <2>1
<1>13. CASE Len(R) # 0
  <2>1. Len(u) = m + 6 /\ \A j \in 1 .. 6 : u[m + j] = R[j]
    BY <1>3, <1>5, <1>13 DEF m
  <2>2. Len(s) = m + 7 /\ s[m + 7] = Commit
    BY <1>2, <1>6, <2>1
  <2>3. \A j \in 1 .. 6 : s[m + j] = R[j]
    <3>1. \A j \in 1 .. 6 : m + j \in 1 .. Len(u)
      BY <1>2, <2>1
    <3> QED
      BY <1>6, <2>1, <3>1
  <2>4. /\ s[m + 1] = R[1] /\ s[m + 2] = R[2] /\ s[m + 3] = R[3] /\ s[m + 4] = R[4]
        /\ s[m + 5] = R[5] /\ s[m + 6] = R[6]
    BY <2>3
  <2>5. /\ Len(s) = m + 7 /\ Has(d, "movies") /\ s[m + 1].do = "setAside"
        /\ s[m + 2].do = "dropIndex" /\ s[m + 2].table = Kept
        /\ s[m + 3].do = "create" /\ s[m + 3].table = "movies"
        /\ s[m + 3].as = Models["movies"]
        /\ s[m + 4].do = "index" /\ s[m + 4].table = "movies"
        /\ s[m + 5].do = "carryOver"
        /\ s[m + 6].do = "drop" /\ s[m + 6].table = Kept
        /\ s[m + 7] = Commit
    BY <1>3, <1>13, <2>2, <2>4
  <2> QED
    BY <1>1, <1>2, <1>6, <1>10, <1>11, <2>5
<1> QED
  BY <1>12, <1>13

(* A statement of a start that neither makes nor drops anything it should not. *)
LEMMA BootOps ==
    ASSUME NEW op, Step("boot", op)
    PROVE  /\ op.do \in {"commit", "create", "index", "setAside", "carryOver", "drop",
                         "dropIndex"}
           /\ ~ DropsMovies(op)
           /\ op.do = "drop" => op.table = Kept
           /\ op.do = "dropIndex" => op.table = Kept
           /\ op.do = "create" => op.table \in Names /\ op.as = Models[op.table]
           /\ op.do = "index" => op.table = "movies"
<1>1. op = Commit => op.do = "commit"
  BY CommitIs
<1>2. Kept # "movies"
  BY KeptIsNoName
<1> QED
  BY <1>1, <1>2 DEF Step, BootOp, CreateOp, DropsMovies

LEMMA BootProgram ==
    ASSUME NEW d
    PROVE  LET s == BootSteps(d) IN
           /\ IsSeq(s) /\ s # <<>> /\ s[Len(s)] = Commit
           /\ \A op \in Range(s) : Step("boot", op)
           /\ CopiesSwapped(s) /\ InTurn(s) /\ MadeFirst(s)
           /\ (\E op \in Range(s) : op.do = "setAside") => Has(d, "movies")
           /\ ~ DropsKept(s[1])
           /\ (\E op \in Range(s) : op.do = "carryOver" \/ DropsKept(op))
                 => \E op \in Range(s) : op.do = "setAside"
           /\ \A t \in Names :
                 \/ Has(d, t) /\ (t = "movies" => \A op \in Range(s) : op.do # "setAside")
                 \/ \E op \in Range(s) : op.do = "create" /\ op.table = t
           /\ backend = "postgresql" /\ d = Untouched => Doomed(s)
<1> DEFINE s == BootSteps(d)
           Plain(m)   == Len(s) = m + 1 /\ s[m + 1] = Commit
           Rebuilt(m) ==
               /\ Len(s) = m + 7 /\ Has(d, "movies") /\ s[m + 1].do = "setAside"
               /\ s[m + 2].do = "dropIndex" /\ s[m + 2].table = Kept
               /\ s[m + 3].do = "create" /\ s[m + 3].table = "movies"
               /\ s[m + 3].as = Models["movies"]
               /\ s[m + 4].do = "index" /\ s[m + 4].table = "movies"
               /\ s[m + 5].do = "carryOver"
               /\ s[m + 6].do = "drop" /\ s[m + 6].table = Kept
               /\ s[m + 7] = Commit
<1>1. IsSeq(s)
  BY BootShape
<1>2. PICK m \in Nat :
         /\ \A i \in 1 .. m : CreateOp(s[i]) /\ ~ Has(d, s[i].table)
         /\ \A t \in Names :
               Has(d, t) \/ \E i \in 1 .. m : s[i].do = "create" /\ s[i].table = t
         /\ Plain(m) \/ Rebuilt(m)
  BY BootShape
<1> HIDE DEF s
<1>3. Len(s) \in Nat /\ \A i \in 1 .. m : i \in 1 .. Len(s)
  BY <1>2
<1>4. \A i \in 1 .. Len(s) :
         \/ i \in 1 .. m
         \/ s[i] = Commit /\ i = Len(s)
         \/ Rebuilt(m) /\ (i = m + 1 \/ i = m + 2 \/ i = m + 3 \/ i = m + 4 \/ i = m + 5
                           \/ i = m + 6)
  <2>1. Plain(m) => \A i \in 1 .. Len(s) : i \in 1 .. m \/ (s[i] = Commit /\ i = Len(s))
    BY <1>2
  <2>2. CASE Rebuilt(m)
    <3>1. Len(s) = m + 7 /\ s[m + 7] = Commit
      BY <2>2
    <3>2. \A i \in 1 .. Len(s) :
             \/ i \in 1 .. m
             \/ i = m + 7
             \/ i = m + 1 \/ i = m + 2 \/ i = m + 3 \/ i = m + 4 \/ i = m + 5 \/ i = m + 6
      BY <1>2, <3>1
    <3> HIDE DEF Rebuilt
    <3> QED
      BY <2>2, <3>1, <3>2
  <2> QED
    BY <1>2, <2>1, <2>2
<1>5. \A i \in 1 .. Len(s) :
         /\ Step("boot", s[i])
         /\ s[i].do = "setAside" => Rebuilt(m) /\ i = m + 1
         /\ s[i].do = "carryOver" => Rebuilt(m) /\ i = m + 5
         /\ DropsKept(s[i]) => Rebuilt(m) /\ i = m + 6
         /\ MakesMovies(s[i]) => i < m + 4
  <2> TAKE i \in 1 .. Len(s)
  <2>1. CASE i \in 1 .. m
    <3>1. CreateOp(s[i])
      BY <1>2, <2>1
    <3>2. s[i].do \in {"create", "index"} /\ i < m + 4
      BY <1>2, <2>1, <3>1 DEF CreateOp
    <3> QED
      BY <3>1, <3>2 DEF Step, BootOp, DropsKept
  <2>2. CASE s[i] = Commit
    BY <2>2, CommitIs DEF Step, DropsKept, MakesMovies
  <2>3. CASE Rebuilt(m) /\ i = m + 1
    BY <1>2, <2>3 DEF Step, BootOp, DropsKept, MakesMovies
  <2>4. CASE Rebuilt(m) /\ i = m + 2
    BY <1>2, <2>4 DEF Step, BootOp, DropsKept, MakesMovies
  <2>5. CASE Rebuilt(m) /\ i = m + 3
    <3>1. /\ s[i].do = "create" /\ s[i].table = "movies" /\ s[i].as = Models["movies"]
          /\ i < m + 4
      BY <1>2, <2>5
    <3>2. CreateOp(s[i])
      BY <3>1, KeptIsNoName DEF CreateOp
    <3> QED
      BY <3>1, <3>2 DEF Step, BootOp, DropsKept
  <2>6. CASE Rebuilt(m) /\ i = m + 4
    BY <1>2, <2>6 DEF Step, BootOp, CreateOp, DropsKept, MakesMovies
  <2>7. CASE Rebuilt(m) /\ i = m + 5
    BY <1>2, <2>7 DEF Step, BootOp, DropsKept, MakesMovies
  <2>8. CASE Rebuilt(m) /\ i = m + 6
    BY <1>2, <2>8 DEF Step, BootOp, DropsKept, MakesMovies
  <2> HIDE DEF Rebuilt
  <2> QED
    BY <1>4, <2>1, <2>2, <2>3, <2>4, <2>5, <2>6, <2>7, <2>8
<1>6. \A op \in Range(s) : \E i \in 1 .. Len(s) : op = s[i]
  BY <1>1, RangeOf
<1>7. \A i \in 1 .. Len(s) : s[i] \in Range(s)
  BY <1>1, RangeOf
<1>8. Len(s) > 0 /\ s[Len(s)] = Commit /\ s # <<>>
  <2>1. Len(s) > 0 /\ s[Len(s)] = Commit
    BY <1>2
  <2> QED
    BY <2>1, Nothing
<1>9. \A op \in Range(s) : Step("boot", op)
  BY <1>5, <1>6
<1>10. CopiesSwapped(s) /\ MadeFirst(s)
  <2>1. \A i \in 1 .. Len(s) : s[i].do # "fillCopy" /\ s[i].do # "stamp"
    BY <1>5, BootOps
  <2> QED
    BY <2>1 DEF CopiesSwapped, MadeFirst
<1>11. Rebuilt(m) => /\ Len(s) = m + 7 /\ m + 1 \in 1 .. Len(s) /\ m + 3 \in 1 .. Len(s)
                     /\ MakesMovies(s[m + 3]) /\ s[m + 1].do = "setAside"
                     /\ s[m + 5].do = "carryOver" /\ DropsKept(s[m + 6])
                     /\ Has(d, "movies")
  BY <1>2 DEF MakesMovies, DropsKept
<1> HIDE DEF Rebuilt, Plain
<1>12. InTurn(s)
  <2>1. SUFFICES ASSUME NEW i \in 1 .. Len(s)
                 PROVE  /\ s[i].do = "setAside" =>
                             /\ \E j \in i + 1 .. Len(s) : MakesMovies(s[j])
                             /\ \A j \in i + 1 .. Len(s) : s[j].do # "setAside"
                        /\ s[i].do = "carryOver" =>
                             /\ i < Len(s) /\ DropsKept(s[i + 1])
                             /\ \A j \in i + 1 .. Len(s) :
                                   s[j].do \notin {"setAside", "carryOver"}
                        /\ DropsKept(s[i]) =>
                             /\ i # 1 => s[i - 1].do = "carryOver"
                             /\ \A j \in i + 1 .. Len(s) :
                                   s[j].do # "setAside" /\ ~ MakesMovies(s[j])
    BY DEF InTurn
  <2>2. \A j \in i + 1 .. Len(s) : j \in 1 .. Len(s) /\ j > i
    BY <1>3
  <2>3. CASE s[i].do = "setAside"
    <3>1. Rebuilt(m) /\ i = m + 1
      BY <1>5, <2>3
    <3>2. m + 3 \in i + 1 .. Len(s) /\ MakesMovies(s[m + 3])
      BY <1>2, <1>11, <3>1
    <3>3. \A j \in i + 1 .. Len(s) : s[j].do # "setAside"
      <4> TAKE j \in i + 1 .. Len(s)
      <4>1. j \in 1 .. Len(s) /\ j # m + 1
        BY <1>2, <2>2, <3>1
      <4> QED
        BY <1>5, <4>1
    <3> QED
      BY <2>3, <3>2, <3>3 DEF DropsKept
  <2>4. CASE s[i].do = "carryOver"
    <3>1. Rebuilt(m) /\ i = m + 5
      BY <1>5, <2>4
    <3>2. i < Len(s) /\ i + 1 = m + 6
      BY <1>2, <1>11, <3>1
    <3>3. \A j \in i + 1 .. Len(s) : s[j].do \notin {"setAside", "carryOver"}
      <4> TAKE j \in i + 1 .. Len(s)
      <4>1. j \in 1 .. Len(s) /\ j # m + 1 /\ j # m + 5
        BY <1>2, <2>2, <3>1
      <4> QED
        BY <1>5, <4>1
    <3> QED
      BY <1>11, <2>4, <3>1, <3>2, <3>3 DEF DropsKept
  <2>5. CASE DropsKept(s[i])
    <3>1. Rebuilt(m) /\ i = m + 6
      BY <1>5, <2>5
    <3>2. i - 1 = m + 5
      BY <1>2, <3>1
    <3>3. \A j \in i + 1 .. Len(s) : s[j].do # "setAside" /\ ~ MakesMovies(s[j])
      <4> TAKE j \in i + 1 .. Len(s)
      <4>1. j \in 1 .. Len(s) /\ j # m + 1 /\ ~ (j < m + 4)
        BY <1>2, <2>2, <3>1
      <4> QED
        BY <1>5, <4>1
    <3> QED
      BY <1>11, <2>5, <3>1, <3>2, <3>3 DEF DropsKept
  <2> QED
    BY <2>3, <2>4, <2>5
<1>13. ~ DropsKept(s[1])
  <2>1. 1 \in 1 .. Len(s) /\ 1 # m + 6
    BY <1>2, <1>3, <1>8
  <2> QED
    BY <1>5, <2>1
<1>14. (\E op \in Range(s) : op.do = "setAside") => Has(d, "movies")
  BY <1>5, <1>6, <1>11
<1>15. (\E op \in Range(s) : op.do = "carryOver" \/ DropsKept(op))
          => \E op \in Range(s) : op.do = "setAside"
  BY <1>5, <1>6, <1>7, <1>11
<1>16. ASSUME NEW t \in Names
       PROVE  \/ Has(d, t) /\ (t = "movies" => \A op \in Range(s) : op.do # "setAside")
              \/ \E op \in Range(s) : op.do = "create" /\ op.table = t
  <2>1. CASE t = "movies" /\ Rebuilt(m)
    BY <1>7, <1>11, <2>1 DEF MakesMovies
  <2>2. CASE ~ (t = "movies" /\ Rebuilt(m))
    <3>1. t = "movies" => \A op \in Range(s) : op.do # "setAside"
      BY <1>5, <1>6, <2>2
    <3> QED
      BY <1>2, <1>3, <1>7, <3>1
  <2> QED
    BY <2>1, <2>2
<1>17. ASSUME backend = "postgresql", d = Untouched PROVE Doomed(s)
  <2>1. "backup_records" \in Names /\ ~ Has(d, "backup_records")
    BY <1>17, NamesAre DEF Untouched, Has
  <2>2. PICK i \in 1 .. m : s[i].do = "create" /\ s[i].table = "backup_records"
    BY <1>2, <2>1
  <2>3. CreateOp(s[i])
    BY <1>2
  <2>4. Refused(s[i])
    BY <1>17, <2>2, <2>3 DEF Refused, CreateOp, BadDefault, LowercaseDefaults
  <2>5. \A q \in 1 .. i : s[q].do # "commit"
    <3> TAKE q \in 1 .. i
    <3>1. q \in 1 .. m
      BY <1>2
    <3> QED
      BY <1>2, <3>1 DEF CreateOp
  <2> QED
    BY <1>3, <2>4, <2>5 DEF Doomed
<1> QED
  BY <1>1, <1>8, <1>9, <1>10, <1>12, <1>13, <1>14, <1>15, <1>16, <1>17 DEF s

-----------------------------------------------------------------------------
(* What a statement leaves: the version, the rows, the tables, the columns.*)
Effect(d, op, e) ==
    /\ e.stamp = IF op.do = "stamp" THEN op.rev ELSE d.stamp
    /\ e.rows["movies"] = IF op.do = "setAside" \/ DropsMovies(op) THEN {}
                          ELSE IF op.do = "carryOver" THEN d.rows[Kept] ELSE d.rows["movies"]
    /\ e.rows[Kept] = IF DropsKept(op) THEN {}
                      ELSE IF op.do = "setAside" THEN d.rows["movies"] ELSE d.rows[Kept]
    /\ e.rows["copy"] = IF op.do = "fillCopy" /\ op.table = "movies" THEN d.rows["movies"]
                        ELSE IF op.do = "swap" /\ op.table = "movies" THEN {}
                        ELSE d.rows["copy"]
    /\ \A t : Has(e, t) <=>
          \/ op.do = "create" /\ op.table = t
          \/ op.do = "setAside" /\ t = Kept
          \/ Has(d, t) /\ ~ (op.do = "drop" /\ op.table = t)
                       /\ ~ (op.do = "setAside" /\ t = "movies")
    /\ \A t : Has(e, t) =>
          \/ /\ op.do = "create" /\ op.table = t
             /\ e.tables[t].cols = op.as.cols /\ e.tables[t].id = op.as.id
          \/ op.do = "setAside" /\ t = Kept /\ e.tables[t].cols = d.tables["movies"].cols
          \/ /\ Has(d, t) /\ op.do \in {"add", "swap"} /\ op.table = t
             /\ e.tables[t].cols = (d.tables[t].cols \cup op.cols) \ op.gone
             /\ e.tables[t].id = d.tables[t].id
          \/ /\ Has(d, t) /\ ~ (op.do \in {"create", "add", "swap"} /\ op.table = t)
             /\ e.tables[t].cols = d.tables[t].cols /\ e.tables[t].id = d.tables[t].id

TableName(t) == t \in Names \cup {Kept}

WellMade(T) ==
    /\ T = [t \in DOMAIN T |-> T[t]] /\ DOMAIN T \subseteq Names \cup {Kept}
    /\ \A t \in DOMAIN T : IsTable(T[t])

LEMMA StoresAre ==
    /\ Kept # "movies" /\ Kept # "copy" /\ "movies" # "copy" /\ "copy" \notin Names
    /\ "movies" \in Stores /\ Kept \in Stores /\ "copy" \in Stores
BY NamesAre DEF Stores, Kept

LEMMA Built ==
    ASSUME NEW T, WellMade(T), NEW C \in SUBSET Names, NEW r \in 0 .. HeadRevision,
           NEW R \in [Stores -> SUBSET Films]
    PROVE  LET e == [tables |-> T, copies |-> C, stamp |-> r, rows |-> R] IN
           /\ Database(e) /\ e.tables = T /\ e.copies = C /\ e.stamp = r /\ e.rows = R
BY DEF Database, WellMade

LEMMA DatabaseIs ==
    ASSUME NEW d, Database(d)
    PROVE  /\ d = [tables |-> d.tables, copies |-> d.copies, stamp |-> d.stamp, rows |-> d.rows]
           /\ WellMade(d.tables) /\ d.copies \in SUBSET Names /\ d.stamp \in 0 .. HeadRevision
           /\ d.rows \in [Stores -> SUBSET Films]
BY DEF Database, WellMade

LEMMA WithIs ==
    ASSUME NEW T, WellMade(T), NEW x, IsTable(x), NEW t, TableName(t),
           NEW U, U = With(T, t, x)
    PROVE  WellMade(U) /\ DOMAIN U = DOMAIN T \cup {t}
<1>1. U = [s \in DOMAIN T \cup {t} |-> IF s = t THEN x ELSE T[s]]
  BY DEF With
<1>2. DOMAIN U = DOMAIN T \cup {t} /\ U[t] = x /\ \A s \in DOMAIN T : s # t => U[s] = T[s]
  BY <1>1
<1>3. U = [s \in DOMAIN U |-> U[s]]
  BY <1>1, <1>2
<1>4. \A s \in DOMAIN U : IsTable(U[s])
  BY <1>2 DEF WellMade
<1>5. DOMAIN U \subseteq Names \cup {Kept}
  BY <1>2 DEF WellMade, TableName
<1> QED
  BY <1>2, <1>3, <1>4, <1>5 DEF WellMade

LEMMA WithoutIs ==
    ASSUME NEW T, WellMade(T), NEW t
    PROVE  LET U == Without(T, t) IN
           /\ WellMade(U) /\ DOMAIN U = DOMAIN T \ {t}
           /\ \A s \in DOMAIN T : s # t => U[s] = T[s]
<1> DEFINE U == Without(T, t)
<1>1. U = [s \in DOMAIN T \ {t} |-> T[s]]
  BY DEF Without
<1> HIDE DEF U
<1>2. DOMAIN U = DOMAIN T \ {t} /\ \A s \in DOMAIN T : s # t => U[s] = T[s]
  BY <1>1
<1>3. U = [s \in DOMAIN U |-> U[s]]
  BY <1>1, <1>2
<1>4. \A s \in DOMAIN U : IsTable(U[s])
  BY <1>2 DEF WellMade
<1>5. WellMade(U)
  BY <1>2, <1>3, <1>4 DEF WellMade
<1> QED
  BY <1>2, <1>5 DEF U

LEMMA ChangedIs ==
    ASSUME NEW T, WellMade(T), NEW t, NEW x, IsTable(x)
    PROVE  LET U == [T EXCEPT ![t] = x] IN
           /\ WellMade(U) /\ DOMAIN U = DOMAIN T /\ (t \in DOMAIN T => U[t] = x)
           /\ \A s \in DOMAIN T : s # t => U[s] = T[s]
<1> DEFINE U == [T EXCEPT ![t] = x]
<1>1. DOMAIN U = DOMAIN T /\ \A s \in DOMAIN T : U[s] = IF s = t THEN x ELSE T[s]
  OBVIOUS
<1>2. U = [s \in DOMAIN T |-> U[s]]
  BY DEF WellMade
<1> HIDE DEF U
<1>3. WellMade(U)
  BY <1>1, <1>2 DEF WellMade
<1> QED
  BY <1>1, <1>3 DEF U

(* A table whose index, or whose columns, are changed.                     *)
LEMMA TableChanged ==
    ASSUME NEW x, IsTable(x), NEW b, NEW cols
    PROVE  /\ IsTable([x EXCEPT !.indexed = b])
           /\ [x EXCEPT !.indexed = b].cols = x.cols /\ [x EXCEPT !.indexed = b].id = x.id
           /\ IsTable([x EXCEPT !.cols = cols])
           /\ [x EXCEPT !.cols = cols].cols = cols /\ [x EXCEPT !.cols = cols].id = x.id
<1> DEFINE y == [cols |-> x.cols, id |-> x.id, fk |-> x.fk, indexed |-> x.indexed]
<1>1. x = y
  BY DEF IsTable
<1>2. [y EXCEPT !.indexed = b] = [cols |-> x.cols, id |-> x.id, fk |-> x.fk, indexed |-> b]
  OBVIOUS
<1>3. [y EXCEPT !.cols = cols] = [cols |-> cols, id |-> x.id, fk |-> x.fk,
                                  indexed |-> x.indexed]
  OBVIOUS
<1> HIDE DEF y
<1>4. /\ [x EXCEPT !.indexed = b] = [cols |-> x.cols, id |-> x.id, fk |-> x.fk, indexed |-> b]
      /\ [x EXCEPT !.cols = cols] = [cols |-> cols, id |-> x.id, fk |-> x.fk,
                                     indexed |-> x.indexed]
  BY <1>1, <1>2, <1>3
<1> QED
  BY <1>4 DEF IsTable

LEMMA Updated ==
    ASSUME NEW d, Database(d), NEW T, NEW C, NEW r, NEW R
    PROVE  /\ [d EXCEPT !.tables = T] =
                  [tables |-> T, copies |-> d.copies, stamp |-> d.stamp, rows |-> d.rows]
           /\ [d EXCEPT !.copies = C] =
                  [tables |-> d.tables, copies |-> C, stamp |-> d.stamp, rows |-> d.rows]
           /\ [d EXCEPT !.stamp = r] =
                  [tables |-> d.tables, copies |-> d.copies, stamp |-> r, rows |-> d.rows]
           /\ [d EXCEPT !.rows = R] =
                  [tables |-> d.tables, copies |-> d.copies, stamp |-> d.stamp, rows |-> R]
           /\ [d EXCEPT !.tables = T, !.rows = R] =
                  [tables |-> T, copies |-> d.copies, stamp |-> d.stamp, rows |-> R]
<1> DEFINE a == d.tables
           b == d.copies
           c == d.stamp
           w == d.rows
           y == [tables |-> a, copies |-> b, stamp |-> c, rows |-> w]
<1>1. d = y
  BY DEF Database
<1> HIDE DEF a, b, c, w
<1>2. [y EXCEPT !.tables = T] = [tables |-> T, copies |-> b, stamp |-> c, rows |-> w]
  OBVIOUS
<1>3. [y EXCEPT !.copies = C] = [tables |-> a, copies |-> C, stamp |-> c, rows |-> w]
  OBVIOUS
<1>4. [y EXCEPT !.stamp = r] = [tables |-> a, copies |-> b, stamp |-> r, rows |-> w]
  OBVIOUS
<1>5. [y EXCEPT !.rows = R] = [tables |-> a, copies |-> b, stamp |-> c, rows |-> R]
  OBVIOUS
<1>6. [y EXCEPT !.tables = T, !.rows = R] =
         [tables |-> T, copies |-> b, stamp |-> c, rows |-> R]
  <2> DEFINE z == [y EXCEPT !.tables = T, !.rows = R]
  <2>1. z = [z0 \in {"tables", "copies", "stamp", "rows"} |-> z[z0]]
    OBVIOUS
  <2>2. z.tables = T /\ z.copies = b /\ z.stamp = c /\ z.rows = R
    OBVIOUS
  <2> HIDE DEF z
  <2>3. z = [tables |-> T, copies |-> b, stamp |-> c, rows |-> R]
    BY <2>1, <2>2
  <2> QED
    BY <2>3 DEF z
<1> HIDE DEF y
<1> QED
  BY <1>1, <1>2, <1>3, <1>4, <1>5, <1>6 DEF a, b, c, w

LEMMA UpdatedAll ==
    ASSUME NEW d, Database(d), NEW T, NEW C, NEW R
    PROVE  [d EXCEPT !.tables = T, !.copies = C, !.rows = R] =
               [tables |-> T, copies |-> C, stamp |-> d.stamp, rows |-> R]
<1> DEFINE b == d.copies
           w == d.rows
           a == d.tables
           c == d.stamp
           y == [tables |-> a, copies |-> b, stamp |-> c, rows |-> w]
<1>1. d = y
  BY DEF Database
<1> HIDE DEF a, b, c, w
<1> DEFINE z == [y EXCEPT !.tables = T, !.copies = C, !.rows = R]
<1>2. z = [k \in {"tables", "copies", "stamp", "rows"} |-> z[k]]
  OBVIOUS
<1>3. z.tables = T /\ z.copies = C /\ z.stamp = c /\ z.rows = R
  OBVIOUS
<1> HIDE DEF z
<1>4. z = [tables |-> T, copies |-> C, stamp |-> c, rows |-> R]
  BY <1>2, <1>3
<1> HIDE DEF y
<1> QED
  BY <1>1, <1>4 DEF z, c

LEMMA CreateDone ==
    ASSUME NEW d, Database(d), NEW op, op.do = "create", op.table \in Names, IsTable(op.as)
    PROVE  Database(Apply(d, op)) /\ Effect(d, op, Apply(d, op))
<1> DEFINE e == Apply(d, op)
           t == op.table
           b == t # "movies"
           x == [op.as EXCEPT !.indexed = b]
           T == With(d.tables, t, x)
<1>1. e = [d EXCEPT !.tables = T]
  BY DEF Apply
<1>2. IsTable(x) /\ x.cols = op.as.cols /\ x.id = op.as.id
  BY TableChanged
<1>3. T = With(d.tables, t, x)
  OBVIOUS
<1> HIDE DEF e, b, x, T
<1>4. /\ WellMade(T) /\ DOMAIN T = DOMAIN d.tables \cup {t} /\ T[t] = x
      /\ \A s \in DOMAIN d.tables : s # t => T[s] = d.tables[s]
  <2> DEFINE S == d.tables
  <2>1. TableName(t) /\ WellMade(S) /\ IsTable(x) /\ T = With(S, t, x)
    BY <1>2, <1>3, DatabaseIs DEF TableName
  <2> HIDE DEF S, t
  <2>2. WellMade(T) /\ DOMAIN T = DOMAIN S \cup {t}
    BY ONLY <2>1, WithIs
  <2>3. T[t] = x
    BY ONLY <2>1 DEF With
  <2>4. \A s \in DOMAIN S : s # t => T[s] = S[s]
    BY ONLY <2>1 DEF With
  <2> QED
    BY <2>2, <2>3, <2>4 DEF S, t
<1>5. e = [tables |-> T, copies |-> d.copies, stamp |-> d.stamp, rows |-> d.rows]
  BY <1>1, Updated
<1>6. Database(e) /\ e.tables = T /\ e.stamp = d.stamp /\ e.rows = d.rows
  BY <1>4, <1>5, DatabaseIs, Built
<1>7. \A s : Has(e, s) <=> s = t \/ Has(d, s)
  BY <1>4, <1>6 DEF Has
<1>8. \A s : Has(e, s) =>
         \/ s = t /\ e.tables[s].cols = op.as.cols /\ e.tables[s].id = op.as.id
         \/ s # t /\ Has(d, s) /\ e.tables[s] = d.tables[s]
  BY <1>2, <1>4, <1>6 DEF Has
<1>9. Effect(d, op, e)
  BY <1>6, <1>7, <1>8 DEF Effect, DropsMovies, DropsKept
<1> QED
  BY <1>6, <1>9 DEF e

LEMMA IndexDone ==
    ASSUME NEW d, Database(d), NEW op, op.do = "index" \/ op.do = "dropIndex"
    PROVE  Database(Apply(d, op)) /\ Effect(d, op, Apply(d, op))
<1> DEFINE e == Apply(d, op)
           t == op.table
           b == op.do = "index"
           x == [d.tables[t] EXCEPT !.indexed = b]
           T == [d.tables EXCEPT ![t] = x]
<1>1. e = d \/ e = [d EXCEPT !.tables = T]
  BY DEF Apply
<1>2. t \in DOMAIN d.tables =>
         IsTable(x) /\ x.cols = d.tables[t].cols /\ x.id = d.tables[t].id
  BY TableChanged DEF Database
<1> HIDE DEF e, b, x
<1>3. /\ WellMade(T) /\ DOMAIN T = DOMAIN d.tables
      /\ t \in DOMAIN d.tables => T[t] = x
      /\ \A s \in DOMAIN d.tables : s # t => T[s] = d.tables[s]
  <2>1. CASE t \in DOMAIN d.tables
    BY <1>2, <2>1, DatabaseIs, ChangedIs
  <2>2. CASE t \notin DOMAIN d.tables
    <3>1. T = d.tables
      BY <2>2 DEF Database
    <3> QED
      BY <2>2, <3>1, DatabaseIs
  <2> QED
    BY <2>1, <2>2
<1> HIDE DEF T
<1>4. e = d \/ e = [tables |-> T, copies |-> d.copies, stamp |-> d.stamp, rows |-> d.rows]
  BY <1>1, Updated
<1>5. Database(e) /\ e.stamp = d.stamp /\ e.rows = d.rows /\ (e.tables = d.tables \/ e.tables = T)
  BY <1>3, <1>4, DatabaseIs, Built
<1>6. \A s : Has(e, s) <=> Has(d, s)
  BY <1>3, <1>5 DEF Has
<1>7. \A s : Has(d, s) => /\ e.tables[s].cols = d.tables[s].cols
                         /\ e.tables[s].id = d.tables[s].id
  BY <1>2, <1>3, <1>5 DEF Has
<1>8. Effect(d, op, e)
  BY <1>5, <1>6, <1>7 DEF Effect, DropsMovies, DropsKept
<1> QED
  BY <1>5, <1>8 DEF e

LEMMA ColumnsDone ==
    ASSUME NEW d, Database(d), NEW op, op.do = "add" \/ op.do = "swap", Has(d, op.table)
    PROVE  Database(Apply(d, op)) /\ Effect(d, op, Apply(d, op))
<1> DEFINE e == Apply(d, op)
           t == op.table
           c == (d.tables[t].cols \cup op.cols) \ op.gone
           x == Reshaped(d.tables[t], op)
           T == [d.tables EXCEPT ![t] = x]
           C == d.copies \ {t}
           R == [d.rows EXCEPT !["copy"] = IF t = "movies" THEN {} ELSE d.rows["copy"]]
<1>1. IF op.do = "add" THEN e = [d EXCEPT !.tables = T]
      ELSE e = [d EXCEPT !.tables = T, !.copies = C, !.rows = R]
  BY DEF Apply
<1>2. IsTable(x) /\ x.cols = c /\ x.id = d.tables[t].id
  <2>1. x = [d.tables[t] EXCEPT !.cols = c]
    BY DEF Reshaped
  <2>2. IsTable(d.tables[t])
    BY DEF Database, Has
  <2> HIDE DEF x, c
  <2> QED
    BY <2>1, <2>2, TableChanged
<1> HIDE DEF e, x
<1>3. /\ WellMade(T) /\ DOMAIN T = DOMAIN d.tables /\ T[t] = x
      /\ \A s \in DOMAIN d.tables : s # t => T[s] = d.tables[s]
  BY <1>2, DatabaseIs, ChangedIs DEF Has
<1>4. /\ R \in [Stores -> SUBSET Films]
      /\ R["copy"] = IF t = "movies" THEN {} ELSE d.rows["copy"]
      /\ R["movies"] = d.rows["movies"] /\ R[Kept] = d.rows[Kept]
  <2>1. d.rows \in [Stores -> SUBSET Films]
    BY DatabaseIs
  <2> QED
    BY <2>1, StoresAre
<1>5. C \in SUBSET Names
  BY DatabaseIs
<1> HIDE DEF T, R, C
<1>6. IF op.do = "add"
      THEN e = [tables |-> T, copies |-> d.copies, stamp |-> d.stamp, rows |-> d.rows]
      ELSE e = [tables |-> T, copies |-> C, stamp |-> d.stamp, rows |-> R]
  <2>1. CASE op.do = "add"
    BY <1>1, <2>1, Updated
  <2>2. CASE op.do = "swap"
    <3>1. e = [d EXCEPT !.tables = T, !.copies = C, !.rows = R]
      BY <1>1, <2>2
    <3>2. e = [tables |-> T, copies |-> C, stamp |-> d.stamp, rows |-> R]
      BY <3>1, UpdatedAll
    <3> QED
      BY <2>2, <3>2
  <2> QED
    BY <2>1, <2>2
<1>7. /\ Database(e) /\ e.stamp = d.stamp /\ e.tables = T
      /\ e.rows = IF op.do = "add" THEN d.rows ELSE R
  BY <1>3, <1>4, <1>5, <1>6, DatabaseIs, Built
<1>8. \A s : Has(e, s) <=> Has(d, s)
  BY <1>3, <1>7 DEF Has
<1>9. \A s : Has(d, s) =>
         \/ s = t /\ e.tables[s].cols = c /\ e.tables[s].id = d.tables[s].id
         \/ s # t /\ e.tables[s] = d.tables[s]
  BY <1>2, <1>3, <1>7 DEF Has
<1>10. /\ e.rows["movies"] = d.rows["movies"] /\ e.rows[Kept] = d.rows[Kept]
       /\ e.rows["copy"] = IF op.do = "swap" /\ t = "movies" THEN {} ELSE d.rows["copy"]
  BY <1>4, <1>7
<1>11. Effect(d, op, e)
  BY <1>7, <1>8, <1>9, <1>10 DEF Effect, DropsMovies, DropsKept
<1> QED
  BY <1>7, <1>11 DEF e

LEMMA DropDone ==
    ASSUME NEW d, Database(d), NEW op, op.do = "drop", op.table \in Names \cup {Kept}
    PROVE  Database(Apply(d, op)) /\ Effect(d, op, Apply(d, op))
<1> DEFINE e == Apply(d, op)
           t == op.table
           T == Without(d.tables, t)
           R == [s \in Stores |-> IF s = t THEN {} ELSE d.rows[s]]
<1>1. e = [d EXCEPT !.tables = T, !.rows = R]
  BY DEF Apply
<1> HIDE DEF e
<1>2. /\ WellMade(T) /\ DOMAIN T = DOMAIN d.tables \ {t}
      /\ \A s \in DOMAIN d.tables : s # t => T[s] = d.tables[s]
  BY DatabaseIs, WithoutIs
<1>3. /\ R \in [Stores -> SUBSET Films] /\ R["copy"] = d.rows["copy"]
      /\ R["movies"] = IF t = "movies" THEN {} ELSE d.rows["movies"]
      /\ R[Kept] = IF t = Kept THEN {} ELSE d.rows[Kept]
  <2>1. d.rows \in [Stores -> SUBSET Films]
    BY DatabaseIs
  <2> QED
    BY <2>1, StoresAre
<1> HIDE DEF T, R
<1>4. e = [tables |-> T, copies |-> d.copies, stamp |-> d.stamp, rows |-> R]
  BY <1>1, Updated
<1>5. Database(e) /\ e.stamp = d.stamp /\ e.tables = T /\ e.rows = R
  BY <1>2, <1>3, <1>4, DatabaseIs, Built
<1>6. \A s : Has(e, s) <=> s # t /\ Has(d, s)
  BY <1>2, <1>5 DEF Has
<1>7. \A s : Has(e, s) => e.tables[s] = d.tables[s]
  BY <1>2, <1>5 DEF Has
<1>8. Effect(d, op, e)
  BY <1>3, <1>5, <1>6, <1>7 DEF Effect, DropsMovies, DropsKept
<1> QED
  BY <1>5, <1>8 DEF e

LEMMA CopyDone ==
    ASSUME NEW d, Database(d), NEW op,
           \/ op.do = "makeCopy" /\ op.table \in Names
           \/ op.do \in {"fillCopy", "carryOver"}
           \/ op.do = "stamp" /\ op.rev \in 0 .. HeadRevision
    PROVE  Database(Apply(d, op)) /\ Effect(d, op, Apply(d, op))
<1> DEFINE e == Apply(d, op)
           t == op.table
           C == d.copies \cup {t}
           r == op.rev
           F == [d.rows EXCEPT !["copy"] = d.rows[t]]
           G == [d.rows EXCEPT !["movies"] = d.rows[Kept]]
<1>1. d.rows \in [Stores -> SUBSET Films] /\ d.copies \in SUBSET Names
  BY DatabaseIs
<1>2. /\ t = "movies" => /\ F \in [Stores -> SUBSET Films] /\ F["copy"] = d.rows["movies"]
                         /\ F["movies"] = d.rows["movies"] /\ F[Kept] = d.rows[Kept]
      /\ G \in [Stores -> SUBSET Films] /\ G["copy"] = d.rows["copy"]
      /\ G["movies"] = d.rows[Kept] /\ G[Kept] = d.rows[Kept]
  BY <1>1, StoresAre
<1>3. \/ op.do = "makeCopy" /\ e = [d EXCEPT !.copies = C]
      \/ op.do = "fillCopy" /\ t = "movies" /\ e = [d EXCEPT !.rows = F]
      \/ op.do = "fillCopy" /\ t # "movies" /\ e = d
      \/ op.do = "carryOver" /\ e = [d EXCEPT !.rows = G]
      \/ op.do = "stamp" /\ e = [d EXCEPT !.stamp = r]
  BY DEF Apply
<1> HIDE DEF e, F, G
<1>4. \/ /\ op.do = "makeCopy"
         /\ e = [tables |-> d.tables, copies |-> C, stamp |-> d.stamp, rows |-> d.rows]
      \/ /\ op.do = "fillCopy" /\ t = "movies"
         /\ e = [tables |-> d.tables, copies |-> d.copies, stamp |-> d.stamp, rows |-> F]
      \/ op.do = "fillCopy" /\ t # "movies" /\ e = d
      \/ /\ op.do = "carryOver"
         /\ e = [tables |-> d.tables, copies |-> d.copies, stamp |-> d.stamp, rows |-> G]
      \/ /\ op.do = "stamp"
         /\ e = [tables |-> d.tables, copies |-> d.copies, stamp |-> r, rows |-> d.rows]
  BY <1>3, Updated
<1>5. op.do = "makeCopy" => C \in SUBSET Names
  BY <1>1
<1>6. /\ Database(e) /\ e.tables = d.tables
      /\ e.stamp = IF op.do = "stamp" THEN r ELSE d.stamp
      /\ e.rows = IF op.do = "fillCopy" /\ t = "movies" THEN F
                  ELSE IF op.do = "carryOver" THEN G ELSE d.rows
  BY <1>2, <1>4, <1>5, DatabaseIs, Built
<1>7. \A s : Has(e, s) <=> Has(d, s)
  BY <1>6 DEF Has
<1>8. Effect(d, op, e)
  BY <1>2, <1>6, <1>7 DEF Effect, DropsMovies, DropsKept
<1> QED
  BY <1>6, <1>8 DEF e

LEMMA SetAsideDone ==
    ASSUME NEW d, Database(d), NEW op, op.do = "setAside", Has(d, "movies"), ~ Has(d, Kept)
    PROVE  Database(Apply(d, op)) /\ Effect(d, op, Apply(d, op))
<1> DEFINE e == Apply(d, op)
           x == d.tables["movies"]
           S == Without(d.tables, "movies")
           T == With(S, Kept, x)
           R == [d.rows EXCEPT ![Kept] = d.rows["movies"], !["movies"] = {}]
<1>1. e = [d EXCEPT !.tables = T, !.rows = R]
  BY DEF Apply, Renamed
<1> HIDE DEF e
<1>2. IsTable(x)
  BY DEF Has, Database
<1>3. /\ WellMade(S) /\ DOMAIN S = DOMAIN d.tables \ {"movies"}
      /\ \A s \in DOMAIN d.tables : s # "movies" => S[s] = d.tables[s]
  BY DatabaseIs, WithoutIs
<1>4. /\ WellMade(T) /\ DOMAIN T = DOMAIN S \cup {Kept} /\ T[Kept] = x
      /\ \A s \in DOMAIN S : s # Kept => T[s] = S[s]
  <2>1. T = With(S, Kept, x)
    OBVIOUS
  <2> HIDE DEF T, S, x
  <2>2. TableName(Kept) /\ WellMade(S) /\ IsTable(x)
    BY <1>2, <1>3 DEF TableName
  <2>3. WellMade(T) /\ DOMAIN T = DOMAIN S \cup {Kept}
    BY ONLY <2>1, <2>2, WithIs
  <2>4. T[Kept] = x
    BY ONLY <2>1 DEF With
  <2>5. \A s \in DOMAIN S : s # Kept => T[s] = S[s]
    BY ONLY <2>1 DEF With
  <2> QED
    BY <2>3, <2>4, <2>5
<1>5. /\ R \in [Stores -> SUBSET Films] /\ R["copy"] = d.rows["copy"]
      /\ R["movies"] = {} /\ R[Kept] = d.rows["movies"]
  <2>1. d.rows \in [Stores -> SUBSET Films]
    BY DatabaseIs
  <2> QED
    BY <2>1, StoresAre
<1> HIDE DEF S, T, R
<1>6. e = [tables |-> T, copies |-> d.copies, stamp |-> d.stamp, rows |-> R]
  BY <1>1, Updated
<1>7. Database(e) /\ e.stamp = d.stamp /\ e.tables = T /\ e.rows = R
  BY <1>4, <1>5, <1>6, DatabaseIs, Built
<1>8. \A s : Has(e, s) <=> s = Kept \/ (s # "movies" /\ Has(d, s))
  BY <1>3, <1>4, <1>7 DEF Has
<1>9. /\ e.tables[Kept] = d.tables["movies"]
      /\ \A s : Has(d, s) /\ s # "movies" => e.tables[s] = d.tables[s]
  BY <1>3, <1>4, <1>7 DEF Has
<1>10. Effect(d, op, e)
  BY <1>5, <1>7, <1>8, <1>9, StoresAre DEF Effect, DropsMovies, DropsKept
<1> QED
  BY <1>7, <1>10 DEF e

LEMMA Applied ==
    ASSUME NEW d, Database(d), NEW what, NEW op, Step(what, op), op.do # "commit",
           Accepts(d, op), op.do = "setAside" => Has(d, "movies")
    PROVE  Database(Apply(d, op)) /\ Effect(d, op, Apply(d, op))
<1>1. op # Commit
  BY CommitIs
<1>2. ASSUME UpOp(op) PROVE Database(Apply(d, op)) /\ Effect(d, op, Apply(d, op))
  <2>1. CASE op.do = "create"
    BY <1>2, <2>1, CreateDone DEF UpOp
  <2>2. CASE op.do = "index"
    BY <2>2, IndexDone
  <2>3. CASE op.do = "add"
    <3>1. Has(d, op.table)
      BY <2>3 DEF Accepts
    <3> QED
      BY <2>3, <3>1, ColumnsDone
  <2>4. CASE op.do = "makeCopy" \/ op.do = "fillCopy"
    BY <1>2, <2>4, CopyDone DEF UpOp
  <2>5. CASE op.do = "swap"
    <3>1. Has(d, op.table)
      BY <2>5 DEF Accepts
    <3> QED
      BY <2>5, <3>1, ColumnsDone
  <2> QED
    BY <1>2, <2>1, <2>2, <2>3, <2>4, <2>5 DEF UpOp
<1>3. ASSUME DownOp(op) PROVE Database(Apply(d, op)) /\ Effect(d, op, Apply(d, op))
  <2>1. CASE op.do = "drop"
    BY <1>3, <2>1, DropDone DEF DownOp
  <2>2. CASE op.do = "dropIndex"
    BY <2>2, IndexDone
  <2>3. CASE op.do = "makeCopy" \/ op.do = "fillCopy"
    BY <1>3, <2>3, CopyDone DEF DownOp
  <2>4. CASE op.do = "swap"
    <3>1. Has(d, op.table)
      BY <2>4 DEF Accepts
    <3> QED
      BY <2>4, <3>1, ColumnsDone
  <2> QED
    BY <1>3, <2>1, <2>2, <2>3, <2>4 DEF DownOp
<1>4. ASSUME BootOp(op) PROVE Database(Apply(d, op)) /\ Effect(d, op, Apply(d, op))
  <2>1. CASE op.do = "create"
    BY <1>4, <2>1, CreateDone, ModelsAre DEF BootOp, CreateOp
  <2>2. CASE op.do = "index" \/ op.do = "dropIndex"
    BY <2>2, IndexDone
  <2>3. CASE op.do = "setAside"
    <3>1. ~ Has(d, Kept)
      BY <2>3 DEF Accepts
    <3> QED
      BY <2>3, <3>1, SetAsideDone
  <2>4. CASE op.do = "carryOver"
    BY <2>4, CopyDone
  <2>5. CASE op.do = "drop"
    BY <1>4, <2>5, DropDone DEF BootOp, CreateOp
  <2> QED
    BY <1>4, <2>1, <2>2, <2>3, <2>4, <2>5 DEF BootOp, CreateOp
<1>5. ASSUME StampOp(op) PROVE Database(Apply(d, op)) /\ Effect(d, op, Apply(d, op))
  <2>1. op.do = "stamp" /\ op.rev \in 0 .. HeadRevision
    <3>1. Stamp(op.rev).do = "stamp"
      BY StampIs
    <3> QED
      BY <1>5, <3>1 DEF StampOp
  <2> QED
    BY <2>1, CopyDone
<1> QED
  BY <1>1, <1>2, <1>3, <1>4, <1>5 DEF Step

-----------------------------------------------------------------------------
(* The statements left, once the first has run.                            *)
LEMMA TailProgram ==
    ASSUME NEW s, IsSeq(s), s # <<>>, NEW t, t = Tail(s)
    PROVE  /\ IsSeq(t) /\ Range(s) = {Head(s)} \cup Range(t)
           /\ CopiesSwapped(s) =>
                 /\ CopiesSwapped(t)
                 /\ Head(s).do = "fillCopy" =>
                       t # <<>> /\ Head(t).do = "swap" /\ Head(t).table = Head(s).table
           /\ MadeFirst(s) =>
                 /\ MadeFirst(t)
                 /\ Head(s).do = "stamp" => \A op \in Range(t) : ~ MakesMovies(op)
           /\ DropsFirst(s) =>
                 /\ DropsFirst(t)
                 /\ Head(s).do \in Writes => \A op \in Range(t) : ~ DropsMovies(op)
           /\ s[Len(s)] = Commit =>
                 /\ t # <<>> => t[Len(t)] = Commit
                 /\ Head(s).do # "commit" => t # <<>>
<1> DEFINE n == Len(t)
<1>1. /\ Len(s) = n + 1 /\ n \in Nat /\ Head(s) = s[1] /\ IsSeq(t)
      /\ \A i \in 1 .. n : t[i] = s[i + 1]
      /\ Range(s) = {Head(s)} \cup Range(t)
  <2>1. /\ Len(s) \in Nat /\ Len(s) > 0 /\ Head(s) = s[1] /\ IsSeq(t) /\ n = Len(s) - 1
        /\ \A i \in 1 .. Len(s) - 1 : t[i] = s[i + 1]
        /\ Range(s) = {Head(s)} \cup Range(t)
    BY TailOf
  <2> HIDE DEF n
  <2> QED
    BY <2>1
<1>2. /\ \A x \in Range(t) : \E i \in 1 .. n : x = t[i]
      /\ t # <<>> => n > 0 /\ Head(t) = t[1]
      /\ n > 0 => t # <<>>
  <2>1. \A x \in Range(t) : \E i \in 1 .. n : x = t[i]
    BY <1>1, RangeOf
  <2>2. t # <<>> => n > 0 /\ Head(t) = t[1]
    BY <1>1, TailOf
  <2>3. n > 0 => t # <<>>
    BY Nothing
  <2> QED
    BY <2>1, <2>2, <2>3
<1> HIDE DEF n
<1>3. /\ \A i \in 1 .. n : i \in Nat /\ i + 1 \in 1 .. n + 1 /\ 1 < i + 1
      /\ \A i, j \in 1 .. n : i < j => i + 1 < j + 1
      /\ 1 \in 1 .. n + 1
  BY <1>1
<1>4. ASSUME CopiesSwapped(s)
      PROVE  /\ CopiesSwapped(t)
             /\ Head(s).do = "fillCopy" =>
                   t # <<>> /\ Head(t).do = "swap" /\ Head(t).table = Head(s).table
  <2>1. \A i \in 1 .. n + 1 : s[i].do = "fillCopy" =>
           i < n + 1 /\ s[i + 1].do = "swap" /\ s[i + 1].table = s[i].table
    BY <1>1, <1>4 DEF CopiesSwapped
  <2>2. ASSUME NEW i \in 1 .. n, t[i].do = "fillCopy"
        PROVE  i < n /\ t[i + 1].do = "swap" /\ t[i + 1].table = t[i].table
    <3>1. /\ i + 1 < n + 1 /\ s[(i + 1) + 1].do = "swap"
          /\ s[(i + 1) + 1].table = s[i + 1].table
      BY <1>1, <1>3, <2>1, <2>2
    <3>2. i < n /\ i + 1 \in 1 .. n
      BY <1>1, <3>1
    <3> QED
      BY <1>1, <3>1, <3>2
  <2>3. CopiesSwapped(t)
    BY <2>2 DEF CopiesSwapped, n
  <2>4. ASSUME Head(s).do = "fillCopy"
        PROVE  t # <<>> /\ Head(t).do = "swap" /\ Head(t).table = Head(s).table
    <3>1. 1 < n + 1 /\ s[1 + 1].do = "swap" /\ s[1 + 1].table = s[1].table
      BY <1>1, <1>3, <2>1, <2>4
    <3>2. n > 0 /\ 1 \in 1 .. n
      BY <1>1, <3>1
    <3> QED
      BY <1>1, <1>2, <3>1, <3>2
  <2> QED
    BY <2>3, <2>4
<1>5. ASSUME MadeFirst(s)
      PROVE  /\ MadeFirst(t)
             /\ Head(s).do = "stamp" => \A op \in Range(t) : ~ MakesMovies(op)
  <2>1. \A i, j \in 1 .. n + 1 : i < j /\ MakesMovies(s[j]) => s[i].do # "stamp"
    BY <1>1, <1>5 DEF MadeFirst
  <2>2. \A i, j \in 1 .. n : i < j /\ MakesMovies(t[j]) => t[i].do # "stamp"
    BY <1>1, <1>3, <2>1
  <2>3. \A j \in 1 .. n : MakesMovies(t[j]) => s[1].do # "stamp"
    BY <1>1, <1>3, <2>1
  <2> QED
    BY <1>1, <1>2, <2>2, <2>3 DEF MadeFirst, n
<1>6. ASSUME DropsFirst(s)
      PROVE  /\ DropsFirst(t)
             /\ Head(s).do \in Writes => \A op \in Range(t) : ~ DropsMovies(op)
  <2>1. \A i, j \in 1 .. n + 1 : i < j /\ DropsMovies(s[j]) => s[i].do \notin Writes
    BY <1>1, <1>6 DEF DropsFirst
  <2>2. \A i, j \in 1 .. n : i < j /\ DropsMovies(t[j]) => t[i].do \notin Writes
    BY <1>1, <1>3, <2>1
  <2>3. \A j \in 1 .. n : DropsMovies(t[j]) => s[1].do \notin Writes
    BY <1>1, <1>3, <2>1
  <2> QED
    BY <1>1, <1>2, <2>2, <2>3 DEF DropsFirst, n
<1>7. ASSUME s[Len(s)] = Commit
      PROVE  /\ t # <<>> => t[Len(t)] = Commit
             /\ Head(s).do # "commit" => t # <<>>
  <2>1. t # <<>> => n \in 1 .. n /\ t[n] = s[n + 1]
    BY <1>1, <1>2
  <2>2. n = 0 => s[1] = Commit
    BY <1>1, <1>7
  <2>3. n # 0 => t # <<>>
    BY <1>1, <1>2
  <2> QED
    BY <1>1, <1>7, <2>1, <2>2, <2>3, CommitIs DEF n
<1> QED
  BY <1>1, <1>4, <1>5, <1>6, <1>7

LEMMA TailInTurn ==
    ASSUME NEW s, IsSeq(s), s # <<>>, NEW t, t = Tail(s), InTurn(s)
    PROVE  /\ InTurn(t)
           /\ Head(s).do = "setAside" => /\ \E op \in Range(t) : MakesMovies(op)
                                         /\ \A op \in Range(t) : op.do # "setAside"
           /\ Head(s).do = "carryOver" =>
                 /\ t # <<>> /\ DropsKept(Head(t))
                 /\ \A op \in Range(t) : op.do \notin {"setAside", "carryOver"}
           /\ DropsKept(Head(s)) =>
                 \A op \in Range(t) : op.do # "setAside" /\ ~ MakesMovies(op)
           /\ t # <<>> /\ DropsKept(Head(t)) => Head(s).do = "carryOver"
<1> DEFINE n == Len(t)
<1>1. /\ Len(s) = n + 1 /\ n \in Nat /\ Head(s) = s[1] /\ IsSeq(t)
      /\ \A i \in 1 .. n : t[i] = s[i + 1]
  <2>1. /\ Len(s) \in Nat /\ Len(s) > 0 /\ Head(s) = s[1] /\ IsSeq(t) /\ n = Len(s) - 1
        /\ \A i \in 1 .. Len(s) - 1 : t[i] = s[i + 1]
    BY TailOf
  <2> HIDE DEF n
  <2> QED
    BY <2>1
<1>2. /\ \A x \in Range(t) : \E i \in 1 .. n : x = t[i]
      /\ \A i \in 1 .. n : t[i] \in Range(t)
      /\ t # <<>> => n > 0 /\ Head(t) = t[1]
      /\ n > 0 => t # <<>>
  <2>1. \A x \in Range(t) : \E i \in 1 .. n : x = t[i]
    BY <1>1, RangeOf
  <2>2. \A i \in 1 .. n : t[i] \in Range(t)
    BY <1>1, RangeOf
  <2>3. t # <<>> => n > 0 /\ Head(t) = t[1]
    BY <1>1, TailOf
  <2>4. n > 0 => t # <<>>
    BY Nothing
  <2> QED
    BY <2>1, <2>2, <2>3, <2>4
<1> HIDE DEF n
<1>3. /\ \A i \in 1 .. n + 1 : s[i].do = "setAside" =>
            /\ \E j \in i + 1 .. n + 1 : MakesMovies(s[j])
            /\ \A j \in i + 1 .. n + 1 : s[j].do # "setAside"
      /\ \A i \in 1 .. n + 1 : s[i].do = "carryOver" =>
            /\ i < n + 1 /\ DropsKept(s[i + 1])
            /\ \A j \in i + 1 .. n + 1 : s[j].do \notin {"setAside", "carryOver"}
      /\ \A i \in 1 .. n + 1 : DropsKept(s[i]) =>
            /\ i # 1 => s[i - 1].do = "carryOver"
            /\ \A j \in i + 1 .. n + 1 : s[j].do # "setAside" /\ ~ MakesMovies(s[j])
  BY <1>1 DEF InTurn
<1>4. /\ \A i \in 1 .. n : i + 1 \in 1 .. n + 1
      /\ \A i \in 0 .. n : \A j \in i + 1 .. n : j \in 1 .. n /\ j + 1 \in (i + 1) + 1 .. n + 1
      /\ \A i \in 0 .. n : \A j \in (i + 1) + 1 .. n + 1 :
            j - 1 \in i + 1 .. n /\ j - 1 \in 1 .. n /\ (j - 1) + 1 = j
      /\ 1 \in 1 .. n + 1 /\ 0 \in 0 .. n /\ 0 + 1 = 1 /\ \A i \in 1 .. n : i \in 0 .. n
  BY <1>1
<1>5. ASSUME NEW i \in 1 .. n
      PROVE  /\ t[i].do = "setAside" =>
                  /\ \E j \in i + 1 .. n : MakesMovies(t[j])
                  /\ \A j \in i + 1 .. n : t[j].do # "setAside"
             /\ t[i].do = "carryOver" =>
                  /\ i < n /\ DropsKept(t[i + 1])
                  /\ \A j \in i + 1 .. n : t[j].do \notin {"setAside", "carryOver"}
             /\ DropsKept(t[i]) =>
                  /\ i # 1 => t[i - 1].do = "carryOver"
                  /\ \A j \in i + 1 .. n : t[j].do # "setAside" /\ ~ MakesMovies(t[j])
  <2>1. t[i] = s[i + 1] /\ i + 1 \in 1 .. n + 1 /\ i \in 0 .. n
    BY <1>1, <1>4
  <2>2. \A j \in i + 1 .. n : t[j] = s[j + 1] /\ j + 1 \in (i + 1) + 1 .. n + 1
    BY <1>1, <1>4, <2>1
  <2>3. ASSUME t[i].do = "setAside"
        PROVE  /\ \E j \in i + 1 .. n : MakesMovies(t[j])
               /\ \A j \in i + 1 .. n : t[j].do # "setAside"
    <3>1. PICK j \in (i + 1) + 1 .. n + 1 : MakesMovies(s[j])
      BY <1>3, <2>1, <2>3
    <3>2. j - 1 \in i + 1 .. n /\ t[j - 1] = s[j]
      <4>1. j - 1 \in i + 1 .. n /\ j - 1 \in 1 .. n /\ (j - 1) + 1 = j
        BY <1>4, <2>1
      <4> QED
        BY <1>1, <4>1
    <3>3. \A k \in i + 1 .. n : t[k].do # "setAside"
      <4>1. \A k \in (i + 1) + 1 .. n + 1 : s[k].do # "setAside"
        BY <1>3, <2>1, <2>3
      <4> QED
        BY <2>2, <4>1
    <3> QED
      BY <3>1, <3>2, <3>3
  <2>4. ASSUME t[i].do = "carryOver"
        PROVE  /\ i < n /\ DropsKept(t[i + 1])
               /\ \A j \in i + 1 .. n : t[j].do \notin {"setAside", "carryOver"}
    <3>1. i + 1 < n + 1 /\ DropsKept(s[(i + 1) + 1])
      BY <1>3, <2>1, <2>4
    <3>2. i < n /\ i + 1 \in i + 1 .. n
      BY <1>1, <3>1
    <3>3. DropsKept(t[i + 1])
      <4>1. t[i + 1] = s[(i + 1) + 1]
        BY <2>2, <3>2
      <4> QED
        BY <3>1, <4>1
    <3>4. \A j \in i + 1 .. n : t[j].do \notin {"setAside", "carryOver"}
      <4>1. \A k \in (i + 1) + 1 .. n + 1 : s[k].do \notin {"setAside", "carryOver"}
        BY <1>3, <2>1, <2>4
      <4> QED
        BY <2>2, <4>1
    <3> QED
      BY <3>2, <3>3, <3>4
  <2>5. ASSUME DropsKept(t[i])
        PROVE  /\ i # 1 => t[i - 1].do = "carryOver"
               /\ \A j \in i + 1 .. n : t[j].do # "setAside" /\ ~ MakesMovies(t[j])
    <3>1. i + 1 # 1 /\ (i + 1) - 1 = i
      BY <1>1
    <3>2. s[i].do = "carryOver"
      BY <1>3, <2>1, <2>5, <3>1
    <3>3. i # 1 => i - 1 \in 1 .. n /\ (i - 1) + 1 = i
      BY <1>1
    <3>4. i # 1 => t[i - 1].do = "carryOver"
      BY <1>1, <3>2, <3>3
    <3>5. \A k \in (i + 1) + 1 .. n + 1 : s[k].do # "setAside" /\ ~ MakesMovies(s[k])
      BY <1>3, <2>1, <2>5
    <3> QED
      BY <2>2, <3>4, <3>5
  <2> QED
    BY <2>3, <2>4, <2>5
<1>6. InTurn(t)
  BY <1>5 DEF InTurn, n
<1>7. \A j \in 1 + 1 .. n + 1 : j - 1 \in 1 .. n /\ s[j] = t[j - 1]
  BY <1>1, <1>4
<1>8. \A j \in 1 .. n : j + 1 \in 1 + 1 .. n + 1 /\ t[j] = s[j + 1]
  BY <1>1, <1>4
<1>9. Head(s).do = "setAside" => /\ \E op \in Range(t) : MakesMovies(op)
                                 /\ \A op \in Range(t) : op.do # "setAside"
  <2>1. SUFFICES ASSUME s[1].do = "setAside"
                 PROVE  /\ \E op \in Range(t) : MakesMovies(op)
                        /\ \A op \in Range(t) : op.do # "setAside"
    BY <1>1
  <2>2. /\ \E j \in 1 + 1 .. n + 1 : MakesMovies(s[j])
        /\ \A j \in 1 + 1 .. n + 1 : s[j].do # "setAside"
    BY <1>3, <1>4, <2>1
  <2>3. \E j \in 1 .. n : MakesMovies(t[j])
    BY <1>7, <2>2
  <2>4. \A j \in 1 .. n : t[j].do # "setAside"
    BY <1>8, <2>2
  <2> QED
    BY <1>2, <2>3, <2>4
<1>10. ASSUME Head(s).do = "carryOver"
       PROVE  /\ t # <<>> /\ DropsKept(Head(t))
              /\ \A op \in Range(t) : op.do \notin {"setAside", "carryOver"}
  <2>1. 1 < n + 1 /\ DropsKept(s[1 + 1])
    BY <1>1, <1>3, <1>4, <1>10
  <2>2. n > 0 /\ 1 \in 1 .. n
    BY <1>1, <2>1
  <2>3. \A j \in 1 .. n : t[j].do \notin {"setAside", "carryOver"}
    BY <1>1, <1>3, <1>4, <1>8, <1>10
  <2> QED
    BY <1>1, <1>2, <2>1, <2>2, <2>3
<1>11. DropsKept(Head(s)) =>
          \A op \in Range(t) : op.do # "setAside" /\ ~ MakesMovies(op)
  BY <1>1, <1>2, <1>3, <1>4, <1>8
<1>12. ASSUME t # <<>>, DropsKept(Head(t)) PROVE Head(s).do = "carryOver"
  <2>1. 1 \in 1 .. n /\ 1 + 1 \in 1 .. n + 1 /\ 1 + 1 # 1 /\ (1 + 1) - 1 = 1
    BY <1>1, <1>2, <1>12
  <2>2. DropsKept(s[1 + 1])
    BY <1>1, <1>2, <1>12, <2>1
  <2> QED
    BY <1>1, <1>3, <2>1, <2>2
<1> QED
  BY <1>6, <1>9, <1>10, <1>11, <1>12

-----------------------------------------------------------------------------
(* The inductive invariant.                                                *)
Typed ==
    /\ backend \in Backends /\ Database(db) /\ Database(work)
    /\ open \in BOOLEAN /\ phase \in {"down", "upgrade", "downgrade", "boot", "up"}
    /\ commands \in 0 .. Commands /\ crashes \in 0 .. Crashes
    /\ pure \in BOOLEAN /\ manual \in BOOLEAN /\ cut \in BOOLEAN

IInv == Typed /\ ProgramOK /\ RowsOK /\ PgOK /\ UsableOK /\ StampOK

(* Whatever the volume is found with.                                      *)
LEMMA UntouchedIs ==
    /\ Database(Untouched) /\ Untouched.stamp = 0
    /\ \A t : ~ Has(Untouched, t)
    /\ \A s \in Stores : Untouched.rows[s] = {}
<1> DEFINE R == [s \in Stores |-> {}]
<1>1. Untouched = [tables |-> <<>>, copies |-> {}, stamp |-> 0, rows |-> R]
  BY DEF Untouched
<1>2. R \in [Stores -> SUBSET Films] /\ \A s \in Stores : R[s] = {}
  OBVIOUS
<1>3. WellMade(<<>>) /\ \A t : t \notin DOMAIN <<>>
  <2>1. DOMAIN <<>> = {} /\ <<>> = [t \in {} |-> <<>>[t]]
    OBVIOUS
  <2> QED
    BY <2>1 DEF WellMade
<1>4. {} \in SUBSET Names /\ 0 \in 0 .. HeadRevision
  BY HeadIs
<1> HIDE DEF R
<1>5. /\ Database(Untouched) /\ Untouched.tables = <<>> /\ Untouched.stamp = 0
      /\ Untouched.rows = R
  BY <1>1, <1>2, <1>3, <1>4, Built
<1> QED
  BY <1>2, <1>3, <1>5 DEF Has

LEMMA LegacyIs ==
    /\ Database(Legacy) /\ Legacy.stamp = 0
    /\ \A t : Has(Legacy, t) => t \in Names /\ AsModelled(Legacy, t)
    /\ Legacy.rows[Kept] = {} /\ Legacy.rows["copy"] = {}
<1> DEFINE T == [t \in Names |-> [Models[t] EXCEPT !.indexed = TRUE, !.fk = t = "movies"]]
           R == [s \in Stores |-> IF s = "movies" THEN {CHOOSE f \in Films : TRUE} ELSE {}]
<1>1. Legacy = [Untouched EXCEPT !.tables = T, !.rows = R]
  BY DEF Legacy
<1>2. R \in [Stores -> SUBSET Films] /\ R[Kept] = {} /\ R["copy"] = {}
  <2>1. (CHOOSE f \in Films : TRUE) \in Films
    BY VolumeAssumption
  <2> QED
    BY <2>1, StoresAre
<1>3. ASSUME NEW t \in Names
      PROVE  /\ IsTable(T[t]) /\ T[t].cols = Models[t].cols /\ T[t].id # "bigint"
  <2> DEFINE m == Models[t]
             b == t = "movies"
  <2>1. IsTable(m) /\ m.id # "bigint"
    BY ModelsAre
  <2>2. T[t] = [m EXCEPT !.indexed = TRUE, !.fk = b]
    OBVIOUS
  <2> HIDE DEF m, b, T
  <2>3. m = [cols |-> m.cols, id |-> m.id, fk |-> m.fk, indexed |-> m.indexed]
    BY <2>1 DEF IsTable
  <2>4. T[t] = [cols |-> m.cols, id |-> m.id, fk |-> b, indexed |-> TRUE]
    <3> DEFINE c == m.cols
               i == m.id
               f == m.fk
               x == m.indexed
    <3>1. m = [cols |-> c, id |-> i, fk |-> f, indexed |-> x]
      BY <2>3
    <3> HIDE DEF c, i, f, x
    <3>2. T[t] = [cols |-> c, id |-> i, fk |-> b, indexed |-> TRUE]
      BY <2>2, <3>1
    <3> QED
      BY <3>2 DEF c, i
  <2> QED
    BY <2>1, <2>4 DEF IsTable, m
<1>4. DOMAIN T = Names /\ T = [t \in DOMAIN T |-> T[t]]
  OBVIOUS
<1> HIDE DEF T, R
<1>5. WellMade(T)
  BY <1>3, <1>4 DEF WellMade
<1>6. Legacy = [tables |-> T, copies |-> Untouched.copies, stamp |-> Untouched.stamp,
                rows |-> R]
  BY <1>1, UntouchedIs, Updated
<1>7. Untouched.copies \in SUBSET Names /\ Untouched.stamp \in 0 .. HeadRevision
  BY UntouchedIs, DatabaseIs
<1>8. Database(Legacy) /\ Legacy.tables = T /\ Legacy.stamp = Untouched.stamp /\ Legacy.rows = R
  BY <1>2, <1>5, <1>6, <1>7, Built
<1> QED
  BY <1>2, <1>3, <1>4, <1>8, UntouchedIs DEF Has, AsModelled

LEMMA AtRevisionIs ==
    ASSUME NEW r \in 0 .. 5
    PROVE  LET d == AtRevision[r] IN
           /\ Database(d) /\ d.stamp = r /\ Covers(d, r)
           /\ \A s \in Stores : d.rows[s] = {}
<1> DEFINE d == AtRevision[r]
           R == [s \in Stores |-> {}]
           T == d.tables
<1>1. /\ d = [tables |-> T, copies |-> {}, stamp |-> r, rows |-> R]
      /\ T = [t \in DOMAIN T |-> T[t]]
      /\ \A t \in DOMAIN T : t \in Names /\ IsTable(T[t])
  BY Revised
<1>2. WellMade(T)
  BY <1>1 DEF WellMade
<1>3. R \in [Stores -> SUBSET Films] /\ \A s \in Stores : R[s] = {}
  OBVIOUS
<1>4. {} \in SUBSET Names /\ r \in 0 .. HeadRevision
  BY HeadIs
<1>5. Promised(r) = T
  BY DEF Promised
<1> HIDE DEF R, T, d
<1>6. Database(d) /\ d.tables = T /\ d.stamp = r /\ d.rows = R
  BY <1>1, <1>2, <1>3, <1>4, Built
<1>7. Covers(d, r)
  BY <1>5, <1>6 DEF Covers, Shows, Holds, Has
<1> QED
  BY <1>3, <1>6, <1>7 DEF d

LEMMA FoundIs ==
    ASSUME NEW origin \in Origins
    PROVE  LET d == Found(origin) IN
           /\ Database(d) /\ Covers(d, d.stamp)
           /\ d.rows[Kept] = {} /\ d.rows["copy"] = {}
           /\ origin = "new" => d = Untouched
           /\ origin \in {"new", "legacy"} =>
                 d.stamp = 0 /\ \A t \in Names : Has(d, t) => AsModelled(d, t)
<1> DEFINE d == Found(origin)
<1>1. origin \in {"new", "legacy", "revision 1", "revision 3", "head"}
  BY VolumeAssumption
<1>2. CASE origin = "new"
  <2>1. d = Untouched
    BY <1>2 DEF Found
  <2>2. Covers(Untouched, 0)
    BY NothingPromised DEF Covers
  <2> HIDE DEF d
  <2> QED
    BY <1>2, <2>1, <2>2, UntouchedIs, StoresAre DEF d
<1>3. CASE origin = "legacy"
  <2>1. d = Legacy
    BY <1>3 DEF Found
  <2>2. Covers(Legacy, 0)
    BY NothingPromised DEF Covers
  <2> HIDE DEF d
  <2> QED
    BY <1>3, <2>1, <2>2, LegacyIs DEF d
<1>4. CASE origin \in {"revision 1", "revision 3", "head"}
  <2>1. d = AtRevision[1] \/ d = AtRevision[3] \/ d = AtRevision[5]
    BY <1>4, HeadIs DEF Found
  <2>2. 1 \in 0 .. 5 /\ 3 \in 0 .. 5 /\ 5 \in 0 .. 5
    OBVIOUS
  <2> HIDE DEF d
  <2>3. Database(d) /\ Covers(d, d.stamp) /\ \A s \in Stores : d.rows[s] = {}
    BY <2>1, <2>2, AtRevisionIs
  <2> QED
    BY <1>4, <2>3, StoresAre DEF d
<1> QED
  BY <1>1, <1>2, <1>3, <1>4

LEMMA InitOK == Init => IInv
<1> SUFFICES ASSUME Init PROVE IInv
  OBVIOUS
<1>1. PICK origin \in Origins :
         /\ backend = "sqlite" \/ origin = "new"
         /\ db = Found(origin)
         /\ manual = (origin \notin {"new", "legacy"})
         /\ pure = (origin # "legacy")
  BY DEF Init
<1>2. /\ work = db /\ open = FALSE /\ phase = "down" /\ todo = <<>>
      /\ commands = Commands /\ crashes = Crashes /\ backend \in Backends
      /\ added = db.rows["movies"] /\ cut = FALSE
  BY DEF Init
<1>3. /\ Database(db) /\ Covers(db, db.stamp)
      /\ db.rows[Kept] = {} /\ db.rows["copy"] = {}
      /\ origin = "new" => db = Untouched
      /\ origin \in {"new", "legacy"} =>
            db.stamp = 0 /\ \A t \in Names : Has(db, t) => AsModelled(db, t)
  BY <1>1, FoundIs
<1>4. ~ Busy /\ Ahead = {}
  BY <1>2, Nothing DEF Busy, Ahead
<1>5. Typed
  <2>1. pure \in BOOLEAN
    BY <1>1, Zenon
  <2>2. manual \in BOOLEAN
    BY <1>1, Zenon
  <2>3. commands \in 0 .. Commands /\ crashes \in 0 .. Crashes
    <3>1. Commands \in Nat /\ Crashes \in Nat
      BY VolumeAssumption
    <3>2. Commands \in 0 .. Commands /\ Crashes \in 0 .. Crashes
      BY <3>1
    <3> QED
      BY <1>2, <3>2
  <2> QED
    BY <1>2, <1>3, <2>1, <2>2, <2>3 DEF Typed
<1>6. ProgramOK
  BY <1>2, <1>4 DEF ProgramOK
<1>7. RowsOK
  BY <1>2, <1>3, <1>4 DEF RowsOK
<1>8. PgOK
  BY <1>1, <1>2, <1>3, <1>4 DEF PgOK
<1>9. UsableOK
  BY <1>1, <1>2, <1>3 DEF UsableOK
<1>10. StampOK
  BY <1>2, <1>3 DEF StampOK
<1> QED
  BY <1>5, <1>6, <1>7, <1>8, <1>9, <1>10 DEF IInv

-----------------------------------------------------------------------------
(* A statement that is not the commit.                                     *)
Ran ==
    /\ Busy /\ Now.do # "commit" /\ Accepts(work, Now)
    /\ work' = Apply(work, Now)
    /\ todo' = Tail(todo)
    /\ Now.do \in Writes => open' = TRUE /\ db' = db /\ added' = added
    /\ Now.do \notin Writes =>
          /\ open' = (open \/ backend = "postgresql")
          /\ db' = IF backend = "sqlite" /\ ~ open THEN work' ELSE db
          /\ added' = IF phase = "downgrade"
                      THEN added \cap UNION {work'.rows[s] : s \in Stores} ELSE added
    /\ UNCHANGED <<backend, phase, commands, crashes, pure, manual, cut>>

LEMMA StatementIsRan == Define \/ Write => Ran
<1>1. ASSUME Define PROVE Ran
  BY <1>1, Zenon DEF Define, Ran
<1>2. ASSUME Write PROVE Ran
  BY <1>2, Zenon DEF Write, Ran, ghosts, Writes
<1> QED
  BY <1>1, <1>2

LEMMA NowIs ==
    ASSUME Typed, ProgramOK, Busy
    PROVE  /\ IsSeq(todo) /\ todo # <<>> /\ todo[Len(todo)] = Commit
           /\ Now = Head(todo) /\ Now \in Ahead /\ Step(phase, Now)
           /\ \A op \in Ahead : Step(phase, op)
           /\ CopiesSwapped(todo) /\ InTurn(todo) /\ MadeFirst(todo)
<1>1. /\ IsSeq(todo) /\ todo # <<>> /\ todo[Len(todo)] = Commit
      /\ \A op \in Ahead : Step(phase, op)
      /\ CopiesSwapped(todo) /\ InTurn(todo) /\ MadeFirst(todo)
  BY DEF ProgramOK
<1>2. Now = Head(todo) /\ Now \in Ahead
  BY <1>1, TailOf DEF Now, Ahead
<1> QED
  BY <1>1, <1>2

LEMMA RanIs ==
    ASSUME Typed, ProgramOK, Ran
    PROVE  /\ Database(work') /\ Effect(work, Now, work') /\ Database(db')
           /\ Step(phase, Now) /\ Ahead = {Now} \cup Ahead'
           /\ IsSeq(todo') /\ todo' # <<>> /\ Busy'
<1>1. Busy /\ Now.do # "commit" /\ Accepts(work, Now) /\ work' = Apply(work, Now)
  BY DEF Ran
<1>2. /\ IsSeq(todo) /\ todo # <<>> /\ todo[Len(todo)] = Commit
      /\ Now = Head(todo) /\ Now \in Ahead /\ Step(phase, Now)
  BY <1>1, NowIs
<1>3. Now.do = "setAside" => Has(work, "movies")
  BY <1>2 DEF ProgramOK
<1>4. Database(work)
  BY DEF Typed
<1>5. Database(Apply(work, Now)) /\ Effect(work, Now, Apply(work, Now))
  BY <1>1, <1>2, <1>3, <1>4, Applied
<1>6. Database(db')
  <2>1. db' = db \/ db' = work'
    BY DEF Ran
  <2> QED
    BY <1>1, <1>5, <2>1 DEF Typed
<1>7. /\ IsSeq(todo') /\ Range(todo) = {Head(todo)} \cup Range(todo')
      /\ Head(todo).do # "commit" => todo' # <<>>
  <2>1. todo' = Tail(todo)
    BY DEF Ran
  <2> QED
    BY <1>2, <2>1, TailProgram
<1>8. Busy'
  BY <1>1 DEF Ran, Busy
<1> QED
  BY <1>1, <1>2, <1>5, <1>6, <1>7, <1>8 DEF Ahead

LEMMA ProgramRan ==
    ASSUME Typed, ProgramOK, Ran
    PROVE  ProgramOK'
<1>1. /\ Effect(work, Now, work') /\ Step(phase, Now) /\ Ahead = {Now} \cup Ahead'
      /\ IsSeq(todo') /\ todo' # <<>> /\ Busy'
  BY RanIs
<1>2. /\ IsSeq(todo) /\ todo # <<>> /\ todo[Len(todo)] = Commit
      /\ Now = Head(todo) /\ \A op \in Ahead : Step(phase, op)
      /\ CopiesSwapped(todo) /\ InTurn(todo) /\ MadeFirst(todo)
  BY NowIs DEF Ran
<1>3. todo' = Tail(todo) /\ phase' = phase
  BY DEF Ran
<1>4. CopiesSwapped(todo') /\ MadeFirst(todo') /\ todo'[Len(todo')] = Commit
  BY <1>1, <1>2, <1>3, TailProgram
<1>5. /\ InTurn(todo')
      /\ Head(todo).do = "setAside" => \A op \in Range(todo') : op.do # "setAside"
  BY <1>2, <1>3, TailInTurn
<1>6. \A op \in Ahead' : Step(phase', op)
  BY <1>1, <1>2, <1>3
<1>7. ASSUME NEW op \in Ahead', op.do = "setAside" PROVE Has(work', "movies")
  <2>1. Has(work, "movies") /\ op \in Ahead
    BY <1>1, <1>7 DEF ProgramOK
  <2>2. Now.do # "setAside"
    BY <1>2, <1>5, <1>7 DEF Ahead
  <2>3. phase = "boot"
    BY <1>2, <1>7, <2>1, AlembicSteps, CommitIs DEF Step
  <2>4. ~ DropsMovies(Now)
    BY <1>1, <2>3, BootOps
  <2> QED
    BY <1>1, <2>1, <2>2, <2>4 DEF Effect, DropsMovies
<1> QED
  BY <1>1, <1>4, <1>5, <1>6, <1>7 DEF ProgramOK

LEMMA RowsRan ==
    ASSUME Typed, ProgramOK, RowsOK, PgOK, Ran
    PROVE  RowsOK'
<1> DEFINE M == work.rows["movies"]
           K == work.rows[Kept]
           C == work.rows["copy"]
           N == work'.rows["movies"]
           L == work'.rows[Kept]
           D == work'.rows["copy"]
<1>1. /\ Effect(work, Now, work') /\ Step(phase, Now) /\ Ahead = {Now} \cup Ahead'
      /\ todo' # <<>> /\ Database(work') /\ Busy'
  BY RanIs
<1>2. /\ IsSeq(todo) /\ todo # <<>> /\ Now = Head(todo)
      /\ \A op \in Ahead : Step(phase, op)
      /\ CopiesSwapped(todo) /\ InTurn(todo)
  BY NowIs DEF Ran
<1>3. /\ todo' = Tail(todo) /\ phase' = phase /\ Busy /\ Accepts(work, Now)
      /\ Now' = Head(todo')
  BY DEF Ran, Now
<1>4. Now.do = "fillCopy" => Now'.do = "swap" /\ Now'.table = Now.table
  BY <1>2, <1>3, TailProgram
<1>5. /\ Now.do = "setAside" => \A op \in Ahead' : op.do # "setAside"
      /\ Now.do = "carryOver" =>
            /\ DropsKept(Now')
            /\ \A op \in Ahead' : op.do \notin {"setAside", "carryOver"}
      /\ DropsKept(Now) => \A op \in Ahead' : op.do # "setAside" /\ ~ MakesMovies(op)
      /\ DropsKept(Now') => Now.do = "carryOver"
  <2>1. /\ Head(todo).do = "setAside" => \A op \in Range(todo') : op.do # "setAside"
        /\ Head(todo).do = "carryOver" =>
              /\ DropsKept(Head(todo'))
              /\ \A op \in Range(todo') : op.do \notin {"setAside", "carryOver"}
        /\ DropsKept(Head(todo)) =>
              \A op \in Range(todo') : op.do # "setAside" /\ ~ MakesMovies(op)
        /\ todo' # <<>> /\ DropsKept(Head(todo')) => Head(todo).do = "carryOver"
    BY <1>2, <1>3, TailInTurn
  <2> QED
    BY <1>1, <1>2, <1>3, <2>1 DEF Ahead
<1>6. /\ added = M \cup K
      /\ added = db.rows["movies"] \cup db.rows[Kept]
      /\ db.rows["movies"] \cap db.rows[Kept] = {} /\ db.rows["copy"] = {}
      /\ IF DropsKept(Now) THEN open /\ M = K ELSE M \cap K = {}
      /\ (Now.do = "swap" /\ Now.table = "movies" /\ open) \/ C = {}
      /\ (Has(db, Kept) \/ db.rows[Kept] = {}) /\ (Has(work, Kept) \/ K = {})
      /\ (\E op \in Ahead : op.do = "carryOver") /\ (\A op \in Ahead : op.do # "setAside")
            => M = {}
      /\ (\E op \in Ahead : DropsMovies(op)) => ~ open /\ DropsFirst(todo)
  BY <1>2 DEF RowsOK
<1>7. /\ N = IF Now.do = "setAside" \/ DropsMovies(Now) THEN {}
             ELSE IF Now.do = "carryOver" THEN K ELSE M
      /\ L = IF DropsKept(Now) THEN {} ELSE IF Now.do = "setAside" THEN M ELSE K
      /\ D = IF Now.do = "fillCopy" /\ Now.table = "movies" THEN M
             ELSE IF Now.do = "swap" /\ Now.table = "movies" THEN {} ELSE C
      /\ Has(work', Kept) <=>
            \/ Now.do = "create" /\ Now.table = Kept
            \/ Now.do = "setAside"
            \/ Has(work, Kept) /\ ~ DropsKept(Now)
  BY <1>1, StoresAre DEF Effect, DropsKept
<1>8. /\ Now.do \in Writes => open' = TRUE /\ db' = db /\ added' = added
      /\ Now.do \notin Writes =>
            /\ open' = (open \/ backend = "postgresql")
            /\ db' = IF backend = "sqlite" /\ ~ open THEN work' ELSE db
            /\ added' = IF phase = "downgrade" THEN added \cap (N \cup L \cup D) ELSE added
  <2>1. UNION {work'.rows[s] : s \in Stores} = N \cup L \cup D
    BY DEF Stores
  <2> HIDE DEF N, L, D
  <2> QED
    BY <2>1, Zenon DEF Ran
<1>9. /\ Now.do = "setAside" \/ Now.do = "carryOver" \/ DropsKept(Now) => phase = "boot"
      /\ \A op \in Ahead : DropsMovies(op) => phase = "downgrade"
      /\ \A op \in Ahead : op.do = "carryOver" => phase = "boot"
      /\ phase = "downgrade" => backend = "sqlite"
  <2>1. phase \in {"upgrade", "downgrade", "boot"}
    BY <1>3 DEF Busy
  <2>2. \A op \in Ahead : Step("upgrade", op) \/ Step("downgrade", op) =>
           op.do \notin {"setAside", "carryOver"} /\ ~ DropsKept(op)
    BY AlembicSteps DEF DropsKept
  <2>3. \A op \in Ahead : Step("upgrade", op) => ~ DropsMovies(op)
    BY AlembicSteps DEF DropsMovies
  <2>4. \A op \in Ahead : Step("boot", op) => ~ DropsMovies(op)
    BY BootOps
  <2>5. phase = "downgrade" => backend = "sqlite"
    BY VolumeAssumption DEF PgOK, Typed
  <2>6. Now \in Ahead
    BY <1>1
  <2> QED
    BY <1>2, <2>1, <2>2, <2>3, <2>4, <2>5, <2>6
<1>10. Now.do = "setAside" => ~ Has(work, Kept)
  BY <1>3 DEF Accepts
<1>11. Now \in Ahead
  BY <1>1
<1> HIDE DEF M, K, C, N, L, D
<1>12. /\ ~ (DropsKept(Now) /\ DropsMovies(Now))
       /\ DropsMovies(Now) => Now.do = "drop" /\ Now.do \notin Writes
       /\ DropsKept(Now) => Now.do = "drop" /\ Now.do \notin Writes
       /\ {"setAside", "swap"} \cap Writes = {}
       /\ "carryOver" \in Writes /\ "fillCopy" \in Writes
  BY StoresAre DEF DropsKept, DropsMovies, Writes
<1>13. ASSUME DropsMovies(Now)
       PROVE  /\ phase = "downgrade" /\ backend = "sqlite" /\ ~ open /\ db' = work'
              /\ added' = added \cap (N \cup L \cup D) /\ C = {}
  <2>1. phase = "downgrade" /\ backend = "sqlite" /\ ~ open
    BY <1>6, <1>9, <1>11, <1>13
  <2> QED
    BY <1>6, <1>8, <1>12, <1>13, <2>1
<1>14. added' = N \cup L
  <2>1. CASE DropsMovies(Now)
    BY <1>6, <1>7, <1>12, <1>13, <2>1
  <2>2. CASE DropsKept(Now)
    BY <1>6, <1>7, <1>8, <1>9, <1>12, <2>2
  <2>3. CASE Now.do = "setAside"
    BY <1>6, <1>7, <1>8, <1>9, <1>10, <1>12, <2>3
  <2>4. CASE Now.do = "carryOver"
    <3>1. \A op \in Ahead : op.do # "setAside"
      BY <1>1, <1>5, <2>4
    <3>2. M = {}
      BY <1>6, <1>11, <2>4, <3>1
    <3> QED
      BY <1>6, <1>7, <1>8, <1>12, <2>4, <3>2
  <2>5. CASE ~ DropsMovies(Now) /\ ~ DropsKept(Now) /\ Now.do \notin {"setAside", "carryOver"}
    <3>1. N = M /\ L = K
      BY <1>7, <2>5
    <3> QED
      BY <1>6, <1>8, <3>1
  <2> QED
    BY <2>1, <2>2, <2>3, <2>4, <2>5
<1>15. IF DropsKept(Now') THEN open' /\ N = L ELSE N \cap L = {}
  <2>1. CASE Now.do = "carryOver"
    BY <1>5, <1>7, <1>8, <1>12, <2>1
  <2>2. CASE Now.do # "carryOver"
    BY <1>5, <1>6, <1>7, <2>2
  <2> QED
    BY <2>1, <2>2
<1>16. (Now'.do = "swap" /\ Now'.table = "movies" /\ open') \/ D = {}
  BY <1>4, <1>6, <1>7, <1>8, <1>12
<1>17. Has(work', Kept) \/ L = {}
  BY <1>6, <1>7, <1>10
<1>18. /\ added' = db'.rows["movies"] \cup db'.rows[Kept]
       /\ db'.rows["movies"] \cap db'.rows[Kept] = {} /\ db'.rows["copy"] = {}
       /\ Has(db', Kept) \/ db'.rows[Kept] = {}
  <2>1. CASE db' = db
    <3>1. ~ DropsMovies(Now) \/ db = work'
      BY <1>13, <2>1
    <3>2. CASE DropsMovies(Now)
      BY <1>6, <1>7, <1>12, <1>13, <1>14, <1>17, <2>1, <3>1, <3>2 DEF N, L, D
    <3>3. CASE ~ DropsMovies(Now)
      <4>1. added' = added
        <5>1. CASE phase = "downgrade"
          <6>1. N = M /\ L = K
            BY <1>7, <1>9, <3>3, <5>1
          <6> QED
            BY <1>6, <1>14, <6>1
        <5>2. CASE phase # "downgrade"
          BY <1>8, <5>2
        <5> QED
          BY <5>1, <5>2
      <4> QED
        BY <1>6, <2>1, <4>1
    <3> QED
      BY <3>2, <3>3
  <2>2. CASE db' = work' /\ db' # db
    <3>1. Now.do \notin Writes /\ ~ open
      BY <1>8, <2>2
    <3>2. ~ DropsKept(Now') /\ D = {}
      BY <1>5, <1>6, <1>7, <1>12, <3>1
    <3> QED
      BY <1>14, <1>15, <1>17, <2>2, <3>2 DEF N, L, D
  <2> QED
    BY <1>8, <2>1, <2>2
<1>19. ASSUME \E op \in Ahead' : op.do = "carryOver", \A op \in Ahead' : op.do # "setAside"
       PROVE  N = {}
  <2>1. CASE Now.do = "setAside"
    BY <1>7, <2>1
  <2>2. CASE Now.do = "carryOver"
    BY <1>5, <1>19, <2>2
  <2>3. CASE Now.do \notin {"setAside", "carryOver"}
    <3>1. M = {}
      BY <1>1, <1>6, <1>19, <2>3
    <3> QED
      BY <1>7, <2>3, <3>1
  <2> QED
    BY <2>1, <2>2, <2>3
<1>20. ASSUME NEW op \in Ahead', DropsMovies(op) PROVE ~ open' /\ DropsFirst(todo')
  <2>1. ~ open /\ DropsFirst(todo) /\ backend = "sqlite"
    BY <1>1, <1>6, <1>9, <1>20
  <2>2. /\ DropsFirst(todo')
        /\ Head(todo).do \in Writes => \A o \in Range(todo') : ~ DropsMovies(o)
    BY <1>2, <1>3, <2>1, TailProgram
  <2>3. Now.do \notin Writes
    BY <1>2, <1>20, <2>2 DEF Ahead
  <2> QED
    BY <1>8, <2>1, <2>2, <2>3
<1>21. \A d \in {db', work'} : Has(d, Kept) \/ d.rows[Kept] = {}
  BY <1>17, <1>18 DEF L
<1> QED
  BY <1>1, <1>14, <1>15, <1>16, <1>18, <1>19, <1>20, <1>21 DEF RowsOK, N, L, D

LEMMA DoomedTail ==
    ASSUME NEW s, IsSeq(s), s # <<>>, Doomed(s), ~ Refused(Head(s)), NEW t, t = Tail(s)
    PROVE  Doomed(t)
<1>1. /\ Len(s) \in Nat /\ Len(s) > 0 /\ Head(s) = s[1] /\ Len(t) = Len(s) - 1
      /\ \A i \in 1 .. Len(s) - 1 : t[i] = s[i + 1]
  BY TailOf
<1>2. PICK p \in 1 .. Len(s) : Refused(s[p]) /\ \A q \in 1 .. p : s[q].do # "commit"
  BY DEF Doomed
<1>3. p # 1
  BY <1>1, <1>2
<1>4. p - 1 \in 1 .. Len(t) /\ p - 1 \in 1 .. Len(s) - 1 /\ p - 1 + 1 = p
  BY <1>1, <1>3
<1>5. t[p - 1] = s[p]
  BY <1>1, <1>4
<1>6. ASSUME NEW q \in 1 .. p - 1 PROVE t[q].do # "commit"
  <2>1. q \in 1 .. Len(s) - 1 /\ q + 1 \in 1 .. p
    BY <1>1, <1>4
  <2>2. t[q] = s[q + 1]
    BY <1>1, <2>1
  <2> QED
    BY <1>2, <2>1, <2>2
<1> QED
  BY <1>2, <1>4, <1>5, <1>6 DEF Doomed

LEMMA PgRan ==
    ASSUME Typed, ProgramOK, PgOK, Ran
    PROVE  PgOK'
<1> SUFFICES ASSUME backend = "postgresql" PROVE PgOK'
  BY DEF PgOK, Ran
<1>1. /\ db = Untouched /\ phase \in {"down", "upgrade", "boot"} /\ Doomed(todo)
  BY DEF PgOK, Ran
<1>2. /\ backend' = backend /\ phase' = phase /\ todo' = Tail(todo) /\ Accepts(work, Now)
      /\ db' = db \/ backend = "sqlite"
  BY DEF Ran
<1>3. IsSeq(todo) /\ todo # <<>> /\ Now = Head(todo)
  BY NowIs DEF Ran
<1>4. ~ Refused(Head(todo))
  BY <1>2, <1>3 DEF Accepts, Refused
<1>5. Doomed(todo')
  BY <1>1, <1>2, <1>3, <1>4, DoomedTail
<1>6. Doomed(todo)'
  BY <1>2, <1>5 DEF Doomed, Refused, TypeMissing, BadDefault
<1> QED
  BY <1>1, <1>2, <1>6 DEF PgOK

LEMMA UsableRan ==
    ASSUME Typed, ProgramOK, UsableOK, Ran
    PROVE  UsableOK'
<1> SUFFICES ASSUME ~ manual PROVE UsableOK'
  BY DEF UsableOK, Ran
<1>1. /\ Effect(work, Now, work') /\ Step(phase, Now) /\ Ahead = {Now} \cup Ahead'
  BY RanIs
<1>2. /\ phase' = phase /\ Accepts(work, Now) /\ (db' = db \/ db' = work') /\ Busy
  BY DEF Ran
<1>3. /\ phase = "boot" /\ db.stamp = 0 /\ work.stamp = 0
      /\ \A t \in Names : Has(db, t) => AsModelled(db, t)
      /\ \A t \in Names : Has(work, t) => AsModelled(work, t)
      /\ \A t \in Names : \/ Has(work, t) /\ (t = "movies" => \A op \in Ahead : op.do # "setAside")
                          \/ \E op \in Ahead : op.do = "create" /\ op.table = t
  BY <1>2 DEF UsableOK, Busy
<1>4. /\ Now.do \in {"commit", "create", "index", "setAside", "carryOver", "drop", "dropIndex"}
      /\ Now.do = "drop" => Now.table = Kept
      /\ Now.do = "create" => Now.table \in Names /\ Now.as = Models[Now.table]
  BY <1>1, <1>3, BootOps
<1>5. work'.stamp = 0
  BY <1>1, <1>3, <1>4 DEF Effect
<1>6. ASSUME NEW t \in Names, Has(work', t) PROVE AsModelled(work', t)
  <2>1. t # Kept
    BY KeptIsNoName
  <2>2. CASE /\ Now.do = "create" /\ Now.table = t
             /\ work'.tables[t].cols = Now.as.cols /\ work'.tables[t].id = Now.as.id
    BY <1>4, <2>2, ModelsAre DEF AsModelled
  <2>3. CASE /\ Has(work, t)
             /\ work'.tables[t].cols = work.tables[t].cols
             /\ work'.tables[t].id = work.tables[t].id
    BY <1>3, <2>3 DEF AsModelled
  <2> QED
    BY <1>1, <1>4, <1>6, <2>1, <2>2, <2>3 DEF Effect
<1>7. ASSUME NEW t \in Names
      PROVE  \/ Has(work', t) /\ (t = "movies" => \A op \in Ahead' : op.do # "setAside")
             \/ \E op \in Ahead' : op.do = "create" /\ op.table = t
  <2>1. CASE Has(work, t) /\ (t = "movies" => \A op \in Ahead : op.do # "setAside")
    <3>1. ~ (Now.do = "setAside" /\ t = "movies") /\ ~ (Now.do = "drop" /\ Now.table = t)
      BY <1>1, <1>4, <2>1, KeptIsNoName
    <3>2. Has(work', t)
      BY <1>1, <2>1, <3>1 DEF Effect
    <3> QED
      BY <1>1, <2>1, <3>2
  <2>2. CASE \E op \in Ahead' : op.do = "create" /\ op.table = t
    BY <2>2
  <2>3. CASE Now.do = "create" /\ Now.table = t
    <3>1. Has(work', t)
      BY <1>1, <2>3 DEF Effect
    <3>2. ~ Has(work, t)
      BY <1>2, <2>3 DEF Accepts
    <3>3. t = "movies" => \A op \in Ahead' : op.do # "setAside"
      BY <1>1, <3>2 DEF ProgramOK
    <3> QED
      BY <3>1, <3>3
  <2> QED
    BY <1>1, <1>3, <2>1, <2>2, <2>3
<1>8. \A t \in Names : Has(db', t) => AsModelled(db', t)
  BY <1>2, <1>3, <1>6
<1>9. db'.stamp = 0
  BY <1>2, <1>3, <1>5
<1> QED
  BY <1>2, <1>3, <1>5, <1>6, <1>7, <1>8, <1>9 DEF UsableOK

(* What a statement of an upgrade leaves, and what it gives.               *)
LEMMA UpgradeKeeps ==
    ASSUME NEW d, NEW op, NEW e, Effect(d, op, e), Step("upgrade", op), Accepts(d, op),
           NEW t, NEW c
    PROVE  /\ Holds(d, t, c) => Holds(e, t, c)
           /\ Aside(d, t, c) /\ ~ MakesMovies(op) => Aside(e, t, c)
           /\ Gives(op, t, c) => Holds(e, t, c)
<1>1. /\ op.do \in {"commit", "stamp", "create", "index", "add", "makeCopy", "fillCopy",
                   "swap"}
      /\ op.table # Kept
  BY AlembicSteps
<1>2. /\ op.do \in {"add", "swap"} => op.gone = {} /\ op.as.cols = {} /\ Has(d, op.table)
      /\ op.do = "create" => op.cols = {} /\ ~ Has(d, op.table)
      /\ op.do \notin {"create", "add", "swap"} => op.cols = {} /\ op.as.cols = {}
  <2>1. CASE UpOp(op)
    BY <2>1 DEF UpOp, Accepts
  <2>2. CASE StampOp(op)
    <3>1. op = Stamp(op.rev)
      BY <2>2 DEF StampOp
    <3>2. /\ Stamp(op.rev).do = "stamp" /\ Stamp(op.rev).cols = {}
          /\ Stamp(op.rev).as.cols = {}
      BY StampIs
    <3>3. op.do = "stamp" /\ op.cols = {} /\ op.as.cols = {}
      BY <3>1, <3>2
    <3> QED
      BY <3>3
  <2> QED
    BY <2>1, <2>2, CommitIs DEF Step
<1>3. ASSUME NEW u
      PROVE  Has(e, u) <=> (op.do = "create" /\ op.table = u) \/ Has(d, u)
  BY <1>1 DEF Effect
<1>4. ASSUME NEW u, Has(d, u)
      PROVE  \/ op.do \in {"add", "swap"} /\ op.table = u
                /\ e.tables[u].cols = (d.tables[u].cols \cup op.cols) \ op.gone
             \/ op.table # u /\ e.tables[u].cols = d.tables[u].cols
             \/ op.do \notin {"create", "add", "swap"} /\ e.tables[u].cols = d.tables[u].cols
  <2>1. Has(e, u) /\ ~ (op.do = "create" /\ op.table = u) /\ op.do # "setAside"
    BY <1>1, <1>2, <1>3, <1>4
  <2> QED
    BY <2>1 DEF Effect
<1>5. Holds(d, t, c) => Holds(e, t, c)
  <2> SUFFICES ASSUME Holds(d, t, c) PROVE Holds(e, t, c)
    OBVIOUS
  <2>1. Has(d, t) /\ c \in d.tables[t].cols /\ Has(e, t)
    BY <1>3 DEF Holds
  <2> QED
    BY <1>2, <1>4, <2>1 DEF Holds
<1>6. Aside(d, t, c) /\ ~ MakesMovies(op) => Aside(e, t, c)
  <2> SUFFICES ASSUME Aside(d, t, c), ~ MakesMovies(op) PROVE Aside(e, t, c)
    OBVIOUS
  <2>1. t = "movies" /\ ~ Has(e, t) /\ Has(e, Kept)
    BY <1>3 DEF Aside, MakesMovies
  <2>2. e.tables[Kept].cols = d.tables[Kept].cols
    BY <1>1, <1>4 DEF Aside
  <2> QED
    BY <2>1, <2>2 DEF Aside
<1>7. Gives(op, t, c) => Holds(e, t, c)
  <2> SUFFICES ASSUME Gives(op, t, c) PROVE Holds(e, t, c)
    OBVIOUS
  <2>1. op.table = t /\ c \in op.cols \cup op.as.cols
    BY DEF Gives
  <2>2. CASE op.do = "create"
    <3>1. Has(e, t) /\ c \in op.as.cols /\ ~ Has(d, t)
      BY <1>2, <1>3, <2>1, <2>2
    <3>2. e.tables[t].cols = op.as.cols
      BY <1>1, <3>1 DEF Effect
    <3> QED
      BY <3>1, <3>2 DEF Holds
  <2>3. CASE op.do \in {"add", "swap"}
    <3>1. Has(e, t) /\ Has(d, t) /\ c \in op.cols /\ op.gone = {}
      BY <1>2, <1>3, <2>1, <2>3
    <3>2. e.tables[t].cols = (d.tables[t].cols \cup op.cols) \ op.gone
      BY <1>4, <2>1, <2>3, <3>1
    <3> QED
      BY <3>1, <3>2 DEF Holds
  <2> QED
    BY <1>2, <2>1, <2>2, <2>3
<1> QED
  BY <1>5, <1>6, <1>7

LEMMA TruthfulTail ==
    ASSUME NEW s, IsSeq(s), s # <<>>, NEW u, u = Tail(s), NEW d, NEW e, Effect(d, Head(s), e),
           Step("upgrade", Head(s)), Accepts(d, Head(s)), Truthful(d, s)
    PROVE  Truthful(e, u)
<1>1. /\ Len(s) \in Nat /\ Len(s) > 0 /\ Head(s) = s[1] /\ Len(u) = Len(s) - 1
      /\ \A i \in 1 .. Len(s) - 1 : u[i] = s[i + 1]
      /\ Range(s) = {Head(s)} \cup Range(u)
  BY TailOf
<1>2. ASSUME NEW k \in 1 .. Len(u), u[k].do = "stamp", NEW t \in DOMAIN Promised(u[k].rev),
             NEW c \in Promised(u[k].rev)[t].cols
      PROVE  Foreseen(e, u, k, t, c)
  <2>1. k + 1 \in 1 .. Len(s) /\ u[k] = s[k + 1] /\ k \in Nat
    BY <1>1
  <2>2. Foreseen(d, s, k + 1, t, c)
    BY <1>2, <2>1 DEF Truthful
  <2>3. CASE Holds(d, t, c)
    <3>1. Holds(e, t, c)
      BY ONLY <2>3, Effect(d, Head(s), e), Step("upgrade", Head(s)), Accepts(d, Head(s)),
              UpgradeKeeps
    <3> QED
      BY <3>1 DEF Foreseen
  <2>4. CASE Aside(d, t, c) /\ \A op \in Range(s) : ~ MakesMovies(op)
    <3>0. ~ MakesMovies(Head(s))
      BY <1>1, <2>4
    <3>1. Aside(e, t, c)
      BY ONLY <2>4, <3>0, Effect(d, Head(s), e), Step("upgrade", Head(s)), Accepts(d, Head(s)),
              UpgradeKeeps
    <3> QED
      BY <1>1, <2>4, <3>1 DEF Foreseen
  <2>5. CASE \E j \in 1 .. k : Gives(s[j], t, c)
    <3>1. PICK j \in 1 .. k : Gives(s[j], t, c)
      BY <2>5
    <3>2. CASE j = 1
      <4>0. Gives(Head(s), t, c)
        BY <1>1, <3>1, <3>2
      <4>1. Holds(e, t, c)
        BY ONLY <4>0, Effect(d, Head(s), e), Step("upgrade", Head(s)), Accepts(d, Head(s)),
                UpgradeKeeps
      <4> QED
        BY <4>1 DEF Foreseen
    <3>3. CASE j # 1
      <4>1. j - 1 \in 1 .. k - 1 /\ j - 1 \in 1 .. Len(s) - 1 /\ j - 1 + 1 = j
        BY <1>1, <2>1, <3>3
      <4>2. u[j - 1] = s[j]
        BY <1>1, <4>1
      <4> QED
        BY <3>1, <4>1, <4>2 DEF Foreseen
    <3> QED
      BY <3>2, <3>3
  <2>6. k + 1 - 1 = k
    BY <2>1
  <2> QED
    BY <2>2, <2>3, <2>4, <2>5, <2>6 DEF Foreseen
<1> QED
  BY <1>2 DEF Truthful

(* What a statement of a downgrade or of a start leaves.                   *)
LEMMA DowngradeKeeps ==
    ASSUME NEW d, NEW op, NEW e, Effect(d, op, e), Step("downgrade", op), op.do # "commit",
           NEW r, ~ Takes(op, r), NEW t \in DOMAIN Promised(r), NEW c \in Promised(r)[t].cols,
           Shows(d, t, c)
    PROVE  Shows(e, t, c)
<1>1. /\ op.do \in {"stamp", "drop", "dropIndex", "makeCopy", "fillCopy", "swap"}
      /\ op.table # Kept
  BY AlembicSteps
<1>2. ~ (op.do = "drop" /\ op.table = t)
  BY DEF Takes
<1>3. op.do = "swap" /\ op.table = t => c \notin op.gone
  BY DEF Takes
<1>4. ASSUME NEW u
      PROVE  Has(e, u) <=> Has(d, u) /\ ~ (op.do = "drop" /\ op.table = u)
  BY <1>1 DEF Effect
<1>5. CASE Holds(d, t, c)
  <2>1. Has(e, t) /\ Has(d, t) /\ c \in d.tables[t].cols
    BY <1>2, <1>4, <1>5 DEF Holds
  <2>2. \/ op.do = "swap" /\ op.table = t /\ e.tables[t].cols = (d.tables[t].cols \cup op.cols) \ op.gone
        \/ e.tables[t].cols = d.tables[t].cols
    BY <1>1, <2>1 DEF Effect
  <2> QED
    BY <1>3, <2>1, <2>2 DEF Shows, Holds
<1>6. CASE Aside(d, t, c)
  <2>1. t = "movies" /\ ~ Has(e, t) /\ Has(e, Kept) /\ Has(d, Kept) /\ c \in d.tables[Kept].cols
    BY <1>1, <1>4, <1>6 DEF Aside
  <2>2. e.tables[Kept].cols = d.tables[Kept].cols
    BY <1>1, <2>1 DEF Effect
  <2> QED
    BY <2>1, <2>2 DEF Shows, Aside
<1> QED
  BY <1>5, <1>6 DEF Shows

LEMMA BootKeeps ==
    ASSUME NEW d, NEW op, NEW e, Effect(d, op, e), Step("boot", op), Accepts(d, op),
           op.do # "commit", DropsKept(op) => Has(d, "movies"), NEW r \in 0 .. 5,
           NEW t \in DOMAIN Promised(r), NEW c \in Promised(r)[t].cols, Shows(d, t, c)
    PROVE  Shows(e, t, c)
<1>1. /\ op.do \in {"create", "index", "setAside", "carryOver", "drop", "dropIndex"}
      /\ op.do = "drop" => op.table = Kept
      /\ op.do = "create" => op.table \in Names /\ op.as = Models[op.table]
  BY BootOps
<1>2. t \in Names /\ t # Kept
  BY PromisedIs, KeptIsNoName
<1>3. /\ op.do = "create" => ~ Has(d, op.table)
      /\ op.do = "setAside" => ~ Has(d, Kept)
  BY DEF Accepts
<1>4. CASE Holds(d, t, c)
  <2>1. Has(d, t) /\ c \in d.tables[t].cols
    BY <1>4 DEF Holds
  <2>2. CASE op.do = "setAside" /\ t = "movies"
    <3>1. Has(e, Kept) /\ ~ Has(e, "movies")
      BY <2>2, StoresAre DEF Effect
    <3>2. e.tables[Kept].cols = d.tables["movies"].cols
      BY <1>3, <2>2, <3>1 DEF Effect
    <3> QED
      BY <2>1, <2>2, <3>1, <3>2 DEF Shows, Aside
  <2>3. CASE ~ (op.do = "setAside" /\ t = "movies")
    <3>1. Has(e, t)
      BY <1>1, <1>2, <2>1, <2>3 DEF Effect
    <3>2. e.tables[t].cols = d.tables[t].cols
      BY <1>1, <1>2, <1>3, <2>1, <3>1 DEF Effect
    <3> QED
      BY <2>1, <3>1, <3>2 DEF Shows, Holds
  <2> QED
    BY <2>2, <2>3
<1>5. CASE Aside(d, t, c)
  <2>1. t = "movies" /\ ~ Has(d, t) /\ Has(d, Kept) /\ c \in d.tables[Kept].cols
    BY <1>5 DEF Aside
  <2>2. CASE MakesMovies(op)
    <3>1. Has(e, "movies") /\ op.as = Models["movies"]
      BY <1>1, <2>2 DEF Effect, MakesMovies
    <3>2. e.tables["movies"].cols = Models["movies"].cols
      BY <2>1, <2>2, <3>1 DEF Effect, MakesMovies
    <3>3. c \in Models["movies"].cols
      <4>1. "movies" \in DOMAIN Promised(r) /\ c \in Promised(r)["movies"].cols
        BY <2>1
      <4> QED
        BY ONLY <4>1, r \in 0 .. 5, MoviesPromised
    <3> QED
      BY <2>1, <3>1, <3>2, <3>3 DEF Shows, Holds
  <2>3. CASE ~ MakesMovies(op)
    <3>1. ~ DropsKept(op) /\ op.do # "setAside"
      BY <1>3, <2>1
    <3>2. Has(e, Kept) /\ ~ Has(e, "movies")
      BY <1>1, <2>1, <2>3, <3>1, StoresAre DEF Effect, MakesMovies, DropsKept
    <3>3. ~ (op.do \in {"create", "add", "swap"} /\ op.table = Kept)
      BY <1>1, KeptIsNoName
    <3>4. e.tables[Kept].cols = d.tables[Kept].cols
      BY <3>1, <3>2, <3>3 DEF Effect
    <3> QED
      BY <2>1, <3>2, <3>4 DEF Shows, Aside
  <2> QED
    BY <2>2, <2>3
<1> QED
  BY <1>4, <1>5 DEF Shows

LEMMA Covering ==
    ASSUME NEW d, NEW r \in 0 .. 5, NEW e,
           \A t \in DOMAIN Promised(r) : \A c \in Promised(r)[t].cols :
               Shows(d, t, c) => Shows(e, t, c),
           Covers(d, r)
    PROVE  Covers(e, r)
BY DEF Covers

LEMMA StampRanUp ==
    ASSUME Typed, ProgramOK, StampOK, Ran, ~ cut, phase = "upgrade"
    PROVE  /\ Covers(work', work'.stamp)
           /\ Truthful(work', todo')
           /\ (\E op \in Ahead' : MakesMovies(op)) => work'.stamp = 0
<1>1. /\ Effect(work, Now, work') /\ Step(phase, Now) /\ Ahead = {Now} \cup Ahead'
      /\ Database(work')
  BY RanIs
<1>2. todo' = Tail(todo) /\ Accepts(work, Now) /\ Now.do # "commit"
  BY DEF Ran
<1>3. IsSeq(todo) /\ todo # <<>> /\ Now = Head(todo) /\ MadeFirst(todo)
  BY NowIs DEF Ran
<1>4. /\ Covers(work, work.stamp) /\ Truthful(work, todo)
      /\ (\E op \in Ahead : MakesMovies(op)) => work.stamp = 0
  BY DEF StampOK
<1>5. Truthful(work', todo')
  <2>1. /\ Effect(work, Head(todo), work') /\ Step("upgrade", Head(todo))
        /\ Accepts(work, Head(todo))
    BY <1>1, <1>2, <1>3
  <2> QED
    BY ONLY <1>2, <1>3, <1>4, <2>1, TruthfulTail
<1>6. Now.do = "stamp" => \A op \in Ahead' : ~ MakesMovies(op)
  <2>1. Head(todo).do = "stamp" => \A op \in Range(todo') : ~ MakesMovies(op)
    BY <1>2, <1>3, TailProgram
  <2> QED
    BY <1>3, <2>1 DEF Ahead
<1>7. work'.stamp = IF Now.do = "stamp" THEN Now.rev ELSE work.stamp
  BY <1>1 DEF Effect
<1>8. (\E op \in Ahead' : MakesMovies(op)) => work'.stamp = 0
  BY <1>1, <1>4, <1>6, <1>7
<1>9. ASSUME NEW t \in DOMAIN Promised(work'.stamp), NEW c \in Promised(work'.stamp)[t].cols
      PROVE  Shows(work', t, c)
  <2>0. /\ Effect(work, Now, work') /\ Step("upgrade", Now)
        /\ Accepts(work, Now) /\ Now.do # "commit"
    BY <1>1, <1>2
  <2>1. Holds(work, t, c) \/ (Aside(work, t, c) /\ ~ MakesMovies(Now))
    <3>1. CASE Now.do = "stamp"
      <4>1. Len(todo) \in Nat /\ Len(todo) > 0 /\ Now = todo[1]
        BY <1>3, TailOf
      <4>2. 1 \in 1 .. Len(todo) /\ todo[1].do = "stamp" /\ todo[1].rev = work'.stamp
        BY <1>7, <3>1, <4>1
      <4>3. Foreseen(work, todo, 1, t, c)
        BY <1>4, <1>9, <4>2 DEF Truthful
      <4>4. ~ MakesMovies(Now)
        BY <3>1 DEF MakesMovies
      <4> QED
        BY <4>3, <4>4 DEF Foreseen
    <3>2. CASE Now.do # "stamp"
      <4>1. work'.stamp = work.stamp
        BY <1>7, <3>2
      <4>2. Shows(work, t, c)
        BY <1>4, <1>9, <4>1 DEF Covers
      <4>3. MakesMovies(Now) => work.stamp = 0
        BY <1>1, <1>4
      <4>4. ~ MakesMovies(Now)
        BY <1>9, <4>1, <4>3, NothingPromised
      <4> QED
        BY <4>2, <4>4 DEF Shows
    <3> QED
      BY <3>1, <3>2
  <2>2. Holds(work, t, c) => Holds(work', t, c)
    BY ONLY <2>0, UpgradeKeeps
  <2>3. Aside(work, t, c) /\ ~ MakesMovies(Now) => Aside(work', t, c)
    BY ONLY <2>0, UpgradeKeeps
  <2> QED
    BY <2>1, <2>2, <2>3 DEF Shows
<1> QED
  BY <1>5, <1>8, <1>9 DEF Covers

LEMMA StampRanBoot ==
    ASSUME Typed, ProgramOK, StampOK, Ran, ~ cut, phase = "boot"
    PROVE  /\ Covers(work', work'.stamp)
           /\ /\ \E op \in Ahead' : DropsKept(op)
              /\ \A op \in Ahead' : op.do # "setAside" /\ ~ MakesMovies(op)
              => /\ Has(work', "movies")
                 /\ Models["movies"].cols \subseteq work'.tables["movies"].cols
<1>1. /\ Effect(work, Now, work') /\ Step("boot", Now) /\ Ahead = {Now} \cup Ahead'
      /\ Database(work)
  BY RanIs DEF Typed
<1>2. todo' = Tail(todo) /\ Accepts(work, Now) /\ Now.do # "commit"
  BY DEF Ran
<1>3. IsSeq(todo) /\ todo # <<>> /\ Now = Head(todo) /\ InTurn(todo)
  BY NowIs DEF Ran
<1>4. /\ Covers(work, work.stamp)
      /\ /\ \E op \in Ahead : DropsKept(op)
         /\ \A op \in Ahead : op.do # "setAside" /\ ~ MakesMovies(op)
         => /\ Has(work, "movies")
            /\ Models["movies"].cols \subseteq work.tables["movies"].cols
  BY DEF StampOK
<1>5. /\ DropsKept(Now) => \A op \in Ahead' : op.do # "setAside" /\ ~ MakesMovies(op)
      /\ Now.do = "setAside" => \E op \in Ahead' : MakesMovies(op)
  <2>1. /\ DropsKept(Head(todo)) => \A op \in Range(todo') : op.do # "setAside" /\ ~ MakesMovies(op)
        /\ Head(todo).do = "setAside" => \E op \in Range(todo') : MakesMovies(op)
    BY <1>2, <1>3, TailInTurn
  <2> QED
    BY <1>3, <2>1 DEF Ahead
<1>6. /\ Now.do \in {"create", "index", "setAside", "carryOver", "drop", "dropIndex"}
      /\ Now.do = "drop" => Now.table = Kept
      /\ Now.do = "create" => Now.table \in Names /\ Now.as = Models[Now.table]
  BY <1>1, <1>2, BootOps
<1>7. work'.stamp = work.stamp /\ work.stamp \in 0 .. 5
  <2>1. work'.stamp = work.stamp
    BY <1>1, <1>6 DEF Effect
  <2> QED
    BY <1>1, <2>1, DatabaseIs, HeadIs
<1>8. DropsKept(Now) => Has(work, "movies")
  <2> SUFFICES ASSUME DropsKept(Now) PROVE Has(work, "movies")
    OBVIOUS
  <2>1. Now.do # "setAside" /\ ~ MakesMovies(Now)
    BY DEF DropsKept, MakesMovies
  <2> QED
    BY <1>1, <1>4, <1>5, <2>1
<1>9. Covers(work', work'.stamp)
  <2>1. ASSUME NEW t \in DOMAIN Promised(work.stamp), NEW c \in Promised(work.stamp)[t].cols,
               Shows(work, t, c)
        PROVE  Shows(work', t, c)
    BY ONLY <1>1, <1>2, <1>7, <1>8, <2>1, BootKeeps
  <2> QED
    BY ONLY <1>4, <1>7, <2>1, Covering
<1>10. ASSUME \E op \in Ahead' : DropsKept(op),
              \A op \in Ahead' : op.do # "setAside" /\ ~ MakesMovies(op)
       PROVE  /\ Has(work', "movies")
              /\ Models["movies"].cols \subseteq work'.tables["movies"].cols
  <2>1. CASE MakesMovies(Now)
    <3>1. Has(work', "movies") /\ Now.do = "create" /\ Now.table = "movies" /\ ~ Has(work, "movies")
      BY <1>1, <1>2, <2>1 DEF Effect, MakesMovies, Accepts
    <3>2. work'.tables["movies"].cols = Now.as.cols
      BY <1>1, <3>1 DEF Effect
    <3> QED
      BY <1>6, <3>1, <3>2
  <2>2. CASE ~ MakesMovies(Now)
    <3>1. Now.do # "setAside"
      BY <1>5, <1>10
    <3>2. /\ Has(work, "movies")
          /\ Models["movies"].cols \subseteq work.tables["movies"].cols
      BY <1>1, <1>4, <1>10, <2>2, <3>1
    <3>3. Has(work', "movies")
      BY <1>1, <1>6, <3>1, <3>2, StoresAre DEF Effect
    <3>4. work'.tables["movies"].cols = work.tables["movies"].cols
      BY <1>1, <1>6, <2>2, <3>1, <3>3, StoresAre DEF Effect, MakesMovies
    <3> QED
      BY <3>2, <3>3, <3>4
  <2> QED
    BY <2>1, <2>2
<1> QED
  BY <1>9, <1>10

LEMMA StampRanDown ==
    ASSUME Typed, ProgramOK, StampOK, Ran, ~ cut, phase = "downgrade"
    PROVE  \E s \in 0 .. HeadRevision :
              /\ Covers(work', s)
              /\ \A op \in Ahead' : ~ Takes(op, s) /\ (op.do = "stamp" => op.rev = s)
              /\ work'.stamp = s \/ \E op \in Ahead' : op.do = "stamp"
<1>1. /\ Effect(work, Now, work') /\ Step("downgrade", Now) /\ Ahead = {Now} \cup Ahead'
  BY RanIs
<1>2. Now.do # "commit"
  BY DEF Ran
<1>3. PICK s \in 0 .. HeadRevision :
         /\ Covers(work, s)
         /\ \A op \in Ahead : ~ Takes(op, s) /\ (op.do = "stamp" => op.rev = s)
         /\ work.stamp = s \/ \E op \in Ahead : op.do = "stamp"
  BY DEF StampOK
<1>4. ~ Takes(Now, s) /\ (Now.do = "stamp" => Now.rev = s)
  BY <1>1, <1>3
<1>5. Covers(work', s)
  <2>1. ASSUME NEW t \in DOMAIN Promised(s), NEW c \in Promised(s)[t].cols, Shows(work, t, c)
        PROVE  Shows(work', t, c)
    BY ONLY <1>1, <1>2, <1>4, <2>1, DowngradeKeeps
  <2>2. s \in 0 .. 5
    BY HeadIs
  <2> QED
    BY ONLY <1>3, <2>1, <2>2, Covering
<1>6. work'.stamp = IF Now.do = "stamp" THEN Now.rev ELSE work.stamp
  BY <1>1 DEF Effect
<1>7. work'.stamp = s \/ \E op \in Ahead' : op.do = "stamp"
  BY <1>1, <1>3, <1>4, <1>6
<1> QED
  BY <1>1, <1>3, <1>5, <1>7

LEMMA StampRan ==
    ASSUME Typed, ProgramOK, StampOK, Ran
    PROVE  StampOK'
<1>1. cut' = cut /\ phase' = phase /\ (db' = db \/ db' = work') /\ Busy
  BY DEF Ran
<1> SUFFICES ASSUME ~ cut PROVE StampOK'
  BY <1>1 DEF StampOK
<1>2. phase # "downgrade" => Covers(db, db.stamp)
  BY DEF StampOK
<1>3. CASE phase = "upgrade"
  BY <1>1, <1>2, <1>3, StampRanUp DEF StampOK
<1>4. CASE phase = "boot"
  BY <1>1, <1>2, <1>4, StampRanBoot DEF StampOK
<1>5. CASE phase = "downgrade"
  BY <1>1, <1>5, StampRanDown DEF StampOK
<1> QED
  BY <1>1, <1>3, <1>4, <1>5 DEF Busy

LEMMA RanOK ==
    ASSUME IInv, Ran
    PROVE  IInv'
<1>1. Typed /\ ProgramOK /\ RowsOK /\ PgOK /\ UsableOK /\ StampOK
  BY DEF IInv
<1>2. Typed'
  <2>1. Database(work') /\ Database(db')
    BY <1>1, RanIs
  <2>2. open' \in BOOLEAN
    <3>1. (open \/ backend = "postgresql") \in BOOLEAN
      BY Zenon
    <3> QED
      BY <3>1 DEF Ran
  <2>3. UNCHANGED <<backend, phase, commands, crashes, pure, manual, cut>>
    BY DEF Ran
  <2> QED
    BY <1>1, <2>1, <2>2, <2>3 DEF Typed
<1> QED
  BY <1>1, <1>2, ProgramRan, RowsRan, PgRan, UsableRan, StampRan DEF IInv

LEMMA CommitOK ==
    ASSUME IInv, CommitWork
    PROVE  IInv'
<1>0. Typed /\ ProgramOK /\ RowsOK /\ PgOK /\ UsableOK /\ StampOK
  BY DEF IInv
<1>1. /\ Busy /\ Now.do = "commit" /\ db' = work /\ work' = work /\ open' = FALSE
      /\ todo' = Tail(todo)
      /\ phase' = IF todo' # <<>> THEN phase ELSE IF phase = "boot" THEN "up" ELSE "down"
      /\ UNCHANGED <<backend, commands, crashes, added, pure, manual, cut>>
  BY DEF CommitWork, ghosts
<1>2. /\ IsSeq(todo) /\ todo # <<>> /\ todo[Len(todo)] = Commit
      /\ Now = Head(todo) /\ Now \in Ahead /\ Step(phase, Now)
      /\ \A op \in Ahead : Step(phase, op)
      /\ CopiesSwapped(todo) /\ InTurn(todo) /\ MadeFirst(todo)
  BY <1>0, <1>1, NowIs
<1>3. /\ IsSeq(todo') /\ Ahead = {Now} \cup Ahead'
      /\ CopiesSwapped(todo') /\ MadeFirst(todo')
      /\ todo' # <<>> => todo'[Len(todo')] = Commit
      /\ DropsFirst(todo) => DropsFirst(todo')
  <2>1. IsSeq(todo') /\ Range(todo) = {Head(todo)} \cup Range(todo')
    BY <1>1, <1>2, TailProgram
  <2>2. CopiesSwapped(todo') /\ MadeFirst(todo')
    BY <1>1, <1>2, TailProgram
  <2>3. todo' # <<>> => todo'[Len(todo')] = Commit
    BY <1>1, <1>2, TailProgram
  <2>4. DropsFirst(todo) => DropsFirst(todo')
    BY <1>1, <1>2, TailProgram
  <2> QED
    BY <1>2, <2>1, <2>2, <2>3, <2>4 DEF Ahead
<1>4. /\ InTurn(todo')
      /\ todo' # <<>> => ~ DropsKept(Now')
  <2>1. InTurn(todo') /\ (todo' # <<>> /\ DropsKept(Head(todo')) => Head(todo).do = "carryOver")
    BY <1>1, <1>2, TailInTurn
  <2>2. Now' = Head(todo')
    BY DEF Now
  <2> QED
    BY <1>1, <1>2, <2>1, <2>2
<1>5. /\ phase \in {"upgrade", "downgrade", "boot"}
      /\ todo' # <<>> => Busy' /\ phase' = phase
      /\ todo' = <<>> => ~ Busy' /\ phase' \in {"up", "down"} /\ Ahead' = {}
  BY <1>1, Nothing DEF Busy, Ahead
<1>6. Typed'
  <2>1. open' \in BOOLEAN
    BY <1>1, Zenon
  <2> QED
    BY <1>0, <1>1, <1>5, <2>1 DEF Typed
<1>7. ProgramOK'
  <2>1. \A op \in Ahead' : Step(phase, op)
    BY <1>2, <1>3
  <2>2. (\E op \in Ahead' : op.do = "setAside") => Has(work, "movies")
    BY <1>0, <1>3 DEF ProgramOK
  <2>3. CASE todo' # <<>>
    BY <1>1, <1>3, <1>4, <1>5, <2>1, <2>2, <2>3 DEF ProgramOK
  <2>4. CASE todo' = <<>>
    BY <1>1, <1>5, <2>4 DEF ProgramOK
  <2> QED
    BY <2>3, <2>4
<1>8. RowsOK'
  <2>1. /\ ~ DropsKept(Now) /\ Now.do # "swap" /\ Now.do # "setAside"
    BY <1>1 DEF DropsKept
  <2>2. /\ added = work.rows["movies"] \cup work.rows[Kept]
        /\ work.rows["movies"] \cap work.rows[Kept] = {} /\ work.rows["copy"] = {}
        /\ Has(work, Kept) \/ work.rows[Kept] = {}
        /\ (\E op \in Ahead : op.do = "carryOver") /\ (\A op \in Ahead : op.do # "setAside")
              => work.rows["movies"] = {}
        /\ (\E op \in Ahead : DropsMovies(op)) => DropsFirst(todo)
    BY <1>0, <2>1 DEF RowsOK
  <2>3. /\ (\E op \in Ahead' : op.do = "carryOver") /\ (\A op \in Ahead' : op.do # "setAside")
              => work.rows["movies"] = {}
        /\ (\E op \in Ahead' : DropsMovies(op)) => DropsFirst(todo')
    BY <1>3, <2>1, <2>2
  <2> QED
    BY <1>1, <1>4, <2>2, <2>3 DEF RowsOK
<1>9. backend # "postgresql"
  <2> SUFFICES ASSUME backend = "postgresql" PROVE FALSE
    OBVIOUS
  <2>1. PICK p \in 1 .. Len(todo) : \A q \in 1 .. p : todo[q].do # "commit"
    BY <1>0, <1>1 DEF PgOK, Doomed
  <2>2. Len(todo) \in Nat /\ Head(todo) = todo[1]
    BY <1>2, TailOf
  <2>3. 1 \in 1 .. p
    BY <2>2
  <2> QED
    BY <1>1, <1>2, <2>1, <2>2, <2>3
<1>10. UsableOK'
  <2> SUFFICES ASSUME ~ manual PROVE UsableOK'
    BY <1>1 DEF UsableOK
  <2>1. /\ phase = "boot" /\ work.stamp = 0
        /\ \A t \in Names : Has(work, t) => AsModelled(work, t)
        /\ \A t \in Names :
              \/ Has(work, t) /\ (t = "movies" => \A op \in Ahead : op.do # "setAside")
              \/ \E op \in Ahead : op.do = "create" /\ op.table = t
    BY <1>0, <1>5 DEF UsableOK
  <2>2. \A t \in Names :
           \/ Has(work, t) /\ (t = "movies" => \A op \in Ahead' : op.do # "setAside")
           \/ \E op \in Ahead' : op.do = "create" /\ op.table = t
    BY <1>1, <1>3, <2>1
  <2>3. todo' = <<>> => \A t \in Names : Has(work, t)
    BY <1>5, <2>2
  <2>4. phase' = IF todo' # <<>> THEN "boot" ELSE "up"
    BY <1>1, <2>1
  <2> QED
    BY <1>1, <2>1, <2>2, <2>3, <2>4 DEF UsableOK
<1>11. StampOK'
  <2> SUFFICES ASSUME ~ cut PROVE StampOK'
    BY <1>1 DEF StampOK
  <2>1. CASE phase = "upgrade"
    <3>1. /\ Covers(work, work.stamp) /\ Truthful(work, todo)
          /\ (\E op \in Ahead : MakesMovies(op)) => work.stamp = 0
      BY <1>0, <2>1 DEF StampOK
    <3>2. Effect(work, Now, work)
      BY <1>1 DEF Effect, DropsMovies, DropsKept
    <3>3. Accepts(work, Now)
      BY <1>1 DEF Accepts
    <3>4. Truthful(work, todo')
      <4>1. /\ Effect(work, Head(todo), work) /\ Step("upgrade", Head(todo))
            /\ Accepts(work, Head(todo))
        BY <1>2, <2>1, <3>2, <3>3
      <4> QED
        BY ONLY <1>1, <1>2, <3>1, <4>1, TruthfulTail
    <3>5. phase' = "upgrade" \/ phase' = "down"
      BY <1>1, <2>1
    <3> QED
      BY <1>1, <1>3, <3>1, <3>4, <3>5 DEF StampOK
  <2>2. CASE phase = "boot"
    <3>1. /\ Covers(work, work.stamp)
          /\ /\ \E op \in Ahead : DropsKept(op)
             /\ \A op \in Ahead : op.do # "setAside" /\ ~ MakesMovies(op)
             => /\ Has(work, "movies")
                /\ Models["movies"].cols \subseteq work.tables["movies"].cols
      BY <1>0, <2>2 DEF StampOK
    <3>2. phase' = "boot" \/ phase' = "up"
      BY <1>1, <2>2
    <3>3. Now.do # "setAside" /\ ~ MakesMovies(Now)
      BY <1>1 DEF MakesMovies
    <3> QED
      BY <1>1, <1>3, <3>1, <3>2, <3>3 DEF StampOK
  <2>3. CASE phase = "downgrade"
    <3>1. PICK s \in 0 .. HeadRevision :
             /\ Covers(work, s)
             /\ \A op \in Ahead : ~ Takes(op, s) /\ (op.do = "stamp" => op.rev = s)
             /\ work.stamp = s \/ \E op \in Ahead : op.do = "stamp"
      BY <1>0, <2>3 DEF StampOK
    <3>2. work.stamp = s \/ \E op \in Ahead' : op.do = "stamp"
      BY <1>1, <1>3, <3>1
    <3>3. CASE todo' = <<>>
      <4>1. work.stamp = s /\ phase' = "down"
        BY <1>1, <1>5, <2>3, <3>2, <3>3
      <4> QED
        BY <1>1, <3>1, <4>1 DEF StampOK
    <3>4. CASE todo' # <<>>
      BY <1>1, <1>3, <1>5, <2>3, <3>1, <3>2, <3>4 DEF StampOK
    <3> QED
      BY <3>3, <3>4
  <2> QED
    BY <1>5, <2>1, <2>2, <2>3
<1>12. PgOK'
  BY <1>1, <1>9 DEF PgOK
<1> QED
  BY <1>6, <1>7, <1>8, <1>10, <1>11, <1>12 DEF IInv

LEMMA OverOK ==
    ASSUME IInv, Over, UNCHANGED <<backend, db, commands, added, manual>>,
           crashes' \in 0 .. Crashes
    PROVE  IInv'
<1>0. Typed /\ ProgramOK /\ RowsOK /\ PgOK /\ UsableOK /\ StampOK
  BY DEF IInv
<1>1. /\ work' = db /\ db' = db /\ open' = FALSE /\ phase' = "down" /\ todo' = <<>>
      /\ pure' = FALSE /\ cut' = (cut \/ phase = "downgrade")
      /\ UNCHANGED <<backend, commands, added, manual>>
  BY DEF Over
<1>2. ~ Busy' /\ Ahead' = {}
  BY <1>1, Nothing DEF Busy, Ahead
<1>3. Typed'
  <2>1. open' \in BOOLEAN
    BY <1>1, Zenon
  <2>2. pure' \in BOOLEAN
    BY <1>1, Zenon
  <2>3. cut' \in BOOLEAN
    BY <1>1, Zenon
  <2> QED
    BY <1>0, <1>1, <2>1, <2>2, <2>3 DEF Typed
<1>4. ProgramOK'
  BY <1>1, <1>2 DEF ProgramOK
<1>5. RowsOK'
  BY <1>0, <1>1, <1>2 DEF RowsOK
<1>6. PgOK'
  BY <1>0, <1>1, <1>2 DEF PgOK
<1>7. UsableOK'
  BY <1>0, <1>1 DEF UsableOK
<1>8. StampOK'
  BY <1>0, <1>1 DEF StampOK
<1> QED
  BY <1>3, <1>4, <1>5, <1>6, <1>7, <1>8 DEF IInv

(* A command starts when nothing else runs.                                *)
LEMMA Resting ==
    ASSUME IInv, phase = "down"
    PROVE  /\ Typed /\ ProgramOK /\ RowsOK /\ PgOK /\ UsableOK /\ StampOK
           /\ todo = <<>> /\ work = db /\ open = FALSE
           /\ backend \in {"sqlite", "postgresql"} /\ db.stamp \in 0 .. 5
           /\ ~ cut => Covers(db, db.stamp)
<1>1. Typed /\ ProgramOK /\ RowsOK /\ PgOK /\ UsableOK /\ StampOK
  BY DEF IInv
<1>2. todo = <<>> /\ work = db /\ open = FALSE
  BY <1>1 DEF ProgramOK, Busy
<1>3. backend \in {"sqlite", "postgresql"}
  BY <1>1, VolumeAssumption DEF Typed
<1>4. db.stamp \in 0 .. 5
  BY <1>1, DatabaseIs, HeadIs DEF Typed
<1>5. ~ cut => Covers(db, db.stamp)
  BY <1>1 DEF StampOK
<1> QED
  BY <1>1, <1>2, <1>3, <1>4, <1>5

(* What the rows need of a program that has just started.                  *)
LEMMA RowsStart ==
    ASSUME IInv, phase = "down", UNCHANGED <<db, work, open, added>>, todo' # <<>>,
           ~ DropsKept(Now'),
           (\E op \in Ahead' : op.do = "carryOver") => \E op \in Ahead' : op.do = "setAside",
           (\E op \in Ahead' : DropsMovies(op)) => DropsFirst(todo')
    PROVE  RowsOK'
<1>1. RowsOK /\ todo = <<>> /\ work = db /\ open = FALSE
  BY Resting
<1>2. /\ added = db.rows["movies"] \cup db.rows[Kept]
      /\ db.rows["movies"] \cap db.rows[Kept] = {} /\ db.rows["copy"] = {}
      /\ Has(db, Kept) \/ db.rows[Kept] = {}
  BY <1>1 DEF RowsOK
<1> QED
  BY <1>1, <1>2 DEF RowsOK

LEMMA HeadIn ==
    ASSUME NEW s, IsSeq(s), s # <<>>
    PROVE  Head(s) = s[1] /\ Head(s) \in Range(s)
BY TailOf

LEMMA UpgradeOK ==
    ASSUME IInv, Upgrade
    PROVE  IInv'
<1> DEFINE s == UpgradeSteps(db.stamp)
           from == db.stamp
<1>1. /\ phase = "down" /\ phase' = "upgrade" /\ todo' = s /\ manual' = TRUE
      /\ commands > 0 /\ commands' = commands - 1 /\ from < HeadRevision
      /\ UNCHANGED <<backend, db, work, open, crashes, added, pure, cut>>
  BY DEF Upgrade, Run
<1>2. /\ Typed /\ PgOK /\ work = db /\ open = FALSE
      /\ backend \in {"sqlite", "postgresql"} /\ from \in 0 .. 5
      /\ ~ cut => Covers(db, from)
  BY <1>1, Resting
<1>3. from \in 0 .. 4
  BY <1>1, <1>2, HeadIs
<1>4. /\ IsSeq(s) /\ s # <<>> /\ s[Len(s)] = Commit
      /\ \A op \in Range(s) : Step("upgrade", op)
      /\ CopiesSwapped(s) /\ InTurn(s) /\ MadeFirst(s)
      /\ (\E op \in Range(s) : MakesMovies(op)) => from = 0
      /\ \A k \in 1 .. Len(s) : s[k].do = "stamp" =>
            /\ s[k].rev \in 0 .. 5
            /\ \A t, c : GivenBy(s[k].rev, t, c) =>
                  GivenBy(from, t, c) \/ \E j \in 1 .. k - 1 : Gives(s[j], t, c)
      /\ from = 0 /\ backend = "postgresql" => Doomed(s)
  BY <1>2, <1>3, UpgradeProgram
<1> HIDE DEF s, from
<1>5. Ahead' = Range(s) /\ Busy' /\ Now' = Head(s)
  BY <1>1 DEF Ahead, Busy, Now
<1>6. \A op \in Ahead' : /\ op.do \notin {"setAside", "carryOver", "drop"}
                         /\ ~ DropsMovies(op) /\ ~ DropsKept(op)
  BY <1>4, <1>5, AlembicSteps DEF DropsMovies, DropsKept
<1>7. Now' \in Ahead'
  BY <1>4, <1>5, HeadIn
<1>8. Typed'
  <2>0. commands \in 0 .. Commands /\ Commands \in Nat
    BY <1>2, VolumeAssumption DEF Typed
  <2>1. commands' \in 0 .. Commands
    BY <1>1, <2>0
  <2>2. manual' \in BOOLEAN
    BY <1>1, Zenon
  <2> QED
    BY <1>1, <1>2, <2>1, <2>2 DEF Typed
<1>9. ProgramOK'
  BY <1>1, <1>4, <1>5, <1>6 DEF ProgramOK
<1>10. RowsOK'
  BY <1>1, <1>4, <1>6, <1>7, RowsStart
<1>11. PgOK'
  <2> SUFFICES ASSUME backend = "postgresql" PROVE PgOK'
    BY <1>1 DEF PgOK
  <2>1. db = Untouched /\ from = 0
    BY <1>2, UntouchedIs DEF PgOK, from
  <2>2. Doomed(s)
    BY <1>4, <2>1
  <2>3. Doomed(todo)'
    BY <1>1, <2>2 DEF Doomed, Refused, TypeMissing, BadDefault
  <2> QED
    BY <1>1, <2>1, <2>3 DEF PgOK
<1>12. UsableOK'
  BY <1>1 DEF UsableOK
<1>13. StampOK'
  <2> SUFFICES ASSUME ~ cut PROVE StampOK'
    BY <1>1 DEF StampOK
  <2>1. Covers(db, from)
    BY <1>2
  <2>2. ASSUME NEW k \in 1 .. Len(s), s[k].do = "stamp", NEW t \in DOMAIN Promised(s[k].rev),
               NEW c \in Promised(s[k].rev)[t].cols
        PROVE  Foreseen(db, s, k, t, c)
    <3>1. s[k].rev \in 0 .. 5
      BY <1>4, <2>2
    <3>2. GivenBy(s[k].rev, t, c)
      BY <2>2, <3>1, PromisedIs
    <3>3. CASE \E j \in 1 .. k - 1 : Gives(s[j], t, c)
      BY <3>3 DEF Foreseen
    <3>4. CASE GivenBy(from, t, c)
      <4>1. t \in DOMAIN Promised(from) /\ c \in Promised(from)[t].cols
        BY ONLY <1>2, <3>4, GivenIsMade
      <4>2. Shows(db, t, c)
        BY <2>1, <4>1 DEF Covers
      <4>3. from # 0
        BY <4>1, NothingPromised
      <4> QED
        BY <1>4, <4>2, <4>3 DEF Shows, Foreseen
    <3> QED
      BY <1>4, <2>2, <3>2, <3>3, <3>4
  <2>3. Truthful(work', todo')
    BY <1>1, <1>2, <2>2 DEF Truthful
  <2>4. (\E op \in Ahead' : MakesMovies(op)) => work'.stamp = 0
    BY <1>1, <1>2, <1>4, <1>5 DEF from
  <2> QED
    BY <1>1, <1>2, <2>1, <2>3, <2>4 DEF StampOK, from
<1> QED
  BY <1>8, <1>9, <1>10, <1>11, <1>12, <1>13 DEF IInv

LEMMA DowngradeOK ==
    ASSUME IInv, Downgrade
    PROVE  IInv'
<1> DEFINE s == DowngradeSteps(db.stamp)
           from == db.stamp
           to == from - 1
<1>1. /\ phase = "down" /\ phase' = "downgrade" /\ todo' = s
      /\ commands > 0 /\ commands' = commands - 1 /\ from > 0
      /\ UNCHANGED <<backend, db, work, open, crashes, added, pure, manual, cut>>
  BY DEF Downgrade, Run
<1>2. /\ Typed /\ PgOK /\ UsableOK /\ work = db /\ open = FALSE
      /\ backend \in {"sqlite", "postgresql"} /\ from \in 0 .. 5
      /\ ~ cut => Covers(db, from)
  BY <1>1, Resting
<1>3. backend = "sqlite"
  BY <1>1, <1>2, UntouchedIs DEF PgOK
<1>3a. from \in 1 .. 5 /\ to \in 0 .. 5 /\ to <= from
  BY <1>1, <1>2
<1>4. /\ IsSeq(s) /\ s # <<>> /\ s[Len(s)] = Commit
      /\ \A op \in Range(s) : Step("downgrade", op)
      /\ CopiesSwapped(s) /\ InTurn(s) /\ MadeFirst(s)
      /\ (\E op \in Range(s) : DropsMovies(op)) => DropsFirst(s)
      /\ \A op \in Range(s) : ~ Takes(op, to) /\ (op.do = "stamp" => op.rev = to)
      /\ \E op \in Range(s) : op.do = "stamp"
  BY <1>3, <1>3a, DowngradeProgram
<1> HIDE DEF s, from, to
<1>5. Ahead' = Range(s) /\ Busy' /\ Now' = Head(s)
  BY <1>1 DEF Ahead, Busy, Now
<1>6. \A op \in Ahead' : op.do \notin {"setAside", "carryOver"} /\ ~ DropsKept(op)
  BY <1>4, <1>5, AlembicSteps DEF DropsKept
<1>7. Now' \in Ahead'
  BY <1>4, <1>5, HeadIn
<1>8. Typed'
  <2>0. commands \in 0 .. Commands /\ Commands \in Nat
    BY <1>2, VolumeAssumption DEF Typed
  <2>1. commands' \in 0 .. Commands
    BY <1>1, <2>0
  <2> QED
    BY <1>1, <1>2, <2>1 DEF Typed
<1>9. ProgramOK'
  BY <1>1, <1>4, <1>5, <1>6 DEF ProgramOK
<1>10. RowsOK'
  BY <1>1, <1>4, <1>5, <1>6, <1>7, RowsStart
<1>11. PgOK'
  BY <1>1, <1>3 DEF PgOK
<1>12. UsableOK'
  BY <1>1, <1>2 DEF UsableOK, from
<1>13. StampOK'
  <2> SUFFICES ASSUME ~ cut PROVE StampOK'
    BY <1>1 DEF StampOK
  <2>1. Covers(db, to)
    <3> SUFFICES ASSUME NEW t \in DOMAIN Promised(to), NEW c \in Promised(to)[t].cols
                 PROVE  Shows(db, t, c)
      BY DEF Covers
    <3>1. t \in DOMAIN Promised(from) /\ c \in Promised(from)[t].cols
      BY ONLY <1>2, <1>3a, t \in DOMAIN Promised(to), c \in Promised(to)[t].cols, PromisesGrow
    <3> QED
      BY <1>2, <3>1 DEF Covers
  <2>2. to \in 0 .. HeadRevision
    BY <1>3a, HeadIs
  <2> QED
    BY <1>1, <1>2, <1>4, <1>5, <2>1, <2>2 DEF StampOK
<1> QED
  BY <1>8, <1>9, <1>10, <1>11, <1>12, <1>13 DEF IInv

LEMMA BootOK ==
    ASSUME IInv, Boot
    PROVE  IInv'
<1> DEFINE s == BootSteps(db)
<1>1. /\ phase = "down" /\ phase' = "boot" /\ todo' = s /\ pure' = FALSE
      /\ UNCHANGED <<backend, db, work, open, crashes, added, commands, manual, cut>>
  BY DEF Boot, Run
<1>2. /\ Typed /\ PgOK /\ UsableOK /\ StampOK /\ work = db /\ open = FALSE
  BY <1>1, Resting
<1>4. /\ IsSeq(s) /\ s # <<>> /\ s[Len(s)] = Commit
      /\ \A op \in Range(s) : Step("boot", op)
      /\ CopiesSwapped(s) /\ InTurn(s) /\ MadeFirst(s)
      /\ (\E op \in Range(s) : op.do = "setAside") => Has(db, "movies")
      /\ ~ DropsKept(s[1])
      /\ (\E op \in Range(s) : op.do = "carryOver" \/ DropsKept(op))
            => \E op \in Range(s) : op.do = "setAside"
      /\ \A t \in Names :
            \/ Has(db, t) /\ (t = "movies" => \A op \in Range(s) : op.do # "setAside")
            \/ \E op \in Range(s) : op.do = "create" /\ op.table = t
      /\ backend = "postgresql" /\ db = Untouched => Doomed(s)
  BY BootProgram
<1> HIDE DEF s
<1>5. Ahead' = Range(s) /\ Busy' /\ Now' = s[1]
  <2>1. Head(s) = s[1]
    BY <1>4, HeadIn
  <2> QED
    BY <1>1, <2>1 DEF Ahead, Busy, Now
<1>6. \A op \in Ahead' : ~ DropsMovies(op)
  BY <1>4, <1>5, BootOps
<1>8. Typed'
  <2>1. pure' \in BOOLEAN
    BY <1>1, Zenon
  <2> QED
    BY <1>1, <1>2, <2>1 DEF Typed
<1>9. ProgramOK'
  BY <1>1, <1>2, <1>4, <1>5 DEF ProgramOK
<1>10. RowsOK'
  BY <1>1, <1>4, <1>5, <1>6, RowsStart
<1>11. PgOK'
  <2> SUFFICES ASSUME backend = "postgresql" PROVE PgOK'
    BY <1>1 DEF PgOK
  <2>1. db = Untouched
    BY <1>2 DEF PgOK
  <2>2. Doomed(s)
    BY <1>4, <2>1
  <2>3. Doomed(todo)'
    BY <1>1, <2>2 DEF Doomed, Refused, TypeMissing, BadDefault
  <2> QED
    BY <1>1, <2>1, <2>3 DEF PgOK
<1>12. UsableOK'
  BY <1>1, <1>2, <1>4, <1>5 DEF UsableOK
<1>13. StampOK'
  BY <1>1, <1>2, <1>4, <1>5 DEF StampOK
<1> QED
  BY <1>8, <1>9, <1>10, <1>11, <1>12, <1>13 DEF IInv

LEMMA StopOK ==
    ASSUME IInv, Stop
    PROVE  IInv'
<1>0. Typed /\ ProgramOK /\ RowsOK /\ PgOK /\ UsableOK /\ StampOK
  BY DEF IInv
<1>1. /\ phase = "up" /\ phase' = "down"
      /\ UNCHANGED <<backend, db, work, open, todo, commands, crashes, added, pure, manual, cut>>
  BY DEF Stop, ghosts
<1>2. ~ Busy /\ ~ Busy' /\ todo = <<>> /\ Ahead = {} /\ Ahead' = {}
  BY <1>0, <1>1, Nothing DEF Busy, ProgramOK, Ahead
<1>3. Typed'
  BY <1>0, <1>1 DEF Typed
<1>4. ProgramOK'
  BY <1>0, <1>1, <1>2 DEF ProgramOK
<1>5. RowsOK'
  BY <1>0, <1>1, <1>2 DEF RowsOK
<1>6. PgOK'
  BY <1>0, <1>1 DEF PgOK
<1>7. UsableOK'
  BY <1>0, <1>1 DEF UsableOK
<1>8. StampOK'
  BY <1>0, <1>1 DEF StampOK
<1> QED
  BY <1>3, <1>4, <1>5, <1>6, <1>7, <1>8 DEF IInv

LEMMA AddMovieOK ==
    ASSUME IInv, AddMovie
    PROVE  IInv'
<1>0. Typed /\ ProgramOK /\ RowsOK /\ PgOK /\ UsableOK /\ StampOK
  BY DEF IInv
<1>1. PICK f \in Films \ added :
         added' = added \cup {f} /\ db' = [db EXCEPT !.rows["movies"] = @ \cup {f}]
  BY DEF AddMovie
<1>2. /\ phase = "up" /\ work' = db'
      /\ UNCHANGED <<backend, open, phase, todo, commands, crashes, pure, manual, cut>>
  BY DEF AddMovie
<1>3. ~ Busy /\ ~ Busy' /\ todo = <<>> /\ Ahead = {} /\ Ahead' = {} /\ work = db /\ open = FALSE
  BY <1>0, <1>2, Nothing DEF Busy, ProgramOK, Ahead
<1> DEFINE M == db.rows["movies"]
           R == [db.rows EXCEPT !["movies"] = M \cup {f}]
<1>4. db.rows \in [Stores -> SUBSET Films] /\ WellMade(db.tables)
      /\ db.copies \in SUBSET Names /\ db.stamp \in 0 .. HeadRevision
  BY <1>0, DatabaseIs DEF Typed
<1>5. /\ R \in [Stores -> SUBSET Films] /\ R["movies"] = M \cup {f} /\ R[Kept] = db.rows[Kept]
      /\ R["copy"] = db.rows["copy"]
  BY <1>1, <1>4, StoresAre
<1>6. db' = [db EXCEPT !.rows = R]
  BY <1>1
<1> HIDE DEF R, M
<1>7. db' = [tables |-> db.tables, copies |-> db.copies, stamp |-> db.stamp, rows |-> R]
  BY <1>0, <1>6, Updated DEF Typed
<1>8. /\ Database(db') /\ db'.tables = db.tables /\ db'.stamp = db.stamp /\ db'.rows = R
  BY <1>4, <1>5, <1>7, Built
<1>9. \A t : (Has(db', t) <=> Has(db, t))
  BY <1>8 DEF Has
<1>10. Typed'
  BY <1>0, <1>2, <1>8 DEF Typed
<1>11. ProgramOK'
  BY <1>2, <1>3 DEF ProgramOK
<1>12. RowsOK'
  <2>1. /\ added = M \cup db.rows[Kept] /\ M \cap db.rows[Kept] = {} /\ db.rows["copy"] = {}
        /\ Has(db, Kept) \/ db.rows[Kept] = {}
    BY <1>0 DEF RowsOK, M
  <2>2. f \notin db.rows[Kept]
    BY <1>1, <2>1
  <2>3. /\ added' = db'.rows["movies"] \cup db'.rows[Kept]
        /\ db'.rows["movies"] \cap db'.rows[Kept] = {} /\ db'.rows["copy"] = {}
        /\ Has(db', Kept) \/ db'.rows[Kept] = {}
    BY <1>1, <1>5, <1>8, <1>9, <2>1, <2>2
  <2> QED
    BY <1>2, <1>3, <2>3 DEF RowsOK
<1>13. PgOK'
  BY <1>0, <1>2 DEF PgOK
<1>14. UsableOK'
  <2> SUFFICES ASSUME ~ manual PROVE UsableOK'
    BY <1>2 DEF UsableOK
  <2>1. db.stamp = 0 /\ \A t \in Names : Has(db, t) /\ AsModelled(db, t)
    BY <1>0, <1>2 DEF UsableOK
  <2>2. \A t \in Names : Has(db', t) /\ AsModelled(db', t)
    BY <1>8, <1>9, <2>1 DEF AsModelled
  <2> QED
    BY <1>2, <1>8, <2>1, <2>2 DEF UsableOK
<1>15. StampOK'
  <2> SUFFICES ASSUME ~ cut PROVE StampOK'
    BY <1>2 DEF StampOK
  <2>1. Covers(db, db.stamp)
    BY <1>0, <1>2 DEF StampOK
  <2>2. Covers(db', db'.stamp)
    BY <1>8, <1>9, <2>1 DEF Covers, Shows, Holds, Aside
  <2> QED
    BY <1>2, <2>2 DEF StampOK
<1> QED
  BY <1>10, <1>11, <1>12, <1>13, <1>14, <1>15 DEF IInv

LEMMA StepOK == IInv /\ [Next]_vars => IInv'
<1> SUFFICES ASSUME IInv, [Next]_vars PROVE IInv'
  OBVIOUS
<1>1. CASE Upgrade
  BY <1>1, UpgradeOK
<1>2. CASE Downgrade
  BY <1>2, DowngradeOK
<1>3. CASE Boot
  BY <1>3, BootOK
<1>4. CASE Stop
  BY <1>4, StopOK
<1>5. CASE Define \/ Write
  BY <1>5, StatementIsRan, RanOK
<1>6. CASE CommitWork
  BY <1>6, CommitOK
<1>7. CASE Fail
  <2>1. crashes' \in 0 .. Crashes
    BY <1>7 DEF Fail, IInv, Typed
  <2> QED
    BY <1>7, <2>1, OverOK DEF Fail
<1>8. CASE Crash
  <2>1. crashes \in 0 .. Crashes /\ Crashes \in Nat /\ crashes > 0 /\ crashes' = crashes - 1
    BY <1>8, VolumeAssumption DEF Crash, IInv, Typed
  <2>2. crashes' \in 0 .. Crashes
    BY <2>1
  <2> QED
    BY <1>8, <2>2, OverOK DEF Crash
<1>9. CASE AddMovie
  BY <1>9, AddMovieOK
<1>10. CASE UNCHANGED vars
  <2>1. UNCHANGED <<backend, db, work, open, phase, todo, commands, crashes, added, pure, manual, cut>>
    BY <1>10 DEF vars
  <2>2. /\ Typed' <=> Typed
        /\ Busy' <=> Busy
        /\ Ahead' = Ahead /\ Now' = Now
    BY <2>1 DEF Typed, Busy, Ahead, Now
  <2>3. ProgramOK' <=> ProgramOK
    BY <2>1, <2>2 DEF ProgramOK
  <2>4. RowsOK' <=> RowsOK
    BY <2>1, <2>2 DEF RowsOK
  <2>5. Doomed(todo)' <=> Doomed(todo)
    BY <2>1 DEF Doomed, Refused, TypeMissing, BadDefault
  <2>6. PgOK' <=> PgOK
    BY <2>1, <2>2, <2>5 DEF PgOK
  <2>7. UsableOK' <=> UsableOK
    BY <2>1, <2>2 DEF UsableOK
  <2>8. StampOK' <=> StampOK
    BY <2>1, <2>2 DEF StampOK
  <2> QED
    BY <2>2, <2>3, <2>4, <2>6, <2>7, <2>8 DEF IInv
<1> QED
  BY <1>1, <1>2, <1>3, <1>4, <1>5, <1>6, <1>7, <1>8, <1>9, <1>10 DEF Next, Statement

(* The inductive invariant holds whatever backend and volume the bot       *)
(* starts on, however often it and alembic are run and die.                *)
THEOREM VolumeInvariant == Spec => []IInv
<1>1. Init => IInv
  BY InitOK
<1>2. IInv /\ [Next]_vars => IInv'
  BY StepOK
<1> QED
  BY <1>1, <1>2, PTL DEF Spec

(* Every table, column set, version and row is one the schema knows, and   *)
(* a command that runs has statements left.                                *)
THEOREM VolumeTypes == Spec => []TypeOK
<1>1. IInv => TypeOK
  <2> SUFFICES ASSUME IInv PROVE TypeOK
    OBVIOUS
  <2>1. Typed /\ ProgramOK /\ RowsOK
    BY DEF IInv
  <2>2. ASSUME NEW d \in {db, work}
        PROVE  /\ DOMAIN d.tables \subseteq Names \cup {Kept} /\ d.copies \subseteq Names
               /\ d.stamp \in 0 .. HeadRevision /\ d.rows \in [Stores -> SUBSET Films]
    BY <2>1 DEF Typed, Database
  <2>3. Busy <=> todo # <<>>
    BY <2>1 DEF ProgramOK
  <2>4. added \subseteq Films
    <3>1. db.rows \in [Stores -> SUBSET Films] /\ added = db.rows["movies"] \cup db.rows[Kept]
      BY <2>1, <2>2 DEF RowsOK
    <3> QED
      BY <3>1, StoresAre
  <2>5. {pure, manual, cut} \subseteq BOOLEAN
    BY <2>1 DEF Typed
  <2> QED
    BY <2>1, <2>2, <2>3, <2>4, <2>5 DEF TypeOK, Typed
<1> QED
  BY <1>1, VolumeInvariant, PTL

(* No movie is lost or doubled by an upgrade, a start or the rebuild of    *)
(* movies, at whichever statement the process dies (engine.py:137-146).    *)
THEOREM RowsAreKept == Spec => []RowsSurvive
<1>1. IInv => RowsSurvive
  BY DEF IInv, RowsOK, RowsSurvive
<1> QED
  BY <1>1, VolumeInvariant, PTL

(* A database alembic never touched has, once the bot is up, every table   *)
(* as its model writes it, however often its first starts were cut short   *)
(* (engine.py:92).                                                         *)
THEOREM StartsAreUsable == Spec => []CreatedIsUsable
<1>1. IInv => CreatedIsUsable
  <2> SUFFICES ASSUME IInv, phase = "up", ~ manual, NEW t \in Names PROVE Writable(db, t)
    BY DEF CreatedIsUsable
  <2>1. Has(db, t) /\ AsModelled(db, t)
    BY DEF IInv, UsableOK
  <2> QED
    BY <2>1 DEF Writable, AsModelled
<1> QED
  BY <1>1, VolumeInvariant, PTL

(* The version alembic has written never promises a column that is not     *)
(* there, unless a downgrade is under way or was cut short (env.py:56-59). *)
THEOREM StampsAreTrue == Spec => []StampNeverAhead
<1>1. IInv => StampNeverAhead
  <2> SUFFICES ASSUME IInv, phase # "downgrade", ~ cut, NEW t \in DOMAIN Promised(db.stamp)
               PROVE  \/ Has(db, t) /\ Promised(db.stamp)[t].cols \subseteq db.tables[t].cols
                      \/ /\ t = "movies" /\ Has(db, Kept)
                         /\ Promised(db.stamp)[t].cols \subseteq db.tables[Kept].cols
    BY DEF StampNeverAhead, Promised
  <2>1. \A c \in Promised(db.stamp)[t].cols : Shows(db, t, c)
    BY DEF IInv, StampOK, Covers
  <2>2. db.stamp \in 0 .. 5
    BY DatabaseIs, HeadIs DEF IInv, Typed
  <2>3. PICK c \in Promised(db.stamp)[t].cols : TRUE
    BY <2>2, PromiseHasColumns
  <2> QED
    BY <2>1, <2>3 DEF Shows, Holds, Aside
<1> QED
  BY <1>1, VolumeInvariant, PTL

-----------------------------------------------------------------------------
(* The exact tables.  On SQLite, as long as nothing but alembic has run    *)
(* and every command has come to its end, the tables are those of the      *)
(* version to the last flag.  For that the statements left have to be all  *)
(* those of the revision, and not only some of them.                       *)
Creates(op, t)    == op.do = "create" /\ op.table = t
IndexesMovies(op) == op.do = "index" /\ op.table = "movies"
OfUpgrades(op)    == \E q \in 1 .. 5 : op \in Range(Upgrades[q])

(* movies is given its indexes after it is made.                           *)
IndexLater(s) ==
    \A i \in 1 .. Len(s) : MakesMovies(s[i]) =>
        \E j \in i + 1 .. Len(s) : IndexesMovies(s[j])

(* The last version written is r.                                          *)
EndsAt(s, d, r) ==
    \/ \E j \in 1 .. Len(s) : /\ s[j].do = "stamp" /\ s[j].rev = r
                              /\ \A k \in j + 1 .. Len(s) : s[k].do # "stamp"
    \/ d.stamp = r /\ \A op \in Range(s) : op.do # "stamp"

AsMade(x, t) == x.id = KeyOf(t) /\ x.fk = (t = "movies")
Plain(d, t)  == AsMade(d.tables[t], t)

(* The tables together with the statements left make those of the head.    *)
Building(d, s) ==
    /\ \A op \in Range(s) : op.do \in {"commit", "stamp"} \/ OfUpgrades(op)
    /\ IndexLater(s) /\ EndsAt(s, d, 5)
    /\ \A t : Has(d, t) =>
          /\ t \in DOMAIN Promised(5) /\ Plain(d, t)
          /\ d.tables[t].cols \subseteq Promised(5)[t].cols
          /\ \/ d.tables[t].indexed = TRUE
             \/ t = "movies" /\ \E op \in Range(s) : IndexesMovies(op)
    /\ \A t \in DOMAIN Promised(5) :
          /\ Has(d, t) \/ \E op \in Range(s) : Creates(op, t)
          /\ \A c \in Promised(5)[t].cols :
                Holds(d, t, c) \/ \E op \in Range(s) : Gives(op, t, c)

(* The tables without what the statements left take are those of r.        *)
TakingDown(d, A, r) ==
    /\ d.stamp = r \/ \E op \in A : op.do = "stamp"
    /\ \A op \in A : ~ Takes(op, r) /\ (op.do = "stamp" => op.rev = r)
    /\ \A t \in DOMAIN Promised(r) :
          /\ Has(d, t) /\ Plain(d, t) /\ d.tables[t].indexed = TRUE
          /\ Promised(r)[t].cols \subseteq d.tables[t].cols
          /\ \A c \in d.tables[t].cols :
                \/ c \in Promised(r)[t].cols
                \/ \E op \in A : op.do = "swap" /\ op.table = t /\ c \in op.gone
    /\ \A t : Has(d, t) =>
          \/ t \in DOMAIN Promised(r)
          \/ \E op \in A : op.do = "drop" /\ op.table = t

ShapeOK == pure /\ backend = "sqlite" =>
    /\ phase \in {"down", "upgrade", "downgrade"}
    /\ phase = "down" => db.tables = Promised(db.stamp)
    /\ phase = "upgrade" => Building(work, todo)
    /\ phase = "downgrade" => \E r \in 0 .. HeadRevision : TakingDown(work, Ahead, r)

-----------------------------------------------------------------------------
(* What the statements of a revision do to the flags of a table.           *)
Flags(d, op, e) == \A t : Has(e, t) =>
    IF op.do = "create" /\ op.table = t
    THEN e.tables[t].fk = op.as.fk /\ (t # "movies" => e.tables[t].indexed = TRUE)
    ELSE /\ e.tables[t].fk = d.tables[t].fk
         /\ IF op.do = "index" /\ op.table = t THEN e.tables[t].indexed = TRUE
            ELSE e.tables[t].indexed = d.tables[t].indexed

LEMMA FlagsOf ==
    ASSUME NEW x, IsTable(x), NEW b, NEW cols
    PROVE  /\ [x EXCEPT !.indexed = b].indexed = b /\ [x EXCEPT !.indexed = b].fk = x.fk
           /\ [x EXCEPT !.cols = cols].indexed = x.indexed
           /\ [x EXCEPT !.cols = cols].fk = x.fk
<1> DEFINE y == [cols |-> x.cols, id |-> x.id, fk |-> x.fk, indexed |-> x.indexed]
<1>1. x = y
  BY DEF IsTable
<1>2. /\ [y EXCEPT !.indexed = b].indexed = b /\ [y EXCEPT !.indexed = b].fk = x.fk
      /\ [y EXCEPT !.cols = cols].indexed = x.indexed
      /\ [y EXCEPT !.cols = cols].fk = x.fk
  OBVIOUS
<1> HIDE DEF y
<1> QED
  BY <1>1, <1>2

LEMMA TablesOf ==
    ASSUME NEW d, Database(d), NEW e
    PROVE  /\ \A T : e = [d EXCEPT !.tables = T] => e.tables = T
           /\ \A C : e = [d EXCEPT !.copies = C] => e.tables = d.tables
           /\ \A r : e = [d EXCEPT !.stamp = r] => e.tables = d.tables
           /\ \A R : e = [d EXCEPT !.rows = R] => e.tables = d.tables
           /\ \A T, R : e = [d EXCEPT !.tables = T, !.rows = R] => e.tables = T
           /\ \A T, C, R : e = [d EXCEPT !.tables = T, !.copies = C, !.rows = R]
                 => e.tables = T
<1>1. ASSUME NEW T, e = [d EXCEPT !.tables = T] PROVE e.tables = T
  <2>1. e = [tables |-> T, copies |-> d.copies, stamp |-> d.stamp, rows |-> d.rows]
    BY <1>1, Updated
  <2> QED
    BY <2>1
<1>2. ASSUME NEW C, e = [d EXCEPT !.copies = C] PROVE e.tables = d.tables
  <2>1. e = [tables |-> d.tables, copies |-> C, stamp |-> d.stamp, rows |-> d.rows]
    BY <1>2, Updated
  <2> QED
    BY <2>1
<1>3. ASSUME NEW r, e = [d EXCEPT !.stamp = r] PROVE e.tables = d.tables
  <2>1. e = [tables |-> d.tables, copies |-> d.copies, stamp |-> r, rows |-> d.rows]
    BY <1>3, Updated
  <2> QED
    BY <2>1
<1>4. ASSUME NEW R, e = [d EXCEPT !.rows = R] PROVE e.tables = d.tables
  <2>1. e = [tables |-> d.tables, copies |-> d.copies, stamp |-> d.stamp, rows |-> R]
    BY <1>4, Updated
  <2> QED
    BY <2>1
<1>5. ASSUME NEW T, NEW R, e = [d EXCEPT !.tables = T, !.rows = R] PROVE e.tables = T
  <2>1. e = [tables |-> T, copies |-> d.copies, stamp |-> d.stamp, rows |-> R]
    BY <1>5, Updated
  <2> QED
    BY <2>1
<1>6. ASSUME NEW T, NEW C, NEW R, e = [d EXCEPT !.tables = T, !.copies = C, !.rows = R]
      PROVE  e.tables = T
  <2>1. e = [tables |-> T, copies |-> C, stamp |-> d.stamp, rows |-> R]
    BY <1>6, UpdatedAll
  <2> QED
    BY <2>1
<1> QED
  BY <1>1, <1>2, <1>3, <1>4, <1>5, <1>6

LEMMA FlagsKept ==
    ASSUME NEW d, Database(d), NEW op, UpOp(op) \/ DownOp(op), Accepts(d, op)
    PROVE  Flags(d, op, Apply(d, op))
<1> DEFINE e == Apply(d, op)
           t == op.table
<1>0. t \in Names /\ t # Kept
  BY KeptIsNoName DEF UpOp, DownOp
<1>1. CASE op.do = "create"
  <2> DEFINE b == t # "movies"
             x == [op.as EXCEPT !.indexed = b]
             T == With(d.tables, t, x)
  <2>1. e = [d EXCEPT !.tables = T]
    BY <1>1 DEF Apply
  <2>2. x.fk = op.as.fk /\ x.indexed = b
    BY <1>1, FlagsOf DEF UpOp, DownOp
  <2>3. DOMAIN T = DOMAIN d.tables \cup {t} /\ T[t] = x
        /\ \A s \in DOMAIN d.tables : s # t => T[s] = d.tables[s]
    <3> HIDE DEF x
    <3> QED
      BY DEF With
  <2> HIDE DEF e, T, x
  <2>4. e.tables = T
    BY <2>1, TablesOf
  <2>5. ASSUME NEW s, Has(e, s), s # t
        PROVE  e.tables[s].fk = d.tables[s].fk /\ e.tables[s].indexed = d.tables[s].indexed
    BY <2>3, <2>4, <2>5 DEF Has
  <2>6. e.tables[t].fk = op.as.fk /\ (t # "movies" => e.tables[t].indexed = TRUE)
    BY <2>2, <2>3, <2>4
  <2> QED
    BY <1>1, <2>5, <2>6 DEF Flags, e
<1>2. CASE op.do = "index" \/ op.do = "dropIndex"
  <2> DEFINE x == [d.tables[t] EXCEPT !.indexed = TRUE]
             T == [d.tables EXCEPT ![t] = x]
  <2>1. e = d \/ (op.do = "index" /\ e = [d EXCEPT !.tables = T])
    BY <1>0, <1>2 DEF Apply
  <2>2. op.do = "index" => e = [d EXCEPT !.tables = T]
    BY DEF Apply
  <2>3. t \in DOMAIN d.tables => x.fk = d.tables[t].fk /\ x.indexed = TRUE
    BY FlagsOf DEF Database
  <2>4. DOMAIN T = DOMAIN d.tables /\ (t \in DOMAIN d.tables => T[t] = x)
        /\ \A s \in DOMAIN d.tables : s # t => T[s] = d.tables[s]
    <3> HIDE DEF x
    <3> QED
      OBVIOUS
  <2> HIDE DEF e, T, x
  <2>5. CASE op.do = "index"
    <3>0. e = [d EXCEPT !.tables = T]
      BY <2>2, <2>5
    <3>1. e.tables = T
      BY <3>0, TablesOf
    <3> QED
      BY <2>3, <2>4, <2>5, <3>1 DEF Flags, e, Has
  <2>6. CASE op.do = "dropIndex"
    BY <2>1, <2>6 DEF Flags, e
  <2> QED
    BY <1>2, <2>5, <2>6
<1>3. CASE op.do = "add" \/ op.do = "swap"
  <2> DEFINE c == (d.tables[t].cols \cup op.cols) \ op.gone
             x == Reshaped(d.tables[t], op)
             T == [d.tables EXCEPT ![t] = x]
             C == d.copies \ {t}
             R == [d.rows EXCEPT !["copy"] = IF t = "movies" THEN {} ELSE d.rows["copy"]]
  <2>1. \/ e = [d EXCEPT !.tables = T]
        \/ e = [d EXCEPT !.tables = T, !.copies = C, !.rows = R]
    BY <1>3 DEF Apply
  <2>2. t \in DOMAIN d.tables
    BY <1>3 DEF Accepts, Has
  <2>3. x.fk = d.tables[t].fk /\ x.indexed = d.tables[t].indexed
    <3>1. IsTable(d.tables[t]) /\ x = [d.tables[t] EXCEPT !.cols = c]
      BY <2>2 DEF Database, Reshaped
    <3> HIDE DEF x, c
    <3> QED
      BY <3>1, FlagsOf
  <2>4. DOMAIN T = DOMAIN d.tables /\ T[t] = x
        /\ \A s \in DOMAIN d.tables : s # t => T[s] = d.tables[s]
    <3> HIDE DEF x
    <3> QED
      BY <2>2
  <2> HIDE DEF e, T, x, C, R, c
  <2>5. e.tables = T
    <3>1. CASE e = [d EXCEPT !.tables = T]
      BY <3>1, TablesOf
    <3>2. CASE e = [d EXCEPT !.tables = T, !.copies = C, !.rows = R]
      <4>1. e = [tables |-> T, copies |-> C, stamp |-> d.stamp, rows |-> R]
        BY <3>2, UpdatedAll
      <4> QED
        BY <4>1
    <3> QED
      BY <2>1, <3>1, <3>2
  <2> QED
    BY <1>3, <2>3, <2>4, <2>5 DEF Flags, e, Has
<1>4. CASE op.do = "drop"
  <2> DEFINE T == Without(d.tables, t)
             R == [s \in Stores |-> IF s = t THEN {} ELSE d.rows[s]]
  <2>1. e = [d EXCEPT !.tables = T, !.rows = R]
    BY <1>4 DEF Apply
  <2>2. \A s \in DOMAIN T : s \in DOMAIN d.tables /\ T[s] = d.tables[s]
    BY DEF Without
  <2> HIDE DEF e, T, R
  <2>3. e.tables = T
    <3>1. e = [tables |-> T, copies |-> d.copies, stamp |-> d.stamp, rows |-> R]
      BY <2>1, Updated
    <3> QED
      BY <3>1
  <2> QED
    BY <1>4, <2>2, <2>3 DEF Flags, e, Has
<1>5. CASE op.do = "makeCopy" \/ op.do = "fillCopy"
  <2> DEFINE C == d.copies \cup {t}
             R == [d.rows EXCEPT !["copy"] = d.rows[t]]
  <2>1. e = d \/ e = [d EXCEPT !.copies = C] \/ e = [d EXCEPT !.rows = R]
    BY <1>5 DEF Apply
  <2> HIDE DEF e, C, R
  <2>2. e.tables = d.tables
    BY <2>1, TablesOf
  <2> QED
    BY <1>5, <2>2 DEF Flags, e
<1> QED
  BY <1>1, <1>2, <1>3, <1>4, <1>5 DEF UpOp, DownOp

(* A version's tables: their key, their foreign key, their indexes.        *)
LEMMA PromisedPlain ==
    ASSUME NEW r \in 0 .. 5, NEW t \in DOMAIN Promised(r)
    PROVE  AsMade(Promised(r)[t], t) /\ Promised(r)[t].indexed = TRUE
<1> DEFINE past     == UNION {Range(Upgrades[i]) : i \in 1 .. r}
           creating == {op \in past : op.do = "create"}
           Cols(s)  == UNION {op.cols \cup op.as.cols : op \in {o \in past : o.table = s}}
           Final(s) == [(CHOOSE op \in creating : op.table = s).as EXCEPT
                           !.cols = Cols(s), !.indexed = TRUE]
           T        == [s \in {op.table : op \in creating} |-> Final(s)]
           d        == AtRevision[r]
<1>1. d = [Untouched EXCEPT !.stamp = r, !.tables = T]
  BY HeadIs DEF AtRevision
<1>2. d.tables = T
  <2> HIDE DEF d, T
  <2> QED
    BY <1>1 DEF Untouched
<1>3. ASSUME NEW op \in creating
      PROVE  IsTable(op.as) /\ op.as.id = KeyOf(op.table) /\ op.as.fk = (op.table = "movies")
  <2>1. PICK q \in 1 .. r : op \in Range(Upgrades[q])
    BY <1>3
  <2>2. q \in 1 .. 5
    OBVIOUS
  <2>3. UpgradeOp(q, op)
    BY <2>1, <2>2, UpgradeOps
  <2> QED
    BY <1>3, <2>3 DEF UpgradeOp, UpOp
<1>4. t \in {op.table : op \in creating} /\ Promised(r)[t] = Final(t)
  BY <1>2 DEF Promised
<1> DEFINE op == CHOOSE op \in creating : op.table = t
           as == op.as
           C  == Cols(t)
<1>5. op \in creating /\ op.table = t
  BY <1>4
<1>6. Promised(r)[t] = [as EXCEPT !.cols = C, !.indexed = TRUE]
  BY <1>4
<1>7. IsTable(as) /\ as.id = KeyOf(t) /\ as.fk = (t = "movies")
  BY <1>3, <1>5
<1> HIDE DEF as, C, Final, op, T, d, creating, past, Cols
<1>8. as = [cols |-> as.cols, id |-> as.id, fk |-> as.fk, indexed |-> as.indexed]
  BY <1>7 DEF IsTable
<1>9. Promised(r)[t] = [cols |-> C, id |-> as.id, fk |-> as.fk, indexed |-> TRUE]
  BY <1>6, <1>8
<1>10. /\ Promised(r)[t].id = as.id /\ Promised(r)[t].fk = as.fk
       /\ Promised(r)[t].indexed = TRUE
  BY <1>9
<1> QED
  BY <1>7, <1>10 DEF AsMade

LEMMA PromisedWellMade ==
    ASSUME NEW r \in 0 .. 5
    PROVE  WellMade(Promised(r))
<1>1. Database(AtRevision[r])
  BY AtRevisionIs
<1> QED
  BY <1>1, DatabaseIs DEF Promised

LEMMA SameTables ==
    ASSUME NEW T, WellMade(T), NEW U, WellMade(U), DOMAIN T = DOMAIN U,
           \A t \in DOMAIN T : /\ T[t].cols = U[t].cols /\ T[t].id = U[t].id
                               /\ T[t].fk = U[t].fk /\ T[t].indexed = U[t].indexed
    PROVE  T = U
<1>1. ASSUME NEW t \in DOMAIN T PROVE T[t] = U[t]
  <2>1. IsTable(T[t]) /\ IsTable(U[t])
    BY DEF WellMade
  <2> QED
    BY <2>1 DEF IsTable
<1> QED
  BY <1>1 DEF WellMade

-----------------------------------------------------------------------------
(* The program of an upgrade, whole.                                       *)
LEMMA LaterJoin ==
    ASSUME NEW s, IsSeq(s), NEW t, IsSeq(t), \A op \in Range(t) : ~ MakesMovies(op),
           IndexLater(s) \/ \E op \in Range(t) : IndexesMovies(op)
    PROVE  IndexLater(s \o t) /\ IsSeq(s \o t)
<1> DEFINE m == Len(s)
           n == Len(t)
           u == s \o t
<1>1. /\ m \in Nat /\ n \in Nat /\ Len(u) = m + n /\ IsSeq(u)
      /\ \A i \in 1 .. m : u[i] = s[i]
      /\ \A j \in 1 .. n : u[m + j] = t[j]
      /\ \A i \in 1 .. Len(u) : i \in 1 .. m \/ \E j \in 1 .. n : i = m + j
  BY Joined
<1>2. ASSUME NEW i \in 1 .. Len(u), MakesMovies(u[i])
      PROVE  \E j \in i + 1 .. Len(u) : IndexesMovies(u[j])
  <2>1. i \in 1 .. m
    <3>1. SUFFICES ASSUME NEW j \in 1 .. n, i = m + j PROVE FALSE
      BY <1>1
    <3>2. MakesMovies(t[j])
      BY <1>1, <1>2, <3>1
    <3> QED
      BY <3>2, RangeOf
  <2>2. MakesMovies(s[i])
    BY <1>1, <1>2, <2>1
  <2>3. CASE IndexLater(s)
    <3>1. PICK j \in i + 1 .. m : IndexesMovies(s[j])
      BY <2>1, <2>2, <2>3 DEF IndexLater
    <3> HIDE DEF m, n, u
    <3>2. j \in 1 .. m /\ j \in i + 1 .. Len(u)
      BY <1>1, <2>1
    <3> QED
      BY <1>1, <3>1, <3>2
  <2>4. CASE \E op \in Range(t) : IndexesMovies(op)
    <3>1. PICK j \in 1 .. n : IndexesMovies(t[j])
      BY <2>4, RangeOf
    <3> HIDE DEF m, n, u
    <3>2. m + j \in i + 1 .. Len(u)
      BY <1>1, <2>1
    <3> QED
      BY <1>1, <3>1, <3>2
  <2> QED
    BY <2>3, <2>4
<1> QED
  BY <1>1, <1>2 DEF IndexLater

LEMMA FirstIndexed == IndexLater(Upgrades[1])
<1>1. ASSUME NEW t, NEW cols
      PROVE  /\ IsSeq(Create(t, cols))
             /\ t # "movies" => \A op \in Range(Create(t, cols)) : ~ MakesMovies(op)
  <2> DEFINE x == CreateAs(t, Table(cols \cup {"id"} \cup Stamps, "bigint", FALSE))
  <2>1. x.table = t
    BY CreateIs
  <2>2. Create(t, cols) = <<x>>
    BY DEF Create
  <2> HIDE DEF x
  <2>3. IsSeq(<<x>>) /\ Range(<<x>>) = {x}
    BY Single
  <2> QED
    BY <2>1, <2>2, <2>3 DEF MakesMovies
<1>2. /\ IsSeq(Index("movies")) /\ \A op \in Range(Index("movies")) : ~ MakesMovies(op)
      /\ \E op \in Range(Index("movies")) : IndexesMovies(op)
  <2> DEFINE x == Op("index", "movies", {}, {})
  <2>1. x.do = "index" /\ x.table = "movies"
    BY OpIs
  <2>2. Index("movies") = <<x>>
    BY DEF Index
  <2> HIDE DEF x
  <2>3. IsSeq(<<x>>) /\ Range(<<x>>) = {x}
    BY Single
  <2> QED
    BY <2>1, <2>2, <2>3 DEF MakesMovies, IndexesMovies
<1> DEFINE p2 == Create("admin_users", {"telegram_id", "role", "added_by", "is_active"})
           p3 == Create("media_sources", {"chat_id", "title", "type", "priority", "is_active"})
           p5 == Index("movies")
           p6 == Create("force_sub_channels", {"chat_id", "chat_username", "title",
                     "invite_link", "position", "is_active", "added_by"})
           p7 == Create("broadcasts", {"admin_id", "content_type", "source_chat_id",
                     "source_message_id", "message_text", "reply_markup_json", "total_users",
                     "sent_count", "failed_count", "status", "started_at", "finished_at"})
           p8 == Create("broadcast_failed_users", {"broadcast_id", "telegram_id",
                     "error_message", "retried"})
           p9 == Create("action_logs", {"actor_id", "actor_role", "action", "entity_type",
                     "entity_id", "old_value", "new_value", "ip_address"})
<1>3. Upgrades[1] = <<Users1>> \o p2 \o p3 \o <<Movies1>> \o p5 \o p6 \o p7 \o p8 \o p9
  BY DEF Upgrades, Upgrade1
<1>4. /\ IsSeq(p2) /\ IsSeq(p3) /\ IsSeq(p6) /\ IsSeq(p7) /\ IsSeq(p8) /\ IsSeq(p9)
      /\ \A op \in Range(p6) : ~ MakesMovies(op)
      /\ \A op \in Range(p7) : ~ MakesMovies(op)
      /\ \A op \in Range(p8) : ~ MakesMovies(op)
      /\ \A op \in Range(p9) : ~ MakesMovies(op)
  BY <1>1
<1>5. /\ IsSeq(p5) /\ \A op \in Range(p5) : ~ MakesMovies(op)
      /\ \E op \in Range(p5) : IndexesMovies(op)
  BY <1>2
<1>6. IsSeq(<<Users1>>) /\ IsSeq(<<Movies1>>)
  BY Single
<1> HIDE DEF p2, p3, p5, p6, p7, p8, p9
<1> DEFINE a == <<Users1>> \o p2 \o p3 \o <<Movies1>>
           b == a \o p5
           c == b \o p6
           e == c \o p7
           f == e \o p8
<1>7. IsSeq(a)
  BY <1>4, <1>6, Joined
<1> HIDE DEF a
<1>8. IndexLater(b) /\ IsSeq(b)
  BY <1>5, <1>7, LaterJoin
<1> HIDE DEF b
<1>9. IndexLater(c) /\ IsSeq(c)
  BY <1>4, <1>8, LaterJoin
<1> HIDE DEF c
<1>10. IndexLater(e) /\ IsSeq(e)
  BY <1>4, <1>9, LaterJoin
<1> HIDE DEF e
<1>11. IndexLater(f) /\ IsSeq(f)
  BY <1>4, <1>10, LaterJoin
<1> HIDE DEF f
<1>12. IndexLater(f \o p9)
  BY <1>4, <1>11, LaterJoin
<1> QED
  BY <1>3, <1>12 DEF a, b, c, e, f

LEMMA UpgradeWhole ==
    ASSUME NEW from \in 0 .. 4, backend = "sqlite"
    PROVE  LET s == UpgradeSteps(from) IN
           /\ IsSeq(s) /\ IndexLater(s)
           /\ \A q \in from + 1 .. 5 : Range(Upgrades[q]) \subseteq Range(s)
           /\ \A op \in Range(s) : op.do \in {"commit", "stamp"} \/ OfUpgrades(op)
           /\ \E j \in 1 .. Len(s) : /\ s[j].do = "stamp" /\ s[j].rev = 5
                                     /\ \A k \in j + 1 .. Len(s) : s[k].do # "stamp"
<1> DEFINE n  == HeadRevision - from
           ss == [i \in 1 .. n |-> Revision(Upgrades[from + i], from + i)]
           s  == FlattenSeq(ss)
           m(i) == Len(Upgrades[from + i])
<1>1. PICK off : UpgradeLaid(from, n, ss, s, off)
  BY UpgradeLayout
<1>2. UpgradeSteps(from) = s \o <<>>
  BY DEF UpgradeSteps
<1> HIDE DEF ss, s, n
<1>3. /\ n = 5 - from /\ n \in 1 .. 5 /\ IsSeq(s) /\ Len(s) \in Nat
      /\ off[1] = 0 /\ off[n + 1] = Len(s)
      /\ \A i \in 1 .. n :
            /\ from + i \in 1 .. 5 /\ m(i) \in Nat /\ Len(ss[i]) \in Nat /\ off[i] \in Nat
            /\ m(i) + 1 \in 1 .. Len(ss[i])
      /\ \A i, j \in 1 .. n : i < j => off[i] + Len(ss[i]) <= off[j]
  BY <1>1 DEF UpgradeLaid
<1>4. /\ \A i \in 1 .. n : \A j \in 1 .. m(i) :
            ss[i][j] = Upgrades[from + i][j] /\ j \in 1 .. Len(ss[i])
      /\ \A i \in 1 .. n : ss[i][m(i) + 1] = Stamp(from + i)
      /\ \A k \in 1 .. Len(s) : \E i \in 1 .. n : \E j \in 1 .. Len(ss[i]) : k = off[i] + j
  BY <1>1 DEF UpgradeLaid
<1>5. ASSUME NEW i \in 1 .. n, NEW j \in 1 .. Len(ss[i])
      PROVE  /\ off[i] + j \in 1 .. Len(s) /\ s[off[i] + j] = ss[i][j]
             /\ \/ ss[i][j].do = "commit"
                \/ j = m(i) + 1 /\ ss[i][j].do = "stamp" /\ ss[i][j].rev = from + i
                \/ /\ j \in 1 .. m(i) /\ ss[i][j] = Upgrades[from + i][j]
                   /\ UpgradeOp(from + i, ss[i][j]) /\ ss[i][j].do \notin {"stamp", "commit"}
  BY <1>1 DEF UpgradeLaid
<1>6. s \o <<>> = s
  BY <1>3, ConcatEmptySeq DEF IsSeq
<1>7. ASSUME NEW q \in from + 1 .. 5, NEW op \in Range(Upgrades[q])
      PROVE  op \in Range(s)
  <2> DEFINE i == q - from
  <2>1. i \in 1 .. n /\ from + i = q /\ q \in 1 .. 5
    BY <1>3
  <2> HIDE DEF i
  <2>2. PICK j \in 1 .. Len(Upgrades[q]) : op = Upgrades[q][j]
    BY <2>1, UpgradeOps2
  <2>3. ss[i][j] = op /\ j \in 1 .. Len(ss[i])
    BY <1>4, <2>1, <2>2
  <2>4. s[off[i] + j] = op /\ off[i] + j \in 1 .. Len(s)
    BY <1>5, <2>1, <2>3
  <2> QED
    BY <1>3, <2>4, RangeOf
<1>8. ASSUME NEW op \in Range(s)
      PROVE  op.do \in {"commit", "stamp"} \/ OfUpgrades(op)
  <2>1. PICK k \in 1 .. Len(s) : op = s[k]
    BY <1>3, RangeOf
  <2>2. PICK i \in 1 .. n : \E j \in 1 .. Len(ss[i]) : k = off[i] + j
    BY <1>4
  <2>3. PICK j \in 1 .. Len(ss[i]) : k = off[i] + j
    BY <2>2
  <2>4. op = ss[i][j] /\ from + i \in 1 .. 5
    BY <1>3, <1>5, <2>1, <2>3
  <2>5. CASE j \in 1 .. m(i) /\ ss[i][j] = Upgrades[from + i][j]
    <3>1. Upgrades[from + i][j] \in Range(Upgrades[from + i])
      BY <2>4, <2>5, UpgradeOps2
    <3> QED
      BY <2>4, <2>5, <3>1 DEF OfUpgrades
  <2> QED
    BY <1>5, <2>4, <2>5
<1>9. ASSUME NEW k \in 1 .. Len(s), MakesMovies(s[k])
      PROVE  \E h \in k + 1 .. Len(s) : IndexesMovies(s[h])
  <2>1. PICK i \in 1 .. n : \E j \in 1 .. Len(ss[i]) : k = off[i] + j
    BY <1>4
  <2>2. PICK j \in 1 .. Len(ss[i]) : k = off[i] + j
    BY <2>1
  <2>3. s[k] = ss[i][j]
    BY <1>5, <2>2
  <2>4. /\ j \in 1 .. m(i) /\ ss[i][j] = Upgrades[from + i][j]
        /\ UpgradeOp(from + i, ss[i][j])
    BY <1>5, <1>9, <2>3 DEF MakesMovies
  <2>5. "movies" \in MadeBy(from + i)
    BY <1>9, <2>3, <2>4 DEF UpgradeOp, MakesMovies
  <2>6. from + i = 1
    BY <1>3, <2>5, MadeOnce
  <2>7. MakesMovies(Upgrades[1][j]) /\ j \in 1 .. Len(Upgrades[1])
    BY <1>9, <2>3, <2>4, <2>6
  <2>8. PICK l \in j + 1 .. Len(Upgrades[1]) : IndexesMovies(Upgrades[1][l])
    BY <2>7, FirstIndexed DEF IndexLater
  <2>9. l \in 1 .. m(i) /\ l > j
    BY <1>3, <2>4, <2>6, <2>8
  <2>10. IndexesMovies(ss[i][l]) /\ l \in 1 .. Len(ss[i])
    BY <1>4, <2>6, <2>8, <2>9
  <2>11. IndexesMovies(s[off[i] + l]) /\ off[i] + l \in 1 .. Len(s)
    BY <1>5, <2>10
  <2> DEFINE x == off[i]
  <2>12. x \in Nat /\ x + l \in 1 .. Len(s) /\ k = x + j /\ Len(s) \in Nat
    BY <1>3, <2>2, <2>11
  <2> HIDE DEF x, m
  <2>13. x + l \in k + 1 .. Len(s)
    BY <2>4, <2>9, <2>12
  <2> QED
    BY <2>11, <2>13 DEF x
<1>10. \E j \in 1 .. Len(s) : /\ s[j].do = "stamp" /\ s[j].rev = 5
                              /\ \A k \in j + 1 .. Len(s) : s[k].do # "stamp"
  <2> DEFINE a == off[n]
             b == m(n)
  <2>1. n \in 1 .. n /\ from + n = 5
    BY <1>3
  <2>2. a \in Nat /\ b \in Nat /\ b + 1 \in 1 .. Len(ss[n]) /\ ss[n][b + 1] = Stamp(5)
    BY <1>3, <1>4, <2>1
  <2>3. s[a + (b + 1)] = Stamp(5) /\ a + (b + 1) \in 1 .. Len(s)
    BY <1>5, <2>1, <2>2
  <2>4. Stamp(5).do = "stamp" /\ Stamp(5).rev = 5
    BY StampIs
  <2>5. ASSUME NEW k \in a + (b + 1) + 1 .. Len(s) PROVE s[k].do # "stamp"
    <3>0. k \in 1 .. Len(s) /\ k > a + (b + 1)
      <4> DEFINE z == Len(s)
      <4>1. a \in Nat /\ b \in Nat /\ z \in Nat /\ k \in a + (b + 1) + 1 .. z
        BY <1>3, <2>2, <2>5
      <4> HIDE DEF a, b, z
      <4>2. k \in 1 .. z /\ k > a + (b + 1)
        BY <4>1
      <4> QED
        BY <4>2 DEF z
    <3>1. PICK i \in 1 .. n : \E j \in 1 .. Len(ss[i]) : k = off[i] + j
      BY <1>4, <3>0
    <3>2. PICK j \in 1 .. Len(ss[i]) : k = off[i] + j
      BY <3>1
    <3>3. i = n
      <4>1. SUFFICES ASSUME i < n PROVE FALSE
        BY <1>3
      <4>2. off[i] + Len(ss[i]) <= a /\ off[i] \in Nat /\ Len(ss[i]) \in Nat
        BY <1>3, <2>1, <4>1
      <4> HIDE DEF a, b
      <4> QED
        BY <2>2, <3>0, <3>2, <4>2
    <3>4. k = a + j /\ j \in Nat
      BY <1>3, <3>2, <3>3
    <3>5. j > b + 1
      <4> HIDE DEF a, b
      <4> QED
        BY <2>2, <3>0, <3>4
    <3>6. ~ (j \in 1 .. m(n)) /\ j # m(n) + 1
      <4>1. ~ (j \in 1 .. b) /\ j # b + 1
        <5> HIDE DEF a, b
        <5> QED
          BY <2>2, <3>4, <3>5
      <4> QED
        BY <4>1
    <3>7. ss[n][j].do = "commit"
      BY <1>5, <2>1, <3>2, <3>3, <3>6
    <3> QED
      BY <1>5, <3>2, <3>3, <3>7
  <2> HIDE DEF a, b
  <2> QED
    BY <2>3, <2>4, <2>5
<1> QED
  BY <1>2, <1>3, <1>6, <1>7, <1>8, <1>9, <1>10 DEF IndexLater

(* Every table and column an upgrade makes is taken back.                  *)
DropsTable(op, t) == op.do = "drop" /\ op.table = t
Cuts(op, t, c)    == op.do = "swap" /\ op.table = t /\ c \in op.gone

LEMMA RangesJoin ==
    ASSUME NEW s, IsSeq(s), NEW t, IsSeq(t)
    PROVE  IsSeq(s \o t) /\ Range(s \o t) = Range(s) \cup Range(t)
BY Joined

LEMMA FourRanges ==
    ASSUME NEW a, IsSeq(a), NEW b, IsSeq(b), NEW c, IsSeq(c), NEW z, IsSeq(z)
    PROVE  /\ IsSeq(a \o b \o c \o z)
           /\ Range(a \o b \o c \o z) = Range(a) \cup Range(b) \cup Range(c) \cup Range(z)
<1> DEFINE x == a \o b
           y == x \o c
<1>1. IsSeq(x) /\ Range(x) = Range(a) \cup Range(b)
  BY RangesJoin
<1> HIDE DEF x
<1>3. IsSeq(y) /\ Range(y) = Range(x) \cup Range(c)
  BY <1>1, RangesJoin
<1> HIDE DEF y
<1>4. IsSeq(y \o z) /\ Range(y \o z) = Range(y) \cup Range(z)
  BY <1>3, RangesJoin
<1> QED
  BY <1>1, <1>3, <1>4 DEF x, y

LEMMA Taking ==
    ASSUME NEW t, NEW gone
    PROVE  /\ IsSeq(DropTable(t)) /\ \E op \in Range(DropTable(t)) : DropsTable(op, t)
           /\ IsSeq(DropIndex(t)) /\ IsSeq(Recreate(t, {}, gone)) /\ IsSeq(DropColumns(t, gone))
           /\ \A c \in gone : \E op \in Range(DropColumns(t, gone)) : Cuts(op, t, c)
<1>1. IsSeq(DropTable(t)) /\ Range(DropTable(t)) = {Op("drop", t, {}, {})}
  BY Single DEF DropTable
<1>2. IsSeq(DropIndex(t))
  BY Single DEF DropIndex
<1>3. IsSeq(Recreate(t, {}, gone)) /\ Op("swap", t, {}, gone) \in Range(Recreate(t, {}, gone))
  BY RecreateSteps
<1>4. DropColumns(t, gone) = Recreate(t, {}, gone)
  BY DEF DropColumns
<1>5. DropsTable(Op("drop", t, {}, {}), t)
  BY OpIs DEF DropsTable
<1>6. \A c \in gone : Cuts(Op("swap", t, {}, gone), t, c)
  BY OpIs DEF Cuts
<1> QED
  BY <1>1, <1>2, <1>3, <1>4, <1>5, <1>6

LEMMA DowngradesWhole ==
    ASSUME NEW r \in 1 .. 5, NEW t
    PROVE  /\ t \in MadeBy(r) => \E op \in Range(Downgrades[r]) : DropsTable(op, t)
           /\ \A c \in AddedBy(r, t) : \E op \in Range(Downgrades[r]) : Cuts(op, t, c)
<1>0. /\ \A u : IsSeq(DropTable(u)) /\ \E op \in Range(DropTable(u)) : DropsTable(op, u)
      /\ \A u : IsSeq(DropIndex(u)) /\ IsSeq(Recreate(u, {}, {}))
      /\ \A u, gone : IsSeq(DropColumns(u, gone))
      /\ \A u, gone : \A c \in gone : \E op \in Range(DropColumns(u, gone)) : Cuts(op, u, c)
  BY Taking
<1>1. CASE r = 1
  <2> DEFINE p1 == DropTable("action_logs")
             p2 == DropTable("broadcast_failed_users")
             p3 == DropTable("broadcasts")
             p4 == DropTable("force_sub_channels")
             p5 == DropTable("movies")
             p6 == DropTable("media_sources")
             p7 == DropTable("admin_users")
             p8 == DropTable("users")
  <2>1. Downgrades[r] = p1 \o p2 \o p3 \o p4 \o p5 \o p6 \o p7 \o p8
    BY <1>1 DEF Downgrades, Downgrade1
  <2>2. /\ IsSeq(p1) /\ IsSeq(p2) /\ IsSeq(p3) /\ IsSeq(p4)
        /\ IsSeq(p5) /\ IsSeq(p6) /\ IsSeq(p7) /\ IsSeq(p8)
    BY <1>0
  <2>3. /\ \E op \in Range(p1) : DropsTable(op, "action_logs")
        /\ \E op \in Range(p2) : DropsTable(op, "broadcast_failed_users")
        /\ \E op \in Range(p3) : DropsTable(op, "broadcasts")
        /\ \E op \in Range(p4) : DropsTable(op, "force_sub_channels")
        /\ \E op \in Range(p5) : DropsTable(op, "movies")
        /\ \E op \in Range(p6) : DropsTable(op, "media_sources")
        /\ \E op \in Range(p7) : DropsTable(op, "admin_users")
        /\ \E op \in Range(p8) : DropsTable(op, "users")
    BY <1>0
  <2> HIDE DEF p1, p2, p3, p4, p5, p6, p7, p8
  <2>4. Range(Downgrades[r]) = Range(p1) \cup Range(p2) \cup Range(p3) \cup Range(p4)
                               \cup Range(p5) \cup Range(p6) \cup Range(p7) \cup Range(p8)
    <3> DEFINE q1 == p1 \o p2 \o p3 \o p4
               q2 == q1 \o p5 \o p6 \o p7
    <3>1. Downgrades[r] = q2 \o p8
      BY <2>1
    <3>2. /\ IsSeq(q1)
          /\ Range(q1) = Range(p1) \cup Range(p2) \cup Range(p3) \cup Range(p4)
      BY <2>2, FourRanges
    <3> HIDE DEF q1
    <3>3. /\ IsSeq(q2)
          /\ Range(q2) = Range(q1) \cup Range(p5) \cup Range(p6) \cup Range(p7)
      BY <2>2, <3>2, FourRanges
    <3> HIDE DEF q2
    <3>4. Range(q2 \o p8) = Range(q2) \cup Range(p8)
      BY <2>2, <3>3, RangesJoin
    <3> QED
      BY <3>1, <3>2, <3>3, <3>4
  <2>5. AddedBy(r, t) = {}
    BY <1>1 DEF AddedBy
  <2>6. t \in MadeBy(r) => t \in {"action_logs", "broadcast_failed_users", "broadcasts",
            "force_sub_channels", "movies", "media_sources", "admin_users", "users"}
    BY <1>1 DEF MadeBy
  <2> QED
    BY <2>3, <2>4, <2>5, <2>6
<1>2. CASE r = 2
  <2> DEFINE a == {"is_mandatory", "instructions", "url", "platform"}
             b == {"is_verified", "last_known_client_hint", "admin_remarks", "notes",
                   "warnings_count", "spam_score", "start_count"}
             d == {"source_message_id", "last_verified_at", "is_broken", "visibility"}
             p1 == DropTable("reserved_codes")
             p2 == DropTable("force_sub_confirmations")
             p3 == DropColumns("force_sub_channels", a)
             p4 == DropIndex("users")
             p5 == DropColumns("users", b)
             p6 == DropColumns("movies", d)
  <2>1. Downgrades[r] = p1 \o p2 \o p3 \o p4 \o p5 \o p6
    BY <1>2 DEF Downgrades, Downgrade2
  <2>2. /\ t = "force_sub_channels" => AddedBy(r, t) = a
        /\ t = "users" => AddedBy(r, t) = b
        /\ t = "movies" => AddedBy(r, t) = d
        /\ t \notin {"force_sub_channels", "users", "movies"} => AddedBy(r, t) = {}
    BY <1>2 DEF AddedBy
  <2> HIDE DEF a, b, d
  <2>3. IsSeq(p1) /\ IsSeq(p2) /\ IsSeq(p3) /\ IsSeq(p4) /\ IsSeq(p5) /\ IsSeq(p6)
    BY <1>0
  <2>4. /\ \E op \in Range(p1) : DropsTable(op, "reserved_codes")
        /\ \E op \in Range(p2) : DropsTable(op, "force_sub_confirmations")
        /\ \A c \in a : \E op \in Range(p3) : Cuts(op, "force_sub_channels", c)
        /\ \A c \in b : \E op \in Range(p5) : Cuts(op, "users", c)
        /\ \A c \in d : \E op \in Range(p6) : Cuts(op, "movies", c)
    BY <1>0
  <2> HIDE DEF p1, p2, p3, p4, p5, p6
  <2>5. Range(Downgrades[r]) = Range(p1) \cup Range(p2) \cup Range(p3) \cup Range(p4)
                               \cup Range(p5) \cup Range(p6)
    <3> DEFINE q1 == p1 \o p2 \o p3 \o p4
    <3>1. Downgrades[r] = q1 \o p5 \o p6
      BY <2>1
    <3>2. /\ IsSeq(q1)
          /\ Range(q1) = Range(p1) \cup Range(p2) \cup Range(p3) \cup Range(p4)
      BY <2>3, FourRanges
    <3> HIDE DEF q1
    <3> DEFINE q2 == q1 \o p5
    <3>3. IsSeq(q2) /\ Range(q2) = Range(q1) \cup Range(p5)
      BY <2>3, <3>2, RangesJoin
    <3>4. Downgrades[r] = q2 \o p6
      BY <3>1
    <3> HIDE DEF q2
    <3>5. Range(q2 \o p6) = Range(q2) \cup Range(p6)
      BY <2>3, <3>3, RangesJoin
    <3> QED
      BY <3>2, <3>3, <3>4, <3>5
  <2>6. t \in MadeBy(r) => t \in {"reserved_codes", "force_sub_confirmations"}
    BY <1>2 DEF MadeBy
  <2>7. t \in MadeBy(r) => \E op \in Range(Downgrades[r]) : DropsTable(op, t)
    BY <2>4, <2>5, <2>6
  <2>8. ASSUME NEW c \in AddedBy(r, t)
        PROVE  \E op \in Range(Downgrades[r]) : Cuts(op, t, c)
    BY <2>2, <2>4, <2>5
  <2> QED
    BY <2>7, <2>8
<1>3. CASE r = 3
  <2> DEFINE a == {"context"}
             b == {"category"}
             d == {"director", "actor", "thumbnail_file_id", "resolution",
                   "file_size_bytes", "part_number", "episode_number", "season_number",
                   "series_title", "collection_type"}
             p1 == DropTable("support_messages")
             p2 == DropTable("search_logs")
             p3 == DropColumns("action_logs", a)
             p4 == Recreate("admin_users", {}, {})
             p5 == DropIndex("media_sources")
             p6 == DropColumns("media_sources", b)
             p7 == DropIndex("movies")
             p8 == DropColumns("movies", d)
  <2>1. Downgrades[r] = p1 \o p2 \o p3 \o p4 \o p5 \o p6 \o p7 \o p8
    BY <1>3 DEF Downgrades, Downgrade3
  <2>2. /\ t = "action_logs" => AddedBy(r, t) = a
        /\ t = "media_sources" => AddedBy(r, t) = b
        /\ t = "movies" => AddedBy(r, t) = d
        /\ t \notin {"action_logs", "media_sources", "movies"} => AddedBy(r, t) = {}
    BY <1>3 DEF AddedBy
  <2> HIDE DEF a, b, d
  <2>3. /\ IsSeq(p1) /\ IsSeq(p2) /\ IsSeq(p3) /\ IsSeq(p4)
        /\ IsSeq(p5) /\ IsSeq(p6) /\ IsSeq(p7) /\ IsSeq(p8)
    BY <1>0
  <2>4. /\ \E op \in Range(p1) : DropsTable(op, "support_messages")
        /\ \E op \in Range(p2) : DropsTable(op, "search_logs")
        /\ \A c \in a : \E op \in Range(p3) : Cuts(op, "action_logs", c)
        /\ \A c \in b : \E op \in Range(p6) : Cuts(op, "media_sources", c)
        /\ \A c \in d : \E op \in Range(p8) : Cuts(op, "movies", c)
    BY <1>0
  <2> HIDE DEF p1, p2, p3, p4, p5, p6, p7, p8
  <2>5. Range(Downgrades[r]) = Range(p1) \cup Range(p2) \cup Range(p3) \cup Range(p4)
                               \cup Range(p5) \cup Range(p6) \cup Range(p7) \cup Range(p8)
    <3> DEFINE q1 == p1 \o p2 \o p3 \o p4
               q2 == q1 \o p5 \o p6 \o p7
    <3>1. Downgrades[r] = q2 \o p8
      BY <2>1
    <3>2. /\ IsSeq(q1)
          /\ Range(q1) = Range(p1) \cup Range(p2) \cup Range(p3) \cup Range(p4)
      BY <2>3, FourRanges
    <3> HIDE DEF q1
    <3>3. /\ IsSeq(q2)
          /\ Range(q2) = Range(q1) \cup Range(p5) \cup Range(p6) \cup Range(p7)
      BY <2>3, <3>2, FourRanges
    <3> HIDE DEF q2
    <3>4. Range(q2 \o p8) = Range(q2) \cup Range(p8)
      BY <2>3, <3>3, RangesJoin
    <3> QED
      BY <3>1, <3>2, <3>3, <3>4
  <2>6. t \in MadeBy(r) => t \in {"support_messages", "search_logs"}
    BY <1>3 DEF MadeBy
  <2>7. t \in MadeBy(r) => \E op \in Range(Downgrades[r]) : DropsTable(op, t)
    BY <2>4, <2>5, <2>6
  <2>8. ASSUME NEW c \in AddedBy(r, t)
        PROVE  \E op \in Range(Downgrades[r]) : Cuts(op, t, c)
    BY <2>2, <2>4, <2>5
  <2> QED
    BY <2>7, <2>8
<1>4. CASE r = 4
  <2> DEFINE a == {"two_factor_enabled", "two_factor_secret", "login_pin_hash"}
             b == {"collection_id"}
             p1 == DropTable("referral_rewards")
             p2 == DropTable("premium_history")
             p3 == DropTable("ad_campaigns")
             p4 == DropTable("backup_records")
             p5 == DropTable("system_logs")
             p6 == DropColumns("admin_users", a)
             p7 == DropTable("admin_sessions")
             p8 == DropTable("admin_login_attempts")
             p9 == DropTable("whitelist_entries")
             p10 == DropTable("blacklist_entries")
             p11 == DropIndex("movies")
             p12 == DropColumns("movies", b)
             p13 == DropTable("media_collections")
             p14 == DropTable("bot_settings")
  <2>1. Downgrades[r] = p1 \o p2 \o p3 \o p4 \o p5 \o p6 \o p7 \o p8 \o p9 \o p10 \o p11
                        \o p12 \o p13 \o p14
    BY <1>4 DEF Downgrades, Downgrade4
  <2>2. /\ t = "admin_users" => AddedBy(r, t) = a
        /\ t = "movies" => AddedBy(r, t) = b
        /\ t \notin {"admin_users", "movies"} => AddedBy(r, t) = {}
    BY <1>4 DEF AddedBy
  <2> HIDE DEF a, b
  <2>3. /\ IsSeq(p1) /\ IsSeq(p2) /\ IsSeq(p3) /\ IsSeq(p4) /\ IsSeq(p5) /\ IsSeq(p6)
        /\ IsSeq(p7) /\ IsSeq(p8) /\ IsSeq(p9) /\ IsSeq(p10) /\ IsSeq(p11) /\ IsSeq(p12)
        /\ IsSeq(p13) /\ IsSeq(p14)
    BY <1>0
  <2>4. /\ \E op \in Range(p1) : DropsTable(op, "referral_rewards")
        /\ \E op \in Range(p2) : DropsTable(op, "premium_history")
        /\ \E op \in Range(p3) : DropsTable(op, "ad_campaigns")
        /\ \E op \in Range(p4) : DropsTable(op, "backup_records")
        /\ \E op \in Range(p5) : DropsTable(op, "system_logs")
        /\ \E op \in Range(p7) : DropsTable(op, "admin_sessions")
        /\ \E op \in Range(p8) : DropsTable(op, "admin_login_attempts")
        /\ \E op \in Range(p9) : DropsTable(op, "whitelist_entries")
        /\ \E op \in Range(p10) : DropsTable(op, "blacklist_entries")
        /\ \E op \in Range(p13) : DropsTable(op, "media_collections")
        /\ \E op \in Range(p14) : DropsTable(op, "bot_settings")
        /\ \A c \in a : \E op \in Range(p6) : Cuts(op, "admin_users", c)
        /\ \A c \in b : \E op \in Range(p12) : Cuts(op, "movies", c)
    BY <1>0
  <2> HIDE DEF p1, p2, p3, p4, p5, p6, p7, p8, p9, p10, p11, p12, p13, p14
  <2>5. Range(Downgrades[r]) =
            Range(p1) \cup Range(p2) \cup Range(p3) \cup Range(p4) \cup Range(p5)
            \cup Range(p6) \cup Range(p7) \cup Range(p8) \cup Range(p9) \cup Range(p10)
            \cup Range(p11) \cup Range(p12) \cup Range(p13) \cup Range(p14)
    <3> DEFINE q1 == p1 \o p2 \o p3 \o p4
               q2 == q1 \o p5 \o p6 \o p7
               q3 == q2 \o p8 \o p9 \o p10
               q4 == q3 \o p11 \o p12 \o p13
    <3>1. Downgrades[r] = q4 \o p14
      BY <2>1
    <3>2. /\ IsSeq(q1)
          /\ Range(q1) = Range(p1) \cup Range(p2) \cup Range(p3) \cup Range(p4)
      BY <2>3, FourRanges
    <3> HIDE DEF q1
    <3>3. /\ IsSeq(q2)
          /\ Range(q2) = Range(q1) \cup Range(p5) \cup Range(p6) \cup Range(p7)
      BY <2>3, <3>2, FourRanges
    <3> HIDE DEF q2
    <3>4. /\ IsSeq(q3)
          /\ Range(q3) = Range(q2) \cup Range(p8) \cup Range(p9) \cup Range(p10)
      BY <2>3, <3>3, FourRanges
    <3> HIDE DEF q3
    <3>5. /\ IsSeq(q4)
          /\ Range(q4) = Range(q3) \cup Range(p11) \cup Range(p12) \cup Range(p13)
      BY <2>3, <3>4, FourRanges
    <3> HIDE DEF q4
    <3>6. Range(q4 \o p14) = Range(q4) \cup Range(p14)
      BY <2>3, <3>5, RangesJoin
    <3> QED
      BY <3>1, <3>2, <3>3, <3>4, <3>5, <3>6
  <2>6. t \in MadeBy(r) => t \in {"referral_rewards", "premium_history", "ad_campaigns",
            "backup_records", "system_logs", "admin_sessions", "admin_login_attempts",
            "whitelist_entries", "blacklist_entries", "media_collections", "bot_settings"}
    BY <1>4 DEF MadeBy
  <2>7. t \in MadeBy(r) => \E op \in Range(Downgrades[r]) : DropsTable(op, t)
    BY <2>4, <2>5, <2>6
  <2>8. ASSUME NEW c \in AddedBy(r, t)
        PROVE  \E op \in Range(Downgrades[r]) : Cuts(op, t, c)
    BY <2>2, <2>4, <2>5
  <2> QED
    BY <2>7, <2>8
<1>5. CASE r = 5
  <2>1. Downgrades[r] = DropTable("discovered_chats")
    BY <1>5 DEF Downgrades, Downgrade5
  <2>2. AddedBy(r, t) = {} /\ MadeBy(r) = {"discovered_chats"}
    BY <1>5 DEF AddedBy, MadeBy
  <2> QED
    BY <1>0, <2>1, <2>2
<1> QED
  BY <1>1, <1>2, <1>3, <1>4, <1>5

LEMMA DowngradeWhole ==
    ASSUME NEW from \in 1 .. 5, backend = "sqlite"
    PROVE  Range(Downgrades[from]) \subseteq Range(DowngradeSteps(from))
<1> DEFINE ops == Downgrades[from]
           r   == from - 1
           x   == Revision(ops, r)
           m   == Len(ops)
<1>1. DowngradeSteps(from) = x \o <<>>
  BY DEF DowngradeSteps
<1>2. IsSeq(ops) /\ CopiesSwapped(ops)
  BY DowngradesAre DEF DownPiece
<1> HIDE DEF ops, r
<1>3. IsSeq(x) /\ \A j \in 1 .. m : x[j] = ops[j] /\ j \in 1 .. Len(x)
  BY <1>2, RevisionIs
<1>4. x \o <<>> = x
  BY <1>3, ConcatEmptySeq DEF IsSeq
<1> HIDE DEF x
<1>5. ASSUME NEW op \in Range(ops) PROVE op \in Range(x)
  <2>1. PICK j \in 1 .. m : op = ops[j]
    BY <1>2, RangeOf
  <2> QED
    BY <1>3, <2>1, RangeOf
<1> QED
  BY <1>1, <1>4, <1>5 DEF ops

-----------------------------------------------------------------------------
(* An upgrade makes the tables of the head out of those of its version.    *)
LEMMA TailOfUpgrade ==
    ASSUME NEW s, IsSeq(s), s # <<>>, NEW u, u = Tail(s), NEW d, NEW e, NEW r,
           e.stamp = IF Head(s).do = "stamp" THEN Head(s).rev ELSE d.stamp
    PROVE  /\ IndexLater(s) => /\ IndexLater(u)
                               /\ MakesMovies(Head(s)) => \E op \in Range(u) : IndexesMovies(op)
           /\ EndsAt(s, d, r) => EndsAt(u, e, r)
<1> DEFINE m == Len(u)
<1>1. /\ Len(s) \in Nat /\ Len(s) > 0 /\ Head(s) = s[1] /\ Head(s) \in Range(s)
      /\ IsSeq(u) /\ m = Len(s) - 1
      /\ \A i \in 1 .. Len(s) - 1 : u[i] = s[i + 1]
      /\ Range(s) = {Head(s)} \cup Range(u)
  BY TailOf
<1>2. m \in Nat /\ Len(s) = m + 1
  BY <1>1
<1>3. /\ \A i \in 1 .. m : u[i] = s[i + 1] /\ u[i] \in Range(u)
      /\ \A op \in Range(u) : \E i \in 1 .. m : op = u[i]
  BY <1>1, RangeOf
<1> HIDE DEF m
<1>4. ASSUME NEW i \in 1 .. m + 1, NEW j \in i + 1 .. m + 1
      PROVE  j - 1 \in i .. m /\ j - 1 \in 1 .. m /\ (j - 1) + 1 = j
  BY <1>2
<1>5. ASSUME IndexLater(s), MakesMovies(Head(s)) PROVE \E op \in Range(u) : IndexesMovies(op)
  <2>1. PICK j \in 1 + 1 .. m + 1 : IndexesMovies(s[j])
    BY <1>1, <1>2, <1>5 DEF IndexLater
  <2>2. j - 1 \in 1 .. m /\ (j - 1) + 1 = j
    BY <1>2, <2>1
  <2>3. u[j - 1] = s[j] /\ u[j - 1] \in Range(u)
    BY <1>3, <2>2
  <2> QED
    BY <2>1, <2>3
<1>6. ASSUME IndexLater(s) PROVE IndexLater(u)
  <2> SUFFICES ASSUME NEW i \in 1 .. m, MakesMovies(u[i])
               PROVE  \E j \in i + 1 .. m : IndexesMovies(u[j])
    BY DEF IndexLater, m
  <2>1. i + 1 \in 1 .. m + 1 /\ MakesMovies(s[i + 1])
    BY <1>2, <1>3
  <2>2. PICK j \in (i + 1) + 1 .. m + 1 : IndexesMovies(s[j])
    BY <1>2, <1>6, <2>1 DEF IndexLater
  <2>3. j - 1 \in i + 1 .. m /\ j - 1 \in 1 .. m /\ (j - 1) + 1 = j
    BY <1>2, <2>2
  <2>4. u[j - 1] = s[j]
    BY <1>3, <2>3
  <2> QED
    BY <2>2, <2>3, <2>4
<1>7. ASSUME EndsAt(s, d, r) PROVE EndsAt(u, e, r)
  <2>1. CASE \E j \in 1 .. Len(s) : /\ s[j].do = "stamp" /\ s[j].rev = r
                                    /\ \A k \in j + 1 .. Len(s) : s[k].do # "stamp"
    <3>1. PICK j \in 1 .. m + 1 : /\ s[j].do = "stamp" /\ s[j].rev = r
                                  /\ \A k \in j + 1 .. m + 1 : s[k].do # "stamp"
      BY <1>2, <2>1
    <3>2. ASSUME NEW k \in 1 .. m, k + 1 > j PROVE u[k].do # "stamp"
      <4>1. k + 1 \in j + 1 .. m + 1
        BY <1>2, <3>2
      <4> QED
        BY <1>3, <3>1, <4>1
    <3>3. CASE j = 1
      <4>1. \A k \in 1 .. m : u[k].do # "stamp"
        BY <1>2, <3>2, <3>3
      <4>2. \A op \in Range(u) : op.do # "stamp"
            BY <1>3, <4>1
      <4>3. e.stamp = r
        BY <1>1, <3>1, <3>3
      <4> QED
        BY <4>2, <4>3 DEF EndsAt
    <3>4. CASE j # 1
      <4>1. j - 1 \in 1 .. m /\ (j - 1) + 1 = j
        BY <1>2, <3>4
      <4>2. u[j - 1] = s[j]
        BY <1>3, <4>1
      <4>3. \A k \in (j - 1) + 1 .. m : k \in 1 .. m /\ k + 1 > j
        BY <1>2, <4>1
      <4>4. \A k \in (j - 1) + 1 .. m : u[k].do # "stamp"
        BY <3>2, <4>3
      <4> QED
        BY <3>1, <4>1, <4>2, <4>4 DEF EndsAt, m
    <3> QED
      BY <3>3, <3>4
  <2>2. CASE d.stamp = r /\ \A op \in Range(s) : op.do # "stamp"
    BY <1>1, <2>2 DEF EndsAt
  <2> QED
    BY <1>7, <2>1, <2>2 DEF EndsAt
<1> QED
  BY <1>5, <1>6, <1>7

LEMMA OfUpgradesIs ==
    ASSUME NEW op, OfUpgrades(op)
    PROVE  /\ UpOp(op) /\ op.do \notin {"stamp", "commit"}
           /\ op.do = "create" => /\ op.as.id = KeyOf(op.table) /\ op.as.fk = (op.table = "movies")
                                  /\ op.table \in DOMAIN Promised(5)
           /\ \A t, c : Gives(op, t, c) => t \in DOMAIN Promised(5) /\ c \in Promised(5)[t].cols
<1>1. PICK q \in 1 .. 5 : op \in Range(Upgrades[q])
  BY DEF OfUpgrades
<1>2. UpgradeOp(q, op)
  BY <1>1, UpgradeOps
<1>3. UpOp(op) /\ op.do \notin {"stamp", "commit"}
  BY <1>2 DEF UpgradeOp, UpOp
<1>4. op.do = "create" => op.table \in DOMAIN Promised(5)
  BY <1>1, PromisedIs DEF MakesTable
<1>5. \A t, c : Gives(op, t, c) => GivenBy(5, t, c)
  BY <1>1 DEF GivenBy
<1>6. \A t, c : GivenBy(5, t, c) => t \in DOMAIN Promised(5) /\ c \in Promised(5)[t].cols
  BY GivenIsMade
<1> QED
  BY <1>2, <1>3, <1>4, <1>5, <1>6 DEF UpgradeOp

LEMMA BuildingStep ==
    ASSUME NEW s, IsSeq(s), s # <<>>, NEW op, op = Head(s), NEW u, u = Tail(s), NEW d, NEW e,
           Effect(d, op, e), Flags(d, op, e), Accepts(d, op), Step("upgrade", op),
           Building(d, s)
    PROVE  Building(e, u)
<1>1. Range(s) = {op} \cup Range(u)
  BY TailOf
<1>2. \A x \in Range(s) : x.do \in {"commit", "stamp"} \/ OfUpgrades(x)
  BY DEF Building
<1>3. /\ op.do \notin {"setAside", "drop"}
      /\ op.do \in {"create", "index", "add", "swap"} => OfUpgrades(op)
      /\ op.do \in {"add", "swap"} => op.gone = {}
  <2>1. OfUpgrades(op) => UpOp(op)
    BY OfUpgradesIs
  <2> QED
    BY <1>1, <1>2, <2>1, AlembicSteps DEF UpOp
<1>4. \A t : Has(e, t) <=> (op.do = "create" /\ op.table = t) \/ Has(d, t)
  BY <1>3 DEF Effect
<1>5. e.stamp = IF op.do = "stamp" THEN op.rev ELSE d.stamp
  BY DEF Effect
<1>6. /\ IndexLater(u) /\ EndsAt(u, e, 5)
      /\ MakesMovies(op) => \E x \in Range(u) : IndexesMovies(x)
  <2>1. e.stamp = IF Head(s).do = "stamp" THEN Head(s).rev ELSE d.stamp
    BY <1>5
  <2>2. IndexLater(s) /\ EndsAt(s, d, 5)
    BY DEF Building
  <2>3. /\ IndexLater(s) => /\ IndexLater(u)
                            /\ MakesMovies(Head(s)) => \E x \in Range(u) : IndexesMovies(x)
        /\ EndsAt(s, d, 5) => EndsAt(u, e, 5)
    BY <2>1, TailOfUpgrade
  <2> QED
    BY <2>2, <2>3
<1>7. ASSUME NEW t, Has(e, t)
      PROVE  /\ t \in DOMAIN Promised(5) /\ Plain(e, t)
             /\ e.tables[t].cols \subseteq Promised(5)[t].cols
             /\ \/ e.tables[t].indexed = TRUE
                \/ t = "movies" /\ \E x \in Range(u) : IndexesMovies(x)
  <2>1. CASE op.do = "create" /\ op.table = t
    <3>1. /\ op.as.id = KeyOf(t) /\ op.as.fk = (t = "movies") /\ t \in DOMAIN Promised(5)
          /\ \A c \in op.as.cols : c \in Promised(5)[t].cols
      BY <1>3, <2>1, OfUpgradesIs DEF Gives
    <3>2. e.tables[t].cols = op.as.cols /\ e.tables[t].id = op.as.id
      BY <1>7, <2>1, <1>3 DEF Effect
    <3>3. e.tables[t].fk = op.as.fk /\ (t # "movies" => e.tables[t].indexed = TRUE)
      BY <1>7, <2>1 DEF Flags
    <3> QED
      BY <1>6, <2>1, <3>1, <3>2, <3>3 DEF Plain, AsMade, MakesMovies
  <2>2. CASE ~ (op.do = "create" /\ op.table = t)
    <3>1. Has(d, t)
      BY <1>4, <1>7, <2>2
    <3>2. /\ t \in DOMAIN Promised(5) /\ Plain(d, t)
          /\ d.tables[t].cols \subseteq Promised(5)[t].cols
          /\ \/ d.tables[t].indexed = TRUE
             \/ t = "movies" /\ \E x \in Range(s) : IndexesMovies(x)
      BY <3>1 DEF Building
    <3>3. /\ e.tables[t].fk = d.tables[t].fk
          /\ IF op.do = "index" /\ op.table = t THEN e.tables[t].indexed = TRUE
             ELSE e.tables[t].indexed = d.tables[t].indexed
      BY <1>7, <2>2 DEF Flags
    <3>4. /\ e.tables[t].id = d.tables[t].id
          /\ \/ e.tables[t].cols = d.tables[t].cols
             \/ /\ op.do \in {"add", "swap"} /\ op.table = t
                /\ e.tables[t].cols = (d.tables[t].cols \cup op.cols) \ op.gone
      BY <1>3, <1>7, <2>2 DEF Effect
    <3>5. op.do \in {"add", "swap"} /\ op.table = t => op.cols \subseteq Promised(5)[t].cols
      BY <1>3, OfUpgradesIs DEF Gives
    <3>6. e.tables[t].cols \subseteq Promised(5)[t].cols
      BY <3>2, <3>4, <3>5
    <3>7. \/ e.tables[t].indexed = TRUE
          \/ t = "movies" /\ \E x \in Range(u) : IndexesMovies(x)
      <4>1. IndexesMovies(op) /\ t = "movies" => e.tables[t].indexed = TRUE
        BY <3>3 DEF IndexesMovies
      <4> QED
        BY <1>1, <3>2, <3>3, <4>1
    <3> QED
      BY <3>2, <3>3, <3>4, <3>6, <3>7 DEF Plain, AsMade
  <2> QED
    BY <2>1, <2>2
<1>8. ASSUME NEW t \in DOMAIN Promised(5)
      PROVE  /\ Has(e, t) \/ \E x \in Range(u) : Creates(x, t)
             /\ \A c \in Promised(5)[t].cols :
                   Holds(e, t, c) \/ \E x \in Range(u) : Gives(x, t, c)
  <2>1. Has(d, t) \/ \E x \in Range(s) : Creates(x, t)
    BY DEF Building
  <2>2. Has(e, t) \/ \E x \in Range(u) : Creates(x, t)
    BY <1>1, <1>4, <2>1 DEF Creates
  <2>3. ASSUME NEW c \in Promised(5)[t].cols
        PROVE  Holds(e, t, c) \/ \E x \in Range(u) : Gives(x, t, c)
    <3>1. Holds(d, t, c) \/ \E x \in Range(s) : Gives(x, t, c)
      BY DEF Building
    <3>2. (Holds(d, t, c) => Holds(e, t, c)) /\ (Gives(op, t, c) => Holds(e, t, c))
      BY UpgradeKeeps
    <3> QED
      BY <1>1, <3>1, <3>2
  <2> QED
    BY <2>2, <2>3
<1>9. \A x \in Range(u) : x.do \in {"commit", "stamp"} \/ OfUpgrades(x)
  BY <1>1, <1>2
<1> QED
  BY <1>6, <1>7, <1>8, <1>9 DEF Building

LEMMA BuildingDone ==
    ASSUME NEW d, Database(d), Building(d, <<>>)
    PROVE  d.tables = Promised(5) /\ d.stamp = 5
<1>1. Range(<<>>) = {} /\ Len(<<>>) = 0
  BY Nothing
<1>2. d.stamp = 5
  BY <1>1 DEF Building, EndsAt
<1>3. \A t : Has(d, t) =>
          /\ t \in DOMAIN Promised(5) /\ Plain(d, t)
          /\ d.tables[t].cols \subseteq Promised(5)[t].cols /\ d.tables[t].indexed = TRUE
  BY <1>1 DEF Building
<1>4. \A t \in DOMAIN Promised(5) :
          Has(d, t) /\ \A c \in Promised(5)[t].cols : Holds(d, t, c)
  BY <1>1 DEF Building
<1>5. WellMade(d.tables) /\ WellMade(Promised(5))
  BY DatabaseIs, PromisedWellMade
<1>6. DOMAIN d.tables = DOMAIN Promised(5)
  BY <1>3, <1>4 DEF Has
<1>7. ASSUME NEW t \in DOMAIN d.tables
      PROVE  /\ d.tables[t].cols = Promised(5)[t].cols /\ d.tables[t].id = Promised(5)[t].id
             /\ d.tables[t].fk = Promised(5)[t].fk
             /\ d.tables[t].indexed = Promised(5)[t].indexed
  <2>1. Has(d, t) /\ t \in DOMAIN Promised(5)
    BY <1>6 DEF Has
  <2>2. AsMade(Promised(5)[t], t) /\ Promised(5)[t].indexed = TRUE
    <3>1. 5 \in 0 .. 5
      OBVIOUS
    <3> QED
      BY <2>1, <3>1, PromisedPlain
  <2>3. d.tables[t].cols = Promised(5)[t].cols
    BY <1>3, <1>4, <2>1 DEF Holds
  <2>4. AsMade(d.tables[t], t) /\ d.tables[t].indexed = TRUE
    BY <1>3, <2>1 DEF Plain
  <2> QED
    BY <2>2, <2>3, <2>4 DEF AsMade
<1>8. d.tables = Promised(5)
  BY <1>5, <1>6, <1>7, SameTables
<1> QED
  BY <1>2, <1>8

LEMMA BuildingStarts ==
    ASSUME NEW d, NEW from \in 0 .. 4, d.tables = Promised(from), backend = "sqlite"
    PROVE  Building(d, UpgradeSteps(from))
<1> DEFINE s == UpgradeSteps(from)
<1>1. /\ IsSeq(s) /\ IndexLater(s)
      /\ \A q \in from + 1 .. 5 : Range(Upgrades[q]) \subseteq Range(s)
      /\ \A op \in Range(s) : op.do \in {"commit", "stamp"} \/ OfUpgrades(op)
      /\ \E j \in 1 .. Len(s) : /\ s[j].do = "stamp" /\ s[j].rev = 5
                                /\ \A k \in j + 1 .. Len(s) : s[k].do # "stamp"
  BY UpgradeWhole
<1> HIDE DEF s
<1>2. EndsAt(s, d, 5)
  BY <1>1 DEF EndsAt
<1>3. ASSUME NEW q \in 1 .. 5, NEW op \in Range(Upgrades[q]), ~ (q <= from)
      PROVE  op \in Range(s)
  BY <1>1, <1>3
<1>4. ASSUME NEW q \in 1 .. 5, q <= from PROVE q \in 1 .. from
  BY <1>4
<1>5. ASSUME NEW t, Has(d, t)
      PROVE  /\ t \in DOMAIN Promised(5) /\ Plain(d, t)
             /\ d.tables[t].cols \subseteq Promised(5)[t].cols
             /\ d.tables[t].indexed = TRUE
  <2>1. t \in DOMAIN Promised(from)
    BY <1>5 DEF Has
  <2>2. Plain(d, t) /\ d.tables[t].indexed = TRUE
    <3>1. from \in 0 .. 5
      OBVIOUS
    <3>2. AsMade(Promised(from)[t], t) /\ Promised(from)[t].indexed = TRUE
      BY <2>1, <3>1, PromisedPlain
    <3> QED
      BY <3>2 DEF Plain
  <2>3. \A c \in Promised(from)[t].cols : t \in DOMAIN Promised(5) /\ c \in Promised(5)[t].cols
    BY <2>1, PromisesGrow
  <2>4. Promised(from)[t].cols # {}
    BY <2>1, PromiseHasColumns
  <2> QED
    BY <2>2, <2>3, <2>4
<1>6. ASSUME NEW t \in DOMAIN Promised(5)
      PROVE  /\ Has(d, t) \/ \E op \in Range(s) : Creates(op, t)
             /\ \A c \in Promised(5)[t].cols :
                   Holds(d, t, c) \/ \E op \in Range(s) : Gives(op, t, c)
  <2>1. PICK q \in 1 .. 5 : \E op \in Range(Upgrades[q]) : op.do = "create" /\ op.table = t
    BY PromisedIs DEF MakesTable
  <2>2. ASSUME q <= from PROVE Has(d, t)
    <3>1. MakesTable(from, t)
      BY <1>4, <2>1, <2>2 DEF MakesTable
    <3> QED
      BY <3>1, PromisedIs DEF Has
  <2>3. ASSUME ~ (q <= from) PROVE \E op \in Range(s) : Creates(op, t)
    BY <1>3, <2>1, <2>3 DEF Creates
  <2>4. ASSUME NEW c \in Promised(5)[t].cols
        PROVE  Holds(d, t, c) \/ \E op \in Range(s) : Gives(op, t, c)
    <3>1. PICK k \in 1 .. 5 : \E op \in Range(Upgrades[k]) : Gives(op, t, c)
      BY PromisedIs DEF GivenBy
    <3>2. CASE k <= from
      <4>1. GivenBy(from, t, c)
        BY <1>4, <3>1, <3>2 DEF GivenBy
      <4>2. t \in DOMAIN Promised(from) /\ c \in Promised(from)[t].cols
        BY <4>1, GivenIsMade
      <4> QED
        BY <4>2 DEF Holds, Has
    <3>3. CASE ~ (k <= from)
      BY <1>3, <3>1, <3>3
    <3> QED
      BY <3>2, <3>3
  <2>5. Has(d, t) \/ \E op \in Range(s) : Creates(op, t)
    BY <2>2, <2>3
  <2> QED
    BY <2>4, <2>5
<1>7. Building(d, s)
  BY <1>1, <1>2, <1>5, <1>6 DEF Building
<1> QED
  BY <1>7 DEF s

-----------------------------------------------------------------------------
(* A downgrade makes the tables of the version before out of those of its. *)
LEMMA TakingDownStep ==
    ASSUME NEW r \in 0 .. 5, NEW A, NEW B, NEW op, A = {op} \cup B, NEW d, NEW e,
           Effect(d, op, e), Flags(d, op, e), Step("downgrade", op), TakingDown(d, A, r)
    PROVE  TakingDown(e, B, r)
<1>1. /\ op.do \in {"commit", "stamp", "drop", "dropIndex", "makeCopy", "fillCopy", "swap"}
      /\ op.do = "swap" => op.cols = {}
  BY AlembicSteps, StampIs, CommitIs DEF Step, DownOp, StampOp
<1>2. ~ Takes(op, r) /\ (op.do = "stamp" => op.rev = r)
  BY DEF TakingDown
<1>3. \A t : Has(e, t) <=> Has(d, t) /\ ~ (op.do = "drop" /\ op.table = t)
  BY <1>1 DEF Effect
<1>4. ASSUME NEW t, Has(e, t)
      PROVE  /\ e.tables[t].fk = d.tables[t].fk /\ e.tables[t].id = d.tables[t].id
             /\ e.tables[t].indexed = d.tables[t].indexed
             /\ \/ e.tables[t].cols = d.tables[t].cols /\ ~ (op.do = "swap" /\ op.table = t)
                \/ /\ op.do = "swap" /\ op.table = t
                   /\ e.tables[t].cols = d.tables[t].cols \ op.gone
  <2>1. e.tables[t].fk = d.tables[t].fk /\ e.tables[t].indexed = d.tables[t].indexed
    BY <1>1, <1>4 DEF Flags
  <2> QED
    BY <1>1, <1>4, <2>1 DEF Effect
<1>5. e.stamp = r \/ \E x \in B : x.do = "stamp"
  <2>1. e.stamp = IF op.do = "stamp" THEN op.rev ELSE d.stamp
    BY DEF Effect
  <2> QED
    BY <1>2, <2>1 DEF TakingDown
<1>6. ASSUME NEW t \in DOMAIN Promised(r)
      PROVE  /\ Has(e, t) /\ Plain(e, t) /\ e.tables[t].indexed = TRUE
             /\ Promised(r)[t].cols \subseteq e.tables[t].cols
             /\ \A c \in e.tables[t].cols :
                   \/ c \in Promised(r)[t].cols
                   \/ \E x \in B : x.do = "swap" /\ x.table = t /\ c \in x.gone
  <2>1. /\ Has(d, t) /\ Plain(d, t) /\ d.tables[t].indexed = TRUE
        /\ Promised(r)[t].cols \subseteq d.tables[t].cols
        /\ \A c \in d.tables[t].cols :
              \/ c \in Promised(r)[t].cols
              \/ \E x \in A : x.do = "swap" /\ x.table = t /\ c \in x.gone
    BY DEF TakingDown
  <2>2. Has(e, t)
    BY <1>2, <1>3, <2>1 DEF Takes
  <2>3. Plain(e, t) /\ e.tables[t].indexed = TRUE
    BY <1>4, <2>1, <2>2 DEF Plain, AsMade
  <2>4. op.do = "swap" /\ op.table = t => op.gone \cap Promised(r)[t].cols = {}
    BY <1>2 DEF Takes
  <2>5. Promised(r)[t].cols \subseteq e.tables[t].cols
    BY <1>4, <2>1, <2>2, <2>4
  <2>6. ASSUME NEW c \in e.tables[t].cols
        PROVE  \/ c \in Promised(r)[t].cols
               \/ \E x \in B : x.do = "swap" /\ x.table = t /\ c \in x.gone
    <3>1. c \in d.tables[t].cols /\ (op.do = "swap" /\ op.table = t => c \notin op.gone)
      BY <1>4, <2>2, <2>6
    <3> QED
      BY <2>1, <3>1
  <2> QED
    BY <2>2, <2>3, <2>5, <2>6
<1>7. ASSUME NEW t, Has(e, t)
      PROVE  t \in DOMAIN Promised(r) \/ \E x \in B : x.do = "drop" /\ x.table = t
  <2>1. Has(d, t) /\ ~ (op.do = "drop" /\ op.table = t)
    BY <1>3, <1>7
  <2> QED
    BY <2>1 DEF TakingDown
<1>8. \A x \in B : ~ Takes(x, r) /\ (x.do = "stamp" => x.rev = r)
  BY DEF TakingDown
<1> QED
  BY <1>5, <1>6, <1>7, <1>8 DEF TakingDown

LEMMA TakingDownDone ==
    ASSUME NEW d, Database(d), NEW r \in 0 .. 5, TakingDown(d, {}, r)
    PROVE  d.tables = Promised(r) /\ d.stamp = r
<1>1. d.stamp = r
  BY DEF TakingDown
<1>2. \A t \in DOMAIN Promised(r) :
          /\ Has(d, t) /\ Plain(d, t) /\ d.tables[t].indexed = TRUE
          /\ Promised(r)[t].cols = d.tables[t].cols
  BY DEF TakingDown
<1>3. \A t : Has(d, t) => t \in DOMAIN Promised(r)
  BY DEF TakingDown
<1>4. WellMade(d.tables) /\ WellMade(Promised(r))
  BY DatabaseIs, PromisedWellMade
<1>5. DOMAIN d.tables = DOMAIN Promised(r)
  BY <1>2, <1>3 DEF Has
<1>6. ASSUME NEW t \in DOMAIN d.tables
      PROVE  /\ d.tables[t].cols = Promised(r)[t].cols /\ d.tables[t].id = Promised(r)[t].id
             /\ d.tables[t].fk = Promised(r)[t].fk
             /\ d.tables[t].indexed = Promised(r)[t].indexed
  <2>1. t \in DOMAIN Promised(r)
    BY <1>5
  <2>2. AsMade(Promised(r)[t], t) /\ Promised(r)[t].indexed = TRUE
    BY <2>1, PromisedPlain
  <2>3. /\ AsMade(d.tables[t], t) /\ d.tables[t].indexed = TRUE
        /\ d.tables[t].cols = Promised(r)[t].cols
    BY <1>2, <2>1 DEF Plain
  <2> QED
    BY <2>2, <2>3 DEF AsMade
<1>7. d.tables = Promised(r)
  BY <1>4, <1>5, <1>6, SameTables
<1> QED
  BY <1>1, <1>7

LEMMA TakingDownStarts ==
    ASSUME NEW d, NEW from \in 1 .. 5, d.tables = Promised(from), backend = "sqlite"
    PROVE  TakingDown(d, Range(DowngradeSteps(from)), from - 1)
<1> DEFINE s == DowngradeSteps(from)
           r == from - 1
           A == Range(s)
<1>1. /\ \A op \in A : ~ Takes(op, r) /\ (op.do = "stamp" => op.rev = r)
      /\ \E op \in A : op.do = "stamp"
  BY DowngradeProgram
<1>2. Range(Downgrades[from]) \subseteq A
  BY DowngradeWhole
<1>3. r \in 0 .. 5 /\ r <= from /\ from \in 0 .. 5
  OBVIOUS
<1>4. \A q \in 1 .. from : q \in 1 .. r \/ q = from
  OBVIOUS
<1>5. \A q \in 1 .. r : q \in 1 .. 5 /\ q # from
  OBVIOUS
<1> HIDE DEF A, r, s
(* What the revision made it takes back. *)
<1>6. ASSUME NEW t \in MadeBy(from)
      PROVE  t \notin DOMAIN Promised(r) /\ \E op \in A : op.do = "drop" /\ op.table = t
  <2>1. ASSUME t \in DOMAIN Promised(r) PROVE FALSE
    <3>1. PICK q \in 1 .. r : \E op \in Range(Upgrades[q]) : op.do = "create" /\ op.table = t
      BY <1>3, <2>1, PromisedIs DEF MakesTable
    <3>2. PICK op \in Range(Upgrades[q]) : op.do = "create" /\ op.table = t
      BY <3>1
    <3>3. q \in 1 .. 5 /\ q # from
      BY <1>5
    <3>4. t \in MadeBy(q)
      BY <3>2, <3>3, UpgradeOps DEF UpgradeOp
    <3> QED
      BY <1>6, <3>3, <3>4, MadeOnce
  <2>2. \E op \in Range(Downgrades[from]) : DropsTable(op, t)
    BY <1>6, DowngradesWhole
  <2> QED
    BY <1>2, <2>1, <2>2 DEF DropsTable
<1>7. ASSUME NEW t, Has(d, t)
      PROVE  t \in DOMAIN Promised(r) \/ \E op \in A : op.do = "drop" /\ op.table = t
  <2>1. t \in DOMAIN Promised(from)
    BY <1>7 DEF Has
  <2>2. PICK q \in 1 .. from : \E op \in Range(Upgrades[q]) : op.do = "create" /\ op.table = t
    BY <1>3, <2>1, PromisedIs DEF MakesTable
  <2>3. ASSUME q \in 1 .. r PROVE t \in DOMAIN Promised(r)
    <3>1. MakesTable(r, t)
      BY <2>2, <2>3 DEF MakesTable
    <3> QED
      BY <1>3, <3>1, PromisedIs
  <2>4. ASSUME q = from PROVE t \in MadeBy(from)
    <3>1. PICK op \in Range(Upgrades[from]) : op.do = "create" /\ op.table = t
      BY <2>2, <2>4
    <3>2. UpgradeOp(from, op)
      BY UpgradeOps
    <3> QED
      BY <3>1, <3>2 DEF UpgradeOp
  <2> QED
    BY <1>4, <1>6, <2>3, <2>4
<1>8. ASSUME NEW t \in DOMAIN Promised(r)
      PROVE  /\ Has(d, t) /\ Plain(d, t) /\ d.tables[t].indexed = TRUE
             /\ Promised(r)[t].cols \subseteq d.tables[t].cols
             /\ \A c \in d.tables[t].cols :
                   \/ c \in Promised(r)[t].cols
                   \/ \E op \in A : op.do = "swap" /\ op.table = t /\ c \in op.gone
  <2>1. \A c \in Promised(r)[t].cols : t \in DOMAIN Promised(from) /\ c \in Promised(from)[t].cols
    BY <1>3, PromisesGrow
  <2>2. Promised(r)[t].cols # {}
    BY <1>3, PromiseHasColumns
  <2>3. t \in DOMAIN Promised(from) /\ Promised(r)[t].cols \subseteq Promised(from)[t].cols
    BY <2>1, <2>2
  <2>4. Has(d, t) /\ Plain(d, t) /\ d.tables[t].indexed = TRUE
    <3>1. AsMade(Promised(from)[t], t) /\ Promised(from)[t].indexed = TRUE
      BY <1>3, <2>3, PromisedPlain
    <3> QED
      BY <2>3, <3>1 DEF Plain, Has
  <2>5. ASSUME NEW c \in Promised(from)[t].cols
        PROVE  \/ c \in Promised(r)[t].cols
               \/ \E op \in A : op.do = "swap" /\ op.table = t /\ c \in op.gone
    <3>1. PICK q \in 1 .. from : \E op \in Range(Upgrades[q]) : Gives(op, t, c)
      BY <1>3, <2>3, PromisedIs DEF GivenBy
    <3>2. ASSUME q \in 1 .. r PROVE c \in Promised(r)[t].cols
      <4>1. GivenBy(r, t, c)
        BY <3>1, <3>2 DEF GivenBy
      <4> QED
        BY <1>3, <4>1, GivenIsMade
    <3>3. ASSUME q = from PROVE c \in AddedBy(from, t)
      <4>1. PICK op \in Range(Upgrades[from]) : Gives(op, t, c)
        BY <3>1, <3>3
      <4>2. UpgradeOp(from, op)
        BY UpgradeOps
      <4>3. op.do # "create"
        BY <1>6, <4>1, <4>2 DEF UpgradeOp, Gives
      <4> QED
        BY <4>1, <4>2, <4>3 DEF UpgradeOp, UpOp, Gives
    <3>4. c \in AddedBy(from, t) => \E op \in Range(Downgrades[from]) : Cuts(op, t, c)
      BY DowngradesWhole
    <3> QED
      BY <1>2, <1>4, <3>2, <3>3, <3>4 DEF Cuts
  <2> QED
    BY <2>3, <2>4, <2>5
<1>9. TakingDown(d, A, r)
  BY <1>1, <1>7, <1>8 DEF TakingDown
<1> QED
  BY <1>9 DEF A, r, s

-----------------------------------------------------------------------------
(* The exact tables, from the first state on.                              *)
LEMMA NothingIsPromised ==
    Untouched.tables = Promised(0)
<1>1. WellMade(Untouched.tables) /\ \A t : t \notin DOMAIN Untouched.tables
  BY UntouchedIs, DatabaseIs DEF Has
<1>2. WellMade(Promised(0)) /\ DOMAIN Promised(0) = {}
  BY PromisedWellMade, NothingPromised
<1>3. DOMAIN Untouched.tables = DOMAIN Promised(0)
  BY <1>1, <1>2
<1>4. \A t \in DOMAIN Untouched.tables :
          /\ Untouched.tables[t].cols = Promised(0)[t].cols
          /\ Untouched.tables[t].id = Promised(0)[t].id
          /\ Untouched.tables[t].fk = Promised(0)[t].fk
          /\ Untouched.tables[t].indexed = Promised(0)[t].indexed
  BY <1>1
<1> QED
  BY <1>1, <1>2, <1>3, <1>4, SameTables

LEMMA ShapeInit == Init => ShapeOK
<1> SUFFICES ASSUME Init, pure, backend = "sqlite" PROVE ShapeOK
  BY DEF ShapeOK
<1>1. PICK origin \in Origins : db = Found(origin) /\ pure = (origin # "legacy")
  BY DEF Init
<1>2. origin \in {"new", "revision 1", "revision 3", "head"}
  BY <1>1, VolumeAssumption
<1>3. ASSUME origin = "new" PROVE db.tables = Promised(db.stamp)
  <2>1. db = Untouched
    BY <1>1, <1>3 DEF Found
  <2> QED
    BY <2>1, NothingIsPromised, UntouchedIs
<1>4. ASSUME NEW r \in 0 .. 5, db = AtRevision[r] PROVE db.tables = Promised(db.stamp)
  <2>1. db.stamp = r
    BY <1>4, AtRevisionIs
  <2> QED
    BY <1>4, <2>1 DEF Promised
<1>5. ASSUME origin # "new" PROVE db.tables = Promised(db.stamp)
  <2>1. db = AtRevision[1] \/ db = AtRevision[3] \/ db = AtRevision[5]
    BY <1>1, <1>2, <1>5, HeadIs DEF Found
  <2> QED
    BY <1>4, <2>1
<1>6. db.tables = Promised(db.stamp)
  BY <1>3, <1>5
<1>7. phase = "down"
  BY DEF Init
<1> QED
  BY <1>6, <1>7 DEF ShapeOK

LEMMA Idle ==
    ASSUME NEW d, NEW op, op.do = "commit"
    PROVE  Effect(d, op, d) /\ Flags(d, op, d) /\ Accepts(d, op)
<1>1. Effect(d, op, d)
  BY DEF Effect, DropsMovies, DropsKept
<1>2. Flags(d, op, d)
  BY DEF Flags
<1> QED
  BY <1>1, <1>2 DEF Accepts

LEMMA FlagsRan ==
    ASSUME Typed, ProgramOK, Ran, phase \in {"upgrade", "downgrade"}
    PROVE  Flags(work, Now, work')
<1>1. /\ work' = Apply(work, Now) /\ Accepts(work, Now) /\ Now.do # "commit"
      /\ Step(phase, Now) /\ Database(work)
  BY RanIs DEF Ran, Typed
<1>2. UpOp(Now) \/ DownOp(Now) \/ Now.do = "stamp"
  <2>1. StampOp(Now) => Now.do = "stamp"
    <3>1. Stamp(Now.rev).do = "stamp"
      BY StampIs
    <3> QED
      BY <3>1 DEF StampOp
  <2>2. Now # Commit
    BY <1>1, CommitIs
  <2> QED
    BY <1>1, <2>1, <2>2 DEF Step
<1>3. CASE UpOp(Now) \/ DownOp(Now)
  BY <1>1, <1>3, FlagsKept
<1>4. CASE Now.do = "stamp"
  <2>1. work' = [work EXCEPT !.stamp = Now.rev]
    BY <1>1, <1>4 DEF Apply
  <2>2. work'.tables = work.tables
    BY <1>1, <2>1, TablesOf
  <2> QED
    BY <1>4, <2>2 DEF Flags, Has
<1> QED
  BY <1>2, <1>3, <1>4

LEMMA ShapeRan ==
    ASSUME Typed, ProgramOK, ShapeOK, Ran, pure, backend = "sqlite"
    PROVE  ShapeOK'
<1>1. /\ phase \in {"upgrade", "downgrade"} /\ phase' = phase /\ todo' = Tail(todo)
      /\ Accepts(work, Now)
  BY DEF ShapeOK, Ran, Busy
<1>2. Effect(work, Now, work') /\ Step(phase, Now) /\ Ahead = {Now} \cup Ahead'
  BY RanIs
<1>3. IsSeq(todo) /\ todo # <<>> /\ Now = Head(todo)
  BY NowIs DEF Ran
<1>4. Flags(work, Now, work')
  BY <1>1, FlagsRan
<1>5. CASE phase = "upgrade"
  <2>1. Building(work, todo) /\ Step("upgrade", Now)
    BY <1>2, <1>5 DEF ShapeOK
  <2>2. Building(work', todo')
    BY <1>1, <1>2, <1>3, <1>4, <2>1, BuildingStep
  <2> QED
    BY <1>1, <1>5, <2>2 DEF ShapeOK
<1>6. CASE phase = "downgrade"
  <2>1. PICK r \in 0 .. HeadRevision : TakingDown(work, Ahead, r)
    BY <1>6 DEF ShapeOK
  <2>2. r \in 0 .. 5 /\ Step("downgrade", Now)
    BY <1>2, <1>6, HeadIs
  <2>3. TakingDown(work', Ahead', r)
    BY <1>2, <1>4, <2>1, <2>2, TakingDownStep
  <2> QED
    BY <1>1, <1>6, <2>3 DEF ShapeOK
<1> QED
  BY <1>1, <1>5, <1>6

LEMMA ShapeCommit ==
    ASSUME Typed, ProgramOK, ShapeOK, CommitWork, pure, backend = "sqlite"
    PROVE  ShapeOK'
<1> DEFINE u == Tail(todo)
<1>1. /\ phase \in {"upgrade", "downgrade"} /\ todo' = u /\ work' = work /\ db' = work
      /\ Now.do = "commit" /\ Busy
      /\ phase' = IF u # <<>> THEN phase ELSE "down"
  BY DEF ShapeOK, CommitWork, Busy
<1>2. IsSeq(todo) /\ todo # <<>> /\ Now = Head(todo) /\ Step(phase, Now) /\ Database(work)
  BY <1>1, NowIs DEF Typed
<1>3. Ahead = {Now} \cup Range(u) /\ Ahead' = Range(u)
  <2>1. Range(todo) = {Head(todo)} \cup Range(u)
    BY <1>2, TailOf
  <2> QED
    BY <1>1, <1>2, <2>1 DEF Ahead
<1> HIDE DEF u
<1>4. Effect(work, Now, work) /\ Flags(work, Now, work) /\ Accepts(work, Now)
  BY <1>1, Idle
<1>5. CASE phase = "upgrade"
  <2>1. Building(work, todo) /\ Step("upgrade", Now)
    BY <1>2, <1>5 DEF ShapeOK
  <2>2. Building(work, u)
    BY <1>2, <1>4, <2>1, BuildingStep DEF u
  <2>3. CASE u # <<>>
    BY <1>1, <1>5, <2>2, <2>3 DEF ShapeOK
  <2>4. CASE u = <<>>
    <3>1. work.tables = Promised(5) /\ work.stamp = 5
      BY <1>2, <2>2, <2>4, BuildingDone
    <3>2. db'.tables = Promised(db'.stamp) /\ phase' = "down"
      BY <1>1, <2>4, <3>1
    <3> QED
      BY <3>2 DEF ShapeOK
  <2> QED
    BY <2>3, <2>4
<1>6. CASE phase = "downgrade"
  <2>1. PICK r \in 0 .. HeadRevision : TakingDown(work, Ahead, r)
    BY <1>6 DEF ShapeOK
  <2>2. r \in 0 .. 5 /\ Step("downgrade", Now)
    BY <1>2, <1>6, HeadIs
  <2>3. TakingDown(work, Range(u), r)
    BY <1>3, <1>4, <2>1, <2>2, TakingDownStep
  <2>4. CASE u # <<>>
    BY <1>1, <1>3, <1>6, <2>3, <2>4 DEF ShapeOK
  <2>5. CASE u = <<>>
    <3>1. Range(u) = {}
      BY <2>5, Nothing
    <3>2. work.tables = Promised(r) /\ work.stamp = r
      BY <1>2, <2>2, <2>3, <3>1, TakingDownDone
    <3>3. db'.tables = Promised(db'.stamp) /\ phase' = "down"
      BY <1>1, <2>5, <3>2
    <3> QED
      BY <3>3 DEF ShapeOK
  <2> QED
    BY <2>4, <2>5
<1> QED
  BY <1>1, <1>5, <1>6

LEMMA ShapeStart ==
    ASSUME IInv, ShapeOK, Upgrade \/ Downgrade, pure, backend = "sqlite"
    PROVE  ShapeOK'
<1>1. phase = "down" /\ work' = db /\ db.tables = Promised(db.stamp) /\ db.stamp \in 0 .. 5
  <2>1. phase = "down" /\ work' = work
    BY DEF Upgrade, Downgrade, Run
  <2> QED
    BY <2>1, Resting DEF ShapeOK
<1>2. CASE Upgrade
  <2>1. phase' = "upgrade" /\ todo' = UpgradeSteps(db.stamp) /\ db.stamp < HeadRevision
    BY <1>2 DEF Upgrade, Run
  <2>2. db.stamp \in 0 .. 4
    BY <1>1, <2>1, HeadIs
  <2>3. Building(work', todo')
    BY <1>1, <2>1, <2>2, BuildingStarts
  <2> QED
    BY <2>1, <2>3 DEF ShapeOK
<1>3. CASE Downgrade
  <2>1. phase' = "downgrade" /\ todo' = DowngradeSteps(db.stamp) /\ db.stamp > 0
    BY <1>3 DEF Downgrade, Run
  <2>2. db.stamp \in 1 .. 5 /\ db.stamp - 1 \in 0 .. HeadRevision
    BY <1>1, <2>1, HeadIs
  <2>3. TakingDown(work', Range(DowngradeSteps(db.stamp)), db.stamp - 1)
    BY <1>1, <2>2, TakingDownStarts
  <2>4. TakingDown(work', Ahead', db.stamp - 1)
    BY <2>1, <2>3 DEF Ahead
  <2> QED
    BY <2>1, <2>2, <2>4 DEF ShapeOK
<1> QED
  BY <1>2, <1>3

LEMMA ShapeStep == IInv /\ ShapeOK /\ [Next]_vars => ShapeOK'
<1> SUFFICES ASSUME IInv, ShapeOK, [Next]_vars, pure', backend' = "sqlite" PROVE ShapeOK'
  BY DEF ShapeOK
<1>0. Typed /\ ProgramOK
  BY DEF IInv
<1>1. CASE Upgrade \/ Downgrade
  <2>1. pure /\ backend = "sqlite"
    BY <1>1 DEF Upgrade, Downgrade, Run
  <2> QED
    BY <1>1, <2>1, ShapeStart
<1>2. CASE Define \/ Write
  <2>1. Ran
    BY <1>2, StatementIsRan
  <2>2. pure /\ backend = "sqlite"
    BY <2>1 DEF Ran
  <2> QED
    BY <1>0, <2>1, <2>2, ShapeRan
<1>3. CASE CommitWork
  <2>1. pure /\ backend = "sqlite"
    BY <1>3 DEF CommitWork, ghosts
  <2> QED
    BY <1>0, <1>3, <2>1, ShapeCommit
<1>4. CASE Boot \/ Fail \/ Crash
  BY <1>4 DEF Boot, Fail, Crash, Over
<1>5. CASE Stop \/ AddMovie
  <2>1. pure /\ backend = "sqlite" /\ phase = "up"
    BY <1>5 DEF Stop, AddMovie, ghosts
  <2> QED
    BY <2>1 DEF ShapeOK
<1>6. CASE UNCHANGED vars
  BY <1>6 DEF vars, ShapeOK, Ahead
<1> QED
  BY <1>1, <1>2, <1>3, <1>4, <1>5, <1>6 DEF Next, Statement

(* Each downgrade takes back what its upgrade made, and each upgrade makes *)
(* again what a downgrade took, to the last column, key and index: between *)
(* two commands that came to their end the tables depend on the version    *)
(* alone, and on PostgreSQL whatever fails (0001-0005).                    *)
THEOREM TablesAreTheVersions == Spec => []TablesFollowVersion
<1>1. Init => ShapeOK
  BY ShapeInit
<1>2. IInv /\ ShapeOK /\ [Next]_vars => ShapeOK'
  BY ShapeStep
<1>3. IInv /\ ShapeOK => TablesFollowVersion
  <2> SUFFICES ASSUME IInv, ShapeOK, phase = "down", backend = "postgresql" \/ pure
               PROVE  db.tables = Promised(db.stamp)
    BY DEF TablesFollowVersion, Promised
  <2>1. backend \in {"sqlite", "postgresql"}
    BY Resting
  <2>2. CASE backend = "postgresql"
    <3>1. db = Untouched
      BY <2>2 DEF IInv, PgOK
    <3> QED
      BY <3>1, NothingIsPromised, UntouchedIs
  <2>3. CASE backend = "sqlite" /\ pure
    BY <2>3 DEF ShapeOK
  <2> QED
    BY <2>1, <2>2, <2>3
<1> QED
  BY <1>1, <1>2, <1>3, VolumeInvariant, PTL DEF Spec
=============================================================================
