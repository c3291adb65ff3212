----------------------- MODULE AttachmentCleanupProofs -----------------------
(***************************************************************************)
(* Theorems of the attachment clean-up for any threads, files, logs, faults    *)
(* and crashes.                                                              *)
(*                                                                         *)
(* The argument: what the tables hold of a thread is what the log says up to   *)
(* the cursor, from the thread's creation on; so a clean-up, which only runs    *)
(* with every cursor at the end, keeps what is referred to, and leaves nothing  *)
(* else that was there before its event.  A file is of one claim, and later     *)
(* events do not unsay what an earlier one promised of it.                    *)
(***************************************************************************)
EXTENDS AttachmentCleanup, FiniteSetTheorems, SequenceTheorems, WellFoundedInduction, TLAPS

---------------------------------------------------------------------------
(* Induction over the naturals, for the facts about a projector's rows at a    *)
(* sequence.                                                                 *)

LEMMA LeastNumber ==
    ASSUME NEW T \in SUBSET Nat, T # {}
    PROVE  \E n \in T : \A k \in T : n <= k
<1> DEFINE R == {pair \in Nat \X Nat : pair[1] < pair[2]}
<1>1. IsWellFoundedOn(R, Nat)
  BY NatLessThanWellFounded DEF OpToRel
<1>2. \A x, y \in Nat : <<y, x>> \in R <=> y < x
  OBVIOUS
<1> HIDE DEF R
<1>3. PICK n \in T : \A k \in T : ~(<<k, n>> \in R)
  BY <1>1, WFMin
<1>4. \A k \in T : n \in Nat /\ k \in Nat /\ ~(k < n)
  BY <1>2, <1>3
<1>5. \A k \in T : n <= k
  BY <1>4
<1> QED BY <1>3, <1>5

LEMMA SetInduction ==
    ASSUME NEW T, 0 \in T, \A n \in Nat : n \in T => n + 1 \in T
    PROVE  Nat \subseteq T
<1> SUFFICES ASSUME Nat \ T # {} PROVE FALSE
  OBVIOUS
<1>1. PICK n \in Nat \ T : \A k \in Nat \ T : n <= k
  BY LeastNumber
<1>2. n - 1 \in Nat /\ n - 1 + 1 = n /\ ~(n <= n - 1)
  BY <1>1
<1>3. n - 1 \in T
  BY <1>1, <1>2
<1> QED BY <1>1, <1>2, <1>3

\* The greatest of some numbers up to n.
LEMMA MaxIs ==
    ASSUME NEW n \in Nat, NEW S \in SUBSET (0..n), S # {}
    PROVE  Max(S) \in S /\ \A x \in S : x <= Max(S)
<1> DEFINE T == {k \in Nat : \A R \in SUBSET (0..k) : R # {} => \E x \in R : \A y \in R : x >= y}
<1>1. 0 \in T
  <2>1. \A x \in 0..0 : x = 0
    OBVIOUS
  <2>2. \A R \in SUBSET (0..0) : \A x, y \in R : x >= y
    BY <2>1
  <2> QED BY <2>2
<1>2. \A k \in Nat : k \in T => k + 1 \in T
  <2> SUFFICES ASSUME NEW k \in Nat, k \in T
               PROVE  \A R \in SUBSET (0..(k + 1)) : R # {} => \E x \in R : \A y \in R : x >= y
    <3>1. \A k \in Nat : k + 1 \in Nat
      OBVIOUS
    <3> QED BY <3>1
  <2> TAKE R \in SUBSET (0..(k + 1))
  <2> HAVE R # {}
  <2>1. CASE k + 1 \in R
    <3>1. \A y \in R : k + 1 >= y
      OBVIOUS
    <3> QED BY <2>1, <3>1
  <2>2. CASE k + 1 \notin R
    <3>1. \A y \in R : y \in 0..k
      BY <2>2
    <3> QED BY <3>1
  <2> QED BY <2>1, <2>2
<1> HIDE DEF T
<1>3. n \in T
  BY <1>1, <1>2, SetInduction
<1>4. \E x \in S : \A y \in S : x >= y
  BY <1>3 DEF T
<1>5. Max(S) \in S /\ \A y \in S : Max(S) >= y
  BY <1>4 DEF Max
<1>6. \A y \in S : y \in Nat
  OBVIOUS
<1> QED BY <1>5, <1>6

---------------------------------------------------------------------------
(* A projector's rows after the first n events of a log.                     *)

NoRows == [t \in Threads |-> {}]

TableOf(l, p, n) ==
    LET after[i \in 0..n] == IF i = 0 THEN NoRows ELSE Project(p, after[i - 1], l[i]) IN after[n]

\* g is the history of the rows up to n.
History(l, p, n, g) ==
    g = [i \in 0..n |-> IF i = 0 THEN NoRows ELSE Project(p, g[i - 1], l[i])]

LEMMA TableAtIs == \A p, n : TableAt(p, n) = TableOf(log, p, n)
BY DEF TableAt, TableOf, NoRows

LEMMA HistoryIs ==
    ASSUME NEW l, NEW p, NEW n \in Nat, NEW g, History(l, p, n, g)
    PROVE  g[0] = NoRows /\ \A i \in 0..n : i + 1 <= n => g[i + 1] = Project(p, g[i], l[i + 1])
<1>1. 0 \in 0..n
  OBVIOUS
<1>2. \A i \in 0..n : i + 1 <= n => i + 1 \in 0..n /\ i + 1 # 0 /\ i + 1 - 1 = i
  OBVIOUS
<1>3. \A i \in 0..n : g[i] = IF i = 0 THEN NoRows ELSE Project(p, g[i - 1], l[i])
  BY DEF History
<1> QED BY <1>1, <1>2, <1>3

\* Two logs that agree up to n have one history up to there.
LEMMA OneHistory ==
    ASSUME NEW l, NEW m, NEW p, NEW n \in Nat, NEW k \in Nat, n <= k, NEW g, NEW h,
           History(l, p, n, g), History(m, p, k, h), \A i \in 1..n : l[i] = m[i]
    PROVE  \A i \in 0..n : g[i] = h[i]
<1>1. /\ g[0] = NoRows /\ h[0] = NoRows
      /\ \A i \in 0..n : i + 1 <= n => g[i + 1] = Project(p, g[i], l[i + 1])
      /\ \A i \in 0..k : i + 1 <= k => h[i + 1] = Project(p, h[i], m[i + 1])
  BY HistoryIs
<1> DEFINE T == {i \in Nat : i <= n => g[i] = h[i]}
<1>2. 0 \in T
  BY <1>1
<1>3. \A i \in Nat : i \in T => i + 1 \in T
  <2> SUFFICES ASSUME NEW i \in Nat, i \in T, i + 1 <= n PROVE g[i + 1] = h[i + 1]
    OBVIOUS
  <2>1. i \in 0..n /\ i \in 0..k /\ i + 1 \in 1..n /\ i + 1 <= k /\ g[i] = h[i]
    OBVIOUS
  <2> QED BY <1>1, <2>1
<1> HIDE DEF T
<1>4. Nat \subseteq T
  BY <1>2, <1>3, SetInduction
<1> QED BY <1>4 DEF T

LEMMA HistoryExists ==
    ASSUME NEW l, NEW p, NEW n \in Nat
    PROVE  \E g : History(l, p, n, g)
<1> DEFINE T == {k \in Nat : \E g : History(l, p, k, g)}
<1>1. 0 \in T
  <2> DEFINE g == [i \in 0..0 |-> NoRows]
  <2>1. g = [i \in 0..0 |-> IF i = 0 THEN NoRows ELSE Project(p, g[i - 1], l[i])]
    OBVIOUS
  <2> HIDE DEF g
  <2>2. History(l, p, 0, g)
    BY <2>1 DEF History
  <2> QED BY <2>2
<1>2. \A k \in Nat : k \in T => k + 1 \in T
  <2> SUFFICES ASSUME NEW k \in Nat, NEW g, History(l, p, k, g)
               PROVE  \E h : History(l, p, k + 1, h)
    OBVIOUS
  <2> DEFINE h == [i \in 0..(k + 1) |-> IF i = k + 1 THEN Project(p, g[k], l[i]) ELSE g[i]]
  <2>1. g = [i \in 0..k |-> IF i = 0 THEN NoRows ELSE Project(p, g[i - 1], l[i])]
    BY DEF History
  <2>2. \A i \in 0..k : g[i] = IF i = 0 THEN NoRows ELSE Project(p, g[i - 1], l[i])
    BY <2>1
  <2>3. \A i \in 0..(k + 1) : i = k + 1 \/ i \in 0..k
    OBVIOUS
  <2>4. \A i \in 0..k : i # k + 1 /\ i \in 0..(k + 1)
    OBVIOUS
  <2>5. \A i \in 0..k : h[i] = g[i]
    BY <2>4
  <2>6. k + 1 \in 0..(k + 1) /\ k + 1 # 0 /\ k + 1 - 1 = k /\ k \in 0..k
    OBVIOUS
  <2>7. h[k + 1] = Project(p, h[k], l[k + 1])
    BY <2>5, <2>6
  <2>8. \A i \in 0..k : i # 0 => i - 1 \in 0..k
    OBVIOUS
  <2>9. \A i \in 0..(k + 1) : h[i] = IF i = 0 THEN NoRows ELSE Project(p, h[i - 1], l[i])
    <3> HIDE DEF h
    <3> QED BY <2>2, <2>3, <2>5, <2>6, <2>7, <2>8
  <2>10. History(l, p, k + 1, h)
    BY <2>9 DEF History
  <2> HIDE DEF h
  <2> QED BY <2>10
<1> HIDE DEF T
<1>3. n \in T
  BY <1>1, <1>2, SetInduction
<1> QED BY <1>3 DEF T

LEMMA TableOfHistory ==
    ASSUME NEW l, NEW p, NEW n \in Nat
    PROVE  \E g : History(l, p, n, g) /\ TableOf(l, p, n) = g[n]
<1> DEFINE f == CHOOSE g : History(l, p, n, g)
<1>1. History(l, p, n, f)
  BY HistoryExists
<1>2. TableOf(l, p, n) = f[n]
  BY DEF TableOf, History
<1> HIDE DEF f
<1> QED BY <1>1, <1>2

LEMMA TableOfSteps ==
    ASSUME NEW l, NEW p
    PROVE  /\ TableOf(l, p, 0) = NoRows
           /\ \A n \in Nat : TableOf(l, p, n + 1) = Project(p, TableOf(l, p, n), l[n + 1])
<1>1. TableOf(l, p, 0) = NoRows
  BY TableOfHistory, HistoryIs
<1>2. ASSUME NEW n \in Nat PROVE TableOf(l, p, n + 1) = Project(p, TableOf(l, p, n), l[n + 1])
  <2>1. PICK g : History(l, p, n, g) /\ TableOf(l, p, n) = g[n]
    BY TableOfHistory
  <2>2. n + 1 \in Nat /\ n <= n + 1 /\ \A i \in 1..n : l[i] = l[i]
    OBVIOUS
  <2>3. PICK h : History(l, p, n + 1, h) /\ TableOf(l, p, n + 1) = h[n + 1]
    BY <2>2, TableOfHistory
  <2>4. \A i \in 0..n : g[i] = h[i]
    <3> DEFINE k == n + 1
    <3>1. k \in Nat /\ n <= k /\ History(l, p, k, h)
      BY <2>2, <2>3
    <3> HIDE DEF k
    <3> QED BY <2>1, <2>2, <3>1, OneHistory
  <2>5. h[n + 1] = Project(p, h[n], l[n + 1])
    BY <2>2, <2>3, HistoryIs
  <2> QED BY <2>1, <2>3, <2>4, <2>5
<1> QED BY <1>1, <1>2

\* What is appended later does not change the rows of before.
LEMMA TableOfPrefix ==
    ASSUME NEW l, NEW m, NEW p, NEW n \in Nat, \A i \in 1..n : l[i] = m[i]
    PROVE  TableOf(l, p, n) = TableOf(m, p, n)
<1>1. PICK g : History(l, p, n, g) /\ TableOf(l, p, n) = g[n]
  BY TableOfHistory
<1>2. PICK h : History(m, p, n, h) /\ TableOf(m, p, n) = h[n]
  BY TableOfHistory
<1>3. \A i \in 0..n : g[i] = h[i]
  BY <1>1, <1>2, OneHistory
<1> QED BY <1>1, <1>2, <1>3

---------------------------------------------------------------------------
(* What the rows hold, and which event of a thread is the last of its type.   *)

Ref == [file : Files, turn : 0..MaxEvents]

\* A message or an answer names its file.
IsEvent(e) == e \in Event /\ (e.type \in Projectors => e.file \in Files)

IsLog(l) == l \in Seq(Event) /\ \A i \in 1..Len(l) : IsEvent(l[i])

LEMMA ProjectIs ==
    ASSUME NEW p \in Projectors, NEW table \in [Threads -> SUBSET Ref], NEW e, IsEvent(e)
    PROVE  /\ Project(p, table, e) \in [Threads -> SUBSET Ref]
           /\ \A t \in Threads : \A r \in Project(p, table, e)[t] :
                \/ r \in table[t]
                \/ e.type = p /\ e.thread = t /\ r = [file |-> e.file, turn |-> e.turn]
<1>1. e.thread \in Threads /\ e.turn \in 0..MaxEvents /\ table[e.thread] \in SUBSET Ref
  BY DEF IsEvent, Event
<1>2. e.type = p => [file |-> e.file, turn |-> e.turn] \in Ref
  BY <1>1 DEF IsEvent, Ref
<1>3. RetainedAfterRevert(table[e.thread], e.turn) \subseteq table[e.thread]
  BY DEF RetainedAfterRevert
<1>4. p # "thread.created" /\ p # "thread.reverted"
  BY DEF Projectors
<1>5. CASE e.type = "thread.created"
  <2>1. Project(p, table, e) = [table EXCEPT ![e.thread] = {}]
    BY <1>4, <1>5 DEF Project
  <2> QED BY <1>1, <2>1
<1>6. CASE e.type = p
  <2>1. Project(p, table, e) =
          [table EXCEPT ![e.thread] = table[e.thread] \cup {[file |-> e.file, turn |-> e.turn]}]
    BY <1>4, <1>6 DEF Project
  <2> QED BY <1>1, <1>2, <1>6, <2>1
<1>7. CASE e.type = "thread.reverted"
  <2>1. Project(p, table, e) =
          [table EXCEPT ![e.thread] = RetainedAfterRevert(table[e.thread], e.turn)]
    BY <1>4, <1>7 DEF Project
  <2> QED BY <1>1, <1>3, <2>1
<1>8. CASE e.type \notin {"thread.created", p, "thread.reverted"}
  <2>1. Project(p, table, e) = table
    BY <1>8 DEF Project
  <2> QED BY <2>1
<1> QED BY <1>5, <1>6, <1>7, <1>8

\* An event makes of a thread's rows the same wherever they come from, and of a
\* thread that is created no rows.
LEMMA ProjectsByThread ==
    ASSUME NEW p \in Projectors, NEW e, IsEvent(e), NEW t \in Threads,
           NEW a \in [Threads -> SUBSET Ref], NEW b \in [Threads -> SUBSET Ref],
           a[t] = b[t] \/ (e.type = "thread.created" /\ e.thread = t)
    PROVE  Project(p, a, e)[t] = Project(p, b, e)[t]
<1>1. p # "thread.created" /\ p # "thread.reverted"
  BY DEF Projectors
<1>2. CASE e.thread # t
  BY <1>2 DEF Project
<1>3. CASE e.thread = t
  BY <1>1, <1>3 DEF Project
<1> QED BY <1>2, <1>3

\* Every row comes from an event of its projector and thread, one from each.
Grounded(l, p, n, table) ==
    /\ table \in [Threads -> SUBSET Ref]
    /\ \A t \in Threads : \A r \in table[t] :
         \E i \in 1..n : l[i].type = p /\ l[i].thread = t /\ l[i].file = r.file
    /\ \A t \in Threads : IsFiniteSet(table[t]) /\ Cardinality(table[t]) <= n

LEMMA ProjectGrounded ==
    ASSUME NEW l, NEW n \in Nat, IsEvent(l[n + 1]), NEW p \in Projectors, NEW table,
           Grounded(l, p, n, table)
    PROVE  Grounded(l, p, n + 1, Project(p, table, l[n + 1]))
<1> DEFINE e == l[n + 1]
           new == Project(p, table, e)
           r1 == [file |-> e.file, turn |-> e.turn]
<1> USE DEF Grounded
<1>1. /\ new \in [Threads -> SUBSET Ref]
      /\ \A t \in Threads : \A r \in new[t] :
           r \in table[t] \/ (e.type = p /\ e.thread = t /\ r = r1)
  BY ProjectIs
<1>2. \A t \in Threads : \A r \in new[t] :
        \E i \in 1..(n + 1) : l[i].type = p /\ l[i].thread = t /\ l[i].file = r.file
  <2>1. 1..n \subseteq 1..(n + 1) /\ n + 1 \in 1..(n + 1) /\ r1.file = e.file
    OBVIOUS
  <2> HIDE DEF new, r1
  <2> QED BY <1>1, <2>1
<1>3. ASSUME NEW t \in Threads PROVE IsFiniteSet(new[t]) /\ Cardinality(new[t]) <= n + 1
  <2>1. new[t] \subseteq table[t] \cup {r1}
    BY <1>1
  <2>2. /\ IsFiniteSet(table[t] \cup {r1})
        /\ Cardinality(table[t] \cup {r1}) <= Cardinality(table[t]) + 1
    <3> DEFINE S == table[t]
    <3>1. IsFiniteSet(S) /\ Cardinality(S) \in Nat
      BY FS_CardinalityType
    <3> HIDE DEF S, r1
    <3>2. /\ IsFiniteSet(S \cup {r1})
          /\ Cardinality(S \cup {r1}) \in {Cardinality(S), Cardinality(S) + 1}
      BY <3>1, FS_AddElement
    <3>3. Cardinality(S \cup {r1}) <= Cardinality(S) + 1
      BY <3>1, <3>2
    <3> QED BY <3>2, <3>3 DEF S
  <2>3. IsFiniteSet(new[t]) /\ Cardinality(new[t]) <= Cardinality(table[t] \cup {r1})
    BY <2>1, <2>2, FS_Subset
  <2>4. /\ Cardinality(new[t]) \in Nat /\ Cardinality(table[t]) \in Nat
        /\ Cardinality(table[t] \cup {r1}) \in Nat /\ Cardinality(table[t]) <= n
    BY <2>2, <2>3, FS_CardinalityType
  <2> HIDE DEF new, r1
  <2> QED BY <2>2, <2>3, <2>4
<1> HIDE DEF new
<1>4. Grounded(l, p, n + 1, new)
  BY <1>1, <1>2, <1>3
<1> QED BY <1>4 DEF new

LEMMA RowsGrounded ==
    ASSUME NEW l, IsLog(l), NEW p \in Projectors, NEW n \in 0..Len(l)
    PROVE  Grounded(l, p, n, TableOf(l, p, n))
<1> DEFINE T == {k \in Nat : k <= Len(l) => Grounded(l, p, k, TableOf(l, p, k))}
<1>1. Len(l) \in Nat
  BY LenProperties DEF IsLog
<1>2. 0 \in T
  <2>1. IsFiniteSet({}) /\ Cardinality({}) = 0
    BY FS_EmptySet
  <2>2. Grounded(l, p, 0, NoRows)
    BY <2>1 DEF Grounded, NoRows
  <2> QED BY <2>2, TableOfSteps
<1>3. ASSUME NEW k \in Nat, k \in T PROVE k + 1 \in T
  <2>1. k + 1 \in Nat /\ (k + 1 <= Len(l) => k + 1 \in 1..Len(l) /\ k <= Len(l))
    BY <1>1
  <2>2. ASSUME k + 1 <= Len(l) PROVE Grounded(l, p, k + 1, TableOf(l, p, k + 1))
    <3>1. Grounded(l, p, k, TableOf(l, p, k)) /\ IsEvent(l[k + 1])
      BY <1>3, <2>1, <2>2 DEF IsLog
    <3>2. TableOf(l, p, k + 1) = Project(p, TableOf(l, p, k), l[k + 1])
      BY TableOfSteps
    <3> QED BY <3>1, <3>2, ProjectGrounded
  <2> QED BY <2>1, <2>2
<1> HIDE DEF T
<1>4. n \in T
  BY <1>1, <1>2, <1>3, SetInduction
<1> QED BY <1>1, <1>4 DEF T

LastIn(l, type, t) == Max({0} \cup {i \in 1..Len(l) : l[i].thread = t /\ l[i].type = type})

LEMMA LastOfIs == \A type, t : LastOf(type, t) = LastIn(log, type, t)
BY DEF LastOf, LastIn

LEMMA LastIs ==
    ASSUME NEW l, IsLog(l), NEW type, NEW t
    PROVE  /\ LastIn(l, type, t) \in 0..Len(l)
           /\ LastIn(l, type, t) # 0 =>
                l[LastIn(l, type, t)].thread = t /\ l[LastIn(l, type, t)].type = type
           /\ \A i \in 1..Len(l) : l[i].thread = t /\ l[i].type = type => i <= LastIn(l, type, t)
<1> DEFINE S == {0} \cup {i \in 1..Len(l) : l[i].thread = t /\ l[i].type = type}
<1>1. Len(l) \in Nat
  BY LenProperties DEF IsLog
<1>2. S \in SUBSET (0..Len(l)) /\ S # {}
  BY <1>1
<1>3. LastIn(l, type, t) = Max(S)
  BY DEF LastIn
<1>4. Max(S) \in S /\ \A x \in S : x <= Max(S)
  <2> HIDE DEF S
  <2> QED BY <1>1, <1>2, MaxIs
<1>5. \A i \in 1..Len(l) : l[i].thread = t /\ l[i].type = type => i \in S
  OBVIOUS
<1>6. \A x \in S : x # 0 => l[x].thread = t /\ l[x].type = type
  OBVIOUS
<1> HIDE DEF S
<1> QED BY <1>2, <1>3, <1>4, <1>5, <1>6

\* What is appended comes last.
LEMMA LastGrows ==
    ASSUME NEW l, IsLog(l), NEW m, IsLog(m), Len(l) <= Len(m), \A i \in 1..Len(l) : l[i] = m[i],
           NEW type, NEW t
    PROVE  LastIn(l, type, t) <= LastIn(m, type, t)
<1>1. Len(l) \in Nat /\ Len(m) \in Nat
  BY LenProperties DEF IsLog
<1>2. /\ LastIn(l, type, t) \in 0..Len(l) /\ LastIn(m, type, t) \in 0..Len(m)
      /\ LastIn(l, type, t) # 0 =>
           l[LastIn(l, type, t)].thread = t /\ l[LastIn(l, type, t)].type = type
      /\ \A i \in 1..Len(m) : m[i].thread = t /\ m[i].type = type => i <= LastIn(m, type, t)
  BY LastIs
<1> QED BY <1>1, <1>2

---------------------------------------------------------------------------
(* What the log says of the files, and that nothing later unsays it.          *)

RefersTo(l, n, t, f) == \E p \in Projectors : \E r \in TableOf(l, p, n)[t] : r.file = f

InUse(l, f) ==
    \E t \in Threads : /\ LastIn(l, "thread.created", t) > LastIn(l, "thread.deleted", t)
                       /\ RefersTo(l, Len(l), t, f)

LEMMA FilesAre ==
    ASSUME NEW tabs, NEW t
    PROVE  \A f : f \in FilesOf(tabs, t) <=> \E p \in Projectors : \E r \in tabs[p][t] : r.file = f
BY DEF FilesOf

LEMMA ReferencedAtIs == \A n, t, f : f \in ReferencedAt(n, t) <=> RefersTo(log, n, t, f)
<1> SUFFICES ASSUME NEW n, NEW t, NEW f
             PROVE  f \in ReferencedAt(n, t) <=> RefersTo(log, n, t, f)
  OBVIOUS
<1>1. \A p \in Projectors : TablesAt(n)[p] = TableOf(log, p, n)
  BY TableAtIs DEF TablesAt
<1>2. f \in ReferencedAt(n, t) <=> \E p \in Projectors : \E r \in TablesAt(n)[p][t] : r.file = f
  BY FilesAre DEF ReferencedAt
<1> QED BY <1>1, <1>2 DEF RefersTo

LEMMA ReferencedIs == \A f : Referenced(f) <=> InUse(log, f)
BY ReferencedAtIs, LastOfIs DEF Referenced, InUse, Live

\* What the clean-up of event i leaves of a file that was there before it.
Settles(l, f, i) ==
    /\ l[i].type = "thread.deleted" => LastIn(l, "thread.created", l[i].thread) > i
    /\ l[i].type = "thread.reverted" => \E n \in i..Len(l) : RefersTo(l, n, l[i].thread, f)

Before(l, c, f, i) == l[i].thread = c[f].thread /\ c[f].at < i

\* No file of disk d that was claimed before event i is left without a reason.
Cleaned(l, c, d, i) == \A f \in d : Before(l, c, f, i) => Settles(l, f, i)

Extends(l, m) == Len(l) <= Len(m) /\ \A i \in 1..Len(l) : l[i] = m[i]

\* Files come to the disk only as new claims, and a claim keeps its thread.
OldOrNew(l, c, d, cc, dd) ==
    \A f \in dd : \/ f \in d /\ cc[f].thread = c[f].thread /\ cc[f].at = c[f].at
                  \/ cc[f].at = Len(l)

LEMMA RefersToStays ==
    ASSUME NEW l, NEW m, Extends(l, m), Len(l) \in Nat, NEW n \in 0..Len(l), NEW t, NEW f
    PROVE  RefersTo(l, n, t, f) <=> RefersTo(m, n, t, f)
<1>1. n \in Nat /\ \A i \in 1..n : l[i] = m[i]
  BY DEF Extends
<1>2. \A p : TableOf(l, p, n) = TableOf(m, p, n)
  BY <1>1, TableOfPrefix
<1> QED BY <1>2 DEF RefersTo

LEMMA SettlesStays ==
    ASSUME NEW l, IsLog(l), NEW m, IsLog(m), Extends(l, m), NEW i \in 1..Len(l), NEW f,
           Settles(l, f, i)
    PROVE  Settles(m, f, i)
<1>1. Len(l) \in Nat /\ Len(m) \in Nat /\ Len(l) <= Len(m) /\ l[i] = m[i]
  BY LenProperties DEF IsLog, Extends
<1>2. ASSUME m[i].type = "thread.deleted"
      PROVE  LastIn(m, "thread.created", m[i].thread) > i
  <2> DEFINE t == m[i].thread
  <2>1. LastIn(l, "thread.created", t) > i
    BY <1>1, <1>2 DEF Settles
  <2>2. LastIn(l, "thread.created", t) <= LastIn(m, "thread.created", t)
    BY LastGrows DEF Extends
  <2>3. LastIn(l, "thread.created", t) \in 0..Len(l) /\ LastIn(m, "thread.created", t) \in 0..Len(m)
    BY LastIs
  <2> QED BY <1>1, <2>1, <2>2, <2>3
<1>3. ASSUME m[i].type = "thread.reverted"
      PROVE  \E n \in i..Len(m) : RefersTo(m, n, m[i].thread, f)
  <2>1. PICK n \in i..Len(l) : RefersTo(l, n, l[i].thread, f)
    BY <1>1, <1>3 DEF Settles
  <2>2. n \in 0..Len(l) /\ n \in i..Len(m)
    BY <1>1
  <2>3. RefersTo(m, n, l[i].thread, f)
    BY <1>1, <2>1, <2>2, RefersToStays
  <2> QED BY <1>1, <2>2, <2>3
<1> QED BY <1>2, <1>3 DEF Settles

LEMMA CleanedStays ==
    ASSUME NEW l, IsLog(l), NEW m, IsLog(m), Extends(l, m),
           NEW c, NEW d, NEW cc, NEW dd, OldOrNew(l, c, d, cc, dd),
           NEW i \in 1..Len(l), Cleaned(l, c, d, i)
    PROVE  Cleaned(m, cc, dd, i)
<1>1. Len(l) \in Nat /\ l[i] = m[i]
  BY LenProperties DEF IsLog, Extends
<1> SUFFICES ASSUME NEW f \in dd, Before(m, cc, f, i) PROVE Settles(m, f, i)
  BY DEF Cleaned
<1>2. cc[f].at < i /\ ~(Len(l) < i)
  BY <1>1 DEF Before
<1>3. f \in d /\ cc[f].thread = c[f].thread /\ cc[f].at = c[f].at
  BY <1>2 DEF OldOrNew
<1>4. Before(l, c, f, i)
  BY <1>1, <1>3 DEF Before
<1>5. Settles(l, f, i)
  BY <1>3, <1>4 DEF Cleaned
<1> QED BY <1>5, SettlesStays

\* A later clean-up of the same kind does for an earlier one.
LEMMA LaterDoes ==
    ASSUME NEW l, IsLog(l), NEW c, NEW d, NEW i \in 1..Len(l), NEW k \in 1..Len(l), i <= k,
           l[k].type = l[i].type, l[k].thread = l[i].thread,
           \A f \in d : c[f].at \in Nat, Cleaned(l, c, d, k)
    PROVE  Cleaned(l, c, d, i)
<1>1. Len(l) \in Nat
  BY LenProperties DEF IsLog
<1> SUFFICES ASSUME NEW f \in d, Before(l, c, f, i) PROVE Settles(l, f, i)
  BY DEF Cleaned
<1>2. c[f].at \in Nat /\ c[f].at < i
  BY DEF Before
<1>3. Before(l, c, f, k)
  BY <1>1, <1>2 DEF Before
<1>4. Settles(l, f, k)
  BY <1>3 DEF Cleaned
<1>5. LastIn(l, "thread.created", l[i].thread) \in 0..Len(l)
  BY LastIs
<1>6. \A n \in k..Len(l) : n \in i..Len(l)
  BY <1>1
<1> QED BY <1>1, <1>4, <1>5, <1>6 DEF Settles

---------------------------------------------------------------------------
(* The invariant.                                                           *)

\* Thread t was created by one of the first n events.
CreatedBy(l, n, t) == \E i \in 1..n : l[i].type = "thread.created" /\ l[i].thread = t

LogInv ==
    /\ IsLog(log) /\ Len(log) <= MaxEvents
    /\ \A t \in Threads : CreatedBy(log, Len(log), t)

\* The tables say of a thread what the log says up to the cursor, once the
\* creation of the thread has been replayed.
TablesInv ==
    /\ cursors \in [Projectors -> 0..Len(log)]
    /\ process \in {"cleaning", "running"} => \A p \in Projectors : cursors[p] = Len(log)
    /\ \A p \in Projectors, t \in Threads :
         CreatedBy(log, cursors[p], t) => tables[p][t] = TableOf(log, p, cursors[p])[t]

\* A file on disk or in the log is claimed, the latter by its thread.
FilesInv ==
    /\ \A f \in disk : claims[f].status # "unused"
    /\ \A i \in 1..Len(log) : log[i].type \in Projectors =>
         /\ claims[log[i].file].status # "unused"
         /\ claims[log[i].file].thread = log[i].thread
    /\ \A f \in Files : claims[f].status # "unused" => claims[f].thread \in Threads

DropTypes == {"thread.reverted", "thread.deleted"}
DropEvents == {i \in 1..Len(log) : log[i].type \in DropTypes}

\* A clean-up works with every cursor at the end of the log.
WorkInv ==
    cleanup = NoCleanup \/ /\ cleanup.stage \in {"read", "list", "remove"}
                           /\ process \in {"cleaning", "running"}
                           /\ cleanup.sequence \in DropEvents

\* What it has read so far, of a log that stays as it is meanwhile.
ReadInv ==
    /\ cleanup.stage \in {"read", "list"} => cleanup.entries = {}
    /\ cleanup.stage = "read" => cleanup.kept = {}
    /\ cleanup.stage = "list" =>
         LET t == log[cleanup.sequence].thread
         IN  /\ log[cleanup.sequence].type = "thread.deleted" =>
                  cleanup.kept = {} /\ ~(LastIn(log, "thread.created", t) > cleanup.sequence)
             /\ log[cleanup.sequence].type = "thread.reverted" =>
                  \A f : f \in cleanup.kept <=> RefersTo(log, Len(log), t, f)

\* What it removes is not in use, and what it does not remove has a reason to stay.
RemovesInv ==
    cleanup.stage = "remove" =>
        /\ \A f \in cleanup.entries : ~InUse(log, f)
        /\ Cleaned(log, claims, disk \ cleanup.entries, cleanup.sequence)

\* Everything up to the cursor is cleaned up.  At start, of each thread the last
\* revert and the last deletion past the cursor are still to be done, under way
\* or done.
CursorInv ==
    /\ cleanupCursor \in 0..Len(log)
    /\ \A i \in 1..cleanupCursor : Cleaned(log, claims, disk, i)
    /\ pendingCleanup \subseteq DropEvents
    /\ process = "cleaning" =>
         \A i \in DropEvents : i > cleanupCursor /\ i = LastIn(log, log[i].type, log[i].thread) =>
           \/ i \in pendingCleanup
           \/ cleanup # NoCleanup /\ cleanup.sequence = i
           \/ Cleaned(log, claims, disk, i)

CleanupInv == WorkInv /\ ReadInv /\ RemovesInv
CleanInv == TypeOK /\ LogInv /\ TablesInv /\ FilesInv /\ CleanupInv /\ CursorInv

LEMMA NoCleanupIs ==
    /\ NoCleanup.stage = "none" /\ NoCleanup.sequence = 0
    /\ NoCleanup.kept = {} /\ NoCleanup.entries = {}
BY DEF NoCleanup

\* A clean-up begins.
LEMMA BeginIs ==
    ASSUME NEW n
    PROVE  [NoCleanup EXCEPT !.stage = "read", !.sequence = n] =
             [stage |-> "read", sequence |-> n, kept |-> {}, entries |-> {}]
<1> DEFINE a == [NoCleanup EXCEPT !.stage = "read"]
           b == [stage |-> "read", sequence |-> 0, kept |-> {}, entries |-> {}]
<1>1. a = b
  BY DEF NoCleanup
<1>2. [NoCleanup EXCEPT !.stage = "read", !.sequence = n] = [a EXCEPT !.sequence = n]
  OBVIOUS
<1>3. [b EXCEPT !.sequence = n] = [stage |-> "read", sequence |-> n, kept |-> {}, entries |-> {}]
  OBVIOUS
<1> QED BY <1>1, <1>2, <1>3

LEMMA LogIs ==
    ASSUME LogInv
    PROVE  IsLog(log) /\ Len(log) \in 0..MaxEvents /\ Len(log) \in Nat /\ Extends(log, log)
BY CleanupAssumption, LenProperties DEF LogInv, IsLog, Extends

LEMMA ClaimIs ==
    ASSUME TypeOK, NEW f \in Files
    PROVE  /\ claims[f] \in Claim /\ claims[f].at \in 0..MaxEvents /\ claims[f].at \in Nat
           /\ claims[f].status \in ClaimStatus
BY CleanupAssumption DEF TypeOK, Claim

\* A new status of a claim changes nothing else.
LEMMA NewStatus ==
    ASSUME TypeOK, NEW f \in Files, NEW s \in ClaimStatus,
           claims' = [claims EXCEPT ![f].status = s]
    PROVE  /\ claims' \in [Files -> Claim]
           /\ \A g \in Files : /\ claims'[g].thread = claims[g].thread
                               /\ claims'[g].at = claims[g].at
                               /\ claims'[g].status = (IF g = f THEN s ELSE claims[g].status)
<1>1. claims \in [Files -> Claim] /\ claims[f] \in Claim
  BY DEF TypeOK
<1>2. [claims[f] EXCEPT !.status = s] \in Claim
  BY <1>1 DEF Claim
<1>3. /\ [claims[f] EXCEPT !.status = s].thread = claims[f].thread
      /\ [claims[f] EXCEPT !.status = s].at = claims[f].at
      /\ [claims[f] EXCEPT !.status = s].status = s
  BY <1>1 DEF Claim
<1> DEFINE c == [claims[f] EXCEPT !.status = s]
<1> HIDE DEF c
<1>4. claims' = [claims EXCEPT ![f] = c]
  BY DEF c
<1> QED BY <1>1, <1>2, <1>3, <1>4 DEF c

\* What appending an event makes of the log.
LEMMA Appended ==
    ASSUME LogInv, NEW e, IsEvent(e), Len(log) < MaxEvents, log' = Append(log, e)
    PROVE  /\ LogInv' /\ Extends(log, log')
           /\ Len(log') = Len(log) + 1 /\ log'[Len(log) + 1] = e
           /\ \A i \in 1..Len(log) : log'[i] = log[i]
<1>1. log \in Seq(Event) /\ e \in Event /\ Len(log) \in Nat /\ MaxEvents \in Nat
  BY CleanupAssumption, LogIs DEF LogInv, IsLog, IsEvent
<1>2. /\ log' \in Seq(Event) /\ Len(log') = Len(log) + 1 /\ log'[Len(log) + 1] = e
      /\ \A i \in 1..Len(log) : log'[i] = log[i]
  BY <1>1, AppendProperties
<1>3. Extends(log, log')
  BY <1>1, <1>2 DEF Extends
<1>4. \A i \in 1..Len(log') : i \in 1..Len(log) \/ i = Len(log) + 1
  BY <1>1, <1>2
<1>5. IsLog(log')
  BY <1>2, <1>4 DEF IsLog, LogInv
<1>6. \A t \in Threads : CreatedBy(log', Len(log'), t)
  <2>1. \A i \in 1..Len(log) : i \in 1..Len(log')
    BY <1>1, <1>2
  <2> QED BY <1>2, <2>1 DEF CreatedBy, LogInv
<1>7. Len(log') <= MaxEvents
  BY <1>1, <1>2
<1> QED BY <1>2, <1>3, <1>5, <1>6, <1>7 DEF LogInv

\* With the cursors at the end the tables say what the log says.
LEMMA TablesCurrent ==
    ASSUME LogInv, TablesInv, process \in {"cleaning", "running"}, NEW p \in Projectors,
           NEW t \in Threads
    PROVE  tables[p][t] = TableOf(log, p, Len(log))[t]
BY DEF LogInv, TablesInv

\* A thread has no more turns than the log has events.
LEMMA TurnCountIs ==
    ASSUME LogInv, NEW t \in Threads
    PROVE  TurnCount(t) \in 0..Len(log)
<1>1. IsLog(log) /\ Len(log) \in Nat /\ Len(log) \in 0..Len(log) /\ "messages" \in Projectors
  BY LogIs DEF Projectors
<1>2. TurnCount(t) = Cardinality(TableOf(log, "messages", Len(log))[t])
  BY <1>1, TableAtIs DEF TurnCount, TablesAt
<1>3. Grounded(log, "messages", Len(log), TableOf(log, "messages", Len(log)))
  BY <1>1, RowsGrounded
<1>4. /\ IsFiniteSet(TableOf(log, "messages", Len(log))[t])
      /\ Cardinality(TableOf(log, "messages", Len(log))[t]) <= Len(log)
  BY <1>3 DEF Grounded
<1> QED BY <1>1, <1>2, <1>4, FS_CardinalityType

---------------------------------------------------------------------------
(* What several steps have in common.                                        *)

LEMMA CursorStays ==
    ASSUME CleanInv, IsLog(log'), Extends(log, log'),
           OldOrNew(log, claims, disk, claims', disk'),
           cleanupCursor' = cleanupCursor, pendingCleanup' \subseteq pendingCleanup,
           process' = "cleaning" =>
             /\ process = "cleaning" /\ log' = log
             /\ \A i \in pendingCleanup :
                  i \in pendingCleanup' \/ (cleanup' # NoCleanup /\ cleanup'.sequence = i)
             /\ cleanup # NoCleanup =>
                  \/ cleanup' # NoCleanup /\ cleanup'.sequence = cleanup.sequence
                  \/ Cleaned(log', claims', disk', cleanup.sequence)
    PROVE  CursorInv'
<1>1. /\ IsLog(log) /\ Len(log) \in Nat /\ Len(log') \in Nat /\ Len(log) <= Len(log')
      /\ \A i \in 1..Len(log) : log'[i] = log[i]
  BY LogIs, LenProperties DEF CleanInv, IsLog, Extends
<1>2. \A i \in 1..Len(log) : Cleaned(log, claims, disk, i) => Cleaned(log', claims', disk', i)
  BY <1>1, CleanedStays
<1>3. cleanupCursor' \in 0..Len(log')
  BY <1>1 DEF CleanInv, CursorInv
<1>4. \A i \in 1..cleanupCursor' : Cleaned(log', claims', disk', i)
  <2>1. \A i \in 1..cleanupCursor : i \in 1..Len(log)
    BY <1>1 DEF CleanInv, CursorInv
  <2> QED BY <1>2, <2>1 DEF CleanInv, CursorInv
<1>5. pendingCleanup' \subseteq DropEvents'
  <2>1. DropEvents \subseteq DropEvents'
    BY <1>1 DEF DropEvents
  <2> QED BY <2>1 DEF CleanInv, CursorInv
<1>6. ASSUME process' = "cleaning", NEW i \in DropEvents', i > cleanupCursor',
             i = LastIn(log', log'[i].type, log'[i].thread)
      PROVE  \/ i \in pendingCleanup' \/ (cleanup' # NoCleanup /\ cleanup'.sequence = i)
             \/ Cleaned(log', claims', disk', i)
  <2>1. i \in DropEvents /\ i \in 1..Len(log)
    BY <1>6 DEF DropEvents
  <2>2. \/ i \in pendingCleanup
        \/ cleanup # NoCleanup /\ cleanup.sequence = i
        \/ Cleaned(log, claims, disk, i)
    BY <1>6, <2>1 DEF CleanInv, CursorInv
  <2> QED BY <1>2, <1>6, <2>1, <2>2
<1> QED BY <1>3, <1>4, <1>5, <1>6 DEF CursorInv

\* A request's step on its file, beside whatever clean-up is under way.
LEMMA RequestKeeps ==
    ASSUME CleanInv, TypeOK', FilesInv', OldOrNew(log, claims, disk, claims', disk'),
           UNCHANGED <<log, tables, cursors, cleanupCursor, process, pendingCleanup, cleanup>>
    PROVE  CleanInv'
<1>1. IsLog(log) /\ Extends(log, log)
  BY LogIs DEF CleanInv
<1>2. LogInv' /\ TablesInv' /\ WorkInv' /\ ReadInv'
  BY DEF CleanInv, LogInv, TablesInv, CleanupInv, WorkInv, ReadInv, DropEvents
<1>3. RemovesInv'
  <2> SUFFICES ASSUME cleanup.stage = "remove"
               PROVE  /\ \A f \in cleanup.entries : ~InUse(log, f)
                      /\ Cleaned(log, claims', disk' \ cleanup.entries, cleanup.sequence)
    BY DEF RemovesInv
  <2>1. cleanup.sequence \in 1..Len(log)
    BY NoCleanupIs DEF CleanInv, CleanupInv, WorkInv, DropEvents
  <2>2. /\ \A f \in cleanup.entries : ~InUse(log, f)
        /\ Cleaned(log, claims, disk \ cleanup.entries, cleanup.sequence)
    BY DEF CleanInv, CleanupInv, RemovesInv
  <2>3. OldOrNew(log, claims, disk \ cleanup.entries, claims', disk' \ cleanup.entries)
    BY DEF OldOrNew
  <2> QED BY <1>1, <2>1, <2>2, <2>3, CleanedStays
<1>4. CursorInv'
  BY <1>1, CursorStays DEF CleanInv
<1> QED BY <1>2, <1>3, <1>4 DEF CleanInv, CleanupInv

\* A step of a clean-up, or of the start, which leaves the log, the tables and
\* the claims and adds no file.
LEMMA SameWorld ==
    ASSUME CleanInv, UNCHANGED <<log, tables, cursors, claims>>, disk' \subseteq disk,
           process' \in {"cleaning", "running"} =>
             \A p \in Projectors : cursors[p] = Len(log)
    PROVE  /\ LogInv' /\ TablesInv' /\ FilesInv' /\ IsLog(log') /\ Extends(log, log')
           /\ OldOrNew(log, claims, disk, claims', disk') /\ DropEvents' = DropEvents
<1>1. LogInv' /\ FilesInv' /\ OldOrNew(log, claims, disk, claims', disk')
  BY DEF CleanInv, LogInv, FilesInv, OldOrNew
<1>2. TablesInv'
  BY DEF CleanInv, TablesInv
<1>3. IsLog(log') /\ Extends(log, log') /\ DropEvents' = DropEvents
  BY LogIs DEF CleanInv, DropEvents
<1> QED BY <1>1, <1>2, <1>3

---------------------------------------------------------------------------
(* The requests.                                                            *)

LEMMA ClaimFileKeeps ==
    ASSUME CleanInv, NEW f \in Files, NEW t \in Threads, ClaimFile(f, t)
    PROVE  CleanInv'
<1> DEFINE c == [status |-> "claimed", thread |-> t, at |-> Len(log)]
<1>1. /\ claims[f].status = "unused" /\ claims' = [claims EXCEPT ![f] = c]
      /\ disk' = disk \cup {f} /\ claims \in [Files -> Claim] /\ disk \subseteq Files
      /\ UNCHANGED <<log, tables, cursors, cleanupCursor, process, pendingCleanup, cleanup,
                     faults, crashes>>
  BY DEF ClaimFile, dbVars, CleanInv, TypeOK
<1>2. Len(log) \in 0..MaxEvents /\ c \in Claim
  BY LogIs DEF CleanInv, Claim, ClaimStatus
<1>3. TypeOK'
  <2>1. claims' \in [Files -> Claim] /\ disk' \subseteq Files
    BY <1>1, <1>2
  <2> QED BY <1>1, <2>1 DEF CleanInv, TypeOK
<1>4. \A g \in Files : claims'[g] = (IF g = f THEN c ELSE claims[g])
  BY <1>1
<1>5. c.status # "unused" /\ c.at = Len(log) /\ c.thread \in Threads
  OBVIOUS
<1> HIDE DEF c
<1>6. FilesInv'
  <2>1. \A i \in 1..Len(log) : log[i].type \in Projectors => log[i].file \in Files /\ log[i].file # f
    BY <1>1 DEF CleanInv, LogInv, IsLog, IsEvent, FilesInv
  <2> QED BY <1>1, <1>4, <1>5, <2>1 DEF CleanInv, FilesInv
<1>7. OldOrNew(log, claims, disk, claims', disk')
  BY <1>1, <1>4, <1>5 DEF OldOrNew
<1> QED BY <1>1, <1>3, <1>6, <1>7, RequestKeeps

\* A claim fails or is over, and its file may go.
LEMMA StatusKeeps ==
    ASSUME CleanInv, NEW f \in Files, claims[f].status # "unused",
           NEW s \in ClaimStatus \ {"unused"},
           claims' = [claims EXCEPT ![f].status = s], disk' \subseteq disk,
           faults' \in 0..MaxFaults,
           UNCHANGED <<log, tables, cursors, cleanupCursor, process, pendingCleanup, cleanup,
                       crashes>>
    PROVE  CleanInv'
<1>1. /\ claims' \in [Files -> Claim]
      /\ \A g \in Files : /\ claims'[g].thread = claims[g].thread
                          /\ claims'[g].at = claims[g].at
                          /\ claims'[g].status = (IF g = f THEN s ELSE claims[g].status)
  BY NewStatus DEF CleanInv
<1>2. disk \subseteq Files
  BY DEF CleanInv, TypeOK
<1>3. TypeOK'
  BY <1>1, <1>2 DEF CleanInv, TypeOK
<1>4. FilesInv'
  <2>1. \A i \in 1..Len(log) : log[i].type \in Projectors => log[i].file \in Files
    BY DEF CleanInv, LogInv, IsLog, IsEvent
  <2>2. \A g \in Files : claims[g].status # "unused" => claims'[g].status # "unused"
    BY <1>1
  <2>3. \A g \in Files : claims'[g].status # "unused" => claims[g].thread \in Threads
    BY <1>1 DEF CleanInv, FilesInv
  <2> QED BY <1>1, <1>2, <2>1, <2>2, <2>3 DEF CleanInv, FilesInv
<1>5. OldOrNew(log, claims, disk, claims', disk')
  BY <1>1, <1>2 DEF OldOrNew
<1> QED BY <1>3, <1>4, <1>5, RequestKeeps

LEMMA FaultCounts ==
    ASSUME TypeOK, faults < MaxFaults, faults' = faults + 1
    PROVE  faults' \in 0..MaxFaults
BY CleanupAssumption DEF TypeOK

LEMMA RemoveClaimKeeps ==
    ASSUME CleanInv, NEW f \in Files, RemoveClaim(f)
    PROVE  CleanInv'
<1>1. "over" \in ClaimStatus \ {"unused"}
  BY DEF ClaimStatus
<1>2. /\ claims' = [claims EXCEPT ![f].status = "over"] /\ disk' \subseteq disk
      /\ UNCHANGED <<log, tables, cursors, cleanupCursor, process, pendingCleanup, cleanup,
                     crashes>>
      /\ faults' \in 0..MaxFaults
  BY DEF RemoveClaim, dbVars, CleanInv, TypeOK
<1>3. claims[f].status # "unused"
  BY DEF RemoveClaim
<1> QED BY <1>1, <1>2, <1>3, StatusKeeps

LEMMA RefuseClaimKeeps ==
    ASSUME CleanInv, NEW f \in Files, RefuseClaim(f)
    PROVE  CleanInv'
<1>1. "failed" \in ClaimStatus \ {"unused"}
  BY DEF ClaimStatus
<1>2. /\ claims' = [claims EXCEPT ![f].status = "failed"] /\ disk' \subseteq disk
      /\ UNCHANGED <<log, tables, cursors, cleanupCursor, process, pendingCleanup, cleanup,
                     crashes>>
  BY DEF RefuseClaim, dbVars
<1>3. faults' \in 0..MaxFaults /\ claims[f].status # "unused"
  BY FaultCounts DEF RefuseClaim, CleanInv
<1> QED BY <1>1, <1>2, <1>3, StatusKeeps

---------------------------------------------------------------------------
(* The engine.                                                              *)

\* With an event the tables move as the log says.
LEMMA TablesMove ==
    ASSUME CleanInv, Ready, NEW e, IsEvent(e), AppendEvent(e)
    PROVE  /\ tables' \in [Projectors -> [Threads -> SUBSET Ref]]
           /\ TablesInv'
<1>1. /\ process = "running" /\ Len(log) < MaxEvents /\ log' = Append(log, e)
      /\ tables' = ProjectAll(e) /\ cursors' = [p \in Projectors |-> Len(log) + 1]
      /\ process' = process
  BY DEF Ready, AppendEvent
<1>2. /\ LogInv' /\ Extends(log, log') /\ Len(log') = Len(log) + 1 /\ log'[Len(log) + 1] = e
      /\ IsLog(log) /\ Len(log) \in Nat /\ Len(log) \in 0..Len(log)
  BY <1>1, Appended, LogIs DEF CleanInv
<1>3. \A p \in Projectors :
        /\ tables[p] \in [Threads -> SUBSET Ref]
        /\ tables'[p] = Project(p, tables[p], e)
        /\ tables'[p] \in [Threads -> SUBSET Ref]
  BY <1>1, ProjectIs DEF ProjectAll, CleanInv, TypeOK, Ref
<1>4. tables' \in [Projectors -> [Threads -> SUBSET Ref]]
  BY <1>1, <1>3 DEF ProjectAll
<1>5. ASSUME NEW p \in Projectors, NEW t \in Threads
      PROVE  tables'[p][t] = TableOf(log', p, Len(log) + 1)[t]
  <2>1. tables[p][t] = TableOf(log, p, Len(log))[t]
    BY <1>1, TablesCurrent DEF CleanInv
  <2>2. TableOf(log, p, Len(log)) = TableOf(log', p, Len(log))
    BY <1>2, TableOfPrefix DEF Extends
  <2>3. TableOf(log, p, Len(log)) \in [Threads -> SUBSET Ref]
    BY <1>2, RowsGrounded DEF Grounded
  <2>4. TableOf(log', p, Len(log) + 1) = Project(p, TableOf(log', p, Len(log)), log'[Len(log) + 1])
    BY <1>2, TableOfSteps
  <2>5. Project(p, tables[p], e)[t] = Project(p, TableOf(log, p, Len(log)), e)[t]
    BY <1>3, <2>1, <2>3, ProjectsByThread
  <2> QED BY <1>2, <1>3, <2>2, <2>4, <2>5
<1>6. TablesInv'
  <2>1. Len(log) + 1 \in 0..Len(log')
    BY <1>2
  <2>2. \A p \in Projectors : cursors'[p] = Len(log) + 1
    BY <1>1
  <2> QED BY <1>1, <1>2, <1>5, <2>1, <2>2 DEF TablesInv
<1> QED BY <1>4, <1>6

LEMMA AppendKeeps ==
    ASSUME CleanInv, Ready, NEW e, IsEvent(e), AppendEvent(e), faults' \in 0..MaxFaults,
           claims' \in [Files -> Claim],
           \A g \in Files : /\ claims'[g].thread = claims[g].thread
                            /\ claims'[g].at = claims[g].at
                            /\ claims[g].status = "unused" <=> claims'[g].status = "unused",
           e.type \in Projectors =>
             claims[e.file].thread = e.thread /\ claims[e.file].status # "unused",
           \/ cleanup' = NoCleanup
           \/ /\ e.type \in DropTypes
              /\ cleanup' = [NoCleanup EXCEPT !.stage = "read", !.sequence = Len(log) + 1]
    PROVE  CleanInv'
<1>1. /\ process = "running" /\ Len(log) < MaxEvents /\ log' = Append(log, e)
      /\ cleanup = NoCleanup /\ cursors' = [p \in Projectors |-> Len(log) + 1]
      /\ UNCHANGED <<cleanupCursor, disk, process, pendingCleanup, crashes>>
  BY DEF Ready, AppendEvent
<1>2. /\ LogInv' /\ Extends(log, log') /\ Len(log') = Len(log) + 1 /\ log'[Len(log) + 1] = e
      /\ \A i \in 1..Len(log) : log'[i] = log[i]
      /\ Len(log) \in Nat /\ IsLog(log) /\ Len(log) + 1 \in 0..MaxEvents
  BY <1>1, Appended, LogIs, CleanupAssumption DEF CleanInv
<1>3. TablesInv' /\ tables' \in [Projectors -> [Threads -> SUBSET Ref]]
  BY TablesMove
<1>4. /\ cleanup'.stage \in {"none", "read"} /\ cleanup'.sequence \in {0, Len(log) + 1}
      /\ cleanup'.kept = {} /\ cleanup'.entries = {}
      /\ cleanup' \in [stage : {"none", "read", "list", "remove"}, sequence : 0..MaxEvents,
                       kept : SUBSET Files, entries : SUBSET Files]
      /\ cleanup' # NoCleanup =>
           cleanup'.stage = "read" /\ cleanup'.sequence = Len(log) + 1 /\ e.type \in DropTypes
  <2> DEFINE n == Len(log) + 1
             w == [NoCleanup EXCEPT !.stage = "read", !.sequence = n]
  <2>1. 0 \in 0..MaxEvents /\ n \in 0..MaxEvents
    BY <1>2, CleanupAssumption
  <2> HIDE DEF n
  <2>2. w = [stage |-> "read", sequence |-> n, kept |-> {}, entries |-> {}]
    BY BeginIs
  <2>3. CASE cleanup' = NoCleanup
    BY <2>1, <2>3 DEF NoCleanup
  <2>4. CASE e.type \in DropTypes /\ cleanup' = w
    BY <2>1, <2>2, <2>4 DEF n
  <2> QED BY <2>3, <2>4 DEF n
<1>5. TypeOK'
  <2>1. log' \in Seq(Event)
    BY <1>2 DEF LogInv, IsLog
  <2>2. cursors' \in [Projectors -> 0..MaxEvents]
    BY <1>1, <1>2
  <2>3. tables' \in [Projectors -> [Threads -> SUBSET [file : Files, turn : 0..MaxEvents]]]
    BY <1>3 DEF Ref
  <2> QED BY <1>1, <1>4, <2>1, <2>2, <2>3 DEF CleanInv, TypeOK
<1>6. \A i \in 1..Len(log') : i \in 1..Len(log) \/ i = Len(log) + 1
  BY <1>2
<1>7. FilesInv'
  <2>1. \A f \in disk : f \in Files /\ claims'[f].status # "unused"
    BY DEF CleanInv, TypeOK, FilesInv
  <2>2. \A i \in 1..Len(log) : log[i].type \in Projectors => log[i].file \in Files
    BY <1>2 DEF IsLog, IsEvent
  <2>3. e.type \in Projectors => e.file \in Files
    BY DEF IsEvent
  <2>4. \A i \in 1..Len(log') : log'[i].type \in Projectors =>
          /\ claims'[log'[i].file].status # "unused"
          /\ claims'[log'[i].file].thread = log'[i].thread
    BY <1>2, <1>6, <2>2, <2>3 DEF CleanInv, FilesInv
  <2>5. \A f \in Files : claims'[f].status # "unused" => claims'[f].thread \in Threads
    BY DEF CleanInv, FilesInv
  <2> QED BY <1>1, <2>1, <2>4, <2>5 DEF FilesInv
<1>8. CleanupInv'
  <2>1. WorkInv'
    <3>1. e.type \in DropTypes => Len(log) + 1 \in DropEvents'
      BY <1>2 DEF DropEvents
    <3> QED BY <1>1, <1>4, <3>1 DEF WorkInv
  <2>2. ReadInv' /\ RemovesInv'
    BY <1>4 DEF ReadInv, RemovesInv
  <2> QED BY <2>1, <2>2 DEF CleanupInv
<1>9. CursorInv'
  <2>1. OldOrNew(log, claims, disk, claims', disk')
    BY <1>1 DEF OldOrNew, CleanInv, TypeOK
  <2>2. IsLog(log')
    BY <1>2 DEF LogInv
  <2> QED BY <1>1, <1>2, <2>1, <2>2, CursorStays
<1> QED BY <1>2, <1>3, <1>5, <1>7, <1>8, <1>9 DEF CleanInv

LEMMA CommitClaimKeeps ==
    ASSUME CleanInv, NEW f \in Files, NEW kind \in Projectors, CommitClaim(f, kind)
    PROVE  CleanInv'
<1> DEFINE t == claims[f].thread
           turn == IF kind = "messages" THEN TurnCount(t) + 1 ELSE TurnCount(t)
           e == [type |-> kind, thread |-> t, file |-> f, turn |-> turn]
<1>1. /\ Ready /\ claims[f].status = "claimed" /\ AppendEvent(e) /\ cleanup' = cleanup
      /\ cleanup = NoCleanup /\ Len(log) < MaxEvents
  BY DEF CommitClaim, Ready
<1>2. t \in Threads
  BY <1>1 DEF CleanInv, FilesInv
<1>3. Len(log) \in Nat /\ MaxEvents \in Nat
  BY CleanupAssumption, LogIs DEF CleanInv
<1>4. TurnCount(t) \in 0..Len(log)
  BY <1>2, TurnCountIs DEF CleanInv
<1>5. turn \in 0..MaxEvents
  BY <1>1, <1>3, <1>4
<1>6. IsEvent(e) /\ e.type = kind /\ e.file = f /\ e.thread = t
  <2>1. kind \in EventTypes
    BY DEF Projectors, EventTypes
  <2> QED BY <1>2, <1>5, <2>1 DEF IsEvent, Event
<1>7. CASE claims' = [claims EXCEPT ![f].status = "committed"] /\ faults' = faults
  <2>1. "committed" \in ClaimStatus /\ faults' \in 0..MaxFaults
    BY <1>7 DEF ClaimStatus, CleanInv, TypeOK
  <2>2. /\ claims' \in [Files -> Claim]
        /\ \A g \in Files : /\ claims'[g].thread = claims[g].thread
                            /\ claims'[g].at = claims[g].at
                            /\ claims[g].status = "unused" <=> claims'[g].status = "unused"
    <3>1. /\ claims' \in [Files -> Claim]
          /\ \A g \in Files :
               /\ claims'[g].thread = claims[g].thread /\ claims'[g].at = claims[g].at
               /\ claims'[g].status = (IF g = f THEN "committed" ELSE claims[g].status)
      BY <1>7, <2>1, NewStatus DEF CleanInv
    <3> QED BY <1>1, <3>1
  <2> HIDE DEF e, t
  <2> QED BY <1>1, <1>6, <2>1, <2>2, AppendKeeps DEF t
<1>8. CASE claims' = [claims EXCEPT ![f].status = "failed"] /\ faults' \in 0..MaxFaults
  <2>1. "failed" \in ClaimStatus
    BY DEF ClaimStatus
  <2>2. /\ claims' \in [Files -> Claim]
        /\ \A g \in Files : /\ claims'[g].thread = claims[g].thread
                            /\ claims'[g].at = claims[g].at
                            /\ claims[g].status = "unused" <=> claims'[g].status = "unused"
    <3>1. /\ claims' \in [Files -> Claim]
          /\ \A g \in Files :
               /\ claims'[g].thread = claims[g].thread /\ claims'[g].at = claims[g].at
               /\ claims'[g].status = (IF g = f THEN "failed" ELSE claims[g].status)
      BY <1>8, <2>1, NewStatus DEF CleanInv
    <3> QED BY <1>1, <3>1
  <2> HIDE DEF e, t
  <2> QED BY <1>1, <1>6, <1>8, <2>2, AppendKeeps DEF t
<1>9. \/ claims' = [claims EXCEPT ![f].status = "committed"] /\ faults' = faults
      \/ claims' = [claims EXCEPT ![f].status = "failed"] /\ faults' \in 0..MaxFaults
  BY FaultCounts DEF CommitClaim, CleanInv
<1> QED BY <1>7, <1>8, <1>9

LEMMA ThreadEventKeeps ==
    ASSUME CleanInv, NEW type \in {"thread.created", "thread.deleted", "thread.reverted"},
           NEW t \in Threads, NEW turn \in 0..MaxEvents, NEW drops \in BOOLEAN,
           drops => type \in DropTypes, CommitThreadEvent(ThreadEvent(type, t, turn), drops)
    PROVE  CleanInv'
<1> DEFINE e == ThreadEvent(type, t, turn)
<1>1. Ready /\ AppendEvent(e) /\ cleanup = NoCleanup /\ claims' = claims
  BY DEF CommitThreadEvent, Ready
<1>2. IsEvent(e) /\ e.type = type /\ e.type \notin Projectors
  <2>1. type \in EventTypes /\ type \notin Projectors
    BY DEF Projectors, EventTypes
  <2> QED BY <2>1 DEF IsEvent, Event, ThreadEvent
<1>3. faults' \in 0..MaxFaults
  BY FaultCounts DEF CommitThreadEvent, CleanInv, TypeOK
<1>4. \/ cleanup' = NoCleanup
      \/ drops /\ cleanup' = [NoCleanup EXCEPT !.stage = "read", !.sequence = Len(log) + 1]
  BY <1>1 DEF CommitThreadEvent
<1>5. claims' \in [Files -> Claim]
  BY <1>1 DEF CleanInv, TypeOK
<1> HIDE DEF e
<1> QED BY <1>1, <1>2, <1>3, <1>4, <1>5, AppendKeeps

LEMMA ThreadCommandKeeps ==
    ASSUME CleanInv, NEW t \in Threads, Create(t) \/ Delete(t) \/ Revert(t)
    PROVE  CleanInv'
<1>1. 0 \in 0..MaxEvents /\ TRUE \in BOOLEAN /\ FALSE \in BOOLEAN
  BY CleanupAssumption
<1>2. CASE Create(t)
  BY <1>1, <1>2, ThreadEventKeeps DEF Create, DropTypes
<1>3. CASE Delete(t)
  BY <1>1, <1>3, ThreadEventKeeps DEF Delete, DropTypes
<1>4. CASE Revert(t)
  <2>1. PICK keep \in 0..TurnCount(t) :
          LET e == ThreadEvent("thread.reverted", t, keep)
          IN  CommitThreadEvent(e, ProjectAll(e) # tables)
    BY <1>4 DEF Revert
  <2>2. keep \in 0..MaxEvents
    <3>1. /\ TurnCount(t) \in Nat /\ TurnCount(t) <= Len(log)
          /\ Len(log) \in Nat /\ Len(log) <= MaxEvents /\ MaxEvents \in Nat
      BY CleanupAssumption, TurnCountIs, LogIs DEF CleanInv
    <3>2. keep \in Nat /\ keep <= TurnCount(t)
      BY <2>1, <3>1
    <3> QED BY <3>1, <3>2
  <2> DEFINE drops == ProjectAll(ThreadEvent("thread.reverted", t, keep)) # tables
  <2>3. drops \in BOOLEAN
    OBVIOUS
  <2>4. CommitThreadEvent(ThreadEvent("thread.reverted", t, keep), drops)
    BY <2>1
  <2> HIDE DEF drops
  <2> QED BY <2>2, <2>3, <2>4, ThreadEventKeeps DEF DropTypes
<1> QED BY <1>2, <1>3, <1>4

---------------------------------------------------------------------------
(* The clean-up.                                                            *)

CleanupType == [stage : {"none", "read", "list", "remove"}, sequence : 0..MaxEvents,
                kept : SUBSET Files, entries : SUBSET Files]

\* Where a clean-up under way stands.
LEMMA UnderWay ==
    ASSUME CleanInv, cleanup.stage # "none"
    PROVE  /\ cleanup # NoCleanup /\ cleanup.stage \in {"read", "list", "remove"}
           /\ cleanup.sequence \in DropEvents /\ cleanup.sequence \in 1..Len(log)
           /\ cleanup \in CleanupType /\ event.thread \in Threads
           /\ process \in {"cleaning", "running"} /\ \A p \in Projectors : cursors[p] = Len(log)
           /\ event.type \in DropTypes
<1>1. /\ cleanup # NoCleanup /\ cleanup.stage \in {"read", "list", "remove"}
      /\ cleanup.sequence \in DropEvents /\ process \in {"cleaning", "running"}
  BY NoCleanupIs DEF CleanInv, CleanupInv, WorkInv
<1>2. /\ cleanup.sequence \in 1..Len(log) /\ event.type \in DropTypes
  BY <1>1 DEF DropEvents, event
<1>3. event.thread \in Threads
  BY <1>2 DEF CleanInv, LogInv, IsLog, IsEvent, Event, event
<1>4. \A p \in Projectors : cursors[p] = Len(log)
  BY <1>1 DEF CleanInv, TablesInv
<1>5. cleanup \in CleanupType
  BY DEF CleanInv, TypeOK, CleanupType
<1> QED BY <1>1, <1>2, <1>3, <1>4, <1>5

\* The clean-up goes on with the same event.
LEMMA GoesOn ==
    ASSUME CleanInv, cleanup.stage # "none", cleanup' \in CleanupType, disk' \subseteq disk,
           cleanup'.sequence = cleanup.sequence, cleanup'.stage \in {"list", "remove"},
           ReadInv', RemovesInv',
           UNCHANGED <<log, tables, cursors, cleanupCursor, process, pendingCleanup, claims,
                       faults, crashes>>
    PROVE  CleanInv'
<1>1. /\ cleanup # NoCleanup /\ cleanup.sequence \in DropEvents
      /\ process \in {"cleaning", "running"} /\ \A p \in Projectors : cursors[p] = Len(log)
  BY UnderWay
<1>2. TypeOK'
  BY DEF CleanInv, TypeOK, CleanupType
<1>3. /\ LogInv' /\ TablesInv' /\ FilesInv' /\ IsLog(log') /\ Extends(log, log')
      /\ OldOrNew(log, claims, disk, claims', disk') /\ DropEvents' = DropEvents
  BY <1>1, SameWorld
<1>4. cleanup' # NoCleanup
  BY NoCleanupIs
<1>5. WorkInv'
  BY <1>1, <1>3 DEF WorkInv
<1>6. CursorInv'
  BY <1>3, <1>4, CursorStays
<1> QED BY <1>2, <1>3, <1>5, <1>6 DEF CleanInv, CleanupInv

LEMMA ReadReferencesKeeps ==
    ASSUME CleanInv, ReadReferences
    PROVE  CleanInv'
<1> DEFINE t == event.thread
           s == cleanup.sequence
<1>1. /\ cleanup.stage = "read" /\ cleanup.stage # "none" /\ disk' \subseteq disk
      /\ UNCHANGED <<log, tables, cursors, cleanupCursor, disk, process, pendingCleanup, claims,
                     faults, crashes>>
  BY DEF ReadReferences, dbVars
<1>2. /\ cleanup \in CleanupType /\ t \in Threads /\ process \in {"cleaning", "running"}
      /\ s \in 1..Len(log) /\ event = log[s] /\ event.type \in DropTypes
  BY <1>1, UnderWay DEF event
<1>3. cleanup.kept = {} /\ cleanup.entries = {}
  BY <1>1 DEF CleanInv, CleanupInv, ReadInv
<1>4. \A f : f \in RetainedPaths(t) <=> RefersTo(log, Len(log), t, f)
  <2>1. \A p \in Projectors : tables[p][t] = TableOf(log, p, Len(log))[t]
    BY <1>2, TablesCurrent DEF CleanInv
  <2> QED BY <2>1, FilesAre DEF RetainedPaths, RefersTo
<1>5. RetainedPaths(t) \subseteq Files
  <2>1. \A p \in Projectors : \A r \in tables[p][t] : r.file \in Files
    BY <1>2 DEF CleanInv, TypeOK
  <2> QED BY <2>1, FilesAre DEF RetainedPaths
<1>6. CASE event.type = "thread.deleted"
  <2>1. /\ cleanup' \in CleanupType /\ cleanup'.kept = {} /\ cleanup'.entries = {}
        /\ cleanup'.sequence = s
        /\ cleanup'.stage = IF RecreatedLater(t, s) THEN "remove" ELSE "list"
    BY <1>1, <1>2, <1>3, <1>6 DEF ReadReferences, CleanupType
  <2>2. RecreatedLater(t, s) <=> LastIn(log, "thread.created", t) > s
    BY LastOfIs DEF RecreatedLater
  <2>3. ReadInv'
    BY <1>1, <1>2, <1>6, <2>1, <2>2 DEF ReadInv
  <2>4. RemovesInv'
    <3>1. cleanup'.stage = "remove" => \A f : Settles(log, f, s)
      BY <1>2, <1>6, <2>1, <2>2 DEF Settles
    <3> QED BY <1>1, <2>1, <3>1 DEF RemovesInv, Cleaned
  <2>5. cleanup'.stage \in {"list", "remove"}
    BY <2>1
  <2> QED BY <1>1, <2>1, <2>3, <2>4, <2>5, GoesOn
<1>7. CASE event.type # "thread.deleted"
  <2>1. /\ cleanup' \in CleanupType /\ cleanup'.kept = RetainedPaths(t) /\ cleanup'.entries = {}
        /\ cleanup'.sequence = s /\ cleanup'.stage = "list"
    <3> DEFINE k == RetainedPaths(t)
    <3>1. cleanup' = [cleanup EXCEPT !.stage = "list", !.kept = k] /\ k \in SUBSET Files
      BY <1>1, <1>5, <1>7 DEF ReadReferences
    <3> HIDE DEF k
    <3>2. /\ cleanup' \in CleanupType /\ cleanup'.kept = k /\ cleanup'.entries = {}
          /\ cleanup'.sequence = s /\ cleanup'.stage = "list"
      BY <1>2, <1>3, <3>1 DEF CleanupType
    <3> QED BY <3>2 DEF k
  <2>2. ReadInv'
    BY <1>1, <1>2, <1>4, <1>7, <2>1 DEF ReadInv, DropTypes
  <2>3. RemovesInv'
    BY <2>1 DEF RemovesInv
  <2> QED BY <1>1, <2>1, <2>2, <2>3, GoesOn
<1> QED BY <1>6, <1>7

\* A file of a thread is in use only by that thread.
LEMMA UsedByItsThread ==
    ASSUME CleanInv, NEW f, NEW t \in Threads, RefersTo(log, Len(log), t, f)
    PROVE  claims[f].thread = t
<1>1. IsLog(log) /\ Len(log) \in 0..Len(log) /\ Len(log) \in Nat
  BY LogIs DEF CleanInv
<1>2. PICK p \in Projectors : \E r \in TableOf(log, p, Len(log))[t] : r.file = f
  BY DEF RefersTo
<1>3. Grounded(log, p, Len(log), TableOf(log, p, Len(log)))
  BY <1>1, RowsGrounded
<1>4. PICK i \in 1..Len(log) : log[i].type = p /\ log[i].thread = t /\ log[i].file = f
  BY <1>2, <1>3 DEF Grounded
<1> QED BY <1>2, <1>4 DEF CleanInv, FilesInv

LEMMA ListDirectoryKeeps ==
    ASSUME CleanInv, ListDirectory
    PROVE  CleanInv'
<1> DEFINE t == event.thread
           s == cleanup.sequence
           E == {f \in disk : claims[f].thread = t} \ cleanup.kept
<1>1. /\ cleanup.stage = "list" /\ cleanup.stage # "none" /\ disk' \subseteq disk
      /\ cleanup' = [cleanup EXCEPT !.stage = "remove", !.entries = E]
      /\ UNCHANGED <<log, tables, cursors, cleanupCursor, disk, process, pendingCleanup, claims,
                     faults, crashes>>
  BY DEF ListDirectory, dbVars
<1>2. /\ cleanup \in CleanupType /\ t \in Threads /\ s \in 1..Len(log) /\ event = log[s]
      /\ event.type \in DropTypes /\ IsLog(log) /\ Len(log) \in Nat
  BY <1>1, UnderWay, LogIs DEF event, CleanInv
<1>3. /\ event.type = "thread.deleted" =>
           cleanup.kept = {} /\ ~(LastIn(log, "thread.created", t) > s)
      /\ event.type = "thread.reverted" =>
           \A f : f \in cleanup.kept <=> RefersTo(log, Len(log), t, f)
  BY <1>1, <1>2 DEF CleanInv, CleanupInv, ReadInv
<1>4. \A f \in E : ~InUse(log, f)
  <2> SUFFICES ASSUME NEW f \in E, NEW u \in Threads,
                      LastIn(log, "thread.created", u) > LastIn(log, "thread.deleted", u),
                      RefersTo(log, Len(log), u, f)
               PROVE  FALSE
    BY DEF InUse
  <2>1. u = t
    BY <1>2, UsedByItsThread
  <2>2. CASE event.type = "thread.reverted"
    BY <1>3, <2>1, <2>2
  <2>3. CASE event.type = "thread.deleted"
    <3>1. s <= LastIn(log, "thread.deleted", t)
      BY <1>2, <2>3, LastIs
    <3>2. /\ LastIn(log, "thread.deleted", t) \in 0..Len(log)
          /\ LastIn(log, "thread.created", t) \in 0..Len(log)
      BY <1>2, LastIs
    <3> QED BY <1>2, <1>3, <2>1, <2>3, <3>1, <3>2
  <2> QED BY <1>2, <2>2, <2>3 DEF DropTypes
<1>5. Cleaned(log, claims, disk \ E, s)
  <2> SUFFICES ASSUME NEW f \in disk \ E, Before(log, claims, f, s)
               PROVE  Settles(log, f, s)
    BY DEF Cleaned
  <2>1. f \in cleanup.kept
    BY <1>2 DEF Before
  <2>2. event.type = "thread.reverted" /\ RefersTo(log, Len(log), t, f)
    BY <1>2, <1>3, <2>1 DEF DropTypes
  <2>3. Len(log) \in s..Len(log)
    BY <1>2
  <2> QED BY <1>2, <2>2, <2>3 DEF Settles
<1>6. E \subseteq Files
  BY DEF CleanInv, TypeOK
<1> HIDE DEF E
<1>7. /\ cleanup' \in CleanupType /\ cleanup'.stage = "remove" /\ cleanup'.entries = E
      /\ cleanup'.sequence = s
  BY <1>1, <1>2, <1>6 DEF CleanupType
<1>8. ReadInv' /\ RemovesInv'
  BY <1>1, <1>4, <1>5, <1>7 DEF ReadInv, RemovesInv
<1> QED BY <1>1, <1>7, <1>8, GoesOn

LEMMA RemoveEntryKeeps ==
    ASSUME CleanInv, NEW f \in Files, RemoveEntry(f)
    PROVE  CleanInv'
<1>1. /\ cleanup.stage = "remove" /\ cleanup.stage # "none" /\ disk' = disk \ {f}
      /\ disk' \subseteq disk /\ cleanup' = [cleanup EXCEPT !.entries = cleanup.entries \ {f}]
      /\ UNCHANGED <<log, tables, cursors, cleanupCursor, process, pendingCleanup, claims,
                     faults, crashes>>
  BY DEF RemoveEntry, dbVars
<1>2. cleanup \in CleanupType
  BY <1>1, UnderWay
<1>3. /\ cleanup' \in CleanupType /\ cleanup'.stage = "remove"
      /\ cleanup'.entries = cleanup.entries \ {f} /\ cleanup'.sequence = cleanup.sequence
  BY <1>1, <1>2 DEF CleanupType
<1>4. /\ \A g \in cleanup.entries : ~InUse(log, g)
      /\ Cleaned(log, claims, disk \ cleanup.entries, cleanup.sequence)
  BY <1>1 DEF CleanInv, CleanupInv, RemovesInv
<1>5. disk' \ cleanup'.entries \subseteq disk \ cleanup.entries
  BY <1>1, <1>3
<1>6. Cleaned(log, claims, disk' \ cleanup'.entries, cleanup.sequence)
  BY <1>4, <1>5 DEF Cleaned
<1>7. ReadInv' /\ RemovesInv'
  BY <1>1, <1>3, <1>4, <1>6 DEF ReadInv, RemovesInv
<1> QED BY <1>1, <1>3, <1>7, GoesOn

\* The clean-up is over: nothing is under way any more.
LEMMA NothingUnderWay ==
    ASSUME cleanup' = NoCleanup
    PROVE  WorkInv' /\ ReadInv' /\ RemovesInv'
BY NoCleanupIs DEF WorkInv, ReadInv, RemovesInv

LEMMA NoCleanupType == NoCleanup \in CleanupType
BY CleanupAssumption DEF NoCleanup, CleanupType

LEMMA CleanupEndsKeeps ==
    ASSUME CleanInv, CleanupEnds
    PROVE  CleanInv'
<1>1. /\ cleanup.stage = "remove" /\ cleanup.stage # "none" /\ cleanup.entries = {}
      /\ cleanup' = NoCleanup /\ disk' \subseteq disk
      /\ UNCHANGED <<log, tables, cursors, cleanupCursor, disk, process, pendingCleanup, claims,
                     faults, crashes>>
  BY DEF CleanupEnds, dbVars
<1>2. \A p \in Projectors : cursors[p] = Len(log)
  BY <1>1, UnderWay
<1>3. /\ LogInv' /\ TablesInv' /\ FilesInv' /\ IsLog(log') /\ Extends(log, log')
      /\ OldOrNew(log, claims, disk, claims', disk')
  BY <1>1, <1>2, SameWorld
<1>4. Cleaned(log', claims', disk', cleanup.sequence)
  <2>1. disk \ cleanup.entries = disk'
    BY <1>1
  <2> QED BY <1>1, <2>1 DEF CleanInv, CleanupInv, RemovesInv
<1>5. CursorInv'
  BY <1>1, <1>3, <1>4, CursorStays
<1>6. TypeOK'
  BY <1>1, NoCleanupType DEF CleanInv, TypeOK, CleanupType
<1> QED BY <1>1, <1>3, <1>5, <1>6, NothingUnderWay DEF CleanInv, CleanupInv

LEMMA CleanupFailsKeeps ==
    ASSUME CleanInv, CleanupFails
    PROVE  CleanInv'
<1>1. /\ cleanup # NoCleanup /\ cleanup' = NoCleanup /\ disk' \subseteq disk
      /\ UNCHANGED <<log, tables, cursors, cleanupCursor, disk, claims, crashes>>
      /\ faults' \in 0..MaxFaults
  BY FaultCounts DEF CleanupFails, dbVars, CleanInv
<1>2. process \in {"cleaning", "running"} /\ \A p \in Projectors : cursors[p] = Len(log)
  BY <1>1 DEF CleanInv, CleanupInv, WorkInv, TablesInv
<1>3. process' = "running" /\ pendingCleanup' \subseteq pendingCleanup
  BY <1>2 DEF CleanupFails, StopCatchingUp
<1>4. /\ LogInv' /\ TablesInv' /\ FilesInv' /\ IsLog(log') /\ Extends(log, log')
      /\ OldOrNew(log, claims, disk, claims', disk')
  BY <1>1, <1>2, SameWorld
<1>5. CursorInv'
  BY <1>1, <1>3, <1>4, CursorStays
<1>6. TypeOK'
  BY <1>1, <1>3, NoCleanupType DEF CleanInv, TypeOK, CleanupType
<1> QED BY <1>1, <1>4, <1>5, <1>6, NothingUnderWay DEF CleanInv, CleanupInv

---------------------------------------------------------------------------
(* The process.                                                             *)

\* Outside of a clean-up, with the log as it is.
LEMMA RestKeeps ==
    ASSUME CleanInv, TypeOK', TablesInv', FilesInv', UNCHANGED <<log, cleanupCursor>>,
           cleanup' = NoCleanup, pendingCleanup' \subseteq pendingCleanup, process' # "cleaning",
           OldOrNew(log, claims, disk, claims', disk')
    PROVE  CleanInv'
<1>1. LogInv' /\ IsLog(log') /\ Extends(log, log')
  BY LogIs DEF CleanInv, LogInv
<1>2. CursorInv'
  BY <1>1, CursorStays
<1> QED BY <1>1, <1>2, NothingUnderWay DEF CleanInv, CleanupInv

LEMMA CrashKeeps ==
    ASSUME CleanInv, Crash
    PROVE  CleanInv'
<1> DEFINE ends(g) == claims[g].status \in {"claimed", "failed"}
<1>1. /\ UNCHANGED <<log, tables, cursors, cleanupCursor, disk, faults>>
      /\ process' = "down" /\ pendingCleanup' = {} /\ cleanup' = NoCleanup
      /\ claims' = [g \in Files |-> IF ends(g) THEN [claims[g] EXCEPT !.status = "over"]
                                               ELSE claims[g]]
      /\ crashes < MaxCrashes /\ crashes' = crashes + 1
  BY DEF Crash, dbVars
<1>2. \A g \in Files :
        /\ claims'[g] \in Claim /\ claims'[g].thread = claims[g].thread
        /\ claims'[g].at = claims[g].at
        /\ claims'[g].status \in {claims[g].status, "over"}
        /\ claims[g].status = "unused" <=> claims'[g].status = "unused"
  <2> TAKE g \in Files
  <2> DEFINE c == claims[g]
             d == [c EXCEPT !.status = "over"]
  <2>1. c \in Claim
    BY DEF CleanInv, TypeOK
  <2> HIDE DEF c
  <2>2. d \in Claim /\ d.thread = c.thread /\ d.at = c.at /\ d.status = "over"
    BY <2>1 DEF Claim, ClaimStatus
  <2>3. claims'[g] = IF c.status \in {"claimed", "failed"} THEN d ELSE c
    BY <1>1 DEF c
  <2> HIDE DEF d
  <2>4. CASE c.status \in {"claimed", "failed"}
    BY <2>2, <2>3, <2>4 DEF c
  <2>5. CASE c.status \notin {"claimed", "failed"}
    BY <2>1, <2>3, <2>5 DEF c
  <2> QED BY <2>4, <2>5
<1>3. claims' \in [Files -> Claim]
  BY <1>1, <1>2
<1>4. TypeOK'
  <2>1. crashes' \in 0..MaxCrashes
    BY <1>1, CleanupAssumption DEF CleanInv, TypeOK
  <2> QED BY <1>1, <1>3, <2>1, NoCleanupType DEF CleanInv, TypeOK, CleanupType
<1>5. FilesInv'
  <2>1. \A i \in 1..Len(log) : log[i].type \in Projectors => log[i].file \in Files
    BY DEF CleanInv, LogInv, IsLog, IsEvent
  <2>2. disk \subseteq Files
    BY DEF CleanInv, TypeOK
  <2> QED BY <1>1, <1>2, <2>1, <2>2 DEF CleanInv, FilesInv
<1>6. TablesInv'
  BY <1>1 DEF CleanInv, TablesInv
<1>7. OldOrNew(log, claims, disk, claims', disk')
  BY <1>1, <1>2 DEF OldOrNew, CleanInv, TypeOK
<1>8. pendingCleanup' \subseteq pendingCleanup /\ process' # "cleaning"
  BY <1>1
<1> QED BY <1>1, <1>4, <1>5, <1>6, <1>7, <1>8, RestKeeps

\* The least of three numbers.
LEMMA MinIs ==
    ASSUME NEW a \in Nat, NEW b \in Nat, NEW c \in Nat
    PROVE  Min({a, b, c}) \in {a, b, c} /\ Min({a, b, c}) <= a
<1>1. \E x \in {a, b, c} : \A y \in {a, b, c} : x <= y
  <2>1. CASE a <= b /\ a <= c
    BY <2>1
  <2>2. CASE b <= a /\ b <= c
    BY <2>2
  <2>3. CASE c <= a /\ c <= b
    BY <2>3
  <2> QED BY <2>1, <2>2, <2>3
<1> QED BY <1>1 DEF Min

\* A release resets a projector: nothing has been replayed that its tables would
\* have to agree with.  The clean-up starts no later than before.
LEMMA StartKeeps ==
    ASSUME CleanInv, Start
    PROVE  CleanInv'
<1>1. /\ UNCHANGED <<log, tables, disk, pendingCleanup, cleanup, claims, faults, crashes>>
      /\ process = "down" /\ process' = "replaying"
      /\ cursors' \in {cursors} \cup {[cursors EXCEPT ![p] = 0] : p \in Projectors}
      /\ cleanupCursor' = CleanupStart(cursors')
  BY DEF Start
<1>2. /\ IsLog(log) /\ Extends(log, log) /\ Len(log) \in 0..MaxEvents /\ Len(log) \in Nat
      /\ cursors \in [Projectors -> 0..Len(log)] /\ cleanupCursor \in 0..Len(log)
  BY LogIs DEF CleanInv, TablesInv, CursorInv
<1>3. /\ cursors' \in [Projectors -> 0..Len(log)]
      /\ \A p \in Projectors : cursors'[p] \in {0, cursors[p]}
  BY <1>1, <1>2
<1>4. cleanupCursor' \in 0..Len(log) /\ cleanupCursor' <= cleanupCursor
  <2>1. /\ cleanupCursor \in Nat /\ cursors'["messages"] \in Nat /\ cursors'["activities"] \in Nat
        /\ cursors'["messages"] \in 0..Len(log) /\ cursors'["activities"] \in 0..Len(log)
    BY <1>2, <1>3 DEF Projectors
  <2>2. /\ cleanupCursor' \in {cleanupCursor, cursors'["messages"], cursors'["activities"]}
        /\ cleanupCursor' <= cleanupCursor
    BY <1>1, <2>1, MinIs DEF CleanupStart
  <2> QED BY <1>2, <2>1, <2>2
<1>5. cleanup = NoCleanup
  BY <1>1 DEF CleanInv, CleanupInv, WorkInv
<1>6. TablesInv'
  <2>1. \A t : ~CreatedBy(log, 0, t)
    BY DEF CreatedBy
  <2> QED BY <1>1, <1>3, <2>1 DEF CleanInv, TablesInv
<1>7. FilesInv' /\ LogInv'
  BY <1>1 DEF CleanInv, FilesInv, LogInv
<1>8. CursorInv'
  <2>1. \A i \in 1..cleanupCursor' : i \in 1..cleanupCursor
    BY <1>2, <1>4
  <2> QED BY <1>1, <1>4, <2>1 DEF CleanInv, CursorInv, DropEvents
<1>9. TypeOK'
  <2>1. \A n \in 0..Len(log) : n \in 0..MaxEvents
    BY <1>2, CleanupAssumption
  <2>2. cursors' \in [Projectors -> 0..MaxEvents] /\ cleanupCursor' \in 0..MaxEvents
    BY <1>3, <1>4, <2>1
  <2> QED BY <1>1, <2>2 DEF CleanInv, TypeOK
<1>10. cleanup' = NoCleanup
  BY <1>1, <1>5
<1> QED BY <1>6, <1>7, <1>8, <1>9, <1>10, NothingUnderWay DEF CleanInv, CleanupInv

\* Replay brings the tables one event further towards the log.
LEMMA ReplayNextKeeps ==
    ASSUME CleanInv, ReplayNext
    PROVE  CleanInv'
<1>1. /\ process = "replaying"
      /\ UNCHANGED <<log, cleanupCursor, disk, process, pendingCleanup, cleanup, claims, faults,
                     crashes>>
  BY DEF ReplayNext
<1>2. PICK p \in Projectors :
        LET next == cursors[p] + 1
        IN  /\ cursors[p] < Len(log)
            /\ tables' = [tables EXCEPT ![p] = Project(p, @, log[next])]
            /\ cursors' = [cursors EXCEPT ![p] = next]
  <2>1. \A i \in 1..Len(ProjectorOrder) : ProjectorOrder[i] \in Projectors
    BY DEF ProjectorOrder, Projectors
  <2> QED BY <2>1 DEF ReplayNext
<1> DEFINE n == cursors[p]
           k == n + 1
           e == log[k]
           rows == Project(p, tables[p], e)
<1>3. /\ IsLog(log) /\ Len(log) \in 0..MaxEvents /\ Len(log) \in Nat
      /\ cursors \in [Projectors -> 0..Len(log)] /\ n \in Nat /\ n < Len(log)
      /\ cleanup = NoCleanup
  BY <1>1, <1>2, LogIs DEF CleanInv, TablesInv, CleanupInv, WorkInv
<1>4. k \in 1..Len(log) /\ k \in 0..Len(log) /\ k \in Nat
  BY <1>3
<1>5. IsEvent(e)
  BY <1>3, <1>4 DEF IsLog
<1>6. tables[p] \in [Threads -> SUBSET Ref] /\ rows \in [Threads -> SUBSET Ref]
  <2>1. tables[p] \in [Threads -> SUBSET Ref]
    BY DEF CleanInv, TypeOK, Ref
  <2> QED BY <1>5, <2>1, ProjectIs
<1>7. \A t \in Threads : CreatedBy(log, k, t) => rows[t] = TableOf(log, p, k)[t]
  <2> SUFFICES ASSUME NEW t \in Threads, CreatedBy(log, k, t)
               PROVE  rows[t] = TableOf(log, p, k)[t]
    OBVIOUS
  <2>1. TableOf(log, p, n) \in [Threads -> SUBSET Ref]
    BY <1>3, RowsGrounded DEF Grounded
  <2>2. TableOf(log, p, k) = Project(p, TableOf(log, p, n), e)
    BY <1>3, TableOfSteps
  <2>3. CreatedBy(log, n, t) \/ (e.type = "thread.created" /\ e.thread = t)
    <3>1. \A i \in 1..k : i \in 1..n \/ i = k
      BY <1>3
    <3> QED BY <3>1 DEF CreatedBy
  <2>4. tables[p][t] = TableOf(log, p, n)[t] \/ (e.type = "thread.created" /\ e.thread = t)
    BY <2>3 DEF CleanInv, TablesInv
  <2> HIDE DEF e
  <2>5. rows[t] = Project(p, TableOf(log, p, n), e)[t]
    BY <1>5, <1>6, <2>1, <2>4, ProjectsByThread
  <2> QED BY <2>2, <2>5
<1>8. tables' = [tables EXCEPT ![p] = rows] /\ cursors' = [cursors EXCEPT ![p] = k]
  BY <1>2
<1> HIDE DEF rows, e, k
<1>9. /\ tables' \in [Projectors -> [Threads -> SUBSET Ref]]
      /\ cursors' \in [Projectors -> 0..Len(log)]
  BY <1>3, <1>4, <1>6, <1>8 DEF CleanInv, TypeOK, Ref
<1>10. \A q \in Projectors :
         /\ q = p => tables'[q] = rows /\ cursors'[q] = k
         /\ q # p => tables'[q] = tables[q] /\ cursors'[q] = cursors[q]
  BY <1>8 DEF CleanInv, TypeOK
<1>11. TablesInv'
  BY <1>1, <1>7, <1>9, <1>10 DEF CleanInv, TablesInv
<1>12. TypeOK'
  <2>1. \A i \in 0..Len(log) : i \in 0..MaxEvents
    BY <1>3, CleanupAssumption
  <2>2. cursors' \in [Projectors -> 0..MaxEvents]
    BY <1>9, <2>1
  <2>3. tables' \in [Projectors -> [Threads -> SUBSET [file : Files, turn : 0..MaxEvents]]]
    BY <1>9 DEF Ref
  <2> QED BY <1>1, <2>2, <2>3 DEF CleanInv, TypeOK
<1>13. FilesInv' /\ OldOrNew(log, claims, disk, claims', disk')
  BY <1>1 DEF CleanInv, FilesInv, OldOrNew
<1> QED BY <1>1, <1>3, <1>11, <1>12, <1>13, RestKeeps

\* What the start collects is every last revert and deletion past the cursor.
LEMMA CollectCleanupsKeeps ==
    ASSUME CleanInv, CollectCleanups
    PROVE  CleanInv'
<1>1. /\ UNCHANGED <<log, tables, cursors, cleanupCursor, disk, cleanup, claims, faults, crashes>>
      /\ process = "replaying" /\ process' = "cleaning"
      /\ \A p \in Projectors : cursors[p] = Len(log)
      /\ pendingCleanup' =
           {i \in (cleanupCursor + 1)..Len(log) :
              log[i].type \in DropTypes /\ i = LastIn(log, log[i].type, log[i].thread)}
  BY LastOfIs DEF CollectCleanups, dbVars, DropTypes
<1>2. Len(log) \in 0..MaxEvents /\ Len(log) \in Nat /\ cleanupCursor \in 0..Len(log)
  BY LogIs DEF CleanInv, CursorInv
<1>3. disk' \subseteq disk
  BY <1>1
<1>4. LogInv' /\ TablesInv' /\ FilesInv' /\ DropEvents' = DropEvents
  BY <1>1, <1>3, SameWorld
<1>5. cleanup' = NoCleanup
  BY <1>1 DEF CleanInv, CleanupInv, WorkInv
<1>6. \A i \in (cleanupCursor + 1)..Len(log) : i \in 1..Len(log) /\ i \in 1..MaxEvents
  BY <1>2, CleanupAssumption
<1>7. TypeOK'
  <2>1. pendingCleanup' \subseteq 1..MaxEvents
    BY <1>1, <1>6
  <2> QED BY <1>1, <2>1 DEF CleanInv, TypeOK
<1>8. CursorInv'
  <2>1. \A i \in 1..Len(log) : i > cleanupCursor => i \in (cleanupCursor + 1)..Len(log)
    BY <1>2
  <2>2. pendingCleanup' \subseteq DropEvents
    BY <1>1, <1>6 DEF DropEvents
  <2>3. \A i \in DropEvents :
          i > cleanupCursor /\ i = LastIn(log, log[i].type, log[i].thread) => i \in pendingCleanup'
    BY <1>1, <2>1 DEF DropEvents
  <2> QED BY <1>1, <1>4, <2>2, <2>3 DEF CleanInv, CursorInv
<1> QED BY <1>4, <1>5, <1>7, <1>8, NothingUnderWay DEF CleanInv, CleanupInv

LEMMA NextCleanupKeeps ==
    ASSUME CleanInv, NextCleanup
    PROVE  CleanInv'
<1>1. /\ UNCHANGED <<log, tables, cursors, cleanupCursor, disk, process, claims, faults, crashes>>
      /\ process = "cleaning" /\ cleanup = NoCleanup
  BY DEF NextCleanup, dbVars
<1>2. PICK i \in pendingCleanup :
        /\ cleanup' = [NoCleanup EXCEPT !.stage = "read", !.sequence = i]
        /\ pendingCleanup' = pendingCleanup \ {i}
  BY DEF NextCleanup
<1>3. disk' \subseteq disk /\ \A p \in Projectors : cursors[p] = Len(log)
  BY <1>1 DEF CleanInv, TablesInv
<1>4. /\ LogInv' /\ TablesInv' /\ FilesInv' /\ IsLog(log') /\ Extends(log, log')
      /\ OldOrNew(log, claims, disk, claims', disk') /\ DropEvents' = DropEvents
  BY <1>1, <1>3, SameWorld
<1>5. i \in DropEvents /\ i \in 0..MaxEvents
  BY CleanupAssumption DEF CleanInv, CursorInv, TypeOK
<1>6. cleanup' = [stage |-> "read", sequence |-> i, kept |-> {}, entries |-> {}]
  BY <1>2, BeginIs
<1>7. /\ cleanup'.stage = "read" /\ cleanup'.sequence = i /\ cleanup'.kept = {}
      /\ cleanup'.entries = {} /\ cleanup' # NoCleanup
  BY <1>6, NoCleanupIs
<1>8. cleanup' \in CleanupType
  BY <1>5, <1>6 DEF CleanupType
<1>9. TypeOK'
  BY <1>1, <1>2, <1>8 DEF CleanInv, TypeOK, CleanupType
<1>10. WorkInv' /\ ReadInv' /\ RemovesInv'
  BY <1>1, <1>4, <1>5, <1>7 DEF WorkInv, ReadInv, RemovesInv
<1>11. CursorInv'
  <2>1. pendingCleanup' \subseteq pendingCleanup
    BY <1>2
  <2>2. \A j \in pendingCleanup :
          j \in pendingCleanup' \/ (cleanup' # NoCleanup /\ cleanup'.sequence = j)
    BY <1>2, <1>7
  <2> QED BY <1>1, <1>4, <2>1, <2>2, CursorStays
<1> QED BY <1>4, <1>9, <1>10, <1>11 DEF CleanInv, CleanupInv

\* Nothing is left to be done, so the cursor may move to the end: the last revert
\* and the last deletion of a thread do for those before.
LEMMA CaughtUpKeeps ==
    ASSUME CleanInv, CaughtUp
    PROVE  CleanInv'
<1>1. /\ UNCHANGED <<log, tables, cursors, disk, pendingCleanup, cleanup, claims, faults, crashes>>
      /\ process = "cleaning" /\ process' = "running" /\ cleanup = NoCleanup
      /\ pendingCleanup = {} /\ cleanupCursor' = Len(log)
  BY DEF CaughtUp
<1>2. /\ IsLog(log) /\ Len(log) \in 0..MaxEvents /\ Len(log) \in Nat
      /\ cleanupCursor \in 0..Len(log)
  BY LogIs DEF CleanInv, CursorInv
<1>3. disk' \subseteq disk /\ \A p \in Projectors : cursors[p] = Len(log)
  BY <1>1 DEF CleanInv, TablesInv
<1>4. LogInv' /\ TablesInv' /\ FilesInv' /\ DropEvents' = DropEvents
  BY <1>1, <1>3, SameWorld
<1>5. ASSUME NEW i \in 1..Len(log) PROVE Cleaned(log, claims, disk, i)
  <2>1. CASE log[i].type \notin DropTypes
    BY <2>1 DEF Cleaned, Settles, DropTypes
  <2>2. CASE log[i].type \in DropTypes
    <3> DEFINE k == LastIn(log, log[i].type, log[i].thread)
    <3>1. k \in 0..Len(log) /\ i <= k
      BY <1>2, LastIs
    <3>2. k \in 1..Len(log) /\ k # 0
      BY <1>2, <3>1
    <3>3. log[k].type = log[i].type /\ log[k].thread = log[i].thread
      BY <1>2, <3>2, LastIs
    <3>4. Cleaned(log, claims, disk, k)
      <4>1. k \in DropEvents /\ k = LastIn(log, log[k].type, log[k].thread)
        BY <2>2, <3>2, <3>3 DEF DropEvents
      <4> HIDE DEF k
      <4>2. CASE k > cleanupCursor
        BY <1>1, <4>1, <4>2 DEF CleanInv, CursorInv
      <4>3. CASE ~(k > cleanupCursor)
        <5>1. k \in 1..cleanupCursor
          BY <1>2, <3>2, <4>3
        <5> QED BY <5>1 DEF CleanInv, CursorInv
      <4> QED BY <4>2, <4>3
    <3>5. \A f \in disk : claims[f].at \in Nat
      BY ClaimIs DEF CleanInv, TypeOK
    <3> HIDE DEF k
    <3> QED BY <1>2, <3>1, <3>2, <3>3, <3>4, <3>5, LaterDoes
  <2> QED BY <2>1, <2>2
<1>6. CursorInv'
  <2>1. cleanupCursor' \in 0..Len(log')
    BY <1>1, <1>2
  <2>2. pendingCleanup' \subseteq DropEvents'
    BY <1>1
  <2> QED BY <1>1, <1>5, <2>1, <2>2 DEF CursorInv
<1>7. TypeOK'
  BY <1>1, <1>2 DEF CleanInv, TypeOK
<1>8. cleanup' = NoCleanup
  BY <1>1
<1> QED BY <1>4, <1>6, <1>7, <1>8, NothingUnderWay DEF CleanInv, CleanupInv

---------------------------------------------------------------------------
(* The theorems.                                                            *)

\* Each thread is created by one event.
LEMMA InitLog ==
    ASSUME Init
    PROVE  /\ LogInv /\ Len(log) \in 0..MaxEvents
           /\ \A i \in 1..Len(log) : log[i].type = "thread.created"
<1> DEFINE n == Cardinality(Threads)
           Creation(t) == [type |-> "thread.created", thread |-> t, file |-> NoFile, turn |-> 0]
<1>1. PICK order \in SetToSeqs(Threads) : log = [i \in 1..Len(order) |-> Creation(order[i])]
  BY DEF Init
<1>2. n \in Nat /\ n <= MaxEvents /\ MaxEvents \in Nat /\ IsFiniteSet(Threads)
  BY CleanupAssumption, FS_CardinalityType
<1>3. order \in [1..n -> Threads] /\ \A i, j \in 1..n : i # j => order[i] # order[j]
  BY DEF SetToSeqs
<1>4. order \in Injection(1..n, Threads)
  BY <1>3 DEF Injection, IsInjective
<1>5. Cardinality(1..n) = n
  <2>1. n \in Int /\ 1 \in Int /\ (1 > n => n = 0) /\ n - 1 + 1 = n
    BY <1>2
  <2> HIDE DEF n
  <2> QED BY <2>1, FS_Interval
<1>6. \A t \in Threads : \E i \in 1..n : order[i] = t
  <2>1. order \in Surjection(1..n, Threads)
    BY <1>2, <1>4, <1>5, FS_Injection
  <2> QED BY <2>1 DEF Surjection
<1>7. Len(order) = n
  <2> HIDE DEF n
  <2> QED BY <1>2, <1>3
<1> HIDE DEF n
<1>8. \A t \in Threads : IsEvent(Creation(t)) /\ Creation(t).type = "thread.created"
                         /\ Creation(t).thread = t
  BY CleanupAssumption DEF IsEvent, Event, EventTypes, Projectors
<1> HIDE DEF Creation
<1>9. /\ log \in [1..n -> Event]
      /\ \A i \in 1..n : /\ IsEvent(log[i]) /\ log[i].type = "thread.created"
                         /\ log[i].thread = order[i]
  BY <1>1, <1>3, <1>7, <1>8 DEF IsEvent
<1>10. log \in Seq(Event) /\ Len(log) = n
  BY <1>2, <1>9
<1> QED BY <1>2, <1>6, <1>9, <1>10 DEF LogInv, IsLog, CreatedBy

LEMMA InitKeeps == Init => CleanInv
<1> SUFFICES ASSUME Init PROVE CleanInv
  OBVIOUS
<1>1. /\ tables = [p \in Projectors |-> [t \in Threads |-> {}]]
      /\ cursors = [p \in Projectors |-> Len(log)]
      /\ cleanupCursor = 0 /\ disk = {} /\ process = "running" /\ pendingCleanup = {}
      /\ cleanup = NoCleanup
      /\ claims = [f \in Files |-> [status |-> "unused", thread |-> "none", at |-> 0]]
      /\ faults = 0 /\ crashes = 0
  BY DEF Init
<1>2. /\ LogInv /\ IsLog(log) /\ Len(log) \in 0..MaxEvents /\ Len(log) \in Nat
      /\ Len(log) \in 0..Len(log)
      /\ \A i \in 1..Len(log) : log[i].type = "thread.created"
  BY InitLog, LogIs
<1>3. TypeOK
  <2>1. [status |-> "unused", thread |-> "none", at |-> 0] \in Claim
    BY CleanupAssumption DEF Claim, ClaimStatus
  <2>2. claims \in [Files -> Claim] /\ cursors \in [Projectors -> 0..MaxEvents]
    BY <1>1, <1>2, <2>1
  <2>3. tables \in [Projectors -> [Threads -> SUBSET [file : Files, turn : 0..MaxEvents]]]
    BY <1>1
  <2>4. cleanup \in CleanupType /\ 0 \in 0..MaxEvents /\ 0 \in 0..MaxFaults /\ 0 \in 0..MaxCrashes
    BY <1>1, NoCleanupType, CleanupAssumption
  <2> QED BY <1>1, <1>2, <2>2, <2>3, <2>4 DEF TypeOK, IsLog, CleanupType
<1>4. TablesInv
  <2>1. ASSUME NEW p \in Projectors, NEW t \in Threads
        PROVE  TableOf(log, p, Len(log))[t] = {}
    <3>1. Grounded(log, p, Len(log), TableOf(log, p, Len(log)))
      BY <1>2, RowsGrounded
    <3>2. p # "thread.created"
      BY DEF Projectors
    <3> QED BY <1>2, <3>1, <3>2 DEF Grounded
  <2> QED BY <1>1, <1>2, <2>1 DEF TablesInv
<1>5. FilesInv
  <2>1. "thread.created" \notin Projectors
    BY DEF Projectors
  <2> QED BY <1>1, <1>2, <2>1 DEF FilesInv
<1>6. CleanupInv
  BY <1>1, NoCleanupIs DEF CleanupInv, WorkInv, ReadInv, RemovesInv
<1>7. CursorInv
  BY <1>1, <1>2 DEF CursorInv, Cleaned
<1> QED BY <1>2, <1>3, <1>4, <1>5, <1>6, <1>7 DEF CleanInv

LEMMA StutterKeeps ==
    ASSUME CleanInv, UNCHANGED vars
    PROVE  CleanInv'
<1>1. UNCHANGED <<log, tables, cursors, cleanupCursor, disk, process, pendingCleanup, cleanup,
                  claims, faults, crashes>>
  BY DEF vars, dbVars
<1>2. TypeOK' /\ LogInv' /\ TablesInv' /\ FilesInv'
  BY <1>1 DEF CleanInv, TypeOK, LogInv, TablesInv, FilesInv
<1>3. CleanupInv'
  BY <1>1 DEF CleanInv, CleanupInv, WorkInv, ReadInv, RemovesInv, DropEvents
<1>4. CursorInv'
  BY <1>1 DEF CleanInv, CursorInv, DropEvents
<1> QED BY <1>2, <1>3, <1>4 DEF CleanInv

LEMMA NextKeeps == CleanInv /\ [Next]_vars => CleanInv'
<1> SUFFICES ASSUME CleanInv, [Next]_vars PROVE CleanInv'
  OBVIOUS
<1>1. CASE Requests
  BY <1>1, ClaimFileKeeps, RemoveClaimKeeps, CommitClaimKeeps, RefuseClaimKeeps DEF Requests
<1>2. CASE ThreadCommands
  BY <1>2, ThreadCommandKeeps DEF ThreadCommands
<1>3. CASE Cleanup
  BY <1>3, ReadReferencesKeeps, ListDirectoryKeeps, CleanupEndsKeeps, CleanupFailsKeeps,
     RemoveEntryKeeps DEF Cleanup
<1>4. CASE Bootstrap
  BY <1>4, StartKeeps, ReplayNextKeeps, CollectCleanupsKeeps, NextCleanupKeeps, CaughtUpKeeps
     DEF Bootstrap
<1>5. CASE Crash
  BY <1>5, CrashKeeps
<1>6. CASE UNCHANGED vars
  BY <1>6, StutterKeeps
<1> QED BY <1>1, <1>2, <1>3, <1>4, <1>5, <1>6 DEF Next, Idle

\* The inductive invariant holds: once every cursor is at the end of the log the
\* tables say what the log says, and the clean-up of an event, however often it
\* fails or is cut off by a crash, is done before the cursor passes the event.
THEOREM Invariant == Spec => []CleanInv
BY InitKeeps, NextKeeps, PTL DEF Spec

\* Every variable keeps its type, and with it the tables, the cursors and the
\* clean-up under way keep their ranges.
THEOREM TypeCorrect == Spec => []TypeOK
<1>1. CleanInv => TypeOK
  BY DEF CleanInv
<1> QED BY <1>1, Invariant, PTL

\* What the clean-up cursor promises of the files of a reverted or a deleted
\* thread (ProjectionPipeline.ts 2021-2053), whatever crashed or failed.
THEOREM CursorCleans == Spec => []CursorMeansCleaned
<1>1. CleanInv => CursorMeansCleaned
  <2> SUFFICES ASSUME CleanInv, NEW f \in disk, NEW i \in 1..cleanupCursor,
                      log[i].thread = claims[f].thread, claims[f].at < i
               PROVE  /\ log[i].type = "thread.deleted" =>
                           LastOf("thread.created", log[i].thread) > i
                      /\ log[i].type = "thread.reverted" =>
                           \E n \in i..Len(log) : f \in ReferencedAt(n, log[i].thread)
    BY DEF CursorMeansCleaned
  <2>1. Cleaned(log, claims, disk, i)
    BY DEF CleanInv, CursorInv
  <2>2. Settles(log, f, i)
    BY <2>1 DEF Cleaned, Before
  <2> QED BY <2>2, LastOfIs, ReferencedAtIs DEF Settles
<1> QED BY <1>1, Invariant, PTL

\* Only a request that was told its command failed removes a file that something
\* still refers to (ProjectionPipeline.ts 1847-1891, Normalizer.ts 105-107).
THEOREM ReferencedFilesStay == Spec => CleanUpKeepsReferencedFiles
<1>1. ASSUME CleanInv, [Next]_vars, NEW f \in disk \ disk', Referenced(f)
      PROVE  claims[f].status = "failed"
  <2>1. disk' # disk
    BY <1>1
  <2>2. ASSUME NEW g \in Files, NEW t \in Threads, ClaimFile(g, t) PROVE FALSE
    BY <1>1, <2>2 DEF ClaimFile
  <2>3. ASSUME NEW g \in Files, RemoveClaim(g) PROVE claims[f].status = "failed"
    BY <1>1, <2>3 DEF RemoveClaim
  <2>4. ASSUME NEW g \in Files, NEW kind \in Projectors, CommitClaim(g, kind) PROVE FALSE
    BY <2>1, <2>4 DEF CommitClaim, AppendEvent
  <2>5. ASSUME NEW g \in Files, RefuseClaim(g) PROVE FALSE
    BY <2>1, <2>5 DEF RefuseClaim
  <2>6. ASSUME NEW t \in Threads, Create(t) \/ Delete(t) \/ Revert(t) PROVE FALSE
    BY <2>1, <2>6 DEF Create, Delete, Revert, CommitThreadEvent, AppendEvent
  <2>7. ASSUME NEW g \in Files, RemoveEntry(g) PROVE FALSE
    <3>1. f = g /\ f \in cleanup.entries /\ cleanup.stage = "remove"
      BY <1>1, <2>7 DEF RemoveEntry
    <3>2. ~InUse(log, f)
      BY <1>1, <3>1 DEF CleanInv, CleanupInv, RemovesInv
    <3> QED BY <1>1, <3>2, ReferencedIs
  <2>8. ReadReferences \/ ListDirectory \/ CleanupEnds \/ CleanupFails => FALSE
    BY <2>1 DEF ReadReferences, ListDirectory, CleanupEnds, CleanupFails
  <2>9. Bootstrap => FALSE
    BY <2>1 DEF Bootstrap, Start, ReplayNext, CollectCleanups, NextCleanup, CaughtUp
  <2>10. ~Crash /\ ~UNCHANGED vars
    BY <2>1 DEF Crash, vars
  <2> QED BY <1>1, <2>2, <2>3, <2>4, <2>5, <2>6, <2>7, <2>8, <2>9, <2>10
          DEF Next, Requests, ThreadCommands, Cleanup, Idle
<1>2. CleanInv /\ [Next]_vars =>
        [\A f \in disk \ disk' : Referenced(f) => claims[f].status = "failed"]_vars
  BY <1>1
<1> QED BY <1>2, Invariant, PTL DEF Spec, CleanUpKeepsReferencedFiles
=============================================================================
