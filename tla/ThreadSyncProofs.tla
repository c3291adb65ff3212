--------------------------- MODULE ThreadSyncProofs ---------------------------
(***************************************************************************)
(* Theorems of the thread synchronisation for any limits, logs and             *)
(* disruptions.                                                              *)
(*                                                                         *)
(* The argument: what the client has applied, what waits for it, what is still  *)
(* to be replayed and what the live buffer holds follow on each other without a  *)
(* gap, except for updates that were replaced; a snapshot is no older than       *)
(* anything in front of it.  So the cursor never moves over a row that is        *)
(* missing, and when the marker arrives nothing it promises is left behind it.   *)
(***************************************************************************)
EXTENDS ThreadSync, FiniteSetTheorems, SequenceTheorems, WellFoundedInduction, TLAPS

---------------------------------------------------------------------------
(* Induction over the naturals, for the greatest of some numbers.             *)

LEMMA LeastNumber ==
    ASSUME NEW T \in SUBSET Nat, T # {}
    PROVE  \E n \in T : \A k \in T : n <= k
<1> DEFINE R == {pair \in Nat \X Nat : pair[1] < pair[2]}
<1>1. IsWellFoundedOn(R, Nat)
  BY NatLessThanWellFounded DEF OpToRel
<1>2. \A x, y \in Nat : <<y, x>> \in R <=> y < x
  OBVIOUS
<1> HIDE DEF R
<1>3. PICK n \in T : \A k \in T : ~(<<k, n>> \in R)
  BY <1>1, WFMin
<1>4. \A k \in T : n \in Nat /\ k \in Nat /\ ~(k < n)
  BY <1>2, <1>3
<1>5. \A k \in T : n <= k
  BY <1>4
<1> QED BY <1>3, <1>5

LEMMA SetInduction ==
    ASSUME NEW T, 0 \in T, \A n \in Nat : n \in T => n + 1 \in T
    PROVE  Nat \subseteq T
<1> SUFFICES ASSUME Nat \ T # {} PROVE FALSE
  OBVIOUS
<1>1. PICK n \in Nat \ T : \A k \in Nat \ T : n <= k
  BY LeastNumber
<1>2. n - 1 \in Nat /\ n - 1 + 1 = n /\ ~(n <= n - 1)
  BY <1>1
<1>3. n - 1 \in T
  BY <1>1, <1>2
<1> QED BY <1>1, <1>2, <1>3

LEMMA Greatest ==
    ASSUME NEW n \in Nat, NEW S \in SUBSET (0..n), S # {}
    PROVE  \E x \in S : \A y \in S : y <= x
<1> DEFINE T == {k \in Nat : \A R \in SUBSET (0..k) : R # {} => \E x \in R : \A y \in R : y <= x}
<1>1. 0 \in T
  <2>1. \A x \in 0..0 : x = 0
    OBVIOUS
  <2>2. \A R \in SUBSET (0..0) : \A x, y \in R : y <= x
    BY <2>1
  <2> QED BY <2>2
<1>2. \A k \in Nat : k \in T => k + 1 \in T
  <2> SUFFICES ASSUME NEW k \in Nat, k \in T
               PROVE  \A R \in SUBSET (0..(k + 1)) : R # {} => \E x \in R : \A y \in R : y <= x
    <3>1. \A k \in Nat : k + 1 \in Nat
      OBVIOUS
    <3> QED BY <3>1
  <2> TAKE R \in SUBSET (0..(k + 1))
  <2> HAVE R # {}
  <2>1. CASE k + 1 \in R
    <3>1. \A y \in R : y <= k + 1
      OBVIOUS
    <3> QED BY <2>1, <3>1
  <2>2. CASE k + 1 \notin R
    <3>1. \A y \in R : y \in 0..k
      BY <2>2
    <3> QED BY <3>1
  <2> QED BY <2>1, <2>2
<1> HIDE DEF T
<1>3. n \in T
  BY <1>1, <1>2, SetInduction
<1> QED BY <1>3 DEF T

LEMMA GreaterOf ==
    ASSUME NEW a \in Nat, NEW b \in Nat
    PROVE  /\ Max({a, b}) \in {a, b} /\ Max({a, b}) \in Nat
           /\ a <= Max({a, b}) /\ b <= Max({a, b})
<1>1. \E x \in {a, b} : \A y \in {a, b} : x >= y
  <2>1. CASE a <= b
    BY <2>1
  <2>2. CASE b <= a
    BY <2>2
  <2> QED BY <2>1, <2>2
<1>2. Max({a, b}) \in {a, b} /\ \A y \in {a, b} : Max({a, b}) >= y
  BY <1>1 DEF Max
<1> QED BY <1>2

---------------------------------------------------------------------------
(* What the log says, of any log.                                            *)

Detail(l, i) == l[i].type \in {"thread.message-sent", "tool.updated"}

LastIn(l, type, n) ==
    LET S == {i \in 1..n : l[i].type = type}
    IN  IF S = {} THEN 0 ELSE CHOOSE i \in S : \A j \in S : j <= i

Rows(l, n) == {i \in LastIn(l, "thread.created", n)..n : i # 0 /\ Detail(l, i)}

SameTool(l, i, j) ==
    l[i].type = "tool.updated" /\ l[j].type = "tool.updated" /\ l[i].toolCall = l[j].toolCall

Replaced(l, i) ==
    \E j \in i + 1..Len(l) :
        SameTool(l, i, j) /\ \A k \in i..j : Detail(l, k) => l[k].type = "tool.updated"

Suits(l, t, sequence) ==
    t.present =>
        /\ \A i \in Rows(l, sequence) : i \in t.rows \/ Replaced(l, i)
        /\ \A i \in t.rows : i <= sequence

LEMMA DetailIs == \A i : IsDetail(i) <=> Detail(log, i)
BY DEF IsDetail, Detail

LEMMA RowsAre == \A n : RowsAt(n) = Rows(log, n)
BY DEF RowsAt, Rows, LastOf, LastIn, IsDetail, Detail

LEMMA ReplacedIs == \A i : Superseded(i) <=> Replaced(log, i)
BY DEF Superseded, Replaced, SameCall, SameTool, IsDetail, Detail

LEMMA SuitsIs == \A t, n : Fits(t, n) <=> Suits(log, t, n)
BY RowsAre, ReplacedIs DEF Fits, Suits

LEMMA LastInIs ==
    ASSUME NEW l, NEW type, NEW n \in Nat
    PROVE  /\ LastIn(l, type, n) \in 0..n
           /\ \A i \in 1..n : l[i].type = type => i <= LastIn(l, type, n)
           /\ LastIn(l, type, n) # 0 => l[LastIn(l, type, n)].type = type
<1> DEFINE S == {i \in 1..n : l[i].type = type}
<1>1. LastIn(l, type, n) = IF S = {} THEN 0 ELSE CHOOSE i \in S : \A j \in S : j <= i
  BY DEF LastIn
<1>2. S \in SUBSET (0..n) /\ \A i \in S : i \in 1..n /\ l[i].type = type
  OBVIOUS
<1>3. \A i \in 1..n : l[i].type = type => i \in S
  OBVIOUS
<1> HIDE DEF S
<1>4. CASE S = {}
  BY <1>1, <1>3, <1>4
<1>5. CASE S # {}
  <2>1. LastIn(l, type, n) \in S /\ \A j \in S : j <= LastIn(l, type, n)
    BY <1>1, <1>2, <1>5, Greatest
  <2> QED BY <1>2, <1>3, <2>1
<1> QED BY <1>4, <1>5

\* A later sequence has no older rows.
LEMMA RowsIn ==
    ASSUME NEW l, NEW n \in Nat
    PROVE  /\ Rows(l, n) \subseteq 1..n /\ \A i \in Rows(l, n) : Detail(l, i)
           /\ \A m \in 0..n : \A i \in Rows(l, n) : i <= m => i \in Rows(l, m)
           /\ \A d \in 1..n : l[d].type = "thread.created" => \A i \in Rows(l, n) : i > d
<1> DEFINE c == LastIn(l, "thread.created", n)
<1>1. c \in 0..n /\ \A i \in 1..n : l[i].type = "thread.created" => i <= c
  BY LastInIs
<1>2. Rows(l, n) = {i \in c..n : i # 0 /\ Detail(l, i)}
  BY DEF Rows
<1> HIDE DEF c
<1>3. Rows(l, n) \subseteq 1..n /\ \A i \in Rows(l, n) : Detail(l, i) /\ c <= i
  BY <1>1, <1>2
<1>4. ASSUME NEW m \in 0..n, NEW i \in Rows(l, n), i <= m PROVE i \in Rows(l, m)
  <2> DEFINE k == LastIn(l, "thread.created", m)
  <2>1. k \in 0..m /\ (k # 0 => l[k].type = "thread.created") /\ m \in Nat
    BY LastInIs
  <2>2. Rows(l, m) = {j \in k..m : j # 0 /\ Detail(l, j)}
    BY DEF Rows
  <2> HIDE DEF k
  <2>3. k = 0 \/ k <= c
    BY <1>1, <2>1
  <2>4. i \in k..m /\ i # 0
    BY <1>1, <1>3, <1>4, <2>1, <2>3
  <2> QED BY <1>3, <2>2, <2>4
<1>5. ASSUME NEW d \in 1..n, l[d].type = "thread.created", NEW i \in Rows(l, n) PROVE i > d
  <2>1. d <= c /\ c <= i /\ Detail(l, i) /\ i \in 1..n
    BY <1>1, <1>3, <1>5
  <2>2. i # d
    BY <1>5, <2>1 DEF Detail
  <2> QED BY <1>1, <2>1, <2>2
<1> QED BY <1>3, <1>4, <1>5

Extends(l, m) == Len(l) <= Len(m) /\ \A i \in 1..Len(l) : l[i] = m[i]

\* What is appended to the log changes nothing of what it says so far.
LEMMA LogGrows ==
    ASSUME NEW l, NEW m, Len(l) \in Nat, Len(m) \in Nat, Extends(l, m)
    PROVE  /\ \A i \in 1..Len(l) : Detail(m, i) <=> Detail(l, i)
           /\ \A i \in 1..Len(l) : Replaced(l, i) => Replaced(m, i)
           /\ \A n \in 0..Len(l) : Rows(m, n) = Rows(l, n)
           /\ \A n \in 0..Len(l) : \A t : Suits(l, t, n) => Suits(m, t, n)
<1>1. \A i \in 1..Len(l) : l[i] = m[i] /\ i \in 1..Len(m)
  BY DEF Extends
<1>2. \A i \in 1..Len(l) : Detail(m, i) <=> Detail(l, i)
  BY <1>1 DEF Detail
<1>3. ASSUME NEW i \in 1..Len(l), Replaced(l, i) PROVE Replaced(m, i)
  <2>1. PICK j \in i + 1..Len(l) :
          SameTool(l, i, j) /\ \A k \in i..j : Detail(l, k) => l[k].type = "tool.updated"
    BY <1>3 DEF Replaced
  <2>2. j \in 1..Len(l) /\ j \in i + 1..Len(m) /\ \A k \in i..j : k \in 1..Len(l)
    BY <1>1
  <2>3. SameTool(m, i, j)
    BY <1>1, <2>1, <2>2 DEF SameTool
  <2>4. \A k \in i..j : Detail(m, k) => m[k].type = "tool.updated"
    BY <1>1, <1>2, <2>1, <2>2
  <2> QED BY <2>2, <2>3, <2>4 DEF Replaced
<1>4. ASSUME NEW n \in 0..Len(l) PROVE Rows(m, n) = Rows(l, n)
  <2>1. \A i \in 1..n : i \in 1..Len(l)
    OBVIOUS
  <2>2. LastIn(l, "thread.created", n) = LastIn(m, "thread.created", n)
    <3> DEFINE Of(s) == {i \in 1..n : s[i].type = "thread.created"}
               Top(S) == IF S = {} THEN 0 ELSE CHOOSE i \in S : \A j \in S : j <= i
    <3>1. Of(l) = Of(m)
      BY <1>1, <2>1
    <3>2. LastIn(l, "thread.created", n) = Top(Of(l)) /\ LastIn(m, "thread.created", n) = Top(Of(m))
      BY DEF LastIn
    <3> HIDE DEF Of, Top
    <3> QED BY <3>1, <3>2
  <2>3. LastIn(l, "thread.created", n) \in 0..n
    BY LastInIs
  <2>4. \A i \in LastIn(l, "thread.created", n)..n : i # 0 => i \in 1..Len(l)
    BY <2>3
  <2> QED BY <1>2, <2>2, <2>4 DEF Rows
<1>5. ASSUME NEW n \in 0..Len(l), NEW t, Suits(l, t, n) PROVE Suits(m, t, n)
  <2>1. Rows(m, n) = Rows(l, n)
    BY <1>4
  <2>2. \A i \in Rows(l, n) : i \in 1..Len(l)
    BY RowsIn
  <2> QED BY <1>3, <1>5, <2>1, <2>2 DEF Suits
<1> QED BY <1>2, <1>3, <1>4, <1>5

---------------------------------------------------------------------------
(* The invariant.                                                           *)

\* Sequence i is passed once cursor c has taken the first n items of buffer b.
Reached(i, c, b, n) == i <= c \/ \E k \in 1..n : i <= b[k].sequence

Received(i) == Reached(i, lastSequence, buffer, Len(buffer))

OrderInv == Len(log) \in 1..MaxEvents /\ latestSequence <= Len(log) /\ published <= latestSequence

ScopeInv ==
    /\ ~open => applying = NoItem /\ buffer = <<>>
    /\ ~open \/ ~session => stage = "idle"

\* How far an attempt has come.
AttemptInv ==
    /\ ~Attached => liveBuffer = NoBuffer
    /\ stage # "streaming" => replay = {} /\ ~marked
    /\ marked => replay = {}
    /\ confirmed => marked
    /\ liveBuffer.marker # 0 => marked
    /\ stage \in {"requesting", "attached", "snapshot", "streaming"} /\ request.resume =>
         request.after <= lastSequence /\ thread.present
    /\ stage \in {"snapshot", "streaming"} =>
         /\ request.head <= Len(log) /\ request.covers <= Len(log)
         /\ request.replayIfMissing => request.resume /\ request.after <= request.head
    /\ stage = "snapshot" => request.covers = request.head

\* What the live buffer has taken is in it or was replaced by what is.
LiveInv ==
    LET b == liveBuffer IN
    Attached =>
        /\ b.position <= published /\ b.marker <= b.position
        /\ \A i \in b.pending \cup b.output : i <= b.position /\ Detail(log, i)
        /\ \A i \in b.output, j \in b.pending : i < j
        /\ \A i \in b.pending : \A k \in i..b.position :
             Detail(log, k) => log[k].type = "tool.updated"
        /\ stage = "snapshot" =>
             \A i \in request.head + 1..b.position : Detail(log, i) =>
               /\ i \in b.output \cup b.pending \/ Replaced(log, i)
               /\ \E j \in b.output \cup b.pending : i <= j

IsSnapshot(item) == item.kind = "snapshot" /\ item.rows = Rows(log, item.sequence)

\* What waits for the client follows on what it has, without a gap.
ItemInv(k) ==
    \/ buffer[k].kind = "synchronized" /\ buffer[k].sequence = 0
    \/ /\ buffer[k].kind = "event" /\ buffer[k].sequence \in 1..Len(log)
       /\ Detail(log, buffer[k].sequence)
       /\ \A i \in 1..buffer[k].sequence - 1 : Detail(log, i) =>
            Reached(i, lastSequence, buffer, k - 1) \/ Replaced(log, i)
    \/ /\ IsSnapshot(buffer[k]) /\ buffer[k].sequence \in lastSequence..Len(log)
       /\ \A j \in 1..k - 1 : buffer[j].sequence <= buffer[k].sequence

BufferInv == \A k \in 1..Len(buffer) : ItemInv(k)

\* What is still to be replayed follows on what waits for the client.
ReplayInv ==
    \A item \in replay :
        \/ /\ item.kind = "event" /\ item.sequence \in 1..Len(log) /\ Detail(log, item.sequence)
           /\ \A i \in 1..item.sequence - 1 : Detail(log, i) =>
                \/ Received(i) \/ Replaced(log, i)
                \/ \E other \in replay : other.sequence = i
        \/ /\ IsSnapshot(item) /\ replay = {item}
           /\ item.sequence \in lastSequence..Len(log)
           /\ \A k \in 1..Len(buffer) : buffer[k].sequence <= item.sequence

Waiting == liveBuffer.output \cup liveBuffer.pending

\* The live buffer follows on the replay, and together they reach what the
\* marker promises.
StreamInv ==
    stage = "streaming" =>
        /\ \A i \in 1..liveBuffer.position : Detail(log, i) =>
             \/ Received(i) \/ i \in Waiting \/ Replaced(log, i)
             \/ \E item \in replay : item.sequence = i \/ (item.kind = "snapshot" /\ i <= item.sequence)
        /\ \A i \in 1..Len(log) :
             Detail(log, i) /\ (i <= request.covers \/ i <= liveBuffer.position) =>
               \/ Received(i)
               \/ \E item \in replay : i <= item.sequence
               \/ \E j \in Waiting : i <= j

IsFreshMarker(k) == buffer[k].kind = "synchronized" /\ ~buffer[k].old

\* The marker: in the live buffer, on its way to the client, applied.
MarkerInv ==
    /\ liveBuffer.marker # 0 =>
         \A i \in 1..request.covers : Detail(log, i) =>
           Received(i) \/ \E j \in liveBuffer.output : i <= j /\ j <= liveBuffer.marker
    /\ \A k \in 1..Len(buffer) : IsFreshMarker(k) =>
         /\ marked
         /\ \A i \in 1..request.covers : Detail(log, i) => Reached(i, lastSequence, buffer, k - 1)
         /\ \A j \in k..Len(buffer) : buffer[j].kind # "snapshot"
    /\ confirmed =>
         /\ \A i \in 1..request.covers : Detail(log, i) => i <= lastSequence
         /\ applying.kind # "snapshot" /\ \A j \in 1..Len(buffer) : buffer[j].kind # "snapshot"

\* What the client shows, or will once the item under way is applied.
ShownInv ==
    /\ lastSequence <= Len(log)
    /\ applying = NoItem => Suits(log, thread, lastSequence)
    /\ applying # NoItem => applying.kind \in {"event", "snapshot"} /\ applying.sequence = lastSequence
    /\ applying.kind = "snapshot" => IsSnapshot(applying)
    /\ applying.kind = "event" =>
         /\ lastSequence > 0 /\ Detail(log, lastSequence)
         /\ \A i \in Rows(log, lastSequence) :
              i \in thread.rows \/ i = lastSequence \/ Replaced(log, i)
         /\ \A i \in thread.rows : i <= lastSequence

KeptInv == \A c \in {committed, kept} : c.sequence <= Len(log) /\ Suits(log, c.thread, c.sequence)

\* Without a thread a snapshot comes before any event.
SnapshotBefore(k) == applying.kind = "snapshot" \/ \E j \in 1..k - 1 : buffer[j].kind = "snapshot"

PresentInv ==
    ~thread.present =>
        /\ applying.kind # "event"
        /\ \A k \in 1..Len(buffer) : buffer[k].kind = "event" => SnapshotBefore(k)

ComesInv ==
    stage = "streaming" /\ ~thread.present =>
        SnapshotBefore(Len(buffer) + 1) \/ \E item \in replay : item.kind = "snapshot"

\* What an attempt brings of a thread created again after the client's cursor.
RecreatedInv ==
    stage = "streaming" /\ request.resume /\ ~request.replayIfMissing =>
        \A d \in request.after + 1..request.head : log[d].type = "thread.created" =>
            \/ lastSequence >= d /\ (applying.kind = "snapshot" \/ \A i \in thread.rows : i > d)
            \/ \E k \in 1..Len(buffer) : buffer[k].kind = "snapshot" /\ buffer[k].sequence >= d
            \/ \E item \in replay : item.kind = "snapshot" /\ item.sequence >= d

ClientInv == BufferInv /\ ShownInv /\ KeptInv /\ PresentInv
ServerInv == AttemptInv /\ LiveInv /\ ReplayInv /\ StreamInv /\ MarkerInv /\ ComesInv /\ RecreatedInv
SyncInv == TypeOK /\ OrderInv /\ ScopeInv /\ ClientInv /\ ServerInv

---------------------------------------------------------------------------
(* Items, types and what has been reached.                                   *)

LEMMA ItemsAre ==
    /\ NoItem \in Item /\ NoItem.kind = "none" /\ NoItem.sequence = 0
    /\ Marker \in Item /\ Marker.kind = "synchronized" /\ Marker.sequence = 0
    /\ \A s : /\ EventItem(s).kind = "event" /\ EventItem(s).sequence = s
              /\ s \in 0..MaxEvents => EventItem(s) \in Item
    /\ \A s, r : /\ SnapshotItem(s, r).kind = "snapshot" /\ SnapshotItem(s, r).sequence = s
                 /\ SnapshotItem(s, r).rows = r
                 /\ s \in 0..MaxEvents /\ r \subseteq Sequences => SnapshotItem(s, r) \in Item
<1>1. 0 \in 0..MaxEvents
  BY SyncAssumption
<1>2. NoItem \in Item /\ Marker \in Item
  BY <1>1 DEF NoItem, Marker, NewItem, Item
<1>3. \A s \in 0..MaxEvents : EventItem(s) \in Item
  BY DEF EventItem, NewItem, Item
<1>4. \A s \in 0..MaxEvents : \A r \in SUBSET Sequences : SnapshotItem(s, r) \in Item
  BY DEF SnapshotItem, NewItem, Item
<1>5. /\ NoItem.kind = "none" /\ NoItem.sequence = 0
      /\ Marker.kind = "synchronized" /\ Marker.sequence = 0
  BY DEF NoItem, Marker, NewItem
<1>6. \A s : EventItem(s).kind = "event" /\ EventItem(s).sequence = s
  BY DEF EventItem, NewItem
<1>7. \A s, r : /\ SnapshotItem(s, r).kind = "snapshot" /\ SnapshotItem(s, r).sequence = s
                /\ SnapshotItem(s, r).rows = r
  BY DEF SnapshotItem, NewItem
<1> QED BY <1>2, <1>3, <1>4, <1>5, <1>6, <1>7

\* The numbers of a well typed state.
LEMMA Numbers ==
    ASSUME TypeOK, OrderInv
    PROVE  /\ MaxEvents \in Nat /\ Len(log) \in Nat /\ Len(log) \in 1..MaxEvents
           /\ latestSequence \in Nat /\ published \in Nat /\ lastSequence \in Nat
           /\ latestSequence <= Len(log) /\ published <= latestSequence
           /\ buffer \in Seq(Item) /\ Len(buffer) \in Nat
           /\ \A k \in 1..Len(buffer) : buffer[k] \in Item /\ buffer[k].sequence \in Nat
           /\ \A item \in replay : item \in Item /\ item.sequence \in Nat
           /\ request.after \in Nat /\ request.head \in Nat /\ request.covers \in Nat
           /\ liveBuffer.position \in Nat /\ liveBuffer.marker \in Nat
           /\ liveBuffer.pending \subseteq Nat \ {0} /\ liveBuffer.output \subseteq Nat \ {0}
<1>1. MaxEvents \in Nat /\ Len(log) \in 1..MaxEvents /\ Len(log) \in Nat
  BY SyncAssumption DEF OrderInv
<1>2. /\ latestSequence \in Nat /\ published \in Nat /\ lastSequence \in Nat
      /\ latestSequence <= Len(log) /\ published <= latestSequence
  BY <1>1 DEF TypeOK, OrderInv
<1>3. buffer \in Seq(Item) /\ Len(buffer) \in Nat /\ \A k \in 1..Len(buffer) : buffer[k] \in Item
  BY ElementOfSeq, LenProperties DEF TypeOK
<1>4. \A item \in Item : item.sequence \in Nat
  BY <1>1 DEF Item
<1>5. request.after \in Nat /\ request.head \in Nat /\ request.covers \in Nat
  BY <1>1 DEF TypeOK, Request
<1>6. /\ liveBuffer.position \in Nat /\ liveBuffer.marker \in Nat
      /\ liveBuffer.pending \subseteq Nat \ {0} /\ liveBuffer.output \subseteq Nat \ {0}
  BY <1>1 DEF TypeOK, BufferType, Sequences
<1> QED BY <1>1, <1>2, <1>3, <1>4, <1>5, <1>6 DEF TypeOK

\* What is reached stays reached when the cursor moves on and items are added.
LEMMA ReachedStays ==
    ASSUME NEW i \in Nat, NEW c \in Nat, NEW d \in Nat, c <= d, NEW b, NEW e, NEW n \in Nat,
           NEW m \in Nat, n <= m, \A k \in 1..n : e[k].sequence = b[k].sequence,
           Reached(i, c, b, n)
    PROVE  Reached(i, d, e, m)
<1>1. CASE i <= c
  BY <1>1 DEF Reached
<1>2. CASE \E k \in 1..n : i <= b[k].sequence
  <2>1. PICK k \in 1..n : i <= b[k].sequence
    BY <1>2
  <2>2. k \in 1..m /\ i <= e[k].sequence
    BY <2>1
  <2> QED BY <2>2 DEF Reached
<1> QED BY <1>1, <1>2 DEF Reached

\* The first item is taken.
LEMMA ReachedAfterTaking ==
    ASSUME NEW i \in Nat, NEW c \in Nat, NEW d \in Nat, c <= d, NEW b \in Seq(Item), b # <<>>,
           \A k \in 1..Len(b) : b[k].sequence \in Nat, b[1].sequence <= d,
           NEW n \in 0..Len(b), Reached(i, c, b, n)
    PROVE  Reached(i, d, Tail(b), IF n = 0 THEN 0 ELSE n - 1)
<1>1. /\ Len(b) \in Nat \ {0} /\ Len(Tail(b)) = Len(b) - 1
      /\ \A k \in 1..Len(b) - 1 : Tail(b)[k] = b[k + 1]
  BY HeadTailProperties, EmptySeq
<1>2. CASE i <= c
  BY <1>2 DEF Reached
<1>3. CASE \E k \in 1..n : i <= b[k].sequence
  <2>1. PICK k \in 1..n : i <= b[k].sequence
    BY <1>3
  <2>2. k \in 1..Len(b) /\ n # 0
    BY <2>1
  <2>3. CASE k = 1
    BY <1>1, <2>1, <2>2, <2>3 DEF Reached
  <2>4. CASE k # 1
    <3>1. k - 1 \in 1..n - 1 /\ k - 1 \in 1..Len(b) - 1 /\ k - 1 + 1 = k
      BY <1>1, <2>1, <2>2, <2>4
    <3>2. Tail(b)[k - 1] = b[k]
      BY <1>1, <3>1
    <3> QED BY <2>1, <2>2, <3>1, <3>2 DEF Reached
  <2> QED BY <2>3, <2>4
<1> QED BY <1>2, <1>3 DEF Reached

LEMMA AgedIs ==
    ASSUME NEW b \in Seq(Item)
    PROVE  /\ Aged(b) \in Seq(Item) /\ Len(Aged(b)) = Len(b)
           /\ \A k \in 1..Len(b) :
                /\ Aged(b)[k].kind = b[k].kind /\ Aged(b)[k].sequence = b[k].sequence
                /\ Aged(b)[k].rows = b[k].rows /\ Aged(b)[k].old
<1>1. Len(b) \in Nat /\ \A k \in 1..Len(b) : b[k] \in Item
  BY ElementOfSeq, LenProperties
<1>2. Aged(b) = [n \in 1..Len(b) |-> [b[n] EXCEPT !.old = TRUE]]
  BY DEF Aged
<1>3. \A item \in Item :
        /\ [item EXCEPT !.old = TRUE] \in Item /\ [item EXCEPT !.old = TRUE].old
        /\ [item EXCEPT !.old = TRUE].kind = item.kind
        /\ [item EXCEPT !.old = TRUE].sequence = item.sequence
        /\ [item EXCEPT !.old = TRUE].rows = item.rows
  BY DEF Item
<1>4. Aged(b) \in [1..Len(b) -> Item]
  BY <1>1, <1>2, <1>3
<1>5. Aged(b) \in Seq(Item) /\ Len(Aged(b)) = Len(b)
  BY <1>1, <1>4, SeqDef, LenProperties, IsASeq
<1>6. \A k \in 1..Len(b) : Aged(b)[k] = [b[k] EXCEPT !.old = TRUE]
  BY <1>2
<1> QED BY <1>1, <1>3, <1>5, <1>6

\* What is replayed are events after the cursor.
LEMMA CatchUpIs ==
    ASSUME NEW after \in Nat, NEW head \in 0..MaxEvents
    PROVE  /\ CatchUp(after, head) \subseteq Item
           /\ \A item \in CatchUp(after, head) :
                /\ item.kind = "event" /\ item.sequence \in after + 1..head
                /\ Detail(log, item.sequence) /\ item = EventItem(item.sequence)
           /\ \A i \in after + 1..head : Detail(log, i) => EventItem(i) \in CatchUp(after, head)
<1>1. CatchUp(after, head) = {EventItem(i) : i \in {j \in after + 1..head : IsDetail(j)}}
  BY DEF CatchUp
<1>2. \A i \in after + 1..head : i \in 0..MaxEvents
  BY SyncAssumption
<1>3. ASSUME NEW item \in CatchUp(after, head)
      PROVE  /\ item \in Item /\ item.kind = "event" /\ item.sequence \in after + 1..head
             /\ Detail(log, item.sequence) /\ item = EventItem(item.sequence)
  <2>1. PICK i \in after + 1..head : IsDetail(i) /\ item = EventItem(i)
    BY <1>1
  <2>2. item.kind = "event" /\ item.sequence = i /\ item \in Item
    BY <1>2, <2>1, ItemsAre
  <2> QED BY <2>1, <2>2, DetailIs
<1>4. ASSUME NEW i \in after + 1..head, Detail(log, i) PROVE EventItem(i) \in CatchUp(after, head)
  <2>1. IsDetail(i)
    BY <1>4, DetailIs
  <2> QED BY <1>1, <2>1
<1> QED BY <1>3, <1>4

\* The parts of the type.
EngineTypes ==
    log \in Seq(Event) /\ latestSequence \in 0..MaxEvents /\ published \in 0..latestSequence
ServerTypes ==
    stage \in Stages /\ request \in Request /\ replay \subseteq Item /\ marked \in BOOLEAN
    /\ liveBuffer \in BufferType
ShownTypes ==
    /\ session \in BOOLEAN /\ open \in BOOLEAN
    /\ thread \in Thread /\ lastSequence \in 0..MaxEvents
    /\ status \in {"empty", "cached", "synchronizing", "live"} /\ error \in BOOLEAN
    /\ awaitingCompletion \in BOOLEAN /\ resumingLive \in BOOLEAN
ItemTypes ==
    buffer \in Seq(Item) /\ applying \in Item /\ (thread.present \/ applying.kind # "event")
OtherTypes ==
    committed \in Copy /\ kept \in Copy /\ confirmed \in BOOLEAN /\ disruptions \in 0..MaxDisruptions

LEMMA Types == TypeOK <=> EngineTypes /\ ServerTypes /\ ShownTypes /\ ItemTypes /\ OtherTypes
BY DEF TypeOK, EngineTypes, ServerTypes, ShownTypes, ItemTypes, OtherTypes

LEMMA TypesPrimed ==
    TypeOK' <=> EngineTypes' /\ ServerTypes' /\ ShownTypes' /\ ItemTypes' /\ OtherTypes'
BY DEF TypeOK, EngineTypes, ServerTypes, ShownTypes, ItemTypes, OtherTypes

LEMMA NothingIs ==
    /\ NoRequest \in Request /\ NoBuffer \in BufferType /\ NoThread \in Thread /\ NoCopy \in Copy
    /\ ~NoThread.present /\ NoCopy.thread = NoThread /\ NoCopy.sequence = 0 /\ 0 \in 0..MaxEvents
    /\ ~NoRequest.resume /\ NoBuffer.marker = 0 /\ NoBuffer.position = 0
    /\ NoBuffer.pending = {} /\ NoBuffer.output = {}
    /\ <<>> \in Seq(Item) /\ Len(<<>>) = 0
<1>1. 0 \in 0..MaxEvents
  BY SyncAssumption
<1>2. NoRequest \in Request /\ ~NoRequest.resume
  BY <1>1 DEF NoRequest, Request
<1>3. NoBuffer \in BufferType
  BY <1>1 DEF NoBuffer, BufferType
<1>4. /\ NoBuffer.marker = 0 /\ NoBuffer.position = 0
      /\ NoBuffer.pending = {} /\ NoBuffer.output = {}
  BY DEF NoBuffer
<1>5. NoThread \in Thread /\ ~NoThread.present
  BY DEF NoThread, Thread
<1>6. NoCopy \in Copy /\ NoCopy.thread = NoThread /\ NoCopy.sequence = 0
  BY <1>1, <1>5 DEF NoCopy, Copy
<1> QED BY <1>1, <1>2, <1>3, <1>4, <1>5, <1>6, EmptySeq

---------------------------------------------------------------------------
(* Type correctness.                                                        *)

LEMMA NoAttemptTypes ==
    ASSUME NEW next \in Stages, NoAttempt(next)
    PROVE  ServerTypes' /\ confirmed' = FALSE
BY NothingIs DEF NoAttempt, ServerTypes

LEMMA ShowNothingTypes ==
    ASSUME ShowNothing, session' \in BOOLEAN
    PROVE  ShownTypes' /\ ItemTypes' /\ committed' = NoCopy
<1>1. ShownTypes'
  BY NothingIs DEF ShowNothing, ShownTypes
<1>2. ItemTypes'
  BY NothingIs, ItemsAre DEF ShowNothing, ItemTypes
<1> QED BY <1>1, <1>2 DEF ShowNothing

LEMMA FailAttemptTypes ==
    ASSUME TypeOK, FailAttempt, disruptions' \in 0..MaxDisruptions
    PROVE  TypeOK'
<1> USE Types DEF FailAttempt
<1>1. EngineTypes'
  BY DEF EngineTypes, engineVars
<1>2. ServerTypes'
  BY NothingIs DEF ServerTypes, Stages
<1>3. ShownTypes'
  BY DEF ShownTypes
<1>4. ItemTypes'
  BY AgedIs DEF ItemTypes
<1>5. OtherTypes'
  BY DEF OtherTypes, cacheVars
<1> QED BY <1>1, <1>2, <1>3, <1>4, <1>5, TypesPrimed

LEMMA SetThreadTypes ==
    ASSUME ShownTypes, NEW t \in Thread, NEW n \in 0..MaxEvents, SetThread(t, n)
    PROVE  /\ thread' \in Thread /\ committed' \in Copy
           /\ status' \in {"empty", "cached", "synchronizing", "live"}
<1>1. status' \in {"empty", "cached", "synchronizing", "live"}
  BY DEF SetThread
<1>2. (status' = "live") \in BOOLEAN
  OBVIOUS
<1>3. committed' \in Copy
  BY <1>2 DEF SetThread, Pair, Copy
<1> QED BY <1>1, <1>3 DEF SetThread

LEMMA ResumeFromIs ==
    ASSUME NEW t \in Thread, NEW n \in 0..MaxEvents
    PROVE  /\ ResumeFrom(t, n) \in Request
           /\ ResumeFrom(t, n).resume => t.present /\ ResumeFrom(t, n).after = n
<1>1. CASE t.present
  <2>1. ResumeFrom(t, n) = [NoRequest EXCEPT !.resume = TRUE, !.after = n]
    BY <1>1 DEF ResumeFrom
  <2> QED BY <1>1, <2>1, NothingIs DEF Request
<1>2. CASE ~t.present
  <2>1. ResumeFrom(t, n) = NoRequest
    BY <1>2 DEF ResumeFrom
  <2> QED BY <2>1, NothingIs
<1> QED BY <1>1, <1>2

LEMMA FlushedIs ==
    ASSUME NEW b \in BufferType
    PROVE  /\ Flushed(b) \in BufferType /\ Flushed(b).pending = {}
           /\ Flushed(b).output = b.output \cup Coalesce(b.pending)
           /\ Flushed(b).position = b.position /\ Flushed(b).marker = b.marker
           /\ Coalesce(b.pending) \subseteq b.pending
<1>1. Coalesce(b.pending) \subseteq b.pending
  BY DEF Coalesce
<1> QED BY <1>1 DEF Flushed, BufferType

LEMMA EngineTypesKept ==
    ASSUME SyncInv, Commit \/ MoveReadModel \/ Publish
    PROVE  TypeOK'
<1>1. TypeOK /\ EngineTypes /\ MaxEvents \in Nat /\ Len(log) \in 1..MaxEvents /\ Len(log) \in Nat
  BY Types, Numbers DEF SyncInv
<1>2. UNCHANGED <<serverVars, clientVars, confirmed, disruptions>>
  BY DEF Commit, MoveReadModel, Publish
<1>3. EngineTypes'
  <2>1. CASE Commit
    <3>1. PICK type \in EventTypes, call \in {log[i].toolCall : i \in 1..Len(log)} \cup {Len(log) + 1} :
            log' = Append(log, [type |-> type, toolCall |-> call])
      BY <2>1 DEF Commit
    <3>2. Len(log) < MaxEvents /\ latestSequence' = latestSequence /\ published' = published
      BY <2>1 DEF Commit
    <3>3. \A i \in 1..Len(log) : log[i] \in Event
      BY <1>1, ElementOfSeq DEF EngineTypes
    <3>4. \A i \in 1..Len(log) : log[i].toolCall \in Sequences \cup {NoCall}
      BY <3>3 DEF Event
    <3>5. call \in Sequences \cup {NoCall}
      BY <1>1, <3>2, <3>4 DEF Sequences
    <3>6. [type |-> type, toolCall |-> call] \in Event
      BY <3>5 DEF Event
    <3>7. log' \in Seq(Event)
      BY <1>1, <3>1, <3>6, AppendProperties DEF EngineTypes
    <3> QED BY <1>1, <3>2, <3>7 DEF EngineTypes
  <2>2. CASE MoveReadModel
    BY <1>1, <2>2 DEF MoveReadModel, EngineTypes
  <2>3. CASE Publish
    BY <1>1, <2>3 DEF Publish, EngineTypes
  <2> QED BY <2>1, <2>2, <2>3
<1>4. ServerTypes'
  BY <1>1, <1>2, Types DEF ServerTypes, serverVars
<1>5. ShownTypes'
  BY <1>1, <1>2, Types DEF ShownTypes, clientVars, shownVars
<1>6. ItemTypes'
  BY <1>1, <1>2, Types DEF ItemTypes, clientVars, shownVars
<1>7. OtherTypes'
  BY <1>1, <1>2, Types DEF OtherTypes, clientVars, cacheVars
<1> QED BY <1>3, <1>4, <1>5, <1>6, <1>7, TypesPrimed

LEMMA ServerStepTypes ==
    ASSUME TypeOK, ServerTypes', UNCHANGED <<engineVars, clientVars, confirmed, disruptions>>
    PROVE  TypeOK'
<1>1. EngineTypes'
  BY Types DEF EngineTypes, engineVars
<1>2. ShownTypes'
  BY Types DEF ShownTypes, clientVars, shownVars
<1>3. ItemTypes'
  BY Types DEF ItemTypes, clientVars, shownVars
<1>4. OtherTypes'
  BY Types DEF OtherTypes, clientVars, cacheVars
<1> QED BY <1>1, <1>2, <1>3, <1>4, TypesPrimed

LEMMA ServerTypesKept ==
    ASSUME SyncInv,
           \/ Attach \/ DecideResume \/ ReadSnapshot \/ OfferEvent \/ FlushWindow \/ OfferMarker
    PROVE  TypeOK'
<1>1. TypeOK /\ ServerTypes /\ EngineTypes /\ MaxEvents \in Nat /\ Len(log) \in 1..MaxEvents
      /\ latestSequence \in Nat /\ latestSequence <= Len(log) /\ published <= latestSequence
      /\ Len(log) \in Nat /\ published \in Nat
  BY Types, Numbers DEF SyncInv
<1>2. UNCHANGED <<engineVars, clientVars, confirmed, disruptions>>
  BY DEF Attach, DecideResume, ReadSnapshot, OfferEvent, FlushWindow, OfferMarker
<1>3. CASE Attach
  <2>1. liveBuffer' \in BufferType
    BY <1>1, <1>3, NothingIs DEF Attach, AttachPosition, BufferType
  <2> QED BY <1>1, <1>2, <1>3, <2>1, ServerStepTypes DEF Attach, ServerTypes, Stages
<1>4. CASE DecideResume
  <2>1. request.after \in Nat /\ latestSequence \in 0..MaxEvents
    BY <1>1 DEF ServerTypes, Request
  <2>2. request' \in Request
    BY <1>1, <1>4, <2>1 DEF DecideResume, ServerTypes, Request
  <2>3. replay' \subseteq Item
    BY <1>1, <1>4, <2>1, CatchUpIs DEF DecideResume, ServerTypes
  <2> QED BY <1>1, <1>2, <1>4, <2>2, <2>3, ServerStepTypes DEF DecideResume, ServerTypes, Stages
<1>5. CASE ReadSnapshot
  <2>1. request.after \in Nat /\ request.head \in 0..MaxEvents /\ Len(log) \in 0..MaxEvents
    BY <1>1 DEF ServerTypes, Request
  <2>2. request' \in Request
    BY <1>1, <1>5, <2>1 DEF ReadSnapshot, ServerTypes, Request
  <2>3. RowsAt(Len(log)) \subseteq Sequences
    BY <1>1, RowsAre, RowsIn DEF Sequences
  <2>4. replay' \subseteq Item
    <3>1. SnapshotItem(Len(log), RowsAt(Len(log))) \in Item
      BY <2>1, <2>3, ItemsAre
    <3>2. CatchUp(request.after, request.head) \subseteq Item
      BY <2>1, CatchUpIs
    <3> QED BY <1>5, <3>1, <3>2 DEF ReadSnapshot
  <2> QED BY <1>1, <1>2, <1>5, <2>2, <2>4, ServerStepTypes DEF ReadSnapshot, ServerTypes, Stages
<1>6. CASE OfferEvent
  <2> DEFINE next == liveBuffer.position + 1
             moved == [liveBuffer EXCEPT !.position = next]
             held == [moved EXCEPT !.pending = @ \cup {next}]
  <2>1. next \in 1..MaxEvents /\ liveBuffer \in BufferType /\ liveBuffer.position < published
    BY <1>1, <1>6 DEF OfferEvent, ServerTypes, BufferType
  <2>2. liveBuffer' = moved \/ liveBuffer' = held \/ liveBuffer' = Flushed(held)
    BY <1>6 DEF OfferEvent
  <2> HIDE DEF next
  <2>3. moved \in BufferType
    BY <2>1 DEF BufferType
  <2>4. held \in BufferType
    BY <2>1, <2>3 DEF BufferType, Sequences
  <2> HIDE DEF moved, held
  <2>5. liveBuffer' \in BufferType
    BY <2>2, <2>3, <2>4, FlushedIs
  <2> QED BY <1>1, <1>2, <1>6, <2>5, ServerStepTypes DEF OfferEvent, ServerTypes
<1>7. CASE FlushWindow
  <2>1. liveBuffer' \in BufferType
    BY <1>1, <1>7, FlushedIs DEF FlushWindow, ServerTypes
  <2> QED BY <1>1, <1>2, <1>7, <2>1, ServerStepTypes DEF FlushWindow, ServerTypes
<1>8. CASE OfferMarker
  <2>1. liveBuffer \in BufferType /\ liveBuffer.position \in 0..MaxEvents /\ request.covers \in 0..MaxEvents
    BY <1>1 DEF ServerTypes, BufferType, Request
  <2>2. Flushed(liveBuffer) \in BufferType
    BY <2>1, FlushedIs
  <2>3. liveBuffer' \in BufferType
    BY <1>8, <2>1, <2>2 DEF OfferMarker, MarkerBuffer, BufferType
  <2>4. Max({request.covers, liveBuffer.position}) \in 0..MaxEvents
    BY <1>1, <2>1, GreaterOf
  <2>5. request' = [request EXCEPT !.covers = Max({request.covers, liveBuffer.position})]
    BY <1>8 DEF OfferMarker
  <2>6. request' \in Request
    BY <1>1, <2>4, <2>5 DEF ServerTypes, Request
  <2> QED BY <1>1, <1>2, <1>8, <2>3, <2>6, ServerStepTypes DEF OfferMarker, ServerTypes
<1> QED BY <1>3, <1>4, <1>5, <1>6, <1>7, <1>8

LEMMA SendTypesKept ==
    ASSUME SyncInv, SendReplay \/ SendLive
    PROVE  TypeOK'
<1>1. TypeOK /\ EngineTypes /\ ServerTypes /\ ShownTypes /\ ItemTypes /\ OtherTypes
  BY Types DEF SyncInv
<1>2. UNCHANGED <<engineVars, stage, request, marked, session, open, shownVars, applying,
                  cacheVars, confirmed, disruptions>>
  BY DEF SendReplay, SendLive
<1>3. EngineTypes'
  BY <1>1, <1>2 DEF EngineTypes, engineVars
<1>4. ShownTypes'
  BY <1>1, <1>2 DEF ShownTypes, shownVars
<1>5. OtherTypes'
  BY <1>1, <1>2 DEF OtherTypes, cacheVars
<1>6. \A item : Deliver(item) /\ item \in Item => buffer' \in Seq(Item)
  BY <1>1, AppendProperties DEF Deliver, ItemTypes
<1>7. replay' \subseteq Item /\ liveBuffer' \in BufferType /\ buffer' \in Seq(Item)
  <2>1. CASE SendReplay
    BY <1>1, <1>6, <2>1 DEF SendReplay, ServerTypes
  <2>2. CASE SendLive
    <3>1. replay' = replay
      BY <2>2 DEF SendLive
    <3>2. CASE \E i \in liveBuffer.output :
                 Deliver(EventItem(i)) /\ liveBuffer' = [liveBuffer EXCEPT !.output = @ \ {i}]
      <4>1. PICK i \in liveBuffer.output :
                 Deliver(EventItem(i)) /\ liveBuffer' = [liveBuffer EXCEPT !.output = @ \ {i}]
        BY <3>2
      <4>2. i \in 0..MaxEvents
        BY <1>1, SyncAssumption DEF ServerTypes, BufferType, Sequences
      <4>3. liveBuffer' \in BufferType
        BY <1>1, <4>1 DEF ServerTypes, BufferType
      <4> QED BY <1>1, <1>6, <3>1, <4>1, <4>2, <4>3, ItemsAre DEF ServerTypes
    <3>3. CASE Deliver(Marker) /\ liveBuffer' = [liveBuffer EXCEPT !.marker = 0]
      <4>1. liveBuffer' \in BufferType
        BY <1>1, <3>3, NothingIs DEF ServerTypes, BufferType
      <4> QED BY <1>1, <1>6, <3>1, <3>3, <4>1, ItemsAre DEF ServerTypes
    <3> QED BY <2>2, <3>2, <3>3 DEF SendLive
  <2> QED BY <2>1, <2>2
<1>8. ServerTypes'
  BY <1>1, <1>2, <1>7 DEF ServerTypes
<1>9. ItemTypes'
  BY <1>1, <1>2, <1>7 DEF ItemTypes, shownVars
<1> QED BY <1>3, <1>4, <1>5, <1>8, <1>9, TypesPrimed

LEMMA LogRowsAreRows ==
    ASSUME SyncInv
    PROVE  [present |-> TRUE, rows |-> RowsAt(Len(log))] \in Thread /\ Len(log) \in 0..MaxEvents
<1>1. Len(log) \in Nat /\ Len(log) \in 1..MaxEvents /\ MaxEvents \in Nat
  BY Numbers DEF SyncInv
<1>2. RowsAt(Len(log)) \subseteq Sequences
  BY <1>1, RowsAre, RowsIn DEF Sequences
<1> QED BY <1>1, <1>2 DEF Thread

LEMMA ClientTypesKept ==
    ASSUME SyncInv,
           \/ MakeSubscribeInput \/ LoadSnapshot \/ TakeItem \/ FinishItem \/ RetryAfterFailure \/ Save
    PROVE  TypeOK'
<1>1. TypeOK /\ EngineTypes /\ ServerTypes /\ ShownTypes /\ ItemTypes /\ OtherTypes
  BY Types DEF SyncInv
<1>2. EngineTypes'
  <2>1. UNCHANGED engineVars
    BY DEF MakeSubscribeInput, LoadSnapshot, TakeItem, FinishItem, RetryAfterFailure, Save, Unbothered
  <2> QED BY <1>1, <2>1 DEF EngineTypes, engineVars
<1>3. UNCHANGED disruptions
  BY DEF MakeSubscribeInput, LoadSnapshot, TakeItem, FinishItem, RetryAfterFailure, Save, Unbothered
<1>4. CASE MakeSubscribeInput
  <2> USE <1>4 DEF MakeSubscribeInput
  <2>1. ResumeFrom(thread, lastSequence) \in Request
    BY <1>1, ResumeFromIs DEF ShownTypes
  <2>2. request' \in Request
    BY <1>1, <2>1 DEF ShownTypes, Request
  <2>3. ServerTypes'
    BY <1>1, <2>2 DEF ServerTypes, Stages
  <2>4. ShownTypes'
    BY <1>1 DEF ShownTypes
  <2>5. ItemTypes'
    BY <1>1 DEF ItemTypes
  <2>6. OtherTypes'
    BY <1>1, <1>3 DEF OtherTypes, cacheVars
  <2> QED BY <1>2, <2>3, <2>4, <2>5, <2>6, TypesPrimed
<1>5. CASE LoadSnapshot
  <2> USE <1>5 DEF LoadSnapshot
  <2>1. /\ thread' \in Thread /\ lastSequence' \in 0..MaxEvents /\ committed' \in Copy
        /\ status' \in {"empty", "cached", "synchronizing", "live"}
    BY <1>1, LogRowsAreRows, SetThreadTypes DEF ShownTypes, OtherTypes
  <2>2. request' \in Request
    BY <2>1, ResumeFromIs
  <2>3. ServerTypes'
    BY <1>1, <2>2 DEF ServerTypes, Stages
  <2>4. ShownTypes'
    BY <1>1, <2>1 DEF ShownTypes
  <2>5. ItemTypes'
    BY <1>1, ItemsAre DEF ItemTypes
  <2>6. OtherTypes'
    BY <1>1, <1>3, <2>1 DEF OtherTypes
  <2> QED BY <1>2, <2>3, <2>4, <2>5, <2>6, TypesPrimed
<1>6. CASE TakeItem
  <2> USE <1>6 DEF TakeItem
  <2>1. /\ buffer \in Seq(Item) /\ Tail(buffer) \in Seq(Item) /\ Head(buffer) \in Item
        /\ Head(buffer) = buffer[1] /\ 1 \in 1..Len(buffer)
    BY <1>1, HeadTailProperties, EmptySeq, LenProperties DEF ItemTypes
  <2>2. Head(buffer).sequence \in 0..MaxEvents
    BY <2>1 DEF Item
  <2>3. lastSequence' \in 0..MaxEvents
    BY <1>1, <2>2 DEF ShownTypes
  <2>4. applying' \in Item
    BY <1>1, <2>1 DEF ItemTypes
  <2>5. /\ status' \in {"empty", "cached", "synchronizing", "live"} /\ awaitingCompletion' \in BOOLEAN
    BY <1>1 DEF ShownTypes
  <2>6. confirmed' \in BOOLEAN
    BY <1>1 DEF OtherTypes
  <2>7. committed' \in Copy
    <3>1. (status' = "live") \in BOOLEAN /\ (status = "live") \in BOOLEAN
      OBVIOUS
    <3>2. Pair(thread, lastSequence, status' = "live") \in Copy
          /\ Pair(thread, lastSequence, status = "live") \in Copy
      BY <1>1, <3>1 DEF Pair, Copy, ShownTypes
    <3> QED BY <1>1, <3>2 DEF OtherTypes
  <2>8. thread'.present \/ applying'.kind # "event"
    <3>1. CASE applying' = applying
      BY <3>1, ItemsAre
    <3>2. CASE applying' = Head(buffer) /\ ~thread.present
      <4>1. applying = NoItem /\ PresentInv
        BY DEF SyncInv, ClientInv
      <4>2. ~SnapshotBefore(1)
        BY <4>1, ItemsAre DEF SnapshotBefore
      <4> QED BY <2>1, <3>2, <4>1, <4>2 DEF PresentInv
    <3> QED BY <3>1, <3>2
  <2>9. ServerTypes'
    BY <1>1 DEF ServerTypes, serverVars
  <2>10. ShownTypes'
    BY <1>1, <2>3, <2>5 DEF ShownTypes
  <2>11. ItemTypes'
    BY <2>1, <2>4, <2>8 DEF ItemTypes
  <2>12. OtherTypes'
    BY <1>1, <1>3, <2>6, <2>7 DEF OtherTypes
  <2> QED BY <1>2, <2>9, <2>10, <2>11, <2>12, TypesPrimed
<1>7. CASE FinishItem
  <2> USE <1>7 DEF FinishItem
  <2> DEFINE t == IF applying.kind = "snapshot"
                  THEN [present |-> TRUE, rows |-> applying.rows]
                  ELSE [thread EXCEPT !.rows = @ \cup {applying.sequence}]
  <2>1. applying.kind # "snapshot" => applying.kind = "event" /\ applying.sequence \in Sequences
    <3>1. applying # NoItem /\ ShownInv /\ applying.sequence \in Nat
      BY <1>1, SyncAssumption DEF SyncInv, ClientInv, ItemTypes, Item
    <3>2. lastSequence <= Len(log) /\ Len(log) \in 1..MaxEvents /\ MaxEvents \in Nat
      BY <3>1, Numbers DEF ShownInv, SyncInv
    <3> QED BY <3>1, <3>2 DEF ShownInv, Sequences
  <2>2. t \in Thread
    <3>1. CASE applying.kind = "snapshot"
      <4>1. applying.rows \subseteq Sequences
        BY <1>1 DEF ItemTypes, Item
      <4> QED BY <3>1, <4>1 DEF Thread
    <3>2. CASE applying.kind # "snapshot"
      BY <1>1, <2>1, <3>2 DEF Thread, ShownTypes
    <3> QED BY <3>1, <3>2
  <2> HIDE DEF t
  <2>3. CASE applying.kind = "event" /\ ~thread.present
    BY <1>1, <2>3 DEF ItemTypes
  <2>4. CASE SetThread(t, lastSequence)
    <3>1. /\ thread' \in Thread /\ committed' \in Copy
          /\ status' \in {"empty", "cached", "synchronizing", "live"}
      BY <1>1, <2>2, <2>4, SetThreadTypes DEF ShownTypes
    <3>2. ServerTypes'
      BY <1>1 DEF ServerTypes, serverVars
    <3>3. ShownTypes'
      BY <1>1, <3>1 DEF ShownTypes
    <3>4. ItemTypes'
      BY <1>1, ItemsAre DEF ItemTypes
    <3>5. OtherTypes'
      BY <1>1, <1>3, <3>1 DEF OtherTypes
    <3> QED BY <1>2, <3>2, <3>3, <3>4, <3>5, TypesPrimed
  <2> QED BY <2>3, <2>4 DEF t
<1>8. CASE RetryAfterFailure \/ Save
  <2>1. UNCHANGED <<request, replay, marked, liveBuffer, session, buffer, open, shownVars,
                    applying, committed, confirmed>>
    BY <1>8 DEF RetryAfterFailure, Save, serverVars, clientVars, cacheVars
  <2>2. stage' = "starting" \/ stage' = stage
    BY <1>8 DEF RetryAfterFailure, Save, serverVars
  <2>3. kept' \in Copy
    <3>1. [committed EXCEPT !.live = FALSE] \in Copy
      BY <1>1 DEF OtherTypes, Copy
    <3> QED BY <1>1, <1>8, <3>1 DEF OtherTypes, RetryAfterFailure, Save, Saved, clientVars, cacheVars
  <2>4. ServerTypes'
    BY <1>1, <2>1, <2>2 DEF ServerTypes, Stages
  <2>5. ShownTypes'
    BY <1>1, <2>1 DEF ShownTypes, shownVars
  <2>6. ItemTypes'
    BY <1>1, <2>1 DEF ItemTypes, shownVars
  <2>7. OtherTypes'
    BY <1>1, <1>3, <2>1, <2>3 DEF OtherTypes
  <2> QED BY <1>2, <2>4, <2>5, <2>6, <2>7, TypesPrimed
<1> QED BY <1>4, <1>5, <1>6, <1>7, <1>8

LEMMA ScopeTypesKept ==
    ASSUME SyncInv,
           \/ ReadFails \/ ThreadNotFound \/ Overflow
           \/ OpenScope \/ SessionUp \/ SessionLost \/ Resubscribe \/ CloseScope \/ Reload
    PROVE  TypeOK'
<1>1. TypeOK /\ EngineTypes /\ ServerTypes /\ ShownTypes /\ ItemTypes /\ OtherTypes
  BY Types DEF SyncInv
<1>2. Spend => EngineTypes' /\ disruptions' \in 0..MaxDisruptions
  BY <1>1, SyncAssumption DEF Spend, EngineTypes, engineVars, OtherTypes
<1>3. Unbothered => EngineTypes' /\ disruptions' \in 0..MaxDisruptions
  BY <1>1 DEF Unbothered, EngineTypes, engineVars, OtherTypes
<1>4. CASE ReadFails \/ ThreadNotFound \/ Overflow
  <2>1. FailAttempt /\ disruptions' \in 0..MaxDisruptions
    BY <1>1, <1>4, SyncAssumption DEF ReadFails, ThreadNotFound, Overflow, OtherTypes
  <2> QED BY <1>1, <2>1, FailAttemptTypes
<1>5. CASE OpenScope
  <2> USE <1>5 DEF OpenScope
  <2>1. ServerTypes' /\ confirmed' = FALSE
    BY NoAttemptTypes DEF Stages
  <2>2. kept.thread \in Thread /\ kept.sequence \in 0..MaxEvents /\ kept.live \in BOOLEAN
    BY <1>1 DEF OtherTypes, Copy
  <2>3. ShownTypes'
    BY <1>1, <2>2 DEF ShownTypes, StatusWithoutLiveData
  <2>4. ItemTypes'
    <3>1. applying = NoItem
      BY DEF SyncInv, ScopeInv
    <3> QED BY <1>1, <3>1, ItemsAre DEF ItemTypes
  <2>5. OtherTypes'
    BY <1>1, <1>3, <2>1 DEF OtherTypes
  <2> QED BY <1>3, <2>1, <2>3, <2>4, <2>5, TypesPrimed
<1>6. CASE SessionUp
  <2> USE <1>6 DEF SessionUp
  <2>1. ServerTypes' /\ confirmed' = FALSE
    BY NoAttemptTypes DEF Stages
  <2>2. ShownTypes'
    BY <1>1 DEF ShownTypes
  <2>3. ItemTypes'
    BY <1>1 DEF ItemTypes
  <2>4. OtherTypes'
    BY <1>1, <1>3, <2>1 DEF OtherTypes, cacheVars
  <2> QED BY <1>3, <2>1, <2>2, <2>3, <2>4, TypesPrimed
<1>7. CASE SessionLost
  <2> USE <1>7 DEF SessionLost
  <2>1. ServerTypes' /\ confirmed' = FALSE
    BY NoAttemptTypes DEF Stages
  <2>2. EngineTypes'
    <3>1. Len(log) \in 0..MaxEvents
      BY LogRowsAreRows
    <3>2. log' = log
      OBVIOUS
    <3>3. CASE UNCHANGED <<latestSequence, published>>
      BY <1>1, <3>2, <3>3 DEF EngineTypes
    <3>4. CASE latestSequence' = Len(log) /\ published' = Len(log)
      BY <1>1, <3>1, <3>2, <3>4 DEF EngineTypes
    <3> QED BY <3>3, <3>4
  <2>3. ShownTypes'
    BY <1>1 DEF ShownTypes, StatusWithoutLiveData
  <2>4. ItemTypes'
    BY <1>1, AgedIs DEF ItemTypes
  <2>5. disruptions' \in 0..MaxDisruptions
    BY <1>1, SyncAssumption DEF OtherTypes
  <2>6. OtherTypes'
    BY <1>1, <2>1, <2>5 DEF OtherTypes, cacheVars
  <2> QED BY <2>1, <2>2, <2>3, <2>4, <2>6, TypesPrimed
<1>8. CASE Resubscribe
  <2> USE <1>8 DEF Resubscribe
  <2>1. ServerTypes' /\ confirmed' = FALSE
    BY NoAttemptTypes DEF Stages
  <2>2. ShownTypes'
    BY <1>1 DEF ShownTypes, shownVars
  <2>3. ItemTypes'
    BY <1>1, AgedIs DEF ItemTypes, shownVars
  <2>4. OtherTypes'
    BY <1>1, <1>2, <2>1 DEF OtherTypes, cacheVars
  <2> QED BY <1>2, <2>1, <2>2, <2>3, <2>4, TypesPrimed
<1>9. CASE CloseScope \/ Reload
  <2>1. ShowNothing /\ Spend /\ NoAttempt("idle") /\ session' \in BOOLEAN
    BY <1>1, <1>9 DEF CloseScope, Reload, ShownTypes
  <2>2. ServerTypes' /\ confirmed' = FALSE
    BY <2>1, NoAttemptTypes DEF Stages
  <2>3. ShownTypes' /\ ItemTypes' /\ committed' = NoCopy
    BY <2>1, ShowNothingTypes
  <2>4. \A c \in Copy : Saved(c) \in Copy
    BY DEF Saved, Copy
  <2>5. kept' \in Copy
    BY <1>1, <1>9, <2>4 DEF CloseScope, Reload, OtherTypes
  <2>6. OtherTypes'
    BY <1>2, <2>1, <2>2, <2>3, <2>5, NothingIs DEF OtherTypes
  <2> QED BY <1>2, <2>1, <2>2, <2>3, <2>6, TypesPrimed
<1> QED BY <1>4, <1>5, <1>6, <1>7, <1>8, <1>9

LEMMA TypesKept ==
    ASSUME SyncInv, [Next]_vars
    PROVE  TypeOK'
<1>1. CASE Commit \/ MoveReadModel \/ Publish
  BY <1>1, EngineTypesKept
<1>2. CASE \/ Attach \/ DecideResume \/ ReadSnapshot \/ OfferEvent \/ FlushWindow \/ OfferMarker
  BY <1>2, ServerTypesKept
<1>3. CASE SendReplay \/ SendLive
  BY <1>3, SendTypesKept
<1>4. CASE \/ MakeSubscribeInput \/ LoadSnapshot \/ TakeItem \/ FinishItem \/ RetryAfterFailure \/ Save
  BY <1>4, ClientTypesKept
<1>5. CASE \/ ReadFails \/ ThreadNotFound \/ Overflow
           \/ OpenScope \/ SessionUp \/ SessionLost \/ Resubscribe \/ CloseScope \/ Reload
  BY <1>5, ScopeTypesKept
<1>6. CASE UNCHANGED vars
  <2>1. TypeOK /\ EngineTypes /\ ServerTypes /\ ShownTypes /\ ItemTypes /\ OtherTypes
    BY Types DEF SyncInv
  <2>2. UNCHANGED <<engineVars, clientVars, confirmed, disruptions>> /\ UNCHANGED serverVars
    BY <1>6 DEF vars
  <2>3. ServerTypes'
    BY <2>1, <2>2 DEF ServerTypes, serverVars
  <2> QED BY <2>1, <2>2, <2>3, ServerStepTypes
<1> QED BY <1>1, <1>2, <1>3, <1>4, <1>5, <1>6
     DEF Next, Engine, Subscription, Client, Switch, Rest
---------------------------------------------------------------------------
(* The invariant holds at first, and when an attempt or a scope ends.          *)

SameItems(b, e) ==
    /\ Len(e) = Len(b)
    /\ \A k \in 1..Len(b) :
         e[k].kind = b[k].kind /\ e[k].sequence = b[k].sequence /\ e[k].rows = b[k].rows

LEMMA ReachedSame ==
    ASSUME NEW b, NEW e, Len(b) \in Nat, SameItems(b, e), NEW i, NEW c, NEW n \in 0..Len(b)
    PROVE  Reached(i, c, e, n) <=> Reached(i, c, b, n)
<1>1. \A k \in 1..n : e[k].sequence = b[k].sequence
  BY DEF SameItems
<1> QED BY <1>1 DEF Reached

LEMMA ClientKept ==
    ASSUME SyncInv, log' = log, SameItems(buffer, buffer'),
           UNCHANGED <<thread, lastSequence, applying, committed, kept>>
    PROVE  ClientInv'
<1>1. ClientInv /\ Len(buffer) \in Nat /\ Len(buffer') = Len(buffer)
  BY Numbers DEF SyncInv, SameItems
<1>2. \A k \in 1..Len(buffer) : /\ buffer'[k].kind = buffer[k].kind
                                /\ buffer'[k].sequence = buffer[k].sequence
                                /\ buffer'[k].rows = buffer[k].rows
  BY DEF SameItems
<1>3. BufferInv'
  <2> SUFFICES ASSUME NEW k \in 1..Len(buffer) PROVE ItemInv(k)'
    BY <1>1 DEF BufferInv
  <2>1. ItemInv(k) /\ k - 1 \in 0..Len(buffer) /\ \A j \in 1..k - 1 : j \in 1..Len(buffer)
    BY <1>1 DEF ClientInv, BufferInv
  <2>2. \A i : Reached(i, lastSequence, buffer', k - 1) <=> Reached(i, lastSequence, buffer, k - 1)
    BY <1>1, <2>1, ReachedSame
  <2>3. \A j \in 1..k - 1 : buffer'[j].sequence = buffer[j].sequence
    BY <1>2, <2>1
  <2> QED BY <1>2, <2>1, <2>2, <2>3 DEF ItemInv, IsSnapshot
<1>4. ShownInv'
  BY <1>1 DEF ClientInv, ShownInv, IsSnapshot
<1>5. KeptInv'
  BY <1>1 DEF ClientInv, KeptInv
<1>6. PresentInv'
  <2> SUFFICES ASSUME ~thread.present
               PROVE  /\ applying.kind # "event"
                      /\ \A k \in 1..Len(buffer) : buffer'[k].kind = "event" => SnapshotBefore(k)'
    BY <1>1 DEF PresentInv
  <2>1. applying.kind # "event"
    BY <1>1 DEF ClientInv, PresentInv
  <2>2. ASSUME NEW k \in 1..Len(buffer), buffer'[k].kind = "event" PROVE SnapshotBefore(k)'
    <3>1. SnapshotBefore(k) /\ \A j \in 1..k - 1 : j \in 1..Len(buffer)
      BY <1>1, <1>2, <2>2 DEF ClientInv, PresentInv
    <3> QED BY <1>2, <3>1 DEF SnapshotBefore
  <2> QED BY <2>1, <2>2
<1> QED BY <1>3, <1>4, <1>5, <1>6 DEF ClientInv

\* There is no attempt, or one that has just begun.
LEMMA NoAttemptIs ==
    ASSUME liveBuffer' = NoBuffer, replay' = {}, marked' = FALSE, confirmed' = FALSE,
           stage' \in {"idle", "starting", "retrying"},
           \A k \in 1..Len(buffer') : buffer'[k].kind = "synchronized" => buffer'[k].old
    PROVE  ServerInv'
<1>1. ~Attached'
  BY DEF Attached
<1>2. AttemptInv'
  BY <1>1, NothingIs DEF AttemptInv
<1>3. LiveInv'
  BY <1>1 DEF LiveInv
<1>4. ReplayInv'
  BY DEF ReplayInv
<1>5. StreamInv' /\ ComesInv' /\ RecreatedInv'
  BY DEF StreamInv, ComesInv, RecreatedInv
<1>6. MarkerInv'
  BY NothingIs DEF MarkerInv, IsFreshMarker
<1> QED BY <1>2, <1>3, <1>4, <1>5, <1>6 DEF ServerInv

LEMMA AttemptOver ==
    ASSUME SyncInv, log' = log, liveBuffer' = NoBuffer, replay' = {}, marked' = FALSE,
           confirmed' = FALSE, stage' \in {"idle", "starting", "retrying"},
           \/ buffer' = Aged(buffer)
           \/ buffer' = buffer /\ ~marked,
           UNCHANGED <<thread, lastSequence, applying, committed, kept>>
    PROVE  ClientInv' /\ ServerInv'
<1>1. buffer \in Seq(Item)
  BY DEF SyncInv, TypeOK
<1>2. SameItems(buffer, buffer')
  BY <1>1, AgedIs DEF SameItems
<1>3. \A k \in 1..Len(buffer') : buffer'[k].kind = "synchronized" => buffer'[k].old
  <2>1. CASE buffer' = Aged(buffer)
    BY <1>1, <2>1, AgedIs
  <2>2. CASE buffer' = buffer /\ ~marked
    BY <2>2 DEF SyncInv, ServerInv, MarkerInv, IsFreshMarker
  <2> QED BY <2>1, <2>2
<1> QED BY <1>2, <1>3, ClientKept, NoAttemptIs

LEMMA AttemptOverKeeps ==
    ASSUME SyncInv, ReadFails \/ ThreadNotFound \/ Overflow \/ SessionUp \/ SessionLost \/ Resubscribe
    PROVE  OrderInv' /\ ScopeInv' /\ ClientInv' /\ ServerInv'
<1>1. Len(log) \in 1..MaxEvents /\ Len(log) \in Nat
      /\ latestSequence <= Len(log) /\ published <= latestSequence
  BY Numbers DEF SyncInv, OrderInv
<1>2. ScopeInv /\ AttemptInv /\ session \in BOOLEAN /\ open \in BOOLEAN /\ buffer \in Seq(Item)
  BY DEF SyncInv, ServerInv, TypeOK
<1>3. CASE ReadFails \/ ThreadNotFound \/ Overflow
  <2>1. FailAttempt
    BY <1>3 DEF ReadFails, ThreadNotFound, Overflow
  <2>2. stage # "idle"
    BY <1>3 DEF ReadFails, ThreadNotFound, Overflow, Attached
  <2>3. open /\ session
    BY <1>2, <2>2 DEF ScopeInv
  <2>4. open' /\ session'
    BY <2>1, <2>3 DEF FailAttempt
  <2>5. ScopeInv'
    BY <2>4 DEF ScopeInv
  <2>6. OrderInv'
    BY <1>1, <2>1 DEF OrderInv, FailAttempt, engineVars
  <2>7. ClientInv' /\ ServerInv'
    BY <2>1, AttemptOver DEF FailAttempt, engineVars, cacheVars
  <2> QED BY <2>5, <2>6, <2>7
<1>4. CASE SessionUp
  <2>1. ~marked
    BY <1>2, <1>4 DEF SessionUp, ScopeInv, AttemptInv
  <2>2. OrderInv'
    BY <1>1, <1>4 DEF OrderInv, SessionUp, Unbothered, engineVars
  <2>3. ScopeInv'
    <3>1. session' /\ (open' <=> open) /\ (~open => stage' = "idle")
      BY <1>2, <1>4 DEF SessionUp, NoAttempt
    <3>2. applying' = applying /\ buffer' = buffer
      BY <1>4 DEF SessionUp
    <3> QED BY <1>2, <3>1, <3>2 DEF ScopeInv
  <2>4. ClientInv' /\ ServerInv'
    BY <1>4, <2>1, AttemptOver DEF SessionUp, NoAttempt, Unbothered, engineVars, cacheVars
  <2> QED BY <2>2, <2>3, <2>4
<1>5. CASE SessionLost
  <2>1. OrderInv'
    BY <1>1, <1>5 DEF OrderInv, SessionLost
  <2>2. ScopeInv'
    <3>1. stage' = "idle" /\ (open' <=> open) /\ applying' = applying /\ buffer' = Aged(buffer)
      BY <1>5 DEF SessionLost, NoAttempt
    <3>2. buffer = <<>> => Aged(buffer) = <<>>
      BY <1>2, AgedIs, EmptySeq
    <3> QED BY <1>2, <3>1, <3>2 DEF ScopeInv
  <2>3. ClientInv' /\ ServerInv'
    BY <1>5, AttemptOver DEF SessionLost, NoAttempt, cacheVars
  <2> QED BY <2>1, <2>2, <2>3
<1>6. CASE Resubscribe
  <2>1. OrderInv'
    BY <1>1, <1>6 DEF OrderInv, Resubscribe, Spend, engineVars
  <2>2. ScopeInv'
    <3>1. open' /\ session'
      BY <1>6 DEF Resubscribe
    <3> QED BY <3>1 DEF ScopeInv
  <2>3. ClientInv' /\ ServerInv'
    BY <1>6, AttemptOver DEF Resubscribe, NoAttempt, Spend, engineVars, cacheVars, shownVars
  <2> QED BY <2>1, <2>2, <2>3
<1> QED BY <1>3, <1>4, <1>5, <1>6

\* A scope that shows a thread and cursor that fit, and nothing on its way.
LEMMA ScopeBegins ==
    ASSUME SyncInv, NEW c \in Copy, c.sequence <= Len(log), Suits(log, c.thread, c.sequence),
           log' = log, thread' = c.thread, lastSequence' = c.sequence,
           buffer' = <<>>, applying' = NoItem, committed' \in {committed, kept, NoCopy},
           kept' \in {committed, kept, Saved(committed), Saved(kept)},
           NEW next \in {"idle", "starting"}, NoAttempt(next)
    PROVE  ClientInv' /\ ServerInv'
<1>1. KeptInv /\ Len(buffer') = 0 /\ applying'.kind = "none" /\ Len(log) \in Nat
  BY NothingIs, ItemsAre, Numbers DEF SyncInv, ClientInv
<1>2. BufferInv'
  BY <1>1 DEF BufferInv
<1>3. ShownInv'
  BY <1>1 DEF ShownInv
<1>4. PresentInv'
  BY <1>1 DEF PresentInv
<1>5. KeptInv'
  <2>1. committed \in Copy /\ kept \in Copy
    BY DEF SyncInv, TypeOK
  <2>2. \A d \in Copy : Saved(d).thread = d.thread /\ Saved(d).sequence = d.sequence
    BY DEF Saved, Copy
  <2>3. \A d \in {committed, kept, Saved(committed), Saved(kept), NoCopy} :
          d.sequence <= Len(log) /\ Suits(log, d.thread, d.sequence)
    <3>1. Suits(log, NoThread, 0)
      BY NothingIs DEF Suits
    <3> QED BY <1>1, <2>1, <2>2, <3>1, NothingIs DEF KeptInv
  <2>4. committed' \in {committed, kept, Saved(committed), Saved(kept), NoCopy}
        /\ kept' \in {committed, kept, Saved(committed), Saved(kept), NoCopy}
    OBVIOUS
  <2> QED BY <2>3, <2>4 DEF KeptInv
<1>6. ServerInv'
  <2>1. stage' \in {"idle", "starting", "retrying"} /\ replay' = {} /\ marked' = FALSE
        /\ liveBuffer' = NoBuffer /\ confirmed' = FALSE
    BY DEF NoAttempt
  <2>2. \A k \in 1..Len(buffer') : buffer'[k].kind = "synchronized" => buffer'[k].old
    BY <1>1
  <2> QED BY <2>1, <2>2, NoAttemptIs
<1> QED BY <1>2, <1>3, <1>4, <1>5, <1>6 DEF ClientInv

LEMMA ScopeKeeps ==
    ASSUME SyncInv, OpenScope \/ CloseScope \/ Reload
    PROVE  OrderInv' /\ ScopeInv' /\ ClientInv' /\ ServerInv'
<1>1. Len(log) \in 1..MaxEvents /\ Len(log) \in Nat /\ ScopeInv /\ OrderInv
      /\ session \in BOOLEAN /\ KeptInv /\ committed \in Copy /\ kept \in Copy
  BY Numbers DEF SyncInv, ClientInv, TypeOK
<1>2. UNCHANGED engineVars
  BY DEF OpenScope, CloseScope, Reload, Unbothered, Spend
<1>3. OrderInv'
  BY <1>1, <1>2 DEF OrderInv, engineVars
<1>4. CASE OpenScope
  <2>1. buffer' = <<>> /\ applying' = NoItem
    BY <1>1, <1>4 DEF OpenScope, ScopeInv
  <2>2. kept.sequence <= Len(log) /\ Suits(log, kept.thread, kept.sequence)
    BY <1>1 DEF KeptInv
  <2>3. ScopeInv'
    <3>1. open' /\ (session' <=> session) /\ (~session => stage' = "idle")
      BY <1>4 DEF OpenScope, NoAttempt
    <3> QED BY <3>1 DEF ScopeInv
  <2>4. PICK next \in {"idle", "starting"} : NoAttempt(next)
    BY <1>4 DEF OpenScope
  <2>5. log' = log /\ thread' = kept.thread /\ lastSequence' = kept.sequence
        /\ committed' = kept /\ kept' = kept
    BY <1>2, <1>4 DEF OpenScope, engineVars
  <2>6. ClientInv' /\ ServerInv'
    BY <1>1, <2>1, <2>2, <2>4, <2>5, ScopeBegins
  <2> QED BY <1>3, <2>3, <2>6
<1>5. CASE CloseScope \/ Reload
  <2>1. ShowNothing /\ NoAttempt("idle") /\ log' = log
    BY <1>2, <1>5 DEF CloseScope, Reload, engineVars
  <2>2. buffer' = <<>> /\ applying' = NoItem /\ stage' = "idle" /\ committed' = NoCopy
        /\ thread' = NoCopy.thread /\ lastSequence' = NoCopy.sequence
    BY <2>1, NothingIs DEF ShowNothing, NoAttempt
  <2>3. ScopeInv'
    BY <2>2 DEF ScopeInv
  <2>4. kept' \in {committed, kept, Saved(committed), Saved(kept)}
    BY <1>5 DEF CloseScope, Reload
  <2>5. NoCopy.sequence <= Len(log) /\ Suits(log, NoCopy.thread, NoCopy.sequence)
    BY <1>1, NothingIs DEF Suits
  <2>6. ClientInv' /\ ServerInv'
    BY <2>1, <2>2, <2>4, <2>5, NothingIs, ScopeBegins
  <2> QED BY <1>3, <2>3, <2>6
<1> QED BY <1>4, <1>5

LEMMA InitKeeps == Init => SyncInv
<1> SUFFICES ASSUME Init PROVE SyncInv
  OBVIOUS
<1> USE DEF Init
<1> DEFINE first == [type |-> "thread.created", toolCall |-> NoCall]
<1>1. first \in Event
  BY DEF Event, EventTypes
<1>2. log = <<first>>
  OBVIOUS
<1> HIDE DEF first
<1>3. log \in Seq(Event) /\ Len(log) = 1
  BY <1>1, <1>2
<1>4. 1 \in 0..MaxEvents /\ 1 \in 1..MaxEvents
  BY SyncAssumption
<1>5. TypeOK
  <2>1. EngineTypes
    BY <1>3, <1>4 DEF EngineTypes
  <2>2. ServerTypes
    BY NothingIs DEF ServerTypes, Stages
  <2>3. ShownTypes
    BY NothingIs DEF ShownTypes
  <2>4. ItemTypes
    BY NothingIs, ItemsAre DEF ItemTypes
  <2>5. OtherTypes
    <3>1. disruptions \in 0..MaxDisruptions
      BY SyncAssumption
    <3> QED BY <3>1, NothingIs DEF OtherTypes
  <2> QED BY <2>1, <2>2, <2>3, <2>4, <2>5, Types
<1>6. OrderInv
  BY <1>3, <1>4 DEF OrderInv
<1>7. ScopeInv
  BY DEF ScopeInv
<1>8. ClientInv
  <2>1. Suits(log, NoThread, 0)
    BY NothingIs DEF Suits
  <2>2. BufferInv
    BY NothingIs DEF BufferInv
  <2>3. ShownInv
    BY <1>3, <2>1, ItemsAre DEF ShownInv
  <2>4. KeptInv
    BY <1>3, <2>1, NothingIs DEF KeptInv
  <2>5. PresentInv
    BY NothingIs, ItemsAre DEF PresentInv
  <2> QED BY <2>2, <2>3, <2>4, <2>5 DEF ClientInv
<1>9. ServerInv
  <2>1. ~Attached
    BY DEF Attached
  <2>2. AttemptInv
    BY NothingIs DEF AttemptInv
  <2>3. LiveInv
    BY <2>1 DEF LiveInv
  <2>4. ReplayInv
    BY DEF ReplayInv
  <2>5. StreamInv /\ ComesInv /\ RecreatedInv
    BY DEF StreamInv, ComesInv, RecreatedInv
  <2>6. MarkerInv
    BY NothingIs DEF MarkerInv, IsFreshMarker
  <2> QED BY <2>2, <2>3, <2>4, <2>5, <2>6 DEF ServerInv
<1> QED BY <1>5, <1>6, <1>7, <1>8, <1>9 DEF SyncInv
---------------------------------------------------------------------------
(* The engine.                                                              *)

LEMMA CommitKeeps ==
    ASSUME SyncInv, Commit
    PROVE  OrderInv' /\ ScopeInv' /\ ClientInv' /\ ServerInv'
<1>1. /\ Len(log) \in Nat /\ Len(log) \in 1..MaxEvents /\ MaxEvents \in Nat
      /\ OrderInv /\ ScopeInv /\ ClientInv /\ ServerInv /\ lastSequence \in Nat
      /\ latestSequence \in Nat /\ published \in Nat
      /\ latestSequence <= Len(log) /\ published <= latestSequence
      /\ \A k \in 1..Len(buffer) : buffer[k].sequence \in Nat
      /\ Len(buffer) \in Nat
  BY Numbers DEF SyncInv
<1>2. /\ liveBuffer.position \in Nat /\ request.covers \in Nat /\ request.after \in Nat
      /\ request.head \in Nat /\ liveBuffer.marker \in Nat
      /\ liveBuffer.pending \subseteq Nat \ {0} /\ liveBuffer.output \subseteq Nat \ {0}
  BY Numbers DEF SyncInv
<1>3. Len(log) < MaxEvents /\ \E e : log' = Append(log, e)
  BY DEF Commit
<1>4. Len(log') = Len(log) + 1 /\ Len(log') \in Nat /\ \A i \in 1..Len(log) : log'[i] = log[i]
  <2>1. log \in Seq(Event) /\ log' \in Seq(Event)
    BY EngineTypesKept DEF SyncInv, TypeOK
  <2>2. PICK type \in EventTypes,
             call \in {log[i].toolCall : i \in 1..Len(log)} \cup {Len(log) + 1} :
          log' = Append(log, [type |-> type, toolCall |-> call])
    BY DEF Commit
  <2> DEFINE e == [type |-> type, toolCall |-> call]
  <2>3. log' = Append(log, e)
    BY <2>2
  <2> HIDE DEF e
  <2>4. Len(log') = Len(log) + 1 /\ \A i \in 1..Len(log) : log'[i] = log[i]
    BY <1>1, <2>1, <2>3
  <2> QED BY <1>1, <2>4
<1>5. Extends(log, log')
  BY <1>1, <1>4 DEF Extends
<1>6. /\ \A i \in 1..Len(log) : Detail(log', i) <=> Detail(log, i)
      /\ \A i \in 1..Len(log) : Replaced(log, i) => Replaced(log', i)
      /\ \A n \in 0..Len(log) : Rows(log', n) = Rows(log, n)
      /\ \A n \in 0..Len(log) : \A t : Suits(log, t, n) => Suits(log', t, n)
  BY <1>1, <1>4, <1>5, LogGrows
<1>7. /\ latestSequence' = latestSequence /\ published' = published
      /\ UNCHANGED serverVars /\ UNCHANGED clientVars /\ (confirmed' <=> confirmed)
  BY DEF Commit
<1>8. /\ UNCHANGED <<stage, request, replay, liveBuffer, buffer, thread, lastSequence, applying,
                     committed, kept>>
      /\ (marked' <=> marked) /\ (open' <=> open) /\ (session' <=> session)
  BY <1>7 DEF serverVars, clientVars, shownVars, cacheVars
<1>9. OrderInv' /\ ScopeInv'
  <2>1. OrderInv'
    BY <1>1, <1>3, <1>4, <1>7 DEF OrderInv
  <2>2. ScopeInv'
    BY <1>1, <1>8 DEF ScopeInv
  <2> QED BY <2>1, <2>2
<1>10. BufferInv'
  <2> SUFFICES ASSUME NEW k \in 1..Len(buffer) PROVE ItemInv(k)'
    BY <1>8 DEF BufferInv
  <2>1. ItemInv(k) /\ buffer[k].sequence \in Nat
    BY <1>1 DEF ClientInv, BufferInv
  <2>2. CASE buffer[k].kind = "synchronized" /\ buffer[k].sequence = 0
    BY <1>8, <2>2 DEF ItemInv
  <2>3. CASE buffer[k].kind = "event"
    <3>1. /\ buffer[k].sequence \in 1..Len(log) /\ Detail(log, buffer[k].sequence)
          /\ \A i \in 1..buffer[k].sequence - 1 : Detail(log, i) =>
               Reached(i, lastSequence, buffer, k - 1) \/ Replaced(log, i)
      BY <2>1, <2>3 DEF ItemInv, IsSnapshot
    <3>2. \A i \in 1..buffer[k].sequence - 1 : i \in 1..Len(log)
      BY <1>1, <3>1
    <3>3. buffer[k].sequence \in 1..Len(log') /\ Detail(log', buffer[k].sequence)
      BY <1>1, <1>4, <1>6, <3>1
    <3>4. \A i \in 1..buffer[k].sequence - 1 : Detail(log', i) =>
               Reached(i, lastSequence, buffer, k - 1) \/ Replaced(log', i)
      BY <1>6, <3>1, <3>2
    <3> QED BY <1>8, <2>3, <3>3, <3>4 DEF ItemInv
  <2>4. CASE /\ IsSnapshot(buffer[k]) /\ buffer[k].sequence \in lastSequence..Len(log)
             /\ \A j \in 1..k - 1 : buffer[j].sequence <= buffer[k].sequence
    <3>1. buffer[k].sequence \in 0..Len(log) /\ buffer[k].sequence \in lastSequence..Len(log')
      BY <1>1, <1>4, <2>4
    <3>2. Rows(log', buffer[k].sequence) = Rows(log, buffer[k].sequence)
      BY <1>6, <3>1
    <3> QED BY <1>8, <2>4, <3>1, <3>2 DEF ItemInv, IsSnapshot
  <2> QED BY <2>1, <2>2, <2>3, <2>4 DEF ItemInv
<1>11. ShownInv'
  <2>1. ShownInv /\ lastSequence \in 0..Len(log)
    BY <1>1 DEF ClientInv, ShownInv
  <2>2. applying.kind \in {"event", "snapshot"} => applying # NoItem
    BY ItemsAre
  <2>3. lastSequence <= Len(log')
    BY <1>1, <1>4, <2>1
  <2>4. applying = NoItem => Suits(log', thread, lastSequence)
    BY <1>6, <2>1 DEF ShownInv
  <2>5. applying.kind = "snapshot" =>
          applying.kind = "snapshot" /\ applying.rows = Rows(log', applying.sequence)
    BY <1>6, <2>1, <2>2 DEF ShownInv, IsSnapshot
  <2>6. applying.kind = "event" =>
          /\ lastSequence > 0 /\ Detail(log', lastSequence)
          /\ \A i \in Rows(log', lastSequence) :
               i \in thread.rows \/ i = lastSequence \/ Replaced(log', i)
          /\ \A i \in thread.rows : i <= lastSequence
    <3>1. \A i \in Rows(log, lastSequence) : i \in 1..Len(log)
      BY <1>1, <2>1, RowsIn
    <3> QED BY <1>1, <1>6, <2>1, <3>1 DEF ShownInv
  <2>7. applying # NoItem => applying.kind \in {"event", "snapshot"} /\ applying.sequence = lastSequence
    BY <2>1 DEF ShownInv
  <2> QED BY <1>8, <2>3, <2>4, <2>5, <2>6, <2>7 DEF ShownInv, IsSnapshot
<1>12. KeptInv'
  <2>1. committed.sequence \in Nat /\ kept.sequence \in Nat
    BY <1>1 DEF SyncInv, TypeOK, Copy
  <2>2. \A c \in {committed, kept} : c.sequence \in 0..Len(log) /\ Suits(log, c.thread, c.sequence)
    BY <1>1, <2>1 DEF ClientInv, KeptInv
  <2>3. \A c \in {committed, kept} : c.sequence <= Len(log') /\ Suits(log', c.thread, c.sequence)
    BY <1>1, <1>4, <1>6, <2>2
  <2> QED BY <1>8, <2>3 DEF KeptInv
<1>13. PresentInv'
  BY <1>1, <1>8 DEF ClientInv, PresentInv, SnapshotBefore
<1>14. Attached' <=> Attached
  BY <1>8 DEF Attached
<1>15. AttemptInv'
  <2>1. AttemptInv
    BY <1>1 DEF ServerInv
  <2>2. stage \in {"snapshot", "streaming"} =>
         /\ request.head <= Len(log') /\ request.covers <= Len(log')
         /\ request.replayIfMissing => request.resume /\ request.after <= request.head
    BY <1>1, <1>2, <1>4, <2>1 DEF AttemptInv
  <2> QED BY <1>7, <1>8, <1>14, <2>1, <2>2 DEF AttemptInv
<1>16. LiveInv'
  <2> SUFFICES ASSUME Attached PROVE LiveInv'
    BY <1>14 DEF LiveInv
  <2> DEFINE b == liveBuffer
  <2>1. /\ b.position <= published /\ b.marker <= b.position
        /\ \A i \in b.pending \cup b.output : i <= b.position /\ Detail(log, i)
        /\ \A i \in b.output, j \in b.pending : i < j
        /\ \A i \in b.pending : \A k \in i..b.position :
             Detail(log, k) => log[k].type = "tool.updated"
        /\ stage = "snapshot" =>
             \A i \in request.head + 1..b.position : Detail(log, i) =>
               /\ i \in b.output \cup b.pending \/ Replaced(log, i)
               /\ \E j \in b.output \cup b.pending : i <= j
    BY <1>1 DEF ServerInv, LiveInv
  <2>2. \A i \in Nat \ {0} : i <= b.position => i \in 1..Len(log)
    BY <1>1, <1>2, <2>1
  <2>3. \A i \in b.pending \cup b.output : i <= b.position /\ Detail(log', i)
    BY <1>2, <1>6, <2>1, <2>2
  <2>4. \A i \in b.pending : \A k \in i..b.position :
             Detail(log', k) => log'[k].type = "tool.updated"
    <3>1. \A i \in b.pending : \A k \in i..b.position : k \in 1..Len(log)
      BY <1>1, <1>2, <2>1
    <3> QED BY <1>4, <1>6, <2>1, <3>1
  <2>5. \A i \in request.head + 1..b.position : i \in 1..Len(log)
    BY <1>1, <1>2, <2>1
  <2>6. stage = "snapshot" =>
             \A i \in request.head + 1..b.position : Detail(log', i) =>
               /\ i \in b.output \cup b.pending \/ Replaced(log', i)
               /\ \E j \in b.output \cup b.pending : i <= j
    BY <1>6, <2>1, <2>5
  <2> QED BY <1>7, <1>8, <2>1, <2>3, <2>4, <2>6 DEF LiveInv
<1>17. ReplayInv'
  <2> SUFFICES ASSUME NEW item \in replay
               PROVE  \/ /\ item.kind = "event" /\ item.sequence \in 1..Len(log')
                         /\ Detail(log', item.sequence)
                         /\ \A i \in 1..item.sequence - 1 : Detail(log', i) =>
                              \/ Received(i) \/ Replaced(log', i)
                              \/ \E other \in replay : other.sequence = i
                      \/ /\ item.kind = "snapshot" /\ item.rows = Rows(log', item.sequence)
                         /\ replay = {item}
                         /\ item.sequence \in lastSequence..Len(log')
                         /\ \A k \in 1..Len(buffer) : buffer[k].sequence <= item.sequence
    BY <1>8 DEF ReplayInv, IsSnapshot, Received
  <2>1. CASE /\ item.kind = "event" /\ item.sequence \in 1..Len(log) /\ Detail(log, item.sequence)
             /\ \A i \in 1..item.sequence - 1 : Detail(log, i) =>
                  \/ Received(i) \/ Replaced(log, i)
                  \/ \E other \in replay : other.sequence = i
    <3>1. \A i \in 1..item.sequence - 1 : i \in 1..Len(log)
      BY <1>1, <2>1
    <3>2. item.sequence \in 1..Len(log') /\ Detail(log', item.sequence)
      BY <1>1, <1>4, <1>6, <2>1
    <3> QED BY <1>6, <2>1, <3>1, <3>2
  <2>2. CASE /\ IsSnapshot(item) /\ replay = {item}
             /\ item.sequence \in lastSequence..Len(log)
             /\ \A k \in 1..Len(buffer) : buffer[k].sequence <= item.sequence
    <3>1. item.sequence \in 0..Len(log) /\ item.sequence \in lastSequence..Len(log')
      BY <1>1, <1>4, <2>2
    <3> QED BY <1>6, <2>2, <3>1 DEF IsSnapshot
  <2> QED BY <1>1, <2>1, <2>2 DEF ServerInv, ReplayInv
<1>18. StreamInv'
  <2> SUFFICES ASSUME stage = "streaming" PROVE StreamInv'
    BY <1>8 DEF StreamInv
  <2>1. Attached /\ request.covers <= Len(log) /\ liveBuffer.position <= Len(log)
    BY <1>1, <1>2 DEF Attached, ServerInv, AttemptInv, LiveInv
  <2>2. \A i \in 1..liveBuffer.position : i \in 1..Len(log)
    BY <1>1, <1>2, <2>1
  <2>3. \A i \in 1..Len(log') : (i <= request.covers \/ i <= liveBuffer.position) => i \in 1..Len(log)
    BY <1>1, <1>2, <1>4, <2>1
  <2>4. \A i \in 1..liveBuffer.position : Detail(log', i) =>
             \/ Received(i) \/ i \in Waiting \/ Replaced(log', i)
             \/ \E item \in replay : item.sequence = i \/ (item.kind = "snapshot" /\ i <= item.sequence)
    BY <1>1, <1>6, <2>2 DEF ServerInv, StreamInv
  <2>5. \A i \in 1..Len(log') :
             Detail(log', i) /\ (i <= request.covers \/ i <= liveBuffer.position) =>
               \/ Received(i)
               \/ \E item \in replay : i <= item.sequence
               \/ \E j \in Waiting : i <= j
    BY <1>1, <1>6, <2>3 DEF ServerInv, StreamInv
  <2> QED BY <1>8, <2>4, <2>5 DEF StreamInv, Received, Waiting
<1>19. MarkerInv'
  <2>1. MarkerInv /\ AttemptInv
    BY <1>1 DEF ServerInv
  <2>2. marked => stage = "streaming"
    BY <2>1 DEF AttemptInv
  <2>3. stage = "streaming" => \A i \in 1..request.covers : i \in 1..Len(log)
    BY <1>1, <1>2, <2>1 DEF AttemptInv
  <2>4. marked => \A i \in 1..request.covers : Detail(log', i) => Detail(log, i)
    BY <1>6, <2>2, <2>3
  <2>5. liveBuffer.marker # 0 =>
         \A i \in 1..request.covers : Detail(log', i) =>
           Received(i) \/ \E j \in liveBuffer.output : i <= j /\ j <= liveBuffer.marker
    BY <2>1, <2>4 DEF MarkerInv, AttemptInv
  <2>6. \A k \in 1..Len(buffer) : IsFreshMarker(k) =>
         /\ marked
         /\ \A i \in 1..request.covers : Detail(log', i) => Reached(i, lastSequence, buffer, k - 1)
         /\ \A j \in k..Len(buffer) : buffer[j].kind # "snapshot"
    BY <2>1, <2>4 DEF MarkerInv
  <2>7. confirmed =>
         /\ \A i \in 1..request.covers : Detail(log', i) => i <= lastSequence
         /\ applying.kind # "snapshot" /\ \A j \in 1..Len(buffer) : buffer[j].kind # "snapshot"
    BY <2>1, <2>4 DEF MarkerInv, AttemptInv
  <2> QED BY <1>7, <1>8, <2>5, <2>6, <2>7 DEF MarkerInv, Received, IsFreshMarker
<1>20. ComesInv'
  BY <1>1, <1>8 DEF ServerInv, ComesInv, SnapshotBefore
<1>21. RecreatedInv'
  <2> SUFFICES ASSUME stage = "streaming", request.resume, ~request.replayIfMissing,
                      NEW d \in request.after + 1..request.head, log'[d].type = "thread.created"
               PROVE  \/ lastSequence >= d /\ (applying.kind = "snapshot" \/ \A i \in thread.rows : i > d)
                      \/ \E k \in 1..Len(buffer) : buffer[k].kind = "snapshot" /\ buffer[k].sequence >= d
                      \/ \E item \in replay : item.kind = "snapshot" /\ item.sequence >= d
    BY <1>8 DEF RecreatedInv
  <2>1. request.head <= Len(log) /\ d \in 1..Len(log)
    BY <1>1, <1>2 DEF ServerInv, AttemptInv
  <2>2. log[d].type = "thread.created"
    BY <1>4, <2>1
  <2> QED BY <1>1, <2>2 DEF ServerInv, RecreatedInv
<1> QED BY <1>9, <1>10, <1>11, <1>12, <1>13, <1>15, <1>16, <1>17, <1>18, <1>19, <1>20, <1>21
     DEF ClientInv, ServerInv

\* Nothing the subscription is about changes.
LEMMA ServerKept ==
    ASSUME ServerInv, published \in Nat, published' \in Nat, published <= published',
           liveBuffer.position \in Nat,
           UNCHANGED <<log, stage, request, replay, liveBuffer, buffer, thread, lastSequence, applying>>,
           marked' <=> marked, confirmed' <=> confirmed
    PROVE  ServerInv'
<1>1. Attached' <=> Attached
  BY DEF Attached
<1>2. AttemptInv'
  BY <1>1 DEF ServerInv, AttemptInv
<1>3. LiveInv'
  <2> SUFFICES ASSUME Attached PROVE LiveInv'
    BY <1>1 DEF LiveInv
  <2>1. liveBuffer.position <= published'
    BY DEF ServerInv, LiveInv
  <2> QED BY <2>1 DEF ServerInv, LiveInv
<1>4. ReplayInv'
  BY DEF ServerInv, ReplayInv, IsSnapshot, Received
<1>5. StreamInv'
  BY DEF ServerInv, StreamInv, Received, Waiting
<1>6. MarkerInv'
  BY DEF ServerInv, MarkerInv, IsFreshMarker, Received
<1>7. ComesInv'
  BY DEF ServerInv, ComesInv, SnapshotBefore
<1>8. RecreatedInv'
  BY DEF ServerInv, RecreatedInv
<1> QED BY <1>2, <1>3, <1>4, <1>5, <1>6, <1>7, <1>8 DEF ServerInv

LEMMA SameItemsAsBefore == SameItems(buffer, buffer)
BY DEF SameItems

LEMMA QuietKeeps ==
    ASSUME SyncInv, MoveReadModel \/ Publish \/ Save \/ UNCHANGED vars
    PROVE  OrderInv' /\ ScopeInv' /\ ClientInv' /\ ServerInv'
<1>1. /\ Len(log) \in Nat /\ Len(log) \in 1..MaxEvents /\ latestSequence \in Nat /\ published \in Nat
      /\ latestSequence <= Len(log) /\ published <= latestSequence /\ liveBuffer.position \in Nat
      /\ ScopeInv /\ ClientInv /\ ServerInv
  BY Numbers DEF SyncInv
<1>2. UNCHANGED <<log, stage, request, replay, liveBuffer, buffer, thread, lastSequence, applying, committed>>
  BY DEF MoveReadModel, Publish, Save, vars, serverVars, clientVars, engineVars, shownVars, cacheVars, Unbothered
<1>3. (marked' <=> marked) /\ (confirmed' <=> confirmed)
  BY DEF MoveReadModel, Publish, Save, vars, serverVars, clientVars
<1>4. (open' <=> open) /\ (session' <=> session)
  BY DEF MoveReadModel, Publish, Save, vars, clientVars
<1>5. /\ published' \in Nat /\ published <= published' /\ published' <= latestSequence'
      /\ latestSequence' <= Len(log)
  BY <1>1 DEF MoveReadModel, Publish, Save, vars, engineVars, Unbothered
<1>6. OrderInv' /\ ScopeInv'
  BY <1>1, <1>2, <1>4, <1>5 DEF OrderInv, ScopeInv
<1>7. ServerInv'
  BY <1>1, <1>2, <1>3, <1>5, ServerKept
<1>8. ClientInv'
  <2>1. SameItems(buffer, buffer')
    BY <1>2, SameItemsAsBefore
  <2>2. CASE kept' = kept
    BY <1>2, <2>1, <2>2, ClientKept
  <2>3. CASE kept' = Saved(committed)
    <3>1. committed \in Copy
      BY DEF SyncInv, TypeOK
    <3>2. kept'.sequence = committed.sequence /\ kept'.thread = committed.thread
      BY <2>3, <3>1 DEF Saved, Copy
    <3>3. KeptInv'
      BY <1>1, <1>2, <3>2 DEF ClientInv, KeptInv
    <3>4. BufferInv'
      BY <1>1, <1>2 DEF ClientInv, BufferInv, ItemInv, IsSnapshot
    <3>5. ShownInv'
      BY <1>1, <1>2 DEF ClientInv, ShownInv, IsSnapshot
    <3>6. PresentInv'
      BY <1>1, <1>2 DEF ClientInv, PresentInv, SnapshotBefore
    <3> QED BY <3>3, <3>4, <3>5, <3>6 DEF ClientInv
  <2>4. kept' = kept \/ kept' = Saved(committed)
    BY DEF MoveReadModel, Publish, Save, vars, clientVars, cacheVars
  <2> QED BY <2>2, <2>3, <2>4
<1> QED BY <1>6, <1>7, <1>8

---------------------------------------------------------------------------
(* The subscription at the server.                                          *)

LEMMA SubscriptionKeepsClient ==
    ASSUME SyncInv, stage # "idle", UNCHANGED <<engineVars, clientVars>>
    PROVE  OrderInv' /\ ScopeInv' /\ ClientInv'
<1>1. UNCHANGED <<log, latestSequence, published, buffer, thread, lastSequence, applying, committed, kept>>
  BY DEF engineVars, clientVars, shownVars, cacheVars
<1>2. open /\ session /\ (open' <=> open) /\ (session' <=> session)
  BY DEF SyncInv, ScopeInv, TypeOK, clientVars
<1>3. OrderInv' /\ ScopeInv'
  BY <1>1, <1>2 DEF SyncInv, OrderInv, ScopeInv
<1>4. ClientInv'
  BY <1>1, SameItemsAsBefore, ClientKept
<1> QED BY <1>3, <1>4

\* There is an attempt, and nothing to send yet.
LEMMA EarlyIs ==
    ASSUME replay' = {}, marked' = FALSE, confirmed' = FALSE, liveBuffer'.marker = 0,
           stage' \notin {"snapshot", "streaming"}, AttemptInv', LiveInv',
           \A k \in 1..Len(buffer') : buffer'[k].kind = "synchronized" => buffer'[k].old
    PROVE  ServerInv'
<1>1. ReplayInv'
  BY DEF ReplayInv
<1>2. StreamInv' /\ ComesInv' /\ RecreatedInv'
  BY DEF StreamInv, ComesInv, RecreatedInv
<1>3. MarkerInv'
  BY DEF MarkerInv, IsFreshMarker
<1> QED BY <1>1, <1>2, <1>3 DEF ServerInv

\* Before a subscription streams, no marker of its own is on its way.
LEMMA EarlyHasNoMarker ==
    ASSUME SyncInv, stage # "streaming"
    PROVE  /\ marked = FALSE /\ confirmed = FALSE /\ liveBuffer.marker = 0 /\ replay = {}
           /\ \A k \in 1..Len(buffer) : buffer[k].kind = "synchronized" => buffer[k].old
<1>1. marked = FALSE /\ confirmed = FALSE /\ replay = {} /\ liveBuffer.marker = 0
  BY DEF SyncInv, TypeOK, ServerInv, AttemptInv
<1>2. \A k \in 1..Len(buffer) : buffer[k].kind = "synchronized" => buffer[k].old
  BY <1>1 DEF SyncInv, ServerInv, MarkerInv, IsFreshMarker
<1> QED BY <1>1, <1>2

LEMMA AttachKeeps ==
    ASSUME SyncInv, Attach
    PROVE  OrderInv' /\ ScopeInv' /\ ClientInv' /\ ServerInv'
<1>1. /\ stage = "requesting" /\ stage' = "attached" /\ UNCHANGED <<engineVars, clientVars>>
      /\ UNCHANGED <<request, replay>> /\ (marked' <=> marked) /\ (confirmed' <=> confirmed)
      /\ liveBuffer' = [NoBuffer EXCEPT !.position = published]
  BY DEF Attach, AttachPosition
<1>2. OrderInv' /\ ScopeInv' /\ ClientInv'
  BY <1>1, SubscriptionKeepsClient
<1>3. UNCHANGED <<log, published, buffer, thread, lastSequence>>
  BY <1>1 DEF engineVars, clientVars, shownVars
<1>4. /\ marked = FALSE /\ confirmed = FALSE /\ replay = {} /\ marked' = FALSE /\ confirmed' = FALSE
      /\ \A k \in 1..Len(buffer) : buffer[k].kind = "synchronized" => buffer[k].old
  <2>1. /\ marked = FALSE /\ confirmed = FALSE /\ replay = {}
        /\ \A k \in 1..Len(buffer) : buffer[k].kind = "synchronized" => buffer[k].old
    BY <1>1, EarlyHasNoMarker
  <2> QED BY <1>1, <2>1 DEF Attach
<1>5. /\ liveBuffer'.position = published /\ liveBuffer'.marker = 0
      /\ liveBuffer'.pending = {} /\ liveBuffer'.output = {}
  BY <1>1, NothingIs DEF NoBuffer
<1>6. AttemptInv'
  <2>1. request.resume => request.after <= lastSequence /\ thread.present
    BY <1>1 DEF SyncInv, ServerInv, AttemptInv
  <2>2. Attached'
    BY <1>1 DEF Attached
  <2> QED BY <1>1, <1>3, <1>4, <1>5, <2>1, <2>2 DEF AttemptInv
<1>7. LiveInv'
  <2>1. published \in Nat
    BY Numbers DEF SyncInv
  <2> QED BY <1>1, <1>3, <1>5, <2>1 DEF LiveInv
<1>8. ServerInv'
  BY <1>1, <1>3, <1>4, <1>5, <1>6, <1>7, EarlyIs
<1> QED BY <1>2, <1>8

LEMMA DecideResumeKeeps ==
    ASSUME SyncInv, DecideResume
    PROVE  OrderInv' /\ ScopeInv' /\ ClientInv' /\ ServerInv'
<1> DEFINE after == request.after
           bounded == request.resume /\ after <= latestSequence
                      /\ EventCount(after, latestSequence) <= MaxReplay
           recreated == HasCreateEvent(after, latestSequence)
<1>1. /\ stage = "attached" /\ UNCHANGED <<engineVars, clientVars, liveBuffer>>
      /\ (marked' <=> marked) /\ (confirmed' <=> confirmed)
  BY DEF DecideResume
<1>2. OrderInv' /\ ScopeInv' /\ ClientInv'
  BY <1>1, SubscriptionKeepsClient
<1>3. UNCHANGED <<log, published, latestSequence, buffer, thread, lastSequence, applying, liveBuffer>>
  BY <1>1 DEF engineVars, clientVars, shownVars
<1>4. /\ marked = FALSE /\ confirmed = FALSE /\ replay = {} /\ marked' = FALSE /\ confirmed' = FALSE
      /\ liveBuffer.marker = 0
      /\ \A k \in 1..Len(buffer) : buffer[k].kind = "synchronized" => buffer[k].old
  <2>1. /\ marked = FALSE /\ confirmed = FALSE /\ replay = {} /\ liveBuffer.marker = 0
        /\ \A k \in 1..Len(buffer) : buffer[k].kind = "synchronized" => buffer[k].old
    BY <1>1, EarlyHasNoMarker
  <2> QED BY <1>1, <2>1 DEF DecideResume
<1>5. /\ request \in Request /\ after \in Nat /\ latestSequence \in Nat /\ latestSequence <= Len(log)
      /\ latestSequence \in 0..MaxEvents /\ Len(log) \in Nat /\ published \in Nat
      /\ lastSequence \in Nat /\ liveBuffer.position \in Nat /\ published <= latestSequence
      /\ Len(buffer) \in Nat
  BY Numbers DEF SyncInv, TypeOK
<1>6. /\ request'.resume = request.resume /\ request'.after = after
      /\ request'.head = latestSequence /\ request'.covers = latestSequence
      /\ request'.replayIfMissing = (bounded /\ recreated)
  BY <1>5 DEF DecideResume, Request
<1>7. request.resume => after <= lastSequence /\ thread.present
  BY <1>1 DEF SyncInv, ServerInv, AttemptInv
<1>8. liveBuffer.position <= published /\ LiveInv
  BY <1>1 DEF SyncInv, ServerInv, LiveInv, Attached
<1>9. CASE bounded /\ ~recreated
  <2>1. stage' = "streaming" /\ replay' = CatchUp(after, latestSequence)
    BY <1>9 DEF DecideResume
  <2>2. request.resume /\ after <= lastSequence /\ thread.present /\ after <= latestSequence
    BY <1>7, <1>9
  <2>3. \A item \in replay' : /\ item.kind = "event" /\ item.sequence \in after + 1..latestSequence
                              /\ Detail(log, item.sequence)
    BY <1>5, <2>1, CatchUpIs
  <2>4. \A i \in after + 1..latestSequence : Detail(log, i) =>
          \E item \in replay' : item.sequence = i
    BY <1>5, <2>1, CatchUpIs, ItemsAre
  <2>5. \A i \in Nat : i <= after => Reached(i, lastSequence, buffer, Len(buffer))
    BY <1>5, <2>2 DEF Reached
  <2> HIDE DEF after, bounded, recreated
  <2>6. AttemptInv'
    <3>1. Attached'
      BY <2>1 DEF Attached
    <3>2. ~request'.replayIfMissing
      BY <1>6, <1>9
    <3> QED BY <1>3, <1>4, <1>5, <1>6, <2>1, <2>2, <3>1, <3>2 DEF AttemptInv
  <2>7. LiveInv'
    BY <1>1, <1>3, <1>8, <2>1 DEF LiveInv, Attached
  <2>8. ReplayInv'
    <3> SUFFICES ASSUME NEW item \in replay', NEW i \in 1..item.sequence - 1, Detail(log, i)
                 PROVE  \/ Reached(i, lastSequence, buffer, Len(buffer))
                        \/ \E other \in replay' : other.sequence = i
      <4>1. \A item \in replay' : item.sequence \in 1..Len(log)
        BY <1>5, <2>3
      <4> QED BY <1>3, <2>3, <4>1 DEF ReplayInv, Received
    <3>1. i <= after \/ i \in after + 1..latestSequence
      BY <1>5, <2>3
    <3> QED BY <2>4, <2>5, <3>1
  <2>9. StreamInv'
    <3>1. \A i \in 1..Len(log) : i <= latestSequence /\ Detail(log, i) =>
            Reached(i, lastSequence, buffer, Len(buffer)) \/ \E item \in replay' : item.sequence = i
      <4> TAKE i \in 1..Len(log)
      <4>1. i <= latestSequence => i <= after \/ i \in after + 1..latestSequence
        BY <1>5
      <4> QED BY <2>4, <2>5, <4>1
    <3>2. \A i \in 1..Len(log) : i <= latestSequence /\ Detail(log, i) =>
            Reached(i, lastSequence, buffer, Len(buffer)) \/ \E item \in replay' : i <= item.sequence
      BY <3>1
    <3>3. \A i \in 1..liveBuffer.position : i \in 1..Len(log) /\ i <= latestSequence
      BY <1>5, <1>8
    <3>4. \A i \in 1..Len(log) : i <= liveBuffer.position => i <= latestSequence
      BY <1>5, <1>8
    <3> QED BY <1>3, <1>6, <3>1, <3>2, <3>3, <3>4 DEF StreamInv, Received
  <2>10. MarkerInv'
    BY <1>3, <1>4 DEF MarkerInv, IsFreshMarker
  <2>11. ComesInv'
    BY <1>3, <2>2 DEF ComesInv
  <2>12. RecreatedInv'
    <3>1. \A d \in after + 1..latestSequence : log[d].type # "thread.created"
      BY <1>9 DEF recreated, HasCreateEvent
    <3> QED BY <1>3, <1>6, <3>1 DEF RecreatedInv
  <2> QED BY <1>2, <2>6, <2>7, <2>8, <2>9, <2>10, <2>11, <2>12 DEF ServerInv
<1>10. CASE ~(bounded /\ ~recreated)
  <2>1. stage' = "snapshot" /\ replay' = {}
    BY <1>4, <1>10 DEF DecideResume
  <2>2. request'.replayIfMissing => request.resume /\ after <= latestSequence
    BY <1>6
  <2> HIDE DEF after, bounded, recreated
  <2>3. AttemptInv'
    <3>1. Attached'
      BY <2>1 DEF Attached
    <3> QED BY <1>3, <1>4, <1>5, <1>6, <1>7, <2>1, <2>2, <3>1 DEF AttemptInv
  <2>4. LiveInv'
    <3>1. \A i \in latestSequence + 1..liveBuffer.position : FALSE
      BY <1>5, <1>8
    <3> QED BY <1>1, <1>3, <1>6, <1>8, <2>1, <3>1 DEF LiveInv, Attached
  <2>5. ReplayInv'
    BY <2>1 DEF ReplayInv
  <2>6. StreamInv' /\ ComesInv' /\ RecreatedInv'
    BY <2>1 DEF StreamInv, ComesInv, RecreatedInv
  <2>7. MarkerInv'
    BY <1>3, <1>4 DEF MarkerInv, IsFreshMarker
  <2> QED BY <1>2, <2>3, <2>4, <2>5, <2>6, <2>7 DEF ServerInv
<1> QED BY <1>9, <1>10

LEMMA ReadSnapshotKeeps ==
    ASSUME SyncInv, ReadSnapshot
    PROVE  OrderInv' /\ ScopeInv' /\ ClientInv' /\ ServerInv'
<1> DEFINE n == Len(log)
           after == request.after
           head == request.head
<1>1. /\ stage = "snapshot" /\ stage' = "streaming" /\ UNCHANGED <<engineVars, clientVars, liveBuffer>>
      /\ (marked' <=> marked) /\ (confirmed' <=> confirmed)
  BY DEF ReadSnapshot
<1>2. OrderInv' /\ ScopeInv' /\ ClientInv'
  BY <1>1, SubscriptionKeepsClient
<1>3. UNCHANGED <<log, published, latestSequence, buffer, thread, lastSequence, applying, liveBuffer>>
  BY <1>1 DEF engineVars, clientVars, shownVars
<1>4. /\ marked = FALSE /\ confirmed = FALSE /\ replay = {} /\ marked' = FALSE /\ confirmed' = FALSE
      /\ liveBuffer.marker = 0
      /\ \A k \in 1..Len(buffer) : buffer[k].kind = "synchronized" => buffer[k].old
  <2>1. /\ marked = FALSE /\ confirmed = FALSE /\ replay = {} /\ liveBuffer.marker = 0
        /\ \A k \in 1..Len(buffer) : buffer[k].kind = "synchronized" => buffer[k].old
    BY <1>1, EarlyHasNoMarker
  <2> QED BY <1>1, <2>1 DEF ReadSnapshot
<1>5. /\ request \in Request /\ after \in Nat /\ head \in Nat /\ n \in Nat /\ n \in 1..MaxEvents
      /\ published \in Nat /\ lastSequence \in Nat /\ liveBuffer.position \in Nat
      /\ published <= n /\ Len(buffer) \in Nat /\ lastSequence <= n
      /\ \A k \in 1..Len(buffer) : buffer[k].sequence \in Nat
  BY Numbers DEF SyncInv, TypeOK, ClientInv, ShownInv
<1>6. /\ head <= n /\ request.covers = head
      /\ request.replayIfMissing => request.resume /\ after <= head
      /\ request.resume => after <= lastSequence /\ thread.present
  BY <1>1 DEF SyncInv, ServerInv, AttemptInv
<1>7. /\ liveBuffer.position <= published /\ LiveInv
      /\ \A i \in head + 1..liveBuffer.position : Detail(log, i) =>
           /\ i \in Waiting \/ Replaced(log, i)
           /\ \E j \in Waiting : i <= j
  BY <1>1 DEF SyncInv, ServerInv, LiveInv, Attached, Waiting
<1>8. LiveInv'
  BY <1>1, <1>3, <1>7 DEF LiveInv, Attached
<1>9. MarkerInv'
  BY <1>3, <1>4 DEF MarkerInv, IsFreshMarker
<1>10. Attached'
  BY <1>1 DEF Attached
<1>11. CASE Exists(n)
  <2> DEFINE item == SnapshotItem(n, RowsAt(n))
  <2>1. replay' = {item}
    BY <1>11 DEF ReadSnapshot
  <2>2. item.kind = "snapshot" /\ item.sequence = n /\ item.rows = Rows(log, n)
    BY ItemsAre, RowsAre
  <2> HIDE DEF item
  <2>3. /\ request'.resume = request.resume /\ request'.after = after /\ request'.head = head
        /\ request'.covers = n /\ request'.replayIfMissing = FALSE
    BY <1>5, <1>11 DEF ReadSnapshot, Request
  <2> HIDE DEF n, after, head
  <2>4. AttemptInv'
    BY <1>1, <1>3, <1>4, <1>5, <1>6, <1>10, <2>3 DEF AttemptInv, n
  <2>5. ReplayInv'
    <3>1. \A k \in 1..Len(buffer) : buffer[k].sequence <= n
      <4> TAKE k \in 1..Len(buffer)
      <4>1. ItemInv(k)
        BY DEF SyncInv, ClientInv, BufferInv
      <4> QED BY <1>5, <4>1 DEF ItemInv, n
    <3> QED BY <1>3, <1>5, <2>1, <2>2, <3>1 DEF ReplayInv, IsSnapshot, n
  <2>6. StreamInv'
    <3>1. \A i \in 1..liveBuffer.position : i <= n
      BY <1>5, <1>7
    <3> QED BY <1>3, <1>5, <2>1, <2>2, <2>3, <3>1 DEF StreamInv, n
  <2>7. ComesInv'
    BY <2>1, <2>2 DEF ComesInv
  <2>8. RecreatedInv'
    <3>1. \A d \in after + 1..head : n >= d
      BY <1>5, <1>6
    <3> QED BY <2>1, <2>2, <2>3, <3>1 DEF RecreatedInv
  <2> QED BY <1>2, <1>8, <1>9, <2>4, <2>5, <2>6, <2>7, <2>8 DEF ServerInv
<1>12. CASE ~Exists(n)
  <2>1. request.replayIfMissing /\ replay' = CatchUp(after, head) /\ request' = request
    BY <1>12 DEF ReadSnapshot
  <2>2. request.resume /\ after <= lastSequence /\ thread.present /\ after <= head
    BY <1>6, <2>1
  <2>3. head \in 0..MaxEvents
    BY <1>5 DEF Request
  <2>4. \A item \in replay' : /\ item.kind = "event" /\ item.sequence \in after + 1..head
                              /\ Detail(log, item.sequence)
    BY <1>5, <2>1, <2>3, CatchUpIs
  <2>5. \A i \in after + 1..head : Detail(log, i) => \E item \in replay' : item.sequence = i
    BY <1>5, <2>1, <2>3, CatchUpIs, ItemsAre
  <2>6. \A i \in Nat : i <= after => Reached(i, lastSequence, buffer, Len(buffer))
    BY <1>5, <2>2 DEF Reached
  <2>7. AttemptInv'
    BY <1>1, <1>3, <1>4, <1>5, <1>6, <1>10, <2>1 DEF AttemptInv
  <2> HIDE DEF after, head, n
  <2>8. ReplayInv'
    <3> SUFFICES ASSUME NEW item \in replay', NEW i \in 1..item.sequence - 1, Detail(log, i)
                 PROVE  \/ Reached(i, lastSequence, buffer, Len(buffer))
                        \/ \E other \in replay' : other.sequence = i
      <4>1. \A item \in replay' : item.sequence \in 1..Len(log)
        BY <1>5, <1>6, <2>4 DEF n
      <4> QED BY <1>3, <2>4, <4>1 DEF ReplayInv, Received
    <3>1. i <= after \/ i \in after + 1..head
      BY <1>5, <2>4
    <3> QED BY <2>5, <2>6, <3>1
  <2>9. StreamInv'
    <3>1. \A i \in 1..n : i <= head /\ Detail(log, i) =>
            Reached(i, lastSequence, buffer, Len(buffer)) \/ \E item \in replay' : item.sequence = i
      <4> TAKE i \in 1..n
      <4>1. i <= head => i <= after \/ i \in after + 1..head
        BY <1>5
      <4> QED BY <2>5, <2>6, <4>1
    <3>2. \A i \in 1..n : i <= head /\ Detail(log, i) =>
            Reached(i, lastSequence, buffer, Len(buffer)) \/ \E item \in replay' : i <= item.sequence
      BY <3>1
    <3>3. \A i \in 1..liveBuffer.position : i \in 1..n
      BY <1>5, <1>7
    <3>4. \A i \in 1..n : i <= liveBuffer.position => i <= head \/ i \in head + 1..liveBuffer.position
      BY <1>5
    <3>5. \A i \in 1..liveBuffer.position : Detail(log, i) =>
             \/ Reached(i, lastSequence, buffer, Len(buffer)) \/ i \in Waiting \/ Replaced(log, i)
             \/ \E item \in replay' : item.sequence = i
      BY <1>7, <3>1, <3>3, <3>4
    <3>6. \A i \in 1..n : Detail(log, i) /\ (i <= head \/ i <= liveBuffer.position) =>
             \/ Reached(i, lastSequence, buffer, Len(buffer))
             \/ \E item \in replay' : i <= item.sequence
             \/ \E j \in Waiting : i <= j
      BY <1>7, <3>2, <3>4
    <3>7. Waiting' = Waiting
      BY <1>3 DEF Waiting
    <3>8. request'.covers = head
      BY <1>6, <2>1 DEF head
    <3> QED BY <1>3, <3>5, <3>6, <3>7, <3>8 DEF StreamInv, Received, n
  <2>10. ComesInv'
    BY <1>3, <2>2 DEF ComesInv
  <2>11. RecreatedInv'
    BY <2>1 DEF RecreatedInv
  <2> QED BY <1>2, <1>8, <1>9, <2>7, <2>8, <2>9, <2>10, <2>11 DEF ServerInv
<1> QED BY <1>11, <1>12

---------------------------------------------------------------------------
(* The live buffer.                                                          *)

\* What a buffer holds.
Buffered(b) ==
    /\ b.position <= published /\ b.marker <= b.position
    /\ \A i \in b.pending \cup b.output : i <= b.position /\ Detail(log, i)
    /\ \A i \in b.output, j \in b.pending : i < j
    /\ \A i \in b.pending : \A k \in i..b.position :
         Detail(log, k) => log[k].type = "tool.updated"

\* A run of events that are coalesced: the later of two updates of a call has
\* only updates in between.
Run(S) ==
    \A i, j \in S : SameTool(log, i, j) /\ i < j =>
        \A k \in i..j : Detail(log, k) => log[k].type = "tool.updated"

\* Coalescing drops what was replaced, and keeps the last of a run.
LEMMA CoalesceIs ==
    ASSUME SyncInv, NEW m \in 0..Len(log), NEW S \in SUBSET (1..m), Run(S)
    PROVE  /\ Coalesce(S) \subseteq S
           /\ \A i \in S : i \in Coalesce(S) \/ Replaced(log, i)
           /\ \A i \in S : \E j \in Coalesce(S) : i <= j
           /\ \A i \in S : log[i].type # "tool.updated" => i \in Coalesce(S)
<1>1. Len(log) \in Nat /\ m \in Nat
  BY Numbers DEF SyncInv
<1>2. Coalesce(S) = {i \in S : \A j \in S : SameTool(log, i, j) => j <= i}
  BY DEF Coalesce, SameCall, SameTool
<1>3. ASSUME NEW i \in S, i \notin Coalesce(S) PROVE Replaced(log, i)
  <2>1. PICK j \in S : SameTool(log, i, j) /\ ~(j <= i)
    BY <1>2, <1>3
  <2>2. i < j /\ j \in i + 1..Len(log)
    BY <1>1, <2>1
  <2> QED BY <2>1, <2>2 DEF Replaced, Run
<1>4. ASSUME NEW i \in S PROVE \E j \in Coalesce(S) : i <= j
  <2>1. S \in SUBSET (0..m)
    BY <1>1
  <2>2. PICK x \in S : \A y \in S : y <= x
    BY <1>1, <1>4, <2>1, Greatest
  <2>3. x \in Coalesce(S)
    BY <1>2, <2>2
  <2> QED BY <2>2, <2>3
<1>5. \A i \in S : log[i].type # "tool.updated" => i \in Coalesce(S)
  BY <1>2 DEF SameTool
<1> QED BY <1>2, <1>3, <1>4, <1>5

\* What is in front of the live buffer and in it stays without a gap when the
\* buffer takes an event, ends its run or takes the marker.
LEMMA BufferMoves ==
    ASSUME SyncInv, Attached, Buffered(liveBuffer)', liveBuffer' \in BufferType,
           \A j \in Waiting : /\ j \in Waiting' \/ Replaced(log, j)
                              /\ \E k \in Waiting' : j <= k,
           \A i \in 1..liveBuffer'.position : Detail(log, i) =>
              i <= liveBuffer.position \/ i \in Waiting',
           UNCHANGED <<log, published, stage, replay, buffer, lastSequence>>,
           request'.head = request.head, request'.covers \in Nat,
           \A i \in 1..request'.covers : i <= request.covers \/ i <= liveBuffer.position
    PROVE  LiveInv' /\ StreamInv'
<1>1. /\ liveBuffer.position \in Nat /\ liveBuffer'.position \in Nat /\ Len(log) \in Nat
      /\ request.covers \in Nat /\ request.head \in Nat
      /\ Waiting \subseteq Nat /\ Waiting' \subseteq Nat
  BY Numbers, SyncAssumption DEF SyncInv, BufferType, Waiting, Sequences
<1>2. LiveInv /\ StreamInv
  BY DEF SyncInv, ServerInv
<1>3. \A j \in Waiting : \A i \in Nat : i <= j => \E k \in Waiting' : i <= k
  <2> TAKE j \in Waiting
  <2> TAKE i \in Nat
  <2>1. PICK k \in Waiting' : j <= k
    OBVIOUS
  <2> QED BY <1>1, <2>1
<1>4. LiveInv'
  <2>1. stage = "snapshot" =>
          \A i \in request.head + 1..liveBuffer'.position : Detail(log, i) =>
            /\ i \in Waiting' \/ Replaced(log, i)
            /\ \E j \in Waiting' : i <= j
    <3> SUFFICES ASSUME stage = "snapshot", NEW i \in request.head + 1..liveBuffer'.position,
                        Detail(log, i)
                 PROVE  (i \in Waiting' \/ Replaced(log, i)) /\ \E j \in Waiting' : i <= j
      OBVIOUS
    <3>1. i \in 1..liveBuffer'.position /\ i \in Nat
      BY <1>1
    <3>2. CASE i <= liveBuffer.position
      <4>1. i \in request.head + 1..liveBuffer.position
        BY <1>1, <3>1, <3>2
      <4>2. (i \in Waiting \/ Replaced(log, i)) /\ \E j \in Waiting : i <= j
        BY <1>2, <4>1 DEF LiveInv, Waiting
      <4> QED BY <1>3, <3>1, <4>2
    <3>3. CASE i \in Waiting'
      BY <3>1, <3>3
    <3> QED BY <3>1, <3>2, <3>3
  <2> QED BY <2>1 DEF LiveInv, Buffered, Waiting
<1>5. StreamInv'
  <2> SUFFICES ASSUME stage = "streaming" PROVE StreamInv'
    BY DEF StreamInv
  <2>1. \A i \in 1..liveBuffer'.position : Detail(log, i) =>
             \/ Received(i) \/ i \in Waiting' \/ Replaced(log, i)
             \/ \E item \in replay : item.sequence = i \/ (item.kind = "snapshot" /\ i <= item.sequence)
    <3> TAKE i \in 1..liveBuffer'.position
    <3> HAVE Detail(log, i)
    <3>1. CASE i <= liveBuffer.position
      <4>1. i \in 1..liveBuffer.position
        BY <1>1, <3>1
      <4> QED BY <1>2, <4>1 DEF StreamInv
    <3> QED BY <3>1
  <2>2. \A i \in 1..Len(log) :
             Detail(log, i) /\ (i <= request'.covers \/ i <= liveBuffer'.position) =>
               \/ Received(i)
               \/ \E item \in replay : i <= item.sequence
               \/ \E j \in Waiting' : i <= j
    <3> TAKE i \in 1..Len(log)
    <3> HAVE Detail(log, i) /\ (i <= request'.covers \/ i <= liveBuffer'.position)
    <3>1. i <= request.covers \/ i <= liveBuffer.position \/ i \in Waiting'
      BY <1>1
    <3>2. CASE i <= request.covers \/ i <= liveBuffer.position
      <4>1. \/ Received(i)
            \/ \E item \in replay : i <= item.sequence
            \/ \E j \in Waiting : i <= j
        BY <1>2, <3>2 DEF StreamInv
      <4> QED BY <1>1, <1>3, <4>1
    <3>3. CASE i \in Waiting'
      BY <1>1, <3>3
    <3> QED BY <3>1, <3>2, <3>3
  <2> QED BY <2>1, <2>2 DEF StreamInv, Received
<1> QED BY <1>4, <1>5

\* The run ends.
LEMMA FlushKeeps ==
    ASSUME SyncInv, NEW b \in BufferType, b.position <= published,
           \A i \in b.pending \cup b.output : i <= b.position /\ Detail(log, i), Run(b.pending),
           \A i \in b.output, j \in b.pending : i < j, b.marker <= b.position
    PROVE  /\ Buffered(Flushed(b)) /\ b.output \subseteq Flushed(b).output
           /\ \A j \in b.pending \cup b.output :
                /\ j \in Flushed(b).output \/ Replaced(log, j)
                /\ \E k \in Flushed(b).output : j <= k
           /\ \A j \in b.pending : log[j].type # "tool.updated" => j \in Flushed(b).output
<1>1. /\ Flushed(b).pending = {} /\ Flushed(b).output = b.output \cup Coalesce(b.pending)
      /\ Flushed(b).position = b.position /\ Flushed(b).marker = b.marker
      /\ Coalesce(b.pending) \subseteq b.pending
  BY FlushedIs
<1>2. /\ b.position \in Nat /\ published \in Nat /\ Len(log) \in Nat /\ published <= Len(log)
      /\ b.pending \subseteq Nat \ {0} /\ b.output \subseteq Nat \ {0} /\ b.position \in 0..Len(log)
  BY Numbers, SyncAssumption DEF SyncInv, BufferType, Sequences
<1>3. b.pending \in SUBSET (1..b.position)
  BY <1>2
<1>4. /\ \A i \in b.pending : i \in Coalesce(b.pending) \/ Replaced(log, i)
      /\ \A i \in b.pending : \E j \in Coalesce(b.pending) : i <= j
      /\ \A i \in b.pending : log[i].type # "tool.updated" => i \in Coalesce(b.pending)
  BY <1>2, <1>3, CoalesceIs
<1>5. Buffered(Flushed(b))
  BY <1>1 DEF Buffered
<1>6. \A j \in b.output : j <= j
  BY <1>2
<1> QED BY <1>1, <1>4, <1>5, <1>6

LEMMA BufferedIs ==
    ASSUME SyncInv, Attached
    PROVE  /\ liveBuffer \in BufferType /\ Buffered(liveBuffer) /\ Run(liveBuffer.pending)
<1>1. liveBuffer \in BufferType
  BY DEF SyncInv, TypeOK
<1>2. Buffered(liveBuffer)
  BY DEF SyncInv, ServerInv, LiveInv, Buffered
<1>3. Run(liveBuffer.pending)
  <2> SUFFICES ASSUME NEW i \in liveBuffer.pending, NEW j \in liveBuffer.pending, i < j,
                      NEW k \in i..j, Detail(log, k)
               PROVE  log[k].type = "tool.updated"
    BY DEF Run
  <2>1. k \in i..liveBuffer.position
    BY <1>2, Numbers DEF Buffered, SyncInv
  <2> QED BY <1>2, <2>1 DEF Buffered
<1> QED BY <1>1, <1>2, <1>3

LEMMA BufferStepKeeps ==
    ASSUME SyncInv, Attached, UNCHANGED <<engineVars, clientVars, stage, replay>>,
           request'.resume = request.resume, request'.after = request.after,
           request'.head = request.head, request'.replayIfMissing = request.replayIfMissing,
           AttemptInv', LiveInv', StreamInv', MarkerInv'
    PROVE  OrderInv' /\ ScopeInv' /\ ClientInv' /\ ServerInv'
<1>1. UNCHANGED <<log, buffer, thread, lastSequence, applying>>
  BY DEF engineVars, clientVars, shownVars
<1>2. OrderInv' /\ ScopeInv' /\ ClientInv'
  BY SubscriptionKeepsClient DEF Attached
<1>3. ReplayInv'
  BY <1>1 DEF SyncInv, ServerInv, ReplayInv, IsSnapshot, Received
<1>4. ComesInv'
  BY <1>1 DEF SyncInv, ServerInv, ComesInv, SnapshotBefore
<1>5. RecreatedInv'
  BY <1>1 DEF SyncInv, ServerInv, RecreatedInv
<1> QED BY <1>2, <1>3, <1>4, <1>5 DEF ServerInv

\* The buffer takes an event or ends its run.
LEMMA TakenKeeps ==
    ASSUME SyncInv, Attached, Buffered(liveBuffer)', liveBuffer' \in BufferType,
           liveBuffer'.marker = liveBuffer.marker, liveBuffer.output \subseteq liveBuffer'.output,
           \A j \in Waiting : /\ j \in Waiting' \/ Replaced(log, j)
                              /\ \E k \in Waiting' : j <= k,
           \A i \in 1..liveBuffer'.position : Detail(log, i) =>
              i <= liveBuffer.position \/ i \in Waiting',
           UNCHANGED <<engineVars, clientVars, stage, request, replay>>,
           marked' <=> marked, confirmed' <=> confirmed
    PROVE  OrderInv' /\ ScopeInv' /\ ClientInv' /\ ServerInv'
<1>1. UNCHANGED <<log, published, buffer, thread, lastSequence, applying>>
  BY DEF engineVars, clientVars, shownVars
<1>2. request.covers \in Nat /\ \A i \in 1..request.covers : i <= request.covers
  BY Numbers DEF SyncInv
<1>3. LiveInv' /\ StreamInv'
  BY <1>1, <1>2, BufferMoves
<1>4. AttemptInv'
  <2>1. Attached'
    BY DEF Attached
  <2> QED BY <1>1, <2>1 DEF SyncInv, ServerInv, AttemptInv
<1>5. MarkerInv'
  <2>1. MarkerInv
    BY DEF SyncInv, ServerInv
  <2> QED BY <1>1, <2>1 DEF MarkerInv, IsFreshMarker, Received
<1> QED BY <1>1, <1>3, <1>4, <1>5, BufferStepKeeps

LEMMA FlushWindowKeeps ==
    ASSUME SyncInv, FlushWindow
    PROVE  OrderInv' /\ ScopeInv' /\ ClientInv' /\ ServerInv'
<1>1. /\ Attached /\ liveBuffer' = Flushed(liveBuffer)
      /\ UNCHANGED <<engineVars, clientVars, stage, request, replay>>
      /\ (marked' <=> marked) /\ (confirmed' <=> confirmed)
  BY DEF FlushWindow
<1>2. liveBuffer \in BufferType /\ Buffered(liveBuffer) /\ Run(liveBuffer.pending)
  BY <1>1, BufferedIs
<1>3. log' = log /\ published' = published
  BY <1>1 DEF engineVars
<1>4. /\ Flushed(liveBuffer) \in BufferType /\ Flushed(liveBuffer).pending = {}
      /\ Flushed(liveBuffer).position = liveBuffer.position
      /\ Flushed(liveBuffer).marker = liveBuffer.marker
  BY <1>2, FlushedIs
<1>5. /\ Buffered(Flushed(liveBuffer)) /\ liveBuffer.output \subseteq Flushed(liveBuffer).output
      /\ \A j \in liveBuffer.pending \cup liveBuffer.output :
           /\ j \in Flushed(liveBuffer).output \/ Replaced(log, j)
           /\ \E k \in Flushed(liveBuffer).output : j <= k
  BY <1>2, FlushKeeps DEF Buffered
<1>6. Buffered(liveBuffer)'
  BY <1>1, <1>3, <1>5 DEF Buffered
<1>7. \A j \in Waiting : /\ j \in Waiting' \/ Replaced(log, j)
                         /\ \E k \in Waiting' : j <= k
  BY <1>1, <1>5 DEF Waiting
<1>8. \A i \in 1..liveBuffer'.position : i <= liveBuffer.position
  BY <1>1, <1>2, <1>4 DEF BufferType
<1> QED BY <1>1, <1>4, <1>5, <1>6, <1>7, <1>8, TakenKeeps

LEMMA OfferEventKeeps ==
    ASSUME SyncInv, OfferEvent
    PROVE  OrderInv' /\ ScopeInv' /\ ClientInv' /\ ServerInv'
<1> DEFINE b == liveBuffer
           next == b.position + 1
           moved == [b EXCEPT !.position = next]
           held == [moved EXCEPT !.pending = @ \cup {next}]
<1>1. /\ Attached /\ b.position < published
      /\ UNCHANGED <<engineVars, clientVars, stage, request, replay>>
      /\ (marked' <=> marked) /\ (confirmed' <=> confirmed)
      /\ liveBuffer' = IF ~Detail(log, next) THEN moved
                       ELSE IF log[next].type = "tool.updated" THEN held ELSE Flushed(held)
  BY DetailIs DEF OfferEvent
<1>2. b \in BufferType /\ Buffered(b) /\ Run(b.pending)
  BY <1>1, BufferedIs
<1>3. log' = log /\ published' = published
  BY <1>1 DEF engineVars
<1>4. /\ b.position \in Nat /\ published \in Nat /\ published <= Len(log) /\ Len(log) \in 1..MaxEvents
      /\ MaxEvents \in Nat /\ b.marker \in Nat
      /\ b.pending \subseteq Nat \ {0} /\ b.output \subseteq Nat \ {0}
  BY Numbers DEF SyncInv
<1>5. next \in 1..MaxEvents /\ next <= published /\ b.position < next /\ next \in 1..Len(log) /\ next \in Nat
      /\ \A i \in Nat : i <= next => i <= b.position \/ i = next
  BY <1>1, <1>4
<1> HIDE DEF next
<1>6. /\ moved \in BufferType /\ moved.position = next /\ moved.pending = b.pending
      /\ moved.output = b.output /\ moved.marker = b.marker
  BY <1>2, <1>5 DEF BufferType
<1>7. /\ held \in BufferType /\ held.position = next /\ held.pending = b.pending \cup {next}
      /\ held.output = b.output /\ held.marker = b.marker
  BY <1>5, <1>6 DEF BufferType, Sequences
<1> HIDE DEF moved, held
<1>8. \A i \in b.pending \cup b.output : i <= b.position /\ i <= next /\ i < next /\ Detail(log, i)
  BY <1>2, <1>4, <1>5 DEF Buffered
<1>9. \A j \in Waiting : j <= j
  BY <1>4 DEF Waiting
<1>10. \A i \in 1..next : i <= b.position \/ i = next
  BY <1>5
<1>11. CASE ~Detail(log, next)
  <2>1. liveBuffer' = moved
    BY <1>1, <1>11
  <2>2. \A i \in b.pending : \A k \in i..next : Detail(log, k) => log[k].type = "tool.updated"
    <3> SUFFICES ASSUME NEW i \in b.pending, NEW k \in i..next, Detail(log, k)
                 PROVE  log[k].type = "tool.updated"
      OBVIOUS
    <3>1. k # next /\ k \in Nat /\ i \in Nat
      BY <1>4, <1>5, <1>11
    <3>2. k \in i..b.position
      BY <1>4, <1>5, <3>1
    <3> QED BY <1>2, <3>2 DEF Buffered
  <2>3. Buffered(moved)
    BY <1>2, <1>4, <1>5, <1>6, <1>8, <2>2 DEF Buffered
  <2>4. Buffered(liveBuffer)' /\ Waiting' = Waiting
    BY <1>3, <1>6, <2>1, <2>3 DEF Buffered, Waiting
  <2>5. \A i \in 1..liveBuffer'.position : Detail(log, i) => i <= b.position \/ i \in Waiting'
    BY <1>6, <1>10, <1>11, <2>1
  <2> QED BY <1>1, <1>6, <1>9, <2>1, <2>4, <2>5, TakenKeeps
<1>12. CASE Detail(log, next) /\ log[next].type = "tool.updated"
  <2>1. liveBuffer' = held
    BY <1>1, <1>12
  <2>2. \A i \in held.pending : \A k \in i..next : Detail(log, k) => log[k].type = "tool.updated"
    <3> SUFFICES ASSUME NEW i \in held.pending, NEW k \in i..next, Detail(log, k)
                 PROVE  log[k].type = "tool.updated"
      OBVIOUS
    <3>1. CASE k = next
      BY <1>12, <3>1
    <3>2. CASE k # next
      <4>1. i \in Nat /\ k \in Nat /\ k <= b.position
        BY <1>4, <1>5, <1>7, <3>2
      <4>2. i \in b.pending /\ k \in i..b.position
        BY <1>4, <1>5, <1>7, <3>2, <4>1
      <4> QED BY <1>2, <4>2 DEF Buffered
    <3> QED BY <3>1, <3>2
  <2>3. Buffered(held)
    <3>1. \A i \in held.pending \cup held.output : i <= next /\ Detail(log, i)
      BY <1>5, <1>7, <1>8, <1>12
    <3>2. \A i \in held.output, j \in held.pending : i < j
      BY <1>2, <1>7, <1>8 DEF Buffered
    <3>3. held.marker <= next
      BY <1>2, <1>4, <1>5, <1>7 DEF Buffered
    <3> QED BY <1>5, <1>7, <2>2, <3>1, <3>2, <3>3 DEF Buffered
  <2>4. Buffered(liveBuffer)' /\ Waiting' = Waiting \cup {next}
    BY <1>3, <1>7, <2>1, <2>3 DEF Buffered, Waiting
  <2>5. \A i \in 1..liveBuffer'.position : Detail(log, i) => i <= b.position \/ i \in Waiting'
    BY <1>7, <1>10, <2>1, <2>4
  <2> QED BY <1>1, <1>7, <1>9, <2>1, <2>4, <2>5, TakenKeeps
<1>13. CASE Detail(log, next) /\ log[next].type # "tool.updated"
  <2>1. liveBuffer' = Flushed(held)
    BY <1>1, <1>13
  <2>2. /\ Flushed(held) \in BufferType /\ Flushed(held).pending = {}
        /\ Flushed(held).position = next /\ Flushed(held).marker = b.marker
    BY <1>7, FlushedIs
  <2>3. Run(held.pending)
    <3> SUFFICES ASSUME NEW i \in held.pending, NEW j \in held.pending, SameTool(log, i, j), i < j,
                        NEW k \in i..j, Detail(log, k)
                 PROVE  log[k].type = "tool.updated"
      BY DEF Run
    <3>1. i # next /\ j # next
      BY <1>13 DEF SameTool
    <3>2. i \in b.pending /\ j \in b.pending
      BY <1>7, <3>1
    <3> QED BY <1>2, <3>2 DEF Run
  <2>4. \A i \in held.pending \cup held.output : i <= held.position /\ Detail(log, i)
    BY <1>5, <1>7, <1>8, <1>13
  <2>5. \A i \in held.output, j \in held.pending : i < j
    BY <1>2, <1>7, <1>8 DEF Buffered
  <2>6. held.marker <= held.position /\ held.position <= published
    BY <1>2, <1>4, <1>5, <1>7 DEF Buffered
  <2>7. /\ Buffered(Flushed(held)) /\ held.output \subseteq Flushed(held).output
        /\ \A j \in held.pending \cup held.output :
             /\ j \in Flushed(held).output \/ Replaced(log, j)
             /\ \E k \in Flushed(held).output : j <= k
        /\ \A j \in held.pending : log[j].type # "tool.updated" => j \in Flushed(held).output
    BY <1>7, <2>3, <2>4, <2>5, <2>6, FlushKeeps
  <2>8. Buffered(liveBuffer)' /\ Waiting' = Flushed(held).output
    BY <1>3, <2>1, <2>2, <2>7 DEF Buffered, Waiting
  <2>9. \A j \in Waiting : /\ j \in Waiting' \/ Replaced(log, j)
                           /\ \E k \in Waiting' : j <= k
    BY <1>7, <2>7, <2>8 DEF Waiting
  <2>10. \A i \in 1..liveBuffer'.position : Detail(log, i) => i <= b.position \/ i \in Waiting'
    <3>1. next \in Waiting'
      BY <1>7, <1>13, <2>7, <2>8
    <3> QED BY <1>10, <2>1, <2>2, <3>1
  <2> QED BY <1>1, <1>7, <2>1, <2>2, <2>7, <2>8, <2>9, <2>10, TakenKeeps
<1> QED BY <1>11, <1>12, <1>13

LEMMA OfferMarkerKeeps ==
    ASSUME SyncInv, OfferMarker
    PROVE  OrderInv' /\ ScopeInv' /\ ClientInv' /\ ServerInv'
<1> DEFINE b == liveBuffer
           f == Flushed(b)
<1>1. /\ stage = "streaming" /\ replay = {} /\ ~marked /\ marked' = TRUE
      /\ UNCHANGED <<engineVars, clientVars, stage, replay>> /\ (confirmed' <=> confirmed)
      /\ liveBuffer' = [f EXCEPT !.marker = b.position]
      /\ request' = [request EXCEPT !.covers = Max({request.covers, b.position})]
  BY DEF OfferMarker, MarkerBuffer
<1>2. Attached
  BY <1>1 DEF Attached
<1>3. b \in BufferType /\ Buffered(b) /\ Run(b.pending)
  BY <1>2, BufferedIs
<1>4. UNCHANGED <<log, published, buffer, thread, lastSequence, applying>>
  BY <1>1 DEF engineVars, clientVars, shownVars
<1>5. /\ f \in BufferType /\ f.pending = {} /\ f.position = b.position /\ f.output \subseteq Nat
  BY <1>3, FlushedIs, SyncAssumption DEF BufferType, Sequences
<1>6. /\ Buffered(f) /\ b.output \subseteq f.output
      /\ \A j \in b.pending \cup b.output :
           /\ j \in f.output \/ Replaced(log, j)
           /\ \E k \in f.output : j <= k
  BY <1>3, FlushKeeps DEF Buffered
<1>7. /\ b.position \in Nat /\ request.covers \in Nat /\ published \in Nat /\ published <= Len(log)
      /\ Len(log) \in Nat /\ b.position <= published /\ request \in Request
  BY <1>3, Numbers DEF SyncInv, Buffered, TypeOK
<1> HIDE DEF f
<1>8. /\ liveBuffer' \in BufferType /\ liveBuffer'.pending = {} /\ liveBuffer'.position = b.position
      /\ liveBuffer'.output = f.output /\ liveBuffer'.marker = b.position
  BY <1>1, <1>3, <1>5 DEF BufferType
<1> DEFINE m == Max({request.covers, b.position})
<1>9. m \in {request.covers, b.position} /\ m \in Nat
  BY <1>7, GreaterOf
<1>10. /\ request'.covers = m /\ request'.resume = request.resume /\ request'.after = request.after
       /\ request'.head = request.head /\ request'.replayIfMissing = request.replayIfMissing
  BY <1>1, <1>7 DEF Request
<1> HIDE DEF m
<1>11. request.covers <= Len(log) /\ m <= Len(log) /\ request.head <= Len(log)
  <2>1. request.covers <= Len(log) /\ request.head <= Len(log) /\ request.head \in Nat
    BY <1>1, Numbers DEF SyncInv, ServerInv, AttemptInv
  <2> QED BY <1>7, <1>9, <2>1
<1>12. Buffered(liveBuffer)'
  BY <1>4, <1>5, <1>6, <1>7, <1>8 DEF Buffered
<1>13. \A j \in Waiting : /\ j \in Waiting' \/ Replaced(log, j)
                          /\ \E k \in Waiting' : j <= k
  BY <1>6, <1>8 DEF Waiting
<1>14. \A i \in 1..liveBuffer'.position : i <= b.position
  BY <1>7, <1>8
<1>15. \A i \in 1..request'.covers : i <= request.covers \/ i <= b.position
  BY <1>7, <1>9, <1>10
<1>16. LiveInv' /\ StreamInv'
  BY <1>1, <1>2, <1>4, <1>8, <1>9, <1>10, <1>12, <1>13, <1>14, <1>15, BufferMoves
<1>17. AttemptInv /\ ~confirmed /\ \A k \in 1..Len(buffer) : ~IsFreshMarker(k)
  BY <1>1 DEF SyncInv, ServerInv, AttemptInv, MarkerInv
<1>18. AttemptInv'
  <2>1. Attached' /\ stage' = "streaming" /\ replay' = {} /\ marked'
    BY <1>1 DEF Attached
  <2>2. request.resume => request.after <= lastSequence /\ thread.present
    BY <1>1, <1>17 DEF AttemptInv
  <2>3. request.replayIfMissing => request.resume /\ request.after <= request.head
    BY <1>1, <1>17 DEF AttemptInv
  <2> QED BY <1>4, <1>10, <1>11, <2>1, <2>2, <2>3 DEF AttemptInv
<1>19. MarkerInv'
  <2>1. ASSUME NEW i \in 1..m, Detail(log, i)
        PROVE  Received(i) \/ \E j \in f.output : i <= j /\ j <= b.position
    <3>1. i \in 1..Len(log) /\ (i <= request.covers \/ i <= b.position)
      BY <1>7, <1>9, <1>11
    <3>2. Received(i) \/ \E j \in Waiting : i <= j
      BY <1>1, <2>1, <3>1 DEF SyncInv, ServerInv, StreamInv
    <3>3. ASSUME NEW j \in Waiting, i <= j PROVE \E k \in f.output : i <= k /\ k <= b.position
      <4>1. PICK k \in f.output : j <= k
        BY <1>6 DEF Waiting
      <4>2. j \in Nat /\ k \in Nat /\ k <= b.position
        BY <1>3, <1>5, <1>6, SyncAssumption DEF Waiting, BufferType, Sequences, Buffered
      <4> QED BY <3>1, <3>3, <4>1, <4>2
    <3> QED BY <3>2, <3>3
  <2> QED BY <1>1, <1>4, <1>8, <1>10, <1>17, <2>1 DEF MarkerInv, IsFreshMarker, Received
<1> QED BY <1>1, <1>2, <1>10, <1>16, <1>18, <1>19, BufferStepKeeps

---------------------------------------------------------------------------
(* An item is sent.                                                          *)

LEMMA AppendedIs ==
    ASSUME SyncInv, NEW item \in Item, buffer' = Append(buffer, item)
    PROVE  /\ Len(buffer') = Len(buffer) + 1 /\ Len(buffer) \in Nat
           /\ \A k \in 1..Len(buffer) : buffer'[k] = buffer[k]
           /\ buffer'[Len(buffer) + 1] = item
           /\ \A i : \A k \in 0..Len(buffer) :
                Reached(i, lastSequence, buffer', k) <=> Reached(i, lastSequence, buffer, k)
           /\ \A i : Reached(i, lastSequence, buffer', Len(buffer')) <=>
                     Received(i) \/ i <= item.sequence
<1>1. /\ Len(buffer') = Len(buffer) + 1 /\ Len(buffer) \in Nat
      /\ \A k \in 1..Len(buffer) : buffer'[k] = buffer[k]
      /\ buffer'[Len(buffer) + 1] = item
  <2>1. buffer \in Seq(Item) /\ Len(buffer) \in Nat
    BY Numbers DEF SyncInv
  <2> QED BY <2>1, AppendProperties
<1>2. \A i : \A k \in 0..Len(buffer) :
         Reached(i, lastSequence, buffer', k) <=> Reached(i, lastSequence, buffer, k)
  <2> TAKE i
  <2> TAKE k \in 0..Len(buffer)
  <2>1. \A j \in 1..k : buffer'[j] = buffer[j]
    BY <1>1
  <2> QED BY <2>1 DEF Reached
<1>3. \A i : Reached(i, lastSequence, buffer', Len(buffer')) <=> Received(i) \/ i <= item.sequence
  <2> TAKE i
  <2>1. ASSUME Received(i) \/ i <= item.sequence
        PROVE  Reached(i, lastSequence, buffer', Len(buffer'))
    <3>1. CASE i <= lastSequence
      BY <3>1 DEF Reached
    <3>2. CASE \E k \in 1..Len(buffer) : i <= buffer[k].sequence
      <4>1. PICK k \in 1..Len(buffer) : i <= buffer[k].sequence
        BY <3>2
      <4>2. k \in 1..Len(buffer') /\ buffer'[k] = buffer[k]
        BY <1>1
      <4> QED BY <4>1, <4>2 DEF Reached
    <3>3. CASE i <= item.sequence
      <4>1. Len(buffer) + 1 \in 1..Len(buffer')
        BY <1>1
      <4> QED BY <1>1, <3>3, <4>1 DEF Reached
    <3> QED BY <2>1, <3>1, <3>2, <3>3 DEF Received, Reached
  <2>2. ASSUME Reached(i, lastSequence, buffer', Len(buffer'))
        PROVE  Received(i) \/ i <= item.sequence
    <3>1. CASE i <= lastSequence
      BY <3>1 DEF Received, Reached
    <3>2. CASE \E k \in 1..Len(buffer') : i <= buffer'[k].sequence
      <4>1. PICK k \in 1..Len(buffer') : i <= buffer'[k].sequence
        BY <3>2
      <4>2. k \in 1..Len(buffer) \/ k = Len(buffer) + 1
        BY <1>1
      <4> QED BY <1>1, <4>1, <4>2 DEF Received, Reached
    <3> QED BY <2>2, <3>1, <3>2 DEF Reached
  <2> QED BY <2>1, <2>2
<1> QED BY <1>1, <1>2, <1>3

\* An item follows on what waits for the client.
Follows(item) ==
    \/ item.kind = "synchronized" /\ item.sequence = 0
    \/ /\ item.kind = "event" /\ item.sequence \in 1..Len(log) /\ Detail(log, item.sequence)
       /\ \A i \in 1..item.sequence - 1 : Detail(log, i) => Received(i) \/ Replaced(log, i)
    \/ /\ IsSnapshot(item) /\ item.sequence \in lastSequence..Len(log)
       /\ \A k \in 1..Len(buffer) : buffer[k].sequence <= item.sequence

LEMMA SentKeepsClient ==
    ASSUME SyncInv, stage = "streaming", NEW item \in Item, buffer' = Append(buffer, item), Follows(item),
           item.kind = "event" /\ ~thread.present => SnapshotBefore(Len(buffer) + 1),
           UNCHANGED <<engineVars, session, open, shownVars, applying, cacheVars>>
    PROVE  OrderInv' /\ ScopeInv' /\ ClientInv'
<1> DEFINE n == Len(buffer)
<1>1. /\ Len(buffer') = n + 1 /\ n \in Nat
      /\ \A k \in 1..n : buffer'[k] = buffer[k]
      /\ buffer'[n + 1] = item
      /\ \A i : \A k \in 0..n :
           Reached(i, lastSequence, buffer', k) <=> Reached(i, lastSequence, buffer, k)
  BY AppendedIs
<1>2. UNCHANGED <<log, latestSequence, published, thread, lastSequence, applying, committed, kept>>
  BY DEF engineVars, shownVars, cacheVars
<1>3. open' /\ session'
  <2>1. open /\ session
    BY DEF SyncInv, ScopeInv
  <2> QED BY <2>1
<1>4. OrderInv' /\ ScopeInv'
  BY <1>2, <1>3 DEF SyncInv, OrderInv, ScopeInv
<1>5. ClientInv
  BY DEF SyncInv
<1>6. \A k \in 1..n + 1 : k \in 1..n \/ k = n + 1
  BY <1>1
<1>7. BufferInv'
  <2> SUFFICES ASSUME NEW k \in 1..n + 1 PROVE ItemInv(k)'
    BY <1>1 DEF BufferInv
  <2>1. CASE k \in 1..n
    <3>1. ItemInv(k) /\ k - 1 \in 0..n /\ \A j \in 1..k - 1 : j \in 1..n
      BY <1>1, <1>5, <2>1 DEF ClientInv, BufferInv
    <3>2. \A i : Reached(i, lastSequence, buffer', k - 1) <=> Reached(i, lastSequence, buffer, k - 1)
      BY <1>1, <3>1
    <3>3. buffer'[k] = buffer[k] /\ \A j \in 1..k - 1 : buffer'[j] = buffer[j]
      BY <1>1, <2>1, <3>1
    <3> QED BY <1>2, <3>1, <3>2, <3>3 DEF ItemInv, IsSnapshot
  <2>2. CASE k = n + 1
    <3>1. buffer'[k] = item /\ k - 1 = n /\ n \in 0..n
      BY <1>1, <2>2
    <3>2. \A i : Reached(i, lastSequence, buffer', k - 1) <=> Received(i)
      BY <1>1, <3>1 DEF Received
    <3>3. \A j \in 1..k - 1 : buffer'[j] = buffer[j]
      BY <1>1, <3>1
    <3> QED BY <1>2, <3>1, <3>2, <3>3 DEF ItemInv, IsSnapshot, Follows
  <2> QED BY <1>6, <2>1, <2>2
<1>8. ShownInv'
  BY <1>2, <1>5 DEF ClientInv, ShownInv, IsSnapshot
<1>9. KeptInv'
  BY <1>2, <1>5 DEF ClientInv, KeptInv
<1>10. PresentInv'
  <2> SUFFICES ASSUME ~thread.present
               PROVE  /\ applying.kind # "event"
                      /\ \A k \in 1..n + 1 : buffer'[k].kind = "event" => SnapshotBefore(k)'
    BY <1>1, <1>2 DEF PresentInv
  <2>1. applying.kind # "event"
    BY <1>5 DEF ClientInv, PresentInv
  <2>2. ASSUME NEW k \in 1..n + 1, buffer'[k].kind = "event" PROVE SnapshotBefore(k)'
    <3>1. SnapshotBefore(k)
      BY <1>1, <1>5, <1>6, <2>2 DEF ClientInv, PresentInv
    <3>2. \A j \in 1..k - 1 : buffer'[j] = buffer[j]
      BY <1>1
    <3> QED BY <1>2, <3>1, <3>2 DEF SnapshotBefore
  <2> QED BY <2>1, <2>2
<1> QED BY <1>4, <1>7, <1>8, <1>9, <1>10 DEF ClientInv

LEMMA SnapshotsStay ==
    ASSUME SyncInv, NEW item \in Item, buffer' = Append(buffer, item), UNCHANGED applying
    PROVE  /\ SnapshotBefore(Len(buffer) + 1) \/ item.kind = "snapshot" =>
                applying'.kind = "snapshot" \/ \E j \in 1..Len(buffer') : buffer'[j].kind = "snapshot"
           /\ \A d : (\E k \in 1..Len(buffer) : buffer[k].kind = "snapshot" /\ buffer[k].sequence >= d)
                     \/ (item.kind = "snapshot" /\ item.sequence >= d) =>
                \E k \in 1..Len(buffer') : buffer'[k].kind = "snapshot" /\ buffer'[k].sequence >= d
<1>1. /\ Len(buffer') = Len(buffer) + 1 /\ Len(buffer) \in Nat
      /\ \A k \in 1..Len(buffer) : buffer'[k] = buffer[k]
      /\ buffer'[Len(buffer) + 1] = item
  BY AppendedIs
<1>2. /\ \A k \in 1..Len(buffer) : k \in 1..Len(buffer') /\ Len(buffer) + 1 \in 1..Len(buffer')
      /\ Len(buffer) + 1 \in 1..Len(buffer') /\ Len(buffer) + 1 - 1 = Len(buffer)
  BY <1>1
<1>3. SnapshotBefore(Len(buffer) + 1) <=>
        applying.kind = "snapshot" \/ \E j \in 1..Len(buffer) : buffer[j].kind = "snapshot"
  BY <1>2 DEF SnapshotBefore
<1> QED BY <1>1, <1>2, <1>3

LEMMA SendReplayKeeps ==
    ASSUME SyncInv, SendReplay
    PROVE  OrderInv' /\ ScopeInv' /\ ClientInv' /\ ServerInv'
<1>1. PICK item \in replay : /\ \A other \in replay : item.sequence <= other.sequence
                             /\ Deliver(item)
                             /\ replay' = replay \ {item}
  BY DEF SendReplay
<1>2. /\ stage = "streaming" /\ buffer' = Append(buffer, item)
      /\ UNCHANGED <<engineVars, stage, request, liveBuffer, session, open, shownVars, applying, cacheVars>>
      /\ (marked' <=> marked) /\ (confirmed' <=> confirmed)
  BY <1>1 DEF SendReplay, Deliver
<1>3. UNCHANGED <<log, published, latestSequence, thread, lastSequence>>
  BY <1>2 DEF engineVars, shownVars
<1>4. /\ item \in Item /\ \A other \in replay : other.sequence \in Nat
      /\ Len(buffer) \in Nat /\ Len(log) \in Nat /\ lastSequence \in Nat
  BY <1>1, Numbers DEF SyncInv
<1>5. /\ ~marked /\ ~confirmed /\ liveBuffer.marker = 0 /\ \A k \in 1..Len(buffer) : ~IsFreshMarker(k)
  BY <1>1 DEF SyncInv, ServerInv, AttemptInv, MarkerInv
<1>6. ServerInv /\ Attached
  BY <1>2 DEF SyncInv, Attached
<1>7. \/ /\ item.kind = "event" /\ item.sequence \in 1..Len(log) /\ Detail(log, item.sequence)
         /\ \A i \in 1..item.sequence - 1 : Detail(log, i) =>
              \/ Received(i) \/ Replaced(log, i)
              \/ \E other \in replay : other.sequence = i
      \/ /\ IsSnapshot(item) /\ replay = {item}
         /\ item.sequence \in lastSequence..Len(log)
         /\ \A k \in 1..Len(buffer) : buffer[k].sequence <= item.sequence
  BY <1>1, <1>6 DEF ServerInv, ReplayInv
<1>8. item.kind \in {"event", "snapshot"} /\ Follows(item)
  <2>1. \A i \in 1..item.sequence - 1 : \A other \in replay : other.sequence # i
    BY <1>1, <1>4
  <2> QED BY <1>7, <2>1 DEF Follows, IsSnapshot
<1>9. \A other \in replay : other.kind = "snapshot" => other = item
  <2> TAKE other \in replay
  <2> HAVE other.kind = "snapshot"
  <2>1. replay = {other}
    BY <1>6 DEF ServerInv, ReplayInv
  <2> QED BY <1>1, <2>1
<1>10. item.kind = "event" /\ ~thread.present => SnapshotBefore(Len(buffer) + 1)
  BY <1>2, <1>6, <1>9 DEF ServerInv, ComesInv
<1>11. OrderInv' /\ ScopeInv' /\ ClientInv'
  BY <1>2, <1>4, <1>8, <1>10, SentKeepsClient
<1>12. /\ Len(buffer') = Len(buffer) + 1
       /\ \A k \in 1..Len(buffer) : buffer'[k] = buffer[k]
       /\ buffer'[Len(buffer) + 1] = item
       /\ \A i : Reached(i, lastSequence, buffer', Len(buffer')) <=> Received(i) \/ i <= item.sequence
  BY <1>2, <1>4, AppendedIs
<1>13. AttemptInv'
  <2>1. Attached'
    BY <1>2 DEF Attached
  <2> QED BY <1>2, <1>3, <1>5, <1>6, <2>1 DEF ServerInv, AttemptInv
<1>14. LiveInv'
  BY <1>2, <1>3, <1>6 DEF ServerInv, LiveInv, Attached
<1>15. ReplayInv'
  <2> SUFFICES ASSUME NEW other \in replay, other # item
               PROVE  /\ other.kind = "event" /\ other.sequence \in 1..Len(log) /\ Detail(log, other.sequence)
                      /\ \A i \in 1..other.sequence - 1 : Detail(log, i) =>
                           \/ Reached(i, lastSequence, buffer', Len(buffer')) \/ Replaced(log, i)
                           \/ \E third \in replay' : third.sequence = i
    BY <1>1, <1>3 DEF ReplayInv, Received
  <2>1. /\ other.kind = "event" /\ other.sequence \in 1..Len(log) /\ Detail(log, other.sequence)
        /\ \A i \in 1..other.sequence - 1 : Detail(log, i) =>
             \/ Received(i) \/ Replaced(log, i)
             \/ \E third \in replay : third.sequence = i
    BY <1>6, <1>9 DEF ServerInv, ReplayInv, IsSnapshot
  <2>2. \A i \in Nat : (\E third \in replay : third.sequence = i) =>
          i <= item.sequence \/ \E third \in replay' : third.sequence = i
    BY <1>1, <1>4
  <2>3. \A i \in 1..other.sequence - 1 : i \in Nat
    OBVIOUS
  <2> QED BY <1>12, <2>1, <2>2, <2>3
<1>16. StreamInv'
  <2>1. \A i \in 1..liveBuffer.position : Detail(log, i) =>
             \/ Reached(i, lastSequence, buffer', Len(buffer')) \/ i \in Waiting \/ Replaced(log, i)
             \/ \E other \in replay' : other.sequence = i \/ (other.kind = "snapshot" /\ i <= other.sequence)
    <3> TAKE i \in 1..liveBuffer.position
    <3> HAVE Detail(log, i)
    <3>1. \/ Received(i) \/ i \in Waiting \/ Replaced(log, i)
          \/ \E other \in replay : other.sequence = i \/ (other.kind = "snapshot" /\ i <= other.sequence)
      BY <1>2, <1>6 DEF ServerInv, StreamInv
    <3>2. \A other \in replay : other \in replay' \/ other = item
      BY <1>1
    <3>3. item.sequence = i => i <= item.sequence
      BY <1>4
    <3> QED BY <1>12, <3>1, <3>2, <3>3
  <2>2. \A i \in 1..Len(log) :
             Detail(log, i) /\ (i <= request.covers \/ i <= liveBuffer.position) =>
               \/ Reached(i, lastSequence, buffer', Len(buffer'))
               \/ \E other \in replay' : i <= other.sequence
               \/ \E j \in Waiting : i <= j
    <3> TAKE i \in 1..Len(log)
    <3> HAVE Detail(log, i) /\ (i <= request.covers \/ i <= liveBuffer.position)
    <3>1. \/ Received(i)
          \/ \E other \in replay : i <= other.sequence
          \/ \E j \in Waiting : i <= j
      BY <1>2, <1>6 DEF ServerInv, StreamInv
    <3>2. \A other \in replay : other \in replay' \/ other = item
      BY <1>1
    <3> QED BY <1>12, <3>1, <3>2
  <2> QED BY <1>2, <1>3, <2>1, <2>2 DEF StreamInv, Received, Waiting
<1>17. MarkerInv'
  <2>1. \A k \in 1..Len(buffer') : k \in 1..Len(buffer) \/ k = Len(buffer) + 1
    BY <1>4, <1>12
  <2>2. \A k \in 1..Len(buffer') : ~(buffer'[k].kind = "synchronized" /\ ~buffer'[k].old)
    BY <1>5, <1>8, <1>12, <2>1 DEF IsFreshMarker
  <2> QED BY <1>2, <1>5, <2>2 DEF MarkerInv, IsFreshMarker
<1>18. \A other \in replay : other.kind = "snapshot" => item.kind = "snapshot"
  BY <1>9
<1>19. ComesInv'
  <2>1. ~thread.present => SnapshotBefore(Len(buffer) + 1) \/ item.kind = "snapshot"
    BY <1>2, <1>6, <1>18 DEF ServerInv, ComesInv
  <2>2. ~thread.present =>
          applying'.kind = "snapshot" \/ \E j \in 1..Len(buffer') : buffer'[j].kind = "snapshot"
    BY <1>2, <1>4, <2>1, SnapshotsStay
  <2>3. Len(buffer') + 1 - 1 = Len(buffer')
    BY <1>4, <1>12
  <2> QED BY <1>3, <2>2, <2>3 DEF ComesInv, SnapshotBefore
<1>20. RecreatedInv'
  <2> SUFFICES ASSUME request.resume, ~request.replayIfMissing,
                      NEW d \in request.after + 1..request.head, log[d].type = "thread.created"
               PROVE  \/ lastSequence >= d /\ (applying.kind = "snapshot" \/ \A i \in thread.rows : i > d)
                      \/ \E k \in 1..Len(buffer') : buffer'[k].kind = "snapshot" /\ buffer'[k].sequence >= d
    BY <1>2, <1>3 DEF RecreatedInv
  <2>1. \/ lastSequence >= d /\ (applying.kind = "snapshot" \/ \A i \in thread.rows : i > d)
        \/ \E k \in 1..Len(buffer) : buffer[k].kind = "snapshot" /\ buffer[k].sequence >= d
        \/ \E other \in replay : other.kind = "snapshot" /\ other.sequence >= d
    BY <1>2, <1>6 DEF ServerInv, RecreatedInv
  <2> QED BY <1>2, <1>4, <1>9, <2>1, SnapshotsStay
<1> QED BY <1>11, <1>13, <1>14, <1>15, <1>16, <1>17, <1>19, <1>20 DEF ServerInv

\* What an item behind the marker's predecessors does to the rest: all but the
\* stream and the marker.
LEMMA SentLiveKeeps ==
    ASSUME SyncInv, marked, NEW item \in Item, item.kind # "snapshot", buffer' = Append(buffer, item),
           Follows(item), item.kind = "event" /\ ~thread.present => SnapshotBefore(Len(buffer) + 1),
           liveBuffer'.position = liveBuffer.position, liveBuffer'.pending = liveBuffer.pending,
           liveBuffer'.output \subseteq liveBuffer.output, liveBuffer'.marker \in {0, liveBuffer.marker},
           UNCHANGED <<engineVars, stage, request, replay, session, open, shownVars, applying, cacheVars>>,
           marked' <=> marked, confirmed' <=> confirmed, StreamInv', MarkerInv'
    PROVE  OrderInv' /\ ScopeInv' /\ ClientInv' /\ ServerInv'
<1>1. ServerInv /\ stage = "streaming" /\ replay = {} /\ Attached
  BY DEF SyncInv, ServerInv, AttemptInv, Attached
<1>2. UNCHANGED <<log, published, latestSequence, thread, lastSequence>>
  BY DEF engineVars, shownVars
<1>3. OrderInv' /\ ScopeInv' /\ ClientInv'
  BY <1>1, SentKeepsClient
<1>4. Attached'
  BY <1>1 DEF Attached
<1>5. AttemptInv'
  BY <1>1, <1>2, <1>4 DEF ServerInv, AttemptInv
<1>6. LiveInv'
  <2>1. liveBuffer.position \in Nat
    BY Numbers DEF SyncInv
  <2>2. liveBuffer'.marker <= liveBuffer.position
    BY <1>1, <2>1 DEF ServerInv, LiveInv
  <2> QED BY <1>1, <1>2, <2>2 DEF ServerInv, LiveInv
<1>7. ReplayInv'
  BY <1>1 DEF ReplayInv
<1>8. /\ Len(buffer') = Len(buffer) + 1 /\ Len(buffer) \in Nat
  BY AppendedIs
<1>9. ComesInv'
  <2>1. ~thread.present => SnapshotBefore(Len(buffer) + 1)
    BY <1>1 DEF ServerInv, ComesInv
  <2>2. ~thread.present =>
          applying'.kind = "snapshot" \/ \E j \in 1..Len(buffer') : buffer'[j].kind = "snapshot"
    BY <2>1, SnapshotsStay
  <2>3. Len(buffer') + 1 - 1 = Len(buffer')
    BY <1>8
  <2> QED BY <1>2, <2>2, <2>3 DEF ComesInv, SnapshotBefore
<1>10. RecreatedInv'
  <2> SUFFICES ASSUME request.resume, ~request.replayIfMissing,
                      NEW d \in request.after + 1..request.head, log[d].type = "thread.created"
               PROVE  \/ lastSequence >= d /\ (applying.kind = "snapshot" \/ \A i \in thread.rows : i > d)
                      \/ \E k \in 1..Len(buffer') : buffer'[k].kind = "snapshot" /\ buffer'[k].sequence >= d
    BY <1>2 DEF RecreatedInv
  <2>1. \/ lastSequence >= d /\ (applying.kind = "snapshot" \/ \A i \in thread.rows : i > d)
        \/ \E k \in 1..Len(buffer) : buffer[k].kind = "snapshot" /\ buffer[k].sequence >= d
    BY <1>1 DEF ServerInv, RecreatedInv
  <2> QED BY <2>1, SnapshotsStay
<1> QED BY <1>3, <1>5, <1>6, <1>7, <1>9, <1>10 DEF ServerInv

LEMMA SendLiveKeeps ==
    ASSUME SyncInv, SendLive
    PROVE  OrderInv' /\ ScopeInv' /\ ClientInv' /\ ServerInv'
<1> DEFINE n == Len(buffer)
           b == liveBuffer
<1>1. /\ marked /\ UNCHANGED <<engineVars, stage, request, replay, session, open, shownVars, applying, cacheVars>>
      /\ (marked' <=> marked) /\ (confirmed' <=> confirmed)
  BY DEF SendLive
<1>2. UNCHANGED <<log, published, latestSequence, thread, lastSequence>>
  BY <1>1 DEF engineVars, shownVars
<1>3. ServerInv /\ stage = "streaming" /\ replay = {} /\ Attached
  BY <1>1 DEF SyncInv, ServerInv, AttemptInv, Attached
<1>4. b \in BufferType /\ Buffered(b)
  BY <1>3, BufferedIs
<1>5. /\ b.position \in Nat /\ b.marker \in Nat /\ b.pending \subseteq Nat \ {0}
      /\ b.output \subseteq Nat \ {0} /\ n \in Nat /\ Len(log) \in Nat /\ Len(log) \in 1..MaxEvents
      /\ published \in Nat /\ published <= Len(log) /\ MaxEvents \in Nat /\ lastSequence \in Nat
      /\ request.covers \in Nat
  BY Numbers DEF SyncInv
<1>6. StreamInv /\ MarkerInv
  BY <1>3 DEF ServerInv
<1>7. /\ \A i \in 1..b.position : Detail(log, i) => Received(i) \/ i \in Waiting \/ Replaced(log, i)
      /\ \A i \in 1..Len(log) : Detail(log, i) /\ (i <= request.covers \/ i <= b.position) =>
           Received(i) \/ \E j \in Waiting : i <= j
  BY <1>3, <1>6 DEF StreamInv
<1>8. CASE \E i \in b.output :
             /\ \A j \in b.output : i <= j
             /\ b.marker = 0 \/ i <= b.marker
             /\ Deliver(EventItem(i))
             /\ liveBuffer' = [b EXCEPT !.output = @ \ {i}]
  <2>1. PICK i \in b.output :
             /\ \A j \in b.output : i <= j
             /\ b.marker = 0 \/ i <= b.marker
             /\ Deliver(EventItem(i))
             /\ liveBuffer' = [b EXCEPT !.output = @ \ {i}]
    BY <1>8
  <2> DEFINE item == EventItem(i)
  <2>2. i \in 1..Len(log) /\ i \in 0..MaxEvents /\ i <= b.position /\ Detail(log, i)
    BY <1>4, <1>5, <2>1 DEF Buffered
  <2>3. item \in Item /\ item.kind = "event" /\ item.sequence = i
    BY <2>2, ItemsAre
  <2>4. buffer' = Append(buffer, item)
    BY <2>1 DEF Deliver
  <2> HIDE DEF item
  <2>5. /\ liveBuffer'.position = b.position /\ liveBuffer'.pending = b.pending
        /\ liveBuffer'.output = b.output \ {i} /\ liveBuffer'.marker = b.marker
    BY <1>4, <2>1 DEF BufferType
  <2>6. Follows(item)
    <3>1. ASSUME NEW h \in 1..i - 1, Detail(log, h) PROVE Received(h) \/ Replaced(log, h)
      <4>1. h \in 1..b.position /\ h < i
        BY <1>5, <2>2
      <4>2. h \notin Waiting
        BY <1>4, <1>5, <2>1, <4>1 DEF Waiting, Buffered
      <4> QED BY <1>7, <3>1, <4>1, <4>2
    <3> QED BY <2>2, <2>3, <3>1 DEF Follows
  <2>7. item.kind = "event" /\ ~thread.present => SnapshotBefore(n + 1)
    BY <1>3 DEF ServerInv, ComesInv
  <2>8. /\ Len(buffer') = n + 1
        /\ \A k \in 1..n : buffer'[k] = buffer[k]
        /\ buffer'[n + 1] = item
        /\ \A h : \A k \in 0..n :
             Reached(h, lastSequence, buffer', k) <=> Reached(h, lastSequence, buffer, k)
        /\ \A h : Reached(h, lastSequence, buffer', Len(buffer')) <=> Received(h) \/ h <= i
    BY <2>3, <2>4, AppendedIs
  <2>9. \A j \in Waiting : j \in Waiting' \/ j = i
    BY <2>5 DEF Waiting
  <2>10. StreamInv'
    <3>1. \A h \in 1..b.position : Detail(log, h) =>
             Reached(h, lastSequence, buffer', Len(buffer')) \/ h \in Waiting' \/ Replaced(log, h)
      BY <1>5, <1>7, <2>8, <2>9
    <3>2. \A h \in 1..Len(log) : Detail(log, h) /\ (h <= request.covers \/ h <= b.position) =>
             Reached(h, lastSequence, buffer', Len(buffer')) \/ \E j \in Waiting' : h <= j
      BY <1>7, <2>8, <2>9
    <3> QED BY <1>1, <1>2, <2>5, <3>1, <3>2 DEF StreamInv, Received
  <2>11. MarkerInv'
    <3>1. b.marker # 0 =>
            \A h \in 1..request.covers : Detail(log, h) =>
              \/ Reached(h, lastSequence, buffer', Len(buffer'))
              \/ \E j \in liveBuffer'.output : h <= j /\ j <= b.marker
      BY <1>6, <2>5, <2>8 DEF MarkerInv
    <3>2. \A k \in 1..n + 1 : k \in 1..n \/ k = n + 1
      BY <1>5
    <3>3. \A j \in 1..n + 1 : buffer'[j].kind = "snapshot" => j \in 1..n /\ buffer[j].kind = "snapshot"
      BY <2>3, <2>8, <3>2
    <3>4. ASSUME NEW k \in 1..n + 1, buffer'[k].kind = "synchronized", ~buffer'[k].old
          PROVE  /\ \A h \in 1..request.covers : Detail(log, h) =>
                      Reached(h, lastSequence, buffer', k - 1)
                 /\ \A j \in k..n + 1 : buffer'[j].kind # "snapshot"
      <4>1. k \in 1..n /\ IsFreshMarker(k) /\ k - 1 \in 0..n
        BY <1>5, <2>3, <2>8, <3>2, <3>4 DEF IsFreshMarker
      <4>2. /\ \A h \in 1..request.covers : Detail(log, h) =>
                 Reached(h, lastSequence, buffer, k - 1)
            /\ \A j \in k..n : buffer[j].kind # "snapshot"
        BY <1>6, <4>1 DEF MarkerInv
      <4>3. \A j \in k..n + 1 : j \in 1..n + 1 /\ (j \in 1..n => j \in k..n)
        BY <1>5, <4>1
      <4> QED BY <2>8, <3>3, <4>1, <4>2, <4>3
    <3>5. confirmed =>
            /\ \A h \in 1..request.covers : Detail(log, h) => h <= lastSequence
            /\ applying.kind # "snapshot" /\ \A j \in 1..n + 1 : buffer'[j].kind # "snapshot"
      BY <1>6, <3>3 DEF MarkerInv
    <3> QED BY <1>1, <1>2, <2>5, <2>8, <3>1, <3>4, <3>5 DEF MarkerInv, IsFreshMarker, Received
  <2>12. item.kind # "snapshot" /\ liveBuffer'.output \subseteq b.output
    BY <2>3, <2>5
  <2> QED BY <1>1, <2>3, <2>4, <2>5, <2>6, <2>7, <2>10, <2>11, <2>12, SentLiveKeeps
<1>9. CASE /\ b.marker # 0 /\ \A j \in b.output : j > b.marker
           /\ Deliver(Marker)
           /\ liveBuffer' = [b EXCEPT !.marker = 0]
  <2>1. Marker \in Item /\ Marker.kind = "synchronized" /\ Marker.sequence = 0
    BY ItemsAre
  <2>2. buffer' = Append(buffer, Marker)
    BY <1>9 DEF Deliver
  <2>3. /\ liveBuffer'.position = b.position /\ liveBuffer'.pending = b.pending
        /\ liveBuffer'.output = b.output /\ liveBuffer'.marker = 0
    BY <1>4, <1>9 DEF BufferType
  <2>4. Follows(Marker)
    BY <2>1 DEF Follows
  <2>5. /\ Len(buffer') = n + 1
        /\ \A k \in 1..n : buffer'[k] = buffer[k]
        /\ buffer'[n + 1] = Marker
        /\ \A h : \A k \in 0..n :
             Reached(h, lastSequence, buffer', k) <=> Reached(h, lastSequence, buffer, k)
        /\ \A h : Reached(h, lastSequence, buffer', Len(buffer')) <=> Received(h) \/ h <= 0
    BY <2>1, <2>2, AppendedIs
  <2>6. StreamInv'
    <3>1. Waiting' = Waiting
      BY <2>3 DEF Waiting
    <3> QED BY <1>1, <1>2, <1>7, <2>3, <2>5, <3>1 DEF StreamInv, Received
  <2>7. MarkerInv'
    <3>1. \A k \in 1..n + 1 : k \in 1..n \/ k = n + 1
      BY <1>5
    <3>2. \A j \in 1..n + 1 : buffer'[j].kind = "snapshot" => j \in 1..n /\ buffer[j].kind = "snapshot"
      BY <2>1, <2>5, <3>1
    <3>3. \A h \in 1..request.covers : Detail(log, h) => Received(h)
      <4>1. \A j \in b.output : ~(j <= b.marker)
        BY <1>5, <1>9
      <4> QED BY <1>6, <1>9, <4>1 DEF MarkerInv
    <3>4. ASSUME NEW k \in 1..n + 1, buffer'[k].kind = "synchronized", ~buffer'[k].old
          PROVE  /\ \A h \in 1..request.covers : Detail(log, h) =>
                      Reached(h, lastSequence, buffer', k - 1)
                 /\ \A j \in k..n + 1 : buffer'[j].kind # "snapshot"
      <4>1. CASE k \in 1..n
        <5>1. IsFreshMarker(k) /\ k - 1 \in 0..n
          BY <1>5, <2>5, <3>4, <4>1 DEF IsFreshMarker
        <5>2. /\ \A h \in 1..request.covers : Detail(log, h) =>
                   Reached(h, lastSequence, buffer, k - 1)
              /\ \A j \in k..n : buffer[j].kind # "snapshot"
          BY <1>6, <4>1, <5>1 DEF MarkerInv
        <5>3. \A j \in k..n + 1 : j \in 1..n + 1 /\ (j \in 1..n => j \in k..n)
          BY <1>5, <4>1
        <5> QED BY <2>5, <3>2, <5>1, <5>2, <5>3
      <4>2. CASE k = n + 1
        <5>1. k - 1 = n /\ n \in 0..n /\ \A j \in k..n + 1 : j = n + 1
          BY <1>5, <4>2
        <5> QED BY <2>1, <2>5, <3>3, <5>1 DEF Received
      <4> QED BY <3>1, <4>1, <4>2
    <3>5. confirmed =>
            /\ \A h \in 1..request.covers : Detail(log, h) => h <= lastSequence
            /\ applying.kind # "snapshot" /\ \A j \in 1..n + 1 : buffer'[j].kind # "snapshot"
      BY <1>6, <3>2 DEF MarkerInv
    <3> QED BY <1>1, <1>2, <2>3, <2>5, <3>4, <3>5 DEF MarkerInv, IsFreshMarker
  <2> QED BY <1>1, <2>1, <2>2, <2>3, <2>4, <2>6, <2>7, SentLiveKeeps
<1> QED BY <1>8, <1>9 DEF SendLive

---------------------------------------------------------------------------
(* The client.                                                              *)

LEMMA RetryKeeps ==
    ASSUME SyncInv, RetryAfterFailure
    PROVE  OrderInv' /\ ScopeInv' /\ ClientInv' /\ ServerInv'
<1>1. /\ stage = "retrying" /\ stage' = "starting" /\ UNCHANGED <<engineVars, replay, liveBuffer, clientVars>>
      /\ (marked' <=> marked) /\ (confirmed' <=> confirmed)
  BY DEF RetryAfterFailure, Unbothered
<1>2. OrderInv' /\ ScopeInv' /\ ClientInv'
  BY <1>1, SubscriptionKeepsClient
<1>3. /\ marked = FALSE /\ confirmed = FALSE /\ replay = {} /\ liveBuffer = NoBuffer
      /\ \A k \in 1..Len(buffer) : buffer[k].kind = "synchronized" => buffer[k].old
  BY <1>1, EarlyHasNoMarker DEF SyncInv, ServerInv, AttemptInv, Attached
<1>4. marked' = FALSE /\ confirmed' = FALSE /\ buffer' = buffer
  BY <1>3 DEF RetryAfterFailure, clientVars
<1>5. ServerInv'
  BY <1>1, <1>3, <1>4, NoAttemptIs
<1> QED BY <1>2, <1>5

LEMMA MakeSubscribeInputKeeps ==
    ASSUME SyncInv, MakeSubscribeInput
    PROVE  OrderInv' /\ ScopeInv' /\ ClientInv' /\ ServerInv'
<1>1. /\ stage = "starting" /\ stage' \in {"requesting", "loading"}
      /\ UNCHANGED <<engineVars, replay, liveBuffer, buffer, thread, lastSequence, applying, cacheVars>>
      /\ (marked' <=> marked) /\ (confirmed' <=> confirmed)
      /\ (open' <=> open) /\ (session' <=> session)
      /\ request' = ResumeFrom(thread, lastSequence)
  BY DEF MakeSubscribeInput, Unbothered
<1>2. UNCHANGED <<log, latestSequence, published, committed, kept>>
  BY <1>1 DEF engineVars, cacheVars
<1>3. /\ marked = FALSE /\ confirmed = FALSE /\ replay = {} /\ liveBuffer = NoBuffer
      /\ \A k \in 1..Len(buffer) : buffer[k].kind = "synchronized" => buffer[k].old
  BY <1>1, EarlyHasNoMarker DEF SyncInv, ServerInv, AttemptInv, Attached
<1>4. marked' = FALSE /\ confirmed' = FALSE
  BY <1>3 DEF MakeSubscribeInput
<1>5. OrderInv' /\ ScopeInv' /\ ClientInv'
  <2>1. open /\ session
    BY <1>1 DEF SyncInv, ScopeInv
  <2>2. OrderInv' /\ ScopeInv'
    BY <1>1, <1>2, <2>1 DEF SyncInv, OrderInv, ScopeInv
  <2>3. ClientInv'
    BY <1>1, <1>2, SameItemsAsBefore, ClientKept
  <2> QED BY <2>2, <2>3
<1>6. request'.resume => thread.present /\ request'.after = lastSequence
  <2>1. thread \in Thread /\ lastSequence \in 0..MaxEvents
    BY DEF SyncInv, TypeOK
  <2>2. /\ ResumeFrom(thread, lastSequence) \in Request
        /\ ResumeFrom(thread, lastSequence).resume =>
             thread.present /\ ResumeFrom(thread, lastSequence).after = lastSequence
    BY <2>1, ResumeFromIs
  <2>3. /\ request'.resume = ResumeFrom(thread, lastSequence).resume
        /\ request'.after = ResumeFrom(thread, lastSequence).after
    BY <1>1, <2>2 DEF Request
  <2> QED BY <2>2, <2>3
<1>7. AttemptInv'
  <2>1. lastSequence \in Nat /\ ~Attached'
    BY <1>1, Numbers DEF SyncInv, Attached
  <2> QED BY <1>1, <1>3, <1>4, <1>6, <2>1, NothingIs DEF AttemptInv
<1>8. LiveInv'
  BY <1>1 DEF LiveInv, Attached
<1>9. ServerInv'
  BY <1>1, <1>3, <1>4, <1>7, <1>8, NothingIs, EarlyIs
<1> QED BY <1>5, <1>9

\* A thread read at a sequence fits it.
LEMMA RowsSuit ==
    ASSUME NEW l, NEW n \in Nat, NEW t, t.rows = Rows(l, n)
    PROVE  Suits(l, t, n)
<1>1. \A i \in Rows(l, n) : i <= n
  BY RowsIn
<1> QED BY <1>1 DEF Suits

LEMMA LoadSnapshotKeeps ==
    ASSUME SyncInv, LoadSnapshot
    PROVE  OrderInv' /\ ScopeInv' /\ ClientInv' /\ ServerInv'
<1>1. /\ stage = "loading" /\ stage' = "requesting" /\ applying = NoItem /\ buffer = <<>>
      /\ UNCHANGED <<engineVars, replay, liveBuffer, buffer, applying, kept>>
      /\ (marked' <=> marked) /\ (confirmed' <=> confirmed)
      /\ (open' <=> open) /\ (session' <=> session)
      /\ request' = ResumeFrom(thread', lastSequence')
  BY DEF LoadSnapshot, Unbothered
<1>2. UNCHANGED <<log, latestSequence, published>>
  BY <1>1 DEF engineVars
<1>3. /\ marked = FALSE /\ confirmed = FALSE /\ replay = {} /\ liveBuffer = NoBuffer
      /\ \A k \in 1..Len(buffer) : buffer[k].kind = "synchronized" => buffer[k].old
  BY <1>1, EarlyHasNoMarker DEF SyncInv, ServerInv, AttemptInv, Attached
<1>4. marked' = FALSE /\ confirmed' = FALSE
  BY <1>3 DEF LoadSnapshot
<1>5. OrderInv' /\ ScopeInv'
  <2>1. open /\ session
    BY <1>1 DEF SyncInv, ScopeInv
  <2> QED BY <1>1, <1>2, <2>1 DEF SyncInv, OrderInv, ScopeInv
<1>6. ShownInv /\ KeptInv /\ Len(log) \in Nat
  BY Numbers DEF SyncInv, ClientInv
<1>7. /\ lastSequence' <= Len(log) /\ Suits(log, thread', lastSequence')
      /\ committed'.sequence <= Len(log) /\ Suits(log, committed'.thread, committed'.sequence)
  <2> DEFINE t == [present |-> TRUE, rows |-> RowsAt(Len(log))]
  <2>1. CASE lastSequence' = Len(log) /\ SetThread(t, Len(log))
    <3>1. t.rows = Rows(log, Len(log))
      BY RowsAre
    <3> HIDE DEF t
    <3>2. thread' = t /\ committed'.thread = t /\ committed'.sequence = Len(log)
      BY <2>1 DEF SetThread, Pair
    <3>3. Suits(log, t, Len(log))
      BY <1>6, <3>1, RowsSuit
    <3> QED BY <1>6, <2>1, <3>2, <3>3
  <2>2. CASE UNCHANGED <<lastSequence, thread, status, committed>>
    BY <1>1, <1>6, <2>2 DEF ShownInv, KeptInv
  <2> QED BY <2>1, <2>2 DEF LoadSnapshot
<1>8. ClientInv'
  <2>1. BufferInv'
    BY <1>1, NothingIs DEF BufferInv
  <2>2. ShownInv'
    BY <1>1, <1>2, <1>7, ItemsAre DEF ShownInv
  <2>3. KeptInv'
    BY <1>1, <1>2, <1>6, <1>7 DEF KeptInv
  <2>4. PresentInv'
    BY <1>1, NothingIs, ItemsAre DEF PresentInv
  <2> QED BY <2>1, <2>2, <2>3, <2>4 DEF ClientInv
<1>9. AttemptInv'
  <2>1. thread' \in Thread /\ lastSequence' \in 0..MaxEvents /\ lastSequence' \in Nat
    BY ClientTypesKept, SyncAssumption DEF TypeOK
  <2>2. request'.resume => thread'.present /\ request'.after = lastSequence'
    BY <1>1, <2>1, ResumeFromIs
  <2>3. ~Attached'
    BY <1>1 DEF Attached
  <2> QED BY <1>1, <1>3, <1>4, <2>1, <2>2, <2>3, NothingIs DEF AttemptInv
<1>10. LiveInv'
  BY <1>1 DEF LiveInv, Attached
<1>11. ServerInv'
  BY <1>1, <1>3, <1>4, <1>9, <1>10, NothingIs, EarlyIs
<1> QED BY <1>5, <1>8, <1>11

LEMMA FinishItemKeeps ==
    ASSUME SyncInv, FinishItem
    PROVE  OrderInv' /\ ScopeInv' /\ ClientInv' /\ ServerInv'
<1>1. /\ applying # NoItem /\ applying' = NoItem
      /\ UNCHANGED <<engineVars, serverVars, buffer, lastSequence, kept>>
      /\ (confirmed' <=> confirmed) /\ (open' <=> open) /\ (session' <=> session)
  BY DEF FinishItem, Unbothered
<1>2. UNCHANGED <<log, latestSequence, published, stage, request, replay, liveBuffer>> /\ (marked' <=> marked)
  BY <1>1 DEF engineVars, serverVars
<1>3. /\ Len(log) \in Nat /\ lastSequence \in Nat /\ lastSequence <= Len(log)
      /\ ShownInv /\ KeptInv /\ ServerInv /\ BufferInv /\ ScopeInv /\ request.after \in Nat
      /\ thread \in Thread /\ (thread.present \/ applying.kind # "event")
  BY Numbers DEF SyncInv, ClientInv, ShownInv, TypeOK
<1>4. applying.kind \in {"event", "snapshot"} /\ applying.sequence = lastSequence
  BY <1>1, <1>3 DEF ShownInv
<1> DEFINE t == IF applying.kind = "snapshot" THEN [present |-> TRUE, rows |-> applying.rows]
                ELSE [thread EXCEPT !.rows = @ \cup {applying.sequence}]
<1>5. /\ t.present
      /\ applying.kind = "snapshot" => t.rows = Rows(log, lastSequence)
      /\ applying.kind = "event" => t.rows = thread.rows \cup {lastSequence}
  <2>1. CASE applying.kind = "snapshot"
    BY <1>3, <1>4, <2>1 DEF ShownInv, IsSnapshot
  <2>2. CASE applying.kind = "event"
    BY <1>3, <1>4, <2>2 DEF Thread
  <2> QED BY <1>4, <2>1, <2>2
<1>6. SetThread(t, lastSequence)
  BY <1>3, <1>4 DEF FinishItem
<1> HIDE DEF t
<1>7. thread' = t /\ committed'.thread = t /\ committed'.sequence = lastSequence
  BY <1>6 DEF SetThread, Pair
<1>8. Suits(log, t, lastSequence)
  <2>1. CASE applying.kind = "snapshot"
    BY <1>3, <1>5, <2>1, RowsSuit
  <2>2. CASE applying.kind = "event"
    BY <1>3, <1>5, <2>2 DEF ShownInv, Suits
  <2> QED BY <1>4, <2>1, <2>2
<1>9. OrderInv' /\ ScopeInv'
  BY <1>1, <1>2, <1>3 DEF SyncInv, OrderInv, ScopeInv
<1>10. ClientInv'
  <2>1. BufferInv'
    BY <1>1, <1>2, <1>3 DEF BufferInv, ItemInv, IsSnapshot
  <2>2. ShownInv'
    BY <1>1, <1>2, <1>3, <1>7, <1>8, ItemsAre DEF ShownInv
  <2>3. KeptInv'
    BY <1>1, <1>2, <1>3, <1>7, <1>8 DEF KeptInv
  <2>4. PresentInv'
    BY <1>5, <1>7 DEF PresentInv
  <2> QED BY <2>1, <2>2, <2>3, <2>4 DEF ClientInv
<1>11. Attached' <=> Attached
  BY <1>2 DEF Attached
<1>12. AttemptInv'
  BY <1>1, <1>2, <1>3, <1>5, <1>7, <1>11 DEF ServerInv, AttemptInv
<1>13. LiveInv'
  BY <1>2, <1>3, <1>11 DEF ServerInv, LiveInv
<1>14. ReplayInv'
  BY <1>1, <1>2, <1>3 DEF ServerInv, ReplayInv, IsSnapshot, Received
<1>15. StreamInv'
  BY <1>1, <1>2, <1>3 DEF ServerInv, StreamInv, Received, Waiting
<1>16. MarkerInv'
  BY <1>1, <1>2, <1>3, ItemsAre DEF ServerInv, MarkerInv, IsFreshMarker, Received
<1>17. ComesInv'
  BY <1>5, <1>7 DEF ComesInv
<1>18. RecreatedInv'
  <2> SUFFICES ASSUME stage = "streaming", request.resume, ~request.replayIfMissing,
                      NEW d \in request.after + 1..request.head, log[d].type = "thread.created"
               PROVE  \/ lastSequence >= d /\ \A i \in t.rows : i > d
                      \/ \E k \in 1..Len(buffer) : buffer[k].kind = "snapshot" /\ buffer[k].sequence >= d
                      \/ \E item \in replay : item.kind = "snapshot" /\ item.sequence >= d
    BY <1>1, <1>2, <1>7 DEF RecreatedInv
  <2>1. \/ lastSequence >= d /\ (applying.kind = "snapshot" \/ \A i \in thread.rows : i > d)
        \/ \E k \in 1..Len(buffer) : buffer[k].kind = "snapshot" /\ buffer[k].sequence >= d
        \/ \E item \in replay : item.kind = "snapshot" /\ item.sequence >= d
    BY <1>3 DEF ServerInv, RecreatedInv
  <2>2. d \in Nat \ {0}
    BY <1>3, Numbers DEF SyncInv
  <2>3. CASE lastSequence >= d /\ applying.kind = "snapshot"
    <3>1. d \in 1..lastSequence
      BY <1>3, <2>2, <2>3
    <3>2. \A i \in Rows(log, lastSequence) : i > d
      BY <1>3, <3>1, RowsIn
    <3> QED BY <1>5, <2>3, <3>2
  <2>4. CASE lastSequence >= d /\ applying.kind = "event" /\ \A i \in thread.rows : i > d
    <3>1. Detail(log, lastSequence)
      BY <1>3, <2>4 DEF ShownInv
    <3>2. lastSequence # d
      BY <3>1 DEF Detail
    <3>3. lastSequence > d
      BY <1>3, <2>2, <2>4, <3>2
    <3> QED BY <1>5, <2>4, <3>3
  <2> QED BY <1>4, <2>1, <2>3, <2>4
<1> QED BY <1>9, <1>10, <1>12, <1>13, <1>14, <1>15, <1>16, <1>17, <1>18 DEF ServerInv

LEMMA TakeItemKeeps ==
    ASSUME SyncInv, TakeItem
    PROVE  OrderInv' /\ ScopeInv' /\ ClientInv' /\ ServerInv'
<1> DEFINE item == buffer[1]
           n == Len(buffer)
           c == lastSequence
<1>1. /\ open /\ applying = NoItem /\ buffer # <<>> /\ buffer' = Tail(buffer)
      /\ UNCHANGED <<engineVars, serverVars, thread, kept>>
      /\ (open' <=> open) /\ (session' <=> session)
  BY DEF TakeItem, Unbothered
<1>2. UNCHANGED <<log, latestSequence, published, stage, request, replay, liveBuffer>> /\ (marked' <=> marked)
  BY <1>1 DEF engineVars, serverVars
<1>3. /\ n \in Nat \ {0} /\ Len(buffer') = n - 1 /\ Len(buffer') \in Nat
      /\ \A k \in 1..n - 1 : buffer'[k] = buffer[k + 1]
      /\ Head(buffer) = item /\ item \in Item /\ 1 \in 1..n /\ buffer \in Seq(Item)
      /\ \A k \in 1..n : buffer[k].sequence \in Nat
  <2>1. buffer \in Seq(Item) /\ \A k \in 1..n : buffer[k] \in Item /\ buffer[k].sequence \in Nat
    BY Numbers DEF SyncInv
  <2> QED BY <1>1, <2>1, HeadTailProperties, EmptySeq
<1>4. /\ Len(log) \in Nat /\ c \in Nat /\ c <= Len(log) /\ request.covers \in Nat
      /\ \A other \in replay : other.sequence \in Nat
      /\ ShownInv /\ KeptInv /\ BufferInv /\ PresentInv /\ ServerInv /\ ScopeInv /\ OrderInv
      /\ Suits(log, thread, c)
  BY <1>1, Numbers DEF SyncInv, ClientInv, ShownInv
<1>5. ItemInv(1)
  BY <1>3, <1>4 DEF BufferInv
<1>6. \/ /\ item.kind \in {"synchronized", "event"}
         /\ lastSequence' = c /\ applying' = applying /\ item.sequence <= c
         /\ confirmed' <=> confirmed \/ (item.kind = "synchronized" /\ ~item.old)
      \/ /\ item.kind = "event" \/ IsSnapshot(item)
         /\ item.kind = "event" => item.sequence > c
         /\ lastSequence' = item.sequence /\ applying' = item /\ committed' = committed
         /\ (confirmed' <=> confirmed)
  <2>1. item.kind \in {"event", "synchronized"} \/ IsSnapshot(item)
    BY <1>5 DEF ItemInv
  <2>2. CASE /\ item.kind = "synchronized"
             /\ confirmed' = (confirmed \/ ~item.old) /\ UNCHANGED <<lastSequence, applying>>
    <3>1. item.sequence <= c
      BY <1>4, <1>5, <2>2 DEF ItemInv, IsSnapshot
    <3> QED BY <2>2, <3>1
  <2>3. CASE Duplicate(item) /\ UNCHANGED <<lastSequence, applying, confirmed>>
    BY <2>3 DEF Duplicate
  <2>4. CASE /\ item.kind # "synchronized" /\ ~Duplicate(item) /\ lastSequence' = item.sequence
             /\ applying' = item /\ UNCHANGED <<confirmed, committed>>
    BY <1>3, <1>4, <2>1, <2>4 DEF Duplicate
  <2> QED BY <1>3, <2>2, <2>3, <2>4 DEF TakeItem
<1>7. committed' = committed \/ (committed'.thread = thread /\ committed'.sequence = c)
  BY DEF TakeItem, Pair
<1>8. /\ c <= lastSequence' /\ lastSequence' <= Len(log) /\ lastSequence' \in Nat
      /\ item.sequence <= lastSequence'
      /\ lastSequence' = c \/ lastSequence' = item.sequence
  <2>1. item.sequence <= Len(log)
    BY <1>3, <1>4, <1>5 DEF ItemInv
  <2>2. IsSnapshot(item) => item.sequence >= c
    BY <1>3, <1>4, <1>5 DEF ItemInv, IsSnapshot
  <2> QED BY <1>3, <1>4, <1>6, <2>1, <2>2
<1>9. thread.present \/ applying'.kind # "event"
  BY <1>1, ClientTypesKept DEF TypeOK
<1>10. item.kind = "snapshot" => applying' = item
  BY <1>6
<1>11. ASSUME NEW i \in Nat, NEW k \in 0..n, Reached(i, c, buffer, k)
       PROVE  Reached(i, lastSequence', buffer', IF k = 0 THEN 0 ELSE k - 1)
  BY <1>1, <1>3, <1>4, <1>8, <1>11, ReachedAfterTaking
<1>12. \A i \in Nat : Received(i) => Reached(i, lastSequence', buffer', Len(buffer'))
  <2>1. n \in 0..n /\ n # 0 /\ n - 1 = Len(buffer')
    BY <1>3
  <2> QED BY <1>11, <2>1 DEF Received
<1> HIDE DEF item, n, c
<1>13. OrderInv' /\ ScopeInv'
  BY <1>1, <1>2, <1>4 DEF OrderInv, ScopeInv
<1>14. \A k \in 1..n - 1 : k + 1 \in 1..n /\ k \in 0..n /\ k # 0 /\ k + 1 - 1 = k /\ k \in 1..k
  BY <1>3
<1>15. BufferInv'
  <2> SUFFICES ASSUME NEW k \in 1..n - 1 PROVE ItemInv(k)'
    BY <1>3 DEF BufferInv
  <2>1. ItemInv(k + 1) /\ buffer'[k] = buffer[k + 1] /\ k \in 0..n /\ k # 0 /\ k + 1 - 1 = k
    BY <1>3, <1>4, <1>14 DEF BufferInv, n
  <2>2. CASE buffer[k + 1].kind = "synchronized" /\ buffer[k + 1].sequence = 0
    BY <2>1, <2>2 DEF ItemInv
  <2>3. CASE /\ buffer[k + 1].kind = "event" /\ buffer[k + 1].sequence \in 1..Len(log)
             /\ Detail(log, buffer[k + 1].sequence)
             /\ \A i \in 1..buffer[k + 1].sequence - 1 : Detail(log, i) =>
                  Reached(i, lastSequence, buffer, k) \/ Replaced(log, i)
    <3>1. \A i \in 1..buffer[k + 1].sequence - 1 : Detail(log, i) =>
                  Reached(i, lastSequence', buffer', k - 1) \/ Replaced(log, i)
      <4>1. \A i \in 1..buffer[k + 1].sequence - 1 : i \in Nat
        OBVIOUS
      <4> QED BY <1>11, <2>1, <2>3, <4>1 DEF c
    <3> QED BY <1>2, <2>1, <2>3, <3>1 DEF ItemInv
  <2>4. CASE /\ IsSnapshot(buffer[k + 1]) /\ buffer[k + 1].sequence \in lastSequence..Len(log)
             /\ \A j \in 1..k : buffer[j].sequence <= buffer[k + 1].sequence
    <3>1. item.sequence <= buffer[k + 1].sequence
      <4>1. 1 \in 1..k
        BY <1>3, <1>14
      <4> QED BY <2>4, <4>1 DEF item
    <3>2. buffer[k + 1].sequence \in lastSequence'..Len(log)
      BY <1>3, <1>4, <1>8, <2>4, <3>1 DEF c
    <3>3. \A j \in 1..k - 1 : buffer'[j].sequence <= buffer[k + 1].sequence
      <4> TAKE j \in 1..k - 1
      <4>1. j \in 1..n - 1 /\ j + 1 \in 1..k
        BY <1>3
      <4> QED BY <1>3, <2>4, <4>1
    <3> QED BY <1>2, <2>1, <2>4, <3>2, <3>3 DEF ItemInv, IsSnapshot
  <2> QED BY <2>1, <2>2, <2>3, <2>4 DEF ItemInv
<1>16. ShownInv'
  <2>1. CASE lastSequence' = c /\ applying' = applying
    BY <1>1, <1>2, <1>4, <2>1, ItemsAre DEF ShownInv, IsSnapshot, c
  <2>2. CASE item.kind = "event" /\ item.sequence > c /\ lastSequence' = item.sequence /\ applying' = item
    <3>1. /\ item.sequence \in 1..Len(log) /\ Detail(log, item.sequence)
          /\ \A i \in 1..item.sequence - 1 : Detail(log, i) => i <= c \/ Replaced(log, i)
      BY <1>5, <2>2 DEF ItemInv, IsSnapshot, Reached, item, c
    <3>2. thread.present
      BY <1>9, <2>2
    <3>3. \A i \in Rows(log, item.sequence) :
            i \in thread.rows \/ i = item.sequence \/ Replaced(log, i)
      <4> TAKE i \in Rows(log, item.sequence)
      <4>1. i \in 1..item.sequence /\ Detail(log, i) /\ (i <= c => i \in Rows(log, c))
        <5>1. item.sequence \in Nat /\ c \in 0..item.sequence
          BY <1>4, <2>2, <3>1
        <5> QED BY <5>1, RowsIn
      <4>2. CASE i = item.sequence
        BY <4>2
      <4>3. CASE i # item.sequence
        <5>1. i \in 1..item.sequence - 1
          BY <3>1, <4>1, <4>3
        <5>2. i <= c \/ Replaced(log, i)
          BY <3>1, <4>1, <5>1
        <5> QED BY <1>4, <3>2, <4>1, <5>2 DEF Suits
      <4> QED BY <4>2, <4>3
    <3>4. \A i \in thread.rows : i <= item.sequence
      <4>1. \A i \in thread.rows : i \in Nat /\ i <= c
        BY <1>4, <3>2, SyncAssumption DEF Suits, SyncInv, TypeOK, Thread, Sequences
      <4> QED BY <1>3, <1>4, <2>2, <4>1
    <3>5. item # NoItem /\ item.sequence > 0 /\ item.sequence <= Len(log)
      BY <1>4, <2>2, <3>1, ItemsAre
    <3> QED BY <1>1, <1>2, <2>2, <3>1, <3>3, <3>4, <3>5 DEF ShownInv
  <2>3. CASE IsSnapshot(item) /\ lastSequence' = item.sequence /\ applying' = item
    <3>1. item.kind = "snapshot" /\ item # NoItem
      BY <2>3, ItemsAre DEF IsSnapshot
    <3> QED BY <1>2, <1>8, <2>3, <3>1 DEF ShownInv, IsSnapshot
  <2> QED BY <1>6, <2>1, <2>2, <2>3
<1>17. KeptInv'
  BY <1>1, <1>2, <1>4, <1>7 DEF KeptInv
<1>18. SnapshotBefore(n + 1) => applying'.kind = "snapshot" \/ \E j \in 1..n - 1 : buffer'[j].kind = "snapshot"
  <2>1. SUFFICES ASSUME NEW j \in 1..n, buffer[j].kind = "snapshot"
                 PROVE  applying'.kind = "snapshot" \/ \E h \in 1..n - 1 : buffer'[h].kind = "snapshot"
    BY <1>1, <1>3, ItemsAre DEF SnapshotBefore
  <2>2. CASE j = 1
    BY <1>10, <2>1, <2>2 DEF item
  <2>3. CASE j # 1
    <3>1. j - 1 \in 1..n - 1 /\ j - 1 + 1 = j
      BY <1>3, <2>3
    <3> QED BY <1>3, <2>1, <3>1
  <2> QED BY <2>2, <2>3
<1>19. PresentInv'
  <2> SUFFICES ASSUME ~thread.present, NEW k \in 1..n - 1, buffer'[k].kind = "event"
               PROVE  SnapshotBefore(k)'
    BY <1>1, <1>3, <1>9 DEF PresentInv
  <2>1. buffer[k + 1].kind = "event" /\ k + 1 \in 1..n /\ k + 1 - 1 = k
    BY <1>3, <1>14
  <2>2. PICK j \in 1..k : buffer[j].kind = "snapshot"
    BY <1>1, <1>4, <2>1, ItemsAre DEF PresentInv, SnapshotBefore, n
  <2>3. CASE j = 1
    BY <1>10, <2>2, <2>3 DEF SnapshotBefore, item
  <2>4. CASE j # 1
    <3>1. j - 1 \in 1..k - 1 /\ j - 1 \in 1..n - 1 /\ j - 1 + 1 = j
      BY <1>3, <2>4
    <3>2. buffer'[j - 1].kind = "snapshot"
      BY <1>3, <2>2, <3>1
    <3> QED BY <3>1, <3>2 DEF SnapshotBefore
  <2> QED BY <2>3, <2>4
<1>20. Attached' <=> Attached
  BY <1>2 DEF Attached
<1>21. IsFreshMarker(1) => marked
  BY <1>3, <1>4 DEF ServerInv, MarkerInv, n
<1>22. AttemptInv'
  <2>1. confirmed' => marked
    <3>1. confirmed => marked
      BY <1>4 DEF ServerInv, AttemptInv
    <3> QED BY <1>6, <1>21, <3>1 DEF IsFreshMarker, item
  <2>2. request.after \in Nat
    BY Numbers DEF SyncInv
  <2>3. request.after <= c => request.after <= lastSequence'
    BY <1>4, <1>8, <2>2
  <2> QED BY <1>1, <1>2, <1>4, <1>20, <2>1, <2>3 DEF ServerInv, AttemptInv, c
<1>23. LiveInv'
  BY <1>2, <1>4, <1>20 DEF ServerInv, LiveInv
<1>24. ReplayInv'
  <2> SUFFICES ASSUME NEW other \in replay
               PROVE  \/ /\ other.kind = "event" /\ other.sequence \in 1..Len(log)
                         /\ Detail(log, other.sequence)
                         /\ \A i \in 1..other.sequence - 1 : Detail(log, i) =>
                              \/ Reached(i, lastSequence', buffer', Len(buffer')) \/ Replaced(log, i)
                              \/ \E third \in replay : third.sequence = i
                      \/ /\ IsSnapshot(other) /\ replay = {other}
                         /\ other.sequence \in lastSequence'..Len(log)
                         /\ \A k \in 1..n - 1 : buffer'[k].sequence <= other.sequence
    BY <1>2, <1>3 DEF ReplayInv, IsSnapshot, Received
  <2>1. CASE /\ other.kind = "event" /\ other.sequence \in 1..Len(log)
             /\ Detail(log, other.sequence)
             /\ \A i \in 1..other.sequence - 1 : Detail(log, i) =>
                  \/ Received(i) \/ Replaced(log, i)
                  \/ \E third \in replay : third.sequence = i
    <3>1. \A i \in 1..other.sequence - 1 : i \in Nat
      OBVIOUS
    <3> QED BY <1>12, <2>1, <3>1
  <2>2. CASE /\ IsSnapshot(other) /\ replay = {other}
             /\ other.sequence \in lastSequence..Len(log)
             /\ \A k \in 1..n : buffer[k].sequence <= other.sequence
    <3>1. item.sequence <= other.sequence
      BY <1>3, <2>2 DEF item
    <3>2. other.sequence \in lastSequence'..Len(log)
      BY <1>3, <1>4, <1>8, <2>2, <3>1 DEF c
    <3>3. \A k \in 1..n - 1 : buffer'[k].sequence <= other.sequence
      BY <1>3, <1>14, <2>2
    <3> QED BY <2>2, <3>2, <3>3
  <2> QED BY <1>4, <2>1, <2>2 DEF ServerInv, ReplayInv, n
<1>25. StreamInv'
  <2>1. \A i \in 1..liveBuffer.position : i \in Nat
    OBVIOUS
  <2>2. \A i \in 1..Len(log) : i \in Nat
    OBVIOUS
  <2> QED BY <1>2, <1>4, <1>12, <2>1, <2>2 DEF ServerInv, StreamInv, Received, Waiting
<1>26. MarkerInv'
  <2>1. MarkerInv /\ \A i \in 1..request.covers : i \in Nat
    BY <1>4 DEF ServerInv
  <2>2. liveBuffer.marker # 0 =>
          \A i \in 1..request.covers : Detail(log, i) =>
            \/ Reached(i, lastSequence', buffer', Len(buffer'))
            \/ \E j \in liveBuffer.output : i <= j /\ j <= liveBuffer.marker
    BY <1>12, <2>1 DEF MarkerInv
  <2>3. ASSUME NEW k \in 1..n - 1, buffer'[k].kind = "synchronized", ~buffer'[k].old
        PROVE  /\ marked
               /\ \A i \in 1..request.covers : Detail(log, i) => Reached(i, lastSequence', buffer', k - 1)
               /\ \A j \in k..n - 1 : buffer'[j].kind # "snapshot"
    <3>1. k + 1 \in 1..n /\ k \in 0..n /\ k # 0 /\ k + 1 - 1 = k /\ IsFreshMarker(k + 1)
      BY <1>3, <1>14, <2>3 DEF IsFreshMarker
    <3>2. /\ marked
          /\ \A i \in 1..request.covers : Detail(log, i) => Reached(i, c, buffer, k)
          /\ \A j \in k + 1..n : buffer[j].kind # "snapshot"
      BY <2>1, <3>1 DEF MarkerInv, n, c
    <3>3. \A j \in k..n - 1 : j \in 1..n - 1 /\ j + 1 \in k + 1..n
      BY <1>3
    <3> QED BY <1>3, <1>11, <2>1, <3>1, <3>2, <3>3
  <2>4. confirmed' =>
          /\ \A i \in 1..request.covers : Detail(log, i) => i <= lastSequence'
          /\ applying'.kind # "snapshot" /\ \A j \in 1..n - 1 : buffer'[j].kind # "snapshot"
    <3>1. CASE confirmed
      <4>1. /\ \A i \in 1..request.covers : Detail(log, i) => i <= c
            /\ applying.kind # "snapshot" /\ \A j \in 1..n : buffer[j].kind # "snapshot"
        BY <2>1, <3>1 DEF MarkerInv, n, c
      <4>2. \A i \in 1..request.covers : i <= c => i <= lastSequence'
        BY <1>4, <1>8
      <4>3. applying'.kind # "snapshot"
        BY <1>3, <1>6, <4>1 DEF item
      <4>4. \A j \in 1..n - 1 : buffer'[j].kind # "snapshot"
        BY <1>3, <1>14, <4>1
      <4> QED BY <4>1, <4>2, <4>3, <4>4
    <3>2. CASE item.kind = "synchronized" /\ ~item.old
      <4>1. IsFreshMarker(1)
        BY <3>2 DEF IsFreshMarker, item
      <4>2. /\ \A i \in 1..request.covers : Detail(log, i) => Reached(i, c, buffer, 0)
            /\ \A j \in 1..n : buffer[j].kind # "snapshot"
        BY <1>3, <2>1, <4>1 DEF MarkerInv, n, c
      <4>3. \A i \in 1..request.covers : Reached(i, c, buffer, 0) => i <= lastSequence'
        BY <1>4, <1>8 DEF Reached
      <4>4. applying'.kind # "snapshot"
        BY <1>1, <1>6, <3>2, ItemsAre DEF IsSnapshot
      <4>5. \A j \in 1..n - 1 : buffer'[j].kind # "snapshot"
        BY <1>3, <1>14, <4>2
      <4> QED BY <4>2, <4>3, <4>4, <4>5
    <3> QED BY <1>6, <3>1, <3>2
  <2> QED BY <1>2, <1>3, <2>2, <2>3, <2>4 DEF MarkerInv, IsFreshMarker, Received
<1>27. ComesInv'
  <2>1. Len(buffer') + 1 - 1 = n - 1
    BY <1>3
  <2> QED BY <1>1, <1>2, <1>4, <1>18, <2>1 DEF ServerInv, ComesInv, SnapshotBefore, n
<1>28. RecreatedInv'
  <2> SUFFICES ASSUME stage = "streaming", request.resume, ~request.replayIfMissing,
                      NEW d \in request.after + 1..request.head, log[d].type = "thread.created"
               PROVE  \/ lastSequence' >= d /\ (applying'.kind = "snapshot" \/ \A i \in thread.rows : i > d)
                      \/ \E k \in 1..n - 1 : buffer'[k].kind = "snapshot" /\ buffer'[k].sequence >= d
                      \/ \E other \in replay : other.kind = "snapshot" /\ other.sequence >= d
    BY <1>1, <1>2, <1>3 DEF RecreatedInv
  <2>1. \/ c >= d /\ (applying.kind = "snapshot" \/ \A i \in thread.rows : i > d)
        \/ \E k \in 1..n : buffer[k].kind = "snapshot" /\ buffer[k].sequence >= d
        \/ \E other \in replay : other.kind = "snapshot" /\ other.sequence >= d
    BY <1>4 DEF ServerInv, RecreatedInv, n, c
  <2>2. d \in Nat
    BY Numbers DEF SyncInv
  <2>3. CASE c >= d /\ (applying.kind = "snapshot" \/ \A i \in thread.rows : i > d)
    BY <1>1, <1>4, <1>8, <2>2, <2>3, ItemsAre
  <2>4. CASE \E k \in 1..n : buffer[k].kind = "snapshot" /\ buffer[k].sequence >= d
    <3>1. PICK k \in 1..n : buffer[k].kind = "snapshot" /\ buffer[k].sequence >= d
      BY <2>4
    <3>2. CASE k = 1
      BY <1>6, <3>1, <3>2 DEF item
    <3>3. CASE k # 1
      <4>1. k - 1 \in 1..n - 1 /\ k - 1 + 1 = k
        BY <1>3, <3>3
      <4> QED BY <1>3, <3>1, <4>1
    <3> QED BY <3>2, <3>3
  <2> QED BY <2>1, <2>3, <2>4
<1> QED BY <1>13, <1>15, <1>16, <1>17, <1>19, <1>22, <1>23, <1>24, <1>25, <1>26, <1>27, <1>28
     DEF ClientInv, ServerInv

---------------------------------------------------------------------------
(* The theorems.                                                            *)

LEMMA NextKeeps ==
    ASSUME SyncInv, [Next]_vars
    PROVE  SyncInv'
<1> DEFINE Kept == OrderInv' /\ ScopeInv' /\ ClientInv' /\ ServerInv'
<1>1. ASSUME Commit PROVE Kept
  BY <1>1, CommitKeeps
<1>2. ASSUME MoveReadModel \/ Publish \/ Save \/ UNCHANGED vars PROVE Kept
  BY <1>2, QuietKeeps
<1>3. ASSUME ReadFails \/ ThreadNotFound \/ Overflow \/ SessionUp \/ SessionLost \/ Resubscribe PROVE Kept
  BY <1>3, AttemptOverKeeps
<1>4. ASSUME OpenScope \/ CloseScope \/ Reload PROVE Kept
  BY <1>4, ScopeKeeps
<1>5. ASSUME Attach PROVE Kept
  BY <1>5, AttachKeeps
<1>6. ASSUME DecideResume PROVE Kept
  BY <1>6, DecideResumeKeeps
<1>7. ASSUME ReadSnapshot PROVE Kept
  BY <1>7, ReadSnapshotKeeps
<1>8. ASSUME OfferEvent PROVE Kept
  BY <1>8, OfferEventKeeps
<1>9. ASSUME FlushWindow PROVE Kept
  BY <1>9, FlushWindowKeeps
<1>10. ASSUME OfferMarker PROVE Kept
  BY <1>10, OfferMarkerKeeps
<1>11. ASSUME SendReplay PROVE Kept
  BY <1>11, SendReplayKeeps
<1>12. ASSUME SendLive PROVE Kept
  BY <1>12, SendLiveKeeps
<1>13. ASSUME MakeSubscribeInput PROVE Kept
  BY <1>13, MakeSubscribeInputKeeps
<1>14. ASSUME LoadSnapshot PROVE Kept
  BY <1>14, LoadSnapshotKeeps
<1>15. ASSUME TakeItem PROVE Kept
  BY <1>15, TakeItemKeeps
<1>16. ASSUME FinishItem PROVE Kept
  BY <1>16, FinishItemKeeps
<1>17. ASSUME RetryAfterFailure PROVE Kept
  BY <1>17, RetryKeeps
<1> HIDE DEF Kept
<1>18. Kept
  BY <1>1, <1>2, <1>3, <1>4, <1>5, <1>6, <1>7, <1>8, <1>9, <1>10, <1>11, <1>12, <1>13, <1>14,
     <1>15, <1>16, <1>17 DEF Next, Engine, Subscription, Client, Switch, Rest
<1> QED BY <1>18, TypesKept DEF Kept, SyncInv

\* The inductive invariant.
THEOREM Invariant == Spec => []SyncInv
<1>1. Init => SyncInv
  BY InitKeeps
<1>2. SyncInv /\ [Next]_vars => SyncInv'
  BY NextKeeps
<1> QED BY <1>1, <1>2, PTL DEF Spec

\* Every variable of the engine, the subscription and the client has its type in
\* every reachable state, for any limits (ws.ts 1516-1690, threads.ts 140-775).
THEOREM TypeCorrect == Spec => []TypeOK
<1>1. SyncInv => TypeOK
  BY DEF SyncInv
<1> QED BY <1>1, Invariant, PTL

\* Whatever was replayed, buffered, coalesced, dropped, failed or interrupted,
\* what the client shows, keeps in memory and has on disk has every row up to
\* its cursor, and none beyond it (ws.ts 1516-1690, threads.ts 260-310, 425-480).
THEOREM NothingIsMissing == Spec => []NothingMissing
<1>1. SyncInv => NothingMissing
  <2> SUFFICES ASSUME SyncInv PROVE NothingMissing
    OBVIOUS
  <2>1. applying = NoItem => Suits(log, thread, lastSequence)
    BY DEF SyncInv, ClientInv, ShownInv
  <2>2. \A c \in {committed, kept} : Suits(log, c.thread, c.sequence)
    BY DEF SyncInv, ClientInv, KeptInv
  <2> QED BY <2>1, <2>2, SuitsIs DEF NothingMissing
<1> QED BY <1>1, Invariant, PTL

\* Once the marker of an attempt is applied, the client has passed the head the
\* server saw and everything the live buffer had taken by then
\* (ThreadLiveEventCoalescer.ts 151-152).
THEOREM MarkerKeepsItsPromise == Spec => []MarkerMeansCaughtUp
<1>1. SyncInv => MarkerMeansCaughtUp
  BY DetailIs DEF SyncInv, ServerInv, MarkerInv, MarkerMeansCaughtUp
<1> QED BY <1>1, Invariant, PTL

\* An attempt that resumes from before the thread was created again ends with a
\* fresh history, unless the thread is gone by then (ws.ts 1624-1630).
THEOREM RecreatedThreadsStartAfresh == Spec => []RecreatedThreadIsFresh
<1>1. SyncInv => RecreatedThreadIsFresh
  <2> SUFFICES ASSUME SyncInv, confirmed, request.resume, ~request.replayIfMissing,
                      NEW d \in request.after + 1..request.head, log[d].type = "thread.created"
               PROVE  \A i \in thread.rows : i > d
    BY DEF RecreatedThreadIsFresh
  <2>1. stage = "streaming" /\ replay = {}
    BY DEF SyncInv, ServerInv, AttemptInv
  <2>2. applying.kind # "snapshot" /\ \A j \in 1..Len(buffer) : buffer[j].kind # "snapshot"
    BY DEF SyncInv, ServerInv, MarkerInv
  <2> QED BY <2>1, <2>2 DEF SyncInv, ServerInv, RecreatedInv
<1> QED BY <1>1, Invariant, PTL
=============================================================================
