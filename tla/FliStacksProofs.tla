--------------------------- MODULE FliStacksProofs ---------------------------
(***************************************************************************)
(* Proofs about FliStacks: for stacks of any size, conditional trailing    *)
(* loses nothing, and the engine implements the store of SnapshotStore.    *)
(***************************************************************************)
EXTENDS FliStacks, DataLemmas, TLAPS

(***************************************************************************)
(* The inductive invariant.                                                *)
(***************************************************************************)

\* The value that taking back the entries of trail t after the n-th gives to
\* word a of memory m.
ValueOf(m, e) == IF e.assigned THEN m[e.saved] ELSE Unbound

Entries(t, n, a) == { i \in (n + 1) .. Len(t) : t[i].addr = a }

Least(S) == CHOOSE i \in S : \A j \in S : i <= j

Value(m, t, n, a) ==
  IF Entries(t, n, a) = {} THEN m[a] ELSE ValueOf(m, t[Least(Entries(t, n, a))])

\* The words that mark f has to give back.
Covers(f, a) == a < f.globaltop \/ a >= lBase

\* A newer mark covers at least what an older one does.
Ordered(g, t, fs) ==
  /\ \A i \in 1 .. Len(fs) : fs[i].trailtop <= Len(t) /\ fs[i].globaltop <= g
  /\ \A i, j \in 1 .. Len(fs) :
       i <= j => /\ fs[i].trailtop <= fs[j].trailtop
                 /\ fs[i].globaltop <= fs[j].globaltop

\* The word that holds the old value of an assignment was new when it was
\* made, and is not assigned to afterwards.
SavesKept(g, t, fs) ==
  /\ \A k \in 1 .. Len(t) : t[k].assigned => t[k].saved < g
  /\ \A i \in 1 .. Len(fs), k \in 1 .. Len(t) :
       t[k].assigned /\ k <= fs[i].trailtop => t[k].saved < fs[i].globaltop
  /\ \A k, l \in 1 .. Len(t) : t[k].assigned /\ k < l => t[l].addr # t[k].saved

\* Every mark can be undone: each word that existed gets its old value.
AllRecover(m, t, fs) ==
  \A i \in 1 .. Len(fs) : \A a \in Addr :
    Covers(fs[i], a) => Value(m, t, fs[i].trailtop, a) = fs[i].snap[a]

\* What memory m, top g and trail t owe to the marks of fs.
Sound(m, g, t, fs) == Ordered(g, t, fs) /\ SavesKept(g, t, fs) /\ AllRecover(m, t, fs)

\* The mark of a query that failed or was left by an exception is discarded,
\* though the query is not yet closed.
Discarded(f) == f.state \in {"failed", "exception"}

\* mark_bar is above every word that a mark may have to give back, and stays
\* so when the newest mark is discarded; it is not above what undoing the
\* newest mark leaves.
Barred(g, mb, fb, fs) ==
  /\ fb <= g
  /\ mb <= fb \/ mb <= fs[Len(fs)].globaltop
  /\ \A i \in 1 .. Len(fs) : fs[i].globaltop <= mb
  /\ \A i \in 1 .. Len(fs) :
       i > 1 => fs[i].saved_bar <= fb \/ fs[i].saved_bar <= fs[i - 1].globaltop
  /\ \A i, j \in 1 .. Len(fs) :
       i < j => \/ fs[i].globaltop <= fs[j].saved_bar
                \/ Discarded(fs[i]) /\ j = i + 1

\* The frames between query q and frame i are its choice points.
Between(fs, q, i) ==
  /\ fs[q].kind = "query"
  /\ \A j \in (q + 1) .. (i - 1) : fs[j].kind = "choice"

\* Choice points and answers belong to a query, and a query whose mark is
\* discarded has an answer frame.
Nested(fs) ==
  /\ fs[1].kind = "fli"
  /\ \A i \in 1 .. Len(fs) :
       /\ fs[i].kind = "choice" =>
            \E q \in 1 .. (i - 1) : Between(fs, q, i) /\ fs[q].state = "open"
       /\ fs[i].kind = "answer" => \E q \in 1 .. (i - 1) : Between(fs, q, i)
       /\ Discarded(fs[i]) =>
            /\ fs[i].kind = "query" /\ i < Len(fs)
            /\ fs[i + 1].kind = "answer"

IInv ==
  /\ TypeOK
  /\ Sound(mem, gTop, trail, frames)
  /\ Barred(gTop, mark_bar, frozen_bar, frames)
  /\ Nested(frames)

(***************************************************************************)
(* What undoing a mark gives to a word.                                    *)
(***************************************************************************)

\* A word without an entry keeps its value; otherwise its oldest entry tells.
LEMMA ValueCases ==
  ASSUME NEW m, NEW t \in Seq(TrailEntry), NEW n \in Nat, NEW a
  PROVE  /\ Entries(t, n, a) = {} => Value(m, t, n, a) = m[a]
         /\ \A k \in Entries(t, n, a) :
              (\A j \in Entries(t, n, a) : k <= j) =>
                Value(m, t, n, a) = ValueOf(m, t[k])
         /\ Entries(t, n, a) # {} =>
              \E k \in Entries(t, n, a) : \A j \in Entries(t, n, a) : k <= j
<1>. DEFINE S == Entries(t, n, a)
<1>1. S \in SUBSET Nat
  BY DEF Entries
<1>2. Value(m, t, n, a) = IF S = {} THEN m[a] ELSE ValueOf(m, t[Least(S)])
  BY DEF Value
<1>. HIDE DEF S
<1>3. S # {} => \E k \in S : \A j \in S : k <= j
  BY <1>1, LeastNatural
<1>4. ASSUME NEW k \in S, \A j \in S : k <= j PROVE Least(S) = k
  <2>1. Least(S) \in S /\ \A j \in S : Least(S) <= j
    BY <1>4 DEF Least
  <2>2. k \in Nat /\ Least(S) \in Nat
    BY <1>1, <2>1
  <2>3. k <= Least(S) /\ Least(S) <= k
    BY <1>4, <2>1
  <2>. HIDE DEF Least
  <2>. QED
    BY <2>2, <2>3
<1>5. \A k \in S : (\A j \in S : k <= j) => Value(m, t, n, a) = ValueOf(m, t[k])
  BY <1>2, <1>4
<1>. QED
  BY <1>2, <1>3, <1>5 DEF S

\* Each word gets a word.
LEMMA ValueType ==
  ASSUME NEW m \in [Addr -> Word], NEW t \in Seq(TrailEntry), NEW n \in Nat,
         NEW a \in Addr
  PROVE  Value(m, t, n, a) \in Word
<1>1. CASE Entries(t, n, a) = {}
  BY <1>1, ValueCases
<1>2. CASE Entries(t, n, a) # {}
  <2>1. PICK k \in Entries(t, n, a) : \A j \in Entries(t, n, a) : k <= j
    BY <1>2, ValueCases
  <2>2. k \in 1 .. Len(t)
    BY DEF Entries
  <2>3. t[k] \in TrailEntry
    BY <2>2
  <2>4. ValueOf(m, t[k]) \in Word
    BY <2>3 DEF ValueOf, TrailEntry, Word
  <2>. QED
    BY <2>1, <2>4, ValueCases
<1>. QED
  BY <1>1, <1>2

\* Undo() gives each word that stays this value.
LEMMA UndoneValue ==
  ASSUME TypeOK, NEW b \in Frame, NEW a \in Addr
  PROVE  Undone(b)[a] = IF UndoneTop(b) <= a /\ a < lBase
                          THEN Unbound ELSE Value(mem, trail, b.trailtop, a)
<1>1. Since(b, a) = Entries(trail, b.trailtop, a)
  BY DEF Since, Entries
<1>2. \A e : OldValue(e) = ValueOf(mem, e)
  BY DEF OldValue, ValueOf
<1>. QED
  BY <1>1, <1>2 DEF Undone, Value, Least

(***************************************************************************)
(* What the marks need is kept by writing to the stacks.                   *)
(***************************************************************************)

\* The value depends on the words without entries and on the saved words only.
LEMMA ValueSame ==
  ASSUME NEW m, NEW m2, NEW t \in Seq(TrailEntry), NEW n \in Nat, NEW a,
         m2[a] = m[a],
         \A k \in 1 .. Len(t) : t[k].assigned => m2[t[k].saved] = m[t[k].saved]
  PROVE  Value(m2, t, n, a) = Value(m, t, n, a)
<1>1. CASE Entries(t, n, a) = {}
  BY <1>1, ValueCases
<1>2. CASE Entries(t, n, a) # {}
  <2>1. PICK k \in Entries(t, n, a) : \A j \in Entries(t, n, a) : k <= j
    BY <1>2, ValueCases
  <2>2. k \in 1 .. Len(t)
    BY DEF Entries
  <2>3. ValueOf(m2, t[k]) = ValueOf(m, t[k])
    BY <2>2 DEF ValueOf
  <2>. QED
    BY <2>1, <2>3, ValueCases
<1>. QED
  BY <1>1, <1>2

\* Words that no mark covers and no entry refers to may be written without
\* an entry.
LEMMA WriteKept ==
  ASSUME NEW m, NEW m2, NEW g \in Nat, NEW g2 \in Nat, g <= g2,
         NEW t \in Seq(TrailEntry), NEW fs \in Seq(Frame), Sound(m, g, t, fs),
         \A a \in Addr :
           m2[a] # m[a] =>
             /\ \A i \in 1 .. Len(fs) : ~Covers(fs[i], a)
             /\ \A k \in 1 .. Len(t) : t[k].assigned => t[k].saved # a
  PROVE  Sound(m2, g2, t, fs)
<1>1. Ordered(g2, t, fs)
  <2>0. \A i \in 1 .. Len(fs) : fs[i] \in Frame
    OBVIOUS
  <2>1. \A i \in 1 .. Len(fs) : fs[i].globaltop \in Nat
    BY <2>0 DEF Frame
  <2>. QED
    BY <2>1 DEF Sound, Ordered
<1>2. \A k \in 1 .. Len(t) : t[k] \in TrailEntry
  OBVIOUS
<1>3. SavesKept(g2, t, fs)
  <2>1. \A k \in 1 .. Len(t) : t[k].saved \in Int
    BY <1>2, SizesAssumption, SMTT(30) DEF TrailEntry, Addr
  <2>. QED
    BY <2>1 DEF Sound, SavesKept
<1>4. ASSUME NEW i \in 1 .. Len(fs), NEW a \in Addr, Covers(fs[i], a)
      PROVE  Value(m2, t, fs[i].trailtop, a) = fs[i].snap[a]
  <2>1. m2[a] = m[a]
    BY <1>4
  <2>2. ASSUME NEW k \in 1 .. Len(t), t[k].assigned
        PROVE  m2[t[k].saved] = m[t[k].saved]
    <3>1. t[k].saved \in Addr
      BY <1>2 DEF TrailEntry
    <3>. QED
      BY <2>2, <3>1
  <2>0. fs[i] \in Frame
    OBVIOUS
  <2>3. fs[i].trailtop \in Nat
    BY <2>0 DEF Frame
  <2>4. Value(m2, t, fs[i].trailtop, a) = Value(m, t, fs[i].trailtop, a)
    BY <2>1, <2>2, <2>3, ValueSame
  <2>. QED
    BY <1>4, <2>4 DEF Sound, AllRecover
<1>. QED
  BY <1>1, <1>3, <1>4 DEF Sound, AllRecover

\* A trailed write: the new entry tells the old value, and no saved word is
\* written.
LEMMA RecordKept ==
  ASSUME NEW m, NEW m2, NEW g \in Nat, NEW g2 \in Nat, g <= g2, g <= lBase,
         NEW t \in Seq(TrailEntry), NEW fs \in Seq(Frame), Sound(m, g, t, fs),
         NEW e \in TrailEntry,
         \A a \in Addr : (a < g \/ a >= lBase) /\ a # e.addr => m2[a] = m[a],
         ValueOf(m2, e) = m[e.addr],
         e.assigned => e.saved < g2,
         \A k \in 1 .. Len(t) : t[k].assigned => t[k].saved # e.addr
  PROVE  Sound(m2, g2, Append(t, e), fs)
<1>. DEFINE u == Append(t, e)
<1>1. /\ Len(t) \in Nat
      /\ u \in Seq(TrailEntry) /\ Len(u) = Len(t) + 1 /\ u[Len(t) + 1] = e
      /\ \A k \in 1 .. Len(t) : u[k] = t[k]
  OBVIOUS
<1>. HIDE DEF u
<1>2. \A k \in 1 .. Len(t) : t[k] \in TrailEntry
  OBVIOUS
<1>3. \A i \in 1 .. Len(fs) : fs[i] \in Frame
  OBVIOUS
<1>4. \A i \in 1 .. Len(fs) :
        /\ fs[i].trailtop \in Nat /\ fs[i].globaltop \in Nat
        /\ fs[i].trailtop <= Len(t) /\ fs[i].globaltop <= g
  BY <1>3 DEF Frame, Sound, Ordered
<1>5. \A k \in 1 .. Len(t) : t[k].saved \in Addr /\ t[k].saved \in Int
  BY <1>2, SizesAssumption, SMTT(30) DEF TrailEntry, Addr
<1>6. e.saved \in Int /\ e.addr \in Addr
  BY SizesAssumption DEF TrailEntry, Addr
<1>7. Ordered(g2, u, fs)
  BY <1>1, <1>4 DEF Sound, Ordered
<1>8. \A k \in 1 .. Len(u) : k \in 1 .. Len(t) \/ k = Len(t) + 1
  BY <1>1
<1>9. SavesKept(g2, u, fs)
  <2>1. \A k \in 1 .. Len(u) : u[k].assigned => u[k].saved < g2
    BY <1>1, <1>5, <1>6, <1>8 DEF Sound, SavesKept
  <2>2. \A i \in 1 .. Len(fs), k \in 1 .. Len(u) :
          u[k].assigned /\ k <= fs[i].trailtop => u[k].saved < fs[i].globaltop
    BY <1>1, <1>4, <1>8, SMTT(30) DEF Sound, SavesKept
  <2>3. ASSUME NEW k \in 1 .. Len(u), NEW l \in 1 .. Len(u), u[k].assigned, k < l
        PROVE  u[l].addr # u[k].saved
    <3>1. k \in 1 .. Len(t)
      BY <1>1, <2>3
    <3>2. CASE l = Len(t) + 1
      BY <1>1, <2>3, <3>1, <3>2
    <3>3. CASE l \in 1 .. Len(t)
      BY <1>1, <2>3, <3>1, <3>3 DEF Sound, SavesKept
    <3>. QED
      BY <1>8, <3>2, <3>3
  <2>. QED
    BY <2>1, <2>2, <2>3 DEF SavesKept
<1>10. ASSUME NEW i \in 1 .. Len(fs), NEW a \in Addr, Covers(fs[i], a)
       PROVE  Value(m2, u, fs[i].trailtop, a) = fs[i].snap[a]
  <2>. DEFINE n == fs[i].trailtop
  <2>1. n \in Nat /\ n <= Len(t)
    BY <1>4
  <2>2. a < g \/ a >= lBase
    BY <1>4, <1>10, SizesAssumption DEF Covers, Addr, lBase
  <2>3. \A k \in Entries(t, n, a) : k \in 1 .. Len(t) /\ k \in Entries(u, n, a)
    BY <1>1, <2>1 DEF Entries
  <2>4. \A k \in Entries(u, n, a) :
          k \in Entries(t, n, a) \/ (k = Len(t) + 1 /\ a = e.addr)
    BY <1>1, <2>1 DEF Entries
  <2>5. a = e.addr => Len(t) + 1 \in Entries(u, n, a)
    BY <1>1, <2>1 DEF Entries
  <2>. HIDE DEF n
  <2>6. \A k \in 1 .. Len(t) : ValueOf(m2, t[k]) = ValueOf(m, t[k])
    <3>1. ASSUME NEW k \in 1 .. Len(t), t[k].assigned
          PROVE  m2[t[k].saved] = m[t[k].saved]
      <4>1. t[k].saved < g /\ t[k].saved \in Addr /\ t[k].saved # e.addr
        BY <1>5, <3>1 DEF Sound, SavesKept
      <4>. QED
        BY <4>1
    <3>. QED
      BY <3>1 DEF ValueOf
  <2>7. Value(m2, u, n, a) = Value(m, t, n, a)
    <3>0. \A k \in Entries(u, n, a) :
            (\A j \in Entries(u, n, a) : k <= j) =>
              Value(m2, u, n, a) = ValueOf(m2, u[k])
      <4>1. u \in Seq(TrailEntry) /\ n \in Nat
        BY <1>1, <2>1
      <4>. QED
        BY ONLY <4>1, ValueCases, Zenon
    <3>1. CASE Entries(t, n, a) # {}
      <4>1. PICK k \in Entries(t, n, a) : \A j \in Entries(t, n, a) : k <= j
        BY <2>1, <3>1, ValueCases
      <4>2. k \in 1 .. Len(t) /\ k \in Entries(u, n, a)
        BY <2>3
      <4>3. \A j \in Entries(u, n, a) : k <= j
        BY <1>1, <2>4, <4>1, <4>2
      <4>4. Value(m2, u, n, a) = ValueOf(m2, u[k])
        BY <3>0, <4>2, <4>3
      <4>5. Value(m, t, n, a) = ValueOf(m, t[k])
        BY <2>1, <4>1, ValueCases
      <4>. QED
        BY <1>1, <2>6, <4>2, <4>4, <4>5
    <3>2. CASE Entries(t, n, a) = {} /\ a = e.addr
      <4>1. \A j \in Entries(u, n, a) : j = Len(t) + 1
        BY <2>4, <3>2
      <4>2. Value(m2, u, n, a) = ValueOf(m2, u[Len(t) + 1])
        <5>1. \A j \in Entries(u, n, a) : Len(t) + 1 <= j
          BY <1>1, <4>1
        <5>. QED
          BY <2>5, <3>0, <3>2, <5>1
      <4>3. Value(m, t, n, a) = m[a]
        BY <2>1, <3>2, ValueCases
      <4>. QED
        BY <1>1, <3>2, <4>2, <4>3
    <3>3. CASE Entries(t, n, a) = {} /\ a # e.addr
      <4>1. Entries(u, n, a) = {}
        BY <2>4, <3>3
      <4>2. Value(m2, u, n, a) = m2[a]
        BY <1>1, <2>1, <4>1, ValueCases
      <4>3. Value(m, t, n, a) = m[a]
        BY <2>1, <3>3, ValueCases
      <4>. QED
        BY <2>2, <3>3, <4>2, <4>3
    <3>. QED
      BY <3>1, <3>2, <3>3
  <2>. QED
    BY <1>10, <2>7 DEF Sound, AllRecover, n
<1>. QED
  BY <1>7, <1>9, <1>10 DEF Sound, AllRecover, u

(***************************************************************************)
(* ... by setting and giving up marks.                                     *)
(***************************************************************************)

\* Marks may be forgotten, and the kind and state of what holds them do not
\* matter.
LEMMA MarksKept ==
  ASSUME NEW m, NEW g \in Nat, NEW t \in Seq(TrailEntry),
         NEW fs \in Seq(Frame), NEW fs2 \in Seq(Frame), Sound(m, g, t, fs),
         Len(fs2) <= Len(fs),
         \A i \in 1 .. Len(fs2) :
           /\ fs2[i].trailtop = fs[i].trailtop
           /\ fs2[i].globaltop = fs[i].globaltop
           /\ fs2[i].snap = fs[i].snap
  PROVE  Sound(m, g, t, fs2)
<1>0. Len(fs) \in Nat /\ Len(fs2) \in Nat
  OBVIOUS
<1>1. \A i \in 1 .. Len(fs2) : i \in 1 .. Len(fs)
  BY <1>0
<1>2. Ordered(g, t, fs2)
  BY <1>1 DEF Sound, Ordered
<1>3. SavesKept(g, t, fs2)
  BY <1>1 DEF Sound, SavesKept
<1>4. AllRecover(m, t, fs2)
  BY <1>1 DEF Sound, AllRecover, Covers
<1>. QED
  BY <1>2, <1>3, <1>4 DEF Sound

\* A new mark has nothing to take back.
LEMMA PushKept ==
  ASSUME NEW m \in [Addr -> Word], NEW g \in Nat, NEW t \in Seq(TrailEntry),
         NEW fs \in Seq(Frame), Sound(m, g, t, fs),
         NEW f \in Frame, f.trailtop = Len(t), f.globaltop = g, f.snap = m
  PROVE  Sound(m, g, t, Append(fs, f))
<1>. DEFINE h == Append(fs, f)
<1>1. /\ Len(fs) \in Nat /\ Len(t) \in Nat
      /\ h \in Seq(Frame) /\ Len(h) = Len(fs) + 1 /\ h[Len(fs) + 1] = f
      /\ \A k \in 1 .. Len(fs) : h[k] = fs[k]
  OBVIOUS
<1>. HIDE DEF h
<1>2. \A k \in 1 .. Len(h) : k \in 1 .. Len(fs) \/ k = Len(fs) + 1
  BY <1>1
<1>3. Ordered(g, t, h)
  <2>1. \A i \in 1 .. Len(h) : h[i].trailtop <= Len(t) /\ h[i].globaltop <= g
    BY <1>1, <1>2 DEF Sound, Ordered
  <2>2. ASSUME NEW i \in 1 .. Len(h), NEW j \in 1 .. Len(h), i <= j
        PROVE  h[i].trailtop <= h[j].trailtop /\ h[i].globaltop <= h[j].globaltop
    <3>1. CASE j = Len(fs) + 1
      BY <1>1, <2>1, <3>1
    <3>2. CASE j \in 1 .. Len(fs)
      <4>1. i \in 1 .. Len(fs)
        BY <1>1, <2>2, <3>2
      <4>. QED
        BY <1>1, <2>2, <3>2, <4>1 DEF Sound, Ordered
    <3>. QED
      BY <1>2, <3>1, <3>2
  <2>. QED
    BY <2>1, <2>2 DEF Ordered
<1>4. SavesKept(g, t, h)
  BY <1>1, <1>2 DEF Sound, SavesKept
<1>5. ASSUME NEW i \in 1 .. Len(h), NEW a \in Addr, Covers(h[i], a)
      PROVE  Value(m, t, h[i].trailtop, a) = h[i].snap[a]
  <2>1. CASE i \in 1 .. Len(fs)
    BY <1>1, <1>5, <2>1 DEF Sound, AllRecover
  <2>2. CASE i = Len(fs) + 1
    <3>1. Entries(t, Len(t), a) = {}
      BY <1>1 DEF Entries
    <3>2. Value(m, t, Len(t), a) = m[a]
      BY <1>1, <3>1, ValueCases
    <3>. QED
      BY <1>1, <2>2, <3>2
  <2>. QED
    BY <1>2, <2>1, <2>2
<1>. QED
  BY <1>3, <1>4, <1>5 DEF Sound, AllRecover, h

\* Undoing mark i, and giving up the marks after the n-th, n <= i.
LEMMA UndoKept ==
  ASSUME NEW m, NEW m2, NEW g \in Nat, NEW g2 \in Nat,
         NEW t \in Seq(TrailEntry), NEW fs \in Seq(Frame), Sound(m, g, t, fs),
         NEW i \in 1 .. Len(fs), NEW n \in 0 .. i, g2 >= fs[i].globaltop,
         \A a \in Addr :
           a < g2 \/ a >= lBase => m2[a] = Value(m, t, fs[i].trailtop, a)
  PROVE  Sound(m2, g2, SubSeq(t, 1, fs[i].trailtop), SubSeq(fs, 1, n))
<1>. DEFINE top == fs[i].trailtop
            u   == SubSeq(t, 1, top)
            hs  == SubSeq(fs, 1, n)
<1>0. \A j \in 1 .. Len(fs) : fs[j] \in Frame
  OBVIOUS
<1>1. \A j \in 1 .. Len(fs) :
        /\ fs[j].trailtop \in Nat /\ fs[j].globaltop \in Nat
        /\ fs[j].trailtop <= Len(t)
        /\ j <= i => fs[j].trailtop <= top /\ fs[j].globaltop <= fs[i].globaltop
  BY <1>0 DEF Frame, Sound, Ordered
<1>2. top \in Nat /\ top <= Len(t) /\ Len(t) \in Nat /\ Len(fs) \in Nat
  BY <1>1
<1>3. /\ u \in Seq(TrailEntry) /\ Len(u) = top
      /\ \A k \in 1 .. top : k \in 1 .. Len(t) /\ u[k] = t[k]
  <2>. HIDE DEF top
  <2>. QED
    BY <1>2
<1>4. /\ hs \in Seq(Frame) /\ Len(hs) = n
      /\ \A j \in 1 .. n : j \in 1 .. Len(fs) /\ j <= i /\ hs[j] = fs[j]
  BY <1>2
<1>. HIDE DEF top, u, hs
<1>5. \A k \in 1 .. Len(t) : t[k] \in TrailEntry
  OBVIOUS
<1>6. \A k \in 1 .. Len(t) : t[k].saved \in Addr /\ t[k].saved \in Int
  BY <1>5, SizesAssumption, SMTT(30) DEF TrailEntry, Addr
<1>7. \A k \in 1 .. top : t[k].assigned => t[k].saved < fs[i].globaltop
  BY <1>3 DEF Sound, SavesKept, top
<1>8. Ordered(g2, u, hs)
  <2>1. \A j \in 1 .. n : fs[j].trailtop <= top /\ fs[j].globaltop <= g2
    BY <1>1, <1>4
  <2>. QED
    BY <1>3, <1>4, <2>1 DEF Sound, Ordered
<1>9. SavesKept(g2, u, hs)
  <2>1. \A k \in 1 .. top : t[k].assigned => t[k].saved < g2
    BY <1>1, <1>3, <1>6, <1>7
  <2>2. \A k \in 1 .. Len(u) : u[k].assigned => u[k].saved < g2
    BY <1>3, <2>1
  <2>3. \A j \in 1 .. Len(hs), k \in 1 .. Len(u) :
          u[k].assigned /\ k <= hs[j].trailtop => u[k].saved < hs[j].globaltop
    BY <1>3, <1>4 DEF Sound, SavesKept
  <2>4. \A k, l \in 1 .. Len(u) : u[k].assigned /\ k < l => u[l].addr # u[k].saved
    BY <1>3 DEF Sound, SavesKept
  <2>. QED
    BY <2>2, <2>3, <2>4 DEF SavesKept
<1>10. ASSUME NEW k \in 1 .. top PROVE ValueOf(m2, t[k]) = ValueOf(m, t[k])
  <2>1. CASE t[k].assigned
    <3>. DEFINE s == t[k].saved
    <3>1. s \in Addr /\ s < g2
      BY <1>1, <1>3, <1>6, <1>7, <2>1
    <3>2. \A l \in 1 .. Len(t) : k < l => t[l].addr # s
      BY <1>3, <2>1 DEF Sound, SavesKept
    <3>3. Entries(t, top, s) = {}
      BY <1>2, <3>2 DEF Entries
    <3>. HIDE DEF s
    <3>4. Value(m, t, top, s) = m[s]
      BY <1>2, <3>3, ValueCases
    <3>5. m2[s] = m[s]
      BY <3>1, <3>4 DEF top
    <3>. QED
      BY <2>1, <3>5 DEF ValueOf, s
  <2>2. CASE ~t[k].assigned
    BY <2>2 DEF ValueOf
  <2>. QED
    BY <2>1, <2>2
<1>11. ASSUME NEW j \in 1 .. n, NEW a \in Addr, Covers(fs[j], a)
       PROVE  Value(m2, u, fs[j].trailtop, a) = fs[j].snap[a]
  <2>. DEFINE b == fs[j].trailtop
  <2>1. b \in Nat /\ b <= top
    BY <1>1, <1>4
  <2>2. a < g2 \/ a >= lBase
    BY <1>1, <1>4, <1>11, SizesAssumption DEF Covers, Addr, lBase
  <2>. HIDE DEF b
  <2>3. Value(m2, u, b, a) = Value(m, t, b, a)
    <3>1. CASE Entries(u, b, a) # {}
      <4>1. PICK k \in Entries(u, b, a) : \A l \in Entries(u, b, a) : k <= l
        <5>1. Entries(u, b, a) # {} =>
                \E k \in Entries(u, b, a) : \A l \in Entries(u, b, a) : k <= l
          BY ONLY <1>3, <2>1, ValueCases
        <5>. QED
          BY <3>1, <5>1
      <4>2. k \in 1 .. top /\ k \in Entries(t, b, a)
        BY <1>2, <1>3, <2>1 DEF Entries
      <4>3. ASSUME NEW l \in Entries(t, b, a) PROVE k <= l
        <5>1. CASE l <= top
          <6>1. l \in Entries(u, b, a)
            BY <1>2, <1>3, <2>1, <5>1 DEF Entries
          <6>. QED
            BY <4>1, <6>1
        <5>2. CASE ~(l <= top)
          <6>1. l \in Nat
            BY <2>1 DEF Entries
          <6>. QED
            BY <1>2, <4>2, <5>2, <6>1
        <5>. QED
          BY <5>1, <5>2
      <4>4. Value(m2, u, b, a) = ValueOf(m2, u[k])
        <5>1. u \in Seq(TrailEntry) /\ b \in Nat
          BY <1>3, <2>1
        <5>2. \A k0 \in Entries(u, b, a) :
                (\A l \in Entries(u, b, a) : k0 <= l) =>
                  Value(m2, u, b, a) = ValueOf(m2, u[k0])
          BY ONLY <5>1, ValueCases, ZenonT(60)
        <5>. QED
          BY <4>1, <5>2
      <4>5. Value(m, t, b, a) = ValueOf(m, t[k])
        <5>1. b \in Nat /\ t \in Seq(TrailEntry)
          BY <2>1
        <5>2. \A k0 \in Entries(t, b, a) :
                (\A l \in Entries(t, b, a) : k0 <= l) =>
                  Value(m, t, b, a) = ValueOf(m, t[k0])
          BY ONLY <5>1, ValueCases, Zenon
        <5>. QED
          BY <4>2, <4>3, <5>2
      <4>. QED
        BY <1>3, <1>10, <4>2, <4>4, <4>5
    <3>2. CASE Entries(u, b, a) = {}
      <4>1. Value(m2, u, b, a) = m2[a]
        BY ONLY <1>3, <2>1, <3>2, ValueCases
      <4>2. Entries(t, top, a) = Entries(t, b, a)
        <5>1. ASSUME NEW l \in Entries(t, b, a) PROVE l \in Entries(t, top, a)
          <6>1. l \in Nat /\ l \in 1 .. Len(t) /\ b + 1 <= l /\ t[l].addr = a
            BY <1>2, <2>1 DEF Entries
          <6>2. l <= top => l \in Entries(u, b, a)
            BY <1>2, <1>3, <2>1, <6>1 DEF Entries
          <6>. QED
            BY <1>2, <3>2, <6>1, <6>2 DEF Entries
        <5>2. Entries(t, top, a) \subseteq Entries(t, b, a)
          BY <1>2, <2>1 DEF Entries
        <5>. QED
          BY <5>1, <5>2
      <4>3. Value(m, t, top, a) = Value(m, t, b, a)
        BY <4>2 DEF Value
      <4>. QED
        BY <2>2, <4>1, <4>3 DEF top
    <3>. QED
      BY <3>1, <3>2
  <2>4. j \in 1 .. Len(fs)
    BY <1>4
  <2>. QED
    BY <1>11, <2>3, <2>4 DEF Sound, AllRecover, b
<1>12. AllRecover(m2, u, hs)
  BY <1>4, <1>11 DEF AllRecover
<1>. QED
  BY <1>8, <1>9, <1>12 DEF Sound, top, u, hs

(***************************************************************************)
(* The bars.                                                               *)
(***************************************************************************)

\* Giving up the marks after the n-th, with the bar that DiscardMark() of the
\* first of them gives.
LEMMA BarsPopped ==
  ASSUME NEW g \in Nat, NEW g2 \in Nat, NEW mb \in Nat, NEW fb \in Nat,
         NEW fs \in Seq(Frame), Barred(g, mb, fb, fs), fb <= g2,
         NEW n \in 1 .. (Len(fs) - 1), ~Discarded(fs[n])
  PROVE  Barred(g2, Max2(fb, fs[n + 1].saved_bar), fb, SubSeq(fs, 1, n))
<1>. DEFINE hs == SubSeq(fs, 1, n)
            mb2 == Max2(fb, fs[n + 1].saved_bar)
<1>0. Len(fs) \in Nat /\ n + 1 \in 1 .. Len(fs) /\ n \in 1 .. Len(fs)
  OBVIOUS
<1>1. /\ Len(hs) = n
      /\ \A j \in 1 .. n : j \in 1 .. Len(fs) /\ hs[j] = fs[j]
  BY <1>0
<1>2. \A j \in 1 .. Len(fs) : fs[j] \in Frame
  OBVIOUS
<1>3. \A j \in 1 .. Len(fs) : fs[j].globaltop \in Nat /\ fs[j].saved_bar \in Nat
  BY <1>2 DEF Frame
<1>. HIDE DEF hs
<1>4. /\ fs[n + 1].saved_bar <= mb2 /\ fb <= mb2 /\ mb2 \in Nat
      /\ mb2 = fb \/ mb2 = fs[n + 1].saved_bar
  BY <1>0, <1>3 DEF Max2
<1>. HIDE DEF mb2
<1>5. mb2 <= fb \/ mb2 <= hs[Len(hs)].globaltop
  <2>1. fs[n + 1].saved_bar <= fb \/ fs[n + 1].saved_bar <= fs[(n + 1) - 1].globaltop
    BY <1>0 DEF Barred
  <2>2. (n + 1) - 1 = n /\ n \in 1 .. n
    OBVIOUS
  <2>. QED
    BY <1>1, <1>3, <1>4, <2>1, <2>2
<1>6. \A j \in 1 .. n : fs[j].globaltop <= mb2
  <2>1. ASSUME NEW j \in 1 .. n PROVE fs[j].globaltop <= fs[n + 1].saved_bar
    <3>1. j \in 1 .. Len(fs) /\ j < n + 1
      BY <1>1
    <3>2. Discarded(fs[j]) /\ n + 1 = j + 1 => j = n
      OBVIOUS
    <3>. QED
      BY <1>0, <3>1, <3>2 DEF Barred
  <2>. QED
    BY <1>0, <1>1, <1>3, <1>4, <2>1
<1>7. \A j \in 1 .. n :
        j > 1 => hs[j].saved_bar <= fb \/ hs[j].saved_bar <= hs[j - 1].globaltop
  <2>1. ASSUME NEW j \in 1 .. n, j > 1
        PROVE  hs[j].saved_bar <= fb \/ hs[j].saved_bar <= hs[j - 1].globaltop
    <3>1. j \in 1 .. Len(fs) /\ j - 1 \in 1 .. n
      BY <1>1, <2>1
    <3>. QED
      BY <1>1, <2>1, <3>1 DEF Barred
  <2>. QED
    BY <2>1
<1>8. \A i, j \in 1 .. n :
        i < j => \/ hs[i].globaltop <= hs[j].saved_bar
                 \/ Discarded(hs[i]) /\ j = i + 1
  BY <1>1 DEF Barred
<1>. QED
  BY <1>1, <1>5, <1>6, <1>7, <1>8 DEF Barred, hs, mb2

\* Setting a mark.
LEMMA BarsPushed ==
  ASSUME NEW g \in Nat, NEW mb \in Nat, NEW fb \in Nat,
         NEW t \in Seq(TrailEntry), NEW fs \in Seq(Frame), fs # <<>>,
         \A i \in 1 .. Len(fs) : fs[i].globaltop <= g,
         Barred(g, mb, fb, fs),
         NEW f \in Frame, f.globaltop = g, f.saved_bar = mb
  PROVE  Barred(g, g, fb, Append(fs, f))
<1>. DEFINE h == Append(fs, f)
<1>1. /\ Len(fs) \in Nat /\ Len(fs) > 0
      /\ Len(h) = Len(fs) + 1 /\ h[Len(fs) + 1] = f
      /\ \A k \in 1 .. Len(fs) : h[k] = fs[k]
  OBVIOUS
<1>. HIDE DEF h
<1>2. \A k \in 1 .. Len(h) : k \in 1 .. Len(fs) \/ k = Len(fs) + 1
  BY <1>1
<1>3. \A i \in 1 .. Len(h) : h[i].globaltop <= g
  BY <1>1, <1>2
<1>4. ASSUME NEW i \in 1 .. Len(h), i > 1
      PROVE  h[i].saved_bar <= fb \/ h[i].saved_bar <= h[i - 1].globaltop
  <2>1. i - 1 \in 1 .. Len(fs)
    BY <1>1, <1>2, <1>4
  <2>2. CASE i = Len(fs) + 1
    <3>1. i - 1 = Len(fs)
      BY <1>1, <2>2
    <3>. QED
      BY <1>1, <2>1, <2>2, <3>1 DEF Barred
  <2>3. CASE i \in 1 .. Len(fs)
    BY <1>1, <1>4, <2>1, <2>3 DEF Barred
  <2>. QED
    BY <1>2, <2>2, <2>3
<1>5. ASSUME NEW i \in 1 .. Len(h), NEW j \in 1 .. Len(h), i < j
      PROVE  \/ h[i].globaltop <= h[j].saved_bar
             \/ Discarded(h[i]) /\ j = i + 1
  <2>1. i \in 1 .. Len(fs)
    BY <1>1, <1>5
  <2>2. CASE j = Len(fs) + 1
    BY <1>1, <2>1, <2>2 DEF Barred
  <2>3. CASE j \in 1 .. Len(fs)
    BY <1>1, <1>5, <2>1, <2>3 DEF Barred
  <2>. QED
    BY <1>2, <2>2, <2>3
<1>6. fb <= g /\ h[Len(h)].globaltop = g
  BY <1>1 DEF Barred
<1>. QED
  BY <1>3, <1>4, <1>5, <1>6 DEF Barred, h

\* Leaving query q without a solution: its mark is discarded, and a foreign
\* frame is marked at the top that undoing it leaves.
LEMMA BarsLeft ==
  ASSUME NEW g2 \in Nat, NEW fb \in Nat,
         NEW fs \in Seq(Frame), NEW q \in 2 .. Len(fs),
         \A i \in 1 .. q : fs[i].globaltop <= fs[q].globaltop,
         Nested(fs),
         \A i \in 1 .. q :
           i > 1 => fs[i].saved_bar <= fb \/ fs[i].saved_bar <= fs[i - 1].globaltop,
         \A i, j \in 1 .. q :
           i < j => \/ fs[i].globaltop <= fs[j].saved_bar
                    \/ Discarded(fs[i]) /\ j = i + 1,
         fb <= g2, fs[q].globaltop <= g2, fs[q].kind = "query",
         NEW h, Len(h) = q + 1, Discarded(h[q]),
         \A i \in 1 .. q : /\ h[i].globaltop = fs[i].globaltop
                           /\ h[i].saved_bar = fs[i].saved_bar
                           /\ i < q => h[i].state = fs[i].state,
         h[q + 1].globaltop = g2,
         h[q + 1].saved_bar = Max2(fb, fs[q].saved_bar)
  PROVE  Barred(g2, g2, fb, h)
<1>. DEFINE f == h[q + 1]
<1>1. Len(fs) \in Nat /\ q \in Nat /\ h[q + 1] = f /\ f.globaltop = g2
  OBVIOUS
<1>0. f.saved_bar = Max2(fb, fs[q].saved_bar)
  OBVIOUS
<1>. HIDE DEF f
<1>2. \A k \in 1 .. Len(h) : k \in 1 .. q \/ k = q + 1
  BY <1>1
<1>3. \A k \in 1 .. q : k \in 1 .. Len(fs) /\ fs[k] \in Frame
  BY <1>1
<1>4. \A k \in 1 .. q : fs[k].globaltop \in Nat /\ fs[k].saved_bar \in Nat
  BY <1>3 DEF Frame
<1>5. q \in 1 .. q /\ q - 1 \in 1 .. q /\ q - 1 < q /\ q > 1
  BY <1>1
<1>6. \A i \in 1 .. q : fs[i].globaltop <= fs[q].globaltop
  OBVIOUS
<1>7. \A i \in 1 .. Len(h) : h[i].globaltop <= g2
  <2>1. \A i \in 1 .. q : h[i].globaltop = fs[i].globaltop
    BY <1>1
  <2>2. ASSUME NEW i \in 1 .. q PROVE fs[i].globaltop <= g2
    <3>1. fs[i].globaltop \in Nat /\ fs[q].globaltop \in Nat
      BY <1>4, <1>5
    <3>. QED
      BY <1>6, <3>1
  <2>. QED
    BY <1>1, <1>2, <2>1, <2>2
<1>8. f.saved_bar = fb \/ f.saved_bar = fs[q].saved_bar
  BY <1>0 DEF Max2
<1>9. fs[q].saved_bar <= f.saved_bar
  BY <1>0, <1>4, <1>5 DEF Max2
<1>10. \A i \in 1 .. q :
         i > 1 => fs[i].saved_bar <= fb \/ fs[i].saved_bar <= fs[i - 1].globaltop
  OBVIOUS
<1>11. ASSUME NEW i \in 1 .. Len(h), i > 1
       PROVE  h[i].saved_bar <= fb \/ h[i].saved_bar <= h[i - 1].globaltop
  <2>1. CASE i = q + 1
    <3>1. h[i] = f /\ h[i - 1] = h[q] /\ h[q].globaltop = fs[q].globaltop
      BY <1>1, <1>5, <2>1
    <3>2. fs[q].saved_bar <= fb \/ fs[q].saved_bar <= fs[q - 1].globaltop
      BY <1>5, <1>10
    <3>3. fs[q].saved_bar <= fb \/ fs[q].saved_bar <= fs[q].globaltop
      BY <1>4, <1>5, <1>6, <3>2
    <3>. QED
      BY <1>8, <3>1, <3>3
  <2>2. CASE i \in 1 .. q
    <3>1. i - 1 \in 1 .. q
      BY <1>1, <1>11, <2>2
    <3>. QED
      BY <1>1, <1>10, <1>11, <2>2, <3>1
  <2>. QED
    BY <1>2, <2>1, <2>2
<1>12. \A i, j \in 1 .. q :
         i < j => \/ fs[i].globaltop <= fs[j].saved_bar
                  \/ Discarded(fs[i]) /\ j = i + 1
  OBVIOUS
<1>13. ASSUME NEW i \in 1 .. Len(h), NEW j \in 1 .. Len(h), i < j
       PROVE  \/ h[i].globaltop <= h[j].saved_bar
              \/ Discarded(h[i]) /\ j = i + 1
  <2>1. i \in 1 .. q
    BY <1>1, <1>13
  <2>2. CASE j = q + 1 /\ i = q
    BY <1>1, <2>1, <2>2
  <2>3. CASE j = q + 1 /\ i # q
    <3>1. i < q
      BY <2>1, <2>3
    <3>2. ~(Discarded(fs[i]) /\ q = i + 1)
      BY <1>3, <2>1 DEF Nested
    <3>3. fs[i].globaltop <= fs[q].saved_bar
      BY <1>5, <1>12, <2>1, <3>1, <3>2
    <3>4. fs[i].globaltop <= f.saved_bar
      <4>1. f.saved_bar \in Nat
        BY <1>4, <1>5, <1>8
      <4>. QED
        BY <1>4, <1>5, <1>9, <2>1, <3>3, <4>1
    <3>. QED
      BY <1>1, <2>1, <2>3, <3>4
  <2>4. CASE j \in 1 .. q
    <3>1. i < q
      BY <1>13, <2>4
    <3>2. h[i].state = fs[i].state
      BY <1>1, <2>1, <3>1
    <3>. QED
      BY <1>1, <1>12, <1>13, <2>1, <2>4, <3>2 DEF Discarded
  <2>. QED
    BY <1>2, <2>2, <2>3, <2>4
<1>14. fb <= g2 /\ h[Len(h)].globaltop = g2
  BY <1>1
<1>. QED
  BY <1>7, <1>11, <1>13, <1>14 DEF Barred

(***************************************************************************)
(* How frames, queries and choice points nest.                             *)
(***************************************************************************)

\* Giving up the frames after the n-th.
LEMMA NestedPopped ==
  ASSUME NEW fs \in Seq(Frame), Nested(fs), NEW n \in 1 .. Len(fs),
         ~Discarded(fs[n])
  PROVE  Nested(SubSeq(fs, 1, n))
<1>. DEFINE hs == SubSeq(fs, 1, n)
<1>1. /\ Len(fs) \in Nat /\ n \in Nat /\ n >= 1 /\ Len(hs) = n
      /\ \A j \in 1 .. n : j \in 1 .. Len(fs) /\ hs[j] = fs[j]
  OBVIOUS
<1>. HIDE DEF hs
<1>2. hs[1].kind = "fli"
  BY <1>1 DEF Nested
<1>3. ASSUME NEW i \in 1 .. n, NEW q \in 1 .. (i - 1), Between(fs, q, i)
      PROVE  Between(hs, q, i) /\ hs[q] = fs[q]
  <2>1. q \in 1 .. n /\ \A j \in (q + 1) .. (i - 1) : j \in 1 .. n
    BY <1>1
  <2>. QED
    BY <1>1, <1>3, <2>1 DEF Between
<1>4. ASSUME NEW i \in 1 .. n
      PROVE  /\ hs[i].kind = "choice" =>
                  \E q \in 1 .. (i - 1) : Between(hs, q, i) /\ hs[q].state = "open"
             /\ hs[i].kind = "answer" => \E q \in 1 .. (i - 1) : Between(hs, q, i)
  BY <1>1, <1>3 DEF Nested
<1>5. ASSUME NEW i \in 1 .. n, Discarded(hs[i])
      PROVE  hs[i].kind = "query" /\ i < n /\ hs[i + 1].kind = "answer"
  <2>1. Discarded(fs[i]) /\ i # n
    BY <1>1, <1>5
  <2>2. i + 1 \in 1 .. n /\ i < n
    BY <1>1, <2>1
  <2>. QED
    BY <1>1, <2>1, <2>2 DEF Nested
<1>. QED
  BY <1>1, <1>2, <1>4, <1>5 DEF Nested, hs

\* A new frame on top; the state of the query below it may have changed.
LEMMA NestedPushed ==
  ASSUME NEW fs \in Seq(Frame), Nested(fs), NEW n \in 1 .. Len(fs),
         NEW hs \in Seq(Frame), Len(hs) = n,
         \A i \in 1 .. n : hs[i].kind = fs[i].kind,
         \A i \in 1 .. n : i < n => hs[i].state = fs[i].state,
         NEW f \in Frame, f.state = "open",
         f.kind = "choice" =>
           hs[n].kind = "choice" \/ (hs[n].kind = "query" /\ hs[n].state = "open"),
         f.kind = "answer" => hs[n].kind \in {"choice", "query"},
         Discarded(hs[n]) => hs[n].kind = "query" /\ f.kind = "answer"
  PROVE  Nested(Append(hs, f))
<1>. DEFINE h == Append(hs, f)
<1>1. /\ Len(fs) \in Nat /\ n \in Nat /\ n >= 1
      /\ Len(h) = n + 1 /\ h[n + 1] = f
      /\ \A k \in 1 .. n : k \in 1 .. Len(fs) /\ h[k] = hs[k]
  OBVIOUS
<1>. HIDE DEF h
<1>2. \A k \in 1 .. Len(h) : k \in 1 .. n \/ k = n + 1
  BY <1>1
<1>3. h[1].kind = "fli"
  BY <1>1 DEF Nested
<1>4. ASSUME NEW i \in 1 .. n, NEW q \in 1 .. (i - 1), Between(fs, q, i)
      PROVE  Between(h, q, i) /\ h[q].state = fs[q].state
  <2>1. q \in 1 .. n /\ q < n /\ \A j \in (q + 1) .. (i - 1) : j \in 1 .. n
    BY <1>1
  <2>. QED
    BY <1>1, <1>4, <2>1, SMTT(30) DEF Between
<1>5. ASSUME NEW i \in 1 .. n
      PROVE  /\ h[i].kind = "choice" =>
                  \E q \in 1 .. (i - 1) : Between(h, q, i) /\ h[q].state = "open"
             /\ h[i].kind = "answer" => \E q \in 1 .. (i - 1) : Between(h, q, i)
  <2>1. h[i].kind = fs[i].kind /\ i \in 1 .. Len(fs)
    BY <1>1
  <2>2. /\ fs[i].kind = "choice" =>
             \E q \in 1 .. (i - 1) : Between(fs, q, i) /\ fs[q].state = "open"
        /\ fs[i].kind = "answer" => \E q \in 1 .. (i - 1) : Between(fs, q, i)
    BY <2>1 DEF Nested
  <2>. QED
    BY <1>4, <2>1, <2>2
<1>6. ASSUME NEW i \in 1 .. n, Discarded(h[i])
      PROVE  h[i].kind = "query" /\ i < n + 1 /\ h[i + 1].kind = "answer"
  <2>1. CASE i = n
    BY <1>1, <1>6, <2>1
  <2>2. CASE i # n
    <3>1. i < n /\ i + 1 \in 1 .. n
      BY <1>1, <2>2
    <3>2. Discarded(fs[i])
      BY <1>1, <1>6, <3>1 DEF Discarded
    <3>. QED
      BY <1>1, <3>1, <3>2, SMTT(30) DEF Nested
  <2>. QED
    BY <2>1, <2>2
<1>7. ASSUME hs[n].kind = "query" PROVE Between(h, n, n + 1)
  BY <1>1, <1>7 DEF Between
<1>8. ASSUME hs[n].kind = "choice"
      PROVE  \E q \in 1 .. n : Between(h, q, n + 1) /\ h[q].state = "open"
  <2>1. PICK q \in 1 .. (n - 1) : Between(h, q, n) /\ h[q].state = "open"
    BY <1>1, <1>5, <1>8
  <2>2. \A j \in (q + 1) .. ((n + 1) - 1) : j = n \/ j \in (q + 1) .. (n - 1)
    BY <1>1
  <2>3. Between(h, q, n + 1) /\ q \in 1 .. n
    BY <1>1, <1>8, <2>1, <2>2 DEF Between
  <2>. QED
    BY <2>1, <2>3
<1>9. /\ f.kind = "choice" =>
           \E q \in 1 .. n : Between(h, q, n + 1) /\ h[q].state = "open"
      /\ f.kind = "answer" => \E q \in 1 .. n : Between(h, q, n + 1)
  BY <1>1, <1>7, <1>8
<1>10. ~Discarded(f) /\ (n + 1) - 1 = n
  BY <1>1 DEF Discarded
<1>11. ASSUME NEW i \in 1 .. Len(h)
       PROVE  /\ h[i].kind = "choice" =>
                   \E q \in 1 .. (i - 1) : Between(h, q, i) /\ h[q].state = "open"
              /\ h[i].kind = "answer" => \E q \in 1 .. (i - 1) : Between(h, q, i)
              /\ Discarded(h[i]) =>
                   /\ h[i].kind = "query" /\ i < Len(h)
                   /\ h[i + 1].kind = "answer"
  <2>1. CASE i \in 1 .. n
    BY <1>1, <1>5, <1>6, <2>1
  <2>2. CASE i = n + 1
    BY <1>1, <1>9, <1>10, <2>2
  <2>. QED
    BY <1>2, <2>1, <2>2
<1>. QED
  BY <1>3, <1>11 DEF Nested, h

\* The query that Query finds.
LEMMA QueryIs ==
  ASSUME frames \in Seq(Frame), NEW q \in 1 .. Len(frames), frames[q].kind = "query",
         \A j \in 1 .. Len(frames) : j > q => frames[j].kind # "query"
  PROVE  Query = q
<1>. DEFINE qs == { i \in 1 .. Len(frames) : frames[i].kind = "query" }
<1>1. q \in qs /\ \A j \in qs : j \in Nat /\ j <= q
  OBVIOUS
<1>2. Query = IF qs = {} THEN 0 ELSE CHOOSE i \in qs : \A j \in qs : j <= i
  BY DEF Query
<1>. HIDE DEF qs
<1>3. Query = CHOOSE i \in qs : \A j \in qs : j <= i
  BY <1>1, <1>2
<1>4. Query \in qs /\ \A j \in qs : j <= Query
  BY <1>1, <1>3
<1>5. Query \in Nat /\ q \in Nat /\ Query <= q /\ q <= Query
  BY <1>1, <1>4
<1>. QED
  BY <1>5

\* What the frame on top tells of the innermost query.
LEMMA QueryFound ==
  ASSUME frames \in Seq(Frame), frames # <<>>, Nested(frames),
         Top.kind \in {"query", "choice", "answer"}
  PROVE  /\ Query \in 2 .. Len(frames) /\ frames[Query].kind = "query"
         /\ Top.kind = "query" => Query = Len(frames)
         /\ Top.kind # "query" =>
              /\ Query < Len(frames)
              /\ Query < Len(frames) - 1 =>
                   /\ frames[Len(frames) - 1].kind = "choice"
                   /\ frames[Query].state = "open"
         /\ Top.kind = "choice" => frames[Query].state = "open"
<1>. DEFINE n == Len(frames)
<1>1. n \in Nat /\ n >= 1 /\ n \in 1 .. n /\ Top = frames[n]
  BY DEF Top
<1>2. frames[1].kind = "fli" /\ n # 1
  BY <1>1 DEF Nested
<1>3. CASE Top.kind = "query"
  <2>1. Query = n
    BY <1>1, <1>3, QueryIs
  <2>. QED
    BY <1>1, <1>2, <1>3, <2>1
<1>4. CASE Top.kind # "query"
  <2>1. PICK q \in 1 .. (n - 1) :
          Between(frames, q, n) /\ (Top.kind = "choice" => frames[q].state = "open")
    BY <1>1, <1>4 DEF Nested
  <2>. HIDE DEF n
  <2>2. /\ q \in 1 .. n /\ q < n /\ frames[q].kind = "query"
        /\ \A j \in 1 .. n : j > q => j = n \/ frames[j].kind = "choice"
    BY <1>1, <2>1 DEF Between
  <2>3. Query = q
    <3>1. \A j \in 1 .. n : j > q => frames[j].kind # "query"
      BY <1>1, <1>4, <2>2
    <3>. QED
      BY <2>2, <3>1, QueryIs DEF n
  <2>4. q # 1
    BY <1>2, <2>2
  <2>5. ASSUME q < n - 1
        PROVE  frames[n - 1].kind = "choice" /\ frames[q].state = "open"
    <3>1. n - 1 \in 1 .. n /\ n - 1 > q /\ n - 1 # n
      BY <1>1, <2>5
    <3>2. frames[n - 1].kind = "choice"
      BY <2>2, <3>1
    <3>3. PICK p \in 1 .. ((n - 1) - 1) :
            Between(frames, p, n - 1) /\ frames[p].state = "open"
      BY <3>1, <3>2 DEF Nested, n
    <3>4. p \in 1 .. n /\ p < n /\ frames[p].kind = "query"
      BY <1>1, <3>3 DEF Between
    <3>5. ~(p > q)
      BY <2>2, <3>4
    <3>6. ~(q > p)
      <4>1. q > p => q \in (p + 1) .. ((n - 1) - 1)
        BY <1>1, <2>5, <3>4
      <4>. QED
        BY <2>2, <3>3, <4>1 DEF Between
    <3>7. p = q
      BY <3>4, <3>5, <3>6
    <3>. QED
      BY <3>2, <3>3, <3>7
  <2>. QED
    BY <1>1, <1>4, <2>1, <2>2, <2>3, <2>4, <2>5 DEF n
<1>. QED
  BY <1>3, <1>4

(***************************************************************************)
(* Every step keeps the invariant.                                         *)
(***************************************************************************)

\* The types of the parts of a state.
LEMMA Parts ==
  ASSUME TypeOK
  PROVE  /\ Len(frames) \in Nat /\ Len(frames) >= 1
         /\ Top = frames[Len(frames)] /\ Len(frames) \in 1 .. Len(frames)
         /\ \A i \in 1 .. Len(frames) :
              /\ frames[i] \in Frame /\ frames[i].trailtop \in Nat
              /\ frames[i].globaltop \in Nat /\ frames[i].saved_bar \in Nat
         /\ Len(trail) \in Nat
         /\ gTop \in Nat /\ GMax \in Nat /\ lBase = GMax /\ gTop <= GMax
         /\ \A a \in Addr : a \in Nat
<1>1. frames \in Seq(Frame) /\ frames # <<>> /\ trail \in Seq(TrailEntry)
  BY DEF TypeOK
<1>2. /\ Len(frames) \in Nat /\ Len(frames) >= 1
      /\ Top = frames[Len(frames)] /\ Len(frames) \in 1 .. Len(frames)
      /\ Len(trail) \in Nat
  BY <1>1 DEF Top
<1>3. \A i \in 1 .. Len(frames) : frames[i] \in Frame
  BY <1>1
<1>4. \A i \in 1 .. Len(frames) :
        /\ frames[i] \in Frame /\ frames[i].trailtop \in Nat
        /\ frames[i].globaltop \in Nat /\ frames[i].saved_bar \in Nat
  BY <1>3 DEF Frame
<1>5. gTop \in Nat /\ GMax \in Nat /\ lBase = GMax /\ gTop <= GMax
  BY SizesAssumption DEF TypeOK, lBase
<1>6. \A a \in Addr : a \in Nat
  BY SizesAssumption DEF Addr
<1>. QED
  BY <1>2, <1>4, <1>5, <1>6

\* The bars lie within the global stack.
LEMMA BarsBounded ==
  ASSUME IInv
  PROVE  BarsInStack
<1>1. TypeOK
  BY DEF IInv
<1>2. frozen_bar <= gTop /\ (mark_bar <= frozen_bar \/ mark_bar <= Top.globaltop)
  BY <1>1, Parts DEF IInv, Barred
<1>3. Top.globaltop \in Nat /\ Top.globaltop <= gTop
  BY <1>1, Parts DEF IInv, Sound, Ordered
<1>4. mark_bar \in Nat /\ frozen_bar \in Nat /\ gTop \in Nat
  BY <1>1, Parts DEF TypeOK
<1>. QED
  BY <1>2, <1>3, <1>4 DEF BarsInStack

\* What Undo() of mark i leaves.
LEMMA UndoResult ==
  ASSUME IInv, NEW i \in 1 .. Len(frames)
  PROVE  LET b == frames[i] IN
         /\ Undone(b) \in [Addr -> Word]
         /\ UndoneTop(b) \in 0 .. GMax
         /\ UndoneTop(b) >= b.globaltop /\ UndoneTop(b) >= frozen_bar
         /\ UndoneTrail(b) = SubSeq(trail, 1, b.trailtop)
         /\ UndoneTrail(b) \in Seq(TrailEntry)
         /\ Len(UndoneTrail(b)) = b.trailtop
         /\ \A a \in Addr :
              a < UndoneTop(b) \/ a >= lBase =>
                Undone(b)[a] = Value(mem, trail, b.trailtop, a)
<1>. DEFINE b == frames[i]
<1>1. TypeOK
  BY DEF IInv
<1>2. b \in Frame /\ b.trailtop \in Nat /\ b.globaltop \in Nat
  BY <1>1, Parts
<1>3. b.trailtop <= Len(trail) /\ b.globaltop <= gTop /\ frozen_bar <= gTop
  BY DEF IInv, Sound, Ordered, Barred
<1>. HIDE DEF b
<1>4. frozen_bar \in Nat /\ gTop \in Nat /\ gTop <= GMax /\ GMax \in Nat
  BY <1>1, Parts DEF TypeOK
<1>5. UndoneTop(b) \in 0 .. GMax /\ UndoneTop(b) >= b.globaltop /\ UndoneTop(b) >= frozen_bar
  BY <1>2, <1>3, <1>4 DEF UndoneTop, Max2
<1>6. /\ UndoneTrail(b) = SubSeq(trail, 1, b.trailtop)
      /\ UndoneTrail(b) \in Seq(TrailEntry)
      /\ Len(UndoneTrail(b)) = b.trailtop
  <2>1. trail \in Seq(TrailEntry) /\ Len(trail) \in Nat
    BY <1>1 DEF TypeOK
  <2>. QED
    BY <1>2, <1>3, <2>1 DEF UndoneTrail
<1>7. \A a \in Addr :
        Undone(b)[a] = IF UndoneTop(b) <= a /\ a < lBase
                         THEN Unbound ELSE Value(mem, trail, b.trailtop, a)
  BY <1>1, <1>2, UndoneValue
<1>8. Undone(b) \in [Addr -> Word]
  <2>1. Undone(b) = [a \in Addr |-> Undone(b)[a]]
    BY DEF Undone
  <2>2. ASSUME NEW a \in Addr PROVE Undone(b)[a] \in Word
    <3>1. Value(mem, trail, b.trailtop, a) \in Word
      BY <1>1, <1>2, ValueType DEF TypeOK
    <3>. QED
      BY <1>7, <3>1 DEF Word
  <2>. QED
    BY <2>1, <2>2
<1>9. \A a \in Addr :
        a < UndoneTop(b) \/ a >= lBase =>
          Undone(b)[a] = Value(mem, trail, b.trailtop, a)
  <2>1. UndoneTop(b) \in Nat /\ lBase \in Nat /\ \A a \in Addr : a \in Nat
    BY <1>1, <1>4, <1>5, Parts
  <2>. QED
    BY <1>7, <2>1
<1>. QED
  BY <1>5, <1>6, <1>8, <1>9 DEF b

\* Marks after the n-th are given up.
LEMMA PopKept ==
  ASSUME IInv, NEW n \in 1 .. (Len(frames) - 1), ~Discarded(frames[n]),
         mark_bar' = DiscardMark(frames[n + 1]), frames' = SubSeq(frames, 1, n),
         UNCHANGED <<mem, gTop, trail, frozen_bar>>
  PROVE  IInv'
<1>1. TypeOK
  BY DEF IInv
<1>2. frames \in Seq(Frame) /\ Len(frames) \in Nat /\ n + 1 \in 1 .. Len(frames)
      /\ n \in 1 .. Len(frames)
  BY <1>1, Parts DEF TypeOK
<1>3. frames[n + 1].saved_bar \in Nat
  BY <1>1, <1>2, Parts
<1>4. /\ frames' \in Seq(Frame) /\ Len(frames') = n /\ frames' # <<>>
      /\ \A i \in 1 .. n : frames'[i] = frames[i]
  BY <1>2
<1>5. mark_bar' \in Nat
  BY <1>1, <1>3 DEF DiscardMark, Max2, TypeOK
<1>6. TypeOK'
  BY <1>1, <1>4, <1>5 DEF TypeOK
<1>7. Sound(mem, gTop, trail, frames')
  <2>1. Len(frames') <= Len(frames)
    BY <1>2, <1>4
  <2>2. gTop \in Nat /\ trail \in Seq(TrailEntry)
    BY <1>1, Parts DEF TypeOK
  <2>. QED
    BY <1>2, <1>4, <2>1, <2>2, MarksKept DEF IInv
<1>8. Barred(gTop, mark_bar', frozen_bar, frames')
  <2>1. gTop \in Nat /\ mark_bar \in Nat /\ frozen_bar \in Nat /\ frozen_bar <= gTop
    BY <1>1, Parts DEF TypeOK, IInv, Barred
  <2>2. Barred(gTop, Max2(frozen_bar, frames[n + 1].saved_bar), frozen_bar,
               SubSeq(frames, 1, n))
    BY <1>2, <2>1, BarsPopped DEF IInv
  <2>. QED
    BY <2>2 DEF DiscardMark
<1>9. Nested(frames')
  BY <1>2, NestedPopped DEF IInv
<1>. QED
  BY <1>6, <1>7, <1>8, <1>9 DEF IInv

\* Mark i is undone, and the marks after the n-th are given up.
LEMMA UndoPopKept ==
  ASSUME IInv, NEW n \in 1 .. (Len(frames) - 1), ~Discarded(frames[n]),
         NEW i \in n .. Len(frames), Undo(frames[i]),
         mark_bar' = DiscardMark(frames[n + 1]), frames' = SubSeq(frames, 1, n),
         UNCHANGED frozen_bar
  PROVE  IInv'
<1>1. TypeOK
  BY DEF IInv
<1>2. /\ frames \in Seq(Frame) /\ Len(frames) \in Nat /\ n + 1 \in 1 .. Len(frames)
      /\ n \in 1 .. Len(frames) /\ i \in 1 .. Len(frames) /\ n \in 0 .. i
  BY <1>1, Parts DEF TypeOK
<1>3. frames[n + 1].saved_bar \in Nat
  BY <1>1, <1>2, Parts
<1>4. frames' \in Seq(Frame) /\ Len(frames') = n /\ frames' # <<>>
  BY <1>2
<1>5. mark_bar' \in Nat
  BY <1>1, <1>3 DEF DiscardMark, Max2, TypeOK
<1>6. /\ mem' \in [Addr -> Word] /\ gTop' \in 0 .. GMax
      /\ gTop' >= frames[i].globaltop /\ gTop' >= frozen_bar
      /\ trail' = SubSeq(trail, 1, frames[i].trailtop) /\ trail' \in Seq(TrailEntry)
      /\ \A a \in Addr : a < gTop' \/ a >= lBase =>
           mem'[a] = Value(mem, trail, frames[i].trailtop, a)
  BY <1>2, UndoResult DEF Undo
<1>7. TypeOK'
  BY <1>1, <1>4, <1>5, <1>6 DEF TypeOK
<1>8. Sound(mem', gTop', trail', frames')
  <2>1. gTop \in Nat /\ gTop' \in Nat /\ trail \in Seq(TrailEntry)
    BY <1>1, <1>6, Parts DEF TypeOK
  <2>2. Sound(mem', gTop', SubSeq(trail, 1, frames[i].trailtop), SubSeq(frames, 1, n))
    BY <1>2, <1>6, <2>1, UndoKept DEF IInv
  <2>. QED
    BY <1>6, <2>2
<1>9. Barred(gTop', mark_bar', frozen_bar, frames')
  <2>1. /\ gTop \in Nat /\ gTop' \in Nat /\ mark_bar \in Nat /\ frozen_bar \in Nat
        /\ frozen_bar <= gTop'
    BY <1>1, <1>6, Parts DEF TypeOK
  <2>2. Barred(gTop', Max2(frozen_bar, frames[n + 1].saved_bar), frozen_bar,
               SubSeq(frames, 1, n))
    BY <1>2, <2>1, BarsPopped DEF IInv
  <2>. QED
    BY <2>2 DEF DiscardMark
<1>10. Nested(frames')
  BY <1>2, NestedPopped DEF IInv
<1>. QED
  BY <1>7, <1>8, <1>9, <1>10 DEF IInv

\* A mark is set on frames that differ from the present ones at most in the
\* state of the newest.
LEMMA MarkKept ==
  ASSUME IInv, NEW fs \in Seq(Frame), Len(fs) = Len(frames),
         \A i \in 1 .. Len(fs) :
           /\ fs[i].kind = frames[i].kind /\ fs[i].trailtop = frames[i].trailtop
           /\ fs[i].globaltop = frames[i].globaltop
           /\ fs[i].saved_bar = frames[i].saved_bar /\ fs[i].snap = frames[i].snap
           /\ i < Len(fs) => fs[i].state = frames[i].state,
         ~Discarded(fs[Len(fs)]),
         NEW kind \in Kinds,
         kind = "choice" =>
           \/ Top.kind = "choice"
           \/ Top.kind = "query" /\ fs[Len(fs)].state = "open",
         kind = "answer" => Top.kind \in {"choice", "query"},
         frames' = Append(fs, Mark(kind, mem, trail, gTop, mark_bar)),
         mark_bar' = gTop, UNCHANGED <<mem, gTop, trail, frozen_bar>>
  PROVE  IInv'
<1>. DEFINE f == Mark(kind, mem, trail, gTop, mark_bar)
<1>1. TypeOK
  BY DEF IInv
<1>2. /\ frames \in Seq(Frame) /\ frames # <<>> /\ trail \in Seq(TrailEntry)
      /\ mem \in [Addr -> Word] /\ mark_bar \in Nat /\ frozen_bar \in Nat
      /\ gTop \in Nat /\ Len(trail) \in Nat
  BY <1>1, Parts DEF TypeOK
<1>3. /\ f \in Frame /\ f.kind = kind /\ f.state = "open" /\ f.trailtop = Len(trail)
      /\ f.globaltop = gTop /\ f.saved_bar = mark_bar /\ f.snap = mem
  BY <1>2 DEF Mark, Frame, States
<1>4. frames' = Append(fs, f)
  OBVIOUS
<1>. HIDE DEF f
<1>5. Len(frames) \in Nat /\ Len(frames) >= 1 /\ Top = frames[Len(frames)]
  BY <1>1, Parts
<1>6. /\ frames' \in Seq(Frame) /\ frames' # <<>>
  BY <1>3, <1>4
<1>7. TypeOK'
  BY <1>1, <1>2, <1>6 DEF TypeOK
<1>8. Sound(mem, gTop, trail, fs)
  <2>1. Len(fs) <= Len(frames) /\ Sound(mem, gTop, trail, frames)
    BY <1>5 DEF IInv
  <2>2. \A i \in 1 .. Len(fs) :
           /\ fs[i].trailtop = frames[i].trailtop
           /\ fs[i].globaltop = frames[i].globaltop
           /\ fs[i].snap = frames[i].snap
    OBVIOUS
  <2>. QED
    BY ONLY <1>2, <2>1, <2>2, fs \in Seq(Frame), MarksKept
<1>9. Sound(mem, gTop, trail, frames')
  BY <1>2, <1>3, <1>4, <1>8, PushKept
<1>10. Barred(gTop, mark_bar, frozen_bar, fs)
  <2>0. Barred(gTop, mark_bar, frozen_bar, frames)
    BY DEF IInv
  <2>1. ASSUME NEW i \in 1 .. Len(fs)
        PROVE  /\ fs[i].globaltop = frames[i].globaltop
               /\ fs[i].saved_bar = frames[i].saved_bar
               /\ i > 1 => fs[i - 1].globaltop = frames[i - 1].globaltop
    <3>1. i > 1 => i - 1 \in 1 .. Len(fs)
      BY <1>5
    <3>. QED
      BY <3>1
  <2>2. \A i \in 1 .. Len(fs) : i < Len(fs) /\ Discarded(frames[i]) => Discarded(fs[i])
    BY DEF Discarded
  <2>3. Len(fs) \in 1 .. Len(fs)
    BY <1>5
  <2>4. mark_bar <= frozen_bar \/ mark_bar <= fs[Len(fs)].globaltop
    BY <2>0, <2>1, <2>3 DEF Barred
  <2>5. \A i \in 1 .. Len(fs) :
          i > 1 => \/ fs[i].saved_bar <= frozen_bar
                   \/ fs[i].saved_bar <= fs[i - 1].globaltop
    BY <2>0, <2>1 DEF Barred
  <2>6. \A i, j \in 1 .. Len(fs) :
          i < j => \/ fs[i].globaltop <= fs[j].saved_bar
                   \/ Discarded(fs[i]) /\ j = i + 1
    BY <1>5, <2>0, <2>1, <2>2 DEF Barred
  <2>. QED
    BY <2>0, <2>1, <2>4, <2>5, <2>6 DEF Barred
<1>11. Barred(gTop, gTop, frozen_bar, frames')
  <2>1. \A i \in 1 .. Len(fs) : fs[i].globaltop <= gTop
    BY DEF IInv, Sound, Ordered
  <2>2. fs # <<>>
    BY <1>5
  <2>. QED
    BY <1>2, <1>3, <1>4, <1>10, <2>1, <2>2, BarsPushed, ZenonT(60)
<1>12. Nested(frames')
  <2>. DEFINE n == Len(frames)
  <2>1. /\ n \in 1 .. Len(frames) /\ Len(fs) = n /\ fs[n].kind = Top.kind
        /\ \A i \in 1 .. n : fs[i].kind = frames[i].kind
        /\ \A i \in 1 .. n : i < n => fs[i].state = frames[i].state
        /\ ~Discarded(fs[n])
    BY <1>5
  <2>. HIDE DEF n
  <2>2. f.kind = "choice" =>
           \/ fs[n].kind = "choice" \/ (fs[n].kind = "query" /\ fs[n].state = "open")
    <3>1. kind = "choice" =>
            \/ Top.kind = "choice" \/ (Top.kind = "query" /\ fs[n].state = "open")
      BY <2>1, Zenon
    <3>. QED
      BY <1>3, <2>1, <3>1, Zenon
  <2>3. f.kind = "answer" => fs[n].kind \in {"choice", "query"}
    BY <1>3, <2>1
  <2>4. Nested(frames)
    BY DEF IInv
  <2>. QED
    <3>1. /\ frames \in Seq(Frame) /\ fs \in Seq(Frame) /\ f \in Frame
          /\ f.state = "open"
          /\ Discarded(fs[n]) => fs[n].kind = "query" /\ f.kind = "answer"
      BY <1>2, <1>3, <2>1
    <3>2. Nested(Append(fs, f))
      BY ONLY <2>1, <2>2, <2>3, <2>4, <3>1, NestedPushed
    <3>. QED
      BY <1>4, <3>2
<1>. QED
  BY <1>7, <1>9, <1>11, <1>12 DEF IInv

\* The newest mark is undone and kept.
LEMMA RewindKept ==
  ASSUME IInv, Undo(Top), UNCHANGED <<mark_bar, frozen_bar, frames>>
  PROVE  IInv'
<1>. DEFINE n == Len(frames)
<1>1. TypeOK
  BY DEF IInv
<1>2. /\ frames \in Seq(Frame) /\ n \in Nat /\ n \in 1 .. Len(frames) /\ n \in 0 .. n
      /\ Top = frames[n] /\ frames = SubSeq(frames, 1, n)
  BY <1>1, Parts DEF TypeOK
<1>. HIDE DEF n
<1>3. /\ mem' \in [Addr -> Word] /\ gTop' \in 0 .. GMax
      /\ gTop' >= frames[n].globaltop /\ gTop' >= frozen_bar
      /\ trail' = SubSeq(trail, 1, frames[n].trailtop) /\ trail' \in Seq(TrailEntry)
      /\ \A a \in Addr : a < gTop' \/ a >= lBase =>
           mem'[a] = Value(mem, trail, frames[n].trailtop, a)
  BY <1>2, UndoResult DEF Undo
<1>4. TypeOK'
  BY <1>1, <1>3 DEF TypeOK
<1>5. Sound(mem', gTop', trail', frames)
  <2>1. gTop \in Nat /\ gTop' \in Nat /\ trail \in Seq(TrailEntry)
    BY <1>1, <1>3, Parts DEF TypeOK
  <2>2. Sound(mem', gTop', SubSeq(trail, 1, frames[n].trailtop), SubSeq(frames, 1, n))
    BY <1>2, <1>3, <2>1, UndoKept DEF IInv
  <2>. QED
    BY <1>2, <1>3, <2>2
<1>6. Barred(gTop', mark_bar, frozen_bar, frames)
  <2>1. frozen_bar <= gTop'
    BY <1>1, <1>3 DEF TypeOK
  <2>. QED
    BY <2>1 DEF IInv, Barred
<1>. QED
  BY <1>4, <1>5, <1>6 DEF IInv

\* A query is left without a solution.
LEMMA LeaveKept ==
  ASSUME IInv, NEW q \in 2 .. Len(frames), frames[q].kind = "query",
         NEW state \in {"failed", "exception"}, LeaveUndone(q, state)
  PROVE  IInv'
<1>. DEFINE b  == frames[q]
            ps == SubSeq(frames, 1, q)
            hs == [ps EXCEPT ![q].state = state]
            f  == Mark("answer", mem', trail', gTop', DiscardMark(b))
<1>1. TypeOK
  BY DEF IInv
<1>2. /\ frames \in Seq(Frame) /\ Len(frames) \in Nat /\ q \in Nat /\ q > 1
      /\ q \in 1 .. Len(frames) /\ q \in 0 .. q /\ q \in 1 .. q
      /\ b \in Frame /\ b.saved_bar \in Nat /\ b.globaltop \in Nat
  BY <1>1, Parts DEF TypeOK
<1>3. /\ ps \in Seq(Frame) /\ Len(ps) = q
      /\ \A i \in 1 .. q : ps[i] \in Frame /\ ps[i] = frames[i]
  <2>. HIDE DEF b
  <2>. QED
    BY <1>2
<1>4. frames' = Append(hs, f) /\ mark_bar' = gTop' /\ UNCHANGED frozen_bar /\ Undo(b)
  <2>1. (q + 1) - 1 = q
    BY <1>2
  <2>. QED
    BY <2>1 DEF LeaveUndone, PopTo
<1>. HIDE DEF ps
<1>5. /\ hs \in Seq(Frame) /\ Len(hs) = q
      /\ \A i \in 1 .. q :
           /\ hs[i].kind = frames[i].kind /\ hs[i].trailtop = frames[i].trailtop
           /\ hs[i].globaltop = frames[i].globaltop
           /\ hs[i].saved_bar = frames[i].saved_bar /\ hs[i].snap = frames[i].snap
           /\ i < q => hs[i].state = frames[i].state
      /\ hs[q].state = state
  <2>1. [ps[q] EXCEPT !.state = state] \in Frame
    BY <1>2, <1>3 DEF Frame, States
  <2>2. /\ hs \in Seq(Frame) /\ Len(hs) = q
        /\ \A i \in 1 .. q : i # q => hs[i] = ps[i]
        /\ hs[q] = [ps[q] EXCEPT !.state = state]
    BY <1>2, <1>3, <2>1
  <2>. HIDE DEF hs
  <2>3. /\ hs[q].kind = ps[q].kind /\ hs[q].trailtop = ps[q].trailtop
        /\ hs[q].globaltop = ps[q].globaltop /\ hs[q].saved_bar = ps[q].saved_bar
        /\ hs[q].snap = ps[q].snap /\ hs[q].state = state
    BY <1>2, <1>3, <2>2 DEF Frame
  <2>4. \A i \in 1 .. q : i < q => i # q
    BY <1>2
  <2>. QED
    BY <1>3, <2>2, <2>3, <2>4
<1>. HIDE DEF hs
<1>6. /\ mem' \in [Addr -> Word] /\ gTop' \in 0 .. GMax
      /\ gTop' >= frames[q].globaltop /\ gTop' >= frozen_bar
      /\ trail' = SubSeq(trail, 1, frames[q].trailtop) /\ trail' \in Seq(TrailEntry)
      /\ \A a \in Addr : a < gTop' \/ a >= lBase =>
           mem'[a] = Value(mem, trail, frames[q].trailtop, a)
  BY <1>2, <1>4, UndoResult DEF Undo
<1>7. /\ gTop \in Nat /\ gTop' \in Nat /\ trail \in Seq(TrailEntry)
      /\ mark_bar \in Nat /\ frozen_bar \in Nat /\ frozen_bar <= gTop'
      /\ Len(trail') \in Nat
  BY <1>1, <1>6, Parts DEF TypeOK
<1>8. /\ f \in Frame /\ f.kind = "answer" /\ f.state = "open"
      /\ f.trailtop = Len(trail') /\ f.globaltop = gTop' /\ f.snap = mem'
      /\ f.saved_bar = Max2(frozen_bar, frames[q].saved_bar)
  <2>1. DiscardMark(b) = Max2(frozen_bar, b.saved_bar) /\ DiscardMark(b) \in Nat
    BY <1>2, <1>7 DEF DiscardMark, Max2
  <2>. QED
    BY <1>6, <1>7, <2>1 DEF Mark, Frame, States, Kinds
<1>. HIDE DEF f
<1>9. TypeOK'
  <2>1. frames' \in Seq(Frame) /\ frames' # <<>>
    BY <1>4, <1>5, <1>8
  <2>2. mark_bar' \in Nat /\ frozen_bar' \in Nat
    BY <1>4, <1>7
  <2>. QED
    BY <1>6, <2>1, <2>2 DEF TypeOK
<1>10. Sound(mem', gTop', trail', frames')
  <2>1. Sound(mem', gTop', SubSeq(trail, 1, frames[q].trailtop), SubSeq(frames, 1, q))
    BY <1>2, <1>6, <1>7, UndoKept DEF IInv
  <2>2. Sound(mem', gTop', trail', ps)
    BY <1>6, <2>1 DEF ps
  <2>3. Sound(mem', gTop', trail', hs)
    <3>1. \A i \in 1 .. Len(hs) :
           /\ hs[i].trailtop = ps[i].trailtop
           /\ hs[i].globaltop = ps[i].globaltop
           /\ hs[i].snap = ps[i].snap
      BY <1>3, <1>5
    <3>2. Len(hs) <= Len(ps)
      BY <1>2, <1>3, <1>5
    <3>. QED
      BY <1>3, <1>5, <1>6, <1>7, <2>2, <3>1, <3>2, MarksKept
  <2>. QED
    BY <1>4, <1>5, <1>6, <1>7, <1>8, <2>3, PushKept
<1>11. Discarded(hs[q])
  BY <1>5 DEF Discarded
<1>12. Barred(gTop', mark_bar', frozen_bar', frames')
  <2>1. Nested(frames)
    BY DEF IInv
  <2>7. \A i \in 1 .. q :
          i > 1 => \/ frames[i].saved_bar <= frozen_bar
                   \/ frames[i].saved_bar <= frames[i - 1].globaltop
    BY <1>2 DEF IInv, Barred
  <2>8. \A i, j \in 1 .. q :
          i < j => \/ frames[i].globaltop <= frames[j].saved_bar
                   \/ Discarded(frames[i]) /\ j = i + 1
    BY <1>2 DEF IInv, Barred
  <2>0. \A i \in 1 .. q : frames[i].globaltop <= frames[q].globaltop
    BY <1>2 DEF IInv, Sound, Ordered
  <2>2. Len(frames') = q + 1 /\ frames'[q + 1] = f /\ \A i \in 1 .. q : frames'[i] = hs[i]
    BY <1>2, <1>4, <1>5
  <2>3. \A i \in 1 .. q :
          /\ frames'[i].globaltop = frames[i].globaltop
          /\ frames'[i].saved_bar = frames[i].saved_bar
          /\ i < q => frames'[i].state = frames[i].state
    BY <1>5, <2>2
  <2>4. /\ Discarded(frames'[q]) /\ frames'[q + 1].globaltop = gTop'
        /\ frames'[q + 1].saved_bar = Max2(frozen_bar, frames[q].saved_bar)
    BY <1>2, <1>8, <1>11, <2>2
  <2>5. frames[q].globaltop <= gTop'
    BY <1>2, <1>6, <1>7 DEF b
  <2>6. Barred(gTop', gTop', frozen_bar, frames')
    BY <1>2, <1>7, <2>0, <2>1, <2>2, <2>3, <2>4, <2>5, <2>7, <2>8, BarsLeft
  <2>. QED
    BY <1>4, <2>6
<1>13. Nested(frames')
  <2>1. Nested(frames)
    BY DEF IInv
  <2>2. hs[q].kind = "query"
    BY <1>2, <1>5
  <2>3. \A i \in 1 .. q : hs[i].kind = frames[i].kind
    BY <1>5
  <2>4. \A i \in 1 .. q : i < q => hs[i].state = frames[i].state
    BY <1>5
  <2>5. f.kind # "choice" /\ hs[q].kind \in {"choice", "query"}
    BY <1>8, <2>2
  <2>6. Nested(Append(hs, f))
    BY <1>2, <1>5, <1>8, <2>1, <2>2, <2>3, <2>4, <2>5, NestedPushed
  <2>. QED
    BY <1>4, <2>6
<1>. QED
  BY <1>9, <1>10, <1>12, <1>13 DEF IInv

\* freezeGlobal().
LEMMA FreezeKept ==
  ASSUME IInv, FreezeGlobal
  PROVE  IInv'
<1>1. TypeOK
  BY DEF IInv
<1>2. TypeOK'
  BY <1>1, Parts DEF TypeOK, FreezeGlobal
<1>3. Sound(mem, gTop, trail, frames) /\ Nested(frames)
  BY DEF IInv
<1>4. Barred(gTop, gTop, gTop, frames)
  <2>1. /\ gTop \in Nat /\ frozen_bar \in Nat /\ frozen_bar <= gTop
        /\ \A i \in 1 .. Len(frames) :
             /\ frames[i].globaltop \in Nat /\ frames[i].saved_bar \in Nat
             /\ frames[i].globaltop <= gTop
    BY <1>1, Parts DEF TypeOK, IInv, Barred, Sound, Ordered
  <2>2. \A i \in 1 .. Len(frames) :
          i > 1 => \/ frames[i].saved_bar <= gTop
                   \/ frames[i].saved_bar <= frames[i - 1].globaltop
    BY <2>1 DEF IInv, Barred
  <2>3. \A i, j \in 1 .. Len(frames) :
          i < j => \/ frames[i].globaltop <= frames[j].saved_bar
                   \/ Discarded(frames[i]) /\ j = i + 1
    BY DEF IInv, Barred
  <2>. QED
    BY <2>1, <2>2, <2>3, SMTT(30) DEF Barred
<1>. QED
  BY <1>2, <1>3, <1>4 DEF IInv, FreezeGlobal

\* A higher top of the global stack does not disturb the bars.
LEMMA BarsKept ==
  ASSUME NEW g \in Nat, NEW g2 \in Nat, g <= g2, NEW mb, NEW fb \in Nat, NEW fs,
         Barred(g, mb, fb, fs)
  PROVE  Barred(g2, mb, fb, fs)
<1>1. fb <= g2
  BY DEF Barred
<1>. QED
  BY <1>1 DEF Barred

\* No mark covers the words from mark_bar on, and none covers the first free
\* one.
LEMMA NewWords ==
  ASSUME IInv, NEW i \in 1 .. Len(frames), NEW a \in Addr, a < lBase,
         a >= mark_bar \/ a = gTop
  PROVE  ~Covers(frames[i], a)
<1>1. TypeOK
  BY DEF IInv
<1>2. /\ frames[i].globaltop \in Nat /\ a \in Nat /\ lBase \in Nat
      /\ mark_bar \in Nat /\ gTop \in Nat
  BY <1>1, Parts DEF TypeOK
<1>3. frames[i].globaltop <= mark_bar /\ frames[i].globaltop <= gTop
  BY DEF IInv, Barred, Sound, Ordered
<1>. QED
  BY <1>2, <1>3 DEF Covers

\* The saved words are below the top, and Prolog cannot write to them.
LEMMA SavedBelow ==
  ASSUME IInv, NEW k \in 1 .. Len(trail), trail[k].assigned
  PROVE  /\ trail[k].saved \in Nat /\ trail[k].saved < gTop
         /\ trail[k].saved \notin Reachable
<1>1. trail \in Seq(TrailEntry)
  BY DEF IInv, TypeOK
<1>2. trail[k] \in TrailEntry
  BY <1>1
<1>3. trail[k].saved \in Nat
  BY <1>2, SizesAssumption DEF TrailEntry, Addr
<1>4. trail[k].saved < gTop
  BY DEF IInv, Sound, SavesKept
<1>5. trail[k].saved \in SavedWords
  BY DEF SavedWords
<1>. QED
  BY <1>3, <1>4, <1>5 DEF Reachable

\* AllocGlobal.
LEMMA AllocKept ==
  ASSUME IInv, AllocGlobal
  PROVE  IInv'
<1>1. TypeOK
  BY DEF IInv
<1>2. PICK v \in Word : mem' = [mem EXCEPT ![gTop] = v]
  BY DEF AllocGlobal
<1>3. /\ gTop \in Nat /\ GMax \in Nat /\ gTop < GMax /\ gTop' = gTop + 1
      /\ lBase = GMax /\ UNCHANGED <<trail, mark_bar, frozen_bar, frames>>
      /\ trail \in Seq(TrailEntry) /\ frames \in Seq(Frame) /\ frozen_bar \in Nat
      /\ mem \in [Addr -> Word]
  BY <1>1, Parts DEF AllocGlobal, TypeOK
<1>4. gTop \in Addr
  BY <1>3, SizesAssumption DEF Addr
<1>5. mem' \in [Addr -> Word]
  BY <1>2, <1>3
<1>6. TypeOK'
  BY <1>1, <1>3, <1>5 DEF TypeOK
<1>7. Sound(mem', gTop', trail, frames)
  <2>1. ASSUME NEW a \in Addr, mem'[a] # mem[a]
        PROVE  /\ \A i \in 1 .. Len(frames) : ~Covers(frames[i], a)
               /\ \A k \in 1 .. Len(trail) : trail[k].assigned => trail[k].saved # a
    <3>1. a = gTop
      BY <1>2, <1>3, <2>1
    <3>2. \A i \in 1 .. Len(frames) : ~Covers(frames[i], a)
      BY <1>3, <3>1, NewWords
    <3>3. \A k \in 1 .. Len(trail) : trail[k].assigned => trail[k].saved # a
      BY <1>3, <3>1, SavedBelow
    <3>. QED
      BY <3>2, <3>3
  <2>2. gTop' \in Nat /\ gTop <= gTop'
    BY <1>3
  <2>. QED
    BY <1>3, <2>1, <2>2, WriteKept DEF IInv
<1>8. Barred(gTop', mark_bar, frozen_bar, frames)
  <2>2. gTop' \in Nat /\ gTop <= gTop'
    BY <1>3
  <2>. QED
    BY <1>3, <2>2, BarsKept DEF IInv
<1>. QED
  BY <1>3, <1>6, <1>7, <1>8 DEF IInv

\* Writing a word that need not be trailed.
LEMMA UntrailedKept ==
  ASSUME IInv, NEW a \in Reachable, NEW v \in Word, ~MustTrail(a),
         mem' = [mem EXCEPT ![a] = v],
         UNCHANGED <<gTop, trail, mark_bar, frozen_bar, frames>>
  PROVE  IInv'
<1>1. TypeOK
  BY DEF IInv
<1>2. /\ a \in Addr /\ a \in Nat /\ lBase \in Nat /\ mark_bar \in Nat /\ gTop \in Nat
      /\ trail \in Seq(TrailEntry) /\ frames \in Seq(Frame) /\ mem \in [Addr -> Word]
  BY <1>1, Parts DEF Reachable, TypeOK
<1>3. a < lBase /\ a >= mark_bar
  BY <1>2 DEF MustTrail
<1>4. mem' \in [Addr -> Word]
  BY <1>2
<1>5. TypeOK'
  BY <1>1, <1>4 DEF TypeOK
<1>6. Sound(mem', gTop, trail, frames)
  <2>1. ASSUME NEW c \in Addr, mem'[c] # mem[c]
        PROVE  /\ \A i \in 1 .. Len(frames) : ~Covers(frames[i], c)
               /\ \A k \in 1 .. Len(trail) : trail[k].assigned => trail[k].saved # c
    <3>1. c = a
      BY <1>2, <2>1
    <3>2. \A i \in 1 .. Len(frames) : ~Covers(frames[i], c)
      BY <1>2, <1>3, <3>1, NewWords
    <3>3. \A k \in 1 .. Len(trail) : trail[k].assigned => trail[k].saved # c
      BY <3>1, SavedBelow
    <3>. QED
      BY <3>2, <3>3
  <2>2. gTop <= gTop
    BY <1>2
  <2>. QED
    BY <1>2, <2>1, <2>2, WriteKept DEF IInv
<1>. QED
  BY <1>5, <1>6 DEF IInv

\* Writing a word after an entry on the trail.
LEMMA TrailedKept ==
  ASSUME IInv, NEW a \in Reachable, NEW e \in TrailEntry, e.addr = a,
         trail' = Append(trail, e),
         mem' \in [Addr -> Word],
         \A c \in Addr : (c < gTop \/ c >= lBase) /\ c # a => mem'[c] = mem[c],
         ValueOf(mem', e) = mem[a],
         gTop' \in 0 .. GMax, gTop <= gTop', e.assigned => e.saved < gTop',
         UNCHANGED <<mark_bar, frozen_bar, frames>>
  PROVE  IInv'
<1>1. TypeOK
  BY DEF IInv
<1>2. /\ a \in Addr /\ lBase \in Nat /\ gTop \in Nat /\ gTop <= lBase
      /\ trail \in Seq(TrailEntry) /\ frames \in Seq(Frame) /\ frozen_bar \in Nat
  BY <1>1, Parts DEF Reachable, TypeOK
<1>3. trail' \in Seq(TrailEntry) /\ gTop' \in Nat
  BY <1>2
<1>4. TypeOK'
  BY <1>1, <1>3 DEF TypeOK
<1>5. \A k \in 1 .. Len(trail) : trail[k].assigned => trail[k].saved # e.addr
  BY SavedBelow
<1>6. Sound(mem', gTop', Append(trail, e), frames)
  BY <1>2, <1>3, <1>5, RecordKept DEF IInv
<1>7. Barred(gTop', mark_bar, frozen_bar, frames)
  BY <1>2, <1>3, BarsKept DEF IInv
<1>. QED
  BY <1>4, <1>6, <1>7 DEF IInv

\* Bind.
LEMMA BindKept ==
  ASSUME IInv, Bind
  PROVE  IInv'
<1>1. TypeOK
  BY DEF IInv
<1>2. PICK a \in Reachable, v \in Values :
        /\ mem[a] = Unbound /\ mem' = [mem EXCEPT ![a] = v]
        /\ IF MustTrail(a)
             THEN trail' = Append(trail, [addr |-> a, assigned |-> FALSE, saved |-> 0])
             ELSE UNCHANGED trail
        /\ UNCHANGED <<gTop, mark_bar, frozen_bar, frames>>
  BY DEF Bind
<1>3. /\ a \in Addr /\ v \in Word /\ mem \in [Addr -> Word]
      /\ gTop \in Nat /\ gTop \in 0 .. GMax
  BY <1>1, Parts DEF Reachable, Word, TypeOK
<1>4. CASE ~MustTrail(a)
  BY <1>2, <1>3, <1>4, UntrailedKept
<1>5. CASE MustTrail(a)
  <2>. DEFINE e == [addr |-> a, assigned |-> FALSE, saved |-> 0]
  <2>1. 0 \in Addr
    BY <1>3, SizesAssumption DEF Addr
  <2>2. e \in TrailEntry /\ e.addr = a /\ ~e.assigned
    BY <1>3, <2>1 DEF TrailEntry
  <2>3. trail' = Append(trail, e)
    BY <1>2, <1>5
  <2>. HIDE DEF e
  <2>4. ValueOf(mem', e) = mem[a]
    BY <1>2, <2>2 DEF ValueOf
  <2>5. mem' \in [Addr -> Word] /\ \A c \in Addr : c # a => mem'[c] = mem[c]
    BY <1>2, <1>3
  <2>6. gTop' \in 0 .. GMax /\ gTop <= gTop'
    BY <1>2, <1>3
  <2>. QED
    BY <1>2, <2>2, <2>3, <2>4, <2>5, <2>6, TrailedKept
<1>. QED
  BY <1>4, <1>5

\* Assign.
LEMMA AssignKept ==
  ASSUME IInv, Assign
  PROVE  IInv'
<1>1. TypeOK
  BY DEF IInv
<1>2. PICK a \in Reachable, v \in Word :
        /\ IF MustTrail(a)
             THEN /\ gTop < GMax
                  /\ trail' = Append(trail, [addr |-> a, assigned |-> TRUE, saved |-> gTop])
                  /\ mem' = [mem EXCEPT ![gTop] = mem[a], ![a] = v]
                  /\ gTop' = gTop + 1
             ELSE /\ mem' = [mem EXCEPT ![a] = v]
                  /\ UNCHANGED <<trail, gTop>>
        /\ UNCHANGED <<mark_bar, frozen_bar, frames>>
  BY DEF Assign
<1>3. /\ a \in Addr /\ a \in Nat /\ mem \in [Addr -> Word] /\ GMax \in Nat
      /\ gTop \in Nat /\ lBase = GMax
  BY <1>1, Parts DEF Reachable, TypeOK
<1>4. CASE ~MustTrail(a)
  BY <1>2, <1>4, UntrailedKept
<1>5. CASE MustTrail(a)
  <2>. DEFINE e == [addr |-> a, assigned |-> TRUE, saved |-> gTop]
  <2>0. gTop < GMax /\ gTop' = gTop + 1 /\ mem' = [mem EXCEPT ![gTop] = mem[a], ![a] = v]
    BY <1>2, <1>5
  <2>1. gTop \in Addr /\ a # gTop
    BY <1>3, <2>0, SizesAssumption DEF Addr, Reachable, Live
  <2>2. e \in TrailEntry /\ e.addr = a /\ e.assigned /\ e.saved = gTop
    BY <1>3, <2>1 DEF TrailEntry
  <2>3. trail' = Append(trail, e)
    BY <1>2, <1>5
  <2>. HIDE DEF e
  <2>4. mem' \in [Addr -> Word] /\ mem'[gTop] = mem[a]
    BY <1>2, <1>3, <2>0, <2>1
  <2>5. \A c \in Addr : (c < gTop \/ c >= lBase) /\ c # a => mem'[c] = mem[c]
    BY <1>1, <1>3, <2>0, <2>1, Parts
  <2>6. ValueOf(mem', e) = mem[a]
    BY <2>2, <2>4 DEF ValueOf
  <2>7. gTop' \in 0 .. GMax /\ gTop <= gTop' /\ e.saved < gTop'
    BY <1>3, <2>0, <2>2
  <2>. QED
    BY <1>2, <2>2, <2>3, <2>4, <2>5, <2>6, <2>7, TrailedKept
<1>. QED
  BY <1>4, <1>5

\* Only an answer frame can be on a query whose mark is discarded.
LEMMA NotDiscarded ==
  ASSUME IInv, NEW n \in 1 .. (Len(frames) - 1), frames[n + 1].kind # "answer"
  PROVE  ~Discarded(frames[n])
<1>1. n \in 1 .. Len(frames)
  BY Parts DEF IInv
<1>. QED
  BY <1>1 DEF IInv, Nested

\* Initially.
LEMMA InitKept == Init => IInv
<1>. SUFFICES ASSUME Init PROVE IInv
  OBVIOUS
<1>. DEFINE f == Mark("fli", mem, trail, 0, 0)
<1>1. /\ mem \in [Addr -> Word] /\ trail = <<>> /\ trail \in Seq(TrailEntry)
      /\ gTop = 0 /\ mark_bar = 0 /\ frozen_bar = 0 /\ frames = <<f>>
  BY DEF Init, Word
<1>2. /\ f \in Frame /\ f.kind = "fli" /\ f.state = "open" /\ f.trailtop = 0
      /\ f.globaltop = 0 /\ f.saved_bar = 0 /\ f.snap = mem
  BY <1>1 DEF Mark, Frame, Kinds, States
<1>. HIDE DEF f
<1>3. /\ frames \in Seq(Frame) /\ frames # <<>> /\ Len(frames) = 1 /\ frames[1] = f
      /\ \A i \in 1 .. Len(frames) : i = 1
  BY <1>1, <1>2
<1>4. TypeOK
  BY <1>1, <1>3, SizesAssumption DEF TypeOK
<1>5. Sound(mem, gTop, trail, frames)
  <2>1. Ordered(gTop, trail, frames) /\ SavesKept(gTop, trail, frames)
    BY <1>1, <1>2, <1>3 DEF Ordered, SavesKept
  <2>2. ASSUME NEW a \in Addr PROVE Value(mem, trail, 0, a) = mem[a]
    <3>1. Entries(trail, 0, a) = {}
      BY <1>1 DEF Entries
    <3>. QED
      BY <1>1, <3>1, ValueCases
  <2>. QED
    BY <1>2, <1>3, <2>1, <2>2 DEF Sound, AllRecover
<1>6. Barred(gTop, mark_bar, frozen_bar, frames)
  BY <1>1, <1>2, <1>3 DEF Barred
<1>7. Nested(frames)
  <2>1. ~Discarded(f)
    BY <1>2 DEF Discarded
  <2>. QED
    BY <1>2, <1>3, <2>1 DEF Nested
<1>. QED
  BY <1>4, <1>5, <1>6, <1>7 DEF IInv

\* A frame or a choice point is opened.
LEMMA PushStep ==
  ASSUME IInv, NEW kind \in {"fli", "query", "choice"}, Push(kind),
         kind = "choice" => Running
  PROVE  IInv'
<1>1. TypeOK
  BY DEF IInv
<1>2. frames \in Seq(Frame) /\ Len(frames) \in 1 .. Len(frames) /\ Top = frames[Len(frames)]
  BY <1>1, Parts DEF TypeOK
<1>3. ~Discarded(frames[Len(frames)])
  BY <1>2 DEF IInv, Nested
<1>4. /\ frames' = Append(frames, Mark(kind, mem, trail, gTop, mark_bar))
      /\ mark_bar' = gTop /\ UNCHANGED <<mem, gTop, trail, frozen_bar>>
  BY DEF Push
<1>5. kind \in Kinds /\ kind # "answer"
  BY DEF Kinds
<1>6. kind = "choice" =>
        \/ Top.kind = "choice"
        \/ Top.kind = "query" /\ frames[Len(frames)].state = "open"
  BY <1>2 DEF Running
<1>. QED
  BY <1>2, <1>3, <1>4, <1>5, <1>6, MarkKept

\* A solution.
LEMMA ExitStep ==
  ASSUME IInv, ExitQuery
  PROVE  IInv'
<1>. DEFINE n  == Len(frames)
            fs == IF Top.kind = "query" THEN [frames EXCEPT ![n].state = "last"]
                                        ELSE frames
<1>1. TypeOK
  BY DEF IInv
<1>2. /\ frames \in Seq(Frame) /\ n \in Nat /\ n \in 1 .. n /\ Top = frames[n]
      /\ \A i \in 1 .. n : frames[i] \in Frame
  BY <1>1, Parts DEF TypeOK
<1>3. /\ frames' = Append(fs, Mark("answer", mem, trail, gTop, mark_bar))
      /\ mark_bar' = gTop /\ UNCHANGED <<mem, gTop, trail, frozen_bar>>
  BY DEF ExitQuery
<1>4. Top.kind \in {"choice", "query"}
  BY DEF ExitQuery, Running
<1>5. /\ fs \in Seq(Frame) /\ Len(fs) = n
      /\ \A i \in 1 .. n :
           /\ fs[i].kind = frames[i].kind /\ fs[i].trailtop = frames[i].trailtop
           /\ fs[i].globaltop = frames[i].globaltop
           /\ fs[i].saved_bar = frames[i].saved_bar /\ fs[i].snap = frames[i].snap
           /\ i < n => fs[i].state = frames[i].state
      /\ ~Discarded(fs[n])
  <2>1. CASE Top.kind = "query"
    <3>1. [frames[n] EXCEPT !.state = "last"] \in Frame
      BY <1>2 DEF Frame, States
    <3>2. /\ fs \in Seq(Frame) /\ Len(fs) = n
          /\ \A i \in 1 .. n : i # n => fs[i] = frames[i]
          /\ fs[n] = [frames[n] EXCEPT !.state = "last"]
      BY <1>2, <2>1, <3>1
    <3>. HIDE DEF n, fs
    <3>3. /\ fs[n].kind = frames[n].kind /\ fs[n].trailtop = frames[n].trailtop
          /\ fs[n].globaltop = frames[n].globaltop
          /\ fs[n].saved_bar = frames[n].saved_bar
          /\ fs[n].snap = frames[n].snap /\ fs[n].state = "last"
      BY <1>2, <3>2 DEF Frame
    <3>4. ~Discarded(fs[n])
      BY <3>3 DEF Discarded
    <3>5. \A i \in 1 .. n : i < n => i # n
      BY <1>2
    <3>. QED
      BY <3>2, <3>3, <3>4, <3>5
  <2>2. CASE Top.kind # "query"
    <3>1. ~Discarded(frames[n])
      BY <1>2, <2>2 DEF IInv, Nested
    <3>. QED
      BY <1>2, <2>2, <3>1
  <2>. QED
    BY <2>1, <2>2
<1>. HIDE DEF fs
<1>6. "answer" \in Kinds /\ Len(fs) = Len(frames)
  BY <1>5 DEF Kinds
<1>. QED
  BY <1>3, <1>4, <1>5, <1>6, MarkKept

\* The frame on top is given up.
LEMMA PopStep ==
  ASSUME IInv, Len(frames) > 1, ~Discarded(frames[Len(frames) - 1]),
         mark_bar' = DiscardMark(Top), frames' = Pop, UNCHANGED frozen_bar,
         \/ UNCHANGED <<mem, gTop, trail>>
         \/ Undo(Top)
         \/ Undo(frames[Len(frames) - 1])
  PROVE  IInv'
<1>. DEFINE n == Len(frames) - 1
<1>1. TypeOK
  BY DEF IInv
<1>2. /\ n \in 1 .. (Len(frames) - 1) /\ Top = frames[n + 1]
      /\ n + 1 \in n .. Len(frames) /\ n \in n .. Len(frames)
  BY <1>1, Parts
<1>3. frames' = SubSeq(frames, 1, n)
  BY DEF Pop, PopTo
<1>. HIDE DEF n
<1>4. ~Discarded(frames[n]) /\ mark_bar' = DiscardMark(frames[n + 1])
  BY <1>2 DEF n
<1>5. CASE UNCHANGED <<mem, gTop, trail>>
  BY <1>2, <1>3, <1>4, <1>5, PopKept
<1>6. CASE Undo(Top)
  BY <1>2, <1>3, <1>4, <1>6, UndoPopKept
<1>7. CASE Undo(frames[Len(frames) - 1])
  BY <1>2, <1>3, <1>4, <1>7, UndoPopKept DEF n
<1>. QED
  BY <1>5, <1>6, <1>7

\* The innermost query is given up, with what is above it.
LEMMA LeaveStep ==
  ASSUME IInv, MayLeave, mark_bar' = DiscardMark(frames[Query]),
         frames' = PopTo(Query), UNCHANGED frozen_bar,
         UNCHANGED <<mem, gTop, trail>> \/ Undo(frames[Query])
  PROVE  IInv'
<1>1. TypeOK
  BY DEF IInv
<1>2. Query \in 2 .. Len(frames) /\ frames[Query].kind = "query"
  BY <1>1, QueryFound DEF IInv, TypeOK, MayLeave
<1>. DEFINE n == Query - 1
<1>3. /\ n \in 1 .. (Len(frames) - 1) /\ n + 1 = Query
      /\ n + 1 \in n .. Len(frames)
  BY <1>1, <1>2, Parts
<1>4. frames' = SubSeq(frames, 1, n)
  BY DEF PopTo
<1>. HIDE DEF n
<1>5. ~Discarded(frames[n])
  BY <1>2, <1>3, NotDiscarded
<1>6. CASE UNCHANGED <<mem, gTop, trail>>
  BY <1>3, <1>4, <1>5, <1>6, PopKept
<1>7. CASE Undo(frames[Query])
  BY <1>3, <1>4, <1>5, <1>7, UndoPopKept
<1>. QED
  BY <1>6, <1>7

\* PL_next_solution(): the answer lies on a choice point, or on the query,
\* which then is at its last solution.
LEMMA AnswerOnTop ==
  ASSUME IInv, PL_next_solution
  PROVE  /\ Len(frames) > 1 /\ ~Discarded(frames[Len(frames) - 1])
         /\ frames[Query].state = "last" => Query = Len(frames) - 1
         /\ Query \in 1 .. Len(frames)
<1>1. TypeOK
  BY DEF IInv
<1>2. /\ Query \in 2 .. Len(frames)
      /\ Query < Len(frames)
      /\ Query < Len(frames) - 1 =>
           frames[Len(frames) - 1].kind = "choice" /\ frames[Query].state = "open"
  BY <1>1, QueryFound DEF IInv, TypeOK, PL_next_solution
<1>3. Len(frames) \in Nat
  BY <1>1, Parts
<1>4. CASE Query < Len(frames) - 1
  <2>1. Len(frames) - 1 \in 1 .. Len(frames) /\ Len(frames) > 1
    BY <1>2, <1>3
  <2>2. ~Discarded(frames[Len(frames) - 1])
    BY <1>2, <1>4, <2>1 DEF IInv, Nested
  <2>. QED
    BY <1>2, <1>4, <2>1, <2>2
<1>5. CASE ~(Query < Len(frames) - 1)
  <2>1. Query = Len(frames) - 1 /\ Len(frames) > 1
    BY <1>2, <1>3, <1>5
  <2>2. ~Discarded(frames[Query])
    BY DEF PL_next_solution, Discarded
  <2>. QED
    BY <1>2, <2>1, <2>2
<1>. QED
  BY <1>4, <1>5

\* C_CUT gives up at least one choice point, and never the base frame.
LEMMA CutFrames ==
  ASSUME IInv, Cut
  PROVE  \E n \in 1 .. (Len(frames) - 1) :
           /\ ~Discarded(frames[n]) /\ mark_bar' = DiscardMark(frames[n + 1])
           /\ frames' = SubSeq(frames, 1, n)
<1>1. TypeOK
  BY DEF IInv
<1>2. PICK k \in 1 .. Len(frames) :
        /\ \A i \in k .. Len(frames) : frames[i].kind = "choice"
        /\ mark_bar' = DiscardMark(frames[k]) /\ frames' = PopTo(k)
  BY DEF Cut
<1>3. Len(frames) \in Nat /\ k \in k .. Len(frames)
  BY <1>1, Parts
<1>4. frames[k].kind = "choice"
  BY <1>2, <1>3
<1>5. k # 1
  BY <1>4 DEF IInv, Nested
<1>. DEFINE n == k - 1
<1>6. n \in 1 .. (Len(frames) - 1) /\ n + 1 = k
  BY <1>3, <1>5
<1>7. frames' = SubSeq(frames, 1, n)
  BY <1>2 DEF PopTo
<1>. HIDE DEF n
<1>8. ~Discarded(frames[n])
  BY <1>4, <1>6, NotDiscarded
<1>. QED
  BY <1>2, <1>6, <1>7, <1>8

\* FailQuery and RaiseFromQuery leave a query.
LEMMA LeavesQuery ==
  ASSUME IInv, FailQuery \/ RaiseFromQuery
  PROVE  \E q \in 2 .. Len(frames), state \in {"failed", "exception"} :
           frames[q].kind = "query" /\ LeaveUndone(q, state)
<1>1. TypeOK
  BY DEF IInv
<1>2. CASE FailQuery
  <2>1. Top.kind = "query" /\ LeaveUndone(Len(frames), "failed")
    BY <1>2 DEF FailQuery
  <2>2. Query \in 2 .. Len(frames) /\ Query = Len(frames) /\ frames[Query].kind = "query"
    BY <1>1, <2>1, QueryFound DEF IInv, TypeOK
  <2>. QED
    BY <2>1, <2>2
<1>3. CASE RaiseFromQuery
  <2>1. LeaveUndone(Query, "exception") /\ Top.kind \in {"query", "choice"}
    BY <1>3 DEF RaiseFromQuery, Running
  <2>2. Query \in 2 .. Len(frames) /\ frames[Query].kind = "query"
    BY <1>1, <2>1, QueryFound DEF IInv, TypeOK
  <2>. QED
    BY <2>1, <2>2
<1>. QED
  BY <1>2, <1>3

\* A foreign frame or a choice point that is closed lies on no query whose
\* mark is discarded.
LEMMA TopFrame ==
  ASSUME IInv, InForeignFrame \/ Top.kind = "choice"
  PROVE  Len(frames) > 1 /\ ~Discarded(frames[Len(frames) - 1])
<1>1. TypeOK
  BY DEF IInv
<1>2. Len(frames) \in Nat /\ Len(frames) >= 1 /\ Top = frames[Len(frames)]
  BY <1>1, Parts
<1>3. Len(frames) > 1 /\ Top.kind # "answer"
  BY <1>2 DEF InForeignFrame, IInv, Nested
<1>. DEFINE n == Len(frames) - 1
<1>4. n \in 1 .. (Len(frames) - 1) /\ n + 1 = Len(frames)
  BY <1>2, <1>3
<1>. HIDE DEF n
<1>5. ~Discarded(frames[n])
  BY <1>2, <1>3, <1>4, NotDiscarded
<1>. QED
  BY <1>3, <1>5 DEF n

\* Every step keeps the invariant.
LEMMA StepKept ==
  ASSUME IInv, [Next]_vars
  PROVE  IInv'
<1>1. CASE AllocGlobal
  BY <1>1, AllocKept
<1>2. CASE Bind
  BY <1>2, BindKept
<1>3. CASE Assign
  BY <1>3, AssignKept
<1>4. CASE FreezeGlobal
  BY <1>4, FreezeKept
<1>5. CASE PL_open_foreign_frame
  BY <1>5, PushStep DEF PL_open_foreign_frame
<1>6. CASE PL_close_foreign_frame
  BY <1>6, TopFrame, PopStep DEF PL_close_foreign_frame
<1>7. CASE PL_rewind_foreign_frame
  BY <1>7, RewindKept DEF PL_rewind_foreign_frame
<1>8. CASE PL_discard_foreign_frame
  BY <1>8, TopFrame, PopStep DEF PL_discard_foreign_frame
<1>9. CASE PL_open_query
  BY <1>9, PushStep DEF PL_open_query
<1>10. CASE NewChoice
  BY <1>10, PushStep DEF NewChoice
<1>11. CASE Backtrack
  BY <1>11, TopFrame, PopStep DEF Backtrack
<1>12. CASE Cut
  <2>1. UNCHANGED <<mem, gTop, trail, frozen_bar>>
    BY <1>12 DEF Cut
  <2>. QED
    BY <1>12, <2>1, CutFrames, PopKept
<1>13. CASE ExitQuery
  BY <1>13, ExitStep
<1>14. CASE FailQuery \/ RaiseFromQuery
  BY <1>14, LeavesQuery, LeaveKept
<1>15. CASE PL_next_solution
  BY <1>15, AnswerOnTop, PopStep DEF PL_next_solution
<1>16. CASE PL_cut_query
  BY <1>16, LeaveStep DEF PL_cut_query
<1>17. CASE PL_close_query
  BY <1>17, LeaveStep DEF PL_close_query
<1>18. CASE UNCHANGED vars
  BY <1>18 DEF vars, IInv, TypeOK
<1>. QED
  BY <1>1, <1>2, <1>3, <1>4, <1>5, <1>6, <1>7, <1>8, <1>9, <1>10, <1>11, <1>12,
     <1>13, <1>14, <1>15, <1>16, <1>17, <1>18 DEF Next

\* The invariant of the stacks, for stacks and trails of any size and any
\* number of marks.
THEOREM Invariant == Spec => []IInv
<1>1. Init => IInv
  BY InitKept
<1>2. IInv /\ [Next]_vars => IInv'
  BY StepKept
<1>. QED
  BY <1>1, <1>2, PTL DEF Spec

\* The variables have their types, and the stacks stay within their bounds.
THEOREM TypeCorrect == Spec => []TypeOK
<1>1. IInv => TypeOK
  BY DEF IInv
<1>. QED
  BY <1>1, Invariant, PTL

\* The assertions of Mark(), DiscardMark() and __do_undo(): no order of
\* frames, queries, choice points and freezeGlobal() takes a bar above the
\* top of the global stack.
THEOREM BarsCorrect == Spec => []BarsInStack
<1>1. IInv => BarsInStack
  BY BarsBounded
<1>. QED
  BY <1>1, Invariant, PTL

\* Conditional trailing loses nothing: every mark that is set can be undone,
\* and each word it covers then has the value it had.
THEOREM NothingLost == Spec => []Recoverable
<1>1. ASSUME IInv PROVE Recoverable
  <2>1. TypeOK
    BY <1>1 DEF IInv
  <2>2. ASSUME NEW i \in 1 .. Len(frames), NEW a \in Addr,
               a < frames[i].globaltop \/ a >= lBase
        PROVE  Undone(frames[i])[a] = frames[i].snap[a]
    <3>1. /\ UndoneTop(frames[i]) >= frames[i].globaltop
          /\ UndoneTop(frames[i]) \in Nat
          /\ a < UndoneTop(frames[i]) \/ a >= lBase =>
               Undone(frames[i])[a] = Value(mem, trail, frames[i].trailtop, a)
      BY <1>1, UndoResult
    <3>2. frames[i].globaltop \in Nat /\ a \in Nat
      BY <2>1, Parts
    <3>3. Undone(frames[i])[a] = Value(mem, trail, frames[i].trailtop, a)
      BY <2>2, <3>1, <3>2
    <3>4. Covers(frames[i], a)
      BY <2>2 DEF Covers
    <3>. QED
      BY <1>1, <3>3, <3>4 DEF IInv, Sound, AllRecover
  <2>. QED
    BY <2>2 DEF Recoverable
<1>. QED
  BY <1>1, Invariant, PTL

(***************************************************************************)
(* The engine implements the store that copies and copies back.            *)
(***************************************************************************)

CopyOf(f) == [top |-> f.globaltop, snap |-> f.snap]

CopiesOf(fs) == [i \in 1 .. Len(fs) |-> CopyOf(fs[i])]

CopyType == [top : Nat, snap : [Addr -> Word]]

\* The copies are a sequence, one for each mark.
LEMMA CopiesType ==
  ASSUME NEW fs \in Seq(Frame)
  PROVE  /\ CopiesOf(fs) \in Seq(CopyType) /\ Len(CopiesOf(fs)) = Len(fs)
         /\ \A i \in 1 .. Len(fs) : CopiesOf(fs)[i] = CopyOf(fs[i])
<1>1. Len(fs) \in Nat /\ \A i \in 1 .. Len(fs) : fs[i] \in Frame
  OBVIOUS
<1>2. \A i \in 1 .. Len(fs) : CopyOf(fs[i]) \in CopyType
  BY <1>1 DEF Frame, CopyType, CopyOf
<1>3. CopiesOf(fs) \in Seq(CopyType) /\ Len(CopiesOf(fs)) = Len(fs)
  BY <1>1, <1>2 DEF CopiesOf
<1>4. \A i \in 1 .. Len(fs) : CopiesOf(fs)[i] = CopyOf(fs[i])
  BY DEF CopiesOf
<1>. QED
  BY <1>3, <1>4

\* Sequences that agree everywhere are equal.
LEMMA SameSequence ==
  ASSUME NEW S, NEW s \in Seq(S), NEW r \in Seq(S), Len(s) = Len(r),
         \A i \in 1 .. Len(r) : s[i] = r[i]
  PROVE  s = r
OBVIOUS

\* The copies do not depend on the state of what holds a mark.
LEMMA CopiesSame ==
  ASSUME NEW fs \in Seq(Frame), NEW hs \in Seq(Frame), Len(hs) = Len(fs),
         \A i \in 1 .. Len(fs) :
           hs[i].globaltop = fs[i].globaltop /\ hs[i].snap = fs[i].snap
  PROVE  CopiesOf(hs) = CopiesOf(fs)
BY DEF CopiesOf, CopyOf

\* The copies after the marks from the (n+1)-st on were given up.
LEMMA CopiesPopped ==
  ASSUME NEW fs \in Seq(Frame), NEW n \in 0 .. Len(fs)
  PROVE  CopiesOf(SubSeq(fs, 1, n)) = SubSeq(CopiesOf(fs), 1, n)
<1>. DEFINE hs == SubSeq(fs, 1, n)
            cs == CopiesOf(fs)
            ds == CopiesOf(hs)
<1>1. /\ hs \in Seq(Frame) /\ Len(hs) = n
      /\ \A i \in 1 .. n : i \in 1 .. Len(fs) /\ hs[i] = fs[i]
  OBVIOUS
<1>. HIDE DEF hs
<1>2. /\ cs \in Seq(CopyType) /\ Len(cs) = Len(fs)
      /\ \A i \in 1 .. Len(fs) : cs[i] = CopyOf(fs[i])
  BY CopiesType
<1>3. /\ ds \in Seq(CopyType) /\ Len(ds) = n
      /\ \A i \in 1 .. n : ds[i] = CopyOf(hs[i])
  BY <1>1, CopiesType
<1>. HIDE DEF cs, ds
<1>4. /\ SubSeq(cs, 1, n) \in Seq(CopyType) /\ Len(SubSeq(cs, 1, n)) = n
      /\ \A i \in 1 .. n : SubSeq(cs, 1, n)[i] = cs[i]
  BY <1>2
<1>5. \A i \in 1 .. n : ds[i] = SubSeq(cs, 1, n)[i]
  BY <1>1, <1>2, <1>3, <1>4
<1>6. ds = SubSeq(cs, 1, n)
  BY <1>3, <1>4, <1>5, SameSequence
<1>. QED
  BY <1>6 DEF cs, ds, hs

\* The copies after a mark was set.
LEMMA CopiesPushed ==
  ASSUME NEW fs \in Seq(Frame), NEW f \in Frame
  PROVE  CopiesOf(Append(fs, f)) = Append(CopiesOf(fs), CopyOf(f))
<1>. DEFINE hs == Append(fs, f)
            cs == CopiesOf(fs)
            ds == CopiesOf(hs)
            es == Append(cs, CopyOf(f))
<1>1. /\ hs \in Seq(Frame) /\ Len(hs) = Len(fs) + 1 /\ hs[Len(fs) + 1] = f
      /\ \A i \in 1 .. Len(fs) : hs[i] = fs[i]
      /\ Len(fs) \in Nat
  OBVIOUS
<1>. HIDE DEF hs
<1>2. /\ cs \in Seq(CopyType) /\ Len(cs) = Len(fs)
      /\ \A i \in 1 .. Len(fs) : cs[i] = CopyOf(fs[i])
  BY CopiesType
<1>3. /\ ds \in Seq(CopyType) /\ Len(ds) = Len(fs) + 1
      /\ \A i \in 1 .. (Len(fs) + 1) : ds[i] = CopyOf(hs[i])
  BY <1>1, CopiesType
<1>4. CopyOf(f) \in CopyType
  BY DEF CopyOf, CopyType, Frame
<1>. HIDE DEF cs, ds
<1>5. /\ es \in Seq(CopyType) /\ Len(es) = Len(fs) + 1 /\ es[Len(fs) + 1] = CopyOf(f)
      /\ \A i \in 1 .. Len(fs) : es[i] = cs[i]
  BY <1>2, <1>4
<1>. HIDE DEF es
<1>6. \A i \in 1 .. (Len(fs) + 1) : i \in 1 .. Len(fs) \/ i = Len(fs) + 1
  BY <1>1
<1>7. \A i \in 1 .. (Len(fs) + 1) : ds[i] = es[i]
  BY <1>1, <1>2, <1>3, <1>5, <1>6
<1>8. ds = es
  BY <1>3, <1>5, <1>7, SameSequence
<1>. QED
  BY <1>8 DEF cs, ds, es, hs

\* Copies in these terms.
LEMMA CopiesAre == Copies = CopiesOf(frames) /\ Copies' = CopiesOf(frames')
BY DEF Copies, CopiesOf, CopyOf

\* What a copy holds.
LEMMA CopyFields ==
  ASSUME TypeOK, NEW i \in 1 .. Len(frames)
  PROVE  /\ Len(Copies) = Len(frames)
         /\ Copies[i].top = frames[i].globaltop /\ Copies[i].snap = frames[i].snap
<1>1. frames \in Seq(Frame)
  BY DEF TypeOK
<1>2. Len(CopiesOf(frames)) = Len(frames) /\ CopiesOf(frames)[i] = CopyOf(frames[i])
  BY <1>1, CopiesType
<1>3. CopyOf(frames[i]).top = frames[i].globaltop /\ CopyOf(frames[i]).snap = frames[i].snap
  BY DEF CopyOf
<1>. QED
  BY <1>2, <1>3, CopiesAre

\* Undoing a mark puts back what its copy holds.
LEMMA PutBack ==
  ASSUME IInv, NEW i \in 1 .. Len(frames), Undo(frames[i])
  PROVE  /\ gTop' >= Copies[i].top
         /\ \A a \in Store!Existed(Copies[i].top) : mem'[a] = Copies[i].snap[a]
<1>1. TypeOK
  BY DEF IInv
<1>2. /\ gTop' >= frames[i].globaltop /\ gTop' \in Nat
      /\ \A a \in Addr : a < gTop' \/ a >= lBase =>
           mem'[a] = Value(mem, trail, frames[i].trailtop, a)
  BY UndoResult DEF Undo
<1>3. frames[i].globaltop \in Nat /\ \A a \in Addr : a \in Nat
  BY <1>1, Parts
<1>4. ASSUME NEW a \in Addr, a < frames[i].globaltop \/ a >= lBase
      PROVE  mem'[a] = frames[i].snap[a]
  <2>1. mem'[a] = Value(mem, trail, frames[i].trailtop, a)
    BY <1>2, <1>3, <1>4
  <2>2. Covers(frames[i], a)
    BY <1>4 DEF Covers
  <2>. QED
    BY <2>1, <2>2 DEF IInv, Sound, AllRecover
<1>5. Copies[i].top = frames[i].globaltop /\ Copies[i].snap = frames[i].snap
  BY <1>1, CopyFields
<1>. QED
  BY <1>2, <1>4, <1>5 DEF Store!Existed

\* Writing to the stacks changes one word of what exists.
LEMMA WritesOne ==
  ASSUME IInv, AllocGlobal \/ Bind \/ Assign
  PROVE  Store!Write
<1>1. TypeOK
  BY DEF IInv
<1>2. /\ mem \in [Addr -> Word] /\ gTop \in Nat /\ lBase = GMax /\ GMax \in Nat
      /\ \A a \in Addr : a \in Nat
  BY <1>1, Parts DEF TypeOK
<1>3. UNCHANGED Copies
  BY DEF AllocGlobal, Bind, Assign, Copies
<1>4. CASE AllocGlobal
  <2>1. PICK v \in Word : mem' = [mem EXCEPT ![gTop] = v]
    BY <1>4 DEF AllocGlobal
  <2>2. \A a \in Store!Existed(gTop) : a # gTop => mem'[a] = mem[a]
    BY <1>2, <2>1 DEF Store!Existed
  <2>3. gTop' \in {gTop, gTop + 1}
    BY <1>4 DEF AllocGlobal
  <2>. QED
    BY <1>3, <2>2, <2>3 DEF Store!Write
<1>5. CASE Bind \/ Assign
  <2>1. PICK a \in Reachable :
          /\ \A c \in Addr : c # a /\ c # gTop => mem'[c] = mem[c]
          /\ gTop' = gTop => \A c \in Addr : c # a => mem'[c] = mem[c]
          /\ gTop' = gTop \/ (gTop' = gTop + 1 /\ gTop < GMax)
    <3>1. CASE Bind
      <4>1. PICK a \in Reachable, v \in Values :
              mem' = [mem EXCEPT ![a] = v] /\ gTop' = gTop
        BY <3>1 DEF Bind
      <4>. QED
        BY <1>2, <4>1
    <3>2. CASE Assign
      <4>1. PICK a \in Reachable, v \in Word :
              \/ /\ mem' = [mem EXCEPT ![gTop] = mem[a], ![a] = v]
                 /\ gTop' = gTop + 1 /\ gTop < GMax
              \/ mem' = [mem EXCEPT ![a] = v] /\ gTop' = gTop
        BY <3>2 DEF Assign
      <4>2. \A c \in Addr : c # a /\ c # gTop => mem'[c] = mem[c]
        BY <1>2, <4>1
      <4>3. gTop' = gTop => \A c \in Addr : c # a => mem'[c] = mem[c]
        BY <1>2, <4>1
      <4>. QED
        BY <4>1, <4>2, <4>3
    <3>. QED
      BY <1>5, <3>1, <3>2
  <2>2. a \in Store!Existed(gTop)
    BY DEF Reachable, Live, Store!Existed
  <2>3. \A c \in Store!Existed(gTop) : c # a => mem'[c] = mem[c]
    <3>1. CASE gTop' = gTop
      BY <2>1, <3>1 DEF Store!Existed
    <3>2. CASE gTop' = gTop + 1 /\ gTop < GMax
      <4>1. \A c \in Store!Existed(gTop) : c \in Addr /\ c # gTop
        BY <1>2, <3>2 DEF Store!Existed
      <4>. QED
        BY <2>1, <4>1
    <3>. QED
      BY <2>1, <3>1, <3>2
  <2>4. gTop' \in {gTop, gTop + 1}
    BY <2>1
  <2>. QED
    BY <1>3, <2>2, <2>3, <2>4 DEF Store!Write
<1>. QED
  BY <1>4, <1>5

\* Setting a mark saves a copy.
LEMMA Saves ==
  ASSUME IInv, NEW fs \in Seq(Frame), CopiesOf(fs) = Copies, NEW kind \in Kinds,
         frames' = Append(fs, Mark(kind, mem, trail, gTop, mark_bar)),
         UNCHANGED <<mem, gTop>>
  PROVE  Store!Save
<1>1. TypeOK
  BY DEF IInv
<1>. DEFINE f == Mark(kind, mem, trail, gTop, mark_bar)
<1>2. f \in Frame /\ CopyOf(f) = [top |-> gTop, snap |-> mem]
  BY <1>1, Parts DEF Mark, Frame, States, TypeOK, CopyOf
<1>. HIDE DEF f
<1>3. Copies' = Append(Copies, [top |-> gTop, snap |-> mem])
  BY <1>2, CopiesPushed, CopiesAre DEF f
<1>. QED
  BY <1>3 DEF Store!Save, Store!Copy

\* Giving up marks forgets their copies.
LEMMA Forgets ==
  ASSUME IInv, NEW n \in 1 .. Len(frames), frames' = SubSeq(frames, 1, n),
         UNCHANGED <<mem, gTop>>
  PROVE  Store!Forget
<1>1. TypeOK
  BY DEF IInv
<1>2. frames \in Seq(Frame) /\ n \in 0 .. Len(frames)
  BY <1>1 DEF TypeOK
<1>3. Copies' = SubSeq(Copies, 1, n) /\ n \in 1 .. Len(Copies)
  BY <1>1, <1>2, CopiesPopped, CopiesAre, CopyFields
<1>. QED
  BY <1>3 DEF Store!Forget

\* Undoing mark i puts its copy back; the mark is kept or given up.
LEMMA Restores ==
  ASSUME IInv, NEW i \in 1 .. Len(frames), Undo(frames[i]),
         NEW n \in {i - 1, i}, frames' = SubSeq(frames, 1, n)
  PROVE  Store!Restore
<1>1. TypeOK
  BY DEF IInv
<1>2. frames \in Seq(Frame) /\ n \in 0 .. Len(frames) /\ Len(frames) \in Nat
  BY <1>1, Parts DEF TypeOK
<1>3. Copies' = SubSeq(Copies, 1, n) /\ i \in 1 .. Len(Copies)
  BY <1>1, <1>2, CopiesPopped, CopiesAre, CopyFields
<1>4. /\ gTop' >= Copies[i].top
      /\ \A a \in Store!Existed(Copies[i].top) : mem'[a] = Copies[i].snap[a]
  BY PutBack
<1>5. Copies' \in {SubSeq(Copies, 1, i - 1), SubSeq(Copies, 1, i)}
  BY <1>3
<1>. QED
  BY <1>3, <1>4, <1>5 DEF Store!Restore

\* Leaving a query without a solution puts its copy back and saves another.
LEMMA LeaveRestores ==
  ASSUME IInv, IInv', NEW q \in 2 .. Len(frames),
         NEW state \in {"failed", "exception"}, LeaveUndone(q, state)
  PROVE  Store!Restore
<1>. DEFINE b  == frames[q]
            ps == SubSeq(frames, 1, q)
            hs == [ps EXCEPT ![q].state = state]
            f  == Mark("answer", mem', trail', gTop', DiscardMark(b))
<1>1. TypeOK /\ TypeOK'
  BY DEF IInv
<1>2. frames \in Seq(Frame) /\ q \in 1 .. Len(frames) /\ Len(frames) \in Nat
      /\ b \in Frame /\ b.saved_bar \in Nat
  BY <1>1, Parts DEF TypeOK
<1>3. /\ ps \in Seq(Frame) /\ Len(ps) = q /\ q \in 1 .. q /\ q \in 0 .. Len(frames)
      /\ \A i \in 1 .. q : ps[i] \in Frame
  <2>. HIDE DEF b
  <2>. QED
    BY <1>2
<1>4. frames' = Append(hs, f) /\ Undo(b)
  <2>1. (q + 1) - 1 = q
    BY <1>2
  <2>. QED
    BY <2>1 DEF LeaveUndone, PopTo
<1>. HIDE DEF ps
<1>5. /\ hs \in Seq(Frame) /\ Len(hs) = Len(ps)
      /\ \A i \in 1 .. Len(ps) : hs[i].globaltop = ps[i].globaltop /\ hs[i].snap = ps[i].snap
  <2>1. [ps[q] EXCEPT !.state = state] \in Frame
    BY <1>2, <1>3 DEF Frame, States
  <2>2. /\ hs \in Seq(Frame) /\ Len(hs) = q
        /\ \A i \in 1 .. q : i # q => hs[i] = ps[i]
        /\ hs[q] = [ps[q] EXCEPT !.state = state]
    BY <1>2, <1>3, <2>1
  <2>. HIDE DEF hs
  <2>3. hs[q].globaltop = ps[q].globaltop /\ hs[q].snap = ps[q].snap
    BY <1>2, <1>3, <2>2 DEF Frame
  <2>. QED
    BY <1>3, <2>2, <2>3
<1>. HIDE DEF hs
<1>6. CopiesOf(hs) = SubSeq(Copies, 1, q)
  <2>1. CopiesOf(hs) = CopiesOf(ps)
    BY <1>3, <1>5, CopiesSame
  <2>2. CopiesOf(ps) = SubSeq(CopiesOf(frames), 1, q)
    BY <1>2, <1>3, CopiesPopped DEF ps
  <2>. QED
    BY <2>1, <2>2, CopiesAre
<1>7. f \in Frame /\ CopyOf(f) = [top |-> gTop', snap |-> mem']
  <2>1. DiscardMark(b) \in Nat
    BY <1>1, <1>2 DEF DiscardMark, Max2, TypeOK
  <2>2. mem' \in [Addr -> Word] /\ trail' \in Seq(TrailEntry) /\ gTop' \in 0 .. GMax
    BY <1>1 DEF TypeOK
  <2>3. gTop' \in Nat /\ Len(trail') \in Nat
    BY <2>2, SizesAssumption
  <2>. QED
    BY <2>1, <2>2, <2>3 DEF Mark, Frame, Kinds, States, CopyOf
<1>. HIDE DEF f
<1>8. Copies' = Append(SubSeq(Copies, 1, q), [top |-> gTop', snap |-> mem'])
  <2>1. CopiesOf(Append(hs, f)) = Append(CopiesOf(hs), CopyOf(f))
    BY <1>5, <1>7, CopiesPushed
  <2>. QED
    BY <1>4, <1>6, <1>7, <2>1, CopiesAre
<1>9. /\ gTop' >= Copies[q].top
      /\ \A a \in Store!Existed(Copies[q].top) : mem'[a] = Copies[q].snap[a]
  BY <1>2, <1>4, PutBack
<1>10. q \in 1 .. Len(Copies)
  BY <1>1, <1>2, CopyFields
<1>. QED
  BY <1>8, <1>9, <1>10 DEF Store!Restore, Store!Copy

\* Every step of the engine is a step of the store, or leaves it as it is.
LEMMA StoreStep ==
  ASSUME IInv, IInv', [Next]_vars
  PROVE  [Store!Next]_Store!vars
<1>. DEFINE n == Len(frames)
<1>1. TypeOK
  BY DEF IInv
<1>2. /\ frames \in Seq(Frame) /\ n \in Nat /\ n \in 1 .. n /\ Top = frames[n]
      /\ frames = SubSeq(frames, 1, n)
  BY <1>1, Parts DEF TypeOK
<1>3. CASE AllocGlobal \/ Bind \/ Assign
  BY <1>3, WritesOne DEF Store!Next
<1>4. CASE FreezeGlobal \/ UNCHANGED vars
  BY <1>4 DEF FreezeGlobal, vars, Copies, Store!vars
<1>5. CASE PL_open_foreign_frame \/ PL_open_query \/ NewChoice
  <2>1. PICK kind \in Kinds : Push(kind)
    BY <1>5 DEF PL_open_foreign_frame, PL_open_query, NewChoice, Kinds
  <2>. QED
    BY <1>2, <2>1, CopiesAre, Saves DEF Push, Store!Next
<1>6. CASE ExitQuery
  <2>. DEFINE fs == IF Top.kind = "query" THEN [frames EXCEPT ![n].state = "last"]
                                          ELSE frames
  <2>1. /\ frames' = Append(fs, Mark("answer", mem, trail, gTop, mark_bar))
        /\ UNCHANGED <<mem, gTop>>
    BY <1>6 DEF ExitQuery
  <2>2. fs \in Seq(Frame) /\ CopiesOf(fs) = CopiesOf(frames)
    <3>1. CASE Top.kind = "query"
      <4>0. frames[n] \in Frame
        BY <1>2
      <4>1. [frames[n] EXCEPT !.state = "last"] \in Frame
        BY <4>0 DEF Frame, States
      <4>2. /\ fs \in Seq(Frame) /\ Len(fs) = Len(frames)
            /\ \A i \in 1 .. Len(frames) : i # n => fs[i] = frames[i]
            /\ fs[n] = [frames[n] EXCEPT !.state = "last"]
        BY <1>2, <3>1, <4>1
      <4>. HIDE DEF n, fs
      <4>3. fs[n].globaltop = frames[n].globaltop /\ fs[n].snap = frames[n].snap
        BY <4>0, <4>2 DEF Frame
      <4>4. \A i \in 1 .. Len(frames) :
              fs[i].globaltop = frames[i].globaltop /\ fs[i].snap = frames[i].snap
        BY <4>2, <4>3
      <4>. QED
        BY <1>2, <4>2, <4>4, CopiesSame
    <3>2. CASE Top.kind # "query"
      BY <1>2, <3>2
    <3>. QED
      BY <3>1, <3>2
  <2>. HIDE DEF fs
  <2>3. "answer" \in Kinds
    BY DEF Kinds
  <2>. QED
    BY <2>1, <2>2, <2>3, CopiesAre, Saves DEF Store!Next
<1>7. CASE PL_close_foreign_frame
  <2>1. n > 1 /\ frames' = SubSeq(frames, 1, n - 1) /\ UNCHANGED <<mem, gTop>>
    BY <1>7 DEF PL_close_foreign_frame, InForeignFrame, Pop, PopTo
  <2>2. n - 1 \in 1 .. Len(frames)
    BY <1>2, <2>1
  <2>. QED
    BY <2>1, <2>2, Forgets DEF Store!Next
<1>8. CASE PL_rewind_foreign_frame
  <2>1. Undo(frames[n]) /\ frames' = SubSeq(frames, 1, n)
    BY <1>2, <1>8 DEF PL_rewind_foreign_frame
  <2>. QED
    BY <1>2, <2>1, Restores DEF Store!Next
<1>9. CASE PL_discard_foreign_frame \/ Backtrack
  <2>1. Undo(frames[n]) /\ frames' = SubSeq(frames, 1, n - 1)
    BY <1>2, <1>9 DEF PL_discard_foreign_frame, Backtrack, Pop, PopTo
  <2>. QED
    BY <1>2, <2>1, Restores DEF Store!Next
<1>10. CASE Cut
  <2>1. PICK k \in 1 .. (Len(frames) - 1) : frames' = SubSeq(frames, 1, k)
    BY <1>10, CutFrames
  <2>2. UNCHANGED <<mem, gTop>> /\ k \in 1 .. Len(frames)
    BY <1>2, <1>10 DEF Cut
  <2>. QED
    BY <2>1, <2>2, Forgets DEF Store!Next
<1>11. CASE FailQuery \/ RaiseFromQuery
  BY <1>11, LeavesQuery, LeaveRestores DEF Store!Next
<1>12. CASE PL_next_solution
  <2>1. frames' = SubSeq(frames, 1, n - 1)
    BY <1>12 DEF PL_next_solution, Pop, PopTo
  <2>2. n > 1 /\ (frames[Query].state = "last" => Query = n - 1)
    BY <1>12, AnswerOnTop
  <2>3. n - 1 \in 1 .. Len(frames)
    BY <1>2, <2>2
  <2>4. CASE frames[Query].state = "last"
    <3>1. Undo(frames[n - 1])
      BY <1>12, <2>2, <2>4 DEF PL_next_solution
    <3>. QED
      BY <2>1, <2>3, <3>1, Restores DEF Store!Next
  <2>5. CASE frames[Query].state # "last"
    <3>1. UNCHANGED <<mem, gTop>>
      BY <1>12, <2>5 DEF PL_next_solution
    <3>. QED
      BY <2>1, <2>3, <3>1, Forgets DEF Store!Next
  <2>. QED
    BY <2>4, <2>5
<1>13. CASE PL_cut_query \/ PL_close_query
  <2>1. Query \in 2 .. Len(frames)
    BY <1>1, <1>13, QueryFound DEF IInv, TypeOK, PL_cut_query, PL_close_query, MayLeave
  <2>2. /\ frames' = SubSeq(frames, 1, Query - 1)
        /\ UNCHANGED <<mem, gTop>> \/ Undo(frames[Query])
    BY <1>13 DEF PL_cut_query, PL_close_query, PopTo
  <2>3. Query - 1 \in 1 .. Len(frames) /\ Query \in 1 .. Len(frames)
    BY <1>2, <2>1
  <2>4. CASE UNCHANGED <<mem, gTop>>
    BY <2>2, <2>3, <2>4, Forgets DEF Store!Next
  <2>5. CASE Undo(frames[Query])
    BY <2>2, <2>3, <2>5, Restores DEF Store!Next
  <2>. QED
    BY <2>2, <2>4, <2>5
<1>. QED
  BY <1>3, <1>4, <1>5, <1>6, <1>7, <1>8, <1>9, <1>10, <1>11, <1>12, <1>13 DEF Next

\* The first copy is the base frame's.
LEMMA StoreInit == Init => Store!Init
<1>. SUFFICES ASSUME Init PROVE Store!Init
  OBVIOUS
<1>1. TypeOK /\ mem \in [Addr -> Word] /\ gTop = 0
  BY InitKept DEF IInv, TypeOK, Init
<1>. DEFINE f == Mark("fli", mem, trail, 0, 0)
<1>2. frames = <<f>> /\ CopyOf(f) = [top |-> 0, snap |-> mem]
  BY DEF Init, Mark, CopyOf
<1>. HIDE DEF f
<1>3. Copies = <<CopyOf(f)>>
  <2>1. CopiesOf(frames) = [i \in 1 .. 1 |-> CopyOf(f)]
    BY <1>2 DEF CopiesOf
  <2>. QED
    BY <2>1, CopiesAre
<1>. QED
  BY <1>1, <1>2, <1>3 DEF Store!Init, Store!Copy

\* The engine implements the store: conditional trailing and the bars give
\* every C function and every solution what copying the whole memory and
\* copying it back would give.
THEOREM Refinement == Spec => ImplementsStore
<1>1. Init => Store!Init
  BY StoreInit
<1>2. IInv /\ IInv' /\ [Next]_vars => [Store!Next]_Store!vars
  BY StoreStep
<1>. QED
  BY <1>1, <1>2, Invariant, PTL DEF Spec, ImplementsStore, Store!Spec

=============================================================================
