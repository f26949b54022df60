------------------------- MODULE BufferManagerProofs -------------------------
(***************************************************************************)
(* What is proved of the buffer manager for rings, lists, blocks and       *)
(* limits of every size.                                                   *)
(*                                                                         *)
(* The proof goes in four layers.  The arithmetic of the ring: the window  *)
(* from head to tail as a list, and what setting, adding and freeing a     *)
(* slot at an end does to that list, around the end of the slice too.      *)
(* The sum of a list of sizes.  The operations: each one, in each mode,    *)
(* does to the list ForEach what the list operation of its name does.      *)
(* The invariant Inv, which relates that list to the counters.  The ring   *)
(* conditions are part of it because a push decides by two nil slots that  *)
(* the ring is empty, and the bound of the used mark because the size of a *)
(* block would go below zero without it.                                   *)
(*                                                                         *)
(* The last part shows that the manager implements BlockDeque.             *)
(***************************************************************************)
EXTENDS BufferManager, FiniteSetTheorems, TLAPS

-----------------------------------------------------------------------------
(* Around the ring.                                                        *)

\* A ring of L slots: the number of slots from head to tail, and the blocks in
\* them in order.
RingCount(L, h, t) == IF t >= h THEN t - h ELSE L - h + t
Slot(L, h, k) == (h + k) % L
RingList(c, L, h, t) == [i \in 1..RingCount(L, h, t) |-> c[Slot(L, h, i - 1)]]

\* The slots from head to tail hold blocks, and no others do.
Window(c, L, h, t) ==
  \A i \in 0..(L - 1) :
    c[i] # NoBlock <=> \E k \in 0..(RingCount(L, h, t) - 1) : i = Slot(L, h, k)

\* What a slot can hold, and the slots of a ring.
Cell == BufferBlock \cup {NoBlock}
Slots(L) == [0..(L - 1) -> Cell]

\* Functions that agree everywhere are the same.
LEMMA SameFunction ==
  ASSUME NEW S, NEW T, NEW f \in [S -> T], NEW g \in [S -> T], \A x \in S : f[x] = g[x]
  PROVE  f = g
OBVIOUS

\* Going round the ring at most once.
LEMMA Wrap ==
  ASSUME NEW L \in Nat, L > 0, NEW h \in 0..(L - 1), NEW k \in 0..L
  PROVE  /\ (h + k) % L = (IF h + k < L THEN h + k ELSE h + k - L)
         /\ (h + k) % L \in 0..(L - 1)
<1>1. \A n \in Nat : n > 0 => \A x \in 0..(n - 1) : x % n = x
  OBVIOUS
<1>2. \A n \in Nat : n > 0 => \A x \in n..(2 * n - 1) : x % n = x - n
  OBVIOUS
<1>3. CASE h + k < L
  <2>1. h + k \in 0..(L - 1)
    BY <1>3
  <2>2. (h + k) % L = h + k
    BY <1>1, <2>1
  <2> QED BY <1>3, <2>1, <2>2
<1>4. CASE h + k >= L
  <2>1. h + k \in L..(2 * L - 1)
    BY <1>4
  <2>2. (h + k) % L = h + k - L
    BY <1>2, <2>1
  <2> QED BY <1>4, <2>1, <2>2
<1> QED BY <1>3, <1>4

\* The same, for every distance.
LEMMA SlotAll ==
  ASSUME NEW L \in Nat, L > 1, NEW h \in 0..(L - 1)
  PROVE  \A k \in 0..L : /\ Slot(L, h, k) = (IF h + k < L THEN h + k ELSE h + k - L)
                         /\ Slot(L, h, k) \in 0..(L - 1)
BY Wrap DEF Slot

\* The blocks in the window.
LEMMA RingListType ==
  ASSUME NEW L \in Nat, L > 1, NEW h \in 0..(L - 1), NEW t \in 0..(L - 1), NEW c \in Slots(L)
  PROVE  /\ RingCount(L, h, t) \in 0..(L - 1)
         /\ RingList(c, L, h, t) \in [1..RingCount(L, h, t) -> Cell]
         /\ RingList(c, L, h, t) \in Seq(Cell) /\ Len(RingList(c, L, h, t)) = RingCount(L, h, t)
         /\ \A i \in 1..RingCount(L, h, t) : RingList(c, L, h, t)[i] = c[Slot(L, h, i - 1)]
<1> DEFINE n == RingCount(L, h, t)
           s == RingList(c, L, h, t)
<1>1. n \in 0..(L - 1)
  BY DEF RingCount
<1>2. \A i \in 1..n : i - 1 \in 0..L
  BY <1>1
<1>3. \A i \in 1..n : Slot(L, h, i - 1) \in 0..(L - 1)
  BY <1>2, SlotAll
<1>4. s = [i \in 1..n |-> c[Slot(L, h, i - 1)]]
  BY DEF RingList
<1>5. \A i \in 1..n : s[i] = c[Slot(L, h, i - 1)]
  BY <1>4
<1>6. \A i \in 1..n : s[i] \in Cell
  BY <1>3, <1>5 DEF Slots
<1> HIDE DEF n
<1>7. s \in [1..n -> Cell]
  BY <1>4, <1>6
<1> HIDE DEF s
<1>8. s \in Seq(Cell) /\ Len(s) = n
  BY <1>1, <1>7
<1> QED BY <1>1, <1>5, <1>7, <1>8 DEF n, s

\* The slots with cell i set; only that one may be another.
SetCell(c, i, b) == [c EXCEPT ![i] = b]
Differs(c, d, L, i, b) == d[i] = b /\ \A j \in 0..(L - 1) : j # i => d[j] = c[j]

\* What setting a cell does.
LEMMA CellSet ==
  ASSUME NEW L \in Nat, L > 1, NEW c \in Slots(L), NEW i \in 0..(L - 1), NEW b \in Cell
  PROVE  SetCell(c, i, b) \in Slots(L) /\ Differs(c, SetCell(c, i, b), L, i, b)
BY DEF Slots, Differs, SetCell

\* A block set in a slot of the window.
LEMMA RingSet ==
  ASSUME NEW L \in Nat, L > 1, NEW h \in 0..(L - 1), NEW t \in 0..(L - 1),
         NEW c \in Slots(L), Window(c, L, h, t),
         NEW k \in 0..(RingCount(L, h, t) - 1), NEW b \in BufferBlock,
         NEW d \in Slots(L), Differs(c, d, L, Slot(L, h, k), b)
  PROVE  /\ Window(d, L, h, t)
         /\ RingList(d, L, h, t) = [RingList(c, L, h, t) EXCEPT ![k + 1] = b]
<1> DEFINE n == RingCount(L, h, t)
           i == Slot(L, h, k)
           s == RingList(c, L, h, t)
           u == RingList(d, L, h, t)
           w == [s EXCEPT ![k + 1] = b]
<1>1. n \in 0..(L - 1) /\ k \in 0..(n - 1)
  BY DEF RingCount
<1>2. \A j \in 0..L : /\ Slot(L, h, j) = (IF h + j < L THEN h + j ELSE h + j - L)
                      /\ Slot(L, h, j) \in 0..(L - 1)
  BY SlotAll
<1>3. k \in 0..L /\ i \in 0..(L - 1)
  BY <1>1, <1>2
<1>4. b # NoBlock
  BY BufferAssumption DEF BufferBlock
<1>5. d[i] = b /\ \A j \in 0..(L - 1) : j # i => d[j] = c[j]
  BY DEF Differs
<1>6. \A j \in 0..(L - 1) : j # k => Slot(L, h, j) # i
  BY <1>1, <1>2, <1>3
<1>7. Window(d, L, h, t)
  BY <1>1, <1>3, <1>4, <1>5 DEF Window
<1>8. /\ s \in [1..n -> Cell] /\ \A j \in 1..n : s[j] = c[Slot(L, h, j - 1)]
      /\ u \in [1..n -> Cell] /\ \A j \in 1..n : u[j] = d[Slot(L, h, j - 1)]
  BY RingListType
<1>9. u[k + 1] = b
  <2>1. k + 1 \in 1..n /\ (k + 1) - 1 = k
    BY <1>1
  <2> QED BY <1>5, <1>8, <2>1
<1> HIDE DEF s, u, n, i
<1>10. k + 1 \in 1..n /\ b \in Cell
  BY <1>1 DEF Cell
<1>11. w \in [1..n -> Cell] /\ w[k + 1] = b /\ \A j \in 1..n : j # k + 1 => w[j] = s[j]
  BY <1>8, <1>10
<1> HIDE DEF w
<1>12. ASSUME NEW j \in 1..n PROVE u[j] = w[j]
  <2> DEFINE m == j - 1
  <2>1. m \in 0..(L - 1) /\ m \in 0..L /\ (j # k + 1 => m # k)
    BY <1>1
  <2>2. u[j] = d[Slot(L, h, m)] /\ s[j] = c[Slot(L, h, m)]
    BY <1>8
  <2> HIDE DEF m
  <2>3. CASE j = k + 1
    BY <1>9, <1>11, <2>3
  <2>4. CASE j # k + 1
    BY <1>2, <1>5, <1>6, <1>11, <2>1, <2>2, <2>4
  <2> QED BY <2>3, <2>4
<1>13. u = w
  <2>1. u \in [1..n -> Cell] /\ w \in [1..n -> Cell]
    BY <1>8, <1>11
  <2> DEFINE S == 1..n
  <2>2. u \in [S -> Cell] /\ w \in [S -> Cell] /\ \A x \in S : u[x] = w[x]
    BY <1>12, <2>1
  <2> HIDE DEF S
  <2> QED BY <2>2, SameFunction
<1> QED BY <1>7, <1>13 DEF u, w, s

\* Lists that agree everywhere are the same.
LEMMA SameList ==
  ASSUME NEW S, NEW f \in Seq(S), NEW g \in Seq(S), Len(f) = Len(g),
         \A i \in 1..Len(f) : f[i] = g[i]
  PROVE  f = g
OBVIOUS

\* A block put into the slot at tail, which moves on.
LEMMA RingPushBack ==
  ASSUME NEW L \in Nat, L > 1, NEW h \in 0..(L - 1), NEW t \in 0..(L - 1),
         NEW c \in Slots(L), Window(c, L, h, t), Slot(L, t, 1) # h, NEW b \in BufferBlock,
         NEW d \in Slots(L), Differs(c, d, L, t, b)
  PROVE  /\ Slot(L, t, 1) \in 0..(L - 1) /\ Window(d, L, h, Slot(L, t, 1))
         /\ RingCount(L, h, Slot(L, t, 1)) = RingCount(L, h, t) + 1
         /\ RingList(d, L, h, Slot(L, t, 1)) = Append(RingList(c, L, h, t), b)
<1> DEFINE n == RingCount(L, h, t)
           next == Slot(L, t, 1)
           s == RingList(c, L, h, t)
           u == RingList(d, L, h, next)
<1>1. /\ next = (IF t + 1 < L THEN t + 1 ELSE t + 1 - L) /\ next \in 0..(L - 1)
  BY SlotAll
<1>2. \A j \in 0..L : /\ Slot(L, h, j) = (IF h + j < L THEN h + j ELSE h + j - L)
                      /\ Slot(L, h, j) \in 0..(L - 1)
  BY SlotAll
<1>3. n \in 0..(L - 2) /\ RingCount(L, h, next) = n + 1
  BY <1>1 DEF RingCount
<1>4. t = (IF h + n < L THEN h + n ELSE h + n - L)
  BY DEF RingCount
<1> HIDE DEF n, next
<1>5. Slot(L, h, n) = t /\ \A j \in 0..(n - 1) : Slot(L, h, j) # t
  BY <1>2, <1>3, <1>4
<1>6. b # NoBlock /\ b \in Cell
  BY BufferAssumption DEF BufferBlock, Cell
<1>7. d[t] = b /\ \A j \in 0..(L - 1) : j # t => d[j] = c[j]
  BY DEF Differs
<1>8. Window(d, L, h, next)
  <2>1. \A i \in 0..(L - 1) : c[i] # NoBlock <=> \E k \in 0..(n - 1) : i = Slot(L, h, k)
    BY DEF Window, n
  <2>2. \A i \in 0..(L - 1) : d[i] # NoBlock <=> \E k \in 0..n : i = Slot(L, h, k)
    BY <1>3, <1>5, <1>6, <1>7, <2>1
  <2>3. RingCount(L, h, next) - 1 = n
    BY <1>3
  <2> QED BY <2>2, <2>3 DEF Window
<1>9. /\ s \in Seq(Cell) /\ Len(s) = n /\ \A j \in 1..n : s[j] = c[Slot(L, h, j - 1)]
      /\ u \in Seq(Cell) /\ Len(u) = n + 1 /\ \A j \in 1..(n + 1) : u[j] = d[Slot(L, h, j - 1)]
  <2>1. s \in Seq(Cell) /\ Len(s) = n /\ \A j \in 1..n : s[j] = c[Slot(L, h, j - 1)]
    BY RingListType DEF n
  <2> DEFINE m == RingCount(L, h, next)
  <2>2. u \in Seq(Cell) /\ Len(u) = m /\ \A j \in 1..m : u[j] = d[Slot(L, h, j - 1)]
    BY <1>1, RingListType, ZenonT(60)
  <2>3. m = n + 1
    BY <1>3
  <2> HIDE DEF m, s, u
  <2> QED BY <2>1, <2>2, <2>3
<1> HIDE DEF s, u
<1> DEFINE w == Append(s, b)
<1>10. /\ w \in Seq(Cell) /\ Len(w) = n + 1 /\ w[n + 1] = b /\ \A j \in 1..n : w[j] = s[j]
  BY <1>6, <1>9
<1> HIDE DEF w
<1>11. ASSUME NEW j \in 1..(n + 1) PROVE u[j] = w[j]
  <2> DEFINE m == j - 1
  <2>1. m \in 0..n /\ m \in 0..L /\ (j = n + 1 => m = n) /\ (j # n + 1 => m \in 0..(n - 1) /\ j \in 1..n)
    BY <1>3
  <2>2. u[j] = d[Slot(L, h, m)] /\ (j \in 1..n => s[j] = c[Slot(L, h, m)])
    BY <1>9
  <2> HIDE DEF m
  <2> QED BY <1>2, <1>5, <1>7, <1>10, <2>1, <2>2
<1>12. u = w
  BY <1>9, <1>10, <1>11, SameList
<1> QED BY <1>1, <1>3, <1>8, <1>12 DEF u, w, s, next, n

\* A block put into the slot before head, which moves there.
LEMMA RingPushFront ==
  ASSUME NEW L \in Nat, L > 1, NEW h \in 0..(L - 1), NEW t \in 0..(L - 1),
         NEW c \in Slots(L), Window(c, L, h, t), Slot(L, t, 1) # h, NEW b \in BufferBlock,
         NEW d \in Slots(L), Differs(c, d, L, Slot(L, h, L - 1), b)
  PROVE  /\ Slot(L, h, L - 1) \in 0..(L - 1) /\ Window(d, L, Slot(L, h, L - 1), t)
         /\ RingCount(L, Slot(L, h, L - 1), t) = RingCount(L, h, t) + 1
         /\ RingList(d, L, Slot(L, h, L - 1), t) = <<b>> \o RingList(c, L, h, t)
<1> DEFINE n == RingCount(L, h, t)
           next == Slot(L, h, L - 1)
           s == RingList(c, L, h, t)
           u == RingList(d, L, next, t)
<1>1. /\ next = (IF h > 0 THEN h - 1 ELSE L - 1) /\ next \in 0..(L - 1)
  <2>1. L - 1 \in 0..L
    OBVIOUS
  <2>2. next = (IF h + (L - 1) < L THEN h + (L - 1) ELSE h + (L - 1) - L)
    BY <2>1, SlotAll
  <2> QED BY <2>2
<1>2. /\ \A j \in 0..L : /\ Slot(L, h, j) = (IF h + j < L THEN h + j ELSE h + j - L)
                         /\ Slot(L, h, j) \in 0..(L - 1)
      /\ Slot(L, t, 1) = (IF t + 1 < L THEN t + 1 ELSE t + 1 - L)
  BY SlotAll
<1> HIDE DEF next
<1>3. \A j \in 0..L : /\ Slot(L, next, j) = (IF next + j < L THEN next + j ELSE next + j - L)
                      /\ Slot(L, next, j) \in 0..(L - 1)
  BY <1>1, SlotAll
<1>4. n \in 0..(L - 2) /\ RingCount(L, next, t) = n + 1
  BY <1>1, <1>2 DEF RingCount
<1> HIDE DEF n
<1>5. /\ Slot(L, next, 0) = next
      /\ \A j \in 1..n : Slot(L, next, j) = Slot(L, h, j - 1)
      /\ \A j \in 0..(n - 1) : Slot(L, next, j + 1) = Slot(L, h, j) /\ Slot(L, h, j) # next
  BY <1>1, <1>2, <1>3, <1>4
<1>6. b # NoBlock /\ b \in Cell
  BY BufferAssumption DEF BufferBlock, Cell
<1>7. d[next] = b /\ \A j \in 0..(L - 1) : j # next => d[j] = c[j]
  BY DEF Differs, next
<1>8. Window(d, L, next, t)
  <2>1. \A i \in 0..(L - 1) : c[i] # NoBlock <=> \E k \in 0..(n - 1) : i = Slot(L, h, k)
    BY DEF Window, n
  <2>2. \A i \in 0..(L - 1) : d[i] # NoBlock <=> \E k \in 0..n : i = Slot(L, next, k)
    <3> SUFFICES ASSUME NEW i \in 0..(L - 1)
                 PROVE  d[i] # NoBlock <=> \E k \in 0..n : i = Slot(L, next, k)
      OBVIOUS
    <3>1. CASE i = next
      BY <1>4, <1>5, <1>6, <1>7, <3>1
    <3>2. ASSUME i # next, d[i] # NoBlock PROVE \E k \in 0..n : i = Slot(L, next, k)
      <4>1. PICK k \in 0..(n - 1) : i = Slot(L, h, k)
        BY <1>7, <2>1, <3>2
      <4>2. k + 1 \in 0..n /\ i = Slot(L, next, k + 1)
        BY <1>4, <1>5, <4>1
      <4> QED BY <4>2
    <3>3. ASSUME i # next, NEW k \in 0..n, i = Slot(L, next, k) PROVE d[i] # NoBlock
      <4>1. k \in 1..n
        BY <1>4, <1>5, <3>3
      <4>2. k - 1 \in 0..(n - 1) /\ i = Slot(L, h, k - 1)
        BY <1>4, <1>5, <3>3, <4>1
      <4> QED BY <1>7, <2>1, <3>3, <4>2
    <3> QED BY <3>1, <3>2, <3>3
  <2>3. RingCount(L, next, t) - 1 = n
    BY <1>4
  <2> QED BY <2>2, <2>3 DEF Window
<1>9. /\ s \in Seq(Cell) /\ Len(s) = n /\ \A j \in 1..n : s[j] = c[Slot(L, h, j - 1)]
      /\ u \in Seq(Cell) /\ Len(u) = n + 1 /\ \A j \in 1..(n + 1) : u[j] = d[Slot(L, next, j - 1)]
  <2>1. s \in Seq(Cell) /\ Len(s) = n /\ \A j \in 1..n : s[j] = c[Slot(L, h, j - 1)]
    BY RingListType DEF n
  <2> DEFINE m == RingCount(L, next, t)
  <2>2. u \in Seq(Cell) /\ Len(u) = m /\ \A j \in 1..m : u[j] = d[Slot(L, next, j - 1)]
    <3>1. next \in 0..(L - 1)
      BY <1>1
    <3> QED BY <3>1, RingListType
  <2>3. m = n + 1
    BY <1>4
  <2> HIDE DEF m, s, u
  <2> QED BY <2>1, <2>2, <2>3
<1> HIDE DEF s, u
<1> DEFINE w == <<b>> \o s
<1>10. /\ w \in Seq(Cell) /\ Len(w) = n + 1 /\ w[1] = b /\ \A j \in 2..(n + 1) : w[j] = s[j - 1]
  BY <1>4, <1>6, <1>9
<1> HIDE DEF w
<1>11. ASSUME NEW j \in 1..(n + 1) PROVE u[j] = w[j]
  <2>1. CASE j = 1
    BY <1>4, <1>5, <1>7, <1>9, <1>10, <2>1
  <2>2. CASE j # 1
    <3> DEFINE m == j - 1
    <3>1. m \in 1..n /\ m - 1 \in 0..(n - 1) /\ j \in 2..(n + 1)
      BY <1>4, <2>2
    <3>2. u[j] = d[Slot(L, next, m)] /\ w[j] = s[m]
      BY <1>9, <1>10, <3>1
    <3> HIDE DEF m
    <3>3. /\ Slot(L, next, m) = Slot(L, h, m - 1) /\ s[m] = c[Slot(L, h, m - 1)]
          /\ Slot(L, h, m - 1) # next
      BY <1>5, <1>9, <3>1
    <3>4. m - 1 \in 0..L
      BY <1>4, <3>1
    <3>5. Slot(L, h, m - 1) \in 0..(L - 1)
      BY <1>2, <3>4
    <3> QED BY <1>7, <3>2, <3>3, <3>5
  <2> QED BY <2>1, <2>2
<1>12. u = w
  BY <1>9, <1>10, <1>11, SameList
<1> QED BY <1>1, <1>4, <1>8, <1>12 DEF u, w, s, next, n

\* The block before tail freed.
LEMMA RingPopBack ==
  ASSUME NEW L \in Nat, L > 1, NEW h \in 0..(L - 1), NEW t \in 0..(L - 1),
         NEW c \in Slots(L), Window(c, L, h, t), h # t,
         NEW d \in Slots(L), Differs(c, d, L, Slot(L, t, L - 1), NoBlock)
  PROVE  /\ RingCount(L, h, t) \in 1..(L - 1) /\ Slot(L, t, L - 1) \in 0..(L - 1)
         /\ Slot(L, t, L - 1) = Slot(L, h, RingCount(L, h, t) - 1)
         /\ Window(d, L, h, Slot(L, t, L - 1))
         /\ RingList(d, L, h, Slot(L, t, L - 1))
              = SubSeq(RingList(c, L, h, t), 1, RingCount(L, h, t) - 1)
<1> DEFINE n == RingCount(L, h, t)
           next == Slot(L, t, L - 1)
           s == RingList(c, L, h, t)
           u == RingList(d, L, h, next)
<1>1. /\ next = (IF t > 0 THEN t - 1 ELSE L - 1) /\ next \in 0..(L - 1)
  <2>1. L - 1 \in 0..L
    OBVIOUS
  <2>2. next = (IF t + (L - 1) < L THEN t + (L - 1) ELSE t + (L - 1) - L)
    BY <2>1, SlotAll
  <2> QED BY <2>2
<1>2. \A j \in 0..L : /\ Slot(L, h, j) = (IF h + j < L THEN h + j ELSE h + j - L)
                      /\ Slot(L, h, j) \in 0..(L - 1)
  BY SlotAll
<1> HIDE DEF next
<1>3. /\ n \in 1..(L - 1) /\ RingCount(L, h, next) = n - 1
      /\ next = (IF h + (n - 1) < L THEN h + (n - 1) ELSE h + (n - 1) - L)
  BY <1>1 DEF RingCount
<1> HIDE DEF n
<1>4. next = Slot(L, h, n - 1) /\ \A j \in 0..(n - 2) : Slot(L, h, j) # next
  BY <1>2, <1>3
<1>5. d[next] = NoBlock /\ \A j \in 0..(L - 1) : j # next => d[j] = c[j]
  BY DEF Differs, next
<1>6. Window(d, L, h, next)
  <2>1. \A i \in 0..(L - 1) : c[i] # NoBlock <=> \E k \in 0..(n - 1) : i = Slot(L, h, k)
    BY DEF Window, n
  <2>2. \A i \in 0..(L - 1) : d[i] # NoBlock <=> \E k \in 0..(n - 2) : i = Slot(L, h, k)
    BY <1>3, <1>4, <1>5, <2>1
  <2>3. RingCount(L, h, next) - 1 = n - 2
    BY <1>3
  <2> QED BY <2>2, <2>3 DEF Window
<1>7. /\ s \in Seq(Cell) /\ Len(s) = n /\ \A j \in 1..n : s[j] = c[Slot(L, h, j - 1)]
      /\ u \in Seq(Cell) /\ Len(u) = n - 1 /\ \A j \in 1..(n - 1) : u[j] = d[Slot(L, h, j - 1)]
  <2>1. s \in Seq(Cell) /\ Len(s) = n /\ \A j \in 1..n : s[j] = c[Slot(L, h, j - 1)]
    BY RingListType DEF n
  <2> DEFINE m == RingCount(L, h, next)
  <2>2. u \in Seq(Cell) /\ Len(u) = m /\ \A j \in 1..m : u[j] = d[Slot(L, h, j - 1)]
    <3>1. next \in 0..(L - 1)
      BY <1>1
    <3> QED BY <3>1, RingListType
  <2>3. m = n - 1
    BY <1>3
  <2> HIDE DEF m, s, u
  <2> QED BY <2>1, <2>2, <2>3
<1> HIDE DEF s, u
<1> DEFINE w == SubSeq(s, 1, n - 1)
<1>8. /\ w \in Seq(Cell) /\ Len(w) = n - 1 /\ \A j \in 1..(n - 1) : w[j] = s[j]
  BY <1>3, <1>7
<1> HIDE DEF w
<1>9. ASSUME NEW j \in 1..(n - 1) PROVE u[j] = w[j]
  <2> DEFINE m == j - 1
  <2>1. m \in 0..(n - 2) /\ m \in 0..L /\ j \in 1..n
    BY <1>3
  <2>2. u[j] = d[Slot(L, h, m)] /\ w[j] = c[Slot(L, h, m)]
    BY <1>7, <1>8, <2>1
  <2> HIDE DEF m
  <2> QED BY <1>2, <1>4, <1>5, <2>1, <2>2
<1>10. u = w
  BY <1>7, <1>8, <1>9, SameList
<1> QED BY <1>1, <1>3, <1>4, <1>6, <1>10 DEF u, w, s, next, n

\* The block at head freed.
LEMMA RingPopFront ==
  ASSUME NEW L \in Nat, L > 1, NEW h \in 0..(L - 1), NEW t \in 0..(L - 1),
         NEW c \in Slots(L), Window(c, L, h, t), h # t,
         NEW d \in Slots(L), Differs(c, d, L, h, NoBlock)
  PROVE  /\ RingCount(L, h, t) \in 1..(L - 1) /\ Slot(L, h, 1) \in 0..(L - 1) /\ h = Slot(L, h, 0)
         /\ Window(d, L, Slot(L, h, 1), t)
         /\ RingList(d, L, Slot(L, h, 1), t) = Tail(RingList(c, L, h, t))
<1> DEFINE n == RingCount(L, h, t)
           next == Slot(L, h, 1)
           s == RingList(c, L, h, t)
           u == RingList(d, L, next, t)
<1>1. \A j \in 0..L : /\ Slot(L, h, j) = (IF h + j < L THEN h + j ELSE h + j - L)
                      /\ Slot(L, h, j) \in 0..(L - 1)
  BY SlotAll
<1>2. /\ next = (IF h + 1 < L THEN h + 1 ELSE h + 1 - L) /\ next \in 0..(L - 1)
      /\ h = Slot(L, h, 0)
  BY <1>1
<1> HIDE DEF next
<1>3. \A j \in 0..L : /\ Slot(L, next, j) = (IF next + j < L THEN next + j ELSE next + j - L)
                      /\ Slot(L, next, j) \in 0..(L - 1)
  BY <1>2, SlotAll
<1>4. n \in 1..(L - 1) /\ RingCount(L, next, t) = n - 1
  BY <1>2 DEF RingCount
<1> HIDE DEF n
<1>5. \A j \in 0..(n - 2) : Slot(L, next, j) = Slot(L, h, j + 1) /\ Slot(L, next, j) # h
  BY <1>1, <1>2, <1>3, <1>4
<1>6. d[h] = NoBlock /\ \A j \in 0..(L - 1) : j # h => d[j] = c[j]
  BY DEF Differs
<1>7. Window(d, L, next, t)
  <2>1. \A i \in 0..(L - 1) : c[i] # NoBlock <=> \E k \in 0..(n - 1) : i = Slot(L, h, k)
    BY DEF Window, n
  <2>2. \A i \in 0..(L - 1) : d[i] # NoBlock <=> \E k \in 0..(n - 2) : i = Slot(L, next, k)
    <3> SUFFICES ASSUME NEW i \in 0..(L - 1)
                 PROVE  d[i] # NoBlock <=> \E k \in 0..(n - 2) : i = Slot(L, next, k)
      OBVIOUS
    <3>1. CASE i = h
      BY <1>5, <1>6, <3>1
    <3>2. ASSUME i # h, d[i] # NoBlock PROVE \E k \in 0..(n - 2) : i = Slot(L, next, k)
      <4>1. PICK k \in 0..(n - 1) : i = Slot(L, h, k)
        BY <1>6, <2>1, <3>2
      <4>2. k # 0
        BY <1>2, <3>2, <4>1
      <4> DEFINE m == k - 1
      <4>3. m \in 0..(n - 2) /\ m + 1 = k
        BY <1>4, <4>2
      <4>4. i = Slot(L, next, m)
        BY <1>5, <4>1, <4>3
      <4> HIDE DEF m
      <4> QED BY <4>3, <4>4
    <3>3. ASSUME i # h, NEW k \in 0..(n - 2), i = Slot(L, next, k) PROVE d[i] # NoBlock
      <4>1. k + 1 \in 0..(n - 1) /\ i = Slot(L, h, k + 1)
        BY <1>4, <1>5, <3>3
      <4> QED BY <1>6, <2>1, <3>3, <4>1
    <3> QED BY <3>1, <3>2, <3>3
  <2>3. RingCount(L, next, t) - 1 = n - 2
    BY <1>4
  <2> QED BY <2>2, <2>3 DEF Window
<1>8. /\ s \in Seq(Cell) /\ Len(s) = n /\ \A j \in 1..n : s[j] = c[Slot(L, h, j - 1)]
      /\ u \in Seq(Cell) /\ Len(u) = n - 1 /\ \A j \in 1..(n - 1) : u[j] = d[Slot(L, next, j - 1)]
  <2>1. s \in Seq(Cell) /\ Len(s) = n /\ \A j \in 1..n : s[j] = c[Slot(L, h, j - 1)]
    BY RingListType DEF n
  <2> DEFINE m == RingCount(L, next, t)
  <2>2. u \in Seq(Cell) /\ Len(u) = m /\ \A j \in 1..m : u[j] = d[Slot(L, next, j - 1)]
    <3>1. next \in 0..(L - 1)
      BY <1>2
    <3> QED BY <3>1, RingListType
  <2>3. m = n - 1
    BY <1>4
  <2> HIDE DEF m, s, u
  <2> QED BY <2>1, <2>2, <2>3
<1> HIDE DEF s, u
<1> DEFINE w == Tail(s)
<1>9. /\ w \in Seq(Cell) /\ Len(w) = n - 1 /\ \A j \in 1..(n - 1) : w[j] = s[j + 1]
  BY <1>4, <1>8
<1> HIDE DEF w
<1>10. ASSUME NEW j \in 1..(n - 1) PROVE u[j] = w[j]
  <2> DEFINE m == j - 1
  <2>1. m \in 0..(n - 2) /\ m \in 0..L /\ j + 1 \in 1..n /\ (j + 1) - 1 = j /\ m + 1 = j
    BY <1>4
  <2>2. u[j] = d[Slot(L, next, m)] /\ w[j] = c[Slot(L, h, j)]
    BY <1>8, <1>9, <2>1
  <2> HIDE DEF m
  <2>3. Slot(L, next, m) = Slot(L, h, j) /\ Slot(L, next, m) # h
    BY <1>5, <2>1
  <2>4. Slot(L, next, m) \in 0..(L - 1)
    BY <1>3, <2>1
  <2> QED BY <1>6, <2>2, <2>3, <2>4
<1>11. u = w
  BY <1>8, <1>9, <1>10, SameList
<1> QED BY <1>2, <1>4, <1>7, <1>11 DEF u, w, s, next, n

\* A ring whose head and tail meet has no blocks and can start anywhere.
LEMMA RingEmpty ==
  ASSUME NEW L \in Nat, L > 1, NEW h \in 0..(L - 1), NEW c \in Slots(L), Window(c, L, h, h)
  PROVE  /\ \A i \in 0..(L - 1) : c[i] = NoBlock
         /\ \A i \in 0..(L - 1) : RingList(c, L, i, i) = << >> /\ Window(c, L, i, i)
<1>1. \A i \in 0..(L - 1) : RingCount(L, i, i) = 0
  BY DEF RingCount
<1>2. \A i \in 0..(L - 1) : c[i] = NoBlock
  BY <1>1 DEF Window
<1>3. \A i \in 0..(L - 1) : Window(c, L, i, i)
  BY <1>1, <1>2 DEF Window
<1>4. ASSUME NEW i \in 0..(L - 1) PROVE RingList(c, L, i, i) = << >>
  <2>1. RingList(c, L, i, i) \in Seq(Cell) /\ Len(RingList(c, L, i, i)) = 0
    BY <1>1, RingListType
  <2> QED BY <2>1
<1> QED BY <1>2, <1>3, <1>4

-----------------------------------------------------------------------------
(* The sum of a list.                                                      *)

\* A nonempty set of natural numbers has a least element.
LEMMA LeastNumber ==
  ASSUME NEW T \in SUBSET Nat, T # {}
  PROVE  \E x \in T : \A y \in T : x <= y
<1> DEFINE Less == {ss \in Nat \X Nat : ss[1] < ss[2]}
<1>1. IsWellFoundedOn(Less, Nat)
  BY NatLessThanWellFounded DEF OpToRel
<1> HIDE DEF Less
<1>2. PICK x \in T : \A y \in T : ~(<<y, x>> \in Less)
  BY <1>1, WFMin
<1>3. \A y \in T : ~(y < x)
  BY <1>2 DEF Less
<1> QED BY <1>3

\* The sums of the first numbers of a list, up to the m-th.
Sums(s, f, m) ==
  /\ f = [i \in 0..m |-> f[i]] /\ f[0] = 0
  /\ \A i \in 1..m : f[i] = f[i - 1] + s[i]

\* There is a function of them.
LEMMA SumsExist ==
  ASSUME NEW s \in Seq(Nat)
  PROVE  \E f \in [0..Len(s) -> Nat] : Sums(s, f, Len(s))
<1> DEFINE n == Len(s)
           T == {m \in 0..n : ~ \E f \in [0..m -> Nat] : Sums(s, f, m)}
<1>1. n \in Nat /\ \A i \in 1..n : s[i] \in Nat
  OBVIOUS
<1>2. ASSUME T # {} PROVE FALSE
  <2>1. T \in SUBSET Nat
    BY <1>1
  <2> HIDE DEF T
  <2>2. PICK x \in T : \A y \in T : x <= y
    BY <1>2, <2>1, LeastNumber
  <2>3. x \in 0..n /\ x \in Nat /\ ~ \E f \in [0..x -> Nat] : Sums(s, f, x)
    BY <2>1, <2>2 DEF T
  <2>4. CASE x = 0
    <3> DEFINE f == [i \in 0..x |-> 0]
    <3>1. f \in [0..x -> Nat] /\ f[0] = 0 /\ f = [i \in 0..x |-> f[i]] /\ 1..x = {}
      BY <2>4
    <3>2. Sums(s, f, x)
      BY <3>1 DEF Sums
    <3> QED BY <2>3, <3>1, <3>2
  <2>5. CASE x # 0
    <3>1. x - 1 \in 0..n /\ x - 1 \notin T
      BY <1>1, <2>2, <2>3, <2>5
    <3>2. PICK f \in [0..(x - 1) -> Nat] : Sums(s, f, x - 1)
      BY <3>1 DEF T
    <3> DEFINE g == [i \in 0..x |-> IF i = x THEN f[x - 1] + s[x] ELSE f[i]]
    <3>3. f[x - 1] \in Nat /\ s[x] \in Nat /\ \A i \in 0..x : i # x => f[i] \in Nat
      BY <1>1, <2>3, <2>5
    <3>4. g \in [0..x -> Nat] /\ g[0] = 0 /\ g[x] = f[x - 1] + s[x]
          /\ \A i \in 0..(x - 1) : g[i] = f[i]
      BY <2>3, <2>5, <3>2, <3>3 DEF Sums
    <3>5. g = [i \in 0..x |-> g[i]]
      OBVIOUS
    <3> HIDE DEF g
    <3>6. \A i \in 1..(x - 1) : f[i] = f[i - 1] + s[i]
      BY <3>2 DEF Sums
    <3>7. ASSUME NEW i \in 1..x PROVE g[i] = g[i - 1] + s[i]
      <4>1. CASE i = x
        BY <2>3, <2>5, <3>4, <4>1
      <4>2. CASE i # x
        <5>1. i \in 1..(x - 1) /\ i - 1 \in 0..(x - 1) /\ i \in 0..(x - 1)
          BY <2>3, <4>2
        <5> QED BY <3>4, <3>6, <5>1
      <4> QED BY <4>1, <4>2
    <3>8. Sums(s, g, x)
      BY <3>4, <3>5, <3>7 DEF Sums
    <3> QED BY <2>3, <3>4, <3>8
  <2> QED BY <2>4, <2>5
<1>3. n \in 0..n /\ n \notin T
  BY <1>1, <1>2
<1> QED BY <1>3

\* There is only one.
LEMMA SumsUnique ==
  ASSUME NEW s, NEW n \in Nat, NEW f, NEW g, Sums(s, f, n), Sums(s, g, n)
  PROVE  f = g
<1> DEFINE T == {m \in 0..n : f[m] # g[m]}
<1>1. /\ f = [i \in 0..n |-> f[i]] /\ f[0] = 0 /\ \A i \in 1..n : f[i] = f[i - 1] + s[i]
      /\ g = [i \in 0..n |-> g[i]] /\ g[0] = 0 /\ \A i \in 1..n : g[i] = g[i - 1] + s[i]
  BY DEF Sums
<1>2. ASSUME T # {} PROVE FALSE
  <2>1. T \in SUBSET Nat
    OBVIOUS
  <2> HIDE DEF T
  <2>2. PICK x \in T : \A y \in T : x <= y
    BY <1>2, <2>1, LeastNumber
  <2>3. x \in 0..n /\ f[x] # g[x]
    BY <2>2 DEF T
  <2>4. x # 0
    BY <1>1, <2>3
  <2>5. x - 1 \in 0..n /\ x - 1 \notin T /\ x \in 1..n
    BY <2>2, <2>3, <2>4
  <2>6. f[x - 1] = g[x - 1]
    BY <2>5 DEF T
  <2> QED BY <1>1, <2>3, <2>5, <2>6
<1>3. \A i \in 0..n : f[i] = g[i]
  BY <1>2
<1> QED BY <1>1, <1>3

\* Total is the last of the sums.
LEMMA TotalIs ==
  ASSUME NEW s \in Seq(Nat)
  PROVE  /\ Total(s) \in Nat
         /\ \E f \in [0..Len(s) -> Nat] : Sums(s, f, Len(s)) /\ Total(s) = f[Len(s)]
         /\ \A f : Sums(s, f, Len(s)) => Total(s) = f[Len(s)]
<1> DEFINE n == Len(s)
           Is(f) == f = [i \in 0..n |-> IF i = 0 THEN 0 ELSE f[i - 1] + s[i]]
           sum == CHOOSE f : Is(f)
<1>1. n \in Nat
  OBVIOUS
<1>2. Total(s) = sum[n]
  BY DEF Total
<1> HIDE DEF n
<1>3. \A f : Is(f) <=> Sums(s, f, n)
  <2>1. ASSUME NEW f, Is(f) PROVE Sums(s, f, n)
    <3>1. DOMAIN f = 0..n /\ \A i \in 0..n : f[i] = (IF i = 0 THEN 0 ELSE f[i - 1] + s[i])
      BY <2>1
    <3>2. f = [i \in 0..n |-> f[i]]
      <4> DEFINE F == [i \in 0..n |-> IF i = 0 THEN 0 ELSE f[i - 1] + s[i]]
                 G == [i \in 0..n |-> f[i]]
      <4>1. G = F /\ f = F
        BY <2>1, <3>1
      <4> HIDE DEF F, G
      <4>2. f = G
        BY <4>1
      <4> QED BY <4>2 DEF G
    <3>3. f[0] = 0 /\ \A i \in 1..n : f[i] = f[i - 1] + s[i]
      BY <1>1, <3>1
    <3> QED BY <3>2, <3>3 DEF Sums
  <2>2. ASSUME NEW f, Sums(s, f, n) PROVE Is(f)
    <3> DEFINE F == [i \in 0..n |-> IF i = 0 THEN 0 ELSE f[i - 1] + s[i]]
               G == [i \in 0..n |-> f[i]]
    <3>1. f = G /\ f[0] = 0 /\ \A i \in 1..n : f[i] = f[i - 1] + s[i]
      BY <2>2 DEF Sums
    <3>2. \A i \in 0..n : f[i] = (IF i = 0 THEN 0 ELSE f[i - 1] + s[i])
      <4> HIDE DEF G
      <4> QED BY <1>1, <3>1
    <3>3. G = F
      BY <3>2
    <3> HIDE DEF F, G
    <3>4. f = F
      BY <3>1, <3>3
    <3> QED BY <3>4 DEF F
  <2> QED BY <2>1, <2>2
<1>4. PICK f \in [0..n -> Nat] : Sums(s, f, n)
  BY SumsExist DEF n
<1> HIDE DEF Is
<1>5. Is(sum)
  BY <1>3, <1>4
<1>6. Sums(s, sum, n)
  BY <1>3, <1>5
<1> HIDE DEF sum
<1>7. \A g : Sums(s, g, n) => g = sum
  BY <1>1, <1>6, SumsUnique
<1>8. f = sum /\ f[n] \in Nat
  BY <1>1, <1>4, <1>7
<1> QED BY <1>2, <1>4, <1>7, <1>8 DEF n

\* A number put at the end of a list.
LEMMA TotalAppend ==
  ASSUME NEW s \in Seq(Nat), NEW x \in Nat
  PROVE  Total(Append(s, x)) = Total(s) + x
<1> DEFINE n == Len(s)
           w == Append(s, x)
<1>1. n \in Nat /\ w \in Seq(Nat) /\ Len(w) = n + 1 /\ w[n + 1] = x /\ \A i \in 1..n : w[i] = s[i]
  OBVIOUS
<1>2. PICK f \in [0..n -> Nat] : Sums(s, f, n) /\ Total(s) = f[n]
  BY TotalIs
<1> HIDE DEF n, w
<1> DEFINE g == [i \in 0..(n + 1) |-> IF i = n + 1 THEN f[n] + x ELSE f[i]]
<1>3. f[0] = 0 /\ \A i \in 1..n : f[i] = f[i - 1] + s[i]
  BY <1>2 DEF Sums
<1>4. g[n + 1] = f[n] + x /\ \A i \in 0..n : g[i] = f[i]
  BY <1>1
<1>0. g = [i \in 0..(n + 1) |-> g[i]]
  OBVIOUS
<1> HIDE DEF g
<1>5. ASSUME NEW i \in 1..(n + 1) PROVE g[i] = g[i - 1] + w[i]
  <2>1. CASE i = n + 1
    <3>1. i - 1 = n /\ n \in 0..n
      BY <1>1, <2>1
    <3> QED BY <1>1, <1>4, <2>1, <3>1
  <2>2. CASE i # n + 1
    <3>1. i \in 1..n /\ i - 1 \in 0..n /\ i \in 0..n
      BY <1>1, <2>2
    <3> QED BY <1>1, <1>3, <1>4, <3>1
  <2> QED BY <2>1, <2>2
<1>6. g[0] = 0
  <2>1. 0 \in 0..n
    BY <1>1
  <2> QED BY <1>3, <1>4, <2>1
<1>7. Sums(w, g, n + 1)
  BY <1>0, <1>5, <1>6 DEF Sums
<1>8. Total(w) = g[n + 1]
  BY <1>1, <1>7, TotalIs
<1> QED BY <1>2, <1>4, <1>8 DEF w

\* A number put before a list.
LEMMA TotalCons ==
  ASSUME NEW s \in Seq(Nat), NEW x \in Nat
  PROVE  Total(<<x>> \o s) = x + Total(s)
<1> DEFINE n == Len(s)
           w == <<x>> \o s
<1>1. n \in Nat /\ w \in Seq(Nat) /\ Len(w) = n + 1 /\ w[1] = x /\ \A i \in 2..(n + 1) : w[i] = s[i - 1]
  OBVIOUS
<1>2. PICK f \in [0..n -> Nat] : Sums(s, f, n) /\ Total(s) = f[n]
  BY TotalIs
<1> HIDE DEF n, w
<1> DEFINE g == [i \in 0..(n + 1) |-> IF i = 0 THEN 0 ELSE x + f[i - 1]]
<1>3. f[0] = 0 /\ \A i \in 1..n : f[i] = f[i - 1] + s[i]
  BY <1>2 DEF Sums
<1>4. g[0] = 0 /\ \A i \in 1..(n + 1) : g[i] = x + f[i - 1]
  BY <1>1
<1>0. g = [i \in 0..(n + 1) |-> g[i]]
  OBVIOUS
<1> HIDE DEF g
<1>5. ASSUME NEW i \in 1..(n + 1) PROVE g[i] = g[i - 1] + w[i]
  <2>1. CASE i = 1
    <3>1. i - 1 = 0 /\ g[i] = x + f[0] /\ g[i - 1] = 0 /\ w[i] = x
      BY <1>1, <1>4, <2>1
    <3> QED BY <1>3, <3>1
  <2>2. CASE i # 1
    <3> DEFINE m == i - 1
    <3>1. m \in 1..n /\ m \in 1..(n + 1) /\ m - 1 \in 0..n /\ i \in 2..(n + 1)
      BY <1>1, <2>2
    <3>2. g[i] = x + f[m] /\ w[i] = s[m]
      BY <1>1, <1>4, <3>1
    <3>3. g[m] = x + f[m - 1] /\ f[m] = f[m - 1] + s[m]
      BY <1>3, <1>4, <3>1
    <3>4. f[m - 1] \in Nat /\ s[m] \in Nat
      <4>1. f[m - 1] \in Nat
        BY <3>1
      <4>2. \A j \in 1..Len(s) : s[j] \in Nat
        OBVIOUS
      <4> QED BY <3>1, <4>1, <4>2 DEF n
    <3> QED BY <3>2, <3>3, <3>4
  <2> QED BY <2>1, <2>2
<1>6. Sums(w, g, n + 1)
  BY <1>0, <1>4, <1>5 DEF Sums
<1>7. Total(w) = g[n + 1]
  BY <1>1, <1>6, TotalIs
<1>8. g[n + 1] = x + f[n]
  BY <1>1, <1>4
<1> QED BY <1>2, <1>7, <1>8 DEF w

\* A number of a list replaced.
LEMMA TotalSet ==
  ASSUME NEW s \in Seq(Nat), NEW k \in 1..Len(s), NEW x \in Nat
  PROVE  /\ Total([s EXCEPT ![k] = x]) = Total(s) - s[k] + x
         /\ s[k] \in Nat /\ Total(s) \in Nat /\ Total(s) >= s[k]
<1> DEFINE n == Len(s)
<1>1. n \in Nat /\ k \in 1..n /\ \A i \in 1..n : s[i] \in Nat
  OBVIOUS
<1>2. PICK f \in [0..n -> Nat] : Sums(s, f, n) /\ Total(s) = f[n]
  BY TotalIs
<1>3. f[0] = 0 /\ \A i \in 1..n : f[i] = f[i - 1] + s[i]
  BY <1>2 DEF Sums
<1>4. ASSUME NEW y \in Nat PROVE Total([s EXCEPT ![k] = y]) \in Nat
                                 /\ Total([s EXCEPT ![k] = y]) = Total(s) - s[k] + y
  <2> DEFINE w == [s EXCEPT ![k] = y]
  <2>1. w \in Seq(Nat) /\ Len(w) = n /\ w[k] = y /\ \A i \in 1..n : i # k => w[i] = s[i]
    OBVIOUS
  <2> HIDE DEF w, n
  <2> DEFINE g == [i \in 0..n |-> IF i < k THEN f[i] ELSE f[i] - s[k] + y]
  <2>2. /\ \A i \in 0..n : i < k => g[i] = f[i]
        /\ \A i \in 0..n : i >= k => g[i] = f[i] - s[k] + y
    BY <1>1
  <2>0. g = [i \in 0..n |-> g[i]]
    OBVIOUS
  <2> HIDE DEF g
  <2>3. g[0] = 0
    <3>1. 0 \in 0..n /\ 0 < k
      BY <1>1
    <3> QED BY <1>3, <2>2, <3>1
  <2>4. ASSUME NEW i \in 1..n PROVE g[i] = g[i - 1] + w[i]
    <3>1. i \in 0..n /\ i - 1 \in 0..n /\ i \in Nat /\ k \in Nat
      BY <1>1
    <3>2. f[i] = f[i - 1] + s[i] /\ f[i - 1] \in Nat /\ s[i] \in Nat /\ s[k] \in Nat /\ f[i] \in Nat
      BY <1>1, <1>2, <1>3, <3>1
    <3>3. CASE i < k
      <4>1. g[i] = f[i] /\ g[i - 1] = f[i - 1] /\ w[i] = s[i]
        BY <2>1, <2>2, <3>1, <3>3
      <4> QED BY <3>2, <4>1
    <3>4. CASE i = k
      <4>1. g[i] = f[i] - s[i] + y /\ g[i - 1] = f[i - 1] /\ w[i] = y
        BY <2>1, <2>2, <3>1, <3>4
      <4> QED BY <3>2, <4>1, SMTT(60)
    <3>5. CASE i > k
      <4> DEFINE m == i - 1
                 a == f[m]
                 c == s[k]
                 e == s[i]
      <4>1. m >= k /\ m \in 0..n /\ i >= k /\ i # k
        BY <3>1, <3>5
      <4>2. g[i] = f[i] - c + y /\ g[m] = a - c + y /\ w[i] = e
        BY <2>1, <2>2, <3>1, <4>1
      <4>3. f[i] = a + e /\ a \in Nat /\ c \in Nat /\ e \in Nat
        BY <3>2
      <4> HIDE DEF a, c, e
      <4>4. g[i] = g[m] + w[i]
        BY <4>2, <4>3
      <4> QED BY <4>4
    <3> QED BY <3>1, <3>3, <3>4, <3>5
  <2>5. Sums(w, g, n)
    BY <2>0, <2>3, <2>4 DEF Sums
  <2>6. Total(w) = g[n] /\ Total(w) \in Nat
    BY <2>1, <2>5, TotalIs
  <2>7. g[n] = f[n] - s[k] + y
    BY <1>1, <2>2
  <2> QED BY <1>2, <2>6, <2>7 DEF w
<1>5. Total(s) \in Nat
  BY TotalIs
<1>6. Total([s EXCEPT ![k] = 0]) \in Nat /\ Total([s EXCEPT ![k] = 0]) = Total(s) - s[k] + 0
  BY <1>4
<1>7. Total(s) - s[k] \in Nat
  BY <1>1, <1>5, <1>6
<1> QED BY <1>1, <1>4, <1>5, <1>7, SMTT(60)

\* A number taken from either end.
LEMMA TotalButLast ==
  ASSUME NEW s \in Seq(Nat), s # << >>
  PROVE  Total(SubSeq(s, 1, Len(s) - 1)) = Total(s) - s[Len(s)]
<1> DEFINE n == Len(s)
           u == SubSeq(s, 1, n - 1)
           x == s[n]
           w == Append(u, x)
<1>1. n \in Nat /\ n > 0 /\ x \in Nat /\ Len(s) = n
  OBVIOUS
<1> HIDE DEF n
<1>2. u \in Seq(Nat) /\ Len(u) = n - 1 /\ \A i \in 1..(n - 1) : u[i] = s[i]
  BY <1>1
<1> HIDE DEF u, x
<1>3. w \in Seq(Nat) /\ Len(w) = n /\ w[n] = x /\ \A i \in 1..(n - 1) : w[i] = u[i]
  BY <1>1, <1>2
<1> HIDE DEF w
<1>4. w = s
  <2>1. \A i \in 1..n : w[i] = s[i]
    <3>1. w[n] = s[n]
      BY <1>3 DEF x
    <3>2. \A i \in 1..n : i # n => i \in 1..(n - 1)
      BY <1>1
    <3> QED BY <1>2, <1>3, <3>1, <3>2
  <2> QED BY <1>1, <1>3, <2>1, SameList
<1>5. Total(w) = Total(u) + x
  BY <1>1, <1>2, TotalAppend DEF w
<1>6. Total(u) \in Nat
  BY <1>2, TotalIs
<1>7. Total(u) = Total(s) - x
  BY <1>1, <1>4, <1>5, <1>6
<1> QED BY <1>7 DEF u, x, n

\* The first number taken away.
LEMMA TotalTail ==
  ASSUME NEW s \in Seq(Nat), s # << >>
  PROVE  Total(Tail(s)) = Total(s) - s[1]
<1> DEFINE u == Tail(s)
           x == s[1]
           w == <<x>> \o u
<1>1. x \in Nat /\ u \in Seq(Nat) /\ Len(u) = Len(s) - 1 /\ \A i \in 1..(Len(s) - 1) : u[i] = s[i + 1]
  OBVIOUS
<1>2. Len(s) \in Nat /\ Len(s) > 0
  OBVIOUS
<1> HIDE DEF u, x
<1>3. w \in Seq(Nat) /\ Len(w) = Len(s) /\ w[1] = x /\ \A i \in 2..Len(s) : w[i] = u[i - 1]
  BY <1>1, <1>2
<1> HIDE DEF w
<1>4. w = s
  <2>1. ASSUME NEW i \in 1..Len(s) PROVE w[i] = s[i]
    <3>1. CASE i = 1
      BY <1>3, <3>1 DEF x
    <3>2. CASE i # 1
      <4>1. i - 1 \in 1..(Len(s) - 1) /\ i \in 2..Len(s) /\ (i - 1) + 1 = i
        BY <3>2
      <4> QED BY <1>1, <1>3, <4>1
    <3> QED BY <3>1, <3>2
  <2> QED BY <1>3, <2>1, SameList
<1>5. Total(w) = x + Total(u)
  BY <1>1, TotalCons DEF w
<1>6. Total(u) \in Nat
  BY <1>1, TotalIs
<1>7. Total(u) = Total(s) - x
  BY <1>1, <1>4, <1>5, <1>6
<1> QED BY <1>7 DEF u, x

\* The empty list.
LEMMA TotalNone == Total(<< >>) = 0
<1> DEFINE s == << >>
<1>1. s \in Seq(Nat) /\ Len(s) = 0
  OBVIOUS
<1> HIDE DEF s
<1>2. PICK f \in [0..Len(s) -> Nat] : Sums(s, f, Len(s)) /\ Total(s) = f[Len(s)]
  BY <1>1, TotalIs
<1>3. f[0] = 0
  BY <1>2 DEF Sums
<1>4. Total(s) = 0
  BY <1>1, <1>2, <1>3
<1> QED BY <1>4 DEF s

-----------------------------------------------------------------------------
(* The two stores and the list of blocks in them.                          *)

\* A ring for n blocks.
IsRing(r, n) ==
  n \in Nat \ {0} /\ r \in [circleIndex: Slots(n + 1), head: 0..n, tail: 0..n]

\* It holds blocks from head to tail, and starts at slot 0 when it is empty.
Ring(n) ==
  /\ IsRing(staticBuffer, n)
  /\ Window(staticBuffer.circleIndex, n + 1, staticBuffer.head, staticBuffer.tail)
  /\ staticBuffer.head = staticBuffer.tail => staticBuffer.head = 0

\* The parts of a ring.
LEMMA RingParts ==
  ASSUME NEW r, NEW n, IsRing(r, n)
  PROVE  /\ n \in Nat /\ n + 1 > 1 /\ n + 1 \in Nat /\ (n + 1) - 1 = n /\ 0..((n + 1) - 1) = 0..n
         /\ r.circleIndex \in Slots(n + 1) /\ r.head \in 0..n /\ r.tail \in 0..n
         /\ r = [circleIndex |-> r.circleIndex, head |-> r.head, tail |-> r.tail]
         /\ r # NoRing /\ Cardinality(DOMAIN r.circleIndex) = n + 1
         /\ DOMAIN r.circleIndex = 0..n
<1>1. n \in Nat /\ n > 0 /\ r \in [circleIndex: Slots(n + 1), head: 0..n, tail: 0..n]
  BY DEF IsRing
<1>2. n + 1 \in Nat /\ n + 1 > 1 /\ (n + 1) - 1 = n
  BY <1>1
<1>3. /\ r.circleIndex \in Slots(n + 1) /\ r.head \in 0..n /\ r.tail \in 0..n
      /\ r = [circleIndex |-> r.circleIndex, head |-> r.head, tail |-> r.tail]
  BY <1>1
<1>4. DOMAIN r.circleIndex = 0..n
  BY <1>2, <1>3 DEF Slots
<1>5. r # NoRing
  <2>1. NoRing.circleIndex = << >> /\ DOMAIN << >> = {}
    BY DEF NoRing
  <2>2. 0 \in 0..n
    BY <1>1
  <2> QED BY <1>4, <2>1, <2>2
<1>6. Cardinality(0..n) = n + 1
  <2>1. Cardinality(0..n) = (IF 0 > n THEN 0 ELSE n - 0 + 1)
    BY <1>1, FS_Interval
  <2> QED BY <1>1, <2>1
<1> QED BY <1>2, <1>3, <1>4, <1>5, <1>6, <1>1

\* What ForEach and the index arithmetic are in static mode.
LEMMA RingView ==
  ASSUME NEW n, IsRing(staticBuffer, n)
  PROVE  /\ IsStaticMode /\ circleLen = n + 1
         /\ Count = RingCount(n + 1, staticBuffer.head, staticBuffer.tail)
         /\ ForEach = RingList(staticBuffer.circleIndex, n + 1, staticBuffer.head, staticBuffer.tail)
         /\ \A i, d : Forward(i, d) = Slot(n + 1, i, d)
         /\ \A i \in 0..n : Backward(i) = Slot(n + 1, i, n)
<1>1. IsStaticMode /\ circleLen = n + 1
  BY RingParts DEF IsStaticMode, circleLen
<1>2. Count = RingCount(n + 1, staticBuffer.head, staticBuffer.tail)
  BY <1>1 DEF Count, RingCount
<1>3. \A i, d : Forward(i, d) = Slot(n + 1, i, d)
  BY <1>1 DEF Forward, Slot
<1>4. \A i \in 0..n : Backward(i) = Slot(n + 1, i, n)
  <2>1. \A i \in 0..n : i + (n + 1) - 1 = i + n
    BY RingParts
  <2> QED BY <1>1, <2>1 DEF Backward, Slot
<1>5. ForEach = RingList(staticBuffer.circleIndex, n + 1, staticBuffer.head, staticBuffer.tail)
  <2> DEFINE m == RingCount(n + 1, staticBuffer.head, staticBuffer.tail)
             c == staticBuffer.circleIndex
             h == staticBuffer.head
  <2>1. ForEach = [i \in 1..m |-> c[Forward(h, i - 1)]]
    BY <1>1, <1>2 DEF ForEach
  <2> HIDE DEF m, c, h
  <2>2. [i \in 1..m |-> c[Forward(h, i - 1)]] = [i \in 1..m |-> c[Slot(n + 1, h, i - 1)]]
    BY <1>3
  <2> QED BY <2>1, <2>2 DEF RingList, m, c, h
<1> QED BY <1>1, <1>2, <1>3, <1>4, <1>5

\* The same after a step.
LEMMA RingViewNext ==
  ASSUME NEW n, IsRing(staticBuffer', n)
  PROVE  /\ IsStaticMode' /\ circleLen' = n + 1
         /\ Count' = RingCount(n + 1, staticBuffer'.head, staticBuffer'.tail)
         /\ ForEach'
              = RingList(staticBuffer'.circleIndex, n + 1, staticBuffer'.head, staticBuffer'.tail)
<1>1. IsStaticMode' /\ circleLen' = n + 1
  BY RingParts DEF IsStaticMode, circleLen
<1>2. Count' = RingCount(n + 1, staticBuffer'.head, staticBuffer'.tail)
  BY <1>1 DEF Count, RingCount
<1> DEFINE m == RingCount(n + 1, staticBuffer'.head, staticBuffer'.tail)
           c == staticBuffer'.circleIndex
           h == staticBuffer'.head
<1>3. ForEach' = [i \in 1..m |-> c[(h + (i - 1)) % (n + 1)]]
  BY <1>1, <1>2 DEF ForEach, Forward
<1> HIDE DEF m, c, h
<1>4. [i \in 1..m |-> c[(h + (i - 1)) % (n + 1)]] = [i \in 1..m |-> c[Slot(n + 1, h, i - 1)]]
  BY DEF Slot
<1> QED BY <1>1, <1>2, <1>3, <1>4 DEF RingList, m, c, h

\* Dynamic mode, before and after a step.
LEMMA ListView ==
  /\ staticBuffer = NoRing => ~IsStaticMode /\ ForEach = dynamicBuffer /\ Count = Len(dynamicBuffer)
  /\ staticBuffer' = NoRing => /\ ~IsStaticMode' /\ ForEach' = dynamicBuffer'
                               /\ Count' = Len(dynamicBuffer')
BY DEF IsStaticMode, ForEach, Count

\* A step to these slots, this head and this tail.
LEMMA RingStep ==
  ASSUME NEW n \in Nat, n > 0, NEW c \in Slots(n + 1), NEW h \in 0..n, NEW t \in 0..n,
         Window(c, n + 1, h, t), h = t => h = 0,
         staticBuffer' = [circleIndex |-> c, head |-> h, tail |-> t]
  PROVE  Ring(n)' /\ ForEach' = RingList(c, n + 1, h, t)
<1>1. /\ staticBuffer'.circleIndex = c /\ staticBuffer'.head = h /\ staticBuffer'.tail = t
      /\ staticBuffer' \in [circleIndex: Slots(n + 1), head: 0..n, tail: 0..n]
  OBVIOUS
<1>2. IsRing(staticBuffer', n)
  BY <1>1 DEF IsRing
<1>3. Ring(n)'
  BY <1>1, <1>2 DEF Ring
<1>4. ForEach' = RingList(c, n + 1, h, t)
  BY <1>1, <1>2, RingViewNext
<1> QED BY <1>3, <1>4

\* What Ring says, in terms of the slots.
LEMMA RingState ==
  ASSUME NEW n, Ring(n)
  PROVE  LET c == staticBuffer.circleIndex
             h == staticBuffer.head
             t == staticBuffer.tail
             L == n + 1
         IN  /\ n \in Nat /\ n > 0 /\ L \in Nat /\ L > 1 /\ L - 1 = n
             /\ c \in Slots(L) /\ h \in 0..(L - 1) /\ t \in 0..(L - 1)
             /\ Window(c, L, h, t) /\ (h = t => h = 0)
             /\ ForEach = RingList(c, L, h, t) /\ Count = RingCount(L, h, t)
             /\ ForEach \in Seq(Cell) /\ Len(ForEach) = Count /\ Count \in 0..n
             /\ staticFull <=> Slot(L, t, 1) = h
             /\ IsStaticMode /\ circleLen = L
<1> DEFINE c == staticBuffer.circleIndex
           h == staticBuffer.head
           t == staticBuffer.tail
           L == n + 1
<1>1. IsRing(staticBuffer, n) /\ Window(c, L, h, t) /\ (h = t => h = 0)
  BY DEF Ring
<1>2. /\ n \in Nat /\ n > 0 /\ L \in Nat /\ L > 1 /\ L - 1 = n
      /\ c \in Slots(L) /\ h \in 0..n /\ t \in 0..n
  BY <1>1, RingParts DEF IsRing
<1>3. h \in 0..(L - 1) /\ t \in 0..(L - 1)
  BY <1>2
<1>4. /\ ForEach = RingList(c, L, h, t) /\ Count = RingCount(L, h, t)
      /\ Forward(t, 1) = Slot(L, t, 1) /\ IsStaticMode /\ circleLen = L
  BY <1>1, RingView
<1>5. staticFull <=> Slot(L, t, 1) = h
  BY <1>4 DEF staticFull
<1> HIDE DEF c, h, t, L
<1>6. RingCount(L, h, t) \in 0..(L - 1) /\ RingList(c, L, h, t) \in Seq(Cell)
      /\ Len(RingList(c, L, h, t)) = RingCount(L, h, t)
  BY <1>2, <1>3, RingListType
<1> QED BY <1>1, <1>2, <1>3, <1>4, <1>5, <1>6 DEF c, h, t, L

-----------------------------------------------------------------------------
(* The operations on the ring are those on the list.                       *)

\* Where the first and the last block are.
LEMMA EndSlots ==
  ASSUME NEW L \in Nat, L > 1, NEW h \in 0..(L - 1), NEW t \in 0..(L - 1), h # t
  PROVE  /\ RingCount(L, h, t) \in 1..(L - 1) /\ h = Slot(L, h, 0)
         /\ Slot(L, t, L - 1) \in 0..(L - 1)
         /\ Slot(L, t, L - 1) = Slot(L, h, RingCount(L, h, t) - 1)
<1> DEFINE n == RingCount(L, h, t)
           last == Slot(L, t, L - 1)
<1>1. \A j \in 0..L : Slot(L, h, j) = (IF h + j < L THEN h + j ELSE h + j - L)
  BY SlotAll
<1>2. last = (IF t > 0 THEN t - 1 ELSE L - 1) /\ last \in 0..(L - 1)
  <2>1. L - 1 \in 0..L
    OBVIOUS
  <2>2. last = (IF t + (L - 1) < L THEN t + (L - 1) ELSE t + (L - 1) - L)
    BY <2>1, SlotAll
  <2> QED BY <2>2
<1> HIDE DEF last
<1>3. n \in 1..(L - 1) /\ last = (IF h + (n - 1) < L THEN h + (n - 1) ELSE h + (n - 1) - L)
  BY <1>2 DEF RingCount
<1> HIDE DEF n
<1>4. n - 1 \in 0..L
  BY <1>3
<1>5. last = Slot(L, h, n - 1) /\ h = Slot(L, h, 0)
  BY <1>1, <1>3, <1>4
<1> QED BY <1>2, <1>3, <1>5 DEF n, last

\* Two nil slots mean that the ring is empty.
LEMMA NilIsEmpty ==
  ASSUME NEW n, Ring(n)
  PROVE  slotsEmpty <=> staticBuffer.head = staticBuffer.tail
<1> DEFINE c == staticBuffer.circleIndex
           h == staticBuffer.head
           t == staticBuffer.tail
           L == n + 1
<1>1. /\ L \in Nat /\ L > 1 /\ c \in Slots(L) /\ h \in 0..(L - 1) /\ t \in 0..(L - 1)
      /\ Window(c, L, h, t)
  BY RingState
<1>2. slotsEmpty <=> c[h] = NoBlock /\ c[t] = NoBlock
  BY DEF slotsEmpty
<1> HIDE DEF c, h, t, L
<1>3. ASSUME h = t PROVE c[h] = NoBlock /\ c[t] = NoBlock
  BY <1>1, <1>3, RingEmpty
<1>4. ASSUME h # t PROVE c[h] # NoBlock
  <2>1. RingCount(L, h, t) \in 1..(L - 1) /\ h = Slot(L, h, 0)
    BY <1>1, <1>4, EndSlots
  <2>2. 0 \in 0..(RingCount(L, h, t) - 1)
    BY <2>1
  <2> QED BY <1>1, <2>1, <2>2 DEF Window
<1>5. slotsEmpty <=> h = t
  BY <1>2, <1>3, <1>4
<1> QED BY <1>5 DEF h, t

\* A block put into an empty ring.
LEMMA RingFirst ==
  ASSUME NEW n, Ring(n), slotsEmpty, NEW b \in BufferBlock, staticPushFirst(b)
  PROVE  Ring(n)' /\ ForEach = << >> /\ ForEach' = Append(ForEach, b)
<1> DEFINE c == staticBuffer.circleIndex
           h == staticBuffer.head
           t == staticBuffer.tail
           L == n + 1
           d == SetCell(c, 0, b)
<1>1. /\ n \in Nat /\ n > 0 /\ L \in Nat /\ L > 1 /\ L - 1 = n
      /\ c \in Slots(L) /\ h \in 0..(L - 1) /\ t \in 0..(L - 1)
      /\ Window(c, L, h, t) /\ (h = t => h = 0) /\ ForEach = RingList(c, L, h, t) /\ circleLen = L
  BY RingState
<1>2. h = 0 /\ t = 0
  BY <1>1, NilIsEmpty
<1>3. staticBuffer' = [circleIndex |-> d, head |-> 0, tail |-> 1 % L]
  BY <1>1 DEF staticPushFirst, SetCell
<1>4. b \in Cell
  BY DEF Cell
<1> HIDE DEF c, h, t, L
<1>5. 0 \in 0..(L - 1) /\ 1 \in 0..L
  BY <1>1
<1>6. d \in Slots(L) /\ Differs(c, d, L, 0, b)
  BY <1>1, <1>4, <1>5, CellSet
<1> HIDE DEF d
<1>7. Window(c, L, 0, 0) /\ ForEach = RingList(c, L, 0, 0)
  BY <1>1, <1>2
<1>8. Slot(L, 0, 1) = 1
  BY <1>1, <1>5, SlotAll
<1>9. 1 % L = Slot(L, 0, 1)
  BY DEF Slot
<1>10. Slot(L, 0, 1) # 0
  BY <1>8
<1> DEFINE z == 0
<1>11. z \in 0..(L - 1) /\ Window(c, L, z, z) /\ Slot(L, z, 1) # z /\ Differs(c, d, L, z, b)
  BY <1>5, <1>6, <1>7, <1>10
<1> HIDE DEF z
<1>12. /\ Slot(L, z, 1) \in 0..(L - 1) /\ Window(d, L, z, Slot(L, z, 1))
       /\ RingList(d, L, z, Slot(L, z, 1)) = Append(RingList(c, L, z, z), b)
  BY <1>1, <1>6, <1>11, RingPushBack
<1>13. RingList(c, L, z, z) = << >>
  BY <1>1, <1>11, RingEmpty
<1> DEFINE next == Slot(L, z, 1)
<1>14. staticBuffer' = [circleIndex |-> d, head |-> z, tail |-> next]
  BY <1>3, <1>9 DEF z
<1>15. next \in 0..n /\ z \in 0..n /\ (z = next => z = 0) /\ d \in Slots(n + 1) /\ Window(d, n + 1, z, next)
  BY <1>1, <1>6, <1>11, <1>12 DEF L
<1>16. RingList(d, n + 1, z, next) = Append(ForEach, b) /\ ForEach = << >>
  BY <1>7, <1>12, <1>13 DEF L, z
<1> HIDE DEF next
<1> QED BY <1>1, <1>14, <1>15, <1>16, RingStep

\* A ring with slot i set, and with tail or head moved.
SetSlot(r, i, b) == [r EXCEPT !.circleIndex[i] = b]
MoveTail(r, i, b, x) == [r EXCEPT !.circleIndex[i] = b, !.tail = x]
MoveHead(r, i, b, x) == [r EXCEPT !.circleIndex[i] = b, !.head = x]

\* What they are.
LEMMA RingRecord ==
  ASSUME NEW r, NEW n, IsRing(r, n), NEW i \in 0..n, NEW b \in Cell, NEW x \in 0..n
  PROVE  /\ SetSlot(r, i, b)
              = [circleIndex |-> SetCell(r.circleIndex, i, b), head |-> r.head, tail |-> r.tail]
         /\ MoveTail(r, i, b, x)
              = [circleIndex |-> SetCell(r.circleIndex, i, b), head |-> r.head, tail |-> x]
         /\ MoveHead(r, i, b, x)
              = [circleIndex |-> SetCell(r.circleIndex, i, b), head |-> x, tail |-> r.tail]
<1> DEFINE d == [r.circleIndex EXCEPT ![i] = b]
           q == [r EXCEPT !.circleIndex = d]
<1>1. r = [circleIndex |-> r.circleIndex, head |-> r.head, tail |-> r.tail]
  BY RingParts
<1> HIDE DEF d
<1>2. q = [circleIndex |-> d, head |-> r.head, tail |-> r.tail]
  BY <1>1
<1> HIDE DEF q
<1>3. [q EXCEPT !.tail = x] = [circleIndex |-> d, head |-> r.head, tail |-> x]
  BY <1>2
<1>4. [q EXCEPT !.head = x] = [circleIndex |-> d, head |-> x, tail |-> r.tail]
  BY <1>2
<1> QED BY <1>2, <1>3, <1>4 DEF q, d, SetCell, SetSlot, MoveTail, MoveHead

\* staticPushBack.
LEMMA StaticPushBack ==
  ASSUME NEW n, Ring(n), NEW v, NEW size, NewBufferBlock(v, size) \in BufferBlock,
         staticPushBack(v, size)
  PROVE  Ring(n)' /\ ForEach' = Append(ForEach, NewBufferBlock(v, size))
<1> DEFINE c == staticBuffer.circleIndex
           h == staticBuffer.head
           t == staticBuffer.tail
           L == n + 1
           b == NewBufferBlock(v, size)
           d == SetCell(c, t, b)
           next == Slot(L, t, 1)
<1>1. /\ n \in Nat /\ n > 0 /\ L \in Nat /\ L > 1 /\ L - 1 = n
      /\ c \in Slots(L) /\ h \in 0..(L - 1) /\ t \in 0..(L - 1)
      /\ Window(c, L, h, t) /\ ForEach = RingList(c, L, h, t)
      /\ staticFull <=> Slot(L, t, 1) = h
  BY RingState
<1>2. IsRing(staticBuffer, n) /\ Forward(t, 1) = next
  BY RingView DEF Ring
<1>3. CASE slotsEmpty /\ staticPushFirst(b)
  BY <1>3, RingFirst
<1>4. CASE staticBuffer' = [staticBuffer EXCEPT !.circleIndex[t] = b, !.tail = Forward(@, 1)]
  <2>1. next # h
    BY <1>1 DEF staticPushBack
  <2>2. staticBuffer' = [staticBuffer EXCEPT !.circleIndex[t] = b, !.tail = next]
    BY <1>2, <1>4
  <2>3. staticBuffer' = [circleIndex |-> d, head |-> h, tail |-> next]
    <3>1. t \in 0..n /\ next \in 0..n /\ b \in Cell
      <4>1. 1 \in 0..L
        BY <1>1
      <4> HIDE DEF c, h, t, L, b
      <4> QED BY <1>1, <4>1, SlotAll DEF Cell, b
    <3> DEFINE r == staticBuffer
    <3>2. IsRing(r, n) /\ staticBuffer' = MoveTail(r, t, b, next)
      BY <1>2, <2>2 DEF MoveTail
    <3> HIDE DEF b, next, r
    <3>3. MoveTail(r, t, b, next)
            = [circleIndex |-> SetCell(r.circleIndex, t, b), head |-> r.head, tail |-> next]
      BY <3>1, <3>2, RingRecord
    <3> QED BY <3>2, <3>3 DEF r
  <2>4. b \in Cell /\ b \in BufferBlock
    BY DEF Cell
  <2> HIDE DEF c, h, t, L, b
  <2>5. d \in Slots(L) /\ Differs(c, d, L, t, b)
    BY <1>1, <2>4, CellSet
  <2> HIDE DEF d
  <2>6. Slot(L, t, 1) # h
    BY <2>1
  <2>7. /\ next \in 0..(L - 1) /\ Window(d, L, h, next)
        /\ RingList(d, L, h, next) = Append(RingList(c, L, h, t), b)
    BY <1>1, <2>4, <2>5, <2>6, RingPushBack
  <2> HIDE DEF next
  <2>8. /\ h \in 0..n /\ next \in 0..n /\ (h = next => h = 0)
        /\ d \in Slots(n + 1) /\ Window(d, n + 1, h, next)
        /\ RingList(d, n + 1, h, next) = Append(ForEach, b)
    BY <1>1, <2>1, <2>5, <2>7 DEF L
  <2>9. Ring(n)' /\ ForEach' = RingList(d, n + 1, h, next)
    BY <1>1, <2>3, <2>8, RingStep
  <2> QED BY <2>8, <2>9 DEF b
<1> QED BY <1>3, <1>4 DEF staticPushBack

\* staticPushFront.
LEMMA StaticPushFront ==
  ASSUME NEW n, Ring(n), NEW v, NEW size, NewBufferBlock(v, size) \in BufferBlock,
         staticPushFront(v, size)
  PROVE  Ring(n)' /\ ForEach' = <<NewBufferBlock(v, size)>> \o ForEach
<1> DEFINE c == staticBuffer.circleIndex
           h == staticBuffer.head
           t == staticBuffer.tail
           L == n + 1
           b == NewBufferBlock(v, size)
           next == Slot(L, h, L - 1)
           d == SetCell(c, next, b)
<1>1. /\ n \in Nat /\ n > 0 /\ L \in Nat /\ L > 1 /\ L - 1 = n
      /\ c \in Slots(L) /\ h \in 0..(L - 1) /\ t \in 0..(L - 1)
      /\ Window(c, L, h, t) /\ ForEach = RingList(c, L, h, t)
      /\ staticFull <=> Slot(L, t, 1) = h
  BY RingState
<1>2. IsRing(staticBuffer, n) /\ Backward(h) = next
  <2>1. IsRing(staticBuffer, n) /\ h \in 0..n
    BY <1>1 DEF Ring
  <2>2. Backward(h) = Slot(n + 1, h, n)
    BY <2>1, RingView
  <2> QED BY <1>1, <2>1, <2>2
<1>3. CASE slotsEmpty /\ staticPushFirst(b)
  <2> HIDE DEF b
  <2>1. Ring(n)' /\ ForEach = << >> /\ ForEach' = Append(ForEach, b)
    BY <1>3, RingFirst DEF b
  <2>2. Append(<< >>, b) = <<b>> \o << >>
    OBVIOUS
  <2> QED BY <2>1, <2>2 DEF b
<1>4. CASE staticBuffer' = [staticBuffer EXCEPT !.circleIndex[Backward(staticBuffer.head)] = b,
                                                !.head = Backward(@)]
  <2>1. Slot(L, t, 1) # h
    BY <1>1 DEF staticPushFront
  <2>2. staticBuffer' = [staticBuffer EXCEPT !.circleIndex[next] = b, !.head = next]
    BY <1>2, <1>4
  <2>0. next \in 0..(L - 1) /\ next \in 0..n
    <3>1. L - 1 \in 0..L
      BY <1>1
    <3> HIDE DEF c, h, t, L, b
    <3> QED BY <1>1, <3>1, SlotAll
  <2>3. staticBuffer' = [circleIndex |-> d, head |-> next, tail |-> t]
    <3>1. b \in Cell
      BY DEF Cell
    <3> DEFINE r == staticBuffer
    <3>2. IsRing(r, n) /\ staticBuffer' = MoveHead(r, next, b, next)
      BY <1>2, <2>2 DEF MoveHead
    <3> HIDE DEF b, next, r
    <3>3. MoveHead(r, next, b, next)
            = [circleIndex |-> SetCell(r.circleIndex, next, b), head |-> next, tail |-> r.tail]
      BY <2>0, <3>1, <3>2, RingRecord
    <3> QED BY <3>2, <3>3 DEF r
  <2>4. b \in Cell /\ b \in BufferBlock
    BY DEF Cell
  <2> HIDE DEF c, h, t, L, b
  <2>5. d \in Slots(L) /\ Differs(c, d, L, Slot(L, h, L - 1), b)
    BY <1>1, <2>0, <2>4, CellSet
  <2> HIDE DEF d
  <2>7. /\ Window(d, L, next, t) /\ RingCount(L, next, t) = RingCount(L, h, t) + 1
        /\ RingList(d, L, next, t) = <<b>> \o RingList(c, L, h, t)
    BY <1>1, <2>1, <2>4, <2>5, RingPushFront
  <2> HIDE DEF next
  <2>8. next # t
    <3>1. RingCount(L, t, t) = 0 /\ RingCount(L, h, t) \in Nat
      BY <1>1 DEF RingCount
    <3> QED BY <2>7, <3>1
  <2>9. /\ t \in 0..n /\ (next = t => next = 0)
        /\ d \in Slots(n + 1) /\ Window(d, n + 1, next, t)
        /\ RingList(d, n + 1, next, t) = <<b>> \o ForEach
    BY <1>1, <2>5, <2>7, <2>8 DEF L
  <2>10. Ring(n)' /\ ForEach' = RingList(d, n + 1, next, t)
    BY <1>1, <2>0, <2>3, <2>9, RingStep
  <2> QED BY <2>9, <2>10 DEF b
<1> QED BY <1>3, <1>4 DEF staticPushFront

\* A ring that has become empty starts at slot 0 again.
LEMMA Restart ==
  ASSUME NEW L \in Nat, L > 1, NEW d \in Slots(L), NEW x \in 0..(L - 1), NEW y \in 0..(L - 1),
         Window(d, L, x, y), NEW p, NEW q,
         p = (IF x = y THEN 0 ELSE x), q = (IF x = y THEN 0 ELSE y)
  PROVE  /\ p \in 0..(L - 1) /\ q \in 0..(L - 1) /\ Window(d, L, p, q)
         /\ RingList(d, L, p, q) = RingList(d, L, x, y) /\ (p = q => p = 0)
<1>1. CASE x # y
  BY <1>1
<1>2. CASE x = y
  <2> DEFINE z == 0
  <2>1. z \in 0..(L - 1) /\ p = z /\ q = z
    BY <1>2
  <2>2. Window(d, L, x, x)
    BY <1>2
  <2> HIDE DEF z
  <2>3. \A i \in 0..(L - 1) : RingList(d, L, i, i) = << >> /\ Window(d, L, i, i)
    BY <2>2, RingEmpty
  <2>4. RingList(d, L, z, z) = RingList(d, L, x, x) /\ Window(d, L, z, z)
    BY <2>1, <2>3
  <2> QED BY <1>2, <2>1, <2>4 DEF z
<1> QED BY <1>1, <1>2

\* A block of the ring replaced.
LEMMA StaticSet ==
  ASSUME NEW n, Ring(n), NEW k \in 0..(Count - 1), NEW b \in BufferBlock,
         staticBuffer' = SetSlot(staticBuffer, Slot(n + 1, staticBuffer.head, k), b)
  PROVE  Ring(n)' /\ ForEach' = [ForEach EXCEPT ![k + 1] = b]
<1> DEFINE c == staticBuffer.circleIndex
           h == staticBuffer.head
           t == staticBuffer.tail
           L == n + 1
           i == Slot(L, h, k)
           d == SetCell(c, i, b)
<1>1. /\ n \in Nat /\ n > 0 /\ L \in Nat /\ L > 1 /\ L - 1 = n
      /\ c \in Slots(L) /\ h \in 0..(L - 1) /\ t \in 0..(L - 1)
      /\ Window(c, L, h, t) /\ ForEach = RingList(c, L, h, t) /\ (h = t => h = 0)
      /\ Count = RingCount(L, h, t) /\ Count \in 0..n
  BY RingState
<1>2. IsRing(staticBuffer, n)
  BY DEF Ring
<1>3. b \in Cell
  BY DEF Cell
<1>4. k \in 0..L /\ k \in 0..(RingCount(L, h, t) - 1)
  BY <1>1
<1>5. i \in 0..(L - 1) /\ i \in 0..n
  <2> HIDE DEF c, h, t, L
  <2> QED BY <1>1, <1>4, SlotAll
<1>6. staticBuffer' = [circleIndex |-> d, head |-> h, tail |-> t]
  <2> DEFINE r == staticBuffer
  <2>1. IsRing(r, n) /\ staticBuffer' = SetSlot(r, i, b) /\ t \in 0..n
    BY <1>1, <1>2
  <2> HIDE DEF r, i
  <2>2. SetSlot(r, i, b) = [circleIndex |-> SetCell(r.circleIndex, i, b), head |-> r.head, tail |-> r.tail]
    BY <1>3, <1>5, <2>1, RingRecord
  <2> QED BY <2>1, <2>2 DEF r
<1> HIDE DEF c, h, t, L
<1>7. d \in Slots(L) /\ Differs(c, d, L, Slot(L, h, k), b)
  BY <1>1, <1>3, <1>5, CellSet
<1> HIDE DEF d, i
<1>8. /\ Window(d, L, h, t)
      /\ RingList(d, L, h, t) = [RingList(c, L, h, t) EXCEPT ![k + 1] = b]
  BY <1>1, <1>4, <1>7, RingSet
<1> DEFINE s == RingList(d, L, h, t)
<1>9. s = [ForEach EXCEPT ![k + 1] = b]
  BY <1>1, <1>8
<1>10. /\ h \in 0..n /\ t \in 0..n /\ d \in Slots(n + 1) /\ Window(d, n + 1, h, t)
       /\ RingList(d, n + 1, h, t) = s
  BY <1>1, <1>7, <1>8 DEF L
<1> HIDE DEF s
<1>11. Ring(n)' /\ ForEach' = RingList(d, n + 1, h, t)
  BY <1>1, <1>6, <1>10, RingStep
<1>12. ForEach' = s
  BY <1>10, <1>11
<1> QED BY <1>9, <1>11, <1>12

\* The last block freed.
LEMMA StaticFreeBack ==
  ASSUME NEW n, Ring(n), staticBuffer.head # staticBuffer.tail, NEW b,
         staticBuffer' = RingAfterPop(Backward(staticBuffer.tail), b, TRUE,
                                      staticBuffer.head, Backward(staticBuffer.tail))
  PROVE  Ring(n)' /\ ForEach' = SubSeq(ForEach, 1, Count - 1)
<1> DEFINE c == staticBuffer.circleIndex
           h == staticBuffer.head
           t == staticBuffer.tail
           L == n + 1
           i == Slot(L, t, L - 1)
           d == SetCell(c, i, NoBlock)
           p == IF h = i THEN 0 ELSE h
           q == IF h = i THEN 0 ELSE i
<1>1. /\ n \in Nat /\ n > 0 /\ L \in Nat /\ L > 1 /\ L - 1 = n
      /\ c \in Slots(L) /\ h \in 0..(L - 1) /\ t \in 0..(L - 1)
      /\ Window(c, L, h, t) /\ ForEach = RingList(c, L, h, t) /\ h # t
      /\ Count = RingCount(L, h, t)
  BY RingState
<1>2. Backward(t) = i
  <2>1. IsRing(staticBuffer, n) /\ t \in 0..n
    BY <1>1 DEF Ring
  <2>2. Backward(t) = Slot(n + 1, t, n)
    BY <2>1, RingView
  <2> QED BY <1>1, <2>2
<1>3. staticBuffer' = [circleIndex |-> d, head |-> p, tail |-> q]
  BY <1>2 DEF RingAfterPop, SetCell
<1>4. NoBlock \in Cell
  BY DEF Cell
<1> HIDE DEF c, h, t, L
<1>5. i \in 0..(L - 1)
  BY <1>1, EndSlots
<1>6. d \in Slots(L) /\ Differs(c, d, L, Slot(L, t, L - 1), NoBlock)
  BY <1>1, <1>4, <1>5, CellSet
<1> HIDE DEF d
<1>7. /\ Window(d, L, h, i)
      /\ RingList(d, L, h, i) = SubSeq(RingList(c, L, h, t), 1, RingCount(L, h, t) - 1)
  BY <1>1, <1>6, RingPopBack
<1>8. p = (IF h = i THEN 0 ELSE h) /\ q = (IF h = i THEN 0 ELSE i)
  OBVIOUS
<1> HIDE DEF i, p, q
<1>9. /\ p \in 0..(L - 1) /\ q \in 0..(L - 1) /\ Window(d, L, p, q)
      /\ RingList(d, L, p, q) = RingList(d, L, h, i) /\ (p = q => p = 0)
  BY <1>1, <1>5, <1>6, <1>7, <1>8, Restart
<1>10. /\ p \in 0..n /\ q \in 0..n /\ d \in Slots(n + 1) /\ Window(d, n + 1, p, q)
       /\ RingList(d, n + 1, p, q) = SubSeq(ForEach, 1, Count - 1)
  BY <1>1, <1>6, <1>7, <1>9 DEF L
<1>11. Ring(n)' /\ ForEach' = RingList(d, n + 1, p, q)
  BY <1>1, <1>3, <1>9, <1>10, RingStep
<1> QED BY <1>10, <1>11

\* The first block freed.
LEMMA StaticFreeFront ==
  ASSUME NEW n, Ring(n), staticBuffer.head # staticBuffer.tail, NEW b,
         staticBuffer' = RingAfterPop(staticBuffer.head, b, TRUE,
                                      Forward(staticBuffer.head, 1), staticBuffer.tail)
  PROVE  Ring(n)' /\ ForEach' = Tail(ForEach)
<1> DEFINE c == staticBuffer.circleIndex
           h == staticBuffer.head
           t == staticBuffer.tail
           L == n + 1
           next == Slot(L, h, 1)
           d == SetCell(c, h, NoBlock)
           p == IF next = t THEN 0 ELSE next
           q == IF next = t THEN 0 ELSE t
<1>1. /\ n \in Nat /\ n > 0 /\ L \in Nat /\ L > 1 /\ L - 1 = n
      /\ c \in Slots(L) /\ h \in 0..(L - 1) /\ t \in 0..(L - 1)
      /\ Window(c, L, h, t) /\ ForEach = RingList(c, L, h, t) /\ h # t
  BY RingState
<1>2. Forward(h, 1) = next
  BY RingView DEF Ring
<1>3. staticBuffer' = [circleIndex |-> d, head |-> p, tail |-> q]
  BY <1>2 DEF RingAfterPop, SetCell
<1>4. NoBlock \in Cell
  BY DEF Cell
<1> HIDE DEF c, h, t, L
<1>5. d \in Slots(L) /\ Differs(c, d, L, h, NoBlock)
  BY <1>1, <1>4, CellSet
<1> HIDE DEF d
<1>6. /\ next \in 0..(L - 1) /\ Window(d, L, next, t)
      /\ RingList(d, L, next, t) = Tail(RingList(c, L, h, t))
  BY <1>1, <1>5, RingPopFront
<1>7. p = (IF next = t THEN 0 ELSE next) /\ q = (IF next = t THEN 0 ELSE t)
  OBVIOUS
<1> HIDE DEF next, p, q
<1>8. /\ p \in 0..(L - 1) /\ q \in 0..(L - 1) /\ Window(d, L, p, q)
      /\ RingList(d, L, p, q) = RingList(d, L, next, t) /\ (p = q => p = 0)
  BY <1>1, <1>5, <1>6, <1>7, Restart
<1>9. /\ p \in 0..n /\ q \in 0..n /\ d \in Slots(n + 1) /\ Window(d, n + 1, p, q)
      /\ RingList(d, n + 1, p, q) = Tail(ForEach)
  BY <1>1, <1>5, <1>6, <1>8 DEF L
<1>10. Ring(n)' /\ ForEach' = RingList(d, n + 1, p, q)
  BY <1>1, <1>3, <1>8, <1>9, RingStep
<1> QED BY <1>9, <1>10

-----------------------------------------------------------------------------
(* Blocks and their sizes.                                                 *)

\* A block of which no more than all bytes were read.
GoodBlock == {b \in BufferBlock : b.used <= Len(b.data)}

\* What the operations on a block do to it and to its size.
LEMMA BlockNew ==
  ASSUME NEW v \in Byte, NEW size \in Nat
  PROVE  /\ NewBufferBlock(v, size) \in GoodBlock /\ NewBufferBlock(v, size) \in BufferBlock
         /\ Size(NewBufferBlock(v, size)) = size
<1> DEFINE d == [i \in 1..size |-> v]
<1>1. d \in Seq(Byte) /\ Len(d) = size
  OBVIOUS
<1> HIDE DEF d
<1>2. [data |-> d, used |-> 0] \in GoodBlock /\ Size([data |-> d, used |-> 0]) = size
  BY <1>1 DEF GoodBlock, BufferBlock, Size
<1>3. NewBufferBlock(v, size) = [data |-> d, used |-> 0]
  BY DEF NewBufferBlock, d
<1> QED BY <1>2, <1>3 DEF GoodBlock

\* The parts of a block.
LEMMA BlockParts ==
  ASSUME NEW b \in GoodBlock
  PROVE  /\ b \in BufferBlock /\ b.data \in Seq(Byte) /\ b.used \in Nat /\ Len(b.data) \in Nat
         /\ b.used <= Len(b.data) /\ Size(b) \in Nat /\ Size(b) = Len(b.data) - b.used
<1>1. b \in BufferBlock /\ b.used <= Len(b.data)
  BY DEF GoodBlock
<1>2. b.data \in Seq(Byte) /\ b.used \in Nat
  BY <1>1 DEF BufferBlock
<1>3. Len(b.data) \in Nat
  BY <1>2
<1> QED BY <1>1, <1>2, <1>3 DEF Size

\* Some bytes of a block are popped.
LEMMA BlockPop ==
  ASSUME NEW b \in GoodBlock, NEW size \in Nat
  PROVE  /\ Clamp(b, size) \in 0..Size(b)
         /\ Pop(b, Clamp(b, size)) \in GoodBlock
         /\ Pop(b, Clamp(b, size)) = [data |-> b.data, used |-> b.used + Clamp(b, size)]
         /\ Size(Pop(b, Clamp(b, size))) = Size(b) - Clamp(b, size)
<1> DEFINE k == Clamp(b, size)
           p == Pop(b, k)
<1>1. /\ b.data \in Seq(Byte) /\ b.used \in Nat /\ Len(b.data) \in Nat
      /\ b.used <= Len(b.data) /\ Size(b) \in Nat /\ Size(b) = Len(b.data) - b.used
      /\ b \in BufferBlock
  BY BlockParts
<1>2. k \in 0..Size(b)
  BY <1>1 DEF Clamp
<1> HIDE DEF k
<1>3. ~(b.used + k > Len(b.data)) /\ b.used + k \in Nat /\ b.used + k <= Len(b.data)
  BY <1>1, <1>2
<1>4. b = [data |-> b.data, used |-> b.used]
  BY <1>1 DEF BufferBlock
<1>5. p = [b EXCEPT !.used = b.used + k]
  BY <1>3 DEF Pop
<1>6. p = [data |-> b.data, used |-> b.used + k]
  BY <1>4, <1>5
<1> HIDE DEF p
<1>7. p.data = b.data /\ p.used = b.used + k /\ p \in BufferBlock
  BY <1>1, <1>3, <1>6 DEF BufferBlock
<1>8. p \in GoodBlock /\ Size(p) = Size(b) - k
  BY <1>1, <1>2, <1>3, <1>7 DEF GoodBlock, Size
<1> QED BY <1>2, <1>6, <1>8 DEF p, k

\* A block is extended at either side.
LEMMA BlockGrown ==
  ASSUME NEW b \in GoodBlock, NEW v \in Byte, NEW size \in Nat
  PROVE  /\ GrownBack(b, v, size) \in GoodBlock /\ Size(GrownBack(b, v, size)) = Size(b) + size
         /\ GrownBack(b, v, size) = [data |-> b.data \o [i \in 1..size |-> v], used |-> b.used]
         /\ GrownFront(b, v, size) \in GoodBlock /\ Size(GrownFront(b, v, size)) = Size(b) + size
         /\ GrownFront(b, v, size) = [data |-> [i \in 1..size |-> v] \o b.data, used |-> b.used]
<1> DEFINE d == [i \in 1..size |-> v]
           back == b.data \o d
           front == d \o b.data
<1>1. /\ b.data \in Seq(Byte) /\ b.used \in Nat /\ Len(b.data) \in Nat
      /\ b.used <= Len(b.data) /\ Size(b) \in Nat /\ Size(b) = Len(b.data) - b.used
      /\ b \in BufferBlock
  BY BlockParts
<1>2. d \in Seq(Byte) /\ Len(d) = size
  OBVIOUS
<1> HIDE DEF d
<1>3. /\ back \in Seq(Byte) /\ Len(back) = Len(b.data) + size
      /\ front \in Seq(Byte) /\ Len(front) = Len(b.data) + size
  BY <1>1, <1>2
<1>4. b = [data |-> b.data, used |-> b.used]
  BY <1>1 DEF BufferBlock
<1>5. GrownBack(b, v, size) = [b EXCEPT !.data = back] /\ GrownFront(b, v, size) = [b EXCEPT !.data = front]
  BY DEF GrownBack, GrownFront, d
<1> HIDE DEF back, front
<1>6. /\ [b EXCEPT !.data = back] = [data |-> back, used |-> b.used]
      /\ [b EXCEPT !.data = front] = [data |-> front, used |-> b.used]
  BY <1>4
<1>7. \A x \in Seq(Byte) : Len(x) = Len(b.data) + size =>
        [data |-> x, used |-> b.used] \in GoodBlock /\ Size([data |-> x, used |-> b.used]) = Size(b) + size
  <2> SUFFICES ASSUME NEW x \in Seq(Byte), Len(x) = Len(b.data) + size
               PROVE  /\ [data |-> x, used |-> b.used] \in GoodBlock
                      /\ Size([data |-> x, used |-> b.used]) = Size(b) + size
    OBVIOUS
  <2> DEFINE g == [data |-> x, used |-> b.used]
  <2>1. g \in BufferBlock /\ g.data = x /\ g.used = b.used
    BY <1>1 DEF BufferBlock
  <2> HIDE DEF g
  <2>2. Size(g) = Len(x) - b.used
    BY <2>1 DEF Size
  <2>3. g.used <= Len(g.data) /\ Size(g) = Size(b) + size
    BY <1>1, <2>1, <2>2
  <2>4. g \in GoodBlock
    BY <2>1, <2>3 DEF GoodBlock
  <2> QED BY <2>3, <2>4 DEF g
<1> QED BY <1>3, <1>5, <1>6, <1>7 DEF back, front, d

\* The unread bytes of a list of blocks.
SizesOf(s) == [i \in 1..Len(s) |-> Size(s[i])]
Unread(s) == Total(SizesOf(s))

\* The list of their sizes.
LEMMA SizesType ==
  ASSUME NEW s \in Seq(GoodBlock)
  PROVE  /\ SizesOf(s) \in Seq(Nat) /\ Len(SizesOf(s)) = Len(s)
         /\ \A i \in 1..Len(s) : SizesOf(s)[i] = Size(s[i]) /\ Size(s[i]) \in Nat
<1>1. \A i \in 1..Len(s) : Size(s[i]) \in Nat
  BY BlockParts
<1>2. Len(s) \in Nat
  OBVIOUS
<1> QED BY <1>1, <1>2 DEF SizesOf

\* A block more.
LEMMA UnreadPush ==
  ASSUME NEW s \in Seq(GoodBlock), NEW b \in GoodBlock
  PROVE  /\ Unread(s) \in Nat /\ Size(b) \in Nat
         /\ Unread(Append(s, b)) = Unread(s) + Size(b)
         /\ Unread(<<b>> \o s) = Unread(s) + Size(b)
         /\ Append(s, b) \in Seq(GoodBlock) /\ <<b>> \o s \in Seq(GoodBlock)
         /\ Len(Append(s, b)) = Len(s) + 1 /\ Len(<<b>> \o s) = Len(s) + 1
<1> DEFINE n == Len(s)
           z == SizesOf(s)
           x == Size(b)
           back == Append(s, b)
           front == <<b>> \o s
<1>1. n \in Nat /\ z \in Seq(Nat) /\ Len(z) = n /\ \A i \in 1..n : z[i] = Size(s[i])
  BY SizesType
<1>2. x \in Nat
  BY BlockParts
<1>3. /\ back \in Seq(GoodBlock) /\ Len(back) = n + 1 /\ back[n + 1] = b
      /\ \A i \in 1..n : back[i] = s[i]
  OBVIOUS
<1>4. /\ front \in Seq(GoodBlock) /\ Len(front) = n + 1 /\ front[1] = b
      /\ \A i \in 2..(n + 1) : front[i] = s[i - 1]
  OBVIOUS
<1> HIDE DEF n, z, x, back, front
<1>5. SizesOf(back) = Append(z, x)
  <2> DEFINE u == SizesOf(back)
             w == Append(z, x)
  <2>1. u \in Seq(Nat) /\ Len(u) = n + 1 /\ \A i \in 1..(n + 1) : u[i] = Size(back[i])
    BY <1>3, SizesType
  <2>2. w \in Seq(Nat) /\ Len(w) = n + 1 /\ w[n + 1] = x /\ \A i \in 1..n : w[i] = z[i]
    BY <1>1, <1>2
  <2> HIDE DEF u, w
  <2>3. ASSUME NEW i \in 1..(n + 1) PROVE u[i] = w[i]
    <3>1. i = n + 1 \/ i \in 1..n
      BY <1>1
    <3> QED BY <1>1, <1>3, <2>1, <2>2, <3>1 DEF x
  <2>4. u = w
    BY <2>1, <2>2, <2>3, SameList
  <2> QED BY <2>4 DEF u, w
<1>6. SizesOf(front) = <<x>> \o z
  <2> DEFINE u == SizesOf(front)
             w == <<x>> \o z
  <2>1. u \in Seq(Nat) /\ Len(u) = n + 1 /\ \A i \in 1..(n + 1) : u[i] = Size(front[i])
    BY <1>4, SizesType
  <2>2. w \in Seq(Nat) /\ Len(w) = n + 1 /\ w[1] = x /\ \A i \in 2..(n + 1) : w[i] = z[i - 1]
    BY <1>1, <1>2
  <2> HIDE DEF u, w
  <2>3. ASSUME NEW i \in 1..(n + 1) PROVE u[i] = w[i]
    <3>1. CASE i = 1
      BY <1>4, <2>1, <2>2, <3>1 DEF x
    <3>2. CASE i # 1
      <4>1. i \in 2..(n + 1) /\ i - 1 \in 1..n
        BY <1>1, <3>2
      <4> QED BY <1>1, <1>4, <2>1, <2>2, <4>1
    <3> QED BY <3>1, <3>2
  <2>4. u = w
    BY <2>1, <2>2, <2>3, SameList
  <2> QED BY <2>4 DEF u, w
<1>7. Total(Append(z, x)) = Total(z) + x /\ Total(<<x>> \o z) = x + Total(z) /\ Total(z) \in Nat
  BY <1>1, <1>2, TotalAppend, TotalCons, TotalIs
<1>8. Unread(back) = Unread(s) + x /\ Unread(front) = Unread(s) + x /\ Unread(s) \in Nat
  BY <1>2, <1>5, <1>6, <1>7 DEF Unread, z
<1> QED BY <1>2, <1>3, <1>4, <1>8 DEF back, front, n, x

\* A block replaced.
LEMMA UnreadSet ==
  ASSUME NEW s \in Seq(GoodBlock), NEW k \in 1..Len(s), NEW b \in GoodBlock
  PROVE  /\ Unread(s) \in Nat /\ Size(s[k]) \in Nat /\ Unread(s) >= Size(s[k])
         /\ [s EXCEPT ![k] = b] \in Seq(GoodBlock) /\ Len([s EXCEPT ![k] = b]) = Len(s)
         /\ Unread([s EXCEPT ![k] = b]) = Unread(s) - Size(s[k]) + Size(b)
<1> DEFINE n == Len(s)
           z == SizesOf(s)
           x == Size(b)
           t == [s EXCEPT ![k] = b]
<1>1. /\ n \in Nat /\ k \in 1..n /\ z \in Seq(Nat) /\ Len(z) = n
      /\ \A i \in 1..n : z[i] = Size(s[i])
  BY SizesType
<1>2. x \in Nat
  BY BlockParts
<1>3. t \in Seq(GoodBlock) /\ Len(t) = n /\ t[k] = b /\ \A i \in 1..n : i # k => t[i] = s[i]
  OBVIOUS
<1> HIDE DEF n, z, x, t
<1>4. SizesOf(t) = [z EXCEPT ![k] = x]
  <2> DEFINE u == SizesOf(t)
             w == [z EXCEPT ![k] = x]
  <2>1. u \in Seq(Nat) /\ Len(u) = n /\ \A i \in 1..n : u[i] = Size(t[i])
    BY <1>3, SizesType
  <2>2. w \in Seq(Nat) /\ Len(w) = n /\ w[k] = x /\ \A i \in 1..n : i # k => w[i] = z[i]
    BY <1>1, <1>2
  <2> HIDE DEF u, w
  <2>3. \A i \in 1..n : u[i] = w[i]
    BY <1>1, <1>3, <2>1, <2>2 DEF x
  <2>4. u = w
    BY <2>1, <2>2, <2>3, SameList
  <2> QED BY <2>4 DEF u, w
<1>5. /\ Total([z EXCEPT ![k] = x]) = Total(z) - z[k] + x
      /\ z[k] \in Nat /\ Total(z) \in Nat /\ Total(z) >= z[k]
  BY <1>1, <1>2, TotalSet
<1>6. z[k] = Size(s[k])
  BY <1>1
<1> DEFINE a == Total(z)
<1>7. Unread(s) = a /\ Unread(t) = a - Size(s[k]) + x
  BY <1>4, <1>5, <1>6 DEF Unread, z
<1> HIDE DEF a
<1>8. a \in Nat /\ Size(s[k]) \in Nat /\ a >= Size(s[k])
  BY <1>5, <1>6 DEF a
<1> QED BY <1>3, <1>7, <1>8 DEF t, x, n

\* A block less.
LEMMA UnreadPop ==
  ASSUME NEW s \in Seq(GoodBlock), s # << >>
  PROVE  /\ Len(s) \in Nat /\ Len(s) > 0
         /\ Unread(SubSeq(s, 1, Len(s) - 1)) = Unread(s) - Size(s[Len(s)])
         /\ SubSeq(s, 1, Len(s) - 1) \in Seq(GoodBlock) /\ Len(SubSeq(s, 1, Len(s) - 1)) = Len(s) - 1
         /\ Unread(Tail(s)) = Unread(s) - Size(s[1])
         /\ Tail(s) \in Seq(GoodBlock) /\ Len(Tail(s)) = Len(s) - 1
<1> DEFINE n == Len(s)
           z == SizesOf(s)
           init == SubSeq(s, 1, n - 1)
           rest == Tail(s)
<1>0. n \in Nat /\ n > 0 /\ Len(s) = n
  OBVIOUS
<1>1. z \in Seq(Nat) /\ Len(z) = n /\ \A i \in 1..n : z[i] = Size(s[i])
  BY SizesType
<1>2. rest \in Seq(GoodBlock) /\ Len(rest) = n - 1 /\ \A i \in 1..(n - 1) : rest[i] = s[i + 1]
  OBVIOUS
<1> HIDE DEF n, rest
<1>3. init \in Seq(GoodBlock) /\ Len(init) = n - 1 /\ \A i \in 1..(n - 1) : init[i] = s[i]
  BY <1>0
<1> HIDE DEF z, init
<1>4. z # << >>
  BY <1>0, <1>1
<1>5. SizesOf(init) = SubSeq(z, 1, n - 1)
  <2> DEFINE u == SizesOf(init)
             w == SubSeq(z, 1, n - 1)
  <2>1. u \in Seq(Nat) /\ Len(u) = n - 1 /\ \A i \in 1..(n - 1) : u[i] = Size(init[i])
    BY <1>3, SizesType
  <2>2. w \in Seq(Nat) /\ Len(w) = n - 1 /\ \A i \in 1..(n - 1) : w[i] = z[i]
    BY <1>0, <1>1
  <2> HIDE DEF u, w
  <2>3. \A i \in 1..(n - 1) : u[i] = w[i]
    BY <1>0, <1>1, <1>3, <2>1, <2>2
  <2>4. u = w
    BY <2>1, <2>2, <2>3, SameList
  <2> QED BY <2>4 DEF u, w
<1>6. SizesOf(rest) = Tail(z)
  <2> DEFINE u == SizesOf(rest)
             w == Tail(z)
  <2>1. u \in Seq(Nat) /\ Len(u) = n - 1 /\ \A i \in 1..(n - 1) : u[i] = Size(rest[i])
    BY <1>2, SizesType
  <2>2. w \in Seq(Nat) /\ Len(w) = n - 1 /\ \A i \in 1..(n - 1) : w[i] = z[i + 1]
    BY <1>0, <1>1, <1>4
  <2> HIDE DEF u, w
  <2>3. ASSUME NEW i \in 1..(n - 1) PROVE u[i] = w[i]
    <3>1. i + 1 \in 1..n
      BY <1>0
    <3> QED BY <1>1, <1>2, <2>1, <2>2, <3>1
  <2>4. u = w
    BY <2>1, <2>2, <2>3, SameList
  <2> QED BY <2>4 DEF u, w
<1>7. Total(SubSeq(z, 1, n - 1)) = Total(z) - z[n] /\ Total(Tail(z)) = Total(z) - z[1]
  BY <1>1, <1>4, TotalButLast, TotalTail
<1>8. z[n] = Size(s[n]) /\ z[1] = Size(s[1])
  BY <1>0, <1>1
<1>9. Unread(init) = Unread(s) - Size(s[n]) /\ Unread(rest) = Unread(s) - Size(s[1])
  BY <1>5, <1>6, <1>7, <1>8 DEF Unread, z
<1> QED BY <1>0, <1>2, <1>3, <1>9 DEF init, rest, n

\* No block.
LEMMA UnreadNone == Unread(<< >>) = 0
<1>1. SizesOf(<< >>) = << >>
  <2>1. SizesOf(<< >>) \in Seq(Nat) /\ Len(SizesOf(<< >>)) = 0
    BY DEF SizesOf
  <2> QED BY <2>1
<1> QED BY <1>1, TotalNone DEF Unread

-----------------------------------------------------------------------------
(* The operations, in either mode, are those on the list of blocks.        *)

\* The two stores, with a ring for n blocks.
Store(n) == dynamicBuffer \in Seq(BufferBlock) /\ (staticBuffer = NoRing \/ Ring(n))

\* In which mode a store is.
LEMMA StoreMode ==
  ASSUME NEW n, Store(n)
  PROVE  /\ dynamicBuffer \in Seq(BufferBlock)
         /\ IsStaticMode => Ring(n)
         /\ ~IsStaticMode => staticBuffer = NoRing
BY DEF Store, IsStaticMode

\* Count and Empty in terms of the list.
LEMMA StoreCount ==
  ASSUME NEW n, Store(n)
  PROVE  /\ Count = Len(ForEach) /\ Count \in Nat /\ (Empty <=> ForEach = << >>)
         /\ IsStaticMode => (staticBuffer.head = staticBuffer.tail <=> ForEach = << >>)
<1>1. CASE staticBuffer = NoRing
  <2>1. ~IsStaticMode /\ ForEach = dynamicBuffer /\ Count = Len(dynamicBuffer)
    BY <1>1, ListView
  <2>2. dynamicBuffer \in Seq(BufferBlock)
    BY DEF Store
  <2> QED BY <2>1, <2>2 DEF Empty
<1>2. CASE Ring(n)
  <2> DEFINE h == staticBuffer.head
             t == staticBuffer.tail
             L == n + 1
  <2>1. /\ L \in Nat /\ L > 1 /\ n \in Nat /\ h \in 0..(L - 1) /\ t \in 0..(L - 1)
        /\ Count = RingCount(L, h, t) /\ ForEach \in Seq(Cell) /\ Len(ForEach) = Count
        /\ Count \in 0..n /\ IsStaticMode
    BY <1>2, RingState
  <2>2. Count = 0 <=> h = t
    BY <2>1 DEF RingCount
  <2>3. Count = 0 <=> ForEach = << >>
    BY <2>1
  <2>4. Empty <=> h = t
    BY <2>1 DEF Empty, staticEmpty
  <2> QED BY <2>1, <2>2, <2>3, <2>4
<1> QED BY <1>1, <1>2 DEF Store

\* The same after a step.
LEMMA StoreCountNext ==
  ASSUME NEW n, Store(n)'
  PROVE  /\ Count' = Len(ForEach') /\ Count' \in Nat
         /\ IsStaticMode' => (staticBuffer'.head = staticBuffer'.tail <=> ForEach' = << >>)
<1>1. CASE staticBuffer' = NoRing
  <2>1. ~IsStaticMode' /\ ForEach' = dynamicBuffer' /\ Count' = Len(dynamicBuffer')
    BY <1>1, ListView
  <2>2. dynamicBuffer' \in Seq(BufferBlock)
    BY DEF Store
  <2> QED BY <2>1, <2>2
<1>2. CASE Ring(n)'
  <2> DEFINE c == staticBuffer'.circleIndex
             h == staticBuffer'.head
             t == staticBuffer'.tail
             L == n + 1
  <2>1. IsRing(staticBuffer', n)
    BY <1>2 DEF Ring
  <2>2. /\ L \in Nat /\ L > 1 /\ n \in Nat /\ h \in 0..(L - 1) /\ t \in 0..(L - 1) /\ c \in Slots(L)
    BY <2>1, RingParts
  <2>3. Count' = RingCount(L, h, t) /\ ForEach' = RingList(c, L, h, t)
    BY <2>1, RingViewNext
  <2> HIDE DEF c, h, t, L
  <2>4. /\ RingCount(L, h, t) \in 0..(L - 1) /\ RingList(c, L, h, t) \in Seq(Cell)
        /\ Len(RingList(c, L, h, t)) = RingCount(L, h, t)
    BY <2>2, RingListType
  <2>5. Count' = Len(ForEach') /\ ForEach' \in Seq(Cell) /\ Count' \in Nat
    BY <2>2, <2>3, <2>4
  <2>6. Count' = 0 <=> h = t
    BY <2>2, <2>3 DEF RingCount
  <2>7. Count' = 0 <=> ForEach' = << >>
    BY <2>5
  <2> QED BY <2>5, <2>6, <2>7 DEF h, t
<1> QED BY <1>1, <1>2 DEF Store

\* A step of the list of dynamic mode, or of the ring.
LEMMA StoreStep ==
  ASSUME NEW n
  PROVE  /\ dynamicBuffer' \in Seq(BufferBlock) /\ staticBuffer' = NoRing =>
              Store(n)' /\ ForEach' = dynamicBuffer'
         /\ dynamicBuffer' \in Seq(BufferBlock) /\ Ring(n)' => Store(n)'
BY ListView DEF Store

\* PushBack appends a block.
LEMMA OpPushBack ==
  ASSUME NEW n, Store(n), NEW v \in Byte, NEW size \in Nat, PushBack(v, size)
  PROVE  Store(n)' /\ ForEach' = Append(ForEach, NewBufferBlock(v, size))
<1> DEFINE b == NewBufferBlock(v, size)
<1>1. b \in BufferBlock
  BY BlockNew
<1>2. CASE /\ ~IsStaticMode /\ dynamicBuffer' = Append(dynamicBuffer, b)
           /\ UNCHANGED staticBuffer
  <2> HIDE DEF b
  <2>1. /\ dynamicBuffer \in Seq(BufferBlock) /\ staticBuffer = NoRing
    BY <1>2, StoreMode
  <2>2. dynamicBuffer' \in Seq(BufferBlock) /\ staticBuffer' = NoRing /\ ForEach = dynamicBuffer
    BY <1>1, <1>2, <2>1, ListView
  <2> QED BY <1>2, <2>2, StoreStep DEF b
<1>3. CASE IsStaticMode /\ staticPushBack(v, size) /\ UNCHANGED dynamicBuffer
  <2>1. Ring(n) /\ dynamicBuffer' \in Seq(BufferBlock)
    BY <1>3, StoreMode
  <2>2. Ring(n)' /\ ForEach' = Append(ForEach, b)
    BY <1>1, <1>3, <2>1, StaticPushBack
  <2> QED BY <2>1, <2>2, StoreStep
<1> QED BY <1>2, <1>3 DEF PushBack

\* PushFront puts a block before the others.
LEMMA OpPushFront ==
  ASSUME NEW n, Store(n), NEW v \in Byte, NEW size \in Nat, PushFront(v, size)
  PROVE  Store(n)' /\ ForEach' = <<NewBufferBlock(v, size)>> \o ForEach
<1> DEFINE b == NewBufferBlock(v, size)
<1>1. b \in BufferBlock
  BY BlockNew
<1>2. CASE /\ ~IsStaticMode /\ dynamicBuffer' = <<b>> \o dynamicBuffer
           /\ UNCHANGED staticBuffer
  <2> HIDE DEF b
  <2>1. /\ dynamicBuffer \in Seq(BufferBlock) /\ staticBuffer = NoRing
    BY <1>2, StoreMode
  <2>2. dynamicBuffer' \in Seq(BufferBlock) /\ staticBuffer' = NoRing /\ ForEach = dynamicBuffer
    BY <1>1, <1>2, <2>1, ListView
  <2> QED BY <1>2, <2>2, StoreStep DEF b
<1>3. CASE IsStaticMode /\ staticPushFront(v, size) /\ UNCHANGED dynamicBuffer
  <2>1. Ring(n) /\ dynamicBuffer' \in Seq(BufferBlock)
    BY <1>3, StoreMode
  <2>2. Ring(n)' /\ ForEach' = <<b>> \o ForEach
    BY <1>1, <1>3, <2>1, StaticPushFront
  <2> QED BY <2>1, <2>2, StoreStep
<1> QED BY <1>2, <1>3 DEF PushFront

\* The slots of the first and the last block.
LEMMA EndViews ==
  ASSUME NEW n, Ring(n), ForEach # << >>
  PROVE  /\ staticBuffer.head # staticBuffer.tail /\ Count \in Nat /\ Count > 0
         /\ Count - 1 \in 0..(Count - 1) /\ 0 \in 0..(Count - 1)
         /\ staticBuffer.head = Slot(n + 1, staticBuffer.head, 0)
         /\ Backward(staticBuffer.tail) = Slot(n + 1, staticBuffer.head, Count - 1)
         /\ staticBuffer.circleIndex[staticBuffer.head] = Front
         /\ staticBuffer.circleIndex[Backward(staticBuffer.tail)] = Back
<1> DEFINE c == staticBuffer.circleIndex
           h == staticBuffer.head
           t == staticBuffer.tail
           L == n + 1
<1>1. /\ n \in Nat /\ L \in Nat /\ L > 1 /\ L - 1 = n
      /\ c \in Slots(L) /\ h \in 0..(L - 1) /\ t \in 0..(L - 1)
      /\ ForEach = RingList(c, L, h, t) /\ Count = RingCount(L, h, t) /\ IsStaticMode
  BY RingState
<1>3. h # t
  <2>1. ASSUME h = t PROVE FALSE
    <3>1. Count = 0
      BY <1>1, <2>1 DEF RingCount
    <3>2. Len(ForEach) = Count /\ ForEach \in Seq(Cell)
      BY RingState
    <3> QED BY <3>1, <3>2
  <2> QED BY <2>1
<1>4. Backward(t) = Slot(L, t, L - 1)
  <2>1. IsRing(staticBuffer, n) /\ t \in 0..n
    BY <1>1 DEF Ring
  <2>2. Backward(t) = Slot(n + 1, t, n)
    BY <2>1, RingView
  <2> QED BY <1>1, <2>2
<1> HIDE DEF c, h, t, L
<1>5. /\ RingCount(L, h, t) \in 1..(L - 1) /\ h = Slot(L, h, 0)
      /\ Slot(L, t, L - 1) = Slot(L, h, RingCount(L, h, t) - 1)
  BY <1>1, <1>3, EndSlots
<1>6. \A i \in 1..RingCount(L, h, t) : RingList(c, L, h, t)[i] = c[Slot(L, h, i - 1)]
  BY <1>1, RingListType
<1> DEFINE m == Count
<1>7. /\ m \in Nat /\ m > 0 /\ \A i \in 1..m : ForEach[i] = c[Slot(L, h, i - 1)]
      /\ Backward(t) = Slot(L, h, m - 1)
  BY <1>1, <1>4, <1>5, <1>6
<1>8. Front = ForEach[1] /\ Back = ForEach[m]
  BY DEF Front, Back
<1> HIDE DEF m
<1>9. ForEach[1] = c[Slot(L, h, 0)] /\ ForEach[m] = c[Slot(L, h, m - 1)]
  <2>1. 1 \in 1..m /\ m \in 1..m /\ 1 - 1 = 0
    BY <1>7
  <2>2. ForEach[m] = c[Slot(L, h, m - 1)]
    BY <1>7, <2>1
  <2>3. ForEach[1] = c[Slot(L, h, 1 - 1)]
    BY <1>7, <2>1
  <2> QED BY <2>1, <2>2, <2>3
<1>10. m - 1 \in 0..(m - 1) /\ 0 \in 0..(m - 1)
  BY <1>7
<1> QED BY <1>3, <1>5, <1>7, <1>8, <1>9, <1>10 DEF m, c, h, t, L

\* The ends of a list that is not empty.
LEMMA EndBlocks ==
  ASSUME NEW n, Store(n), ForEach \in Seq(GoodBlock), ForEach # << >>
  PROVE  /\ Count \in Nat /\ Count > 0 /\ Count \in 1..Len(ForEach) /\ 1 \in 1..Len(ForEach)
         /\ Front = ForEach[1] /\ Front \in GoodBlock
         /\ Back = ForEach[Count] /\ Back \in GoodBlock
<1>1. Count = Len(ForEach)
  BY StoreCount
<1>2. Len(ForEach) \in Nat /\ Len(ForEach) > 0
  OBVIOUS
<1>3. Front = ForEach[1] /\ Back = ForEach[Count]
  BY DEF Front, Back
<1> QED BY <1>1, <1>2, <1>3

\* PopBack takes bytes from the last block, and takes the block if it is
\* freed.
LEMMA OpPopBack ==
  ASSUME NEW n, Store(n), ForEach \in Seq(GoodBlock), NEW size \in Nat, NEW free \in BOOLEAN,
         PopBack(size, free), NEW b, b = Pop(Back, Clamp(Back, size)),
         NEW freed, freed = (free /\ Size(b) = 0)
  PROVE  /\ Store(n)' /\ ForEach # << >>
         /\ ForEach' = (IF freed THEN SubSeq(ForEach, 1, Count - 1) ELSE [ForEach EXCEPT ![Count] = b])
         /\ Refund(Clamp(Back, size), freed, ForEach' = << >>)
<1>1. ForEach # << >>
  BY StoreCount DEF PopBack
<1>2. /\ Count \in Nat /\ Count > 0 /\ Count \in 1..Len(ForEach) /\ Back \in GoodBlock
  BY <1>1, EndBlocks
<1>3. b \in GoodBlock /\ b \in BufferBlock
  BY <1>2, BlockPop DEF GoodBlock
<1>4. CASE ~IsStaticMode
  <2>1. /\ dynamicBuffer' = (IF freed THEN SubSeq(dynamicBuffer, 1, Count - 1)
                                      ELSE [dynamicBuffer EXCEPT ![Count] = b])
        /\ Refund(Clamp(Back, size), freed, dynamicBuffer' = << >>) /\ UNCHANGED staticBuffer
    BY <1>4 DEF PopBack, dynamicPopBack
  <2>2. dynamicBuffer \in Seq(BufferBlock) /\ staticBuffer' = NoRing /\ ForEach = dynamicBuffer
    BY <1>4, <2>1, StoreMode, ListView
  <2>3. dynamicBuffer' \in Seq(BufferBlock)
    <3>1. CASE freed
      BY <1>2, <2>1, <2>2, <3>1
    <3>2. CASE ~freed
      <4>1. dynamicBuffer' = [dynamicBuffer EXCEPT ![Count] = b]
        BY <2>1, <3>2
      <4>2. dynamicBuffer \in Seq(BufferBlock) /\ b \in BufferBlock /\ Count \in 1..Len(dynamicBuffer)
        BY <1>2, <1>3, <2>2
      <4> QED BY <4>1, <4>2
    <3> QED BY <3>1, <3>2
  <2>4. Store(n)' /\ ForEach' = dynamicBuffer'
    BY <2>2, <2>3, StoreStep
  <2> QED BY <1>1, <2>1, <2>2, <2>4
<1>5. CASE IsStaticMode
  <2> DEFINE i == Backward(staticBuffer.tail)
  <2>1. /\ staticBuffer' = RingAfterPop(i, b, freed, staticBuffer.head, i)
        /\ Refund(Clamp(Back, size), freed, staticBuffer'.head = staticBuffer'.tail)
        /\ UNCHANGED dynamicBuffer
    BY <1>5 DEF PopBack, staticPopBack
  <2>2. Ring(n) /\ dynamicBuffer' \in Seq(BufferBlock)
    BY <1>5, <2>1, StoreMode
  <2>3. /\ staticBuffer.head # staticBuffer.tail /\ Count - 1 \in 0..(Count - 1)
        /\ i = Slot(n + 1, staticBuffer.head, Count - 1)
    BY <1>1, <2>2, EndViews
  <2>4. /\ Ring(n)'
        /\ ForEach' = (IF freed THEN SubSeq(ForEach, 1, Count - 1) ELSE [ForEach EXCEPT ![Count] = b])
    <3>1. CASE freed
      <4>1. staticBuffer' = RingAfterPop(i, b, TRUE, staticBuffer.head, i)
        BY <2>1, <3>1 DEF RingAfterPop
      <4>2. Ring(n)' /\ ForEach' = SubSeq(ForEach, 1, Count - 1)
        BY <2>2, <2>3, <4>1, StaticFreeBack
      <4> QED BY <3>1, <4>2
    <3>2. CASE ~freed
      <4> DEFINE k == Count - 1
      <4>1. staticBuffer' = SetSlot(staticBuffer, Slot(n + 1, staticBuffer.head, k), b)
        BY <2>1, <2>3, <3>2 DEF RingAfterPop, SetSlot
      <4>2. k \in 0..(Count - 1) /\ k + 1 = Count
        BY <1>2, <2>3
      <4> HIDE DEF k
      <4>3. Ring(n)' /\ ForEach' = [ForEach EXCEPT ![k + 1] = b]
        BY <1>3, <2>2, <4>1, <4>2, StaticSet
      <4> QED BY <3>2, <4>2, <4>3
    <3> QED BY <3>1, <3>2
  <2>5. Store(n)' /\ IsStaticMode'
    BY <2>2, <2>4, StoreStep, RingViewNext DEF Ring
  <2>6. staticBuffer'.head = staticBuffer'.tail <=> ForEach' = << >>
    BY <2>5, StoreCountNext
  <2>7. Refund(Clamp(Back, size), freed, ForEach' = << >>)
    BY <2>1, <2>6 DEF Refund
  <2> QED BY <1>1, <2>4, <2>5, <2>7
<1> QED BY <1>4, <1>5

\* PopFront does the same to the first block.
LEMMA OpPopFront ==
  ASSUME NEW n, Store(n), ForEach \in Seq(GoodBlock), NEW size \in Nat, NEW free \in BOOLEAN,
         PopFront(size, free), NEW b, b = Pop(Front, Clamp(Front, size)),
         NEW freed, freed = (free /\ Size(b) = 0)
  PROVE  /\ Store(n)' /\ ForEach # << >>
         /\ ForEach' = (IF freed THEN Tail(ForEach) ELSE [ForEach EXCEPT ![1] = b])
         /\ Refund(Clamp(Front, size), freed, ForEach' = << >>)
<1>1. ForEach # << >>
  BY StoreCount DEF PopFront
<1>2. /\ Count \in Nat /\ Count > 0 /\ 1 \in 1..Len(ForEach) /\ Front \in GoodBlock
  BY <1>1, EndBlocks
<1>3. b \in GoodBlock /\ b \in BufferBlock
  BY <1>2, BlockPop DEF GoodBlock
<1>4. CASE ~IsStaticMode
  <2>1. /\ dynamicBuffer' = (IF freed THEN Tail(dynamicBuffer) ELSE [dynamicBuffer EXCEPT ![1] = b])
        /\ Refund(Clamp(Front, size), freed, dynamicBuffer' = << >>) /\ UNCHANGED staticBuffer
    BY <1>4 DEF PopFront, dynamicPopFront
  <2>2. dynamicBuffer \in Seq(BufferBlock) /\ staticBuffer' = NoRing /\ ForEach = dynamicBuffer
    BY <1>4, <2>1, StoreMode, ListView
  <2>3. dynamicBuffer' \in Seq(BufferBlock)
    <3>1. CASE freed
      BY <1>1, <2>1, <2>2, <3>1
    <3>2. CASE ~freed
      BY <1>2, <1>3, <2>1, <2>2, <3>2
    <3> QED BY <3>1, <3>2
  <2>4. Store(n)' /\ ForEach' = dynamicBuffer'
    BY <2>2, <2>3, StoreStep
  <2> QED BY <1>1, <2>1, <2>2, <2>4
<1>5. CASE IsStaticMode
  <2> DEFINE i == staticBuffer.head
  <2>1. /\ staticBuffer' = RingAfterPop(i, b, freed, Forward(i, 1), staticBuffer.tail)
        /\ Refund(Clamp(Front, size), freed, staticBuffer'.head = staticBuffer'.tail)
        /\ UNCHANGED dynamicBuffer
    BY <1>5 DEF PopFront, staticPopFront
  <2>2. Ring(n) /\ dynamicBuffer' \in Seq(BufferBlock)
    BY <1>5, <2>1, StoreMode
  <2>3. /\ staticBuffer.head # staticBuffer.tail /\ 0 \in 0..(Count - 1)
        /\ i = Slot(n + 1, staticBuffer.head, 0)
    BY <1>1, <2>2, EndViews
  <2>4. Ring(n)' /\ ForEach' = (IF freed THEN Tail(ForEach) ELSE [ForEach EXCEPT ![1] = b])
    <3>1. CASE freed
      <4>1. staticBuffer' = RingAfterPop(i, b, TRUE, Forward(i, 1), staticBuffer.tail)
        BY <2>1, <3>1 DEF RingAfterPop
      <4>2. Ring(n)' /\ ForEach' = Tail(ForEach)
        BY <2>2, <2>3, <4>1, StaticFreeFront
      <4> QED BY <3>1, <4>2
    <3>2. CASE ~freed
      <4> DEFINE k == 0
      <4>1. staticBuffer' = SetSlot(staticBuffer, i, b)
        BY <2>1, <3>2 DEF RingAfterPop, SetSlot
      <4>2. k \in 0..(Count - 1) /\ k + 1 = 1 /\ i = Slot(n + 1, staticBuffer.head, k)
        BY <1>2, <2>3
      <4> HIDE DEF k
      <4>3. staticBuffer' = SetSlot(staticBuffer, Slot(n + 1, staticBuffer.head, k), b)
        BY <4>1, <4>2
      <4>4. Ring(n)' /\ ForEach' = [ForEach EXCEPT ![k + 1] = b]
        BY <1>3, <2>2, <4>2, <4>3, StaticSet
      <4> QED BY <3>2, <4>2, <4>4
    <3> QED BY <3>1, <3>2
  <2>5. Store(n)' /\ IsStaticMode'
    BY <2>2, <2>4, StoreStep, RingViewNext DEF Ring
  <2>6. staticBuffer'.head = staticBuffer'.tail <=> ForEach' = << >>
    BY <2>5, StoreCountNext
  <2>7. Refund(Clamp(Front, size), freed, ForEach' = << >>)
    BY <2>1, <2>6 DEF Refund
  <2> QED BY <1>1, <2>4, <2>5, <2>7
<1> QED BY <1>4, <1>5

\* MergeBack extends the last block.
LEMMA OpMergeBack ==
  ASSUME NEW n, Store(n), ForEach \in Seq(GoodBlock), NEW v \in Byte, NEW size \in Nat,
         MergeBack(v, size)
  PROVE  /\ Store(n)' /\ ForEach # << >>
         /\ ForEach' = [ForEach EXCEPT ![Count] = GrownBack(Back, v, size)]
<1>1. ForEach # << >>
  BY StoreCount DEF MergeBack
<1>2. /\ Count \in Nat /\ Count > 0 /\ Count \in 1..Len(ForEach) /\ Back \in GoodBlock
      /\ Back = ForEach[Count]
  BY <1>1, EndBlocks
<1> DEFINE b == GrownBack(Back, v, size)
<1>3. b \in BufferBlock
  BY <1>2, BlockGrown DEF GoodBlock
<1>4. CASE ~IsStaticMode
  <2>1. /\ dynamicBuffer' = [dynamicBuffer EXCEPT ![Count] = GrownBack(@, v, size)]
        /\ UNCHANGED staticBuffer
    BY <1>4 DEF MergeBack, dynamicMergeBack
  <2>2. dynamicBuffer \in Seq(BufferBlock) /\ staticBuffer' = NoRing /\ ForEach = dynamicBuffer
    BY <1>4, <2>1, StoreMode, ListView
  <2>3. dynamicBuffer' = [dynamicBuffer EXCEPT ![Count] = b]
    BY <1>2, <2>1, <2>2
  <2> HIDE DEF b
  <2>4. dynamicBuffer' \in Seq(BufferBlock)
    BY <1>2, <1>3, <2>2, <2>3
  <2>5. Store(n)' /\ ForEach' = dynamicBuffer'
    BY <2>2, <2>4, StoreStep
  <2> QED BY <1>1, <2>2, <2>3, <2>5 DEF b
<1>5. CASE IsStaticMode
  <2> DEFINE i == Backward(staticBuffer.tail)
             k == Count - 1
  <2>1. /\ staticBuffer' = [staticBuffer EXCEPT !.circleIndex[i] = GrownBack(@, v, size)]
        /\ UNCHANGED dynamicBuffer
    BY <1>5 DEF MergeBack, staticMergeBack
  <2>2. Ring(n) /\ dynamicBuffer' \in Seq(BufferBlock)
    BY <1>5, <2>1, StoreMode
  <2>3. /\ k \in 0..(Count - 1) /\ i = Slot(n + 1, staticBuffer.head, k)
        /\ staticBuffer.circleIndex[i] = Back
    BY <1>1, <2>2, EndViews
  <2>4. staticBuffer' = SetSlot(staticBuffer, Slot(n + 1, staticBuffer.head, k), b)
    BY <2>1, <2>3 DEF SetSlot
  <2>5. k + 1 = Count
    BY <1>2
  <2> HIDE DEF k, i, b
  <2>6. Ring(n)' /\ ForEach' = [ForEach EXCEPT ![k + 1] = b]
    BY <1>3, <2>2, <2>3, <2>4, StaticSet
  <2>7. Store(n)'
    BY <2>2, <2>6, StoreStep
  <2> QED BY <1>1, <2>5, <2>6, <2>7 DEF b
<1> QED BY <1>4, <1>5

\* MergeFront extends the first block.
LEMMA OpMergeFront ==
  ASSUME NEW n, Store(n), ForEach \in Seq(GoodBlock), NEW v \in Byte, NEW size \in Nat,
         MergeFront(v, size)
  PROVE  /\ Store(n)' /\ ForEach # << >>
         /\ ForEach' = [ForEach EXCEPT ![1] = GrownFront(Front, v, size)]
<1>1. ForEach # << >>
  BY StoreCount DEF MergeFront
<1>2. /\ Count \in Nat /\ Count > 0 /\ 1 \in 1..Len(ForEach) /\ Front \in GoodBlock
      /\ Front = ForEach[1]
  BY <1>1, EndBlocks
<1> DEFINE b == GrownFront(Front, v, size)
<1>3. b \in BufferBlock
  BY <1>2, BlockGrown DEF GoodBlock
<1>4. CASE ~IsStaticMode
  <2>1. /\ dynamicBuffer' = [dynamicBuffer EXCEPT ![1] = GrownFront(@, v, size)]
        /\ UNCHANGED staticBuffer
    BY <1>4 DEF MergeFront, dynamicMergeFront
  <2>2. dynamicBuffer \in Seq(BufferBlock) /\ staticBuffer' = NoRing /\ ForEach = dynamicBuffer
    BY <1>4, <2>1, StoreMode, ListView
  <2>3. dynamicBuffer' = [dynamicBuffer EXCEPT ![1] = b]
    BY <1>2, <2>1, <2>2
  <2> HIDE DEF b
  <2>4. dynamicBuffer' \in Seq(BufferBlock)
    BY <1>2, <1>3, <2>2, <2>3
  <2>5. Store(n)' /\ ForEach' = dynamicBuffer'
    BY <2>2, <2>4, StoreStep
  <2> QED BY <1>1, <2>2, <2>3, <2>5 DEF b
<1>5. CASE IsStaticMode
  <2> DEFINE i == staticBuffer.head
             k == 0
  <2>1. /\ staticBuffer' = [staticBuffer EXCEPT !.circleIndex[i] = GrownFront(@, v, size)]
        /\ UNCHANGED dynamicBuffer
    BY <1>5 DEF MergeFront, staticMergeFront
  <2>2. Ring(n) /\ dynamicBuffer' \in Seq(BufferBlock)
    BY <1>5, <2>1, StoreMode
  <2>3. /\ k \in 0..(Count - 1) /\ i = Slot(n + 1, staticBuffer.head, k)
        /\ staticBuffer.circleIndex[i] = Front
    BY <1>1, <2>2, EndViews
  <2>4. staticBuffer' = SetSlot(staticBuffer, i, b)
    BY <2>1, <2>3 DEF SetSlot
  <2>5. k + 1 = 1
    OBVIOUS
  <2> HIDE DEF k, b
  <2>6. staticBuffer' = SetSlot(staticBuffer, Slot(n + 1, staticBuffer.head, k), b)
    BY <2>3, <2>4
  <2> HIDE DEF i
  <2>7. Ring(n)' /\ ForEach' = [ForEach EXCEPT ![k + 1] = b]
    BY <1>3, <2>2, <2>3, <2>6, StaticSet
  <2>8. Store(n)'
    BY <2>2, <2>7, StoreStep
  <2> QED BY <1>1, <2>5, <2>7, <2>8 DEF b
<1> QED BY <1>4, <1>5


-----------------------------------------------------------------------------
(* The invariant.                                                          *)

\* The costs and the limits.
Limits == [CostNumber: Nat, CostSize: Nat, LimitNumber: Nat, LimitSize: Nat]

\* The inductive invariant: the store is a list, or a ring of as many blocks as
\* the number limit allows; no block is read past its end; and the costs are
\* those of the blocks.
Inv ==
  /\ limit \in Limits
  /\ Store(limit.LimitNumber)
  /\ ForEach \in Seq(GoodBlock)
  /\ CostsMatch

\* What GrowthWithinLimits says of a step.
Growth ==
  /\ UnreadSize' > UnreadSize /\ limit'.LimitSize > 0 => UnreadSize' <= limit'.LimitSize
  /\ Count' > Count /\ limit'.LimitNumber > 0 => Count' <= limit'.LimitNumber

\* The costs of a list of blocks under the limits n and m.
Costs(s, n, m) == [CostNumber |-> Len(s), CostSize |-> Unread(s), LimitNumber |-> n, LimitSize |-> m]

\* What the invariant says, in terms of the list of blocks.
LEMMA InvParts ==
  ASSUME Inv, NEW n, n = limit.LimitNumber, NEW m, m = limit.LimitSize
  PROVE  /\ n \in Nat /\ m \in Nat /\ Store(n) /\ ForEach \in Seq(GoodBlock)
         /\ Count = Len(ForEach) /\ Count \in Nat /\ UnreadSize = Unread(ForEach) /\ Unread(ForEach) \in Nat
         /\ limit = Costs(ForEach, n, m)
<1>1. n \in Nat /\ m \in Nat /\ Store(n) /\ ForEach \in Seq(GoodBlock) /\ CostsMatch
  BY DEF Inv, Limits
<1>2. Count = Len(ForEach) /\ Count \in Nat
  BY <1>1, StoreCount
<1>3. UnreadSize = Unread(ForEach)
  BY <1>2 DEF UnreadSize, Unread, SizesOf
<1>4. limit.CostNumber = Len(ForEach) /\ limit.CostSize = Unread(ForEach)
  BY <1>1, <1>2, <1>3 DEF CostsMatch
<1>5. limit = [CostNumber |-> limit.CostNumber, CostSize |-> limit.CostSize,
               LimitNumber |-> limit.LimitNumber, LimitSize |-> limit.LimitSize]
  BY DEF Inv, Limits
<1>6. limit = Costs(ForEach, n, m)
  BY <1>4, <1>5 DEF Costs
<1>7. Unread(ForEach) \in Nat
  <2>1. SizesOf(ForEach) \in Seq(Nat)
    BY <1>1, SizesType
  <2> QED BY <2>1, TotalIs DEF Unread
<1> QED BY <1>1, <1>2, <1>3, <1>6, <1>7

\* How a step establishes it.
LEMMA InvStep ==
  ASSUME NEW n \in Nat, NEW m \in Nat, Store(n)', ForEach' \in Seq(GoodBlock),
         limit' = Costs(ForEach', n, m)
  PROVE  /\ Inv' /\ Count' = Len(ForEach') /\ UnreadSize' = Unread(ForEach')
         /\ Unread(ForEach') \in Nat /\ Len(ForEach') \in Nat
         /\ limit'.LimitNumber = n /\ limit'.LimitSize = m
<1>1. Count' = Len(ForEach') /\ Count' \in Nat
  BY StoreCountNext
<1>2. UnreadSize' = Unread(ForEach')
  BY <1>1 DEF UnreadSize, Unread, SizesOf
<1>3. Unread(ForEach') \in Nat
  <2>1. SizesOf(ForEach') \in Seq(Nat)
    BY SizesType
  <2> QED BY <2>1, TotalIs DEF Unread
<1>4. /\ limit'.CostNumber = Len(ForEach') /\ limit'.CostSize = Unread(ForEach')
      /\ limit'.LimitNumber = n /\ limit'.LimitSize = m
  BY DEF Costs
<1>5. limit' \in Limits
  BY <1>1, <1>3 DEF Costs, Limits
<1>6. CostsMatch'
  BY <1>1, <1>2, <1>4 DEF CostsMatch
<1>7. Store(limit.LimitNumber)'
  BY <1>4 DEF Store, Ring
<1> QED BY <1>1, <1>2, <1>3, <1>4, <1>5, <1>6, <1>7 DEF Inv

\* A new manager.
LEMMA StartsTidy == Init => Inv
<1> SUFFICES ASSUME Init PROVE Inv
  OBVIOUS
<1>1. staticBuffer = NoRing /\ dynamicBuffer = << >> /\ limit = NoLimit
  BY DEF Init
<1>2. ForEach = << >> /\ Count = 0
  BY <1>1, ListView
<1>3. << >> \in Seq(BufferBlock) /\ << >> \in Seq(GoodBlock)
  OBVIOUS
<1>4. UnreadSize = Unread(ForEach)
  BY <1>2 DEF UnreadSize, Unread, SizesOf
<1>5. limit.CostNumber = 0 /\ limit.CostSize = 0 /\ limit \in Limits
  BY <1>1 DEF NoLimit, Limits
<1>6. CostsMatch
  BY <1>2, <1>4, <1>5, UnreadNone DEF CostsMatch
<1>7. Store(limit.LimitNumber)
  BY <1>1, <1>3 DEF Store
<1> QED BY <1>2, <1>3, <1>5, <1>6, <1>7 DEF Inv

-----------------------------------------------------------------------------
(* The steps keep the invariant and grow within the limits.                *)

\* The records the steps make of the costs.
LEMMA LimitRecord ==
  ASSUME NEW l, NEW x, NEW y, NEW n, NEW m,
         l = [CostNumber |-> x, CostSize |-> y, LimitNumber |-> n, LimitSize |-> m]
  PROVE  /\ l.CostNumber = x /\ l.CostSize = y /\ l.LimitNumber = n /\ l.LimitSize = m
         /\ \A a, b : [l EXCEPT !.CostNumber = a, !.CostSize = b]
                        = [CostNumber |-> a, CostSize |-> b, LimitNumber |-> n, LimitSize |-> m]
         /\ \A b : [l EXCEPT !.CostSize = b]
                        = [CostNumber |-> x, CostSize |-> b, LimitNumber |-> n, LimitSize |-> m]
         /\ \A a, b : [l EXCEPT !.LimitNumber = a, !.LimitSize = b]
                        = [CostNumber |-> x, CostSize |-> y, LimitNumber |-> a, LimitSize |-> b]
<1>1. l.CostNumber = x /\ l.CostSize = y /\ l.LimitNumber = n /\ l.LimitSize = m
  OBVIOUS
<1>2. \A a, b : [l EXCEPT !.CostNumber = a, !.CostSize = b]
                = [CostNumber |-> a, CostSize |-> b, LimitNumber |-> n, LimitSize |-> m]
  <2> TAKE a, b
  <2> DEFINE q == [l EXCEPT !.CostNumber = a]
  <2>1. q = [CostNumber |-> a, CostSize |-> y, LimitNumber |-> n, LimitSize |-> m]
    OBVIOUS
  <2>2. [l EXCEPT !.CostNumber = a, !.CostSize = b] = [q EXCEPT !.CostSize = b]
    OBVIOUS
  <2> HIDE DEF q
  <2> QED BY <2>1, <2>2
<1>3. \A b : [l EXCEPT !.CostSize = b]
             = [CostNumber |-> x, CostSize |-> b, LimitNumber |-> n, LimitSize |-> m]
  OBVIOUS
<1>4. \A a, b : [l EXCEPT !.LimitNumber = a, !.LimitSize = b]
                = [CostNumber |-> x, CostSize |-> y, LimitNumber |-> a, LimitSize |-> b]
  <2> TAKE a, b
  <2> DEFINE q == [l EXCEPT !.LimitNumber = a]
  <2>1. q = [CostNumber |-> x, CostSize |-> y, LimitNumber |-> a, LimitSize |-> m]
    OBVIOUS
  <2>2. [l EXCEPT !.LimitNumber = a, !.LimitSize = b] = [q EXCEPT !.LimitSize = b]
    OBVIOUS
  <2> HIDE DEF q
  <2> QED BY <2>1, <2>2
<1> QED BY <1>1, <1>2, <1>3, <1>4

\* A step that leaves no block.
LEMMA Emptied ==
  ASSUME NEW n \in Nat, NEW m \in Nat, Store(n)', ForEach' = << >>,
         limit' = [CostNumber |-> 0, CostSize |-> 0, LimitNumber |-> n, LimitSize |-> m], Inv
  PROVE  Inv' /\ Growth
<1>1. Costs(<< >>, n, m) = [CostNumber |-> 0, CostSize |-> 0, LimitNumber |-> n, LimitSize |-> m]
  BY UnreadNone DEF Costs
<1>2. ForEach' \in Seq(GoodBlock) /\ limit' = Costs(ForEach', n, m)
  BY <1>1
<1>3. Inv' /\ Count' = 0 /\ UnreadSize' = 0
  BY <1>2, InvStep, UnreadNone
<1>4. Count \in Nat /\ UnreadSize \in Nat
  BY InvParts
<1> QED BY <1>3, <1>4 DEF Growth

\* Reset.
LEMMA KeepsReset == ASSUME Inv, Reset PROVE Inv' /\ Growth
<1>1. staticBuffer' = NoRing /\ dynamicBuffer' = << >> /\ limit' = NoLimit
  BY DEF Reset
<1> DEFINE z == 0
<1>2. z \in Nat
  OBVIOUS
<1>3. limit' = [CostNumber |-> 0, CostSize |-> 0, LimitNumber |-> z, LimitSize |-> z]
  BY <1>1 DEF NoLimit
<1> HIDE DEF z
<1>4. dynamicBuffer' \in Seq(BufferBlock)
  BY <1>1
<1>5. Store(z)' /\ ForEach' = << >>
  BY <1>1, <1>4, StoreStep
<1> QED BY <1>2, <1>3, <1>5, Emptied

\* SetMode: the new ring has a nil in every slot.
LEMMA KeepsSetMode ==
  ASSUME Inv, NEW maxSize \in Nat, NEW maxNumber \in Nat, SetMode(maxSize, maxNumber)
  PROVE  Inv' /\ Growth
<1> DEFINE c == [i \in 0..maxNumber |-> NoBlock]
           z == 0
<1>1. /\ maxNumber > 0 /\ dynamicBuffer' = << >>
      /\ staticBuffer' = [circleIndex |-> c, head |-> z, tail |-> z]
      /\ limit' = [NoLimit EXCEPT !.LimitNumber = maxNumber, !.LimitSize = maxSize]
  BY DEF SetMode
<1>2. limit' = [CostNumber |-> 0, CostSize |-> 0, LimitNumber |-> maxNumber, LimitSize |-> maxSize]
  BY <1>1, LimitRecord DEF NoLimit
<1>3. z \in 0..maxNumber /\ RingCount(maxNumber + 1, z, z) = 0 /\ (z = z => z = 0)
  BY DEF RingCount
<1>4. 0..((maxNumber + 1) - 1) = 0..maxNumber
  OBVIOUS
<1>5. c \in Slots(maxNumber + 1)
  BY <1>4 DEF Slots, Cell
<1>6. \A i \in 0..((maxNumber + 1) - 1) : c[i] = NoBlock
  BY <1>4
<1> HIDE DEF c, z
<1>7. Window(c, maxNumber + 1, z, z)
  BY <1>3, <1>6 DEF Window
<1>8. Ring(maxNumber)' /\ ForEach' = RingList(c, maxNumber + 1, z, z)
  BY <1>1, <1>3, <1>5, <1>7, RingStep
<1>9. ForEach' = << >>
  BY <1>3, <1>8 DEF RingList
<1>10. dynamicBuffer' \in Seq(BufferBlock)
  BY <1>1
<1>11. Store(maxNumber)'
  BY <1>8, <1>10, StoreStep
<1> QED BY <1>2, <1>9, <1>11, Emptied

\* SetLimit is refused in static mode.
LEMMA KeepsSetLimit ==
  ASSUME Inv, NEW maxSize \in Nat, NEW maxNumber \in Nat, SetLimit(maxSize, maxNumber)
  PROVE  Inv' /\ Growth
<1> DEFINE n == limit.LimitNumber
           m == limit.LimitSize
<1>1. /\ n \in Nat /\ m \in Nat /\ Store(n) /\ ForEach \in Seq(GoodBlock) /\ limit = Costs(ForEach, n, m)
      /\ Count = Len(ForEach) /\ UnreadSize = Unread(ForEach)
      /\ Count \in Nat /\ UnreadSize \in Nat
  BY InvParts
<1>2. /\ ~IsStaticMode /\ dynamicBuffer' = dynamicBuffer /\ staticBuffer' = staticBuffer
      /\ limit' = [limit EXCEPT !.LimitNumber = maxNumber, !.LimitSize = maxSize]
  BY DEF SetLimit
<1> HIDE DEF n, m
<1>3. limit' = Costs(ForEach, maxNumber, maxSize)
  BY <1>1, <1>2, LimitRecord DEF Costs
<1>4. staticBuffer = NoRing /\ dynamicBuffer \in Seq(BufferBlock)
  BY <1>1, <1>2, StoreMode
<1>5. staticBuffer' = NoRing /\ dynamicBuffer' \in Seq(BufferBlock) /\ ForEach = dynamicBuffer
  BY <1>2, <1>4, ListView
<1>6. Store(maxNumber)' /\ ForEach' = ForEach
  BY <1>2, <1>5, StoreStep
<1>7. Inv' /\ Count' = Count /\ UnreadSize' = UnreadSize
  BY <1>1, <1>3, <1>6, InvStep
<1> QED BY <1>1, <1>7 DEF Growth

\* A push of a block at either end, within the limits.
LEMMA KeepsPush ==
  ASSUME Inv, NEW b \in GoodBlock, NEW size \in Nat, Size(b) = size,
         WithinNumber, WithinSize(size), Charge(size), NEW n, n = limit.LimitNumber, Store(n)',
         ForEach' = Append(ForEach, b) \/ ForEach' = <<b>> \o ForEach
  PROVE  Inv' /\ Growth
<1> DEFINE m == limit.LimitSize
<1>1. /\ n \in Nat /\ m \in Nat /\ Store(n) /\ ForEach \in Seq(GoodBlock) /\ limit = Costs(ForEach, n, m)
      /\ Count = Len(ForEach) /\ UnreadSize = Unread(ForEach)
      /\ Count \in Nat /\ UnreadSize \in Nat
  BY InvParts
<1> HIDE DEF m
<1>2. /\ ForEach' \in Seq(GoodBlock) /\ Len(ForEach') = Len(ForEach) + 1
      /\ Unread(ForEach') = Unread(ForEach) + size
  BY <1>1, UnreadPush
<1>3. limit.CostNumber = Len(ForEach) /\ limit.CostSize = Unread(ForEach)
      /\ limit.LimitNumber = n /\ limit.LimitSize = m
  BY <1>1 DEF Costs
<1>4. limit' = [limit EXCEPT !.CostNumber = limit.CostNumber + 1, !.CostSize = limit.CostSize + size]
  BY DEF Charge
<1>5. limit' = Costs(ForEach', n, m)
  BY <1>1, <1>2, <1>3, <1>4, LimitRecord DEF Costs
<1>6. /\ Inv' /\ Count' = Len(ForEach') /\ UnreadSize' = Unread(ForEach')
      /\ limit'.LimitNumber = n /\ limit'.LimitSize = m
  BY <1>1, <1>2, <1>5, InvStep
<1>7. (n > 0 => Len(ForEach) < n) /\ (m > 0 => Unread(ForEach) + size <= m)
  BY <1>3 DEF WithinNumber, WithinSize
<1> DEFINE u == Unread(ForEach)
           k == Len(ForEach)
<1>8. /\ UnreadSize = u /\ UnreadSize' = u + size /\ Count = k /\ Count' = k + 1
      /\ u \in Nat /\ k \in Nat
      /\ (n > 0 => k < n) /\ (m > 0 => u + size <= m)
  BY <1>1, <1>2, <1>6, <1>7
<1> HIDE DEF u, k
<1>9. Inv' /\ limit'.LimitNumber = n /\ limit'.LimitSize = m /\ n \in Nat /\ m \in Nat
  BY <1>1, <1>6
<1>10. UnreadSize' > UnreadSize /\ limit'.LimitSize > 0 => UnreadSize' <= limit'.LimitSize
  BY <1>8, <1>9
<1>11. Count' > Count /\ limit'.LimitNumber > 0 => Count' <= limit'.LimitNumber
  BY <1>8, <1>9
<1> QED BY <1>9, <1>10, <1>11 DEF Growth

\* PushBack.
LEMMA KeepsPushBack ==
  ASSUME Inv, NEW v \in Byte, NEW size \in Nat, PushBack(v, size)
  PROVE  Inv' /\ Growth
<1> DEFINE b == NewBufferBlock(v, size)
<1> PICK n : n = limit.LimitNumber
  OBVIOUS
<1>1. b \in GoodBlock /\ Size(b) = size
  BY BlockNew
<1>2. WithinNumber /\ WithinSize(size) /\ Charge(size)
  BY DEF PushBack
<1>3. Store(n)
  BY InvParts
<1>4. Store(n)' /\ ForEach' = Append(ForEach, b)
  BY <1>3, OpPushBack
<1> HIDE DEF b
<1> QED BY <1>1, <1>2, <1>4, KeepsPush

\* PushFront.
LEMMA KeepsPushFront ==
  ASSUME Inv, NEW v \in Byte, NEW size \in Nat, PushFront(v, size)
  PROVE  Inv' /\ Growth
<1> DEFINE b == NewBufferBlock(v, size)
<1> PICK n : n = limit.LimitNumber
  OBVIOUS
<1>1. b \in GoodBlock /\ Size(b) = size
  BY BlockNew
<1>2. WithinNumber /\ WithinSize(size) /\ Charge(size)
  BY DEF PushFront
<1>3. Store(n)
  BY InvParts
<1>4. Store(n)' /\ ForEach' = <<b>> \o ForEach
  BY <1>3, OpPushFront
<1> HIDE DEF b
<1> QED BY <1>1, <1>2, <1>4, KeepsPush

\* A pop of c bytes at either end that may free the block.
LEMMA KeepsPop ==
  ASSUME Inv, NEW n, n = limit.LimitNumber, Store(n)', NEW c \in Nat, NEW freed \in BOOLEAN,
         ForEach # << >>, ForEach' \in Seq(GoodBlock),
         freed => Len(ForEach') = Len(ForEach) - 1, ~freed => Len(ForEach') = Len(ForEach),
         Unread(ForEach) >= c, Unread(ForEach') = Unread(ForEach) - c,
         Refund(c, freed, ForEach' = << >>)
  PROVE  Inv' /\ Growth
<1> PICK m : m = limit.LimitSize
  OBVIOUS
<1>1. /\ n \in Nat /\ m \in Nat /\ Store(n) /\ ForEach \in Seq(GoodBlock) /\ limit = Costs(ForEach, n, m)
      /\ Count = Len(ForEach) /\ UnreadSize = Unread(ForEach)
      /\ Count \in Nat /\ Unread(ForEach) \in Nat
  BY InvParts
<1>2. Len(ForEach) > 0 /\ Len(ForEach) \in Nat
  BY <1>1
<1>3. limit.CostNumber = Len(ForEach) /\ limit.CostSize = Unread(ForEach)
  BY <1>1 DEF Costs
<1>4. CASE ForEach' = << >>
  <2>1. limit' = [limit EXCEPT !.CostNumber = 0, !.CostSize = 0]
    BY <1>4 DEF Refund
  <2>2. limit' = [CostNumber |-> 0, CostSize |-> 0, LimitNumber |-> n, LimitSize |-> m]
    BY <1>1, <2>1, LimitRecord DEF Costs
  <2> QED BY <1>1, <1>4, <2>2, Emptied
<1>5. CASE ForEach' # << >>
  <2> DEFINE x == IF freed /\ limit.CostNumber > 0 THEN limit.CostNumber - 1 ELSE limit.CostNumber
             y == IF limit.CostSize >= c THEN limit.CostSize - c ELSE 0
  <2>1. limit' = [limit EXCEPT !.CostNumber = x, !.CostSize = y]
    BY <1>5 DEF Refund
  <2>2. x = Len(ForEach')
    BY <1>2, <1>3
  <2>3. y = Unread(ForEach')
    BY <1>3
  <2> HIDE DEF x, y
  <2>4. limit' = Costs(ForEach', n, m)
    BY <1>1, <2>1, <2>2, <2>3, LimitRecord DEF Costs
  <2>5. Inv' /\ Count' = Len(ForEach') /\ UnreadSize' = Unread(ForEach')
    BY <1>1, <2>4, InvStep
  <2>6. Count' <= Count
    BY <1>1, <1>2, <2>5
  <2>7. UnreadSize' <= UnreadSize
    BY <1>1, <2>5
  <2>8. Count' \in Nat /\ UnreadSize' \in Nat /\ Count \in Nat /\ UnreadSize \in Nat
    BY <1>1, <1>2, <2>5
  <2>9. ~(Count' > Count) /\ ~(UnreadSize' > UnreadSize)
    BY <2>6, <2>7, <2>8
  <2> QED BY <2>5, <2>9 DEF Growth
<1> QED BY <1>4, <1>5

\* A block of the list with c bytes popped, and the list after it.
LEMMA PoppedList ==
  ASSUME NEW s \in Seq(GoodBlock), s # << >>, NEW k \in {1, Len(s)}, NEW size \in Nat,
         NEW c, c = Clamp(s[k], size), NEW b, b = Pop(s[k], c),
         NEW free \in BOOLEAN, NEW freed, freed = (free /\ Size(b) = 0), NEW t,
         freed => (k = 1 /\ t = Tail(s)) \/ (k = Len(s) /\ t = SubSeq(s, 1, Len(s) - 1)),
         ~freed => t = [s EXCEPT ![k] = b]
  PROVE  /\ c \in Nat /\ freed \in BOOLEAN /\ t \in Seq(GoodBlock)
         /\ freed => Len(t) = Len(s) - 1
         /\ ~freed => Len(t) = Len(s)
         /\ Unread(s) >= c /\ Unread(t) = Unread(s) - c
<1>1. Len(s) \in Nat /\ Len(s) > 0 /\ k \in 1..Len(s) /\ s[k] \in GoodBlock
  OBVIOUS
<1>2. /\ c \in 0..Size(s[k]) /\ b \in GoodBlock /\ Size(b) = Size(s[k]) - c
  BY <1>1, BlockPop
<1>3. /\ Unread(s) \in Nat /\ Size(s[k]) \in Nat /\ Unread(s) >= Size(s[k])
      /\ [s EXCEPT ![k] = b] \in Seq(GoodBlock) /\ Len([s EXCEPT ![k] = b]) = Len(s)
      /\ Unread([s EXCEPT ![k] = b]) = Unread(s) - Size(s[k]) + Size(b)
  BY <1>1, <1>2, UnreadSet
<1> DEFINE u == Unread(s)
           z == Size(s[k])
           y == Size(b)
<1>4. /\ u \in Nat /\ z \in Nat /\ u >= z /\ c \in 0..z /\ y = z - c
      /\ Unread([s EXCEPT ![k] = b]) = u - z + y
  BY <1>2, <1>3
<1> HIDE DEF u, z, y
<1>5. c \in Nat /\ u >= c /\ u - z + y = u - c /\ (y = 0 => c = z)
  BY <1>4
<1>6. CASE freed
  <2>1. c = Size(s[k])
    BY <1>6, <1>5 DEF y, z
  <2>2. (k = 1 /\ t = Tail(s)) \/ (k = Len(s) /\ t = SubSeq(s, 1, Len(s) - 1))
    BY <1>6
  <2>3. CASE k = 1 /\ t = Tail(s)
    <3>1. t \in Seq(GoodBlock) /\ Len(t) = Len(s) - 1 /\ Unread(t) = Unread(s) - Size(s[1])
      BY <2>3, UnreadPop
    <3> QED BY <1>6, <1>5, <2>1, <2>3, <3>1 DEF u
  <2>4. CASE k = Len(s) /\ t = SubSeq(s, 1, Len(s) - 1)
    <3>1. t \in Seq(GoodBlock) /\ Len(t) = Len(s) - 1 /\ Unread(t) = Unread(s) - Size(s[Len(s)])
      BY <2>4, UnreadPop
    <3> QED BY <1>6, <1>5, <2>1, <2>4, <3>1 DEF u
  <2> QED BY <2>2, <2>3, <2>4
<1>7. CASE ~freed
  <2>1. t = [s EXCEPT ![k] = b]
    BY <1>7
  <2>2. Unread(t) = Unread(s) - c
    BY <1>4, <1>5, <2>1 DEF u
  <2> QED BY <1>3, <1>7, <1>5, <2>1, <2>2 DEF u
<1> QED BY <1>6, <1>7

\* PopBack.
LEMMA KeepsPopBack ==
  ASSUME Inv, NEW size \in Nat, NEW free \in BOOLEAN, PopBack(size, free)
  PROVE  Inv' /\ Growth
<1> PICK n : n = limit.LimitNumber
  OBVIOUS
<1>1. Store(n) /\ ForEach \in Seq(GoodBlock) /\ Count = Len(ForEach)
  BY InvParts
<1> DEFINE c == Clamp(Back, size)
           b == Pop(Back, c)
           freed == free /\ Size(b) = 0
<1>2. /\ Store(n)' /\ ForEach # << >>
      /\ ForEach' = (IF freed THEN SubSeq(ForEach, 1, Count - 1) ELSE [ForEach EXCEPT ![Count] = b])
      /\ Refund(c, freed, ForEach' = << >>)
  BY <1>1, OpPopBack
<1>3. c = Clamp(ForEach[Len(ForEach)], size) /\ b = Pop(ForEach[Len(ForEach)], c)
  BY <1>1 DEF Back
<1>4. freed = (free /\ Size(b) = 0)
  OBVIOUS
<1> HIDE DEF c, b, freed
<1>5. Len(ForEach) \in {1, Len(ForEach)}
  OBVIOUS
<1>6. /\ freed => (Len(ForEach) = Len(ForEach) /\ ForEach' = SubSeq(ForEach, 1, Len(ForEach) - 1))
      /\ ~freed => ForEach' = [ForEach EXCEPT ![Len(ForEach)] = b]
  BY <1>1, <1>2
<1>7. /\ c \in Nat /\ freed \in BOOLEAN /\ ForEach' \in Seq(GoodBlock)
      /\ freed => Len(ForEach') = Len(ForEach) - 1
      /\ ~freed => Len(ForEach') = Len(ForEach)
      /\ Unread(ForEach) >= c /\ Unread(ForEach') = Unread(ForEach) - c
  <2> PICK s, t, j : s = ForEach /\ t = ForEach' /\ j = Len(ForEach)
    OBVIOUS
  <2>1. /\ s \in Seq(GoodBlock) /\ s # << >> /\ j \in {1, Len(s)}
        /\ c = Clamp(s[j], size) /\ b = Pop(s[j], c)
    BY <1>1, <1>2, <1>3, <1>5
  <2>2. /\ freed => (j = 1 /\ t = Tail(s)) \/ (j = Len(s) /\ t = SubSeq(s, 1, Len(s) - 1))
        /\ ~freed => t = [s EXCEPT ![j] = b]
    BY <1>6
  <2>3. /\ c \in Nat /\ freed \in BOOLEAN /\ t \in Seq(GoodBlock)
        /\ freed => Len(t) = Len(s) - 1
        /\ ~freed => Len(t) = Len(s)
        /\ Unread(s) >= c /\ Unread(t) = Unread(s) - c
    BY <1>4, <2>1, <2>2, PoppedList
  <2> QED BY <2>3
<1>8. Store(n)' /\ ForEach # << >> /\ Refund(c, freed, ForEach' = << >>)
  BY <1>2
<1> QED BY <1>7, <1>8, KeepsPop

\* PopFront.
LEMMA KeepsPopFront ==
  ASSUME Inv, NEW size \in Nat, NEW free \in BOOLEAN, PopFront(size, free)
  PROVE  Inv' /\ Growth
<1> PICK n : n = limit.LimitNumber
  OBVIOUS
<1>1. Store(n) /\ ForEach \in Seq(GoodBlock) /\ Count = Len(ForEach)
  BY InvParts
<1> DEFINE c == Clamp(Front, size)
           b == Pop(Front, c)
           freed == free /\ Size(b) = 0
           k == 1
<1>2. /\ Store(n)' /\ ForEach # << >>
      /\ ForEach' = (IF freed THEN Tail(ForEach) ELSE [ForEach EXCEPT ![k] = b])
      /\ Refund(c, freed, ForEach' = << >>)
  BY <1>1, OpPopFront
<1>3. c = Clamp(ForEach[k], size) /\ b = Pop(ForEach[k], c)
  BY <1>1 DEF Front
<1>4. freed = (free /\ Size(b) = 0)
  OBVIOUS
<1>5. k \in {1, Len(ForEach)} /\ k = 1
  OBVIOUS
<1> HIDE DEF c, b, freed, k
<1>6. /\ freed => (k = 1 /\ ForEach' = Tail(ForEach))
      /\ ~freed => ForEach' = [ForEach EXCEPT ![k] = b]
  BY <1>2, <1>5
<1>7. /\ c \in Nat /\ freed \in BOOLEAN /\ ForEach' \in Seq(GoodBlock)
      /\ freed => Len(ForEach') = Len(ForEach) - 1
      /\ ~freed => Len(ForEach') = Len(ForEach)
      /\ Unread(ForEach) >= c /\ Unread(ForEach') = Unread(ForEach) - c
  <2> PICK s, t, j : s = ForEach /\ t = ForEach' /\ j = k
    OBVIOUS
  <2>1. /\ s \in Seq(GoodBlock) /\ s # << >> /\ j \in {1, Len(s)}
        /\ c = Clamp(s[j], size) /\ b = Pop(s[j], c)
    BY <1>1, <1>2, <1>3, <1>5
  <2>2. /\ freed => (j = 1 /\ t = Tail(s)) \/ (j = Len(s) /\ t = SubSeq(s, 1, Len(s) - 1))
        /\ ~freed => t = [s EXCEPT ![j] = b]
    BY <1>6
  <2>3. /\ c \in Nat /\ freed \in BOOLEAN /\ t \in Seq(GoodBlock)
        /\ freed => Len(t) = Len(s) - 1
        /\ ~freed => Len(t) = Len(s)
        /\ Unread(s) >= c /\ Unread(t) = Unread(s) - c
    BY <1>4, <2>1, <2>2, PoppedList
  <2> QED BY <2>3
<1>8. Store(n)' /\ ForEach # << >> /\ Refund(c, freed, ForEach' = << >>)
  BY <1>2
<1> QED BY <1>7, <1>8, KeepsPop

\* A merge that makes block k larger, within the size limit.
LEMMA KeepsMerge ==
  ASSUME Inv, NEW n, n = limit.LimitNumber, Store(n)', NEW size \in Nat, WithinSize(size),
         NEW k \in 1..Len(ForEach), NEW b \in GoodBlock, Size(b) = Size(ForEach[k]) + size,
         ForEach' = [ForEach EXCEPT ![k] = b],
         limit' = [limit EXCEPT !.CostSize = limit.CostSize + size]
  PROVE  Inv' /\ Growth
<1> PICK m : m = limit.LimitSize
  OBVIOUS
<1>1. /\ n \in Nat /\ m \in Nat /\ Store(n) /\ ForEach \in Seq(GoodBlock) /\ limit = Costs(ForEach, n, m)
      /\ Count = Len(ForEach) /\ UnreadSize = Unread(ForEach)
      /\ Count \in Nat /\ Unread(ForEach) \in Nat
  BY InvParts
<1>2. limit.CostNumber = Len(ForEach) /\ limit.CostSize = Unread(ForEach)
  BY <1>1 DEF Costs
<1> DEFINE u == Unread(ForEach)
           z == Size(ForEach[k])
           y == Size(b)
<1>3. /\ ForEach' \in Seq(GoodBlock) /\ Len(ForEach') = Len(ForEach) /\ Unread(ForEach') = u - z + y
      /\ u \in Nat /\ z \in Nat
  BY <1>1, UnreadSet
<1>4. y = z + size /\ limit.CostSize = u
  BY <1>2
<1> HIDE DEF u, z, y
<1>5. Unread(ForEach') = u + size
  BY <1>3, <1>4
<1>6. limit' = [CostNumber |-> Len(ForEach), CostSize |-> u + size, LimitNumber |-> n, LimitSize |-> m]
  <2> PICK l, x, w, p : l = limit /\ x = Len(ForEach) /\ p = u /\ w = u + size
    OBVIOUS
  <2>1. l = [CostNumber |-> x, CostSize |-> p, LimitNumber |-> n, LimitSize |-> m]
    BY <1>1 DEF Costs, u
  <2>2. [l EXCEPT !.CostSize = w] = [CostNumber |-> x, CostSize |-> w, LimitNumber |-> n, LimitSize |-> m]
    BY <2>1
  <2>3. limit' = [l EXCEPT !.CostSize = w]
    BY <1>4
  <2> QED BY <2>2, <2>3
<1>7. limit' = Costs(ForEach', n, m)
  BY <1>3, <1>5, <1>6 DEF Costs
<1>8. /\ Inv' /\ Count' = Len(ForEach') /\ UnreadSize' = Unread(ForEach')
      /\ limit'.LimitNumber = n /\ limit'.LimitSize = m
  BY <1>1, <1>3, <1>7, InvStep
<1>9. m > 0 => u + size <= m
  BY <1>4 DEF WithinSize
<1>10. UnreadSize' > UnreadSize /\ limit'.LimitSize > 0 => UnreadSize' <= limit'.LimitSize
  BY <1>5, <1>8, <1>9
<1>11. ~(Count' > Count)
  BY <1>1, <1>3, <1>8
<1> QED BY <1>8, <1>10, <1>11 DEF Growth

\* MergeBack.
LEMMA KeepsMergeBack ==
  ASSUME Inv, NEW v \in Byte, NEW size \in Nat, MergeBack(v, size)
  PROVE  Inv' /\ Growth
<1> PICK n : n = limit.LimitNumber
  OBVIOUS
<1>1. Store(n) /\ ForEach \in Seq(GoodBlock)
  BY InvParts
<1> DEFINE b == GrownBack(Back, v, size)
           k == Count
<1>2. Store(n)' /\ ForEach # << >> /\ ForEach' = [ForEach EXCEPT ![k] = b]
  BY <1>1, OpMergeBack
<1>3. k \in 1..Len(ForEach) /\ Back = ForEach[k] /\ Back \in GoodBlock
  BY <1>1, <1>2, EndBlocks
<1>4. b \in GoodBlock /\ Size(b) = Size(ForEach[k]) + size
  BY <1>3, BlockGrown
<1>5. WithinSize(size) /\ limit' = [limit EXCEPT !.CostSize = limit.CostSize + size]
  BY DEF MergeBack
<1> HIDE DEF b, k
<1> QED BY <1>2, <1>3, <1>4, <1>5, KeepsMerge

\* MergeFront.
LEMMA KeepsMergeFront ==
  ASSUME Inv, NEW v \in Byte, NEW size \in Nat, MergeFront(v, size)
  PROVE  Inv' /\ Growth
<1> PICK n : n = limit.LimitNumber
  OBVIOUS
<1>1. Store(n) /\ ForEach \in Seq(GoodBlock)
  BY InvParts
<1> DEFINE b == GrownFront(Front, v, size)
           k == 1
<1>2. Store(n)' /\ ForEach # << >> /\ ForEach' = [ForEach EXCEPT ![k] = b]
  BY <1>1, OpMergeFront
<1>3. k \in 1..Len(ForEach) /\ Front = ForEach[k] /\ Front \in GoodBlock
  BY <1>1, <1>2, EndBlocks
<1>4. b \in GoodBlock /\ Size(b) = Size(ForEach[k]) + size
  BY <1>3, BlockGrown
<1>5. WithinSize(size) /\ limit' = [limit EXCEPT !.CostSize = limit.CostSize + size]
  BY DEF MergeFront
<1> HIDE DEF b, k
<1> QED BY <1>2, <1>3, <1>4, <1>5, KeepsMerge

\* Every step keeps the invariant and grows the manager within its limits.
LEMMA Keeps == ASSUME Inv, [Next]_vars PROVE Inv' /\ (Growth \/ UNCHANGED vars)
<1>1. CASE UNCHANGED vars
  <2>1. staticBuffer' = staticBuffer /\ dynamicBuffer' = dynamicBuffer /\ limit' = limit
    BY <1>1 DEF vars
  <2>2. ForEach' = ForEach
    BY <2>1 DEF ForEach, Count, IsStaticMode, Forward, circleLen
  <2>3. CostsMatch' = CostsMatch
    BY <2>1, <2>2 DEF CostsMatch, UnreadSize, Count, IsStaticMode, circleLen
  <2>4. Store(limit.LimitNumber)' = Store(limit.LimitNumber)
    BY <2>1 DEF Store, Ring
  <2> QED BY <1>1, <2>1, <2>2, <2>3, <2>4 DEF Inv
<1>2. /\ \A size \in Sizes : size \in Nat
      /\ \A number \in Numbers : number \in Nat
      /\ \A size \in 0..MaxPush : size \in Nat
      /\ \A size \in 0..MaxRaw : size \in Nat
  BY BufferAssumption
<1>3. CASE Next
  <2>1. CASE Reset
    BY <2>1, KeepsReset
  <2>2. CASE \E maxSize \in Sizes, maxNumber \in Numbers :
               SetLimit(maxSize, maxNumber) \/ SetMode(maxSize, maxNumber)
    BY <1>2, <2>2, KeepsSetLimit, KeepsSetMode
  <2>3. CASE \E v \in Byte, size \in 0..MaxPush :
               \/ PushBack(v, size) \/ PushFront(v, size)
               \/ MergeBack(v, size) \/ MergeFront(v, size)
    BY <1>2, <2>3, KeepsPushBack, KeepsPushFront, KeepsMergeBack, KeepsMergeFront
  <2>4. CASE \E size \in 0..MaxRaw, free \in BOOLEAN : PopBack(size, free) \/ PopFront(size, free)
    BY <1>2, <2>4, KeepsPopBack, KeepsPopFront
  <2> QED BY <1>3, <2>1, <2>2, <2>3, <2>4 DEF Next
<1> QED BY <1>1, <1>3

\* The invariant says what TypeOK, RingWindow and RingFullAtLimit say.
LEMMA InvImplies == ASSUME Inv PROVE TypeOK /\ CostsMatch /\ RingWindow /\ RingFullAtLimit
<1> PICK n : n = limit.LimitNumber
  OBVIOUS
<1>1. /\ n \in Nat /\ Store(n) /\ Count = Len(ForEach) /\ limit.CostNumber = Count
      /\ limit \in Limits /\ CostsMatch
  BY InvParts DEF Inv, CostsMatch
<1>2. CASE staticBuffer = NoRing
  <2>1. TypeOK
    BY <1>1, <1>2 DEF TypeOK, Store, Limits
  <2> QED BY <1>1, <1>2, <2>1 DEF RingWindow, RingFullAtLimit, IsStaticMode
<1>3. CASE staticBuffer # NoRing
  <2>1. IsRing(staticBuffer, n) /\ Ring(n) /\ dynamicBuffer \in Seq(BufferBlock)
    BY <1>1, <1>3 DEF Store, Ring
  <2>2. n > 0 /\ 0..((n + 1) - 1) = 0..n /\ DOMAIN staticBuffer.circleIndex = 0..n
    BY <1>1, <2>1, RingParts
  <2>3. TypeOK
    <3>1. staticBuffer \in [circleIndex: [0..n -> BufferBlock \cup {NoBlock}], head: 0..n, tail: 0..n]
      BY <2>1, <2>2 DEF IsRing, Slots, Cell
    <3> QED BY <1>1, <2>1, <2>2, <3>1 DEF TypeOK, Limits
  <2> DEFINE c == staticBuffer.circleIndex
             h == staticBuffer.head
             t == staticBuffer.tail
             L == n + 1
  <2>4. /\ h \in 0..n /\ t \in 0..n /\ Window(c, L, h, t) /\ (h = t => h = 0)
        /\ Count = RingCount(L, h, t) /\ (staticFull <=> Slot(L, t, 1) = h)
        /\ \A i, d : Forward(i, d) = Slot(L, i, d)
    <3>1. Window(c, L, h, t) /\ (h = t => h = 0)
      BY <2>1 DEF Ring
    <3>2. h \in 0..n /\ t \in 0..n
      BY <2>1, RingParts
    <3>3. Count = RingCount(L, h, t) /\ \A i, d : Forward(i, d) = Slot(L, i, d)
      BY <2>1, RingView
    <3>4. staticFull <=> Slot(L, t, 1) = h
      BY <3>3 DEF staticFull
    <3> QED BY <3>1, <3>2, <3>3, <3>4
  <2> HIDE DEF c, h, t
  <2>5. RingWindow
    <3>1. \A i \in 0..n : c[i] # NoBlock <=> \E k \in 0..(Count - 1) : i = Forward(h, k)
      BY <2>2, <2>4 DEF Window
    <3>2. h = t => h = 0
      BY <2>4
    <3> QED BY <2>2, <3>1, <3>2 DEF RingWindow, staticEmpty, c, h, t
  <2>6. RingFullAtLimit
    <3>1. Slot(L, t, 1) = (IF t + 1 < n + 1 THEN t + 1 ELSE t + 1 - (n + 1))
      <4>1. L \in Nat /\ L > 1 /\ t \in 0..(L - 1) /\ 1 \in 0..L
        BY <1>1, <2>2, <2>4
      <4> QED BY <4>1, SlotAll
    <3>2. Slot(L, t, 1) = h <=> RingCount(L, h, t) = n
      BY <1>1, <2>2, <2>4, <3>1 DEF RingCount
    <3> QED BY <1>1, <2>4, <3>2 DEF RingFullAtLimit
  <2> QED BY <1>1, <2>3, <2>5, <2>6
<1> QED BY <1>2, <1>3

-----------------------------------------------------------------------------
(* Theorems.                                                               *)

\* Inv is an invariant.
LEMMA Invariance == Spec => []Inv
<1>1. Inv /\ [Next]_vars => Inv'
  BY Keeps
<1> QED BY <1>1, StartsTidy, PTL DEF Spec

\* The list, the ring and the counters keep their types: head and tail stay in
\* the ring, and no counter goes below zero.
THEOREM BufferTyped == Spec => []TypeOK
<1>1. Inv => TypeOK
  BY InvImplies
<1> QED BY <1>1, Invariance, PTL

\* CostNumber and CostSize are the number of blocks and of their unread bytes,
\* after any sequence of pushes, merges, partial pops and mode switches, for
\* rings, blocks and limits of any size.
THEOREM CostsAreTrue == Spec => []CostsMatch
<1>1. Inv => CostsMatch
  BY InvImplies
<1> QED BY <1>1, Invariance, PTL

\* The slots of the ring that hold a block are those from head up to tail, also
\* where the window goes past the end of the slice, and an empty ring starts at
\* slot 0.
THEOREM RingHoldsItsWindow == Spec => []RingWindow
<1>1. Inv => RingWindow
  BY InvImplies
<1> QED BY <1>1, Invariance, PTL

\* The ring is full exactly when it holds as many blocks as the number limit
\* allows: one spare slot is enough, and none is wasted.
THEOREM FullMeansLimit == Spec => []RingFullAtLimit
<1>1. Inv => RingFullAtLimit
  BY InvImplies
<1> QED BY <1>1, Invariance, PTL

\* A push or a merge never takes the unread bytes past the size limit, nor the
\* blocks past the number limit.
THEOREM LimitsAreKept == Spec => GrowthWithinLimits
<1>1. Inv /\ [Next]_vars => [Growth]_vars
  BY Keeps
<1>2. Spec => [][Growth]_vars
  BY <1>1, Invariance, PTL DEF Spec
<1> QED BY <1>2 DEF GrowthWithinLimits, Growth

-----------------------------------------------------------------------------
(* The deque of blocks.                                                    *)

\* What a caller sees of a block, and of a list of blocks.
Shown(b) == [rest |-> Data(b), whole |-> b.used = 0]
Shows == {Shown(b) : b \in GoodBlock}
View(s) == [i \in 1..Len(s) |-> Shown(s[i])]

\* The list of what is seen.
LEMMA ViewType ==
  ASSUME NEW s \in Seq(GoodBlock)
  PROVE  /\ View(s) \in Seq(Shows) /\ Len(View(s)) = Len(s) /\ Len(s) \in Nat
         /\ \A i \in 1..Len(s) : View(s)[i] = Shown(s[i])
<1>1. \A i \in 1..Len(s) : Shown(s[i]) \in Shows
  BY DEF Shows
<1>2. Len(s) \in Nat
  OBVIOUS
<1> QED BY <1>1, <1>2 DEF View

\* A block more is one more seen.
LEMMA ViewPush ==
  ASSUME NEW s \in Seq(GoodBlock), NEW b \in GoodBlock
  PROVE  /\ View(Append(s, b)) = Append(View(s), Shown(b))
         /\ View(<<b>> \o s) = <<Shown(b)>> \o View(s)
<1> DEFINE n == Len(s)
           z == View(s)
           x == Shown(b)
           back == Append(s, b)
           front == <<b>> \o s
<1>1. n \in Nat /\ z \in Seq(Shows) /\ Len(z) = n /\ \A i \in 1..n : z[i] = Shown(s[i])
  BY ViewType
<1>2. x \in Shows
  BY DEF Shows
<1>3. /\ back \in Seq(GoodBlock) /\ Len(back) = n + 1 /\ back[n + 1] = b
      /\ \A i \in 1..n : back[i] = s[i]
  OBVIOUS
<1>4. /\ front \in Seq(GoodBlock) /\ Len(front) = n + 1 /\ front[1] = b
      /\ \A i \in 2..(n + 1) : front[i] = s[i - 1]
  OBVIOUS
<1> HIDE DEF n, z, x, back, front
<1>5. View(back) = Append(z, x)
  <2> DEFINE u == View(back)
             w == Append(z, x)
  <2>1. u \in Seq(Shows) /\ Len(u) = n + 1 /\ \A i \in 1..(n + 1) : u[i] = Shown(back[i])
    BY <1>3, ViewType
  <2>2. w \in Seq(Shows) /\ Len(w) = n + 1 /\ w[n + 1] = x /\ \A i \in 1..n : w[i] = z[i]
    BY <1>1, <1>2
  <2> HIDE DEF u, w
  <2>3. ASSUME NEW i \in 1..(n + 1) PROVE u[i] = w[i]
    <3>1. i = n + 1 \/ i \in 1..n
      BY <1>1
    <3> QED BY <1>1, <1>3, <2>1, <2>2, <3>1 DEF x
  <2>4. u = w
    BY <2>1, <2>2, <2>3, SameList
  <2> QED BY <2>4 DEF u, w
<1>6. View(front) = <<x>> \o z
  <2> DEFINE u == View(front)
             w == <<x>> \o z
  <2>1. u \in Seq(Shows) /\ Len(u) = n + 1 /\ \A i \in 1..(n + 1) : u[i] = Shown(front[i])
    BY <1>4, ViewType
  <2>2. w \in Seq(Shows) /\ Len(w) = n + 1 /\ w[1] = x /\ \A i \in 2..(n + 1) : w[i] = z[i - 1]
    BY <1>1, <1>2
  <2> HIDE DEF u, w
  <2>3. ASSUME NEW i \in 1..(n + 1) PROVE u[i] = w[i]
    <3>1. CASE i = 1
      BY <1>4, <2>1, <2>2, <3>1 DEF x
    <3>2. CASE i # 1
      <4>1. i \in 2..(n + 1) /\ i - 1 \in 1..n
        BY <1>1, <3>2
      <4> QED BY <1>1, <1>4, <2>1, <2>2, <4>1
    <3> QED BY <3>1, <3>2
  <2>4. u = w
    BY <2>1, <2>2, <2>3, SameList
  <2> QED BY <2>4 DEF u, w
<1> QED BY <1>5, <1>6 DEF back, front, x, z

\* A block replaced.
LEMMA ViewSet ==
  ASSUME NEW s \in Seq(GoodBlock), NEW k \in 1..Len(s), NEW b \in GoodBlock
  PROVE  View(SetCell(s, k, b)) = SetCell(View(s), k, Shown(b))
<1> DEFINE n == Len(s)
           z == View(s)
           x == Shown(b)
           t == [s EXCEPT ![k] = b]
<1>1. /\ n \in Nat /\ k \in 1..n /\ z \in Seq(Shows) /\ Len(z) = n
      /\ \A i \in 1..n : z[i] = Shown(s[i])
  BY ViewType
<1>2. x \in Shows
  BY DEF Shows
<1>3. t \in Seq(GoodBlock) /\ Len(t) = n /\ t[k] = b /\ \A i \in 1..n : i # k => t[i] = s[i]
  OBVIOUS
<1> HIDE DEF n, z, x, t
<1>4. View(t) = [z EXCEPT ![k] = x]
  <2> DEFINE u == View(t)
             w == [z EXCEPT ![k] = x]
  <2>1. u \in Seq(Shows) /\ Len(u) = n /\ \A i \in 1..n : u[i] = Shown(t[i])
    BY <1>3, ViewType
  <2>2. w \in Seq(Shows) /\ Len(w) = n /\ w[k] = x /\ \A i \in 1..n : i # k => w[i] = z[i]
    BY <1>1, <1>2
  <2> HIDE DEF u, w
  <2>3. \A i \in 1..n : u[i] = w[i]
    BY <1>1, <1>3, <2>1, <2>2 DEF x
  <2>4. u = w
    BY <2>1, <2>2, <2>3, SameList
  <2> QED BY <2>4 DEF u, w
<1> QED BY <1>4 DEF t, x, z, SetCell

\* A block less.
LEMMA ViewPop ==
  ASSUME NEW s \in Seq(GoodBlock), s # << >>
  PROVE  /\ View(SubSeq(s, 1, Len(s) - 1)) = SubSeq(View(s), 1, Len(s) - 1)
         /\ View(Tail(s)) = Tail(View(s))
<1> DEFINE n == Len(s)
           z == View(s)
           init == SubSeq(s, 1, n - 1)
           rest == Tail(s)
<1>0. n \in Nat /\ n > 0 /\ Len(s) = n
  OBVIOUS
<1>1. z \in Seq(Shows) /\ Len(z) = n /\ \A i \in 1..n : z[i] = Shown(s[i])
  BY ViewType
<1>2. rest \in Seq(GoodBlock) /\ Len(rest) = n - 1 /\ \A i \in 1..(n - 1) : rest[i] = s[i + 1]
  OBVIOUS
<1> HIDE DEF n, rest
<1>3. init \in Seq(GoodBlock) /\ Len(init) = n - 1 /\ \A i \in 1..(n - 1) : init[i] = s[i]
  BY <1>0
<1> HIDE DEF z, init
<1>4. z # << >>
  BY <1>0, <1>1
<1>5. View(init) = SubSeq(z, 1, n - 1)
  <2> DEFINE u == View(init)
             w == SubSeq(z, 1, n - 1)
  <2>1. u \in Seq(Shows) /\ Len(u) = n - 1 /\ \A i \in 1..(n - 1) : u[i] = Shown(init[i])
    BY <1>3, ViewType
  <2>2. w \in Seq(Shows) /\ Len(w) = n - 1 /\ \A i \in 1..(n - 1) : w[i] = z[i]
    BY <1>0, <1>1
  <2> HIDE DEF u, w
  <2>3. \A i \in 1..(n - 1) : u[i] = w[i]
    BY <1>0, <1>1, <1>3, <2>1, <2>2
  <2>4. u = w
    BY <2>1, <2>2, <2>3, SameList
  <2> QED BY <2>4 DEF u, w
<1>6. View(rest) = Tail(z)
  <2> DEFINE u == View(rest)
             w == Tail(z)
  <2>1. u \in Seq(Shows) /\ Len(u) = n - 1 /\ \A i \in 1..(n - 1) : u[i] = Shown(rest[i])
    BY <1>2, ViewType
  <2>2. w \in Seq(Shows) /\ Len(w) = n - 1 /\ \A i \in 1..(n - 1) : w[i] = z[i + 1]
    BY <1>0, <1>1, <1>4
  <2> HIDE DEF u, w
  <2>3. ASSUME NEW i \in 1..(n - 1) PROVE u[i] = w[i]
    <3>1. i + 1 \in 1..n
      BY <1>0
    <3> QED BY <1>1, <1>2, <2>1, <2>2, <3>1
  <2>4. u = w
    BY <2>1, <2>2, <2>3, SameList
  <2> QED BY <2>4 DEF u, w
<1> QED BY <1>5, <1>6 DEF init, rest, n, z

\* n bytes filled by the caller.
LEMMA FillType ==
  ASSUME NEW v \in Byte, NEW size \in Nat
  PROVE  /\ Deque!Fill(v, size) \in Seq(Byte) /\ Len(Deque!Fill(v, size)) = size
         /\ Deque!Fill(v, size) = [i \in 1..size |-> v]
         /\ \A i \in 1..size : Deque!Fill(v, size)[i] = v
BY DEF Deque!Fill

\* The unread bytes of a block.
LEMMA DataType ==
  ASSUME NEW d \in Seq(Byte), NEW u \in 0..Len(d)
  PROVE  /\ SubSeq(d, u + 1, Len(d)) \in Seq(Byte) /\ Len(SubSeq(d, u + 1, Len(d))) = Len(d) - u
         /\ \A i \in 1..(Len(d) - u) : SubSeq(d, u + 1, Len(d))[i] = d[u + i]
<1> DEFINE n == Len(d)
<1>1. n \in Nat /\ Len(d) = n /\ u \in 0..n
  OBVIOUS
<1> HIDE DEF n
<1>2. u + 1 \in Nat /\ u + 1 > 0 /\ n - u \in Nat
  BY <1>1
<1>3. Len(SubSeq(d, u + 1, n)) = n - u
  BY <1>1, <1>2
<1>4. SubSeq(d, u + 1, n) \in Seq(Byte)
  BY <1>1, <1>2
<1>5. \A i \in 1..(n - u) : SubSeq(d, u + 1, n)[i] = d[u + i]
  BY <1>1, <1>2, <1>3
<1> QED BY <1>1, <1>3, <1>4, <1>5

\* What is seen of a block.
LEMMA ShownParts ==
  ASSUME NEW b \in GoodBlock
  PROVE  /\ Shown(b).rest = Data(b) /\ Shown(b).whole = (b.used = 0)
         /\ Data(b) \in Seq(Byte) /\ Len(Data(b)) = Size(b) /\ Size(b) \in Nat
         /\ \A i \in 1..Size(b) : Data(b)[i] = b.data[b.used + i]
<1>1. Shown(b).rest = Data(b) /\ Shown(b).whole = (b.used = 0)
  BY DEF Shown
<1> DEFINE d == b.data
           u == b.used
<1>2. d \in Seq(Byte) /\ u \in 0..Len(d) /\ Size(b) \in Nat /\ Size(b) = Len(d) - u
  BY BlockParts
<1>3. Data(b) = SubSeq(d, u + 1, Len(d))
  BY DEF Data
<1> HIDE DEF d, u
<1>4. /\ Data(b) \in Seq(Byte) /\ Len(Data(b)) = Len(d) - u
      /\ \A i \in 1..(Len(d) - u) : Data(b)[i] = d[u + i]
  BY <1>2, <1>3, DataType
<1> QED BY <1>1, <1>2, <1>4 DEF d, u

\* A new block.
LEMMA ShownNew ==
  ASSUME NEW v \in Byte, NEW size \in Nat
  PROVE  Shown(NewBufferBlock(v, size)) = [rest |-> Deque!Fill(v, size), whole |-> TRUE]
<1> DEFINE b == NewBufferBlock(v, size)
           f == Deque!Fill(v, size)
<1>1. b \in GoodBlock /\ Size(b) = size
  BY BlockNew
<1>2. f \in Seq(Byte) /\ Len(f) = size /\ f = [i \in 1..size |-> v]
  BY FillType
<1>3. b.data = f /\ b.used = 0
  BY <1>2 DEF NewBufferBlock
<1> HIDE DEF b, f
<1>4. Data(b) \in Seq(Byte) /\ Len(Data(b)) = size /\ \A i \in 1..size : Data(b)[i] = f[0 + i]
  BY <1>1, <1>3, ShownParts
<1>5. \A i \in 1..size : Data(b)[i] = f[i]
  BY <1>4
<1>6. Data(b) = f
  BY <1>2, <1>4, <1>5, SameList
<1> QED BY <1>3, <1>6 DEF Shown, b, f

\* A block after a pop.
LEMMA ShownPop ==
  ASSUME NEW b \in GoodBlock, NEW size \in Nat, NEW p, p = Pop(b, Clamp(b, size))
  PROVE  /\ Shown(p) = Deque!Popped(Shown(b), size) /\ p \in GoodBlock
         /\ Size(p) = 0 <=> Shown(p).rest = << >>
<1> DEFINE c == Clamp(b, size)
           x == Data(b)
           y == Data(p)
           z == Size(b)
           u == b.used
<1>1. /\ c \in 0..z /\ p \in GoodBlock /\ p = [data |-> b.data, used |-> u + c]
      /\ Size(p) = z - c
  BY BlockPop
<1>2. p.data = b.data /\ p.used = u + c
  BY <1>1
<1>3. /\ x \in Seq(Byte) /\ Len(x) = z /\ z \in Nat /\ \A i \in 1..z : x[i] = b.data[u + i]
      /\ Shown(b).rest = x /\ Shown(b).whole = (u = 0)
  BY ShownParts
<1>4. y \in Seq(Byte) /\ Len(y) = z - c /\ \A i \in 1..(z - c) : y[i] = b.data[(u + c) + i]
  BY <1>1, <1>2, ShownParts
<1>5. u \in Nat
  BY BlockParts
<1>6. c = (IF size > z THEN z ELSE size)
  BY DEF Clamp
<1> HIDE DEF c, x, y, z, u
<1> DEFINE w == SubSeq(x, c + 1, z)
<1>7. w \in Seq(Byte) /\ Len(w) = z - c /\ \A i \in 1..(z - c) : w[i] = x[c + i]
  <2>1. c \in 0..Len(x)
    BY <1>1, <1>3
  <2> QED BY <1>3, <2>1, DataType
<1> HIDE DEF w
<1>8. ASSUME NEW i \in 1..(z - c) PROVE y[i] = w[i]
  <2>1. c + i \in 1..z /\ u + (c + i) = (u + c) + i
    BY <1>1, <1>3, <1>5
  <2> QED BY <1>3, <1>4, <1>7, <2>1
<1>9. y = w
  BY <1>4, <1>7, <1>8, SameList
<1>10. (u + c = 0) = (u = 0 /\ c = 0)
  BY <1>1, <1>3, <1>5
<1>11. Shown(p) = [rest |-> w, whole |-> (u = 0 /\ c = 0)]
  BY <1>2, <1>9, <1>10 DEF Shown, y
<1>12. Deque!Popped(Shown(b), size) = [rest |-> w, whole |-> (u = 0 /\ c = 0)]
  BY <1>3, <1>6 DEF Deque!Popped, w
<1>13. Size(p) = 0 <=> y = << >>
  BY <1>1, <1>3, <1>4
<1> QED BY <1>1, <1>9, <1>11, <1>12, <1>13

\* A block with new space behind it.
LEMMA ShownGrownBack ==
  ASSUME NEW b \in GoodBlock, NEW v \in Byte, NEW size \in Nat, NEW g, g = GrownBack(b, v, size)
  PROVE  /\ Shown(g) = [rest |-> Data(b) \o Deque!Fill(v, size), whole |-> Shown(b).whole]
         /\ g \in GoodBlock
<1> DEFINE f == Deque!Fill(v, size)
           x == Data(b)
           y == Data(g)
           z == Size(b)
           u == b.used
           d == b.data
<1>1. f \in Seq(Byte) /\ Len(f) = size /\ f = [i \in 1..size |-> v]
  BY FillType
<1>2. g \in GoodBlock /\ Size(g) = z + size /\ g = [data |-> d \o f, used |-> u]
  BY <1>1, BlockGrown, SMTT(60)
<1>3. g.data = d \o f /\ g.used = u
  BY <1>2
<1>4. d \in Seq(Byte) /\ u \in Nat /\ Len(d) \in Nat /\ z \in Nat /\ z = Len(d) - u /\ u <= Len(d)
  BY BlockParts
<1>5. x \in Seq(Byte) /\ Len(x) = z /\ \A i \in 1..z : x[i] = d[u + i]
  BY ShownParts
<1>6. y \in Seq(Byte) /\ Len(y) = z + size /\ \A i \in 1..(z + size) : y[i] = (d \o f)[u + i]
  BY <1>2, <1>3, ShownParts
<1>7. Shown(b).whole = (u = 0)
  BY ShownParts
<1> HIDE DEF f, x, y, z, u, d
<1> DEFINE n == Len(d)
<1>8. /\ n \in Nat /\ z = n - u /\ u <= n /\ u \in Nat
      /\ \A i \in 1..n : (d \o f)[i] = d[i]
      /\ \A i \in (n + 1)..(n + size) : (d \o f)[i] = f[i - n]
  BY <1>1, <1>4
<1> DEFINE w == x \o f
<1>9. /\ w \in Seq(Byte) /\ Len(w) = z + size
      /\ \A i \in 1..z : w[i] = x[i]
      /\ \A i \in (z + 1)..(z + size) : w[i] = f[i - z]
  <2>1. f \in Seq(Byte) /\ Len(f) = size /\ x \in Seq(Byte) /\ Len(x) = z /\ z \in Nat
    BY <1>1, <1>4, <1>5
  <2> QED BY <2>1
<1> HIDE DEF n, w
<1>10. ASSUME NEW i \in 1..(z + size) PROVE y[i] = w[i]
  <2>1. CASE i <= z
    <3>1. i \in 1..z /\ u + i \in 1..n
      BY <1>4, <1>8, <2>1
    <3> QED BY <1>5, <1>6, <1>8, <1>9, <3>1
  <2>2. CASE i > z
    <3>1. i \in (z + 1)..(z + size) /\ u + i \in (n + 1)..(n + size) /\ (u + i) - n = i - z
      BY <1>4, <1>8, <2>2, SMTT(60)
    <3> QED BY <1>6, <1>8, <1>9, <3>1, ZenonT(60)
  <2> QED BY <1>4, <2>1, <2>2
<1>11. y = w
  BY <1>6, <1>9, <1>10, SameList
<1> QED BY <1>2, <1>3, <1>7, <1>11 DEF Shown, y, w, x, f, d

\* What is seen of block b when it became g with new space before it: the
\* promised bytes when no byte was popped from it, and as many as promised in
\* any case.
FrontGrown(b, g, v, size) ==
  /\ Shown(b).whole => Shown(g) = [rest |-> Deque!Fill(v, size) \o Data(b), whole |-> Shown(b).whole]
  /\ Shown(g).whole = Shown(b).whole /\ Shown(g).rest \in Seq(Byte) /\ g \in GoodBlock
  /\ Len(Shown(g).rest) = size + Len(Shown(b).rest) /\ Shown(b).whole \in BOOLEAN

\* GrownFront does that.
LEMMA ShownGrownFront ==
  ASSUME NEW b \in GoodBlock, NEW v \in Byte, NEW size \in Nat, NEW g, g = GrownFront(b, v, size)
  PROVE  FrontGrown(b, g, v, size)
<1> DEFINE f == Deque!Fill(v, size)
           x == Data(b)
           y == Data(g)
           z == Size(b)
           u == b.used
           d == b.data
<1>1. f \in Seq(Byte) /\ Len(f) = size /\ f = [i \in 1..size |-> v]
  BY FillType
<1>2. g \in GoodBlock /\ Size(g) = z + size /\ g = [data |-> f \o d, used |-> u]
  BY <1>1, BlockGrown, SMTT(60)
<1>3. g.data = f \o d /\ g.used = u
  BY <1>2
<1>4. d \in Seq(Byte) /\ u \in Nat /\ Len(d) \in Nat /\ z \in Nat /\ z = Len(d) - u /\ u <= Len(d)
  BY BlockParts
<1>5. x \in Seq(Byte) /\ Len(x) = z /\ \A i \in 1..z : x[i] = d[u + i]
  BY ShownParts
<1>6. y \in Seq(Byte) /\ Len(y) = z + size /\ \A i \in 1..(z + size) : y[i] = (f \o d)[u + i]
  BY <1>2, <1>3, ShownParts
<1>7. Shown(b).whole = (u = 0) /\ Shown(g).whole = (u = 0) /\ Shown(b).rest = x /\ Shown(g).rest = y
  BY <1>2, <1>3, ShownParts
<1> HIDE DEF f, x, y, z, u, d
<1>8. Len(y) = size + Len(x)
  BY <1>4, <1>5, <1>6
<1>9. CASE u = 0
  <2> DEFINE w == f \o x
             e == f \o d
  <2>1. x = d
    <3>1. z = Len(d) /\ \A i \in 1..z : 0 + i = i
      BY <1>4, <1>9
    <3> QED BY <1>4, <1>5, <1>9, <3>1, SameList
  <2>2. e \in Seq(Byte) /\ Len(e) = z + size
    BY <1>1, <1>4, <1>9
  <2>3. \A i \in 1..(z + size) : y[i] = e[i]
    <3>1. \A i \in 1..(z + size) : 0 + i = i
      BY <1>4
    <3> QED BY <1>6, <1>9, <3>1
  <2>4. y = e
    <3> HIDE DEF e
    <3> QED BY <1>6, <2>2, <2>3, SameList
  <2>5. Shown(g) = [rest |-> f \o x, whole |-> Shown(b).whole]
    BY <1>3, <1>7, <2>1, <2>4 DEF Shown, y
  <2> QED BY <1>2, <1>6, <1>7, <1>8, <2>5 DEF FrontGrown, f, x
<1>10. CASE u # 0
  BY <1>2, <1>6, <1>7, <1>8, <1>10 DEF FrontGrown
<1> QED BY <1>9, <1>10

\* The deque the manager stands for.
SeenBlocks == [i \in 1..Count |-> [rest |-> Data(ForEach[i]), whole |-> ForEach[i].used = 0]]

\* It is what is seen of the list of blocks.
LEMMA Seen ==
  /\ Inv => /\ SeenBlocks = View(ForEach) /\ ForEach \in Seq(GoodBlock)
            /\ Len(View(ForEach)) = Len(ForEach) /\ Len(ForEach) = Count
  /\ Inv' => SeenBlocks' = View(ForEach')
<1>1. ASSUME Inv PROVE /\ SeenBlocks = View(ForEach) /\ ForEach \in Seq(GoodBlock)
                       /\ Len(View(ForEach)) = Len(ForEach) /\ Len(ForEach) = Count
  <2>1. ForEach \in Seq(GoodBlock) /\ Count = Len(ForEach)
    BY <1>1, InvParts
  <2>2. Len(View(ForEach)) = Len(ForEach)
    BY <2>1, ViewType
  <2> QED BY <2>1, <2>2 DEF SeenBlocks, View, Shown
<1>2. ASSUME Inv' PROVE SeenBlocks' = View(ForEach')
  <2> PICK n : n = limit'.LimitNumber
    OBVIOUS
  <2>1. Store(n)'
    BY <1>2 DEF Inv, Store, Ring
  <2>2. Count' = Len(ForEach')
    BY <2>1, StoreCountNext
  <2> QED BY <2>2 DEF SeenBlocks, View, Shown
<1> QED BY <1>1, <1>2

\* A new manager is an empty deque.
LEMMA DequeStarts == Init => Deque!DInit
<1> SUFFICES ASSUME Init PROVE Deque!DInit
  OBVIOUS
<1>1. Count = 0
  BY ListView DEF Init
<1>2. SeenBlocks = << >>
  BY <1>1 DEF SeenBlocks
<1> QED BY <1>2 DEF Deque!DInit, SeenBlocks

\* A step that leaves no costs leaves no block.
LEMMA DequeCleared == ASSUME Inv', limit'.CostNumber = 0 PROVE Deque!DClear
<1>1. Count' = 0
  BY DEF Inv, CostsMatch
<1>2. SeenBlocks' = << >>
  BY <1>1 DEF SeenBlocks
<1> QED BY <1>2 DEF Deque!DClear, SeenBlocks

\* Reset and SetMode.
LEMMA DequeReset ==
  ASSUME Inv, Reset \/ \E maxSize \in Nat, maxNumber \in Nat : SetMode(maxSize, maxNumber)
  PROVE  Deque!DClear
<1>1. Inv'
  BY KeepsReset, KeepsSetMode
<1>2. limit'.CostNumber = 0
  <2>1. CASE Reset
    BY <2>1 DEF Reset, NoLimit
  <2>2. ASSUME NEW maxSize \in Nat, NEW maxNumber \in Nat, SetMode(maxSize, maxNumber)
        PROVE  limit'.CostNumber = 0
    <3>1. limit' = [NoLimit EXCEPT !.LimitNumber = maxNumber, !.LimitSize = maxSize]
      BY <2>2 DEF SetMode
    <3>2. limit' = [CostNumber |-> 0, CostSize |-> 0, LimitNumber |-> maxNumber, LimitSize |-> maxSize]
      BY <3>1, LimitRecord DEF NoLimit
    <3> QED BY <3>2
  <2> QED BY <2>1, <2>2
<1> QED BY <1>1, <1>2, DequeCleared

\* A step that leaves the store alone leaves the deque alone.
LEMMA DequeSame ==
  ASSUME UNCHANGED <<dynamicBuffer, staticBuffer>>
  PROVE  UNCHANGED SeenBlocks
<1>1. staticBuffer' = staticBuffer /\ dynamicBuffer' = dynamicBuffer
  OBVIOUS
<1>2. Count' = Count
  BY <1>1 DEF Count, IsStaticMode, circleLen
<1>3. ForEach' = ForEach
  BY <1>1, <1>2 DEF ForEach, IsStaticMode, Forward, circleLen
<1> QED BY <1>2, <1>3 DEF SeenBlocks

\* PushBack.
LEMMA DequePushBack ==
  ASSUME Inv, NEW v \in Byte, NEW size \in Nat, PushBack(v, size)
  PROVE  Deque!DPushBack(v, size)
<1> PICK n, b : n = limit.LimitNumber /\ b = NewBufferBlock(v, size)
  OBVIOUS
<1>1. Store(n) /\ ForEach \in Seq(GoodBlock) /\ b \in GoodBlock
  BY InvParts, BlockNew
<1>2. ForEach' = Append(ForEach, b)
  BY <1>1, OpPushBack
<1>3. View(ForEach') = Append(View(ForEach), Shown(b))
  BY <1>1, <1>2, ViewPush
<1>4. SeenBlocks' = Append(SeenBlocks, Shown(b))
  BY <1>3, KeepsPushBack, Seen
<1>5. Shown(b) = [rest |-> Deque!Fill(v, size), whole |-> TRUE]
  BY ShownNew
<1> QED BY <1>4, <1>5 DEF Deque!DPushBack, SeenBlocks

\* PushFront.
LEMMA DequePushFront ==
  ASSUME Inv, NEW v \in Byte, NEW size \in Nat, PushFront(v, size)
  PROVE  Deque!DPushFront(v, size)
<1> PICK n, b : n = limit.LimitNumber /\ b = NewBufferBlock(v, size)
  OBVIOUS
<1>1. Store(n) /\ ForEach \in Seq(GoodBlock) /\ b \in GoodBlock
  BY InvParts, BlockNew
<1>2. ForEach' = <<b>> \o ForEach
  BY <1>1, OpPushFront
<1>3. View(ForEach') = <<Shown(b)>> \o View(ForEach)
  BY <1>1, <1>2, ViewPush
<1>4. SeenBlocks' = <<Shown(b)>> \o SeenBlocks
  BY <1>3, KeepsPushFront, Seen
<1>5. Shown(b) = [rest |-> Deque!Fill(v, size), whole |-> TRUE]
  BY ShownNew
<1> QED BY <1>4, <1>5 DEF Deque!DPushFront, SeenBlocks

\* PopBack.
LEMMA DequePopBack ==
  ASSUME Inv, NEW size \in Nat, NEW free \in BOOLEAN, PopBack(size, free)
  PROVE  Deque!DPopBack(size, free)
<1> PICK n, b : n = limit.LimitNumber /\ b = Pop(Back, Clamp(Back, size))
  OBVIOUS
<1> PICK freed : freed = (free /\ Size(b) = 0)
  OBVIOUS
<1>1. Store(n) /\ ForEach \in Seq(GoodBlock)
  BY InvParts
<1>2. /\ ForEach # << >>
      /\ ForEach' = (IF freed THEN SubSeq(ForEach, 1, Count - 1) ELSE [ForEach EXCEPT ![Count] = b])
  BY <1>1, OpPopBack
<1> PICK s, t, k : s = ForEach /\ t = ForEach' /\ k = Count
  OBVIOUS
<1>3. /\ s \in Seq(GoodBlock) /\ s # << >> /\ k = Len(s) /\ k \in 1..Len(s) /\ Back = s[k]
      /\ s[k] \in GoodBlock /\ SeenBlocks = View(s) /\ Len(View(s)) = k /\ View(s)[k] = Shown(s[k])
  BY <1>1, <1>2, EndBlocks, Seen, ViewType
<1>4. Shown(b) = Deque!Popped(Shown(s[k]), size) /\ b \in GoodBlock /\ (Size(b) = 0 <=> Shown(b).rest = << >>)
  BY <1>3, ShownPop
<1>5. View(t) = IF freed THEN SubSeq(View(s), 1, k - 1) ELSE [View(s) EXCEPT ![k] = Shown(b)]
  <2>1. CASE freed
    <3>1. t = SubSeq(s, 1, Len(s) - 1)
      BY <1>2, <1>3, <2>1
    <3>2. View(t) = SubSeq(View(s), 1, Len(s) - 1)
      BY <1>3, <3>1, ViewPop
    <3> QED BY <1>3, <2>1, <3>2
  <2>2. CASE ~freed
    <3>1. t = [s EXCEPT ![k] = b]
      BY <1>2, <2>2
    <3>2. View(t) = [View(s) EXCEPT ![k] = Shown(b)]
      <4>1. s \in Seq(GoodBlock) /\ k \in 1..Len(s) /\ b \in GoodBlock
        BY <1>3, <1>4
      <4>2. View(SetCell(s, k, b)) = SetCell(View(s), k, Shown(b))
        BY <4>1, ViewSet
      <4> QED BY <3>1, <4>2 DEF SetCell
    <3> QED BY <2>2, <3>2
  <2> QED BY <2>1, <2>2
<1>6. SeenBlocks' = View(t)
  BY KeepsPopBack, Seen
<1> DEFINE D == SeenBlocks
           x == Deque!Popped(D[Len(D)], size)
<1>7. Len(D) = k /\ x = Shown(b) /\ D # << >>
  <2>1. k > 0 /\ k \in Nat
    BY <1>3
  <2> QED BY <1>3, <1>4, <2>1
<1>8. D' = IF free /\ x.rest = << >> THEN SubSeq(D, 1, Len(D) - 1) ELSE [D EXCEPT ![Len(D)] = x]
  <2>1. D = View(s) /\ D' = View(t) /\ (freed <=> free /\ x.rest = << >>)
    BY <1>3, <1>4, <1>6, <1>7
  <2> HIDE DEF D, x
  <2> QED BY <1>5, <1>7, <2>1
<1> QED BY <1>7, <1>8 DEF Deque!DPopBack, SeenBlocks

\* PopFront.
LEMMA DequePopFront ==
  ASSUME Inv, NEW size \in Nat, NEW free \in BOOLEAN, PopFront(size, free)
  PROVE  Deque!DPopFront(size, free)
<1> PICK n, b : n = limit.LimitNumber /\ b = Pop(Front, Clamp(Front, size))
  OBVIOUS
<1> PICK freed : freed = (free /\ Size(b) = 0)
  OBVIOUS
<1>1. Store(n) /\ ForEach \in Seq(GoodBlock)
  BY InvParts
<1>2. /\ ForEach # << >>
      /\ ForEach' = (IF freed THEN Tail(ForEach) ELSE [ForEach EXCEPT ![1] = b])
  BY <1>1, OpPopFront
<1> PICK s, t, k : s = ForEach /\ t = ForEach' /\ k = 1
  OBVIOUS
<1>3. /\ s \in Seq(GoodBlock) /\ s # << >> /\ k \in 1..Len(s) /\ Front = s[k] /\ Len(s) > 0
      /\ s[k] \in GoodBlock /\ SeenBlocks = View(s) /\ Len(View(s)) = Len(s) /\ View(s)[k] = Shown(s[k])
  BY <1>1, <1>2, EndBlocks, Seen, ViewType
<1>4. Shown(b) = Deque!Popped(Shown(s[k]), size) /\ b \in GoodBlock /\ (Size(b) = 0 <=> Shown(b).rest = << >>)
  BY <1>3, ShownPop
<1>5. View(t) = IF freed THEN Tail(View(s)) ELSE [View(s) EXCEPT ![k] = Shown(b)]
  <2>1. CASE freed
    <3>1. t = Tail(s)
      BY <1>2, <2>1
    <3>2. View(t) = Tail(View(s))
      BY <1>3, <3>1, ViewPop
    <3> QED BY <2>1, <3>2
  <2>2. CASE ~freed
    <3>1. t = [s EXCEPT ![k] = b]
      BY <1>2, <2>2
    <3>2. View(t) = [View(s) EXCEPT ![k] = Shown(b)]
      <4>1. s \in Seq(GoodBlock) /\ k \in 1..Len(s) /\ b \in GoodBlock
        BY <1>3, <1>4
      <4>2. View(SetCell(s, k, b)) = SetCell(View(s), k, Shown(b))
        BY <4>1, ViewSet
      <4> QED BY <3>1, <4>2 DEF SetCell
    <3> QED BY <2>2, <3>2
  <2> QED BY <2>1, <2>2
<1>6. SeenBlocks' = View(t)
  BY KeepsPopFront, Seen
<1> DEFINE D == SeenBlocks
           x == Deque!Popped(D[1], size)
<1>7. x = Shown(b) /\ D # << >>
  BY <1>3, <1>4
<1>8. D' = IF free /\ x.rest = << >> THEN Tail(D) ELSE [D EXCEPT ![1] = x]
  <2>1. D = View(s) /\ D' = View(t) /\ (freed <=> free /\ x.rest = << >>)
    BY <1>3, <1>4, <1>6, <1>7
  <2> HIDE DEF D, x
  <2> QED BY <1>5, <1>7, <2>1
<1> QED BY <1>7, <1>8 DEF Deque!DPopFront, SeenBlocks

\* Other unread bytes of a block that is seen.
SetRest(e, y) == [e EXCEPT !.rest = y]

\* What they leave alone.
LEMMA RestSet ==
  ASSUME NEW b, NEW y
  PROVE  SetRest(Shown(b), y) = [rest |-> y, whole |-> Shown(b).whole] /\ Shown(b).rest = Data(b)
BY DEF SetRest, Shown

\* MergeBack.
LEMMA DequeMergeBack ==
  ASSUME Inv, NEW v \in Byte, NEW size \in Nat, MergeBack(v, size)
  PROVE  Deque!DMergeBack(v, size)
<1> PICK n, g, o : n = limit.LimitNumber /\ o = Back /\ g = GrownBack(o, v, size)
  OBVIOUS
<1> PICK s, t, k : s = ForEach /\ t = ForEach' /\ k = Count
  OBVIOUS
<1>1. Store(n) /\ ForEach \in Seq(GoodBlock)
  BY InvParts
<1>2. s # << >> /\ t = [s EXCEPT ![k] = g]
  BY <1>1, OpMergeBack
<1>3. /\ s \in Seq(GoodBlock) /\ k = Len(s) /\ k \in Nat /\ k > 0 /\ k \in 1..Len(s) /\ o = s[k]
      /\ s[k] \in GoodBlock /\ SeenBlocks = View(s) /\ Len(View(s)) = k /\ View(s)[k] = Shown(s[k])
  BY <1>1, <1>2, EndBlocks, Seen, ViewType
<1>4. /\ Shown(g) = [rest |-> Data(o) \o Deque!Fill(v, size), whole |-> Shown(o).whole]
      /\ g \in GoodBlock
  BY <1>3, ShownGrownBack, ZenonT(60)
<1>5. View(t) = [View(s) EXCEPT ![k] = Shown(g)]
  <2>1. s \in Seq(GoodBlock) /\ k \in 1..Len(s) /\ g \in GoodBlock
    BY <1>3, <1>4
  <2>2. View(SetCell(s, k, g)) = SetCell(View(s), k, Shown(g))
    BY <2>1, ViewSet
  <2> QED BY <1>2, <2>2 DEF SetCell
<1>6. SeenBlocks' = View(t)
  BY KeepsMergeBack, Seen
<1> PICK e : e = Shown(o)
  OBVIOUS
<1>7. [e EXCEPT !.rest = e.rest \o Deque!Fill(v, size)] = Shown(g)
  <2>1. Shown(g) = [rest |-> Data(o) \o Deque!Fill(v, size), whole |-> Shown(o).whole]
    BY <1>4
  <2>2. /\ SetRest(Shown(o), Data(o) \o Deque!Fill(v, size))
             = [rest |-> Data(o) \o Deque!Fill(v, size), whole |-> Shown(o).whole]
        /\ Shown(o).rest = Data(o)
    BY RestSet
  <2>3. SetRest(e, e.rest \o Deque!Fill(v, size)) = Shown(g)
    BY <2>1, <2>2
  <2> QED BY <2>3 DEF SetRest
<1> DEFINE D == SeenBlocks
<1>8. D = View(s) /\ D' = View(t) /\ Len(D) = k /\ D # << >> /\ D[k] = e
  BY <1>3, <1>6
<1> HIDE DEF D
<1>9. D' = [D EXCEPT ![Len(D)] = [D[Len(D)] EXCEPT !.rest = D[Len(D)].rest \o Deque!Fill(v, size)]]
  <2> PICK y : y = [e EXCEPT !.rest = e.rest \o Deque!Fill(v, size)]
    OBVIOUS
  <2>1. D' = [D EXCEPT ![k] = y]
    BY <1>5, <1>7, <1>8
  <2>2. y = [D[Len(D)] EXCEPT !.rest = D[Len(D)].rest \o Deque!Fill(v, size)]
    BY <1>8
  <2> QED BY <1>8, <2>1, <2>2
<1>10. D # << >> /\ D' = [D EXCEPT ![Len(D)].rest = @ \o Deque!Fill(v, size)]
  BY <1>8, <1>9
<1> QED BY <1>10 DEF Deque!DMergeBack, D, SeenBlocks

\* MergeFront.
LEMMA DequeMergeFront ==
  ASSUME Inv, NEW v \in Byte, NEW size \in Nat, MergeFront(v, size)
  PROVE  Deque!DMergeFront(v, size)
<1> PICK n, g, o : n = limit.LimitNumber /\ o = Front /\ g = GrownFront(o, v, size)
  OBVIOUS
<1> PICK s, t, k : s = ForEach /\ t = ForEach' /\ k = 1
  OBVIOUS
<1>1. Store(n) /\ ForEach \in Seq(GoodBlock)
  BY InvParts
<1>2. s # << >> /\ t = [s EXCEPT ![k] = g]
  BY <1>1, OpMergeFront
<1>3. /\ s \in Seq(GoodBlock) /\ Len(s) \in Nat /\ Len(s) > 0 /\ k \in 1..Len(s) /\ o = s[k]
      /\ s[k] \in GoodBlock /\ SeenBlocks = View(s)
      /\ View(s) \in Seq(Shows) /\ Len(View(s)) = Len(s) /\ View(s)[k] = Shown(s[k])
  BY <1>1, <1>2, EndBlocks, Seen, ViewType
<1>4. /\ Shown(o).whole => Shown(g) = [rest |-> Deque!Fill(v, size) \o Data(o), whole |-> Shown(o).whole]
      /\ Shown(g).whole = Shown(o).whole /\ Shown(g).rest \in Seq(Byte) /\ g \in GoodBlock
      /\ Len(Shown(g).rest) = size + Len(Shown(o).rest) /\ Shown(o).whole \in BOOLEAN
  <2>1. o \in GoodBlock /\ g = GrownFront(o, v, size)
    BY <1>3
  <2>2. FrontGrown(o, g, v, size)
    BY <2>1, ShownGrownFront
  <2> QED BY <2>2 DEF FrontGrown
<1>5. View(t) = [View(s) EXCEPT ![k] = Shown(g)]
  <2>1. s \in Seq(GoodBlock) /\ k \in 1..Len(s) /\ g \in GoodBlock
    BY <1>3, <1>4
  <2>2. View(SetCell(s, k, g)) = SetCell(View(s), k, Shown(g))
    BY <2>1, ViewSet
  <2> QED BY <1>2, <2>2 DEF SetCell
<1>6. SeenBlocks' = View(t)
  BY KeepsMergeFront, Seen
<1> PICK e, h : e = Shown(o) /\ h = Shown(g)
  OBVIOUS
<1>7. e.whole => [e EXCEPT !.rest = Deque!Fill(v, size) \o e.rest] = h
  <2> SUFFICES ASSUME e.whole PROVE [e EXCEPT !.rest = Deque!Fill(v, size) \o e.rest] = h
    OBVIOUS
  <2>1. h = [rest |-> Deque!Fill(v, size) \o Data(o), whole |-> Shown(o).whole]
    BY <1>4
  <2>2. /\ SetRest(Shown(o), Deque!Fill(v, size) \o Data(o))
             = [rest |-> Deque!Fill(v, size) \o Data(o), whole |-> Shown(o).whole]
        /\ Shown(o).rest = Data(o)
    BY RestSet
  <2>3. SetRest(e, Deque!Fill(v, size) \o e.rest) = h
    BY <2>1, <2>2
  <2> QED BY <2>3 DEF SetRest
<1> DEFINE D == SeenBlocks
<1>8. D = View(s) /\ D' = View(t) /\ D # << >> /\ D[1] = e /\ D \in Seq(Shows) /\ Len(D) > 0
  BY <1>3, <1>6
<1>9. D' = [D EXCEPT ![1] = h]
  BY <1>5, <1>8
<1> HIDE DEF D
<1>10. CASE e.whole
  <2>1. D' = [D EXCEPT ![1] = [D[1] EXCEPT !.rest = Deque!Fill(v, size) \o D[1].rest]]
    BY <1>7, <1>8, <1>9, <1>10
  <2>2. D' = [D EXCEPT ![1].rest = Deque!Fill(v, size) \o @]
    BY <2>1
  <2>3. D # << >> /\ D[1].whole
    BY <1>8, <1>10
  <2> QED BY <2>2, <2>3 DEF Deque!DMergeFront, D, SeenBlocks
<1>11. CASE ~e.whole
  <2>1. h \in Shows
    BY <1>4 DEF Shows
  <2>2. /\ Len(D') = Len(D) /\ D'[1] = h /\ D' \in Seq(Shows) /\ \A i \in 2..Len(D) : D'[i] = D[i]
    BY <1>8, <1>9, <2>1
  <2>3. Tail(D') = Tail(D)
    <3> PICK m, p, q : m = Len(D) - 1 /\ p = Tail(D') /\ q = Tail(D)
      OBVIOUS
    <3>1. D' # << >> /\ D # << >> /\ Len(D) \in Nat
      BY <1>8, <2>2
    <3>2. p \in Seq(Shows) /\ Len(p) = m /\ \A i \in 1..m : p[i] = D'[i + 1]
      BY <2>2, <3>1
    <3>3. q \in Seq(Shows) /\ Len(q) = m /\ \A i \in 1..m : q[i] = D[i + 1]
      BY <1>8, <3>1
    <3>4. \A i \in 1..m : p[i] = q[i]
      <4>1. \A i \in 1..m : i + 1 \in 2..Len(D)
        BY <3>1
      <4> QED BY <2>2, <3>2, <3>3, <4>1
    <3>5. p = q
      BY <3>2, <3>3, <3>4, SameList
    <3> QED BY <3>5
  <2>4. h \in Deque!DequeBlock /\ ~h.whole /\ Len(h.rest) = size + Len(e.rest)
    <3>1. h = [rest |-> h.rest, whole |-> h.whole]
      BY DEF Shown
    <3>2. h.rest \in Seq(Byte) /\ h.whole \in BOOLEAN /\ h.whole = e.whole
      BY <1>4
    <3> QED BY <1>4, <1>11, <3>1, <3>2 DEF Deque!DequeBlock
  <2>5. /\ D # << >> /\ ~D[1].whole /\ Len(D') = Len(D) /\ Tail(D') = Tail(D)
        /\ D'[1] \in Deque!DequeBlock /\ ~D'[1].whole /\ Len(D'[1].rest) = size + Len(D[1].rest)
    BY <1>8, <1>11, <2>2, <2>3, <2>4
  <2> QED BY <2>5 DEF Deque!DMergeFront, D, SeenBlocks
<1> QED BY <1>10, <1>11

\* Every step of the manager is a step of the deque or leaves it unchanged.
LEMMA DequeStep == ASSUME Inv, [Next]_vars PROVE Deque!DNext \/ UNCHANGED SeenBlocks
<1>1. CASE UNCHANGED vars
  BY <1>1, DequeSame DEF vars
<1>2. /\ \A size \in Sizes : size \in Nat
      /\ \A number \in Numbers : number \in Nat
      /\ \A size \in 0..MaxPush : size \in Nat /\ size \in 0..MaxRaw
      /\ \A size \in 0..MaxRaw : size \in Nat
  BY BufferAssumption
<1>3. CASE Next
  <2>1. CASE Reset \/ \E maxSize \in Sizes, maxNumber \in Numbers : SetMode(maxSize, maxNumber)
    <3>1. Deque!DClear
      BY <1>2, <2>1, DequeReset
    <3> QED BY <3>1 DEF Deque!DNext
  <2>2. CASE \E maxSize \in Sizes, maxNumber \in Numbers : SetLimit(maxSize, maxNumber)
    BY <2>2, DequeSame DEF SetLimit
  <2>3. ASSUME NEW v \in Byte, NEW size \in 0..MaxPush,
               \/ PushBack(v, size) \/ PushFront(v, size)
               \/ MergeBack(v, size) \/ MergeFront(v, size)
        PROVE  Deque!DNext
    <3>1. size \in Nat /\ size \in 0..MaxRaw
      BY <1>2
    <3>2. \/ Deque!DPushBack(v, size) \/ Deque!DPushFront(v, size)
          \/ Deque!DMergeBack(v, size) \/ Deque!DMergeFront(v, size)
      BY <2>3, <3>1, DequePushBack, DequePushFront, DequeMergeBack, DequeMergeFront
    <3> QED BY <3>1, <3>2 DEF Deque!DNext
  <2>4. ASSUME NEW size \in 0..MaxRaw, NEW free \in BOOLEAN, PopBack(size, free) \/ PopFront(size, free)
        PROVE  Deque!DNext
    <3>1. Deque!DPopBack(size, free) \/ Deque!DPopFront(size, free)
      BY <1>2, <2>4, DequePopBack, DequePopFront
    <3> QED BY <3>1 DEF Deque!DNext
  <2> QED BY <1>3, <2>1, <2>2, <2>3, <2>4 DEF Next
<1> QED BY <1>1, <1>3

\* The buffer manager implements the deque of blocks, in both modes and through
\* every switch between them: what a caller reads is what BlockDeque says,
\* wherever the ring wraps and whatever the merges copied.
THEOREM ImplementsDeque == Spec => DequeSpec
<1>1. Inv /\ [Next]_vars => Deque!DNext \/ UNCHANGED SeenBlocks
  BY DequeStep
<1>2. Inv /\ [Next]_vars =>
        [Deque!DNext]_([i \in 1..Count |-> [rest |-> Data(ForEach[i]), whole |-> ForEach[i].used = 0]])
  BY <1>1 DEF SeenBlocks
<1> QED BY <1>2, DequeStarts, Invariance, PTL DEF Spec, DequeSpec, Deque!DSpec
=============================================================================
