--------------------------- MODULE BufferManager ---------------------------
(***************************************************************************)
(* The buffer manager of src/buffer: a deque of blocks kept either in a    *)
(* list (dynamic mode) or in a ring of maxNumber + 1 slots of which one    *)
(* stays free (static mode), with counters of the blocks and of the unread *)
(* bytes it holds and a limit on each.  It is used by one goroutine at a   *)
(* time; what can go wrong is the index arithmetic of the ring, the        *)
(* counters, and the bytes a copy moves.                                   *)
(*                                                                         *)
(* A byte is a value the caller wrote: an operation that returns a slice   *)
(* is followed by the caller filling all of it with one value v.  A call   *)
(* that returns an error changes nothing and is not a step.                *)
(***************************************************************************)
EXTENDS Naturals, Sequences, FiniteSets

CONSTANTS Byte,        \* what the caller can write into a byte
          NoBlock,     \* a nil *BufferBlock
          Sizes,       \* the maxSize arguments of SetLimit and SetMode
          Numbers,     \* the maxNumber arguments of SetLimit and SetMode
          MaxPush,     \* bound: the largest size an operation is called with
          MaxRaw,      \* bound: the largest raw size of a block
          MaxBlocks    \* bound: blocks in the list of the dynamic mode

ASSUME BufferAssumption ==
  /\ Sizes \subseteq Nat /\ Numbers \subseteq Nat
  /\ MaxPush <= MaxRaw
  /\ MaxPush \in Nat /\ MaxRaw \in Nat /\ MaxBlocks \in Nat
  /\ NoBlock \notin [data: Seq(Byte), used: Nat]

VARIABLES dynamicBuffer,   \* the list of blocks
          staticBuffer,    \* the ring, NoRing in dynamic mode
          limit            \* costs and limits

vars == <<dynamicBuffer, staticBuffer, limit>>

-----------------------------------------------------------------------------
(* Blocks. *)

BufferBlock == [data: Seq(Byte), used: Nat]

\* NewBufferBlock, filled by the caller.
NewBufferBlock(v, size) == [data |-> [i \in 1..size |-> v], used |-> 0]

\* The unread bytes and their number.
Data(b) == SubSeq(b.data, b.used + 1, Len(b.data))
Size(b) == Len(b.data) - b.used

\* The size a pop is cut down to, and the block after it.
Clamp(b, size) == IF size > Size(b) THEN Size(b) ELSE size
Pop(b, s) == [b EXCEPT !.used = IF b.used + s > Len(b.data) THEN Len(b.data)
                                                           ELSE b.used + s]

\* Mutant of GrownFront: the old bytes are copied to the start of the new space.
GrownFrontMisplaced(b, v, size) == [b EXCEPT !.data = @ \o [i \in 1..size |-> v]]

\* A larger copy with the new space behind or before the old raw bytes.  The
\* used mark is copied as it is.
GrownBack(b, v, size) == [b EXCEPT !.data = @ \o [i \in 1..size |-> v]]
GrownFront(b, v, size) == [b EXCEPT !.data = [i \in 1..size |-> v] \o @]

-----------------------------------------------------------------------------
(* The two stores. *)

NoRing == [circleIndex |-> << >>, head |-> 0, tail |-> 0]

IsStaticMode == staticBuffer # NoRing

circleLen == Cardinality(DOMAIN staticBuffer.circleIndex)

\* The slot d places from slot i.
Forward(i, d) == (i + d) % circleLen
Backward(i) == (i + circleLen - 1) % circleLen

staticEmpty == staticBuffer.head = staticBuffer.tail

Empty == IF IsStaticMode THEN staticEmpty ELSE dynamicBuffer = << >>

Count ==
  IF ~IsStaticMode THEN Len(dynamicBuffer)
  ELSE IF staticBuffer.tail >= staticBuffer.head
         THEN staticBuffer.tail - staticBuffer.head
         ELSE circleLen - staticBuffer.head + staticBuffer.tail

\* The blocks in the order ForEach visits them.
ForEach ==
  IF IsStaticMode
    THEN [i \in 1..Count |-> staticBuffer.circleIndex[Forward(staticBuffer.head, i - 1)]]
    ELSE dynamicBuffer

Front == ForEach[1]
Back == ForEach[Count]

NoLimit == [CostNumber |-> 0, CostSize |-> 0, LimitNumber |-> 0, LimitSize |-> 0]

\* Mutant of WithinSize: what is added is not counted.
WithinSizeBefore(size) == limit.LimitSize > 0 => limit.CostSize <= limit.LimitSize

WithinNumber == limit.LimitNumber > 0 => limit.CostNumber < limit.LimitNumber
WithinSize(size) == limit.LimitSize > 0 => limit.CostSize + size <= limit.LimitSize

TypeOK ==
  /\ dynamicBuffer \in Seq(BufferBlock)
  /\ \/ staticBuffer = NoRing
     \/ LET n == limit.LimitNumber
        IN  /\ n > 0
            /\ staticBuffer \in [circleIndex: [0..n -> BufferBlock \cup {NoBlock}],
                                 head: 0..n, tail: 0..n]
  /\ limit \in [CostNumber: Nat, CostSize: Nat, LimitNumber: Nat, LimitSize: Nat]

-----------------------------------------------------------------------------
(* Configuration. *)

\* NewBufferManager.
Init == dynamicBuffer = << >> /\ staticBuffer = NoRing /\ limit = NoLimit

SetLimit(maxSize, maxNumber) ==
  /\ ~IsStaticMode
  /\ limit' = [limit EXCEPT !.LimitNumber = maxNumber, !.LimitSize = maxSize]
  /\ UNCHANGED <<dynamicBuffer, staticBuffer>>

Reset == dynamicBuffer' = << >> /\ staticBuffer' = NoRing /\ limit' = NoLimit

\* Mutant of SetMode: the ring has no slot to spare.
SetModeNoSpare(maxSize, maxNumber) ==
  /\ maxSize # 0 /\ maxNumber > 0
  /\ dynamicBuffer' = << >>
  /\ staticBuffer' = [circleIndex |-> [i \in 0..(maxNumber - 1) |-> NoBlock], head |-> 0, tail |-> 0]
  /\ limit' = [NoLimit EXCEPT !.LimitNumber = maxNumber, !.LimitSize = maxSize]

\* Reset, then a ring with one slot more than there can be blocks.
SetMode(maxSize, maxNumber) ==
  /\ maxSize # 0 /\ maxNumber > 0
  /\ dynamicBuffer' = << >>
  /\ staticBuffer' = [circleIndex |-> [i \in 0..maxNumber |-> NoBlock], head |-> 0, tail |-> 0]
  /\ limit' = [NoLimit EXCEPT !.LimitNumber = maxNumber, !.LimitSize = maxSize]

-----------------------------------------------------------------------------
(* Pushing. *)

Charge(size) ==
  limit' = [limit EXCEPT !.CostNumber = @ + 1, !.CostSize = @ + size]

staticFull == Forward(staticBuffer.tail, 1) = staticBuffer.head

\* Both slots are nil when the ring is empty: the block is then put into slot
\* 0, cut from the preallocated buffer, and may have no bytes at all.
slotsEmpty == /\ staticBuffer.circleIndex[staticBuffer.head] = NoBlock
              /\ staticBuffer.circleIndex[staticBuffer.tail] = NoBlock

staticPushFirst(b) ==
  staticBuffer' = [circleIndex |-> [staticBuffer.circleIndex EXCEPT ![0] = b],
                   head |-> 0, tail |-> 1 % circleLen]

staticPushBack(v, size) ==
  /\ ~staticFull
  /\ LET b == NewBufferBlock(v, size)
     IN  \/ slotsEmpty /\ staticPushFirst(b)
         \/ /\ ~slotsEmpty /\ size > 0
            /\ staticBuffer' = [staticBuffer EXCEPT
                                  !.circleIndex[staticBuffer.tail] = b,
                                  !.tail = Forward(@, 1)]

staticPushFront(v, size) ==
  /\ ~staticFull
  /\ LET b == NewBufferBlock(v, size)
     IN  \/ slotsEmpty /\ staticPushFirst(b)
         \/ /\ ~slotsEmpty /\ size > 0
            /\ staticBuffer' = [staticBuffer EXCEPT
                                  !.circleIndex[Backward(staticBuffer.head)] = b,
                                  !.head = Backward(@)]

PushBack(v, size) ==
  /\ WithinNumber /\ WithinSize(size)
  /\ \/ /\ ~IsStaticMode /\ size > 0 /\ Len(dynamicBuffer) < MaxBlocks
        /\ dynamicBuffer' = Append(dynamicBuffer, NewBufferBlock(v, size))
        /\ UNCHANGED staticBuffer
     \/ IsStaticMode /\ staticPushBack(v, size) /\ UNCHANGED dynamicBuffer
  /\ Charge(size)

PushFront(v, size) ==
  /\ WithinNumber /\ WithinSize(size)
  /\ \/ /\ ~IsStaticMode /\ size > 0 /\ Len(dynamicBuffer) < MaxBlocks
        /\ dynamicBuffer' = << NewBufferBlock(v, size) >> \o dynamicBuffer
        /\ UNCHANGED staticBuffer
     \/ IsStaticMode /\ staticPushFront(v, size) /\ UNCHANGED dynamicBuffer
  /\ Charge(size)

-----------------------------------------------------------------------------
(* Popping: free tells whether a block without unread bytes is released.   *)

\* Mutant of Refund: a freed block is still counted.
RefundBytes(size, freed, nowEmpty) ==
  limit' = IF nowEmpty
             THEN [limit EXCEPT !.CostNumber = 0, !.CostSize = 0]
             ELSE [limit EXCEPT !.CostSize = IF @ >= size THEN @ - size ELSE 0]

\* The costs after size bytes were popped and a block was or was not freed.
\* An empty manager has no costs; a counter never goes below zero.
Refund(size, freed, nowEmpty) ==
  limit' = IF nowEmpty
             THEN [limit EXCEPT !.CostNumber = 0, !.CostSize = 0]
             ELSE [limit EXCEPT
                     !.CostNumber = IF freed /\ @ > 0 THEN @ - 1 ELSE @,
                     !.CostSize = IF @ >= size THEN @ - size ELSE 0]

dynamicPopBack(size, free) ==
  LET b == Pop(Back, Clamp(Back, size))
      freed == free /\ Size(b) = 0
  IN  /\ dynamicBuffer' = IF freed THEN SubSeq(dynamicBuffer, 1, Count - 1)
                                   ELSE [dynamicBuffer EXCEPT ![Count] = b]
      /\ Refund(Clamp(Back, size), freed, dynamicBuffer' = << >>)
      /\ UNCHANGED staticBuffer

dynamicPopFront(size, free) ==
  LET b == Pop(Front, Clamp(Front, size))
      freed == free /\ Size(b) = 0
  IN  /\ dynamicBuffer' = IF freed THEN Tail(dynamicBuffer)
                                   ELSE [dynamicBuffer EXCEPT ![1] = b]
      /\ Refund(Clamp(Front, size), freed, dynamicBuffer' = << >>)
      /\ UNCHANGED staticBuffer

\* Mutant of RingAfterPop: the freed slot is not set to nil.
RingAfterPopKeeps(i, b, freed, newHead, newTail) ==
  IF ~freed THEN [staticBuffer EXCEPT !.circleIndex[i] = b]
  ELSE [staticBuffer EXCEPT !.head = IF newHead = newTail THEN 0 ELSE newHead,
                            !.tail = IF newHead = newTail THEN 0 ELSE newTail]

\* The ring after slot i took block b, or was freed and an end moved; an empty
\* ring starts at slot 0 again.
RingAfterPop(i, b, freed, newHead, newTail) ==
  IF ~freed THEN [staticBuffer EXCEPT !.circleIndex[i] = b]
  ELSE [circleIndex |-> [staticBuffer.circleIndex EXCEPT ![i] = NoBlock],
        head |-> IF newHead = newTail THEN 0 ELSE newHead,
        tail |-> IF newHead = newTail THEN 0 ELSE newTail]

staticPopBack(size, free) ==
  LET i == Backward(staticBuffer.tail)
      b == Pop(Back, Clamp(Back, size))
      freed == free /\ Size(b) = 0
  IN  /\ staticBuffer' = RingAfterPop(i, b, freed, staticBuffer.head, i)
      /\ Refund(Clamp(Back, size), freed, staticBuffer'.head = staticBuffer'.tail)
      /\ UNCHANGED dynamicBuffer

staticPopFront(size, free) ==
  LET i == staticBuffer.head
      b == Pop(Front, Clamp(Front, size))
      freed == free /\ Size(b) = 0
  IN  /\ staticBuffer' = RingAfterPop(i, b, freed, Forward(i, 1), staticBuffer.tail)
      /\ Refund(Clamp(Front, size), freed, staticBuffer'.head = staticBuffer'.tail)
      /\ UNCHANGED dynamicBuffer

PopBack(size, free) ==
  /\ ~Empty
  /\ IF IsStaticMode THEN staticPopBack(size, free) ELSE dynamicPopBack(size, free)

PopFront(size, free) ==
  /\ ~Empty
  /\ IF IsStaticMode THEN staticPopFront(size, free) ELSE dynamicPopFront(size, free)

-----------------------------------------------------------------------------
(* Merging: an empty manager pushes instead (PushBack and PushFront).      *)

dynamicMergeBack(v, size) ==
  /\ dynamicBuffer' = [dynamicBuffer EXCEPT ![Count] = GrownBack(@, v, size)]
  /\ UNCHANGED staticBuffer

dynamicMergeFront(v, size) ==
  /\ dynamicBuffer' = [dynamicBuffer EXCEPT ![1] = GrownFront(@, v, size)]
  /\ UNCHANGED staticBuffer

staticMergeBack(v, size) ==
  /\ staticBuffer' = [staticBuffer EXCEPT
       !.circleIndex[Backward(staticBuffer.tail)] = GrownBack(@, v, size)]
  /\ UNCHANGED dynamicBuffer

staticMergeFront(v, size) ==
  /\ staticBuffer' = [staticBuffer EXCEPT
       !.circleIndex[staticBuffer.head] = GrownFront(@, v, size)]
  /\ UNCHANGED dynamicBuffer

MergeBack(v, size) ==
  /\ ~Empty /\ size > 0 /\ WithinSize(size)
  /\ Len(Back.data) + size <= MaxRaw
  /\ IF IsStaticMode THEN staticMergeBack(v, size) ELSE dynamicMergeBack(v, size)
  /\ limit' = [limit EXCEPT !.CostSize = @ + size]

MergeFront(v, size) ==
  /\ ~Empty /\ size > 0 /\ WithinSize(size)
  /\ Len(Front.data) + size <= MaxRaw
  /\ IF IsStaticMode THEN staticMergeFront(v, size) ELSE dynamicMergeFront(v, size)
  /\ limit' = [limit EXCEPT !.CostSize = @ + size]

-----------------------------------------------------------------------------
Next ==
  \/ Reset
  \/ \E maxSize \in Sizes, maxNumber \in Numbers : \/ SetLimit(maxSize, maxNumber)
                                                 \/ SetMode(maxSize, maxNumber)
  \/ \E v \in Byte, size \in 0..MaxPush : \/ PushBack(v, size)
                                          \/ PushFront(v, size)
                                          \/ MergeBack(v, size)
                                          \/ MergeFront(v, size)
  \/ \E size \in 0..MaxRaw, free \in BOOLEAN : PopBack(size, free) \/ PopFront(size, free)

Spec == Init /\ [][Next]_vars

-----------------------------------------------------------------------------
(* Properties. *)

\* The sum of a list of numbers.
Total(sizes) ==
  LET sum[i \in 0..Len(sizes)] == IF i = 0 THEN 0 ELSE sum[i - 1] + sizes[i]
  IN  sum[Len(sizes)]

\* The number of unread bytes of all blocks.
UnreadSize == Total([i \in 1..Count |-> Size(ForEach[i])])

\* The counters the limits are compared with are the truth after any mix of
\* pushes, merges, partial pops and mode switches: CostNumber is the number of
\* blocks, those kept without unread bytes included, and CostSize the number of
\* their unread bytes.
CostsMatch == limit.CostNumber = Count /\ limit.CostSize = UnreadSize

\* The ring holds blocks in exactly the slots from head up to tail, around its
\* end, and an empty ring starts at slot 0: what staticPushBack relies on when
\* it takes two nil slots for "empty".
RingWindow ==
  IsStaticMode =>
    /\ \A i \in DOMAIN staticBuffer.circleIndex :
         staticBuffer.circleIndex[i] # NoBlock
           <=> \E k \in 0..(Count - 1) : i = Forward(staticBuffer.head, k)
    /\ staticEmpty => staticBuffer.head = 0

\* The free slot of the ring is never needed: the ring is full exactly when the
\* number limit is reached, so that no push within the limits is refused.
RingFullAtLimit ==
  IsStaticMode => (staticFull <=> limit.CostNumber = limit.LimitNumber)

\* No operation adds unread bytes past the size limit, or a block past the
\* number limit.
GrowthWithinLimits ==
  [][ /\ UnreadSize' > UnreadSize /\ limit'.LimitSize > 0 => UnreadSize' <= limit'.LimitSize
      /\ Count' > Count /\ limit'.LimitNumber > 0 => Count' <= limit'.LimitNumber ]_vars

\* Both modes implement the deque of blocks: every operation changes the unread
\* bytes as BlockDeque says, wherever the ring wraps and whatever was copied.
Deque == INSTANCE BlockDeque WITH
  Amounts <- 0..MaxRaw,
  deque <- [i \in 1..Count |-> [rest |-> Data(ForEach[i]), whole |-> ForEach[i].used = 0]]
DequeSpec == Deque!DSpec
=============================================================================
