----------------------------- MODULE BlockDeque -----------------------------
(***************************************************************************)
(* What a buffer manager promises its caller, whatever mode it runs in: a  *)
(* deque of blocks of unread bytes.  Blocks are added at either end, bytes *)
(* are popped from the front of the first or the last block, and a block   *)
(* at an end can be extended.  Nothing is said of rings, indexes, copies   *)
(* or limits.                                                              *)
(***************************************************************************)
EXTENDS Naturals, Sequences

CONSTANTS Byte,    \* what the caller can write into a byte
          Amounts  \* how many bytes an operation can be asked for

VARIABLE deque     \* the blocks: unread bytes, and whether none was popped

\* The elements of the deque.
DequeBlock == [rest: Seq(Byte), whole: BOOLEAN]

\* n bytes the caller filled with v.
Fill(v, n) == [i \in 1..n |-> v]

\* The block after n bytes, or all there are, were popped.
Popped(b, n) ==
  LET m == IF n > Len(b.rest) THEN Len(b.rest) ELSE n
  IN  [rest |-> SubSeq(b.rest, m + 1, Len(b.rest)), whole |-> b.whole /\ m = 0]

DInit == deque = << >>

DClear == deque' = << >>

DPushBack(v, n) == deque' = Append(deque, [rest |-> Fill(v, n), whole |-> TRUE])

DPushFront(v, n) == deque' = << [rest |-> Fill(v, n), whole |-> TRUE] >> \o deque

\* Bytes are popped from the last block; a block without bytes goes if asked.
DPopBack(n, free) ==
  /\ deque # << >>
  /\ LET b == Popped(deque[Len(deque)], n)
     IN  deque' = IF free /\ b.rest = << >>
                    THEN SubSeq(deque, 1, Len(deque) - 1)
                    ELSE [deque EXCEPT ![Len(deque)] = b]

DPopFront(n, free) ==
  /\ deque # << >>
  /\ LET b == Popped(deque[1], n)
     IN  deque' = IF free /\ b.rest = << >> THEN Tail(deque)
                                            ELSE [deque EXCEPT ![1] = b]

DMergeBack(v, n) ==
  /\ deque # << >>
  /\ deque' = [deque EXCEPT ![Len(deque)].rest = @ \o Fill(v, n)]

\* The promise of MergeFront covers a block no byte was popped from.  Of any
\* other block only the number of unread bytes is promised.
DMergeFront(v, n) ==
  /\ deque # << >>
  /\ IF deque[1].whole
       THEN deque' = [deque EXCEPT ![1].rest = Fill(v, n) \o @]
       ELSE /\ Len(deque') = Len(deque) /\ Tail(deque') = Tail(deque)
            /\ deque'[1] \in DequeBlock /\ ~deque'[1].whole
            /\ Len(deque'[1].rest) = n + Len(deque[1].rest)

DNext ==
  \/ DClear
  \/ \E v \in Byte, n \in Amounts : \/ DPushBack(v, n)
                                \/ DPushFront(v, n)
                                \/ DMergeBack(v, n)
                                \/ DMergeFront(v, n)
  \/ \E n \in Amounts, free \in BOOLEAN : DPopBack(n, free) \/ DPopFront(n, free)

DSpec == DInit /\ [][DNext]_deque
=============================================================================
