---------------------------- MODULE ReadAssembly ----------------------------
(***************************************************************************)
(* How readLoop puts frames together again from the chunks a stream socket *)
(* hands out.  Bytes go into a head buffer of DataSmallSize bytes; frames  *)
(* that fit are handed to the callback from there, and a larger one is     *)
(* moved into a buffer of its own which the following bytes fill.  A chunk *)
(* can end anywhere: inside the hash, the length, the payload, or after    *)
(* several frames.                                                         *)
(*                                                                         *)
(* One step is one turn of a loop: a Read of the socket, one turn of the   *)
(* loop that feeds a buffer, one turn of processReadHeadFrames.  Lengths   *)
(* are not damaged on the way; payloads may be, which the hash shows.      *)
(***************************************************************************)
EXTENDS FrameCodec

CONSTANTS DataSmallSize,    \* size of the head buffer
          ReadBufferSize,   \* most bytes one Read returns
          Payloads,         \* the payloads that are sent
          LimitSizes,       \* values of ReceiveBufferLimitSize, 0 for none
          MaxHashFailed,    \* MaxReadCheckHashFailedCount
          MaxSizeFailed,    \* MaxReadCheckBlockSizeFailedCount
          MaxFrames         \* bound: frames that are sent

ASSUME ReadAssemblyAssumption ==
  /\ Payloads \subseteq Seq(Byte) /\ \A p \in Payloads : Sum32(p) \in Byte
  /\ DataSmallSize \in Nat /\ ReadBufferSize \in Nat \ {0} /\ LimitSizes \subseteq Nat
  /\ MaxHashFailed \in Nat /\ MaxSizeFailed \in Nat /\ MaxFrames \in Nat
  \* A header is small: one that is complete but for the payload fits in the
  \* head buffer (14 of 7168 bytes in the code).
  /\ \A p \in Payloads : HashSize + VintEncodedSize(Len(p)) <= DataSmallSize

VARIABLES sent,          \* the frames sent: payload, and whether it stayed intact
          wire,          \* bytes in the socket
          pc,            \* where readLoop is
          incoming,      \* the rest of the chunk that was read
          readHead,      \* the bytes in the head buffer
          buffStart,     \* how many of them are parsed
          readLargeFrame,\* the frame being assembled, or NoFrame
          limitSize,     \* ReceiveBufferLimitSize of the channel
          hashFailed,    \* checkHashFailedCount
          sizeFailed,    \* checkBlockSizeFailedCount
          isFree,        \* the connection is to be closed for bad data
          received       \* payloads handed to the Received callback

vars == <<sent, wire, pc, incoming, readHead, buffStart, readLargeFrame, limitSize,
          hashFailed, sizeFailed, isFree, received>>

counters == <<hashFailed, sizeFailed>>

NoFrame == [buffer |-> << >>, msgLen |-> 0]

OverLimit(size) == limitSize > 0 /\ size > limitSize

TypeOK ==
  /\ wire \in Seq(Byte) /\ incoming \in Seq(Byte) /\ readHead \in Seq(Byte)
  /\ sent \in Seq([payload: Payloads, intact: BOOLEAN])
  /\ pc \in {"read", "feed", "parse", "done"}
  /\ Len(readHead) <= DataSmallSize /\ buffStart \in 0..Len(readHead)
  /\ readLargeFrame.buffer \in Seq(Byte) /\ readLargeFrame.msgLen \in Nat
  /\ limitSize \in LimitSizes /\ hashFailed \in Nat /\ sizeFailed \in Nat
  /\ isFree \in BOOLEAN /\ received \in Seq(Seq(Byte))

Init ==
  /\ sent = << >> /\ wire = << >> /\ pc = "read" /\ incoming = << >>
  /\ readHead = << >> /\ buffStart = 0 /\ readLargeFrame = NoFrame
  /\ limitSize \in LimitSizes
  /\ hashFailed = 0 /\ sizeFailed = 0 /\ isFree = FALSE /\ received = << >>

-----------------------------------------------------------------------------
\* The other side packs a frame; on the way its hash or payload may be damaged.
SendFrame(p, intact) ==
  /\ Len(sent) < MaxFrames
  /\ sent' = Append(sent, [payload |-> p, intact |-> intact])
  /\ wire' = wire \o (IF intact THEN PackFrame(p)
                      ELSE [PackFrame(p) EXCEPT ![1] = (@ + 1) % (2 * VintBase)])
  /\ UNCHANGED <<pc, incoming, readHead, buffStart, readLargeFrame, limitSize,
                 counters, isFree, received>>

\* Read returns some of the bytes that have arrived.
Read(n) ==
  /\ pc = "read" /\ n <= Len(wire)
  /\ incoming' = SubSeq(wire, 1, n)
  /\ wire' = SubSeq(wire, n + 1, Len(wire))
  /\ pc' = "feed"
  /\ UNCHANGED <<sent, readHead, buffStart, readLargeFrame, limitSize, counters,
                 isFree, received>>

\* readLoop ends without bad data: end of stream, an error of the socket, the
\* connection or the channel closed.
ReadEnds ==
  /\ pc = "read" /\ pc' = "done"
  /\ UNCHANGED <<sent, wire, incoming, readHead, buffStart, readLargeFrame,
                 limitSize, counters, isFree, received>>

-----------------------------------------------------------------------------
\* The checks of a complete frame: the hash, then the size limit, then the
\* callback.  A failed check is counted; past its limit the connection goes.
CheckFrame(hash, payload) ==
  \/ /\ hash # CalculateHash(payload)
     /\ hashFailed' = hashFailed + 1
     /\ isFree' = (isFree \/ hashFailed' > MaxHashFailed)
     /\ UNCHANGED <<sizeFailed, received>>
  \/ /\ hash = CalculateHash(payload) /\ OverLimit(Len(payload))
     /\ sizeFailed' = sizeFailed + 1
     /\ isFree' = (isFree \/ sizeFailed' > MaxSizeFailed)
     /\ UNCHANGED <<hashFailed, received>>
  \/ /\ hash = CalculateHash(payload) /\ ~OverLimit(Len(payload))
     /\ received' = Append(received, payload)
     /\ UNCHANGED <<counters, isFree>>

\* The bytes of the chunk that go on to a buffer with this much room.
CopyLen(room) == IF Len(incoming) > room THEN room ELSE Len(incoming)

Consume(n) == incoming' = SubSeq(incoming, n + 1, Len(incoming))

\* The chunk is used up: read again.
FeedEnds ==
  /\ pc = "feed" /\ incoming = << >> /\ pc' = "read"
  /\ UNCHANGED <<sent, wire, incoming, readHead, buffStart, readLargeFrame,
                 limitSize, counters, isFree, received>>

\* Bytes for the large frame that does not become complete with them.
FeedLargeFrame ==
  /\ pc = "feed" /\ incoming # << >> /\ readLargeFrame # NoFrame
  /\ LET remaining == HashSize + readLargeFrame.msgLen - Len(readLargeFrame.buffer)
     IN  /\ Len(incoming) < remaining
         /\ readLargeFrame' = [readLargeFrame EXCEPT !.buffer = @ \o incoming]
  /\ incoming' = << >>
  /\ UNCHANGED <<sent, wire, pc, readHead, buffStart, limitSize, counters, isFree, received>>

\* processCompleteLargeFrame, when the bytes complete the large frame.
CompleteLargeFrame ==
  /\ pc = "feed" /\ incoming # << >> /\ readLargeFrame # NoFrame
  /\ LET remaining == HashSize + readLargeFrame.msgLen - Len(readLargeFrame.buffer)
         buffer == readLargeFrame.buffer \o SubSeq(incoming, 1, remaining)
     IN  /\ Len(incoming) >= remaining
         /\ Consume(remaining)
         /\ CheckFrame(buffer[1], Tail(buffer))
         /\ pc' = IF isFree' THEN "done" ELSE "feed"
  /\ readLargeFrame' = NoFrame
  /\ UNCHANGED <<sent, wire, readHead, buffStart, limitSize>>

\* Mutant of FeedHead: a head buffer that becomes full is a data error, too.
FeedHeadFull ==
  /\ pc = "feed" /\ incoming # << >> /\ readLargeFrame = NoFrame
  /\ LET space == DataSmallSize - Len(readHead)
     IN  /\ isFree' = (space <= CopyLen(space))
         /\ pc' = IF isFree' THEN "done" ELSE "parse"
         /\ readHead' = readHead \o SubSeq(incoming, 1, CopyLen(space))
         /\ Consume(CopyLen(space))
  /\ buffStart' = 0
  /\ UNCHANGED <<sent, wire, readLargeFrame, limitSize, counters, received>>

\* Bytes for the head buffer, which is then parsed.  A head buffer that is full
\* although nothing in it could be parsed is a data error.
FeedHead ==
  /\ pc = "feed" /\ incoming # << >> /\ readLargeFrame = NoFrame
  /\ LET space == DataSmallSize - Len(readHead)
     IN  /\ isFree' = (space <= 0)
         /\ pc' = IF space <= 0 THEN "done" ELSE "parse"
         /\ readHead' = readHead \o SubSeq(incoming, 1, CopyLen(space))
         /\ Consume(CopyLen(space))
  /\ buffStart' = 0
  /\ UNCHANGED <<sent, wire, readLargeFrame, limitSize, counters, received>>

-----------------------------------------------------------------------------
(* One turn of processReadHeadFrames.                                      *)

\* What is left to parse, and the header it starts with.
Left == SubSeq(readHead, buffStart + 1, Len(readHead))
HeaderComplete == Len(Left) > HashSize /\ VintSize(Tail(Left)) > 0

\* Mutant of HeaderSize: a length of one byte is assumed.
HeaderSizeShort == HashSize + 1

HeaderSize == HashSize + VintSize(Tail(Left))

MsgLen == ReadVint(Tail(Left))
TotalFrameSize == HeaderSize + MsgLen

\* A complete frame.  The loop goes on even after a check failed for good.
ParseFrame ==
  /\ pc = "parse" /\ HeaderComplete /\ Len(Left) >= TotalFrameSize
  /\ CheckFrame(Left[1], SubSeq(Left, HeaderSize + 1, TotalFrameSize))
  /\ buffStart' = buffStart + TotalFrameSize
  /\ UNCHANGED <<sent, wire, pc, incoming, readHead, readLargeFrame, limitSize>>

\* Mutant of EndParse: what is left is forgotten.
EndParseForgets(left) ==
  /\ readHead' = << >> /\ buffStart' = 0
  /\ pc' = IF isFree' THEN "done" ELSE "feed"

\* The end of processReadHeadFrames: what is left moves to the front.
EndParse(left) ==
  /\ readHead' = left /\ buffStart' = 0
  /\ pc' = IF isFree' THEN "done" ELSE "feed"

\* Mutant of ParseIncomplete: the loop does not stop when exactly one byte follows the
\* hash.
ParseIncompletePayload ==
  /\ pc = "parse" /\ Len(Left) # HashSize + 1
  /\ \/ ~HeaderComplete
     \/ /\ HeaderComplete /\ Len(Left) < TotalFrameSize
        /\ TotalFrameSize <= DataSmallSize
  /\ UNCHANGED isFree
  /\ EndParse(Left)
  /\ UNCHANGED <<sent, wire, incoming, readLargeFrame, limitSize, counters, received>>

\* The rest needs more bytes and will fit in the head buffer.
ParseIncomplete ==
  /\ pc = "parse"
  /\ \/ ~HeaderComplete
     \/ /\ HeaderComplete /\ Len(Left) < TotalFrameSize
        /\ TotalFrameSize <= DataSmallSize
  /\ UNCHANGED isFree
  /\ EndParse(Left)
  /\ UNCHANGED <<sent, wire, incoming, readLargeFrame, limitSize, counters, received>>

\* The rest starts a frame that will not fit: its hash and what there is of its
\* payload start a buffer of their own.
ParseLarge ==
  /\ pc = "parse" /\ HeaderComplete
  /\ Len(Left) < TotalFrameSize /\ TotalFrameSize > DataSmallSize
  /\ \/ /\ OverLimit(MsgLen)
        /\ sizeFailed' = sizeFailed + 1
        /\ isFree' = TRUE
        /\ EndParse(Left)
        /\ UNCHANGED readLargeFrame
     \/ /\ ~OverLimit(MsgLen)
        /\ readLargeFrame' = [buffer |-> <<Left[1]>> \o SubSeq(Left, HeaderSize + 1, Len(Left)),
                              msgLen |-> MsgLen]
        /\ UNCHANGED <<sizeFailed, isFree>>
        /\ EndParse(<< >>)
  /\ UNCHANGED <<sent, wire, incoming, limitSize, hashFailed, received>>

-----------------------------------------------------------------------------
ReadLoop == \/ \E n \in 1..ReadBufferSize : Read(n)
            \/ FeedEnds \/ FeedLargeFrame \/ CompleteLargeFrame \/ FeedHead
            \/ ParseFrame \/ ParseIncomplete \/ ParseLarge

Next == \/ \E p \in Payloads, intact \in BOOLEAN : SendFrame(p, intact)
        \/ ReadEnds
        \/ ReadLoop

\* The goroutine of readLoop goes on while it can.
Spec == Init /\ [][Next]_vars /\ WF_vars(ReadLoop)

-----------------------------------------------------------------------------
(* Properties. *)

\* The frames the receiver should be given: intact ones within the limit.
Deliverable(f) == f.intact /\ ~OverLimit(Len(f.payload))
Expected ==
  LET upTo[k \in 0..Len(sent)] ==
        IF k = 0 THEN << >>
        ELSE IF Deliverable(sent[k]) THEN Append(upTo[k - 1], sent[k].payload)
        ELSE upTo[k - 1]
  IN  upTo[Len(sent)]

\* However the stream is cut into chunks and whichever buffer a frame goes
\* through, the callback gets the payloads of the good frames, unchanged, in
\* the order they were sent, each once.
ReceivedInOrder ==
  /\ Len(received) <= Len(Expected)
  /\ \A i \in 1..Len(received) : received[i] = Expected[i]

\* Nothing stays in a buffer: once all bytes that arrived are read and parsed,
\* every good frame was handed over.
NothingHeldBack ==
  (pc = "read" /\ wire = << >>) => Len(received) = Len(Expected)

\* Bad data is the only reason to give a connection up: more frames with a
\* wrong hash or too large than tolerated, or one too large for the head
\* buffer.  In particular the head buffer is never found full.
ClosedOnlyForBadData ==
  isFree =>
    \/ Cardinality({i \in DOMAIN sent : ~sent[i].intact}) > MaxHashFailed
    \/ Cardinality({i \in DOMAIN sent : OverLimit(Len(sent[i].payload))}) > MaxSizeFailed
    \/ \E i \in DOMAIN sent : /\ OverLimit(Len(sent[i].payload))
                              /\ PackFrameSize(Len(sent[i].payload)) > DataSmallSize

\* The loops of readLoop end and no frame waits for the next one: time and
\* again every good frame sent so far was handed over, unless the loop ended.
EventuallyReceived == []<>(Len(received) = Len(Expected) \/ pc = "done")
=============================================================================
