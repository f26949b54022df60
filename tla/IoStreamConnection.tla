------------------------- MODULE IoStreamConnection -------------------------
(***************************************************************************)
(* One stream connection inside its channel (channel/io_stream/            *)
(* channel_io_stream.go): the goroutine that opens it, its readLoop and    *)
(* writeLoop, goroutines that call Send and Disconnect on it, the one that *)
(* closes the channel, and the parent context that may be cancelled.  A    *)
(* step is what a goroutine does between two accesses to shared state.     *)
(*                                                                         *)
(* Frames are opaque: the frame n of sender s.  Frames of LargeSender are  *)
(* above DataSmallSize.  Sizes are counted in units of a small frame.      *)
(*                                                                         *)
(* The peer and the socket are the environment: a write may fail, part of  *)
(* it being out already, and a read may return data, bad data, the end of  *)
(* the stream or an error at any time.                                     *)
(***************************************************************************)
EXTENDS Integers, Sequences, SequencesExt

CONSTANTS
    Sender,       \* goroutines that call Send
    LargeSender,  \* those whose frames are not small
    User,         \* goroutines that call Disconnect
    MaxSend,      \* bound: frames accepted from one sender
    QueueCap,     \* capacity of writeQueue (DefaultWriteQueueSize)
    LargeSize,    \* size of a large frame, a small one being 1
    MergeMax      \* MergeBufferMaxSize

ASSUME SenderAssumption == LargeSender \subseteq Sender
ASSUME BoundsAssumption ==
    /\ MaxSend \in Nat /\ QueueCap \in Nat \ {0}
    /\ LargeSize \in Nat \ {0} /\ MergeMax \in Nat \ {0}

Reader == "readLoop"
ASSUME UserAssumption == Reader \notin User
Closer == User \cup {Reader}   \* who calls disconnectInternal(conn, false)

Frame == Sender \X Nat
Size(f) == IF f[1] \in LargeSender THEN LargeSize ELSE 1

VARIABLES
    chClosed,     \* IoStreamChannel.closed
    ctxDone,      \* the channel's context is cancelled
    opc,          \* the goroutine in Connect or acceptLoop
    kpc,          \* the goroutine in IoStreamChannel.Close
    status,       \* IoStreamConnection.status
    closed,       \* IoStreamConnection.closed
    writing,      \* IoStreamConnectionFlagWriting
    signalled,    \* disconnectCh is closed
    queue,        \* writeQueue
    queueClosed,  \* writeQueue is closed
    sockOpen,     \* the net.Conn is open
    registered,   \* the connection is in IoStreamChannel.connections
    runpc,        \* the next statement of the disconnectRun that won closed
    wpc,          \* writeLoop
    batch,        \* frames writeLoop holds
    batchSize,    \* their total size
    draining,     \* writeLoop is in drainRemainingWrites
    rpc,          \* readLoop
    dpc,          \* callers of disconnectInternal(conn, false)
    spc,          \* senders
    sent,         \* frames accepted, per sender
    crashed,      \* a goroutine has panicked
    accepted,     \* history: frames Send returned success for, in queue order
    wire,         \* history: frames handed to the transport
    reported,     \* history: frames with a Written callback of status 0
    rejected,     \* history: frames with a Written callback of a write error
    owed,         \* history: frames accepted when the connection left Connected
    disconnects   \* history: Disconnected callbacks

chanVars == <<chClosed, ctxDone, kpc>>
connVars == <<status, closed, writing, signalled, sockOpen, registered, runpc>>
queueVars == <<queue, queueClosed>>
writerVars == <<wpc, batch, batchSize, draining>>
senderVars == <<spc, sent>>
historyVars == <<accepted, wire, reported, rejected, owed, disconnects>>
vars == <<chanVars, opc, connVars, queueVars, writerVars, rpc, dpc, senderVars,
          crashed, historyVars>>

Init ==
    /\ chClosed = FALSE /\ ctxDone = FALSE /\ kpc = "idle"
    /\ opc = "idle"
    /\ status = "None" /\ closed = FALSE /\ writing = FALSE /\ signalled = FALSE
    /\ sockOpen = FALSE /\ registered = FALSE /\ runpc = "none"
    /\ queue = <<>> /\ queueClosed = FALSE
    /\ wpc = "off" /\ batch = <<>> /\ batchSize = 0 /\ draining = FALSE
    /\ rpc = "off"
    /\ dpc = [c \in Closer |-> "idle"]
    /\ spc = [s \in Sender |-> "idle"] /\ sent = [s \in Sender |-> 0]
    /\ crashed = FALSE
    /\ accepted = <<>> /\ wire = <<>> /\ reported = <<>> /\ rejected = <<>>
    /\ owed = 0 /\ disconnects = 0

\* A panic takes the whole process down.
Alive == ~crashed

-----------------------------------------------------------------------------
(* Opening: Connect, or one round of acceptLoop.                           *)

OpenBegin ==
    /\ Alive /\ opc = "idle"
    /\ opc' = IF chClosed THEN "refused" ELSE "dialing"
    /\ UNCHANGED <<chanVars, connVars, queueVars, writerVars, rpc, dpc, senderVars,
                   crashed, historyVars>>

\* The address is bad or the dial fails.
OpenFail ==
    /\ Alive /\ opc = "dialing"
    /\ opc' = "refused"
    /\ UNCHANGED <<chanVars, connVars, queueVars, writerVars, rpc, dpc, senderVars,
                   crashed, historyVars>>

\* createConnection; the callback that follows hands the connection to users.
CreateConnection ==
    /\ Alive /\ opc = "dialing"
    /\ opc' = "created"
    /\ status' = "Connected" /\ sockOpen' = TRUE /\ registered' = TRUE
    /\ UNCHANGED <<chanVars, closed, writing, signalled, runpc, queueVars, writerVars,
                   rpc, dpc, senderVars, crashed, historyVars>>

\* go readLoop, go writeLoop.
StartLoops ==
    /\ Alive /\ opc = "created"
    /\ opc' = "started"
    /\ wpc' = "select" /\ rpc' = "loop"
    /\ UNCHANGED <<chanVars, connVars, queueVars, batch, batchSize, draining, dpc,
                   senderVars, crashed, historyVars>>

Opened == opc \in {"created", "started"}

-----------------------------------------------------------------------------
(* Send.  The three loads it starts with read flags that never go back, so *)
(* when all pass they all held at the first: one step.  A Send that fails  *)
(* a check, or is above the size limit, changes nothing.                   *)

SendCheck(s) ==
    /\ Alive /\ spc[s] = "idle" /\ Opened /\ sent[s] < MaxSend
    /\ ~chClosed /\ ~closed /\ status = "Connected"
    /\ spc' = [spc EXCEPT ![s] = "enqueue"]
    /\ UNCHANGED <<chanVars, opc, connVars, queueVars, writerVars, rpc, dpc, sent,
                   crashed, historyVars>>

\* Mutant of SendAccept: the payload is queued without its frame.
SendAcceptUnframed(s) ==
    /\ Alive /\ spc[s] = "enqueue"
    /\ ~queueClosed /\ Len(queue) < QueueCap
    /\ spc' = [spc EXCEPT ![s] = "idle"]
    /\ sent' = [sent EXCEPT ![s] = @ + 1]
    /\ queue' = Append(queue, <<s>>)
    /\ accepted' = Append(accepted, <<s, sent[s] + 1>>)
    /\ UNCHANGED <<chanVars, opc, connVars, queueClosed, writerVars, rpc, dpc, crashed,
                   wire, reported, rejected, owed, disconnects>>

SendAccept(s) ==
    /\ Alive /\ spc[s] = "enqueue"
    /\ ~queueClosed /\ Len(queue) < QueueCap
    /\ spc' = [spc EXCEPT ![s] = "idle"]
    /\ sent' = [sent EXCEPT ![s] = @ + 1]
    /\ queue' = Append(queue, <<s, sent[s] + 1>>)
    /\ accepted' = Append(accepted, <<s, sent[s] + 1>>)
    /\ UNCHANGED <<chanVars, opc, connVars, queueClosed, writerVars, rpc, dpc, crashed,
                   wire, reported, rejected, owed, disconnects>>

\* ctx.Done wins the select, or the default branch: EN_ATBUS_ERR_CHANNEL_CLOSING
\* or EN_ATBUS_ERR_BUFF_LIMIT.
SendRefused(s) ==
    /\ Alive /\ spc[s] = "enqueue"
    /\ ctxDone \/ (~queueClosed /\ Len(queue) = QueueCap)
    /\ spc' = [spc EXCEPT ![s] = "idle"]
    /\ UNCHANGED <<chanVars, opc, connVars, queueVars, writerVars, rpc, dpc, sent,
                   crashed, historyVars>>

\* Go panics on a send to a closed channel.
SendPanic(s) ==
    /\ Alive /\ spc[s] = "enqueue"
    /\ queueClosed
    /\ crashed' = TRUE
    /\ UNCHANGED <<chanVars, opc, connVars, queueVars, writerVars, rpc, dpc, senderVars,
                   historyVars>>

-----------------------------------------------------------------------------
(* disconnectInternal(conn, false): Disconnect, and the end of readLoop.   *)

\* Under conn.mu: the caller that finds the connection Connected goes on.
LeaveConnected ==
    /\ status' = "Disconnecting"
    /\ owed' = Len(accepted)

DisconnectBegin(c) ==
    /\ Alive /\ dpc[c] = "idle"
    /\ IF c = Reader THEN rpc = "exit" ELSE Opened
    /\ IF status = "Connected"
       THEN LeaveConnected /\ dpc' = [dpc EXCEPT ![c] = "flag"]
       ELSE UNCHANGED <<status, owed>> /\ dpc' = [dpc EXCEPT ![c] = "done"]
    /\ UNCHANGED <<chanVars, opc, closed, writing, signalled, sockOpen, registered, runpc,
                   queueVars, writerVars, rpc, senderVars, crashed,
                   accepted, wire, reported, rejected, disconnects>>

\* Mutant of DisconnectSignal: the shutdown is always left to writeLoop.
DisconnectSignalNever(c) ==
    /\ Alive /\ dpc[c] = "flag"
    /\ dpc' = [dpc EXCEPT ![c] = "done"]
    /\ UNCHANGED <<chanVars, opc, connVars, queueVars, writerVars, rpc, senderVars,
                   crashed, historyVars>>

\* A write in progress defers the shutdown to writeLoop; otherwise signal it.
DisconnectSignal(c) ==
    /\ Alive /\ dpc[c] = "flag"
    /\ dpc' = [dpc EXCEPT ![c] = "done"]
    /\ signalled' = (signalled \/ ~writing)
    /\ UNCHANGED <<chanVars, opc, status, closed, writing, sockOpen, registered, runpc,
                   queueVars, writerVars, rpc, senderVars, crashed, historyVars>>

-----------------------------------------------------------------------------
(* IoStreamChannel.Close, and the context of NewIoStreamChannel.           *)

CloseBegin ==
    /\ Alive /\ kpc = "idle"
    /\ chClosed' = TRUE
    /\ kpc' = "cancel"
    /\ UNCHANGED <<ctxDone, opc, connVars, queueVars, writerVars, rpc, dpc, senderVars,
                   crashed, historyVars>>

CloseCancel ==
    /\ Alive /\ kpc = "cancel"
    /\ ctxDone' = TRUE
    /\ kpc' = "snapshot"
    /\ UNCHANGED <<chClosed, opc, connVars, queueVars, writerVars, rpc, dpc, senderVars,
                   crashed, historyVars>>

CloseSnapshot ==
    /\ Alive /\ kpc = "snapshot"
    /\ kpc' = IF registered THEN "force" ELSE "done"
    /\ UNCHANGED <<chClosed, ctxDone, opc, connVars, queueVars, writerVars, rpc, dpc,
                   senderVars, crashed, historyVars>>

\* disconnectInternal(conn, true), its critical section.
CloseForce ==
    /\ Alive /\ kpc = "force"
    /\ kpc' = "run"
    /\ IF status = "Connected" THEN LeaveConnected ELSE UNCHANGED <<status, owed>>
    /\ UNCHANGED <<chClosed, ctxDone, opc, closed, writing, signalled, sockOpen, registered,
                   runpc, queueVars, writerVars, rpc, dpc, senderVars, crashed,
                   accepted, wire, reported, rejected, disconnects>>

\* Mutant of DisconnectRun: closed is stored, and not tested.
DisconnectRunNoSwap ==
    /\ closed' = TRUE
    /\ runpc' = "queue"

\* disconnectRun: only the caller that swaps closed goes on to tear down.
DisconnectRun ==
    /\ closed' = TRUE
    /\ runpc' = IF closed THEN runpc ELSE "queue"

CloseRun ==
    /\ Alive /\ kpc = "run"
    /\ kpc' = "done"
    /\ DisconnectRun
    /\ UNCHANGED <<chClosed, ctxDone, opc, status, writing, signalled, sockOpen, registered,
                   queueVars, writerVars, rpc, dpc, senderVars, crashed, historyVars>>

\* The context given to NewIoStreamChannel is cancelled by its owner.
CancelContext ==
    /\ Alive /\ ~ctxDone
    /\ ctxDone' = TRUE
    /\ UNCHANGED <<chClosed, kpc, opc, connVars, queueVars, writerVars, rpc, dpc,
                   senderVars, crashed, historyVars>>

-----------------------------------------------------------------------------
(* The statements of disconnectRun after the swap.                         *)

RunCloseQueue ==
    /\ Alive /\ runpc = "queue"
    /\ runpc' = "socket"
    /\ queueClosed' = TRUE
    /\ crashed' = queueClosed     \* Go panics when a channel is closed twice
    /\ UNCHANGED <<chanVars, opc, status, closed, writing, signalled, sockOpen, registered,
                   queue, writerVars, rpc, dpc, senderVars, historyVars>>

RunCloseSocket ==
    /\ Alive /\ runpc = "socket"
    /\ runpc' = "map"
    /\ sockOpen' = FALSE
    /\ UNCHANGED <<chanVars, opc, status, closed, writing, signalled, registered, queueVars,
                   writerVars, rpc, dpc, senderVars, crashed, historyVars>>

RunUnregister ==
    /\ Alive /\ runpc = "map"
    /\ runpc' = "status"
    /\ registered' = FALSE
    /\ UNCHANGED <<chanVars, opc, status, closed, writing, signalled, sockOpen, queueVars,
                   writerVars, rpc, dpc, senderVars, crashed, historyVars>>

RunStatus ==
    /\ Alive /\ runpc = "status"
    /\ runpc' = "callback"
    /\ status' = "Disconnected"
    /\ UNCHANGED <<chanVars, opc, closed, writing, signalled, sockOpen, registered, queueVars,
                   writerVars, rpc, dpc, senderVars, crashed, historyVars>>

RunCallback ==
    /\ Alive /\ runpc = "callback"
    /\ runpc' = "done"
    /\ disconnects' = disconnects + 1
    /\ UNCHANGED <<chanVars, opc, status, closed, writing, signalled, sockOpen, registered,
                   queueVars, writerVars, rpc, dpc, senderVars, crashed,
                   accepted, wire, reported, rejected, owed>>

Teardown == RunCloseQueue \/ RunCloseSocket \/ RunUnregister \/ RunStatus \/ RunCallback

-----------------------------------------------------------------------------
(* writeLoop.  "select" is its select, "drain" the one of                  *)
(* drainRemainingWrites; writeFrameAndNotify and                           *)
(* writeMergedFramesAndNotify are mark, writing, unmark, notify on a batch *)
(* of one or of several frames.                                            *)

WriterSame == UNCHANGED <<chanVars, opc, rpc, dpc, senderVars, crashed>>

\* Mutant of WriterLeave: the select does not watch the context.
WriterLeaveNoContext ==
    /\ Alive /\ wpc = "select"
    /\ queueClosed /\ queue = <<>>
    /\ wpc' = "exit"
    /\ WriterSame /\ UNCHANGED <<connVars, queueVars, batch, batchSize, draining, historyVars>>

\* ctx.Done, or the queue is closed and empty.
WriterLeave ==
    /\ Alive /\ wpc = "select"
    /\ ctxDone \/ (queueClosed /\ queue = <<>>)
    /\ wpc' = "exit"
    /\ WriterSame /\ UNCHANGED <<connVars, queueVars, batch, batchSize, draining, historyVars>>

WriterSignalled ==
    /\ Alive /\ wpc = "select"
    /\ signalled
    /\ wpc' = "drain" /\ draining' = TRUE
    /\ WriterSame /\ UNCHANGED <<connVars, queueVars, batch, batchSize, historyVars>>

WriterDrained ==
    /\ Alive /\ wpc = "drain"
    /\ queue = <<>>
    /\ wpc' = "exit"
    /\ WriterSame /\ UNCHANGED <<connVars, queueVars, batch, batchSize, draining, historyVars>>

WriterTake ==
    /\ Alive /\ wpc \in {"select", "drain"}
    /\ queue # <<>>
    /\ wpc' = "taken"
    /\ batch' = <<Head(queue)>> /\ batchSize' = Size(Head(queue))
    /\ queue' = Tail(queue)
    /\ WriterSame /\ UNCHANGED <<connVars, queueClosed, draining, historyVars>>

\* The connection was closed meanwhile: the frame is dropped.
WriterTakenClosed ==
    /\ Alive /\ wpc = "taken"
    /\ closed
    /\ wpc' = "exit"
    /\ WriterSame /\ UNCHANGED <<connVars, queueVars, batch, batchSize, draining, historyVars>>

\* A small frame with more queued behind it starts a merge.
WriterTaken ==
    /\ Alive /\ wpc = "taken"
    /\ ~closed
    /\ wpc' = IF ~draining /\ Head(batch)[1] \notin LargeSender /\ queue # <<>>
              THEN "collect" ELSE "mark"
    /\ WriterSame /\ UNCHANGED <<connVars, queueVars, batch, batchSize, draining, historyVars>>

\* Mutant of WriterCollect: the merge puts the newer frame first.
WriterCollectNewestFirst ==
    /\ Alive /\ wpc = "collect"
    /\ batchSize < MergeMax /\ queue # <<>>
    /\ batch' = <<Head(queue)>> \o batch
    /\ batchSize' = batchSize + Size(Head(queue))
    /\ queue' = Tail(queue)
    /\ WriterSame /\ UNCHANGED <<connVars, queueClosed, wpc, draining, historyVars>>

\* One round of collectSmallWrites; the frames it adds need not be small.
WriterCollect ==
    /\ Alive /\ wpc = "collect"
    /\ batchSize < MergeMax /\ queue # <<>>
    /\ batch' = Append(batch, Head(queue))
    /\ batchSize' = batchSize + Size(Head(queue))
    /\ queue' = Tail(queue)
    /\ WriterSame /\ UNCHANGED <<connVars, queueClosed, wpc, draining, historyVars>>

WriterCollected ==
    /\ Alive /\ wpc = "collect"
    /\ batchSize >= MergeMax \/ queue = <<>>
    /\ wpc' = "mark"
    /\ WriterSame /\ UNCHANGED <<connVars, queueVars, batch, batchSize, draining, historyVars>>

WriterMark ==
    /\ Alive /\ wpc = "mark"
    /\ wpc' = "writing"
    /\ writing' = TRUE
    /\ WriterSame /\ UNCHANGED <<status, closed, signalled, sockOpen, registered, runpc,
                                 queueVars, batch, batchSize, draining, historyVars>>

WriterWrite ==
    /\ Alive /\ wpc = "writing"
    /\ sockOpen
    /\ wpc' = "unmark"
    /\ wire' = wire \o batch
    /\ WriterSame /\ UNCHANGED <<connVars, queueVars, batch, batchSize, draining,
                                 accepted, reported, rejected, owed, disconnects>>

\* net.Conn.Write fails after the first k frames of the batch went out.
WriterWriteFails ==
    /\ Alive /\ wpc = "writing"
    /\ wpc' = "unmarkFailed"
    /\ \E k \in 0 .. Len(batch) - 1 : wire' = wire \o SubSeq(batch, 1, k)
    /\ WriterSame /\ UNCHANGED <<connVars, queueVars, batch, batchSize, draining,
                                 accepted, reported, rejected, owed, disconnects>>

\* Mutant of WriterUnmark: the error of the write is ignored.
WriterUnmarkIgnoresError ==
    /\ Alive /\ wpc \in {"unmark", "unmarkFailed"}
    /\ wpc' = "notify"
    /\ writing' = FALSE
    /\ WriterSame /\ UNCHANGED <<status, closed, signalled, sockOpen, registered, runpc,
                                 queueVars, batch, batchSize, draining, historyVars>>

WriterUnmark ==
    /\ Alive /\ wpc \in {"unmark", "unmarkFailed"}
    /\ wpc' = IF wpc = "unmark" THEN "notify" ELSE "notifyFailed"
    /\ writing' = FALSE
    /\ WriterSame /\ UNCHANGED <<status, closed, signalled, sockOpen, registered, runpc,
                                 queueVars, batch, batchSize, draining, historyVars>>

WriterNotify ==
    /\ Alive /\ wpc = "notify"
    /\ wpc' = IF draining THEN "drain" ELSE "check"
    /\ reported' = reported \o batch
    /\ batch' = <<>> /\ batchSize' = 0
    /\ WriterSame /\ UNCHANGED <<connVars, queueVars, draining,
                                 accepted, wire, rejected, owed, disconnects>>

WriterNotifyFailed ==
    /\ Alive /\ wpc = "notifyFailed"
    /\ wpc' = "exit"
    /\ rejected' = rejected \o batch
    /\ batch' = <<>> /\ batchSize' = 0
    /\ WriterSame /\ UNCHANGED <<connVars, queueVars, draining,
                                 accepted, wire, reported, owed, disconnects>>

\* Mutants of WriterCheck: the status is not tested after a write, and a
\* deferred shutdown does not drain the queue.
WriterCheckNoStatus ==
    /\ Alive /\ wpc = "check"
    /\ wpc' = "select"
    /\ WriterSame /\ UNCHANGED <<connVars, queueVars, batch, batchSize, draining, historyVars>>
WriterCheckNoDrain ==
    /\ Alive /\ wpc = "check"
    /\ wpc' = IF status = "Disconnecting" THEN "exit" ELSE "select"
    /\ WriterSame /\ UNCHANGED <<connVars, queueVars, batch, batchSize, draining, historyVars>>

\* A Disconnect that came during the write left the shutdown to this loop.
WriterCheck ==
    /\ Alive /\ wpc = "check"
    /\ IF status = "Disconnecting"
       THEN wpc' = "drain" /\ draining' = TRUE
       ELSE wpc' = "select" /\ UNCHANGED draining
    /\ WriterSame /\ UNCHANGED <<connVars, queueVars, batch, batchSize, historyVars>>

\* The deferred disconnectRun.
WriterExit ==
    /\ Alive /\ wpc = "exit"
    /\ wpc' = "done"
    /\ DisconnectRun
    /\ WriterSame /\ UNCHANGED <<status, writing, signalled, sockOpen, registered,
                                 queueVars, batch, batchSize, draining, historyVars>>

Writer ==
    \/ WriterLeave \/ WriterSignalled \/ WriterDrained \/ WriterTake
    \/ WriterTakenClosed \/ WriterTaken \/ WriterCollect \/ WriterCollected
    \/ WriterMark \/ WriterWrite \/ WriterWriteFails \/ WriterUnmark
    \/ WriterNotify \/ WriterNotifyFailed \/ WriterCheck \/ WriterExit

-----------------------------------------------------------------------------
(* readLoop; its exit is DisconnectBegin(Reader).                          *)

ReaderSame == UNCHANGED <<chanVars, opc, connVars, queueVars, writerVars, dpc, senderVars,
                          crashed, historyVars>>

ReaderLoop ==
    /\ Alive /\ rpc = "loop"
    /\ rpc' = IF ctxDone \/ closed \/ status # "Connected" THEN "exit" ELSE "read"
    /\ ReaderSame

\* Read returns bytes; frames that are complete go to the Received callback.
ReaderData ==
    /\ Alive /\ rpc = "read"
    /\ sockOpen
    /\ rpc' = "loop"
    /\ ReaderSame

\* Read fails (end of stream, reset, closed locally), or the bytes break the
\* frame limits.
ReaderEnd ==
    /\ Alive /\ rpc = "read"
    /\ rpc' = "exit"
    /\ ReaderSame

-----------------------------------------------------------------------------

\* Nothing is left to run: the process is gone, or the connection never came
\* to be, or both of its loops and its teardown are finished.
Finished ==
    \/ crashed
    \/ opc = "refused"
    \/ wpc = "done" /\ dpc[Reader] = "done" /\ runpc = "done"

Stop == Finished /\ UNCHANGED vars

Next ==
    \/ OpenBegin \/ OpenFail \/ CreateConnection \/ StartLoops
    \/ \E s \in Sender : SendCheck(s) \/ SendAccept(s) \/ SendRefused(s) \/ SendPanic(s)
    \/ \E c \in Closer : DisconnectBegin(c) \/ DisconnectSignal(c)
    \/ CloseBegin \/ CloseCancel \/ CloseSnapshot \/ CloseForce \/ CloseRun
    \/ CancelContext
    \/ Teardown
    \/ Writer
    \/ ReaderLoop \/ ReaderData \/ ReaderEnd
    \/ Stop

Spec == Init /\ [][Next]_vars

\* Goroutines that can run do run, and a blocked Write returns some day.  The
\* peer owes nothing: a Read returns for sure only once the socket is closed.
Fairness ==
    /\ WF_vars(StartLoops)
    /\ WF_vars(DisconnectBegin(Reader))
    /\ \A c \in Closer : WF_vars(DisconnectSignal(c))
    /\ WF_vars(CloseCancel \/ CloseSnapshot \/ CloseForce \/ CloseRun)
    /\ WF_vars(Teardown)
    /\ WF_vars(Writer)
    /\ WF_vars(ReaderLoop)
    /\ WF_vars(~sockOpen /\ ReaderEnd)

FairSpec == Spec /\ Fairness

-----------------------------------------------------------------------------
(* Properties. *)

ControlTypeOK ==
    /\ chClosed \in BOOLEAN /\ ctxDone \in BOOLEAN
    /\ kpc \in {"idle", "cancel", "snapshot", "force", "run", "done"}
    /\ opc \in {"idle", "dialing", "refused", "created", "started"}
    /\ status \in {"None", "Connected", "Disconnecting", "Disconnected"}
    /\ closed \in BOOLEAN /\ writing \in BOOLEAN /\ signalled \in BOOLEAN
    /\ queueClosed \in BOOLEAN /\ sockOpen \in BOOLEAN /\ registered \in BOOLEAN
    /\ runpc \in {"none", "queue", "socket", "map", "status", "callback", "done"}
    /\ wpc \in {"off", "select", "drain", "taken", "collect", "mark", "writing", "unmark",
                "unmarkFailed", "notify", "notifyFailed", "check", "exit", "done"}
    /\ draining \in BOOLEAN /\ crashed \in BOOLEAN
    /\ rpc \in {"off", "loop", "read", "exit"}

DataTypeOK ==
    /\ queue \in Seq(Frame) /\ batch \in Seq(Frame) /\ batchSize \in Nat
    /\ dpc \in [Closer -> {"idle", "flag", "done"}]
    /\ spc \in [Sender -> {"idle", "enqueue"}] /\ sent \in [Sender -> Nat]
    /\ accepted \in Seq(Frame) /\ wire \in Seq(Frame)
    /\ reported \in Seq(Frame) /\ rejected \in Seq(Frame)
    /\ owed \in Nat /\ disconnects \in Nat

TypeOK == ControlTypeOK /\ DataTypeOK

\* Merging, draining and failing writes never reorder, repeat or skip a frame:
\* what the transport got is the beginning of what Send accepted.
WireInOrder == IsPrefix(wire, accepted)

\* A Written callback of status 0 is fired once per frame, in order, and only
\* for frames the transport took; the frames reported as failed follow them.
ReportsHonest ==
    /\ IsPrefix(reported, wire)
    /\ IsPrefix(reported \o rejected, accepted)

\* A graceful disconnect flushes: unless the channel was closed or a write
\* failed, every frame accepted before the connection left Connected is on the
\* wire when the socket is closed.
GracefulFlush ==
    closed /\ ~ctxDone /\ rejected = <<>> /\ wpc # "notifyFailed" => Len(wire) >= owed

\* disconnectRun is idempotent: the writer's deferred call and the one of Close
\* together close the queue once and fire one Disconnected callback, after
\* everything is released.
DisconnectedOnce ==
    /\ runpc = "queue" => ~queueClosed
    /\ disconnects <= 1
    /\ disconnects = 1 => ~registered /\ ~sockOpen /\ queueClosed /\ status = "Disconnected"

\* Cancelling the channel's context while senders are at work does not panic
\* (what TestIoStreamContextCancellation says it tests).  The code violates it:
\* disconnectRun closes writeQueue, and a Send that has passed its checks may
\* then choose the send in its select.
CancelDoesNotPanic == ctxDone => ~crashed

\* A deferred shutdown is never forgotten: when the connection is Disconnecting
\* and no caller is still about to signal, either writeLoop was signalled or
\* it has yet to reach the test of the status after its write, or it is on its
\* way out.
DeferredCloseNoticed ==
    status = "Disconnecting" /\ ~closed /\ (\A c \in Closer : dpc[c] # "flag") =>
        \/ signalled
        \/ draining
        \/ wpc \in {"writing", "unmark", "unmarkFailed", "notify", "notifyFailed", "check", "exit"}
        \/ kpc = "run"

\* Every disconnect completes: a connection that leaves Connected gets its
\* Disconnected callback.
DisconnectCompletes == (status = "Disconnecting") ~> (disconnects = 1 \/ crashed)

\* Cancelling the context, or closing the channel, tears down the connection,
\* also one created after Close took its snapshot of the connections.
CloseCompletes == (ctxDone /\ Opened) ~> (disconnects = 1 \/ crashed)
=============================================================================
