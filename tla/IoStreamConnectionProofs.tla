---------------------- MODULE IoStreamConnectionProofs ----------------------
(***************************************************************************)
(* Proofs about a stream connection, for any number of senders and of      *)
(* callers of Disconnect, any queue capacity and any merge limit.          *)
(***************************************************************************)
EXTENDS IoStreamConnection, SequenceTheorems, TLAPS

\* What is true before createConnection has run, and before the loops run.
BeforeCreate ==
    /\ opc \in {"idle", "dialing", "refused"} =>
           /\ status = "None" /\ ~closed /\ ~registered /\ ~sockOpen
           /\ kpc \notin {"force", "run"}
           /\ \A c \in Closer : dpc[c] = "idle"
    /\ opc # "started" => wpc = "off" /\ rpc = "off"

\* Where the winner of the closed swap is, and what it has released so far.
RunProgress ==
    /\ closed <=> runpc # "none"
    /\ queueClosed <=> runpc \notin {"none", "queue"}
    /\ runpc \in {"map", "status", "callback", "done"} => ~sockOpen
    /\ runpc \in {"status", "callback", "done"} => ~registered
    /\ runpc \in {"callback", "done"} => status = "Disconnected"
    /\ disconnects = IF runpc = "done" THEN 1 ELSE 0
    /\ crashed => queueClosed /\ \E s \in Sender : spc[s] = "enqueue"

\* The Writing flag is up exactly around the write.
WritingFlag == writing <=> wpc \in {"writing", "unmark", "unmarkFailed"}

ControlInv == TypeOK /\ BeforeCreate /\ RunProgress /\ WritingFlag /\ DeferredCloseNoticed

USE DEF Alive, chanVars, connVars, queueVars, writerVars, senderVars, historyVars

-----------------------------------------------------------------------------

\* The initial state satisfies the control invariant.
LEMMA InitControl == Init => ControlInv
<1> SUFFICES ASSUME Init PROVE ControlInv
  OBVIOUS
<1>1. ControlTypeOK
  BY DEF Init, ControlTypeOK
<1>2. DataTypeOK
  BY DEF Init, DataTypeOK
<1>3. BeforeCreate /\ RunProgress /\ WritingFlag /\ DeferredCloseNoticed
  BY DEF Init, BeforeCreate, RunProgress, WritingFlag, DeferredCloseNoticed
<1> QED
  BY <1>1, <1>2, <1>3 DEF ControlInv, TypeOK

\* The frame a sender makes is a frame, and sizes are natural numbers.
LEMMA FrameFacts ==
  /\ \A s \in Sender, n \in Nat : <<s, n>> \in Frame
  /\ \A f \in Frame : Size(f) \in Nat
  BY BoundsAssumption DEF Frame, Size

\* Every step keeps the flags and program counters in range.
LEMMA ControlTypeStep == ControlTypeOK /\ [Next]_vars => ControlTypeOK'
<1> SUFFICES ASSUME ControlTypeOK, [Next]_vars PROVE ControlTypeOK'
  OBVIOUS
<1> USE DEF ControlTypeOK
<1>1. CASE OpenBegin
  BY <1>1 DEF OpenBegin
<1>2. CASE OpenFail
  BY <1>2 DEF OpenFail
<1>3. CASE CreateConnection
  BY <1>3 DEF CreateConnection
<1>4. CASE StartLoops
  BY <1>4 DEF StartLoops
<1>5. CASE CloseBegin
  BY <1>5 DEF CloseBegin
<1>6. CASE CloseCancel
  BY <1>6 DEF CloseCancel
<1>7. CASE CloseSnapshot
  BY <1>7 DEF CloseSnapshot
<1>8. CASE CloseForce
  BY <1>8 DEF CloseForce, LeaveConnected
<1>9. CASE CloseRun
  BY <1>9 DEF CloseRun, DisconnectRun
<1>10. CASE CancelContext
  BY <1>10 DEF CancelContext
<1>11. CASE RunCloseQueue
  BY <1>11 DEF RunCloseQueue
<1>12. CASE RunCloseSocket
  <2>1. sockOpen' \in BOOLEAN /\ runpc' = "map"
    BY <1>12 DEF RunCloseSocket
  <2>2. UNCHANGED <<chanVars, opc, status, closed, writing, signalled, registered,
                    queueClosed, wpc, draining, rpc, crashed>>
    BY <1>12 DEF RunCloseSocket
  <2> QED
    BY <2>1, <2>2
<1>13. CASE RunUnregister
  <2>1. registered' \in BOOLEAN /\ runpc' = "status"
    BY <1>13 DEF RunUnregister
  <2>2. UNCHANGED <<chanVars, opc, status, closed, writing, signalled, sockOpen,
                    queueClosed, wpc, draining, rpc, crashed>>
    BY <1>13 DEF RunUnregister
  <2> QED
    BY <2>1, <2>2
<1>14. CASE RunStatus
  BY <1>14 DEF RunStatus
<1>15. CASE RunCallback
  BY <1>15 DEF RunCallback
<1>16. CASE WriterLeave
  BY <1>16 DEF WriterLeave, WriterSame
<1>17. CASE WriterSignalled
  BY <1>17 DEF WriterSignalled, WriterSame
<1>18. CASE WriterDrained
  BY <1>18 DEF WriterDrained, WriterSame
<1>19. CASE WriterTake
  BY <1>19 DEF WriterTake, WriterSame
<1>20. CASE WriterTakenClosed
  BY <1>20 DEF WriterTakenClosed, WriterSame
<1>21. CASE WriterTaken
  BY <1>21 DEF WriterTaken, WriterSame
<1>22. CASE WriterCollect
  BY <1>22 DEF WriterCollect, WriterSame
<1>23. CASE WriterCollected
  BY <1>23 DEF WriterCollected, WriterSame
<1>24. CASE WriterMark
  BY <1>24 DEF WriterMark, WriterSame
<1>25. CASE WriterWrite
  BY <1>25 DEF WriterWrite, WriterSame
<1>26. CASE WriterWriteFails
  BY <1>26 DEF WriterWriteFails, WriterSame
<1>27. CASE WriterUnmark
  <2>1. writing' \in BOOLEAN /\ wpc' \in {"notify", "notifyFailed"}
    BY <1>27 DEF WriterUnmark
  <2>2. UNCHANGED <<chanVars, opc, status, closed, signalled, sockOpen, registered,
                    runpc, queueClosed, draining, rpc, crashed>>
    BY <1>27 DEF WriterUnmark, WriterSame
  <2> QED
    BY <2>1, <2>2
<1>28. CASE WriterNotify
  BY <1>28 DEF WriterNotify, WriterSame
<1>29. CASE WriterNotifyFailed
  BY <1>29 DEF WriterNotifyFailed, WriterSame
<1>30. CASE WriterCheck
  <2>1. CASE status = "Disconnecting"
    BY <1>30, <2>1 DEF WriterCheck, WriterSame
  <2>2. CASE status # "Disconnecting"
    BY <1>30, <2>2 DEF WriterCheck, WriterSame
  <2> QED
    BY <2>1, <2>2
<1>31. CASE WriterExit
  BY <1>31 DEF WriterExit, DisconnectRun, WriterSame
<1>32. CASE ReaderLoop
  BY <1>32 DEF ReaderLoop, ReaderSame
<1>33. CASE ReaderData
  BY <1>33 DEF ReaderData, ReaderSame
<1>34. CASE ReaderEnd
  BY <1>34 DEF ReaderEnd, ReaderSame
<1>35. ASSUME NEW s \in Sender, SendCheck(s) PROVE ControlTypeOK'
  BY <1>35 DEF SendCheck
<1>36. ASSUME NEW s \in Sender, SendAccept(s) PROVE ControlTypeOK'
  BY <1>36 DEF SendAccept
<1>37. ASSUME NEW s \in Sender, SendRefused(s) PROVE ControlTypeOK'
  BY <1>37 DEF SendRefused
<1>38. ASSUME NEW s \in Sender, SendPanic(s) PROVE ControlTypeOK'
  BY <1>38 DEF SendPanic
<1>39. ASSUME NEW c \in Closer, DisconnectBegin(c) PROVE ControlTypeOK'
  BY <1>39 DEF DisconnectBegin, LeaveConnected
<1>40. ASSUME NEW c \in Closer, DisconnectSignal(c) PROVE ControlTypeOK'
  BY <1>40 DEF DisconnectSignal
<1>41. CASE UNCHANGED vars
  BY <1>41 DEF vars
<1> QED
  BY <1>1, <1>2, <1>3, <1>4, <1>5, <1>6, <1>7, <1>8, <1>9, <1>10, <1>11, <1>12, <1>13, <1>14, <1>15, <1>16, <1>17, <1>18, <1>19, <1>20, <1>21, <1>22, <1>23, <1>24, <1>25, <1>26, <1>27, <1>28, <1>29, <1>30, <1>31, <1>32, <1>33, <1>34, <1>35, <1>36, <1>37, <1>38, <1>39, <1>40, <1>41 DEF Next, Writer, Teardown, Stop

\* Every step keeps the types of the queue, the batch and the histories.
LEMMA DataTypeStep == DataTypeOK /\ [Next]_vars => DataTypeOK'
<1> SUFFICES ASSUME DataTypeOK, [Next]_vars PROVE DataTypeOK'
  OBVIOUS
<1> USE DEF DataTypeOK
<1>1. CASE OpenBegin
  BY <1>1 DEF OpenBegin
<1>2. CASE OpenFail
  BY <1>2 DEF OpenFail
<1>3. CASE CreateConnection
  BY <1>3 DEF CreateConnection
<1>4. CASE StartLoops
  BY <1>4 DEF StartLoops
<1>5. CASE CloseBegin
  BY <1>5 DEF CloseBegin
<1>6. CASE CloseCancel
  BY <1>6 DEF CloseCancel
<1>7. CASE CloseSnapshot
  BY <1>7 DEF CloseSnapshot
<1>8. CASE CloseForce
  BY <1>8 DEF CloseForce, LeaveConnected
<1>9. CASE CloseRun
  BY <1>9 DEF CloseRun, DisconnectRun
<1>10. CASE CancelContext
  BY <1>10 DEF CancelContext
<1>11. CASE RunCloseQueue
  BY <1>11 DEF RunCloseQueue
<1>12. CASE RunCloseSocket
  BY <1>12 DEF RunCloseSocket
<1>13. CASE RunUnregister
  BY <1>13 DEF RunUnregister
<1>14. CASE RunStatus
  BY <1>14 DEF RunStatus
<1>15. CASE RunCallback
  BY <1>15 DEF RunCallback
<1>16. CASE WriterLeave
  BY <1>16 DEF WriterLeave, WriterSame
<1>17. CASE WriterSignalled
  BY <1>17 DEF WriterSignalled, WriterSame
<1>18. CASE WriterDrained
  BY <1>18 DEF WriterDrained, WriterSame
<1>19. CASE WriterTake
  BY <1>19, FrameFacts DEF WriterTake, WriterSame
<1>20. CASE WriterTakenClosed
  BY <1>20 DEF WriterTakenClosed, WriterSame
<1>21. CASE WriterTaken
  BY <1>21 DEF WriterTaken, WriterSame
<1>22. CASE WriterCollect
  BY <1>22, FrameFacts, SMTT(60) DEF WriterCollect, WriterSame
<1>23. CASE WriterCollected
  BY <1>23 DEF WriterCollected, WriterSame
<1>24. CASE WriterMark
  BY <1>24 DEF WriterMark, WriterSame
<1>25. CASE WriterWrite
  BY <1>25 DEF WriterWrite, WriterSame
<1>26. CASE WriterWriteFails
  BY <1>26 DEF WriterWriteFails, WriterSame
<1>27. CASE WriterUnmark
  BY <1>27 DEF WriterUnmark, WriterSame
<1>28. CASE WriterNotify
  BY <1>28 DEF WriterNotify, WriterSame
<1>29. CASE WriterNotifyFailed
  BY <1>29 DEF WriterNotifyFailed, WriterSame
<1>30. CASE WriterCheck
  BY <1>30 DEF WriterCheck, WriterSame
<1>31. CASE WriterExit
  BY <1>31 DEF WriterExit, DisconnectRun, WriterSame
<1>32. CASE ReaderLoop
  BY <1>32 DEF ReaderLoop, ReaderSame
<1>33. CASE ReaderData
  BY <1>33 DEF ReaderData, ReaderSame
<1>34. CASE ReaderEnd
  BY <1>34 DEF ReaderEnd, ReaderSame
<1>35. ASSUME NEW s \in Sender, SendCheck(s) PROVE DataTypeOK'
  BY <1>35 DEF SendCheck
<1>36. ASSUME NEW s \in Sender, SendAccept(s) PROVE DataTypeOK'
  BY <1>36, FrameFacts DEF SendAccept
<1>37. ASSUME NEW s \in Sender, SendRefused(s) PROVE DataTypeOK'
  BY <1>37 DEF SendRefused
<1>38. ASSUME NEW s \in Sender, SendPanic(s) PROVE DataTypeOK'
  BY <1>38 DEF SendPanic
<1>39. ASSUME NEW c \in Closer, DisconnectBegin(c) PROVE DataTypeOK'
  <2>1. dpc' \in [Closer -> {"idle", "flag", "done"}] /\ owed' \in Nat
    <3>1. CASE status = "Connected"
      BY <1>39, <3>1, LenProperties DEF DisconnectBegin, LeaveConnected
    <3>2. CASE status # "Connected"
      BY <1>39, <3>2 DEF DisconnectBegin
    <3> QED
      BY <3>1, <3>2
  <2>2. UNCHANGED <<queueVars, batch, batchSize, senderVars,
                    accepted, wire, reported, rejected, disconnects>>
    BY <1>39 DEF DisconnectBegin
  <2> QED
    BY <2>1, <2>2
<1>40. ASSUME NEW c \in Closer, DisconnectSignal(c) PROVE DataTypeOK'
  BY <1>40 DEF DisconnectSignal
<1>41. CASE UNCHANGED vars
  BY <1>41 DEF vars
<1> QED
  BY <1>1, <1>2, <1>3, <1>4, <1>5, <1>6, <1>7, <1>8, <1>9, <1>10, <1>11, <1>12, <1>13, <1>14, <1>15, <1>16, <1>17, <1>18, <1>19, <1>20, <1>21, <1>22, <1>23, <1>24, <1>25, <1>26, <1>27, <1>28, <1>29, <1>30, <1>31, <1>32, <1>33, <1>34, <1>35, <1>36, <1>37, <1>38, <1>39, <1>40, <1>41 DEF Next, Writer, Teardown, Stop

\* Every step keeps the rest of the control invariant.
LEMMA ControlStep == ControlInv /\ [Next]_vars => ControlInv'
<1> DEFINE Rest == BeforeCreate /\ RunProgress /\ WritingFlag /\ DeferredCloseNoticed
<1> SUFFICES ASSUME ControlInv, [Next]_vars PROVE Rest'
  BY ControlTypeStep, DataTypeStep DEF ControlInv, TypeOK
<1> USE DEF ControlInv, TypeOK, ControlTypeOK, DataTypeOK, BeforeCreate, RunProgress,
            WritingFlag, DeferredCloseNoticed
<1>1. CASE OpenBegin
  BY <1>1 DEF OpenBegin
<1>2. CASE OpenFail
  BY <1>2 DEF OpenFail
<1>3. CASE CreateConnection
  BY <1>3 DEF CreateConnection
<1>4. CASE StartLoops
  BY <1>4 DEF StartLoops
<1>5. CASE CloseBegin
  BY <1>5 DEF CloseBegin
<1>6. CASE CloseCancel
  BY <1>6 DEF CloseCancel
<1>7. CASE CloseSnapshot
  BY <1>7 DEF CloseSnapshot
<1>8. CASE CloseForce
  BY <1>8 DEF CloseForce, LeaveConnected
<1>9. CASE CloseRun
  BY <1>9 DEF CloseRun, DisconnectRun
<1>10. CASE CancelContext
  BY <1>10 DEF CancelContext
<1>11. CASE RunCloseQueue
  BY <1>11 DEF RunCloseQueue
<1>12. CASE RunCloseSocket
  BY <1>12 DEF RunCloseSocket
<1>13. CASE RunUnregister
  BY <1>13 DEF RunUnregister
<1>14. CASE RunStatus
  BY <1>14 DEF RunStatus
<1>15. CASE RunCallback
  BY <1>15 DEF RunCallback
<1>16. CASE WriterLeave
  BY <1>16 DEF WriterLeave, WriterSame
<1>17. CASE WriterSignalled
  BY <1>17 DEF WriterSignalled, WriterSame
<1>18. CASE WriterDrained
  BY <1>18 DEF WriterDrained, WriterSame
<1>19. CASE WriterTake
  BY <1>19 DEF WriterTake, WriterSame
<1>20. CASE WriterTakenClosed
  BY <1>20 DEF WriterTakenClosed, WriterSame
<1>21. CASE WriterTaken
  BY <1>21 DEF WriterTaken, WriterSame
<1>22. CASE WriterCollect
  BY <1>22 DEF WriterCollect, WriterSame
<1>23. CASE WriterCollected
  BY <1>23 DEF WriterCollected, WriterSame
<1>24. CASE WriterMark
  BY <1>24 DEF WriterMark, WriterSame
<1>25. CASE WriterWrite
  BY <1>25 DEF WriterWrite, WriterSame
<1>26. CASE WriterWriteFails
  BY <1>26 DEF WriterWriteFails, WriterSame
<1>27. CASE WriterUnmark
  BY <1>27 DEF WriterUnmark, WriterSame
<1>28. CASE WriterNotify
  BY <1>28 DEF WriterNotify, WriterSame
<1>29. CASE WriterNotifyFailed
  BY <1>29 DEF WriterNotifyFailed, WriterSame
<1>30. CASE WriterCheck
  BY <1>30 DEF WriterCheck, WriterSame
<1>31. CASE WriterExit
  BY <1>31 DEF WriterExit, DisconnectRun, WriterSame
<1>32. CASE ReaderLoop
  BY <1>32 DEF ReaderLoop, ReaderSame
<1>33. CASE ReaderData
  BY <1>33 DEF ReaderData, ReaderSame
<1>34. CASE ReaderEnd
  BY <1>34 DEF ReaderEnd, ReaderSame
<1>35. ASSUME NEW s \in Sender, SendCheck(s) PROVE Rest'
  BY <1>35 DEF SendCheck
<1>36. ASSUME NEW s \in Sender, SendAccept(s) PROVE Rest'
  BY <1>36 DEF SendAccept
<1>37. ASSUME NEW s \in Sender, SendRefused(s) PROVE Rest'
  BY <1>37 DEF SendRefused
<1>38. ASSUME NEW s \in Sender, SendPanic(s) PROVE Rest'
  BY <1>38 DEF SendPanic
<1>39. ASSUME NEW c \in Closer, DisconnectBegin(c) PROVE Rest'
  <2>0. opc \in {"created", "started"}
    BY <1>39 DEF DisconnectBegin, Opened
  <2>1. UNCHANGED <<chanVars, opc, closed, writing, signalled, sockOpen, registered, runpc,
                    queueVars, writerVars, rpc, spc, crashed, disconnects>>
    BY <1>39 DEF DisconnectBegin
  <2>2. CASE status = "Connected"
    <3>1. status' = "Disconnecting" /\ dpc'[c] = "flag"
      BY <1>39, <2>2 DEF DisconnectBegin, LeaveConnected
    <3> QED
      BY <1>39, <2>0, <2>1, <2>2, <3>1
  <2>3. CASE status # "Connected"
    <3>1. status' = status /\ dpc' = [dpc EXCEPT ![c] = "done"] /\ dpc[c] = "idle"
      BY <1>39, <2>3 DEF DisconnectBegin
    <3>2. (\A d \in Closer : dpc'[d] # "flag") => \A d \in Closer : dpc[d] # "flag"
      BY <3>1
    <3> QED
      BY <2>0, <2>1, <3>1, <3>2
  <2> QED
    BY <2>2, <2>3
<1>40. ASSUME NEW c \in Closer, DisconnectSignal(c) PROVE Rest'
  BY <1>40 DEF DisconnectSignal
<1>41. CASE UNCHANGED vars
  BY <1>41 DEF vars
<1> QED
  BY <1>1, <1>2, <1>3, <1>4, <1>5, <1>6, <1>7, <1>8, <1>9, <1>10, <1>11, <1>12, <1>13, <1>14, <1>15, <1>16, <1>17, <1>18, <1>19, <1>20, <1>21, <1>22, <1>23, <1>24, <1>25, <1>26, <1>27, <1>28, <1>29, <1>30, <1>31, <1>32, <1>33, <1>34, <1>35, <1>36, <1>37, <1>38, <1>39, <1>40, <1>41 DEF Next, Writer, Teardown, Stop

-----------------------------------------------------------------------------

\* The control invariant holds in every reachable state.
THEOREM ConnectionControlInv == Spec => []ControlInv
  BY InitControl, ControlStep, PTL DEF Spec

\* Type correctness of the connection.
THEOREM ConnectionTypeOK == Spec => []TypeOK
<1>1. ControlInv => TypeOK
  BY DEF ControlInv
<1> QED
  BY <1>1, ConnectionControlInv, PTL

\* disconnectRun tears the connection down once, and reports it once.
THEOREM ConnectionDisconnectedOnce == Spec => []DisconnectedOnce
<1>1. ControlInv => DisconnectedOnce
  BY DEF ControlInv, RunProgress, DisconnectedOnce
<1> QED
  BY <1>1, ConnectionControlInv, PTL

\* A Disconnect that finds a write in progress never loses its shutdown.
THEOREM ConnectionDeferredCloseNoticed == Spec => []DeferredCloseNoticed
<1>1. ControlInv => DeferredCloseNoticed
  BY DEF ControlInv
<1> QED
  BY <1>1, ConnectionControlInv, PTL
-----------------------------------------------------------------------------
(***************************************************************************)
(* The frames: writeLoop, which merges frames, drains the queue and meets  *)
(* failing writes, keeps their order.                                      *)
(***************************************************************************)

USE DEF Alive, chanVars, connVars, queueVars, writerVars, senderVars, historyVars

\* IsPrefix, element by element.
LEMMA PrefixElements ==
  ASSUME NEW s \in Seq(Frame), NEW t \in Seq(Frame)
  PROVE  IsPrefix(s, t) <=> Len(s) <= Len(t) /\ \A i \in 1 .. Len(s) : s[i] = t[i]
<1>1. SubSeq(s, 1, Len(s)) = s
  BY SubSeqFull
<1>2. ASSUME Len(s) <= Len(t)
      PROVE  /\ SubSeq(t, 1, Len(s)) \in Seq(Frame)
             /\ Len(SubSeq(t, 1, Len(s))) = Len(s)
             /\ \A i \in 1 .. Len(s) : SubSeq(t, 1, Len(s))[i] = t[i]
  <2>1. Len(s) \in Nat /\ Len(t) \in Nat
    BY LenProperties
  <2>2. \A i \in 1 .. Len(s) : t[i] \in Frame
    BY <1>2, <2>1, ElementOfSeq
  <2> QED
    BY <1>2, <2>1, <2>2, SubSeqProperties
<1>3. ASSUME Len(s) <= Len(t), \A i \in 1 .. Len(s) : s[i] = t[i]
      PROVE  s = SubSeq(t, 1, Len(s))
  BY <1>2, <1>3, SeqEqual
<1> QED
  BY <1>1, <1>2, <1>3 DEF IsPrefix

\* The left part of a concatenation is a prefix of it.
LEMMA ConcatPrefix ==
  ASSUME NEW s \in Seq(Frame), NEW t \in Seq(Frame)
  PROVE  IsPrefix(s, s \o t)
<1>1. Len(s) \in Nat /\ Len(t) \in Nat
  BY LenProperties
<1>2. /\ s \o t \in Seq(Frame) /\ Len(s \o t) = Len(s) + Len(t)
      /\ \A i \in 1 .. Len(s) + Len(t) :
            (s \o t)[i] = IF i <= Len(s) THEN s[i] ELSE t[i - Len(s)]
  BY ConcatProperties
<1>3. Len(s) <= Len(s \o t) /\ \A i \in 1 .. Len(s) : s[i] = (s \o t)[i]
  BY <1>1, <1>2
<1> QED
  BY <1>2, <1>3, PrefixElements

\* Appending to a sequence keeps its prefixes.
LEMMA AppendPrefix ==
  ASSUME NEW s \in Seq(Frame), NEW t \in Seq(Frame), NEW e \in Frame, IsPrefix(s, t)
  PROVE  IsPrefix(s, Append(t, e))
<1>1. Append(t, e) \in Seq(Frame) /\ Len(Append(t, e)) = Len(t) + 1
      /\ \A i \in 1 .. Len(t) : Append(t, e)[i] = t[i]
  OBVIOUS
<1>2. Len(s) \in Nat /\ Len(t) \in Nat
  BY LenProperties
<1>3. Len(s) <= Len(t) /\ \A i \in 1 .. Len(s) : s[i] = t[i]
  BY PrefixElements
<1>4. Len(s) <= Len(Append(t, e)) /\ \A i \in 1 .. Len(s) : s[i] = Append(t, e)[i]
  BY <1>1, <1>2, <1>3
<1> QED
  BY <1>1, <1>4, PrefixElements

\* Appending to a concatenation appends to its right part.
LEMMA AppendConcat ==
  ASSUME NEW s \in Seq(Frame), NEW t \in Seq(Frame), NEW e \in Frame
  PROVE  Append(s \o t, e) = s \o Append(t, e)
<1>1. /\ s \o t \in Seq(Frame) /\ Append(t, e) \in Seq(Frame)
      /\ Append(s \o t, e) \in Seq(Frame) /\ s \o Append(t, e) \in Seq(Frame)
      /\ Len(s) \in Nat /\ Len(t) \in Nat
  BY ConcatProperties, LenProperties
<1>2. /\ Len(s \o t) = Len(s) + Len(t)
      /\ \A i \in 1 .. Len(s) + Len(t) :
            (s \o t)[i] = IF i <= Len(s) THEN s[i] ELSE t[i - Len(s)]
  BY ConcatProperties
<1>0. Len(Append(t, e)) = Len(t) + 1
  OBVIOUS
<1>3. /\ Len(s \o Append(t, e)) = Len(s) + Len(t) + 1
      /\ \A i \in 1 .. Len(s) + Len(t) + 1 :
            (s \o Append(t, e))[i] = IF i <= Len(s) THEN s[i] ELSE Append(t, e)[i - Len(s)]
  <2> DEFINE u == Append(t, e)
  <2>1. u \in Seq(Frame) /\ Len(u) = Len(t) + 1
    BY <1>0, <1>1
  <2> HIDE DEF u
  <2>2. /\ Len(s \o u) = Len(s) + Len(u)
        /\ \A i \in 1 .. Len(s) + Len(u) :
              (s \o u)[i] = IF i <= Len(s) THEN s[i] ELSE u[i - Len(s)]
    BY <2>1, ConcatProperties
  <2>3. Len(s) + Len(u) = Len(s) + Len(t) + 1
    BY <1>1, <2>1
  <2> QED
    BY <2>2, <2>3 DEF u
<1>4. /\ Len(Append(s \o t, e)) = Len(s) + Len(t) + 1
      /\ \A i \in 1 .. Len(s) + Len(t) : Append(s \o t, e)[i] = (s \o t)[i]
      /\ Append(s \o t, e)[Len(s) + Len(t) + 1] = e
  BY <1>1, <1>2
<1>5. /\ \A i \in 1 .. Len(t) : Append(t, e)[i] = t[i]
      /\ Append(t, e)[Len(t) + 1] = e
  BY <1>1
<1>6. ASSUME NEW i \in 1 .. Len(s) + Len(t) + 1
      PROVE  Append(s \o t, e)[i] = (s \o Append(t, e))[i]
  <2>1. CASE i <= Len(s)
    BY <1>1, <1>2, <1>3, <1>4, <2>1
  <2>2. CASE i > Len(s) /\ i <= Len(s) + Len(t)
    BY <1>1, <1>2, <1>3, <1>4, <1>5, <2>2
  <2>3. CASE i = Len(s) + Len(t) + 1
    BY <1>1, <1>3, <1>4, <1>5, <2>3
  <2> QED
    BY <1>1, <2>1, <2>2, <2>3
<1> QED
  BY <1>1, <1>3, <1>4, <1>6, SeqEqual

\* A sequence that is not empty is its head before its tail.
LEMMA HeadConcatTail ==
  ASSUME NEW s \in Seq(Frame), s # <<>>
  PROVE  /\ Head(s) \in Frame /\ Tail(s) \in Seq(Frame)
         /\ <<Head(s)>> \in Seq(Frame)
         /\ s = <<Head(s)>> \o Tail(s)
<1>1. /\ Head(s) \in Frame /\ Tail(s) \in Seq(Frame) /\ Len(Tail(s)) = Len(s) - 1
      /\ \A i \in 1 .. Len(Tail(s)) : Tail(s)[i] = s[i + 1]
      /\ Len(s) \in Nat \ {0}
  BY HeadTailProperties, EmptySeq
<1>2. <<Head(s)>> \in Seq(Frame) /\ Len(<<Head(s)>>) = 1 /\ <<Head(s)>>[1] = Head(s)
      /\ Head(s) = s[1]
  BY <1>1
<1>3. /\ <<Head(s)>> \o Tail(s) \in Seq(Frame)
      /\ Len(<<Head(s)>> \o Tail(s)) = Len(s)
      /\ \A i \in 1 .. Len(s) : (<<Head(s)>> \o Tail(s))[i] =
              IF i <= 1 THEN <<Head(s)>>[i] ELSE Tail(s)[i - 1]
  BY <1>1, <1>2, ConcatProperties
<1>4. \A i \in 1 .. Len(s) : (<<Head(s)>> \o Tail(s))[i] = s[i]
  BY <1>1, <1>2, <1>3
<1> QED
  BY <1>1, <1>2, <1>3, <1>4, SeqEqual

\* A batch that takes the head of the queue is a sequence that is not empty.
LEMMA AppendHead ==
  ASSUME NEW b \in Seq(Frame), NEW q \in Seq(Frame), q # <<>>
  PROVE  Append(b, Head(q)) \in Seq(Frame) /\ Append(b, Head(q)) # <<>>
<1>1. Head(q) \in Frame
  BY HeadConcatTail
<1> QED
  BY <1>1, AppendProperties

\* The parts of a sequence may be put together in any order.
LEMMA Regroup ==
  \A x, y, z \in Seq(Frame) : x \o (y \o z) = (x \o y) \o z
<1> SUFFICES ASSUME NEW x \in Seq(Frame), NEW y \in Seq(Frame), NEW z \in Seq(Frame)
             PROVE  x \o (y \o z) = (x \o y) \o z
  OBVIOUS
<1> QED
  BY ConcatAssociative, SMTT(60)

\* Taking the head of the queue into the batch keeps the whole.
LEMMA MoveHead ==
  ASSUME NEW w \in Seq(Frame), NEW b \in Seq(Frame), NEW q \in Seq(Frame), q # <<>>
  PROVE  (w \o b) \o q = (w \o Append(b, Head(q))) \o Tail(q)
<1>1. /\ Head(q) \in Frame /\ Tail(q) \in Seq(Frame) /\ <<Head(q)>> \in Seq(Frame)
      /\ q = <<Head(q)>> \o Tail(q)
  BY HeadConcatTail
<1>2. Append(b, Head(q)) = b \o <<Head(q)>>
  <2>1. Append(b \o <<>>, Head(q)) = b \o Append(<<>>, Head(q))
    BY <1>1, AppendConcat
  <2> QED
    BY <2>1, <1>1, ConcatEmptySeq
<1>3. w \o b \in Seq(Frame) /\ b \o <<Head(q)>> \in Seq(Frame)
  BY <1>1, ConcatProperties
<1>4. (w \o b) \o (<<Head(q)>> \o Tail(q)) = ((w \o b) \o <<Head(q)>>) \o Tail(q)
  BY <1>1, <1>3, Regroup, SMTT(60)
<1>5. (w \o b) \o <<Head(q)>> = w \o (b \o <<Head(q)>>)
  BY <1>1, Regroup
<1> QED
  BY <1>1, <1>2, <1>3, <1>4, <1>5

\* A prefix of the middle part extends the left part to a prefix of the whole.
LEMMA PartOfMiddle ==
  ASSUME NEW w \in Seq(Frame), NEW b \in Seq(Frame), NEW q \in Seq(Frame),
         NEW k \in 0 .. Len(b)
  PROVE  /\ SubSeq(b, 1, k) \in Seq(Frame)
         /\ IsPrefix(w \o SubSeq(b, 1, k), (w \o b) \o q)
<1>0. Len(b) \in Nat /\ Len(w) \in Nat /\ Len(q) \in Nat
  BY LenProperties
<1>1. \A i \in 1 .. k : b[i] \in Frame
  BY <1>0, ElementOfSeq
<1>2. /\ SubSeq(b, 1, k) \in Seq(Frame) /\ Len(SubSeq(b, 1, k)) = k
      /\ \A i \in 1 .. k : SubSeq(b, 1, k)[i] = b[i]
  BY <1>0, <1>1, SubSeqProperties
<1>3. /\ w \o SubSeq(b, 1, k) \in Seq(Frame) /\ Len(w \o SubSeq(b, 1, k)) = Len(w) + k
      /\ \A i \in 1 .. Len(w) + k : (w \o SubSeq(b, 1, k))[i] =
              IF i <= Len(w) THEN w[i] ELSE SubSeq(b, 1, k)[i - Len(w)]
  BY <1>2, ConcatProperties
<1>4. /\ w \o b \in Seq(Frame) /\ Len(w \o b) = Len(w) + Len(b)
      /\ \A i \in 1 .. Len(w) + Len(b) : (w \o b)[i] =
              IF i <= Len(w) THEN w[i] ELSE b[i - Len(w)]
  BY ConcatProperties
<1>5. /\ (w \o b) \o q \in Seq(Frame) /\ Len((w \o b) \o q) = Len(w) + Len(b) + Len(q)
      /\ \A i \in 1 .. Len(w) + Len(b) : ((w \o b) \o q)[i] = (w \o b)[i]
  BY <1>0, <1>4, ConcatProperties
<1>6. ASSUME NEW i \in 1 .. Len(w) + k
      PROVE  (w \o SubSeq(b, 1, k))[i] = ((w \o b) \o q)[i]
  <2>1. CASE i <= Len(w)
    BY <1>0, <1>3, <1>4, <1>5, <2>1
  <2>2. CASE i > Len(w)
    BY <1>0, <1>2, <1>3, <1>4, <1>5, <2>2
  <2> QED
    BY <1>0, <2>1, <2>2
<1>7. Len(w) + k <= Len(w) + Len(b) + Len(q)
  BY <1>0
<1> QED
  BY <1>2, <1>3, <1>5, <1>6, <1>7, PrefixElements
-----------------------------------------------------------------------------

\* Where the accepted frames are: on the wire, in the batch writeLoop holds, in
\* the queue, in this order, until a write has failed or the connection has
\* been torn down.
OrderInv ==
    /\ wpc \in {"off", "select", "drain", "check"} => batch = <<>>
    /\ wpc \in {"taken", "collect", "mark", "writing", "unmark", "notify",
                "unmarkFailed", "notifyFailed"} => batch # <<>>
    /\ wpc \in {"off", "select", "drain", "check", "taken", "collect", "mark", "writing"} =>
           accepted = (wire \o batch) \o queue /\ reported = wire /\ rejected = <<>>
    /\ wpc \in {"unmark", "notify"} =>
           accepted = wire \o queue /\ wire = reported \o batch /\ rejected = <<>>
    /\ wpc \in {"unmarkFailed", "notifyFailed"} =>
           rejected = <<>> /\ IsPrefix(reported \o batch, accepted)
    /\ WireInOrder
    /\ ReportsHonest

\* Every step keeps the frames in their places.
LEMMA OrderStep == ControlInv /\ OrderInv /\ [Next]_vars => OrderInv'
<1> SUFFICES ASSUME ControlInv, OrderInv, [Next]_vars PROVE OrderInv'
  OBVIOUS
<1> queue \in Seq(Frame) /\ batch \in Seq(Frame) /\ accepted \in Seq(Frame)
      /\ wire \in Seq(Frame) /\ reported \in Seq(Frame) /\ rejected \in Seq(Frame)
      /\ sent \in [Sender -> Nat] /\ BeforeCreate
  BY DEF ControlInv, TypeOK, DataTypeOK
<1>1. CASE OpenBegin
  BY <1>1 DEF OpenBegin, OrderInv, WireInOrder, ReportsHonest
<1>2. CASE OpenFail
  BY <1>2 DEF OpenFail, OrderInv, WireInOrder, ReportsHonest
<1>3. CASE CreateConnection
  BY <1>3 DEF CreateConnection, OrderInv, WireInOrder, ReportsHonest
<1>4. CASE StartLoops
  BY <1>4 DEF StartLoops, BeforeCreate, OrderInv, WireInOrder, ReportsHonest
<1>5. CASE CloseBegin
  BY <1>5 DEF CloseBegin, OrderInv, WireInOrder, ReportsHonest
<1>6. CASE CloseCancel
  BY <1>6 DEF CloseCancel, OrderInv, WireInOrder, ReportsHonest
<1>7. CASE CloseSnapshot
  BY <1>7 DEF CloseSnapshot, OrderInv, WireInOrder, ReportsHonest
<1>8. CASE CloseForce
  BY <1>8 DEF CloseForce, LeaveConnected, OrderInv, WireInOrder, ReportsHonest
<1>9. CASE CloseRun
  BY <1>9 DEF CloseRun, DisconnectRun, OrderInv, WireInOrder, ReportsHonest
<1>10. CASE CancelContext
  BY <1>10 DEF CancelContext, OrderInv, WireInOrder, ReportsHonest
<1>11. CASE RunCloseQueue
  BY <1>11 DEF RunCloseQueue, OrderInv, WireInOrder, ReportsHonest
<1>12. CASE RunCloseSocket
  BY <1>12 DEF RunCloseSocket, OrderInv, WireInOrder, ReportsHonest
<1>13. CASE RunUnregister
  BY <1>13 DEF RunUnregister, OrderInv, WireInOrder, ReportsHonest
<1>14. CASE RunStatus
  BY <1>14 DEF RunStatus, OrderInv, WireInOrder, ReportsHonest
<1>15. CASE RunCallback
  BY <1>15 DEF RunCallback, OrderInv, WireInOrder, ReportsHonest
<1>16. CASE WriterLeave
  BY <1>16 DEF WriterLeave, WriterSame, OrderInv, WireInOrder, ReportsHonest
<1>17. CASE WriterSignalled
  BY <1>17 DEF WriterSignalled, WriterSame, OrderInv, WireInOrder, ReportsHonest
<1>18. CASE WriterDrained
  BY <1>18 DEF WriterDrained, WriterSame, OrderInv, WireInOrder, ReportsHonest
<1>19. CASE WriterTake
  <2>0. /\ batch = <<>> /\ accepted = (wire \o batch) \o queue /\ queue # <<>>
        /\ reported = wire /\ rejected = <<>>
    BY <1>19 DEF WriterTake, OrderInv
  <2>1. batch' = Append(batch, Head(queue)) /\ queue' = Tail(queue) /\ wpc' = "taken"
    BY <1>19, <2>0 DEF WriterTake
  <2>2. UNCHANGED <<accepted, wire, reported, rejected>>
    BY <1>19 DEF WriterTake
  <2>3. accepted' = (wire' \o batch') \o queue'
    BY <2>0, <2>1, <2>2, MoveHead
  <2>4. batch' # <<>>
    BY <2>0, <2>1, AppendHead
  <2> QED
    BY <2>0, <2>1, <2>2, <2>3, <2>4 DEF OrderInv, WireInOrder, ReportsHonest
<1>20. CASE WriterTakenClosed
  BY <1>20 DEF WriterTakenClosed, WriterSame, OrderInv, WireInOrder, ReportsHonest
<1>21. CASE WriterTaken
  BY <1>21 DEF WriterTaken, WriterSame, OrderInv, WireInOrder, ReportsHonest
<1>22. CASE WriterCollect
  <2>0. /\ accepted = (wire \o batch) \o queue /\ queue # <<>>
        /\ reported = wire /\ rejected = <<>>
    BY <1>22 DEF WriterCollect, OrderInv
  <2>1. batch' = Append(batch, Head(queue)) /\ queue' = Tail(queue) /\ wpc' = "collect"
    BY <1>22 DEF WriterCollect
  <2>2. UNCHANGED <<accepted, wire, reported, rejected>>
    BY <1>22 DEF WriterCollect
  <2>3. accepted' = (wire' \o batch') \o queue'
    <3>0. queue # <<>>
      BY <2>0
    <3>1. (wire \o batch) \o queue = (wire \o Append(batch, Head(queue))) \o Tail(queue)
      BY ONLY <3>0, MoveHead, queue \in Seq(Frame), batch \in Seq(Frame), wire \in Seq(Frame)
    <3> QED
      BY <2>0, <2>1, <2>2, <3>1
  <2>4. batch' # <<>>
    <3>1. Append(batch, Head(queue)) # <<>>
      BY <2>0, AppendHead
    <3> QED
      BY <2>1, <3>1
  <2> QED
    BY <2>0, <2>1, <2>2, <2>3, <2>4 DEF OrderInv, WireInOrder, ReportsHonest
<1>23. CASE WriterCollected
  BY <1>23 DEF WriterCollected, WriterSame, OrderInv, WireInOrder, ReportsHonest
<1>24. CASE WriterMark
  BY <1>24 DEF WriterMark, WriterSame, OrderInv, WireInOrder, ReportsHonest
<1>25. CASE WriterWrite
  <2>0. /\ accepted = (wire \o batch) \o queue /\ batch # <<>>
        /\ reported = wire /\ rejected = <<>>
    BY <1>25 DEF WriterWrite, OrderInv
  <2>1. wire' = wire \o batch /\ wpc' = "unmark"
    BY <1>25 DEF WriterWrite
  <2>2. UNCHANGED <<accepted, batch, queue, reported, rejected>>
    BY <1>25 DEF WriterWrite
  <2>3. IsPrefix(wire \o batch, accepted) /\ IsPrefix(wire, wire \o batch)
    BY <2>0, ConcatProperties, ConcatPrefix
  <2>4. IsPrefix(reported', wire') /\ IsPrefix(wire', accepted')
    BY <2>0, <2>1, <2>2, <2>3
  <2> QED
    BY <2>0, <2>1, <2>2, <2>4 DEF OrderInv, WireInOrder, ReportsHonest
<1>26. CASE WriterWriteFails
  <2>0. /\ accepted = (wire \o batch) \o queue /\ batch # <<>>
        /\ reported = wire /\ rejected = <<>>
    BY <1>26 DEF WriterWriteFails, OrderInv
  <2>1. PICK k \in 0 .. Len(batch) - 1 : wire' = wire \o SubSeq(batch, 1, k)
    BY <1>26 DEF WriterWriteFails
  <2>2. UNCHANGED <<accepted, batch, queue, reported, rejected>> /\ wpc' = "unmarkFailed"
    BY <1>26 DEF WriterWriteFails
  <2>3. SubSeq(batch, 1, k) \in Seq(Frame) /\ IsPrefix(wire', accepted)
    <3>1. k \in 0 .. Len(batch)
      BY LenProperties
    <3> QED
      BY <2>0, <2>1, <3>1, PartOfMiddle
  <2>4. IsPrefix(reported', wire') /\ IsPrefix(wire', accepted')
    BY <2>0, <2>1, <2>2, <2>3, ConcatPrefix
  <2>5. IsPrefix(reported' \o batch', accepted')
    BY <2>0, <2>2, ConcatProperties, ConcatPrefix
  <2> QED
    BY <2>0, <2>2, <2>4, <2>5 DEF OrderInv, WireInOrder, ReportsHonest
<1>27. CASE WriterUnmark
  BY <1>27 DEF WriterUnmark, WriterSame, OrderInv, WireInOrder, ReportsHonest
<1>28. CASE WriterNotify
  <2>0. /\ accepted = wire \o queue /\ wire = reported \o batch /\ rejected = <<>>
    BY <1>28 DEF WriterNotify, OrderInv
  <2>1. reported' = wire /\ batch' = <<>> /\ wpc' \in {"drain", "check"}
    BY <1>28, <2>0 DEF WriterNotify
  <2>2. UNCHANGED <<accepted, wire, queue, rejected>>
    BY <1>28 DEF WriterNotify
  <2>3. wire \o <<>> = wire /\ reported' \o rejected' = wire
    BY <2>0, <2>1, <2>2, ConcatEmptySeq
  <2>4. IsPrefix(wire, wire) /\ IsPrefix(wire, accepted)
    BY <2>0, <2>3, ConcatPrefix, EmptySeq
  <2>5. accepted' = (wire' \o batch') \o queue'
    BY <2>0, <2>1, <2>2, <2>3
  <2>6. reported' = wire' /\ rejected' = <<>>
    BY <2>0, <2>1, <2>2
  <2> QED
    BY <2>1, <2>2, <2>3, <2>4, <2>5, <2>6 DEF OrderInv, WireInOrder, ReportsHonest
<1>29. CASE WriterNotifyFailed
  <2>0. rejected = <<>> /\ IsPrefix(reported \o batch, accepted)
    BY <1>29 DEF WriterNotifyFailed, OrderInv
  <2>1. rejected' = batch /\ wpc' = "exit"
    BY <1>29, <2>0, ConcatEmptySeq DEF WriterNotifyFailed
  <2>2. UNCHANGED <<accepted, wire, reported>>
    BY <1>29 DEF WriterNotifyFailed
  <2> QED
    BY <2>0, <2>1, <2>2 DEF OrderInv, WireInOrder, ReportsHonest
<1>30. CASE WriterCheck
  BY <1>30 DEF WriterCheck, WriterSame, OrderInv, WireInOrder, ReportsHonest
<1>31. CASE WriterExit
  BY <1>31 DEF WriterExit, DisconnectRun, WriterSame, OrderInv, WireInOrder, ReportsHonest
<1>32. CASE ReaderLoop
  BY <1>32 DEF ReaderLoop, ReaderSame, OrderInv, WireInOrder, ReportsHonest
<1>33. CASE ReaderData
  BY <1>33 DEF ReaderData, ReaderSame, OrderInv, WireInOrder, ReportsHonest
<1>34. CASE ReaderEnd
  BY <1>34 DEF ReaderEnd, ReaderSame, OrderInv, WireInOrder, ReportsHonest
<1>35. ASSUME NEW s \in Sender, SendCheck(s) PROVE OrderInv'
  BY <1>35 DEF SendCheck, OrderInv, WireInOrder, ReportsHonest
<1>36. ASSUME NEW s \in Sender, SendAccept(s) PROVE OrderInv'
  <2> DEFINE f == <<s, sent[s] + 1>>
  <2>1. f \in Frame
    BY FrameFacts
  <2>2. accepted' = Append(accepted, f) /\ queue' = Append(queue, f)
    BY <1>36 DEF SendAccept
  <2>3. UNCHANGED <<wpc, batch, wire, reported, rejected>>
    BY <1>36 DEF SendAccept
  <2> HIDE DEF f
  <2>4. IsPrefix(wire', accepted')
    BY <2>1, <2>2, <2>3, AppendPrefix DEF OrderInv, WireInOrder
  <2>5. IsPrefix(reported', wire') /\ IsPrefix(reported' \o rejected', accepted')
    BY <2>1, <2>2, <2>3, AppendPrefix, ConcatProperties DEF OrderInv, ReportsHonest
  <2>6. ASSUME IsPrefix(reported \o batch, accepted)
        PROVE  IsPrefix(reported' \o batch', accepted')
    BY <2>1, <2>2, <2>3, <2>6, AppendPrefix, ConcatProperties
  <2>7. ASSUME accepted = (wire \o batch) \o queue
        PROVE  accepted' = (wire' \o batch') \o queue'
    BY <2>1, <2>2, <2>3, <2>7, AppendConcat, ConcatProperties, ZenonT(60)
  <2>8. ASSUME accepted = wire \o queue PROVE accepted' = wire' \o queue'
    BY <2>1, <2>2, <2>3, <2>8, AppendConcat
  <2> QED
    BY <2>3, <2>4, <2>5, <2>6, <2>7, <2>8 DEF OrderInv, WireInOrder, ReportsHonest
<1>37. ASSUME NEW s \in Sender, SendRefused(s) PROVE OrderInv'
  BY <1>37 DEF SendRefused, OrderInv, WireInOrder, ReportsHonest
<1>38. ASSUME NEW s \in Sender, SendPanic(s) PROVE OrderInv'
  BY <1>38 DEF SendPanic, OrderInv, WireInOrder, ReportsHonest
<1>39. ASSUME NEW c \in Closer, DisconnectBegin(c) PROVE OrderInv'
  BY <1>39 DEF DisconnectBegin, LeaveConnected, OrderInv, WireInOrder, ReportsHonest
<1>40. ASSUME NEW c \in Closer, DisconnectSignal(c) PROVE OrderInv'
  BY <1>40 DEF DisconnectSignal, OrderInv, WireInOrder, ReportsHonest
<1>41. CASE UNCHANGED vars
  BY <1>41 DEF vars, OrderInv, WireInOrder, ReportsHonest
<1> QED
  BY <1>1, <1>2, <1>3, <1>4, <1>5, <1>6, <1>7, <1>8, <1>9, <1>10, <1>11, <1>12, <1>13, <1>14, <1>15, <1>16, <1>17, <1>18, <1>19, <1>20, <1>21, <1>22, <1>23, <1>24, <1>25, <1>26, <1>27, <1>28, <1>29, <1>30, <1>31, <1>32, <1>33, <1>34, <1>35, <1>36, <1>37, <1>38, <1>39, <1>40, <1>41 DEF Next, Writer, Teardown, Stop
-----------------------------------------------------------------------------

LeftConnected == status \in {"Disconnecting", "Disconnected"}

\* Why a graceful disconnect flushes: writeLoop drains only when the connection
\* has left Connected, so that nothing more is owed, and without a Close, a
\* cancelled context or a failed write it ends only when the queue is empty.
FlushInv ==
    /\ closed /\ wpc # "done" => ctxDone
    /\ kpc \in {"snapshot", "force", "run", "done"} => ctxDone
    /\ signalled \/ draining => LeftConnected
    /\ \A c \in Closer : dpc[c] = "flag" => LeftConnected
    /\ wpc = "drain" => draining
    /\ owed <= Len(accepted)
    /\ wpc \in {"exit", "done"} /\ ~ctxDone /\ rejected = <<>> =>
           LeftConnected /\ owed <= Len(wire)

\* Every step keeps the flush invariant.
LEMMA FlushStep == ControlInv /\ OrderInv /\ FlushInv /\ [Next]_vars => FlushInv'
<1> SUFFICES ASSUME ControlInv, OrderInv, FlushInv, [Next]_vars PROVE FlushInv'
  OBVIOUS
<1> /\ queue \in Seq(Frame) /\ batch \in Seq(Frame) /\ accepted \in Seq(Frame)
    /\ wire \in Seq(Frame) /\ rejected \in Seq(Frame) /\ owed \in Nat
    /\ sent \in [Sender -> Nat] /\ dpc \in [Closer -> {"idle", "flag", "done"}]
    /\ BeforeCreate /\ RunProgress /\ ControlTypeOK
  BY DEF ControlInv, TypeOK, DataTypeOK
<1>1. CASE OpenBegin
  BY <1>1 DEF OpenBegin, FlushInv, LeftConnected
<1>2. CASE OpenFail
  BY <1>2 DEF OpenFail, FlushInv, LeftConnected
<1>3. CASE CreateConnection
  BY <1>3 DEF CreateConnection, BeforeCreate, FlushInv, LeftConnected
<1>4. CASE StartLoops
  BY <1>4 DEF StartLoops, BeforeCreate, FlushInv, LeftConnected
<1>5. CASE CloseBegin
  BY <1>5 DEF CloseBegin, FlushInv, LeftConnected
<1>6. CASE CloseCancel
  BY <1>6 DEF CloseCancel, FlushInv, LeftConnected
<1>7. CASE CloseSnapshot
  BY <1>7 DEF CloseSnapshot, FlushInv, LeftConnected
<1>8. CASE CloseForce
  BY <1>8 DEF CloseForce, LeaveConnected, FlushInv, LeftConnected
<1>9. CASE CloseRun
  BY <1>9 DEF CloseRun, DisconnectRun, FlushInv, LeftConnected
<1>10. CASE CancelContext
  BY <1>10 DEF CancelContext, FlushInv, LeftConnected
<1>11. CASE RunCloseQueue
  BY <1>11 DEF RunCloseQueue, FlushInv, LeftConnected
<1>12. CASE RunCloseSocket
  BY <1>12 DEF RunCloseSocket, FlushInv, LeftConnected
<1>13. CASE RunUnregister
  BY <1>13 DEF RunUnregister, FlushInv, LeftConnected
<1>14. CASE RunStatus
  BY <1>14 DEF RunStatus, FlushInv, LeftConnected
<1>15. CASE RunCallback
  BY <1>15 DEF RunCallback, FlushInv, LeftConnected
<1>16. CASE WriterLeave
  BY <1>16 DEF WriterLeave, RunProgress, WriterSame, FlushInv, LeftConnected
<1>17. CASE WriterSignalled
  BY <1>17 DEF WriterSignalled, WriterSame, FlushInv, LeftConnected
<1>18. CASE WriterDrained
  <2>1. accepted = (wire \o <<>>) \o <<>>
    BY <1>18 DEF WriterDrained, OrderInv
  <2>2. accepted = wire
    BY <2>1, ConcatEmptySeq
  <2> QED
    BY <1>18, <2>2 DEF WriterDrained, WriterSame, FlushInv, LeftConnected
<1>19. CASE WriterTake
  BY <1>19 DEF WriterTake, WriterSame, FlushInv, LeftConnected
<1>20. CASE WriterTakenClosed
  BY <1>20 DEF WriterTakenClosed, WriterSame, FlushInv, LeftConnected
<1>21. CASE WriterTaken
  BY <1>21 DEF WriterTaken, WriterSame, FlushInv, LeftConnected
<1>22. CASE WriterCollect
  BY <1>22 DEF WriterCollect, WriterSame, FlushInv, LeftConnected
<1>23. CASE WriterCollected
  BY <1>23 DEF WriterCollected, WriterSame, FlushInv, LeftConnected
<1>24. CASE WriterMark
  BY <1>24 DEF WriterMark, WriterSame, FlushInv, LeftConnected
<1>25. CASE WriterWrite
  BY <1>25 DEF WriterWrite, WriterSame, FlushInv, LeftConnected
<1>26. CASE WriterWriteFails
  BY <1>26 DEF WriterWriteFails, WriterSame, FlushInv, LeftConnected
<1>27. CASE WriterUnmark
  BY <1>27 DEF WriterUnmark, WriterSame, FlushInv, LeftConnected
<1>28. CASE WriterNotify
  BY <1>28 DEF WriterNotify, WriterSame, FlushInv, LeftConnected
<1>29. CASE WriterNotifyFailed
  <2>1. rejected = <<>> /\ batch # <<>>
    BY <1>29 DEF WriterNotifyFailed, OrderInv
  <2>2. rejected' = batch
    BY <1>29, <2>1, ConcatEmptySeq DEF WriterNotifyFailed
  <2> QED
    BY <1>29, <2>1, <2>2 DEF WriterNotifyFailed, WriterSame, FlushInv, LeftConnected
<1>30. CASE WriterCheck
  BY <1>30 DEF WriterCheck, WriterSame, FlushInv, LeftConnected
<1>31. CASE WriterExit
  BY <1>31 DEF WriterExit, DisconnectRun, WriterSame, FlushInv, LeftConnected
<1>32. CASE ReaderLoop
  BY <1>32 DEF ReaderLoop, ReaderSame, FlushInv, LeftConnected
<1>33. CASE ReaderData
  BY <1>33 DEF ReaderData, ReaderSame, FlushInv, LeftConnected
<1>34. CASE ReaderEnd
  BY <1>34 DEF ReaderEnd, ReaderSame, FlushInv, LeftConnected
<1>35. ASSUME NEW s \in Sender, SendCheck(s) PROVE FlushInv'
  BY <1>35 DEF SendCheck, FlushInv, LeftConnected
<1>36. ASSUME NEW s \in Sender, SendAccept(s) PROVE FlushInv'
  <2>1. Len(accepted') = Len(accepted) + 1 /\ Len(accepted) \in Nat
    BY <1>36, FrameFacts DEF SendAccept
  <2>2. UNCHANGED <<chanVars, connVars, wpc, draining, dpc, wire, rejected, owed>>
    BY <1>36 DEF SendAccept
  <2> QED
    BY <2>1, <2>2 DEF FlushInv, LeftConnected
<1>37. ASSUME NEW s \in Sender, SendRefused(s) PROVE FlushInv'
  BY <1>37 DEF SendRefused, FlushInv, LeftConnected
<1>38. ASSUME NEW s \in Sender, SendPanic(s) PROVE FlushInv'
  BY <1>38 DEF SendPanic, FlushInv, LeftConnected
<1>39. ASSUME NEW c \in Closer, DisconnectBegin(c) PROVE FlushInv'
  BY <1>39 DEF DisconnectBegin, LeaveConnected, FlushInv, LeftConnected
<1>40. ASSUME NEW c \in Closer, DisconnectSignal(c) PROVE FlushInv'
  BY <1>40 DEF DisconnectSignal, FlushInv, LeftConnected
<1>41. CASE UNCHANGED vars
  BY <1>41 DEF vars, FlushInv, LeftConnected
<1> QED
  BY <1>1, <1>2, <1>3, <1>4, <1>5, <1>6, <1>7, <1>8, <1>9, <1>10, <1>11, <1>12, <1>13, <1>14, <1>15, <1>16, <1>17, <1>18, <1>19, <1>20, <1>21, <1>22, <1>23, <1>24, <1>25, <1>26, <1>27, <1>28, <1>29, <1>30, <1>31, <1>32, <1>33, <1>34, <1>35, <1>36, <1>37, <1>38, <1>39, <1>40, <1>41 DEF Next, Writer, Teardown, Stop

\* The initial state satisfies both.
LEMMA InitOrder == Init => OrderInv /\ FlushInv
<1> SUFFICES ASSUME Init PROVE OrderInv /\ FlushInv
  OBVIOUS
<1>1. <<>> \in Seq(Frame) /\ <<>> \o <<>> = <<>> /\ IsPrefix(<<>>, <<>>)
  <2>1. <<>> \in Seq(Frame)
    OBVIOUS
  <2>2. <<>> \o <<>> = <<>>
    BY <2>1, ConcatEmptySeq
  <2> QED
    BY <2>1, <2>2, ConcatPrefix
<1> QED
  BY <1>1 DEF Init, OrderInv, FlushInv, LeftConnected, WireInOrder, ReportsHonest

\* Both hold in every reachable state.
THEOREM ConnectionOrderInv == Spec => [](ControlInv /\ OrderInv /\ FlushInv)
  BY InitControl, InitOrder, ControlStep, OrderStep, FlushStep, PTL DEF Spec

\* What the transport got is always the beginning of what Send accepted.
THEOREM ConnectionWireInOrder == Spec => []WireInOrder
<1>1. OrderInv => WireInOrder
  BY DEF OrderInv
<1> QED
  BY <1>1, ConnectionOrderInv, PTL

\* The Written callbacks of status 0 and of failures tell the truth, in order.
THEOREM ConnectionReportsHonest == Spec => []ReportsHonest
<1>1. OrderInv => ReportsHonest
  BY DEF OrderInv
<1> QED
  BY <1>1, ConnectionOrderInv, PTL

\* A graceful disconnect has flushed what it owed when it tears down.
THEOREM ConnectionGracefulFlush == Spec => []GracefulFlush
<1>1. ControlInv /\ FlushInv => GracefulFlush
  <2> SUFFICES ASSUME ControlInv, FlushInv PROVE GracefulFlush
    OBVIOUS
  <2>1. owed \in Nat /\ Len(wire) \in Nat
    BY DEF ControlInv, TypeOK, DataTypeOK
  <2> QED
    BY <2>1 DEF FlushInv, GracefulFlush
<1> QED
  BY <1>1, ConnectionOrderInv, PTL
=============================================================================
