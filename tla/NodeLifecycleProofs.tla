------------------------- MODULE NodeLifecycleProofs -------------------------
(***************************************************************************)
(* What NodeLifecycle promises for every number of connections and         *)
(* endpoints, all timeouts and any number of faults: a node that is        *)
(* Running has a timer, and an upstream endpoint but for two named         *)
(* reasons.                                                                *)
(*                                                                         *)
(* RunningHasUpstream is not inductive: the handler of an answer makes a   *)
(* node Running by what it found out some steps before.  TimerSet says     *)
(* that the timer was set when the upstream was lost, or when the          *)
(* connection was dialled, and Decisions what a handler that is about to   *)
(* insert an endpoint or to activate the node can still rely on, whatever  *)
(* the other goroutines have done since.  Inv is the conjunction that is   *)
(* inductive.                                                              *)
(***************************************************************************)
EXTENDS NodeLifecycle, TLAPS

\* From the first attempt to connect on, upstreamOpTimepoint is never cleared:
\* processUpstreamOperations always has a next time to look after the upstream.
TimerSet == state \in {"ConnectingUpstream", "LostUpstream", "Running"} => opTimer # Off

\* A handler that inserts an endpoint has one, and the timer was set when a
\* handler decided to activate the node.
Decisions ==
  \A c \in Conn : /\ answer[c].at = "insert" => answer[c].e # NoEndpoint
                  /\ answer[c].at \in {"activate", "up"} => opTimer # Off

Inv == TypeOK /\ TimerSet /\ Decisions /\ RunningHasUpstream

ConnType == [status: {"None", "Handshaking", "Connected", "Disconnected"},
             binding: Endpoint \cup {NoEndpoint}, asked: BOOLEAN]
EpType == [ctrl: Conn \cup {NoConn, Dead}, data: SUBSET (Conn \cup {Dead})]
EntryType == [c: Conn \cup {NoConn}, left: 0..After(FirstIdle)]
AnswerType == [at: {"none", "insert", "activate", "add", "data", "check", "up"},
               e: Endpoint \cup {NoEndpoint}]
Pending == Goroutine \X {"lost", "removed", "fatal"}

\* The type of what the actions on connections change.
LinksOK ==
  /\ conn \in [Conn -> ConnType] /\ ep \in [Endpoint -> EpType]
  /\ orphan \in BOOLEAN /\ connecting \in EntryType

\* The type of the rest.
NodeOK ==
  /\ state \in States /\ flags \subseteq Flags
  /\ upstream \in Endpoint \cup {NoEndpoint} /\ idle \in 0..After(FirstIdle)
  /\ opTimer \in Off..After(FirstIdle) /\ gcList \subseteq Endpoint /\ inGc \in BOOLEAN
  /\ pc \in {"idle", "started", "upstream", "connected", "gc", "gcEnd", "pollEnd"}
  /\ channel \in BOOLEAN /\ late \in BOOLEAN
AnswersOK == answer \in [Conn -> AnswerType]
PendingOK == pending \subseteq Pending
FaultsOK == faults \in 0..MaxFaults

\* The three parts that are not about types.
Core == TimerSet /\ Decisions /\ RunningHasUpstream

\* The invariant in the parts that the proofs keep one by one.
LEMMA Parts ==
  /\ Inv <=> LinksOK /\ NodeOK /\ AnswersOK /\ PendingOK /\ FaultsOK /\ Core
  /\ Inv' <=> LinksOK' /\ NodeOK' /\ AnswersOK' /\ PendingOK' /\ FaultsOK' /\ Core'
<1>1. TypeOK <=> LinksOK /\ NodeOK /\ AnswersOK /\ PendingOK /\ FaultsOK
  BY DEF TypeOK, LinksOK, NodeOK, AnswersOK, PendingOK, FaultsOK, ConnType, EpType, EntryType,
         AnswerType, Pending
<1>2. TypeOK' <=> LinksOK' /\ NodeOK' /\ AnswersOK' /\ PendingOK' /\ FaultsOK'
  BY DEF TypeOK, LinksOK, NodeOK, AnswersOK, PendingOK, FaultsOK, ConnType, EpType, EntryType,
         AnswerType, Pending
<1> QED BY <1>1, <1>2 DEF Inv, Core

-----------------------------------------------------------------------------
(* The steps that several actions share.                                   *)

\* The bound on faults is kept.
LEMMA FaultTyped ==
  ASSUME FaultsOK, Fault \/ UNCHANGED faults
  PROVE  FaultsOK'
BY LifecycleAssumption DEF FaultsOK, Fault

\* OnDisconnect only decides.
LEMMA OnDisconnectStep ==
  ASSUME PendingOK, NEW g \in Goroutine, OnDisconnect(g)
  PROVE  PendingOK' /\ pending \subseteq pending'
BY DEF PendingOK, Pending, OnDisconnect

\* What is reset stays well formed, whichever connections and endpoints are
\* reset and whichever of them the network has closed (Connection.Reset,
\* Endpoint.Reset).
LEMMA ReleaseTyped ==
  ASSUME LinksOK, NEW R, NEW E, NEW closed, NEW answered, Release(R, E, closed, answered)
  PROVE  conn' \in [Conn -> ConnType] /\ ep' \in [Endpoint -> EpType] /\ orphan' \in BOOLEAN
<1>1. conn' \in [Conn -> ConnType]
  <2> DEFINE kept == {c \in R \ (closed \cup answered) : conn[c].asked}
  <2> PICK read :
        conn' = [c \in Conn |->
                   CASE c \notin R -> conn[c]
                     [] c \in kept -> [conn[c] EXCEPT !.binding = NoEndpoint]
                     [] c \in read -> [Blank EXCEPT !.status = "Disconnected", !.asked = TRUE]
                     [] OTHER -> Blank]
    BY DEF Release
  <2> HIDE DEF kept
  <2>1. ASSUME NEW c \in Conn PROVE conn'[c] \in ConnType
    <3>1. conn[c] \in ConnType
      BY DEF LinksOK
    <3>2. [conn[c] EXCEPT !.binding = NoEndpoint] \in ConnType
      BY <3>1 DEF ConnType
    <3>3. [Blank EXCEPT !.status = "Disconnected", !.asked = TRUE] \in ConnType /\ Blank \in ConnType
      BY DEF ConnType, Blank
    <3> QED BY <3>1, <3>2, <3>3
  <2> QED BY <2>1
<1>2. orphan' \in BOOLEAN
  BY DEF Release, LinksOK
<1>3. ep' \in [Endpoint -> EpType]
  <2>1. ep' = [e \in Endpoint |-> IF e \in E THEN Empty ELSE [ep[e] EXCEPT !.data = @ \ R]]
    BY DEF Release
  <2>2. ASSUME NEW e \in Endpoint PROVE ep'[e] \in EpType
    <3>1. ep[e] \in EpType
      BY DEF LinksOK
    <3>2. [ep[e] EXCEPT !.data = @ \ R] \in EpType
      BY <3>1 DEF EpType
    <3>3. Empty \in EpType
      BY DEF Empty, EpType
    <3> QED BY <2>1, <3>2, <3>3
  <2> QED BY <2>1, <2>2
<1> QED BY <1>1, <1>2, <1>3

\* The list of connecting addresses.
LEMMA EntryTyped ==
  ASSUME LinksOK, NEW R, RemoveConnectionTimer(R) \/ connecting' = NoEntry \/ UNCHANGED connecting
  PROVE  connecting' \in EntryType
BY LifecycleAssumption DEF LinksOK, RemoveConnectionTimer, NoEntry, EntryType, After

\* The garbage list.
LEMMA GcListTyped ==
  ASSUME NodeOK, NEW S, S \subseteq Endpoint, AddEndpointGcList(S)
  PROVE  gcList' \subseteq Endpoint
BY DEF NodeOK, AddEndpointGcList

\* Connection.Reset.
LEMMA ConnResetStep ==
  ASSUME LinksOK, NodeOK, PendingOK, NEW g \in Goroutine, NEW c, NEW closed, ConnReset(g, c, closed)
  PROVE  LinksOK' /\ gcList' \subseteq Endpoint /\ PendingOK' /\ pending \subseteq pending'
<1>1. Release(ResetConns(c), ResetEndpoints(c), closed, {}) /\ RemoveConnectionTimer(ResetConns(c))
      /\ AddEndpointGcList(ResetEndpoints(c)) /\ OnDisconnect(g)
  BY DEF ConnReset
<1>2. ResetEndpoints(c) \subseteq Endpoint
  BY DEF ResetEndpoints
<1>3. gcList' \subseteq Endpoint
  BY <1>1, <1>2, GcListTyped
<1>4. connecting' \in EntryType
  BY <1>1, EntryTyped
<1>5. PendingOK' /\ pending \subseteq pending'
  BY <1>1, OnDisconnectStep
<1> QED BY <1>1, <1>3, <1>4, <1>5, ReleaseTyped DEF LinksOK

\* The failure part of onRecvNodeRegisterRsp.
LEMMA RegisterFailStep ==
  ASSUME LinksOK, NodeOK, AnswersOK, PendingOK, NEW c \in Conn,
         NEW e \in Endpoint \cup {NoEndpoint}, RegisterFail(c, e)
  PROVE  /\ conn' \in [Conn -> ConnType] /\ ep' \in [Endpoint -> EpType] /\ orphan' \in BOOLEAN
         /\ gcList' \subseteq Endpoint /\ PendingOK' /\ pending \subseteq pending'
         /\ answer' = [answer EXCEPT ![c] = NoAnswer]
<1>1. Release(ResetConns(c), ResetEndpoints(c), {}, {c})
      /\ AddEndpointGcList(ResetEndpoints(c) \cup ({e} \ {NoEndpoint}))
      /\ answer' = [answer EXCEPT ![c] = NoAnswer]
  BY DEF RegisterFail, Done
<1>2. ResetEndpoints(c) \cup ({e} \ {NoEndpoint}) \subseteq Endpoint
  BY DEF ResetEndpoints
<1>3. gcList' \subseteq Endpoint
  BY <1>1, <1>2, GcListTyped
<1>4. PendingOK' /\ pending \subseteq pending'
  BY DEF RegisterFail, PendingOK, Pending, Goroutine
<1> QED BY <1>1, <1>3, <1>4, ReleaseTyped

\* Connect, whether it succeeds or fails.
LEMMA ConnectStep ==
  ASSUME LinksOK, PendingOK, FaultsOK, ConnectOk \/ ConnectFail
  PROVE  LinksOK' /\ PendingOK' /\ FaultsOK' /\ pending \subseteq pending'
<1>1. CASE ConnectFail
  <2>1. connecting' = NoEntry /\ UNCHANGED <<ep, conn>>
    BY <1>1 DEF ConnectFail
  <2>2. connecting' \in EntryType
    BY <2>1, EntryTyped
  <2>3. CASE Failing /\ UNCHANGED <<orphan, pending>>
    <3>1. Fault \/ UNCHANGED faults
      BY <2>3 DEF Failing
    <3> QED BY <2>1, <2>2, <2>3, <3>1, FaultTyped DEF LinksOK, PendingOK
  <2>4. CASE Fault /\ orphan' = TRUE /\ OnDisconnect("main")
    <3>1. "main" \in Goroutine
      BY DEF Goroutine
    <3>2. PendingOK' /\ pending \subseteq pending'
      BY <2>4, <3>1, OnDisconnectStep
    <3> QED BY <2>1, <2>2, <2>4, <3>2, FaultTyped DEF LinksOK
  <2> QED BY <1>1, <2>3, <2>4 DEF ConnectFail
<1>2. CASE ConnectOk
  <2>1. UNCHANGED <<ep, orphan, pending, faults>>
    BY <1>2 DEF ConnectOk
  <2>2. CASE UNCHANGED <<conn, connecting>>
    BY <2>1, <2>2, FaultTyped DEF LinksOK, PendingOK
  <2>3. CASE \E c \in Conn : Dial(c, NoEndpoint, "Handshaking")
    <3> PICK c \in Conn : Dial(c, NoEndpoint, "Handshaking")
      BY <2>3
    <3>1. conn' \in [Conn -> ConnType]
      BY DEF Dial, LinksOK, ConnType
    <3>2. connecting' \in EntryType
      BY LifecycleAssumption DEF Dial, EntryType, After
    <3> QED BY <2>1, <3>1, <3>2, FaultTyped DEF LinksOK, PendingOK
  <2> QED BY <1>2, <2>2, <2>3 DEF ConnectOk
<1> QED BY <1>1, <1>2

\* AddConnection keeps the endpoint well formed.
LEMMA AddConnectionTyped ==
  ASSUME LinksOK, NEW e, NEW c \in Conn \cup {Dead}, AddConnection(e, c)
  PROVE  ep' \in [Endpoint -> EpType]
<1>1. ep \in [Endpoint -> EpType]
  BY DEF LinksOK
<1> DEFINE first == [ep EXCEPT ![e].ctrl = IF @ = NoConn THEN c ELSE @]
<1>2. first \in [Endpoint -> EpType]
  BY <1>1 DEF EpType
<1>3. ep' = [first EXCEPT ![e].data = IF ep[e].ctrl = NoConn THEN @ ELSE @ \cup {c}]
  BY DEF AddConnection
<1> HIDE DEF first
<1> QED BY <1>2, <1>3 DEF EpType

\* A handler goes on.
LEMMA GoTyped ==
  ASSUME AnswersOK, NEW c \in Conn,
         NEW at \in {"none", "insert", "activate", "add", "data", "check", "up"}, Go(c, at)
  PROVE  /\ AnswersOK' /\ answer'[c].at = at /\ answer'[c].e = answer[c].e
         /\ \A d \in Conn \ {c} : answer'[d] = answer[d]
<1>1. answer[c] \in AnswerType
  BY DEF AnswersOK
<1> DEFINE r == [answer[c] EXCEPT !.at = at]
<1>2. r \in AnswerType /\ r.at = at /\ r.e = answer[c].e
  BY <1>1 DEF AnswerType
<1>3. answer' = [answer EXCEPT ![c] = r]
  BY DEF Go
<1> HIDE DEF r
<1> QED BY <1>2, <1>3 DEF AnswersOK

\* A handler ends, or begins.
LEMMA SetTyped ==
  ASSUME AnswersOK, NEW c \in Conn, NEW r \in AnswerType, answer' = [answer EXCEPT ![c] = r]
  PROVE  AnswersOK' /\ answer'[c] = r /\ \A d \in Conn \ {c} : answer'[d] = answer[d]
BY DEF AnswersOK

LEMMA NoAnswerTyped == NoAnswer \in AnswerType /\ NoAnswer.at = "none"
BY DEF NoAnswer, AnswerType

-----------------------------------------------------------------------------
(* What keeps the three parts of the invariant that are not about types.   *)

\* A handler does not get to a decision.
Undecided(r) == r.at \notin {"insert", "activate", "up"}

\* The steps that leave state and upstream alone.
LEMMA CoreKept ==
  ASSUME Core, UNCHANGED <<state, upstream, late>>, opTimer # Off => opTimer' # Off,
         <<"main", "removed">> \in pending => <<"main", "removed">> \in pending',
         \A c \in Conn : answer'[c] = answer[c] \/ Undecided(answer'[c])
  PROVE  Core'
<1>1. TimerSet'
  BY DEF Core, TimerSet
<1>2. RunningHasUpstream'
  BY DEF Core, RunningHasUpstream
<1>3. Decisions'
  BY DEF Core, Decisions, Undecided
<1> QED BY <1>1, <1>2, <1>3 DEF Core

\* The steps that leave the Running state, or a state that is not Running, with
\* the timer set.
LEMMA CoreLeft ==
  ASSUME Core, state' # "Running", opTimer' # Off, UNCHANGED answer
  PROVE  Core'
<1>1. TimerSet' /\ RunningHasUpstream'
  BY DEF TimerSet, RunningHasUpstream
<1>2. Decisions'
  BY DEF Core, Decisions
<1> QED BY <1>1, <1>2 DEF Core

\* Reset leaves a node that can be initialised again.
LEMMA ResetStep ==
  ASSUME Inv, Reset
  PROVE  Inv'
<1>1. LinksOK /\ NodeOK /\ AnswersOK /\ PendingOK /\ FaultsOK /\ Core
  BY Parts
<1>2. opTimer' \in Off..After(FirstIdle) /\ (opTimer # Off => opTimer' # Off)
  BY <1>1, LifecycleAssumption DEF Reset, NodeOK, After, Off
<1>3. LinksOK'
  <2>1. conn' \in [Conn -> ConnType]
    BY DEF Reset, Blank, ConnType
  <2>2. ep' \in [Endpoint -> EpType]
    BY DEF Reset, Empty, EpType
  <2>3. connecting' \in EntryType
    BY LifecycleAssumption DEF Reset, NoEntry, EntryType, After
  <2> QED BY <2>1, <2>2, <2>3 DEF Reset, LinksOK
<1>4. NodeOK'
  <2>1. idle' \in 0..After(FirstIdle)
    BY LifecycleAssumption DEF Reset, After
  <2> QED BY <1>2, <2>1 DEF Reset, NodeOK, States, Flags
<1>5. AnswersOK' /\ PendingOK' /\ FaultsOK'
  BY <1>1 DEF Reset, AnswersOK, PendingOK, FaultsOK
<1>6. Core'
  <2>1. TimerSet' /\ RunningHasUpstream'
    BY DEF Reset, TimerSet, RunningHasUpstream
  <2>2. Decisions'
    BY <1>1, <1>2 DEF Reset, Core, Decisions
  <2> QED BY <2>1, <2>2 DEF Core
<1> QED BY <1>3, <1>4, <1>5, <1>6, Parts

-----------------------------------------------------------------------------
(* The inductive invariant.                                                *)

LEMMA InvInit == Init => Inv
<1> SUFFICES ASSUME Init PROVE Inv
  OBVIOUS
<1>1. LinksOK
  <2>1. conn \in [Conn -> ConnType]
    BY DEF Init, Blank, ConnType
  <2>2. ep \in [Endpoint -> EpType]
    BY DEF Init, Empty, EpType
  <2>3. connecting \in EntryType
    BY LifecycleAssumption DEF Init, NoEntry, EntryType, After
  <2> QED BY <2>1, <2>2, <2>3 DEF Init, LinksOK
<1>2. NodeOK
  <2>1. idle \in 0..After(FirstIdle) /\ opTimer \in Off..After(FirstIdle)
    BY LifecycleAssumption DEF Init, After, Off
  <2> QED BY <2>1 DEF Init, NodeOK, States, Flags
<1>3. AnswersOK /\ PendingOK
  BY NoAnswerTyped DEF Init, AnswersOK, PendingOK
<1>4. FaultsOK
  BY LifecycleAssumption DEF Init, FaultsOK
<1>5. Core
  <2>1. TimerSet /\ RunningHasUpstream
    BY DEF Init, TimerSet, RunningHasUpstream
  <2>2. Decisions
    BY NoAnswerTyped DEF Init, Decisions
  <2> QED BY <2>1, <2>2 DEF Core
<1> QED BY <1>1, <1>2, <1>3, <1>4, <1>5, Parts

\* The steps in which a goroutine does what it decided on before.
LEMMA PendingSteps ==
  ASSUME Inv, NEW g \in Goroutine, Lost(g) \/ Removed \/ FatalShutdown(g)
  PROVE  Inv'
<1>1. LinksOK /\ NodeOK /\ AnswersOK /\ PendingOK /\ FaultsOK /\ Core
  BY Parts
<1>2. UNCHANGED <<links, answer, faults>> /\ UNCHANGED <<upstream, idle, gc, pc, channel, late>>
  BY DEF Lost, Removed, FatalShutdown
<1>3. LinksOK' /\ AnswersOK' /\ FaultsOK'
  BY <1>1, <1>2 DEF LinksOK, AnswersOK, FaultsOK, links
<1>4. PendingOK'
  BY <1>1 DEF Lost, Removed, FatalShutdown, Decided, PendingOK, Pending, Goroutine
<1>5. CASE Lost(g) \/ Removed
  <2>1. opTimer' \in Off..After(FirstIdle) /\ opTimer' # Off
    BY <1>5, LifecycleAssumption DEF Lost, Removed, After, Off
  <2>2. state' # "Running" /\ state' \in States /\ UNCHANGED flags
    BY <1>1, <1>5 DEF Lost, Removed, States, NodeOK
  <2>3. NodeOK'
    BY <1>1, <1>2, <2>1, <2>2 DEF NodeOK, gc
  <2>4. Core'
    BY <1>1, <1>2, <2>1, <2>2, CoreLeft
  <2> QED BY <1>3, <1>4, <2>3, <2>4, Parts
<1>6. CASE FatalShutdown(g)
  <2>1. flags' \subseteq Flags /\ UNCHANGED <<state, opTimer>>
    BY <1>1, <1>6 DEF FatalShutdown, NodeOK, Flags
  <2>2. NodeOK'
    BY <1>1, <1>2, <2>1 DEF NodeOK, gc
  <2>3. <<"main", "removed">> \in pending => <<"main", "removed">> \in pending'
    BY <1>6 DEF FatalShutdown
  <2>4. Core'
    BY <1>1, <1>2, <2>1, <2>3, CoreKept
  <2> QED BY <1>3, <1>4, <2>2, <2>4, Parts
<1> QED BY <1>5, <1>6

\* Init, Start and the steps of the caller after Connect.
LEMMA StartSteps ==
  ASSUME Inv, NodeInit \/ Start \/ Connected
  PROVE  Inv'
<1>1. LinksOK /\ NodeOK /\ AnswersOK /\ PendingOK /\ FaultsOK /\ Core
  BY Parts
<1>2. CASE NodeInit
  <2>1. UNCHANGED <<links, answer, pending>> /\ UNCHANGED <<flags, opTimer, late, upstream, idle, gc, pc>>
        /\ state' = "Inited" /\ channel' = TRUE /\ Fault
    BY <1>2 DEF NodeInit
  <2>2. LinksOK' /\ AnswersOK' /\ PendingOK'
    BY <1>1, <2>1 DEF LinksOK, AnswersOK, PendingOK, links
  <2>3. FaultsOK'
    BY <1>1, <2>1, FaultTyped
  <2>4. NodeOK'
    BY <1>1, <2>1 DEF NodeOK, States, gc
  <2>5. TimerSet' /\ RunningHasUpstream'
    BY <2>1 DEF TimerSet, RunningHasUpstream
  <2>6. Decisions'
    BY <1>1, <2>1 DEF Core, Decisions
  <2> QED BY <2>2, <2>3, <2>4, <2>5, <2>6, Parts DEF Core
<1>3. CASE Connected
  <2>1. UNCHANGED <<links, answer, pending, faults>> /\ UNCHANGED <<flags, late, upstream, idle, gc, channel>>
        /\ state' = "ConnectingUpstream" /\ pc' \in {"idle", "gc"} /\ opTimer' = After(FirstIdle)
    BY <1>3 DEF Connected
  <2>2. LinksOK' /\ AnswersOK' /\ PendingOK' /\ FaultsOK'
    BY <1>1, <2>1 DEF LinksOK, AnswersOK, PendingOK, FaultsOK, links
  <2>3. opTimer' \in Off..After(FirstIdle) /\ opTimer' # Off
    BY <2>1, LifecycleAssumption DEF After, Off
  <2>4. NodeOK'
    BY <1>1, <2>1, <2>3 DEF NodeOK, States, gc
  <2>5. Core'
    BY <1>1, <2>1, <2>3, CoreLeft
  <2> QED BY <2>2, <2>4, <2>5, Parts
<1>4. CASE Start
  <2>1. UNCHANGED <<flags, channel, late, upstream, idle, gc>> /\ UNCHANGED answer /\ state = "Inited"
    BY <1>4 DEF Start, At
  <2>2. LinksOK' /\ PendingOK' /\ FaultsOK' /\ pending \subseteq pending'
    BY <1>1, <1>4, ConnectStep DEF Start
  <2>3. AnswersOK'
    BY <1>1, <2>1 DEF AnswersOK
  <2>4. CASE pc' = "started" /\ UNCHANGED <<state, opTimer>>
    <3>1. NodeOK'
      BY <1>1, <2>1, <2>4 DEF NodeOK, gc
    <3>2. Core'
      BY <1>1, <2>1, <2>2, <2>4, CoreKept
    <3> QED BY <2>2, <2>3, <3>1, <3>2, Parts
  <2>5. CASE UNCHANGED pc /\ state' = "LostUpstream" /\ opTimer' = After(Retry)
    <3>1. opTimer' \in Off..After(FirstIdle) /\ opTimer' # Off
      BY <2>5, LifecycleAssumption DEF After, Off
    <3>2. NodeOK'
      BY <1>1, <2>1, <2>5, <3>1 DEF NodeOK, States, gc
    <3>3. Core'
      BY <1>1, <2>1, <2>5, <3>1, CoreLeft
    <3> QED BY <2>2, <2>3, <3>2, <3>3, Parts
  <2> QED BY <1>4, <2>4, <2>5 DEF Start
<1> QED BY <1>2, <1>3, <1>4

\* Time that passes leaves a timer a timer.
LEMMA LessTyped ==
  ASSUME NEW n \in Nat, NEW t \in 0..n, NEW d \in {0, 1}
  PROVE  Less(t, d) \in 0..n
BY DEF Less

\* Proc, up to the end of processConnectingTimeout.
LEMMA ProcStep ==
  ASSUME Inv, Proc
  PROVE  Inv'
<1>1. LinksOK /\ NodeOK /\ AnswersOK /\ PendingOK /\ FaultsOK /\ Core
  BY Parts
<1>2. UNCHANGED <<state, flags, channel, late, upstream, inGc, answer>> /\ pc' = "upstream"
  BY DEF Proc
<1> PICK d \in {0, 1} :
      /\ opTimer' = IF opTimer = Off THEN Off ELSE Less(opTimer, d)
      /\ idle' = Less(idle, d)
      /\ \/ /\ IF UnderWay THEN d = 0 /\ Fault ELSE Passed(d)
            /\ connecting' = NoEntry
            /\ UNCHANGED <<ep, conn, orphan, gcList, pending>>
         \/ /\ UnderWay /\ Less(connecting.left, d) > 0 /\ Passed(d)
            /\ connecting' = [connecting EXCEPT !.left = Less(connecting.left, d)]
            /\ UNCHANGED <<ep, conn, orphan, gcList, pending>>
         \/ /\ UnderWay /\ Less(connecting.left, d) = 0 /\ Passed(d)
            /\ ConnReset("main", connecting.c, {})
  BY DEF Proc
<1>3. After(FirstIdle) \in Nat
  BY LifecycleAssumption DEF After
<1>4. idle' \in 0..After(FirstIdle)
  BY <1>1, <1>3, LessTyped DEF NodeOK
<1>5. opTimer' \in Off..After(FirstIdle) /\ (opTimer # Off => opTimer' # Off)
  <2>1. CASE opTimer = Off
    BY <1>1, <2>1 DEF NodeOK
  <2>2. CASE opTimer # Off
    <3>1. opTimer \in 0..After(FirstIdle)
      BY <1>1, <1>3, <2>2 DEF NodeOK, Off
    <3>2. opTimer' \in 0..After(FirstIdle)
      BY <1>3, <2>2, <3>1, LessTyped
    <3> QED BY <1>3, <3>2 DEF Off
  <2> QED BY <2>1, <2>2
<1>6. FaultsOK'
  <2>1. Fault \/ UNCHANGED faults
    BY DEF Passed
  <2> QED BY <1>1, <2>1, FaultTyped
<1>7. LinksOK' /\ gcList' \subseteq Endpoint /\ PendingOK' /\ pending \subseteq pending'
  <2>1. CASE connecting' = NoEntry /\ UNCHANGED <<ep, conn, orphan, gcList, pending>>
    <3>1. connecting' \in EntryType
      BY <1>1, <2>1, EntryTyped
    <3> QED BY <1>1, <2>1, <3>1 DEF LinksOK, NodeOK, PendingOK
  <2>2. CASE /\ connecting' = [connecting EXCEPT !.left = Less(connecting.left, d)]
             /\ UNCHANGED <<ep, conn, orphan, gcList, pending>>
    <3>1. connecting \in EntryType
      BY <1>1 DEF LinksOK
    <3>2. Less(connecting.left, d) \in 0..After(FirstIdle)
      BY <1>3, <3>1, LessTyped DEF EntryType
    <3>3. connecting' \in EntryType
      BY <2>2, <3>1, <3>2 DEF EntryType
    <3> QED BY <1>1, <2>2, <3>3 DEF LinksOK, NodeOK, PendingOK
  <2>3. CASE ConnReset("main", connecting.c, {})
    <3>1. "main" \in Goroutine
      BY DEF Goroutine
    <3> QED BY <1>1, <2>3, <3>1, ConnResetStep
  <2> QED BY <2>1, <2>2, <2>3
<1>8. NodeOK'
  BY <1>1, <1>2, <1>4, <1>5, <1>7 DEF NodeOK
<1>9. Core'
  BY <1>1, <1>2, <1>5, <1>7, CoreKept
<1> QED BY <1>1, <1>2, <1>6, <1>7, <1>8, <1>9, Parts DEF AnswersOK

\* processUpstreamOperations.
LEMMA ProcUpstreamStep ==
  ASSUME Inv, ProcUpstream
  PROVE  Inv'
<1>1. LinksOK /\ NodeOK /\ AnswersOK /\ PendingOK /\ FaultsOK /\ Core
  BY Parts
<1>2. UNCHANGED <<state, flags, channel, late, upstream, idle, inGc, answer>>
  BY DEF ProcUpstream
<1>3. AnswersOK'
  BY <1>1, <1>2 DEF AnswersOK
<1>4. CASE /\ opTimer = 0 /\ (ConnectOk \/ ConnectFail) /\ UNCHANGED gcList
           /\ pc' \in {"connected", "gc"} /\ (UNCHANGED opTimer \/ opTimer' = After(Retry))
  <2>1. LinksOK' /\ PendingOK' /\ FaultsOK' /\ pending \subseteq pending'
    BY <1>1, <1>4, ConnectStep
  <2>2. opTimer' \in Off..After(FirstIdle) /\ opTimer' # Off
    BY <1>1, <1>4, LifecycleAssumption DEF After, Off, NodeOK
  <2>3. NodeOK'
    BY <1>1, <1>2, <1>4, <2>2 DEF NodeOK
  <2>4. Core'
    BY <1>1, <1>2, <2>1, <2>2, CoreKept
  <2> QED BY <1>3, <2>1, <2>3, <2>4, Parts
<1>5. CASE /\ UNCHANGED gcList \/ (HasCtrl /\ AddEndpointGcList(IF IsAvailable(upstream) \/ idle > 0 THEN {} ELSE {upstream}))
           /\ pc' = "gc" /\ UNCHANGED <<links, opTimer, pending, faults>>
  <2>1. LinksOK' /\ PendingOK' /\ FaultsOK'
    BY <1>1, <1>5 DEF LinksOK, PendingOK, FaultsOK, links
  <2>2. gcList' \subseteq Endpoint
    BY <1>1, <1>5 DEF NodeOK, AddEndpointGcList, HasCtrl
  <2>3. NodeOK'
    BY <1>1, <1>2, <1>5, <2>2 DEF NodeOK
  <2>4. Core'
    BY <1>1, <1>2, <1>5, CoreKept
  <2> QED BY <1>3, <2>1, <2>3, <2>4, Parts
<1> QED BY <1>4, <1>5 DEF ProcUpstream

\* The garbage collection of Proc and Poll.
LEMMA GcSteps ==
  ASSUME Inv, ProcGC \/ Poll \/ GcEnd
  PROVE  Inv'
<1>1. LinksOK /\ NodeOK /\ AnswersOK /\ PendingOK /\ FaultsOK /\ Core
  BY Parts
<1>2. CASE ExecuteGC /\ pc' \in {"gcEnd", "pollEnd"}
  <2>1. UNCHANGED <<node, links, answer, faults>> /\ gcList' = {} /\ inGc' = TRUE
        /\ (RemoveUpstream \/ UNCHANGED <<upstream, idle, pending>>)
    BY <1>2 DEF ExecuteGC
  <2>2. LinksOK' /\ AnswersOK' /\ FaultsOK'
    BY <1>1, <2>1 DEF LinksOK, AnswersOK, FaultsOK, links
  <2>3. PendingOK'
    BY <1>1, <2>1 DEF PendingOK, Pending, RemoveUpstream, Goroutine
  <2>4. upstream' \in Endpoint \cup {NoEndpoint} /\ idle' \in 0..After(FirstIdle)
    BY <1>1, <2>1, LifecycleAssumption DEF RemoveUpstream, NodeOK, After
  <2>5. NodeOK'
    BY <1>1, <1>2, <2>1, <2>4 DEF NodeOK, node
  <2>6. RunningHasUpstream'
    BY <1>1, <2>1 DEF Core, RunningHasUpstream, RemoveUpstream, node
  <2>7. TimerSet' /\ Decisions'
    BY <1>1, <2>1 DEF Core, TimerSet, Decisions, node
  <2> QED BY <2>2, <2>3, <2>5, <2>6, <2>7, Parts DEF Core
<1>3. CASE Reset
  BY <1>3, ResetStep
<1>4. CASE /\ inGc' = FALSE /\ gcList' = {} /\ pc' = "idle"
           /\ UNCHANGED <<node, upstream, idle, links, answer, pending, faults>>
  <2>1. LinksOK' /\ AnswersOK' /\ FaultsOK' /\ PendingOK'
    BY <1>1, <1>4 DEF LinksOK, AnswersOK, FaultsOK, PendingOK, links
  <2>2. NodeOK'
    BY <1>1, <1>4 DEF NodeOK, node
  <2>3. Core'
    BY <1>1, <1>4, CoreKept DEF node
  <2> QED BY <2>1, <2>2, <2>3, Parts
<1> QED BY <1>2, <1>3, <1>4 DEF ProcGC, Poll, GcEnd

\* The application disconnects or shuts down.
LEMMA ApplicationSteps ==
  ASSUME Inv, Disconnect \/ Shutdown
  PROVE  Inv'
<1>1. LinksOK /\ NodeOK /\ AnswersOK /\ PendingOK /\ FaultsOK /\ Core
  BY Parts
<1>2. FaultsOK'
  BY <1>1, FaultTyped DEF Disconnect, Shutdown
<1>3. AnswersOK' /\ UNCHANGED answer
  BY <1>1 DEF Disconnect, Shutdown, AnswersOK
<1>4. CASE Shutdown
  <2>1. UNCHANGED <<links, pending>> /\ UNCHANGED <<state, opTimer, channel, late, upstream, idle, gc, pc>>
        /\ flags' = flags \cup {"Shutdown"}
    BY <1>4 DEF Shutdown
  <2>2. LinksOK' /\ PendingOK'
    BY <1>1, <2>1 DEF LinksOK, PendingOK, links
  <2>3. NodeOK'
    BY <1>1, <2>1 DEF NodeOK, Flags, gc
  <2>4. Core'
    BY <1>1, <1>3, <2>1, CoreKept
  <2> QED BY <1>2, <1>3, <2>2, <2>3, <2>4, Parts
<1>5. CASE Disconnect
  <2>1. UNCHANGED <<node, upstream, idle, inGc, pc>> /\ upstream \in Endpoint
        /\ AddEndpointGcList({upstream})
        /\ Release(Held(upstream), {upstream}, {}, {}) /\ RemoveConnectionTimer(Held(upstream))
        /\ (UNCHANGED pending \/ OnDisconnect("main"))
    BY <1>1, <1>5 DEF Disconnect, NodeOK
  <2>2. connecting' \in EntryType
    BY <1>1, <2>1, EntryTyped
  <2>3. LinksOK'
    BY <1>1, <2>1, <2>2, ReleaseTyped DEF LinksOK
  <2>4. gcList' \subseteq Endpoint
    BY <1>1, <2>1, GcListTyped
  <2>5. PendingOK' /\ pending \subseteq pending'
    BY <1>1, <2>1, OnDisconnectStep DEF PendingOK, Goroutine
  <2>6. NodeOK'
    BY <1>1, <2>1, <2>4 DEF NodeOK, node
  <2>7. Core'
    BY <1>1, <1>3, <2>1, <2>5, CoreKept DEF node
  <2> QED BY <1>2, <1>3, <2>3, <2>5, <2>6, <2>7, Parts
<1> QED BY <1>4, <1>5

\* An answer arrives.
LEMMA AnsweredSteps ==
  ASSUME Inv, NEW c \in Conn, Answered(c)
  PROVE  Inv'
<1>1. LinksOK /\ NodeOK /\ AnswersOK /\ PendingOK /\ FaultsOK /\ Core
  BY Parts
<1>2. CASE RegisterAccepted(c)
  <2>1. UNCHANGED <<node, upstream, idle, links, gc, pc, pending, faults>>
    BY <1>2 DEF RegisterAccepted
  <2> PICK e \in Endpoint, at \in {"add", "insert"} : answer' = [answer EXCEPT ![c] = [at |-> at, e |-> e]]
    BY <1>2 DEF RegisterAccepted
  <2> DEFINE r == [at |-> at, e |-> e]
  <2>2. r \in AnswerType /\ r.e # NoEndpoint /\ r.at \in {"add", "insert"} /\ answer' = [answer EXCEPT ![c] = r]
    BY LifecycleAssumption DEF AnswerType
  <2> HIDE DEF r
  <2>3. AnswersOK' /\ answer'[c] = r /\ \A d \in Conn \ {c} : answer'[d] = answer[d]
    BY <1>1, <2>2, SetTyped
  <2>4. LinksOK' /\ PendingOK' /\ FaultsOK'
    BY <1>1, <2>1 DEF LinksOK, PendingOK, FaultsOK, links
  <2>5. NodeOK'
    BY <1>1, <2>1 DEF NodeOK, node, gc
  <2>6. TimerSet' /\ RunningHasUpstream'
    BY <1>1, <2>1 DEF Core, TimerSet, RunningHasUpstream, node
  <2>7. Decisions'
    BY <1>1, <2>1, <2>2, <2>3 DEF Core, Decisions, node
  <2> QED BY <2>3, <2>4, <2>5, <2>6, <2>7, Parts DEF Core
<1>3. CASE DataAccepted(c)
  <2>1. UNCHANGED <<node, upstream, idle, ep, orphan, connecting, gc, pc, pending, faults>>
        /\ conn' = [conn EXCEPT ![c].asked = FALSE]
        /\ answer' = [answer EXCEPT ![c] = [at |-> "data", e |-> conn[c].binding]]
    BY <1>3 DEF DataAccepted
  <2>2. conn' \in [Conn -> ConnType]
    BY <1>1, <2>1 DEF LinksOK, ConnType
  <2> DEFINE r == [at |-> "data", e |-> conn[c].binding]
  <2>3. r \in AnswerType /\ r.at = "data" /\ answer' = [answer EXCEPT ![c] = r]
    BY <1>1, <2>1 DEF AnswerType, LinksOK, ConnType
  <2> HIDE DEF r
  <2>4. AnswersOK' /\ answer'[c] = r /\ \A d \in Conn \ {c} : answer'[d] = answer[d]
    BY <1>1, <2>3, SetTyped
  <2>5. LinksOK' /\ PendingOK' /\ FaultsOK'
    BY <1>1, <2>1, <2>2 DEF LinksOK, PendingOK, FaultsOK
  <2>6. NodeOK'
    BY <1>1, <2>1 DEF NodeOK, node, gc
  <2>7. \A d \in Conn : answer'[d] = answer[d] \/ Undecided(answer'[d])
    BY <2>3, <2>4 DEF Undecided
  <2>8. Core'
    BY <1>1, <2>1, <2>7, CoreKept DEF node
  <2> QED BY <2>4, <2>5, <2>6, <2>8, Parts
<1>4. CASE RegisterRefused(c)
  <2>1. UNCHANGED <<node, upstream, idle, inGc, pc>> /\ RemoveConnectionTimer(ResetConns(c))
        /\ (Fault \/ UNCHANGED faults)
    BY <1>4 DEF RegisterRefused
  <2>2. PICK e \in Endpoint \cup {NoEndpoint} : RegisterFail(c, e)
    BY <1>1, <1>4 DEF RegisterRefused, LinksOK, ConnType, NodeOK
  <2>3. /\ conn' \in [Conn -> ConnType] /\ ep' \in [Endpoint -> EpType] /\ orphan' \in BOOLEAN
        /\ gcList' \subseteq Endpoint /\ PendingOK' /\ pending \subseteq pending'
        /\ answer' = [answer EXCEPT ![c] = NoAnswer]
    BY <1>1, <2>2, RegisterFailStep
  <2>4. connecting' \in EntryType
    BY <1>1, <2>1, EntryTyped
  <2>5. AnswersOK' /\ answer'[c] = NoAnswer /\ \A d \in Conn \ {c} : answer'[d] = answer[d]
    BY <1>1, <2>3, NoAnswerTyped, SetTyped
  <2>6. FaultsOK'
    BY <1>1, <2>1, FaultTyped
  <2>7. NodeOK'
    BY <1>1, <2>1, <2>3 DEF NodeOK, node
  <2>8. \A d \in Conn : answer'[d] = answer[d] \/ Undecided(answer'[d])
    BY <2>5, NoAnswerTyped DEF Undecided
  <2>9. Core'
    BY <1>1, <2>1, <2>3, <2>8, CoreKept DEF node
  <2> QED BY <2>3, <2>4, <2>5, <2>6, <2>7, <2>9, Parts DEF LinksOK
<1> QED BY <1>2, <1>3, <1>4 DEF Answered

\* The handler of an answer goes on.
LEMMA HandleSteps ==
  ASSUME Inv, NEW c \in Conn, Handle(c)
  PROVE  Inv'
<1>1. LinksOK /\ NodeOK /\ AnswersOK /\ PendingOK /\ FaultsOK /\ Core
  BY Parts
<1>a. answer[c] \in AnswerType /\ answer[c].e \in Endpoint \cup {NoEndpoint}
  BY <1>1 DEF AnswersOK, AnswerType
<1>2. CASE AddEndpoint(c)
  <2>1. UNCHANGED <<node, links, gc, pc, pending, faults>> /\ answer[c].at = "insert"
        /\ upstream' = answer[c].e /\ idle' = After(FirstIdle)
    BY <1>2 DEF AddEndpoint
  <2>2. PICK at \in {"activate", "add"} :
          Go(c, at) /\ (at = "activate" => state \in {"LostUpstream", "ConnectingUpstream"})
    BY <1>2 DEF AddEndpoint
  <2>3. AnswersOK' /\ answer'[c].at = at /\ answer'[c].e = answer[c].e
        /\ \A d \in Conn \ {c} : answer'[d] = answer[d]
    BY <1>1, <2>2, GoTyped
  <2>4. upstream' # NoEndpoint
    BY <1>1, <2>1 DEF Core, Decisions
  <2>5. LinksOK' /\ PendingOK' /\ FaultsOK'
    BY <1>1, <2>1 DEF LinksOK, PendingOK, FaultsOK, links
  <2>6. idle' \in 0..After(FirstIdle)
    BY <2>1, LifecycleAssumption DEF After
  <2>7. NodeOK'
    BY <1>1, <1>a, <2>1, <2>6 DEF NodeOK, node, gc
  <2>8. TimerSet' /\ RunningHasUpstream'
    BY <1>1, <2>1, <2>4 DEF Core, TimerSet, RunningHasUpstream, node
  <2>9. Decisions'
    <3>1. at = "activate" => opTimer # Off
      BY <1>1, <2>2 DEF Core, TimerSet
    <3>2. UNCHANGED opTimer
      BY <2>1 DEF node
    <3> QED BY <1>1, <2>2, <2>3, <3>1, <3>2 DEF Core, Decisions
  <2> QED BY <2>3, <2>5, <2>7, <2>8, <2>9, Parts DEF Core
<1>3. CASE Activate(c)
  <2>1. UNCHANGED <<links, pending, faults>> /\ UNCHANGED <<opTimer, channel, upstream, idle, gc, pc>>
        /\ OnActived(flags) /\ Go(c, "add") /\ answer[c].at = "activate"
    BY <1>3 DEF Activate
  <2>2. AnswersOK' /\ answer'[c].at = "add" /\ \A d \in Conn \ {c} : answer'[d] = answer[d]
    BY <1>1, <2>1, GoTyped
  <2>3. opTimer' # Off
    BY <1>1, <2>1 DEF Core, Decisions
  <2>4. LinksOK' /\ PendingOK' /\ FaultsOK'
    BY <1>1, <2>1 DEF LinksOK, PendingOK, FaultsOK, links
  <2>5. NodeOK'
    BY <1>1, <2>1 DEF NodeOK, OnActived, States, Flags, gc
  <2>6. TimerSet' /\ RunningHasUpstream'
    BY <2>1, <2>3 DEF TimerSet, RunningHasUpstream, OnActived
  <2>7. Decisions'
    BY <1>1, <2>2, <2>3 DEF Core, Decisions
  <2> QED BY <2>2, <2>4, <2>5, <2>6, <2>7, Parts DEF Core
<1>4. CASE AddToEndpoint(c)
  <2>1. UNCHANGED <<node, upstream, idle, orphan, connecting, gc, pc, pending, faults>> /\ Go(c, "data")
    BY <1>4 DEF AddToEndpoint
  <2>2. AnswersOK' /\ answer'[c].at = "data" /\ \A d \in Conn \ {c} : answer'[d] = answer[d]
    BY <1>1, <2>1, GoTyped
  <2>3. ep' \in [Endpoint -> EpType]
    BY <1>1, <1>4, AddConnectionTyped DEF AddToEndpoint
  <2>4. conn' \in [Conn -> ConnType]
    <3>1. [status |-> "Connected", binding |-> answer[c].e, asked |-> FALSE] \in ConnType /\ Blank \in ConnType
      BY <1>a DEF ConnType, Blank
    <3>2. PICK r \in ConnType : conn' = [conn EXCEPT ![c] = r]
      BY <1>4, <3>1 DEF AddToEndpoint
    <3> QED BY <1>1, <3>2 DEF LinksOK
  <2>5. LinksOK' /\ PendingOK' /\ FaultsOK'
    BY <1>1, <2>1, <2>3, <2>4 DEF LinksOK, PendingOK, FaultsOK
  <2>6. NodeOK'
    BY <1>1, <2>1 DEF NodeOK, node, gc
  <2>7. \A d \in Conn : answer'[d] = answer[d] \/ Undecided(answer'[d])
    BY <2>2 DEF Undecided
  <2>8. Core'
    BY <1>1, <2>1, <2>7, CoreKept DEF node
  <2> QED BY <2>2, <2>5, <2>6, <2>8, Parts
<1>5. CASE DataChannel(c)
  <2>1. UNCHANGED <<node, upstream, idle, gc, pc>> /\ Go(c, "check")
    BY <1>5 DEF DataChannel
  <2>2. AnswersOK' /\ answer'[c].at = "check" /\ \A d \in Conn \ {c} : answer'[d] = answer[d]
    BY <1>1, <2>1, GoTyped
  <2>3. LinksOK' /\ PendingOK' /\ FaultsOK' /\ pending \subseteq pending'
    <3>1. CASE UNCHANGED <<links, pending, faults>>
      BY <1>1, <3>1 DEF LinksOK, PendingOK, FaultsOK, links
    <3>2. CASE /\ \E d \in Conn : Dial(d, answer[c].e, "Connected") /\ AddConnection(answer[c].e, d)
               /\ UNCHANGED <<orphan, pending, faults>>
      <4> PICK d \in Conn : Dial(d, answer[c].e, "Connected") /\ AddConnection(answer[c].e, d)
        BY <3>2
      <4>1. ep' \in [Endpoint -> EpType]
        BY <1>1, AddConnectionTyped
      <4>2. conn' \in [Conn -> ConnType]
        BY <1>1, <1>a DEF Dial, LinksOK, ConnType
      <4>3. connecting' \in EntryType
        BY LifecycleAssumption DEF Dial, EntryType, After
      <4> QED BY <1>1, <3>2, <4>1, <4>2, <4>3 DEF LinksOK, PendingOK, FaultsOK
    <3>3. CASE /\ Fault /\ AddConnection(answer[c].e, Dead) /\ connecting' = NoEntry
               /\ OnDisconnect("io") /\ UNCHANGED <<conn, orphan>>
      <4>1. ep' \in [Endpoint -> EpType]
        BY <1>1, <3>3, AddConnectionTyped
      <4>2. connecting' \in EntryType
        BY <1>1, <3>3, EntryTyped
      <4>3. PendingOK' /\ pending \subseteq pending'
        BY <1>1, <3>3, OnDisconnectStep DEF Goroutine
      <4>4. FaultsOK'
        BY <1>1, <3>3, FaultTyped
      <4> QED BY <1>1, <3>3, <4>1, <4>2, <4>3, <4>4 DEF LinksOK
    <3> QED BY <1>5, <3>1, <3>2, <3>3 DEF DataChannel
  <2>4. NodeOK'
    BY <1>1, <2>1 DEF NodeOK, node, gc
  <2>5. \A d \in Conn : answer'[d] = answer[d] \/ Undecided(answer'[d])
    BY <2>2 DEF Undecided
  <2>6. Core'
    BY <1>1, <2>1, <2>3, <2>5, CoreKept DEF node
  <2> QED BY <2>2, <2>3, <2>4, <2>6, Parts
<1>6. CASE DataChannelFails(c)
  <2>1. UNCHANGED <<node, upstream, idle, inGc, pc>> /\ RegisterFail(c, answer[c].e)
        /\ connecting' = NoEntry /\ (Fault \/ UNCHANGED faults)
    BY <1>6 DEF DataChannelFails, Failing
  <2>2. /\ conn' \in [Conn -> ConnType] /\ ep' \in [Endpoint -> EpType] /\ orphan' \in BOOLEAN
        /\ gcList' \subseteq Endpoint /\ PendingOK' /\ pending \subseteq pending'
        /\ answer' = [answer EXCEPT ![c] = NoAnswer]
    BY <1>1, <1>a, <2>1, RegisterFailStep
  <2>3. connecting' \in EntryType
    BY <1>1, <2>1, EntryTyped
  <2>4. AnswersOK' /\ answer'[c] = NoAnswer /\ \A d \in Conn \ {c} : answer'[d] = answer[d]
    BY <1>1, <2>2, NoAnswerTyped, SetTyped
  <2>5. FaultsOK'
    BY <1>1, <2>1, FaultTyped
  <2>6. NodeOK'
    BY <1>1, <2>1, <2>2 DEF NodeOK, node
  <2>7. \A d \in Conn : answer'[d] = answer[d] \/ Undecided(answer'[d])
    BY <2>4, NoAnswerTyped DEF Undecided
  <2>8. Core'
    BY <1>1, <2>1, <2>2, <2>7, CoreKept DEF node
  <2> QED BY <2>2, <2>3, <2>4, <2>5, <2>6, <2>8, Parts DEF LinksOK
<1>7. CASE CheckUpstream(c)
  <2>1. UNCHANGED <<node, upstream, idle, links, gc, pc, pending, faults>>
    BY <1>7 DEF CheckUpstream
  <2>2. LinksOK' /\ PendingOK' /\ FaultsOK' /\ NodeOK'
    BY <1>1, <2>1 DEF LinksOK, PendingOK, FaultsOK, NodeOK, links, node, gc
  <2>3. TimerSet' /\ RunningHasUpstream'
    BY <1>1, <2>1 DEF Core, TimerSet, RunningHasUpstream, node
  <2>4. AnswersOK' /\ (answer'[c].at = "none" \/ (answer'[c].at = "up" /\ state = "ConnectingUpstream"))
        /\ \A d \in Conn \ {c} : answer'[d] = answer[d]
    <3>1. CASE Go(c, "up") /\ state = "ConnectingUpstream"
      BY <1>1, <3>1, GoTyped
    <3>2. CASE Done(c)
      BY <1>1, <3>2, NoAnswerTyped, SetTyped DEF Done
    <3> QED BY <1>7, <3>1, <3>2 DEF CheckUpstream
  <2>5. Decisions'
    BY <1>1, <2>1, <2>4 DEF Core, Decisions, TimerSet, node
  <2> QED BY <2>2, <2>3, <2>4, <2>5, Parts DEF Core
<1>8. CASE Up(c)
  <2>1. UNCHANGED <<links, pending, faults>> /\ UNCHANGED <<channel, upstream, idle, gc, pc>>
        /\ OnActived(flags \cup {"UpstreamRegDone"}) /\ Done(c) /\ answer[c].at = "up"
        /\ OnUpstreamRegisterDone
    BY <1>8 DEF Up
  <2>2. AnswersOK' /\ answer'[c] = NoAnswer /\ \A d \in Conn \ {c} : answer'[d] = answer[d]
    BY <1>1, <2>1, NoAnswerTyped, SetTyped DEF Done
  <2>3. opTimer' \in Off..After(FirstIdle) /\ opTimer' # Off
    <3>1. opTimer # Off /\ opTimer \in Off..After(FirstIdle)
      BY <1>1, <2>1 DEF Core, Decisions, NodeOK
    <3>2. opTimer' = opTimer \/ opTimer' = After(Ping)
      BY <2>1 DEF OnUpstreamRegisterDone
    <3> QED BY <3>1, <3>2, LifecycleAssumption DEF After, Off
  <2>4. LinksOK' /\ PendingOK' /\ FaultsOK'
    BY <1>1, <2>1 DEF LinksOK, PendingOK, FaultsOK, links
  <2>5. NodeOK'
    BY <1>1, <2>1, <2>3 DEF NodeOK, OnActived, States, Flags, gc
  <2>6. TimerSet' /\ RunningHasUpstream'
    BY <2>1, <2>3 DEF TimerSet, RunningHasUpstream, OnActived
  <2>7. Decisions'
    BY <1>1, <2>2, <2>3, NoAnswerTyped DEF Core, Decisions
  <2> QED BY <2>2, <2>4, <2>5, <2>6, <2>7, Parts DEF Core
<1> QED BY <1>2, <1>3, <1>4, <1>5, <1>6, <1>7, <1>8 DEF Handle

\* A connection is closed, or what nobody needs is forgotten.
LEMMA ClosedSteps ==
  ASSUME Inv, \/ \E c \in Conn : ConnectionLost(c)
              \/ OrphanLost
              \/ \E e \in Endpoint : Forget(e)
  PROVE  Inv'
<1>1. LinksOK /\ NodeOK /\ AnswersOK /\ PendingOK /\ FaultsOK /\ Core
  BY Parts
<1>2. UNCHANGED <<node, upstream, idle, inGc, pc, answer>> /\ (Fault \/ UNCHANGED faults)
  BY DEF ConnectionLost, OrphanLost, Forget, gc
<1>3. AnswersOK' /\ FaultsOK'
  BY <1>1, <1>2, FaultTyped DEF AnswersOK
<1>4. LinksOK' /\ gcList' \subseteq Endpoint /\ PendingOK' /\ pending \subseteq pending'
  <2>1. CASE \E c \in Conn : ConnReset("io", c, {c})
    BY <1>1, <2>1, ConnResetStep DEF Goroutine
  <2>2. CASE OrphanLost
    <3>1. UNCHANGED <<ep, conn, connecting, gcList>> /\ orphan' \in BOOLEAN /\ OnDisconnect("io")
      BY <2>2 DEF OrphanLost, gc
    <3> QED BY <1>1, <3>1, OnDisconnectStep DEF LinksOK, NodeOK, Goroutine
  <2>3. CASE \E e \in Endpoint : Forget(e)
    <3> PICK e \in Endpoint : Forget(e)
      BY <2>3
    <3>1. Release(Held(e), {e}, {}, {}) /\ RemoveConnectionTimer(Held(e)) /\ UNCHANGED <<gcList, pending>>
      BY DEF Forget, gc
    <3>2. connecting' \in EntryType
      BY <1>1, <3>1, EntryTyped
    <3>3. LinksOK'
      BY <1>1, <3>1, <3>2, ReleaseTyped DEF LinksOK
    <3> QED BY <1>1, <3>1, <3>3 DEF NodeOK, PendingOK
  <2> QED BY <2>1, <2>2, <2>3 DEF ConnectionLost
<1>5. NodeOK'
  BY <1>1, <1>2, <1>4 DEF NodeOK, node
<1>6. Core'
  BY <1>1, <1>2, <1>4, CoreKept DEF node
<1> QED BY <1>3, <1>4, <1>5, <1>6, Parts

\* Nothing happens.
LEMMA Stutter == Inv /\ UNCHANGED vars => Inv'
<1> SUFFICES ASSUME Inv, UNCHANGED vars PROVE Inv'
  OBVIOUS
<1>1. LinksOK /\ NodeOK /\ AnswersOK /\ PendingOK /\ FaultsOK /\ Core
  BY Parts
<1>2. LinksOK' /\ NodeOK' /\ AnswersOK' /\ PendingOK' /\ FaultsOK'
  BY <1>1 DEF vars, links, node, gc, LinksOK, NodeOK, AnswersOK, PendingOK, FaultsOK
<1>3. Core'
  BY <1>1, CoreKept DEF vars, node
<1> QED BY <1>2, <1>3, Parts

\* Every step keeps the invariant.
LEMMA InvNext == Inv /\ [Next]_vars => Inv'
<1> SUFFICES ASSUME Inv, [Next]_vars PROVE Inv'
  OBVIOUS
<1>1. CASE Proceed
  <2>1. CASE \E g \in Goroutine : Lost(g) \/ Removed \/ FatalShutdown(g)
    BY <2>1, PendingSteps
  <2>2. CASE Connected
    BY <2>2, StartSteps
  <2>3. CASE Proc
    BY <2>3, ProcStep
  <2>4. CASE ProcShutdown
    BY <2>4, ResetStep DEF ProcShutdown
  <2>5. CASE ProcUpstream
    BY <2>5, ProcUpstreamStep
  <2>6. CASE ProcGC \/ GcEnd
    BY <2>6, GcSteps
  <2> QED BY <1>1, <2>1, <2>2, <2>3, <2>4, <2>5, <2>6 DEF Proceed, Goroutine
<1>2. CASE Application
  <2>1. CASE NodeInit \/ Start
    BY <2>1, StartSteps
  <2>2. CASE InitReset
    BY <2>2, ResetStep DEF InitReset
  <2>3. CASE Poll
    BY <2>3, GcSteps
  <2>4. CASE Disconnect \/ Shutdown
    BY <2>4, ApplicationSteps
  <2> QED BY <1>2, <2>1, <2>2, <2>3, <2>4 DEF Application
<1>3. CASE Lost("io") \/ FatalShutdown("io")
  BY <1>3, PendingSteps DEF Goroutine
<1>4. CASE \E c \in Conn : Answered(c)
  BY <1>4, AnsweredSteps
<1>5. CASE \E c \in Conn : Handle(c)
  BY <1>5, HandleSteps
<1>6. CASE \/ \E c \in Conn : ConnectionLost(c)
           \/ OrphanLost
           \/ \E e \in Endpoint : Forget(e)
  BY <1>6, ClosedSteps
<1>7. CASE UNCHANGED vars
  BY <1>7, Stutter
<1> QED BY <1>1, <1>2, <1>3, <1>4, <1>5, <1>6, <1>7 DEF Next

LEMMA Invariance == Spec => []Inv
BY InvInit, InvNext, PTL DEF Spec

-----------------------------------------------------------------------------
(* The theorems.                                                           *)

\* The node is well typed, whatever the order of answers, lost connections and
\* calls of the application: a handler never leaves the places of
\* onRecvNodeRegisterRsp and no timer exceeds FirstIdleTimeout.
THEOREM LifecycleTyped == Spec => []TypeOK
BY Invariance, PTL DEF Inv

\* A node that is Running has the upstream timer of processUpstreamOperations,
\* and an upstream endpoint unless RemoveEndpoint is half way, or the handler
\* of an answer activated the node when its upstream had been removed since it
\* looked.
THEOREM RunningNodesHaveUpstream == Spec => []RunningHasUpstream
BY Invariance, PTL DEF Inv

\* From the first attempt to connect on there is always a next time at which
\* Proc looks after the upstream, although the timer is set by some goroutines
\* and the state changed by others.
THEOREM TimerStaysSet == Spec => []TimerSet
BY Invariance, PTL DEF Inv
=============================================================================
