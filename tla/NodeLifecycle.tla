---------------------------- MODULE NodeLifecycle ----------------------------
(***************************************************************************)
(* The life of a node that has an upstream: Init, Start, the phases of     *)
(* Proc, Poll, Shutdown and Reset on the caller's goroutine, and the       *)
(* answers and closed connections on I/O goroutines.                       *)
(* (src/impl/atbus_node.go and atbus_connection.go, and the registration   *)
(* answer of src/message_handle/atbus_message_handler.go.)                 *)
(*                                                                         *)
(* Neither the state of the node nor its flags are under a lock, so every  *)
(* test that is acted on later is a step of its own: the look-up of the    *)
(* upstream, the test for ConnectingUpstream before a loss or an           *)
(* activation, the test for Actived before a fatal shutdown, and the two   *)
(* halves of RemoveEndpoint.  The answers on different connections are     *)
(* handled side by side.  The caller's goroutine is also cut after Connect *)
(* and before the state is set, between the phases of Proc, and inside the *)
(* garbage collection.  The races inside an endpoint are the subject of    *)
(* EndpointBinding.  All connections to the upstream, control and data,    *)
(* use the configured address, which is also the one the upstream listens  *)
(* on.                                                                     *)
(*                                                                         *)
(* Connections are never closed by Reset.  A reset connection whose answer *)
(* is still to come can come back; the others differ in nothing but that   *)
(* their loss is noticed, and are kept as one Boolean.                     *)
(*                                                                         *)
(* A timer is the time that is left: 0 when its time point is before now,  *)
(* d + 1 when it is d ahead.                                               *)
(***************************************************************************)
EXTENDS Integers, FiniteSets

CONSTANTS Conn,         \* connections that the node still has a use for
          Endpoint,     \* endpoint objects for the upstream
          NoConn, NoEndpoint,
          FirstIdle, Retry, Ping, \* FirstIdleTimeout, RetryInterval, PingInterval
          MaxFaults     \* bound: how often the outside interferes

ASSUME LifecycleAssumption ==
  /\ Conn \subseteq Nat \ {NoConn} /\ Endpoint \subseteq Nat \ {NoEndpoint}
  /\ MaxFaults \in Nat /\ FirstIdle \in Nat /\ Retry \in 0..FirstIdle /\ Ping \in 0..FirstIdle

VARIABLES state,       \* NodeState
          flags,       \* Actived, UpstreamRegDone, Shutdown
          channel,     \* ioStreamChannel is there
          upstream,    \* upstream.node
          idle,        \* time until the upstream endpoint is FirstIdleTimeout old
          ep,          \* per endpoint: control and data connections
          conn,        \* per connection: status, binding, whether an answer is to come
          orphan,      \* there are open connections that were reset
          connecting,  \* the entry of the upstream address on connectingList
          opTimer,     \* upstreamOpTimepoint, or Off
          gcList, inGc,\* pendingEndpointGcList and NodeFlag_InGcEndpoints
          pc,          \* where the caller's goroutine is
          answer,      \* per connection: where the handler of its answer is
          pending,     \* what a goroutine has decided on and has yet to do
          late,        \* history: the node went up last when its upstream was gone
          faults       \* how often it may still do so

links == <<ep, conn, orphan, connecting>>
gc == <<gcList, inGc>>
node == <<state, flags, opTimer, channel, late>>
vars == <<node, upstream, idle, links, gc, pc, answer, pending, faults>>

Off == -1
After(d) == d + 1

\* A connection that was closed before it was added to its endpoint.
Dead == -1

States == {"Created", "Inited", "ConnectingUpstream", "LostUpstream", "Running"}
Flags == {"Actived", "UpstreamRegDone", "Shutdown"}
Blank == [status |-> "None", binding |-> NoEndpoint, asked |-> FALSE]
Empty == [ctrl |-> NoConn, data |-> {}]
NoEntry == [c |-> NoConn, left |-> 0]
NoAnswer == [at |-> "none", e |-> NoEndpoint]
Goroutine == {"main", "io"}

TypeOK ==
  /\ state \in States /\ flags \subseteq Flags
  /\ upstream \in Endpoint \cup {NoEndpoint} /\ idle \in 0..After(FirstIdle)
  /\ ep \in [Endpoint -> [ctrl: Conn \cup {NoConn, Dead}, data: SUBSET (Conn \cup {Dead})]]
  /\ conn \in [Conn -> [status: {"None", "Handshaking", "Connected", "Disconnected"},
                        binding: Endpoint \cup {NoEndpoint}, asked: BOOLEAN]]
  /\ orphan \in BOOLEAN /\ connecting \in [c: Conn \cup {NoConn}, left: 0..After(FirstIdle)]
  /\ opTimer \in Off..After(FirstIdle) /\ gcList \subseteq Endpoint /\ inGc \in BOOLEAN
  /\ pc \in {"idle", "started", "upstream", "connected", "gc", "gcEnd", "pollEnd"}
  /\ answer \in [Conn -> [at: {"none", "insert", "activate", "add", "data", "check", "up"},
                          e: Endpoint \cup {NoEndpoint}]]
  /\ pending \subseteq Goroutine \X {"lost", "removed", "fatal"}
  /\ channel \in BOOLEAN /\ late \in BOOLEAN /\ faults \in 0..MaxFaults

Init ==
  /\ state = "Created" /\ flags = {} /\ channel = FALSE /\ upstream = NoEndpoint /\ idle = 0
  /\ ep = [e \in Endpoint |-> Empty] /\ conn = [c \in Conn |-> Blank]
  /\ orphan = FALSE /\ connecting = NoEntry /\ opTimer = Off /\ gcList = {} /\ inGc = FALSE
  /\ pc = "idle" /\ answer = [c \in Conn |-> NoAnswer] /\ pending = {}
  /\ late = FALSE /\ faults = MaxFaults

\* The network, the upstream or the application interferes: a connection is
\* closed, a dial fails, an answer is late or refused, the application calls
\* Init, Disconnect or Shutdown.
Fault == faults > 0 /\ faults' = faults - 1

-----------------------------------------------------------------------------
(* Losing the upstream.                                                    *)

\* OnDisconnect of a connection to the upstream address, up to the test.
OnDisconnect(g) ==
  pending' = IF state = "ConnectingUpstream" THEN pending \cup {<<g, "lost">>} ELSE pending

\* The goroutine is done with one thing, and shuts the node down next if it
\* finds that it was never up.
Decided(g, what) ==
  pending' = (pending \ {<<g, what>>}) \cup IF "Actived" \in flags THEN {} ELSE {<<g, "fatal">>}

\* The rest of OnDisconnect, whatever the state is by now.
Lost(g) ==
  /\ <<g, "lost">> \in pending
  /\ state' = "LostUpstream" /\ opTimer' = After(Retry)
  /\ Decided(g, "lost")
  /\ UNCHANGED <<flags, channel, late, upstream, idle, links, gc, pc, answer, faults>>

\* RemoveEndpoint of the upstream, which keeps its connections ...
RemoveUpstream ==
  upstream' = NoEndpoint /\ idle' = 0 /\ pending' = pending \cup {<<"main", "removed">>}

\* Mutant of Removed: a node that is up stays Running.
RemovedKeepsState ==
  /\ <<"main", "removed">> \in pending
  /\ opTimer' = After(Retry)
  /\ Decided("main", "removed")
  /\ UNCHANGED <<state, flags, channel, late, upstream, idle, links, gc, pc, answer, faults>>

\* ... and what it makes of the state.
Removed ==
  /\ <<"main", "removed">> \in pending
  /\ IF state \in {"Running", "ConnectingUpstream"}
       THEN state' = "LostUpstream" /\ opTimer' = After(0)
       ELSE UNCHANGED state /\ opTimer' = After(Retry)
  /\ Decided("main", "removed")
  /\ UNCHANGED <<flags, channel, late, upstream, idle, links, gc, pc, answer, faults>>

\* FatalShutdown, whether or not the node has come up meanwhile.
FatalShutdown(g) ==
  /\ <<g, "fatal">> \in pending
  /\ flags' = flags \cup {"Shutdown"}
  /\ pending' = pending \ {<<g, "fatal">>}
  /\ UNCHANGED <<state, opTimer, channel, late, upstream, idle, links, gc, pc, answer, faults>>

MainPending == \E what \in {"lost", "removed", "fatal"} : <<"main", what>> \in pending

\* The caller's goroutine is at this place.
At(p) == pc = p /\ ~MainPending

-----------------------------------------------------------------------------
(* Resetting connections and endpoints.                                    *)

Held(e) == (ep[e].data \cup {ep[e].ctrl}) \cap Conn

IsAvailable(e) == ep[e].ctrl # NoConn /\ ep[e].data \cap Conn # {}

AddEndpointGcList(S) == gcList' = IF inGc THEN gcList ELSE gcList \cup S

\* The connections R and the endpoints E are reset, but the network has closed
\* those in closed, and the answer on those in answered has been handled.  The
\* answer may still be read on a connection that is closed, and a handler that
\* has begun goes on.
Release(R, E, closed, answered) ==
  LET open(c) == conn[c].status \in {"Handshaking", "Connected"}
      kept == {c \in R \ (closed \cup answered) : conn[c].asked}
  IN  /\ \E read \in SUBSET {c \in (R \cap closed) \ answered : conn[c].asked} :
           /\ {c \in R \cap closed : conn[c].asked /\ answer[c] # NoAnswer} \subseteq read
           /\ conn' = [c \in Conn |->
                         CASE c \notin R -> conn[c]
                           [] c \in kept -> [conn[c] EXCEPT !.binding = NoEndpoint]
                           [] c \in read -> [Blank EXCEPT !.status = "Disconnected", !.asked = TRUE]
                           [] OTHER -> Blank]
      /\ orphan' = (orphan \/ \E c \in R \ (closed \cup kept) : open(c))
      /\ ep' = [e \in Endpoint |-> IF e \in E THEN Empty ELSE [ep[e] EXCEPT !.data = @ \ R]]

\* removeConnectionTimer.
RemoveConnectionTimer(R) == connecting' = IF connecting.c \in R THEN NoEntry ELSE connecting

\* The endpoint that a Reset of the connection resets, and all connections
\* that are reset with it.
ResetEndpoints(c) ==
  {e \in Endpoint : conn[c].binding = e /\ (ep[e].ctrl = c \/ ep[e].data = {c})}
ResetConns(c) == {c} \cup UNION {Held(e) : e \in ResetEndpoints(c)}

\* Connection.Reset.  The socket and the status stay as they are.
ConnReset(g, c, closed) ==
  /\ Release(ResetConns(c), ResetEndpoints(c), closed, {})
  /\ RemoveConnectionTimer(ResetConns(c))
  /\ AddEndpointGcList(ResetEndpoints(c))
  /\ OnDisconnect(g)

\* Some connection is open.
Open == orphan \/ \E c \in Conn : conn[c].status \in {"Handshaking", "Connected"}

\* Reset of the node: everything is closed and cleared, but not the time of
\* the next upstream operation.  I/O goroutines are not waited for.
Reset ==
  /\ state' = "Created" /\ channel' = FALSE
  /\ flags' = {} /\ late' = FALSE /\ upstream' = NoEndpoint /\ idle' = 0
  /\ ep' = [e \in Endpoint |-> Empty] /\ conn' = [c \in Conn |-> Blank] /\ orphan' = FALSE
  /\ connecting' = NoEntry /\ gcList' = {} /\ inGc' = FALSE
  /\ opTimer' = CASE upstream # NoEndpoint /\ state \in {"Running", "ConnectingUpstream"} -> After(0)
                  [] upstream # NoEndpoint /\ state \notin {"Running", "ConnectingUpstream"} -> After(Retry)
                  [] upstream = NoEndpoint /\ state = "ConnectingUpstream" /\ Open -> After(Retry)
                  [] OTHER -> opTimer
  /\ pc' = "idle"
  /\ UNCHANGED <<answer, pending, faults>>

-----------------------------------------------------------------------------
(* Connecting.                                                             *)

Unused(c) == conn[c] = Blank /\ answer[c] = NoAnswer /\ c # connecting.c

\* Objects that are no longer used stand for new ones; they are alike, so the
\* first one is taken.
Free(c) == Unused(c) /\ \A b \in Conn : b < c => ~Unused(b)

\* A connection to the address is under way.
UnderWay == connecting # NoEntry /\ conn[connecting.c].status # "Connected"

\* Connection.Connect has what it needs to dial.  It fails without, or when the
\* network does, and in the model also when all of Conn is in use.
CanDial == state # "Created" /\ channel
Failing ==
  \/ (~CanDial \/ ~\E c \in Conn : Free(c)) /\ UNCHANGED faults
  \/ CanDial /\ Fault

\* Connection.Connect: the dialled connection and its place on the list.
Dial(c, binding, status) ==
  /\ Free(c)
  /\ conn' = [conn EXCEPT ![c] = [status |-> status, binding |-> binding, asked |-> TRUE]]
  /\ connecting' = [c |-> c, left |-> After(FirstIdle)]

\* Node.Connect that succeeds.
ConnectOk ==
  /\ IF UnderWay THEN UNCHANGED <<conn, connecting>>
                 ELSE CanDial /\ \E c \in Conn : Dial(c, NoEndpoint, "Handshaking")
  /\ UNCHANGED <<ep, orphan, pending, faults>>

\* Node.Connect that fails takes the entry of the address off the list.  A
\* connection whose registration cannot be sent is reset.
ConnectFail ==
  /\ ~UnderWay /\ connecting' = NoEntry /\ UNCHANGED <<ep, conn>>
  /\ \/ Failing /\ UNCHANGED <<orphan, pending>>
     \/ CanDial /\ Fault /\ orphan' = TRUE /\ OnDisconnect("main")

-----------------------------------------------------------------------------
(* The caller's goroutine.                                                 *)

\* Init.  A node is not initialised again while goroutines of its former life
\* are at work.
NodeInit ==
  /\ At("idle") /\ state = "Created" /\ Fault
  /\ pending = {} /\ \A c \in Conn : answer[c] = NoAnswer
  /\ state' = "Inited" /\ channel' = TRUE
  /\ UNCHANGED <<flags, opTimer, late, upstream, idle, links, gc, pc, answer, pending>>

\* Init of a node that is not new, or that an I/O goroutine has changed since its
\* Reset, resets it first.
InitReset == At("idle") /\ state # "Created" /\ Reset

Start ==
  /\ At("idle") /\ state = "Inited" /\ upstream = NoEndpoint
  /\ \/ /\ ConnectOk /\ pc' = "started"
        /\ UNCHANGED <<state, opTimer>>
     \/ /\ ConnectFail /\ UNCHANGED pc
        /\ state' = "LostUpstream" /\ opTimer' = After(Retry)
  /\ UNCHANGED <<flags, channel, late, upstream, idle, gc, answer>>

\* What Start and processUpstreamOperations do when Connect has returned.
Connected ==
  /\ pc \in {"started", "connected"} /\ ~MainPending
  /\ state' = "ConnectingUpstream" /\ opTimer' = After(FirstIdle)
  /\ pc' = IF pc = "started" THEN "idle" ELSE "gc"
  /\ UNCHANGED <<flags, channel, late, upstream, idle, links, gc, answer, pending, faults>>

\* Time passes between two calls of Proc, and while an answer is awaited only
\* when it is late.
Less(t, d) == IF t > d THEN t - d ELSE 0
Awaited == pending # {} \/ \E c \in Conn : conn[c].asked \/ answer[c] # NoAnswer
Passed(d) ==
  \/ d = (IF Awaited THEN 0 ELSE 1) /\ UNCHANGED faults
  \/ d = 1 /\ Awaited /\ Fault

\* Mutant of ProcShutdown: only a node that was up is reset.
ProcShutdownIfActived ==
  At("idle") /\ state # "Created" /\ {"Shutdown", "Actived"} \subseteq flags /\ Reset

\* Proc and Poll of a node that is shutting down.
ProcShutdown == At("idle") /\ state # "Created" /\ "Shutdown" \in flags /\ Reset

\* Proc, up to the end of processConnectingTimeout.  A connected front entry is
\* taken off by its owner check, and then whatever is the new front by PopFront:
\* the entry of the upstream is lost that way after a connected one for another
\* address.
Proc ==
  /\ At("idle") /\ state # "Created" /\ "Shutdown" \notin flags
  /\ pc' = "upstream"
  /\ \E d \in {0, 1} :
       LET left == Less(connecting.left, d)
       IN  /\ opTimer' = IF opTimer = Off THEN Off ELSE Less(opTimer, d)
           /\ idle' = Less(idle, d)
           /\ \/ /\ IF UnderWay THEN d = 0 /\ Fault ELSE Passed(d)
                 /\ connecting' = NoEntry
                 /\ UNCHANGED <<ep, conn, orphan, gcList, pending>>
              \/ /\ UnderWay /\ left > 0 /\ Passed(d)
                 /\ connecting' = [connecting EXCEPT !.left = left]
                 /\ UNCHANGED <<ep, conn, orphan, gcList, pending>>
              \/ /\ UnderWay /\ left = 0 /\ Passed(d)
                 /\ ConnReset("main", connecting.c, {})
  /\ UNCHANGED <<state, flags, channel, late, upstream, inGc, answer>>

\* GetCtrlConnection of the upstream.
HasCtrl == upstream # NoEndpoint /\ ep[upstream].ctrl \in Conn

\* Mutant of ProcUpstream: after a failed Connect the timer is cleared.
ProcUpstreamOnce ==
  /\ At("upstream")
  /\ \/ /\ opTimer # 0
        /\ pc' = "gc" /\ UNCHANGED <<links, opTimer, gcList, pending, faults>>
     \/ /\ opTimer = 0 /\ ~HasCtrl
        /\ \/ ConnectOk /\ pc' = "connected" /\ UNCHANGED opTimer
           \/ ConnectFail /\ pc' = "gc" /\ opTimer' = Off
        /\ UNCHANGED gcList
     \/ /\ opTimer = 0 /\ HasCtrl
        /\ AddEndpointGcList(IF IsAvailable(upstream) \/ idle > 0 THEN {} ELSE {upstream})
        /\ pc' = "gc" /\ UNCHANGED <<links, opTimer, pending, faults>>
  /\ UNCHANGED <<state, flags, channel, late, upstream, idle, inGc, answer>>

\* processUpstreamOperations.
ProcUpstream ==
  /\ At("upstream")
  /\ \/ /\ opTimer # 0
        /\ pc' = "gc" /\ UNCHANGED <<links, opTimer, gcList, pending, faults>>
     \/ /\ opTimer = 0 /\ ~HasCtrl
        /\ \/ ConnectOk /\ pc' = "connected" /\ UNCHANGED opTimer
           \/ ConnectFail /\ pc' = "gc" /\ opTimer' = After(Retry)
        /\ UNCHANGED gcList
     \/ /\ opTimer = 0 /\ HasCtrl
        /\ AddEndpointGcList(IF IsAvailable(upstream) \/ idle > 0 THEN {} ELSE {upstream})
        /\ pc' = "gc" /\ UNCHANGED <<links, opTimer, pending, faults>>
  /\ UNCHANGED <<state, flags, channel, late, upstream, idle, inGc, answer>>

\* executeGC takes the list and removes what is not available ...
ExecuteGC ==
  /\ inGc' = TRUE /\ gcList' = {}
  /\ IF upstream \in gcList /\ ~IsAvailable(upstream)
       THEN RemoveUpstream
       ELSE UNCHANGED <<upstream, idle, pending>>
  /\ UNCHANGED <<node, links, answer, faults>>

ProcGC == At("gc") /\ pc' = "gcEnd" /\ ExecuteGC

Poll ==
  /\ At("idle") /\ state # "Created" /\ "Shutdown" \notin flags /\ gcList # {}
  /\ pc' = "pollEnd" /\ ExecuteGC

\* ... and throws away what was queued meanwhile.
GcEnd ==
  /\ pc \in {"gcEnd", "pollEnd"} /\ ~MainPending
  /\ IF pc = "pollEnd" /\ "Shutdown" \in flags
       THEN Reset
       ELSE /\ inGc' = FALSE /\ gcList' = {} /\ pc' = "idle"
            /\ UNCHANGED <<node, upstream, idle, links, answer, pending, faults>>

\* The application disconnects the upstream.
Disconnect ==
  /\ At("idle") /\ upstream # NoEndpoint /\ Fault
  /\ Release(Held(upstream), {upstream}, {}, {}) /\ RemoveConnectionTimer(Held(upstream))
  /\ IF ep[upstream] = Empty THEN UNCHANGED pending ELSE OnDisconnect("main")
  /\ AddEndpointGcList({upstream})
  /\ UNCHANGED <<node, upstream, idle, inGc, pc, answer>>

Shutdown ==
  /\ At("idle") /\ state # "Created" /\ Fault
  /\ flags' = flags \cup {"Shutdown"}
  /\ UNCHANGED <<state, opTimer, channel, late, upstream, idle, links, gc, pc, answer, pending>>

-----------------------------------------------------------------------------
(* I/O goroutines: the answer to a registration.                           *)

UnusedEndpoint(e) ==
  ep[e] = Empty /\ e \notin gcList /\ e # upstream /\ \A c \in Conn : answer[c].e # e
FreeEndpoint(e) == UnusedEndpoint(e) /\ \A b \in Endpoint : b < e => ~UnusedEndpoint(b)

\* Endpoint.AddConnection: the first one is the control connection.
AddConnection(e, c) ==
  ep' = [ep EXCEPT ![e].ctrl = IF @ = NoConn THEN c ELSE @,
                   ![e].data = IF ep[e].ctrl = NoConn THEN @ ELSE @ \cup {c}]

OnActived(f) ==
  state' = "Running" /\ flags' = f \cup {"Actived"} /\ late' = (upstream = NoEndpoint)

\* The ping timer is set, when it comes before the next upstream operation.
OnUpstreamRegisterDone == opTimer' = IF After(Ping) < opTimer THEN After(Ping) ELSE opTimer

\* The handler of the answer on c goes on at another place.
Go(c, at) == answer' = [answer EXCEPT ![c].at = at]
Done(c) == answer' = [answer EXCEPT ![c] = NoAnswer]

\* The failure part of onRecvNodeRegisterRsp.
RegisterFail(c, e) ==
  /\ Release(ResetConns(c), ResetEndpoints(c), {}, {c})
  /\ pending' = pending
        \cup (IF state = "ConnectingUpstream" THEN {<<"io", "lost">>} ELSE {})
        \cup (IF "Actived" \in flags THEN {} ELSE {<<"io", "fatal">>})
  /\ AddEndpointGcList(ResetEndpoints(c) \cup ({e} \ {NoEndpoint}))
  /\ Done(c)

\* An answer can be handled.
Answerable(c) == conn[c].asked /\ answer[c] = NoAnswer

\* onRecvNodeRegisterRsp of a success: the endpoint is looked up, or created.
RegisterAccepted(c) ==
  /\ Answerable(c) /\ conn[c].status # "Connected"
  /\ \E e \in Endpoint :
       \/ e = upstream /\ answer' = [answer EXCEPT ![c] = [at |-> "add", e |-> e]]
       \/ /\ upstream = NoEndpoint /\ FreeEndpoint(e)
          /\ answer' = [answer EXCEPT ![c] = [at |-> "insert", e |-> e]]
  /\ UNCHANGED <<node, upstream, idle, links, gc, pc, pending, faults>>

\* The answer on a connection that has been added to an endpoint before.
DataAccepted(c) ==
  /\ Answerable(c) /\ conn[c].status = "Connected" /\ conn[c].binding # NoEndpoint
  /\ conn' = [conn EXCEPT ![c].asked = FALSE]
  /\ answer' = [answer EXCEPT ![c] = [at |-> "data", e |-> conn[c].binding]]
  /\ UNCHANGED <<node, upstream, idle, ep, orphan, connecting, gc, pc, pending, faults>>

\* The answer is an error, or not acceptable: then the endpoint that was found
\* is queued, too.
RegisterRefused(c) ==
  /\ Answerable(c)
  /\ IF conn[c].status = "Connected" /\ conn[c].binding = NoEndpoint THEN UNCHANGED faults ELSE Fault
  /\ \E e \in {conn[c].binding, upstream} : RegisterFail(c, e)
  /\ RemoveConnectionTimer(ResetConns(c))
  /\ UNCHANGED <<node, upstream, idle, inGc, pc>>

\* AddEndpoint of the new endpoint, which replaces what another answer may have
\* put there.  The node is up again at once when it has registered before.
AddEndpoint(c) ==
  /\ answer[c].at = "insert"
  /\ upstream' = answer[c].e /\ idle' = After(FirstIdle)
  /\ Go(c, IF state \in {"LostUpstream", "ConnectingUpstream"} /\ "UpstreamRegDone" \in flags
             THEN "activate" ELSE "add")
  /\ UNCHANGED <<node, links, gc, pc, pending, faults>>

Activate(c) ==
  /\ answer[c].at = "activate"
  /\ OnActived(flags) /\ Go(c, "add")
  /\ UNCHANGED <<opTimer, channel, upstream, idle, links, gc, pc, pending, faults>>

\* The connection is added to the endpoint, even when it has been closed.
AddToEndpoint(c) ==
  /\ answer[c].at = "add"
  /\ IF conn[c].status = "Handshaking"
       THEN /\ AddConnection(answer[c].e, c)
            /\ conn' = [conn EXCEPT ![c] = [status |-> "Connected", binding |-> answer[c].e, asked |-> FALSE]]
       ELSE AddConnection(answer[c].e, Dead) /\ conn' = [conn EXCEPT ![c] = Blank]
  /\ Go(c, "data")
  /\ UNCHANGED <<node, upstream, idle, orphan, connecting, gc, pc, pending, faults>>

\* acceptNodeRegistrationStepDataChannel that succeeds.  The data connection may
\* be closed before it is added, too.
DataChannel(c) ==
  /\ answer[c].at = "data" /\ Go(c, "check")
  /\ LET e == answer[c].e
     IN  \/ /\ ep[e].data \cap Conn # {} \/ (UnderWay /\ state # "Created")
            /\ UNCHANGED <<links, pending, faults>>
         \/ /\ ep[e].data \cap Conn = {} /\ ~UnderWay /\ CanDial
            /\ \E d \in Conn : Dial(d, e, "Connected") /\ AddConnection(e, d)
            /\ UNCHANGED <<orphan, pending, faults>>
         \/ /\ ep[e].data \cap Conn = {} /\ ~UnderWay /\ CanDial /\ Fault
            /\ AddConnection(e, Dead) /\ connecting' = NoEntry
            /\ OnDisconnect("io")
            /\ UNCHANGED <<conn, orphan>>
  /\ UNCHANGED <<node, upstream, idle, gc, pc>>

\* The data connection cannot be made: the registration fails.
DataChannelFails(c) ==
  /\ answer[c].at = "data" /\ ep[answer[c].e].data \cap Conn = {}
  /\ ~UnderWay \/ state = "Created"
  /\ Failing
  /\ RegisterFail(c, answer[c].e) /\ connecting' = NoEntry
  /\ UNCHANGED <<node, upstream, idle, inGc, pc>>

\* The success part of onRecvNodeRegisterRsp tests state and upstream ...
CheckUpstream(c) ==
  /\ answer[c].at = "check"
  /\ IF state = "ConnectingUpstream" /\ upstream # NoEndpoint THEN Go(c, "up") ELSE Done(c)
  /\ UNCHANGED <<node, upstream, idle, links, gc, pc, pending, faults>>

\* ... and brings the node up, whatever they are by now.
Up(c) ==
  /\ answer[c].at = "up" /\ Done(c)
  /\ OnUpstreamRegisterDone /\ OnActived(flags \cup {"UpstreamRegDone"})
  /\ UNCHANGED <<channel, upstream, idle, links, gc, pc, pending, faults>>

-----------------------------------------------------------------------------
(* I/O goroutines: closed connections.                                     *)

\* onIoStreamDisconnected.
ConnectionLost(c) ==
  /\ conn[c].status \in {"Handshaking", "Connected"} /\ Fault
  /\ ConnReset("io", c, {c})
  /\ UNCHANGED <<node, upstream, idle, inGc, pc, answer>>

\* The last, or another, of the reset connections is closed.
OrphanLost ==
  /\ orphan /\ orphan' \in BOOLEAN /\ Fault
  /\ OnDisconnect("io")
  /\ UNCHANGED <<node, upstream, idle, ep, conn, connecting, gc, pc, answer>>

\* Connections of an endpoint that is out of the routes and awaits no answer are
\* like those that were reset.
Forget(e) ==
  /\ ep[e] # Empty /\ e # upstream
  /\ \A c \in Conn : answer[c].e # e /\ ~(c \in Held(e) /\ conn[c].asked)
  /\ Release(Held(e), {e}, {}, {}) /\ RemoveConnectionTimer(Held(e))
  /\ UNCHANGED <<node, upstream, idle, gc, pc, answer, pending, faults>>

-----------------------------------------------------------------------------
\* The application calls Proc again and again.
Proceed ==
  \/ Connected \/ Proc \/ ProcShutdown \/ ProcUpstream \/ ProcGC \/ GcEnd
  \/ Removed \/ Lost("main") \/ FatalShutdown("main")

Application == NodeInit \/ InitReset \/ Start \/ Poll \/ Disconnect \/ Shutdown

Answered(c) == RegisterAccepted(c) \/ DataAccepted(c) \/ RegisterRefused(c)

\* An answer that has arrived is handled to its end.
Handle(c) ==
  \/ AddEndpoint(c) \/ Activate(c) \/ AddToEndpoint(c) \/ DataChannel(c) \/ DataChannelFails(c)
  \/ CheckUpstream(c) \/ Up(c)

Next ==
  \/ Proceed \/ Application \/ Lost("io") \/ FatalShutdown("io") \/ OrphanLost
  \/ \E c \in Conn : Answered(c) \/ Handle(c) \/ ConnectionLost(c)
  \/ \E e \in Endpoint : Forget(e)

Spec == Init /\ [][Next]_vars

FairSpec ==
  /\ Spec
  /\ WF_vars(Proceed) /\ WF_vars(Lost("io") \/ FatalShutdown("io"))
  /\ WF_vars(\E c \in Conn : Answered(c) \/ Handle(c))
  /\ WF_vars(\E e \in Endpoint : Forget(e))

-----------------------------------------------------------------------------
(* Properties. *)

\* A node that is Running has a timer that makes Proc look after its upstream,
\* and it has an upstream endpoint, with two exceptions: RemoveEndpoint is between
\* taking the endpoint away and changing the state, or the node went up when its
\* upstream had been taken away already (onRecvNodeRegisterRsp and AddEndpoint
\* test for it first and activate the node later, on another goroutine than the
\* garbage collection).
RunningHasUpstream ==
  state = "Running" =>
    /\ opTimer # Off
    /\ upstream # NoEndpoint \/ late \/ <<"main", "removed">> \in pending

\* The upstream has a control connection, or a control connection that was
\* closed before it was added and a data connection.
Attached ==
  /\ upstream # NoEndpoint
  /\ ep[upstream].ctrl \in Conn \/ (ep[upstream].ctrl = Dead /\ ep[upstream].data \cap Conn # {})

\* The outside interferes finitely often, and in the end a node that was started
\* and goes on calling Proc is attached to its upstream for good, or has been
\* shut down, whatever timeouts, late answers, lost garbage collections and
\* half-made endpoints came before.  The control connection is an open one,
\* unless the endpoint was given a closed one: AddConnection never replaces that,
\* GetCtrlConnection stays nil, and Proc goes on making data connections.
Reconnects ==
  channel /\ state \notin {"Created", "Inited"} ~> ~channel \/ []Attached

\* A shutdown, by the application or because the first registration failed, is
\* carried out by a later Proc.
ShutdownCompletes == "Shutdown" \in flags /\ state # "Created" ~> state = "Created"
=============================================================================
