--------------------------- MODULE EndpointBinding ---------------------------
(***************************************************************************)
(* The endpoint of one remote peer and the connections bound to it: how    *)
(* registrations add connections, how closed connections and resets take   *)
(* them away, and how the garbage collection of Proc takes an endpoint     *)
(* that is not available out of the routes.  (src/impl/atbus_endpoint.go,  *)
(* atbus_connection.go, atbus_node.go, and the accept steps of             *)
(* src/message_handle/atbus_message_handler.go.)                           *)
(*                                                                         *)
(* Three kinds of goroutine run at the same time: the readLoop of each     *)
(* connection, on which registration messages are handled; the goroutine   *)
(* that runs a connection's Disconnected callback; and the caller of Proc. *)
(* Only the mutex of an endpoint orders them.  The code is recursive       *)
(* (closing a connection resets its endpoint, which resets all its         *)
(* connections), so each goroutine has a stack of calls still to be made;  *)
(* one step is one call, up to the next critical section.                  *)
(***************************************************************************)
EXTENDS Naturals, Sequences, SequencesExt

CONSTANTS Conn,         \* connections
          Endpoint,     \* endpoint objects that can be created
          NoConn,       \* a nil connection
          NoEndpoint    \* a nil endpoint

ASSUME EndpointAssumption ==
  NoConn \notin Conn /\ NoEndpoint \notin Endpoint

VARIABLES conn,       \* per connection: status, binding, flags, whether a registration was received
          ep,         \* per endpoint: connections, Resetting flag, owner of the mutex, creation
          route,      \* the endpoint nodeRoute has for the peer
          gcList,     \* pendingEndpointGcList
          inGc,       \* NodeFlag_InGcEndpoints
          stack,      \* calls each goroutine still has to make
          stranded    \* history: endpoints that no collection will look at

vars == <<conn, ep, route, gcList, inGc, stack, stranded>>

Thread == {<<"main", NoConn>>} \cup ({"read", "close"} \X Conn)
Main == <<"main", NoConn>>
Nobody == <<"nobody", NoConn>>   \* owns a mutex that is free

Status == {"None", "Handshaking", "Connected", "Disconnected"}

Ops == {"ConnReset", "ConnResetEnd", "RemoveConnection", "EndpointReset", "Release", "Unbind",
        "AddEndpointGcList", "EndpointResetEnd", "MakeEndpoint", "Refuse", "AddEndpoint",
        "AddToKnown", "AddToNew", "AddData", "Bind", "Promote", "DataChannel", "GcCheck", "GcEnd"}

Call(op, c, e) == [op |-> op, c |-> c, e |-> e]

TypeOK ==
  /\ conn \in [Conn -> [status: Status, binding: Endpoint \cup {NoEndpoint},
                        resetting: BOOLEAN, server: BOOLEAN,
                        registered: BOOLEAN]]
  /\ ep \in [Endpoint -> [ctrl: Conn \cup {NoConn}, data: SUBSET Conn, resetting: BOOLEAN,
                          owner: Thread \cup {Nobody}, created: BOOLEAN]]
  /\ route \in Endpoint \cup {NoEndpoint} /\ gcList \subseteq Endpoint
  /\ inGc \in BOOLEAN /\ stranded \subseteq Endpoint
  /\ \A t \in Thread : \A i \in DOMAIN stack[t] :
       stack[t][i] \in [op: Ops, c: Conn \cup {NoConn}, e: Endpoint \cup {NoEndpoint}]

Init ==
  /\ conn = [c \in Conn |-> [status |-> "None", binding |-> NoEndpoint,
                             resetting |-> FALSE, server |-> FALSE, registered |-> FALSE]]
  /\ ep = [e \in Endpoint |-> [ctrl |-> NoConn, data |-> {}, resetting |-> FALSE,
                         owner |-> Nobody, created |-> FALSE]]
  /\ route = NoEndpoint /\ gcList = {} /\ inGc = FALSE
  /\ stack = [t \in Thread |-> << >>]
  /\ stranded = {}

-----------------------------------------------------------------------------
(* Calls. *)

\* Thread t makes a call of op next.
At(t, op) == stack[t] # << >> /\ Head(stack[t]).op = op
C(t) == Head(stack[t]).c
E(t) == Head(stack[t]).e

\* The call returns and these calls follow.
Then(t, calls) == stack' = [stack EXCEPT ![t] = calls \o Tail(@)]

\* An idle thread starts with these calls.
Start(t, calls) == stack[t] = << >> /\ stack' = [stack EXCEPT ![t] = calls]

\* The mutex of the endpoint is free.
Lockable(e) == ep[e].owner = Nobody

Held(e) == ep[e].data \cup ({ep[e].ctrl} \ {NoConn})

IsRunning(c) == conn[c].status \in {"Handshaking", "Connected"}

IsAvailable(e) == ep[e].ctrl # NoConn /\ \E c \in ep[e].data : IsRunning(c)

-----------------------------------------------------------------------------
(* Connection.Reset.                                                       *)

ConnReset(t) ==
  /\ At(t, "ConnReset")
  /\ LET c == C(t)
     IN  IF conn[c].resetting
           THEN Then(t, << >>) /\ UNCHANGED conn
           ELSE /\ conn' = [conn EXCEPT ![c].resetting = TRUE]
                /\ Then(t, (IF conn[c].binding = NoEndpoint THEN << >>
                            ELSE <<Call("RemoveConnection", c, conn[c].binding)>>)
                           \o <<Call("ConnResetEnd", c, NoEndpoint)>>)
  /\ UNCHANGED <<ep, route, gcList, inGc, stranded>>

\* All flags are cleared; neither the status nor the socket is touched.
ConnResetEnd(t) ==
  /\ At(t, "ConnResetEnd")
  /\ conn' = [conn EXCEPT ![C(t)].resetting = FALSE, ![C(t)].server = FALSE]
  /\ Then(t, << >>)
  /\ UNCHANGED <<ep, route, gcList, inGc, stranded>>

RemoveConnection(t) ==
  /\ At(t, "RemoveConnection") /\ Lockable(E(t))
  /\ LET c == C(t)
         e == E(t)
     IN  \/ /\ conn[c].binding # e \/ (~ep[e].resetting /\ c \notin Held(e))
            /\ Then(t, << >>) /\ UNCHANGED <<conn, ep>>
         \/ /\ conn[c].binding = e /\ ep[e].resetting
            /\ Then(t, <<Call("Unbind", c, NoEndpoint)>>) /\ UNCHANGED <<conn, ep>>
         \/ /\ conn[c].binding = e /\ ~ep[e].resetting /\ c = ep[e].ctrl
            /\ Then(t, <<Call("EndpointReset", NoConn, e)>>) /\ UNCHANGED <<conn, ep>>
         \/ /\ conn[c].binding = e /\ ~ep[e].resetting /\ c # ep[e].ctrl /\ c \in ep[e].data
            /\ conn' = [conn EXCEPT ![c].binding = NoEndpoint]
            /\ ep' = [ep EXCEPT ![e].data = @ \ {c}]
            /\ Then(t, IF ep[e].data = {c} THEN <<Call("EndpointReset", NoConn, e)>>
                                           ELSE << >>)
  /\ UNCHANGED <<route, gcList, inGc, stranded>>

-----------------------------------------------------------------------------
(* Endpoint.Reset.                                                         *)

\* Under the mutex the connections are taken away from the endpoint; they are
\* unbound and reset one by one after it is released.
EndpointReset(t) ==
  /\ At(t, "EndpointReset") /\ Lockable(E(t))
  /\ LET e == E(t)
         ctrl == IF ep[e].ctrl = NoConn THEN << >> ELSE <<ep[e].ctrl>>
     IN  IF ep[e].resetting
           THEN Then(t, << >>) /\ UNCHANGED ep
           ELSE /\ ep' = [ep EXCEPT ![e].resetting = TRUE, ![e].ctrl = NoConn, ![e].data = {}]
                /\ \E data \in SetToSeqs(ep[e].data) :
                     Then(t, [i \in DOMAIN (ctrl \o data) |->
                                Call("Release", (ctrl \o data)[i], e)]
                             \o <<Call("AddEndpointGcList", NoConn, e),
                                  Call("EndpointResetEnd", NoConn, e)>>)
  /\ UNCHANGED <<conn, route, gcList, inGc, stranded>>

\* Mutant of Release: the connection is reset without being unbound.
ReleaseKeepsBinding(t) ==
  /\ At(t, "Release") /\ Then(t, <<Call("ConnReset", C(t), NoEndpoint)>>)
  /\ UNCHANGED <<conn, ep, route, gcList, inGc, stranded>>

\* A connection that was taken away is unbound, outside the mutex, and reset.
Release(t) ==
  /\ At(t, "Release")
  /\ conn' = [conn EXCEPT ![C(t)].binding = NoEndpoint]
  /\ Then(t, <<Call("ConnReset", C(t), NoEndpoint)>>)
  /\ UNCHANGED <<ep, route, gcList, inGc, stranded>>

\* setConnectionBinding(conn, nil), outside the mutex.
Unbind(t) ==
  /\ At(t, "Unbind")
  /\ conn' = [conn EXCEPT ![C(t)].binding = NoEndpoint]
  /\ Then(t, << >>)
  /\ UNCHANGED <<ep, route, gcList, inGc, stranded>>

\* Mutant of AddEndpointGcList: an endpoint is queued only when nothing else is.
AddEndpointGcListOnce(t) ==
  /\ At(t, "AddEndpointGcList")
  /\ gcList' = IF inGc \/ gcList # {} THEN gcList ELSE {E(t)}
  /\ stranded' = IF inGc THEN stranded \cup {E(t)} ELSE stranded
  /\ Then(t, << >>)
  /\ UNCHANGED <<conn, ep, route, inGc>>

\* While the garbage collection runs nothing is queued.
AddEndpointGcList(t) ==
  /\ At(t, "AddEndpointGcList")
  /\ gcList' = IF inGc THEN gcList ELSE gcList \cup {E(t)}
  /\ stranded' = IF inGc THEN stranded \cup {E(t)} ELSE stranded
  /\ Then(t, << >>)
  /\ UNCHANGED <<conn, ep, route, inGc>>

EndpointResetEnd(t) ==
  /\ At(t, "EndpointResetEnd") /\ Lockable(E(t))
  /\ ep' = [ep EXCEPT ![E(t)].resetting = FALSE]
  /\ Then(t, << >>)
  /\ UNCHANGED <<conn, route, gcList, inGc, stranded>>

-----------------------------------------------------------------------------
(* Accepting a registration.                                               *)

\* A registration that is not accepted resets the connection.  The handler of
\* an answer, on a connection this node opened, then queues the endpoint that
\* was found, if any, and resets the connection once more.
Refuse(t) ==
  /\ At(t, "Refuse")
  /\ LET reset == Call("ConnReset", C(t), NoEndpoint)
         queue == Call("AddEndpointGcList", NoConn, E(t))
     IN  \/ Then(t, <<reset>>)
         \/ /\ ~conn[C(t)].server
            /\ Then(t, IF E(t) = NoEndpoint THEN <<reset, reset>> ELSE <<reset, queue, reset>>)
  /\ UNCHANGED <<conn, ep, route, gcList, inGc, stranded>>

\* acceptNodeRegistrationStepMakeEndpoint.  The endpoint is looked up without
\* a lock, so what it finds may be gone when the connection is added.  It may
\* belong to another process with the same bus ID, or an earlier life of this
\* one (ID_CONFLICT): then the connection is refused.
MakeEndpoint(t) ==
  /\ At(t, "MakeEndpoint")
  /\ LET c == C(t)
     IN  \/ /\ conn[c].status = "Connected"
            /\ Then(t, <<Call(IF conn[c].binding = NoEndpoint THEN "Refuse" ELSE "DataChannel",
                              c, conn[c].binding)>>)
            /\ UNCHANGED ep
         \/ /\ conn[c].status # "Connected" /\ route # NoEndpoint
            /\ \E op \in {"Refuse", "AddToKnown"} : Then(t, <<Call(op, c, route)>>)
            /\ UNCHANGED ep
         \/ /\ conn[c].status # "Connected" /\ route = NoEndpoint
            /\ \E e \in Endpoint :
                 /\ ~ep[e].created
                 /\ ep' = [ep EXCEPT ![e].created = TRUE]
                 /\ Then(t, <<Call("AddEndpoint", c, e), Call("AddToNew", c, e)>>)
  /\ UNCHANGED <<conn, route, gcList, inGc, stranded>>

\* AddEndpoint: insertChild replaces whatever another registration put there.
AddEndpoint(t) ==
  /\ At(t, "AddEndpoint")
  /\ route' = E(t)
  /\ Then(t, << >>)
  /\ UNCHANGED <<conn, ep, gcList, inGc, stranded>>

\* AddConnection takes the connection.
Accepts(c, e) == ~ep[e].resetting /\ conn[c].binding \in {e, NoEndpoint}

\* The last step of AddConnection, for a connection that is Handshaking.
PromoteCall(c, e) ==
  IF conn[c].status = "Handshaking" THEN <<Call("Promote", c, e)>> ELSE << >>

\* Endpoint.AddConnection, from its three callers, up to the test of the
\* binding.  The rest follows under the mutex of this endpoint, which keeps
\* neither another endpoint from the same connection nor the Disconnected
\* callback from its status.
AddConnection(t, op, onSuccess, onFailure) ==
  /\ At(t, op) /\ Lockable(E(t))
  /\ LET c == C(t)
         e == E(t)
         rest == IF conn[c].binding = e THEN PromoteCall(c, e) ELSE <<Call("Bind", c, e)>>
     IN  \/ /\ ~Accepts(c, e)
            /\ Then(t, onFailure)
            /\ stranded' = IF op = "AddToNew" THEN stranded \cup {e} ELSE stranded
            /\ UNCHANGED ep
         \/ /\ Accepts(c, e)
            /\ ep' = [ep EXCEPT ![e].owner = IF rest = << >> THEN Nobody ELSE t]
            /\ Then(t, rest \o onSuccess)
            /\ UNCHANGED stranded
  /\ UNCHANGED <<conn, route, gcList, inGc>>

\* The connection had no binding: it becomes the control connection, or a data
\* connection, and is bound, whatever its binding is by now.
Bind(t) ==
  /\ At(t, "Bind")
  /\ LET c == C(t)
         e == E(t)
     IN  /\ conn' = [conn EXCEPT ![c].binding = e]
         /\ ep' = [ep EXCEPT ![e].owner = IF PromoteCall(c, e) = << >> THEN Nobody ELSE @,
                             ![e].ctrl = IF @ = NoConn THEN c ELSE @,
                             ![e].data = IF ep[e].ctrl = NoConn THEN @ ELSE @ \cup {c}]
         /\ Then(t, PromoteCall(c, e))
  /\ UNCHANGED <<route, gcList, inGc, stranded>>

Promote(t) ==
  /\ At(t, "Promote")
  /\ conn' = [conn EXCEPT ![C(t)].status = "Connected"]
  /\ ep' = [ep EXCEPT ![E(t)].owner = Nobody]
  /\ Then(t, << >>)
  /\ UNCHANGED <<route, gcList, inGc, stranded>>

\* A connection that cannot be added to the peer's known endpoint is refused.
AddToKnown(t) ==
  AddConnection(t, "AddToKnown", <<Call("DataChannel", C(t), E(t))>>,
                <<Call("Refuse", C(t), E(t))>>)

\* The result for a new endpoint is not looked at.
AddToNew(t) ==
  AddConnection(t, "AddToNew", <<Call("DataChannel", C(t), E(t))>>,
                <<Call("DataChannel", C(t), E(t))>>)

\* ConnectWithEndpoint, once the connection is made.
AddData(t) ==
  AddConnection(t, "AddData", << >>, <<Call("AddEndpointGcList", NoConn, E(t))>>)

\* acceptNodeRegistrationStepDataChannel: nothing is done if there is a data
\* connection that is not closed, if the peer is expected to make one, or if a
\* connection to its address is still under way; else one is made, and if that
\* fails the endpoint is left to the garbage collection, and the handler of an
\* answer resets the connection.
DataChannel(t) ==
  /\ At(t, "DataChannel")
  /\ LET count == {c \in ep[E(t)].data : conn[c].status # "Disconnected"}
     IN  \/ /\ \/ count # {} \/ conn[C(t)].server
               \/ \E c \in Conn : conn[c].status = "Handshaking" /\ ~conn[c].server
            /\ Then(t, << >>) /\ UNCHANGED conn
         \/ /\ count = {}
            /\ \/ Then(t, <<Call("AddEndpointGcList", NoConn, E(t))>>)
               \/ /\ ~conn[C(t)].server
                  /\ Then(t, <<Call("AddEndpointGcList", NoConn, E(t)),
                               Call("ConnReset", C(t), NoEndpoint)>>)
            /\ UNCHANGED conn
         \/ /\ count = {}
            /\ \E c \in Conn : /\ conn[c].status = "None"
                               /\ conn' = [conn EXCEPT ![c].status = "Handshaking"]
                               /\ Then(t, <<Call("AddData", c, E(t))>>)
  /\ UNCHANGED <<ep, route, gcList, inGc, stranded>>

-----------------------------------------------------------------------------
(* What happens to the node.                                               *)

\* onIoStreamAccepted.
Accepted(c) ==
  /\ conn[c].status = "None"
  /\ conn' = [conn EXCEPT ![c].status = "Handshaking", ![c].server = TRUE]
  /\ UNCHANGED <<ep, route, gcList, inGc, stack, stranded>>

\* A registration arrives on a connection, once: OnNewConnection of the client
\* sends one request, which is answered once.  The writeLoop may have torn the
\* connection down while the readLoop still has frames to deliver.
RegisterReceived(c) ==
  /\ conn[c].status # "None"
  /\ ~conn[c].registered
  /\ conn' = [conn EXCEPT ![c].registered = TRUE]
  /\ Start(<<"read", c>>, <<Call("MakeEndpoint", c, NoEndpoint)>>)
  /\ UNCHANGED <<ep, route, gcList, inGc, stranded>>

\* onIoStreamDisconnected, once for a connection.
Disconnected(c) ==
  /\ IsRunning(c)
  /\ conn' = [conn EXCEPT ![c].status = "Disconnected"]
  /\ Start(<<"close", c>>, <<Call("ConnReset", c, NoEndpoint)>>)
  /\ UNCHANGED <<ep, route, gcList, inGc, stranded>>

\* Node.Disconnect of the peer.
Disconnect ==
  /\ route # NoEndpoint
  /\ route' = NoEndpoint
  /\ Start(Main, <<Call("EndpointReset", NoConn, route)>>)
  /\ UNCHANGED <<conn, ep, gcList, inGc, stranded>>

\* executeGC: the list is taken, each endpoint checked, and what was queued
\* meanwhile is thrown away.
ExecuteGC ==
  /\ gcList # {}
  /\ inGc' = TRUE /\ gcList' = {}
  /\ \E checked \in SetToSeqs(gcList) :
       Start(Main, [i \in DOMAIN checked |-> Call("GcCheck", NoConn, checked[i])]
                   \o <<Call("GcEnd", NoConn, NoEndpoint)>>)
  /\ UNCHANGED <<conn, ep, route, stranded>>

\* RemoveEndpoint of an endpoint that is not available.  It is not reset.
GcCheck(t) ==
  /\ At(t, "GcCheck")
  /\ route' = IF ~IsAvailable(E(t)) /\ route = E(t) THEN NoEndpoint ELSE route
  /\ Then(t, << >>)
  /\ UNCHANGED <<conn, ep, gcList, inGc, stranded>>

GcEnd(t) ==
  /\ At(t, "GcEnd")
  /\ gcList' = {} /\ stranded' = stranded \cup gcList
  /\ inGc' = FALSE
  /\ Then(t, << >>)
  /\ UNCHANGED <<conn, ep, route>>

-----------------------------------------------------------------------------
\* The calls of a goroutine.
Run(t) ==
  \/ ConnReset(t) \/ ConnResetEnd(t) \/ RemoveConnection(t)
  \/ EndpointReset(t) \/ Release(t) \/ Unbind(t) \/ AddEndpointGcList(t) \/ EndpointResetEnd(t)
  \/ MakeEndpoint(t) \/ Refuse(t) \/ AddEndpoint(t) \/ AddToKnown(t) \/ AddToNew(t) \/ AddData(t)
  \/ Bind(t) \/ Promote(t) \/ DataChannel(t) \/ GcCheck(t) \/ GcEnd(t)

Next ==
  \/ \E c \in Conn : Accepted(c) \/ RegisterReceived(c) \/ Disconnected(c)
  \/ Disconnect \/ ExecuteGC
  \/ \E t \in Thread : Run(t)

Spec == Init /\ [][Next]_vars

-----------------------------------------------------------------------------
(* Properties. *)

\* A goroutine still has a call to make for the connection or the endpoint.
Busy(x) == \E t \in Thread : \E i \in DOMAIN stack[t] : x \in {stack[t][i].c, stack[t][i].e}

\* A connection that no goroutine is at work on and that is bound to an endpoint
\* is held by it: it is not left with an endpoint that has let go of it and
\* would never reset it (RemoveConnection, Endpoint.Reset).
BoundIsHeld ==
  \A c \in Conn : conn[c].binding # NoEndpoint /\ ~Busy(c) => c \in Held(conn[c].binding)

\* An endpoint in the routes without any connection will be looked at by the
\* garbage collection, but for the two ways in which the code loses it: it was
\* queued while a collection ran, or a new endpoint did not get its connection
\* (AddEndpointGcList, executeGC, acceptNodeRegistrationStepMakeEndpoint).
RouteIsTended ==
  route # NoEndpoint =>
    \/ Held(route) # {} \/ route \in gcList \/ route \in stranded \/ Busy(route)

\* A connection whose Disconnected callback has run stays Disconnected: its
\* status is read and changed under the endpoint's mutex, which the comment in
\* AddConnection says makes the order of the two safe.  The code violates it:
\* onIoStreamDisconnected changes the status without that mutex.
ClosedStaysClosed ==
  [][\A c \in Conn : conn[c].status = "Disconnected" => conn'[c].status = "Disconnected"]_vars

=============================================================================
