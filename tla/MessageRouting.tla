--------------------------- MODULE MessageRouting ---------------------------
(***************************************************************************)
(* One message of an application on its way through the bus: SendData and  *)
(* SendCustomCommand of the sender, the choice of the next hop, forwarding *)
(* with its second try through the upstream, the hop limit, and the        *)
(* responses that report a failure or were asked for.                      *)
(* (src/impl/atbus_node.go and the data messages of                        *)
(* src/message_handle/atbus_message_handler.go.)                           *)
(*                                                                         *)
(* Every node decides from what it knows: its endpoints, the connections   *)
(* they have, and its own copy of the topology, which may be out of date   *)
(* or lack peers.  Links change while messages are under way.  What        *)
(* GetRelation answers for a topology is the subject of TopologyRelation;  *)
(* here it is read off the forest.                                         *)
(***************************************************************************)
EXTENDS Naturals, FiniteSets

CONSTANTS Node,
          NoNode,       \* no upstream, or a nil endpoint
          Unknown,      \* of a peer that is not in a topology registry
          Upstream,     \* the upstream each node is configured with
          Pairs,        \* the pairs of nodes that can have connections
          Views,        \* forests the registry of each node can hold
          TTL,          \* hop limit
          MaxChanges    \* bound: changes of links, and refused pushes

ASSUME RoutingAssumption ==
  /\ NoNode \notin Node /\ Unknown \notin Node \cup {NoNode}
  /\ Upstream \in [Node -> Node \cup {NoNode}]
  /\ Pairs \subseteq SUBSET Node /\ \A p \in Pairs : Cardinality(p) = 2
  /\ \A n \in Node : Upstream[n] # NoNode => {n, Upstream[n]} \in Pairs
  /\ Views \in [Node -> SUBSET [Node -> Node \cup {NoNode, Unknown}]]
  /\ TTL \in Nat /\ MaxChanges \in Nat

VARIABLES view,       \* the forest in each node's registry
          link,       \* per pair: no endpoints, endpoints without connections,
                      \* a control connection, or data connections, too
          net,        \* messages under way
          selfQueue,  \* messages of a node to itself
          request,    \* what the application sent, or NoRequest
          outcome,    \* history: what became of it
          changes     \* links changed and pushes refused so far

vars == <<view, link, net, selfQueue, request, outcome, changes>>

NoRequest ==
  [type |-> "none", from |-> NoNode, to |-> NoNode, require |-> FALSE, noUpstream |-> FALSE]

Codes == {"success", "ttl", "failed"}

Message ==
  [type: {"req", "rsp", "command", "commandRsp"}, at: Node, src: Node, from: Node, to: Node,
   hops: 0..(TTL + 2), last: Node, require: BOOLEAN, code: Codes]

TypeOK ==
  /\ \A n \in Node : view[n] \in Views[n]
  /\ link \in [Pairs -> {"none", "empty", "ctrl", "data"}]
  /\ net \subseteq Message /\ selfQueue \subseteq Message
  /\ request \in [type: {"none", "req", "command"}, from: Node \cup {NoNode},
                  to: Node \cup {NoNode}, require: BOOLEAN, noUpstream: BOOLEAN]
  /\ outcome \in [refused: BOOLEAN, received: SUBSET Node, times: Nat, failed: BOOLEAN,
                  lost: BOOLEAN, answers: SUBSET (Codes \X Node), commandAt: SUBSET Node]
  /\ changes \in 0..MaxChanges

Init ==
  /\ view \in {v \in [Node -> UNION {Views[n] : n \in Node}] : \A n \in Node : v[n] \in Views[n]}
  /\ link = [p \in Pairs |-> "data"]
  /\ net = {} /\ selfQueue = {}
  /\ request = NoRequest
  /\ outcome = [refused |-> FALSE, received |-> {}, times |-> 0, failed |-> FALSE,
                lost |-> FALSE, answers |-> {}, commandAt |-> {}]
  /\ changes = 0

-----------------------------------------------------------------------------
(* What a node knows.                                                      *)

State(n, p) == IF {n, p} \in Pairs THEN link[{n, p}] ELSE "none"

\* GetEndpoint: n has an endpoint for p, and the upstream endpoint of n.
HasEndpoint(n, p) == State(n, p) # "none"
UpstreamEndpoint(n) ==
  IF Upstream[n] # NoNode /\ HasEndpoint(n, Upstream[n]) THEN Upstream[n] ELSE NoNode

\* GetDataConnection without and with fallback, and GetCtrlConnection.
HasConnection(n, p, kind) ==
  IF kind = "data" THEN State(n, p) = "data" ELSE State(n, p) \in {"ctrl", "data"}

\* The peers above x in forest f, nearest first: the d-th one.
Ancestor(f, x, d) ==
  LET up[i \in 0..d] ==
        IF i = 0 THEN x ELSE LET below == up[i - 1] IN IF below \in Node THEN f[below] ELSE NoNode
  IN  up[d]
Depths == 1..Cardinality(Node)
Above(f, x) == {Ancestor(f, x, d) : d \in Depths} \cap Node

\* GetTopologyRelation, of what n knows: of a peer not in its registry, only
\* whether it has an endpoint.
Relation(n, x) ==
  LET f == view[n]
  IN  CASE n = x -> "Self"
        [] n # x /\ Unknown \in {f[n], f[x]} ->
             IF x = UpstreamEndpoint(n) THEN "Upstream"
             ELSE IF HasEndpoint(n, x) THEN "OtherUpstreamPeer" ELSE "Invalid"
        [] n # x /\ Unknown \notin {f[n], f[x]} ->
             IF n \in Above(f, x) THEN "Downstream"
             ELSE IF x \in Above(f, n) THEN "Upstream"
             ELSE IF f[n] # NoNode /\ f[n] = f[x] THEN "SameUpstreamPeer"
             ELSE "OtherUpstreamPeer"

\* Mutant of StepBelow: the target is taken for the next hop.
StepBelowTarget(n, x) == x

\* The peer below n on the way down to x.
StepBelow(n, x) == CHOOSE p \in {x} \cup Above(view[n], x) : view[n][p] = n

\* The nearest peer above x that n has an endpoint for, other than its own
\* upstream and than those in black.
Neighbours(n, x, black) ==
  {d \in Depths : LET p == Ancestor(view[n], x, d)
                  IN  p \in Node /\ p \notin black /\ HasEndpoint(n, p) /\ p # Upstream[n]}
NearestNeighbour(n, x, black) ==
  LET D == Neighbours(n, x, black)
  IN  Ancestor(view[n], x, CHOOSE d \in D : \A e \in D : d <= e)

\* The endpoint GetPeerChannel chooses at n for a message to x, or NoNode.
GetPeerChannel(n, x, black, noUpstream) ==
  LET allowed(p) == IF p \in black THEN NoNode ELSE p
      relation == Relation(n, x)
  IN  IF HasEndpoint(n, x) THEN allowed(x)
      ELSE IF relation = "Downstream"
        THEN IF HasEndpoint(n, StepBelow(n, x)) THEN allowed(StepBelow(n, x)) ELSE NoNode
      ELSE IF relation = "Self" THEN NoNode
      ELSE IF relation = "OtherUpstreamPeer" /\ Neighbours(n, x, black) # {}
        THEN NearestNeighbour(n, x, black)
      ELSE IF noUpstream \/ UpstreamEndpoint(n) = NoNode THEN NoNode
      ELSE allowed(UpstreamEndpoint(n))

\* The message can be sent to x from n on a connection of this kind.
CanSend(n, x, black, kind, noUpstream) ==
  LET p == GetPeerChannel(n, x, black, noUpstream)
  IN  p # NoNode /\ HasConnection(n, p, kind)

-----------------------------------------------------------------------------
(* Sending.                                                                *)

Unsent == request = NoRequest

\* SendDataWithOptions to another node.  An error is returned to the caller.
SendData(n, x, require, noUpstream) ==
  /\ Unsent /\ n # x
  /\ request' = [type |-> "req", from |-> n, to |-> x, require |-> require,
                 noUpstream |-> noUpstream]
  /\ IF CanSend(n, x, {}, "data", noUpstream)
       THEN /\ net' = {[type |-> "req", at |-> GetPeerChannel(n, x, {}, noUpstream), src |-> n,
                        from |-> n, to |-> x, hops |-> 1, last |-> n, require |-> require,
                        code |-> "success"]}
            /\ UNCHANGED outcome
       ELSE net' = net /\ outcome' = [outcome EXCEPT !.refused = TRUE]
  /\ UNCHANGED <<view, link, selfQueue, changes>>

\* SendCustomCommandWithOptions: the message does not say whom it is for.
SendCustomCommand(n, x, noUpstream) ==
  /\ Unsent /\ n # x
  /\ request' = [type |-> "command", from |-> n, to |-> x, require |-> TRUE,
                 noUpstream |-> noUpstream]
  /\ IF CanSend(n, x, {}, "data", noUpstream)
       THEN /\ LET p == GetPeerChannel(n, x, {}, noUpstream)
               IN  net' = {[type |-> "command", at |-> p, src |-> n, from |-> n, to |-> p,
                            hops |-> 0, last |-> n, require |-> TRUE, code |-> "success"]}
            /\ UNCHANGED outcome
       ELSE net' = net /\ outcome' = [outcome EXCEPT !.refused = TRUE]
  /\ UNCHANGED <<view, link, selfQueue, changes>>

\* sendMessage to the node itself: the message is queued, and dispatched at once
\* unless a callback is running.
SendToSelf(n, type, require) ==
  /\ Unsent
  /\ request' = [type |-> type, from |-> n, to |-> n, require |-> require, noUpstream |-> FALSE]
  /\ selfQueue' = {[type |-> type, at |-> n, src |-> n, from |-> n, to |-> n,
                    hops |-> 1, last |-> n, require |-> require, code |-> "success"]}
  /\ UNCHANGED <<view, link, net, outcome, changes>>

\* What the application learns: data, a command to execute, and responses.
OnReceiveData(n) == [outcome EXCEPT !.received = @ \cup {n}, !.times = @ + 1]
OnReceiveForwardResponse(code, by) == [outcome EXCEPT !.answers = @ \cup {<<code, by>>}]
OnCustomCommandRequest(n) == [outcome EXCEPT !.commandAt = @ \cup {n}]
OnCustomCommandResponse(by) == [outcome EXCEPT !.answers = @ \cup {<<"success", by>>}]

\* dispatchAllSelfMessages.  Data responses on the queue are thrown away; the
\* response to a command is queued and dispatched in the same call.
DispatchSelf(m) ==
  /\ m \in selfQueue /\ selfQueue' = selfQueue \ {m}
  /\ outcome' =
       CASE m.type = "req" ->
              [OnReceiveData(m.at) EXCEPT
                 !.answers = IF m.require THEN @ \cup {<<"success", m.at>>} ELSE @]
         [] m.type = "command" ->
              [OnCustomCommandRequest(m.at) EXCEPT !.answers = @ \cup {<<"success", m.at>>}]
         [] m.type = "rsp" -> outcome
  /\ UNCHANGED <<view, link, net, request, changes>>

-----------------------------------------------------------------------------
(* Receiving.                                                              *)

\* SendTransferResponse of node n about request m: on the control connection to
\* whatever is the next hop, or on the queue when n is the sender itself.
Response(n, m, code) ==
  [type |-> "rsp", at |-> GetPeerChannel(n, m.from, {}, FALSE), src |-> n,
   from |-> m.to, to |-> m.from, hops |-> IF m.last = n THEN m.hops ELSE m.hops + 1,
   last |-> n, require |-> m.require, code |-> code]

SendTransferResponse(n, m, code) ==
  IF n # m.from /\ CanSend(n, m.from, {}, "ctrl", FALSE) THEN {Response(n, m, code)} ELSE {}

\* Mutant of ReceiveRequest: the handler goes on to forward what it has received.
ReceiveRequestFallsThrough(m) ==
  /\ m \in net /\ m.type = "req" /\ m.to = m.at
  /\ outcome' = OnReceiveData(m.at)
  /\ net' = (net \ {m}) \cup SendTransferResponse(m.at, m, "failed")
  /\ UNCHANGED <<view, link, selfQueue, request, changes>>

\* The request has arrived.
ReceiveRequest(m) ==
  /\ m \in net /\ m.type = "req" /\ m.to = m.at
  /\ outcome' = OnReceiveData(m.at)
  /\ net' = (net \ {m}) \cup (IF m.require THEN SendTransferResponse(m.at, m, "success") ELSE {})
  /\ UNCHANGED <<view, link, selfQueue, request, changes>>

\* It has gone too far.
RequestTTL(m) ==
  /\ m \in net /\ m.type = "req" /\ m.to # m.at /\ m.hops >= TTL
  /\ outcome' = [outcome EXCEPT !.failed = TRUE]
  /\ net' = (net \ {m}) \cup SendTransferResponse(m.at, m, "ttl")
  /\ selfQueue' = IF m.at = m.from THEN selfQueue \cup {[Response(m.at, m, "ttl") EXCEPT !.at = m.at]}
                                  ELSE selfQueue
  /\ UNCHANGED <<view, link, request, changes>>

\* Mutant of Forwarded: the node is not appended to the router list.
ForwardedUnrouted(n, m, p) == [m EXCEPT !.at = p, !.src = n, !.last = n]

\* The request leaves n for p.
Forwarded(n, m, p) ==
  [m EXCEPT !.at = p, !.src = n, !.hops = @ + 1, !.last = n]

\* The request with n in its router list.
Passed(n, m) == [m EXCEPT !.hops = @ + 1, !.last = n]

\* The second try, through the upstream: when there was no endpoint, or one of
\* a neighbour, to which the request could not be sent.
Retry(n, m) ==
  LET ep == GetPeerChannel(n, m.to, {m.src}, FALSE)
      up == UpstreamEndpoint(n)
  IN  /\ ep # NoNode => Relation(n, ep) \in {"OtherUpstreamPeer", "SameUpstreamPeer"}
      /\ up \notin {NoNode, ep, m.src}
      /\ HasConnection(n, up, "any")

\* The hops a request for another node can take next, one at most, at the first
\* try and at the second one.
FirstHop(n, m) ==
  IF CanSend(n, m.to, {m.src}, "any", FALSE) THEN {GetPeerChannel(n, m.to, {m.src}, FALSE)} ELSE {}
SecondHop(n, m) == IF Retry(n, m) THEN {UpstreamEndpoint(n)} ELSE {}

\* The connection that was chosen does not take the message: its write queue is
\* full.
PushRefused == changes < MaxChanges /\ changes' = changes + 1

\* The request goes to p.  A hop that forwards a request with REQUIRE_RSP reports
\* success of its own.
ForwardTo(m, p) ==
  /\ net' = (net \ {m}) \cup {Forwarded(m.at, m, p)}
              \cup (IF m.require THEN SendTransferResponse(m.at, Passed(m.at, m), "success") ELSE {})
  /\ UNCHANGED <<outcome, selfQueue>>

\* The request is given up, and its sender is told so.
GiveUp(m) ==
  LET rsp == [Response(m.at, Passed(m.at, m), "failed") EXCEPT !.at = m.at]
  IN  /\ outcome' = [outcome EXCEPT !.failed = TRUE]
      /\ net' = (net \ {m}) \cup SendTransferResponse(m.at, Passed(m.at, m), "failed")
      /\ selfQueue' = IF m.at = m.from THEN selfQueue \cup {rsp} ELSE selfQueue

\* onRecvDataTransferReq of a request for another node.
ForwardRequest(m) ==
  /\ m \in net /\ m.type = "req" /\ m.to # m.at /\ m.hops < TTL
  /\ LET first == FirstHop(m.at, m)
         second == SecondHop(m.at, m)
     IN  \/ UNCHANGED changes /\ \E p \in first : ForwardTo(m, p)
         \/ first = {} /\ UNCHANGED changes /\ \E p \in second : ForwardTo(m, p)
         \/ first # {} /\ PushRefused /\ \E p \in second : ForwardTo(m, p)
         \/ first = {} /\ second = {} /\ UNCHANGED changes /\ GiveUp(m)
         \/ PushRefused /\ first \cup second # {} /\ GiveUp(m)
  /\ UNCHANGED <<view, link, request>>

\* onRecvDataTransferRsp: a response is forwarded without a hop limit.
ReceiveResponse(m) ==
  /\ m \in net /\ m.type = "rsp"
  /\ \/ /\ m.to = m.at
        /\ outcome' = OnReceiveForwardResponse(m.code, m.last)
        /\ net' = net \ {m}
     \/ /\ m.to # m.at
        /\ LET p == GetPeerChannel(m.at, m.to, {m.src}, FALSE)
           IN  net' = (net \ {m}) \cup
                        (IF CanSend(m.at, m.to, {m.src}, "any", FALSE)
                           THEN {[m EXCEPT !.at = p, !.src = m.at]} ELSE {})
        /\ UNCHANGED outcome
  /\ UNCHANGED <<view, link, selfQueue, request, changes>>

\* onRecvCustomCommandReq, whoever receives it.  The answer goes back on the
\* connection the command came on.
SendCustomCommandResponse(m) ==
  IF HasConnection(m.at, m.src, "any")
    THEN {[m EXCEPT !.type = "commandRsp", !.at = m.src, !.src = m.at, !.from = m.at,
                    !.to = m.src, !.last = m.at]}
    ELSE {}

ReceiveCommand(m) ==
  /\ m \in net /\ m.type = "command"
  /\ outcome' = OnCustomCommandRequest(m.at)
  /\ net' = (net \ {m}) \cup SendCustomCommandResponse(m)
  /\ UNCHANGED <<view, link, selfQueue, request, changes>>

\* onRecvCustomCommandRsp.
ReceiveCommandResponse(m) ==
  /\ m \in net /\ m.type = "commandRsp"
  /\ outcome' = OnCustomCommandResponse(m.from)
  /\ net' = net \ {m}
  /\ UNCHANGED <<view, link, selfQueue, request, changes>>

-----------------------------------------------------------------------------
\* Connections and endpoints come and go, and messages are lost with the
\* connection they were on.  (Of no interest once nothing is under way.)
LinkChanges(p, s) ==
  /\ changes < MaxChanges /\ link[p] # s /\ (Unsent \/ net # {})
  /\ link' = [link EXCEPT ![p] = s] /\ changes' = changes + 1
  /\ \E lost \in SUBSET {m \in net : {m.src, m.at} = p} :
       /\ net' = net \ lost
       /\ outcome' = [outcome EXCEPT !.lost = @ \/ \E m \in lost : m.type \in {"req", "command"}]
  /\ UNCHANGED <<view, selfQueue, request>>

HandleRequest(m) ==
  ReceiveRequest(m) \/ RequestTTL(m) \/ ForwardRequest(m) \/ ReceiveCommand(m)

HandleResponse(m) == ReceiveResponse(m) \/ ReceiveCommandResponse(m)

Send(n) ==
  \/ \E x \in Node, require \in BOOLEAN, noUpstream \in BOOLEAN :
       SendData(n, x, require, noUpstream) \/ SendCustomCommand(n, x, noUpstream)
  \/ \E type \in {"req", "command"}, require \in BOOLEAN : SendToSelf(n, type, require)

Next ==
  \/ \E n \in Node : Send(n)
  \/ \E m \in net : HandleRequest(m) \/ HandleResponse(m)
  \/ \E m \in selfQueue : DispatchSelf(m)
  \/ \E p \in Pairs, s \in {"none", "empty", "ctrl", "data"} : LinkChanges(p, s)

\* A message on a connection is read and handled, whatever else is under way,
\* and the application calls Proc.
Spec ==
  /\ Init /\ [][Next]_vars
  /\ WF_vars(\E m \in net : HandleRequest(m))
  /\ WF_vars(\E m \in net : HandleResponse(m))
  /\ WF_vars(\E m \in selfQueue : DispatchSelf(m))

-----------------------------------------------------------------------------
(* Properties.                                                             *)

Errors == {"ttl", "failed"} \X Node

\* However often a request is forwarded, tried again through the upstream and
\* sent round by nodes that disagree about the topology, the application at its
\* target, and no other, gets it, once at most; and when the sender is told of
\* a failure the request neither was nor will be delivered.
FailureIsReal ==
  /\ outcome.times <= 1 /\ outcome.received \subseteq {request.to}
  /\ outcome.answers \cap Errors # {} =>
       outcome.times = 0 /\ ~\E m \in net \cup selfQueue : m.type = "req"

\* Whatever the nodes believe, a request does not go round for ever: it is
\* refused to its sender, received, given up at some node, executed (a command),
\* or lost with a connection.
RequestEnds ==
  ~Unsent ~> \/ outcome.times = 1 \/ outcome.commandAt # {}
             \/ outcome.refused \/ outcome.failed \/ outcome.lost

\* Every node knows where the nodes below it are, and of the others knows the
\* truth or nothing.
Informed ==
  \A n, x \in Node :
    \/ view[n][x] = Upstream[x]
    \/ view[n][x] = Unknown /\ n \notin {x} \cup Above(Upstream, x)

\* While the nodes are so informed, no link fails and no push is refused, data
\* that may go through the upstream is received, and the answer of its target
\* comes back when it was required.
Delivered ==
  (Informed /\ request.type = "req" /\ ~request.noUpstream)
    ~> \/ changes > 0
       \/ /\ outcome.times = 1
          /\ request.require => <<"success", request.to>> \in outcome.answers
=============================================================================
