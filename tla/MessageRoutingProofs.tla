------------------------ MODULE MessageRoutingProofs ------------------------
(***************************************************************************)
(* What MessageRouting promises for every set of nodes, every topology the *)
(* nodes believe in, every hop limit and any number of link changes: a     *)
(* message stays well formed, and a failure that is reported is real.      *)
(*                                                                         *)
(* FailureIsReal looks at the end of a request's way only.  Inv says what  *)
(* holds on the way: there is one copy of the request at most, and while   *)
(* there is one it was neither received nor given up; an error response    *)
(* exists only for a request that was given up.                            *)
(***************************************************************************)
EXTENDS MessageRouting, WellFoundedInduction, TLAPS

\* Nothing has happened before the application sends.
Quiet == Unsent => net = {} /\ selfQueue = {}

\* There is one copy of the request at most, on the network or on the queue of
\* its sender, and it still says whom it is for.
OneCopy ==
  /\ \A a, b \in net : a.type = "req" /\ b.type = "req" => a = b
  /\ \A a, b \in selfQueue : a.type = "req" /\ b.type = "req" => a = b
  /\ \A a \in net, b \in selfQueue : ~(a.type = "req" /\ b.type = "req")
  /\ \A m \in net \cup selfQueue : m.type = "req" => m.to = request.to /\ m.hops <= TTL + 1
  /\ \A m \in selfQueue : m.type # "commandRsp" /\ (m.type = "req" => m.at = request.to)

\* A request that is under way was neither received nor given up, and only one
\* that was given up has error responses.
Truthful ==
  /\ \A m \in net \cup selfQueue : m.type = "req" => outcome.times = 0 /\ ~outcome.failed
  /\ \A m \in net : m.type = "rsp" /\ m.code # "success" => outcome.failed
  /\ \A a \in outcome.answers : a[1] # "success" => outcome.failed
  /\ outcome.failed => outcome.times = 0
  /\ outcome.times <= 1 /\ outcome.received \subseteq {request.to}
  /\ Unsent => outcome.received = {} /\ outcome.times = 0 /\ ~outcome.failed

Inv == TypeOK /\ Quiet /\ OneCopy /\ Truthful

-----------------------------------------------------------------------------
(* The next hop is a node.                                                 *)

\* A nonempty set of natural numbers has a least element.
LEMMA LeastNumber ==
  ASSUME NEW T \in SUBSET Nat, T # {}
  PROVE  \E x \in T : \A y \in T : x <= y
<1> DEFINE Less == {ss \in Nat \X Nat : ss[1] < ss[2]}
<1>1. IsWellFoundedOn(Less, Nat)
  BY NatLessThanWellFounded DEF OpToRel
<1> HIDE DEF Less
<1>2. PICK x \in T : \A y \in T : ~(<<y, x>> \in Less)
  BY <1>1, WFMin
<1>3. \A y \in T : ~(y < x)
  BY <1>2 DEF Less
<1> QED BY <1>3

\* Endpoints are for nodes only.
LEMMA EndpointIsNode ==
  ASSUME NEW n, NEW p, HasEndpoint(n, p)
  PROVE  p \in Node
<1>1. {n, p} \in Pairs
  BY DEF HasEndpoint, State
<1> QED BY <1>1, RoutingAssumption

\* The nearest neighbour above the target is a node other than those excluded.
LEMMA NearestIsNode ==
  ASSUME NEW n, NEW x, NEW black, Neighbours(n, x, black) # {}
  PROVE  NearestNeighbour(n, x, black) \in Node \ black
<1> DEFINE D == Neighbours(n, x, black)
<1>1. D \in SUBSET Nat
  BY DEF Neighbours, Depths
<1>2. \E d \in D : \A e \in D : d <= e
  BY <1>1, LeastNumber
<1>3. (CHOOSE d \in D : \A e \in D : d <= e) \in D
  BY <1>2
<1>4. NearestNeighbour(n, x, black) = Ancestor(view[n], x, CHOOSE d \in D : \A e \in D : d <= e)
  BY DEF NearestNeighbour
<1>5. \A d \in D : Ancestor(view[n], x, d) \in Node \ black
  BY DEF Neighbours
<1> QED BY <1>3, <1>4, <1>5

\* GetPeerChannel answers with a node or with no endpoint, whatever the node
\* believes about the topology.
LEMMA ChannelIsNode ==
  ASSUME NEW n, NEW x, NEW black, NEW noUpstream
  PROVE  GetPeerChannel(n, x, black, noUpstream) \in Node \cup {NoNode}
<1>1. HasEndpoint(n, x) => x \in Node
  BY EndpointIsNode
<1>2. HasEndpoint(n, StepBelow(n, x)) => StepBelow(n, x) \in Node
  BY EndpointIsNode
<1>3. UpstreamEndpoint(n) \in Node \cup {NoNode}
  BY EndpointIsNode DEF UpstreamEndpoint
<1>4. Neighbours(n, x, black) # {} => NearestNeighbour(n, x, black) \in Node
  BY NearestIsNode
<1> QED BY <1>1, <1>2, <1>3, <1>4 DEF GetPeerChannel

\* What can be sent goes to a node.
LEMMA CanSendToNode ==
  ASSUME NEW n, NEW x, NEW black, NEW kind, NEW noUpstream, CanSend(n, x, black, kind, noUpstream)
  PROVE  GetPeerChannel(n, x, black, noUpstream) \in Node
BY ChannelIsNode DEF CanSend

\* The next hop of a request is a node.
LEMMA NextHopIsNode ==
  ASSUME NEW n, NEW m, NEW p \in FirstHop(n, m) \cup SecondHop(n, m)
  PROVE  p \in Node
<1>1. CanSend(n, m.to, {m.src}, "any", FALSE) => GetPeerChannel(n, m.to, {m.src}, FALSE) \in Node
  BY CanSendToNode
<1>2. Retry(n, m) => UpstreamEndpoint(n) \in Node
  BY EndpointIsNode DEF Retry, UpstreamEndpoint
<1> QED BY <1>1, <1>2 DEF FirstHop, SecondHop

-----------------------------------------------------------------------------
(* The messages a handler sends are well formed.                           *)

\* A response that a node puts on its own queue.
SelfResponse(n, m, code) == [Response(n, m, code) EXCEPT !.at = n]

\* A response to a request.
LEMMA ResponseTyped ==
  ASSUME NEW n \in Node, NEW m \in Message, NEW code \in Codes, m.hops <= TTL + 1
  PROVE  /\ \A r \in SendTransferResponse(n, m, code) :
              r \in Message /\ r.type = "rsp" /\ r.code = code
         /\ SelfResponse(n, m, code) \in Message /\ SelfResponse(n, m, code).type = "rsp"
<1> DEFINE h == IF m.last = n THEN m.hops ELSE m.hops + 1
<1>1. h \in 0..(TTL + 2)
  BY RoutingAssumption DEF Message
<1>2. /\ m.from \in Node /\ m.to \in Node /\ m.require \in BOOLEAN
  BY DEF Message
<1>3. ASSUME n # m.from, CanSend(n, m.from, {}, "ctrl", FALSE)
      PROVE  Response(n, m, code) \in Message
  <2>1. GetPeerChannel(n, m.from, {}, FALSE) \in Node
    BY <1>3, CanSendToNode
  <2> QED BY <1>1, <1>2, <2>1 DEF Response, Message
<1>4. Response(n, m, code).type = "rsp" /\ Response(n, m, code).code = code
  BY DEF Response
<1>5. SelfResponse(n, m, code) \in Message
  BY <1>1, <1>2 DEF SelfResponse, Response, Message
<1>6. SelfResponse(n, m, code).type = "rsp"
  BY DEF SelfResponse, Response
<1> QED BY <1>3, <1>4, <1>5, <1>6 DEF SendTransferResponse

-----------------------------------------------------------------------------
(* The inductive step, one step per action.                                *)

\* Nothing was sent at first.
LEMMA InvInit == Init => Inv
<1> SUFFICES ASSUME Init PROVE Inv
  OBVIOUS
<1>1. TypeOK
  <2>1. \A n \in Node : view[n] \in Views[n]
    BY DEF Init
  <2>2. /\ request \in [type: {"none", "req", "command"}, from: Node \cup {NoNode},
                  to: Node \cup {NoNode}, require: BOOLEAN, noUpstream: BOOLEAN]
    BY DEF Init, NoRequest
  <2>3. outcome \in [refused: BOOLEAN, received: SUBSET Node, times: Nat, failed: BOOLEAN,
                  lost: BOOLEAN, answers: SUBSET (Codes \X Node), commandAt: SUBSET Node]
    BY DEF Init
  <2> QED BY <2>1, <2>2, <2>3, RoutingAssumption DEF Init, TypeOK
<1>2. Quiet /\ OneCopy /\ Truthful
  BY DEF Init, Quiet, OneCopy, Truthful
<1> QED BY <1>1, <1>2 DEF Inv

\* What a first message leaves behind: it is the only one, and nothing has
\* become of the request yet.
FirstMessage ==
  /\ request \in [type: {"req", "command"}, from: Node, to: Node, require: BOOLEAN,
                  noUpstream: BOOLEAN]
  /\ net \subseteq Message /\ selfQueue \subseteq Message
  /\ net = {} \/ selfQueue = {}
  /\ \A a, b \in net : a = b
  /\ \A a, b \in selfQueue : a = b
  /\ \A m \in net \cup selfQueue :
       /\ m.type \in {"req", "command"}
       /\ m.type = "req" => m.to = request.to /\ m.hops = 1
  /\ \A m \in selfQueue : m.at = request.to
  /\ outcome \in [refused: BOOLEAN, received: SUBSET Node, times: Nat, failed: BOOLEAN,
                  lost: BOOLEAN, answers: SUBSET (Codes \X Node), commandAt: SUBSET Node]
  /\ outcome.received = {} /\ outcome.times = 0 /\ ~outcome.failed
  /\ \A a \in outcome.answers : a[1] = "success"

\* Nothing has happened to a request that was not sent.
LEMMA UnsentOutcome ==
  ASSUME Inv, Unsent
  PROVE  /\ net = {} /\ selfQueue = {}
         /\ outcome \in [refused: BOOLEAN, received: SUBSET Node, times: Nat, failed: BOOLEAN,
                         lost: BOOLEAN, answers: SUBSET (Codes \X Node), commandAt: SUBSET Node]
         /\ outcome.received = {} /\ outcome.times = 0 /\ ~outcome.failed
         /\ \A a \in outcome.answers : a[1] = "success"
BY DEF Inv, Quiet, Truthful, TypeOK

\* A first message satisfies the invariant.
LEMMA FirstMessageInv ==
  ASSUME Inv, FirstMessage', UNCHANGED <<view, link, changes>>
  PROVE  Inv'
<1>1. TypeOK'
  BY DEF Inv, FirstMessage, TypeOK
<1>2. ~Unsent'
  BY DEF FirstMessage, Unsent, NoRequest
<1>3. Quiet'
  BY <1>2 DEF Quiet
<1>4. OneCopy'
  BY RoutingAssumption DEF FirstMessage, OneCopy
<1>5. Truthful'
  BY <1>2 DEF FirstMessage, Truthful
<1> QED BY <1>1, <1>3, <1>4, <1>5 DEF Inv

\* SendData and SendCustomCommand to another node and SendToSelf start from
\* nothing, and send one message at most.
LEMMA SendKeeps ==
  ASSUME Inv, NEW n \in Node, Send(n)
  PROVE  Inv'
<1>1. Unsent
  BY DEF Send, SendData, SendCustomCommand, SendToSelf
<1> USE RoutingAssumption
<1>2. ASSUME NEW x \in Node, NEW require \in BOOLEAN, NEW noUpstream \in BOOLEAN,
             SendData(n, x, require, noUpstream)
      PROVE  Inv'
  <2>1. request' \in [type: {"req", "command"}, from: Node, to: Node, require: BOOLEAN,
                      noUpstream: BOOLEAN] /\ request'.to = x
        /\ UNCHANGED <<view, link, changes>> /\ selfQueue' = {}
    BY <1>1, <1>2, UnsentOutcome DEF SendData
  <2>2. CASE CanSend(n, x, {}, "data", noUpstream)
    <3> DEFINE p == GetPeerChannel(n, x, {}, noUpstream)
               m == [type |-> "req", at |-> p, src |-> n, from |-> n, to |-> x, hops |-> 1,
                     last |-> n, require |-> require, code |-> "success"]
    <3>1. p \in Node
      BY <2>2, CanSendToNode
    <3>2. net' = {m} /\ outcome' = outcome
      BY <1>2, <2>2 DEF SendData
    <3> HIDE DEF p
    <3>3. m \in Message /\ m.type = "req" /\ m.to = x /\ m.hops = 1
      BY <3>1 DEF Message, Codes
    <3> HIDE DEF m
    <3>4. FirstMessage'
      BY <1>1, <2>1, <3>2, <3>3, UnsentOutcome DEF FirstMessage
    <3> QED BY <2>1, <3>4, FirstMessageInv
  <2>3. CASE ~CanSend(n, x, {}, "data", noUpstream)
    <3>1. net' = {} /\ outcome' = [outcome EXCEPT !.refused = TRUE]
      BY <1>1, <1>2, <2>3, UnsentOutcome DEF SendData
    <3>2. FirstMessage'
      BY <1>1, <2>1, <3>1, UnsentOutcome DEF FirstMessage
    <3> QED BY <2>1, <3>2, FirstMessageInv
  <2> QED BY <2>2, <2>3
<1>3. ASSUME NEW x \in Node, NEW noUpstream \in BOOLEAN, SendCustomCommand(n, x, noUpstream)
      PROVE  Inv'
  <2>1. request' \in [type: {"req", "command"}, from: Node, to: Node, require: BOOLEAN,
                      noUpstream: BOOLEAN] /\ request'.to = x
        /\ UNCHANGED <<view, link, changes>> /\ selfQueue' = {}
    BY <1>1, <1>3, UnsentOutcome DEF SendCustomCommand
  <2>2. CASE CanSend(n, x, {}, "data", noUpstream)
    <3> DEFINE p == GetPeerChannel(n, x, {}, noUpstream)
               m == [type |-> "command", at |-> p, src |-> n, from |-> n, to |-> p,
                     hops |-> 0, last |-> n, require |-> TRUE, code |-> "success"]
    <3>1. p \in Node
      BY <2>2, CanSendToNode
    <3>2. net' = {m} /\ outcome' = outcome
      BY <1>3, <2>2 DEF SendCustomCommand
    <3> HIDE DEF p
    <3>3. m \in Message /\ m.type = "command"
      BY <3>1 DEF Message, Codes
    <3> HIDE DEF m
    <3>4. FirstMessage'
      BY <1>1, <2>1, <3>2, <3>3, UnsentOutcome DEF FirstMessage
    <3> QED BY <2>1, <3>4, FirstMessageInv
  <2>3. CASE ~CanSend(n, x, {}, "data", noUpstream)
    <3>1. net' = {} /\ outcome' = [outcome EXCEPT !.refused = TRUE]
      BY <1>1, <1>3, <2>3, UnsentOutcome DEF SendCustomCommand
    <3>2. FirstMessage'
      BY <1>1, <2>1, <3>1, UnsentOutcome DEF FirstMessage
    <3> QED BY <2>1, <3>2, FirstMessageInv
  <2> QED BY <2>2, <2>3
<1>4. ASSUME NEW type \in {"req", "command"}, NEW require \in BOOLEAN, SendToSelf(n, type, require)
      PROVE  Inv'
  <2> DEFINE m == [type |-> type, at |-> n, src |-> n, from |-> n, to |-> n,
                   hops |-> 1, last |-> n, require |-> require, code |-> "success"]
  <2>1. m \in Message /\ m.type = type /\ m.to = n /\ m.hops = 1 /\ m.at = n
    BY DEF Message, Codes
  <2>2. selfQueue' = {m} /\ net' = {} /\ outcome' = outcome /\ UNCHANGED <<view, link, changes>>
    BY <1>1, <1>4, UnsentOutcome DEF SendToSelf
  <2>3. request' \in [type: {"req", "command"}, from: Node, to: Node, require: BOOLEAN,
                      noUpstream: BOOLEAN] /\ request'.to = n
    BY <1>4 DEF SendToSelf
  <2> HIDE DEF m
  <2>4. FirstMessage'
    BY <1>1, <2>1, <2>2, <2>3, UnsentOutcome DEF FirstMessage
  <2> QED BY <2>2, <2>4, FirstMessageInv
<1> QED BY <1>2, <1>3, <1>4 DEF Send

\* A request that goes on is well formed.
LEMMA PassedTyped ==
  ASSUME NEW m \in Message, NEW n \in Node, NEW p \in Node, m.hops < TTL
  PROVE  /\ Passed(n, m) \in Message /\ Passed(n, m).hops <= TTL + 1
         /\ Passed(n, m).type = m.type
         /\ Forwarded(n, m, p) \in Message /\ Forwarded(n, m, p).hops <= TTL + 1
         /\ Forwarded(n, m, p).type = m.type /\ Forwarded(n, m, p).to = m.to
<1>1. TTL \in Nat /\ m.hops \in Nat
  BY RoutingAssumption DEF Message
<1>2. m.hops + 1 \in 0..(TTL + 2) /\ m.hops + 1 <= TTL + 1
  BY <1>1
<1>3. Passed(n, m) \in Message /\ Passed(n, m).hops <= TTL + 1 /\ Passed(n, m).type = m.type
  BY <1>2 DEF Passed, Message
<1>4. /\ Forwarded(n, m, p) \in Message /\ Forwarded(n, m, p).hops <= TTL + 1
      /\ Forwarded(n, m, p).type = m.type /\ Forwarded(n, m, p).to = m.to
  BY <1>2 DEF Forwarded, Message
<1> QED BY <1>3, <1>4

\* The way of a request ends: it is received or given up, and only responses
\* take its place.
LEMMA RequestEndsInv ==
  ASSUME Inv, NEW m \in net, m.type = "req",
         NEW S \in SUBSET Message, NEW Q \in SUBSET Message,
         \A r \in S \cup Q : r.type = "rsp",
         net' = (net \ {m}) \cup S, selfQueue' = selfQueue \cup Q,
         outcome' \in [refused: BOOLEAN, received: SUBSET Node, times: Nat, failed: BOOLEAN,
                       lost: BOOLEAN, answers: SUBSET (Codes \X Node), commandAt: SUBSET Node],
         outcome'.answers = outcome.answers,
         \/ /\ outcome'.times = outcome.times + 1 /\ outcome'.failed = outcome.failed
            /\ outcome'.received = outcome.received \cup {request.to}
            /\ \A r \in S : r.code = "success"
         \/ /\ outcome'.failed /\ outcome'.times = outcome.times
            /\ outcome'.received = outcome.received,
         UNCHANGED <<view, link, request>>, changes' \in 0..MaxChanges
  PROVE  Inv'
<1>0. TypeOK /\ Quiet /\ OneCopy /\ Truthful
  BY DEF Inv
<1>1. TypeOK'
  BY <1>0 DEF TypeOK
<1>2. ~Unsent /\ ~Unsent'
  BY <1>0 DEF Quiet, Unsent
<1>3. Quiet'
  BY <1>2 DEF Quiet
<1>4. /\ \A a \in net' : a.type = "req" => FALSE
      /\ \A a \in selfQueue' : a.type = "req" => FALSE
  BY <1>0 DEF OneCopy
<1>5. OneCopy'
  BY <1>0, <1>4 DEF OneCopy
<1>6. outcome.times = 0 /\ ~outcome.failed
  BY <1>0 DEF Truthful
<1>7. Truthful'
  <2>1. \A r \in net : ~(r.type = "rsp" /\ r.code # "success")
    BY <1>0, <1>6 DEF Truthful
  <2>2. \A a \in outcome.answers : a[1] = "success"
    BY <1>0, <1>6 DEF Truthful
  <2> QED BY <1>0, <1>2, <1>4, <1>6, <2>1, <2>2 DEF Truthful, TypeOK
<1> QED BY <1>1, <1>3, <1>5, <1>7 DEF Inv

\* onRecvDataTransferReq: the request has arrived, has gone too far, is forwarded
\* or cannot be.
LEMMA RequestKeeps ==
  ASSUME Inv, NEW m \in net, ReceiveRequest(m) \/ RequestTTL(m) \/ ForwardRequest(m)
  PROVE  Inv'
<1> TTL \in Nat
  BY RoutingAssumption
<1>0. TypeOK /\ Quiet /\ OneCopy /\ Truthful
  BY DEF Inv
<1>1. m.type = "req"
  BY DEF ReceiveRequest, RequestTTL, ForwardRequest
<1>2. /\ m \in Message /\ m.at \in Node /\ m.hops \in Nat /\ m.hops <= TTL + 1
      /\ m.to = request.to
  BY <1>0, <1>1 DEF TypeOK, OneCopy, Message
<1>3. outcome \in [refused: BOOLEAN, received: SUBSET Node, times: Nat, failed: BOOLEAN,
                   lost: BOOLEAN, answers: SUBSET (Codes \X Node), commandAt: SUBSET Node]
  BY <1>0 DEF TypeOK
<1> DEFINE n == m.at
           sent == Passed(n, m)
<1>4. ASSUME m.hops < TTL
      PROVE  sent \in Message /\ sent.hops <= TTL + 1
  BY <1>2, <1>4, PassedTyped
<1>5. "success" \in Codes /\ "ttl" \in Codes /\ "failed" \in Codes
  BY DEF Codes
<1>a. changes' \in 0..MaxChanges
  <2>1. changes \in 0..MaxChanges /\ MaxChanges \in Nat
    BY <1>0, RoutingAssumption DEF TypeOK
  <2>2. UNCHANGED changes \/ PushRefused
    BY DEF ReceiveRequest, RequestTTL, ForwardRequest
  <2> QED BY <2>1, <2>2 DEF PushRefused
<1>6. CASE ReceiveRequest(m)
  <2> DEFINE S == IF m.require THEN SendTransferResponse(m.at, m, "success") ELSE {}
             Q == {}
  <2>1. S \in SUBSET Message /\ \A r \in S : r.type = "rsp" /\ r.code = "success"
    <3>1. \A r \in SendTransferResponse(m.at, m, "success") :
            r \in Message /\ r.type = "rsp" /\ r.code = "success"
      BY <1>2, <1>5, ResponseTyped
    <3> QED BY <3>1
  <2>2. outcome' = OnReceiveData(m.at) /\ m.at = request.to
    BY <1>2, <1>6 DEF ReceiveRequest
  <2>3. /\ outcome' \in [refused: BOOLEAN, received: SUBSET Node, times: Nat, failed: BOOLEAN,
                         lost: BOOLEAN, answers: SUBSET (Codes \X Node), commandAt: SUBSET Node]
        /\ outcome'.times = outcome.times + 1 /\ outcome'.failed = outcome.failed
        /\ outcome'.received = outcome.received \cup {request.to}
        /\ outcome'.answers = outcome.answers
    <3>1. outcome' = [outcome EXCEPT !.received = outcome.received \cup {request.to},
                                     !.times = outcome.times + 1]
      BY <2>2 DEF OnReceiveData
    <3>2. request.to \in Node
      BY <1>2, <2>2
    <3>3. outcome.received \cup {request.to} \in SUBSET Node /\ outcome.times + 1 \in Nat
      BY <1>3, <3>2
    <3> QED BY <1>3, <3>1, <3>3
  <2>4. /\ net' = (net \ {m}) \cup S /\ selfQueue' = selfQueue \cup Q
        /\ UNCHANGED <<view, link, request>>
    BY <1>6 DEF ReceiveRequest
  <2>5. Q \in SUBSET Message /\ \A r \in Q : r.type = "rsp"
    OBVIOUS
  <2>6. \A r \in S \cup Q : r.type = "rsp"
    BY <2>1, <2>5
  <2> HIDE DEF S, Q
  <2>7. /\ outcome'.times = outcome.times + 1 /\ outcome'.failed = outcome.failed
        /\ outcome'.received = outcome.received \cup {request.to}
        /\ \A r \in S : r.code = "success"
    BY <2>1, <2>3
  <2>8. Inv /\ m \in net /\ S \in SUBSET Message
    BY <2>1
  <2> HIDE DEF n, sent
  <2> QED BY ONLY <1>1, <1>a, <2>3, <2>4, <2>5, <2>6, <2>7, <2>8, RequestEndsInv
<1>7. [outcome EXCEPT !.failed = TRUE] \in
        [refused: BOOLEAN, received: SUBSET Node, times: Nat, failed: BOOLEAN,
         lost: BOOLEAN, answers: SUBSET (Codes \X Node), commandAt: SUBSET Node]
  BY <1>3
<1>8. CASE RequestTTL(m)
  <2> DEFINE S == SendTransferResponse(m.at, m, "ttl")
             Q == IF m.at = m.from THEN {SelfResponse(m.at, m, "ttl")} ELSE {}
  <2>1. /\ S \in SUBSET Message /\ \A r \in S : r.type = "rsp"
        /\ Q \in SUBSET Message /\ \A r \in Q : r.type = "rsp"
    BY <1>2, <1>5, ResponseTyped
  <2>2. /\ net' = (net \ {m}) \cup S /\ selfQueue' = selfQueue \cup Q
        /\ outcome' = [outcome EXCEPT !.failed = TRUE]
        /\ UNCHANGED <<view, link, request>>
    BY <1>8 DEF RequestTTL, SelfResponse
  <2>3. /\ outcome'.failed /\ outcome'.times = outcome.times
        /\ outcome'.received = outcome.received /\ outcome'.answers = outcome.answers
    BY <1>3, <2>2
  <2> HIDE DEF S, Q
  <2> QED BY <1>1, <1>7, <1>a, <2>1, <2>2, <2>3, RequestEndsInv
<1>9. CASE ForwardRequest(m) /\ GiveUp(m)
  <2> DEFINE S == SendTransferResponse(n, sent, "failed")
             Q == IF n = m.from THEN {SelfResponse(n, sent, "failed")} ELSE {}
  <2>1. m.hops < TTL /\ UNCHANGED <<view, link, request>>
    BY <1>9 DEF ForwardRequest
  <2>2. /\ net' = (net \ {m}) \cup S /\ selfQueue' = selfQueue \cup Q
        /\ outcome' = [outcome EXCEPT !.failed = TRUE]
    BY <1>9 DEF GiveUp, SelfResponse
  <2>3. /\ S \in SUBSET Message /\ \A r \in S : r.type = "rsp"
        /\ Q \in SUBSET Message /\ \A r \in Q : r.type = "rsp"
    <3> HIDE DEF sent
    <3> QED BY <1>2, <1>4, <1>5, <2>1, ResponseTyped
  <2>4. /\ outcome'.failed /\ outcome'.times = outcome.times
        /\ outcome'.received = outcome.received /\ outcome'.answers = outcome.answers
    BY <1>3, <2>2
  <2>5. changes' \in 0..MaxChanges
    BY <1>9, <1>a
  <2> HIDE DEF S, Q
  <2> QED BY <1>1, <1>7, <2>1, <2>2, <2>3, <2>4, <2>5, RequestEndsInv
<1>10. CASE /\ ForwardRequest(m)
            /\ \E p \in FirstHop(n, m) \cup SecondHop(n, m) : ForwardTo(m, p)
  <2> DEFINE S == IF m.require THEN SendTransferResponse(n, sent, "success") ELSE {}
  <2>1. m.hops < TTL
    BY <1>10 DEF ForwardRequest
  <2>2. PICK p \in FirstHop(n, m) \cup SecondHop(n, m) :
          /\ net' = (net \ {m}) \cup {Forwarded(n, m, p)} \cup S
          /\ UNCHANGED <<outcome, selfQueue>>
    BY <1>10 DEF ForwardTo
  <2> DEFINE f == Forwarded(n, m, p)
  <2>3. p \in Node
    BY NextHopIsNode
  <2>4. f \in Message /\ f.type = "req" /\ f.to = m.to /\ f.hops <= TTL + 1
    BY <1>1, <1>2, <2>1, <2>3, PassedTyped
  <2>5. S \in SUBSET Message /\ \A r \in S : r.type = "rsp" /\ r.code = "success"
    <3> HIDE DEF sent
    <3> QED BY <1>2, <1>4, <1>5, <2>1, ResponseTyped
  <2>6. UNCHANGED <<view, link, request>> /\ changes' \in 0..MaxChanges
    BY <1>10, <1>a DEF ForwardRequest
  <2> HIDE DEF f, S
  <2>7. TypeOK'
    BY <1>0, <2>2, <2>4, <2>5, <2>6 DEF TypeOK, f
  <2>8. ~Unsent /\ ~Unsent'
    BY <1>0, <2>6 DEF Quiet, Unsent
  <2>9. \A a \in net' : a.type = "req" => a = f
    BY <1>0, <1>1, <2>2, <2>4, <2>5 DEF OneCopy, f
  <2>10. OneCopy'
    BY <1>0, <1>1, <1>2, <2>2, <2>4, <2>6, <2>9 DEF OneCopy
  <2>11. Truthful'
    BY <1>0, <1>1, <2>2, <2>4, <2>5, <2>6, <2>8, <2>9 DEF Truthful, f
  <2> QED BY <2>7, <2>8, <2>10, <2>11 DEF Inv, Quiet
<1>11. ForwardRequest(m) => \/ GiveUp(m)
                            \/ \E p \in FirstHop(n, m) \cup SecondHop(n, m) : ForwardTo(m, p)
  BY DEF ForwardRequest
<1> QED BY <1>6, <1>8, <1>9, <1>10, <1>11

\* A step that sends no request and reports no error but those that were given
\* up keeps the invariant: messages are handled, lost or take the place of
\* others, and the application learns of them.
LEMMA OthersInv ==
  ASSUME Inv, ~Unsent, net' \subseteq Message, selfQueue' \subseteq selfQueue,
         \A a \in net' : \/ a \in net
                         \/ a.type = "rsp" /\ (a.code # "success" => outcome.failed)
                         \/ a.type = "commandRsp",
         outcome' \in [refused: BOOLEAN, received: SUBSET Node, times: Nat, failed: BOOLEAN,
                       lost: BOOLEAN, answers: SUBSET (Codes \X Node), commandAt: SUBSET Node],
         outcome'.failed = outcome.failed,
         \A a \in outcome'.answers : a[1] # "success" => outcome.failed,
         \/ outcome'.times = outcome.times /\ outcome'.received = outcome.received
         \/ /\ outcome.times = 0 /\ outcome'.times = 1 /\ ~outcome.failed
            /\ outcome'.received = outcome.received \cup {request.to}
            /\ \A a \in net' \cup selfQueue' : a.type # "req",
         link' \in [Pairs -> {"none", "empty", "ctrl", "data"}], changes' \in 0..MaxChanges,
         UNCHANGED <<view, request>>
  PROVE  Inv'
<1>0. TypeOK /\ Quiet /\ OneCopy /\ Truthful
  BY DEF Inv
<1>1. TypeOK'
  BY <1>0 DEF TypeOK
<1>2. ~Unsent'
  BY DEF Unsent
<1>3. \A a \in net' : a.type = "req" => a \in net
  OBVIOUS
<1>4. OneCopy'
  BY <1>0, <1>3 DEF OneCopy
<1>5. Truthful'
  BY <1>0, <1>2, <1>3 DEF Truthful
<1> QED BY <1>1, <1>2, <1>4, <1>5 DEF Inv, Quiet

\* onRecvDataTransferRsp, onRecvCustomCommandReq and onRecvCustomCommandRsp.
LEMMA AnswerKeeps ==
  ASSUME Inv, NEW m \in net, ReceiveResponse(m) \/ ReceiveCommand(m) \/ ReceiveCommandResponse(m)
  PROVE  Inv'
<1>0. TypeOK /\ Quiet /\ OneCopy /\ Truthful
  BY DEF Inv
<1>1. ~Unsent
  BY <1>0 DEF Quiet
<1> DEFINE Outcome == [refused: BOOLEAN, received: SUBSET Node, times: Nat, failed: BOOLEAN,
                       lost: BOOLEAN, answers: SUBSET (Codes \X Node), commandAt: SUBSET Node]
<1>2. /\ m \in Message /\ m.at \in Node /\ m.src \in Node /\ m.last \in Node /\ m.from \in Node
      /\ m.code \in Codes
  BY <1>0 DEF TypeOK, Message
<1>3. outcome \in Outcome /\ net \subseteq Message
  BY <1>0 DEF TypeOK
<1>4. /\ UNCHANGED <<view, link, selfQueue, request, changes>>
      /\ link' \in [Pairs -> {"none", "empty", "ctrl", "data"}] /\ changes' \in 0..MaxChanges
  BY <1>0 DEF ReceiveResponse, ReceiveCommand, ReceiveCommandResponse, TypeOK
<1>5. \A a \in outcome.answers : a[1] # "success" => outcome.failed
  BY <1>0 DEF Truthful
<1>6. ASSUME NEW code \in Codes, NEW by \in Node, code # "success" => outcome.failed,
             outcome' = [outcome EXCEPT !.answers = outcome.answers \cup {<<code, by>>}],
             net' \subseteq net
      PROVE  Inv'
  <2>1. outcome.answers \cup {<<code, by>>} \in SUBSET (Codes \X Node)
    BY <1>3
  <2>2. /\ outcome' \in Outcome /\ outcome'.answers = outcome.answers \cup {<<code, by>>}
        /\ outcome'.failed = outcome.failed /\ outcome'.times = outcome.times
        /\ outcome'.received = outcome.received
    BY <1>3, <1>6, <2>1
  <2>3. \A a \in outcome'.answers : a[1] # "success" => outcome.failed
    BY <1>5, <1>6, <2>2
  <2> QED BY <1>1, <1>3, <1>4, <1>6, <2>2, <2>3, OthersInv
<1>7. CASE ReceiveResponse(m) /\ m.to = m.at
  <2>1. outcome' = [outcome EXCEPT !.answers = outcome.answers \cup {<<m.code, m.last>>}]
        /\ net' \subseteq net
    BY <1>7 DEF ReceiveResponse, OnReceiveForwardResponse
  <2>2. m.code # "success" => outcome.failed
    BY <1>0, <1>7 DEF ReceiveResponse, Truthful
  <2> QED BY <1>2, <1>6, <2>1, <2>2
<1>8. CASE ReceiveCommandResponse(m)
  <2>1. outcome' = [outcome EXCEPT !.answers = outcome.answers \cup {<<"success", m.from>>}]
        /\ net' \subseteq net
    BY <1>8 DEF ReceiveCommandResponse, OnCustomCommandResponse
  <2> QED BY <1>2, <1>6, <2>1 DEF Codes
<1>9. CASE ReceiveResponse(m) /\ m.to # m.at
  <2> DEFINE p == GetPeerChannel(m.at, m.to, {m.src}, FALSE)
             S == IF CanSend(m.at, m.to, {m.src}, "any", FALSE)
                    THEN {[m EXCEPT !.at = p, !.src = m.at]} ELSE {}
  <2>1. net' = (net \ {m}) \cup S /\ outcome' = outcome /\ m.type = "rsp"
    BY <1>9 DEF ReceiveResponse
  <2>2. CanSend(m.at, m.to, {m.src}, "any", FALSE) => p \in Node
    BY CanSendToNode
  <2> HIDE DEF p
  <2>3. \A a \in S : a \in Message /\ a.type = "rsp" /\ a.code = m.code
    BY <1>2, <2>1, <2>2 DEF Message
  <2> HIDE DEF S
  <2>4. m.code # "success" => outcome.failed
    BY <1>0, <2>1 DEF Truthful
  <2> QED BY <1>1, <1>3, <1>4, <1>5, <2>1, <2>3, <2>4, OthersInv
<1>10. CASE ReceiveCommand(m)
  <2> DEFINE S == SendCustomCommandResponse(m)
  <2>1. net' = (net \ {m}) \cup S
        /\ outcome' = [outcome EXCEPT !.commandAt = outcome.commandAt \cup {m.at}]
    BY <1>10 DEF ReceiveCommand, OnCustomCommandRequest
  <2>2. \A a \in S : a \in Message /\ a.type = "commandRsp"
    BY <1>2, ZenonT(60) DEF SendCustomCommandResponse, Message
  <2>3. outcome.commandAt \cup {m.at} \in SUBSET Node
    BY <1>2, <1>3
  <2>4. /\ outcome' \in Outcome /\ outcome'.answers = outcome.answers
        /\ outcome'.failed = outcome.failed /\ outcome'.times = outcome.times
        /\ outcome'.received = outcome.received
    BY <1>3, <2>1, <2>3
  <2> HIDE DEF S
  <2> QED BY <1>1, <1>3, <1>4, <1>5, <2>1, <2>2, <2>4, OthersInv
<1> QED BY <1>7, <1>8, <1>9, <1>10

\* dispatchAllSelfMessages.
LEMMA DispatchKeeps ==
  ASSUME Inv, NEW m \in selfQueue, DispatchSelf(m)
  PROVE  Inv'
<1>0. TypeOK /\ Quiet /\ OneCopy /\ Truthful
  BY DEF Inv
<1>1. ~Unsent
  BY <1>0 DEF Quiet
<1> DEFINE Outcome == [refused: BOOLEAN, received: SUBSET Node, times: Nat, failed: BOOLEAN,
                       lost: BOOLEAN, answers: SUBSET (Codes \X Node), commandAt: SUBSET Node]
<1>2. m.at \in Node /\ m.type \in {"req", "rsp", "command"} /\ m.require \in BOOLEAN
  BY <1>0 DEF TypeOK, OneCopy, Message
<1>3. outcome \in Outcome /\ net \subseteq Message
  BY <1>0 DEF TypeOK
<1>4. /\ UNCHANGED <<view, link, net, request, changes>> /\ selfQueue' = selfQueue \ {m}
      /\ link' \in [Pairs -> {"none", "empty", "ctrl", "data"}] /\ changes' \in 0..MaxChanges
  BY <1>0 DEF DispatchSelf, TypeOK
<1>5. \A a \in outcome.answers : a[1] # "success" => outcome.failed
  BY <1>0 DEF Truthful
<1>6. /\ outcome.answers \cup {<<"success", m.at>>} \in SUBSET (Codes \X Node)
      /\ \A a \in outcome.answers \cup {<<"success", m.at>>} : a[1] # "success" => outcome.failed
  BY <1>2, <1>3, <1>5 DEF Codes
<1>7. CASE m.type = "rsp"
  <2>1. outcome' = outcome
    BY <1>7 DEF DispatchSelf
  <2> QED BY <1>1, <1>3, <1>4, <1>5, <2>1, OthersInv
<1>8. CASE m.type = "command"
  <2>1. outcome' = [outcome EXCEPT !.commandAt = outcome.commandAt \cup {m.at},
                                   !.answers = outcome.answers \cup {<<"success", m.at>>}]
    BY <1>3, <1>8 DEF DispatchSelf, OnCustomCommandRequest
  <2>2. outcome.commandAt \cup {m.at} \in SUBSET Node
    BY <1>2, <1>3
  <2>3. /\ outcome' \in Outcome /\ outcome'.answers = outcome.answers \cup {<<"success", m.at>>}
        /\ outcome'.failed = outcome.failed /\ outcome'.times = outcome.times
        /\ outcome'.received = outcome.received
    BY <1>3, <1>6, <2>1, <2>2
  <2> QED BY <1>1, <1>3, <1>4, <1>6, <2>3, OthersInv
<1>9. CASE m.type = "req"
  <2> DEFINE answers == IF m.require THEN outcome.answers \cup {<<"success", m.at>>} ELSE outcome.answers
  <2>1. outcome' = [outcome EXCEPT !.received = outcome.received \cup {m.at},
                                   !.times = outcome.times + 1, !.answers = answers]
    BY <1>3, <1>9 DEF DispatchSelf, OnReceiveData
  <2>2. answers \in SUBSET (Codes \X Node) /\ \A a \in answers : a[1] # "success" => outcome.failed
    BY <1>3, <1>5, <1>6
  <2>3. m.at = request.to /\ outcome.times = 0 /\ ~outcome.failed
    BY <1>0, <1>9 DEF OneCopy, Truthful
  <2>4. \A a \in net' \cup selfQueue' : a.type # "req"
    BY <1>0, <1>4, <1>9 DEF OneCopy
  <2>5. outcome.received \cup {m.at} \in SUBSET Node /\ outcome.times + 1 \in Nat
    BY <1>2, <1>3
  <2> HIDE DEF answers
  <2>6. /\ outcome' \in Outcome /\ outcome'.answers = answers
        /\ outcome'.failed = outcome.failed /\ outcome'.times = outcome.times + 1
        /\ outcome'.received = outcome.received \cup {m.at}
    BY <1>3, <2>1, <2>2, <2>5
  <2> QED BY <1>1, <1>3, <1>4, <2>2, <2>3, <2>4, <2>6, OthersInv
<1> QED BY <1>2, <1>7, <1>8, <1>9

\* A link changes, and messages are lost with it.
LEMMA LinkKeeps ==
  ASSUME Inv, NEW p \in Pairs, NEW s \in {"none", "empty", "ctrl", "data"}, LinkChanges(p, s)
  PROVE  Inv'
<1>0. TypeOK /\ Quiet /\ OneCopy /\ Truthful
  BY DEF Inv
<1>1. PICK lost \in SUBSET net :
        /\ net' = net \ lost
        /\ outcome' = [outcome EXCEPT !.lost = @ \/ \E m \in lost : m.type \in {"req", "command"}]
  BY DEF LinkChanges
<1>2. link' \in [Pairs -> {"none", "empty", "ctrl", "data"}] /\ changes' \in 0..MaxChanges
  BY <1>0, RoutingAssumption DEF LinkChanges, TypeOK
<1> DEFINE Outcome == [refused: BOOLEAN, received: SUBSET Node, times: Nat, failed: BOOLEAN,
                       lost: BOOLEAN, answers: SUBSET (Codes \X Node), commandAt: SUBSET Node]
<1>3. /\ outcome' \in Outcome /\ outcome'.answers = outcome.answers
      /\ outcome'.failed = outcome.failed /\ outcome'.times = outcome.times
      /\ outcome'.received = outcome.received
  BY <1>0, <1>1 DEF TypeOK
<1>4. UNCHANGED <<view, selfQueue, request>> /\ net' \subseteq net /\ net' \subseteq Message
  BY <1>0, <1>1 DEF LinkChanges, TypeOK
<1>5. CASE ~Unsent
  <2>1. \A a \in outcome.answers : a[1] # "success" => outcome.failed
    BY <1>0 DEF Truthful
  <2> QED BY <1>2, <1>3, <1>4, <1>5, <2>1, OthersInv
<1>6. CASE Unsent
  <2>1. TypeOK'
    BY <1>0, <1>2, <1>3, <1>4 DEF TypeOK
  <2>2. Quiet' /\ OneCopy' /\ Truthful'
    BY <1>0, <1>3, <1>4, <1>6 DEF Quiet, OneCopy, Truthful, Unsent
  <2> QED BY <2>1, <2>2 DEF Inv
<1> QED BY <1>5, <1>6

\* Every step of a node keeps the invariant.
LEMMA InvNext == Inv /\ [Next]_vars => Inv'
<1> SUFFICES ASSUME Inv, [Next]_vars PROVE Inv'
  OBVIOUS
<1>1. ASSUME NEW n \in Node, Send(n) PROVE Inv'
  BY <1>1, SendKeeps
<1>2. ASSUME NEW m \in net, HandleRequest(m) PROVE Inv'
  BY <1>2, RequestKeeps, AnswerKeeps DEF HandleRequest
<1>3. ASSUME NEW m \in net, HandleResponse(m) PROVE Inv'
  BY <1>3, AnswerKeeps DEF HandleResponse
<1>4. ASSUME NEW m \in selfQueue, DispatchSelf(m) PROVE Inv'
  BY <1>4, DispatchKeeps
<1>5. ASSUME NEW p \in Pairs, NEW s \in {"none", "empty", "ctrl", "data"}, LinkChanges(p, s)
      PROVE  Inv'
  BY <1>5, LinkKeeps
<1>6. CASE UNCHANGED vars
  BY <1>6 DEF vars, Inv, TypeOK, Quiet, OneCopy, Truthful, Unsent
<1> QED BY <1>1, <1>2, <1>3, <1>4, <1>5, <1>6 DEF Next

-----------------------------------------------------------------------------
(* The theorems.                                                           *)

\* Messages, queues and what the application learns stay well formed: a next hop
\* is always a node, and the router list is bounded by the hop limit
\* (GetPeerChannel, SendTransferResponse).
THEOREM RoutingTyped == Spec => []TypeOK
<1>1. Inv => TypeOK
  BY DEF Inv
<1> QED BY <1>1, InvInit, InvNext, PTL DEF Spec

\* The application at its target, and no other, gets a request once at most, and
\* when the sender is told of a failure the request neither was nor will be
\* delivered, whatever the nodes believe about the topology, however the links
\* change and whichever hops a request and its responses take.
THEOREM FailuresAreReal == Spec => []FailureIsReal
<1>1. Inv => FailureIsReal
  <2> SUFFICES ASSUME Inv PROVE FailureIsReal
    OBVIOUS
  <2>1. \A a \in outcome.answers : a[1] # "success" => outcome.failed
    BY DEF Inv, Truthful
  <2>2. \A a \in Errors : a[1] # "success"
    BY DEF Errors
  <2>3. outcome.answers \cap Errors # {} => outcome.failed
    BY <2>1, <2>2
  <2> QED BY <2>3 DEF Inv, Truthful, FailureIsReal
<1> QED BY <1>1, InvInit, InvNext, PTL DEF Spec
=============================================================================
