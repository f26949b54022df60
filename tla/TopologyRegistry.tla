-------------------------- MODULE TopologyRegistry --------------------------
(***************************************************************************)
(* The in-process topology registry of impl/atbus_topology.go: a map from  *)
(* bus id to peer, each peer with a pointer to its upstream and a map of   *)
(* its downstreams.                                                        *)
(*                                                                         *)
(* Go pointers are modelled by peer INSTANCES.  An instance is a pair of a *)
(* bus id and a generation: CreateTopologyPeer for bus id b allocates the  *)
(* next generation of b, and an instance that was dropped from the map     *)
(* keeps its fields, because other peers may still point at it.  MaxGen is *)
(* a bound of the model only.                                              *)
(*                                                                         *)
(* RemovePeer ends in a call of itself on the upstream.  Each invocation   *)
(* is one step and pending holds the argument of the invocation that runs  *)
(* next; the registry is documented as not thread-safe, so no other        *)
(* operation is enabled until the whole recursion has returned.            *)
(*                                                                         *)
(* TopologyData is left out: no operation of the registry branches on it.  *)
(***************************************************************************)
EXTENDS Integers, FiniteSets

CONSTANTS
    BusId,        \* the bus ids in use; 0 is the invalid id
    MaxGen,       \* bound: instances created for one bus id
    RemoveInner   \* may clients call RemovePeer on a peer with downstreams?

ASSUME BusIdAssumption == BusId \subseteq Nat \ {0}
ASSUME MaxGenAssumption == MaxGen \in Nat
ASSUME RemoveInnerAssumption == RemoveInner \in BOOLEAN

NoBus == 0
Peer == BusId \X (1 .. MaxGen)
Nil == <<NoBus, 0>>

VARIABLES
    data,        \* TopologyRegistry.data: bus id -> instance, Nil when absent
    born,        \* generations created so far, per bus id
    proactive,   \* instance -> proactivelyAdded
    upstream,    \* instance -> upstream pointer
    downstream,  \* instance -> its downstream map, as the set of its values
    pending      \* argument of the recursive RemovePeer call still to run

vars == <<data, born, proactive, upstream, downstream, pending>>

BusOf(p) == p[1]

Init ==
    /\ data = [b \in BusId |-> Nil]
    /\ born = [b \in BusId |-> 0]
    /\ proactive = [p \in Peer |-> FALSE]
    /\ upstream = [p \in Peer |-> Nil]
    /\ downstream = [p \in Peer |-> {}]
    /\ pending = NoBus

-----------------------------------------------------------------------------
(* Helpers. *)

\* Mutant of MutablePeer: the lookup is forgotten and a peer is always created.
MutablePeerNoLookup(b) == IF b = NoBus THEN Nil ELSE <<b, born[b] + 1>>

\* mutablePeer: the instance registered for b, or the one it creates.
MutablePeer(b) ==
    IF b = NoBus THEN Nil
    ELSE IF data[b] # Nil THEN data[b]
    ELSE <<b, born[b] + 1>>

\* The map after mutablePeer has run for every bus id of S.
TouchPeers(S) ==
    /\ \A b \in S : data[b] = Nil => born[b] < MaxGen
    /\ data' = [b \in BusId |-> IF b \in S THEN MutablePeer(b) ELSE data[b]]
    /\ born' = [b \in BusId |-> IF b \in S /\ data[b] = Nil
                                THEN born[b] + 1 ELSE born[b]]

\* Mutant of ChainAvoids: only the new upstream is compared, not what is above it.
ChainAvoidsOneStep(u, target) == u # Nil => BusOf(u) # target

\* The loop "for cur != nil { if cur.busId == target ...; cur = cur.upstream }"
\* reaches the end: some set of instances holds the whole chain of u and no
\* instance of the target.
ChainAvoids(u, target) ==
    u # Nil =>
        \E C \in SUBSET {p \in Peer : BusOf(p) # target} :
            /\ u \in C
            /\ \A p \in C : upstream[p] # Nil => upstream[p] \in C

\* addDownstream: the downstream map is keyed by bus id.
WithDownstream(ds, p) == {d \in ds : BusOf(d) # BusOf(p)} \cup {p}

-----------------------------------------------------------------------------
(* UpdatePeer(target, up, data), one action per way it can return.  The    *)
(* calls with target = 0 or target = up return before any assignment.      *)

UpdatePeerArgs(target, up) ==
    /\ pending = NoBus
    /\ target \in BusId
    /\ up \in BusId \cup {NoBus}
    /\ target # up

\* The peer exists and already points at this upstream instance: true.
UpdatePeerSame(target, up) ==
    /\ UpdatePeerArgs(target, up)
    /\ data[target] # Nil
    /\ upstream[data[target]] = MutablePeer(up)
    /\ TouchPeers({up} \ {NoBus})
    /\ proactive' = [proactive EXCEPT ![data[target]] = TRUE]
    /\ UNCHANGED <<upstream, downstream, pending>>

\* The new upstream is the target itself or below it: false.
UpdatePeerCycle(target, up) ==
    /\ UpdatePeerArgs(target, up)
    /\ data[target] # Nil
    /\ upstream[data[target]] # MutablePeer(up)
    /\ ~ChainAvoids(MutablePeer(up), target)
    /\ TouchPeers({up} \ {NoBus})
    /\ proactive' = [proactive EXCEPT ![data[target]] = TRUE]
    /\ UNCHANGED <<upstream, downstream, pending>>

\* Mutant of UpdatePeerMove: the entry in the old upstream's map is not removed.
UpdatePeerMoveKeepsLink(target, up) ==
    /\ UpdatePeerArgs(target, up)
    /\ data[target] # Nil
    /\ upstream[data[target]] # MutablePeer(up)
    /\ ChainAvoids(MutablePeer(up), target)
    /\ TouchPeers({up} \ {NoBus})
    /\ LET P == data[target]
           U == MutablePeer(up)
       IN  /\ proactive' = [proactive EXCEPT ![P] = TRUE]
           /\ upstream' = [upstream EXCEPT ![P] = U]
           /\ downstream' = [q \in Peer |->
                  IF q = U THEN WithDownstream(downstream[q], P) ELSE downstream[q]]
    /\ UNCHANGED pending

\* The peer exists and is moved below another upstream, or becomes a root: true.
UpdatePeerMove(target, up) ==
    /\ UpdatePeerArgs(target, up)
    /\ data[target] # Nil
    /\ upstream[data[target]] # MutablePeer(up)
    /\ ChainAvoids(MutablePeer(up), target)
    /\ TouchPeers({up} \ {NoBus})
    /\ LET P == data[target]
           U == MutablePeer(up)
       IN  /\ proactive' = [proactive EXCEPT ![P] = TRUE]
           /\ upstream' = [upstream EXCEPT ![P] = U]
           /\ downstream' = [q \in Peer |->
                  IF q = U THEN WithDownstream(downstream[q], P)
                  ELSE IF q = upstream[P] THEN downstream[q] \ {P}
                  ELSE downstream[q]]
    /\ UNCHANGED pending

\* Mutant of UpdatePeerNew: the new peer is not added below its upstream.
UpdatePeerNewNotLinked(target, up) ==
    /\ UpdatePeerArgs(target, up)
    /\ data[target] = Nil
    /\ TouchPeers({target, up} \ {NoBus})
    /\ proactive' = [proactive EXCEPT ![MutablePeer(target)] = TRUE]
    /\ upstream' = [upstream EXCEPT ![MutablePeer(target)] = MutablePeer(up)]
    /\ UNCHANGED <<downstream, pending>>

\* The peer is created: true.
UpdatePeerNew(target, up) ==
    /\ UpdatePeerArgs(target, up)
    /\ data[target] = Nil
    /\ TouchPeers({target, up} \ {NoBus})
    /\ LET P == MutablePeer(target)
           U == MutablePeer(up)
       IN  /\ proactive' = [proactive EXCEPT ![P] = TRUE]
           /\ upstream' = [upstream EXCEPT ![P] = U]
           /\ downstream' = [q \in Peer |->
                  IF q = U THEN WithDownstream(downstream[q], P) ELSE downstream[q]]
    /\ UNCHANGED pending

-----------------------------------------------------------------------------
(* RemovePeer. *)

\* Mutants of RemoveInvocation: the recursion is called for the same peer again,
\* and it does not ask whether the upstream was added proactively.
RemoveInvocationSameAgain(target) ==
    LET P == data[target]
        U == upstream[P]
    IN  /\ proactive' = [proactive EXCEPT ![P] = FALSE]
        /\ downstream' = [q \in Peer |->
                             IF q = U THEN downstream[q] \ {P} ELSE downstream[q]]
        /\ pending' = IF U # Nil THEN target ELSE NoBus
        /\ UNCHANGED <<data, born, upstream>>
RemoveInvocationAnyUpstream(target) ==
    LET P == data[target]
        U == upstream[P]
    IN  /\ proactive' = [proactive EXCEPT ![P] = FALSE]
        /\ data' = IF downstream[P] = {} THEN [data EXCEPT ![target] = Nil] ELSE data
        /\ downstream' = [q \in Peer |->
                             IF q = U THEN downstream[q] \ {P} ELSE downstream[q]]
        /\ pending' = IF U # Nil /\ downstream'[U] = {} THEN BusOf(U) ELSE NoBus
        /\ UNCHANGED <<born, upstream>>

\* One invocation with an argument that is registered.
RemoveInvocation(target) ==
    LET P == data[target]
        U == upstream[P]
    IN  /\ proactive' = [proactive EXCEPT ![P] = FALSE]
        /\ data' = IF downstream[P] = {} THEN [data EXCEPT ![target] = Nil] ELSE data
        /\ downstream' = [q \in Peer |->
                             IF q = U THEN downstream[q] \ {P} ELSE downstream[q]]
        /\ pending' = IF U # Nil /\ ~proactive'[U] /\ downstream'[U] = {}
                      THEN BusOf(U) ELSE NoBus
        /\ UNCHANGED <<born, upstream>>

RemovePeer(target) ==
    /\ pending = NoBus
    /\ target \in BusId
    /\ data[target] # Nil
    /\ RemoveInner \/ downstream[data[target]] = {}
    /\ RemoveInvocation(target)

RemovePeerRecursive ==
    /\ pending # NoBus
    /\ data[pending] # Nil
    /\ RemoveInvocation(pending)

\* The upstream the recursion was called for is not registered any more.
RemovePeerRecursiveAbsent ==
    /\ pending # NoBus
    /\ data[pending] = Nil
    /\ pending' = NoBus
    /\ UNCHANGED <<data, born, proactive, upstream, downstream>>

Recursion == RemovePeerRecursive \/ RemovePeerRecursiveAbsent

Next ==
    \/ \E target \in BusId, up \in BusId \cup {NoBus} :
          \/ UpdatePeerSame(target, up)
          \/ UpdatePeerCycle(target, up)
          \/ UpdatePeerMove(target, up)
          \/ UpdatePeerNew(target, up)
    \/ \E target \in BusId : RemovePeer(target)
    \/ RemovePeerRecursive
    \/ RemovePeerRecursiveAbsent

Spec == Init /\ [][Next]_vars

\* Go runs a started RemovePeer call to its end.
FairSpec == Spec /\ WF_vars(Recursion)

-----------------------------------------------------------------------------
(* Properties. *)

TypeOK ==
    /\ data \in [BusId -> Peer \cup {Nil}]
    /\ born \in [BusId -> 0 .. MaxGen]
    /\ proactive \in [Peer -> BOOLEAN]
    /\ upstream \in [Peer -> Peer \cup {Nil}]
    /\ downstream \in [Peer -> SUBSET Peer]
    /\ pending \in BusId \cup {NoBus}

\* No sequence of calls closes a loop of upstream pointers, so that the walks
\* in UpdatePeer and GetRelation, which only stop at a nil upstream, always
\* end: every set of instances has a member that points out of the set.
Acyclic ==
    \A S \in SUBSET Peer : S # {} => \E p \in S : upstream[p] \notin S

\* An entry of a downstream map is the registered peer of its bus id and points
\* back at the owner of the map, and only registered peers have entries: the
\* tree below a peer holds nobody that was removed or has moved away.
DownstreamConsistent ==
    \A u \in Peer : \A p \in downstream[u] :
        /\ upstream[p] = u
        /\ data[BusOf(p)] = p
        /\ data[BusOf(u)] = u

Registered == {p \in Peer : data[BusOf(p)] = p}

\* The converse: a registered peer is in the downstream map of its upstream.
UpstreamConsistent ==
    \A p \in Registered : upstream[p] # Nil => p \in downstream[upstream[p]]

\* Clients that remove only peers without downstreams keep both directions of
\* every link consistent, and an upstream is never dropped below a registered
\* peer.
LeafRemovalKeepsForest == ~RemoveInner => UpstreamConsistent

\* A step in which the recursion of RemovePeer, if it is on, drops no peer that
\* was added proactively.
ProactiveStep ==
    \A b \in BusId :
        (pending # NoBus /\ data[b] # Nil /\ proactive[data[b]]) => data'[b] = data[b]

\* "A proactivelyAdded peer must NOT be removed automatically unless RemovePeer
\* is called": with clients that remove only leaves the recursion of RemovePeer
\* keeps that promise.
LeafRemovalKeepsProactive == [][~RemoveInner => ProactiveStep]_vars

\* A call of RemovePeer returns: the recursion reaches its end, also when it
\* meets peers whose upstream pointer is out of date.
RecursionReturns == []<>(pending = NoBus)
=============================================================================
