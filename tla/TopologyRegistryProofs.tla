----------------------- MODULE TopologyRegistryProofs -----------------------
(***************************************************************************)
(* Proofs about the topology registry and about GetRelation, for any set   *)
(* of bus ids and any number of instances per bus id.                      *)
(***************************************************************************)
EXTENDS TopologyRelation, SequenceTheorems, TLAPS

\* The instances allocated so far.
Born == {p \in Peer : p[2] <= born[p[1]]}

\* An instance that was not allocated yet is referenced by nobody, and the
\* map holds under b an instance of b: the part of the invariant that makes
\* the instance created by mutablePeer a fresh one.
Allocated ==
    /\ \A b \in BusId : data[b] # Nil => data[b] \in Born /\ BusOf(data[b]) = b
    /\ \A p \in Peer : upstream[p] # Nil => p \in Born /\ upstream[p] \in Born
    /\ \A p \in Peer \ Born : downstream[p] = {} /\ ~proactive[p]

Inv == TypeOK /\ Allocated /\ Acyclic /\ DownstreamConsistent

-----------------------------------------------------------------------------
(* Facts about instances. *)

\* The nil pointer is no instance.
LEMMA NilNotPeer == Nil \notin Peer
  BY BusIdAssumption DEF Nil, NoBus, Peer

\* Bus id 0 names no node.
LEMMA NoBusNotBusId == NoBus \notin BusId
  BY BusIdAssumption DEF NoBus

\* GetBusId of an instance is a bus id.
LEMMA PeerBus == \A p \in Peer : BusOf(p) \in BusId
  BY DEF Peer, BusOf

\* What mutablePeer returns: Nil for no id, the registered instance, or an
\* instance nobody refers to.
LEMMA MutablePeerFacts ==
  ASSUME Inv, NEW b \in BusId, data[b] = Nil => born[b] < MaxGen
  PROVE  /\ MutablePeer(b) \in Peer
         /\ BusOf(MutablePeer(b)) = b
         /\ MutablePeer(b)[2] <= born[b] + (IF data[b] = Nil THEN 1 ELSE 0)
         /\ data[b] # Nil => MutablePeer(b) = data[b]
         /\ data[b] = Nil => MutablePeer(b) \notin Born
<1>0. b # NoBus
  BY NoBusNotBusId
<1>1. CASE data[b] # Nil
  <2>1. MutablePeer(b) = data[b]
    BY <1>0, <1>1 DEF MutablePeer
  <2>2. data[b] \in Born /\ BusOf(data[b]) = b
    BY <1>1 DEF Inv, Allocated
  <2> QED
    BY <1>1, <2>1, <2>2, BusIdAssumption, MaxGenAssumption
       DEF Born, BusOf, Inv, TypeOK
<1>2. CASE data[b] = Nil
  <2>1. MutablePeer(b) = <<b, born[b] + 1>>
    BY <1>0, <1>2 DEF MutablePeer
  <2>2. born[b] \in 0 .. MaxGen /\ born[b] < MaxGen
    BY <1>2 DEF Inv, TypeOK
  <2>3. MutablePeer(b) \in Peer
    BY <2>1, <2>2, MaxGenAssumption DEF Peer
  <2> QED
    BY <1>2, <2>1, <2>2, <2>3 DEF Born, BusOf
<1> QED
  BY <1>1, <1>2

\* mutablePeer for a set of ids keeps the registered instances and leaves the
\* map pointing at allocated instances of the right id.
LEMMA TouchPeersFacts ==
  ASSUME Inv, NEW S \in SUBSET BusId, TouchPeers(S)
  PROVE  /\ data' \in [BusId -> Peer \cup {Nil}]
         /\ born' \in [BusId -> 0 .. MaxGen]
         /\ Born \subseteq Born'
         /\ \A b \in BusId : data[b] # Nil => data'[b] = data[b]
         /\ \A b \in BusId : data'[b] # Nil => data'[b] \in Born' /\ BusOf(data'[b]) = b
         /\ \A b \in S : data'[b] = MutablePeer(b) /\ MutablePeer(b) \in Peer
                         /\ BusOf(MutablePeer(b)) = b
                         /\ (data[b] = Nil => MutablePeer(b) \notin Born)
<1>1. \A b \in S : data[b] = Nil => born[b] < MaxGen
  BY DEF TouchPeers
<1>2. \A b \in S : /\ MutablePeer(b) \in Peer
                   /\ BusOf(MutablePeer(b)) = b
                   /\ MutablePeer(b)[2] <= born[b] + (IF data[b] = Nil THEN 1 ELSE 0)
                   /\ data[b] # Nil => MutablePeer(b) = data[b]
                   /\ data[b] = Nil => MutablePeer(b) \notin Born
  BY <1>1, MutablePeerFacts
<1>3. /\ data' \in [BusId -> Peer \cup {Nil}]
      /\ \A b \in BusId : data[b] # Nil => data'[b] = data[b]
      /\ \A b \in S : data'[b] = MutablePeer(b)
  BY <1>2 DEF TouchPeers, Inv, TypeOK
<1>4. born' \in [BusId -> 0 .. MaxGen] /\ \A b \in BusId : born[b] <= born'[b]
  BY <1>1, MaxGenAssumption DEF TouchPeers, Inv, TypeOK
<1>5. Born \subseteq Born'
  <2> SUFFICES ASSUME NEW p \in Born PROVE p \in Born'
    OBVIOUS
  <2>1. p \in Peer /\ p[1] \in BusId /\ p[2] \in Nat /\ p[2] <= born[p[1]]
    BY MaxGenAssumption DEF Born, Peer
  <2>2. born[p[1]] \in Nat /\ born'[p[1]] \in Nat /\ born[p[1]] <= born'[p[1]]
    BY <2>1, <1>4, MaxGenAssumption DEF Inv, TypeOK
  <2> QED
    BY <2>1, <2>2 DEF Born
<1>6. ASSUME NEW b \in BusId, data'[b] # Nil
      PROVE  data'[b] \in Born' /\ BusOf(data'[b]) = b
  <2>1. CASE b \in S
    <3>1. data'[b] = MutablePeer(b) /\ MutablePeer(b) \in Peer
          /\ BusOf(MutablePeer(b)) = b
      BY <1>2, <1>3, <2>1
    <3>2. born'[b] = born[b] + (IF data[b] = Nil THEN 1 ELSE 0)
      BY <2>1, MaxGenAssumption DEF TouchPeers, Inv, TypeOK
    <3>3. MutablePeer(b)[2] <= born'[b] /\ MutablePeer(b)[1] = b
      BY <1>2, <2>1, <3>1, <3>2 DEF BusOf
    <3> QED
      BY <3>1, <3>3 DEF Born
  <2>2. CASE b \notin S
    <3>1. data'[b] = data[b]
      BY <2>2 DEF TouchPeers
    <3> QED
      BY <1>5, <1>6, <3>1 DEF Inv, Allocated
  <2> QED
    BY <2>1, <2>2
<1> QED
  BY <1>2, <1>3, <1>4, <1>5, <1>6

\* The registry starts empty, which satisfies the invariant.
LEMMA InitInv == Init => Inv
<1> SUFFICES ASSUME Init PROVE Inv
  OBVIOUS
<1>1. TypeOK
  BY MaxGenAssumption DEF Init, TypeOK
<1>2. Allocated
  BY DEF Init, Allocated
<1>3. Acyclic
  BY NilNotPeer DEF Init, Acyclic
<1>4. DownstreamConsistent
  BY DEF Init, DownstreamConsistent
<1> QED
  BY <1>1, <1>2, <1>3, <1>4 DEF Inv

-----------------------------------------------------------------------------
(* Acyclicity under the one assignment that changes a pointer. *)

\* Pointing P at U keeps the pointers acyclic when some set that holds U and is
\* closed under upstream does not hold P: what the walk in UpdatePeer checks.
LEMMA AcyclicLink ==
  ASSUME TypeOK, Acyclic, NEW P \in Peer, NEW U \in Peer \cup {Nil},
         upstream' = [upstream EXCEPT ![P] = U],
         U # Nil => \E C \in SUBSET Peer :
                      /\ U \in C /\ P \notin C
                      /\ \A q \in C : upstream[q] # Nil => upstream[q] \in C
  PROVE  Acyclic'
<1> SUFFICES ASSUME NEW S \in SUBSET Peer, S # {},
                    \A p \in S : upstream'[p] \in S
             PROVE  FALSE
  BY DEF Acyclic
<1>1. \A q \in Peer : q # P => upstream'[q] = upstream[q]
  BY DEF TypeOK
<1>2. P \in S
  BY <1>1 DEF Acyclic
<1>3. U \in S /\ U # Nil
  BY <1>2, NilNotPeer DEF TypeOK
<1>4. PICK C \in SUBSET Peer :
        /\ U \in C /\ P \notin C
        /\ \A q \in C : upstream[q] # Nil => upstream[q] \in C
  BY <1>3
<1>5. S \cap C # {} /\ S \cap C \in SUBSET Peer
  BY <1>3, <1>4
<1>6. \A q \in S \cap C : upstream[q] \in S \cap C
  BY <1>1, <1>4, NilNotPeer
<1> QED
  BY <1>5, <1>6 DEF Acyclic

\* In the old branch of UpdatePeer the walk has seen no instance of target.
LEMMA MoveAvoids ==
  ASSUME NEW target \in BusId, NEW U, U # Nil, ChainAvoids(U, target),
         NEW P \in Peer, BusOf(P) = target
  PROVE  \E C \in SUBSET Peer :
           /\ U \in C /\ P \notin C
           /\ \A q \in C : upstream[q] # Nil => upstream[q] \in C
  BY DEF ChainAvoids

\* In the new branch nobody points at the instance just allocated.
LEMMA FreshAvoids ==
  ASSUME Inv, NEW P \in Peer \ Born, NEW U \in Peer, U # P
  PROVE  \E C \in SUBSET Peer :
           /\ U \in C /\ P \notin C
           /\ \A q \in C : upstream[q] # Nil => upstream[q] \in C
<1> DEFINE C == Peer \ {P}
<1>1. \A q \in C : upstream[q] # Nil => upstream[q] \in C
  BY DEF Inv, Allocated, TypeOK
<1>2. C \in SUBSET Peer /\ U \in C /\ P \notin C
  OBVIOUS
<1> QED
  BY <1>1, <1>2

-----------------------------------------------------------------------------
(* Every operation preserves the invariant. *)

\* UpdatePeer with the upstream the peer has already, or with one that would
\* close a loop, allocates the upstream at most and changes no link.
LEMMA UpdateKeepsLinks ==
  ASSUME Inv, NEW target \in BusId, NEW up \in BusId \cup {NoBus},
         UpdatePeerSame(target, up) \/ UpdatePeerCycle(target, up)
  PROVE  Inv'
<1> DEFINE S == {up} \ {NoBus}
<1>0. S \in SUBSET BusId /\ TouchPeers(S)
  BY DEF UpdatePeerSame, UpdatePeerCycle
<1>1. /\ data' \in [BusId -> Peer \cup {Nil}]
      /\ born' \in [BusId -> 0 .. MaxGen]
      /\ Born \subseteq Born'
      /\ \A b \in BusId : data[b] # Nil => data'[b] = data[b]
      /\ \A b \in BusId : data'[b] # Nil => data'[b] \in Born' /\ BusOf(data'[b]) = b
  BY <1>0, TouchPeersFacts
<1>2. /\ data[target] \in Born /\ proactive' = [proactive EXCEPT ![data[target]] = TRUE]
      /\ UNCHANGED <<upstream, downstream, pending>>
  BY DEF UpdatePeerSame, UpdatePeerCycle, Inv, Allocated
<1>3. TypeOK'
  BY <1>1, <1>2 DEF TypeOK, Inv
<1>4. Allocated'
  BY <1>1, <1>2 DEF Allocated, Inv, TypeOK
<1>5. Acyclic'
  BY <1>2 DEF Acyclic, Inv
<1>6. DownstreamConsistent'
  <2> SUFFICES ASSUME NEW u \in Peer, NEW p \in downstream[u]
               PROVE  upstream[p] = u /\ data'[BusOf(p)] = p /\ data'[BusOf(u)] = u
    BY <1>2 DEF DownstreamConsistent
  <2>1. upstream[p] = u /\ data[BusOf(p)] = p /\ data[BusOf(u)] = u /\ p \in Peer
    BY DEF Inv, DownstreamConsistent, TypeOK
  <2> QED
    BY <1>1, <2>1, NilNotPeer, PeerBus
<1> QED
  BY <1>3, <1>4, <1>5, <1>6 DEF Inv

\* UpdatePeer of a registered peer that moves below another upstream: the
\* links at both ends change together and no loop arises.
LEMMA MovePreserves ==
  ASSUME Inv, NEW target \in BusId, NEW up \in BusId \cup {NoBus},
         UpdatePeerMove(target, up)
  PROVE  Inv'
<1> DEFINE S == {up} \ {NoBus}
           P == data[target]
           U == MutablePeer(up)
<1>0. S \in SUBSET BusId /\ TouchPeers(S)
  BY DEF UpdatePeerMove
<1>1. /\ data' \in [BusId -> Peer \cup {Nil}]
      /\ born' \in [BusId -> 0 .. MaxGen]
      /\ Born \subseteq Born'
      /\ \A b \in BusId : data[b] # Nil => data'[b] = data[b]
      /\ \A b \in BusId : data'[b] # Nil => data'[b] \in Born' /\ BusOf(data'[b]) = b
      /\ \A b \in S : data'[b] = MutablePeer(b) /\ MutablePeer(b) \in Peer
                      /\ BusOf(MutablePeer(b)) = b
  BY <1>0, TouchPeersFacts
<1>2. P \in Born /\ P \in Peer /\ BusOf(P) = target /\ data'[target] = P
  BY <1>1, NilNotPeer DEF UpdatePeerMove, Inv, Allocated, Born
<1>3. U # Nil => up \in S /\ U \in Peer /\ U \in Born' /\ data'[BusOf(U)] = U
  BY <1>1, NilNotPeer DEF MutablePeer
<1>4. U \in Peer \cup {Nil}
  BY <1>3
<1>5. /\ proactive' = [proactive EXCEPT ![P] = TRUE]
      /\ upstream' = [upstream EXCEPT ![P] = U]
      /\ downstream' = [q \in Peer |->
              IF q = U THEN WithDownstream(downstream[q], P)
              ELSE IF q = upstream[P] THEN downstream[q] \ {P}
              ELSE downstream[q]]
      /\ UNCHANGED pending
      /\ ChainAvoids(U, target)
  BY DEF UpdatePeerMove
<1> HIDE DEF P, U, S
<1>6. TypeOK'
  BY <1>1, <1>2, <1>4, <1>5 DEF TypeOK, Inv, WithDownstream
<1>7. Allocated'
  <2>1. \A p \in Peer : upstream'[p] # Nil => p \in Born' /\ upstream'[p] \in Born'
    BY <1>1, <1>2, <1>3, <1>5 DEF Inv, TypeOK, Allocated
  <2>2. \A p \in Peer \ Born' : downstream'[p] = {} /\ ~proactive'[p]
    <3> SUFFICES ASSUME NEW p \in Peer, p \notin Born'
                 PROVE  downstream'[p] = {} /\ ~proactive'[p]
      OBVIOUS
    <3>1. p \notin Born /\ p # U /\ p # P
      BY <1>1, <1>2, <1>3, NilNotPeer
    <3> QED
      BY <3>1, <1>5 DEF Inv, TypeOK, Allocated
  <2> QED
    BY <1>1, <2>1, <2>2 DEF Allocated
<1>8. Acyclic'
  <2>1. U # Nil => \E C \in SUBSET Peer :
                     /\ U \in C /\ P \notin C
                     /\ \A q \in C : upstream[q] # Nil => upstream[q] \in C
    BY <1>2, <1>5, MoveAvoids
  <2> QED
    BY <1>2, <1>4, <1>5, <2>1, AcyclicLink DEF Inv
<1>9. DownstreamConsistent'
  <2> SUFFICES ASSUME NEW u \in Peer, NEW p \in downstream'[u]
               PROVE  upstream'[p] = u /\ data'[BusOf(p)] = p /\ data'[BusOf(u)] = u
    BY DEF DownstreamConsistent
  <2>1. CASE p = P /\ u = U
    BY <1>2, <1>3, <1>5, <2>1, NilNotPeer DEF Inv, TypeOK
  <2>2. CASE p # P \/ u # U
    <3>1. p \in downstream[u] /\ p # P
      <4>1. CASE u = U
        BY <4>1, <2>2, <1>5 DEF WithDownstream
      <4>2. CASE u # U
        <5>1. p \in downstream[u]
          BY <4>2, <1>5
        <5>2. upstream[p] = u
          BY <5>1 DEF Inv, DownstreamConsistent
        <5>3. p # P
          BY <4>2, <5>2, <1>5
        <5> QED
          BY <5>1, <5>3
      <4> QED
        BY <4>1, <4>2
    <3>2. upstream[p] = u /\ data[BusOf(p)] = p /\ data[BusOf(u)] = u /\ p \in Peer
      BY <3>1 DEF Inv, DownstreamConsistent, TypeOK
    <3>3. upstream'[p] = upstream[p]
      BY <3>1, <3>2, <1>5 DEF Inv, TypeOK
    <3> QED
      BY <1>1, <3>2, <3>3, NilNotPeer, PeerBus
  <2> QED
    BY <2>1, <2>2
<1> QED
  BY <1>6, <1>7, <1>8, <1>9 DEF Inv

\* UpdatePeer of an unknown bus id: a fresh instance is linked on both sides.
LEMMA NewPreserves ==
  ASSUME Inv, NEW target \in BusId, NEW up \in BusId \cup {NoBus},
         UpdatePeerNew(target, up)
  PROVE  Inv'
<1> DEFINE S == {target, up} \ {NoBus}
           P == MutablePeer(target)
           U == MutablePeer(up)
<1>0. S \in SUBSET BusId /\ TouchPeers(S) /\ target \in S /\ target # up
  BY NoBusNotBusId DEF UpdatePeerNew, UpdatePeerArgs
<1>1. /\ data' \in [BusId -> Peer \cup {Nil}]
      /\ born' \in [BusId -> 0 .. MaxGen]
      /\ Born \subseteq Born'
      /\ \A b \in BusId : data[b] # Nil => data'[b] = data[b]
      /\ \A b \in BusId : data'[b] # Nil => data'[b] \in Born' /\ BusOf(data'[b]) = b
      /\ \A b \in S : data'[b] = MutablePeer(b) /\ MutablePeer(b) \in Peer
                      /\ BusOf(MutablePeer(b)) = b
                      /\ (data[b] = Nil => MutablePeer(b) \notin Born)
  BY <1>0, TouchPeersFacts
<1>2. /\ P \in Peer /\ P \notin Born /\ P \in Born'
      /\ BusOf(P) = target /\ data'[target] = P
  BY <1>0, <1>1, NilNotPeer DEF UpdatePeerNew
<1>3. U # Nil => up \in S /\ U \in Peer /\ U \in Born' /\ data'[BusOf(U)] = U /\ U # P
  BY <1>0, <1>1, NilNotPeer DEF MutablePeer
<1>4. U \in Peer \cup {Nil}
  BY <1>3
<1>5. /\ proactive' = [proactive EXCEPT ![P] = TRUE]
      /\ upstream' = [upstream EXCEPT ![P] = U]
      /\ downstream' = [q \in Peer |->
              IF q = U THEN WithDownstream(downstream[q], P) ELSE downstream[q]]
      /\ UNCHANGED pending
  BY DEF UpdatePeerNew
<1> HIDE DEF P, U, S
<1>6. TypeOK'
  BY <1>1, <1>2, <1>4, <1>5 DEF TypeOK, Inv, WithDownstream
<1>7. Allocated'
  <2>1. \A p \in Peer : upstream'[p] # Nil => p \in Born' /\ upstream'[p] \in Born'
    BY <1>1, <1>2, <1>3, <1>5 DEF Inv, TypeOK, Allocated
  <2>2. \A p \in Peer \ Born' : downstream'[p] = {} /\ ~proactive'[p]
    <3> SUFFICES ASSUME NEW p \in Peer, p \notin Born'
                 PROVE  downstream'[p] = {} /\ ~proactive'[p]
      OBVIOUS
    <3>1. p \notin Born /\ p # U /\ p # P
      BY <1>1, <1>2, <1>3, NilNotPeer
    <3> QED
      BY <3>1, <1>5 DEF Inv, TypeOK, Allocated
  <2> QED
    BY <1>1, <2>1, <2>2 DEF Allocated
<1>8. Acyclic'
  <2>1. U # Nil => \E C \in SUBSET Peer :
                     /\ U \in C /\ P \notin C
                     /\ \A q \in C : upstream[q] # Nil => upstream[q] \in C
    BY <1>2, <1>3, FreshAvoids
  <2> QED
    BY <1>2, <1>4, <1>5, <2>1, AcyclicLink DEF Inv
<1>9. DownstreamConsistent'
  <2> SUFFICES ASSUME NEW u \in Peer, NEW p \in downstream'[u]
               PROVE  upstream'[p] = u /\ data'[BusOf(p)] = p /\ data'[BusOf(u)] = u
    BY DEF DownstreamConsistent
  <2>1. CASE p = P /\ u = U
    BY <1>2, <1>3, <1>5, <2>1, NilNotPeer DEF Inv, TypeOK
  <2>2. CASE p # P \/ u # U
    <3>1. p \in downstream[u]
      BY <2>2, <1>5 DEF WithDownstream
    <3>2. upstream[p] = u /\ data[BusOf(p)] = p /\ data[BusOf(u)] = u /\ p \in Peer
      BY <3>1 DEF Inv, DownstreamConsistent, TypeOK
    <3>3. p # P
      BY <3>2, <1>2, NilNotPeer DEF Inv, Allocated
    <3>4. upstream'[p] = upstream[p]
      BY <3>2, <3>3, <1>5 DEF Inv, TypeOK
    <3> QED
      BY <1>1, <3>2, <3>4, NilNotPeer, PeerBus
  <2> QED
    BY <2>1, <2>2
<1> QED
  BY <1>6, <1>7, <1>8, <1>9 DEF Inv

\* One invocation of RemovePeer, from a client or from the recursion.
LEMMA RemovePreserves ==
  ASSUME Inv, NEW target \in BusId, data[target] # Nil, RemoveInvocation(target)
  PROVE  Inv'
<1> DEFINE P == data[target]
           U == upstream[P]
<1>1. P \in Born /\ P \in Peer /\ BusOf(P) = target /\ U \in Peer \cup {Nil}
  BY DEF Inv, Allocated, Born, TypeOK
<1>2. /\ proactive' = [proactive EXCEPT ![P] = FALSE]
      /\ data' = IF downstream[P] = {} THEN [data EXCEPT ![target] = Nil] ELSE data
      /\ downstream' = [q \in Peer |->
                           IF q = U THEN downstream[q] \ {P} ELSE downstream[q]]
      /\ pending' \in {BusOf(U), NoBus} /\ (pending' # NoBus => U # Nil)
      /\ UNCHANGED <<born, upstream>>
  BY DEF RemoveInvocation
<1> HIDE DEF P, U
<1>3. TypeOK'
  BY <1>1, <1>2, PeerBus DEF Inv, TypeOK
<1>4. Allocated'
  <2>1. Born' = Born
    BY <1>2 DEF Born
  <2> QED
    BY <1>1, <1>2, <2>1 DEF Inv, Allocated, TypeOK
<1>5. Acyclic'
  BY <1>2 DEF Acyclic, Inv
<1>6. DownstreamConsistent'
  <2> SUFFICES ASSUME NEW u \in Peer, NEW p \in downstream'[u]
               PROVE  upstream[p] = u /\ data'[BusOf(p)] = p /\ data'[BusOf(u)] = u
    BY <1>2 DEF DownstreamConsistent
  <2>1. p \in downstream[u] /\ (u = U => p # P)
    BY <1>2
  <2>2. upstream[p] = u /\ data[BusOf(p)] = p /\ data[BusOf(u)] = u /\ p \in Peer
    BY <2>1 DEF Inv, DownstreamConsistent, TypeOK
  <2>3. p # P
    BY <2>1, <2>2 DEF U
  <2>4. BusOf(p) # target
    BY <2>2, <2>3 DEF P
  <2>5. u = P => downstream[P] # {}
    BY <2>1
  <2>6. BusOf(u) = target => u = P
    BY <2>2 DEF P
  <2> QED
    BY <1>2, <2>2, <2>4, <2>5, <2>6, PeerBus DEF Inv, TypeOK
<1> QED
  BY <1>3, <1>4, <1>5, <1>6 DEF Inv

\* Every step of the registry preserves the invariant.
LEMMA NextInv == Inv /\ [Next]_vars => Inv'
<1> SUFFICES ASSUME Inv, [Next]_vars PROVE Inv'
  OBVIOUS
<1>1. ASSUME NEW target \in BusId, NEW up \in BusId \cup {NoBus},
             \/ UpdatePeerSame(target, up)
             \/ UpdatePeerCycle(target, up)
             \/ UpdatePeerMove(target, up)
             \/ UpdatePeerNew(target, up)
      PROVE  Inv'
  BY <1>1, UpdateKeepsLinks, MovePreserves, NewPreserves
<1>2. ASSUME NEW target \in BusId, RemovePeer(target) PROVE Inv'
  BY <1>2, RemovePreserves DEF RemovePeer
<1>3. CASE RemovePeerRecursive
  BY <1>3, RemovePreserves DEF RemovePeerRecursive, Inv, TypeOK
<1>4. CASE RemovePeerRecursiveAbsent
  BY <1>4 DEF RemovePeerRecursiveAbsent, Inv, TypeOK, Allocated, Acyclic,
              DownstreamConsistent, Born
<1>5. CASE UNCHANGED vars
  BY <1>5 DEF vars, Inv, TypeOK, Allocated, Acyclic, DownstreamConsistent, Born
<1> QED
  BY <1>1, <1>2, <1>3, <1>4, <1>5 DEF Next

\* The inductive invariant holds in every reachable state of the registry.
THEOREM RegistryInv == Spec => []Inv
  BY InitInv, NextInv, PTL DEF Spec

\* The variables keep their types.
THEOREM RegistryTypeOK == Spec => []TypeOK
<1>1. Inv => TypeOK
  BY DEF Inv
<1> QED
  BY <1>1, RegistryInv, PTL

\* No sequence of UpdatePeer and RemovePeer calls closes a loop of upstream
\* pointers, stale pointers to removed instances included.
THEOREM RegistryAcyclic == Spec => []Acyclic
<1>1. Inv => Acyclic
  BY DEF Inv
<1> QED
  BY <1>1, RegistryInv, PTL

\* Every entry of a downstream map is registered, points back, and belongs to
\* a registered peer, whatever clients remove.
THEOREM RegistryDownstreamConsistent == Spec => []DownstreamConsistent
<1>1. Inv => DownstreamConsistent
  BY DEF Inv
<1> QED
  BY <1>1, RegistryInv, PTL

-----------------------------------------------------------------------------
(* Clients that remove only leaves. *)

\* The peer the recursion runs on next is passive and has no downstream.
PendingIsPassiveLeaf ==
    pending # NoBus /\ data[pending] # Nil =>
        downstream[data[pending]] = {} /\ ~proactive[data[pending]]

LeafInv == ~RemoveInner => UpstreamConsistent /\ PendingIsPassiveLeaf

\* The empty registry has no upstream to be registered and no pending call.
LEMMA InitLeaf == Init => LeafInv
  BY NilNotPeer DEF Init, LeafInv, UpstreamConsistent, Registered, PendingIsPassiveLeaf

\* The UpdatePeer calls that change no link keep upstreams registered.
LEMMA UpdateKeepsLinksLeaf ==
  ASSUME Inv, LeafInv, ~RemoveInner,
         NEW target \in BusId, NEW up \in BusId \cup {NoBus},
         UpdatePeerSame(target, up) \/ UpdatePeerCycle(target, up)
  PROVE  LeafInv'
<1> DEFINE S == {up} \ {NoBus}
<1>0. S \in SUBSET BusId /\ TouchPeers(S)
  BY DEF UpdatePeerSame, UpdatePeerCycle
<1>1. /\ \A b \in BusId : data[b] # Nil => data'[b] = data[b]
      /\ \A b \in S : data'[b] = MutablePeer(b)
                      /\ (data[b] = Nil => MutablePeer(b) \notin Born)
  BY <1>0, TouchPeersFacts
<1>2. UNCHANGED <<upstream, downstream, pending>> /\ pending = NoBus
  BY DEF UpdatePeerSame, UpdatePeerCycle, UpdatePeerArgs
<1>3. ASSUME NEW p \in Peer, data'[BusOf(p)] = p, upstream[p] # Nil
      PROVE  data[BusOf(p)] = p
  <2>1. p \in Born /\ BusOf(p) \in BusId
    BY <1>3, PeerBus DEF Inv, Allocated
  <2>2. BusOf(p) \notin S => data'[BusOf(p)] = data[BusOf(p)]
    BY <1>0, <2>1 DEF TouchPeers
  <2> QED
    BY <1>1, <1>3, <2>1, <2>2
<1>4. UpstreamConsistent'
  BY <1>2, <1>3 DEF UpstreamConsistent, Registered, LeafInv
<1> QED
  BY <1>2, <1>4 DEF LeafInv, PendingIsPassiveLeaf

\* The UpdatePeer calls that link a peer link it below a registered one.
LEMMA LinkLeaf ==
  ASSUME Inv, Inv', LeafInv, ~RemoveInner,
         NEW target \in BusId, NEW up \in BusId \cup {NoBus},
         UpdatePeerMove(target, up) \/ UpdatePeerNew(target, up)
  PROVE  LeafInv'
<1> DEFINE P == MutablePeer(target)
           U == MutablePeer(up)
           S == IF data[target] # Nil THEN {up} \ {NoBus} ELSE {target, up} \ {NoBus}
<1>0. S \in SUBSET BusId /\ TouchPeers(S)
  BY DEF UpdatePeerMove, UpdatePeerNew
<1>1. /\ \A b \in BusId : data[b] # Nil => data'[b] = data[b]
      /\ \A b \in S : data'[b] = MutablePeer(b)
                      /\ BusOf(MutablePeer(b)) = b
                      /\ (data[b] = Nil => MutablePeer(b) \notin Born)
  BY <1>0, TouchPeersFacts
<1>2. /\ upstream' = [upstream EXCEPT ![P] = U]
      /\ \A q \in Peer : q # U => downstream[q] \ {P} \subseteq downstream'[q]
      /\ U # Nil => downstream'[U] = WithDownstream(downstream[U], P)
      /\ pending = NoBus /\ pending' = NoBus
  <2>1. U # Nil => U \in Peer
    BY <1>0, TouchPeersFacts DEF MutablePeer
  <2>2. target # NoBus
    BY NoBusNotBusId
  <2>3. CASE UpdatePeerMove(target, up)
    <3>1. P = data[target]
      BY <2>2, <2>3 DEF UpdatePeerMove, MutablePeer
    <3> QED
      BY <2>1, <2>3, <3>1 DEF UpdatePeerMove, UpdatePeerArgs
  <2>4. CASE UpdatePeerNew(target, up)
    BY <2>1, <2>4 DEF UpdatePeerNew, UpdatePeerArgs
  <2> QED
    BY <2>3, <2>4
<1>3. P \in Peer /\ BusOf(P) = target /\ data'[target] = P
  <2>1. CASE data[target] # Nil
    BY <1>1, <2>1, NoBusNotBusId DEF MutablePeer, Inv, Allocated, Born
  <2>2. CASE data[target] = Nil
    BY <1>0, <1>1, <2>2, NoBusNotBusId, TouchPeersFacts
  <2> QED
    BY <2>1, <2>2
<1> HIDE DEF P, U, S
<1>4. UpstreamConsistent'
  <2> SUFFICES ASSUME NEW p \in Peer, data'[BusOf(p)] = p, upstream'[p] # Nil
               PROVE  p \in downstream'[upstream'[p]]
    BY DEF UpstreamConsistent, Registered
  <2>1. CASE p = P
    BY <1>2, <1>3, <2>1 DEF Inv, TypeOK, WithDownstream
  <2>2. CASE p # P
    <3>1. upstream'[p] = upstream[p] /\ upstream[p] \in Peer
      BY <1>2, <2>2 DEF Inv, TypeOK
    <3>2. p \in Born /\ BusOf(p) \in BusId
      BY <3>1, PeerBus DEF Inv, Allocated
    <3>3. data[BusOf(p)] = p
      <4>1. BusOf(p) \notin S => data'[BusOf(p)] = data[BusOf(p)]
        BY <1>0, <3>2 DEF TouchPeers
      <4> QED
        BY <1>1, <3>2, <4>1
    <3>4. p \in downstream[upstream[p]]
      BY <3>1, <3>3 DEF LeafInv, UpstreamConsistent, Registered
    <3>5. BusOf(p) # BusOf(P)
      BY <1>3, <2>2
    <3> QED
      BY <1>2, <2>2, <3>1, <3>4, <3>5 DEF WithDownstream
  <2> QED
    BY <2>1, <2>2
<1> QED
  BY <1>2, <1>4 DEF LeafInv, PendingIsPassiveLeaf

\* Removing a leaf leaves nobody who points at it, and recurses only into an
\* upstream that is passive and without downstreams.
LEMMA RemoveLeaf ==
  ASSUME Inv, LeafInv, ~RemoveInner, NEW target \in BusId, data[target] # Nil,
         downstream[data[target]] = {}, RemoveInvocation(target)
  PROVE  LeafInv'
<1> DEFINE P == data[target]
           U == upstream[P]
<1>1. P \in Peer /\ BusOf(P) = target /\ U \in Peer \cup {Nil}
  BY DEF Inv, Allocated, Born, TypeOK
<1>2. /\ proactive' = [proactive EXCEPT ![P] = FALSE]
      /\ data' = [data EXCEPT ![target] = Nil]
      /\ downstream' = [q \in Peer |->
                           IF q = U THEN downstream[q] \ {P} ELSE downstream[q]]
      /\ pending' = IF U # Nil /\ ~proactive'[U] /\ downstream'[U] = {}
                    THEN BusOf(U) ELSE NoBus
      /\ upstream' = upstream
  BY DEF RemoveInvocation
<1>3. U # Nil => data[BusOf(U)] = U
  BY <1>1 DEF LeafInv, UpstreamConsistent, Registered, Inv, DownstreamConsistent
<1> HIDE DEF P, U
<1>4. UpstreamConsistent'
  <2> SUFFICES ASSUME NEW p \in Peer, data'[BusOf(p)] = p, upstream[p] # Nil
               PROVE  p \in downstream'[upstream[p]]
    BY <1>2 DEF UpstreamConsistent, Registered
  <2>1. BusOf(p) # target /\ data[BusOf(p)] = p
    BY <1>2, NilNotPeer, PeerBus DEF Inv, TypeOK
  <2>2. p \in downstream[upstream[p]] /\ p # P
    BY <1>1, <2>1 DEF LeafInv, UpstreamConsistent, Registered
  <2> QED
    BY <1>2, <2>2 DEF Inv, TypeOK
<1>5. PendingIsPassiveLeaf'
  <2> SUFFICES ASSUME pending' # NoBus, data'[pending'] # Nil
               PROVE  downstream'[data'[pending']] = {} /\ ~proactive'[data'[pending']]
    BY DEF PendingIsPassiveLeaf
  <2>1. U # Nil /\ ~proactive'[U] /\ downstream'[U] = {} /\ pending' = BusOf(U)
    BY <1>2
  <2>2. data'[BusOf(U)] = U
    BY <1>1, <1>2, <1>3, <2>1, PeerBus DEF Inv, TypeOK
  <2> QED
    BY <2>1, <2>2
<1> QED
  BY <1>4, <1>5 DEF LeafInv

\* Every step of clients that remove only leaves preserves LeafInv.
LEMMA NextLeaf == Inv /\ Inv' /\ LeafInv /\ [Next]_vars => LeafInv'
<1> SUFFICES ASSUME Inv, Inv', LeafInv, [Next]_vars, ~RemoveInner PROVE LeafInv'
  BY DEF LeafInv
<1>1. ASSUME NEW target \in BusId, NEW up \in BusId \cup {NoBus},
             \/ UpdatePeerSame(target, up)
             \/ UpdatePeerCycle(target, up)
             \/ UpdatePeerMove(target, up)
             \/ UpdatePeerNew(target, up)
      PROVE  LeafInv'
  BY <1>1, UpdateKeepsLinksLeaf, LinkLeaf
<1>2. ASSUME NEW target \in BusId, RemovePeer(target) PROVE LeafInv'
  BY <1>2, RemoveLeaf DEF RemovePeer
<1>3. CASE RemovePeerRecursive
  BY <1>3, RemoveLeaf DEF RemovePeerRecursive, LeafInv, PendingIsPassiveLeaf, Inv, TypeOK
<1>4. CASE RemovePeerRecursiveAbsent
  BY <1>4 DEF RemovePeerRecursiveAbsent, LeafInv, PendingIsPassiveLeaf,
              UpstreamConsistent, Registered
<1>5. CASE UNCHANGED vars
  BY <1>5 DEF vars, LeafInv, PendingIsPassiveLeaf, UpstreamConsistent, Registered
<1> QED
  BY <1>1, <1>2, <1>3, <1>4, <1>5 DEF Next

\* With such clients LeafInv holds in every reachable state.
LEMMA RegistryLeafInv == Spec => []LeafInv
  BY InitLeaf, NextLeaf, RegistryInv, PTL DEF Spec

\* When clients remove only peers without downstreams, links agree in both
\* directions in every reachable state.
THEOREM RegistryLeafRemovalKeepsForest == Spec => []LeafRemovalKeepsForest
<1>1. LeafInv => LeafRemovalKeepsForest
  BY DEF LeafInv, LeafRemovalKeepsForest
<1> QED
  BY <1>1, RegistryLeafInv, PTL

\* ... and the recursion of RemovePeer drops passive peers only.
THEOREM RegistryLeafRemovalKeepsProactive == Spec => LeafRemovalKeepsProactive
<1>1. Inv /\ LeafInv /\ [Next]_vars => [~RemoveInner => ProactiveStep]_vars
  <2> SUFFICES ASSUME Inv, LeafInv, Next, ~RemoveInner, NEW b \in BusId,
                      pending # NoBus, data[b] # Nil, proactive[data[b]]
               PROVE  data'[b] = data[b]
    BY DEF ProactiveStep
  <2>1. CASE RemovePeerRecursive
    <3>1. b # pending
      BY <2>1 DEF RemovePeerRecursive, LeafInv, PendingIsPassiveLeaf
    <3> QED
      BY <2>1, <3>1 DEF RemovePeerRecursive, RemoveInvocation, Inv, TypeOK
  <2>2. CASE RemovePeerRecursiveAbsent
    BY <2>2 DEF RemovePeerRecursiveAbsent
  <2> QED
    BY <2>1, <2>2 DEF Next, RemovePeer, UpdatePeerSame, UpdatePeerCycle,
                      UpdatePeerMove, UpdatePeerNew, UpdatePeerArgs
<1> QED
  BY <1>1, RegistryInv, RegistryLeafInv, PTL DEF Spec, LeafRemovalKeepsProactive

-----------------------------------------------------------------------------
(* GetRelation.                                                            *)

\* Every set of instances has a member that up takes out of it.
Forest(up) == \A S \in SUBSET Peer : S # {} => \E p \in S : up[p] \notin S

\* Induction from the roots down.
LEMMA PeerInduction ==
  ASSUME NEW up \in [Peer -> Peer \cup {Nil}], Forest(up), NEW P,
         \A p \in Peer : (up[p] = Nil \/ up[p] \in P) => p \in P
  PROVE  \A p \in Peer : p \in P
<1> DEFINE S == Peer \ P
<1> SUFFICES ASSUME S # {} PROVE FALSE
  OBVIOUS
<1>1. S \in SUBSET Peer
  OBVIOUS
<1>2. PICK p \in S : up[p] \notin S
  BY <1>1 DEF Forest
<1>3. up[p] = Nil \/ up[p] \in P
  BY <1>2
<1> QED BY <1>2, <1>3

\* The elements of c are p and those of t.
FirstOf(c, p, t) == \A x : x \in ToSet(c) <=> x = p \/ x \in ToSet(t)

\* The elements of a sequence behind a first one.
LEMMA FirstAndRest ==
  ASSUME NEW S, NEW p \in S, NEW t \in Seq(S), NEW c, c = <<p>> \o t
  PROVE  /\ c \in Seq(S) /\ Len(c) = 1 + Len(t) /\ c[1] = p
         /\ \A i \in 1..Len(t) : c[1 + i] = t[i]
         /\ FirstOf(c, p, t)
<1> DEFINE a == <<p>>
<1>1. a \in Seq(S) /\ Len(a) = 1 /\ a[1] = p /\ Len(t) \in Nat
  OBVIOUS
<1>2. c = a \o t
  OBVIOUS
<1> HIDE DEF a
<1>3. c \in Seq(S) /\ Len(c) = 1 + Len(t)
  BY <1>1, <1>2, ConcatProperties
<1>4. \A i \in 1..(Len(a) + Len(t)) : c[i] = IF i <= Len(a) THEN a[i] ELSE t[i - Len(a)]
  BY <1>1, <1>2, ConcatProperties
<1>5. c[1] = p
  BY <1>1, <1>4
<1>6. ASSUME NEW i \in 1..Len(t) PROVE c[1 + i] = t[i]
  <2>1. 1 + i \in 1..(Len(a) + Len(t)) /\ ~(1 + i <= Len(a)) /\ (1 + i) - Len(a) = i
    BY <1>1
  <2> QED BY <1>4, <2>1
<1>7. \A x : x \in ToSet(c) <=> x = p \/ x \in ToSet(t)
  <2>1. DOMAIN c = 1..(1 + Len(t)) /\ DOMAIN t = 1..Len(t)
    BY <1>3
  <2>2. ASSUME NEW x \in ToSet(c) PROVE x = p \/ x \in ToSet(t)
    <3>1. PICK i \in 1..(1 + Len(t)) : x = c[i]
      BY <2>1, <2>2 DEF ToSet
    <3>2. CASE i = 1
      BY <1>5, <3>1, <3>2
    <3>3. CASE i # 1
      <4>1. i - 1 \in 1..Len(t) /\ 1 + (i - 1) = i
        BY <1>1, <3>1, <3>3
      <4>2. x = t[i - 1]
        BY <1>6, <3>1, <4>1
      <4> QED BY <2>1, <4>1, <4>2 DEF ToSet
    <3> QED BY <3>2, <3>3
  <2>3. p \in ToSet(c)
    <3>1. 1 \in DOMAIN c
      BY <1>1, <2>1
    <3> QED BY <1>5, <3>1 DEF ToSet
  <2>4. ASSUME NEW x \in ToSet(t) PROVE x \in ToSet(c)
    <3>1. PICK i \in 1..Len(t) : x = t[i]
      BY <2>1, <2>4 DEF ToSet
    <3>2. 1 + i \in DOMAIN c /\ c[1 + i] = x
      BY <1>1, <1>6, <2>1, <3>1
    <3> QED BY <3>2 DEF ToSet
  <2> QED BY <2>2, <2>3, <2>4
<1> QED BY <1>3, <1>5, <1>6, <1>7 DEF FirstOf

\* The sequence c is p and what is above it.
IsChain(up, p, c) ==
  /\ c \in Seq(Peer) /\ Len(c) > 0 /\ c[1] = p /\ up[c[Len(c)]] = Nil
  /\ \A i \in 1..(Len(c) - 1) : c[i + 1] = up[c[i]]

\* A chain of a root.
LEMMA RootChain ==
  ASSUME NEW up, NEW p \in Peer, up[p] = Nil, NEW c
  PROVE  IsChain(up, p, c) <=> c = <<p>>
<1>1. ASSUME c = <<p>> PROVE IsChain(up, p, c)
  BY <1>1 DEF IsChain
<1>2. ASSUME IsChain(up, p, c) PROVE c = <<p>>
  <2>1. c \in Seq(Peer) /\ Len(c) \in Nat /\ Len(c) > 0 /\ c[1] = p
    BY <1>2 DEF IsChain
  <2>2. ASSUME Len(c) > 1 PROVE FALSE
    <3>1. 1 \in 1..(Len(c) - 1) /\ 1 + 1 = 2 /\ 2 \in 1..Len(c)
      BY <2>1, <2>2
    <3>2. c[2] = Nil
      BY <1>2, <2>1, <3>1 DEF IsChain
    <3>3. c[2] \in Peer
      BY <2>1, <3>1, ElementOfSeq
    <3> QED BY <3>2, <3>3, NilNotPeer
  <2>3. Len(c) = 1
    <3> DEFINE n == Len(c)
    <3>1. n \in Nat /\ n > 0 /\ ~(n > 1)
      BY <2>1, <2>2
    <3> HIDE DEF n
    <3>2. n = 1
      BY ONLY <3>1
    <3> QED BY <3>2 DEF n
  <2> DEFINE d == <<p>>
  <2>4. d \in Seq(Peer) /\ Len(d) = 1 /\ d[1] = p
    OBVIOUS
  <2> HIDE DEF d
  <2>5. \A i \in 1..Len(c) : c[i] = d[i]
    BY <2>1, <2>3, <2>4
  <2>6. c = d
    BY <2>1, <2>3, <2>4, <2>5, SeqEqual
  <2> QED BY <2>6 DEF d
<1> QED BY <1>1, <1>2

\* A chain of another peer starts with it and goes on as one of its upstream.
LEMMA ChainBelow ==
  ASSUME NEW up, NEW p \in Peer, up[p] \in Peer, NEW t, IsChain(up, up[p], t)
  PROVE  IsChain(up, p, <<p>> \o t)
<1> DEFINE c == <<p>> \o t
           n == Len(t)
<1>1. /\ t \in Seq(Peer) /\ n \in Nat /\ n > 0 /\ t[1] = up[p] /\ up[t[n]] = Nil
      /\ \A i \in 1..(n - 1) : t[i + 1] = up[t[i]]
  BY DEF IsChain
<1>2. c \in Seq(Peer) /\ Len(c) = 1 + n /\ c[1] = p /\ \A i \in 1..n : c[1 + i] = t[i]
  BY <1>1, FirstAndRest
<1> HIDE DEF c, n
<1>3. c[Len(c)] = t[n]
  BY <1>1, <1>2
<1>4. ASSUME NEW i \in 1..(Len(c) - 1) PROVE c[i + 1] = up[c[i]]
  <2>1. i \in 1..n /\ i + 1 = 1 + i
    BY <1>1, <1>2
  <2>2. c[i + 1] = t[i]
    BY <1>2, <2>1
  <2>3. CASE i = 1
    BY <1>1, <1>2, <2>2, <2>3
  <2>4. CASE i # 1
    <3>1. i - 1 \in 1..(n - 1) /\ i - 1 \in 1..n /\ (i - 1) + 1 = i /\ 1 + (i - 1) = i
      BY <1>1, <2>1, <2>4
    <3>2. t[i] = up[t[i - 1]] /\ c[i] = t[i - 1]
      BY <1>1, <1>2, <3>1
    <3> QED BY <2>2, <3>2
  <2> QED BY <2>3, <2>4
<1>5. Len(c) > 0 /\ up[c[Len(c)]] = Nil
  BY <1>1, <1>2, <1>3
<1>6. IsChain(up, p, c)
  BY <1>2, <1>4, <1>5 DEF IsChain
<1> QED BY <1>6 DEF c

\* A chain of a peer with an upstream goes on as a chain of the upstream.
LEMMA ChainRest ==
  ASSUME NEW up, NEW p \in Peer, up[p] \in Peer, NEW c, IsChain(up, p, c)
  PROVE  IsChain(up, up[p], Tail(c)) /\ c = <<p>> \o Tail(c)
<1> DEFINE n == Len(c)
           t == Tail(c)
<1>1. /\ c \in Seq(Peer) /\ n \in Nat /\ n > 0 /\ c[1] = p /\ up[c[n]] = Nil
      /\ \A i \in 1..(n - 1) : c[i + 1] = up[c[i]]
  BY DEF IsChain
<1>2. n > 1
  <2>1. n # 1
    BY <1>1, NilNotPeer
  <2>2. n \in Nat /\ n > 0
    BY <1>1
  <2> HIDE DEF n
  <2> QED BY ONLY <2>1, <2>2
<1>3. c # << >>
  BY <1>1
<1>4. t \in Seq(Peer) /\ Len(t) = n - 1 /\ \A i \in 1..Len(t) : t[i] = c[i + 1]
  BY <1>1, <1>3, HeadTailProperties
<1> HIDE DEF n, t
<1>5. t[1] = up[p] /\ up[t[Len(t)]] = Nil /\ Len(t) > 0
  <2>1. 1 \in 1..Len(t) /\ 1 \in 1..(n - 1) /\ Len(t) \in 1..Len(t) /\ Len(t) + 1 = n /\ Len(t) > 0
    BY <1>1, <1>2, <1>4
  <2> QED BY <1>1, <1>4, <2>1
<1>6. ASSUME NEW i \in 1..(Len(t) - 1) PROVE t[i + 1] = up[t[i]]
  <2>1. i \in 1..Len(t) /\ i + 1 \in 1..Len(t) /\ i + 1 \in 1..(n - 1)
    BY <1>1, <1>4
  <2> QED BY <1>1, <1>4, <2>1
<1>7. IsChain(up, up[p], t)
  BY <1>4, <1>5, <1>6 DEF IsChain
<1> DEFINE d == <<p>> \o t
<1>8. d \in Seq(Peer) /\ Len(d) = 1 + Len(t) /\ d[1] = p /\ \A i \in 1..Len(t) : d[1 + i] = t[i]
  BY <1>4, FirstAndRest
<1> HIDE DEF d
<1>9. c = d
  <2>1. Len(c) = Len(d)
    BY <1>1, <1>2, <1>4, <1>8 DEF n
  <2>2. ASSUME NEW i \in 1..Len(c) PROVE c[i] = d[i]
    <3>1. CASE i = 1
      BY <1>1, <1>8, <3>1
    <3>2. CASE i # 1
      <4>1. i - 1 \in 1..Len(t) /\ 1 + (i - 1) = i /\ (i - 1) + 1 = i
        BY <1>1, <1>4, <3>2 DEF n
      <4> QED BY <1>4, <1>8, <4>1
    <3> QED BY <3>1, <3>2
  <2> QED BY <1>1, <1>8, <2>1, <2>2, SeqEqual
<1> QED BY <1>7, <1>9 DEF t, d

\* A walk from every peer to the root of its tree.
Walks(up, ch) ==
  ch = [p \in Peer \cup {Nil} |-> IF p = Nil THEN << >> ELSE <<p>> \o ch[up[p]]]

\* In a forest there are such walks.
LEMMA WalksExist ==
  ASSUME NEW up \in [Peer -> Peer \cup {Nil}], Forest(up)
  PROVE  \E ch : Walks(up, ch)
<1> DEFINE P == {p \in Peer : \E c : IsChain(up, p, c)}
           Q == {p \in Peer : \A c, d : IsChain(up, p, c) /\ IsChain(up, p, d) => c = d}
<1>1. ASSUME NEW p \in Peer, up[p] = Nil \/ up[p] \in P PROVE p \in P
  <2>1. CASE up[p] = Nil
    BY <2>1, RootChain
  <2>2. CASE up[p] \in P
    <3>1. PICK t : IsChain(up, up[p], t)
      BY <2>2
    <3>2. up[p] \in Peer
      BY <2>2
    <3>3. IsChain(up, p, <<p>> \o t)
      BY <3>1, <3>2, ChainBelow
    <3> QED BY <3>3
  <2> QED BY <1>1, <2>1, <2>2
<1>2. ASSUME NEW p \in Peer, up[p] = Nil \/ up[p] \in Q PROVE p \in Q
  <2> SUFFICES ASSUME NEW c, NEW d, IsChain(up, p, c), IsChain(up, p, d) PROVE c = d
    OBVIOUS
  <2>1. CASE up[p] = Nil
    BY <2>1, RootChain
  <2>2. CASE up[p] \in Q
    <3>1. up[p] \in Peer
      BY <2>2
    <3>2. /\ IsChain(up, up[p], Tail(c)) /\ c = <<p>> \o Tail(c)
          /\ IsChain(up, up[p], Tail(d)) /\ d = <<p>> \o Tail(d)
      BY <3>1, ChainRest
    <3>3. Tail(c) = Tail(d)
      BY <2>2, <3>2
    <3> QED BY <3>2, <3>3
  <2> QED BY <1>2, <2>1, <2>2
<1> HIDE DEF P, Q
<1>3. \A p \in Peer : p \in P
  BY <1>1, PeerInduction
<1>4. \A p \in Peer : p \in Q
  BY <1>2, PeerInduction
<1> DEFINE g(p) == CHOOSE c : IsChain(up, p, c)
           f(p) == IF p = Nil THEN << >> ELSE g(p)
           ch == [p \in Peer \cup {Nil} |-> f(p)]
           next(p) == IF p = Nil THEN << >> ELSE <<p>> \o ch[up[p]]
<1>5. \A p \in Peer : IsChain(up, p, g(p))
  BY <1>3 DEF P
<1> HIDE DEF g
<1>6. ASSUME NEW p \in Peer \cup {Nil} PROVE f(p) = next(p)
  <2>1. CASE p = Nil
    BY <2>1
  <2>2. CASE p \in Peer
    <3>0. p # Nil /\ f(p) = g(p)
      BY <2>2, NilNotPeer
    <3>1. CASE up[p] = Nil
      <4>1. ch[up[p]] = << >>
        BY <3>1
      <4>2. g(p) = <<p>>
        BY <1>5, <2>2, <3>1, RootChain
      <4>3. <<p>> \o << >> = <<p>>
        OBVIOUS
      <4> QED BY <3>0, <4>1, <4>2, <4>3
    <3>2. CASE up[p] # Nil
      <4>1. up[p] \in Peer
        BY <2>2, <3>2
      <4>2. ch[up[p]] = g(up[p])
        BY <3>2, <4>1
      <4>3. IsChain(up, p, <<p>> \o g(up[p]))
        BY <1>5, <2>2, <4>1, ChainBelow
      <4>4. g(p) = <<p>> \o g(up[p])
        BY <1>4, <1>5, <2>2, <4>3 DEF Q
      <4> QED BY <3>0, <4>2, <4>4
    <3> QED BY <3>1, <3>2
  <2> QED BY <2>1, <2>2
<1>7. ch = [p \in Peer \cup {Nil} |-> next(p)]
  BY <1>6
<1>8. Walks(up, ch)
  <2> HIDE DEF f
  <2> QED BY <1>7 DEF Walks
<1> QED BY <1>8

\* The instances on the walk, and how many they are.
On(ch, p) == ToSet(ch[p])
Depth(ch, p) == Len(ch[p])

\* What the walks are made of.
WalkParts(up, ch) ==
  /\ ch[Nil] = << >> /\ On(ch, Nil) = {} /\ Depth(ch, Nil) = 0
  /\ \A p \in Peer : /\ ch[p] \in Seq(Peer) /\ ch[p] = <<p>> \o ch[up[p]]
                     /\ Depth(ch, p) \in Nat \ {0}
                     /\ Depth(ch, p) = 1 + Depth(ch, up[p])
                     /\ On(ch, p) = {p} \cup On(ch, up[p])

\* A walk is its first instance and the walk of the upstream.
LEMMA WalkFacts ==
  ASSUME NEW up \in [Peer -> Peer \cup {Nil}], Forest(up), NEW ch, Walks(up, ch)
  PROVE  WalkParts(up, ch)
<1>1. /\ ch[Nil] = << >>
      /\ \A p \in Peer : ch[p] = <<p>> \o ch[up[p]]
  BY NilNotPeer DEF Walks
<1>2. On(ch, Nil) = {} /\ Depth(ch, Nil) = 0
  BY <1>1 DEF On, Depth, ToSet
<1> DEFINE P == {p \in Peer : ch[p] \in Seq(Peer)}
<1>3. ASSUME NEW p \in Peer, up[p] = Nil \/ up[p] \in P
      PROVE  /\ ch[up[p]] \in Seq(Peer) /\ p \in P /\ Depth(ch, p) \in Nat \ {0}
             /\ Depth(ch, p) = 1 + Depth(ch, up[p])
             /\ On(ch, p) = {p} \cup On(ch, up[p])
  <2> DEFINE t == ch[up[p]]
             c == ch[p]
  <2>1. t \in Seq(Peer)
    <3>1. CASE up[p] = Nil
      <4>1. t = << >>
        BY <1>1, <3>1
      <4> HIDE DEF t
      <4> QED BY <4>1
    <3>2. CASE up[p] \in P
      BY <3>2
    <3> QED BY <1>3, <3>1, <3>2
  <2>2. p \in Peer /\ t \in Seq(Peer) /\ c = <<p>> \o t
    BY <1>1, <2>1
  <2> HIDE DEF c, t
  <2>3. c \in Seq(Peer) /\ Len(c) = 1 + Len(t) /\ ToSet(c) = {p} \cup ToSet(t)
    <3>1. c \in Seq(Peer) /\ Len(c) = 1 + Len(t)
      BY <2>2, FirstAndRest
    <3>2. ToSet(c) = {p} \cup ToSet(t)
      <4>1. FirstOf(c, p, t)
        BY <2>2, FirstAndRest
      <4> QED BY <4>1 DEF FirstOf
    <3> QED BY <3>1, <3>2
  <2>4. Len(t) \in Nat
    BY <2>1
  <2>5. Len(c) \in Nat \ {0}
    BY <2>3, <2>4
  <2> QED BY <2>1, <2>3, <2>5 DEF On, Depth, c, t
<1> HIDE DEF P
<1>4. \A p \in Peer : (up[p] = Nil \/ up[p] \in P) => p \in P
  BY <1>3
<1>5. \A p \in Peer : p \in P
  BY <1>4, PeerInduction
<1>6. \A p \in Peer : up[p] = Nil \/ up[p] \in P
  BY <1>5
<1>7. \A p \in Peer : ch[p] \in Seq(Peer)
  BY <1>5 DEF P
<1> QED BY <1>1, <1>2, <1>3, <1>6, <1>7 DEF WalkParts

\* Instances on a walk lie above where it starts, and their walks are part of it.
LEMMA OnFacts ==
  ASSUME NEW up \in [Peer -> Peer \cup {Nil}], Forest(up),
         NEW ch, WalkParts(up, ch)
  PROVE  \A p \in Peer : \A a \in On(ch, p) :
           /\ a \in Peer /\ Depth(ch, a) <= Depth(ch, p) /\ On(ch, a) \subseteq On(ch, p)
           /\ Depth(ch, a) = Depth(ch, p) => a = p
<1> DEFINE A(p) == On(ch, p)
           d(p) == Depth(ch, p)
           P == {p \in Peer : \A a \in A(p) : /\ a \in Peer /\ d(a) <= d(p) /\ A(a) \subseteq A(p)
                                              /\ d(a) = d(p) => a = p}
<1>1. /\ A(Nil) = {}
      /\ \A p \in Peer : d(p) \in Nat /\ d(p) = 1 + d(up[p]) /\ A(p) = {p} \cup A(up[p])
  BY DEF WalkParts
<1> HIDE DEF A, d
<1>2. ASSUME NEW p \in Peer, up[p] = Nil \/ up[p] \in P PROVE p \in P
  <2> SUFFICES ASSUME NEW a \in A(p)
               PROVE  /\ a \in Peer /\ d(a) <= d(p) /\ A(a) \subseteq A(p)
                      /\ d(a) = d(p) => a = p
    OBVIOUS
  <2>1. CASE a = p
    BY <1>1, <2>1
  <2>2. CASE a # p
    <3>1. a \in A(up[p]) /\ up[p] # Nil /\ up[p] \in Peer
      BY <1>1, <2>2
    <3>2. a \in Peer /\ d(a) <= d(up[p]) /\ A(a) \subseteq A(up[p])
      BY <1>2, <3>1
    <3>3. d(a) \in Nat /\ d(up[p]) \in Nat /\ d(p) = 1 + d(up[p]) /\ A(up[p]) \subseteq A(p)
      BY <1>1, <3>1, <3>2
    <3>4. d(a) <= d(p) /\ d(a) # d(p)
      BY <3>2, <3>3
    <3> QED BY <3>2, <3>3, <3>4
  <2> QED BY <2>1, <2>2
<1> HIDE DEF P
<1>3. \A p \in Peer : p \in P
  BY <1>2, PeerInduction
<1> QED BY <1>3 DEF P, A, d

\* Of two instances on a walk the higher one is on the walk of the other.
LEMMA OnLine ==
  ASSUME NEW up \in [Peer -> Peer \cup {Nil}], Forest(up),
         NEW ch, WalkParts(up, ch)
  PROVE  \A p \in Peer : \A a \in On(ch, p), b \in On(ch, p) :
           Depth(ch, a) <= Depth(ch, b) => a \in On(ch, b)
<1> DEFINE A(p) == On(ch, p)
           d(p) == Depth(ch, p)
           P == {p \in Peer : \A a \in A(p), b \in A(p) : d(a) <= d(b) => a \in A(b)}
<1>1. /\ A(Nil) = {}
      /\ \A p \in Peer : d(p) \in Nat /\ d(p) = 1 + d(up[p]) /\ A(p) = {p} \cup A(up[p])
  BY DEF WalkParts
<1>2. \A p \in Peer : \A a \in A(p) : a \in Peer /\ d(a) <= d(p) /\ (d(a) = d(p) => a = p)
  BY OnFacts
<1> HIDE DEF A, d
<1>3. ASSUME NEW p \in Peer, up[p] = Nil \/ up[p] \in P PROVE p \in P
  <2> SUFFICES ASSUME NEW a \in A(p), NEW b \in A(p), d(a) <= d(b) PROVE a \in A(b)
    OBVIOUS
  <2>1. CASE b = p
    BY <2>1
  <2>2. CASE b # p /\ a = p
    <3>1. a \in Peer /\ b \in Peer /\ d(a) \in Nat /\ d(b) \in Nat /\ d(b) <= d(a)
      BY <1>1, <1>2, <2>2
    <3>2. d(b) = d(p)
      BY <2>2, <3>1
    <3> QED BY <1>2, <2>2, <3>2
  <2>3. CASE b # p /\ a # p
    <3>1. a \in A(up[p]) /\ b \in A(up[p]) /\ up[p] # Nil
      BY <1>1, <2>3
    <3> QED BY <1>3, <3>1
  <2> QED BY <2>1, <2>2, <2>3
<1> HIDE DEF P
<1>4. \A p \in Peer : p \in P
  BY <1>3, PeerInduction
<1> QED BY <1>4 DEF P, A, d

\* Above the start of a walk every instance on it is reached from one below.
LEMMA OnBelow ==
  ASSUME NEW up \in [Peer -> Peer \cup {Nil}], Forest(up),
         NEW ch, WalkParts(up, ch)
  PROVE  \A p \in Peer : \A a \in On(ch, p) : a # p => \E b \in On(ch, p) : up[b] = a
<1> DEFINE A(p) == On(ch, p)
           P == {p \in Peer : \A a \in A(p) : a # p => \E b \in A(p) : up[b] = a}
<1>1. A(Nil) = {} /\ \A p \in Peer : A(p) = {p} \cup A(up[p])
  BY DEF WalkParts
<1> HIDE DEF A
<1>2. ASSUME NEW p \in Peer, up[p] = Nil \/ up[p] \in P PROVE p \in P
  <2> SUFFICES ASSUME NEW a \in A(p), a # p PROVE \E b \in A(p) : up[b] = a
    OBVIOUS
  <2>1. a \in A(up[p]) /\ up[p] # Nil /\ up[p] \in P
    BY <1>1, <1>2
  <2>2. CASE a = up[p]
    BY <1>1, <2>2
  <2>3. CASE a # up[p]
    <3>1. PICK b \in A(up[p]) : up[b] = a
      BY <2>1, <2>3
    <3> QED BY <1>1, <3>1
  <2> QED BY <2>2, <2>3
<1> HIDE DEF P
<1>3. \A p \in Peer : p \in P
  BY <1>2, PeerInduction
<1> QED BY <1>3 DEF P, A

\* The instance that the walk is at after n steps is n higher.
LEMMA StepDepth ==
  ASSUME NEW up \in [Peer -> Peer \cup {Nil}], Forest(up),
         NEW ch, WalkParts(up, ch)
  PROVE  \A p \in Peer : \A i \in 1..Depth(ch, p) :
           ch[p][i] \in On(ch, p) /\ Depth(ch, ch[p][i]) = Depth(ch, p) + 1 - i
<1> DEFINE P == {p \in Peer : \A i \in 1..Depth(ch, p) : Depth(ch, ch[p][i]) = Depth(ch, p) + 1 - i}
<1>1. ASSUME NEW p \in Peer, up[p] = Nil \/ up[p] \in P PROVE p \in P
  <2> DEFINE c == ch[p]
             u == up[p]
             t == ch[u]
             n == Depth(ch, u)
  <2>1. /\ c = <<p>> \o t /\ Depth(ch, p) = 1 + n /\ Depth(ch, Nil) = 0
    BY DEF WalkParts
  <2>2. t \in Seq(Peer) /\ n \in Nat /\ Len(t) = n
    <3>1. CASE u = Nil
      <4>1. t = << >>
        BY <3>1 DEF WalkParts
      <4> QED BY <4>1 DEF Depth
    <3>2. CASE u \in Peer
      BY <3>2 DEF WalkParts, Depth
    <3> QED BY <3>1, <3>2
  <2>3. c[1] = p /\ \A i \in 1..n : c[1 + i] = t[i]
    <3> HIDE DEF c, t, n
    <3>1. c[1] = p /\ \A i \in 1..Len(t) : c[1 + i] = t[i]
      BY <2>1, <2>2, FirstAndRest
    <3> QED BY <2>2, <3>1
  <2>4. \A i \in 1..n : Depth(ch, t[i]) = n + 1 - i
    <3>1. CASE u = Nil
      BY <2>1, <3>1
    <3>2. CASE u \in P
      BY <3>2
    <3> QED BY <1>1, <3>1, <3>2
  <2> HIDE DEF c, t, n
  <2>5. ASSUME NEW i \in 1..Depth(ch, p) PROVE Depth(ch, c[i]) = Depth(ch, p) + 1 - i
    <3>1. i \in 1..(1 + n)
      BY <2>1
    <3>2. CASE i = 1
      <4>1. c[i] = p /\ (1 + n) + 1 - 1 = 1 + n
        BY <2>2, <2>3, <3>2
      <4> QED BY <2>1, <3>2, <4>1
    <3>3. CASE i # 1
      <4>1. i - 1 \in 1..n /\ 1 + (i - 1) = i /\ n + 1 - (i - 1) = (1 + n) + 1 - i
        BY <2>2, <3>1, <3>3
      <4>2. c[i] = t[i - 1] /\ Depth(ch, t[i - 1]) = n + 1 - (i - 1)
        BY <2>3, <2>4, <4>1
      <4> QED BY <2>1, <4>1, <4>2
    <3> QED BY <3>2, <3>3
  <2> QED BY <2>5 DEF c
<1> HIDE DEF P
<1>2. \A p \in Peer : p \in P
  BY <1>1, PeerInduction
<1>3. ASSUME NEW p \in Peer, NEW i \in 1..Depth(ch, p) PROVE ch[p][i] \in On(ch, p)
  <2>1. ch[p] \in Seq(Peer)
    BY DEF WalkParts
  <2>2. DOMAIN ch[p] = 1..Depth(ch, p)
    BY <2>1 DEF Depth
  <2> QED BY <2>2 DEF On, ToSet
<1> QED BY <1>2, <1>3 DEF P

\* How the walks of a forest lie to each other.
WalkOrder(up, ch) ==
  /\ On(ch, Nil) = {} /\ Depth(ch, Nil) = 0
  /\ \A p \in Peer : /\ Depth(ch, p) \in Nat \ {0} /\ Depth(ch, p) = 1 + Depth(ch, up[p])
                     /\ On(ch, p) = {p} \cup On(ch, up[p])
  /\ \A p \in Peer : \A a \in On(ch, p) :
       /\ a \in Peer /\ Depth(ch, a) <= Depth(ch, p) /\ On(ch, a) \subseteq On(ch, p)
       /\ Depth(ch, a) = Depth(ch, p) => a = p
  /\ \A p \in Peer : \A a \in On(ch, p), b \in On(ch, p) :
       Depth(ch, a) <= Depth(ch, b) => a \in On(ch, b)
  /\ \A p \in Peer : \A a \in On(ch, p) : a # p => \E b \in On(ch, p) : up[b] = a

\* The lemmas above together.
LEMMA WalksAreOrdered ==
  ASSUME NEW up \in [Peer -> Peer \cup {Nil}], Forest(up), NEW ch, WalkParts(up, ch)
  PROVE  WalkOrder(up, ch)
<1>1. /\ On(ch, Nil) = {} /\ Depth(ch, Nil) = 0
      /\ \A p \in Peer : /\ Depth(ch, p) \in Nat \ {0} /\ Depth(ch, p) = 1 + Depth(ch, up[p])
                         /\ On(ch, p) = {p} \cup On(ch, up[p])
  BY DEF WalkParts
<1>2. \A p \in Peer : \A a \in On(ch, p) :
        /\ a \in Peer /\ Depth(ch, a) <= Depth(ch, p) /\ On(ch, a) \subseteq On(ch, p)
        /\ Depth(ch, a) = Depth(ch, p) => a = p
  BY OnFacts
<1>3. \A p \in Peer : \A a \in On(ch, p), b \in On(ch, p) :
        Depth(ch, a) <= Depth(ch, b) => a \in On(ch, b)
  BY OnLine
<1>4. \A p \in Peer : \A a \in On(ch, p) : a # p => \E b \in On(ch, p) : up[b] = a
  BY OnBelow
<1> QED BY <1>1, <1>2, <1>3, <1>4 DEF WalkOrder

\* The instance a is the lowest one that the walks of p and q share.
Deepest(ch, p, q, a) ==
  /\ a \in On(ch, p) /\ a \in On(ch, q)
  /\ \A c \in On(ch, p) : c \in On(ch, q) => Depth(ch, c) <= Depth(ch, a)

\* There is at most one such instance.
LEMMA DeepestUnique ==
  ASSUME NEW up, NEW ch, WalkOrder(up, ch), NEW p \in Peer, NEW q \in Peer,
         NEW a, Deepest(ch, p, q, a), NEW b, Deepest(ch, p, q, b)
  PROVE  a = b
<1>1. a \in On(ch, p) /\ b \in On(ch, p) /\ Depth(ch, a) <= Depth(ch, b) /\ Depth(ch, b) <= Depth(ch, a)
  BY DEF Deepest
<1>2. a \in Peer /\ b \in Peer /\ Depth(ch, a) \in Nat /\ Depth(ch, b) \in Nat
  BY <1>1 DEF WalkOrder
<1>3. a \in On(ch, b)
  BY <1>1 DEF WalkOrder
<1>4. Depth(ch, a) = Depth(ch, b)
  BY <1>1, <1>2
<1> QED BY <1>2, <1>3, <1>4 DEF WalkOrder

\* When one of two instances is above the other, it is where they meet.
LEMMA DeepestOnWalk ==
  ASSUME NEW up, NEW ch, WalkOrder(up, ch), NEW p \in Peer, NEW q \in Peer
  PROVE  /\ p \in On(ch, p)
         /\ q \in On(ch, p) => Deepest(ch, p, q, q)
         /\ p \in On(ch, q) => Deepest(ch, p, q, p)
<1>1. p \in On(ch, p) /\ q \in On(ch, q)
  BY DEF WalkOrder
<1>2. \A c \in On(ch, p) : Depth(ch, c) <= Depth(ch, p)
  BY DEF WalkOrder
<1>3. \A c \in On(ch, q) : Depth(ch, c) <= Depth(ch, q)
  BY DEF WalkOrder
<1> QED BY <1>1, <1>2, <1>3 DEF Deepest

\* An instance that is not on the walk of q shares with it what its upstream
\* shares with it.
LEMMA DeepestUp ==
  ASSUME NEW up, NEW ch, WalkOrder(up, ch), NEW p \in Peer, NEW q \in Peer, p \notin On(ch, q),
         NEW a
  PROVE  Deepest(ch, p, q, a) <=> Deepest(ch, up[p], q, a)
<1>1. On(ch, p) = {p} \cup On(ch, up[p])
  BY DEF WalkOrder
<1>2. \A c \in On(ch, q) : c \in On(ch, p) <=> c \in On(ch, up[p])
  BY <1>1
<1> QED BY <1>2 DEF Deepest

\* Where two peers below the same upstream meet.
LEMMA DeepestSiblings ==
  ASSUME NEW up, NEW ch, WalkOrder(up, ch), NEW p \in Peer, NEW q \in Peer, p # q,
         up[p] = up[q], up[p] \in Peer
  PROVE  Deepest(ch, p, q, up[p])
<1> DEFINE u == up[p]
<1>1. /\ On(ch, p) = {p} \cup On(ch, u) /\ On(ch, q) = {q} \cup On(ch, u)
      /\ Depth(ch, p) = 1 + Depth(ch, u) /\ Depth(ch, u) \in Nat /\ u \in Peer
      /\ u \in On(ch, u)
  BY DEF WalkOrder
<1>2. p \notin On(ch, q)
  <2> SUFFICES ASSUME p \in On(ch, u) PROVE FALSE
    BY <1>1
  <2>1. Depth(ch, p) <= Depth(ch, u)
    BY <1>1 DEF WalkOrder
  <2> QED BY <1>1, <2>1
<1>3. u \in On(ch, q)
  BY <1>1
<1>4. Deepest(ch, u, q, u)
  BY <1>1, <1>3, DeepestOnWalk
<1> QED BY <1>2, <1>4, DeepestUp

\* Two walks that share an instance share a lowest one.
LEMMA DeepestExists ==
  ASSUME NEW up \in [Peer -> Peer \cup {Nil}], Forest(up), NEW ch, WalkOrder(up, ch),
         NEW p \in Peer, NEW q \in Peer, NEW c \in On(ch, p), c \in On(ch, q)
  PROVE  \E a : Deepest(ch, p, q, a)
<1> DEFINE P == {r \in Peer : (\E x \in On(ch, r) : x \in On(ch, q)) => \E a : Deepest(ch, r, q, a)}
<1>1. ASSUME NEW r \in Peer, up[r] = Nil \/ up[r] \in P PROVE r \in P
  <2> SUFFICES ASSUME NEW x \in On(ch, r), x \in On(ch, q) PROVE \E a : Deepest(ch, r, q, a)
    OBVIOUS
  <2>1. CASE r \in On(ch, q)
    <3>1. Deepest(ch, r, q, r)
      BY <2>1, DeepestOnWalk
    <3> QED BY <3>1
  <2>2. CASE r \notin On(ch, q)
    <3>1. x \in On(ch, up[r])
      BY <2>2 DEF WalkOrder
    <3>2. up[r] # Nil
      BY <3>1 DEF WalkOrder
    <3>3. PICK a : Deepest(ch, up[r], q, a)
      BY <1>1, <3>1, <3>2
    <3>4. Deepest(ch, r, q, a)
      BY <2>2, <3>3, DeepestUp
    <3> QED BY <3>4
  <2> QED BY <2>1, <2>2
<1> HIDE DEF P
<1>2. \A r \in Peer : r \in P
  BY <1>1, PeerInduction
<1> QED BY <1>2 DEF P

-----------------------------------------------------------------------------
(* The walk, the lowest common upstream and the distance in a state.       *)

\* In a forest UpstreamChain is the walk of the code's loop.
LEMMA ChainWalks ==
  ASSUME TypeOK, Acyclic
  PROVE  /\ upstream \in [Peer -> Peer \cup {Nil}] /\ Forest(upstream)
         /\ WalkParts(upstream, UpstreamChain) /\ WalkOrder(upstream, UpstreamChain)
<1>1. upstream \in [Peer -> Peer \cup {Nil}] /\ Forest(upstream)
  BY DEF TypeOK, Acyclic, Forest
<1>2. \E ch : Walks(upstream, ch)
  BY <1>1, WalksExist
<1>3. Walks(upstream, UpstreamChain)
  BY <1>2 DEF Walks, UpstreamChain
<1>4. WalkParts(upstream, UpstreamChain)
  BY <1>1, <1>3, WalkFacts
<1> QED BY <1>1, <1>4, WalksAreOrdered

\* What two instances share.
LEMMA CommonIs ==
  ASSUME TypeOK, Acyclic, NEW p \in Peer, NEW q \in Peer
  PROVE  Common(p, q) = On(UpstreamChain, p) \cap On(UpstreamChain, q)
<1>1. On(UpstreamChain, p) = {p} \cup On(UpstreamChain, upstream[p])
  BY ChainWalks DEF WalkOrder
<1>2. On(UpstreamChain, q) = {q} \cup On(UpstreamChain, upstream[q])
  BY ChainWalks DEF WalkOrder
<1>3. Above(p) = On(UpstreamChain, upstream[p]) /\ Above(q) = On(UpstreamChain, upstream[q])
  BY DEF Above, On
<1> QED BY <1>1, <1>2, <1>3 DEF Common

\* The steps up are the difference of the depths.
LEMMA StepsUpIs ==
  ASSUME TypeOK, Acyclic, NEW p \in Peer, NEW a \in On(UpstreamChain, p)
  PROVE  StepsUp(p, a) = Depth(UpstreamChain, p) - Depth(UpstreamChain, a)
<1> DEFINE n == Depth(UpstreamChain, p)
           c == UpstreamChain[p]
           k == StepsUp(p, a)
<1>1. c \in Seq(Peer) /\ n \in Nat /\ Len(c) = n /\ DOMAIN c = 1..n
  <2>1. c \in Seq(Peer)
    BY ChainWalks DEF WalkParts
  <2>2. n = Len(c)
    BY DEF Depth
  <2> HIDE DEF c, n
  <2> QED BY <2>1, <2>2
<1>2. \A i \in 1..n : Depth(UpstreamChain, c[i]) = n + 1 - i
  BY ChainWalks, StepDepth
<1>3. PICK i \in 1..n : c[i] = a
  BY <1>1 DEF On, ToSet
<1>4. i - 1 \in 0..(n - 1) /\ (i - 1) + 1 = i
  BY <1>1
<1>5. \E m \in 0..(n - 1) : c[m + 1] = a
  BY <1>3, <1>4
<1>6. k = CHOOSE m \in 0..(n - 1) : c[m + 1] = a
  BY <1>1 DEF StepsUp
<1>7. k \in 0..(n - 1) /\ c[k + 1] = a
  <2> HIDE DEF k, n, c
  <2> QED BY <1>5, <1>6
<1> HIDE DEF k, n, c
<1>8. k + 1 \in 1..n /\ n + 1 - (k + 1) = n - k
  BY <1>1, <1>7
<1>9. Depth(UpstreamChain, a) = n - k
  BY <1>2, <1>7, <1>8
<1>10. k = n - Depth(UpstreamChain, a)
  BY <1>1, <1>7, <1>9
<1> QED BY <1>10 DEF k, n

\* The code's walk of two peers meets where the reference does.
LEMMA MeetIs ==
  ASSUME TypeOK, Acyclic, NEW p \in Peer, NEW q \in Peer,
         NEW a, Deepest(UpstreamChain, p, q, a)
  PROVE  /\ Meet(p, q) = a /\ Common(p, q) # {}
         /\ StepsUp(p, Meet(p, q)) = Depth(UpstreamChain, p) - Depth(UpstreamChain, a)
         /\ StepsUp(q, Meet(p, q)) = Depth(UpstreamChain, q) - Depth(UpstreamChain, a)
<1> DEFINE d(x) == Depth(UpstreamChain, x)
           m == Meet(p, q)
           C == Common(p, q)
<1>0. WalkOrder(upstream, UpstreamChain)
  BY ChainWalks
<1>1. C = On(UpstreamChain, p) \cap On(UpstreamChain, q)
  BY CommonIs
<1>2. a \in C /\ \A c \in C : d(c) <= d(a)
  BY <1>1 DEF Deepest
<1>3. \A c \in C : StepsUp(p, c) = d(p) - d(c)
  BY <1>1, StepsUpIs
<1>4. \A c \in C : d(c) \in Nat /\ d(p) \in Nat
  BY <1>0, <1>1 DEF WalkOrder
<1>5. m = CHOOSE x \in C : \A c \in C : StepsUp(p, x) <= StepsUp(p, c)
  BY DEF Meet
<1> HIDE DEF C, m, d
<1>6. \A c \in C : StepsUp(p, a) <= StepsUp(p, c)
  <2> SUFFICES ASSUME NEW c \in C PROVE StepsUp(p, a) <= StepsUp(p, c)
    OBVIOUS
  <2>1. d(a) \in Nat /\ d(c) \in Nat /\ d(p) \in Nat /\ d(c) <= d(a)
    BY <1>2, <1>4
  <2>2. d(p) - d(a) <= d(p) - d(c)
    BY ONLY <2>1
  <2> QED BY <1>2, <1>3, <2>2
<1>7. m \in C /\ \A c \in C : StepsUp(p, m) <= StepsUp(p, c)
  BY <1>2, <1>5, <1>6
<1>8. \A c \in C : d(c) <= d(m)
  <2> SUFFICES ASSUME NEW c \in C PROVE d(c) <= d(m)
    OBVIOUS
  <2>1. d(m) \in Nat /\ d(c) \in Nat /\ d(p) \in Nat /\ d(p) - d(m) <= d(p) - d(c)
    BY <1>3, <1>4, <1>7
  <2> QED BY ONLY <2>1
<1>9. Deepest(UpstreamChain, p, q, m)
  BY <1>1, <1>7, <1>8 DEF Deepest, d
<1>10. m = a
  BY <1>0, <1>9, DeepestUnique
<1>11. StepsUp(p, a) = d(p) - d(a) /\ StepsUp(q, a) = d(q) - d(a)
  BY <1>1, <1>2, StepsUpIs DEF d
<1> QED BY <1>2, <1>10, <1>11 DEF m, C, d

-----------------------------------------------------------------------------
(* GetRelation and its reference.                                          *)

\* The kind of a path, case by case.
LEMMA KindFacts ==
  ASSUME NEW i \in Nat, NEW j \in Nat
  PROVE  /\ i = 0 /\ j = 0 => KindOnPath(i, j) = "Self"
         /\ i = 1 /\ j = 0 => KindOnPath(i, j) = "ImmediateUpstream"
         /\ i = 0 /\ j = 1 => KindOnPath(i, j) = "ImmediateDownstream"
         /\ i = 1 /\ j = 1 => KindOnPath(i, j) = "SameUpstreamPeer"
         /\ i > 1 /\ j = 0 => KindOnPath(i, j) = "TransitiveUpstream"
         /\ i = 0 /\ j > 1 => KindOnPath(i, j) = "TransitiveDownstream"
         /\ i > 0 /\ j > 0 /\ ~(i = 1 /\ j = 1) => KindOnPath(i, j) = "OtherUpstreamPeer"
  BY DEF KindOnPath

\* GetRelation of two registered peers, as a cascade over the instances.
Cascade(F, T, r) ==
  /\ F = T => r = Relation("Self", T)
  /\ F # T =>
       /\ upstream[F] = T => r = Relation("ImmediateUpstream", T)
       /\ upstream[F] # T =>
            /\ upstream[T] = F => r = Relation("ImmediateDownstream", T)
            /\ upstream[T] # F =>
                 /\ upstream[F] # Nil /\ upstream[F] = upstream[T]
                      => r = Relation("SameUpstreamPeer", upstream[F])
                 /\ ~(upstream[F] # Nil /\ upstream[F] = upstream[T]) =>
                      /\ T \in Above(F) => r = Relation("TransitiveUpstream", upstream[F])
                      /\ T \notin Above(F) =>
                           /\ F \in Above(T) =>
                                r = Relation("TransitiveDownstream", StepBelow(F, T))
                           /\ F \notin Above(T) =>
                                r = Relation("OtherUpstreamPeer",
                                             IF upstream[F] # Nil THEN upstream[F] ELSE T)

\* The lookups of two registered peers succeed.
LEMMA RelationCascade ==
  ASSUME NEW F \in Registered, NEW T \in Registered
  PROVE  Cascade(F, T, GetRelation(BusOf(F), BusOf(T)))
<1>1. F \in Peer /\ T \in Peer /\ data[BusOf(F)] = F /\ data[BusOf(T)] = T
  BY DEF Registered
<1>2. F # Nil /\ T # Nil
  BY <1>1, NilNotPeer
<1>3. BusOf(F) = BusOf(T) <=> F = T
  BY <1>1
<1> DEFINE f == BusOf(F)
           t == BusOf(T)
<1>4. data[f] = F /\ data[t] = T /\ (f = t <=> F = T)
  BY <1>1, <1>3
<1> HIDE DEF f, t
<1>5. Cascade(F, T, GetRelation(f, t))
  BY <1>2, <1>4 DEF GetRelation, Cascade
<1> QED BY <1>5 DEF f, t

\* How two different peers lie to each other, with where they meet, how deep
\* each of them lies below that, and what GetRelation answers.
Placed(F, T, r) ==
  LET ch == UpstreamChain
      dF == Depth(ch, F)
      dT == Depth(ch, T)
  IN  \/ /\ T \in On(ch, F) /\ Deepest(ch, F, T, T) /\ dF = dT + 1
         /\ r = Relation("ImmediateUpstream", T) /\ upstream[F] = T
      \/ /\ F \in On(ch, T) /\ Deepest(ch, F, T, F) /\ dT = dF + 1
         /\ r = Relation("ImmediateDownstream", T)
      \/ /\ upstream[F] \in Peer /\ Deepest(ch, F, T, upstream[F]) /\ upstream[F] = upstream[T]
         /\ dF = Depth(ch, upstream[F]) + 1 /\ dT = Depth(ch, upstream[F]) + 1
         /\ r = Relation("SameUpstreamPeer", upstream[F])
      \/ /\ upstream[F] \in Peer /\ T \in On(ch, upstream[F]) /\ Deepest(ch, F, T, T) /\ dF > dT + 1
         /\ r = Relation("TransitiveUpstream", upstream[F])
      \/ /\ F \in On(ch, T) /\ Deepest(ch, F, T, F) /\ dT > dF + 1
         /\ r = Relation("TransitiveDownstream", StepBelow(F, T))
      \/ /\ T \notin On(ch, F) /\ F \notin On(ch, T)
         /\ ~(upstream[F] # Nil /\ upstream[F] = upstream[T])
         /\ r = Relation("OtherUpstreamPeer", IF upstream[F] # Nil THEN upstream[F] ELSE T)

\* Every pair of different registered peers is placed so.
LEMMA RelationPlaced ==
  ASSUME TypeOK, Acyclic, NEW F \in Registered, NEW T \in Registered, F # T
  PROVE  Placed(F, T, GetRelation(BusOf(F), BusOf(T)))
<1> DEFINE ch == UpstreamChain
           r == GetRelation(BusOf(F), BusOf(T))
           u == upstream[F]
           v == upstream[T]
<1>1. Cascade(F, T, r)
  BY RelationCascade
<1>2. F \in Peer /\ T \in Peer /\ u \in Peer \cup {Nil} /\ v \in Peer \cup {Nil}
  BY DEF Registered, TypeOK
<1>3. WalkOrder(upstream, ch)
  BY ChainWalks
<1>4. /\ Above(F) = On(ch, u) /\ Above(T) = On(ch, v)
      /\ On(ch, F) = {F} \cup On(ch, u) /\ On(ch, T) = {T} \cup On(ch, v)
      /\ Depth(ch, F) = 1 + Depth(ch, u) /\ Depth(ch, T) = 1 + Depth(ch, v)
      /\ On(ch, Nil) = {}
  BY <1>2, <1>3 DEF Above, On, WalkOrder
<1>5. /\ T \in On(ch, F) => Deepest(ch, F, T, T)
      /\ F \in On(ch, T) => Deepest(ch, F, T, F)
  BY <1>2, <1>3, DeepestOnWalk
<1>6. \A p \in Peer : p \in On(ch, p) /\ Depth(ch, p) \in Nat
  BY <1>3 DEF WalkOrder
<1> HIDE DEF ch, r, u, v
<1>7. CASE u = T
  <2>1. T \in On(ch, F) /\ Depth(ch, F) = Depth(ch, T) + 1
    BY <1>2, <1>4, <1>6, <1>7
  <2>2. r = Relation("ImmediateUpstream", T) /\ upstream[F] = T
    BY <1>1, <1>7 DEF Cascade, u
  <2> QED BY <1>5, <2>1, <2>2 DEF Placed, ch, r
<1>8. CASE u # T /\ v = F
  <2>1. F \in On(ch, T) /\ Depth(ch, T) = Depth(ch, F) + 1
    BY <1>2, <1>4, <1>6, <1>8
  <2>2. r = Relation("ImmediateDownstream", T)
    BY <1>1, <1>8 DEF Cascade, u, v
  <2> QED BY <1>5, <2>1, <2>2 DEF Placed, ch, r
<1>9. CASE u # T /\ v # F /\ u # Nil /\ u = v
  <2>1. u \in Peer
    BY <1>2, <1>9
  <2>2. Deepest(ch, F, T, u)
    BY <1>2, <1>3, <1>9, <2>1, DeepestSiblings DEF u, v
  <2>3. Depth(ch, F) = Depth(ch, u) + 1 /\ Depth(ch, T) = Depth(ch, u) + 1
    BY <1>4, <1>6, <1>9, <2>1
  <2>4. r = Relation("SameUpstreamPeer", u)
    BY <1>1, <1>9 DEF Cascade, u, v
  <2> QED BY <1>9, <2>1, <2>2, <2>3, <2>4 DEF Placed, ch, r, u, v
<1>10. CASE u # T /\ v # F /\ ~(u # Nil /\ u = v) /\ T \in On(ch, u)
  <2>1. u \in Peer
    BY <1>2, <1>4, <1>10
  <2>2. T \in On(ch, F)
    BY <1>4, <1>10
  <2>3. Depth(ch, T) <= Depth(ch, u) /\ Depth(ch, T) # Depth(ch, u)
    BY <1>3, <1>10, <2>1 DEF WalkOrder
  <2>4. Depth(ch, T) \in Nat /\ Depth(ch, u) \in Nat /\ Depth(ch, F) = 1 + Depth(ch, u)
    BY <1>2, <1>4, <1>6, <2>1
  <2>5. Depth(ch, F) > Depth(ch, T) + 1
    BY <2>3, <2>4
  <2>6. r = Relation("TransitiveUpstream", u)
    BY <1>1, <1>4, <1>10 DEF Cascade, u, v
  <2> QED BY <1>5, <1>10, <2>1, <2>2, <2>5, <2>6 DEF Placed, ch, r, u, v
<1>11. CASE u # T /\ v # F /\ ~(u # Nil /\ u = v) /\ T \notin On(ch, u) /\ F \in On(ch, v)
  <2>1. v \in Peer
    BY <1>2, <1>4, <1>11
  <2>2. F \in On(ch, T)
    BY <1>4, <1>11
  <2>3. Depth(ch, F) <= Depth(ch, v) /\ Depth(ch, F) # Depth(ch, v)
    BY <1>3, <1>11, <2>1 DEF WalkOrder
  <2>4. Depth(ch, F) \in Nat /\ Depth(ch, v) \in Nat /\ Depth(ch, T) = 1 + Depth(ch, v)
    BY <1>2, <1>4, <1>6, <2>1
  <2>5. Depth(ch, T) > Depth(ch, F) + 1
    BY <2>3, <2>4
  <2>6. r = Relation("TransitiveDownstream", StepBelow(F, T))
    BY <1>1, <1>4, <1>11 DEF Cascade, u, v
  <2> QED BY <1>5, <2>2, <2>5, <2>6 DEF Placed, ch, r
<1>12. CASE u # T /\ v # F /\ ~(u # Nil /\ u = v) /\ T \notin On(ch, u) /\ F \notin On(ch, v)
  <2>1. T \notin On(ch, F) /\ F \notin On(ch, T)
    BY <1>4, <1>12
  <2>2. r = Relation("OtherUpstreamPeer", IF u # Nil THEN u ELSE T)
    BY <1>1, <1>4, <1>12 DEF Cascade, u, v
  <2> QED BY <1>12, <2>1, <2>2 DEF Placed, ch, r, u, v
<1> QED BY <1>7, <1>8, <1>9, <1>10, <1>11, <1>12 DEF r

\* Peers of which none is above the other meet above both, and not at once
\* above both unless their upstream is the same.
LEMMA ApartMeet ==
  ASSUME TypeOK, Acyclic, NEW F \in Peer, NEW T \in Peer,
         T \notin On(UpstreamChain, F), F \notin On(UpstreamChain, T),
         NEW m, Deepest(UpstreamChain, F, T, m)
  PROVE  /\ upstream[F] \in Peer /\ upstream[T] \in Peer /\ m \in Peer
         /\ Deepest(UpstreamChain, upstream[F], T, m)
         /\ Depth(UpstreamChain, m) <= Depth(UpstreamChain, upstream[F])
         /\ Depth(UpstreamChain, m) <= Depth(UpstreamChain, upstream[T])
         /\ Depth(UpstreamChain, m) = Depth(UpstreamChain, upstream[F]) => m = upstream[F]
         /\ Depth(UpstreamChain, m) = Depth(UpstreamChain, upstream[T]) => m = upstream[T]
<1> DEFINE ch == UpstreamChain
           u == upstream[F]
           v == upstream[T]
<1>1. WalkOrder(upstream, ch)
  BY ChainWalks
<1>2. /\ On(ch, F) = {F} \cup On(ch, u) /\ On(ch, T) = {T} \cup On(ch, v) /\ On(ch, Nil) = {}
      /\ u \in Peer \cup {Nil} /\ v \in Peer \cup {Nil}
  BY <1>1 DEF WalkOrder, TypeOK
<1>3. m \in On(ch, F) /\ m \in On(ch, T)
  BY DEF Deepest
<1>4. m \in On(ch, u) /\ m \in On(ch, v)
  BY <1>2, <1>3
<1>5. u \in Peer /\ v \in Peer
  BY <1>2, <1>4
<1>6. Deepest(ch, u, T, m)
  BY <1>1, DeepestUp
<1> HIDE DEF ch, u, v
<1>7. /\ m \in Peer /\ Depth(ch, m) <= Depth(ch, u) /\ Depth(ch, m) <= Depth(ch, v)
      /\ Depth(ch, m) = Depth(ch, u) => m = u
      /\ Depth(ch, m) = Depth(ch, v) => m = v
  BY <1>1, <1>4, <1>5 DEF WalkOrder
<1> QED BY <1>5, <1>6, <1>7 DEF ch, u, v

\* The reference in terms of the depths.
LEMMA PathIs ==
  ASSUME TypeOK, Acyclic, NEW F \in Peer, NEW T \in Peer,
         NEW a \in Peer, Deepest(UpstreamChain, F, T, a),
         NEW dF, dF = Depth(UpstreamChain, F), NEW dT, dT = Depth(UpstreamChain, T),
         NEW dA, dA = Depth(UpstreamChain, a)
  PROVE  /\ Common(F, T) # {} /\ dF \in Nat /\ dT \in Nat /\ dA \in Nat
         /\ dF - dA \in Nat /\ dT - dA \in Nat
         /\ StepsUp(F, Meet(F, T)) = dF - dA /\ StepsUp(T, Meet(F, T)) = dT - dA
         /\ Distance(F, T) = (dF - dA) + (dT - dA)
<1>1. /\ Common(F, T) # {}
      /\ StepsUp(F, Meet(F, T)) = dF - dA /\ StepsUp(T, Meet(F, T)) = dT - dA
  BY MeetIs
<1>2. WalkOrder(upstream, UpstreamChain)
  BY ChainWalks
<1>3. dF \in Nat /\ dT \in Nat /\ dA \in Nat
  BY <1>2 DEF WalkOrder
<1>4. a \in On(UpstreamChain, F) /\ a \in On(UpstreamChain, T)
  BY DEF Deepest
<1>5. dA <= dF /\ dA <= dT
  BY <1>2, <1>4 DEF WalkOrder
<1>6. dF - dA \in Nat /\ dT - dA \in Nat
  BY <1>3, <1>5
<1> QED BY <1>1, <1>3, <1>6 DEF Distance

\* The kind that the reference gives two peers.
KindIs(F, T) == IF Common(F, T) = {} THEN "OtherUpstreamPeer"
                ELSE KindOnPath(StepsUp(F, Meet(F, T)), StepsUp(T, Meet(F, T)))

\* That kind from where the peers meet.
LEMMA KindAt ==
  ASSUME TypeOK, Acyclic, NEW F \in Peer, NEW T \in Peer,
         NEW a \in Peer, Deepest(UpstreamChain, F, T, a)
  PROVE  \E i, j \in Nat : /\ i = Depth(UpstreamChain, F) - Depth(UpstreamChain, a)
                           /\ j = Depth(UpstreamChain, T) - Depth(UpstreamChain, a)
                           /\ Depth(UpstreamChain, F) \in Nat /\ Depth(UpstreamChain, T) \in Nat
                           /\ Depth(UpstreamChain, a) \in Nat
                           /\ KindIs(F, T) = KindOnPath(i, j)
<1> DEFINE dF == Depth(UpstreamChain, F)
           dT == Depth(UpstreamChain, T)
           dA == Depth(UpstreamChain, a)
           i == dF - dA
           j == dT - dA
<1>1. /\ Common(F, T) # {} /\ dF \in Nat /\ dT \in Nat /\ dA \in Nat
      /\ i \in Nat /\ j \in Nat
      /\ StepsUp(F, Meet(F, T)) = i /\ StepsUp(T, Meet(F, T)) = j
  BY PathIs
<1> HIDE DEF dF, dT, dA
<1>2. KindIs(F, T) = KindOnPath(i, j)
  BY <1>1 DEF KindIs
<1> QED BY <1>1, <1>2 DEF dF, dT, dA

\* GetRelation answers the kind that the reference gives.
LEMMA KindRight ==
  ASSUME TypeOK, Acyclic, NEW F \in Registered, NEW T \in Registered
  PROVE  GetRelation(BusOf(F), BusOf(T)).kind = KindIs(F, T)
<1> DEFINE ch == UpstreamChain
           r == GetRelation(BusOf(F), BusOf(T))
           u == upstream[F]
           v == upstream[T]
<1>1. F \in Peer /\ T \in Peer
  BY DEF Registered
<1>2. WalkOrder(upstream, ch)
  BY ChainWalks
<1>3. \A kind, hop : Relation(kind, hop).kind = kind
  BY DEF Relation
<1>4. CASE F = T
  <2>1. r = Relation("Self", T)
    BY <1>4, RelationCascade DEF Cascade
  <2>2. Deepest(ch, F, T, T)
    BY <1>1, <1>2, <1>4, DeepestOnWalk
  <2>3. PICK i, j \in Nat : /\ i = Depth(ch, F) - Depth(ch, T) /\ j = Depth(ch, T) - Depth(ch, T)
                            /\ Depth(ch, F) \in Nat /\ KindIs(F, T) = KindOnPath(i, j)
    BY <1>1, <2>2, KindAt
  <2>4. i = 0 /\ j = 0
    BY <1>4, <2>3
  <2>5. KindOnPath(i, j) = "Self"
    BY <2>4, KindFacts
  <2> QED BY <1>3, <2>1, <2>3, <2>5
<1>5. ASSUME F # T PROVE r.kind = KindIs(F, T)
  <2>1. Placed(F, T, r)
    BY <1>5, RelationPlaced
  <2> DEFINE dF == Depth(ch, F)
             dT == Depth(ch, T)
  <2>2. CASE Deepest(ch, F, T, T) /\ dF = dT + 1 /\ r = Relation("ImmediateUpstream", T)
    <3>1. PICK i, j \in Nat : /\ i = dF - dT /\ j = dT - dT /\ dF \in Nat /\ dT \in Nat
                              /\ KindIs(F, T) = KindOnPath(i, j)
      BY <1>1, <2>2, KindAt
    <3> HIDE DEF dF, dT
    <3>2. i = 1 /\ j = 0
      BY <2>2, <3>1
    <3>3. KindOnPath(i, j) = "ImmediateUpstream"
      BY <3>2, KindFacts
    <3> QED BY <1>3, <2>2, <3>1, <3>3
  <2>3. CASE Deepest(ch, F, T, F) /\ dT = dF + 1 /\ r = Relation("ImmediateDownstream", T)
    <3>1. PICK i, j \in Nat : /\ i = dF - dF /\ j = dT - dF /\ dF \in Nat /\ dT \in Nat
                              /\ KindIs(F, T) = KindOnPath(i, j)
      BY <1>1, <2>3, KindAt
    <3> HIDE DEF dF, dT
    <3>2. i = 0 /\ j = 1
      BY <2>3, <3>1
    <3>3. KindOnPath(i, j) = "ImmediateDownstream"
      BY <3>2, KindFacts
    <3> QED BY <1>3, <2>3, <3>1, <3>3
  <2>4. CASE /\ u \in Peer /\ Deepest(ch, F, T, u) /\ dF = Depth(ch, u) + 1 /\ dT = Depth(ch, u) + 1
             /\ r = Relation("SameUpstreamPeer", u)
    <3> DEFINE dU == Depth(ch, u)
    <3>1. PICK i, j \in Nat : /\ i = dF - dU /\ j = dT - dU /\ dF \in Nat /\ dT \in Nat /\ dU \in Nat
                              /\ KindIs(F, T) = KindOnPath(i, j)
      BY <1>1, <2>4, KindAt
    <3>0. dF = dU + 1 /\ dT = dU + 1
      BY <2>4
    <3> HIDE DEF dF, dT, dU
    <3>2. i = 1 /\ j = 1
      BY <3>0, <3>1
    <3>3. KindOnPath(i, j) = "SameUpstreamPeer"
      BY <3>2, KindFacts
    <3> QED BY <1>3, <2>4, <3>1, <3>3
  <2>5. CASE Deepest(ch, F, T, T) /\ dF > dT + 1 /\ r = Relation("TransitiveUpstream", u)
    <3>1. PICK i, j \in Nat : /\ i = dF - dT /\ j = dT - dT /\ dF \in Nat /\ dT \in Nat
                              /\ KindIs(F, T) = KindOnPath(i, j)
      BY <1>1, <2>5, KindAt
    <3> HIDE DEF dF, dT
    <3>2. i > 1 /\ j = 0
      BY <2>5, <3>1
    <3>3. KindOnPath(i, j) = "TransitiveUpstream"
      BY <3>2, KindFacts
    <3> QED BY <1>3, <2>5, <3>1, <3>3
  <2>6. CASE Deepest(ch, F, T, F) /\ dT > dF + 1 /\ r = Relation("TransitiveDownstream", StepBelow(F, T))
    <3>1. PICK i, j \in Nat : /\ i = dF - dF /\ j = dT - dF /\ dF \in Nat /\ dT \in Nat
                              /\ KindIs(F, T) = KindOnPath(i, j)
      BY <1>1, <2>6, KindAt
    <3> HIDE DEF dF, dT
    <3>2. i = 0 /\ j > 1
      BY <2>6, <3>1
    <3>3. KindOnPath(i, j) = "TransitiveDownstream"
      BY <3>2, KindFacts
    <3> QED BY <1>3, <2>6, <3>1, <3>3
  <2>7. CASE /\ T \notin On(ch, F) /\ F \notin On(ch, T)
             /\ ~(upstream[F] # Nil /\ upstream[F] = upstream[T])
             /\ r = Relation("OtherUpstreamPeer", IF upstream[F] # Nil THEN upstream[F] ELSE T)
    <3>1. r.kind = "OtherUpstreamPeer"
      BY <1>3, <2>7
    <3>2. CASE Common(F, T) = {}
      BY <3>1, <3>2 DEF KindIs
    <3>3. CASE Common(F, T) # {}
      <4>1. PICK c : c \in On(ch, F) /\ c \in On(ch, T)
        BY <1>1, <3>3, CommonIs
      <4>2. PICK m : Deepest(ch, F, T, m)
        BY <1>1, <4>1, ChainWalks, DeepestExists
      <4> DEFINE dM == Depth(ch, m)
                 dU == Depth(ch, u)
                 dV == Depth(ch, v)
      <4>3. /\ u \in Peer /\ v \in Peer /\ m \in Peer /\ dM <= dU /\ dM <= dV
            /\ dM = dU => m = u
            /\ dM = dV => m = v
        BY <1>1, <2>7, <4>2, ApartMeet
      <4>4. dF = 1 + dU /\ dT = 1 + dV /\ dU \in Nat /\ dV \in Nat /\ dM \in Nat
        BY <1>1, <1>2, <4>3 DEF WalkOrder
      <4>5. ~(dM = dU /\ dM = dV)
        BY <2>7, <4>3, NilNotPeer
      <4>6. PICK i, j \in Nat : i = dF - dM /\ j = dT - dM /\ KindIs(F, T) = KindOnPath(i, j)
        BY <1>1, <4>2, <4>3, KindAt
      <4>7. dM <= dU /\ dM <= dV
        BY <4>3
      <4> HIDE DEF dF, dT, dM, dU, dV
      <4>8. i > 0 /\ j > 0 /\ ~(i = 1 /\ j = 1)
        BY <4>4, <4>5, <4>6, <4>7
      <4>9. KindOnPath(i, j) = "OtherUpstreamPeer"
        BY <4>8, KindFacts
      <4> QED BY <3>1, <4>6, <4>9
    <3> QED BY <3>2, <3>3
  <2> QED BY <2>1, <2>2, <2>3, <2>4, <2>5, <2>6, <2>7 DEF Placed
<1> QED BY <1>4, <1>5

\* In every reachable state the cascade of comparisons in GetRelation gives the
\* relation that the path over the lowest common upstream has.
THEOREM RegistryRelationMatchesForest == Spec => []RelationMatchesForest
<1>1. Inv => RelationMatchesForest
  <2> SUFFICES ASSUME Inv, NEW pair \in Pairs,
                      NEW F, F = pair[1], NEW T, T = pair[2]
               PROVE  GetRelation(BusOf(F), BusOf(T)).kind = KindIs(F, T)
    BY DEF RelationMatchesForest, KindIs
  <2>1. F \in Registered /\ T \in Registered
    BY DEF Pairs
  <2> QED BY <2>1, KindRight DEF Inv
<1> QED
  BY <1>1, RegistryInv, PTL

\* Under leaf removal the upstream of a registered peer is registered.
LEMMA UpstreamRegistered ==
  ASSUME Inv, UpstreamConsistent, NEW p \in Registered, upstream[p] # Nil
  PROVE  upstream[p] \in Registered
<1>1. p \in Peer /\ upstream[p] \in Peer /\ p \in downstream[upstream[p]]
  BY DEF UpstreamConsistent, Registered, Inv, TypeOK
<1> QED BY <1>1 DEF Inv, DownstreamConsistent, Registered

\* ... and so is everybody above it.
LEMMA WalkRegistered ==
  ASSUME Inv, UpstreamConsistent, NEW p \in Registered, NEW a \in On(UpstreamChain, p)
  PROVE  a \in Registered
<1> DEFINE P == {q \in Peer : q \in Registered => On(UpstreamChain, q) \subseteq Registered}
<1>1. /\ upstream \in [Peer -> Peer \cup {Nil}] /\ Forest(upstream)
      /\ WalkOrder(upstream, UpstreamChain)
  BY ChainWalks DEF Inv
<1>2. ASSUME NEW q \in Peer, upstream[q] = Nil \/ upstream[q] \in P PROVE q \in P
  <2> SUFFICES ASSUME q \in Registered PROVE On(UpstreamChain, q) \subseteq Registered
    OBVIOUS
  <2>1. On(UpstreamChain, q) = {q} \cup On(UpstreamChain, upstream[q]) /\ On(UpstreamChain, Nil) = {}
    BY <1>1 DEF WalkOrder
  <2>2. CASE upstream[q] = Nil
    BY <2>1, <2>2
  <2>3. CASE upstream[q] # Nil
    <3>1. upstream[q] \in Registered
      BY <2>3, UpstreamRegistered
    <3> QED BY <1>2, <2>1, <2>3, <3>1
  <2> QED BY <2>2, <2>3
<1> HIDE DEF P
<1>3. \A q \in Peer : q \in P
  BY <1>1, <1>2, PeerInduction
<1>4. p \in Peer
  BY DEF Registered
<1> QED BY <1>3, <1>4 DEF P

\* The walk up from T passes the peer below F, if it reaches F at all.
LEMMA StepBelowFacts ==
  ASSUME TypeOK, Acyclic, NEW F \in Peer, NEW T \in Peer, F # T, F \in On(UpstreamChain, T)
  PROVE  /\ StepBelow(F, T) \in On(UpstreamChain, T) /\ StepBelow(F, T) \in Peer
         /\ upstream[StepBelow(F, T)] = F
<1> DEFINE s == StepBelow(F, T)
           W == On(UpstreamChain, T)
<1>1. WalkOrder(upstream, UpstreamChain)
  BY ChainWalks
<1>2. W = {T} \cup Above(T)
  BY <1>1 DEF WalkOrder, Above, On
<1>3. \E b \in W : upstream[b] = F
  BY <1>1 DEF WalkOrder
<1>4. s = CHOOSE b \in W : upstream[b] = F
  BY <1>2 DEF StepBelow
<1> HIDE DEF s, W
<1>5. s \in W /\ upstream[s] = F
  BY <1>3, <1>4
<1>6. s \in Peer
  BY <1>1, <1>5 DEF WalkOrder, W
<1> QED BY <1>5, <1>6 DEF s, W

\* What HopAdvances says of the hop from F to T.
Advances(F, T, hop) ==
  /\ hop \in Registered
  /\ IF Common(F, T) # {}
     THEN Common(hop, T) # {} /\ Distance(hop, T) = Distance(F, T) - 1
     ELSE hop = (IF upstream[F] # Nil THEN upstream[F] ELSE T)

\* The peer one link closer to the same meeting point is an advance.
LEMMA CloserAdvances ==
  ASSUME TypeOK, Acyclic, NEW F \in Peer, NEW T \in Peer, NEW h \in Peer, h \in Registered,
         NEW a \in Peer, Deepest(UpstreamChain, F, T, a),
         NEW b \in Peer, Deepest(UpstreamChain, h, T, b),
         NEW dF, dF = Depth(UpstreamChain, F), NEW dH, dH = Depth(UpstreamChain, h),
         NEW dA, dA = Depth(UpstreamChain, a), NEW dB, dB = Depth(UpstreamChain, b),
         (dB = dA /\ dF = 1 + dH) \/ (dB = 1 + dA /\ dH = 1 + dF)
  PROVE  Advances(F, T, h)
<1> DEFINE dT == Depth(UpstreamChain, T)
           x == Distance(F, T)
           y == Distance(h, T)
<1>1. /\ Common(F, T) # {} /\ dF \in Nat /\ dT \in Nat /\ dA \in Nat
      /\ x = (dF - dA) + (dT - dA)
  BY PathIs
<1>2. /\ Common(h, T) # {} /\ dH \in Nat /\ dT \in Nat /\ dB \in Nat
      /\ y = (dH - dB) + (dT - dB)
  BY PathIs
<1> HIDE DEF dT, x, y
<1>3. y = x - 1
  BY <1>1, <1>2
<1> QED BY <1>1, <1>2, <1>3 DEF Advances, x, y

\* Every hop that GetRelation names is an advance.
LEMMA HopRight ==
  ASSUME Inv, UpstreamConsistent, NEW F \in Registered, NEW T \in Registered, F # T
  PROVE  Advances(F, T, GetRelation(BusOf(F), BusOf(T)).hop)
<1> DEFINE ch == UpstreamChain
           r == GetRelation(BusOf(F), BusOf(T))
           hop == r.hop
           u == upstream[F]
           v == upstream[T]
           dF == Depth(ch, F)
           dT == Depth(ch, T)
<1>1. F \in Peer /\ T \in Peer /\ TypeOK /\ Acyclic /\ u \in Peer \cup {Nil}
  BY DEF Registered, Inv, TypeOK
<1>2. WalkOrder(upstream, ch)
  BY <1>1, ChainWalks
<1>3. \A kind, h : Relation(kind, h).hop = h
  BY DEF Relation
<1>4. Placed(F, T, r)
  BY <1>1, RelationPlaced
<1>5. u # Nil => u \in Registered
  BY UpstreamRegistered
<1>6. /\ dF \in Nat /\ dT \in Nat /\ dF = 1 + Depth(ch, u) /\ dT = 1 + Depth(ch, v)
      /\ On(ch, F) = {F} \cup On(ch, u) /\ On(ch, T) = {T} \cup On(ch, v)
      /\ \A p \in Peer : p \in On(ch, p) /\ Depth(ch, p) \in Nat
  BY <1>1, <1>2 DEF WalkOrder
<1>7. Deepest(ch, T, T, T)
  BY <1>1, <1>2, <1>6, DeepestOnWalk
<1>8. CASE Deepest(ch, F, T, T) /\ dF = dT + 1 /\ r = Relation("ImmediateUpstream", T)
  <2>1. hop = T
    BY <1>3, <1>8
  <2>2. dF = 1 + dT
    BY <1>6, <1>8
  <2>3. Advances(F, T, T)
    BY <1>1, <1>7, <1>8, <2>2, CloserAdvances
  <2> QED BY <2>1, <2>3
<1>9. CASE Deepest(ch, F, T, F) /\ dT = dF + 1 /\ r = Relation("ImmediateDownstream", T)
  <2>1. hop = T
    BY <1>3, <1>9
  <2>2. dT = 1 + dF
    BY <1>6, <1>9
  <2>3. Advances(F, T, T)
    BY <1>1, <1>7, <1>9, <2>2, CloserAdvances
  <2> QED BY <2>1, <2>3
<1>10. CASE /\ u \in Peer /\ Deepest(ch, F, T, u) /\ u = v /\ r = Relation("SameUpstreamPeer", u)
  <2>1. hop = u /\ u \in Registered
    BY <1>3, <1>5, <1>10, NilNotPeer
  <2>2. u \in On(ch, T)
    BY <1>6, <1>10
  <2>3. Deepest(ch, u, T, u)
    BY <1>1, <1>2, <1>10, <2>2, DeepestOnWalk
  <2>4. Advances(F, T, u)
    BY <1>1, <1>6, <1>10, <2>1, <2>3, CloserAdvances
  <2> QED BY <2>1, <2>4
<1>11. CASE /\ u \in Peer /\ T \in On(ch, u) /\ Deepest(ch, F, T, T)
            /\ r = Relation("TransitiveUpstream", u)
  <2>1. hop = u /\ u \in Registered
    BY <1>3, <1>5, <1>11, NilNotPeer
  <2>2. Deepest(ch, u, T, T)
    BY <1>1, <1>2, <1>11, DeepestOnWalk
  <2>3. Advances(F, T, u)
    BY <1>1, <1>6, <1>11, <2>1, <2>2, CloserAdvances
  <2> QED BY <2>1, <2>3
<1>12. CASE /\ F \in On(ch, T) /\ Deepest(ch, F, T, F)
            /\ r = Relation("TransitiveDownstream", StepBelow(F, T))
  <2> DEFINE s == StepBelow(F, T)
  <2>1. s \in On(ch, T) /\ s \in Peer /\ upstream[s] = F
    BY <1>1, <1>12, StepBelowFacts
  <2>2. hop = s
    BY <1>3, <1>12
  <2> HIDE DEF s
  <2>3. s \in Registered
    BY <2>1, WalkRegistered
  <2>4. Deepest(ch, s, T, s)
    BY <1>1, <1>2, <2>1, DeepestOnWalk
  <2>5. Depth(ch, s) = 1 + dF
    BY <1>2, <2>1 DEF WalkOrder
  <2>6. Advances(F, T, s)
    BY <1>1, <1>12, <2>1, <2>3, <2>4, <2>5, CloserAdvances
  <2> QED BY <2>2, <2>6
<1>13. CASE /\ T \notin On(ch, F) /\ F \notin On(ch, T)
            /\ r = Relation("OtherUpstreamPeer", IF upstream[F] # Nil THEN upstream[F] ELSE T)
  <2>1. hop = (IF u # Nil THEN u ELSE T)
    BY <1>3, <1>13
  <2>2. hop \in Registered
    BY <1>5, <2>1
  <2>3. CASE Common(F, T) = {}
    BY <2>1, <2>2, <2>3 DEF Advances
  <2>4. CASE Common(F, T) # {}
    <3>1. PICK c : c \in On(ch, F) /\ c \in On(ch, T)
      BY <1>1, <2>4, CommonIs
    <3>2. PICK m : Deepest(ch, F, T, m)
      BY <1>1, <3>1, ChainWalks, DeepestExists
    <3>3. u \in Peer /\ m \in Peer /\ Deepest(ch, u, T, m)
      BY <1>1, <1>13, <3>2, ApartMeet
    <3>4. hop = u /\ u \in Registered
      BY <1>5, <2>1, <3>3, NilNotPeer
    <3>5. Advances(F, T, u)
      BY <1>1, <1>6, <3>2, <3>3, <3>4, CloserAdvances
    <3> QED BY <3>4, <3>5
  <2> QED BY <2>3, <2>4
<1> QED BY <1>4, <1>8, <1>9, <1>10, <1>11, <1>12, <1>13 DEF Placed

\* When clients remove only peers without downstreams, the hop that GetRelation
\* names is registered and one link closer to the target in every reachable
\* state, whatever the bus ids and however often peers are created and removed.
THEOREM RegistryHopAdvances ==
  ASSUME ~RemoveInner
  PROVE  Spec => []HopAdvances
<1>1. Inv /\ LeafInv => HopAdvances
  <2> SUFFICES ASSUME Inv, UpstreamConsistent, NEW pair \in Pairs,
                      NEW F, F = pair[1], NEW T, T = pair[2], F # T
               PROVE  Advances(F, T, GetRelation(BusOf(F), BusOf(T)).hop)
    BY DEF HopAdvances, Advances, LeafInv
  <2>1. F \in Registered /\ T \in Registered
    BY DEF Pairs
  <2> QED BY <2>1, HopRight
<1> QED
  BY <1>1, RegistryInv, RegistryLeafInv, PTL
=============================================================================
