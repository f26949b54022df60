-------------------------- MODULE TopologyRelation --------------------------
(***************************************************************************)
(* TopologyRegistry.GetRelation (impl/atbus_topology.go): how two bus ids  *)
(* are related in the forest, and the peer a message for the second takes  *)
(* next when it is at the first.  The states are those of the registry.    *)
(***************************************************************************)
EXTENDS TopologyRegistry, Sequences, SequencesExt

\* The walk "for p != nil { ...; p = p.GetUpstream() }": p and what is above it.
UpstreamChain[p \in Peer \cup {Nil}] ==
    IF p = Nil THEN <<>> ELSE <<p>> \o UpstreamChain[upstream[p]]

Above(p) == ToSet(UpstreamChain[upstream[p]])

Relation(kind, hop) == [kind |-> kind, hop |-> hop]

\* Mutant of StepBelow: the walk stops one peer too late, at F itself.
StepBelowTooHigh(F, T) == F

\* The last instance of the walk up from "to" before it meets F.
StepBelow(F, T) == CHOOSE p \in {T} \cup Above(T) : upstream[p] = F

\* Mutant of GetRelation: the test for a common upstream is left out.
GetRelationNoSibling(from, to) ==
    LET F == data[from]
        T == data[to]
    IN  IF F = Nil \/ T = Nil THEN Relation("Invalid", Nil)
        ELSE IF from = to THEN Relation("Self", T)
        ELSE IF upstream[F] = T THEN Relation("ImmediateUpstream", T)
        ELSE IF upstream[T] = F THEN Relation("ImmediateDownstream", T)
        ELSE IF T \in Above(F) THEN Relation("TransitiveUpstream", upstream[F])
        ELSE IF F \in Above(T) THEN Relation("TransitiveDownstream", StepBelow(F, T))
        ELSE IF upstream[F] # Nil THEN Relation("OtherUpstreamPeer", upstream[F])
        ELSE Relation("OtherUpstreamPeer", T)

GetRelation(from, to) ==
    LET F == data[from]
        T == data[to]
    IN  IF F = Nil \/ T = Nil THEN Relation("Invalid", Nil)
        ELSE IF from = to THEN Relation("Self", T)
        ELSE IF upstream[F] = T THEN Relation("ImmediateUpstream", T)
        ELSE IF upstream[T] = F THEN Relation("ImmediateDownstream", T)
        ELSE IF upstream[F] # Nil /\ upstream[F] = upstream[T]
             THEN Relation("SameUpstreamPeer", upstream[F])
        ELSE IF T \in Above(F) THEN Relation("TransitiveUpstream", upstream[F])
        ELSE IF F \in Above(T) THEN Relation("TransitiveDownstream", StepBelow(F, T))
        ELSE IF upstream[F] # Nil THEN Relation("OtherUpstreamPeer", upstream[F])
        ELSE Relation("OtherUpstreamPeer", T)

-----------------------------------------------------------------------------
(* The reference: paths in the forest. *)

\* Steps up from p to its ancestor a (or p itself).
StepsUp(p, a) == CHOOSE n \in 0 .. Len(UpstreamChain[p]) - 1 : UpstreamChain[p][n + 1] = a

Common(p, q) == ({p} \cup Above(p)) \cap ({q} \cup Above(q))

\* The lowest common ancestor of two peers of one tree.
Meet(p, q) == CHOOSE a \in Common(p, q) : \A c \in Common(p, q) : StepsUp(p, a) <= StepsUp(p, c)

Distance(p, q) == StepsUp(p, Meet(p, q)) + StepsUp(q, Meet(p, q))

\* The kind of relation, read off the number of steps up and down on the path.
KindOnPath(up, down) ==
    CASE up = 0 /\ down = 0 -> "Self"
      [] up = 1 /\ down = 0 -> "ImmediateUpstream"
      [] up = 0 /\ down = 1 -> "ImmediateDownstream"
      [] up = 1 /\ down = 1 -> "SameUpstreamPeer"
      [] up > 1 /\ down = 0 -> "TransitiveUpstream"
      [] up = 0 /\ down > 1 -> "TransitiveDownstream"
      [] OTHER -> "OtherUpstreamPeer"

Pairs == Registered \X Registered

\* The cascade of pointer comparisons in GetRelation gives the relation that
\* the path through the lowest common ancestor has, in every forest that calls
\* can build; peers of two trees are "other".
RelationMatchesForest ==
    \A pair \in Pairs :
        LET F == pair[1]
            T == pair[2]
        IN  GetRelation(BusOf(F), BusOf(T)).kind =
                IF Common(F, T) = {} THEN "OtherUpstreamPeer"
                ELSE KindOnPath(StepsUp(F, Meet(F, T)), StepsUp(T, Meet(F, T)))

\* A message forwarded to the hop that GetRelation names is one link closer to
\* its target, or leaves the root of a tree that does not hold the target
\* straight for it: forwarding along the topology cannot go round in circles.
HopAdvances ==
    \A pair \in Pairs :
        LET F == pair[1]
            T == pair[2]
            hop == GetRelation(BusOf(F), BusOf(T)).hop
        IN  F # T =>
              /\ hop \in Registered
              /\ IF Common(F, T) # {}
                 THEN Common(hop, T) # {} /\ Distance(hop, T) = Distance(F, T) - 1
                 ELSE hop = (IF upstream[F] # Nil THEN upstream[F] ELSE T)
=============================================================================
