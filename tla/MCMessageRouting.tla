-------------------------- MODULE MCMessageRouting --------------------------
EXTENDS MessageRouting, TLC

CONSTANTS R, F1, F2, C1, C2
\* A root with two branches, which are also connected directly.
MCNode == {R, F1, F2, C1, C2}
MCUpstream == (R :> NoNode) @@ (F1 :> R) @@ (F2 :> R) @@ (C1 :> F1) @@ (C2 :> F2)
MCPairs == {{R, F1}, {R, F2}, {F1, C1}, {F2, C2}, {F1, F2}}
\* The truth; C2 still below F1, where it once was; C2 not known.
Stale == [MCUpstream EXCEPT ![C2] = F1]
Lacking == [MCUpstream EXCEPT ![C2] = Unknown]
MCViews ==
  (R :> {MCUpstream, Stale}) @@ (F1 :> {MCUpstream, Stale, Lacking})
    @@ (F2 :> {MCUpstream, Stale}) @@ (C1 :> {MCUpstream}) @@ (C2 :> {MCUpstream})
=============================================================================
