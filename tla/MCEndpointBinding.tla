-------------------------- MODULE MCEndpointBinding --------------------------
EXTENDS EndpointBinding, TLC
\* Connections are alike, and so are endpoint objects.
MCSymmetry == Permutations(Conn) \cup Permutations(Endpoint)
=============================================================================
