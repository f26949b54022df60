CONSTANTS
  Conn = {c1, c2}
  Endpoint = {e1, e2}
  NoConn = NoConn
  NoEndpoint = NoEndpoint
SPECIFICATION Spec
SYMMETRY MCSymmetry
INVARIANTS BoundIsHeld RouteIsTended
CHECK_DEADLOCK FALSE
