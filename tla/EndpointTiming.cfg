CONSTANTS
  Conn = {c1}
  Endpoint = {e1}
  NoConn = NoConn
  NoEndpoint = NoEndpoint
SPECIFICATION Spec
PROPERTY ClosedStaysClosed
CHECK_DEADLOCK FALSE
