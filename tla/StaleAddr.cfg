CONSTANTS
  k1 = k1  k2 = k2  k3 = k3  a1 = a1  a2 = a2  a3 = a3
  Conn = {k1, k2}
  Addr = {a1}
  AddrOf <- OneAddr
  Unreliable <- None
  MaxConHandle = 1
  Api = {"handle_new_con"}
  Specs = {"All", "None", "Except", "Only"}
  MaxQueue = 2
  MaxSrvTcp = 0
  MaxSrvUdp = 0
  MaxTcp = 0
  MaxUdp = 0
  Crashing = FALSE
SPECIFICATION Spec
INVARIANTS Mirror
CHECK_DEADLOCK FALSE
