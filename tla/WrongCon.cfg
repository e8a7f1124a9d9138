CONSTANTS
  k1 = k1  k2 = k2  k3 = k3  a1 = a1  a2 = a2  a3 = a3
  Conn = {k1, k2, k3}
  Addr = {a1, a2, a3}
  AddrOf <- MCAddrOf
  Unreliable <- None
  MaxConHandle = 3
  Api = {"handle_new_cons"}
  Specs = {"All", "None", "Except", "Only"}
  MaxQueue = 2
  MaxSrvTcp = 0
  MaxSrvUdp = 0
  MaxTcp = 0
  MaxUdp = 0
  Crashing = FALSE
SPECIFICATION Spec
INVARIANTS AcceptedByHook
CHECK_DEADLOCK FALSE
