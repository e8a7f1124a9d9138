CONSTANTS
  k1 = k1  k2 = k2  k3 = k3  a1 = a1  a2 = a2  a3 = a3
  Conn = {k1, k2, k3}
  Addr = {a1, a2, a3}
  AddrOf <- MCAddrOf
  Unreliable <- None
  MaxConHandle = 3
  Api = {"handle_new_con"}
  Specs = {"All", "None", "Except", "Only"}
  MaxQueue = 0
  MaxSrvTcp = 0
  MaxSrvUdp = 1
  MaxTcp = 0
  MaxUdp = 0
  Crashing = FALSE
SPECIFICATION Spec
INVARIANTS AcceptedByHook AddressedUdp
SYMMETRY SameClients
CHECK_DEADLOCK FALSE
