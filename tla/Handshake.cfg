CONSTANTS
  k1 = k1  k2 = k2  k3 = k3  a1 = a1  a2 = a2  a3 = a3
  Conn = {k1, k2}
  Addr = {a1, a2}
  AddrOf <- MCAddrOf
  Unreliable <- K2Only
  MaxConHandle = 2
  Api = {"handle_new_con", "handle_new_cons"}
  Specs = {"All", "None", "Except", "Only"}
  MaxQueue = 2
  MaxSrvTcp = 0
  MaxSrvUdp = 0
  MaxTcp = 1
  MaxUdp = 0
  Crashing = FALSE
SPECIFICATION Spec
INVARIANTS TypeOK OneOwner Mirror ToldIsTrue StatusAccurate NoSilentDrop NoUnwrapPanic AttributedTcp
PROPERTIES  KeepsRoster
CHECK_DEADLOCK FALSE
