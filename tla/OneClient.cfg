CONSTANTS
  k1 = k1  k2 = k2  k3 = k3  a1 = a1  a2 = a2  a3 = a3
  Conn = {k1}
  Addr = {a1, a2}
  AddrOf <- MCAddrOf
  Unreliable <- K1Only
  MaxConHandle = 1
  Api = {"handle_new_con"}
  Specs = {"All", "None", "Except", "Only"}
  MaxQueue = 2
  MaxSrvTcp = 2
  MaxSrvUdp = 0
  MaxTcp = 2
  MaxUdp = 0
  Crashing = TRUE
SPECIFICATION FairSpec
INVARIANTS   GoodbyeLast
PROPERTIES  GoneReported ShutdownNoticed
CHECK_DEADLOCK FALSE
