CONSTANTS
  k1 = k1  a1 = a1
  Conn = {k1}
  Addr = {a1}
  AddrOf <- MCAddrOf
  Unreliable <- K1Only
  MaxConHandle = 1
  Api = {"handle_new_con"}
  Specs = {"All"}
  MaxQueue = 2
  MaxSrvTcp = 0
  MaxSrvUdp = 0
  MaxTcp = 1
  MaxUdp = 0
  Crashing = TRUE
SPECIFICATION FairConnectingSpec
INVARIANTS OneResult FirstTakeYields
PROPERTIES BlockReturns AbandonedLeaves
CHECK_DEADLOCK FALSE
