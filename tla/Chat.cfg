CONSTANTS
  k1 = k1  k2 = k2  a1 = a1  a2 = a2
  Conn = {k1, k2}
  Addr = {a1, a2}
  AddrOf <- MCAddrOf
  Unreliable <- None
  MaxConHandle = 1
  Api = {"handle_new_cons"}
  Specs = {"Except"}
  MaxQueue = 4
  MaxSrvTcp = 0
  MaxSrvUdp = 0
  MaxTcp = 0
  MaxUdp = 2
  Crashing = FALSE
  Leavers <- K1Only
  Quitters <- K2Only
  Impatient <- K1Only
  Lines <- MCLines
SPECIFICATION FairChatSpec
INVARIANTS  AttributedUdp PendingBounded PanicExplained DisconnectMe QueueBounded
PROPERTIES Settled AskerLeaves 
CHECK_DEADLOCK FALSE
