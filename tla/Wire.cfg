CONSTANTS
  a = a  b = b  tc = tc  tr = tr  td = td  t1 = t1  t2 = t2  t3 = t3
  Peer = {a, b}
  Entry <- MCEntry
  BuildTypes <- MCBuildTypes
  Plugins <- MCPlugins
  MaxTable = 3
  Low = 5
  Full = 10
  Skews <- MCSkews
  Start = 8
  Duration = 6
  Sender = {a}
  Size = {1, 2}
  MaxMsgSize <- MCMaxMsgSize
  MaxPackets = 1
SPECIFICATION UdpSpec
INVARIANTS PeersAgree UniversalMIds ReadAsSent TimeRecovered
CHECK_DEADLOCK FALSE
