CONSTANTS
  t1 = t1  t2 = t2
  Sender = {t1}
  MaxMsgSize = 1
  Width = 4
  Room = 20
  MaxSends = 2
SPECIFICATION FramingSpec
INVARIANTS Lossless
CHECK_DEADLOCK FALSE
