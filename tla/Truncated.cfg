CONSTANTS
  t1 = t1  t2 = t2
  Sender = {t1}
  MaxMsgSize = 2
  Width = 2
  Room = 20
  MaxSends = 2
SPECIFICATION FramingSpec
INVARIANTS NoGarbage
CHECK_DEADLOCK FALSE
