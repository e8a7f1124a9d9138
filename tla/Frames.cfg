CONSTANTS
  t1 = t1  t2 = t2
  Sender = {t1, t2}
  MaxMsgSize = 2
  Width = 4
  Room = 10
  MaxSends = 4
SPECIFICATION FairFramingSpec
INVARIANTS FramingTypeOK NoFalseOversize
PROPERTIES KeepsPromise AllDelivered EndNoticed
CHECK_DEADLOCK FALSE
