SPECIFICATION FairSpec
CONSTANTS
  Producer = {p1}
  Discarder = {}
  Tx = tx
  Packet = {a}
  NoPacket = none
  SlotCount = 1
  RetryCount = 3
  RateChoices = {TRUE}
PROPERTIES AcceptedIsServed
CHECK_DEADLOCK FALSE
