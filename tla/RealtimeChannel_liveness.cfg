SPECIFICATION FairSpec
CONSTANTS
  Producer = {p1}
  Discarder = {d1}
  Tx = tx
  Packet = {a, b}
  NoPacket = none
  SlotCount = 1
  RetryCount = 3
  RateChoices = {TRUE, FALSE}
PROPERTIES StopReturns TxSlotComesBack
