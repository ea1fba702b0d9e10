SPECIFICATION FairSpec
CONSTANTS
  w1 = w1
  w2 = w2
  tx1 = tx1
  tx2 = tx2
  alice = alice
  bob = bob
  Events = {w1, w2}
  TxOf <- OwnTx
  ReceiverOf <- OwnReceiver
  Skipped = {w2}
  Foreign = {}
  Unreachable = {}
  Cosigned = TRUE
  Delay = 3
  RescanHeights = {0}
  Disconnects = FALSE
  MaxReorg = 0
  MaxBlock = 5
  MaxQueue = 2
  MaxUint = 15
PROPERTIES NoneStuck ConfirmedBeforePaid
