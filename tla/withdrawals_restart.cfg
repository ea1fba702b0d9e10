SPECIFICATION Spec
CONSTANTS
  w1 = w1
  w2 = w2
  tx1 = tx1
  tx2 = tx2
  alice = alice
  bob = bob
  Events = {w1}
  TxOf <- OwnTx
  ReceiverOf <- OwnReceiver
  Skipped = {}
  Foreign = {}
  Unreachable = {}
  Cosigned = FALSE
  Delay = 3
  RescanHeights = {0, 2, 4}
  Disconnects = TRUE
  MaxReorg = 1
  MaxBlock = 6
  MaxQueue = 2
  MaxUint = 15
INVARIANTS TypeOK RestartCovers
PROPERTY NothingForgotten
