SPECIFICATION FairSpec
CONSTANTS
  r1 = r1
  r2 = r2
  r3 = r3
  r4 = r4
  alice = alice
  bob = bob
  Requests = {r1, r2, r3, r4}
  AccountOf <- Named
  LogIndex <- PlaceInLog
  Other = {r4}
  Invalid = {r3}
  Rescans = {0, 1}
  NoRequest = NoRequest
  MaxBlock = 3
  MaxSent = 2
INVARIANTS TypeOK FundedOnce SavedCovers
PROPERTY EveryRequestSettled
