SPECIFICATION Spec
CONSTANTS
  ann = ann
  ben = ben
  carl = carl
  multisig = multisig
  impl1 = impl1
  impl2 = impl2
  zero = zero
  alice = alice
  bob = bob
  s1 = s1
  s2 = s2
  none = none
  t1 = t1
  t2 = t2
  Addresses = {ann, ben, carl, multisig, impl1, impl2}
  NoAddress = zero
  FirstOwners <- TheOwners
  FirstRequired = 2
  MaxOwners = 3
  Deployer = ann
  FirstImplementation = impl1
  Holders = {alice, bob}
  Signers = {s1, s2}
  Ids = {t1, t2}
  AmountOf <- TheAmounts
  ReceiverOf <- TheReceivers
  Amounts = {1}
  MaxUint = 2
  NoSignature = none
  People = {ann, ben, carl}
  Wallet = multisig
  Calls <- TheCalls
  DirectCalls <- TheDirectCalls
  Approvers = {alice}
  MaxTransactions = 2
  MaxWork = 3
CHECK_DEADLOCK FALSE
INVARIANTS TypeOK OwnersConsistent SupplyBacked
PROPERTIES QuorumControls MintedByQuorum
