--------------------------- MODULE MCEvmWithdrawals ---------------------------
(* Instances of EvmWithdrawals for TLC.                                     *)
EXTENDS EvmWithdrawals, TLC

CONSTANTS w1, w2, tx1, tx2, alice, bob

OwnTx == w1 :> tx1 @@ w2 :> tx2
OwnReceiver == w1 :> alice @@ w2 :> bob
=============================================================================
