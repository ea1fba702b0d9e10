--------------------------- MODULE MCSolanaDeposits ---------------------------
(* Instances of SolanaDeposits for TLC.                                     *)
EXTENDS SolanaDeposits, TLC

\* 1 is minted, or refunded while its receiver has no token account; 2 has a
\* memo that is no address; 3 is dust, unless it is minted; 4 is minted; 5 is
\* made of two payments and has a memo that is no address.
FiveAmounts == 1 :> 5 @@ 2 :> 4 @@ 3 :> 1 @@ 4 :> 6 @@ 5 :> 4
FiveLast == 5 :> 3 @@ FiveAmounts
FiveReceivers == 1 :> BOOLEAN @@ 2 :> {TRUE} @@ 3 :> {TRUE} @@ 4 :> {TRUE} @@ 5 :> {TRUE}

\* One deposit.
OneAmount == 1 :> 5
OneReceiver == 1 :> {TRUE}
=============================================================================
