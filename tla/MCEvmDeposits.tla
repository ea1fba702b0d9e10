---------------------------- MODULE MCEvmDeposits ----------------------------
(* Instances of EvmDeposits for TLC.                                        *)
EXTENDS EvmDeposits, TLC

\* With fee 3: deposits 1 and 4 are minted, 2 is below the fee and refunded
\* unless its sender cannot receive it, 3 has a bad memo.  Deposit 1 is made of
\* two payments, of 2 and 3.
FourAmounts == 1 :> 5 @@ 2 :> 2 @@ 3 :> 6 @@ 4 :> 4
FourLast == 1 :> 3 @@ FourAmounts
FourValid == {1, 2, 4}

\* The same with dust and a transaction that credits nothing before the last
\* mint, 6, which debits a second account, and at the end a deposit 7 of two
\* payments with a bad memo, and one behind it.
EightAmounts == 4 :> 1 @@ 5 :> 0 @@ 6 :> 4 @@ 7 :> 5 @@ 8 :> 4 @@ FourAmounts
EightLast == 1 :> 3 @@ 7 :> 3 @@ EightAmounts
EightValid == {1, 2, 4, 5, 6, 8}

\* One deposit, above a fee of 1.
OneAmount == 1 :> 2
OneValid == {1}
=============================================================================
