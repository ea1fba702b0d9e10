--------------------------- MODULE MCVaultPayments ---------------------------
(* Instances of VaultPayments for TLC.                                      *)
EXTENDS VaultPayments

CONSTANTS w1, d1, c1, c2

OneWithdrawal == {w1}
OneDeposit == {d1}
TwoCosigners == {c1, c2}
AllOutcomes == Results
OnlyOk == {"ok"}
=============================================================================
