---------------------------- MODULE MCSolanaBurns ----------------------------
(* Instances of SolanaBurns for TLC.                                        *)
EXTENDS SolanaBurns, TLC

Memo(to) == [op |-> "memo", to |-> to]
Burn(n) == [op |-> "burn", token |-> "tft", amount |-> n]
OtherBurn(n) == [op |-> "burn", token |-> "foreign", amount |-> n]
Mint(n) == [op |-> "mint", token |-> "tft", amount |-> n]
Budget == [op |-> "budget"]

\* A burn; a mint of the bridge; one without compute budget, which the master
\* does not read; two burns in one; dust; receivers that cannot be paid; a burn
\* of another token.
Shapes ==
    { <<Budget, Memo("user"), Burn(3)>>,
      <<Budget, Memo("user"), Mint(4)>>,
      <<Memo("user"), Burn(3)>>,
      <<Burn(5), Memo("user"), Burn(3)>>,
      <<Budget, Burn(1), Memo("user")>>,
      <<Memo(""), Memo("user"), Burn(3)>>,
      <<Budget, Memo("nobody"), Burn(3)>>,
      <<Budget, Memo("invalid"), Burn(3)>>,
      <<Budget, Memo("user"), OtherBurn(2)>> }

\* And a burn that failed.
AllTxs == [ixs : Shapes, ok : {TRUE}]
            \cup {[ixs |-> <<Budget, Memo("user"), Burn(3)>>, ok |-> FALSE]}
=============================================================================
