----------------------------- MODULE PayoutOnce -----------------------------
(***************************************************************************)
(* What the Stellar side of a bridge promises, without saying how: every   *)
(* payment out of the vault carries the hash of the transaction it answers *)
(* (an Ethereum burn or a Stellar deposit) and no hash is answered twice.  *)
(* VaultPayments implements this specification.                            *)
(***************************************************************************)
CONSTANTS Memos,      \* the hashes a payment can answer
          Kinds,      \* what a payment can be: a withdrawal, a refund, a fee
          ReceiptIds  \* identifiers of executed payments

VARIABLE receipts     \* the payments executed so far

Receipts == [id : ReceiptIds, kind : Kinds, memo : Memos]

Init == receipts = {}

\* One payment for a hash that has none yet.
Pay(r) ==
    /\ \A paid \in receipts : paid.id # r.id /\ paid.memo # r.memo
    /\ receipts' = receipts \cup {r}

Next == \E r \in Receipts : Pay(r)

Spec == Init /\ [][Next]_receipts
=============================================================================
