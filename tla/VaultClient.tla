----------------------------- MODULE VaultClient -----------------------------
(***************************************************************************)
(* The Stellar vault as the callers of signAndSubmitTransaction see it: a  *)
(* payment returns nil or an error, and one that returned an error may be  *)
(* executed later.  What the vault executes is a step of PayoutOnce, which *)
(* VaultPayments implements: the Solana bridge pays with the same code.    *)
(***************************************************************************)
CONSTANTS Memos,  \* the hashes a payment can answer
          Kinds   \* what a payment can be

VARIABLES receipts,  \* the payments the vault has executed
          late       \* submitted ones whose caller got an error

Vault == INSTANCE PayoutOnce WITH ReceiptIds <- Memos

Payments == [kind : Kinds, memo : Memos]

Init == Vault!Init /\ late = {}

TypeOK == receipts \subseteq Vault!Receipts /\ late \subseteq Payments

Known(m) == \E r \in receipts : r.memo = m

Executes(p) == Vault!Pay([id |-> p.memo, kind |-> p.kind, memo |-> p.memo])

\* The payment function returns nil: already executed, executed now, or soaked
\* because its destination cannot receive it.
Returns(p, soaked) ==
    /\ \/ Known(p.memo) /\ UNCHANGED receipts
       \/ Executes(p)
       \/ soaked /\ UNCHANGED receipts
    /\ UNCHANGED late

\* It returns an error, but may have submitted the payment.
Fails(p) ==
    /\ late' \in {late, late \cup {p}}
    /\ UNCHANGED receipts

\* A payment its caller gave up on is executed after all, or dropped.
Decided(p) ==
    /\ late' = late \ {p}
    /\ Executes(p) \/ UNCHANGED receipts
=============================================================================
