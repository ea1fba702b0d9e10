-------------------------- MODULE EvmDepositsProofs --------------------------
(***************************************************************************)
(* What the bridge gives for a deposit is backed by it, for any number of  *)
(* deposits, any amounts and any number of signer sets, as long as the     *)
(* operator keeps one deposit fee.                                         *)
(*                                                                         *)
(* With one fee, what happens to a deposit is decided by the deposit alone *)
(* (Mints): each replay, after a retry or a restart, decides it the same   *)
(* way (Fate).  A deposit that mints is paid a fee at most, because the    *)
(* vault answers a hash once, and any other is refunded at most; a mint is *)
(* counted once by its id.                                                 *)
(*                                                                         *)
(* That no deposit is skipped needs more: a Horizon that answers, and      *)
(* signers that are not replaced while a mint is under way.  Then Order    *)
(* holds, which says that the handler moves past a deposit only when it is *)
(* done with it for good.                                                  *)
(***************************************************************************)
EXTENDS EvmDeposits, TLAPS

\* The handler mints deposit d when it asks for this fee.
Mints(d, fee) == d \in ValidMemo /\ Amount[d] > fee

\* The only payment the vault makes for deposit d.
Owed(d, fee) ==
    IF Mints(d, fee) THEN [kind |-> "fee", dep |-> d, amount |-> fee]
                     ELSE [kind |-> "refund", dep |-> d, amount |-> Amount[d]]

\* What is on its way, or done, is what the deposit is due.
Fate(fee) ==
    /\ depositFee = fee
    /\ \A p \in late : p = Owed(p.dep, fee)
    /\ \A r \in receipts : r.kind = Owed(r.memo, fee).kind
    /\ \A tx \in pool : Mints(tx.dep, fee) /\ tx.amount = Amount[tx.dep] - fee
    /\ \A d \in mintIDs : Mints(d, fee)
    /\ pc = "refund" => ~Mints(Current, fee)
    /\ pc \in PCs \ {"poll", "refund"} => Mints(Current, fee)

\* The books of a deposit.
Books(fee) ==
    \A d \in Deposits :
        /\ minted[d] = IF d \in mintIDs THEN Amount[d] - fee ELSE 0
        /\ paidOut[d] = IF Known(d) THEN Owed(d, fee).amount ELSE 0

-----------------------------------------------------------------------------
(* Types.                                                                  *)

\* What is minted is more than the fee: the amount of a mint is a natural.
TypeInv ==
    /\ TypeOK
    /\ pc \in {"mint", "sign", "mined"} => Amount[Current] > depositFee

LEMMA TypeInit == Init => TypeInv
  <1> SUFFICES ASSUME Init PROVE TypeInv
    OBVIOUS
  <1> USE DEF Init
  <1>1. /\ pc = "poll"
        /\ up \in BOOLEAN /\ synced \in BOOLEAN /\ depositFee \in Fees
    OBVIOUS
  <1>2. /\ receipts \subseteq Vault!Receipts /\ late \subseteq Payments
        /\ pool \subseteq MintTxs /\ mined \subseteq MintTxs /\ mintIDs \subseteq Deposits
    BY DEF Vault!Init
  <1>3. /\ paidOut \in [Deposits -> Nat] /\ minted \in [Deposits -> Nat]
        /\ arrived \in 0..N /\ savedCursor \in 0..arrived /\ cursor \in 0..arrived
        /\ epoch \in 1..MaxEpoch /\ signedAt \in 1..MaxEpoch
    BY DepositsAssumption
  <1> QED BY <1>1, <1>2, <1>3 DEF TypeInv, TypeOK, PCs

\* What the payment operators do to the vault.
LEMMA VaultTypes ==
    ASSUME TypeOK, NEW p \in Payments
    PROVE  /\ VaultPays(p) => /\ receipts' \subseteq Vault!Receipts
                              /\ paidOut' \in [Deposits -> Nat]
           /\ PaymentDone(p) => /\ receipts' \subseteq Vault!Receipts
                                /\ paidOut' \in [Deposits -> Nat]
                                /\ late' = late
           /\ PaymentFails(p) => /\ late' \subseteq Payments
                                 /\ receipts' = receipts /\ paidOut' = paidOut
  <1>1. ASSUME VaultPays(p)
        PROVE  receipts' \subseteq Vault!Receipts /\ paidOut' \in [Deposits -> Nat]
    BY <1>1 DEF VaultPays, Vault!Pay, Vault!Receipts, TypeOK, Payments
  <1>2. ASSUME PaymentDone(p)
        PROVE  /\ receipts' \subseteq Vault!Receipts /\ paidOut' \in [Deposits -> Nat]
               /\ late' = late
    BY <1>1, <1>2 DEF PaymentDone, TypeOK
  <1>3. ASSUME PaymentFails(p)
        PROVE  late' \subseteq Payments /\ receipts' = receipts /\ paidOut' = paidOut
    BY <1>3 DEF PaymentFails, TypeOK
  <1> QED BY <1>1, <1>2, <1>3

\* What the handler asks the vault for is a payment.
LEMMA PaymentTypes ==
    ASSUME TypeOK, pc # "poll"
    PROVE  Current \in Deposits /\ RefundOf(Current) \in Payments /\ FeeOf(Current) \in Payments
  <1>1. Current \in Deposits
    BY DepositsAssumption DEF TypeOK, Current, Deposits
  <1>2. Amount[Current] \in Nat /\ depositFee \in Nat
    BY <1>1, DepositsAssumption DEF TypeOK
  <1> QED BY <1>1, <1>2 DEF RefundOf, FeeOf, Payments

LEMMA TypeStep == TypeInv /\ [Next]_vars => TypeInv'
  <1> SUFFICES ASSUME TypeInv, [Next]_vars PROVE TypeInv'
    OBVIOUS
  <1> USE DepositsAssumption
  <1>1. CASE Handler
    <2> USE DEF Current, Return, Goto, PCs
    <2>1. CASE ReceiveFails
      BY <2>1 DEF ReceiveFails, TypeInv, TypeOK, vault, contract, process
    <2>2. CASE ReceiveNothing
      BY <2>2 DEF ReceiveNothing, TypeInv, TypeOK, vault, contract, process
    <2>3. CASE ReceiveRefund
      BY <2>3 DEF ReceiveRefund, TypeInv, TypeOK, vault, contract, process
    <2>4. CASE ReceiveMint
      BY <2>4 DEF ReceiveMint, TypeInv, TypeOK, vault, contract, process
    <2>5. CASE RefundDone
      BY <2>5, PaymentTypes, VaultTypes DEF RefundDone, TypeInv, TypeOK, contract, process
    <2>6. CASE PaymentRetried
      BY <2>6, PaymentTypes, VaultTypes DEF PaymentRetried, TypeInv, TypeOK, contract, process, monitor
    <2>7. CASE MintKnown
      BY <2>7 DEF MintKnown, TypeInv, TypeOK, vault, contract, process
    <2>8. CASE MintPrepare
      BY <2>8 DEF MintPrepare, TypeInv, TypeOK, vault, contract, process
    <2>9. CASE MintSubmit
      <3>1. MintTx \in MintTxs
        <4>1. Current \in Deposits /\ Amount[Current] \in Nat /\ depositFee \in Nat
          BY <2>9 DEF MintSubmit, TypeInv, TypeOK, Deposits
        <4>2. Amount[Current] > depositFee /\ signedAt \in 1..MaxEpoch
          BY <2>9 DEF MintSubmit, TypeInv, TypeOK
        <4> QED BY <4>1, <4>2 DEF MintTx, MintTxs
      <3> QED BY <2>9, <3>1 DEF MintSubmit, TypeInv, TypeOK, vault, process
    <2>10. CASE MintMined
      BY <2>10 DEF MintMined, TypeInv, TypeOK, vault, contract, process
    <2>11. CASE MintFails
      BY <2>11
         DEF MintFails, MintNotSigned, MintNotMined, TypeInv, TypeOK, vault, contract,
             process
    <2>12. CASE FeeDone
      BY <2>12, PaymentTypes, VaultTypes DEF FeeDone, TypeInv, TypeOK, contract, process
    <2>13. CASE SaveCursor
      BY <2>13 DEF SaveCursor, TypeInv, TypeOK, vault, contract, process
    <2> QED
      BY <1>1, <2>1, <2>2, <2>3, <2>4, <2>5, <2>6, <2>7, <2>8, <2>9, <2>10, <2>11, <2>12,
         <2>13 DEF Handler
  <1>2. ASSUME NEW p \in late, LatePayment(p) PROVE TypeInv'
    <2>1. p \in Payments
      BY DEF TypeInv, TypeOK
    <2> QED BY <1>2, <2>1, VaultTypes DEF LatePayment, TypeInv, TypeOK, contract, process, monitor, Current
  <1>3. ASSUME NEW tx \in pool, MintTokens(tx) PROVE TypeInv'
    <2>1. tx \in MintTxs
      BY DEF TypeInv, TypeOK
    <2>2. minted' \in [Deposits -> Nat] /\ mintIDs' \subseteq Deposits
      BY <1>3, <2>1 DEF MintTokens, TypeInv, TypeOK, MintTxs
    <2> QED BY <1>3, <2>1, <2>2 DEF MintTokens, TypeInv, TypeOK, vault, process, monitor, Current
  <1>4. ASSUME NEW tx \in pool, MintReverts(tx) \/ MintDropped(tx) PROVE TypeInv'
    BY <1>4 DEF MintReverts, MintDropped, TypeInv, TypeOK, vault, process, monitor, Current
  <1>5. CASE SetSigners
    BY <1>5 DEF SetSigners, TypeInv, TypeOK, vault, process, monitor, Current
  <1>6. CASE Deposit
    BY <1>6 DEF Deposit, TypeInv, TypeOK, vault, contract, process, monitor, Current
  <1>7. CASE Head
    BY <1>7 DEF Head, TypeInv, TypeOK, vault, contract, monitor, Current
  <1>8. CASE Crash
    <2>1. /\ pc' = "poll" /\ pc' \in PCs
          /\ up' \in BOOLEAN /\ synced' \in BOOLEAN /\ depositFee' \in Fees
      BY <1>8 DEF Crash, TypeInv, TypeOK, PCs
    <2>2. /\ arrived' = arrived /\ receipts' = receipts /\ late' = late /\ paidOut' = paidOut
          /\ mintIDs' = mintIDs /\ minted' = minted /\ pool' = pool /\ mined' = mined
          /\ epoch' = epoch /\ savedCursor' = savedCursor /\ cursor' = 0 /\ signedAt' = 1
      BY <1>8 DEF Crash, vault, contract
    <2> QED BY <2>1, <2>2 DEF TypeInv, TypeOK
  <1>9. ASSUME NEW rescan \in Rescans, NEW fee \in Fees, Start(rescan, fee) PROVE TypeInv'
    BY <1>9 DEF Start, TypeInv, TypeOK, vault, contract
  <1>10. CASE UNCHANGED vars
    BY <1>10 DEF vars, TypeInv, TypeOK, vault, contract, process, monitor, Current
  <1> QED
    BY <1>1, <1>2, <1>3, <1>4, <1>5, <1>6, <1>7, <1>8, <1>9, <1>10 DEF Next

\* The variables keep their types, and the handler is busy only with a
\* transaction that has arrived.
THEOREM TypeCorrect == Spec => []TypeOK
  <1>1. TypeInv => TypeOK
    BY DEF TypeInv
  <1> QED BY <1>1, TypeInit, TypeStep, PTL DEF Spec

-----------------------------------------------------------------------------
(* One fee.                                                                *)

LEMMA FateInit ==
    ASSUME NEW fee \in Nat, Fees = {fee}, Init
    PROVE  Fate(fee) /\ Books(fee)
  BY DEF Init, Vault!Init, Fate, Books, Known

\* The books of the vault alone.
Ledger(fee) ==
    /\ \A r \in receipts : r.kind = Owed(r.memo, fee).kind
    /\ \A d \in Deposits : paidOut[d] = IF Known(d) THEN Owed(d, fee).amount ELSE 0

\* A payment the deposit is due keeps the vault's books, whatever comes of it:
\* the first one is entered, a second one is not made.
LEMMA LedgerKept ==
    ASSUME NEW fee \in Nat, TypeOK, Ledger(fee),
           NEW d \in Deposits, NEW p, p = Owed(d, fee)
    PROVE  /\ p.dep = d /\ p.kind = Owed(d, fee).kind
           /\ VaultPays(p) => Ledger(fee)'
           /\ PaymentDone(p) => Ledger(fee)' /\ late' = late
           /\ PaymentFails(p) => Ledger(fee)' /\ \A q \in late' : q \in late \/ q = p
  <1>1. p.dep = d /\ p.amount = Owed(d, fee).amount /\ p.kind = Owed(d, fee).kind
        /\ Owed(d, fee).amount \in Nat
    BY DepositsAssumption DEF Owed
  <1> DEFINE r == [id |-> d, kind |-> p.kind, memo |-> d]
  <1>2. ASSUME VaultPays(p) PROVE Ledger(fee)'
    <2>1. /\ receipts' = receipts \cup {r}
          /\ \A paid \in receipts : paid.memo # d
          /\ paidOut' = [paidOut EXCEPT ![d] = @ + p.amount]
      BY <1>1, <1>2 DEF VaultPays, Vault!Pay
    <2>2. ~Known(d) /\ Known(d)'
      <3>1. r \in receipts' /\ r.memo = d
        BY <2>1
      <3> QED BY <2>1, <3>1 DEF Known
    <2>3. ASSUME NEW e \in Deposits \ {d} PROVE Known(e)' = Known(e)
      BY <2>1 DEF Known
    <2>4. paidOut'[d] = Owed(d, fee).amount
      BY <1>1, <2>1, <2>2 DEF Ledger, TypeOK
    <2>5. ASSUME NEW e \in Deposits
          PROVE  paidOut'[e] = IF Known(e)' THEN Owed(e, fee).amount ELSE 0
      <3>1. CASE e = d
        BY <3>1, <2>2, <2>4
      <3>2. CASE e # d
        BY <3>2, <2>1, <2>3 DEF Ledger, TypeOK
      <3> QED BY <3>1, <3>2
    <2>6. \A q \in receipts' : q.kind = Owed(q.memo, fee).kind
      BY <1>1, <2>1 DEF Ledger
    <2> QED BY <2>5, <2>6 DEF Ledger, Owed, Mints
  <1>3. ASSUME UNCHANGED <<receipts, paidOut>> PROVE Ledger(fee)'
    BY <1>3 DEF Ledger, Known, Owed, Mints
  <1> QED BY <1>1, <1>2, <1>3 DEF PaymentDone, PaymentFails

\* Every step keeps the fate of every deposit.
LEMMA FateStep ==
    ASSUME NEW fee \in Nat, Fees = {fee}, TypeInv, TypeInv', Fate(fee), Books(fee), [Next]_vars
    PROVE  Fate(fee)' /\ Books(fee)'
  <1> USE DepositsAssumption
  <1>0. Ledger(fee)
    BY DEF Fate, Books, Ledger
  <1>1. ASSUME UNCHANGED <<receipts, paidOut>> PROVE Ledger(fee)'
    BY <1>0, <1>1 DEF Ledger, Known, Owed, Mints
  <1> DEFINE Way == /\ \A p \in late : p = Owed(p.dep, fee)
                    /\ \A tx \in pool : Mints(tx.dep, fee) /\ tx.amount = Amount[tx.dep] - fee
             Minting == /\ \A d \in mintIDs : Mints(d, fee)
                        /\ \A d \in Deposits :
                              minted[d] = IF d \in mintIDs THEN Amount[d] - fee ELSE 0
             Busy == /\ depositFee = fee
                     /\ pc = "refund" => ~Mints(Current, fee)
                     /\ pc \in PCs \ {"poll", "refund"} => Mints(Current, fee)
  <1>2. Way /\ Minting /\ Busy
    BY DEF Fate, Books
  <1>3. SUFFICES Ledger(fee)' /\ Way' /\ Minting' /\ Busy'
    BY <1>3 DEF Fate, Books, Ledger
  <1>4. ASSUME pc # "poll"
        PROVE  /\ Current \in Deposits
               /\ pc = "refund" => RefundOf(Current) = Owed(Current, fee)
               /\ pc = "fee" => FeeOf(Current) = Owed(Current, fee)
    <2>1. Current \in Deposits
      BY <1>4, PaymentTypes DEF TypeInv
    <2>2. ASSUME pc = "refund" PROVE RefundOf(Current) = Owed(Current, fee)
      <3>1. ~Mints(Current, fee)
        BY <1>2, <2>2
      <3> QED BY <3>1 DEF RefundOf, Owed
    <2>3. ASSUME pc = "fee" PROVE FeeOf(Current) = Owed(Current, fee)
      <3>1. pc \in PCs \ {"poll", "refund"}
        BY <2>3 DEF PCs
      <3>2. Mints(Current, fee) /\ depositFee = fee
        BY <1>2, <3>1
      <3> QED BY <3>2 DEF FeeOf, Owed
    <2> QED BY <2>1, <2>2, <2>3
  <1>5. TypeOK
    BY DEF TypeInv
  <1> USE DEF PCs
  <1>6. CASE Handler
    <2>1. CASE ReceiveFails \/ ReceiveNothing \/ ReceiveRefund \/ ReceiveMint
      <3>1. UNCHANGED <<vault, contract, process>> /\ Busy'
        BY <1>2, <2>1, <1>5
           DEF ReceiveFails, ReceiveNothing, ReceiveRefund, ReceiveMint, Return, Goto, Current,
               Mints, process
      <3> QED BY <1>1, <1>2, <3>1 DEF vault, contract
    <2>2. CASE RefundDone
      <3>1. Ledger(fee)' /\ late' = late
        BY <1>0, <1>4, <1>5, <2>2, LedgerKept DEF RefundDone
      <3> QED BY <1>2, <2>2, <3>1 DEF RefundDone, Return, contract, process
    <2>3. CASE PaymentRetried
      <3>1. PICK p : /\ p = Owed(Current, fee) /\ Current \in Deposits /\ PaymentFails(p)
        BY <1>4, <2>3 DEF PaymentRetried
      <3>2. Ledger(fee)' /\ \A q \in late' : q \in late \/ q = p
        BY <1>0, <1>5, <3>1, LedgerKept
      <3>3. p = Owed(p.dep, fee)
        BY <3>1 DEF Owed
      <3> QED BY <1>2, <2>3, <3>2, <3>3
              DEF PaymentRetried, contract, process, monitor, Current
    <2>4. CASE MintKnown \/ MintPrepare \/ MintMined \/ MintFails \/ SaveCursor
      <3>1. UNCHANGED <<vault, contract, process>> /\ Busy'
        BY <1>2, <2>4, <1>5
           DEF MintKnown, MintPrepare, MintMined, MintFails, MintNotSigned,
               MintNotMined, SaveCursor, Return, Goto, Current, process
      <3> QED BY <1>1, <1>2, <3>1 DEF vault, contract
    <2>5. CASE MintSubmit
      <3>1. Mints(MintTx.dep, fee) /\ MintTx.amount = Amount[MintTx.dep] - fee
        BY <1>2, <2>5 DEF MintSubmit, MintTx
      <3> QED BY <1>1, <1>2, <2>5, <3>1 DEF MintSubmit, Goto, Current, vault, process
    <2>6. CASE FeeDone
      <3>1. Ledger(fee)' /\ late' = late
        BY <1>0, <1>4, <1>5, <2>6, LedgerKept DEF FeeDone
      <3> QED BY <1>2, <2>6, <3>1 DEF FeeDone, Goto, Current, contract, process
    <2> QED BY <1>6, <2>1, <2>2, <2>3, <2>4, <2>5, <2>6 DEF Handler
  <1>7. ASSUME NEW p \in late, LatePayment(p) PROVE Ledger(fee)' /\ Way' /\ Minting' /\ Busy'
    <2>1. p = Owed(p.dep, fee) /\ p.dep \in Deposits
      BY <1>2, <1>5 DEF TypeOK, Payments
    <2>2. Ledger(fee)'
      BY <1>0, <1>1, <1>5, <1>7, <2>1, LedgerKept DEF LatePayment
    <2> QED BY <1>2, <1>7, <2>2 DEF LatePayment, contract, process, monitor, Current
  <1>8. ASSUME NEW tx \in pool, MintTokens(tx)
        PROVE  Ledger(fee)' /\ Way' /\ Minting' /\ Busy'
    <2>1. tx.dep \in Deposits /\ tx.amount \in Nat /\ Mints(tx.dep, fee)
          /\ tx.amount = Amount[tx.dep] - fee
      BY <1>2, <1>5 DEF TypeOK, MintTxs
    <2>2. Minting'
      BY <1>2, <1>5, <1>8, <2>1 DEF MintTokens, TypeOK, Mints
    <2> QED BY <1>1, <1>2, <1>8, <2>2 DEF MintTokens, vault, process, monitor, Current
  <1>9. ASSUME NEW tx \in pool, MintReverts(tx) \/ MintDropped(tx)
        PROVE  Ledger(fee)' /\ Way' /\ Minting' /\ Busy'
    BY <1>1, <1>2, <1>9 DEF MintReverts, MintDropped, vault, process, monitor, Current
  <1>10. CASE SetSigners \/ Deposit \/ Head
    BY <1>1, <1>2, <1>10
       DEF SetSigners, Deposit, Head, vault, contract, process, monitor, Current
  <1>11. CASE Crash
    BY <1>1, <1>2, <1>11 DEF Crash, vault, contract
  <1>12. ASSUME NEW rescan \in Rescans, NEW f \in Fees, Start(rescan, f)
         PROVE  Ledger(fee)' /\ Way' /\ Minting' /\ Busy'
    <2>1. pc' = "poll" /\ depositFee' = fee
      BY <1>12 DEF Start, TypeInv, TypeOK
    <2> QED BY <1>1, <1>2, <1>12, <2>1 DEF Start, vault, contract
  <1>13. CASE UNCHANGED vars
    BY <1>1, <1>2, <1>13 DEF vars, vault, contract, process, monitor, Current
  <1> QED
    BY <1>6, <1>7, <1>8, <1>9, <1>10, <1>11, <1>12, <1>13 DEF Next

\* What a deposit can cost the bridge.
LEMMA FateSuffices ==
    ASSUME NEW fee \in Nat, TypeInv, Fate(fee), Books(fee)
    PROVE  EachDepositBacked /\ RefundedNotMinted
  <1>1. ASSUME NEW d \in Deposits PROVE minted[d] + paidOut[d] <= Amount[d]
    <2>1. Amount[d] \in Nat
      BY DepositsAssumption
    <2> QED BY <1>1, <2>1 DEF Fate, Books, Owed, Mints
  <1>2. ASSUME NEW d \in mintIDs, Refunded(d) PROVE FALSE
    <2>1. PICK r \in receipts : r.memo = d /\ r.kind = "refund"
      BY <1>2 DEF Refunded
    <2> QED BY <2>1 DEF Fate, Owed
  <1> QED BY <1>1, <1>2 DEF EachDepositBacked, RefundedNotMinted

FateInv(fee) == TypeInv /\ Fate(fee) /\ Books(fee)

LEMMA FateInvariant ==
    ASSUME NEW fee \in Nat, Fees = {fee}
    PROVE  Spec => []FateInv(fee)
  <1>1. Init => FateInv(fee)
    BY TypeInit, FateInit DEF FateInv
  <1>2. FateInv(fee) /\ [Next]_vars => FateInv(fee)'
    BY TypeStep, FateStep DEF FateInv
  <1> QED BY <1>1, <1>2, PTL DEF Spec

\* While the operator keeps one fee, no deposit costs the bridge more than it
\* brought, in tokens and TFT together, over all retries, late payments,
\* crashes, rescans and signer changes.
THEOREM DepositsAreBacked ==
    ASSUME NEW fee \in Nat, Fees = {fee}
    PROVE  Spec => []EachDepositBacked
  <1>1. FateInv(fee) => EachDepositBacked
    BY FateSuffices DEF FateInv
  <1> QED BY <1>1, FateInvariant, PTL

\* While the operator keeps one fee, no deposit is both minted and sent back.
THEOREM RefundsAreNotMinted ==
    ASSUME NEW fee \in Nat, Fees = {fee}
    PROVE  Spec => []RefundedNotMinted
  <1>1. FateInv(fee) => RefundedNotMinted
    BY FateSuffices DEF FateInv
  <1> QED BY <1>1, FateInvariant, PTL

-----------------------------------------------------------------------------
(* One fee, one signer set, and a Horizon that answers: then nothing is     *)
(* skipped either.                                                          *)

\* The handler is done with deposit d for good.
Done(d, fee) ==
    IF Mints(d, fee) THEN d \in mintIDs
                     ELSE Refunded(d) \/ Amount[d] <= WithdrawFee \/ d \in Unreachable

\* Everything that is minted before deposit e has been minted.
Cleared(e, fee) == \A d \in Deposits : d < e /\ Mints(d, fee) => d \in mintIDs

Order(fee) ==
    /\ \A d \in Deposits : d <= cursor \/ d <= savedCursor => Done(d, fee)
    /\ \A tx \in mined : tx.dep \in mintIDs
    /\ \A tx \in pool : Cleared(tx.dep, fee)
    /\ \A e \in mintIDs : Cleared(e, fee)
    /\ pc \in {"fee", "save"} => Current \in mintIDs
    /\ \A p \in late : p.kind = "fee" => p.dep \in mintIDs
    /\ FeeOnlyIfMinted

LEMMA OrderInit ==
    ASSUME NEW fee \in Nat, Fees = {fee}, Init
    PROVE  Order(fee)
  <1>1. \A d \in Deposits : ~(d <= cursor) /\ ~(d <= savedCursor)
    BY DepositsAssumption DEF Init, Deposits
  <1> QED BY <1>1 DEF Init, Vault!Init, Order, FeeOnlyIfMinted

\* A mint, a receipt, and with them what a deposit is due, are never undone.
LEMMA NothingUndone ==
    ASSUME [Next]_vars
    PROVE  mintIDs \subseteq mintIDs' /\ receipts \subseteq receipts'
  <1>1. CASE Handler
    BY <1>1
       DEF Handler, ReceiveFails, ReceiveNothing, ReceiveRefund, ReceiveMint, RefundDone,
           PaymentRetried, MintKnown, MintPrepare, MintSubmit, MintMined, MintFails,
           MintNotSigned, MintNotMined, FeeDone, SaveCursor, PaymentDone, PaymentFails,
           VaultPays, Vault!Pay, vault, contract
  <1>2. ASSUME NEW p \in late, LatePayment(p)
        PROVE  mintIDs \subseteq mintIDs' /\ receipts \subseteq receipts'
    BY <1>2 DEF LatePayment, VaultPays, Vault!Pay, contract
  <1>3. ASSUME NEW tx \in pool, MintTokens(tx) \/ MintReverts(tx) \/ MintDropped(tx)
        PROVE  mintIDs \subseteq mintIDs' /\ receipts \subseteq receipts'
    BY <1>3 DEF MintTokens, MintReverts, MintDropped, vault
  <1>4. CASE SetSigners \/ Deposit \/ Head \/ Crash
    BY <1>4 DEF SetSigners, Deposit, Head, Crash, vault, contract
  <1>5. ASSUME NEW rescan \in Rescans, NEW fee \in Fees, Start(rescan, fee)
        PROVE  mintIDs \subseteq mintIDs' /\ receipts \subseteq receipts'
    BY <1>5 DEF Start, vault, contract
  <1>6. CASE UNCHANGED vars
    BY <1>6 DEF vars, vault, contract
  <1> QED BY <1>1, <1>2, <1>3, <1>4, <1>5, <1>6 DEF Next

\* Every step keeps the order.
LEMMA OrderStep ==
    ASSUME NEW fee \in Nat, Fees = {fee}, MaxEpoch = 1, HorizonErrors = FALSE,
           TypeInv, TypeInv', Fate(fee), Fate(fee)', Order(fee), [Next]_vars
    PROVE  Order(fee)'
  <1> USE DepositsAssumption
  <1> DEFINE Passed == \A d \in Deposits : d <= cursor \/ d <= savedCursor => Done(d, fee)
             Queue == /\ \A tx \in mined : tx.dep \in mintIDs
                      /\ \A tx \in pool : Cleared(tx.dep, fee)
                      /\ \A e \in mintIDs : Cleared(e, fee)
             Ready == pc \in {"fee", "save"} => Current \in mintIDs
             Charged == /\ \A p \in late : p.kind = "fee" => p.dep \in mintIDs
                        /\ FeeOnlyIfMinted
  <1>1. Passed /\ Queue /\ Ready /\ Charged
    BY DEF Order
  <1>2. SUFFICES Passed' /\ Queue' /\ Ready' /\ Charged'
    BY <1>2 DEF Order
  <1>3. mintIDs \subseteq mintIDs' /\ receipts \subseteq receipts'
    BY NothingUndone
  <1>4. /\ \A d \in Deposits : Done(d, fee) => Done(d, fee)'
        /\ \A e \in Deposits : Cleared(e, fee) => Cleared(e, fee)'
    BY <1>3 DEF Done, Cleared, Refunded, Mints
  <1>5. /\ cursor \in Nat /\ savedCursor \in Nat /\ depositFee = fee
        /\ pc # "poll" => Current \in Deposits
        /\ \A tx \in pool \cup mined : tx.dep \in Deposits
    BY DEF TypeInv, TypeOK, Current, Deposits, Fate, MintTxs
  \* How the parts survive a step that leaves their variables alone.
  <1>6. ASSUME UNCHANGED <<cursor, savedCursor>> PROVE Passed'
    BY <1>1, <1>4, <1>6
  <1>7. ASSUME UNCHANGED <<mintIDs, pool, mined>> PROVE Queue'
    BY <1>1, <1>7 DEF Cleared, Mints
  <1>8. ASSUME UNCHANGED <<receipts, late>> PROVE Charged'
    BY <1>1, <1>3, <1>8 DEF FeeOnlyIfMinted
  <1>9. ASSUME NEW e \in Deposits, e = cursor + 1, cursor' = e, savedCursor' \in {savedCursor, e},
               Done(e, fee)'
        PROVE  Passed'
    <2>1. ASSUME NEW d \in Deposits, d <= cursor' \/ d <= savedCursor' PROVE Done(d, fee)'
      <3>1. CASE d = e
        BY <3>1, <1>9
      <3>2. CASE d # e
        <4>1. d <= cursor \/ d <= savedCursor
          BY <1>5, <1>9, <2>1, <3>2 DEF Deposits
        <4> QED BY <1>1, <1>4, <4>1
      <3> QED BY <3>1, <3>2
    <2> QED BY <2>1
  <1>10. CASE Handler
    <2>1. CASE ReceiveFails
      BY <2>1 DEF ReceiveFails
    <2>2. CASE ReceiveNothing
      <3>1. PICK e \in Deposits : e = cursor + 1
        BY <1>5, <2>2 DEF ReceiveNothing, TypeInv, TypeOK, Current, Deposits
      <3>2. Amount[e] <= WithdrawFee /\ ~Mints(e, fee)
        BY <1>5, <2>2, <3>1 DEF ReceiveNothing, Current, Mints
      <3>3. Passed'
        BY <1>9, <2>2, <3>1, <3>2 DEF ReceiveNothing, Return, Current, Done, Mints
      <3> QED BY <1>7, <1>8, <2>2, <3>3 DEF ReceiveNothing, Return, vault, contract
    <2>3. CASE ReceiveRefund \/ ReceiveMint \/ MintKnown \/ MintPrepare \/ MintFails
      <3>1. Ready'
        BY <2>3
           DEF ReceiveRefund, ReceiveMint, MintKnown, MintPrepare, MintFails,
               MintNotSigned, MintNotMined, Goto, contract, Current
      <3> QED
        BY <1>6, <1>7, <1>8, <2>3, <3>1
           DEF ReceiveRefund, ReceiveMint, MintKnown, MintPrepare, MintFails,
               MintNotSigned, MintNotMined, Goto, contract, vault
    <2>4. CASE MintMined
      <3>1. Current \in mintIDs
        BY <1>1, <2>4 DEF MintMined, MintTx
      <3> QED
        BY <1>6, <1>7, <1>8, <2>4, <3>1 DEF MintMined, Goto, contract, vault, Current
    <2>5. CASE RefundDone
      <3>1. PICK e \in Deposits : e = cursor + 1
        BY <1>5, <2>5 DEF RefundDone, Current
      <3>2. ~Mints(e, fee) /\ RefundOf(Current).dep = e /\ RefundOf(Current).kind = "refund"
        BY <2>5, <3>1 DEF RefundDone, Fate, Current, RefundOf
      <3>3. Refunded(e)' \/ e \in Unreachable
        <4>1. CASE Known(e) /\ UNCHANGED receipts
          BY <3>2, <4>1 DEF Known, Refunded, Fate, Owed
        <4>2. CASE VaultPays(RefundOf(Current))
          <5>1. [id |-> e, kind |-> "refund", memo |-> e] \in receipts'
            BY <3>2, <4>2 DEF VaultPays, Vault!Pay
          <5> QED BY <5>1 DEF Refunded
        <4> QED BY <2>5, <3>2, <4>1, <4>2 DEF RefundDone, PaymentDone
      <3>4. Passed'
        BY <1>9, <2>5, <3>1, <3>2, <3>3 DEF RefundDone, Return, Current, Done, Mints
      <3>5. Charged'
        <4>1. late' = late /\ mintIDs' = mintIDs /\ \A r \in receipts' : r \in receipts \/ r.kind = "refund"
          BY <2>5, <3>2 DEF RefundDone, PaymentDone, VaultPays, Vault!Pay, contract
        <4> QED BY <1>1, <4>1 DEF FeeOnlyIfMinted
      <3> QED BY <1>7, <2>5, <3>4, <3>5 DEF RefundDone, Return, contract
    <2>6. CASE PaymentRetried
      <3>1. Charged'
        <4>1. receipts' = receipts /\ mintIDs' = mintIDs
              /\ \A p \in late' : p \in late \/ p.kind = "refund" \/ p.dep \in mintIDs
          BY <1>1, <2>6 DEF PaymentRetried, PaymentFails, RefundOf, FeeOf, contract
        <4> QED BY <1>1, <4>1 DEF FeeOnlyIfMinted
      <3> QED
        BY <1>1, <1>6, <1>7, <2>6, <3>1 DEF PaymentRetried, contract, monitor, Current
    <2>7. CASE MintSubmit
      <3>1. Cleared(Current, fee) /\ MintTx.dep = Current
        BY <1>1, <1>5, <2>7 DEF Cleared, Done, Current, MintTx, Deposits
      <3>2. Queue'
        BY <1>1, <2>7, <3>1 DEF MintSubmit, Cleared, Mints
      <3> QED BY <1>6, <1>8, <2>7, <3>2 DEF MintSubmit, Goto, vault
    <2>8. CASE FeeDone
      <3>1. Charged'
        <4>1. late' = late /\ mintIDs' = mintIDs /\ \A r \in receipts' : r \in receipts \/ r.memo = Current
          BY <2>8 DEF FeeDone, PaymentDone, VaultPays, Vault!Pay, contract, FeeOf
        <4>2. Current \in mintIDs
          BY <1>1, <2>8 DEF FeeDone
        <4> QED BY <1>1, <4>1, <4>2 DEF FeeOnlyIfMinted
      <3> QED BY <1>1, <1>6, <1>7, <2>8, <3>1 DEF FeeDone, Goto, contract, Current
    <2>9. CASE SaveCursor
      <3>1. PICK e \in Deposits : e = cursor + 1
        BY <1>5, <2>9 DEF SaveCursor, Current
      <3>2. e \in mintIDs' /\ Mints(e, fee)
        BY <1>1, <1>3, <2>9, <3>1 DEF SaveCursor, Fate, Current, PCs
      <3>3. Passed'
        BY <1>9, <2>9, <3>1, <3>2 DEF SaveCursor, Return, Current, Done, Mints
      <3> QED BY <1>7, <1>8, <2>9, <3>3 DEF SaveCursor, Return, vault, contract
    <2> QED
      BY <1>10, <2>1, <2>2, <2>3, <2>4, <2>5, <2>6, <2>7, <2>8, <2>9 DEF Handler
  <1>11. ASSUME NEW p \in late, LatePayment(p) PROVE Passed' /\ Queue' /\ Ready' /\ Charged'
    <2>1. Charged'
      <3>1. late' \subseteq late /\ mintIDs' = mintIDs
            /\ \A r \in receipts' : r \in receipts \/ (r.memo = p.dep /\ r.kind = p.kind)
        BY <1>11 DEF LatePayment, VaultPays, Vault!Pay, contract
      <3> QED BY <1>1, <3>1 DEF FeeOnlyIfMinted
    <2> QED BY <1>1, <1>6, <1>7, <1>11, <2>1 DEF LatePayment, contract, monitor, Current
  <1>12. ASSUME NEW tx \in pool, MintTokens(tx) PROVE Passed' /\ Queue' /\ Ready' /\ Charged'
    <2>1. Queue'
      <3>1. /\ mintIDs' = mintIDs \cup {tx.dep} /\ pool' \subseteq pool
            /\ mined' = mined \cup {tx} /\ Cleared(tx.dep, fee)
        BY <1>1, <1>12 DEF MintTokens
      <3> QED BY <1>1, <3>1 DEF Cleared, Mints
    <2> QED
      BY <1>1, <1>3, <1>6, <1>8, <1>12, <2>1 DEF MintTokens, vault, monitor, Current
  <1>13. ASSUME NEW tx \in pool, MintReverts(tx) \/ MintDropped(tx)
         PROVE  Passed' /\ Queue' /\ Ready' /\ Charged'
    <2>1. tx.epoch = epoch
      BY DEF TypeInv, TypeOK, MintTxs
    <2>2. Queue'
      BY <1>1, <1>13, <2>1 DEF MintReverts, MintDropped, Cleared, Mints
    <2> QED
      BY <1>1, <1>6, <1>8, <1>13, <2>2 DEF MintReverts, MintDropped, vault, monitor, Current
  <1>14. CASE SetSigners \/ Deposit \/ Head
    BY <1>1, <1>6, <1>7, <1>8, <1>14
       DEF SetSigners, Deposit, Head, vault, contract, monitor, Current
  <1>15. CASE Crash
    <2>1. Passed'
      <3>1. cursor' = 0 /\ savedCursor' = savedCursor /\ \A d \in Deposits : ~(d <= 0)
        BY <1>15 DEF Crash, Deposits
      <3> QED BY <1>1, <1>4, <3>1
    <2> QED BY <1>7, <1>8, <1>15, <2>1 DEF Crash, vault, contract
  <1>16. ASSUME NEW rescan \in Rescans, NEW f \in Fees, Start(rescan, f)
         PROVE  Passed' /\ Queue' /\ Ready' /\ Charged'
    <2>1. Passed'
      <3>1. cursor' = savedCursor' /\ savedCursor' \in {0, savedCursor}
        BY <1>16 DEF Start
      <3>2. \A d \in Deposits : ~(d <= 0)
        BY DEF Deposits
      <3> QED BY <1>1, <1>4, <3>1, <3>2
    <2>2. pc = "poll" /\ pc' = pc
      BY <1>16 DEF Start, TypeInv, TypeOK
    <2> QED BY <1>7, <1>8, <1>16, <2>1, <2>2 DEF Start, vault, contract
  <1>17. CASE UNCHANGED vars
    BY <1>1, <1>6, <1>7, <1>8, <1>17 DEF vars, vault, contract, monitor, Current
  <1> QED
    BY <1>10, <1>11, <1>12, <1>13, <1>14, <1>15, <1>16, <1>17 DEF Next

\* What the order says about the saved cursor, the fees and the mints.
LEMMA OrderSuffices ==
    ASSUME NEW fee \in Nat, Fees = {fee}, TypeInv, Fate(fee), Order(fee)
    PROVE  SavedMeansSettled /\ FeeOnlyIfMinted /\ MintsInOrder
  <1>1. ASSUME NEW d \in 1..savedCursor PROVE Settled(d)
    <2>1. d \in Deposits /\ d <= savedCursor
      BY DepositsAssumption DEF TypeInv, TypeOK, Deposits
    <2> QED BY <2>1 DEF Order, Done, Settled
  <1>2. ASSUME NEW e \in mintIDs, NEW d \in 1..e, d \in ValidMemo, \A f \in Fees : Amount[d] > f
        PROVE  d \in mintIDs
    <2>1. d \in Deposits /\ e \in Deposits /\ Mints(d, fee)
      BY <1>2, DepositsAssumption DEF TypeInv, TypeOK, Deposits, Mints
    <2>2. d = e \/ d < e
      BY <2>1 DEF Deposits
    <2> QED BY <2>1, <2>2 DEF Order, Cleared
  <1> QED BY <1>1, <1>2 DEF SavedMeansSettled, MintsInOrder, Order

OrderInv(fee) == FateInv(fee) /\ Order(fee)

LEMMA OrderInvariant ==
    ASSUME NEW fee \in Nat, Fees = {fee}, MaxEpoch = 1, HorizonErrors = FALSE
    PROVE  Spec => []OrderInv(fee)
  <1>1. Init => OrderInv(fee)
    BY TypeInit, FateInit, OrderInit DEF OrderInv, FateInv
  <1>2. OrderInv(fee) /\ [Next]_vars => OrderInv(fee)'
    BY TypeStep, FateStep, OrderStep DEF OrderInv, FateInv
  <1> QED BY <1>1, <1>2, PTL DEF Spec

\* With one fee, one signer set and a Horizon that answers, the saved cursor
\* passes no deposit that is still to be minted or refunded, over all retries,
\* late answers, crashes and rescans.
THEOREM CursorPassesSettled ==
    ASSUME NEW fee \in Nat, Fees = {fee}, MaxEpoch = 1, HorizonErrors = FALSE
    PROVE  Spec => []SavedMeansSettled
  <1>1. OrderInv(fee) => SavedMeansSettled
    BY OrderSuffices DEF OrderInv, FateInv
  <1> QED BY <1>1, OrderInvariant, PTL

\* In the same circumstances a fee is taken only from a deposit that is minted.
THEOREM FeesFollowMints ==
    ASSUME NEW fee \in Nat, Fees = {fee}, MaxEpoch = 1, HorizonErrors = FALSE
    PROVE  Spec => []FeeOnlyIfMinted
  <1>1. OrderInv(fee) => FeeOnlyIfMinted
    BY OrderSuffices DEF OrderInv, FateInv
  <1> QED BY <1>1, OrderInvariant, PTL

\* In the same circumstances mints happen in the order of arrival.
THEOREM MintsKeepOrder ==
    ASSUME NEW fee \in Nat, Fees = {fee}, MaxEpoch = 1, HorizonErrors = FALSE
    PROVE  Spec => []MintsInOrder
  <1>1. OrderInv(fee) => MintsInOrder
    BY OrderSuffices DEF OrderInv, FateInv
  <1> QED BY <1>1, OrderInvariant, PTL
=============================================================================
