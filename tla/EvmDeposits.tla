----------------------------- MODULE EvmDeposits -----------------------------
(***************************************************************************)
(* Stellar to EVM: the monitor goroutine of the master bridge reads the    *)
(* vault's transactions in order, mints each deposit on the token contract *)
(* and charges the deposit fee, or refunds it.  Only the cursor saved      *)
(* after a complete mint survives a restart.                               *)
(*                                                                         *)
(* Deposits are numbered by their place in the vault's history.  Refunds   *)
(* and fees are payments of the vault: their step is the step of           *)
(* PayoutOnce that VaultPayments implements.                               *)
(*                                                                         *)
(* Source: bridges/stellar-evm/stellar/wallet.go, api/bridge/bridge.go,    *)
(* api/bridge/bridge_contract.go, solidity/contracts/tokenV1.sol.          *)
(***************************************************************************)
EXTENDS Naturals, FiniteSets

CONSTANTS N,              \* number of transactions the vault receives
          Amount,         \* TFT each of them credits to the vault
          LastCredit,     \* the amount its last effect credits to the vault
          OneSender,      \* transactions whose effects debit one account only
          ValidMemo,      \* deposits whose memo decodes to an address
          Unreachable,    \* deposits whose sender lost its trustline
          WithdrawFee,
          Fees,           \* deposit fees the operator may start with
          Rescans,        \* values of the --rescan flag it may start with
          HorizonErrors,  \* requests for a deposit's effects may fail
          MaxEpoch        \* bound: signer sets the contract goes through

Deposits == 1..N

ASSUME DepositsAssumption ==
    /\ N \in Nat /\ MaxEpoch \in Nat \ {0} /\ WithdrawFee \in Nat
    /\ Amount \in [Deposits -> Nat] /\ LastCredit \in [Deposits -> Nat]
    /\ OneSender \subseteq Deposits
    /\ ValidMemo \subseteq Deposits /\ Unreachable \subseteq Deposits
    /\ Fees \subseteq Nat /\ Fees # {} /\ Rescans \subseteq BOOLEAN
    /\ HorizonErrors \in BOOLEAN

VARIABLES
    arrived,      \* transactions Horizon lists for the vault
    receipts,     \* refunds and fees the vault has paid
    late,         \* submitted ones whose caller got an error
    paidOut,      \* TFT the vault paid for each deposit
    mintIDs,      \* deposits the contract has minted
    minted,       \* tokens minted for each deposit
    pool,         \* mint transactions not mined yet
    mined,        \* mint transactions with a receipt
    epoch,        \* the contract's current signer set
    savedCursor,  \* StellarCursor in the persistency file
    up, synced, depositFee,  \* the process, its synced flag and its --depositFee
    cursor,       \* the last transaction the monitor is done with
    pc,           \* where the monitor is in its handler
    signedAt      \* the signer set its mint signatures are from

vault == <<receipts, late, paidOut>>
contract == <<mintIDs, minted, pool, mined, epoch>>
process == <<up, synced, depositFee>>
monitor == <<cursor, pc, signedAt>>
vars == <<arrived, vault, contract, savedCursor, process, monitor>>

PCs == {"poll", "mint", "sign", "mined", "fee", "save", "refund"}

Vault == INSTANCE PayoutOnce WITH
           Memos <- Deposits, Kinds <- {"refund", "fee"}, ReceiptIds <- Deposits

Init ==
    /\ arrived = 0
    /\ Vault!Init /\ late = {} /\ paidOut = [d \in Deposits |-> 0]
    /\ mintIDs = {} /\ minted = [d \in Deposits |-> 0]
    /\ pool = {} /\ mined = {} /\ epoch = 1
    /\ savedCursor = 0
    /\ up = FALSE /\ synced = FALSE /\ depositFee \in Fees
    /\ cursor = 0 /\ pc = "poll" /\ signedAt = 1

-----------------------------------------------------------------------------
(* Payments out of the vault for deposit d.                                *)

Known(d) == \E r \in receipts : r.memo = d

\* The vault executes payment p.
VaultPays(p) ==
    /\ Vault!Pay([id |-> p.dep, kind |-> p.kind, memo |-> p.dep])
    /\ paidOut' = [paidOut EXCEPT ![p.dep] = @ + p.amount]

\* The cosigners sign a refund to the only account that was debited, of what the
\* last credit brought: the master refunds the sum of the credits.  The fee they
\* compare with the deposit as a number of whole TFT.
Stroops == 10000000
CosignersSign(p) ==
    \/ /\ p.kind = "refund"
       /\ p.dep \in OneSender /\ p.amount = LastCredit[p.dep]
    \/ /\ p.kind = "fee"
       /\ p.amount = depositFee /\ Amount[p.dep] > depositFee \div Stroops

\* The payment function returns nil: already executed, signed and executed now,
\* or signed and soaked because its destination cannot receive it.
PaymentDone(p) ==
    /\ \/ Known(p.dep) /\ UNCHANGED <<receipts, paidOut>>
       \/ CosignersSign(p) /\ VaultPays(p)
       \/ /\ CosignersSign(p)
          /\ p.kind = "refund" /\ p.dep \in Unreachable
          /\ UNCHANGED <<receipts, paidOut>>
    /\ UNCHANGED late

\* It returns an error, but may have submitted the signed payment.
PaymentFails(p) ==
    /\ \/ CosignersSign(p) /\ late' = late \cup {p}
       \/ UNCHANGED late
    /\ UNCHANGED <<receipts, paidOut>>

\* A payment the caller gave up on is executed after all, or dropped.
LatePayment(p) ==
    /\ late' = late \ {p}
    /\ \/ VaultPays(p)
       \/ UNCHANGED <<receipts, paidOut>>
    /\ UNCHANGED <<arrived, contract, savedCursor, process, monitor>>

-----------------------------------------------------------------------------
(* The monitor's transaction handler.                                      *)

Current == cursor + 1
RefundOf(d) == [kind |-> "refund", dep |-> d, amount |-> Amount[d]]
FeeOf(d) == [kind |-> "fee", dep |-> d, amount |-> depositFee]

\* The handler returns: the in-memory cursor moves past the transaction.
Return ==
    /\ cursor' = Current
    /\ pc' = "poll"
    /\ UNCHANGED signedAt

Goto(place) ==
    /\ pc' = place
    /\ UNCHANGED <<cursor, signedAt>>

\* GetDepositAmountAndSender fails: the handler returns silently.
ReceiveFails ==
    /\ up /\ pc = "poll" /\ Current <= arrived
    /\ HorizonErrors
    /\ Return
    /\ UNCHANGED <<arrived, vault, contract, savedCursor, process>>

\* Not a deposit, or one too small to refund.
ReceiveNothing ==
    /\ up /\ pc = "poll" /\ Current <= arrived
    /\ \/ Amount[Current] = 0
       \/ /\ Amount[Current] <= depositFee \/ Current \notin ValidMemo
          /\ Amount[Current] <= WithdrawFee
    /\ Return
    /\ UNCHANGED <<arrived, vault, contract, savedCursor, process>>

ReceiveRefund ==
    /\ up /\ pc = "poll" /\ Current <= arrived
    /\ Amount[Current] > WithdrawFee
    /\ Amount[Current] <= depositFee \/ Current \notin ValidMemo
    /\ Goto("refund")
    /\ UNCHANGED <<arrived, vault, contract, savedCursor, process>>

ReceiveMint ==
    /\ up /\ pc = "poll" /\ Current <= arrived
    /\ Amount[Current] > depositFee /\ Current \in ValidMemo
    /\ Goto("mint")
    /\ UNCHANGED <<arrived, vault, contract, savedCursor, process>>

\* Seeded fault: the return after the refund is missing.
MutRefundDoneContinues ==
    /\ pc = "refund"
    /\ PaymentDone(RefundOf(Current))
    /\ Goto("mint")
    /\ UNCHANGED <<arrived, contract, savedCursor, process>>

\* The refund loop ends; no cursor is saved.
RefundDone ==
    /\ pc = "refund"
    /\ PaymentDone(RefundOf(Current))
    /\ Return
    /\ UNCHANGED <<arrived, contract, savedCursor, process>>

\* IsMintTxID: nothing to mint.
MintKnown ==
    /\ pc = "mint" /\ synced
    /\ Current \in mintIDs
    /\ Goto("fee")
    /\ UNCHANGED <<arrived, vault, contract, savedCursor, process>>

\* The required signature count and the cosigners' signatures are asked for.
MintPrepare ==
    /\ pc = "mint" /\ synced
    /\ Current \notin mintIDs
    /\ pc' = "sign" /\ signedAt' = epoch
    /\ UNCHANGED <<arrived, vault, contract, savedCursor, process, cursor>>

MintTx == [dep |-> Current, amount |-> Amount[Current] - depositFee,
           epoch |-> signedAt]

\* SignMint: the cosigners have the deposit; it names the receiver and, less the
\* fee, it is what would be minted.
CosignersSignMint(tx) ==
    /\ tx.dep <= arrived /\ tx.dep \in ValidMemo
    /\ tx.amount = Amount[tx.dep] - depositFee

\* The signatures are ordered and the mint transaction is sent.
MintSubmit ==
    /\ pc = "sign" /\ CosignersSignMint(MintTx)
    /\ pool' = pool \cup {MintTx}
    /\ Goto("mined")
    /\ UNCHANGED <<arrived, vault, mintIDs, minted, mined, epoch, savedCursor,
                   process>>

\* WaitMined returns a receipt; its status is logged and not looked at.
MintMined ==
    /\ pc = "mined" /\ MintTx \in mined
    /\ Goto("fee")
    /\ UNCHANGED <<arrived, vault, contract, savedCursor, process>>

\* Seeded faults: mint is not called again after an error, or its error is
\* ignored.
MutMintFailsGivesUp ==
    /\ pc \in {"sign", "mined"}
    /\ Return
    /\ UNCHANGED <<arrived, vault, contract, savedCursor, process>>
MutMintFailsIgnored ==
    /\ pc \in {"sign", "mined"}
    /\ Goto("fee")
    /\ UNCHANGED <<arrived, vault, contract, savedCursor, process>>

\* When the cosigners have answered or 30 seconds are over, too few have signed.
MintNotSigned ==
    /\ pc = "sign"
    /\ Goto("mint")
    /\ UNCHANGED <<arrived, vault, contract, savedCursor, process>>

\* There is no receipt in 6 minutes.
MintNotMined ==
    /\ pc = "mined"
    /\ Goto("mint")
    /\ UNCHANGED <<arrived, vault, contract, savedCursor, process>>

\* An error of mint is logged, and mint is called again.
MintFails == MintNotSigned \/ MintNotMined

FeeDone ==
    /\ pc = "fee"
    /\ PaymentDone(FeeOf(Current))
    /\ Goto("save")
    /\ UNCHANGED <<arrived, contract, savedCursor, process>>

\* Both payment loops try again after an error.
PaymentRetried ==
    /\ \/ pc = "refund" /\ PaymentFails(RefundOf(Current))
       \/ pc = "fee" /\ PaymentFails(FeeOf(Current))
    /\ UNCHANGED <<arrived, contract, savedCursor, process, monitor>>

\* SaveStellarCursor; an error is logged only.
SaveCursor ==
    /\ pc = "save"
    /\ savedCursor' \in {Current, savedCursor}
    /\ Return
    /\ UNCHANGED <<arrived, vault, contract, process>>

-----------------------------------------------------------------------------
(* The token contract and its chain.                                       *)

\* Seeded fault: mintTokens does not look the id up.
MutMintTokensUnchecked(tx) ==
    /\ mintIDs' = mintIDs \cup {tx.dep}
    /\ minted' = [minted EXCEPT ![tx.dep] = @ + tx.amount]
    /\ pool' = pool \ {tx} /\ mined' = mined \cup {tx}
    /\ UNCHANGED <<arrived, vault, epoch, savedCursor, process, monitor>>

\* mintTokens succeeds: the id is new and the signatures are good, which they
\* are for the signers they were collected from and may be for later ones.
MintTokens(tx) ==
    /\ tx.dep \notin mintIDs
    /\ mintIDs' = mintIDs \cup {tx.dep}
    /\ minted' = [minted EXCEPT ![tx.dep] = @ + tx.amount]
    /\ pool' = pool \ {tx} /\ mined' = mined \cup {tx}
    /\ UNCHANGED <<arrived, vault, epoch, savedCursor, process, monitor>>

\* It reverts: known id, or signatures of other signers.
MintReverts(tx) ==
    /\ tx.dep \in mintIDs \/ tx.epoch # epoch
    /\ pool' = pool \ {tx} /\ mined' = mined \cup {tx}
    /\ UNCHANGED <<arrived, vault, mintIDs, minted, epoch, savedCursor, process,
                   monitor>>

MintDropped(tx) ==
    /\ pool' = pool \ {tx}
    /\ UNCHANGED <<arrived, vault, mintIDs, minted, mined, epoch, savedCursor,
                   process, monitor>>

\* The contract's owners replace its signers.
SetSigners ==
    /\ epoch < MaxEpoch
    /\ epoch' = epoch + 1
    /\ UNCHANGED <<arrived, vault, mintIDs, minted, pool, mined, savedCursor,
                   process, monitor>>

-----------------------------------------------------------------------------
(* Users and the process.                                                  *)

Deposit ==
    /\ arrived < N
    /\ arrived' = arrived + 1
    /\ UNCHANGED <<vault, contract, savedCursor, process, monitor>>

\* The main loop sees a head and finds the node in sync.
Head ==
    /\ up /\ ~synced
    /\ synced' = TRUE
    /\ UNCHANGED <<arrived, vault, contract, savedCursor, up, depositFee, monitor>>

Crash ==
    /\ up
    /\ up' = FALSE /\ synced' = FALSE
    /\ cursor' = 0 /\ pc' = "poll" /\ signedAt' = 1
    /\ UNCHANGED <<arrived, vault, contract, savedCursor, depositFee>>

\* Seeded faults: the stream resumes one too far, or at the newest transaction.
MutStartPastSaved(rescan, fee) ==
    /\ ~up
    /\ up' = TRUE
    /\ depositFee' = fee
    /\ savedCursor' = IF rescan THEN 0 ELSE savedCursor
    /\ cursor' = savedCursor' + 1
    /\ UNCHANGED <<arrived, vault, contract, synced, pc, signedAt>>
MutStartAtTip(rescan, fee) ==
    /\ ~up
    /\ up' = TRUE
    /\ depositFee' = fee
    /\ savedCursor' = IF rescan THEN 0 ELSE savedCursor
    /\ cursor' = arrived
    /\ UNCHANGED <<arrived, vault, contract, synced, pc, signedAt>>

\* NewBridge and the start of the monitor: --rescan resets the saved cursor.
Start(rescan, fee) ==
    /\ ~up
    /\ up' = TRUE
    /\ depositFee' = fee
    /\ savedCursor' = IF rescan THEN 0 ELSE savedCursor
    /\ cursor' = savedCursor'
    /\ UNCHANGED <<arrived, vault, contract, synced, pc, signedAt>>

Handler ==
    \/ ReceiveFails \/ ReceiveNothing \/ ReceiveRefund \/ ReceiveMint
    \/ RefundDone \/ PaymentRetried
    \/ MintKnown \/ MintPrepare \/ MintSubmit \/ MintMined \/ MintFails
    \/ FeeDone \/ SaveCursor

Next ==
    \/ Handler
    \/ \E p \in late : LatePayment(p)
    \/ \E tx \in pool : MintTokens(tx) \/ MintReverts(tx) \/ MintDropped(tx)
    \/ SetSigners \/ Deposit \/ Head \/ Crash
    \/ \E rescan \in Rescans, fee \in Fees : Start(rescan, fee)

Spec == Init /\ [][Next]_vars

-----------------------------------------------------------------------------
(* Properties.                                                             *)

Payments == [kind : {"refund", "fee"}, dep : Deposits, amount : Nat]
MintTxs == [dep : Deposits, amount : Nat, epoch : 1..MaxEpoch]

\* The types of the variables; a handler is busy only with what has arrived.
TypeOK ==
    /\ arrived \in 0..N
    /\ receipts \subseteq Vault!Receipts
    /\ late \subseteq Payments
    /\ paidOut \in [Deposits -> Nat]
    /\ mintIDs \subseteq Deposits
    /\ minted \in [Deposits -> Nat]
    /\ pool \subseteq MintTxs /\ mined \subseteq MintTxs
    /\ epoch \in 1..MaxEpoch /\ signedAt \in 1..MaxEpoch
    /\ savedCursor \in 0..arrived
    /\ cursor \in 0..arrived
    /\ up \in BOOLEAN /\ synced \in BOOLEAN /\ depositFee \in Fees
    /\ pc \in PCs
    /\ pc # "poll" => up /\ Current <= arrived

Refunded(d) == \E r \in receipts : r.memo = d /\ r.kind = "refund"

\* What the bridge gives for a deposit, tokens minted and TFT paid out
\* together, is never more than the deposit, over all retries and restarts.
EachDepositBacked ==
    \A d \in Deposits : minted[d] + paidOut[d] <= Amount[d]

Settled(d) ==
    \/ d \in mintIDs \/ Refunded(d)
    \/ Amount[d] <= WithdrawFee \/ d \in Unreachable

\* A deposit at or below the saved cursor, which no restart looks at again,
\* has been minted or refunded (or cannot be refunded).
SavedMeansSettled == \A d \in 1..savedCursor : Settled(d)

\* The fee of a deposit is only taken when its tokens have been minted.
FeeOnlyIfMinted ==
    \A r \in receipts : r.kind = "fee" => r.memo \in mintIDs

\* Deposits are minted in the order in which they arrived: a deposit with a
\* good memo that is larger than every fee is never overtaken.
MintsInOrder ==
    \A e \in mintIDs : \A d \in 1..e :
        d \in ValidMemo /\ (\A fee \in Fees : Amount[d] > fee) => d \in mintIDs

\* A deposit that was sent back is not minted as well.
RefundedNotMinted == \A d \in mintIDs : ~ Refunded(d)

\* The monitor is at a refund, of a deposit up to d, that the cosigners refuse:
\* of several payments, or with more than one account debited.
RefundRefused(d) ==
    /\ pc = "refund" /\ Current <= d
    /\ Current \notin OneSender \/ LastCredit[Current] # Amount[Current]

\* Liveness: the process is restarted and its goroutines run; the node gets in
\* sync; a payment tried again and again is made; the cosigners sign in the end
\* and a mint transaction sent again and again is mined.
MintIsMined == \E tx \in pool : tx.dep = Current /\ MintTokens(tx)

Fairness ==
    /\ WF_vars(\E rescan \in Rescans, fee \in Fees : Start(rescan, fee))
    /\ WF_vars(Head)
    /\ WF_vars(Handler)
    /\ SF_vars(RefundDone) /\ SF_vars(FeeDone)
    /\ SF_vars(MintSubmit) /\ SF_vars(MintMined) /\ SF_vars(MintIsMined)

FairSpec == Spec /\ Fairness

\* If crashes stop, every deposit that arrives is minted or refunded, unless it,
\* or one before it, has to be refunded and the cosigners refuse that.
EveryDepositSettles ==
    <>[]up => \A d \in Deposits : arrived >= d ~> Settled(d) \/ RefundRefused(d)
=============================================================================
