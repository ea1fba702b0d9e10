---------------------------- MODULE SolanaDeposits ----------------------------
(***************************************************************************)
(* Stellar to Solana: the monitor goroutine of the master bridge reads the *)
(* vault's transactions in order and mints each deposit, or refunds it.    *)
(* Nothing on Solana makes a mint unique: the bridge looks for the deposit *)
(* among the finalized transactions of the token and for a fee or a refund *)
(* among the payments of the vault, and waits 120 s after a failed         *)
(* submission.  The mint names the cosigners that are online, who all have *)
(* to sign it.                                                             *)
(*                                                                         *)
(* Source: bridges/stellar-solana/stellar/wallet.go, solana/solana.go,     *)
(* api/bridge/{bridge,signer,signer_server}.go.                            *)
(***************************************************************************)
EXTENDS Naturals, Sequences, FiniteSets

CONSTANTS N,             \* number of transactions the vault receives
          Amount,        \* TFT each of them credits to the vault
          LastCredit,    \* the amount its last effect credits to the vault
          OneSender,     \* transactions whose effects debit one account only
          ValidMemo,     \* deposits whose memo decodes to an address
          ReturnMemo,    \* deposits whose memo is of type return, not hash
          Receiver,      \* what a lookup of the receiver's account may say
          Unreachable,   \* deposits whose sender lost its trustline
          WithdrawFee, DepositFee,
          Cosigners,     \* the follower bridges
          M,             \* signatures the token's mint authority asks for
          SigPage,       \* signatures getSignaturesForAddress returns
          Reads,         \* {TRUE}, or BOOLEAN if reading the effects may fail
          Rescans,       \* values of the --rescan flag it may start with
          QuickRestart,  \* it may start while a transaction is undecided
          Reused,        \* deposits whose hash others use as a memo on Solana
          MaxOthers      \* bound: other transactions of the token in a row

Deposits == 1..N
Required == M - 1

ASSUME SolanaDepositsAssumption ==
    /\ N \in Nat /\ M \in Nat \ {0} /\ SigPage \in Nat /\ MaxOthers \in Nat
    /\ WithdrawFee \in Nat /\ DepositFee \in Nat \ {0}
    /\ Amount \in [Deposits -> Nat] /\ LastCredit \in [Deposits -> Nat]
    /\ OneSender \subseteq Deposits /\ Reused \subseteq Deposits
    /\ ValidMemo \subseteq Deposits /\ ReturnMemo \subseteq Deposits
    /\ Unreachable \subseteq Deposits
    /\ Receiver \in [Deposits -> (SUBSET BOOLEAN) \ {{}}]
    /\ Reads \subseteq BOOLEAN /\ Rescans \subseteq BOOLEAN
    /\ QuickRestart \in BOOLEAN

VARIABLES
    arrived,        \* transactions Horizon lists for the vault
    receipts, late, \* the vault's payments: see VaultClient
    tokenTxs,       \* finalized transactions of the token, oldest first
    pool,           \* mint transactions that may still be executed
    confirmed,      \* the transaction the monitor sent last is finalized
    savedCursor,    \* StellarCursor in the persistency file
    up,             \* the master process runs
    cursor,         \* the last transaction the monitor is done with
    pc,             \* where the monitor is in its handler
    named,          \* onlineSigners: the cosigners the mint names
    waiting, good   \* the round of questions it is in: see SignersClient

vault == <<receipts, late>>
solana == <<tokenTxs, pool, confirmed>>
process == <<savedCursor, up>>
round == <<named, waiting, good>>
vars == <<arrived, vault, solana, process, cursor, pc, round>>

PCs == {"poll", "mint", "memo", "online", "sign", "submit", "sent", "wait",
        "fee", "save", "refund"}

Vault == INSTANCE VaultClient WITH Memos <- Deposits, Kinds <- {"refund", "fee"}
Signers == INSTANCE SignersClient

\* A transaction that mentions the token: the bridge's mint of a deposit, or one
\* of somebody else, a burn for example, which may carry any memo.
Other == 0
TokenTxs == [memo : Deposits \cup {Other}, mints : BOOLEAN]
MintOf(d) == [memo |-> d, mints |-> TRUE]
OthersWith(m) == [memo |-> m, mints |-> FALSE]

MintTxs == [dep : Deposits, own : BOOLEAN]

Init ==
    /\ arrived = 0
    /\ Vault!Init
    /\ tokenTxs = <<>> /\ pool = {} /\ confirmed = FALSE
    /\ savedCursor = 0 /\ up = FALSE
    /\ cursor = 0 /\ pc = "poll"
    /\ named = {} /\ Signers!Init

-----------------------------------------------------------------------------
(* What the master and the cosigners look up before a mint.                *)

Current == cursor + 1
RefundOf(d) == [kind |-> "refund", memo |-> d]
FeeOf(d) == [kind |-> "fee", memo |-> d]

\* listTransactionSigs: the newest finalized transactions, one page of them.
Listed == {tokenTxs[i] : i \in {k \in DOMAIN tokenTxs :
                                  k + SigPage > Len(tokenTxs)}}

\* IsMintTxID: one of them has the deposit's hash as its memo.  What else it
\* does, and whether it mints, is not looked at.
IsMintTxID(d) == \E tx \in Listed : tx.memo = d

\* Seeded fault: only IsMintTxID is asked.
MutKnownNever(d) == FALSE

\* TransactionWithMemoExists: a refund or a fee for the deposit was paid.
Known(d) == Vault!Known(d)

\* The cosigners sign a refund to the only account that was debited, of what the
\* last credit brought: the master refunds the sum of the credits.
Refundable(d) == d \in OneSender /\ LastCredit[d] = Amount[d]

-----------------------------------------------------------------------------
(* The monitor's transaction handler.                                      *)

\* The handler returns: the in-memory cursor moves past the transaction.
Return ==
    /\ cursor' = Current
    /\ pc' = "poll"

Goto(place) ==
    /\ pc' = place
    /\ UNCHANGED cursor

NoRound == named' = {} /\ Signers!Forget

\* What the handler does with a deposit of this size: nothing that is credited
\* or too little to refund, a refund, or a mint.
Receive(read) ==
    /\ up /\ pc = "poll" /\ Current <= arrived
    /\ LET total == IF read THEN Amount[Current] ELSE 0
           mints == total > DepositFee /\ Current \in ValidMemo
       IN \/ total <= WithdrawFee /\ ~mints /\ Return
          \/ total > WithdrawFee /\ ~mints /\ Goto("refund")
          \/ mints /\ Goto("mint")
    /\ UNCHANGED <<arrived, vault, solana, process, round>>

\* The refund loop ends; no cursor is saved.
RefundDone ==
    /\ pc = "refund"
    /\ Known(Current) \/ Refundable(Current)
    /\ Vault!Returns(RefundOf(Current), Current \in Unreachable)
    /\ Return
    /\ UNCHANGED <<arrived, solana, process, round>>

\* mint: the transaction is a known mint.
MintKnown ==
    /\ pc = "mint" /\ IsMintTxID(Current)
    /\ Goto("fee")
    /\ UNCHANGED <<arrived, vault, solana, process, round>>

MintUnknown ==
    /\ pc = "mint" /\ ~IsMintTxID(Current)
    /\ Goto("memo")
    /\ UNCHANGED <<arrived, vault, solana, process, round>>

\* mint: the deposit was refunded, or its fee was paid.
MemoKnown ==
    /\ pc = "memo" /\ Known(Current)
    /\ Goto("fee")
    /\ UNCHANGED <<arrived, vault, solana, process, round>>

\* Seeded fault: the refund is forgotten.
MutInvalidReceiverKeeps ==
    /\ pc = "memo" /\ ~Known(Current)
    /\ FALSE \in Receiver[Current]
    /\ Goto("save")
    /\ UNCHANGED <<arrived, vault, solana, process, round>>

\* ErrInvalidReceiver: the handler refunds what is large enough and returns.
InvalidReceiver ==
    /\ pc = "memo" /\ ~Known(Current)
    /\ FALSE \in Receiver[Current]
    /\ IF Amount[Current] > WithdrawFee THEN Goto("refund") ELSE Return
    /\ UNCHANGED <<arrived, vault, solana, process, round>>

\* The receiver can hold the token: SolID asks the cosigners who is online.
AskOnline ==
    /\ pc = "memo" /\ ~Known(Current)
    /\ TRUE \in Receiver[Current]
    /\ Goto("online")
    /\ Signers!Ask(Cosigners) /\ UNCHANGED named
    /\ UNCHANGED <<arrived, vault, solana, process>>

Answers(p) == Signers!Good(p) /\ UNCHANGED <<named, cursor, pc>>

OnlineAnswer(p) ==
    /\ pc = "online" /\ ~Signers!Over(Cosigners, Required)
    /\ Answers(p)
    /\ UNCHANGED <<arrived, vault, solana, process>>

\* SignMint of a cosigner: the deposit exists, is not minted, refunded or
\* charged as far as the cosigner can see, and has a memo of type hash.
SignAnswer(p) ==
    /\ pc = "sign" /\ ~Signers!Over(named, Required)
    /\ ~IsMintTxID(Current) /\ ~Known(Current) /\ Current \notin ReturnMemo
    /\ Answers(p)
    /\ UNCHANGED <<arrived, vault, solana, process>>

\* An error, a refusal, or the 30 s are over.
NoAnswer(p) ==
    /\ \/ pc = "online" /\ ~Signers!Over(Cosigners, Required)
       \/ pc = "sign" /\ ~Signers!Over(named, Required)
    /\ Signers!Bad(p) /\ UNCHANGED <<named, cursor, pc>>
    /\ UNCHANGED <<arrived, vault, solana, process>>

\* SolID returns enough peers: PrepareMintTx names them all as signers and
\* SignMint asks each of them.
OnlineDone ==
    /\ pc = "online" /\ Signers!Over(Cosigners, Required)
    /\ Cardinality(good) >= Required
    /\ named' = good /\ Signers!Ask(good)
    /\ Goto("sign")
    /\ UNCHANGED <<arrived, vault, solana, process>>

\* Seeded fault: the number of signatures is not looked at.
MutSignDoneUnchecked ==
    /\ pc = "sign" /\ Signers!Over(named, Required)
    /\ Goto("submit")
    /\ UNCHANGED <<arrived, vault, solana, process, round>>

\* SignMint returns the required number, and VerifySignatures finds one of
\* each signer the transaction names.
SignDone ==
    /\ pc = "sign" /\ Signers!Over(named, Required)
    /\ Cardinality(good) = Required /\ good = named
    /\ Goto("submit")
    /\ UNCHANGED <<arrived, vault, solana, process, round>>

\* Any error before the submission, a missing signature included: mint is
\* called again after 10 s.
MintFails ==
    /\ pc \in {"memo", "online", "sign", "submit"}
    /\ Goto("mint") /\ NoRound
    /\ UNCHANGED <<arrived, vault, solana, process>>

\* SendAndConfirmTransaction sends it, or the RPC node refuses it at once.
MintSubmit ==
    /\ pc = "submit"
    /\ pool' \in {pool, pool \cup {[dep |-> Current, own |-> TRUE]}}
    /\ Goto("sent") /\ NoRound
    /\ UNCHANGED <<arrived, vault, tokenTxs, confirmed, process>>

\* The subscription reports that it is finalized.
MintConfirmed ==
    /\ pc = "sent" /\ confirmed
    /\ confirmed' = FALSE
    /\ Goto("fee")
    /\ UNCHANGED <<arrived, vault, tokenTxs, pool, process, round>>

\* Seeded fault: the error of mint is ignored.
MutMintSubmitFailsIgnored ==
    /\ pc = "sent"
    /\ Goto("fee")
    /\ UNCHANGED <<arrived, vault, solana, process, round>>

\* ErrMintSubmitFailed, which says nothing about the transaction.
MintSubmitFails ==
    /\ pc = "sent"
    /\ Goto("wait")
    /\ UNCHANGED <<arrived, vault, solana, process, round>>

\* Seeded fault: mint is called again after 10 s, as after other errors.
MutMintWaitedShort ==
    /\ pc = "wait"
    /\ confirmed' = FALSE
    /\ Goto("mint")
    /\ UNCHANGED <<arrived, vault, tokenTxs, pool, process, round>>

\* After 120 s mint is called again.  By then the blockhash of the transaction
\* has expired and it is finalized, or will never be.
MintWaited ==
    /\ pc = "wait"
    /\ \A tx \in pool : ~tx.own
    /\ confirmed' = FALSE
    /\ Goto("mint")
    /\ UNCHANGED <<arrived, vault, tokenTxs, pool, process, round>>

FeeDone ==
    /\ pc = "fee"
    /\ Vault!Returns(FeeOf(Current), FALSE)
    /\ Goto("save")
    /\ UNCHANGED <<arrived, solana, process, round>>

\* Both payment loops try again after an error; a refund that the cosigners
\* refuse was not submitted.
PaymentRetried ==
    /\ \/ /\ pc = "refund"
          /\ IF Refundable(Current) THEN Vault!Fails(RefundOf(Current)) ELSE UNCHANGED vault
       \/ pc = "fee" /\ Vault!Fails(FeeOf(Current))
    /\ UNCHANGED <<arrived, solana, process, cursor, pc, round>>

\* SaveStellarCursor; an error is logged only.
SaveCursor ==
    /\ pc = "save"
    /\ savedCursor' \in {Current, savedCursor}
    /\ Return
    /\ UNCHANGED <<arrived, vault, solana, up, round>>

-----------------------------------------------------------------------------
(* The networks.                                                           *)

\* Solana executes and finalizes a mint transaction.
Finalize(tx) ==
    /\ tokenTxs' = Append(tokenTxs, MintOf(tx.dep))
    /\ pool' = pool \ {tx}
    /\ confirmed' = (confirmed \/ tx.own)
    /\ UNCHANGED <<arrived, vault, process, cursor, pc, round>>

\* It fails, or its blockhash is too old.
Expire(tx) ==
    /\ pool' = pool \ {tx}
    /\ UNCHANGED <<arrived, vault, tokenTxs, confirmed, process, cursor, pc, round>>

\* The other transactions since the last mint.
Trailing ==
    {i \in DOMAIN tokenTxs : \A k \in i..Len(tokenTxs) : ~tokenTxs[k].mints}

\* Somebody else's transaction of the token is finalized.
OtherTx(m) ==
    /\ Cardinality(Trailing) < MaxOthers
    /\ tokenTxs' = Append(tokenTxs, OthersWith(m))
    /\ UNCHANGED <<arrived, vault, pool, confirmed, process, cursor, pc, round>>

LatePayment(p) ==
    /\ Vault!Decided(p)
    /\ UNCHANGED <<arrived, solana, process, cursor, pc, round>>

Deposit ==
    /\ arrived < N
    /\ arrived' = arrived + 1
    /\ UNCHANGED <<vault, solana, process, cursor, pc, round>>

-----------------------------------------------------------------------------
(* The process.                                                            *)

Crash ==
    /\ up
    /\ up' = FALSE
    /\ cursor' = 0 /\ pc' = "poll" /\ NoRound
    /\ pool' = {[tx EXCEPT !.own = FALSE] : tx \in pool}
    /\ confirmed' = FALSE
    /\ UNCHANGED <<arrived, vault, tokenTxs, savedCursor>>

\* NewBridge and the start of the monitor: --rescan resets the saved cursor.
Start(rescan) ==
    /\ ~up
    /\ QuickRestart \/ (pool = {} /\ late = {})
    /\ up' = TRUE
    /\ savedCursor' = IF rescan THEN 0 ELSE savedCursor
    /\ cursor' = savedCursor'
    /\ UNCHANGED <<arrived, vault, solana, pc, round>>

Handler ==
    \/ \E read \in Reads : Receive(read)
    \/ RefundDone \/ PaymentRetried
    \/ MintKnown \/ MintUnknown \/ MemoKnown \/ InvalidReceiver \/ AskOnline
    \/ \E p \in waiting : OnlineAnswer(p) \/ SignAnswer(p) \/ NoAnswer(p)
    \/ OnlineDone \/ SignDone \/ MintFails
    \/ MintSubmit \/ MintConfirmed \/ MintSubmitFails \/ MintWaited
    \/ FeeDone \/ SaveCursor

Next ==
    \/ Handler
    \/ \E tx \in pool : Finalize(tx) \/ Expire(tx)
    \/ \E m \in Reused \cup {Other} : OtherTx(m)
    \/ \E p \in late : LatePayment(p)
    \/ Deposit \/ Crash
    \/ \E rescan \in Rescans : Start(rescan)

Spec == Init /\ [][Next]_vars

-----------------------------------------------------------------------------
(* Properties.                                                             *)

\* The types of the variables; a mint is sent only with a signature of every
\* cosigner it names, and of as many as the mint authority asks for.
TypeOK ==
    /\ arrived \in 0..N
    /\ Vault!TypeOK
    /\ tokenTxs \in Seq(TokenTxs)
    /\ pool \subseteq MintTxs
    /\ Cardinality({tx \in pool : tx.own}) <= 1
    /\ confirmed \in BOOLEAN /\ up \in BOOLEAN
    /\ savedCursor \in 0..arrived /\ cursor \in 0..arrived
    /\ pc \in PCs
    /\ pc # "poll" => up /\ Current <= arrived
    /\ named \subseteq Cosigners /\ waiting \subseteq Cosigners
    /\ good \subseteq Cosigners \ waiting
    /\ pc = "submit" => good = named /\ Cardinality(named) = Required

Mints(d) == Cardinality({i \in DOMAIN tokenTxs : tokenTxs[i] = MintOf(d)})
Minted(d) == Mints(d) > 0
MemoReused(d) == \E i \in DOMAIN tokenTxs : tokenTxs[i] = OthersWith(d)
Refunded(d) == \E r \in receipts : r.memo = d /\ r.kind = "refund"
Charged(d) == \E r \in receipts : r.memo = d /\ r.kind = "fee"

\* What the bridge gives for a deposit, tokens minted and TFT paid out
\* together, is never more than the deposit, although nothing on Solana keeps
\* it from being minted twice.
EachDepositBacked ==
    \A d \in Deposits :
        Mints(d) * (Amount[d] - DepositFee)
          + (IF Refunded(d) THEN Amount[d] ELSE 0)
          + (IF Charged(d) THEN DepositFee ELSE 0) <= Amount[d]

\* While a mint of a deposit can still be executed, the deposit has been
\* neither minted nor refunded, and no payment of it is on its way.
PendingMintIsOnly ==
    \A tx \in pool :
        /\ ~Minted(tx.dep) /\ ~Known(tx.dep)
        /\ \A p \in late : p.memo # tx.dep

\* The fee of a deposit is only taken when its tokens have been minted, or when
\* somebody else's transaction with the deposit's hash as its memo passed for
\* the mint.
FeeOnlyIfMemoSeen ==
    \A d \in Deposits : Charged(d) => Minted(d) \/ MemoReused(d)

Settled(d) ==
    \/ Minted(d) \/ Refunded(d)
    \/ Amount[d] <= WithdrawFee \/ d \in Unreachable

\* A deposit at or below the saved cursor, which no restart looks at again,
\* has been minted or refunded (or cannot be refunded), unless somebody else's
\* transaction carries its hash: then it may have got nothing.
SavedMeansSettled == \A d \in 1..savedCursor : Settled(d) \/ MemoReused(d)

\* The monitor is at a refund, of a deposit up to d, that the cosigners refuse:
\* of several payments, or with more than one account debited.
RefundRefused(d) == pc = "refund" /\ Current <= d /\ ~Refundable(Current)

\* Liveness: the process is restarted and its goroutine runs; what was sent is
\* decided; a payment tried again and again is made; cosigners asked again and
\* again answer, as do the RPC nodes; a mint sent again and again is executed.
MintIsSent == MintSubmit /\ pool' # pool
MintIsFinalized == \E tx \in pool : tx.own /\ Finalize(tx)

Fairness ==
    /\ WF_vars(\E rescan \in Rescans : Start(rescan))
    /\ WF_vars(Handler)
    /\ WF_vars(\E tx \in pool : Finalize(tx) \/ Expire(tx))
    /\ WF_vars(\E p \in late : LatePayment(p))
    /\ SF_vars(RefundDone) /\ SF_vars(FeeDone)
    /\ SF_vars(MemoKnown \/ InvalidReceiver \/ AskOnline)
    /\ SF_vars(\E p \in waiting : OnlineAnswer(p)) /\ SF_vars(OnlineDone)
    /\ SF_vars(\E p \in waiting : SignAnswer(p)) /\ SF_vars(SignDone)
    /\ SF_vars(MintIsSent) /\ SF_vars(MintIsFinalized)

FairSpec == Spec /\ Fairness

\* If crashes stop, every deposit that arrives is minted or refunded, unless its
\* hash is the memo of somebody else's transaction, or a refund, its own or one
\* before it, is refused by the cosigners: there is always a later time at which
\* this is so of all that have arrived.
EveryDepositSettles ==
    <>[]up => []<>(\A d \in 1..arrived :
                      Settled(d) \/ MemoReused(d) \/ RefundRefused(d))
=============================================================================
