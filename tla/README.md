# Verification of the TFT bridges

TLA+ models, TLC runs and TLAPS proofs for the bridges that move TFT between
Stellar and other chains. The models are translated from the Go sources in
`bridges/` and the contracts in `solidity/`. `PROJECT.json` maps every
definition to the lines it models.

    tlc -workers 2 -config vault_race.cfg MCVaultPayments.tla
    tlapm VaultPaymentsProofs.tla

## The system

### Stellar-EVM bridge (`bridges/stellar-evm`)

One **master** and several **followers** run the same binary. TFT on Stellar is
held by the **vault**, a multi-signature account; TFT on the smart chain is
minted and burned by the **token contract**. Followers only sign.

| Part | State | Operations | Correct when |
|---|---|---|---|
| Vault payments (`stellar/wallet.go`, `transaction_storage.go`, `stellar.go`) | memo cache and its cursor, shared by two goroutines without a lock; the vault account's sequence number | withdraw, refund, fee payment: read the sequence number, rescan for the memo, collect signatures, submit | no memo is paid twice, no payment is suppressed, retries end |
| Deposits (`wallet.go` monitor, `bridge.go` mint, `bridge_contract.go`) | position in the vault's history, `StellarCursor` in the file | read a transaction, refund it or mint it and charge the fee, save the cursor | every deposit is minted or refunded, once, and the cursor passes none that is not |
| Withdrawals (`bridge.go` Start and withdraw, `bridge_contract.go`) | `txMap`, `synced`, `LastHeight` in the file | filter past blocks, subscribe to new ones, on each head pay what is old enough, save the height | every burn is paid, once, when it is confirmed, also across restarts |
| Signer client and server (`signer.go`, `signer_server.go`) | follower's memo cache | `Sign`, `SignMint`, three validations | only true payments are signed; the master gets its signatures or an error |
| Persistency file (`state/persistency.go`) | height and cursor in one JSON file | read-modify-write from two goroutines | a save loses neither field nor the file |
| Token contract (`solidity/contracts`) | balances, allowances, mint ids, signers, owners, version | `mintTokens`, `withdraw`, transfers, `setSigners`, owners, upgrades | supply is the sum of the balances, one mint per id, owners agree with their list |

Who meets whom: the monitor goroutine and the main loop goroutine call the same
`signAndSubmitTransaction` on the same `TransactionStorage`. The main loop
writes `synced`, which the monitor reads. Both write the persistency file.
Master and followers talk over libp2p RPC with a timeout of 30 s, master and
chains over Horizon and an Ethereum node. A submission may time out and happen
later. A process may die anywhere; only the file and the two chains survive it.

### Stellar-Solana bridge (`bridges/stellar-solana`)

The same structure and the same payment code, with two differences. Nothing on
Solana makes a mint unique, so the bridge itself must know what it has minted.
Mints name the cosigners that are online, and all of those must sign.

| Part | State | Operations | Correct when |
|---|---|---|---|
| Deposits (`wallet.go` monitor, `bridge.go` mint, `solana.go`) | position in the vault's history, `StellarCursor`, the token's finalized transactions | look for the deposit among the token's transactions and the vault's memos, collect who is online and then signatures, submit, wait, take the fee | no deposit is minted twice or minted and refunded; the saved cursor passes none that is open |
| Signer client (`signer.go`) | one channel per cosigner, the good answers | `Sign`, `SignMint`, `SolID`: ask all, poll, stop at the required number | each round ends, no answer counts twice |
| Withdrawals (`solana.go`, `burn.go`, `bridge.go` withdraw) | log subscription, past transactions still to be read, a channel of burns | decode burns from notices and history, pay each once | no transaction pays more than it burns; every readable burn is paid |

### Contracts (`solidity`)

| Part | State | Operations | Correct when |
|---|---|---|---|
| Token (`tokenV1.sol`, `owned.sol`, `upgradeable.sol`, `proxy.sol`) | balances, allowances, mint ids, signers, owners, implementation | mint, withdraw, transfers, signer, owner and implementation changes | supply is what was minted less what was burned; a mint has a quorum of the signers |
| Wallet (`MultiSigWallet.sol`) | owners as list and mapping, requirement, submitted calls, confirmations | submit, confirm, revoke, execute, change owners and requirement | what it does takes enough present owners, once |

### Account activation (`accountactivation`)

A watcher goroutine filters `ActivateAccount` events block by block; a handler
goroutine creates the accounts on Stellar, with the memo of the request. The
last block that led to an activation is kept in a file. Correct when each
request is executed once and none that was paid for is forgotten.

Frontends, helm charts, key tools, generated bindings and the libp2p set-up hold
none of this state. `PROJECT.json` lists every part with its status, and under
`hazards` the places where the code is hard to test.

## Plan

| Order | Module | Models | State |
|---|---|---|---|
| 1 | `PayoutOnce` | what the vault promises: one payment per hash | done |
| 2 | `VaultPayments` | the payment function, both goroutines, cosigners, the Stellar network; implements `PayoutOnce` | done |
| 3 | `VaultPaymentsProofs` | its safety and the refinement, for all constants | done |
| 4 | `EvmDeposits` | the monitor and the mint, on top of `PayoutOnce` | done |
| 5 | `EvmWithdrawals` | the main loop, on top of `PayoutOnce` | done |
| 6 | `SignersClient`, `VaultClient` | a round of questions to the cosigners; the vault as a caller sees it | done |
| 7 | `SolanaDeposits` | the Solana monitor and mint, on top of 1 and 6 | done |
| 8 | `SolanaBurns` | burns on Solana to payments, on top of 1 | done |
| 9 | `MultiSigWallet`, `TokenV1`, `TokenGovernance` | the contracts, and the wallet that owns the token | done |
| 10 | `TokenGovernanceProofs` | owner lists, quorum, mints and supply, for all constants | done |
| 11 | `AccountActivation`, `AccountActivationProofs` | the activation service; each request once and none missed, for all constants | done |
| 12 | `EvmDepositsProofs` | each deposit backed, none skipped, for all constants | done |
| 13 | `SolanaDepositsProofs`, `SolanaBurnsProofs` | a deposit is minted once although nothing on Solana says so; no burn is overpaid | done |
| 14 | `EvmWithdrawalsProofs` | nothing forgotten, what a restart covers, confirmations | done |
| 15 | `Persistency` | concurrent saves of height and cursor, a write cut short | planned |

Composition: `EvmDeposits`, `EvmWithdrawals` and, through `VaultClient`, the two
Solana modules step `PayoutOnce`, which `VaultPayments` is proved to implement.
So the flows are checked against the promise, not against the details of the
payment function again. `signAndSubmitTransaction` of the Solana bridge is the
EVM bridge's function line by line as far as `VaultPayments` models it, which is
why the promise is used for both. `SolanaDeposits` also instances
`SignersClient`. `TokenGovernance` extends `TokenV1`, which extends
`MultiSigWallet`.

## The modules

### `PayoutOnce`

The variable `receipts` is the set of executed payments. The only step adds one
whose memo has no receipt. The memo is the hash of the Ethereum transaction (a
withdrawal) or of the Stellar deposit (a refund or a fee).

### `VaultPayments`

| TLA+ | Code |
|---|---|
| `ledger`, `horizon`, `inflight` | what Stellar executed for the vault, how much of it Horizon shows, signed transactions that may still be executed |
| `seen`, `cursor` | `sentTransactionMemos`, `stellarCursor` |
| `txMap` | the main loop's map of withdrawals |
| `pc`, `job`, `txseq`, `pos`, `sigs` | the two goroutines inside the payment function |
| `LoadAccount` … `SubmitFails` | one action per remote call or cache access of `signAndSubmitTransaction`, so the goroutines interleave there |
| `Fail`, `Done` | retry loops of the refund and the fee; `txMap` keeps or drops a withdrawal |
| `Apply`, `Expire`, `Ingest` | the network: a transaction is executed when its sequence number is the next, successfully or not, or is never executed |
| `Crash`, `Start` | memory is lost, network and inflight transactions are not; the startup scan |

Abstractions: a payment is its memo and kind; amounts are in `EvmDeposits`.
Horizon is one view that only grows. A Go map written by two goroutines may
abort the process, which is `Crash`. A cosigner's own scan is one step, because
it reads the same history; its answer may be late or missing (`SignFails`).

### `EvmDeposits`

The vault's transactions are numbered, `cursor` is the last one the monitor is
done with, `pc` the place in its handler. Actions follow the handler:
`ReceiveFails`, `ReceiveNothing`, `ReceiveRefund` and `ReceiveMint` are its
early decisions, `MintKnown`, `MintPrepare`, `MintSubmit` and `MintMined` one
call of `mint`, then `FeeDone` and `SaveCursor`. `MintFails` (too few signatures,
or no receipt) and `PaymentRetried` are the retry loops. `CosignersSignMint` and
`CosignersSign` are what the cosigners compare with the deposit before they sign;
they run with the fee of the master. That they do not know the memo yet is in
`VaultPayments`. Before a mint or a fee they compare the deposit in stroops with
the fee in TFT, so this check refuses next to nothing. Before a refund they take
the *last* credit of the deposit (`LastCredit`) for its amount, while the master
refunds the sum (`Amount`), and ask that no account but the receiver of the refund
was debited (`OneSender`). A deposit of two payments that has to be refunded is
refused for ever, and the refund loop does not let the monitor go on. The contract
executes pending mints (`MintTokens`), reverts them (`MintReverts`) or never sees them
(`MintDropped`). `SetSigners` changes the signer set (`epoch`). `Start` takes the
flags `--rescan` and `--depositFee`, which the operator may change. `paidOut` and
`minted` count what was given for each deposit.

A deposit's memo is good or bad (`ValidMemo`). A sender may have lost its
trustline (`Unreachable`), then its refund is soaked. At least one signature of a
cosigner is needed for a payment; a vault that pays with the master's alone would
skip these checks.

### `EvmWithdrawals`

`chain` holds the events of each block; `Mine` adds a block, `Reorg` replaces
the last ones. `Start` reads the height and the current block, `Filter` queues
the past events from `LastHeight` on (with the unsigned subtraction of the
code), `Subscribe` queues new ones, `Disconnect` loses some. The main loop takes
an event (`TakeFiltered`, `TakeWatched`) or a head (`NewHead`), tries each
withdrawal that is old enough (`WithdrawSkips`, `WithdrawPays`,
`WithdrawFails`) and saves the height. `Places` are the logs of some blocks,
`InOrder` their order, in which the event iterator hands them over. `Validated` is the cosigner's choice of
the event it compares with. A save that fails, or that the monitor's save of
the cursor undoes, leaves the old height. Heads may skip numbers: a node
announces the newest only.

### `SignersClient` and `VaultClient`

`waiting` is `responseChannels`, `good` is `results`. `Over` is the loop's exit:
no channel left, or the required number reached right after an answer.
`VaultClient` gives a payment as its caller sees it: `Returns` is nil, `Fails` an
error that says nothing about the transaction, `Decided` what becomes of it.

### `SolanaDeposits`

| TLA+ | Code |
|---|---|
| `tokenTxs`, `Listed` | the token's finalized transactions, and the one page `getSignaturesForAddress` returns |
| `pool`, `confirmed` | mints that were sent and are neither finalized nor void; the notice `SendAndConfirmTransaction` waits for |
| `Receive` … `AskOnline` | the handler up to the receiver check, one action per look-up |
| `OnlineAnswer`, `SignAnswer`, `NoAnswer`, `OnlineDone`, `SignDone` | `SolID`, then `SignMint`, both as `SignersClient` |
| `MintSubmit`, `MintConfirmed`, `MintSubmitFails`, `MintWaited` | `Mint` and the 120 s wait |
| `InvalidReceiver`, `RefundDone`, `FeeDone`, `PaymentRetried`, `SaveCursor` | the rest of the handler |

`MintWaited` assumes what the source assumes: after 120 s the blockhash has
expired, so the transaction is finalized or never will be. `QuickRestart` says
whether a process may be back before that; it is FALSE in the passing run, and
the run `solana_doublemint` shows what happens otherwise. What the model makes
visible beside the properties:

* With `M = 1` no signature is required. The first good answer to `SolID` makes
  the count 1, which is not 0, so the mint names every cosigner that answers and
  `SignMint` returns an error: no mint while a cosigner is online.
* A deposit with a memo of type *return* (`ReturnMemo`) is read by the master but
  refused by the cosigners, so with cosigners it blocks the monitor for ever. The
  fair run has none.
* A deposit fee of 0 would make the fee payment fail for ever; the model assumes
  it is positive.
* The page of signatures must be longer than the number of other token
  transactions that can follow a mint before its fee is paid (`Trailing`). With
  `SigPage = MaxOthers` TLC finds a deposit that is minted twice.
* `IsMintTxID` compares the memo only. A finalized transaction of somebody else
  that mentions the token and has the hash of a deposit as its memo (`OtherTx` with
  a hash of `Reused`) counts as the mint: the fee is taken, the cursor saved, and
  nothing is minted. The properties say which deposits this can happen to
  (`MemoReused`); no deposit is given twice for it.
* The cosigners refuse the same refunds as on the EVM side (`Refundable`).

### `SolanaBurns`

A transaction (`Txs`) is a sequence of instructions and whether it was successful.
`Reads` is the decoding loop, in which a later memo or burn replaces an earlier
one. The master asks for three instructions, the cosigners for two or three.
Neither compares the token that is burned with the bridge's (`IsBurn`).
`Finalized` puts the log of a transaction, also of one that failed, in two slots, as
the node sends it twice; `NoticeLost` and `HistoryLost` are failed look-ups;
`Start` lists one page of the past (`Listed`), which leaves failed transactions
out. The cosigners look for the burn on the same page (`CosignerSigns`), so they
refuse a failed one and one that is too old. `WithdrawFails` drops the burn, so
only a restart tries it again, if it is still on that page. A burn without the
compute budget instruction is never paid.

### `MultiSigWallet`, `TokenV1` and `TokenGovernance`

`MultiSigWallet` and `TokenV1` hold one operator per function. `owners` and
`isOwner` are the list and the mapping, `tokenOwners` and `tokenOwner` those of
`owned.sol`; `SwapAndPop` and `Replaced` are the loops over the list.
`WalletAccepts` and `TokenAccepts` are the modifiers and `require`s. A reverted
message changes nothing and is no step. `TokenGovernance` is the set-up of
`bridges/stellar-evm/readme.md`: the deployer makes the wallet an owner, the
wallet removes the deployer. `Execution` is the part that submit and confirm
share: the call is executed if it is confirmed and succeeds, and stays open if
it fails. `CheckSignatures` compares position by position and stops at the
required number.

Left to the reader of these contracts: before the first `setSigners` no
signature is required, so anybody can mint; `setSigners` accepts an address
twice, which then counts twice; `upgradeTo` accepts the zero address, after which
the proxy answers no call; the confirmation of an owner who is removed and added
again counts again.

### `AccountActivation`

| TLA+ | Code |
|---|---|
| `chain`, `since` | the events of each block; the first block the service answers for (it begins at the newest one when nothing is saved) |
| `exists`, `sent`, `late`, `current`, `listed` | the Stellar network and what Horizon shows of it |
| `Search`, `InLogOrder`, `Receive` | the watcher, which reads the logs by block and index; the channel is unbuffered |
| `CheckMemo`, `RejectAddress`, `LoadAccount`, `Created`, `AlreadyExists`, `Retry` | the handler |
| `Crash`, `Start` | the process, with `--rescanHeight` |

All transactions carry the paying account's next number, so an executed one makes
the others void. `fresh` and `current` say whether the number a transaction
carries, or Horizon shows, is the latest. `Merge` lets an owner remove an account
at any time. The retry of `handler.go:48` does not look for the memo again, so an
account that was created by a late transaction and merged away is created a second
time; `exposed` remembers the requests whose account was merged away while this or
another way to execute them again was open (`Repeatable`). Rescan heights above
the saved one are left out: they skip blocks on purpose.

Definitions named `Mut...` are seeded faults: variants of the action that
follows them, used to confirm that the properties notice such a mistake. No
specification uses them.

## Runs

Passing runs:

| Run | Instance | Shows |
|---|---|---|
| `vault_race` | 1 withdrawal, 1 deposit (refund or fee), 2 cosigners who both must sign, all outcomes, ledger and inflight bounds 2; 1.4 million states | `PaidAtMostOnce` with both goroutines, crashes and late transactions; why it holds (`NumberBeforeCheck`, `CacheComplete`); the cache never invents a payment (`CacheSound`); the refinement of `PayoutOnce` |
| `vault_progress` | the same with one of two signatures, every transaction with the next number succeeds, fair | `MonitorProceeds`: refund and fee loops end; `NothingForgotten`: a withdrawal, refund or fee is given up only when Stellar has executed or soaked it |
| `deposits_backed` | 4 deposits: two to mint, one below the fee, one with a bad memo and an unreachable sender; rescans, Horizon errors, two signer sets, one deposit of two payments; 2.4 million states | `EachDepositBacked`: tokens and TFT given for a deposit never exceed it; `RefundedNotMinted` while the fee stays the same |
| `deposits_progress` | the same four, dust, a transaction without a deposit, a mint of a transaction that debits two accounts, a deposit of two payments with a bad memo and one behind it; no Horizon errors and signer changes, fair; 23,119 states | `SavedMeansSettled`, `FeeOnlyIfMinted`, `MintsInOrder`; `EveryDepositSettles` if crashes stop, but for what waits for a refund that the cosigners refuse |
| `withdrawals_restart` | 1 event, 6 blocks, reorganisations of one block, broken subscriptions, rescan heights 2 and 4; 1.9 million states | `RestartCovers`: what a restart reads again is enough; `NothingForgotten` |
| `withdrawals_progress` | 2 events of different accounts, one of them dust, cosigned, fair | `NoneStuck`; `ConfirmedBeforePaid` without reorganisations |
| `solana_deposits` | 5 deposits: one whose receiver may turn out to have no token account and whose hash others use as a memo, one with a bad memo and an unreachable sender, dust, one to mint, one of two payments with a bad memo; 2 cosigners, one signature of them needed, one other transaction of the token in a row, a page of 2; fair; 52,158 states | `EachDepositBacked` and `PendingMintIsOnly` without uniqueness on the chain; `FeeOnlyIfMemoSeen`, `SavedMeansSettled`; `EveryDepositSettles` if crashes stop |
| `solana_burns` | 2 transactions of the token out of 9 shapes (a mint, two burns in one, dust, empty memo, no compute budget, receivers that cannot be paid, a burn of another token) and a burn that failed, a page of 1; fair; 15,921 states | `PaidAtMostBurned`; `EveryBurnPaidIfRestarted` |
| `governance` | 3 people, 2 of whom own the wallet, 2 confirmations; 7 calls to the wallet or the token, 2 direct calls; 2 signers, 2 deposits, 2 holders, one of whom grants allowances; 1.2 million states | `OwnersConsistent`, `SupplyBacked`, `QuorumControls`, `MintedByQuorum` |
| `activation` | 4 requests: two for one account, one with a bad address, one for another network; accounts merged at any time; 3 blocks; fair; 566,795 states | `FundedOnce`, `SavedCovers`; `EveryRequestSettled` if crashes stop |

Runs that show a disagreement of the code with its documentation (details in
`PROJECT.json` under `findings`):

| Run | Shows |
|---|---|
| `deposits_reverted` | a mint that reverts counts as a success: fee charged, cursor saved, nothing minted |
| `solana_doublemint` | the 120 s wait is in memory only: a crash after a submission and a quick restart mint the deposit twice |

More disagreements are in the models and have no run of their own. Each is found
by changing a configuration as follows:

| Disagreement | Reproduced by |
|---|---|
| One failed Horizon request skips a deposit; a later mint saves the cursor beyond it (`--rescan` finds it again) | `deposits_progress` with `HorizonErrors = TRUE`: `SavedMeansSettled` |
| A refunded deposit is minted after a restart with a lower fee | `deposits_backed` with `Fees = {1, 3}`: `RefundedNotMinted` |
| A withdrawal that failed long enough is below the saved height; a crash loses it (`--rescanHeight` finds it again) | `withdrawals_restart` with `MaxBlock = 8` and the property that what `txMap` held is paid or read again |
| The second withdrawal of an account in a block is refused by the cosigners for ever | `withdrawals_progress` with one receiver for both events: `NoneStuck` |
| After a reorganisation a withdrawal is paid by the height of a block that is gone | `withdrawals_progress` with `MaxReorg = 1`: `ConfirmedBeforePaid` |
| A transaction that emits two `Withdraw` events keeps only the second in `txMap` | `withdrawals_restart` with two events of one transaction: `NothingForgotten` |
| A deposit of several payments, or of a transaction that debits a second account, is refused a refund for ever (`signer_server.go:340-351` keeps the last credit, `wallet.go:471` of the master adds them up), and no later deposit is handled; both bridges. `stellar-evm/readme.md:64` promises that a deposit is picked up | `deposits_progress` with `EveryDepositSettles` without `RefundRefused` |
| A transaction of somebody else on Solana that mentions the token and carries a deposit's hash as memo passes for its mint: fee taken, cursor saved, nothing minted. The comment at `solana.go:141` speaks of a memo used "to mint new tokens" | `solana_deposits` with `FeeOnlyIfMemoSeen` or `SavedMeansSettled` without `MemoReused` |
| A burn of another Token-2022 token, in a transaction that mentions the bridge's token, is paid in TFT (`solana.go:518-539`, `burn.go:94-107`) | `solana_burns` with `PaidAtMostBurned` counting burns of `"tft"` only |
| A burn that newer transactions have pushed off the page of signatures before it was paid is refused by the cosigners and not read by a restart (`solana.go:279-304`, `:607`) | `solana_burns` with `EveryBurnPaidIfRestarted` without `b \notin Listed` |
| An account that a timed-out transaction created and that is merged away before the retry is created again (`handler.go:48`), although `accountactivation/readme.md:29` takes care that activations of merged accounts are not redone | `activation` with `FundedOnce` without `exposed` |
| A rescan height below 3 wraps around and nothing is read | `LastHeight`; `RestartCovers` leaves these heights out |

### Bounds

`MaxLedger` and `MaxInflight` (2) let a second payment follow a first one and
two transactions of the same payment compete; a double payment needs no more.
The proofs hold without a bound. Four deposits hold every kind that can be
settled, and a mint after each of the others, which is what moves the cursor over
them; the eight of `deposits_progress` add a refund that is refused, with a deposit
behind it. `MaxBlock`
6 with the code's delay of 3 is one event, its three confirmations, a saved
height above the delay and a restart. Blocks after `MaxBlock` are taken for the last
one, which comes again and again. `MaxQueue` bounds the events the subscription
has queued, `MaxEpoch` the signer sets, `MaxUint` stands for 2^64 - 1.

In `SolanaDeposits` nothing is unbounded but the token's other transactions.
`MaxOthers` bounds how many of them follow each other: 1, with a page of 2, so
that a mint can be pushed to the end of the page, while mints and others
together are more than a page. Two cosigners with one needed let a round end
with one answer, with a silent peer, and with one too many. In `SolanaBurns`,
`MaxTxs` 2 with a page of 1 lets the second transaction push a burn off the page
before, while and after it is paid, for the master and for the cosigners. In
`TokenGovernance`, `MaxTransactions` 2 lets one pending call change the owners
under the other, `MaxWork` 3 bounds calls and begun deposits together, and
`MaxUint` 2 is reached by the larger deposit. In `AccountActivation`, `MaxBlock` 3
leaves a block before, at and after a saved height, and `MaxSent` 2 lets an account
be merged away, created again and stay.

### Fairness

Weak fairness: goroutines keep running (Go's scheduler; every remote call has a
timeout or an error path), the process is restarted, Horizon ingests, blocks are
mined. Strong fairness: what is retried for ever succeeds if it could again and
again, which is payments, signatures, mints and heads with the node in sync
(`select` picks among ready channels at random). No fairness is assumed of
crashes, reorganisations or failures.

`deposits_progress`, `solana_deposits` and `activation` state their liveness for
runs in which crashes stop (`<>[]up`). `MonitorProceeds` needs no such
condition: a crash ends the loop as well. In `solana_deposits` strong fairness
also covers cosigners that are asked again and again, and the RPC nodes.
`EveryBurnPaidIfRestarted` is the other way round: because a failed withdrawal is
dropped, it is stated for processes that are restarted again and again, with
look-ups and payments of a burn that succeed if repeated, and for a burn as long as
it is on the page. The `EveryDepositSettles` of both bridges except a deposit
while the monitor is at a refund, its own or of one before it, that the cosigners
refuse (`RefundRefused`), and in `solana_deposits` one whose hash was reused.

Deadlock is checked in every run but `governance`: contracts act only when they
are called, and at the bounds, or with the zero address as implementation,
nobody can call anything.

## Proofs

`VaultPaymentsProofs` proves for all sets of withdrawals, deposits and
cosigners, any number of required signatures and any bounds:

| Theorem | Property |
|---|---|
| `TypeCorrect` | `TypeOK` |
| `NoDoublePayment` | `PaidAtMostOnce` |
| `CursorBehindCache` | `CacheComplete` |
| `NumberReadFirst` | `NumberBeforeCheck` |
| `CacheNeverLies` | `CacheSound` |
| `NothingIsForgotten` | `NothingForgotten` |
| `VaultImplementsPayout` | `PayoutSpec`, the refinement of `PayoutOnce` |

`EvmDepositsProofs` proves, for any number of deposits and any amounts:

| Theorem | Property | While |
|---|---|---|
| `TypeCorrect` | `TypeOK` | |
| `DepositsAreBacked` | `EachDepositBacked` | the operator keeps one fee |
| `RefundsAreNotMinted` | `RefundedNotMinted` | the operator keeps one fee |
| `CursorPassesSettled` | `SavedMeansSettled` | also no Horizon errors and one signer set |
| `FeesFollowMints` | `FeeOnlyIfMinted` | the same |
| `MintsKeepOrder` | `MintsInOrder` | the same |

Each condition excludes one of the disagreements above.

`EvmWithdrawalsProofs` proves, for all events, delays, rescan heights and bounds:

| Theorem | Property | While |
|---|---|---|
| `TypeCorrect` | `TypeOK` | |
| `LoopForgetsNothing` | `NothingForgotten` | no transaction emits two `Withdraw` events |
| `RestartMissesNothing` | `RestartCovers` | the same |
| `PaysConfirmedOnly` | `ConfirmedBeforePaid` | there are no reorganisations |

`SolanaDepositsProofs` and `SolanaBurnsProofs` prove, for all deposits, amounts,
receivers, cosigners, transactions and bounds:

| Theorem | Property | While |
|---|---|---|
| `TypeCorrect` (both) | `TypeOK` | |
| `DepositsAreBacked` | `EachDepositBacked` | `Careful` |
| `PendingMintIsAlone` | `PendingMintIsOnly` | `Careful` |
| `FeesFollowMemos` | `FeeOnlyIfMemoSeen` | `Careful` |
| `CursorPassesSettled` | `SavedMeansSettled` | `Careful` |
| `NothingPassesForAMint` | both, without the exception for a reused hash | `Careful` and `Reused = {}` |
| `PaysOnlyBurned` | `PaidAtMostBurned` | |

`TokenGovernanceProofs` and `AccountActivationProofs` prove, for all constants:

| Theorem | Property | While |
|---|---|---|
| `TypeCorrect` (both) | `TypeOK` | |
| `OwnersStayConsistent` | `OwnersConsistent`, of the wallet and of the token | |
| `QuorumAlwaysControls` | `QuorumControls` | |
| `MintsAreSigned` | `MintedByQuorum` | no call of `setSigners` names a signer twice |
| `SupplyIsBacked` | `SupplyBacked` | |
| `NeverFundedTwice` | `FundedOnce` | |
| `RestartMissesNothing` | `SavedCovers` | |

Each condition excludes behaviour of the code that breaks the property, and is
met by the constants of a passing run. `OneEventPerTx` and `MaxReorg = 0` exclude
two of the disagreements above, a signer listed twice is counted twice by
`checkSignatures`, and `Careful` has four parts:

* `QuickRestart = FALSE`: otherwise `solana_doublemint` is the counterexample;
* `Reads = {TRUE}`: a failed Horizon request skips a deposit;
* `MaxOthers < SigPage`: otherwise `IsMintTxID` misses a mint;
* a deposit that may be minted, and whose receiver may turn out to have no
  token account, can be refunded: otherwise the handler leaves it without a
  receipt, and a replay may mint it after a later deposit whose fee is not paid
  yet and whose mint is thereby pushed off the page.

Besides these the theorems assume only the named assumptions of the modules, such
as: outcomes are known results, the bounds and numbers of signatures are
naturals, the constructor's owners are distinct and meet its requirement, places
in the log differ. `NothingPassesForAMint` says what the two theorems before it come
to when nobody uses a deposit's hash as a memo; the run has `Reused = {1}`, which
is why only the weaker two are checked by it.

The argument for the vault. `PaidAtMostOnce` is not inductive: a second payment could be in
flight. `SafetyInv` adds `NumberBeforeCheck`: a transaction in flight, or about
to be, has a sequence number not above the next one, and no successful entry
below that number has its memo. When it is executed its number is exactly the
next, so no entry has its memo. It holds for a new transaction because the
sequence number is read *before* the memo check, and the scan has stored all that
is listed up to its own position (`CacheComplete` for the shared cursor, where
the scan starts). If a payment lands in between, the number is used up. The
check of the cosigners is not needed for this. `SoundInv` is the same for the
other direction, from which `NothingIsForgotten` follows. The refinement maps
the successful entries of the ledger to receipts; an `Apply` that succeeds is a
`Pay`, because of `SafetyInv`, and every other step stutters.

The argument for the deposits. With one fee a deposit alone decides whether it is
minted or refunded (`Mints`), so every replay decides the same way. `Fate` says
that all that is on its way or done for a deposit, a mint, a fee or a refund, is
what it is due, and `Books` that it is counted once: a mint by its id, a payment
because `PayoutOnce` answers a hash once. Neither property is inductive without
`Fate`, since a late refund could follow a mint. `Order` says that the handler is
done for good with what is at or below its position and the saved cursor, that
a mint in the pool has only minted ones before it, and that a receipt means
minted. The last is where one signer set is needed.

The argument for the owners. `OwnersConsistent` with the types of the lists is
inductive (`GovernanceInv`), once three lemmas say what the loops do to a list
without repetition: `AppendEnumerates`, `SwapAndPopEnumerates`,
`ReplacedEnumerates`. The removal loop stops before the last entry and cuts the
last one off in any case, so the lemma needs that the removed address is listed,
which the modifiers ensure through the mapping, which is why list and mapping
are proved together. The requirement follows the owners down, and an owner of the
token cannot remove itself.

The argument for the activation. `FundedOnce` is not inductive: a request that was
executed could be executed again when its account has been merged away.
`FundedInv` adds that as long as somebody may still execute it, a late transaction
or the handler beyond the memo check, the account exists or was merged away too
early (`Guarded`), and that the handler passes the check only while Horizon does
not yet show the execution, when the same holds (`Unlisted`). An account merged
away later than that is not created again.

The argument for the restart of the activation. `SavedCovers` is kept by an order:
requests reach the handler by block (`InLogOrder`), so when one is settled and its
block saved, those of earlier blocks are settled already. `OrderInv` states this
of the batch and the request at hand, `AheadInv` that an open request is at hand,
in the batch or in a block still to be searched, and `SearchInv` that the search
is never ahead of the chain.

The argument for the contracts. A transaction of the wallet is executed only when
`IsConfirmed`, which counts owners; that the confirmations belong to it
(`ConfirmInv`) is all `QuorumControls` needs beyond the types, since any other
call reaches an owner's function only through the token's owners. For
`MintedByQuorum`, signatures are compared in the order of the signers, so distinct
places stand for distinct signers exactly when the list has no repetition. For
`SupplyBacked` a sum of balances is the number of single tokens (`Units`): a
transfer moves a set of them from one holder to another, so cardinalities do what
an induction over holders would.

The argument for the Solana deposits. Nothing on Solana refuses a second mint, so
`OnceInv` joins three parts. A mint that may still be executed is the only one, of
a deposit that is neither minted nor paid back, and it is the one the handler
waits for (`PoolInv`). A mint whose fee is not paid is the last one of the token
(`LastMint` in `MintInv`), so fewer other transactions than a page follow and
`IsMintTxID` finds it. A deposit the cursor has passed has its receipt
(`PassedInv`), which is the memory that outlives the page. `LateInv` keeps a late
payment from contradicting them. A fee on its way or paid means that the memo was
seen on Solana (`Shown`, `FeeDue`); that it was the mint's follows only when nobody
else uses it.

The argument for the burns. What the master reads in a transaction is the amount
of one of its burns (`ReadBurn`), whatever else is in it. A payment made or
late answers a transaction the master could read and that was successful
(`PaidInv`); the second part is due to the cosigners, who see successful
transactions only, and to the memo, if the payment was made before. Transactions do
not change. The theorem is about burns of any token, since the code is.

The argument for the EVM withdrawals. `TypeInv` says that `txMap` keeps one
withdrawal for a hash, which makes `Remember` replace nothing when a transaction
has one event. `PastInv` says that, once the filter was asked, each final event it
was to read is queued, remembered or settled: reorganisations do not reach it, and
`Disconnect` loses events of the subscription only. `FirstBlock` is the arithmetic
of `LastHeight`, with the subtraction that wraps around. Without reorganisations
an event stays in its block (`EventStays`), so what is queued, remembered or late
is where `EventInv` says, and a head that lets it be tried is not above the chain.

Only model-checked: liveness under fairness (`MonitorProceeds`,
`EveryDepositSettles` of both bridges, `NoneStuck`, `EveryBurnPaidIfRestarted`,
`EveryRequestSettled`), which is outside what the proof system does. All other
properties of the runs are theorems above. The two runs that expect a violation
show what the theorems exclude.

## Not modelled

Amounts in EVM withdrawals beyond paid or skipped; encodings of memos and
addresses; the account a refund goes to, and the amounts of Solana payments beyond
what a refund is compared with; gas and ether; reorganisations of the EVM chain
under a mint, which is final once it has a receipt; a vault that pays with the
master's signature alone; an activation request that names the paying account
itself, which Stellar answers with `op_malformed` and which `handler.go:37` retries
for ever; the steps inside a store of the memo cache (`transaction_storage.go:93-122`
is one step, `ScanStep`); the proxy's version string and raw
storage; a Horizon that shows different histories to different requests; an
Ethereum node that goes back in time other than by a reorganisation;
reorganisations under the activation service, which does not react to them; two
activation requests in one Ethereum transaction, which share a memo so that only
the first is served; the persistency file cut short by a crash in the middle of a
write. Generated bindings, frontends, charts, libp2p and key tools have no state
of the system. Everything marked planned above.
