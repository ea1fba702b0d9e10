---------------------------- MODULE VaultPayments ----------------------------
(***************************************************************************)
(* The payments the master bridge makes from its Stellar vault account:    *)
(* withdrawals (main loop goroutine), refunds and deposit fees (monitor    *)
(* goroutine).  All three go through signAndSubmitTransaction, which reads *)
(* the vault's sequence number, rescans the vault for a payment with the   *)
(* same memo, collects the cosigners' signatures and submits.  The memo    *)
(* cache is shared by both goroutines without a lock and lost in a crash;  *)
(* a submitted transaction may be applied long after the caller gave up.   *)
(*                                                                         *)
(* Source: bridges/stellar-evm/stellar/{wallet,transaction_storage,        *)
(* stellar}.go, api/bridge/{bridge,signer,signer_server}.go.               *)
(***************************************************************************)
EXTENDS Naturals, Sequences, FiniteSets

CONSTANTS Withdrawals,  \* hashes of the Ethereum transactions to pay out
          Deposits,     \* hashes of the Stellar deposits to refund or charge
          Cosigners,    \* the follower bridges
          Required,     \* wallet.signatureCount
          Outcomes,     \* how Stellar may execute a vault transaction
          MaxLedger,    \* bound: transactions the vault account executes
          MaxInflight   \* bound: submitted transactions not yet decided

Loop == "loop"          \* the goroutine of Bridge.Start that withdraws
Monitor == "monitor"    \* the goroutine of MonitorBridgeAccountAndMint
Threads == {Loop, Monitor}

Memos == Withdrawals \cup Deposits
Jobs == [kind : {"withdraw"}, memo : Withdrawals]
          \cup [kind : {"refund", "fee"}, memo : Deposits]
Kinds == {"withdraw", "refund", "fee"}
NoJob == [kind |-> "none", memo |-> "none"]

Results == {"ok", "no_trust", "failed"}

ASSUME OutcomesAssumption == Outcomes \subseteq Results
ASSUME BoundAssumption == MaxLedger \in Nat /\ MaxInflight \in Nat
ASSUME RequiredAssumption == Required \in Nat

VARIABLES
    ledger,    \* transactions executed for the vault, by sequence number
    horizon,   \* how many of them Horizon has ingested
    inflight,  \* signed transactions the network may still apply
    up,        \* the master process runs
    txMap,     \* withdrawals the main loop remembers
    seen,      \* TransactionStorage.sentTransactionMemos
    cursor,    \* TransactionStorage.stellarCursor
    pc,        \* where each goroutine is in signAndSubmitTransaction
    job,       \* the payment it makes
    txseq,     \* the sequence number in the transaction it built
    pos,       \* the cursor of its own fetchTransactions loop
    sigs       \* cosigners that signed that transaction

network == <<ledger, horizon, inflight>>
storage == <<seen, cursor>>
threads == <<pc, job, txseq, pos, sigs>>
vars == <<network, up, txMap, storage, threads>>

PCs == {"idle", "load", "check", "scan", "sign", "send", "wait"}

Init ==
    /\ ledger = <<>>
    /\ horizon = 0
    /\ inflight = {}
    /\ up = FALSE
    /\ txMap = {}
    /\ seen = {}
    /\ cursor = 0
    /\ pc = [t \in Threads |-> "idle"]
    /\ job = [t \in Threads |-> NoJob]
    /\ txseq = [t \in Threads |-> 0]
    /\ pos = [t \in Threads |-> 0]
    /\ sigs = [t \in Threads |-> {}]

-----------------------------------------------------------------------------
(* What Horizon shows: it lists the successful transactions only.          *)

Paid(i) == ledger[i].result = "ok"
Listed(after) == {i \in 1..horizon : i > after /\ Paid(i)}
ListedMemos == {ledger[i].memo : i \in Listed(0)}

-----------------------------------------------------------------------------
(* The goroutines.                                                         *)

\* The locals of thread t go out of scope; it is then at place "to".
Leave(t, to, j) ==
    /\ pc' = [pc EXCEPT ![t] = to]
    /\ job' = [job EXCEPT ![t] = j]
    /\ txseq' = [txseq EXCEPT ![t] = 0]
    /\ pos' = [pos EXCEPT ![t] = 0]
    /\ sigs' = [sigs EXCEPT ![t] = {}]

\* The payment function returned nil: the main loop forgets the withdrawal.
Done(t) ==
    /\ Leave(t, "idle", NoJob)
    /\ txMap' = txMap \ {job[t].memo}

\* Seeded faults: the retry loses the payment, keeps the transaction it built,
\* or the main loop deletes the withdrawal from txMap before it looks at err.
MutFailLosesJob(t) == Leave(t, "load", NoJob) /\ UNCHANGED txMap
MutFailKeepsNumber(t) ==
    /\ IF t = Monitor /\ pc[t] # "load"
       THEN /\ pc' = [pc EXCEPT ![t] = "check"]
            /\ sigs' = [sigs EXCEPT ![t] = {}]
            /\ UNCHANGED <<job, txseq, pos>>
       ELSE Leave(t, IF t = Monitor THEN "load" ELSE "idle",
                  IF t = Monitor THEN job[t] ELSE NoJob)
    /\ UNCHANGED txMap
MutFailForgets(t) ==
    /\ IF t = Monitor THEN Leave(t, "load", job[t]) ELSE Leave(t, "idle", NoJob)
    /\ txMap' = txMap \ {job[t].memo}

\* It returned an error: refunds and fees are tried again from the start
\* until they succeed, a withdrawal stays in txMap for the next head.
Fail(t) ==
    /\ IF t = Monitor THEN Leave(t, "load", job[t]) ELSE Leave(t, "idle", NoJob)
    /\ UNCHANGED txMap

\* The main loop receives a withdraw event.
Remember(w) ==
    /\ up /\ pc[Loop] = "idle"
    /\ txMap' = txMap \cup {w}
    /\ UNCHANGED <<network, up, storage, threads>>

\* The main loop withdraws; the monitor refunds a deposit or pays its fee.
Begin(t, j) ==
    /\ up /\ pc[t] = "idle"
    /\ IF t = Loop THEN j.kind = "withdraw" /\ j.memo \in txMap
                   ELSE j.kind # "withdraw"
    /\ pc' = [pc EXCEPT ![t] = "load"]
    /\ job' = [job EXCEPT ![t] = j]
    /\ UNCHANGED <<network, up, txMap, storage, txseq, pos, sigs>>

\* getAccountDetails: the transaction gets the number after the last one
\* Horizon knows of.
LoadAccount(t) ==
    /\ pc[t] = "load"
    /\ pc' = [pc EXCEPT ![t] = "check"]
    /\ txseq' = [txseq EXCEPT ![t] = horizon + 1]
    /\ UNCHANGED <<network, up, txMap, storage, job, pos, sigs>>

LoadFails(t) ==
    /\ pc[t] = "load"
    /\ Fail(t)
    /\ UNCHANGED <<network, up, storage>>

\* TransactionWithMemoExists starts its scan at the shared cursor.
StartScan(t) ==
    /\ pc[t] = "check"
    /\ pc' = [pc EXCEPT ![t] = "scan"]
    /\ pos' = [pos EXCEPT ![t] = cursor]
    /\ UNCHANGED <<network, up, txMap, storage, job, txseq, sigs>>

\* Seeded fault: memos of type return (refunds) are not remembered.
MutScanStepHashOnly(t) ==
    /\ pc[t] = "scan"
    /\ \E i \in Listed(pos[t]) :
         /\ \A k \in Listed(pos[t]) : i <= k
         /\ pos' = [pos EXCEPT ![t] = i]
         /\ seen' = IF ledger[i].kind = "refund" THEN seen
                    ELSE seen \cup {ledger[i].memo}
         /\ cursor' = i
    /\ UNCHANGED <<network, up, txMap, pc, job, txseq, sigs>>

\* The next listed transaction: its memo is remembered and the shared cursor
\* set to it, which may be behind where the other goroutine put it.
ScanStep(t) ==
    /\ pc[t] = "scan"
    /\ \E i \in Listed(pos[t]) :
         /\ \A k \in Listed(pos[t]) : i <= k
         /\ pos' = [pos EXCEPT ![t] = i]
         /\ seen' = seen \cup {ledger[i].memo}
         /\ cursor' = i
    /\ UNCHANGED <<network, up, txMap, pc, job, txseq, sigs>>

\* Horizon returns an empty page and the memo is known: nothing to do.
AlreadyPaid(t) ==
    /\ pc[t] = "scan" /\ Listed(pos[t]) = {}
    /\ job[t].memo \in seen
    /\ Done(t)
    /\ UNCHANGED <<network, up, storage>>

\* Seeded fault: the result of the memo check is not looked at.
MutNotPaidUnchecked(t) ==
    /\ pc[t] = "scan" /\ Listed(pos[t]) = {}
    /\ pc' = [pc EXCEPT ![t] = IF Required > 0 THEN "sign" ELSE "send"]
    /\ UNCHANGED <<network, up, txMap, storage, job, txseq, pos, sigs>>

\* The memo is unknown: ask the cosigners, if any are required.
NotPaid(t) ==
    /\ pc[t] = "scan" /\ Listed(pos[t]) = {}
    /\ job[t].memo \notin seen
    /\ pc' = [pc EXCEPT ![t] = IF Required > 0 THEN "sign" ELSE "send"]
    /\ UNCHANGED <<network, up, txMap, storage, job, txseq, pos, sigs>>

\* A cosigner rescans the vault itself, signs only if the memo is new to it,
\* and the master has what it needs as soon as Required answers are in.
CosignerSigns(t, c) ==
    /\ pc[t] = "sign" /\ c \notin sigs[t]
    /\ job[t].memo \notin ListedMemos
    /\ sigs' = [sigs EXCEPT ![t] = @ \cup {c}]
    /\ pc' = [pc EXCEPT ![t] = IF Cardinality(sigs'[t]) = Required
                               THEN "send" ELSE "sign"]
    /\ UNCHANGED <<network, up, txMap, storage, job, txseq, pos>>

\* Refusals, unreachable cosigners or the 30 s timeout.
SignFails(t) ==
    /\ pc[t] = "sign"
    /\ Fail(t)
    /\ UNCHANGED <<network, up, storage>>

\* Seeded fault: the sequence number is read when the transaction is sent.
MutSubmitFreshNumber(t) ==
    /\ pc[t] = "send" /\ Cardinality(inflight) < MaxInflight
    /\ inflight' = inflight \cup
         {[kind |-> job[t].kind, memo |-> job[t].memo, seq |-> horizon + 1]}
    /\ pc' = [pc EXCEPT ![t] = "wait"]
    /\ txseq' = [txseq EXCEPT ![t] = horizon + 1]
    /\ UNCHANGED <<ledger, horizon, up, txMap, storage, job, pos, sigs>>

\* The signed transaction goes to Horizon.
Submit(t) ==
    /\ pc[t] = "send" /\ Cardinality(inflight) < MaxInflight
    /\ inflight' = inflight \cup
         {[kind |-> job[t].kind, memo |-> job[t].memo, seq |-> txseq[t]]}
    /\ pc' = [pc EXCEPT ![t] = "wait"]
    /\ UNCHANGED <<ledger, horizon, up, txMap, storage, job, txseq, pos, sigs>>

\* Horizon ingested the transaction thread t waits for, with this result.
Answered(t, result) ==
    /\ pc[t] = "wait" /\ txseq[t] <= horizon
    /\ ledger[txseq[t]] = [kind |-> job[t].kind, memo |-> job[t].memo,
                           result |-> result]

SubmitSucceeds(t) ==
    /\ Answered(t, "ok")
    /\ seen' = seen \cup {job[t].memo}
    /\ Done(t)
    /\ UNCHANGED <<network, up, cursor>>

\* Seeded fault: a soaked payment is remembered as executed.
MutSubmitSoakedStored(t) ==
    /\ Answered(t, "no_trust")
    /\ seen' = seen \cup {job[t].memo}
    /\ Done(t)
    /\ UNCHANGED <<network, up, cursor>>

\* op_no_destination and op_no_trust: the money is soaked, nil is returned.
SubmitSoaked(t) ==
    /\ Answered(t, "no_trust")
    /\ Done(t)
    /\ UNCHANGED <<network, up, storage>>

\* Any other answer, or none in time: the transaction may still be applied.
SubmitFails(t) ==
    /\ pc[t] = "wait"
    /\ Fail(t)
    /\ UNCHANGED <<network, up, storage>>

-----------------------------------------------------------------------------
(* Stellar and Horizon.                                                    *)

\* A transaction is executed only with the account's next sequence number;
\* one that fails uses the number too.
Apply(tx) ==
    /\ tx.seq = Len(ledger) + 1 /\ Len(ledger) < MaxLedger
    /\ \E result \in Outcomes :
         ledger' = Append(ledger, [kind |-> tx.kind, memo |-> tx.memo,
                                   result |-> result])
    /\ inflight' = inflight \ {tx}
    /\ UNCHANGED <<horizon, up, txMap, storage, threads>>

\* It is dropped: bad sequence number, time bounds of 300 s, lost request.
Expire(tx) ==
    /\ inflight' = inflight \ {tx}
    /\ UNCHANGED <<ledger, horizon, up, txMap, storage, threads>>

Ingest ==
    /\ horizon < Len(ledger)
    /\ horizon' = horizon + 1
    /\ UNCHANGED <<ledger, inflight, up, txMap, storage, threads>>

-----------------------------------------------------------------------------
(* The process.                                                            *)

\* Everything in memory is lost; what was submitted is not.
Crash ==
    /\ up
    /\ up' = FALSE
    /\ txMap' = {}
    /\ seen' = {}
    /\ cursor' = 0
    /\ pc' = [t \in Threads |-> "idle"]
    /\ job' = [t \in Threads |-> NoJob]
    /\ txseq' = [t \in Threads |-> 0]
    /\ pos' = [t \in Threads |-> 0]
    /\ sigs' = [t \in Threads |-> {}]
    /\ UNCHANGED network

\* main scans the whole vault before the goroutines start.
Start ==
    /\ ~up
    /\ up' = TRUE
    /\ seen' = ListedMemos
    /\ cursor' \in {i \in {0} \cup Listed(0) : \A k \in Listed(0) : k <= i}
    /\ UNCHANGED <<network, txMap, threads>>

Step(t) ==
    \/ \E j \in Jobs : Begin(t, j)
    \/ LoadAccount(t) \/ LoadFails(t)
    \/ StartScan(t) \/ ScanStep(t) \/ AlreadyPaid(t) \/ NotPaid(t)
    \/ \E c \in Cosigners : CosignerSigns(t, c)
    \/ SignFails(t)
    \/ Submit(t) \/ SubmitSucceeds(t) \/ SubmitSoaked(t) \/ SubmitFails(t)

Next ==
    \/ \E w \in Withdrawals : Remember(w)
    \/ \E t \in Threads : Step(t)
    \/ \E tx \in inflight : Apply(tx) \/ Expire(tx)
    \/ Ingest
    \/ Crash \/ Start

Spec == Init /\ [][Next]_vars

-----------------------------------------------------------------------------
(* Properties.                                                             *)

Txs == [kind : Kinds, memo : Memos, seq : 0..(MaxLedger + 1)]
Entries == [kind : Kinds, memo : Memos, result : Results]

\* The types of the variables.
TypeOK ==
    /\ ledger \in Seq(Entries) /\ Len(ledger) <= MaxLedger
    /\ horizon \in 0..Len(ledger)
    /\ inflight \subseteq Txs
    /\ up \in BOOLEAN
    /\ txMap \subseteq Withdrawals
    /\ seen \subseteq Memos
    /\ cursor \in 0..horizon
    /\ pc \in [Threads -> PCs]
    /\ job \in [Threads -> Jobs \cup {NoJob}]
    /\ \A t \in Threads : pc[t] # "idle" => job[t] \in Jobs
    /\ txseq \in [Threads -> 0..(MaxLedger + 1)]
    /\ \A t \in Threads : pc[t] \notin {"idle", "load"} => txseq[t] > 0
    /\ pos \in [Threads -> 0..MaxLedger]
    /\ sigs \in [Threads -> SUBSET Cosigners]

\* No burn is paid out twice and no deposit is refunded or charged twice, nor
\* both refunded and charged: whatever timed out, was retried, raced with the
\* other goroutine or was in flight during a crash.
PaidAtMostOnce ==
    \A i, k \in 1..Len(ledger) :
        Paid(i) /\ Paid(k) /\ ledger[i].memo = ledger[k].memo => i = k

\* The shared cursor never runs past a payment whose memo is not remembered,
\* although both goroutines move it, forwards and backwards, without a lock.
CacheComplete ==
    \A i \in 1..cursor : Paid(i) => ledger[i].memo \in seen

\* The cache never reports a payment that did not happen: a false "already
\* executed" would silently keep a user's money.
CacheSound ==
    \A m \in seen : \E i \in 1..horizon : Paid(i) /\ ledger[i].memo = m

\* No transaction executed under a smaller number than n answers hash m.
UnpaidBelow(n, m) ==
    \A i \in 1..Len(ledger) : i < n /\ Paid(i) => ledger[i].memo # m

\* Why PaidAtMostOnce holds.  Between the moment the sequence number is read
\* and the moment the transaction can be applied, whoever prepared it has seen
\* every payment with a smaller number; one with a larger number would need
\* this one to be executed first.
NumberBeforeCheck ==
    /\ \A tx \in inflight : tx.seq <= horizon + 1 /\ UnpaidBelow(tx.seq, tx.memo)
    /\ \A t \in Threads :
         /\ pc[t] \notin {"idle", "load"} => txseq[t] <= horizon + 1
         /\ pc[t] \in {"sign", "send", "wait"}
              => UnpaidBelow(txseq[t], job[t].memo)
         /\ pc[t] = "scan" =>
              /\ pos[t] <= horizon
              /\ \A i \in 1..pos[t] : Paid(i) => ledger[i].memo \in seen

Settled(m) ==
    \E i \in 1..horizon :
        ledger[i].memo = m /\ ledger[i].result \in {"ok", "no_trust"}

ForgetsSettled ==
    up' => /\ \A w \in txMap \ txMap' : Settled(w)
           /\ pc[Monitor] # "idle" /\ pc'[Monitor] = "idle"
                => Settled(job[Monitor].memo)

\* While the process runs, the main loop forgets a withdrawal and the monitor
\* moves on from a refund or fee only when Stellar has executed the payment or
\* found that its destination cannot receive it.
NothingForgotten == [][ForgetsSettled]_vars

\* The successful vault transactions are the executed payments, identified by
\* their sequence numbers.
Executed ==
    {[id |-> i, kind |-> ledger[i].kind, memo |-> ledger[i].memo]
        : i \in {k \in 1..Len(ledger) : Paid(k)}}

Payout == INSTANCE PayoutOnce WITH ReceiptIds <- 1..MaxLedger, receipts <- Executed

\* The implemented specification: every step of the vault executes one payment
\* of a hash that had none, or none.
PayoutSpec == Payout!Spec

-----------------------------------------------------------------------------
(* Liveness: every goroutine keeps running (a call that gets no answer     *)
(* times out), Horizon catches up, a cosigner that is asked again and      *)
(* again answers, the network drops transactions with a used number and    *)
(* executes one that is submitted with the right number again and again.   *)

Runs(t) ==
    \/ LoadAccount(t) \/ StartScan(t) \/ ScanStep(t) \/ AlreadyPaid(t)
    \/ NotPaid(t) \/ SignFails(t) \/ Submit(t)
    \/ SubmitSucceeds(t) \/ SubmitSoaked(t) \/ SubmitFails(t)

ApplyFrom(kind) == \E tx \in inflight : tx.kind = kind /\ Apply(tx)

DropStale == \E tx \in inflight : tx.seq <= Len(ledger) /\ Expire(tx)

Fairness ==
    /\ \A t \in Threads : WF_vars(Runs(t))
    /\ \A t \in Threads : SF_vars(\E c \in Cosigners : CosignerSigns(t, c))
    /\ WF_vars(Ingest)
    /\ WF_vars(DropStale)
    /\ \A kind \in Kinds : SF_vars(ApplyFrom(kind))

FairSpec == Spec /\ Fairness

\* A refund or a fee that the monitor started is finished (unless the process
\* stops): while it retries, no later deposit is handled.
MonitorProceeds == pc[Monitor] # "idle" ~> pc[Monitor] = "idle"
=============================================================================
