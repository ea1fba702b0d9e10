----------------------------- MODULE SolanaBurns -----------------------------
(***************************************************************************)
(* Solana to Stellar: the master bridge looks for burns among the token's  *)
(* transactions, in the notices of a subscription and, when it starts, in  *)
(* the newest of the past ones, and pays each from the vault.  A payment   *)
(* that fails is not tried again by the same process.  The cosigners, one  *)
(* of whom at least has to sign, read the transaction themselves, if it is *)
(* among the newest.  Nobody compares the token that is burned.            *)
(*                                                                         *)
(* Source: bridges/stellar-solana/solana/{solana,burn}.go,                 *)
(* api/bridge/{bridge,signer_server}.go, stellar/wallet.go.                *)
(***************************************************************************)
EXTENDS Naturals, Sequences, FiniteSets

CONSTANTS Txs,          \* transactions that mention the token: their
                        \* instructions, and whether they were successful
          WithdrawFee,
          SigPage,      \* signatures getSignaturesForAddress returns
          MaxTxs        \* bound: transactions of the token

Ids == 1..MaxTxs
Addresses == {"user", "nobody", "invalid", "feewallet"}
Instructions ==
    [op : {"memo"}, to : Addresses \cup {""}]
      \cup [op : {"burn", "mint"}, token : {"tft", "foreign"}, amount : Nat]
      \cup [op : {"budget", "other"}]

ASSUME SolanaBurnsAssumption ==
    /\ Txs \subseteq [ixs : Seq(Instructions), ok : BOOLEAN]
    /\ WithdrawFee \in Nat /\ SigPage \in Nat /\ MaxTxs \in Nat

VARIABLES
    chain,           \* finalized transactions that mention it, oldest first
    receipts, late,  \* the vault's payments: see VaultClient
    up,              \* the master process runs
    subscribed,      \* its log subscription is open
    notices,         \* logs with a signature that the subscription received
    history,         \* past transactions still to be looked up
    burns            \* solanaBurns: the channel to the main loop

vault == <<receipts, late>>
source == <<subscribed, notices, history>>
vars == <<chain, vault, up, source, burns>>

Vault == INSTANCE VaultClient WITH Memos <- Ids, Kinds <- {"withdraw"}

Logs == Ids \X {1, 2}   \* the log of a transaction comes in two slots

Init ==
    /\ chain = <<>>
    /\ Vault!Init
    /\ up = FALSE
    /\ subscribed = FALSE /\ notices = {} /\ history = {}
    /\ burns = {}

-----------------------------------------------------------------------------
(* Reading a transaction.                                                  *)

IsMemo(ix) == ix.op = "memo"

\* Seeded fault: every token instruction with an amount counts.
MutIsBurnOrMint(ix) == ix.op \in {"burn", "mint"}

\* The token instruction decodes to BurnChecked, of this token or another one.
IsBurn(ix) == ix.op = "burn"

\* Anything else than a memo, a burn and the compute budget is illegal.
Legal(ix) == IsBurn(ix) \/ (IsMemo(ix) /\ ix.to # "") \/ ix.op = "budget"

NoBurn == [to |-> "", amount |-> 0]

\* The instruction of this kind that comes last.
Last(ixs, Is(_)) ==
    LET places == {i \in DOMAIN ixs : Is(ixs[i])}
    IN  ixs[CHOOSE i \in places : \A j \in places : j <= i]

\* The last memo and the last burn of a transaction of n instructions, n in
\* lengths, that are all legal.
Reads(ixs, lengths) ==
    IF /\ Len(ixs) \in lengths
       /\ \A i \in DOMAIN ixs : Legal(ixs[i])
       /\ \E i \in DOMAIN ixs : IsMemo(ixs[i])
       /\ \E i \in DOMAIN ixs : IsBurn(ixs[i])
       /\ Last(ixs, IsBurn).amount # 0
    THEN [to |-> Last(ixs, IsMemo).to, amount |-> Last(ixs, IsBurn).amount]
    ELSE NoBurn

\* extractBurnFromSig of the master asks for three instructions,
MasterReads(b) == Reads(chain[b].ixs, {3})

\* burnFromTransaction of the cosigners for two or three.
CosignerReads(b) == Reads(chain[b].ixs, {2, 3})

\* listTransactionSigs: one page, the newest transactions, without those on it
\* that failed.
Listed == {b \in DOMAIN chain : b + SigPage > Len(chain) /\ chain[b].ok}

-----------------------------------------------------------------------------
(* Where the burns come from.                                              *)

\* A transaction is finalized, whether it was successful or not; an open
\* subscription logs it.
Finalized(tx) ==
    /\ Len(chain) < MaxTxs
    /\ chain' = Append(chain, tx)
    /\ notices' = IF subscribed THEN notices \cup ({Len(chain')} \X {1, 2})
                                ELSE notices
    /\ UNCHANGED <<vault, up, subscribed, history, burns>>

\* The goroutine of the subscription opens it, again after an error.
Subscribe ==
    /\ up /\ ~subscribed
    /\ subscribed' = TRUE
    /\ UNCHANGED <<chain, vault, up, notices, history, burns>>

\* Recv returns an error: what was not received yet is lost.
Disconnect ==
    /\ subscribed
    /\ subscribed' = FALSE
    /\ notices' = {}
    /\ UNCHANGED <<chain, vault, up, history, burns>>

\* Seeded fault: every transaction is sent on.
MutFoundAny(b) == burns' = burns \cup {b}

\* GetTransaction finds transaction b, which is sent on if it is a burn.
Found(b) ==
    burns' = IF MasterReads(b) = NoBurn THEN burns ELSE burns \cup {b}

NoticeFound(log) ==
    /\ notices' = notices \ {log}
    /\ Found(log[1])
    /\ UNCHANGED <<chain, vault, up, subscribed, history>>

\* It does not find it yet, or fails: the notice is dropped.
NoticeLost(log) ==
    /\ notices' = notices \ {log}
    /\ UNCHANGED <<chain, vault, up, subscribed, history, burns>>

HistoryFound(b) ==
    /\ b \in history
    /\ history' = history \ {b}
    /\ Found(b)
    /\ UNCHANGED <<chain, vault, up, subscribed, notices>>

HistoryLost(b) ==
    /\ b \in history
    /\ history' = history \ {b}
    /\ UNCHANGED <<chain, vault, up, subscribed, notices, burns>>

-----------------------------------------------------------------------------
(* The main loop.                                                          *)

\* withdraw: what the vault pays for burn b, the fee to the fee wallet.
Request(b) ==
    [to |-> MasterReads(b).to, amount |-> MasterReads(b).amount - WithdrawFee,
     fee |-> WithdrawFee]

\* validateWithdrawal: GetBurnTransaction finds the burn on the page, it has this
\* receiver and this amount, and the payment is new.
CosignerSigns(b) ==
    LET read == CosignerReads(b) IN
    /\ b \in Listed
    /\ read # NoBurn /\ ~Vault!Known(b)
    /\ Request(b).to = read.to
    /\ Request(b).fee = WithdrawFee /\ Request(b).amount = read.amount - WithdrawFee

PaymentOf(b) == [kind |-> "withdraw", memo |-> b]

\* Too small, to the bridge itself, or to an address that is none.
WithdrawSkips(b) ==
    /\ b \in burns
    /\ \/ MasterReads(b).amount <= WithdrawFee
       \/ MasterReads(b).to \in {"feewallet", "invalid"}
    /\ burns' = burns \ {b}
    /\ UNCHANGED <<chain, vault, up, source>>

Payable(b) ==
    /\ MasterReads(b).amount > WithdrawFee
    /\ MasterReads(b).to \in {"user", "nobody"}

WithdrawPays(b) ==
    /\ b \in burns /\ Payable(b)
    /\ Vault!Known(b) \/ CosignerSigns(b)
    /\ burns' = burns \ {b}
    /\ Vault!Returns(PaymentOf(b), MasterReads(b).to = "nobody")
    /\ UNCHANGED <<chain, up, source>>

\* The error is logged and the burn is not kept.
WithdrawFails(b) ==
    /\ b \in burns /\ Payable(b)
    /\ burns' = burns \ {b}
    /\ \/ Vault!Fails(PaymentOf(b)) /\ CosignerSigns(b)
       \/ UNCHANGED vault
    /\ UNCHANGED <<chain, up, source>>

LatePayment(p) ==
    /\ Vault!Decided(p)
    /\ UNCHANGED <<chain, up, source, burns>>

-----------------------------------------------------------------------------
(* The process.                                                            *)

Crash ==
    /\ up
    /\ up' = FALSE
    /\ subscribed' = FALSE /\ notices' = {} /\ history' = {} /\ burns' = {}
    /\ UNCHANGED <<chain, vault>>

\* Seeded fault: only new burns are looked for.
MutStartWithoutHistory ==
    /\ ~up
    /\ up' = TRUE
    /\ UNCHANGED <<chain, vault, source, burns>>

\* SubscribeTokenBurns: the subscription is left to a goroutine, the newest
\* past transactions are listed at once.
Start ==
    /\ ~up
    /\ up' = TRUE
    /\ history' = Listed
    /\ UNCHANGED <<chain, vault, subscribed, notices, burns>>

Next ==
    \/ \E tx \in Txs : Finalized(tx)
    \/ Subscribe \/ Disconnect
    \/ \E log \in notices : NoticeFound(log) \/ NoticeLost(log)
    \/ \E b \in Ids : \/ HistoryFound(b) \/ HistoryLost(b)
                      \/ WithdrawSkips(b) \/ WithdrawPays(b) \/ WithdrawFails(b)
    \/ \E p \in late : LatePayment(p)
    \/ Crash \/ Start

Spec == Init /\ [][Next]_vars

-----------------------------------------------------------------------------
(* Properties.                                                             *)

\* The types of the variables; only burns the master can read get as far as
\* the main loop.
TypeOK ==
    /\ chain \in Seq(Txs) /\ Len(chain) <= MaxTxs
    /\ Vault!TypeOK
    /\ up \in BOOLEAN /\ subscribed \in BOOLEAN
    /\ subscribed => up
    /\ notices \subseteq Logs /\ \A log \in notices : log[1] \in DOMAIN chain
    /\ history \subseteq DOMAIN chain
    /\ burns \subseteq {b \in DOMAIN chain : MasterReads(b) # NoBurn}

\* The tokens burned by transaction b, of whatever token, one by one.
Burned(b) ==
    LET places == {i \in DOMAIN chain[b].ixs :
                     chain[b].ok /\ chain[b].ixs[i].op = "burn"}
    IN  UNION {{i} \X (1..chain[b].ixs[i].amount) : i \in places}

\* No transaction is paid for more than it burned, and one that failed is not
\* paid, although the subscription reports it: a mint, several burns, an error
\* do not change that.  Which token was burned is not compared, so that a burn
\* of another one counts.
PaidAtMostBurned ==
    \A r \in receipts :
        Request(r.memo).amount + Request(r.memo).fee <= Cardinality(Burned(r.memo))

Fairness ==
    /\ WF_vars(Start)
    /\ \A b \in Ids : SF_vars(HistoryFound(b)) /\ SF_vars(WithdrawPays(b))

FairSpec == Spec /\ Fairness

\* Liveness: an RPC node that is asked for a transaction again and again has
\* it, and a payment that is tried again and again is made.  Then a process
\* that is restarted again and again pays every burn it can read, also those
\* whose notice or payment failed, as long as the burn is on the page: neither
\* the master nor the cosigners find an older one.
EveryBurnPaidIfRestarted ==
    []<>~up => \A b \in Ids :
        (b \in Listed /\ Payable(b) /\ MasterReads(b).to = "user")
          ~> Vault!Known(b) \/ b \notin Listed
=============================================================================
