------------------------- MODULE SolanaDepositsProofs -------------------------
(***************************************************************************)
(* A deposit is minted at most once although nothing on Solana says so,    *)
(* for any number of deposits, amounts and cosigners.                      *)
(*                                                                         *)
(* The argument has three parts.  A mint that can still be executed is the *)
(* only one (PoolInv): the handler waits for it, and the process is not    *)
(* started again before it is decided.  A mint whose fee is not yet paid   *)
(* is the last mint of the token (LastMint), so that the page of           *)
(* signatures shows it as long as fewer other transactions follow.  And a  *)
(* deposit the cursor passed has its receipt (Passed), which is the memory *)
(* that outlives the page.                                                 *)
(***************************************************************************)
EXTENDS SolanaDeposits, FiniteSetTheorems, TLAPS

\* Deposit d is one the bridge may mint.
Mintable(d) ==
    Amount[d] > DepositFee /\ d \in ValidMemo /\ TRUE \in Receiver[d]

\* What the theorems about mints assume: a restart finds nothing undecided,
\* the effects of a deposit can be read, the page is longer than the number of
\* foreign transactions, and a deposit whose receiver comes and goes can be
\* refunded.
Careful ==
    /\ QuickRestart = FALSE /\ Reads = {TRUE}
    /\ MaxOthers < SigPage
    /\ \A d \in Deposits : Mintable(d) /\ FALSE \in Receiver[d] =>
          Amount[d] > WithdrawFee /\ d \notin Unreachable

\* The master's own transaction is the one its handler waits for.
TypeInv ==
    /\ TypeOK
    /\ \A tx \in pool : tx.own =>
          up /\ tx.dep = Current /\ pc \in {"sent", "wait"} /\ ~confirmed
    /\ confirmed => pc \in {"sent", "wait"}

-----------------------------------------------------------------------------
(* Types.                                                                  *)

\* What the vault enters when it executes payment p.
Receipt(p) == [id |-> p.memo, kind |-> p.kind, memo |-> p.memo]

LEMMA VaultExecutes ==
    ASSUME NEW p \in Vault!Payments
    PROVE  /\ Vault!Executes(p) => ~Known(p.memo) /\ receipts' = receipts \cup {Receipt(p)}
           /\ Receipt(p) \in Vault!Vault!Receipts
  <1>1. ASSUME Vault!Executes(p)
        PROVE  ~Known(p.memo) /\ receipts' = receipts \cup {Receipt(p)}
    BY <1>1 DEF Vault!Executes, Vault!Vault!Pay, Known, Vault!Known, Receipt
  <1>2. Receipt(p) \in Vault!Vault!Receipts
    BY DEF Receipt, Vault!Vault!Receipts, Vault!Payments
  <1> QED BY <1>1, <1>2

LEMMA AtMostOne ==
    ASSUME NEW S, NEW e, S \subseteq {e}
    PROVE  Cardinality(S) <= 1
  <1>1. CASE S = {}
    BY <1>1, FS_EmptySet
  <1>2. CASE S # {}
    <2>1. S = {e}
      BY <1>2
    <2> QED BY <2>1, FS_Singleton
  <1> QED BY <1>1, <1>2

LEMMA TypeInit == Init => TypeInv
  <1> SUFFICES ASSUME Init PROVE TypeInv
    OBVIOUS
  <1>1. {tx \in pool : tx.own} = {}
    BY DEF Init
  <1>2. Cardinality({tx \in pool : tx.own}) <= 1
    BY <1>1, FS_EmptySet
  <1>3. Vault!TypeOK /\ tokenTxs \in Seq(TokenTxs) /\ pool \subseteq MintTxs
    BY DEF Init, Vault!Init, Vault!Vault!Init, Vault!TypeOK
  <1>4. arrived \in 0..N /\ savedCursor \in 0..arrived /\ cursor \in 0..arrived
    BY SolanaDepositsAssumption DEF Init
  <1>5. pc = "poll" /\ ~confirmed /\ named = {} /\ waiting = {} /\ good = {}
        /\ confirmed \in BOOLEAN /\ up \in BOOLEAN /\ pool = {}
    BY DEF Init, Signers!Init
  <1> QED
    BY <1>2, <1>3, <1>4, <1>5 DEF TypeInv, TypeOK, PCs

LEMMA TypeStep == TypeInv /\ [Next]_vars => TypeInv'
  <1> SUFFICES ASSUME TypeInv, [Next]_vars PROVE TypeInv'
    OBVIOUS
  <1> USE SolanaDepositsAssumption
  <1> DEFINE Chain == /\ tokenTxs \in Seq(TokenTxs)
                      /\ pool \subseteq MintTxs
                      /\ Cardinality({tx \in pool : tx.own}) <= 1
             Own == /\ \A tx \in pool : tx.own =>
                          up /\ tx.dep = Current /\ pc \in {"sent", "wait"} /\ ~confirmed
                    /\ confirmed => pc \in {"sent", "wait"}
                    /\ confirmed \in BOOLEAN
             Process == /\ arrived \in 0..N /\ up \in BOOLEAN
                        /\ savedCursor \in 0..arrived /\ cursor \in 0..arrived
                        /\ pc \in PCs
                        /\ pc # "poll" => up /\ Current <= arrived
             Round == /\ named \subseteq Cosigners /\ waiting \subseteq Cosigners
                      /\ good \subseteq Cosigners \ waiting
                      /\ pc = "submit" => good = named /\ Cardinality(named) = Required
  <1>1. Vault!TypeOK /\ Chain /\ Own /\ Process /\ Round
    BY DEF TypeInv, TypeOK
  <1>2. SUFFICES Vault!TypeOK' /\ Chain' /\ Own' /\ Process' /\ Round'
    BY <1>2 DEF TypeInv, TypeOK
  <1>3. ASSUME UNCHANGED <<receipts, late>> PROVE Vault!TypeOK'
    BY <1>1, <1>3 DEF Vault!TypeOK
  <1>4. ASSUME UNCHANGED <<tokenTxs, pool>> PROVE Chain'
    BY <1>1, <1>4
  <1>5. pc # "poll" => /\ Current \in Deposits
                       /\ RefundOf(Current) \in Vault!Payments
                       /\ FeeOf(Current) \in Vault!Payments
    <2>1. pc # "poll" => Current \in Deposits
      BY <1>1 DEF Current, Deposits
    <2> QED BY <2>1 DEF RefundOf, FeeOf, Vault!Payments
  <1>6. ASSUME NEW p \in Vault!Payments, late' \subseteq late \cup {p},
               Vault!Executes(p) \/ UNCHANGED receipts
        PROVE  Vault!TypeOK'
    <2>1. Receipt(p) \in Vault!Vault!Receipts /\ receipts' \subseteq receipts \cup {Receipt(p)}
      BY <1>6, VaultExecutes
    <2> QED BY <1>1, <1>6, <2>1 DEF Vault!TypeOK
  <1>7. CASE Handler
    <2> USE DEF Current, Return, Goto, PCs
    <2>1. ASSUME NEW read \in Reads, Receive(read)
          PROVE  Vault!TypeOK' /\ Chain' /\ Own' /\ Process' /\ Round'
      BY <1>1, <1>3, <1>4, <2>1 DEF Receive, vault, solana, process, round
    <2>2. CASE RefundDone
      <3>1. Vault!TypeOK'
        BY <1>5, <1>6, <2>2 DEF RefundDone, Vault!Returns
      <3> QED BY <1>1, <1>4, <2>2, <3>1 DEF RefundDone, solana, process, round
    <2>3. CASE PaymentRetried
      <3>1. Vault!TypeOK'
        BY <1>5, <1>6, <2>3 DEF PaymentRetried, Vault!Fails, vault
      <3> QED BY <1>1, <1>4, <2>3, <3>1 DEF PaymentRetried, solana, process, round
    <2>4. CASE MintKnown \/ MintUnknown \/ MemoKnown \/ InvalidReceiver
      <3>1. /\ UNCHANGED <<arrived, vault, solana, process, round>>
            /\ pc \in {"mint", "memo"} /\ pc' \in PCs \ {"submit", "sent", "wait"}
            /\ \/ cursor' = cursor + 1 /\ pc' = "poll"
               \/ cursor' = cursor
        BY <2>4 DEF MintKnown, MintUnknown, MemoKnown, InvalidReceiver
      <3> QED BY <1>1, <1>3, <1>4, <3>1 DEF vault, solana, process, round
    <2>5. CASE AskOnline
      BY <1>1, <1>3, <1>4, <2>5 DEF AskOnline, Signers!Ask, vault, solana, process
    <2>6. ASSUME NEW p \in waiting, OnlineAnswer(p) \/ SignAnswer(p) \/ NoAnswer(p)
          PROVE  Vault!TypeOK' /\ Chain' /\ Own' /\ Process' /\ Round'
      <3>1. /\ UNCHANGED <<arrived, vault, solana, process, named, cursor, pc>>
            /\ pc \in {"online", "sign"} /\ waiting' = waiting \ {p}
            /\ good' \in {good, good \cup {p}}
        BY <2>6 DEF OnlineAnswer, SignAnswer, NoAnswer, Answers, Signers!Good, Signers!Bad
      <3> QED BY <1>1, <1>3, <1>4, <3>1 DEF vault, solana, process
    <2>7. CASE OnlineDone
      BY <1>1, <1>3, <1>4, <2>7 DEF OnlineDone, Signers!Ask, vault, solana, process
    <2>8. CASE SignDone
      BY <1>1, <1>3, <1>4, <2>8 DEF SignDone, vault, solana, process, round
    <2>9. CASE MintFails
      BY <1>1, <1>3, <1>4, <2>9 DEF MintFails, NoRound, Signers!Forget, vault, solana, process
    <2>10. CASE MintSubmit
      <3>1. \A tx \in pool : ~tx.own
        BY <1>1, <2>10 DEF MintSubmit
      <3> DEFINE sent == [dep |-> Current, own |-> TRUE]
      <3>2. sent \in MintTxs
        BY <1>5, <2>10 DEF MintSubmit, MintTxs
      <3>3. {tx \in pool' : tx.own} \subseteq {sent} /\ pool' \subseteq pool \cup {sent}
        BY <2>10, <3>1 DEF MintSubmit
      <3>4. Cardinality({tx \in pool' : tx.own}) <= 1
        BY <3>3, AtMostOne
      <3>5. Chain'
        BY <1>1, <2>10, <3>2, <3>3, <3>4 DEF MintSubmit
      <3>6. Own'
        BY <1>1, <2>10, <3>1, <3>3 DEF MintSubmit, process
      <3> QED
        BY <1>1, <1>3, <2>10, <3>5, <3>6 DEF MintSubmit, NoRound, Signers!Forget, vault, process
    <2>11. CASE MintConfirmed
      BY <1>1, <1>3, <1>4, <2>11 DEF MintConfirmed, vault, process, round
    <2>12. CASE MintSubmitFails
      BY <1>1, <1>3, <1>4, <2>12 DEF MintSubmitFails, vault, solana, process, round
    <2>13. CASE MintWaited
      BY <1>1, <1>3, <1>4, <2>13 DEF MintWaited, vault, process, round
    <2>14. CASE FeeDone
      <3>1. Vault!TypeOK'
        BY <1>5, <1>6, <2>14 DEF FeeDone, Vault!Returns
      <3> QED BY <1>1, <1>4, <2>14, <3>1 DEF FeeDone, solana, process, round
    <2>15. CASE SaveCursor
      BY <1>1, <1>3, <1>4, <2>15 DEF SaveCursor, vault, solana, round
    <2> QED
      BY <1>7, <2>1, <2>2, <2>3, <2>4, <2>5, <2>6, <2>7, <2>8, <2>9, <2>10, <2>11, <2>12,
         <2>13, <2>14, <2>15 DEF Handler
  <1>8. ASSUME NEW tx \in pool, Finalize(tx) \/ Expire(tx)
        PROVE  Vault!TypeOK' /\ Chain' /\ Own' /\ Process' /\ Round'
    <2>1. /\ UNCHANGED <<arrived, vault, process, cursor, pc, round>> /\ pool' = pool \ {tx}
          /\ tokenTxs' \in {tokenTxs, Append(tokenTxs, MintOf(tx.dep))}
          /\ confirmed' \in {confirmed, confirmed \/ tx.own}
      BY <1>8 DEF Finalize, Expire
    <2>2. tx.dep \in Deposits /\ tx.own \in BOOLEAN
      BY <1>1 DEF MintTxs
    <2>3. \A other \in pool : tx.own /\ other.own => other = tx
      <3>1. \A t \in pool : t.own => t = [dep |-> Current, own |-> TRUE]
        <4>1. \A t \in pool : t \in MintTxs /\ (t.own => t.dep = Current)
          BY <1>1
        <4> HIDE DEF Chain, Own
        <4> QED BY <4>1 DEF MintTxs
      <3> QED BY <3>1
    <2>4. Cardinality({t \in pool' : t.own}) <= 1
      <3>1. {t \in pool : t.own} \subseteq {[dep |-> Current, own |-> TRUE]}
        BY <1>1 DEF MintTxs
      <3>2. {t \in pool' : t.own} \subseteq {[dep |-> Current, own |-> TRUE]}
        BY <2>1, <3>1
      <3> QED BY <3>2, AtMostOne
    <2>5. Chain'
      <3>1. tokenTxs' \in Seq(TokenTxs)
        <4>1. MintOf(tx.dep) \in TokenTxs /\ tokenTxs \in Seq(TokenTxs)
          BY <1>1, <2>2 DEF MintOf, TokenTxs
        <4>2. tokenTxs' = tokenTxs \/ tokenTxs' = Append(tokenTxs, MintOf(tx.dep))
          BY <2>1
        <4> HIDE DEF Chain
        <4>3. Append(tokenTxs, MintOf(tx.dep)) \in Seq(TokenTxs)
          BY <4>1
        <4> QED BY <4>1, <4>2, <4>3
      <3> QED BY <1>1, <2>1, <2>4, <3>1
    <2>6. Own'
      <3>1. UNCHANGED <<up, cursor, pc>> /\ \A other \in pool' : other \in pool /\ other # tx
        BY <2>1 DEF process
      <3>2. CASE confirmed'
        <4>1. confirmed \/ tx.own
          BY <2>1, <3>2
        <4>2. \A other \in pool' : ~other.own
          BY <1>1, <2>3, <3>1, <4>1
        <4> QED BY <1>1, <2>1, <2>2, <3>1, <4>1, <4>2
      <3>3. CASE ~confirmed'
        <4>1. ~confirmed
          BY <1>1, <2>1, <2>2, <3>3
        <4> QED BY <1>1, <2>1, <2>2, <3>1, <3>3, <4>1 DEF Current
      <3> QED BY <3>2, <3>3
    <2> QED BY <1>1, <1>3, <2>1, <2>5, <2>6 DEF Current, vault, process, round
  <1>9. ASSUME NEW m \in Reused \cup {Other}, OtherTx(m)
        PROVE  Vault!TypeOK' /\ Chain' /\ Own' /\ Process' /\ Round'
    <2>1. OthersWith(m) \in TokenTxs
      BY DEF OthersWith, TokenTxs
    <2> QED BY <1>1, <1>3, <1>9, <2>1 DEF OtherTx, Current, vault, process, round
  <1>10. ASSUME NEW p \in late, LatePayment(p)
         PROVE  Vault!TypeOK' /\ Chain' /\ Own' /\ Process' /\ Round'
    <2>1. p \in Vault!Payments
      BY <1>1 DEF Vault!TypeOK
    <2>2. Vault!TypeOK'
      BY <1>6, <1>10, <2>1 DEF LatePayment, Vault!Decided
    <2> QED BY <1>1, <1>4, <1>10, <2>2 DEF LatePayment, Current, solana, process, round
  <1>11. CASE Deposit
    BY <1>1, <1>3, <1>4, <1>11 DEF Deposit, Current, vault, solana, process, round
  <1>12. CASE Crash
    <2>1. /\ UNCHANGED <<arrived, vault, tokenTxs, savedCursor>> /\ cursor' = 0
          /\ pc' = "poll" /\ up' = FALSE /\ confirmed' = FALSE
          /\ named' = {} /\ waiting' = {} /\ good' = {}
      BY <1>12 DEF Crash, NoRound, Signers!Forget
    <2>2. pool' \subseteq MintTxs /\ \A tx \in pool' : ~tx.own
      <3>1. ASSUME NEW tx \in pool PROVE [tx EXCEPT !.own = FALSE] \in MintTxs
        <4>1. tx \in [dep : Deposits, own : BOOLEAN]
          BY <1>1 DEF MintTxs
        <4> QED BY <4>1 DEF MintTxs
      <3>2. ASSUME NEW tx \in pool PROVE [tx EXCEPT !.own = FALSE].own = FALSE
        BY <1>1 DEF MintTxs
      <3>3. pool' = {[tx EXCEPT !.own = FALSE] : tx \in pool}
        BY <1>12 DEF Crash
      <3> QED BY <3>1, <3>2, <3>3
    <2>3. {tx \in pool' : tx.own} \subseteq {Other}
      BY <2>2
    <2>4. Cardinality({tx \in pool' : tx.own}) <= 1
      BY <2>3, AtMostOne
    <2>5. Chain' /\ Own'
      BY <1>1, <2>1, <2>2, <2>4
    <2>6. Process'
      <3>1. arrived' = arrived /\ savedCursor' = savedCursor /\ arrived \in Nat
        BY <1>1, <2>1
      <3>2. arrived' \in 0..N /\ savedCursor' \in 0..arrived' /\ cursor' \in 0..arrived'
        BY <1>1, <2>1, <3>1
      <3>3. up' \in BOOLEAN /\ pc' \in PCs /\ pc' = "poll"
        BY <2>1 DEF PCs
      <3> QED BY <3>2, <3>3
    <2>7. Round'
      BY <2>1
    <2> QED BY <1>3, <2>1, <2>5, <2>6, <2>7 DEF vault
  <1>13. ASSUME NEW rescan \in Rescans, Start(rescan)
         PROVE  Vault!TypeOK' /\ Chain' /\ Own' /\ Process' /\ Round'
    BY <1>1, <1>3, <1>4, <1>13 DEF Start, vault, solana, round
  <1>14. CASE UNCHANGED vars
    BY <1>1, <1>3, <1>4, <1>14 DEF vars, Current, vault, solana, process, round
  <1> QED
    BY <1>7, <1>8, <1>9, <1>10, <1>11, <1>12, <1>13, <1>14 DEF Next

\* The variables keep their types.  A mint goes out only with a signature of
\* each cosigner it names, and the master has one of its own under way at most.
THEOREM TypeCorrect == Spec => []TypeOK
  <1>1. TypeInv => TypeOK
    BY DEF TypeInv
  <1> QED BY <1>1, TypeInit, TypeStep, PTL DEF Spec

-----------------------------------------------------------------------------
(* A deposit is minted once.                                               *)

IsMinted(d) == \E i \in DOMAIN tokenTxs : tokenTxs[i] = MintOf(d)

\* What IsMintTxID takes for a mint of d, on a page without end.
Shown(d) == \E i \in DOMAIN tokenTxs : tokenTxs[i].memo = d

\* Only other transactions follow the mint of d.
LastMint(d) ==
    \E i \in DOMAIN tokenTxs :
        /\ tokenTxs[i] = MintOf(d)
        /\ \A k \in DOMAIN tokenTxs : k > i => ~tokenTxs[k].mints

\* Every deposit before d that may be minted has its receipt.
Cleared(d) == \A e \in Deposits : e < d /\ Mintable(e) => Known(e)

\* What the token's history says about the vault's.
MintInv ==
    /\ Cardinality(Trailing) <= MaxOthers
    /\ \A i, k \in DOMAIN tokenTxs :
          tokenTxs[i] = tokenTxs[k] /\ tokenTxs[i].mints => i = k
    /\ \A d \in Deposits : IsMinted(d) => Mintable(d) /\ Cleared(d)
    /\ \A d \in Deposits : IsMinted(d) /\ ~Known(d) => LastMint(d)

\* A mint that can still be executed is the only one, and settles a deposit
\* that is not settled otherwise.
PoolInv ==
    /\ \A tx, other \in pool : tx = other
    /\ \A tx \in pool :
          /\ up => tx.own
          /\ Mintable(tx.dep) /\ Cleared(tx.dep)
          /\ ~IsMinted(tx.dep) /\ ~Known(tx.dep)
          /\ \A p \in late : p.memo # tx.dep
          /\ \A d \in Deposits : IsMinted(d) => Known(d)

ReceiptInv ==
    /\ \A r \in receipts :
          IF r.kind = "fee" THEN Shown(r.memo) /\ Amount[r.memo] > DepositFee
                            ELSE ~IsMinted(r.memo)
    /\ \A r, s \in receipts : r.memo = s.memo => r = s

\* A fee for d is due, or it would be the second payment.
FeeDue(d) == (Shown(d) \/ Known(d)) /\ Amount[d] > DepositFee

\* A fee that may still be paid is due, or a second one; a refund is due.
LateInv ==
    \A p \in late :
        /\ IF p.kind = "fee" THEN FeeDue(p.memo) ELSE ~IsMinted(p.memo)
        /\ up => p.memo <= Current
        /\ up /\ p.memo = Current => pc \in {"refund", "fee", "save"}

\* What the handler has found out about the deposit it is at.
HandlerInv ==
    /\ pc \in {"mint", "memo", "online", "sign", "submit", "sent", "wait", "fee"} =>
          Amount[Current] > DepositFee /\ Current \in ValidMemo
    /\ pc = "memo" => (IsMinted(Current) => Known(Current))
    /\ pc \in {"online", "sign", "submit"} =>
          Mintable(Current) /\ ~IsMinted(Current) /\ ~Known(Current)
    /\ confirmed => IsMinted(Current)
    /\ pc = "refund" =>
          ~IsMinted(Current) /\ (Mintable(Current) => FALSE \in Receiver[Current])
    /\ pc = "fee" => FeeDue(Current)
    /\ pc = "save" => Known(Current)

\* The handler is done with deposit d for good.
Passed(d) ==
    /\ Mintable(d) => Known(d)
    /\ Known(d) \/ Amount[d] <= WithdrawFee \/ d \in Unreachable

PassedInv == \A d \in Deposits : d <= cursor \/ d <= savedCursor => Passed(d)

OnceInv ==
    TypeInv /\ MintInv /\ PoolInv /\ ReceiptInv /\ LateInv /\ HandlerInv /\ PassedInv

LEMMA OnceInit == Init => OnceInv
  <1> SUFFICES ASSUME Init PROVE OnceInv
    OBVIOUS
  <1> USE SolanaDepositsAssumption
  <1>1. TypeInv
    BY TypeInit
  <1>2. tokenTxs = <<>> /\ receipts = {} /\ late = {} /\ pool = {} /\ ~confirmed
        /\ pc = "poll" /\ cursor = 0 /\ savedCursor = 0
    BY DEF Init, Vault!Init, Vault!Vault!Init
  <1>3. DOMAIN tokenTxs = {}
    BY <1>2
  <1>4. Trailing \subseteq {}
    BY <1>3 DEF Trailing
  <1>5. Cardinality(Trailing) = 0
    BY <1>4, FS_EmptySet, Trailing = {}
  <1>6. \A d \in Deposits : ~IsMinted(d)
    BY <1>3 DEF IsMinted
  <1>7. MintInv
    BY <1>3, <1>5, <1>6 DEF MintInv
  <1>8. PassedInv
    BY <1>2 DEF PassedInv, Deposits
  <1> QED
    BY <1>1, <1>2, <1>7, <1>8 DEF OnceInv, PoolInv, ReceiptInv, LateInv, HandlerInv

\* The page shows the mint of a deposit that has no receipt.
LEMMA PageShows ==
    ASSUME TypeInv, MintInv, Careful, NEW d \in Deposits, LastMint(d)
    PROVE  IsMintTxID(d)
  <1> USE SolanaDepositsAssumption
  <1>1. PICK i \in DOMAIN tokenTxs :
            tokenTxs[i] = MintOf(d) /\ \A k \in DOMAIN tokenTxs : k > i => ~tokenTxs[k].mints
    BY DEF LastMint
  <1>2. Len(tokenTxs) \in Nat /\ DOMAIN tokenTxs = 1..Len(tokenTxs)
    BY DEF TypeInv, TypeOK
  <1>3. IsFiniteSet(Trailing) /\ (i + 1)..Len(tokenTxs) \in SUBSET Trailing
    <2>1. Trailing \in SUBSET (1..Len(tokenTxs)) /\ IsFiniteSet(1..Len(tokenTxs))
      BY <1>2, FS_Interval DEF Trailing
    <2>2. IsFiniteSet(Trailing)
      BY <2>1, FS_Subset
    <2>3. ASSUME NEW k \in (i + 1)..Len(tokenTxs) PROVE k \in Trailing
      BY <1>1, <1>2 DEF Trailing
    <2> QED BY <2>2, <2>3
  <1>4. Cardinality((i + 1)..Len(tokenTxs)) <= Cardinality(Trailing)
    BY <1>3, FS_Subset
  <1>5. Cardinality((i + 1)..Len(tokenTxs)) =
            IF i + 1 > Len(tokenTxs) THEN 0 ELSE Len(tokenTxs) - (i + 1) + 1
    <2>1. i + 1 \in Int /\ Len(tokenTxs) \in Int
      BY <1>2
    <2> QED BY <2>1, FS_Interval
  <1>6. Cardinality(Trailing) <= MaxOthers /\ MaxOthers < SigPage /\ Cardinality(Trailing) \in Nat
    BY <1>3, FS_CardinalityType DEF MintInv, Careful
  <1>7. i + SigPage > Len(tokenTxs)
    BY <1>2, <1>4, <1>5, <1>6
  <1>8. tokenTxs[i] \in Listed /\ tokenTxs[i].memo = d
    BY <1>1, <1>7 DEF Listed, MintOf
  <1> QED BY <1>8 DEF IsMintTxID

\* A step that changes only the monitor's place, which is not a payment or
\* which moves past the transaction, keeps the invariant if it keeps what is
\* said of that place.
LEMMA LocalStep ==
    ASSUME OnceInv, TypeInv', HandlerInv', PassedInv',
           UNCHANGED <<receipts, late, tokenTxs, pool, up>>,
           \/ cursor' = cursor /\ pc \notin {"refund", "fee", "save"}
           \/ cursor' = cursor + 1
    PROVE  OnceInv'
  <1>1. /\ \A d : IsMinted(d)' = IsMinted(d) /\ LastMint(d)' = LastMint(d)
        /\ \A d : Known(d)' = Known(d) /\ Cleared(d)' = Cleared(d)
        /\ \A d : Shown(d)' = Shown(d) /\ FeeDue(d)' = FeeDue(d)
        /\ Trailing' = Trailing
    BY DEF IsMinted, Shown, LastMint, Known, Vault!Known, FeeDue, Cleared, Mintable, Trailing
  <1>2. MintInv' /\ PoolInv' /\ ReceiptInv'
    BY <1>1 DEF OnceInv, MintInv, PoolInv, ReceiptInv, Mintable
  <1>3. LateInv'
    <2>1. cursor \in Nat /\ \A p \in late : p.memo \in Nat
      BY SolanaDepositsAssumption
         DEF OnceInv, TypeInv, TypeOK, Vault!TypeOK, Vault!Payments, Deposits
    <2> QED BY <1>1, <2>1 DEF OnceInv, LateInv, Current
  <1> QED BY <1>2, <1>3 DEF OnceInv

\* What a payment that is due does to the vault.
DuePayment(p) ==
    /\ p \in Vault!Payments
    /\ IF p.kind = "fee" THEN FeeDue(p.memo) ELSE ~IsMinted(p.memo)
    /\ \A tx \in pool : tx.dep # p.memo
    /\ late' \subseteq late \cup {p}
    /\ Vault!Executes(p) \/ UNCHANGED receipts
    /\ UNCHANGED <<tokenTxs, pool, up>>

LEMMA PaymentStep ==
    ASSUME OnceInv, NEW p, DuePayment(p)
    PROVE  /\ MintInv' /\ PoolInv' /\ ReceiptInv'
           /\ \A d : Known(d) => Known(d)'
           /\ \A d : IsMinted(d)' = IsMinted(d) /\ (FeeDue(d) => FeeDue(d)')
           /\ Vault!Executes(p) => Known(p.memo)'
           /\ \A d : Passed(d) => Passed(d)'
  <1>1. /\ \A d : IsMinted(d)' = IsMinted(d) /\ LastMint(d)' = LastMint(d)
        /\ \A d : Shown(d)' = Shown(d)
        /\ Trailing' = Trailing /\ p \in Vault!Payments
    BY DEF DuePayment, IsMinted, Shown, LastMint, Trailing
  <1>2. \/ receipts' = receipts
        \/ ~Known(p.memo) /\ receipts' = receipts \cup {Receipt(p)}
    BY <1>1, VaultExecutes DEF DuePayment
  <1>3. /\ \A d : Known(d) => Known(d)'
        /\ \A d : Known(d)' => Known(d) \/ d = p.memo
        /\ Vault!Executes(p) => Known(p.memo)'
    <2>1. Receipt(p).memo = p.memo
      BY DEF Receipt
    <2>2. Vault!Executes(p) => Receipt(p) \in receipts'
      BY <1>1, VaultExecutes
    <2> QED BY <1>2, <2>1, <2>2 DEF Known, Vault!Known
  <1>4. \A d : Cleared(d) => Cleared(d)'
    BY <1>3 DEF Cleared, Mintable
  <1>5. \A d : Passed(d) => Passed(d)'
    BY <1>3 DEF Passed, Mintable
  <1>6. MintInv'
    <2>1. UNCHANGED tokenTxs
      BY DEF DuePayment
    <2> QED BY <1>1, <1>3, <1>4, <2>1 DEF OnceInv, MintInv, Mintable
  <1>7. PoolInv'
    <2>1. pool' = pool /\ up' = up
      BY DEF DuePayment
    <2>2. ASSUME NEW tx \in pool
          PROVE  ~Known(tx.dep)' /\ \A q \in late' : q.memo # tx.dep
      BY <1>3, <2>2 DEF OnceInv, PoolInv, DuePayment
    <2> QED BY <1>1, <1>3, <1>4, <2>1, <2>2 DEF OnceInv, PoolInv, Mintable
  <1>8. ReceiptInv'
    <2>1. ASSUME NEW r \in receipts', r \notin receipts
          PROVE  IF r.kind = "fee" THEN Shown(r.memo) /\ Amount[r.memo] > DepositFee
                                   ELSE ~IsMinted(r.memo)
      <3>1. r.kind = p.kind /\ r.memo = p.memo /\ ~Known(p.memo)
        BY <1>2, <2>1 DEF Receipt
      <3> QED BY <3>1 DEF DuePayment, FeeDue
    <2>2. ASSUME NEW r \in receipts', NEW s \in receipts', r.memo = s.memo PROVE r = s
      <3>1. CASE receipts' = receipts
        BY <2>2, <3>1 DEF OnceInv, ReceiptInv
      <3>2. CASE ~Known(p.memo) /\ receipts' = receipts \cup {Receipt(p)}
        <4>1. Receipt(p).memo = p.memo /\ \A t \in receipts : t.memo # p.memo
          BY <3>2 DEF Receipt, Known, Vault!Known
        <4> QED BY <2>2, <3>2, <4>1 DEF OnceInv, ReceiptInv
      <3> QED BY <1>2, <3>1, <3>2
    <2> QED BY <1>1, <2>1, <2>2 DEF OnceInv, ReceiptInv
  <1>9. \A d : FeeDue(d) => FeeDue(d)'
    BY <1>1, <1>3 DEF FeeDue
  <1> QED BY <1>1, <1>3, <1>5, <1>6, <1>7, <1>8, <1>9

\* The late payments after a payment of the handler's own deposit.
LEMMA OwnPayment ==
    ASSUME OnceInv, TypeInv', up, pc \in {"refund", "fee"},
           NEW p, DuePayment(p), p.memo = Current, HandlerInv', PassedInv',
           \/ late' = late /\ cursor' = cursor + 1
           \/ cursor' = cursor /\ pc' \in {"refund", "fee", "save"}
    PROVE  OnceInv'
  <1>1. MintInv' /\ PoolInv' /\ ReceiptInv'
    BY PaymentStep
  <1>2. /\ \A d : Known(d) => Known(d)'
        /\ \A d : IsMinted(d)' = IsMinted(d) /\ (FeeDue(d) => FeeDue(d)')
    BY PaymentStep
  <1>3. cursor \in Nat /\ \A q \in late : q.memo \in Nat
    BY SolanaDepositsAssumption
       DEF OnceInv, TypeInv, TypeOK, Vault!TypeOK, Vault!Payments, Deposits
  <1>4. LateInv'
    <2>1. ASSUME NEW q \in late'
          PROVE  /\ IF q.kind = "fee" THEN FeeDue(q.memo)' ELSE ~IsMinted(q.memo)'
                 /\ q.memo <= Current
      <3>1. CASE q \in late
        BY <1>2, <3>1 DEF OnceInv, LateInv
      <3>2. CASE q = p
        BY <1>2, <1>3, <3>2 DEF DuePayment, Current
      <3> QED BY <2>1, <3>1, <3>2 DEF DuePayment
    <2>2. CASE cursor' = cursor + 1
      BY <1>3, <2>1, <2>2 DEF LateInv, Current
    <2>3. CASE cursor' = cursor /\ pc' \in {"refund", "fee", "save"}
      BY <2>1, <2>3 DEF LateInv, Current
    <2> QED BY <2>2, <2>3
  <1> QED BY <1>1, <1>4 DEF OnceInv

\* Everything minted so far has its receipt when the handler is at a deposit
\* that may be minted and has none.
LEMMA AllKnown ==
    ASSUME OnceInv, Current \in Deposits, Mintable(Current),
           ~Known(Current), ~IsMinted(Current)
    PROVE  /\ Cleared(Current)
           /\ \A d \in Deposits : IsMinted(d) => Known(d)
  <1>1. cursor \in Nat
    BY DEF OnceInv, TypeInv, TypeOK
  <1>2. ASSUME NEW d \in Deposits, d < Current, Mintable(d) PROVE Known(d)
    <2>1. d <= cursor
      BY <1>1, <1>2 DEF Current, Deposits
    <2> QED BY <1>2, <2>1 DEF OnceInv, PassedInv, Passed
  <1>3. ASSUME NEW d \in Deposits, IsMinted(d) PROVE Known(d)
    <2>1. Mintable(d) /\ Cleared(d) /\ d # Current
      BY <1>3 DEF OnceInv, MintInv
    <2>2. ~(Current < d)
      BY <2>1 DEF Cleared
    <2> QED BY <1>1, <1>2, <2>1, <2>2 DEF Current, Deposits
  <1> QED BY <1>2, <1>3 DEF Cleared

\* One more transaction of the token.
LEMMA Appended ==
    ASSUME TypeOK, NEW e \in TokenTxs, tokenTxs' = Append(tokenTxs, e)
    PROVE  /\ DOMAIN tokenTxs' = DOMAIN tokenTxs \cup {Len(tokenTxs) + 1}
           /\ \A i \in DOMAIN tokenTxs : tokenTxs'[i] = tokenTxs[i] /\ i \in Nat
                                         /\ i < Len(tokenTxs) + 1
           /\ tokenTxs'[Len(tokenTxs) + 1] = e
           /\ \A d : IsMinted(d)' <=> IsMinted(d) \/ MintOf(d) = e
           /\ \A d : Shown(d)' <=> Shown(d) \/ d = e.memo
  <1>1. /\ DOMAIN tokenTxs' = DOMAIN tokenTxs \cup {Len(tokenTxs) + 1}
        /\ \A i \in DOMAIN tokenTxs : tokenTxs'[i] = tokenTxs[i] /\ i \in Nat
                                      /\ i < Len(tokenTxs) + 1
        /\ tokenTxs'[Len(tokenTxs) + 1] = e
    BY DEF TypeOK
  <1> QED BY <1>1 DEF IsMinted, Shown

\* The steps of the handler that leave the two networks alone.
LEMMA LookupSteps ==
    ASSUME OnceInv, TypeInv', Careful,
           \/ \E read \in Reads : Receive(read)
           \/ MintKnown \/ MintUnknown \/ MemoKnown \/ InvalidReceiver \/ AskOnline
           \/ \E p \in waiting : OnlineAnswer(p) \/ SignAnswer(p) \/ NoAnswer(p)
           \/ OnlineDone \/ SignDone \/ MintFails
           \/ MintConfirmed \/ MintSubmitFails \/ MintWaited \/ SaveCursor
    PROVE  OnceInv'
  <1> USE SolanaDepositsAssumption
  <1>0. /\ TypeInv /\ HandlerInv /\ PassedInv /\ MintInv
        /\ cursor \in Nat /\ savedCursor \in Nat
    BY DEF OnceInv, TypeInv, TypeOK
  <1>1. ASSUME UNCHANGED <<receipts, tokenTxs>>
        PROVE  /\ \A d : IsMinted(d)' = IsMinted(d) /\ Known(d)' = Known(d)
               /\ \A d : Mintable(d)' = Mintable(d) /\ Passed(d)' = Passed(d)
               /\ \A d : FeeDue(d)' = FeeDue(d)
    BY <1>1 DEF IsMinted, Shown, Known, Vault!Known, FeeDue, Mintable, Passed
  \* The deposit the handler returns from has been dealt with.
  <1>2. ASSUME UNCHANGED <<receipts, tokenTxs>>, cursor' = cursor + 1,
               savedCursor' \in {savedCursor, cursor + 1}, Passed(Current)
        PROVE  PassedInv'
    <2>1. ASSUME NEW d \in Deposits, d <= cursor' \/ d <= savedCursor' PROVE Passed(d)
      <3>1. d = Current \/ d <= cursor \/ d <= savedCursor
        BY <1>0, <1>2, <2>1 DEF Current, Deposits
      <3> QED BY <1>0, <1>2, <2>1, <3>1 DEF PassedInv
    <2> QED BY <1>1, <1>2, <2>1 DEF PassedInv
  <1>3. ASSUME UNCHANGED <<receipts, tokenTxs, cursor, savedCursor>> PROVE PassedInv'
    BY <1>0, <1>1, <1>3 DEF PassedInv
  <1> USE DEF vault, solana, process, round, Goto
  <1>4. ASSUME NEW read \in Reads, Receive(read) PROVE OnceInv'
    <2>1. /\ UNCHANGED <<receipts, late, tokenTxs, pool, up, savedCursor, confirmed>>
          /\ pc = "poll" /\ Current <= arrived /\ read
      BY <1>4 DEF Receive, Careful
    <2>2. Current \in Deposits /\ Amount[Current] \in Nat
      BY <1>0, <2>1 DEF TypeInv, TypeOK, Current, Deposits
    <2> DEFINE mints == Amount[Current] > DepositFee /\ Current \in ValidMemo
    <2>3. \/ Amount[Current] <= WithdrawFee /\ ~mints /\ cursor' = cursor + 1 /\ pc' = "poll"
          \/ ~mints /\ pc' = "refund" /\ cursor' = cursor
          \/ mints /\ pc' = "mint" /\ cursor' = cursor
      BY <1>4, <2>1 DEF Receive, Return, Current
    <2>4. ~confirmed
      BY <1>0, <2>1 DEF TypeInv
    <2>5. PassedInv'
      BY <1>2, <1>3, <2>1, <2>2, <2>3 DEF Passed, Mintable
    <2>6. ~mints => ~Mintable(Current) /\ ~IsMinted(Current)
      BY <1>0, <2>2 DEF MintInv, Mintable
    <2>7. HandlerInv'
      BY <1>1, <2>1, <2>3, <2>4, <2>6 DEF HandlerInv, Current
    <2> QED BY <2>1, <2>3, <2>5, <2>7, LocalStep
  <1>5. CASE MintKnown
    <2>1. UNCHANGED <<receipts, late, tokenTxs, pool, up, savedCursor, confirmed, cursor>>
          /\ pc = "mint" /\ pc' = "fee"
      BY <1>5 DEF MintKnown
    <2>2. FeeDue(Current) /\ ~confirmed
      <3>1. Shown(Current)
        BY <1>5 DEF MintKnown, IsMintTxID, Listed, Shown
      <3> QED BY <1>0, <2>1, <3>1 DEF FeeDue, HandlerInv, TypeInv
    <2>3. HandlerInv'
      BY <1>0, <1>1, <2>1, <2>2 DEF HandlerInv, Current
    <2> QED BY <1>3, <2>1, <2>3, LocalStep
  <1>6. CASE MintUnknown
    <2>1. UNCHANGED <<receipts, late, tokenTxs, pool, up, savedCursor, confirmed, cursor>>
          /\ pc = "mint" /\ pc' = "memo"
      BY <1>6 DEF MintUnknown
    <2>2. Current \in Deposits
      BY <1>0, <2>1 DEF TypeInv, TypeOK, Current, Deposits
    <2>3. IsMinted(Current) => Known(Current)
      BY <1>0, <1>6, <2>2, PageShows DEF MintUnknown, MintInv
    <2>4. ~confirmed
      BY <1>0, <2>1 DEF TypeInv
    <2>5. HandlerInv'
      BY <1>0, <1>1, <2>1, <2>3, <2>4 DEF HandlerInv, Current
    <2> QED BY <1>3, <2>1, <2>5, LocalStep
  <1>7. CASE MemoKnown
    <2>1. UNCHANGED <<receipts, late, tokenTxs, pool, up, savedCursor, confirmed, cursor>>
          /\ pc = "memo" /\ pc' = "fee" /\ Known(Current)
      BY <1>7 DEF MemoKnown
    <2>2. FeeDue(Current) /\ ~confirmed
      BY <1>0, <2>1 DEF FeeDue, HandlerInv, TypeInv
    <2>3. HandlerInv'
      BY <1>0, <1>1, <2>1, <2>2 DEF HandlerInv, Current
    <2> QED BY <1>3, <2>1, <2>3, LocalStep
  <1>8. CASE InvalidReceiver
    <2>1. UNCHANGED <<receipts, late, tokenTxs, pool, up, savedCursor, confirmed>>
          /\ pc = "memo" /\ ~Known(Current) /\ FALSE \in Receiver[Current]
      BY <1>8 DEF InvalidReceiver
    <2>2. Current \in Deposits /\ Amount[Current] \in Nat /\ ~confirmed
      BY <1>0, <2>1 DEF TypeInv, TypeOK, Current, Deposits
    <2>3. ~IsMinted(Current)
      BY <1>0, <2>1 DEF HandlerInv
    <2>4. CASE Amount[Current] > WithdrawFee
      <3>1. pc' = "refund" /\ cursor' = cursor
        BY <1>8, <2>4 DEF InvalidReceiver
      <3>2. HandlerInv'
        BY <1>1, <2>1, <2>2, <2>3, <3>1 DEF HandlerInv, Current
      <3> QED BY <1>3, <2>1, <3>1, <3>2, LocalStep
    <2>5. CASE ~(Amount[Current] > WithdrawFee)
      <3>1. pc' = "poll" /\ cursor' = cursor + 1
        BY <1>8, <2>5 DEF InvalidReceiver, Return, Current
      <3>2. Passed(Current)
        <4>1. Mintable(Current) => Amount[Current] > WithdrawFee
          BY <2>1, <2>2 DEF Careful
        <4>2. ~Mintable(Current)
          BY <2>5, <4>1
        <4>3. Amount[Current] <= WithdrawFee
          BY <2>2, <2>5
        <4> QED BY <4>2, <4>3 DEF Passed
      <3>3. HandlerInv'
        BY <2>1, <2>2, <3>1 DEF HandlerInv
      <3> QED BY <1>2, <2>1, <3>1, <3>2, <3>3, LocalStep
    <2> QED BY <2>4, <2>5
  <1>9. CASE AskOnline
    <2>1. UNCHANGED <<receipts, late, tokenTxs, pool, up, savedCursor, confirmed, cursor>>
          /\ pc = "memo" /\ pc' = "online" /\ ~Known(Current) /\ TRUE \in Receiver[Current]
      BY <1>9 DEF AskOnline
    <2>2. Mintable(Current) /\ ~IsMinted(Current) /\ ~confirmed
      BY <1>0, <2>1 DEF HandlerInv, Mintable, TypeInv
    <2>3. HandlerInv'
      BY <1>0, <1>1, <2>1, <2>2 DEF HandlerInv, Current
    <2> QED BY <1>3, <2>1, <2>3, LocalStep
  <1>10. CASE \/ \E p \in waiting : OnlineAnswer(p) \/ SignAnswer(p) \/ NoAnswer(p)
              \/ OnlineDone \/ SignDone
    <2>1. UNCHANGED <<receipts, late, tokenTxs, pool, up, savedCursor, confirmed, cursor>>
          /\ pc \in {"online", "sign"} /\ pc' \in {"online", "sign", "submit"}
      BY <1>10 DEF OnlineAnswer, SignAnswer, NoAnswer, Answers, OnlineDone, SignDone
    <2>2. HandlerInv'
      BY <1>0, <1>1, <2>1 DEF HandlerInv, Current
    <2> QED BY <1>3, <2>1, <2>2, LocalStep
  <1>11. CASE MintFails \/ MintSubmitFails \/ MintWaited
    <2>1. UNCHANGED <<receipts, late, tokenTxs, pool, up, savedCursor, cursor>>
          /\ pc \in {"memo", "online", "sign", "submit", "sent", "wait"}
          /\ (confirmed' => confirmed)
          /\ pc' \in {"mint", "wait"}
      BY <1>11 DEF MintFails, MintSubmitFails, MintWaited
    <2>2. HandlerInv'
      BY <1>0, <1>1, <2>1 DEF HandlerInv, Current
    <2> QED BY <1>3, <2>1, <2>2, LocalStep
  <1>12. CASE MintConfirmed
    <2>1. UNCHANGED <<receipts, late, tokenTxs, pool, up, savedCursor, cursor>>
          /\ pc = "sent" /\ pc' = "fee" /\ ~confirmed' /\ IsMinted(Current)
      BY <1>0, <1>12 DEF MintConfirmed, HandlerInv
    <2>2. FeeDue(Current)
      BY <1>0, <2>1 DEF FeeDue, HandlerInv, IsMinted, Shown, MintOf
    <2>3. HandlerInv'
      BY <1>0, <1>1, <2>1, <2>2 DEF HandlerInv, Current
    <2> QED BY <1>3, <2>1, <2>3, LocalStep
  <1>13. CASE SaveCursor
    <2>1. UNCHANGED <<receipts, late, tokenTxs, pool, up, confirmed>>
          /\ pc = "save" /\ pc' = "poll" /\ cursor' = cursor + 1
          /\ savedCursor' \in {savedCursor, cursor + 1}
      BY <1>13 DEF SaveCursor, Return, Current
    <2>2. Passed(Current) /\ ~confirmed
      BY <1>0, <2>1 DEF HandlerInv, Passed, TypeInv
    <2>3. HandlerInv'
      BY <2>1, <2>2 DEF HandlerInv
    <2> QED BY <1>2, <2>1, <2>2, <2>3, LocalStep
  <1> QED
    BY <1>4, <1>5, <1>6, <1>7, <1>8, <1>9, <1>10, <1>11, <1>12, <1>13

\* The handler's two payments.
LEMMA PaymentSteps ==
    ASSUME OnceInv, TypeInv', Careful, RefundDone \/ FeeDone \/ PaymentRetried
    PROVE  OnceInv'
  <1> USE SolanaDepositsAssumption
  <1>0. /\ TypeInv /\ HandlerInv /\ PassedInv /\ cursor \in Nat /\ savedCursor \in Nat
        /\ pc \in {"refund", "fee"}
    <2>1. TypeInv /\ HandlerInv /\ PassedInv
      BY DEF OnceInv
    <2>2. cursor \in Nat /\ savedCursor \in Nat
      BY <2>1 DEF TypeInv, TypeOK
    <2>3. pc \in {"refund", "fee"}
      BY DEF RefundDone, FeeDone, PaymentRetried
    <2> QED BY <2>1, <2>2, <2>3
  <1>1. PICK e \in Deposits : e = Current
    BY <1>0 DEF TypeInv, TypeOK, Current, Deposits
  <1>2. up /\ ~confirmed
    BY <1>0 DEF TypeInv, TypeOK
  <1>3. PICK p \in Vault!Payments :
            /\ p.memo = e
            /\ pc = "fee" => p = FeeOf(Current) /\ p.kind = "fee"
            /\ pc = "refund" => p = RefundOf(Current) /\ p.kind = "refund"
    <2>1. FeeOf(e) \in Vault!Payments /\ RefundOf(e) \in Vault!Payments
          /\ FeeOf(e).memo = e /\ RefundOf(e).memo = e
          /\ FeeOf(e).kind = "fee" /\ RefundOf(e).kind = "refund"
      BY DEF FeeOf, RefundOf, Vault!Payments
    <2>2. CASE pc = "fee"
      BY <1>1, <2>1, <2>2
    <2>3. CASE pc = "refund"
      BY <1>1, <2>1, <2>3
    <2> QED BY <1>0, <2>2, <2>3
  <1>4. DuePayment(p)
    <2>1. pool = {}
      BY <1>0, <1>2 DEF OnceInv, PoolInv, TypeInv
    <2>2. IF p.kind = "fee" THEN FeeDue(p.memo) ELSE ~IsMinted(p.memo)
      BY <1>0, <1>1, <1>3 DEF HandlerInv
    <2>3. /\ UNCHANGED <<tokenTxs, pool, up>> /\ late' \subseteq late \cup {p}
          /\ Vault!Executes(p) \/ UNCHANGED receipts
      BY <1>0, <1>3
         DEF RefundDone, FeeDone, PaymentRetried, Vault!Returns, Vault!Fails, vault, solana,
             process
    <2> QED BY <1>3, <2>1, <2>2, <2>3 DEF DuePayment
  <1>5. /\ \A d : Known(d) => Known(d)'
        /\ \A d : IsMinted(d)' = IsMinted(d) /\ (FeeDue(d) => FeeDue(d)')
        /\ \A d : Passed(d) => Passed(d)'
        /\ Vault!Executes(p) => Known(e)'
    BY <1>3, <1>4, PaymentStep
  <1>6. CASE RefundDone
    <2>1. /\ pc = "refund" /\ pc' = "poll" /\ cursor' = cursor + 1 /\ late' = late
          /\ savedCursor' = savedCursor /\ ~confirmed'
      BY <1>2, <1>6 DEF RefundDone, Return, Current, Vault!Returns, process, solana
    <2>2. Known(e)' \/ e \in Unreachable
      <3>1. Known(e) \/ Vault!Executes(p) \/ e \in Unreachable
        BY <1>1, <1>3, <1>6, <2>1 DEF RefundDone, Vault!Returns, Known
      <3> QED BY <1>5, <3>1
    <2>3. Passed(e)'
      <3>1. Mintable(e) => e \notin Unreachable
        BY <1>0, <1>1, <2>1 DEF HandlerInv, Careful
      <3> QED BY <2>2, <3>1 DEF Passed, Mintable
    <2>4. PassedInv'
      <3>1. ASSUME NEW d \in Deposits, d <= cursor' \/ d <= savedCursor' PROVE Passed(d)'
        <4>1. d = e \/ d <= cursor \/ d <= savedCursor
          BY <1>0, <1>1, <2>1, <3>1 DEF Current, Deposits
        <4>2. CASE d = e
          BY <2>3, <4>2
        <4>3. CASE d <= cursor \/ d <= savedCursor
          BY <1>0, <1>5, <4>3 DEF PassedInv
        <4> QED BY <4>1, <4>2, <4>3
      <3> QED BY <3>1 DEF PassedInv
    <2>5. HandlerInv'
      BY <2>1 DEF HandlerInv
    <2> QED BY <1>0, <1>1, <1>2, <1>3, <1>4, <2>1, <2>4, <2>5, OwnPayment
  <1>7. ASSUME UNCHANGED <<cursor, savedCursor>> PROVE PassedInv'
    BY <1>0, <1>5, <1>7 DEF PassedInv
  <1>8. CASE FeeDone
    <2>1. /\ pc = "fee" /\ pc' = "save" /\ UNCHANGED <<cursor, savedCursor, confirmed>>
      BY <1>8 DEF FeeDone, Goto, process, solana
    <2>2. Known(e)'
      <3>1. Known(e) \/ Vault!Executes(p)
        BY <1>1, <1>3, <1>8, <2>1 DEF FeeDone, Vault!Returns, Known
      <3> QED BY <1>5, <3>1
    <2>3. HandlerInv'
      BY <1>1, <1>2, <2>1, <2>2 DEF HandlerInv, Current
    <2> QED BY <1>0, <1>1, <1>2, <1>3, <1>4, <1>7, <2>1, <2>3, OwnPayment
  <1>9. CASE PaymentRetried
    <2>1. UNCHANGED <<pc, cursor, savedCursor, confirmed>>
      BY <1>9 DEF PaymentRetried, process, solana
    <2>2. HandlerInv'
      BY <1>0, <1>2, <1>5, <2>1 DEF HandlerInv, Current, Mintable
    <2> QED BY <1>0, <1>1, <1>2, <1>3, <1>4, <1>7, <2>1, <2>2, OwnPayment
  <1> QED BY <1>6, <1>8, <1>9

\* The mint the handler submits becomes the only pending one.
LEMMA SubmitStep ==
    ASSUME OnceInv, TypeInv', MintSubmit
    PROVE  OnceInv'
  <1> USE SolanaDepositsAssumption
  <1>0. /\ TypeInv /\ HandlerInv /\ PassedInv
        /\ UNCHANGED <<receipts, late, tokenTxs, confirmed, savedCursor, up, cursor>>
        /\ pc = "submit" /\ pc' = "sent"
    BY DEF OnceInv, MintSubmit, Goto, vault, process
  <1>1. PICK e \in Deposits : e = Current
    BY <1>0 DEF TypeInv, TypeOK, Current, Deposits
  <1>2. ~confirmed /\ pool = {}
    BY <1>0 DEF OnceInv, PoolInv, TypeInv, TypeOK
  <1>3. Mintable(e) /\ ~IsMinted(e) /\ ~Known(e)
    BY <1>0, <1>1 DEF HandlerInv
  <1>4. Cleared(e) /\ \A d \in Deposits : IsMinted(d) => Known(d)
    BY <1>1, <1>3, AllKnown
  <1>5. /\ \A d : IsMinted(d)' = IsMinted(d) /\ LastMint(d)' = LastMint(d)
        /\ \A d : Known(d)' = Known(d) /\ Cleared(d)' = Cleared(d) /\ Passed(d)' = Passed(d)
        /\ \A d : Shown(d)' = Shown(d) /\ FeeDue(d)' = FeeDue(d)
        /\ Trailing' = Trailing
    BY <1>0
       DEF IsMinted, Shown, LastMint, Known, Vault!Known, FeeDue, Cleared, Passed, Mintable,
           Trailing
  <1>6. MintInv' /\ ReceiptInv'
    BY <1>0, <1>5 DEF OnceInv, MintInv, ReceiptInv, Mintable
  <1>7. PoolInv'
    <2>1. \A tx \in pool' : tx = [dep |-> e, own |-> TRUE]
      BY <1>1, <1>2 DEF MintSubmit
    <2>2. ASSUME NEW p \in late PROVE p.memo # e
      BY <1>0, <1>1, <2>2 DEF OnceInv, LateInv, TypeInv, TypeOK
    <2>3. \A tx \in pool' : tx.dep = e /\ tx.own
      BY <2>1
    <2> QED BY <1>0, <1>3, <1>4, <1>5, <2>1, <2>2, <2>3 DEF PoolInv, Mintable
  <1>8. LateInv'
    <2>1. ASSUME NEW p \in late PROVE p.memo # Current
      BY <1>0, <2>1 DEF OnceInv, LateInv, TypeInv, TypeOK
    <2> QED BY <1>0, <1>5, <2>1 DEF OnceInv, LateInv, Current
  <1>9. HandlerInv'
    BY <1>0, <1>2 DEF HandlerInv, Current
  <1>10. PassedInv'
    BY <1>0, <1>5 DEF PassedInv
  <1> QED BY <1>6, <1>7, <1>8, <1>9, <1>10 DEF OnceInv

\* The pending mint is finalized: it becomes the last mint, and the handler is
\* still waiting for it unless the process has stopped.
LEMMA FinalizeStep ==
    ASSUME OnceInv, TypeInv', NEW tx \in pool, Finalize(tx)
    PROVE  OnceInv'
  <1> USE SolanaDepositsAssumption
  <1>0. /\ TypeInv /\ TypeOK /\ MintInv /\ PoolInv
        /\ UNCHANGED <<receipts, late, savedCursor, up, cursor, pc>>
        /\ tokenTxs' = Append(tokenTxs, MintOf(tx.dep)) /\ pool' = pool \ {tx}
        /\ (confirmed' => confirmed \/ tx.own)
    BY DEF OnceInv, TypeInv, Finalize, vault, process
  <1>1. PICK e \in Deposits : e = tx.dep
    BY <1>0 DEF TypeOK, MintTxs
  <1>2. /\ Mintable(e) /\ Cleared(e) /\ ~IsMinted(e) /\ ~Known(e)
        /\ \A p \in late : p.memo # e
        /\ \A d \in Deposits : IsMinted(d) => Known(d)
        /\ pool' = {}
    BY <1>0, <1>1 DEF PoolInv
  <1> DEFINE last == Len(tokenTxs) + 1
  <1>3. /\ DOMAIN tokenTxs' = DOMAIN tokenTxs \cup {last} /\ tokenTxs'[last] = MintOf(e)
        /\ \A i \in DOMAIN tokenTxs : tokenTxs'[i] = tokenTxs[i] /\ i \in Nat /\ i < last
        /\ \A d : IsMinted(d)' <=> IsMinted(d) \/ d = e
        /\ \A d : Shown(d) => Shown(d)'
    <2>1. MintOf(e) \in TokenTxs /\ \A d : MintOf(d) = MintOf(e) <=> d = e
      BY DEF MintOf, TokenTxs
    <2>2. tokenTxs' = Append(tokenTxs, MintOf(e))
      BY <1>0, <1>1
    <2> QED BY <1>0, <2>1, <2>2, Appended
  <1>4. /\ \A d : Known(d)' = Known(d) /\ Cleared(d)' = Cleared(d) /\ Passed(d)' = Passed(d)
    BY <1>0 DEF Known, Vault!Known, Cleared, Passed, Mintable
  <1>5. MintOf(e).mints
    BY DEF MintOf
  <1> HIDE DEF last
  <1>6. MintInv'
    <2>1. Cardinality(Trailing') <= MaxOthers
      <3>1. last \in Nat /\ Len(tokenTxs') = last
        BY <1>0 DEF TypeOK, last
      <3>2. \A i \in DOMAIN tokenTxs' : i \in Nat /\ last \in i..last
        BY <1>3, <3>1
      <3>3. Trailing' = {}
        BY <1>3, <1>5, <3>1, <3>2 DEF Trailing
      <3> QED BY <3>3, FS_EmptySet
    <2>2. \A i \in DOMAIN tokenTxs : tokenTxs[i] # MintOf(e)
      BY <1>2 DEF IsMinted
    <2>3. \A i, k \in DOMAIN tokenTxs' :
              tokenTxs'[i] = tokenTxs'[k] /\ tokenTxs'[i].mints => i = k
      BY <1>0, <1>3, <2>2 DEF MintInv
    <2>4. \A d \in Deposits : IsMinted(d)' => Mintable(d)' /\ Cleared(d)'
      BY <1>0, <1>2, <1>3, <1>4 DEF MintInv, Mintable
    <2>5. ASSUME NEW d \in Deposits, IsMinted(d)', ~Known(d)' PROVE LastMint(d)'
      <3>1. d = e
        BY <1>2, <1>3, <1>4, <2>5
      <3>2. \A k \in DOMAIN tokenTxs' : ~(k > last)
        <4>1. last \in Nat
          BY <1>0 DEF TypeOK, last
        <4> QED BY <1>3, <4>1
      <3> QED BY <1>3, <3>1, <3>2 DEF LastMint
    <2> QED BY <1>0, <2>1, <2>3, <2>4, <2>5 DEF MintInv
  <1>7. PoolInv'
    BY <1>2 DEF PoolInv
  <1>8. ReceiptInv'
    <2>1. ASSUME NEW r \in receipts PROVE r.memo # e /\ r.memo \in Deposits
      <3>1. ~(r.memo = e)
        BY <1>2 DEF Known, Vault!Known
      <3>2. r \in Vault!Vault!Receipts
        BY <1>0 DEF TypeOK, Vault!TypeOK
      <3> QED BY <3>1, <3>2 DEF Vault!Vault!Receipts
    <2> QED BY <1>0, <1>3, <2>1 DEF OnceInv, ReceiptInv
  <1>9. LateInv'
    <2>1. ASSUME NEW p \in late PROVE p.memo # e /\ p.memo \in Deposits
      <3>1. p \in Vault!Payments
        BY <1>0 DEF TypeOK, Vault!TypeOK
      <3> QED BY <1>2, <3>1 DEF Vault!Payments
    <2> QED BY <1>0, <1>3, <1>4, <2>1 DEF OnceInv, LateInv, FeeDue, Current
  <1>10. HandlerInv'
    <2>1. tx.own => up /\ e = Current /\ pc \in {"sent", "wait"}
      BY <1>0, <1>1 DEF TypeInv
    <2>2. pc # "poll" => up /\ Current \in Deposits
      BY <1>0 DEF TypeOK, Current, Deposits
    <2>3. up => tx.own
      BY <1>0 DEF PoolInv
    <2>4. confirmed' => pc \in {"sent", "wait"} /\ up
      BY <1>0, <2>1, <2>2 DEF TypeInv
    <2>5. confirmed' => IsMinted(Current)'
      BY <1>0, <1>3, <2>1, <2>2, <2>3, <2>4 DEF Current
    <2>6. pc \in {"poll", "sent", "wait"}
      BY <1>0, <2>1, <2>2, <2>3 DEF TypeOK
    <2> QED BY <1>0, <2>5, <2>6 DEF OnceInv, HandlerInv, Current
  <1>11. PassedInv'
    BY <1>0, <1>4 DEF OnceInv, PassedInv
  <1> QED BY <1>6, <1>7, <1>8, <1>9, <1>10, <1>11 DEF OnceInv

\* A foreign transaction moves the page on by one.
LEMMA OtherStep ==
    ASSUME OnceInv, TypeInv', NEW m \in Reused \cup {Other}, OtherTx(m)
    PROVE  OnceInv'
  <1> USE SolanaDepositsAssumption
  <1>0. /\ TypeInv /\ TypeOK /\ MintInv
        /\ UNCHANGED <<receipts, late, pool, confirmed, savedCursor, up, cursor, pc>>
        /\ tokenTxs' = Append(tokenTxs, OthersWith(m))
        /\ Cardinality(Trailing) < MaxOthers
    BY DEF OnceInv, TypeInv, OtherTx, Trailing, vault, process
  <1> DEFINE last == Len(tokenTxs) + 1
  <1>1. /\ DOMAIN tokenTxs' = DOMAIN tokenTxs \cup {last} /\ ~tokenTxs'[last].mints
        /\ \A i \in DOMAIN tokenTxs : tokenTxs'[i] = tokenTxs[i] /\ i \in Nat /\ i < last
        /\ \A d : IsMinted(d)' <=> IsMinted(d)
        /\ \A d : Shown(d) => Shown(d)'
    <2>1. OthersWith(m) \in TokenTxs /\ ~OthersWith(m).mints
          /\ \A d : MintOf(d) # OthersWith(m)
      BY DEF OthersWith, MintOf, TokenTxs
    <2> QED BY <1>0, <2>1, Appended
  <1>2. \A d \in Deposits : IsMinted(d)' <=> IsMinted(d)
    BY <1>1
  <1>3. /\ \A d : Known(d)' = Known(d) /\ Cleared(d)' = Cleared(d) /\ Passed(d)' = Passed(d)
        /\ \A d : FeeDue(d) => FeeDue(d)'
    BY <1>0, <1>1 DEF Known, Vault!Known, Cleared, Passed, Mintable, FeeDue
  <1>4. Cardinality(Trailing') <= MaxOthers
    <2>1. DOMAIN tokenTxs = 1..Len(tokenTxs) /\ Len(tokenTxs) \in Nat
      BY <1>0 DEF TypeOK
    <2>2. IsFiniteSet(Trailing)
      <3>1. Trailing \in SUBSET (1..Len(tokenTxs)) /\ IsFiniteSet(1..Len(tokenTxs))
        BY <2>1, FS_Interval DEF Trailing
      <3> QED BY <3>1, FS_Subset
    <2>3. Trailing' = Trailing \cup {last}
      <3>1. last \in Nat /\ Len(tokenTxs') = last /\ \A k \in 1..Len(tokenTxs) : k \in DOMAIN tokenTxs
        BY <1>0, <2>1
      <3>2. \A i \in DOMAIN tokenTxs : i..last = (i..Len(tokenTxs)) \cup {last}
        BY <2>1
      <3>3. \A i \in DOMAIN tokenTxs : \A k \in i..Len(tokenTxs) : tokenTxs'[k] = tokenTxs[k]
        BY <1>1, <2>1
      <3>4. \A i \in DOMAIN tokenTxs : i \in Trailing' <=> i \in Trailing
        BY <1>1, <3>1, <3>2, <3>3 DEF Trailing
      <3>5. last \in Trailing'
        BY <1>1, <3>1 DEF Trailing
      <3> QED BY <1>1, <3>4, <3>5 DEF Trailing
    <2>4. last \notin Trailing
      BY <1>1 DEF Trailing
    <2>5. Cardinality(Trailing') = Cardinality(Trailing) + 1 /\ Cardinality(Trailing) \in Nat
      BY <2>2, <2>3, <2>4, FS_AddElement, FS_CardinalityType
    <2> QED BY <1>0, <2>5
  <1> HIDE DEF last
  <1>5. MintInv'
    <2>1. \A i, k \in DOMAIN tokenTxs' :
              tokenTxs'[i] = tokenTxs'[k] /\ tokenTxs'[i].mints => i = k
      BY <1>0, <1>1 DEF MintInv
    <2>2. ASSUME NEW d \in Deposits, IsMinted(d)', ~Known(d)' PROVE LastMint(d)'
      <3>1. PICK i \in DOMAIN tokenTxs : tokenTxs[i] = MintOf(d)
                /\ \A k \in DOMAIN tokenTxs : k > i => ~tokenTxs[k].mints
        BY <1>0, <1>2, <1>3, <2>2 DEF MintInv, LastMint
      <3>2. \A k \in DOMAIN tokenTxs' : k > i => ~tokenTxs'[k].mints
        BY <1>1, <3>1
      <3> QED BY <1>1, <3>1, <3>2 DEF LastMint
    <2>3. \A d \in Deposits : IsMinted(d)' => Mintable(d)' /\ Cleared(d)'
      BY <1>0, <1>2, <1>3 DEF MintInv, Mintable
    <2> QED BY <1>4, <2>1, <2>2, <2>3 DEF MintInv
  <1>6. PoolInv'
    <2>1. \A tx \in pool : tx.dep \in Deposits
      BY <1>0 DEF TypeOK, MintTxs
    <2> QED BY <1>0, <1>2, <1>3, <2>1 DEF OnceInv, PoolInv, Mintable
  <1>7. ReceiptInv'
    <2>1. \A r \in receipts : r.memo \in Deposits
      BY <1>0 DEF TypeOK, Vault!TypeOK, Vault!Vault!Receipts
    <2> QED BY <1>0, <1>1, <2>1 DEF OnceInv, ReceiptInv
  <1>8. LateInv'
    <2>1. \A p \in late : p.memo \in Deposits
      BY <1>0 DEF TypeOK, Vault!TypeOK, Vault!Payments
    <2> QED BY <1>0, <1>2, <1>3, <2>1 DEF OnceInv, LateInv, Current
  <1>9. HandlerInv'
    <2>1. pc # "poll" => Current \in Deposits
      BY <1>0 DEF TypeOK, Current, Deposits
    <2>2. pc # "poll" => IsMinted(Current)' = IsMinted(Current) /\ Known(Current)' = Known(Current)
      BY <1>0, <1>2, <1>3, <2>1 DEF Current, IsMinted
    <2>3. confirmed => pc # "poll"
      BY <1>0 DEF TypeInv
    <2>4. HandlerInv /\ (FeeDue(Current) => FeeDue(Current)')
      BY <1>0, <1>3 DEF OnceInv, Current
    <2> QED BY <1>0, <2>2, <2>3, <2>4 DEF HandlerInv, Current, Mintable
  <1>10. PassedInv'
    BY <1>0, <1>3 DEF OnceInv, PassedInv
  <1> QED BY <1>5, <1>6, <1>7, <1>8, <1>9, <1>10 DEF OnceInv

\* A payment of an earlier life of the process, or of an earlier deposit.
LEMMA LateStep ==
    ASSUME OnceInv, TypeInv', NEW p \in late, LatePayment(p)
    PROVE  OnceInv'
  <1>0. /\ TypeInv /\ TypeOK /\ p \in Vault!Payments /\ late' = late \ {p}
        /\ Vault!Executes(p) \/ UNCHANGED receipts
        /\ UNCHANGED <<tokenTxs, pool, confirmed, savedCursor, up, cursor, pc>>
    BY DEF OnceInv, TypeInv, TypeOK, Vault!TypeOK, LatePayment, Vault!Decided, solana, process
  <1>1. IF p.kind = "fee" THEN FeeDue(p.memo) ELSE ~IsMinted(p.memo)
    BY DEF OnceInv, LateInv
  <1>2. DuePayment(p)
    BY <1>0, <1>1 DEF DuePayment, OnceInv, PoolInv
  <1>3. /\ MintInv' /\ PoolInv' /\ ReceiptInv'
        /\ \A d : Known(d) => Known(d)'
        /\ \A d : IsMinted(d)' = IsMinted(d) /\ (FeeDue(d) => FeeDue(d)')
        /\ \A d : Passed(d) => Passed(d)'
    BY <1>2, PaymentStep
  <1>4. LateInv'
    BY <1>0, <1>3 DEF OnceInv, LateInv, Current
  <1>5. HandlerInv'
    <2>1. pc \in {"online", "sign", "submit"} => ~Known(Current)'
      <3>1. up /\ p.memo = Current => pc \in {"refund", "fee", "save"}
        BY DEF OnceInv, LateInv
      <3>2. pc # "poll" => up
        BY <1>0 DEF TypeOK
      <3>3. \A d : Known(d)' => Known(d) \/ d = p.memo
        <4>1. receipts' \subseteq receipts \cup {Receipt(p)} /\ Receipt(p).memo = p.memo
          BY <1>0, VaultExecutes DEF Receipt
        <4> QED BY <4>1 DEF Known, Vault!Known
      <3> QED BY <1>0, <3>1, <3>2, <3>3 DEF OnceInv, HandlerInv, Current
    <2> QED BY <1>0, <1>3, <2>1 DEF OnceInv, HandlerInv, Current, Mintable
  <1>6. PassedInv'
    BY <1>0, <1>3 DEF OnceInv, PassedInv
  <1> QED BY <1>3, <1>4, <1>5, <1>6 DEF OnceInv

\* The steps that leave the vault and the history of the token alone and come
\* from outside of the handler.
LEMMA OutsideSteps ==
    ASSUME OnceInv, TypeInv', Careful,
           \/ \E tx \in pool : Expire(tx)
           \/ Deposit \/ Crash \/ UNCHANGED vars
           \/ \E rescan \in Rescans : Start(rescan)
    PROVE  OnceInv'
  <1> USE SolanaDepositsAssumption
  <1>0. /\ TypeInv /\ TypeOK /\ UNCHANGED <<receipts, late, tokenTxs>>
    BY DEF OnceInv, TypeInv, Expire, Deposit, Crash, Start, vars, vault, solana
  <1>1. /\ \A d : IsMinted(d)' = IsMinted(d) /\ LastMint(d)' = LastMint(d)
        /\ \A d : Known(d)' = Known(d) /\ Cleared(d)' = Cleared(d) /\ Passed(d)' = Passed(d)
        /\ \A d : Shown(d)' = Shown(d) /\ FeeDue(d)' = FeeDue(d)
        /\ Trailing' = Trailing
    BY <1>0
       DEF IsMinted, Shown, LastMint, Known, Vault!Known, FeeDue, Cleared, Passed, Mintable,
           Trailing
  <1>2. MintInv' /\ ReceiptInv'
    BY <1>0, <1>1 DEF OnceInv, MintInv, ReceiptInv, Mintable
  <1>3. CASE (\E tx \in pool : Expire(tx)) \/ Deposit \/ UNCHANGED vars
    <2>1. pool' \subseteq pool /\ UNCHANGED <<confirmed, savedCursor, up, cursor, pc>>
      BY <1>3 DEF Expire, Deposit, vars, solana, process
    <2>2. PoolInv'
      BY <1>0, <1>1, <2>1 DEF OnceInv, PoolInv, Mintable
    <2>3. LateInv' /\ HandlerInv'
      BY <1>0, <1>1, <2>1 DEF OnceInv, LateInv, HandlerInv, Current, Mintable
    <2>4. PassedInv'
      BY <1>1, <2>1 DEF OnceInv, PassedInv
    <2> QED BY <1>2, <2>2, <2>3, <2>4 DEF OnceInv
  <1>4. CASE Crash
    <2>1. /\ ~up' /\ pc' = "poll" /\ ~confirmed' /\ cursor' = 0 /\ savedCursor' = savedCursor
          /\ pool' = {[tx EXCEPT !.own = FALSE] : tx \in pool}
      BY <1>4 DEF Crash
    <2>2. ASSUME NEW tx \in pool' PROVE \E old \in pool : tx.dep = old.dep
      <3>1. PICK old \in pool : tx = [old EXCEPT !.own = FALSE]
        BY <2>1, <2>2
      <3>2. tx.dep = old.dep
        BY <1>0, <3>1 DEF TypeOK, MintTxs
      <3> QED BY <3>2
    <2>3. \A tx, other \in pool' : tx = other
      BY <2>1 DEF OnceInv, PoolInv
    <2>4. PoolInv'
      BY <1>0, <1>1, <2>1, <2>2, <2>3 DEF OnceInv, PoolInv, Mintable
    <2>5. LateInv'
      BY <1>0, <1>1, <2>1 DEF OnceInv, LateInv
    <2>6. HandlerInv'
      BY <2>1 DEF HandlerInv
    <2>7. PassedInv'
      BY <1>1, <2>1 DEF OnceInv, PassedInv, Deposits
    <2> QED BY <1>2, <2>4, <2>5, <2>6, <2>7 DEF OnceInv
  <1>5. ASSUME NEW rescan \in Rescans, Start(rescan) PROVE OnceInv'
    <2>1. /\ pool = {} /\ late = {} /\ pool' = {} /\ late' = {} /\ pc' = pc /\ ~up
          /\ confirmed' = confirmed
          /\ savedCursor' \in {0, savedCursor} /\ cursor' = savedCursor'
      BY <1>0, <1>5 DEF Start, Careful, solana
    <2>2. pc = "poll" /\ ~confirmed
      BY <1>0, <2>1 DEF TypeInv, TypeOK
    <2>3. HandlerInv'
      BY <2>1, <2>2 DEF HandlerInv
    <2>4. PassedInv'
      BY <1>1, <2>1 DEF OnceInv, PassedInv, Deposits
    <2> QED BY <1>2, <2>1, <2>3, <2>4 DEF OnceInv, PoolInv, LateInv
  <1> QED BY <1>3, <1>4, <1>5

LEMMA OnceStep ==
    ASSUME OnceInv, Careful, [Next]_vars
    PROVE  OnceInv'
  <1>1. TypeInv'
    BY TypeStep DEF OnceInv
  <1>2. CASE Handler
    <2>1. CASE \/ \E read \in Reads : Receive(read)
               \/ MintKnown \/ MintUnknown \/ MemoKnown \/ InvalidReceiver \/ AskOnline
               \/ \E p \in waiting : OnlineAnswer(p) \/ SignAnswer(p) \/ NoAnswer(p)
               \/ OnlineDone \/ SignDone \/ MintFails
               \/ MintConfirmed \/ MintSubmitFails \/ MintWaited \/ SaveCursor
      BY <1>1, <2>1, LookupSteps
    <2>2. CASE RefundDone \/ FeeDone \/ PaymentRetried
      BY <1>1, <2>2, PaymentSteps
    <2>3. CASE MintSubmit
      BY <1>1, <2>3, SubmitStep
    <2> QED BY <1>2, <2>1, <2>2, <2>3 DEF Handler
  <1>3. ASSUME NEW tx \in pool, Finalize(tx) PROVE OnceInv'
    BY <1>1, <1>3, FinalizeStep
  <1>4. ASSUME NEW m \in Reused \cup {Other}, OtherTx(m) PROVE OnceInv'
    BY <1>1, <1>4, OtherStep
  <1>5. ASSUME NEW p \in late, LatePayment(p) PROVE OnceInv'
    BY <1>1, <1>5, LateStep
  <1>6. CASE \/ \E tx \in pool : Expire(tx)
             \/ Deposit \/ Crash \/ UNCHANGED vars
             \/ \E rescan \in Rescans : Start(rescan)
    BY <1>1, <1>6, OutsideSteps
  <1> QED BY <1>2, <1>3, <1>4, <1>5, <1>6 DEF Next

LEMMA OnceInvariant ==
    ASSUME Careful
    PROVE  Spec => []OnceInv
  <1>1. OnceInv /\ [Next]_vars => OnceInv'
    BY OnceStep
  <1> QED BY <1>1, OnceInit, PTL DEF Spec

-----------------------------------------------------------------------------
(* What the invariant says about the properties.                           *)

\* The number of mints, once each deposit has one at most.
LEMMA MintsCounted ==
    ASSUME TypeOK, MintInv, NEW d \in Deposits
    PROVE  /\ Minted(d) <=> IsMinted(d)
           /\ Mints(d) = IF IsMinted(d) THEN 1 ELSE 0
  <1> DEFINE S == {i \in DOMAIN tokenTxs : tokenTxs[i] = MintOf(d)}
  <1>1. CASE IsMinted(d)
    <2>1. PICK i \in DOMAIN tokenTxs : tokenTxs[i] = MintOf(d)
      BY <1>1 DEF IsMinted
    <2>2. S = {i}
      <3>1. tokenTxs[i].mints
        BY <2>1 DEF MintOf
      <3>2. \A k \in S : k = i
        BY <2>1, <3>1 DEF MintInv
      <3> QED BY <2>1, <3>2
    <2>3. Cardinality(S) = 1
      BY <2>2, FS_Singleton
    <2> QED BY <1>1, <2>3 DEF Mints, Minted
  <1>2. CASE ~IsMinted(d)
    <2>1. S = {}
      BY <1>2 DEF IsMinted
    <2>2. Cardinality(S) = 0
      BY <2>1, FS_EmptySet
    <2> QED BY <1>2, <2>2 DEF Mints, Minted
  <1> QED BY <1>1, <1>2

LEMMA OnceSuffices ==
    ASSUME OnceInv
    PROVE  EachDepositBacked /\ PendingMintIsOnly /\ FeeOnlyIfMemoSeen /\ SavedMeansSettled
  <1> USE SolanaDepositsAssumption
  <1>0. TypeOK /\ MintInv
    BY DEF OnceInv, TypeInv
  <1>1. \A d \in Deposits : Minted(d) <=> IsMinted(d)
    BY <1>0, MintsCounted
  <1>2. ASSUME NEW d \in Deposits
        PROVE  /\ Charged(d) => Shown(d) /\ Amount[d] > DepositFee /\ ~Refunded(d)
               /\ Refunded(d) => ~IsMinted(d)
    <2>1. \A r, s \in receipts : r.memo = s.memo => r.kind = s.kind
      BY DEF OnceInv, ReceiptInv
    <2>2. Charged(d) => ~Refunded(d)
      BY <2>1 DEF Charged, Refunded
    <2> QED BY <2>2 DEF OnceInv, ReceiptInv, Charged, Refunded
  <1>7. \A d \in Deposits : Shown(d) => Minted(d) \/ MemoReused(d)
    <2>1. ASSUME NEW d \in Deposits, NEW i \in DOMAIN tokenTxs, tokenTxs[i].memo = d
          PROVE  tokenTxs[i] \in {MintOf(d), OthersWith(d)}
      <3>1. tokenTxs[i] \in TokenTxs
        BY <1>0 DEF TypeOK
      <3> QED BY <2>1, <3>1 DEF TokenTxs, MintOf, OthersWith
    <2> QED BY <1>1, <2>1 DEF Shown, IsMinted, MemoReused
  <1>3. EachDepositBacked
    <2> SUFFICES ASSUME NEW d \in Deposits
                 PROVE  Mints(d) * (Amount[d] - DepositFee)
                          + (IF Refunded(d) THEN Amount[d] ELSE 0)
                          + (IF Charged(d) THEN DepositFee ELSE 0) <= Amount[d]
      BY DEF EachDepositBacked
    <2>1. Amount[d] \in Nat /\ DepositFee \in Nat
      OBVIOUS
    <2>2. CASE IsMinted(d)
      <3>1. Mints(d) = 1 /\ ~Refunded(d)
        BY <1>0, <1>2, <2>2, MintsCounted
      <3>2. 1 * (Amount[d] - DepositFee) = Amount[d] - DepositFee
        BY <2>1
      <3> QED BY <2>1, <3>1, <3>2
    <2>3. CASE ~IsMinted(d)
      <3>1. Mints(d) = 0 /\ (Charged(d) => Amount[d] > DepositFee /\ ~Refunded(d))
        BY <1>0, <1>2, <2>3, MintsCounted
      <3>2. 0 * (Amount[d] - DepositFee) = 0
        BY <2>1
      <3> QED BY <2>1, <3>1, <3>2
    <2> QED BY <2>2, <2>3
  <1>4. PendingMintIsOnly
    <2>1. \A tx \in pool : tx.dep \in Deposits
      BY <1>0 DEF TypeOK, MintTxs
    <2> QED BY <1>1, <2>1 DEF OnceInv, PoolInv, PendingMintIsOnly
  <1>5. FeeOnlyIfMemoSeen
    BY <1>2, <1>7 DEF FeeOnlyIfMemoSeen
  <1>6. ASSUME NEW d \in 1..savedCursor PROVE Settled(d) \/ MemoReused(d)
    <2>1. d \in Deposits /\ d <= savedCursor
      BY <1>0 DEF TypeOK, Deposits
    <2>2. Known(d) => Minted(d) \/ Refunded(d) \/ MemoReused(d)
      <3>1. ASSUME NEW r \in receipts, r.memo = d
            PROVE  Minted(d) \/ Refunded(d) \/ MemoReused(d)
        <4>1. r.kind \in {"refund", "fee"}
          BY <1>0 DEF TypeOK, Vault!TypeOK, Vault!Vault!Receipts
        <4> QED BY <1>2, <1>7, <2>1, <3>1, <4>1 DEF Refunded, Charged
      <3> QED BY <3>1 DEF Known, Vault!Known
    <2> QED BY <2>1, <2>2 DEF OnceInv, PassedInv, Passed, Settled
  <1> QED BY <1>3, <1>4, <1>5, <1>6 DEF SavedMeansSettled

\* No deposit costs the bridge more than it brought: it is minted once at
\* most, over retries, late answers, crashes and rescans, although the page
\* of signatures forgets old mints and Solana would accept another.
THEOREM DepositsAreBacked ==
    ASSUME Careful
    PROVE  Spec => []EachDepositBacked
  <1>1. OnceInv => EachDepositBacked
    BY OnceSuffices
  <1> QED BY <1>1, OnceInvariant, PTL

\* A mint that can still be executed is of a deposit that is not settled, and
\* nothing else that would settle it is under way.
THEOREM PendingMintIsAlone ==
    ASSUME Careful
    PROVE  Spec => []PendingMintIsOnly
  <1>1. OnceInv => PendingMintIsOnly
    BY OnceSuffices
  <1> QED BY <1>1, OnceInvariant, PTL

\* A fee is taken only from a deposit that was minted, or whose hash somebody
\* else has put into a finalized transaction of the token.
THEOREM FeesFollowMemos ==
    ASSUME Careful
    PROVE  Spec => []FeeOnlyIfMemoSeen
  <1>1. OnceInv => FeeOnlyIfMemoSeen
    BY OnceSuffices
  <1> QED BY <1>1, OnceInvariant, PTL

\* The saved cursor passes a deposit that is still to be settled only if
\* somebody else's transaction of the token carries its hash.
THEOREM CursorPassesSettled ==
    ASSUME Careful
    PROVE  Spec => []SavedMeansSettled
  <1>1. OnceInv => SavedMeansSettled
    BY OnceSuffices
  <1> QED BY <1>1, OnceInvariant, PTL

\* When nobody else uses the hash of a deposit as a memo, a fee is taken only
\* from what was minted, and the saved cursor passes only what is settled.
THEOREM NothingPassesForAMint ==
    ASSUME Careful, Reused = {}
    PROVE  Spec => []/\ \A d \in Deposits : Charged(d) => Minted(d)
                     /\ \A d \in 1..savedCursor : Settled(d)
  <1> DEFINE NoReuse == \A i \in DOMAIN tokenTxs :
                           tokenTxs[i].mints \/ tokenTxs[i].memo = Other
  <1>1. Init => NoReuse
    BY DEF Init
  <1>2. TypeInv /\ NoReuse /\ [Next]_vars => NoReuse'
    <2> SUFFICES ASSUME TypeInv, NoReuse, [Next]_vars PROVE NoReuse'
      OBVIOUS
    <2>1. \/ tokenTxs' = tokenTxs
          \/ \E d \in Deposits : tokenTxs' = Append(tokenTxs, MintOf(d))
          \/ tokenTxs' = Append(tokenTxs, OthersWith(Other))
      <3>1. CASE Handler
        BY <3>1
           DEF Handler, Receive, RefundDone, PaymentRetried, MintKnown, MintUnknown, MemoKnown,
               InvalidReceiver, AskOnline, OnlineAnswer, SignAnswer, NoAnswer, OnlineDone,
               SignDone, MintFails, MintSubmit, MintConfirmed, MintSubmitFails, MintWaited,
               FeeDone, SaveCursor, solana
      <3>2. ASSUME NEW tx \in pool, Finalize(tx) \/ Expire(tx)
            PROVE  \/ tokenTxs' = tokenTxs
                   \/ \E d \in Deposits : tokenTxs' = Append(tokenTxs, MintOf(d))
        BY <3>2 DEF Finalize, Expire, TypeInv, TypeOK, MintTxs
      <3>3. ASSUME NEW m \in Reused \cup {Other}, OtherTx(m)
            PROVE  tokenTxs' = Append(tokenTxs, OthersWith(Other))
        BY <3>3 DEF OtherTx
      <3>4. ASSUME \/ \E p \in late : LatePayment(p)
                   \/ Deposit \/ Crash \/ UNCHANGED vars
                   \/ \E rescan \in Rescans : Start(rescan)
            PROVE  tokenTxs' = tokenTxs
        BY <3>4 DEF LatePayment, Deposit, Crash, Start, vars, solana
      <3> QED BY <3>1, <3>2, <3>3, <3>4 DEF Next
    <2>2. ASSUME NEW e \in TokenTxs, tokenTxs' = Append(tokenTxs, e), e.mints \/ e.memo = Other
          PROVE  NoReuse'
      BY <2>2, Appended DEF TypeInv
    <2>3. /\ \A d \in Deposits : MintOf(d) \in TokenTxs /\ MintOf(d).mints
          /\ OthersWith(Other) \in TokenTxs /\ OthersWith(Other).memo = Other
      BY DEF MintOf, OthersWith, TokenTxs
    <2> QED BY <2>1, <2>2, <2>3
  <1>3. OnceInv /\ NoReuse => /\ \A d \in Deposits : Charged(d) => Minted(d)
                             /\ \A d \in 1..savedCursor : Settled(d)
    <2> SUFFICES ASSUME OnceInv, NoReuse
                 PROVE  /\ \A d \in Deposits : Charged(d) => Minted(d)
                        /\ \A d \in 1..savedCursor : Settled(d)
      OBVIOUS
    <2>1. FeeOnlyIfMemoSeen /\ SavedMeansSettled
      BY OnceSuffices
    <2>2. ASSUME NEW d \in Deposits, MemoReused(d) PROVE FALSE
      <3>1. PICK i \in DOMAIN tokenTxs : tokenTxs[i] = OthersWith(d)
        BY <2>2 DEF MemoReused
      <3>2. ~tokenTxs[i].mints /\ tokenTxs[i].memo = d
        BY <3>1 DEF OthersWith
      <3> QED BY <3>2, SolanaDepositsAssumption DEF Deposits, Other
    <2>3. 1..savedCursor \subseteq Deposits
      BY SolanaDepositsAssumption DEF OnceInv, TypeInv, TypeOK, Deposits
    <2> QED BY <2>1, <2>2, <2>3 DEF FeeOnlyIfMemoSeen, SavedMeansSettled
  <1>4. OnceInv => TypeInv
    BY DEF OnceInv
  <1> QED BY <1>1, <1>2, <1>3, <1>4, OnceInvariant, PTL DEF Spec
=============================================================================
