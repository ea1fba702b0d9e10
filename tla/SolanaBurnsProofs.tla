--------------------------- MODULE SolanaBurnsProofs ---------------------------
(***************************************************************************)
(* No Solana transaction is paid for more than the tokens burned in it,    *)
(* for any instructions, fee, page size and number of transactions.  Which *)
(* token it is, nobody looks, so the theorem does not say it either.       *)
(*                                                                         *)
(* What the master reads in a transaction is one of its burns (ReadBurn).  *)
(* It is also sent transactions that failed; that these are not paid is    *)
(* the cosigners' doing, who list successful ones only.  So whatever the   *)
(* vault has paid or may yet pay answers a transaction the master could    *)
(* read and that was successful (PaidInv), and transactions do not change. *)
(***************************************************************************)
EXTENDS SolanaBurns, FiniteSetTheorems, SequenceTheorems, TLAPS

\* Transactions in which the master reads a burn.
Readable == {b \in DOMAIN chain : MasterReads(b) # NoBurn}

\* Those of them that were successful.
Sound == {b \in Readable : chain[b].ok}

TypeInv ==
    /\ chain \in Seq(Txs) /\ Len(chain) <= MaxTxs
    /\ Vault!TypeOK
    /\ up \in BOOLEAN /\ subscribed \in BOOLEAN
    /\ subscribed => up
    /\ notices \subseteq Logs /\ \A log \in notices : log[1] \in DOMAIN chain
    /\ history \subseteq DOMAIN chain
    /\ burns \subseteq Readable

PaidInv == \A p \in receipts \cup late : p.memo \in Sound

BurnsInv == TypeInv /\ PaidInv

-----------------------------------------------------------------------------
(* Reading a transaction.                                                  *)

\* Of three places the last one that has a property is one of those that have.
LEMMA LastPlace ==
    ASSUME NEW places \in SUBSET (1..3), places # {}
    PROVE  (CHOOSE i \in places : \A j \in places : j <= i) \in places
  <1>1. \E i \in places : \A j \in places : j <= i
    <2>1. CASE 3 \in places
      BY <2>1
    <2>2. CASE 3 \notin places /\ 2 \in places
      BY <2>2
    <2>3. CASE 3 \notin places /\ 2 \notin places
      <3>1. \A j \in places : j = 1
        BY <2>3
      <3>2. 1 \in places
        BY <3>1
      <3> QED BY <3>1, <3>2
    <2> QED BY <2>1, <2>2, <2>3
  <1> QED BY <1>1

\* The amount the master reads is that of one burn of the transaction.
LEMMA ReadBurn ==
    ASSUME chain \in Seq(Txs), NEW b \in Readable
    PROVE  \E i \in DOMAIN chain[b].ixs :
               /\ chain[b].ixs[i].op = "burn" /\ chain[b].ixs[i].amount \in Nat
               /\ MasterReads(b).amount = chain[b].ixs[i].amount
  <1> DEFINE ixs == chain[b].ixs
             places == {i \in DOMAIN ixs : IsBurn(ixs[i])}
             last == CHOOSE i \in places : \A j \in places : j <= i
  <1>1. b \in DOMAIN chain /\ MasterReads(b) # NoBurn
    BY DEF Readable
  <1>2. ixs \in Seq(Instructions)
    BY <1>1, SolanaBurnsAssumption
  <1>3. /\ Len(ixs) = 3 /\ \E i \in DOMAIN ixs : IsBurn(ixs[i])
        /\ MasterReads(b).amount = ixs[last].amount
    BY <1>1 DEF MasterReads, Reads, Last
  <1>4. places \in SUBSET (1..3) /\ places # {}
    BY <1>2, <1>3
  <1> HIDE DEF places
  <1>5. last \in places
    BY <1>4, LastPlace
  <1>6. last \in DOMAIN ixs /\ IsBurn(ixs[last])
    BY <1>5 DEF places
  <1>7. ixs[last] \in Instructions
    BY <1>2, <1>6
  <1>8. ixs[last].amount \in Nat
    BY <1>6, <1>7 DEF IsBurn, Instructions
  <1> QED BY <1>3, <1>6, <1>8 DEF IsBurn

\* That burn alone accounts for the amount.
LEMMA BurnedCovers ==
    ASSUME chain \in Seq(Txs), NEW b \in Sound
    PROVE  /\ MasterReads(b).amount \in Nat
           /\ MasterReads(b).amount <= Cardinality(Burned(b))
  <1>1. PICK i \in DOMAIN chain[b].ixs :
               /\ chain[b].ixs[i].op = "burn" /\ chain[b].ixs[i].amount \in Nat
               /\ MasterReads(b).amount = chain[b].ixs[i].amount
    BY ReadBurn DEF Sound
  <1>0. b \in DOMAIN chain /\ chain[b].ok
    BY DEF Sound, Readable
  <1> DEFINE n == chain[b].ixs[i].amount
             places == {j \in DOMAIN chain[b].ixs :
                          chain[b].ok /\ chain[b].ixs[j].op = "burn"}
             one == {i} \X (1..n)
  <1>2. chain[b].ixs \in Seq(Instructions)
    <2>1. chain[b] \in Txs
      BY <1>0
    <2> QED BY <2>1, SolanaBurnsAssumption
  <1>3. IsFiniteSet(1..n) /\ Cardinality(1..n) = n
    <2>1. 1 \in Int /\ n \in Int
      BY <1>1
    <2>2. IsFiniteSet(1..n) /\ Cardinality(1..n) = IF 1 > n THEN 0 ELSE n - 1 + 1
      BY <2>1, FS_Interval
    <2> QED BY <1>1, <2>2
  <1>4. IsFiniteSet({i}) /\ Cardinality({i}) = 1
    BY FS_Singleton
  <1>5. Cardinality(one) = n
    <2>1. Cardinality({i} \X (1..n)) = Cardinality({i}) * Cardinality(1..n)
      BY <1>3, <1>4, FS_Product
    <2> QED BY <1>1, <1>3, <1>4, <2>1
  <1>6. one \subseteq Burned(b)
    BY <1>0, <1>1 DEF Burned
  <1>7. IsFiniteSet(Burned(b))
    <2>1. IsFiniteSet(places)
      <3>1. IsFiniteSet(1..Len(chain[b].ixs))
        BY <1>2, FS_Interval
      <3>2. places \in SUBSET (1..Len(chain[b].ixs))
        BY <1>2
      <3> QED BY <3>1, <3>2, FS_Subset
    <2> DEFINE Stack(j) == {j} \X (1..chain[b].ixs[j].amount)
               stacks == {Stack(j) : j \in places}
               stack == [j \in places |-> Stack(j)]
    <2>2. IsFiniteSet(stacks)
      <3>1. stack \in Surjection(places, stacks)
        BY DEF Surjection
      <3> HIDE DEF places, stacks, stack
      <3> QED BY <2>1, <3>1, FS_Surjection
    <2>3. ASSUME NEW j \in places PROVE IsFiniteSet(Stack(j))
      <3>1. PICK ix \in Instructions : ix = chain[b].ixs[j] /\ ix.op = "burn"
        BY <1>2
      <3>2. ix.amount \in Nat
        BY <3>1 DEF Instructions
      <3>3. ix.amount \in Int /\ 1 \in Int
        BY <3>2
      <3>4. IsFiniteSet({j}) /\ IsFiniteSet(1..ix.amount)
        BY <3>3, FS_Interval, FS_Singleton
      <3> QED BY <3>1, <3>4, FS_Product
    <2>4. \A T \in stacks : IsFiniteSet(T)
      BY <2>3
    <2>5. IsFiniteSet(UNION stacks)
      <3> HIDE DEF stacks
      <3> QED BY <2>2, <2>4, FS_UNION
    <2> QED BY <2>5 DEF Burned
  <1>8. Cardinality(one) <= Cardinality(Burned(b))
    BY <1>6, <1>7, FS_Subset
  <1> QED BY <1>1, <1>5, <1>8

\* Transactions stay: what could be read of one can be read of it later.
LEMMA ReadableStays ==
    ASSUME chain \in Seq(Txs), NEW tx \in Txs,
           chain' = Append(chain, tx), NEW b \in Readable
    PROVE  b \in Readable' /\ chain'[b].ok = chain[b].ok
  <1>1. b \in DOMAIN chain /\ MasterReads(b) # NoBurn
    BY DEF Readable
  <1>2. b \in DOMAIN chain' /\ chain'[b] = chain[b]
    BY <1>1
  <1>3. Reads(chain'[b].ixs, {3}) = Reads(chain[b].ixs, {3})
    BY <1>2
  <1> QED BY <1>1, <1>2, <1>3 DEF Readable, MasterReads

-----------------------------------------------------------------------------
(* The invariant.                                                          *)

LEMMA InvInit == Init => BurnsInv
  <1> SUFFICES ASSUME Init PROVE BurnsInv
    OBVIOUS
  <1>1. chain \in Seq(Txs) /\ Len(chain) <= MaxTxs
    BY SolanaBurnsAssumption DEF Init
  <1>2. Vault!TypeOK
    BY DEF Init, Vault!Init, Vault!TypeOK, Vault!Vault!Init
  <1>3. receipts = {} /\ late = {}
    BY DEF Init, Vault!Init, Vault!Vault!Init
  <1>4. chain = <<>> /\ up = FALSE /\ subscribed = FALSE
        /\ notices = {} /\ history = {} /\ burns = {}
    BY DEF Init
  <1>5. TypeInv
    BY <1>1, <1>2, <1>4 DEF TypeInv
  <1> QED BY <1>3, <1>5 DEF BurnsInv, PaidInv

\* A payment of a sound transaction leaves only such payments.
LEMMA PaymentStep ==
    ASSUME BurnsInv, UNCHANGED chain, NEW b \in Sound, b \in Ids,
           \/ Vault!Returns(PaymentOf(b), MasterReads(b).to = "nobody")
           \/ Vault!Fails(PaymentOf(b))
    PROVE  Vault!TypeOK' /\ PaidInv'
  <1>1. Sound' = Sound
    BY DEF Sound, Readable, MasterReads
  <1>2. PaymentOf(b) \in Vault!Payments /\ PaymentOf(b).memo = b
    BY DEF PaymentOf, Vault!Payments
  <1>3. receipts \subseteq Vault!Vault!Receipts /\ late \subseteq Vault!Payments
    BY DEF BurnsInv, TypeInv, Vault!TypeOK
  <1>4. \A p \in receipts \cup late : p.memo \in Sound
    BY DEF BurnsInv, PaidInv
  <1> DEFINE r == [id |-> b, kind |-> "withdraw", memo |-> b]
  <1>5. r \in Vault!Vault!Receipts /\ r.memo = b
    BY DEF Vault!Vault!Receipts
  <1>6. /\ receipts' \in {receipts, receipts \cup {r}}
        /\ late' \in {late, late \cup {PaymentOf(b)}}
    BY <1>2 DEF vault, Vault!Returns, Vault!Fails, Vault!Executes,
                Vault!Vault!Pay, PaymentOf
  <1>7. Vault!TypeOK'
    BY <1>2, <1>3, <1>5, <1>6 DEF Vault!TypeOK
  <1>8. ASSUME NEW p \in (receipts \cup late)' PROVE p.memo \in Sound
    BY <1>2, <1>4, <1>5, <1>6
  <1> QED BY <1>1, <1>7, <1>8 DEF PaidInv

\* A payment that is decided late answers a sound transaction already.
LEMMA LateStep ==
    ASSUME BurnsInv, UNCHANGED chain, NEW p \in late, Vault!Decided(p)
    PROVE  Vault!TypeOK' /\ PaidInv'
  <1>1. Sound' = Sound
    BY DEF Sound, Readable, MasterReads
  <1>2. receipts \subseteq Vault!Vault!Receipts /\ late \subseteq Vault!Payments
    BY DEF BurnsInv, TypeInv, Vault!TypeOK
  <1>3. \A q \in receipts \cup late : q.memo \in Sound
    BY DEF BurnsInv, PaidInv
  <1> DEFINE r == [id |-> p.memo, kind |-> p.kind, memo |-> p.memo]
  <1>4. r \in Vault!Vault!Receipts /\ r.memo = p.memo
    BY <1>2 DEF Vault!Vault!Receipts, Vault!Payments
  <1>5. receipts' \in {receipts, receipts \cup {r}} /\ late' = late \ {p}
    BY DEF Vault!Decided, Vault!Executes, Vault!Vault!Pay
  <1>6. Vault!TypeOK'
    BY <1>2, <1>4, <1>5 DEF Vault!TypeOK
  <1>7. ASSUME NEW q \in (receipts \cup late)' PROVE q.memo \in Sound
    BY <1>3, <1>4, <1>5
  <1> QED BY <1>1, <1>6, <1>7 DEF PaidInv

LEMMA InvStep == BurnsInv /\ [Next]_vars => BurnsInv'
  <1> SUFFICES ASSUME BurnsInv, [Next]_vars PROVE BurnsInv'
    OBVIOUS
  <1> USE DEF BurnsInv
  <1>1. ASSUME NEW tx \in Txs, Finalized(tx) PROVE BurnsInv'
    <2>1. /\ Len(chain) < MaxTxs /\ chain' = Append(chain, tx)
          /\ UNCHANGED <<vault, up, subscribed, history, burns>>
          /\ notices' = IF subscribed
                        THEN notices \cup ({Len(chain')} \X {1, 2})
                        ELSE notices
      BY <1>1 DEF Finalized
    <2>2. /\ chain \in Seq(Txs) /\ chain' \in Seq(Txs)
          /\ Len(chain') = Len(chain) + 1 /\ Len(chain') <= MaxTxs
          /\ DOMAIN chain \subseteq DOMAIN chain' /\ Len(chain') \in DOMAIN chain'
      BY <2>1, SolanaBurnsAssumption DEF TypeInv
    <2>3. Len(chain') \in Ids
      BY <2>2, SolanaBurnsAssumption DEF Ids
    <2>4. notices' \subseteq Logs /\ \A log \in notices' : log[1] \in DOMAIN chain'
      BY <2>1, <2>2, <2>3 DEF TypeInv, Logs
    <2>5. Readable \subseteq Readable' /\ Sound \subseteq Sound'
      BY <2>1, <2>2, ReadableStays DEF Sound
    <2>6. Vault!TypeOK' /\ UNCHANGED <<receipts, late>>
      BY <2>1 DEF TypeInv, vault, Vault!TypeOK
    <2>7. TypeInv'
      BY <2>1, <2>2, <2>4, <2>5, <2>6 DEF TypeInv
    <2> QED BY <2>5, <2>6, <2>7 DEF PaidInv
  <1>2. ASSUME UNCHANGED <<chain, vault>>,
               \/ Subscribe \/ Disconnect \/ Crash \/ Start \/ UNCHANGED vars
               \/ \E log \in notices : NoticeFound(log) \/ NoticeLost(log)
               \/ \E b \in Ids : HistoryFound(b) \/ HistoryLost(b) \/ WithdrawSkips(b)
        PROVE  BurnsInv'
    <2>1. Readable' = Readable
      BY <1>2 DEF Readable, MasterReads
    <2>2. Vault!TypeOK' /\ PaidInv'
      BY <1>2, <2>1 DEF PaidInv, Sound, vault, TypeInv, Vault!TypeOK
    <2>3. /\ up' \in BOOLEAN /\ subscribed' \in BOOLEAN
          /\ subscribed' => up'
          /\ notices' \subseteq notices
          /\ history' \subseteq DOMAIN chain'
      <3> USE DEF TypeInv, source, vars
      <3>1. CASE Subscribe
        BY <1>2, <3>1 DEF Subscribe
      <3>2. CASE Disconnect
        BY <1>2, <3>2 DEF Disconnect
      <3>3. CASE Crash
        BY <1>2, <3>3 DEF Crash
      <3>4. CASE Start
        BY <1>2, <3>4 DEF Start, Listed
      <3>5. CASE \E log \in notices : NoticeFound(log) \/ NoticeLost(log)
        BY <1>2, <3>5 DEF NoticeFound, NoticeLost
      <3>6. CASE \E b \in Ids : HistoryFound(b) \/ HistoryLost(b) \/ WithdrawSkips(b)
        BY <1>2, <3>6 DEF HistoryFound, HistoryLost, WithdrawSkips
      <3>7. CASE UNCHANGED vars
        BY <1>2, <3>7
      <3> QED BY <1>2, <3>1, <3>2, <3>3, <3>4, <3>5, <3>6, <3>7
    <2>4. burns' \subseteq Readable
      BY <1>2 DEF Subscribe, Disconnect, Crash, Start, NoticeFound, NoticeLost,
                  HistoryFound, HistoryLost, WithdrawSkips, source, vars, Found,
                  Readable, TypeInv
    <2>5. /\ chain' \in Seq(Txs) /\ Len(chain') <= MaxTxs
          /\ notices' \subseteq Logs /\ \A log \in notices' : log[1] \in DOMAIN chain'
          /\ history' \subseteq DOMAIN chain'
      BY <1>2, <2>3 DEF TypeInv
    <2>6. TypeInv'
      BY <2>1, <2>2, <2>3, <2>4, <2>5 DEF TypeInv
    <2> QED BY <2>2, <2>6
  <1>3. ASSUME NEW b \in Ids, WithdrawPays(b) \/ WithdrawFails(b) PROVE BurnsInv'
    <2>1. /\ b \in Readable /\ burns' = burns \ {b}
          /\ UNCHANGED <<chain, up, source>>
      BY <1>3 DEF WithdrawPays, WithdrawFails, TypeInv
    <2>2. \/ /\ Vault!Known(b) \/ CosignerSigns(b)
             /\ \/ Vault!Returns(PaymentOf(b), MasterReads(b).to = "nobody")
                \/ Vault!Fails(PaymentOf(b))
          \/ UNCHANGED vault
      BY <1>3 DEF WithdrawPays, WithdrawFails
    <2>3. Vault!TypeOK' /\ PaidInv'
      <3>1. CASE Vault!Known(b) \/ CosignerSigns(b)
        <4>1. b \in Sound
          <5>1. CASE Vault!Known(b)
            BY <5>1 DEF Vault!Known, PaidInv
          <5>2. CASE CosignerSigns(b)
            BY <2>1, <5>2 DEF CosignerSigns, Listed, Sound
          <5> QED BY <3>1, <5>1, <5>2
        <4>2. CASE UNCHANGED vault
          BY <2>1, <4>2 DEF PaidInv, Sound, Readable, MasterReads, vault, TypeInv,
                            Vault!TypeOK
        <4> QED BY <2>1, <2>2, <4>1, <4>2, PaymentStep
      <3>2. CASE UNCHANGED vault
        BY <2>1, <3>2 DEF PaidInv, Sound, Readable, MasterReads, vault, TypeInv,
                          Vault!TypeOK
      <3> QED BY <2>2, <3>1, <3>2
    <2>4. Readable' = Readable
      BY <2>1 DEF Readable, MasterReads
    <2> QED BY <2>1, <2>3, <2>4 DEF TypeInv, source
  <1>4. ASSUME NEW p \in late, LatePayment(p) PROVE BurnsInv'
    <2>1. Vault!Decided(p) /\ UNCHANGED <<chain, up, source, burns>>
      BY <1>4 DEF LatePayment
    <2>2. Vault!TypeOK' /\ PaidInv'
      BY <2>1, LateStep
    <2>3. Readable' = Readable
      BY <2>1 DEF Readable, MasterReads
    <2> QED BY <2>1, <2>2, <2>3 DEF TypeInv, source
  <1>5. CASE \E tx \in Txs : Finalized(tx)
    BY <1>5, <1>1
  <1>6. CASE \/ Subscribe \/ Disconnect \/ Crash \/ Start \/ UNCHANGED vars
             \/ \E log \in notices : NoticeFound(log) \/ NoticeLost(log)
             \/ \E b \in Ids : HistoryFound(b) \/ HistoryLost(b) \/ WithdrawSkips(b)
    <2>1. UNCHANGED <<chain, vault>>
      BY <1>6 DEF Subscribe, Disconnect, Crash, Start, NoticeFound, NoticeLost,
                  HistoryFound, HistoryLost, WithdrawSkips, vars
    <2> QED BY <1>2, <1>6, <2>1
  <1>7. CASE \E b \in Ids : WithdrawPays(b) \/ WithdrawFails(b)
    BY <1>7, <1>3
  <1>8. CASE \E p \in late : LatePayment(p)
    BY <1>8, <1>4
  <1> QED BY <1>5, <1>6, <1>7, <1>8 DEF Next

LEMMA InvAlways == Spec => []BurnsInv
  BY InvInit, InvStep, PTL DEF Spec

-----------------------------------------------------------------------------
(* The theorems.                                                           *)

\* Every variable keeps its type, and only burns the master can read reach the
\* main loop.
THEOREM TypeCorrect == Spec => []TypeOK
  <1>1. BurnsInv => TypeOK
    BY DEF BurnsInv, TypeInv, TypeOK, Readable
  <1> QED BY <1>1, InvAlways, PTL

\* The vault pays, fee included, at most what the transaction burned: a mint,
\* several burns or a repeated memo in it do not change that, and one that failed
\* is not paid.  A burn of another token counts like one of this token.
THEOREM PaysOnlyBurned == Spec => []PaidAtMostBurned
  <1>1. BurnsInv => PaidAtMostBurned
    <2> SUFFICES ASSUME BurnsInv, NEW r \in receipts
                 PROVE  Request(r.memo).amount + Request(r.memo).fee
                          <= Cardinality(Burned(r.memo))
      BY DEF PaidAtMostBurned
    <2>1. r.memo \in Sound /\ chain \in Seq(Txs)
      BY DEF BurnsInv, TypeInv, PaidInv
    <2>2. PICK b \in Sound : b = r.memo
      BY <2>1
    <2>3. MasterReads(b).amount \in Nat
          /\ MasterReads(b).amount <= Cardinality(Burned(b))
      BY <2>1, BurnedCovers
    <2>4. Request(b).amount + Request(b).fee = MasterReads(b).amount
      BY <2>3, SolanaBurnsAssumption DEF Request
    <2> QED BY <2>2, <2>3, <2>4
  <1> QED BY <1>1, InvAlways, PTL
=============================================================================
