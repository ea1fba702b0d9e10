------------------------- MODULE VaultPaymentsProofs -------------------------
(***************************************************************************)
(* Proofs about VaultPayments, for every set of hashes and cosigners, any  *)
(* number of required signatures and any bound.                            *)
(***************************************************************************)
EXTENDS VaultPayments, TLAPS

USE DEF Loop, Monitor, Threads

LEMMA TypeInit == Init => TypeOK
<1> SUFFICES ASSUME Init PROVE TypeOK
  OBVIOUS
<1>1. ledger \in Seq(Entries) /\ Len(ledger) = 0
  BY DEF Init
<1>2. \A t \in Threads : pc[t] = "idle"
  BY DEF Init
<1>3. job \in [Threads -> Jobs \cup {NoJob}]
  BY DEF Init
<1>4. pc \in [Threads -> PCs]
  BY DEF Init, PCs
<1>5. sigs \in [Threads -> SUBSET Cosigners]
  BY DEF Init
<1>6. /\ txseq \in [Threads -> 0..(MaxLedger + 1)]
      /\ pos \in [Threads -> 0..MaxLedger]
  BY BoundAssumption DEF Init
<1>7. horizon \in 0..Len(ledger) /\ cursor \in 0..horizon
  BY <1>1 DEF Init
<1>8. Len(ledger) <= MaxLedger
  BY <1>1, BoundAssumption
<1> QED
  BY <1>1, <1>2, <1>3, <1>4, <1>5, <1>6, <1>7, <1>8 DEF Init, TypeOK

\* What Horizon lists is in the ledger.
LEMMA ListedType ==
  ASSUME TypeOK, NEW n \in Nat, NEW i \in Listed(n)
  PROVE  /\ i \in 1..Len(ledger) /\ i > n /\ i <= horizon /\ Paid(i)
         /\ ledger[i] \in Entries /\ ledger[i].memo \in Memos
<1>1. i \in 1..horizon /\ i > n /\ Paid(i) /\ horizon \in 0..Len(ledger)
  BY DEF Listed, TypeOK
<1>2. ledger \in Seq(Entries) /\ Len(ledger) \in Nat
  BY DEF TypeOK
<1>3. i \in 1..Len(ledger) /\ i <= horizon
  BY <1>1, <1>2
<1>4. ledger[i] \in Entries
  BY <1>2, <1>3
<1> QED
  BY <1>1, <1>3, <1>4 DEF Entries

\* A step of the process leaves the network alone, a step of the network the
\* process; each action touches few of the variables.
LEMMA TypeStep == TypeOK /\ [Next]_vars => TypeOK'
<1> SUFFICES ASSUME TypeOK, [Next]_vars PROVE TypeOK'
  OBVIOUS
<1> USE BoundAssumption, OutcomesAssumption DEF TypeOK
<1>1. ASSUME NEW w \in Withdrawals, Remember(w) PROVE TypeOK'
  BY <1>1 DEF Remember, network, storage, threads
<1>2. ASSUME NEW t \in Threads, Step(t) PROVE TypeOK'
  <2> USE DEF network, storage, PCs
  <2>1. ASSUME NEW j \in Jobs, Begin(t, j) PROVE TypeOK'
    BY <2>1 DEF Begin
  <2>2. CASE LoadAccount(t)
    BY <2>2 DEF LoadAccount
  <2>3. ASSUME pc[t] # "idle", Fail(t), UNCHANGED <<network, up, storage>>
        PROVE  TypeOK'
    BY <2>3 DEF Fail, Leave
  <2>4. ASSUME Done(t), UNCHANGED <<network, up>>,
               cursor' = cursor, seen' \subseteq Memos
        PROVE  TypeOK'
    BY <2>4 DEF Done, Leave
  <2>5. CASE LoadFails(t)
    BY <2>3, <2>5 DEF LoadFails
  <2>6. CASE StartScan(t)
    BY <2>6 DEF StartScan
  <2>7. CASE ScanStep(t)
    <3>1. PICK i \in Listed(pos[t]) :
               /\ pos' = [pos EXCEPT ![t] = i]
               /\ seen' = seen \cup {ledger[i].memo}
               /\ cursor' = i
      BY <2>7 DEF ScanStep
    <3>2. i \in 1..horizon /\ ledger[i].memo \in Memos
      BY ListedType DEF Listed
    <3> QED
      BY <2>7, <3>1, <3>2 DEF ScanStep
  <2>8. CASE AlreadyPaid(t)
    BY <2>4, <2>8 DEF AlreadyPaid
  <2>9. CASE NotPaid(t)
    BY <2>9 DEF NotPaid
  <2>10. ASSUME NEW c \in Cosigners, CosignerSigns(t, c) PROVE TypeOK'
    BY <2>10 DEF CosignerSigns
  <2>11. CASE SignFails(t)
    BY <2>3, <2>11 DEF SignFails
  <2>12. CASE Submit(t)
    <3>1. [kind |-> job[t].kind, memo |-> job[t].memo, seq |-> txseq[t]] \in Txs
      BY <2>12 DEF Submit, Txs, Jobs, Kinds, Memos
    <3> QED
      BY <2>12, <3>1 DEF Submit
  <2>13. CASE SubmitSucceeds(t)
    <3>1. job[t].memo \in Memos
      BY <2>13 DEF SubmitSucceeds, Answered, Jobs, Memos
    <3> QED
      BY <2>4, <2>13, <3>1 DEF SubmitSucceeds
  <2>14. CASE SubmitSoaked(t)
    BY <2>4, <2>14 DEF SubmitSoaked
  <2>15. CASE SubmitFails(t)
    BY <2>3, <2>15 DEF SubmitFails
  <2> QED
    BY <1>2, <2>1, <2>2, <2>5, <2>6, <2>7, <2>8, <2>9, <2>10, <2>11, <2>12,
       <2>13, <2>14, <2>15 DEF Step
<1>3. ASSUME NEW tx \in inflight, Apply(tx) PROVE TypeOK'
  <2>1. PICK result \in Outcomes :
             ledger' = Append(ledger, [kind |-> tx.kind, memo |-> tx.memo,
                                       result |-> result])
    BY <1>3 DEF Apply
  <2>2. [kind |-> tx.kind, memo |-> tx.memo, result |-> result] \in Entries
    BY DEF Txs, Entries
  <2>3. ledger' \in Seq(Entries) /\ Len(ledger') = Len(ledger) + 1
    BY <2>1, <2>2
  <2> QED
    BY <1>3, <2>3 DEF Apply, storage, threads
<1>4. ASSUME NEW tx \in inflight, Expire(tx) PROVE TypeOK'
  BY <1>4 DEF Expire, storage, threads
<1>5. CASE Ingest
  BY <1>5 DEF Ingest, storage, threads
<1>6. CASE Crash
  <2>1. pc' \in [Threads -> PCs] /\ \A t \in Threads : pc'[t] = "idle"
    BY <1>6 DEF Crash, PCs
  <2>2. job' \in [Threads -> Jobs \cup {NoJob}]
    BY <1>6 DEF Crash
  <2>3. /\ txseq' \in [Threads -> 0..(MaxLedger + 1)]
        /\ pos' \in [Threads -> 0..MaxLedger]
        /\ sigs' \in [Threads -> SUBSET Cosigners]
    BY <1>6 DEF Crash
  <2>4. /\ ledger' = ledger /\ horizon' = horizon /\ inflight' = inflight
        /\ up' \in BOOLEAN /\ txMap' = {} /\ seen' = {} /\ cursor' = 0
    BY <1>6 DEF Crash, network
  <2> QED
    BY <2>1, <2>2, <2>3, <2>4
<1>7. CASE Start
  <2>1. ListedMemos \subseteq Memos
    BY ListedType DEF ListedMemos
  <2>2. cursor' \in 0..horizon
    BY <1>7 DEF Start, Listed
  <2> QED
    BY <1>7, <2>1, <2>2 DEF Start, network, threads
<1>8. CASE UNCHANGED vars
  BY <1>8 DEF vars, network, storage, threads
<1> QED
  BY <1>1, <1>2, <1>3, <1>4, <1>5, <1>6, <1>7, <1>8 DEF Next

\* The variables of VaultPayments have their types, for all constants.
THEOREM TypeCorrect == Spec => []TypeOK
<1>1. Init => TypeOK
  BY TypeInit
<1>2. TypeOK /\ [Next]_vars => TypeOK'
  BY TypeStep
<1> QED
  BY <1>1, <1>2, PTL DEF Spec

-----------------------------------------------------------------------------

\* What the execution of a transaction does to the ledger.
LEMMA ApplyLedger ==
  ASSUME TypeOK, NEW tx \in inflight, Apply(tx)
  PROVE  /\ tx.seq = Len(ledger) + 1
         /\ Len(ledger') = Len(ledger) + 1
         /\ \A i \in 1..Len(ledger) : ledger'[i] = ledger[i]
         /\ ledger'[Len(ledger) + 1].memo = tx.memo
         /\ inflight' = inflight \ {tx}
         /\ UNCHANGED <<horizon, up, txMap, storage, threads>>
<1>1. PICK result \in Outcomes :
           ledger' = Append(ledger, [kind |-> tx.kind, memo |-> tx.memo,
                                     result |-> result])
  BY DEF Apply
<1>2. [kind |-> tx.kind, memo |-> tx.memo, result |-> result] \in Entries
  BY OutcomesAssumption DEF TypeOK, Txs, Entries
<1>3. ledger \in Seq(Entries)
  BY DEF TypeOK
<1> QED
  BY <1>1, <1>2, <1>3 DEF Apply

\* An execution disturbs nothing that was known of smaller numbers.
LEMMA ApplyKeepsUnpaid ==
  ASSUME TypeOK, NEW tx \in inflight, Apply(tx),
         NEW n \in Nat, n <= horizon + 1, NEW m, UnpaidBelow(n, m)
  PROVE  UnpaidBelow(n, m)'
<1>1. horizon \in Nat /\ Len(ledger) \in Nat /\ horizon <= Len(ledger)
  BY DEF TypeOK
<1>2. SUFFICES ASSUME NEW i \in 1..Len(ledger'), i < n, Paid(i)'
               PROVE  ledger'[i].memo # m
  BY DEF UnpaidBelow
<1>3. i \in 1..Len(ledger) /\ ledger'[i] = ledger[i]
  BY <1>1, <1>2, ApplyLedger
<1> QED
  BY <1>2, <1>3 DEF UnpaidBelow, Paid

SafetyInv == TypeOK /\ PaidAtMostOnce /\ CacheComplete /\ NumberBeforeCheck

LEMMA SafetyInit == Init => SafetyInv
<1> SUFFICES ASSUME Init PROVE SafetyInv
  OBVIOUS
<1>1. TypeOK
  BY TypeInit
<1>2. Len(ledger) = 0 /\ cursor = 0 /\ inflight = {}
      /\ \A t \in Threads : pc[t] = "idle"
  BY DEF Init
<1> QED
  BY <1>1, <1>2 DEF SafetyInv, PaidAtMostOnce, CacheComplete, NumberBeforeCheck

\* The part of SafetyInv about one goroutine.
ThreadInv(t) ==
    /\ pc[t] \notin {"idle", "load"} => txseq[t] <= horizon + 1
    /\ pc[t] \in {"sign", "send", "wait"} => UnpaidBelow(txseq[t], job[t].memo)
    /\ pc[t] = "scan" =>
         /\ pos[t] <= horizon
         /\ \A i \in 1..pos[t] : Paid(i) => ledger[i].memo \in seen

\* A step of goroutine t that leaves the network and the other goroutine
\* alone and only adds to the cache keeps the invariant, if it keeps its own
\* part of it and the cache complete.
LEMMA LocalStep ==
  ASSUME SafetyInv, NEW t \in Threads, TypeOK',
         UNCHANGED <<ledger, horizon, inflight>>,
         seen \subseteq seen', CacheComplete', ThreadInv(t)',
         \A u \in Threads \ {t} : /\ pc'[u] = pc[u] /\ job'[u] = job[u]
                                  /\ txseq'[u] = txseq[u] /\ pos'[u] = pos[u]
  PROVE  SafetyInv'
<1>1. PaidAtMostOnce'
  BY DEF SafetyInv, PaidAtMostOnce, Paid
<1>2. \A tx \in inflight' : tx.seq <= horizon' + 1 /\ UnpaidBelow(tx.seq, tx.memo)'
  BY DEF SafetyInv, NumberBeforeCheck, UnpaidBelow, Paid
<1>3. ASSUME NEW u \in Threads PROVE ThreadInv(u)'
  <2>1. CASE u = t
    BY <2>1
  <2>2. CASE u # t
    <3>1. ThreadInv(u)
      BY DEF SafetyInv, NumberBeforeCheck, ThreadInv
    <3> QED
      BY <2>2, <3>1 DEF ThreadInv, UnpaidBelow, Paid
  <2> QED
    BY <2>1, <2>2
<1> QED
  BY <1>1, <1>2, <1>3 DEF SafetyInv, NumberBeforeCheck, ThreadInv

LEMMA ThreadSafety ==
  ASSUME SafetyInv, TypeOK', NEW t \in Threads, Step(t)
  PROVE  SafetyInv'
<1> USE DEF network, storage
<1>0. /\ TypeOK /\ CacheComplete
      /\ ThreadInv(t)
  BY DEF SafetyInv, NumberBeforeCheck, ThreadInv
<1>1. ASSUME UNCHANGED <<ledger, horizon, cursor>>, seen \subseteq seen'
      PROVE  CacheComplete'
  BY <1>0, <1>1 DEF CacheComplete, Paid
<1>2. ASSUME NEW j \in Jobs, Begin(t, j) PROVE SafetyInv'
  <2>1. ThreadInv(t)'
    BY <1>0, <1>2 DEF Begin, ThreadInv, TypeOK
  <2> QED
    BY <1>0, <1>1, <1>2, <2>1, LocalStep DEF Begin, TypeOK
<1>3. CASE LoadAccount(t)
  <2>1. ThreadInv(t)'
    BY <1>0, <1>3 DEF LoadAccount, ThreadInv, TypeOK
  <2> QED
    BY <1>0, <1>1, <1>3, <2>1, LocalStep DEF LoadAccount, TypeOK
<1>4. ASSUME Fail(t), UNCHANGED <<network, up, storage>>
      PROVE  SafetyInv'
  <2>1. ThreadInv(t)'
    BY <1>0, <1>4 DEF Fail, Leave, ThreadInv, TypeOK
  <2> QED
    BY <1>0, <1>1, <1>4, <2>1, LocalStep DEF Fail, Leave, TypeOK
<1>5. ASSUME Done(t), UNCHANGED <<network, up, cursor>>, seen \subseteq seen'
      PROVE  SafetyInv'
  <2>1. ThreadInv(t)'
    BY <1>0, <1>5 DEF Done, Leave, ThreadInv, TypeOK
  <2> QED
    BY <1>0, <1>1, <1>5, <2>1, LocalStep DEF Done, Leave, TypeOK
<1>6. CASE LoadFails(t)
  BY <1>4, <1>6 DEF LoadFails
<1>7. CASE StartScan(t)
  <2>1. ThreadInv(t)'
    BY <1>0, <1>7 DEF StartScan, ThreadInv, TypeOK, CacheComplete, Paid
  <2> QED
    BY <1>0, <1>1, <1>7, <2>1, LocalStep DEF StartScan, TypeOK
<1>8. CASE ScanStep(t)
  <2>1. PICK i \in Listed(pos[t]) :
             /\ \A k \in Listed(pos[t]) : i <= k
             /\ pos' = [pos EXCEPT ![t] = i]
             /\ seen' = seen \cup {ledger[i].memo}
             /\ cursor' = i
    BY <1>8 DEF ScanStep
  <2>2. /\ UNCHANGED <<ledger, horizon, inflight, pc, job, txseq>>
        /\ pc[t] = "scan"
    BY <1>8 DEF ScanStep
  <2>3. horizon \in Nat /\ pos[t] \in Nat /\ i \in 1..horizon
    BY <1>0 DEF TypeOK, Listed
  <2>4. \A k \in 1..i : Paid(k) => ledger[k].memo \in seen'
    <3> SUFFICES ASSUME NEW k \in 1..i, Paid(k), k # i, k > pos[t]
                 PROVE  FALSE
      BY <1>0, <2>1, <2>2, <2>3 DEF ThreadInv
    <3>1. k \in Listed(pos[t])
      BY <2>3 DEF Listed
    <3> QED
      BY <2>1, <2>3, <3>1
  <2>5. CacheComplete'
    BY <2>1, <2>2, <2>4 DEF CacheComplete, Paid
  <2>6. ThreadInv(t)'
    <3>1. pos'[t] = i
      BY <1>0, <2>1 DEF TypeOK
    <3> QED
      BY <1>0, <2>2, <2>3, <2>4, <3>1 DEF ThreadInv, Paid
  <2> QED
    BY <1>0, <2>1, <2>2, <2>5, <2>6, LocalStep DEF TypeOK
<1>9. CASE AlreadyPaid(t)
  BY <1>5, <1>9 DEF AlreadyPaid
<1>10. CASE NotPaid(t)
  <2>1. UnpaidBelow(txseq[t], job[t].memo)
    <3> SUFFICES ASSUME NEW i \in 1..Len(ledger), i < txseq[t], Paid(i),
                        ledger[i].memo = job[t].memo
                 PROVE  FALSE
      BY DEF UnpaidBelow
    <3>1. i <= horizon /\ horizon \in Nat /\ pos[t] \in Nat
      BY <1>0, <1>10 DEF NotPaid, ThreadInv, TypeOK
    <3>2. i <= pos[t]
      BY <1>10, <3>1 DEF NotPaid, Listed
    <3> QED
      BY <1>0, <1>10, <3>1, <3>2 DEF NotPaid, ThreadInv
  <2>2. ThreadInv(t)'
    BY <1>0, <1>10, <2>1 DEF NotPaid, ThreadInv, TypeOK, UnpaidBelow, Paid
  <2> QED
    BY <1>0, <1>1, <1>10, <2>2, LocalStep DEF NotPaid, TypeOK
<1>11. ASSUME NEW c \in Cosigners, CosignerSigns(t, c) PROVE SafetyInv'
  <2>1. ThreadInv(t)'
    BY <1>0, <1>11 DEF CosignerSigns, ThreadInv, TypeOK, UnpaidBelow, Paid
  <2> QED
    BY <1>0, <1>1, <1>11, <2>1, LocalStep DEF CosignerSigns, TypeOK
<1>12. CASE SignFails(t)
  BY <1>4, <1>12 DEF SignFails
<1>13. CASE Submit(t)
  <2>1. CacheComplete' /\ PaidAtMostOnce'
    BY <1>13 DEF Submit, SafetyInv, CacheComplete, PaidAtMostOnce, Paid
  <2>2. ASSUME NEW tx \in inflight'
        PROVE  tx.seq <= horizon' + 1 /\ UnpaidBelow(tx.seq, tx.memo)'
    <3>1. CASE tx \in inflight
      BY <1>13, <3>1 DEF Submit, SafetyInv, NumberBeforeCheck, UnpaidBelow, Paid
    <3>2. CASE tx = [kind |-> job[t].kind, memo |-> job[t].memo, seq |-> txseq[t]]
      BY <1>0, <1>13, <3>2 DEF Submit, ThreadInv, UnpaidBelow, Paid
    <3> QED
      BY <1>13, <3>1, <3>2 DEF Submit
  <2>3. ASSUME NEW u \in Threads PROVE ThreadInv(u)'
    <3>1. ThreadInv(u)
      BY DEF SafetyInv, NumberBeforeCheck, ThreadInv
    <3> QED
      BY <1>0, <1>13, <3>1 DEF Submit, ThreadInv, TypeOK, UnpaidBelow, Paid
  <2> QED
    BY <2>1, <2>2, <2>3 DEF SafetyInv, NumberBeforeCheck, ThreadInv
<1>14. CASE SubmitSucceeds(t)
  BY <1>5, <1>14 DEF SubmitSucceeds
<1>15. CASE SubmitSoaked(t)
  BY <1>5, <1>15 DEF SubmitSoaked
<1>16. CASE SubmitFails(t)
  BY <1>4, <1>16 DEF SubmitFails
<1> QED
  BY <1>2, <1>3, <1>6, <1>7, <1>8, <1>9, <1>10, <1>11, <1>12, <1>13, <1>14,
     <1>15, <1>16 DEF Step

\* When a transaction is executed all smaller numbers are: none of them
\* answers the same hash, so this is its first payment.
LEMMA ApplySafety ==
  ASSUME SafetyInv, TypeOK', NEW tx \in inflight, Apply(tx)
  PROVE  SafetyInv'
<1> USE DEF storage, threads
<1>1. /\ TypeOK /\ tx.seq \in Nat /\ horizon \in Nat /\ Len(ledger) \in Nat
      /\ horizon <= Len(ledger) /\ cursor \in 0..horizon
      /\ \A t \in Threads : pos[t] \in Nat
  <2>1. TypeOK
    BY DEF SafetyInv
  <2>2. tx \in Txs /\ horizon \in 0..Len(ledger) /\ Len(ledger) \in Nat
    BY <2>1, BoundAssumption DEF TypeOK
  <2>3. ASSUME NEW t \in Threads PROVE pos[t] \in Nat
    BY <2>1, BoundAssumption DEF TypeOK
  <2>4. tx.seq \in Nat
    BY <2>2, BoundAssumption DEF Txs
  <2> QED
    BY <2>1, <2>2, <2>3, <2>4 DEF TypeOK
<1>2. PaidAtMostOnce'
  <2> SUFFICES ASSUME NEW i \in 1..Len(ledger'), NEW k \in 1..Len(ledger'),
                      Paid(i)', Paid(k)', ledger'[i].memo = ledger'[k].memo,
                      i < k
               PROVE  FALSE
    BY <1>1, ApplyLedger DEF PaidAtMostOnce
  <2>1. i \in 1..Len(ledger) /\ ledger'[i] = ledger[i]
    BY <1>1, ApplyLedger
  <2>2. CASE k \in 1..Len(ledger)
    BY <1>1, <2>1, <2>2, ApplyLedger DEF SafetyInv, PaidAtMostOnce, Paid
  <2>3. CASE k = Len(ledger) + 1
    <3>1. UnpaidBelow(tx.seq, tx.memo) /\ i < tx.seq
      BY <1>1, <2>1, <2>3, ApplyLedger DEF SafetyInv, NumberBeforeCheck
    <3> QED
      BY <1>1, <2>1, <2>3, <3>1, ApplyLedger DEF UnpaidBelow, Paid
  <2> QED
    BY <1>1, <2>2, <2>3, ApplyLedger
<1>3. CacheComplete'
  <2>1. UNCHANGED <<horizon, seen, cursor>>
    BY <1>1, ApplyLedger
  <2>2. ASSUME NEW i \in 1..horizon PROVE i \in 1..Len(ledger) /\ ledger'[i] = ledger[i]
    BY <1>1, ApplyLedger
  <2> QED
    BY <1>1, <2>1, <2>2 DEF SafetyInv, CacheComplete, Paid
<1>4. ASSUME NEW x \in inflight'
      PROVE  x.seq <= horizon' + 1 /\ UnpaidBelow(x.seq, x.memo)'
  <2>1. x \in inflight /\ x.seq \in Nat
    BY <1>1, ApplyLedger DEF TypeOK, Txs
  <2>2. x.seq <= horizon + 1 /\ UnpaidBelow(x.seq, x.memo)
    BY <2>1 DEF SafetyInv, NumberBeforeCheck
  <2> QED
    BY <1>1, <2>1, <2>2, ApplyKeepsUnpaid, ApplyLedger
<1>5. ASSUME NEW t \in Threads PROVE ThreadInv(t)'
  <2>1. ThreadInv(t)
    BY DEF SafetyInv, NumberBeforeCheck, ThreadInv
  <2>2. UNCHANGED <<horizon, pc, job, txseq, pos, seen>>
    BY <1>1, ApplyLedger
  <2>3. CASE pc[t] \in {"sign", "send", "wait"}
    <3>1. txseq[t] \in Nat /\ txseq[t] <= horizon + 1
      BY <1>1, <2>1, <2>3 DEF ThreadInv, TypeOK
    <3>2. UnpaidBelow(txseq[t], job[t].memo)'
      <4>1. UnpaidBelow(txseq[t], job[t].memo)
        BY <2>1, <2>3 DEF ThreadInv
      <4>2. SUFFICES ASSUME NEW i \in 1..Len(ledger'), i < txseq[t], Paid(i)'
                     PROVE  ledger'[i].memo # job[t].memo
        BY <2>2 DEF UnpaidBelow
      <4>3. i \in 1..Len(ledger) /\ ledger'[i] = ledger[i]
        BY <1>1, <3>1, <4>2, ApplyLedger
      <4> QED
        BY <4>1, <4>2, <4>3 DEF UnpaidBelow, Paid
    <3> QED
      BY <2>2, <2>3, <3>1, <3>2 DEF ThreadInv
  <2>4. CASE pc[t] \notin {"sign", "send", "wait"}
    <3>1. pc[t] = "scan" => \A i \in 1..pos[t] : ledger'[i] = ledger[i]
      BY <1>1, <2>1, ApplyLedger DEF ThreadInv
    <3> QED
      BY <1>1, <2>1, <2>2, <2>4, <3>1 DEF ThreadInv, Paid
  <2> QED
    BY <2>3, <2>4
<1> QED
  BY <1>2, <1>3, <1>4, <1>5 DEF SafetyInv, NumberBeforeCheck, ThreadInv

LEMMA SafetyStep == SafetyInv /\ [Next]_vars => SafetyInv'
<1> SUFFICES ASSUME SafetyInv, [Next]_vars PROVE SafetyInv'
  OBVIOUS
<1> USE DEF network, storage, threads
<1>0. TypeOK /\ TypeOK'
  BY TypeStep DEF SafetyInv
<1>1. ASSUME UNCHANGED <<ledger, horizon, seen, cursor, threads>>,
             inflight' \subseteq inflight
      PROVE  SafetyInv'
  <2>1. PaidAtMostOnce' /\ CacheComplete'
    BY <1>1 DEF SafetyInv, PaidAtMostOnce, CacheComplete, Paid
  <2>2. NumberBeforeCheck'
    BY <1>1 DEF SafetyInv, NumberBeforeCheck, UnpaidBelow, Paid
  <2> QED
    BY <1>0, <2>1, <2>2 DEF SafetyInv
<1>2. ASSUME NEW w \in Withdrawals, Remember(w) PROVE SafetyInv'
  BY <1>1, <1>2 DEF Remember
<1>3. ASSUME NEW t \in Threads, Step(t) PROVE SafetyInv'
  BY <1>0, <1>3, ThreadSafety
<1>4. ASSUME NEW tx \in inflight, Apply(tx) PROVE SafetyInv'
  BY <1>0, <1>4, ApplySafety
<1>5. ASSUME NEW tx \in inflight, Expire(tx) PROVE SafetyInv'
  BY <1>1, <1>5 DEF Expire
<1>6. CASE Ingest
  <2>1. PaidAtMostOnce' /\ CacheComplete'
    BY <1>6 DEF Ingest, SafetyInv, PaidAtMostOnce, CacheComplete, Paid
  <2>2. horizon \in Nat /\ \A tx \in inflight : tx.seq \in Nat
    BY <1>0 DEF TypeOK, Txs
  <2>3. UNCHANGED <<ledger, inflight, pc, job, txseq, pos>> /\ horizon' = horizon + 1
    BY <1>6 DEF Ingest
  <2>4. \A n, m : UnpaidBelow(n, m) => UnpaidBelow(n, m)'
    BY <2>3 DEF UnpaidBelow, Paid
  <2>5. ASSUME NEW tx \in inflight'
        PROVE  tx.seq <= horizon' + 1 /\ UnpaidBelow(tx.seq, tx.memo)'
    BY <2>2, <2>3, <2>4 DEF SafetyInv, NumberBeforeCheck
  <2>6. ASSUME NEW t \in Threads PROVE ThreadInv(t)'
    <3>1. ThreadInv(t) /\ txseq[t] \in Nat
      BY <1>0 DEF SafetyInv, NumberBeforeCheck, ThreadInv, TypeOK
    <3>2. pc[t] \notin {"idle", "load"} => txseq[t] <= horizon' + 1
      BY <2>2, <2>3, <3>1 DEF ThreadInv
    <3>3. pc[t] \in {"sign", "send", "wait"} => UnpaidBelow(txseq[t], job[t].memo)'
      BY <2>3, <2>4, <3>1 DEF ThreadInv
    <3>4. pc[t] = "scan" => pos[t] <= horizon' /\ pos[t] <= horizon
      BY <1>0, <2>2, <2>3, <3>1 DEF ThreadInv, TypeOK
    <3> QED
      BY <1>6, <2>3, <3>1, <3>2, <3>3, <3>4 DEF ThreadInv, Paid, Ingest
  <2>7. NumberBeforeCheck'
    BY <2>5, <2>6 DEF NumberBeforeCheck, ThreadInv
  <2> QED
    BY <1>0, <2>1, <2>7 DEF SafetyInv
<1>7. CASE Crash
  <2>1. PaidAtMostOnce' /\ CacheComplete'
    BY <1>7 DEF Crash, SafetyInv, PaidAtMostOnce, CacheComplete, Paid
  <2>2. NumberBeforeCheck'
    BY <1>7 DEF Crash, SafetyInv, NumberBeforeCheck, UnpaidBelow, Paid
  <2> QED
    BY <1>0, <2>1, <2>2 DEF SafetyInv
<1>8. CASE Start
  <2>1. PaidAtMostOnce'
    BY <1>8 DEF Start, SafetyInv, PaidAtMostOnce, Paid
  <2>2. \A i \in 1..horizon : Paid(i) => ledger[i].memo \in seen'
    BY <1>8 DEF Start, ListedMemos, Listed
  <2>3. CacheComplete'
    BY <1>0, <1>8, <2>2 DEF Start, CacheComplete, TypeOK, Paid
  <2>4. NumberBeforeCheck'
    BY <1>0, <1>8, <2>2
       DEF Start, SafetyInv, NumberBeforeCheck, TypeOK, UnpaidBelow, Paid
  <2> QED
    BY <1>0, <2>1, <2>3, <2>4 DEF SafetyInv
<1>9. CASE UNCHANGED vars
  BY <1>1, <1>9 DEF vars
<1> QED
  BY <1>2, <1>3, <1>4, <1>5, <1>6, <1>7, <1>8, <1>9 DEF Next

\* SafetyInv is inductive.
LEMMA Safety == Spec => []SafetyInv
<1>1. Init => SafetyInv
  BY SafetyInit
<1>2. SafetyInv /\ [Next]_vars => SafetyInv'
  BY SafetyStep
<1> QED
  BY <1>1, <1>2, PTL DEF Spec

\* No hash is answered by two executed payments, whatever is retried, raced
\* for or in flight during a crash.
THEOREM NoDoublePayment == Spec => []PaidAtMostOnce
<1>1. SafetyInv => PaidAtMostOnce
  BY DEF SafetyInv
<1> QED
  BY <1>1, Safety, PTL

\* The shared cursor never runs past a payment the cache does not know.
THEOREM CursorBehindCache == Spec => []CacheComplete
<1>1. SafetyInv => CacheComplete
  BY DEF SafetyInv
<1> QED
  BY <1>1, Safety, PTL

\* The sequence number of every prepared or submitted transaction was read
\* before its memo was found new.
THEOREM NumberReadFirst == Spec => []NumberBeforeCheck
<1>1. SafetyInv => NumberBeforeCheck
  BY DEF SafetyInv
<1> QED
  BY <1>1, Safety, PTL

-----------------------------------------------------------------------------
(* The cache is sound, so nothing is forgotten.                            *)

SoundInv == TypeOK /\ CacheSound

LEMMA SoundStep == SoundInv /\ [Next]_vars => SoundInv'
<1> SUFFICES ASSUME SoundInv, [Next]_vars PROVE CacheSound'
  BY TypeStep DEF SoundInv
<1> USE DEF network, storage, threads
<1>0. TypeOK /\ CacheSound /\ horizon \in Nat /\ Len(ledger) \in Nat
      /\ horizon <= Len(ledger)
  BY DEF SoundInv, TypeOK
<1>1. ASSUME UNCHANGED <<ledger, horizon>>,
             \A m \in seen' \ seen : \E i \in 1..horizon : Paid(i) /\ ledger[i].memo = m
      PROVE  CacheSound'
  BY <1>0, <1>1 DEF CacheSound, Paid
<1>2. ASSUME NEW w \in Withdrawals, Remember(w) PROVE CacheSound'
  BY <1>1, <1>2 DEF Remember
<1>3. ASSUME NEW t \in Threads, Step(t) PROVE CacheSound'
  <2>1. ASSUME NEW j \in Jobs, Begin(t, j) PROVE CacheSound'
    BY <1>1, <2>1 DEF Begin
  <2>2. CASE LoadAccount(t) \/ LoadFails(t) \/ StartScan(t)
    BY <1>1, <2>2 DEF LoadAccount, LoadFails, StartScan
  <2>3. CASE ScanStep(t)
    BY <1>1, <2>3 DEF ScanStep, Listed
  <2>4. CASE AlreadyPaid(t) \/ NotPaid(t)
    BY <1>1, <2>4 DEF AlreadyPaid, NotPaid
  <2>5. ASSUME NEW c \in Cosigners, CosignerSigns(t, c) PROVE CacheSound'
    BY <1>1, <2>5 DEF CosignerSigns
  <2>6. CASE SignFails(t) \/ Submit(t)
    BY <1>1, <2>6 DEF SignFails, Submit
  <2>7. CASE SubmitSucceeds(t)
    <3>1. txseq[t] \in Nat /\ txseq[t] <= horizon /\ seen' = seen \cup {job[t].memo}
          /\ UNCHANGED <<ledger, horizon>>
      BY <1>0, <2>7 DEF SubmitSucceeds, Answered, TypeOK
    <3>2. ledger[txseq[t]].memo = job[t].memo /\ Paid(txseq[t])
      BY <2>7 DEF SubmitSucceeds, Answered, Paid
    <3>3. txseq[t] > 0
      BY <1>0, <2>7 DEF SubmitSucceeds, Answered, TypeOK
    <3> QED
      BY <1>0, <1>1, <3>1, <3>2, <3>3
  <2>8. CASE SubmitSoaked(t) \/ SubmitFails(t)
    BY <1>1, <2>8 DEF SubmitSoaked, SubmitFails
  <2> QED
    BY <1>3, <2>1, <2>2, <2>3, <2>4, <2>5, <2>6, <2>7, <2>8 DEF Step
<1>4. ASSUME NEW tx \in inflight, Apply(tx) PROVE CacheSound'
  BY <1>0, <1>4, ApplyLedger DEF CacheSound, Paid
<1>5. ASSUME NEW tx \in inflight, Expire(tx) PROVE CacheSound'
  BY <1>1, <1>5 DEF Expire
<1>6. CASE Ingest
  BY <1>0, <1>6 DEF Ingest, CacheSound, Paid
<1>7. CASE Crash
  BY <1>7 DEF Crash, CacheSound
<1>8. CASE Start
  BY <1>1, <1>8 DEF Start, ListedMemos, Listed
<1>9. CASE UNCHANGED vars
  BY <1>1, <1>9 DEF vars
<1> QED
  BY <1>2, <1>3, <1>4, <1>5, <1>6, <1>7, <1>8, <1>9 DEF Next

\* The cache never reports a payment that did not happen.
THEOREM CacheNeverLies == Spec => []CacheSound
<1>1. Init => SoundInv
  BY TypeInit DEF Init, SoundInv, CacheSound
<1>2. SoundInv /\ [Next]_vars => SoundInv'
  BY SoundStep
<1>3. SoundInv => CacheSound
  BY DEF SoundInv
<1> QED
  BY <1>1, <1>2, <1>3, PTL DEF Spec

LEMMA ForgetStep == SoundInv /\ [Next]_vars => [ForgetsSettled]_vars
<1> SUFFICES ASSUME SoundInv, Next, up' PROVE ForgetsSettled
  BY DEF ForgetsSettled
<1>0. TypeOK /\ CacheSound
  BY DEF SoundInv
<1> USE DEF network, storage, threads
<1>1. ASSUME txMap \subseteq txMap', pc'[Monitor] = pc[Monitor] \/ pc'[Monitor] # "idle"
      PROVE  ForgetsSettled
  BY <1>1 DEF ForgetsSettled
<1>2. ASSUME NEW w \in Withdrawals, Remember(w) PROVE ForgetsSettled
  BY <1>1, <1>2 DEF Remember
<1>3. ASSUME NEW t \in Threads, Step(t) PROVE ForgetsSettled
  <2>1. ASSUME UNCHANGED txMap, pc' = [pc EXCEPT ![t] = pc'[t]],
               pc'[t] # "idle" \/ t # Monitor
        PROVE  ForgetsSettled
    BY <1>0, <1>1, <2>1 DEF TypeOK
  <2>2. CASE Fail(t)
    BY <1>0, <2>1, <2>2 DEF Fail, Leave, TypeOK
  <2>3. ASSUME Done(t), Settled(job[t].memo) PROVE ForgetsSettled
    BY <1>0, <2>3 DEF Done, Leave, TypeOK, ForgetsSettled
  <2>4. ASSUME NEW j \in Jobs, Begin(t, j) PROVE ForgetsSettled
    BY <1>0, <2>1, <2>4 DEF Begin, TypeOK
  <2>5. CASE LoadAccount(t) \/ StartScan(t) \/ NotPaid(t) \/ Submit(t)
    BY <1>0, <2>1, <2>5 DEF LoadAccount, StartScan, NotPaid, Submit, TypeOK
  <2>6. CASE ScanStep(t)
    BY <1>1, <2>6 DEF ScanStep
  <2>7. CASE AlreadyPaid(t)
    BY <1>0, <2>3, <2>7 DEF AlreadyPaid, CacheSound, Settled, Paid
  <2>8. ASSUME NEW c \in Cosigners, CosignerSigns(t, c) PROVE ForgetsSettled
    BY <1>0, <2>1, <2>8 DEF CosignerSigns, TypeOK
  <2>9. CASE LoadFails(t) \/ SignFails(t) \/ SubmitFails(t)
    BY <2>2, <2>9 DEF LoadFails, SignFails, SubmitFails
  <2>10. ASSUME NEW result \in {"ok", "no_trust"}, Answered(t, result)
         PROVE  Settled(job[t].memo)
    <3>1. txseq[t] \in 1..horizon
      BY <1>0, <2>10 DEF Answered, TypeOK
    <3> QED
      BY <2>10, <3>1 DEF Answered, Settled
  <2>11. CASE SubmitSucceeds(t) \/ SubmitSoaked(t)
    BY <2>3, <2>10, <2>11 DEF SubmitSucceeds, SubmitSoaked
  <2> QED
    BY <1>3, <2>4, <2>5, <2>6, <2>7, <2>8, <2>9, <2>11 DEF Step
<1>4. ASSUME NEW tx \in inflight, Apply(tx) \/ Expire(tx) PROVE ForgetsSettled
  BY <1>1, <1>4 DEF Apply, Expire
<1>5. CASE Ingest \/ Start
  BY <1>1, <1>5 DEF Ingest, Start
<1>6. CASE Crash
  BY <1>6 DEF Crash
<1> QED
  BY <1>2, <1>3, <1>4, <1>5, <1>6 DEF Next

\* A withdrawal, refund or fee is dropped only when Stellar has settled it.
THEOREM NothingIsForgotten == Spec => NothingForgotten
<1>1. Init => SoundInv
  BY TypeInit DEF Init, SoundInv, CacheSound
<1>2. SoundInv /\ [Next]_vars => SoundInv'
  BY SoundStep
<1>3. SoundInv /\ [Next]_vars => [ForgetsSettled]_vars
  BY ForgetStep
<1> QED
  BY <1>1, <1>2, <1>3, PTL DEF Spec, NothingForgotten

-----------------------------------------------------------------------------
(* The refinement.                                                         *)

LEMMA PayoutInit == Init => Payout!Init
BY DEF Init, Payout!Init, Executed

LEMMA LedgerOnlyGrows ==
  ASSUME [Next]_vars, ~ \E tx \in inflight : Apply(tx)
  PROVE  ledger' = ledger
<1> USE DEF network, storage, threads
<1>1. ASSUME NEW t \in Threads, Step(t) PROVE ledger' = ledger
  BY <1>1 DEF Step, Begin, LoadAccount, LoadFails, StartScan, ScanStep,
     AlreadyPaid, NotPaid, CosignerSigns, SignFails, Submit, SubmitSucceeds,
     SubmitSoaked, SubmitFails
<1> QED
  BY <1>1 DEF Next, vars, Remember, Expire, Ingest, Crash, Start

\* Only Apply touches the ledger: it executes one payment for a hash that has
\* none, or fails and maps to a stutter.
LEMMA PayoutStep ==
  ASSUME SafetyInv, SafetyInv', [Next]_vars
  PROVE  [Payout!Next]_Executed
<1>1. CASE ~ \E tx \in inflight : Apply(tx)
  <2>1. ledger' = ledger
    BY <1>1, LedgerOnlyGrows
  <2> QED
    BY <2>1 DEF Executed, Paid
<1>2. ASSUME NEW tx \in inflight, Apply(tx) PROVE [Payout!Next]_Executed
  <2> DEFINE n == Len(ledger) + 1
             r == [id |-> n, kind |-> ledger'[n].kind, memo |-> ledger'[n].memo]
  <2>0. TypeOK /\ TypeOK' /\ Len(ledger) \in Nat
    BY DEF SafetyInv, TypeOK
  <2>1. Len(ledger') = n /\ \A i \in 1..Len(ledger) : ledger'[i] = ledger[i]
    BY <1>2, <2>0, ApplyLedger
  <2>2. 1..Len(ledger') = 1..Len(ledger) \cup {n}
    BY <2>0, <2>1
  <2>3. CASE ledger'[n].result # "ok"
    BY <2>0, <2>1, <2>2, <2>3 DEF Executed, Paid
  <2>4. CASE ledger'[n].result = "ok"
    <3>1. Executed' = Executed \cup {r}
      BY <2>0, <2>1, <2>2, <2>4 DEF Executed, Paid
    <3>2. r \in Payout!Receipts
      <4>1. n \in 1..MaxLedger
        BY <2>0, <2>1, BoundAssumption DEF TypeOK
      <4>2. ledger'[n] \in Entries
        BY <2>0, <2>1 DEF TypeOK
      <4> QED
        BY <4>1, <4>2 DEF Payout!Receipts, Entries
    <3>3. \A paid \in Executed : paid.id # n /\ paid.memo # ledger'[n].memo
      <4> SUFFICES ASSUME NEW i \in 1..Len(ledger), Paid(i)
                   PROVE  i # n /\ ledger[i].memo # ledger'[n].memo
        BY DEF Executed
      <4>1. i # n /\ ledger'[i] = ledger[i] /\ i \in 1..n /\ n \in 1..n
        BY <2>0, <2>1
      <4> QED
        BY <2>1, <2>4, <4>1 DEF SafetyInv, PaidAtMostOnce, Paid
    <3> QED
      BY <3>1, <3>2, <3>3 DEF Payout!Next, Payout!Pay
  <2> QED
    BY <2>3, <2>4
<1> QED
  BY <1>1, <1>2

\* VaultPayments implements PayoutOnce.
THEOREM VaultImplementsPayout == Spec => PayoutSpec
<1>1. Init => Payout!Init
  BY PayoutInit
<1>2. SafetyInv /\ SafetyInv' /\ [Next]_vars => [Payout!Next]_Executed
  BY PayoutStep
<1> QED
  BY <1>1, <1>2, Safety, PTL DEF Spec, PayoutSpec, Payout!Spec
=============================================================================
