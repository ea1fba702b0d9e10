----------------------- MODULE AccountActivationProofs -----------------------
(***************************************************************************)
(* No request is executed twice on Stellar unless its account was merged   *)
(* away while that could happen, and none is missed after a restart, for   *)
(* all sets of requests and accounts and any number of blocks.             *)
(*                                                                         *)
(* FundedOnce is not inductive: a request that was executed might be       *)
(* executed again when its account is gone.  FundedInv says when it cannot *)
(* be.  As long as a late transaction or the handler beyond the memo check *)
(* may execute it, its account exists or was merged away too early         *)
(* (Guarded), and the handler gets beyond the check only while Horizon     *)
(* does not show the execution, when the same holds (Unlisted).            *)
(*                                                                         *)
(* SavedCovers rests on the order in which requests are handled: the       *)
(* batch is sorted by block and comes before all later searches            *)
(* (OrderInv), and every open request is at hand or still to be found      *)
(* (AheadInv), so that all before the one that is saved are settled.       *)
(***************************************************************************)
EXTENDS AccountActivation, FiniteSetTheorems, SequenceTheorems, TLAPS

Guarded ==
    \A r \in Requests :
        sent[r] > 0 /\ (r \in late \/ (job = r /\ pc \in {"load", "submit"}))
            => AccountOf[r] \in exists \/ r \in exposed

Unlisted ==
    \A r \in Requests :
        sent[r] > 0 /\ r \notin listed => AccountOf[r] \in exists \/ r \in exposed

FundedInv ==
    /\ sent \in [Requests -> Nat]
    /\ FundedOnce /\ Guarded /\ Unlisted

\* In the first state nothing has been executed.
LEMMA FundedInit == Init => FundedInv
  BY DEF Init, FundedInv, FundedOnce, Guarded, Unlisted

\* An execution counts once, unless the account stands in its way, and makes
\* every other transaction void.
LEMMA ExecuteOnce ==
    ASSUME NEW r, FundedInv, Execute(r),
           r \in Requests /\ sent[r] > 0 => AccountOf[r] \in exists \/ r \in exposed,
           exposed' = exposed
    PROVE  /\ sent' \in [Requests -> Nat]
           /\ FundedOnce'
           /\ late' = {}
           /\ exists \subseteq exists'
           /\ AccountOf[r] \in exists'
           /\ \A s \in Requests : s # r => sent'[s] = sent[s]
  <1>1. CASE AccountOf[r] \in exists
    BY <1>1 DEF Execute, FundedInv, FundedOnce
  <1>2. CASE AccountOf[r] \notin exists
    BY <1>2 DEF Execute, FundedInv, FundedOnce
  <1> QED BY <1>1, <1>2

\* Every step keeps FundedInv.
LEMMA FundedStep == FundedInv /\ [Next]_vars => FundedInv'
  <1> SUFFICES ASSUME FundedInv, [Next]_vars PROVE FundedInv'
    OBVIOUS
  <1> USE DEF FundedInv, history
  <1>1. ASSUME NEW S \in SUBSET Requests, Mine(S) PROVE FundedInv'
    BY <1>1 DEF Mine, network, handler, watcher, FundedOnce, Guarded, Unlisted
  <1>2. ASSUME NEW a \in StellarAccounts, Appear(a) PROVE FundedInv'
    BY <1>2 DEF Appear, handler, FundedOnce, Guarded, Unlisted
  <1>3. ASSUME NEW a \in StellarAccounts, Merge(a) PROVE FundedInv'
    <2>1. /\ exists' = exists \ {a} /\ exposed \subseteq exposed'
          /\ \A r \in Requests :
                sent[r] > 0 /\ AccountOf[r] = a /\ Repeatable(r) => r \in exposed'
          /\ UNCHANGED <<sent, late, listed, pc, job>>
      BY <1>3 DEF Merge, handler, Executed
    <2>2. Guarded'
      BY <2>1 DEF Guarded, Repeatable
    <2>3. Unlisted'
      BY <2>1 DEF Unlisted, Repeatable
    <2> QED BY <2>1, <2>2, <2>3 DEF FundedOnce
  <1>4. ASSUME NEW r \in Requests, ExecuteLate(r) PROVE FundedInv'
    <2>1. sent[r] > 0 => AccountOf[r] \in exists \/ r \in exposed
      BY <1>4 DEF ExecuteLate, Guarded
    <2>0. exposed' = exposed
      BY <1>4 DEF ExecuteLate, history
    <2>2. /\ sent' \in [Requests -> Nat] /\ FundedOnce' /\ late' = {}
          /\ exists \subseteq exists' /\ AccountOf[r] \in exists'
          /\ \A s \in Requests : s # r => sent'[s] = sent[s]
      BY <1>4, <2>0, <2>1, ExecuteOnce DEF ExecuteLate
    <2>3. Guarded'
      BY <1>4, <2>0, <2>2 DEF ExecuteLate, Guarded
    <2>4. Unlisted'
      BY <1>4, <2>0, <2>2 DEF ExecuteLate, Unlisted
    <2> QED BY <2>2, <2>3, <2>4
  <1>5. ASSUME NEW r \in Requests, Expire(r) PROVE FundedInv'
    BY <1>5 DEF Expire, handler, FundedOnce, Guarded, Unlisted
  <1>6. CASE Ingest
    <2>1. Guarded'
      BY <1>6 DEF Ingest, handler, Guarded
    <2>2. Unlisted'
      BY <1>6 DEF Ingest, Executed, Unlisted
    <2> QED BY <1>6, <2>1, <2>2 DEF Ingest, FundedOnce
  <1>7. ASSUME NEW h \in Rescans, Start(h) PROVE FundedInv'
    BY <1>7 DEF Start, network, handler, FundedOnce, Guarded, Unlisted
  <1>8. CASE Search
    BY <1>8 DEF Search, network, handler, FundedOnce, Guarded, Unlisted
  <1>9. CASE Receive
    BY <1>9 DEF Receive, network, FundedOnce, Guarded, Unlisted
  <1>10. CASE CheckMemo
    <2>1. Guarded'
      BY <1>10 DEF CheckMemo, network, NextRequest, Guarded, Unlisted
    <2> QED BY <1>10, <2>1 DEF CheckMemo, network, FundedOnce, Unlisted
  <1>11. CASE RejectAddress
    BY <1>11 DEF RejectAddress, NextRequest, network, FundedOnce, Guarded, Unlisted
  <1>12. CASE LoadAccount
    BY <1>12 DEF LoadAccount, network, FundedOnce, Guarded, Unlisted
  <1>13. CASE Created
    <2>1. job \in Requests /\ sent[job] > 0 => AccountOf[job] \in exists \/ job \in exposed
      BY <1>13 DEF Created, Guarded
    <2>2. /\ sent' \in [Requests -> Nat] /\ FundedOnce' /\ late' = {}
          /\ \A s \in Requests : s # job => sent'[s] = sent[s]
      BY <1>13, <2>1, ExecuteOnce DEF Created
    <2>3. Guarded'
      BY <1>13, <2>2 DEF Created, NextRequest, Guarded
    <2>4. Unlisted'
      BY <1>13, <2>2 DEF Created, Executed, Unlisted
    <2> QED BY <2>2, <2>3, <2>4
  <1>14. CASE AlreadyExists
    <2>1. sent' = sent /\ exists' = exists /\ late' = {} /\ exposed' = exposed
      BY <1>14 DEF AlreadyExists, Execute
    <2>2. Guarded'
      BY <1>14, <2>1 DEF AlreadyExists, NextRequest, Guarded
    <2>3. Unlisted'
      BY <1>14, <2>1 DEF AlreadyExists, Executed, Unlisted
    <2> QED BY <2>1, <2>2, <2>3 DEF FundedOnce
  <1>15. CASE Retry
    <2>1. Guarded'
      BY <1>15 DEF Retry, Guarded
    <2> QED BY <1>15, <2>1 DEF Retry, FundedOnce, Unlisted
  <1>16. CASE Crash
    BY <1>16 DEF Crash, NextRequest, network, FundedOnce, Guarded, Unlisted
  <1>17. CASE UNCHANGED vars
    BY <1>17 DEF vars, FundedOnce, Guarded, Unlisted
  <1> QED
    BY <1>1, <1>2, <1>3, <1>4, <1>5, <1>6, <1>7, <1>8, <1>9, <1>10, <1>11, <1>12,
       <1>13, <1>14, <1>15, <1>16, <1>17 DEF Next

\* A request is paid for at most once on Stellar: across late transactions,
\* retries without a memo check, crashes, and accounts that come and go, unless
\* its account goes while the request can be executed once more.
THEOREM NeverFundedTwice == Spec => []FundedOnce
  <1>1. FundedInv => FundedOnce
    BY DEF FundedInv
  <1> QED BY FundedInit, FundedStep, <1>1, PTL DEF Spec

-----------------------------------------------------------------------------
(* The types, and what a restart relies on.                                *)

\* A transaction is in one block.
MinedOnce ==
    \A m, n \in 1..Tip : chain[m] \cap chain[n] # {} => m = n

ChainTypes == chain \in Seq(SUBSET Requests) /\ Tip > 0 /\ MinedOnce

NetworkTypes ==
    /\ exists \subseteq Accounts /\ sent \in [Requests -> Nat] /\ late \subseteq Requests
    /\ current \in BOOLEAN /\ listed \subseteq Executed /\ exposed \subseteq Executed

\* What is at hand was mined.
HandlerTypes ==
    /\ up \in BOOLEAN /\ fresh \in BOOLEAN
    /\ batch \in Seq(Requests) /\ \A i \in DOMAIN batch : batch[i] \in Mined
    /\ pc \in {"idle", "check", "load", "submit"} /\ job \in Requests \cup {NoRequest}
    /\ (pc = "idle") = (job = NoRequest)
    /\ job # NoRequest => job \in Mined \ Other

HeightTypes ==
    /\ saved \in 0..Tip /\ watchFrom \in 0..(Tip + 1) \cup Rescans
    /\ since \in 0..Tip \cup Rescans /\ settled \subseteq Mined

TypeInv == ChainTypes /\ NetworkTypes /\ HandlerTypes /\ HeightTypes

\* A process that is down has nothing to do.
DownInv == ~up => watchFrom = 0 /\ batch = <<>> /\ job = NoRequest

\* The requests at hand are handled in the order of their blocks, all before
\* the next search.
OrderInv ==
    /\ \A i, j \in DOMAIN batch : i < j => BlockOf(batch[i]) <= BlockOf(batch[j])
    /\ \A i \in DOMAIN batch : BlockOf(batch[i]) < watchFrom
    /\ job # NoRequest =>
          BlockOf(job) < watchFrom
          /\ \A i \in DOMAIN batch : BlockOf(job) <= BlockOf(batch[i])

\* The search is not ahead of the chain but for blocks the service does not
\* answer for.
SearchInv == up => watchFrom > 0 /\ (watchFrom <= Tip + 1 \/ watchFrom <= since)

\* What is still open is at hand or will be found.
AheadInv ==
    up => \A r \in Mined \ Other :
        BlockOf(r) >= since /\ r \notin settled =>
            \/ r = job
            \/ \E i \in DOMAIN batch : batch[i] = r
            \/ BlockOf(r) >= watchFrom

\* A restart can do its work: of the open requests none is lost.
AnswerInv == DownInv /\ OrderInv /\ SearchInv /\ AheadInv /\ SavedCovers

RestartInv == TypeInv /\ AnswerInv

\* Where a request was mined.
LEMMA BlockOfMined ==
    ASSUME chain \in Seq(SUBSET Requests), NEW r \in Mined
    PROVE  BlockOf(r) \in 1..Tip /\ r \in chain[BlockOf(r)]
  <1>1. \E n \in 1..Tip : r \in chain[n]
    BY DEF Mined
  <1>2. BlockOf(r) = CHOOSE n \in 1..Tip : r \in chain[n]
    BY DEF BlockOf
  <1> QED BY <1>1, <1>2

LEMMA BlockOfType ==
    ASSUME chain \in Seq(SUBSET Requests), NEW r PROVE BlockOf(r) \in 0..Tip
  <1>1. Tip \in Nat
    BY DEF Tip
  <1>2. CASE r \in Mined
    BY <1>1, <1>2, BlockOfMined
  <1>3. CASE r \notin Mined
    BY <1>1, <1>3 DEF BlockOf
  <1> QED BY <1>2, <1>3

\* The chain without a new block.
LEMMA ChainKept ==
    ASSUME UNCHANGED chain
    PROVE  Tip' = Tip /\ Mined' = Mined /\ \A r : BlockOf(r)' = BlockOf(r)
  BY DEF Tip, Mined, BlockOf

\* A new block leaves the old ones in their place.
LEMMA ChainGrows ==
    ASSUME TypeInv, NEW S \in SUBSET Requests, S \cap Mined = {}, chain' = Append(chain, S)
    PROVE  /\ chain' \in Seq(SUBSET Requests) /\ Tip' = Tip + 1 /\ MinedOnce'
           /\ Mined' = Mined \cup S
           /\ \A r \in Mined : BlockOf(r)' = BlockOf(r)
           /\ \A r \in S : BlockOf(r)' = Tip + 1
  <1>1. /\ chain \in Seq(SUBSET Requests) /\ Tip \in Nat /\ MinedOnce
    BY DEF TypeInv, ChainTypes, Tip
  <1>2. /\ chain' \in Seq(SUBSET Requests) /\ Tip' = Tip + 1
        /\ chain'[Tip + 1] = S /\ \A n \in 1..Tip : chain'[n] = chain[n]
    BY <1>1 DEF Tip
  <1>3. Tip \in Nat
    BY <1>1
  <1>4. \A n : n \in 1..(Tip + 1) <=> n \in 1..Tip \/ n = Tip + 1
    BY <1>3
  <1>5. Mined' = Mined \cup S
    <2>1. Mined' = UNION {chain'[n] : n \in 1..(Tip + 1)}
      BY <1>2 DEF Mined
    <2>2. ASSUME NEW r PROVE r \in Mined' <=> r \in Mined \cup S
      <3>1. r \in Mined' <=> \E n \in 1..(Tip + 1) : r \in chain'[n]
        BY <2>1
      <3>2. r \in Mined <=> \E n \in 1..Tip : r \in chain[n]
        BY DEF Mined
      <3> QED BY <3>1, <3>2, <1>2, <1>4
    <2> QED BY <2>2
  <1>6. \A n \in 1..Tip : chain[n] \cap S = {}
    BY DEF Mined
  <1>7. \A m, n \in 1..(Tip + 1) : chain'[m] \cap chain'[n] # {} => m = n
    <2> SUFFICES ASSUME NEW m \in 1..(Tip + 1), NEW n \in 1..(Tip + 1), m # n
                 PROVE  chain'[m] \cap chain'[n] = {}
      OBVIOUS
    <2>1. CASE m \in 1..Tip /\ n \in 1..Tip
      BY <1>1, <1>2, <2>1 DEF MinedOnce
    <2>2. CASE m = Tip + 1
      <3>1. n \in 1..Tip
        BY <1>4, <2>2
      <3> QED BY <1>2, <1>6, <2>2, <3>1
    <2>3. CASE n = Tip + 1
      <3>1. m \in 1..Tip
        BY <1>4, <2>3
      <3> QED BY <1>2, <1>6, <2>3, <3>1
    <2> QED BY <1>4, <2>1, <2>2, <2>3
  <1>8. MinedOnce'
    BY <1>2, <1>7 DEF MinedOnce
  <1>9. ASSUME NEW r \in Mined \cup S, NEW n \in 1..(Tip + 1), r \in chain'[n]
        PROVE  BlockOf(r)' = n
    <2>1. r \in Mined'
      BY <1>5
    <2>2. BlockOf(r)' = CHOOSE m \in 1..(Tip + 1) : r \in chain'[m]
      BY <1>2, <2>1 DEF BlockOf
    <2>3. \A m \in 1..(Tip + 1) : r \in chain'[m] => m = n
      BY <1>7, <1>9
    <2> QED BY <1>9, <2>2, <2>3
  <1>10. ASSUME NEW r \in Mined PROVE BlockOf(r)' = BlockOf(r)
    <2>1. BlockOf(r) \in 1..Tip /\ r \in chain[BlockOf(r)]
      BY <1>1, BlockOfMined
    <2>2. BlockOf(r) \in 1..(Tip + 1) /\ r \in chain'[BlockOf(r)]
      BY <1>2, <1>4, <2>1
    <2> QED BY <1>9, <2>2
  <1>11. ASSUME NEW r \in S PROVE BlockOf(r)' = Tip + 1
    <2>1. Tip + 1 \in 1..(Tip + 1) /\ r \in chain'[Tip + 1]
      BY <1>1, <1>2
    <2> QED BY <1>9, <2>1
  <1> QED BY <1>2, <1>5, <1>8, <1>10, <1>11

\* A search finds what the blocks from watchFrom on hold, in order.
LEMMA SearchFinds ==
    ASSUME TypeInv, NEW S \in SUBSET Mined, NEW q \in InLogOrder(S)
    PROVE  /\ q \in Seq(Requests) /\ \A i \in DOMAIN q : q[i] \in S
           /\ \A r \in S : \E i \in DOMAIN q : q[i] = r
           /\ \A i, j \in DOMAIN q : i < j => BlockOf(q[i]) <= BlockOf(q[j])
  <1>1. Mined \subseteq Requests /\ chain \in Seq(SUBSET Requests)
    BY DEF TypeInv, ChainTypes, Mined, Tip
  <1>2. Cardinality(S) \in Nat
    <2>1. S \in SUBSET Requests
      BY <1>1
    <2>2. IsFiniteSet(S)
      BY <2>1, FS_Subset, ActivationAssumption
    <2> QED BY <2>2, FS_CardinalityType
  <1>3. q \in [1..Cardinality(S) -> S]
    BY DEF InLogOrder
  <1>4. \A r : BlockOf(r) \in Nat
    BY <1>1, BlockOfType DEF Tip
  <1>5. \A i, j \in DOMAIN q : i < j => BlockOf(q[i]) <= BlockOf(q[j])
    BY <1>4 DEF InLogOrder
  <1>6. \A r \in S : \E i \in DOMAIN q : q[i] = r
    BY DEF InLogOrder
  <1>7. q \in Seq(Requests)
    BY <1>1, <1>2, <1>3
  <1> QED BY <1>3, <1>5, <1>6, <1>7

\* An execution changes the network within its types.
LEMMA ExecuteTypes ==
    ASSUME NetworkTypes, NEW r \in Requests, Execute(r)
    PROVE  /\ exists' \subseteq Accounts /\ sent' \in [Requests -> Nat] /\ late' = {}
           /\ Executed \subseteq Executed'
           /\ AccountOf[r] \notin exists => r \in Executed'
  <1>1. AccountOf[r] \in Accounts
    BY DEF Accounts
  <1>2. CASE AccountOf[r] \in exists
    BY <1>2 DEF Execute, NetworkTypes, Executed
  <1>3. CASE AccountOf[r] \notin exists
    <2>1. sent' = [sent EXCEPT ![r] = @ + 1] /\ exists' = exists \cup {AccountOf[r]}
          /\ late' = {}
      BY <1>3 DEF Execute
    <2>2. sent' \in [Requests -> Nat] /\ sent'[r] > 0
          /\ \A s \in Requests : sent[s] > 0 => sent'[s] > 0
      BY <2>1 DEF NetworkTypes
    <2> QED BY <1>1, <2>1, <2>2 DEF NetworkTypes, Executed
  <1> QED BY <1>2, <1>3

\* The first state: one block with nothing in it.
LEMMA RestartInit == Init => RestartInv
  <1> SUFFICES ASSUME Init PROVE RestartInv
    OBVIOUS
  <1> USE DEF Init
  <1>1. chain \in Seq(SUBSET Requests) /\ Tip = 1 /\ chain[1] = {}
    BY DEF Tip
  <1>2. Mined = {}
    BY <1>1 DEF Mined
  <1>3. ChainTypes
    BY <1>1 DEF ChainTypes, MinedOnce
  <1>4. NetworkTypes
    BY DEF NetworkTypes, Executed
  <1>5. HandlerTypes
    <2>1. batch \in Seq(Requests) /\ \A i \in DOMAIN batch : batch[i] \in Mined
      OBVIOUS
    <2> QED BY <2>1 DEF HandlerTypes
  <1>6. HeightTypes
    BY <1>1 DEF HeightTypes
  <1>7. AnswerInv
    BY <1>2 DEF AnswerInv, DownInv, OrderInv, SearchInv, AheadInv, SavedCovers
  <1> QED BY <1>3, <1>4, <1>5, <1>6, <1>7 DEF RestartInv, TypeInv

\* Every step keeps the types.
LEMMA TypeStep == TypeInv /\ [Next]_vars => TypeInv'
  <1> SUFFICES ASSUME TypeInv, [Next]_vars PROVE TypeInv'
    OBVIOUS
  <1> USE DEF history
  <1>a. UNCHANGED chain => ChainTypes' /\ Tip' = Tip /\ Mined' = Mined
    BY ChainKept DEF TypeInv, ChainTypes, MinedOnce, Tip
  <1>b. UNCHANGED <<network, exposed>> => NetworkTypes'
    BY DEF TypeInv, NetworkTypes, Executed, network
  <1>c. UNCHANGED <<chain, up, batch, handler>> => HandlerTypes'
    BY <1>a DEF TypeInv, HandlerTypes, handler
  <1>d. UNCHANGED <<chain, saved, watchFrom, since, settled>> => HeightTypes'
    BY <1>a DEF TypeInv, HeightTypes
  <1>1. ASSUME NEW S \in SUBSET Requests, Mine(S) PROVE TypeInv'
    <2>1. /\ chain' \in Seq(SUBSET Requests) /\ Tip' = Tip + 1 /\ MinedOnce'
          /\ Mined' = Mined \cup S
      BY <1>1, ChainGrows DEF Mine
    <2>2. Tip \in Nat
      BY DEF TypeInv, ChainTypes, Tip
    <2>3. ChainTypes'
      BY <2>1, <2>2 DEF ChainTypes
    <2>4. HandlerTypes'
      BY <1>1, <2>1 DEF Mine, watcher, handler, TypeInv, HandlerTypes
    <2>5. HeightTypes'
      <3>1. 0..Tip \subseteq 0..Tip' /\ 0..(Tip + 1) \subseteq 0..(Tip' + 1)
        BY <2>1, <2>2
      <3> QED BY <1>1, <2>1, <3>1 DEF Mine, watcher, TypeInv, HeightTypes
    <2> QED BY <1>1, <1>b, <2>3, <2>4, <2>5 DEF Mine, TypeInv
  <1>2. ASSUME NEW a \in StellarAccounts, Appear(a) \/ Merge(a) PROVE TypeInv'
    <2>0. a \in Accounts
      BY DEF Accounts, StellarAccounts
    <2>1. NetworkTypes'
      BY <1>2, <2>0 DEF Appear, Merge, TypeInv, NetworkTypes, Executed
    <2> QED
      BY <1>2, <1>a, <1>c, <1>d, <2>1
      DEF Appear, Merge, ethereum, watcher, handler, TypeInv
  <1>3. ASSUME NEW r \in Requests, ExecuteLate(r) PROVE TypeInv'
    <2>1. NetworkTypes'
      BY <1>3, ExecuteTypes DEF ExecuteLate, TypeInv, NetworkTypes
    <2>2. HandlerTypes'
      BY <1>3, <1>a DEF ExecuteLate, ethereum, watcher, TypeInv, HandlerTypes
    <2> QED
      BY <1>3, <1>a, <1>d, <2>1, <2>2 DEF ExecuteLate, ethereum, watcher, TypeInv
  <1>4. ASSUME NEW r \in Requests, Expire(r) PROVE TypeInv'
    <2>1. NetworkTypes'
      BY <1>4 DEF Expire, TypeInv, NetworkTypes, Executed
    <2> QED
      BY <1>4, <1>a, <1>c, <1>d, <2>1 DEF Expire, ethereum, watcher, handler, TypeInv
  <1>5. CASE Ingest
    <2>1. NetworkTypes'
      BY <1>5 DEF Ingest, TypeInv, NetworkTypes, Executed
    <2> QED
      BY <1>5, <1>a, <1>c, <1>d, <2>1 DEF Ingest, ethereum, watcher, handler, TypeInv
  <1>6. ASSUME NEW h \in Rescans, Start(h) PROVE TypeInv'
    <2>1. Tip \in Nat
      BY DEF TypeInv, ChainTypes, Tip
    <2>2. watchFrom' \in 0..Tip \cup Rescans
      BY <1>6, <2>1 DEF Start, TypeInv, HeightTypes
    <2>3. since' \in 0..Tip \cup Rescans
      BY <1>6, <2>2 DEF Start, TypeInv, HeightTypes
    <2>4. HeightTypes'
      BY <1>6, <1>a, <2>1, <2>2, <2>3 DEF Start, ethereum, TypeInv, HeightTypes
    <2>5. HandlerTypes'
      BY <1>6, <1>a DEF Start, ethereum, handler, TypeInv, HandlerTypes
    <2> QED BY <1>6, <1>a, <1>b, <2>4, <2>5 DEF Start, ethereum, TypeInv
  <1>7. CASE Search
    <2> DEFINE S == {r \in Mined : BlockOf(r) >= watchFrom}
    <2>1. batch' \in InLogOrder(S) /\ S \in SUBSET Mined
      BY <1>7 DEF Search
    <2>2. batch' \in Seq(Requests) /\ \A i \in DOMAIN batch' : batch'[i] \in Mined
      BY <2>1, SearchFinds
    <2>3. HandlerTypes'
      BY <1>7, <1>a, <2>2 DEF Search, ethereum, handler, TypeInv, HandlerTypes
    <2>4. Tip + 1 \in 0..(Tip + 1)
      BY DEF TypeInv, ChainTypes, Tip
    <2>5. HeightTypes'
      BY <1>7, <1>a, <2>4 DEF Search, ethereum, TypeInv, HeightTypes
    <2> QED BY <1>7, <1>a, <1>b, <2>3, <2>5 DEF Search, ethereum, TypeInv
  <1>8. CASE Receive
    <2>1. /\ Tail(batch) \in Seq(Requests)
          /\ \A i \in DOMAIN Tail(batch) : Tail(batch)[i] \in Mined
          /\ Head(batch) \in Requests /\ Head(batch) \in Mined
      BY <1>8 DEF Receive, TypeInv, HandlerTypes
    <2>2. HandlerTypes'
      <3>1. CASE Head(batch) \in Other
        BY <1>8, <1>a, <2>1, <3>1 DEF Receive, ethereum, TypeInv, HandlerTypes
      <3>2. CASE Head(batch) \notin Other
        BY <1>8, <1>a, <2>1, <3>2, ActivationAssumption
        DEF Receive, ethereum, TypeInv, HandlerTypes
      <3> QED BY <3>1, <3>2
    <2> QED BY <1>8, <1>a, <1>b, <1>d, <2>2 DEF Receive, ethereum, TypeInv
  <1>9. ASSUME NextRequest, UNCHANGED <<chain, up, batch>> PROVE HandlerTypes'
    BY <1>9, <1>a DEF NextRequest, TypeInv, HandlerTypes
  <1>10. ASSUME pc # "idle", settled' = settled \cup {job},
                UNCHANGED <<chain, watcher, since>>, saved' \in 0..Tip
         PROVE  HeightTypes'
    BY <1>10, <1>a DEF watcher, TypeInv, HeightTypes, HandlerTypes
  <1>11. CASE CheckMemo
    <2>1. UNCHANGED <<chain, network, up, saved, watcher, since, exposed>>
      BY <1>11 DEF CheckMemo, ethereum
    <2>2. saved \in 0..Tip
      BY DEF TypeInv, HeightTypes
    <2>3. CASE job \in listed
      BY <1>11, <1>a, <1>b, <1>9, <1>10, <2>1, <2>2, <2>3 DEF CheckMemo, watcher, TypeInv
    <2>4. CASE job \notin listed
      <3>1. pc = "check" /\ pc' = "load" /\ UNCHANGED <<job, fresh, settled>>
        BY <1>11, <2>4 DEF CheckMemo
      <3>2. HandlerTypes'
        BY <1>a, <2>1, <3>1 DEF watcher, TypeInv, HandlerTypes
      <3> QED BY <1>a, <1>b, <1>d, <2>1, <3>1, <3>2 DEF watcher, TypeInv
    <2> QED BY <2>3, <2>4
  <1>12. CASE RejectAddress
    <2>1. saved \in 0..Tip
      BY DEF TypeInv, HeightTypes
    <2> QED
      BY <1>12, <1>a, <1>b, <1>9, <1>10, <2>1 DEF RejectAddress, ethereum, watcher, TypeInv
  <1>13. CASE LoadAccount
    <2>1. HandlerTypes'
      BY <1>13, <1>a
      DEF LoadAccount, ethereum, watcher, TypeInv, HandlerTypes, NetworkTypes
    <2> QED BY <1>13, <1>a, <1>b, <1>d, <2>1 DEF LoadAccount, ethereum, watcher, TypeInv
  <1>14. CASE Created
    <2>1. job \in Requests /\ pc # "idle"
      BY <1>14 DEF Created, TypeInv, HandlerTypes
    <2>2. NetworkTypes'
      <3>1. /\ exists' \subseteq Accounts /\ sent' \in [Requests -> Nat] /\ late' = {}
            /\ Executed \subseteq Executed' /\ job \in Executed'
        BY <1>14, <2>1, ExecuteTypes DEF Created, TypeInv
      <3>2. exposed' = exposed /\ exposed \subseteq Executed
        BY <1>14 DEF Created, TypeInv, NetworkTypes
      <3> QED BY <1>14, <3>1, <3>2 DEF Created, NetworkTypes
    <2>3. saved' \in 0..Tip
      <3>1. BlockOf(job) \in 0..Tip
        BY BlockOfType DEF TypeInv, ChainTypes
      <3> QED BY <1>14, <3>1 DEF Created, TypeInv, HeightTypes
    <2> QED
      BY <1>14, <1>a, <1>9, <1>10, <2>1, <2>2, <2>3 DEF Created, ethereum, watcher, TypeInv
  <1>15. CASE AlreadyExists
    <2>1. job \in Requests /\ pc # "idle" /\ saved \in 0..Tip
      BY <1>15 DEF AlreadyExists, TypeInv, HandlerTypes, HeightTypes
    <2>2. NetworkTypes'
      <3>1. /\ exists' \subseteq Accounts /\ sent' \in [Requests -> Nat] /\ late' = {}
            /\ Executed \subseteq Executed'
        BY <1>15, <2>1, ExecuteTypes DEF AlreadyExists, TypeInv
      <3>2. exposed' = exposed /\ exposed \subseteq Executed
        BY <1>15 DEF AlreadyExists, TypeInv, NetworkTypes
      <3> QED BY <1>15, <3>1, <3>2 DEF AlreadyExists, NetworkTypes
    <2> QED
      BY <1>15, <1>a, <1>9, <1>10, <2>1, <2>2 DEF AlreadyExists, ethereum, watcher, TypeInv
  <1>16. CASE Retry
    <2>1. pc = "submit" /\ job \in Requests
      BY <1>16 DEF Retry, TypeInv, HandlerTypes
    <2>2. NetworkTypes'
      BY <1>16, <2>1 DEF Retry, TypeInv, NetworkTypes, Executed
    <2>3. HandlerTypes'
      BY <1>16, <1>a, <2>1 DEF Retry, ethereum, watcher, TypeInv, HandlerTypes
    <2> QED BY <1>16, <1>a, <1>d, <2>2, <2>3 DEF Retry, ethereum, watcher, TypeInv
  <1>17. CASE Crash
    <2>1. HandlerTypes'
      <3>1. batch' \in Seq(Requests) /\ \A i \in DOMAIN batch' : batch'[i] \in Mined'
        BY <1>17 DEF Crash
      <3>2. pc' = "idle" /\ job' = NoRequest /\ fresh' = FALSE /\ up' = FALSE
        BY <1>17 DEF Crash, NextRequest
      <3>3. up' \in BOOLEAN /\ fresh' \in BOOLEAN /\ (pc' = "idle") = (job' = NoRequest)
        BY <3>2
      <3>4. /\ pc' \in {"idle", "check", "load", "submit"}
            /\ job' \in Requests \cup {NoRequest}
            /\ job' # NoRequest => job' \in Mined' \ Other
        BY <3>2
      <3> QED BY <3>1, <3>3, <3>4 DEF HandlerTypes
    <2>2. HeightTypes'
      BY <1>17, <1>a DEF Crash, ethereum, TypeInv, HeightTypes, ChainTypes, Tip
    <2> QED BY <1>17, <1>a, <1>b, <2>1, <2>2 DEF Crash, ethereum, TypeInv
  <1>18. CASE UNCHANGED vars
    BY <1>18, <1>a, <1>b, <1>c, <1>d DEF vars, network, handler, TypeInv
  <1> QED
    BY <1>1, <1>2, <1>3, <1>4, <1>5, <1>6, <1>7, <1>8, <1>11, <1>12, <1>13, <1>14,
       <1>15, <1>16, <1>17, <1>18 DEF Next

\* What the steps of the network and of a retry leave alone.
LEMMA AnswerKept ==
    ASSUME AnswerInv, UNCHANGED <<chain, up, saved, watcher, job, since, settled>>
    PROVE  AnswerInv'
  BY ChainKept
  DEF AnswerInv, DownInv, OrderInv, SearchInv, AheadInv, SavedCovers, watcher

\* The handler is done with a request.
LEMMA SettledAnswers ==
    ASSUME AnswerInv, NextRequest, settled' = settled \cup {job},
           UNCHANGED <<chain, up, watcher, since>>,
           \/ saved' = saved
           \/ up /\ job # NoRequest /\ saved' = BlockOf(job) /\ TypeInv
    PROVE  AnswerInv'
  <1>0. Tip' = Tip /\ Mined' = Mined /\ \A r : BlockOf(r)' = BlockOf(r)
    BY ChainKept
  <1>1. DownInv' /\ OrderInv' /\ SearchInv' /\ AheadInv'
    BY <1>0
    DEF AnswerInv, DownInv, OrderInv, SearchInv, AheadInv, NextRequest, watcher
  <1>2. SavedCovers'
    <2>1. CASE saved' = saved
      BY <1>0, <2>1 DEF AnswerInv, SavedCovers
    <2>2. CASE up /\ job # NoRequest /\ saved' = BlockOf(job) /\ TypeInv
      <3> SUFFICES ASSUME NEW r \in Mined \ Other, BlockOf(r) >= since,
                          BlockOf(r) < BlockOf(job), r \notin settled
                   PROVE  FALSE
        BY <1>0, <2>2 DEF SavedCovers
      <3>1. /\ BlockOf(r) \in Nat /\ BlockOf(job) \in Nat /\ watchFrom \in Nat
            /\ \A i \in DOMAIN batch : BlockOf(batch[i]) \in Nat
        BY <2>2, BlockOfType, ActivationAssumption DEF TypeInv, ChainTypes, HeightTypes, Tip
      <3>2. BlockOf(job) < watchFrom
            /\ \A i \in DOMAIN batch : BlockOf(job) <= BlockOf(batch[i])
        BY <2>2 DEF AnswerInv, OrderInv
      <3>3. \/ r = job \/ \E i \in DOMAIN batch : batch[i] = r
            \/ BlockOf(r) >= watchFrom
        BY <2>2 DEF AnswerInv, AheadInv
      <3> QED BY <3>1, <3>2, <3>3
    <2> QED BY <2>1, <2>2
  <1> QED BY <1>1, <1>2 DEF AnswerInv

\* Every step keeps what a restart relies on.
LEMMA AnswerStep ==
    ASSUME TypeInv, AnswerInv, [Next]_vars
    PROVE  AnswerInv'
  <1> USE DEF history
  <1>0. /\ Tip \in Nat /\ watchFrom \in Nat /\ saved \in 0..Tip /\ since \in Nat
        /\ \A r : BlockOf(r) \in 0..Tip
    BY BlockOfType, ActivationAssumption DEF TypeInv, ChainTypes, HeightTypes, Tip
  <1>1. ASSUME NEW S \in SUBSET Requests, Mine(S) PROVE AnswerInv'
    <2>1. /\ Tip' = Tip + 1 /\ Mined' = Mined \cup S
          /\ \A r \in Mined : BlockOf(r)' = BlockOf(r)
          /\ \A r \in S : BlockOf(r)' = Tip + 1
      BY <1>1, ChainGrows DEF Mine
    <2>2. UNCHANGED <<up, saved, watchFrom, batch, job, since, settled>>
      BY <1>1 DEF Mine, watcher, handler
    <2>3. DownInv'
      BY <2>2 DEF AnswerInv, DownInv
    <2>4. OrderInv'
      <3>1. /\ \A i \in DOMAIN batch : BlockOf(batch[i])' = BlockOf(batch[i])
            /\ job # NoRequest => BlockOf(job)' = BlockOf(job)
        BY <2>1, <2>2 DEF TypeInv, HandlerTypes
      <3> QED BY <2>2, <3>1 DEF AnswerInv, OrderInv
    <2>5. SearchInv'
      BY <1>0, <2>1, <2>2 DEF AnswerInv, SearchInv
    <2>6. AheadInv'
      <3> SUFFICES ASSUME up, NEW r \in Mined' \ Other, BlockOf(r)' >= since, r \notin settled
                   PROVE  \/ r = job \/ \E i \in DOMAIN batch : batch[i] = r
                          \/ BlockOf(r)' >= watchFrom
        BY <2>2 DEF AheadInv
      <3>1. CASE r \in Mined
        BY <2>1, <3>1 DEF AnswerInv, AheadInv
      <3>2. CASE r \in S
        BY <1>0, <2>1, <3>2 DEF AnswerInv, SearchInv
      <3> QED BY <2>1, <3>1, <3>2
    <2>7. SavedCovers'
      BY <1>0, <2>1, <2>2 DEF AnswerInv, SavedCovers
    <2> QED BY <2>3, <2>4, <2>5, <2>6, <2>7 DEF AnswerInv
  <1>2. ASSUME NEW a \in StellarAccounts, Appear(a) \/ Merge(a) PROVE AnswerInv'
    BY <1>2, AnswerKept DEF Appear, Merge, ethereum, handler
  <1>3. ASSUME NEW r \in Requests, ExecuteLate(r) \/ Expire(r) PROVE AnswerInv'
    BY <1>3, AnswerKept DEF ExecuteLate, Expire, ethereum, handler
  <1>4. CASE Ingest
    BY <1>4, AnswerKept DEF Ingest, ethereum, handler
  <1>5. ASSUME NEW h \in Rescans, Start(h) PROVE AnswerInv'
    <2>1. Tip' = Tip /\ Mined' = Mined /\ \A r : BlockOf(r)' = BlockOf(r)
      BY <1>5, ChainKept DEF Start, ethereum
    <2>2. /\ batch = <<>> /\ job = NoRequest /\ ~up /\ up'
          /\ UNCHANGED <<saved, batch, job, settled>>
      BY <1>5 DEF Start, handler, AnswerInv, DownInv
    <2>3. h \in Nat /\ Tip > 0
      BY ActivationAssumption DEF TypeInv, ChainTypes
    <2>4. /\ watchFrom' > 0 /\ watchFrom' \in Nat
          /\ saved = 0 => since' = watchFrom'
          /\ saved # 0 => since' = since /\ watchFrom' <= saved
      BY <1>0, <1>5, <2>3 DEF Start
    <2>5. DownInv' /\ OrderInv'
      BY <2>2 DEF DownInv, OrderInv
    <2>6. SearchInv'
      BY <1>0, <2>1, <2>4 DEF SearchInv
    <2>7. AheadInv'
      <3> SUFFICES ASSUME NEW r \in Mined \ Other, BlockOf(r) >= since', r \notin settled
                   PROVE  BlockOf(r) >= watchFrom'
        BY <2>1, <2>2 DEF AheadInv
      <3>1. CASE saved = 0
        BY <2>4, <3>1
      <3>2. CASE saved # 0
        <4>1. ~(BlockOf(r) < saved)
          BY <2>4, <3>2 DEF AnswerInv, SavedCovers
        <4> QED BY <1>0, <2>4, <3>2, <4>1
      <3> QED BY <3>1, <3>2
    <2>8. SavedCovers'
      <3>1. CASE saved = 0
        BY <1>0, <2>1, <2>2, <3>1 DEF SavedCovers
      <3>2. CASE saved # 0
        BY <2>1, <2>2, <2>4, <3>2 DEF AnswerInv, SavedCovers
      <3> QED BY <3>1, <3>2
    <2> QED BY <2>5, <2>6, <2>7, <2>8 DEF AnswerInv
  <1>6. CASE Search
    <2> DEFINE S == {r \in Mined : BlockOf(r) >= watchFrom}
    <2>1. Tip' = Tip /\ Mined' = Mined /\ \A r : BlockOf(r)' = BlockOf(r)
      BY <1>6, ChainKept DEF Search, ethereum
    <2>2. /\ up /\ batch = <<>> /\ watchFrom <= Tip /\ watchFrom' = Tip + 1
          /\ batch' \in InLogOrder(S) /\ S \in SUBSET Mined
          /\ UNCHANGED <<up, saved, job, since, settled>>
      BY <1>6 DEF Search, handler
    <2>3. /\ \A i \in DOMAIN batch' : batch'[i] \in S
          /\ \A r \in S : \E i \in DOMAIN batch' : batch'[i] = r
          /\ \A i, j \in DOMAIN batch' : i < j => BlockOf(batch'[i]) <= BlockOf(batch'[j])
      BY <2>2, SearchFinds
    <2>4. DownInv'
      BY <2>2 DEF DownInv
    <2>5. OrderInv'
      <3>1. \A i \in DOMAIN batch' : BlockOf(batch'[i]) >= watchFrom
                                     /\ BlockOf(batch'[i]) < watchFrom'
        BY <1>0, <2>2, <2>3
      <3>2. job # NoRequest => BlockOf(job) < watchFrom
        BY DEF AnswerInv, OrderInv
      <3> QED BY <1>0, <2>1, <2>2, <2>3, <3>1, <3>2 DEF OrderInv
    <2>6. SearchInv'
      BY <1>0, <2>1, <2>2 DEF SearchInv
    <2>7. AheadInv'
      <3> SUFFICES ASSUME NEW r \in Mined \ Other, BlockOf(r) >= since, r \notin settled,
                          r # job
                   PROVE  \E i \in DOMAIN batch' : batch'[i] = r
        BY <2>1, <2>2 DEF AheadInv
      <3>1. BlockOf(r) >= watchFrom
        BY <2>2 DEF AnswerInv, AheadInv
      <3> QED BY <2>3, <3>1
    <2>8. SavedCovers'
      BY <2>1, <2>2 DEF AnswerInv, SavedCovers
    <2> QED BY <2>4, <2>5, <2>6, <2>7, <2>8 DEF AnswerInv
  <1>7. CASE Receive
    <2>1. Tip' = Tip /\ Mined' = Mined /\ \A r : BlockOf(r)' = BlockOf(r)
      BY <1>7, ChainKept DEF Receive, ethereum
    <2>2. /\ job = NoRequest /\ batch \in Seq(Requests) /\ batch # <<>>
          /\ batch' = Tail(batch)
          /\ IF Head(batch) \in Other THEN job' = job ELSE job' = Head(batch)
          /\ UNCHANGED <<up, saved, watchFrom, since, settled>>
      BY <1>7 DEF Receive, TypeInv, HandlerTypes
    <2>3. /\ DOMAIN batch = 1..Len(batch) /\ Len(batch) \in Nat /\ Len(batch) > 0
          /\ DOMAIN batch' = 1..(Len(batch) - 1) /\ Head(batch) = batch[1]
          /\ \A i \in DOMAIN batch' : batch'[i] = batch[i + 1]
      BY <2>2
    <2>4. DownInv'
      BY <2>2 DEF AnswerInv, DownInv
    <2>5. OrderInv'
      <3>1. \A i \in DOMAIN batch' : i + 1 \in DOMAIN batch /\ 1 \in DOMAIN batch /\ 1 < i + 1
        BY <2>3
      <3>2. /\ \A i, j \in DOMAIN batch : i < j => BlockOf(batch[i]) <= BlockOf(batch[j])
            /\ \A i \in DOMAIN batch : BlockOf(batch[i]) < watchFrom
        BY DEF AnswerInv, OrderInv
      <3>3. \A i, j \in DOMAIN batch' : i < j => BlockOf(batch'[i]) <= BlockOf(batch'[j])
        BY <2>3, <3>1, <3>2
      <3>4. \A i \in DOMAIN batch' : BlockOf(batch'[i]) < watchFrom
                                     /\ BlockOf(Head(batch)) <= BlockOf(batch'[i])
        BY <2>3, <3>1, <3>2
      <3>5. BlockOf(Head(batch)) < watchFrom
        BY <2>3, <3>2
      <3> QED BY <2>1, <2>2, <3>3, <3>4, <3>5 DEF OrderInv
    <2>6. SearchInv'
      BY <2>1, <2>2 DEF AnswerInv, SearchInv
    <2>7. AheadInv'
      <3> SUFFICES ASSUME up, NEW r \in Mined \ Other, BlockOf(r) >= since, r \notin settled
                   PROVE  \/ r = job' \/ \E i \in DOMAIN batch' : batch'[i] = r
                          \/ BlockOf(r) >= watchFrom
        BY <2>1, <2>2 DEF AheadInv
      <3>1. \/ r = job \/ \E i \in DOMAIN batch : batch[i] = r
            \/ BlockOf(r) >= watchFrom
        <4>1. AheadInv
          BY DEF AnswerInv
        <4> QED BY <4>1 DEF AheadInv
      <3>2. r # NoRequest
        BY ActivationAssumption DEF Mined, TypeInv, ChainTypes, Tip
      <3>3. ASSUME NEW i \in DOMAIN batch, batch[i] = r
            PROVE  r = job' \/ \E j \in DOMAIN batch' : batch'[j] = r
        <4>1. CASE i = 1
          BY <2>2, <2>3, <3>3, <4>1
        <4>2. CASE i # 1
          <5>1. i - 1 \in DOMAIN batch' /\ batch'[i - 1] = r
            BY <2>3, <3>3, <4>2
          <5> QED BY <5>1
        <4> QED BY <4>1, <4>2
      <3> QED BY <2>2, <3>1, <3>2, <3>3
    <2>8. SavedCovers'
      BY <2>1, <2>2 DEF AnswerInv, SavedCovers
    <2> QED BY <2>4, <2>5, <2>6, <2>7, <2>8 DEF AnswerInv
  <1>8. CASE CheckMemo
    <2>1. CASE job \in listed
      BY <1>8, <2>1, SettledAnswers DEF CheckMemo, ethereum
    <2>2. CASE job \notin listed
      BY <1>8, <2>2, AnswerKept DEF CheckMemo, ethereum
    <2> QED BY <2>1, <2>2
  <1>9. CASE RejectAddress
    BY <1>9, SettledAnswers DEF RejectAddress, ethereum
  <1>10. CASE LoadAccount \/ Retry
    BY <1>10, AnswerKept DEF LoadAccount, Retry, ethereum
  <1>11. CASE Created
    <2>1. up /\ job # NoRequest
      BY <1>11 DEF Created, TypeInv, HandlerTypes, AnswerInv, DownInv
    <2> QED BY <1>11, <2>1, SettledAnswers DEF Created, ethereum
  <1>12. CASE AlreadyExists
    BY <1>12, SettledAnswers DEF AlreadyExists, ethereum
  <1>13. CASE Crash
    <2>1. Tip' = Tip /\ Mined' = Mined /\ \A r : BlockOf(r)' = BlockOf(r)
      BY <1>13, ChainKept DEF Crash, ethereum
    <2>2. /\ ~up' /\ watchFrom' = 0 /\ batch' = <<>> /\ job' = NoRequest
          /\ UNCHANGED <<saved, since, settled>>
      BY <1>13 DEF Crash, NextRequest
    <2> QED
      BY <2>1, <2>2
      DEF AnswerInv, DownInv, OrderInv, SearchInv, AheadInv, SavedCovers
  <1>14. CASE UNCHANGED vars
    BY <1>14, AnswerKept DEF vars, watcher
  <1> QED
    BY <1>1, <1>2, <1>3, <1>4, <1>5, <1>6, <1>7, <1>8, <1>9, <1>10, <1>11, <1>12,
       <1>13, <1>14 DEF Next

\* The variables keep their types; the saved block never runs ahead of the
\* chain, and Horizon lists only what was executed.
THEOREM TypeCorrect == Spec => []TypeOK
  <1>1. RestartInv /\ [Next]_vars => RestartInv'
    BY TypeStep, AnswerStep DEF RestartInv
  <1>2. RestartInv => TypeOK
    BY DEF RestartInv, TypeInv, ChainTypes, NetworkTypes, HandlerTypes, HeightTypes, TypeOK
  <1> QED BY RestartInit, <1>1, <1>2, PTL DEF Spec

\* A restart from the saved block misses no request that is still open:
\* requests are settled in the order of their blocks, so that a block is saved
\* only when all before it are done.
THEOREM RestartMissesNothing == Spec => []SavedCovers
  <1>1. RestartInv /\ [Next]_vars => RestartInv'
    BY TypeStep, AnswerStep DEF RestartInv
  <1>2. RestartInv => SavedCovers
    BY DEF RestartInv, AnswerInv
  <1> QED BY RestartInit, <1>1, <1>2, PTL DEF Spec
=============================================================================
