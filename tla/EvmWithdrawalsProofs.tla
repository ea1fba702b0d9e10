------------------------- MODULE EvmWithdrawalsProofs -------------------------
(***************************************************************************)
(* The main loop loses no withdrawal, for any events, delay, rescan        *)
(* heights, reorganisations and bounds: what it remembers stays remembered *)
(* until it is settled, and after a restart it knows of every withdrawal   *)
(* that was not confirmed by the last head it saved.  Without              *)
(* reorganisations it pays confirmed events only.                          *)
(*                                                                         *)
(* That what is read again is still there when it matters rests on blocks  *)
(* MaxReorg deep being final (PastInv): from the filter's answer a log     *)
(* goes to txMap and from there only to a receipt.                         *)
(***************************************************************************)
EXTENDS EvmWithdrawals, FiniteSetTheorems, TLAPS

\* No transaction emits two Withdraw events: txMap keeps one for each hash.
OneEventPerTx == \A e, f \in Events : TxOf[e] = TxOf[f] => e = f

ChainInv ==
    /\ chain \in Seq(Seq(Events)) /\ Len(chain) <= MaxBlock
    /\ currentBlock \in Nat /\ currentBlock <= Len(chain)

QueueInv ==
    /\ filterQ \in Seq(WithdrawEvents) /\ watchQ \in Seq(WithdrawEvents)
    /\ txMap \subseteq WithdrawEvents

LoopInv ==
    /\ nextHead \in 1..MaxBlock /\ head \in 0..MaxBlock
    /\ \A w, x \in txMap : TxOf[w.ev] = TxOf[x.ev] => w = x
    /\ todo \subseteq {w \in txMap : synced /\ head >= w.block + Delay}

StartInv ==
    /\ savedHeight \in 0..MaxBlock
    /\ up \in BOOLEAN /\ synced \in BOOLEAN
    /\ rescanHeight \in RescanHeights \cup {0}
    /\ height \in 0..MaxBlock
    /\ filtered \in BOOLEAN /\ subscribed \in BOOLEAN
    /\ filtered => up

VaultInv == receipts \subseteq Vault!Receipts /\ late \subseteq Events

TypeInv == ChainInv /\ QueueInv /\ LoopInv /\ StartInv /\ VaultInv

-----------------------------------------------------------------------------
(* Sequences.                                                              *)

LEMMA ElementsOfSeq ==
    ASSUME NEW S, NEW seq \in Seq(S) PROVE Elements(seq) \subseteq S
  BY DEF Elements

LEMMA ElementsOfAppend ==
    ASSUME NEW S, NEW s \in Seq(S), NEW t \in Seq(S)
    PROVE  s \o t \in Seq(S) /\ Elements(s \o t) \subseteq Elements(s) \cup Elements(t)
  <1>1. s \o t \in Seq(S) /\ DOMAIN (s \o t) = 1..(Len(s) + Len(t))
    OBVIOUS
  <1>2. ASSUME NEW i \in 1..(Len(s) + Len(t))
        PROVE  (s \o t)[i] \in Elements(s) \cup Elements(t)
    <2>1. CASE i \in 1..Len(s)
      BY <2>1 DEF Elements
    <2>2. CASE i \notin 1..Len(s)
      <3>1. i - Len(s) \in DOMAIN t /\ (s \o t)[i] = t[i - Len(s)]
        BY <2>2
      <3> QED BY <3>1 DEF Elements
    <2> QED BY <2>1, <2>2
  <1> QED BY <1>1, <1>2 DEF Elements

LEMMA Concatenation ==
    ASSUME NEW S, NEW s \in Seq(S), NEW t \in Seq(S)
    PROVE  /\ s \o t \in Seq(S) /\ Len(s \o t) = Len(s) + Len(t)
           /\ \A i \in 1..Len(s) : (s \o t)[i] = s[i]
  OBVIOUS

\* The head of a queue, and what is left of it.
LEMMA ElementsOfTail ==
    ASSUME NEW S, NEW seq \in Seq(S), seq # <<>>
    PROVE  /\ Head(seq) \in S /\ Tail(seq) \in Seq(S)
           /\ Elements(seq) = {Head(seq)} \cup Elements(Tail(seq))
  <1>1. Head(seq) = seq[1] /\ Tail(seq) \in Seq(S) /\ Len(Tail(seq)) = Len(seq) - 1
    OBVIOUS
  <1>2. \A i \in DOMAIN seq : i = 1 \/ (i - 1 \in DOMAIN Tail(seq)
                                        /\ seq[i] = Tail(seq)[i - 1])
    BY <1>1
  <1>3. \A i \in DOMAIN Tail(seq) : i + 1 \in DOMAIN seq /\ Tail(seq)[i] = seq[i + 1]
    BY <1>1
  <1>4. 1 \in DOMAIN seq
    OBVIOUS
  <1>5. Elements(seq) \subseteq {Head(seq)} \cup Elements(Tail(seq))
    <2> SUFFICES ASSUME NEW x \in Elements(seq)
                 PROVE  x \in {Head(seq)} \cup Elements(Tail(seq))
      OBVIOUS
    <2>1. PICK i \in DOMAIN seq : x = seq[i]
      BY DEF Elements
    <2>2. CASE i = 1
      BY <1>1, <2>1, <2>2
    <2>3. CASE i # 1
      BY <1>2, <2>1, <2>3 DEF Elements
    <2> QED BY <2>2, <2>3
  <1>6. {Head(seq)} \cup Elements(Tail(seq)) \subseteq Elements(seq)
    BY <1>1, <1>3, <1>4 DEF Elements
  <1> QED BY <1>1, <1>4, <1>5, <1>6

LEMMA ElementsOfSubSeq ==
    ASSUME NEW S, NEW seq \in Seq(S), NEW n \in 0..Len(seq)
    PROVE  SubSeq(seq, 1, n) \in Seq(S) /\ Elements(SubSeq(seq, 1, n)) \subseteq Elements(seq)
  BY DEF Elements

\* A block holds events.
LEMMA BlockType ==
    ASSUME NEW b, NEW events \in SUBSET Events, NEW block \in Blocks(b, events)
    PROVE  block \in Seq(Events)
  <1>1. \/ block = <<>>
        \/ \E e \in events : block = <<e>>
        \/ block \in events \X events
    BY DEF Blocks
  <1>2. CASE block \in events \X events
    <2>1. PICK e \in events, f \in events : block = <<e, f>>
      BY <1>2
    <2> QED BY <2>1
  <1>3. CASE \E e \in events : block = <<e>>
    BY <1>3
  <1>4. <<>> \in Seq(Events)
    OBVIOUS
  <1> QED BY <1>1, <1>2, <1>3, <1>4

\* The logs of a block name events of it.
LEMMA LogsType ==
    ASSUME NEW block \in Seq(Events), NEW b \in 1..MaxBlock
    PROVE  /\ Logs(block, b) \in Seq(WithdrawEvents)
           /\ \A w \in Elements(Logs(block, b)) : w.block = b /\ w.ev \in Elements(block)
  <1>1. \A i \in 1..Len(block) : [ev |-> block[i], block |-> b] \in WithdrawEvents
    BY DEF WithdrawEvents
  <1>2. Logs(block, b) = [i \in 1..Len(block) |-> [ev |-> block[i], block |-> b]]
    BY DEF Logs
  <1>3. Len(block) \in Nat
    OBVIOUS
  <1>4. Logs(block, b) \in [1..Len(block) -> WithdrawEvents]
    BY <1>1, <1>2
  <1>5. \A w \in Elements(Logs(block, b)) : w.block = b /\ w.ev \in Elements(block)
    BY <1>2 DEF Elements
  <1> QED BY <1>3, <1>4, <1>5

-----------------------------------------------------------------------------
(* What a step changes.                                                    *)

\* A new block, or a reorganisation of at most MaxReorg blocks: the blocks
\* below are final, and no block is lost.
LEMMA ChainGrows ==
    ASSUME ChainInv, Mine \/ \E n \in 1..MaxReorg : Reorg(n)
    PROVE  /\ chain' \in Seq(Seq(Events)) /\ Len(chain') <= MaxBlock
           /\ Len(chain) <= Len(chain')
           /\ \A b \in 1..(Len(chain) - MaxReorg) : chain'[b] = chain[b]
           /\ \E block \in Seq(Events), b \in (1..MaxBlock) \cap DOMAIN chain' :
                  chain'[b] = block /\ Watch(block, b)
  <1> USE WithdrawalsAssumption DEF ChainInv
  <1>1. CASE Mine
    <2>1. PICK block \in Blocks(Len(chain) + 1, Events \ OnChain(chain)) :
              chain' = Append(chain, block) /\ Watch(block, Len(chain) + 1)
      BY <1>1 DEF Mine, BlockNumber
    <2>2. block \in Seq(Events)
      BY BlockType
    <2>3. Len(chain) < MaxBlock
      BY <1>1 DEF Mine, BlockNumber
    <2>4. /\ chain' \in Seq(Seq(Events)) /\ Len(chain') = Len(chain) + 1
          /\ \A b \in 1..Len(chain) : chain'[b] = chain[b]
      BY <2>1, <2>2
    <2>5. Len(chain) + 1 \in 1..MaxBlock
      BY <2>3
    <2>6. Len(chain) + 1 \in DOMAIN chain' /\ chain'[Len(chain) + 1] = block
      BY <2>1, <2>2
    <2> QED BY <2>1, <2>2, <2>3, <2>4, <2>5, <2>6
  <1>2. ASSUME NEW n \in 1..MaxReorg, Reorg(n)
        PROVE  /\ chain' \in Seq(Seq(Events)) /\ Len(chain') <= MaxBlock
               /\ Len(chain) <= Len(chain')
               /\ \A b \in 1..(Len(chain) - MaxReorg) : chain'[b] = chain[b]
               /\ \E block \in Seq(Events), b \in (1..MaxBlock) \cap DOMAIN chain' :
                  chain'[b] = block /\ Watch(block, b)
    <2> DEFINE kept == SubSeq(chain, 1, Len(chain) - n)
               empty == [i \in 1..(n - 1) |-> <<>>]
    <2>1. n <= Len(chain)
      BY <1>2 DEF Reorg, BlockNumber
    <2>2. PICK block \in Blocks(Len(chain), Events \ OnChain(kept)) :
              chain' = kept \o empty \o <<block>> /\ Watch(block, Len(chain))
      BY <1>2 DEF Reorg, BlockNumber
    <2>3. block \in Seq(Events)
      BY BlockType
    <2>4. /\ kept \in Seq(Seq(Events)) /\ Len(kept) = Len(chain) - n
          /\ \A b \in 1..(Len(chain) - n) : kept[b] = chain[b]
      BY <2>1
    <2>5. empty \in Seq(Seq(Events)) /\ Len(empty) = n - 1
      OBVIOUS
    <2> HIDE DEF kept, empty
    <2>13. kept \o empty \in Seq(Seq(Events))
           /\ Len(kept \o empty) = Len(kept) + Len(empty)
           /\ \A i \in 1..Len(kept) : (kept \o empty)[i] = kept[i]
      <3>1. \A s, t \in Seq(Seq(Events)) :
                /\ s \o t \in Seq(Seq(Events)) /\ Len(s \o t) = Len(s) + Len(t)
                /\ \A i \in 1..Len(s) : (s \o t)[i] = s[i]
        BY Concatenation
      <3> QED BY <2>4, <2>5, <3>1
    <2>14. Len(kept \o empty) = Len(chain) - 1
      BY <2>4, <2>5, <2>13
    <2>15. \A b \in 1..(Len(chain) - n) : (kept \o empty)[b] = chain[b]
      BY <2>4, <2>13
    <2>6. /\ kept \o empty \in Seq(Seq(Events))
          /\ Len(kept \o empty) = Len(chain) - 1
          /\ \A b \in 1..(Len(chain) - n) : (kept \o empty)[b] = chain[b]
      BY <2>13, <2>14, <2>15
    <2> DEFINE base == kept \o empty
    <2>8. chain' = Append(base, block)
      BY <2>2, <2>3, <2>6
    <2> HIDE DEF base
    <2>9. /\ chain' \in Seq(Seq(Events)) /\ Len(chain') = Len(base) + 1
          /\ \A b \in 1..Len(base) : chain'[b] = base[b]
      BY <2>3, <2>6, <2>8 DEF base
    <2>10. Len(chain') = Len(chain)
      BY <2>6, <2>9 DEF base
    <2>11. \A b \in 1..(Len(chain) - n) : chain'[b] = chain[b]
      <3> TAKE b \in 1..(Len(chain) - n)
      <3>1. b \in 1..Len(base)
        BY <2>1, <2>6 DEF base
      <3> QED BY <2>6, <2>9, <3>1 DEF base
    <2>7. Len(chain) \in 1..MaxBlock
      BY <2>1
    <2>12. \A b \in 1..(Len(chain) - MaxReorg) : b \in 1..(Len(chain) - n)
      OBVIOUS
    <2>16. \A b \in 1..(Len(chain) - MaxReorg) : chain'[b] = chain[b]
      BY <2>11, <2>12
    <2>17. Len(chain') <= MaxBlock /\ Len(chain) <= Len(chain')
      BY <2>10
    <2>18. chain' \in Seq(Seq(Events))
      BY <2>9
    <2>19. Len(chain) \in DOMAIN chain' /\ chain'[Len(chain)] = block
      <3>1. Append(base, block)[Len(base) + 1] = block
        BY <2>3, <2>6 DEF base
      <3>2. Len(base) + 1 = Len(chain)
        BY <2>6, <2>7 DEF base
      <3> QED BY <2>7, <2>8, <2>10, <2>18, <3>1, <3>2
    <2> QED BY <2>2, <2>3, <2>7, <2>16, <2>17, <2>18, <2>19
  <1> QED BY <1>1, <1>2

\* The places of some blocks name logs of them.
LEMMA PlaceOfLog ==
    ASSUME ChainInv, NEW blocks, NEW p \in Places(blocks)
    PROVE  /\ p[1] \in blocks \cap DOMAIN chain /\ p[2] \in DOMAIN chain[p[1]]
           /\ LogAt(p) \in WithdrawEvents
           /\ LogAt(p).ev = chain[p[1]][p[2]] /\ LogAt(p).block = p[1]
  <1>1. PICK b \in blocks \cap DOMAIN chain : p \in {b} \X DOMAIN chain[b]
    BY DEF Places
  <1>2. p[1] = b /\ p[2] \in DOMAIN chain[b]
    BY <1>1
  <1>3. chain[b] \in Seq(Events) /\ b \in 1..MaxBlock
    BY WithdrawalsAssumption DEF ChainInv
  <1>4. chain[b][p[2]] \in Events
    BY <1>2, <1>3
  <1> QED BY <1>2, <1>3, <1>4 DEF LogAt, WithdrawEvents

LEMMA PlacesFinite ==
    ASSUME ChainInv, NEW blocks PROVE IsFiniteSet(Places(blocks))
  <1> DEFINE found == blocks \cap DOMAIN chain
             Column(b) == {b} \X DOMAIN chain[b]
             columns == {Column(b) : b \in found}
             column == [b \in found |-> Column(b)]
  <1>1. IsFiniteSet(found)
    <2>1. DOMAIN chain = 1..Len(chain) /\ 1 \in Int /\ Len(chain) \in Int
      BY DEF ChainInv
    <2>2. IsFiniteSet(DOMAIN chain)
      BY <2>1, FS_Interval
    <2> QED BY <2>2, FS_Subset
  <1>2. IsFiniteSet(columns)
    <2>1. column \in Surjection(found, columns)
      BY DEF Surjection
    <2> HIDE DEF found, columns, column
    <2> QED BY <1>1, <2>1, FS_Surjection
  <1>3. ASSUME NEW b \in found PROVE IsFiniteSet(Column(b))
    <2>1. chain[b] \in Seq(Events)
      BY DEF ChainInv
    <2>2. DOMAIN chain[b] = 1..Len(chain[b]) /\ 1 \in Int /\ Len(chain[b]) \in Int
      BY <2>1
    <2>3. IsFiniteSet(DOMAIN chain[b])
      BY <2>2, FS_Interval
    <2>4. IsFiniteSet({b})
      BY FS_Singleton
    <2> QED BY <2>3, <2>4, FS_Product
  <1>4. \A T \in columns : IsFiniteSet(T)
    BY <1>3
  <1>5. IsFiniteSet(UNION columns)
    <2> HIDE DEF columns
    <2> QED BY <1>2, <1>4, FS_UNION
  <1> QED BY <1>5 DEF Places

\* The filter answers with the logs of the blocks it is asked for.
LEMMA FilterReads ==
    ASSUME ChainInv, Filter
    PROVE  LET read == IF LastHeight < currentBlock
                       THEN Places(LastHeight..currentBlock) ELSE {}
           IN  /\ filterQ' \in Seq(WithdrawEvents)
               /\ Elements(filterQ') = {LogAt(p) : p \in read}
  <1> DEFINE read == IF LastHeight < currentBlock
                     THEN Places(LastHeight..currentBlock) ELSE {}
  <1>1. PICK seq \in InOrder(read) : filterQ' = [i \in DOMAIN seq |-> LogAt(seq[i])]
    BY DEF Filter
  <1>2. \A p \in read : LogAt(p) \in WithdrawEvents
    BY PlaceOfLog
  <1>5. Cardinality(read) \in Nat
    BY PlacesFinite, FS_EmptySet, FS_CardinalityType
  <1> HIDE DEF read
  <1>3. seq \in [1..Cardinality(read) -> read] /\ Elements(seq) = read
    BY DEF InOrder
  <1>4. Elements(filterQ') = {LogAt(p) : p \in read}
    BY <1>1, <1>3 DEF Elements
  <1>6. filterQ' \in [1..Cardinality(read) -> WithdrawEvents]
    BY <1>1, <1>2, <1>3
  <1> QED BY <1>4, <1>5, <1>6 DEF read

LEMMA ChainStep == TypeInv /\ [Next]_vars => ChainInv' /\ Len(chain) <= Len(chain')
  <1> SUFFICES ASSUME TypeInv, [Next]_vars PROVE ChainInv' /\ Len(chain) <= Len(chain')
    OBVIOUS
  <1> USE DEF TypeInv
  <1>1. CASE Mine \/ \E n \in 1..MaxReorg : Reorg(n)
    <2>1. currentBlock' = currentBlock
      BY <1>1 DEF Mine, Reorg, start
    <2>2. /\ chain' \in Seq(Seq(Events)) /\ Len(chain') <= MaxBlock
          /\ Len(chain) <= Len(chain')
      BY <1>1, ChainGrows
    <2>3. Len(chain) \in Nat /\ Len(chain') \in Nat
      BY <2>2 DEF ChainInv
    <2> QED BY <2>1, <2>2, <2>3 DEF ChainInv
  <1>2. CASE AnyStart
    BY <1>2 DEF AnyStart, Start, ethereum, BlockNumber, ChainInv
  <1>3. CASE Crash
    BY <1>3 DEF Crash, ethereum, ChainInv
  <1>4. CASE \/ Filter \/ Subscribe \/ Disconnect \/ TakeFiltered \/ TakeWatched
             \/ (\E insync \in BOOLEAN : AnyHead(insync)) \/ Withdraw \/ SaveHeight
             \/ (\E e \in late : LatePayment(e)) \/ UNCHANGED vars
    <2>1. UNCHANGED <<chain, currentBlock>>
      BY <1>4 DEF Filter, Subscribe, Disconnect, TakeFiltered, TakeWatched,
                  AnyHead, NewHead, Withdraw, WithdrawSkips, WithdrawPays,
                  WithdrawFails, SaveHeight, LatePayment, vars, ethereum, start
    <2> QED BY <2>1 DEF ChainInv
  <1> QED BY <1>1, <1>2, <1>3, <1>4 DEF Next

\* Remembering keeps one entry for a hash, and drops only one of that hash.
LEMMA RememberStep ==
    ASSUME QueueInv, LoopInv, NEW we \in WithdrawEvents, Remember(we)
    PROVE  /\ txMap' \subseteq WithdrawEvents
           /\ \A w, x \in txMap' : TxOf[w.ev] = TxOf[x.ev] => w = x
           /\ OneEventPerTx => \A e \in Events : Remembered(e) => Remembered(e)'
           /\ we.ev \in Foreign \/ Remembered(we.ev)'
  <1>1. txMap' = IF we.ev \in Foreign THEN txMap
                 ELSE {w \in txMap : TxOf[w.ev] # TxOf[we.ev]} \cup {we}
    BY DEF Remember
  <1>2. txMap \subseteq WithdrawEvents
        /\ \A w, x \in txMap : TxOf[w.ev] = TxOf[x.ev] => w = x
    BY DEF QueueInv, LoopInv
  <1>3. txMap' \subseteq WithdrawEvents
    BY <1>1, <1>2
  <1>4. \A w, x \in txMap' : TxOf[w.ev] = TxOf[x.ev] => w = x
    BY <1>1, <1>2
  <1>5. ASSUME OneEventPerTx, NEW e \in Events, Remembered(e) PROVE Remembered(e)'
    <2>1. PICK w \in txMap : w.ev = e
      BY <1>5 DEF Remembered
    <2>2. w \in txMap' \/ TxOf[e] = TxOf[we.ev]
      BY <1>1, <2>1
    <2>3. we.ev \in Events
      BY DEF WithdrawEvents
    <2>4. CASE w \in txMap'
      BY <2>1, <2>4 DEF Remembered
    <2>5. CASE w \notin txMap'
      <3>1. e = we.ev
        BY <1>5, <2>2, <2>3, <2>5 DEF OneEventPerTx
      <3>2. we \in txMap'
        BY <1>1, <2>1, <2>5
      <3> QED BY <3>1, <3>2 DEF Remembered
    <2> QED BY <2>4, <2>5
  <1>6. we.ev \in Foreign \/ Remembered(we.ev)'
    BY <1>1 DEF Remembered
  <1> QED BY <1>3, <1>4, <1>5, <1>6

LEMMA QueueStep == TypeInv /\ [Next]_vars => QueueInv'
  <1> SUFFICES ASSUME TypeInv, [Next]_vars PROVE QueueInv'
    OBVIOUS
  <1>0. ChainInv /\ QueueInv /\ LoopInv
    BY DEF TypeInv
  <1>1. CASE Mine \/ \E n \in 1..MaxReorg : Reorg(n)
    <2>1. PICK block \in Seq(Events), b \in 1..MaxBlock : Watch(block, b)
      BY <1>0, <1>1, ChainGrows
    <2>2. UNCHANGED <<filterQ, txMap>>
      BY <1>1 DEF Mine, Reorg, loop
    <2>3. Logs(block, b) \in Seq(WithdrawEvents)
      BY LogsType
    <2>4. watchQ' \in Seq(WithdrawEvents)
      BY <1>0, <2>1, <2>3, ElementsOfAppend DEF Watch, QueueInv
    <2> QED BY <1>0, <2>2, <2>4 DEF QueueInv
  <1>2. CASE Filter
    BY <1>0, <1>2, FilterReads DEF Filter, loop, QueueInv
  <1>3. CASE Disconnect
    BY <1>0, <1>3, ElementsOfSubSeq DEF Disconnect, loop, QueueInv
  <1>4. CASE TakeFiltered
    BY <1>0, <1>4, ElementsOfTail, RememberStep DEF TakeFiltered, QueueInv
  <1>5. CASE TakeWatched
    BY <1>0, <1>5, ElementsOfTail, RememberStep DEF TakeWatched, QueueInv
  <1>6. CASE Crash
    BY <1>6 DEF Crash, QueueInv
  <1>7. CASE Withdraw
    BY <1>0, <1>7 DEF Withdraw, WithdrawSkips, WithdrawPays, WithdrawFails,
                      sources, QueueInv
  <1>8. CASE \/ AnyStart \/ Subscribe \/ (\E insync \in BOOLEAN : AnyHead(insync))
             \/ SaveHeight \/ (\E e \in late : LatePayment(e)) \/ UNCHANGED vars
    <2>1. UNCHANGED <<filterQ, watchQ, txMap>>
      BY <1>8 DEF AnyStart, Start, Subscribe, AnyHead, NewHead, SaveHeight,
                  LatePayment, vars, sources, loop
    <2> QED BY <1>0, <2>1 DEF QueueInv
  <1> QED BY <1>1, <1>2, <1>3, <1>4, <1>5, <1>6, <1>7, <1>8 DEF Next

LEMMA LoopStep == TypeInv /\ [Next]_vars => LoopInv'
  <1> SUFFICES ASSUME TypeInv, [Next]_vars PROVE LoopInv'
    OBVIOUS
  <1>0. ChainInv /\ QueueInv /\ LoopInv
    BY DEF TypeInv
  <1> USE WithdrawalsAssumption
  <1>1. CASE Mine \/ \E n \in 1..MaxReorg : Reorg(n)
    <2>2. BlockNumber \in 0..MaxBlock
      BY <1>0 DEF ChainInv, BlockNumber
    <2>3. CASE Mine
      BY <1>0, <2>3 DEF Mine, loop, LoopInv
    <2>4. ASSUME NEW n \in 1..MaxReorg, Reorg(n) PROVE LoopInv'
      <3>1. /\ UNCHANGED <<synced, txMap, head, todo>>
            /\ nextHead' \in {nextHead, BlockNumber} /\ n <= BlockNumber
        BY <2>4 DEF Reorg
      <3>2. nextHead' \in 1..MaxBlock
        BY <1>0, <2>2, <3>1 DEF LoopInv
      <3> QED BY <1>0, <3>1, <3>2 DEF LoopInv
    <2> QED BY <1>1, <2>3, <2>4
  <1>2. CASE AnyStart
    <2>1. UNCHANGED <<synced, txMap, head, todo>> /\ nextHead' = HeadAfter(Len(chain))
      BY <1>2 DEF AnyStart, Start, BlockNumber
    <2>2. HeadAfter(Len(chain)) \in 1..MaxBlock
      BY <1>0 DEF HeadAfter, ChainInv
    <2> QED BY <1>0, <2>1, <2>2 DEF LoopInv
  <1>3. CASE \E insync \in BOOLEAN : AnyHead(insync)
    <2>1. PICK insync \in BOOLEAN, n \in nextHead..BlockNumber : NewHead(n, insync)
      BY <1>3 DEF AnyHead
    <2>2. n \in 1..MaxBlock /\ HeadAfter(n) \in 1..MaxBlock
      BY <1>0 DEF LoopInv, ChainInv, BlockNumber, HeadAfter
    <2>3. /\ head' = n /\ nextHead' = HeadAfter(n) /\ txMap' = txMap
          /\ todo' = IF synced' THEN {w \in txMap : n >= w.block + Delay} ELSE {}
      BY <2>1 DEF NewHead
    <2>4. todo' \subseteq {w \in txMap : synced' /\ head' >= w.block + Delay}
      BY <2>3
    <2> QED BY <1>0, <2>2, <2>3, <2>4 DEF LoopInv
  <1>4. CASE TakeFiltered \/ TakeWatched
    <2>1. /\ \E we \in WithdrawEvents : Remember(we)
          /\ head = 0 /\ UNCHANGED <<synced, nextHead, head, todo>>
      BY <1>0, <1>4, ElementsOfTail DEF TakeFiltered, TakeWatched, QueueInv, Idle
    <2>2. \A w, x \in txMap' : TxOf[w.ev] = TxOf[x.ev] => w = x
      BY <1>0, <2>1, RememberStep
    <2>3. ASSUME NEW w \in todo PROVE FALSE
      <3>1. w \in txMap /\ 0 >= w.block + Delay
        BY <1>0, <2>1 DEF LoopInv
      <3>2. w.block \in 1..MaxBlock
        BY <1>0, <3>1 DEF QueueInv, WithdrawEvents
      <3> QED BY <3>1, <3>2
    <2> QED BY <1>0, <2>1, <2>2, <2>3 DEF LoopInv
  <1>5. CASE Withdraw
    <2>1. /\ UNCHANGED <<synced, nextHead, head>>
          /\ \E we \in todo : /\ todo' = todo \ {we}
                              /\ txMap' = txMap \/ txMap' = txMap \ {we}
      BY <1>5 DEF Withdraw, WithdrawSkips, WithdrawPays, WithdrawFails
    <2>2. \A w, x \in txMap' : TxOf[w.ev] = TxOf[x.ev] => w = x
      BY <1>0, <2>1 DEF LoopInv
    <2>3. todo' \subseteq {w \in txMap' : synced /\ head >= w.block + Delay}
      BY <1>0, <2>1 DEF LoopInv
    <2> QED BY <1>0, <2>1, <2>2, <2>3 DEF LoopInv
  <1>6. CASE SaveHeight
    <2>1. UNCHANGED <<synced, nextHead, txMap, todo>> /\ todo = {} /\ head' = 0
      BY <1>6 DEF SaveHeight, Idle
    <2> QED BY <1>0, <2>1 DEF LoopInv
  <1>7. CASE Crash
    BY <1>7 DEF Crash, LoopInv, Idle
  <1>8. CASE \/ Filter \/ Subscribe \/ Disconnect
             \/ (\E e \in late : LatePayment(e)) \/ UNCHANGED vars
    <2>1. UNCHANGED <<synced, nextHead, txMap, head, todo>>
      BY <1>8 DEF Filter, Subscribe, Disconnect, LatePayment, vars, loop
    <2> QED BY <1>0, <2>1 DEF LoopInv
  <1> QED BY <1>1, <1>2, <1>3, <1>4, <1>5, <1>6, <1>7, <1>8 DEF Next

LEMMA StartStep == TypeInv /\ [Next]_vars => StartInv'
  <1> SUFFICES ASSUME TypeInv, [Next]_vars PROVE StartInv'
    OBVIOUS
  <1>0. ChainInv /\ LoopInv /\ StartInv
    BY DEF TypeInv
  <1> USE WithdrawalsAssumption
  <1>1. CASE AnyStart
    <2>1. PICK flag \in RescanHeights : Start(flag)
      BY <1>1 DEF AnyStart
    <2>2. /\ up' = TRUE /\ rescanHeight' = flag /\ height' = savedHeight
          /\ UNCHANGED <<savedHeight, synced, filtered, subscribed>>
      BY <2>1 DEF Start, sources
    <2> QED BY <1>0, <2>2 DEF StartInv
  <1>2. CASE Filter \/ Subscribe \/ Disconnect
    <2>1. UNCHANGED <<savedHeight, up, synced, rescanHeight, height>>
      BY <1>2 DEF Filter, Subscribe, Disconnect, start, loop
    <2>2. filtered' \in BOOLEAN /\ subscribed' \in BOOLEAN
      BY <1>0, <1>2 DEF Filter, Subscribe, Disconnect, StartInv
    <2>3. filtered' => up'
      BY <1>0, <1>2, <2>1 DEF Filter, Subscribe, Disconnect, StartInv
    <2> QED BY <1>0, <2>1, <2>2, <2>3 DEF StartInv
  <1>3. CASE \E insync \in BOOLEAN : AnyHead(insync)
    <2>1. PICK insync \in BOOLEAN, n \in Int : NewHead(n, insync)
      BY <1>3 DEF AnyHead, BlockNumber
    <2>2. synced' = (synced \/ insync)
          /\ UNCHANGED <<savedHeight, up, rescanHeight, height, filtered, subscribed>>
      BY <2>1 DEF NewHead, start, sources
    <2>3. synced' \in BOOLEAN
      BY <2>2
    <2> QED BY <1>0, <2>2, <2>3 DEF StartInv
  <1>4. CASE SaveHeight
    <2>1. savedHeight' \in {head, savedHeight}
          /\ UNCHANGED <<up, synced, rescanHeight, height, filtered, subscribed>>
      BY <1>4 DEF SaveHeight, start, sources
    <2> QED BY <1>0, <2>1 DEF StartInv, LoopInv
  <1>5. CASE Crash
    <2>1. /\ up' = FALSE /\ synced' = FALSE /\ filtered' = FALSE
          /\ subscribed' = FALSE /\ rescanHeight' = 0 /\ height' = 0
          /\ savedHeight' = savedHeight
      BY <1>5 DEF Crash
    <2>2. /\ up' \in BOOLEAN /\ synced' \in BOOLEAN /\ filtered' \in BOOLEAN
          /\ subscribed' \in BOOLEAN
      BY <2>1
    <2> QED BY <1>0, <2>1, <2>2 DEF StartInv
  <1>6. CASE \/ Mine \/ (\E n \in 1..MaxReorg : Reorg(n)) \/ TakeFiltered \/ TakeWatched
             \/ Withdraw \/ (\E e \in late : LatePayment(e)) \/ UNCHANGED vars
    <2>1. UNCHANGED <<savedHeight, up, synced, rescanHeight, height, filtered, subscribed>>
      BY <1>6 DEF Mine, Reorg, TakeFiltered, TakeWatched, Withdraw, WithdrawSkips,
                  WithdrawPays, WithdrawFails, LatePayment, vars, start, sources, loop
    <2> QED BY <1>0, <2>1 DEF StartInv
  <1> QED BY <1>1, <1>2, <1>3, <1>4, <1>5, <1>6 DEF Next

\* A payment of the vault.
LEMMA PaysStep ==
    ASSUME VaultInv, NEW we, we.ev \in Events, VaultPays(we)
    PROVE  /\ receipts' \subseteq Vault!Receipts /\ receipts \subseteq receipts'
           /\ \E r \in receipts' : r.memo = TxOf[we.ev]
           /\ \A r \in receipts' \ receipts : r.memo = TxOf[we.ev]
  <1> DEFINE r == [id |-> TxOf[we.ev], kind |-> "withdraw", memo |-> TxOf[we.ev]]
  <1>1. receipts' = receipts \cup {r} /\ r.memo = TxOf[we.ev]
    BY DEF VaultPays, Vault!Pay
  <1>2. r \in Vault!Receipts
    BY DEF Vault!Receipts, Txs
  <1>3. receipts' \subseteq Vault!Receipts /\ r \in receipts'
    BY <1>1, <1>2 DEF VaultInv
  <1>4. \A s \in receipts' \ receipts : s = r
    BY <1>1
  <1> HIDE DEF r
  <1> QED BY <1>1, <1>3, <1>4

\* A withdrawal that is being tried is a remembered one.
LEMMA TodoType ==
    ASSUME TypeInv, NEW we \in todo
    PROVE  we \in txMap /\ we \in WithdrawEvents /\ we.ev \in Events
           /\ head >= we.block + Delay
  BY DEF TypeInv, QueueInv, LoopInv, WithdrawEvents

LEMMA VaultStep == TypeInv /\ [Next]_vars => VaultInv' /\ receipts \subseteq receipts'
  <1> SUFFICES ASSUME TypeInv, [Next]_vars PROVE VaultInv' /\ receipts \subseteq receipts'
    OBVIOUS
  <1>0. VaultInv
    BY DEF TypeInv
  <1>1. CASE Withdraw
    <2>1. PICK we \in todo : WithdrawSkips(we) \/ WithdrawPays(we) \/ WithdrawFails(we)
      BY <1>1 DEF Withdraw
    <2>2. we.ev \in Events
      BY TodoType
    <2>3. CASE WithdrawSkips(we)
      BY <1>0, <2>3 DEF WithdrawSkips, vault, VaultInv
    <2>4. CASE WithdrawPays(we)
      BY <1>0, <2>2, <2>4, PaysStep DEF WithdrawPays, VaultInv
    <2>5. CASE WithdrawFails(we)
      BY <1>0, <2>2, <2>5 DEF WithdrawFails, VaultInv
    <2> QED BY <2>1, <2>3, <2>4, <2>5
  <1>2. CASE \E e \in late : LatePayment(e)
    <2>1. PICK e \in late : LatePayment(e)
      BY <1>2
    <2>2. CASE VaultPays([ev |-> e, block |-> 0])
      <3>1. [ev |-> e, block |-> 0].ev \in Events
        BY <1>0 DEF VaultInv
      <3>2. receipts' \subseteq Vault!Receipts /\ receipts \subseteq receipts'
        BY <1>0, <2>2, <3>1, PaysStep
      <3> QED BY <1>0, <2>1, <3>2 DEF LatePayment, VaultInv
    <2>3. CASE UNCHANGED receipts
      BY <1>0, <2>1, <2>3 DEF LatePayment, VaultInv
    <2> QED BY <2>1, <2>2, <2>3 DEF LatePayment
  <1>3. CASE \/ Mine \/ (\E n \in 1..MaxReorg : Reorg(n)) \/ AnyStart \/ Filter
             \/ Subscribe \/ Disconnect \/ TakeFiltered \/ TakeWatched
             \/ (\E insync \in BOOLEAN : AnyHead(insync)) \/ SaveHeight \/ Crash
             \/ UNCHANGED vars
    <2>1. UNCHANGED <<receipts, late>>
      BY <1>3 DEF Mine, Reorg, AnyStart, Start, Filter, Subscribe, Disconnect,
                  TakeFiltered, TakeWatched, AnyHead, NewHead, SaveHeight, Crash,
                  vars, vault
    <2> QED BY <1>0, <2>1 DEF VaultInv
  <1> QED BY <1>1, <1>2, <1>3 DEF Next

LEMMA TypeInit == Init => TypeInv
  <1> SUFFICES ASSUME Init PROVE TypeInv
    OBVIOUS
  <1> USE WithdrawalsAssumption DEF Init
  <1>1. ChainInv
    BY DEF ChainInv
  <1>2. QueueInv
    BY DEF QueueInv
  <1>3. LoopInv
    BY DEF LoopInv, Idle
  <1>4. StartInv
    <2>1. up \in BOOLEAN /\ synced \in BOOLEAN /\ filtered \in BOOLEAN
          /\ subscribed \in BOOLEAN
      OBVIOUS
    <2> QED BY <2>1 DEF StartInv
  <1>5. VaultInv
    BY DEF VaultInv, Vault!Init
  <1> QED BY <1>1, <1>2, <1>3, <1>4, <1>5 DEF TypeInv

LEMMA TypeStep == TypeInv /\ [Next]_vars => TypeInv'
  BY ChainStep, QueueStep, LoopStep, StartStep, VaultStep DEF TypeInv

LEMMA TypeAlways == Spec => []TypeInv
  BY TypeInit, TypeStep, PTL DEF Spec

\* Every variable keeps its type, txMap has one entry for a transaction hash,
\* and what is being tried is remembered, synced and Delay blocks old.
THEOREM TypeCorrect == Spec => []TypeOK
  <1>1. TypeInv => TypeOK
    <2> SUFFICES ASSUME TypeInv PROVE TypeOK
      OBVIOUS
    <2>0. ChainInv /\ QueueInv /\ LoopInv /\ StartInv /\ VaultInv
      BY DEF TypeInv
    <2>1. OnChain(chain) \subseteq Events
      BY <2>0 DEF OnChain, Elements, ChainInv
    <2>2. Elements(filterQ) \cup Elements(watchQ) \cup txMap \subseteq WithdrawEvents
      BY <2>0, ElementsOfSeq DEF QueueInv
    <2>3. Len(chain) <= MaxBlock /\ currentBlock \in 0..MaxBlock
      BY <2>0, WithdrawalsAssumption DEF ChainInv
    <2> QED BY <2>0, <2>1, <2>2, <2>3 DEF LoopInv, StartInv, VaultInv, TypeOK
  <1> QED BY <1>1, TypeAlways, PTL

-----------------------------------------------------------------------------
(* Nothing is forgotten.                                                   *)

LEMMA SettledStays ==
    TypeInv /\ [Next]_vars => \A e \in Events : Settled(e) => Settled(e)'
  BY VaultStep DEF Settled

\* A remembered withdrawal is settled when it leaves txMap.
LEMMA RememberedStep ==
    ASSUME OneEventPerTx, TypeInv, [Next]_vars, up', NEW e \in Events, Remembered(e)
    PROVE  Remembered(e)' \/ Settled(e)'
  <1>0. QueueInv /\ LoopInv /\ VaultInv
    BY DEF TypeInv
  <1>1. CASE TakeFiltered \/ TakeWatched
    <2>1. \E we \in WithdrawEvents : Remember(we)
      BY <1>0, <1>1, ElementsOfTail DEF TakeFiltered, TakeWatched, QueueInv
    <2> QED BY <1>0, <2>1, RememberStep
  <1>2. CASE Withdraw
    <2>1. PICK we \in todo : WithdrawSkips(we) \/ WithdrawPays(we) \/ WithdrawFails(we)
      BY <1>2 DEF Withdraw
    <2>2. we \in txMap /\ we.ev \in Events
      BY TodoType
    <2>3. PICK w \in txMap : w.ev = e
      BY DEF Remembered
    <2>4. CASE w # we
      <3>1. w \in txMap'
        BY <2>1, <2>3, <2>4 DEF WithdrawSkips, WithdrawPays, WithdrawFails
      <3> QED BY <2>3, <3>1 DEF Remembered
    <2>5. CASE w = we /\ WithdrawSkips(we)
      <3>1. \/ e \in Skipped \cup Unreachable
            \/ \E r \in receipts : r.memo = TxOf[e]
        BY <2>3, <2>5 DEF WithdrawSkips, Known
      <3>2. Settled(e)
        BY <3>1 DEF Settled
      <3> QED BY <3>2, SettledStays
    <2>6. CASE w = we /\ WithdrawPays(we)
      <3>1. \E r \in receipts' : r.memo = TxOf[e]
        BY <1>0, <2>2, <2>3, <2>6, PaysStep DEF WithdrawPays
      <3> QED BY <3>1 DEF Settled
    <2>7. CASE w = we /\ WithdrawFails(we)
      <3>1. w \in txMap'
        BY <2>3, <2>7 DEF WithdrawFails
      <3> QED BY <2>3, <3>1 DEF Remembered
    <2> QED BY <2>1, <2>4, <2>5, <2>6, <2>7
  <1>3. CASE \/ Mine \/ (\E n \in 1..MaxReorg : Reorg(n)) \/ AnyStart \/ Filter
             \/ Subscribe \/ Disconnect \/ (\E insync \in BOOLEAN : AnyHead(insync))
             \/ SaveHeight \/ (\E ev \in late : LatePayment(ev)) \/ UNCHANGED vars
    <2>1. txMap' = txMap
      BY <1>3 DEF Mine, Reorg, AnyStart, Start, Filter, Subscribe, Disconnect,
                  AnyHead, NewHead, SaveHeight, LatePayment, vars, loop
    <2> QED BY <2>1 DEF Remembered
  <1>4. ~Crash
    BY DEF Crash
  <1> QED BY <1>1, <1>2, <1>3, <1>4 DEF Next

\* The main loop drops a withdrawal only when it is settled or the process dies,
\* when no transaction holds two events.
THEOREM LoopForgetsNothing == OneEventPerTx /\ Spec => NothingForgotten
  <1> SUFFICES ASSUME OneEventPerTx PROVE Spec => NothingForgotten
    OBVIOUS
  <1>1. TypeInv /\ [Next]_vars =>
          [\A w \in txMap : up' => (Remembered(w.ev) \/ Settled(w.ev))']_vars
    <2> SUFFICES ASSUME TypeInv, [Next]_vars, NEW w \in txMap, up'
                 PROVE  (Remembered(w.ev) \/ Settled(w.ev))'
      OBVIOUS
    <2>1. w.ev \in Events /\ Remembered(w.ev)
      BY DEF TypeInv, QueueInv, WithdrawEvents, Remembered
    <2>2. PICK e \in Events : e = w.ev
      BY <2>1
    <2>3. Remembered(e)' \/ Settled(e)'
      BY <2>1, <2>2, RememberedStep
    <2> QED BY <2>2, <2>3 DEF Remembered, Settled
  <1> QED BY <1>1, TypeAlways, PTL DEF Spec, NothingForgotten

-----------------------------------------------------------------------------
(* What a restart covers.                                                  *)

Queued(e) == \E w \in Elements(filterQ) : w.ev = e

Kept(e) == Remembered(e) \/ Settled(e) \/ Queued(e)

\* The flag or the file tells where to read from.
Informed == IF rescanHeight = 0 THEN height # 0 ELSE rescanHeight >= Delay

\* All final events that the filter was to read are known.
PastInv ==
    filtered /\ Informed =>
        \A b \in 1..(currentBlock - MaxReorg) :
            b >= RestartFrom => \A e \in Elements(chain[b]) : Kept(e)

\* A rescan height of Delay or more does not wrap around, and a saved height
\* below Delay is taken for 0.
LEMMA FirstBlock ==
    ASSUME TypeInv, Informed
    PROVE  /\ LastHeight \in Nat
           /\ \A b \in Nat \ {0} : b >= RestartFrom => LastHeight < b
  <1> USE WithdrawalsAssumption
  <1>1. /\ height \in Nat /\ rescanHeight \in RescanHeights \cup {0}
        /\ rescanHeight \in Nat
    BY DEF TypeInv, StartInv
  <1>2. CASE rescanHeight > 0
    <2>1. rescanHeight - Delay \in 0..MaxUint
      BY <1>1, <1>2 DEF Informed
    <2>2. (rescanHeight - Delay) % (MaxUint + 1) = rescanHeight - Delay
      BY <2>1
    <2> QED BY <1>1, <1>2, <2>1, <2>2 DEF LastHeight, RestartFrom
  <1>3. CASE rescanHeight = 0
    <2>1. height > 0
      BY <1>1, <1>3 DEF Informed
    <2>2. CASE height > Delay
      BY <1>1, <1>3, <2>2 DEF LastHeight, RestartFrom
    <2>3. CASE ~(height > Delay)
      BY <1>1, <1>3, <2>1, <2>3 DEF LastHeight, RestartFrom
    <2> QED BY <2>2, <2>3
  <1> QED BY <1>1, <1>2, <1>3

\* What the filter was to read stays known.
LEMMA KeptStep ==
    ASSUME OneEventPerTx, TypeInv, [Next]_vars, filtered, filtered', up',
           NEW e \in Events, Kept(e)
    PROVE  Kept(e)'
  <1>0. QueueInv /\ LoopInv
    BY DEF TypeInv
  <1>1. CASE Remembered(e) \/ Settled(e)
    BY <1>1, RememberedStep, SettledStays DEF Kept
  <1>2. CASE Queued(e) /\ TakeFiltered
    <2>1. PICK w \in Elements(filterQ) : w.ev = e
      BY <1>2 DEF Queued
    <2>2. /\ Head(filterQ) \in WithdrawEvents /\ Remember(Head(filterQ))
          /\ filterQ' = Tail(filterQ)
          /\ Elements(filterQ) = {Head(filterQ)} \cup Elements(Tail(filterQ))
      BY <1>0, <1>2, ElementsOfTail DEF TakeFiltered, QueueInv
    <2>3. CASE w \in Elements(Tail(filterQ))
      BY <2>1, <2>2, <2>3 DEF Kept, Queued
    <2>4. CASE w = Head(filterQ)
      <3>1. PICK we \in WithdrawEvents : we = w /\ Remember(we)
        BY <2>2, <2>4
      <3>2. we.ev \in Foreign \/ Remembered(we.ev)'
        BY <1>0, <3>1, RememberStep
      <3>3. e \in Foreign \/ \E x \in txMap' : x.ev = e
        BY <2>1, <3>1, <3>2 DEF Remembered
      <3> QED BY <3>3 DEF Kept, Settled, Remembered
    <2> QED BY <2>1, <2>2, <2>3, <2>4
  <1>3. CASE Queued(e) /\ ~TakeFiltered
    <2>1. ~Filter /\ ~Crash
      BY DEF Filter, Crash
    <2>2. filterQ' = filterQ
      BY <1>3, <2>1 DEF Next, Mine, Reorg, AnyStart, Start, Subscribe, Disconnect,
            TakeWatched, AnyHead, NewHead, Withdraw, WithdrawSkips, WithdrawPays,
            WithdrawFails, SaveHeight, LatePayment, vars, sources
    <2> QED BY <1>3, <2>2 DEF Kept, Queued
  <1> QED BY <1>1, <1>2, <1>3 DEF Kept

LEMMA PastStep ==
    ASSUME OneEventPerTx, TypeInv, PastInv, [Next]_vars
    PROVE  PastInv'
  <1> USE WithdrawalsAssumption
  <1>0. ChainInv /\ StartInv /\ StartInv'
    BY StartStep DEF TypeInv
  <1> SUFFICES ASSUME filtered', Informed', NEW b \in 1..(currentBlock' - MaxReorg),
                      b >= RestartFrom', NEW e \in Elements(chain'[b])
               PROVE  Kept(e)'
    BY DEF PastInv
  <1>1. CASE Filter
    <2>1. UNCHANGED <<chain, rescanHeight, height, currentBlock>>
      BY <1>1 DEF Filter, ethereum, start
    <2>2. Informed /\ b \in 1..(currentBlock - MaxReorg) /\ b >= RestartFrom
      BY <2>1 DEF Informed, RestartFrom
    <2>3. b \in Nat \ {0} /\ b <= currentBlock /\ b \in DOMAIN chain
      BY <1>0, <2>2 DEF ChainInv
    <2>4. LastHeight \in Nat /\ LastHeight < b
      BY <2>2, <2>3, FirstBlock
    <2>5. LastHeight < currentBlock /\ b \in LastHeight..currentBlock
      BY <1>0, <2>3, <2>4 DEF ChainInv
    <2>6. PICK i \in DOMAIN chain[b] : e = chain[b][i]
      BY <2>1 DEF Elements
    <2>7. <<b, i>> \in Places(LastHeight..currentBlock)
      BY <2>3, <2>5, <2>6 DEF Places
    <2>8. LogAt(<<b, i>>) \in Elements(filterQ') /\ LogAt(<<b, i>>).ev = e
      BY <1>0, <1>1, <2>5, <2>6, <2>7, FilterReads, PlaceOfLog
    <2> QED BY <2>8 DEF Kept, Queued
  <1>2. CASE ~Filter
    <2>1. up' /\ ~Crash
      BY <1>0 DEF StartInv, Crash
    <2>2. /\ filtered /\ ~AnyStart
      <3>1. filtered' = filtered
        BY <1>2, <2>1 DEF Next, Mine, Reorg, AnyStart, Start, Subscribe, Disconnect,
            TakeFiltered, TakeWatched, AnyHead, NewHead, Withdraw, WithdrawSkips,
            WithdrawPays, WithdrawFails, SaveHeight, LatePayment, vars, sources
      <3>2. filtered /\ up
        BY <1>0, <3>1 DEF StartInv
      <3> QED BY <3>2 DEF AnyStart, Start
    <2>3. UNCHANGED <<rescanHeight, height, currentBlock>>
      BY <1>2, <2>1, <2>2 DEF Next, Mine, Reorg, Subscribe, Disconnect,
            TakeFiltered, TakeWatched, AnyHead, NewHead, Withdraw, WithdrawSkips,
            WithdrawPays, WithdrawFails, SaveHeight, LatePayment, vars, start
    <2>4. Informed /\ b \in 1..(currentBlock - MaxReorg) /\ b >= RestartFrom
      BY <2>3 DEF Informed, RestartFrom
    <2>5. b \in 1..(Len(chain) - MaxReorg) /\ b \in DOMAIN chain
      BY <1>0, <2>4 DEF ChainInv
    <2>6. chain'[b] = chain[b]
      <3>1. CASE Mine \/ \E n \in 1..MaxReorg : Reorg(n)
        BY <1>0, <2>5, <3>1, ChainGrows
      <3>2. CASE ~(Mine \/ \E n \in 1..MaxReorg : Reorg(n))
        BY <1>2, <2>1, <2>2, <3>2 DEF Next, Subscribe, Disconnect,
            TakeFiltered, TakeWatched, AnyHead, NewHead, Withdraw, WithdrawSkips,
            WithdrawPays, WithdrawFails, SaveHeight, LatePayment, vars, ethereum
      <3> QED BY <3>1, <3>2
    <2>7. e \in Events /\ Kept(e)
      <3>1. chain[b] \in Seq(Events)
        BY <1>0, <2>5 DEF ChainInv
      <3>2. e \in Elements(chain[b])
        BY <2>6
      <3> QED BY <2>2, <2>4, <3>1, <3>2, ElementsOfSeq DEF PastInv
    <2> QED BY <2>1, <2>2, <2>7, KeptStep
  <1> QED BY <1>1, <1>2

\* After a restart every withdrawal is known that was mined while the bridge
\* was down, or was not confirmed by the last head that was saved, in a block
\* that is final: whatever happens next, short of a crash, it is not lost.
THEOREM RestartMissesNothing == OneEventPerTx /\ Spec => []RestartCovers
  <1> SUFFICES ASSUME OneEventPerTx PROVE Spec => []RestartCovers
    OBVIOUS
  <1>1. Init => PastInv
    BY DEF Init, PastInv
  <1>2. TypeInv /\ PastInv /\ [Next]_vars => PastInv'
    BY PastStep
  <1>3. PastInv => RestartCovers
    <2> SUFFICES ASSUME PastInv, filtered, Informed,
                        NEW b \in 1..(currentBlock - MaxReorg), b >= RestartFrom,
                        NEW e \in Elements(chain[b])
                 PROVE  Tracked(e)
      BY DEF RestartCovers, Informed
    <2>1. Kept(e)
      BY DEF PastInv
    <2> QED BY <2>1 DEF Kept, Tracked, Queued
  <1> QED BY <1>1, <1>2, <1>3, TypeAlways, PTL DEF Spec

-----------------------------------------------------------------------------
(* Confirmed before paid.                                                  *)

InBlock(e, b) == b \in DOMAIN chain /\ e \in Elements(chain[b])

Confirmed(e) == \E b \in DOMAIN chain : InBlock(e, b) /\ Len(chain) >= b + Delay

\* Events are remembered with the block they are in, no head is newer than the
\* chain, and what the vault may still execute is confirmed.
EventInv ==
    /\ \A w \in Elements(filterQ) \cup Elements(watchQ) \cup txMap : InBlock(w.ev, w.block)
    /\ head \in Int /\ head <= Len(chain)
    /\ \A e \in late : Confirmed(e)

\* Without reorganisations an event stays where it is.
LEMMA EventStays ==
    ASSUME MaxReorg = 0, TypeInv, [Next]_vars
    PROVE  /\ Len(chain) \in Nat /\ Len(chain') \in Nat /\ Len(chain) <= Len(chain')
           /\ \A e, b : InBlock(e, b) => InBlock(e, b)'
           /\ \A e : Confirmed(e) => Confirmed(e)'
  <1>0. ChainInv /\ ChainInv' /\ Len(chain) <= Len(chain')
    BY ChainStep DEF TypeInv
  <1>1. Len(chain) \in Nat /\ Len(chain') \in Nat
    BY <1>0 DEF ChainInv
  <1>2. \A b \in DOMAIN chain : b \in DOMAIN chain' /\ chain'[b] = chain[b]
    <2>1. CASE Mine
      <3>1. \A b \in 1..(Len(chain) - MaxReorg) : chain'[b] = chain[b]
        BY <1>0, <2>1, ChainGrows
      <3>2. DOMAIN chain = 1..Len(chain) /\ DOMAIN chain' = 1..Len(chain')
        BY <1>0 DEF ChainInv
      <3>3. Len(chain) - MaxReorg = Len(chain)
        BY <1>1
      <3>4. \A b \in 1..Len(chain) : b \in 1..Len(chain')
        BY <1>0, <1>1
      <3> QED BY <3>1, <3>2, <3>3, <3>4
    <2>2. CASE ~Mine
      <3>0. ~(\E n \in 1..MaxReorg : Reorg(n))
        OBVIOUS
      <3>1. chain' = chain
        BY <2>2, <3>0 DEF Next, AnyStart, Start, Filter, Subscribe, Disconnect, TakeFiltered,
            TakeWatched, AnyHead, NewHead, Withdraw, WithdrawSkips, WithdrawPays,
            WithdrawFails, SaveHeight, LatePayment, Crash, vars, ethereum
      <3> QED BY <3>1
    <2> QED BY <2>1, <2>2
  <1>3. \A e, b : InBlock(e, b) => InBlock(e, b)'
    BY <1>2 DEF InBlock
  <1>4. ASSUME NEW e, Confirmed(e) PROVE Confirmed(e)'
    <2>1. PICK b \in DOMAIN chain : InBlock(e, b) /\ Len(chain) >= b + Delay
      BY <1>4 DEF Confirmed
    <2>2. b \in DOMAIN chain' /\ InBlock(e, b)' /\ b \in Int
      BY <1>0, <1>2, <1>3, <2>1 DEF ChainInv
    <2>3. Len(chain') >= b + Delay
      BY <1>0, <1>1, <2>1, <2>2, WithdrawalsAssumption
    <2> QED BY <2>2, <2>3 DEF Confirmed
  <1> QED BY <1>0, <1>1, <1>3, <1>4

\* A withdrawal that is being tried is confirmed.
LEMMA TodoConfirmed ==
    ASSUME TypeInv, EventInv, NEW we \in todo PROVE Confirmed(we.ev)
  <1>1. we \in txMap /\ we \in WithdrawEvents /\ head >= we.block + Delay
    BY TodoType
  <1>2. InBlock(we.ev, we.block) /\ head \in Int /\ head <= Len(chain)
    BY <1>1 DEF EventInv
  <1>3. we.block \in Int /\ Len(chain) \in Int /\ Delay \in Int
    BY <1>1, WithdrawalsAssumption DEF TypeInv, ChainInv, WithdrawEvents
  <1>4. Len(chain) >= we.block + Delay
    BY <1>1, <1>2, <1>3
  <1> QED BY <1>2, <1>4 DEF Confirmed, InBlock

LEMMA EventStep ==
    ASSUME MaxReorg = 0, TypeInv, EventInv, [Next]_vars
    PROVE  EventInv'
  <1>0. ChainInv /\ QueueInv /\ LoopInv /\ LoopInv'
    BY LoopStep DEF TypeInv
  <1>1. \A w \in Elements(filterQ') \cup Elements(watchQ') \cup txMap' : InBlock(w.ev, w.block)'
    <2> DEFINE Known0 == Elements(filterQ) \cup Elements(watchQ) \cup txMap
               Known1 == Elements(filterQ') \cup Elements(watchQ') \cup txMap'
    <2>0. \A w \in Known0 : InBlock(w.ev, w.block)'
      BY EventStays DEF EventInv
    <2>1. CASE Mine
      <3>1. PICK block \in Seq(Events), b \in (1..MaxBlock) \cap DOMAIN chain' :
                chain'[b] = block /\ Watch(block, b)
        BY <1>0, <2>1, ChainGrows
      <3>2. UNCHANGED <<filterQ, txMap>>
        BY <2>1 DEF Mine, loop
      <3>3. /\ Logs(block, b) \in Seq(WithdrawEvents)
            /\ \A w \in Elements(Logs(block, b)) :
                  w.block = b /\ w.ev \in Elements(block)
        BY LogsType
      <3>4. Elements(watchQ') \subseteq Elements(watchQ) \cup Elements(Logs(block, b))
        <4>1. watchQ \in Seq(WithdrawEvents) /\ watchQ' \in {watchQ, watchQ \o Logs(block, b)}
          BY <1>0, <3>1 DEF Watch, QueueInv
        <4> QED BY <3>3, <4>1, ElementsOfAppend
      <3>5. \A w \in Elements(Logs(block, b)) : InBlock(w.ev, w.block)'
        BY <3>1, <3>3 DEF InBlock
      <3> QED BY <2>0, <3>2, <3>4, <3>5
    <2>2. CASE Filter
      <3>1. UNCHANGED <<chain, watchQ, txMap>>
        BY <2>2 DEF Filter, ethereum, loop
      <3>2. ASSUME NEW w \in Elements(filterQ') PROVE InBlock(w.ev, w.block)
        <4>1. PICK p \in Places(LastHeight..currentBlock) : w = LogAt(p)
          BY <1>0, <2>2, FilterReads
        <4>2. /\ p[1] \in DOMAIN chain /\ p[2] \in DOMAIN chain[p[1]]
              /\ w.ev = chain[p[1]][p[2]] /\ w.block = p[1]
          BY <1>0, <4>1, PlaceOfLog
        <4> QED BY <4>2 DEF InBlock, Elements
      <3> QED BY <2>0, <3>1, <3>2 DEF InBlock
    <2>3. CASE Disconnect
      <3>1. Elements(watchQ') \subseteq Elements(watchQ)
        BY <1>0, <2>3, ElementsOfSubSeq DEF Disconnect, QueueInv
      <3>2. UNCHANGED <<filterQ, txMap>>
        BY <2>3 DEF Disconnect, loop
      <3> QED BY <2>0, <3>1, <3>2
    <2>4. CASE TakeFiltered
      <3>1. Elements(filterQ) = {Head(filterQ)} \cup Elements(filterQ')
        BY <1>0, <2>4, ElementsOfTail DEF TakeFiltered, QueueInv
      <3>2. txMap' \subseteq txMap \cup {Head(filterQ)} /\ watchQ' = watchQ
        BY <2>4 DEF TakeFiltered, Remember
      <3> QED BY <2>0, <3>1, <3>2
    <2>5. CASE TakeWatched
      <3>1. Elements(watchQ) = {Head(watchQ)} \cup Elements(watchQ')
        BY <1>0, <2>5, ElementsOfTail DEF TakeWatched, QueueInv
      <3>2. txMap' \subseteq txMap \cup {Head(watchQ)} /\ filterQ' = filterQ
        BY <2>5 DEF TakeWatched, Remember
      <3> QED BY <2>0, <3>1, <3>2
    <2>6. CASE Crash
      BY <2>6 DEF Crash, Elements
    <2>7. CASE \/ AnyStart \/ Subscribe \/ (\E insync \in BOOLEAN : AnyHead(insync))
               \/ Withdraw \/ SaveHeight \/ (\E e \in late : LatePayment(e))
               \/ UNCHANGED vars
      <3>1. UNCHANGED <<filterQ, watchQ>> /\ txMap' \subseteq txMap
        BY <2>7 DEF AnyStart, Start, Subscribe, AnyHead, NewHead, Withdraw, WithdrawSkips,
              WithdrawPays, WithdrawFails, SaveHeight, LatePayment, vars, sources, loop
      <3> QED BY <2>0, <3>1
    <2> QED BY <2>1, <2>2, <2>3, <2>4, <2>5, <2>6, <2>7 DEF Next
  <1>2. head' \in Int /\ head' <= Len(chain')
    <2>1. head' \in Int /\ Len(chain) \in Int /\ Len(chain') \in Int
          /\ Len(chain) <= Len(chain')
      BY <1>0, EventStays DEF LoopInv
    <2>2. head' = head \/ head' = 0 \/ head' <= Len(chain)
      <3>1. CASE \E insync \in BOOLEAN : AnyHead(insync)
        <4>1. PICK n \in nextHead..Len(chain) : head' = n
          BY <3>1 DEF AnyHead, NewHead, BlockNumber
        <4> QED BY <1>0, <2>1, <4>1 DEF LoopInv
      <3>2. CASE SaveHeight \/ Crash
        BY <3>2 DEF SaveHeight, Crash, Idle
      <3>3. CASE Withdraw
        BY <3>3 DEF Withdraw, WithdrawSkips, WithdrawPays, WithdrawFails
      <3>4. CASE \/ Mine \/ (\E n \in 1..MaxReorg : Reorg(n)) \/ AnyStart \/ Filter
                 \/ Subscribe \/ Disconnect \/ TakeFiltered \/ TakeWatched
                 \/ (\E e \in late : LatePayment(e)) \/ UNCHANGED vars
        BY <3>4 DEF Mine, Reorg, AnyStart, Start, Filter, Subscribe, Disconnect,
            TakeFiltered, TakeWatched, LatePayment, vars, loop
      <3> QED BY <3>1, <3>2, <3>3, <3>4 DEF Next
    <2>3. head \in Int /\ head <= Len(chain) /\ 0 <= Len(chain)
      BY EventStays DEF EventInv
    <2> QED BY <2>1, <2>2, <2>3
  <1>3. \A e \in late' : Confirmed(e)'
    <2>1. ASSUME NEW e \in late' PROVE Confirmed(e)
      <3>1. CASE e \in late
        BY <3>1 DEF EventInv
      <3>2. CASE e \notin late
        <4>1. PICK we \in todo : WithdrawFails(we)
          BY <2>1, <3>2 DEF Next, Mine, Reorg, AnyStart, Start, Filter, Subscribe,
              Disconnect, TakeFiltered, TakeWatched, AnyHead, NewHead, Withdraw,
              WithdrawSkips, WithdrawPays, SaveHeight, LatePayment, Crash, vars, vault
        <4>2. e = we.ev
          BY <2>1, <3>2, <4>1 DEF WithdrawFails
        <4> QED BY <4>2, TodoConfirmed
      <3> QED BY <3>1, <3>2
    <2> QED BY <2>1, EventStays
  <1> QED BY <1>1, <1>2, <1>3 DEF EventInv

\* Without reorganisations a withdrawal is paid only when its event has been in
\* the chain for Delay blocks, also when the payment is executed late.
THEOREM PaysConfirmedOnly == MaxReorg = 0 /\ Spec => ConfirmedBeforePaid
  <1> SUFFICES ASSUME MaxReorg = 0 PROVE Spec => ConfirmedBeforePaid
    OBVIOUS
  <1>1. Init => EventInv
    BY DEF Init, EventInv, Elements, Idle
  <1>2. TypeInv /\ EventInv /\ [Next]_vars => EventInv'
    BY EventStep
  <1>3. TypeInv /\ EventInv /\ [Next]_vars =>
          [\A r \in receipts' \ receipts :
              \E b \in DOMAIN chain :
                  /\ \E e \in Elements(chain[b]) : TxOf[e] = r.memo
                  /\ BlockNumber >= b + Delay]_vars
    <2> SUFFICES ASSUME TypeInv, EventInv, [Next]_vars, NEW r \in receipts' \ receipts
                 PROVE  \E b \in DOMAIN chain :
                            /\ \E e \in Elements(chain[b]) : TxOf[e] = r.memo
                            /\ BlockNumber >= b + Delay
      OBVIOUS
    <2>1. \E e \in Events : Confirmed(e) /\ TxOf[e] = r.memo
      <3>0. VaultInv
        BY DEF TypeInv
      <3>1. CASE Withdraw
        <4>1. PICK we \in todo : WithdrawPays(we)
          BY <3>1 DEF Withdraw, WithdrawSkips, WithdrawFails, vault
        <4>2. we.ev \in Events /\ Confirmed(we.ev)
          BY TodoType, TodoConfirmed
        <4>3. TxOf[we.ev] = r.memo
          BY <3>0, <4>1, <4>2, PaysStep DEF WithdrawPays
        <4> QED BY <4>2, <4>3
      <3>2. CASE \E e \in late : LatePayment(e)
        <4>1. PICK e \in late : LatePayment(e)
          BY <3>2
        <4>2. e \in Events /\ Confirmed(e) /\ [ev |-> e, block |-> 0].ev = e
          BY <3>0 DEF EventInv, VaultInv
        <4>3. VaultPays([ev |-> e, block |-> 0])
          BY <4>1 DEF LatePayment
        <4>4. TxOf[e] = r.memo
          BY <3>0, <4>2, <4>3, PaysStep
        <4> QED BY <4>2, <4>4
      <3>3. CASE ~Withdraw /\ ~(\E e \in late : LatePayment(e))
        BY <3>3 DEF Next, Mine, Reorg, AnyStart, Start, Filter, Subscribe, Disconnect,
            TakeFiltered, TakeWatched, AnyHead, NewHead, SaveHeight, Crash, vars, vault
      <3> QED BY <3>1, <3>2, <3>3
    <2> QED BY <2>1 DEF Confirmed, InBlock, BlockNumber
  <1> QED BY <1>1, <1>2, <1>3, TypeAlways, PTL DEF Spec, ConfirmedBeforePaid
=============================================================================
