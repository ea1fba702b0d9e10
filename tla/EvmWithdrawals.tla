---------------------------- MODULE EvmWithdrawals ----------------------------
(***************************************************************************)
(* EVM to Stellar: the main loop of the master bridge remembers the        *)
(* Withdraw events of the token contract, waits for Delay blocks, asks the *)
(* cosigners to sign and pays from the vault.  Events arrive from a filter *)
(* over past blocks and from a subscription; what is remembered is only in *)
(* memory, the file keeps the number of the last head.                     *)
(*                                                                         *)
(* The payment is the step of PayoutOnce that VaultPayments implements.    *)
(*                                                                         *)
(* Source: bridges/stellar-evm/api/bridge/bridge.go, bridge_contract.go,   *)
(* signer_server.go, state/persistency.go.                                 *)
(***************************************************************************)
EXTENDS Integers, Sequences, FiniteSets

CONSTANTS Events,         \* Withdraw events users may cause
          TxOf,           \* the transaction each of them is logged by
          ReceiverOf,     \* its indexed receiver field
          Skipped,        \* dust, the fee wallet, the bridge, a bad address
          Foreign,        \* events for another network than stellar
          Unreachable,    \* destinations that cannot receive the payment
          Cosigned,       \* payments need the signatures of cosigners
          Delay,          \* EthBlockDelay
          RescanHeights,  \* values of --rescanHeight the bridge starts with
          Disconnects,    \* the subscription may break and be made again
          MaxReorg,       \* how many blocks a reorganisation replaces
          MaxBlock,       \* bound: blocks told apart
          MaxQueue,       \* bound: events the subscription has queued
          MaxUint         \* 2^64 - 1, or a bound above every height used

Txs == {TxOf[e] : e \in Events}

ASSUME WithdrawalsAssumption ==
    /\ Skipped \subseteq Events /\ Foreign \subseteq Events
    /\ Unreachable \subseteq Events
    /\ Cosigned \in BOOLEAN /\ Disconnects \in BOOLEAN
    /\ Delay \in Nat \ {0} /\ MaxReorg \in Nat
    /\ MaxBlock \in Nat /\ MaxBlock > Delay /\ MaxQueue \in Nat
    /\ RescanHeights \subseteq Nat
    /\ MaxUint \in Nat /\ \A h \in RescanHeights \cup {MaxBlock} : h < MaxUint

VARIABLES
    chain,         \* the events of each block, in log order
    receipts,      \* payments the vault has executed
    late,          \* submitted ones whose caller got an error
    savedHeight,   \* LastHeight in the persistency file
    up, synced,    \* the process and its synced flag
    rescanHeight, height, currentBlock,  \* what Start works with
    filtered,      \* the filter has been asked for past events
    subscribed,    \* the node sends new events
    filterQ, watchQ,  \* events on their way to the main loop
    nextHead,      \* the first head the main loop has not been given
    txMap,         \* remembered withdrawals
    head, todo     \* the head being handled, withdrawals left to try

ethereum == <<chain>>
vault == <<receipts, late>>
start == <<up, rescanHeight, height, currentBlock>>
sources == <<filtered, subscribed, filterQ, watchQ>>
loop == <<synced, nextHead, txMap, head, todo>>
vars == <<ethereum, vault, savedHeight, start, sources, loop>>

Vault == INSTANCE PayoutOnce WITH
           Memos <- Txs, Kinds <- {"withdraw"}, ReceiptIds <- Txs

\* No head is being handled.
Idle == 0

Init ==
    /\ chain = <<>>
    /\ Vault!Init /\ late = {}
    /\ savedHeight = 0
    /\ up = FALSE /\ rescanHeight = 0 /\ height = 0 /\ currentBlock = 0
    /\ filtered = FALSE /\ subscribed = FALSE
    /\ filterQ = <<>> /\ watchQ = <<>>
    /\ synced = FALSE /\ nextHead = 1 /\ txMap = {}
    /\ head = Idle /\ todo = {}

-----------------------------------------------------------------------------
(* The chain.                                                              *)

BlockNumber == Len(chain)

\* Heads after MaxBlock are taken for MaxBlock, which so comes again and again.
HeadAfter(n) == IF n < MaxBlock THEN n + 1 ELSE MaxBlock

Elements(seq) == {seq[i] : i \in DOMAIN seq}

OnChain(blocks) == UNION {Elements(blocks[b]) : b \in DOMAIN blocks}

\* A WithdrawEvent: the event and the block it was found in.
Logs(block, b) == [i \in DOMAIN block |-> [ev |-> block[i], block |-> b]]

\* The contents a block may have: some events, in some order.
Blocks(b, events) ==
    {<<>>} \cup (IF b > MaxBlock - Delay THEN {}
                 ELSE {<<e>> : e \in events}
                        \cup {p \in events \X events : p[1] # p[2]})

Watch(block, b) ==
    /\ watchQ' = IF subscribed THEN watchQ \o Logs(block, b) ELSE watchQ
    /\ Len(watchQ') <= MaxQueue

Mine ==
    /\ BlockNumber < MaxBlock
    /\ \E block \in Blocks(BlockNumber + 1, Events \ OnChain(chain)) :
           /\ chain' = Append(chain, block)
           /\ Watch(block, BlockNumber + 1)
    /\ UNCHANGED <<vault, savedHeight, start, filtered, subscribed, filterQ, loop>>

\* The last n blocks are replaced.  Logs of removed blocks are ignored.
Reorg(n) ==
    LET kept == SubSeq(chain, 1, BlockNumber - n)
        empty == [i \in 1..(n - 1) |-> <<>>]
    IN  /\ n <= BlockNumber
        /\ \E block \in Blocks(BlockNumber, Events \ OnChain(kept)) :
               /\ block # chain[BlockNumber]
               /\ chain' = kept \o empty \o <<block>>
               /\ Watch(block, BlockNumber)
        /\ nextHead' = IF nextHead > BlockNumber THEN BlockNumber ELSE nextHead
        /\ UNCHANGED <<vault, savedHeight, start, filtered, subscribed, filterQ,
                       synced, txMap, head, todo>>

-----------------------------------------------------------------------------
(* Start.                                                                  *)

\* Seeded fault: the blocks whose events were not confirmed are not read again.
MutLastHeightWithoutDelay ==
    CASE rescanHeight > 0 -> rescanHeight
      [] rescanHeight = 0 /\ height = 0 -> currentBlock
      [] OTHER -> height

\* The first block to filter; the subtraction is one of unsigned integers.
LastHeight ==
    CASE rescanHeight > 0 -> (rescanHeight - Delay) % (MaxUint + 1)
      [] rescanHeight = 0 /\ height = 0 -> currentBlock
      [] rescanHeight = 0 /\ height > Delay -> height - Delay
      [] OTHER -> 0

\* The current block and the saved height are read.
Start(flag) ==
    /\ ~up
    /\ up' = TRUE
    /\ rescanHeight' = flag /\ height' = savedHeight
    /\ currentBlock' = BlockNumber /\ nextHead' = HeadAfter(BlockNumber)
    /\ UNCHANGED <<ethereum, vault, savedHeight, sources, synced, txMap, head, todo>>

\* The places of logs in these blocks, and their order: by block, then by index.
Places(blocks) == UNION {{b} \X DOMAIN chain[b] : b \in blocks \cap DOMAIN chain}
Before(p, q) == p[1] < q[1] \/ (p[1] = q[1] /\ p[2] < q[2])

InOrder(places) ==
    {seq \in [1..Cardinality(places) -> places] :
        /\ Elements(seq) = places
        /\ \A j, k \in DOMAIN seq : j < k => Before(seq[j], seq[k])}

LogAt(p) == [ev |-> chain[p[1]][p[2]], block |-> p[1]]

\* FilterWithdraw from LastHeight to the current block, when that is later.
Filter ==
    /\ up /\ ~filtered
    /\ filtered' = TRUE
    /\ \E seq \in InOrder(IF LastHeight < currentBlock
                           THEN Places(LastHeight..currentBlock) ELSE {}) :
           filterQ' = [i \in DOMAIN seq |-> LogAt(seq[i])]
    /\ UNCHANGED <<ethereum, vault, savedHeight, start, subscribed, watchQ, loop>>

\* SubscribeWithdraw: events mined from now on are sent.
Subscribe ==
    /\ up /\ ~subscribed
    /\ subscribed' = TRUE
    /\ UNCHANGED <<ethereum, vault, savedHeight, start, filtered, filterQ, watchQ, loop>>

\* The subscription breaks; events it had not handed over are lost.
Disconnect ==
    /\ Disconnects /\ subscribed
    /\ subscribed' = FALSE
    /\ \E n \in 0..Len(watchQ) : watchQ' = SubSeq(watchQ, 1, n)
    /\ UNCHANGED <<ethereum, vault, savedHeight, start, filtered, filterQ, loop>>

-----------------------------------------------------------------------------
(* The main loop.                                                          *)

Remember(we) ==
    txMap' = IF we.ev \in Foreign THEN txMap
             ELSE {w \in txMap : TxOf[w.ev] # TxOf[we.ev]} \cup {we}

TakeFiltered ==
    /\ up /\ head = Idle /\ filterQ # <<>>
    /\ Remember(Head(filterQ))
    /\ filterQ' = Tail(filterQ)
    /\ UNCHANGED <<ethereum, vault, savedHeight, start, filtered, subscribed, watchQ,
                   synced, nextHead, head, todo>>

TakeWatched ==
    /\ up /\ head = Idle /\ watchQ # <<>>
    /\ Remember(Head(watchQ))
    /\ watchQ' = Tail(watchQ)
    /\ UNCHANGED <<ethereum, vault, savedHeight, start, filtered, subscribed, filterQ,
                   synced, nextHead, head, todo>>

\* Seeded faults: withdrawals are tried without waiting for confirmations, or
\* for the node to be in sync.
MutNewHeadUnconfirmed(n, insync) ==
    /\ up /\ head = Idle
    /\ head' = n
    /\ nextHead' = HeadAfter(n)
    /\ synced' = (synced \/ insync)
    /\ todo' = IF synced' THEN {w \in txMap : n >= w.block} ELSE {}
    /\ UNCHANGED <<ethereum, vault, savedHeight, start, sources, txMap>>
MutNewHeadUnsynced(n, insync) ==
    /\ up /\ head = Idle
    /\ head' = n
    /\ nextHead' = HeadAfter(n)
    /\ synced' = (synced \/ insync)
    /\ todo' = {w \in txMap : n >= w.block + Delay}
    /\ UNCHANGED <<ethereum, vault, savedHeight, start, sources, txMap>>

\* A head arrives, maybe not the next one; SyncProgress tells whether the node
\* is in sync.  Blocks after MaxBlock are taken for MaxBlock.
NewHead(n, insync) ==
    /\ up /\ head = Idle
    /\ head' = n
    /\ nextHead' = HeadAfter(n)
    /\ synced' = (synced \/ insync)
    /\ todo' = IF synced' THEN {w \in txMap : n >= w.block + Delay} ELSE {}
    /\ UNCHANGED <<ethereum, vault, savedHeight, start, sources, txMap>>

\* A cosigner looks for the receiver's first event from the block on.
Validated(we) ==
    LET own == {p \in Places(we.block..BlockNumber) :
                   ReceiverOf[LogAt(p).ev] = ReceiverOf[we.ev]}
    IN  \E p \in own : /\ LogAt(p).ev = we.ev
                       /\ \A q \in own : q = p \/ Before(p, q)

Signed(we) == Cosigned => Validated(we)

Known(we) == \E r \in receipts : r.memo = TxOf[we.ev]

VaultPays(we) ==
    Vault!Pay([id |-> TxOf[we.ev], kind |-> "withdraw", memo |-> TxOf[we.ev]])

\* withdraw returns nil without a payment: nothing to pay, already paid, or
\* soaked because the destination cannot receive it.
WithdrawSkips(we) ==
    /\ \/ we.ev \in Skipped
       \/ Known(we)
       \/ we.ev \in Unreachable /\ Signed(we)
    /\ todo' = todo \ {we} /\ txMap' = txMap \ {we}
    /\ UNCHANGED <<ethereum, vault, savedHeight, start, sources, synced, nextHead, head>>

WithdrawPays(we) ==
    /\ we.ev \notin Skipped \cup Unreachable
    /\ Signed(we) /\ VaultPays(we)
    /\ todo' = todo \ {we} /\ txMap' = txMap \ {we}
    /\ UNCHANGED <<ethereum, late, savedHeight, start, sources, synced, nextHead, head>>

\* Seeded fault: a withdrawal is forgotten whether or not it succeeded.
MutWithdrawFailsForgets(we) ==
    /\ we.ev \notin Skipped
    /\ UNCHANGED late
    /\ todo' = todo \ {we} /\ txMap' = txMap \ {we}
    /\ UNCHANGED <<ethereum, receipts, savedHeight, start, sources, synced, nextHead,
                   head>>

\* withdraw returns an error, but may have submitted the payment; the
\* withdrawal stays remembered.
WithdrawFails(we) ==
    /\ we.ev \notin Skipped
    /\ \/ Signed(we) /\ ~Known(we) /\ late' = late \cup {we.ev}
       \/ UNCHANGED late
    /\ todo' = todo \ {we}
    /\ UNCHANGED <<ethereum, receipts, savedHeight, start, sources, synced, nextHead,
                   txMap, head>>

\* Seeded fault: the loop does not go on after the first head.
MutSaveHeightStops ==
    /\ head # Idle /\ todo = {}
    /\ savedHeight' = head
    /\ UNCHANGED <<ethereum, vault, start, sources, loop>>

\* SaveHeight, whatever is still remembered; an error is logged only, and the
\* monitor's save of its cursor may put the previous height back.
SaveHeight ==
    /\ head # Idle /\ todo = {}
    /\ savedHeight' \in {head, savedHeight}
    /\ head' = Idle
    /\ UNCHANGED <<ethereum, vault, start, sources, synced, nextHead, txMap, todo>>

Withdraw ==
    \E we \in todo : WithdrawSkips(we) \/ WithdrawPays(we) \/ WithdrawFails(we)

\* A payment the caller gave up on is executed after all, or dropped.
LatePayment(e) ==
    /\ late' = late \ {e}
    /\ \/ e \notin Unreachable /\ VaultPays([ev |-> e, block |-> 0])
       \/ UNCHANGED receipts
    /\ UNCHANGED <<ethereum, savedHeight, start, sources, loop>>

Crash ==
    /\ up
    /\ up' = FALSE /\ synced' = FALSE
    /\ rescanHeight' = 0 /\ height' = 0 /\ currentBlock' = 0
    /\ filtered' = FALSE /\ subscribed' = FALSE
    /\ filterQ' = <<>> /\ watchQ' = <<>>
    /\ txMap' = {} /\ head' = Idle /\ todo' = {} /\ nextHead' = 1
    /\ UNCHANGED <<ethereum, vault, savedHeight>>

AnyHead(insync) == \E n \in nextHead..BlockNumber : NewHead(n, insync)
AnyStart == \E flag \in RescanHeights : Start(flag)

Next ==
    \/ Mine \/ \E n \in 1..MaxReorg : Reorg(n)
    \/ AnyStart \/ Filter \/ Subscribe \/ Disconnect
    \/ TakeFiltered \/ TakeWatched
    \/ \E insync \in BOOLEAN : AnyHead(insync)
    \/ Withdraw \/ SaveHeight
    \/ \E e \in late : LatePayment(e)
    \/ Crash

Spec == Init /\ [][Next]_vars

-----------------------------------------------------------------------------
(* Properties.                                                             *)

WithdrawEvents == [ev : Events, block : 1..MaxBlock]

\* The types of the variables; txMap has one entry for a transaction hash, and
\* only entries of it that are old enough are being tried.
TypeOK ==
    /\ Len(chain) <= MaxBlock /\ OnChain(chain) \subseteq Events
    /\ receipts \subseteq Vault!Receipts
    /\ late \subseteq Events
    /\ savedHeight \in 0..MaxBlock
    /\ up \in BOOLEAN /\ synced \in BOOLEAN
    /\ rescanHeight \in RescanHeights \cup {0}
    /\ height \in 0..MaxBlock /\ currentBlock \in 0..MaxBlock
    /\ filtered \in BOOLEAN /\ subscribed \in BOOLEAN
    /\ Elements(filterQ) \cup Elements(watchQ) \cup txMap \subseteq WithdrawEvents
    /\ nextHead \in 1..MaxBlock
    /\ \A w, x \in txMap : TxOf[w.ev] = TxOf[x.ev] => w = x
    /\ head \in 0..MaxBlock
    /\ todo \subseteq {w \in txMap : synced /\ head >= w.block + Delay}

Remembered(e) == \E w \in txMap : w.ev = e

Settled(e) == \/ e \in Skipped \cup Foreign \cup Unreachable
              \/ \E r \in receipts : r.memo = TxOf[e]

Tracked(e) == \/ Remembered(e) \/ Settled(e)
              \/ \E w \in Elements(filterQ) \cup Elements(watchQ) : w.ev = e

\* The main loop drops a withdrawal only when it is settled, and when the
\* process dies.
NothingForgotten ==
    [][\A w \in txMap : up' => (Remembered(w.ev) \/ Settled(w.ev))']_vars

\* Where a restart must read again: from the height it is told, and otherwise
\* all blocks that were not confirmed by the last head that was saved.
RestartFrom == IF rescanHeight > 0 THEN rescanHeight ELSE height - Delay + 1

\* After a restart no withdrawal is lost that was mined while the bridge was
\* down, or was waiting for confirmations when it went down, in a block that is
\* final when it starts.  A rescan height below Delay is not among those that
\* work: the subtraction wraps around and nothing is read.
RestartCovers ==
    filtered /\ (IF rescanHeight = 0 THEN height # 0 ELSE rescanHeight >= Delay) =>
        \A b \in 1..(currentBlock - MaxReorg) :
            b >= RestartFrom => \A e \in Elements(chain[b]) : Tracked(e)

\* A withdrawal is paid only when its event is in the chain, under Delay - 1
\* blocks at least.
ConfirmedBeforePaid ==
    [][\A r \in receipts' \ receipts :
          \E b \in DOMAIN chain :
              /\ \E e \in Elements(chain[b]) : TxOf[e] = r.memo
              /\ BlockNumber >= b + Delay]_vars

-----------------------------------------------------------------------------
(* Liveness: blocks are mined, the process is restarted and its goroutines *)
(* run, the node gets in sync, and a payment tried again and again that    *)
(* the cosigners accept is made.                                           *)

Pays(e) == \E we \in todo : we.ev = e /\ (WithdrawSkips(we) \/ WithdrawPays(we))

Fairness ==
    /\ WF_vars(Mine) /\ WF_vars(AnyStart)
    /\ WF_vars(Filter) /\ WF_vars(Subscribe)
    /\ SF_vars(TakeFiltered) /\ SF_vars(TakeWatched)
    /\ SF_vars(AnyHead(TRUE))
    /\ WF_vars(Withdraw) /\ WF_vars(SaveHeight)
    /\ \A e \in Events : SF_vars(Pays(e))

FairSpec == Spec /\ Fairness

\* No withdrawal stays in txMap for ever: it is settled, or the process dies.
NoneStuck == \A e \in Events : []<>~Remembered(e)
=============================================================================
