-------------------------- MODULE AccountActivation --------------------------
(***************************************************************************)
(* The service that creates Stellar accounts paid for on Ethereum.  A      *)
(* watcher goroutine filters ActivateAccount events from the last block it *)
(* looked at up to the newest one and hands them over an unbuffered        *)
(* channel; a handler goroutine asks whether the account it pays from has  *)
(* sent a transaction with this memo before, and creates the account until *)
(* that succeeds or needs no repetition.  Only the block of the last       *)
(* successful activation is kept on disk.                                  *)
(*                                                                         *)
(* Every transaction of the paying account has the sequence number after   *)
(* the last one it saw executed, so one that is executed makes all others  *)
(* void: sequence numbers are the flags fresh and current.                 *)
(*                                                                         *)
(* Source: accountactivation/main.go, handler.go, eth/contractwatcher.go,  *)
(* stellar/*.go, state/persistency.go, solidity accountactivation.sol.     *)
(***************************************************************************)
EXTENDS Naturals, Sequences, FiniteSets

CONSTANTS Requests,       \* Ethereum transactions that request an activation
          AccountOf,      \* the account each of them names
          LogIndex,       \* its place in the log of a block
          Other,          \* requests for a network other than Stellar
          Invalid,        \* requests whose account is no Stellar address
          Rescans,        \* values of --rescanHeight, 0 when it is not given
          NoRequest,
          MaxBlock,       \* bound: blocks mined
          MaxSent         \* bound: an account is merged away only as long as
                          \* its requests were executed less often

Accounts == {AccountOf[r] : r \in Requests}
\* Those that a request can create; the others are none of Stellar.
StellarAccounts == {AccountOf[r] : r \in Requests \ (Other \cup Invalid)}

ASSUME ActivationAssumption ==
    /\ IsFiniteSet(Requests) /\ NoRequest \notin Requests
    /\ LogIndex \in [Requests -> Nat]
    /\ \A r, s \in Requests : LogIndex[r] = LogIndex[s] => r = s
    /\ Other \subseteq Requests /\ Invalid \subseteq Requests
    /\ MaxBlock \in Nat /\ MaxSent \in Nat /\ Rescans \subseteq Nat

VARIABLES chain,          \* requests in each Ethereum block
          exists,         \* accounts on the Stellar network
          sent,           \* times each request was executed on Stellar
          late,           \* requests with a transaction that may yet be executed
          current,        \* Horizon shows all that was executed
          listed,         \* memos Horizon shows
          up, saved,      \* the process, and LastHeight in its file
          watchFrom, batch,  \* the watcher
          pc, job, fresh, \* the handler; fresh: it read the latest sequence number
          since,          \* first block the service answers for
          settled,        \* requests executed or given up for good reason
          exposed         \* requests whose account was merged away too early

ethereum == <<chain>>
network == <<exists, sent, late, current, listed>>
watcher == <<watchFrom, batch>>
handler == <<pc, job, fresh>>
history == <<since, settled, exposed>>
vars == <<chain, exists, sent, late, current, listed, up, saved, watchFrom, batch,
          pc, job, fresh, since, settled, exposed>>

Tip == Len(chain)
Mined == UNION {chain[n] : n \in 1..Tip}
\* 0 as long as it is not mined.
BlockOf(r) == IF r \in Mined THEN CHOOSE n \in 1..Tip : r \in chain[n] ELSE 0

Init ==
    /\ chain = <<{}>>
    /\ exists = {} /\ sent = [r \in Requests |-> 0] /\ late = {}
    /\ current = TRUE /\ listed = {}
    /\ up = FALSE /\ saved = 0
    /\ watchFrom = 0 /\ batch = <<>>
    /\ pc = "idle" /\ job = NoRequest /\ fresh = FALSE
    /\ since = 1 /\ settled = {} /\ exposed = {}

-----------------------------------------------------------------------------
(* Ethereum and the Stellar network.                                       *)

\* activateAccount was paid for.
Mine(S) ==
    /\ Tip < MaxBlock
    /\ S \cap Mined = {}
    /\ chain' = Append(chain, S)
    /\ UNCHANGED <<network, up, saved, watcher, handler, history>>

\* The account may have been created by someone else.
Appear(a) ==
    /\ a \notin exists
    /\ exists' = exists \cup {a}
    /\ UNCHANGED <<ethereum, sent, late, current, listed, up, saved, watcher, handler,
                   history>>

Executed == {r \in Requests : sent[r] > 0}

\* An execution of r is not the last: one of its transactions may yet be
\* executed, the handler is past the memo check, or would pass it.
Repeatable(r) ==
    r \in late \/ (job = r /\ pc \in {"load", "submit"}) \/ r \notin listed

\* Its owner may merge an account into another one at any time, also while a
\* request for it that was executed can be executed once more.
Merge(a) ==
    /\ a \in exists
    /\ \A r \in Requests : AccountOf[r] = a => sent[r] < MaxSent
    /\ exists' = exists \ {a}
    /\ exposed' = exposed \cup
          {r \in Executed : AccountOf[r] = a /\ Repeatable(r)}
    /\ UNCHANGED <<ethereum, sent, late, current, listed, up, saved, watcher, handler,
                   since, settled>>

\* A createAccount operation is executed.
Execute(r) ==
    /\ late' = {}
    /\ IF AccountOf[r] \in exists THEN UNCHANGED <<exists, sent>>
       ELSE /\ exists' = exists \cup {AccountOf[r]}
            /\ sent' = [sent EXCEPT ![r] = @ + 1]

\* A transaction whose submission timed out is executed after all, or never.
ExecuteLate(r) ==
    /\ r \in late
    /\ Execute(r)
    /\ current' = FALSE /\ fresh' = FALSE
    /\ UNCHANGED <<ethereum, listed, up, saved, watcher, pc, job, history>>

Expire(r) ==
    /\ r \in late
    /\ late' = late \ {r}
    /\ UNCHANGED <<ethereum, exists, sent, current, listed, up, saved, watcher, handler,
                   history>>

Ingest ==
    /\ ~current
    /\ current' = TRUE /\ listed' = Executed
    /\ UNCHANGED <<ethereum, exists, sent, late, up, saved, watcher, handler, history>>

-----------------------------------------------------------------------------
(* The watcher.                                                            *)

\* The saved block itself is taken for complete.
MutStartAfterSaved(rescan) ==
    /\ ~up /\ up' = TRUE
    /\ rescan > 0 => saved = 0 \/ rescan <= saved
    /\ watchFrom' = IF rescan > 0 THEN rescan
                    ELSE IF saved > 0 /\ saved < Tip THEN saved + 1 ELSE Tip
    /\ since' = IF saved = 0 THEN watchFrom' ELSE since
    /\ UNCHANGED <<ethereum, network, saved, batch, handler, settled, exposed>>

\* Without a saved height or a flag the service begins at the newest block.
Start(rescan) ==
    /\ ~up /\ up' = TRUE
    /\ rescan > 0 => saved = 0 \/ rescan <= saved
    /\ watchFrom' = IF rescan > 0 THEN rescan ELSE IF saved > 0 THEN saved ELSE Tip
    /\ since' = IF saved = 0 THEN watchFrom' ELSE since
    /\ UNCHANGED <<ethereum, network, saved, batch, handler, settled, exposed>>

\* The logs of these requests, in the order of the chain.
InLogOrder(S) ==
    {q \in [1..Cardinality(S) -> S] :
        /\ \A r \in S : \E i \in DOMAIN q : q[i] = r
        /\ \A i, j \in DOMAIN q : i < j =>
              \/ BlockOf(q[i]) < BlockOf(q[j])
              \/ BlockOf(q[i]) = BlockOf(q[j]) /\ LogIndex[q[i]] < LogIndex[q[j]]}

\* The next search leaves a block out.
MutSearchPastTip ==
    /\ up /\ batch = <<>>
    /\ watchFrom <= Tip
    /\ batch' \in InLogOrder({r \in Mined : BlockOf(r) >= watchFrom})
    /\ watchFrom' = Tip + 2
    /\ UNCHANGED <<ethereum, network, up, saved, handler, history>>

Search ==
    /\ up /\ batch = <<>>
    /\ watchFrom <= Tip
    /\ batch' \in InLogOrder({r \in Mined : BlockOf(r) >= watchFrom})
    /\ watchFrom' = Tip + 1
    /\ UNCHANGED <<ethereum, network, up, saved, handler, history>>

-----------------------------------------------------------------------------
(* The handler.                                                            *)

\* The channel is unbuffered: the watcher waits until the handler is ready.
Receive ==
    /\ pc = "idle" /\ batch # <<>>
    /\ batch' = Tail(batch)
    /\ IF Head(batch) \in Other THEN UNCHANGED <<pc, job>>
       ELSE pc' = "check" /\ job' = Head(batch)
    /\ UNCHANGED <<ethereum, network, up, saved, watchFrom, fresh, history>>

NextRequest == job' = NoRequest /\ pc' = "idle" /\ fresh' = FALSE

\* The cache is not consulted.
MutCheckMemoNever ==
    /\ pc = "check"
    /\ pc' = "load"
    /\ UNCHANGED <<ethereum, network, up, saved, watcher, job, fresh, history>>

\* The account is scanned again before the memo is looked up.
CheckMemo ==
    /\ pc = "check"
    /\ IF job \in listed
       THEN NextRequest /\ settled' = settled \cup {job}
       ELSE pc' = "load" /\ UNCHANGED <<job, fresh, settled>>
    /\ UNCHANGED <<ethereum, network, up, saved, watcher, since, exposed>>

RejectAddress ==
    /\ pc = "load" /\ job \in Invalid
    /\ NextRequest
    /\ settled' = settled \cup {job}
    /\ UNCHANGED <<ethereum, network, up, saved, watcher, since, exposed>>

LoadAccount ==
    /\ pc = "load" /\ job \notin Invalid
    /\ pc' = "submit" /\ fresh' = current
    /\ UNCHANGED <<ethereum, network, up, saved, watcher, job, history>>

\* The answer of a success comes when Horizon shows it.  Saving the height may
\* fail, which is ignored.
Created ==
    /\ pc = "submit" /\ fresh /\ AccountOf[job] \notin exists
    /\ Execute(job)
    /\ current' = TRUE /\ listed' = Executed \cup {job}
    /\ saved' \in {saved, BlockOf(job)}
    /\ NextRequest /\ settled' = settled \cup {job}
    /\ UNCHANGED <<ethereum, up, watcher, since, exposed>>

\* The height of a request that needed no activation is not saved.
AlreadyExists ==
    /\ pc = "submit" /\ fresh /\ AccountOf[job] \in exists
    /\ Execute(job)
    /\ current' = TRUE /\ listed' = Executed
    /\ NextRequest /\ settled' = settled \cup {job}
    /\ UNCHANGED <<ethereum, up, saved, watcher, since, exposed>>

\* Any error is treated as one to ignore.
MutRetryGivesUp ==
    /\ pc = "submit"
    /\ NextRequest
    /\ UNCHANGED <<ethereum, network, up, saved, watcher, history>>

\* Any other error: repeat with the sequence number of that time, and without
\* looking for the memo again.  The transaction may still be on its way.
Retry ==
    /\ pc = "submit"
    /\ pc' = "load" /\ fresh' = FALSE
    /\ late' \in {late, IF fresh THEN late \cup {job} ELSE late}
    /\ UNCHANGED <<ethereum, exists, sent, current, listed, up, saved, watcher, job,
                   history>>

Crash ==
    /\ up /\ up' = FALSE
    /\ watchFrom' = 0 /\ batch' = <<>>
    /\ NextRequest
    /\ UNCHANGED <<ethereum, network, saved, history>>

Next ==
    \/ \E S \in SUBSET Requests : Mine(S)
    \/ \E a \in StellarAccounts : Appear(a) \/ Merge(a)
    \/ \E r \in Requests : ExecuteLate(r) \/ Expire(r)
    \/ Ingest
    \/ \E h \in Rescans : Start(h)
    \/ Search \/ Receive \/ CheckMemo \/ RejectAddress \/ LoadAccount
    \/ Created \/ AlreadyExists \/ Retry
    \/ Crash

Spec == Init /\ [][Next]_vars

\* Both goroutines run, the process is restarted, Horizon catches up, and a
\* submission that could succeed again and again does.
FairSpec ==
    /\ Spec
    /\ WF_vars(\E h \in Rescans : Start(h)) /\ WF_vars(Search) /\ WF_vars(Receive)
    /\ WF_vars(CheckMemo) /\ WF_vars(RejectAddress) /\ WF_vars(LoadAccount)
    /\ WF_vars(Retry) /\ SF_vars(Created \/ AlreadyExists)
    /\ WF_vars(Ingest)

-----------------------------------------------------------------------------
(* Properties.                                                             *)

\* The types of the variables; neither the saved block nor the search runs ahead
\* of the chain, unless a rescan from a later block is asked for, and Horizon
\* lists only what was executed.
TypeOK ==
    /\ chain \in Seq(SUBSET Requests)
    /\ exists \subseteq Accounts /\ sent \in [Requests -> Nat] /\ late \subseteq Requests
    /\ current \in BOOLEAN /\ listed \subseteq Executed
    /\ up \in BOOLEAN /\ saved \in 0..Tip
    /\ watchFrom \in 0..(Tip + 1) \cup Rescans /\ batch \in Seq(Requests)
    /\ pc \in {"idle", "check", "load", "submit"} /\ job \in Requests \cup {NoRequest}
    /\ (pc = "idle") = (job = NoRequest) /\ fresh \in BOOLEAN
    /\ since \in 0..Tip \cup Rescans /\ settled \subseteq Mined
    /\ exposed \subseteq Executed

\* A request is paid for once on Ethereum and once on Stellar, whatever is
\* retried, timed out or read again after a restart, also when its account was
\* merged away since.  Only if it was merged away so early that a transaction of
\* the request could yet be executed, or that its execution was not yet shown,
\* is it created again.
FundedOnce == \A r \in Requests : sent[r] <= 1 \/ r \in exposed

\* A restart reads from the saved block on: no request of an earlier block
\* that the service answers for is open.
SavedCovers ==
    \A r \in Mined \ Other : BlockOf(r) >= since /\ BlockOf(r) < saved => r \in settled

\* If crashes stop, a request is settled, unless the service is restarted at a
\* later block because it has nothing saved.
EveryRequestSettled ==
    <>[]up => \A r \in Requests \ Other :
        (BlockOf(r) > 0 /\ BlockOf(r) >= since)
            ~> (r \in settled \/ BlockOf(r) < since)
=============================================================================
