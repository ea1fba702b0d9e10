---------------------------- MODULE SignersClient ----------------------------
(***************************************************************************)
(* One round of questions to the cosigners: every peer gets a channel of   *)
(* its own, the answers are polled, and the round is over as soon as the   *)
(* required number of good answers is in or no channel is left.  A channel *)
(* closed on the 30 s timeout reads as an empty answer.                    *)
(*                                                                         *)
(* Source: bridges/stellar-solana/api/bridge/signer.go; Sign, SignMint and *)
(* SolID are this loop with other questions.                               *)
(***************************************************************************)
EXTENDS Naturals, FiniteSets

VARIABLES waiting,  \* responseChannels: the peers still to be heard
          good      \* results: the peers that gave a good answer

Init == waiting = {} /\ good = {}

\* A goroutine and a channel for every peer.
Ask(peers) ==
    /\ waiting' = peers
    /\ good' = {}

\* The locals of the round go out of scope.
Forget == waiting' = {} /\ good' = {}

\* Peer p answers.
Good(p) ==
    /\ p \in waiting
    /\ waiting' = waiting \ {p}
    /\ good' = good \cup {p}

\* It refuses, cannot be reached, or its channel is closed on the timeout.
Bad(p) ==
    /\ p \in waiting
    /\ waiting' = waiting \ {p}
    /\ UNCHANGED good

\* Seeded fault: the loop hears every peer.
MutOverAll(peers, need) == waiting = {}

\* The loop ends: no channel is left, or there are enough results after an
\* answer.  The number is only looked at when an answer has come.
Over(peers, need) ==
    \/ waiting = {}
    \/ waiting # peers /\ Cardinality(good) = need
=============================================================================
