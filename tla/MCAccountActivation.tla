------------------------ MODULE MCAccountActivation ------------------------
(* Instances of AccountActivation for TLC. *)
EXTENDS AccountActivation, TLC

CONSTANTS r1, r2, r3, r4, alice, bob

\* Two requests for one account, and one whose account cannot be activated
\* for two reasons.
Named == r1 :> alice @@ r2 :> alice @@ r3 :> bob @@ r4 :> bob
PlaceInLog == r1 :> 1 @@ r2 :> 2 @@ r3 :> 3 @@ r4 :> 4
=============================================================================
