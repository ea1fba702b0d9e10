-------------------------- MODULE MCTokenGovernance --------------------------
(* Instances of TokenGovernance for TLC. *)
EXTENDS TokenGovernance, TLC

CONSTANTS ann, ben, carl, multisig, impl1, impl2, zero, alice, bob, s1, s2, none, t1, t2

TheOwners == <<ann, ben>>

TheCalls ==
    {[fn |-> "addOwner", owner |-> carl],
     [fn |-> "removeOwner", owner |-> ben],
     [fn |-> "replaceOwner", owner |-> ann, newOwner |-> carl],
     [fn |-> "changeRequirement", required |-> 1],
     [fn |-> "removeTokenOwner", owner |-> ann],
     [fn |-> "upgradeTo", implementation |-> zero],
     [fn |-> "setSigners", signers |-> <<s2>>, required |-> 1]}

TheDirectCalls ==
    {[fn |-> "addTokenOwner", owner |-> multisig],
     [fn |-> "setSigners", signers |-> <<s1, s2>>, required |-> 2]}

TheAmounts == t1 :> 2 @@ t2 :> 1
TheReceivers == t1 :> alice @@ t2 :> bob
=============================================================================
