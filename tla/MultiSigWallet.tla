---------------------------- MODULE MultiSigWallet ----------------------------
(***************************************************************************)
(* The multi-signature wallet that is to own the token contract: owners    *)
(* submit a call, confirm it or revoke their confirmation, and the call    *)
(* that enough of the present owners have confirmed is executed once.  A   *)
(* call that fails stays open and may be executed later.  The wallet       *)
(* changes its own owners and requirement by calls to itself.              *)
(*                                                                         *)
(* What a call to another contract does is given by the module that        *)
(* composes the wallet with that contract.                                 *)
(*                                                                         *)
(* Source: solidity/multisig/MultiSigWallet.sol.                           *)
(***************************************************************************)
EXTENDS Naturals, Sequences, FiniteSets

CONSTANTS Addresses,      \* accounts and contracts of the chain
          NoAddress,      \* the zero address
          FirstOwners,    \* arguments of the wallet's constructor
          FirstRequired,
          MaxOwners       \* MAX_OWNER_COUNT

Distinct(list) == \A i, j \in DOMAIN list : list[i] = list[j] => i = j

Members(list) == {list[i] : i \in DOMAIN list}

ASSUME WalletAssumption ==
    /\ NoAddress \notin Addresses
    /\ FirstOwners \in Seq(Addresses) /\ Distinct(FirstOwners)
    /\ FirstRequired \in 1..Len(FirstOwners)
    /\ MaxOwners \in Nat /\ Len(FirstOwners) <= MaxOwners

VARIABLES owners,         \* the list isConfirmed counts over
          isOwner,        \* the mapping the modifiers ask
          required,
          transactions,   \* the calls submitted, with their executed flag
          confirmations   \* who confirms each of them

authority == <<owners, isOwner, required>>
walletVars == <<owners, isOwner, required, transactions, confirmations>>

WalletInit ==
    /\ owners = FirstOwners
    /\ isOwner = Members(FirstOwners)
    /\ required = FirstRequired
    /\ transactions = <<>>
    /\ confirmations = <<>>

-----------------------------------------------------------------------------
(* Lists of addresses, for this contract and for the owners of the token.  *)

\* The removal loop: the first match among all but the last gives way to the
\* last, which is cut off in any case.
SwapAndPop(list, x) ==
    LET first(i) == list[i] = x /\ \A j \in 1..(i - 1) : list[j] # x
    IN [i \in 1..(Len(list) - 1) |-> IF first(i) THEN list[Len(list)] ELSE list[i]]

Replaced(list, x, y) ==
    LET first(i) == list[i] = x /\ \A j \in 1..(i - 1) : list[j] # x
    IN [i \in 1..Len(list) |-> IF first(i) THEN y ELSE list[i]]

-----------------------------------------------------------------------------
(* The wallet's calls to itself.  A call whose check fails is reverted.    *)

OwnCalls == {"addOwner", "removeOwner", "replaceOwner", "changeRequirement"}

ValidRequirement(count, n) == count <= MaxOwners /\ n <= count /\ n > 0 /\ count > 0

WalletAccepts(c) ==
    \/ /\ c.fn = "addOwner"
       /\ c.owner \notin isOwner /\ c.owner # NoAddress
       /\ ValidRequirement(Len(owners) + 1, required)
    \/ /\ c.fn = "removeOwner"
       /\ c.owner \in isOwner
       /\ required >= Len(owners) => ValidRequirement(Len(owners) - 1, Len(owners) - 1)
    \/ /\ c.fn = "replaceOwner"
       /\ c.owner \in isOwner /\ c.newOwner \notin isOwner
    \/ /\ c.fn = "changeRequirement"
       /\ ValidRequirement(Len(owners), c.required)

AddOwner(x) ==
    /\ isOwner' = isOwner \cup {x}
    /\ owners' = Append(owners, x)
    /\ UNCHANGED required

MutRemoveOwnerKeepsRequired(x) ==
    /\ isOwner' = isOwner \ {x}
    /\ owners' = SwapAndPop(owners, x)
    /\ UNCHANGED required

\* The requirement follows the number of owners down.
RemoveOwner(x) ==
    /\ isOwner' = isOwner \ {x}
    /\ owners' = SwapAndPop(owners, x)
    /\ required' = IF required > Len(owners) - 1 THEN Len(owners) - 1 ELSE required

ReplaceOwner(x, y) ==
    /\ owners' = Replaced(owners, x, y)
    /\ isOwner' = (isOwner \ {x}) \cup {y}
    /\ UNCHANGED required

ChangeRequirement(n) ==
    /\ required' = n
    /\ UNCHANGED <<owners, isOwner>>

WalletApplies(c) ==
    \/ c.fn = "addOwner" /\ AddOwner(c.owner)
    \/ c.fn = "removeOwner" /\ RemoveOwner(c.owner)
    \/ c.fn = "replaceOwner" /\ ReplaceOwner(c.owner, c.newOwner)
    \/ c.fn = "changeRequirement" /\ ChangeRequirement(c.required)

-----------------------------------------------------------------------------
(* Confirmations.                                                          *)

\* Only the confirmations of present owners count.
IsConfirmed(yes) == Cardinality({i \in DOMAIN owners : owners[i] \in yes}) >= required

Pending(t) == t \in DOMAIN transactions /\ ~transactions[t].executed

Submits(a, c) ==
    /\ a \in isOwner
    /\ confirmations' = Append(confirmations, {a})

\* Confirming an executed transaction reverts, since its execution does.
Confirms(a, t) ==
    /\ a \in isOwner /\ Pending(t) /\ a \notin confirmations[t]
    /\ confirmations' = [confirmations EXCEPT ![t] = @ \cup {a}]

RevokeConfirmation(a, t) ==
    /\ a \in isOwner /\ Pending(t) /\ a \in confirmations[t]
    /\ confirmations' = [confirmations EXCEPT ![t] = @ \ {a}]
    /\ UNCHANGED <<owners, isOwner, required, transactions>>
=============================================================================
