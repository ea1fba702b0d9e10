--------------------------- MODULE TokenGovernance ---------------------------
(***************************************************************************)
(* The token contract with its wallet, in the set-up the readme proposes:  *)
(* the deployer owns the token, makes the wallet an owner, and the wallet  *)
(* then removes the deployer by a confirmed transaction.  From then on     *)
(* everything an owner may do takes a quorum of the wallet's owners.       *)
(*                                                                         *)
(* Source: solidity/multisig/MultiSigWallet.sol, solidity/contracts,       *)
(* bridges/stellar-evm/readme.md:15-32.                                    *)
(***************************************************************************)
EXTENDS TokenV1

CONSTANTS People,         \* accounts that send transactions
          Wallet,         \* the address of the wallet
          Calls,          \* what owners submit to the wallet
          DirectCalls,    \* what people ask of the token themselves
          Approvers,      \* holders who approve a spender
          MaxTransactions, \* bound: what is submitted to the wallet
          MaxWork         \* bound: that and the deposits that are minted

ASSUME GovernanceAssumption ==
    /\ Wallet \in Addresses /\ People \subseteq Addresses \ {Wallet}
    /\ Approvers \subseteq Holders
    /\ \A c \in Calls \cup DirectCalls :
        /\ c.fn \in OwnCalls \cup OwnerCalls
        /\ c.fn \in {"addOwner", "removeOwner", "replaceOwner",
                     "addTokenOwner", "removeTokenOwner"} =>
               c.owner \in Addresses \cup {NoAddress}
        /\ c.fn = "replaceOwner" => c.newOwner \in Addresses \cup {NoAddress}
        /\ c.fn = "changeRequirement" => c.required \in Nat
        /\ c.fn = "upgradeTo" => c.implementation \in Addresses \cup {NoAddress}
        /\ c.fn = "setSigners" => c.signers \in Seq(Signers) /\ c.required \in Nat

vars == <<walletVars, tokenVars>>

Init == WalletInit /\ TokenInit

\* Deposits the bridge has begun to mint.
Begun == mintIDs \cup {id \in Ids : \E s \in Signers : <<s, id>> \in signed}

Work == Len(transactions) + Cardinality(Begun)

-----------------------------------------------------------------------------
(* A call the wallet makes, to itself or to the token.                     *)

Succeeds(c) ==
    \/ c.fn \in OwnCalls /\ WalletAccepts(c)
    \/ c.fn \in OwnerCalls /\ TokenAccepts(Wallet, c)

Effect(c) ==
    \/ c.fn \in OwnCalls /\ WalletApplies(c) /\ UNCHANGED control
    \/ c.fn \in OwnerCalls /\ TokenApplies(c) /\ UNCHANGED authority

\* The flag stays down: the call may be repeated.
MutExecutionForgotten(list, t, yes) ==
    LET c == list[t].call IN
    IF IsConfirmed(yes) /\ Succeeds(c)
    THEN /\ transactions' = list
         /\ Effect(c)
    ELSE /\ transactions' = list
         /\ UNCHANGED <<authority, control>>

\* executeTransaction of the call c, which is entry t of list; the
\* confirmations are those after this message.
Execution(list, t, yes) ==
    LET c == list[t].call IN
    IF IsConfirmed(yes) /\ Succeeds(c)
    THEN /\ transactions' = [list EXCEPT ![t].executed = TRUE]
         /\ Effect(c)
    ELSE /\ transactions' = list
         /\ UNCHANGED <<authority, control>>

SubmitTransaction(a, c) ==
    /\ Len(transactions) < MaxTransactions /\ Work < MaxWork
    /\ Submits(a, c)
    /\ Execution(Append(transactions, [call |-> c, executed |-> FALSE]),
                 Len(transactions) + 1, {a})
    /\ UNCHANGED <<signed, funds>>

ConfirmTransaction(a, t) ==
    /\ Confirms(a, t)
    /\ Execution(transactions, t, confirmations[t] \cup {a})
    /\ UNCHANGED <<signed, funds>>

Revoke(a, t) == RevokeConfirmation(a, t) /\ UNCHANGED tokenVars

\* Anyone may execute what is confirmed: a call that failed before, or one
\* that owner changes or a lower requirement have confirmed.
ExecuteTransaction(t) ==
    /\ Pending(t) /\ IsConfirmed(confirmations[t]) /\ Succeeds(transactions[t].call)
    /\ Execution(transactions, t, confirmations[t])
    /\ UNCHANGED <<confirmations, signed, funds>>

\* A person uses the token's owner functions without the wallet.
Direct(a, c) ==
    /\ TokenAccepts(a, c)
    /\ TokenApplies(c)
    /\ UNCHANGED <<walletVars, signed, funds>>

NodeSigns(s, id) ==
    /\ id \in Begun \/ Work < MaxWork
    /\ Sign(s, id)
    /\ UNCHANGED walletVars

Mint(id, sigs) ==
    /\ id \in Begun \/ Work < MaxWork
    /\ MintTokens(id, sigs)
    /\ UNCHANGED walletVars

TokenUse ==
    /\ UNCHANGED walletVars
    /\ \E a, b \in Holders, n \in Amounts :
        \/ \E to \in Accounts : Transfer(a, to, n)
        \/ a \in Approvers /\ Approve(a, b, n)
        \/ \E to \in Accounts : TransferFrom(b, a, to, n)
        \/ Withdraw(a, n)

Signatures == [DOMAIN signers -> Signers \cup {NoSignature}]

Next ==
    \/ \E a \in People, c \in Calls : SubmitTransaction(a, c)
    \/ \E a \in People, t \in DOMAIN transactions :
           ConfirmTransaction(a, t) \/ Revoke(a, t)
    \/ \E t \in DOMAIN transactions : ExecuteTransaction(t)
    \/ \E a \in People, c \in DirectCalls : Direct(a, c)
    \/ \E s \in Signers, id \in Ids : NodeSigns(s, id)
    \/ \E id \in Ids : \E sigs \in Signatures : Mint(id, sigs)
    \/ TokenUse

Spec == Init /\ [][Next]_vars

-----------------------------------------------------------------------------
(* Properties.                                                             *)

Transactions == [call : Calls, executed : BOOLEAN]

\* The types of both contracts' storage; no balance and no supply leaves its
\* width, and no more signatures are required than there are signers.
TypeOK ==
    /\ owners \in Seq(Addresses \cup {NoAddress})
    /\ isOwner \subseteq Addresses \cup {NoAddress}
    /\ required \in Nat
    /\ transactions \in Seq(Transactions)
    /\ confirmations \in Seq(SUBSET People)
    /\ Len(confirmations) = Len(transactions)
    /\ tokenOwners \in Seq(Addresses) /\ tokenOwner \subseteq Addresses
    /\ implementation \in Addresses \cup {NoAddress}
    /\ signers \in Seq(Signers) /\ signaturesRequired \in 0..Len(signers)
    /\ signed \subseteq Signers \X Ids /\ mintIDs \subseteq Ids
    /\ balance \in [Accounts -> 0..MaxUint] /\ totalSupply \in 0..MaxUint
    /\ allowed \in [Holders -> [Holders -> 0..MaxUint]] /\ burned \in Nat

Enumerates(list, set) == Distinct(list) /\ Members(list) = set

\* Each list of owners and its mapping name the same addresses, whatever was
\* added, replaced and cut off; the wallet can be moved by the owners it has,
\* and the token always has an owner.
OwnersConsistent ==
    /\ Enumerates(owners, isOwner)
    /\ required \in 1..Len(owners) /\ Len(owners) <= MaxOwners
    /\ Enumerates(tokenOwners, tokenOwner)
    /\ tokenOwner # {}

\* The single tokens of the amounts f gives to S: their number is the sum.
Units(f, S) == UNION {{x} \X (1..f[x]) : x \in S}

\* Supply, balances and what was minted and burned agree: each deposit was
\* minted once, and no transfer makes or loses tokens.
SupplyBacked ==
    /\ totalSupply = Cardinality(Units(balance, Accounts))
    /\ totalSupply + burned = Cardinality(Units(AmountOf, mintIDs))

\* Once the wallet is the only owner of the token, its owners, signers and
\* implementation change only by a transaction of the wallet that is executed
\* in this step, for the first time, and that enough of the present owners
\* confirm.  The same holds of the wallet's own owners at any time.
QuorumControls ==
    [][ (control' # control /\ tokenOwner = {Wallet}) \/ authority' # authority =>
          \E t \in DOMAIN transactions' :
              /\ transactions'[t].executed
              /\ t \in DOMAIN transactions => ~transactions[t].executed
              /\ Cardinality(isOwner \cap confirmations'[t]) >= required ]_vars

\* A deposit is minted only with the signatures of as many different signers,
\* of the set in force at that moment, as that set requires.
MintedByQuorum ==
    [][ \A id \in mintIDs' \ mintIDs :
          Cardinality({s \in Members(signers) : <<s, id>> \in signed})
              >= signaturesRequired ]_vars
=============================================================================
