------------------------------- MODULE TokenV1 -------------------------------
(***************************************************************************)
(* The token contract behind its proxy.  All state is in the proxy's       *)
(* storage.  The owner functions are part of the proxy itself; every other *)
(* function runs in the implementation the proxy points to, and reverts    *)
(* when that is the zero address.                                          *)
(*                                                                         *)
(* Tokens are minted with the signatures of the bridge's signers over      *)
(* receiver, amount and transaction id, which are AmountOf and ReceiverOf  *)
(* of the id: the cosigners sign no others for a deposit.                  *)
(*                                                                         *)
(* Source: solidity/contracts/tokenV1.sol, owned.sol, upgradeable.sol,     *)
(* proxy.sol, token_storage.sol.                                           *)
(***************************************************************************)
EXTENDS MultiSigWallet

CONSTANTS Deployer, FirstImplementation,
          Holders,        \* accounts that hold and move tokens
          Signers,        \* keys of the bridge's nodes
          Ids, AmountOf, ReceiverOf,
          Amounts,        \* amounts that are transferred, approved or burned
          MaxUint,        \* 2^256 - 1
          NoSignature     \* an entry with v = 0

ASSUME TokenAssumption ==
    /\ Deployer \in Addresses /\ FirstImplementation \in Addresses \cup {NoAddress}
    /\ NoAddress \notin Holders /\ NoSignature \notin Signers
    /\ AmountOf \in [Ids -> Nat] /\ ReceiverOf \in [Ids -> Holders]
    /\ Amounts \subseteq 0..MaxUint /\ MaxUint \in Nat

VARIABLES tokenOwners,    \* the list in the proxy's storage
          tokenOwner,     \* the mapping in the proxy's storage
          implementation,
          signers, signaturesRequired,
          signed,         \* signatures the nodes have given
          mintIDs, balance, totalSupply, allowed,
          burned          \* tokens withdrawn since the beginning

ownership == <<tokenOwners, tokenOwner>>
control == <<tokenOwners, tokenOwner, implementation, signers, signaturesRequired>>
funds == <<mintIDs, balance, totalSupply, allowed, burned>>
tokenVars == <<control, signed, funds>>

\* The zero address may receive tokens.
Accounts == Holders \cup {NoAddress}

TokenInit ==
    /\ tokenOwners = <<Deployer>> /\ tokenOwner = {Deployer}
    /\ implementation = FirstImplementation
    /\ signers = <<>> /\ signaturesRequired = 0
    /\ signed = {}
    /\ mintIDs = {} /\ totalSupply = 0 /\ burned = 0
    /\ balance = [a \in Accounts |-> 0]
    /\ allowed = [a \in Holders |-> [b \in Holders |-> 0]]

Implemented == implementation # NoAddress

-----------------------------------------------------------------------------
(* What only an owner may call.                                            *)

OwnerCalls == {"addTokenOwner", "removeTokenOwner", "upgradeTo", "setSigners"}

TokenAccepts(sender, c) ==
    /\ sender \in tokenOwner
    /\ \/ /\ c.fn = "addTokenOwner"
          /\ c.owner \notin tokenOwner /\ c.owner # NoAddress
       \/ /\ c.fn = "removeTokenOwner"
          /\ c.owner \in tokenOwner /\ c.owner # NoAddress /\ c.owner # sender
       \/ /\ c.fn = "upgradeTo" /\ Implemented
          /\ c.implementation # implementation
       \/ /\ c.fn = "setSigners" /\ Implemented
          /\ c.required \in 1..Len(c.signers)

AddTokenOwner(x) ==
    /\ tokenOwners' = Append(tokenOwners, x)
    /\ tokenOwner' = tokenOwner \cup {x}
    /\ UNCHANGED <<implementation, signers, signaturesRequired>>

RemoveTokenOwner(x) ==
    /\ tokenOwners' = SwapAndPop(tokenOwners, x)
    /\ tokenOwner' = tokenOwner \ {x}
    /\ UNCHANGED <<implementation, signers, signaturesRequired>>

UpgradeTo(i) ==
    /\ implementation' = i
    /\ UNCHANGED <<ownership, signers, signaturesRequired>>

SetSigners(list, n) ==
    /\ signers' = list /\ signaturesRequired' = n
    /\ UNCHANGED <<ownership, implementation>>

TokenApplies(c) ==
    \/ c.fn = "addTokenOwner" /\ AddTokenOwner(c.owner)
    \/ c.fn = "removeTokenOwner" /\ RemoveTokenOwner(c.owner)
    \/ c.fn = "upgradeTo" /\ UpgradeTo(c.implementation)
    \/ c.fn = "setSigners" /\ SetSigners(c.signers, c.required)

-----------------------------------------------------------------------------
(* What anyone may call.  An amount that does not fit reverts.             *)

Fits(n) == n <= MaxUint

\* sigs has one entry per signer.  Entries are verified up to the one that
\* completes the required number; the rest is not looked at.
Verified(sigs, id, i) == sigs[i] = signers[i] /\ <<sigs[i], id>> \in signed

Given(sigs, n) == {i \in 1..n : sigs[i] # NoSignature}

\* Any signature of a signer counts, wherever it stands.
MutCheckSignaturesAnywhere(sigs, id) ==
    \E n \in 0..Len(signers) :
        /\ Cardinality(Given(sigs, n)) = signaturesRequired
        /\ \A i \in Given(sigs, n) :
               sigs[i] \in Members(signers) /\ <<sigs[i], id>> \in signed

CheckSignatures(sigs, id) ==
    \E n \in 0..Len(signers) :
        /\ Cardinality(Given(sigs, n)) = signaturesRequired
        /\ \A i \in Given(sigs, n) : Verified(sigs, id, i)

Sign(s, id) ==
    /\ <<s, id>> \notin signed
    /\ signed' = signed \cup {<<s, id>>}
    /\ UNCHANGED <<control, funds>>

MintTokens(id, sigs) ==
    /\ Implemented
    /\ id \notin mintIDs
    /\ CheckSignatures(sigs, id)
    /\ Fits(balance[ReceiverOf[id]] + AmountOf[id]) /\ Fits(totalSupply + AmountOf[id])
    /\ mintIDs' = mintIDs \cup {id}
    /\ balance' = [balance EXCEPT ![ReceiverOf[id]] = @ + AmountOf[id]]
    /\ totalSupply' = totalSupply + AmountOf[id]
    /\ UNCHANGED <<control, signed, allowed, burned>>

\* Both balances are read before one is written.
MutMovedStale(from, to, n) ==
    [balance EXCEPT ![from] = @ - n, ![to] = balance[to] + n]

\* The receiver's balance is read after the sender's was written: the two may
\* be the same account.
Moved(from, to, n) ==
    LET paid == [balance EXCEPT ![from] = @ - n]
    IN [paid EXCEPT ![to] = @ + n]

MutMovableUnchecked(from, to, n) ==
    /\ Implemented
    /\ from # to => Fits(balance[to] + n)

Movable(from, to, n) ==
    /\ Implemented
    /\ n <= balance[from]
    /\ from # to => Fits(balance[to] + n)

Transfer(a, to, n) ==
    /\ Movable(a, to, n)
    /\ balance' = Moved(a, to, n)
    /\ UNCHANGED <<control, signed, mintIDs, totalSupply, allowed, burned>>

Approve(a, spender, n) ==
    /\ Implemented
    /\ allowed' = [allowed EXCEPT ![a][spender] = n]
    /\ UNCHANGED <<control, signed, mintIDs, balance, totalSupply, burned>>

TransferFrom(spender, from, to, n) ==
    /\ Movable(from, to, n)
    /\ n <= allowed[from][spender]
    /\ allowed' = [allowed EXCEPT ![from][spender] = @ - n]
    /\ balance' = Moved(from, to, n)
    /\ UNCHANGED <<control, signed, mintIDs, totalSupply, burned>>

Withdraw(a, n) ==
    /\ Implemented
    /\ n <= balance[a] /\ n <= totalSupply
    /\ balance' = [balance EXCEPT ![a] = @ - n]
    /\ totalSupply' = totalSupply - n
    /\ burned' = burned + n
    /\ UNCHANGED <<control, signed, mintIDs, allowed>>
=============================================================================
