------------------------ MODULE TokenGovernanceProofs ------------------------
(***************************************************************************)
(* Who controls the token contract and what backs its supply, for all sets *)
(* of addresses, calls, deposits and bounds.                               *)
(*                                                                         *)
(* Owners: each list enumerates its mapping without repetition, whatever   *)
(* is added, replaced and removed; the three lemmas on lists say what the  *)
(* removal and replacement loops leave behind.  The wallet's and the       *)
(* token's part are inductive each on its own.                             *)
(*                                                                         *)
(* Quorums: confirmations and signatures are counted by their places in a  *)
(* list.  A list without repetition makes as many places as many owners or *)
(* signers (PlacesCount).                                                  *)
(*                                                                         *)
(* Supply: a sum of amounts is the number of their single units, so that   *)
(* what one account gains or loses is a segment of the set of units.       *)
(***************************************************************************)
EXTENDS TokenGovernance, SequenceTheorems, FiniteSetTheorems, TLAPS

AnyAddress == Addresses \cup {NoAddress}

WalletInv ==
    /\ owners \in Seq(AnyAddress) /\ Enumerates(owners, isOwner)
    /\ required \in 1..Len(owners) /\ Len(owners) <= MaxOwners

TokenInv ==
    /\ tokenOwners \in Seq(Addresses) /\ Enumerates(tokenOwners, tokenOwner)
    /\ tokenOwner # {}

CallsInv ==
    /\ transactions \in Seq(Transactions)
    /\ \A t \in DOMAIN transactions : transactions[t].call \in Calls

GovernanceInv == WalletInv /\ TokenInv /\ CallsInv

-----------------------------------------------------------------------------
(* Lists of owners.                                                        *)

\* An address that is not yet listed is added.
LEMMA AppendEnumerates ==
    ASSUME NEW S, NEW list \in Seq(S), Distinct(list), NEW x \in S, x \notin Members(list)
    PROVE  /\ Append(list, x) \in Seq(S) /\ Len(Append(list, x)) = Len(list) + 1
           /\ Enumerates(Append(list, x), Members(list) \cup {x})
  <1> DEFINE new == Append(list, x)
  <1>1. /\ new \in Seq(S) /\ Len(new) = Len(list) + 1
        /\ new[Len(list) + 1] = x /\ \A i \in 1..Len(list) : new[i] = list[i]
    OBVIOUS
  <1>2. DOMAIN list = 1..Len(list) /\ DOMAIN new = 1..(Len(list) + 1) /\ Len(list) \in Nat
    BY <1>1
  <1> HIDE DEF new
  <1>3. Distinct(new)
    BY <1>1, <1>2 DEF Distinct, Members
  <1>4. Members(new) = Members(list) \cup {x}
    <2>1. ASSUME NEW y \in Members(new) PROVE y \in Members(list) \cup {x}
      BY <2>1, <1>1, <1>2 DEF Members
    <2>2. ASSUME NEW y \in Members(list) \cup {x} PROVE y \in Members(new)
      <3>1. CASE y = x
        BY <3>1, <1>1, <1>2 DEF Members
      <3>2. CASE y \in Members(list)
        <4>1. PICK i \in 1..Len(list) : y = list[i]
          BY <3>2, <1>2 DEF Members
        <4> QED BY <4>1, <1>1, <1>2 DEF Members
      <3> QED BY <2>2, <3>1, <3>2
    <2> QED BY <2>1, <2>2
  <1> QED BY <1>1, <1>3, <1>4 DEF new, Enumerates

\* The removal loop takes out the address it looks for, also when it is the
\* last of the list, and keeps every other.
LEMMA SwapAndPopEnumerates ==
    ASSUME NEW S, NEW list \in Seq(S), Distinct(list), NEW x \in Members(list)
    PROVE  /\ SwapAndPop(list, x) \in Seq(S) /\ Len(SwapAndPop(list, x)) = Len(list) - 1
           /\ Enumerates(SwapAndPop(list, x), Members(list) \ {x})
  <1> DEFINE n == Len(list)
             new == SwapAndPop(list, x)
  <1>1. PICK k \in 1..n : list[k] = x
    BY DEF Members
  <1>2. n \in Nat /\ n > 0 /\ DOMAIN list = 1..n /\ \A i \in 1..n : list[i] \in S
    BY <1>1
  <1>3. \A i \in 1..n : list[i] = x <=> i = k
    BY <1>1, <1>2 DEF Distinct
  <1>4. new = [i \in 1..(n - 1) |-> IF i = k THEN list[n] ELSE list[i]]
    <2>1. \A i \in 1..(n - 1) :
            (list[i] = x /\ \A j \in 1..(i - 1) : list[j] # x) <=> i = k
      BY <1>2, <1>3
    <2> QED BY <2>1 DEF SwapAndPop
  <1>5. new \in Seq(S) /\ Len(new) = n - 1 /\ DOMAIN new = 1..(n - 1)
    BY <1>2, <1>4
  <1> HIDE DEF new, n
  <1>6. Distinct(new)
    <2> SUFFICES ASSUME NEW i \in 1..(n - 1), NEW j \in 1..(n - 1), new[i] = new[j]
                 PROVE  i = j
      BY <1>5 DEF Distinct
    <2>1. \A p, q \in 1..n : list[p] = list[q] => p = q
      BY <1>2 DEF Distinct
    <2> QED BY <2>1, <1>2, <1>4
  <1>7. Members(new) = Members(list) \ {x}
    <2>1. ASSUME NEW y \in Members(new) PROVE y \in Members(list) \ {x}
      <3>1. PICK i \in 1..(n - 1) : y = new[i]
        BY <1>5 DEF Members
      <3>2. CASE i = k
        <4>1. y = list[n] /\ n # k
          BY <3>1, <3>2, <1>2, <1>4
        <4> QED BY <4>1, <1>2, <1>3 DEF Members
      <3>3. CASE i # k
        BY <3>1, <3>3, <1>2, <1>3, <1>4 DEF Members
      <3> QED BY <3>2, <3>3
    <2>2. ASSUME NEW y \in Members(list) \ {x} PROVE y \in Members(new)
      <3>1. PICK i \in 1..n : y = list[i]
        BY <1>2 DEF Members
      <3>2. i # k
        BY <3>1, <1>1
      <3>3. CASE i = n
        <4>1. k \in 1..(n - 1) /\ new[k] = y
          BY <3>1, <3>2, <3>3, <1>1, <1>2, <1>4
        <4> QED BY <4>1, <1>5 DEF Members
      <3>4. CASE i # n
        <4>1. i \in 1..(n - 1) /\ new[i] = y
          BY <3>1, <3>2, <3>4, <1>2, <1>4
        <4> QED BY <4>1, <1>5 DEF Members
      <3> QED BY <3>3, <3>4
    <2> QED BY <2>1, <2>2
  <1> QED BY <1>5, <1>6, <1>7 DEF new, n, Enumerates

\* The replacement loop puts a new address in the place of a listed one.
LEMMA ReplacedEnumerates ==
    ASSUME NEW S, NEW list \in Seq(S), Distinct(list), NEW x \in Members(list),
           NEW y \in S, y \notin Members(list)
    PROVE  /\ Replaced(list, x, y) \in Seq(S) /\ Len(Replaced(list, x, y)) = Len(list)
           /\ Enumerates(Replaced(list, x, y), (Members(list) \ {x}) \cup {y})
  <1> DEFINE n == Len(list)
             new == Replaced(list, x, y)
  <1>1. PICK k \in 1..n : list[k] = x
    BY DEF Members
  <1>2. n \in Nat /\ DOMAIN list = 1..n /\ \A i \in 1..n : list[i] \in S
    BY <1>1
  <1>3. \A i \in 1..n : list[i] = x <=> i = k
    BY <1>1, <1>2 DEF Distinct
  <1>4. new = [i \in 1..n |-> IF i = k THEN y ELSE list[i]]
    <2>1. \A i \in 1..n : (list[i] = x /\ \A j \in 1..(i - 1) : list[j] # x) <=> i = k
      BY <1>2, <1>3
    <2> QED BY <2>1 DEF Replaced
  <1>5. new \in Seq(S) /\ Len(new) = n /\ DOMAIN new = 1..n
    BY <1>2, <1>4
  <1> HIDE DEF new, n
  <1>6. Distinct(new)
    <2> SUFFICES ASSUME NEW i \in 1..n, NEW j \in 1..n, new[i] = new[j]
                 PROVE  i = j
      BY <1>5 DEF Distinct
    <2>1. \A p, q \in 1..n : list[p] = list[q] => p = q
      BY <1>2 DEF Distinct
    <2>2. \A p \in 1..n : list[p] # y
      BY <1>2 DEF Members
    <2> QED BY <2>1, <2>2, <1>2, <1>4
  <1>7. Members(new) = (Members(list) \ {x}) \cup {y}
    <2>1. ASSUME NEW z \in Members(new) PROVE z \in (Members(list) \ {x}) \cup {y}
      <3>1. PICK i \in 1..n : z = new[i]
        BY <1>5 DEF Members
      <3> QED BY <3>1, <1>2, <1>3, <1>4 DEF Members
    <2>2. ASSUME NEW z \in (Members(list) \ {x}) \cup {y} PROVE z \in Members(new)
      <3>1. CASE z = y
        <4>1. new[k] = z
          BY <3>1, <1>1, <1>4
        <4> QED BY <4>1, <1>1, <1>5 DEF Members
      <3>2. CASE z \in Members(list) /\ z # x
        <4>1. PICK i \in 1..n : z = list[i]
          BY <3>2, <1>2 DEF Members
        <4>2. new[i] = z
          BY <4>1, <3>2, <1>1, <1>4
        <4> QED BY <4>2, <1>5 DEF Members
      <3> QED BY <2>2, <3>1, <3>2
    <2> QED BY <2>1, <2>2
  <1> QED BY <1>5, <1>6, <1>7 DEF new, n, Enumerates

-----------------------------------------------------------------------------
(* Calls that succeed.                                                     *)

\* What the wallet does to itself.
LEMMA WalletCallKeeps ==
    ASSUME NEW c \in Calls, WalletInv, WalletAccepts(c), WalletApplies(c)
    PROVE  WalletInv'
  <1> USE WalletAssumption DEF WalletInv, Enumerates, AnyAddress
  <1>1. Len(owners) \in Nat
    BY LenProperties
  <1>2. CASE c.fn = "addOwner"
    <2>1. /\ c.owner \in AnyAddress /\ c.owner \notin isOwner
          /\ ValidRequirement(Len(owners) + 1, required)
      BY <1>2, GovernanceAssumption DEF WalletAccepts
    <2>2. owners' = Append(owners, c.owner) /\ isOwner' = isOwner \cup {c.owner}
          /\ required' = required
      BY <1>2 DEF WalletApplies, AddOwner
    <2> QED BY <1>1, <2>1, <2>2, AppendEnumerates DEF ValidRequirement
  <1>3. CASE c.fn = "removeOwner"
    <2>1. /\ c.owner \in isOwner
          /\ required >= Len(owners) => ValidRequirement(Len(owners) - 1, Len(owners) - 1)
      BY <1>3 DEF WalletAccepts
    <2>2. /\ owners' = SwapAndPop(owners, c.owner) /\ isOwner' = isOwner \ {c.owner}
          /\ required' = IF required > Len(owners) - 1 THEN Len(owners) - 1 ELSE required
      BY <1>3 DEF WalletApplies, RemoveOwner
    <2>3. /\ owners' \in Seq(AnyAddress) /\ Len(owners') = Len(owners) - 1
          /\ Enumerates(owners', isOwner')
      BY <2>1, <2>2, SwapAndPopEnumerates
    <2>4. required' \in 1..Len(owners') /\ Len(owners') <= MaxOwners
      BY <1>1, <2>1, <2>2, <2>3 DEF ValidRequirement
    <2> QED BY <2>3, <2>4
  <1>4. CASE c.fn = "replaceOwner"
    <2>1. c.owner \in isOwner /\ c.newOwner \in AnyAddress /\ c.newOwner \notin isOwner
      BY <1>4, GovernanceAssumption DEF WalletAccepts
    <2>2. /\ owners' = Replaced(owners, c.owner, c.newOwner)
          /\ isOwner' = (isOwner \ {c.owner}) \cup {c.newOwner} /\ required' = required
      BY <1>4 DEF WalletApplies, ReplaceOwner
    <2> QED BY <2>1, <2>2, ReplacedEnumerates
  <1>5. CASE c.fn = "changeRequirement"
    <2>1. ValidRequirement(Len(owners), c.required) /\ c.required \in Nat
      BY <1>5, GovernanceAssumption DEF WalletAccepts
    <2>2. required' = c.required /\ owners' = owners /\ isOwner' = isOwner
      BY <1>5 DEF WalletApplies, ChangeRequirement
    <2> QED BY <1>1, <2>1, <2>2 DEF ValidRequirement
  <1> QED BY <1>2, <1>3, <1>4, <1>5 DEF WalletAccepts

\* What an owner does to the token.  The caller stays an owner.
LEMMA TokenCallKeeps ==
    ASSUME NEW c \in Calls \cup DirectCalls, NEW sender, TokenInv,
           TokenAccepts(sender, c), TokenApplies(c)
    PROVE  TokenInv'
  <1> USE DEF TokenInv, Enumerates, AnyAddress
  <1>1. CASE c.fn = "addTokenOwner"
    <2>1. c.owner \in Addresses /\ c.owner \notin tokenOwner
      BY <1>1, GovernanceAssumption DEF TokenAccepts
    <2>2. /\ tokenOwners' = Append(tokenOwners, c.owner)
          /\ tokenOwner' = tokenOwner \cup {c.owner}
      BY <1>1 DEF TokenApplies, AddTokenOwner
    <2> QED BY <2>1, <2>2, AppendEnumerates
  <1>2. CASE c.fn = "removeTokenOwner"
    <2>1. c.owner \in tokenOwner /\ sender \in tokenOwner /\ sender # c.owner
      BY <1>2 DEF TokenAccepts
    <2>2. /\ tokenOwners' = SwapAndPop(tokenOwners, c.owner)
          /\ tokenOwner' = tokenOwner \ {c.owner}
      BY <1>2 DEF TokenApplies, RemoveTokenOwner
    <2> QED BY <2>1, <2>2, SwapAndPopEnumerates
  <1>3. CASE c.fn = "upgradeTo"
    BY <1>3 DEF TokenApplies, UpgradeTo, ownership
  <1>4. CASE c.fn = "setSigners"
    BY <1>4 DEF TokenApplies, SetSigners, ownership
  <1> QED BY <1>1, <1>2, <1>3, <1>4 DEF TokenAccepts

\* A message that may execute entry t of the list.
LEMMA ExecutionKeeps ==
    ASSUME GovernanceInv, NEW list \in Seq(Transactions), NEW t \in DOMAIN list,
           \A i \in DOMAIN list : list[i].call \in Calls,
           NEW yes, Execution(list, t, yes)
    PROVE  GovernanceInv'
  <1> DEFINE c == list[t].call
  <1>1. c \in Calls
    OBVIOUS
  <1>2. CASE IsConfirmed(yes) /\ Succeeds(c)
    <2>1. transactions' = [list EXCEPT ![t].executed = TRUE] /\ Effect(c)
      BY <1>2 DEF Execution
    <2>2. CallsInv'
      <3>1. transactions' \in Seq(Transactions)
        <4>1. \A tx \in Transactions : [tx EXCEPT !.executed = TRUE] \in Transactions
          BY DEF Transactions
        <4>2. list[t] \in Transactions /\ t \in 1..Len(list)
          OBVIOUS
        <4> QED BY <2>1, <4>1, <4>2, ExceptSeq
      <3>2. ASSUME NEW i \in DOMAIN transactions' PROVE transactions'[i].call \in Calls
        BY <2>1, <3>2 DEF Transactions
      <3> QED BY <3>1, <3>2 DEF CallsInv
    <2>3. CASE c.fn \in OwnCalls
      <3>1. WalletAccepts(c) /\ WalletApplies(c) /\ UNCHANGED control
        BY <1>2, <2>1, <2>3 DEF Succeeds, Effect, OwnCalls, OwnerCalls
      <3>2. WalletInv'
        BY <1>1, <3>1, WalletCallKeeps DEF GovernanceInv
      <3> QED BY <2>2, <3>1, <3>2 DEF GovernanceInv, control, TokenInv
    <2>4. CASE c.fn \in OwnerCalls
      <3>1. TokenAccepts(Wallet, c) /\ TokenApplies(c) /\ UNCHANGED authority
        BY <1>2, <2>1, <2>4 DEF Succeeds, Effect, OwnCalls, OwnerCalls
      <3>2. TokenInv'
        BY <1>1, <3>1, TokenCallKeeps DEF GovernanceInv
      <3> QED BY <2>2, <3>1, <3>2 DEF GovernanceInv, authority, WalletInv
    <2> QED BY <1>2, <2>3, <2>4 DEF Succeeds
  <1>3. CASE ~(IsConfirmed(yes) /\ Succeeds(c))
    BY <1>3 DEF Execution, GovernanceInv, WalletInv, TokenInv, CallsInv, authority, control
  <1> QED BY <1>2, <1>3

-----------------------------------------------------------------------------
(* The invariant.                                                          *)

\* The constructors leave consistent owners.
LEMMA GovernanceInit == Init => GovernanceInv
  <1> SUFFICES ASSUME Init PROVE GovernanceInv
    OBVIOUS
  <1>1. WalletInv
    BY WalletAssumption DEF Init, WalletInit, WalletInv, Enumerates, AnyAddress
  <1>2. TokenInv
    BY TokenAssumption
    DEF Init, TokenInit, TokenInv, Enumerates, AnyAddress, Distinct, Members
  <1>3. CallsInv
    BY DEF Init, WalletInit, CallsInv
  <1> QED BY <1>1, <1>2, <1>3 DEF GovernanceInv

\* Every step keeps them consistent.
LEMMA GovernanceStep == GovernanceInv /\ [Next]_vars => GovernanceInv'
  <1> SUFFICES ASSUME GovernanceInv, [Next]_vars PROVE GovernanceInv'
    OBVIOUS
  <1> DEFINE Untouched == UNCHANGED <<authority, transactions, control>>
  <1>0. Untouched => GovernanceInv'
    BY DEF GovernanceInv, WalletInv, TokenInv, CallsInv, authority, control
  <1>1. ASSUME NEW a \in People, NEW c \in Calls, SubmitTransaction(a, c)
        PROVE  GovernanceInv'
    <2> DEFINE new == [call |-> c, executed |-> FALSE]
               list == Append(transactions, new)
    <2>1. new \in Transactions /\ new.call \in Calls
      BY DEF Transactions
    <2>2. list \in Seq(Transactions) /\ Len(transactions) + 1 \in DOMAIN list
      BY <2>1 DEF GovernanceInv, CallsInv
    <2>3. \A i \in DOMAIN list : list[i].call \in Calls
      BY <2>1 DEF GovernanceInv, CallsInv
    <2>4. Execution(list, Len(transactions) + 1, {a})
      BY <1>1 DEF SubmitTransaction
    <2> QED BY <2>2, <2>3, <2>4, ExecutionKeeps
  <1>2. ASSUME NEW a \in People, NEW t \in DOMAIN transactions, ConfirmTransaction(a, t)
        PROVE  GovernanceInv'
    BY <1>2, ExecutionKeeps DEF ConfirmTransaction, GovernanceInv, CallsInv
  <1>3. ASSUME NEW a \in People, NEW t \in DOMAIN transactions, Revoke(a, t)
        PROVE  GovernanceInv'
    BY <1>3, <1>0 DEF Revoke, RevokeConfirmation, authority, tokenVars, control
  <1>4. ASSUME NEW t \in DOMAIN transactions, ExecuteTransaction(t)
        PROVE  GovernanceInv'
    BY <1>4, ExecutionKeeps DEF ExecuteTransaction, GovernanceInv, CallsInv
  <1>5. ASSUME NEW a \in People, NEW c \in DirectCalls, Direct(a, c)
        PROVE  GovernanceInv'
    <2>1. TokenAccepts(a, c) /\ TokenApplies(c) /\ UNCHANGED walletVars
      BY <1>5 DEF Direct
    <2>2. TokenInv'
      BY <2>1, TokenCallKeeps DEF GovernanceInv
    <2> QED BY <2>1, <2>2 DEF GovernanceInv, WalletInv, CallsInv, walletVars
  <1>6. ASSUME NEW s \in Signers, NEW id \in Ids, NodeSigns(s, id) PROVE GovernanceInv'
    BY <1>6, <1>0 DEF NodeSigns, Sign, authority, control, walletVars
  <1>7. ASSUME NEW id \in Ids, NEW sigs \in Signatures, Mint(id, sigs) PROVE GovernanceInv'
    BY <1>7, <1>0 DEF Mint, MintTokens, authority, control, walletVars
  <1>8. CASE TokenUse
    BY <1>8, <1>0
    DEF TokenUse, Transfer, Approve, TransferFrom, Withdraw, authority, control, walletVars
  <1>9. CASE UNCHANGED vars
    BY <1>9, <1>0 DEF vars, walletVars, tokenVars, authority, control
  <1> QED
    BY <1>1, <1>2, <1>3, <1>4, <1>5, <1>6, <1>7, <1>8, <1>9 DEF Next

\* Whatever the wallet decides, it can decide again: owners and mapping agree,
\* and the requirement can be met; the token never loses its last owner.
THEOREM OwnersStayConsistent == Spec => []OwnersConsistent
  <1>1. GovernanceInv => OwnersConsistent
    BY DEF GovernanceInv, WalletInv, TokenInv, OwnersConsistent
  <1> QED BY GovernanceInit, GovernanceStep, <1>1, PTL DEF Spec

-----------------------------------------------------------------------------
(* The types.  Signed amounts and control need nothing else than the types *)
(* themselves; that a list of confirmations goes with every transaction is *)
(* what quorums rest on.                                                   *)

ConfirmInv ==
    /\ confirmations \in Seq(SUBSET People)
    /\ Len(confirmations) = Len(transactions)

ControlInv ==
    /\ implementation \in AnyAddress
    /\ signers \in Seq(Signers) /\ signaturesRequired \in 0..Len(signers)

FundsInv ==
    /\ mintIDs \subseteq Ids
    /\ balance \in [Accounts -> 0..MaxUint] /\ totalSupply \in 0..MaxUint
    /\ allowed \in [Holders -> [Holders -> 0..MaxUint]] /\ burned \in Nat

TypeInv ==
    /\ GovernanceInv /\ ConfirmInv /\ ControlInv /\ FundsInv
    /\ signed \subseteq Signers \X Ids

\* What an owner does to the token leaves a set of signers that can sign.
LEMMA TokenCallTypes ==
    ASSUME NEW c \in Calls \cup DirectCalls, NEW sender, ControlInv,
           TokenAccepts(sender, c), TokenApplies(c)
    PROVE  ControlInv'
  <1> USE DEF ControlInv, AnyAddress
  <1>1. CASE c.fn = "addTokenOwner"
    BY <1>1 DEF TokenApplies, AddTokenOwner
  <1>2. CASE c.fn = "removeTokenOwner"
    BY <1>2 DEF TokenApplies, RemoveTokenOwner
  <1>3. CASE c.fn = "upgradeTo"
    BY <1>3, GovernanceAssumption DEF TokenApplies, UpgradeTo
  <1>4. CASE c.fn = "setSigners"
    <2>1. /\ c.signers \in Seq(Signers) /\ c.required \in Nat
          /\ c.required \in 1..Len(c.signers)
      BY <1>4, GovernanceAssumption DEF TokenAccepts
    <2>2. signers' = c.signers /\ signaturesRequired' = c.required
          /\ implementation' = implementation
      BY <1>4 DEF TokenApplies, SetSigners
    <2> QED BY <2>1, <2>2
  <1> QED BY <1>1, <1>2, <1>3, <1>4 DEF TokenAccepts

\* A message that may execute entry t of the list.
LEMMA ExecutionTypes ==
    ASSUME ControlInv, NEW list \in Seq(Transactions), NEW t \in DOMAIN list,
           list[t].call \in Calls, NEW yes, Execution(list, t, yes)
    PROVE  ControlInv' /\ Len(transactions') = Len(list)
  <1> DEFINE c == list[t].call
  <1>1. CASE IsConfirmed(yes) /\ Succeeds(c)
    <2>1. transactions' = [list EXCEPT ![t].executed = TRUE] /\ Effect(c)
      BY <1>1 DEF Execution
    <2>2. CASE c.fn \in OwnCalls
      BY <2>1, <2>2 DEF Effect, OwnCalls, OwnerCalls, control, ControlInv
    <2>3. CASE c.fn \in OwnerCalls
      <3>1. TokenAccepts(Wallet, c) /\ TokenApplies(c)
        BY <1>1, <2>1, <2>3 DEF Succeeds, Effect, OwnCalls, OwnerCalls
      <3> QED BY <2>1, <3>1, TokenCallTypes
    <2> QED BY <1>1, <2>1, <2>2, <2>3 DEF Succeeds
  <1>2. CASE ~(IsConfirmed(yes) /\ Succeeds(c))
    BY <1>2 DEF Execution, control, ControlInv
  <1> QED BY <1>1, <1>2

\* No balance leaves its width: what does not fit, or is not there, reverts.
LEMMA MovedTypes ==
    ASSUME NEW from \in Accounts, NEW to \in Accounts, NEW n \in Amounts,
           FundsInv, Movable(from, to, n)
    PROVE  Moved(from, to, n) \in [Accounts -> 0..MaxUint]
  <1>1. n \in Nat /\ MaxUint \in Nat /\ balance[from] \in 0..MaxUint
        /\ balance[to] \in 0..MaxUint /\ n <= balance[from]
        /\ (from # to => balance[to] + n <= MaxUint)
    BY TokenAssumption DEF FundsInv, Movable, Fits
  <1> DEFINE paid == [balance EXCEPT ![from] = @ - n]
  <1>2. paid \in [Accounts -> 0..MaxUint] /\ paid[from] = balance[from] - n
        /\ (from # to => paid[to] = balance[to])
    BY <1>1 DEF FundsInv
  <1>3. paid[to] + n \in 0..MaxUint
    BY <1>1, <1>2
  <1>4. Moved(from, to, n) = [paid EXCEPT ![to] = paid[to] + n]
    BY DEF Moved
  <1> QED BY <1>2, <1>3, <1>4

\* Using the token.
LEMMA UseTypes == FundsInv /\ TokenUse => FundsInv'
  <1> SUFFICES ASSUME FundsInv, TokenUse PROVE FundsInv'
    OBVIOUS
  <1>0. Holders \subseteq Accounts /\ Amounts \subseteq 0..MaxUint /\ MaxUint \in Nat
    BY TokenAssumption DEF Accounts
  <1>1. PICK a \in Holders, b \in Holders, n \in Amounts :
          \/ \E to \in Accounts : Transfer(a, to, n)
          \/ Approve(a, b, n)
          \/ \E to \in Accounts : TransferFrom(b, a, to, n)
          \/ Withdraw(a, n)
    BY DEF TokenUse
  <1>2. ASSUME NEW to \in Accounts, Transfer(a, to, n) PROVE FundsInv'
    BY <1>0, <1>2, MovedTypes DEF Transfer, FundsInv
  <1>3. CASE Approve(a, b, n)
    BY <1>0, <1>3 DEF Approve, FundsInv
  <1>4. ASSUME NEW to \in Accounts, TransferFrom(b, a, to, n) PROVE FundsInv'
    <2>1. balance' \in [Accounts -> 0..MaxUint]
      BY <1>0, <1>4, MovedTypes DEF TransferFrom
    <2>2. allowed[a][b] - n \in 0..MaxUint /\ allowed' = [allowed EXCEPT ![a][b] = @ - n]
      BY <1>0, <1>4 DEF TransferFrom, FundsInv
    <2>3. allowed' \in [Holders -> [Holders -> 0..MaxUint]]
      BY <2>2 DEF FundsInv
    <2> QED BY <1>4, <2>1, <2>3 DEF TransferFrom, FundsInv
  <1>5. CASE Withdraw(a, n)
    <2>1. balance[a] - n \in 0..MaxUint /\ totalSupply - n \in 0..MaxUint
          /\ burned + n \in Nat
      BY <1>0, <1>5 DEF Withdraw, FundsInv
    <2> QED BY <1>5, <2>1 DEF Withdraw, FundsInv
  <1> QED BY <1>1, <1>2, <1>3, <1>4, <1>5

\* Minting.
LEMMA MintTypes ==
    ASSUME FundsInv, NEW id \in Ids, NEW sigs, MintTokens(id, sigs)
    PROVE  FundsInv'
  <1>1. ReceiverOf[id] \in Accounts /\ AmountOf[id] \in Nat /\ MaxUint \in Nat
    BY TokenAssumption DEF Accounts
  <1>2. /\ balance[ReceiverOf[id]] + AmountOf[id] \in 0..MaxUint
        /\ totalSupply + AmountOf[id] \in 0..MaxUint
    BY <1>1 DEF MintTokens, Fits, FundsInv
  <1> QED BY <1>1, <1>2 DEF MintTokens, FundsInv

LEMMA TypeInit == Init => TypeInv
  <1> SUFFICES ASSUME Init PROVE TypeInv
    OBVIOUS
  <1>1. ConfirmInv
    BY DEF Init, WalletInit, ConfirmInv
  <1>2. ControlInv
    BY TokenAssumption DEF Init, TokenInit, ControlInv, AnyAddress
  <1>3. FundsInv
    BY TokenAssumption DEF Init, TokenInit, FundsInv
  <1> QED BY <1>1, <1>2, <1>3, GovernanceInit DEF Init, TokenInit, TypeInv

\* Every step keeps the types.
LEMMA TypeStep == TypeInv /\ [Next]_vars => TypeInv'
  <1> SUFFICES ASSUME TypeInv, [Next]_vars PROVE TypeInv'
    OBVIOUS
  <1>0. GovernanceInv'
    BY GovernanceStep DEF TypeInv
  <1> DEFINE Kept == UNCHANGED <<confirmations, transactions>>
  <1>a. Kept => ConfirmInv'
    BY DEF TypeInv, ConfirmInv
  <1>b. UNCHANGED control => ControlInv'
    BY DEF TypeInv, ControlInv, control
  <1>c. UNCHANGED funds => FundsInv'
    BY DEF TypeInv, FundsInv, funds
  <1>1. ASSUME NEW a \in People, NEW c \in Calls, SubmitTransaction(a, c)
        PROVE  TypeInv'
    <2> DEFINE list == Append(transactions, [call |-> c, executed |-> FALSE])
    <2>1. /\ list \in Seq(Transactions) /\ Len(transactions) + 1 \in DOMAIN list
          /\ list[Len(transactions) + 1].call = c /\ Len(list) = Len(transactions) + 1
      BY DEF TypeInv, GovernanceInv, CallsInv, Transactions
    <2>2. ControlInv' /\ Len(transactions') = Len(list)
      BY <1>1, <2>1, ExecutionTypes DEF SubmitTransaction, TypeInv
    <2>3. /\ confirmations' \in Seq(SUBSET People)
          /\ Len(confirmations') = Len(confirmations) + 1
      BY <1>1 DEF SubmitTransaction, Submits, TypeInv, ConfirmInv
    <2> QED BY <1>0, <1>1, <1>c, <2>1, <2>2, <2>3 DEF SubmitTransaction, TypeInv, ConfirmInv
  <1>2. ASSUME NEW a \in People, NEW t \in DOMAIN transactions, ConfirmTransaction(a, t)
        PROVE  TypeInv'
    <2>1. ControlInv' /\ Len(transactions') = Len(transactions)
      BY <1>2, ExecutionTypes DEF ConfirmTransaction, TypeInv, GovernanceInv, CallsInv
    <2>2. /\ confirmations' \in Seq(SUBSET People)
          /\ Len(confirmations') = Len(confirmations)
      BY <1>2 DEF ConfirmTransaction, Confirms, TypeInv, ConfirmInv, GovernanceInv, CallsInv
    <2> QED BY <1>0, <1>2, <1>c, <2>1, <2>2 DEF ConfirmTransaction, TypeInv, ConfirmInv
  <1>3. ASSUME NEW a \in People, NEW t \in DOMAIN transactions, Revoke(a, t)
        PROVE  TypeInv'
    <2>1. /\ confirmations' \in Seq(SUBSET People)
          /\ Len(confirmations') = Len(confirmations)
      BY <1>3 DEF Revoke, RevokeConfirmation, TypeInv, ConfirmInv, GovernanceInv, CallsInv
    <2> QED
      BY <1>0, <1>3, <1>b, <1>c, <2>1
      DEF Revoke, RevokeConfirmation, tokenVars, TypeInv, ConfirmInv
  <1>4. ASSUME NEW t \in DOMAIN transactions, ExecuteTransaction(t)
        PROVE  TypeInv'
    <2>1. ControlInv' /\ Len(transactions') = Len(transactions)
      BY <1>4, ExecutionTypes DEF ExecuteTransaction, TypeInv, GovernanceInv, CallsInv
    <2> QED BY <1>0, <1>4, <1>c, <2>1 DEF ExecuteTransaction, TypeInv, ConfirmInv
  <1>5. ASSUME NEW a \in People, NEW c \in DirectCalls, Direct(a, c)
        PROVE  TypeInv'
    <2>1. ControlInv'
      BY <1>5, TokenCallTypes DEF Direct, TypeInv
    <2> QED BY <1>0, <1>5, <1>a, <1>c, <2>1 DEF Direct, walletVars, TypeInv
  <1>6. ASSUME NEW s \in Signers, NEW id \in Ids, NodeSigns(s, id) PROVE TypeInv'
    BY <1>0, <1>6, <1>a, <1>b, <1>c DEF NodeSigns, Sign, walletVars, TypeInv
  <1>7. ASSUME NEW id \in Ids, NEW sigs \in Signatures, Mint(id, sigs) PROVE TypeInv'
    <2>1. FundsInv'
      BY <1>7, MintTypes DEF Mint, TypeInv
    <2> QED BY <1>0, <1>7, <1>a, <1>b, <2>1 DEF Mint, MintTokens, walletVars, TypeInv
  <1>8. CASE TokenUse
    <2>1. FundsInv'
      BY <1>8, UseTypes DEF TypeInv
    <2>2. UNCHANGED <<walletVars, control, signed>>
      BY <1>8 DEF TokenUse, Transfer, Approve, TransferFrom, Withdraw
    <2> QED BY <1>0, <1>a, <1>b, <2>1, <2>2 DEF walletVars, TypeInv
  <1>9. CASE UNCHANGED vars
    BY <1>0, <1>9, <1>a, <1>b, <1>c DEF vars, walletVars, tokenVars, TypeInv
  <1> QED
    BY <1>1, <1>2, <1>3, <1>4, <1>5, <1>6, <1>7, <1>8, <1>9 DEF Next

\* Both contracts' storage keeps its types: no balance, allowance or supply
\* leaves its width, and the signatures required are never more than the
\* signers.
THEOREM TypeCorrect == Spec => []TypeOK
  <1>1. TypeInv => TypeOK
    <2> SUFFICES ASSUME TypeInv PROVE TypeOK
      OBVIOUS
    <2>1. /\ owners \in Seq(AnyAddress) /\ isOwner \subseteq AnyAddress
          /\ required \in Nat /\ transactions \in Seq(Transactions)
      <3>1. isOwner = Members(owners) /\ owners \in Seq(AnyAddress)
            /\ required \in 1..Len(owners) /\ transactions \in Seq(Transactions)
        BY DEF TypeInv, GovernanceInv, WalletInv, CallsInv, Enumerates
      <3> QED BY <3>1 DEF Members
    <2>2. tokenOwners \in Seq(Addresses) /\ tokenOwner \subseteq Addresses
      <3>1. tokenOwner = Members(tokenOwners) /\ tokenOwners \in Seq(Addresses)
        BY DEF TypeInv, GovernanceInv, TokenInv, Enumerates
      <3> QED BY <3>1 DEF Members
    <2> QED
      BY <2>1, <2>2 DEF TypeInv, ConfirmInv, ControlInv, FundsInv, TypeOK, AnyAddress
  <1> QED BY TypeInit, TypeStep, <1>1, PTL DEF Spec

-----------------------------------------------------------------------------
(* Quorums.                                                                *)

\* Places of a list without repetition count no more than what they hold.
LEMMA PlacesCount ==
    ASSUME NEW S, NEW list \in Seq(S), Distinct(list),
           NEW places \in SUBSET DOMAIN list, NEW T \in SUBSET Members(list),
           \A i \in places : list[i] \in T
    PROVE  Cardinality(places) \in Nat /\ Cardinality(T) \in Nat
           /\ Cardinality(places) <= Cardinality(T)
  <1>1. DOMAIN list = 1..Len(list) /\ Len(list) \in Nat
    OBVIOUS
  <1>2. IsFiniteSet(DOMAIN list)
    BY <1>1, FS_Interval
  <1>3. list \in Surjection(DOMAIN list, Members(list))
    BY <1>1 DEF Surjection, Members
  <1>4. IsFiniteSet(Members(list))
    BY <1>2, <1>3, FS_Surjection
  <1>5. IsFiniteSet(T)
    BY <1>4, FS_Subset
  <1>6. IsFiniteSet(places)
    BY <1>2, FS_Subset
  <1> DEFINE held == [i \in places |-> list[i]]
  <1>7. held \in Injection(places, T)
    <2>1. held \in [places -> T] /\ \A i \in places : held[i] = list[i]
      OBVIOUS
    <2>2. \A i, j \in places : held[i] = held[j] => i = j
      BY DEF Distinct
    <2> HIDE DEF held
    <2> QED BY <2>1, <2>2 DEF Injection, IsInjective
  <1>8. Cardinality(places) <= Cardinality(T)
    BY <1>5, <1>7, FS_Injection
  <1> QED BY <1>5, <1>6, <1>8, FS_CardinalityType

\* What is confirmed is confirmed by as many different owners as required.
LEMMA ConfirmedByQuorum ==
    ASSUME WalletInv, NEW yes, IsConfirmed(yes)
    PROVE  Cardinality(isOwner \cap yes) >= required
  <1> DEFINE places == {i \in DOMAIN owners : owners[i] \in yes}
             T == isOwner \cap yes
  <1>1. places \in SUBSET DOMAIN owners
    OBVIOUS
  <1>2. Distinct(owners) /\ isOwner = Members(owners) /\ required \in Nat
    BY DEF WalletInv, Enumerates
  <1>3. T \in SUBSET Members(owners) /\ \A i \in places : owners[i] \in T
    BY <1>2 DEF Members
  <1>4. owners \in Seq(AnyAddress)
    BY DEF WalletInv
  <1> HIDE DEF places, T
  <1>5. Cardinality(places) \in Nat /\ Cardinality(T) \in Nat
        /\ Cardinality(places) <= Cardinality(T)
    BY <1>1, <1>2, <1>3, <1>4, PlacesCount
  <1>6. Cardinality(places) >= required
    BY DEF IsConfirmed, places
  <1> QED BY <1>2, <1>5, <1>6 DEF T

\* The transaction that t is in a step which changed something.
Decided(t) ==
    /\ t \in DOMAIN transactions' /\ transactions'[t].executed
    /\ t \in DOMAIN transactions => ~transactions[t].executed
    /\ Cardinality(isOwner \cap confirmations'[t]) >= required

\* A message executes an entry or changes no owner, requirement, signer and
\* implementation.
LEMMA ExecutionDecides ==
    ASSUME TypeInv, NEW list \in Seq(Transactions), NEW t \in DOMAIN list,
           NEW yes, Execution(list, t, yes), yes = confirmations'[t],
           t \in DOMAIN transactions => ~transactions[t].executed
    PROVE  UNCHANGED <<authority, control>> \/ Decided(t)
  <1>1. CASE IsConfirmed(yes) /\ Succeeds(list[t].call)
    <2>1. transactions' = [list EXCEPT ![t].executed = TRUE]
      BY <1>1 DEF Execution
    <2>2. t \in DOMAIN transactions' /\ transactions'[t].executed
      <3>1. t \in 1..Len(list) /\ list[t] \in Transactions
        OBVIOUS
      <3>2. transactions'[t] = [list[t] EXCEPT !.executed = TRUE]
        BY <2>1, <3>1
      <3> QED BY <2>1, <3>1, <3>2 DEF Transactions
    <2>3. Cardinality(isOwner \cap yes) >= required
      BY <1>1, ConfirmedByQuorum DEF TypeInv, GovernanceInv
    <2> QED BY <2>2, <2>3 DEF Decided
  <1>2. CASE ~(IsConfirmed(yes) /\ Succeeds(list[t].call))
    BY <1>2 DEF Execution
  <1> QED BY <1>1, <1>2

\* A step that changes the wallet's owners, or the token while the wallet is
\* its only owner, executes a transaction that a quorum confirms.
LEMMA QuorumStep ==
    ASSUME TypeInv, [Next]_vars,
           (control' # control /\ tokenOwner = {Wallet}) \/ authority' # authority
    PROVE  \E t \in DOMAIN transactions' : Decided(t)
  <1> SUFFICES \E t : Decided(t)
    BY DEF Decided
  <1>0. ~UNCHANGED <<authority, control>>
    OBVIOUS
  <1>1. ASSUME NEW a \in People, NEW c \in Calls, SubmitTransaction(a, c)
        PROVE  \E t : Decided(t)
    <2> DEFINE list == Append(transactions, [call |-> c, executed |-> FALSE])
               n == Len(transactions) + 1
    <2>1. /\ list \in Seq(Transactions) /\ n \in DOMAIN list
          /\ n \notin DOMAIN transactions
      BY DEF TypeInv, GovernanceInv, CallsInv, Transactions
    <2>2. confirmations'[n] = {a}
      BY <1>1 DEF SubmitTransaction, Submits, TypeInv, ConfirmInv
    <2>3. Execution(list, n, {a})
      BY <1>1 DEF SubmitTransaction
    <2> HIDE DEF list, n
    <2> QED BY <1>0, <2>1, <2>2, <2>3, ExecutionDecides
  <1>2. ASSUME NEW a \in People, NEW t \in DOMAIN transactions, ConfirmTransaction(a, t)
        PROVE  \E u : Decided(u)
    <2>1. confirmations'[t] = confirmations[t] \cup {a} /\ ~transactions[t].executed
      BY <1>2
      DEF ConfirmTransaction, Confirms, Pending, TypeInv, ConfirmInv, GovernanceInv, CallsInv
    <2>2. Execution(transactions, t, confirmations[t] \cup {a})
          /\ transactions \in Seq(Transactions)
      BY <1>2 DEF ConfirmTransaction, TypeInv, GovernanceInv, CallsInv
    <2> QED BY <1>0, <2>1, <2>2, ExecutionDecides
  <1>3. ASSUME NEW a \in People, NEW t \in DOMAIN transactions, Revoke(a, t)
        PROVE  FALSE
    BY <1>0, <1>3 DEF Revoke, RevokeConfirmation, authority, tokenVars
  <1>4. ASSUME NEW t \in DOMAIN transactions, ExecuteTransaction(t)
        PROVE  \E u : Decided(u)
    <2>1. /\ Execution(transactions, t, confirmations[t]) /\ confirmations' = confirmations
          /\ ~transactions[t].executed /\ transactions \in Seq(Transactions)
      BY <1>4 DEF ExecuteTransaction, Pending, TypeInv, GovernanceInv, CallsInv
    <2> QED BY <1>0, <2>1, ExecutionDecides
  <1>5. ASSUME NEW a \in People, NEW c \in DirectCalls, Direct(a, c)
        PROVE  FALSE
    <2>1. UNCHANGED authority /\ a \in tokenOwner
      BY <1>5 DEF Direct, TokenAccepts, walletVars, authority
    <2> QED BY <2>1, GovernanceAssumption
  <1>6. ASSUME NEW s \in Signers, NEW id \in Ids, NodeSigns(s, id) PROVE FALSE
    BY <1>0, <1>6 DEF NodeSigns, Sign, authority, walletVars
  <1>7. ASSUME NEW id \in Ids, NEW sigs \in Signatures, Mint(id, sigs) PROVE FALSE
    BY <1>0, <1>7 DEF Mint, MintTokens, authority, walletVars
  <1>8. CASE TokenUse
    BY <1>0, <1>8
    DEF TokenUse, Transfer, Approve, TransferFrom, Withdraw, authority, walletVars
  <1>9. CASE UNCHANGED vars
    BY <1>0, <1>9 DEF vars, walletVars, tokenVars, authority
  <1> QED
    BY <1>1, <1>2, <1>3, <1>4, <1>5, <1>6, <1>7, <1>8, <1>9 DEF Next

\* Without a quorum of its present owners nobody changes the owners of the
\* wallet, nor the token once the wallet is its only owner.
THEOREM QuorumAlwaysControls == Spec => QuorumControls
  <1> DEFINE A == (control' # control /\ tokenOwner = {Wallet}) \/ authority' # authority =>
                    \E t \in DOMAIN transactions' :
                        /\ transactions'[t].executed
                        /\ t \in DOMAIN transactions => ~transactions[t].executed
                        /\ Cardinality(isOwner \cap confirmations'[t]) >= required
  <1>1. TypeInv /\ [Next]_vars => A
    BY QuorumStep DEF Decided
  <1>2. TypeInv /\ [Next]_vars => [A]_vars
    BY <1>1
  <1> QED BY TypeInit, TypeStep, <1>2, PTL DEF Spec, QuorumControls

-----------------------------------------------------------------------------
(* Mints.                                                                  *)

\* setSigners takes any list; a signer listed twice would count twice.
SignersDistinct ==
    \A c \in Calls \cup DirectCalls : c.fn = "setSigners" => Distinct(c.signers)

\* Only calls that set signers change them.
LEMMA SignersStayDistinct ==
    ASSUME SignersDistinct, Distinct(signers), TypeInv, [Next]_vars
    PROVE  Distinct(signers')
  <1>1. ASSUME NEW c \in Calls \cup DirectCalls, TokenApplies(c)
        PROVE  Distinct(signers')
    BY <1>1
    DEF TokenApplies, AddTokenOwner, RemoveTokenOwner, UpgradeTo, SetSigners, SignersDistinct
  <1>2. ASSUME NEW list, NEW t, NEW yes, Execution(list, t, yes), list[t].call \in Calls
        PROVE  Distinct(signers')
    BY <1>1, <1>2 DEF Execution, Effect, control
  <1>3. ASSUME NEW a \in People, NEW c \in Calls, SubmitTransaction(a, c)
        PROVE  Distinct(signers')
    <2> DEFINE list == Append(transactions, [call |-> c, executed |-> FALSE])
    <2>1. list[Len(transactions) + 1].call = c
      BY DEF TypeInv, GovernanceInv, CallsInv
    <2> QED BY <1>2, <1>3, <2>1 DEF SubmitTransaction
  <1>4. ASSUME NEW t \in DOMAIN transactions,
               ExecuteTransaction(t) \/ \E a \in People : ConfirmTransaction(a, t)
        PROVE  Distinct(signers')
    BY <1>2, <1>4 DEF ExecuteTransaction, ConfirmTransaction, TypeInv, GovernanceInv, CallsInv
  <1>5. ASSUME NEW a \in People, NEW c \in DirectCalls, Direct(a, c)
        PROVE  Distinct(signers')
    BY <1>1, <1>5 DEF Direct
  <1>6. UNCHANGED signers => Distinct(signers')
    OBVIOUS
  <1> QED
    BY <1>3, <1>4, <1>5, <1>6
    DEF Next, Revoke, NodeSigns, Sign, Mint, MintTokens, TokenUse, Transfer, Approve,
        TransferFrom, Withdraw, control, tokenVars, vars

\* The signatures that are verified are those of different signers.
LEMMA VerifiedByQuorum ==
    ASSUME ControlInv, Distinct(signers), NEW id, NEW sigs, CheckSignatures(sigs, id)
    PROVE  Cardinality({s \in Members(signers) : <<s, id>> \in signed}) >= signaturesRequired
  <1> DEFINE T == {s \in Members(signers) : <<s, id>> \in signed}
  <1>1. PICK n \in 0..Len(signers) :
          /\ Cardinality(Given(sigs, n)) = signaturesRequired
          /\ \A i \in Given(sigs, n) : Verified(sigs, id, i)
    BY DEF CheckSignatures
  <1>2. signers \in Seq(Signers) /\ Given(sigs, n) \in SUBSET DOMAIN signers
    BY <1>1 DEF ControlInv, Given
  <1>3. \A i \in Given(sigs, n) : signers[i] \in T
    BY <1>1, <1>2 DEF Verified, Members
  <1>4. T \in SUBSET Members(signers)
    OBVIOUS
  <1> HIDE DEF T
  <1>5. Cardinality(T) \in Nat /\ Cardinality(Given(sigs, n)) <= Cardinality(T)
    BY <1>2, <1>3, <1>4, PlacesCount
  <1>6. signaturesRequired \in Nat
    BY DEF ControlInv
  <1> QED BY <1>1, <1>5, <1>6 DEF T

\* Only a mint adds an id.
LEMMA MintStep ==
    ASSUME TypeInv, Distinct(signers), [Next]_vars, NEW id \in mintIDs' \ mintIDs
    PROVE  Cardinality({s \in Members(signers) : <<s, id>> \in signed}) >= signaturesRequired
  <1>1. ASSUME NEW i \in Ids, NEW sigs \in Signatures, Mint(i, sigs)
        PROVE  Cardinality({s \in Members(signers) : <<s, id>> \in signed})
                 >= signaturesRequired
    <2>1. id = i /\ CheckSignatures(sigs, i)
      BY <1>1 DEF Mint, MintTokens
    <2> QED BY <2>1, VerifiedByQuorum DEF TypeInv
  <1>2. UNCHANGED mintIDs => FALSE
    OBVIOUS
  <1> QED
    BY <1>1, <1>2
    DEF Next, SubmitTransaction, ConfirmTransaction, Revoke, ExecuteTransaction, Direct,
        NodeSigns, Sign, TokenUse, Transfer, Approve, TransferFrom, Withdraw, funds,
        tokenVars, vars

\* A deposit is minted with the signatures of as many different signers as are
\* required, when no signer is listed twice.
THEOREM MintsAreSigned == SignersDistinct /\ Spec => MintedByQuorum
  <1> SUFFICES ASSUME SignersDistinct PROVE Spec => MintedByQuorum
    OBVIOUS
  <1> DEFINE Inv == TypeInv /\ Distinct(signers)
             A == \A id \in mintIDs' \ mintIDs :
                    Cardinality({s \in Members(signers) : <<s, id>> \in signed})
                        >= signaturesRequired
  <1>1. Init => Inv
    BY TypeInit DEF Init, TokenInit, Distinct
  <1>2. Inv /\ [Next]_vars => Inv'
    <2> SUFFICES ASSUME Inv, [Next]_vars PROVE Inv'
      OBVIOUS
    <2>1. TypeInv'
      BY TypeStep
    <2>2. Distinct(signers')
      BY SignersStayDistinct
    <2> QED BY <2>1, <2>2 DEF Distinct
  <1>3. Inv /\ [Next]_vars => [A]_vars
    BY MintStep
  <1> QED BY <1>1, <1>2, <1>3, PTL DEF Spec, MintedByQuorum

-----------------------------------------------------------------------------
(* The supply.  A sum is counted as a set of single tokens, so that adding *)
(* to one balance adds a segment to one stack of the set.                  *)

\* The n units above the first m of x.
Segment(x, m, n) == {x} \X ((m + 1)..(m + n))

LEMMA SegmentCount ==
    ASSUME NEW x, NEW m \in Nat, NEW n \in Nat
    PROVE  IsFiniteSet(Segment(x, m, n)) /\ Cardinality(Segment(x, m, n)) = n
  <1>1. IsFiniteSet({x}) /\ Cardinality({x}) = 1
    BY FS_Singleton
  <1>2. m + 1 \in Int /\ m + n \in Int
    OBVIOUS
  <1>3. /\ IsFiniteSet((m + 1)..(m + n))
        /\ Cardinality((m + 1)..(m + n)) =
             IF m + 1 > m + n THEN 0 ELSE (m + n) - (m + 1) + 1
    BY <1>2, FS_Interval
  <1>4. Cardinality((m + 1)..(m + n)) = n
    BY <1>3
  <1>5. /\ IsFiniteSet({x} \X ((m + 1)..(m + n)))
        /\ Cardinality({x} \X ((m + 1)..(m + n)))
             = Cardinality({x}) * Cardinality((m + 1)..(m + n))
    BY <1>1, <1>3, FS_Product
  <1> QED BY <1>1, <1>4, <1>5 DEF Segment

\* Two disjoint sets.
LEMMA DisjointCount ==
    ASSUME NEW S, NEW T, IsFiniteSet(S), IsFiniteSet(T), S \cap T = {}
    PROVE  /\ IsFiniteSet(S \cup T)
           /\ Cardinality(S \cup T) = Cardinality(S) + Cardinality(T)
  <1>1. /\ IsFiniteSet(S \cup T)
        /\ Cardinality(S \cup T) = Cardinality(S) + Cardinality(T) - Cardinality(S \cap T)
    BY FS_Union
  <1>2. Cardinality(S \cap T) = 0
    BY FS_EmptySet
  <1>3. Cardinality(S) \in Nat /\ Cardinality(T) \in Nat
    BY FS_CardinalityType
  <1> QED BY <1>1, <1>2, <1>3

\* An amount added to one account is added to the sum.
LEMMA UnitsAdded ==
    ASSUME NEW S, NEW f \in [S -> Nat], NEW x \in S, NEW n \in Nat,
           NEW g \in [S -> Nat], g[x] = f[x] + n, \A y \in S \ {x} : g[y] = f[y],
           IsFiniteSet(Units(f, S))
    PROVE  /\ IsFiniteSet(Units(g, S))
           /\ Cardinality(Units(g, S)) = Cardinality(Units(f, S)) + n
  <1> DEFINE added == Segment(x, f[x], n)
  <1>1. f[x] \in Nat /\ g[x] \in Nat /\ g[x] = f[x] + n
        /\ \A y \in S : y # x => g[y] = f[y]
    OBVIOUS
  <1>3. IsFiniteSet(added) /\ Cardinality(added) = n
    <2>1. f[x] \in Nat
      BY <1>1
    <2> QED BY <2>1, SegmentCount
  <1>4. Units(g, S) = Units(f, S) \cup added
    <2>1. \A h \in [S -> Nat] : Units(h, S) = {p \in S \X Nat : p[2] \in 1..h[p[1]]}
      BY DEF Units
    <2>2. added = {p \in S \X Nat : p[1] = x /\ p[2] \in 1..g[x] /\ p[2] \notin 1..f[x]}
      BY <1>1 DEF Segment
    <2>3. \A y \in S : 1..f[y] \subseteq 1..g[y]
      BY <1>1
    <2> HIDE DEF added
    <2>4. Units(g, S) = {p \in S \X Nat : p[2] \in 1..g[p[1]]}
          /\ Units(f, S) = {p \in S \X Nat : p[2] \in 1..f[p[1]]}
      BY <1>1, <2>1
    <2>5. ASSUME NEW p \in S \X Nat
          PROVE  p[2] \in 1..g[p[1]] <=>
                   p[2] \in 1..f[p[1]]
                     \/ (p[1] = x /\ p[2] \in 1..g[x] /\ p[2] \notin 1..f[x])
      BY <1>1, <2>3
    <2> QED BY <2>2, <2>4, <2>5
  <1>5. Units(f, S) \cap added = {}
    <2>1. \A p \in added : p[1] = x /\ p[2] \notin 1..f[x]
      BY <1>1 DEF Segment
    <2>2. \A p \in Units(f, S) : p[2] \in 1..f[p[1]]
      BY DEF Units
    <2> QED BY <2>1, <2>2
  <1> HIDE DEF added
  <1>6. /\ IsFiniteSet(Units(f, S) \cup added)
        /\ Cardinality(Units(f, S) \cup added) = Cardinality(Units(f, S)) + Cardinality(added)
    BY <1>3, <1>5, DisjointCount
  <1> QED BY <1>3, <1>4, <1>6

\* An amount taken from one account is taken from the sum.
LEMMA UnitsRemoved ==
    ASSUME NEW S, NEW f \in [S -> Nat], NEW x \in S, NEW n \in Nat, n <= f[x],
           NEW g \in [S -> Nat], g[x] = f[x] - n, \A y \in S \ {x} : g[y] = f[y],
           IsFiniteSet(Units(f, S))
    PROVE  /\ IsFiniteSet(Units(g, S))
           /\ Cardinality(Units(f, S)) = Cardinality(Units(g, S)) + n
  <1>1. /\ \A y \in S : f[y] \in Nat /\ g[y] \in Nat /\ g[y] <= f[y]
        /\ f[x] = g[x] + n /\ \A y \in S \ {x} : f[y] = g[y]
    <2>1. f[x] \in Nat /\ g[x] \in Nat /\ g[x] <= f[x] /\ f[x] = g[x] + n
      OBVIOUS
    <2> QED BY <2>1
  <1>2. Units(g, S) \in SUBSET Units(f, S)
    <2>1. \A y \in S : 1..g[y] \subseteq 1..f[y]
      BY <1>1
    <2> QED BY <2>1 DEF Units
  <1>3. IsFiniteSet(Units(g, S))
    BY <1>2, FS_Subset
  <1> QED BY <1>1, <1>3, UnitsAdded

\* One more deposit is minted.
LEMMA UnitsOfOneMore ==
    ASSUME NEW S, NEW f, NEW x, x \notin S, f[x] \in Nat, IsFiniteSet(Units(f, S))
    PROVE  /\ IsFiniteSet(Units(f, S \cup {x}))
           /\ Cardinality(Units(f, S \cup {x})) = Cardinality(Units(f, S)) + f[x]
  <1> DEFINE added == Segment(x, 0, f[x])
  <1>1. IsFiniteSet(added) /\ Cardinality(added) = f[x]
    <2>1. 0 \in Nat
      OBVIOUS
    <2> QED BY <2>1, SegmentCount
  <1>2. added = {x} \X (1..f[x])
    BY DEF Segment
  <1>3. Units(f, S \cup {x}) = Units(f, S) \cup added
    BY <1>2 DEF Units
  <1>4. Units(f, S) \cap added = {}
    <2>1. \A p \in Units(f, S) : p[1] \in S
      BY DEF Units
    <2>2. \A p \in added : p[1] = x
      BY <1>2
    <2> QED BY <2>1, <2>2
  <1> HIDE DEF added
  <1>5. /\ IsFiniteSet(Units(f, S) \cup added)
        /\ Cardinality(Units(f, S) \cup added) = Cardinality(Units(f, S)) + Cardinality(added)
    BY <1>1, <1>4, DisjointCount
  <1> QED BY <1>1, <1>3, <1>5

SupplyInv ==
    /\ IsFiniteSet(Units(balance, Accounts)) /\ IsFiniteSet(Units(AmountOf, mintIDs))
    /\ SupplyBacked

\* A transfer, also one to oneself, makes and loses nothing.
LEMMA MovedSupply ==
    ASSUME NEW from \in Accounts, NEW to \in Accounts, NEW n \in Amounts,
           FundsInv, IsFiniteSet(Units(balance, Accounts)), Movable(from, to, n)
    PROVE  /\ IsFiniteSet(Units(Moved(from, to, n), Accounts))
           /\ Cardinality(Units(Moved(from, to, n), Accounts))
                = Cardinality(Units(balance, Accounts))
  <1>1. balance \in [Accounts -> Nat] /\ n \in Nat /\ n <= balance[from]
    BY TokenAssumption DEF FundsInv, Movable
  <1> DEFINE paid == [balance EXCEPT ![from] = @ - n]
             end == [paid EXCEPT ![to] = @ + n]
  <1>2. /\ paid \in [Accounts -> Nat] /\ paid[from] = balance[from] - n
        /\ \A y \in Accounts \ {from} : paid[y] = balance[y]
    BY <1>1
  <1>3. /\ IsFiniteSet(Units(paid, Accounts))
        /\ Cardinality(Units(balance, Accounts)) = Cardinality(Units(paid, Accounts)) + n
    <2> HIDE DEF paid
    <2> QED BY <1>1, <1>2, UnitsRemoved
  <1>4. /\ end \in [Accounts -> Nat] /\ end[to] = paid[to] + n
        /\ \A y \in Accounts \ {to} : end[y] = paid[y]
    BY <1>1, <1>2
  <1> HIDE DEF paid, end
  <1>5. /\ IsFiniteSet(Units(end, Accounts))
        /\ Cardinality(Units(end, Accounts)) = Cardinality(Units(paid, Accounts)) + n
    BY <1>1, <1>2, <1>3, <1>4, UnitsAdded
  <1>6. Moved(from, to, n) = end
    BY DEF Moved, paid, end
  <1> QED BY <1>3, <1>5, <1>6

LEMMA SupplyInit == Init => SupplyInv
  <1> SUFFICES ASSUME Init PROVE SupplyInv
    OBVIOUS
  <1>1. Units(balance, Accounts) = {}
    BY DEF Init, TokenInit, Units
  <1>2. Units(AmountOf, mintIDs) = {}
    BY DEF Init, TokenInit, Units
  <1>3. IsFiniteSet({}) /\ Cardinality({}) = 0
    BY FS_EmptySet
  <1>4. totalSupply = 0 /\ burned = 0
    BY DEF Init, TokenInit
  <1> QED BY <1>1, <1>2, <1>3, <1>4 DEF SupplyInv, SupplyBacked

\* Using the token keeps the supply: only withdraw lowers it, with a balance.
LEMMA UseSupply ==
    ASSUME FundsInv, SupplyInv, TokenUse
    PROVE  SupplyInv'
  <1>0. Holders \subseteq Accounts /\ balance \in [Accounts -> Nat]
        /\ Amounts \subseteq Nat /\ totalSupply \in Nat /\ burned \in Nat
    BY TokenAssumption DEF Accounts, FundsInv
  <1>1. PICK a \in Holders, b \in Holders, n \in Amounts :
          \/ \E to \in Accounts : Transfer(a, to, n)
          \/ Approve(a, b, n)
          \/ \E to \in Accounts : TransferFrom(b, a, to, n)
          \/ Withdraw(a, n)
    BY DEF TokenUse
  <1>2. ASSUME NEW to \in Accounts, Transfer(a, to, n) \/ TransferFrom(b, a, to, n)
        PROVE  SupplyInv'
    <2>1. /\ Movable(a, to, n) /\ balance' = Moved(a, to, n)
          /\ UNCHANGED <<mintIDs, totalSupply, burned>>
      BY <1>2 DEF Transfer, TransferFrom
    <2>2. a \in Accounts
      BY <1>0
    <2>3. /\ IsFiniteSet(Units(Moved(a, to, n), Accounts))
          /\ Cardinality(Units(Moved(a, to, n), Accounts))
               = Cardinality(Units(balance, Accounts))
      BY <2>1, <2>2, MovedSupply DEF SupplyInv
    <2> QED BY <2>1, <2>3 DEF SupplyInv, SupplyBacked
  <1>3. CASE Approve(a, b, n)
    BY <1>3 DEF Approve, SupplyInv, SupplyBacked
  <1>4. CASE Withdraw(a, n)
    <2>1. /\ balance' = [balance EXCEPT ![a] = @ - n] /\ n <= balance[a]
          /\ totalSupply' = totalSupply - n /\ burned' = burned + n /\ mintIDs' = mintIDs
      BY <1>4 DEF Withdraw
    <2>2. n \in Nat /\ a \in Accounts /\ n <= balance[a] /\ balance' \in [Accounts -> Nat]
          /\ balance'[a] = balance[a] - n
          /\ \A y \in Accounts \ {a} : balance'[y] = balance[y]
      BY <1>0, <2>1
    <2>3. /\ IsFiniteSet(Units(balance', Accounts))
          /\ Cardinality(Units(balance, Accounts)) = Cardinality(Units(balance', Accounts)) + n
      <3>1. IsFiniteSet(Units(balance, Accounts)) /\ balance \in [Accounts -> Nat]
        BY <1>0 DEF SupplyInv
      <3> QED BY <3>1, <2>2, UnitsRemoved
    <2>4. Cardinality(Units(balance', Accounts)) \in Nat
      BY <2>3, FS_CardinalityType
    <2> QED BY <1>0, <2>1, <2>2, <2>3, <2>4 DEF SupplyInv, SupplyBacked
  <1> QED BY <1>1, <1>2, <1>3, <1>4

\* A mint adds the amount of a deposit that was not minted before.
LEMMA MintSupply ==
    ASSUME FundsInv, SupplyInv, NEW id \in Ids, NEW sigs, MintTokens(id, sigs)
    PROVE  SupplyInv'
  <1>1. /\ balance \in [Accounts -> Nat] /\ totalSupply \in Nat /\ burned \in Nat
        /\ AmountOf[id] \in Nat /\ ReceiverOf[id] \in Accounts
    BY TokenAssumption DEF Accounts, FundsInv
  <1>2. /\ id \notin mintIDs /\ mintIDs' = mintIDs \cup {id}
        /\ balance' = [balance EXCEPT ![ReceiverOf[id]] = @ + AmountOf[id]]
        /\ totalSupply' = totalSupply + AmountOf[id] /\ burned' = burned
    BY DEF MintTokens
  <1>3. /\ IsFiniteSet(Units(balance', Accounts))
        /\ Cardinality(Units(balance', Accounts))
             = Cardinality(Units(balance, Accounts)) + AmountOf[id]
    <2>1. /\ balance' \in [Accounts -> Nat]
          /\ balance'[ReceiverOf[id]] = balance[ReceiverOf[id]] + AmountOf[id]
          /\ \A y \in Accounts \ {ReceiverOf[id]} : balance'[y] = balance[y]
      BY <1>1, <1>2
    <2> QED BY <1>1, <2>1, UnitsAdded DEF SupplyInv
  <1>4. /\ IsFiniteSet(Units(AmountOf, mintIDs'))
        /\ Cardinality(Units(AmountOf, mintIDs'))
             = Cardinality(Units(AmountOf, mintIDs)) + AmountOf[id]
    BY <1>1, <1>2, UnitsOfOneMore DEF SupplyInv
  <1> QED BY <1>1, <1>2, <1>3, <1>4 DEF SupplyInv, SupplyBacked

\* The supply is the sum of the balances, and with what was withdrawn the sum
\* of the deposits that were minted, whoever moves tokens where.
THEOREM SupplyIsBacked == Spec => []SupplyBacked
  <1>1. ASSUME TypeInv, SupplyInv, [Next]_vars PROVE SupplyInv'
    <2>1. UNCHANGED funds => SupplyInv'
      BY <1>1 DEF funds, SupplyInv, SupplyBacked
    <2>2. ASSUME NEW id \in Ids, NEW sigs \in Signatures, Mint(id, sigs) PROVE SupplyInv'
      BY <1>1, <2>2, MintSupply DEF Mint, TypeInv
    <2>3. CASE TokenUse
      BY <1>1, <2>3, UseSupply DEF TypeInv
    <2> QED
      BY <1>1, <2>1, <2>2, <2>3
      DEF Next, SubmitTransaction, ConfirmTransaction, Revoke, ExecuteTransaction, Direct,
          NodeSigns, Sign, tokenVars, vars
  <1>2. SupplyInv => SupplyBacked
    BY DEF SupplyInv
  <1> QED BY TypeInit, TypeStep, SupplyInit, <1>1, <1>2, PTL DEF Spec
=============================================================================
