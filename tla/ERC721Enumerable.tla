-------------------------- MODULE ERC721Enumerable --------------------------
(***************************************************************************)
(* ERC721Enumerable (contracts/base/ERC721Enumerable.sol): the lists that  *)
(* tokenOfOwnerByIndex, tokenByIndex and totalSupply read.  They are kept  *)
(* by swap and pop in the hook that every mint, transfer and burn runs     *)
(* before it changes _balances and _owners.                                *)
(*                                                                         *)
(* Indexes count from 0 as in the code; a mapping slot that was deleted or *)
(* never written holds 0, which is also a token id and an index.           *)
(***************************************************************************)
EXTENDS Integers, Sequences

CONSTANTS
  Zero,      \* address(0)
  Accounts,  \* every other address
  Punks,     \* token ids
  Slots      \* indexes of a list: Nat, or 0 .. n for n punks

ASSUME ERC721EnumerableAssumption ==
  /\ Zero \notin Accounts
  /\ Punks \subseteq Nat
  /\ 0 \in Punks
  /\ Slots \subseteq Nat

VARIABLES
  owners, balances,               \* ERC721._owners and _balances
  ownedTokens, ownedTokensIndex,  \* _ownedTokens and _ownedTokensIndex
  allTokens, allTokensIndex       \* _allTokens and _allTokensIndex

vars == <<owners, balances, ownedTokens, ownedTokensIndex,
          allTokens, allTokensIndex>>

Address == Accounts \cup {Zero}

-----------------------------------------------------------------------------
(* The two lists of an owner change in a transfer, first that of the       *)
(* sender, then that of the receiver.                                      *)

\* Variant: the token that fills the gap keeps its old index.
RemovedFromIndexStale(from, p) ==
  [i \in Punks |-> IF i = p THEN 0 ELSE ownedTokensIndex[i]]

\* _ownedTokensIndex after _removeTokenFromOwnerEnumeration.
RemovedFromIndex(from, p) ==
  LET last == balances[from] - 1
      gap == ownedTokensIndex[p]
  IN [i \in Punks |->
        IF i = p THEN 0
        ELSE IF gap # last /\ i = ownedTokens[from][last] THEN gap
        ELSE ownedTokensIndex[i]]

\* The list of from after _removeTokenFromOwnerEnumeration.
RemovedFromOwner(from, p) ==
  LET last == balances[from] - 1
      gap == ownedTokensIndex[p]
  IN [k \in Slots |->
        IF k = last THEN 0
        ELSE IF k = gap THEN ownedTokens[from][last]
        ELSE ownedTokens[from][k]]

\* _addTokenToOwnerEnumeration on the owner's list.
AddedToOwner(to, p) == [ownedTokens[to] EXCEPT ![balances[to]] = p]

-----------------------------------------------------------------------------
\* _mint
Mint(to, p) ==
  /\ owners[p] = Zero
  /\ to # Zero
  /\ allTokensIndex' = [allTokensIndex EXCEPT ![p] = Len(allTokens)]
  /\ allTokens' = Append(allTokens, p)
  /\ ownedTokens' = [ownedTokens EXCEPT ![to] = AddedToOwner(to, p)]
  /\ ownedTokensIndex' = [ownedTokensIndex EXCEPT ![p] = balances[to]]
  /\ balances' = [balances EXCEPT ![to] = @ + 1]
  /\ owners' = [owners EXCEPT ![p] = to]

\* _transfer; a transfer to oneself leaves the lists alone.
Transfer(from, to, p) ==
  /\ owners[p] = from
  /\ from # Zero
  /\ to # Zero
  /\ IF from = to
     THEN UNCHANGED <<ownedTokens, ownedTokensIndex, balances>>
     ELSE /\ ownedTokens' = [ownedTokens EXCEPT ![from] = RemovedFromOwner(from, p),
                                                ![to] = AddedToOwner(to, p)]
          /\ ownedTokensIndex' =
               [RemovedFromIndex(from, p) EXCEPT ![p] = balances[to]]
          /\ balances' = [balances EXCEPT ![from] = @ - 1, ![to] = @ + 1]
  /\ owners' = [owners EXCEPT ![p] = to]
  /\ UNCHANGED <<allTokens, allTokensIndex>>

\* _allTokens after _removeTokenFromAllTokensEnumeration.
RemovedFromAll(p) ==
  LET gap == allTokensIndex[p]
      n == Len(allTokens)
  IN [k \in 1 .. n - 1 |-> IF k = gap + 1 THEN allTokens[n] ELSE allTokens[k]]

\* _burn
Burn(p) ==
  LET from == owners[p]
      lastToken == allTokens[Len(allTokens)]
  IN /\ from # Zero
     /\ ownedTokens' = [ownedTokens EXCEPT ![from] = RemovedFromOwner(from, p)]
     /\ ownedTokensIndex' = RemovedFromIndex(from, p)
     /\ allTokens' = RemovedFromAll(p)
     /\ allTokensIndex' = [i \in Punks |->
                             IF i = p THEN 0
                             ELSE IF i = lastToken THEN allTokensIndex[p]
                             ELSE allTokensIndex[i]]
     /\ balances' = [balances EXCEPT ![from] = @ - 1]
     /\ owners' = [owners EXCEPT ![p] = Zero]

-----------------------------------------------------------------------------
Init ==
  /\ owners = [p \in Punks |-> Zero]
  /\ balances = [a \in Accounts |-> 0]
  /\ ownedTokens = [a \in Accounts |-> [k \in Slots |-> 0]]
  /\ ownedTokensIndex = [p \in Punks |-> 0]
  /\ allTokens = <<>>
  /\ allTokensIndex = [p \in Punks |-> 0]

Next ==
  \/ \E to \in Address, p \in Punks : Mint(to, p)
  \/ \E from, to \in Address, p \in Punks : Transfer(from, to, p)
  \/ \E p \in Punks : Burn(p)

Spec == Init /\ [][Next]_vars

-----------------------------------------------------------------------------
(* Properties                                                              *)

\* Every mapping has its type.
TypeOK ==
  /\ owners \in [Punks -> Address]
  /\ balances \in [Accounts -> Nat]
  /\ ownedTokens \in [Accounts -> [Slots -> Punks]]
  /\ ownedTokensIndex \in [Punks -> Nat]
  /\ allTokens \in Seq(Punks)
  /\ allTokensIndex \in [Punks -> Nat]

\* The first balanceOf(a) slots of an owner's list hold tokens of a, each
\* knowing its slot, and every token is in the list of its owner: after any
\* series of removals tokenOfOwnerByIndex names each punk of an owner once.
OwnerListsExact ==
  /\ \A a \in Accounts : \A k \in 0 .. balances[a] - 1 :
       /\ owners[ownedTokens[a][k]] = a
       /\ ownedTokensIndex[ownedTokens[a][k]] = k
  /\ \A p \in Punks : owners[p] # Zero =>
       /\ ownedTokensIndex[p] < balances[owners[p]]
       /\ ownedTokens[owners[p]][ownedTokensIndex[p]] = p

\* tokenByIndex names every punk that exists exactly once, so totalSupply,
\* from which the DAO computes quorum and threshold, is the number of punks.
AllTokensExact ==
  /\ \A k \in 1 .. Len(allTokens) :
       /\ owners[allTokens[k]] # Zero
       /\ allTokensIndex[allTokens[k]] = k - 1
  /\ \A p \in Punks : owners[p] # Zero =>
       /\ allTokensIndex[p] < Len(allTokens)
       /\ allTokens[allTokensIndex[p] + 1] = p

\* Both kinds of lists are exact, which takes the types of their mappings.
ListsSound == TypeOK /\ OwnerListsExact /\ AllTokensExact
=============================================================================
