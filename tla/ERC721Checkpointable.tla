------------------------ MODULE ERC721Checkpointable ------------------------
(***************************************************************************)
(* ERC721Checkpointable (contracts/base/ERC721Checkpointable.sol): the     *)
(* votes of the token's holders.  Every mint, transfer and burn of a punk  *)
(* runs _beforeTokenTransfer, which moves one vote between the delegates   *)
(* of the two sides; an account that never chose a delegate is its own.    *)
(*                                                                         *)
(* Who may mint, move or burn is NToken's business: here any punk may go   *)
(* anywhere.  A transaction that moves several punks (a mint with a        *)
(* reward, a settlement) is several steps within one block.                *)
(***************************************************************************)
EXTENDS Checkpoints, FiniteSets

CONSTANTS
  Zero,         \* address(0)
  Accounts,     \* every other address
  Punks,        \* token ids
  Signatures,   \* delegations signed off chain
  MaxBlock      \* bound on block.number, below 2^32

ASSUME ERC721CheckpointableAssumption ==
  /\ Zero \notin Accounts
  /\ IsFiniteSet(Punks)
  /\ MaxBlock \in Nat
  /\ \A s \in Signatures :
       /\ s.signer \in Accounts
       /\ s.delegatee \in Accounts \cup {Zero}
       /\ s.nonce \in Nat
       /\ s.expiry \in Nat

VARIABLES
  owners,        \* ERC721._owners
  delegatesOf,   \* _delegates, Zero when unset
  checkpoints, nonces,
  block,         \* block.number, and the clock of block.timestamp
  history        \* history: everybody's votes at the end of each past block

vars == <<owners, delegatesOf, checkpoints, nonces, block, history>>

Address == Accounts \cup {Zero}
Votes(a) == CurrentVotes(checkpoints[a])
Balance(a) == Cardinality({p \in Punks : owners[p] = a})

\* delegates(): the delegator itself if it has not delegated.
Delegates(a) == IF a = Zero \/ delegatesOf[a] = Zero THEN a ELSE delegatesOf[a]

-----------------------------------------------------------------------------
\* sub96 reverts when the source has too few votes.
CanMoveDelegates(src, dst, amount) ==
  src # dst /\ amount > 0 /\ src # Zero => Votes(src) >= amount

\* Variant: the destination is credited even when it is the source.
MovedToSelf(src, dst, amount) ==
  [a \in Address |->
     IF amount = 0 \/ a = Zero \/ a \notin {src, dst} THEN checkpoints[a]
     ELSE IF a = dst
     THEN WriteCheckpoint(checkpoints[a], block, Votes(a) + amount)
     ELSE WriteCheckpoint(checkpoints[a], block, Votes(a) - amount)]

\* _moveDelegates: what it leaves of every account's checkpoints.
Moved(src, dst, amount) ==
  [a \in Address |->
     IF src = dst \/ amount = 0 \/ a = Zero \/ a \notin {src, dst}
     THEN checkpoints[a]
     ELSE WriteCheckpoint(checkpoints[a], block,
            IF a = dst THEN Votes(a) + amount ELSE Votes(a) - amount)]

\* _beforeTokenTransfer and the change of owner, for _mint (from Zero),
\* _transfer and _burn (to Zero).
TransferToken(p, from, to) ==
  /\ owners[p] = from
  /\ CanMoveDelegates(Delegates(from), Delegates(to), 1)
  /\ checkpoints' = Moved(Delegates(from), Delegates(to), 1)
  /\ owners' = [owners EXCEPT ![p] = to]
  /\ UNCHANGED <<delegatesOf, nonces, block, history>>

\* _delegate
DelegateVotes(delegator, delegatee) ==
  /\ CanMoveDelegates(Delegates(delegator), delegatee, Balance(delegator))
  /\ checkpoints' = Moved(Delegates(delegator), delegatee, Balance(delegator))
  /\ delegatesOf' = [delegatesOf EXCEPT ![delegator] = delegatee]
  /\ UNCHANGED <<owners, block, history>>

Delegate(sender, delegatee) ==
  /\ DelegateVotes(sender, IF delegatee = Zero THEN sender ELSE delegatee)
  /\ UNCHANGED nonces

\* ecrecover is modelled by the signer of the message.
DelegateBySig(s) ==
  /\ s.nonce = nonces[s.signer]
  /\ block <= s.expiry
  /\ nonces' = [nonces EXCEPT ![s.signer] = @ + 1]
  /\ DelegateVotes(s.signer, s.delegatee)

NextBlock ==
  /\ block < MaxBlock
  /\ block' = block + 1
  /\ history' = [history EXCEPT ![block] = [a \in Address |-> Votes(a)]]
  /\ UNCHANGED <<owners, delegatesOf, checkpoints, nonces>>

-----------------------------------------------------------------------------
Init ==
  /\ owners = [p \in Punks |-> Zero]
  /\ delegatesOf = [a \in Accounts |-> Zero]
  /\ checkpoints = [a \in Address |-> <<>>]
  /\ nonces = [a \in Accounts |-> 0]
  /\ block = 0
  /\ history = [b \in 0 .. MaxBlock |-> [a \in Address |-> 0]]

Next ==
  \/ \E p \in Punks, from, to \in Address :
       (from # Zero \/ to # Zero) /\ TransferToken(p, from, to)
  \/ \E a \in Accounts, d \in Address : Delegate(a, d)
  \/ \E s \in Signatures : DelegateBySig(s)
  \/ NextBlock

Spec == Init /\ [][Next]_vars

-----------------------------------------------------------------------------
(* Properties                                                              *)

\* Every variable has its type; votes are never negative.
TypeOK ==
  /\ owners \in [Punks -> Address]
  /\ delegatesOf \in [Accounts -> Address]
  /\ checkpoints \in [Address -> Seq(Checkpoint)]
  /\ nonces \in [Accounts -> Nat]
  /\ block \in 0 .. MaxBlock

\* The punks whose votes a has: owned by an account that a is delegate of.
Represents(a) == {p \in Punks : owners[p] # Zero /\ Delegates(owners[p]) = a}

\* The votes of an account are the punks of everyone whose delegate it is,
\* itself included by default: after any sequence of mints, transfers, burns
\* and delegations no vote is lost, invented or counted for two delegates.
VotesMatchHoldings ==
  \A a \in Accounts : Votes(a) = Cardinality(Represents(a))

\* The zero address never gets votes, although mints come from it, burns go
\* to it and it is the unset delegate.
ZeroHasNoVotes == checkpoints[Zero] = <<>>

\* getPriorVotes answers, for every block that is over, with the votes the
\* account had when that block ended.
PriorVotesAreHistory ==
  \A a \in Address, b \in 0 .. block - 1 :
    PriorVotes(checkpoints[a], b) = history[b][a]

\* sub96 never stops anyone from moving a punk or changing delegate.
MovesNeverUnderflow ==
  /\ \A p \in Punks, to \in Address : owners[p] # Zero =>
       CanMoveDelegates(Delegates(owners[p]), Delegates(to), 1)
  /\ \A a \in Accounts, d \in Address :
       CanMoveDelegates(Delegates(a), d, Balance(a))

\* The books of the votes are right, none is the zero address's, and so they
\* never get in the way of a transfer or a delegation.
VotesExact ==
  TypeOK /\ VotesMatchHoldings /\ ZeroHasNoVotes /\ MovesNeverUnderflow
=============================================================================
