-------------------------- MODULE CryptopunksVote ---------------------------
(***************************************************************************)
(* CryptopunksVote (contracts/CryptopunksVote.sol): one vote for every OG  *)
(* punk that its owner, or a holder of the wrapped punk, has delegated.    *)
(*                                                                         *)
(* A batch runs its loop one punk per step.  Until it ends nothing else    *)
(* happens on chain; if one punk is refused the transaction reverts and    *)
(* the storage of its start, kept in tx, is back.  Ownership of OG and     *)
(* wrapped punks belongs to other contracts and changes at any time        *)
(* between transactions, without the delegation following.                 *)
(***************************************************************************)
EXTENDS Checkpoints, FiniteSets

CONSTANTS
  Zero,          \* address(0), also TOTAL_SUPPLY_HOLDER
  Accounts,      \* every other address
  WrappedPunk,   \* the contract that holds the wrapped punks
  Punks,         \* punk indexes below CRYPTOPUNKS_TOTAL_SUPPLY
  Traded,        \* the punks whose changes of hands are explored
  Operators,     \* pairs of a holder of wrapped punks and its operator
  Signatures,    \* delegations signed off chain
  MaxBatch,      \* bound on the length of a batch
  Uint32Max      \* type(uint32).max, the last block number

ASSUME CryptopunksVoteAssumption ==
  /\ Zero \notin Accounts
  /\ WrappedPunk \notin Accounts \cup {Zero}
  /\ IsFiniteSet(Punks)
  /\ Traded \subseteq Punks
  /\ Operators \subseteq Accounts \X Accounts
  /\ MaxBatch \in Nat
  /\ Uint32Max \in Nat
  /\ \A s \in Signatures :
       /\ s.signer \in Accounts
       /\ s.delegatee \in Accounts \cup {Zero}
       /\ s.punks \in Seq(Punks)
       /\ s.batch \in BOOLEAN
       /\ ~s.batch => Len(s.punks) = 1
       /\ s.nonce \in Nat
       /\ s.expiry \in Nat

VARIABLES
  delegates,     \* _delegates, Zero when never delegated
  checkpoints,   \* of every account and of TOTAL_SUPPLY_HOLDER
  nonces,
  owner,         \* external: cryptopunks.punkIndexToAddress
  wrapped,       \* external: owner, approval and operators of wrapped punks
  block,         \* block.number, and the clock of block.timestamp
  tx,            \* the batch that is running
  history,       \* history: everybody's votes at the end of each past block
  applied        \* history: how often each signature was accepted

storage == <<delegates, checkpoints, nonces, applied>>
world == <<owner, wrapped>>
vars == <<storage, world, block, tx, history>>

Holders == Accounts \cup {Zero}
NoTx == [running |-> FALSE]
Votes(a) == CurrentVotes(checkpoints[a])
PastVotes(a, b) == PriorVotes(checkpoints[a], b)

-----------------------------------------------------------------------------
(* _delegate                                                               *)

\* Variant: the delegate of any punk may re-delegate every punk.
EligibleAnyDelegate(delegator, p) ==
  delegator = owner[p] \/ \E q \in Punks : delegator = delegates[q]

\* The require on the delegator.  wrappedPunk.ownerOf reverts for a punk that
\* was sent to the wrapper without being wrapped.
Eligible(delegator, p) ==
  IF owner[p] = WrappedPunk
  THEN /\ wrapped.owner[p] # Zero
       /\ \/ delegator = delegates[p]
          \/ delegator = wrapped.owner[p]
          \/ delegator = wrapped.approved[p]
          \/ <<wrapped.owner[p], delegator>> \in wrapped.operators
  ELSE delegator = delegates[p] \/ delegator = owner[p]

\* The requires of _delegate, and the subtraction that must not underflow.
CanDelegate(delegator, delegatee, p) ==
  /\ block < Uint32Max
  /\ delegatee # Zero
  /\ Eligible(delegator, p)
  /\ delegates[p] \notin {Zero, delegatee} => Votes(delegates[p]) > 0

\* Variant: a first delegation is not counted in the total.
MovedUncounted(from, to) ==
  [a \in Holders |->
     IF a = to
     THEN WriteCheckpoint(checkpoints[a], block, CurrentVotes(checkpoints[a]) + 1)
     ELSE IF a = from /\ from # Zero
     THEN WriteCheckpoint(checkpoints[a], block, CurrentVotes(checkpoints[a]) - 1)
     ELSE checkpoints[a]]

\* The checkpoints once one vote moved between different delegates.  A first
\* delegation adds to the total instead of taking from the old delegate.
Moved(from, to) ==
  [a \in Holders |->
     LET old == CurrentVotes(checkpoints[a])
         new == IF a = to \/ (a = Zero /\ from = Zero) THEN old + 1 ELSE old - 1
     IN IF a = to \/ a = from
        THEN WriteCheckpoint(checkpoints[a], block, new)
        ELSE checkpoints[a]]

DelegateOne(delegatee, p) ==
  /\ delegates' = [delegates EXCEPT ![p] = delegatee]
  /\ checkpoints' = IF delegates[p] = delegatee THEN checkpoints
                    ELSE Moved(delegates[p], delegatee)

-----------------------------------------------------------------------------
(* Transactions of one delegation                                          *)

Delegate(delegator, delegatee, p) ==
  /\ ~tx.running
  /\ CanDelegate(delegator, delegatee, p)
  /\ DelegateOne(delegatee, p)
  /\ UNCHANGED <<nonces, applied, world, block, tx, history>>

\* Variant: the nonce is compared but not consumed.
SignatureAcceptedNoIncrement(s) ==
  /\ block <= s.expiry
  /\ s.nonce = nonces[s.signer]
  /\ UNCHANGED nonces
  /\ applied' = [applied EXCEPT ![s] = @ + 1]

\* The checks of delegateBySig and delegateBatchBySig; ECDSA.recover is
\* modelled by the signer of the message.
SignatureAccepted(s) ==
  /\ block <= s.expiry
  /\ s.nonce = nonces[s.signer]
  /\ nonces' = [nonces EXCEPT ![s.signer] = @ + 1]
  /\ applied' = [applied EXCEPT ![s] = @ + 1]

DelegateBySig(s) ==
  /\ ~tx.running
  /\ ~s.batch
  /\ SignatureAccepted(s)
  /\ CanDelegate(s.signer, s.delegatee, s.punks[1])
  /\ DelegateOne(s.delegatee, s.punks[1])
  /\ UNCHANGED <<world, block, tx, history>>

-----------------------------------------------------------------------------
(* Batches                                                                 *)

Batch(delegator, delegatee, punks) ==
  [running |-> TRUE, delegator |-> delegator, delegatee |-> delegatee,
   rest |-> punks,
   saved |-> [delegates |-> delegates, checkpoints |-> checkpoints,
              nonces |-> nonces, applied |-> applied]]

BeginBatch(delegator, delegatee, punks) ==
  /\ ~tx.running
  /\ tx' = Batch(delegator, delegatee, punks)
  /\ UNCHANGED <<storage, world, block, history>>

BeginBatchBySig(s) ==
  /\ ~tx.running
  /\ s.batch
  /\ SignatureAccepted(s)
  /\ tx' = Batch(s.signer, s.delegatee, s.punks)
  /\ UNCHANGED <<delegates, checkpoints, world, block, history>>

\* One iteration of the loop.
BatchStep ==
  /\ tx.running
  /\ tx.rest # <<>>
  /\ CanDelegate(tx.delegator, tx.delegatee, Head(tx.rest))
  /\ DelegateOne(tx.delegatee, Head(tx.rest))
  /\ tx' = [tx EXCEPT !.rest = Tail(@)]
  /\ UNCHANGED <<nonces, applied, world, block, history>>

\* A require of the loop fails and the transaction reverts.
BatchReverts ==
  /\ tx.running
  /\ tx.rest # <<>>
  /\ ~CanDelegate(tx.delegator, tx.delegatee, Head(tx.rest))
  /\ delegates' = tx.saved.delegates
  /\ checkpoints' = tx.saved.checkpoints
  /\ nonces' = tx.saved.nonces
  /\ applied' = tx.saved.applied
  /\ tx' = NoTx
  /\ UNCHANGED <<world, block, history>>

EndBatch ==
  /\ tx.running
  /\ tx.rest = <<>>
  /\ tx' = NoTx
  /\ UNCHANGED <<storage, world, block, history>>

-----------------------------------------------------------------------------
(* The world outside                                                       *)

\* The OG contract: a punk is sold, given away, or sent to the wrapper.
TransferPunk(p, to) ==
  /\ ~tx.running
  /\ owner' = [owner EXCEPT ![p] = to]
  /\ UNCHANGED <<storage, wrapped, block, tx, history>>

\* The wrapper: a wrapped punk is minted, moved or burned (to = Zero), which
\* clears its approval.
TransferWrapped(p, to) ==
  /\ ~tx.running
  /\ owner[p] = WrappedPunk
  /\ wrapped' = [wrapped EXCEPT !.owner[p] = to, !.approved[p] = Zero]
  /\ UNCHANGED <<storage, owner, block, tx, history>>

ApproveWrapped(p, a) ==
  /\ ~tx.running
  /\ wrapped.owner[p] # Zero
  /\ wrapped' = [wrapped EXCEPT !.approved[p] = a]
  /\ UNCHANGED <<storage, owner, block, tx, history>>

SetOperator(a, operator) ==
  /\ ~tx.running
  /\ wrapped' = [wrapped EXCEPT !.operators = @ \cup {<<a, operator>>}]
  /\ UNCHANGED <<storage, owner, block, tx, history>>

NextBlock ==
  /\ ~tx.running
  /\ block < Uint32Max
  /\ block' = block + 1
  /\ history' = [history EXCEPT ![block] = [a \in Holders |-> Votes(a)]]
  /\ UNCHANGED <<storage, world, tx>>

-----------------------------------------------------------------------------
Init ==
  /\ delegates = [p \in Punks |-> Zero]
  /\ checkpoints = [a \in Holders |-> <<>>]
  /\ nonces = [a \in Accounts |-> 0]
  /\ owner \in [Punks -> Accounts]
  /\ wrapped = [owner |-> [p \in Punks |-> Zero],
                approved |-> [p \in Punks |-> Zero], operators |-> {}]
  /\ block = 0
  /\ tx = NoTx
  /\ history = [b \in 0 .. Uint32Max |-> [a \in Holders |-> 0]]
  /\ applied = [s \in Signatures |-> 0]

Batches == UNION {[1 .. n -> Punks] : n \in 0 .. MaxBatch}

World ==
  \/ \E p \in Traded, to \in Accounts \cup {WrappedPunk} : TransferPunk(p, to)
  \/ \E p \in Traded, to \in Holders : TransferWrapped(p, to)
  \/ \E p \in Traded, a \in Holders : ApproveWrapped(p, a)
  \/ \E o \in Operators : SetOperator(o[1], o[2])

Next ==
  \/ \E a \in Accounts, d \in Holders, p \in Punks : Delegate(a, d, p)
  \/ \E s \in Signatures : DelegateBySig(s)
  \/ \E a \in Accounts, d \in Holders, ps \in Batches : BeginBatch(a, d, ps)
  \/ \E s \in Signatures : BeginBatchBySig(s)
  \/ BatchStep
  \/ BatchReverts
  \/ EndBatch
  \/ World
  \/ NextBlock

Spec == Init /\ [][Next]_vars

-----------------------------------------------------------------------------
(* Properties                                                              *)

Delegated(d) == {p \in Punks : delegates[p] = d}
EverDelegated == {p \in Punks : delegates[p] # Zero}

\* Every variable of the contract has its type.
TypeOK ==
  /\ delegates \in [Punks -> Holders]
  /\ checkpoints \in [Holders -> Seq(Checkpoint)]
  /\ nonces \in [Accounts -> Nat]
  /\ block \in 0 .. Uint32Max
  /\ tx.running \in BOOLEAN

\* The votes of a delegate are the punks delegated to it, and totalDelegated
\* counts every punk that was ever delegated: no re-delegation, batch with
\* repeated punks or reverted batch double counts or loses one.
VotesMatchDelegations ==
  /\ \A a \in Accounts : Votes(a) = Cardinality(Delegated(a))
  /\ Votes(Zero) = Cardinality(EverDelegated)

\* At most one checkpoint per block, in block order (the unchecked
\* arithmetic and the uint32 cast of _writeCheckpoint lose nothing).
CheckpointsOrdered == \A a \in Holders : Ordered(checkpoints[a], block)

\* The books of the votes are right and in order.
VotesExact == TypeOK /\ VotesMatchDelegations /\ CheckpointsOrdered

\* getPastVotes answers, for every block that is over, with the votes the
\* account had when that block ended, however often the votes moved since.
PriorVotesAreHistory ==
  \A a \in Holders, b \in 0 .. block - 1 :
    PastVotes(a, b) = history[b][a]

\* A signed delegation takes effect at most once, although anyone may submit
\* it again, single and batch signatures share the nonce, and a batch that
\* reverts gives its nonce back.
SignaturesUsedOnce == \A s \in Signatures : applied[s] <= 1

\* Whoever changes a delegate in a batch had, before the batch began, a right
\* to that punk; the changes the batch itself makes give no new rights.
BatchGivesNoRights ==
  tx.running => \A p \in Punks : delegates[p] # tx.saved.delegates[p] =>
    \/ tx.delegator = tx.saved.delegates[p]
    \/ tx.delegator = owner[p]
    \/ /\ owner[p] = WrappedPunk
       /\ \/ tx.delegator = wrapped.owner[p]
          \/ tx.delegator = wrapped.approved[p]
          \/ <<wrapped.owner[p], tx.delegator>> \in wrapped.operators
=============================================================================
