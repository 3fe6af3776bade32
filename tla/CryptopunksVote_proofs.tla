------------------------ MODULE CryptopunksVote_proofs ----------------------
(***************************************************************************)
(* Proofs about the votes of OG punks, for any accounts, any finite set of *)
(* punks, any signatures, batches of any length and any number of blocks.  *)
(* A running batch may be undone, so that the invariants are stated of     *)
(* books (d, c) that may be the present ones or the ones it saved.         *)
(***************************************************************************)
EXTENDS CryptopunksVote, Checkpoints_proofs, FiniteSetTheorems

To(d, a) == {p \in Punks : d[p] = a}
Ever(d) == {p \in Punks : d[p] # Zero}

\* Delegates d and checkpoints c agree, are in block order and know the past.
BooksSound(d, c) ==
  /\ d \in [Punks -> Holders]
  /\ c \in [Holders -> Seq(Checkpoint)]
  /\ \A a \in Holders : Ordered(c[a], block)
  /\ \A a \in Accounts : CurrentVotes(c[a]) = Cardinality(To(d, a))
  /\ CurrentVotes(c[Zero]) = Cardinality(Ever(d))
  /\ \A a \in Holders, b \in 0 .. block - 1 : VotesAt(c[a], b) = history[b][a]

LEMMA ToFinite ==
  ASSUME NEW d, NEW a
  PROVE  /\ IsFiniteSet(To(d, a)) /\ Cardinality(To(d, a)) \in Nat
         /\ IsFiniteSet(Ever(d)) /\ Cardinality(Ever(d)) \in Nat
<1>1. To(d, a) \in SUBSET Punks /\ Ever(d) \in SUBSET Punks
  BY DEF To, Ever
<1> QED BY <1>1, FS_Subset, FS_CardinalityType, CryptopunksVoteAssumption

\* _delegate keeps the books: one vote leaves the old delegate, or enters the
\* total, and reaches the new one.
LEMMA DelegateOneKeepsBooks ==
  ASSUME block \in Nat, BooksSound(delegates, checkpoints),
         NEW delegator, NEW delegatee \in Holders, NEW p \in Punks,
         CanDelegate(delegator, delegatee, p), DelegateOne(delegatee, p)
  PROVE  BooksSound(delegates', checkpoints')
<1> DEFINE from == delegates[p]
           d == delegates'
           m == checkpoints'
<1>1. /\ delegatee \in Accounts /\ delegatee # Zero /\ from \in Holders
      /\ Zero \notin Accounts /\ Zero \in Holders /\ delegatee \in Holders
  BY CryptopunksVoteAssumption DEF CanDelegate, BooksSound, Holders
<1>2. /\ d \in [Punks -> Holders]
      /\ d[p] = delegatee
      /\ \A q \in Punks : q # p => d[q] = delegates[q]
  BY <1>1 DEF DelegateOne, BooksSound
<1>3. CASE from = delegatee
  <2>1. m = checkpoints /\ d = delegates
    BY <1>2, <1>3 DEF DelegateOne, BooksSound
  <2> QED BY <2>1
<1>4. CASE from # delegatee
  <2> DEFINE new(a) == IF a = delegatee \/ (a = Zero /\ from = Zero)
                       THEN Votes(a) + 1 ELSE Votes(a) - 1
  <2>1. m = Moved(from, delegatee)
    BY <1>4 DEF DelegateOne
  <2>2. \A a \in Holders : Votes(a) \in Nat
    BY CurrentVotesType DEF BooksSound, Votes
  <2>3. from # Zero => Votes(from) > 0
    BY <1>4 DEF CanDelegate
  <2>4. ASSUME NEW a \in Holders
        PROVE  /\ m[a] \in Seq(Checkpoint)
               /\ Ordered(m[a], block)
               /\ \A b \in 0 .. block - 1 :
                    VotesAt(m[a], b) = VotesAt(checkpoints[a], b)
               /\ CurrentVotes(m[a]) =
                    IF a = delegatee \/ a = from THEN new(a) ELSE Votes(a)
    <3>1. checkpoints[a] \in Seq(Checkpoint) /\ Ordered(checkpoints[a], block)
      BY DEF BooksSound
    <3>2. CASE a = delegatee \/ a = from
      <4>1. new(a) \in Nat
        BY <1>1, <2>2, <2>3, <3>2
      <4>2. m[a] = WriteCheckpoint(checkpoints[a], block, new(a))
        BY <2>1, <3>2 DEF Moved, Votes
      <4> HIDE DEF m, new
      <4> QED BY <3>1, <3>2, <4>1, <4>2, WriteKeepsThePast
    <3>3. CASE ~(a = delegatee \/ a = from)
      <4>1. m[a] = checkpoints[a]
        BY <2>1, <3>3 DEF Moved
      <4> QED BY <3>1, <3>3, <4>1 DEF Votes
    <3> QED BY <3>2, <3>3
  <2>5. m \in [Holders -> Seq(Checkpoint)]
    <3>1. m = [a \in Holders |-> m[a]]
      BY <2>1 DEF Moved
    <3> HIDE DEF m
    <3> QED BY <2>4, <3>1
  <2>6. ASSUME NEW a \in Accounts
        PROVE  CurrentVotes(m[a]) = Cardinality(To(d, a))
    <3>1. a \in Holders /\ a # Zero
      BY <1>1 DEF Holders
    <3>2. /\ Votes(a) = Cardinality(To(delegates, a))
          /\ IsFiniteSet(To(delegates, a))
          /\ Cardinality(To(delegates, a)) \in Nat
      BY ToFinite DEF BooksSound, Votes
    <3>3. CASE a = delegatee
      <4>1. To(d, a) = To(delegates, a) \cup {p} /\ p \notin To(delegates, a)
        BY <1>2, <1>4, <3>3 DEF To
      <4>2. Cardinality(To(d, a)) = Cardinality(To(delegates, a)) + 1
        BY <3>2, <4>1, FS_AddElement
      <4>3. CurrentVotes(m[a]) = Votes(a) + 1
        BY <2>4, <3>1, <3>3
      <4> QED BY <3>2, <4>2, <4>3
    <3>4. CASE a # delegatee /\ a = from
      <4>1. To(d, a) = To(delegates, a) \ {p} /\ p \in To(delegates, a)
        BY <1>2, <1>4, <3>4 DEF To
      <4>2. Cardinality(To(d, a)) = Cardinality(To(delegates, a)) - 1
        BY <3>2, <4>1, FS_RemoveElement
      <4>3. CurrentVotes(m[a]) = Votes(a) - 1
        BY <2>4, <3>1, <3>4
      <4> QED BY <3>2, <4>2, <4>3
    <3>5. CASE a # delegatee /\ a # from
      <4>1. To(d, a) = To(delegates, a)
        BY <1>2, <3>5 DEF To
      <4> QED BY <2>4, <3>1, <3>2, <3>5, <4>1
    <3> QED BY <3>3, <3>4, <3>5
  <2>7. CurrentVotes(m[Zero]) = Cardinality(Ever(d))
    <3>1. /\ Votes(Zero) = Cardinality(Ever(delegates))
          /\ IsFiniteSet(Ever(delegates))
          /\ Cardinality(Ever(delegates)) \in Nat
      BY ToFinite DEF BooksSound, Votes
    <3>2. CASE from = Zero
      <4>1. Ever(d) = Ever(delegates) \cup {p} /\ p \notin Ever(delegates)
        BY <1>1, <1>2, <3>2 DEF Ever
      <4>2. Cardinality(Ever(d)) = Cardinality(Ever(delegates)) + 1
        BY <3>1, <4>1, FS_AddElement
      <4>3. CurrentVotes(m[Zero]) = Votes(Zero) + 1
        BY <1>1, <2>4, <3>2
      <4> QED BY <3>1, <4>2, <4>3
    <3>3. CASE from # Zero
      <4>1. Ever(d) = Ever(delegates)
        BY <1>1, <1>2, <3>3 DEF Ever
      <4> QED BY <1>1, <2>4, <3>1, <3>3, <4>1
    <3> QED BY <3>2, <3>3
  <2>8. \A a \in Holders, b \in 0 .. block - 1 : VotesAt(m[a], b) = history[b][a]
    BY <2>4 DEF BooksSound
  <2> HIDE DEF d, m, new
  <2>9. BooksSound(d, m)
    BY <1>2, <2>4, <2>5, <2>6, <2>7, <2>8 DEF BooksSound
  <2> QED BY <2>9 DEF d, m
<1> QED BY <1>3, <1>4

-----------------------------------------------------------------------------
(* The invariant                                                           *)

\* Nonces n and counts of use u: a signature was used at most once, and once
\* it was used its nonce is behind.
SignaturesSound(n, u) ==
  /\ n \in [Accounts -> Nat]
  /\ u \in [Signatures -> Nat]
  /\ \A s \in Signatures :
       u[s] = 0 \/ (u[s] = 1 /\ s.nonce < n[s.signer])

BatchRecord ==
  [running : {TRUE}, delegator : Accounts, delegatee : Holders,
   rest : Seq(Punks),
   saved : [delegates : [Punks -> Holders],
            checkpoints : [Holders -> Seq(Checkpoint)],
            nonces : [Accounts -> Nat], applied : [Signatures -> Nat]]]

VotesInv ==
  /\ block \in 0 .. Uint32Max
  /\ history \in [0 .. Uint32Max -> [Holders -> Nat]]
  /\ BooksSound(delegates, checkpoints)
  /\ SignaturesSound(nonces, applied)
  /\ tx = NoTx \/ tx \in BatchRecord
  /\ tx.running => /\ BooksSound(tx.saved.delegates, tx.saved.checkpoints)
                   /\ SignaturesSound(tx.saved.nonces, tx.saved.applied)
  /\ BatchGivesNoRights

LEMMA BlockType == VotesInv => block \in Nat
BY CryptopunksVoteAssumption DEF VotesInv

LEMMA VotesInit == Init => VotesInv
<1> SUFFICES ASSUME Init PROVE VotesInv
  OBVIOUS
<1>1. block \in 0 .. Uint32Max /\ history \in [0 .. Uint32Max -> [Holders -> Nat]]
  BY CryptopunksVoteAssumption DEF Init
<1>2. BooksSound(delegates, checkpoints)
  <2>1. delegates \in [Punks -> Holders] /\ checkpoints \in [Holders -> Seq(Checkpoint)]
    BY DEF Init, Holders
  <2>2. \A a \in Holders : CurrentVotes(checkpoints[a]) = 0 /\ Ordered(checkpoints[a], block)
    BY DEF Init, Ordered, CurrentVotes
  <2>3. Ever(delegates) = {} /\ \A a \in Accounts : To(delegates, a) = {}
    BY CryptopunksVoteAssumption DEF Init, To, Ever
  <2>4. 0 .. block - 1 = {}
    BY DEF Init
  <2>5. \A a \in Accounts : a \in Holders
    BY DEF Holders
  <2>6. Zero \in Holders
    BY DEF Holders
  <2>7. \A a \in Accounts : CurrentVotes(checkpoints[a]) = Cardinality(To(delegates, a))
    BY <2>2, <2>3, <2>5, FS_EmptySet
  <2>8. CurrentVotes(checkpoints[Zero]) = Cardinality(Ever(delegates))
    BY <2>2, <2>3, <2>6, FS_EmptySet
  <2> QED BY <2>1, <2>2, <2>4, <2>7, <2>8 DEF BooksSound
<1>3. SignaturesSound(nonces, applied)
  BY DEF Init, SignaturesSound
<1>4. tx = NoTx /\ ~tx.running
  BY DEF Init, NoTx
<1> QED BY <1>1, <1>2, <1>3, <1>4 DEF VotesInv, BatchGivesNoRights

\* The books do not depend on anything but themselves, the block and history.
LEMMA BooksStay ==
  ASSUME UNCHANGED <<block, history>>, NEW d, NEW c, BooksSound(d, c)
  PROVE  BooksSound(d, c)'
BY DEF BooksSound, To, Ever

\* Accepting a signature consumes its nonce.
LEMMA AcceptedOnce ==
  ASSUME SignaturesSound(nonces, applied), NEW s \in Signatures,
         SignatureAccepted(s)
  PROVE  SignaturesSound(nonces', applied')
<1>1. s.signer \in Accounts /\ s.nonce \in Nat
  BY CryptopunksVoteAssumption
<1>2. \A r \in Signatures : r.signer \in Accounts /\ r.nonce \in Nat
  BY CryptopunksVoteAssumption
<1>3. nonces' \in [Accounts -> Nat] /\ applied' \in [Signatures -> Nat]
  BY <1>1 DEF SignatureAccepted, SignaturesSound
<1>4. applied[s] = 0
  BY <1>1 DEF SignatureAccepted, SignaturesSound
<1>5. ASSUME NEW r \in Signatures
      PROVE  applied'[r] = 0 \/ (applied'[r] = 1 /\ r.nonce < nonces'[r.signer])
  <2>1. CASE r = s
    BY <1>1, <1>4, <2>1 DEF SignatureAccepted, SignaturesSound
  <2>2. CASE r # s
    <3>1. applied'[r] = applied[r]
      BY <2>2 DEF SignatureAccepted, SignaturesSound
    <3>2. /\ nonces[r.signer] \in Nat /\ nonces'[r.signer] \in Nat
          /\ nonces'[r.signer] >= nonces[r.signer]
      BY <1>2 DEF SignatureAccepted, SignaturesSound
    <3> QED BY <1>2, <3>1, <3>2 DEF SignaturesSound
  <2> QED BY <2>1, <2>2
<1> QED BY <1>3, <1>5 DEF SignaturesSound

\* Steps of the world leave everything of the contract as it is, and happen
\* between transactions.
LEMMA WorldKeepsVotes ==
  ASSUME VotesInv, ~tx.running, UNCHANGED <<storage, block, tx, history>>
  PROVE  VotesInv'
<1>1. BooksSound(delegates, checkpoints)'
  BY BooksStay DEF VotesInv, storage
<1> QED BY <1>1 DEF VotesInv, storage, BatchGivesNoRights, SignaturesSound,
                    BatchRecord

LEMMA BlockKeepsVotes ==
  ASSUME VotesInv, NextBlock
  PROVE  VotesInv'
<1>1. /\ block \in Nat /\ block' = block + 1 /\ block \in 0 .. Uint32Max
      /\ block' \in 0 .. Uint32Max
  BY CryptopunksVoteAssumption DEF NextBlock, VotesInv
<1>2. \A a \in Holders : checkpoints[a] \in Seq(Checkpoint)
  BY DEF VotesInv, BooksSound
<1>3. [a \in Holders |-> Votes(a)] \in [Holders -> Nat]
  BY <1>2, CurrentVotesType DEF Votes
<1>4. history' \in [0 .. Uint32Max -> [Holders -> Nat]]
  BY <1>1, <1>3 DEF NextBlock, VotesInv
<1>5. delegates' = delegates /\ checkpoints' = checkpoints
  BY DEF NextBlock, storage
<1>6. BooksSound(delegates, checkpoints)'
  <2>1. ASSUME NEW a \in Holders PROVE Ordered(checkpoints[a], block')
    BY <1>1, <1>2, CheckpointType DEF VotesInv, BooksSound, Ordered
  <2>2. ASSUME NEW a \in Holders, NEW b \in 0 .. block' - 1
        PROVE  VotesAt(checkpoints[a], b) = history'[b][a]
    <3>1. CASE b = block
      <4>1. history'[b][a] = Votes(a)
        BY <1>1, <3>1 DEF NextBlock, VotesInv
      <4> QED BY <1>1, <1>2, <3>1, <4>1, VotesAtNow DEF VotesInv, BooksSound, Votes
    <3>2. CASE b # block
      <4>1. b \in 0 .. block - 1 /\ history'[b] = history[b]
        BY <1>1, <3>2 DEF NextBlock, VotesInv
      <4> QED BY <4>1 DEF VotesInv, BooksSound
    <3> QED BY <3>1, <3>2
  <2> QED BY <1>5, <2>1, <2>2 DEF VotesInv, BooksSound, To, Ever
<1>7. ~tx.running /\ UNCHANGED <<storage, world, tx>>
  BY DEF NextBlock
<1> QED BY <1>1, <1>4, <1>6, <1>7 DEF VotesInv, storage, world,
            BatchGivesNoRights, SignaturesSound, BatchRecord

\* A delegation outside a batch.
LEMMA SingleKeepsVotes ==
  ASSUME VotesInv, ~tx.running, NEW delegator, NEW delegatee \in Holders,
         NEW p \in Punks, CanDelegate(delegator, delegatee, p),
         DelegateOne(delegatee, p), SignaturesSound(nonces', applied'),
         UNCHANGED <<block, tx, history>>
  PROVE  VotesInv'
<1>1. BooksSound(delegates', checkpoints')
  BY BlockType, DelegateOneKeepsBooks DEF VotesInv
<1>2. BooksSound(delegates, checkpoints)'
  BY <1>1 DEF BooksSound, To, Ever
<1>3. SignaturesSound(nonces, applied)'
  BY DEF SignaturesSound
<1> QED BY <1>2, <1>3 DEF VotesInv, BatchGivesNoRights, BatchRecord

\* The first step of a batch saves sound books and has changed nothing.
LEMMA BeginKeepsVotes ==
  ASSUME VotesInv, NEW delegator \in Accounts, NEW delegatee \in Holders,
         NEW punks \in Seq(Punks), tx' = Batch(delegator, delegatee, punks),
         SignaturesSound(nonces', applied'),
         UNCHANGED <<delegates, checkpoints, block, history>>
  PROVE  VotesInv'
<1>1. BooksSound(delegates, checkpoints)' /\ SignaturesSound(nonces, applied)'
  BY BooksStay DEF VotesInv, SignaturesSound
<1>2. /\ tx' \in BatchRecord
      /\ tx'.saved.delegates = delegates /\ tx'.saved.checkpoints = checkpoints
      /\ tx'.saved.nonces = nonces /\ tx'.saved.applied = applied
  BY DEF Batch, BatchRecord, VotesInv, BooksSound, SignaturesSound
<1>3. /\ BooksSound(tx.saved.delegates, tx.saved.checkpoints)'
      /\ SignaturesSound(tx.saved.nonces, tx.saved.applied)'
  BY <1>1, <1>2 DEF VotesInv, SignaturesSound
<1>4. BatchGivesNoRights'
  BY <1>2 DEF BatchGivesNoRights
<1> QED BY <1>1, <1>2, <1>3, <1>4 DEF VotesInv

LEMMA StepKeepsVotes ==
  ASSUME VotesInv, BatchStep
  PROVE  VotesInv'
<1> DEFINE p == Head(tx.rest)
<1>1. tx \in BatchRecord /\ tx.running
  BY DEF VotesInv, BatchStep, NoTx
<1>2. /\ tx.delegator \in Accounts /\ tx.delegatee \in Holders
      /\ tx.rest \in Seq(Punks) /\ p \in Punks /\ Tail(tx.rest) \in Seq(Punks)
  BY <1>1 DEF BatchRecord, BatchStep
<1>3. /\ tx' \in BatchRecord
      /\ tx'.saved = tx.saved /\ tx'.delegator = tx.delegator
  BY <1>1, <1>2 DEF BatchRecord, BatchStep
<1>4. BooksSound(delegates', checkpoints')
  BY <1>2, BlockType, DelegateOneKeepsBooks DEF VotesInv, BatchStep
<1>5. BooksSound(delegates, checkpoints)' /\ SignaturesSound(nonces, applied)'
  BY <1>4 DEF BatchStep, VotesInv, SignaturesSound, BooksSound, To, Ever
<1>6. /\ BooksSound(tx.saved.delegates, tx.saved.checkpoints)'
      /\ SignaturesSound(tx.saved.nonces, tx.saved.applied)'
  BY <1>1, <1>3 DEF BatchStep, VotesInv, SignaturesSound, BooksSound, To, Ever
<1>7. BatchGivesNoRights'
  <2> SUFFICES ASSUME NEW q \in Punks, delegates'[q] # tx.saved.delegates[q]
               PROVE  \/ tx.delegator = tx.saved.delegates[q]
                      \/ tx.delegator = owner[q]
                      \/ /\ owner[q] = WrappedPunk
                         /\ \/ tx.delegator = wrapped.owner[q]
                            \/ tx.delegator = wrapped.approved[q]
                            \/ <<wrapped.owner[q], tx.delegator>>
                                 \in wrapped.operators
    BY <1>3 DEF BatchGivesNoRights, BatchStep, world
  <2>1. CASE delegates[q] # tx.saved.delegates[q]
    BY <1>1, <2>1 DEF VotesInv, BatchGivesNoRights
  <2>2. CASE delegates[q] = tx.saved.delegates[q]
    <3>1. q = p
      BY <1>2, <2>2 DEF BatchStep, DelegateOne, VotesInv, BooksSound
    <3>2. Eligible(tx.delegator, q)
      BY <3>1 DEF BatchStep, CanDelegate
    <3> QED BY <2>2, <3>2 DEF Eligible
  <2> QED BY <2>1, <2>2
<1>8. block' = block /\ history' = history
  BY DEF BatchStep
<1> QED BY <1>3, <1>5, <1>6, <1>7, <1>8 DEF VotesInv

LEMMA RevertKeepsVotes ==
  ASSUME VotesInv, BatchReverts
  PROVE  VotesInv'
<1>1. tx' = NoTx /\ ~tx'.running
  BY DEF BatchReverts, NoTx
<1>2. BooksSound(delegates, checkpoints)' /\ SignaturesSound(nonces, applied)'
  BY DEF BatchReverts, VotesInv, SignaturesSound, BooksSound, To, Ever
<1> QED BY <1>1, <1>2 DEF VotesInv, BatchReverts, BatchGivesNoRights

LEMMA EndKeepsVotes ==
  ASSUME VotesInv, EndBatch
  PROVE  VotesInv'
<1>1. tx' = NoTx /\ ~tx'.running
  BY DEF EndBatch, NoTx
<1>2. BooksSound(delegates, checkpoints)' /\ SignaturesSound(nonces, applied)'
  BY BooksStay DEF EndBatch, storage, VotesInv, SignaturesSound
<1> QED BY <1>1, <1>2 DEF VotesInv, EndBatch, BatchGivesNoRights

LEMMA BatchesAreSequences ==
  ASSUME NEW punks \in Batches
  PROVE  punks \in Seq(Punks)
<1>1. PICK n \in 0 .. MaxBatch : punks \in [1 .. n -> Punks]
  BY DEF Batches
<1>2. n \in Nat
  BY CryptopunksVoteAssumption
<1> QED BY <1>1, <1>2

LEMMA VotesNext == VotesInv /\ [Next]_vars => VotesInv'
<1> SUFFICES ASSUME VotesInv, [Next]_vars PROVE VotesInv'
  OBVIOUS
<1>1. ASSUME NEW a \in Accounts, NEW d \in Holders, NEW p \in Punks,
             Delegate(a, d, p)
      PROVE  VotesInv'
  <2>1. SignaturesSound(nonces', applied')
    BY <1>1 DEF Delegate, VotesInv, SignaturesSound
  <2> QED BY <1>1, <2>1, SingleKeepsVotes DEF Delegate
<1>2. ASSUME NEW s \in Signatures, DelegateBySig(s)
      PROVE  VotesInv'
  <2>1. s.signer \in Accounts /\ s.delegatee \in Holders /\ s.punks[1] \in Punks
    BY <1>2, CryptopunksVoteAssumption DEF DelegateBySig, Holders
  <2>2. SignaturesSound(nonces', applied')
    BY <1>2, AcceptedOnce DEF DelegateBySig, VotesInv
  <2> QED BY <1>2, <2>1, <2>2, SingleKeepsVotes DEF DelegateBySig
<1>3. ASSUME NEW a \in Accounts, NEW d \in Holders, NEW ps \in Batches,
             BeginBatch(a, d, ps)
      PROVE  VotesInv'
  <2>1. SignaturesSound(nonces', applied')
    BY <1>3 DEF BeginBatch, storage, VotesInv, SignaturesSound
  <2> QED BY <1>3, <2>1, BatchesAreSequences, BeginKeepsVotes
          DEF BeginBatch, storage
<1>4. ASSUME NEW s \in Signatures, BeginBatchBySig(s)
      PROVE  VotesInv'
  <2>1. s.signer \in Accounts /\ s.delegatee \in Holders /\ s.punks \in Seq(Punks)
    BY CryptopunksVoteAssumption DEF Holders
  <2>2. SignaturesSound(nonces', applied')
    BY <1>4, AcceptedOnce DEF BeginBatchBySig, VotesInv
  <2> QED BY <1>4, <2>1, <2>2, BeginKeepsVotes DEF BeginBatchBySig
<1>5. CASE BatchStep
  BY <1>5, StepKeepsVotes
<1>6. CASE BatchReverts
  BY <1>6, RevertKeepsVotes
<1>7. CASE EndBatch
  BY <1>7, EndKeepsVotes
<1>8. CASE World
  BY <1>8, WorldKeepsVotes
     DEF World, TransferPunk, TransferWrapped, ApproveWrapped, SetOperator
<1>9. CASE NextBlock
  BY <1>9, BlockKeepsVotes
<1>10. CASE UNCHANGED vars
  <2>1. UNCHANGED <<delegates, checkpoints, nonces, applied, owner, wrapped,
                    block, tx, history>>
    BY <1>10 DEF vars, storage, world
  <2>2. BooksSound(delegates, checkpoints)'
    BY <2>1, BooksStay DEF VotesInv
  <2>3. tx.running => BooksSound(tx.saved.delegates, tx.saved.checkpoints)'
    BY <2>1 DEF VotesInv, BooksSound, To, Ever
  <2> QED BY <2>1, <2>2, <2>3
          DEF VotesInv, SignaturesSound, BatchGivesNoRights, BatchRecord
<1> QED BY <1>1, <1>2, <1>3, <1>4, <1>5, <1>6, <1>7, <1>8, <1>9, <1>10 DEF Next

LEMMA VotesHold == Spec => []VotesInv
BY VotesInit, VotesNext, PTL DEF Spec

-----------------------------------------------------------------------------
(* The theorems                                                            *)

\* Through single delegations, batches with repeated punks, reverted batches
\* and signatures, every delegate has one vote for each punk delegated to it,
\* the total counts each punk once, and checkpoints stay in block order.
THEOREM OGVotesAreExact == Spec => []VotesExact
<1>1. VotesInv => VotesExact
  <2> SUFFICES ASSUME VotesInv PROVE VotesExact
    OBVIOUS
  <2>1. TypeOK
    <3>1. tx.running = FALSE \/ tx.running = TRUE
      <4>1. CASE tx = NoTx
        BY <4>1 DEF NoTx
      <4>2. CASE tx \in BatchRecord
        BY <4>2 DEF BatchRecord
      <4> QED BY <4>1, <4>2 DEF VotesInv
    <3>2. delegates \in [Punks -> Holders] /\ checkpoints \in [Holders -> Seq(Checkpoint)]
      BY DEF VotesInv, BooksSound
    <3> QED BY <3>1, <3>2 DEF VotesInv, SignaturesSound, TypeOK
  <2>2. VotesMatchDelegations
    BY DEF VotesInv, BooksSound, VotesMatchDelegations, Votes, To, Ever,
           Delegated, EverDelegated
  <2>3. CheckpointsOrdered
    BY DEF VotesInv, BooksSound, CheckpointsOrdered
  <2> QED BY <2>1, <2>2, <2>3 DEF VotesExact
<1> QED BY <1>1, VotesHold, PTL

\* getPastVotes, binary search included, answers for every block that is
\* over with the votes that were there when that block ended.
THEOREM OGPastVotesKept == Spec => []PriorVotesAreHistory
<1>1. VotesInv => PriorVotesAreHistory
  <2> SUFFICES ASSUME VotesInv, NEW a \in Holders, NEW b \in 0 .. block - 1
               PROVE  PastVotes(a, b) = history[b][a]
    BY DEF PriorVotesAreHistory
  <2>1. checkpoints[a] \in Seq(Checkpoint) /\ b \in Nat
    BY DEF VotesInv, BooksSound
  <2>2. PriorVotes(checkpoints[a], b) = VotesAt(checkpoints[a], b)
    BY <2>1, PriorVotesIsVotesAt DEF VotesInv, BooksSound, Ordered
  <2> QED BY <2>2 DEF VotesInv, BooksSound, PastVotes
<1> QED BY <1>1, VotesHold, PTL

\* No signature takes effect twice, although single and batch signatures
\* share a nonce and a reverted batch gives its nonce back.
THEOREM OGSignaturesOnce == Spec => []SignaturesUsedOnce
<1>1. VotesInv => SignaturesUsedOnce
  BY DEF VotesInv, SignaturesSound, SignaturesUsedOnce
<1> QED BY <1>1, VotesHold, PTL

\* What a batch delegates was its sender's to delegate before it began.
THEOREM OGBatchRights == Spec => []BatchGivesNoRights
<1>1. VotesInv => BatchGivesNoRights
  BY DEF VotesInv
<1> QED BY <1>1, VotesHold, PTL
=============================================================================
