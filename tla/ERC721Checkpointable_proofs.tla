--------------------- MODULE ERC721Checkpointable_proofs --------------------
(***************************************************************************)
(* Proofs about the votes of the token, for any accounts, any finite set   *)
(* of punks, any signatures and any number of blocks.                      *)
(***************************************************************************)
EXTENDS ERC721Checkpointable, Checkpoints_proofs, FiniteSetTheorems

\* What keeps the past: checkpoints in block order whose votes at every past
\* block are the ones recorded when that block ended.
HistoryInv ==
  /\ TypeOK
  /\ history \in [0 .. MaxBlock -> [Address -> Nat]]
  /\ \A a \in Address : Ordered(checkpoints[a], block)
  /\ \A a \in Address, b \in 0 .. block - 1 :
       VotesAt(checkpoints[a], b) = history[b][a]

LEMMA BalanceType ==
  ASSUME NEW a
  PROVE  Balance(a) \in Nat
<1>1. IsFiniteSet({p \in Punks : owners[p] = a})
  BY FS_Subset, ERC721CheckpointableAssumption
<1> QED BY <1>1, FS_CardinalityType DEF Balance

LEMMA DelegatesType ==
  ASSUME TypeOK, NEW a \in Address
  PROVE  /\ Delegates(a) \in Address
         /\ a # Zero => Delegates(a) \in Accounts
BY ERC721CheckpointableAssumption DEF Delegates, TypeOK, Address

\* _moveDelegates changes the current votes of the two sides only, and the
\* votes of no block that is over.
LEMMA MovedVotes ==
  ASSUME TypeOK, \A a \in Address : Ordered(checkpoints[a], block),
         NEW src \in Address, NEW dst \in Address, NEW n \in Nat,
         CanMoveDelegates(src, dst, n)
  PROVE  LET m == Moved(src, dst, n) IN
           /\ m \in [Address -> Seq(Checkpoint)]
           /\ \A a \in Address :
                /\ Ordered(m[a], block)
                /\ \A b \in 0 .. block - 1 :
                     VotesAt(m[a], b) = VotesAt(checkpoints[a], b)
                /\ CurrentVotes(m[a]) =
                     IF a = Zero \/ src = dst \/ a \notin {src, dst}
                     THEN Votes(a)
                     ELSE IF a = dst THEN Votes(a) + n ELSE Votes(a) - n
<1> DEFINE m == Moved(src, dst, n)
<1>0. block \in Nat
  BY ERC721CheckpointableAssumption DEF TypeOK
<1>1. ASSUME NEW a \in Address
      PROVE  /\ m[a] \in Seq(Checkpoint)
             /\ Ordered(m[a], block)
             /\ \A b \in 0 .. block - 1 :
                  VotesAt(m[a], b) = VotesAt(checkpoints[a], b)
             /\ CurrentVotes(m[a]) =
                  IF a = Zero \/ src = dst \/ a \notin {src, dst}
                  THEN Votes(a)
                  ELSE IF a = dst THEN Votes(a) + n ELSE Votes(a) - n
  <2>1. checkpoints[a] \in Seq(Checkpoint) /\ Ordered(checkpoints[a], block)
    BY DEF TypeOK
  <2>2. Votes(a) \in Nat
    BY <2>1, CurrentVotesType DEF Votes
  <2>3. CASE a = Zero \/ src = dst \/ a \notin {src, dst} \/ n = 0
    <3>1. m[a] = checkpoints[a]
      BY <2>3 DEF Moved
    <3> QED BY <2>1, <2>2, <2>3, <3>1 DEF Votes
  <2>4. CASE ~(a = Zero \/ src = dst \/ a \notin {src, dst} \/ n = 0)
    <3> DEFINE v == IF a = dst THEN Votes(a) + n ELSE Votes(a) - n
    <3>1. v \in Nat
      BY <2>2, <2>4 DEF CanMoveDelegates
    <3>2. m[a] = WriteCheckpoint(checkpoints[a], block, v)
      BY <2>4 DEF Moved
    <3> HIDE DEF m, v
    <3>3. /\ m[a] \in Seq(Checkpoint)
          /\ Ordered(m[a], block)
          /\ CurrentVotes(m[a]) = v
          /\ \A b \in 0 .. block - 1 :
               VotesAt(m[a], b) = VotesAt(checkpoints[a], b)
      BY <1>0, <2>1, <3>1, <3>2, WriteKeepsThePast
    <3> QED BY <2>4, <3>3 DEF v
  <2> QED BY <2>3, <2>4
<1>2. m = [a \in Address |-> m[a]]
  BY DEF Moved
<1> HIDE DEF m
<1>3. m \in [Address -> Seq(Checkpoint)]
  BY <1>1, <1>2
<1> QED BY <1>1, <1>3 DEF m

\* What the two kinds of steps that move votes have in common.
LEMMA MovesKeepHistory ==
  ASSUME HistoryInv,
         NEW src \in Address, NEW dst \in Address, NEW n \in Nat,
         CanMoveDelegates(src, dst, n), checkpoints' = Moved(src, dst, n),
         owners' \in [Punks -> Address],
         delegatesOf' \in [Accounts -> Address],
         nonces' \in [Accounts -> Nat],
         UNCHANGED <<block, history>>
  PROVE  HistoryInv'
<1>1. LET m == checkpoints' IN
        /\ m \in [Address -> Seq(Checkpoint)]
        /\ \A a \in Address :
             /\ Ordered(m[a], block)
             /\ \A b \in 0 .. block - 1 :
                  VotesAt(m[a], b) = VotesAt(checkpoints[a], b)
  BY MovedVotes DEF HistoryInv
<1>2. TypeOK'
  BY <1>1 DEF HistoryInv, TypeOK
<1>3. \A a \in Address : Ordered(checkpoints[a], block)'
  BY <1>1
<1>4. \A a \in Address, b \in 0 .. block - 1 :
        VotesAt(checkpoints'[a], b) = history[b][a]
  BY <1>1 DEF HistoryInv
<1> QED BY <1>2, <1>3, <1>4 DEF HistoryInv

LEMMA HistoryInit == Init => HistoryInv
<1> SUFFICES ASSUME Init PROVE HistoryInv
  OBVIOUS
<1>1. TypeOK
  BY ERC721CheckpointableAssumption DEF Init, TypeOK, Address
<1>2. history \in [0 .. MaxBlock -> [Address -> Nat]]
  BY DEF Init
<1>3. \A a \in Address : Ordered(checkpoints[a], block)
  BY DEF Init, Ordered
<1>4. 0 .. block - 1 = {}
  BY DEF Init
<1> QED BY <1>1, <1>2, <1>3, <1>4 DEF HistoryInv

LEMMA TransferKeepsHistory ==
  ASSUME HistoryInv, NEW p \in Punks, NEW from \in Address,
         NEW to \in Address, TransferToken(p, from, to)
  PROVE  HistoryInv'
<1>1. Delegates(from) \in Address /\ Delegates(to) \in Address
  BY DelegatesType DEF HistoryInv
<1>2. /\ owners' \in [Punks -> Address]
      /\ delegatesOf' \in [Accounts -> Address]
      /\ nonces' \in [Accounts -> Nat]
  BY DEF TransferToken, HistoryInv, TypeOK
<1> QED BY <1>1, <1>2, MovesKeepHistory DEF TransferToken

LEMMA DelegateKeepsHistory ==
  ASSUME HistoryInv, NEW delegator \in Accounts, NEW delegatee \in Address,
         DelegateVotes(delegator, delegatee), nonces' \in [Accounts -> Nat]
  PROVE  HistoryInv'
<1>1. Delegates(delegator) \in Address
  BY DelegatesType DEF HistoryInv, Address
<1>2. /\ owners' \in [Punks -> Address]
      /\ delegatesOf' \in [Accounts -> Address]
  BY DEF DelegateVotes, HistoryInv, TypeOK
<1> QED BY <1>1, <1>2, BalanceType, MovesKeepHistory DEF DelegateVotes

LEMMA BlockKeepsHistory ==
  ASSUME HistoryInv, NextBlock
  PROVE  HistoryInv'
<1>1. /\ block \in Nat /\ block' = block + 1 /\ block \in 0 .. MaxBlock
      /\ block' \in 0 .. MaxBlock
  BY ERC721CheckpointableAssumption DEF NextBlock, HistoryInv, TypeOK
<1>2. \A a \in Address : checkpoints[a] \in Seq(Checkpoint)
  BY DEF HistoryInv, TypeOK
<1>3. TypeOK'
  BY <1>1 DEF NextBlock, HistoryInv, TypeOK
<1>4. [a \in Address |-> Votes(a)] \in [Address -> Nat]
  BY <1>2, CurrentVotesType DEF Votes
<1>5. history' \in [0 .. MaxBlock -> [Address -> Nat]]
  BY <1>1, <1>4 DEF NextBlock, HistoryInv
<1>6. ASSUME NEW a \in Address PROVE Ordered(checkpoints'[a], block')
  BY <1>1, <1>2, CheckpointType DEF NextBlock, HistoryInv, Ordered
<1>7. ASSUME NEW a \in Address, NEW b \in 0 .. block' - 1
      PROVE  VotesAt(checkpoints'[a], b) = history'[b][a]
  <2>1. CASE b = block
    <3>1. history'[b][a] = Votes(a)
      BY <1>1, <2>1 DEF NextBlock, HistoryInv
    <3> QED BY <1>1, <1>2, <2>1, <3>1, VotesAtNow
            DEF NextBlock, HistoryInv, Votes
  <2>2. CASE b # block
    <3>1. b \in 0 .. block - 1 /\ history'[b] = history[b]
      BY <1>1, <2>2 DEF NextBlock, HistoryInv
    <3> QED BY <3>1 DEF NextBlock, HistoryInv
  <2> QED BY <2>1, <2>2
<1> QED BY <1>3, <1>5, <1>6, <1>7 DEF HistoryInv

LEMMA HistoryNext == HistoryInv /\ [Next]_vars => HistoryInv'
<1> SUFFICES ASSUME HistoryInv, [Next]_vars PROVE HistoryInv'
  OBVIOUS
<1>1. ASSUME NEW p \in Punks, NEW from \in Address, NEW to \in Address,
             TransferToken(p, from, to)
      PROVE  HistoryInv'
  BY <1>1, TransferKeepsHistory
<1>2. ASSUME NEW a \in Accounts, NEW d \in Address, Delegate(a, d)
      PROVE  HistoryInv'
  <2>1. (IF d = Zero THEN a ELSE d) \in Address
    BY DEF Address
  <2>2. nonces' \in [Accounts -> Nat]
    BY <1>2 DEF Delegate, HistoryInv, TypeOK
  <2> QED BY <1>2, <2>1, <2>2, DelegateKeepsHistory DEF Delegate
<1>3. ASSUME NEW s \in Signatures, DelegateBySig(s)
      PROVE  HistoryInv'
  <2>1. s.signer \in Accounts /\ s.delegatee \in Address
    BY ERC721CheckpointableAssumption DEF Address
  <2>2. nonces' \in [Accounts -> Nat]
    BY <1>3, <2>1 DEF DelegateBySig, HistoryInv, TypeOK
  <2> QED BY <1>3, <2>1, <2>2, DelegateKeepsHistory DEF DelegateBySig
<1>4. CASE NextBlock
  BY <1>4, BlockKeepsHistory
<1>5. CASE UNCHANGED vars
  BY <1>5 DEF vars, HistoryInv, TypeOK
<1> QED BY <1>1, <1>2, <1>3, <1>4, <1>5 DEF Next

LEMMA HistoryHolds == Spec => []HistoryInv
BY HistoryInit, HistoryNext, PTL DEF Spec

\* getPriorVotes, binary search included, answers for every block that is
\* over with the votes that the account had when that block ended, whatever
\* was minted, moved, burned or delegated since.
THEOREM PastVotesKept == Spec => []PriorVotesAreHistory
<1>1. HistoryInv => PriorVotesAreHistory
  <2> SUFFICES ASSUME HistoryInv, NEW a \in Address, NEW b \in 0 .. block - 1
               PROVE  PriorVotes(checkpoints[a], b) = history[b][a]
    BY DEF PriorVotesAreHistory
  <2>1. checkpoints[a] \in Seq(Checkpoint) /\ b \in Nat
    BY DEF HistoryInv, TypeOK
  <2>2. PriorVotes(checkpoints[a], b) = VotesAt(checkpoints[a], b)
    BY <2>1, PriorVotesIsVotesAt DEF HistoryInv, Ordered
  <2> QED BY <2>2 DEF HistoryInv
<1> QED BY <1>1, HistoryHolds, PTL

-----------------------------------------------------------------------------
(* The count of votes.  A signature for the zero address breaks it (run    *)
(* token_votes_by_sig), so that it is proved without such signatures.      *)

VotesInv == HistoryInv /\ VotesMatchHoldings /\ ZeroHasNoVotes

LEMMA RepresentsFinite ==
  ASSUME NEW a
  PROVE  /\ IsFiniteSet(Represents(a))
         /\ Cardinality(Represents(a)) \in Nat
<1>1. Represents(a) \in SUBSET Punks
  BY DEF Represents
<1> QED BY <1>1, FS_Subset, FS_CardinalityType, ERC721CheckpointableAssumption

\* A punk goes from one owner to another: one vote goes with it, unless both
\* have the same delegate.
LEMMA TransferKeepsVotes ==
  ASSUME VotesInv, NEW p \in Punks, NEW from \in Address, NEW to \in Address,
         from # Zero \/ to # Zero, TransferToken(p, from, to)
  PROVE  VotesMatchHoldings'
<1> DEFINE src == Delegates(from)
           dst == Delegates(to)
<1>0. TypeOK
  BY DEF VotesInv, HistoryInv
<1>1. /\ src \in Address /\ (from # Zero => src \in Accounts)
      /\ dst \in Address /\ (to # Zero => dst \in Accounts)
      /\ (from = Zero => src = Zero) /\ (to = Zero => dst = Zero)
      /\ Zero \notin Accounts
  BY <1>0, DelegatesType, ERC721CheckpointableAssumption DEF Delegates
<1>2. \A x \in Address : Delegates(x)' = Delegates(x)
  BY DEF Delegates, TransferToken
<1>3. /\ owners[p] = from /\ owners'[p] = to
      /\ \A q \in Punks : q # p => owners'[q] = owners[q]
      /\ \A q \in Punks : owners[q] \in Address /\ owners'[q] \in Address
  BY <1>0 DEF TransferToken, TypeOK
<1> SUFFICES ASSUME NEW a \in Accounts
             PROVE  Votes(a)' = Cardinality(Represents(a)')
  BY DEF VotesMatchHoldings
<1>4. /\ Votes(a) = Cardinality(Represents(a))
      /\ IsFiniteSet(Represents(a)) /\ Cardinality(Represents(a)) \in Nat
  BY RepresentsFinite DEF VotesInv, VotesMatchHoldings
<1>5. Votes(a)' = IF src = dst \/ a \notin {src, dst} THEN Votes(a)
                  ELSE IF a = dst THEN Votes(a) + 1 ELSE Votes(a) - 1
  <2>1. a \in Address /\ a # Zero
    BY <1>1 DEF Address
  <2>2. CurrentVotes(checkpoints'[a]) =
          IF a = Zero \/ src = dst \/ a \notin {src, dst} THEN Votes(a)
          ELSE IF a = dst THEN Votes(a) + 1 ELSE Votes(a) - 1
    BY <1>1, <2>1, MovedVotes DEF TransferToken, VotesInv, HistoryInv
  <2> QED BY <2>1, <2>2 DEF Votes
<1>6. \A q \in Punks : q # p => (q \in Represents(a)' <=> q \in Represents(a))
  BY <1>2, <1>3 DEF Represents
<1>7. /\ p \in Represents(a) <=> from # Zero /\ src = a
      /\ p \in Represents(a)' <=> to # Zero /\ dst = a
  BY <1>2, <1>3 DEF Represents
<1>8. Represents(a) \subseteq Punks /\ Represents(a)' \subseteq Punks
  BY DEF Represents
<1>9. CASE src = dst \/ a \notin {src, dst}
  <2>1. Represents(a)' = Represents(a)
    BY <1>1, <1>6, <1>7, <1>8, <1>9
  <2> QED BY <1>4, <1>5, <1>9, <2>1
<1>10. CASE src # dst /\ a = dst
  <2>1. Represents(a)' = Represents(a) \cup {p} /\ p \notin Represents(a)
    BY <1>1, <1>6, <1>7, <1>8, <1>10
  <2> QED BY <1>4, <1>5, <1>10, <2>1, FS_AddElement, SMTT(30)
<1>11. CASE src # dst /\ a = src
  <2>1. Represents(a)' = Represents(a) \ {p} /\ p \in Represents(a)
    BY <1>1, <1>6, <1>7, <1>8, <1>11
  <2> QED BY <1>4, <1>5, <1>11, <2>1, FS_RemoveElement, ZenonT(60)
<1> QED BY <1>9, <1>10, <1>11

\* A delegation: all punks of the delegator change their representative.
LEMMA DelegateKeepsVotes ==
  ASSUME VotesInv, NEW delegator \in Accounts, NEW delegatee \in Accounts,
         DelegateVotes(delegator, delegatee)
  PROVE  VotesMatchHoldings'
<1> DEFINE old == Delegates(delegator)
           held == {p \in Punks : owners[p] = delegator}
           n == Balance(delegator)
<1>0. TypeOK
  BY DEF VotesInv, HistoryInv
<1>1. /\ old \in Accounts /\ old \in Address /\ delegatee \in Address
      /\ delegator # Zero /\ delegatee # Zero /\ Zero \notin Accounts
      /\ delegator \in Address
  BY <1>0, DelegatesType, ERC721CheckpointableAssumption DEF Address
<1>2. /\ \A x \in Address : x # delegator => Delegates(x)' = Delegates(x)
      /\ Delegates(delegator)' = delegatee
      /\ owners' = owners
  BY <1>0, <1>1 DEF Delegates, DelegateVotes, TypeOK, Address
<1>3. \A q \in Punks : owners[q] \in Address
  BY <1>0 DEF TypeOK
<1>4. n \in Nat /\ n = Cardinality(held) /\ IsFiniteSet(held)
  <2>1. IsFiniteSet(held)
    BY FS_Subset, ERC721CheckpointableAssumption
  <2> QED BY <2>1, BalanceType DEF Balance
<1> SUFFICES ASSUME NEW a \in Accounts
             PROVE  Votes(a)' = Cardinality(Represents(a)')
  BY DEF VotesMatchHoldings
<1>5. /\ Votes(a) = Cardinality(Represents(a))
      /\ IsFiniteSet(Represents(a)) /\ Cardinality(Represents(a)) \in Nat
  BY RepresentsFinite DEF VotesInv, VotesMatchHoldings
<1>6. Votes(a)' = IF old = delegatee \/ a \notin {old, delegatee} THEN Votes(a)
                  ELSE IF a = delegatee THEN Votes(a) + n ELSE Votes(a) - n
  <2>1. a \in Address /\ a # Zero
    BY <1>1 DEF Address
  <2>2. CurrentVotes(checkpoints'[a]) =
          IF a = Zero \/ old = delegatee \/ a \notin {old, delegatee}
          THEN Votes(a)
          ELSE IF a = delegatee THEN Votes(a) + n ELSE Votes(a) - n
    BY <1>1, <1>4, <2>1, MovedVotes DEF DelegateVotes, VotesInv, HistoryInv
  <2> QED BY <2>1, <2>2 DEF Votes
<1>7. \A q \in Punks : q \notin held =>
        (q \in Represents(a)' <=> q \in Represents(a))
  BY <1>1, <1>2, <1>3 DEF Represents
<1>8. \A q \in held : /\ q \in Punks
                      /\ q \in Represents(a) <=> old = a
                      /\ q \in Represents(a)' <=> delegatee = a
  BY <1>1, <1>2, <1>3 DEF Represents
<1>9. Represents(a) \subseteq Punks /\ Represents(a)' \subseteq Punks
  BY DEF Represents
<1> HIDE DEF held
<1>10. CASE old = delegatee \/ a \notin {old, delegatee}
  <2>1. Represents(a)' = Represents(a)
    BY <1>7, <1>8, <1>9, <1>10
  <2> QED BY <1>5, <1>6, <1>10, <2>1
<1>11. CASE old # delegatee /\ a = delegatee
  <2>1. Represents(a)' = Represents(a) \cup held /\ Represents(a) \cap held = {}
    BY <1>7, <1>8, <1>9, <1>11
  <2>2. Cardinality(Represents(a)') = Cardinality(Represents(a)) + n
    <3>1. Cardinality(Represents(a) \cup held) = Cardinality(Represents(a))
            + Cardinality(held) - Cardinality(Represents(a) \cap held)
      BY <1>4, <1>5, FS_Union
    <3>2. Cardinality(Represents(a) \cap held) = 0
      BY <2>1, FS_EmptySet
    <3> QED BY <1>4, <1>5, <2>1, <3>1, <3>2
  <2> QED BY <1>5, <1>6, <1>11, <2>2
<1>12. CASE old # delegatee /\ a = old
  <2>1. Represents(a)' = Represents(a) \ held /\ Represents(a) \cap held = held
    BY <1>7, <1>8, <1>9, <1>12
  <2>2. Cardinality(Represents(a)') = Cardinality(Represents(a)) - n
    <3>1. Cardinality(Represents(a) \ held) = Cardinality(Represents(a))
            - Cardinality(Represents(a) \cap held)
      BY <1>5, FS_Difference
    <3> QED BY <1>4, <2>1, <3>1
  <2> QED BY <1>5, <1>6, <1>12, <2>2
<1> QED BY <1>10, <1>11, <1>12

\* The zero address is skipped on both sides of a move.
LEMMA MoveSkipsZero ==
  ASSUME ZeroHasNoVotes, NEW src, NEW dst, NEW n,
         checkpoints' = Moved(src, dst, n)
  PROVE  ZeroHasNoVotes'
BY DEF ZeroHasNoVotes, Moved, Address

LEMMA VotesInit == Init => VotesInv
<1> SUFFICES ASSUME Init PROVE VotesInv
  OBVIOUS
<1>1. ASSUME NEW a \in Accounts PROVE Votes(a) = Cardinality(Represents(a))
  <2>1. Represents(a) = {}
    BY DEF Represents, Init
  <2>2. Votes(a) = 0
    BY <1>1 DEF Votes, CurrentVotes, Init, Address
  <2> QED BY <2>1, <2>2, FS_EmptySet
<1>2. ZeroHasNoVotes
  BY DEF ZeroHasNoVotes, Init, Address
<1> QED BY <1>1, <1>2, HistoryInit DEF VotesInv, VotesMatchHoldings

LEMMA VotesNext ==
  ASSUME \A s \in Signatures : s.delegatee # Zero
  PROVE  VotesInv /\ [Next]_vars => VotesInv'
<1> SUFFICES ASSUME VotesInv, [Next]_vars PROVE VotesInv'
  OBVIOUS
<1>0. HistoryInv'
  BY HistoryNext DEF VotesInv
<1> SUFFICES VotesMatchHoldings' /\ ZeroHasNoVotes'
  BY <1>0 DEF VotesInv
<1>1. ASSUME NEW p \in Punks, NEW from \in Address, NEW to \in Address,
             from # Zero \/ to # Zero, TransferToken(p, from, to)
      PROVE  VotesMatchHoldings' /\ ZeroHasNoVotes'
  BY <1>1, TransferKeepsVotes, MoveSkipsZero DEF VotesInv, TransferToken
<1>2. ASSUME NEW a \in Accounts, NEW d \in Accounts, DelegateVotes(a, d)
      PROVE  VotesMatchHoldings' /\ ZeroHasNoVotes'
  BY <1>2, DelegateKeepsVotes, MoveSkipsZero DEF VotesInv, DelegateVotes
<1>3. ASSUME NEW a \in Accounts, NEW d \in Address, Delegate(a, d)
      PROVE  VotesMatchHoldings' /\ ZeroHasNoVotes'
  <2>1. (IF d = Zero THEN a ELSE d) \in Accounts
    BY DEF Address
  <2> QED BY <1>2, <1>3, <2>1 DEF Delegate
<1>4. ASSUME NEW s \in Signatures, DelegateBySig(s)
      PROVE  VotesMatchHoldings' /\ ZeroHasNoVotes'
  <2>1. s.signer \in Accounts /\ s.delegatee \in Accounts
    BY ERC721CheckpointableAssumption
  <2> QED BY <1>2, <1>4, <2>1 DEF DelegateBySig
<1>5. ASSUME UNCHANGED <<owners, delegatesOf, checkpoints>>
      PROVE  VotesMatchHoldings' /\ ZeroHasNoVotes'
  <2>1. \A a : Delegates(a)' = Delegates(a)
    BY <1>5 DEF Delegates
  <2>2. \A a : Represents(a)' = Represents(a)
    BY <1>5, <2>1 DEF Represents
  <2>3. \A a : Votes(a)' = Votes(a)
    BY <1>5 DEF Votes
  <2> QED BY <1>5, <2>2, <2>3 DEF VotesInv, VotesMatchHoldings, ZeroHasNoVotes
<1>6. CASE NextBlock
  BY <1>5, <1>6 DEF NextBlock
<1>7. CASE UNCHANGED vars
  BY <1>5, <1>7 DEF vars
<1> QED BY <1>1, <1>3, <1>4, <1>6, <1>7 DEF Next

\* With exact counts no subtraction of votes can fail.
LEMMA ExactVotesSuffice ==
  ASSUME VotesInv
  PROVE  MovesNeverUnderflow
<1>0. TypeOK
  BY DEF VotesInv, HistoryInv
<1>1. ASSUME NEW p \in Punks, NEW to \in Address, owners[p] # Zero
      PROVE  CanMoveDelegates(Delegates(owners[p]), Delegates(to), 1)
  <2> DEFINE d == Delegates(owners[p])
  <2>1. owners[p] \in Address /\ d \in Accounts
    BY <1>0, <1>1, DelegatesType DEF TypeOK
  <2>2. p \in Represents(d)
    BY <1>1 DEF Represents
  <2>3. Cardinality(Represents(d)) \in Nat /\ Cardinality(Represents(d)) # 0
    BY <2>2, RepresentsFinite, FS_EmptySet
  <2>4. Votes(d) >= 1
    BY <2>1, <2>3 DEF VotesInv, VotesMatchHoldings
  <2> QED BY <2>4 DEF CanMoveDelegates
<1>2. ASSUME NEW a \in Accounts, NEW d \in Address
      PROVE  CanMoveDelegates(Delegates(a), d, Balance(a))
  <2> DEFINE old == Delegates(a)
             held == {p \in Punks : owners[p] = a}
  <2>1. old \in Accounts /\ a # Zero
    BY <1>0, DelegatesType, ERC721CheckpointableAssumption DEF Address
  <2>2. held \in SUBSET Represents(old)
    BY <2>1 DEF Represents
  <2>3. Cardinality(held) <= Cardinality(Represents(old))
    BY <2>2, RepresentsFinite, FS_Subset
  <2>4. Votes(old) >= Balance(a)
    <3>1. Votes(old) = Cardinality(Represents(old)) /\ Balance(a) = Cardinality(held)
      BY <2>1 DEF VotesInv, VotesMatchHoldings, Balance
    <3>2. Cardinality(Represents(old)) \in Nat /\ Balance(a) \in Nat
      BY RepresentsFinite, BalanceType
    <3> HIDE DEF held, old
    <3> QED BY <2>3, <3>1, <3>2
  <2> QED BY <2>4 DEF CanMoveDelegates
<1> QED BY <1>1, <1>2 DEF MovesNeverUnderflow

\* Without signatures that name the zero address, after any sequence of
\* mints, transfers, burns and delegations every account has one vote for
\* each punk it represents, the zero address has none, and no transfer or
\* delegation is blocked by a subtraction.
THEOREM VotesAreExact ==
  ASSUME \A s \in Signatures : s.delegatee # Zero
  PROVE  Spec => []VotesExact
<1>1. Spec => []VotesInv
  BY VotesInit, VotesNext, PTL DEF Spec
<1>2. VotesInv => VotesExact
  BY ExactVotesSuffice DEF VotesInv, HistoryInv, VotesExact
<1> QED BY <1>1, <1>2, PTL
=============================================================================
