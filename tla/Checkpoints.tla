---------------------------- MODULE Checkpoints -----------------------------
(***************************************************************************)
(* The vote checkpoints that ERC721Checkpointable and CryptopunksVote keep *)
(* for every account: checkpoints[account][0 .. numCheckpoints - 1] is a   *)
(* sequence c whose length is numCheckpoints[account]; the code's index k  *)
(* is c[k + 1].                                                            *)
(***************************************************************************)
EXTENDS Integers, Sequences

Checkpoint == [fromBlock : Nat, votes : Nat]

\* getCurrentVotes / getVotes: the votes of the last checkpoint.
CurrentVotes(c) == IF c = <<>> THEN 0 ELSE c[Len(c)].votes

\* Variant: the last checkpoint is overwritten whatever its block.
AlwaysOverwrite(c, block, newVotes) ==
  IF c # <<>>
  THEN [c EXCEPT ![Len(c)].votes = newVotes]
  ELSE Append(c, [fromBlock |-> block, votes |-> newVotes])

\* _writeCheckpoint: one checkpoint per block, overwritten within the block.
WriteCheckpoint(c, block, newVotes) ==
  IF c # <<>> /\ c[Len(c)].fromBlock = block
  THEN [c EXCEPT ![Len(c)].votes = newVotes]
  ELSE Append(c, [fromBlock |-> block, votes |-> newVotes])

\* Variant: the middle is rounded the wrong way on the lower side.
SearchOffByOne(c, block) ==
  LET find[b \in (0 .. Len(c) - 1) \X (0 .. Len(c) - 1)] ==
        LET lower == b[1]
            upper == b[2]
            center == upper - (upper - lower) \div 2
        IN IF upper <= lower THEN c[lower + 1].votes
           ELSE IF c[center + 1].fromBlock < block THEN find[<<center, upper>>]
           ELSE find[<<lower, center - 1>>]
  IN find[<<0, Len(c) - 1>>]

\* The loop of getPriorVotes between lower and upper.
Search(c, block) ==
  LET find[b \in (0 .. Len(c) - 1) \X (0 .. Len(c) - 1)] ==
        LET lower == b[1]
            upper == b[2]
            center == upper - (upper - lower) \div 2
        IN IF upper <= lower THEN c[lower + 1].votes
           ELSE IF c[center + 1].fromBlock = block THEN c[center + 1].votes
           ELSE IF c[center + 1].fromBlock < block THEN find[<<center, upper>>]
           ELSE find[<<lower, center - 1>>]
  IN find[<<0, Len(c) - 1>>]

\* getPriorVotes, for a block that is over.
PriorVotes(c, block) ==
  IF c = <<>> THEN 0
  ELSE IF c[Len(c)].fromBlock <= block THEN c[Len(c)].votes
  ELSE IF c[1].fromBlock > block THEN 0
  ELSE Search(c, block)

\* Reference: the votes of the last checkpoint not after the block.
VotesAt(c, block) ==
  LET before == {i \in DOMAIN c : c[i].fromBlock <= block} IN
    IF before = {} THEN 0
    ELSE c[CHOOSE i \in before : \A j \in before : j <= i].votes

\* Checkpoints are in block order, one per block, none from the future.
Ordered(c, block) ==
  /\ \A i \in DOMAIN c : c[i].fromBlock <= block
  /\ \A i, j \in DOMAIN c : i < j => c[i].fromBlock < c[j].fromBlock
=============================================================================
