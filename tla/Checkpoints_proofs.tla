------------------------- MODULE Checkpoints_proofs -------------------------
(***************************************************************************)
(* What the checkpoint functions of both vote contracts compute, for lists *)
(* of any length.  Statements about all lengths are proved by looking at a *)
(* smallest counterexample (LeastNat).                                     *)
(***************************************************************************)
EXTENDS Checkpoints, WellFoundedInduction, TLAPS

\* A non-empty set of naturals has a least element.
LEMMA LeastNat ==
  ASSUME NEW T \in SUBSET Nat, T # {}
  PROVE  \E x \in T : \A y \in T : x <= y
<1> DEFINE R == {ss \in Nat \X Nat : ss[1] < ss[2]}
<1>1. IsWellFoundedOn(R, Nat)
  BY NatLessThanWellFounded, Zenon DEF OpToRel
<1> HIDE DEF R
<1>2. PICK x \in T : \A y \in T : <<y, x>> \notin R
  BY <1>1, WFMin, Zenon
<1>3. \A y, z \in Nat : y < z => <<y, z>> \in R
  BY DEF R
<1>4. ASSUME NEW y \in T PROVE x <= y
  <2>1. ~(y < x)
    BY <1>2, <1>3
  <2> QED BY <2>1
<1> QED BY <1>4

\* A non-empty set of naturals with an upper bound has a greatest element.
LEMMA GreatestNat ==
  ASSUME NEW T \in SUBSET Nat, T # {}, NEW n \in Nat, \A x \in T : x <= n
  PROVE  \E x \in T : \A y \in T : y <= x
<1> DEFINE U == {m \in Nat : \A x \in T : x <= m}
<1>1. PICK m \in U : \A k \in U : m <= k
  <2>1. U \in SUBSET Nat /\ U # {}
    OBVIOUS
  <2> HIDE DEF U
  <2> QED BY <2>1, LeastNat
<1>2. m \in T
  <2> SUFFICES ASSUME m \notin T PROVE FALSE
    OBVIOUS
  <2>1. PICK x \in T : TRUE
    OBVIOUS
  <2>2. m > 0 /\ m - 1 \in Nat
    BY <1>1, <2>1
  <2>3. m - 1 \in U
    BY <1>1, <2>2
  <2> QED BY <1>1, <2>2, <2>3
<1> QED BY <1>1, <1>2

-----------------------------------------------------------------------------
(* The binary search                                                       *)

\* Index i (from 0, as in the code) is what a search between lower and upper
\* must find: the last checkpoint not after the block, or lower if none is.
Found(c, block, i, lower, upper) ==
  /\ i \in lower .. upper
  /\ i = lower \/ c[i + 1].fromBlock <= block
  /\ \A j \in i + 1 .. upper : c[j + 1].fromBlock > block

LEMMA FoundExists ==
  ASSUME NEW c \in Seq(Checkpoint), NEW block \in Nat,
         NEW lower \in 0 .. Len(c) - 1, NEW upper \in 0 .. Len(c) - 1,
         lower <= upper
  PROVE  \E i \in lower .. upper : Found(c, block, i, lower, upper)
<1> DEFINE T == {i \in lower .. upper :
                   i = lower \/ c[i + 1].fromBlock <= block}
<1>1. /\ T \in SUBSET Nat
      /\ T # {}
      /\ upper \in Nat
      /\ \A x \in T : x <= upper
  OBVIOUS
<1>2. PICK i \in T : \A j \in T : j <= i
  <2> HIDE DEF T
  <2> QED BY <1>1, GreatestNat
<1>3. ASSUME NEW j \in i + 1 .. upper PROVE c[j + 1].fromBlock > block
  <2>1. j \in lower .. upper /\ j \notin T /\ j # lower
    BY <1>2
  <2>2. c[j + 1] \in Checkpoint
    BY <2>1
  <2> QED BY <2>1, <2>2, SMTT(30) DEF Checkpoint
<1> QED BY <1>2, <1>3 DEF Found

LEMMA FoundUnique ==
  ASSUME NEW c \in Seq(Checkpoint), NEW block \in Nat,
         NEW lower \in 0 .. Len(c) - 1, NEW upper \in 0 .. Len(c) - 1,
         NEW i, Found(c, block, i, lower, upper),
         NEW j, Found(c, block, j, lower, upper)
  PROVE  i = j
<1>1. i \in Nat /\ j \in Nat /\ i \in lower .. upper /\ j \in lower .. upper
  BY DEF Found
<1>2. c[i + 1] \in Checkpoint /\ c[j + 1] \in Checkpoint
  BY <1>1
<1>3. CASE i < j
  <2>1. c[j + 1].fromBlock <= block /\ c[j + 1].fromBlock > block
    BY <1>1, <1>3 DEF Found
  <2> QED BY <1>2, <2>1 DEF Checkpoint
<1>4. CASE j < i
  <2>1. c[i + 1].fromBlock <= block /\ c[i + 1].fromBlock > block
    BY <1>1, <1>4 DEF Found
  <2> QED BY <1>2, <2>1 DEF Checkpoint
<1> QED BY <1>1, <1>3, <1>4

\* The centre of the code is above lower, so that both halves are smaller.
Center(lower, upper) == upper - (upper - lower) \div 2

LEMMA CenterBetween ==
  ASSUME NEW lower \in Nat, NEW upper \in Nat, lower < upper
  PROVE  /\ Center(lower, upper) \in Nat
         /\ lower < Center(lower, upper)
         /\ Center(lower, upper) <= upper
         /\ Center(lower, upper) - 1 \in Nat
BY DEF Center

\* One turn of the loop keeps what is to be found.
LEMMA FoundInHalf ==
  ASSUME NEW c \in Seq(Checkpoint), NEW block \in Nat,
         \A i, j \in DOMAIN c : i < j => c[i].fromBlock < c[j].fromBlock,
         NEW lower \in 0 .. Len(c) - 1, NEW upper \in 0 .. Len(c) - 1,
         NEW center, lower < center, center <= upper, center \in Nat,
         NEW i
  PROVE  /\ c[center + 1].fromBlock = block
           => Found(c, block, center, lower, upper)
         /\ c[center + 1].fromBlock < block /\ Found(c, block, i, center, upper)
           => Found(c, block, i, lower, upper)
         /\ c[center + 1].fromBlock > block
              /\ Found(c, block, i, lower, center - 1)
           => Found(c, block, i, lower, upper)
<1>1. \A j \in 0 .. Len(c) - 1 : j + 1 \in DOMAIN c /\ c[j + 1].fromBlock \in Nat
  <2> TAKE j \in 0 .. Len(c) - 1
  <2>1. c[j + 1] \in Checkpoint
    OBVIOUS
  <2> QED BY <2>1 DEF Checkpoint
<1>2. \A j \in center + 1 .. upper :
        /\ j \in Nat
        /\ c[center + 1].fromBlock < c[j + 1].fromBlock
        /\ c[j + 1].fromBlock \in Nat
  BY <1>1
<1>3. center \in 0 .. Len(c) - 1
  OBVIOUS
<1>4. ASSUME c[center + 1].fromBlock = block
      PROVE  Found(c, block, center, lower, upper)
  BY <1>1, <1>2, <1>3, <1>4 DEF Found
<1>5. ASSUME c[center + 1].fromBlock < block, Found(c, block, i, center, upper)
      PROVE  Found(c, block, i, lower, upper)
  BY <1>1, <1>3, <1>5 DEF Found
<1>6. ASSUME c[center + 1].fromBlock > block,
             Found(c, block, i, lower, center - 1)
      PROVE  Found(c, block, i, lower, upper)
  <2>1. ASSUME NEW j \in i + 1 .. upper PROVE c[j + 1].fromBlock > block
    <3>1. i \in Nat /\ j \in Nat /\ block \in Nat
      BY <1>6 DEF Found
    <3>2. CASE j <= center - 1
      BY <1>6, <3>1, <3>2 DEF Found
    <3>3. CASE j = center
      BY <1>6, <3>3
    <3>4. CASE j > center
      <4>1. /\ c[center + 1].fromBlock < c[j + 1].fromBlock
            /\ c[j + 1].fromBlock \in Nat
            /\ c[center + 1].fromBlock \in Nat
        BY <1>1, <1>2, <1>3, <3>1, <3>4
      <4> QED BY <1>6, <4>1, <3>1, SMTT(30)
    <3> QED BY <3>1, <3>2, <3>3, <3>4
  <2> QED BY <1>6, <2>1 DEF Found
<1> QED BY <1>4, <1>5, <1>6

\* The equation of the recursive function in Search.
Bounds(c) == (0 .. Len(c) - 1) \X (0 .. Len(c) - 1)

Turn(c, block, find, b) ==
  LET center == Center(b[1], b[2]) IN
    IF b[2] <= b[1] THEN c[b[1] + 1].votes
    ELSE IF c[center + 1].fromBlock = block THEN c[center + 1].votes
    ELSE IF c[center + 1].fromBlock < block THEN find[<<center, b[2]>>]
    ELSE find[<<b[1], center - 1>>]

Solves(c, block, find) ==
  find = [b \in Bounds(c) |-> Turn(c, block, find, b)]

\* v is the right answer between the bounds b.
Right(c, block, b, v) ==
  IF b[2] <= b[1] THEN v = c[b[1] + 1].votes
  ELSE \E i \in b[1] .. b[2] :
         Found(c, block, i, b[1], b[2]) /\ v = c[i + 1].votes

LEMMA RightIsFound ==
  ASSUME NEW c, NEW block, NEW lower \in Nat, NEW upper \in Nat,
         lower <= upper, NEW v, Right(c, block, <<lower, upper>>, v)
  PROVE  \E i \in lower .. upper :
           Found(c, block, i, lower, upper) /\ v = c[i + 1].votes
<1>1. CASE lower = upper
  <2>1. v = c[lower + 1].votes
    BY <1>1 DEF Right
  <2>2. Found(c, block, lower, lower, upper)
    BY <1>1 DEF Found
  <2> QED BY <1>1, <2>1, <2>2
<1>2. CASE lower < upper
  BY <1>2 DEF Right
<1> QED BY <1>1, <1>2

LEMMA RightIsUnique ==
  ASSUME NEW c \in Seq(Checkpoint), NEW block \in Nat, NEW b \in Bounds(c),
         NEW v, Right(c, block, b, v), NEW w, Right(c, block, b, w)
  PROVE  v = w
<1>1. b[1] \in 0 .. Len(c) - 1 /\ b[2] \in 0 .. Len(c) - 1
  BY DEF Bounds
<1> QED BY <1>1, FoundUnique DEF Right

LEMMA RightExists ==
  ASSUME NEW c \in Seq(Checkpoint), NEW block \in Nat, NEW b \in Bounds(c)
  PROVE  \E v : Right(c, block, b, v)
<1>1. b[1] \in 0 .. Len(c) - 1 /\ b[2] \in 0 .. Len(c) - 1
  BY DEF Bounds
<1>2. CASE b[2] <= b[1]
  BY <1>2 DEF Right
<1>3. CASE ~(b[2] <= b[1])
  <2>0. b[1] <= b[2]
    BY <1>1, <1>3
  <2>1. PICK i \in b[1] .. b[2] : Found(c, block, i, b[1], b[2])
    BY <1>1, <2>0, FoundExists
  <2>2. Right(c, block, b, c[i + 1].votes)
    BY <1>3, <2>1 DEF Right
  <2> QED BY <2>2
<1> QED BY <1>2, <1>3

\* If the search is right between all closer bounds, so is this turn.
LEMMA TurnIsRight ==
  ASSUME NEW c \in Seq(Checkpoint), NEW block \in Nat,
         \A i, j \in DOMAIN c : i < j => c[i].fromBlock < c[j].fromBlock,
         NEW find, NEW b \in Bounds(c),
         \A d \in Bounds(c) :
           d[1] <= d[2] /\ d[2] - d[1] < b[2] - b[1] =>
             Right(c, block, d, find[d])
  PROVE  Right(c, block, b, Turn(c, block, find, b))
<1> DEFINE lower == b[1]
           upper == b[2]
           center == Center(lower, upper)
<1>1. lower \in 0 .. Len(c) - 1 /\ upper \in 0 .. Len(c) - 1
  BY DEF Bounds
<1>2. CASE upper <= lower
  BY <1>2 DEF Right, Turn
<1>3. CASE ~(upper <= lower)
  <2>0. lower \in Nat /\ upper \in Nat /\ lower < upper
    BY <1>1, <1>3
  <2>1. /\ center \in Nat /\ center - 1 \in Nat
        /\ lower < center /\ center <= upper
    BY <2>0, CenterBetween
  <2>2. c[center + 1].fromBlock \in Nat
    <3>1. c[center + 1] \in Checkpoint
      BY <1>1, <2>1
    <3> QED BY <3>1 DEF Checkpoint
  <2> HIDE DEF center
  <2>3. CASE c[center + 1].fromBlock = block
    <3>1. Found(c, block, center, lower, upper)
      BY <1>1, <2>1, <2>3, FoundInHalf
    <3>2. Turn(c, block, find, b) = c[center + 1].votes
      BY <1>3, <2>3 DEF Turn, center
    <3> QED BY <1>1, <1>3, <2>1, <3>1, <3>2 DEF Right
  <2>4. CASE c[center + 1].fromBlock < block
    <3>1. <<center, upper>> \in Bounds(c)
      BY <1>1, <2>1 DEF Bounds
    <3>2. Right(c, block, <<center, upper>>, find[<<center, upper>>])
      BY <1>1, <2>1, <3>1, SMTT(30)
    <3>3. \E i \in center .. upper :
            /\ Found(c, block, i, center, upper)
            /\ find[<<center, upper>>] = c[i + 1].votes
      BY <1>1, <2>1, <3>2, RightIsFound, SMTT(30)
    <3>4. \E i \in center .. upper :
            /\ Found(c, block, i, lower, upper)
            /\ find[<<center, upper>>] = c[i + 1].votes
      BY <1>1, <2>1, <2>4, <3>3, FoundInHalf
    <3>5. Turn(c, block, find, b) = find[<<center, upper>>]
      BY <1>3, <2>2, <2>4 DEF Turn, center
    <3> QED BY <1>1, <1>3, <2>1, <3>4, <3>5 DEF Right
  <2>5. CASE c[center + 1].fromBlock > block
    <3>1. <<lower, center - 1>> \in Bounds(c)
      BY <1>1, <2>1 DEF Bounds
    <3>2. Right(c, block, <<lower, center - 1>>, find[<<lower, center - 1>>])
      BY <1>1, <2>1, <3>1
    <3>3. \E i \in lower .. center - 1 :
            /\ Found(c, block, i, lower, center - 1)
            /\ find[<<lower, center - 1>>] = c[i + 1].votes
      <4>1. lower <= center - 1
        BY <2>0, <2>1
      <4> DEFINE below == center - 1
      <4>2. below \in Nat /\ lower <= below
        BY <2>1, <4>1
      <4>3. Right(c, block, <<lower, below>>, find[<<lower, below>>])
        BY <3>2
      <4> HIDE DEF below, lower, upper
      <4>4. \E i \in lower .. below :
              /\ Found(c, block, i, lower, below)
              /\ find[<<lower, below>>] = c[i + 1].votes
        BY <2>0, <4>2, <4>3, RightIsFound, SMTT(30)
      <4> QED BY <4>4 DEF below
    <3>4. \E i \in lower .. center - 1 :
            /\ Found(c, block, i, lower, upper)
            /\ find[<<lower, center - 1>>] = c[i + 1].votes
      BY <1>1, <2>1, <2>5, <3>3, FoundInHalf
    <3>5. Turn(c, block, find, b) = find[<<lower, center - 1>>]
      BY <1>3, <2>2, <2>5 DEF Turn, center
    <3> QED BY <1>1, <1>3, <2>1, <3>4, <3>5 DEF Right
  <2> QED BY <2>2, <2>3, <2>4, <2>5
<1> QED BY <1>2, <1>3

\* The recursion has a solution, and every solution is right.
LEMMA SearchIsDefined ==
  ASSUME NEW c \in Seq(Checkpoint), NEW block \in Nat,
         \A i, j \in DOMAIN c : i < j => c[i].fromBlock < c[j].fromBlock
  PROVE  \E find : Solves(c, block, find)
<1> DEFINE find == [b \in Bounds(c) |-> CHOOSE v : Right(c, block, b, v)]
<1>1. \A b \in Bounds(c) : Right(c, block, b, find[b])
  BY RightExists
<1> HIDE DEF find
<1>2. \A b \in Bounds(c) : Right(c, block, b, Turn(c, block, find, b))
  BY <1>1, TurnIsRight
<1>3. \A b \in Bounds(c) : find[b] = Turn(c, block, find, b)
  BY <1>1, <1>2, RightIsUnique
<1>4. Solves(c, block, find)
  BY <1>3 DEF Solves, find
<1> QED BY <1>4

LEMMA SolutionIsRight ==
  ASSUME NEW c \in Seq(Checkpoint), NEW block \in Nat,
         \A i, j \in DOMAIN c : i < j => c[i].fromBlock < c[j].fromBlock,
         NEW find, Solves(c, block, find), NEW b \in Bounds(c)
  PROVE  Right(c, block, b, find[b])
<1> DEFINE Wrong(d) == d[1] <= d[2] /\ ~Right(c, block, d, find[d])
           T == {n \in Nat : \E d \in Bounds(c) : Wrong(d) /\ n = d[2] - d[1]}
<1>1. \A d \in Bounds(c) : find[d] = Turn(c, block, find, d)
  BY DEF Solves
<1>2. \A d \in Bounds(c) : d[1] \in Nat /\ d[2] \in Nat
  BY DEF Bounds
<1>3. T = {}
  <2> SUFFICES ASSUME T # {} PROVE FALSE
    OBVIOUS
  <2>1. PICK n \in T : \A m \in T : n <= m
    <3>1. T \in SUBSET Nat
      OBVIOUS
    <3> HIDE DEF T
    <3> QED BY <3>1, LeastNat
  <2>2. PICK d \in Bounds(c) : Wrong(d) /\ n = d[2] - d[1]
    BY <2>1
  <2>3. \A e \in Bounds(c) :
          e[1] <= e[2] /\ e[2] - e[1] < d[2] - d[1] =>
            Right(c, block, e, find[e])
    <3> SUFFICES ASSUME NEW e \in Bounds(c), e[1] <= e[2],
                        e[2] - e[1] < d[2] - d[1],
                        ~Right(c, block, e, find[e])
                 PROVE  FALSE
      OBVIOUS
    <3>1. e[1] \in Nat /\ e[2] \in Nat /\ d[1] \in Nat /\ d[2] \in Nat
      BY <1>2
    <3>2. e[2] - e[1] \in T
      BY <3>1
    <3> HIDE DEF T
    <3>3. d[2] - d[1] <= e[2] - e[1]
      BY <2>1, <2>2, <3>2
    <3> QED BY <3>1, <3>3
  <2>4. Right(c, block, d, Turn(c, block, find, d))
    BY <2>3, TurnIsRight
  <2> QED BY <1>1, <2>2, <2>4
<1>4. \A d \in Bounds(c) :
        d[1] <= d[2] /\ d[2] - d[1] < b[2] - b[1] => Right(c, block, d, find[d])
  <2> SUFFICES ASSUME NEW d \in Bounds(c), Wrong(d) PROVE FALSE
    OBVIOUS
  <2>1. d[2] - d[1] \in T
    BY <1>2
  <2> QED BY <1>3, <2>1
<1>5. Right(c, block, b, Turn(c, block, find, b))
  BY <1>4, TurnIsRight
<1> QED BY <1>1, <1>5

\* The loop of getPriorVotes finds the last checkpoint not after the block.
LEMMA SearchIsRight ==
  ASSUME NEW c \in Seq(Checkpoint), NEW block \in Nat, c # <<>>,
         \A i, j \in DOMAIN c : i < j => c[i].fromBlock < c[j].fromBlock
  PROVE  Right(c, block, <<0, Len(c) - 1>>, Search(c, block))
<1> DEFINE find == CHOOSE f : Solves(c, block, f)
<1>1. Solves(c, block, find)
  BY SearchIsDefined
<1>2. Search(c, block) = find[<<0, Len(c) - 1>>]
  BY DEF Search, Solves, Turn, Bounds, Center
<1>3. <<0, Len(c) - 1>> \in Bounds(c)
  BY DEF Bounds
<1> HIDE DEF find
<1> QED BY <1>1, <1>2, <1>3, SolutionIsRight

-----------------------------------------------------------------------------
(* Looking up and writing                                                  *)

\* Checkpoint i (from 1) is the last one not after the block.
LastAt(c, block, i) ==
  /\ i \in DOMAIN c
  /\ c[i].fromBlock <= block
  /\ \A j \in DOMAIN c : j > i => c[j].fromBlock > block

LEMMA CheckpointType ==
  ASSUME NEW c \in Seq(Checkpoint), NEW i \in DOMAIN c
  PROVE  c[i].fromBlock \in Nat /\ c[i].votes \in Nat /\ i \in 1 .. Len(c)
<1>1. c[i] \in Checkpoint /\ i \in 1 .. Len(c)
  OBVIOUS
<1> QED BY <1>1 DEF Checkpoint

LEMMA LastAtExists ==
  ASSUME NEW c \in Seq(Checkpoint), NEW block \in Nat,
         NEW i \in DOMAIN c, c[i].fromBlock <= block
  PROVE  \E k \in DOMAIN c : LastAt(c, block, k)
<1> DEFINE T == {k \in DOMAIN c : c[k].fromBlock <= block}
<1>1. T \in SUBSET Nat /\ T # {} /\ Len(c) \in Nat /\ \A x \in T : x <= Len(c)
  OBVIOUS
<1>2. PICK k \in T : \A j \in T : j <= k
  <2> HIDE DEF T
  <2> QED BY <1>1, GreatestNat
<1>3. ASSUME NEW j \in DOMAIN c, j > k PROVE c[j].fromBlock > block
  BY <1>2, <1>3, CheckpointType
<1> QED BY <1>2, <1>3 DEF LastAt

LEMMA VotesAtLast ==
  ASSUME NEW c \in Seq(Checkpoint), NEW block \in Nat,
         NEW i, LastAt(c, block, i)
  PROVE  VotesAt(c, block) = c[i].votes
<1> DEFINE before == {k \in DOMAIN c : c[k].fromBlock <= block}
           last == CHOOSE k \in before : \A j \in before : j <= k
<1>1. i \in before /\ \A j \in before : j <= i
  <2>1. i \in before
    BY DEF LastAt
  <2>2. ASSUME NEW j \in before PROVE j <= i
    BY <2>1, CheckpointType DEF LastAt
  <2> QED BY <2>1, <2>2
<1>2. last \in before /\ \A j \in before : j <= last
  BY <1>1
<1>3. last = i
  BY <1>1, <1>2
<1>4. VotesAt(c, block) = c[last].votes
  BY <1>1 DEF VotesAt
<1> QED BY <1>3, <1>4

LEMMA VotesAtNone ==
  ASSUME NEW c, NEW block, \A i \in DOMAIN c : ~(c[i].fromBlock <= block)
  PROVE  VotesAt(c, block) = 0
BY DEF VotesAt

\* getPriorVotes agrees with the reference on every list in block order.
THEOREM PriorVotesIsVotesAt ==
  ASSUME NEW c \in Seq(Checkpoint), NEW block \in Nat,
         \A i, j \in DOMAIN c : i < j => c[i].fromBlock < c[j].fromBlock
  PROVE  PriorVotes(c, block) = VotesAt(c, block)
<1>1. CASE c = <<>>
  BY <1>1, VotesAtNone DEF PriorVotes
<1>2. CASE c # <<>>
  <2>1. 1 \in DOMAIN c /\ Len(c) \in DOMAIN c /\ Len(c) \in Nat
    BY <1>2
  <2>2. /\ c[1].fromBlock \in Nat
        /\ c[Len(c)].fromBlock \in Nat
    BY <2>1, CheckpointType
  <2>3. CASE c[Len(c)].fromBlock <= block
    <3>1. LastAt(c, block, Len(c))
      BY <2>1, <2>3 DEF LastAt
    <3> QED BY <1>2, <2>3, <3>1, VotesAtLast DEF PriorVotes
  <2>4. CASE c[1].fromBlock > block
    <3>1. ASSUME NEW i \in DOMAIN c PROVE ~(c[i].fromBlock <= block)
      <4>1. i = 1 \/ c[1].fromBlock < c[i].fromBlock
        BY <2>1
      <4> QED BY <2>2, <2>4, <4>1, CheckpointType
    <3>2. ~(c[Len(c)].fromBlock <= block)
      BY <2>1, <3>1
    <3> QED BY <1>2, <2>4, <3>1, <3>2, VotesAtNone DEF PriorVotes
  <2>5. CASE ~(c[Len(c)].fromBlock <= block) /\ ~(c[1].fromBlock > block)
    <3>1. PriorVotes(c, block) = Search(c, block)
      BY <1>2, <2>5 DEF PriorVotes
    <3> DEFINE top == Len(c) - 1
    <3>2. 0 \in Nat /\ top \in Nat /\ 0 <= top
      BY <2>1
    <3>3. Right(c, block, <<0, top>>, Search(c, block))
      BY <1>2, SearchIsRight
    <3> HIDE DEF top
    <3>4. PICK i \in 0 .. top :
            Found(c, block, i, 0, top) /\ Search(c, block) = c[i + 1].votes
      BY <3>2, <3>3, RightIsFound
    <3>5. i + 1 \in DOMAIN c /\ c[i + 1].fromBlock <= block
      BY <2>1, <2>2, <2>5, <3>4 DEF Found, top
    <3>6. ASSUME NEW j \in DOMAIN c, j > i + 1 PROVE c[j].fromBlock > block
      <4>1. j - 1 \in i + 1 .. top /\ (j - 1) + 1 = j
        BY <3>4, <3>6 DEF top
      <4> QED BY <3>4, <4>1 DEF Found
    <3>7. LastAt(c, block, i + 1)
      BY <3>5, <3>6 DEF LastAt
    <3> QED BY <3>1, <3>4, <3>7, VotesAtLast
  <2> QED BY <2>2, <2>3, <2>4, <2>5
<1> QED BY <1>1, <1>2

\* Within the block of the last checkpoint the current votes are the votes
\* at that block, which is what the end of the block records.
LEMMA VotesAtNow ==
  ASSUME NEW c \in Seq(Checkpoint), NEW block \in Nat, Ordered(c, block)
  PROVE  VotesAt(c, block) = CurrentVotes(c)
<1>1. CASE c = <<>>
  BY <1>1, VotesAtNone DEF CurrentVotes
<1>2. CASE c # <<>>
  <2>1. LastAt(c, block, Len(c))
    BY <1>2 DEF LastAt, Ordered
  <2> QED BY <1>2, <2>1, VotesAtLast DEF CurrentVotes
<1> QED BY <1>1, <1>2

LEMMA CurrentVotesType ==
  ASSUME NEW c \in Seq(Checkpoint)
  PROVE  CurrentVotes(c) \in Nat
BY CheckpointType DEF CurrentVotes

\* _writeCheckpoint sets the current votes and rewrites no block that is over.
LEMMA WriteKeepsThePast ==
  ASSUME NEW c \in Seq(Checkpoint), NEW block \in Nat, Ordered(c, block),
         NEW v \in Nat
  PROVE  /\ WriteCheckpoint(c, block, v) \in Seq(Checkpoint)
         /\ Ordered(WriteCheckpoint(c, block, v), block)
         /\ CurrentVotes(WriteCheckpoint(c, block, v)) = v
         /\ \A b \in 0 .. block - 1 :
              VotesAt(WriteCheckpoint(c, block, v), b) = VotesAt(c, b)
<1> DEFINE d == WriteCheckpoint(c, block, v)
           n == Len(c)
<1>1. n \in Nat /\ DOMAIN c = 1 .. n /\ (c # <<>> => n > 0)
  OBVIOUS
<1>2. CASE c # <<>> /\ c[n].fromBlock = block
  <2>1. d = [c EXCEPT ![n].votes = v]
    BY <1>2 DEF WriteCheckpoint
  <2> HIDE DEF d
  <2>2. /\ DOMAIN d = DOMAIN c
        /\ \A i \in DOMAIN c : d[i] = IF i = n THEN [c[i] EXCEPT !.votes = v] ELSE c[i]
    BY <1>1, <2>1
  <2>3. /\ \A i \in DOMAIN c : d[i] \in Checkpoint
        /\ \A i \in DOMAIN c : d[i].fromBlock = c[i].fromBlock
        /\ d[n].votes = v
    <3>1. \A i \in DOMAIN c : c[i] \in Checkpoint
      OBVIOUS
    <3>2. n \in DOMAIN c
      BY <1>1, <1>2
    <3> QED BY <2>2, <3>1, <3>2 DEF Checkpoint
  <2>4. d \in Seq(Checkpoint) /\ Len(d) = n /\ d # <<>>
    BY <1>1, <1>2, <2>1, <2>2, <2>3 DEF Checkpoint
  <2>5. Ordered(d, block)
    BY <2>2, <2>3 DEF Ordered
  <2>6. CurrentVotes(d) = v
    BY <2>3, <2>4 DEF CurrentVotes
  <2>7. ASSUME NEW b \in 0 .. block - 1 PROVE VotesAt(d, b) = VotesAt(c, b)
    <3>1. CASE \A i \in DOMAIN c : ~(c[i].fromBlock <= b)
      <4>1. \A i \in DOMAIN d : ~(d[i].fromBlock <= b)
        BY <2>2, <2>3, <3>1
      <4> QED BY <3>1, <4>1, VotesAtNone
    <3>2. CASE \E i \in DOMAIN c : c[i].fromBlock <= b
      <4>1. PICK i \in DOMAIN c : LastAt(c, b, i)
        BY <3>2, LastAtExists
      <4>2. i # n
        BY <1>2, <4>1 DEF LastAt
      <4>3. LastAt(d, b, i) /\ d[i] = c[i]
        BY <2>2, <2>3, <4>1, <4>2 DEF LastAt
      <4> QED BY <2>4, <4>1, <4>3, VotesAtLast
    <3> QED BY <3>1, <3>2
  <2> QED BY <2>4, <2>5, <2>6, <2>7 DEF d
<1>3. CASE ~(c # <<>> /\ c[n].fromBlock = block)
  <2> DEFINE new == [fromBlock |-> block, votes |-> v]
  <2>1. d = Append(c, new)
    BY <1>3 DEF WriteCheckpoint
  <2>2. new \in Checkpoint /\ new.fromBlock = block /\ new.votes = v
    BY DEF Checkpoint
  <2> HIDE DEF d, new
  <2>3. /\ d \in Seq(Checkpoint)
        /\ Len(d) = n + 1
        /\ DOMAIN d = 1 .. n + 1
        /\ d[n + 1] = new
        /\ \A i \in 1 .. n : d[i] = c[i]
    BY <1>1, <2>1, <2>2
  <2>4. ASSUME NEW i \in 1 .. n PROVE c[i].fromBlock < block
    <3>1. /\ c[i].fromBlock \in Nat /\ c[n].fromBlock \in Nat
          /\ c # <<>> /\ n \in DOMAIN c /\ i \in DOMAIN c
      BY <1>1, CheckpointType
    <3>2. c[n].fromBlock < block
      BY <1>3, <3>1 DEF Ordered
    <3>3. i = n \/ c[i].fromBlock < c[n].fromBlock
      BY <3>1 DEF Ordered
    <3> QED BY <3>1, <3>2, <3>3
  <2>5. Ordered(d, block)
    <3>1. ASSUME NEW i \in DOMAIN d PROVE d[i].fromBlock <= block
      BY <1>1, <2>2, <2>3, <2>4, CheckpointType
    <3>2. ASSUME NEW i \in DOMAIN d, NEW j \in DOMAIN d, i < j
          PROVE  d[i].fromBlock < d[j].fromBlock
      <4>1. i \in 1 .. n
        BY <1>1, <2>3, <3>2
      <4>2. CASE j = n + 1
        BY <2>2, <2>3, <2>4, <4>1, <4>2
      <4>3. CASE j # n + 1
        <5>1. j \in 1 .. n
          BY <1>1, <2>3, <4>3
        <5> QED BY <1>1, <2>3, <3>2, <4>1, <5>1 DEF Ordered
      <4> QED BY <4>2, <4>3
    <3> QED BY <3>1, <3>2 DEF Ordered
  <2>6. CurrentVotes(d) = v
    BY <1>1, <2>2, <2>3 DEF CurrentVotes
  <2>7. ASSUME NEW b \in 0 .. block - 1 PROVE VotesAt(d, b) = VotesAt(c, b)
    <3>0. ~(d[n + 1].fromBlock <= b) /\ d[n + 1].fromBlock > b
      BY <2>2, <2>3
    <3>1. CASE \A i \in DOMAIN c : ~(c[i].fromBlock <= b)
      <4>1. \A i \in DOMAIN d : ~(d[i].fromBlock <= b)
        BY <1>1, <2>3, <3>0, <3>1
      <4> QED BY <3>1, <4>1, VotesAtNone
    <3>2. CASE \E i \in DOMAIN c : c[i].fromBlock <= b
      <4>1. PICK i \in DOMAIN c : LastAt(c, b, i)
        BY <3>2, LastAtExists
      <4>2. LastAt(d, b, i) /\ d[i] = c[i]
        BY <1>1, <2>3, <3>0, <4>1 DEF LastAt
      <4> QED BY <2>3, <4>1, <4>2, VotesAtLast
    <3> QED BY <3>1, <3>2
  <2> QED BY <2>3, <2>5, <2>6, <2>7 DEF d
<1> QED BY <1>2, <1>3
=============================================================================
