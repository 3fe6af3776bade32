--------------------------- MODULE MCNDAOLogicV1 ----------------------------
(* Small instances of NDAOLogicV1 for TLC.                                 *)
EXTENDS NDAOLogicV1

CONSTANTS alice, bob

Call(fn, arg) == [fn |-> fn, arg |-> arg]
Outside == Call("outside", 0)
Outside2 == Call("outside", 1)

\* Votes of alice and bob, and the total supply.
Electorate(a, b, supply) ==
  [votes |-> [x \in Accounts |-> IF x = alice THEN a ELSE b],
   totalSupply |-> supply]

\* At 10% a proposer needs more than 1 of 10 (or 2 of 20) votes, so that one
\* account can propose now and the other one later, and a proposer may drop
\* below the threshold; a quorum of 20% is 2 (or 4).
MovingElectorates == {Electorate(3, 1, 10), Electorate(1, 3, 20)}
EvenElectorate == {Electorate(2, 2, 10)}
OneVoter == {Electorate(2, 0, 10)}

MixedBallots == {<<alice, 1>>, <<bob, 0>>, <<bob, 2>>}
OpposedBallots == {<<alice, 1>>, <<bob, 0>>}
AliceInFavour == {<<alice, 1>>}

\* The vote: of the actions that may run meanwhile only a new voting delay
\* matters.
VoteCalls == {Call("_setVotingDelay", 2)}
VoteLists == {<<Call("_setVotingDelay", 2)>>}

\* The execution: outside calls, one of them in two proposals; settings, in
\* and out of their ranges; and the hand-over of the timelock and of the DAO.
RunCalls ==
  {Outside, Outside2, Call("setDelay", 2), Call("setDelay", 5),
   Call("setPendingAdmin", alice), Call("_setPendingAdmin", bob),
   Call("_acceptAdmin", 0), Call("_setVotingPeriod", 2)}
RunLists ==
  {<<Outside, Outside2>>, <<Outside, Call("setDelay", 5)>>,
   <<Call("setDelay", 2), Call("setPendingAdmin", alice),
     Call("_setPendingAdmin", bob)>>}

\* What alice does with the timelock.
AliceTxs ==
  [call : {Call("setDelay", 5), Call("_setVotingPeriod", 2)}, eta : {7}]

\* What the comment of castVoteInternal says of every proposal; a new voting
\* delay makes it false (GovernanceNewDelay.cfg).
VotesAlwaysFromCreation ==
  \A id \in 1 .. dao.proposalCount, support \in 0 .. 2 :
    dao.proposals[id][Tally(support)] = Recount(dao.proposals[id], support)
=============================================================================
