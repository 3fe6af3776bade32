---------------------------- MODULE SubgraphDAO -----------------------------
(***************************************************************************)
(* The governance half of the subgraph                                     *)
(* (packages/punks-subgraph/src/n-dao.ts): what the handler of each event  *)
(* of the DAO makes of the Proposal, Vote and Governance entities.         *)
(*                                                                         *)
(* The store is a record: proposals is a function from the ids that have   *)
(* an entity, votes a function from pairs <<voter, proposal>>, queued and  *)
(* count are the fields proposalsQueued and proposals of Governance.       *)
(***************************************************************************)
EXTENDS Integers, Sequences

NoETA == -1            \* executionETA = null

EmptyStore ==
  [proposals |-> <<>>, votes |-> <<>>, queued |-> 0, count |-> 0]

\* getOrCreateProposal for the id of a new proposal, and all that
\* handleProposalCreatedWithRequirements fills in.
HandleProposalCreated(s, e) ==
  LET new == [proposer |-> e.proposer, createdBlock |-> e.block,
              startBlock |-> e.startBlock, endBlock |-> e.endBlock,
              quorumVotes |-> e.quorumVotes,
              forVotes |-> 0, againstVotes |-> 0, abstainVotes |-> 0,
              eta |-> NoETA,
              status |-> IF e.block >= e.startBlock THEN "ACTIVE"
                         ELSE "PENDING"]
  IN [s EXCEPT
        !.count = IF e.id \in DOMAIN s.proposals THEN @ ELSE @ + 1,
        !.proposals = [id \in DOMAIN @ \cup {e.id} |->
                         IF id = e.id THEN new ELSE @[id]]]

HandleProposalCanceled(s, e) ==
  [s EXCEPT !.proposals[e.id].status = "CANCELLED"]

HandleProposalVetoed(s, e) ==
  [s EXCEPT !.proposals[e.id].status = "VETOED"]

HandleProposalQueued(s, e) ==
  [s EXCEPT !.proposals[e.id].status = "QUEUED",
            !.proposals[e.id].eta = e.eta,
            !.queued = @ + 1]

HandleProposalExecuted(s, e) ==
  [s EXCEPT !.proposals[e.id].status = "EXECUTED",
            !.proposals[e.id].eta = NoETA,
            !.queued = @ - 1]

\* The tally of the side, and the first vote makes a pending one active.
HandleVoteCast(s, e) ==
  [s EXCEPT
     !.votes = [id \in DOMAIN @ \cup {<<e.voter, e.id>>} |->
                  IF id = <<e.voter, e.id>>
                  THEN [votes |-> e.votes, support |-> e.support] ELSE @[id]],
     !.proposals[e.id].againstVotes =
        @ + (IF e.support = 0 THEN e.votes ELSE 0),
     !.proposals[e.id].forVotes =
        @ + (IF e.support = 1 THEN e.votes ELSE 0),
     !.proposals[e.id].abstainVotes =
        @ + (IF e.support = 2 THEN e.votes ELSE 0),
     !.proposals[e.id].status =
        IF @ = "PENDING" THEN "ACTIVE" ELSE @]
=============================================================================
