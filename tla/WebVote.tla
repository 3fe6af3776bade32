------------------------------ MODULE WebVote -------------------------------
(***************************************************************************)
(* The page of a proposal in the web app (packages/punks-webapp/src/pages/ *)
(* Vote, components/ProposalHeader, VoteModal, VoteCard) and the hooks of  *)
(* wrappers/nDao.ts it reads the proposal with, for a user with votes; and *)
(* what the list of proposals (components/Proposals) says of its dates.    *)
(*                                                                         *)
(* The subgraph is asked once, when the page is opened; if that fails the  *)
(* proposal is read from the chain with every block.  What is read from    *)
(* the chain is as old as the last block the app has seen.                 *)
(*                                                                         *)
(* To bound the states, a session is for one thing: it reads the cards of  *)
(* the votes (then the user votes elsewhere, and nobody cancels or vetoes  *)
(* the proposal), it votes, or it moves the proposal on.  The first two    *)
(* are over soon after the voting period.                                  *)
(*                                                                         *)
(* Every transaction is in a block of its own, and the number of a block   *)
(* is its timestamp and the time of the user's clock.                      *)
(***************************************************************************)
EXTENDS SubgraphDAO, SequencesExt

CONSTANTS
  StartBlock, EndBlock,    \* of the proposal, which block 1 creates
  QuorumVotes,
  TimelockDelay,
  Grace,                   \* GRACE_PERIOD, in the timelock and in nDao.ts
  MySupports,              \* what the user may vote
  PerCard,                 \* delegates on one page of a card: 12
  MaxBlock,                \* bound on the chain
  MaxSends                 \* bound on the user's transactions

ASSUME WebVoteAssumption ==
  /\ \A n \in {StartBlock, EndBlock, QuorumVotes, TimelockDelay, Grace,
               MaxBlock, MaxSends} : n \in Nat
  /\ PerCard \in Nat \ {0}
  /\ MySupports \subseteq 0 .. 2
  /\ 1 < StartBlock /\ StartBlock < EndBlock

VARIABLES
  block,       \* number of the chain's last block
  prop,        \* the proposal in the DAO
  index,       \* the store of the subgraph
  view,        \* what the app read at the last block it has seen
  source,      \* where the proposal comes from: "none", "subgraph", "chain"
  snapshot,    \* the proposal in the answer of the subgraph
  voters,      \* the answer to the query of the votes
  card,        \* what the session is for: "reads", "votes", "moves";
               \* isDelegateView; the page of the card of votes in favour
  modal,       \* VoteModal
  moving,      \* isQueuePending, isExecutePending
  sent         \* the user's transactions

voteChain == <<block, prop, index>>
votePage == <<view, source, snapshot, voters, card, modal, moving>>
voteVars == <<voteChain, votePage, sent>>

NoBlock == 0           \* `!blockNumber` holds for undefined and for 0

-----------------------------------------------------------------------------
(* The DAO, as NDAOLogicV1 models it, with one proposal.                   *)

NewProp == [for |-> 0, against |-> 0, abstain |-> 0, voted |-> {},
            canceled |-> FALSE, vetoed |-> FALSE, executed |-> FALSE, eta |-> NoETA]

DaoState(p, b) ==
  CASE p.vetoed -> "VETOED"
    [] ~p.vetoed /\ p.canceled -> "CANCELLED"
    [] OTHER ->
         IF b <= StartBlock THEN "PENDING"
         ELSE IF b <= EndBlock THEN "ACTIVE"
         ELSE IF p.for <= p.against \/ p.for < QuorumVotes THEN "DEFEATED"
         ELSE IF p.eta = NoETA THEN "SUCCEEDED"
         ELSE IF p.executed THEN "EXECUTED"
         ELSE IF b >= p.eta + Grace THEN "EXPIRED"
         ELSE "QUEUED"

Created ==
  [id |-> 1, proposer |-> "proposer", block |-> 1, startBlock |-> StartBlock,
   endBlock |-> EndBlock, quorumVotes |-> QuorumVotes]

LastBlockOfVisit == IF card.visit = "moves" THEN MaxBlock ELSE EndBlock + 2

\* A block with one transaction, which reverts unless it changes something.
NewBlock == block < LastBlockOfVisit /\ block' = block + 1

Voting(voter, support) ==
  /\ DaoState(prop, block') = "ACTIVE"
  /\ voter \notin prop.voted
  /\ prop' = [prop EXCEPT !.voted = @ \cup {voter},
                          !.for = @ + (IF support = 1 THEN 1 ELSE 0),
                          !.against = @ + (IF support = 0 THEN 1 ELSE 0),
                          !.abstain = @ + (IF support = 2 THEN 1 ELSE 0)]
  /\ index' = HandleVoteCast(index, [id |-> 1, voter |-> voter, votes |-> 1,
                                     support |-> support])

Queueing ==
  /\ DaoState(prop, block') = "SUCCEEDED"
  /\ prop' = [prop EXCEPT !.eta = block' + TimelockDelay]
  /\ index' = HandleProposalQueued(index, [id |-> 1, eta |-> prop'.eta])

Executing ==
  /\ DaoState(prop, block') = "QUEUED" /\ block' >= prop.eta
  /\ prop' = [prop EXCEPT !.executed = TRUE]
  /\ index' = HandleProposalExecuted(index, [id |-> 1])

Canceling ==
  /\ DaoState(prop, block') # "EXECUTED"
  /\ prop' = [prop EXCEPT !.canceled = TRUE]
  /\ index' = HandleProposalCanceled(index, [id |-> 1])

Vetoing ==
  /\ DaoState(prop, block') # "EXECUTED"
  /\ prop' = [prop EXCEPT !.vetoed = TRUE]
  /\ index' = HandleProposalVetoed(index, [id |-> 1])

\* Others act, or nobody does.
Others ==
  /\ NewBlock
  /\ \/ \E support \in 0 .. 2 :
          \/ Voting("other", support)
          \/ card.visit = "reads" /\ Voting("me", support)
     \/ card.visit # "reads" /\ (Canceling \/ Vetoing)
     \/ UNCHANGED <<prop, index>>
  /\ UNCHANGED <<votePage, sent>>

Applied(tx) ==
  \/ tx.call = "castVote" /\ Voting("me", tx.support)
  \/ tx.call = "queue" /\ Queueing
  \/ tx.call = "execute" /\ Executing

\* The same without the primes: would the transaction change something?
Accepts(tx, b) ==
  CASE tx.call = "castVote" ->
         DaoState(prop, b) = "ACTIVE" /\ "me" \notin prop.voted
    [] tx.call = "queue" -> DaoState(prop, b) = "SUCCEEDED"
    [] tx.call = "execute" -> DaoState(prop, b) = "QUEUED" /\ b >= prop.eta

MineVoteTx(i) ==
  /\ sent[i].status = "Mining"
  /\ NewBlock
  /\ \/ Applied(sent[i]) /\ sent' = [sent EXCEPT ![i].status = "mined"]
     \/ /\ ~Accepts(sent[i], block')
        /\ sent' = [sent EXCEPT ![i].status = "reverted"]
        /\ UNCHANGED <<prop, index>>
  /\ UNCHANGED votePage

-----------------------------------------------------------------------------
(* wrappers/nDao.ts                                                        *)

GetProposalState(b, p) ==
  CASE p.status = "PENDING" ->
         IF b = NoBlock THEN "UNDETERMINED"
         ELSE IF b <= p.startBlock THEN "PENDING" ELSE "ACTIVE"
    [] p.status = "ACTIVE" ->
         IF b = NoBlock THEN "UNDETERMINED"
         ELSE IF b <= p.endBlock THEN "ACTIVE"
         ELSE IF p.forVotes <= p.againstVotes \/ p.forVotes < p.quorumVotes
         THEN "DEFEATED"
         ELSE IF p.eta = NoETA THEN "SUCCEEDED" ELSE "ACTIVE"
    [] p.status = "QUEUED" ->
         IF b = NoBlock \/ p.eta = NoETA THEN "UNDETERMINED"
         ELSE IF b >= p.eta + Grace THEN "EXPIRED" ELSE "QUEUED"
    [] OTHER -> p.status

\* useProposal: the proposal of the page and its status and eta.
Known == source = "subgraph" \/ (source = "chain" /\ view.block # NoBlock)
Status ==
  IF source = "subgraph" THEN GetProposalState(view.block, snapshot)
  ELSE DaoState(view.prop, view.block)
Eta == IF source = "subgraph" THEN snapshot.eta ELSE view.prop.eta

\* The proposal cannot be had from the subgraph: useAllProposals takes the
\* chain's.
FetchProposal ==
  /\ source = "none"
  /\ \/ source' = "subgraph" /\ snapshot' = index.proposals[1]
     \/ source' = "chain" /\ UNCHANGED snapshot
  /\ UNCHANGED <<voteChain, view, voters, card, modal, moving, sent>>

VotesAnswer ==
  {<<v[1], index.votes[v].support>> :
     v \in {w \in DOMAIN index.votes : index.votes[w].votes > 0}}

\* proposalVotesQuery, asked once.  If it fails the page shows a spinner for
\* good, as `data` stays undefined: that is, voters is never answered.
FetchVoters ==
  /\ Known /\ ~voters.answered
  /\ voters' = [answered |-> TRUE, votes |-> VotesAnswer]
  /\ UNCHANGED <<voteChain, view, source, snapshot, card, modal, moving, sent>>

Ready == Known /\ voters.answered

-----------------------------------------------------------------------------
(* The page.                                                               *)

NewModal == [show |-> FALSE, loading |-> FALSE, success |-> FALSE,
             failed |-> FALSE, timer |-> FALSE]

\* The page is rendered: onHide is a new function, so the effect that closes
\* the modal after a successful vote sets another timer.
Rendered(m) == [m EXCEPT !.timer = @ \/ m.success]

\* useBlockNumber, and the calls of useContractCall, which follow it.
SeeBlock ==
  /\ view.block # block
  /\ view' = [block |-> block, prop |-> prop]
  /\ modal' = Rendered(modal)
  /\ UNCHANGED <<voteChain, source, snapshot, voters, card, moving, sent>>

\* Dates are estimated from numbers of blocks, and Date.now() is read before
\* `now`: clock says whether it went on in between.
IsActiveForVoting(clock) ==
  /\ view.block # NoBlock
  /\ view.block > StartBlock \/ (view.block = StartBlock /\ clock)
  /\ EndBlock > view.block

\* The button of ProposalHeader.
VoteOffered(clock) ==
  Ready /\ IsActiveForVoting(clock) /\ "me" \notin view.prop.voted

\* The dates of the page.
StartOrEndTimeCopy(clock) ==
  CASE IsActiveForVoting(clock) -> "Ends"
    [] view.block # NoBlock
         /\ \/ view.block > EndBlock
            \/ view.block = EndBlock /\ clock -> "Ended"
    [] OTHER -> "Starts"

\* The pill of the list of proposals estimates the dates in the same way, and
\* then goes on with the date until which a queued proposal can be executed.
CountdownCopy(clock) ==
  IF StartOrEndTimeCopy(clock) = "Ended" THEN "Expires"
  ELSE StartOrEndTimeCopy(clock)

HasCountdown == Status \in {"PENDING", "ACTIVE", "QUEUED"}

\* VoteCard in the delegates' view: the delegates of one side, in an order
\* that only depends on who they are.  In the punks' view it has none: the
\* query of the delegates' punks names a field that the subgraph's schema
\* does not have.
CardVotes(support) ==
  SetToSeq({v[1] : v \in {w \in voters.votes : w[2] = support}})

VoteCount(support) ==
  IF source = "subgraph"
  THEN <<snapshot.againstVotes, snapshot.forVotes,
         snapshot.abstainVotes>>[support + 1]
  ELSE <<view.prop.against, view.prop.for, view.prop.abstain>>[support + 1]

\* The cells of a page.
Content(list, page) ==
  {list[i] : i \in ((page * PerCard + 1) .. ((page + 1) * PerCard))
                     \cap DOMAIN list}

NumPages(list) == Len(list) \div PerCard + 1

\* The arrows of VoteCardPager, of the card of the votes in favour: each of
\* the three cards has pages of its own.
TurnPage ==
  /\ Ready /\ card.delegateView
  /\ LET list == CardVotes(1) IN
       /\ NumPages(list) # 1
       /\ \/ /\ (card.page + 1) * PerCard <= Len(list)
             /\ card' = [card EXCEPT !.page = @ + 1]
          \/ /\ card.page # 0
             /\ card' = [card EXCEPT !.page = @ - 1]
  /\ UNCHANGED <<voteChain, view, source, snapshot, voters, modal, moving, sent>>

\* The other table is a new component, on its first page.
ToggleView ==
  /\ Ready /\ card.visit = "reads"
  /\ card' = [card EXCEPT !.delegateView = ~@, !.page = 0]
  /\ UNCHANGED <<voteChain, view, source, snapshot, voters, modal, moving, sent>>

OpenModal ==
  /\ \E clock \in BOOLEAN : VoteOffered(clock)
  /\ ~modal.show /\ card.visit = "votes"
  /\ modal' = Rendered([modal EXCEPT !.show = TRUE])
  /\ UNCHANGED <<voteChain, view, source, snapshot, voters, card, moving, sent>>

\* onHide, by the timer: the effect on show resets the failure.
CloseModal ==
  /\ modal.timer
  /\ modal' = [modal EXCEPT !.show = FALSE, !.failed = FALSE,
                            !.timer = FALSE]
  /\ UNCHANGED <<voteChain, view, source, snapshot, voters, card, moving, sent>>

\* resetNonSuccessStateAndHideModal.  A transaction goes on.
DismissModal ==
  /\ modal.show
  /\ modal' = Rendered([modal EXCEPT !.show = FALSE, !.loading = FALSE,
                                     !.failed = FALSE])
  /\ UNCHANGED <<voteChain, view, source, snapshot, voters, card, moving, sent>>

\* useContractFunction asks for a signature; that state has no case in the
\* hooks of the page.
Send(tx) ==
  /\ Len(sent) < MaxSends
  /\ sent' = Append(sent, tx)

SubmitVote(support) ==
  /\ Ready /\ modal.show
  /\ ~modal.success /\ ~modal.failed /\ ~modal.loading
  /\ Send([call |-> "castVote", support |-> support,
           status |-> "PendingSignature"])
  /\ modal' = [modal EXCEPT !.loading = TRUE]
  /\ UNCHANGED <<voteChain, view, source, snapshot, voters, card, moving>>

\* Variant: a failed transaction falls through to the next case.
HandleVoteStateChangeThrough(m, status) ==
  CASE status = "Mining" -> [m EXCEPT !.loading = TRUE]
    [] OTHER -> [m EXCEPT !.loading = FALSE, !.success = TRUE,
                          !.timer = TRUE]

HandleVoteStateChange(m, status) ==
  CASE status = "Mining" -> [m EXCEPT !.loading = TRUE]
    [] status = "Success" ->
         Rendered([m EXCEPT !.loading = FALSE, !.success = TRUE])
    [] status \in {"Fail", "Exception"} ->
         [m EXCEPT !.loading = FALSE, !.failed = TRUE]

\* onTransactionStateChange of queueProposalState and executeProposalState.
OnTransactionStateChange(flags, call, status) ==
  [flags EXCEPT ![call] = status = "Mining"]

\* A hook gets a new state of its transaction.
StateChanges(i, status) ==
  IF sent[i].call = "castVote"
  THEN modal' = HandleVoteStateChange(modal, status) /\ UNCHANGED moving
  ELSE /\ moving' = OnTransactionStateChange(moving, sent[i].call, status)
       /\ modal' = Rendered(modal)

AnswerWallet(i) ==
  /\ sent[i].status = "PendingSignature"
  /\ \E status \in {"Mining", "Exception"} :
       /\ sent' = [sent EXCEPT ![i].status = status]
       /\ StateChanges(i, status)
  /\ UNCHANGED <<voteChain, view, source, snapshot, voters, card>>

ReceiveReceipt(i) ==
  /\ sent[i].status \in {"mined", "reverted"}
  /\ sent' = [sent EXCEPT ![i].status = "done"]
  /\ StateChanges(i, IF sent[i].status = "mined" THEN "Success" ELSE "Fail")
  /\ UNCHANGED <<voteChain, view, source, snapshot, voters, card>>

\* The button that queues or executes the proposal.
IsAwaitingStateChange ==
  \/ Status = "SUCCEEDED"
  \/ Status = "QUEUED" /\ block >= Eta

MoveState ==
  /\ Ready /\ IsAwaitingStateChange /\ card.visit = "moves"
  /\ ~moving.queue /\ ~moving.execute
  /\ Send([call |-> IF Status = "SUCCEEDED" THEN "queue" ELSE "execute",
           support |-> 0, status |-> "PendingSignature"])
  /\ UNCHANGED <<voteChain, votePage>>

-----------------------------------------------------------------------------
VoteInit ==
  /\ block = 1 /\ prop = NewProp
  /\ index = HandleProposalCreated(EmptyStore, Created)
  /\ view = [block |-> NoBlock, prop |-> NewProp]
  /\ source = "none" /\ snapshot = index.proposals[1]
  /\ voters = [answered |-> FALSE, votes |-> {}]
  /\ card \in [visit : {"reads", "votes", "moves"}, delegateView : {FALSE},
               page : {0}]
  /\ modal = NewModal
  /\ moving = [queue |-> FALSE, execute |-> FALSE]
  /\ sent = <<>>

VoteNext ==
  \/ Others
  \/ FetchProposal
  \/ FetchVoters
  \/ SeeBlock
  \/ TurnPage
  \/ ToggleView
  \/ OpenModal
  \/ CloseModal
  \/ DismissModal
  \/ \E support \in MySupports : SubmitVote(support)
  \/ MoveState
  \/ \E i \in DOMAIN sent :
       AnswerWallet(i) \/ MineVoteTx(i) \/ ReceiveReceipt(i)

-----------------------------------------------------------------------------
(* Properties                                                              *)

VoteTypeOK ==
  /\ block \in Nat \ {0} /\ view.block \in NoBlock .. block
  /\ Known /\ source = "subgraph" =>
       Status \in {"UNDETERMINED", "PENDING", "ACTIVE", "CANCELLED",
                   "DEFEATED", "SUCCEEDED", "QUEUED", "EXPIRED", "EXECUTED",
                   "VETOED"}
  /\ \A field \in DOMAIN modal : modal[field] \in BOOLEAN
  /\ \A i \in DOMAIN sent :
       sent[i].status \in {"PendingSignature", "Mining", "Exception",
                           "mined", "reverted", "done"}

\* If the answer of the subgraph is not outdated, the status that nDao.ts
\* computes from it is the one the DAO computes, at every boundary, with two
\* exceptions: a proposal nobody voted on stays ACTIVE, and the subgraph
\* shows the last of a veto and a cancellation.
StatusAgrees ==
  source = "subgraph" /\ snapshot = index.proposals[1] /\ view.block = block =>
    \/ Status = DaoState(prop, block)
    \/ prop.voted = {} /\ block > EndBlock
    \/ prop.vetoed /\ prop.canceled

\* A vote that is offered, by dates estimated from the number of a block,
\* and that is in the next block is within the voting period.
VoteOfferedInTime ==
  /\ \E clock \in BOOLEAN : VoteOffered(clock)
  /\ view.block = block
  /\ ~prop.canceled /\ ~prop.vetoed
  => DaoState(prop, block + 1) = "ACTIVE"

\* The dates agree with the DAO although they are computed from the number of
\* a block only: the page says that voting ends while the next block still
\* takes votes and that it ended when none does.  Away from the two blocks
\* where the copy depends on the clock, the list has the countdown that the
\* status calls for (a proposal nobody voted on stays ACTIVE, see above).
DatesAgree ==
  view.block = block /\ ~prop.canceled /\ ~prop.vetoed =>
    \A clock \in BOOLEAN :
      LET copy == StartOrEndTimeCopy(clock)
          pill == CountdownCopy(clock)
          next == DaoState(prop, block + 1)
      IN /\ copy = "Ends" => next = "ACTIVE"
         /\ copy = "Ended" => next \notin {"PENDING", "ACTIVE"}
         /\ Known /\ HasCountdown /\ block \notin {StartBlock, EndBlock} =>
              \/ Status = "PENDING" /\ pill = "Starts"
              \/ Status = "ACTIVE" /\ pill = "Ends"
              \/ Status = "QUEUED" /\ pill = "Expires"
              \/ /\ block > EndBlock
                 /\ prop.voted = {} \/ snapshot # index.proposals[1]

\* Each delegate that voted is on exactly one page of its card, a page that
\* the arrows reach, the page on display is one of them, and the count above
\* is that of the delegates, if neither of the two is outdated.
VotersShown ==
  /\ \A support \in 0 .. 2 :
       LET list == CardVotes(support) IN
         /\ \A v \in Range(list) :
              Cardinality({n \in 0 .. NumPages(list) - 1 :
                             v \in Content(list, n)}) = 1
         /\ /\ Ready
            /\ IF source = "subgraph" THEN snapshot = index.proposals[1]
               ELSE view.prop = prop
            /\ {v[1] : v \in voters.votes} = prop.voted
            => VoteCount(support) = Len(list)
  /\ card.page < NumPages(CardVotes(1))

\* "You've successfully voted" is said only to who voted, whatever the order
\* of dismissals, second attempts and receipts.
SuccessIsVoted == modal.success => "me" \in prop.voted

\* What the page of a proposal says and offers is what the DAO would do.
VotePageExact ==
  VoteTypeOK /\ StatusAgrees /\ VoteOfferedInTime /\ DatesAgree
  /\ VotersShown /\ SuccessIsVoted
=============================================================================
