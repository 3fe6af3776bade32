----------------------------- MODULE NDAOLogicV1 ----------------------------
(***************************************************************************)
(* NDAOLogicV1 (contracts/governance/NDAOLogicV1.sol) behind NDAOProxy:    *)
(* proposals from their creation through the vote and the timelock to      *)
(* their execution, cancelation or veto.                                   *)
(*                                                                         *)
(* execute() makes one call per action of the proposal, and a call to an   *)
(* outside contract lets that contract call governance again before the    *)
(* remaining actions run: an execution is a frame on a stack, and while    *)
(* its top frame is inside an outside call everybody may act.  A failing   *)
(* action undoes everything since the frame was pushed.                    *)
(*                                                                         *)
(* Votes are those of the two vote contracts together (NToken's            *)
(* ERC721Checkpointable and CryptopunksVote).  They change at any time;    *)
(* what an account had when a block ended is fixed from then on, which is  *)
(* what those modules show of getPriorVotes.                               *)
(***************************************************************************)
EXTENDS NDAOExecutor, SequencesExt

CONSTANTS
  Vetoer,            \* vetoer_ of initialize
  Electorates,       \* pairs of everybody's votes and the total supply
  ActionLists,       \* the lists of calls that proposals are made of
  Ballots,           \* the pairs of a voter and a support value explored
  DirectTxs,         \* what an account that got the timelock would queue
  MinVotingPeriod, MaxVotingPeriod, MinVotingDelay, MaxVotingDelay,
  FirstVotingPeriod, FirstVotingDelay,
  FirstThresholdBPS, FirstQuorumBPS,
  BlockTimes,        \* seconds between two blocks
  MaxProposals,      \* bound on proposalCount
  MaxBlock,          \* bound on block.number
  MaxDepth           \* bound on executions nested in one another

ProposalMaxOperations == 10
ThresholdBPSRange == 1 .. 1000
QuorumBPSRange == 200 .. 2000

ASSUME NDAOLogicV1Assumption ==
  /\ Vetoer \in Accounts \cup {Zero}
  /\ IsFiniteSet(Accounts)
  /\ \A e \in Electorates :
       /\ e.votes \in [Accounts -> Nat]
       /\ e.totalSupply \in Nat
  /\ ActionLists \subseteq Seq(Calls)
  /\ \A c \in Calls :
       c.fn \in {"_setPendingAdmin", "_setVetoer"} => c.arg \in Address
  /\ Ballots \subseteq Accounts \X (0 .. 2)
  /\ DirectTxs \subseteq Transaction
  /\ {MinVotingPeriod, MaxVotingPeriod, MinVotingDelay, MaxVotingDelay}
       \subseteq Nat
  /\ 0 < MinVotingPeriod
  /\ FirstVotingPeriod \in MinVotingPeriod .. MaxVotingPeriod
  /\ FirstVotingDelay \in MinVotingDelay .. MaxVotingDelay
  /\ FirstThresholdBPS \in ThresholdBPSRange
  /\ FirstQuorumBPS \in QuorumBPSRange
  /\ BlockTimes \subseteq Nat \ {0}
  /\ {MaxProposals, MaxBlock, MaxDepth} \subseteq Nat

VARIABLES
  dao,           \* the storage of the proxy
  block,         \* block.number
  electorate,    \* the votes and the total supply now
  pastVotes,     \* the votes at the end of each block that is over
  frames         \* executions under way, the innermost last

vars == <<timelock, timestamp, dao, block, electorate, pastVotes, frames>>

Ids == 0 .. MaxProposals
NoReceipt ==
  [hasVoted |-> FALSE, support |-> 0, votes |-> 0,
   delay |-> 0]                \* history: the voting delay of castVote()

\* A slot of the proposals mapping that was never written.
NoProposal ==
  [proposer |-> Zero, proposalThreshold |-> 0, quorumVotes |-> 0, eta |-> 0,
   actions |-> <<>>, startBlock |-> 0, endBlock |-> 0,
   forVotes |-> 0, againstVotes |-> 0, abstainVotes |-> 0,
   canceled |-> FALSE, vetoed |-> FALSE, executed |-> FALSE,
   receipts |-> [a \in Accounts |-> NoReceipt],
   createdAt |-> 0]            \* history: the block of propose()

-----------------------------------------------------------------------------
(* Views                                                                   *)

Bps2Uint(bps, number) == (number * bps) \div 10000

\* getPriorVotes of both contracts; address(0) never has votes.
PriorVotes(a, b) == IF a = Zero THEN 0 ELSE pastVotes[b][a]

\* Variant: a tie passes.
StateTiePasses(d, id) ==
  LET p == d.proposals[id] IN
    IF p.vetoed THEN "Vetoed"
    ELSE IF p.canceled THEN "Canceled"
    ELSE IF block <= p.startBlock THEN "Pending"
    ELSE IF block <= p.endBlock THEN "Active"
    ELSE IF p.forVotes < p.againstVotes \/ p.forVotes < p.quorumVotes
    THEN "Defeated"
    ELSE IF p.eta = 0 THEN "Succeeded"
    ELSE IF p.executed THEN "Executed"
    ELSE IF timestamp >= p.eta + GracePeriod THEN "Expired"
    ELSE "Queued"

\* state(): the first condition that holds decides.
State(d, id) ==
  LET p == d.proposals[id] IN
    IF p.vetoed THEN "Vetoed"
    ELSE IF p.canceled THEN "Canceled"
    ELSE IF block <= p.startBlock THEN "Pending"
    ELSE IF block <= p.endBlock THEN "Active"
    ELSE IF p.forVotes <= p.againstVotes \/ p.forVotes < p.quorumVotes
    THEN "Defeated"
    ELSE IF p.eta = 0 THEN "Succeeded"
    ELSE IF p.executed THEN "Executed"
    ELSE IF timestamp >= p.eta + GracePeriod THEN "Expired"
    ELSE "Queued"

-----------------------------------------------------------------------------
(* Calls to the proxy                                                      *)

\* An account acts in a transaction of its own or inside an outside call.
Top == frames[Len(frames)]
CanAct == frames # <<>> => Top.outside

\* Variant: only an active proposal stands in the way of a new one.
MayProposeWhilePending(sender) ==
  LET latest == dao.latestProposalIds[sender] IN
    latest # 0 => State(dao, latest) # "Active"

\* The proposer's latest proposal must be over.
MayPropose(sender) ==
  LET latest == dao.latestProposalIds[sender] IN
    latest # 0 => State(dao, latest) \notin {"Active", "Pending"}

Propose(sender, actions) ==
  LET threshold == Bps2Uint(dao.proposalThresholdBPS, electorate.totalSupply)
      id == dao.proposalCount + 1
      start == block + dao.votingDelay
      new == [NoProposal EXCEPT
                !.proposer = sender,
                !.proposalThreshold = threshold,
                !.quorumVotes =
                  Bps2Uint(dao.quorumVotesBPS, electorate.totalSupply),
                !.actions = actions,
                !.startBlock = start,
                !.endBlock = start + dao.votingPeriod,
                !.createdAt = block]
  IN /\ CanAct
     /\ id <= MaxProposals
     /\ PriorVotes(sender, block - 1) > threshold
     /\ Len(actions) \in 1 .. ProposalMaxOperations
     /\ MayPropose(sender)
     /\ dao' = [dao EXCEPT !.proposalCount = id,
                           !.proposals[id] = new,
                           !.latestProposalIds[sender] = id]
     /\ UNCHANGED <<timelock, timestamp, block, electorate, pastVotes, frames>>

Tally(support) ==
  CASE support = 0 -> "againstVotes"
    [] support = 1 -> "forVotes"
    [] support = 2 -> "abstainVotes"

\* The proposal with one more ballot.
Counted(p, voter, support, votes) ==
  LET tallied == [p EXCEPT ![Tally(support)] = @ + votes] IN
    [tallied EXCEPT !.receipts[voter] =
       [hasVoted |-> TRUE, support |-> support, votes |-> votes,
        delay |-> dao.votingDelay]]

\* Variant: a proposal can still be voted on once its voting is over.
VotingOpenLate(id) == State(dao, id) \in {"Active", "Defeated"}

VotingOpen(id) == State(dao, id) = "Active"

\* The block whose votes count: the delay in force now is subtracted.
SnapshotBlock(p) == p.startBlock - dao.votingDelay

\* Variant: the receipt is not looked at.
NotYetVotedIgnored(id, voter) == TRUE

NotYetVoted(id, voter) == ~dao.proposals[id].receipts[voter].hasVoted

\* castVote, castVoteWithReason and castVoteBySig: the voter is the sender
\* or the signer of the ballot.  The subtraction reverts below zero.
CastVote(voter, id, support) ==
  LET p == dao.proposals[id]
      votes == PriorVotes(voter, SnapshotBlock(p))
  IN /\ CanAct
     /\ id <= dao.proposalCount
     /\ VotingOpen(id)
     /\ NotYetVoted(id, voter)
     /\ SnapshotBlock(p) >= 0
     /\ dao' = [dao EXCEPT !.proposals[id] = Counted(@, voter, support, votes)]
     /\ UNCHANGED <<timelock, timestamp, block, electorate, pastVotes, frames>>

-----------------------------------------------------------------------------
(* A proposal's transactions                                               *)

Tx(p, i) == [call |-> p.actions[i], eta |-> p.eta]
Txs(p) == {Tx(p, i) : i \in DOMAIN p.actions}

\* queueOrRevertInternal: no action may be queued already, nor twice.
AllNew(t, p) ==
  /\ Txs(p) \cap t.queued = {}
  /\ \A i, j \in DOMAIN p.actions : p.actions[i] = p.actions[j] => i = j

\* The timelock after one queueTransaction per action.
AllQueued(t, p) ==
  [t EXCEPT !.queued = @ \cup Txs(p),
            !.since = @ \cup {Entry(tx) : tx \in Txs(p)}]

QueueProposal(id) ==
  LET p == [dao.proposals[id] EXCEPT !.eta = timestamp + timelock.delay] IN
    /\ CanAct
    /\ id <= dao.proposalCount
    /\ State(dao, id) = "Succeeded"
    /\ AllNew(timelock, p)
    /\ \A tx \in Txs(p) : CanQueue(timelock, DAO, tx)
    /\ timelock' = AllQueued(timelock, p)
    /\ dao' = [dao EXCEPT !.proposals[id] = p]
    /\ UNCHANGED <<timestamp, block, electorate, pastVotes, frames>>

\* The timelock after one cancelTransaction per action.
AllCanceled(t, p) == [t EXCEPT !.queued = @ \ Txs(p)]

\* The timelock refuses a DAO that is no longer its admin.
CanCancelAll(t, p) == p.actions # <<>> => CanCancel(t, DAO)

\* cancel(): by the proposer, or by anyone once the proposer has too few
\* votes; a proposal in any state but Executed.
CancelProposal(sender, id) ==
  LET p == dao.proposals[id] IN
    /\ CanAct
    /\ id <= dao.proposalCount
    /\ State(dao, id) # "Executed"
    /\ \/ sender = p.proposer
       \/ PriorVotes(p.proposer, block - 1) < p.proposalThreshold
    /\ CanCancelAll(timelock, p)
    /\ dao' = [dao EXCEPT !.proposals[id].canceled = TRUE]
    /\ timelock' = AllCanceled(timelock, p)
    /\ UNCHANGED <<timestamp, block, electorate, pastVotes, frames>>

\* Variant: a veto leaves the timelock alone.
VetoKeepsQueue(sender, id) ==
  /\ CanAct
  /\ id <= dao.proposalCount
  /\ sender = dao.vetoer
  /\ State(dao, id) # "Executed"
  /\ dao' = [dao EXCEPT !.proposals[id].vetoed = TRUE]
  /\ UNCHANGED <<timelock, timestamp, block, electorate, pastVotes, frames>>

Veto(sender, id) ==
  LET p == dao.proposals[id] IN
    /\ CanAct
    /\ id <= dao.proposalCount
    /\ sender = dao.vetoer
    /\ State(dao, id) # "Executed"
    /\ CanCancelAll(timelock, p)
    /\ dao' = [dao EXCEPT !.proposals[id].vetoed = TRUE]
    /\ timelock' = AllCanceled(timelock, p)
    /\ UNCHANGED <<timestamp, block, electorate, pastVotes, frames>>

-----------------------------------------------------------------------------
(* The admin's and the vetoer's calls.  The admin is the timelock, unless  *)
(* a vote hands the role on.                                               *)

\* The settings, the function that sets each and the values it accepts.
Setting(fn) ==
  CASE fn = "_setVotingDelay"          -> "votingDelay"
    [] fn = "_setVotingPeriod"         -> "votingPeriod"
    [] fn = "_setProposalThresholdBPS" -> "proposalThresholdBPS"
    [] fn = "_setQuorumVotesBPS"       -> "quorumVotesBPS"
Setters == {"_setVotingDelay", "_setVotingPeriod",
            "_setProposalThresholdBPS", "_setQuorumVotesBPS"}
Allowed(fn) ==
  CASE fn = "_setVotingDelay"          -> MinVotingDelay .. MaxVotingDelay
    [] fn = "_setVotingPeriod"         -> MinVotingPeriod .. MaxVotingPeriod
    [] fn = "_setProposalThresholdBPS" -> ThresholdBPSRange
    [] fn = "_setQuorumVotesBPS"       -> QuorumBPSRange

\* _burnVetoPower is _setVetoer(address(0)).
DaoCalls == Setters \cup {"_setPendingAdmin", "_acceptAdmin", "_setVetoer"}

CanDaoCall(d, sender, c) ==
  CASE c.fn \in Setters            -> sender = d.admin /\ c.arg \in Allowed(c.fn)
    [] c.fn = "_setPendingAdmin"   -> sender = d.admin
    [] c.fn = "_acceptAdmin"       -> sender = d.pendingAdmin
    [] c.fn = "_setVetoer"         -> sender = d.vetoer

DaoCall(d, sender, c) ==
  CASE c.fn \in Setters            -> [d EXCEPT ![Setting(c.fn)] = c.arg]
    [] c.fn = "_setPendingAdmin"   -> [d EXCEPT !.pendingAdmin = c.arg]
    [] c.fn = "_acceptAdmin"       ->
         [d EXCEPT !.admin = sender, !.pendingAdmin = Zero]
    [] c.fn = "_setVetoer"         -> [d EXCEPT !.vetoer = c.arg]

AccountCalls(sender, c) ==
  /\ CanAct
  /\ c.fn \in DaoCalls
  /\ CanDaoCall(dao, sender, c)
  /\ dao' = DaoCall(dao, sender, c)
  /\ UNCHANGED <<timelock, timestamp, block, electorate, pastVotes, frames>>

\* What a call of the timelock does to the timelock and to the proxy; a call
\* to any other contract does nothing to either.
CanMake(t, d, c) ==
  /\ c.fn \in SelfCalls => CanSelfCall(t, c)
  /\ c.fn \in DaoCalls => CanDaoCall(d, Executor, c)
TimelockAfter(t, c) == IF c.fn \in SelfCalls THEN SelfCall(t, c) ELSE t
DaoAfter(d, c) == IF c.fn \in DaoCalls THEN DaoCall(d, Executor, c) ELSE d

-----------------------------------------------------------------------------
(* execute()                                                               *)

Saved ==
  [timelock |-> timelock, dao |-> dao, electorate |-> electorate]

Execute(id) ==
  /\ CanAct
  /\ id <= dao.proposalCount
  /\ State(dao, id) = "Queued"
  /\ Len(frames) < MaxDepth
  /\ dao' = [dao EXCEPT !.proposals[id].executed = TRUE]
  /\ frames' = Append(frames, [id |-> id, next |-> 1, outside |-> FALSE,
                               saved |-> Saved])
  /\ UNCHANGED <<timelock, timestamp, block, electorate, pastVotes>>

\* The action whose turn it is.
Running == frames # <<>> /\ ~Top.outside
NextTx == Tx(dao.proposals[Top.id], Top.next)
ActionsLeft == Top.next <= Len(dao.proposals[Top.id].actions)

\* timelock.executeTransaction for the next action: a call to governance is
\* done at once, any other hands control to the called contract.
ExecuteAction ==
  LET t == Run(timelock, NextTx)
      c == NextTx.call
  IN /\ Running
     /\ ActionsLeft
     /\ CanRun(timelock, DAO, NextTx)
     /\ CanMake(t, dao, c)
     /\ timelock' = TimelockAfter(t, c)
     /\ dao' = DaoAfter(dao, c)
     /\ frames' = [frames EXCEPT
                     ![Len(frames)].next = @ + 1,
                     ![Len(frames)].outside = c.fn \notin SelfCalls \cup DaoCalls]
     /\ UNCHANGED <<timestamp, block, electorate, pastVotes>>

ReturnFromCall ==
  /\ frames # <<>>
  /\ Top.outside
  /\ frames' = [frames EXCEPT ![Len(frames)].outside = FALSE]
  /\ UNCHANGED <<timelock, timestamp, dao, block, electorate, pastVotes>>

\* Variant: a failing action is skipped; what the others did stays.
RevertSkips ==
  /\ frames # <<>>
  /\ \/ Top.outside
     \/ ActionsLeft /\ ~(CanRun(timelock, DAO, NextTx)
                         /\ CanMake(Run(timelock, NextTx), dao, NextTx.call))
  /\ frames' = Front(frames)
  /\ UNCHANGED <<timelock, dao, electorate, timestamp, block, pastVotes>>

\* The next action is refused, or the called contract fails: the whole
\* execute() is undone.
RevertExecution ==
  /\ frames # <<>>
  /\ \/ Top.outside
     \/ ActionsLeft /\ ~(CanRun(timelock, DAO, NextTx)
                         /\ CanMake(Run(timelock, NextTx), dao, NextTx.call))
  /\ timelock' = Top.saved.timelock
  /\ dao' = Top.saved.dao
  /\ electorate' = Top.saved.electorate
  /\ frames' = Front(frames)
  /\ UNCHANGED <<timestamp, block, pastVotes>>

FinishExecution ==
  /\ Running
  /\ ~ActionsLeft
  /\ frames' = Front(frames)
  /\ UNCHANGED <<timelock, timestamp, dao, block, electorate, pastVotes>>

-----------------------------------------------------------------------------
(* The timelock under another admin; the chain                             *)

\* executeTransaction of an account: nothing is read after the call, so a
\* call that comes back to governance is the same as one that follows.
ExecuteTransaction(sender, tx) ==
  LET t == Run(timelock, tx) IN
    /\ CanRun(timelock, sender, tx)
    /\ CanMake(t, dao, tx.call)
    /\ timelock' = TimelockAfter(t, tx.call)
    /\ dao' = DaoAfter(dao, tx.call)

TimelockCall(sender) ==
  /\ CanAct
  /\ \/ AcceptAdmin(sender) /\ UNCHANGED dao
     \/ \E tx \in DirectTxs : QueueTransaction(sender, tx) /\ UNCHANGED dao
     \/ \E tx \in DirectTxs : CancelTransaction(sender, tx) /\ UNCHANGED dao
     \/ \E tx \in DirectTxs : ExecuteTransaction(sender, tx)
  /\ UNCHANGED <<timestamp, block, electorate, pastVotes, frames>>

\* Mints, transfers and delegations.
ElectorateChanges ==
  /\ CanAct
  /\ electorate' \in Electorates
  /\ UNCHANGED <<timelock, timestamp, dao, block, pastVotes, frames>>

NextBlock ==
  /\ frames = <<>>
  /\ block < MaxBlock
  /\ block' = block + 1
  /\ \E dt \in BlockTimes : timestamp' = timestamp + dt
  /\ timestamp' <= MaxTime
  /\ pastVotes' = [pastVotes EXCEPT ![block] = electorate.votes]
  /\ UNCHANGED <<timelock, dao, electorate, frames>>

\* initialize() through the proxy's constructor, one block after genesis.
Init ==
  /\ timelock = TimelockDeployed
  /\ timestamp = 1
  /\ dao = [proposals |-> [id \in Ids |-> NoProposal],
            proposalCount |-> 0,
            latestProposalIds |-> [a \in Accounts |-> 0],
            admin |-> Executor, pendingAdmin |-> Zero, vetoer |-> Vetoer,
            votingDelay |-> FirstVotingDelay,
            votingPeriod |-> FirstVotingPeriod,
            proposalThresholdBPS |-> FirstThresholdBPS,
            quorumVotesBPS |-> FirstQuorumBPS]
  /\ block = 1
  /\ electorate \in Electorates
  /\ pastVotes = [b \in 0 .. MaxBlock |-> electorate.votes]
  /\ frames = <<>>

Next ==
  \/ \E a \in Accounts :
       \/ \E actions \in ActionLists : Propose(a, actions)
       \/ \E id \in Ids : CancelProposal(a, id)
       \/ \E id \in Ids : Veto(a, id)
       \/ \E c \in Calls : AccountCalls(a, c)
       \/ TimelockCall(a)
  \/ \E id \in Ids, b \in Ballots : CastVote(b[1], id, b[2])
  \/ \E id \in Ids : QueueProposal(id)
  \/ \E id \in Ids : Execute(id)
  \/ ExecuteAction
  \/ ReturnFromCall
  \/ RevertExecution
  \/ FinishExecution
  \/ ElectorateChanges
  \/ NextBlock

Spec == Init /\ [][Next]_vars

-----------------------------------------------------------------------------
(* Properties                                                              *)

Receipt == [hasVoted : BOOLEAN, support : 0 .. 2, votes : Nat, delay : Nat]
Proposal ==
  [proposer : Accounts \cup {Zero}, proposalThreshold : Nat,
   quorumVotes : Nat, eta : Nat, actions : ActionLists \cup {<<>>},
   startBlock : Nat, endBlock : Nat,
   forVotes : Nat, againstVotes : Nat, abstainVotes : Nat,
   canceled : BOOLEAN, vetoed : BOOLEAN, executed : BOOLEAN,
   receipts : [Accounts -> Receipt], createdAt : Nat]

\* Every variable has its type, and the settings stay in their ranges
\* whoever sets them.
TypeOK ==
  /\ timelock.admin \in Address /\ timelock.pendingAdmin \in Address
  /\ timelock.delay \in MinimumDelay .. MaximumDelay
  /\ \A tx \in timelock.queued : tx.call \in Calls /\ tx.eta \in Nat
  /\ \A id \in Ids : dao.proposals[id] \in Proposal
  /\ dao.proposalCount \in Ids
  /\ dao.latestProposalIds \in [Accounts -> Ids]
  /\ dao.admin \in Address /\ dao.pendingAdmin \in Address
  /\ dao.vetoer \in Address
  /\ \A fn \in Setters : dao[Setting(fn)] \in Allowed(fn)
  /\ Len(frames) <= MaxDepth

\* No account ever has two proposals that are pending or active, although
\* only the latest one is looked at when it proposes again.
OneLiveProposal ==
  \A i, j \in 1 .. dao.proposalCount :
    /\ dao.proposals[i].proposer = dao.proposals[j].proposer
    /\ State(dao, i) \in {"Pending", "Active"}
    /\ State(dao, j) \in {"Pending", "Active"}
    => i = j

\* The votes for one side, counted again from the ballots with the votes
\* each voter had when the block of propose() ended.
Recount(p, support) ==
  MapThenSumSet(LAMBDA a : pastVotes[p.createdAt][a],
                {a \in Accounts : /\ p.receipts[a].hasVoted
                                  /\ p.receipts[a].support = support})

\* A ballot on p was cast under another voting delay than p was created with.
DelayMoved(p) ==
  \E a \in Accounts : /\ p.receipts[a].hasVoted
                      /\ p.receipts[a].delay # p.startBlock - p.createdAt

\* Every tally is the sum over its voters, each counted once, of the votes
\* they had at the block the proposal was created: nothing an account does
\* with its punks afterwards changes what its ballot weighs.  The exception
\* is a proposal voted on under another voting delay than its own, because
\* castVote subtracts the delay of the moment; one whose ballots were cast
\* before a new delay, or after it was taken back, is counted right.
VotesCountFromCreation ==
  \A id \in 1 .. dao.proposalCount, support \in 0 .. 2 :
    LET p == dao.proposals[id] IN
      ~DelayMoved(p) => p[Tally(support)] = Recount(p, support)

\* No transaction runs until MINIMUM_DELAY after each time it was queued, or
\* without having been queued, whichever admin runs it and however the delay
\* was changed in between.
NothingRunsEarly ==
  \A r \in Range(timelock.ran) :
    /\ \E s \in timelock.since : s.tx = r.tx
    /\ \A s \in timelock.since :
         s.tx = r.tx => s.at + MinimumDelay <= r.at

\* No transaction runs twice, even when the contract it calls executes other
\* proposals, or the same one again, before it returns.
NothingRunsTwice ==
  \A i, j \in DOMAIN timelock.ran :
    timelock.ran[i].tx = timelock.ran[j].tx => i = j

\* What runs was queued, has waited and runs once.
RunsOnceInTime == NothingRunsEarly /\ NothingRunsTwice

\* As long as no vote has handed the timelock to another admin.
DaoRules == timelock.admin = DAO

\* Whatever has run is an action of a proposal that won its vote, was
\* neither canceled nor vetoed, and was executed.
OnlyPassedProposalsRun ==
  DaoRules => \A r \in Range(timelock.ran) :
    \E id \in 1 .. dao.proposalCount :
      LET p == dao.proposals[id] IN
        /\ r.tx \in Txs(p)
        /\ p.executed /\ ~p.canceled /\ ~p.vetoed
        /\ block > p.endBlock
        /\ p.forVotes > p.againstVotes /\ p.forVotes >= p.quorumVotes

\* Where the i-th action of the proposal p has run.
Places(p, i) == {k \in DOMAIN timelock.ran : timelock.ran[k].tx = Tx(p, i)}

\* A proposal marked as executed has run each of its actions once, in order
\* and in one transaction; one that failed half way has run none.
AllOrNothing ==
  frames = <<>> /\ DaoRules =>
    \A id \in 1 .. dao.proposalCount :
      LET p == dao.proposals[id] IN
        IF p.executed
        THEN \A i \in DOMAIN p.actions :
               /\ \E k \in DOMAIN timelock.ran : Places(p, i) = {k}
               /\ \A j \in 1 .. i - 1 :
                    \A k \in Places(p, i), l \in Places(p, j) :
                      l < k /\ timelock.ran[l].at = timelock.ran[k].at
        ELSE \A r \in Range(timelock.ran) : r.tx \in Txs(p) =>
               \E other \in 1 .. dao.proposalCount :
                 dao.proposals[other].executed /\ r.tx \in Txs(dao.proposals[other])

\* The timelock holds no transaction without a proposal that is waiting for
\* it: what a canceled, vetoed or executed proposal queued is gone.
NoStrayTransaction ==
  frames = <<>> /\ DaoRules =>
    \A tx \in timelock.queued : \E id \in 1 .. dao.proposalCount :
      /\ tx \in Txs(dao.proposals[id])
      /\ State(dao, id) \in {"Queued", "Expired"}

\* The storage of DAO and timelock is sound, settings and queue included.
StorageSound == TypeOK /\ NoStrayTransaction

\* The storage as of the last transaction that is over.
Committed == IF frames = <<>> THEN dao ELSE frames[1].saved.dao
CommittedState(id) == State(Committed, id)

\* Where the state of a proposal may go, cancelation and veto apart.
Forward(from) ==
  CASE from = "Pending"   -> {"Active"}
    [] from = "Active"    -> {"Defeated", "Succeeded"}
    [] from = "Succeeded" -> {"Queued"}
    [] from = "Queued"    -> {"Executed", "Expired"}
    [] OTHER              -> {}

\* The state of a proposal only moves forward: an outcome is never reversed
\* by late votes, new settings or the clock, an executed proposal stays
\* executed and a vetoed one vetoed.
StatesMoveForward ==
  [][\A id \in 1 .. Committed.proposalCount :
       \/ CommittedState(id)' = CommittedState(id)
       \/ CommittedState(id)' \in Forward(CommittedState(id))
       \/ /\ CommittedState(id)' = "Canceled"
          /\ CommittedState(id) \notin {"Executed", "Vetoed"}
       \/ /\ CommittedState(id)' = "Vetoed"
          /\ CommittedState(id) # "Executed"]_vars

\* A proposal that is Queued has its transactions in the timelock, so that
\* execute() runs it once its eta has come.
QueuedIsExecutable ==
  frames = <<>> /\ DaoRules =>
    \A id \in 1 .. dao.proposalCount :
      State(dao, id) = "Queued" => Txs(dao.proposals[id]) \subseteq timelock.queued
=============================================================================
