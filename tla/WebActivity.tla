---------------------------- MODULE WebActivity -----------------------------
(***************************************************************************)
(* The history of a punk on its auction page (wrappers/nActivity.ts,       *)
(* components/ProfileActivityFeed): what the subgraph recorded of its      *)
(* transfers, of the changes of its delegate and of the votes cast with    *)
(* it, with the mint and the end of its auction replaced by one "win".     *)
(*                                                                         *)
(* Five queries are sent at once and answered in any order, each from the  *)
(* subgraph as it is then; Apollo keeps the answers.  The entities come in *)
(* the order of their ids, which start with a transaction's hash, so a new *)
(* one may come anywhere (here: first or last).  A block stands for its    *)
(* time too.                                                               *)
(***************************************************************************)
EXTENDS Integers, Sequences, SequencesExt, TLC

CONSTANTS
  Holders,         \* accounts that may hold the punk or represent it
  AboveFold,       \* MAX_EVENTS_SHOW_ABOVE_FOLD
  VotingPeriod,    \* blocks from the creation of a proposal to its end
  MaxHistory       \* bound on transactions after the mint

ASSUME WebActivityAssumption ==
  {AboveFold, VotingPeriod, MaxHistory} \subseteq Nat \ {0}

VARIABLES
  punk,            \* is it a reward, was it won, by whom (win), when did the
                   \* next auction start and does the app know of that one
  graph,           \* what the subgraph has indexed
  height,          \* block it has indexed
  txs,             \* transactions so far
  answers,         \* query -> state and data
  isExpanded

activityVars == <<punk, graph, height, txs, answers, isExpanded>>

Nothing == "undefined"
HistoryQueries == {"votes", "timestamps", "transfers", "delegations"}
NoAnswers == [q \in HistoryQueries \cup {"proposals"} |->
                [state |-> "loading", data |-> <<>>]]

Event(type, block, tx, to) ==
  [type |-> type, block |-> block, tx |-> tx, to |-> to]

-----------------------------------------------------------------------------
(* The subgraph, as SubgraphToken and SubgraphDAO model it.                *)

\* What comes after the last answer, or after an error, is not seen.
Waiting ==
  /\ \E q \in DOMAIN answers : answers[q].state = "loading"
  /\ \A q \in DOMAIN answers : answers[q].state # "error"

\* A transaction in this block or in the next one.
InTransaction(b) ==
  /\ Waiting /\ txs < MaxHistory
  /\ txs' = txs + 1
  /\ b \in {height, height + 1}
  /\ height' = b
  /\ UNCHANGED <<answers, isExpanded>>

\* For transfers and delegations the order matters within a block only, as
\* they are sorted by blocks.
Inserted(s, e, first) == IF first THEN <<e>> \o s ELSE Append(s, e)

\* handleTransfer records a change of delegate with every transfer.
WithTransfer(g, b, to, first) ==
  [g EXCEPT
     !.transfers = Inserted(@, Event("TRANSFER", b, txs', to), first),
     !.delegations = Inserted(@, Event("DELEGATION", b, txs', to), first),
     !.delegate = to]

\* The auction is settled and the next one is created, in the same
\* transaction or, when the house was paused, a block later.
Settle(b, winner, pause) ==
  /\ ~punk.won
  /\ InTransaction(b)
  /\ graph' = WithTransfer(graph, b, winner, FALSE)
  /\ punk' = [punk EXCEPT
                !.won = TRUE,
                !.win = Event("AUCTION_WIN", b, txs', winner),
                !.next = b + pause]

Transfer(b, to) ==
  /\ punk.won
  /\ InTransaction(b)
  /\ \E first \in {FALSE, b = height} : graph' = WithTransfer(graph, b, to, first)
  /\ UNCHANGED punk

\* handleDelegateChanged, of the holder of the punk.
DelegateTo(b, to) ==
  /\ punk.won
  /\ InTransaction(b)
  /\ \E first \in {FALSE, b = height} :
       graph' = [graph EXCEPT
                   !.delegations =
                      Inserted(@, Event("DELEGATION", b, txs', to), first),
                   !.delegate = to]
  /\ UNCHANGED punk

NewProposal(b) ==
  [created |-> b, end |-> b + VotingPeriod, cancelled |-> FALSE, count |-> 0]

Propose(b) ==
  /\ InTransaction(b)
  /\ graph' = [graph EXCEPT !.proposals = Append(@, NewProposal(b))]
  /\ UNCHANGED punk

Cancel(b, i) ==
  /\ ~graph.proposals[i].cancelled
  /\ InTransaction(b)
  /\ graph' = [graph EXCEPT !.proposals[i].cancelled = TRUE]
  /\ UNCHANGED punk

\* handleVoteCast: the vote is recorded for the punks that the voter
\* represents, at most one of a voter.
CastVote(b, i) ==
  /\ punk.won
  /\ LET p == graph.proposals[i] IN
     ~p.cancelled /\ p.created < b /\ b <= p.end
  /\ \A k \in DOMAIN graph.votes :
       graph.votes[k].proposal = i => graph.votes[k].voter # graph.delegate
  /\ InTransaction(b)
  /\ \E first \in BOOLEAN :
       graph' = [graph EXCEPT
                   !.proposals[i].count = @ + 1,
                   !.votes = Inserted(@, [proposal |-> i, block |-> b,
                                          voter |-> graph.delegate], first)]
  /\ UNCHANGED punk

-----------------------------------------------------------------------------
(* The queries.                                                            *)

\* proposals: by their time of creation, as for createTimestampAllProposals.
Result(q) ==
  IF q = "timestamps"
  THEN [i \in DOMAIN graph.proposals |-> graph.proposals[i].created]
  ELSE graph[q]

\* A query of the history fails or is answered; that of the proposals has
\* the chain to fall back on.  After a failure the others do not matter.
AnswerQuery(q) ==
  /\ Waiting /\ answers[q].state = "loading"
  /\ \/ answers' = [answers EXCEPT ![q] = [state |-> "data", data |-> Result(q)]]
     \/ /\ q # "proposals"
        /\ answers' = [NoAnswers EXCEPT ![q].state = "error"]
  /\ UNCHANGED <<punk, graph, height, txs, isExpanded>>

-----------------------------------------------------------------------------
(* The hooks.                                                              *)

\* useTokenCanVoteTimestamp: 0 when the next auction is not among the past
\* auctions, which for the last but one stays so if it was created after
\* these were loaded.
CanVoteTimestamp == IF punk.nextKnown THEN punk.next ELSE 0

\* useAllProposals: none while they are loading.
AllProposals == answers.proposals.data

\* Proposals and their times of creation are matched by position.  A
\* proposal that the earlier answer does not have makes the page fail.
FeedThrows ==
  /\ answers.votes.state = "data" /\ answers.timestamps.state = "data"
  /\ Len(AllProposals) > Len(answers.timestamps.data)

Filtered(i) ==
  LET p == AllProposals[i] IN
  /\ CanVoteTimestamp <= answers.timestamps.data[i]
  /\ ~(p.cancelled /\ p.count = 0)

\* The last vote on a proposal, if there is one.
NounVote(i) ==
  LET of == SelectSeq(answers.votes.data, LAMBDA v : v.proposal = i) IN
  IF of = <<>>
  THEN [block |-> AllProposals[i].end, voter |-> Nothing]
  ELSE [block |-> Last(of).block, voter |-> Last(of).voter]

VoteEvent(i) == Event("PROPOSAL_VOTE", NounVote(i).block, i, NounVote(i).voter)

\* useNounProposalVoteEvents
NounProposalVoteEvents ==
  LET ids == SelectSeq([i \in DOMAIN AllProposals |-> i], Filtered) IN
  [k \in DOMAIN ids |-> VoteEvent(ids[k])]

\* The sort of JavaScript is stable.
ByBlock(s) ==
  LET before(i, j) ==
        s[i].block < s[j].block \/ (s[i].block = s[j].block /\ i < j)
      order == SortSeq([i \in DOMAIN s |-> i], before)
  IN  [k \in DOMAIN s |-> s[order[k]]]

\* Array.slice(0, n)
SliceTo(s, n) ==
  LET to == IF n < 0 THEN Len(s) + n ELSE n IN
  SubSeq(s, 1, IF to > Len(s) THEN Len(s) ELSE to)

\* Variant: every punk was auctioned.
BirthEventsOfAuction == 4

\* The mint and the auction's end are a transfer and a delegation each; a
\* reward is only minted.
BirthEvents == IF punk.nounder THEN 2 ELSE 4

\* The win, read from the first transfer of a reward and from the second of
\* another punk.  What is thrown when there is none is caught.
TokenWinEvent ==
  LET transfers == ByBlock(answers.transfers.data)
      k == IF punk.nounder THEN 1 ELSE 2 IN
  IF k > Len(transfers) THEN <<>>
  ELSE <<[transfers[k] EXCEPT !.type = "AUCTION_WIN"]>>

\* useNounActivity
NounActivity ==
  LET events == Reverse(ByBlock(NounProposalVoteEvents \o answers.transfers.data
                                \o answers.delegations.data)) IN
  SliceTo(events, Len(events) - BirthEvents) \o TokenWinEvent

\* ProfileActivityFeed: a spinner while there is no data, for good after an
\* error.
FeedShown == \A q \in HistoryQueries : answers[q].state = "data"

\* Desktop- and MobileProfileActivityFeed: the first events and, expanded,
\* the others below them.
Rows(events) ==
  SliceTo(events, AboveFold)
  \o (IF isExpanded THEN SubSeq(events, AboveFold + 1, Len(events)) ELSE <<>>)

\* ProfileActivityFeedToggle
ToggleCallback ==
  /\ FeedShown /\ ~FeedThrows
  /\ Len(NounActivity) > AboveFold
  /\ isExpanded' = ~isExpanded
  /\ UNCHANGED <<punk, graph, height, txs, answers>>

-----------------------------------------------------------------------------

\* The punk is minted in block 1, to the DAO or to the auction house; a
\* proposal may be older.
ActivityInit ==
  /\ height = 1 /\ txs = 0
  /\ \E nounder, nextKnown \in BOOLEAN, to \in Holders :
       /\ punk = [nounder |-> nounder, nextKnown |-> nextKnown,
                  won |-> nounder, win |-> Event("AUCTION_WIN", 1, 0, to),
                  next |-> 1]
       /\ \E old \in {<<>>, <<NewProposal(0)>>} :
            graph = [transfers |-> <<Event("TRANSFER", 1, 0, to)>>,
                     delegations |-> <<Event("DELEGATION", 1, 0, to)>>,
                     proposals |-> old, votes |-> <<>>, delegate |-> to]
  /\ answers = NoAnswers
  /\ isExpanded = FALSE

Index(b) ==
  \/ \E to \in Holders, pause \in {0, 1} : Settle(b, to, pause)
  \/ \E to \in Holders : Transfer(b, to) \/ DelegateTo(b, to)
  \/ Propose(b)
  \/ \E i \in DOMAIN graph.proposals : Cancel(b, i) \/ CastVote(b, i)

ActivityNext ==
  \/ \E b \in height .. height + 1 : Index(b)
  \/ \E q \in DOMAIN answers : AnswerQuery(q)
  \/ ToggleCallback

-----------------------------------------------------------------------------
(* Properties                                                              *)

\* Events of the punk after it was won.
Later(s) == {e \in ToSet(s) : e.block > punk.win.block}

\* The answers have the win, nothing else happened to the punk in its block,
\* and the app knows the auction that followed or all proposals are younger.
Regular ==
  /\ punk.won
  /\ punk.nextKnown \/ \A i \in DOMAIN AllProposals :
                         AllProposals[i].created >= punk.next
  /\ \A s \in {answers.transfers.data, answers.delegations.data} :
       /\ \E e \in ToSet(s) : e.tx = punk.win.tx
       /\ \A e \in ToSet(s) : e.block = punk.win.block => e.tx = punk.win.tx

\* From transfers and delegations in the order of hashes, of which the mint
\* and the end of the auction are cut off by their number, the history that
\* is shown has, newest first, all that happened later once and nothing of
\* the birth, and ends with who won the punk, whenever the queries were
\* answered.
ActivityExact ==
  FeedShown /\ ~FeedThrows /\ Regular =>
    LET later == Later(answers.transfers.data) \cup Later(answers.delegations.data)
                 \cup {VoteEvent(i) : i \in {k \in DOMAIN AllProposals :
                        /\ AllProposals[k].created >= punk.next
                        /\ ~AllProposals[k].cancelled
                           \/ AllProposals[k].count > 0}}
        feed == NounActivity IN
    /\ Last(feed) = punk.win
    /\ ToSet(Front(feed)) = later
    /\ Len(feed) = Cardinality(later) + 1
    /\ \A i, j \in 1 .. Len(feed) - 1 :
         i < j => feed[i].block >= feed[j].block
    /\ isExpanded => Rows(feed) = feed
=============================================================================
