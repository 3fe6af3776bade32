# Verification of the punks DAO

TLA+ models of this repository: the contracts, the subgraph that indexes them,
the bots and the web app that read both, and the tasks that deploy everything.
They are model-checked with TLC on small instances. What the token, the auction
house, the token lists, both vote contracts, the DAO, its timelock, the bots and
the governance pages promise is also proved with TLAPS, for every instance,
liveness apart.

Paths are relative to `packages/punks-contracts/contracts/`, or to `packages/`
when they start with the name of a package. `PROJECT.json` maps every
definition to the lines it models and lists the hazards, the properties that
would catch each of them and, for every property, a plausible error in the code
that TLC shows the property to notice.

## The system

| Part | State it keeps | Operations | Talks to |
| --- | --- | --- | --- |
| `NToken.sol` over `base/ERC721.sol` | owners, approvals, operators, next id, seed of each punk, taken seed hashes, minter, id shift, locks | `mint`, `burn`, transfers, approvals, setters, locks, `registerOGHashes` | asks the seeder for seeds; called by the auction house |
| `base/ERC721Enumerable.sol` | the list of every owner's punks and of all punks, with indexes | the hook before each mint, transfer and burn | `totalSupply` feeds quorum and threshold of the DAO |
| `base/ERC721Checkpointable.sol` | delegates, checkpoints, nonces | `delegate`, `delegateBySig`, the transfer hook, `getPriorVotes` | votes feed the DAO |
| `CryptopunksVote.sol` | delegate of each OG punk, checkpoints, nonces | `delegate`, `delegateBatch`, both by signature | reads the OG punk market and its wrapper; votes feed the DAO |
| `NAuctionHouse.sol` | the auction, pause flag, re-entrancy guard, settings | `createBid`, two settlements, `pause`, `unpause`, setters | mints, burns and sends punks; pays in ETH or WETH |
| `governance/NDAOExecutor.sol` | admin, pending admin, delay, queued transactions | queue, cancel, execute, `setDelay`, hand-over | calls any contract; owns the others |
| `governance/NDAOLogicV1.sol` behind `NDAOProxy.sol` | proposals, receipts, settings, roles | `propose`, votes, `queue`, `execute`, `cancel`, `veto`, setters | reads both vote contracts, drives the executor |
| `NSeeder.sol` | packed probability tables, weights, exclusions | `generateSeed`, setters | called by `NToken`, filled by a task |
| `NArt.sol`, `NDescriptor*.sol`, `SVGRenderer.sol` | pages of images, palettes | add art, choose parts, draw | called by `NToken.tokenURI` |
| `punks-contracts/tasks` | addresses deployed so far, progress of the process | deploy, configure, populate, register, start, verify, publish | an operator at prompts, the chain |
| `punks-subgraph` | entities: accounts, delegates, punks, auctions, bids, proposals, votes | one handler per event | reads events; answers bots and web app |
| `punks-bots` | last auction, bid, thread and proposals seen, in Redis | two periodic ticks, setup | reads the subgraph, posts to Twitter and Discord |
| `punks-webapp` | redux store, component states, Apollo's cache | handlers, effects, timers, queries | socket, subgraph, Etherscan, ENS, wallet |
| `punks-sdk`, `punks-assets` | none | run-length encoder, SVG builder, choice of images | used by web app and tasks |
| `punks-api` | a cache of metadata | one read | `tokenURI` |

What is hard. Transactions are atomic, so on the chain the interleavings that
matter are those where a contract hands control to another in the middle of its
work (the refund in `createBid`, the calls of `execute`), and long sequences of
legal calls by parties that do not coordinate: pausing and new settings around
a live auction, transfers and delegations that must keep three derived
structures in step, proposals that share actions and are canceled, vetoed or
re-entered. Off the chain everything is concurrent and fails: handlers of one
transaction's events that save stale copies of an entity; ticks that die
between a post and the cache that remembers it; effects, timers, sockets,
answers and receipts that reach a page in any order; a deployment that predicts
addresses from a nonce that others use too, and that may die at every await.

## The modules

Conventions. A call that reverts, or a handler that returns early, is a step
that is not enabled. A contract that others call inside one transaction has its
storage in one record and its functions as operators on that record (`token`,
`timelock`, `dao`). Between two awaits JavaScript is not interrupted, so a step
of the bots, tasks and pages is what runs between two of them. An operator under
the comment *Variant* is a plausible error in the definition that follows it.

### Contracts

| Module | Code | How it corresponds |
| --- | --- | --- |
| `NToken` | `NToken.sol`, `base/ERC721.sol` | `TokenStorage` is the storage; `CanX` are the requires of function x and `Xed` its effect. `FreeHashes` is the outcome of the salted retry loop: any hash nobody uses. Ids from outside go through `Shifted` and `Unshift`, as in the code. |
| `NAuctionHouse` | `NAuctionHouse.sol` with token, ETH and WETH | `createBid` without a refund, or with one in WETH, is one step; with one in ETH it is two, `CreateBidRefundETH` up to the call and `ReturnFromRefund` after it, and every other function may run in between. `frames` holds the suspended call with its copy of the auction; `entered` is the guard; `spent` is history. |
| `EnglishAuction` | what `NAuctionHouse` promises | One lot at a time: `Open`, `Bid`, `Close`, `CloseAndOpen`, and `Elsewhere` for all that leaves the lot alone. `NAuctionHouse` instantiates it with the mapping `Lot`. |
| `Checkpoints` | the checkpoint functions both vote contracts have | `WriteCheckpoint`, and `Search`, the binary search, as a recursive function. |
| `ERC721Checkpointable` | the file of that name | `TransferToken` is the hook under mint, transfer and burn, `Moved` is `_moveDelegates`. `history` keeps the votes at the end of each block. |
| `CryptopunksVote` | the file of that name | `DelegateOne` is `_delegate`; a batch is a frame that delegates punk by punk and either finishes or undoes all. Market and wrapper are external. |
| `ERC721Enumerable` | the file of that name | `Mint`, `Transfer`, `Burn` are the hook followed by the change of `_balances` and `_owners`. Deleted slots hold 0, which is also an id. |
| `NDAOExecutor`, `NDAOLogicV1` | `governance/` | `State` is `state()` condition by condition. `execute` is a frame on a stack: `Execute`, one `ExecuteAction` per action, `ReturnFromCall`, `FinishExecution` or `RevertExecution`, which restores what the frame saved. While the top frame is in an outside call everyone may act. Votes are an electorate that changes at any time and is frozen when a block ends, which is what the vote modules establish of `getPriorVotes`. |
| `Seeder` | `NSeeder.sol`, `tasks/populate-seeder.ts`, `NDescriptorV2.getPartsForSeed` | The document of probabilities is a constant; the words of the contract are computed from it as the task does, and unpacked and searched as the contract does. A seed is drawn step by step. |
| `OGPunks` | `tasks/create-merkle.ts`, `generate-og-punks.ts`, `register-og-punks.ts`, the hashing in `NToken` | From the rows of the original collection to 32-byte hashes, and their registration in slices. |
| `Images` | `punks-sdk/src/image`, `punks-assets`, `SVGRenderer.sol`, the palette of `populate-descriptor.ts` | The run-length encoder and the builders that draw its output, on the site and on the chain. An entry of the palette is its bytes: three from the encoder, four in the palette that is shipped, from which the builders read colour and opacity. |
| `Deployment` | `tasks/deploy*.ts`, `run-local.ts`, `populate-descriptor.ts`, `start-auction.ts`, `update-configs.ts`, `verify-etherscan.ts` | `Steps` is what a task does in order; an address is the nonce that makes it. Foreign transactions, prompts, failed creations, deaths of the process and reruns by hand come in between. |

### Off the chain

| Module | Code | How it corresponds |
| --- | --- | --- |
| `SubgraphToken` | `punks-subgraph/src/n-erc-721.ts`, `cryptopunks-vote.ts`, `og-cryptopunks.ts`, `wrapped-punk.ts`, `utils/helpers.ts` | A transaction queues its events in the order the contracts emit them and one handler runs per step. Where a handler saves a copy it loaded before another function saved the same entity, the model does too. |
| `SubgraphAuction`, `SubgraphDAO` | `n-auction-house.ts`, `n-dao.ts` | The handlers as operators on the entities; `Bots` and `WebVote` run on top of them. |
| `Bots` | `punks-bots/src` | `ticks` are `setupAuction` and the ticks of the auctions that are running, with their variables, `flows` the work of a tick or of `setupGovernance` on one proposal. A step runs from one await to the next, a timer fires whatever still runs, and every await may fail; `Restart` loses all of it and keeps Redis. |
| `WebAuctionStore`, `WebAuction`, `WebBid` | `punks-webapp/src/index.tsx`, `state/slices`, `pages/Auction`, `components/Auction*`, `components/Bid`, `wrappers/onDisplayAuction.ts` | The reducers; the socket, the fetches of `loadState` and the navigation; the bid form with its wallet. `todo` are the dispatches a handler has left, because effects run between them. Bids that are older than the 8,000 blocks of `queryFilter` are `missed`, and the form may be without the increment percentage (`Readings`). Addresses are any integers, and `None` stands for the address without a number. |
| `WebActivity` | `wrappers/nActivity.ts`, `components/ProfileActivityFeed` | The five queries behind a punk's history, answered in any order, and what is made of them. |
| `WebVote` | `pages/Vote`, `components/VoteModal`, `VoteCard`, `ProposalHeader`, `Proposals`, `wrappers/nDao.ts` | The page of a proposal, from subgraph or chain, with its transactions, dates and the pages of its voters; the DAO beneath decides. |
| `WebLogs` | `state/slices/logs.ts`, `state/updaters/logs.ts`, `hooks/useLogs.ts` | The fetching of logs in ranges, block by block. |
| `WebPropose` | `pages/CreateProposal`, `components/ProposalTransactionFormModal` | The four steps of the form, with ABIs that arrive late. |
| `WebDelegate` | `components/ChangeDelegatePannel`, `DelegationModal`, `DelegationCandidateInfo` | The dialog, with name lookups that arrive late and two delegations at once. |
| `WebApp` | `App.tsx` | Composes the pages; one is open in a behaviour. |

`MC...` modules hold the constants of a run that a configuration cannot write
down; the other runs check the module itself. `..._proofs` hold the theorems.
`Checkpoints_proofs` is about the operators that both vote contracts use;
`NAuctionHouse_proofs` starts with the token, `NDAOLogicV1_proofs` with the
timelock, and `WebApp_proofs` takes one page after the other.

## What the runs check

| Run | What it shows |
| --- | --- |
| `token` | Ids are handed out in order, no two punks ever share a seed hash, no approval outlives an owner, with the minter, the shift and the OG hashes changing under way. |
| `auction` | The house holds exactly the standing bid and every bidder is whole (`MoneyExact`), the punk on sale is the house's and nobody else can move it (`Custody`), reward punks are not sold, the contract implements `EnglishAuction`, and every auction is settled in the end: with re-entrant refunds, refused refunds, pauses, new settings and a minter role that moves. |
| `token_votes`, `og_votes` | Votes are those of the punks held or delegated, counted once; a past block's votes never change and the binary search finds them; signatures work once; no transfer is blocked by an underflow; a batch gives nobody a right over a punk that single calls would not. |
| `token_votes_by_sig` | Expected violation: a signature that names address 0 takes the signer's votes away, while `delegate` maps address 0 to the sender. |
| `token_lists` | Both lists name every punk exactly once after any sequence of mints, transfers and burns. |
| `governance_voting` | Tallies are the voters' votes at the block of creation, each counted once, while a proposal changes the voting delay, unless a ballot was cast under another delay than the proposal's own; one live proposal per account; states only move forward. |
| `governance_execution` | What ran belongs to a proposal that passed; all of its actions or none; nothing stays queued for a proposal that is over; nothing runs early, twice or unqueued; settings stay in range: with nested executions, failures, a new delay and new admins, one of whom uses the timelock directly. |
| `subgraph` | After every transaction the entities say of punks, balances, votes, representation and OG punks what the chain says. The differences the handlers do cause are counted where they arise (see below), so the property is exact and not weakened. |
| `bots` | An auction, a bid and an ending are announced at most once, proposals, votes and expiries at most once more per failure; tweets are in the thread of their auction; every proposal is announced in the end. With ticks that overlap each other and the setup functions, answers that lag, awaits that fail and restarts. What overlapping functions had seen is excepted, and stays so (`crowded`, `contended`); other auctions and proposals are not harmed by the overlap. |
| `web_app` | The store ends up with the auction of the chain; the page shows the auction its address and the store say, the bids and minimum of the auction house and a complete history; what the page of a proposal says and offers is what the DAO would do, and every voter is on a page of its card; logs are complete; a proposal's calldata fits its signature; the dialog delegates to whom was typed and counts votes once; "Bid was placed successfully" is true; the spinner ends; the logs are fetched in the end. |
| `deployment` | Contracts that validate are wired to each other whatever foreign transactions came in between; the first auction has art; ownership is only given away when nothing is left to do; addresses are published for complete deployments only; every seed that can be drawn is allowed by the document and has images; the hashes agree and no human original can be minted; pictures have the shape and the colours of the files (the encoder drops their opacity), and site and chain read the same colour and opacity from a palette of four bytes an entry; and without faults the task completes. |

Some properties state an exception: the condition under which the code is known
to do otherwise, named in the property's comment. Each such condition is a
variable or an operator of the model that says when it arises (`lost` in
`WebAuction` and `Bots`, `missed` in `WebAuction`, `seeded`, `crowded` and
`contended` in `Bots`, `edited` in `WebBid`, `DelayMoved` in `NDAOLogicV1`, the
drift counters of `SubgraphToken`), and the property holds in all other cases. What
stands behind the exceptions is under *Observations*.

### Configurations that are not runs

Each states what a comment, a message or a name in the code says, and TLC finds
the code to do otherwise.

| Configuration (module) | What it shows |
| --- | --- |
| `AuctionHouseIdShift` (`NAuctionHouse`) | With a non-zero id shift `mint` returns the storage id and the auction names another punk (`NToken.sol:415`, comment at `base/ERC721.sol:71`). |
| `GovernanceNewDelay` (`MCNDAOLogicV1`) | The exception of `VotesCountFromCreation`: after a change of the voting delay, ballots on older proposals count votes at another block than that of creation (`NDAOLogicV1.sol:515`, comment at `:42`). |
| `GovernanceCancelTwice` (`MCNDAOLogicV1`) | A canceled proposal can be canceled again and takes the equal queued transaction of another proposal with it (`NDAOLogicV1.sol:341`). |
| `BotsOverlap` (`Bots`) | The exception of `AnnouncedOnce`: `setInterval` does not wait for a tick. When two overlap, a bid is tweeted twice, although the cache is written first "to ensure we do not double tweet a bid" (`punks-bots/src/handlers/twitter.ts:32`). |
| `DeploymentPrompt` (`MCDeployment`) | `deploy-short-times.ts` asks for `confirm` (line 263) and reads `result.operation` (271-278): SKIP and EXIT have no effect. |
| `OriginalsNotMinted` (`MCDeployment`) | `create-merkle.ts:75-83` hashes aliens, apes and zombies with skin tone 0, the seeder draws 6, 5 and 4: the registered hashes of these originals never match, so that they can be minted again, which `deploy-and-configure.ts:74` wants to prevent. |

### Bounds

Two bidders or voters suffice for one to act inside the other's call. Three
punks give a reward and two auctions. Bids 2 to 4 with 50 per cent give two
overbids and an increment that is rounded. Time is only advanced to the end of
the running auction, because nothing tells later times apart, and `MaxTime` is
never reached. Three blocks give checkpoint lists of lengths 0 to 3, hence every
branch of the binary search; `CryptopunksVote`, which shares it, has two, its
blocks being bounded by `Uint32Max`, whose check is part of the code. Five punks
in the lists give gaps at the first, a middle and the last slot. Governance has
delays, periods and a grace period of one or two units, so that the next block
hits every boundary; two proposals, and executions nested to depth two. Where votes are counted, each
proposal may set another voting delay, which is in force before the other one's voting ends, and
each voter's votes move up and down.

Six transactions are enough for the subgraph to see a mint, delegations there
and back, transfers between accounts that have and have not been seen before,
and a burn, and for each drift to arise. The bots have two auctions (replies may
land in the other thread), one proposal, two bid hashes, three events and one
fault, which may fall between any two awaits. Two ticks may run at once, beside
the setup functions, and a timer fires too early once: after that overlap the run
still sees new auctions and bids, which must be announced right. The two services
share nothing in Redis, so that a behaviour has one of them. In the web app `MaxBids` allows
one foreign bid beside the user's (one is enough to overtake it), three auctions
give a first, a middle and a last page, blocks run past the start, end, queue,
delay and grace of a proposal, a card has one voter per page (12 in the code), so
that its last page is exactly full, and two late ABI answers, two typed names and
three delegations can overtake each other. The probability document of the
deployment and its counts of images are the repository's own, and draws are
taken at both sides of every boundary of a table; the images include runs at and beyond the largest
length a byte can give (`ByteMax`). Two faults include one during the recovery
from another.

Symmetry is used for the seed hashes in `token` and for the punks in
`token_votes`, runs without liveness.

Deadlock is checked in all runs but three, which may really stop: a task ends
and a seed is drawn once (`deployment`), a page has nothing left to do when the
bounded chain beneath it stands still (`web_app`), and the subgraph is done when
the last of `MaxTxs` transactions is indexed (`subgraph`).

### Fairness

* `NAuctionHouse`: weak fairness of `Tick`, because blocks keep coming; of
  `ReturnFromRefund`, because a refund call has 30,000 gas and must end; and of
  `Settle`, because both settlements are open to everyone and whoever wants the
  punk, the money or the next auction calls them. Bids and pauses are not
  assumed fair. The property is stated while a successor can be minted: when ids
  or hashes run out, which bounds the model, settlement reverts as a whole.
* `Bots`: weak fairness of `setupGovernance` and of the ticks of governance,
  because the event loop runs what is ready and `setInterval` fires again and again. Events, failures
  and restarts are not fair; failures are bounded by `MaxFaults`, which is the
  assumption that the platforms work again some day.
* `WebApp`: weak fairness of `Progress`, the steps of the page itself and the
  answers it waits for: timers, effects, blocks, receipts. They are finitely
  many in the model, so weak fairness of their disjunction lets each happen.
  The user and other people are not assumed to do anything.
* `Deployment`: weak fairness of `Progress`, the next step of the running task.
  Skips, failures, crashes and foreign transactions are not in it.

## What is proved

Assumptions are the `ASSUME`s of the modules: which account plays which role,
that numbers are numbers, and of the code's own constants that rewards are more
than one punk apart (`% 10` in `NToken.sol`), that `MINIMUM_DELAY` and
`MIN_VOTING_PERIOD` are not zero and that the first settings are in range; in the
bots no bid has the empty hash, and in the pages the empty text is no account,
name, address or function and an account resolves to itself. Sets of
accounts, ids, hashes, bids and times are arbitrary, and may be infinite where
nothing is summed over them; bounds such as `MaxBlock`, `MaxProposals` and
`MaxDepth` are arbitrary numbers.

Token and auction house:

* `NAuctionHouse_proofs!TokenSound`: `TokenSafe`, that is types, `IdsInOrder` and
  `UniqueSeeds`, which are inductive together: a minted hash is unique because
  every recorded seed marks its hash as taken, and `registerOGHashes` overwrites
  that mark only with another non-zero value.
* `NAuctionHouse_proofs!ApprovalsDie`: `ApprovalsDieWithOwner`. A transfer and a burn
  clear the approval; a mint does not, and there `IdsInOrder` says that an id that
  was never minted has none.
* `NAuctionHouse_proofs!MoneySafe`: `MoneyExact`. The inductive invariant
  `MoneyInv` adds that at most one `createBid` is suspended and that meanwhile
  the auction it copied is the one in storage, live and not ended: the guard
  keeps bids and settlements out, and the owner's calls do not touch a live
  auction. Without it the bid written after the refund could replace another
  auction's.
* `NAuctionHouse_proofs!CustodySafe`: `Custody` when `IdShifts = {0}`. It needs
  that ids are handed out in order (a new punk has no approval) and that the
  house never approves an operator. The assumption is needed:
  `AuctionHouseIdShift` is a counterexample without it.
* `NAuctionHouse_proofs!RewardsSafe`: `RewardsNotAuctioned`. A due reward takes
  its id before the auction's punk is minted, and the next id is not due.
* `NAuctionHouse_proofs!ImplementsEnglishAuction`: `Spec => IsEnglishAuction`
  when `IdShifts = {0}`, from `MoneyInv`, `CustodyInv` and `EnglishInv`,
  which says that the lot's id is below the next one and that a suspended bid
  is no lower than the standing one. Under `Lot` every action of the house maps
  to an action of the abstract auction or a stutter.

Token lists:

* `ERC721Enumerable_proofs!ListsExact`: `ListsSound` for lists without a bound
  (`Slots = Nat`). Both kinds of lists are inductive together with the types;
  the proof is organised by what removal and addition do to one owner's list.

Votes:

* `Checkpoints_proofs!PriorVotesIsVotesAt`: on every list in block order the
  binary search of `getPriorVotes` returns what its definition says. The
  recursion is argued by a least counterexample: among the pairs of bounds
  whose answer is wrong take one that is closest together (the naturals are
  well-founded, `WFMin`); one step of the search leads to a pair closer still.
* `ERC721Checkpointable_proofs!PastVotesKept` and
  `CryptopunksVote_proofs!OGPastVotesKept`: `PriorVotesAreHistory`. Inductive is
  that the checkpoints of an account, read by definition, give its history at
  every past block: writing in the current block changes no earlier one.
* `ERC721Checkpointable_proofs!VotesAreExact`: `VotesExact` while no signature
  names address 0; `token_votes_by_sig` is the counterexample otherwise. Votes
  are cardinalities of the finite sets of punks represented; that a punk moves
  from one set to another is what the two writes of `_moveDelegates` do, and that
  the first set was not empty is why the subtraction does not underflow.
* `CryptopunksVote_proofs!OGVotesAreExact`, `OGSignaturesOnce`, `OGBatchRights`:
  `VotesExact`, `SignaturesUsedOnce` and `BatchGivesNoRights`. The invariant
  is claimed for the storage a batch would put back as well as for the current
  one, because a batch that fails half way returns to it.

Governance:

* `NDAOLogicV1_proofs!TimelockWaitsAndRunsOnce` (`RunsOnceInTime`),
  `PassedProposalsOnly` (`OnlyPassedProposalsRun`), `OneProposalAtATime`
  (`OneLiveProposal`), `StorageStaysSound` (`StorageSound`), from one inductive
  invariant, `GovInv`. It says of the current storage, and of the storage that
  each suspended execution would put back, that proposals and timelock fit each
  other: what is queued was announced with at least `MINIMUM_DELAY` and waits for
  a proposal that is not executed, or whose execution is under way and has not
  reached it; what has run was announced, had come of age, is no longer queued,
  ran once and belongs to a proposal marked as executed; and the latest proposal
  of an account is the only one of it that can be live. The claim for every saved
  storage is what makes a `RevertExecution` at any depth harmless.
* `NDAOLogicV1_proofs!ProposalsMoveForward` (`StatesMoveForward`), about what a
  transaction commits. `ForwardInv` relates what the outermost execution would
  put back to the storage of every execution inside it and to the current one: each
  proposal has only moved forward. That relation is transitive and time keeps
  it.
* `NDAOLogicV1_proofs!BallotsWeighAsAtCreation` (`VotesCountFromCreation`), for
  settings that change, a proposal whose ballots remember another voting delay
  than its own excepted; `GovernanceNewDelay` is the counterexample for such a one.
  `VotesInv` keeps, for current and saved storage, that a tally is the
  sum over the voters on that side. That a sum over a finite set grows by the
  weight of a new member is shown from the definition of the fold, again by a
  smallest counterexample (`SmallestSet`).

* `NDAOLogicV1_proofs!ExecutionIsAllOrNothing` (`AllOrNothing`). An execution
  under way has run the actions before the one it is at, in this block, and no
  other of its proposal; what is put back when it fails is from before the first of
  them, with whatever was run by executions inside it gone as well.

Bots:

* `Bots_proofs!AnnouncementsNotRepeated` (`AnnouncedOnce`) and
  `TweetsInTheirThread` (`RepliesInThread`), for any number of ticks, setups and
  flows at once. Everything is said of one auction, or one proposal, at a time, of
  those that no two functions had seen together: their marks in Redis must survive
  what functions that overlap do to others. For auctions, `AuctionsInv` keeps that
  the numbers in the caches, and in the copies that running functions made of them,
  are of auctions that exist (`RedisOK`, `TicksOK`), that what was said of an
  uncrowded auction is marked in the caches and in every copy that can still be
  compared (`Marks`), and that a function that is past its comparison is the only
  one with this auction, has written its cache and did not post yet (`Works`). A
  copy that is too old can only belong to a function that ran beside the one that
  wrote, which makes the auction of the latter crowded. For governance,
  `GovernanceInv` keeps of an uncontended proposal that a message on Discord was sent
  more often than something failed only if its cache is written or the write is on its
  way in the flow that sent it; a restart that drops that flow counts as a
  failure. `BotsOverlap` shows that the exception is needed.

Web app, page by page, because a page is alone while it is open:

* `WebApp_proofs!ProposalIsWhatWasPutTogether` (`ProposeFormExact`). `ProposeInv`
  adds that a function can only have been chosen from an ABI and that the form has
  one from then on, if not the same: the arguments read for a function that is not
  in the later ABI are the case the proof is about.
* `WebApp_proofs!DelegationGoesWhereTyped` (`DelegatePanelExact`). `DelegateInv`
  adds that the target is what is typed until it is looked up and the account
  found from then on, and that the votes of a new delegate are read by the app
  for "Will have" before the delegation can be mined.
* `WebApp_proofs!VotePageSaysWhatIs` (`VotePageExact`). `VoteInv` adds that the
  subgraph's entity follows the proposal in the DAO, field by field and status by
  status, that the tallies are those of the recorded ballots, that what the page
  has read is of an earlier block or of this one, and that a transaction that was
  mined as a vote is one. That the pages of a card partition its voters is
  arithmetic of `\div` (`CellOnOnePage`).

* `WebApp_proofs!StoreHasTheAuction` (`StoreFollowsChain`). `AuctionInv` has four
  parts. `HouseSound`: an auction's amount and bidder are those of a highest bid, and
  no two bids of it have the same value, which is what `AppendBid`'s comparison
  needs. `SocketSound`: an event that waits says what happened, the auctions are
  announced in order, and what belongs to an auction comes after its announcement.
  `StoreSound`: the store knows one auction, or is between the dispatches that
  replace it, and what it has of it is what the chain had. `Follows`: unless
  something of the current auction was lost, the store has it, is about to or will
  be told, and its end, its settlement and each bid are known, under way, waiting
  for a block or older than the query goes back. That window may begin anywhere:
  what it cuts off are the lowest bids of the auction (`MissedSound`), so that
  amount and bidder, which were fetched, are those of a later one or their own.
  When nothing is under way, `StoreFollowsChain` is left.
* `WebApp_proofs!PageShowsTheAuction` (`AuctionShownRight`). `ShownSound` keeps the
  auction on display below the last one or the one that is being announced, whatever
  integer the address is (`Beyond`), and
  `UrlSound` says what is true between two dispatches: at rest the address is that
  of the auction on display, of one that the effect will turn to, or of none; of a
  key's handler it names the dispatches that are left and how far the store and the
  address are apart; of an announcement which of both was moved already. An effect
  in between preserves each of them unless it sets `astray`. That the form's
  minimum, when the percentage was read, rounded up, is enough for the house's increment, rounded down, is
  arithmetic of `\div` (`RoundedUp`), and the store's amount is 0 while a new auction
  is announced and not shown.
* `WebApp_proofs!SuccessIsOfTheBid` (`SuccessIsReal`). `ShowsABid`: the bidder and
  amount of the store are those of one bid. `BidFormSound`: the form is new when it is
  mounted, and while it says "Mining" it waits for the transaction, with its value
  as input unless something was typed. `TxSound`: while that transaction is on its
  way, its account has no bid as high in the auction and none in a later one, so
  that the bid the form sees is the transaction's; the last auction never goes back.
* `WebApp_proofs!LogsOfAllBlocks` (`LogsComplete`). `CreatedSound`: proposals are
  created in the order of their blocks, so that those up to a block are the first
  ones (`FirstOnes`). `SliceSound`: a fetch is of a block that the app knew, and what
  is in the store is right for its block. That the ranges of a call gather all logs,
  whatever their number (`GetLogsRight`), is an induction over the ranges, by a
  smallest counterexample; that a block two ranges share gives a log twice is why the
  descriptions need `Apart`.

Only model-checked: liveness and ENABLED, which the prover does not do; the
subgraph's `EntitiesExact`, where sums over arbitrary histories are compared with
counted drift; a punk's history (`ActivityExact`), which is sorted by an operator that the prover
cannot expand; the seeder, the images and the deployment, where little depends on
sizes.

## Observations

What modelling showed beyond the runs and configurations above. None of these
is hidden by a property: each is an exception stated there or outside the model.

Contracts. The minimum increment of a bid is rounded down, so that below
100 / `minBidIncrementPercentage` wei a bid equal to the standing one displaces
it and extends the auction; liveness is checked with bids whose increment is at
least 1. When the minter role was moved away and the auction has no bid, its
settlement reverts in `burn`, which is not caught as a failed mint is; the
auction waits for the role, which is why `EveryAuctionSettles` excepts a lost
minter role. A draw of 0 selects the first part even if its probability is 0
(`NSeeder.sol:71`).

Deployment. Skipping the auction house proxy after a foreign transaction leaves
`NArt` wired to a wrong address that the validation does not look at.
`deploy-and-configure-short-times` never populates the seeder, so that its
`--startAuction` reverts, is caught, and ownership is given away.
`run-local` calls `register-og-punks` with `nToken` for `nTokenAddress` and ends
there. A process that dies between `setAccIdByType` and `setAccExclusion`,
followed by `start-auction` by hand, can mint accessories that exclude each
other. The log at `deploy-and-configure.ts:90` reports a transfer that is
commented out.

Pictures. The encoder writes entries of three bytes, without the opacity of the
pixel (`image.ts:44`), and the builders read four: the SDK writes `opacity="0.NaN"`
for such an entry (`svg-builder.ts:64-72`), which a viewer ignores, so that a half
transparent pixel is drawn full, as `DrawnAsGiven` says; on the chain the missing
bytes shift every colour that follows, so that the encoder's own palette cannot be
given to `setPalette`, which is why `SameColors` is about palettes whose entries
have four. The shipped palette has four in every entry. The SDK also writes an opacity below
10 per cent wrongly (5 as 0.5); the shipped palette has none. A seed drawn
by the draw 0 above has a picture on the chain and none on the site.

Subgraph. A self-transfer adds to a balance; delegating to one's current delegate
adds to `tokenHoldersRepresentedAmount`; an account that receives its first punk
while it has a delegate is reset to itself; the zero address counts as a holder;
a governance entity saved from a stale copy loses `totalDelegates`; a queued
proposal that is canceled or vetoed stays in `proposalsQueued`; sales on the OG
market by `PunkBought` are not followed.

Bots. Setup skips what happened while the service was down, and the queries
return the first 100 entities only. The timers wait neither for setup nor for the
last tick: two that overlap can tweet an auction, a bid or an ending twice, reply in
the thread of the other's auction, and announce a proposal or warn of an expiry twice.

Auction page. An auction created after the page was loaded is unknown to its
navigation. Of an auction that outlives 8,000 blocks, because it was extended, is
longer or was left unsettled, the list of bids is without the older ones
(`index.tsx:107`, `163`). Until the increment percentage is read the form asks for no
minimum (`components/Bid/index.tsx:25-27`); a bid that is too low then fails in the
gas estimate. A page opened at the address of an auction yet to come
(`pages/Auction/index.tsx:30-32`) may show another punk than its address says when
that auction is created: the correction of the address can run between the dispatches
of `processAuctionCreated`. The form does not know the reserve price, says nothing when gas
cannot be estimated, and misses its own success when another bid overtakes it in
the store. The error branch of the history is unreachable (`loading || !data`
comes first), its proposals are matched with their timestamps by index, and its
cut-offs go wrong around a paused house.

Governance pages. A late ABI answer replaces the ABI of the address typed since
(`ProposalTransactionFormModal:118-132`); a late name lookup replaces the
delegate typed since (`ChangeDelegatePannel:86-95`); the end of one delegation
resets the panel while the other is mined (228-236); the button that looks
disabled can be pressed. A failed query of votes leaves the spinner
(`pages/Vote:243`); a proposal nobody voted on stays ACTIVE; one that was vetoed
and then canceled reads CANCELLED; the vote button ignores both.
`useUserVotesAsOfBlock` does not count OG votes. The query of the voters' punks
asks for `nRepresented` (`wrappers/subgraph.ts:302`), which the subgraph's schema
calls `punksRepresented`: it fails, and the punks' view of the cards is empty.
That view also puts 15 punks on a page of 12 cells on narrow screens
(`PunkImageVoteTable:15`). At the last block of voting the list says "Expires" or
"Starts" instead of "Ends". Whether the user has a live
proposal is decided from the globally latest one. Ranges of logs overlap at
their ends, so that a log may be stored twice (`state/updaters/logs.ts:45-51`).

## What is not modelled

`NDAOProxy`, whose constructor is an initial state and which otherwise replaces
the code that is modelled; the auction house proxies (empty subclasses); `Inflate`,
`SSTORE2` and the building of strings; gas, except where the code bounds it; ETH
sent by `execute`; the digest of signatures, which are modelled by who signed
what; the API, a read behind a cache that is never invalidated; the tasks that
act through a proposal or convert metadata; of the web app the wallet menu, the
disabled playground, documentation texts, translations, layout, the browser's
Back button and addresses that are not numbers.

## Plan

1. `EntitiesExact` of the subgraph, whose invariant is already explicit about drift.
2. `populate-descriptor-via-proposal`, composed with `NDAOLogicV1`.
