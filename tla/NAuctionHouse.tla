--------------------------- MODULE NAuctionHouse ----------------------------
(***************************************************************************)
(* NAuctionHouse (contracts/NAuctionHouse.sol) composed with the token it  *)
(* mints from and the ETH and WETH it moves.                               *)
(*                                                                         *)
(* A transaction is atomic except where the code hands control away: the   *)
(* refund in createBid calls the outbid bidder before the new bid is       *)
(* recorded.  That call is a step of its own, the suspended createBid is   *)
(* an element of frames, and until it returns every public function may be *)
(* called again; only block.timestamp stands still.  The payout of a       *)
(* settlement goes to owner(), the DAO's executor, whose receive() is      *)
(* empty, so a settlement is one step.                                     *)
(***************************************************************************)
EXTENDS NToken, Sequences

CONSTANTS
  AuctionHouse,   \* the auction house proxy, an account
  Bidders,        \* accounts that bid
  Bids,           \* values of msg.value explored
  Funds,          \* ETH each bidder starts with
  Duration,       \* duration
  TimeBuffers,    \* values of setTimeBuffer
  ReservePrices,  \* values of setReservePrice
  Percentages,    \* values of setMinBidIncrementPercentage
  MaxTime         \* bound on block.timestamp

ASSUME NAuctionHouseAssumption ==
  /\ AuctionHouse \in Accounts \ (Users \cup {Owner})
  /\ Minter = AuctionHouse
  /\ Bidders \subseteq Accounts \ {AuctionHouse, Owner}
  /\ Bids \cup TimeBuffers \cup ReservePrices \subseteq Nat
  /\ Percentages \subseteq 0 .. 255
  /\ {Funds, Duration, MaxTime} \subseteq Nat

VARIABLES
  auction,                    \* the active auction
  paused,                     \* Pausable
  entered,                    \* ReentrancyGuard: _status = _ENTERED
  timeBuffer, reservePrice, minBidIncrementPercentage,
  frames,                     \* createBid calls suspended in their refund
  now,                        \* block.timestamp
  eth, weth,                  \* ETH and WETH of each account
  spent                       \* history: what each bidder paid for punks won

config == <<timeBuffer, reservePrice, minBidIncrementPercentage>>
money == <<eth, weth, spent>>
vars == <<token, auction, paused, entered, config, frames, now, money>>

Wallets == Bidders \cup {AuctionHouse, Owner}

Auction ==
  [tokenId : Nat, amount : Nat, startTime : Nat, endTime : Nat,
   bidder : Bidders \cup {Zero}, settled : BOOLEAN]

Frame == [bidder : Bidders, value : Nat, auction : Auction]

\* An auction that runs or waits to be settled.
Begun == auction.startTime # 0
Live == Begun /\ ~auction.settled

-----------------------------------------------------------------------------
(* Money                                                                   *)

\* The effect on eth of msg.value going from one account to another.
Pay(balances, from, to, value) ==
  [a \in Wallets |->
     balances[a] - (IF a = from THEN value ELSE 0)
                 + (IF a = to THEN value ELSE 0)]

\* _safeTransferETHWithFallback when the call fails: the amount is deposited
\* as WETH (leaving the auction house's ETH) and the WETH is transferred.
Take(balances, from, value) == [balances EXCEPT ![from] = @ - value]
Give(balances, to, value) == [balances EXCEPT ![to] = @ + value]

-----------------------------------------------------------------------------
(* Bidding                                                                 *)

\* Variant: createBid and the settlements without nonReentrant.
Reentrant == TRUE

NonReentrant == ~entered

BidAccepted(bidder, tokenId, value) ==
  /\ value <= eth[bidder]
  /\ auction.tokenId = tokenId
  /\ now < auction.endTime
  /\ value >= reservePrice
  /\ value >= auction.amount
               + ((auction.amount * minBidIncrementPercentage) \div 100)

\* Variant: every bid resets the end time.
RecordBidResetsEnd(bidder, value, a) ==
  auction' = [auction EXCEPT !.amount = value, !.bidder = bidder,
                             !.endTime = now + timeBuffer]

\* The writes of createBid after the refund; a is the copy of the auction made
\* at entry, which decides whether the bid came within timeBuffer of the end.
RecordBid(bidder, value, a) ==
  LET extended == a.endTime - now < timeBuffer IN
    auction' = [auction EXCEPT !.amount = value, !.bidder = bidder,
                  !.endTime = IF extended THEN now + timeBuffer ELSE @]

\* createBid with nobody to refund.
CreateFirstBid(bidder, tokenId, value) ==
  /\ NonReentrant
  /\ BidAccepted(bidder, tokenId, value)
  /\ auction.bidder = Zero
  /\ RecordBid(bidder, value, auction)
  /\ eth' = Pay(eth, bidder, AuctionHouse, value)
  /\ UNCHANGED <<token, paused, entered, config, frames, now, weth, spent>>

\* createBid when the outbid bidder does not take ETH and is sent WETH.
\* Whatever it did in the failed call is undone.
CreateBidRefundWETH(bidder, tokenId, value) ==
  /\ NonReentrant
  /\ BidAccepted(bidder, tokenId, value)
  /\ auction.bidder # Zero
  /\ auction.amount <= eth[AuctionHouse] + value
  /\ RecordBid(bidder, value, auction)
  /\ eth' = Take(Pay(eth, bidder, AuctionHouse, value),
                 AuctionHouse, auction.amount)
  /\ weth' = Give(weth, auction.bidder, auction.amount)
  /\ UNCHANGED <<token, paused, entered, config, frames, now, spent>>

\* createBid up to the refund call: the outbid bidder has its ETH and control.
CreateBidRefundETH(bidder, tokenId, value) ==
  /\ NonReentrant
  /\ BidAccepted(bidder, tokenId, value)
  /\ auction.bidder # Zero
  /\ auction.amount <= eth[AuctionHouse] + value
  /\ entered' = TRUE
  /\ frames' = <<[bidder |-> bidder, value |-> value, auction |-> auction]>>
                 \o frames
  /\ eth' = Pay(Pay(eth, bidder, AuctionHouse, value),
                AuctionHouse, auction.bidder, auction.amount)
  /\ UNCHANGED <<token, auction, paused, config, now, weth, spent>>

\* Variant: the guard stays up.
ReturnFromRefundKeepsGuard ==
  /\ frames # <<>>
  /\ RecordBid(Head(frames).bidder, Head(frames).value, Head(frames).auction)
  /\ frames' = Tail(frames)
  /\ UNCHANGED <<token, paused, entered, config, now, money>>

\* The refund call returns and createBid runs to its end.
ReturnFromRefund ==
  /\ frames # <<>>
  /\ RecordBid(Head(frames).bidder, Head(frames).value, Head(frames).auction)
  /\ frames' = Tail(frames)
  /\ entered' = FALSE
  /\ UNCHANGED <<token, paused, config, now, money>>

-----------------------------------------------------------------------------
(* Settling and creating auctions                                          *)

CanSettle ==
  /\ auction.startTime # 0
  /\ ~auction.settled
  /\ now >= auction.endTime

\* The token call of _settleAuction: burn without a bidder, else transferFrom.
Deliverable ==
  IF auction.bidder = Zero
  THEN CanBurn(token, AuctionHouse, auction.tokenId)
  ELSE CanTransferFrom(token, AuctionHouse, AuctionHouse, auction.bidder,
                       auction.tokenId)

Delivered ==
  IF auction.bidder = Zero
  THEN Burned(token, auction.tokenId)
  ELSE Transferred(token, auction.bidder, auction.tokenId)

\* The payout of _settleAuction, in ETH or, if the call fails, in WETH.
PayOwner ==
  /\ auction.amount <= eth[AuctionHouse]
  /\ \/ /\ eth' = Pay(eth, AuctionHouse, Owner, auction.amount)
        /\ UNCHANGED weth
     \/ /\ eth' = Take(eth, AuctionHouse, auction.amount)
        /\ weth' = Give(weth, Owner, auction.amount)
  /\ spent' = IF auction.bidder = Zero THEN spent
              ELSE Give(spent, auction.bidder, auction.amount)

\* _createAuction on token storage t, the auction record being a so far: a
\* mint that reverts with a reason pauses the contract.  Any other failure of
\* the mint (a panic of the seeder, no gas) reverts the whole transaction.
CreateAuction(t, a) ==
  \/ /\ t.minter = AuctionHouse
     /\ token' \in Minted(t)
     /\ auction' = [tokenId |-> MintResult(token'), amount |-> 0,
                    startTime |-> now, endTime |-> now + Duration,
                    bidder |-> Zero, settled |-> FALSE]
     /\ paused' = FALSE
  \/ /\ t.minter # AuctionHouse
     /\ token' = t
     /\ auction' = a
     /\ paused' = TRUE

SettleCurrentAndCreateNewAuction ==
  /\ NonReentrant
  /\ ~paused
  /\ CanSettle
  /\ Deliverable
  /\ PayOwner
  /\ CreateAuction(Delivered, [auction EXCEPT !.settled = TRUE])
  /\ UNCHANGED <<entered, config, frames, now>>

SettleAuction ==
  /\ paused
  /\ NonReentrant
  /\ CanSettle
  /\ Deliverable
  /\ PayOwner
  /\ token' = Delivered
  /\ auction' = [auction EXCEPT !.settled = TRUE]
  /\ UNCHANGED <<paused, entered, config, frames, now>>

-----------------------------------------------------------------------------
(* The owner's functions; none of them is nonReentrant                     *)

Pause ==
  /\ ~paused
  /\ paused' = TRUE
  /\ UNCHANGED <<token, auction, entered, config, frames, now, money>>

UnpauseNeedsAuction == auction.startTime = 0 \/ auction.settled

Unpause ==
  /\ paused
  /\ IF UnpauseNeedsAuction
     THEN CreateAuction(token, auction)
     ELSE paused' = FALSE /\ UNCHANGED <<token, auction>>
  /\ UNCHANGED <<entered, config, frames, now, money>>

SetTimeBuffer(x) ==
  /\ timeBuffer' = x
  /\ UNCHANGED <<token, auction, paused, entered, reservePrice,
                 minBidIncrementPercentage, frames, now, money>>

SetReservePrice(x) ==
  /\ reservePrice' = x
  /\ UNCHANGED <<token, auction, paused, entered, timeBuffer,
                 minBidIncrementPercentage, frames, now, money>>

SetMinBidIncrementPercentage(x) ==
  /\ minBidIncrementPercentage' = x
  /\ UNCHANGED <<token, auction, paused, entered, timeBuffer, reservePrice,
                 frames, now, money>>

-----------------------------------------------------------------------------
\* A call of the token by someone other than the auction house.
TokenCall ==
  /\ TokenStep
  /\ UNCHANGED <<auction, paused, entered, config, frames, now, money>>

\* Time passes between transactions.  It matters only relative to endTime,
\* so it is not advanced past the end of the current auction.
Tick ==
  /\ frames = <<>>
  /\ now < auction.endTime
  /\ now < MaxTime
  /\ now' = now + 1
  /\ UNCHANGED <<token, auction, paused, entered, config, frames, money>>

\* initialize
Init ==
  /\ TokenInit
  /\ auction = [tokenId |-> 0, amount |-> 0, startTime |-> 0, endTime |-> 0,
                bidder |-> Zero, settled |-> FALSE]
  /\ paused = TRUE
  /\ entered = FALSE
  /\ timeBuffer \in TimeBuffers
  /\ reservePrice \in ReservePrices
  /\ minBidIncrementPercentage \in Percentages
  /\ frames = <<>>
  /\ now = 1
  /\ eth = [a \in Wallets |-> IF a \in Bidders THEN Funds ELSE 0]
  /\ weth = [a \in Wallets |-> 0]
  /\ spent = [a \in Wallets |-> 0]

CreateBid ==
  \E bidder \in Bidders, value \in Bids :
    LET tokenId == auction.tokenId IN  \* another id reverts
      \/ CreateFirstBid(bidder, tokenId, value)
      \/ CreateBidRefundWETH(bidder, tokenId, value)
      \/ CreateBidRefundETH(bidder, tokenId, value)

Configure ==
  \/ \E x \in TimeBuffers : SetTimeBuffer(x)
  \/ \E x \in ReservePrices : SetReservePrice(x)
  \/ \E x \in Percentages : SetMinBidIncrementPercentage(x)

Settle == SettleCurrentAndCreateNewAuction \/ SettleAuction

Next ==
  \/ CreateBid
  \/ ReturnFromRefund
  \/ Settle
  \/ Pause
  \/ Unpause
  \/ Configure
  \/ TokenCall
  \/ Tick

Spec == Init /\ [][Next]_vars

\* Time passes, a refund call returns (it has 30,000 gas), and whoever wants
\* the next auction calls the settlement function that is open.
Fairness ==
  /\ WF_vars(Tick)
  /\ WF_vars(ReturnFromRefund)
  /\ WF_vars(Settle)

FairSpec == Spec /\ Fairness

-----------------------------------------------------------------------------
(* Properties                                                              *)

\* Every variable has its type; the guard is up exactly while createBid is
\* suspended in its refund.
TypeOK ==
  /\ TokenTypeOK
  /\ auction \in Auction
  /\ paused \in BOOLEAN
  /\ entered \in BOOLEAN
  /\ entered <=> frames # <<>>
  /\ timeBuffer \in Nat
  /\ reservePrice \in Nat
  /\ minBidIncrementPercentage \in Nat
  /\ frames \in Seq(Frame)
  /\ now \in Nat \ {0}
  /\ eth \in [Wallets -> Nat]
  /\ weth \in [Wallets -> Nat]
  /\ spent \in [Wallets -> Nat]

\* What the house owes: the suspended bid, whose predecessor was just
\* refunded, else the standing bid of the live auction.
Owed == IF frames # <<>> THEN Head(frames).value
        ELSE IF Live THEN auction.amount ELSE 0

\* The auction house holds exactly the ETH of the standing bid, at every
\* point where createBid or a settlement gives control away: a refund or a
\* payout is never made twice, never from other money, and none is stranded.
Solvency == eth[AuctionHouse] = Owed

\* The bid of b that the house holds.
Standing(b) ==
  IF frames # <<>>
  THEN IF Head(frames).bidder = b THEN Head(frames).value ELSE 0
  ELSE IF Live /\ auction.bidder = b THEN auction.amount ELSE 0

\* A bidder has all its money back, in ETH or WETH, except its standing bid
\* and the price of the punks it won, whatever mix of refunds, refused
\* refunds, re-entrant calls and settlements came before.
BiddersMadeWhole ==
  \A b \in Bidders : eth[b] + weth[b] + Standing(b) + spent[b] = Funds

\* No money is lost, invented or taken from another auction.
MoneyExact == TypeOK /\ Solvency /\ BiddersMadeWhole

\* While an auction is live the house owns the punk on sale, and nobody else
\* can move it: no approval on it, no operator of the house.
Custody ==
  Live => /\ auction.tokenId \in PunkIds
          /\ token.owners[auction.tokenId] = AuctionHouse
          /\ token.approved[auction.tokenId] = Zero
          /\ \A u \in Accounts : <<AuctionHouse, u>> \notin token.operators

\* A punk minted as a punkers' reward is never put up for auction.
RewardsNotAuctioned ==
  Begun => ~(auction.tokenId <= RewardLast
              /\ auction.tokenId % RewardEvery = 0)

\* The lot that the auction record stands for.
Lot ==
  [id |-> auction.tokenId, price |-> auction.amount,
   leader |-> auction.bidder, end |-> auction.endTime,
   state |-> IF ~Begun THEN "none"
             ELSE IF auction.settled THEN "closed" ELSE "open"]

English ==
  INSTANCE EnglishAuction WITH
    House <- AuctionHouse, Nobody <- Zero,
    clock <- now, buffer <- timeBuffer, lot <- Lot, owner <- token.owners

\* The auction house is an English auction: a lot on sale stays with the
\* house, its price never falls and its end never comes closer, every bid
\* leaves the others timeBuffer to answer, and it ends only when its time is
\* over, no bid being in flight, with the leader owning the punk (or the punk
\* burned).  Neither unpause nor a settlement replaces a lot that is open,
\* and createBid, which never looks at the settled flag, takes no late bid.
IsEnglishAuction == English!Spec

\* While the house is the minter and the token can mint a successor, every
\* auction is eventually settled: pausing, late bids and refund calls delay
\* it but cannot keep it open, provided that every bid has to raise the last.
EveryAuctionSettles ==
  \A i \in PunkIds :
    (Live /\ auction.tokenId = i /\ Minted(token) # {}) ~>
      (~(Live /\ auction.tokenId = i) \/ token.minter # AuctionHouse)

-----------------------------------------------------------------------------
(* What a comment of the code says, where the code does otherwise          *)

\* "possible shift for token ids, storage records are not affected, only
\* input, output, external calls and events" (ERC721._idShift): the id that
\* mint() returns to _createAuction names, from outside, the punk minted.
AuctionNamesMintedPunk ==
  [][auction'.startTime # auction.startTime =>
       /\ Shifted(token', auction'.tokenId)
       /\ Unshift(token', auction'.tokenId) = token'.currentPunkId - 1]_vars
=============================================================================
