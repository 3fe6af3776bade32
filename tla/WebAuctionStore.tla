-------------------------- MODULE WebAuctionStore ---------------------------
(***************************************************************************)
(* The auction part of the web app's store                                 *)
(* (packages/punks-webapp/src/state/slices): what each reducer makes of    *)
(* the state, and what the hooks of wrappers/onDisplayAuction.ts read from *)
(* it.  Formatting of numbers is left out; a list of bids is a set, because *)
(* the order in which bids arrive is lost when they are sorted for display. *)
(***************************************************************************)
EXTENDS Integers, FiniteSets

None == -1                   \* undefined, for ids
NoBidder == "no bidder"
NoAuction == [id |-> None, amount |-> 0, bidder |-> NoBidder, end |-> 0,
              settled |-> FALSE]

CONSTANT Period              \* 10: ids that are not auctioned

ASSUME PeriodAssumption == Period \in Nat \ {0}

IsNounderNoun(id) == id % Period = 0

\* last and shown are the fields lastAuctionTokenId and
\* onDisplayAuctionTokenId; past has the ids the subgraph knew, whose amounts
\* and bids are left out.
InitialState ==
  [active |-> NoAuction, bids |-> {}, last |-> None, shown |-> None,
   past |-> {}]

-----------------------------------------------------------------------------
(* slices/auction.ts                                                       *)

MaxBid(bids) == CHOOSE b \in bids : \A c \in bids : b.value >= c.value

SetActiveAuction(s, e) ==
  [s EXCEPT !.active = [id |-> e.id, amount |-> 0, bidder |-> NoBidder,
                        end |-> e.end, settled |-> FALSE],
            !.bids = {}]

SetFullAuction(s, auction) == [s EXCEPT !.active = auction]

AuctionsEqual(s, e) == s.active.id # None /\ s.active.id = e.id

\* Variant: the bid that came last counts.
AppendBidLast(s, b) ==
  IF ~AuctionsEqual(s, b) \/ b \in s.bids THEN s
  ELSE [s EXCEPT !.bids = @ \cup {b},
                 !.active.amount = b.value,
                 !.active.bidder = b.sender]

\* containsBid compares the hashes of transactions, which the values of an
\* auction's bids tell apart as well.
AppendBid(s, b) ==
  IF ~AuctionsEqual(s, b) \/ b \in s.bids THEN s
  ELSE LET max == MaxBid(s.bids \cup {b}) IN
       [s EXCEPT !.bids = @ \cup {b},
                 !.active.amount = max.value,
                 !.active.bidder = max.sender]

SetAuctionSettled(s, e) ==
  IF ~AuctionsEqual(s, e) THEN s
  ELSE [s EXCEPT !.active.settled = TRUE, !.active.bidder = e.winner,
                 !.active.amount = e.amount]

SetAuctionExtended(s, e) ==
  IF ~AuctionsEqual(s, e) THEN s ELSE [s EXCEPT !.active.end = e.end]

-----------------------------------------------------------------------------
(* slices/onDisplayAuction.ts and slices/pastAuctions.ts                   *)

SetLastAuctionTokenId(s, id) == [s EXCEPT !.last = id]
SetOnDisplayAuctionTokenId(s, id) == [s EXCEPT !.shown = id]

\* `!onDisplayAuctionTokenId` holds for undefined and for 0.
SetPrevOnDisplayAuctionTokenId(s) ==
  IF s.shown \in {None, 0} THEN s ELSE [s EXCEPT !.shown = @ - 1]

SetNextOnDisplayAuctionTokenId(s) ==
  IF s.shown \in {None, s.last} THEN s ELSE [s EXCEPT !.shown = @ + 1]

AddPastAuctions(s, ids) == [s EXCEPT !.past = ids]

-----------------------------------------------------------------------------
(* wrappers/onDisplayAuction.ts                                            *)

EmptyAuction(id) == [NoAuction EXCEPT !.id = id]

\* deserializeAuction shows no auction as settled.
UseOnDisplayAuction(s) ==
  IF s.shown = None \/ s.active.id = None THEN NoAuction
  ELSE IF s.shown = s.active.id THEN [s.active EXCEPT !.settled = FALSE]
  ELSE IF IsNounderNoun(s.shown) \/ s.shown \in s.past
  THEN EmptyAuction(s.shown)
  ELSE NoAuction

UseAuctionBids(s, id) == IF id = s.last THEN s.bids ELSE {}
=============================================================================
