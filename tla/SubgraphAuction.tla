-------------------------- MODULE SubgraphAuction ---------------------------
(***************************************************************************)
(* The auction half of the subgraph                                        *)
(* (packages/punks-subgraph/src/n-auction-house.ts): what the handler of   *)
(* each event of the auction house makes of the Auction and Bid entities.  *)
(*                                                                         *)
(* The entities are a function from the ids of the auctions that have one. *)
(* A bid's id is its transaction's hash.  An auction whose punk is not     *)
(* known, and events of an auction that is not known, are only logged.     *)
(***************************************************************************)
EXTENDS Integers, Sequences

NoBidder == "no bidder"

HandleAuctionCreated(auctions, punks, e) ==
  IF e.id \notin punks THEN auctions
  ELSE LET new == [start |-> e.start, end |-> e.end, amount |-> 0,
                   bidder |-> NoBidder, settled |-> FALSE, bids |-> <<>>]
       IN [id \in DOMAIN auctions \cup {e.id} |->
             IF id = e.id THEN new ELSE auctions[id]]

\* The Bid entity is saved under the transaction's hash.
HandleAuctionBid(auctions, e) ==
  IF e.id \notin DOMAIN auctions THEN auctions
  ELSE [auctions EXCEPT
          ![e.id].amount = e.value,
          ![e.id].bidder = e.sender,
          ![e.id].bids = Append(@, [hash |-> e.hash, bidder |-> e.sender,
                                    amount |-> e.value, time |-> e.time])]

HandleAuctionExtended(auctions, e) ==
  IF e.id \notin DOMAIN auctions THEN auctions
  ELSE [auctions EXCEPT ![e.id].end = e.end]

HandleAuctionSettled(auctions, e) ==
  IF e.id \notin DOMAIN auctions THEN auctions
  ELSE [auctions EXCEPT ![e.id].settled = TRUE]
=============================================================================
