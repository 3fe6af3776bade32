---------------------------- MODULE WebAuction ------------------------------
(***************************************************************************)
(* The auction page of the web app (packages/punks-webapp/src/index.tsx,   *)
(* pages/Auction, components/Auction, AuctionActivity, AuctionNavigation): *)
(* how the store follows the auction house over a web socket, and which    *)
(* auction the page shows.                                                 *)
(*                                                                         *)
(* loadState fetches the auction, then the bids of the last 8,000 blocks,  *)
(* then subscribes; older bids, and what happens on the chain before a     *)
(* filter is subscribed, are not heard of.  The events of one transaction  *)
(* are one set: each filter has its own subscription, so their order is not*)
(* known.  processBidFilter waits for the block of a bid, so bids overtake *)
(* each other.                                                             *)
(*                                                                         *)
(* JavaScript runs a handler to its end, but every dispatch renders, and   *)
(* rendering runs the effects of the dispatch before: the dispatches that  *)
(* are left of a handler are in `todo`, and an effect may come in between. *)
(***************************************************************************)
EXTENDS WebAuctionStore, Sequences

CONSTANTS
  Bidders,         \* accounts on the chain
  Reserve,         \* reservePrice
  Percentage,      \* minBidIncrementPercentage
  TimeBuffer, Duration,
  MaxValue,        \* bound on the value of a bid
  MaxBids,         \* bound on the number of bids of a bidder
  Routes,          \* addresses that are opened
  LastAuction,     \* bound on ids
  SettleWait       \* MINS_TO_ENABLE_MANUAL_SETTLEMENT

ASSUME WebAuctionAssumption ==
  /\ \A n \in {Reserve, Percentage, TimeBuffer, Duration, MaxValue,
               MaxBids, LastAuction, SettleWait} : n \in Nat
  /\ Reserve * Percentage >= 100         \* bids of an auction differ
  /\ NoBidder \notin Bidders
  /\ Routes \subseteq Int               \* None is "/", others are ids
  /\ 1 <= LastAuction

VARIABLES
  chain,           \* id -> [auction, bids]: what the auction house did
  current,         \* id of its auction
  now,
  load,            \* how far loadState is: "start", "query", "subscribe", "live"
  socket,          \* transactions the socket has not delivered
  blocks,          \* bids whose block is being fetched
  query,           \* is the query of past auctions not answered
  store,
  route, url,      \* of the router in App and of the browser; None is "/"
  todo,            \* dispatches left of the running handler
  astray,          \* history: an effect ran between two steps of a handler and
                   \* did not know the auction, or corrected the address
  missed,          \* history: bids that are older than the query goes back
  lost             \* history: ids of auctions with events the app missed

chainVars == <<chain, current, now>>
loadVars == <<load, blocks, query>>
pageVars == <<route, url, todo, astray>>
historyVars == <<missed, lost>>

Auction == chain[current].auction

-----------------------------------------------------------------------------
(* The auction house, as NAuctionHouse models it.                          *)

\* A transaction with its events.  Who has not fetched the auction yet, or
\* for a bid the bids, will see it there.
Emit(events) ==
  IF load = "live"
  THEN socket' = Append(socket, events) /\ UNCHANGED lost
  ELSE /\ lost' = lost \cup
            {e.id : e \in {f \in events :
                             /\ load # "start"
                             /\ f.type = "bid" => load = "subscribe"}}
       /\ UNCHANGED socket

Acceptable(value) ==
  /\ value >= Reserve
  /\ value >= Auction.amount + (Auction.amount * Percentage) \div 100

CreateBid(bidder, value) ==
  LET extended == Auction.end - now < TimeBuffer
      bid == [id |-> current, sender |-> bidder, value |-> value] IN
  /\ now < Auction.end
  /\ Cardinality({b \in UNION {chain[id].bids : id \in DOMAIN chain} :
                    b.sender = bidder}) < MaxBids
  /\ ~Auction.settled
  /\ Acceptable(value)
  /\ chain' = [chain EXCEPT
                 ![current].bids = @ \cup {bid},
                 ![current].auction.amount = value,
                 ![current].auction.bidder = bidder,
                 ![current].auction.end =
                    IF extended THEN now + TimeBuffer ELSE @]
  /\ Emit({[type |-> "bid", bid |-> bid, id |-> current]}
          \cup IF extended
               THEN {[type |-> "extended", id |-> current,
                      end |-> now + TimeBuffer]}
               ELSE {})
  /\ UNCHANGED <<current, now>>

NextId(id) == IF IsNounderNoun(id + 1) THEN id + 2 ELSE id + 1

\* What c becomes when the auction of id starts.
WithAuction(c, id) ==
  [i \in DOMAIN c \cup {id} |->
     IF i = id
     THEN [auction |-> [NoAuction EXCEPT !.id = id, !.end = now + Duration],
           bids |-> {}]
     ELSE c[i]]
CreatedEvent(id) ==
  [type |-> "created", id |-> id, end |-> now + Duration]
SettledEvent ==
  [type |-> "settled", id |-> current, winner |-> Auction.bidder,
   amount |-> Auction.amount]

SettleCurrentAndCreateNewAuction ==
  /\ now >= Auction.end
  /\ ~Auction.settled
  /\ NextId(current) <= LastAuction
  /\ chain' = WithAuction([chain EXCEPT ![current].auction.settled = TRUE],
                          NextId(current))
  /\ current' = NextId(current)
  /\ Emit({SettledEvent, CreatedEvent(NextId(current))})
  /\ UNCHANGED now

\* settleAuction while the house is paused; unpause creates the next one.
SettleAuction ==
  /\ now >= Auction.end
  /\ ~Auction.settled
  /\ chain' = [chain EXCEPT ![current].auction.settled = TRUE]
  /\ Emit({SettledEvent})
  /\ UNCHANGED <<current, now>>

Unpause ==
  /\ Auction.settled
  /\ NextId(current) <= LastAuction
  /\ chain' = WithAuction(chain, NextId(current))
  /\ current' = NextId(current)
  /\ Emit({CreatedEvent(NextId(current))})
  /\ UNCHANGED now

\* When the auction can be settled by hand, more time changes nothing.
Tick ==
  /\ now < Auction.end + SettleWait
  /\ now' = now + 1
  /\ UNCHANGED <<chain, current, socket, lost>>

-----------------------------------------------------------------------------
(* loadState (index.tsx).  No handler runs while another one does.         *)

FetchAuction ==
  /\ load = "start"
  /\ todo = <<>>
  /\ load' = "query"
  /\ store' = SetLastAuctionTokenId(SetFullAuction(store, Auction), current)
  /\ UNCHANGED <<blocks, query, pageVars, socket, historyVars>>

Placed == UNION {chain[id].bids : id \in DOMAIN chain}
Earlier(b, c) == b.id < c.id \/ (b.id = c.id /\ b.value < c.value)

\* queryFilter(bidFilter, 0 - BLOCKS_PER_DAY).  An auction may be longer, be
\* extended or be left unsettled, so that the window begins anywhere between
\* its bids.  What it leaves out is lost for good, if the auction that was
\* fetched does not have it.
QueryBids ==
  /\ load = "query"
  /\ todo = <<>>
  /\ load' = "subscribe"
  /\ missed' \in {M \in SUBSET Placed :
                  \A b \in M, c \in Placed : Earlier(c, b) => c \in M}
  /\ blocks' = blocks \cup (Placed \ missed')
  /\ lost' = lost \cup {b.id : b \in {c \in missed' :
                  c.id # store.active.id \/ c.value > store.active.amount}}
  /\ UNCHANGED <<query, store, pageVars, socket>>

\* The four filters are subscribed without a pause.
Subscribe ==
  /\ load = "subscribe"
  /\ todo = <<>>
  /\ load' = "live"
  /\ UNCHANGED <<blocks, query, store, pageVars, socket, historyVars>>

\* PastAuctions: the query is answered, once.
FetchPastAuctions ==
  /\ query
  /\ todo = <<>>
  /\ query' = FALSE
  /\ store' = AddPastAuctions(store, DOMAIN chain)
  /\ UNCHANGED <<load, blocks, pageVars, socket, historyVars>>

\* Events.  processAuctionCreated is four dispatches.
ProcessAuctionCreated(e) ==
  /\ todo' = <<[do |-> "active", auction |-> e], [do |-> "url", id |-> e.id],
               [do |-> "show", id |-> e.id], [do |-> "last", id |-> e.id]>>
  /\ UNCHANGED <<blocks, store>>

Receive(e) ==
  /\ todo = <<>>
  /\ socket # <<>>
  /\ e \in Head(socket)
  /\ socket' = IF Head(socket) = {e} THEN Tail(socket)
               ELSE [socket EXCEPT ![1] = @ \ {e}]
  /\ CASE e.type = "bid" ->
            blocks' = blocks \cup {e.bid} /\ UNCHANGED <<store, todo>>
       [] e.type = "created" -> ProcessAuctionCreated(e)
       [] e.type = "extended" ->
            store' = SetAuctionExtended(store, e) /\ UNCHANGED <<blocks, todo>>
       [] e.type = "settled" ->
            store' = SetAuctionSettled(store, e) /\ UNCHANGED <<blocks, todo>>
  /\ UNCHANGED <<load, query, route, url, astray, historyVars>>

\* The rest of processBidFilter, or the block could not be fetched.
ProcessBid(b) ==
  /\ b \in blocks
  /\ todo = <<>>
  /\ blocks' = blocks \ {b}
  /\ \/ store' = AppendBid(store, b) /\ UNCHANGED lost
     \/ lost' = lost \cup {b.id} /\ UNCHANGED store
  /\ UNCHANGED <<load, query, pageVars, socket, missed>>

-----------------------------------------------------------------------------
(* The page.                                                               *)

Shown == UseOnDisplayAuction(store)
IsLastAuction == Shown.id # None /\ Shown.id = store.last

\* The address is not of an auction; the effect corrects it.
OutOfBounds ==
  /\ store.last \notin {None, 0}
  /\ route # None
  /\ route > store.last \/ route < 0

\* The effect of AuctionPage: the id it sets.
Effect ==
  IF store.last \in {None, 0} THEN store.shown
  ELSE IF route = None \/ OutOfBounds THEN store.last
  ELSE IF Shown.id = None THEN route
  ELSE store.shown

EffectsDone == Effect = store.shown /\ (OutOfBounds => url = store.last)

RunEffect ==
  /\ ~EffectsDone
  /\ store' = SetOnDisplayAuctionTokenId(store, Effect)
  /\ url' = IF OutOfBounds THEN store.last ELSE url
  /\ astray' = (astray \/ (todo # <<>> /\ (Shown.id = None \/ OutOfBounds)))
  /\ UNCHANGED <<loadVars, route, todo, socket, historyVars>>

\* One dispatch of a handler.  A push of the redux router changes the URL
\* only: App has a router of its own, which history.push goes to.
Dispatch ==
  /\ todo # <<>>
  /\ todo' = Tail(todo)
  /\ LET t == Head(todo) IN
     CASE t.do = "active" ->
            store' = SetActiveAuction(store, t.auction)
            /\ UNCHANGED <<route, url>>
       [] t.do = "show" ->
            store' = SetOnDisplayAuctionTokenId(store, t.id)
            /\ UNCHANGED <<route, url>>
       [] t.do = "last" ->
            store' = SetLastAuctionTokenId(store, t.id)
            /\ UNCHANGED <<route, url>>
       [] t.do = "prev" ->
            store' = SetPrevOnDisplayAuctionTokenId(store)
            /\ UNCHANGED <<route, url>>
       [] t.do = "next" ->
            store' = SetNextOnDisplayAuctionTokenId(store)
            /\ UNCHANGED <<route, url>>
       [] t.do = "url" -> url' = t.id /\ UNCHANGED <<store, route>>
       [] t.do = "push" ->
            route' = t.id /\ url' = t.id /\ UNCHANGED store
  /\ UNCHANGED <<loadVars, astray, socket, historyVars>>

\* Navigation is there when an auction is shown and the last one is known.
\* The effects of what was rendered last run before the user can react.
Navigable ==
  /\ todo = <<>> /\ EffectsDone
  /\ Shown.id # None /\ store.last \notin {None, 0}

\* Clicks: React renders once, after the whole handler.
ClickPrev ==
  /\ Navigable /\ Shown.id # 0
  /\ store' = SetPrevOnDisplayAuctionTokenId(store)
  /\ route' = Shown.id - 1 /\ url' = Shown.id - 1
  /\ astray' = FALSE
  /\ UNCHANGED <<loadVars, todo, socket, historyVars>>

ClickNext ==
  /\ Navigable /\ ~IsLastAuction
  /\ store' = SetNextOnDisplayAuctionTokenId(store)
  /\ route' = Shown.id + 1 /\ url' = Shown.id + 1
  /\ astray' = FALSE
  /\ UNCHANGED <<loadVars, todo, socket, historyVars>>

\* Variant: without the push that the comment calls a hack.
HandleArrowLeftPlain ==
  /\ Navigable /\ Shown.id # 0
  /\ todo' = <<[do |-> "prev"], [do |-> "push", id |-> Shown.id - 1]>>
  /\ UNCHANGED <<loadVars, store, route, url, astray, socket, historyVars>>

\* Keys: handleKeyPress is not React's, every dispatch and push renders.
HandleArrowLeft ==
  /\ Navigable
  /\ todo' = (IF IsLastAuction THEN <<[do |-> "push", id |-> store.last]>>
              ELSE <<>>)
             \o (IF Shown.id = 0 THEN <<>>
                 ELSE <<[do |-> "prev"],
                        [do |-> "push", id |-> Shown.id - 1]>>)
  /\ UNCHANGED <<loadVars, store, route, url, astray, socket, historyVars>>

HandleArrowRight ==
  /\ Navigable /\ ~IsLastAuction
  /\ todo' = <<[do |-> "next"], [do |-> "push", id |-> Shown.id + 1]>>
  /\ UNCHANGED <<loadVars, store, route, url, astray, socket, historyVars>>

\* The parts of the state the page does not change are left to the actions
\* above; this is the page without its bid form.
Page ==
  \/ FetchAuction
  \/ QueryBids
  \/ Subscribe
  \/ FetchPastAuctions
  \/ socket # <<>> /\ \E e \in Head(socket) : Receive(e)
  \/ \E b \in blocks : ProcessBid(b)
  \/ RunEffect
  \/ Dispatch

Navigate == ClickPrev \/ ClickNext \/ HandleArrowLeft \/ HandleArrowRight

\* The state is empty or loadState has just finished.
Loaded ==
  /\ load = "live"
  /\ store = SetLastAuctionTokenId(SetFullAuction(InitialState, Auction), current)
NotLoaded == load = "start" /\ store = InitialState

WebAuctionInit ==
  /\ now = 0 /\ current = 1
  /\ chain = WithAuction(<<>>, 1)
  /\ socket = <<>> /\ blocks = {}
  /\ route \in Routes /\ url = route
  /\ todo = <<>>
  /\ astray = FALSE
  /\ missed = {} /\ lost = {}

-----------------------------------------------------------------------------
(* Properties                                                              *)

Quiet ==
  /\ load = "live"
  /\ socket = <<>> /\ blocks = {} /\ todo = <<>>

\* Once everything has been delivered, in whatever order the blocks of bids
\* came, the store has the auction of the chain, unless an event of this very
\* auction fell into the gap between the fetches of loadState and the
\* subscription or its block could not be fetched.  It has all the bids too,
\* but for those that were older than loadState asked for: the auction's
\* amount and bidder are right even then.  What was missed of earlier
\* auctions does no harm.
StoreFollowsChain ==
  Quiet /\ current \notin lost =>
    /\ store.active = Auction
    /\ store.bids = chain[current].bids \ missed
    /\ store.last = current

\* A page that shows the last auction shows the auction of the store and its
\* bids, never the subgraph's copy of it.
LastIsActive ==
  todo = <<>> /\ IsLastAuction =>
    /\ Shown = [store.active EXCEPT !.settled = FALSE]
    /\ UseAuctionBids(store, Shown.id) = store.bids

\* No sequence of clicks, keys and new auctions leads beyond the last one.
ShownExists == todo = <<>> => store.shown <= store.last

\* When effects and handlers are done, the address is the one of the auction
\* on display, whether the user came by clicks or keys, or was taken to a
\* new auction, unless an effect got between the steps of a handler and found
\* an auction that the subgraph's answer did not have, or corrected an
\* address of an auction that did not exist yet.
UrlIsShown ==
  todo = <<>> /\ EffectsDone /\ ~astray
  /\ store.last \notin {None, 0} /\ url # None => store.shown = url
=============================================================================
