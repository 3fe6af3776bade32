------------------------------ MODULE WebBid --------------------------------
(***************************************************************************)
(* The bid form of the auction page (components/Bid, SettleManuallyBtn,    *)
(* AuctionActivity) on top of WebAuction, and the wallet behind it.  The   *)
(* form is mounted while the last auction is on display; its state is lost *)
(* when it is not.  The user has one transaction at a time.  To bound the  *)
(* states, a session that browses has no bids; one that watches the bids   *)
(* of others or bids stays on the page it opened, has no answer of the     *)
(* subgraph, and the auction house is not paused; who bids has the page    *)
(* loaded.                                                                 *)
(***************************************************************************)
EXTENDS WebAuction

CONSTANT Me        \* the account of the wallet

ASSUME WebBidAssumption == Me \in Bidders

VARIABLES
  user,            \* what this session is for: "browses", "watches"
                   \* or, on a page that is loaded, "bids"
  form,            \* of component Bid
  ended,           \* AuctionActivity's auctionEnded
  tx               \* the user's transaction

formVars == <<user, form, ended, tx>>
bidVars == <<chainVars, loadVars, pageVars, socket, store, historyVars, formVars>>

NewBidForm == [input |-> 0, status |-> "None", settle |-> "None",
            loading |-> FALSE, edited |-> FALSE]
NoTx == [state |-> "none", id |-> None, value |-> 0]

Mounted == IsLastAuction /\ ~IsNounderNoun(Shown.id)

-----------------------------------------------------------------------------
\* What useAuctionMinBidIncPercentage has: the answer of the auction house or
\* none, because it has not come yet or the wallet has changed the network.
Readings == {None, Percentage}

\* Rounded up; no minimum without the percentage.
ComputeMinimumNextBid(amount, percentage) ==
  IF percentage = None THEN 0
  ELSE (amount * (100 + percentage) + 99) \div 100

FormOnly ==
  UNCHANGED <<chainVars, loadVars, pageVars, socket, store, historyVars, user>>

\* The hook on placeBidState.  The input is only read while a bid is being
\* placed: what is typed before is the argument of PlaceBidHandler.
BidStatus(f, status) ==
  [f EXCEPT !.status = status,
            !.input = IF status = "Mining" THEN tx.value ELSE 0,
            !.edited = FALSE,
            !.loading = IF ended \/ status = "Success" THEN @
                        ELSE status = "Mining"]

BidInputHandler(value) ==
  /\ Mounted /\ ~ended
  /\ form.status = "Mining"
  /\ value # form.input
  /\ form' = [form EXCEPT !.input = value, !.edited = TRUE]
  /\ FormOnly /\ UNCHANGED <<ended, tx>>

\* A bid below the minimum is refused; else the gas estimate tries it on the
\* chain, and nothing happens if it would fail there.
PlaceBidHandler(value, percentage) ==
  /\ Mounted /\ ~ended
  /\ "Mining" \notin {form.status, form.settle}
  /\ tx = NoTx
  /\ value >= ComputeMinimumNextBid(Shown.amount, percentage)
  /\ Shown.id = current /\ now < Auction.end
  /\ Acceptable(value)
  /\ tx' = [state |-> "signing", id |-> current, value |-> value]
  /\ FormOnly /\ UNCHANGED <<form, ended>>

Sign ==
  /\ tx.state = "signing"
  /\ tx' = [tx EXCEPT !.state = "pending"]
  /\ form' = IF Mounted THEN BidStatus(form, "Mining") ELSE form
  /\ FormOnly /\ UNCHANGED <<ended>>

Reject ==
  /\ tx.state = "signing"
  /\ tx' = NoTx
  /\ form' = IF Mounted THEN BidStatus(form, "Exception") ELSE form
  /\ FormOnly /\ UNCHANGED ended

\* The transaction is executed.  One that came too late reverts.
MineBid ==
  /\ tx.state = "pending"
  /\ \/ /\ tx.id = current
        /\ CreateBid(Me, tx.value)
        /\ tx' = [tx EXCEPT !.state = "mined"]
     \/ /\ \/ tx.id # current \/ now >= Auction.end
           \/ ~Acceptable(tx.value) \/ Auction.settled
        /\ tx' = [tx EXCEPT !.state = "failed"]
        /\ UNCHANGED <<chainVars, socket, lost>>
  /\ UNCHANGED <<loadVars, pageVars, store, missed, user, form, ended>>

Receipt ==
  /\ tx.state \in {"mined", "failed"}
  /\ tx' = NoTx
  /\ form' = IF Mounted /\ form.status = "Mining"
             THEN BidStatus(form, IF tx.state = "mined" THEN "Success"
                                  ELSE "Fail")
             ELSE form
  /\ FormOnly /\ UNCHANGED ended

\* The hook that takes the user's bid in the store for success.
BidSucceeds ==
  /\ Mounted
  /\ form.status = "Mining"
  /\ Shown.bidder = Me
  /\ form.input = Shown.amount

\* Variant: whoever bids.
SuccessfulBidOfAnyone ==
  /\ Mounted
  /\ form.status = "Mining"
  /\ form.input <= Shown.amount
  /\ form' = [form EXCEPT !.status = "Success", !.loading = FALSE,
                          !.input = 0, !.edited = FALSE]
  /\ FormOnly /\ UNCHANGED <<ended, tx>>

SuccessfulBid ==
  /\ BidSucceeds
  /\ form' = [form EXCEPT !.status = "Success", !.loading = FALSE,
                          !.input = 0, !.edited = FALSE]
  /\ FormOnly /\ UNCHANGED <<ended, tx>>

SettleAuctionHandler ==
  /\ Mounted /\ ended
  /\ now >= Shown.end + SettleWait
  /\ form.settle # "Mining"
  /\ form' = [form EXCEPT !.settle = "Mining", !.loading = TRUE]
  /\ FormOnly /\ UNCHANGED <<ended, tx>>

\* The hook on settleAuctionState: nothing to do once a new auction runs.
SettleReceipt(ok) ==
  /\ form.settle = "Mining"
  /\ form' = [form EXCEPT !.settle = IF ok THEN "Success" ELSE "Fail",
                          !.loading = IF ended THEN FALSE ELSE @]
  /\ FormOnly /\ UNCHANGED <<ended, tx>>

\* Variant: the hooks do not look at auctionEnded.
CheckEndedOnly ==
  /\ Shown.id # None
  /\ ended # (Shown.end <= now)
  /\ ended' = ~ended
  /\ FormOnly /\ UNCHANGED <<form, tx>>

\* AuctionActivity's effect, and both hooks of the form, which run again
\* when auctionEnded changes.
CheckEnded ==
  /\ Shown.id # None
  /\ ended # (Shown.end <= now)
  /\ ended' = ~ended
  /\ form' = IF Mounted
             THEN [form EXCEPT
                     !.loading = IF ended' THEN form.settle = "Mining"
                                 ELSE form.status = "Mining"]
             ELSE form
  /\ FormOnly /\ UNCHANGED tx

-----------------------------------------------------------------------------
\* The form is gone when the auction on display is not the last one.
FormFollows == form' = IF Mounted' THEN form ELSE NewBidForm

PageStep ==
  /\ Page \/ (user = "browses" /\ Navigate)
  /\ FormFollows
  /\ UNCHANGED <<chainVars, user, ended, tx>>

House ==
  /\ \/ /\ user # "browses"
        /\ \E b \in Bidders, v \in 1 .. MaxValue :
             (b = Me => user = "watches") /\ CreateBid(b, v)
     \/ SettleCurrentAndCreateNewAuction
     \/ user = "browses" /\ SettleAuction
     \/ Unpause
     \/ Tick
  /\ UNCHANGED <<loadVars, pageVars, store, missed, formVars>>

FormStep ==
  /\ user = "bids" /\ todo = <<>>
  /\ \/ \E v \in Reserve .. MaxValue :
          \/ BidInputHandler(v)
          \/ \E percentage \in Readings : PlaceBidHandler(v, percentage)
     \/ Sign
     \/ Reject
     \/ SettleAuctionHandler

FormUpdate ==
  \/ Receipt
  \/ SuccessfulBid
  \/ \E ok \in BOOLEAN : SettleReceipt(ok)
  \/ CheckEnded

AuctionInit ==
  /\ WebAuctionInit
  /\ user \in {"browses", "watches", "bids"}
  /\ IF user = "bids" THEN Loaded ELSE NotLoaded
  /\ query = (user = "browses")
  /\ user # "browses" => route = None
  /\ form = NewBidForm /\ ended = FALSE /\ tx = NoTx

AuctionNext == PageStep \/ House \/ FormStep \/ FormUpdate \/ MineBid

\* Time passes, effects and timers run, and receipts come.
AuctionProgress ==
  \/ Tick /\ UNCHANGED <<loadVars, pageVars, store, missed, formVars>>
  \/ Dispatch /\ FormFollows /\ UNCHANGED <<chainVars, user, ended, tx>>
  \/ CheckEnded
  \/ Receipt
  \/ \E ok \in BOOLEAN : SettleReceipt(ok)

-----------------------------------------------------------------------------
(* Properties                                                              *)

AuctionTypeOK ==
  /\ store.last \in {None} \cup DOMAIN chain
  /\ store.shown \in None .. LastAuction
  /\ form.status \in {"None", "Mining", "Success", "Fail", "Exception"}
  /\ form.settle \in {"None", "Mining", "Success", "Fail"}
  /\ form.input \in 0 .. MaxValue
  /\ tx.state \in {"none", "signing", "pending", "mined", "failed"}
  /\ lost \subseteq DOMAIN chain

\* The minimum that the form asks for is enough for the auction house (if it
\* is not below the reserve price, which the form does not know), although
\* one rounds up and the other down.  This is the minimum of the percentage
\* that was read: without it the form asks for nothing, and only the gas
\* estimate keeps a bid back that is too low.
MinimumIsEnough ==
  Mounted /\ [store.active EXCEPT !.end = Auction.end] = Auction =>
    \A v \in Reserve .. 2 * MaxValue :
      v >= ComputeMinimumNextBid(Shown.amount, Percentage) => Acceptable(v)

\* What the page shows is the auction it says, under its address and with a
\* minimum, once the percentage is read, that the auction house takes.
AuctionShownRight ==
  AuctionTypeOK /\ LastIsActive /\ ShownExists /\ UrlIsShown /\ MinimumIsEnough

\* "Bid was placed successfully!" is said when the user's transaction was
\* mined as a bid of this auction and not earlier, although the form only
\* compares the store with its input, unless the user changed the input while
\* the transaction was on its way.
SuccessIsReal ==
  [][SuccessfulBid /\ ~form.edited =>
       /\ tx = [state |-> "mined", id |-> Shown.id, value |-> form.input]
       /\ \E b \in chain[Shown.id].bids :
            b.sender = Me /\ b.value = form.input]_bidVars

\* The spinner does not turn forever: it ends with the transaction or, when
\* another bid overtook the user's in the store so that its success is never
\* noticed, with the auction.
SpinnerEnds ==
  form.loading ~> (~form.loading \/ tx.state = "pending")
=============================================================================
