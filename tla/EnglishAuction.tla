--------------------------- MODULE EnglishAuction ---------------------------
(***************************************************************************)
(* What the auction house promises, without its money and its settings:    *)
(* one lot at a time, sold to whoever leads when its time is over.  The    *)
(* detailed specification NAuctionHouse implements it.                     *)
(***************************************************************************)
EXTENDS Naturals

CONSTANTS
  House,     \* who keeps a lot while it is on sale
  Nobody     \* leads a lot without a bid, and owns a lot that is burned

VARIABLES
  clock,
  buffer,    \* the time that a bid leaves to the other bidders
  lot,       \* the current lot, or the last one
  owner      \* owner of each punk

vars == <<clock, buffer, lot, owner>>

Init == lot.state = "none"

\* A lot is put up: never sold before, without a bid, in the house's hands.
Opened ==
  /\ lot'.state = "open"
  /\ lot.state # "none" => lot'.id > lot.id
  /\ lot'.price = 0 /\ lot'.leader = Nobody
  /\ lot'.end >= clock
  /\ owner'[lot'.id] = House

Open ==
  /\ lot.state # "open"
  /\ Opened
  /\ UNCHANGED <<clock, buffer>>

\* The price never falls, the end never comes closer, and the others have
\* buffer left to answer.
Bid ==
  /\ lot.state = "open" /\ clock < lot.end
  /\ lot'.state = "open" /\ lot'.id = lot.id
  /\ lot'.leader # Nobody
  /\ lot'.price >= lot.price
  /\ lot'.end >= lot.end /\ lot'.end >= clock + buffer
  /\ UNCHANGED <<clock, buffer, owner>>

\* The time is over and the leader has the lot.
Sold ==
  /\ lot.state = "open" /\ clock >= lot.end
  /\ owner'[lot.id] = lot.leader

Close ==
  /\ Sold
  /\ lot' = [lot EXCEPT !.state = "closed"]
  /\ UNCHANGED <<clock, buffer>>

CloseAndOpen ==
  /\ Sold
  /\ Opened
  /\ UNCHANGED <<clock, buffer>>

\* Anything else leaves the lot alone; a punk on sale stays where it is.
Elsewhere ==
  /\ UNCHANGED lot
  /\ lot.state = "open" => owner'[lot.id] = owner[lot.id]
  /\ clock' >= clock

Next == Open \/ Bid \/ Close \/ CloseAndOpen \/ Elsewhere

Spec == Init /\ [][Next]_vars
=============================================================================
