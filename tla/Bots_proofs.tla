---------------------------- MODULE Bots_proofs -----------------------------
(***************************************************************************)
(* Proofs about the notification service: nothing is announced more often  *)
(* than the order of post and cache allows, and tweets are in the thread   *)
(* they belong to, wherever the service fails, dies and starts again, and  *)
(* however many ticks overlap: what functions that ran together worked on  *)
(* is told apart from the rest.                                            *)
(***************************************************************************)
EXTENDS Bots, FiniteSetTheorems, TLAPS

-----------------------------------------------------------------------------
(* Counting messages                                                       *)

LEMMA NotPositive ==
  ASSUME NEW n \in Nat, ~(n > 0)
  PROVE  n = 0
OBVIOUS

LEMMA NotBelow ==
  ASSUME NEW m \in Nat, NEW n \in Nat, n < m
  PROVE  m \notin 1 .. n
OBVIOUS

LEMMA CopiesAfter ==
  ASSUME NEW B, IsABag(B), NEW S
  PROVE  /\ IsABag(B (+) SetToBag(S))
         /\ \A m : /\ Copies(m, B) \in Nat
                   /\ Copies(m, B (+) SetToBag(S)) =
                        Copies(m, B) + IF m \in S THEN 1 ELSE 0
BY DEF IsABag, Copies, BagIn, BagToSet, (+), SetToBag

\* Sending adds one copy for each platform that is reached.
LEMMA SendDoes ==
  ASSUME IsABag(posted), NEW kind, NEW x, NEW sent, Send(kind, x, sent)
  PROVE  /\ IsABag(posted')
         /\ \A s, k, y : /\ Announced(s, k, y) \in Nat
                         /\ Announced(s, k, y)' = Announced(s, k, y)
                              + IF s \in sent /\ k = kind /\ y = x THEN 1 ELSE 0
<1> DEFINE S == {Message(s, kind, x) : s \in sent}
<1>1. posted' = posted (+) SetToBag(S)
  BY DEF Send
<1>2. \A s, k, y : Message(s, k, y) \in S <=> s \in sent /\ k = kind /\ y = x
  BY DEF Message
<1> HIDE DEF S
<1>3. /\ IsABag(posted')
      /\ \A m : /\ Copies(m, posted) \in Nat
                /\ Copies(m, posted') = Copies(m, posted) + IF m \in S THEN 1 ELSE 0
  BY <1>1, CopiesAfter
<1> QED BY <1>2, <1>3 DEF Announced

LEMMA SameCopies ==
  ASSUME UNCHANGED posted
  PROVE  \A s, k, y : Announced(s, k, y)' = Announced(s, k, y)
BY DEF Announced

-----------------------------------------------------------------------------
(* The auctions                                                            *)

Bid == [hash : Hashes, bidder : {"bidder"}, amount : Nat, time : Nat]
AuctionFields == {"start", "end", "amount", "bidder", "settled", "bids"}

\* Auctions are numbered without a gap; no two bids of one have one hash.
ChainOK ==
  /\ now \in Nat
  /\ LastId \in Nat
  /\ DOMAIN auctions = 1 .. LastId
  /\ \A i \in 1 .. LastId :
       /\ DOMAIN auctions[i] = AuctionFields
       /\ auctions[i].bids \in Seq(Bid)
       /\ \A k, l \in DOMAIN auctions[i].bids :
            auctions[i].bids[k].hash = auctions[i].bids[l].hash => k = l

LastBid(a) == IF a.bids = <<>> THEN NoBid ELSE a.bids[Len(a.bids)].hash

\* What a step of the chain does to the auctions.
ChainGrows ==
  /\ LastId <= LastId'
  /\ \A i \in 1 .. LastId : HashesOf(auctions[i]) \subseteq HashesOf(auctions'[i])
  /\ \A h : /\ LastId' \in 1 .. LastId
            /\ h = LastBid(auctions'[LastId'])
            /\ h \in HashesOf(auctions[LastId'])
            => LastId' = LastId /\ h = LastBid(auctions[LastId])

LEMMA LastIdIs ==
  ASSUME NEW n \in Nat, NEW f, DOMAIN f = 1 .. n
  PROVE  Cardinality(DOMAIN f) = n
<1>1. Cardinality(1 .. n) = IF 1 > n THEN 0 ELSE n - 1 + 1
  BY FS_Interval
<1> QED BY <1>1

LEMMA LastBidFacts ==
  ASSUME NEW a, a.bids \in Seq(Bid)
  PROVE  /\ LastBid(a) = NoBid <=> a.bids = <<>>
         /\ a.bids # <<>> => LastBid(a) \in HashesOf(a) /\ LastBid(a) \in Hashes
         /\ NoBid \notin HashesOf(a) /\ HashesOf(a) \subseteq Hashes
<1>0. NoBid \notin Hashes
  BY BotsAssumption DEF NoBid
<1>1. \A k \in DOMAIN a.bids : a.bids[k] \in Bid
  OBVIOUS
<1>2. \A k \in DOMAIN a.bids : a.bids[k].hash \in Hashes
  BY <1>1 DEF Bid
<1>3. a.bids # <<>> => Len(a.bids) \in DOMAIN a.bids
  OBVIOUS
<1> QED BY <1>0, <1>2, <1>3 DEF LastBid, HashesOf

LEMMA SameChainGrows ==
  ASSUME ChainOK, UNCHANGED auctions
  PROVE  ChainGrows
BY DEF ChainOK, ChainGrows, LastId

LEMMA ChainInit == Init => ChainOK
<1> SUFFICES ASSUME Init PROVE ChainOK
  OBVIOUS
<1>1. DOMAIN auctions = 1 .. 0 /\ now = 0
  BY DEF Init
<1>2. LastId = 0
  BY <1>1, LastIdIs DEF LastId
<1> QED BY <1>1, <1>2 DEF ChainOK

LEMMA CreateAuctionGrows ==
  ASSUME ChainOK, CreateAuction
  PROVE  ChainOK' /\ ChainGrows
<1>1. PICK n \in Nat : n = LastId
  BY DEF ChainOK
<1>2. PICK new : /\ new = [start |-> now, end |-> now + Duration, amount |-> 0,
                           bidder |-> NoBidder, settled |-> FALSE, bids |-> <<>>]
  OBVIOUS
<1>3. auctions' = [id \in DOMAIN auctions \cup {n + 1} |->
                     IF id = n + 1 THEN new ELSE auctions[id]]
  BY <1>1, <1>2 DEF CreateAuction, HandleAuctionCreated
<1>4. DOMAIN auctions = 1 .. n /\ now' = now
  BY <1>1 DEF ChainOK, CreateAuction, Chain
<1>5. DOMAIN auctions' = 1 .. n + 1
  BY <1>3, <1>4
<1>6. LastId' = n + 1
  BY <1>5, LastIdIs DEF LastId
<1>7. \A i \in 1 .. n : auctions'[i] = auctions[i]
  BY <1>3, <1>4
<1>8. auctions'[n + 1] = new
  BY <1>3, <1>4
<1>9. DOMAIN new = AuctionFields /\ new.bids = <<>>
  BY <1>2 DEF AuctionFields
<1>10. \A i \in 1 .. n + 1 : i = n + 1 \/ i \in 1 .. n
  OBVIOUS
<1>11. ChainOK'
  <2>1. ASSUME NEW i \in 1 .. n + 1
        PROVE  /\ DOMAIN auctions'[i] = AuctionFields
               /\ auctions'[i].bids \in Seq(Bid)
               /\ \A k, l \in DOMAIN auctions'[i].bids :
                    auctions'[i].bids[k].hash = auctions'[i].bids[l].hash => k = l
    <3>1. CASE i \in 1 .. n
      BY <3>1, <1>1, <1>7 DEF ChainOK
    <3>2. CASE i = n + 1
      BY <3>2, <1>8, <1>9
    <3> QED BY <3>1, <3>2, <1>10
  <2> QED BY <2>1, <1>4, <1>5, <1>6 DEF ChainOK
<1>12. ChainGrows
  BY <1>1, <1>6, <1>7 DEF ChainGrows
<1> QED BY <1>11, <1>12

LEMMA SettleAuctionGrows ==
  ASSUME ChainOK, SettleAuction
  PROVE  ChainOK' /\ ChainGrows
<1>1. PICK n \in Nat : n = LastId
  BY DEF ChainOK
<1>2. n > 0 /\ DOMAIN auctions = 1 .. n /\ now' = now
  BY <1>1 DEF ChainOK, SettleAuction, Chain, Running
<1>3. auctions' = [auctions EXCEPT ![n].settled = TRUE]
  BY <1>1, <1>2 DEF SettleAuction, HandleAuctionSettled
<1>4. DOMAIN auctions' = 1 .. n
  BY <1>2, <1>3
<1>5. LastId' = n
  BY <1>4, LastIdIs DEF LastId
<1>6. \A i \in 1 .. n : DOMAIN auctions[i] = AuctionFields
  BY <1>1 DEF ChainOK
<1>7. \A i \in 1 .. n : /\ DOMAIN auctions'[i] = AuctionFields
                        /\ auctions'[i].bids = auctions[i].bids
  BY <1>2, <1>3, <1>6 DEF AuctionFields
<1>8. ChainOK'
  BY <1>1, <1>2, <1>4, <1>5, <1>7 DEF ChainOK
<1>9. ChainGrows
  BY <1>1, <1>5, <1>7 DEF ChainGrows, LastBid, HashesOf
<1> QED BY <1>8, <1>9

LEMMA CreateBidGrows ==
  ASSUME ChainOK, NEW hash \in Hashes, CreateBid(hash)
  PROVE  ChainOK' /\ ChainGrows
<1>1. PICK n \in Nat : n = LastId
  BY DEF ChainOK
<1>2. n > 0 /\ n \in 1 .. n /\ DOMAIN auctions = 1 .. n /\ now' = now /\ now \in Nat
  BY <1>1 DEF ChainOK, CreateBid, Chain, Running
<1>3. PICK new : new = [hash |-> hash, bidder |-> "bidder", amount |-> now, time |-> now]
  OBVIOUS
<1>4. new \in Bid /\ new.hash = hash
  BY <1>2, <1>3 DEF Bid
<1>5. PICK bid : bid = [auctions EXCEPT ![n].amount = now, ![n].bidder = "bidder",
                                        ![n].bids = Append(@, new)]
  OBVIOUS
<1>ext. PICK extended \in BOOLEAN : extended <=> auctions[n].end - now < TimeBuffer
  OBVIOUS
<1>end. PICK end : end = now + TimeBuffer
  OBVIOUS
<1>6. auctions' = IF extended THEN [bid EXCEPT ![n].end = end] ELSE bid
  <2>1. DOMAIN bid = 1 .. n
    BY <1>2, <1>5
  <2>2. PICK e : e = [id |-> n, sender |-> "bidder", value |-> now, hash |-> hash,
                      time |-> now]
    OBVIOUS
  <2>3. HandleAuctionBid(auctions, e) = bid
    BY <2>2, <1>2, <1>3, <1>5 DEF HandleAuctionBid
  <2>4. auctions' = IF extended
                    THEN HandleAuctionExtended(bid, [id |-> n, end |-> end])
                    ELSE bid
    BY <2>2, <2>3, <1>1, <1>ext, <1>end DEF CreateBid
  <2>5. HandleAuctionExtended(bid, [id |-> n, end |-> end])
          = [bid EXCEPT ![n].end = end]
    BY <2>1, <1>2 DEF HandleAuctionExtended
  <2> QED BY <2>4, <2>5
<1>7. \A i \in 1 .. n : DOMAIN auctions[i] = AuctionFields /\ auctions[i].bids \in Seq(Bid)
  BY <1>1 DEF ChainOK
<1>8. PICK bids \in Seq(Bid) : bids = auctions[n].bids
  BY <1>2, <1>7
<1>9. /\ DOMAIN bid = 1 .. n
      /\ \A i \in 1 .. n : i # n => bid[i] = auctions[i]
      /\ DOMAIN bid[n] = AuctionFields /\ bid[n].bids = Append(bids, new)
  BY <1>2, <1>5, <1>7, <1>8 DEF AuctionFields
<1>10. /\ DOMAIN auctions' = 1 .. n
       /\ \A i \in 1 .. n : i # n => auctions'[i] = auctions[i]
       /\ DOMAIN auctions'[n] = AuctionFields /\ auctions'[n].bids = Append(bids, new)
  <2>1. CASE extended
    BY <2>1, <1>2, <1>6, <1>9 DEF AuctionFields
  <2>2. CASE ~extended
    BY <2>2, <1>2, <1>6, <1>9
  <2> QED BY <2>1, <2>2
<1>11. LastId' = n
  BY <1>10, LastIdIs DEF LastId
<1>12. hash \notin HashesOf(auctions[n])
  BY <1>2 DEF CreateBid, UsedHashes
<1>13. PICK m \in Nat : m = Len(bids)
  BY <1>8
<1>14. /\ DOMAIN auctions'[n].bids = 1 .. m + 1 /\ DOMAIN bids = 1 .. m
       /\ Append(bids, new) \in Seq(Bid) /\ Append(bids, new) # <<>>
       /\ auctions'[n].bids[m + 1].hash = hash
       /\ \A k \in 1 .. m : auctions'[n].bids[k] = bids[k]
       /\ Len(auctions'[n].bids) = m + 1
  <2>1. PICK longer : longer = Append(bids, new)
    OBVIOUS
  <2>2. auctions'[n].bids = longer
    BY <1>10, <2>1
  <2>3. new \in Bid /\ new.hash = hash
    BY <1>4
  <2>4. /\ longer \in Seq(Bid) /\ longer # <<>> /\ Len(longer) = m + 1
        /\ longer[m + 1] = new /\ \A k \in 1 .. m : longer[k] = bids[k]
    BY <1>8, <1>13, <2>1, <2>3
  <2>5. DOMAIN bids = 1 .. m /\ DOMAIN longer = 1 .. m + 1
    BY <1>13, <2>4
  <2> QED BY <2>1, <2>2, <2>3, <2>4, <2>5
<1>15. \A k \in 1 .. m : bids[k].hash # hash
  BY <1>8, <1>12, <1>14 DEF HashesOf
<1>16. \A k \in 1 .. m + 1 : k = m + 1 \/ k \in 1 .. m
  OBVIOUS
<1>17. \A k, l \in 1 .. m + 1 :
         auctions'[n].bids[k].hash = auctions'[n].bids[l].hash => k = l
  <2>1. \A k, l \in 1 .. m : bids[k].hash = bids[l].hash => k = l
    BY <1>1, <1>2, <1>8, <1>14 DEF ChainOK
  <2> QED BY <2>1, <1>14, <1>15, <1>16
<1>18. ChainOK'
  <2>1. ASSUME NEW i \in 1 .. n
        PROVE  /\ DOMAIN auctions'[i] = AuctionFields
               /\ auctions'[i].bids \in Seq(Bid)
               /\ \A k, l \in DOMAIN auctions'[i].bids :
                    auctions'[i].bids[k].hash = auctions'[i].bids[l].hash => k = l
    <3>1. CASE i = n
      BY <3>1, <1>10, <1>14, <1>17
    <3>2. CASE i # n
      BY <3>2, <1>1, <1>10 DEF ChainOK
    <3> QED BY <3>1, <3>2
  <2> QED BY <2>1, <1>2, <1>10, <1>11 DEF ChainOK
<1>19. LastBid(auctions'[n]) = hash
  BY <1>10, <1>14 DEF LastBid
<1>20. \A i \in 1 .. n : HashesOf(auctions[i]) \subseteq HashesOf(auctions'[i])
  <2>1. HashesOf(auctions[n]) \subseteq HashesOf(auctions'[n])
    <3>1. \A k \in 1 .. m : k \in 1 .. m + 1
      OBVIOUS
    <3> QED BY <3>1, <1>8, <1>14 DEF HashesOf
  <2> QED BY <2>1, <1>10
<1> QED BY <1>1, <1>11, <1>12, <1>18, <1>19, <1>20 DEF ChainGrows
-----------------------------------------------------------------------------
(* The ticks of the auctions: what Redis, the ticks and the messages about *)
(* an auction have to do with each other.                                  *)

RedisFields == {"auction", "bid", "soon", "thread", "proposals", "warned"}
RedisOK ==
  /\ DOMAIN redis = RedisFields
  /\ redis.auction \in 0 .. LastId
  /\ redis.soon \in 0 .. LastId
  /\ redis.thread \in 0 .. LastId
  /\ redis.bid \in Hashes \cup {NoBid}

TickFields == {"no", "pc", "auction", "bid", "soon", "last", "lastBid", "end",
               "thread", "ok"}

\* Before a tick knows the last auction, and once that is in the cache.
Early == {"setup", "bidCache", "soonCache", "fetch"}
InCache == {"newAuction", "newThread", "bid", "newBid", "replyBid", "bidThread",
            "soon", "endingSoon", "replySoon", "soonThread"}
TickPcs == Early \cup {"seed", "auction"} \cup InCache

\* Where a tick still needs its copy of a cache, or the thread it replies in.
HoldsAuction == {"bidCache", "soonCache", "fetch", "auction"}
HoldsBid == {"soonCache", "fetch", "auction", "newAuction", "newThread", "bid"}
HoldsSoon == {"fetch", "auction", "newAuction", "newThread", "bid", "newBid",
              "replyBid", "bidThread", "soon"}
HoldsThread == {"newThread", "replyBid", "bidThread", "replySoon", "soonThread"}

TickOK(t) ==
  /\ DOMAIN t = TickFields /\ t.pc \in TickPcs
  /\ t.auction \in 0 .. LastId /\ t.soon \in 0 .. LastId
  /\ t.last \in 0 .. LastId /\ t.thread \in 0 .. LastId
  /\ t.last = 0 <=> t.pc \in Early
  /\ t.last > 0 => /\ t.auction <= t.last
                   /\ t.lastBid \in HashesOf(auctions[t.last]) \cup {NoBid}
  /\ t.pc = "newThread" => t.thread = t.last

\* A tick that saw an auction is alone, or the auction is crowded.
TicksOK ==
  /\ \A t \in ticks : TickOK(t)
  /\ \A t, u \in ticks : t.no = u.no => t = u
  /\ \A t, u \in ticks : t.last = 0 \/ t.last \in crowded \/ t = u

Tweeted(kind, x) == Announced("twitter", kind, x) > 0

\* Something about an auction went out.
Said(a) ==
  \/ \E s : Announced(s, "auction", a) > 0
  \/ Tweeted("endingSoon", a)
  \/ \E h : Tweeted("bid", <<a, h>>)
  \/ \E r \in replies : r[1] = a

\* An auction is in the cache or in a copy of it, or was.
Touched(a) ==
  \/ redis.auction = a
  \/ \E t \in ticks : t.pc \in HoldsAuction /\ t.auction = a
  \/ Said(a)

\* Neither the cache nor a tick is behind it.
Led(a) == redis.auction >= a /\ \A t \in ticks : t.last = 0 \/ t.last >= a

\* What went out is in the caches, and in the copies of them that are still
\* needed: the auction or a later one, and the last bid of the last auction.
AuctionMark(a) ==
  /\ Touched(a) => Led(a)
  /\ Said(a) => \A t \in ticks : t.pc \in HoldsAuction => t.auction >= a
SoonMark(a) ==
  Tweeted("endingSoon", a) =>
    redis.soon >= a /\ \A t \in ticks : t.pc \in HoldsSoon => t.soon >= a
BidMark(a, h) ==
  Tweeted("bid", <<a, h>>) =>
    /\ a <= LastId /\ h \in HashesOf(auctions[a])
    /\ a = LastId /\ h = LastBid(auctions[a]) =>
         /\ redis.bid = h
         /\ \A t \in ticks : /\ t.pc \in HoldsBid => t.bid = h
                             /\ t.last = a => t.lastBid = h

\* So is the thread of an auction that was tweeted.
ThreadMark(a) ==
  Tweeted("auction", a) /\ a \notin lost =>
    /\ redis.thread >= a \/ \E t \in ticks : t.pc = "newThread" /\ t.last = a
    /\ \A t \in ticks : t.pc \in HoldsThread => t.thread >= a

Once(a) ==
  /\ \A s : Announced(s, "auction", a) <= 1
  /\ Announced("twitter", "endingSoon", a) <= 1
  /\ \A h : Announced("twitter", "bid", <<a, h>>) <= 1
Threaded(a) ==
  \A r \in replies : r[1] = a /\ r[2] # a => a \in lost \/ ~Tweeted("auction", a)

Marks(a) ==
  /\ AuctionMark(a) /\ SoonMark(a) /\ ThreadMark(a) /\ Once(a) /\ Threaded(a)
  /\ \A h : BidMark(a, h)

\* A tick that works on the auction a alone: nothing is ahead of it, and
\* what it is about to say has not been said.
Works(a, t) ==
  /\ redis.auction <= a /\ redis.soon <= a /\ redis.thread <= a /\ t.thread <= a
  /\ t.pc \in InCache => redis.auction = a
  /\ t.pc = "newAuction" => ~Said(a)
  /\ t.pc \in {"auction", "newAuction", "newThread", "bid"} =>
       (Tweeted("bid", <<a, t.lastBid>>) => t.bid = t.lastBid)
  /\ t.pc \in {"newBid", "replyBid"} =>
       /\ redis.bid = t.lastBid /\ t.lastBid # NoBid
       /\ ~Tweeted("bid", <<a, t.lastBid>>)
  /\ t.pc \in {"endingSoon", "replySoon"} =>
       redis.soon = a /\ ~Tweeted("endingSoon", a)

Ids == Nat \ {0}
AuctionsOK ==
  \A a \in Ids \ crowded :
    Marks(a) /\ \A t \in ticks : t.last = a => Works(a, t)
AuctionsInv == ChainOK /\ RedisOK /\ IsABag(posted) /\ TicksOK /\ AuctionsOK

-----------------------------------------------------------------------------
(* Steps that say nothing                                                  *)

LEMMA AnnouncedType ==
  ASSUME IsABag(posted), NEW s, NEW k, NEW y
  PROVE  Announced(s, k, y) \in Nat
BY CopiesAfter DEF Announced

\* A step that sends nothing about an auction.
SameTalk(a) ==
  /\ \A s : Announced(s, "auction", a)' = Announced(s, "auction", a)
  /\ Announced("twitter", "endingSoon", a)' = Announced("twitter", "endingSoon", a)
  /\ \A h : Announced("twitter", "bid", <<a, h>>)' = Announced("twitter", "bid", <<a, h>>)
  /\ \A r : r[1] = a => (r \in replies' <=> r \in replies)

LEMMA SilentIsSame ==
  ASSUME UNCHANGED <<posted, replies>>
  PROVE  \A a : SameTalk(a)
<1>1. \A s, k, y : Announced(s, k, y)' = Announced(s, k, y)
  BY SameCopies
<1> QED BY <1>1 DEF SameTalk

LEMMA SameTalkFacts ==
  ASSUME NEW a, SameTalk(a)
  PROVE  /\ Said(a)' <=> Said(a)
         /\ Tweeted("auction", a)' <=> Tweeted("auction", a)
         /\ Tweeted("endingSoon", a)' <=> Tweeted("endingSoon", a)
         /\ \A h : Tweeted("bid", <<a, h>>)' <=> Tweeted("bid", <<a, h>>)
         /\ Once(a) => Once(a)'
         /\ lost \subseteq lost' /\ Threaded(a) => Threaded(a)'
<1>1. /\ Tweeted("auction", a)' <=> Tweeted("auction", a)
      /\ Tweeted("endingSoon", a)' <=> Tweeted("endingSoon", a)
      /\ \A h : Tweeted("bid", <<a, h>>)' <=> Tweeted("bid", <<a, h>>)
  BY DEF SameTalk, Tweeted
<1>2. (\E r \in replies' : r[1] = a) <=> (\E r \in replies : r[1] = a)
  BY DEF SameTalk
<1>3. (\E s : Announced(s, "auction", a) > 0)' <=> \E s : Announced(s, "auction", a) > 0
  BY DEF SameTalk
<1>4. Said(a)' <=> Said(a)
  BY <1>1, <1>2, <1>3 DEF Said
<1>5. Once(a) => Once(a)'
  BY DEF SameTalk, Once
<1>6. lost \subseteq lost' /\ Threaded(a) => Threaded(a)'
  BY <1>1 DEF SameTalk, Threaded
<1> QED BY <1>1, <1>4, <1>5, <1>6

\* Where the fields of a tick come from: from the tick, from Redis, or from
\* the chain.
From(t, u) ==
  /\ u.pc \in HoldsAuction => t.pc \in HoldsAuction /\ u.auction = t.auction
  /\ u.pc \in HoldsBid => u.bid = redis.bid \/ (t.pc \in HoldsBid /\ u.bid = t.bid)
  /\ u.pc \in HoldsSoon => u.soon = redis.soon \/ (t.pc \in HoldsSoon /\ u.soon = t.soon)
  /\ u.pc \in HoldsThread => \/ t.pc # "newThread" /\ u.thread = redis.thread
                             \/ u.last # 0 /\ u.thread = u.last
                             \/ t.pc \in HoldsThread /\ u.thread = t.thread
  /\ \/ u.last = t.last /\ u.lastBid = t.lastBid
     \/ u.last = LastId /\ u.lastBid = LastBid(auctions[LastId])

\* A function that has just been called.
Fresh(u) ==
  /\ u.pc \in {"setup", "bidCache"} /\ u.last = 0
  /\ u.pc = "bidCache" => u.auction = redis.auction

Carried == \A u \in ticks' : Fresh(u) \/ \E t \in ticks : From(t, u)

\* What is written to Redis comes from a tick.
Written ==
  /\ \/ redis'.auction = redis.auction
     \/ \E t \in ticks : t.last # 0 /\ redis'.auction = t.last
  /\ redis'.soon = redis.soon \/ \E t \in ticks : t.last # 0 /\ redis'.soon = t.last
  /\ \/ redis'.thread = redis.thread
     \/ \E t \in ticks : t.pc \in HoldsThread /\ redis'.thread = t.thread
  /\ redis'.bid = redis.bid \/ \E t \in ticks : t.last # 0 /\ redis'.bid = t.lastBid

\* A thread that is not written down is written down, or lost.
ThreadKept ==
  \A t \in ticks : t.pc = "newThread" =>
    t \in ticks' \/ redis'.thread = t.last \/ t.last \in lost'

LEMMA SilentMarks ==
  ASSUME ChainOK, RedisOK, TicksOK, UNCHANGED auctions, NEW a \in Ids \ crowded, Marks(a),
         SameTalk(a), Carried, Written, ThreadKept, lost \subseteq lost',
         \A t \in ticks' : t.last \in Nat
  PROVE  Marks(a)'
<1>1. PICK n \in Nat : n = LastId /\ n = LastId'
  BY DEF ChainOK, LastId
<1>2. a \in Nat /\ a # 0 /\ redis.auction \in 0 .. n
  BY <1>1 DEF Ids, RedisOK
<1>3. \A t \in ticks : t.last \in 0 .. n /\ (t.last = a => \A u \in ticks : u = t)
  BY <1>1, <1>2 DEF TicksOK, TickOK
<1>4. AuctionMark(a) /\ SoonMark(a) /\ ThreadMark(a) /\ Once(a) /\ Threaded(a)
  BY DEF Marks
<1>5. /\ Said(a)' <=> Said(a)
      /\ Tweeted("auction", a)' <=> Tweeted("auction", a)
      /\ Tweeted("endingSoon", a)' <=> Tweeted("endingSoon", a)
      /\ \A h : Tweeted("bid", <<a, h>>)' <=> Tweeted("bid", <<a, h>>)
      /\ Once(a)' /\ Threaded(a)'
  BY <1>4, SameTalkFacts
<1>6. Said(a) => Touched(a) /\ Led(a)
  BY <1>4 DEF AuctionMark, Touched
<1>7. /\ Tweeted("auction", a) => Said(a)
      /\ Tweeted("endingSoon", a) => Said(a)
      /\ \A h : Tweeted("bid", <<a, h>>) => Said(a)
  BY DEF Said, Tweeted
<1>8. \A u \in ticks' : \/ u.last = 0 \/ u.last = n \/ \E t \in ticks : u.last = t.last
  BY <1>1 DEF Carried, Fresh, From
<1>9. Led(a) => Led(a)'
  <2> HAVE Led(a)
  <2>1. n >= a
    BY <1>1, <1>2 DEF Led
  <2>2. redis'.auction >= a
    BY DEF Written, Led
  <2>3. ASSUME NEW u \in ticks' PROVE u.last = 0 \/ u.last >= a
    BY <2>1, <1>8 DEF Led
  <2> QED BY <2>2, <2>3 DEF Led
<1>10. Touched(a)' => Led(a)'
  <2> HAVE Touched(a)'
  <2>1. CASE redis'.auction = a
    <3>1. CASE redis.auction = a
      BY <3>1, <1>4, <1>9 DEF AuctionMark, Touched
    <3>2. CASE redis.auction # a
      <4>1. PICK t \in ticks : t.last = a
        BY <2>1, <3>2 DEF Written
      <4>2. n >= a
        BY <4>1, <1>2, <1>3
      <4>3. \A u \in ticks' : u.last = 0 \/ u.last = n \/ u.last = a
        BY <4>1, <1>3, <1>8
      <4> QED BY <2>1, <4>2, <4>3, <1>2 DEF Led
    <3> QED BY <3>1, <3>2
  <2>2. CASE \E u \in ticks' : u.pc \in HoldsAuction /\ u.auction = a
    <3>1. PICK u \in ticks' : u.pc \in HoldsAuction /\ u.auction = a
      BY <2>2
    <3>2. redis.auction = a \/ \E t \in ticks : t.pc \in HoldsAuction /\ t.auction = a
      BY <3>1 DEF Carried, Fresh, From, HoldsAuction
    <3> QED BY <3>2, <1>4, <1>9 DEF AuctionMark, Touched
  <2>3. CASE Said(a)'
    BY <2>3, <1>5, <1>6, <1>9
  <2> QED BY <2>1, <2>2, <2>3 DEF Touched
<1>11. ASSUME Said(a)', NEW u \in ticks', u.pc \in HoldsAuction
       PROVE  u.auction >= a
  <2>1. redis.auction >= a /\ \A t \in ticks : t.pc \in HoldsAuction => t.auction >= a
    BY <1>4, <1>5, <1>6, <1>11 DEF AuctionMark, Led
  <2> QED BY <2>1, <1>11 DEF Carried, Fresh, From, HoldsAuction
<1>12. AuctionMark(a)'
  BY <1>10, <1>11 DEF AuctionMark
<1>13. SoonMark(a)'
  <2> SUFFICES ASSUME Tweeted("endingSoon", a)'
               PROVE  /\ redis'.soon >= a
                      /\ \A u \in ticks' : u.pc \in HoldsSoon => u.soon >= a
    BY DEF SoonMark
  <2>1. redis.soon >= a /\ \A t \in ticks : t.pc \in HoldsSoon => t.soon >= a
    BY <1>4, <1>5 DEF SoonMark
  <2>2. \A t \in ticks : t.last # 0 => t.last >= a
    BY <1>5, <1>6, <1>7 DEF Led
  <2>3. redis'.soon >= a
    BY <2>1, <2>2 DEF Written
  <2>4. ASSUME NEW u \in ticks', u.pc \in HoldsSoon PROVE u.soon >= a
    <3>1. ~Fresh(u)
      BY <2>4 DEF Fresh, HoldsSoon
    <3> QED BY <2>1, <2>4, <3>1 DEF Carried, From
  <2> QED BY <2>3, <2>4
<1>14. ThreadMark(a)'
  <2> SUFFICES ASSUME Tweeted("auction", a)', a \notin lost'
               PROVE  /\ \/ redis'.thread >= a
                         \/ \E u \in ticks' : u.pc = "newThread" /\ u.last = a
                      /\ \A u \in ticks' : u.pc \in HoldsThread => u.thread >= a
    BY DEF ThreadMark
  <2>1. /\ redis.thread >= a \/ \E t \in ticks : t.pc = "newThread" /\ t.last = a
        /\ \A t \in ticks : t.pc \in HoldsThread => t.thread >= a
    BY <1>4, <1>5 DEF ThreadMark
  <2>2. \/ redis'.thread >= a
        \/ \E u \in ticks' : u.pc = "newThread" /\ u.last = a
    <3>1. CASE redis.thread >= a
      BY <3>1, <2>1 DEF Written
    <3>2. CASE \E t \in ticks : t.pc = "newThread" /\ t.last = a
      <4>1. PICK t \in ticks : t.pc = "newThread" /\ t.last = a
        BY <3>2
      <4>2. t \in ticks' \/ redis'.thread = a
        BY <4>1 DEF ThreadKept
      <4> QED BY <4>1, <4>2, <1>2
    <3> QED BY <3>1, <3>2, <2>1
  <2>3. ASSUME NEW u \in ticks', u.pc \in HoldsThread PROVE u.thread >= a
    <3>1. ~Fresh(u)
      BY <2>3 DEF Fresh, HoldsThread
    <3>2. PICK t \in ticks : From(t, u)
      BY <3>1 DEF Carried
    <3>3. CASE t.pc # "newThread" /\ u.thread = redis.thread
      <4>1. redis.thread >= a
        BY <2>1, <3>3, <1>3
      <4> QED BY <3>3, <4>1
    <3>4. CASE u.last # 0 /\ u.thread = u.last
      <4>1. Led(a)'
        BY <1>5, <1>6, <1>7, <1>9
      <4> QED BY <3>4, <4>1 DEF Led
    <3>5. CASE t.pc \in HoldsThread /\ u.thread = t.thread
      BY <3>5, <2>1
    <3> QED BY <3>2, <3>3, <3>4, <3>5, <2>3 DEF From
  <2> QED BY <2>2, <2>3
<1>15. ASSUME NEW h PROVE BidMark(a, h)'
  <2> SUFFICES ASSUME Tweeted("bid", <<a, h>>)'
               PROVE  /\ a <= n /\ h \in HashesOf(auctions[a])
                      /\ a = n /\ h = LastBid(auctions[a]) =>
                           /\ redis'.bid = h
                           /\ \A u \in ticks' : /\ u.pc \in HoldsBid => u.bid = h
                                                /\ u.last = a => u.lastBid = h
    BY <1>1 DEF BidMark, LastBid, HashesOf
  <2>1. /\ a <= n /\ h \in HashesOf(auctions[a])
        /\ a = n /\ h = LastBid(auctions[a]) =>
             /\ redis.bid = h
             /\ \A t \in ticks : /\ t.pc \in HoldsBid => t.bid = h
                                 /\ t.last = a => t.lastBid = h
    BY <1>1, <1>5 DEF Marks, BidMark
  <2>2. Led(a)
    BY <1>5, <1>6, <1>7
  <2> SUFFICES ASSUME a = n, h = LastBid(auctions[a])
               PROVE  /\ redis'.bid = h
                      /\ \A u \in ticks' : /\ u.pc \in HoldsBid => u.bid = h
                                           /\ u.last = a => u.lastBid = h
    BY <2>1
  <2>3. redis'.bid = h
    <3>1. \A t \in ticks : t.last # 0 => t.last = a
      BY <2>2, <1>2, <1>3 DEF Led
    <3> QED BY <3>1, <2>1 DEF Written
  <2>4. ASSUME NEW u \in ticks', u.pc \in HoldsBid PROVE u.bid = h
    <3>1. ~Fresh(u)
      BY <2>4 DEF Fresh, HoldsBid
    <3> QED BY <2>1, <2>4, <3>1 DEF Carried, From
  <2>5. ASSUME NEW u \in ticks', u.last = a PROVE u.lastBid = h
    <3>1. ~Fresh(u)
      BY <2>5, <1>2 DEF Fresh
    <3> QED BY <2>1, <2>5, <3>1, <1>1 DEF Carried, From
  <2> QED BY <2>3, <2>4, <2>5
<1> QED BY <1>5, <1>12, <1>13, <1>14, <1>15 DEF Marks

-----------------------------------------------------------------------------
(* One tick takes a step                                                   *)

LEMMA SameChain ==
  ASSUME ChainOK, UNCHANGED <<auctions, now>>
  PROVE  ChainOK' /\ LastId' = LastId /\ LastId \in Nat
<1>1. auctions' = auctions /\ now' = now
  OBVIOUS
<1> QED BY <1>1 DEF ChainOK, LastId

LEMMA SameTickOK ==
  ASSUME UNCHANGED auctions, NEW t, TickOK(t)
  PROVE  TickOK(t)'
<1>1. LastId' = LastId
  BY DEF LastId
<1> QED BY <1>1 DEF TickOK, HashesOf

LEMMA Crowds ==
  ASSUME Overlaps
  PROVE  /\ crowded \subseteq crowded'
         /\ \A t, u \in ticks' : t.last = 0 \/ t.last \in crowded' \/ t = u
<1>1. crowded' = crowded \cup Together(ticks')
  BY DEF Overlaps
<1>2. \A t, u \in ticks' : t # u => t.last = 0 \/ t.last \in Together(ticks')
  BY DEF Together
<1> QED BY <1>1, <1>2

\* What is left to show of a step: that what it says is marked, and that
\* each tick has what it needs.
LEMMA AuctionsMove ==
  ASSUME AuctionsInv, UNCHANGED <<auctions, now>>, Overlaps, RedisOK', IsABag(posted'),
         \A t \in ticks' : TickOK(t)', \A t, u \in ticks' : t.no = u.no => t = u,
         lost \subseteq lost', Carried, Written, ThreadKept,
         \A a \in Ids \ crowded' : SameTalk(a) \/ Marks(a)',
         \A t \in ticks' : t.last \in Ids \ crowded' => Works(t.last, t)'
  PROVE  AuctionsInv'
<1>1. ChainOK' /\ LastId' = LastId /\ LastId \in Nat
  BY SameChain DEF AuctionsInv
<1>2. /\ crowded \subseteq crowded'
      /\ \A t, u \in ticks' : t.last = 0 \/ t.last \in crowded' \/ t = u
  BY Crowds
<1>3. TicksOK'
  BY <1>2 DEF TicksOK
<1>4. \A t \in ticks' : t.last \in Nat
  <2>1. \A n \in Nat : \A m \in 0 .. n : m \in Nat
    OBVIOUS
  <2> QED BY <1>1, <2>1 DEF TickOK
<1>5. ASSUME NEW a \in Ids \ crowded' PROVE Marks(a)'
  <2>1. a \in Ids \ crowded
    BY <1>2
  <2>2. Marks(a)
    BY <2>1 DEF AuctionsInv, AuctionsOK
  <2>3. SameTalk(a) => Marks(a)'
    BY <2>1, <2>2, <1>4, SilentMarks DEF AuctionsInv
  <2> QED BY <2>3
<1>6. \A a \in Ids \ crowded' : \A t \in ticks' : t.last = a => Works(a, t)'
  OBVIOUS
<1>7. AuctionsOK'
  BY <1>5, <1>6 DEF AuctionsOK, Ids
<1> QED BY <1>1, <1>3, <1>7 DEF AuctionsInv

\* The tick t goes on as u.
Goes(t, u) ==
  /\ t \in ticks /\ Step(t, u) /\ u.no = t.no
  /\ u.pc # "done" => TickOK(u) /\ From(t, u)

LEMMA FromItself ==
  ASSUME NEW t
  PROVE  From(t, t)
BY DEF From

LEMMA StepKeeps ==
  ASSUME AuctionsInv, NEW t, NEW u, Goes(t, u), UNCHANGED <<auctions, now>>, Overlaps,
         RedisOK', IsABag(posted'), lost \subseteq lost', Written,
         t.pc = "newThread" => redis'.thread = t.last \/ t.last \in lost',
         \A a \in Ids \ crowded' : SameTalk(a) \/ Marks(a)',
         u.pc # "done" /\ u.last \in Ids \ crowded' => Works(u.last, u)'
  PROVE  AuctionsInv'
<1>1. /\ \A v \in ticks' : (v = u /\ u.pc # "done") \/ (v \in ticks /\ v # t)
      /\ \A v \in ticks : v # t => v \in ticks'
  BY DEF Goes, Step
<1>2. TicksOK /\ t \in ticks
  BY DEF AuctionsInv, Goes
<1>3. ASSUME NEW v \in ticks' PROVE TickOK(v)'
  <2>1. TickOK(v)
    BY <1>1, <1>2 DEF TicksOK, Goes
  <2> QED BY <2>1, SameTickOK
<1>4. \A v, w \in ticks' : v.no = w.no => v = w
  BY <1>1, <1>2 DEF TicksOK, Goes
<1>5. Carried
  <2>1. ASSUME NEW v \in ticks' PROVE \E w \in ticks : From(w, v)
    <3>1. CASE v = u /\ u.pc # "done"
      BY <3>1, <1>2 DEF Goes
    <3>2. CASE v \in ticks
      BY <3>2, FromItself
    <3> QED BY <1>1, <3>1, <3>2
  <2> QED BY <2>1 DEF Carried
<1>6. ThreadKept
  BY <1>1 DEF ThreadKept
<1>7. ASSUME NEW v \in ticks', v.last \in Ids \ crowded' PROVE Works(v.last, v)'
  <2>1. CASE v = u /\ u.pc # "done"
    BY <2>1, <1>7
  <2>2. CASE v \in ticks /\ v # t
    <3>1. v.last = 0 \/ v.last \in crowded
      BY <2>2, <1>2 DEF TicksOK
    <3> QED BY <3>1, <1>7, Crowds DEF Ids
  <2> QED BY <1>1, <2>1, <2>2
<1> QED BY <1>3, <1>4, <1>5, <1>6, <1>7, AuctionsMove

\* The tick that works on an auction alone, and what it has.
LEMMA Alone ==
  ASSUME AuctionsInv, NEW t \in ticks, t.last \notin crowded, t.pc \notin Early
  PROVE  /\ t.last \in Ids /\ ticks = {t} /\ Works(t.last, t) /\ Marks(t.last)
         /\ t.last \in 1 .. LastId /\ LastId \in Nat
<1>1. LastId \in Nat /\ TicksOK /\ TickOK(t)
  BY DEF AuctionsInv, ChainOK, TicksOK
<1>2. t.last \in 1 .. LastId
  BY <1>1 DEF TickOK
<1>3. t.last \in Ids
  BY <1>1, <1>2 DEF Ids
<1>4. ticks = {t}
  BY <1>1, <1>3 DEF TicksOK, Ids
<1> QED BY <1>1, <1>2, <1>3, <1>4 DEF AuctionsInv, AuctionsOK

\* Without a post.
LEMMA SilentStep ==
  ASSUME AuctionsInv, NEW t, NEW u, Goes(t, u), Silent, Overlaps, RedisOK', Written,
         t.pc = "newThread" => redis'.thread = t.last,
         ASSUME u.pc # "done", u.last \in Ids \ crowded,
                \A a : Said(a)' = Said(a),
                \A k, x : Tweeted(k, x)' = Tweeted(k, x)
         PROVE  Works(u.last, u)'
  PROVE  AuctionsInv'
<1>1. UNCHANGED <<auctions, now, posted, replies, lost>>
  BY DEF Silent, AuctionsOnly, chainVars
<1>2. \A a : SameTalk(a)
  BY <1>1, SilentIsSame
<1>3. \A s, k, y : Announced(s, k, y)' = Announced(s, k, y)
  BY <1>1, SameCopies
<1>4. \A k, x : Tweeted(k, x)' = Tweeted(k, x)
  BY <1>3 DEF Tweeted
<1>5. \A a : Said(a)' = Said(a)
  <2>1. TAKE a
  <2>2. (\E s : Announced(s, "auction", a) > 0)' = \E s : Announced(s, "auction", a) > 0
    BY <1>3
  <2>3. (\E h : Tweeted("bid", <<a, h>>))' = \E h : Tweeted("bid", <<a, h>>)
    BY <1>4
  <2>4. (\E r \in replies : r[1] = a)' = \E r \in replies : r[1] = a
    BY <1>1
  <2> QED BY <2>2, <2>3, <2>4, <1>4 DEF Said
<1>6. crowded \subseteq crowded'
  BY Crowds
<1>7. u.pc # "done" /\ u.last \in Ids \ crowded' => Works(u.last, u)'
  BY <1>4, <1>5, <1>6
<1>8. IsABag(posted') /\ lost \subseteq lost'
  BY <1>1 DEF AuctionsInv
<1> QED BY <1>1, <1>2, <1>7, <1>8, StepKeeps

\* Redis is as it was.
LEMMA NothingWritten ==
  ASSUME RedisOK, UNCHANGED <<auctions, redis>>
  PROVE  RedisOK' /\ Written
<1>1. LastId' = LastId
  BY DEF LastId
<1> QED BY <1>1 DEF RedisOK, Written

\* Caches read by a function that has just been called.
LEMMA ReadBidCacheKeeps ==
  ASSUME AuctionsInv, NEW t \in ticks, ReadBidCache(t), Overlaps
  PROVE  AuctionsInv'
<1>1. TickOK(t) /\ RedisOK
  BY DEF AuctionsInv, TicksOK
<1>2. PICK u : u = [t EXCEPT !.pc = "soonCache", !.bid = redis.bid]
  OBVIOUS
<1>3. /\ t.pc = "bidCache" /\ Step(t, u) /\ Silent /\ UNCHANGED redis
  BY <1>2 DEF ReadBidCache
<1>4. /\ DOMAIN u = TickFields /\ u.pc = "soonCache" /\ u.bid = redis.bid
      /\ u.no = t.no /\ u.auction = t.auction /\ u.soon = t.soon /\ u.last = t.last
      /\ u.lastBid = t.lastBid /\ u.thread = t.thread
  BY <1>1, <1>2 DEF TickOK, TickFields
<1>5. TickOK(u)
  BY <1>1, <1>3, <1>4 DEF TickOK, TickPcs, Early
<1>6. From(t, u)
  BY <1>3, <1>4 DEF From, HoldsAuction, HoldsBid, HoldsSoon, HoldsThread
<1>7. u.last = 0
  BY <1>5, <1>4 DEF TickOK, Early
<1>8. RedisOK' /\ Written
  BY <1>1, <1>3, NothingWritten DEF Silent, AuctionsOnly, chainVars
<1> QED BY <1>3, <1>4, <1>5, <1>6, <1>7, <1>8, SilentStep DEF Goes, Ids

LEMMA ReadEndingSoonCacheKeeps ==
  ASSUME AuctionsInv, NEW t \in ticks, ReadEndingSoonCache(t), Overlaps
  PROVE  AuctionsInv'
<1>1. TickOK(t) /\ RedisOK
  BY DEF AuctionsInv, TicksOK
<1>2. PICK u : u = [t EXCEPT !.pc = "fetch", !.soon = redis.soon]
  OBVIOUS
<1>3. /\ t.pc = "soonCache" /\ Step(t, u) /\ Silent /\ UNCHANGED redis
  BY <1>2 DEF ReadEndingSoonCache
<1>4. /\ DOMAIN u = TickFields /\ u.pc = "fetch" /\ u.soon = redis.soon
      /\ u.no = t.no /\ u.auction = t.auction /\ u.bid = t.bid /\ u.last = t.last
      /\ u.lastBid = t.lastBid /\ u.thread = t.thread
  BY <1>1, <1>2 DEF TickOK, TickFields
<1>5. TickOK(u)
  BY <1>1, <1>3, <1>4 DEF TickOK, TickPcs, Early, RedisOK
<1>6. From(t, u)
  BY <1>3, <1>4 DEF From, HoldsAuction, HoldsBid, HoldsSoon, HoldsThread
<1>7. u.last = 0
  BY <1>5, <1>4 DEF TickOK, Early
<1>8. RedisOK' /\ Written
  BY <1>1, <1>3, NothingWritten DEF Silent, AuctionsOnly, chainVars
<1> QED BY <1>3, <1>4, <1>5, <1>6, <1>7, <1>8, SilentStep DEF Goes, Ids

\* The last auction and its last bid.
LEMMA FetchedDoes ==
  ASSUME ChainOK, NEW t, TickOK(t), t.last = 0, NEW pc, LastId # 0
  PROVE  LET u == Fetched(t, pc) IN
         /\ DOMAIN u = TickFields /\ u.pc = pc /\ u.no = t.no /\ u.auction = t.auction
         /\ u.bid = t.bid /\ u.soon = t.soon /\ u.thread = t.thread
         /\ u.last = LastId /\ u.lastBid = LastBid(auctions[LastId])
<1>1. PICK a : a = auctions[LastId]
  OBVIOUS
<1>2. PICK h : h = LastBid(a)
  OBVIOUS
<1>3. Fetched(t, pc) = [t EXCEPT !.pc = pc, !.last = LastId, !.end = a.end, !.lastBid = h]
  BY <1>1, <1>2 DEF Fetched, LastBid
<1> QED BY <1>1, <1>2, <1>3 DEF TickOK, TickFields

LEMMA FetchedKeeps ==
  ASSUME AuctionsInv, NEW t \in ticks, NEW pc \in {"seed", "auction"},
         t.pc = IF pc = "seed" THEN "setup" ELSE "fetch",
         Step(t, Fetched(t, pc)), Silent, UNCHANGED redis, Overlaps
  PROVE  AuctionsInv'
<1>1. TickOK(t) /\ RedisOK /\ ChainOK
  BY DEF AuctionsInv, TicksOK
<1>2. PICK u : u = Fetched(t, pc)
  OBVIOUS
<1>3. RedisOK' /\ Written
  BY <1>1, NothingWritten DEF Silent, AuctionsOnly, chainVars
<1>4. t.pc \in {"setup", "fetch"} /\ t.pc # "newThread"
  OBVIOUS
<1>5. CASE LastId = 0
  <2>1. u = [t EXCEPT !.pc = "done"]
    BY <1>2, <1>5 DEF Fetched
  <2>2. u.pc = "done" /\ u.no = t.no
    BY <2>1, <1>1 DEF TickOK, TickFields
  <2>3. Goes(t, u)
    BY <1>2, <2>2 DEF Goes
  <2> QED BY <2>2, <2>3, <1>3, <1>4, SilentStep
<1>6. CASE LastId # 0
  <2>1. LastId \in Nat /\ t.last = 0
    BY <1>1, <1>4 DEF ChainOK, TickOK, Early
  <2>2. /\ DOMAIN u = TickFields /\ u.pc = pc /\ u.no = t.no /\ u.auction = t.auction
        /\ u.bid = t.bid /\ u.soon = t.soon /\ u.thread = t.thread
        /\ u.last = LastId /\ u.lastBid = LastBid(auctions[LastId])
    BY <1>1, <1>2, <1>6, <2>1, FetchedDoes
  <2>3. u.lastBid \in HashesOf(auctions[u.last]) \cup {NoBid}
    <3>1. LastId \in 1 .. LastId
      BY <1>6, <2>1
    <3>2. auctions[LastId].bids \in Seq(Bid)
      BY <1>1, <3>1 DEF ChainOK
    <3> QED BY <3>2, <2>2, LastBidFacts
  <2>4. TickOK(u)
    <3>1. u.pc \in TickPcs /\ u.pc \notin Early /\ u.pc # "newThread"
      BY <2>2 DEF TickPcs, Early
    <3> QED BY <1>1, <1>6, <2>1, <2>2, <2>3, <3>1 DEF TickOK
  <2>5. From(t, u)
    BY <1>4, <2>2 DEF From, HoldsAuction, HoldsBid, HoldsSoon, HoldsThread
  <2>6. ASSUME u.last \in Ids \ crowded,
               \A a : Said(a)' = Said(a), \A k, x : Tweeted(k, x)' = Tweeted(k, x)
        PROVE  Works(u.last, u)'
    <3>1. redis' = redis /\ redis.auction <= u.last /\ redis.soon <= u.last
          /\ redis.thread <= u.last /\ u.thread <= u.last
      BY <1>1, <2>1, <2>2 DEF RedisOK, TickOK
    <3>2. CASE u.pc = "seed"
      BY <3>1, <3>2 DEF Works, InCache
    <3>3. CASE u.pc = "auction"
      <4>1. t.pc = "fetch"
        BY <3>3, <2>2
      <4>2. BidMark(u.last, u.lastBid)
        BY <2>6 DEF AuctionsInv, AuctionsOK, Marks
      <4>3. Tweeted("bid", <<u.last, u.lastBid>>) => u.bid = u.lastBid
        BY <4>1, <4>2, <2>2 DEF BidMark, HoldsBid
      <4> QED BY <3>1, <3>3, <4>3, <2>6 DEF Works, InCache
    <3> QED BY <3>2, <3>3, <2>2
  <2>7. Goes(t, u)
    BY <1>2, <2>2, <2>4, <2>5 DEF Goes
  <2> QED BY <2>6, <2>7, <1>3, <1>4, SilentStep
<1> QED BY <1>5, <1>6

LEMMA SetupAuctionKeeps ==
  ASSUME AuctionsInv, NEW t \in ticks, SetupAuction(t), Overlaps
  PROVE  AuctionsInv'
<1>1. CASE t.pc = "setup" /\ Step(t, Fetched(t, "seed")) /\ Silent /\ UNCHANGED redis
  BY <1>1, FetchedKeeps
<1>2. CASE /\ t.pc = "seed" /\ Step(t, [t EXCEPT !.pc = "done"]) /\ Silent
           /\ redis' = [redis EXCEPT !.auction = t.last]
  <2>1. TickOK(t) /\ RedisOK
    BY DEF AuctionsInv, TicksOK
  <2>2. PICK u : u = [t EXCEPT !.pc = "done"]
    OBVIOUS
  <2>3. u.pc = "done" /\ u.no = t.no
    BY <2>1, <2>2 DEF TickOK, TickFields
  <2>4. Goes(t, u)
    BY <1>2, <2>2, <2>3 DEF Goes
  <2>5. /\ DOMAIN redis' = RedisFields /\ redis'.auction = t.last
        /\ redis'.bid = redis.bid /\ redis'.soon = redis.soon /\ redis'.thread = redis.thread
    BY <1>2, <2>1 DEF RedisOK, RedisFields
  <2>6. LastId' = LastId /\ t.last \in 0 .. LastId /\ t.last # 0
    BY <1>2, <2>1 DEF LastId, TickOK, Silent, AuctionsOnly, chainVars, Early
  <2>7. RedisOK' /\ Written
    BY <2>1, <2>5, <2>6 DEF RedisOK, Written
  <2> QED BY <1>2, <2>3, <2>4, <2>7, SilentStep
<1> QED BY <1>1, <1>2 DEF SetupAuction

LEMMA GetLastAuctionBidsKeeps ==
  ASSUME AuctionsInv, NEW t \in ticks, GetLastAuctionBids(t), Overlaps
  PROVE  AuctionsInv'
BY FetchedKeeps DEF GetLastAuctionBids

-----------------------------------------------------------------------------
(* The caches that are written before a post                               *)

LEMMA UpdateAuctionCacheKeeps ==
  ASSUME AuctionsInv, NEW t \in ticks, UpdateAuctionCache(t), Overlaps
  PROVE  AuctionsInv'
<1>1. TickOK(t) /\ RedisOK /\ ChainOK
  BY DEF AuctionsInv, TicksOK
<1>2. PICK new \in BOOLEAN, next \in {"newAuction", "bid"} :
        /\ new <=> t.auction < t.last
        /\ next = IF new THEN "newAuction" ELSE "bid"
  OBVIOUS
<1>3. PICK u : u = [t EXCEPT !.pc = next, !["auction"] = 0]
  OBVIOUS
<1>4. /\ t.pc = "auction" /\ Step(t, u) /\ Silent
      /\ redis' = IF new THEN [redis EXCEPT !["auction"] = t.last] ELSE redis
  BY <1>2, <1>3 DEF UpdateAuctionCache, UpdateCache
<1>5. /\ DOMAIN u = TickFields /\ u.pc = next /\ u.auction = 0
      /\ u.no = t.no /\ u.bid = t.bid /\ u.soon = t.soon /\ u.last = t.last
      /\ u.lastBid = t.lastBid /\ u.thread = t.thread
  BY <1>1, <1>3 DEF TickOK, TickFields
<1>6. LastId \in Nat /\ t.last \in 0 .. LastId /\ t.last # 0 /\ LastId' = LastId
  BY <1>1, <1>4 DEF ChainOK, TickOK, Early, LastId, Silent, AuctionsOnly, chainVars
<1>7. /\ DOMAIN redis' = RedisFields /\ redis'.bid = redis.bid /\ redis'.soon = redis.soon
      /\ redis'.thread = redis.thread
      /\ redis'.auction = IF new THEN t.last ELSE redis.auction
  BY <1>1, <1>4 DEF RedisOK, RedisFields
<1>8. RedisOK' /\ Written
  BY <1>1, <1>6, <1>7 DEF RedisOK, Written
<1>9. TickOK(u)
  <2>1. u.pc \in TickPcs /\ u.pc \notin Early /\ u.pc # "newThread"
    BY <1>5 DEF TickPcs, Early, InCache
  <2> QED BY <1>1, <1>4, <1>5, <1>6, <2>1 DEF TickOK, Early
<1>10. From(t, u)
  BY <1>4, <1>5 DEF From, HoldsAuction, HoldsBid, HoldsSoon, HoldsThread
<1>11. ASSUME u.last \in Ids \ crowded, \A a : Said(a)' = Said(a),
              \A k, x : Tweeted(k, x)' = Tweeted(k, x)
       PROVE  Works(u.last, u)'
  <2>1. Works(t.last, t) /\ Marks(t.last)
    BY <1>4, <1>5, <1>11, Alone DEF Early
  <2>2. /\ redis.auction <= t.last /\ redis.soon <= t.last /\ redis.thread <= t.last
        /\ t.thread <= t.last
        /\ Tweeted("bid", <<t.last, t.lastBid>>) => t.bid = t.lastBid
    BY <2>1, <1>4 DEF Works
  <2>3. AuctionMark(t.last) /\ t.auction \in 0 .. LastId /\ t.auction <= t.last
    BY <2>1, <1>1, <1>6 DEF Marks, TickOK
  <2>4. t.pc \in HoldsAuction
    BY <1>4 DEF HoldsAuction
  <2>5. CASE new
    <3>1. t.auction < t.last /\ redis'.auction = t.last /\ u.pc = "newAuction"
      BY <2>5, <1>2, <1>5, <1>7
    <3>2. ~Said(t.last)
      BY <3>1, <2>3, <2>4, <1>6 DEF AuctionMark
    <3> QED BY <3>1, <3>2, <2>2, <1>5, <1>6, <1>7, <1>11 DEF Works, InCache
  <2>6. CASE ~new
    <3>1. t.auction = t.last /\ redis'.auction = redis.auction /\ u.pc = "bid"
      BY <2>3, <2>6, <1>2, <1>5, <1>6, <1>7
    <3>2. Led(t.last)
      BY <3>1, <2>3, <2>4 DEF AuctionMark, Touched
    <3>3. redis.auction = t.last
      BY <3>2, <2>2, <1>1, <1>6 DEF Led, RedisOK
    <3> QED BY <3>1, <3>3, <2>2, <1>5, <1>6, <1>7, <1>11 DEF Works
  <2> QED BY <2>5, <2>6
<1>12. Goes(t, u) /\ t.pc # "newThread"
  BY <1>4, <1>5, <1>9, <1>10 DEF Goes
<1> QED BY <1>4, <1>8, <1>11, <1>12, SilentStep

LEMMA UpdateBidCacheKeeps ==
  ASSUME AuctionsInv, NEW t \in ticks, UpdateBidCache(t), Overlaps
  PROVE  AuctionsInv'
<1>1. TickOK(t) /\ RedisOK /\ ChainOK
  BY DEF AuctionsInv, TicksOK
<1>2. PICK new \in BOOLEAN, next \in {"newBid", "soon"} :
        /\ new <=> t.lastBid # NoBid /\ t.bid # t.lastBid
        /\ next = IF new THEN "newBid" ELSE "soon"
  OBVIOUS
<1>3. PICK u : u = [t EXCEPT !.pc = next, !["bid"] = 0]
  OBVIOUS
<1>4. /\ t.pc = "bid" /\ Step(t, u) /\ Silent
      /\ redis' = IF new THEN [redis EXCEPT !["bid"] = t.lastBid] ELSE redis
  BY <1>2, <1>3 DEF UpdateBidCache, UpdateCache
<1>5. /\ DOMAIN u = TickFields /\ u.pc = next
      /\ u.no = t.no /\ u.auction = t.auction /\ u.soon = t.soon /\ u.last = t.last
      /\ u.lastBid = t.lastBid /\ u.thread = t.thread
  BY <1>1, <1>3 DEF TickOK, TickFields
<1>6. LastId \in Nat /\ t.last \in 1 .. LastId /\ t.last # 0 /\ LastId' = LastId
  BY <1>1, <1>4 DEF ChainOK, TickOK, Early, LastId, Silent, AuctionsOnly, chainVars
<1>7. /\ DOMAIN redis' = RedisFields /\ redis'.auction = redis.auction
      /\ redis'.soon = redis.soon /\ redis'.thread = redis.thread
      /\ redis'.bid = IF new THEN t.lastBid ELSE redis.bid
  BY <1>1, <1>4 DEF RedisOK, RedisFields
<1>8. t.lastBid \in Hashes \cup {NoBid}
  <2>1. auctions[t.last].bids \in Seq(Bid)
    BY <1>1, <1>6 DEF ChainOK
  <2>2. HashesOf(auctions[t.last]) \subseteq Hashes
    BY <2>1, LastBidFacts
  <2> QED BY <2>2, <1>1, <1>6 DEF TickOK
<1>9. RedisOK' /\ Written
  BY <1>1, <1>6, <1>7, <1>8 DEF RedisOK, Written
<1>10. TickOK(u)
  <2>1. u.pc \in TickPcs /\ u.pc \notin Early /\ u.pc # "newThread"
    BY <1>5 DEF TickPcs, Early, InCache
  <2> QED BY <1>1, <1>4, <1>5, <1>6, <2>1 DEF TickOK, Early
<1>11. From(t, u)
  BY <1>4, <1>5 DEF From, HoldsAuction, HoldsBid, HoldsSoon, HoldsThread
<1>12. ASSUME u.last \in Ids \ crowded, \A a : Said(a)' = Said(a),
              \A k, x : Tweeted(k, x)' = Tweeted(k, x)
       PROVE  Works(u.last, u)'
  <2>1. Works(t.last, t)
    BY <1>4, <1>5, <1>12, Alone DEF Early
  <2>2. /\ redis.auction = t.last /\ redis.soon <= t.last /\ redis.thread <= t.last
        /\ redis.auction <= t.last /\ t.thread <= t.last
        /\ Tweeted("bid", <<t.last, t.lastBid>>) => t.bid = t.lastBid
    BY <2>1, <1>4 DEF Works, InCache
  <2>3. CASE new
    <3>1. /\ u.pc = "newBid" /\ redis'.bid = t.lastBid /\ t.lastBid # NoBid
          /\ ~Tweeted("bid", <<t.last, t.lastBid>>)
      BY <2>2, <2>3, <1>2, <1>5, <1>7
    <3> QED BY <3>1, <2>2, <1>5, <1>7, <1>12 DEF Works
  <2>4. CASE ~new
    <3>1. u.pc = "soon"
      BY <2>4, <1>2, <1>5
    <3> QED BY <3>1, <2>2, <1>5, <1>7, <1>12 DEF Works
  <2> QED BY <2>3, <2>4
<1>13. Goes(t, u) /\ t.pc # "newThread"
  BY <1>4, <1>5, <1>10, <1>11 DEF Goes
<1> QED BY <1>4, <1>9, <1>12, <1>13, SilentStep

LEMMA UpdateEndingSoonKeeps ==
  ASSUME AuctionsInv, NEW t \in ticks, UpdateAuctionEndingSoonCache(t), Overlaps
  PROVE  AuctionsInv'
<1>1. TickOK(t) /\ RedisOK /\ ChainOK
  BY DEF AuctionsInv, TicksOK
<1>2. PICK new \in BOOLEAN, next \in {"endingSoon", "done"} :
        /\ new <=> t.end - now < EndingSoon /\ t.soon < t.last
        /\ next = IF new THEN "endingSoon" ELSE "done"
  OBVIOUS
<1>3. PICK u : u = [t EXCEPT !.pc = next, !["soon"] = 0]
  OBVIOUS
<1>4. /\ t.pc = "soon" /\ Step(t, u) /\ Silent
      /\ redis' = IF new THEN [redis EXCEPT !["soon"] = t.last] ELSE redis
  BY <1>2, <1>3 DEF UpdateAuctionEndingSoonCache, UpdateCache
<1>5. /\ DOMAIN u = TickFields /\ u.pc = next /\ u.soon = 0
      /\ u.no = t.no /\ u.auction = t.auction /\ u.bid = t.bid /\ u.last = t.last
      /\ u.lastBid = t.lastBid /\ u.thread = t.thread
  BY <1>1, <1>3 DEF TickOK, TickFields
<1>6. LastId \in Nat /\ t.last \in 1 .. LastId /\ t.last # 0 /\ LastId' = LastId
  BY <1>1, <1>4 DEF ChainOK, TickOK, Early, LastId, Silent, AuctionsOnly, chainVars
<1>7. /\ DOMAIN redis' = RedisFields /\ redis'.auction = redis.auction
      /\ redis'.bid = redis.bid /\ redis'.thread = redis.thread
      /\ redis'.soon = IF new THEN t.last ELSE redis.soon
  BY <1>1, <1>4 DEF RedisOK, RedisFields
<1>8. RedisOK' /\ Written
  BY <1>1, <1>6, <1>7 DEF RedisOK, Written
<1>9. u.pc # "done" => TickOK(u)
  <2> HAVE u.pc # "done"
  <2>1. u.pc = "endingSoon"
    BY <1>5
  <2>2. u.pc \in TickPcs /\ u.pc \notin Early /\ u.pc # "newThread"
    BY <2>1 DEF TickPcs, Early, InCache
  <2> QED BY <1>1, <1>4, <1>5, <1>6, <2>2 DEF TickOK, Early
<1>10. u.pc # "done" => From(t, u)
  BY <1>4, <1>5 DEF From, HoldsAuction, HoldsBid, HoldsSoon, HoldsThread
<1>11. ASSUME u.pc # "done", u.last \in Ids \ crowded, \A a : Said(a)' = Said(a),
              \A k, x : Tweeted(k, x)' = Tweeted(k, x)
       PROVE  Works(u.last, u)'
  <2>1. Works(t.last, t) /\ Marks(t.last) /\ t.last \in Nat /\ t.soon \in Nat
    BY <1>1, <1>4, <1>5, <1>6, <1>11, Alone DEF Early, TickOK
  <2>2. /\ redis.auction = t.last /\ redis.thread <= t.last
        /\ redis.auction <= t.last /\ t.thread <= t.last
    BY <2>1, <1>4 DEF Works, InCache
  <2>3. u.pc = "endingSoon" /\ t.soon < t.last /\ redis'.soon = t.last
    BY <1>2, <1>5, <1>7, <1>11
  <2>4. ~Tweeted("endingSoon", t.last)
    <3>1. SoonMark(t.last) /\ t.pc \in HoldsSoon
      BY <2>1, <1>4 DEF Marks, HoldsSoon
    <3> QED BY <3>1, <2>1, <2>3 DEF SoonMark
  <2> QED BY <2>1, <2>2, <2>3, <2>4, <1>5, <1>7, <1>11 DEF Works
<1>12. Goes(t, u) /\ t.pc # "newThread"
  BY <1>4, <1>5, <1>9, <1>10 DEF Goes
<1> QED BY <1>4, <1>8, <1>11, <1>12, SilentStep

-----------------------------------------------------------------------------
(* The thread that is written down, and read                               *)

LEMMA WriteThreadKeeps ==
  ASSUME AuctionsInv, NEW t \in ticks,
         NEW from, NEW next, WriteThread(t, from, next), Overlaps,
         <<from, next>> \in {<<"newThread", "bid">>, <<"bidThread", "soon">>,
                             <<"soonThread", "done">>}
  PROVE  AuctionsInv'
<1>1. TickOK(t) /\ RedisOK /\ ChainOK
  BY DEF AuctionsInv, TicksOK
<1>2. PICK to : to = IF t.ok THEN next ELSE "done"
  OBVIOUS
<1>3. PICK u : u = [t EXCEPT !.pc = to, !.thread = NoThread]
  OBVIOUS
<1>4. /\ t.pc = from /\ Step(t, u) /\ Silent
      /\ redis' = [redis EXCEPT !.thread = t.thread]
  BY <1>2, <1>3 DEF WriteThread
<1>5. \/ from = "newThread" /\ to \in {"bid", "done"}
      \/ from = "bidThread" /\ to \in {"soon", "done"}
      \/ from = "soonThread" /\ to = "done"
  BY <1>2
<1>6. /\ DOMAIN u = TickFields /\ u.pc = to /\ u.thread = 0
      /\ u.no = t.no /\ u.auction = t.auction /\ u.bid = t.bid /\ u.soon = t.soon
      /\ u.last = t.last /\ u.lastBid = t.lastBid
  BY <1>1, <1>3 DEF TickOK, TickFields, NoThread
<1>7. /\ LastId \in Nat /\ t.last \in 1 .. LastId /\ t.last # 0 /\ LastId' = LastId
      /\ t.thread \in 0 .. LastId
  BY <1>1, <1>4, <1>5 DEF ChainOK, TickOK, Early, LastId, Silent, AuctionsOnly, chainVars
<1>8. /\ DOMAIN redis' = RedisFields /\ redis'.auction = redis.auction
      /\ redis'.bid = redis.bid /\ redis'.soon = redis.soon /\ redis'.thread = t.thread
  BY <1>1, <1>4 DEF RedisOK, RedisFields
<1>9. RedisOK' /\ Written
  <2>1. t.pc \in HoldsThread
    BY <1>4, <1>5 DEF HoldsThread
  <2> QED BY <2>1, <1>1, <1>7, <1>8 DEF RedisOK, Written
<1>10. u.pc # "done" => TickOK(u)
  <2> HAVE u.pc # "done"
  <2>1. u.pc \in TickPcs /\ u.pc \notin Early /\ u.pc # "newThread"
    BY <1>5, <1>6 DEF TickPcs, Early, InCache
  <2> QED BY <1>1, <1>4, <1>6, <1>7, <2>1 DEF TickOK
<1>11. u.pc # "done" => From(t, u)
  BY <1>4, <1>5, <1>6 DEF From, HoldsAuction, HoldsBid, HoldsSoon, HoldsThread
<1>12. ASSUME u.pc # "done", u.last \in Ids \ crowded, \A a : Said(a)' = Said(a),
              \A k, x : Tweeted(k, x)' = Tweeted(k, x)
       PROVE  Works(u.last, u)'
  <2>1. Works(t.last, t)
    BY <1>4, <1>5, <1>6, <1>12, Alone DEF Early
  <2>2. /\ redis.auction = t.last /\ redis.soon <= t.last /\ redis.auction <= t.last
        /\ t.thread <= t.last /\ 0 <= t.last
    BY <2>1, <1>4, <1>5, <1>7 DEF Works, InCache
  <2>3. CASE from = "newThread"
    <3>1. u.pc = "bid" /\ (Tweeted("bid", <<t.last, t.lastBid>>) => t.bid = t.lastBid)
      BY <2>1, <2>3, <1>4, <1>5, <1>6, <1>12 DEF Works
    <3> QED BY <3>1, <2>2, <1>6, <1>8, <1>12 DEF Works
  <2>4. CASE from # "newThread"
    <3>1. u.pc = "soon"
      BY <2>4, <1>5, <1>6, <1>12
    <3> QED BY <3>1, <2>2, <1>6, <1>8, <1>12 DEF Works
  <2> QED BY <2>3, <2>4
<1>13. t.pc = "newThread" => redis'.thread = t.last
  BY <1>1, <1>8 DEF TickOK
<1>14. Goes(t, u)
  BY <1>4, <1>6, <1>10, <1>11 DEF Goes
<1> QED BY <1>4, <1>9, <1>12, <1>13, <1>14, SilentStep

LEMMA ReadThreadKeeps ==
  ASSUME AuctionsInv, NEW t \in ticks,
         NEW from, NEW to, ReadThread(t, from, to), Overlaps,
         <<from, to>> \in {<<"newBid", "replyBid">>, <<"endingSoon", "replySoon">>}
  PROVE  AuctionsInv'
<1>1. TickOK(t) /\ RedisOK /\ ChainOK
  BY DEF AuctionsInv, TicksOK
<1>2. PICK u : u = [t EXCEPT !.pc = to, !.thread = redis.thread]
  OBVIOUS
<1>3. t.pc = from /\ Step(t, u) /\ Silent /\ UNCHANGED redis
  BY <1>2 DEF ReadThread
<1>4. \/ from = "newBid" /\ to = "replyBid"
      \/ from = "endingSoon" /\ to = "replySoon"
  OBVIOUS
<1>5. /\ DOMAIN u = TickFields /\ u.pc = to /\ u.thread = redis.thread
      /\ u.no = t.no /\ u.auction = t.auction /\ u.bid = t.bid /\ u.soon = t.soon
      /\ u.last = t.last /\ u.lastBid = t.lastBid
  BY <1>1, <1>2 DEF TickOK, TickFields
<1>6. RedisOK' /\ Written
  BY <1>1, <1>3, NothingWritten DEF Silent, AuctionsOnly, chainVars
<1>7. TickOK(u)
  <2>1. u.pc \in TickPcs /\ u.pc \notin Early /\ u.pc # "newThread" /\ t.pc \notin Early
    BY <1>3, <1>4, <1>5 DEF TickPcs, Early, InCache
  <2> QED BY <1>1, <1>5, <2>1 DEF TickOK, RedisOK
<1>8. From(t, u)
  BY <1>3, <1>4, <1>5 DEF From, HoldsAuction, HoldsBid, HoldsSoon, HoldsThread
<1>9. ASSUME u.last \in Ids \ crowded, \A a : Said(a)' = Said(a),
             \A k, x : Tweeted(k, x)' = Tweeted(k, x)
      PROVE  Works(u.last, u)'
  <2>1. Works(t.last, t)
    BY <1>3, <1>4, <1>5, <1>9, Alone DEF Early
  <2>2. /\ redis' = redis /\ redis.auction = t.last /\ redis.soon <= t.last
        /\ redis.auction <= t.last /\ redis.thread <= t.last
    BY <2>1, <1>3, <1>4 DEF Works, InCache
  <2>3. CASE from = "newBid"
    BY <2>1, <2>2, <2>3, <1>3, <1>4, <1>5, <1>9 DEF Works
  <2>4. CASE from = "endingSoon"
    BY <2>1, <2>2, <2>4, <1>3, <1>4, <1>5, <1>9 DEF Works
  <2> QED BY <2>3, <2>4, <1>4
<1>10. Goes(t, u) /\ t.pc # "newThread"
  BY <1>3, <1>4, <1>5, <1>7, <1>8 DEF Goes
<1> QED BY <1>3, <1>6, <1>9, <1>10, SilentStep

-----------------------------------------------------------------------------
(* Posts                                                                   *)

\* After a post the thread is to be written down, or the function goes on
\* or is over.
LEMMA PostGoes ==
  ASSUME NEW t, DOMAIN t = TickFields, NEW kind, NEW x, NEW sent, NEW ok \in BOOLEAN,
         NEW thread, NEW write, NEW next,
         Post(t, kind, x, sent, ok, thread, write, next)
  PROVE  \E u : /\ Step(t, u) /\ DOMAIN u = TickFields
                /\ u.no = t.no /\ u.auction = t.auction /\ u.bid = t.bid
                /\ u.soon = t.soon /\ u.last = t.last /\ u.lastBid = t.lastBid
                /\ \/ "twitter" \in sent /\ u.pc = write /\ u.thread = thread
                   \/ "twitter" \notin sent /\ u.pc \in {next, "done"} /\ u.thread = t.thread
<1>1. CASE "twitter" \in sent
  <2>1. PICK u : u = [t EXCEPT !.pc = write, !.thread = thread, !.ok = ok]
    OBVIOUS
  <2>2. Step(t, u)
    BY <1>1, <2>1 DEF Post
  <2>3. /\ DOMAIN u = TickFields
        /\ u.no = t.no /\ u.auction = t.auction /\ u.bid = t.bid
        /\ u.soon = t.soon /\ u.last = t.last /\ u.lastBid = t.lastBid
        /\ u.pc = write /\ u.thread = thread
    BY <2>1 DEF TickFields
  <2> QED BY <1>1, <2>2, <2>3
<1>2. CASE "twitter" \notin sent
  <2>1. PICK to : to = IF ok THEN next ELSE "done"
    OBVIOUS
  <2>2. PICK u : u = [t EXCEPT !.pc = to]
    OBVIOUS
  <2>3. Step(t, u)
    BY <1>2, <2>1, <2>2 DEF Post
  <2> QED BY <1>2, <2>1, <2>2, <2>3 DEF TickFields
<1> QED BY <1>1, <1>2

\* Nothing about other auctions is sent.
LEMMA AuctionPosted ==
  ASSUME IsABag(posted), NEW a \in Nat, NEW sent, Send("auction", a, sent),
         UNCHANGED replies
  PROVE  /\ IsABag(posted')
         /\ \A b : b # a => SameTalk(b)
         /\ \A s : Announced(s, "auction", a) \in Nat
         /\ \A s : Announced(s, "auction", a)' =
              Announced(s, "auction", a) + IF s \in sent THEN 1 ELSE 0
         /\ Announced("twitter", "endingSoon", a)' = Announced("twitter", "endingSoon", a)
         /\ \A h : Announced("twitter", "bid", <<a, h>>)' =
              Announced("twitter", "bid", <<a, h>>)
<1>1. /\ IsABag(posted')
      /\ \A s, k, y : /\ Announced(s, k, y) \in Nat
                      /\ Announced(s, k, y)' = Announced(s, k, y)
                           + IF s \in sent /\ k = "auction" /\ y = a THEN 1 ELSE 0
  BY SendDoes
<1>2. \A s, k, y : k # "auction" \/ y # a => Announced(s, k, y)' = Announced(s, k, y)
  BY <1>1
<1>3. ASSUME NEW b, b # a PROVE SameTalk(b)
  BY <1>2, <1>3 DEF SameTalk
<1> QED BY <1>1, <1>2, <1>3

LEMMA SoonPosted ==
  ASSUME IsABag(posted), NEW a \in Nat, NEW sent, Send("endingSoon", a, sent),
         \A r : r[1] # a => (r \in replies' <=> r \in replies)
  PROVE  /\ IsABag(posted')
         /\ \A b : b # a => SameTalk(b)
         /\ \A s : Announced(s, "auction", a)' = Announced(s, "auction", a)
         /\ Announced("twitter", "endingSoon", a) \in Nat
         /\ Announced("twitter", "endingSoon", a)' =
              Announced("twitter", "endingSoon", a) + IF "twitter" \in sent THEN 1 ELSE 0
         /\ \A h : Announced("twitter", "bid", <<a, h>>)' =
              Announced("twitter", "bid", <<a, h>>)
<1>1. /\ IsABag(posted')
      /\ \A s, k, y : /\ Announced(s, k, y) \in Nat
                      /\ Announced(s, k, y)' = Announced(s, k, y)
                           + IF s \in sent /\ k = "endingSoon" /\ y = a THEN 1 ELSE 0
  BY SendDoes
<1>2. \A s, k, y : k # "endingSoon" \/ y # a => Announced(s, k, y)' = Announced(s, k, y)
  BY <1>1
<1>3. ASSUME NEW b, b # a PROVE SameTalk(b)
  BY <1>2, <1>3 DEF SameTalk
<1> QED BY <1>1, <1>2, <1>3

LEMMA BidPosted ==
  ASSUME IsABag(posted), NEW a \in Nat, NEW hash, NEW sent, Send("bid", <<a, hash>>, sent),
         \A r : r[1] # a => (r \in replies' <=> r \in replies)
  PROVE  /\ IsABag(posted')
         /\ \A b : b # a => SameTalk(b)
         /\ \A s : Announced(s, "auction", a)' = Announced(s, "auction", a)
         /\ Announced("twitter", "endingSoon", a)' = Announced("twitter", "endingSoon", a)
         /\ \A h : /\ Announced("twitter", "bid", <<a, h>>) \in Nat
                   /\ h # hash => Announced("twitter", "bid", <<a, h>>)' =
                                    Announced("twitter", "bid", <<a, h>>)
         /\ Announced("twitter", "bid", <<a, hash>>)' =
              Announced("twitter", "bid", <<a, hash>>) + IF "twitter" \in sent THEN 1 ELSE 0
<1>1. PICK x : x = <<a, hash>>
  OBVIOUS
<1>2. /\ IsABag(posted')
      /\ \A s, k, y : /\ Announced(s, k, y) \in Nat
                      /\ Announced(s, k, y)' = Announced(s, k, y)
                           + IF s \in sent /\ k = "bid" /\ y = x THEN 1 ELSE 0
  BY <1>1, SendDoes
<1>3. \A s, k, y : k # "bid" \/ y # x => Announced(s, k, y)' = Announced(s, k, y)
  BY <1>2
<1>4. \A b, h : b # a \/ h # hash => <<b, h>> # x
  BY <1>1
<1>5. ASSUME NEW b, b # a PROVE SameTalk(b)
  <2>1. \A h : Announced("twitter", "bid", <<b, h>>)' = Announced("twitter", "bid", <<b, h>>)
    BY <1>3, <1>4, <1>5
  <2> QED BY <1>3, <1>5, <2>1 DEF SameTalk
<1>6. \A h : h # hash => Announced("twitter", "bid", <<a, h>>)' =
                           Announced("twitter", "bid", <<a, h>>)
  BY <1>3, <1>4
<1>7. Announced("twitter", "bid", x)' =
        Announced("twitter", "bid", x) + IF "twitter" \in sent THEN 1 ELSE 0
  BY <1>2
<1> QED BY <1>1, <1>2, <1>3, <1>5, <1>6, <1>7

\* A post of a tick that goes on as u.
LEMMA PostKeeps ==
  ASSUME AuctionsInv, NEW t \in ticks, NEW u, Goes(t, u), AuctionsOnly, Overlaps,
         UNCHANGED <<redis, lost>>, IsABag(posted'), t.pc \notin Early \cup {"newThread"},
         \A b : b # t.last => SameTalk(b),
         ASSUME t.last \in Ids \ crowded, ticks = {t}
         PROVE  /\ Marks(t.last)'
                /\ u.pc # "done" => Works(u.last, u)',
         u.last = t.last
  PROVE  AuctionsInv'
<1>1. UNCHANGED <<auctions, now>>
  BY DEF AuctionsOnly, chainVars
<1>2. RedisOK' /\ Written
  BY <1>1, NothingWritten DEF AuctionsInv
<1>3. t.last \in Ids
  <2>1. TickOK(t) /\ LastId \in Nat
    BY DEF AuctionsInv, TicksOK, ChainOK
  <2> QED BY <2>1 DEF TickOK, Ids
<1>4. t.last \notin crowded' => Marks(t.last)' /\ (u.pc # "done" => Works(u.last, u)')
  <2> HAVE t.last \notin crowded'
  <2>1. t.last \notin crowded
    BY Crowds
  <2>2. ticks = {t}
    BY <2>1, Alone
  <2> QED BY <2>1, <2>2, <1>3
<1>5. ASSUME NEW a \in Ids \ crowded' PROVE SameTalk(a) \/ Marks(a)'
  <2>1. CASE a = t.last
    BY <2>1, <1>4
  <2>2. CASE a # t.last
    BY <2>2
  <2> QED BY <2>1, <2>2
<1>6. u.pc # "done" /\ u.last \in Ids \ crowded' => Works(u.last, u)'
  BY <1>4
<1>7. lost \subseteq lost' /\ t.pc # "newThread"
  OBVIOUS
<1> QED BY <1>1, <1>2, <1>5, <1>6, <1>7, StepKeeps

LEMMA HandleNewAuctionKeeps ==
  ASSUME AuctionsInv, NEW t \in ticks, HandleNewAuction(t), Overlaps
  PROVE  AuctionsInv'
<1>1. TickOK(t) /\ RedisOK /\ ChainOK /\ IsABag(posted)
  BY DEF AuctionsInv, TicksOK
<1>2. PICK a : a = t.last
  OBVIOUS
<1>3. PICK ok \in BOOLEAN, sent \in SUBSET Platforms :
        Post(t, "auction", a, sent, ok, a, "newThread", "bid")
  BY <1>2 DEF HandleNewAuction
<1>4. t.pc = "newAuction" /\ UNCHANGED <<redis, replies, lost>>
  BY DEF HandleNewAuction
<1>5. Send("auction", a, sent) /\ AuctionsOnly
  BY <1>3 DEF Post
<1>6. PICK u : /\ Step(t, u) /\ DOMAIN u = TickFields
               /\ u.no = t.no /\ u.auction = t.auction /\ u.bid = t.bid
               /\ u.soon = t.soon /\ u.last = a /\ u.lastBid = t.lastBid
               /\ \/ "twitter" \in sent /\ u.pc = "newThread" /\ u.thread = a
                  \/ "twitter" \notin sent /\ u.pc \in {"bid", "done"} /\ u.thread = t.thread
  BY <1>1, <1>2, <1>3, PostGoes DEF TickOK
<1>7. LastId \in Nat /\ a \in 1 .. LastId /\ a \in Nat /\ a # 0 /\ LastId' = LastId
  BY <1>1, <1>2, <1>4, <1>5
     DEF ChainOK, TickOK, Early, LastId, AuctionsOnly, chainVars
<1>8. /\ IsABag(posted')
      /\ \A b : b # a => SameTalk(b)
      /\ \A s : Announced(s, "auction", a) \in Nat
      /\ \A s : Announced(s, "auction", a)' =
           Announced(s, "auction", a) + IF s \in sent THEN 1 ELSE 0
      /\ Announced("twitter", "endingSoon", a)' = Announced("twitter", "endingSoon", a)
      /\ \A h : Announced("twitter", "bid", <<a, h>>)' = Announced("twitter", "bid", <<a, h>>)
  BY <1>1, <1>4, <1>5, <1>7, AuctionPosted
<1>9. u.pc # "done" => TickOK(u) /\ From(t, u)
  <2> HAVE u.pc # "done"
  <2>1. u.pc \in TickPcs /\ u.pc \notin Early
    BY <1>6 DEF TickPcs, Early, InCache
  <2>2. TickOK(u)
    BY <2>1, <1>1, <1>2, <1>4, <1>6, <1>7 DEF TickOK
  <2>3. From(t, u)
    BY <1>2, <1>4, <1>6, <1>7 DEF From, HoldsAuction, HoldsBid, HoldsSoon, HoldsThread
  <2> QED BY <2>2, <2>3
<1>10. ASSUME a \in Ids \ crowded, ticks = {t}
       PROVE  Marks(a)' /\ (u.pc # "done" => Works(a, u)')
  <2>1. Works(a, t) /\ Marks(a)
    BY <1>2, <1>4, <1>10, Alone DEF Early
  <2>2. /\ redis' = redis /\ redis.auction = a /\ redis.soon <= a /\ redis.thread <= a
        /\ redis.auction <= a /\ t.thread <= a /\ ~Said(a)
        /\ Tweeted("bid", <<a, t.lastBid>>) => t.bid = t.lastBid
    BY <2>1, <1>4 DEF Works, InCache
  <2>3. \A v \in ticks' : v = u /\ u.pc # "done"
    BY <1>6, <1>10 DEF Step
  <2>4. u.pc # "done" => u \in ticks' /\ u.pc \notin HoldsAuction
    BY <1>6 DEF Step, HoldsAuction
  <2>5. /\ \A s : Announced(s, "auction", a) = 0
        /\ ~Tweeted("endingSoon", a) /\ \A h : ~Tweeted("bid", <<a, h>>)
        /\ \A r \in replies : r[1] # a
    <3>1. /\ ~\E s : Announced(s, "auction", a) > 0
          /\ ~Tweeted("endingSoon", a) /\ ~\E h : Tweeted("bid", <<a, h>>)
          /\ ~\E r \in replies : r[1] = a
      BY <2>2 DEF Said
    <3>2. \A s : Announced(s, "auction", a) = 0
      BY <3>1, <1>8, NotPositive
    <3> QED BY <3>1, <3>2
  <2>6. /\ ~Tweeted("endingSoon", a)' /\ \A h : ~Tweeted("bid", <<a, h>>)'
        /\ Tweeted("auction", a)' => "twitter" \in sent
        /\ \A s : Announced(s, "auction", a)' <= 1
    BY <2>5, <1>8 DEF Tweeted
  <2>7. AuctionMark(a)'
    <3>1. Led(a)'
      BY <2>2, <2>3, <1>6, <1>7 DEF Led
    <3> QED BY <3>1, <2>3, <2>4 DEF AuctionMark
  <2>8. ThreadMark(a)'
    <3> SUFFICES ASSUME Tweeted("auction", a)'
                 PROVE  /\ \E v \in ticks' : v.pc = "newThread" /\ v.last = a
                        /\ \A v \in ticks' : v.thread >= a
      BY DEF ThreadMark
    <3>1. u.pc = "newThread" /\ u.thread = a /\ u.last = a
      BY <2>6, <1>6
    <3> QED BY <3>1, <2>3, <2>4, <1>7
  <2>9. SoonMark(a)' /\ \A h : BidMark(a, h)'
    BY <2>6 DEF SoonMark, BidMark
  <2>10. Once(a)' /\ Threaded(a)'
    <3>1. Once(a)
      BY <2>1 DEF Marks
    <3>2. Once(a)'
      BY <3>1, <2>6, <1>8 DEF Once
    <3>3. Threaded(a)'
      BY <2>5, <1>4 DEF Threaded
    <3> QED BY <3>2, <3>3
  <2>11. u.pc # "done" => Works(a, u)'
    BY <2>2, <2>6, <1>6, <1>7 DEF Works
  <2> QED BY <2>7, <2>8, <2>9, <2>10, <2>11 DEF Marks
<1>11. Goes(t, u)
  BY <1>6, <1>9 DEF Goes
<1>12. t.pc \notin Early \cup {"newThread"}
  BY <1>4 DEF Early
<1> QED BY <1>2, <1>4, <1>5, <1>6, <1>8, <1>10, <1>11, <1>12, PostKeeps

\* What the two replies have in common.
ReplyPcs == {<<"replyBid", "bidThread", "soon">>, <<"replySoon", "soonThread", "done">>}

LEMMA ReplyDoes ==
  ASSUME AuctionsInv, NEW t \in ticks, NEW from, NEW kind, NEW x, NEW handlers,
         NEW write, NEW next, <<from, write, next>> \in ReplyPcs,
         Reply(t, from, kind, x, handlers, write, next), Overlaps
  PROVE  /\ t.pc = from /\ UNCHANGED <<redis, lost>> /\ AuctionsOnly
         /\ \E ok : Fault(ok)
         /\ \E u, sent :
              /\ Send(kind, x, sent) /\ Goes(t, u)
              /\ u.last = t.last /\ u.lastBid = t.lastBid /\ u.soon = t.soon
              /\ \/ "twitter" \in sent /\ u.pc = write
                 \/ "twitter" \notin sent /\ u.pc \in {next, "done"}
              /\ u.thread = t.thread
              /\ replies' = IF "twitter" \in sent
                            THEN replies \cup {<<t.last, t.thread>>} ELSE replies
<1>1. TickOK(t)
  BY DEF AuctionsInv, TicksOK
<1>2. PICK can : can = IF t.thread = NoThread THEN handlers \ {"twitter"} ELSE handlers
  OBVIOUS
<1>3. PICK ok \in BOOLEAN, sent \in SUBSET can :
        /\ Post(t, kind, x, sent, ok, t.thread, write, next)
        /\ replies' = IF "twitter" \in sent
                      THEN replies \cup {<<t.last, t.thread>>} ELSE replies
  BY <1>2 DEF Reply
<1>4. t.pc = from /\ UNCHANGED <<redis, lost>>
  BY DEF Reply
<1>5. Send(kind, x, sent) /\ AuctionsOnly /\ Fault(ok)
  BY <1>3 DEF Post
<1>6. PICK u : /\ Step(t, u) /\ DOMAIN u = TickFields
               /\ u.no = t.no /\ u.auction = t.auction /\ u.bid = t.bid
               /\ u.soon = t.soon /\ u.last = t.last /\ u.lastBid = t.lastBid
               /\ \/ "twitter" \in sent /\ u.pc = write /\ u.thread = t.thread
                  \/ "twitter" \notin sent /\ u.pc \in {next, "done"} /\ u.thread = t.thread
  BY <1>1, <1>3, PostGoes DEF TickOK
<1>7. /\ from \in {"replyBid", "replySoon"}
      /\ write \in {"bidThread", "soonThread"} /\ next \in {"soon", "done"}
      /\ from = "replyBid" \/ (write = "soonThread" /\ next = "done")
  BY DEF ReplyPcs
<1>8. u.pc # "done" => TickOK(u) /\ From(t, u)
  <2> HAVE u.pc # "done"
  <2>1. /\ u.pc \in TickPcs /\ u.pc \notin Early /\ u.pc # "newThread" /\ t.pc \notin Early
    BY <1>4, <1>6, <1>7 DEF TickPcs, Early, InCache
  <2>2. TickOK(u)
    BY <2>1, <1>1, <1>6 DEF TickOK
  <2>3. From(t, u)
    BY <1>4, <1>6, <1>7 DEF From, HoldsAuction, HoldsBid, HoldsSoon, HoldsThread
  <2> QED BY <2>2, <2>3
<1>9. Goes(t, u)
  BY <1>6, <1>8 DEF Goes
<1>10. \E q : Fault(q)
  BY <1>5
<1>11. /\ u.last = t.last /\ u.lastBid = t.lastBid /\ u.soon = t.soon
       /\ \/ "twitter" \in sent /\ u.pc = write
          \/ "twitter" \notin sent /\ u.pc \in {next, "done"}
       /\ u.thread = t.thread
  BY <1>6
<1> QED BY <1>3, <1>4, <1>5, <1>9, <1>10, <1>11

\* The marks of an auction after a reply in its thread.
LEMMA ReplyMarks ==
  ASSUME AuctionsInv, NEW t, ticks = {t}, NEW a \in Ids, a = t.last, Works(a, t), Marks(a),
         t.pc \in {"replyBid", "replySoon"}, UNCHANGED <<redis, lost>>,
         Announced("twitter", "auction", a)' = Announced("twitter", "auction", a),
         NEW sent, replies' = IF "twitter" \in sent
                              THEN replies \cup {<<a, t.thread>>} ELSE replies,
         NEW u, u.last = a, u.thread = t.thread, \A v \in ticks' : v = u,
         u.pc \in {"bidThread", "soon", "soonThread", "done"}
  PROVE  AuctionMark(a)' /\ ThreadMark(a)' /\ Threaded(a)'
<1>1. a \in Nat /\ redis' = redis /\ redis.auction = a /\ redis.thread <= a /\ t.thread <= a
  BY DEF Works, InCache, Ids
<1>2. AuctionMark(a)'
  <2>1. Led(a)'
    BY <1>1 DEF Led
  <2>2. \A v \in ticks' : v.pc \notin HoldsAuction
    BY DEF HoldsAuction
  <2> QED BY <2>1, <2>2 DEF AuctionMark
<1>3. Tweeted("auction", a)' <=> Tweeted("auction", a)
  BY DEF Tweeted
<1>4. Tweeted("auction", a) /\ a \notin lost => redis.thread >= a /\ t.thread >= a
  BY DEF Marks, ThreadMark, HoldsThread
<1>5. ThreadMark(a)'
  BY <1>1, <1>3, <1>4 DEF ThreadMark
<1>6. Threaded(a)'
  <2>1. t.thread \in Nat
    <3>1. TickOK(t) /\ LastId \in Nat
      BY DEF AuctionsInv, TicksOK, ChainOK
    <3> QED BY <3>1 DEF TickOK
  <2>2. Tweeted("auction", a) /\ a \notin lost => t.thread = a
    BY <2>1, <1>1, <1>4
  <2>3. \A r \in replies' : r \in replies \/ r = <<a, t.thread>>
    OBVIOUS
  <2>4. Threaded(a)
    BY DEF Marks
  <2> QED BY <2>2, <2>3, <2>4, <1>3 DEF Threaded
<1> QED BY <1>2, <1>5, <1>6

LEMMA RepliesOf ==
  ASSUME NEW a, NEW b, NEW sent,
         replies' = IF "twitter" \in sent THEN replies \cup {<<a, b>>} ELSE replies
  PROVE  \A r : r[1] # a => (r \in replies' <=> r \in replies)
<1>1. \A r : r[1] # a => r # <<a, b>>
  OBVIOUS
<1> QED BY <1>1

LEMMA ReplyBidKeeps ==
  ASSUME AuctionsInv, NEW t \in ticks, Overlaps,
         Reply(t, "replyBid", "bid", <<t.last, t.lastBid>>, Platforms, "bidThread", "soon")
  PROVE  AuctionsInv'
<1>1. TickOK(t) /\ RedisOK /\ ChainOK /\ IsABag(posted)
  BY DEF AuctionsInv, TicksOK
<1>2. PICK a, hash, x : a = t.last /\ hash = t.lastBid /\ x = <<a, hash>>
  OBVIOUS
<1>3. /\ t.pc = "replyBid" /\ UNCHANGED <<redis, lost>> /\ AuctionsOnly
      /\ \E u, sent :
           /\ Send("bid", x, sent) /\ Goes(t, u)
           /\ u.last = t.last /\ u.lastBid = t.lastBid /\ u.soon = t.soon
           /\ \/ "twitter" \in sent /\ u.pc = "bidThread"
              \/ "twitter" \notin sent /\ u.pc \in {"soon", "done"}
           /\ u.thread = t.thread
           /\ replies' = IF "twitter" \in sent
                         THEN replies \cup {<<t.last, t.thread>>} ELSE replies
  <2>1. <<"replyBid", "bidThread", "soon">> \in ReplyPcs
    BY DEF ReplyPcs
  <2>2. Reply(t, "replyBid", "bid", x, Platforms, "bidThread", "soon")
    BY <1>2
  <2> QED BY <2>1, <2>2, ReplyDoes
<1>4. PICK u, sent :
        /\ Send("bid", x, sent) /\ Goes(t, u)
        /\ u.last = a /\ u.lastBid = hash /\ u.soon = t.soon
        /\ \/ "twitter" \in sent /\ u.pc = "bidThread"
           \/ "twitter" \notin sent /\ u.pc \in {"soon", "done"}
        /\ u.thread = t.thread
        /\ replies' = IF "twitter" \in sent
                      THEN replies \cup {<<a, t.thread>>} ELSE replies
  BY <1>2, <1>3
<1>5. LastId \in Nat /\ a \in 1 .. LastId /\ a \in Nat /\ a # 0 /\ auctions' = auctions
      /\ LastId' = LastId
  BY <1>1, <1>2, <1>3 DEF ChainOK, TickOK, Early, LastId, AuctionsOnly, chainVars
<1>6. \A r : r[1] # a => (r \in replies' <=> r \in replies)
  BY <1>4, RepliesOf
<1>7. /\ IsABag(posted')
      /\ \A b : b # a => SameTalk(b)
      /\ \A s : Announced(s, "auction", a)' = Announced(s, "auction", a)
      /\ Announced("twitter", "endingSoon", a)' = Announced("twitter", "endingSoon", a)
      /\ \A h : /\ Announced("twitter", "bid", <<a, h>>) \in Nat
                /\ h # hash => Announced("twitter", "bid", <<a, h>>)' =
                                 Announced("twitter", "bid", <<a, h>>)
      /\ Announced("twitter", "bid", <<a, hash>>)' =
           Announced("twitter", "bid", <<a, hash>>) + IF "twitter" \in sent THEN 1 ELSE 0
  BY <1>1, <1>2, <1>4, <1>5, <1>6, BidPosted
<1>8. ASSUME a \in Ids \ crowded, ticks = {t}
      PROVE  Marks(a)' /\ (u.pc # "done" => Works(a, u)')
  <2>1. Works(a, t) /\ Marks(a)
    BY <1>2, <1>3, <1>8, Alone DEF Early
  <2>2. /\ redis' = redis /\ redis.auction = a /\ redis.soon <= a /\ redis.thread <= a
        /\ redis.auction <= a /\ t.thread <= a /\ redis.bid = hash /\ hash # NoBid
        /\ ~Tweeted("bid", <<a, hash>>)
    BY <2>1, <1>2, <1>3 DEF Works, InCache
  <2>3. \A v \in ticks' : v = u /\ u.pc # "done"
    BY <1>4, <1>8 DEF Goes, Step
  <2>4. AuctionMark(a)' /\ ThreadMark(a)' /\ Threaded(a)'
    BY <2>1, <2>3, <1>2, <1>3, <1>4, <1>7, <1>8, ReplyMarks
  <2>5. u.pc \in {"bidThread", "soon", "done"}
    BY <1>4
  <2>6. SoonMark(a)'
    <3>1. Tweeted("endingSoon", a)' <=> Tweeted("endingSoon", a)
      BY <1>7 DEF Tweeted
    <3>2. Tweeted("endingSoon", a) => redis.soon >= a /\ t.soon >= a
      BY <2>1, <1>3, <1>8 DEF Marks, SoonMark, HoldsSoon
    <3> QED BY <3>1, <3>2, <2>2, <2>3, <1>4 DEF SoonMark
  <2>7. ASSUME NEW h PROVE BidMark(a, h)'
    <3>1. \A v \in ticks' : v.pc \notin HoldsBid /\ v.lastBid = hash
      BY <2>3, <2>5, <1>4 DEF HoldsBid
    <3>2. CASE h = hash
      <4>1. a <= LastId /\ h \in HashesOf(auctions[a])
        BY <3>2, <2>2, <1>1, <1>2, <1>5 DEF TickOK
      <4>2. a <= LastId' /\ h \in HashesOf(auctions'[a])
        BY <4>1, <1>5
      <4> QED BY <4>2, <3>1, <3>2, <2>2 DEF BidMark, HashesOf
    <3>3. CASE h # hash
      <4>1. Tweeted("bid", <<a, h>>)' <=> Tweeted("bid", <<a, h>>)
        BY <3>3, <1>7 DEF Tweeted
      <4>2. BidMark(a, h)
        BY <2>1 DEF Marks
      <4>3. Tweeted("bid", <<a, h>>) /\ a = LastId /\ h = LastBid(auctions[a]) => h = hash
        BY <4>2, <1>2, <1>8 DEF BidMark
      <4> QED BY <4>1, <4>2, <4>3, <3>3, <1>5 DEF BidMark, HashesOf, LastBid
    <3> QED BY <3>2, <3>3
  <2>8. Once(a)'
    <3>1. Once(a)
      BY <2>1 DEF Marks
    <3>2. Announced("twitter", "bid", <<a, hash>>) = 0
      BY <2>2, <1>7 DEF Tweeted
    <3>3. Announced("twitter", "bid", <<a, hash>>)' <= 1
      BY <3>2, <1>7
    <3>4. \A h : Announced("twitter", "bid", <<a, h>>)' <= 1
      BY <3>1, <3>3, <1>7 DEF Once
    <3> QED BY <3>1, <3>4, <1>7 DEF Once
  <2>9. u.pc # "done" => Works(a, u)'
    BY <2>2, <2>5, <1>4 DEF Works
  <2> QED BY <2>4, <2>6, <2>7, <2>8, <2>9 DEF Marks
<1>9. t.pc \notin Early \cup {"newThread"}
  BY <1>3 DEF Early
<1> QED BY <1>2, <1>3, <1>4, <1>7, <1>8, <1>9, PostKeeps

LEMMA ReplySoonKeeps ==
  ASSUME AuctionsInv, NEW t \in ticks, Overlaps,
         Reply(t, "replySoon", "endingSoon", t.last, {"twitter"}, "soonThread", "done")
  PROVE  AuctionsInv'
<1>1. TickOK(t) /\ RedisOK /\ ChainOK /\ IsABag(posted)
  BY DEF AuctionsInv, TicksOK
<1>2. PICK a : a = t.last
  OBVIOUS
<1>3. /\ t.pc = "replySoon" /\ UNCHANGED <<redis, lost>> /\ AuctionsOnly
      /\ \E u, sent :
           /\ Send("endingSoon", t.last, sent) /\ Goes(t, u)
           /\ u.last = t.last /\ u.lastBid = t.lastBid /\ u.soon = t.soon
           /\ \/ "twitter" \in sent /\ u.pc = "soonThread"
              \/ "twitter" \notin sent /\ u.pc \in {"done", "done"}
           /\ u.thread = t.thread
           /\ replies' = IF "twitter" \in sent
                         THEN replies \cup {<<t.last, t.thread>>} ELSE replies
  <2>1. <<"replySoon", "soonThread", "done">> \in ReplyPcs
    BY DEF ReplyPcs
  <2> QED BY <2>1, ReplyDoes
<1>4. PICK u, sent :
        /\ Send("endingSoon", a, sent) /\ Goes(t, u)
        /\ u.last = a /\ u.lastBid = t.lastBid /\ u.soon = t.soon
        /\ \/ "twitter" \in sent /\ u.pc = "soonThread"
           \/ "twitter" \notin sent /\ u.pc = "done"
        /\ u.thread = t.thread
        /\ replies' = IF "twitter" \in sent
                      THEN replies \cup {<<a, t.thread>>} ELSE replies
  BY <1>2, <1>3
<1>5. LastId \in Nat /\ a \in 1 .. LastId /\ a \in Nat /\ a # 0 /\ auctions' = auctions
      /\ LastId' = LastId
  BY <1>1, <1>2, <1>3 DEF ChainOK, TickOK, Early, LastId, AuctionsOnly, chainVars
<1>6. \A r : r[1] # a => (r \in replies' <=> r \in replies)
  BY <1>4, RepliesOf
<1>7. /\ IsABag(posted')
      /\ \A b : b # a => SameTalk(b)
      /\ \A s : Announced(s, "auction", a)' = Announced(s, "auction", a)
      /\ Announced("twitter", "endingSoon", a) \in Nat
      /\ Announced("twitter", "endingSoon", a)' =
           Announced("twitter", "endingSoon", a) + IF "twitter" \in sent THEN 1 ELSE 0
      /\ \A h : Announced("twitter", "bid", <<a, h>>)' = Announced("twitter", "bid", <<a, h>>)
  BY <1>1, <1>4, <1>5, <1>6, SoonPosted
<1>8. ASSUME a \in Ids \ crowded, ticks = {t}
      PROVE  Marks(a)' /\ (u.pc # "done" => Works(a, u)')
  <2>1. Works(a, t) /\ Marks(a)
    BY <1>2, <1>3, <1>8, Alone DEF Early
  <2>2. /\ redis' = redis /\ redis.auction = a /\ redis.soon = a /\ redis.thread <= a
        /\ redis.auction <= a /\ redis.soon <= a /\ t.thread <= a
        /\ ~Tweeted("endingSoon", a)
    BY <2>1, <1>3 DEF Works, InCache
  <2>3. \A v \in ticks' : v = u /\ u.pc = "soonThread"
    BY <1>4, <1>8 DEF Goes, Step
  <2>4. AuctionMark(a)' /\ ThreadMark(a)' /\ Threaded(a)'
    BY <2>1, <2>3, <1>2, <1>3, <1>4, <1>7, <1>8, ReplyMarks
  <2>5. SoonMark(a)'
    BY <2>2, <2>3, <1>5 DEF SoonMark, HoldsSoon
  <2>6. ASSUME NEW h PROVE BidMark(a, h)'
    <3>1. Tweeted("bid", <<a, h>>)' <=> Tweeted("bid", <<a, h>>)
      BY <1>7 DEF Tweeted
    <3>2. BidMark(a, h)
      BY <2>1 DEF Marks
    <3>3. \A v \in ticks' : v.pc \notin HoldsBid /\ v.lastBid = t.lastBid
      BY <2>3, <1>4 DEF HoldsBid
    <3> QED BY <3>1, <3>2, <3>3, <2>2, <1>2, <1>5, <1>8 DEF BidMark, HashesOf, LastBid
  <2>7. Once(a)'
    <3>1. Once(a)
      BY <2>1 DEF Marks
    <3>2. Announced("twitter", "endingSoon", a) = 0
      BY <2>2, <1>7 DEF Tweeted
    <3> QED BY <3>1, <3>2, <1>7 DEF Once
  <2>8. u.pc # "done" => Works(a, u)'
    BY <2>2, <1>4 DEF Works
  <2> QED BY <2>4, <2>5, <2>6, <2>7, <2>8 DEF Marks
<1>9. t.pc \notin Early \cup {"newThread"}
  BY <1>3 DEF Early
<1> QED BY <1>2, <1>3, <1>4, <1>7, <1>8, <1>9, PostKeeps

-----------------------------------------------------------------------------
(* What starts, fails and dies                                             *)

LEMMA StartTickKeeps ==
  ASSUME AuctionsInv, StartTick, Overlaps
  PROVE  AuctionsInv'
<1>1. PICK n \in 1 .. MaxTicks :
        /\ Free(n, ticks) /\ Silent /\ UNCHANGED redis
        /\ ticks' = ticks \cup {[Called(n, "bidCache") EXCEPT !.auction = redis.auction]}
  BY DEF StartTick
<1>2. UNCHANGED <<auctions, now, posted, replies, lost>>
  BY <1>1 DEF Silent, AuctionsOnly, chainVars
<1>3. TicksOK /\ RedisOK /\ ChainOK
  BY DEF AuctionsInv
<1>4. PICK u : u = [Called(n, "bidCache") EXCEPT !.auction = redis.auction]
  OBVIOUS
<1>5. /\ DOMAIN u = TickFields /\ u.no = n /\ u.pc = "bidCache"
      /\ u.auction = redis.auction /\ u.soon = 0 /\ u.last = 0 /\ u.thread = 0
  BY <1>4 DEF Called, TickFields, NoThread
<1>6. TickOK(u)
  BY <1>3, <1>5 DEF TickOK, TickPcs, Early, RedisOK, ChainOK
<1>7. Fresh(u)
  BY <1>5 DEF Fresh
<1>8. \A t \in ticks : t.no # n
  <2>1. n \in Nat /\ n \in 1 .. n
    OBVIOUS
  <2>2. n \notin {x.no : x \in ticks}
    BY <1>1, <2>1 DEF Free
  <2> QED BY <2>2
<1>9. \A t \in ticks' : t \in ticks \/ t = u
  BY <1>1, <1>4
<1>10. ASSUME NEW t \in ticks' PROVE TickOK(t)'
  <2>1. TickOK(t)
    BY <1>3, <1>6, <1>9 DEF TicksOK
  <2> QED BY <2>1, <1>2, SameTickOK
<1>11. \A t, v \in ticks' : t.no = v.no => t = v
  BY <1>3, <1>5, <1>8, <1>9 DEF TicksOK
<1>12. Carried
  BY <1>7, <1>9, FromItself DEF Carried
<1>13. ThreadKept
  BY <1>1 DEF ThreadKept
<1>14. ASSUME NEW t \in ticks', t.last \in Ids \ crowded' PROVE Works(t.last, t)'
  <2>1. u \in ticks' /\ t.last # 0
    BY <1>1, <1>4, <1>14 DEF Ids
  <2>2. t = u
    BY <2>1, <1>14, Crowds
  <2> QED BY <2>1, <2>2, <1>5
<1>15. \A a : SameTalk(a)
  BY <1>2, SilentIsSame
<1>16. RedisOK' /\ Written
  BY <1>1, <1>2, <1>3, NothingWritten
<1>17. IsABag(posted') /\ lost \subseteq lost'
  BY <1>2 DEF AuctionsInv
<1> QED BY <1>2, <1>10, <1>11, <1>12, <1>13, <1>14, <1>15, <1>16, <1>17, AuctionsMove

LEMMA TickFailsKeeps ==
  ASSUME AuctionsInv, NEW t \in ticks, TickFails(t), Overlaps
  PROVE  AuctionsInv'
<1>1. /\ ticks' = ticks \ {t} /\ lost' = lost \cup Forgotten({t})
      /\ UNCHANGED <<auctions, now, redis, posted, replies>>
  BY DEF TickFails, AuctionsOnly, chainVars
<1>2. TickOK(t) /\ RedisOK
  BY DEF AuctionsInv, TicksOK
<1>3. PICK u : u = [t EXCEPT !.pc = "done"]
  OBVIOUS
<1>4. u.pc = "done" /\ u.no = t.no
  BY <1>2, <1>3 DEF TickOK, TickFields
<1>5. Goes(t, u)
  BY <1>1, <1>4 DEF Goes, Step
<1>6. t.pc = "newThread" => t.last \in lost'
  BY <1>1 DEF Forgotten
<1>7. RedisOK' /\ Written
  BY <1>1, <1>2, NothingWritten
<1>8. \A a : SameTalk(a)
  BY <1>1, SilentIsSame
<1>9. IsABag(posted') /\ lost \subseteq lost'
  BY <1>1 DEF AuctionsInv
<1> QED BY <1>1, <1>4, <1>5, <1>6, <1>7, <1>8, <1>9, StepKeeps

LEMMA StartingOK ==
  ASSUME ChainOK, NEW u \in Starting
  PROVE  TickOK(u) /\ Fresh(u) /\ u.last = 0 /\ u.no = 0
<1>1. /\ DOMAIN u = TickFields /\ u.no = 0 /\ u.pc = "setup"
      /\ u.auction = 0 /\ u.soon = 0 /\ u.last = 0 /\ u.thread = 0
  BY DEF Starting, Called, TickFields, NoThread
<1> QED BY <1>1 DEF TickOK, TickPcs, Early, Fresh, ChainOK

LEMMA RestartKeeps ==
  ASSUME AuctionsInv, Restart, Overlaps
  PROVE  AuctionsInv'
<1>1. /\ ticks' = Starting /\ lost' = lost \cup Forgotten(ticks)
      /\ UNCHANGED <<auctions, now, redis, posted, replies>>
  BY DEF Restart, chainVars
<1>2. \A u \in ticks' : TickOK(u) /\ Fresh(u) /\ u.last = 0 /\ u.no = 0
  BY <1>1, StartingOK DEF AuctionsInv
<1>3. \A u \in ticks' : TickOK(u)'
  BY <1>1, <1>2, SameTickOK
<1>4. \A t, u \in ticks' : t.no = u.no => t = u
  BY <1>1 DEF Starting
<1>5. Carried
  BY <1>2 DEF Carried
<1>6. ThreadKept
  BY <1>1 DEF ThreadKept, Forgotten
<1>7. RedisOK' /\ Written
  BY <1>1, NothingWritten DEF AuctionsInv
<1>8. \A a : SameTalk(a)
  BY <1>1, SilentIsSame
<1>9. \A t \in ticks' : t.last \notin Ids
  BY <1>2 DEF Ids
<1>10. IsABag(posted') /\ lost \subseteq lost'
  BY <1>1 DEF AuctionsInv
<1> QED BY <1>1, <1>3, <1>4, <1>5, <1>6, <1>7, <1>8, <1>9, <1>10, AuctionsMove

\* The chain goes on, or governance does.
AuctionsApart ==
  /\ ChainOK' /\ ChainGrows /\ UNCHANGED <<ticks, lost>>
  /\ DOMAIN redis' = RedisFields /\ IsABag(posted')
  /\ redis'.auction = redis.auction /\ redis'.bid = redis.bid
  /\ redis'.soon = redis.soon /\ redis'.thread = redis.thread
  /\ \A a : SameTalk(a)
  /\ crowded \subseteq crowded'

LEMMA AuctionsApartKeeps ==
  ASSUME AuctionsInv, AuctionsApart
  PROVE  AuctionsInv'
<1>1. PICK m \in Nat, n \in Nat : m = LastId /\ n = LastId' /\ m <= n
  BY DEF AuctionsInv, AuctionsApart, ChainOK, ChainGrows
<1>2. /\ ticks' = ticks /\ lost' = lost /\ crowded \subseteq crowded'
      /\ redis'.auction = redis.auction /\ redis'.bid = redis.bid
      /\ redis'.soon = redis.soon /\ redis'.thread = redis.thread
  BY DEF AuctionsApart
<1>3. \A i \in 0 .. m : i \in 0 .. n
  BY <1>1
<1>4. RedisOK'
  BY <1>1, <1>2, <1>3 DEF AuctionsInv, RedisOK, AuctionsApart
<1>5. ASSUME NEW t \in ticks PROVE TickOK(t)'
  <2>1. TickOK(t)
    BY DEF AuctionsInv, TicksOK
  <2>2. t.last > 0 => t.lastBid \in HashesOf(auctions'[t.last]) \cup {NoBid}
    <3> HAVE t.last > 0
    <3>1. t.last \in 1 .. m
      BY <2>1, <1>1 DEF TickOK
    <3> QED BY <2>1, <3>1, <1>1 DEF TickOK, AuctionsApart, ChainGrows
  <2> QED BY <2>1, <2>2, <1>1, <1>3 DEF TickOK, HashesOf
<1>6. TicksOK'
  BY <1>2, <1>5 DEF TicksOK, AuctionsInv
<1>7. ASSUME NEW a \in Ids \ crowded'
      PROVE  Marks(a)' /\ \A t \in ticks' : t.last = a => Works(a, t)'
  <2>1. a \in Ids \ crowded /\ a \in Nat /\ a # 0
    BY <1>2 DEF Ids
  <2>2. Marks(a) /\ \A t \in ticks : t.last = a => Works(a, t)
    BY <2>1 DEF AuctionsInv, AuctionsOK
  <2>3. AuctionMark(a) /\ SoonMark(a) /\ ThreadMark(a) /\ Once(a) /\ Threaded(a)
    BY <2>2 DEF Marks
  <2>4. /\ Said(a)' <=> Said(a)
        /\ Tweeted("auction", a)' <=> Tweeted("auction", a)
        /\ Tweeted("endingSoon", a)' <=> Tweeted("endingSoon", a)
        /\ \A h : Tweeted("bid", <<a, h>>)' <=> Tweeted("bid", <<a, h>>)
        /\ Once(a)' /\ Threaded(a)'
    BY <2>3, <1>2, SameTalkFacts DEF AuctionsApart
  <2>5. AuctionMark(a)'
    BY <2>3, <2>4, <1>2 DEF AuctionMark, Touched, Led
  <2>6. SoonMark(a)' /\ ThreadMark(a)'
    BY <2>3, <2>4, <1>2 DEF SoonMark, ThreadMark
  <2>7. ASSUME NEW h PROVE BidMark(a, h)'
    <3> SUFFICES ASSUME Tweeted("bid", <<a, h>>)'
                 PROVE  /\ a <= n /\ h \in HashesOf(auctions'[a])
                        /\ a = n /\ h = LastBid(auctions'[a]) =>
                             /\ redis'.bid = h
                             /\ \A t \in ticks' : /\ t.pc \in HoldsBid => t.bid = h
                                                  /\ t.last = a => t.lastBid = h
      BY <1>1 DEF BidMark, LastBid, HashesOf
    <3>1. /\ a <= m /\ h \in HashesOf(auctions[a])
          /\ a = m /\ h = LastBid(auctions[a]) =>
               /\ redis.bid = h
               /\ \A t \in ticks : /\ t.pc \in HoldsBid => t.bid = h
                                   /\ t.last = a => t.lastBid = h
      BY <2>2, <2>4, <1>1 DEF Marks, BidMark
    <3>2. a \in 1 .. m
      BY <3>1, <2>1
    <3>3. a <= n /\ h \in HashesOf(auctions'[a])
      BY <3>1, <3>2, <1>1 DEF AuctionsApart, ChainGrows
    <3>4. a = n /\ h = LastBid(auctions'[a]) => a = m /\ h = LastBid(auctions[a])
      BY <3>1, <3>2, <1>1 DEF AuctionsApart, ChainGrows
    <3> QED BY <3>1, <3>3, <3>4, <1>2
  <2>8. \A t \in ticks' : t.last = a => Works(a, t)'
    BY <2>2, <2>4, <1>2 DEF Works
  <2> QED BY <2>4, <2>5, <2>6, <2>7, <2>8 DEF Marks
<1>8. AuctionsOK'
  BY <1>7 DEF AuctionsOK
<1> QED BY <1>4, <1>6, <1>8 DEF AuctionsInv, AuctionsApart

LEMMA AuctionTickKeeps ==
  ASSUME AuctionsInv, ProcessAuctionTick, Overlaps
  PROVE  AuctionsInv'
<1>1. CASE StartTick
  BY <1>1, StartTickKeeps
<1>2. ASSUME NEW t \in ticks,
             \/ SetupAuction(t) \/ ReadBidCache(t) \/ ReadEndingSoonCache(t)
             \/ GetLastAuctionBids(t) \/ TickFails(t)
      PROVE  AuctionsInv'
  BY <1>2, SetupAuctionKeeps, ReadBidCacheKeeps, ReadEndingSoonCacheKeeps,
     GetLastAuctionBidsKeeps, TickFailsKeeps
<1>3. ASSUME NEW t \in ticks,
             \/ UpdateAuctionCache(t) \/ UpdateBidCache(t)
             \/ UpdateAuctionEndingSoonCache(t) \/ HandleNewAuction(t)
      PROVE  AuctionsInv'
  BY <1>3, UpdateAuctionCacheKeeps, UpdateBidCacheKeeps, UpdateEndingSoonKeeps,
     HandleNewAuctionKeeps
<1>4. ASSUME NEW t \in ticks,
             \/ WriteThread(t, "newThread", "bid") \/ WriteThread(t, "bidThread", "soon")
             \/ WriteThread(t, "soonThread", "done")
      PROVE  AuctionsInv'
  BY <1>4, WriteThreadKeeps
<1>5. ASSUME NEW t \in ticks, HandleNewBid(t)
      PROVE  AuctionsInv'
  BY <1>5, ReadThreadKeeps, ReplyBidKeeps DEF HandleNewBid
<1>6. ASSUME NEW t \in ticks, HandleAuctionEndingSoon(t)
      PROVE  AuctionsInv'
  BY <1>6, ReadThreadKeeps, ReplySoonKeeps DEF HandleAuctionEndingSoon
<1> QED BY <1>1, <1>2, <1>3, <1>4, <1>5, <1>6 DEF ProcessAuctionTick

-----------------------------------------------------------------------------
(* The caches and the flows of governance                                  *)

VotersOf(c) == {w[1] : w \in c.votes}
VotedOn(p) == {v \in Voters : <<v, p>> \in DOMAIN dao.votes}
CachedVoters(p) ==
  IF p \in DOMAIN redis.proposals THEN VotersOf(redis.proposals[p]) ELSE {}

DaoOK == DOMAIN dao = {"proposals", "votes", "queued", "count"}

\* What a step of the chain does to proposals and votes.
DaoGrows ==
  /\ DOMAIN dao.proposals \subseteq DOMAIN dao'.proposals
  /\ DOMAIN dao.votes \subseteq DOMAIN dao'.votes

\* Redis knows no proposal and no voter that the subgraph does not show.
CachesOK ==
  /\ DOMAIN redis = RedisFields
  /\ DOMAIN redis.proposals \subseteq DOMAIN dao.proposals
  /\ redis.warned \subseteq DOMAIN dao.proposals
  /\ \A p : CachedVoters(p) \subseteq VotedOn(p)

FlowFields == {"no", "id", "pc", "new", "cached"}
FlowOK(f) ==
  /\ DOMAIN f = FlowFields
  /\ f.id \in DOMAIN dao.proposals
  /\ VotersOf(f.new) \subseteq VotedOn(f.id)

\* A proposal that two flows work on at once is contended.
FlowsOK ==
  /\ \A f \in flows : FlowOK(f)
  /\ \A f, g \in flows : f.no = g.no /\ f.id = g.id => f = g
  /\ \A f, g \in flows : f.id = g.id => f = g \/ f.id \in contended
  /\ seeding => \A f \in flows : f.no # 0

FlowAt(p, pc) == \E f \in flows : f.id = p /\ f.pc = pc
HeardPcs == {"risk", "atRisk", "warned", "save"}
Heard(p, v) ==
  \E f \in flows : f.id = p /\ f.pc \in HeardPcs /\ v \in VotersOf(f.new)

\* A message goes out once more than there were faults only if its cache is
\* written, or a flow is on its way to write it.
ProposalOnce(p) ==
  /\ Announced("discord", "proposal", p) <= faults + 1
  /\ Announced("discord", "proposal", p) > faults =>
       p \in DOMAIN redis.proposals \/ FlowAt(p, "save")

WarningOnce(p) ==
  /\ Announced("discord", "atRisk", p) <= faults + 1
  /\ Announced("discord", "atRisk", p) > faults =>
       p \in redis.warned \/ FlowAt(p, "warned")

VoteOnce(p, v) ==
  /\ Announced("discord", "vote", <<p, v>>) <= faults + 1
  /\ Announced("discord", "vote", <<p, v>>) > faults =>
       v \in CachedVoters(p) \/ Heard(p, v)

\* What the only flow of a proposal knows of it: it has fetched nothing
\* older than what the cache holds, and read the cache as it is.
FlowWorks(p, f) ==
  /\ CachedVoters(p) \subseteq VotersOf(f.new)
  /\ f.pc \in {"status", "votes"} => CachedVoters(p) \subseteq VotersOf(f.cached)
  /\ f.pc = "new" => p \notin DOMAIN redis.proposals
  /\ f.pc = "atRisk" => p \notin redis.warned

ProposalInv(p) ==
  /\ \A f \in flows : f.id = p => FlowWorks(p, f)
  /\ ProposalOnce(p) /\ WarningOnce(p) /\ \A v : VoteOnce(p, v)

GovernanceInv ==
  /\ IsABag(posted) /\ faults \in Nat
  /\ DaoOK /\ CachesOK /\ FlowsOK
  /\ \A p : p \notin contended => ProposalInv(p)

\* A step that does nothing about the proposal p, but may fail.
SameNews(p) ==
  /\ Announced("discord", "proposal", p)' = Announced("discord", "proposal", p)
  /\ Announced("discord", "atRisk", p)' = Announced("discord", "atRisk", p)
  /\ \A v : Announced("discord", "vote", <<p, v>>)' = Announced("discord", "vote", <<p, v>>)
SameProposal(p) ==
  /\ SameNews(p)
  /\ p \in DOMAIN redis'.proposals <=> p \in DOMAIN redis.proposals
  /\ CachedVoters(p)' = CachedVoters(p)
  /\ p \in redis'.warned <=> p \in redis.warned
  /\ \A f : f.id = p => (f \in flows' <=> f \in flows)

LEMMA QuietNews ==
  ASSUME UNCHANGED posted
  PROVE  \A p : SameNews(p)
<1>1. \A s, k, y : Announced(s, k, y)' = Announced(s, k, y)
  BY SameCopies
<1> QED BY <1>1 DEF SameNews

\* Messages that are not sent again: it is enough that what is written down
\* stays so.
LEMMA CountsStay ==
  ASSUME NEW p, ProposalOnce(p), WarningOnce(p), \A v : VoteOnce(p, v),
         IsABag(posted), faults \in Nat, faults' \in Nat, faults <= faults', SameNews(p),
         p \in DOMAIN redis.proposals => p \in DOMAIN redis'.proposals,
         FlowAt(p, "save") => p \in DOMAIN redis'.proposals \/ FlowAt(p, "save")',
         p \in redis.warned => p \in redis'.warned,
         FlowAt(p, "warned") => p \in redis'.warned \/ FlowAt(p, "warned")',
         CachedVoters(p) \subseteq CachedVoters(p)',
         \A v : Heard(p, v) => v \in CachedVoters(p)' \/ Heard(p, v)'
  PROVE  ProposalOnce(p)' /\ WarningOnce(p)' /\ \A v : VoteOnce(p, v)'
<1>1. \A k, y : Announced("discord", k, y) \in Nat
  BY AnnouncedType
<1>2. ProposalOnce(p)'
  BY <1>1 DEF ProposalOnce, SameNews
<1>3. WarningOnce(p)'
  BY <1>1 DEF WarningOnce, SameNews
<1>4. ASSUME NEW v PROVE VoteOnce(p, v)'
  BY <1>1 DEF VoteOnce, SameNews
<1> QED BY <1>2, <1>3, <1>4

\* After a fault every message may be sent once more.
LEMMA AfterFault ==
  ASSUME NEW p, ProposalOnce(p), WarningOnce(p), \A v : VoteOnce(p, v),
         IsABag(posted), faults \in Nat, faults' = faults + 1, SameNews(p)
  PROVE  ProposalOnce(p)' /\ WarningOnce(p)' /\ \A v : VoteOnce(p, v)'
<1>1. \A k, y : Announced("discord", k, y) \in Nat
  BY AnnouncedType
<1>2. ProposalOnce(p)'
  BY <1>1 DEF ProposalOnce, SameNews
<1>3. WarningOnce(p)'
  BY <1>1 DEF WarningOnce, SameNews
<1>4. ASSUME NEW v PROVE VoteOnce(p, v)'
  BY <1>1 DEF VoteOnce, SameNews
<1> QED BY <1>2, <1>3, <1>4

LEMMA ProposalRests ==
  ASSUME NEW p, ProposalInv(p), SameProposal(p), IsABag(posted), faults \in Nat,
         faults' \in Nat, faults <= faults'
  PROVE  ProposalInv(p)'
<1>1. ASSUME NEW f \in flows', f.id = p PROVE FlowWorks(p, f)'
  BY <1>1 DEF ProposalInv, SameProposal, FlowWorks
<1>2. \A pc : FlowAt(p, pc) => FlowAt(p, pc)'
  BY DEF FlowAt, SameProposal
<1>3. \A v : Heard(p, v) => Heard(p, v)'
  BY DEF Heard, SameProposal
<1>4. ProposalOnce(p)' /\ WarningOnce(p)' /\ \A v : VoteOnce(p, v)'
  BY <1>2, <1>3, CountsStay DEF ProposalInv, SameProposal
<1> QED BY <1>1, <1>4 DEF ProposalInv

LEMMA SameDao ==
  ASSUME DaoOK, UNCHANGED dao
  PROVE  /\ DaoOK' /\ DaoGrows /\ \A p : VotedOn(p)' = VotedOn(p)
BY DEF DaoOK, DaoGrows, VotedOn

\* Flows that were there stay in order.
LEMMA SameFlowOK ==
  ASSUME DaoGrows, NEW f, FlowOK(f)
  PROVE  FlowOK(f)'
<1>1. \A p : VotedOn(p) \subseteq VotedOn(p)'
  BY DEF DaoGrows, VotedOn
<1> QED BY <1>1 DEF FlowOK, DaoGrows

\* A step that posts nothing about proposals and keeps their caches.
GovernanceApart ==
  /\ DaoOK' /\ DaoGrows /\ DOMAIN redis' = RedisFields /\ IsABag(posted')
  /\ redis'.proposals = redis.proposals /\ redis'.warned = redis.warned
  /\ faults' \in Nat /\ faults <= faults'
  /\ \A p : SameNews(p)
  /\ UNCHANGED <<flows, seeding>> /\ contended \subseteq contended'

LEMMA GovernanceApartKeeps ==
  ASSUME GovernanceInv, GovernanceApart
  PROVE  GovernanceInv'
<1>1. \A p : CachedVoters(p)' = CachedVoters(p)
  BY DEF GovernanceApart, CachedVoters
<1>2. \A p : VotedOn(p) \subseteq VotedOn(p)'
  BY DEF GovernanceApart, DaoGrows, VotedOn
<1>3. CachesOK'
  <2>1. /\ DOMAIN redis'.proposals \subseteq DOMAIN dao'.proposals
        /\ redis'.warned \subseteq DOMAIN dao'.proposals
    BY DEF GovernanceInv, GovernanceApart, CachesOK, DaoGrows
  <2>2. \A p : CachedVoters(p)' \subseteq VotedOn(p)'
    BY <1>1, <1>2 DEF GovernanceInv, CachesOK
  <2> QED BY <2>1, <2>2 DEF CachesOK, GovernanceApart
<1>4. FlowsOK'
  <2>1. ASSUME NEW f \in flows PROVE FlowOK(f)'
    BY SameFlowOK DEF GovernanceInv, FlowsOK, GovernanceApart
  <2> QED BY <2>1 DEF GovernanceInv, GovernanceApart, FlowsOK
<1>5. ASSUME NEW p, p \notin contended' PROVE ProposalInv(p)'
  <2>1. ProposalInv(p)
    BY <1>5 DEF GovernanceInv, GovernanceApart
  <2>2. SameProposal(p)
    BY <1>1 DEF GovernanceApart, SameProposal
  <2> QED BY <2>1, <2>2, ProposalRests DEF GovernanceInv, GovernanceApart
<1> QED BY <1>3, <1>4, <1>5 DEF GovernanceInv, GovernanceApart

LEMMA Contends ==
  ASSUME Overlaps
  PROVE  /\ contended \subseteq contended'
         /\ \A f, g \in flows' : f.id = g.id => f = g \/ f.id \in contended'
<1>1. contended' = contended \cup Shared(flows')
  BY DEF Overlaps
<1>2. \A f, g \in flows' : f.id = g.id /\ f # g => f.id \in Shared(flows')
  <2>1. TAKE f, g \in flows'
  <2>2. f.id = g.id /\ f # g => g \in flows' \ {f}
    OBVIOUS
  <2> QED BY <2>2 DEF Shared
<1> QED BY <1>1, <1>2

-----------------------------------------------------------------------------
(* One flow takes a step                                                   *)

\* The flow f goes on as g, the others stay.
Follows(f, g) ==
  /\ f \in flows
  /\ DOMAIN g = FlowFields /\ g.no = f.no /\ g.id = f.id /\ g.new = f.new
  /\ \A h \in flows' : (h = g /\ g.pc # "done") \/ (h \in flows /\ h # f)
  /\ \A h \in flows : h # f => h \in flows'
  /\ g.pc # "done" => g \in flows'

LEMMA FlowGoes ==
  ASSUME FlowsOK, NEW f \in flows, NEW pc, Continue(f, pc)
  PROVE  \E g : Follows(f, g) /\ g.pc = pc /\ g.cached = f.cached
<1>1. DOMAIN f = FlowFields
  BY DEF FlowsOK, FlowOK
<1>2. PICK g : g = [f EXCEPT !.pc = pc]
  OBVIOUS
<1>3. /\ DOMAIN g = FlowFields /\ g.no = f.no /\ g.id = f.id /\ g.new = f.new
      /\ g.pc = pc /\ g.cached = f.cached
  BY <1>1, <1>2 DEF FlowFields
<1>4. flows' = (flows \ {f}) \cup (IF pc = "done" THEN {} ELSE {g})
  BY <1>2 DEF Continue
<1>5. Follows(f, g)
  BY <1>3, <1>4 DEF Follows
<1> QED BY <1>3, <1>5

\* What is left to show of a step of a flow, if it is the only one: what
\* becomes of its proposal.
LEMMA FlowKeeps ==
  ASSUME GovernanceInv, NEW f, NEW g, Follows(f, g), Overlaps,
         UNCHANGED <<dao, seeding>>, IsABag(posted'), faults' \in Nat, faults <= faults',
         CachesOK', \A p : p # f.id => SameNews(p),
         \A p : p # f.id => /\ p \in DOMAIN redis'.proposals <=> p \in DOMAIN redis.proposals
                            /\ CachedVoters(p)' = CachedVoters(p)
                            /\ p \in redis'.warned <=> p \in redis.warned,
         ASSUME ProposalInv(f.id), FlowWorks(f.id, f),
                \A pc : FlowAt(f.id, pc) => f.pc = pc,
                \A v : Heard(f.id, v) => f.pc \in HeardPcs /\ v \in VotersOf(f.new)
         PROVE  /\ g.pc # "done" => FlowWorks(f.id, g)'
                /\ ProposalOnce(f.id)' /\ WarningOnce(f.id)' /\ \A v : VoteOnce(f.id, v)'
  PROVE  GovernanceInv'
<1>1. /\ FlowsOK /\ f \in flows /\ FlowOK(f)
      /\ DOMAIN g = FlowFields /\ g.no = f.no /\ g.id = f.id /\ g.new = f.new
      /\ \A h \in flows' : (h = g /\ g.pc # "done") \/ (h \in flows /\ h # f)
  BY DEF GovernanceInv, FlowsOK, Follows
<1>2. DaoOK' /\ DaoGrows
  BY SameDao DEF GovernanceInv
<1>3. FlowsOK'
  <2>1. FlowOK(g)
    BY <1>1 DEF FlowOK
  <2>2. \A h \in flows' : FlowOK(h)
    BY <2>1, <1>1 DEF FlowsOK
  <2>3. \A h \in flows' : FlowOK(h)'
    BY <2>2, <1>2, SameFlowOK
  <2>4. \A h, k \in flows' : h.no = k.no /\ h.id = k.id => h = k
    BY <1>1 DEF FlowsOK
  <2>5. seeding' => \A h \in flows' : h.no # 0
    BY <1>1 DEF FlowsOK
  <2> QED BY <2>3, <2>4, <2>5, Contends DEF FlowsOK
<1>4. ASSUME NEW p, p \notin contended', p # f.id PROVE ProposalInv(p)'
  <2>1. ProposalInv(p)
    BY <1>4, Contends DEF GovernanceInv
  <2>2. \A h : h.id = p => (h \in flows' <=> h \in flows)
    BY <1>1, <1>4 DEF Follows
  <2>3. SameProposal(p)
    BY <2>2, <1>4 DEF SameProposal
  <2> QED BY <2>1, <2>3, ProposalRests DEF GovernanceInv
<1>5. ASSUME f.id \notin contended' PROVE ProposalInv(f.id)'
  <2>1. ProposalInv(f.id) /\ f.id \notin contended
    BY <1>5, Contends DEF GovernanceInv
  <2>2. \A h \in flows : h.id = f.id => h = f
    BY <2>1, <1>1 DEF FlowsOK
  <2>3. FlowWorks(f.id, f)
    BY <2>1, <1>1 DEF ProposalInv
  <2>4. \A pc : FlowAt(f.id, pc) => f.pc = pc
    BY <2>2 DEF FlowAt
  <2>5. \A v : Heard(f.id, v) => f.pc \in HeardPcs /\ v \in VotersOf(f.new)
    BY <2>2 DEF Heard
  <2>6. /\ g.pc # "done" => FlowWorks(f.id, g)'
        /\ ProposalOnce(f.id)' /\ WarningOnce(f.id)' /\ \A v : VoteOnce(f.id, v)'
    BY <2>1, <2>3, <2>4, <2>5
  <2>7. \A h \in flows' : h.id = f.id => h = g /\ g.pc # "done"
    BY <2>2, <1>1
  <2> QED BY <2>6, <2>7 DEF ProposalInv
<1> QED BY <1>2, <1>3, <1>4, <1>5 DEF GovernanceInv

\* A flow is on its way to write something down.
LEMMA FlowThere ==
  ASSUME NEW f, NEW g, Follows(f, g), g.pc # "done"
  PROVE  /\ FlowAt(f.id, g.pc)'
         /\ g.pc \in HeardPcs => \A v \in VotersOf(f.new) : Heard(f.id, v)'
BY DEF Follows, FlowAt, Heard

\* The caches of governance are as they were.
LEMMA SameCaches ==
  ASSUME CachesOK, UNCHANGED <<dao, redis>>
  PROVE  CachesOK' /\ \A p : CachedVoters(p)' = CachedVoters(p)
BY DEF CachesOK, CachedVoters, VotedOn

LEMMA GetProposalCacheKeeps ==
  ASSUME GovernanceInv, NEW f \in flows, GetProposalCache(f), Overlaps
  PROVE  GovernanceInv'
<1>1. f.pc = "start" /\ UNCHANGED <<dao, redis, seeding, posted, faults>>
  BY DEF GetProposalCache, Quiet, GovernanceOnly, chainVars
<1>2. FlowsOK /\ FlowOK(f) /\ CachesOK
  BY DEF GovernanceInv, FlowsOK
<1>3. CachesOK' /\ \A p : CachedVoters(p)' = CachedVoters(p)
  BY <1>1, <1>2, SameCaches
<1>4. \E g : /\ Follows(f, g)
             /\ \/ g.pc = "new" /\ f.id \notin DOMAIN redis.proposals
                \/ /\ g.pc \in {"status", "votes"} /\ f.id \in DOMAIN redis.proposals
                   /\ g.cached = redis.proposals[f.id]
  <2>1. CASE f.id \notin DOMAIN redis.proposals
    BY <2>1, <1>2, FlowGoes DEF GetProposalCache
  <2>2. CASE f.id \in DOMAIN redis.proposals
    <3>1. PICK old : old = redis.proposals[f.id]
      OBVIOUS
    <3>2. PICK pc \in {"status", "votes"} :
            pc = IF old.status # f.new.status THEN "status" ELSE "votes"
      OBVIOUS
    <3>3. PICK g : g = [f EXCEPT !.cached = old, !.pc = pc]
      OBVIOUS
    <3>4. flows' = (flows \ {f}) \cup {g}
      BY <2>2, <3>1, <3>2, <3>3 DEF GetProposalCache
    <3>5. /\ DOMAIN g = FlowFields /\ g.no = f.no /\ g.id = f.id /\ g.new = f.new
          /\ g.pc = pc /\ g.cached = old
      BY <3>3, <1>2 DEF FlowOK, FlowFields
    <3>6. Follows(f, g)
      BY <3>4, <3>5 DEF Follows
    <3> QED BY <2>2, <3>1, <3>5, <3>6
  <2> QED BY <2>1, <2>2
<1>5. PICK g : /\ Follows(f, g)
               /\ \/ g.pc = "new" /\ f.id \notin DOMAIN redis.proposals
                  \/ /\ g.pc \in {"status", "votes"} /\ f.id \in DOMAIN redis.proposals
                     /\ g.cached = redis.proposals[f.id]
  BY <1>4
<1>6. \A p : SameNews(p)
  BY <1>1, QuietNews
<1>7. IsABag(posted') /\ faults' \in Nat /\ faults <= faults' /\ IsABag(posted) /\ faults \in Nat
  BY <1>1 DEF GovernanceInv
<1>8. ASSUME ProposalInv(f.id), FlowWorks(f.id, f),
             \A pc : FlowAt(f.id, pc) => f.pc = pc,
             \A v : Heard(f.id, v) => f.pc \in HeardPcs /\ v \in VotersOf(f.new)
      PROVE  /\ FlowWorks(f.id, g)'
             /\ ProposalOnce(f.id)' /\ WarningOnce(f.id)' /\ \A v : VoteOnce(f.id, v)'
  <2>1. ~FlowAt(f.id, "save") /\ ~FlowAt(f.id, "warned") /\ \A v : ~Heard(f.id, v)
    BY <1>1, <1>8 DEF HeardPcs
  <2>2. ProposalOnce(f.id)' /\ WarningOnce(f.id)' /\ \A v : VoteOnce(f.id, v)'
    BY <2>1, <1>1, <1>3, <1>6, <1>7, <1>8, CountsStay DEF ProposalInv
  <2>3. g.new = f.new
    BY <1>5 DEF Follows
  <2>4. CachedVoters(f.id) \subseteq VotersOf(g.new)
    BY <2>3, <1>8 DEF FlowWorks
  <2>5. g.pc \in {"status", "votes"} => CachedVoters(f.id) \subseteq VotersOf(g.cached)
    BY <1>5 DEF CachedVoters
  <2>6. redis' = redis /\ CachedVoters(f.id)' = CachedVoters(f.id) /\ g.pc # "atRisk"
    BY <1>1, <1>3, <1>5
  <2> QED BY <2>2, <2>4, <2>5, <2>6, <1>5 DEF FlowWorks
<1> QED BY <1>1, <1>3, <1>5, <1>6, <1>7, <1>8, FlowKeeps

\* A flow posts one message and goes on, or it fails and is over.
LEMMA AwaitedDoes ==
  ASSUME GovernanceInv, NEW f \in flows, NEW pc, NEW kind, NEW x, NEW next,
         PostAwaited(f, pc, kind, x, next)
  PROVE  /\ f.pc = pc /\ UNCHANGED <<dao, redis, seeding>> /\ IsABag(posted')
         /\ \E g : /\ Follows(f, g) /\ g.cached = f.cached
                   /\ \/ g.pc = next /\ faults' = faults
                      \/ g.pc = "done" /\ faults' = faults + 1
         /\ \A s, k, y : /\ Announced(s, k, y) \in Nat
                         /\ Announced(s, k, y)' = Announced(s, k, y) +
                              IF s = "discord" /\ k = kind /\ y = x /\ faults' = faults
                              THEN 1 ELSE 0
<1>1. PICK ok \in BOOLEAN : /\ Fault(ok)
                            /\ Send(kind, x, IF ok THEN {"discord"} ELSE {})
                            /\ Continue(f, IF ok THEN next ELSE "done")
  BY DEF PostAwaited
<1>2. f.pc = pc /\ UNCHANGED <<dao, redis, seeding>> /\ faults \in Nat
  BY DEF PostAwaited, GovernanceOnly, chainVars, GovernanceInv
<1>3. PICK sent, to : /\ sent = IF ok THEN {"discord"} ELSE {}
                      /\ to = IF ok THEN next ELSE "done"
  OBVIOUS
<1>4. /\ IsABag(posted')
      /\ \A s, k, y : /\ Announced(s, k, y) \in Nat
                      /\ Announced(s, k, y)' = Announced(s, k, y)
                           + IF s \in sent /\ k = kind /\ y = x THEN 1 ELSE 0
  <2>1. Send(kind, x, sent) /\ IsABag(posted)
    BY <1>1, <1>3 DEF GovernanceInv
  <2> QED BY <2>1, SendDoes
<1>5. ok <=> faults' = faults
  BY <1>1, <1>2 DEF Fault
<1>6. PICK g : Follows(f, g) /\ g.pc = to /\ g.cached = f.cached
  BY <1>1, <1>3, FlowGoes DEF GovernanceInv
<1>7. ~ok => faults' = faults + 1
  BY <1>1 DEF Fault
<1>8. \E h : /\ Follows(f, h) /\ h.cached = f.cached
             /\ \/ h.pc = next /\ faults' = faults
                \/ h.pc = "done" /\ faults' = faults + 1
  BY <1>3, <1>5, <1>6, <1>7
<1>9. \A s : s \in sent <=> s = "discord" /\ faults' = faults
  BY <1>3, <1>5
<1>10. \A s, k, y : /\ Announced(s, k, y) \in Nat
                    /\ Announced(s, k, y)' = Announced(s, k, y) +
                         IF s = "discord" /\ k = kind /\ y = x /\ faults' = faults
                         THEN 1 ELSE 0
  BY <1>4, <1>9
<1> QED BY <1>2, <1>4, <1>8, <1>10

\* What is left to show of a post that a flow waits for: that one more of
\* it is not too many.
LEMMA AwaitedKeeps ==
  ASSUME GovernanceInv, NEW f \in flows, NEW pc, NEW kind, NEW x, NEW next, Overlaps,
         PostAwaited(f, pc, kind, x, next), next # "done",
         \A p : p # f.id => SameNews(p),
         ASSUME NEW g, g.pc = next, g.cached = f.cached, Follows(f, g), faults' = faults,
                UNCHANGED redis, IsABag(posted'), CachedVoters(f.id)' = CachedVoters(f.id),
                \A s, k, y : /\ Announced(s, k, y) \in Nat
                             /\ Announced(s, k, y)' = Announced(s, k, y) +
                                  IF s = "discord" /\ k = kind /\ y = x THEN 1 ELSE 0,
                ProposalInv(f.id), FlowWorks(f.id, f),
                \A at : FlowAt(f.id, at) => f.pc = at,
                \A v : Heard(f.id, v) => f.pc \in HeardPcs /\ v \in VotersOf(f.new)
         PROVE  /\ FlowWorks(f.id, g)'
                /\ ProposalOnce(f.id)' /\ WarningOnce(f.id)' /\ \A v : VoteOnce(f.id, v)'
  PROVE  GovernanceInv'
<1>1. /\ UNCHANGED <<dao, redis, seeding>> /\ IsABag(posted')
      /\ \E g : /\ Follows(f, g) /\ g.cached = f.cached
                /\ \/ g.pc = next /\ faults' = faults
                   \/ g.pc = "done" /\ faults' = faults + 1
      /\ \A s, k, y : /\ Announced(s, k, y) \in Nat
                      /\ Announced(s, k, y)' = Announced(s, k, y) +
                           IF s = "discord" /\ k = kind /\ y = x /\ faults' = faults
                           THEN 1 ELSE 0
  BY AwaitedDoes
<1>2. PICK g : /\ Follows(f, g) /\ g.cached = f.cached
               /\ \/ g.pc = next /\ faults' = faults
                  \/ g.pc = "done" /\ faults' = faults + 1
  BY <1>1
<1>3. faults \in Nat /\ faults' \in Nat /\ faults <= faults' /\ IsABag(posted)
  BY <1>2 DEF GovernanceInv
<1>4. CachesOK' /\ \A p : CachedVoters(p)' = CachedVoters(p)
  BY <1>1, SameCaches DEF GovernanceInv
<1>5. ASSUME ProposalInv(f.id), FlowWorks(f.id, f),
             \A at : FlowAt(f.id, at) => f.pc = at,
             \A v : Heard(f.id, v) => f.pc \in HeardPcs /\ v \in VotersOf(f.new)
      PROVE  /\ g.pc # "done" => FlowWorks(f.id, g)'
             /\ ProposalOnce(f.id)' /\ WarningOnce(f.id)' /\ \A v : VoteOnce(f.id, v)'
  <2>1. CASE g.pc = next /\ faults' = faults
    <3>1. \A s, k, y : /\ Announced(s, k, y) \in Nat
                       /\ Announced(s, k, y)' = Announced(s, k, y) +
                            IF s = "discord" /\ k = kind /\ y = x THEN 1 ELSE 0
      BY <2>1, <1>1
    <3>2. UNCHANGED redis /\ CachedVoters(f.id)' = CachedVoters(f.id) /\ IsABag(posted')
      BY <1>1, <1>4
    <3> QED BY <3>1, <3>2, <2>1, <1>2, <1>5
  <2>2. CASE g.pc = "done" /\ faults' = faults + 1
    <3>1. \A s, k, y : Announced(s, k, y)' = Announced(s, k, y)
      BY <2>2, <1>1, <1>3
    <3>2. SameNews(f.id)
      BY <3>1 DEF SameNews
    <3> QED BY <2>2, <3>2, <1>3, <1>5, AfterFault DEF ProposalInv
  <2> QED BY <2>1, <2>2, <1>2
<1>6. \A p : /\ p \in DOMAIN redis'.proposals <=> p \in DOMAIN redis.proposals
             /\ CachedVoters(p)' = CachedVoters(p)
             /\ p \in redis'.warned <=> p \in redis.warned
  BY <1>1, <1>4
<1> QED BY <1>1, <1>2, <1>3, <1>4, <1>5, <1>6, FlowKeeps

\* A post about one proposal says nothing about the others.
LEMMA OtherNews ==
  ASSUME GovernanceInv, NEW f \in flows, NEW pc, NEW kind, NEW x, NEW next,
         PostAwaited(f, pc, kind, x, next), kind # "vote",
         kind \in {"proposal", "atRisk"} => x = f.id
  PROVE  \A p : p # f.id => SameNews(p)
<1>1. \A s, k, y : /\ Announced(s, k, y) \in Nat
                   /\ Announced(s, k, y)' = Announced(s, k, y) +
                        IF s = "discord" /\ k = kind /\ y = x /\ faults' = faults
                        THEN 1 ELSE 0
  BY AwaitedDoes
<1>2. \A s, k, y : k # kind \/ y # x => Announced(s, k, y)' = Announced(s, k, y)
  BY <1>1
<1> QED BY <1>2 DEF SameNews

LEMMA HandleNewProposalKeeps ==
  ASSUME GovernanceInv, NEW f \in flows, HandleNewProposal(f), Overlaps
  PROVE  GovernanceInv'
<1>1. PostAwaited(f, "new", "proposal", f.id, "save")
  BY DEF HandleNewProposal
<1>2. f.pc = "new"
  BY <1>1 DEF PostAwaited
<1>3. \A p : p # f.id => SameNews(p)
  BY <1>1, OtherNews
<1>4. ASSUME NEW g, g.pc = "save", g.cached = f.cached, Follows(f, g), faults' = faults,
             UNCHANGED redis, IsABag(posted'), CachedVoters(f.id)' = CachedVoters(f.id),
             \A s, k, y : /\ Announced(s, k, y) \in Nat
                          /\ Announced(s, k, y)' = Announced(s, k, y) +
                               IF s = "discord" /\ k = "proposal" /\ y = f.id THEN 1 ELSE 0,
             ProposalInv(f.id), FlowWorks(f.id, f),
             \A at : FlowAt(f.id, at) => f.pc = at,
             \A v : Heard(f.id, v) => f.pc \in HeardPcs /\ v \in VotersOf(f.new)
      PROVE  /\ FlowWorks(f.id, g)'
             /\ ProposalOnce(f.id)' /\ WarningOnce(f.id)' /\ \A v : VoteOnce(f.id, v)'
  <2>1. /\ ~FlowAt(f.id, "save") /\ ~FlowAt(f.id, "warned") /\ \A v : ~Heard(f.id, v)
        /\ f.id \notin DOMAIN redis.proposals /\ g.new = f.new
    BY <1>2, <1>4 DEF HeardPcs, FlowWorks, Follows
  <2>2. FlowAt(f.id, "save")'
    BY <1>4, FlowThere
  <2>3. faults \in Nat
    BY DEF GovernanceInv
  <2>4. ProposalOnce(f.id)'
    <3>1. ~(Announced("discord", "proposal", f.id) > faults)
      BY <2>1, <1>4 DEF ProposalInv, ProposalOnce
    <3> QED BY <3>1, <2>2, <2>3, <1>4 DEF ProposalOnce
  <2>5. \A k, y : k # "proposal" =>
          Announced("discord", k, y)' = Announced("discord", k, y)
    BY <1>4
  <2>6. WarningOnce(f.id)'
    BY <2>1, <2>3, <2>5, <1>4 DEF ProposalInv, WarningOnce
  <2>7. ASSUME NEW v PROVE VoteOnce(f.id, v)'
    BY <2>1, <2>3, <2>5, <1>4 DEF ProposalInv, VoteOnce
  <2>8. FlowWorks(f.id, g)'
    BY <2>1, <1>4 DEF FlowWorks
  <2> QED BY <2>4, <2>6, <2>7, <2>8
<1> QED BY <1>1, <1>3, <1>4, AwaitedKeeps

LEMMA HandleUpdatedStatusKeeps ==
  ASSUME GovernanceInv, NEW f \in flows, HandleUpdatedProposalStatus(f), Overlaps
  PROVE  GovernanceInv'
<1>1. PICK x : PostAwaited(f, "status", "status", x, "votes")
  BY DEF HandleUpdatedProposalStatus
<1>2. f.pc = "status"
  BY <1>1 DEF PostAwaited
<1>3. \A p : p # f.id => SameNews(p)
  BY <1>1, OtherNews
<1>4. ASSUME NEW g, g.pc = "votes", g.cached = f.cached, Follows(f, g), faults' = faults,
             UNCHANGED redis, IsABag(posted'), CachedVoters(f.id)' = CachedVoters(f.id),
             \A s, k, y : /\ Announced(s, k, y) \in Nat
                          /\ Announced(s, k, y)' = Announced(s, k, y) +
                               IF s = "discord" /\ k = "status" /\ y = x THEN 1 ELSE 0,
             ProposalInv(f.id), FlowWorks(f.id, f),
             \A at : FlowAt(f.id, at) => f.pc = at,
             \A v : Heard(f.id, v) => f.pc \in HeardPcs /\ v \in VotersOf(f.new)
      PROVE  /\ FlowWorks(f.id, g)'
             /\ ProposalOnce(f.id)' /\ WarningOnce(f.id)' /\ \A v : VoteOnce(f.id, v)'
  <2>1. /\ ~FlowAt(f.id, "save") /\ ~FlowAt(f.id, "warned") /\ \A v : ~Heard(f.id, v)
        /\ g.new = f.new
    BY <1>2, <1>4 DEF HeardPcs, Follows
  <2>2. SameNews(f.id)
    BY <1>4 DEF SameNews
  <2>3. faults \in Nat /\ IsABag(posted)
    BY DEF GovernanceInv
  <2>4. ProposalOnce(f.id)' /\ WarningOnce(f.id)' /\ \A v : VoteOnce(f.id, v)'
    BY <2>1, <2>2, <2>3, <1>4, CountsStay DEF ProposalInv
  <2>5. FlowWorks(f.id, g)'
    BY <2>1, <1>2, <1>4 DEF FlowWorks
  <2> QED BY <2>4, <2>5
<1> QED BY <1>1, <1>3, <1>4, AwaitedKeeps

LEMMA HandleAtRiskKeeps ==
  ASSUME GovernanceInv, NEW f \in flows, HandleProposalAtRiskOfExpiry(f), Overlaps
  PROVE  GovernanceInv'
<1>1. PostAwaited(f, "atRisk", "atRisk", f.id, "warned")
  BY DEF HandleProposalAtRiskOfExpiry
<1>2. f.pc = "atRisk"
  BY <1>1 DEF PostAwaited
<1>3. \A p : p # f.id => SameNews(p)
  BY <1>1, OtherNews
<1>4. ASSUME NEW g, g.pc = "warned", g.cached = f.cached, Follows(f, g), faults' = faults,
             UNCHANGED redis, IsABag(posted'), CachedVoters(f.id)' = CachedVoters(f.id),
             \A s, k, y : /\ Announced(s, k, y) \in Nat
                          /\ Announced(s, k, y)' = Announced(s, k, y) +
                               IF s = "discord" /\ k = "atRisk" /\ y = f.id THEN 1 ELSE 0,
             ProposalInv(f.id), FlowWorks(f.id, f),
             \A at : FlowAt(f.id, at) => f.pc = at,
             \A v : Heard(f.id, v) => f.pc \in HeardPcs /\ v \in VotersOf(f.new)
      PROVE  /\ FlowWorks(f.id, g)'
             /\ ProposalOnce(f.id)' /\ WarningOnce(f.id)' /\ \A v : VoteOnce(f.id, v)'
  <2>1. /\ ~FlowAt(f.id, "save") /\ ~FlowAt(f.id, "warned")
        /\ f.id \notin redis.warned /\ g.new = f.new
    BY <1>2, <1>4 DEF FlowWorks, Follows
  <2>2. FlowAt(f.id, "warned")' /\ \A v : Heard(f.id, v) => Heard(f.id, v)'
    BY <1>4, FlowThere DEF HeardPcs
  <2>3. faults \in Nat
    BY DEF GovernanceInv
  <2>4. WarningOnce(f.id)'
    <3>1. ~(Announced("discord", "atRisk", f.id) > faults)
      BY <2>1, <1>4 DEF ProposalInv, WarningOnce
    <3> QED BY <3>1, <2>2, <2>3, <1>4 DEF WarningOnce
  <2>5. \A k, y : k # "atRisk" =>
          Announced("discord", k, y)' = Announced("discord", k, y)
    BY <1>4
  <2>6. ProposalOnce(f.id)'
    BY <2>1, <2>3, <2>5, <1>4 DEF ProposalInv, ProposalOnce
  <2>7. ASSUME NEW v PROVE VoteOnce(f.id, v)'
    BY <2>2, <2>3, <2>5, <1>4 DEF ProposalInv, VoteOnce
  <2>8. FlowWorks(f.id, g)'
    BY <2>1, <1>4 DEF FlowWorks
  <2> QED BY <2>4, <2>6, <2>7, <2>8
<1> QED BY <1>1, <1>3, <1>4, AwaitedKeeps


LEMMA HandleGovernanceVotesKeeps ==
  ASSUME GovernanceInv, NEW f \in flows, HandleGovernanceVotes(f), Overlaps
  PROVE  GovernanceInv'
<1>1. PICK sent : /\ sent \subseteq ExtractNewVotes(f.cached, f.new)
                  /\ faults' \in {faults, faults + 1}
                  /\ posted' = posted (+)
                       SetToBag({Message("discord", "vote", <<f.id, v[1]>>) : v \in sent})
  BY DEF HandleGovernanceVotes, Fault
<1>2. f.pc = "votes" /\ UNCHANGED <<dao, redis, seeding>>
  BY DEF HandleGovernanceVotes, GovernanceOnly, chainVars
<1>3. PICK pc \in {"risk", "save"} : Continue(f, pc)
  <2>1. PICK pc : pc = IF IsAtRiskOfExpiry(f.new) THEN "risk" ELSE "save"
    OBVIOUS
  <2> QED BY <2>1 DEF HandleGovernanceVotes
<1>4. PICK g : Follows(f, g) /\ g.pc = pc
  BY <1>3, FlowGoes DEF GovernanceInv
<1>5. faults \in Nat /\ faults' \in Nat /\ faults <= faults' /\ IsABag(posted)
  BY <1>1 DEF GovernanceInv
<1>6. CachesOK' /\ \A p : CachedVoters(p)' = CachedVoters(p)
  BY <1>2, SameCaches DEF GovernanceInv
<1>7. PICK S : S = {Message("discord", "vote", <<f.id, v[1]>>) : v \in sent}
  OBVIOUS
<1>8. /\ IsABag(posted')
      /\ \A s, k, y : /\ Announced(s, k, y) \in Nat
                      /\ Announced(s, k, y)' = Announced(s, k, y)
                           + IF Message(s, k, y) \in S THEN 1 ELSE 0
  <2>1. posted' = posted (+) SetToBag(S)
    BY <1>1, <1>7
  <2>2. /\ IsABag(posted')
        /\ \A m : /\ Copies(m, posted) \in Nat
                 /\ Copies(m, posted') = Copies(m, posted) + IF m \in S THEN 1 ELSE 0
    BY <2>1, <1>5, CopiesAfter
  <2> QED BY <2>2 DEF Announced
<1>9. \A s, k, y : Message(s, k, y) \in S =>
        k = "vote" /\ \E v \in sent : y = <<f.id, v[1]>>
  BY <1>7 DEF Message
<1>10. \A s, k, y : Message(s, k, y) \notin S => Announced(s, k, y)' = Announced(s, k, y)
  BY <1>8
<1>11. ASSUME NEW p, p # f.id PROVE SameNews(p)
  <2>1. \A v : Message("discord", "vote", <<p, v>>) \notin S
    BY <1>9, <1>11
  <2> QED BY <2>1, <1>9, <1>10 DEF SameNews
<1>12. ASSUME ProposalInv(f.id), FlowWorks(f.id, f),
              \A at : FlowAt(f.id, at) => f.pc = at,
              \A v : Heard(f.id, v) => f.pc \in HeardPcs /\ v \in VotersOf(f.new)
       PROVE  /\ FlowWorks(f.id, g)'
              /\ ProposalOnce(f.id)' /\ WarningOnce(f.id)' /\ \A v : VoteOnce(f.id, v)'
  <2>1. /\ ~FlowAt(f.id, "save") /\ ~FlowAt(f.id, "warned") /\ \A v : ~Heard(f.id, v)
        /\ g.new = f.new
    BY <1>2, <1>4, <1>12 DEF HeardPcs, Follows
  <2>2. /\ Announced("discord", "proposal", f.id)' = Announced("discord", "proposal", f.id)
        /\ Announced("discord", "atRisk", f.id)' = Announced("discord", "atRisk", f.id)
    BY <1>9, <1>10
  <2>3. /\ Announced("discord", "proposal", f.id) \in Nat
        /\ Announced("discord", "atRisk", f.id) \in Nat
    BY <1>8
  <2>4. ProposalOnce(f.id)'
    BY <2>1, <2>2, <2>3, <1>2, <1>5, <1>12 DEF ProposalInv, ProposalOnce
  <2>5. WarningOnce(f.id)'
    BY <2>1, <2>2, <2>3, <1>2, <1>5, <1>12 DEF ProposalInv, WarningOnce
  <2>6. \A v \in sent : v[1] \in VotersOf(f.new) /\ v[1] \notin CachedVoters(f.id)
    BY <1>1, <1>2, <1>12 DEF ExtractNewVotes, VotersOf, FlowWorks
  <2>7. \A v \in VotersOf(f.new) : Heard(f.id, v)'
    BY <1>3, <1>4, FlowThere DEF HeardPcs
  <2>8. ASSUME NEW v PROVE VoteOnce(f.id, v)'
    <3>1. VoteOnce(f.id, v)
      BY <1>12 DEF ProposalInv
    <3>2. CASE Message("discord", "vote", <<f.id, v>>) \in S
      <4>1. v \in VotersOf(f.new) /\ v \notin CachedVoters(f.id)
        BY <3>2, <1>9, <2>6
      <4>2. ~(Announced("discord", "vote", <<f.id, v>>) > faults)
        BY <2>1, <3>1, <4>1 DEF VoteOnce
      <4>3. /\ Announced("discord", "vote", <<f.id, v>>) \in Nat
            /\ Announced("discord", "vote", <<f.id, v>>)' =
                 Announced("discord", "vote", <<f.id, v>>) + 1
        BY <3>2, <1>8
      <4>4. Heard(f.id, v)'
        BY <4>1, <2>7
      <4> QED BY <4>2, <4>3, <4>4, <1>5 DEF VoteOnce
    <3>3. CASE Message("discord", "vote", <<f.id, v>>) \notin S
      <4>1. /\ Announced("discord", "vote", <<f.id, v>>) \in Nat
            /\ Announced("discord", "vote", <<f.id, v>>)' =
                 Announced("discord", "vote", <<f.id, v>>)
        BY <3>3, <1>8, <1>10
      <4> QED BY <2>1, <3>1, <4>1, <1>5, <1>6 DEF VoteOnce
    <3> QED BY <3>2, <3>3
  <2>9. FlowWorks(f.id, g)'
    BY <2>1, <1>3, <1>4, <1>6, <1>12 DEF FlowWorks
  <2> QED BY <2>4, <2>5, <2>8, <2>9
<1> QED BY <1>2, <1>4, <1>5, <1>6, <1>8, <1>11, <1>12, FlowKeeps

LEMMA HasWarnedKeeps ==
  ASSUME GovernanceInv, NEW f \in flows, HasWarnedOfExpiry(f), Overlaps
  PROVE  GovernanceInv'
<1>1. f.pc = "risk" /\ UNCHANGED <<dao, redis, seeding, posted, faults>>
  BY DEF HasWarnedOfExpiry, Quiet, GovernanceOnly, chainVars
<1>2. PICK pc : Continue(f, pc) /\ pc = IF f.id \in redis.warned THEN "save" ELSE "atRisk"
  BY DEF HasWarnedOfExpiry
<1>3. PICK g : Follows(f, g) /\ g.pc = pc
  BY <1>2, FlowGoes DEF GovernanceInv
<1>4. CachesOK' /\ \A p : CachedVoters(p)' = CachedVoters(p)
  BY <1>1, SameCaches DEF GovernanceInv
<1>5. \A p : SameNews(p)
  BY <1>1, QuietNews
<1>6. IsABag(posted') /\ faults' \in Nat /\ faults <= faults' /\ IsABag(posted) /\ faults \in Nat
  BY <1>1 DEF GovernanceInv
<1>7. pc \in {"save", "atRisk"} /\ (pc = "atRisk" => f.id \notin redis.warned)
  BY <1>2
<1>8. ASSUME ProposalInv(f.id), FlowWorks(f.id, f),
             \A at : FlowAt(f.id, at) => f.pc = at,
             \A v : Heard(f.id, v) => f.pc \in HeardPcs /\ v \in VotersOf(f.new)
      PROVE  /\ FlowWorks(f.id, g)'
             /\ ProposalOnce(f.id)' /\ WarningOnce(f.id)' /\ \A v : VoteOnce(f.id, v)'
  <2>1. ~FlowAt(f.id, "save") /\ ~FlowAt(f.id, "warned") /\ g.new = f.new
    BY <1>1, <1>3, <1>8 DEF Follows
  <2>2. \A v : Heard(f.id, v) => Heard(f.id, v)'
    BY <1>3, <1>7, <1>8, FlowThere DEF HeardPcs
  <2>3. ProposalOnce(f.id)' /\ WarningOnce(f.id)' /\ \A v : VoteOnce(f.id, v)'
    BY <2>1, <2>2, <1>1, <1>4, <1>5, <1>6, <1>8, CountsStay DEF ProposalInv
  <2>4. FlowWorks(f.id, g)'
    BY <2>1, <1>1, <1>3, <1>4, <1>7, <1>8 DEF FlowWorks
  <2> QED BY <2>3, <2>4
<1> QED BY <1>1, <1>3, <1>4, <1>5, <1>6, <1>8, FlowKeeps

LEMMA WarningSentKeeps ==
  ASSUME GovernanceInv, NEW f \in flows, SetProposalExpiryWarningSent(f), Overlaps
  PROVE  GovernanceInv'
<1>1. /\ f.pc = "warned" /\ Continue(f, "save")
      /\ redis' = [redis EXCEPT !.warned = @ \cup {f.id}]
      /\ UNCHANGED <<dao, seeding, posted, faults>>
  BY DEF SetProposalExpiryWarningSent, Quiet, GovernanceOnly, chainVars
<1>2. CachesOK /\ FlowsOK /\ FlowOK(f)
  BY DEF GovernanceInv, FlowsOK
<1>3. /\ DOMAIN redis' = RedisFields /\ redis'.proposals = redis.proposals
      /\ redis'.warned = redis.warned \cup {f.id}
  BY <1>1, <1>2 DEF RedisFields, CachesOK
<1>4. \A p : CachedVoters(p)' = CachedVoters(p)
  BY <1>3 DEF CachedVoters
<1>5. PICK g : Follows(f, g) /\ g.pc = "save"
  BY <1>1, <1>2, FlowGoes
<1>6. CachesOK'
  <2>1. \A p : CachedVoters(p)' \subseteq VotedOn(p)'
    BY <1>1, <1>2, <1>4 DEF CachesOK, VotedOn
  <2> QED BY <2>1, <1>1, <1>2, <1>3 DEF CachesOK, FlowOK
<1>7. \A p : SameNews(p)
  BY <1>1, QuietNews
<1>8. IsABag(posted') /\ faults' \in Nat /\ faults <= faults' /\ IsABag(posted) /\ faults \in Nat
  BY <1>1 DEF GovernanceInv
<1>9. ASSUME ProposalInv(f.id), FlowWorks(f.id, f),
             \A at : FlowAt(f.id, at) => f.pc = at,
             \A v : Heard(f.id, v) => f.pc \in HeardPcs /\ v \in VotersOf(f.new)
      PROVE  /\ FlowWorks(f.id, g)'
             /\ ProposalOnce(f.id)' /\ WarningOnce(f.id)' /\ \A v : VoteOnce(f.id, v)'
  <2>1. /\ ~FlowAt(f.id, "save") /\ g.new = f.new
        /\ f.id \in redis'.warned
    BY <1>1, <1>3, <1>5, <1>9 DEF Follows
  <2>2. \A v : Heard(f.id, v) => Heard(f.id, v)'
    BY <1>5, <1>9, FlowThere DEF HeardPcs
  <2>3. f.id \in DOMAIN redis.proposals => f.id \in DOMAIN redis'.proposals
    BY <1>3
  <2>4. CachedVoters(f.id) \subseteq CachedVoters(f.id)'
    BY <1>4
  <2>5. ProposalOnce(f.id)' /\ WarningOnce(f.id)' /\ \A v : VoteOnce(f.id, v)'
    BY <2>1, <2>2, <2>3, <2>4, <1>7, <1>8, <1>9, CountsStay DEF ProposalInv
  <2>6. FlowWorks(f.id, g)'
    BY <2>1, <1>4, <1>5, <1>9 DEF FlowWorks
  <2> QED BY <2>5, <2>6
<1>10. \A p : p # f.id => /\ p \in DOMAIN redis'.proposals <=> p \in DOMAIN redis.proposals
                          /\ CachedVoters(p)' = CachedVoters(p)
                          /\ p \in redis'.warned <=> p \in redis.warned
  BY <1>3, <1>4
<1> QED BY <1>1, <1>5, <1>6, <1>7, <1>8, <1>9, <1>10, FlowKeeps

LEMMA UpdateProposalCacheKeeps ==
  ASSUME GovernanceInv, NEW f \in flows, UpdateProposalCache(f), Overlaps
  PROVE  GovernanceInv'
<1>1. f.pc = "save" /\ Continue(f, "done") /\ UNCHANGED <<dao, seeding, posted, faults>>
  BY DEF UpdateProposalCache, Quiet, GovernanceOnly, chainVars
<1>2. CachesOK /\ FlowsOK /\ FlowOK(f)
  BY DEF GovernanceInv, FlowsOK
<1>3. PICK new : new = [p \in DOMAIN redis.proposals \cup {f.id} |->
                          IF p = f.id THEN f.new ELSE redis.proposals[p]]
  OBVIOUS
<1>4. redis' = [redis EXCEPT !.proposals = new]
  BY <1>2, <1>3 DEF UpdateProposalCache, CachesOK, RedisFields
<1>5. DOMAIN redis' = RedisFields /\ redis'.proposals = new /\ redis'.warned = redis.warned
  BY <1>2, <1>4 DEF CachesOK, RedisFields
<1>6. /\ DOMAIN new = DOMAIN redis.proposals \cup {f.id} /\ new[f.id] = f.new
      /\ \A p \in DOMAIN redis.proposals : p # f.id => new[p] = redis.proposals[p]
  BY <1>3
<1>7. /\ \A p : p # f.id => CachedVoters(p)' = CachedVoters(p)
      /\ CachedVoters(f.id)' = VotersOf(f.new)
  BY <1>5, <1>6 DEF CachedVoters
<1>8. PICK g : Follows(f, g) /\ g.pc = "done"
  BY <1>1, <1>2, FlowGoes
<1>9. CachesOK'
  <2>1. \A p : VotedOn(p)' = VotedOn(p)
    BY <1>1 DEF VotedOn
  <2>2. ASSUME NEW p PROVE CachedVoters(p)' \subseteq VotedOn(p)'
    <3>1. CASE p = f.id
      BY <3>1, <2>1, <1>7, <1>2 DEF FlowOK
    <3>2. CASE p # f.id
      BY <3>2, <2>1, <1>2, <1>7 DEF CachesOK
    <3> QED BY <3>1, <3>2
  <2> QED BY <2>2, <1>1, <1>2, <1>5, <1>6 DEF CachesOK, FlowOK
<1>10. \A p : SameNews(p)
  BY <1>1, QuietNews
<1>11. IsABag(posted') /\ faults' \in Nat /\ faults <= faults' /\ IsABag(posted) /\ faults \in Nat
  BY <1>1 DEF GovernanceInv
<1>12. ASSUME ProposalInv(f.id), FlowWorks(f.id, f),
              \A at : FlowAt(f.id, at) => f.pc = at,
              \A v : Heard(f.id, v) => f.pc \in HeardPcs /\ v \in VotersOf(f.new)
       PROVE  ProposalOnce(f.id)' /\ WarningOnce(f.id)' /\ \A v : VoteOnce(f.id, v)'
  <2>1. f.id \in DOMAIN redis'.proposals /\ ~FlowAt(f.id, "warned")
    BY <1>1, <1>5, <1>6, <1>12
  <2>2. CachedVoters(f.id) \subseteq CachedVoters(f.id)'
    BY <1>7, <1>12 DEF FlowWorks
  <2>3. \A v : Heard(f.id, v) => v \in CachedVoters(f.id)'
    BY <1>7, <1>12
  <2>4. f.id \in redis.warned => f.id \in redis'.warned
    BY <1>5
  <2> QED BY <2>1, <2>2, <2>3, <2>4, <1>10, <1>11, <1>12, CountsStay DEF ProposalInv
<1>13. \A p : p # f.id => /\ p \in DOMAIN redis'.proposals <=> p \in DOMAIN redis.proposals
                          /\ CachedVoters(p)' = CachedVoters(p)
                          /\ p \in redis'.warned <=> p \in redis.warned
  BY <1>5, <1>6, <1>7
<1> QED BY <1>1, <1>8, <1>9, <1>10, <1>11, <1>12, <1>13, FlowKeeps

LEMMA FlowFailsKeeps ==
  ASSUME GovernanceInv, NEW f \in flows, FlowFails(f), Overlaps
  PROVE  GovernanceInv'
<1>1. /\ flows' = flows \ {f} /\ faults' = faults + 1
      /\ UNCHANGED <<dao, redis, seeding, posted>>
  BY DEF FlowFails, Fault, GovernanceOnly, chainVars
<1>2. Continue(f, "done")
  BY <1>1 DEF Continue
<1>3. PICK g : Follows(f, g) /\ g.pc = "done"
  BY <1>2, FlowGoes DEF GovernanceInv
<1>4. CachesOK' /\ \A p : CachedVoters(p)' = CachedVoters(p)
  BY <1>1, SameCaches DEF GovernanceInv
<1>5. \A p : SameNews(p)
  BY <1>1, QuietNews
<1>6. IsABag(posted') /\ faults' \in Nat /\ faults <= faults' /\ IsABag(posted) /\ faults \in Nat
  BY <1>1 DEF GovernanceInv
<1>7. ASSUME ProposalInv(f.id)
      PROVE  ProposalOnce(f.id)' /\ WarningOnce(f.id)' /\ \A v : VoteOnce(f.id, v)'
  BY <1>1, <1>5, <1>6, <1>7, AfterFault DEF ProposalInv
<1>8. \A p : /\ p \in DOMAIN redis'.proposals <=> p \in DOMAIN redis.proposals
             /\ p \in redis'.warned <=> p \in redis.warned
  BY <1>1
<1> QED BY <1>1, <1>3, <1>4, <1>5, <1>6, <1>7, <1>8, FlowKeeps

-----------------------------------------------------------------------------
(* Flows begin                                                             *)

\* What the service fetches names every voter so far.
LEMMA FetchedVoters ==
  ASSUME NEW p
  PROVE  VotersOf(Proposal(p)) = VotedOn(p)
<1>1. PICK vs : vs = {<<v, dao.votes[<<v, p>>].votes>> :
                      v \in {w \in Voters : <<w, p>> \in DOMAIN dao.votes}}
  OBVIOUS
<1>2. Proposal(p).votes = vs
  BY <1>1 DEF Proposal
<1>3. \A v : v \in VotedOn(p) => <<v, dao.votes[<<v, p>>].votes>> \in vs
  BY <1>1 DEF VotedOn
<1>4. \A w \in vs : w[1] \in VotedOn(p)
  <2>1. TAKE w \in vs
  <2>2. PICK v \in VotedOn(p) : w = <<v, dao.votes[<<v, p>>].votes>>
    BY <1>1 DEF VotedOn
  <2>3. PICK n : w = <<v, n>>
    BY <2>2
  <2> QED BY <2>2, <2>3
<1>5. \A v \in VotedOn(p) : \E w \in vs : v = w[1]
  <2>1. TAKE v \in VotedOn(p)
  <2>2. PICK n : <<v, n>> \in vs
    BY <1>3
  <2>3. PICK w \in vs : w = <<v, n>>
    BY <2>2
  <2> QED BY <2>3
<1> QED BY <1>2, <1>4, <1>5 DEF VotersOf

LEMMA StartFlowsKeeps ==
  ASSUME GovernanceInv, NEW no, NEW pc \in {"start", "save"}, StartFlows(no, pc), Overlaps,
         UNCHANGED <<dao, redis, posted, faults>>,
         \A f \in flows : f.no # no,
         seeding' => seeding /\ no # 0
  PROVE  GovernanceInv'
<1>1. DaoOK /\ CachesOK /\ FlowsOK /\ IsABag(posted) /\ faults \in Nat
  BY DEF GovernanceInv
<1>2. CachesOK' /\ \A p : CachedVoters(p)' = CachedVoters(p)
  BY <1>1, SameCaches
<1>3. DaoOK' /\ DaoGrows /\ \A p : VotedOn(p)' = VotedOn(p)
  BY <1>1, SameDao
<1>4. /\ flows \subseteq flows'
      /\ \A f \in flows' : f \in flows \/ \E p \in DOMAIN dao.proposals : f = Flow(no, p, pc)
  BY DEF StartFlows
<1>5. \A p : /\ DOMAIN Flow(no, p, pc) = FlowFields /\ Flow(no, p, pc).no = no
             /\ Flow(no, p, pc).id = p /\ Flow(no, p, pc).pc = pc
             /\ Flow(no, p, pc).new = Proposal(p)
  BY DEF Flow, FlowFields
<1>6. ASSUME NEW f \in flows', f \notin flows
      PROVE  /\ FlowOK(f) /\ f.no = no /\ f = Flow(no, f.id, pc) /\ f.pc = pc
             /\ VotersOf(f.new) = VotedOn(f.id)
  <2>1. PICK p \in DOMAIN dao.proposals : f = Flow(no, p, pc)
    BY <1>4, <1>6
  <2>2. DOMAIN f = FlowFields /\ f.no = no /\ f.id = p /\ f.pc = pc /\ f.new = Proposal(p)
    BY <2>1, <1>5
  <2>3. VotersOf(f.new) = VotedOn(f.id)
    BY <2>2, FetchedVoters
  <2> QED BY <2>1, <2>2, <2>3 DEF FlowOK
<1>7. FlowsOK'
  <2>1. ASSUME NEW f \in flows' PROVE FlowOK(f)'
    <3>1. FlowOK(f)
      BY <1>1, <1>6 DEF FlowsOK
    <3> QED BY <3>1, <1>3, SameFlowOK
  <2>2. ASSUME NEW f \in flows', NEW h \in flows', f.no = h.no, f.id = h.id PROVE f = h
    <3>1. CASE f \in flows /\ h \in flows
      BY <3>1, <2>2, <1>1 DEF FlowsOK
    <3>2. CASE f \notin flows
      <4>1. f.no = no /\ f = Flow(no, f.id, pc)
        BY <3>2, <1>6
      <4>2. h \notin flows
        BY <4>1, <2>2
      <4>3. h = Flow(no, h.id, pc)
        BY <4>2, <1>6
      <4> QED BY <4>1, <4>3, <2>2
    <3>3. CASE h \notin flows
      <4>1. h.no = no /\ h = Flow(no, h.id, pc)
        BY <3>3, <1>6
      <4>2. f \notin flows
        BY <4>1, <2>2
      <4>3. f = Flow(no, f.id, pc)
        BY <4>2, <1>6
      <4> QED BY <4>1, <4>3, <2>2
    <3> QED BY <3>1, <3>2, <3>3
  <2>3. seeding' => \A f \in flows' : f.no # 0
    BY <1>1, <1>6 DEF FlowsOK
  <2> QED BY <2>1, <2>2, <2>3, Contends DEF FlowsOK
<1>8. ASSUME NEW p, p \notin contended' PROVE ProposalInv(p)'
  <2>1. ProposalInv(p)
    BY <1>8, Contends DEF GovernanceInv
  <2>2. ASSUME NEW f \in flows', f.id = p PROVE FlowWorks(p, f)'
    <3>1. CASE f \in flows
      <4>1. FlowWorks(p, f)
        BY <3>1, <2>1, <2>2 DEF ProposalInv
      <4> QED BY <4>1, <1>2 DEF FlowWorks
    <3>2. CASE f \notin flows
      <4>1. f.pc = pc /\ VotersOf(f.new) = VotedOn(p)
        BY <3>2, <2>2, <1>6
      <4>2. CachedVoters(p)' \subseteq VotersOf(f.new)
        BY <4>1, <1>1, <1>2 DEF CachesOK
      <4> QED BY <4>1, <4>2 DEF FlowWorks
    <3> QED BY <3>1, <3>2
  <2>3. \A at : FlowAt(p, at) => FlowAt(p, at)'
    BY <1>4 DEF FlowAt
  <2>4. \A v : Heard(p, v) => Heard(p, v)'
    BY <1>4 DEF Heard
  <2>5. SameNews(p)
    BY QuietNews
  <2>6. ProposalOnce(p)' /\ WarningOnce(p)' /\ \A v : VoteOnce(p, v)'
    BY <2>1, <2>3, <2>4, <2>5, <1>1, <1>2, CountsStay DEF ProposalInv
  <2> QED BY <2>2, <2>6 DEF ProposalInv
<1> QED BY <1>1, <1>2, <1>3, <1>7, <1>8 DEF GovernanceInv

LEMMA SetupGovernanceKeeps ==
  ASSUME GovernanceInv, SetupGovernance, Overlaps
  PROVE  GovernanceInv'
<1>1. /\ seeding /\ seeding' = FALSE /\ StartFlows(0, "save")
      /\ UNCHANGED <<dao, redis, posted, faults>>
  BY DEF SetupGovernance, Quiet, GovernanceOnly, chainVars
<1>2. \A f \in flows : f.no # 0
  BY <1>1 DEF GovernanceInv, FlowsOK
<1> QED BY <1>1, <1>2, StartFlowsKeeps

LEMMA StartGovernanceKeeps ==
  ASSUME GovernanceInv, StartGovernanceTick, Overlaps
  PROVE  GovernanceInv'
<1>1. PICK n \in 1 .. MaxTicks : Free(n, flows) /\ StartFlows(n, "start")
  BY DEF StartGovernanceTick
<1>2. UNCHANGED <<dao, redis, posted, faults, seeding>>
  BY DEF StartGovernanceTick, Quiet, GovernanceOnly, chainVars
<1>3. \A f \in flows : f.no # n
  <2>1. n \in Nat /\ n \in 1 .. n
    OBVIOUS
  <2>2. n \notin {x.no : x \in flows}
    BY <1>1, <2>1 DEF Free
  <2> QED BY <2>2
<1>4. n # 0
  OBVIOUS
<1> QED BY <1>1, <1>2, <1>3, <1>4, StartFlowsKeeps

LEMMA RestartKeepsGovernance ==
  ASSUME GovernanceInv, Restart, Overlaps
  PROVE  GovernanceInv'
<1>1. /\ UNCHANGED <<dao, redis, posted>> /\ flows' = {} /\ faults' = faults + 1
  BY DEF Restart, Fault, chainVars
<1>2. DaoOK /\ CachesOK /\ IsABag(posted) /\ faults \in Nat
  BY DEF GovernanceInv
<1>3. CachesOK' /\ DaoOK'
  BY <1>1, <1>2, SameCaches, SameDao
<1>4. FlowsOK'
  BY <1>1 DEF FlowsOK
<1>5. ASSUME NEW p, p \notin contended' PROVE ProposalInv(p)'
  <2>1. ProposalInv(p)
    BY <1>5, Contends DEF GovernanceInv
  <2>2. SameNews(p)
    BY <1>1, QuietNews
  <2>3. ProposalOnce(p)' /\ WarningOnce(p)' /\ \A v : VoteOnce(p, v)'
    BY <2>1, <2>2, <1>1, <1>2, AfterFault DEF ProposalInv
  <2> QED BY <2>3, <1>1 DEF ProposalInv
<1> QED BY <1>1, <1>2, <1>3, <1>4, <1>5 DEF GovernanceInv

LEMMA GovernanceTickKeeps ==
  ASSUME GovernanceInv, SetupGovernance \/ ProcessGovernanceTick, Overlaps
  PROVE  GovernanceInv'
<1>1. ASSUME NEW f \in flows,
             \/ GetProposalCache(f) \/ HandleNewProposal(f)
             \/ HandleUpdatedProposalStatus(f) \/ HandleGovernanceVotes(f)
      PROVE  GovernanceInv'
  BY <1>1, GetProposalCacheKeeps, HandleNewProposalKeeps, HandleUpdatedStatusKeeps,
     HandleGovernanceVotesKeeps
<1>2. ASSUME NEW f \in flows,
             \/ HasWarnedOfExpiry(f) \/ HandleProposalAtRiskOfExpiry(f)
             \/ SetProposalExpiryWarningSent(f) \/ UpdateProposalCache(f) \/ FlowFails(f)
      PROVE  GovernanceInv'
  BY <1>2, HasWarnedKeeps, HandleAtRiskKeeps, WarningSentKeeps, UpdateProposalCacheKeeps,
     FlowFailsKeeps
<1> QED BY <1>1, <1>2, SetupGovernanceKeeps, StartGovernanceKeeps DEF ProcessGovernanceTick

-----------------------------------------------------------------------------
(* The two halves together                                                 *)

\* A tweet is about an auction.
RepliesOK == \A r \in replies : r[1] \in Ids
Inv == AuctionsInv /\ GovernanceInv /\ RepliesOK

\* A step of the chain or of the clock.
LEMMA ChainStepKeeps ==
  ASSUME Inv, UNCHANGED <<redis, auctionVars, governanceVars, posted, faults>>, Overlaps,
         ChainOK', ChainGrows, DaoOK', DaoGrows
  PROVE  Inv'
<1>1. UNCHANGED <<redis, seeding, ticks, flows, posted, replies, lost, faults>>
  BY DEF auctionVars, governanceVars
<1>2. AuctionsApart
  BY <1>1, SilentIsSame, Crowds DEF Inv, AuctionsInv, RedisOK, AuctionsApart
<1>3. GovernanceApart
  BY <1>1, QuietNews, Contends DEF Inv, GovernanceInv, CachesOK, GovernanceApart
<1>4. RepliesOK'
  BY <1>1 DEF Inv, RepliesOK
<1> QED BY <1>2, <1>3, <1>4, AuctionsApartKeeps, GovernanceApartKeeps DEF Inv

LEMMA ProposeGrows ==
  ASSUME DaoOK, NEW p, Propose(p)
  PROVE  DaoOK' /\ DaoGrows
<1>1. PICK new, count : dao' = [dao EXCEPT
        !.count = count,
        !.proposals = [id \in DOMAIN dao.proposals \cup {p} |->
                         IF id = p THEN new ELSE dao.proposals[id]]]
  BY DEF Propose, HandleProposalCreated, DaoOK
<1>2. PICK f : f = [id \in DOMAIN dao.proposals \cup {p} |->
                      IF id = p THEN new ELSE dao.proposals[id]]
  OBVIOUS
<1>3. DOMAIN f = DOMAIN dao.proposals \cup {p}
  BY <1>2
<1>4. dao' = [dao EXCEPT !.count = count, !.proposals = f]
  BY <1>1, <1>2
<1>5. DaoOK' /\ dao'.proposals = f /\ dao'.votes = dao.votes
  BY <1>4 DEF DaoOK
<1> QED BY <1>3, <1>5, SMTT(30) DEF DaoGrows

LEMMA DecideGrows ==
  ASSUME DaoOK, NEW p, Decide(p)
  PROVE  DaoOK' /\ DaoGrows
<1>1. \/ dao' = HandleProposalQueued(dao, [id |-> p, eta |-> now + Delay])
      \/ dao' = HandleProposalExecuted(dao, [id |-> p])
      \/ dao' = HandleProposalCanceled(dao, [id |-> p])
      \/ dao' = HandleProposalVetoed(dao, [id |-> p])
  BY DEF Decide
<1>2. CASE dao' = HandleProposalQueued(dao, [id |-> p, eta |-> now + Delay])
  BY <1>2 DEF HandleProposalQueued, DaoOK, DaoGrows
<1>3. CASE dao' = HandleProposalExecuted(dao, [id |-> p])
  BY <1>3 DEF HandleProposalExecuted, DaoOK, DaoGrows
<1>4. CASE dao' = HandleProposalCanceled(dao, [id |-> p])
  BY <1>4 DEF HandleProposalCanceled, DaoOK, DaoGrows
<1>5. CASE dao' = HandleProposalVetoed(dao, [id |-> p])
  BY <1>5 DEF HandleProposalVetoed, DaoOK, DaoGrows
<1> QED BY <1>1, <1>2, <1>3, <1>4, <1>5

LEMMA CastVoteGrows ==
  ASSUME DaoOK, NEW p, NEW v, NEW n, CastVote(p, v, n)
  PROVE  DaoOK' /\ DaoGrows
<1>1. PICK e : e = [id |-> p, voter |-> v, support |-> 1, votes |-> n]
  OBVIOUS
<1>2. dao' = HandleVoteCast(dao, e)
  BY <1>1 DEF CastVote
<1>3. PICK f : f = [id \in DOMAIN dao.votes \cup {<<e.voter, e.id>>} |->
                      IF id = <<e.voter, e.id>>
                      THEN [votes |-> e.votes, support |-> e.support] ELSE dao.votes[id]]
  OBVIOUS
<1>4. DOMAIN dao.votes \subseteq DOMAIN f
  BY <1>3
<1>5. DOMAIN dao' = DOMAIN dao /\ dao'.votes = f
  BY <1>2, <1>3 DEF HandleVoteCast, DaoOK
<1>6. DOMAIN dao'.proposals = DOMAIN dao.proposals
  BY <1>2 DEF HandleVoteCast, DaoOK
<1> QED BY <1>4, <1>5, <1>6 DEF DaoOK, DaoGrows

LEMMA EnvironmentKeeps ==
  ASSUME Inv, Environment, Overlaps
  PROVE  Inv'
<1>1. ChainOK /\ DaoOK
  BY DEF Inv, AuctionsInv, GovernanceInv
<1>2. Chain => UNCHANGED <<redis, auctionVars, governanceVars, posted, faults, now>>
  BY DEF Chain
<1>3. CASE CreateAuction
  <2>1. Chain /\ UNCHANGED dao
    BY <1>3 DEF CreateAuction
  <2> QED BY <2>1, <1>1, <1>2, <1>3, CreateAuctionGrows, SameDao, ChainStepKeeps
<1>4. ASSUME NEW hash \in Hashes, CreateBid(hash) PROVE Inv'
  <2>1. Chain /\ UNCHANGED dao
    BY <1>4 DEF CreateBid
  <2> QED BY <2>1, <1>1, <1>2, <1>4, CreateBidGrows, SameDao, ChainStepKeeps
<1>5. CASE SettleAuction
  <2>1. Chain /\ UNCHANGED dao
    BY <1>5 DEF SettleAuction
  <2> QED BY <2>1, <1>1, <1>2, <1>5, SettleAuctionGrows, SameDao, ChainStepKeeps
<1>6. ASSUME NEW p, Propose(p) \/ Decide(p) \/ \E v, n : CastVote(p, v, n) PROVE Inv'
  <2>1. Chain /\ UNCHANGED auctions
    BY <1>6 DEF Propose, Decide, CastVote
  <2>2. DaoOK' /\ DaoGrows
    BY <1>1, <1>6, ProposeGrows, DecideGrows, CastVoteGrows
  <2> QED BY <2>1, <2>2, <1>1, <1>2, SameChain, SameChainGrows, ChainStepKeeps
<1>7. CASE Tick
  <2>1. /\ UNCHANGED <<redis, auctionVars, governanceVars, posted, faults>>
        /\ UNCHANGED <<auctions, dao>> /\ now' = now + 1
    BY <1>7 DEF Tick
  <2>2. ChainOK'
    BY <2>1, <1>1 DEF ChainOK, LastId
  <2> QED BY <2>1, <2>2, <1>1, SameChainGrows, SameDao, ChainStepKeeps
<1>8. CASE Restart
  <2>1. RepliesOK'
    BY <1>8 DEF Restart, Inv, RepliesOK
  <2> QED BY <2>1, <1>8, RestartKeeps, RestartKeepsGovernance DEF Inv
<1> QED BY <1>3, <1>4, <1>5, <1>6, <1>7, <1>8 DEF Environment

-----------------------------------------------------------------------------
(* The ticks of the auctions, seen from governance                         *)

AuctionKinds == {"auction", "bid", "endingSoon"}

\* What a tick writes to Redis and what it sends.
WritesOne ==
  redis' = redis \/ \E y \in {"auction", "bid", "soon", "thread"} :
                      \E v : redis' = [redis EXCEPT ![y] = v]
SendsOne == \E k \in AuctionKinds : \E x, sent : Send(k, x, sent)
Replies ==
  replies' = replies \/ \E t \in ticks : /\ t.pc \notin Early
                                         /\ \E x : replies' = replies \cup {<<t.last, x>>}
TickLeaves ==
  /\ UNCHANGED <<dao, flows, seeding>> /\ WritesOne
  /\ posted' = posted \/ SendsOne
  /\ faults' \in {faults, faults + 1} /\ Replies

LEMMA SilentLeaves ==
  ASSUME Silent, WritesOne
  PROVE  TickLeaves
BY DEF Silent, AuctionsOnly, chainVars, governanceVars, TickLeaves, Replies

LEMMA PostLeaves ==
  ASSUME NEW t \in ticks, NEW kind \in AuctionKinds, NEW x, NEW sent, NEW ok, NEW thread,
         NEW write, NEW next, Post(t, kind, x, sent, ok, thread, write, next),
         UNCHANGED redis, Replies
  PROVE  TickLeaves
<1>1. UNCHANGED <<dao, flows, seeding>>
  BY DEF Post, AuctionsOnly, chainVars, governanceVars
<1>2. faults' \in {faults, faults + 1} /\ Send(kind, x, sent)
  BY DEF Post, Fault
<1> QED BY <1>1, <1>2 DEF TickLeaves, WritesOne, SendsOne

LEMMA UpdateCacheLeaves ==
  ASSUME NEW t, NEW from, NEW to, NEW skip, NEW new,
         NEW field \in {"auction", "bid", "soon", "thread"}, NEW value,
         UpdateCache(t, from, to, skip, new, field, value)
  PROVE  TickLeaves
<1>1. Silent /\ redis' = IF new THEN [redis EXCEPT ![field] = value] ELSE redis
  BY DEF UpdateCache
<1>2. WritesOne
  BY <1>1 DEF WritesOne
<1> QED BY <1>1, <1>2, SilentLeaves

LEMMA ReadThreadLeaves ==
  ASSUME NEW t, NEW from, NEW to, ReadThread(t, from, to)
  PROVE  TickLeaves
BY SilentLeaves DEF ReadThread, WritesOne

LEMMA WriteThreadLeaves ==
  ASSUME NEW t, NEW from, NEW next, WriteThread(t, from, next)
  PROVE  TickLeaves
<1>1. PICK x : redis' = [redis EXCEPT !["thread"] = x]
  BY DEF WriteThread
<1>2. WritesOne
  BY <1>1 DEF WritesOne
<1> QED BY <1>2, SilentLeaves DEF WriteThread

LEMMA ReplyLeaves ==
  ASSUME NEW t \in ticks, NEW from \in {"replyBid", "replySoon"},
         NEW kind \in AuctionKinds, NEW x, NEW handlers, NEW write, NEW next,
         Reply(t, from, kind, x, handlers, write, next)
  PROVE  TickLeaves
<1>1. PICK can : can = IF t.thread = NoThread THEN handlers \ {"twitter"} ELSE handlers
  OBVIOUS
<1>2. PICK ok \in BOOLEAN, sent \in SUBSET can :
        /\ Post(t, kind, x, sent, ok, t.thread, write, next)
        /\ replies' = IF "twitter" \in sent
                      THEN replies \cup {<<t.last, t.thread>>} ELSE replies
  BY <1>1 DEF Reply
<1>3. t.pc = from /\ UNCHANGED redis
  BY DEF Reply
<1>4. Replies
  BY <1>2, <1>3 DEF Replies, Early
<1> QED BY <1>2, <1>3, <1>4, PostLeaves

LEMMA AuctionTickLeaves ==
  ASSUME ProcessAuctionTick
  PROVE  TickLeaves
<1>1. CASE StartTick
  BY <1>1, SilentLeaves DEF StartTick, WritesOne
<1>2. ASSUME NEW t \in ticks, ReadBidCache(t) \/ ReadEndingSoonCache(t) \/ GetLastAuctionBids(t)
      PROVE  TickLeaves
  BY <1>2, SilentLeaves DEF ReadBidCache, ReadEndingSoonCache, GetLastAuctionBids, WritesOne
<1>3. ASSUME NEW t \in ticks, SetupAuction(t) PROVE TickLeaves
  <2>1. redis' = redis \/ redis' = [redis EXCEPT !["auction"] = t.last]
    BY <1>3 DEF SetupAuction
  <2>2. WritesOne
    BY <2>1 DEF WritesOne
  <2> QED BY <2>2, <1>3, SilentLeaves DEF SetupAuction
<1>4. ASSUME NEW t \in ticks,
             UpdateAuctionCache(t) \/ UpdateBidCache(t) \/ UpdateAuctionEndingSoonCache(t)
      PROVE  TickLeaves
  BY <1>4, UpdateCacheLeaves DEF UpdateAuctionCache, UpdateBidCache,
                                 UpdateAuctionEndingSoonCache
<1>5. ASSUME NEW t \in ticks, HandleNewAuction(t) PROVE TickLeaves
  <2>1. PICK ok, sent : Post(t, "auction", t.last, sent, ok, t.last, "newThread", "bid")
    BY <1>5 DEF HandleNewAuction
  <2>2. UNCHANGED redis /\ Replies
    BY <1>5 DEF HandleNewAuction, Replies
  <2> QED BY <2>1, <2>2, PostLeaves DEF AuctionKinds
<1>6. ASSUME NEW t \in ticks, HandleNewBid(t) \/ HandleAuctionEndingSoon(t)
      PROVE  TickLeaves
  <2>1. ASSUME NEW from, NEW to, ReadThread(t, from, to) PROVE TickLeaves
    BY <2>1, ReadThreadLeaves
  <2>2. ASSUME NEW x, Reply(t, "replyBid", "bid", x, Platforms, "bidThread", "soon")
        PROVE  TickLeaves
    BY <2>2, ReplyLeaves DEF AuctionKinds
  <2>3. ASSUME NEW x, Reply(t, "replySoon", "endingSoon", x, {"twitter"}, "soonThread", "done")
        PROVE  TickLeaves
    BY <2>3, ReplyLeaves DEF AuctionKinds
  <2> QED BY <1>6, <2>1, <2>2, <2>3 DEF HandleNewBid, HandleAuctionEndingSoon
<1>7. ASSUME NEW t \in ticks,
             \/ WriteThread(t, "newThread", "bid") \/ WriteThread(t, "bidThread", "soon")
             \/ WriteThread(t, "soonThread", "done")
      PROVE  TickLeaves
  BY <1>7, WriteThreadLeaves
<1>8. ASSUME NEW t \in ticks, TickFails(t) PROVE TickLeaves
  <2>1. UNCHANGED <<dao, flows, seeding, redis, posted, replies>> /\ faults' = faults + 1
    BY <1>8 DEF TickFails, Fault, AuctionsOnly, chainVars, governanceVars
  <2> QED BY <2>1 DEF TickLeaves, WritesOne, Replies
<1> QED BY <1>1, <1>2, <1>3, <1>4, <1>5, <1>6, <1>7, <1>8 DEF ProcessAuctionTick

LEMMA AuctionStepKeeps ==
  ASSUME Inv, ProcessAuctionTick, Overlaps
  PROVE  Inv'
<1>1. AuctionsInv' /\ TickLeaves
  BY AuctionTickKeeps, AuctionTickLeaves DEF Inv
<1>2. redis'.proposals = redis.proposals /\ redis'.warned = redis.warned
  BY <1>1 DEF TickLeaves, WritesOne, Inv, AuctionsInv, RedisOK, RedisFields
<1>3. \A s, k, y : k \notin AuctionKinds => Announced(s, k, y)' = Announced(s, k, y)
  <2>1. CASE posted' = posted
    BY <2>1, SameCopies
  <2>2. CASE SendsOne
    <3>1. PICK kind \in AuctionKinds : \E x, sent : Send(kind, x, sent)
      BY <2>2 DEF SendsOne
    <3>2. PICK x, sent : Send(kind, x, sent)
      BY <3>1
    <3>3. \A s, k, y : /\ Announced(s, k, y) \in Nat
                       /\ Announced(s, k, y)' = Announced(s, k, y)
                            + IF s \in sent /\ k = kind /\ y = x THEN 1 ELSE 0
      BY <3>2, SendDoes DEF Inv, AuctionsInv
    <3> QED BY <3>3
  <2> QED BY <2>1, <2>2, <1>1 DEF TickLeaves
<1>4. \A p : SameNews(p)
  BY <1>3 DEF SameNews, AuctionKinds
<1>5. faults' \in Nat /\ faults <= faults'
  BY <1>1 DEF Inv, GovernanceInv, TickLeaves
<1>6. DaoOK' /\ DaoGrows
  BY <1>1, SameDao DEF Inv, GovernanceInv, TickLeaves
<1>7. DOMAIN redis' = RedisFields /\ IsABag(posted')
  BY <1>1 DEF AuctionsInv, RedisOK
<1>8. GovernanceApart
  BY <1>1, <1>2, <1>4, <1>5, <1>6, <1>7, Contends DEF GovernanceApart, TickLeaves
<1>9. RepliesOK'
  <2>1. CASE replies' = replies
    BY <2>1 DEF Inv, RepliesOK
  <2>2. ASSUME NEW t \in ticks, t.pc \notin Early, NEW x, replies' = replies \cup {<<t.last, x>>}
        PROVE  RepliesOK'
    <3>1. LastId \in Nat /\ TickOK(t)
      BY DEF Inv, AuctionsInv, ChainOK, TicksOK
    <3>2. t.last \in Ids
      BY <2>2, <3>1 DEF TickOK, Ids
    <3> QED BY <2>2, <3>2 DEF Inv, RepliesOK
  <2> QED BY <2>1, <2>2, <1>1 DEF TickLeaves, Replies
<1> QED BY <1>1, <1>8, <1>9, GovernanceApartKeeps DEF Inv

-----------------------------------------------------------------------------
(* Governance, seen from the ticks of the auctions                         *)

FlowLeaves ==
  /\ UNCHANGED <<auctions, now, ticks, replies, lost>>
  /\ redis' = redis \/ \E y \in {"proposals", "warned"} :
                         \E v : redis' = [redis EXCEPT ![y] = v]
  /\ \A s, k, y : k \in AuctionKinds => Announced(s, k, y)' = Announced(s, k, y)

LEMMA QuietLeaves ==
  ASSUME Quiet, redis' = redis \/ \E y \in {"proposals", "warned"} :
                                    \E v : redis' = [redis EXCEPT ![y] = v]
  PROVE  FlowLeaves
<1>1. UNCHANGED <<auctions, now, ticks, replies, lost, posted>>
  BY DEF Quiet, GovernanceOnly, chainVars, auctionVars
<1>2. \A s, k, y : Announced(s, k, y)' = Announced(s, k, y)
  BY <1>1, SameCopies
<1> QED BY <1>1, <1>2 DEF FlowLeaves

LEMMA AwaitedLeaves ==
  ASSUME GovernanceInv, NEW f \in flows, NEW pc, NEW kind, NEW x, NEW next,
         PostAwaited(f, pc, kind, x, next), kind \notin AuctionKinds
  PROVE  FlowLeaves
<1>1. UNCHANGED <<auctions, now, ticks, replies, lost>> /\ redis' = redis
  BY DEF PostAwaited, GovernanceOnly, chainVars, auctionVars
<1>2. \A s, k, y : /\ Announced(s, k, y) \in Nat
                   /\ Announced(s, k, y)' = Announced(s, k, y) +
                        IF s = "discord" /\ k = kind /\ y = x /\ faults' = faults
                        THEN 1 ELSE 0
  BY AwaitedDoes
<1>3. \A s, k, y : k \in AuctionKinds => Announced(s, k, y)' = Announced(s, k, y)
  BY <1>2
<1> QED BY <1>1, <1>3 DEF FlowLeaves

LEMMA VotesLeave ==
  ASSUME GovernanceInv, NEW f \in flows, HandleGovernanceVotes(f)
  PROVE  FlowLeaves
<1>1. PICK sent : posted' = posted (+)
                    SetToBag({Message("discord", "vote", <<f.id, v[1]>>) : v \in sent})
  BY DEF HandleGovernanceVotes
<1>2. UNCHANGED <<auctions, now, ticks, replies, lost>> /\ redis' = redis
  BY DEF HandleGovernanceVotes, GovernanceOnly, chainVars, auctionVars
<1>3. PICK S : S = {Message("discord", "vote", <<f.id, v[1]>>) : v \in sent}
  OBVIOUS
<1>4. posted' = posted (+) SetToBag(S)
  BY <1>1, <1>3
<1>5. \A s, k, y : k \in AuctionKinds => Message(s, k, y) \notin S
  BY <1>3 DEF Message, AuctionKinds
<1>6. \A m : /\ Copies(m, posted) \in Nat
             /\ Copies(m, posted') = Copies(m, posted) + IF m \in S THEN 1 ELSE 0
  BY <1>4, CopiesAfter DEF GovernanceInv
<1>7. \A m : m \notin S => Copies(m, posted') = Copies(m, posted)
  BY <1>6
<1>8. \A s, k, y : k \in AuctionKinds => Announced(s, k, y)' = Announced(s, k, y)
  BY <1>5, <1>7 DEF Announced
<1> QED BY <1>2, <1>8 DEF FlowLeaves

LEMMA GovernanceTickLeaves ==
  ASSUME GovernanceInv, SetupGovernance \/ ProcessGovernanceTick
  PROVE  FlowLeaves
<1>1. CASE SetupGovernance \/ StartGovernanceTick
  BY <1>1, QuietLeaves DEF SetupGovernance, StartGovernanceTick
<1>2. ASSUME NEW f \in flows, GetProposalCache(f) \/ HasWarnedOfExpiry(f)
      PROVE  FlowLeaves
  BY <1>2, QuietLeaves DEF GetProposalCache, HasWarnedOfExpiry
<1>3. ASSUME NEW f \in flows, SetProposalExpiryWarningSent(f) PROVE FlowLeaves
  <2>1. Quiet /\ \E v : redis' = [redis EXCEPT !["warned"] = v]
    BY <1>3 DEF SetProposalExpiryWarningSent
  <2> QED BY <2>1, QuietLeaves
<1>4. ASSUME NEW f \in flows, UpdateProposalCache(f) PROVE FlowLeaves
  <2>1. Quiet /\ \E v : redis' = [redis EXCEPT !["proposals"] = v]
    BY <1>4 DEF UpdateProposalCache
  <2> QED BY <2>1, QuietLeaves
<1>5. ASSUME NEW f \in flows,
             \/ HandleNewProposal(f) \/ HandleUpdatedProposalStatus(f)
             \/ HandleProposalAtRiskOfExpiry(f)
      PROVE  FlowLeaves
  <2>1. PICK pc, kind, x, next : /\ PostAwaited(f, pc, kind, x, next)
                                 /\ kind \notin AuctionKinds
    BY <1>5 DEF HandleNewProposal, HandleUpdatedProposalStatus,
                HandleProposalAtRiskOfExpiry, AuctionKinds
  <2> QED BY <2>1, AwaitedLeaves
<1>6. ASSUME NEW f \in flows, FlowFails(f) PROVE FlowLeaves
  <2>1. UNCHANGED <<auctions, now, ticks, replies, lost, posted>> /\ redis' = redis
    BY <1>6 DEF FlowFails, GovernanceOnly, chainVars, auctionVars
  <2>2. \A s, k, y : Announced(s, k, y)' = Announced(s, k, y)
    BY <2>1, SameCopies
  <2> QED BY <2>1, <2>2 DEF FlowLeaves
<1> QED BY <1>1, <1>2, <1>3, <1>4, <1>5, <1>6, VotesLeave DEF ProcessGovernanceTick

LEMMA GovernanceStepKeeps ==
  ASSUME Inv, SetupGovernance \/ ProcessGovernanceTick, Overlaps
  PROVE  Inv'
<1>1. GovernanceInv' /\ FlowLeaves
  BY GovernanceTickKeeps, GovernanceTickLeaves DEF Inv
<1>2. /\ redis'.auction = redis.auction /\ redis'.bid = redis.bid
      /\ redis'.soon = redis.soon /\ redis'.thread = redis.thread
  BY <1>1 DEF FlowLeaves, Inv, AuctionsInv, RedisOK, RedisFields
<1>3. UNCHANGED <<auctions, now, ticks, replies, lost>>
  BY <1>1 DEF FlowLeaves
<1>4. ChainOK' /\ ChainGrows
  BY <1>3, SameChain, SameChainGrows DEF Inv, AuctionsInv
<1>5. DOMAIN redis' = RedisFields /\ IsABag(posted')
  BY <1>1 DEF GovernanceInv, CachesOK
<1>6. \A a : SameTalk(a)
  BY <1>1, <1>3 DEF FlowLeaves, SameTalk, AuctionKinds
<1>7. AuctionsApart
  BY <1>2, <1>3, <1>4, <1>5, <1>6, Crowds DEF AuctionsApart
<1>8. RepliesOK'
  BY <1>3 DEF Inv, RepliesOK
<1> QED BY <1>1, <1>7, <1>8, AuctionsApartKeeps DEF Inv

-----------------------------------------------------------------------------
(* The theorems                                                            *)

LEMMA InvInit == Init => Inv
<1> SUFFICES ASSUME Init PROVE Inv
  OBVIOUS
<1>1. ChainOK /\ LastId \in Nat
  BY ChainInit DEF ChainOK
<1>2. /\ redis = [auction |-> 0, bid |-> NoBid, soon |-> 0, thread |-> NoThread,
                  proposals |-> <<>>, warned |-> {}]
      /\ ticks = Starting /\ flows = {} /\ replies = {} /\ faults = 0
  BY DEF Init
<1>3. IsABag(posted) /\ \A s, k, y : Announced(s, k, y) = 0
  BY DEF Init, EmptyBag, SetToBag, IsABag, Announced, Copies, BagIn, BagToSet
<1>4. /\ DOMAIN redis = RedisFields /\ redis.auction = 0 /\ redis.soon = 0
      /\ redis.thread = 0 /\ redis.bid = NoBid
      /\ redis.proposals = <<>> /\ redis.warned = {}
  BY <1>2 DEF RedisFields, NoThread
<1>5. RedisOK
  BY <1>1, <1>4 DEF RedisOK
<1>6. ASSUME NEW t \in ticks PROVE TickOK(t) /\ t.last = 0 /\ t.pc = "setup"
  <2>1. t = Called(0, "setup")
    BY <1>2 DEF Starting
  <2>2. t.pc = "setup"
    BY <2>1 DEF Called
  <2> QED BY <2>2, <1>1, <1>2, StartingOK
<1>7. \A t, u \in ticks : t = u
  BY <1>2 DEF Starting
<1>8. TicksOK
  BY <1>6, <1>7 DEF TicksOK
<1>9. /\ \A k, y : ~Tweeted(k, y)
      /\ \A a : ~Said(a)
  <2>1. \A s, k, y : ~(Announced(s, k, y) > 0)
    BY <1>3
  <2>2. \A k, y : ~Tweeted(k, y)
    BY <2>1 DEF Tweeted
  <2> QED BY <2>1, <2>2, <1>2 DEF Said
<1>10. ASSUME NEW a \in Ids PROVE Marks(a)
  <2>1. a \in Nat /\ a # 0
    BY DEF Ids
  <2>2. AuctionMark(a)
    BY <2>1, <1>4, <1>6, <1>9 DEF AuctionMark, Touched, HoldsAuction
  <2>3. SoonMark(a) /\ ThreadMark(a) /\ Threaded(a) /\ \A h : BidMark(a, h)
    BY <1>9 DEF SoonMark, ThreadMark, Threaded, BidMark
  <2>4. Once(a)
    BY <1>3 DEF Once
  <2> QED BY <2>2, <2>3, <2>4 DEF Marks
<1>11. AuctionsOK
  BY <1>6, <1>10 DEF AuctionsOK, Ids
<1>12. DaoOK /\ FlowsOK
  BY <1>2 DEF Init, EmptyStore, DaoOK, FlowsOK
<1>13. CachesOK
  BY <1>4 DEF CachesOK, CachedVoters
<1>14. \A p : ProposalInv(p)
  BY <1>2, <1>3 DEF ProposalInv, ProposalOnce, WarningOnce, VoteOnce
<1>15. RepliesOK
  BY <1>2 DEF RepliesOK
<1> QED BY <1>1, <1>2, <1>3, <1>5, <1>8, <1>11, <1>12, <1>13, <1>14, <1>15
        DEF Inv, AuctionsInv, GovernanceInv

LEMMA InvNext ==
  ASSUME Inv, [Next]_vars
  PROVE  Inv'
<1>1. CASE Environment /\ Overlaps
  BY <1>1, EnvironmentKeeps
<1>2. CASE ProcessAuctionTick /\ Overlaps
  BY <1>2, AuctionStepKeeps
<1>3. CASE (SetupGovernance \/ ProcessGovernanceTick) /\ Overlaps
  BY <1>3, GovernanceStepKeeps
<1>4. CASE UNCHANGED vars
  <2>1. /\ UNCHANGED <<redis, seeding, ticks, flows, posted, replies, lost, faults>>
        /\ UNCHANGED <<auctions, dao, now, crowded, contended>>
    BY <1>4 DEF vars, chainVars, auctionVars, governanceVars
  <2>2. ChainOK' /\ ChainGrows
    BY <2>1, SameChain, SameChainGrows DEF Inv, AuctionsInv
  <2>3. AuctionsApart
    BY <2>1, <2>2, SilentIsSame DEF Inv, AuctionsInv, RedisOK, AuctionsApart
  <2>4. DaoOK' /\ DaoGrows
    BY <2>1, SameDao DEF Inv, GovernanceInv
  <2>5. GovernanceApart
    BY <2>1, <2>4, QuietNews DEF Inv, GovernanceInv, CachesOK, GovernanceApart
  <2>6. RepliesOK'
    BY <2>1 DEF Inv, RepliesOK
  <2> QED BY <2>3, <2>5, <2>6, AuctionsApartKeeps, GovernanceApartKeeps DEF Inv
<1> QED BY <1>1, <1>2, <1>3, <1>4 DEF Next, Service

LEMMA InvIsTyped ==
  ASSUME Inv
  PROVE  TypeOK
<1>1. PICK n \in Nat : n = LastId /\ DOMAIN auctions = 1 .. n
  BY DEF Inv, AuctionsInv, ChainOK
<1>2. \A i \in 0 .. n : i \in {0} \cup DOMAIN auctions
  BY <1>1
<1>3. RedisOK /\ TicksOK
  BY DEF Inv, AuctionsInv
<1>4. /\ redis.auction \in {0} \cup DOMAIN auctions
      /\ redis.soon \in {0} \cup DOMAIN auctions
      /\ redis.thread \in {NoThread} \cup DOMAIN auctions
      /\ redis.bid \in Hashes \cup {NoBid}
  BY <1>1, <1>2, <1>3 DEF RedisOK, NoThread
<1>5. /\ \A t, u \in ticks : t.no = u.no => t = u
      /\ {t.last : t \in ticks} \subseteq {0} \cup DOMAIN auctions
  BY <1>1, <1>2, <1>3 DEF TicksOK, TickOK
<1>6. /\ redis.warned \subseteq DOMAIN dao.proposals
      /\ \A f, g \in flows : f.no = g.no /\ f.id = g.id => f = g
      /\ {f.id : f \in flows} \subseteq DOMAIN dao.proposals
      /\ IsABag(posted)
  BY DEF Inv, GovernanceInv, CachesOK, FlowsOK, FlowOK
<1> QED BY <1>4, <1>5, <1>6 DEF TypeOK

LEMMA InvAnnounces ==
  ASSUME Inv
  PROVE  AnnouncedOnce
<1>1. ASSUME NEW a \in AuctionIds \ crowded PROVE Once(a)
  BY BotsAssumption DEF Inv, AuctionsInv, AuctionsOK, Marks, Ids
<1>2. BidTweetedOnce /\ AuctionAnnouncedOnce
  BY <1>1 DEF BidTweetedOnce, AuctionAnnouncedOnce, Once
<1>3. GovernanceRepeats
  <2>1. faults + 1 = 1 + faults
    BY DEF Inv, GovernanceInv
  <2> QED BY <2>1 DEF Inv, GovernanceInv, ProposalInv, ProposalOnce, WarningOnce, VoteOnce,
                      GovernanceRepeats
<1> QED BY <1>2, <1>3, InvIsTyped DEF AnnouncedOnce

LEMMA InvThreads ==
  ASSUME Inv
  PROVE  RepliesInThread
<1> SUFFICES ASSUME NEW r \in replies, r[1] # r[2], r[1] \notin lost \cup crowded
             PROVE  Announced("twitter", "auction", r[1]) = 0
  BY DEF RepliesInThread
<1>1. r[1] \in Ids \ crowded
  BY DEF Inv, RepliesOK
<1>2. Threaded(r[1])
  BY <1>1 DEF Inv, AuctionsInv, AuctionsOK, Marks
<1>3. ~Tweeted("auction", r[1])
  BY <1>2 DEF Threaded
<1>4. Announced("twitter", "auction", r[1]) \in Nat
  BY AnnouncedType DEF Inv, AuctionsInv
<1> QED BY <1>3, <1>4 DEF Tweeted

\* However many ticks, setups and flows run at once: a bid, an auction and
\* its end are tweeted at most once, unless a function that saw the auction
\* ran together with another; and Discord hears of a proposal, a vote and an
\* expiry at most once more than the service failed or died, unless two
\* flows worked on the proposal at once.  setInterval of src/index.ts allows
\* both, and processAuctionTick and processGovernanceTick read the caches
\* before an await and write them after.
THEOREM AnnouncementsNotRepeated == Spec => []AnnouncedOnce
<1>1. Inv /\ [Next]_vars => Inv'
  BY InvNext
<1>2. Inv => AnnouncedOnce
  BY InvAnnounces
<1> QED BY InvInit, <1>1, <1>2, PTL DEF Spec

\* And a tweet about such an auction is in the thread of that auction,
\* unless the auction was never tweeted or its thread could not be written
\* down (src/handlers/twitter.ts, updateAuctionReplyTweetId).
THEOREM TweetsInTheirThread == Spec => []RepliesInThread
<1>1. Inv /\ [Next]_vars => Inv'
  BY InvNext
<1>2. Inv => RepliesInThread
  BY InvThreads
<1> QED BY InvInit, <1>1, <1>2, PTL DEF Spec
=============================================================================
