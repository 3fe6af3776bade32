------------------------------- MODULE Bots ---------------------------------
(***************************************************************************)
(* The notification service (packages/punks-bots/src): two timers poll the *)
(* subgraph, compare what they get with what Redis remembers and post what *)
(* is new.  The service may crash at any await and starts again with what  *)
(* is in Redis; what is awaited may fail, and then the function is over.   *)
(*                                                                         *)
(* A step is what runs between two awaits; counters are left out.          *)
(* setInterval waits neither for the setup functions nor for the tick      *)
(* before: setupAuction and the ticks of the auctions that are running are *)
(* records in `ticks`, with a field for each variable of the function.     *)
(* The work of a governance tick, or of setupGovernance, on one proposal   *)
(* is a record in `flows`.                                                 *)
(*                                                                         *)
(* A tweet is modelled by the auction whose thread it is in.               *)
(***************************************************************************)
EXTENDS SubgraphAuction, SubgraphDAO, Bags, FiniteSets

CONSTANTS
  AuctionIds,      \* ids of auctions, 1 .. n
  Hashes,          \* transaction hashes of bids, 1 .. n; only compared, so
                   \* it does no harm that they are used in order
  ProposalIds,
  Voters,
  EndingSoon,      \* 20 minutes
  GracePeriod,     \* 14 days
  AtRisk,          \* 2 days
  Duration,        \* of an auction
  TimeBuffer,      \* a bid leaves an auction at least this time
  Delay,           \* of the timelock
  Sessions,        \* which services a behaviour has: sets of "auctions",
                   \* "governance".  They share no part of Redis.
  MaxTicks,        \* bound on the ticks of a service running at once
  MaxOverlaps,     \* bound on how often a timer fires too early for what it
                   \* started before
  MaxEvents,       \* bound on events of the chain
  MaxFaults,       \* bound on crashes and failed posts
  MaxTime          \* bound on the clock

ASSUME BotsAssumption ==
  /\ AuctionIds \subseteq Nat \ {0}
  /\ Hashes \subseteq Nat \ {0}
  /\ \A n \in {EndingSoon, GracePeriod, AtRisk, Duration, TimeBuffer, Delay,
               MaxTicks, MaxOverlaps, MaxEvents, MaxFaults, MaxTime} : n \in Nat
  /\ AtRisk <= GracePeriod
  /\ Sessions \subseteq SUBSET {"auctions", "governance"}

VARIABLES
  auctions,        \* Auction entities of the subgraph
  dao,             \* Proposal and Vote entities of the subgraph
  events,          \* events of the chain so far
  now,
  session,         \* the services of this behaviour, in Sessions
  redis,           \* what survives a crash
  seeding,         \* setupGovernance has not got the proposals yet
  ticks, flows,    \* functions that are running
  posted,          \* bag of the messages that went out
  replies,         \* history: <<auction of a reply, thread it is in>>
  lost,            \* history: auctions whose thread was not written down
  seeded,          \* history: proposals that a setup put in the cache
  crowded,         \* history: auctions that a function worked on while
                   \* another one ran
  contended,       \* history: proposals that two functions worked on at once
  overlaps,        \* how often something was started beside what ran
  faults           \* crashes and failures so far

chainVars == <<auctions, dao, events, now, session>>
auctionVars == <<ticks, replies, lost>>
governanceVars == <<flows, seeding, seeded>>
vars == <<chainVars, redis, auctionVars, governanceVars, posted, faults,
          crowded, contended, overlaps>>

Platforms == {"twitter", "discord"}
NoBid == 0
NoThread == 0

-----------------------------------------------------------------------------
(* The chain, as the subgraph shows it.                                    *)

Chain ==
  /\ events < MaxEvents
  /\ events' = events + 1
  /\ UNCHANGED <<now, session, redis, auctionVars, governanceVars, posted,
                 faults>>

LastId == Cardinality(DOMAIN auctions)
HashesOf(a) == {a.bids[k].hash : k \in DOMAIN a.bids}
UsedHashes == UNION {HashesOf(auctions[i]) : i \in DOMAIN auctions}
Running == LastId > 0 /\ ~auctions[LastId].settled

CreateAuction ==
  /\ Chain
  /\ "auctions" \in session
  /\ LastId + 1 \in AuctionIds
  /\ ~Running
  /\ auctions' = HandleAuctionCreated(auctions, AuctionIds,
                   [id |-> LastId + 1, start |-> now, end |-> now + Duration])
  /\ UNCHANGED dao

\* A bid, which extends the auction if little time is left.
CreateBid(hash) ==
  /\ Chain
  /\ Running
  /\ now < auctions[LastId].end
  /\ hash \notin UsedHashes
  /\ LET bid == HandleAuctionBid(auctions,
                  [id |-> LastId, sender |-> "bidder", value |-> now,
                   hash |-> hash, time |-> now])
     IN auctions' = IF auctions[LastId].end - now < TimeBuffer
                    THEN HandleAuctionExtended(bid,
                           [id |-> LastId, end |-> now + TimeBuffer])
                    ELSE bid
  /\ UNCHANGED dao

SettleAuction ==
  /\ Chain
  /\ Running
  /\ now >= auctions[LastId].end
  /\ auctions' = HandleAuctionSettled(auctions, [id |-> LastId])
  /\ UNCHANGED dao

Status(p) == dao.proposals[p].status

Propose(p) ==
  /\ Chain
  /\ "governance" \in session
  /\ p \notin DOMAIN dao.proposals
  /\ dao' = HandleProposalCreated(dao,
              [id |-> p, proposer |-> "proposer", block |-> 0,
               startBlock |-> 1, endBlock |-> 2, quorumVotes |-> 1])
  /\ UNCHANGED auctions

CastVote(p, v, votes) ==
  /\ Chain
  /\ p \in DOMAIN dao.proposals
  /\ Status(p) \in {"PENDING", "ACTIVE"}
  /\ <<v, p>> \notin DOMAIN dao.votes
  /\ dao' = HandleVoteCast(dao, [id |-> p, voter |-> v, support |-> 1,
                                 votes |-> votes])
  /\ UNCHANGED auctions

Decide(p) ==
  /\ Chain
  /\ p \in DOMAIN dao.proposals
  /\ \/ Status(p) = "ACTIVE"
        /\ dao' = HandleProposalQueued(dao, [id |-> p, eta |-> now + Delay])
     \/ Status(p) = "QUEUED" /\ now >= dao.proposals[p].eta
        /\ dao' = HandleProposalExecuted(dao, [id |-> p])
     \/ Status(p) \in {"PENDING", "ACTIVE", "QUEUED"}
        /\ dao' \in {HandleProposalCanceled(dao, [id |-> p]),
                     HandleProposalVetoed(dao, [id |-> p])}
  /\ UNCHANGED auctions

Tick ==
  /\ now < MaxTime
  /\ now' = now + 1
  /\ UNCHANGED <<auctions, dao, events, session, redis, auctionVars,
                 governanceVars, posted, faults>>

-----------------------------------------------------------------------------
(* Posting.                                                                *)

Message(platform, kind, x) == <<platform, kind, x>>
Copies(m, bag) == IF BagIn(m, bag) THEN bag[m] ELSE 0
Announced(platform, kind, x) == Copies(Message(platform, kind, x), posted)

Fault(ok) ==
  /\ ok \/ faults < MaxFaults
  /\ faults' = IF ok THEN faults ELSE faults + 1

Send(kind, x, sent) ==
  posted' = posted (+) SetToBag({Message(s, kind, x) : s \in sent})

-----------------------------------------------------------------------------
(* Auctions: setupAuction and processAuctionTick.                          *)

Step(t, u) == ticks' = (ticks \ {t}) \cup (IF u.pc = "done" THEN {} ELSE {u})

\* What a step of a tick leaves alone that posts nothing.
AuctionsOnly == UNCHANGED <<chainVars, governanceVars>>
Silent == AuctionsOnly /\ UNCHANGED <<posted, replies, lost, faults>>

\* The first number that nothing running has.
Free(n, running) ==
  \A m \in 1 .. n : m = n <=> m \notin {x.no : x \in running}

Called(no, pc) ==
  [no |-> no, pc |-> pc, auction |-> 0, bid |-> NoBid, soon |-> 0,
   last |-> 0, lastBid |-> NoBid, end |-> 0, thread |-> NoThread, ok |-> TRUE]

\* The timer fires, and the first cache is read.
StartTick ==
  \E n \in 1 .. MaxTicks :
    /\ Free(n, ticks)
    /\ ticks' = ticks \cup {[Called(n, "bidCache") EXCEPT !.auction = redis.auction]}
    /\ Silent /\ UNCHANGED redis

ReadBidCache(t) ==
  /\ t.pc = "bidCache"
  /\ Step(t, [t EXCEPT !.pc = "soonCache", !.bid = redis.bid])
  /\ Silent /\ UNCHANGED redis

ReadEndingSoonCache(t) ==
  /\ t.pc = "soonCache"
  /\ Step(t, [t EXCEPT !.pc = "fetch", !.soon = redis.soon])
  /\ Silent /\ UNCHANGED redis

\* getLastAuctionBids: the last auction and its last bid.  Without an
\* auction the function fails.
Fetched(t, pc) ==
  IF LastId = 0 THEN [t EXCEPT !.pc = "done"]
  ELSE LET a == auctions[LastId] IN
       [t EXCEPT !.pc = pc, !.last = LastId, !.end = a.end,
                 !.lastBid = IF a.bids = <<>> THEN NoBid
                             ELSE a.bids[Len(a.bids)].hash]

GetLastAuctionBids(t) ==
  /\ t.pc = "fetch"
  /\ Step(t, Fetched(t, "auction"))
  /\ Silent /\ UNCHANGED redis

\* The last auction goes into the cache, announced or not.
SetupAuction(t) ==
  \/ /\ t.pc = "setup"
     /\ Step(t, Fetched(t, "seed"))
     /\ Silent /\ UNCHANGED redis
  \/ /\ t.pc = "seed"
     /\ Step(t, [t EXCEPT !.pc = "done"])
     /\ redis' = [redis EXCEPT !.auction = t.last]
     /\ Silent

\* A write of one cache before the post; skipped if nothing is new.  The
\* tick's copy of the cache is not used any more, and forgotten.
UpdateCache(t, from, to, skip, new, field, value) ==
  /\ t.pc = from
  /\ Step(t, [t EXCEPT !.pc = IF new THEN to ELSE skip, ![field] = 0])
  /\ redis' = IF new THEN [redis EXCEPT ![field] = value] ELSE redis
  /\ Silent

UpdateAuctionCache(t) ==
  UpdateCache(t, "auction", "newAuction", "bid", t.auction < t.last,
              "auction", t.last)

\* The post of the handlers.  If one of them fails the tick is over, but
\* Twitter's handler still writes down the thread of its tweet.
Post(t, kind, x, sent, ok, thread, write, next) ==
  /\ Fault(ok)
  /\ Send(kind, x, sent)
  /\ Step(t, IF "twitter" \in sent
             THEN [t EXCEPT !.pc = write, !.thread = thread, !.ok = ok]
             ELSE [t EXCEPT !.pc = IF ok THEN next ELSE "done"])
  /\ AuctionsOnly

\* handleNewAuction of both handlers.  Without an image nothing is sent.
HandleNewAuction(t) ==
  /\ t.pc = "newAuction"
  /\ \E ok \in BOOLEAN, sent \in SUBSET Platforms :
       /\ ~ok => sent # Platforms
       /\ Post(t, "auction", t.last, sent, ok, t.last, "newThread", "bid")
  /\ UNCHANGED <<redis, replies, lost>>

\* Twitter's other handlers read the thread that is written down.
ReadThread(t, from, to) ==
  /\ t.pc = from
  /\ Step(t, [t EXCEPT !.pc = to, !.thread = redis.thread])
  /\ Silent /\ UNCHANGED redis

\* They reply in it, or not at all if there is none.
Reply(t, from, kind, x, handlers, write, next) ==
  LET can == IF t.thread = NoThread THEN handlers \ {"twitter"}
             ELSE handlers
  IN /\ t.pc = from
     /\ \E ok \in BOOLEAN, sent \in SUBSET can :
          /\ IF ok THEN sent = can ELSE can # {}
          /\ Post(t, kind, x, sent, ok, t.thread, write, next)
          /\ replies' = IF "twitter" \in sent
                        THEN replies \cup {<<t.last, t.thread>>} ELSE replies
     /\ UNCHANGED <<redis, lost>>

\* Variant: the thread is written down once and for all.
WriteThreadOnce(t, from, next) ==
  /\ t.pc = from
  /\ redis' = IF redis.thread = NoThread
              THEN [redis EXCEPT !.thread = t.thread] ELSE redis
  /\ Step(t, [t EXCEPT !.pc = IF t.ok THEN next ELSE "done",
                      !.thread = NoThread])
  /\ Silent

\* updateAuctionReplyTweetId, after a tweet, and Twitter's handler is done.
WriteThread(t, from, next) ==
  /\ t.pc = from
  /\ redis' = [redis EXCEPT !.thread = t.thread]
  /\ Step(t, [t EXCEPT !.pc = IF t.ok THEN next ELSE "done",
                      !.thread = NoThread])
  /\ Silent

\* Variant: the cache is compared but not written.
UpdateBidCacheNever(t) ==
  UpdateCache(t, "bid", "newBid", "soon",
              t.lastBid # NoBid /\ t.bid # t.lastBid, "bid", t.bid)

UpdateBidCache(t) ==
  UpdateCache(t, "bid", "newBid", "soon",
              t.lastBid # NoBid /\ t.bid # t.lastBid, "bid", t.lastBid)

HandleNewBid(t) ==
  \/ ReadThread(t, "newBid", "replyBid")
  \/ Reply(t, "replyBid", "bid", <<t.last, t.lastBid>>, Platforms,
           "bidThread", "soon")

UpdateAuctionEndingSoonCache(t) ==
  UpdateCache(t, "soon", "endingSoon", "done",
              t.end - now < EndingSoon /\ t.soon < t.last, "soon", t.last)

HandleAuctionEndingSoon(t) ==
  \/ ReadThread(t, "endingSoon", "replySoon")
  \/ Reply(t, "replySoon", "endingSoon", t.last, {"twitter"},
           "soonThread", "done")

\* What these functions wait for can fail.  A tweet whose thread is not
\* written down is there all the same.
Forgotten(ts) == {t.last : t \in {u \in ts : u.pc = "newThread"}}

TickFails(t) ==
  /\ Fault(FALSE)
  /\ ticks' = ticks \ {t}
  /\ lost' = lost \cup Forgotten({t})
  /\ AuctionsOnly /\ UNCHANGED <<redis, posted, replies>>

ProcessAuctionTick ==
  \/ StartTick
  \/ \E t \in ticks :
       \/ SetupAuction(t)
       \/ ReadBidCache(t)
       \/ ReadEndingSoonCache(t)
       \/ GetLastAuctionBids(t)
       \/ UpdateAuctionCache(t)
       \/ HandleNewAuction(t)
       \/ WriteThread(t, "newThread", "bid")
       \/ UpdateBidCache(t)
       \/ HandleNewBid(t)
       \/ WriteThread(t, "bidThread", "soon")
       \/ UpdateAuctionEndingSoonCache(t)
       \/ HandleAuctionEndingSoon(t)
       \/ WriteThread(t, "soonThread", "done")
       \/ TickFails(t)

-----------------------------------------------------------------------------
(* Governance: setupGovernance and processGovernanceTick.                  *)

\* getAllProposals: the part of a proposal that the service looks at.
Proposal(p) ==
  [status |-> Status(p), eta |-> dao.proposals[p].eta,
   votes |-> {<<v, dao.votes[<<v, p>>].votes>> :
                v \in {w \in Voters : <<w, p>> \in DOMAIN dao.votes}}]

\* What a step of a flow leaves alone, and one that posts nothing.
GovernanceOnly == UNCHANGED <<chainVars, auctionVars>>
Quiet == GovernanceOnly /\ UNCHANGED <<posted, faults>>

\* A flow knows what the cache had of its proposal when it read it.
Flow(no, p, pc) == [no |-> no, id |-> p, pc |-> pc, new |-> Proposal(p),
                    cached |-> Proposal(p)]
StartFlows(no, pc) ==
  flows' = flows \cup {Flow(no, p, pc) : p \in DOMAIN dao.proposals}

\* Proposals that are there when the service starts are never new.
SetupGovernance ==
  /\ seeding
  /\ seeding' = FALSE
  /\ StartFlows(0, "save")
  /\ Quiet /\ UNCHANGED <<redis, seeded>>

StartGovernanceTick ==
  \E n \in 1 .. MaxTicks :
    /\ Free(n, flows)
    /\ StartFlows(n, "start")
    /\ Quiet /\ UNCHANGED <<redis, seeding, seeded>>

Continue(f, pc) ==
  flows' = (flows \ {f})
           \cup (IF pc = "done" THEN {} ELSE {[f EXCEPT !.pc = pc]})

\* getProposalCache: null for a proposal that is new.
GetProposalCache(f) ==
  /\ f.pc = "start"
  /\ IF f.id \notin DOMAIN redis.proposals THEN Continue(f, "new")
     ELSE LET old == redis.proposals[f.id] IN
          flows' = (flows \ {f})
                   \cup {[f EXCEPT !.cached = old,
                                   !.pc = IF old.status # f.new.status
                                          THEN "status" ELSE "votes"]}
  /\ Quiet /\ UNCHANGED <<redis, seeding, seeded>>

\* Only Discord handles governance.  Both outcomes of one awaited post.
PostAwaited(f, pc, kind, x, next) ==
  /\ f.pc = pc
  /\ \E ok \in BOOLEAN :
       /\ Fault(ok)
       /\ Send(kind, x, IF ok THEN {"discord"} ELSE {})
       /\ Continue(f, IF ok THEN next ELSE "done")
  /\ GovernanceOnly /\ UNCHANGED <<redis, seeding, seeded>>

\* Variant: the cache is written even if the post failed.
HandleNewProposalOnce(f) ==
  /\ f.pc = "new"
  /\ \E ok \in BOOLEAN :
       Fault(ok) /\ Send("proposal", f.id, IF ok THEN {"discord"} ELSE {})
  /\ Continue(f, "save")
  /\ GovernanceOnly /\ UNCHANGED <<redis, seeding, seeded>>

HandleNewProposal(f) == PostAwaited(f, "new", "proposal", f.id, "save")

HandleUpdatedProposalStatus(f) ==
  PostAwaited(f, "status", "status", <<f.id, f.new.status>>, "votes")

ExtractNewVotes(before, after) ==
  {v \in after.votes : v[2] > 0 /\ v[1] \notin {w[1] : w \in before.votes}}

IsAtRiskOfExpiry(p) ==
  /\ p.status = "QUEUED"
  /\ p.eta + GracePeriod - now > 0
  /\ p.eta + GracePeriod - now <= AtRisk

\* Nobody waits for these posts; one that fails is never tried again.
HandleGovernanceVotes(f) ==
  /\ f.pc = "votes"
  /\ LET votes == ExtractNewVotes(f.cached, f.new) IN
     \E sent \in SUBSET votes :
       /\ Fault(sent = votes)
       /\ posted' = posted (+)
            SetToBag({Message("discord", "vote", <<f.id, v[1]>>) : v \in sent})
  /\ Continue(f, IF IsAtRiskOfExpiry(f.new) THEN "risk" ELSE "save")
  /\ GovernanceOnly /\ UNCHANGED <<redis, seeding, seeded>>

HasWarnedOfExpiry(f) ==
  /\ f.pc = "risk"
  /\ Continue(f, IF f.id \in redis.warned THEN "save" ELSE "atRisk")
  /\ Quiet /\ UNCHANGED <<redis, seeding, seeded>>

HandleProposalAtRiskOfExpiry(f) ==
  PostAwaited(f, "atRisk", "atRisk", f.id, "warned")

SetProposalExpiryWarningSent(f) ==
  /\ f.pc = "warned"
  /\ redis' = [redis EXCEPT !.warned = @ \cup {f.id}]
  /\ Continue(f, "save")
  /\ Quiet /\ UNCHANGED <<seeding, seeded>>

\* The end of a flow of a tick, and all there is to one of setupGovernance.
UpdateProposalCache(f) ==
  /\ f.pc = "save"
  /\ redis' = [redis EXCEPT !.proposals =
                 [p \in DOMAIN @ \cup {f.id} |->
                    IF p = f.id THEN f.new ELSE @[p]]]
  /\ seeded' = IF f.no = 0 THEN seeded \cup {f.id} ELSE seeded
  /\ Continue(f, "done")
  /\ Quiet /\ UNCHANGED seeding

FlowFails(f) ==
  /\ Fault(FALSE)
  /\ flows' = flows \ {f}
  /\ GovernanceOnly /\ UNCHANGED <<redis, seeding, seeded, posted>>

ProcessGovernanceTick ==
  \/ StartGovernanceTick
  \/ \E f \in flows :
       \/ GetProposalCache(f)
       \/ HandleNewProposal(f)
       \/ HandleUpdatedProposalStatus(f)
       \/ HandleGovernanceVotes(f)
       \/ HasWarnedOfExpiry(f)
       \/ HandleProposalAtRiskOfExpiry(f)
       \/ SetProposalExpiryWarningSent(f)
       \/ UpdateProposalCache(f)
       \/ FlowFails(f)

-----------------------------------------------------------------------------

\* setupAuction and setupGovernance run with the first ticks.
Starting == {Called(0, "setup")}

\* The process dies and is started again: Redis is what is left.
Restart ==
  /\ Fault(FALSE)
  /\ ticks' = Starting /\ flows' = {} /\ seeding' = TRUE
  /\ lost' = lost \cup Forgotten(ticks)
  /\ UNCHANGED <<chainVars, redis, posted, replies, seeded>>

Init ==
  /\ auctions = <<>> /\ dao = EmptyStore /\ events = 0 /\ now = 0
  /\ session \in Sessions
  /\ redis = [auction |-> 0, bid |-> NoBid, soon |-> 0, thread |-> NoThread,
              proposals |-> <<>>, warned |-> {}]
  /\ ticks = Starting /\ flows = {} /\ seeding = TRUE
  /\ posted = EmptyBag /\ replies = {} /\ lost = {}
  /\ seeded = {} /\ crowded = {} /\ contended = {}
  /\ overlaps = 0 /\ faults = 0

Environment ==
  \/ CreateAuction
  \/ \E hash \in Hashes :
       /\ \A h \in Hashes : h < hash => h \in UsedHashes
       /\ CreateBid(hash)
  \/ SettleAuction
  \/ \E p \in ProposalIds :
       Propose(p) \/ Decide(p)
       \/ \E v \in Voters, n \in 0 .. 1 : CastVote(p, v, n)
  \/ Tick
  \/ Restart

\* The histories of what ran at once.
Together(ts) ==
  IF \E t, u \in ts : t # u THEN {t.last : t \in ts} \ {0} ELSE {}
Shared(fs) == {f.id : f \in {g \in fs : \E h \in fs \ {g} : h.id = g.id}}

\* What still runs is joined by something new.
Joined(before, after) ==
  /\ before \cap after # {}
  /\ {x.no : x \in after} \ {x.no : x \in before} # {}

Overlaps ==
  /\ crowded' = crowded \cup Together(ticks')
  /\ contended' = contended \cup Shared(flows')
  /\ overlaps' = overlaps + IF Joined(ticks, ticks') \/ Joined(flows, flows')
                           THEN 1 ELSE 0
  /\ overlaps' <= MaxOverlaps

Service ==
  \/ "auctions" \in session /\ ProcessAuctionTick
  \/ "governance" \in session /\ (SetupGovernance \/ ProcessGovernanceTick)

Next == (Environment \/ Service) /\ Overlaps

\* The event loop runs what is ready and the timers fire again and again.
Fairness ==
  /\ WF_vars("governance" \in session /\ SetupGovernance /\ Overlaps)
  /\ WF_vars("governance" \in session /\ ProcessGovernanceTick /\ Overlaps)
Spec == Init /\ [][Next]_vars /\ Fairness

-----------------------------------------------------------------------------
(* Properties                                                              *)

TypeOK ==
  /\ redis.auction \in {0} \cup DOMAIN auctions
  /\ redis.soon \in {0} \cup DOMAIN auctions
  /\ redis.thread \in {NoThread} \cup DOMAIN auctions
  /\ redis.bid \in Hashes \cup {NoBid}
  /\ redis.warned \subseteq DOMAIN dao.proposals
  /\ \A t, u \in ticks : t.no = u.no => t = u
  /\ {t.last : t \in ticks} \subseteq {0} \cup DOMAIN auctions
  /\ \A f, g \in flows : f.no = g.no /\ f.id = g.id => f = g
  /\ {f.id : f \in flows} \subseteq DOMAIN dao.proposals
  /\ IsABag(posted)

\* A bid is tweeted at most once, whatever fails and wherever the service
\* dies (handlers/twitter.ts: the cache is written before the tweet "to
\* ensure we do not double tweet a bid"), unless a tick or a setup that saw
\* its auction ran together with another one.
BidTweetedOnce ==
  \A a \in AuctionIds \ crowded, h \in Hashes :
    Announced("twitter", "bid", <<a, h>>) <= 1

\* So are an auction, on either platform, and the call that it ends soon.
AuctionAnnouncedOnce ==
  \A a \in AuctionIds \ crowded :
    /\ \A s \in Platforms : Announced(s, "auction", a) <= 1
    /\ Announced("twitter", "endingSoon", a) <= 1

\* A tweet about an auction is in that auction's thread, unless the auction
\* was never tweeted (no image, the post failed, or the service was down and
\* setupAuction skipped it), its thread could not be written down, or a
\* function that saw the auction ran together with another one.
RepliesInThread ==
  \A r \in replies :
    r[1] # r[2] =>
      \/ r[1] \in lost \cup crowded
      \/ Announced("twitter", "auction", r[1]) = 0

\* Discord hears of a proposal, of each vote and of an expiry once, and once
\* more at most for each failure or crash: these caches are written last.
\* That is, unless two flows worked on the proposal at once.
GovernanceRepeats ==
  \A p \in ProposalIds \ contended :
    /\ Announced("discord", "proposal", p) <= 1 + faults
    /\ Announced("discord", "atRisk", p) <= 1 + faults
    /\ \A v \in Voters : Announced("discord", "vote", <<p, v>>) <= 1 + faults

\* Nothing is announced more often than the order of post and cache allows,
\* except what ticks that overlap announce.
AnnouncedOnce ==
  TypeOK /\ BidTweetedOnce /\ AuctionAnnouncedOnce /\ GovernanceRepeats

\* What the comment of handlers/twitter.ts says, without the exception.
NeverDoubleTweeted ==
  \A a \in AuctionIds, h \in Hashes :
    Announced("twitter", "bid", <<a, h>>) <= 1

\* A proposal that no setup put in the cache is announced in the end: what
\* fails is tried again, also when ticks overlap.
ProposalsAnnounced ==
  \A p \in ProposalIds :
    (p \in DOMAIN dao.proposals)
      ~> (p \in seeded \/ Announced("discord", "proposal", p) > 0)
=============================================================================
