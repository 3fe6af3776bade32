CONSTANTS
  AuctionIds = {1, 2}
  Hashes = {1, 2}
  ProposalIds = {1}
  Voters = {v1}
  EndingSoon = 1
  GracePeriod = 2
  AtRisk = 1
  Duration = 1
  TimeBuffer = 2
  Delay = 0
  Sessions = {{"auctions"}, {"governance"}}
  MaxTicks = 2
  MaxOverlaps = 1
  MaxEvents = 2
  MaxFaults = 0
  MaxTime = 2
SPECIFICATION Spec
INVARIANT NeverDoubleTweeted
