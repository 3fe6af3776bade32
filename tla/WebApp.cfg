CONSTANTS
  Me = Me  bob = bob
  Bidders = {Me, bob}
  Period = 2
  Reserve = 2  Percentage = 50
  TimeBuffer = 2  Duration = 1
  MaxValue = 3  MaxBids = 1
  Routes <- MCRoutes
  LastAuction = 3
  SettleWait = 0
  StartBlock = 2  EndBlock = 3  QuorumVotes = 1
  TimelockDelay = 1  Grace = 2
  MySupports = {1}  PerCard = 1
  MaxBlock = 7  MaxSends = 2
  MaxBlocksPerCall = 3  LastBlock = 6
  Addresses = {"A", "B"}
  AbiOf <- MCAbiOf
  FileAbi = {"f", "g"}
  MaxFetches = 2  MaxTransactions = 1  MaxProposes = 2
  Accounts = {"A", "B"}  Names = {"a.eth", "b"}
  ResolveName <- MCResolveName
  Balance = 2
  MaxTyped = 2  MaxDelegations = 3
  Holders = {"A"}  AboveFold = 2  VotingPeriod = 2  MaxHistory = 2
SPECIFICATION Spec
CHECK_DEADLOCK FALSE
INVARIANTS
  StoreFollowsChain
  AuctionShownRight
  ActivityExact
  VotePageExact
  LogsComplete
  ProposeFormExact
  DelegatePanelExact
PROPERTIES
  SuccessIsReal
  SpinnerEnds
  LogsSync
