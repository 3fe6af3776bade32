CONSTANTS
  Zero = Zero
  Accounts = {house, dao, creators, b1, b2}
  Owner = dao
  Punkers = creators
  Minter = house
  AuctionHouse = house
  Users = {}
  Bidders = {b1, b2}
  PunkIds = {0, 1, 2}
  SeedHashes = {h1, h2, h3}
  RewardEvery = 2
  RewardLast = 0
  MinterChoices = {house, b1}
  LockChoices = {}
  OGHashes = {}
  IdShifts = {0}
  Versions = {v1}
  Bids = {2, 3, 4}
  Funds = 4
  Duration = 2
  TimeBuffers = {1, 2}
  ReservePrices = {1, 3}
  Percentages = {50}
  MaxTime = 20
SPECIFICATION FairSpec
INVARIANTS
  MoneyExact
  Custody
  RewardsNotAuctioned
PROPERTIES
  IsEnglishAuction
  EveryAuctionSettles
