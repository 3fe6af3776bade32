CONSTANTS
  Zero = Zero
  Accounts = {house, dao, creators, b1, b2}
  Owner = dao
  Punkers = creators
  Minter = house
  AuctionHouse = house
  Users = {}
  Bidders = {b1, b2}
  PunkIds = {0, 1, 2, 3}
  SeedHashes = {h1, h2, h3, h4}
  RewardEvery = 3
  RewardLast = 3
  MinterChoices = {house}
  LockChoices = {}
  OGHashes = {}
  IdShifts = {0, 1}
  Versions = {v1}
  Bids = {1, 2, 3}
  Funds = 4
  Duration = 2
  TimeBuffers = {1, 2}
  ReservePrices = {1, 2}
  Percentages = {50}
  MaxTime = 8
SPECIFICATION Spec
PROPERTIES
  AuctionNamesMintedPunk
