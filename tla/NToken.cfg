CONSTANTS
  Zero = Zero
  minter = minter  creators = creators
  h1 = h1  h2 = h2  h3 = h3  v1 = v1
  Accounts = {minter, creators}
  Owner = creators
  Punkers = creators
  Minter = minter
  Users = {minter, creators}
  PunkIds = {0, 1, 2}
  SeedHashes = {h1, h2, h3}
  RewardEvery = 2
  RewardLast = 0
  MinterChoices = {minter, creators}
  LockChoices = {"minter", "idShift", "ogHashes"}
  OGHashes = {h1, h2, h3}
  IdShifts = {0, 1}
  Versions = {v1}
SPECIFICATION TokenSpec
SYMMETRY Symmetry
INVARIANTS
  TokenSafe
PROPERTIES
  ApprovalsDieWithOwner
