CONSTANTS
  Zero = Zero  Executor = Executor  DAO = DAO
  alice = alice  bob = bob
  Accounts = {alice, bob}
  Vetoer = bob
  Calls <- RunCalls
  ActionLists <- RunLists
  Ballots <- OpposedBallots
  DirectTxs <- AliceTxs
  Electorates <- EvenElectorate
  MinimumDelay = 1  MaximumDelay = 2  GracePeriod = 1  FirstDelay = 1
  MinVotingPeriod = 1  MaxVotingPeriod = 2  FirstVotingPeriod = 1
  MinVotingDelay = 1  MaxVotingDelay = 2  FirstVotingDelay = 1
  FirstThresholdBPS = 1000  FirstQuorumBPS = 2000
  BlockTimes = {1}
  MaxProposals = 2  MaxBlock = 7  MaxTime = 7  MaxDepth = 2
SPECIFICATION Spec
INVARIANTS
  OnlyPassedProposalsRun
  AllOrNothing
  StorageSound
  RunsOnceInTime
