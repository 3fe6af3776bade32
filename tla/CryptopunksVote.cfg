CONSTANTS
  Zero = Zero
  WrappedPunk = WrappedPunk
  alice = alice  bob = bob  p1 = p1  p2 = p2
  Accounts = {alice, bob}
  Punks = {p1, p2}
  Traded = {p1}
  Operators <- MCOperators
  Signatures <- MCSignatures
  MaxBatch = 2
  Uint32Max = 2
SPECIFICATION Spec
INVARIANTS
  VotesExact
  PriorVotesAreHistory
  SignaturesUsedOnce
  BatchGivesNoRights
