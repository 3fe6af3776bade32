CONSTANTS
  Zero = Zero
  alice = alice  bob = bob 
  p1 = p1  p2 = p2 
  Accounts = {alice, bob}
  Punks = {p1, p2}
  Signatures <- ZeroSignatures
  MaxBlock = 3
SPECIFICATION Spec
INVARIANT
  VotesMatchHoldings
