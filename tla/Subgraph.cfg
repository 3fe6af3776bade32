CONSTANTS
  Zero = Zero  Owner = Owner  Wrapper = Wrapper
  Holders = {alice, bob}
  Punks = {p1, p2}
  OGPunks = {0}
  MaxTxs = 6
SPECIFICATION Spec
CHECK_DEADLOCK FALSE
INVARIANTS
  EntitiesExact
