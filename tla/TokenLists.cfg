CONSTANTS
  Zero = Zero
  Accounts = {alice, bob}
  Punks = {0, 1, 2, 3, 4}
  Slots = {0, 1, 2, 3, 4, 5}
SPECIFICATION Spec
INVARIANTS
  ListsSound
