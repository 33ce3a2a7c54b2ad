SPECIFICATION Spec
CONSTANTS
  Handlers = {h1}
  Games = {g1, g2}
  None = None
INVARIANT
  OwnsEveryGame
