SPECIFICATION InputSpec
CONSTANTS
  Dirs = {"left", "right", "up"}
  Sides = {"l1", "r1"}
  Remote = {"left", "up", "l1", "a", "y", "start"}
  MaxHeld = 3
INVARIANTS ReleasedMeansStill NoTouchStuck
