SPECIFICATION Spec
CONSTANTS
  rm = rm
  ls = ls
  Boxes <- TwoBoxes
  NoBox = NoBox
  MaxTurns = 1
  Mishaps = {"empty"}
INVARIANTS ReturnedOnce
