SPECIFICATION BoundedSpec
CONSTANTS
  rm = rm
  ls = ls
  Boxes <- TwoBoxes
  NoBox = NoBox
  MaxTurns = 3
  Mishaps = {"empty", "beside", "rebound"}
INVARIANTS TypeOK EnterBudget
PROPERTIES StaysIsReported
