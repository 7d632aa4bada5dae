SPECIFICATION Spec
CONSTANTS
  Labs = {"lab1", "lab3_1", "lab3_2", "lab4"}
  OtherPins <- MCOtherPins
  Cuts = {2}
  Users = {u1, u2}
  Ids = {120, 119}
  StudentId = 3
  Quantities = {1}
  Shops = {"Dessert"}
  Names <- MCNames
  IntMax = 127
  MaxFrames = 1
INVARIANTS IInv NothingLeft PinsExclusive LitByWriter Dark DigitsShown
PROPERTY ReaderCatchesUp
CHECK_DEADLOCK FALSE
