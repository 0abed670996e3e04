SPECIFICATION MCSpec
CONSTANTS
  Token = {"a", "b", "c", "d"}
  Pool = {1, 2, 3, 4, 5}
  Ends <- MCEnds
  Class <- MCClass
  MaxHops = 2
  FeeBps = {10, 20}
  Start <- MCStart
  Way = {"ab", "ba"}
  NoWay = "none"
  Amount = {1, 2}
  Budget <- MCBudget
  MaxSends = 3
INVARIANTS
  TypeOK
  ShortestRoute
  FeeOfRequest
  TradesWhatWasShown
  OneSwapAtATime
  ReportedOnce
PROPERTY
  AnswersSpec
CHECK_DEADLOCK FALSE
