\* Two nodes; delays of up to one more than the exact range of 0 to 3.
CONSTANTS
  Nodes = {n1, n2}
  Sizes <- TwoLevels
  Spans <- TwoSpans
  Delays = {0, 2, 4}
  MaxTime = 4
SPECIFICATION FairSpec
INVARIANTS OnOneList
PROPERTIES FiresOnTime NothingDueIsLeft TimersFire
