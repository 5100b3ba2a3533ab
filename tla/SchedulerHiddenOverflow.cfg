\* Two far timers: the one behind the head of the overflow list is due first.
CONSTANTS
  Nodes = {n1, n2}
  Sizes <- TwoLevels
  Spans <- TwoSpans
  Delays = {5, 9}
  MaxTime = 9
SPECIFICATION Spec
PROPERTIES NothingDueIsLeft
