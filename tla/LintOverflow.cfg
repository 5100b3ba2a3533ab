\* Two aliases whose parameters have the same name.
SPECIFICATION Spec
CONSTANTS
  Batches <- SharedNameBatches
  Visits <- FileVisits
  Environment <- FileEnvironment
  Outcomes <- RuleOutcomes
  MaxExpansions = 4
INVARIANTS UnsafeDictionariesAreReported
CHECK_DEADLOCK FALSE
