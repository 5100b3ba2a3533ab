\* Files of one to nine statements; see MCLint for the families.
SPECIFICATION Spec
CONSTANTS
  Batches <- LintBatches
  Visits <- FileVisits
  Environment <- FileEnvironment
  Outcomes <- RuleOutcomes
  MaxExpansions = 4
INVARIANTS FilesAreIndependent AliasesAreTransparent UnsafeDictionariesAreReported
           UnknownInputsAreReported KnownSubjectsAreReported
           RecreatedWasReportedLost NoGapBetweenAssertionRules
CHECK_DEADLOCK FALSE
