CONSTANTS
  MaxFiles = 3
  MaxScore = 2
  MaxSubmissions = 2
SPECIFICATION Spec
INVARIANTS TypeOK SelectionExplained OrderedShowsBest ShownIsOfThisSubmission
PROPERTY SubmissionEnds
CHECK_DEADLOCK FALSE
