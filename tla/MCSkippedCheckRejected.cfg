SPECIFICATION Spec
CONSTANTS
  Age = {18, 21}
  Presentation <- MCPresentation
  Report <- MCReport
INVARIANT
  SkippedCheckRejected
