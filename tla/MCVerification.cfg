SPECIFICATION Spec
CONSTANTS
  Age = {18, 21}
  Presentation <- MCPresentation
  Report <- MCReport
INVARIANTS
  TypeOK
  FailClosed
  VerdictsDiscloseInOrder
  UnexplainedThrowRejected
PROPERTY
  FailureHelpsOnlyToExplain
