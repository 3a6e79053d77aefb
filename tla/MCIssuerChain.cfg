SPECIFICATION Spec
CONSTANTS
  Age = {21}
  Now = 5
  Certificate <- Certificates
  X5Chain <- Sent
  AnchorSet <- Pinned
INVARIANTS
  TypeOK
  AsRecognised
  AcceptedAlongValidPath
  StraightChainAccepted
