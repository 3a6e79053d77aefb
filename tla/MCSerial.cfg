SPECIFICATION Spec
CONSTANTS
  Req = {r1}
  Sid = {s1, s2, s3}
  NoSid = NoSid
  Nonce = {n1, n2}
  NoNonce = NoNonce
  Proof = {p1, p2}
  NoProof = NoProof
  Age = {18, 21}
  App = {empty, cart}
  NoApp = empty
  StoreFails = FALSE
  SaveUninitialized = FALSE
  Card <- AllCards
  Protocol <- AllProtocols
  GoogleConfigured = TRUE
  NonceTTL = 1
  ClaimTTL = 1
  RequestLimit = 1
  Disconnects = FALSE
  MaxRestarts = 1
  MaxTime = 1
SYMMETRY Interchangeable
INVARIANTS
  TypeOK
  ChallengeSingleUse
  SpentProofForgotten
PROPERTIES
  GateSound
  AppDataCarried
  ImplementsOneShot
