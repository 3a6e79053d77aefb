SPECIFICATION Spec
CONSTANTS
  Req = {r1, r2}
  Sid = {s1, s2, s3}
  NoSid = NoSid
  Nonce = {n1, n2}
  NoNonce = NoNonce
  Proof = {p1}
  NoProof = NoProof
  Age = {18, 21}
  App = {empty}
  NoApp = empty
  StoreFails = TRUE
  SaveUninitialized = TRUE
  Card <- AdultOnly
  Protocol <- UnsignedOnly
  GoogleConfigured = FALSE
  NonceTTL = 1
  ClaimTTL = 1
  RequestLimit = 1
  Disconnects = TRUE
  MaxRestarts = 0
  MaxTime = 0
SYMMETRY Interchangeable
INVARIANTS
  BindingInv
  NoFixation
  SessionBound
PROPERTIES
  FreshHome
  GateSound
