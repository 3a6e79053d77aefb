SPECIFICATION FairShopSpec
CONSTANTS
  Req = {r1, r2}
  NoReq = NoReq
  Sid = {s1, s2, s3, s4, s5}
  NoSid = NoSid
  Nonce = {n1, n2, n3, n4}
  NoNonce = NoNonce
  Proof = {p1, p2, p3}
  NoProof = NoProof
  Age = {21}
  MinAge = 21
  App = {empty, wine}
  NoApp = empty
  Restricted = {wine}
  StoreFails = FALSE
  SaveUninitialized = TRUE
  Card <- Cards
  Protocol <- UnsignedOnly
  GoogleConfigured = FALSE
  NonceTTL = 0
  ClaimTTL = 1
  RequestLimit = 1
  Disconnects = TRUE
  MaxRestarts = 0
  MaxTime = 1
  MaxMishaps = 1
  MaxOrders = 1
INVARIANTS
  ShopTypeOK
  OkMeansRecorded
  ProofOpensGate
  FreshProofPerOrder
PROPERTIES
  OrderGetsPlaced
  ChecksReturn
CHECK_DEADLOCK FALSE
