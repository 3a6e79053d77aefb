SPECIFICATION FairSpec
CONSTANTS
  Req = {r1, r2}
  Sid = {s1, s2}
  NoSid = NoSid
  Nonce = {n1}
  NoNonce = NoNonce
  Proof = {p1}
  NoProof = NoProof
  Age = {21}
  App = {empty}
  NoApp = empty
  StoreFails = TRUE
  SaveUninitialized = TRUE
  Card <- AdultOnly
  Protocol <- UnsignedOnly
  GoogleConfigured = FALSE
  NonceTTL = 1
  ClaimTTL = 1
  RequestLimit = 1
  Disconnects = FALSE
  MaxRestarts = 0
  MaxTime = 2
INVARIANTS
  ClaimInv
  ClaimAccountedFor
PROPERTIES
  NoReuseWithinTTL
  ImplementsOneShot
  GrantedInTime
  RequestsComplete
  ClaimsSettle
