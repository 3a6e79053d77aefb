SPECIFICATION Spec
CONSTANTS
  Age = {13, 21}
  Now = 5
  Page <- Shop
  Site <- Sites
  Cards <- Wallets
  MaxChallenges = 2
INVARIANTS
  TypeOK
  HonestAnswerAccepted
  AsTheCeremonyHasIt
  SignedRequestsAnswerable
  VectorsAsStated
  DevWalletAsHinted
PROPERTIES
  ImplementsAgeCheck
