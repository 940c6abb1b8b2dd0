SPECIFICATION FairSpec
CONSTANTS
  a = a
  b = b
  c = c
  NoIP = NoIP
  IP4 <- V4
  IP6 <- V6
  Setups <- AllSetups
INVARIANTS
  VerdictsAreEarned
  OneSelected
PROPERTIES
  NothingRunsBehind
  HappyEyeballs
  EndedCheckReturns
