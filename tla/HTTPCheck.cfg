SPECIFICATION FairSpec
CONSTANTS
  site = site
  other = other
  pub4 = pub4
  pub6 = pub6
  local = local
  gateway = gateway
  NoIP = NoIP
  NoURL = NoURL
  Hosts <- MCHosts
  PublicIP <- Public
  PrivateIP <- Private
  IP6 <- Six
  ProxyIP <- gateway
  Setups <- AllSetups
INVARIANTS
  ChainIsBounded
  RedirectsStayJudged
  HeadersGoOnce
  PolicyIsKept
  HopsTellOneStory
PROPERTIES
  CheckReturns
