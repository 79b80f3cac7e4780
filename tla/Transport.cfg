SPECIFICATION FairSpec
CONSTANTS
  Proxies <- AllProxies
  AuthLen = 4
  RequestLen = 5
  NameLen = 2
INVARIANTS TransportInv OpensExactly
PROPERTIES BeginsOrFails GrantedOpens
