SPECIFICATION Spec
CONSTANTS
  Proxies <- GoodProxies
  AuthLen = 4
  RequestLen = 5
  NameLen = 2
INVARIANT DestroyedIsNotified
