\* Two requests at a time race over one sign-in; its user changes twice.
CONSTANTS
  Chain = {c1}
  Token = {t1, t2, t3, t4}
  Request = {p1, p2}
  Role = {writer, viewer}
  NoUser = nouser
  NoRequest = norequest
  CodeLifetime = 1
  AccessLifetime = 1
  RefreshLifetime = 1
  ChainLifetime = 1
  MaxTime = 2
  MaxRoleChanges = 2
SYMMETRY Symmetry
SPECIFICATION Spec
INVARIANTS TypeOK OneLivePerChain RevokedStaysRevoked TokensMatchRole ChainEnds
PROPERTIES ImplementsRefreshChain
