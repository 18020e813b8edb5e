\* Two requests update the configuration at once and may be dropped.
CONSTANTS
  s1 = s1
  a1 = a1
  Request = {r1, r2}
  Secret = {s1}
  Keep = keep
  NoSecret = noSecret
  Address = {a1}
  NoAddress = noAddress
  Input <- Inputs
  NoRequest = noRequest
  MaxUpdates = 4
SPECIFICATION Spec
INVARIANTS TypeOK Settled SomebodyCanSignIn
PROPERTIES SecretPreserved
SYMMETRY RequestSymmetry
