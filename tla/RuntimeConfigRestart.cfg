\* An accepted configuration under which the server does not start again.
CONSTANTS
  s1 = s1
  a1 = a1
  Request = {r1}
  Secret = {s1}
  Keep = keep
  NoSecret = noSecret
  Address = {a1}
  NoAddress = noAddress
  Input <- Inputs
  NoRequest = noRequest
  MaxUpdates = 3
SPECIFICATION UnattendedSpec
INVARIANT ComesBack
