\* Two browsers, two addresses, two requests at a time, two mails.
CONSTANTS
  Browser = {b1, b2}
  Address = {a1, a2}
  Request = {p1, p2}
  NoRequest = norequest
  NoRow = norow
  NoOne = noone
  SessionLifetime = 1
  OtpLifetime = 2
  OtpCooldown = 1
  InviteLifetime = 2
  MaxAttempts = 1
  MaxTime = 2
  MaxMails = 2
SYMMETRY Symmetry
SPECIFICATION Spec
INVARIANTS TypeOK SubjectIsProven SameBrowser AttemptsBounded
PROPERTY ImplementsSignIn
