\* One request at a time: what docs/AUTH.md promises of each handler.
SPECIFICATION Spec
CONSTANTS
  Users = {alice, bob}
  Passwords = {p1, p2}
  Tokens = {t1}
  Sessions = {s1, s2}
  Requests = {r1}
  Root = alice
  RootPassword = p1
  None = None
SYMMETRY Symmetry
INVARIANTS
  SomeActiveAdmin
  InactiveHasNoSession
  SessionsHaveCurrentPassword
