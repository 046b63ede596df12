\* Two requests overlapping at every await. The rows run out, so the model may stop.
CHECK_DEADLOCK FALSE
SPECIFICATION Spec
CONSTANTS
  Users = {alice, bob}
  Passwords = {p1}
  Tokens = {t1, t2}
  Sessions = {s1}
  Requests = {r1, r2}
  Root = alice
  RootPassword = p1
  None = None
SYMMETRY Symmetry
CONSTRAINT RootOnlyAdministers
INVARIANTS
  TypeOK
  OneUnusedLink
  ClaimIsExclusive
  ValidatedInviteIsCurrent
  SentInviteArrived
PROPERTIES
  ImplementsSetupLinks
