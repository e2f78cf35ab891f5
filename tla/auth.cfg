SPECIFICATION Spec
CONSTANTS
  User = {a, b}
  Watched = {a}
  NoUser = NoUser
  Session = {s1, s2, s3}
  NoSession = NoSession
  Request = {r1, r2}
  MaxPasswords = 2
  MaxChanges = 2
SYMMETRY Interchangeable
INVARIANTS TypeOK PasswordEndsSessions UserKeepsWrites OneSuccessor OnlyAdminsChangeUsers SomeoneStays
CHECK_DEADLOCK FALSE
