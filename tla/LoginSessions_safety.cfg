SPECIFICATION Spec
CONSTANTS
  u1 = u1
  u2 = u2
  t1 = t1
  t2 = t2
  Users = {u1, u2}
  Tokens = {t1, t2}
  MaxPassword = 2
PROPERTIES DeadTokensStayDead TemporaryPasswordNeeded
