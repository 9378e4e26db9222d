SPECIFICATION ScholarlySpec
CONSTANTS
  w1 = w1
  w2 = w2
  p1 = p1
  m1 = m1
  m2 = m2
  None = None
  Works = {w1, w2}
  Manual = {}
  Members = {m1, m2}
  Policies = {"off", "auto"}
SYMMETRY Symmetric
INVARIANTS AcceptedWorksLead EditsStay
PROPERTIES SavesDropOnlySeen ResetSparesOthers ResetHolds
CHECK_DEADLOCK FALSE
