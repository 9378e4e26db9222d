SPECIFICATION FairSpec
CONSTANTS
  u1 = u1
  u2 = u2
  w1 = w1
  w2 = w2
  NoWorker = NoWorker
  Root = u1
  Workers = {w1, w2}
  Users = {u1, u2}
  Referenced = {}
  Offered = {"disable", "demote", "delete", "createSuper", "grant", "reset"}
INVARIANTS LocksProtectSupers ChecksHoldToTheEnd
PROPERTIES EveryRequestEnds
