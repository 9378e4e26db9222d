\* Two requests that share the accounts and compete for two lines, each
\* revised until the lines run out.
CONSTANTS
  ann = ann
  bob = bob
  NoUser = NoUser
  Requests = {r1, r2}
  Lines = {l1, l2}
  Users <- TheUsers
  Creators <- TheUsers
  Reviewers <- TheUsers
  Buyers <- OnlyBob
  Closers <- OnlyBob
SPECIFICATION Spec
INVARIANTS
  HistoryChains
  ReviewStampMatchesHistory
  LedgerWellFormed
  EarlyCloseBuysNothing
  EveryoneIsTold
PROPERTY ImplementsLifecycle
CHECK_DEADLOCK FALSE
