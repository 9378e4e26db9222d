\* One request of up to two lines, with two pages that draft and decide.
CONSTANTS
  ann = ann
  bob = bob
  NoUser = NoUser
  Nothing = Nothing
  Requests = {r1}
  Lines = {l1, l2}
  Users <- TheUsers
  Creators <- OnlyAnn
  Reviewers <- OnlyBob
  Buyers <- TheUsers
  Closers <- OnlyBob
  Readers <- OnlyBob
  Watched <- OnlyBob
  Registrars <- OnlyBob
SPECIFICATION DeskSpec
VIEW DeskView
SYMMETRY Symmetric
INVARIANTS
  AmountsOnPurchasedLines
  BoughtIsSettled
  AssetsWerePurchased
