SPECIFICATION MembersSpec
CONSTANTS
  ann = ann
  bob = bob
  c1 = c1
  People = {ann, bob}
  Founders = {ann}
  Owners = {ann}
  Consoles = {c1}
  Filters <- TheFilters
  None = None
  MaxCalls = 3
CHECK_DEADLOCK FALSE
INVARIANT PublicMembersAreNamed
PROPERTIES HiddenStayHidden ConversionsLast
