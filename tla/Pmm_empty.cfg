CONSTANTS
  PageTotal = 6
  HeaderPages = 2
  Requests <- SmallRequests
  FollowDamage = TRUE
SPECIFICATION Spec
INVARIANT TakenIsOffTheList
