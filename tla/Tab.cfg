SPECIFICATION FairSpec
CONSTANTS
  searchA = searchA
  searchB = searchB
  coach = coach
  hold1 = hold1
  hold2 = hold2
  None = None
  Searches <- TwoSearches
  Coaches <- OneCoach
  Holds <- OneHold
  MaxClicks = 6
  MaxCalls = 2
  MaxLists = 2
INVARIANTS TypeOK NoStuckButtons ConfirmationIsTrue
PROPERTY PaidPassengerSeesConfirmation
CHECK_DEADLOCK FALSE
