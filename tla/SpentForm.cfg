SPECIFICATION Spec
CONSTANTS
  searchA = searchA
  searchB = searchB
  coach = coach
  hold1 = hold1
  hold2 = hold2
  None = None
  Searches <- TwoSearches
  Coaches <- OneCoach
  Holds <- OneHold
  MaxClicks = 5
  MaxCalls = 2
  MaxLists = 1
INVARIANT SpentFormStaysBehind
CHECK_DEADLOCK FALSE
