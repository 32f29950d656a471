CONSTANTS
  Setup <- PeopleSetup
  Parts = {"quota", "members", "remote", "pushed"}
SPECIFICATION PeopleSpec
CHECK_DEADLOCK FALSE
INVARIANTS
  ChargedRight
  
  
