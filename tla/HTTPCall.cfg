SPECIFICATION Spec
CONSTANTS
  MaxTemplateDepth = 2
  DefaultRequest = 2
  Url = {home, page, away}
  Home = home
  SameOrigin = {home, page}
  None = None
  MaxHops = 2
  DefaultResponse = 2
  MaxInt = 3
  MaxSize = 3
  Type = {"json", "html"}
  Policy <- MCPolicy
INVARIANT OnlyArgumentsRefused
INVARIANT PatternsMeanWhatTheySay
INVARIANT PathAsConfigured
INVARIANT StaysHome
INVARIANT ResultIsHonest
INVARIANT ReachesTheTool
INVARIANT RefusedForAReason
PROPERTY Returns
CHECK_DEADLOCK FALSE
