SPECIFICATION FairSpec
CONSTANTS
  c1 = c1
  c2 = c2
  c3 = c3
  d1 = d1
  d2 = d2
  p1 = p1
  p2 = p2
  NoConn = NoConn
  Conn = {c1, c2, c3}
  Deed = {d1}
  Place = {p1, p2}
  MaxJobs = 2
  MaxSuspensions = 1
  Conditions = {{"close"}, {"hop"}, {"close", "hop", "cut", "suspend"}}
\* every connection is used once: the system may stop
CHECK_DEADLOCK FALSE
INVARIANTS
  OneSteadySession
  NoGhostSession
PROPERTIES
  SteadyDeedsStay
  HelloIsAnswered
