\* Keys made beside each other and servers started beside each other.
SPECIFICATION FairSpec
CONSTANTS
  m1 = m1  m2 = m2  m3 = m3  s1 = s1  s2 = s2  s3 = s3
  Maker = {m1, m2, m3}
  Server = {s1, s2, s3}
  Launchd = {s1}
  Scenarios <- Together
  MaxKills = 2
\* A key that is made is the end of that run.
CHECK_DEADLOCK FALSE
INVARIANTS TypeOK KeptForGood
PROPERTIES NotClobbered LateStandsDown SettlesDown
