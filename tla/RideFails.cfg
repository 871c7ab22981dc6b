\* A ride that fails although nobody was signed out under it.
SPECIFICATION Spec
CONSTANTS
  r1 = r1  r2 = r2  r3 = r3  here = here  there = there
  Watch = Watch  Nobody = Nobody
  Req = {r1, r2}
  Place = {here}
  PlaceOf <- OnePlace
  NotUnlocked = {"Locked"}
  Approve = TRUE
  SignInSecs = 2
  ReuseSecs = 0
  EndsAtLock = TRUE
  UnseenSecs = 2
  Second = 1
  Guarded = FALSE
  ClockFails = FALSE
  MaxClock = 3
  LongLock = 1
SYMMETRY Interchangeable
INVARIANT RideFailsOnlyWhenEnded
