\* Any other kind of key, place by place: no watch, a context held per place.
SPECIFICATION Spec
CONSTANTS
  r1 = r1  r2 = r2  r3 = r3  here = here  there = there
  Watch = Watch  Nobody = Nobody
  Req = {r1, r2, r3}
  Place = {here, there}
  PlaceOf <- TwoPlaces
  NotUnlocked = {}
  Approve = TRUE
  SignInSecs = 0
  ReuseSecs = 2
  EndsAtLock = FALSE
  UnseenSecs = 2
  Second = 1
  Guarded = TRUE
  ClockFails = FALSE
  MaxClock = 5
  LongLock = 1
INVARIANTS HeldIsApproved ApprovedIsHeld LogTellsWhoAsked
