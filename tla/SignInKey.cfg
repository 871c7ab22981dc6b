\* A sign-in key: three requests, a screen that locks and unlocks, a watch, threads that
\* stall and a clock that can fail.  Two ticks between looks: three are a long lock.
SPECIFICATION Spec
CONSTANTS
  r1 = r1  r2 = r2  r3 = r3  here = here  there = there
  Watch = Watch  Nobody = Nobody
  Req = {r1, r2, r3}
  Place = {here}
  PlaceOf <- OnePlace
  NotUnlocked = {"Locked"}
  Approve = TRUE
  SignInSecs = 4
  ReuseSecs = 0
  EndsAtLock = TRUE
  UnseenSecs = 2
  Second = 1
  Guarded = FALSE
  ClockFails = TRUE
  MaxClock = 4
  LongLock = 3
SYMMETRY Interchangeable
INVARIANTS TypeOK HeldIsApproved OneSheet SheetNamesSignIn LogTellsWhoAsked LongLockEndsSignIn
PROPERTIES SignsUnderApproval KeepsPromise
