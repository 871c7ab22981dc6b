---------------------------- MODULE SignInProofs ----------------------------
(***************************************************************************)
(* Theorems about SignIn, for any number of requests and places and any    *)
(* configuration: type correctness first, then what the mutexes give, then *)
(* that the enclave holds nothing no approval stands for.                  *)
(***************************************************************************)
EXTENDS SignIn, TLAPS

-----------------------------------------------------------------------------
(* The pure rules. *)

\* What one approval covers and for how long is well typed, wherever it is asked.
LEMMA GrantType ==
  ASSUME NEW place \in Reach
  PROVE  /\ Grant(place).reach \in Reach
         /\ Grant(place).window \in Nat
BY ApprovalsAssumption DEF Grant, grant, Reach

\* decide yields a Plan for the grant of its place.
LEMMA DecideType ==
  ASSUME NEW place \in Place, NEW ap \in Approvals, NEW c \in Time
  PROVE  /\ decide(place, ap, c) \in Plan
         /\ decide(place, ap, c).reach = Grant(place).reach
         /\ decide(place, ap, c).window = Grant(place).window
         /\ decide(place, ap, c).expired \in SUBSET Reach
<1>1. place \in Reach
  BY DEF Reach
<1>2. Grant(place).reach \in Reach /\ Grant(place).window \in Nat
  BY <1>1, GrantType
<1>3. expire(ap, Grant(place).window, c) \in SUBSET Reach
  BY DEF expire
<1>4. \A x, y, z, w : reuse_covers(x, y, z, w) \in BOOLEAN
  BY DEF reuse_covers
<1> QED
  BY <1>2, <1>3, <1>4 DEF decide, Plan, Ends

\* Taking approvals away, and opening one, leaves approvals.
LEMMA WithoutType ==
  ASSUME NEW ap \in Approvals, NEW S
  PROVE  Without(ap, S) \in Approvals
BY DEF Without, Approvals

\* opened returns approvals.
LEMMA OpenedType ==
  ASSUME NEW ap \in Approvals, NEW p \in Plan, NEW c \in Time
  PROVE  opened(ap, p, c) \in Approvals
BY DEF opened, Approvals, Plan

\* clock() returns a time.
LEMMA ReadingType ==
  ASSUME clock \in 0..MaxClock, NEW c \in Reading
  PROVE  c \in Time
BY SignInAssumption DEF Reading, Time, NaN

-----------------------------------------------------------------------------
(* Type correctness. *)

\* What kwse_forget and kwse_forget_all leave is well typed.
LEMMA ForgettingType ==
  ASSUME TypeOK, NEW S, Forgetting(S)
  PROVE  held' \in SUBSET Reach /\ age' \in [Reach \cup Req -> 0..LongLock]
BY SignInAssumption DEF Forgetting, TypeOK

\* A look returns to where its caller goes on.
LEMMA BackType ==
  ASSUME NEW t \in Thread
  PROVE  /\ t = Watch => Back(t) = "idle"
         /\ t # Watch => Back(t) \in {"count", "settle"}
BY DEF Back

\* The four steps of a look keep the types, whichever thread looks.
LEMMA LookType ==
  ASSUME TypeOK, NEW t \in Thread, LookStep(t)
  PROVE  TypeOK'
<1> USE SignInAssumption DEF Goto, world, shared, locals, history, Thread
<1>1. CASE Look(t)
  <2>1. \A c \in Reading : c \in Time
    BY ReadingType DEF TypeOK
  <2> QED BY <1>1, <2>1 DEF Look, TypeOK, WatchPC, ReqPC
<1>2. CASE See(t)
  <2>1. 0 \in Time
    BY DEF Time
  <2> QED BY <1>2, <2>1, BackType DEF See, TypeOK, WatchPC, ReqPC
<1>3. CASE EndApprovals(t)
  <2>1. NoApprovals \in Approvals
    BY DEF NoApprovals, Approvals
  <2> QED BY <1>3, <2>1 DEF EndApprovals, TypeOK, WatchPC, ReqPC
<1>4. CASE ForgetAll(t)
  <2>1. held' \in SUBSET Reach /\ age' \in [Reach \cup Req -> 0..LongLock]
    BY <1>4, ForgettingType DEF ForgetAll
  <2> QED BY <1>4, <2>1, BackType DEF ForgetAll, TypeOK, WatchPC, ReqPC
<1> QED BY <1>1, <1>2, <1>3, <1>4 DEF LookStep

\* Asking for Touch ID leaves the request at the sheet or, when an unlock stands
\* in for it, past the sheet.
LEMMA AuthenticateMoves ==
  ASSUME TypeOK, NEW r \in Req, Authenticate(r)
  PROVE  /\ asked' \in [Req -> SUBSET Asked]
         /\ \E l \in {"sheet", "keep", "sign"} :
              /\ pc' = [pc EXCEPT ![r] = l]
              /\ l = "keep" => EndsAtLock
<1>1. asked[r] \cup {"sheet"} \in SUBSET Asked /\ asked[r] \cup {"unlock"} \in SUBSET Asked
  BY DEF TypeOK, Asked
<1>2. asked' \in [Req -> SUBSET Asked]
  BY <1>1 DEF Authenticate, TypeOK
<1> QED BY <1>2 DEF Authenticate, Authenticated, Goto

\* Every other step of a request keeps them.
LEMMA RequestType ==
  ASSUME TypeOK, NEW r \in Req, RequestStep(r) \/ User(r)
  PROVE  TypeOK'
<1>0. r # Watch /\ r \in Thread
  BY SignInAssumption DEF Thread
<1> USE <1>0, SignInAssumption DEF Goto, Barred, world, shared, locals, history, Thread
<1>1. CASE Turn(r)
  BY <1>1 DEF Turn, TypeOK, WatchPC, ReqPC
<1>2. CASE LookStep(r)
  BY <1>2, LookType
<1>3. CASE Count(r)
  BY <1>3 DEF Count, TypeOK, WatchPC, ReqPC
<1>4. CASE Decide(r)
  <2>1. PICK c \in Reading : plan' = [plan EXCEPT ![r] = decide(PlaceOf[r], approved, c)]
    BY <1>4 DEF Decide
  <2>2. c \in Time
    BY ReadingType DEF TypeOK
  <2>3. decide(PlaceOf[r], approved, c) \in Plan
    BY <2>2, DecideType DEF TypeOK
  <2>4. plan' \in [Req -> Plan]
    BY <2>1, <2>3 DEF TypeOK
  <2>5. approved' \in Approvals
    BY <1>4, WithoutType DEF Decide, TypeOK
  <2> QED BY <1>4, <2>4, <2>5 DEF Decide, TypeOK, WatchPC, ReqPC
<1>5. CASE Drop(r)
  <2>1. held' \in SUBSET Reach /\ age' \in [Reach \cup Req -> 0..LongLock]
    BY <1>5, ForgettingType DEF Drop
  <2> QED BY <1>5, <2>1 DEF Drop, TypeOK, WatchPC, ReqPC
<1>6. CASE TakeHeld(r)
  <2>1. age[plan[r].reach] \in 0..LongLock
    BY DEF TypeOK, Plan
  <2>2. age' \in [Reach \cup Req -> 0..LongLock]
    BY <1>6, <2>1 DEF TakeHeld, TypeOK
  <2> QED BY <1>6, <2>2 DEF TakeHeld, TypeOK, WatchPC, ReqPC
<1>7. CASE TakeSecret(r)
  <2>1. CASE Riding(r)
    BY <1>7, <2>1 DEF TakeSecret, TypeOK, WatchPC, ReqPC, Signed
  <2>2. CASE Authenticate(r) /\ UNCHANGED signed
    <3>1. PICK l \in {"sheet", "keep", "sign"} : pc' = [pc EXCEPT ![r] = l]
      BY <2>2, AuthenticateMoves
    <3>2. pc' \in [Thread -> WatchPC \cup ReqPC] /\ pc'[Watch] \in WatchPC
          /\ \A q \in Req : pc'[q] \in ReqPC
      BY <3>1 DEF TypeOK, ReqPC
    <3> QED BY <1>7, <2>2, <3>2, AuthenticateMoves DEF TakeSecret, TypeOK
  <2> QED BY <1>7, <2>1, <2>2 DEF TakeSecret
<1>8. CASE TakeContext(r)
  <2>1. held' \in SUBSET Reach
    BY <1>8 DEF TakeContext, Kept, TypeOK, Plan
  <2>2. asked' \in [Req -> SUBSET Asked]
    BY <1>8, AuthenticateMoves DEF TakeContext, TypeOK
  <2>3. PICK l \in {"sheet", "keep", "sign"} : pc' = [pc EXCEPT ![r] = l]
    BY <1>8, AuthenticateMoves DEF TakeContext
  <2>4. pc' \in [Thread -> WatchPC \cup ReqPC] /\ pc'[Watch] \in WatchPC
        /\ \A q \in Req : pc'[q] \in ReqPC
    BY <2>3 DEF TypeOK, ReqPC
  <2> QED BY <1>8, <2>1, <2>2, <2>4 DEF TakeContext, TypeOK
<1>9. CASE Accept(r)
  BY <1>9 DEF Accept, Authenticated, TypeOK, WatchPC, ReqPC
<1>10. CASE Decline(r)
  <2>1. held' \in SUBSET Reach /\ age' \in [Reach \cup Req -> 0..LongLock]
    BY <1>10, ForgettingType DEF Decline
  <2> QED BY <1>10, <2>1 DEF Decline, TypeOK, WatchPC, ReqPC, Signed
<1>11. CASE Keep(r)
  <2>1. plan[r].reach \in Reach
    BY DEF TypeOK, Plan
  <2>2. held' \in SUBSET Reach
    BY <1>11, <2>1 DEF Keep, TypeOK
  <2>3. age' \in [Reach \cup Req -> 0..LongLock]
    BY <1>11, <2>1 DEF Keep, TypeOK
  <2> QED BY <1>11, <2>2, <2>3 DEF Keep, TypeOK, WatchPC, ReqPC
<1>12. CASE Sign(r) \/ EnclaveAsks(r) \/ EnclaveAnswered(r)
  <2>1. CASE Sign(r)
    BY <2>1 DEF Sign, TypeOK, WatchPC, ReqPC, Signed
  <2>2. CASE EnclaveAsks(r)
    BY <2>2 DEF EnclaveAsks, TypeOK, WatchPC, ReqPC, Asked
  <2>3. CASE EnclaveAnswered(r)
    BY <2>3 DEF EnclaveAnswered, TypeOK, WatchPC, ReqPC, Signed
  <2> QED BY <1>12, <2>1, <2>2, <2>3
<1>13. CASE Admit(r)
  <2>1. approved' \in Approvals
    BY <1>13, OpenedType, ReadingType DEF Admit, TypeOK
  <2> QED BY <1>13, <2>1 DEF Admit, TypeOK, WatchPC, ReqPC, Outcome
<1>14. CASE Refuse(r)
  BY <1>14 DEF Refuse, TypeOK, WatchPC, ReqPC, Outcome
<1>15. CASE Fail(r)
  <2>1. Err(r) \in Outcome
    BY <1>15 DEF Fail, HasSignature, Err, TypeOK, Signed, Outcome
  <2> QED BY <1>15, <2>1 DEF Fail, TypeOK, WatchPC, ReqPC
<1>16. CASE Forget(r)
  <2>1. held' \in SUBSET Reach /\ age' \in [Reach \cup Req -> 0..LongLock]
    BY <1>16, ForgettingType DEF Forget
  <2> QED BY <1>16, <2>1 DEF Forget, TypeOK, WatchPC, ReqPC
<1>17. CASE Answer(r)
  <2>1. NoPlan \in Plan
    BY DEF NoPlan, Plan, Reach, Ends
  <2>2. age' \in [Reach \cup Req -> 0..LongLock]
    BY <1>17 DEF Answer, TypeOK
  <2> QED BY <1>17, <2>1, <2>2 DEF Answer, TypeOK, WatchPC, ReqPC, Signed, Outcome, Screen
<1> QED
  BY <1>1, <1>2, <1>3, <1>4, <1>5, <1>6, <1>7, <1>8, <1>9, <1>10, <1>11, <1>12,
     <1>13, <1>14, <1>15, <1>16, <1>17
  DEF RequestStep, User

\* So does the watch.
LEMMA WatchType ==
  ASSUME TypeOK, WatchStep
  PROVE  TypeOK'
<1> USE SignInAssumption DEF Goto, world, shared, locals, history, Thread
<1>1. CASE Wake
  BY <1>1 DEF Wake, TypeOK, WatchPC, ReqPC
<1>2. CASE LookStep(Watch)
  BY <1>2, LookType
<1>3. CASE Expire
  <2>1. gone' \in SUBSET Reach
    BY <1>3 DEF Expire, expire
  <2>2. approved' \in Approvals
    BY <1>3, WithoutType DEF Expire, TypeOK
  <2> QED BY <1>3, <2>1, <2>2 DEF Expire, TypeOK, WatchPC, ReqPC
<1>4. CASE Busy
  BY <1>4 DEF Busy, TypeOK, WatchPC, ReqPC
<1>5. CASE Release
  <2>1. held' \in SUBSET Reach /\ age' \in [Reach \cup Req -> 0..LongLock]
    BY <1>5, ForgettingType DEF Release
  <2> QED BY <1>5, <2>1 DEF Release, TypeOK, WatchPC, ReqPC
<1> QED BY <1>1, <1>2, <1>3, <1>4, <1>5 DEF WatchStep

\* Every variable of SignIn stays within its type, whatever the configuration.
THEOREM TypeCorrect == Spec => []TypeOK
<1>1. Init => TypeOK
  <2>1. NoPlan \in Plan
    BY DEF NoPlan, Plan, Reach, Ends
  <2>2. NoApprovals \in Approvals
    BY DEF NoApprovals, Approvals
  <2> QED
    BY <2>1, <2>2, SignInAssumption
    DEF Init, TypeOK, WatchPC, ReqPC, Signed, Outcome, Screen, Thread, Time
<1>2. TypeOK /\ [Next]_vars => TypeOK'
  <2> SUFFICES ASSUME TypeOK, [Next]_vars PROVE TypeOK'
    OBVIOUS
  <2>1. CASE Tick
    <3>1. age' \in [Reach \cup Req -> 0..LongLock]
      BY <2>1, SignInAssumption DEF Tick, TypeOK
    <3> QED BY <2>1, <3>1, SignInAssumption DEF Tick, TypeOK, shared, locals
  <2>2. CASE ScreenChanges
    <3>1. age' \in [Reach \cup Req -> 0..LongLock]
      BY <2>2, SignInAssumption DEF ScreenChanges, TypeOK
    <3> QED BY <2>2, <3>1 DEF ScreenChanges, TypeOK, shared, locals
  <2>3. CASE WatchStep
    BY <2>3, WatchType
  <2>4. CASE Horizon \/ UNCHANGED vars
    BY <2>4 DEF Horizon, vars, world, shared, locals, history, TypeOK
  <2>5. CASE \E r \in Req : RequestStep(r) \/ User(r)
    BY <2>5, RequestType
  <2> QED BY <2>1, <2>2, <2>3, <2>4, <2>5 DEF Next
<1> QED BY <1>1, <1>2, PTL DEF Spec

-----------------------------------------------------------------------------
(* The mutexes. *)

\* The kinds of step a proof by cases goes through.
LEMMA NextCases ==
  ASSUME Next
  PROVE  \/ Tick \/ ScreenChanges \/ Horizon
         \/ Wake \/ Expire \/ Busy \/ Release
         \/ \E t \in Thread : Look(t) \/ See(t) \/ EndApprovals(t) \/ ForgetAll(t)
         \/ \E r \in Req : \/ Turn(r) \/ Count(r) \/ Decide(r) \/ Drop(r)
                          \/ TakeHeld(r) \/ TakeSecret(r) \/ TakeContext(r)
                          \/ Accept(r) \/ Decline(r) \/ Keep(r) \/ Sign(r) \/ EnclaveAsks(r)
                          \/ EnclaveAnswered(r)
                          \/ Admit(r) \/ Refuse(r) \/ Fail(r) \/ Forget(r) \/ Answer(r)
BY DEF Next, WatchStep, LookStep, RequestStep, User, Thread

\* Every step leaves each mutex with the holder its pc says.
LEMMA LockingStep ==
  ASSUME TypeOK, Locking, [Next]_vars
  PROVE  Locking'
<1> USE SignInAssumption, ApprovalsAssumption DEF Locking, InLook, Goto, Thread, Free
<1>1. CASE UNCHANGED vars \/ Horizon \/ Tick \/ ScreenChanges
  BY <1>1 DEF vars, shared, Horizon, Tick, ScreenChanges
<1>2. CASE Wake
  BY <1>2 DEF Wake, shared, TypeOK
<1>3. CASE Expire
  BY <1>3 DEF Expire, TypeOK
<1>4. CASE Busy
  BY <1>4 DEF Busy, shared, TypeOK
<1>5. CASE Release
  BY <1>5 DEF Release, TypeOK
<1>6. ASSUME NEW t \in Thread, Look(t) PROVE Locking'
  BY <1>6 DEF Look, TypeOK
<1>7. ASSUME NEW t \in Thread, See(t) PROVE Locking'
  BY <1>7, BackType DEF See, TypeOK
<1>8. ASSUME NEW t \in Thread, EndApprovals(t) PROVE Locking'
  BY <1>8 DEF EndApprovals, TypeOK
<1>9. ASSUME NEW t \in Thread, ForgetAll(t) PROVE Locking'
  BY <1>9, BackType DEF ForgetAll, TypeOK
<1>10. ASSUME NEW r \in Req, Turn(r) PROVE Locking'
  BY <1>10 DEF Turn, Barred, TypeOK
<1>11. ASSUME NEW r \in Req, Answer(r) PROVE Locking'
  BY <1>11 DEF Answer, TypeOK
<1>12. ASSUME NEW r \in Req,
              Count(r) \/ Decide(r) \/ Drop(r) \/ TakeHeld(r) \/ TakeSecret(r) \/ TakeContext(r)
       PROVE  Locking'
  BY <1>12 DEF Count, Decide, Drop, TakeHeld, TakeSecret, TakeContext, Authenticate,
               Authenticated, Barred, shared, TypeOK
<1>13. ASSUME NEW r \in Req,
              Accept(r) \/ Decline(r) \/ Keep(r) \/ Sign(r) \/ EnclaveAsks(r)
                \/ EnclaveAnswered(r)
       PROVE  Locking'
  BY <1>13 DEF Accept, Authenticated, Decline, Keep, Sign, EnclaveAsks, EnclaveAnswered, Barred,
               shared, TypeOK
<1>14. ASSUME NEW r \in Req, Admit(r) \/ Refuse(r) \/ Fail(r) \/ Forget(r)
       PROVE  Locking'
  BY <1>14 DEF Admit, Refuse, Fail, Forget, shared, TypeOK
<1> QED
  BY NextCases, <1>1, <1>2, <1>3, <1>4, <1>5, <1>6, <1>7, <1>8, <1>9, <1>10, <1>11,
     <1>12, <1>13, <1>14

\* At the start nobody holds a mutex.
LEMMA LockingInit == Init => Locking
BY SignInAssumption DEF Init, Locking, InLook, Thread

-----------------------------------------------------------------------------
(* The plans. *)

\* The window is the configuration's, whatever the place.
LEMMA OneWindow ==
  ASSUME NEW p, NEW q
  PROVE  Grant(p).window = Grant(q).window
BY ApprovalsAssumption DEF Grant, grant

\* Two requests are never under way at once.
LEMMA OneRequest ==
  ASSUME TypeOK, Locking, NEW q \in Req, NEW r \in Req,
         pc[q] \notin {"start", "done"}, pc[r] \notin {"start", "done"}
  PROVE  q = r
BY DEF Locking

\* A request under way holds the gate.
LEMMA PlannedHasGate ==
  ASSUME TypeOK, Locking, NEW r \in Req, Planned(r)
  PROVE  sign_gate = r
BY DEF Locking, Planned, UnderWay

\* Every step keeps what is known of the sheets.
LEMMA SheetsStep ==
  ASSUME TypeOK, Sheets, [Next]_vars
  PROVE  Sheets'
<1> USE SignInAssumption DEF Sheets, Goto, Thread
<1>1. CASE UNCHANGED vars \/ Horizon \/ Tick \/ ScreenChanges
  BY <1>1 DEF vars, locals, Horizon, Tick, ScreenChanges
<1>2. CASE Wake \/ Expire \/ Busy \/ Release
  BY <1>2 DEF Wake, Expire, Busy, Release, locals, TypeOK
<1>3. ASSUME NEW t \in Thread, Look(t) \/ See(t) \/ EndApprovals(t) \/ ForgetAll(t)
      PROVE  Sheets'
  BY <1>3, BackType DEF Look, See, EndApprovals, ForgetAll, locals, TypeOK
<1>4. ASSUME NEW r \in Req, Turn(r) \/ Count(r) \/ Decide(r) \/ Drop(r) \/ Answer(r)
      PROVE  Sheets'
  BY <1>4 DEF Turn, Count, Decide, Drop, Answer, Barred, locals, TypeOK
<1>5. ASSUME NEW r \in Req, TakeHeld(r) \/ TakeSecret(r) \/ TakeContext(r)
      PROVE  Sheets'
  BY <1>5 DEF TakeHeld, TakeSecret, TakeContext, Authenticate, Authenticated, Riding, Barred,
              locals, TypeOK
<1>6. ASSUME NEW r \in Req,
             Accept(r) \/ Decline(r) \/ Keep(r) \/ Sign(r) \/ EnclaveAsks(r)
               \/ EnclaveAnswered(r)
      PROVE  Sheets'
  BY <1>6 DEF Accept, Authenticated, Decline, Keep, Sign, EnclaveAsks, EnclaveAnswered, Barred,
              locals, TypeOK
<1>7. ASSUME NEW r \in Req, Admit(r) \/ Refuse(r) \/ Fail(r) \/ Forget(r)
      PROVE  Sheets'
  BY <1>7 DEF Admit, Refuse, Fail, Forget, locals, TypeOK
<1> QED BY NextCases, <1>1, <1>2, <1>3, <1>4, <1>5, <1>6, <1>7

\* What decide says of the approvals it leaves.
LEMMA DecideHolds ==
  ASSUME NEW place \in Place, NEW ap \in Approvals, NEW c \in Time,
         ~ClockFails => c # NaN /\ \A k \in Reach : ap[k] # NaN
  PROVE  LET d    == decide(place, ap, c)
             left == Without(ap, d.expired)
         IN  /\ d.live => left[d.reach] # Absent
             /\ ~d.live /\ d.reach = Everywhere => d.signing_in # "None"
             /\ ~d.live /\ d.window > 0 /\ ~ClockFails => left[d.reach] = Absent
             /\ ~ClockFails => \A k \in Reach : left[k] # NaN
<1> DEFINE g == Grant(place)
           e == expire(ap, g.window, c)
           left == Without(ap, e)
           live == reuse_covers(left, g.reach, g.window, c)
<1>1. g.reach \in Reach /\ g.window \in Nat
  BY GrantType DEF Reach
<1>2. live => left[g.reach] # Absent
  BY DEF reuse_covers
<1>3. ASSUME ~live, g.window > 0, ~ClockFails PROVE left[g.reach] = Absent
  <2>1. SUFFICES ASSUME g.reach \notin e, ap[g.reach] # Absent PROVE FALSE
    BY <1>1 DEF Without
  <2>2. left[g.reach] = ap[g.reach] /\ ap[g.reach] \in Nat /\ c \in Nat
    BY <1>1, <1>3, <2>1 DEF Without, Approvals, Time
  <2>3. ~Within(c, ap[g.reach], g.window)
    BY <1>3, <2>1, <2>2 DEF reuse_covers
  <2>4. g.window * Second \in Nat
    BY <1>1, ApprovalsAssumption
  <2>5. RunOut(c, ap[g.reach], g.window)
    BY <2>2, <2>3, <2>4 DEF Within, RunOut, NaN
  <2> QED BY <1>1, <2>1, <2>5 DEF expire
<1>4. ~ClockFails => \A k \in Reach : left[k] # NaN
  BY DEF Without, Absent, NaN
<1>5. /\ decide(place, ap, c).reach = g.reach
      /\ decide(place, ap, c).window = g.window
      /\ decide(place, ap, c).live = live
      /\ decide(place, ap, c).expired = e
      /\ ~live /\ g.reach = Everywhere => decide(place, ap, c).signing_in # "None"
  BY DEF decide
<1> HIDE DEF g, e, live
<1> QED BY <1>2, <1>3, <1>4, <1>5

\* Every step keeps each plan true to its request.
LEMMA PlansStep ==
  ASSUME TypeOK, Locking, Sheets, Plans, [Next]_vars
  PROVE  Plans'
<1> USE SignInAssumption DEF Plans, PlanHolds, Planned, UnderWay, Goto, Thread
<1>1. CASE UNCHANGED vars \/ Horizon \/ Tick \/ ScreenChanges
  BY <1>1 DEF vars, shared, locals, Horizon, Tick, ScreenChanges
<1>2. CASE Wake \/ Busy \/ Release
  BY <1>2 DEF Wake, Busy, Release, shared, locals, TypeOK
<1>3. CASE Expire
  <2>1. \A q \in Req : ~Planned(q)' /\ pc'[q] # "decide"
    BY <1>3 DEF Expire, Free, Locking, TypeOK
  <2>2. ~ClockFails => \A k \in Reach : approved'[k] # NaN
    BY <1>3 DEF Expire, Without, NaN, Absent
  <2> QED BY <1>3, <2>1, <2>2 DEF Expire
<1>4. ASSUME NEW t \in Thread, Look(t) PROVE Plans'
  BY <1>4 DEF Look, TypeOK
<1>5. ASSUME NEW t \in Thread, See(t) PROVE Plans'
  BY <1>5, BackType DEF See, TypeOK, Back
<1>6. ASSUME NEW t \in Thread, EndApprovals(t) PROVE Plans'
  <2>1. EndsAtLock
    BY <1>6 DEF EndApprovals, Locking, InLook
  <2> QED BY <1>6, <2>1 DEF EndApprovals, NoApprovals, Absent, NaN, locals, TypeOK, Plan
<1>7. ASSUME NEW t \in Thread, ForgetAll(t) PROVE Plans'
  BY <1>7, BackType DEF ForgetAll, locals, TypeOK, Back
<1>8. ASSUME NEW r \in Req, Turn(r) \/ Count(r) \/ Answer(r) PROVE Plans'
  BY <1>8 DEF Turn, Count, Answer, Barred, Sheets, shared, Locking, TypeOK
<1>9. ASSUME NEW r \in Req, Decide(r) PROVE Plans'
  <2>1. PICK c \in Reading : plan' = [plan EXCEPT ![r] = decide(PlaceOf[r], approved, c)]
    BY <1>9 DEF Decide
  <2>2. c \in Time /\ (~ClockFails => c # NaN)
    BY ReadingType DEF TypeOK, Reading, NaN
  <2> DEFINE d == decide(PlaceOf[r], approved, c)
  <2>3. plan'[r] = d
    BY <2>1 DEF TypeOK
  <2>4. d.reach = Grant(PlaceOf[r]).reach /\ d.window = Grant(PlaceOf[r]).window
    BY <2>2, DecideType DEF TypeOK
  <2>5. approved' = Without(approved, d.expired)
    BY <1>9, <2>3 DEF Decide
  <2>6. /\ d.live => approved'[d.reach] # Absent
        /\ ~d.live /\ d.reach = Everywhere => d.signing_in # "None"
        /\ ~d.live /\ d.window > 0 /\ ~ClockFails => approved'[d.reach] = Absent
        /\ ~ClockFails => \A k \in Reach : approved'[k] # NaN
    BY <2>2, <2>5, DecideHolds DEF TypeOK
  <2>7. \A q \in Req \ {r} : ~Planned(q)' /\ pc'[q] # "decide"
    BY <1>9 DEF Decide, Locking, TypeOK
  <2>8. pc'[r] = "drop" /\ count[r] <= sign_outs /\ UNCHANGED <<sign_outs, count>>
    BY <1>9 DEF Decide, TypeOK
  <2> HIDE DEF d
  <2> QED BY <2>3, <2>4, <2>6, <2>7, <2>8
<1>10. ASSUME NEW r \in Req, Drop(r) \/ TakeHeld(r) \/ TakeSecret(r) \/ TakeContext(r)
       PROVE  Plans'
  BY <1>10 DEF Drop, TakeHeld, TakeSecret, TakeContext, Authenticate, Authenticated, Barred,
               shared, locals, TypeOK
<1>11. ASSUME NEW r \in Req,
              Accept(r) \/ Decline(r) \/ Keep(r) \/ Sign(r) \/ EnclaveAsks(r)
                \/ EnclaveAnswered(r)
       PROVE  Plans'
  BY <1>11 DEF Accept, Authenticated, Decline, Keep, Sign, EnclaveAsks, EnclaveAnswered, Barred,
               shared, locals, TypeOK
<1>12. ASSUME NEW r \in Req, Refuse(r) \/ Fail(r) \/ Forget(r)
       PROVE  Plans'
  <2>1. /\ pc[r] \in {"settle", "forget"}
        /\ \E l \in {"forget", "log"} : pc' = [pc EXCEPT ![r] = l]
        /\ UNCHANGED <<approved, sign_outs, plan, count, signed>>
    BY <1>12 DEF Refuse, Fail, Forget, shared, locals
  <2> QED BY <2>1 DEF TypeOK
<1>13. ASSUME NEW r \in Req, Admit(r) PROVE Plans'
  <2>1. PICK c \in Reading : approved' = opened(approved, plan[r], c)
    BY <1>13 DEF Admit
  <2>2. ~ClockFails => c # NaN
    BY DEF TypeOK, Reading, NaN
  <2>3. ~ClockFails => \A k \in Reach : approved'[k] # NaN
    BY <2>1, <2>2 DEF opened, TypeOK, Approvals
  <2>4. \A q \in Req : ~Planned(q)' /\ pc'[q] # "decide"
    BY <1>13 DEF Admit, Locking, TypeOK
  <2> QED BY <1>13, <2>3, <2>4 DEF Admit
<1> QED
  BY NextCases, <1>1, <1>2, <1>3, <1>4, <1>5, <1>6, <1>7, <1>8, <1>9, <1>10, <1>11,
     <1>12, <1>13

\* At the start there is no plan.
LEMMA PlansInit == Init => Sheets /\ Plans
BY SignInAssumption
DEF Init, Sheets, Plans, PlanHolds, Planned, UnderWay, Thread, NoApprovals, Absent, NaN

-----------------------------------------------------------------------------
(* What the enclave holds. *)

\* Every step that takes an approval away, or puts something in the enclave,
\* leaves somebody who will let go of it.
LEMMA HeldStep ==
  ASSUME TypeOK, Locking, Sheets, Plans, HeldAccounted, [Next]_vars
  PROVE  HeldAccounted'
<1> USE SignInAssumption, ApprovalsAssumption
    DEF HeldAccounted, Excused, UnderWay, Goto, Thread
<1>1. CASE UNCHANGED vars \/ Horizon \/ Tick \/ ScreenChanges
  BY <1>1 DEF vars, shared, locals, Horizon, Tick, ScreenChanges
<1>2. CASE Wake \/ Busy
  BY <1>2 DEF Wake, Busy, shared, locals, TypeOK
<1>3. CASE Expire
  BY <1>3 DEF Expire, Without, TypeOK
<1>4. CASE Release
  BY <1>4 DEF Release, Forgetting, TypeOK
<1>5. ASSUME NEW t \in Thread, Look(t) PROVE HeldAccounted'
  BY <1>5 DEF Look, TypeOK
<1>6. ASSUME NEW t \in Thread, See(t) PROVE HeldAccounted'
  BY <1>6, BackType DEF See, TypeOK, Back
<1>7. ASSUME NEW t \in Thread, EndApprovals(t) PROVE HeldAccounted'
  BY <1>7 DEF EndApprovals, TypeOK
<1>8. ASSUME NEW t \in Thread, ForgetAll(t) PROVE HeldAccounted'
  BY <1>8 DEF ForgetAll, Forgetting, TypeOK
<1>9. ASSUME NEW r \in Req, Turn(r) \/ Count(r) PROVE HeldAccounted'
  BY <1>9 DEF Turn, Count, Barred, shared, TypeOK
<1>10. ASSUME NEW r \in Req, Decide(r) PROVE HeldAccounted'
  BY <1>10 DEF Decide, Without, TypeOK
<1>11. ASSUME NEW r \in Req, Drop(r) PROVE HeldAccounted'
  BY <1>11 DEF Drop, Dropped, Forgetting, shared, locals, TypeOK
<1>12. ASSUME NEW r \in Req, TakeHeld(r) \/ TakeSecret(r) PROVE HeldAccounted'
  <2>1. CASE TakeHeld(r)
    BY <1>12, <2>1 DEF TakeHeld, shared, locals, TypeOK
  <2>2. CASE TakeSecret(r) /\ Riding(r)
    BY <1>12, <2>2 DEF TakeSecret, Riding, Barred, shared, TypeOK, Signed
  <2>3. CASE TakeSecret(r) /\ Authenticate(r)
    <3>1. PICK l \in {"sheet", "keep", "sign"} : pc' = [pc EXCEPT ![r] = l]
      BY <2>3, AuthenticateMoves
    <3> QED BY <2>3, <3>1 DEF TakeSecret, shared, TypeOK
  <2> QED BY <1>12, <2>1, <2>2, <2>3 DEF TakeSecret
<1>13. ASSUME NEW r \in Req, TakeContext(r) PROVE HeldAccounted'
  <2>1. /\ plan[r].window = Grant(Everywhere).window
        /\ plan[r].live => approved[plan[r].reach] # Absent
    BY <1>13, OneWindow DEF TakeContext, Authenticate, Authenticated, Plans, PlanHolds, Planned,
                            TypeOK
  <2> QED BY <1>13, <2>1 DEF TakeContext, Authenticate, Authenticated, Kept, Hold, shared,
                             locals, TypeOK
<1>14. ASSUME NEW r \in Req,
              Accept(r) \/ Decline(r) \/ Sign(r) \/ EnclaveAsks(r) \/ EnclaveAnswered(r)
       PROVE  HeldAccounted'
  BY <1>14 DEF Accept, Authenticated, Decline, Sign, EnclaveAsks, EnclaveAnswered, Forgetting,
               Barred, shared, locals, TypeOK, Signed
<1>15. ASSUME NEW r \in Req, Keep(r) PROVE HeldAccounted'
  <2>1. plan[r].window = Grant(Everywhere).window /\ ~plan[r].live
    BY <1>15, OneWindow DEF Keep, Sheets, Plans, PlanHolds, Planned
  <2> QED BY <1>15, <2>1 DEF Keep, Hold, shared, locals, TypeOK
<1>16. ASSUME NEW r \in Req, Admit(r) PROVE HeldAccounted'
  <2>1. plan[r].window = Grant(Everywhere).window
    BY <1>16, OneWindow DEF Admit, Plans, PlanHolds, Planned
  <2> QED BY <1>16, <2>1, ReadingType DEF Admit, opened, TypeOK, Time, Absent, NaN, Approvals
<1>17. ASSUME NEW r \in Req, Refuse(r) \/ Fail(r) PROVE HeldAccounted'
  <2>1. CASE Refuse(r)
    <3>1. /\ pc[r] = "settle" /\ pc' = [pc EXCEPT ![r] = "forget"]
          /\ UNCHANGED <<approved, held, gone, plan, signed>>
      BY <2>1 DEF Refuse, shared
    <3> QED BY <3>1 DEF TypeOK
  <2>2. CASE Fail(r)
    <3>1. pc'[r] \in {"forget", "log"} /\ (~plan[r].live => pc'[r] = "forget")
      BY <2>2 DEF Fail, MustForget, TypeOK
    <3> QED BY <2>2, <3>1 DEF Fail, shared, TypeOK
  <2> QED BY <1>17, <2>1, <2>2
<1>18. ASSUME NEW r \in Req, Forget(r) PROVE HeldAccounted'
  BY <1>18 DEF Forget, Forgetting, shared, locals, TypeOK
<1>19. ASSUME NEW r \in Req, Answer(r) PROVE HeldAccounted'
  BY <1>19 DEF Answer, TypeOK
<1> QED
  BY NextCases, <1>1, <1>2, <1>3, <1>4, <1>5, <1>6, <1>7, <1>8, <1>9, <1>10, <1>11,
     <1>12, <1>13, <1>14, <1>15, <1>16, <1>17, <1>18, <1>19

-----------------------------------------------------------------------------
(* The theorems. *)

\* The inductive invariant holds in every state of every configuration.
THEOREM Inductive == Spec => []IInv
<1>1. Init => Locking /\ Sheets /\ Plans /\ HeldAccounted
  BY LockingInit, PlansInit DEF Init, HeldAccounted
<1>2. TypeOK /\ Locking /\ Sheets /\ Plans /\ HeldAccounted /\ [Next]_vars
        => Locking' /\ Sheets' /\ Plans' /\ HeldAccounted'
  BY LockingStep, SheetsStep, PlansStep, HeldStep
<1> QED BY <1>1, <1>2, TypeCorrect, PTL DEF Spec, IInv

\* Nothing is left in the enclave that no approval stands for, once no turn is
\* under way and no sign-out is half done (forget, forget_all and release).
THEOREM HeldOnlyWhileApproved == Spec => []HeldIsApproved
<1>1. IInv => HeldIsApproved
  BY SignInAssumption
  DEF IInv, Locking, HeldAccounted, Excused, UnderWay, HeldIsApproved, SigningOut, Thread, TypeOK
<1> QED BY <1>1, Inductive, PTL

\* No two requests ever wait for the user's finger at once (sign_gate).
THEOREM OneSheetAtATime == Spec => []OneSheet
<1>1. IInv => OneSheet
  BY OneRequest DEF IInv, OneSheet
<1> QED BY <1>1, Inductive, PTL

\* With a sign-in key no request that rides a sign-in raises the sheet, and the
\* sheet of one that opens a sign-in says so (decide, the -4 of signIn).
THEOREM SheetsSayWhatTheyGrant == EndsAtLock => (Spec => []SheetNamesSignIn)
<1>1. SUFFICES ASSUME EndsAtLock PROVE Spec => []SheetNamesSignIn
  OBVIOUS
<1>2. IInv => SheetNamesSignIn
  BY <1>1 DEF IInv, Sheets, Plans, PlanHolds, Planned, UnderWay, SheetNamesSignIn
<1> QED BY <1>2, Inductive, PTL

\* A signature goes out only under an approval that stands at that moment
\* (admit and the count of sign-outs).
THEOREM SignaturesUnderApproval == Spec => SignsUnderApproval
<1>1. ASSUME IInv, [Next]_vars, NEW r \in Req,
             outcome'[r] = "ok", outcome[r] # "ok", Hold(r)
      PROVE  approved'[plan[r].reach] # Absent
  <2>1. Admit(r)
    <3>1. CASE UNCHANGED vars \/ Horizon \/ Tick \/ ScreenChanges \/ Wake \/ Expire \/ Busy \/ Release
      BY <1>1, <3>1 DEF vars, locals, Horizon, Tick, ScreenChanges, Wake, Expire, Busy, Release
    <3>2. ASSUME NEW t \in Thread, Look(t) \/ See(t) \/ EndApprovals(t) \/ ForgetAll(t)
          PROVE  FALSE
      BY <1>1, <3>2 DEF Look, See, EndApprovals, ForgetAll, locals
    <3>3. ASSUME NEW q \in Req, \/ Turn(q) \/ Count(q) \/ Decide(q) \/ Drop(q) \/ TakeHeld(q)
                                \/ TakeSecret(q) \/ TakeContext(q) \/ Accept(q) \/ Decline(q)
                                \/ Keep(q) \/ Sign(q) \/ EnclaveAsks(q) \/ EnclaveAnswered(q)
                                \/ Forget(q)
          PROVE  FALSE
      BY <1>1, <3>3 DEF Turn, Count, Decide, Drop, TakeHeld, TakeSecret, TakeContext,
                        Authenticate, Authenticated, Accept, Decline, Keep, Sign,
                        EnclaveAsks, EnclaveAnswered, Forget, locals
    <3>4. ASSUME NEW q \in Req, Refuse(q) \/ Answer(q)
          PROVE  FALSE
      BY <1>1, <3>4 DEF Refuse, Answer, IInv, TypeOK
    <3>5. ASSUME NEW q \in Req, Fail(q)
          PROVE  FALSE
      <4>1. Err(q) # "ok"
        BY <1>1, <3>5 DEF Err, IInv, TypeOK, Signed
      <4> QED BY <1>1, <3>5, <4>1 DEF Fail, IInv, TypeOK
    <3>6. ASSUME NEW q \in Req, Admit(q)
          PROVE  q = r
      BY <1>1, <3>6 DEF Admit, IInv, TypeOK
    <3> QED BY <1>1, NextCases, <3>1, <3>2, <3>3, <3>4, <3>5, <3>6
  <2>2. PlanHolds(r) /\ sign_outs = count[r]
    BY <1>1, <2>1 DEF Admit, IInv, Plans, Planned, UnderWay, SignedOutSince
  <2>3. PICK c \in Reading : approved' = opened(approved, plan[r], c)
    BY <2>1 DEF Admit
  <2>4. c # Absent
    BY <1>1, <2>3, ReadingType DEF IInv, TypeOK, Time, NaN, Absent
  <2> QED BY <1>1, <2>2, <2>3, <2>4 DEF opened, PlanHolds, Hold, IInv, TypeOK, Approvals, Plan
<1>2. IInv /\ [Next]_vars =>
        (\A r \in Req : outcome'[r] = "ok" /\ outcome[r] # "ok" /\ Hold(r)
                        => approved'[plan[r].reach] # Absent)
  BY <1>1
<1> QED BY <1>2, Inductive, PTL DEF Spec, SignsUnderApproval

\* While the clock can be read, an approval is never extended or moved: it ends
\* before the same reach is approved again (opened, expire).
THEOREM NeverExtended == ~ClockFails => (Spec => NotExtended)
<1>1. SUFFICES ASSUME ~ClockFails PROVE Spec => NotExtended
  OBVIOUS
<1>2. ASSUME IInv, [Next]_vars, NEW k \in Reach, approved[k] # Absent
      PROVE  approved'[k] \in {approved[k], Absent}
  <2>1. CASE UNCHANGED vars \/ Horizon \/ Tick \/ ScreenChanges \/ Wake \/ Busy \/ Release
    BY <2>1 DEF vars, shared, Horizon, Tick, ScreenChanges, Wake, Busy, Release
  <2>2. CASE Expire
    BY <2>2 DEF Expire, Without
  <2>3. ASSUME NEW t \in Thread, Look(t) \/ See(t) \/ EndApprovals(t) \/ ForgetAll(t)
        PROVE  approved'[k] \in {approved[k], Absent}
    BY <2>3 DEF Look, See, EndApprovals, ForgetAll, NoApprovals
  <2>4. ASSUME NEW r \in Req, \/ Turn(r) \/ Count(r) \/ Drop(r) \/ TakeHeld(r)
                              \/ TakeSecret(r) \/ TakeContext(r) \/ Accept(r) \/ Decline(r)
                              \/ Keep(r) \/ Sign(r) \/ EnclaveAsks(r) \/ EnclaveAnswered(r)
                              \/ Refuse(r) \/ Fail(r) \/ Forget(r) \/ Answer(r)
        PROVE  approved' = approved
    BY <2>4 DEF Turn, Count, Drop, TakeHeld, TakeSecret, TakeContext, Authenticate,
                Authenticated, Accept, Decline,
                Keep, Sign, EnclaveAsks, EnclaveAnswered, Refuse, Fail, Forget, Answer, shared
  <2>5. ASSUME NEW r \in Req, Decide(r)
        PROVE  approved'[k] \in {approved[k], Absent}
    BY <2>5 DEF Decide, Without
  <2>6. ASSUME NEW r \in Req, Admit(r)
        PROVE  approved'[k] \in {approved[k], Absent}
    <3>1. PlanHolds(r)
      BY <1>2, <2>6 DEF Admit, IInv, Plans, Planned, UnderWay
    <3>2. PICK c \in Reading : approved' = opened(approved, plan[r], c)
      BY <2>6 DEF Admit
    <3> QED BY <1>1, <1>2, <3>1, <3>2 DEF opened, PlanHolds, IInv, TypeOK, Approvals, Plan
  <2> QED BY <1>2, NextCases, <2>1, <2>2, <2>3, <2>4, <2>5, <2>6
<1>3. IInv /\ [Next]_vars =>
        (\A k \in Reach : approved[k] # Absent => approved'[k] \in {approved[k], Absent})
  BY <1>2
<1> QED BY <1>3, Inductive, PTL DEF Spec, NotExtended
=============================================================================
