--------------------------- MODULE SessionProofs ---------------------------
(***************************************************************************)
(* Who was asked for Touch ID in SignIn, and what follows: the log is true *)
(* about it, what is approved is held, and SignIn implements Session.      *)
(***************************************************************************)
EXTENDS SignInProofs

-----------------------------------------------------------------------------
(* The invariants. *)

\* Before a request takes its secret or its context.
Untaken(r) == pc[r] \in {"start", "count", "decide", "drop", "take", "done"}

\* A result and an outcome come in their time, and the error of a request that
\* the screen does not bar has a text.
Results ==
  \A r \in Req :
    /\ Untaken(r) \/ pc[r] \in {"sheet", "keep", "sign", "prompt"} => signed[r] = "none"
    /\ pc[r] = "settle" /\ saw[r] = "Unlocked" => signed[r] # "none"
    /\ outcome[r] # "none" <=> pc[r] \in {"forget", "log"}
    /\ outcome[r] = "ok" => pc[r] = "log" /\ signed[r] = "signature"

\* The daemon asked and was answered, or an unlock of the Mac stood in for that,
\* which it never does for a sign-in.
ByUser(r) ==
  \/ "sheet" \in asked[r]
  \/ "unlock" \in asked[r] /\ plan[r].reach # Everywhere

\* A request is asked for while it is under way, at the sheet; and one that rides
\* nothing has nothing to take and no other way to a signature.
Asking ==
  \A r \in Req :
    /\ asked[r] # {} => (UnderWay(r) \/ pc[r] = "log") /\ pc[r] # "take"
    /\ pc[r] = "sheet" => "sheet" \in asked[r]
    /\ pc[r] = "take" /\ ~plan[r].live => plan[r].reach \notin held
    /\ Approve /\ ~plan[r].live /\ (pc[r] \in {"sign", "prompt"} \/ signed[r] = "signature")
         => ByUser(r)
    /\ pc[r] = "keep" => ByUser(r)
    /\ "enclave" \in asked[r] => Guarded
    /\ plan[r].reach = Everywhere => plan[r].unlock_reuse = 0

\* Only approvals that last are recorded, and only they are ridden.
Lasting ==
  /\ Grant(Everywhere).window = 0 => approved = NoApprovals
  /\ \A r \in Req : plan[r].live => plan[r].window > 0

\* With no sign-out, what is approved is held: a request that will open an
\* approval holds its context from before the sheet, and one that rides finds it.
Holding ==
  ~EndsAtLock /\ ~ClockFails =>
    /\ \A k \in Reach : approved[k] # Absent => k \in held
    /\ \A r \in Req :
         /\ (/\ Hold(r)
             /\ \/ pc[r] \in {"sheet", "sign", "prompt"}
                \/ pc[r] = "settle" /\ signed[r] = "signature") => plan[r].reach \in held
         /\ pc[r] = "drop" => \A k \in plan[r].expired : approved[k] = Absent
         /\ pc[r] = "forget" => ~plan[r].live

\* A request that rides is not asked for, unless the enclave asks.
RidesUnasked ==
  EndsAtLock \/ ~ClockFails => \A r \in Req : plan[r].live => asked[r] \subseteq {"enclave"}

AskedInv == Results /\ Asking /\ Lasting /\ Holding /\ RidesUnasked

-----------------------------------------------------------------------------
(* One lemma for each. *)

\* What a failed request logs is the name of a failure (the text of the error).
LEMMA ErrNames ==
  ASSUME TypeOK, Results, NEW r \in Req, Fail(r)
  PROVE  Err(r) \notin {"none", "ok"}
BY DEF Fail, HasSignature, Err, Results, TypeOK, Signed

\* Every step brings results and outcomes in their time.
LEMMA ResultsStep ==
  ASSUME TypeOK, Locking, Results, [Next]_vars
  PROVE  Results'
<1> USE SignInAssumption DEF Results, Untaken, Goto, Thread
<1>1. CASE UNCHANGED vars \/ Horizon \/ Tick \/ ScreenChanges
  BY <1>1 DEF vars, locals, Horizon, Tick, ScreenChanges
<1>2. CASE Wake \/ Expire \/ Busy \/ Release
  BY <1>2 DEF Wake, Expire, Busy, Release, locals, TypeOK
<1>3. ASSUME NEW t \in Thread, Look(t) \/ EndApprovals(t) PROVE Results'
  BY <1>3 DEF Look, EndApprovals, locals, TypeOK
<1>4. ASSUME NEW t \in Thread, See(t) PROVE Results'
  BY <1>4 DEF See, Back, TypeOK
<1>5. ASSUME NEW t \in Thread, ForgetAll(t) PROVE Results'
  BY <1>5 DEF ForgetAll, Back, locals, TypeOK
<1>6. ASSUME NEW r \in Req, Turn(r) \/ Count(r) \/ Decide(r) \/ Drop(r) \/ Answer(r)
      PROVE  Results'
  BY <1>6 DEF Turn, Count, Decide, Drop, Answer, Barred, locals, TypeOK
<1>7. ASSUME NEW r \in Req, TakeHeld(r) \/ TakeSecret(r) \/ TakeContext(r)
      PROVE  Results'
  BY <1>7 DEF TakeHeld, TakeSecret, TakeContext, Authenticate, Authenticated, Barred, locals, TypeOK
<1>8. ASSUME NEW r \in Req,
             Accept(r) \/ Decline(r) \/ Keep(r) \/ Sign(r) \/ EnclaveAsks(r)
               \/ EnclaveAnswered(r)
      PROVE  Results'
  BY <1>8 DEF Accept, Authenticated, Decline, Keep, Sign, EnclaveAsks, EnclaveAnswered, Barred,
              locals, TypeOK
<1>9. ASSUME NEW r \in Req, Admit(r) \/ Refuse(r) \/ Forget(r) PROVE Results'
  <2>1. CASE Admit(r)
    BY <2>1 DEF Admit, HasSignature, TypeOK
  <2>2. CASE Refuse(r)
    BY <2>2 DEF Refuse, TypeOK
  <2>3. CASE Forget(r)
    BY <2>3 DEF Forget, locals, TypeOK
  <2> QED BY <1>9, <2>1, <2>2, <2>3
<1>10. ASSUME NEW r \in Req, Fail(r) PROVE Results'
  BY <1>10, ErrNames DEF Fail, TypeOK
<1> QED BY NextCases, <1>1, <1>2, <1>3, <1>4, <1>5, <1>6, <1>7, <1>8, <1>9, <1>10

\* decide rides, and admit records, only what lasts.
LEMMA LastingStep ==
  ASSUME TypeOK, Locking, Plans, Lasting, [Next]_vars
  PROVE  Lasting'
<1> USE SignInAssumption DEF Lasting, Thread
<1>1. CASE UNCHANGED vars \/ Horizon \/ Tick \/ ScreenChanges \/ Wake \/ Busy \/ Release
  BY <1>1 DEF vars, shared, locals, Horizon, Tick, ScreenChanges, Wake, Busy, Release
<1>2. CASE Expire
  BY <1>2 DEF Expire, Without, NoApprovals
<1>3. ASSUME NEW t \in Thread, Look(t) \/ See(t) \/ EndApprovals(t) \/ ForgetAll(t)
      PROVE  Lasting'
  BY <1>3 DEF Look, See, EndApprovals, ForgetAll, locals
<1>4. ASSUME NEW r \in Req, \/ Turn(r) \/ Count(r) \/ Drop(r) \/ TakeHeld(r) \/ TakeSecret(r)
                            \/ TakeContext(r) \/ Accept(r) \/ Decline(r) \/ Keep(r) \/ Sign(r)
                            \/ EnclaveAsks(r) \/ EnclaveAnswered(r)
                            \/ Refuse(r) \/ Fail(r) \/ Forget(r)
      PROVE  Lasting'
  BY <1>4 DEF Turn, Count, Drop, TakeHeld, TakeSecret, TakeContext, Authenticate, Authenticated,
              Accept, Decline, Keep,
              Sign, EnclaveAsks, EnclaveAnswered, Refuse, Fail, Forget, shared, locals
<1>5. ASSUME NEW r \in Req, Decide(r) PROVE Lasting'
  <2>1. PICK c \in Reading : plan' = [plan EXCEPT ![r] = decide(PlaceOf[r], approved, c)]
    BY <1>5 DEF Decide
  <2>2. decide(PlaceOf[r], approved, c).live => decide(PlaceOf[r], approved, c).window > 0
    BY DEF decide, reuse_covers
  <2>3. Grant(Everywhere).window = 0 => approved' = NoApprovals
    BY <1>5 DEF Decide, Without, NoApprovals
  <2> QED BY <2>1, <2>2, <2>3 DEF TypeOK
<1>6. ASSUME NEW r \in Req, Admit(r) PROVE Lasting'
  <2>1. plan[r].window = Grant(Everywhere).window
    BY <1>6, OneWindow DEF Admit, Plans, PlanHolds, Planned, UnderWay
  <2> QED BY <1>6, <2>1 DEF Admit, opened
<1>7. ASSUME NEW r \in Req, Answer(r) PROVE Lasting'
  BY <1>7 DEF Answer, NoPlan, TypeOK
<1> QED BY NextCases, <1>1, <1>2, <1>3, <1>4, <1>5, <1>6, <1>7

\* The sheet is raised for the request that takes its secret or context, and a
\* request that rides nothing gets no further without it.
LEMMA AskingStep ==
  ASSUME TypeOK, Locking, Sheets, Results, Asking, [Next]_vars
  PROVE  Asking'
<1> USE SignInAssumption DEF Asking, ByUser, UnderWay, Goto, Thread
<1>1. CASE UNCHANGED vars \/ Horizon \/ Tick \/ ScreenChanges
  BY <1>1 DEF vars, locals, history, Horizon, Tick, ScreenChanges
<1>2. CASE Wake \/ Expire \/ Busy
  BY <1>2 DEF Wake, Expire, Busy, locals, history, TypeOK
<1>3. CASE Release
  BY <1>3 DEF Release, Forgetting, TypeOK
<1>4. ASSUME NEW t \in Thread, Look(t) \/ EndApprovals(t) PROVE Asking'
  BY <1>4 DEF Look, EndApprovals, locals, history, TypeOK
<1>5. ASSUME NEW t \in Thread, See(t) PROVE Asking'
  BY <1>5 DEF See, Back, history, TypeOK
<1>6. ASSUME NEW t \in Thread, ForgetAll(t) PROVE Asking'
  BY <1>6 DEF ForgetAll, Back, Forgetting, locals, TypeOK
<1>7. ASSUME NEW r \in Req, Turn(r) \/ Count(r) PROVE Asking'
  BY <1>7 DEF Turn, Count, Barred, history, TypeOK
<1>8. ASSUME NEW r \in Req, Decide(r) PROVE Asking'
  <2>1. signed[r] = "none" /\ asked[r] = {}
    BY <1>8 DEF Decide, Results, Untaken
  <2>2. \A q \in Req \ {r} : plan'[q] = plan[q] /\ pc'[q] = pc[q]
    BY <1>8 DEF Decide, TypeOK
  <2>3. plan'[r].reach = Everywhere => plan'[r].unlock_reuse = 0
    BY <1>8 DEF Decide, decide, TypeOK
  <2>4. pc'[r] = "drop" /\ UNCHANGED <<asked, signed, held>>
    BY <1>8 DEF Decide, history, TypeOK
  <2> QED BY <2>1, <2>2, <2>3, <2>4
<1>9. ASSUME NEW r \in Req, Drop(r) PROVE Asking'
  BY <1>9 DEF Drop, Dropped, Forgetting, Results, Untaken, locals, TypeOK
<1>10. ASSUME NEW r \in Req, TakeHeld(r) PROVE Asking'
  BY <1>10 DEF TakeHeld, Found, locals, TypeOK
<1>11. ASSUME NEW r \in Req, TakeSecret(r) PROVE Asking'
  <2>1. CASE Riding(r)
    BY <1>11, <2>1 DEF TakeSecret, Riding, Barred, TypeOK
  <2>2. CASE Authenticate(r) /\ UNCHANGED <<signed, held>>
    BY <1>11, <2>2 DEF TakeSecret, Authenticate, Authenticated, TypeOK
  <2> QED BY <1>11, <2>1, <2>2 DEF TakeSecret
<1>12. ASSUME NEW r \in Req, TakeContext(r) PROVE Asking'
  <2>1. \A q \in Req \ {r} : pc[q] # "take"
    BY <1>12 DEF TakeContext, Authenticate, Authenticated, Locking
  <2> QED BY <1>12, <2>1 DEF TakeContext, Authenticate, Authenticated, locals, TypeOK
<1>13. ASSUME NEW r \in Req,
              Accept(r) \/ Sign(r) \/ EnclaveAsks(r) \/ EnclaveAnswered(r)
       PROVE  Asking'
  BY <1>13 DEF Accept, Authenticated, Sign, EnclaveAsks, EnclaveAnswered, Barred, locals,
               history, TypeOK
<1>14. ASSUME NEW r \in Req, Decline(r) PROVE Asking'
  BY <1>14 DEF Decline, Forgetting, Barred, TypeOK
<1>15. ASSUME NEW r \in Req, Keep(r) PROVE Asking'
  <2>1. \A q \in Req \ {r} : pc[q] # "take"
    BY <1>15 DEF Keep, Locking
  <2> QED BY <1>15, <2>1 DEF Keep, locals, TypeOK
<1>16. ASSUME NEW r \in Req, Admit(r) \/ Refuse(r) \/ Fail(r) PROVE Asking'
  <2>1. UNCHANGED <<asked, plan, signed, held>> /\ pc[r] = "settle" /\ pc'[r] \in {"forget", "log"}
    BY <1>16 DEF Admit, Refuse, Fail, history, TypeOK
  <2>2. \A q \in Req \ {r} : pc'[q] = pc[q]
    BY <1>16 DEF Admit, Refuse, Fail, TypeOK
  <2> QED BY <2>1, <2>2
<1>17. ASSUME NEW r \in Req, Forget(r) PROVE Asking'
  BY <1>17 DEF Forget, Forgetting, locals, TypeOK
<1>18. ASSUME NEW r \in Req, Answer(r) PROVE Asking'
  <2>1. /\ asked'[r] = {} /\ signed'[r] = "none" /\ plan'[r] = NoPlan /\ pc'[r] = "done"
        /\ held' = held
    BY <1>18 DEF Answer, TypeOK
  <2>2. \A q \in Req \ {r} : /\ pc'[q] = pc[q] /\ asked'[q] = asked[q]
                             /\ plan'[q] = plan[q] /\ signed'[q] = signed[q]
    BY <1>18 DEF Answer, TypeOK
  <2> QED BY <2>1, <2>2 DEF NoPlan
<1> QED
  BY NextCases, <1>1, <1>2, <1>3, <1>4, <1>5, <1>6, <1>7, <1>8, <1>9, <1>10, <1>11,
     <1>12, <1>13, <1>14, <1>15, <1>16, <1>17, <1>18

\* A request that rides nothing has nothing to lose: what it would open, and so
\* what it lets go of, is not approved.
LEMMA NothingToLose ==
  ASSUME TypeOK, Plans, Lasting, ~ClockFails,
         NEW r \in Req, Planned(r), ~plan[r].live
  PROVE  approved[plan[r].reach] = Absent
<1>1. plan[r].window = Grant(Everywhere).window /\ plan[r].reach \in Reach /\ plan[r].window \in Nat
  BY OneWindow DEF Plans, PlanHolds, TypeOK, Plan
<1>2. CASE plan[r].window = 0
  BY <1>1, <1>2 DEF Lasting, NoApprovals
<1>3. CASE plan[r].window > 0
  BY <1>3 DEF Plans, PlanHolds
<1> QED BY <1>1, <1>2, <1>3

\* Without sign-outs, nothing that is approved is let go of.
LEMMA HoldingStep ==
  ASSUME TypeOK, Locking, Plans, Results, Asking, Lasting, Holding, RidesUnasked, [Next]_vars
  PROVE  Holding'
<1> SUFFICES ASSUME ~EndsAtLock, ~ClockFails PROVE Holding'
  BY DEF Holding
<1> USE SignInAssumption, ApprovalsAssumption DEF Holding, Goto, Thread, Hold
<1>1. CASE UNCHANGED vars \/ Horizon \/ Tick \/ ScreenChanges
  BY <1>1 DEF vars, locals, shared, Horizon, Tick, ScreenChanges
<1>2. CASE Wake \/ Expire \/ Busy \/ Release
  BY <1>2 DEF Wake, Expire, Busy, Release, Locking
<1>3. ASSUME NEW t \in Thread, Look(t) \/ See(t) \/ EndApprovals(t) \/ ForgetAll(t) PROVE Holding'
  BY <1>3 DEF Look, See, EndApprovals, ForgetAll, Locking, InLook
<1>4. ASSUME NEW r \in Req,
             Turn(r) \/ Count(r) \/ Refuse(r) \/ Sign(r) \/ EnclaveAsks(r) \/ EnclaveAnswered(r)
               \/ Accept(r) \/ Answer(r)
      PROVE  Holding'
  <2>1. CASE Refuse(r)
    <3>1. PlanHolds(r) /\ sign_outs = 0 /\ count[r] \in Nat
      BY <2>1 DEF Refuse, Plans, Planned, UnderWay, TypeOK
    <3>2. sign_outs = count[r]
      BY <3>1 DEF PlanHolds
    <3> QED BY <2>1, <3>2 DEF Refuse, SignedOutSince
  <2>2. CASE Answer(r)
    BY <2>2 DEF Answer, TypeOK
  <2>3. CASE Sign(r) \/ EnclaveAsks(r) \/ EnclaveAnswered(r)
    BY <2>3 DEF Sign, EnclaveAsks, EnclaveAnswered, Barred, shared, locals, TypeOK
  <2>5. CASE Accept(r)
    BY <2>5 DEF Accept, Authenticated, shared, locals, TypeOK
  <2>4. CASE Turn(r) \/ Count(r)
    BY <2>4 DEF Turn, Count, Barred, shared, TypeOK
  <2> QED BY <1>4, <2>1, <2>2, <2>3, <2>4, <2>5
<1>5. ASSUME NEW r \in Req, Decide(r) PROVE Holding'
  <2>1. \A q \in Req \ {r} : pc[q] \in {"start", "done"}
    BY <1>5 DEF Decide, Locking
  <2>2. \A k \in Reach : approved'[k] = IF k \in plan'[r].expired THEN Absent ELSE approved[k]
    BY <1>5 DEF Decide, Without
  <2>3. plan'[r].expired \subseteq Reach
    BY <1>5, DecideType, ReadingType DEF Decide, TypeOK
  <2>4. pc'[r] = "drop" /\ (\A q \in Req \ {r} : pc'[q] = pc[q]) /\ held' = held
    BY <1>5 DEF Decide, TypeOK
  <2> QED BY <2>1, <2>2, <2>3, <2>4
<1>6. ASSUME NEW r \in Req, Drop(r) PROVE Holding'
  <2>1. \A q \in Req \ {r} : pc[q] \in {"start", "done"}
    BY <1>6 DEF Drop, Locking
  <2>2. ~plan[r].live => approved[plan[r].reach] = Absent
    BY <1>6, NothingToLose DEF Drop, Planned
  <2>3. \A k \in Dropped(r) : approved[k] = Absent
    BY <1>6, <2>2 DEF Drop, Dropped
  <2>4. /\ pc'[r] \in {"take", "settle"} /\ \A q \in Req \ {r} : pc'[q] = pc[q]
        /\ UNCHANGED <<approved, plan, signed>> /\ signed[r] = "none"
    BY <1>6 DEF Drop, shared, locals, TypeOK, Results, Untaken
  <2>5. held' = held \ Dropped(r)
    BY <1>6 DEF Drop, Forgetting
  <2> QED BY <2>1, <2>3, <2>4, <2>5
<1>7. ASSUME NEW r \in Req, TakeHeld(r) \/ TakeContext(r) PROVE Holding'
  BY <1>7 DEF TakeHeld, TakeContext, Authenticate, Authenticated, Found, Kept, shared, locals,
              TypeOK
<1>8. ASSUME NEW r \in Req, TakeSecret(r) \/ Keep(r) PROVE Holding'
  BY <1>8 DEF TakeSecret, Keep, Hold, Kept, shared, locals, TypeOK, Plan
<1>9. ASSUME NEW r \in Req, Decline(r) PROVE Holding'
  <2>1. \A q \in Req \ {r} : pc[q] \in {"start", "done"}
    BY <1>9 DEF Decline, Locking
  <2>2. approved[plan[r].reach] = Absent
    BY <1>9, NothingToLose DEF Decline, Planned, UnderWay, Asking, RidesUnasked
  <2>3. /\ pc'[r] = "settle" /\ \A q \in Req \ {r} : pc'[q] = pc[q]
        /\ UNCHANGED <<approved, plan>> /\ signed'[r] = "declined"
    BY <1>9 DEF Decline, Barred, shared, TypeOK
  <2>4. held' = held \ {plan[r].reach}
    BY <1>9 DEF Decline, Forgetting
  <2> QED BY <2>1, <2>2, <2>3, <2>4
<1>10. ASSUME NEW r \in Req, Admit(r) PROVE Holding'
  <2>1. \A q \in Req \ {r} : pc[q] \in {"start", "done"}
    BY <1>10 DEF Admit, Locking
  <2>2. \A k \in Reach : approved'[k] # Absent => approved[k] # Absent \/ (k = plan[r].reach /\ Hold(r))
    BY <1>10 DEF Admit, opened, TypeOK, Approvals, Plan
  <2>3. Hold(r) => plan[r].reach \in held
    BY <1>10 DEF Admit, HasSignature
  <2>4. /\ pc'[r] = "log" /\ \A q \in Req \ {r} : pc'[q] = pc[q]
        /\ UNCHANGED <<held, plan>>
    BY <1>10 DEF Admit, TypeOK
  <2>5. \A k \in Reach : approved'[k] # Absent => k \in held'
    BY <2>2, <2>3, <2>4
  <2> QED BY <2>1, <2>4, <2>5
<1>11. ASSUME NEW r \in Req, Fail(r) PROVE Holding'
  <2>1. PlanHolds(r) /\ sign_outs = 0 /\ count[r] \in Nat
    BY <1>11 DEF Fail, Plans, Planned, UnderWay, TypeOK
  <2>2. sign_outs = count[r]
    BY <2>1 DEF PlanHolds
  <2>3. pc'[r] = "forget" => ~plan[r].live
    BY <1>11, <2>2 DEF Fail, MustForget, SignedOutSince, TypeOK
  <2>4. /\ pc'[r] \in {"forget", "log"} /\ \A q \in Req \ {r} : pc'[q] = pc[q]
        /\ UNCHANGED <<approved, held, plan, signed>>
    BY <1>11 DEF Fail, shared, TypeOK
  <2>5. \A q \in Req \ {r} : pc[q] \in {"start", "done"}
    BY <1>11 DEF Fail, Locking
  <2> QED BY <2>3, <2>4, <2>5
<1>12. ASSUME NEW r \in Req, Forget(r) PROVE Holding'
  <2>1. \A q \in Req \ {r} : pc[q] \in {"start", "done"}
    BY <1>12 DEF Forget, Locking
  <2>2. approved[plan[r].reach] = Absent
    BY <1>12, NothingToLose DEF Forget, Planned, UnderWay
  <2>3. /\ pc'[r] = "log" /\ \A q \in Req \ {r} : pc'[q] = pc[q]
        /\ UNCHANGED <<approved, plan>>
    BY <1>12 DEF Forget, shared, locals, TypeOK
  <2>4. held' = held \ {plan[r].reach}
    BY <1>12 DEF Forget, Forgetting
  <2> QED BY <2>1, <2>2, <2>3, <2>4
<1> QED
  BY NextCases, <1>1, <1>2, <1>3, <1>4, <1>5, <1>6, <1>7, <1>8, <1>9, <1>10, <1>11, <1>12

\* A request that rides is not asked: with a sign-in key it fails instead, and
\* with any other it finds what it rides.
LEMMA RidesUnaskedStep ==
  ASSUME TypeOK, Locking, Plans, Asking, Lasting, Holding, RidesUnasked, [Next]_vars
  PROVE  RidesUnasked'
<1> SUFFICES ASSUME EndsAtLock \/ ~ClockFails PROVE RidesUnasked'
  BY DEF RidesUnasked
<1> USE SignInAssumption DEF RidesUnasked, Thread
<1>1. CASE \/ UNCHANGED vars \/ Horizon \/ Tick \/ ScreenChanges
           \/ Wake \/ Expire \/ Busy \/ Release
  BY <1>1 DEF vars, locals, history, Horizon, Tick, ScreenChanges, Wake, Expire, Busy, Release
<1>2. ASSUME NEW t \in Thread, Look(t) \/ See(t) \/ EndApprovals(t) \/ ForgetAll(t)
      PROVE  RidesUnasked'
  BY <1>2 DEF Look, See, EndApprovals, ForgetAll, locals, history
<1>3. ASSUME NEW r \in Req, \/ Turn(r) \/ Count(r) \/ Drop(r) \/ TakeHeld(r) \/ Accept(r)
                            \/ Decline(r) \/ Keep(r) \/ Sign(r) \/ EnclaveAnswered(r) \/ Admit(r)
                            \/ Refuse(r) \/ Fail(r) \/ Forget(r)
      PROVE  RidesUnasked'
  BY <1>3 DEF Turn, Count, Drop, TakeHeld, Accept, Decline, Keep, Sign, EnclaveAnswered, Admit,
              Refuse, Fail, Forget, locals, history
<1>8. ASSUME NEW r \in Req, EnclaveAsks(r) PROVE RidesUnasked'
  BY <1>8 DEF EnclaveAsks, locals, TypeOK
<1>4. ASSUME NEW r \in Req, Decide(r) PROVE RidesUnasked'
  BY <1>4 DEF Decide, Asking, UnderWay, history, TypeOK
<1>5. ASSUME NEW r \in Req, TakeSecret(r) PROVE RidesUnasked'
  BY <1>5 DEF TakeSecret, Authenticate, Riding, TypeOK
<1>6. ASSUME NEW r \in Req, TakeContext(r) PROVE RidesUnasked'
  <2>1. ~plan[r].live
    <3> SUFFICES ASSUME plan[r].live PROVE FALSE
      OBVIOUS
    <3>1. PlanHolds(r) /\ sign_outs = 0 /\ ~EndsAtLock /\ plan[r].reach \in Reach /\ count[r] \in Nat
      BY <1>6 DEF TakeContext, Authenticate, Authenticated, Plans, Planned, UnderWay, TypeOK, Plan
    <3>2. approved[plan[r].reach] # Absent
      BY <3>1 DEF PlanHolds
    <3>3. plan[r].reach \in held /\ plan[r].window > 0
      BY <3>1, <3>2 DEF Holding, Lasting
    <3> QED BY <1>6, <3>3 DEF TakeContext, Authenticate, Authenticated, Found, Hold
  <2> QED BY <1>6, <2>1 DEF TakeContext, Authenticate, Authenticated, locals, TypeOK
<1>7. ASSUME NEW r \in Req, Answer(r) PROVE RidesUnasked'
  BY <1>7 DEF Answer, NoPlan, TypeOK
<1> QED BY NextCases, <1>1, <1>2, <1>3, <1>4, <1>5, <1>6, <1>7, <1>8

\* Who was asked is kept straight in every state of every configuration.
THEOREM AskedKept == Spec => []AskedInv
<1>1. Init => AskedInv
  BY SignInAssumption
  DEF Init, AskedInv, Results, Untaken, Asking, ByUser, UnderWay, Lasting, Holding, RidesUnasked,
      NoApprovals, NoPlan, Hold, Thread
<1>2. IInv /\ AskedInv /\ [Next]_vars => AskedInv'
  BY ResultsStep, LastingStep, AskingStep, HoldingStep, RidesUnaskedStep DEF IInv, AskedInv
<1> QED BY <1>1, <1>2, Inductive, PTL DEF Spec

-----------------------------------------------------------------------------
(* What follows. *)

\* The log's `reused` tells who asked, for every signature.  With a key that no
\* lock signs out this needs a clock that can be read: an approval opened at no
\* time neither covers a request nor runs out, so the next one finds it held.
THEOREM LogIsTrue == EndsAtLock \/ ~ClockFails => (Spec => []LogTellsWhoAsked)
<1>1. SUFFICES ASSUME EndsAtLock \/ ~ClockFails PROVE Spec => []LogTellsWhoAsked
  OBVIOUS
<1>2. IInv /\ AskedInv => LogTellsWhoAsked
  <2> SUFFICES ASSUME IInv, AskedInv, Approve, NEW r \in Req, outcome[r] = "ok"
               PROVE  /\ plan[r].live => asked[r] \subseteq IF Guarded THEN {"enclave"} ELSE {}
                      /\ ~plan[r].live => ByUser(r)
    BY DEF LogTellsWhoAsked, ByUser
  <2>1. signed[r] = "signature" /\ ("enclave" \in asked[r] => Guarded)
    BY DEF AskedInv, Results, Asking
  <2>2. ~plan[r].live => ByUser(r)
    BY <2>1 DEF AskedInv, Asking
  <2>3. plan[r].live => asked[r] \subseteq {"enclave"}
    BY <1>1 DEF AskedInv, RidesUnasked
  <2> QED BY <2>1, <2>2, <2>3
<1> QED BY <1>2, Inductive, AskedKept, PTL

\* With a key that no lock signs out, what is approved is held whenever nobody's
\* turn is under way (ContextCache.take, forget).
THEOREM ApprovalsAreHeld ==
  ~EndsAtLock /\ ~ClockFails => (Spec => []ApprovedIsHeld)
<1>1. SUFFICES ASSUME ~EndsAtLock, ~ClockFails PROVE Spec => []ApprovedIsHeld
  OBVIOUS
<1>2. AskedInv => ApprovedIsHeld
  BY <1>1 DEF AskedInv, Holding, ApprovedIsHeld
<1> QED BY <1>2, AskedKept, PTL

-----------------------------------------------------------------------------
(* SignIn implements Session. *)

\* The state of Session in a state of SignIn (Promise).
Granted == {k \in Reach : approved[k] # Absent}
Answers == [r \in Req |-> CASE outcome[r] = "none" -> "none"
                            [] outcome[r] = "ok" -> "signed"
                            [] OTHER -> "refused"]

\* A request's Touch ID is given to a request whose plan still holds.
LEMMA AskedCounted ==
  ASSUME TypeOK, Plans, Asking, NEW r \in Req, asked[r] # {}, pc[r] # "log"
  PROVE  count[r] <= sign_outs /\ count[r] \in Nat /\ Planned(r)
BY DEF TypeOK, Plans, PlanHolds, Asking, Planned

\* The outcomes of a step of one request, seen as answers.
LEMMA AnswersStep ==
  ASSUME TypeOK, NEW r \in Req, NEW o \in Outcome, outcome' = [outcome EXCEPT ![r] = o]
  PROVE  Answers' = [Answers EXCEPT ![r] = CASE o = "none" -> "none"
                                             [] o = "ok" -> "signed"
                                             [] OTHER -> "refused"]
<1> DEFINE A(x) == CASE x = "none" -> "none" [] x = "ok" -> "signed" [] OTHER -> "refused"
<1>1. Answers = [q \in Req |-> A(outcome[q])] /\ Answers' = [q \in Req |-> A(outcome'[q])]
  BY DEF Answers
<1>2. \A q \in Req : outcome'[q] = IF q = r THEN o ELSE outcome[q]
  BY DEF TypeOK
<1> HIDE DEF A
<1>3. Answers' = [Answers EXCEPT ![r] = A(o)]
  BY <1>1, <1>2
<1> QED BY <1>3 DEF A

\* The steps that Session does not see.
LEMMA Unseen ==
  ASSUME IInv, AskedInv,
         \/ UNCHANGED vars \/ Horizon \/ Tick \/ ScreenChanges \/ Wake \/ Busy \/ Release
         \/ \E t \in Thread : Look(t) \/ See(t) \/ ForgetAll(t)
         \/ \E r \in Req : \/ Turn(r) \/ Count(r) \/ Drop(r) \/ TakeHeld(r)
                          \/ Decline(r) \/ Keep(r) \/ Forget(r)
                          \/ Sign(r) \/ EnclaveAsks(r) \/ EnclaveAnswered(r)
  PROVE  UNCHANGED <<Granted, Touched, Answers>>
<1>1. approved' = approved /\ outcome' = outcome
  BY DEF vars, shared, locals, Horizon, Tick, ScreenChanges, Wake, Busy, Release, Look, See,
         ForgetAll, Turn, Count, Drop, TakeHeld, Decline, Keep, Forget, Sign, EnclaveAsks,
         EnclaveAnswered
<1>2. Touched' = Touched
  <2> USE SignInAssumption DEF IInv, AskedInv, Touched, Goto, Thread
  <2>1. CASE UNCHANGED vars \/ Horizon \/ Tick \/ ScreenChanges
    BY <2>1 DEF vars, shared, locals, history, Horizon, Tick, ScreenChanges
  <2>2. CASE Wake \/ Busy \/ Release
    BY <2>2 DEF Wake, Busy, Release, shared, locals, history, TypeOK
  <2>3. ASSUME NEW t \in Thread, Look(t) \/ ForgetAll(t) PROVE Touched' = Touched
    BY <2>3 DEF Look, ForgetAll, Back, locals, history, TypeOK
  <2>4. ASSUME NEW t \in Thread, See(t) PROVE Touched' = Touched
    BY <2>4 DEF See, Back, history, TypeOK
  <2>5. ASSUME NEW r \in Req, Turn(r) \/ Count(r) PROVE Touched' = Touched
    <3>1. asked[r] = {}
      BY <2>5 DEF Turn, Count, Asking, UnderWay
    <3> QED BY <2>5, <3>1 DEF Turn, Count, Barred, shared, history, TypeOK
  <2>6. ASSUME NEW r \in Req, Drop(r) \/ TakeHeld(r) PROVE Touched' = Touched
    <3>1. asked[r] = {}
      BY <2>6 DEF Drop, TakeHeld, Asking, UnderWay
    <3> QED BY <2>6, <3>1 DEF Drop, TakeHeld, shared, locals, TypeOK
  <2>7. ASSUME NEW r \in Req, Decline(r) \/ Keep(r) \/ Forget(r) PROVE Touched' = Touched
    BY <2>7 DEF Decline, Keep, Forget, Barred, shared, locals, history, TypeOK
  <2>8. ASSUME NEW r \in Req, Sign(r) PROVE Touched' = Touched
    <3>1. signed[r] = "none" /\ signed'[r] \in {"signature", "failed"} /\ pc'[r] \in {"look", "settle"}
      BY <2>8 DEF Sign, Barred, Results, TypeOK
    <3>2. \A q \in Req \ {r} : pc'[q] = pc[q] /\ signed'[q] = signed[q]
      BY <2>8 DEF Sign, Barred, TypeOK
    <3> QED BY <2>8, <3>1, <3>2 DEF Sign, shared, history, TypeOK
  <2>9. ASSUME NEW r \in Req, EnclaveAsks(r) PROVE Touched' = Touched
    <3>1. /\ pc[r] = "sign" /\ pc'[r] = "prompt" /\ signed' = signed
          /\ asked'[r] \cap {"sheet", "unlock"} = asked[r] \cap {"sheet", "unlock"}
      BY <2>9 DEF EnclaveAsks, locals, TypeOK
    <3>2. \A q \in Req \ {r} : pc'[q] = pc[q] /\ asked'[q] = asked[q]
      BY <2>9 DEF EnclaveAsks, TypeOK
    <3> QED BY <2>9, <3>1, <3>2 DEF EnclaveAsks, shared, locals
  <2>10. ASSUME NEW r \in Req, EnclaveAnswered(r) PROVE Touched' = Touched
    <3>1. signed[r] = "none" /\ signed'[r] \in {"signature", "failed"} /\ pc'[r] = "settle"
      BY <2>10 DEF EnclaveAnswered, Results, TypeOK
    <3>2. \A q \in Req \ {r} : pc'[q] = pc[q] /\ signed'[q] = signed[q]
      BY <2>10 DEF EnclaveAnswered, TypeOK
    <3> QED BY <2>10, <3>1, <3>2 DEF EnclaveAnswered, shared, history, TypeOK
  <2> QED BY <2>1, <2>2, <2>3, <2>4, <2>5, <2>6, <2>7, <2>8, <2>9, <2>10
<1> QED BY <1>1, <1>2 DEF Granted, Answers

\* An unlock that stands in for a sheet gives the Touch ID at once.
LEMMA TakeTouches ==
  ASSUME IInv, AskedInv, NEW r \in Req, TakeSecret(r) \/ TakeContext(r)
  PROVE  /\ Answers[r] = "none"
         /\ Touched' \in {Touched, Touched \cup {r}}
         /\ UNCHANGED <<Granted, Answers>>
<1>1. /\ pc[r] = "take" /\ outcome[r] = "none" /\ r \notin Touched
      /\ UNCHANGED <<approved, sign_outs, count, outcome>>
  BY DEF TakeSecret, TakeContext, shared, locals, AskedInv, Asking, Results, Touched
<1>2. \A q \in Req \ {r} : /\ pc'[q] = pc[q] /\ signed'[q] = signed[q]
                           /\ asked'[q] = asked[q] /\ count'[q] = count[q]
  BY DEF TakeSecret, TakeContext, Authenticate, Authenticated, Barred, Goto, locals,
         IInv, TypeOK, Thread
<1>3. \A q \in Req \ {r} : q \in Touched' <=> q \in Touched
  BY <1>1, <1>2 DEF Touched
<1>4. Touched' \in {Touched, Touched \cup {r}}
  <2>1. Touched \subseteq Req /\ Touched' \subseteq Req
    BY DEF Touched
  <2> QED BY <1>1, <1>3, <2>1
<1> QED BY <1>1, <1>4 DEF Granted, Answers

\* The user's Touch ID is Session's, unless a sign-out has voided it already.
LEMMA AcceptTouches ==
  ASSUME IInv, AskedInv, NEW r \in Req, Accept(r)
  PROVE  /\ Answers[r] = "none"
         /\ Touched' \in {Touched, Touched \cup {r}}
         /\ UNCHANGED <<Granted, Answers>>
<1>1. "sheet" \in asked[r] /\ outcome[r] = "none" /\ signed[r] = "none"
  BY DEF Accept, Authenticated, IInv, AskedInv, Asking, Results, TypeOK
<1>2. /\ pc' = [pc EXCEPT ![r] = IF EndsAtLock THEN "keep" ELSE "sign"] /\ pc[r] = "sheet"
      /\ UNCHANGED <<approved, sign_outs, count, signed, outcome, asked>>
  BY DEF Accept, Authenticated, Goto, shared, locals, history
<1>3. \A q \in Req \ {r} : pc'[q] = pc[q]
  BY <1>2 DEF IInv, TypeOK, Thread
<1>4. Touched' = IF sign_outs = count[r] THEN Touched \cup {r} ELSE Touched
  <2>1. pc'[r] \in {"keep", "sign"}
    BY <1>2 DEF IInv, TypeOK, Thread
  <2>2. r \in Touched' <=> sign_outs = count[r]
    BY <1>1, <1>2, <2>1 DEF Touched
  <2>3. r \notin Touched /\ Touched \subseteq Req /\ Touched' \subseteq Req
    BY <1>2 DEF Touched
  <2>4. \A q \in Req \ {r} : q \in Touched' <=> q \in Touched
    BY <1>2, <1>3 DEF Touched
  <2> QED BY <2>2, <2>3, <2>4
<1> QED BY <1>1, <1>2, <1>4 DEF Granted, Answers

\* A request that is settled has no Touch ID left.
LEMMA SettledUntouched ==
  ASSUME IInv, NEW r \in Req, Admit(r) \/ Refuse(r) \/ Fail(r)
  PROVE  Touched' = Touched \ {r}
<1>1. /\ pc'[r] \in {"forget", "log"} /\ \A q \in Req \ {r} : pc'[q] = pc[q]
      /\ UNCHANGED <<sign_outs, count, signed, asked>>
  BY DEF Admit, Refuse, Fail, Goto, shared, history, IInv, TypeOK, Thread
<1> QED BY <1>1 DEF Touched

\* A signature that admit lets go rides an approval that stands, or has a Touch
\* ID that nobody was signed out since, when signing asks at all.
LEMMA AdmitSigns ==
  ASSUME IInv, AskedInv, NEW r \in Req, Admit(r)
  PROVE  LET Covered == Grant(PlaceOf[r]).reach
         IN  /\ Answers[r] = "none"
             /\ \/ Covered \in Granted /\ UNCHANGED Granted
                \/ r \in Touched /\ Granted' \in {Granted, Granted \cup {Covered}}
                \/ ~Approve /\ Granted' \in {Granted, Granted \cup {Covered}}
             /\ Touched' = Touched \ {r}
             /\ Answers' = [Answers EXCEPT ![r] = "signed"]
<1> DEFINE k == Grant(PlaceOf[r]).reach
<1>1. /\ PlanHolds(r) /\ sign_outs = count[r] /\ outcome[r] = "none" /\ signed[r] = "signature"
      /\ pc[r] = "settle"
  BY DEF Admit, HasSignature, SignedOutSince, IInv, Plans, Planned, UnderWay, AskedInv, Results
<1>2. k = plan[r].reach /\ k \in Reach
  BY <1>1 DEF PlanHolds, IInv, TypeOK, Plan
<1>3. PICK c \in Reading : approved' = opened(approved, plan[r], c)
  BY DEF Admit
<1>4. c # Absent
  BY <1>3, ReadingType DEF IInv, TypeOK, Time, NaN, Absent
<1>5. plan[r].live => k \in Granted /\ approved' = approved
  BY <1>1, <1>2, <1>3 DEF PlanHolds, opened, Granted
<1>6. ~plan[r].live /\ Approve => r \in Touched
  BY <1>1 DEF AskedInv, Asking, ByUser, Touched
<1>7. Granted' \in {Granted, Granted \cup {k}}
  <2>1. approved' = approved \/ approved' = [approved EXCEPT ![plan[r].reach] = c]
    BY <1>3 DEF opened
  <2>2. approved \in [Reach -> Time \cup {Absent}]
    BY DEF IInv, TypeOK, Approvals
  <2> QED BY <1>2, <1>4, <2>1, <2>2 DEF Granted
<1>8. Answers[r] = "none" /\ Answers' = [Answers EXCEPT ![r] = "signed"]
  <2>1. "ok" \in Outcome /\ TypeOK /\ outcome' = [outcome EXCEPT ![r] = "ok"]
    BY DEF Outcome, IInv, Admit
  <2>2. Answers' = [Answers EXCEPT ![r] = CASE "ok" = "none" -> "none"
                                            [] "ok" = "ok" -> "signed"
                                            [] OTHER -> "refused"]
    BY <2>1, AnswersStep
  <2> QED BY <1>1, <2>2 DEF Answers
<1> QED BY <1>5, <1>6, <1>7, <1>8, SettledUntouched DEF Granted

\* A request that is refused or fails leaves nothing.
LEMMA FailRefuses ==
  ASSUME IInv, AskedInv, NEW r \in Req, Refuse(r) \/ Fail(r)
  PROVE  /\ Answers[r] = "none"
         /\ Touched' = Touched \ {r}
         /\ Answers' = [Answers EXCEPT ![r] = "refused"]
         /\ UNCHANGED Granted
<1>1. outcome[r] = "none" /\ approved' = approved
  BY DEF Refuse, Fail, shared, AskedInv, Results
<1>2. PICK o \in Outcome \ {"none", "ok"} : outcome' = [outcome EXCEPT ![r] = o]
  <2>1. CASE Refuse(r)
    BY <2>1 DEF Refuse, Outcome
  <2>2. CASE Fail(r)
    <3>1. Err(r) \in Outcome
      BY <2>2 DEF Fail, HasSignature, Err, IInv, TypeOK, Signed, Outcome
    <3> QED BY <2>2, <3>1, ErrNames DEF Fail, IInv, AskedInv
  <2> QED BY <2>1, <2>2
<1>3. Answers' = [Answers EXCEPT ![r] = CASE o = "none" -> "none"
                                          [] o = "ok" -> "signed"
                                          [] OTHER -> "refused"]
  BY <1>2, AnswersStep DEF IInv
<1>4. (CASE o = "none" -> "none" [] o = "ok" -> "signed" [] OTHER -> "refused") = "refused"
  BY <1>2
<1> QED BY <1>1, <1>3, <1>4, SettledUntouched DEF Answers, Granted

\* The answer ends the request, for Session too.
LEMMA AnswerFinishes ==
  ASSUME IInv, AskedInv, NEW r \in Req, Answer(r)
  PROVE  /\ Answers[r] # "none"
         /\ Answers' = [Answers EXCEPT ![r] = "none"]
         /\ UNCHANGED <<Granted, Touched>>
<1>1. outcome[r] # "none" /\ pc[r] = "log" /\ approved' = approved
  BY DEF Answer, AskedInv, Results
<1>2. Answers[r] # "none"
  BY <1>1 DEF Answers
<1>3. Answers' = [Answers EXCEPT ![r] = CASE "none" = "none" -> "none"
                                          [] "none" = "ok" -> "signed"
                                          [] OTHER -> "refused"]
  BY AnswersStep DEF Answer, IInv, Outcome
<1>4. Touched' = Touched
  <2>1. /\ pc'[r] = "done" /\ sign_outs' = sign_outs
        /\ \A q \in Req \ {r} : /\ pc'[q] = pc[q] /\ count'[q] = count[q]
                                 /\ signed'[q] = signed[q] /\ asked'[q] = asked[q]
    BY DEF Answer, Goto, IInv, TypeOK, Thread
  <2> QED BY <1>1, <2>1 DEF Touched, IInv, TypeOK
<1> QED BY <1>1, <1>2, <1>3, <1>4 DEF Granted

\* Approvals only run out in decide and under the watch's turn.
LEMMA ExpiryRunsOut ==
  ASSUME IInv, AskedInv, Expire \/ \E r \in Req : Decide(r)
  PROVE  Granted' \in SUBSET Granted /\ UNCHANGED <<Touched, Answers>>
<1>1. Granted' \in SUBSET Granted
  BY DEF Expire, Decide, Without, Granted
<1>2. CASE Expire
  BY <1>1, <1>2, SignInAssumption DEF Expire, Goto, Touched, Answers, history, IInv, TypeOK, Thread
<1>3. ASSUME NEW r \in Req, Decide(r) PROVE UNCHANGED <<Touched, Answers>>
  <2>1. asked[r] = {}
    BY <1>3 DEF Decide, AskedInv, Asking, UnderWay
  <2>2. /\ UNCHANGED <<asked, signed, count, sign_outs, outcome>>
        /\ \A q \in Req \ {r} : pc'[q] = pc[q]
    BY <1>3 DEF Decide, Goto, history, IInv, TypeOK, Thread
  <2> QED BY <2>1, <2>2 DEF Touched, Answers, IInv, TypeOK
<1> QED BY <1>1, <1>2, <1>3

\* end_approvals voids every approval and every Touch ID in one step.
LEMMA EndVoids ==
  ASSUME IInv, AskedInv, NEW t \in Thread, EndApprovals(t)
  PROVE  Granted' = {} /\ Touched' = {} /\ UNCHANGED Answers
<1>1. Granted' = {} /\ UNCHANGED Answers
  BY DEF EndApprovals, NoApprovals, locals, Granted, Answers
<1>2. ASSUME NEW r \in Touched' PROVE FALSE
  <2>1. asked[r] # {} /\ pc'[r] # "log" /\ sign_outs' = count'[r] /\ r \in Req
    BY <1>2 DEF EndApprovals, history, Touched, IInv, TypeOK
  <2>2. pc[r] # "log" /\ count'[r] = count[r] /\ sign_outs' = sign_outs + 1 /\ sign_outs \in Nat
    BY <2>1 DEF EndApprovals, Goto, locals, IInv, TypeOK, Thread
  <2>3. count[r] <= sign_outs /\ count[r] \in Nat
    BY <2>1, <2>2, AskedCounted DEF IInv, AskedInv
  <2> QED BY <2>1, <2>2, <2>3
<1> QED BY <1>1, <1>2

\* Every step of SignIn is one step of Session, or none.
LEMMA Simulation ==
  ASSUME IInv, AskedInv, [Next]_vars
  PROVE  [Promise!Next]_(Promise!vars)
<1> USE DEF Granted, Answers
<1>1. ASSUME NEW r \in Req, Accept(r) \/ TakeSecret(r) \/ TakeContext(r)
      PROVE  [Promise!Next]_(Promise!vars)
  <2>1. Promise!Touch(r) \/ UNCHANGED <<Granted, Touched, Answers>>
    BY <1>1, AcceptTouches, TakeTouches DEF Promise!Touch
  <2> QED BY <2>1 DEF Promise!Next, Promise!vars
<1>2. ASSUME NEW r \in Req, Admit(r) PROVE Promise!Next
  <2>1. Promise!Sign(r)
    BY <1>2, AdmitSigns DEF Promise!Sign
  <2> QED BY <2>1 DEF Promise!Next
<1>3. ASSUME NEW r \in Req, Refuse(r) \/ Fail(r) PROVE Promise!Next
  <2>1. Promise!Refuse(r)
    BY <1>3, FailRefuses DEF Promise!Refuse
  <2> QED BY <2>1 DEF Promise!Next
<1>4. ASSUME NEW r \in Req, Answer(r) PROVE Promise!Next
  <2>1. Promise!Finish(r)
    BY <1>4, AnswerFinishes DEF Promise!Finish
  <2> QED BY <2>1 DEF Promise!Next
<1>5. CASE Expire \/ \E r \in Req : Decide(r)
  <2>1. Promise!RunOut
    BY <1>5, ExpiryRunsOut DEF Promise!RunOut
  <2> QED BY <2>1 DEF Promise!Next
<1>6. ASSUME NEW t \in Thread, EndApprovals(t) PROVE Promise!Next
  <2>1. Promise!SignOut
    BY <1>6, EndVoids DEF Promise!SignOut
  <2> QED BY <2>1 DEF Promise!Next
<1>7. CASE \/ UNCHANGED vars \/ Horizon \/ Tick \/ ScreenChanges \/ Wake \/ Busy \/ Release
           \/ \E t \in Thread : Look(t) \/ See(t) \/ ForgetAll(t)
           \/ \E r \in Req : \/ Turn(r) \/ Count(r) \/ Drop(r) \/ TakeHeld(r)
                            \/ Decline(r) \/ Keep(r) \/ Forget(r)
                            \/ Sign(r) \/ EnclaveAsks(r) \/ EnclaveAnswered(r)
  <2>1. UNCHANGED <<Granted, Touched, Answers>>
    BY <1>7, Unseen
  <2> QED BY <2>1 DEF Promise!vars
<1> QED BY NextCases, <1>1, <1>2, <1>3, <1>4, <1>5, <1>6, <1>7

\* Threads, looks, sheets and the enclave's cache together keep the promise that
\* Session states: each signature leaves under a standing approval or its own
\* Touch ID, and a sign-out voids both at once.
THEOREM Implements == Spec => KeepsPromise
<1>1. Init => Promise!Init
  BY DEF Init, NoApprovals, Touched, Promise!Init
<1>2. IInv /\ AskedInv /\ [Next]_vars => [Promise!Next]_(Promise!vars)
  BY Simulation
<1> QED BY <1>1, <1>2, Inductive, AskedKept, PTL DEF Spec, KeepsPromise, Promise!Spec
=============================================================================
