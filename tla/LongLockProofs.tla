--------------------------- MODULE LongLockProofs ---------------------------
(***************************************************************************)
(* No signature made with a secret that lived through a long lock leaves   *)
(* the daemon, whatever stalled and whoever looked when: how long a lock   *)
(* must be, and why the second look and the count of sign-outs catch it.   *)
(***************************************************************************)
EXTENDS SessionProofs

-----------------------------------------------------------------------------
(* The invariants. *)

\* The ticks between two looks that `unseen` calls a gap.
Gap == UnseenSecs * Second

\* Nobody was signed out since the request counted.
Current(r) == count[r] = sign_outs

\* What an approval stands for, or will when its request is admitted.
Standing(k) ==
  \/ approved[k] # Absent
  \/ \E r \in Req : UnderWay(r) /\ ~plan[r].live /\ plan[r].reach = k /\ Current(r)

\* A request has, or has had, a secret in hand.
HasSecret(r) ==
  \/ pc[r] \in {"keep", "sign", "prompt", "settle", "forget", "log"}
  \/ pc[r] \in {"look", "see", "end", "wipe"} /\ signed[r] # "none"

\* No look is of the future, and with the screen unlocked a secret has lived
\* through a long lock or through none.
Times ==
  /\ looked <= clock
  /\ \A t \in Thread : now[t] <= clock
  /\ screen = "Unlocked" => \A x \in Reach \cup Req : age[x] \in {0, LongLock}
  /\ \A r \in Req : ~HasSecret(r) => age[r] = 0

\* When a request was signed out under, no approval is left.
Ended ==
  \A r \in Req : (pc[r] = "decide" \/ Planned(r)) /\ ~Current(r) => approved = NoApprovals

\* A look that can tell, or did: a secret that lived through some of a lock was
\* not looked at since before it, or somebody is about to sign everybody out.
\* After a long lock one look that read the clock before the lock may still
\* be recorded, and then the next one is too late for it.
Timely(x) ==
  \/ \E t \in Thread : pc[t] = "end"
  \/ looked = NaN
  \/ looked + age[x] <= clock
  \/ /\ age[x] = LongLock
     /\ looked + (LongLock - Gap + 1) <= clock
     /\ \A t \in Thread : pc[t] = "see" => unseen(looked, now[t])

SecretsTimely ==
  /\ \A k \in held : Standing(k) => Timely(k)
  /\ \A r \in Req :
       Current(r) /\ (pc[r] \in {"keep", "sign"} \/ (pc[r] = "look" /\ signed[r] # "none"))
         => Timely(r)

\* The second look of a request whose secret is too old catches it.
Caught ==
  \A r \in Req : age[r] = LongLock =>
    /\ pc[r] = "see" /\ Current(r) => unseen(looked, now[r])
    /\ pc[r] \in {"wipe", "settle"} => ~Current(r)
    /\ outcome[r] # "ok"

LongLockInv == Times /\ Ended /\ SecretsTimely /\ Caught

-----------------------------------------------------------------------------
(* One lemma for each. *)

\* The gap is some ticks, and a look is too late when it is that much later.
LEMMA GapFacts ==
  /\ Gap \in Nat \ {0}
  /\ \A last, at : unseen(last, at) <=> ~(at # NaN /\ last # NaN /\ at - last < Gap)
BY ApprovalsAssumption DEF Gap, unseen, Within

\* The enclave never asks for a sign-in key.
LEMMA EnclaveSilent ==
  ASSUME EndsAtLock, Sheets, NEW r \in Req
  PROVE  ~EnclaveAsks(r) /\ ~EnclaveAnswered(r)
BY SignInAssumption DEF Sheets, EnclaveAsks, EnclaveAnswered

\* A secret ages only in somebody's hands or in the shim, and a look records a
\* time that was.
LEMMA TimesStep ==
  ASSUME TypeOK, Results, Times, [Next]_vars
  PROVE  Times'
<1> USE SignInAssumption DEF Times, HasSecret, Goto, Thread
<1>1. CASE UNCHANGED vars \/ Horizon
  BY <1>1 DEF vars, world, shared, locals, history, Horizon
<1>2. CASE Tick
  <2>1. clock' = clock + 1 /\ clock \in Nat /\ looked \in Int /\ \A t \in Thread : now[t] \in Int
    BY <1>2 DEF Tick, TypeOK, Time, NaN
  <2>2. /\ UNCHANGED <<looked, now, pc, signed, screen>>
        /\ \A x \in Reach \cup Req : screen = "Unlocked" \/ x \notin Secrets => age'[x] = age[x]
    BY <1>2 DEF Tick, shared, locals
  <2>3. \A r \in Req : ~HasSecret(r) => r \notin Secrets
    BY DEF Secrets, TypeOK
  <2> QED BY <2>1, <2>2, <2>3
<1>3. CASE ScreenChanges
  BY <1>3 DEF ScreenChanges, shared, locals, TypeOK
<1>4. CASE Wake \/ Busy \/ Expire
  BY <1>4 DEF Wake, Busy, Expire, world, shared, locals, history, TypeOK
<1>5. CASE Release
  BY <1>5 DEF Release, Forgetting, world, TypeOK
<1>6. ASSUME NEW t \in Thread, Look(t) PROVE Times'
  <2>1. \A c \in Reading : c <= clock
    BY DEF Reading, NaN, TypeOK
  <2> QED BY <1>6, <2>1 DEF Look, world, history, TypeOK
<1>7. ASSUME NEW t \in Thread, See(t) PROVE Times'
  BY <1>7 DEF See, Back, world, history, TypeOK
<1>8. ASSUME NEW t \in Thread, EndApprovals(t) PROVE Times'
  BY <1>8 DEF EndApprovals, world, locals, history, TypeOK
<1>9. ASSUME NEW t \in Thread, ForgetAll(t) PROVE Times'
  BY <1>9 DEF ForgetAll, Forgetting, Back, world, locals, TypeOK
<1>10. ASSUME NEW r \in Req, Turn(r) \/ Count(r) \/ Decide(r) PROVE Times'
  BY <1>10 DEF Turn, Count, Decide, Barred, Results, Untaken, world, shared, history, TypeOK
<1>11. ASSUME NEW r \in Req, Drop(r) PROVE Times'
  BY <1>11 DEF Drop, Forgetting, world, shared, locals, TypeOK
<1>12. ASSUME NEW r \in Req, TakeHeld(r) PROVE Times'
  <2>1. plan[r].reach \in Reach
    BY DEF TypeOK, Plan
  <2> QED BY <1>12, <2>1 DEF TakeHeld, world, shared, locals, TypeOK
<1>13. ASSUME NEW r \in Req, TakeSecret(r) \/ TakeContext(r) \/ Accept(r) PROVE Times'
  BY <1>13 DEF TakeSecret, TakeContext, Authenticate, Authenticated, Accept, Barred, world,
               shared, locals, history, TypeOK
<1>14. ASSUME NEW r \in Req, Decline(r) PROVE Times'
  BY <1>14 DEF Decline, Forgetting, Barred, world, shared, TypeOK
<1>15. ASSUME NEW r \in Req, Keep(r) PROVE Times'
  <2>1. plan[r].reach \in Reach
    BY DEF TypeOK, Plan
  <2> QED BY <1>15, <2>1 DEF Keep, world, shared, locals, TypeOK
<1>16. ASSUME NEW r \in Req,
              Sign(r) \/ EnclaveAsks(r) \/ EnclaveAnswered(r) \/ Admit(r) \/ Refuse(r)
                \/ Fail(r)
       PROVE  Times'
  <2>1. CASE Sign(r) \/ EnclaveAsks(r) \/ EnclaveAnswered(r)
    BY <2>1 DEF Sign, EnclaveAsks, EnclaveAnswered, Barred, world, shared, locals, history, TypeOK
  <2>2. CASE Admit(r) \/ Refuse(r) \/ Fail(r)
    <3>1. pc'[r] \in {"forget", "log"} /\ \A q \in Req \ {r} : pc'[q] = pc[q]
      BY <2>2 DEF Admit, Refuse, Fail, TypeOK
    <3> QED BY <2>2, <3>1 DEF Admit, Refuse, Fail, world, shared, history
  <2> QED BY <1>16, <2>1, <2>2
<1>17. ASSUME NEW r \in Req, Forget(r) PROVE Times'
  BY <1>17 DEF Forget, Forgetting, world, shared, locals, TypeOK
<1>18. ASSUME NEW r \in Req, Answer(r) PROVE Times'
  BY <1>18 DEF Answer, world, TypeOK
<1> QED
  BY NextCases, <1>1, <1>2, <1>3, <1>4, <1>5, <1>6, <1>7, <1>8, <1>9, <1>10, <1>11,
     <1>12, <1>13, <1>14, <1>15, <1>16, <1>17, <1>18

\* While a request that was signed out under has the gate, nobody is approved.
LEMMA EndedStep ==
  ASSUME TypeOK, Locking, Sheets, Results, Ended, [Next]_vars
  PROVE  Ended'
<1> USE SignInAssumption DEF Ended, Current, Planned, UnderWay, Goto, Thread
<1>1. CASE UNCHANGED vars \/ Horizon \/ Tick \/ ScreenChanges
  BY <1>1 DEF vars, shared, locals, Horizon, Tick, ScreenChanges
<1>2. CASE Wake \/ Busy \/ Release
  BY <1>2 DEF Wake, Busy, Release, shared, locals, TypeOK
<1>3. CASE Expire
  <2>1. \A r \in Req : pc[r] \in {"start", "done"} /\ pc'[r] = pc[r]
    BY <1>3 DEF Expire, Free, Locking, TypeOK
  <2> QED BY <2>1
<1>4. ASSUME NEW t \in Thread, Look(t) \/ EndApprovals(t) PROVE Ended'
  BY <1>4 DEF Look, EndApprovals, locals, TypeOK
<1>5. ASSUME NEW t \in Thread, See(t) PROVE Ended'
  BY <1>5 DEF See, Back, TypeOK
<1>6. ASSUME NEW t \in Thread, ForgetAll(t) PROVE Ended'
  BY <1>6 DEF ForgetAll, Back, locals, TypeOK
<1>7. ASSUME NEW r \in Req, Turn(r) \/ Count(r) \/ Answer(r) PROVE Ended'
  BY <1>7 DEF Turn, Count, Answer, Barred, Sheets, shared, TypeOK
<1>8. ASSUME NEW r \in Req, Decide(r) PROVE Ended'
  <2>1. \A q \in Req \ {r} : pc[q] \in {"start", "done"} /\ pc'[q] = pc[q]
    BY <1>8 DEF Decide, Locking, TypeOK
  <2>2. approved = NoApprovals => approved' = NoApprovals
    BY <1>8 DEF Decide, Without, NoApprovals
  <2> QED BY <1>8, <2>1, <2>2 DEF Decide
<1>9. ASSUME NEW r \in Req, Drop(r) \/ TakeHeld(r) \/ TakeSecret(r) \/ TakeContext(r)
      PROVE  Ended'
  BY <1>9 DEF Drop, TakeHeld, TakeSecret, TakeContext, Authenticate, Authenticated, Barred,
              shared, locals, TypeOK
<1>10. ASSUME NEW r \in Req,
              Accept(r) \/ Decline(r) \/ Keep(r) \/ Sign(r) \/ EnclaveAsks(r)
                \/ EnclaveAnswered(r)
       PROVE  Ended'
  BY <1>10 DEF Accept, Authenticated, Decline, Keep, Sign, EnclaveAsks, EnclaveAnswered, Barred,
               shared, locals, TypeOK
<1>11. ASSUME NEW r \in Req, Refuse(r) \/ Fail(r) \/ Forget(r)
       PROVE  Ended'
  <2>1. /\ pc[r] \in {"settle", "forget"}
        /\ \E l \in {"forget", "log"} : pc' = [pc EXCEPT ![r] = l]
        /\ UNCHANGED <<approved, sign_outs, plan, count, signed>>
    BY <1>11 DEF Refuse, Fail, Forget, shared, locals
  <2> QED BY <2>1 DEF TypeOK
<1>12. ASSUME NEW r \in Req, Admit(r) PROVE Ended'
  <2>1. \A q \in Req : pc'[q] \in {"start", "done", "log"}
    BY <1>12 DEF Admit, Locking, TypeOK
  <2> QED BY <2>1
<1> QED
  BY NextCases, <1>1, <1>2, <1>3, <1>4, <1>5, <1>6, <1>7, <1>8, <1>9, <1>10, <1>11, <1>12

-----------------------------------------------------------------------------
(* Each way a step can bear on Timely. *)

\* A secret of no age is timely.
LEMMA FreshIsTimely ==
  ASSUME TypeOK, Times, NEW x, age[x] = 0
  PROVE  Timely(x)
BY DEF Times, Timely, TypeOK, Time, NaN

\* Nothing is lost where no look begins or ends and the secret grows no older.
LEMMA TimelyKept ==
  ASSUME TypeOK, Times, NEW x, Timely(x), age'[x] \in {age[x], 0},
         UNCHANGED <<clock, looked, now>>,
         \A t \in Thread : pc'[t] = "see" => pc[t] = "see",
         \A t \in Thread : pc[t] = "end" => pc'[t] = "end"
  PROVE  Timely(x)'
<1>1. CASE age'[x] = age[x]
  BY <1>1 DEF Timely
<1>2. CASE age'[x] = 0
  BY <1>2 DEF Timely, Times, TypeOK, Time, NaN
<1> QED BY <1>1, <1>2

\* A tick more of a lock is a tick more since the last look.
LEMMA TickTimely ==
  ASSUME TypeOK, Tick, NEW x \in Reach \cup Req, Timely(x)
  PROVE  Timely(x)'
<1>1. /\ clock' = clock + 1 /\ clock \in Nat /\ age[x] \in Nat /\ looked \in Int
      /\ UNCHANGED <<looked, now, pc>>
      /\ age'[x] \in {age[x], age[x] + 1}
      /\ age[x] = LongLock => age'[x] = LongLock
  BY SignInAssumption DEF Tick, shared, locals, TypeOK, Time, NaN
<1>2. Gap \in Nat /\ LongLock \in Nat
  BY SignInAssumption, GapFacts
<1> QED BY <1>1, <1>2 DEF Timely

\* A look that begins after a long lock finds the gap too long.
LEMMA LookTimely ==
  ASSUME TypeOK, Locking, LongLock >= 2 * Gap - 1,
         NEW t \in Thread, Look(t), NEW x \in Reach \cup Req, Timely(x)
  PROVE  /\ Timely(x)'
         /\ age[x] = LongLock => unseen(looked, now'[t])
<1>1. PICK c \in Reading : now' = [now EXCEPT ![t] = c]
  BY DEF Look
<1>2. \A u \in Thread : pc[u] \notin {"see", "end"}
  BY SignInAssumption DEF Look, Free, Locking, InLook
<1>3. now'[t] = c /\ \A u \in Thread : pc'[u] = "see" => u = t
  BY <1>1, <1>2 DEF Look, Goto, TypeOK
<1>4. c \in {clock, NaN} /\ looked \in Int /\ clock \in Nat /\ age[x] \in Nat
  BY SignInAssumption DEF Reading, TypeOK, Time, NaN
<1>5. Gap \in Nat \ {0} /\ LongLock \in Nat
  BY SignInAssumption, GapFacts
<1>6. UNCHANGED <<clock, looked, age>>
  BY DEF Look, world, history
<1>7. age[x] = LongLock => unseen(looked, c)
  BY <1>2, <1>4, <1>5, GapFacts DEF Timely, NaN
<1>8. Timely(x)'
  BY <1>2, <1>3, <1>6, <1>7 DEF Timely
<1> QED BY <1>3, <1>7, <1>8

\* A look that signs nobody out has a time at most Gap - 1 later than the
\* last, and the screen is unlocked: a secret is new, or its long lock is over.
LEMMA SeeTimely ==
  ASSUME TypeOK, Locking, Times, NEW t \in Thread, See(t),
         NEW x \in Reach \cup Req, Timely(x)
  PROVE  Timely(x)'
<1>1. pc[t] = "see" /\ looked' = now[t] /\ UNCHANGED <<clock, age>>
  BY DEF See, world, history
<1>2. \A u \in Thread \ {t} : pc[u] \notin {"see", "end"} /\ pc'[u] = pc[u]
  BY <1>1 DEF See, Goto, Locking, InLook, TypeOK
<1>3. CASE SignsOut(t)
  <2>1. pc'[t] = "end"
    BY <1>3 DEF See, Goto, TypeOK
  <2> QED BY <2>1 DEF Timely
<1>4. CASE ~SignsOut(t)
  <2>1. pc'[t] \notin {"see", "end"}
    BY <1>4, BackType DEF See, Goto, TypeOK
  <2>2. /\ looked # NaN /\ now[t] # NaN /\ now[t] - looked < Gap
        /\ age[x] \in {0, LongLock}
    BY <1>4, GapFacts DEF SignsOut, Times
  <2>3. now[t] \in Int /\ looked \in Int /\ clock \in Nat /\ now[t] <= clock
    BY DEF TypeOK, Time, NaN, Times
  <2>4. Gap \in Nat /\ LongLock \in Nat
    BY SignInAssumption, GapFacts
  <2>5. CASE age[x] = 0
    BY <1>1, <2>3, <2>5 DEF Timely
  <2>6. CASE age[x] = LongLock
    <3>1. looked + LongLock <= clock
      BY <1>1, <1>2, <1>4, <2>2, <2>6 DEF Timely, SignsOut
    <3>2. now[t] + (LongLock - Gap + 1) <= clock
      BY <2>2, <2>3, <2>4, <3>1
    <3>3. \A u \in Thread : pc'[u] # "see"
      BY <1>2, <2>1
    <3> QED BY <1>1, <2>6, <3>2, <3>3 DEF Timely
  <2> QED BY <2>2, <2>5, <2>6
<1> QED BY <1>3, <1>4

-----------------------------------------------------------------------------
(* The secrets of the shim, and those in a request's hands. *)

\* Steps of the world and of the watch's turn.
LEMMA TimelyWorld ==
  ASSUME TypeOK, Locking, Times, SecretsTimely,
         \/ UNCHANGED vars \/ Horizon \/ Tick \/ ScreenChanges
         \/ Wake \/ Expire \/ Busy \/ Release
  PROVE  SecretsTimely'
<1> USE SignInAssumption DEF SecretsTimely, Standing, Current, UnderWay, Goto, Thread
<1>1. \A x \in Reach \cup Req : Timely(x) => Timely(x)'
  <2>1. CASE Tick
    BY <2>1, TickTimely
  <2>2. CASE UNCHANGED vars \/ Horizon \/ ScreenChanges
    BY <2>2, TimelyKept
    DEF vars, world, shared, locals, history, Horizon, ScreenChanges
  <2>3. CASE Wake \/ Expire \/ Busy
    BY <2>3, TimelyKept
    DEF Wake, Expire, Busy, world, shared, locals, history, TypeOK
  <2>4. CASE Release
    BY <2>4, TimelyKept DEF Release, Forgetting, world, TypeOK
  <2> QED BY <2>1, <2>2, <2>3, <2>4
<1>2. \A q \in Req : pc'[q] = pc[q]
  BY DEF vars, Horizon, Tick, ScreenChanges, Wake, Expire, Busy, Release, TypeOK
<1>3. /\ UNCHANGED <<sign_outs, count, plan, signed>> /\ held' \subseteq held
      /\ \A k \in Reach : approved'[k] \in {approved[k], Absent}
  BY DEF vars, shared, locals, Horizon, Tick, ScreenChanges, Wake, Expire, Busy, Release,
         Forgetting, Without
<1>4. held \subseteq Reach
  BY DEF TypeOK
<1> HIDE DEF Timely
<1> QED BY <1>1, <1>2, <1>3, <1>4

\* Steps of a look.
LEMMA TimelyLook ==
  ASSUME TypeOK, Locking, Plans, Times, SecretsTimely, LongLock >= 2 * Gap - 1,
         NEW t \in Thread, LookStep(t)
  PROVE  SecretsTimely'
<1> USE SignInAssumption DEF SecretsTimely, Standing, Current, UnderWay, Goto, Thread
<1>0. held \subseteq Reach
  BY DEF TypeOK
<1>1. CASE Look(t)
  BY <1>0, <1>1, LookTimely DEF Look, TypeOK
<1>2. CASE See(t)
  <2>1. \A x \in Reach \cup Req : Timely(x) => Timely(x)'
    BY <1>2, SeeTimely
  <2> QED BY <1>0, <1>2, <2>1 DEF See, Back, TypeOK
<1>3. CASE EndApprovals(t)
  <2>1. /\ sign_outs' = sign_outs + 1 /\ sign_outs \in Nat /\ UNCHANGED <<count, plan, signed, held>>
        /\ \A k \in Reach : approved'[k] = Absent
    BY <1>3 DEF EndApprovals, NoApprovals, locals, TypeOK
  <2>2. \A r \in Req : UnderWay(r) => count[r] <= sign_outs /\ count[r] \in Nat
    BY DEF Plans, PlanHolds, Planned, TypeOK
  <2>3. \A r \in Req : UnderWay(r)' => UnderWay(r)
    BY <1>3 DEF EndApprovals, locals, TypeOK
  <2>4. \A r \in Req : UnderWay(r)' => ~Current(r)'
    BY <2>1, <2>2, <2>3
  <2> QED BY <1>0, <2>1, <2>4
<1>4. CASE ForgetAll(t)
  <2>1. \A x \in Reach \cup Req : Timely(x) => Timely(x)'
    BY <1>4, TimelyKept, BackType DEF ForgetAll, Forgetting, world, locals, TypeOK
  <2>2. held' = {}
    BY <1>0, <1>4 DEF ForgetAll, Forgetting
  <2> QED BY <1>4, <2>1, <2>2 DEF ForgetAll, Back, locals, TypeOK
<1> QED BY <1>1, <1>2, <1>3, <1>4 DEF LookStep

\* Steps of a request, which has the gate alone.
LEMMA TimelyRequest ==
  ASSUME EndsAtLock, TypeOK, Locking, Sheets, Plans, Results, Asking, Times, Ended, SecretsTimely,
         NEW r \in Req, RequestStep(r) \/ User(r), ~LookStep(r)
  PROVE  SecretsTimely'
<1> USE SignInAssumption DEF SecretsTimely, Standing, Current, UnderWay, Goto, Thread
<1>1. UNCHANGED <<clock, looked, now, sign_outs>>
  BY DEF RequestStep, User, Turn, Count, Decide, Drop, TakeHeld, TakeSecret, TakeContext,
         Authenticate, Authenticated,
         Accept, Decline, Keep, Sign, EnclaveAsks, EnclaveAnswered, Admit, Refuse, Fail, Forget,
         Answer, world, shared, locals
<1>2. /\ \A t \in Thread \ {r} : pc'[t] = pc[t]
      /\ pc[r] \notin {"look", "see", "end", "wipe"} /\ pc'[r] \notin {"see", "end", "wipe"}
  BY DEF RequestStep, User, Turn, Count, Decide, Drop, TakeHeld, TakeSecret, TakeContext,
         Authenticate, Authenticated,
         Accept, Decline, Keep, Sign, EnclaveAsks, EnclaveAnswered, Admit, Refuse, Fail, Forget,
         Answer, Barred, TypeOK
<1>3. \A q \in Req \ {r} : pc'[q] \in {"start", "done"}
  <2>1. CASE Turn(r)
    BY <1>2, <2>1 DEF Turn, Free, Locking
  <2>2. CASE ~Turn(r)
    <3>1. pc[r] \notin {"start", "done"}
      BY <2>2 DEF RequestStep, User, Count, Decide, Drop, TakeHeld, TakeSecret, TakeContext,
                  Authenticate, Authenticated,
                  Accept, Decline, Keep, Sign, EnclaveAsks, EnclaveAnswered, Admit, Refuse, Fail,
                  Forget, Answer
    <3> QED BY <1>2, <3>1, OneRequest
  <2> QED BY <2>1, <2>2
<1>4. \A x \in Reach \cup Req : Timely(x) /\ age'[x] \in {age[x], 0} => Timely(x)'
  BY <1>1, <1>2, TimelyKept
<1>5. held \subseteq Reach /\ plan[r].reach \in Reach
  BY DEF TypeOK, Plan
<1>6. ~HasSecret(r) => age[r] = 0 /\ Timely(r)
  BY FreshIsTimely DEF Times
<1> HIDE DEF Timely
<1>7. CASE Turn(r) \/ Count(r) \/ Decide(r)
  <2>1. held' = held /\ age' = age /\ UNCHANGED signed /\ (pc'[r] = "look" => signed[r] = "none")
    BY <1>7 DEF Turn, Count, Decide, Barred, Sheets, history, TypeOK
  <2>2. pc'[r] \in {"look", "count", "decide", "drop"}
    BY <1>7 DEF Turn, Count, Decide, Barred, TypeOK
  <2>3. \A k \in Reach : approved'[k] \in {approved[k], Absent}
    BY <1>7 DEF Turn, Count, Decide, shared, Without
  <2> QED BY <1>3, <1>4, <1>5, <2>1, <2>2, <2>3
<1>8. CASE Drop(r)
  <2>1. /\ pc'[r] \in {"take", "settle"} /\ UNCHANGED <<approved, plan, count>>
        /\ held' \subseteq held
        /\ \A x \in Reach \cup Req : age'[x] \in {age[x], 0}
        /\ ~plan[r].live => plan[r].reach \notin held'
    BY <1>8 DEF Drop, Dropped, Forgetting, shared, locals, TypeOK
  <2> QED BY <1>3, <1>4, <1>5, <2>1
<1>9. CASE TakeHeld(r)
  <2>1. /\ pc[r] = "take" /\ pc'[r] = "sign" /\ plan[r].reach \in held
        /\ age'[r] = age[plan[r].reach] /\ \A k \in Reach : age'[k] = age[k]
        /\ UNCHANGED <<approved, plan, count, held>>
    BY <1>5, <1>9 DEF TakeHeld, Found, shared, locals, TypeOK
  <2>2. Current(r) => Timely(plan[r].reach)
    <3>1. plan[r].live
      BY <2>1 DEF Asking
    <3>2. Current(r) => approved[plan[r].reach] # Absent
      BY <2>1, <3>1 DEF Plans, PlanHolds, Planned
    <3> QED BY <2>1, <3>2
  <2>3. Timely(plan[r].reach) => Timely(r)'
    <3>1. Timely(plan[r].reach) => Timely(plan[r].reach)'
      BY <1>4, <1>5, <2>1
    <3>2. age'[r] = age'[plan[r].reach]
      BY <1>5, <2>1
    <3>3. (plan[r].reach)' = plan[r].reach
      BY <2>1
    <3> QED BY <3>1, <3>2, <3>3, <1>1, <1>2, <2>1 DEF Timely
  <2> QED BY <1>1, <1>3, <1>4, <1>5, <2>1, <2>2, <2>3
<1>10. CASE TakeSecret(r)
  <2>1. /\ pc[r] = "take" /\ pc'[r] \in {"look", "sheet", "keep"}
        /\ UNCHANGED <<approved, plan, count, held, age>>
        /\ ~HasSecret(r)
    BY <1>10 DEF TakeSecret, Authenticate, Authenticated, Barred, shared, HasSecret, TypeOK
  <2> QED BY <1>1, <1>3, <1>4, <1>5, <1>6, <2>1
<1>11. CASE Accept(r)
  <2>1. /\ pc[r] = "sheet" /\ pc'[r] = "keep"
        /\ UNCHANGED <<approved, plan, count, held, age>>
        /\ ~HasSecret(r)
    BY <1>11 DEF Accept, Authenticated, shared, locals, history, HasSecret, TypeOK
  <2> QED BY <1>1, <1>3, <1>4, <1>5, <1>6, <2>1
<1>12. CASE Decline(r)
  <2>1. /\ pc[r] = "sheet" /\ pc'[r] = "look"
        /\ UNCHANGED <<approved, plan, count>> /\ held' \subseteq held
        /\ \A x \in Reach \cup Req : age'[x] \in {age[x], 0}
        /\ ~HasSecret(r)
    BY <1>12 DEF Decline, Forgetting, Barred, shared, HasSecret, TypeOK
  <2> QED BY <1>1, <1>3, <1>4, <1>5, <1>6, <2>1
<1>13. CASE Keep(r)
  <2>1. /\ pc[r] = "keep" /\ pc'[r] = "sign" /\ ~plan[r].live
        /\ UNCHANGED <<approved, plan, count>>
        /\ held' \in {held, held \cup {plan[r].reach}}
        /\ \A x \in (Reach \cup Req) \ {plan[r].reach} : age'[x] = age[x]
        /\ \/ held' = held /\ age' = age
           \/ age'[plan[r].reach] = age[r]
    BY <1>5, <1>13 DEF Keep, Sheets, shared, locals, TypeOK
  <2>2. age'[r] = age[r]
    BY <1>5, <2>1
  <2>3. Current(r) => Timely(r) /\ Timely(r)'
    BY <1>4, <2>1, <2>2
  <2>4. ~Current(r) => ~Standing(plan[r].reach)'
    <3>1. ~Current(r) => approved = NoApprovals
      BY <2>1 DEF Ended, Planned
    <3> QED BY <1>1, <1>3, <1>5, <2>1, <3>1 DEF NoApprovals
  <2>5. age'[plan[r].reach] = age[r] /\ Timely(r)' => Timely(plan[r].reach)'
    <3>1. age'[plan[r].reach] = age[r] => age'[plan[r].reach] = age'[r]
      BY <2>2
    <3>2. (plan[r].reach)' = plan[r].reach
      BY <2>1
    <3> QED BY <3>1, <3>2 DEF Timely
  <2>6. \A k \in held' : Standing(k)' => Timely(k)'
    <3> SUFFICES ASSUME NEW k \in held', Standing(k)' PROVE Timely(k)'
      OBVIOUS
    <3>1. CASE k # plan[r].reach \/ (held' = held /\ age' = age)
      <4>1. k \in held /\ age'[k] = age[k] /\ k \in Reach
        BY <1>5, <2>1, <3>1
      <4>2. Standing(k)
        BY <1>1, <1>3, <2>1, <3>1
      <4> QED BY <1>4, <4>1, <4>2
    <3>2. CASE k = plan[r].reach /\ ~(held' = held /\ age' = age)
      BY <2>1, <2>3, <2>4, <2>5, <3>2
    <3> QED BY <3>1, <3>2
  <2> QED BY <1>1, <1>3, <2>1, <2>3, <2>6
<1>14. CASE Sign(r)
  <2>1. /\ pc[r] = "sign" /\ pc'[r] = "look"
        /\ UNCHANGED <<approved, plan, count, held, age>>
    BY <1>14 DEF Sign, Barred, shared, history, TypeOK
  <2> QED BY <1>1, <1>3, <1>4, <1>5, <2>1
<1>15. CASE Admit(r)
  <2>1. /\ pc[r] = "settle" /\ pc'[r] = "log" /\ Current(r)
        /\ UNCHANGED <<held, age>>
        /\ \A k \in Reach : approved'[k] # Absent
              => approved[k] # Absent \/ (~plan[r].live /\ k = plan[r].reach)
    BY <1>5, <1>15 DEF Admit, SignedOutSince, history, opened, TypeOK, Approvals
  <2> QED BY <1>1, <1>3, <1>4, <1>5, <2>1
<1>16. CASE Refuse(r) \/ Fail(r) \/ Forget(r) \/ Answer(r)
  <2>1. /\ pc[r] \in {"settle", "forget", "log"} /\ pc'[r] \in {"forget", "log", "done"}
        /\ pc[r] = "log" => pc'[r] = "done"
        /\ pc'[r] = "forget" => pc[r] = "settle" /\ UNCHANGED <<plan, count>>
        /\ UNCHANGED approved /\ held' \subseteq held
        /\ \A x \in Reach \cup Req : age'[x] \in {age[x], 0}
    BY <1>16 DEF Refuse, Fail, Forget, Answer, Forgetting, shared, history, TypeOK
  <2> QED BY <1>1, <1>3, <1>4, <1>5, <2>1
<1>17. ~TakeContext(r) /\ ~EnclaveAsks(r) /\ ~EnclaveAnswered(r)
  BY EnclaveSilent DEF TakeContext
<1> QED
  BY <1>7, <1>8, <1>9, <1>10, <1>11, <1>12, <1>13, <1>14, <1>15, <1>16, <1>17
  DEF RequestStep, User

-----------------------------------------------------------------------------
(* The second look. *)

\* Steps of the world and of the watch's turn.
LEMMA CaughtWorld ==
  ASSUME TypeOK, Results, Caught,
         \/ UNCHANGED vars \/ Horizon \/ Tick \/ ScreenChanges
         \/ Wake \/ Expire \/ Busy \/ Release
  PROVE  Caught'
<1> USE SignInAssumption DEF Caught, Current, Goto, Thread
<1>1. /\ UNCHANGED <<looked, now, sign_outs, count, outcome>>
      /\ \A r \in Req : pc'[r] = pc[r]
  BY DEF vars, shared, locals, Horizon, Tick, ScreenChanges, Wake, Expire, Busy, Release, TypeOK
<1>2. ASSUME NEW r \in Req, age'[r] = LongLock
      PROVE  age[r] = LongLock \/ pc[r] \in {"keep", "sign"}
  <2>1. CASE Tick
    BY <1>2, <2>1 DEF Tick, Secrets, TypeOK
  <2>2. CASE UNCHANGED vars \/ Horizon \/ ScreenChanges \/ Wake \/ Expire \/ Busy
    BY <1>2, <2>2 DEF vars, history, Horizon, ScreenChanges, Wake, Expire, Busy
  <2>3. CASE Release
    BY <1>2, <2>3 DEF Release, Forgetting
  <2> QED BY <2>1, <2>2, <2>3
<1>3. \A r \in Req : pc[r] \in {"keep", "sign"} => outcome[r] = "none"
  BY DEF Results, TypeOK
<1> QED BY <1>1, <1>2, <1>3

\* Steps of a look: the second look of a request finds the gap, and the sign-out
\* moves the count before the request is settled.
LEMMA CaughtLook ==
  ASSUME TypeOK, Locking, Plans, Times, SecretsTimely, Caught, LongLock >= 2 * Gap - 1,
         NEW t \in Thread, LookStep(t)
  PROVE  Caught'
<1> USE SignInAssumption DEF Current, Goto, Thread
<1> SUFFICES ASSUME NEW r \in Req, age'[r] = LongLock
             PROVE  /\ pc'[r] = "see" /\ Current(r)' => unseen(looked', now'[r])
                    /\ pc'[r] \in {"wipe", "settle"} => ~Current(r)'
                    /\ outcome'[r] # "ok"
  BY DEF Caught
<1>1. age[r] = LongLock /\ UNCHANGED <<count, outcome, signed>>
  BY DEF LookStep, Look, See, EndApprovals, ForgetAll, Forgetting, locals, history
<1>2. /\ pc[r] = "see" /\ Current(r) => unseen(looked, now[r])
      /\ pc[r] \in {"wipe", "settle"} => ~Current(r)
      /\ outcome[r] # "ok" /\ HasSecret(r)
  BY <1>1 DEF Caught, Times
<1>3. CASE Look(t)
  <2>1. \A u \in Thread : pc[u] # "see"
    BY <1>3 DEF Look, Free, Locking, InLook
  <2>2. t # r => pc'[r] = pc[r]
    BY <1>3 DEF Look, TypeOK
  <2>3. t = r /\ Current(r) => unseen(looked, now'[r])
    <3>1. t = r => pc[r] = "look" /\ signed[r] # "none"
      BY <1>2, <1>3 DEF Look, HasSecret
    <3>2. t = r /\ Current(r) => Timely(r)
      BY <3>1 DEF SecretsTimely
    <3> QED BY <1>1, <1>3, <3>2, LookTimely
  <2>4. UNCHANGED <<looked, sign_outs>> /\ (t = r => pc'[r] = "see")
    BY <1>3 DEF Look, TypeOK
  <2> QED BY <1>1, <1>2, <2>1, <2>2, <2>3, <2>4
<1>4. CASE See(t)
  <2>1. t # r => pc'[r] = pc[r] /\ pc[r] # "see"
    BY <1>4 DEF See, Locking, InLook, TypeOK
  <2>2. t = r => pc[r] = "see" /\ pc'[r] # "see" /\ pc'[r] # "wipe"
    BY <1>4 DEF See, Back, TypeOK
  <2>3. t = r /\ pc'[r] = "settle" => ~unseen(looked, now[r])
    BY <1>4 DEF See, SignsOut, TypeOK
  <2>4. sign_outs' = sign_outs
    BY <1>4 DEF See
  <2> QED BY <1>1, <1>2, <2>1, <2>2, <2>3, <2>4
<1>5. CASE EndApprovals(t)
  <2>1. pc[r] \in {"end", "wipe", "settle"} => count[r] <= sign_outs
    BY <1>2 DEF HasSecret, Plans, PlanHolds, Planned, UnderWay
  <2>2. sign_outs' = sign_outs + 1 /\ sign_outs \in Nat /\ count[r] \in Nat
    BY <1>5 DEF EndApprovals, TypeOK
  <2>3. /\ t # r => pc'[r] = pc[r] /\ pc[r] # "see"
        /\ t = r => pc[r] = "end" /\ pc'[r] = "wipe"
    BY <1>5 DEF EndApprovals, Locking, InLook, TypeOK
  <2> QED BY <1>1, <1>2, <2>1, <2>2, <2>3
<1>6. CASE ForgetAll(t)
  <2>1. /\ t # r => pc'[r] = pc[r] /\ pc[r] # "see"
        /\ t = r => pc[r] = "wipe" /\ pc'[r] \in {"count", "settle"}
    BY <1>6 DEF ForgetAll, Back, Locking, InLook, TypeOK
  <2>2. sign_outs' = sign_outs
    BY <1>6 DEF ForgetAll
  <2> QED BY <1>1, <1>2, <2>1, <2>2
<1> QED BY <1>3, <1>4, <1>5, <1>6 DEF LookStep

\* Steps of a request: admit lets nothing go that was signed out under.
LEMMA CaughtRequest ==
  ASSUME EndsAtLock, TypeOK, Locking, Sheets, Results, Times, Caught,
         NEW r \in Req, RequestStep(r) \/ User(r), ~LookStep(r)
  PROVE  Caught'
<1> USE SignInAssumption DEF Caught, Current, Goto, Thread
<1>1. /\ \A q \in Req \ {r} : pc'[q] = pc[q] /\ outcome'[q] = outcome[q]
      /\ UNCHANGED <<looked, now, sign_outs>>
      /\ \A q \in Req \ {r} : count'[q] = count[q]
  BY DEF RequestStep, User, Turn, Count, Decide, Drop, TakeHeld, TakeSecret, TakeContext,
         Authenticate, Authenticated,
         Accept, Decline, Keep, Sign, EnclaveAsks, EnclaveAnswered, Admit, Refuse, Fail, Forget,
         Answer, shared, locals,
         Barred, TypeOK
<1>2. plan[r].reach \in Reach
  BY DEF TypeOK, Plan
<1>3. ASSUME NEW q \in Req, q # r \/ pc[r] # "take" PROVE age'[q] \in {age[q], 0}
  <2>1. CASE Drop(r) \/ Decline(r) \/ Forget(r)
    BY <2>1 DEF Drop, Decline, Forget, Forgetting
  <2>2. CASE Keep(r)
    BY <1>2, <2>2 DEF Keep, TypeOK
  <2>3. CASE TakeHeld(r) \/ Answer(r)
    BY <1>3, <2>3 DEF TakeHeld, Answer, TypeOK
  <2>4. CASE \/ Turn(r) \/ Count(r) \/ Decide(r) \/ TakeSecret(r) \/ TakeContext(r) \/ Accept(r)
             \/ Sign(r) \/ EnclaveAsks(r) \/ EnclaveAnswered(r) \/ Admit(r) \/ Refuse(r) \/ Fail(r)
    BY <2>4 DEF Turn, Count, Decide, TakeSecret, TakeContext, Authenticate, Authenticated,
                Accept, Sign, EnclaveAsks, EnclaveAnswered, Admit, Refuse, Fail,
                history
  <2> QED BY <2>1, <2>2, <2>3, <2>4 DEF RequestStep, User
<1>4. ASSUME NEW q \in Req \ {r}, age'[q] = LongLock
      PROVE  /\ pc'[q] = "see" /\ Current(q)' => unseen(looked', now'[q])
             /\ pc'[q] \in {"wipe", "settle"} => ~Current(q)'
             /\ outcome'[q] # "ok"
  BY <1>1, <1>3, <1>4
<1>5. ASSUME age'[r] = LongLock
      PROVE  /\ pc'[r] = "see" /\ Current(r)' => unseen(looked', now'[r])
             /\ pc'[r] \in {"wipe", "settle"} => ~Current(r)'
             /\ outcome'[r] # "ok"
  <2>1. pc'[r] \notin {"see", "wipe"} /\ (pc'[r] = "settle" => pc[r] = "drop")
    BY EnclaveSilent
    DEF RequestStep, User, Turn, Count, Decide, Drop, TakeHeld, TakeSecret, TakeContext,
        Authenticate, Authenticated, Accept, Decline, Keep, Sign, Admit, Refuse, Fail, Forget,
        Answer, Barred, TypeOK
  <2>2. pc[r] = "drop" => age[r] = 0
    BY DEF Times, HasSecret
  <2>3. pc'[r] # "settle"
    BY <1>3, <1>5, <2>1, <2>2
  <2>4. outcome'[r] # "ok"
    <3>1. CASE Admit(r)
      BY <1>3, <1>5, <3>1 DEF Admit, SignedOutSince
    <3>2. CASE Refuse(r) \/ Answer(r)
      BY <3>2 DEF Refuse, Answer, TypeOK
    <3>3. CASE Fail(r)
      BY <3>3, ErrNames DEF Fail, TypeOK
    <3>4. CASE \/ Turn(r) \/ Count(r) \/ Decide(r) \/ Drop(r) \/ TakeHeld(r) \/ TakeSecret(r)
               \/ TakeContext(r) \/ Accept(r) \/ Decline(r) \/ Keep(r) \/ Sign(r)
               \/ EnclaveAsks(r) \/ EnclaveAnswered(r) \/ Forget(r)
      <4>1. outcome' = outcome
        BY <3>4 DEF Turn, Count, Decide, Drop, TakeHeld, TakeSecret, TakeContext, Authenticate,
                    Authenticated, Accept,
                    Decline, Keep, Sign, EnclaveAsks, EnclaveAnswered, Forget, locals
      <4>2. pc[r] = "take" => outcome[r] # "ok"
        BY DEF Results
      <4> QED BY <1>3, <1>5, <4>1, <4>2
    <3> QED BY <3>1, <3>2, <3>3, <3>4 DEF RequestStep, User
  <2> QED BY <2>1, <2>3, <2>4
<1> QED BY <1>4, <1>5

-----------------------------------------------------------------------------
(* The theorem. *)

\* With a sign-in key, no signature made with a secret that lived through a lock
\* of LongLock ticks leaves the daemon, when LongLock is at least one tick less
\* than twice the gap that `unseen` allows.  clock_gettime counts nanoseconds: of
\* ticks that short this says every lock of six seconds, for its three; a shorter
\* one may go unseen.  The screen may lock and unlock as it likes, any thread may
\* stall between any two steps, and the clock may fail (look, unseen, the second
\* look, admit).
THEOREM LongLocksEndSignIns ==
  EndsAtLock /\ LongLock >= 2 * Gap - 1 => (Spec => []LongLockEndsSignIn)
<1> SUFFICES ASSUME EndsAtLock, LongLock >= 2 * Gap - 1
             PROVE  Spec => []LongLockEndsSignIn
  OBVIOUS
<1>1. Init => LongLockInv
  <2>1. ASSUME Init PROVE LongLockInv
    <3>1. Times
      BY <2>1, SignInAssumption DEF Init, Times
    <3>2. Ended /\ SecretsTimely /\ Caught
      BY <2>1, SignInAssumption
      DEF Init, Ended, Planned, UnderWay, SecretsTimely, Caught, Thread
    <3> QED BY <3>1, <3>2 DEF LongLockInv
  <2> QED BY <2>1
<1>2. IInv /\ AskedInv /\ LongLockInv /\ [Next]_vars => LongLockInv'
  <2> SUFFICES ASSUME IInv, AskedInv, LongLockInv, [Next]_vars PROVE LongLockInv'
    OBVIOUS
  <2> USE DEF IInv, AskedInv, LongLockInv
  <2>1. Times' /\ Ended'
    BY TimesStep, EndedStep
  <2>2. CASE UNCHANGED vars \/ Horizon \/ Tick \/ ScreenChanges \/ Wake \/ Expire \/ Busy \/ Release
    BY <2>1, <2>2, TimelyWorld, CaughtWorld
  <2>3. ASSUME NEW t \in Thread, LookStep(t) PROVE LongLockInv'
    BY <2>1, <2>3, TimelyLook, CaughtLook
  <2>4. ASSUME NEW r \in Req, RequestStep(r) \/ User(r), ~LookStep(r) PROVE LongLockInv'
    BY <2>1, <2>4, TimelyRequest, CaughtRequest
  <2> QED BY <2>2, <2>3, <2>4 DEF Next, WatchStep, Thread
<1>3. LongLockInv => LongLockEndsSignIn
  BY DEF LongLockInv, Caught, LongLockEndsSignIn
<1> QED BY <1>1, <1>2, <1>3, Inductive, AskedKept, PTL DEF Spec
=============================================================================
