------------------------------- MODULE SignIn -------------------------------
(***************************************************************************)
(* Requests for keyward's own key (handle_sign, daemon/src/agent.rs), the  *)
(* screen watch that runs beside them (watch_screen), and what the enclave *)
(* shim holds for them (ContextCache, daemon/kwse.swift).                  *)
(*                                                                         *)
(* Every connection is a thread and carries one sign request here; the     *)
(* watch is one more thread.  They share the approvals, the count of       *)
(* sign-outs, the last look at the screen and the enclave's cache.  What   *)
(* runs under one mutex and reads nothing else is one step; everything     *)
(* between two such steps may interleave.                                  *)
(***************************************************************************)
EXTENDS Approvals

CONSTANTS
  Req,          \* the sign requests, each on a connection of its own
  PlaceOf,      \* the scope of each request (scope_of), [Req -> Place]
  Watch,        \* the thread of watch_screen
  Nobody,       \* no thread
  NotUnlocked,  \* the other values of enclave::Screen
  Guarded,      \* the enclave guards the key itself: presence and biometry keys
  ClockFails,   \* whether clock_gettime may fail
  MaxClock,     \* bound: the tick at which the clock stops
  LongLock      \* how long a lock is, in ticks, that can not go unseen

Thread == Req \cup {Watch}
Screen == {"Unlocked"} \cup NotUnlocked

ASSUME SignInAssumption ==
  /\ PlaceOf \in [Req -> Place]
  /\ Req \cap Reach = {}
  /\ Watch \notin Req
  /\ Nobody \notin Thread
  /\ "Unlocked" \notin NotUnlocked
  /\ Guarded \in BOOLEAN
  /\ Guarded => ~EndsAtLock
  /\ ClockFails \in BOOLEAN
  /\ MaxClock \in Nat
  /\ LongLock \in Nat \ {0}

VARIABLES
  \* The world.
  clock,       \* CLOCK_MONOTONIC, in ticks
  screen,      \* what the console says about the screen
  \* Ctx, shared by every thread.
  approved,    \* Mutex<HashMap<Reach, f64>>
  sign_outs,   \* AtomicU64
  looked,      \* Mutex<Look>: when the last look was; what it saw is only logged
  looking,     \* the thread that holds the mutex `looked`
  sign_gate,   \* the thread that holds Mutex<()> sign_gate
  \* The enclave shim.
  held,        \* the reaches ContextCache holds a secret or a context for
  \* The threads.
  pc,          \* where each thread is
  now,         \* look: the time it read
  saw,         \* request: the screen its last look returned
  woke,        \* watch: the tick it last woke
  gone,        \* watch: the approvals it found run out
  plan,        \* request: its Plan
  count,       \* request: sign_outs when it decided
  signed,      \* request: what Enclave::sign returned
  outcome,     \* request: the outcome it logs and answers
  \* History, which no guard of the code reads.
  asked,       \* how the Touch ID of each request was had: the daemon's sheet, an
               \* unlock of the Mac in its place, the enclave's own prompt
  age          \* of each secret the shim holds, and of each request's copy of
               \* one: the ticks of one lock it has lived through, up to LongLock

world   == <<clock, screen>>
shared  == <<approved, sign_outs, looked, looking, sign_gate>>
locals  == <<now, saw, woke, gone, plan, count, signed, outcome>>
history == <<asked, age>>
vars    == <<world, shared, held, pc, locals, history>>

-----------------------------------------------------------------------------
WatchPC == {"asleep", "look", "see", "end", "wipe", "idle", "release"}

ReqPC == {"start", "look", "see", "end", "wipe", "count", "decide", "drop",
          "take", "sheet", "keep", "sign", "prompt", "settle", "forget", "log", "done"}

\* Enclave::sign: not called, a signature, or one of its errors.
Signed == {"none", "signature", "declined", "ended", "failed"}

Asked == {"sheet", "unlock", "enclave"}

Outcome == {"none", "ok", "signed out", "refused", "declined", "failed"}

NoPlan == [reach |-> Everywhere, window |-> 0, live |-> FALSE, expired |-> {},
           signing_in |-> "None", unlock_reuse |-> 0]

\* Every variable stays within its type.
TypeOK ==
  /\ clock \in 0..MaxClock
  /\ screen \in Screen
  /\ approved \in Approvals
  /\ sign_outs \in Nat
  /\ looked \in Time
  /\ looking \in Thread \cup {Nobody}
  /\ sign_gate \in Thread \cup {Nobody}
  /\ held \in SUBSET Reach
  /\ pc \in [Thread -> WatchPC \cup ReqPC]
  /\ pc[Watch] \in WatchPC
  /\ \A r \in Req : pc[r] \in ReqPC
  /\ now \in [Thread -> Time]
  /\ saw \in [Req -> Screen]
  /\ woke \in 0..MaxClock
  /\ gone \in SUBSET Reach
  /\ plan \in [Req -> Plan]
  /\ count \in [Req -> Nat]
  /\ signed \in [Req -> Signed]
  /\ outcome \in [Req -> Outcome]
  /\ asked \in [Req -> SUBSET Asked]
  /\ age \in [Reach \cup Req -> 0..LongLock]

Init ==
  /\ clock = 0
  /\ screen \in Screen
  /\ approved = NoApprovals
  /\ sign_outs = 0
  /\ looked = 0                                      \* Look::first
  /\ looking = Nobody
  /\ sign_gate = Nobody
  /\ held = {}
  /\ pc = [t \in Thread |-> IF t = Watch THEN "asleep" ELSE "start"]
  /\ now = [t \in Thread |-> 0]
  /\ saw = [r \in Req |-> "Unlocked"]
  /\ woke = 0
  /\ gone = {}
  /\ plan = [r \in Req |-> NoPlan]
  /\ count = [r \in Req |-> 0]
  /\ signed = [r \in Req |-> "none"]
  /\ outcome = [r \in Req |-> "none"]
  /\ asked = [r \in Req |-> {}]
  /\ age = [x \in Reach \cup Req |-> 0]

Goto(t, label) == pc' = [pc EXCEPT ![t] = label]

\* lock: a mutex is taken only when no thread has it.
Free_unchecked(mutex) == TRUE
Free(mutex) == mutex = Nobody

\* What clock() may return.
Reading == {clock} \cup (IF ClockFails THEN {NaN} ELSE {})

-----------------------------------------------------------------------------
(* The world. *)

\* A secret in the shim, or a request that has one in hand and is yet to sign.
Secrets == held \cup {r \in Req : pc[r] \in {"keep", "sign"}}

\* A tick passes.  On a screen that is not unlocked, secrets age.
Tick ==
  /\ clock < MaxClock
  /\ clock' = clock + 1
  /\ age' = [x \in Reach \cup Req |->
               IF screen # "Unlocked" /\ x \in Secrets /\ age[x] < LongLock
                 THEN age[x] + 1
                 ELSE age[x]]
  /\ UNCHANGED <<screen, shared, held, pc, locals, asked>>

\* The screen locks, unlocks, changes hands or can not be read.  It stands
\* still with the clock.  The age that remains is that of a long lock.
ScreenChanges ==
  /\ clock < MaxClock
  /\ screen' \in Screen \ {screen}
  /\ age' = [x \in Reach \cup Req |->
               IF screen' = "Unlocked" /\ age[x] < LongLock THEN 0 ELSE age[x]]
  /\ UNCHANGED <<clock, shared, held, pc, locals, asked>>

\* A secret the shim lets go of has no age.
Forgetting(them) ==
  /\ held' = held \ them
  /\ age' = [x \in Reach \cup Req |-> IF x \in them THEN 0 ELSE age[x]]

-----------------------------------------------------------------------------
(* look: one look at the screen, by the watch or by a request. *)

\* It takes the mutex `looked`, and holds it to the end, and reads the clock.
Look(t) ==
  /\ pc[t] = "look"
  /\ Free(looking)
  /\ looking' = t
  /\ \E c \in Reading : now' = [now EXCEPT ![t] = c]
  /\ Goto(t, "see")
  /\ UNCHANGED <<world, approved, sign_outs, looked, sign_gate, held, history>>
  /\ UNCHANGED <<saw, woke, gone, plan, count, signed, outcome>>

\* Where a look returns to: the watch has one caller of look, a request two,
\* before and after Enclave::sign.
Back(t) ==
  IF t = Watch THEN "idle" ELSE IF signed[t] = "none" THEN "count" ELSE "settle"

\* Whether what the look saw, or the gap before it, signs everybody out.
SignsOut_onGap(t) == unseen(looked, now[t])
SignsOut(t) == screen # "Unlocked" \/ unseen(looked, now[t])

\* It reads the screen and records the look.
See(t) ==
  /\ pc[t] = "see"
  /\ looked' = now[t]
  /\ saw' = IF t = Watch THEN saw ELSE [saw EXCEPT ![t] = screen]
  /\ now' = [now EXCEPT ![t] = 0]
  /\ IF SignsOut(t)
       THEN Goto(t, "end") /\ UNCHANGED looking
       ELSE Goto(t, Back(t)) /\ looking' = Nobody
  /\ UNCHANGED <<world, approved, sign_outs, sign_gate, held, history>>
  /\ UNCHANGED <<woke, gone, plan, count, signed, outcome>>

\* end_approvals: the daemon's half of a sign-out, under the mutex `approved`.
EndApprovals(t) ==
  /\ pc[t] = "end"
  /\ approved' = NoApprovals
  /\ sign_outs' = sign_outs + 1
  /\ Goto(t, "wipe")
  /\ UNCHANGED <<world, looked, looking, sign_gate, held, locals, history>>

\* kwse_forget_all: the enclave's half.  The look ends with it.
ForgetAll(t) ==
  /\ pc[t] = "wipe"
  /\ Forgetting(Reach)
  /\ looking' = Nobody
  /\ Goto(t, Back(t))
  /\ UNCHANGED <<world, approved, sign_outs, looked, sign_gate, locals, asked>>

LookStep(t) == Look(t) \/ See(t) \/ EndApprovals(t) \/ ForgetAll(t)

-----------------------------------------------------------------------------
(* handle_sign, for keyward's own key. *)

\* `label`, after a look when this key is held to the screen (barred).
Barred(r, label) == Goto(r, IF EndsAtLock THEN "look" ELSE label)

\* One request at a time: it takes the gate, and looks at the screen.
Turn(r) ==
  /\ pc[r] = "start"
  /\ Free(sign_gate)
  /\ sign_gate' = r
  /\ Barred(r, "count")
  /\ UNCHANGED <<world, approved, sign_outs, looked, looking, held, history>>
  /\ UNCHANGED <<now, saw, woke, gone, plan, count, signed, outcome>>

\* It reads the count of sign-outs before it decides.
Count(r) ==
  /\ pc[r] = "count"
  /\ count' = [count EXCEPT ![r] = sign_outs]
  /\ Goto(r, "decide")
  /\ UNCHANGED <<world, shared, held, history>>
  /\ UNCHANGED <<now, saw, woke, gone, plan, signed, outcome>>

\* decide, under the mutex `approved`.
Decide(r) ==
  /\ pc[r] = "decide"
  /\ \E c \in Reading : plan' = [plan EXCEPT ![r] = decide(PlaceOf[r], approved, c)]
  /\ approved' = Without(approved, plan'[r].expired)
  /\ Goto(r, "drop")
  /\ UNCHANGED <<world, sign_outs, looked, looking, sign_gate, held, history>>
  /\ UNCHANGED <<now, saw, woke, gone, count, signed, outcome>>

\* The enclave lets go of what ran out and, when no approval covers this
\* request, of what it holds under this request's own key.
Dropped_byPlace(r) == {PlaceOf[r]}
Dropped(r) == plan[r].expired \cup (IF plan[r].live THEN {} ELSE {plan[r].reach})

\* A request the screen bars goes no further.
Drop(r) ==
  /\ pc[r] = "drop"
  /\ Forgetting(Dropped(r))
  /\ Goto(r, IF saw[r] = "Unlocked" THEN "take" ELSE "settle")
  /\ UNCHANGED <<world, shared, locals, asked>>

Hold(r) == plan[r].window > 0

\* What the shim finds under this request's key.  A copy is as old.
Found_anyScope(r) == Hold(r) /\ held # {}
Found(r) == Hold(r) /\ plan[r].reach \in held

TakeHeld(r) ==
  /\ pc[r] = "take"
  /\ Found(r)
  /\ age' = [age EXCEPT ![r] = age[plan[r].reach]]
  /\ Goto(r, "sign")
  /\ UNCHANGED <<world, shared, held, locals, asked>>

\* The daemon counted the request as covered: the shim's `riding`.
Riding_never(r) == FALSE
Riding(r) == plan[r].live

Authenticated(r) == Goto(r, IF EndsAtLock THEN "keep" ELSE "sign")

\* An authentication of the daemon's asking.  macOS raises the sheet or, for an
\* approval of a place, lets a Touch ID unlock of the Mac within unlock_reuse
\* seconds stand in for it; when the Mac was unlocked is not kept here.
Authenticate(r) ==
  \/ /\ asked' = [asked EXCEPT ![r] = @ \cup {"sheet"}]
     /\ Goto(r, "sheet")
  \/ /\ plan[r].unlock_reuse > 0
     /\ asked' = [asked EXCEPT ![r] = @ \cup {"unlock"}]
     /\ Authenticated(r)

\* signIn: a request that rides a sign-in and finds nothing fails with -4 and
\* asks nobody; any other asks.
TakeSecret(r) ==
  /\ pc[r] = "take"
  /\ EndsAtLock
  /\ ~Found(r)
  /\ \/ /\ Riding(r)
        /\ signed' = [signed EXCEPT ![r] = "ended"]
        /\ Barred(r, "settle")
        /\ UNCHANGED asked
     \/ /\ ~Riding(r)
        /\ Authenticate(r)
        /\ UNCHANGED signed
  /\ UNCHANGED <<world, shared, held, age>>
  /\ UNCHANGED <<now, saw, woke, gone, plan, count, outcome>>

\* ContextCache.take keeps a new context when the approval will last.
Kept_whenRiding(r) == IF Hold(r) /\ plan[r].live THEN held \cup {plan[r].reach} ELSE held
Kept(r) == IF Hold(r) THEN held \cup {plan[r].reach} ELSE held

\* kwse_sign with any other key: a new context is kept before it has been
\* authenticated, and the daemon asks only when `approve` is on.
TakeContext(r) ==
  /\ pc[r] = "take"
  /\ ~EndsAtLock
  /\ ~Found(r)
  /\ held' = Kept(r)
  /\ IF Approve
       THEN Authenticate(r)
       ELSE UNCHANGED asked /\ Goto(r, "sign")
  /\ UNCHANGED <<world, shared, locals, age>>

\* Touch ID is given, whenever the user gives it.
Accept(r) ==
  /\ pc[r] = "sheet"
  /\ Authenticated(r)
  /\ UNCHANGED <<world, shared, held, locals, history>>

\* It is declined, or the unlock key does not open (-3).  Only the other kinds
\* of key have a context to forget here.
Decline(r) ==
  /\ pc[r] = "sheet"
  /\ signed' = [signed EXCEPT ![r] = "declined"]
  /\ Forgetting(IF EndsAtLock THEN {} ELSE {plan[r].reach})
  /\ Barred(r, "settle")
  /\ UNCHANGED <<world, shared, asked>>
  /\ UNCHANGED <<now, saw, woke, gone, plan, count, outcome>>

\* The secret the Touch ID released is kept when an approval is opening.
Keep(r) ==
  /\ pc[r] = "keep"
  /\ IF Hold(r)
       THEN /\ held' = held \cup {plan[r].reach}
            /\ age' = [age EXCEPT ![plan[r].reach] = age[r]]
       ELSE UNCHANGED <<held, age>>
  /\ Goto(r, "sign")
  /\ UNCHANGED <<world, shared, locals, asked>>

\* The enclave signs, or does not: its own policy, a Mac that locked, a context
\* it no longer accepts.  Then the second look, for a sign-in key.
Sign(r) ==
  /\ pc[r] = "sign"
  /\ \E result \in {"signature", "failed"} : signed' = [signed EXCEPT ![r] = result]
  /\ Barred(r, "settle")
  /\ UNCHANGED <<world, shared, held, history>>
  /\ UNCHANGED <<now, saw, woke, gone, plan, count, outcome>>

\* Or it asks for itself.  A key it guards wants a context that was authenticated,
\* and not some ten minutes ago: a held one may be too old for it, whatever the
\* daemon believes is approved; when that is is not kept here.
EnclaveAsks(r) ==
  /\ pc[r] = "sign"
  /\ Guarded
  /\ "sheet" \notin asked[r]
  /\ asked' = [asked EXCEPT ![r] = @ \cup {"enclave"}]
  /\ Goto(r, "prompt")
  /\ UNCHANGED <<world, shared, held, locals, age>>

\* The user answers the enclave's prompt, or not: there is a signature or none.
EnclaveAnswered(r) ==
  /\ pc[r] = "prompt"
  /\ \E result \in {"signature", "failed"} : signed' = [signed EXCEPT ![r] = result]
  /\ Goto(r, "settle")
  /\ UNCHANGED <<world, shared, held, history>>
  /\ UNCHANGED <<now, saw, woke, gone, plan, count, outcome>>

HasSignature(r) == signed[r] = "signature" /\ saw[r] = "Unlocked"

\* Everybody was signed out since the request counted.
SignedOutSince_never(r) == FALSE
SignedOutSince_riding(r) == plan[r].live /\ sign_outs # count[r]
SignedOutSince(r) == sign_outs # count[r]

\* admit, under the mutex `approved`: nobody was signed out meanwhile, so the
\* approval this signature opened is recorded and the signature may go.
Admit(r) ==
  /\ pc[r] = "settle"
  /\ HasSignature(r)
  /\ ~SignedOutSince(r)
  /\ \E c \in Reading : approved' = opened(approved, plan[r], c)
  /\ outcome' = [outcome EXCEPT ![r] = "ok"]
  /\ Goto(r, "log")
  /\ UNCHANGED <<world, sign_outs, looked, looking, sign_gate, held, history>>
  /\ UNCHANGED <<now, saw, woke, gone, plan, count, signed>>

\* Somebody was: neither the approval nor the signature may be kept.
Refuse_keeping(r) ==
  /\ pc[r] = "settle"
  /\ HasSignature(r)
  /\ SignedOutSince(r)
  /\ outcome' = [outcome EXCEPT ![r] = "signed out"]
  /\ Goto(r, "log")
  /\ UNCHANGED <<world, shared, held, history>>
  /\ UNCHANGED <<now, saw, woke, gone, plan, count, signed>>

Refuse(r) ==
  /\ pc[r] = "settle"
  /\ HasSignature(r)
  /\ SignedOutSince(r)
  /\ outcome' = [outcome EXCEPT ![r] = "signed out"]
  /\ Goto(r, "forget")
  /\ UNCHANGED <<world, shared, held, history>>
  /\ UNCHANGED <<now, saw, woke, gone, plan, count, signed>>

\* The text of the error, which is the event's outcome.
Err_raw(r) == IF saw[r] # "Unlocked" THEN "refused" ELSE signed[r]
Err(r) ==
  IF saw[r] # "Unlocked" THEN "refused"
  ELSE IF signed[r] = "ended" THEN "signed out" ELSE signed[r]

\* What a request without an answer built may have been authenticated, and a
\* sign-out meanwhile could not see it.
MustForget_onSignOut(r) == SignedOutSince(r)
MustForget(r) == ~plan[r].live \/ SignedOutSince(r)

\* There is no signature, or the screen bars it.
Fail(r) ==
  /\ pc[r] = "settle"
  /\ ~HasSignature(r)
  /\ outcome' = [outcome EXCEPT ![r] = Err(r)]
  /\ Goto(r, IF MustForget(r) THEN "forget" ELSE "log")
  /\ UNCHANGED <<world, shared, held, history>>
  /\ UNCHANGED <<now, saw, woke, gone, plan, count, signed>>

Forget(r) ==
  /\ pc[r] = "forget"
  /\ Forgetting({plan[r].reach})
  /\ Goto(r, "log")
  /\ UNCHANGED <<world, shared, locals, asked>>

\* The event is appended, the gate is let go and the caller has its answer.
\* What the request kept of its own goes with it.
Answer(r) ==
  /\ pc[r] = "log"
  /\ sign_gate' = Nobody
  /\ Goto(r, "done")
  /\ saw' = [saw EXCEPT ![r] = "Unlocked"]
  /\ plan' = [plan EXCEPT ![r] = NoPlan]
  /\ count' = [count EXCEPT ![r] = 0]
  /\ signed' = [signed EXCEPT ![r] = "none"]
  /\ outcome' = [outcome EXCEPT ![r] = "none"]
  /\ asked' = [asked EXCEPT ![r] = {}]
  /\ age' = [age EXCEPT ![r] = 0]
  /\ UNCHANGED <<world, approved, sign_outs, looked, looking, held, now, woke, gone>>

User(r) == Accept(r) \/ Decline(r) \/ EnclaveAnswered(r)

RequestStep(r) ==
  \/ Turn(r) \/ LookStep(r) \/ Count(r) \/ Decide(r) \/ Drop(r)
  \/ TakeHeld(r) \/ TakeSecret(r) \/ TakeContext(r) \/ Keep(r) \/ Sign(r) \/ EnclaveAsks(r)
  \/ Admit(r) \/ Refuse(r) \/ Fail(r) \/ Forget(r) \/ Answer(r)

-----------------------------------------------------------------------------
(* watch_screen, which runs for a sign-in key only. *)

\* A second of sleep is over.  When the clock has stopped the watch goes on
\* while its looks sign nobody out, so that what it does in the end is seen.
Wake ==
  /\ EndsAtLock
  /\ pc[Watch] = "asleep"
  /\ woke + Second <= clock \/ (clock = MaxClock /\ screen = "Unlocked" /\ ~ClockFails)
  /\ woke' = clock
  /\ Goto(Watch, "look")
  /\ UNCHANGED <<world, shared, held, now, saw, gone, plan, count, signed, outcome, history>>

\* With the gate free it takes a turn, and drops the approvals that ran out.
Expire ==
  /\ pc[Watch] = "idle"
  /\ Free(sign_gate)
  /\ sign_gate' = Watch
  /\ \E c \in Reading :
       LET window == Grant(Everywhere).window
       IN  /\ gone' = expire(approved, window, c)
           /\ approved' = Without(approved, gone')
  /\ Goto(Watch, "release")
  /\ UNCHANGED <<world, sign_outs, looked, looking, held, history>>
  /\ UNCHANGED <<now, saw, woke, plan, count, signed, outcome>>

\* Never under a signature.
Busy ==
  /\ pc[Watch] = "idle"
  /\ ~Free(sign_gate)
  /\ Goto(Watch, "asleep")
  /\ UNCHANGED <<world, shared, held, locals, history>>

\* The enclave lets go of them too.
Release_keepingGate ==
  /\ pc[Watch] = "release"
  /\ Forgetting(gone)
  /\ gone' = {}
  /\ Goto(Watch, "asleep")
  /\ UNCHANGED <<world, shared, asked>>
  /\ UNCHANGED <<now, saw, woke, plan, count, signed, outcome>>

Release ==
  /\ pc[Watch] = "release"
  /\ Forgetting(gone)
  /\ gone' = {}
  /\ sign_gate' = Nobody
  /\ Goto(Watch, "asleep")
  /\ UNCHANGED <<world, approved, sign_outs, looked, looking, asked>>
  /\ UNCHANGED <<now, saw, woke, plan, count, signed, outcome>>

WatchStep == Wake \/ LookStep(Watch) \/ Expire \/ Busy \/ Release

-----------------------------------------------------------------------------
\* Every request has its answer, and the clock has stopped.
Horizon ==
  /\ clock = MaxClock
  /\ \A r \in Req : pc[r] = "done"
  /\ pc[Watch] = "asleep"
  /\ UNCHANGED vars

Next ==
  \/ Tick \/ ScreenChanges \/ WatchStep \/ Horizon
  \/ \E r \in Req : RequestStep(r) \/ User(r)

Spec == Init /\ [][Next]_vars

\* Time passes and threads run.  A mutex that is free again and again is taken
\* in the end: the watch sleeps for a second between its looks.  Nothing is
\* assumed of the user or the screen.
Fairness ==
  /\ WF_vars(Tick)
  /\ WF_vars(WatchStep)
  /\ \A r \in Req : SF_vars(RequestStep(r))

FairSpec == Spec /\ Fairness

-----------------------------------------------------------------------------
(* Properties. *)

\* Between a sign-out's two halves, approvals and enclave disagree.
SigningOut == \E t \in Thread : pc[t] = "wipe"

\* With nobody's turn under way and no sign-out half done, the enclave holds
\* nothing that no approval stands for: whatever a sign-out, a refusal or an
\* expiry met in flight, no secret is left in memory without an end
\* (the forget calls of handle_sign, release and forget_all).
HeldIsApproved ==
  (sign_gate = Nobody /\ ~SigningOut) => \A k \in held : approved[k] # Absent

\* The converse, which only the kinds of key that no sign-out touches have:
\* with nobody's turn under way, what is approved is held, so the daemon has no
\* request that rides an approval authenticate again (ContextCache.take).  The
\* enclave may, for a key it guards itself.
ApprovedIsHeld ==
  sign_gate = Nobody => \A k \in Reach : approved[k] # Absent => k \in held

\* Two requests never have the user's finger at once: one sheet at a time, the
\* enclave's own prompt included (sign_gate).
OneSheet ==
  LET AtFinger(r) == pc[r] \in {"sheet", "keep", "prompt"}
  IN  \A q, r \in Req : AtFinger(q) /\ AtFinger(r) => q = r

\* The sheet of a request that would open a sign-in says so: no request rides
\* an approval and raises the sheet, which would name one action while giving
\* hours (the -4 of signIn, the forget before a sheet).
SheetNamesSignIn ==
  \A r \in Req : pc[r] \in {"sheet", "keep"} =>
    /\ ~plan[r].live
    /\ plan[r].reach = Everywhere => plan[r].signing_in # "None"

\* The log's `reused` tells who asked, as far as the daemon can.  For a signed
\* request that it logs as riding nobody asked, but the enclave of a key that it
\* guards itself.  One that it logs as asking was asked by the daemon, or an
\* unlock of the Mac stood in for that; and signing in always asks.
LogTellsWhoAsked ==
  \A r \in Req : outcome[r] = "ok" /\ Approve =>
    /\ plan[r].live => asked[r] \subseteq IF Guarded THEN {"enclave"} ELSE {}
    /\ ~plan[r].live => \/ "sheet" \in asked[r]
                        \/ "unlock" \in asked[r] /\ plan[r].reach # Everywhere

\* A signature made with a secret that was there before a lock of LongLock
\* ticks never leaves the daemon, whatever stalled and whoever looked when
\* (look, unseen, the second look and admit together).
LongLockEndsSignIn ==
  \A r \in Req : age[r] = LongLock => outcome[r] # "ok"

\* A signature goes out only under an approval that stands at that moment:
\* the one it rode, still open, or the one it has just opened (admit, and the
\* watch that expires nothing under a signature).
SignsUnderApproval ==
  [][\A r \in Req :
       outcome'[r] = "ok" /\ outcome[r] # "ok" /\ Hold(r)
         => approved'[plan[r].reach] # Absent]_vars

\* An approval is never extended or moved: it ends before the same reach is
\* approved again, so a sign-in lasts from the sign-in and not from its last
\* use (opened, expire, one turn at a time).
NotExtended ==
  [][\A k \in Reach : approved[k] # Absent => approved'[k] \in {approved[k], Absent}]_vars

\* A request that rides and finds nothing held was signed out under: the
\* approval is gone, or the count has moved since it decided (signIn's -4).
RideFailsOnlyWhenEnded ==
  \A r \in Req : sign_gate = r /\ signed[r] = "ended" =>
    approved[plan[r].reach] = Absent \/ sign_outs # count[r]

\* The Touch ID of a request that is yet to be settled, and was not signed out.
\* What the enclave asks for itself is no part of the promise.
Touched ==
  {r \in Req : /\ asked[r] \cap {"sheet", "unlock"} # {}
               /\ pc[r] \notin {"sheet", "forget", "log", "done"}
               /\ signed[r] \notin {"declined", "ended"}
               /\ sign_outs = count[r]}

\* Session, seen in the state of the daemon: an approval stands while the
\* daemon has it, and a request is answered once its outcome is set.
Promise == INSTANCE Session WITH
  Request <- Req,
  Key     <- Reach,
  Covers  <- [r \in Req |-> Grant(PlaceOf[r]).reach],
  Asks    <- Approve,
  granted <- {k \in Reach : approved[k] # Absent},
  touched <- Touched,
  answer  <- [r \in Req |-> CASE outcome[r] = "none" -> "none"
                              [] outcome[r] = "ok" -> "signed"
                              [] OTHER -> "refused"]

\* Threads, looks, sheets, the enclave's cache and the count of sign-outs
\* together implement Session: whatever interleaves, each signature leaves
\* under a standing approval or its own Touch ID, and a sign-out voids both at
\* once (handle_sign, admit, end_approvals, watch_screen).
KeepsPromise == Promise!Spec

\* Every request is answered, unless a sheet waits for the user.
Answered ==
  \A r \in Req :
    pc[r] = "start" ~> (pc[r] = "done" \/ \E q \in Req : pc[q] \in {"sheet", "prompt"})

\* A screen that locks and stays locked signs everybody out for good, with or
\* without a request (watch_screen, look).
LockSignsOut ==
  <>[](screen # "Unlocked") => <>[](held = {} /\ approved = NoApprovals)

\* A secret whose approval has run out does not wait for the next request: it
\* is let go of, unless a sheet keeps the gate (watch_screen).
ExpiredIsLetGo ==
  \A k \in Reach :
    (k \in held /\ approved[k] # Absent /\ RunOut(clock, approved[k], Grant(k).window))
      ~> (k \notin held \/ \E r \in Req : pc[r] = "sheet")

-----------------------------------------------------------------------------
(* The inductive invariant behind the theorems of SignInProofs. *)

InLook(t) == pc[t] \in {"see", "end", "wipe"}

\* Each mutex has the holder its pc says, and only a sign-in key is looked at.
Locking ==
  /\ \A t \in Thread : InLook(t) <=> looking = t
  /\ \A r \in Req : pc[r] \notin {"start", "done"} <=> sign_gate = r
  /\ pc[Watch] = "release" <=> sign_gate = Watch
  /\ \A t \in Thread : InLook(t) \/ pc[t] = "look" => EndsAtLock
  /\ pc[Watch] # "asleep" => EndsAtLock

\* A request that has dropped what it must and is not yet settled.
UnderWay(r) ==
  \/ pc[r] \in {"take", "sheet", "keep", "sign", "prompt", "settle", "forget"}
  \/ pc[r] \in {"look", "see", "end", "wipe"} /\ signed[r] # "none"

Planned(r) == pc[r] = "drop" \/ UnderWay(r)

\* Nothing is signed before the first look, and a sign-in key's secret is
\* asked for and kept only by a request that rides nothing.
Sheets ==
  /\ \A r \in Req : pc[r] = "start" => signed[r] = "none"
  /\ \A r \in Req : (pc[r] = "keep" => EndsAtLock) /\ (pc[r] = "prompt" => ~EndsAtLock)
  /\ \A r \in Req : pc[r] \in {"sheet", "keep"} /\ EndsAtLock => ~plan[r].live

\* A plan stays true until its request is settled: what it rides is there
\* unless everybody was signed out since, and what it would open is not.
PlanHolds(r) ==
  /\ plan[r].reach = Grant(PlaceOf[r]).reach
  /\ plan[r].window = Grant(PlaceOf[r]).window
  /\ count[r] <= sign_outs
  /\ plan[r].live /\ sign_outs = count[r] => approved[plan[r].reach] # Absent
  /\ ~plan[r].live /\ plan[r].reach = Everywhere => plan[r].signing_in # "None"
  /\ ~plan[r].live /\ plan[r].window > 0 /\ ~ClockFails => approved[plan[r].reach] = Absent

Plans ==
  /\ \A r \in Req : Planned(r) => PlanHolds(r)
  /\ \A r \in Req : pc[r] = "decide" => count[r] <= sign_outs
  /\ ~EndsAtLock => sign_outs = 0
  /\ ~ClockFails => \A k \in Reach : approved[k] # NaN

\* What is held without an approval has somebody about to let go of it: a
\* sign-out, an expiry, or the request that is yet to be admitted with it.
Excused(k) ==
  \/ \E t \in Thread : pc[t] = "wipe"
  \/ pc[Watch] = "release" /\ k \in gone
  \/ \E r \in Req : pc[r] = "drop" /\ k \in plan[r].expired
  \/ \E r \in Req : UnderWay(r) /\ ~plan[r].live /\ k = plan[r].reach

\* When nothing lasts, nothing is held.
HeldAccounted ==
  \A k \in held : /\ approved[k] # Absent \/ Excused(k)
                  /\ Grant(Everywhere).window > 0

\* Inductive: what the steps of every thread preserve together.
IInv == TypeOK /\ Locking /\ Sheets /\ Plans /\ HeldAccounted
=============================================================================
