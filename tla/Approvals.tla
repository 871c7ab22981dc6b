----------------------------- MODULE Approvals -----------------------------
(***************************************************************************)
(* The pure rules of daemon/src/agent.rs: what one approval covers, for    *)
(* how long, and what a request needs before the enclave is touched.       *)
(*                                                                         *)
(* Time is ticks of the clock.  clock_gettime counts nanoseconds, and the  *)
(* code compares what it says without rounding: a tick may be as short as  *)
(* that.  The approvals (HashMap<Reach, f64>) are a total function from    *)
(* Reach to the tick the approval was opened, or Absent.                   *)
(***************************************************************************)
EXTENDS Integers

CONSTANTS
  Second,       \* how many ticks a second has
  Place,        \* the scopes requests come from (host, repository, directory)
  Approve,      \* config require_approval
  SignInSecs,   \* config sign_in_secs
  ReuseSecs,    \* config touch_id_reuse_secs
  EndsAtLock,   \* the key is a sign-in key: kwse_kind is 1
  UnseenSecs    \* unseen: the seconds between two looks that hide no lock, 3.0

\* Reach::Everywhere, and the string the enclave keys it by.
Everywhere == "everywhere"

ASSUME ApprovalsAssumption ==
  /\ Second \in Nat \ {0}
  /\ Everywhere \notin Place
  /\ Approve \in BOOLEAN
  /\ EndsAtLock \in BOOLEAN
  /\ SignInSecs \in Nat
  /\ ReuseSecs \in Nat
  /\ UnseenSecs \in Nat \ {0}

\* A sign-in reaches everywhere; any other approval reaches one place.
Reach == Place \cup {Everywhere}

\* What clock() returns when the clock cannot be read: f64::NAN.
NaN == -1

\* No approval for this reach.
Absent == -2

Time == Nat \cup {NaN}

Approvals == [Reach -> Time \cup {Absent}]

NoApprovals == [k \in Reach |-> Absent]

\* now - at < secs and now - at >= secs on f64: both false when either is NaN.
Within(now, at, secs) == now # NaN /\ at # NaN /\ now - at < secs * Second
RunOut(now, at, secs) == now # NaN /\ at # NaN /\ now - at >= secs * Second

-----------------------------------------------------------------------------
\* What approving a request from `place` covers, and for how many seconds.
grant(signInSecs, place) ==
  IF signInSecs > 0 THEN [reach |-> Everywhere, window |-> signInSecs]
                    ELSE [reach |-> place, window |-> ReuseSecs]

\* The grant of this configuration: without require_approval there is no sign-in.
Grant(place) == grant(IF Approve THEN SignInSecs ELSE 0, place)

\* Does an earlier approval still cover this request?
reuse_covers(approved, reach, window, now) ==
  /\ window > 0
  /\ approved[reach] # Absent
  /\ Within(now, approved[reach], window)

\* The approvals that have run out, and the approvals without them.
expire_late(approved, window, now) ==
  {k \in Reach : approved[k] # Absent /\ RunOut(now, approved[k], window + 1)}
expire(approved, window, now) ==
  {k \in Reach : approved[k] # Absent /\ RunOut(now, approved[k], window)}

Without(approved, gone) ==
  [k \in Reach |-> IF k \in gone THEN Absent ELSE approved[k]]

\* When the sign-in a request opens will end: Option<Ends>.
Ends == {"None", "After", "AtScreenLock"}

Plan == [reach : Reach, window : Nat, live : BOOLEAN,
         expired : SUBSET Reach, signing_in : Ends, unlock_reuse : Nat]

\* What a request from `place` needs, given the approvals and the time.  The
\* caller's approvals become Without(approved, plan.expired).
decide(place, approved, now) ==
  LET g       == Grant(place)
      expired == expire(approved, g.window, now)
      live    == reuse_covers(Without(approved, expired), g.reach, g.window, now)
  IN  [reach        |-> g.reach,
       window       |-> g.window,
       live         |-> live,
       expired      |-> expired,
       signing_in   |-> IF g.reach = Everywhere /\ ~live
                          THEN IF EndsAtLock THEN "AtScreenLock" ELSE "After"
                          ELSE "None",
       unlock_reuse |-> IF g.reach = Everywhere THEN 0 ELSE g.window]

\* A signature went through.  The approval it opened starts now; one it rode
\* stays where it was opened.
opened_again(approved, plan, now) ==
  IF plan.window > 0 THEN [approved EXCEPT ![plan.reach] = now] ELSE approved
opened(approved, plan, now) ==
  IF ~plan.live /\ plan.window > 0
    THEN [approved EXCEPT ![plan.reach] = now]
    ELSE approved

\* Whether too long went by between two looks to say the screen stayed unlocked.
unseen_late(last, now) == ~Within(now, last, UnseenSecs + 1)
unseen(last, now) == ~Within(now, last, UnseenSecs)
=============================================================================
