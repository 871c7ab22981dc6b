------------------------------ MODULE Session ------------------------------
(***************************************************************************)
(* What keyward promises of its own key, without threads, clocks, enclave  *)
(* or screen: a signature leaves the daemon in one step, under an approval *)
(* that stands at that moment or under a Touch ID given for that very      *)
(* request; only such a Touch ID opens an approval; and a sign-out voids   *)
(* in one step every approval and every Touch ID that has not signed yet.  *)
(* SignIn implements it (KeepsPromise).                                    *)
(***************************************************************************)
CONSTANTS
  Request,   \* the sign requests
  Key,       \* what an approval may cover
  Covers,    \* what an approval of each request would cover, [Request -> Key]
  Asks       \* whether signing asks at all (require_approval)

VARIABLES
  granted,   \* the approvals that stand
  touched,   \* the requests whose Touch ID is still good
  answer     \* of each request: none, signed or refused

vars == <<granted, touched, answer>>

Init ==
  /\ granted = {}
  /\ touched = {}
  /\ answer = [r \in Request |-> "none"]

\* The user gives Touch ID for a request.
Touch(r) ==
  /\ answer[r] = "none"
  /\ touched' = touched \cup {r}
  /\ UNCHANGED <<granted, answer>>

\* A request is signed: it rides, or its own Touch ID lets it go and may open
\* an approval.
Sign(r) ==
  /\ answer[r] = "none"
  /\ \/ Covers[r] \in granted /\ UNCHANGED granted
     \/ r \in touched /\ granted' \in {granted, granted \cup {Covers[r]}}
     \/ ~Asks /\ granted' \in {granted, granted \cup {Covers[r]}}
  /\ touched' = touched \ {r}
  /\ answer' = [answer EXCEPT ![r] = "signed"]

\* A request is refused, for any reason, and leaves nothing.
Refuse(r) ==
  /\ answer[r] = "none"
  /\ touched' = touched \ {r}
  /\ answer' = [answer EXCEPT ![r] = "refused"]
  /\ UNCHANGED granted

\* The caller has its answer.
Finish(r) ==
  /\ answer[r] # "none"
  /\ answer' = [answer EXCEPT ![r] = "none"]
  /\ UNCHANGED <<granted, touched>>

\* Approvals run out.
RunOut ==
  /\ granted' \in SUBSET granted
  /\ UNCHANGED <<touched, answer>>

SignOut ==
  /\ granted' = {}
  /\ touched' = {}
  /\ UNCHANGED answer

Next ==
  \/ RunOut \/ SignOut
  \/ \E r \in Request : Touch(r) \/ Sign(r) \/ Refuse(r) \/ Finish(r)

Spec == Init /\ [][Next]_vars
=============================================================================
