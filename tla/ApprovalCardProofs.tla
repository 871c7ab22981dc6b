------------------------ MODULE ApprovalCardProofs ------------------------
(***************************************************************************)
(* Theorems about ApprovalCard, for any number of requests: whatever was   *)
(* slow, dropped or restarted, no card outlives its request.               *)
(***************************************************************************)
EXTENDS ApprovalCard, TLAPS

-----------------------------------------------------------------------------
(* The invariants. *)

\* The main thread is yet to hide, after the i-th thing that is queued for it.
Hides(i) == \E j \in (i + 1)..Len(main) : main[j] = None

\* Only the request in progress is connected, and only a connection is served.
Connected ==
  \A r \in Request :
    /\ sock[r] = "open" => r = turn /\ at # "idle"
    /\ sock[r] = "none" => serving[r] = "none"

\* A card that is queued, held back or on screen is that of a connection that
\* is served, or the hide its end queued is still to come.
Swept ==
  \A r \in Request :
    /\ \A i \in 1..Len(main) :
         main[i] = r => serving[r] # "none" /\ (serving[r] = "closed" => Hides(i))
    /\ r \in {card, pending} => serving[r] # "none" /\ (serving[r] = "closed" => Hides(0))

CardInv == TypeOK /\ Connected /\ Swept

-----------------------------------------------------------------------------
(* One lemma for each. *)

\* The kinds of step a proof by cases goes through.
LEMMA CardCases ==
  ASSUME Next
  PROVE  \/ Show \/ Ack \/ Done \/ DaemonExits \/ MainThread \/ Raise \/ Quit \/ Launch
         \/ \E r \in Request : Accept(r) \/ Handle(r) \/ EndOfFile(r)
BY DEF Next, Daemon, App

\* Every step keeps every variable within its type.
LEMMA CardTypeStep ==
  ASSUME TypeOK, [Next]_vars
  PROVE  TypeOK'
<1> USE CardAssumption DEF TypeOK, daemon, wire, panel, Request, None
<1>1. CASE UNCHANGED vars \/ Ack \/ Launch \/ Raise
  BY <1>1 DEF vars, Ack, Launch, Raise
<1>2. CASE Show
  <2>1. turn' \in 0..Requests /\ at' \in {"ack", "sheet"}
    BY <1>2 DEF Show
  <2>2. <<"show">> \in Seq({"show", "done"})
    OBVIOUS
  <2>3. inbox' \in [Request -> Seq({"show", "done"})]
    BY <1>2, <2>2 DEF Show
  <2>4. sock' \in [Request -> {"none", "open", "dropped"}]
    BY <1>2 DEF Show
  <2> QED BY <1>2, <2>1, <2>3, <2>4 DEF Show
<1>3. CASE Done
  <2>1. turn \in Request => Sends(turn) \in Seq({"show", "done"})
    BY DEF Sends
  <2>2. inbox' \in [Request -> Seq({"show", "done"})]
    BY <1>3, <2>1 DEF Done
  <2>3. sock' \in [Request -> {"none", "open", "dropped"}]
    BY <1>3 DEF Done
  <2> QED BY <1>3, <2>2, <2>3 DEF Done
<1>4. CASE DaemonExits
  BY <1>4 DEF DaemonExits
<1>5. CASE MainThread
  <2>1. Head(main) \in Request \cup {None} /\ Tail(main) \in Seq(Request \cup {None})
    BY <1>5 DEF MainThread
  <2> QED BY <1>5, <2>1 DEF MainThread, Hidden
<1>6. CASE Quit
  <2>1. <<>> \in Seq({"show", "done"}) /\ <<>> \in Seq(Request \cup {None})
    OBVIOUS
  <2> QED BY <1>6, <2>1 DEF Quit
<1>7. ASSUME NEW r \in Request, Accept(r) PROVE TypeOK'
  BY <1>7 DEF Accept
<1>8. ASSUME NEW r \in Request, Handle(r) PROVE TypeOK'
  <2>0. inbox[r] \in Seq({"show", "done"}) /\ inbox[r] # <<>>
    BY <1>8 DEF Handle
  <2>1. Tail(inbox[r]) \in Seq({"show", "done"})
    BY <2>0
  <2>2. inbox' \in [Request -> Seq({"show", "done"})]
    BY <1>8, <2>1 DEF Handle
  <2>3. PICK x \in Request \cup {None} : main' = Append(main, x)
    BY <1>8 DEF Handle
  <2>4. main' \in Seq(Request \cup {None})
    BY <2>3
  <2> QED BY <1>8, <2>2, <2>4 DEF Handle
<1>9. ASSUME NEW r \in Request, EndOfFile(r) PROVE TypeOK'
  <2>1. main' \in Seq(Request \cup {None})
    BY <1>9 DEF EndOfFile, AtEnd
  <2> QED BY <1>9, <2>1 DEF EndOfFile
<1> QED BY CardCases, <1>1, <1>2, <1>3, <1>4, <1>5, <1>6, <1>7, <1>8, <1>9

\* The daemon drops a connection before its turn ends, and the app serves what
\* was connected.
LEMMA ConnectedStep ==
  ASSUME TypeOK, Connected, [Next]_vars
  PROVE  Connected'
<1> USE CardAssumption DEF TypeOK, Connected, daemon, wire, panel
<1>1. CASE UNCHANGED vars \/ Ack \/ Launch \/ Raise \/ MainThread
  BY <1>1 DEF vars, Ack, Launch, Raise, MainThread
<1>2. CASE Show
  BY <1>2 DEF Show, Request
<1>3. CASE Done \/ DaemonExits
  BY <1>3 DEF Done, DaemonExits
<1>4. CASE Quit
  BY <1>4 DEF Quit
<1>5. ASSUME NEW r \in Request, Accept(r) \/ Handle(r) \/ EndOfFile(r) PROVE Connected'
  BY <1>5 DEF Accept, Handle, EndOfFile
<1> QED BY CardCases, <1>1, <1>2, <1>3, <1>4, <1>5

\* What is queued last: it moves nothing, and what was to be hidden still is.
LEMMA Queued ==
  ASSUME TypeOK, NEW x \in Request \cup {None}, main' = Append(main, x)
  PROVE  /\ Len(main') = Len(main) + 1 /\ main'[Len(main) + 1] = x
         /\ \A i \in 1..Len(main) : main'[i] = main[i]
         /\ \A i \in 0..Len(main) : Hides(i) => Hides(i)'
         /\ x = None => \A i \in 0..Len(main) : Hides(i)'
<1>1. main \in Seq(Request \cup {None}) /\ Len(main) \in Nat
  BY DEF TypeOK
<1>2. Len(main') = Len(main) + 1 /\ main'[Len(main) + 1] = x
  BY <1>1
<1>3. \A i \in 1..Len(main) : main'[i] = main[i]
  BY <1>1
<1>4. \A i \in 0..Len(main) : Hides(i) => Hides(i)'
  BY <1>1, <1>2, <1>3 DEF Hides
<1>5. x = None => \A i \in 0..Len(main) : Hides(i)'
  BY <1>1, <1>2 DEF Hides
<1> QED BY <1>2, <1>3, <1>4, <1>5

\* What the main thread has taken: everything else is one place nearer.
LEMMA Taken ==
  ASSUME TypeOK, main # <<>>, main' = Tail(main)
  PROVE  /\ Len(main) \in Nat \ {0} /\ Len(main') = Len(main) - 1 /\ Head(main) = main[1]
         /\ \A i \in 1..Len(main') : main'[i] = main[i + 1]
         /\ \A i \in 0..Len(main') : Hides(i + 1) => Hides(i)'
         /\ main[1] # None => (Hides(0) => Hides(1))
<1>1. /\ main \in Seq(Request \cup {None}) /\ Len(main) \in Nat \ {0}
      /\ Len(main') = Len(main) - 1 /\ Head(main) = main[1]
  BY DEF TypeOK
<1>2. \A i \in 1..Len(main') : main'[i] = main[i + 1]
  BY <1>1
<1>3. ASSUME NEW i \in 0..Len(main'), Hides(i + 1) PROVE Hides(i)'
  <2>1. PICK j \in ((i + 1) + 1)..Len(main) : main[j] = None
    BY <1>3 DEF Hides
  <2>2. j - 1 \in (i + 1)..Len(main') /\ main'[j - 1] = None
    BY <1>1, <1>2, <2>1
  <2> QED BY <2>2 DEF Hides
<1>4. main[1] # None => (Hides(0) => Hides(1))
  BY <1>1 DEF Hides
<1> QED BY <1>1, <1>2, <1>3, <1>4

\* No card comes to be whose connection has ended without a hide behind it.
LEMMA SweptStep ==
  ASSUME TypeOK, Connected, Swept, [Next]_vars
  PROVE  Swept'
<1> USE CardAssumption DEF Swept, daemon, wire, panel
<1>1. CASE UNCHANGED vars \/ Show \/ Ack \/ Done \/ DaemonExits \/ Launch
  BY <1>1 DEF vars, Show, Ack, Done, DaemonExits, Launch, Hides
<1>2. CASE Raise
  BY <1>2 DEF Raise, Hides, Request, None
<1>3. CASE Quit
  <2>1. Len(main') = 0 /\ card' = 0 /\ pending' = 0
    BY <1>3 DEF Quit, None
  <2> QED BY <2>1 DEF Request
<1>4. CASE MainThread
  <2>1. UNCHANGED serving /\ main # <<>> /\ main' = Tail(main)
    BY <1>4 DEF MainThread
  <2>2. \A r \in Request : \A i \in 1..Len(main') :
          main'[i] = r => serving'[r] # "none" /\ (serving'[r] = "closed" => Hides(i)')
    BY <2>1, Taken
  <2>3. CASE Head(main) = None
    BY <1>4, <2>2, <2>3 DEF MainThread, Hidden, Request, None
  <2>4. CASE Head(main) # None
    <3>1. pending' = main[1] /\ card' = card /\ main[1] # None
      BY <1>4, <2>1, <2>4, Taken DEF MainThread
    <3>2. Hides(1) => Hides(0)'
      BY <2>1, Taken
    <3>3. \A r \in Request : r \in {card', pending'} =>
            serving'[r] # "none" /\ (serving'[r] = "closed" => Hides(0)')
      BY <2>1, <3>1, <3>2, Taken
    <3> QED BY <2>2, <3>3
  <2> QED BY <2>3, <2>4
<1>5. ASSUME NEW r \in Request, Accept(r) PROVE Swept'
  <2>1. \A q \in Request : /\ serving[q] # "none" => serving'[q] = serving[q]
                           /\ serving'[q] \in {"none", "closed"} => serving'[q] = serving[q]
    BY <1>5 DEF Accept, TypeOK
  <2>2. UNCHANGED <<main, card, pending>>
    BY <1>5 DEF Accept
  <2> QED BY <2>1, <2>2 DEF Hides
<1>6. ASSUME NEW r \in Request, Handle(r) PROVE Swept'
  <2>1. PICK x \in {r, None} : main' = Append(main, x)
    BY <1>6 DEF Handle
  <2>2. UNCHANGED <<serving, card, pending>> /\ serving[r] = "reading"
    BY <1>6 DEF Handle
  <2>3. Len(main) \in Nat /\ None \notin Request
    BY DEF TypeOK, None, Request
  <2> QED BY <2>1, <2>2, <2>3, Queued
<1>7. ASSUME NEW r \in Request, EndOfFile(r) PROVE Swept'
  <2>1. main' = Append(main, None) /\ UNCHANGED <<card, pending>>
    BY <1>7 DEF EndOfFile, AtEnd
  <2>2. \A q \in Request : serving'[q] = "none" => serving[q] = "none"
    BY <1>7 DEF EndOfFile, TypeOK
  <2>3. Len(main) \in Nat /\ None \notin Request
    BY DEF TypeOK, None, Request
  <2> QED BY <2>1, <2>2, <2>3, Queued
<1> QED BY CardCases, <1>1, <1>2, <1>3, <1>4, <1>5, <1>6, <1>7

-----------------------------------------------------------------------------
(* The theorems. *)

\* The inductive invariant holds in every state, for any number of requests.
THEOREM CardInductive == Spec => []CardInv
<1>1. Init => CardInv
  <2> SUFFICES ASSUME Init PROVE CardInv
    OBVIOUS
  <2>1. TypeOK
    <3>1. <<>> \in Seq({"show", "done"}) /\ <<>> \in Seq(Request \cup {None})
      OBVIOUS
    <3> QED BY <3>1, CardAssumption DEF Init, TypeOK
  <2>2. Connected /\ Swept
    BY DEF Init, Connected, Swept, Request, None
  <2> QED BY <2>1, <2>2 DEF CardInv
<1>2. CardInv /\ [Next]_vars => CardInv'
  BY CardTypeStep, ConnectedStep, SweptStep DEF CardInv
<1> QED BY <1>1, <1>2, PTL DEF Spec

\* Every variable of ApprovalCard stays within its type.
THEOREM CardTypeCorrect == Spec => []TypeOK
<1>1. CardInv => TypeOK
  BY DEF CardInv
<1> QED BY <1>1, CardInductive, PTL

\* Once the app has caught up, no card is left of a request that is over
\* (ApprovalServer's hide at the end of a connection, ApprovalPanel).
THEOREM NoCardIsStranded == Spec => []NoStrandedCard
<1>1. CardInv => NoStrandedCard
  <2> SUFFICES ASSUME CardInv, Quiet PROVE /\ at = "idle" => card = None /\ pending = None
                                           /\ {card, pending} \subseteq {None, turn}
    BY DEF NoStrandedCard
  <2>1. Len(main) = 0
    BY DEF Quiet
  <2>2. ASSUME NEW r \in Request, r \in {card, pending} PROVE r = turn /\ at # "idle"
    <3>1. serving[r] # "none" /\ serving[r] # "closed"
      BY <2>1, <2>2 DEF CardInv, Swept, Hides
    <3>2. sock[r] = "open"
      BY <3>1 DEF CardInv, Connected, Quiet, TypeOK
    <3> QED BY <3>2 DEF CardInv, Connected
  <2> QED BY <2>2 DEF CardInv, TypeOK
<1> QED BY <1>1, CardInductive, PTL
=============================================================================
