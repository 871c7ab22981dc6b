---------------------------- MODULE ApprovalCard ----------------------------
(***************************************************************************)
(* The approval card: the daemon tells the app of each request it is about *)
(* to ask for (show and Card, daemon/src/ui.rs), the app's server hears it *)
(* on a thread per connection (ApprovalServer.swift) and its panel, on the *)
(* main thread, shows and hides the card (ApprovalPanel.swift).            *)
(*                                                                         *)
(* Requests take turns in the daemon (sign_gate, module SignIn) and are    *)
(* numbered in the order of their turns.  What the card says, where it is  *)
(* and the polling that moves it are left out.                             *)
(***************************************************************************)
EXTENDS Integers, Sequences

CONSTANT Requests   \* bound: how many requests there are

ASSUME CardAssumption == Requests \in Nat

Request == 1..Requests
None    == 0

VARIABLES
  \* The daemon.
  turn,        \* the last request that had a turn
  at,          \* where its turn is
  sock,        \* of each request: its connection to the app, as the daemon has it
  \* The connections.
  inbox,       \* what was written to each and not read yet
  shown,       \* the connections that the acknowledgement was written to
  \* The app.
  running,     \* the app runs
  serving,     \* of each connection: the thread that serves it
  main,        \* what is queued for the main thread: a request to show, or None to hide
  pending,     \* DispatchWorkItem: the request whose card is held back
  card         \* the request whose card is on screen

daemon == <<turn, at, sock>>
wire   == <<inbox, shown>>
panel  == <<pending, card>>
vars   == <<daemon, wire, running, serving, main, panel>>

\* Every variable stays within its type.
TypeOK ==
  /\ turn \in 0..Requests
  /\ at \in {"idle", "ack", "sheet"}
  /\ sock \in [Request -> {"none", "open", "dropped"}]
  /\ inbox \in [Request -> Seq({"show", "done"})]
  /\ shown \in SUBSET Request
  /\ running \in BOOLEAN
  /\ serving \in [Request -> {"none", "reading", "closed"}]
  /\ main \in Seq(Request \cup {None})
  /\ pending \in Request \cup {None}
  /\ card \in Request \cup {None}

Init ==
  /\ turn = 0
  /\ at = "idle"
  /\ sock = [r \in Request |-> "none"]
  /\ inbox = [r \in Request |-> <<>>]
  /\ shown = {}
  /\ running \in BOOLEAN
  /\ serving = [r \in Request |-> "none"]
  /\ main = <<>>
  /\ pending = None
  /\ card = None

-----------------------------------------------------------------------------
(* The daemon: ui::show, Card::done. *)

\* A turn begins.  With the app running the daemon connects, sends the card and
\* waits to hear that it is up; without, it signs without the card.
Show ==
  /\ at = "idle"
  /\ turn < Requests
  /\ turn' = turn + 1
  /\ IF running
       THEN /\ sock' = [sock EXCEPT ![turn'] = "open"]
            /\ inbox' = [inbox EXCEPT ![turn'] = <<"show">>]
            /\ at' = "ack"
       ELSE at' = "sheet" /\ UNCHANGED <<sock, inbox>>
  /\ UNCHANGED <<shown, running, serving, main, panel>>

\* The app says that the card is up, has closed the connection, or is not heard of
\* for 600 ms: which may be at any time, so the turn may go on at any time.
Ack ==
  /\ at = "ack"
  /\ at' = "sheet"
  /\ UNCHANGED <<turn, sock, wire, running, serving, main, panel>>

\* The sheet was answered, or none was needed: done is written, to a connection
\* the app still has, and the connection dropped.
Sends_unframed(r) == Append(inbox[r], "unframed")
Sends(r) == IF serving[r] = "closed" THEN inbox[r] ELSE Append(inbox[r], "done")

Done ==
  /\ at = "sheet"
  /\ at' = "idle"
  /\ IF sock[turn] = "open"
       THEN /\ sock' = [sock EXCEPT ![turn] = "dropped"]
            /\ inbox' = [inbox EXCEPT ![turn] = Sends(turn)]
       ELSE UNCHANGED <<sock, inbox>>
  /\ UNCHANGED <<turn, shown, running, serving, main, panel>>

\* The daemon exits in the middle of a turn: the connection drops without done.
DaemonExits ==
  /\ at # "idle"
  /\ at' = "idle"
  /\ sock' = [sock EXCEPT ![turn] = IF @ = "open" THEN "dropped" ELSE @]
  /\ UNCHANGED <<turn, wire, running, serving, main, panel>>

-----------------------------------------------------------------------------
(* The app's server: a thread for each connection. *)

Accept(r) ==
  /\ running
  /\ sock[r] # "none"
  /\ serving[r] = "none"
  /\ serving' = [serving EXCEPT ![r] = "reading"]
  /\ UNCHANGED <<daemon, wire, running, main, panel>>

\* handle: the panel is told on the main thread, whenever that comes to it; the
\* daemon is told at once.
Handle(r) ==
  /\ serving[r] = "reading"
  /\ inbox[r] # <<>>
  /\ inbox' = [inbox EXCEPT ![r] = Tail(@)]
  /\ IF Head(inbox[r]) = "show"
       THEN main' = Append(main, r) /\ shown' = shown \cup {r}
       ELSE main' = Append(main, None) /\ UNCHANGED shown
  /\ UNCHANGED <<daemon, running, serving, panel>>

\* A dropped connection must not strand the card on screen.
AtEnd_nothing == main
AtEnd == Append(main, None)

EndOfFile(r) ==
  /\ serving[r] = "reading"
  /\ inbox[r] = <<>>
  /\ sock[r] = "dropped"
  /\ serving' = [serving EXCEPT ![r] = "closed"]
  /\ main' = AtEnd
  /\ UNCHANGED <<daemon, wire, running, panel>>

-----------------------------------------------------------------------------
(* The panel, on the main thread. *)

\* show: a card held back is replaced by this one.  hide: there is no card.
Hidden_heldBack == card' = None /\ UNCHANGED pending
Hidden == pending' = None /\ card' = None

MainThread ==
  /\ main # <<>>
  /\ main' = Tail(main)
  /\ IF Head(main) = None
       THEN Hidden
       ELSE pending' = Head(main) /\ UNCHANGED card
  /\ UNCHANGED <<daemon, wire, running, serving>>

\* The delay is over: the card that was held back is on screen.
Raise ==
  /\ pending # None
  /\ card' = pending
  /\ pending' = None
  /\ UNCHANGED <<daemon, wire, running, serving, main>>

\* The app quits, its connections and its window with it.
Quit ==
  /\ running
  /\ running' = FALSE
  /\ serving' = [r \in Request |-> IF sock[r] = "none" THEN "none" ELSE "closed"]
  /\ inbox' = [r \in Request |-> <<>>]
  /\ main' = <<>>
  /\ pending' = None
  /\ card' = None
  /\ UNCHANGED <<daemon, shown>>

\* ApprovalServer.start: the old socket is unlinked and a new one bound.
Launch ==
  /\ ~running
  /\ running' = TRUE
  /\ UNCHANGED <<daemon, wire, serving, main, panel>>

-----------------------------------------------------------------------------
Daemon == Show \/ Ack \/ Done
App == MainThread \/ Raise \/ \E r \in Request : Accept(r) \/ Handle(r) \/ EndOfFile(r)

Next == Daemon \/ DaemonExits \/ App \/ Quit \/ Launch

Spec == Init /\ [][Next]_vars

\* The threads of the app run while there is something for them to do.  Nothing is
\* assumed of the daemon, or of the user in front of the sheet.
FairSpec ==
  /\ Spec
  /\ WF_vars(MainThread)
  /\ \A r \in Request : WF_vars(Accept(r)) /\ WF_vars(Handle(r)) /\ WF_vars(EndOfFile(r))

-----------------------------------------------------------------------------
(* Properties. *)

\* The app has heard everything the daemon sent and its main thread is idle.
Quiet ==
  /\ running
  /\ main = <<>>
  /\ \A r \in Request : inbox[r] = <<>> /\ (sock[r] = "dropped" => serving[r] = "closed")

\* Once the app has caught up, no card is left of a request that is over, on
\* screen or held back, and none but the card of the request in progress can
\* come up: whatever was slow, dropped or restarted ("A dropped connection must
\* not strand the card on screen").
NoStrandedCard ==
  Quiet => /\ at = "idle" => card = None /\ pending = None
           /\ {card, pending} \subseteq {None, turn}

\* The card of a request that is over comes down in the end and never comes back,
\* on screen or held back: whether the daemon said done or died without, and
\* whichever other cards come and go meanwhile (ApprovalPanel.hide, serve).
CardComesDown ==
  \A r \in Request : sock[r] = "dropped" ~> [](card # r /\ pending # r)

\* "The card is never late when it does matter": while a sheet that the app was
\* told of is up, its card is up or on its way.
NeverLate ==
  Quiet /\ at = "sheet" /\ turn \in shown /\ serving[turn] = "reading" =>
    turn \in {card, pending}
=============================================================================
