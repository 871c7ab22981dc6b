------------------------------- MODULE Proxy -------------------------------
(***************************************************************************)
(* The proxy: connections (spawn, serve), the keys of the upstream agents  *)
(* and where each is signed with (refresh_identities, handle_sign for a    *)
(* key that is not keyward's own, daemon/src/agent.rs), one call to an     *)
(* upstream (Upstream, daemon/src/upstream.rs) and the daemon's check of   *)
(* itself (watch_self, daemon/src/main.rs).                                *)
(*                                                                         *)
(* Every connection is a thread.  They share the routes and the count of   *)
(* connections, and nothing across an upstream call.  Time passes only in  *)
(* calls: what a thread does between two calls takes none.  The timeout is *)
(* that of the socket, so it bounds each read and write of a call and not  *)
(* the call: every piece of the message or of the reply that gets through  *)
(* starts it anew.  Comments and the log are left out, and so are          *)
(* keyward's own key (module SignIn) and a handler that panics.            *)
(***************************************************************************)
EXTENDS Integers, FiniteSets

CONSTANTS
  N,            \* how many upstreams, in the order of the config
  Key,          \* the keys clients ask for
  Holds,        \* the keys each upstream offers, [1..N -> SUBSET Key]
  Reliable,     \* the upstreams that always answer
  Client,       \* the clients, each with a connection at a time
  Probe,        \* the daemon as a client of its own socket
  Timeout,      \* config timeout_secs, in ticks
  Pieces,       \* the most reads and writes a call takes: a reply has at most
                \* MAX_MSG bytes, and may come one at a time
  MaxConns      \* MAX_CONNS

Upstream == 1..N
Conn     == Client \cup {Probe}

ASSUME ProxyAssumption ==
  /\ N \in Nat
  /\ Holds \in [Upstream -> SUBSET Key]
  /\ Reliable \subseteq Upstream
  /\ Probe \notin Client
  /\ IsFiniteSet(Client)
  /\ Timeout \in Nat \ {0}
  /\ Pieces \in Nat \ {0}
  /\ MaxConns \in Nat

\* The other request, for the list of identities.
List == "list"

ASSUME ListAssumption == List \notin Key

NoRoute  == 0
NoRoutes == [k \in Key |-> NoRoute]

VARIABLES
  health,      \* of each upstream: it answers, accepts and says nothing, or is gone
  routes,      \* RwLock<HashMap>: key -> the upstream that claimed it
  conns,       \* AtomicUsize
  pc,          \* where the thread of each connection is
  want,        \* the request it serves: List or a key to sign with
  nth,         \* refresh: the upstream it asks
  found,       \* refresh: the routes so far
  target,      \* sign: the upstream it forwards to
  left,        \* the ticks until the read or write in progress times out
  pieces,      \* the reads and writes the call in progress may still take
  outcome,     \* what the request logs
  patience,    \* watch_self: the ticks until its probe times out
  spent        \* history: how long each request has taken

shared == <<routes, conns>>
thread == <<pc, want, nth, found, target, left, pieces, outcome>>
vars   == <<health, shared, thread, patience, spent>>

PC == {"closed", "idle", "ask", "listing", "lookup", "again", "forward", "signing", "reply"}
Waiting == {"listing", "signing"}
Resting == {"closed", "idle"}

\* The longest a call may take; and a request, which asks every upstream and has
\* one sign.
LongestCall == Pieces * Timeout
Longest     == (N + 1) * LongestCall

Health == {"answers", "silent", "gone"}

\* Every variable stays within its type.
TypeOK ==
  /\ health \in [Upstream -> Health]
  /\ routes \in [Key -> 0..N]
  /\ conns \in 0..MaxConns
  /\ pc \in [Conn -> PC]
  /\ want \in [Conn -> Key \cup {List}]
  /\ nth \in [Conn -> 0..(N + 1)]
  /\ found \in [Conn -> [Key -> 0..N]]
  /\ target \in [Conn -> 0..N]
  /\ left \in [Conn -> 0..Timeout]
  /\ pieces \in [Conn -> 0..Pieces]
  /\ outcome \in [Conn -> {"none", "ok", "timeout", "error", "unknown"}]
  /\ patience \in 0..Timeout
  /\ spent \in [Conn -> Nat]

\* What the threads are when the daemon has just started.
Fresh(v, value) == v = [c \in Conn |-> value]

Init ==
  /\ health \in [Upstream -> Health]
  /\ \A u \in Reliable : health[u] = "answers"
  /\ routes = NoRoutes
  /\ conns = 0
  /\ Fresh(pc, "closed")
  /\ Fresh(want, List)
  /\ Fresh(nth, 0)
  /\ Fresh(found, NoRoutes)
  /\ Fresh(target, NoRoute)
  /\ Fresh(left, 0)
  /\ Fresh(pieces, 0)
  /\ Fresh(outcome, "none")
  /\ patience = 0
  /\ Fresh(spent, 0)

\* The daemon waits for an answer from its own socket.
Probing == pc[Probe] \notin Resting

Goto(c, label) == pc' = [pc EXCEPT ![c] = label]

-----------------------------------------------------------------------------
(* The world. *)

\* The upstream a thread waits for.
Called(c) == IF pc[c] = "listing" THEN nth[c] ELSE target[c]

\* Time passes for the calls in progress, and only when every thread waits.  A
\* reliable upstream answers before its call times out.
Tick ==
  /\ \A c \in Conn : pc[c] \in Waiting \cup Resting
  /\ \E c \in Conn : pc[c] \in Waiting
  /\ \A c \in Conn : pc[c] \in Waiting => left[c] > IF Called(c) \in Reliable THEN 1 ELSE 0
  /\ Probing => patience > 0
  /\ left' = [c \in Conn |-> IF pc[c] \in Waiting THEN left[c] - 1 ELSE left[c]]
  /\ patience' = IF Probing THEN patience - 1 ELSE patience
  /\ spent' = [c \in Conn |-> IF pc[c] \in Waiting /\ spent[c] <= Longest
                                THEN spent[c] + 1 ELSE spent[c]]
  /\ UNCHANGED <<health, shared, pc, want, nth, found, target, pieces, outcome>>

\* An upstream starts, stops or stops answering.
UpstreamChanges ==
  /\ \E u \in Upstream \ Reliable, h \in Health :
       health' = [health EXCEPT ![u] = h]
  /\ UNCHANGED <<shared, thread, patience, spent>>

-----------------------------------------------------------------------------
(* spawn and serve. *)

\* A connection is refused when there are too many.
Room == conns < MaxConns

Connect(c) ==
  /\ pc[c] = "closed"
  /\ Room
  /\ conns' = conns + 1
  /\ Goto(c, "idle")
  /\ UNCHANGED <<health, routes, want, nth, found, target, left, pieces, outcome, patience, spent>>

\* refresh_identities starts from nothing, and leaves the routes as they are.
Refresh(c) ==
  /\ Goto(c, "ask")
  /\ nth' = [nth EXCEPT ![c] = 1]
  /\ found' = [found EXCEPT ![c] = NoRoutes]

\* The next message on a connection.
Request(c, w) ==
  /\ pc[c] = "idle"
  /\ want' = [want EXCEPT ![c] = w]
  /\ spent' = [spent EXCEPT ![c] = 0]
  /\ IF w = List THEN Refresh(c) ELSE Goto(c, "lookup") /\ UNCHANGED <<nth, found>>
  /\ UNCHANGED <<health, shared, target, left, pieces, outcome, patience>>

\* session-bind, any other extension and any message the daemon does not know:
\* answered with a failure here, and never forwarded.
Extension(c) ==
  /\ pc[c] = "idle"
  /\ Goto(c, "reply")
  /\ UNCHANGED <<health, shared, want, nth, found, target, left, pieces, outcome, patience, spent>>

\* The reply is written, and the thread reads the next message.
Finished(c, label) ==
  /\ pc' = [pc EXCEPT ![c] = label]
  /\ want' = [want EXCEPT ![c] = List]
  /\ nth' = [nth EXCEPT ![c] = 0]
  /\ found' = [found EXCEPT ![c] = NoRoutes]
  /\ target' = [target EXCEPT ![c] = NoRoute]
  /\ left' = [left EXCEPT ![c] = 0]
  /\ pieces' = [pieces EXCEPT ![c] = 0]
  /\ outcome' = [outcome EXCEPT ![c] = "none"]
  /\ spent' = [spent EXCEPT ![c] = 0]

Reply(c) ==
  /\ pc[c] = "reply"
  /\ Finished(c, "idle")
  /\ UNCHANGED <<health, shared, patience>>

\* The client hangs up, is quiet for an hour, sends what is no message, or is
\* gone when its reply is written: serve returns and the connection is counted
\* no more.
Left_uncounted == conns
Left == conns - 1

Close(c) ==
  /\ pc[c] = "idle" \/ (pc[c] = "reply" /\ c # Probe)
  /\ Finished(c, "closed")
  /\ conns' = Left
  /\ UNCHANGED <<health, routes, patience>>

-----------------------------------------------------------------------------
(* refresh_identities, and a call to an upstream. *)

\* connect: refused at once by an upstream that is gone; any other is waited for.
Call_once(c, u, label) ==
  /\ health[u] # "gone"
  /\ Goto(c, label)
  /\ left' = [left EXCEPT ![c] = 2 * Timeout]
  /\ pieces' = [pieces EXCEPT ![c] = Pieces]
Call(c, u, label) ==
  /\ health[u] # "gone"
  /\ Goto(c, label)
  /\ left' = [left EXCEPT ![c] = Timeout]
  /\ pieces' = [pieces EXCEPT ![c] = Pieces]

\* Some of the message or of the reply gets through, and not the last of it.
Piece(c) ==
  /\ pc[c] \in Waiting
  /\ health[Called(c)] = "answers"
  /\ pieces[c] > 1
  /\ pieces' = [pieces EXCEPT ![c] = @ - 1]
  /\ left' = [left EXCEPT ![c] = Timeout]
  /\ UNCHANGED <<health, shared, pc, want, nth, found, target, outcome, patience, spent>>

\* The call is over, one way or the other.
CallOver(c) ==
  /\ left' = [left EXCEPT ![c] = 0]
  /\ pieces' = [pieces EXCEPT ![c] = 0]

\* The answer of upstream u will not come: the call timed out, or it went away.
GaveUp(c, u) == left[c] = 0 \/ health[u] = "gone"

NextUpstream(c) == nth' = [nth EXCEPT ![c] = @ + 1] /\ Goto(c, "ask")

\* An upstream that fails is passed over.
PassOver_rest(c) == nth' = [nth EXCEPT ![c] = N + 1] /\ Goto(c, "ask")
PassOver(c) == NextUpstream(c)

Ask(c) ==
  /\ pc[c] = "ask"
  /\ nth[c] <= N
  /\ \/ Call(c, nth[c], "listing") /\ UNCHANGED nth
     \/ health[nth[c]] = "gone" /\ PassOver(c) /\ UNCHANGED <<left, pieces>>
  /\ UNCHANGED <<health, shared, want, found, target, outcome, patience, spent>>

\* The first upstream to claim a key wins.
Claim_last(routed, u) == [k \in Key |-> IF k \in Holds[u] THEN u ELSE routed[k]]
Claim(routed, u) ==
  [k \in Key |-> IF k \in Holds[u] /\ routed[k] = NoRoute THEN u ELSE routed[k]]

Listed(c) ==
  /\ pc[c] = "listing"
  /\ health[nth[c]] = "answers"
  /\ found' = [found EXCEPT ![c] = Claim(@, nth[c])]
  /\ NextUpstream(c)
  /\ CallOver(c)
  /\ UNCHANGED <<health, shared, want, target, outcome, patience, spent>>

Unlisted(c) ==
  /\ pc[c] = "listing"
  /\ GaveUp(c, nth[c])
  /\ PassOver(c)
  /\ CallOver(c)
  /\ UNCHANGED <<health, shared, want, found, target, outcome, patience, spent>>

\* The routes are replaced as a whole, by whichever refresh ends last.
Publish(c) ==
  /\ pc[c] = "ask"
  /\ nth[c] > N
  /\ routes' = found[c]
  /\ Goto(c, IF want[c] = List THEN "reply" ELSE "again")
  /\ UNCHANGED <<health, conns, want, nth, found, target, left, pieces, outcome, patience, spent>>

-----------------------------------------------------------------------------
(* handle_sign, for a key an upstream holds. *)

Outcome(c, o) == outcome' = [outcome EXCEPT ![c] = o] /\ Goto(c, "reply")

\* A key without a route is looked for once.
Lookup(c) ==
  /\ pc[c] \in {"lookup", "again"}
  /\ LET u == routes[want[c]]
     IN  \/ /\ u # NoRoute
            /\ target' = [target EXCEPT ![c] = u]
            /\ Goto(c, "forward")
            /\ UNCHANGED <<nth, found, outcome>>
         \/ /\ u = NoRoute
            /\ pc[c] = "lookup"
            /\ Refresh(c)
            /\ UNCHANGED <<target, outcome>>
         \/ /\ u = NoRoute
            /\ pc[c] = "again"
            /\ Outcome(c, "unknown")
            /\ UNCHANGED <<nth, found, target>>
  /\ UNCHANGED <<health, shared, want, left, pieces, patience, spent>>

Forward(c) ==
  /\ pc[c] = "forward"
  /\ \/ Call(c, target[c], "signing") /\ UNCHANGED outcome
     \/ health[target[c]] = "gone" /\ Outcome(c, "error") /\ UNCHANGED <<left, pieces>>
  /\ UNCHANGED <<health, shared, want, nth, found, target, patience, spent>>

\* The upstream signs or denies; the reply is passed on either way.
Signed(c) ==
  /\ pc[c] = "signing"
  /\ health[target[c]] = "answers"
  /\ Outcome(c, "ok")
  /\ CallOver(c)
  /\ UNCHANGED <<health, shared, want, nth, found, target, patience, spent>>

Unsigned(c) ==
  /\ pc[c] = "signing"
  /\ GaveUp(c, target[c])
  /\ Outcome(c, IF health[target[c]] = "gone" THEN "error" ELSE "timeout")
  /\ CallOver(c)
  /\ UNCHANGED <<health, shared, want, nth, found, target, patience, spent>>

Serve(c) ==
  \/ Piece(c) \/ Reply(c) \/ Ask(c) \/ Listed(c) \/ Unlisted(c) \/ Publish(c)
  \/ Lookup(c) \/ Forward(c) \/ Signed(c) \/ Unsigned(c)

-----------------------------------------------------------------------------
(* watch_self: the daemon asks its own socket for the list, as any client. *)

SelfCheck ==
  /\ pc[Probe] = "closed"
  /\ Room
  /\ conns' = conns + 1
  /\ Refresh(Probe)
  /\ patience' = Timeout
  /\ UNCHANGED <<health, routes, want, target, left, pieces, outcome, spent>>

\* Nothing came back in time, or the connection was refused.
Unanswered == IF Probing THEN patience = 0 ELSE pc[Probe] = "closed" /\ ~Room

\* The daemon exits, every connection with it, and launchd starts another.
Exit ==
  /\ Unanswered
  /\ routes' = NoRoutes
  /\ conns' = 0
  /\ Fresh(pc', "closed")
  /\ Fresh(want', List)
  /\ Fresh(nth', 0)
  /\ Fresh(found', NoRoutes)
  /\ Fresh(target', NoRoute)
  /\ Fresh(left', 0)
  /\ Fresh(pieces', 0)
  /\ Fresh(outcome', "none")
  /\ patience' = 0
  /\ Fresh(spent', 0)
  /\ UNCHANGED health

-----------------------------------------------------------------------------
Next ==
  \/ Tick \/ UpstreamChanges \/ SelfCheck \/ Exit
  \/ \E c \in Client : Connect(c) \/ Extension(c) \/ \E w \in Key \cup {List} : Request(c, w)
  \/ \E c \in Conn : Serve(c) \/ Close(c)

Spec == Init /\ [][Next]_vars

-----------------------------------------------------------------------------
(* Properties. *)

\* The count is that of the connections there are, and never above its limit:
\* no path out of serve forgets to count (spawn).
Counted == conns = Cardinality({c \in Conn : pc[c] # "closed"}) /\ conns <= MaxConns

\* A request takes no longer than its own calls may, one to each upstream and one
\* more for the signature, whatever other requests wait for, and each read and
\* write of a call no longer than the timeout (set_read_timeout).  It is less than
\* "every call is bounded by a socket timeout": a call is not, only its pieces.
InTime == \A c \in Conn : spent[c] <= Longest

\* A key that an upstream which always answers holds is never unknown, however
\* the refreshes of other requests, with other upstreams failing, replace the
\* routes meanwhile (refresh_identities, the second lookup of handle_sign).
NeverUnknown ==
  \A c \in Conn : outcome[c] = "unknown" => \A u \in Reliable : want[c] \notin Holds[u]

\* The first upstream to claim a key wins: a request is never forwarded to an
\* upstream behind one that holds the key and always answers.
FirstClaimWins ==
  \A c \in Conn : target[c] # NoRoute =>
    /\ want[c] \in Holds[target[c]]
    /\ \A u \in Reliable : want[c] \in Holds[u] => target[c] <= u

\* "One unresponsive upstream cannot stall an unrelated caller": a request that
\* waits for an upstream that always answers is not cut off by another's silence.
NotCutOff ==
  [][\A c \in Client :
       pc[c] = "signing" /\ target[c] \in Reliable => pc'[c] # "closed"]_vars
=============================================================================
