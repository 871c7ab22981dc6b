---------------------------- MODULE ProxyProofs ----------------------------
(***************************************************************************)
(* Theorems about Proxy, for any number of upstreams, keys and clients:    *)
(* connections are counted, requests are in time, and keys go to the first *)
(* upstream that claims them.                                              *)
(***************************************************************************)
EXTENDS Proxy, FiniteSetTheorems, TLAPS

-----------------------------------------------------------------------------
(* The invariants. *)

\* The connections there are.
Open == {c \in Conn : pc[c] # "closed"}

\* Every count, index and request is what its thread's place says.
Placed ==
  \A c \in Conn :
    /\ pc[c] \in {"lookup", "again", "forward", "signing"} => want[c] \in Key
    /\ pc[c] \in {"ask", "listing"} => nth[c] >= 1
    /\ pc[c] = "listing" => nth[c] <= N
    /\ pc[c] \in {"forward", "signing"} => target[c] # NoRoute
    /\ pc[c] \notin {"forward", "signing", "reply"} => target[c] = NoRoute
    /\ pc[c] # "reply" => outcome[c] = "none"

\* An upstream that always answers is never given up on.
Answering ==
  /\ \A u \in Reliable : health[u] = "answers"
  /\ \A c \in Conn : pc[c] \in Waiting /\ Called(c) \in Reliable => left[c] > 0

\* What a refresh knows when it has asked the upstreams before n: each route is
\* that of one of them that holds the key, and none is behind one that holds the
\* key and always answers.
Claimed(routed, n) ==
  \A k \in Key :
    /\ routed[k] # NoRoute => routed[k] < n /\ k \in Holds[routed[k]]
    /\ \A u \in Reliable : u < n /\ k \in Holds[u] => routed[k] # NoRoute /\ routed[k] <= u

\* A refresh has claimed so far, and what is published was claimed to the end.
Routed ==
  /\ \A c \in Conn : pc[c] \in {"ask", "listing"} => Claimed(found[c], nth[c])
  /\ routes = NoRoutes \/ Claimed(routes, N + 1)
  /\ \A c \in Conn : pc[c] = "again" => Claimed(routes, N + 1)

\* The time a request may have taken by now: that of a call to each upstream
\* before the one it asks, and what may be left of the call it is in.
Budget(n) == n * LongestCall
After(p)  == (p - 1) * Timeout
Rest(c)   == After(pieces[c]) + left[c]

OnTime ==
  \A c \in Conn :
    /\ pc[c] \in Waiting => pieces[c] >= 1
    /\ pc[c] \in {"closed", "idle", "lookup"} => spent[c] = 0
    /\ pc[c] = "ask" => spent[c] <= Budget(nth[c] - 1)
    /\ pc[c] = "listing" => spent[c] + Rest(c) <= Budget(nth[c])
    /\ pc[c] \in {"again", "forward"} => spent[c] <= Budget(N)
    /\ pc[c] = "signing" => spent[c] + Rest(c) <= Longest
    /\ pc[c] = "reply" => spent[c] <= Longest

-----------------------------------------------------------------------------
(* Types and counts. *)

\* The kinds of step a proof by cases goes through.
LEMMA Cases ==
  ASSUME Next
  PROVE  \/ Tick \/ UpstreamChanges \/ SelfCheck \/ Exit
         \/ \E c \in Conn : \/ Connect(c) \/ Extension(c) \/ (\E w \in Key \cup {List} : Request(c, w))
                           \/ Reply(c) \/ Close(c) \/ Ask(c) \/ Listed(c) \/ Unlisted(c)
                           \/ Publish(c) \/ Lookup(c) \/ Forward(c) \/ Signed(c) \/ Unsigned(c)
                           \/ Piece(c)
BY DEF Next, Serve, Conn

\* A step keeps every variable but the count of connections within its type.
LEMMA TypeStep ==
  ASSUME TypeOK, Placed, [Next]_vars, conns' \in 0..MaxConns
  PROVE  TypeOK'
<1> USE ProxyAssumption
    DEF TypeOK, Goto, PC, NoRoute, Upstream, Health, shared, thread
<1>0. /\ 0 \in 0..N /\ Probe \in Conn /\ NoRoutes \in [Key -> 0..N]
      /\ 1 \in 0..(N + 1) /\ Timeout \in 0..Timeout /\ 0 \in 0..Timeout
      /\ Pieces \in 0..Pieces /\ 0 \in 0..Pieces
  BY DEF Conn, NoRoutes
<1> USE <1>0
<1>1. CASE UNCHANGED vars
  BY <1>1 DEF vars
<1>2. CASE Tick
  <2>1. \A c \in Conn : pc[c] \in Waiting => left[c] > 0
    BY <1>2, SMTT(30) DEF Tick
  <2>2. left' \in [Conn -> 0..Timeout]
    <3>1. \A c \in Conn : (IF pc[c] \in Waiting THEN left[c] - 1 ELSE left[c]) \in 0..Timeout
      BY <2>1
    <3>2. left' = [c \in Conn |-> IF pc[c] \in Waiting THEN left[c] - 1 ELSE left[c]]
      BY <1>2 DEF Tick
    <3> QED BY <3>1, <3>2
  <2>3. patience' \in 0..Timeout
    BY <1>2 DEF Tick
  <2>4. spent' \in [Conn -> Nat]
    <3>1. \A c \in Conn : (IF pc[c] \in Waiting /\ spent[c] <= Longest
                             THEN spent[c] + 1 ELSE spent[c]) \in Nat
      OBVIOUS
    <3>2. spent' = [c \in Conn |-> IF pc[c] \in Waiting /\ spent[c] <= Longest
                                      THEN spent[c] + 1 ELSE spent[c]]
      BY <1>2 DEF Tick
    <3> QED BY <3>1, <3>2
  <2> QED BY <1>2, <2>2, <2>3, <2>4 DEF Tick
<1>3. CASE UpstreamChanges
  BY <1>3 DEF UpstreamChanges
<1>4. CASE SelfCheck
  BY <1>4 DEF SelfCheck, Refresh
<1>5. CASE Exit
  BY <1>5 DEF Exit, Fresh
<1>6. ASSUME NEW c \in Conn, Connect(c) \/ Extension(c) PROVE TypeOK'
  BY <1>6 DEF Connect, Extension
<1>7. ASSUME NEW c \in Conn, NEW w \in Key \cup {List}, Request(c, w) PROVE TypeOK'
  <2>1. CASE w = List
    <3>1. nth' = [nth EXCEPT ![c] = 1] /\ found' = [found EXCEPT ![c] = NoRoutes]
      BY <1>7, <2>1 DEF Request, Refresh
    <3>2. nth' \in [Conn -> 0..(N + 1)]
      BY <3>1
    <3>3. found' \in [Conn -> [Key -> 0..N]]
      BY <3>1, Zenon
    <3> QED BY <1>7, <2>1, <3>2, <3>3 DEF Request, Refresh
  <2>2. CASE w # List
    BY <1>7, <2>2 DEF Request
  <2> QED BY <2>1, <2>2
<1>8. ASSUME NEW c \in Conn, Reply(c) \/ Close(c) PROVE TypeOK'
  <2>1. /\ UNCHANGED <<health, routes, patience>>
        /\ Finished(c, "idle") \/ Finished(c, "closed")
    BY <1>8 DEF Reply, Close
  <2>2. pc' \in [Conn -> PC] /\ want' \in [Conn -> Key \cup {List}]
    BY <2>1 DEF Finished
  <2>3. nth' \in [Conn -> 0..(N + 1)] /\ target' \in [Conn -> 0..N]
    <3>1. /\ nth' = [nth EXCEPT ![c] = 0] /\ target' = [target EXCEPT ![c] = 0]
      BY <2>1 DEF Finished, NoRoute
    <3> QED BY <3>1
  <2>4. left' \in [Conn -> 0..Timeout] /\ pieces' \in [Conn -> 0..Pieces]
    <3>1. /\ left' = [left EXCEPT ![c] = 0] /\ pieces' = [pieces EXCEPT ![c] = 0]
      BY <2>1 DEF Finished
    <3> QED BY <3>1
  <2>5. spent' \in [Conn -> Nat]
    BY <2>1, SMTT(30) DEF Finished
  <2>6. found' \in [Conn -> [Key -> 0..N]]
    BY <2>1, Zenon DEF Finished
  <2>7. outcome' \in [Conn -> {"none", "ok", "timeout", "error", "unknown"}]
    BY <2>1 DEF Finished
  <2> QED BY <2>1, <2>2, <2>3, <2>4, <2>5, <2>6, <2>7
<1>9. ASSUME NEW c \in Conn, Ask(c) \/ Unlisted(c) PROVE TypeOK'
  <2>1. nth[c] \in 1..N /\ nth[c] + 1 \in 0..(N + 1)
    BY <1>9, SMTT(30) DEF Ask, Unlisted, Placed
  <2>2. /\ UNCHANGED <<health, routes, want, found, target, outcome, patience, spent>>
        /\ nth' = nth \/ nth' = [nth EXCEPT ![c] = nth[c] + 1]
        /\ \/ left' = left
           \/ left' = [left EXCEPT ![c] = 0]
           \/ left' = [left EXCEPT ![c] = Timeout]
        /\ \/ pieces' = pieces
           \/ pieces' = [pieces EXCEPT ![c] = 0]
           \/ pieces' = [pieces EXCEPT ![c] = Pieces]
        /\ \E l \in {"ask", "listing"} : pc' = [pc EXCEPT ![c] = l]
    <3>1. CASE Ask(c)
      BY <3>1 DEF Ask, Call, PassOver, NextUpstream
    <3>2. CASE Unlisted(c)
      BY <3>2 DEF Unlisted, CallOver, PassOver, NextUpstream
    <3> QED BY <1>9, <3>1, <3>2
  <2>3. nth' \in [Conn -> 0..(N + 1)]
    BY <2>1, <2>2
  <2>4. left' \in [Conn -> 0..Timeout]
    BY <2>2
  <2>5. pc' \in [Conn -> PC]
    BY <2>2
  <2>6. pieces' \in [Conn -> 0..Pieces]
    BY <2>2
  <2> QED BY <2>2, <2>3, <2>4, <2>5, <2>6
<1>10. ASSUME NEW c \in Conn, Listed(c) PROVE TypeOK'
  <2>1. Claim(found[c], nth[c]) \in [Key -> 0..N] /\ nth[c] + 1 \in 0..(N + 1)
    BY <1>10 DEF Listed, Claim, Placed
  <2>2. found' \in [Conn -> [Key -> 0..N]]
    BY <1>10, <2>1 DEF Listed
  <2>3. nth' \in [Conn -> 0..(N + 1)] /\ pc' \in [Conn -> PC]
    BY <1>10, <2>1 DEF Listed, NextUpstream
  <2>4. left' \in [Conn -> 0..Timeout] /\ pieces' \in [Conn -> 0..Pieces]
    BY <1>10 DEF Listed, CallOver
  <2> QED BY <1>10, <2>2, <2>3, <2>4 DEF Listed
<1>11. ASSUME NEW c \in Conn, Publish(c) PROVE TypeOK'
  BY <1>11 DEF Publish
<1>12. ASSUME NEW c \in Conn, Lookup(c) PROVE TypeOK'
  <2>1. routes[want[c]] \in 0..N
    BY <1>12 DEF Lookup, Placed
  <2>2. /\ UNCHANGED <<health, routes, want, left, pieces, patience, spent>>
        /\ target' = target \/ target' = [target EXCEPT ![c] = routes[want[c]]]
        /\ nth' = nth \/ nth' = [nth EXCEPT ![c] = 1]
        /\ found' = found \/ found' = [found EXCEPT ![c] = NoRoutes]
        /\ outcome' = outcome \/ outcome' = [outcome EXCEPT ![c] = "unknown"]
        /\ \E l \in {"forward", "ask", "reply"} : pc' = [pc EXCEPT ![c] = l]
    BY <1>12 DEF Lookup, Refresh, Outcome
  <2>3. nth' \in [Conn -> 0..(N + 1)]
    BY <2>2
  <2>4. found' \in [Conn -> [Key -> 0..N]]
    BY <2>2, Zenon
  <2>5. target' \in [Conn -> 0..N]
    BY <2>1, <2>2
  <2>6. pc' \in [Conn -> PC]
    BY <2>2
  <2>7. outcome' \in [Conn -> {"none", "ok", "timeout", "error", "unknown"}]
    BY <2>2
  <2> QED BY <2>2, <2>3, <2>4, <2>5, <2>6, <2>7
<1>13. ASSUME NEW c \in Conn, Forward(c) \/ Signed(c) \/ Unsigned(c) PROVE TypeOK'
  <2>1. /\ UNCHANGED <<health, routes, want, nth, found, target, patience, spent>>
        /\ \/ left' = left
           \/ left' = [left EXCEPT ![c] = 0]
           \/ left' = [left EXCEPT ![c] = Timeout]
        /\ \/ pieces' = pieces
           \/ pieces' = [pieces EXCEPT ![c] = 0]
           \/ pieces' = [pieces EXCEPT ![c] = Pieces]
        /\ \/ outcome' = outcome
           \/ \E o \in {"ok", "error", "timeout"} : outcome' = [outcome EXCEPT ![c] = o]
        /\ \E l \in {"signing", "reply"} : pc' = [pc EXCEPT ![c] = l]
    <3>1. CASE Forward(c)
      BY <3>1 DEF Forward, Call, Outcome
    <3>2. CASE Signed(c) \/ Unsigned(c)
      BY <3>2 DEF Signed, Unsigned, CallOver, Outcome
    <3> QED BY <1>13, <3>1, <3>2
  <2>2. left' \in [Conn -> 0..Timeout]
    BY <2>1
  <2>3. pc' \in [Conn -> PC]
    BY <2>1
  <2>4. outcome' \in [Conn -> {"none", "ok", "timeout", "error", "unknown"}]
    BY <2>1
  <2>5. pieces' \in [Conn -> 0..Pieces]
    BY <2>1
  <2> QED BY <2>1, <2>2, <2>3, <2>4, <2>5
<1>14. ASSUME NEW c \in Conn, Piece(c) PROVE TypeOK'
  <2>1. pieces[c] - 1 \in 0..Pieces
    BY <1>14 DEF Piece
  <2> QED BY <1>14, <2>1 DEF Piece
<1> QED
  BY Cases, <1>1, <1>2, <1>3, <1>4, <1>5, <1>6, <1>7, <1>8, <1>9, <1>10, <1>11, <1>12, <1>13,
     <1>14

\* Every path into a connection counts it, every path out counts it no more.
LEMMA CountedStep ==
  ASSUME TypeOK, Counted, [Next]_vars
  PROVE  Counted' /\ conns' \in 0..MaxConns
<1>0. /\ Open \in SUBSET Conn /\ IsFiniteSet(Open) /\ conns = Cardinality(Open) /\ Probe \in Conn
      /\ conns \in 0..MaxConns /\ MaxConns \in Nat
  <2>1. IsFiniteSet(Conn)
    BY ProxyAssumption, FS_AddElement DEF Conn
  <2>2. Open \in SUBSET Conn
    BY DEF Open
  <2> QED BY <2>1, <2>2, FS_Subset, ProxyAssumption DEF Open, Counted, Conn, TypeOK
<1> SUFFICES conns' = Cardinality(Open') /\ conns' \in 0..MaxConns
  BY <1>0 DEF Counted, Open
<1>1. ASSUME NEW c \in Conn, pc[c] = "closed", Room, conns' = conns + 1,
             \E l \in {"idle", "ask"} : Goto(c, l)
      PROVE  conns' = Cardinality(Open') /\ conns' \in 0..MaxConns
  <2>1. Open' = Open \cup {c} /\ c \notin Open
    BY <1>1 DEF Open, Goto, TypeOK
  <2>2. Cardinality(Open') = Cardinality(Open) + 1
    BY <1>0, <2>1, FS_AddElement
  <2> QED BY <1>0, <1>1, <2>2 DEF Room
<1>2. ASSUME NEW c \in Conn, Close(c)
      PROVE  conns' = Cardinality(Open') /\ conns' \in 0..MaxConns
  <2>1. Open' = Open \ {c} /\ c \in Open
    BY <1>2 DEF Close, Finished, Open, TypeOK
  <2>2. Cardinality(Open') = Cardinality(Open) - 1 /\ Cardinality(Open) # 0
    BY <1>0, <2>1, FS_RemoveElement, FS_EmptySet
  <2> QED BY <1>0, <1>2, <2>2 DEF Close, Left
<1>3. CASE Exit
  <2>1. Open' = {}
    BY <1>3 DEF Exit, Fresh, Open
  <2> QED BY <1>0, <1>3, <2>1, FS_EmptySet DEF Exit
<1>4. CASE SelfCheck
  BY <1>0, <1>1, <1>4 DEF SelfCheck, Refresh
<1>5. ASSUME NEW c \in Conn, Connect(c)
      PROVE  conns' = Cardinality(Open') /\ conns' \in 0..MaxConns
  BY <1>1, <1>5 DEF Connect
<1>6. ASSUME Open' = Open, conns' = conns
      PROVE  conns' = Cardinality(Open') /\ conns' \in 0..MaxConns
  BY <1>0, <1>6
<1>7. CASE UNCHANGED vars \/ Tick \/ UpstreamChanges \/ \E c \in Conn : Piece(c)
  BY <1>6, <1>7 DEF vars, Tick, UpstreamChanges, Piece, shared, thread, Open
<1>8. ASSUME NEW c \in Conn, \/ Extension(c) \/ (\E w \in Key \cup {List} : Request(c, w))
                             \/ Reply(c) \/ Ask(c) \/ Listed(c) \/ Unlisted(c) \/ Publish(c)
                             \/ Lookup(c) \/ Forward(c) \/ Signed(c) \/ Unsigned(c)
      PROVE  conns' = Cardinality(Open') /\ conns' \in 0..MaxConns
  <2>1. pc[c] # "closed" /\ conns' = conns
    BY <1>8 DEF Extension, Request, Reply, Ask, Listed, Unlisted, Publish, Lookup, Forward,
                Signed, Unsigned, shared
  <2>2. PICK l : l # "closed" /\ pc' = [pc EXCEPT ![c] = l]
    <3>1. CASE Extension(c) \/ \E w \in Key \cup {List} : Request(c, w)
      BY <3>1 DEF Extension, Request, Refresh, Goto
    <3>2. CASE Reply(c) \/ Publish(c)
      BY <3>2 DEF Reply, Publish, Finished, Goto
    <3>3. CASE Ask(c) \/ Listed(c) \/ Unlisted(c)
      BY <3>3 DEF Ask, Listed, Unlisted, Call, PassOver, NextUpstream, Goto
    <3>4. CASE Lookup(c) \/ Forward(c) \/ Signed(c) \/ Unsigned(c)
      BY <3>4 DEF Lookup, Forward, Signed, Unsigned, Refresh, Call, Outcome, Goto
    <3> QED BY <1>8, <3>1, <3>2, <3>3, <3>4
  <2>3. Open' = Open
    BY <2>1, <2>2 DEF Open, TypeOK
  <2> QED BY <1>6, <2>1, <2>3
<1> QED BY Cases, <1>2, <1>3, <1>4, <1>5, <1>7, <1>8

-----------------------------------------------------------------------------
(* Where a thread is, and what it knows there. *)

\* What a thread has in its variables is kept in step with its place.
LEMMA PlacedStep ==
  ASSUME TypeOK, Placed, [Next]_vars
  PROVE  Placed'
<1> USE ProxyAssumption DEF Placed, TypeOK, Goto, NoRoute
<1>0. Probe \in Conn
  BY DEF Conn
<1>1. CASE UNCHANGED vars \/ Tick \/ UpstreamChanges \/ \E c \in Conn : Piece(c)
  BY <1>1 DEF vars, thread, Tick, UpstreamChanges, Piece
<1>2. CASE SelfCheck
  BY <1>0, <1>2 DEF SelfCheck, Refresh
<1>3. CASE Exit
  BY <1>3 DEF Exit, Fresh
<1>4. ASSUME NEW c \in Conn, Connect(c) \/ Extension(c) PROVE Placed'
  BY <1>4 DEF Connect, Extension
<1>5. ASSUME NEW c \in Conn, NEW w \in Key \cup {List}, Request(c, w) PROVE Placed'
  BY <1>5 DEF Request, Refresh
<1>6. ASSUME NEW c \in Conn, Reply(c) \/ Close(c) PROVE Placed'
  <2>1. PICK l \in {"idle", "closed"} : Finished(c, l)
    BY <1>6 DEF Reply, Close
  <2>2. /\ pc'[c] \in {"idle", "closed"} /\ target'[c] = NoRoute /\ outcome'[c] = "none"
        /\ \A d \in Conn \ {c} :
             /\ pc'[d] = pc[d] /\ want'[d] = want[d] /\ nth'[d] = nth[d]
             /\ target'[d] = target[d] /\ outcome'[d] = outcome[d]
    BY <2>1 DEF Finished
  <2> QED BY <2>2
<1>7. ASSUME NEW c \in Conn, Ask(c) \/ Listed(c) \/ Unlisted(c) PROVE Placed'
  BY <1>7 DEF Ask, Listed, Unlisted, Call, PassOver, NextUpstream
<1>8. ASSUME NEW c \in Conn, Publish(c) PROVE Placed'
  BY <1>8 DEF Publish
<1>9. ASSUME NEW c \in Conn, Lookup(c) PROVE Placed'
  BY <1>9 DEF Lookup, Refresh, Outcome
<1>10. ASSUME NEW c \in Conn, Forward(c) \/ Signed(c) \/ Unsigned(c) PROVE Placed'
  BY <1>10 DEF Forward, Signed, Unsigned, Call, Outcome
<1> QED BY Cases, <1>1, <1>2, <1>3, <1>4, <1>5, <1>6, <1>7, <1>8, <1>9, <1>10

\* A reliable upstream stays up, and its calls have time left.
LEMMA AnsweringStep ==
  ASSUME TypeOK, Placed, Answering, [Next]_vars
  PROVE  Answering'
<1> USE ProxyAssumption DEF Answering, TypeOK, Goto, Waiting, Called
<1>0. Probe \in Conn
  BY DEF Conn
<1>1. CASE UNCHANGED vars \/ UpstreamChanges
  BY <1>1 DEF vars, thread, UpstreamChanges
<1>2. CASE Tick
  BY <1>2 DEF Tick
<1>3. CASE SelfCheck
  BY <1>0, <1>3 DEF SelfCheck, Refresh
<1>4. CASE Exit
  BY <1>4 DEF Exit, Fresh
<1>5. ASSUME NEW c \in Conn, Connect(c) \/ Extension(c) \/ Publish(c) PROVE Answering'
  BY <1>5 DEF Connect, Extension, Publish
<1>6. ASSUME NEW c \in Conn, NEW w \in Key \cup {List}, Request(c, w) PROVE Answering'
  BY <1>6 DEF Request, Refresh
<1>7. ASSUME NEW c \in Conn, Reply(c) \/ Close(c) PROVE Answering'
  BY <1>7 DEF Reply, Close, Finished
<1>8. ASSUME NEW c \in Conn, Ask(c) \/ Listed(c) \/ Unlisted(c) PROVE Answering'
  <2>1. /\ health' = health /\ target' = target
        /\ \A d \in Conn \ {c} : pc'[d] = pc[d] /\ left'[d] = left[d] /\ nth'[d] = nth[d]
        /\ pc'[c] = "ask" \/ left'[c] = Timeout
    <3>1. CASE Ask(c)
      BY <3>1 DEF Ask, Call, PassOver, NextUpstream
    <3>2. CASE Listed(c) \/ Unlisted(c)
      BY <3>2 DEF Listed, Unlisted, CallOver, PassOver, NextUpstream
    <3> QED BY <1>8, <3>1, <3>2
  <2> QED BY <2>1
<1>9. ASSUME NEW c \in Conn, Lookup(c) PROVE Answering'
  BY <1>9 DEF Lookup, Refresh, Outcome
<1>10. ASSUME NEW c \in Conn, Forward(c) \/ Signed(c) \/ Unsigned(c) PROVE Answering'
  <2>1. /\ health' = health /\ target' = target /\ nth' = nth
        /\ \A d \in Conn \ {c} : pc'[d] = pc[d] /\ left'[d] = left[d]
        /\ pc'[c] = "reply" \/ left'[c] = Timeout
    <3>1. CASE Forward(c)
      BY <3>1 DEF Forward, Call, Outcome
    <3>2. CASE Signed(c) \/ Unsigned(c)
      BY <3>2 DEF Signed, Unsigned, CallOver, Outcome
    <3> QED BY <1>10, <3>1, <3>2
  <2> QED BY <2>1
<1>11. ASSUME NEW c \in Conn, Piece(c) PROVE Answering'
  BY <1>11 DEF Piece
<1> QED BY Cases, <1>1, <1>2, <1>3, <1>4, <1>5, <1>6, <1>7, <1>8, <1>9, <1>10, <1>11

-----------------------------------------------------------------------------
(* The routes. *)

\* A refresh starts with no claims.
LEMMA NothingClaimed == Claimed(NoRoutes, 1)
BY ProxyAssumption DEF Claimed, NoRoutes, NoRoute, Upstream

\* One more upstream has listed its keys: it gets those nobody claimed before.
LEMMA ClaimIsNext ==
  ASSUME NEW f \in [Key -> 0..N], NEW u \in Upstream, Claimed(f, u)
  PROVE  Claimed(Claim(f, u), u + 1)
<1> SUFFICES ASSUME NEW k \in Key
             PROVE  LET g == Claim(f, u)
                    IN  /\ g[k] # NoRoute => g[k] < u + 1 /\ k \in Holds[g[k]]
                        /\ \A v \in Reliable : v < u + 1 /\ k \in Holds[v]
                                               => g[k] # NoRoute /\ g[k] <= v
  BY DEF Claimed
<1>1. Claim(f, u)[k] = IF k \in Holds[u] /\ f[k] = NoRoute THEN u ELSE f[k]
  BY DEF Claim
<1>2. /\ f[k] # NoRoute => f[k] < u /\ k \in Holds[f[k]]
      /\ \A v \in Reliable : v < u /\ k \in Holds[v] => f[k] # NoRoute /\ f[k] <= v
  BY DEF Claimed
<1>3. u \in 1..N /\ f[k] \in 0..N /\ \A v \in Reliable : v \in 1..N
  BY ProxyAssumption DEF Upstream
<1> QED BY <1>1, <1>2, <1>3, ProxyAssumption DEF NoRoute

\* One that does not answer is not reliable: it is passed over at no loss.
LEMMA PassingOver ==
  ASSUME NEW f \in [Key -> 0..N], NEW u \in Upstream \ Reliable, Claimed(f, u)
  PROVE  Claimed(f, u + 1)
<1>1. u \in 1..N /\ (\A k \in Key : f[k] \in 0..N) /\ \A v \in Reliable : v \in 1..N /\ v # u
  BY ProxyAssumption DEF Upstream
<1> QED BY <1>1, ProxyAssumption DEF Claimed

\* Every refresh knows what it has asked, and only whole refreshes are published.
LEMMA RoutedStep ==
  ASSUME TypeOK, Placed, Answering, Routed, [Next]_vars
  PROVE  Routed'
<1> USE ProxyAssumption DEF Routed
<1> DEFINE Knows(c) == pc[c] \in {"ask", "listing"} => Claimed(found[c], nth[c])
           Same(c) == pc'[c] = pc[c] /\ found'[c] = found[c] /\ nth'[c] = nth[c]
<1>0. Probe \in Conn
  BY DEF Conn
<1>1. CASE UNCHANGED vars \/ Tick \/ UpstreamChanges \/ \E c \in Conn : Piece(c)
  BY <1>1 DEF vars, shared, thread, Tick, UpstreamChanges, Piece
<1>2. CASE Exit
  BY <1>2 DEF Exit, Fresh
<1>3. ASSUME NEW c \in Conn, routes' = routes, \A d \in Conn \ {c} : Same(d),
             Knows(c)', pc'[c] # "again"
      PROVE  Routed'
  BY <1>3
<1>4. ASSUME NEW c \in Conn, Refresh(c), routes' = routes PROVE Routed'
  <2>1. /\ pc'[c] = "ask" /\ nth'[c] = 1 /\ found'[c] = NoRoutes
        /\ \A d \in Conn \ {c} : Same(d)
    BY <1>4 DEF Refresh, Goto, TypeOK
  <2> QED BY <1>3, <1>4, <2>1, NothingClaimed
<1>5. CASE SelfCheck
  BY <1>0, <1>4, <1>5 DEF SelfCheck
<1>6. ASSUME NEW c \in Conn, \/ Connect(c) \/ Extension(c) \/ Reply(c) \/ Close(c)
                             \/ Forward(c) \/ Signed(c) \/ Unsigned(c)
      PROVE  Routed'
  <2>1. /\ routes' = routes /\ (\A d \in Conn \ {c} : Same(d))
        /\ pc'[c] \in {"idle", "closed", "reply", "signing"}
    BY <1>6 DEF Connect, Extension, Reply, Close, Finished, Forward, Signed, Unsigned, Call,
                Outcome, Goto, shared, TypeOK
  <2> QED BY <1>3, <2>1
<1>7. ASSUME NEW c \in Conn, NEW w \in Key \cup {List}, Request(c, w) PROVE Routed'
  <2>1. CASE w = List
    BY <1>4, <1>7, <2>1 DEF Request, shared
  <2>2. CASE w # List
    <3>1. routes' = routes /\ (\A d \in Conn \ {c} : Same(d)) /\ pc'[c] = "lookup"
      BY <1>7, <2>2 DEF Request, Goto, shared, TypeOK
    <3> QED BY <1>3, <3>1
  <2> QED BY <2>1, <2>2
<1>8. ASSUME NEW c \in Conn, Lookup(c) PROVE Routed'
  <2>1. routes' = routes
    BY <1>8 DEF Lookup, shared
  <2>2. CASE Refresh(c)
    BY <1>4, <2>1, <2>2
  <2>3. CASE ~Refresh(c)
    <3>1. (\A d \in Conn \ {c} : Same(d)) /\ pc'[c] \in {"forward", "reply"}
      BY <1>8, <2>3 DEF Lookup, Outcome, Goto, TypeOK
    <3> QED BY <1>3, <2>1, <3>1
  <2> QED BY <2>2, <2>3
<1>9. ASSUME NEW c \in Conn, Ask(c) \/ Listed(c) \/ Unlisted(c) PROVE Routed'
  <2>1. /\ routes' = routes /\ (\A d \in Conn \ {c} : Same(d)) /\ pc'[c] \in {"ask", "listing"}
        /\ nth[c] \in Upstream /\ found[c] \in [Key -> 0..N] /\ Claimed(found[c], nth[c])
    BY <1>9 DEF Ask, Listed, Unlisted, Call, PassOver, NextUpstream, Goto, shared, TypeOK,
                Placed, Upstream
  <2>2. CASE Listed(c)
    <3>1. found'[c] = Claim(found[c], nth[c]) /\ nth'[c] = nth[c] + 1
      BY <2>2 DEF Listed, NextUpstream, TypeOK
    <3> QED BY <1>3, <2>1, <3>1, ClaimIsNext
  <2>3. CASE Ask(c) /\ nth' = nth
    BY <1>3, <2>1, <2>3 DEF Ask
  <2>4. CASE Unlisted(c) \/ (Ask(c) /\ nth' # nth)
    <3>1. found' = found /\ nth'[c] = nth[c] + 1 /\ nth[c] \notin Reliable
      BY <2>4 DEF Unlisted, Ask, Call, GaveUp, PassOver, NextUpstream, Answering, Called,
                  Waiting, TypeOK
    <3> QED BY <1>3, <2>1, <3>1, PassingOver
  <2> QED BY <1>9, <2>2, <2>3, <2>4
<1>10. ASSUME NEW c \in Conn, Publish(c) PROVE Routed'
  <2>1. /\ nth[c] = N + 1 /\ Claimed(found[c], nth[c]) /\ routes' = found[c]
        /\ (\A d \in Conn \ {c} : Same(d)) /\ pc'[c] \in {"reply", "again"}
    BY <1>10 DEF Publish, Goto, TypeOK
  <2> QED BY <2>1
<1> QED BY Cases, <1>1, <1>2, <1>5, <1>6, <1>7, <1>8, <1>9, <1>10

-----------------------------------------------------------------------------
(* The time. *)

\* The calls to the upstreams add up.
LEMMA Budgets ==
  /\ LongestCall \in Nat
  /\ \A n \in Nat : Budget(n) \in Nat /\ Budget(n + 1) = Budget(n) + LongestCall
  /\ Budget(0) = 0
  /\ Budget(N + 1) = Longest
<1>0. LongestCall \in Nat
  BY ProxyAssumption DEF LongestCall
<1>1. \A n \in Nat : Budget(n) \in Nat
  BY <1>0 DEF Budget
<1>2. \A n \in Nat : (n + 1) * LongestCall = n * LongestCall + LongestCall
  BY <1>0
<1> QED BY <1>0, <1>1, <1>2, ProxyAssumption DEF Budget, Longest

\* So do the reads and writes of a call.
LEMMA Rests ==
  /\ \A p \in Nat \ {0} : After(p) \in Nat /\ After(p + 1) = After(p) + Timeout
  /\ After(Pieces) + Timeout = LongestCall
<1>1. \A p \in Nat \ {0} : (p - 1) * Timeout \in Nat
  BY ProxyAssumption
<1>2. \A p \in Nat \ {0} : ((p + 1) - 1) * Timeout = (p - 1) * Timeout + Timeout
  BY ProxyAssumption
<1>3. (Pieces - 1) * Timeout + Timeout = Pieces * Timeout
  BY ProxyAssumption
<1> QED BY <1>1, <1>2, <1>3 DEF After, LongestCall

\* What may be left of a call: all of it when it begins, and no more as it goes on.
LEMMA RestSteps ==
  ASSUME TypeOK, NEW c \in Conn
  PROVE  /\ pieces[c] >= 1 => Rest(c) \in Nat
         /\ pieces'[c] = Pieces /\ left'[c] = Timeout => Rest(c)' = LongestCall
         /\ pieces[c] >= 1 /\ pieces'[c] = pieces[c] /\ left'[c] = left[c] - 1
              => Rest(c)' = Rest(c) - 1
         /\ pieces[c] > 1 /\ pieces'[c] = pieces[c] - 1 /\ left'[c] = Timeout
              => Rest(c)' <= Rest(c) /\ Rest(c)' \in Nat
<1>1. pieces[c] \in Nat /\ left[c] \in Nat /\ Timeout \in Nat /\ Pieces \in Nat \ {0}
  BY ProxyAssumption DEF TypeOK
<1>2. pieces[c] >= 1 => After(pieces[c]) \in Nat
  BY <1>1, Rests
<1>3. pieces[c] > 1 => /\ After(pieces[c] - 1) \in Nat
                       /\ After(pieces[c]) = After(pieces[c] - 1) + Timeout
  <2>1. pieces[c] > 1 => pieces[c] - 1 \in Nat \ {0} /\ (pieces[c] - 1) + 1 = pieces[c]
    BY <1>1
  <2> QED BY <2>1, Rests
<1>4. After(Pieces) \in Nat
  BY <1>1, Rests
<1>5. Rest(c) = After(pieces[c]) + left[c] /\ Rest(c)' = After(pieces'[c]) + left'[c]
  BY DEF Rest, After
<1> QED BY <1>1, <1>2, <1>3, <1>4, <1>5, Rests

\* No read or write gets more than the timeout, and no call is made twice.
LEMMA OnTimeStep ==
  ASSUME TypeOK, Placed, OnTime, [Next]_vars
  PROVE  OnTime'
<1>0. /\ \A n \in Nat : Budget(n) \in Nat /\ Budget(n + 1) = Budget(n) + LongestCall
      /\ Budget(0) = 0 /\ Longest = Budget(N) + LongestCall /\ Budget(N) \in Nat
      /\ N \in Nat /\ LongestCall \in Nat /\ Pieces >= 1 /\ Probe \in Conn
  BY Budgets, ProxyAssumption DEF Conn
<1>00. \A c \in Conn : /\ spent[c] \in Nat /\ nth[c] \in Nat
                       /\ pc[c] \in {"ask", "listing"} => nth[c] >= 1 /\ nth[c] - 1 \in Nat
                       /\ pc[c] \in Waiting => pieces[c] >= 1 /\ Rest(c) \in Nat
  BY RestSteps DEF TypeOK, Placed, OnTime
<1> DEFINE Fine(c) == /\ pc[c] \in Waiting => pieces[c] >= 1
                      /\ pc[c] \in {"closed", "idle", "lookup"} => spent[c] = 0
                      /\ pc[c] = "ask" => spent[c] <= Budget(nth[c] - 1)
                      /\ pc[c] = "listing" => spent[c] + Rest(c) <= Budget(nth[c])
                      /\ pc[c] \in {"again", "forward"} => spent[c] <= Budget(N)
                      /\ pc[c] = "signing" => spent[c] + Rest(c) <= Longest
                      /\ pc[c] = "reply" => spent[c] <= Longest
           Same(c) == /\ pc'[c] = pc[c] /\ spent'[c] = spent[c] /\ pieces'[c] = pieces[c]
                      /\ left'[c] = left[c] /\ nth'[c] = nth[c]
<1>1. \A c \in Conn : Fine(c)
  BY DEF OnTime
<1>2. SUFFICES \A c \in Conn : Fine(c)'
  BY DEF OnTime
<1>3. \A c \in Conn : Same(c) => Fine(c)'
  BY <1>1 DEF Rest, After
<1>4. CASE UNCHANGED vars \/ UpstreamChanges
  BY <1>3, <1>4 DEF vars, thread, UpstreamChanges
<1>5. CASE Tick
  <2> SUFFICES ASSUME NEW c \in Conn PROVE Fine(c)'
    OBVIOUS
  <2>1. CASE pc[c] \in Waiting
    <3>1. /\ left[c] > 0 /\ left'[c] = left[c] - 1 /\ spent'[c] \in {spent[c], spent[c] + 1}
          /\ pc' = pc /\ nth' = nth /\ pieces' = pieces
      BY <1>5, <2>1 DEF Tick, TypeOK
    <3>2. Rest(c)' = Rest(c) - 1
      BY <1>00, <2>1, <3>1, RestSteps
    <3> QED BY <1>0, <1>00, <1>1, <2>1, <3>1, <3>2 DEF Waiting
  <2>2. CASE pc[c] \notin Waiting
    BY <1>3, <1>5, <2>2 DEF Tick, TypeOK
  <2> QED BY <2>1, <2>2
<1>6. CASE Exit
  BY <1>6 DEF Exit, Fresh, Waiting
<1>7. ASSUME NEW c \in Conn, Refresh(c), spent'[c] = 0,
             \A d \in Conn \ {c} : spent'[d] = spent[d] /\ left'[d] = left[d] /\ pieces'[d] = pieces[d]
      PROVE  \A d \in Conn : Fine(d)'
  <2>1. /\ pc'[c] = "ask" /\ nth'[c] = 1 /\ \A d \in Conn \ {c} : Same(d)
    BY <1>7 DEF Refresh, Goto, TypeOK
  <2>2. Fine(c)'
    BY <1>0, <1>7, <2>1 DEF Waiting
  <2> QED BY <1>3, <2>1, <2>2
<1>8. CASE SelfCheck
  <2>1. Refresh(Probe) /\ UNCHANGED <<spent, left, pieces>> /\ spent[Probe] = 0
    BY <1>0, <1>1, <1>8 DEF SelfCheck
  <2> QED BY <1>0, <1>7, <2>1
<1>9. ASSUME NEW c \in Conn, Connect(c) \/ Extension(c) PROVE \A d \in Conn : Fine(d)'
  <2>1. /\ spent'[c] = 0 /\ pc'[c] \in {"idle", "reply"} /\ \A d \in Conn \ {c} : Same(d)
    BY <1>1, <1>9 DEF Connect, Extension, Goto, TypeOK
  <2> QED BY <1>0, <1>3, <2>1 DEF Waiting
<1>10. ASSUME NEW c \in Conn, NEW w \in Key \cup {List}, Request(c, w)
       PROVE  \A d \in Conn : Fine(d)'
  <2>1. /\ spent'[c] = 0 /\ UNCHANGED <<left, pieces>>
        /\ \A d \in Conn \ {c} : spent'[d] = spent[d]
    BY <1>10 DEF Request, TypeOK
  <2>2. CASE w = List
    BY <1>7, <1>10, <2>1, <2>2 DEF Request
  <2>3. CASE w # List
    <3>1. pc'[c] = "lookup" /\ \A d \in Conn \ {c} : Same(d)
      BY <1>10, <2>1, <2>3 DEF Request, Goto, TypeOK
    <3> QED BY <1>3, <2>1, <3>1 DEF Waiting
  <2> QED BY <2>2, <2>3
<1>11. ASSUME NEW c \in Conn, Reply(c) \/ Close(c) PROVE \A d \in Conn : Fine(d)'
  <2>1. spent'[c] = 0 /\ pc'[c] \in {"idle", "closed"} /\ \A d \in Conn \ {c} : Same(d)
    BY <1>11 DEF Reply, Close, Finished, TypeOK
  <2> QED BY <1>3, <2>1 DEF Waiting
<1>12. ASSUME NEW c \in Conn, Ask(c) PROVE \A d \in Conn : Fine(d)'
  <2>1. /\ spent' = spent /\ pc[c] = "ask" /\ \A d \in Conn \ {c} : Same(d)
        /\ \/ /\ pc'[c] = "listing" /\ nth'[c] = nth[c]
              /\ left'[c] = Timeout /\ pieces'[c] = Pieces
           \/ pc'[c] = "ask" /\ nth'[c] = nth[c] + 1
    BY <1>12 DEF Ask, Call, PassOver, NextUpstream, Goto, TypeOK
  <2>2. Budget(nth[c]) = Budget(nth[c] - 1) + LongestCall /\ Budget(nth[c] - 1) \in Nat
    <3>1. nth[c] - 1 \in Nat /\ (nth[c] - 1) + 1 = nth[c]
      BY <1>00, <2>1
    <3> HIDE DEF Fine, Same
    <3>2. Budget((nth[c] - 1) + 1) = Budget(nth[c] - 1) + LongestCall /\ Budget(nth[c] - 1) \in Nat
      BY <1>0, <3>1
    <3> QED BY <3>1, <3>2
  <2>3. spent[c] <= Budget(nth[c] - 1) /\ (nth[c] + 1) - 1 = nth[c]
    BY <1>00, <1>1, <2>1
  <2>4. Fine(c)'
    BY <1>0, <1>00, <2>1, <2>2, <2>3, RestSteps DEF Waiting
  <2> QED BY <1>3, <2>1, <2>4
<1>13. ASSUME NEW c \in Conn, Listed(c) \/ Unlisted(c) PROVE \A d \in Conn : Fine(d)'
  <2>1. /\ spent' = spent /\ pc[c] = "listing" /\ \A d \in Conn \ {c} : Same(d)
        /\ pc'[c] = "ask" /\ nth'[c] = nth[c] + 1 /\ (nth[c] + 1) - 1 = nth[c]
    <3>1. CASE Listed(c)
      BY <1>00, <3>1 DEF Listed, CallOver, NextUpstream, Goto, TypeOK
    <3>2. CASE Unlisted(c)
      BY <1>00, <3>2 DEF Unlisted, CallOver, PassOver, NextUpstream, Goto, TypeOK
    <3> QED BY <1>13, <3>1, <3>2
  <2>2. spent[c] <= Budget(nth[c])
    BY <1>0, <1>00, <1>1, <2>1 DEF Waiting
  <2> QED BY <1>3, <2>1, <2>2 DEF Waiting
<1>14. ASSUME NEW c \in Conn, Publish(c) PROVE \A d \in Conn : Fine(d)'
  <2>1. /\ spent' = spent /\ pc[c] = "ask" /\ nth[c] = N + 1 /\ \A d \in Conn \ {c} : Same(d)
        /\ pc'[c] \in {"reply", "again"} /\ nth[c] - 1 = N
    BY <1>0, <1>14 DEF Publish, Goto, TypeOK
  <2>2. spent[c] <= Budget(N)
    BY <1>1, <2>1
  <2> QED BY <1>0, <1>00, <1>3, <2>1, <2>2 DEF Waiting
<1>15. ASSUME NEW c \in Conn, Lookup(c) PROVE \A d \in Conn : Fine(d)'
  <2>1. spent' = spent /\ UNCHANGED <<left, pieces>> /\ spent[c] <= Budget(N) /\ pc[c] \in {"lookup", "again"}
    BY <1>0, <1>1, <1>15 DEF Lookup
  <2>2. CASE Refresh(c) /\ pc[c] = "lookup"
    BY <1>1, <1>7, <2>1, <2>2
  <2>3. CASE ~(Refresh(c) /\ pc[c] = "lookup")
    <3>1. pc'[c] \in {"forward", "reply"} /\ \A d \in Conn \ {c} : Same(d)
      BY <1>15, <2>3 DEF Lookup, Outcome, Goto, TypeOK
    <3> QED BY <1>0, <1>00, <1>3, <2>1, <3>1 DEF Waiting
  <2> QED BY <2>2, <2>3
<1>16. ASSUME NEW c \in Conn, Forward(c) \/ Signed(c) \/ Unsigned(c)
       PROVE  \A d \in Conn : Fine(d)'
  <2>1. /\ spent' = spent /\ pc[c] \in {"forward", "signing"} /\ \A d \in Conn \ {c} : Same(d)
        /\ \/ /\ pc[c] = "forward" /\ pc'[c] = "signing"
              /\ left'[c] = Timeout /\ pieces'[c] = Pieces
           \/ pc'[c] = "reply"
    <3>1. CASE Forward(c)
      BY <3>1 DEF Forward, Call, Outcome, Goto, TypeOK
    <3>2. CASE Signed(c) \/ Unsigned(c)
      BY <3>2 DEF Signed, Unsigned, CallOver, Outcome, Goto, TypeOK
    <3> QED BY <1>16, <3>1, <3>2
  <2>2. spent[c] <= Longest /\ (pc[c] = "forward" => spent[c] + LongestCall <= Longest)
    BY <1>0, <1>00, <1>1, <2>1 DEF Waiting
  <2> QED BY <1>0, <1>3, <2>1, <2>2, RestSteps DEF Waiting
<1>17. ASSUME NEW c \in Conn, Piece(c) PROVE \A d \in Conn : Fine(d)'
  <2>1. /\ UNCHANGED <<spent, pc, nth>> /\ pc[c] \in Waiting /\ \A d \in Conn \ {c} : Same(d)
        /\ pieces[c] > 1 /\ pieces'[c] = pieces[c] - 1 /\ left'[c] = Timeout
        /\ pieces[c] \in Nat
    BY <1>17 DEF Piece, TypeOK
  <2>2. Rest(c)' <= Rest(c) /\ Rest(c)' \in Nat
    BY <2>1, RestSteps
  <2>3. pieces'[c] >= 1 /\ Rest(c) \in Nat /\ spent[c] \in Nat
    BY <1>00, <2>1
  <2>4. CASE pc[c] = "listing"
    <3>1. spent[c] + Rest(c) <= Budget(nth[c]) /\ Budget(nth[c]) \in Nat
      BY <1>0, <1>00, <1>1, <2>4
    <3>2. Fine(c)'
      BY <2>1, <2>2, <2>3, <2>4, <3>1 DEF Waiting
    <3> QED BY <1>3, <2>1, <3>2
  <2>5. CASE pc[c] = "signing"
    <3>1. spent[c] + Rest(c) <= Longest /\ Longest \in Nat
      BY <1>0, <1>1, <2>5
    <3>2. Fine(c)'
      BY <2>1, <2>2, <2>3, <2>5, <3>1 DEF Waiting
    <3> QED BY <1>3, <2>1, <3>2
  <2> QED BY <2>1, <2>4, <2>5 DEF Waiting
<1> QED
  BY Cases, <1>4, <1>5, <1>6, <1>8, <1>9, <1>10, <1>11, <1>12, <1>13, <1>14, <1>15, <1>16,
     <1>17

\* A request that is on time now is in time: no place allows more than the whole.
LEMMA OnTimeIsInTime ==
  ASSUME TypeOK, Placed, OnTime
  PROVE  InTime
<1>1. ASSUME NEW n \in 0..(N + 1) PROVE Budget(n) <= Longest
  <2>1. (N + 1) * LongestCall = n * LongestCall + ((N + 1) - n) * LongestCall
    BY Budgets, ProxyAssumption
  <2>2. ((N + 1) - n) * LongestCall \in Nat
    BY Budgets, ProxyAssumption
  <2>3. n * LongestCall \in Nat
    BY Budgets, ProxyAssumption
  <2> QED BY <2>1, <2>2, <2>3 DEF Budget, Longest
<1>2. ASSUME NEW c \in Conn PROVE spent[c] <= Longest
  <2>1. /\ spent[c] \in Nat /\ nth[c] \in 0..(N + 1)
        /\ pc[c] \in Waiting => Rest(c) \in Nat
        /\ pc[c] \in {"ask", "listing"} => nth[c] - 1 \in 0..(N + 1)
        /\ N \in 0..(N + 1) /\ 0 \in 0..(N + 1)
    BY RestSteps, ProxyAssumption DEF TypeOK, Placed, OnTime
  <2>2. /\ Longest \in Nat /\ Budget(nth[c]) \in Nat /\ Budget(N) \in Nat
        /\ pc[c] \in {"ask", "listing"} => Budget(nth[c] - 1) \in Nat
    BY <2>1, Budgets, ProxyAssumption
  <2>3. pc[c] \in PC
    BY DEF TypeOK
  <2> QED BY <1>1, <2>1, <2>2, <2>3 DEF OnTime, PC, Waiting
<1> QED BY <1>2 DEF InTime

-----------------------------------------------------------------------------
(* The theorems. *)

\* What every step of every thread preserves together.
ProxyInv == TypeOK /\ Counted /\ Placed /\ Answering /\ Routed /\ OnTime

\* The inductive invariant holds in every state, for any upstreams and clients.
THEOREM ProxyInductive == Spec => []ProxyInv
<1>1. Init => ProxyInv
  <2> SUFFICES ASSUME Init PROVE ProxyInv
    OBVIOUS
  <2>1. TypeOK
    BY ProxyAssumption DEF Init, TypeOK, Fresh, NoRoutes, NoRoute, PC
  <2>2. Counted
    <3>1. {c \in Conn : pc[c] # "closed"} = {}
      BY DEF Init, Fresh
    <3> QED BY <3>1, FS_EmptySet, ProxyAssumption DEF Counted, Init
  <2>3. Placed /\ Answering /\ Routed /\ OnTime
    BY DEF Init, Fresh, Placed, Answering, Routed, OnTime, Waiting
  <2> QED BY <2>1, <2>2, <2>3 DEF ProxyInv
<1>2. ProxyInv /\ [Next]_vars => ProxyInv'
  <2> SUFFICES ASSUME ProxyInv, [Next]_vars PROVE ProxyInv'
    OBVIOUS
  <2>1. Counted' /\ conns' \in 0..MaxConns
    BY CountedStep DEF ProxyInv
  <2>2. TypeOK'
    BY <2>1, TypeStep DEF ProxyInv
  <2> QED BY <2>1, <2>2, PlacedStep, AnsweringStep, RoutedStep, OnTimeStep DEF ProxyInv
<1> QED BY <1>1, <1>2, PTL DEF Spec

\* Every variable of Proxy stays within its type.
THEOREM ProxyTypeCorrect == Spec => []TypeOK
<1>1. ProxyInv => TypeOK
  BY DEF ProxyInv
<1> QED BY <1>1, ProxyInductive, PTL

\* The count is that of the connections there are, and at most MAX_CONNS, over
\* every way into and out of serve (spawn).
THEOREM ConnectionsCounted == Spec => []Counted
<1>1. ProxyInv => Counted
  BY DEF ProxyInv
<1> QED BY <1>1, ProxyInductive, PTL

\* No request takes longer than its own calls may, one to each upstream and one
\* more, however many upstreams are silent at once, and a call no longer than the
\* timeout for each of its reads and writes (Upstream, refresh_identities).
THEOREM RequestsInTime == Spec => []InTime
<1>1. ProxyInv => InTime
  BY OnTimeIsInTime DEF ProxyInv
<1> QED BY <1>1, ProxyInductive, PTL

\* A request is never forwarded to an upstream behind one that holds the key and
\* always answers, whoever published the routes it reads (refresh_identities).
THEOREM FirstClaimsWin == Spec => []FirstClaimWins
<1>1. Init => FirstClaimWins
  BY DEF Init, Fresh, FirstClaimWins
<1>2. ASSUME ProxyInv, FirstClaimWins, [Next]_vars PROVE FirstClaimWins'
  <2> USE DEF ProxyInv, FirstClaimWins
  <2>1. CASE UNCHANGED vars \/ Tick \/ UpstreamChanges \/ \E c \in Conn : Piece(c)
    BY <1>2, <2>1 DEF vars, thread, Tick, UpstreamChanges, Piece
  <2>2. CASE SelfCheck
    BY <1>2, <2>2 DEF SelfCheck
  <2>3. CASE Exit
    BY <2>3 DEF Exit, Fresh
  <2>4. ASSUME NEW c \in Conn, NEW w \in Key \cup {List}, Request(c, w) PROVE FirstClaimWins'
    BY <1>2, <2>4 DEF Request, Placed, TypeOK
  <2>5. ASSUME NEW c \in Conn, Reply(c) \/ Close(c) PROVE FirstClaimWins'
    BY <1>2, <2>5 DEF Reply, Close, Finished, TypeOK
  <2>6. ASSUME NEW c \in Conn, \/ Connect(c) \/ Extension(c) \/ Ask(c) \/ Listed(c) \/ Unlisted(c)
                               \/ Publish(c) \/ Forward(c) \/ Signed(c) \/ Unsigned(c)
        PROVE  FirstClaimWins'
    BY <1>2, <2>6 DEF Connect, Extension, Ask, Listed, Unlisted, Publish, Forward, Signed, Unsigned
  <2>7. ASSUME NEW c \in Conn, Lookup(c) PROVE FirstClaimWins'
    <3>1. /\ want' = want /\ want[c] \in Key
          /\ target' = target \/ (target' = [target EXCEPT ![c] = routes[want[c]]]
                                  /\ routes[want[c]] # NoRoute)
      BY <1>2, <2>7 DEF Lookup, Placed
    <3>2. ASSUME routes[want[c]] # NoRoute PROVE Claimed(routes, N + 1)
      BY <1>2, <3>1, <3>2 DEF Routed, NoRoutes
    <3>3. \A u \in Reliable : u \in 1..N
      BY ProxyAssumption DEF Upstream
    <3>4. ASSUME routes[want[c]] # NoRoute
          PROVE  /\ want[c] \in Holds[routes[want[c]]]
                 /\ \A u \in Reliable : want[c] \in Holds[u] => routes[want[c]] <= u
      BY <3>1, <3>2, <3>3, <3>4, ProxyAssumption DEF Claimed
    <3> QED BY <1>2, <3>1, <3>4 DEF TypeOK
  <2> QED BY <1>2, Cases, <2>1, <2>2, <2>3, <2>4, <2>5, <2>6, <2>7
<1>3. ProxyInv /\ FirstClaimWins /\ [Next]_vars => FirstClaimWins'
  BY <1>2
<1> QED BY <1>1, <1>3, ProxyInductive, PTL DEF Spec

\* A key that an upstream which always answers holds is never unknown: whatever
\* routes the second lookup reads, a whole refresh published them (handle_sign).
THEOREM KeysAreFound == Spec => []NeverUnknown
<1>1. Init => NeverUnknown
  BY DEF Init, Fresh, NeverUnknown
<1>2. ASSUME ProxyInv, NeverUnknown, [Next]_vars PROVE NeverUnknown'
  <2> USE DEF ProxyInv, NeverUnknown
  <2>1. CASE UNCHANGED vars \/ Tick \/ UpstreamChanges \/ \E c \in Conn : Piece(c)
    BY <1>2, <2>1 DEF vars, thread, Tick, UpstreamChanges, Piece
  <2>2. CASE SelfCheck
    BY <1>2, <2>2 DEF SelfCheck
  <2>3. CASE Exit
    BY <2>3 DEF Exit, Fresh
  <2>4. ASSUME NEW c \in Conn, NEW w \in Key \cup {List}, Request(c, w) PROVE NeverUnknown'
    BY <1>2, <2>4 DEF Request, Placed, TypeOK
  <2>5. ASSUME NEW c \in Conn, Reply(c) \/ Close(c) PROVE NeverUnknown'
    BY <1>2, <2>5 DEF Reply, Close, Finished, TypeOK
  <2>6. ASSUME NEW c \in Conn, \/ Connect(c) \/ Extension(c) \/ Ask(c) \/ Listed(c) \/ Unlisted(c)
                               \/ Publish(c)
        PROVE  NeverUnknown'
    BY <1>2, <2>6 DEF Connect, Extension, Ask, Listed, Unlisted, Publish
  <2>7. ASSUME NEW c \in Conn, Forward(c) \/ Signed(c) \/ Unsigned(c) PROVE NeverUnknown'
    BY <1>2, <2>7 DEF Forward, Signed, Unsigned, Outcome, TypeOK
  <2>8. ASSUME NEW c \in Conn, Lookup(c) PROVE NeverUnknown'
    <3>1. /\ want' = want /\ want[c] \in Key
          /\ outcome' = outcome \/ (/\ outcome' = [outcome EXCEPT ![c] = "unknown"]
                                    /\ routes[want[c]] = NoRoute /\ pc[c] = "again")
      BY <1>2, <2>8 DEF Lookup, Outcome, Placed
    <3>2. \A u \in Reliable : u \in 1..N
      BY ProxyAssumption DEF Upstream
    <3>3. ASSUME routes[want[c]] = NoRoute, pc[c] = "again"
          PROVE  \A u \in Reliable : want[c] \notin Holds[u]
      BY <1>2, <3>1, <3>2, <3>3, ProxyAssumption DEF Routed, Claimed
    <3> QED BY <1>2, <3>1, <3>3 DEF TypeOK
  <2> QED BY <1>2, Cases, <2>1, <2>2, <2>3, <2>4, <2>5, <2>6, <2>7, <2>8
<1>3. ProxyInv /\ NeverUnknown /\ [Next]_vars => NeverUnknown'
  BY <1>2
<1> QED BY <1>1, <1>3, ProxyInductive, PTL DEF Spec
=============================================================================
