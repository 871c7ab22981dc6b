--------------------------- MODULE StartupProofs ----------------------------
(***************************************************************************)
(* What Startup promises of keys, for any number of makers and servers, in *)
(* any scenarios and with any number of kills.                             *)
(***************************************************************************)
EXTENDS Startup, TLAPS

-----------------------------------------------------------------------------
(* The inductive invariant. *)

\* Where a maker is when its key has been made and, if need be, tried.
HasKey == {"keep", "write", "mode", "add", "announce"}

\* A maker without --force went on because it found no key.
FoundNone ==
  \A m \in Maker :
    pc[m] \in {"make", "try"} \cup HasKey /\ m \notin force => seen[m] = Nobody

\* A file is only written, and a keychain only added to, where the key is kept
\* in one.
InItsStore ==
  \A m \in Maker : /\ pc[m] \in {"write", "mode"} => kind = "File"
                   /\ pc[m] = "add" => kind = "Keychain"

\* Every key past its trial opens, and so does the key in the store.
TriedOpens ==
  /\ \A m \in Maker : pc[m] \in HasKey => m \in opens
  /\ kept \in Maker => kept \in opens

IInv == TypeOK /\ FoundNone /\ InItsStore /\ TriedOpens /\ KeptForGood

-----------------------------------------------------------------------------
(* Type correctness. *)

\* The processes start within the types.
LEMMA TypeInit == Init => TypeOK
  BY StartupAssumption DEF Init, TypeOK, Process

\* The steps of one maker keep the types.
LEMMA TypeGenerates ==
  ASSUME TypeOK, NEW m \in Maker, Generates(m)
  PROVE  TypeOK'
<1>1. m \in Process /\ Maker \subseteq Process BY DEF Process
<1>2. \A found \in Reads : Loaded(found) \in Maker \cup {Nobody}
  BY DEF Loaded
<1>3. CASE LookForKey(m)
  <2>1. PICK found \in Reads : seen' = [seen EXCEPT ![m] = Loaded(found)]
    BY <1>3 DEF LookForKey
  <2>2. seen' \in [Process -> Process \cup {Nobody}]
    BY <1>1, <1>2, <2>1 DEF TypeOK
  <2>3. QED BY <1>1, <1>3, <2>2 DEF TypeOK, LookForKey, Goto, settings, keys
<1>4. CASE Make(m)
  BY <1>1, <1>4 DEF TypeOK, Make, Goto, settings
<1>5. CASE Try(m)
  BY <1>1, <1>5 DEF TypeOK, Try, Goto, settings, keys
<1>6. CASE OpenFile(m)
  BY <1>1, <1>6 DEF TypeOK, OpenFile, Goto, settings
<1>7. CASE WriteFile(m)
  BY <1>1, <1>7 DEF TypeOK, WriteFile, Goto, settings
<1>8. CASE SetMode(m)
  BY <1>1, <1>8 DEF TypeOK, SetMode, Goto, settings, keys
<1>9. CASE Delete(m)
  BY <1>1, <1>9 DEF TypeOK, Delete, Goto, settings
<1>10. CASE Add(m)
  BY <1>1, <1>10 DEF TypeOK, Add, Goto, settings
<1>11. CASE Announce(m)
  <2>1. PICK found \in Reads : announced' = announced \cup ({Loaded(found)} \ {Nobody})
    BY <1>11 DEF Announce
  <2>2. announced' \in SUBSET Maker
    BY <1>2, <2>1 DEF TypeOK
  <2>3. QED BY <1>1, <1>11, <2>2 DEF TypeOK, Announce, Goto, settings
<1>12. QED
  BY <1>3, <1>4, <1>5, <1>6, <1>7, <1>8, <1>9, <1>10, <1>11 DEF Generates

\* A process that ends keeps the types of the two variables that it changes.
LEMMA TypeEnds ==
  ASSUME TypeOK, NEW p \in Process, Ends(p)
  PROVE  /\ pc' \in [Process -> {"off", "make", "try", "keep", "write", "mode", "add",
                         "announce", "done", "look", "clear", "bind", "listen", "serve"}]
         /\ seen' \in [Process -> Process \cup {Nobody}]
  BY DEF TypeOK, Ends

\* The steps of one server keep the types.
LEMMA TypeServes ==
  ASSUME TypeOK, NEW s \in Server, Start(s) \/ Serves(s) \/ Unanswered(s)
  PROVE  TypeOK'
<1>1. s \in Process /\ Server \subseteq Process BY DEF Process
<1>2. CASE Start(s)
  <2>1. PICK found \in Reads : own' = [own EXCEPT ![s] = Loaded(found)]
    BY <1>2 DEF Start
  <2>2. own' \in [Server -> Maker \cup {Nobody}]
    BY <2>1 DEF TypeOK, Loaded
  <2>3. seen' \in [Process -> Process \cup {Nobody}]
    BY <1>1, <1>2 DEF Start, Live, TypeOK
  <2>4. QED BY <1>1, <1>2, <2>2, <2>3 DEF TypeOK, Start, Goto, settings, keys
<1>3. CASE LookAtSocket(s)
  <2>1. CASE AfterLook = "end"
    BY <1>1, <1>3, <2>1, TypeEnds DEF TypeOK, LookAtSocket, settings, keys
  <2>2. CASE AfterLook # "end"
    BY <1>1, <1>3, <2>2 DEF TypeOK, LookAtSocket, AfterLook, Goto, settings, keys
  <2>3. QED BY <2>1, <2>2
<1>4. CASE Clear(s)
  BY <1>1, <1>4 DEF TypeOK, Clear, Goto, settings, keys
<1>5. CASE Bind(s)
  <2>1. CASE sock = Nobody
    BY <1>1, <1>5, <2>1 DEF TypeOK, Bind, Goto, settings, keys
  <2>2. CASE sock # Nobody
    BY <1>1, <1>5, <2>2, TypeEnds DEF TypeOK, Bind, settings, keys
  <2>3. QED BY <2>1, <2>2
<1>6. CASE Listen(s)
  BY <1>1, <1>6 DEF TypeOK, Listen, Goto, settings, keys
<1>7. CASE SelfCheck(s) \/ Unanswered(s)
  BY <1>1, <1>7, TypeEnds DEF TypeOK, SelfCheck, Unanswered, settings, keys
<1>8. QED
  BY <1>2, <1>3, <1>4, <1>5, <1>6, <1>7 DEF Serves

\* Every step keeps the types.
LEMMA TypeStep == TypeOK /\ [Next]_vars => TypeOK'
<1> SUFFICES ASSUME TypeOK, [Next]_vars PROVE TypeOK'
  OBVIOUS
<1>1. CASE \E m \in Maker : Generates(m)
  BY <1>1, TypeGenerates
<1>2. CASE \E s \in Server : Start(s) \/ Serves(s) \/ Unanswered(s)
  BY <1>2, TypeServes
<1>3. CASE \E p \in Process : Kill(p)
  BY <1>3, TypeEnds, StartupAssumption DEF TypeOK, Kill, settings, keys
<1>4. CASE UNCHANGED vars
  BY <1>4 DEF TypeOK, vars, settings, keys
<1>5. QED BY <1>1, <1>2, <1>3, <1>4 DEF Next

\* Every variable stays within its type.
THEOREM TypeCorrect == Spec => []TypeOK
  BY TypeInit, TypeStep, PTL DEF Spec

-----------------------------------------------------------------------------
(* What a step of one process leaves alone. *)

\* A server does nothing to the store, and ends no maker.
LEMMA ServerLeavesKeys ==
  ASSUME TypeOK, NEW s \in Server, Start(s) \/ Serves(s) \/ Unanswered(s)
  PROVE  /\ UNCHANGED <<settings, keys>>
         /\ \A m \in Maker : pc'[m] = pc[m] /\ seen'[m] = seen[m]
<1>1. \A m \in Maker : m \in Process /\ m # s /\ m \notin Server
  BY StartupAssumption DEF Process
<1>2. Ends(s) => \A m \in Maker : pc'[m] = pc[m] /\ seen'[m] = seen[m]
  BY <1>1 DEF TypeOK, Ends
<1>3. \A w : Goto(s, w) => \A m \in Maker : pc'[m] = pc[m]
  BY <1>1 DEF TypeOK, Goto
<1>4. CASE Start(s)
  BY <1>1, <1>3, <1>4 DEF Start, TypeOK, settings, keys
<1>5. CASE LookAtSocket(s)
  BY <1>2, <1>3, <1>5 DEF LookAtSocket, settings, keys
<1>6. CASE Clear(s)
  BY <1>3, <1>6 DEF Clear, settings, keys
<1>7. CASE Bind(s)
  BY <1>2, <1>3, <1>7 DEF Bind, settings, keys
<1>8. CASE Listen(s)
  BY <1>3, <1>8 DEF Listen, settings, keys
<1>9. CASE SelfCheck(s) \/ Unanswered(s)
  BY <1>2, <1>9 DEF SelfCheck, Unanswered, settings, keys
<1>10. QED BY <1>4, <1>5, <1>6, <1>7, <1>8, <1>9 DEF Serves

\* A process that is killed leaves the store as it is; a maker is done.
LEMMA KillLeavesKeys ==
  ASSUME TypeOK, NEW p \in Process, Kill(p)
  PROVE  /\ UNCHANGED <<settings, keys, own>>
         /\ \A m \in Maker : pc'[m] \in {pc[m], "done"} /\ seen'[m] = seen[m]
<1>1. \A m \in Maker : m \in Process /\ m \notin Server
  BY StartupAssumption DEF Process
<1>2. QED BY <1>1 DEF Kill, Ends, TypeOK, settings, keys

\* A step of one maker moves no other, and gives neither a key nor a place to a
\* server.
LEMMA MakerLeavesOthers ==
  ASSUME TypeOK, NEW m \in Maker, Generates(m)
  PROVE  /\ UNCHANGED <<settings, own>>
         /\ \A n \in Maker \ {m} : pc'[n] = pc[n] /\ seen'[n] = seen[n]
<1>1. \A n \in Maker : n \in Process
  BY DEF Process
<1>2. \A w : Goto(m, w) => \A n \in Maker \ {m} : pc'[n] = pc[n]
  BY <1>1 DEF TypeOK, Goto
<1>3. CASE LookForKey(m)
  BY <1>1, <1>2, <1>3 DEF LookForKey, TypeOK, settings
<1>4. CASE Make(m)
  BY <1>2, <1>4 DEF Make
<1>5. CASE Try(m)
  BY <1>2, <1>5 DEF Try
<1>6. CASE OpenFile(m)
  BY <1>2, <1>6 DEF OpenFile
<1>7. CASE WriteFile(m)
  BY <1>2, <1>7 DEF WriteFile
<1>8. CASE SetMode(m)
  BY <1>2, <1>8 DEF SetMode
<1>9. CASE Delete(m)
  BY <1>2, <1>9 DEF Delete
<1>10. CASE Add(m)
  BY <1>2, <1>10 DEF Add
<1>11. CASE Announce(m)
  BY <1>2, <1>11 DEF Announce
<1>12. QED
  BY <1>3, <1>4, <1>5, <1>6, <1>7, <1>8, <1>9, <1>10, <1>11 DEF Generates

-----------------------------------------------------------------------------
(* Each conjunct is kept by the steps of a maker. *)

\* A maker that is not forced goes on only when it found no key (generate).
LEMMA FoundNoneGenerates ==
  ASSUME TypeOK, FoundNone, NEW m \in Maker, Generates(m)
  PROVE  FoundNone'
<1>1. m \in Process BY DEF Process
<1>2. SUFFICES pc'[m] \in {"make", "try"} \cup HasKey /\ m \notin force => seen'[m] = Nobody
  BY MakerLeavesOthers DEF FoundNone, settings
<1>3. CASE LookForKey(m)
  <2>1. PICK found \in Reads : /\ Goto(m, IF Refused(m, found) THEN "done" ELSE "make")
                               /\ seen' = [seen EXCEPT ![m] = Loaded(found)]
    BY <1>3 DEF LookForKey
  <2>2. CASE found = Nobody
    BY <1>1, <2>1, <2>2, StartupAssumption DEF TypeOK, Loaded
  <2>3. CASE found # Nobody
    BY <1>1, <2>1, <2>3 DEF TypeOK, Goto, Refused, Exists, HasKey
  <2>4. QED BY <2>2, <2>3
<1>4. CASE seen' = seen /\ pc[m] \in {"make", "try"} \cup HasKey
  BY <1>4 DEF FoundNone
<1>5. QED
  BY <1>3, <1>4 DEF Generates, HasKey, Make, Try, OpenFile, WriteFile, SetMode, Delete, Add,
                    Announce

\* A maker writes to the store of the configuration alone (generate).
LEMMA InItsStoreGenerates ==
  ASSUME TypeOK, InItsStore, NEW m \in Maker, Generates(m)
  PROVE  InItsStore'
<1>1. m \in Process BY DEF Process
<1>2. \A w : Goto(m, w) => pc'[m] = w
  BY <1>1 DEF TypeOK, Goto
<1>3. SUFFICES /\ pc'[m] \in {"write", "mode"} => kind = "File"
               /\ pc'[m] = "add" => kind = "Keychain"
  BY MakerLeavesOthers DEF InItsStore, settings
<1>4. CASE OpenFile(m)
  BY <1>2, <1>4 DEF OpenFile
<1>5. CASE WriteFile(m)
  BY <1>2, <1>5 DEF WriteFile, InItsStore
<1>6. CASE Delete(m)
  BY <1>2, <1>6 DEF Delete
<1>7. CASE pc'[m] \notin {"write", "mode", "add"}
  BY <1>7
<1>8. QED
  BY <1>2, <1>4, <1>5, <1>6, <1>7
     DEF Generates, LookForKey, Make, Try, SetMode, Add, Announce

\* A maker tries its key before it keeps it, and a key that opened goes on opening.
LEMMA TriedOpensGenerates ==
  ASSUME TypeOK, TriedOpens, NEW m \in Maker, Generates(m)
  PROVE  TriedOpens' /\ opens \subseteq opens'
<1>1. m \in Process BY DEF Process
<1>2. \A w : Goto(m, w) => pc'[m] = w
  BY <1>1 DEF TypeOK, Goto
<1>3. opens \subseteq opens'
  BY DEF Generates, keys, LookForKey, Make, Try, OpenFile, WriteFile, SetMode, Delete, Add, Announce
<1>4. ASSUME pc'[m] \in HasKey PROVE m \in opens'
  <2>1. CASE Make(m)
    BY <1>2, <1>4, <2>1 DEF Make, HasKey
  <2>2. CASE Try(m)
    BY <1>2, <1>3, <1>4, <2>2 DEF Try, Tried, HasKey
  <2>3. CASE LookForKey(m)
    BY <1>2, <1>4, <2>3 DEF LookForKey, HasKey
  <2>4. CASE pc[m] \in HasKey
    BY <1>3, <2>4 DEF TriedOpens
  <2>5. QED
    BY <2>1, <2>2, <2>3, <2>4
       DEF Generates, HasKey, OpenFile, WriteFile, SetMode, Delete, Add, Announce
<1>5. ASSUME kept' \in Maker PROVE kept' \in opens'
  <2>1. CASE kept' = kept
    BY <1>3, <1>5, <2>1 DEF TriedOpens
  <2>2. CASE kept' = m /\ pc[m] \in {"write", "add"}
    BY <1>3, <2>2 DEF TriedOpens, HasKey
  <2>3. Nobody \notin Maker /\ Empty \notin Maker /\ Torn \notin Maker
    BY StartupAssumption DEF Process
  <2>4. QED
    BY <1>5, <2>1, <2>2, <2>3
       DEF Generates, keys, LookForKey, Make, Try, OpenFile, WriteFile, SetMode, Delete, Add,
           Announce
<1>6. QED
  BY <1>3, <1>4, <1>5, MakerLeavesOthers DEF TriedOpens

\* KeptForGood holds on while a maker makes, stores and announces its key.
LEMMA KeptForGoodGenerates ==
  ASSUME IInv, NEW m \in Maker, Generates(m)
  PROVE  KeptForGood'
<1>1. Nobody \notin Maker
  BY StartupAssumption DEF Process
<1>2. opens \subseteq opens'
  BY TriedOpensGenerates DEF IInv
<1>3. kind' = kind /\ force' = force /\ own' = own
  BY MakerLeavesOthers DEF IInv, settings
<1>4. CASE Announce(m)
  <2>1. PICK found \in Reads : announced' = announced \cup ({Loaded(found)} \ {Nobody})
    BY <1>4 DEF Announce
  <2>2. {Loaded(found)} \ {Nobody} \subseteq {kept} /\ {Loaded(found)} \ {Nobody} \subseteq Maker
    BY <2>1 DEF Reads, Loaded
  <2>3. Used' \subseteq Used \cup ({kept} \cap Maker)
    BY <1>3, <2>1, <2>2 DEF Used
  <2>4. kept' = kept
    BY <1>4 DEF Announce
  <2>5. QED BY <1>2, <1>3, <2>3, <2>4 DEF IInv, KeptForGood, TriedOpens
<1>5. CASE ~Announce(m)
  <2>1. Used' = Used
    BY <1>3, <1>5 DEF Used, Generates, keys, LookForKey, Make, Try, OpenFile, WriteFile, SetMode,
                      Delete, Add
  <2>2. ASSUME kind = "Keychain", force = {}, kept' # kept PROVE kept = Nobody
    BY <1>5, <2>2 DEF IInv, InItsStore, Generates, keys, LookForKey, Make, Try, OpenFile, WriteFile,
                      SetMode, Delete, Add
  <2>3. Nobody \notin Used
    BY <1>1 DEF IInv, TypeOK, Used
  <2>4. QED BY <1>2, <1>3, <2>1, <2>2, <2>3 DEF IInv, KeptForGood
<1>6. QED BY <1>4, <1>5

-----------------------------------------------------------------------------
(* The invariant holds. *)

\* At the start no key has been made.
LEMMA KeysInit == Init => IInv
<1> SUFFICES ASSUME Init PROVE IInv
  OBVIOUS
<1>1. Nobody \notin Maker
  BY StartupAssumption DEF Process
<1>2. \A m \in Maker : pc[m] = "off"
  BY DEF Init, Process
<1>3. Used = {}
  BY DEF Init, Used
<1>4. FoundNone /\ InItsStore /\ TriedOpens /\ KeptForGood
  BY <1>1, <1>2, <1>3 DEF Init, FoundNone, InItsStore, TriedOpens, KeptForGood, HasKey
<1>5. QED BY <1>4, TypeInit DEF IInv

\* IInv is inductive: only makers touch keys, and each in its order.
LEMMA KeysStep == IInv /\ [Next]_vars => IInv'
<1> SUFFICES ASSUME IInv, [Next]_vars PROVE IInv'
  OBVIOUS
<1> USE DEF IInv
<1>1. TypeOK'
  BY TypeStep
<1>2. ASSUME NEW m \in Maker, Generates(m)
      PROVE  FoundNone' /\ InItsStore' /\ TriedOpens' /\ KeptForGood'
  BY <1>2, FoundNoneGenerates, InItsStoreGenerates, TriedOpensGenerates, KeptForGoodGenerates
<1>3. ASSUME NEW s \in Server, Start(s) \/ Serves(s) \/ Unanswered(s)
      PROVE  FoundNone' /\ InItsStore' /\ TriedOpens' /\ KeptForGood'
  <2>1. /\ UNCHANGED <<settings, keys>>
        /\ \A m \in Maker : pc'[m] = pc[m] /\ seen'[m] = seen[m]
    BY <1>3, ServerLeavesKeys
  <2>2. FoundNone' /\ InItsStore' /\ TriedOpens'
    BY <2>1 DEF FoundNone, InItsStore, TriedOpens, settings, keys
  <2>3. Used' \subseteq Used \cup ({kept} \cap Maker)
    <3>1. CASE Start(s)
      <4>1. PICK found \in Reads : own' = [own EXCEPT ![s] = Loaded(found)]
        BY <3>1 DEF Start
      <4>2. \A t \in Server : own'[t] \in {own[t], Loaded(found)}
        BY <4>1 DEF TypeOK
      <4>3. Loaded(found) \in ({kept} \cap Maker) \cup {Nobody}
        BY <4>1 DEF Reads, Loaded
      <4>4. QED BY <2>1, <4>2, <4>3 DEF Used, keys
    <3>2. CASE Serves(s) \/ Unanswered(s)
      BY <2>1, <3>2 DEF Used, keys, Serves, LookAtSocket, Clear, Bind, Listen, SelfCheck, Unanswered
    <3>3. QED BY <1>3, <3>1, <3>2
  <2>4. KeptForGood'
    BY <2>1, <2>3 DEF KeptForGood, TriedOpens, settings, keys
  <2>5. QED BY <2>2, <2>4
<1>4. ASSUME NEW p \in Process, Kill(p)
      PROVE  FoundNone' /\ InItsStore' /\ TriedOpens' /\ KeptForGood'
  <2>1. /\ UNCHANGED <<settings, keys, own>>
        /\ \A m \in Maker : pc'[m] \in {pc[m], "done"} /\ seen'[m] = seen[m]
    BY <1>4, KillLeavesKeys
  <2>2. FoundNone' /\ InItsStore' /\ TriedOpens'
    BY <2>1 DEF FoundNone, InItsStore, TriedOpens, HasKey, settings, keys
  <2>3. KeptForGood'
    BY <2>1 DEF KeptForGood, Used, settings, keys
  <2>4. QED BY <2>2, <2>3
<1>5. CASE UNCHANGED vars
  BY <1>5 DEF TypeOK, FoundNone, InItsStore, TriedOpens, KeptForGood, Used, vars, settings, keys
<1>6. QED BY <1>1, <1>2, <1>3, <1>4, <1>5 DEF Next

\* IInv holds in every state.
LEMMA KeysInvariant == Spec => []IInv
  BY KeysInit, KeysStep, PTL DEF Spec

\* A key that a server uses or a user was told to authorise opens for its Touch ID
\* and, in a keychain that nobody forces, is the key that is kept, however many
\* makers race, fail to read the keychain, or are killed.
THEOREM KeysForGood == Spec => []KeptForGood
<1>1. IInv => KeptForGood
  BY DEF IInv
<1>2. QED BY <1>1, KeysInvariant, PTL

\* generate overwrites no key without --force, except one that came into a file
\* after it looked.
THEOREM NeverClobbered == Spec => NotClobbered
<1>1. ASSUME IInv, [Next]_vars, kept \in Maker, kept' # kept
      PROVE  \E m \in Maker : Moves(m) /\ (m \in force \/ (kind = "File" /\ seen[m] # kept))
  <2>1. PICK m \in Maker : Generates(m)
    BY <1>1, ServerLeavesKeys, KillLeavesKeys DEF IInv, Next, vars, keys
  <2>2. m \in Process /\ kept # Nobody
    BY <1>1, StartupAssumption DEF Process
  <2>3. \A w : Goto(m, w) /\ w # pc[m] => Moves(m)
    BY <1>1, <2>2 DEF IInv, TypeOK, Goto, Moves
  <2>4. CASE OpenFile(m)
    <3>1. Moves(m) /\ kind = "File"
      BY <2>3, <2>4 DEF OpenFile
    <3>2. m \in force \/ seen[m] = Nobody
      BY <1>1, <2>4 DEF OpenFile, IInv, FoundNone, HasKey
    <3>3. QED BY <2>2, <3>1, <3>2
  <2>5. CASE WriteFile(m)
    <3>1. Moves(m) /\ kind = "File"
      BY <1>1, <2>3, <2>5 DEF WriteFile, IInv, InItsStore
    <3>2. m \in force \/ seen[m] = Nobody
      BY <1>1, <2>5 DEF WriteFile, IInv, FoundNone, HasKey
    <3>3. QED BY <2>2, <3>1, <3>2
  <2>6. CASE Delete(m)
    BY <1>1, <2>3, <2>6 DEF Delete
  <2>7. CASE ~(OpenFile(m) \/ WriteFile(m) \/ Delete(m))
    BY <1>1, <2>1, <2>2, <2>7
       DEF Generates, keys, LookForKey, Make, Try, SetMode, Add, Announce
  <2>8. QED BY <2>4, <2>5, <2>6, <2>7
<1>2. IInv /\ [Next]_vars =>
        [(kept \in Maker /\ kept' # kept) =>
           \E m \in Maker : Moves(m) /\ (m \in force \/ (kind = "File" /\ seen[m] # kept))]_vars
  BY <1>1
<1>3. QED BY <1>2, KeysInvariant, PTL DEF Spec, NotClobbered

-----------------------------------------------------------------------------
(* The socket. *)

\* Where a server is once it looked at the socket.
Looked == {"clear", "bind", "listen", "serve"}

\* A server that another one started beside serves ever since, and once the other
\* has looked and gone on, the socket is no longer that server's.
Beside ==
  \A s, q \in Server : seen[s] = q => pc[q] = "serve" /\ (pc[s] \in Looked => sock # q)

SInv == TypeOK /\ Beside

\* A process that ends is nobody's neighbour any more.
LEMMA BesideEnds ==
  ASSUME SInv, NEW p \in Process, Ends(p), sock' = sock
  PROVE  Beside'
<1>1. Server \subseteq Process
  BY DEF Process
<1>2. Nobody \notin Server
  BY StartupAssumption DEF Process
<1>3. SUFFICES ASSUME NEW s \in Server, NEW q \in Server, seen'[s] = q
               PROVE  pc'[q] = "serve" /\ (pc'[s] \in Looked => sock' # q)
  BY DEF Beside
<1>4. seen[s] = q /\ q # p
  BY <1>1, <1>2, <1>3 DEF Ends
<1>5. pc'[q] = "serve"
  BY <1>1, <1>4 DEF SInv, TypeOK, Beside, Ends
<1>6. pc'[s] \in Looked => pc[s] \in Looked
  BY <1>1 DEF SInv, TypeOK, Ends, Looked
<1>7. QED BY <1>4, <1>5, <1>6 DEF SInv, Beside

\* The steps of one server keep Beside.
LEMMA BesideServes ==
  ASSUME SInv, NEW s \in Server, Start(s) \/ Serves(s) \/ Unanswered(s)
  PROVE  Beside'
<1>1. Server \subseteq Process
  BY DEF Process
<1>2. Nobody \notin Server
  BY StartupAssumption DEF Process
<1>3. \A w : Goto(s, w) => pc'[s] = w /\ \A q \in Server \ {s} : pc'[q] = pc[q]
  BY <1>1 DEF SInv, TypeOK, Goto
<1>4. CASE Start(s)
  <2>1. pc[s] = "off" /\ pc'[s] = "look" /\ sock' = sock
    BY <1>3, <1>4 DEF Start
  <2>2. \A q \in Server \ {s} : pc'[q] = pc[q] /\ seen'[q] = seen[q]
    BY <1>1, <1>3, <1>4 DEF Start, SInv, TypeOK
  <2>3. \A q \in Server : seen'[s] = q => q # s /\ pc[q] = "serve"
    BY <1>1, <1>2, <1>4, <2>1 DEF Start, Live, SInv, TypeOK
  <2>4. QED BY <2>1, <2>2, <2>3 DEF SInv, Beside, Looked
<1>5. CASE LookAtSocket(s)
  <2>1. CASE AfterLook = "end"
    BY <1>1, <1>5, <2>1, BesideEnds DEF LookAtSocket
  <2>2. CASE AfterLook # "end"
    <3>1. /\ pc[s] = "look" /\ pc'[s] \in Looked /\ UNCHANGED <<sock, seen>>
          /\ \A q \in Server \ {s} : pc'[q] = pc[q]
      BY <1>3, <1>5, <2>2 DEF LookAtSocket, AfterLook, Looked
    <3>2. ~Live
      BY <1>2, <2>2 DEF AfterLook, Live
    <3>3. QED BY <3>1, <3>2 DEF SInv, Beside, Live, Looked
  <2>3. QED BY <2>1, <2>2
<1>6. CASE Clear(s)
  BY <1>2, <1>3, <1>6 DEF Clear, SInv, Beside, Looked
<1>7. CASE Bind(s)
  <2>1. CASE sock = Nobody
    BY <1>3, <1>7, <2>1 DEF Bind, SInv, Beside, Looked
  <2>2. CASE sock # Nobody
    BY <1>1, <1>7, <2>2, BesideEnds DEF Bind
  <2>3. QED BY <2>1, <2>2
<1>8. CASE Listen(s)
  BY <1>3, <1>8 DEF Listen, SInv, Beside, Looked
<1>9. CASE SelfCheck(s) \/ Unanswered(s)
  BY <1>1, <1>9, BesideEnds DEF SelfCheck, Unanswered
<1>10. QED BY <1>4, <1>5, <1>6, <1>7, <1>8, <1>9 DEF Serves

\* At the start no server has seen another.
LEMMA SocketInit == Init => SInv
<1>1. Init => Beside
  BY StartupAssumption DEF Init, Beside, Process
<1>2. QED BY <1>1, TypeInit DEF SInv

\* A maker does nothing to the socket or to a server.
LEMMA MakerLeavesServers ==
  ASSUME TypeOK, NEW m \in Maker, Generates(m)
  PROVE  sock' = sock /\ \A s \in Server : pc'[s] = pc[s] /\ seen'[s] = seen[s]
<1>1. m \in Process /\ \A s \in Server : s \in Process /\ s # m
  BY StartupAssumption DEF Process
<1>2. \A w : Goto(m, w) => \A s \in Server : pc'[s] = pc[s]
  BY <1>1 DEF TypeOK, Goto
<1>3. CASE LookForKey(m)
  BY <1>1, <1>2, <1>3 DEF LookForKey, TypeOK
<1>4. CASE ~LookForKey(m)
  BY <1>2, <1>4
     DEF Generates, Make, Try, OpenFile, WriteFile, SetMode, Delete, Add, Announce
<1>5. QED BY <1>3, <1>4

\* SInv is inductive: a server that was live when another started keeps the socket
\* while it lives.
LEMMA SocketStep == SInv /\ [Next]_vars => SInv'
<1> SUFFICES ASSUME SInv, [Next]_vars PROVE SInv'
  OBVIOUS
<1>1. TypeOK'
  BY TypeStep DEF SInv
<1>2. ASSUME NEW m \in Maker, Generates(m) PROVE Beside'
  BY <1>2, MakerLeavesServers DEF SInv, Beside
<1>3. ASSUME NEW s \in Server, Start(s) \/ Serves(s) \/ Unanswered(s) PROVE Beside'
  BY <1>3, BesideServes
<1>4. ASSUME NEW p \in Process, Kill(p) PROVE Beside'
  BY <1>4, BesideEnds DEF Kill
<1>5. CASE UNCHANGED vars
  BY <1>1, <1>5 DEF SInv, Beside, vars
<1>6. QED BY <1>1, <1>2, <1>3, <1>4, <1>5 DEF Next, SInv

\* bind takes no socket from a server that served when it started and has served
\* since, however many servers start, clear and bind at once.
THEOREM LiveIsRespected == Spec => LateStandsDown
<1>1. ASSUME SInv, [Next]_vars, Live, sock' # sock, NEW s \in Server, Moves(s)
      PROVE  seen[s] # sock
  <2>1. PICK t \in Server : Start(t) \/ Serves(t) \/ Unanswered(t)
    BY <1>1, MakerLeavesServers DEF SInv, Next, vars, Kill
  <2>2. Nobody \notin Server /\ Server \subseteq Process
    BY StartupAssumption DEF Process
  <2>3. Clear(t)
    BY <1>1, <2>1, <2>2 DEF Live, Start, Serves, LookAtSocket, Bind, Listen, SelfCheck, Unanswered
  <2>4. s = t
    BY <1>1, <2>2, <2>3 DEF Clear, Goto, Moves, SInv, TypeOK
  <2>5. QED BY <1>1, <2>3, <2>4 DEF Clear, SInv, Beside, Live, Looked
<1>2. SInv /\ [Next]_vars =>
        [(Live /\ sock' # sock) => \A s \in Server : Moves(s) => seen[s] # sock]_vars
  BY <1>1
<1>3. Spec => []SInv
  BY SocketInit, SocketStep, PTL DEF Spec
<1>4. QED BY <1>2, <1>3, PTL DEF Spec, LateStandsDown
=============================================================================
