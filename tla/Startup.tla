------------------------------ MODULE Startup -------------------------------
(***************************************************************************)
(* What several runs of keywardd share on disk: the store of the enclave   *)
(* key and the socket.  A process runs main (daemon/src/main.rs) either to *)
(* make a key, `keywardd --generate-key` (generate, daemon/src/enclave.rs, *)
(* with kwse_generate, kwse_check and kwse_keychain_store of kwse.swift),  *)
(* or to serve: it loads the key, binds the socket and probes it from time *)
(* to time.  Each system call on the store or the socket is a step, and    *)
(* other processes take theirs in between.                                 *)
(*                                                                         *)
(* A key is named by the process that made it, a socket by the process     *)
(* that bound it.  The clients of the socket are in module Proxy.          *)
(***************************************************************************)
EXTENDS Integers, FiniteSets

CONSTANTS
  Maker,       \* the processes that run with --generate-key, once each
  Server,      \* the processes that serve
  Launchd,     \* the servers that launchd starts again when they exit
  Scenarios,   \* the sets of processes that are run together
  MaxKills     \* bound: how many processes are killed

Process == Maker \cup Server
Nobody  == "nobody"   \* no key, no socket
Empty   == "empty"    \* a file that was opened to be written, and is empty
Torn    == "torn"     \* bytes that are no key
Debris  == "debris"   \* a socket file that an earlier login left

ASSUME StartupAssumption ==
  /\ Maker \cap Server = {}
  /\ Launchd \subseteq Server
  /\ Scenarios \subseteq SUBSET Process
  /\ MaxKills \in Nat
  /\ Process \cap {Nobody, Empty, Torn, Debris} = {}

VARIABLES
  run,         \* the processes of this scenario
  kind,        \* KeyStore: where the configuration keeps the key
  force,       \* the makers that were given --force
  pc,          \* where each process is
  kept,        \* what the key store holds
  opens,       \* the keys that open for their own Touch ID
  announced,   \* the keys whose public half a user was told to authorise
  own,         \* Ctx.enclave: the key each server loaded
  sock,        \* the socket file
  kills,       \* how many processes were killed
  seen         \* history: what a maker found in the store, and which live server a
               \* server started beside

settings == <<run, kind, force>>
keys     == <<kept, opens, announced>>
vars     == <<settings, pc, keys, own, sock, kills, seen>>

\* Every variable stays within its type.
TypeOK ==
  /\ run \in Scenarios
  /\ kind \in {"File", "Keychain"}
  /\ force \in SUBSET Maker
  /\ pc \in [Process -> {"off", "make", "try", "keep", "write", "mode", "add",
                         "announce", "done", "look", "clear", "bind", "listen", "serve"}]
  /\ kept \in Maker \cup {Nobody, Empty, Torn}
  /\ opens \in SUBSET Maker
  /\ announced \in SUBSET Maker
  /\ own \in [Server -> Maker \cup {Nobody}]
  /\ sock \in Server \cup {Nobody, Debris}
  /\ kills \in 0..MaxKills
  /\ seen \in [Process -> Process \cup {Nobody}]

Init ==
  /\ run \in Scenarios
  /\ kind \in {"File", "Keychain"}
  /\ force \in SUBSET (Maker \cap run)
  /\ pc = [p \in Process |-> "off"]
  /\ kept = Nobody
  /\ opens = {}
  /\ announced = {}
  /\ own = [s \in Server |-> Nobody]
  /\ sock \in {Nobody, Debris}
  /\ kills = 0
  /\ seen = [p \in Process |-> Nobody]

Goto(p, where) == pc' = [pc EXCEPT ![p] = where]

-----------------------------------------------------------------------------
(* The key store: KeyStore::read, KeyStore::exists and Enclave::load. *)

\* What a read of the store can give: a keychain may be locked, or refuse.
Reads == {kept} \cup (IF kind = "Keychain" THEN {Nobody} ELSE {})

\* Whether there is a key to refuse to overwrite.  For a file that is whether
\* the file is there, whatever is in it.
Exists(found) == found # Nobody

\* Mutant: whatever was read is taken for a key.
Loaded_any(found) == found

\* The key that is loaded from what was read: what is no whole key is none.
Loaded(found) == IF found \in Maker THEN found ELSE Nobody

-----------------------------------------------------------------------------
(* keywardd --generate-key. *)

\* Mutant: the store is not looked at.
Refused_never(m, found) == FALSE

\* A store that holds a key is left alone, unless the user says --force.
Refused(m, found) == Exists(found) /\ m \notin force

LookForKey(m) ==
  /\ m \in run
  /\ pc[m] = "off"
  /\ \E found \in Reads :
       /\ Goto(m, IF Refused(m, found) THEN "done" ELSE "make")
       /\ seen' = [seen EXCEPT ![m] = Loaded(found)]
  /\ UNCHANGED <<settings, keys, own, sock, kills>>

\* The enclave makes the key, or fails to.  A key of any kind but sign-in has
\* nothing to be tried; a sign-in key may turn out not to open for its Touch ID.
Make(m) ==
  /\ pc[m] = "make"
  /\ \/ Goto(m, "done") /\ UNCHANGED opens
     \/ Goto(m, "keep") /\ opens' = opens \cup {m}
     \/ Goto(m, "try") /\ opens' \in {opens, opens \cup {m}}
  /\ UNCHANGED <<settings, kept, announced, own, sock, kills, seen>>

\* Mutant: the Touch ID is asked for, and the key not tried with it.
Tried_untried(m) == {"declined", "opens"}

\* What kwse_check can say of a new sign-in key: the Touch ID may be declined.
Tried(m) == {"declined"} \cup (IF m \in opens THEN {"opens"} ELSE {"closed"})

Try(m) ==
  /\ pc[m] = "try"
  /\ \E result \in Tried(m) : Goto(m, IF result = "opens" THEN "keep" ELSE "done")
  /\ UNCHANGED <<settings, keys, own, sock, kills, seen>>

\* std::fs::write opens the file, which empties it ...
OpenFile(m) ==
  /\ pc[m] = "keep" /\ kind = "File"
  /\ \/ Goto(m, "done") /\ UNCHANGED kept
     \/ Goto(m, "write") /\ kept' = Empty
  /\ UNCHANGED <<settings, opens, announced, own, sock, kills, seen>>

\* ... and writes it from its start.  Over what another process wrote since, the
\* longer of the two keys leaves its end behind.
WriteFile(m) ==
  /\ pc[m] = "write"
  /\ \/ Goto(m, "mode") /\ kept' \in {m} \cup (IF kept = Empty THEN {} ELSE {Torn})
     \/ Goto(m, "done") /\ kept' \in {kept, Torn}
  /\ UNCHANGED <<settings, opens, announced, own, sock, kills, seen>>

\* The file is closed to other users.  Failing that is an error of the whole run,
\* although the key is kept.
SetMode(m) ==
  /\ pc[m] = "mode"
  /\ Goto(m, "announce") \/ Goto(m, "done")
  /\ UNCHANGED <<settings, keys, own, sock, kills, seen>>

\* With --force the item in the keychain is deleted; the code does not look at
\* whether it was.
Delete(m) ==
  /\ pc[m] = "keep" /\ kind = "Keychain"
  /\ Goto(m, "add")
  /\ kept' \in IF m \in force THEN {Nobody, kept} ELSE {kept}
  /\ UNCHANGED <<settings, opens, announced, own, sock, kills, seen>>

\* SecItemAdd adds nothing where an item is (errSecDuplicateItem).
Add(m) ==
  /\ pc[m] = "add"
  /\ \/ Goto(m, "done") /\ UNCHANGED kept
     \/ kept = Nobody /\ Goto(m, "announce") /\ kept' = m
  /\ UNCHANGED <<settings, opens, announced, own, sock, kills, seen>>

\* main loads the key from the store and prints the line to authorise.
Announce(m) ==
  /\ pc[m] = "announce"
  /\ Goto(m, "done")
  /\ \E found \in Reads : announced' = announced \cup ({Loaded(found)} \ {Nobody})
  /\ UNCHANGED <<settings, kept, opens, own, sock, kills, seen>>

-----------------------------------------------------------------------------
(* keywardd: bind and watch_self. *)

\* Somebody accepts connections on the socket.
Live == sock \in Server /\ pc[sock] = "serve"

\* The process starts, by launchd or by hand, and loads the key.
Start(s) ==
  /\ s \in run
  /\ pc[s] = "off"
  /\ Goto(s, "look")
  /\ \E found \in Reads : own' = [own EXCEPT ![s] = Loaded(found)]
  /\ seen' = [seen EXCEPT ![s] = IF Live THEN sock ELSE Nobody]
  /\ UNCHANGED <<settings, keys, sock, kills>>

\* s ends: nobody started beside this run of it any more, and its socket file
\* stays behind.
Ends(s) ==
  /\ pc' = [pc EXCEPT ![s] = IF s \in Server THEN "off" ELSE "done"]
  /\ seen' = [p \in Process |-> IF p \in Server /\ seen[p] = s THEN Nobody ELSE seen[p]]

\* Mutant: any socket file is cleared away.
AfterLook_steals == IF sock = Nobody THEN "bind" ELSE "clear"

\* Mutant: any socket file is fatal.
AfterLook_fatal == IF sock = Nobody THEN "bind" ELSE "end"

\* Where bind goes after it looked at the path and, if there was a socket,
\* tried to connect to it: "end" stands down for a live daemon.
AfterLook == IF sock = Nobody THEN "bind" ELSE IF Live THEN "end" ELSE "clear"

LookAtSocket(s) ==
  /\ pc[s] = "look"
  /\ IF AfterLook = "end" THEN Ends(s) ELSE Goto(s, AfterLook) /\ UNCHANGED seen
  /\ UNCHANGED <<settings, keys, own, sock, kills>>

\* remove_file: whatever is there by now.
Clear(s) ==
  /\ pc[s] = "clear"
  /\ sock' = Nobody
  /\ Goto(s, "bind")
  /\ UNCHANGED <<settings, keys, own, kills, seen>>

\* bind(2) makes the file, or fails where one is, which ends the process.
Bind(s) ==
  /\ pc[s] = "bind"
  /\ IF sock = Nobody
       THEN sock' = s /\ Goto(s, "listen") /\ UNCHANGED seen
       ELSE Ends(s) /\ UNCHANGED sock
  /\ UNCHANGED <<settings, keys, own, kills>>

\* listen(2): until then a connection is refused.
Listen(s) ==
  /\ pc[s] = "listen"
  /\ Goto(s, "serve")
  /\ UNCHANGED <<settings, keys, own, sock, kills, seen>>

\* watch_self connects to the path, whoever is there now, and exits when nobody
\* is.
SelfCheck(s) ==
  /\ pc[s] = "serve"
  /\ ~Live
  /\ Ends(s)
  /\ UNCHANGED <<settings, keys, own, sock, kills>>

\* It exits as well when whoever is there does not answer within the timeout, or
\* with less than an answer or something else: as long as an upstream hangs that
\* is every probe of it (module Proxy).
Unanswered(s) ==
  /\ pc[s] = "serve"
  /\ Live
  /\ Ends(s)
  /\ UNCHANGED <<settings, keys, own, sock, kills>>

\* A process is killed wherever it is: a crash, ^C, launchctl kickstart -k.
Kill(p) ==
  /\ pc[p] \notin {"off", "done"}
  /\ kills < MaxKills
  /\ kills' = kills + 1
  /\ Ends(p)
  /\ UNCHANGED <<settings, keys, own, sock>>

-----------------------------------------------------------------------------
Generates(m) ==
  \/ LookForKey(m) \/ Make(m) \/ Try(m)
  \/ OpenFile(m) \/ WriteFile(m) \/ SetMode(m)
  \/ Delete(m) \/ Add(m) \/ Announce(m)

Serves(s) == LookAtSocket(s) \/ Clear(s) \/ Bind(s) \/ Listen(s) \/ SelfCheck(s)

Next ==
  \/ \E m \in Maker : Generates(m)
  \/ \E s \in Server : Start(s) \/ Serves(s) \/ Unanswered(s)
  \/ \E p \in Process : Kill(p)

Spec == Init /\ [][Next]_vars

\* A process that started goes on, and probes its socket every two minutes;
\* launchd starts its own again (KeepAlive in the plist of AgentInstaller.swift).
\* Nobody need start the others, or finish making a key.
FairSpec ==
  /\ Spec
  /\ \A s \in Server : WF_vars(Serves(s))
  /\ \A s \in Launchd : WF_vars(Start(s))

-----------------------------------------------------------------------------
(* Properties. *)

\* m takes this step.
Moves(m) == pc'[m] # pc[m]

\* --generate-key refuses to overwrite a key.  Without --force the only run that
\* replaces or tears one keeps its key in a file and looked before that key was
\* there: what it found when it looked is never lost, and in the keychain nothing
\* is, even if the look could not read it.  "Refuses to clobber an existing one" is
\* more than a file keeps: two runs beside each other can both find none.
NotClobbered ==
  [][ (kept \in Maker /\ kept' # kept) =>
        \E m \in Maker : Moves(m) /\ (m \in force \/ (kind = "File" /\ seen[m] # kept)) ]_vars

\* The keys that servers use or that a user was told to authorise.
Used == announced \cup ({own[s] : s \in Server} \ {Nobody})

\* A key in use is for good: it opens for its own Touch ID and, in a keychain that
\* nobody forces, it is the key that is kept, whoever else made keys meanwhile.
KeptForGood ==
  /\ Used \subseteq opens
  /\ kind = "Keychain" /\ force = {} => Used \subseteq {kept}

\* "A live one is respected": a server never takes the socket of one that served
\* when it started and has served since.  "Never stealing a live one" is more than
\* bind keeps: a server that came to serve after the look loses its socket.
LateStandsDown ==
  [][(Live /\ sock' # sock) => \A s \in Server : Moves(s) => seen[s] # sock]_vars

\* "A stale socket is cleared": once processes are no longer killed, nor started by
\* hand, some server is reached on the socket again and again, whatever was left
\* there, however the servers got in each other's way and however often one exits
\* because a probe found no answer; and from some moment on without a break, once
\* every probe that reaches a server is answered.
SettlesDown ==
  run \cap Launchd # {} /\ <>[][\A s \in Server \ Launchd : ~Start(s)]_vars =>
    /\ []<>Live
    /\ <>[][\A s \in Server : ~Unanswered(s)]_vars => <>[]Live
=============================================================================
