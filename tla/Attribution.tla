---------------------------- MODULE Attribution ----------------------------
(***************************************************************************)
(* From a connection to the scope of its request: the walk up the process  *)
(* table (attribute, daemon/src/attrib.rs), the reads of the repository on *)
(* a thread of their own (gather_bounded, daemon/src/context.rs) and       *)
(* scope_of (daemon/src/agent.rs), up to the gate where SignIn begins.     *)
(*                                                                         *)
(* The processes run on, and may exit, while they are read; the user       *)
(* answers the privacy prompt for the protected directories at any time,   *)
(* or never.  Connections share nothing else here, so they come one at a   *)
(* time, and `earlier` keeps what the last one came to.  A pid is not      *)
(* given to another process meanwhile.                                     *)
(***************************************************************************)
EXTENDS Context, FiniteSets

CONSTANTS
  Scene,      \* the requests: a command and the processes behind it
  Protected,  \* the directories under a privacy prompt
  MaxDepth,   \* how many processes are read, 16
  MaxExits,   \* bound: how many processes exit while they are read
  MaxRequests \* bound: the requests that come

\* What ssh, scp and git make of their words and their config, whichever of it the
\* daemon knows.
CONSTANTS
  Takes,      \* of each command, the words that take the next one with them
  HostIn,     \* the words that name an account or a file elsewhere, and the host
  PushUrl,    \* of a common gitdir: the remotes with a pushurl of their own
  PushRemote  \* of a common gitdir: the pushRemote of its branches, or pushDefault,
              \* or None

Takers == {"ssh", "scp", "sftp", "git", "push", "fetch"}

ASSUME AttributionAssumption ==
  /\ \A s \in Scene :
       /\ Len(s.procs) \in Nat \ {0}
       /\ \A i \in 1..Len(s.procs) : /\ s.procs[i].cwd \in Path \cup {None}
                                     /\ s.procs[i].args \in Seq(STRING)
  /\ Protected \subseteq Path
  /\ MaxDepth \in Nat \ {0}
  /\ MaxExits \in Nat
  /\ MaxRequests \in Nat \ {0}
  /\ Takes \in [Takers -> SUBSET Dashed]

-----------------------------------------------------------------------------
(* What a request really is, whatever the daemon can read of it. *)

\* An operand by its place alone: a word without a dash behind an even run of
\* flags that take an argument.
Behind(args, from, takes, i) ==
  CHOOSE n \in 0..i - from :
    /\ \A j \in i - n..i - 1 : args[j] \in takes
    /\ i - n > from => args[i - n - 1] \notin takes

Operands(args, from, takes) ==
  {i \in from..Len(args) : args[i] \notin Dashed /\ Behind(args, from, takes, i) % 2 = 0}

FirstOperand(args, from, takes) ==
  LET ops == Operands(args, from, takes) IN IF ops = {} THEN None ELSE args[Min(ops)]

\* The hosts that a caller names on its command line.
HostOf(word) == IF word \in DOMAIN HostIn THEN HostIn[word] ELSE word

Hosts(s) ==
  LET args   == s.procs[1].args
      tool   == s.procs[1].name
      ops    == Operands(args, 2, Takes[tool])
  IN  IF tool = "ssh" THEN IF ops = {} THEN {} ELSE {HostOf(args[Min(ops)])}
      ELSE IF tool \in {"scp", "sftp"}
        THEN {HostIn[args[i]] : i \in {j \in ops : args[j] \in DOMAIN HostIn}}
      ELSE {}

\* A directory and the ones above it, and the repository it is in: of those with a
\* `.git`, the one that has the others above it.
Up(dir) ==
  {p \in Path : \A S \in SUBSET Path :
     dir \in S /\ (\A q \in S : ParentOf[q] # None => ParentOf[q] \in S) => p \in S}

RepoAt(dir) ==
  LET repos == {p \in Up(dir) : DotGit[p] # None}
  IN  IF repos = {} THEN None ELSE CHOOSE p \in repos : repos \subseteq Up(p)

\* The repository a caller is in, and the gitdir with its config.
RepoIn(s) == RepoAt(s.procs[1].cwd)
Common(gitdir) == IF CommonDir[gitdir] = None THEN gitdir ELSE CommonDir[gitdir]

\* The checkout that a directory counts as: the main one of its repository, the
\* repository if there is none, and the directory itself outside of one.
Home(dir) ==
  LET repo == RepoAt(dir)
      main == HomeOf[Common(DotGit[repo])]
  IN  IF repo = None THEN dir ELSE IF main = None THEN repo ELSE main

\* The checkout that a request comes from.
Place(s) == Home(s.procs[1].cwd)

\* The git that runs a request, by its words and its repository.
GitsOf(s) == {i \in 1..Len(s.procs) : s.procs[i].name = "git"}
GitArgs(s) == IF GitsOf(s) = {} THEN <<>> ELSE s.procs[Min(GitsOf(s))].args
GitRepo(s) == IF GitsOf(s) = {} THEN None ELSE RepoAt(s.procs[Min(GitsOf(s))].cwd)

\* The place of its subcommand, 0 without one, and those of every `push`.
SubAt(args) == LET ops == Operands(args, 2, Takes["git"]) IN IF ops = {} THEN 0 ELSE Min(ops)
PushAt(s) == {i \in 1..Len(GitArgs(s)) : GitArgs(s)[i] = "push"}

OrElse(a, b) == IF a # None THEN a ELSE b
OnBranch(set, gitdir) ==
  IF Branch[gitdir] = None THEN None ELSE set[Common(gitdir)][Branch[gitdir]]

\* A word that is no remote is a URL itself.
UrlOfWord(common, word) == IF word \in DOMAIN Remotes[common] THEN Remotes[common][word] ELSE word

\* Where git pushes, and fetches from, given the place of its subcommand.  A flag
\* that takes a word has it behind it; aliases and insteadOf are left out.
PushesTo(args, at, gitdir) ==
  LET option == ArgAfter(SubSeq(args, at + 1, Len(args)), "--repo")
      set    == OrElse(OnBranch(PushRemote, gitdir), OnBranch(BranchRemote, gitdir))
      named  == FirstOperand(args, at + 1, Takes["push"])
      word   == OrElse(named, OrElse(option, OrElse(set, "origin")))
      common == Common(gitdir)
  IN  IF word \in DOMAIN PushUrl[common] THEN PushUrl[common][word] ELSE UrlOfWord(common, word)

FetchesFrom(args, at, gitdir) ==
  LET named == FirstOperand(args, at + 1, Takes["fetch"])
  IN  UrlOfWord(Common(gitdir), OrElse(named, OrElse(OnBranch(BranchRemote, gitdir), "origin")))

Contacts(s) ==
  LET args == GitArgs(s)
      at   == SubAt(args)
  IN  IF GitRepo(s) = None \/ at = 0 THEN None
      ELSE IF args[at] = "push" THEN PushesTo(args, at, DotGit[GitRepo(s)])
      ELSE IF args[at] \in {"fetch", "pull"} THEN FetchesFrom(args, at, DotGit[GitRepo(s)])
      ELSE None

\* A caller is in a directory.  The same command, in the checkouts of one
\* repository, has the same words, on branches of the same remote.
ASSUME SceneAssumption ==
  /\ \A s \in Scene : s.procs[1].cwd \in Path
  /\ \A s, t \in Scene : s.command = t.command /\ Place(s) = Place(t) =>
       /\ s.procs[1].name = t.procs[1].name /\ s.procs[1].args = t.procs[1].args
       /\ (GitsOf(s) = {}) = (GitsOf(t) = {}) /\ GitArgs(s) = GitArgs(t)
       /\ RepoIn(s) # None /\ RepoIn(t) # None =>
            OnBranch(BranchRemote, DotGit[RepoIn(s)]) = OnBranch(BranchRemote, DotGit[RepoIn(t)])

VARIABLES
  \* The world.
  scene,     \* the request under way
  exited,    \* the pids of its processes that have exited
  consent,   \* the user's answer for the protected directories
  \* The connection's thread.
  pc,        \* where it is
  cur,       \* attribute: the pid to read next, 0 for None
  chain,     \* attribute: the processes read, caller first
  purpose,   \* classify
  ctx,       \* gather_bounded's Context
  scope,     \* scope_of
  \* The thread of gather_bounded.
  reader,    \* where it is
  found,     \* the Context it sends
  \* History.
  late,      \* whether gather_bounded gave up
  earlier,   \* the request before, once it had its scope
  requests   \* how many have come

world  == <<scene, exited, consent>>
thread == <<pc, cur, chain, purpose, ctx, scope>>
vars   == <<world, thread, reader, found, late, earlier, requests>>

-----------------------------------------------------------------------------
NoContext == [git |-> None, env_from |-> 0, declared_from |-> 0]
NoPurpose == classify(<<>>)
NoScope   == [directory |-> None, host |-> None, repo |-> None]

\* The process of a pid: the caller has pid 2, its parent 3, and so on.
\* launchd has pid 1.
Launchd == 1
Caller == 2
Pids(s) == Caller..Len(s.procs) + 1
Proc(s, pid) == s.procs[pid - 1]

\* Every variable stays within its type.
TypeOK ==
  /\ scene \in Scene
  /\ exited \subseteq Pids(scene)
  /\ consent \in {"unanswered", "granted", "denied"}
  /\ pc \in {"info", "parent", "classify", "gather", "scope", "gate"}
  /\ cur \in {0, Launchd} \cup Pids(scene)
  /\ Len(chain) <= MaxDepth
  /\ purpose.kind \in Kind
  /\ purpose.repo_path \in Path \cup {None}
  /\ {ctx.env_from, ctx.declared_from} \subseteq {0} \cup Pids(scene)
  /\ scope.directory \in Path \cup {None}
  /\ reader \in {"idle", "processes", "repository", "sent"}
  /\ late \in BOOLEAN
  /\ requests \in 1..MaxRequests

Init ==
  /\ scene \in Scene
  /\ exited = {}
  /\ consent = "unanswered"
  /\ pc = "info"
  /\ cur = Caller
  /\ chain = <<>>
  /\ purpose = NoPurpose
  /\ ctx = NoContext
  /\ scope = NoScope
  /\ reader = "idle"
  /\ found = NoContext
  /\ late = FALSE
  /\ earlier = None
  /\ requests = 1

-----------------------------------------------------------------------------
(* The world. *)

\* A process exits.  Its children are launchd's from then on.  After the last
\* read of a process an exit is not seen.
Exit(pid) ==
  /\ pid \notin exited
  /\ Cardinality(exited) < MaxExits
  /\ pc \in {"info", "parent", "classify", "gather"}
  /\ reader \in {"idle", "processes"}
  /\ exited' = exited \cup {pid}
  /\ UNCHANGED <<scene, consent, thread, reader, found, late, earlier, requests>>

\* The user answers the prompt.
Consent ==
  /\ consent = "unanswered"
  /\ consent' \in {"granted", "denied"}
  /\ UNCHANGED <<scene, exited, thread, reader, found, late, earlier, requests>>

\* Where files can be read, and which directories make an open wait.
Readable == IF consent = "granted" THEN Path ELSE Path \ Protected
Waits(dirs) == consent = "unanswered" /\ dirs \cap Protected # {}

-----------------------------------------------------------------------------
(* attribute: the walk. *)

\* The first k of the four fields of a process, in the order proc_info reads
\* them: a process that exits after k reads has no more.
Fields(pid, k) ==
  LET p == Proc(scene, pid)
  IN  [pid  |-> pid,
       name |-> IF k >= 1 THEN p.name ELSE None,
       path |-> IF k >= 2 THEN p.bundle ELSE None,
       cwd  |-> IF k >= 3 THEN p.cwd ELSE None,
       args |-> IF k >= 4 THEN p.args ELSE <<>>]

\* The peer's pid can not be had: the request is nobody's.
NoPeer ==
  /\ pc = "info"
  /\ chain = <<>>
  /\ cur' = 0
  /\ purpose' = classify(<<>>)
  /\ ctx' = NoContext
  /\ pc' = "scope"
  /\ UNCHANGED <<world, chain, scope, reader, found, late, earlier, requests>>

WalkEnds_early == cur <= Launchd \/ Len(chain) >= MaxDepth - 1
WalkEnds_late == cur <= Launchd \/ Len(chain) > MaxDepth
WalkEnds == cur <= Launchd \/ Len(chain) >= MaxDepth

\* One process is read: whole, not at all when it is gone, or in part when it
\* exits between two reads.
Info ==
  /\ pc = "info"
  /\ ~WalkEnds
  /\ \/ /\ chain' = Append(chain, Fields(cur, IF cur \in exited THEN 0 ELSE 4))
        /\ UNCHANGED exited
     \/ /\ cur \notin exited
        /\ Cardinality(exited) < MaxExits
        /\ \E k \in 1..3 : chain' = Append(chain, Fields(cur, k))
        /\ exited' = exited \cup {cur}
  /\ pc' = "parent"
  /\ UNCHANGED <<scene, consent, cur, purpose, ctx, scope, reader, found, late, earlier, requests>>

\* parent_pid: none of a process that is gone, launchd of an orphan.
ParentPid(pid) ==
  IF pid \in exited THEN 0
  ELSE IF pid + 1 \in Pids(scene) \ exited THEN pid + 1 ELSE Launchd

Parent ==
  /\ pc = "parent"
  /\ cur' = ParentPid(cur)
  /\ pc' = "info"
  /\ UNCHANGED <<world, chain, purpose, ctx, scope, reader, found, late, earlier, requests>>

\* The chain is read: it is classified, and the reads of the repository start
\* on a thread of their own.
Classify ==
  /\ pc = "info"
  /\ WalkEnds
  /\ purpose' = classify(chain)
  /\ reader' = "processes"
  /\ pc' = "gather"
  /\ UNCHANGED <<world, cur, chain, ctx, scope, found, late, earlier, requests>>

\* The destination that the log and the card tell.
destination(links) ==
  IF links # <<>> /\ links[1].name \in {"ssh", "scp", "sftp", "ssh-keyscan"}
    THEN destination_from(links[1].args) ELSE None

-----------------------------------------------------------------------------
(* gather, on its own thread. *)

\* The pid of the nearest process in the chain for which Test holds, or 0.
Nearest(Test(_)) ==
  LET i == SelectInSeq(chain, LAMBDA p : Test(p.pid))
  IN  IF i = 0 THEN 0 ELSE chain[i].pid

\* env_from_chain reads the processes again, and a platform binary shows no
\* environment; declared_for reads a file that outlives the process.
ReadProcesses ==
  /\ reader = "processes"
  /\ found' = [git |-> None,
               env_from |-> Nearest(LAMBDA p : p \notin exited /\ Proc(scene, p).env),
               declared_from |-> Nearest(LAMBDA p : Proc(scene, p).declares)]
  /\ reader' = "repository"
  /\ UNCHANGED <<world, thread, late, earlier, requests>>

\* git_context and push_summary, once every open they make returns.
ReadRepository ==
  /\ reader = "repository"
  /\ ~Waits(ContextReads(purpose.repo_path))
  /\ found' = [found EXCEPT !.git = GitOf(chain, purpose.repo_path, Readable)]
  /\ reader' = "sent"
  /\ UNCHANGED <<world, thread, late, earlier, requests>>

\* recv_timeout: the context comes in time,
Receive ==
  /\ pc = "gather"
  /\ reader = "sent"
  /\ ctx' = found
  /\ pc' = "scope"
  /\ UNCHANGED <<world, cur, chain, purpose, scope, reader, found, late, earlier, requests>>

\* or the budget is spent first, and the thread is left to itself.
GiveUp_never == FALSE /\ UNCHANGED vars
GiveUp ==
  /\ pc = "gather"
  /\ ctx' = NoContext
  /\ late' = TRUE
  /\ reader' = "idle"
  /\ found' = NoContext
  /\ pc' = "scope"
  /\ UNCHANGED <<world, cur, chain, purpose, scope, earlier, requests>>

-----------------------------------------------------------------------------
(* scope_of, when a signature is asked for. *)

\* The remote: the one pushed to, else origin.
RepoOf(git) ==
  IF git = None THEN None
  ELSE IF git.push_remote_url # None THEN git.push_remote_url ELSE git.remote

\* Where the request came from, when no remote is known.
DirectoryOf ==
  LET repo == purpose.repo_path
      main == main_checkout(repo, Readable)
  IN  IF repo # None THEN IF main # None THEN main ELSE repo
      ELSE IF chain = <<>> THEN None ELSE chain[1].cwd

\* The directory is read on the connection's own thread, and the open of a
\* worktree's `.git` waits for the user as long as it takes.
ScopeOf ==
  /\ pc = "scope"
  /\ RepoOf(ctx.git) = None => ~Waits(CheckoutReads(purpose.repo_path))
  /\ scope' = [directory |-> IF RepoOf(ctx.git) = None THEN DirectoryOf ELSE None,
               host      |-> purpose.host,
               repo      |-> RepoOf(ctx.git)]
  /\ pc' = "gate"
  /\ UNCHANGED <<world, cur, chain, purpose, ctx, reader, found, late, earlier, requests>>

\* The chain was read whole, up to the walk's limit.
Whole == exited = {} /\ chain # <<>>

\* The next connection.  What is remembered of this one is its scope.
NextRequest ==
  /\ pc = "gate"
  /\ requests < MaxRequests
  /\ requests' = requests + 1
  /\ earlier' = IF Whole THEN [scene |-> scene, scope |-> scope, late |-> late] ELSE None
  /\ scene' \in Scene
  /\ exited' = {}
  /\ pc' = "info"
  /\ cur' = Caller
  /\ chain' = <<>>
  /\ purpose' = NoPurpose
  /\ ctx' = NoContext
  /\ scope' = NoScope
  /\ reader' = "idle"
  /\ found' = NoContext
  /\ late' = FALSE
  /\ UNCHANGED consent

\* No more requests.
Quiet ==
  /\ pc = "gate"
  /\ requests = MaxRequests
  /\ UNCHANGED vars

Serve == NoPeer \/ Info \/ Parent \/ Classify \/ Receive \/ GiveUp \/ ScopeOf

Reader == ReadProcesses \/ ReadRepository

Next ==
  \/ Serve \/ Reader \/ Consent \/ NextRequest \/ Quiet
  \/ \E pid \in Pids(scene) : Exit(pid)

\* The connection's thread runs, and recv_timeout returns.  Nothing is assumed
\* of the user, the processes or the disk.
Spec == Init /\ [][Next]_vars /\ WF_vars(Serve)

-----------------------------------------------------------------------------
(* Properties. *)

\* The chain is the caller's ancestry, from the caller up.  It stops short of the
\* walk's limit only where the last process read or its parent exited, and a
\* process that did not exit is in it with every field (attribute, parent_pid).
NamesAncestors ==
  pc = "gate" /\ chain # <<>> =>
    LET n == Len(chain)
    IN  /\ \A i \in 1..n : /\ chain[i].pid = i + 1
                           /\ i + 1 \notin exited => chain[i] = Fields(i + 1, 4)
        /\ n < MaxDepth /\ n < Len(scene.procs) => {n + 1, n + 2} \cap exited # {}

\* Both readers of an ssh command line find its first operand, and the command
\* is what follows it.
OneHost(args) ==
  LET ops == Operands(args, 2, SSH_TAKES_ARG)
  IN  /\ destination_from(args) = FirstOperand(args, 2, SSH_TAKES_ARG)
      /\ split_ssh(args) = [dest |-> FirstOperand(args, 2, SSH_TAKES_ARG),
                            cmd  |-> IF ops = {} THEN <<>> ELSE SubSeq(args, Min(ops) + 1, Len(args))]

\* The log, the card and the scope speak of one host, the first operand of the
\* caller's command line as the daemon's table of flags has it, however much of
\* the caller could be read; only of an ssh-keyscan the log tells more (attribute,
\* destination_from, split_ssh).
ReadsOneHost ==
  pc = "gate" =>
    /\ chain # <<>> => OneHost(chain[1].args)
    /\ chain = <<>> \/ chain[1].name # "ssh-keyscan" => destination(chain) = purpose.host

\* Two requests, each read whole, of which one would ride the other's approval.
Rides == pc = "gate" /\ Whole /\ earlier # None /\ earlier.scope = scope

\* It is no broader than the approval was: with a host in the scope it goes to the
\* same hosts; with a remote in it, two requests that push or fetch contact the
\* same one; with none, both come from one checkout or directory.
NoBroader ==
  /\ scope.host # None => Hosts(scene) = Hosts(earlier.scene)
  /\ scope.repo # None /\ Contacts(scene) # None /\ Contacts(earlier.scene) # None
       => Contacts(scene) = Contacts(earlier.scene)
  /\ scope.repo = None => Place(scene) = Place(earlier.scene)

\* The words on which two tables of flags do not differ.
Agree(args, from, A, B) == \A i \in from..Len(args) : args[i] \in A <=> args[i] \in B

\* A git and what it runs are near each other, in one directory: no hook that goes
\* elsewhere is between them.
InPlace(s) ==
  GitsOf(s) # {} => /\ Min(GitsOf(s)) <= MaxDepth
                    /\ s.procs[Min(GitsOf(s))].cwd = s.procs[1].cwd

\* The daemon knows the flags of the ssh, and an scp or sftp names a host with its
\* first operand and no other host behind it.
KnownHost(s) ==
  LET args == s.procs[1].args
      tool == s.procs[1].name
      ops  == Operands(args, 2, SSH_TAKES_ARG)
  IN  tool \in {"ssh", "scp", "sftp"} =>
        /\ Agree(args, 2, Takes[tool], SSH_TAKES_ARG)
        /\ tool # "ssh" /\ ops # {} =>
             /\ args[Min(ops)] \in DOMAIN HostIn
             /\ \A i \in ops : args[i] \in DOMAIN HostIn => HostIn[args[i]] = HostIn[args[Min(ops)]]

\* A push goes to a remote that is named or is the branch's own, not to a URL, by
\* way of --repo, pushRemote or a pushurl; a fetch is from origin.
KnownRemote(s) ==
  LET args   == GitArgs(s)
      at     == SubAt(args)
      gitdir == DotGit[GitRepo(s)]
      pushed == FirstOperand(args, at + 1, PUSH_TAKES_ARG)
      word   == OrElse(pushed, OrElse(OnBranch(BranchRemote, gitdir), "origin"))
      from   == OrElse(FirstOperand(args, at + 1, Takes["fetch"]),
                       OrElse(OnBranch(BranchRemote, gitdir), "origin"))
      known  == DOMAIN Remotes[Common(gitdir)]
  IN  GitRepo(s) # None =>
        IF PushAt(s) # {}
          THEN /\ at = Min(PushAt(s))
               /\ Agree(args, at + 1, Takes["push"], PUSH_TAKES_ARG)
               /\ pushed = None => /\ ArgAfter(SubSeq(args, at + 1, Len(args)), "--repo") = None
                                   /\ OnBranch(PushRemote, gitdir) = None
               /\ word \in known \ DOMAIN PushUrl[Common(gitdir)]
          ELSE at # 0 /\ args[at] \in {"fetch", "pull"} => from = "origin" /\ from \in known

\* What the daemon reads of a request as ssh and git do.
Plain(s) == InPlace(s) /\ KnownHost(s) /\ KnownRemote(s)

\* A request that rides another's approval is no broader than it, if the daemon
\* reads the command lines of both as ssh and git do (classify, push_summary,
\* scope_of).
ApprovalKeepsToScope == Rides /\ Plain(scene) /\ Plain(earlier.scene) => NoBroader

\* An approval "covers requests from the same directory, to the same host and remote
\* as the approval, and anything else prompts": whatever the requests are (scope_of).
ApprovalGoesNoFurther == Rides => NoBroader

\* A linked worktree and the clone it came from count as one place: the same
\* command from both has one scope, whether both were read in time or neither
\* was, unless the user denied the daemon their files (main_checkout,
\* common_dir, origin_url).
WorktreeShares ==
  (/\ pc = "gate" /\ Whole /\ earlier # None
   /\ scene.command = earlier.scene.command
   /\ Place(scene) = Place(earlier.scene)
   /\ InPlace(scene) /\ InPlace(earlier.scene)
   /\ late = earlier.late
   /\ consent # "denied") => scope = earlier.scope

\* The one wait of a request that the budget of gather_bounded does not end, although
\* "signing must not hang on it".
WaitsForUser ==
  /\ pc = "scope"
  /\ late
  /\ purpose.repo_path # None
  /\ ~IsDir(purpose.repo_path)
  /\ Waits(CheckoutReads(purpose.repo_path))

\* A request reaches the gate whatever the prompt, the disk or the processes
\* do, except from a checkout whose `.git` is a file, under a prompt nobody
\* answers (gather_bounded, scope_of).
ReachesGate == pc = "info" ~> (pc = "gate" \/ WaitsForUser)
=============================================================================
