# keyward, in TLA+

keyward is an ssh-agent that sits between ssh and the agents that hold keys, keeps a
key of its own in the Secure Enclave, asks for Touch ID before that key signs, and
tells the user what is being signed. This directory models the parts of it that run
concurrently or fail halfway, and how a request becomes the place an approval is for;
checks them with TLC on small instances, shows that the sign-in core implements a short
statement of what it promises, and proves that, and every safety property the runs check,
with TLAPS for every instance.

## Inventory

| component | state it keeps | operations | talks to | what makes it correct |
|---|---|---|---|---|
| **approvals and sign-in** `daemon/src/agent.rs` | `approved`, `sign_outs`, `looked`, `sign_gate` | `handle_sign` for the own key, `watch_screen`, `look`, `sign_out`, `admit` | the enclave shim, the card, the log; one thread per connection and one watch | nothing is signed or held without an approval that stands; a lock ends the sign-in; one sheet at a time; the log tells who was asked |
| **enclave shim** `daemon/kwse.swift`, `enclave.rs` | `ContextCache`: contexts and secrets by reach | `kwse_sign`, `signIn`, `forget`, `forgetAll` | called by the daemon's threads | holds exactly what the daemon believes approved; never asks on behalf of a request that rides |
| **proxy** `agent.rs`, `upstream.rs`, `main.rs` | `routes`, `comments`, `conns` | `spawn`, `serve`, `refresh_identities`, `handle_sign`, `handle_extension`, `watch_self` | clients, upstream agents, launchd | a known key is forwarded to its first claimant, in the time its own calls may take, whatever other upstreams do |
| **event log** `event.rs`, `EventStore.swift` | the file and one older generation; the app's offset, inode and events | `append`, `tick` | two processes that share a file | the latest events are kept in order; the app shows the file and notifies each event |
| **approval card** `ui.rs`, `ApprovalServer.swift`, `ApprovalPanel.swift` | a connection per request; the panel, shown or held back | `show`, `done`, `serve`, `hide` | daemon and app over a socket, server threads and main thread | never stranded, always down in the end, never late |
| **key store** `enclave.rs`, `kwse.swift` | a file or a keychain item | `generate`, `load`, `kwse_keychain_store` | runs of the command line beside each other, daemons that load the key | an existing key is never destroyed unasked; a key in use is tried and kept |
| **start-up** `main.rs`, `AgentInstaller.swift` | the socket file | `main`, `bind`, `watch_self` | daemons beside each other, launchd | a stale socket is cleared, a live one respected |
| **attribution** `attrib.rs` | a chain of processes per connection | `attribute`, `apps_for`, `destination_from` | the process table, while its processes run on | the whole ancestry of a caller whose processes live, and as much of it as can be read of one whose exit |
| **purpose, context and scope** `purpose.rs`, `context.rs`, `agent.rs` | none; reads repositories on a thread of its own | `classify`, `gather_bounded`, `scope_of` | the disk, under the privacy prompts of macOS; `handle_sign` | two requests have one scope only if they go to one host and remote, or come from one checkout; a prompt nobody answers does not stop a signature |
| **wire format, redaction** `wire.rs`, `attrib.rs` | none | reading and writing of bytes | everything | (not modelled) what is written is read back; credentials are taken out |
| **app: installer, health, views** | a LaunchAgent plist | one-shot calls | launchd | (not modelled) |

What is hard about it: the watch signs everybody out in two steps beside requests that
wait minutes for a finger; the screen is polled, so the record of a look is stale by the
time it is used; approvals live in the daemon and secrets in the shim, under different
locks; upstreams hang; the daemon ends itself; a log is rotated under its reader; cards of
two requests meet on one main thread; callers exit while they are looked at, and their files
wait for a consent. `PROJECT.json` lists these hazards at their lines
with the properties that would catch each.

## Modules

| module | models | checked by |
|---|---|---|
| `Approvals` | the pure rules: `grant`, `reuse_covers`, `expire`, `decide`, `opened`, `unseen` | through `SignIn` |
| `SignIn` | requests, watch, screen, clock and shim, one action per step under one lock | `MCSignIn` |
| `Session` | what the own key promises: approvals, Touch IDs, signatures and sign-outs, each one step | implemented by `SignIn` |
| `SignInProofs` | theorems about `SignIn`: what is held, asked and signed | TLAPS |
| `SessionProofs` | `SignIn` implements `Session`; the log; what is approved is held | TLAPS |
| `LongLockProofs` | a long lock ends a sign-in | TLAPS |
| `Proxy` | connections, routes, upstream calls, the daemon's probe of itself, restarts | `MCProxy` |
| `ProxyProofs` | theorems about `Proxy` | TLAPS |
| `EventLog` | the daemon's append and rotation, the app's tail | itself |
| `EventLogProofs` | theorems about `EventLog` | TLAPS |
| `ApprovalCard` | daemon, server threads, main thread and panel | itself |
| `ApprovalCardProofs` | theorems about `ApprovalCard` | TLAPS |
| `Startup` | runs of keywardd that share the key store and the socket | `MCStartup` |
| `StartupProofs` | theorems about `Startup` | TLAPS |
| `Purpose` | the pure rules of `purpose.rs`, and `destination_from` | through `Attribution` |
| `Context` | what `context.rs` reads of a repository, given what it may read | through `Attribution` |
| `Attribution` | from a connection to the scope of its request | `MCAttribution` |
| `AttributionProofs` | theorems about `Attribution`: whom a request is attributed to, what a command line says, what its scope is | TLAPS |

The six specifications share no variables: they meet in the code at the scope (what
`Attribution` ends with is `SignIn`'s `PlaceOf`), at `sign_gate` (requests
reach the card one at a time, which `ApprovalCard` assumes and `SignIn` shows), at the
daemon's exit (`Exit` in `Proxy` is `Restart` in `EventLog` and `DaemonExits` in
`ApprovalCard` and a kill in `Startup`; in `SignIn` it is the initial state), and at the events the log is given.

A definition with a suffix, such as `expire_late` before `expire`, is a plausible mistake in
the code. No specification uses it; it is there so that a property can be shown to notice
the mistake.

### SignIn

A request goes `Turn` (the gate), `Look`/`See` (the screen, when the key is a sign-in key),
`Count`, `Decide`, `Drop`, then the shim (`TakeHeld`, or a sheet through `TakeSecret` or
`TakeContext`, `Accept` or `Decline`, `Keep`), `Sign`, a second look, `Admit`, `Refuse` or
`Fail`, `Forget`, `Answer`. The watch goes `Wake`, a look, then `Expire` and `Release` or
`Busy`. A look that must sign out runs `EndApprovals` and `ForgetAll` as two steps, because
the code takes two locks for them. Threads may stall between any two steps for any time.

`approved` is a total function with `Absent` for no entry. `NaN` is the reading of a clock
that fails, and compares as `f64` does. `looked` keeps the time of the look only, what it saw
is only logged. The enclave may refuse a signature at any time, which covers its own policy.
A Touch ID may be given even while the screen is locked, which is more than macOS allows.
`asked` and `age` are history: how each request was authenticated, and how long a lock each
secret, and each request's copy of one, has lived through.

A tick is a `Second`th of a second and may be as short as one likes: the code compares what the
clock says, in nanoseconds, with whole seconds (`Within`, `RunOut`). A look reads the clock in one
step and the screen in a later one (`Look`, `See`).

An authentication is the daemon's sheet or, for an approval of a place, a Touch ID unlock of the Mac
that macOS takes instead (`Authenticate`); when the Mac was unlocked is not kept, so it may be at any
time. A sign-in hands macOS a window of 0 and always asks. A key with `Guarded` is one that the
enclave guards itself, a presence or biometry key: any signature with a held context may raise the
enclave's own prompt (`EnclaveAsks`), under the gate, whatever the daemon believes is approved. That
is what src/README.md:297-305 measured after ten minutes; here it may be at once. The daemon logs it
as reused. A sign-in key's signing key has no such guard, so a sign-in is never asked for again, and
what ends it is the daemon letting go of the secret.

### Session

`KeepsPromise` says that `SignIn` implements `Session`. An approval stands, in `Session`, while
`approved` has it; a request is answered once its outcome is set; a Touch ID is good (`Touched`)
from the sheet, or the unlock that stands in for it, until the request is settled, unless `sign_outs` has moved since the request
counted. So the sign-out of `Session` is `EndApprovals`, the first half of the code's: from that
step on no approval and no Touch ID given before it signs, although the secrets are still held.
`Forgetting`, the looks, the gate and the enclave's cache are stutters. `Session` says nothing
of what is held; that is `HeldIsApproved`.

### Proxy

Upstreams are numbered in the order of the config and offer the same keys for good. One that
is not in `Reliable` answers, hangs or is gone, and changes at any time; one that is answers
before the call times out. Time passes only while every thread waits for an upstream, which
is what makes a bound on the time of a request meaningful. The timeout is the socket's, so it is one
for each read and write: a call takes up to `Pieces` of them, and each that gets through starts the
timeout anew (`Piece`). The probe is a connection like any other with
a timer of its own. `Exit` is the end of the daemon and the start of the next. `Extension` is
every message that is neither a list nor a signature: it is answered here and no upstream is
asked. A handler that panics, and leaves its connection counted, is not modelled; `Counted` is about
the ways out that `serve` returns by.

### EventLog

An event is its number, a file the sequence of writes to it. `writeln!` makes two writes, a
line and its newline, of which either may fail (its result is dropped) and between which the daemon
may exit; two events on one line do not decode. A write fails or succeeds as a whole. The app's tick is three steps, look, open and read, and what it opens may no longer
be what it looked at. Inodes are not used twice.

### ApprovalCard

The main thread's queue is a sequence of shows and hides, filled by a thread for each
connection. The 120 ms a card is held back, and the 600 ms the daemon waits, end at any time: that
the daemon's wait ends is an option of its socket, and no property is about it.

### Startup

A maker (`--generate-key`) goes `LookForKey`, `Make`, `Try` (a sign-in key), then `OpenFile`,
`WriteFile`, `SetMode` or, for a keychain, `Delete` and `Add`, then `Announce`: one step for
each system call that others can see. A server goes `Start`, which loads the key,
`LookAtSocket`, `Clear`, `Bind`, `Listen`, and then serves until `SelfCheck` finds nobody on
the path. `Kill` ends any of them anywhere. A keychain may be unreadable at any read, which
`exists` takes for empty. Both stores, every use of `--force` and a socket file left from
before are initial states. `Scenarios` says which processes run together. `seen` is history.
The check for an enclave is one of the ways `Make` fails; `--pubkey` and `--health` change
nothing. A server that reaches one by its probe may exit all the same (`Unanswered`): no answer in
time, less than one, or something else. When that is, `Proxy` says.

### Attribution

A connection goes `Info`, `Parent` and again up the ancestry, `Classify`, then waits for the
thread of `gather_bounded` (`ReadProcesses`, `ReadRepository`), which comes in time (`Receive`) or
not (`GiveUp`), then `ScopeOf`, where the request is at `SignIn`'s gate. `NoPeer` is a socket whose
peer has no pid. A process may exit between any two reads, those of its four fields included;
its children are then launchd's. `consent` is the user's answer to the privacy prompt, one for
all of the protected directories: until it comes an open there waits, once denied it fails. A
file that is not there is reported missing without a wait.

A word of a command line is told apart by its first character and by what it contains, a path by
its parent and its `.git`, a repository by its remotes. `scope_of` asks for the main checkout
after the reads of `gather` and on the connection's own thread, so the two see the consent at
different times. Connections share nothing before the gate, so they come one after another and
`earlier` is what the last one came to. A pid is not given to another process while it is read.

A scene is the processes of a request. What it really does is said without the operators that
model the daemon's reading and without the daemon's tables. `Takes` are the flags of each tool that
take an argument, by its manual; `HostIn` the words that name a host; `PushUrl` and `PushRemote` the
config of git that the daemon does not read. `Operands` finds the operands of a command line by their
place alone, a word without a dash behind an even run of flags that take an argument; `Hosts` are
those an ssh, scp or sftp goes to; `Contacts` is where the git of the request pushes or fetches from
(`PushesTo`, `FetchesFrom`); `Place` is the checkout it comes from, by the order of the directories,
where `repo_root` is a loop. Aliases of git, `insteadOf`, a clone and flags in one word with their
argument (`--repo=backup`) are left out of both.

`ApprovalGoesNoFurther` compares the two for any pair of requests, of which one rides the other's
approval, and does not hold. `Plain` says of which requests the daemon reads what it must as ssh and
git do, and for these `ApprovalKeepsToScope` holds, and is proved.

## Runs

| run | instance | what it shows |
|---|---|---|
| `sign_in_key` | 3 requests, a sign-in key, locks and unlocks, threads that stall, a clock that can fail | whenever nobody's turn is under way nothing is held that is not approved (`HeldIsApproved`); one sheet (`OneSheet`), which says what it grants (`SheetNamesSignIn`); the log is right (`LogTellsWhoAsked`); a signature leaves only under an approval (`SignsUnderApproval`); a secret that lived through a long lock signs nothing (`LongLockEndsSignIn`); the whole implements `Session` (`KeepsPromise`) |
| `places` | the other kinds of key, two places | besides, what is approved is held (`ApprovedIsHeld`), so the daemon asks nobody twice; the enclave of a key it guards may ask again, and only it |
| `sign_in_live` | 2 requests, with fairness | requests are answered unless a sheet waits (`Answered`); a lock that lasts signs out for good (`LockSignsOut`); what expired is let go of without a request (`ExpiredIsLetGo`); riding never extends an approval (`NotExtended`) |
| `ride_fails` | violation | a watch stalled between the halves of a sign-out wipes the secret of a sign-in opened meanwhile; its approval stays, and requests that ride it fail for the rest of the window |
| `proxy` | 2 clients and the probe, 3 upstreams, 2 keys, room for 2 connections, calls of 2 pieces | a key of a reliable upstream is never unknown (`NeverUnknown`) and goes to its first claimant (`FirstClaimWins`), in the time its own calls may take (`InTime`), and connections are counted (`Counted`) |
| `cut_off` | violation | the probe waits as long as the upstream call it causes: a hanging upstream makes the daemon exit under unrelated requests |
| `event_log` | files of two lines, 4 events, 3 shown | the disk keeps the latest events (`KeepsLatest`); the app shows the file (`ShowsFile`), has told of each event (`TellsEach`), at most twice (`ToldAtMostTwice`), and catches up (`CatchesUp`) |
| `approval_card` | 3 requests | once the app has caught up no card is left of a request that is over (`NoStrandedCard`); the card of each comes down in the end, for good (`CardComesDown`) |
| `card_lost` | violation | the end of one connection takes down the next request's card |
| `startup` | 3 makers; 2 makers and a server; 3 servers, one of them launchd's; 2 kills | no key is overwritten without `--force` (`NotClobbered`); a key in use was tried and, in a keychain, is the one kept (`KeptForGood`); a live socket is respected (`LateStandsDown`) and a stale one cleared, so that a server is reached again and again, and for good once probes are answered (`SettlesDown`) |
| `attribution` | 22 requests, two after another, from a clone, its worktree, its submodule and outside; one exit; a prompt | the chain is the caller's ancestry (`NamesAncestors`); the log, the card and the scope speak of one host (`ReadsOneHost`); a request rides only an approval for its hosts and its remote or checkout, if the daemon reads both requests as ssh and git do (`ApprovalKeepsToScope`); a worktree shares its clone's (`WorktreeShares`); a request reaches the gate (`ReachesGate`) |
| `beyond_scope` | violation; seven pairs of requests that the daemon reads otherwise | a request rides the approval of one that went to another remote or host, or came from elsewhere |

The violation runs are the findings of `PROJECT.json`, each with the line of the code and the words
of the comment or document it disagrees with. Where else the code does less than its words say is
under "What the words promise and the code does not", below.

How long a lock `LongLockEndsSignIn` is about: with two ticks between looks (`UnseenSecs`), three
ticks. Three is sharp: a lock of two can go unseen, when a thread stalls between reading the clock and
the screen. The theorem is about any tick, and in ever shorter ones the bound goes to twice the time
between looks: with the code's three seconds no lock of six goes unseen, and one of a little less
can; src/README.md:331-345 speaks of one second.

`startup` says where the looks before an act leave a gap. Two makers that both found no file
overwrite each other, and the key that one of them announced is lost; in a keychain the add
refuses. Two servers that both found a stale socket, or one of which finds the other between
`bind` and `listen`, can take a socket that has just become live; the loser then serves
nobody, is content with its probe, which the winner answers, and exits, for launchd to start it
again, once the winner has ended. `NotClobbered` and `LateStandsDown` except these, and only these, by what the process
found when it began (`seen`). An empty file that a kill leaves behind counts as a key for
`exists` and as none for `load`. `SettlesDown` supposes that servers are not started by hand
for ever: such starts and probes at the worst moments can go on removing sockets. It promises a
server again and again, and not for good, as long as probes fail: with an upstream that hangs each
daemon ends itself after two minutes (`cut_off`).

`ToldAtMostTwice` is the truth about an untidiness: an event that is written between the
app's look and its read is shown and notified twice, because the file counts as read to where
it ended at the look. `TellsEach` shows what that buys: an event the first, silent tick
happened to read is still notified. Events that are rotated away before a tick reads them are
never told: both speak of an app that has caught up and of what is in the file by then. A line that lost its newline to an exit takes the next
event with it; `ShowsFile` promises only the lines that decode.

Where the daemon's scope is not where a request goes is what `beyond_scope` finds, and what `Plain`
keeps out of `ApprovalKeepsToScope`. Each of the seven pairs of `MCAttribution` is a counterexample by
itself:

- `ByRepo`: `git push --repo backup`, of which the daemon passes over `backup`;
- `ByPushUrl`: a remote with a pushurl, for which the daemon has the URL to fetch from;
- `ByUrl`: a push to a URL on the command line, for which it has `origin`;
- `ByFetch`: a fetch from another remote, for which it has `origin`;
- `ByFlag`: `ssh -vp 22 host`, of which it takes `22` for the host, as it would behind `-B` and `-P`;
- `ByFile`: `scp notes host:notes`, of which it takes `notes` for the host;
- `ByHook`: the login of a hook that left for another directory. `git_cwd` finds the git that runs
  the hook and the scope is that git's checkout, wherever the login comes from, which shows when the reads come late and the directory counts.

`branch.<name>.pushRemote` and `remote.pushDefault` belong with the first, and are in `PushRemote`.

What else `attribution` leaves out of its promises is the truth about `scope_of`:

- When the files cannot be read in time, or at all, the scope is the checkout, and pushes to its
  different remotes share it, as long as they share the host.
- Only `ssh`, `scp` and `sftp` tell a host. Other callers in one place share a scope.
- A worktree whose files the user denied does not share its clone's approvals, and one that was
  read late has the checkout for a scope where its clone in time has the remote.
- A checkout whose `.git` is a file, a worktree or a submodule, waits in `scope_of` for an
  unanswered prompt, however long: the budget of 1.5 s, which exists because "Signing must not
  hang on it" (`context.rs:373`), is not around `main_checkout`. `WaitsForUser` is that case, and
  `ReachesGate` excepts no other.

### What the words promise and the code does not

Four disagreements are runs: `ride_fails`, `cut_off`, `card_lost` and `beyond_scope`. The models show
these as well, and each property says where it gives way to one:

- "Every upstream call is timeout-bounded" (src/README.md:59; "Every call is bounded by a socket
  timeout", upstream.rs:3). The timeout is that of a read or a write (upstream.rs:26), and `read_exact`
  goes on until it has what it was told: an upstream that sends its reply a piece at a time holds a
  request for many timeouts. `InTime` bounds a request by `Pieces` timeouts for each call.
- "The UI reads both" (event.rs:100) of the two generations of the log. `EventStore` reads the file at
  the path only, and drops what it shows when the inode changes (EventStore.swift:63): right after a
  rotation nothing of the older generation is shown. `ShowsFile` is about one file for that reason.
- "Refuses to clobber an existing one" (enclave.rs:324). `generate` looks, then waits for a Touch ID,
  then writes with truncation: a second run beside it that found no file either writes over the
  first one's key. `NotClobbered` excepts that.
- "Never stealing a live one" (main.rs:172). `bind` removes the file in a later step than the
  connection that was refused, and another daemon can have come to serve on it. `LateStandsDown`
  excepts that.
- "Signing must not hang on it" (context.rs:373). `ReachesGate` excepts `WaitsForUser`.
- "The outermost names the application the user launched" (attrib.rs:517-519). `apps_for` counts an app
  where it is met first from the caller up, so of A, then B, then A again the last is B. The model
  leaves out which app is named, and says so here only.

### Bounds, and why they are enough

- `MaxClock` is one to three seconds past the window in `Places`, `SignInLive` and
  `RideFails`, so that windows open, run out and are opened again. In `SignInKey` it is the end of the
  longest window, so that a sign-in runs out in it and also outlasts a lock of three ticks, which
  nothing but the lock may end. `Second` is one tick: where only the order of the clock's readings
  matters, finer ticks make no new order, and the theorems are about every tick. `UnseenSecs` is 2 for
  the code's 3, and the theorems are about every other. Where the clock stops, requests still end; the watch goes on waking while that signs
  nobody out. Three requests (`SignInKey`, `Places`) are one that opens, one that rides and one
  that meets the end; the other runs have two. The constant `LongLock` is the bound its property
  is about.
- `NotUnlocked` has one value where the reason for a refusal makes no difference: the code
  treats `Locked`, `Away` and `Unreadable` alike. It is empty in `Places`, where no screen is
  watched.
- `Timeout = 1` in `Proxy` is one tick for a read or write, and `Pieces = 2` a call whose timeout starts
  anew once; the code's limit is the length of a message; the order of the timeouts of two threads in
  that tick is free. `MaxConns` is below the number of connections that want one. The two
  clients are symmetric.
- `MaxKills = 2` in `Startup` is one for each of two processes. Three servers are one that
  serves, one that clears and one that binds meanwhile.
- `MaxDepth = 3` in `Attribution` is the code's 16: with chains of two to four processes some end
  before it and some are cut off. `MaxExits = 1` makes each process of a chain exit between any
  two reads, `MaxRequests = 2` makes every pair of requests meet. Of the requests that the daemon reads
  otherwise three pairs are in `attribution` too, so that `Plain` has something to keep out; all seven
  are in `beyond_scope`. What a request came to is kept
  only if none of its processes exited. The command
  lines have flags with and without arguments, a flag for an argument and flags behind the host;
  `LineHasOneHost` is about every other.
- `Events = 4` with two lines to a file is two rotations; `Requests = 3` is two endings that
  meet a beginning.

### Fairness

Threads run: weak fairness of each thread's step in `SignIn`, strong where a request waits for
a mutex, since the watch holds its mutexes for an instant in each second. Time passes
(`WF(Tick)`). The app's timer fires every second (`WF(Tick)` in `EventLog`). In `ApprovalCard` the
app's main thread and the thread of each connection run while the app does (weak fairness of
`MainThread` and of each `Accept`, `Handle` and `EndOfFile`), and nothing is assumed of the daemon. A
connection's thread runs and its wait for the
context ends (`WF(Serve)` in `Attribution`). A server in `Startup` goes on and probes its
socket, and launchd starts its own again (`KeepAlive`); it is not assumed that its probes are answered. Nothing is assumed of the user, the screen,
upstreams, an app that may hang, or a disk that may not answer.

## Proofs

`SignInProofs` proves, for any sets of requests and places, any windows and any kind of key:

- `TypeCorrect`: `Spec => []TypeOK`;
- `HeldOnlyWhileApproved`: `Spec => []HeldIsApproved`, a failing clock included;
- `OneSheetAtATime`: `Spec => []OneSheet`;
- `SheetsSayWhatTheyGrant`: `Spec => []SheetNamesSignIn`, for a sign-in key;
- `SignaturesUnderApproval`: `Spec => SignsUnderApproval`;
- `NeverExtended`: `Spec => NotExtended`, while the clock can be read.

They rest on the assumptions `ApprovalsAssumption` and `SignInAssumption` only. None of these
is inductive. The invariant is `IInv`, five parts:

- `TypeOK`;
- `Locking`: each mutex is held by the thread whose `pc` says so, and only a sign-in key looks;
- `Sheets`: a secret is asked for and kept only by a request that rides nothing;
- `Plans`: a plan stays true until its request is settled. What it rides is there unless
  `sign_outs` moved, and what it would open is not; this is the whole purpose of the count,
  and where it is compared;
- `HeldAccounted`: whatever is held without an approval has somebody on the way to let go of
  it, a sign-out between its halves, an expiry, or the request that is yet to be admitted.

`Inductive` proves `IInv` with one lemma per conjunct and one step per action; the theorems
follow from it and, for the action properties, one more case split on `Next`.

With a clock that fails, `NotExtended` and `ApprovedIsHeld` do not hold: a request that reads
`NaN` decides that nothing covers it, and may replace an approval, or drop what is held for
one, that has not run out.

`StartupProofs` proves, for any makers, servers, scenarios and number of kills, from
`StartupAssumption` only:

- `TypeCorrect`: `Spec => []TypeOK`;
- `KeysForGood`: `Spec => []KeptForGood`;
- `NeverClobbered`: `Spec => NotClobbered`;
- `LiveIsRespected`: `Spec => LateStandsDown`.

The first three rest on its `IInv`: a maker without `--force` that went on found no key
(`FoundNone`), each store is only written where it is the one in use (`InItsStore`), and every
key past its trial opens (`TriedOpens`). Together these make the add to the keychain the only
step that changes it unforced, and that step finds it empty. The last rests on `Beside`: a
server that was live when another started serves until it ends, and the other, once it went
on from its look, has seen that the socket is not that server's; no server binds twice.

`SessionProofs` goes on from `IInv`:

- `LogIsTrue`: `EndsAtLock \/ ~ClockFails => (Spec => []LogTellsWhoAsked)`;
- `ApprovalsAreHeld`: `~EndsAtLock /\ ~ClockFails => (Spec => []ApprovedIsHeld)`;
- `Implements`: `Spec => KeepsPromise`, for every kind of key and a clock that fails too.

`LogIsTrue` speaks of who asked: the daemon's sheet, an unlock of the Mac in its place, or the enclave
of a key that it guards itself. `ApprovalsAreHeld` is why the daemon asks nobody twice; it says
nothing of what the enclave asks for itself, and for a sign-in key, whose signing key has no guard,
nothing is left to ask.

The hypotheses are what the code needs. For a sign-in key a secret is asked for only when none
stands, whatever the clock reads. For any other key an approval that is opened at `NaN` neither
covers a request nor runs out, and the next request is logged as asking although it finds the
context held. `AskedInv` adds to `IInv` when a result and an outcome come to be (`Results`), that
the sheet is the only way of a request that rides nothing to its signature (`Asking`), that only
approvals with a window are recorded and ridden (`Lasting`), that with no sign-out what is approved
or ridden is held (`Holding`) and that who rides is not asked (`RidesUnasked`). `Implements` maps each action of `SignIn` to a step of
`Session` or to a stutter: `Accept` is `Touch`, `Admit` is `Sign`, `Refuse` and `Fail` are `Refuse`,
`Answer` is `Finish`, the expiries are `RunOut`, `EndApprovals` is `SignOut`, and every other step
changes nothing that `Session` sees.

`LongLockProofs` proves `LongLocksEndSignIns`: for a sign-in key, and `LongLock >= 2 * Gap - 1`,
where `Gap` is `UnseenSecs` in ticks, `Spec => []LongLockEndsSignIn`. It is sharp: for one tick less
in `SignInKey` TLC finds a lock that goes unseen. The shorter the tick, the nearer the bound is to twice the
seconds between looks: for the code's three no lock of six seconds goes unseen, and some of a little
less do. `LongLockInv` is an argument about time: no
look is of the future (`Times`); when a request was signed out under, no approval is left (`Ended`);
a secret that may still be used has lived through no more of a lock than has passed since the last
look (`SecretsTimely`). One look that read the clock before the lock may be recorded after it, which
is what the second `Gap` is for: then the next is too late. So the second look of a request
whose secret is too old finds the gap too wide, and the request is not admitted (`Caught`).

`ProxyProofs` proves, for any upstreams, keys, clients, timeout and limit, from `ProxyAssumption`
and `ListAssumption`: `ProxyTypeCorrect`, `ConnectionsCounted`, `RequestsInTime`, `FirstClaimsWin`
and `KeysAreFound`, that is `[]TypeOK`, `[]Counted`, `[]InTime`, `[]FirstClaimWins` and
`[]NeverUnknown`. `ProxyInv` adds to the first two what each place of a thread
says of its counts and targets (`Placed`), that no call to a reliable upstream runs out of time
(`Answering`), that the routes of a refresh so far, and all of the published ones, lead to the first
claimant among the reliable and to holders only (`Routed`), and how much of its time a request may
have used at each place (`OnTime`): a timeout for each piece of the calls it has made and of the one
it waits for. `InTime` bounds a request by that, `(N + 1) * Pieces * Timeout`; not by
`(N + 1) * Timeout`, which a reply in pieces exceeds.

`ApprovalCardProofs` proves `CardTypeCorrect` and `NoCardIsStranded`, for any number of requests.
`CardInv` says that only the request in turn has an open connection (`Connected`), and that a card
which is queued, held back or on screen belongs to a connection that is served, or has the hide of
that connection's end behind it in the queue (`Swept`).

`EventLogProofs` proves all of `EventLog`'s safety, for files of any size, windows of any length
and any number of events, with faults and restarts or without: `LogTypeCorrect`, `LatestAreKept`,
`FileIsShown`, `EachIsTold` and `NoneIsToldThrice`. `TailInv` has two halves. For the daemon
(`LogInv`): the file at the path is the newest and an append has one (`Disk`), events
were written once and in order, through each file and from one to the next (`Ordered`), and the
two generations have no gap, in either or between them (`Kept`). For the app: where it is in its look, its open and its read (`Tailing`), that
an event told twice is not read again and one told once counts as read after the next time
(`Counts`), that what counts as read has been told (`Notified`) and is shown (`Shown`). What decoding makes of a file is
`DecodedLines`, for every file. It is proved by counting the lines and, where induction is called
for, by a least counterexample (`Least`).

`AttributionProofs` proves all of `Attribution`'s safety, for any processes, command lines, disk and
protected directories, any depth of the walk, any exits and any answers of the user:

- `AncestorsAreNamed`: `Spec => []NamesAncestors`;
- `TypesHold`: `Spec => []TypeOK`;
- `LineHasOneHost`: both readers of a command line find its first operand, for every sequence of
  words; from it `HostsAgree`, `Spec => []ReadsOneHost`;
- `ApprovalsKeepToScope`: `Spec => []ApprovalKeepsToScope`;
- `WorktreesShare`: `Spec => []WorktreeShares`.

Its invariants are four. `Walk` says that what
was read is the ancestry from the caller up, each process whole while none has exited (`Read`), and
that the walk is at the next ancestor or past the last it can read (`At`): it ends early only
behind a process that exited. `Typed` adds to `TypeOK` the pids that are found but not yet received,
and that the repository of a purpose has a `.git`. `Knows` is the argument about scopes: the two
threads are in step (`Stages`); of a request that was read whole, what the reader sends, what the
connection received and the scope are each the true one or say less, and are the true one while the
user has not denied the files (`Gathered`); and so is what is remembered of the request before
(`Remembered`). That a remote is never half right is `RepoRead`: either every file it takes was read,
and it is the request's own, or there is none. That two checkouts of one repository come to one
scope is `SameHome`.

The loops (`split_ssh`, the flag that takes the next word, `repo_root`) are recursive functions. No
induction theorem is used for them: `LoopEnds` shows, from the set of the places a loop passes, that a
function with the loop's equation exists, so that the recursive definition satisfies it, and what it
computes is then settled by a least or greatest counterexample (`Least`, `Greatest`) or, for
`repo_root`, one nearest to the root: `RootIsNearest` is what `repo_root` computes.

What they assume of the constants, beyond types:

- parents of directories do not go in circles (`PurposeAssumption`);
- a gitdir called `.git` is the `.git` of the directory it is in and has no `commondir` file, which
  only the gitdir of a linked worktree has; the words `--` and those of `push_args`' table start with
  a dash (`ContextAssumption`);
- the same command, in the checkouts of one repository, has the same words and the same git, on
  branches of the same remote, which is only there for `WorktreesShare`; and a caller is in a directory
  (`SceneAssumption`).

`ApprovalKeepsToScope` has the rest in its own premises, where a run or a reader can see what they
keep out: `InPlace`, a git within the walk's limit and in the directory of what it runs; `KnownHost`,
flags of which the daemon and the ssh agree whether they take an argument, and an scp or sftp whose
first operand names the one host it goes to; `KnownRemote`, a push to a remote that is named or is the
branch's own and has no pushurl, and a fetch from origin. `Plain` is all three. Each is needed:
`beyond_scope` has a pair that breaks it.

The other hypotheses on constants are that the names they stand for are distinct (`Req \cap Reach = {}`,
`Watch \notin Req`, `None \notin Path`), that numbers are numbers, and that a caller is a process;
the MC modules satisfy them, and TLC evaluates them in each run.

Only model-checked is liveness (`Answered`, `LockSignsOut`, `ExpiredIsLetGo`, `CatchesUp`,
`CardComesDown`, `SettlesDown`, `ReachesGate`): fairness and `ENABLED` are out of the prover's reach.

## Not modelled

- Configuration and the command line, except as constants and initial states.
- What works on bytes: the wire format, the encodings of keys and signatures, the decoding of
  kernel buffers, the redaction of credentials in arguments.
- Wording: prompts, summaries, comments of keys, the list of commits and the subject a card shows
  (for a tag it is that of the last commit, whose `COMMIT_EDITMSG` is still there), session titles.
- Which app of an ancestry the card names (`apps_for`).
- The host key that a session-bind records for the log, and the callers read once per connection
  whose later signatures carry the same attribution.
- A handler that panics: its thread ends and its connection stays counted.
- What git makes of aliases, `insteadOf`, a clone and flags in one word with their argument; where scp
  goes by way of `scp://` or `-3`.
- When the enclave asks again, and when the Mac was unlocked: both may be at any time.
- The app's windows and installer; the build and release scripts.
- The exit of the daemon when the watch panics (`Watching`), which is an exit like any other.
- Encryption, the enclave's own policy and macOS, which are seen through what keyward asks of them.

## Plan

Left: the wire format, `mpint` and redaction as pure operators over bounded inputs.
