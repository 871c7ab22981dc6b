--------------------------- MODULE MCAttribution ---------------------------
(***************************************************************************)
(* A disk and a set of requests for Attribution: a clone `app` with a      *)
(* linked worktree and a submodule, remotes on one host, and a directory   *)
(* that is in no repository.                                               *)
(***************************************************************************)
EXTENDS Attribution

CONSTANTS home, docs, app_, src, wt, lib, appGit, wtGit, libGit

Dirs == {home, docs, app_, src, wt, lib}
Gits == {appGit, wtGit, libGit}

Parents == [p \in Dirs |->
              CASE p = home -> None [] p \in {docs, wt} -> home
                [] p = app_ -> docs [] p \in {src, lib} -> app_]

Dots == [p \in Dirs |->
           CASE p = app_ -> appGit [] p = wt -> wtGit [] p = lib -> libGit [] OTHER -> None]

HomeDirs == [g \in Gits |-> IF g = appGit THEN app_ ELSE None]
Where    == [g \in Gits |-> app_]
Commons  == [g \in Gits |-> IF g = wtGit THEN appGit ELSE None]
Heads    == [g \in Gits |-> IF g = wtGit THEN "feature" ELSE "main"]

\* A worktree's own gitdir has no config.
Config == [g \in Gits |->
             CASE g = appGit -> [origin |-> "host:app", backup |-> "host:copy",
                                 mirror |-> "host:app"]
               [] g = libGit -> [origin |-> "host:lib"] [] g = wtGit -> <<>>]
Tracked == [g \in Gits |->
              [b \in {"main", "feature"} |-> IF g = wtGit THEN None ELSE "origin"]]
PushConfig == [g \in Gits |-> IF g = appGit THEN [mirror |-> "host:mirror"] ELSE <<>>]
PushTracked == [g \in Gits |-> [b \in {"main", "feature"} |-> None]]

\* What the man pages of ssh, scp, sftp and git say of their flags.
TakesArg ==
  LET copies == {"-i", "-o", "-P", "-c", "-F", "-J", "-l", "-S", "-D"}
  IN  [ssh   |-> SSH_TAKES_ARG \cup {"-B", "-P", "-vp"},
       scp   |-> copies,
       sftp  |-> copies \cup {"-b", "-B", "-R", "-s"},
       git   |-> {"-C", "-c", "--git-dir", "--work-tree", "--namespace"},
       push  |-> PUSH_TAKES_ARG \cup {"--recurse-submodules"},
       fetch |-> {"-o", "--server-option", "--depth", "-j", "--upload-pack"}]

Flags == PUSH_TAKES_ARG \cup UNION {TakesArg[t] : t \in Takers} \cup
         {"--", "-v", "-Y", "-n", "--force"}

Hosted == [w \in {"host:notes", "other:notes"} |-> IF w = "host:notes" THEN "host" ELSE "other"]

\* The folder under the prompt: all but the home directory.
Documents == Dirs \ {home}

-----------------------------------------------------------------------------
Process(name, bundle, cwd, args, env, declares) ==
  [name |-> name, bundle |-> bundle, cwd |-> cwd, args |-> args, env |-> env,
   declares |-> declares]

Ssh(host, cmd, cwd) ==
  Process("ssh", None, cwd, <<"ssh", "-p", "22", host>> \o cmd, FALSE, FALSE)
Git(args, cwd) == Process("git", None, cwd, <<"git">> \o args, FALSE, FALSE)
Agent(cwd) == Process("claude", "claude.app", cwd, <<"claude">>, TRUE, TRUE)
Terminal == Process("Ghostty", "Ghostty.app", home, <<"ghostty">>, TRUE, FALSE)

Request(command, procs) == [command |-> command, procs |-> procs]

Receive_ == <<"git-receive-pack app">>
Upload_  == <<"git-upload-pack app">>

PushWith(words, dir) ==
  Request(<<"push">> \o words,
          <<Ssh("host", Receive_, dir), Git(<<"push">> \o words, dir), Terminal>>)

\* To a remote that is named, by an agent; and to the branch's own.
PushTo(remote, dir) ==
  Request(<<"push to", remote>>,
          <<Ssh("host", Receive_, dir), Git(<<"push", "--push-option", "ci", remote>>, dir),
            Agent(dir), Terminal>>)
Push(dir) == PushWith(<<>>, dir)

\* A hook of a push to origin pushes to the backup.
HookPush(dir) ==
  Request(<<"push", "hook">>,
          <<Ssh("host", Receive_, dir), Git(<<"push", "backup">>, dir),
            Git(<<"push", "origin">>, dir), Terminal>>)

FetchWith(words, dir) ==
  Request(<<"fetch">> \o words,
          <<Ssh("host", Upload_, dir), Git(<<"fetch">> \o words, dir), Terminal>>)
Fetch(dir) == FetchWith(<<>>, dir)

Login(host, dir) == Request(<<"login", host>>, <<Ssh(host, <<>>, dir), Agent(dir), Terminal>>)

\* By an ssh that is given its words.
LoginWith(words, dir) ==
  Request(<<"login">> \o words,
          <<Process("ssh", None, dir, <<"ssh">> \o words, FALSE, FALSE), Terminal>>)

\* With a flag for the argument of a flag, and a flag in the command.
LoginOdd(dir) == LoginWith(<<"-v", "-o", "-p", "host", "g", "-p">>, dir)

\* The log tells the destination of an ssh-keyscan, and the scope does not.
Scan(dir) ==
  Request(<<"scan">>,
          <<Process("ssh-keyscan", None, dir, <<"ssh-keyscan", "-p", "22", "host">>, FALSE, FALSE),
            Terminal>>)

Commit(dir) ==
  Request(<<"commit">>,
          <<Process("ssh-keygen", None, dir, <<"ssh-keygen", "-Y", "sign", "-n", "git">>, FALSE, FALSE),
            Git(<<"commit">>, dir), Terminal>>)

CopyWith(words, dir) ==
  Request(<<"copy">> \o words,
          <<Process("scp", None, dir, <<"scp">> \o words, FALSE, FALSE), Terminal>>)

\* A caller whose command line is not read for a host.
Library(host, dir) ==
  Request(<<"library", host>>,
          <<Process("python", None, dir, <<"python", host>>, TRUE, FALSE), Terminal>>)

\* A hook of a push from one checkout that logs in from another.
HookLogin(dir) ==
  Request(<<"hook", "login">>,
          <<Ssh("host", <<>>, dir), Git(<<"push">>, app_), Terminal>>)

Ordinary ==
  {PushTo("backup", d) : d \in {app_, wt}} \cup {Push(d) : d \in {app_, wt, lib}} \cup
  {HookPush(wt), Fetch(src), Fetch(wt), Commit(wt), Commit(lib)} \cup
  {CopyWith(<<"-i", "key", "other:notes">>, home)} \cup
  {Library("host", src), Library("other", src)} \cup
  {Login("host", home), Login("other", home), Login("host", src), LoginOdd(home), Scan(home)}

\* Requests that the daemon reads otherwise than ssh, scp and git do, in pairs of
\* one scope.
ByRepo    == {Push(app_), PushWith(<<"--repo", "backup">>, app_)}
ByPushUrl == {Push(app_), PushWith(<<"mirror">>, app_)}
ByUrl     == {Push(app_), PushWith(<<"host:other">>, app_)}
ByFetch   == {Fetch(app_), FetchWith(<<"backup">>, app_)}
ByFlag    == {LoginWith(<<"-vp", "22", h>>, home) : h \in {"host", "other"}}
ByFile    == {CopyWith(<<"notes", w>>, home) : w \in {"host:notes", "other:notes"}}
ByHook    == {HookLogin(home), HookLogin(lib)}

Odd == ByRepo \cup ByPushUrl \cup ByUrl \cup ByFetch \cup ByFlag \cup ByFile \cup ByHook

Requests == Ordinary \cup ByRepo \cup ByUrl \cup ByFlag
=============================================================================
