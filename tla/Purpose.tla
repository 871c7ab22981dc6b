------------------------------ MODULE Purpose ------------------------------
(***************************************************************************)
(* What a request is for, from the processes behind it: the pure rules of  *)
(* daemon/src/purpose.rs and destination_from of daemon/src/attrib.rs.     *)
(*                                                                         *)
(* A chain is the sequence of ProcInfo from the caller up.  An argument is *)
(* one word, told apart by what it starts with and by what it contains.    *)
(***************************************************************************)
EXTENDS Integers, SequencesExt

CONSTANTS
  None,       \* Option::None
  Dashed,     \* the words that start with '-'
  Receives,   \* the words that contain "git-receive-pack"
  Uploads,    \* the words that contain "git-upload-pack"
  Path,       \* the directories
  ParentOf,   \* Path::parent, [Path -> Path \cup {None}]
  DotGit      \* the gitdir that the `.git` of a directory is or names, or None

SSH_TAKES_ARG ==
  {"-o", "-i", "-p", "-l", "-F", "-b", "-c", "-D", "-E", "-e", "-I", "-J", "-L",
   "-m", "-O", "-Q", "-R", "-S", "-W", "-w"}

ASSUME PurposeAssumption ==
  /\ None \notin Path
  /\ SSH_TAKES_ARG \subseteq Dashed
  /\ ParentOf \in [Path -> Path \cup {None}]
  /\ \A dirs \in SUBSET Path : dirs # {} => \E p \in dirs : ParentOf[p] \notin dirs
  /\ DOMAIN DotGit = Path

Kind == {"SshLogin", "RemoteCommand", "GitFetch", "GitPush", "GitOverSsh",
         "CommitSigning", "Signing", "FileTransfer", "Unknown"}

-----------------------------------------------------------------------------
(* The destination on an ssh command line, read twice. *)

\* split_ssh: the word at which its loop stops, past the end when there is none.
OperandFrom(args) ==
  LET at[i \in 2..Len(args) + 2] ==
        IF i > Len(args) THEN i
        ELSE IF args[i] \in SSH_TAKES_ARG THEN at[i + 2]
        ELSE IF args[i] \in Dashed THEN at[i + 1] ELSE i
  IN  at[2]

\* The destination, and the words of the remote command after it.
split_ssh(args) ==
  LET i == OperandFrom(args)
  IN  [dest |-> IF i > Len(args) THEN None ELSE args[i],
       cmd  |-> SubSeq(args, i + 1, Len(args))]

\* The words from `from` on that go with the word before them: a loop that meets
\* a flag with an argument takes two words, and looks at the first alone.
Taken(args, from, takes) ==
  LET taken[i \in from..Len(args)] == i > from /\ args[i - 1] \in takes /\ ~taken[i - 1]
  IN  taken

\* attrib.rs has an iterator and a table of its own.
TAKES_ARG ==
  {"-o", "-i", "-p", "-l", "-F", "-b", "-c", "-D", "-E", "-e", "-I", "-J", "-L",
   "-m", "-O", "-Q", "-R", "-S", "-W", "-w"}

destination_from_values(args) ==
  LET words == {i \in 2..Len(args) : args[i] \notin Dashed}
  IN  IF words = {} THEN None ELSE args[Min(words)]

destination_from(args) ==
  LET taken == Taken(args, 2, TAKES_ARG)
      words == {i \in 2..Len(args) : ~taken[i] /\ args[i] \notin Dashed}
  IN  IF words = {} THEN None ELSE args[Min(words)]

-----------------------------------------------------------------------------
(* The repository a request comes from. *)

\* The nearest directory, from `start` up, that has a `.git`.
repo_root ==
  LET root[p \in Path] ==
        IF DotGit[p] # None THEN p
        ELSE IF ParentOf[p] = None THEN None ELSE root[ParentOf[p]]
  IN  root

\* The nearest git in the chain: its place in it, 0 when there is none.
NearestGit_outer(chain) == SelectLastInSeq(chain, LAMBDA p : p.name = "git")
NearestGit(chain) == SelectInSeq(chain, LAMBDA p : p.name = "git")

\* Its working directory, else the caller's own.
git_cwd(chain) ==
  LET g == NearestGit(chain)
  IN  IF g # 0 /\ chain[g].cwd # None THEN chain[g].cwd ELSE chain[1].cwd

-----------------------------------------------------------------------------
\* The words -Y sign of `ssh-keygen -Y sign -n git`, and the namespace.
ArgAfter(args, flag) ==
  LET i == SelectInSeq(args, LAMBDA a : a = flag)
  IN  IF i # 0 /\ i < Len(args) THEN args[i + 1] ELSE None

HasWord(cmd, words) == \E i \in 1..Len(cmd) : cmd[i] \in words

\* What an ssh is for, from the command it sends.
SshKind(chain, cmd) ==
  CASE HasWord(cmd, Receives) -> "GitPush"
    [] ~HasWord(cmd, Receives) /\ HasWord(cmd, Uploads) -> "GitFetch"
    [] ~HasWord(cmd, Receives \cup Uploads) /\ cmd # <<>> -> "RemoteCommand"
    [] cmd = <<>> -> IF NearestGit(chain) # 0 THEN "GitOverSsh" ELSE "SshLogin"

\* The purpose of a request: its kind, host and local repository.
classify(chain) ==
  IF chain = <<>> THEN [kind |-> "Unknown", host |-> None, repo_path |-> None]
  ELSE
    LET args    == chain[1].args
        cwd     == git_cwd(chain)
        local   == IF cwd = None THEN None ELSE repo_root[cwd]
        ssh     == split_ssh(args)
        For(kind, host) == [kind |-> kind, host |-> host, repo_path |-> local]
    IN  CASE chain[1].name = "ssh-keygen" /\ ArgAfter(args, "-Y") = "sign" ->
               For(IF ArgAfter(args, "-n") = "git" THEN "CommitSigning" ELSE "Signing", None)
          [] chain[1].name \in {"scp", "sftp"} -> For("FileTransfer", ssh.dest)
          [] chain[1].name = "ssh" -> For(SshKind(chain, ssh.cmd), ssh.dest)
          [] OTHER -> For("Unknown", None)
=============================================================================
