------------------------------ MODULE Context ------------------------------
(***************************************************************************)
(* What the caller's processes and repository tell about a request: the    *)
(* reads of daemon/src/context.rs.                                         *)
(*                                                                         *)
(* A gitdir is a value.  `Readable` is the set of directories whose files  *)
(* the daemon may read at this moment: a privacy consent that was denied   *)
(* makes every open under a protected directory fail.                      *)
(***************************************************************************)
EXTENDS Purpose

CONSTANTS
  Gitdir,       \* the gitdirs: of clones, linked worktrees, submodules
  HomeOf,       \* the directory a gitdir called `.git` is in, else None
  WhereIs,      \* the directory whose consent covers the gitdir's files
  CommonDir,    \* the gitdir its `commondir` file names, None without one
  Branch,       \* the branch HEAD names
  Remotes,      \* of a common gitdir: the remotes its config has, and their URLs
  BranchRemote  \* of a common gitdir: the remote of its branches, or None

PUSH_TAKES_ARG == {"-o", "--push-option", "--receive-pack", "--exec", "--repo"}

\* A GitContext, as far as the scope needs one.
Urls == UNION {{Remotes[g][r] : r \in DOMAIN Remotes[g]} : g \in Gitdir}
GitContext == [branch : {Branch[g] : g \in Gitdir} \cup {None},
               remote : Urls \cup {None},
               push_remote_url : Urls \cup {None}]

ASSUME ContextAssumption ==
  /\ None \notin GitContext
  /\ PUSH_TAKES_ARG \cup {"--"} \subseteq Dashed
  /\ None \notin Gitdir
  /\ DotGit \in [Path -> Gitdir \cup {None}]
  /\ HomeOf \in [Gitdir -> Path \cup {None}]
  /\ WhereIs \in [Gitdir -> Path]
  /\ CommonDir \in [Gitdir -> Gitdir \cup {None}]
  /\ \A g \in Gitdir : HomeOf[g] # None => DotGit[HomeOf[g]] = g /\ CommonDir[g] = None
  /\ \A g \in Gitdir : None \notin DOMAIN Remotes[g]

\* `.git` is a directory in a clone and a pointer file in a worktree.
IsDir(repo) == HomeOf[DotGit[repo]] = repo

git_dir(repo, Readable) ==
  IF IsDir(repo) \/ repo \in Readable THEN DotGit[repo] ELSE None

\* The gitdir every worktree shares.
common_dir_own(gitdir, Readable) == gitdir
common_dir(gitdir, Readable) ==
  IF CommonDir[gitdir] # None /\ WhereIs[gitdir] \in Readable
    THEN CommonDir[gitdir]
    ELSE gitdir

\* The checkout a worktree came from; None for a submodule or a bare clone.
main_checkout(repo, Readable) ==
  LET g == git_dir(repo, Readable)
  IN  IF g = None THEN None ELSE HomeOf[common_dir(g, Readable)]

\* The URL of a remote, from the shared config, if it can be read.
UrlOf(gitdir, remote, Readable) ==
  LET common == common_dir(gitdir, Readable)
  IN  IF /\ WhereIs[common] \in Readable
         /\ remote \in DOMAIN Remotes[common]
        THEN Remotes[common][remote]
        ELSE None

origin_url(gitdir, Readable) == UrlOf(gitdir, "origin", Readable)

git_context(repo, Readable) ==
  LET g == git_dir(repo, Readable)
  IN  IF g = None THEN None
      ELSE [branch |-> IF WhereIs[g] \in Readable THEN Branch[g] ELSE None,
            remote |-> origin_url(g, Readable),
            push_remote_url |-> None]

-----------------------------------------------------------------------------
(* What is being pushed, and where. *)

\* The places of the words behind `push` that are no flags.
Positional(args, at) ==
  LET taken == Taken(args, at + 1, PUSH_TAKES_ARG)
  IN  {i \in at + 1..Len(args) : ~taken[i] /\ args[i] # "--" /\ args[i] \notin Dashed}

\* The nearest git, when it is a push: the remote it names, or None.
push_args(chain) ==
  LET g     == NearestGit(chain)
      args  == IF g = 0 THEN <<>> ELSE chain[g].args
      at    == SelectInSeq(args, LAMBDA a : a = "push")
      words == Positional(args, at)
  IN  [push   |-> at # 0,
       remote |-> IF at = 0 \/ words = {} THEN None ELSE args[Min(words)]]

\* `git remote get-url` of the named remote, else of the branch's own: the URL git
\* fetches from, whatever the remote's pushurl.  It fails for a word that is no
\* remote of the repository.
push_remote_url(repo, branch, remote, Readable) ==
  LET g      == git_dir(repo, Readable)
      common == common_dir(g, Readable)
      name   == IF remote # None THEN remote
                ELSE IF branch = None THEN None ELSE BranchRemote[common][branch]
  IN  IF g = None \/ name = None THEN None ELSE UrlOf(g, name, Readable)

\* The GitContext of a request from `repo`.
GitOf(chain, repo, Readable) ==
  IF repo = None THEN None
  ELSE
    LET git    == git_context(repo, Readable)
        push   == push_args(chain)
        blank  == [branch |-> None, remote |-> None, push_remote_url |-> None]
        filled == IF git = None THEN blank ELSE git
    IN  IF push.push
          THEN [filled EXCEPT !.push_remote_url =
                  push_remote_url(repo, filled.branch, push.remote, Readable)]
          ELSE git

-----------------------------------------------------------------------------
\* The directories whose files are opened: for the main checkout, and for the
\* whole context.  Opening a file that is not there never waits.
CheckoutReads(repo) ==
  IF repo = None \/ IsDir(repo) THEN {}
  ELSE {repo} \cup (IF CommonDir[DotGit[repo]] = None THEN {} ELSE {WhereIs[DotGit[repo]]})

ContextReads(repo) ==
  IF repo = None THEN {}
  ELSE CheckoutReads(repo) \cup {WhereIs[DotGit[repo]], WhereIs[common_dir(DotGit[repo], Path)]}
=============================================================================
