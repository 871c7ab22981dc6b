\* Twenty-two requests, two after another, from a clone, its worktree, its
\* submodule and elsewhere, some of which the daemon reads otherwise than git and
\* ssh do; processes exit, a prompt is answered or not.
SPECIFICATION Spec
CONSTANTS
  None = None
  home = home  docs = docs  app_ = app_  src = src  wt = wt  lib = lib
  appGit = appGit  wtGit = wtGit  libGit = libGit
  Dashed <- Flags
  Receives = {"git-receive-pack app"}
  Uploads = {"git-upload-pack app"}
  Path <- Dirs
  ParentOf <- Parents
  DotGit <- Dots
  Gitdir <- Gits
  HomeOf <- HomeDirs
  WhereIs <- Where
  CommonDir <- Commons
  Branch <- Heads
  Remotes <- Config
  BranchRemote <- Tracked
  Takes <- TakesArg
  HostIn <- Hosted
  PushUrl <- PushConfig
  PushRemote <- PushTracked
  Scene <- Requests
  Protected <- Documents
  MaxDepth = 3
  MaxExits = 1
  MaxRequests = 2
INVARIANTS TypeOK NamesAncestors ReadsOneHost ApprovalKeepsToScope WorktreeShares
PROPERTIES ReachesGate
