\* Pairs of requests of one scope, of which the second goes further than the first.
SPECIFICATION Spec
CONSTANTS
  None = None
  home = home  docs = docs  app_ = app_  src = src  wt = wt  lib = lib
  appGit = appGit  wtGit = wtGit  libGit = libGit
  Dashed <- Flags
  Receives = {"git-receive-pack app"}
  Uploads = {"git-upload-pack app"}
  Path <- Dirs
  ParentOf <- Parents
  DotGit <- Dots
  Gitdir <- Gits
  HomeOf <- HomeDirs
  WhereIs <- Where
  CommonDir <- Commons
  Branch <- Heads
  Remotes <- Config
  BranchRemote <- Tracked
  Takes <- TakesArg
  HostIn <- Hosted
  PushUrl <- PushConfig
  PushRemote <- PushTracked
  Scene <- Odd
  Protected <- Documents
  MaxDepth = 3
  MaxExits = 1
  MaxRequests = 2
INVARIANT ApprovalGoesNoFurther
