CONSTANTS
  a = a
  b = b
  c1 = c1
  c2 = c2
  N = 3
  Key = {a, b}
  Holds <- MCHolds
  Reliable = {2}
  Client = {c1, c2}
  Probe = Probe
  Timeout = 1
  Pieces = 2
  MaxConns = 2
SPECIFICATION Spec
INVARIANTS
  TypeOK
  Counted
  InTime
  NeverUnknown
  FirstClaimWins
SYMMETRY Clients
