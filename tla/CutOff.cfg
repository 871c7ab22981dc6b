CONSTANTS
  a = a
  b = b
  c1 = c1
  c2 = c2
  N = 3
  Key = {a, b}
  Holds <- MCHolds
  Reliable = {2}
  Client = {c1, c2}
  Probe = Probe
  Timeout = 1
  Pieces = 1
  MaxConns = 3
SPECIFICATION Spec
PROPERTY NotCutOff
