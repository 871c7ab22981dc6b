CONSTANT Requests = 2
SPECIFICATION Spec
INVARIANT NeverLate
