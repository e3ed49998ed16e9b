\* Two calls of two attempts each, and one manager that mounts the server twice.
CONSTANTS
  Callers = {c1, c2}
  Managers = {m1}
  Clients = {k1, k2, k3, k4}
  Attempts = 2
  MaxVersions = 2
SPECIFICATION Spec
SYMMETRY Alike
INVARIANTS SessionHasItsUsers ChangesTakeEffect
