\* Three users on two servers, two nicknames, one of them spelled in two ways.
SPECIFICATION Spec
CONSTANTS
  Uids = {u1, u2, u3}
  Sids = {near, far}
  SidOf <- MCSidOf
  Behind <- MCBehind
  Staff = {u3}
  Nicks = {x, X, y}
  Fold <- MCFold
  Folded = {"x", "y"}
  u1 = u1
  u2 = u2
  u3 = u3
  near = near
  far = far
  x = x
  X = X
  y = y
SYMMETRY Symmetry
INVARIANTS TypeOK NamesTheBearer KnowsEveryone
