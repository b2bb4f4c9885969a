\* What HELP ASSIGN says, with the same bots and users.
SPECIFICATION Spec
CONSTANTS
  BotNames = {b1, b2}
  Channels = {chan}
  Users = {u1, u2}
  Sids = {s1, s2}
  SidOf <- MCSidOf
  Nicks = {x, y}
  NoChannel = NoChannel
  NoNick = NoNick
  Lost = Lost
  MaxUid = 2
  u1 = u1
  u2 = u2
  s1 = s1
  s2 = s2
SYMMETRY Symmetry
INVARIANT AssignedJoin
