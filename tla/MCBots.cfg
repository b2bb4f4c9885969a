\* Two bots, two users on two servers, one channel.
SPECIFICATION Spec
CONSTANTS
  BotNames = {b1, b2}
  Channels = {chan}
  Users = {u1, u2}
  Sids = {s1, s2}
  SidOf <- MCSidOf
  Nicks = {x, y}
  NoChannel = NoChannel
  NoNick = NoNick
  Lost = Lost
  MaxUid = 2
  u1 = u1
  u2 = u2
  s1 = s1
  s2 = s2
SYMMETRY Symmetry
INVARIANTS TypeOK NobodyDangling NoGhosts NobodyMissed
PROPERTY ImplementsRoster
