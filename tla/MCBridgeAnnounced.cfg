\* Two bridges, two people, one SID to spare.
SPECIFICATION Spec
CONSTANTS
  Bridges = {b1, b2}
  Channels = {c1}
  Remotes = {r1}
  Senders = {p1, p2}
  Sids = {s1, s2, s3}
  OwnSid = s1
  LastResort = s1
  MaxQueue = 1
INVARIANTS AnnouncedFirst
