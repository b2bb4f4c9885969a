------------------------------ MODULE Session ------------------------------
(***************************************************************************)
(* What the hub and the services may assume of one server-to-server link:  *)
(* the abstract life of a session, without lines, sockets or buffers.      *)
(*                                                                         *)
(*   new --> opening --> talking --> authed --> up                         *)
(*    ^ (first use)         \          \         \                         *)
(*   down <------------------+----------+---------+                        *)
(*                                                                         *)
(* A session is redialled only when a retry was armed for it, our netburst *)
(* is announced on an authenticated session only, at most once, and        *)
(* nothing is "up" before it has been announced.                           *)
(***************************************************************************)
CONSTANT Redial          \* does this link reconnect by itself?

VARIABLES
  phase,                 \* where the session stands
  announced,             \* has our netburst been opened in this session?
  armed                  \* is a redial scheduled?

sessionVars == <<phase, announced, armed>>

Phases == {"new", "opening", "talking", "authed", "up", "down"}

SessionTypeOK ==
  /\ phase \in Phases
  /\ announced \in BOOLEAN
  /\ armed \in BOOLEAN

SessionInit == phase = "new" /\ announced = FALSE /\ armed = FALSE

\* A session may be dialled for the first time, or when its redial is due.
MayDial == phase = "new" \/ (phase = "down" /\ armed)

Dial ==
  /\ MayDial
  /\ phase' = "opening"
  /\ announced' = FALSE
  /\ armed' = FALSE

DialFails ==
  /\ MayDial
  /\ phase' = "down"
  /\ announced' = FALSE
  /\ armed' = Redial

\* The peer dialled us: such a session is never redialled.
Accept ==
  /\ phase = "new"
  /\ phase' = "talking"
  /\ UNCHANGED <<announced, armed>>

Ready ==
  /\ phase = "opening"
  /\ phase' = "talking"
  /\ UNCHANGED <<announced, armed>>

Authenticate ==
  /\ phase = "talking"
  /\ phase' = "authed"
  /\ announced' \in {announced, TRUE}
  /\ UNCHANGED armed

Announce ==
  /\ phase = "authed"
  /\ announced = FALSE
  /\ announced' = TRUE
  /\ UNCHANGED <<phase, armed>>

Complete ==
  /\ phase = "authed"
  /\ announced = TRUE
  /\ phase' = "up"
  /\ UNCHANGED <<announced, armed>>

Drop ==
  /\ phase \in {"opening", "talking", "authed", "up"}
  /\ phase' = "down"
  /\ armed' \in {Redial, FALSE}
  /\ UNCHANGED announced

SessionNext ==
  \/ Dial \/ DialFails \/ Accept \/ Ready
  \/ Authenticate \/ Announce \/ Complete \/ Drop

SessionSpec == SessionInit /\ [][SessionNext]_sessionVars
=============================================================================
