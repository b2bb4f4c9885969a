------------------------------- MODULE Roster -------------------------------
(***************************************************************************)
(* What BotServ promises of the bots the services present, without         *)
(* channels, lines or links: a bot has a row or has none, and one with a   *)
(* row may be present, as a user of its own under a nickname.  A uid is    *)
(* given once in a life of the daemon, and a bot keeps its uid for as long *)
(* as it is present.                                                       *)
(***************************************************************************)
CONSTANTS BotNames, Nicks, Uids

VARIABLES
  rows,                  \* the bots that are defined
  present,               \* bot -> uid and nickname
  given                  \* uids given in this life

Nobody == [b \in {} |-> b]

RosterInit == rows = {} /\ present = Nobody /\ given = {}

\* Who is left of the bots present.
Only(S) == present' = [b \in S |-> present[b]]

Define(b) == rows' = rows \cup {b} /\ UNCHANGED <<present, given>>

\* BOT DEL takes the bot away with its row.
Remove(b) == rows' = rows \ {b} /\ Only(DOMAIN present \ {b}) /\ UNCHANGED given

\* Bots with rows come, all of them with new uids, and nobody else changes.
Come(S) ==
  /\ S \subseteq rows \ DOMAIN present
  /\ DOMAIN present' = DOMAIN present \cup S
  /\ \A b \in DOMAIN present : present'[b] = present[b]
  /\ \A b \in S : /\ present'[b].uid \in Uids \ given
                  /\ present'[b].nick \in Nicks
  /\ \A a, b \in S : present'[a].uid = present'[b].uid => a = b
  /\ given' = given \cup {present'[b].uid : b \in S}
  /\ UNCHANGED rows

Go(b) == Only(DOMAIN present \ {b}) /\ UNCHANGED <<rows, given>>

Rename(b, n) ==
  /\ b \in DOMAIN present
  /\ present' = [present EXCEPT ![b].nick = n]
  /\ UNCHANGED <<rows, given>>

\* The daemon's death: the rows are all that lasts.
Restart == present' = Nobody /\ given' = {} /\ UNCHANGED rows

RosterNext ==
  \/ \E b \in BotNames : Define(b) \/ Remove(b) \/ Go(b)
  \/ \E b \in BotNames, n \in Nicks : Rename(b, n)
  \/ \E S \in SUBSET BotNames : Come(S)
  \/ Restart

RosterSpec == RosterInit /\ [][RosterNext]_<<rows, present, given>>
=============================================================================
