------------------------------- MODULE Estate -------------------------------
(***************************************************************************)
(* What ChanServ and OperServ promise of the channels, without access      *)
(* lists, passwords or statements.  A channel is                           *)
(*   free        anybody with an account may have it, or ask for it,       *)
(*   requested   by a name, and waits for an operator,                     *)
(*   owned       by a name - or by no one, once its founder's account is   *)
(*               gone; it is still not free.                               *)
(* A step is about one channel, but for an operator's sweep of the         *)
(* requests and for an account that goes.                                  *)
(***************************************************************************)
CONSTANTS Channels, Names, NoOne

VARIABLE holder          \* the stage of each channel, and who it is for

Free == [stage |-> "free", by |-> NoOne]
Asked(n) == [stage |-> "requested", by |-> n]
Owned(n) == [stage |-> "owned", by |-> n]

EstateInit == holder = [c \in Channels |-> Free]

Becomes(c, h) == holder' = [holder EXCEPT ![c] = h]

Requests == {c \in Channels : holder[c].stage = "requested"}

\* Only a free channel is asked for, or given at once.
Ask(c, n) == holder[c] = Free /\ Becomes(c, Asked(n))
Found(c, n) == holder[c] = Free /\ Becomes(c, Owned(n))

\* Requests are granted to who made them; one may be refused, or lost.
Settle(granted, lost) ==
  holder' = [c \in Channels |->
               IF c \in granted THEN Owned(holder[c].by)
               ELSE IF c \in lost THEN Free
               ELSE holder[c]]

\* An owner gives a channel to a name, or gives it up.
HandOver(c, n) == holder[c].stage = "owned" /\ Becomes(c, Owned(n))
GiveUp(c) == holder[c].stage = "owned" /\ Becomes(c, Free)

\* An account goes: all its channels are left without a founder.
Bereave(n) ==
  holder' = [c \in Channels |->
               IF holder[c] = Owned(n) THEN Owned(NoOne) ELSE holder[c]]

EstateNext ==
  \/ \E c \in Channels, n \in Names : Ask(c, n) \/ Found(c, n) \/ HandOver(c, n)
  \/ \E c \in Channels : GiveUp(c)
  \/ \E granted \in SUBSET Requests :
       \/ Settle(granted, {})
       \/ \E c \in Requests \ granted : Settle(granted, {c})
  \/ \E n \in Names : Bereave(n)

EstateSpec == EstateInit /\ [][EstateNext]_holder
=============================================================================
