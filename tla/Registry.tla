------------------------------ MODULE Registry ------------------------------
(***************************************************************************)
(* What NickServ and OperServ promise of each nickname, without sessions,  *)
(* tables or statements: a nickname is                                     *)
(*   free        anybody may ask for it, or get it at once,                *)
(*   requested   waiting for an operator,                                  *)
(*   registered  somebody's account,                                       *)
(*   closed      an operator has decided on a request for it, and it is    *)
(*               nobody's account (any more).                              *)
(* One step may move several names: the operator who switches auto-approve *)
(* on grants every request.                                                *)
(***************************************************************************)
CONSTANT Names

VARIABLE status

Statuses == {"free", "requested", "registered", "closed"}

\* A request is granted or ends; it is never forgotten as if not made.  A
\* dropped name is free only if no request for it was ever decided.
Moves ==
  {<<"free", "requested">>, <<"free", "registered">>,
   <<"requested", "registered">>, <<"requested", "closed">>,
   <<"registered", "free">>, <<"registered", "closed">>,
   <<"closed", "registered">>}

RegistryInit == status = [n \in Names |-> "free"]

Decide ==
  /\ status' \in [Names -> Statuses]
  /\ \A n \in Names : status'[n] = status[n] \/ <<status[n], status'[n]>> \in Moves

RegistrySpec == RegistryInit /\ [][Decide]_status
=============================================================================
