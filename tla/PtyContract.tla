----------------------------- MODULE PtyContract -----------------------------
(***************************************************************************)
(* What main may rely on when it asks for a pseudo-terminal, whichever     *)
(* process runs it and however often that process dies: a request is       *)
(* answered once, a terminal that was handed out ends once, and when main  *)
(* is told of the end, what ran in it is gone or has been sent its stop.   *)
(* It is not told that a stopped process is gone: nothing waits for that.  *)
(***************************************************************************)
EXTENDS Naturals

CONSTANT Ptys

VARIABLES
  status,    \* of a terminal, as main sees it
  unstopped  \* a process that main can name runs in it, and nobody stopped it

contractVars == <<status, unstopped>>

Statuses == {"new", "asked", "live", "failed", "ended"}

(* The order a terminal's statuses come in. *)
Follows ==
  {<<"new", "asked">>, <<"asked", "live">>, <<"asked", "failed">>, <<"live", "ended">>}

ContractInit ==
  /\ status = [p \in Ptys |-> "new"]
  /\ unstopped = [p \in Ptys |-> FALSE]

(* Terminals move on; a process starts only for a terminal that was asked   *)
(* for and has not ended, and none is left unstopped when its end is told.  *)
ContractNext ==
  /\ status' \in [Ptys -> Statuses]
  /\ unstopped' \in [Ptys -> BOOLEAN]
  /\ \A p \in Ptys :
       /\ status'[p] = status[p] \/ <<status[p], status'[p]>> \in Follows
       /\ unstopped'[p] /\ ~unstopped[p] => status[p] \in {"asked", "failed"}
       /\ status'[p] = "ended" => ~unstopped'[p]

ContractSpec == ContractInit /\ [][ContractNext]_contractVars
=============================================================================
