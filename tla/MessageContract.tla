--------------------------- MODULE MessageContract ---------------------------
(***************************************************************************)
(* What the sender of a message to a task may rely on, whether an agent    *)
(* runs there or not: the message waits, or one carrier has it; an agent   *)
(* takes it in at most once while the app runs, and never after it was     *)
(* given back; it is settled once, for good.  A carrier takes everything   *)
(* that waits, a clear everything that is not settled.  Two things start a *)
(* message over that an agent may have taken in: a carrier that typed it   *)
(* and does not know that it landed, and a restart of the app.             *)
(***************************************************************************)
EXTENDS Naturals

CONSTANT Messages

VARIABLES status, taken

contractVars == <<status, taken>>

Unsettled == {"waiting", "carried", "read", "stuck"}
Statuses == {"new", "delivered", "failed", "cleared"} \cup Unsettled

(* The messages whose status is one of these. *)
Those(from) == {m \in Messages : status[m] \in from}

Move(M, to) == status' = [m \in Messages |-> IF m \in M THEN to ELSE status[m]]

ContractInit ==
  /\ status = [m \in Messages |-> "new"]
  /\ taken = [m \in Messages |-> 0]

(* A message is held, alone or with all that waits for a carrier. *)
Hold(m) ==
  /\ status[m] = "new" /\ taken' = taken
  /\ Move({m}, "waiting") \/ Move({m} \cup Those({"waiting"}), "carried")

HandOver == taken' = taken /\ Move(Those({"waiting"}), "carried")

(* A carrier gives back what no agent has taken in. *)
GiveBack(M) == M \subseteq Those({"carried"}) /\ taken' = taken /\ Move(M, "waiting")

(* An agent takes M in; what was cleared meanwhile stays so.  The carrier may
   be done with it in the same step, or fail to write that it is. *)
TakeIn(M) ==
  /\ M \subseteq Those({"carried", "cleared"}) /\ \A m \in M : taken[m] = 0
  /\ taken' = [m \in Messages |-> IF m \in M THEN taken[m] + 1 ELSE taken[m]]
  /\ \E to \in {"read", "delivered", "stuck"} : Move(M \cap Those({"carried"}), to)

(* A carrier that does not know whether what it typed landed starts M over: it
   waits, or is handed over at once with all that waits. *)
TakeBack(M) ==
  /\ M \subseteq Those({"read"})
  /\ taken' = [m \in Messages |-> IF m \in M THEN 0 ELSE taken[m]]
  /\ Move(M, "waiting") \/ Move(M \cup Those({"waiting"}), "carried")

(* A carrier is done with M: an agent has taken it in, the record of the launch
   that carried it will replay it, or it failed. *)
Settle(M) ==
  /\ taken' = taken
  /\ M \subseteq Those({"read"}) \/ M \subseteq Those({"carried"})
  /\ \E to \in {"delivered", "failed", "stuck"} : Move(M, to)

Clear == taken' = taken /\ Move(Those(Unsettled), "cleared")

(* The app starts again; what was typed and not recorded is forgotten. *)
StartOver ==
  /\ taken' = [m \in Messages |-> 0]
  /\ Move(Those(Unsettled), "waiting")

ContractNext ==
  \/ \E m \in Messages : Hold(m)
  \/ HandOver
  \/ \E M \in SUBSET Messages : GiveBack(M) \/ TakeIn(M) \/ TakeBack(M) \/ Settle(M)
  \/ Clear
  \/ StartOver

ContractSpec == ContractInit /\ [][ContractNext]_contractVars
=============================================================================
