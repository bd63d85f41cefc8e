----------------------------- MODULE AgentSlots -----------------------------
(***************************************************************************)
(* What the session manager promises about agent slots, with everything    *)
(* that can go wrong on the way left out.  An agent is new, may wait, may  *)
(* hold a slot, and ends for good; and no agent ever takes a slot that the *)
(* limit of that moment does not allow.                                    *)
(***************************************************************************)
EXTENDS Naturals, FiniteSets

CONSTANTS Agents, Limits

VARIABLES agent, limit

slotVars == <<agent, limit>>

Stages == {"new", "waiting", "holding", "ended"}

Holding(a) == {s \in Agents : a[s] = "holding"}

(* The order an agent's stages come in. *)
Allowed ==
  {<<"new", "waiting">>, <<"new", "holding">>, <<"new", "ended">>,
   <<"waiting", "holding">>, <<"waiting", "ended">>, <<"holding", "ended">>}

SlotInit == agent = [s \in Agents |-> "new"] /\ limit \in Limits

(* One turn: agents end, arrive, and take the slots the limit leaves. *)
SlotNext ==
  /\ agent' \in [Agents -> Stages]
  /\ limit' \in Limits
  /\ \A s \in Agents : agent'[s] = agent[s] \/ <<agent[s], agent'[s]>> \in Allowed
  /\ Holding(agent') \subseteq Holding(agent) \/ Cardinality(Holding(agent')) <= limit'

SlotSpec == SlotInit /\ [][SlotNext]_slotVars
=============================================================================
