--------------------- MODULE SessionManager_refinement ----------------------
(***************************************************************************)
(* The session manager implements AgentSlots.  An action is a part of its  *)
(* own, which may end agents and let them wait but never lets one take a   *)
(* slot, and a turn of the promotion loop, which lets at most one take a   *)
(* slot the limit leaves.  Only a direct start takes one by itself.        *)
(***************************************************************************)
EXTENDS SessionManager_proofs

(* The stage of x in the middle of a turn, with the calls c it hands on. *)
MidStage(c, x) ==
  IF c[x] \in InCall \/ row'[x] = "running" THEN "holding"
  ELSE IF row'[x] = "queued" /\ x \notin refused' THEN "waiting"
  ELSE IF row'[x] = "none" /\ c[x] = "none" THEN "new"
  ELSE "ended"

(* The steps of a stage that take no slot. *)
Quietly == Slots!Allowed \ {<<"new", "holding">>, <<"waiting", "holding">>}
Quiet(c) ==
  \A x \in Sessions : MidStage(c, x) = Stage(x) \/ <<Stage(x), MidStage(c, x)>> \in Quietly

(* What SlotNext asks of a step. *)
SlotStep ==
  /\ \A x \in Sessions : Stage(x)' = Stage(x) \/ <<Stage(x), Stage(x)'>> \in Slots!Allowed
  /\ \/ \A x \in Sessions : Stage(x)' = "holding" => Stage(x) = "holding"
     \/ Cardinality({x \in Sessions : Stage(x)' = "holding"}) <= limit'

(* The agents that hold a slot are no more than the limit's count of them. *)
LEMMA HoldersCounted ==
  ASSUME NEW c, NEW r, NEW H \in SUBSET (InCalls(c) \cup Running(r))
  PROVE  /\ Cardinality(H) \in Nat /\ Cardinality(InCalls(c)) \in Nat
         /\ Cardinality(Running(r)) \in Nat
         /\ Cardinality(H) <= Cardinality(InCalls(c)) + Cardinality(Running(r))
<1> DEFINE A == InCalls(c)
           B == Running(r)
<1>1. IsFiniteSet(A) /\ IsFiniteSet(B)
  BY SessionAssumption, FS_Subset DEF InCalls, Running
<1> HIDE DEF A, B
<1>2. /\ IsFiniteSet(A \cup B)
      /\ Cardinality(A \cup B) = Cardinality(A) + Cardinality(B) - Cardinality(A \cap B)
  BY <1>1, FS_Union
<1>3. IsFiniteSet(A \cap B)
  BY <1>1, FS_Subset
<1>4. IsFiniteSet(H) /\ Cardinality(H) <= Cardinality(A \cup B)
  BY <1>2, FS_Subset DEF A, B
<1>5. /\ Cardinality(A) \in Nat /\ Cardinality(B) \in Nat /\ Cardinality(H) \in Nat
      /\ Cardinality(A \cap B) \in Nat
  BY <1>1, <1>3, <1>4, FS_CardinalityType
<1> QED BY <1>2, <1>4, <1>5 DEF A, B

(* An entry of the queue waits. *)
LEMMA QueuedWaits ==
  ASSUME SessionInv, NEW x \in ToSet(queue)
  PROVE  x \in Sessions /\ Stage(x) = "waiting"
<1>1. x \in Sessions
  BY DEF SessionInv, TypeOK, QueueTypeOK, ToSet
<1> QED BY <1>1 DEF SessionInv, QueueInv, Stage, InCall

(* A part that takes no slot and the turn after it are a step of AgentSlots. *)
LEMMA TurnKeepsSlots ==
  ASSUME SessionInv, NEW r, NEW c \in [Sessions -> CallStages], NEW q, NEW n, NEW l,
         Turn(r, c, q, n, l), Quiet(c), ToSet(q) \subseteq ToSet(queue),
         n = Cardinality(InCalls(c)), Running(row') \subseteq Running(r), limit' \in Nat
  PROVE  SlotStep
<1>q. \A x \in Sessions : Stage(x)' = MidStage(call', x)
  BY DEF Stage, MidStage
<1>1. CASE call' = c
  BY <1>1, <1>q DEF Quiet, Quietly, SlotStep, Slots!Allowed
<1>2. CASE call' # c
  <2>1. PICK x \in ToSet(q) : call' = [c EXCEPT ![x] = "shell"] /\ ActiveCount(r, n) < limit'
    BY <1>2 DEF Turn
  <2>2. x \in Sessions /\ Stage(x) = "waiting"
    BY <2>1, QueuedWaits
  <2>3. Stage(x)' = "holding"
    BY <2>1, <2>2, <1>q DEF MidStage, InCall
  <2>4. \A y \in Sessions \ {x} : Stage(y)' = MidStage(c, y)
    BY <2>1, <2>2, <1>q DEF MidStage
  <2>5. \A y \in Sessions : Stage(y)' = Stage(y) \/ <<Stage(y), Stage(y)'>> \in Slots!Allowed
    BY <2>2, <2>3, <2>4 DEF Quiet, Quietly, Slots!Allowed
  <2>6. Cardinality({y \in Sessions : Stage(y)' = "holding"}) <= limit'
    <3> DEFINE H == {y \in Sessions : Stage(y)' = "holding"}
    <3>1. H \ {x} \subseteq InCalls(c) \cup Running(r)
      BY <2>4 DEF MidStage, InCalls, Running
    <3> HIDE DEF H
    <3>2. /\ Cardinality(H \ {x}) \in Nat
          /\ Cardinality(InCalls(c)) \in Nat /\ Cardinality(Running(r)) \in Nat
          /\ Cardinality(H \ {x}) <= Cardinality(InCalls(c)) + Cardinality(Running(r))
      BY <3>1, HoldersCounted
    <3>3. IsFiniteSet(H \ {x}) /\ x \in H /\ H = (H \ {x}) \cup {x}
      BY <2>2, <2>3, SessionAssumption, FS_Subset DEF H
    <3>4. Cardinality(H) = Cardinality(H \ {x}) + 1
      BY <3>3, FS_AddElement
    <3>5. Cardinality(InCalls(c)) + Cardinality(Running(r)) < limit'
      BY <2>1 DEF ActiveCount
    <3>6. Cardinality(H) <= limit'
      BY <3>2, <3>4, <3>5
    <3> QED BY <3>6 DEF H
  <2> QED BY <2>5, <2>6 DEF SlotStep
<1> QED BY <1>1, <1>2

-----------------------------------------------------------------------------
(* What the queue's lemmas need, and the stages the registry can be in. *)
LEMMA SlotFacts ==
  ASSUME SessionInv
  PROVE  /\ QueueTypeOK /\ IsInjective(queue) /\ (loop = Idle => ~dirty)
         /\ call \in [Sessions -> CallStages]
         /\ row \in [Sessions -> {"none", "queued", "running", "exited", "suspended", "removed"}]
         /\ spawning = Cardinality(InCalls(call))
         /\ ToSet(queue) \subseteq Sessions
         /\ \A x : /\ ToSet(Without(queue, x)) \subseteq ToSet(queue)
                   /\ Without(queue, x) \in Seq(Sessions) /\ IsInjective(Without(queue, x))
<1>1. /\ QueueTypeOK /\ IsInjective(queue) /\ (loop = Idle => ~dirty)
      /\ call \in [Sessions -> CallStages] /\ queue \in Seq(Sessions)
      /\ row \in [Sessions -> {"none", "queued", "running", "exited", "suspended", "removed"}]
  BY DEF SessionInv, TypeOK, RowTypeOK, QueueTypeOK, QueueInv, CallInv
<1>2. spawning = Cardinality(InCalls(call))
  BY DEF SessionInv, SlotAccounting, InCalls
<1>3. \A x : /\ ToSet(Without(queue, x)) \subseteq ToSet(queue)
             /\ Without(queue, x) \in Seq(Sessions) /\ IsInjective(Without(queue, x))
  BY <1>1, WithoutElements
<1>4. ToSet(queue) \subseteq Sessions
  BY <1>1 DEF ToSet
<1> QED BY <1>1, <1>2, <1>3, <1>4

(* A step that leaves rows, calls and refusals alone lets the queue take its
   turn, and no agent ends. *)
LEMMA StillQuiet ==
  ASSUME row' = row, refused' = refused
  PROVE  Quiet(call) /\ Running(row') \subseteq Running(row)
  BY DEF Quiet, MidStage, Stage, InCall

(* A spawn's return is quiet when its agent ends, or goes on as a running row,
   and every other row is kept or ends. *)
LEMMA ReturnKeepsSlots ==
  ASSUME SessionInv, limit' \in Nat, NEW s \in Sessions, NEW to \in {"done", "abandoned"},
         call[s] \in InCall, SpawnReturns(s, row', [call EXCEPT ![s] = to]),
         row'[s] = "queued" => s \in refused',
         \A x \in Sessions \ {s} :
           \/ row'[x] = row[x] /\ (x \in refused' <=> x \in refused)
           \/ row'[x] \in {"exited", "removed"} /\ row[x] # "none"
  PROVE  SlotStep
<1> DEFINE c == [call EXCEPT ![s] = to]
<1>1. Turn(row', c, queue, spawning - 1, IF loop = s THEN Idle ELSE loop)
  BY SlotFacts, SpawnReturnsIsTurn
<1>2. spawning - 1 = Cardinality(InCalls(c))
  BY SlotFacts, OneLessCall
<1>3. c \in [Sessions -> CallStages] /\ c[s] \notin InCall /\ c[s] # "none"
  BY SlotFacts DEF CallStages, InCall
<1>4. Quiet(c)
  <2> SUFFICES ASSUME NEW x \in Sessions
               PROVE  MidStage(c, x) = Stage(x) \/ <<Stage(x), MidStage(c, x)>> \in Quietly
    BY DEF Quiet
  <2>1. CASE x = s
    BY <1>3, <2>1 DEF MidStage, Stage, Quietly, Slots!Allowed
  <2>2. CASE x # s
    BY <2>2 DEF MidStage, Stage, Quietly, Slots!Allowed
  <2> QED BY <2>1, <2>2
<1> HIDE DEF c
<1> QED BY <1>1, <1>2, <1>3, <1>4, TurnKeepsSlots

(* A direct start takes a slot only below the limit; a start that waits takes
   none. *)
LEMMA SpawnSlots ==
  ASSUME SessionInv, limit' \in Nat, NEW s \in Sessions, Spawn(s)
  PROVE  SlotStep
<1>0. /\ row[s] = "none" /\ call[s] = "none" /\ refused' = refused /\ limit' = limit
      /\ call \in [Sessions -> CallStages] /\ s \notin refused
      /\ row \in [Sessions -> {"none", "queued", "running", "exited", "suspended", "removed"}]
  BY SlotFacts DEF Spawn, SessionInv, CallInv
<1>1. CASE ShouldQueue(s)
  <2>1. row' = [row EXCEPT ![s] = "queued"] /\ call' = call
    BY <1>1 DEF Spawn
  <2> QED BY <1>0, <2>1 DEF SlotStep, Stage, InCall, Slots!Allowed
<1>2. CASE ~ShouldQueue(s)
  <2>1. row' = row /\ call' = [call EXCEPT ![s] = "shell"]
    BY <1>2 DEF Spawn
  <2>2. \A x \in Sessions : Stage(x)' = IF x = s THEN "holding" ELSE Stage(x)
    BY <1>0, <2>1 DEF Stage, InCall
  <2>3. Stage(s) = "new"
    BY <1>0 DEF Stage, InCall
  <2> DEFINE H == {y \in Sessions : Stage(y)' = "holding"}
  <2>4. H \subseteq InCalls(call') \cup Running(row)
    BY <2>1 DEF Stage, InCalls, Running
  <2>5. Cardinality(InCalls(call')) = spawning + 1
    BY <1>0, <2>1, SlotFacts, OneMoreCall DEF InCall
  <2>6. ~(ActiveCount(row, spawning) >= limit')
    BY <1>0, <1>2 DEF ShouldQueue
  <2> HIDE DEF H
  <2>7. /\ Cardinality(H) \in Nat /\ Cardinality(Running(row)) \in Nat
        /\ Cardinality(H) <= Cardinality(InCalls(call')) + Cardinality(Running(row))
    BY <2>4, HoldersCounted
  <2>8. spawning \in Nat
    BY SlotFacts DEF QueueTypeOK
  <2>9. Cardinality(H) <= limit'
    BY <2>5, <2>6, <2>7, <2>8 DEF ActiveCount
  <2> QED BY <2>2, <2>3, <2>9 DEF SlotStep, Slots!Allowed, H
<1> QED BY <1>1, <1>2

(* A start that is refused ends its agent: a promotion's row waits for its
   pause among the refused. *)
LEMMA RefuseStartSlots ==
  ASSUME SessionInv, limit' \in Nat, NEW s \in Sessions, RefuseStart(s)
  PROVE  SlotStep
<1>1. /\ call[s] \in InCall /\ SpawnReturns(s, row', [call EXCEPT ![s] = "done"])
      /\ refused' \ {s} = refused \ {s}
  BY DEF RefuseStart, InCall
<1>2. row'[s] = "queued" => s \in refused'
  <2>1. row[s] = "queued" => loop = s
    BY <1>1 DEF SessionInv, CallInv
  <2> QED BY <2>1 DEF RefuseStart
<1>3. \A x \in Sessions \ {s} : row'[x] = row[x] \/ (row'[x] = "removed" /\ row[x] = "exited")
  BY DEF RefuseStart
<1> QED BY <1>1, <1>2, <1>3, ReturnKeepsSlots

(* A row abandoned by a cancelled spawn does not read queued any more. *)
LEMMA AbandonedRowSettled ==
  ASSUME SessionInv, NEW s \in Sessions
  PROVE  /\ AbandonedRow(s)[s] # "queued"
         /\ \A x \in Sessions \ {s} : AbandonedRow(s)[x] = row[x]
  BY SlotFacts DEF AbandonedRow

(* A step that lets no agent take a slot, the queue included. *)
LEMMA QuietKeepsSlots ==
  ASSUME Quiet(call')
  PROVE  SlotStep
  BY DEF Quiet, Quietly, MidStage, Stage, SlotStep, Slots!Allowed

(* A spawn goes on from one await to the next and keeps its slot, or returns
   cancelled and gives it back. *)
LEMMA ShellResolvedSlots ==
  ASSUME SessionInv, limit' \in Nat, NEW s \in Sessions, ShellResolved(s)
  PROVE  SlotStep
<1>1. call[s] \in InCall /\ refused' = refused
  BY DEF ShellResolved, InCall
<1>2. CASE cancelled[s]
  BY <1>1, <1>2, AbandonedRowSettled, ReturnKeepsSlots DEF ShellResolved
<1>3. CASE ~cancelled[s]
  <2>1. row' = row /\ call' = [call EXCEPT ![s] = "files"]
    BY <1>3 DEF ShellResolved, QueueAside
  <2>2. Quiet(call')
    BY <1>1, <2>1, SlotFacts DEF Quiet, MidStage, Stage, InCall
  <2> QED BY <2>2, QuietKeepsSlots
<1> QED BY <1>2, <1>3

(* The same at the wait for the status files. *)
LEMMA FilesReadySlots ==
  ASSUME SessionInv, limit' \in Nat, NEW s \in Sessions, FilesReady(s)
  PROVE  SlotStep
<1>1. call[s] \in InCall /\ refused' = refused
  BY DEF FilesReady, InCall
<1>2. CASE cancelled[s]
  BY <1>1, <1>2, AbandonedRowSettled, ReturnKeepsSlots DEF FilesReady
<1>3. CASE ~cancelled[s]
  <2>1. row' = row /\ call' = [call EXCEPT ![s] = "host"]
    BY <1>3 DEF FilesReady, QueueAside
  <2>2. Quiet(call')
    BY <1>1, <2>1, SlotFacts DEF Quiet, MidStage, Stage, InCall
  <2> QED BY <2>2, QuietKeepsSlots
<1> QED BY <1>2, <1>3

(* The host's answer: the agent keeps the slot it holds as a running row, and
   the rows it replaces end. *)
LEMMA HostAnswersSlots ==
  ASSUME SessionInv, limit' \in Nat, NEW s \in Sessions, HostAnswers(s)
  PROVE  SlotStep
<1>1. call[s] = "host" /\ call[s] \in InCall /\ refused' = refused
  BY DEF HostAnswers, InCall
<1>2. CASE cancelled[s]
  <2>1. row' = AbandonedRow(s) /\ SpawnReturns(s, row', [call EXCEPT ![s] = "abandoned"])
    BY <1>2 DEF HostAnswers, Overtaken
  <2> QED BY <1>1, <2>1, AbandonedRowSettled, ReturnKeepsSlots
<1>3. CASE ~cancelled[s] /\ quitting
  <2>1. row' = row /\ SpawnReturns(s, row', [call EXCEPT ![s] = "done"])
    BY <1>3 DEF HostAnswers, Overtaken
  <2>2. row[s] # "queued"
    BY <1>3 DEF SessionInv, QuitLeavesNoAgent, IsLive
  <2> QED BY <1>1, <2>1, <2>2, ReturnKeepsSlots
<1>4. CASE ~Overtaken(s)
  <2>1. row' = Registered(s, "running") /\ SpawnReturns(s, row', [call EXCEPT ![s] = "done"])
    BY <1>4 DEF HostAnswers, Overtaken
  <2>2. \A x \in siblings[s] : row[x] # "none"
    BY DEF SessionInv, ProcInv
  <2> QED BY <1>1, <2>1, <2>2, ReturnKeepsSlots DEF Registered
<1> QED BY <1>2, <1>3, <1>4 DEF Overtaken

(* A host that fails ends the agent that waited on it. *)
LEMMA HostFailsSlots ==
  ASSUME SessionInv, limit' \in Nat, NEW s \in Sessions, HostFails(s)
  PROVE  SlotStep
<1>1. /\ call[s] \in InCall /\ refused' = refused
      /\ SpawnReturns(s, row', [call EXCEPT ![s] = "done"])
  BY DEF HostFails, InCall
<1>2. CASE cancelled[s]
  BY <1>1, <1>2, AbandonedRowSettled, ReturnKeepsSlots DEF HostFails
<1>3. CASE ~cancelled[s]
  <2>1. row' = Registered(s, "exited")
    BY <1>3 DEF HostFails
  <2>2. \A x \in siblings[s] : row[x] # "none"
    BY DEF SessionInv, ProcInv
  <2> QED BY <1>1, <2>1, <2>2, ReturnKeepsSlots DEF Registered
<1> QED BY <1>2, <1>3

-----------------------------------------------------------------------------
(* A notification after a quiet part: the agents of row' and the calls as they
   are, with a queue that is no longer than it was. *)
LEMMA NotifyKeepsSlots ==
  ASSUME SessionInv, limit' \in Nat, NEW r, NEW q \in Seq(Sessions), IsInjective(q),
         NotifySlotFreed(r, call, q, spawning), Quiet(call),
         ToSet(q) \subseteq ToSet(queue), Running(row') \subseteq Running(r)
  PROVE  SlotStep
<1>1. Turn(r, call, q, spawning, loop)
  BY NotifyIsTurn
<1>2. spawning = Cardinality(InCalls(call)) /\ call \in [Sessions -> CallStages]
  BY SlotFacts
<1> QED BY <1>1, <1>2, TurnKeepsSlots

(* A notification that follows no change of a row. *)
LEMMA DrainKeepsSlots ==
  ASSUME SessionInv, limit' \in Nat, row' = row, refused' = refused,
         QueueAside(call) \/ NotifySlotFreed(row', call, queue, spawning)
  PROVE  SlotStep
<1>1. Quiet(call) /\ Running(row') \subseteq Running(row)
  BY StillQuiet
<1>2. CASE QueueAside(call)
  <2>1. call' = call
    BY <1>2 DEF QueueAside
  <2> QED BY <1>1, <2>1, QuietKeepsSlots
<1>3. CASE NotifySlotFreed(row', call, queue, spawning)
  BY <1>1, <1>3, SlotFacts, NotifyKeepsSlots DEF QueueTypeOK
<1> QED BY <1>2, <1>3

(* An exit ends its agent, unless a spawn of the same session is under way. *)
LEMMA PtyExitSlots ==
  ASSUME SessionInv, limit' \in Nat, NEW s \in Sessions, PtyExit(s)
  PROVE  SlotStep
<1>1. CASE call[s] = "abandoned"
  <2>1. row' = row /\ refused' = refused /\ call' = [call EXCEPT ![s] = "done"]
    BY <1>1 DEF PtyExit, QueueAside
  <2>2. Quiet(call')
    BY <1>1, <2>1, SlotFacts DEF Quiet, MidStage, Stage, InCall
  <2> QED BY <2>2, QuietKeepsSlots
<1>2. CASE call[s] # "abandoned" /\ quitting
  BY <1>2, DrainKeepsSlots DEF PtyExit
<1>3. CASE call[s] # "abandoned" /\ ~quitting
  <2>1. /\ NotifySlotFreed(row', call, queue, spawning) /\ refused' = refused
        /\ row' = IF row[s] = "running" THEN [row EXCEPT ![s] = "exited"] ELSE row
    BY <1>3 DEF PtyExit
  <2>2. Quiet(call)
    BY <2>1, SlotFacts DEF Quiet, Quietly, MidStage, Stage, Slots!Allowed
  <2> QED BY <2>1, <2>2, SlotFacts, NotifyKeepsSlots DEF QueueTypeOK
<1> QED BY <1>1, <1>2, <1>3

(* A kill ends a waiting agent and leaves the others to their exits. *)
LEMMA KillSlots ==
  ASSUME SessionInv, limit' \in Nat, NEW s \in Sessions, Kill(s)
  PROVE  SlotStep
<1>1. /\ row' = KilledRow(s) /\ refused' = refused
      /\ NotifySlotFreed(row', call, Without(queue, s), spawning)
  BY DEF Kill
<1>2. InQueue(s) => row[s] = "queued"
  BY DEF SessionInv, QueueInv, InQueue
<1>3. Quiet(call)
  BY <1>1, <1>2, SlotFacts DEF KilledRow, Quiet, Quietly, MidStage, Stage, Slots!Allowed
<1> QED BY <1>1, <1>3, SlotFacts, NotifyKeepsSlots

(* A removal ends its agent; the notification it is part of still counts it. *)
LEMMA RemoveSessionSlots ==
  ASSUME SessionInv, limit' \in Nat, NEW s \in Sessions, RemoveSession(s)
  PROVE  SlotStep
<1>1. /\ row' = [row EXCEPT ![s] = "removed"] /\ refused' = refused
      /\ row[s] # "none"
      /\ NotifySlotFreed(KilledRow(s), call, Without(queue, s), spawning)
  BY DEF RemoveSession
<1>2. Quiet(call)
  BY <1>1, SlotFacts DEF Quiet, Quietly, MidStage, Stage, Slots!Allowed
<1>3. Running(row') \subseteq Running(KilledRow(s))
  BY <1>1, SlotFacts DEF Running, KilledRow
<1> QED BY <1>1, <1>2, <1>3, SlotFacts, NotifyKeepsSlots

-----------------------------------------------------------------------------
(* The first turn of a suspend ends its agent, or leaves the slot to the spawn
   it cancels. *)
LEMMA BeginSuspendSlots ==
  ASSUME SessionInv, NEW s \in Sessions, NEW b, BeginSuspend(s, b), row[s] # "none",
         \A x \in Sessions \ {s} : x \in refused' <=> x \in refused,
         row[s] # "removed"
  PROVE  SlotStep
<1>1. row' = [row EXCEPT ![s] = "suspended"] /\ call' = call
  BY DEF BeginSuspend, queueVars
<1>2. Quiet(call')
  BY <1>1, SlotFacts DEF Quiet, Quietly, MidStage, Stage, Slots!Allowed
<1> QED BY <1>2, QuietKeepsSlots

(* A pause, and the pause of a refused promotion. *)
LEMMA SuspendSlots ==
  ASSUME SessionInv, NEW s \in Sessions, Suspend(s) \/ PauseRefused(s)
  PROVE  SlotStep
<1>1. CASE Suspend(s)
  <2>1. refused' = refused /\ IsLive(row[s]) /\ \E b \in BOOLEAN : BeginSuspend(s, b)
    BY <1>1 DEF Suspend
  <2> QED BY <2>1, BeginSuspendSlots DEF IsLive
<1>2. CASE PauseRefused(s)
  <2>1. refused' = refused \ {s} /\ s \in refused /\ call[s] = "done"
    BY <1>2 DEF PauseRefused, SessionInv, CallInv
  <2>2. CASE row[s] = "queued" /\ BeginSuspend(s, FALSE)
    BY <2>1, <2>2, BeginSuspendSlots
  <2>3. CASE /\ row' = IF row[s] = "queued" THEN [row EXCEPT ![s] = "exited"] ELSE row
             /\ call' = call
    <3>1. Quiet(call')
      BY <2>1, <2>3, SlotFacts DEF Quiet, MidStage, Stage, InCall
    <3> QED BY <3>1, QuietKeepsSlots
  <2> QED BY <1>2, <2>2, <2>3 DEF PauseRefused
<1> QED BY <1>1, <1>2

(* The rest of a suspend: its last step takes the queue on. *)
LEMMA SuspendStepSlots ==
  ASSUME SessionInv, limit' \in Nat, NEW s \in Sessions, SuspendStep(s)
  PROVE  SlotStep
<1>1. CASE SuspendFinishes(s)
  <2>1. /\ row' = row /\ refused' = refused
        /\ NotifySlotFreed(row, call, Without(queue, s), spawning)
    BY <1>1 DEF SuspendFinishes
  <2> QED BY <2>1, StillQuiet, SlotFacts, NotifyKeepsSlots
<1>2. CASE SuspendKills(s) \/ SuspendSeesExit(s) \/ SuspendSettles(s)
  <2>1. row' = row /\ refused' = refused /\ call' = call
    BY <1>2 DEF SuspendKills, SuspendSeesExit, SuspendSettles, spawnVars
  <2> QED BY <2>1, StillQuiet, QuietKeepsSlots
<1> QED BY <1>1, <1>2 DEF SuspendStep

(* What the board, the limits and the releases do reaches the agents through
   the queue alone, and the quit ends them all. *)
LEMMA BoardSlots ==
  ASSUME SessionInv, limit' \in Nat,
         \/ \E t \in Tasks : CancelTaskSpawns(t) \/ ReleaseColumnSlot(t)
         \/ \E n \in Limits : SetMaxConcurrent(n)
         \/ \E t \in Tasks, c \in Columns : MoveTask(t, c)
         \/ \E c \in Columns, n \in ColumnLimits : SetColumnLimit(c, n)
         \/ DrainQueue
         \/ KillAll
  PROVE  SlotStep
<1>1. CASE \E t \in Tasks : ReleaseColumnSlot(t)
  BY <1>1, DrainKeepsSlots DEF ReleaseColumnSlot
<1>2. CASE \E n \in Limits : SetMaxConcurrent(n)
  BY <1>2, DrainKeepsSlots DEF SetMaxConcurrent
<1>3. CASE DrainQueue
  BY <1>3, DrainKeepsSlots DEF DrainQueue
<1>4. CASE row' = row /\ refused' = refused /\ call' = call
  BY <1>4, StillQuiet, QuietKeepsSlots
<1>5. CASE \E t \in Tasks : CancelTaskSpawns(t)
  BY <1>4, <1>5 DEF CancelTaskSpawns
<1>6. CASE \E t \in Tasks, c \in Columns : MoveTask(t, c)
  BY <1>4, <1>6 DEF MoveTask, spawnVars
<1>7. CASE \E c \in Columns, n \in ColumnLimits : SetColumnLimit(c, n)
  BY <1>4, <1>7 DEF SetColumnLimit, spawnVars
<1>8. CASE KillAll
  <2>1. /\ row' = [x \in Sessions |-> IF row[x] = "none" THEN "none" ELSE "removed"]
        /\ call' = call /\ refused' = refused
    BY <1>8 DEF KillAll, spawnVars
  <2>2. Quiet(call')
    BY <2>1 DEF Quiet, Quietly, MidStage, Stage, Slots!Allowed
  <2> QED BY <2>2, QuietKeepsSlots
<1> QED BY <1>1, <1>2, <1>3, <1>5, <1>6, <1>7, <1>8

(* Every step of the session manager is a step of AgentSlots. *)
LEMMA NextKeepsSlots ==
  ASSUME SessionInv, limit' \in Nat, Next
  PROVE  SlotStep
<1>1. CASE \E s \in Sessions :
             \/ Spawn(s) \/ RefuseStart(s) \/ SpawnStep(s) \/ PtyExit(s) \/ Kill(s)
             \/ RemoveSession(s) \/ Suspend(s) \/ SuspendStep(s) \/ PauseRefused(s)
  <2>1. PICK s \in Sessions :
             \/ Spawn(s) \/ RefuseStart(s) \/ SpawnStep(s) \/ PtyExit(s) \/ Kill(s)
             \/ RemoveSession(s) \/ Suspend(s) \/ SuspendStep(s) \/ PauseRefused(s)
    BY <1>1
  <2>2. CASE Spawn(s) \/ RefuseStart(s)
    BY <2>2, SpawnSlots, RefuseStartSlots
  <2>3. CASE SpawnStep(s)
    BY <2>3, ShellResolvedSlots, FilesReadySlots, HostAnswersSlots, HostFailsSlots DEF SpawnStep
  <2>4. CASE PtyExit(s) \/ Kill(s) \/ RemoveSession(s)
    BY <2>4, PtyExitSlots, KillSlots, RemoveSessionSlots
  <2>5. CASE Suspend(s) \/ SuspendStep(s) \/ PauseRefused(s)
    BY <2>5, SuspendSlots, SuspendStepSlots
  <2> QED BY <2>1, <2>2, <2>3, <2>4, <2>5
<1> QED BY <1>1, BoardSlots DEF Next

-----------------------------------------------------------------------------
(* An empty registry is a state AgentSlots starts in. *)
LEMMA InitRefines == Init => Slots!SlotInit
<1> SUFFICES ASSUME Init PROVE Slots!SlotInit
  OBVIOUS
<1>1. \A s \in Sessions : Stage(s) = "new"
  BY DEF Init, Stage, InCall
<1>2. limit \in Limits
  BY DEF Init
<1> QED BY <1>1, <1>2 DEF Slots!SlotInit

(* Every step maps to a step of AgentSlots, and a stutter to a stutter. *)
LEMMA NextRefines ==
  ASSUME SessionInv, SessionInv', [Next]_vars
  PROVE  [Slots!SlotNext]_(Slots!slotVars)
<1>1. CASE UNCHANGED vars
  <2>1. UNCHANGED <<row, call, refused, limit>>
    BY <1>1 DEF vars, spawnVars, queueVars
  <2>2. UNCHANGED Slots!slotVars
    BY <2>1 DEF Slots!slotVars, Stage
  <2> QED BY <2>2
<1>2. CASE Next
  <2>1. limit' \in Limits /\ limit' \in Nat
    BY SessionAssumption DEF SessionInv, TypeOK, BoardTypeOK
  <2>2. SlotStep
    BY <1>2, <2>1, NextKeepsSlots
  <2> DEFINE a == [s \in Sessions |-> Stage(s)]
             b == a'
  <2>3. b \in [Sessions -> Slots!Stages]
    BY DEF Stage, Slots!Stages
  <2>4. \A s \in Sessions : b[s] = a[s] \/ <<a[s], b[s]>> \in Slots!Allowed
    BY <2>2 DEF SlotStep
  <2>5. Slots!Holding(b) \subseteq Slots!Holding(a) \/ Cardinality(Slots!Holding(b)) <= limit'
    <3>1. Slots!Holding(b) = {x \in Sessions : Stage(x)' = "holding"}
      BY DEF Slots!Holding
    <3>2. Slots!Holding(a) = {x \in Sessions : Stage(x) = "holding"}
      BY DEF Slots!Holding
    <3> HIDE DEF a, b
    <3> QED BY <2>2, <3>1, <3>2 DEF SlotStep
  <2>6. \A S : Slots!Cardinality(S) = Cardinality(S)
    BY DEF Slots!Cardinality, Cardinality
  <2>7. Slots!SlotNext
    BY <2>1, <2>3, <2>4, <2>5, <2>6 DEF Slots!SlotNext
  <2> QED BY <2>7
<1> QED BY <1>1, <1>2

(* The session manager implements AgentSlots, for any sessions, tasks, columns
   and limits: an agent's stages come in order, and none takes a slot that the
   limit of that moment does not leave. *)
THEOREM SlotsRefined ==
  ASSUME ~PausesQueued
  PROVE  Spec => SlotsKept
<1>1. Init => Slots!SlotInit
  BY InitRefines
<1>2. SessionInv /\ SessionInv' /\ [Next]_vars => [Slots!SlotNext]_(Slots!slotVars)
  BY NextRefines
<1> QED BY <1>1, <1>2, SessionsSafe, PTL DEF Spec, SlotsKept, Slots!SlotSpec
=============================================================================
