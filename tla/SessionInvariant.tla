-------------------------- MODULE SessionInvariant --------------------------
(***************************************************************************)
(* Why the session manager is safe: the invariant its steps preserve, in   *)
(* parts.  The safety properties of SessionManager follow from it, and     *)
(* SessionManager_proofs proves both.                                      *)
(***************************************************************************)
EXTENDS SessionManager

(* What waits in the queue has never been started, and waits once. *)
QueueInv ==
  /\ IsInjective(queue)
  /\ \A s \in ToSet(queue) : row[s] = "queued" /\ call[s] = "none" /\ s \notin refused

(* A spawn under way knows which row it will meet: a direct spawn none, the
   loop's promotion its own placeholder, unless a teardown took that over. *)
CallInv ==
  /\ \A s \in refused : call[s] = "done"
  /\ \A s \in Sessions : call[s] \in InCall =>
       /\ loop # s => row[s] = "none"
       /\ loop = s => row[s] # "none"
       /\ (loop = s /\ ~cancelled[s] /\ ~quitting) => row[s] = "queued"
  /\ \A s \in Sessions : row[s] = "queued" => InQueue(s) \/ loop = s \/ s \in refused
  /\ loop # Idle => call[loop] \in InCall
  /\ loop = Idle => ~dirty

(* The task's session: it has a live row, or a spawn nothing has cancelled. *)
Claims(s) == IsLive(row[s]) \/ (call[s] \in InCall /\ ~cancelled[s])

AloneInv ==
  \A s, x \in Sessions : (s # x /\ TaskOf[s] = TaskOf[x] /\ Claims(s)) => ~Claims(x)

(* A PTY exists only after its spawn's answer, and the rows a spawn is to
   replace have none running. *)
ProcInv ==
  /\ \A s \in Sessions : call[s] \in InCall \cup {"none"} => proc[s] = "none"
  /\ \A s \in Sessions : handle[s] => proc[s] # "none"
  /\ NoOrphanPty
  /\ \A s \in Sessions : siblings[s] \subseteq {x \in SessionsOf(TaskOf[s]) : row[x] # "none"}
  /\ \A s \in Sessions :
       (call[s] \in {"files", "host"} /\ ~cancelled[s] /\ ~quitting) =>
          \A x \in siblings[s] : proc[x] # "live"

(* A suspend has its session's row, and waits for a PTY that was there. *)
SuspInv ==
  \A s \in Sessions :
    /\ susp[s] # "none" => row[s] \notin {"none", "queued"}
    /\ susp[s] = "exit" => proc[s] # "none"

(* The inductive invariant: what the registry, the queue and the spawns under
   way agree on between any two turns of main. *)
SessionInv ==
  /\ TypeOK
  /\ SlotAccounting
  /\ QueueInv
  /\ CallInv
  /\ AloneInv
  /\ ProcInv
  /\ SuspInv
  /\ QuitLeavesNoAgent

-----------------------------------------------------------------------------
(* What holds even where a queued session is paused: the queue, the spawns and
   the rows agree, although a session in the queue may have been paused and the
   loop may promote one that was.  Each spawn under way is the loop's exactly
   when its session has a row. *)
QueueCore ==
  /\ IsInjective(queue)
  /\ \A s \in ToSet(queue) : row[s] # "none" /\ call[s] = "none"

CallCore ==
  /\ \A s \in refused : call[s] = "done"
  /\ \A s \in Sessions : call[s] \in InCall => (loop = s <=> row[s] # "none")
  /\ \A s \in Sessions : row[s] = "queued" => InQueue(s) \/ loop = s \/ s \in refused
  /\ LoopAwaitsASpawn

RowCore ==
  /\ \A s \in Sessions : susp[s] # "none" => row[s] \notin {"none", "queued"}
  /\ \A s \in Sessions : \A x \in siblings[s] : row[x] # "none"
  /\ quitting => queue = <<>> /\ \A s \in Sessions : ~IsLive(row[s])

CoreInv == TypeOK /\ SlotAccounting /\ QueueCore /\ CallCore /\ RowCore
=============================================================================
