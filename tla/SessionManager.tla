--------------------------- MODULE SessionManager ---------------------------
(***************************************************************************)
(* Agent sessions and the slots they run in: the registry rows, the spawn  *)
(* pipeline, the queue with its single promotion loop, and the teardowns   *)
(* that can overtake any of them (pty/session-manager.ts,                  *)
(* pty/session-queue.ts, pty/lifecycle/session-spawn-flow.ts).             *)
(*                                                                         *)
(* Main is one thread: an action runs from one await to the next, with     *)
(* every synchronous call in between, the drain of the queue included.     *)
(* The microtask hops between an answer and the finally blocks waiting on  *)
(* it belong to the same turn and to the same action.                      *)
(***************************************************************************)
EXTENDS Naturals, Sequences, FiniteSets, SequencesExt

CONSTANTS
  Sessions,        \* session ids; each is minted once
  Tasks,           \* tasks, Command Terminals included
  TaskOf,          \* the task of each session
  Columns,         \* board columns
  Exempt,          \* tasks that belong to no column
  NoLimit,         \* the limit of a column that has none
  StartColumn,     \* the column each task is in at first
  Limits,          \* values the concurrency setting can take
  ColumnLimits,    \* values a column's agent limit can take
  MaxMoves,        \* bound: how many times a task changes column
  PausesQueued,    \* TRUE: a session can be paused while it is queued
  Idle             \* no promotion is in progress

ASSUME SessionAssumption ==
  /\ TaskOf \in [Sessions -> Tasks]
  /\ StartColumn \in [Tasks -> Columns]
  /\ Limits \subseteq Nat
  /\ ColumnLimits \subseteq Nat \cup {NoLimit}
  /\ NoLimit \in ColumnLimits /\ NoLimit \notin Nat
  /\ Exempt \subseteq Tasks
  /\ MaxMoves \in Nat
  /\ PausesQueued \in BOOLEAN
  /\ Idle \notin Sessions
  /\ IsFiniteSet(Sessions)

Gate == INSTANCE ColumnCapacity

VARIABLES
  row,        \* the registry row's status; "none" before, "removed" after
  handle,     \* the row holds its PTY (session.pty)
  proc,       \* the PTY's process in the host
  call,       \* how far the session's doSpawn has come
  cancelled,  \* InFlightSpawn.cancelled
  siblings,   \* the rows its spawn drained, to be deleted when it registers
  refused,    \* promotions refused at their start, not yet settled
  susp,       \* how far the session's suspend() has come
  queue,      \* SessionQueue.queue
  loop,       \* the session processQueue awaits, or Idle (_processing)
  dirty,      \* SessionQueue._dirty
  spawning,   \* spawningCount
  limit,      \* SessionQueue.maxConcurrent
  column, maxAgents, entered, moves,  \* the board, as the gate reads it
  kept,       \* tasks whose slot a restart is keeping (columnSlotHolds)
  drainDue,   \* a board change whose drainQueue() is still to come
  quitting    \* isShuttingDown()

spawnVars == <<call, cancelled, siblings, refused>>
queueVars == <<queue, loop, dirty, spawning>>
boardVars == <<column, maxAgents, entered, moves>>
vars == <<row, handle, proc, spawnVars, susp, queueVars, limit, boardVars,
          kept, drainDue, quitting>>

-----------------------------------------------------------------------------
InCall == {"shell", "files", "host"}
CallStages == InCall \cup {"none", "abandoned", "done"}
IsLive(status) == status \in {"running", "queued"}
SessionsOf(t) == {s \in Sessions : TaskOf[s] = t}

(* Mutant: a spawn stops being tracked once it waits on the host. *)
MutantTracked(c, s) == c[s] \in {"shell", "files", "abandoned"}

(* spawnsInFlight: an abandoned spawn stays until its PTY has exited. *)
Tracked(c, s) == c[s] \in InCall \cup {"abandoned"}

Running(r) == {s \in Sessions : r[s] = "running"}
(* Mutant: a spawn under way does not count towards the limit. *)
MutantActiveCount(r, n) == Cardinality(Running(r))

ActiveCount(r, n) == n + Cardinality(Running(r))

(* listColumnHolders *)
Holders(r, c, torn, keeping) ==
  ({TaskOf[s] : s \in Running(r)}
     \cup {TaskOf[s] : s \in {x \in Sessions : Tracked(c, x) /\ ~torn[x]}}
     \cup keeping) \ Exempt

(* What the gate reads: at rest, and in the middle of a turn that has already
   changed the rows to r and the calls to c. *)
View ==
  [column |-> column, maxAgents |-> maxAgents, entered |-> entered,
   holders |-> Holders(row, call, cancelled, kept), kept |-> kept]
ViewWith(r, c) ==
  [column |-> column', maxAgents |-> maxAgents', entered |-> entered',
   holders |-> Holders(r, c, cancelled', kept'), kept |-> kept']

QueueTasks(q) == [i \in DOMAIN q |-> TaskOf[q[i]]]

(* The entry processQueue starts next, 0 for none: r, c, q and n are the rows,
   calls, queue and spawningCount it finds. *)
NextIndex(r, c, q, n) ==
  IF q # <<>> /\ ~quitting' /\ ActiveCount(r, n) < limit'
  THEN Gate!Pick(ViewWith(r, c), QueueTasks(q))
  ELSE 0

(* One pass of processQueue up to its await or its end. *)
Promote(r, c, q, n, wasDirty) ==
  LET i == NextIndex(r, c, q, n)
  IN  IF i = 0
      THEN /\ loop' = Idle /\ dirty' = FALSE
           /\ queue' = q /\ call' = c /\ spawning' = n
      ELSE /\ loop' = q[i] /\ dirty' = wasDirty
           /\ queue' = RemoveAt(q, i)
           /\ call' = [c EXCEPT ![q[i]] = "shell"]
           /\ spawning' = n + 1

(* notifySlotFreed: the loop already running re-checks by itself. *)
NotifySlotFreed(r, c, q, n) ==
  IF loop = Idle
  THEN Promote(r, c, q, n, FALSE)
  ELSE loop' = loop /\ dirty' = TRUE /\ queue' = q /\ call' = c /\ spawning' = n

(* Mutants: a promotion's count is never given back; a direct spawn ends
   without a notification. *)
MutantLeakySpawnReturns(s, r, c) ==
  IF loop = s THEN Promote(r, c, queue, spawning, dirty)
              ELSE NotifySlotFreed(r, c, queue, spawning - 1)
MutantSilentSpawnReturns(s, r, c) ==
  IF loop = s THEN Promote(r, c, queue, spawning - 1, dirty)
              ELSE /\ call' = c /\ spawning' = spawning - 1
                   /\ UNCHANGED <<queue, loop, dirty>>

(* doSpawn is over for s: the promotion loop goes on, a direct spawn's finally
   block notifies.  c is the call map with s at its end. *)
SpawnReturns(s, r, c) ==
  IF loop = s THEN Promote(r, c, queue, spawning - 1, dirty)
              ELSE NotifySlotFreed(r, c, queue, spawning - 1)

(* The queue left alone by an action that does not reach it. *)
QueueAside(c) == call' = c /\ UNCHANGED queueVars

(* sessionQueue.remove *)
Without(q, s) ==
  IF s \in ToSet(q) THEN RemoveAt(q, CHOOSE i \in DOMAIN q : q[i] = s) ELSE q
InQueue(s) == s \in ToSet(queue)

(* Mutant: a direct spawn does not hold the task's lock. *)
MutantTaskBusy(t) == \E s \in SessionsOf(t) : susp[s] # "none"

(* The per-task lifecycle lock: a direct spawn and a suspend hold it. *)
TaskBusy(t) ==
  \E s \in SessionsOf(t) : susp[s] # "none" \/ (call[s] \in InCall /\ loop # s)

-----------------------------------------------------------------------------
Init ==
  /\ row = [s \in Sessions |-> "none"]
  /\ handle = [s \in Sessions |-> FALSE]
  /\ proc = [s \in Sessions |-> "none"]
  /\ call = [s \in Sessions |-> "none"]
  /\ cancelled = [s \in Sessions |-> FALSE]
  /\ siblings = [s \in Sessions |-> {}]
  /\ refused = {}
  /\ susp = [s \in Sessions |-> "none"]
  /\ queue = <<>> /\ loop = Idle /\ dirty = FALSE /\ spawning = 0
  /\ limit \in Limits
  /\ column = StartColumn
  /\ maxAgents \in [Columns -> ColumnLimits]
  /\ entered = [t \in Tasks |-> 0] /\ moves = 0
  /\ kept = {} /\ drainDue = FALSE /\ quitting = FALSE

(* spawn(): under the task's lock, by a caller that found no live session. *)
ShouldQueue(s) ==
  \/ ActiveCount(row, spawning) >= limit
  \/ Gate!MustWait(View, QueueTasks(queue), TaskOf[s])

Spawn(s) ==
  /\ row[s] = "none" /\ call[s] = "none" /\ ~cancelled[s]
  /\ ~quitting
  /\ ~TaskBusy(TaskOf[s])
  /\ \A x \in SessionsOf(TaskOf[s]) : ~IsLive(row[x])
  /\ UNCHANGED <<handle, proc, cancelled, siblings, refused, susp, limit,
                 boardVars, kept, drainDue, quitting>>
  /\ IF ShouldQueue(s)
     THEN /\ row' = [row EXCEPT ![s] = "queued"]
          /\ queue' = Append(queue, s)
          /\ UNCHANGED <<call, loop, dirty, spawning>>
     ELSE /\ call' = [call EXCEPT ![s] = "shell"]
          /\ spawning' = spawning + 1
          /\ UNCHANGED <<row, queue, loop, dirty>>

(* Mutant: an abandoned spawn leaves the placeholder as it is. *)
MutantAbandonedRow(s) == row

(* abandonCancelledSpawn: the placeholder a teardown left queued is settled. *)
AbandonedRow(s) ==
  IF row[s] = "queued" THEN [row EXCEPT ![s] = "exited"] ELSE row

(* A start refused before it had a PTY (its folder is gone, its command is too
   long).  A promotion's row waits for its pause; a direct start leaves a
   paused row, standing here under s's own id, unless the task has one. *)
RefuseStart(s) ==
  /\ call[s] = "shell"
  /\ LET others == SessionsOf(TaskOf[s]) \ {s}
         placed == /\ loop # s
                   /\ \A x \in SessionsOf(TaskOf[s]) : row[x] \in {"none", "removed", "exited"}
     IN  row' = [x \in Sessions |->
                   CASE placed /\ x = s -> "suspended"
                     [] placed /\ x \in others /\ row[x] = "exited" -> "removed"
                     [] OTHER -> row[x]]
  /\ refused' = IF loop = s /\ row[s] # "none" /\ row[s] # "removed"
                THEN refused \cup {s} ELSE refused
  /\ UNCHANGED <<handle, proc, cancelled, siblings, susp, limit, boardVars, kept,
                 drainDue, quitting>>
  /\ SpawnReturns(s, row', [call EXCEPT ![s] = "done"])

(* getShell answered: cancelled, or the task's rows drained of their PTYs. *)
ShellResolved(s) ==
  /\ call[s] = "shell"
  /\ UNCHANGED <<cancelled, refused, susp, limit, boardVars, kept, drainDue, quitting>>
  /\ IF cancelled[s]
     THEN /\ row' = AbandonedRow(s)
          /\ UNCHANGED <<handle, proc, siblings>>
          /\ SpawnReturns(s, row', [call EXCEPT ![s] = "done"])
     ELSE LET rows == {x \in SessionsOf(TaskOf[s]) : row[x] \notin {"none", "removed"}}
          IN  /\ siblings' = [siblings EXCEPT ![s] = rows]
              /\ handle' = [x \in Sessions |-> handle[x] /\ x \notin rows]
              /\ proc' = [x \in Sessions |->
                            IF x \in rows /\ handle[x] /\ proc[x] = "live"
                            THEN "killed" ELSE proc[x]]
              /\ row' = row
              /\ QueueAside([call EXCEPT ![s] = "files"])

(* The status files are reset and the launcher is written. *)
FilesReady(s) ==
  /\ call[s] = "files"
  /\ UNCHANGED <<handle, proc, cancelled, refused, susp, limit, boardVars, kept,
                 drainDue, quitting>>
  /\ IF cancelled[s]
     THEN /\ row' = AbandonedRow(s)
          /\ siblings' = [siblings EXCEPT ![s] = {}]
          /\ SpawnReturns(s, row', [call EXCEPT ![s] = "done"])
     ELSE /\ UNCHANGED <<row, siblings>>
          /\ QueueAside([call EXCEPT ![s] = "host"])

(* The drained rows leave the registry and s takes their place. *)
Registered(s, status) ==
  [x \in Sessions |-> IF x = s THEN status
                      ELSE IF x \in siblings[s] THEN "removed" ELSE row[x]]

(* Mutant: a spawn does not look whether the app is quitting. *)
MutantOvertaken(s) == cancelled[s]

(* A teardown or the quit came first. *)
Overtaken(s) == cancelled[s] \/ quitting

(* The host started the PTY. *)
HostAnswers(s) ==
  /\ call[s] = "host"
  /\ siblings' = [siblings EXCEPT ![s] = {}]
  /\ UNCHANGED <<cancelled, refused, susp, limit, boardVars, kept, drainDue, quitting>>
  /\ \/ /\ cancelled[s]
        /\ proc' = [proc EXCEPT ![s] = "killed"]
        /\ row' = AbandonedRow(s)
        /\ handle' = handle
        /\ SpawnReturns(s, row', [call EXCEPT ![s] = "abandoned"])
     \/ /\ ~cancelled[s] /\ Overtaken(s)
        /\ proc' = [proc EXCEPT ![s] = "killed"]
        /\ UNCHANGED <<row, handle>>
        /\ SpawnReturns(s, row, [call EXCEPT ![s] = "done"])
     \/ /\ ~Overtaken(s)
        /\ proc' = [proc EXCEPT ![s] = "live"]
        /\ row' = Registered(s, "running")
        /\ handle' = [x \in Sessions |-> x = s \/ (handle[x] /\ x \notin siblings[s])]
        /\ SpawnReturns(s, row', [call EXCEPT ![s] = "done"])

(* The host could not, timed out or was lost: handleSpawnFailure. *)
HostFails(s) ==
  /\ call[s] = "host"
  /\ siblings' = [siblings EXCEPT ![s] = {}]
  /\ UNCHANGED <<proc, cancelled, refused, susp, limit, boardVars, kept, drainDue,
                 quitting>>
  /\ IF cancelled[s]
     THEN row' = AbandonedRow(s) /\ handle' = handle
     ELSE /\ row' = Registered(s, "exited")
          /\ handle' = [x \in Sessions |-> handle[x] /\ x \notin siblings[s] \cup {s}]
  /\ SpawnReturns(s, row', [call EXCEPT ![s] = "done"])

-----------------------------------------------------------------------------
(* The PTY's exit reaches main.  quitting: killAll detached the listener. *)
PtyExit(s) ==
  /\ proc[s] \in {"live", "killed"}
  /\ proc' = [proc EXCEPT ![s] = "gone"]
  /\ UNCHANGED <<cancelled, siblings, refused, susp, limit, boardVars, kept,
                 drainDue, quitting>>
  /\ IF call[s] = "abandoned"
     THEN UNCHANGED <<row, handle>> /\ QueueAside([call EXCEPT ![s] = "done"])
     ELSE IF quitting
     THEN UNCHANGED <<row, handle>> /\ QueueAside(call)
     ELSE /\ row' = IF row[s] = "running" THEN [row EXCEPT ![s] = "exited"] ELSE row
          /\ handle' = [handle EXCEPT ![s] = FALSE]
          /\ NotifySlotFreed(row', call, queue, spawning)

(* kill(): what it does before the slot is notified. *)
KilledRow(s) ==
  IF row[s] \notin {"none", "removed"}
     /\ (InQueue(s) \/ (row[s] = "queued" /\ Tracked(call, s)))
  THEN [row EXCEPT ![s] = "exited"] ELSE row

(* Mutants: kill() does not cancel the spawn still in flight; it drops the
   handle and the process is never told. *)
MutantForgetfulKillPty(s) ==
  /\ handle' = [handle EXCEPT ![s] = FALSE]
  /\ proc' = proc
  /\ cancelled' = [cancelled EXCEPT ![s] = @ \/ Tracked(call, s)]
MutantKillPty(s) ==
  /\ handle' = [handle EXCEPT ![s] = FALSE]
  /\ proc' = IF handle[s] /\ proc[s] = "live" THEN [proc EXCEPT ![s] = "killed"] ELSE proc
  /\ cancelled' = cancelled

KillPty(s) ==
  /\ handle' = [handle EXCEPT ![s] = FALSE]
  /\ proc' = IF handle[s] /\ proc[s] = "live" THEN [proc EXCEPT ![s] = "killed"] ELSE proc
  /\ cancelled' = [cancelled EXCEPT ![s] = @ \/ Tracked(call, s)]

Kill(s) ==
  /\ row[s] \notin {"none", "removed"} \/ Tracked(call, s)
  /\ row' = KilledRow(s)
  /\ KillPty(s)
  /\ UNCHANGED <<siblings, refused, susp, limit, boardVars, kept, drainDue, quitting>>
  /\ NotifySlotFreed(row', call, Without(queue, s), spawning)

(* remove(): a kill, then the row goes.  The kill's notify still counts it. *)
RemoveSession(s) ==
  /\ row[s] \notin {"none", "removed"}
  /\ row' = [row EXCEPT ![s] = "removed"]
  /\ KillPty(s)
  /\ UNCHANGED <<siblings, refused, susp, limit, boardVars, kept, drainDue, quitting>>
  /\ NotifySlotFreed(KilledRow(s), call, Without(queue, s), spawning)

(* cancelTaskSpawnsInFlight, the first and last step of a task's teardown. *)
CancelTaskSpawns(t) ==
  /\ \E s \in SessionsOf(t) : Tracked(call, s) /\ ~cancelled[s]
  /\ cancelled' = [s \in Sessions |->
                     cancelled[s] \/ (TaskOf[s] = t /\ Tracked(call, s))]
  /\ UNCHANGED <<row, handle, proc, call, siblings, refused, susp, queueVars, limit,
                 boardVars, kept, drainDue, quitting>>

-----------------------------------------------------------------------------
(* suspend(): its first turn marks the row, ahead of the PTY's shutdown. *)
BeginSuspend(s, slotKept) ==
  /\ row' = [row EXCEPT ![s] = "suspended"]
  /\ cancelled' = [cancelled EXCEPT ![s] = @ \/ Tracked(call, s)]
  /\ susp' = [susp EXCEPT ![s] = IF handle[s] THEN "exit" ELSE "scan"]
  /\ kept' = IF slotKept THEN kept \cup {TaskOf[s]} ELSE kept
  /\ UNCHANGED <<handle, proc, call, siblings, queueVars, limit, boardVars, drainDue,
                 quitting>>

HoldsSlot(s) == row[s] = "running" \/ (Tracked(call, s) /\ ~cancelled[s])

(* A pause, a move's suspend, or an in-place restart, which keeps the column
   slot its task holds. *)
Suspend(s) ==
  /\ ~quitting
  /\ IsLive(row[s]) /\ s \notin refused
  /\ ~TaskBusy(TaskOf[s])
  /\ InQueue(s) => PausesQueued
  /\ refused' = refused
  /\ \E slotKept \in BOOLEAN :
       /\ slotKept => HoldsSlot(s) /\ TaskOf[s] \notin Exempt
       /\ BeginSuspend(s, slotKept)

(* gracefulPtyShutdown: the PTY is killed once the grace is over. *)
SuspendKills(s) ==
  /\ susp[s] = "exit" /\ proc[s] # "gone"
  /\ susp' = [susp EXCEPT ![s] = "propagate"]
  /\ handle' = [handle EXCEPT ![s] = FALSE]
  /\ proc' = [proc EXCEPT ![s] = "killed"]
  /\ UNCHANGED <<row, spawnVars, queueVars, limit, boardVars, kept, drainDue, quitting>>

(* Mutant: an exit during the grace is waited for again. *)
MutantSuspendSeesExit(s) ==
  /\ susp[s] = "propagate"
  /\ susp' = [susp EXCEPT ![s] = "scan"]
  /\ UNCHANGED <<row, handle, proc, spawnVars, queueVars, limit, boardVars, kept,
                 drainDue, quitting>>

(* The exit was seen, or its wait timed out; the scrollback is scanned next. *)
SuspendSeesExit(s) ==
  /\ susp[s] = "propagate" \/ (susp[s] = "exit" /\ proc[s] = "gone")
  /\ susp' = [susp EXCEPT ![s] = "scan"]
  /\ UNCHANGED <<row, handle, proc, spawnVars, queueVars, limit, boardVars, kept,
                 drainDue, quitting>>

(* Out of the queue at last, and the slot is notified. *)
SuspendFinishes(s) ==
  /\ susp[s] = "scan"
  /\ susp' = [susp EXCEPT ![s] = IF cancelled[s] /\ Tracked(call, s) THEN "settle" ELSE "none"]
  /\ UNCHANGED <<row, handle, proc, cancelled, siblings, refused, limit, boardVars,
                 kept, drainDue, quitting>>
  /\ NotifySlotFreed(row, call, Without(queue, s), spawning)

(* The spawn it cancelled has settled. *)
SuspendSettles(s) ==
  /\ susp[s] = "settle" /\ ~Tracked(call, s)
  /\ susp' = [susp EXCEPT ![s] = "none"]
  /\ UNCHANGED <<row, handle, proc, spawnVars, queueVars, limit, boardVars, kept,
                 drainDue, quitting>>

(* The pause of a refused promotion gets the task's lock: the row is paused if
   it still waits, or retired where nothing can pause it. *)
PauseRefused(s) ==
  /\ s \in refused
  /\ ~TaskBusy(TaskOf[s])
  /\ refused' = refused \ {s}
  /\ \/ row[s] = "queued" /\ BeginSuspend(s, FALSE)
     \/ /\ row' = IF row[s] = "queued" THEN [row EXCEPT ![s] = "exited"] ELSE row
        /\ UNCHANGED <<handle, proc, call, cancelled, siblings, susp, queueVars, limit,
                       boardVars, kept, drainDue, quitting>>

(* The restart's spawn has been made, or given up: holdColumnSlot's release. *)
ReleaseColumnSlot(t) ==
  /\ t \in kept /\ ~TaskBusy(t)
  /\ kept' = kept \ {t}
  /\ UNCHANGED <<row, handle, proc, cancelled, siblings, refused, susp, limit,
                 boardVars, drainDue, quitting>>
  /\ IF queue = <<>> THEN QueueAside(call)
                     ELSE NotifySlotFreed(row, call, queue, spawning)

-----------------------------------------------------------------------------
SetMaxConcurrent(n) ==
  /\ limit' = n
  /\ UNCHANGED <<row, handle, proc, cancelled, siblings, refused, susp, boardVars,
                 kept, drainDue, quitting>>
  /\ NotifySlotFreed(row, call, queue, spawning)

(* A task moves, or a column's limit is set; both drain the queue later on. *)
MoveTask(t, c) ==
  /\ moves < MaxMoves /\ c # column[t] /\ t \notin Exempt
  /\ column' = [column EXCEPT ![t] = c]
  /\ entered' = [entered EXCEPT ![t] = moves + 1]
  /\ moves' = moves + 1
  /\ drainDue' = TRUE
  /\ UNCHANGED <<row, handle, proc, spawnVars, susp, queueVars, limit, maxAgents,
                 kept, quitting>>

SetColumnLimit(c, n) ==
  /\ maxAgents[c] # n
  /\ maxAgents' = [maxAgents EXCEPT ![c] = n]
  /\ drainDue' = TRUE
  /\ UNCHANGED <<row, handle, proc, spawnVars, susp, queueVars, limit, column,
                 entered, moves, kept, quitting>>

(* Mutant: the drain after a board change never reaches the queue. *)
MutantDrainQueue ==
  /\ drainDue /\ drainDue' = FALSE
  /\ UNCHANGED <<row, handle, proc, cancelled, siblings, refused, susp, limit,
                 boardVars, kept, quitting>>
  /\ QueueAside(call)

DrainQueue ==
  /\ drainDue /\ drainDue' = FALSE
  /\ UNCHANGED <<row, handle, proc, cancelled, siblings, refused, susp, limit,
                 boardVars, kept, quitting>>
  /\ IF queue = <<>> THEN QueueAside(call)
                     ELSE NotifySlotFreed(row, call, queue, spawning)

(* before-quit: killAll stops every PTY that has a row and empties both maps. *)
KillAll ==
  /\ ~quitting /\ quitting' = TRUE
  /\ proc' = [s \in Sessions |-> IF handle[s] /\ proc[s] = "live" THEN "killed" ELSE proc[s]]
  /\ handle' = [s \in Sessions |-> FALSE]
  /\ row' = [s \in Sessions |-> IF row[s] = "none" THEN "none" ELSE "removed"]
  /\ queue' = <<>>
  /\ UNCHANGED <<spawnVars, susp, loop, dirty, spawning, limit, boardVars, kept, drainDue>>

-----------------------------------------------------------------------------
(* Mutant: nothing answers a cancelled spawn whose host is lost. *)
MutantSpawnStep(s) ==
  ShellResolved(s) \/ FilesReady(s) \/ (~cancelled[s] /\ (HostAnswers(s) \/ HostFails(s)))

SpawnStep(s) == ShellResolved(s) \/ FilesReady(s) \/ HostAnswers(s) \/ HostFails(s)
SuspendStep(s) ==
  SuspendKills(s) \/ SuspendSeesExit(s) \/ SuspendFinishes(s) \/ SuspendSettles(s)

Next ==
  \/ \E s \in Sessions :
       Spawn(s) \/ RefuseStart(s) \/ SpawnStep(s) \/ PtyExit(s) \/ Kill(s) \/ RemoveSession(s)
         \/ Suspend(s) \/ SuspendStep(s) \/ PauseRefused(s)
  \/ \E t \in Tasks : CancelTaskSpawns(t) \/ ReleaseColumnSlot(t)
  \/ \E n \in Limits : SetMaxConcurrent(n)
  \/ \E t \in Tasks, c \in Columns : MoveTask(t, c)
  \/ \E c \in Columns, n \in ColumnLimits : SetColumnLimit(c, n)
  \/ DrainQueue
  \/ KillAll

(* What the runtime owes: every await is answered (each has a timeout), a
   killed PTY exits, a teardown under way goes on, a drain that is due comes.
   Users, and an agent left running, owe nothing. *)
Fairness ==
  /\ \A s \in Sessions :
       /\ WF_vars(SpawnStep(s))
       /\ WF_vars(proc[s] = "killed" /\ PtyExit(s))
       /\ WF_vars(SuspendStep(s))
       /\ WF_vars(PauseRefused(s))
  /\ \A t \in Tasks : WF_vars(ReleaseColumnSlot(t))
  /\ WF_vars(DrainQueue)

Spec == Init /\ [][Next]_vars
FairSpec == Spec /\ Fairness
-----------------------------------------------------------------------------
RowTypeOK ==
  /\ row \in [Sessions -> {"none", "queued", "running", "exited", "suspended", "removed"}]
  /\ handle \in [Sessions -> BOOLEAN]
  /\ proc \in [Sessions -> {"none", "live", "killed", "gone"}]
  /\ cancelled \in [Sessions -> BOOLEAN]
  /\ siblings \in [Sessions -> SUBSET Sessions]
  /\ refused \subseteq Sessions
  /\ susp \in [Sessions -> {"none", "exit", "propagate", "scan", "settle"}]

QueueTypeOK ==
  /\ call \in [Sessions -> CallStages]
  /\ queue \in Seq(Sessions)
  /\ loop \in Sessions \cup {Idle}
  /\ dirty \in BOOLEAN
  /\ spawning \in Nat

BoardTypeOK ==
  /\ limit \in Limits
  /\ column \in [Tasks -> Columns]
  /\ maxAgents \in [Columns -> ColumnLimits]
  /\ entered \in [Tasks -> Nat] /\ moves \in Nat
  /\ kept \subseteq Tasks
  /\ drainDue \in BOOLEAN /\ quitting \in BOOLEAN

(* Every variable of the registry, the queue and the board keeps its type. *)
TypeOK == RowTypeOK /\ QueueTypeOK /\ BoardTypeOK

(* spawningCount is raised and lowered on three paths with a throw possible on
   each: it always equals the spawns really under way, so no slot leaks. *)
SlotAccounting == spawning = Cardinality({s \in Sessions : call[s] \in InCall})

(* A task never has two agents it can talk to: a new session takes the place
   of every earlier one, whatever overtook it in its spawn. *)
OneAgentPerTask ==
  \A s, x \in Sessions :
    (s # x /\ TaskOf[s] = TaskOf[x] /\ row[s] = "running" /\ handle[s])
      => ~(row[x] = "running" /\ handle[x])

(* Every PTY process left running has a row through which it can be ended: no
   cancel, drain or quit lets one slip. *)
NoOrphanPty ==
  \A s \in Sessions :
    proc[s] = "live" => handle[s] /\ row[s] \in {"running", "suspended"}

(* Once the app quits, every PTY is stopped and no start gets another: a spawn
   that was on its way when killAll ran is stopped when the host answers. *)
QuitLeavesNoAgent ==
  quitting => queue = <<>> /\ \A s \in Sessions : proc[s] # "live" /\ ~IsLive(row[s])

(* A row that reads queued is in the queue, being promoted, or about to be
   settled by a refusal: no card reads Queued for good. *)
NoStrandedQueuedRow ==
  \A s \in Sessions :
    row[s] = "queued" => InQueue(s) \/ call[s] \in InCall \/ s \in refused

(* The queue holds each session once and only rows that still wait. *)
QueueMatchesRows ==
  /\ IsInjective(queue)
  /\ \A s \in ToSet(queue) : row[s] = "queued" \/ susp[s] # "none"

(* The promotion loop awaits a spawn under way; it never hangs on one that is
   over, and no two promotions run at once. *)
LoopAwaitsASpawn ==
  /\ loop # Idle => call[loop] \in InCall
  /\ loop = Idle => ~dirty

(* The queue could start an entry now. *)
CanPromote ==
  /\ queue # <<>> /\ ~quitting /\ ActiveCount(row, spawning) < limit
  /\ Gate!Pick(View, QueueTasks(queue)) # 0

(* A slot that is free with an entry to take it has a wake-up on its way: the
   loop is running, or a teardown, an exit or a drain is still to notify. *)
NoLostWakeup ==
  CanPromote =>
    \/ loop # Idle
    \/ drainDue
    \/ kept # {}
    \/ \E s \in Sessions :
         \/ call[s] \in InCall
         \/ susp[s] \in {"exit", "propagate", "scan"}
         \/ proc[s] = "killed" /\ call[s] = "done"

(* A session that has ended stays ended: no spawn that a teardown overtook
   brings it back. *)
EndedStaysEnded ==
  [][\A s \in Sessions :
       row[s] \in {"exited", "suspended", "removed"} => ~IsLive(row'[s])]_vars

(* suspend() cancels the promotion still waiting on the host, which "would
   otherwise come back running" (session-manager.ts, suspend). *)
SuspendedStaysDown ==
  [][\A s \in Sessions : row[s] = "suspended" => row'[s] # "running"]_vars

(* The tasks that take a place in t's column. *)
PlacesTaken(t) ==
  {TaskOf[s] : s \in {x \in Sessions : row[x] = "running" \/ (call[x] \in InCall /\ ~cancelled[x])}}
    \cap {u \in Tasks \ (Exempt \cup {t}) : column[u] = column[t]}

(* An agent starts in a limited column only where the column has room, and
   ahead of no task that entered it earlier and still waits.  An in-place
   restart, which keeps its slot, is no arrival. *)
ColumnStartsInTurn ==
  [][\A s \in Sessions :
       LET t == TaskOf[s] IN
       (call[s] \notin InCall /\ call'[s] \in InCall /\ t \notin kept \cup Exempt
          /\ maxAgents'[column'[t]] # NoLimit)
         => /\ Cardinality(PlacesTaken(t)') < maxAgents'[column'[t]]
            /\ \A i \in DOMAIN queue' :
                 (TaskOf[queue'[i]] \notin Exempt /\ column'[TaskOf[queue'[i]]] = column'[t])
                   => entered'[t] <= entered'[TaskOf[queue'[i]]]]_vars

(* A free slot never leaves a startable entry waiting for ever. *)
PromotionHappens == CanPromote ~> ~CanPromote

(* Every spawn and every suspend settles, so what awaits one goes on. *)
EverySpawnSettles == \A s \in Sessions : call[s] \in InCall ~> ~(call[s] \in InCall)
EverySuspendSettles == \A s \in Sessions : susp[s] # "none" ~> susp[s] = "none"

-----------------------------------------------------------------------------
(* The promise of AgentSlots, kept. *)
Stage(s) ==
  IF call[s] \in InCall \/ row[s] = "running" THEN "holding"
  ELSE IF row[s] = "queued" /\ s \notin refused THEN "waiting"
  ELSE IF row[s] = "none" /\ call[s] = "none" THEN "new"
  ELSE "ended"

Slots == INSTANCE AgentSlots WITH Agents <- Sessions, Limits <- Limits,
                                  agent <- [s \in Sessions |-> Stage(s)]

(* The session manager implements AgentSlots: sessions go through the slot
   stages in order, and no turn takes a slot beyond the limit. *)
SlotsKept == Slots!SlotSpec
=============================================================================
