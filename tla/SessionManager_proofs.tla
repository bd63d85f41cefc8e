----------------------- MODULE SessionManager_proofs ------------------------
(***************************************************************************)
(* The safety of the session manager, for any sessions, tasks, columns and *)
(* limits, in two groups.  Whether or not a session is paused while it is  *)
(* queued, the slots stay counted, no queued row is stranded, the loop     *)
(* never hangs (CoreInv); a queue which could promote an entry has a pass, *)
(* a spawn or a teardown under way that will look at it (NoLostWakeup,     *)
(* WakeFacts); and what the queue starts in a column is in its turn        *)
(* (ColumnStartsInTurn, OnlyInTurn).  That an agent which was ended stays  *)
(* ended, and with it one agent per task, no orphan and a clean quit       *)
(* (SessionInv), needs ~PausesQueued: a promotion can overtake the pause   *)
(* of a queued session and run its agent after all.                        *)
(***************************************************************************)
EXTENDS SessionManager_steps

(* Nothing has happened yet: the invariant holds of an empty registry. *)
LEMMA InitSafe == Init => SessionInv
<1> SUFFICES ASSUME Init PROVE SessionInv
  OBVIOUS
<1>1. TypeOK
  <2>1. entered \in [Tasks -> Nat] /\ column \in [Tasks -> Columns]
    BY SessionAssumption DEF Init
  <2>2. QueueTypeOK
    BY EmptySeq DEF Init, QueueTypeOK, CallStages
  <2> QED BY <2>1, <2>2 DEF Init, TypeOK, RowTypeOK, BoardTypeOK
<1>2. SlotAccounting
  <2>1. {s \in Sessions : call[s] \in InCall} = {}
    BY DEF Init, InCall
  <2> QED BY <2>1, FS_EmptySet DEF SlotAccounting, Init
<1>3. QueueInv
  <2>1. DOMAIN queue = {} /\ ToSet(queue) = {}
    BY EmptySeq DEF Init, ToSet
  <2> QED BY <2>1 DEF QueueInv, IsInjective
<1>4. CallInv /\ AloneInv
  BY DEF Init, CallInv, AloneInv, Claims, IsLive, InCall
<1>5. ProcInv /\ SuspInv /\ QuitLeavesNoAgent
  BY DEF Init, ProcInv, NoOrphanPty, SuspInv, QuitLeavesNoAgent
<1> QED BY <1>1, <1>2, <1>3, <1>4, <1>5 DEF SessionInv

(* A step of the spawn pipeline preserves the invariant. *)
LEMMA SpawnStepPreserves ==
  ASSUME SessionInv, ~PausesQueued, NEW s \in Sessions, SpawnStep(s)
  PROVE  SessionInv'
<1>1. CASE ShellResolved(s)
  BY <1>1, ShellCancelledPreserves, ShellDrainsPreserves
<1>2. CASE FilesReady(s)
  BY <1>2, FilesCancelledPreserves, FilesWrittenPreserves
<1>3. CASE HostAnswers(s)
  BY <1>3, HostCancelledPreserves, HostQuitPreserves, HostRegistersPreserves
<1>4. CASE HostFails(s)
  BY <1>4, HostFailsPreserves
<1> QED BY <1>1, <1>2, <1>3, <1>4 DEF SpawnStep

(* A step of a suspend preserves the invariant. *)
LEMMA SuspendStepPreserves ==
  ASSUME SessionInv, ~PausesQueued, NEW s \in Sessions, SuspendStep(s)
  PROVE  SessionInv'
  BY SuspendKillsPreserves, SuspendSeesExitPreserves, SuspendFinishesPreserves,
     SuspendSettlesPreserves DEF SuspendStep

(* What any one session's action does preserves the invariant. *)
LEMMA SessionActionPreserves ==
  ASSUME SessionInv, ~PausesQueued, NEW s \in Sessions,
         \/ Spawn(s) \/ RefuseStart(s) \/ SpawnStep(s) \/ PtyExit(s) \/ Kill(s)
         \/ RemoveSession(s) \/ Suspend(s) \/ SuspendStep(s) \/ PauseRefused(s)
  PROVE  SessionInv'
<1>1. CASE Spawn(s)
  BY <1>1, QueuedSpawnPreserves, DirectSpawnPreserves
<1>2. CASE RefuseStart(s) \/ SpawnStep(s) \/ PtyExit(s)
  BY <1>2, RefuseStartPreserves, SpawnStepPreserves, PtyExitPreserves
<1>3. CASE Kill(s) \/ RemoveSession(s)
  BY <1>3, KillPreserves, RemoveSessionPreserves
<1>4. CASE Suspend(s) \/ SuspendStep(s) \/ PauseRefused(s)
  BY <1>4, SuspendPreserves, SuspendStepPreserves, PauseRefusedPreserves
<1> QED BY <1>1, <1>2, <1>3, <1>4

(* Every step, and every stutter, preserves the invariant. *)
LEMMA NextSafe ==
  ASSUME SessionInv, ~PausesQueued, [Next]_vars
  PROVE  SessionInv'
<1>1. CASE \E s \in Sessions :
             \/ Spawn(s) \/ RefuseStart(s) \/ SpawnStep(s) \/ PtyExit(s) \/ Kill(s)
             \/ RemoveSession(s) \/ Suspend(s) \/ SuspendStep(s) \/ PauseRefused(s)
  BY <1>1, SessionActionPreserves
<1>2. CASE \E t \in Tasks : CancelTaskSpawns(t) \/ ReleaseColumnSlot(t)
  BY <1>2, CancelTaskSpawnsPreserves, ReleaseColumnSlotPreserves
<1>3. CASE \E n \in Limits : SetMaxConcurrent(n)
  BY <1>3, SetMaxConcurrentPreserves
<1>4. CASE \E t \in Tasks, c \in Columns : MoveTask(t, c)
  BY <1>4, MoveTaskPreserves
<1>5. CASE \E c \in Columns, n \in ColumnLimits : SetColumnLimit(c, n)
  BY <1>5, SetColumnLimitPreserves
<1>6. CASE DrainQueue \/ KillAll
  BY <1>6, DrainQueuePreserves, KillAllPreserves
<1>7. CASE UNCHANGED vars
  BY <1>7 DEF vars, spawnVars, queueVars, boardVars, SessionInv, TypeOK, RowTypeOK,
     QueueTypeOK, BoardTypeOK, SlotAccounting, QueueInv, CallInv, InQueue, AloneInv,
     Claims, ProcInv, NoOrphanPty, SuspInv, QuitLeavesNoAgent
<1> QED BY <1>1, <1>2, <1>3, <1>4, <1>5, <1>6, <1>7 DEF Next

(* The invariant holds more than the part that survives a pause of a queued
   session. *)
LEMMA SafeIsCore == SessionInv => CoreInv
<1> SUFFICES ASSUME SessionInv PROVE CoreInv
  OBVIOUS
<1>1. queue \in Seq(Sessions) /\ TypeOK
  BY DEF SessionInv, TypeOK, QueueTypeOK
<1>2. QueueCore
  BY DEF SessionInv, QueueInv, QueueCore
<1>3. CallCore
  BY DEF SessionInv, CallInv, CallCore, LoopAwaitsASpawn
<1>4. RowCore
  BY DEF SessionInv, SuspInv, ProcInv, QuitLeavesNoAgent, RowCore
<1> QED BY <1>1, <1>2, <1>3, <1>4 DEF CoreInv, SessionInv

(* Whatever is paused, and whenever: the queue, the spawns under way and the
   rows agree in every reachable state. *)
THEOREM CoreKept == Spec => []CoreInv
<1>1. Init => CoreInv
  BY InitSafe, SafeIsCore
<1>2. CoreInv /\ [Next]_vars => CoreInv'
  BY NextKeepsCore
<1> QED BY <1>1, <1>2, PTL DEF Spec

(* The inductive invariant holds in every reachable state, as long as no
   session is paused while it is queued. *)
THEOREM SessionsSafe ==
  ASSUME ~PausesQueued
  PROVE  Spec => []SessionInv
<1>1. Init => SessionInv
  BY InitSafe
<1>2. SessionInv /\ [Next]_vars => SessionInv'
  BY NextSafe
<1> QED BY <1>1, <1>2, PTL DEF Spec

(* Every variable keeps its type, the queue and the spawn stages included. *)
THEOREM TypesKept == Spec => []TypeOK
<1>1. CoreInv => TypeOK
  BY DEF CoreInv
<1> QED BY <1>1, CoreKept, PTL

(* spawningCount is the number of spawns under way, whichever of its three
   paths a spawn took and however it ended: no slot leaks. *)
THEOREM SlotsCounted == Spec => []SlotAccounting
<1>1. CoreInv => SlotAccounting
  BY DEF CoreInv
<1> QED BY <1>1, CoreKept, PTL

(* A task never has two agents. *)
THEOREM AgentsAlone ==
  ASSUME ~PausesQueued
  PROVE  Spec => []OneAgentPerTask
<1>1. SessionInv => OneAgentPerTask
  BY DEF SessionInv, AloneInv, Claims, IsLive, OneAgentPerTask
<1> QED BY <1>1, SessionsSafe, PTL

(* No PTY process is left running without a row that can end it. *)
THEOREM NoPtyOrphaned ==
  ASSUME ~PausesQueued
  PROVE  Spec => []NoOrphanPty
<1>1. SessionInv => NoOrphanPty
  BY DEF SessionInv, ProcInv
<1> QED BY <1>1, SessionsSafe, PTL

(* After the quit no PTY runs, not even one whose spawn was on its way. *)
THEOREM QuitIsClean ==
  ASSUME ~PausesQueued
  PROVE  Spec => []QuitLeavesNoAgent
<1>1. SessionInv => QuitLeavesNoAgent
  BY DEF SessionInv
<1> QED BY <1>1, SessionsSafe, PTL

(* No row reads queued for good: it is in the queue, being promoted, or its
   refusal is about to be settled. *)
THEOREM NoQueuedRowStranded == Spec => []NoStrandedQueuedRow
<1>1. CoreInv => NoStrandedQueuedRow
  <2> SUFFICES ASSUME CoreInv, NEW s \in Sessions, row[s] = "queued"
               PROVE  InQueue(s) \/ call[s] \in InCall \/ s \in refused
    BY DEF NoStrandedQueuedRow
  <2>1. InQueue(s) \/ loop = s \/ s \in refused
    BY CoreBasics DEF CallCore
  <2>2. loop = s => call[s] \in InCall
    BY CoreBasics, SessionAssumption DEF CallCore, LoopAwaitsASpawn
  <2> QED BY <2>1, <2>2
<1> QED BY <1>1, CoreKept, PTL

(* The queue holds each waiting session once, and nothing that does not wait. *)
THEOREM QueueConsistent ==
  ASSUME ~PausesQueued
  PROVE  Spec => []QueueMatchesRows
<1>1. SessionInv => QueueMatchesRows
  BY DEF SessionInv, QueueInv, QueueMatchesRows
<1> QED BY <1>1, SessionsSafe, PTL

(* The promotion loop never hangs on a spawn that is over, and is never left
   marked as running. *)
THEOREM LoopNeverHangs == Spec => []LoopAwaitsASpawn
<1>1. CoreInv => LoopAwaitsASpawn
  BY DEF CoreInv, CallCore
<1> QED BY <1>1, CoreKept, PTL

-----------------------------------------------------------------------------
(* A session that has ended. *)
Ended(status) == status \in {"exited", "suspended", "removed"}

(* A kill leaves an ended row ended, or settles a waiting one. *)
LEMMA KilledRowEnds ==
  ASSUME SessionInv, NEW s \in Sessions, NEW x \in Sessions, Ended(row[x])
  PROVE  Ended(KilledRow(s)[x])
  BY DEF KilledRow, Ended, SessionInv, TypeOK, RowTypeOK

(* The steps of the spawn pipeline do not bring an ended session back: only an
   answer that nothing overtook writes running, and the row it meets has not
   ended. *)
LEMMA SpawnEndsStay ==
  ASSUME SessionInv, NEW s \in Sessions, NEW x \in Sessions, Ended(row[x]),
         Spawn(s) \/ RefuseStart(s) \/ SpawnStep(s)
  PROVE  ~IsLive(row'[x])
<1>t. row \in [Sessions -> {"none", "queued", "running", "exited", "suspended", "removed"}]
  BY DEF SessionInv, TypeOK, RowTypeOK
<1>r. Ended(AbandonedRow(s)[x])
  BY <1>t DEF AbandonedRow, Ended
<1>1. CASE Spawn(s)
  BY <1>1, <1>t DEF Spawn, Ended, IsLive
<1>2. CASE RefuseStart(s)
  BY <1>2, <1>t DEF RefuseStart, Ended, IsLive
<1>3. CASE ShellResolved(s)
  BY <1>3, <1>t, <1>r DEF ShellResolved, Ended, IsLive
<1>4. CASE FilesReady(s)
  BY <1>4, <1>t, <1>r DEF FilesReady, Ended, IsLive
<1>5. CASE HostAnswers(s)
  <2>1. CASE Overtaken(s)
    BY <1>5, <2>1, <1>t, <1>r DEF HostAnswers, Ended, IsLive
  <2>2. CASE ~Overtaken(s)
    <3>1. call[s] = "host" /\ ~cancelled[s] /\ ~quitting
      BY <1>5, <2>2 DEF HostAnswers, Overtaken
    <3>2. row[s] = "none" \/ row[s] = "queued"
      BY <3>1 DEF SessionInv, CallInv, InCall
    <3>3. row' = Registered(s, "running")
      BY <1>5, <2>2 DEF HostAnswers, Overtaken
    <3> QED BY <3>2, <3>3 DEF Registered, Ended, IsLive
  <2> QED BY <2>1, <2>2
<1>6. CASE HostFails(s)
  BY <1>6, <1>t, <1>r DEF HostFails, Registered, Ended, IsLive
<1> QED BY <1>1, <1>2, <1>3, <1>4, <1>5, <1>6 DEF SpawnStep

(* Nor does any other step of the session. *)
LEMMA TeardownEndsStay ==
  ASSUME SessionInv, NEW s \in Sessions, NEW x \in Sessions, Ended(row[x]),
         PtyExit(s) \/ Kill(s) \/ RemoveSession(s) \/ Suspend(s) \/ SuspendStep(s) \/ PauseRefused(s)
  PROVE  ~IsLive(row'[x])
<1>t. row \in [Sessions -> {"none", "queued", "running", "exited", "suspended", "removed"}]
  BY DEF SessionInv, TypeOK, RowTypeOK
<1>1. CASE PtyExit(s)
  BY <1>1, <1>t DEF PtyExit, Ended, IsLive
<1>2. CASE Kill(s)
  BY <1>2, KilledRowEnds DEF Kill, Ended, IsLive
<1>3. CASE RemoveSession(s)
  BY <1>3, <1>t DEF RemoveSession, Ended, IsLive
<1>4. CASE Suspend(s)
  BY <1>4, <1>t DEF Suspend, BeginSuspend, Ended, IsLive
<1>5. CASE SuspendStep(s)
  BY <1>5, <1>t DEF SuspendStep, SuspendKills, SuspendSeesExit, SuspendFinishes,
     SuspendSettles, Ended, IsLive
<1>6. CASE PauseRefused(s)
  BY <1>6, <1>t DEF PauseRefused, BeginSuspend, Ended, IsLive
<1> QED BY <1>1, <1>2, <1>3, <1>4, <1>5, <1>6

(* No step of the system brings an ended session back. *)
LEMMA NoRevival ==
  ASSUME SessionInv, [Next]_vars, NEW x \in Sessions, Ended(row[x])
  PROVE  ~IsLive(row'[x])
<1>1. CASE \E s \in Sessions :
             \/ Spawn(s) \/ RefuseStart(s) \/ SpawnStep(s) \/ PtyExit(s) \/ Kill(s)
             \/ RemoveSession(s) \/ Suspend(s) \/ SuspendStep(s) \/ PauseRefused(s)
  BY <1>1, SpawnEndsStay, TeardownEndsStay
<1>2. CASE KillAll
  BY <1>2 DEF KillAll, Ended, IsLive
<1>3. CASE row' = row
  BY <1>3 DEF Ended, IsLive
<1>4. CASE \E t \in Tasks : CancelTaskSpawns(t) \/ ReleaseColumnSlot(t)
  BY <1>4, <1>3 DEF CancelTaskSpawns, ReleaseColumnSlot
<1>5. CASE \E n \in Limits : SetMaxConcurrent(n)
  BY <1>5, <1>3 DEF SetMaxConcurrent
<1>6. CASE \E t \in Tasks, c \in Columns : MoveTask(t, c)
  BY <1>6, <1>3 DEF MoveTask
<1>7. CASE \E c \in Columns, n \in ColumnLimits : SetColumnLimit(c, n)
  BY <1>7, <1>3 DEF SetColumnLimit
<1>8. CASE DrainQueue \/ UNCHANGED vars
  BY <1>8, <1>3 DEF DrainQueue, vars
<1> QED BY <1>1, <1>2, <1>4, <1>5, <1>6, <1>7, <1>8 DEF Next

(* No spawn that a teardown overtook, at whichever await, brings its session
   back from exited, suspended or removed. *)
THEOREM EndedIsFinal ==
  ASSUME ~PausesQueued
  PROVE  Spec => EndedStaysEnded
<1>1. SessionInv /\ [Next]_vars =>
        [\A s \in Sessions :
           row[s] \in {"exited", "suspended", "removed"} => ~IsLive(row'[s])]_vars
  BY NoRevival DEF Ended
<1> QED BY <1>1, SessionsSafe, PTL DEF Spec, EndedStaysEnded

-----------------------------------------------------------------------------
(* Why no wake-up is lost.  Where nothing is under way, the rows, the board  *)
(* and the limit alone decide whether the queue could start an entry; each   *)
(* step that frees a slot hands them to a pass of the loop, or leaves        *)
(* something under way that will.                                            *)
NothingUnderWay ==
  /\ loop = Idle /\ ~drainDue /\ kept = {}
  /\ \A s \in Sessions : /\ call[s] \notin InCall
                         /\ susp[s] \notin {"exit", "propagate", "scan"}
                         /\ ~(proc[s] = "killed" /\ call[s] = "done")

(* A running row has a PTY that has not exited, and a spawn is abandoned only
   when it was cancelled. *)
WakeFacts ==
  /\ \A s \in Sessions : row[s] = "running" => call[s] = "done" /\ proc[s] \in {"live", "killed"}
  /\ \A s \in Sessions : call[s] = "abandoned" => cancelled[s]

(* Main holds the PTY of every agent that runs, so a kill reaches it. *)
RunningHeld == \A s \in Sessions : (row[s] = "running" /\ proc[s] = "live") => handle[s]

WakeInv == CoreInv /\ WakeFacts /\ RunningHeld /\ NoLostWakeup

(* A wake-up is not lost: when an entry can be promoted, something is under way. *)
LEMMA LostIs ==
  /\ NoLostWakeup <=> (CanPromote => ~NothingUnderWay)
  /\ NoLostWakeup' <=> (CanPromote' => ~NothingUnderWay')
BY DEF NoLostWakeup, NothingUnderWay

(* A pass of the loop that ends leaves nothing the queue could start.  It was
   handed the rows r, with the agents that still run when the step is over. *)
LEMMA PassLeavesNothing ==
  ASSUME NEW r, NEW c, NEW q \in Seq(Sessions), NEW n, NEW d, Promote(r, c, q, n, d),
         Running(r) = Running(row')
  PROVE  CanPromote' => loop' # Idle
<1> DEFINE i == NextIndex(r, c, q, n)
<1>1. CASE i = 0
  <2>1. queue' = q /\ call' = c /\ spawning' = n
    BY <1>1 DEF Promote
  <2>2. View' = ViewWith(r, c)
    BY <2>1 DEF View, ViewWith, Holders
  <2>3. ~(/\ q # <<>> /\ ~quitting' /\ ActiveCount(r, n) < limit'
          /\ Gate!Pick(ViewWith(r, c), QueueTasks(q)) # 0)
    BY <1>1 DEF NextIndex
  <2>4. ActiveCount(row', n) = ActiveCount(r, n)
    BY DEF ActiveCount
  <2> QED  BY <2>1, <2>2, <2>3, <2>4 DEF CanPromote
<1>2. CASE i # 0
  <2>1. QueueTasks(q) \in Seq(Tasks) /\ DOMAIN QueueTasks(q) = DOMAIN q
    BY SessionAssumption DEF QueueTasks
  <2>2. Gate!Pick(ViewWith(r, c), QueueTasks(q)) \in {0} \cup DOMAIN q
    <3> DEFINE v == ViewWith(r, c)
    <3> HIDE DEF v
    <3> QED BY <2>1, PickIsIndex
  <2>3. i \in DOMAIN q /\ loop' = q[i]
    BY <1>2, <2>2 DEF NextIndex, Promote
  <2> HIDE DEF i
  <2>4. q[i] \in Sessions
    BY <2>3
  <2> QED  BY <2>3, <2>4, SessionAssumption
<1> QED  BY <1>1, <1>2

(* Nor does a notification, or a spawn that returns. *)
LEMMA NotifyLeavesNothing ==
  ASSUME NEW r, NEW c, NEW q \in Seq(Sessions), NEW n, NotifySlotFreed(r, c, q, n),
         Running(r) = Running(row')
  PROVE  NoLostWakeup'
BY PassLeavesNothing, LostIs DEF NotifySlotFreed, NothingUnderWay

(* A spawn that returns leaves a pass that ended with nothing to promote. *)
LEMMA ReturnLeavesNothing ==
  ASSUME CoreInv, NEW s, NEW c, SpawnReturns(s, row', c)
  PROVE  NoLostWakeup'
<1>1. queue \in Seq(Sessions)
  BY CoreBasics
<1> QED  BY <1>1, PassLeavesNothing, NotifyLeavesNothing, LostIs DEF SpawnReturns, NothingUnderWay

-----------------------------------------------------------------------------
(* What the gate reads where nothing is under way. *)
LEMMA QuietView ==
  ASSUME WakeFacts, NothingUnderWay
  PROVE  View = [column |-> column, maxAgents |-> maxAgents, entered |-> entered,
                 holders |-> {TaskOf[s] : s \in Running(row)} \ Exempt, kept |-> {}]
<1>1. {x \in Sessions : Tracked(call, x) /\ ~cancelled[x]} = {}
  BY DEF WakeFacts, NothingUnderWay, Tracked
<1>2. kept = {}
  BY DEF NothingUnderWay
<1>3. Holders(row, call, cancelled, kept) = {TaskOf[s] : s \in Running(row)} \ Exempt
  BY <1>1, <1>2 DEF Holders
<1> QED  BY <1>2, <1>3 DEF View

(* The same of the next state. *)
LEMMA QuietViewNext ==
  ASSUME WakeFacts', NothingUnderWay'
  PROVE  View' = [column |-> column', maxAgents |-> maxAgents', entered |-> entered',
                  holders |-> {TaskOf[s] : s \in Running(row')} \ Exempt, kept |-> {}]
<1>1. {x \in Sessions : Tracked(call', x) /\ ~cancelled'[x]} = {}
  BY DEF WakeFacts, NothingUnderWay, Tracked
<1>2. kept' = {}
  BY DEF NothingUnderWay
<1>3. Holders(row', call', cancelled', kept') = {TaskOf[s] : s \in Running(row')} \ Exempt
  BY <1>1, <1>2 DEF Holders
<1> QED  BY <1>2, <1>3 DEF View

(* A step that changes nothing the queue is started by leaves it as quiet as it
   was. *)
LEMMA NothingFreed ==
  ASSUME WakeInv, WakeFacts', NothingUnderWay' => NothingUnderWay, Running(row') = Running(row),
         UNCHANGED <<queue, spawning, limit, boardVars, quitting>>
  PROVE  NoLostWakeup'
<1> SUFFICES ASSUME NothingUnderWay', CanPromote' PROVE FALSE
  BY LostIs
<1>1. NothingUnderWay /\ WakeFacts
  BY DEF WakeInv
<1>2. View' = View
  BY <1>1, QuietView, QuietViewNext DEF boardVars
<1>3. CanPromote
  BY <1>2 DEF CanPromote, ActiveCount
<1> QED  BY <1>1, <1>3, LostIs DEF WakeInv

(* An entry the gate could not start before it may not start because another
   waits behind it, nor may an arrival that had to wait. *)
LEMMA NoneStartable ==
  ASSUME NEW v, NEW q \in Seq(Tasks), Gate!Pick(v, q) = 0
  PROVE  \A i \in DOMAIN q : ~Gate!Startable(v, q, i)
<1> DEFINE S == {i \in DOMAIN q : Gate!Startable(v, q, i)}
<1>1. CASE S # {}
  <2>1. S \in SUBSET (1 .. Len(q)) /\ Len(q) \in Nat
    OBVIOUS
  <2>2. \E x \in S : \A y \in S : x <= y
    <3> HIDE DEF S
    <3> QED BY <1>1, <2>1, LeastElement
  <2>3. Gate!Pick(v, q) \in S
    BY <1>1, <2>2 DEF Gate!Pick
  <2> QED  BY <2>3
<1> QED  BY <1>1

(* An arrival that has to wait lets no other entry of the queue start. *)
LEMMA ArrivalStartsNone ==
  ASSUME NEW v, NEW q \in Seq(Tasks), NEW t \in Tasks, v.entered \in [Tasks -> Nat], v.kept = {},
         Gate!Pick(v, q) = 0, Gate!MustWait(v, q, t)
  PROVE  Gate!Pick(v, Append(q, t)) = 0
<1> DEFINE a == Append(q, t)
           n == Len(q) + 1
<1>1. /\ Len(q) \in Nat /\ DOMAIN q = 1 .. Len(q) /\ DOMAIN a = 1 .. n /\ a[n] = t
      /\ \A i \in DOMAIN q : a[i] = q[i] /\ q[i] \in Tasks /\ i \in DOMAIN a
      /\ n \notin DOMAIN q
  OBVIOUS
<1> HIDE DEF a, n
<1>2. ASSUME NEW i \in DOMAIN q, Gate!Startable(v, a, i) PROVE FALSE
  <2>1. ~Gate!Startable(v, q, i)
    BY NoneStartable
  <2>2. Gate!FirstInLine(v, a, i) => Gate!FirstInLine(v, q, i)
    BY <1>1 DEF Gate!FirstInLine
  <2> QED  BY <1>1, <1>2, <2>1, <2>2 DEF Gate!Startable
<1>3. ~Gate!Startable(v, a, n)
  <2>1. Gate!Capped(v, t)
    BY DEF Gate!MustWait
  <2>2. CASE ~Gate!HasRoom(v, t)
    BY <1>1, <2>1, <2>2 DEF Gate!Startable
  <2>3. CASE \E i \in DOMAIN q : /\ q[i] # t /\ Gate!SameColumn(v, q[i], t)
                                 /\ Gate!EntersFirst(v, q[i], i, t, Len(q) + 1)
    <3>1. PICK i \in DOMAIN q : /\ Gate!SameColumn(v, q[i], t)
                                /\ Gate!EntersFirst(v, q[i], i, t, n)
      BY <2>3 DEF n
    <3>2. v.entered[q[i]] \in Nat /\ v.entered[t] \in Nat /\ i < n /\ i \in Nat /\ n \in Nat
      BY <1>1 DEF n
    <3>a. i # n /\ i \in DOMAIN a
      BY <1>1, <3>2
    <3>b. Gate!SameColumn(v, t, q[i])
      BY <3>1, Zenon DEF Gate!SameColumn
    <3>3. Gate!SameColumn(v, t, q[i]) /\ ~Gate!EntersFirst(v, t, n, q[i], i)
      BY <3>1, <3>2, <3>b DEF Gate!EntersFirst
    <3>4. ~Gate!FirstInLine(v, a, n)
      BY <1>1, <3>a, <3>3 DEF Gate!FirstInLine
    <3> QED  BY <1>1, <2>1, <3>4 DEF Gate!Startable
  <2> QED  BY <2>2, <2>3 DEF Gate!MustWait
<1>4. {i \in DOMAIN a : Gate!Startable(v, a, i)} = {}
  BY <1>1, <1>2, <1>3 DEF n
<1> QED  BY <1>4 DEF Gate!Pick, a

-----------------------------------------------------------------------------
(* A turn of the loop makes no agent run: what held of the rows and calls that
   were handed to it holds after it. *)
LEMMA TurnKeepsFacts ==
  ASSUME NEW r, NEW c \in [Sessions -> CallStages], NEW q, NEW n, NEW l, Turn(r, c, q, n, l),
         \A x \in ToSet(q) : x \in Sessions /\ row'[x] # "running",
         \A x \in Sessions : row'[x] = "running" =>
           c[x] = "done" /\ proc'[x] \in {"live", "killed"},
         \A x \in Sessions : c[x] = "abandoned" => cancelled'[x]
  PROVE  WakeFacts'
<1>1. CASE call' = c
  BY <1>1 DEF WakeFacts
<1>2. CASE \E x \in ToSet(q) : call' = [c EXCEPT ![x] = "shell"]
  <2>1. PICK x \in ToSet(q) : call' = [c EXCEPT ![x] = "shell"]
    BY <1>2
  <2>2. \A y \in Sessions : y # x => call'[y] = c[y]
    BY <2>1
  <2>3. row'[x] # "running" /\ call'[x] = "shell"
    BY <2>1
  <2> QED  BY <2>2, <2>3 DEF WakeFacts
<1> QED  BY <1>1, <1>2 DEF Turn

(* What the steps below use of the invariant. *)
LEMMA WakeBasics ==
  ASSUME WakeInv
  PROVE  /\ CoreInv /\ WakeFacts /\ RunningHeld /\ NoLostWakeup
         /\ RowTypeOK /\ QueueTypeOK /\ BoardTypeOK
         /\ row \in [Sessions -> {"none", "queued", "running", "exited", "suspended", "removed"}]
         /\ proc \in [Sessions -> {"none", "live", "killed", "gone"}]
         /\ call \in [Sessions -> CallStages] /\ cancelled \in [Sessions -> BOOLEAN]
         /\ queue \in Seq(Sessions) /\ IsInjective(queue)
         /\ (loop = Idle => ~dirty) /\ ToSet(queue) \subseteq Sessions
         /\ \A x \in ToSet(queue) : row[x] # "running" /\ call[x] = "none"
<1>1. CoreInv /\ WakeFacts /\ RunningHeld /\ NoLostWakeup
  BY DEF WakeInv
<1>2. RowTypeOK /\ QueueTypeOK /\ BoardTypeOK
  BY <1>1, CoreBasics
<1>3. ASSUME NEW x \in ToSet(queue)
      PROVE  row[x] # "running" /\ call[x] = "none"
  BY <1>1, <1>3, CoreBasics DEF QueueCore, WakeFacts
<1> QED  BY <1>1, <1>2, <1>3, CoreBasics DEF RowTypeOK

(* A spawn's end, as the loop sees it. *)
LEMMA ReturnKeepsFacts ==
  ASSUME WakeInv, NEW s \in Sessions, NEW e \in {"done", "abandoned"}, call[s] \in InCall,
         SpawnReturns(s, row', [call EXCEPT ![s] = e]),
         e = "abandoned" => cancelled[s],
         UNCHANGED cancelled,
         \A x \in Sessions : row'[x] = "running" =>
            \/ row[x] = "running" /\ proc'[x] = proc[x]
            \/ x = s /\ e = "done" /\ proc'[x] = "live"
  PROVE  WakeFacts' /\ NoLostWakeup'
<1> DEFINE c == [call EXCEPT ![s] = e]
<1>1. Turn(row', c, queue, spawning - 1, IF loop = s THEN Idle ELSE loop)
  BY WakeBasics, SpawnReturnsIsTurn
<1>2. c \in [Sessions -> CallStages]
  BY WakeBasics DEF CallStages
<1>3. \A x \in Sessions : row[x] = "running" => x # s
  BY WakeBasics DEF WakeFacts, InCall
<1>4. \A x \in Sessions : row'[x] = "running" => c[x] = "done" /\ proc'[x] \in {"live", "killed"}
  BY <1>3, WakeBasics DEF WakeFacts
<1>5. \A x \in Sessions : c[x] = "abandoned" => cancelled'[x]
  BY WakeBasics DEF WakeFacts
<1>6. \A x \in ToSet(queue) : x \in Sessions /\ row'[x] # "running"
  BY WakeBasics DEF InCall
<1>7. NoLostWakeup'
  BY WakeBasics, ReturnLeavesNothing
<1> HIDE DEF c
<1>8. WakeFacts'
  BY <1>1, <1>2, <1>4, <1>5, <1>6, TurnKeepsFacts
<1> QED  BY <1>7, <1>8

(* The same of a step that frees a slot and notifies. *)
LEMMA NotifyKeepsFacts ==
  ASSUME WakeInv, NEW q \in Seq(Sessions), IsInjective(q), ToSet(q) \subseteq ToSet(queue),
         NotifySlotFreed(row', call, q, spawning),
         \A x \in Sessions : cancelled[x] => cancelled'[x],
         \A x \in Sessions : row'[x] = "running" =>
            row[x] = "running" /\ proc'[x] \in {"live", "killed"}
  PROVE  WakeFacts' /\ NoLostWakeup'
<1>1. Turn(row', call, q, spawning, loop)
  BY NotifyIsTurn
<1>2. NoLostWakeup'
  BY NotifyLeavesNothing
<1>3. \A x \in ToSet(q) : x \in Sessions /\ row'[x] # "running"
  BY WakeBasics
<1>4. WakeFacts'
  BY <1>1, <1>3, WakeBasics, TurnKeepsFacts DEF WakeFacts
<1> QED  BY <1>2, <1>4

(* And of one that leaves the queue aside, and is no quieter for it. *)
LEMMA AsideKeepsFacts ==
  ASSUME WakeInv, UNCHANGED <<call, queue, spawning, limit, boardVars, quitting>>,
         Running(row') = Running(row), NothingUnderWay' => NothingUnderWay,
         \A x \in Sessions : cancelled[x] => cancelled'[x],
         \A x \in Sessions : row[x] = "running" => proc'[x] \in {"live", "killed"}
  PROVE  WakeFacts' /\ NoLostWakeup'
<1>1. WakeFacts'
  BY WakeBasics DEF WakeFacts, Running
<1> QED  BY <1>1, NothingFreed

-----------------------------------------------------------------------------
(* A spawn that has to wait is not an entry the queue could start, unless
   something is under way that will look at it. *)
LEMMA QueuedSpawnWakes ==
  ASSUME WakeInv, NEW s \in Sessions, Spawn(s), ShouldQueue(s)
  PROVE  WakeFacts' /\ NoLostWakeup'
<1>1. /\ row[s] = "none" /\ ~quitting
      /\ row' = [row EXCEPT ![s] = "queued"] /\ queue' = Append(queue, s)
      /\ UNCHANGED <<call, loop, spawning, proc, cancelled, susp, limit, boardVars, kept,
                     drainDue, quitting>>
  BY DEF Spawn
<1>2. Running(row') = Running(row)
  BY <1>1, WakeBasics DEF Running
<1>3. WakeFacts'
  BY <1>1, <1>2, WakeBasics DEF WakeFacts, Running
<1> SUFFICES ASSUME NothingUnderWay', CanPromote' PROVE FALSE
  BY <1>3, LostIs
<1>4. NothingUnderWay
  BY <1>1 DEF NothingUnderWay
<1>5. ~CanPromote
  BY <1>4, WakeBasics, LostIs
<1>6. View' = View /\ View.kept = {} /\ View.entered = entered
  <2>1. View = [column |-> column, maxAgents |-> maxAgents, entered |-> entered,
                holders |-> {TaskOf[x] : x \in Running(row)} \ Exempt, kept |-> {}]
    BY <1>4, QuietView, WakeBasics
  <2>2. View' = [column |-> column', maxAgents |-> maxAgents', entered |-> entered',
                 holders |-> {TaskOf[x] : x \in Running(row')} \ Exempt, kept |-> {}]
    BY <1>3, QuietViewNext
  <2>3. UNCHANGED <<column, maxAgents, entered>>
    BY <1>1 DEF boardVars
  <2> QED  BY <1>2, <2>1, <2>2, <2>3
<1>7. entered \in [Tasks -> Nat]
  BY WakeBasics DEF BoardTypeOK
<1>8. ActiveCount(row, spawning) < limit /\ Gate!Pick(View', QueueTasks(queue')) # 0
  BY <1>1, <1>2 DEF CanPromote, ActiveCount
<1> DEFINE q == QueueTasks(queue)
           t == TaskOf[s]
<1>9. q \in Seq(Tasks) /\ t \in Tasks /\ QueueTasks(queue') = Append(q, t)
  <2>1. q \in Seq(Tasks) /\ Len(q) = Len(queue) /\ t \in Tasks
    BY WakeBasics, SessionAssumption DEF QueueTasks
  <2>2. QueueTasks(Append(queue, s)) = Append(q, t)
    BY <2>1, WakeBasics DEF QueueTasks
  <2> QED  BY <1>1, <2>1, <2>2
<1>10. Gate!Pick(View, q) = 0
  <2>1. CASE queue = <<>>
    <3>1. q = <<>>
      BY <2>1 DEF QueueTasks
    <3>2. Gate!Pick(View, q) \in {0} \cup DOMAIN q
      <4> DEFINE v == View
      <4> HIDE DEF v, q
      <4> QED BY <1>9, PickIsIndex
    <3> QED  BY <3>1, <3>2
  <2>2. CASE queue # <<>>
    BY <1>1, <1>5, <1>8, <2>2 DEF CanPromote
  <2> QED  BY <2>1, <2>2
<1>11. Gate!MustWait(View, q, t)
  <2>1. ActiveCount(row, spawning) \in Nat /\ limit \in Nat
    <3>1. Cardinality(Running(row)) \in Nat
      BY SessionAssumption, FS_Subset, FS_CardinalityType DEF Running
    <3>2. limit \in Nat /\ spawning \in Nat
      BY WakeBasics, SessionAssumption DEF QueueTypeOK, BoardTypeOK
    <3> QED  BY <3>1, <3>2 DEF ActiveCount
  <2> QED  BY <1>8, <2>1 DEF ShouldQueue
<1>12. Gate!Pick(View, Append(q, t)) = 0
  <2> DEFINE v == View
  <2>1. v.entered \in [Tasks -> Nat] /\ v.kept = {} /\ Gate!Pick(v, q) = 0 /\ Gate!MustWait(v, q, t)
    BY <1>6, <1>7, <1>10, <1>11
  <2> HIDE DEF v, q, t
  <2>2. Gate!Pick(v, Append(q, t)) = 0
    BY <2>1, <1>9, ArrivalStartsNone
  <2> QED  BY <2>2 DEF v
<1> QED  BY <1>6, <1>8, <1>9, <1>12

(* A spawn frees no slot: it starts at once, or waits (QueuedSpawnWakes). *)
LEMMA SpawnWakes ==
  ASSUME WakeInv, NEW s \in Sessions, Spawn(s)
  PROVE  WakeFacts' /\ NoLostWakeup'
<1>1. CASE ~ShouldQueue(s)
  <2>1. /\ row[s] = "none" /\ UNCHANGED <<row, proc, cancelled>>
        /\ call' = [call EXCEPT ![s] = "shell"]
    BY <1>1 DEF Spawn
  <2>2. call'[s] = "shell" /\ \A x \in Sessions : x # s => call'[x] = call[x]
    BY <2>1, WakeBasics
  <2>3. WakeFacts'
    BY <2>1, <2>2, WakeBasics DEF WakeFacts
  <2>4. ~NothingUnderWay'
    BY <2>2 DEF NothingUnderWay, InCall
  <2> QED  BY <2>3, <2>4, LostIs
<1> QED  BY <1>1, QueuedSpawnWakes

(* The steps of a spawn under way. *)
LEMMA PipelineWakes ==
  ASSUME WakeInv, NEW s \in Sessions, RefuseStart(s) \/ SpawnStep(s)
  PROVE  WakeFacts' /\ NoLostWakeup'
<1>c. call[s] \in InCall
  BY DEF RefuseStart, SpawnStep, ShellResolved, FilesReady, HostAnswers, HostFails, InCall
<1>n. row[s] # "running"
  BY <1>c, WakeBasics DEF WakeFacts, InCall
<1>a. \A x \in Sessions : AbandonedRow(s)[x] = "running" => row[x] = "running"
  BY WakeBasics DEF AbandonedRow
<1>1. CASE RefuseStart(s)
  <2>1. /\ SpawnReturns(s, row', [call EXCEPT ![s] = "done"])
        /\ \A x \in Sessions : row'[x] = "running" => row[x] = "running"
        /\ UNCHANGED <<cancelled, proc>>
    BY <1>1 DEF RefuseStart
  <2> QED  BY <2>1, <1>c, ReturnKeepsFacts
<1>2. CASE (ShellResolved(s) \/ FilesReady(s)) /\ cancelled[s]
  <2>1. /\ SpawnReturns(s, row', [call EXCEPT ![s] = "done"])
        /\ row' = AbandonedRow(s)
        /\ UNCHANGED <<cancelled, proc>>
    BY <1>2 DEF ShellResolved, FilesReady
  <2> QED  BY <2>1, <1>a, <1>c, ReturnKeepsFacts
<1>3. CASE (ShellResolved(s) \/ FilesReady(s)) /\ ~cancelled[s]
  <2>1. /\ UNCHANGED <<row, cancelled>>
        /\ call' = [call EXCEPT ![s] = "files"] \/ call' = [call EXCEPT ![s] = "host"]
        /\ \A x \in Sessions : (proc'[x] = proc[x] \/ (proc[x] = "live" /\ proc'[x] = "killed"))
    <3>1. CASE ShellResolved(s)
      <4>1. /\ UNCHANGED <<row, cancelled>> /\ call' = [call EXCEPT ![s] = "files"]
            /\ \E rows : proc' = [x \in Sessions |->
                                   IF x \in rows /\ handle[x] /\ proc[x] = "live"
                                   THEN "killed" ELSE proc[x]]
        BY <1>3, <3>1 DEF ShellResolved, QueueAside
      <4>2. PICK rows : proc' = [x \in Sessions |->
                                   IF x \in rows /\ handle[x] /\ proc[x] = "live"
                                   THEN "killed" ELSE proc[x]]
        BY <4>1
      <4>3. \A x \in Sessions : (proc'[x] = proc[x] \/ (proc[x] = "live" /\ proc'[x] = "killed"))
        BY <4>2
      <4> QED  BY <4>1, <4>3
    <3>2. CASE FilesReady(s)
      <4>1. UNCHANGED <<row, cancelled, proc>> /\ call' = [call EXCEPT ![s] = "host"]
        BY <1>3, <3>2 DEF FilesReady, QueueAside
      <4> QED  BY <4>1
    <3> QED  BY <1>3, <3>1, <3>2
  <2>2. call'[s] \in InCall /\ \A x \in Sessions : x # s => call'[x] = call[x]
    BY <2>1, WakeBasics DEF InCall
  <2>3. WakeFacts'
    BY <2>1, <2>2, <1>n, WakeBasics DEF WakeFacts, InCall
  <2>4. ~NothingUnderWay'
    BY <2>2 DEF NothingUnderWay
  <2> QED  BY <2>3, <2>4, LostIs
<1>4. CASE HostAnswers(s)
  <2>0. cancelled' = cancelled
    BY <1>4 DEF HostAnswers
  <2>1. CASE cancelled[s]
    <3>1. /\ SpawnReturns(s, row', [call EXCEPT ![s] = "abandoned"])
          /\ row' = AbandonedRow(s) /\ proc' = [proc EXCEPT ![s] = "killed"]
      BY <1>4, <2>1 DEF HostAnswers, Overtaken
    <3>2. \A x \in Sessions : row'[x] = "running" => row[x] = "running" /\ proc'[x] = proc[x]
      BY <3>1, <1>a, <1>n, WakeBasics
    <3> QED  BY <3>1, <3>2, <2>0, <2>1, <1>c, ReturnKeepsFacts
  <2>2. CASE ~cancelled[s] /\ Overtaken(s)
    <3>1. /\ SpawnReturns(s, row', [call EXCEPT ![s] = "done"])
          /\ row' = row /\ proc' = [proc EXCEPT ![s] = "killed"]
      BY <1>4, <2>2 DEF HostAnswers
    <3>2. \A x \in Sessions : row'[x] = "running" => row[x] = "running" /\ proc'[x] = proc[x]
      BY <3>1, <1>n, WakeBasics
    <3> QED  BY <3>1, <3>2, <2>0, <1>c, ReturnKeepsFacts
  <2>3. CASE ~Overtaken(s)
    <3>1. /\ SpawnReturns(s, row', [call EXCEPT ![s] = "done"])
          /\ row' = Registered(s, "running") /\ proc' = [proc EXCEPT ![s] = "live"]
      BY <1>4, <2>3 DEF HostAnswers, Overtaken
    <3>2. \A x \in Sessions : row'[x] = "running" =>
             \/ row[x] = "running" /\ proc'[x] = proc[x]
             \/ x = s /\ proc'[x] = "live"
      BY <3>1, WakeBasics DEF Registered
    <3> QED  BY <3>1, <3>2, <2>0, <1>c, ReturnKeepsFacts
  <2> QED  BY <2>1, <2>2, <2>3
<1>5. CASE HostFails(s)
  <2>1. /\ SpawnReturns(s, row', [call EXCEPT ![s] = "done"])
        /\ row' = AbandonedRow(s) \/ row' = Registered(s, "exited")
        /\ UNCHANGED <<cancelled, proc>>
    BY <1>5 DEF HostFails
  <2>2. \A x \in Sessions : row'[x] = "running" => row[x] = "running"
    BY <2>1, <1>a DEF Registered
  <2> QED  BY <2>1, <2>2, <1>c, ReturnKeepsFacts
<1> QED  BY <1>1, <1>2, <1>3, <1>4, <1>5 DEF SpawnStep

-----------------------------------------------------------------------------
(* A kill leaves the agents that run as they are. *)
LEMMA KilledRowRuns ==
  ASSUME WakeInv, NEW s \in Sessions
  PROVE  Running(KilledRow(s)) = Running(row)
BY WakeBasics DEF Running, KilledRow, InQueue

(* A removal: the notification that ends the kill still counts the agent, and
   the exit to come notifies again. *)
LEMMA RemovalWakes ==
  ASSUME WakeInv, NEW s \in Sessions, RemoveSession(s)
  PROVE  WakeFacts' /\ NoLostWakeup'
<1> DEFINE q == Without(queue, s)
<1>1. q \in Seq(Sessions) /\ IsInjective(q) /\ ToSet(q) = ToSet(queue) \ {s}
  BY WakeBasics, WithoutElements
<1> HIDE DEF q
<1>2. /\ row' = [row EXCEPT ![s] = "removed"]
      /\ proc' = IF handle[s] /\ proc[s] = "live" THEN [proc EXCEPT ![s] = "killed"] ELSE proc
      /\ cancelled' = [cancelled EXCEPT ![s] = @ \/ Tracked(call, s)]
      /\ NotifySlotFreed(KilledRow(s), call, q, spawning)
  BY DEF RemoveSession, KillPty, q
<1>3. Turn(KilledRow(s), call, q, spawning, loop)
  BY <1>1, <1>2, NotifyIsTurn
<1>4. \A x \in ToSet(q) : x \in Sessions /\ x # s /\ row'[x] # "running"
  BY <1>1, <1>2, WakeBasics
<1>5. \A x \in Sessions : row'[x] = "running" => row[x] = "running" /\ x # s /\ proc'[x] = proc[x]
  BY <1>2, WakeBasics
<1>6. \A x \in Sessions : call[x] = "abandoned" => cancelled'[x]
  BY <1>2, WakeBasics DEF WakeFacts
<1>7. WakeFacts'
  BY <1>3, <1>4, <1>5, <1>6, WakeBasics, TurnKeepsFacts DEF WakeFacts
<1>8. CASE row[s] # "running"
  <2>1. Running(KilledRow(s)) = Running(row')
    BY <1>2, <1>8, KilledRowRuns, WakeBasics DEF Running
  <2> QED  BY <1>1, <1>2, <1>7, <2>1, NotifyLeavesNothing
<1>9. CASE row[s] = "running"
  <2>1. call[s] = "done" /\ proc[s] \in {"live", "killed"}
    BY <1>9, WakeBasics DEF WakeFacts
  <2>2. proc[s] = "live" => handle[s]
    BY <1>9, WakeBasics DEF RunningHeld
  <2>3. proc'[s] = "killed"
    BY <1>2, <2>1, <2>2, WakeBasics
  <2>4. call'[s] = "done"
    BY <1>3, <1>4, <2>1, WakeBasics DEF Turn
  <2>5. ~NothingUnderWay'
    BY <2>3, <2>4 DEF NothingUnderWay
  <2> QED  BY <1>7, <2>5, LostIs
<1> QED  BY <1>8, <1>9

(* Exits, kills and suspends. *)
LEMMA ExitWakes ==
  ASSUME WakeInv, NEW s \in Sessions, PtyExit(s)
  PROVE  WakeFacts' /\ NoLostWakeup'
<1>0. /\ proc' = [proc EXCEPT ![s] = "gone"]
      /\ UNCHANGED <<cancelled, susp, limit, boardVars, kept, drainDue, quitting>>
  BY DEF PtyExit
<1>1. CASE call[s] = "abandoned"
  <2>1. row' = row /\ call' = [call EXCEPT ![s] = "done"] /\ UNCHANGED <<queue, loop, spawning>>
    BY <1>1 DEF PtyExit, QueueAside, queueVars
  <2>2. row[s] # "running"
    BY <1>1, WakeBasics DEF WakeFacts
  <2>3. WakeFacts'
    BY <1>0, <2>1, <2>2, WakeBasics DEF WakeFacts
  <2>4. NothingUnderWay' => NothingUnderWay
    BY <1>0, <1>1, <2>1, WakeBasics DEF NothingUnderWay, InCall
  <2> QED  BY <1>0, <2>1, <2>3, <2>4, NothingFreed DEF Running
<1>2. CASE call[s] # "abandoned" /\ quitting
  <2>1. row' = row /\ call' = call
    BY <1>2 DEF PtyExit, QueueAside
  <2>2. \A x \in Sessions : row[x] # "running"
    BY <1>2, WakeBasics, CoreBasics DEF RowCore, IsLive
  <2>3. WakeFacts'
    BY <1>0, <2>1, <2>2, WakeBasics DEF WakeFacts
  <2> QED  BY <1>0, <1>2, <2>3 DEF NoLostWakeup, CanPromote
<1>3. CASE call[s] # "abandoned" /\ ~quitting
  <2>1. /\ row' = IF row[s] = "running" THEN [row EXCEPT ![s] = "exited"] ELSE row
        /\ NotifySlotFreed(row', call, queue, spawning)
    BY <1>3 DEF PtyExit
  <2>2. \A x \in Sessions : row'[x] = "running" => row[x] = "running" /\ x # s
    BY <2>1, WakeBasics
  <2>3. \A x \in Sessions : row'[x] = "running" =>
           row[x] = "running" /\ proc'[x] \in {"live", "killed"}
    BY <1>0, <2>2, WakeBasics DEF WakeFacts
  <2> QED  BY <1>0, <2>1, <2>3, WakeBasics, NotifyKeepsFacts
<1> QED  BY <1>1, <1>2, <1>3

(* A kill notifies the queue of the slot it frees. *)
LEMMA KillWakes ==
  ASSUME WakeInv, NEW s \in Sessions, Kill(s)
  PROVE  WakeFacts' /\ NoLostWakeup'
<1> DEFINE q == Without(queue, s)
<1>1. q \in Seq(Sessions) /\ IsInjective(q) /\ ToSet(q) = ToSet(queue) \ {s}
  BY WakeBasics, WithoutElements
<1>2. /\ row' = KilledRow(s)
      /\ proc' = IF handle[s] /\ proc[s] = "live" THEN [proc EXCEPT ![s] = "killed"] ELSE proc
      /\ cancelled' = [cancelled EXCEPT ![s] = @ \/ Tracked(call, s)]
      /\ NotifySlotFreed(row', call, q, spawning)
  BY DEF Kill, KillPty
<1> HIDE DEF q
<1>3. \A x \in Sessions : row'[x] = "running" => row[x] = "running"
  BY <1>2, WakeBasics DEF KilledRow
<1>4. \A x \in Sessions : row[x] = "running" => proc'[x] \in {"live", "killed"}
  BY <1>2, WakeBasics DEF WakeFacts
<1>5. \A x \in Sessions : cancelled[x] => cancelled'[x]
  BY <1>2, WakeBasics
<1> QED  BY <1>1, <1>2, <1>3, <1>4, <1>5, NotifyKeepsFacts

(* A suspend that has begun is under way: its end will notify the queue. *)
LEMMA BeginSuspendWakes ==
  ASSUME WakeInv, NEW s \in Sessions, NEW k, BeginSuspend(s, k)
  PROVE  WakeFacts' /\ NoLostWakeup'
<1>1. /\ row' = [row EXCEPT ![s] = "suspended"] /\ UNCHANGED <<proc, call>>
      /\ cancelled' = [cancelled EXCEPT ![s] = @ \/ Tracked(call, s)]
      /\ susp' = [susp EXCEPT ![s] = IF handle[s] THEN "exit" ELSE "scan"]
  BY DEF BeginSuspend
<1>2. WakeFacts'
  BY <1>1, WakeBasics DEF WakeFacts
<1>3. susp'[s] \in {"exit", "scan"}
  BY <1>1, WakeBasics DEF RowTypeOK
<1>4. ~NothingUnderWay'
  BY <1>3 DEF NothingUnderWay
<1> QED  BY <1>2, <1>4, LostIs

(* It is under way until its scan, which notifies the queue. *)
LEMMA SuspendStepWakes ==
  ASSUME WakeInv, NEW s \in Sessions, SuspendStep(s)
  PROVE  WakeFacts' /\ NoLostWakeup'
<1>t. susp \in [Sessions -> {"none", "exit", "propagate", "scan", "settle"}]
  BY WakeBasics DEF RowTypeOK
<1>1. CASE SuspendKills(s)
  <2>1. /\ UNCHANGED <<row, call, cancelled>> /\ proc' = [proc EXCEPT ![s] = "killed"]
        /\ susp' = [susp EXCEPT ![s] = "propagate"]
    BY <1>1 DEF SuspendKills, spawnVars
  <2>2. WakeFacts'
    BY <2>1, WakeBasics DEF WakeFacts
  <2>3. ~NothingUnderWay'
    BY <2>1, <1>t DEF NothingUnderWay
  <2> QED  BY <2>2, <2>3, LostIs
<1>2. CASE SuspendSeesExit(s)
  <2>1. UNCHANGED <<row, call, cancelled, proc>> /\ susp' = [susp EXCEPT ![s] = "scan"]
    BY <1>2 DEF SuspendSeesExit, spawnVars
  <2>2. WakeFacts'
    BY <2>1, WakeBasics DEF WakeFacts
  <2>3. ~NothingUnderWay'
    BY <2>1, <1>t DEF NothingUnderWay
  <2> QED  BY <2>2, <2>3, LostIs
<1>3. CASE SuspendFinishes(s)
  <2> DEFINE q == Without(queue, s)
  <2>1. q \in Seq(Sessions) /\ IsInjective(q) /\ ToSet(q) = ToSet(queue) \ {s}
    BY WakeBasics, WithoutElements
  <2>2. UNCHANGED <<row, proc, cancelled>> /\ NotifySlotFreed(row', call, q, spawning)
    BY <1>3 DEF SuspendFinishes
  <2> HIDE DEF q
  <2>3. \A x \in Sessions : row'[x] = "running" =>
           row[x] = "running" /\ proc'[x] \in {"live", "killed"}
    BY <2>2, WakeBasics DEF WakeFacts
  <2> QED  BY <2>1, <2>2, <2>3, NotifyKeepsFacts
<1>4. CASE SuspendSettles(s)
  <2>1. /\ susp[s] = "settle" /\ susp' = [susp EXCEPT ![s] = "none"]
        /\ UNCHANGED <<row, proc, call, cancelled, queue, loop, spawning, limit, boardVars, kept,
                       drainDue, quitting>>
    BY <1>4 DEF SuspendSettles, spawnVars, queueVars
  <2>2. NothingUnderWay' => NothingUnderWay
    BY <2>1, <1>t DEF NothingUnderWay
  <2>3. \A x \in Sessions : row[x] = "running" => proc'[x] \in {"live", "killed"}
    BY <2>1, WakeBasics DEF WakeFacts
  <2> QED  BY <2>1, <2>2, <2>3, AsideKeepsFacts
<1> QED  BY <1>1, <1>2, <1>3, <1>4 DEF SuspendStep

(* The pause of a refused promotion begins a suspend, or frees no slot. *)
LEMMA PauseRefusedWakes ==
  ASSUME WakeInv, NEW s \in Sessions, PauseRefused(s)
  PROVE  WakeFacts' /\ NoLostWakeup'
<1>1. CASE BeginSuspend(s, FALSE)
  BY <1>1, BeginSuspendWakes
<1>2. CASE ~BeginSuspend(s, FALSE)
  <2>1. /\ row' = IF row[s] = "queued" THEN [row EXCEPT ![s] = "exited"] ELSE row
        /\ UNCHANGED <<proc, call, cancelled, susp, queue, loop, spawning, limit, boardVars, kept,
                       drainDue, quitting>>
    BY <1>2 DEF PauseRefused, queueVars
  <2>2. NothingUnderWay' => NothingUnderWay
    BY <2>1 DEF NothingUnderWay
  <2>3. Running(row') = Running(row)
    BY <2>1, WakeBasics DEF Running
  <2>4. \A x \in Sessions : row[x] = "running" => proc'[x] \in {"live", "killed"}
    BY <2>1, WakeBasics DEF WakeFacts
  <2> QED  BY <2>1, <2>2, <2>3, <2>4, AsideKeepsFacts
<1> QED  BY <1>1, <1>2

-----------------------------------------------------------------------------
(* The steps of a task, of the settings and of the board. *)
LEMMA NotifyAlone ==
  ASSUME WakeInv, UNCHANGED <<row, proc, cancelled>>,
         \/ queue = <<>> /\ QueueAside(call)
         \/ NotifySlotFreed(row, call, queue, spawning)
  PROVE  WakeFacts' /\ NoLostWakeup'
<1>1. CASE queue = <<>> /\ QueueAside(call)
  <2>1. WakeFacts'
    BY <1>1, WakeBasics DEF WakeFacts, QueueAside
  <2> QED  BY <1>1, <2>1 DEF QueueAside, queueVars, NoLostWakeup, CanPromote
<1>2. CASE NotifySlotFreed(row, call, queue, spawning)
  <2>1. NotifySlotFreed(row', call, queue, spawning)
    BY <1>2
  <2>2. \A x \in Sessions : row'[x] = "running" =>
           row[x] = "running" /\ proc'[x] \in {"live", "killed"}
    BY WakeBasics DEF WakeFacts
  <2> QED  BY <2>1, <2>2, WakeBasics, NotifyKeepsFacts
<1> QED  BY <1>1, <1>2

(* What the board changes of columns and limits notifies the queue. *)
LEMMA BoardWakes ==
  ASSUME WakeInv,
         \/ \E t \in Tasks : CancelTaskSpawns(t) \/ ReleaseColumnSlot(t)
         \/ \E n \in Limits : SetMaxConcurrent(n)
         \/ \E t \in Tasks, c \in Columns : MoveTask(t, c)
         \/ \E c \in Columns, n \in ColumnLimits : SetColumnLimit(c, n)
         \/ DrainQueue
         \/ KillAll
  PROVE  WakeFacts' /\ NoLostWakeup'
<1>1. ASSUME NEW t \in Tasks, CancelTaskSpawns(t)
      PROVE  WakeFacts' /\ NoLostWakeup'
  <2>1. /\ cancelled' = [s \in Sessions |-> cancelled[s] \/ (TaskOf[s] = t /\ Tracked(call, s))]
        /\ UNCHANGED <<row, proc, call>>
    BY <1>1 DEF CancelTaskSpawns
  <2>2. \E s \in Sessions : call[s] \in InCall
    BY <1>1, WakeBasics DEF CancelTaskSpawns, SessionsOf, Tracked, WakeFacts
  <2>3. WakeFacts'
    BY <2>1, WakeBasics DEF WakeFacts
  <2>4. ~NothingUnderWay'
    BY <2>1, <2>2 DEF NothingUnderWay
  <2> QED  BY <2>3, <2>4, LostIs
<1>2. ASSUME NEW t \in Tasks, ReleaseColumnSlot(t)
      PROVE  WakeFacts' /\ NoLostWakeup'
  BY <1>2, NotifyAlone DEF ReleaseColumnSlot
<1>3. ASSUME NEW n \in Limits, SetMaxConcurrent(n)
      PROVE  WakeFacts' /\ NoLostWakeup'
  BY <1>3, NotifyAlone DEF SetMaxConcurrent
<1>4. CASE \/ \E t \in Tasks, c \in Columns : MoveTask(t, c)
           \/ \E c \in Columns, n \in ColumnLimits : SetColumnLimit(c, n)
  <2>1. drainDue' /\ UNCHANGED <<row, proc, call, cancelled>>
    BY <1>4 DEF MoveTask, SetColumnLimit, spawnVars, queueVars
  <2>2. WakeFacts'
    BY <2>1, WakeBasics DEF WakeFacts
  <2> QED  BY <2>1, <2>2 DEF NoLostWakeup
<1>5. CASE DrainQueue
  BY <1>5, NotifyAlone DEF DrainQueue
<1>6. CASE KillAll
  <2>1. quitting' /\ UNCHANGED <<call, cancelled>> /\ \A s \in Sessions : row'[s] # "running"
    BY <1>6 DEF KillAll, spawnVars
  <2>2. WakeFacts'
    BY <2>1, WakeBasics DEF WakeFacts
  <2> QED  BY <2>1, <2>2 DEF NoLostWakeup, CanPromote
<1> QED  BY <1>1, <1>2, <1>3, <1>4, <1>5, <1>6

(* No step leaves an agent running without its handle: a drain, a kill and a
   suspend stop what they let go of, and an answer's registration retires the
   rows whose handles it drops. *)
LEMMA RunningStaysHeld ==
  ASSUME WakeInv, [Next]_vars
  PROVE  RunningHeld'
<1> SUFFICES ASSUME NEW x \in Sessions, row'[x] = "running", proc'[x] = "live" PROVE handle'[x]
  BY DEF RunningHeld
<1>0. (row[x] = "running" /\ proc[x] = "live") => handle[x]
  BY WakeBasics DEF RunningHeld
<1>t. /\ row \in [Sessions -> {"none", "queued", "running", "exited", "suspended", "removed"}]
      /\ proc \in [Sessions -> {"none", "live", "killed", "gone"}]
      /\ handle \in [Sessions -> BOOLEAN]
  BY WakeBasics DEF RowTypeOK
<1>a. ASSUME NEW s \in Sessions
      PROVE  /\ AbandonedRow(s)[x] = "running" => row[x] = "running"
             /\ KilledRow(s)[x] = "running" => row[x] = "running"
  BY <1>t DEF AbandonedRow, KilledRow
<1>1. CASE UNCHANGED <<handle, proc>> /\ (row[x] # "running" => row'[x] # "running")
  BY <1>0, <1>1
<1>2. ASSUME NEW s \in Sessions, Spawn(s) \/ RefuseStart(s)
      PROVE  handle'[x]
  BY <1>1, <1>2, <1>t DEF Spawn, RefuseStart
<1>3. ASSUME NEW s \in Sessions, SpawnStep(s)
      PROVE  handle'[x]
  <2>1. CASE (ShellResolved(s) \/ FilesReady(s)) /\ cancelled[s]
    BY <1>1, <1>a, <2>1 DEF ShellResolved, FilesReady
  <2>2. CASE ShellResolved(s) /\ ~cancelled[s]
    BY <1>0, <1>t, <2>2 DEF ShellResolved
  <2>3. CASE FilesReady(s) /\ ~cancelled[s]
    BY <1>1, <2>3 DEF FilesReady
  <2>4. CASE HostAnswers(s)
    BY <1>0, <1>a, <1>t, <2>4 DEF HostAnswers, Registered
  <2>5. CASE HostFails(s)
    BY <1>0, <1>a, <1>t, <2>5 DEF HostFails, Registered
  <2> QED BY <1>3, <2>1, <2>2, <2>3, <2>4, <2>5 DEF SpawnStep
<1>4. ASSUME NEW s \in Sessions, PtyExit(s) \/ Kill(s) \/ RemoveSession(s)
      PROVE  handle'[x]
  <2>1. CASE PtyExit(s)
    BY <1>0, <1>t, <2>1 DEF PtyExit
  <2>2. CASE Kill(s)
    BY <1>0, <1>a, <1>t, <2>2 DEF Kill, KillPty
  <2>3. CASE RemoveSession(s)
    BY <1>0, <1>t, <2>3 DEF RemoveSession, KillPty
  <2> QED BY <1>4, <2>1, <2>2, <2>3
<1>5. ASSUME NEW s \in Sessions, Suspend(s) \/ SuspendStep(s) \/ PauseRefused(s)
      PROVE  handle'[x]
  <2>1. CASE Suspend(s) \/ PauseRefused(s)
    BY <1>1, <1>t, <2>1 DEF Suspend, PauseRefused, BeginSuspend
  <2>2. CASE SuspendKills(s)
    BY <1>0, <1>t, <2>2 DEF SuspendKills
  <2>3. CASE SuspendSeesExit(s) \/ SuspendFinishes(s) \/ SuspendSettles(s)
    BY <1>1, <2>3 DEF SuspendSeesExit, SuspendFinishes, SuspendSettles
  <2> QED BY <1>5, <2>1, <2>2, <2>3 DEF SuspendStep
<1>6. CASE KillAll
  BY <1>6 DEF KillAll
<1>7. CASE \/ \E t \in Tasks : CancelTaskSpawns(t) \/ ReleaseColumnSlot(t)
           \/ \E n \in Limits : SetMaxConcurrent(n)
           \/ \E t \in Tasks, c \in Columns : MoveTask(t, c)
           \/ \E c \in Columns, n \in ColumnLimits : SetColumnLimit(c, n)
           \/ DrainQueue \/ UNCHANGED vars
  BY <1>1, <1>7 DEF CancelTaskSpawns, ReleaseColumnSlot, SetMaxConcurrent, MoveTask,
     SetColumnLimit, DrainQueue, vars
<1> QED BY <1>2, <1>3, <1>4, <1>5, <1>6, <1>7 DEF Next

(* Every step keeps the wake-ups. *)
LEMMA NextWakes ==
  ASSUME WakeInv, [Next]_vars
  PROVE  WakeInv'
<1>1. CoreInv' /\ RunningHeld'
  BY WakeBasics, NextKeepsCore, RunningStaysHeld
<1>2. ASSUME NEW s \in Sessions,
             \/ Spawn(s) \/ RefuseStart(s) \/ SpawnStep(s) \/ PtyExit(s) \/ Kill(s)
             \/ RemoveSession(s) \/ Suspend(s) \/ SuspendStep(s) \/ PauseRefused(s)
      PROVE  WakeFacts' /\ NoLostWakeup'
  <2>1. Suspend(s) => \E k \in BOOLEAN : BeginSuspend(s, k)
    BY DEF Suspend
  <2> QED  BY <1>2, <2>1, SpawnWakes, PipelineWakes, ExitWakes, KillWakes, RemovalWakes,
              BeginSuspendWakes, SuspendStepWakes, PauseRefusedWakes
<1>3. ASSUME UNCHANGED vars
      PROVE  WakeFacts' /\ NoLostWakeup'
  <2>1. UNCHANGED <<row, proc, call, cancelled, susp, queue, loop, spawning, limit, boardVars,
                    kept, drainDue, quitting>>
    BY <1>3 DEF vars, spawnVars, queueVars
  <2>2. NothingUnderWay' => NothingUnderWay
    BY <2>1 DEF NothingUnderWay
  <2>3. \A x \in Sessions : row[x] = "running" => proc'[x] \in {"live", "killed"}
    BY <2>1, WakeBasics DEF WakeFacts
  <2> QED  BY <2>1, <2>2, <2>3, AsideKeepsFacts
<1>4. ASSUME Next
      PROVE  WakeFacts' /\ NoLostWakeup'
  <2>1. CASE \E s \in Sessions :
               \/ Spawn(s) \/ RefuseStart(s) \/ SpawnStep(s) \/ PtyExit(s) \/ Kill(s)
               \/ RemoveSession(s) \/ Suspend(s) \/ SuspendStep(s) \/ PauseRefused(s)
    BY <2>1, <1>2
  <2>2. CASE \/ \E t \in Tasks : CancelTaskSpawns(t) \/ ReleaseColumnSlot(t)
             \/ \E n \in Limits : SetMaxConcurrent(n)
             \/ \E t \in Tasks, c \in Columns : MoveTask(t, c)
             \/ \E c \in Columns, n \in ColumnLimits : SetColumnLimit(c, n)
             \/ DrainQueue
             \/ KillAll
    BY <2>2, BoardWakes
  <2> QED  BY <1>4, <2>1, <2>2 DEF Next
<1> QED  BY <1>1, <1>3, <1>4 DEF WakeInv

(* A free slot with an entry to take it always has something under way that
   will notify the queue: a spawn that returns, an exit, a suspend, a drain or a
   released hold. *)
THEOREM NoWakeupLost == Spec => []NoLostWakeup
<1>1. Init => WakeInv
  <2>1. Init => WakeFacts /\ RunningHeld /\ NoLostWakeup
    BY DEF Init, WakeFacts, RunningHeld, NoLostWakeup, CanPromote
  <2> QED  BY <2>1, InitSafe, SafeIsCore DEF WakeInv
<1>2. WakeInv /\ [Next]_vars => WakeInv'
  BY NextWakes
<1>3. WakeInv => NoLostWakeup
  BY DEF WakeInv
<1> QED  BY <1>1, <1>2, <1>3, PTL DEF Spec

-----------------------------------------------------------------------------
(* Why starts are in turn.  The gate counts every task that holds a place when *)
(* it lets an agent in, in the middle of a step, and at the end of the step no *)
(* other task has come to hold one.                                            *)
HoldingTasks == {TaskOf[s] : s \in Sessions}

(* Column slots are kept for tasks of sessions only. *)
TurnInv == CoreInv /\ kept \subseteq HoldingTasks

(* s has room in its column, and those who entered it earlier have started. *)
InTurn(s) ==
  LET t == TaskOf[s] IN
  (t \notin Exempt /\ maxAgents'[column'[t]] # NoLimit)
    => /\ Cardinality(PlacesTaken(t)') < maxAgents'[column'[t]]
       /\ \A i \in DOMAIN queue' :
            (TaskOf[queue'[i]] \notin Exempt /\ column'[TaskOf[queue'[i]]] = column'[t])
              => entered'[t] <= entered'[TaskOf[queue'[i]]]

(* Finitely many tasks can hold a place. *)
LEMMA HoldersFinite == IsFiniteSet(HoldingTasks)
<1> DEFINE f == [s \in Sessions |-> TaskOf[s]]
<1>1. f \in Surjection(Sessions, HoldingTasks)
  BY DEF Surjection, HoldingTasks
<1> HIDE DEF f
<1> QED  BY <1>1, FS_Surjection, SessionAssumption

(* The gate saw room for t when every task that now holds a place did. *)
LEMMA RoomSeen ==
  ASSUME BoardTypeOK', NEW t \in Tasks, t \notin Exempt, NEW v,
         v.column = column', v.maxAgents = maxAgents', v.holders \subseteq HoldingTasks,
         Gate!HasRoom(v, t), maxAgents'[column'[t]] # NoLimit,
         PlacesTaken(t)' \subseteq v.holders
  PROVE  Cardinality(PlacesTaken(t)') < maxAgents'[column'[t]]
<1> DEFINE P == PlacesTaken(t)'
           O == {u \in v.holders \ {t} : Gate!SameColumn(v, u, t)}
<1>1. P \subseteq O
  BY DEF PlacesTaken, Gate!SameColumn, Gate!Capped
<1>2. IsFiniteSet(O)
  BY HoldersFinite, FS_Subset
<1>3. Cardinality(O) < maxAgents'[column'[t]]
  <2>1. Gate!Occupants(v, t) < v.maxAgents[v.column[t]]
    BY DEF Gate!HasRoom
  <2>2. Gate!Occupants(v, t) = Cardinality(O)
    BY DEF Gate!Occupants, Gate!Cardinality, Cardinality
  <2> HIDE DEF O
  <2> QED  BY <2>1, <2>2
<1>4. maxAgents'[column'[t]] \in Nat
  BY SessionAssumption DEF BoardTypeOK
<1> HIDE DEF P, O
<1>5. Cardinality(P) \in Nat /\ Cardinality(O) \in Nat /\ Cardinality(P) <= Cardinality(O)
  BY <1>1, <1>2, FS_Subset, FS_CardinalityType
<1>6. Cardinality(P) < maxAgents'[column'[t]]
  BY <1>3, <1>4, <1>5
<1> QED  BY <1>6 DEF P

(* The entry that the gate picks may start. *)
LEMMA PickStarts ==
  ASSUME NEW v, NEW q \in Seq(Tasks), Gate!Pick(v, q) # 0
  PROVE  Gate!Pick(v, q) \in DOMAIN q /\ Gate!Startable(v, q, Gate!Pick(v, q))
<1> DEFINE S == {i \in DOMAIN q : Gate!Startable(v, q, i)}
<1>1. S # {}
  BY DEF Gate!Pick
<1>2. S \in SUBSET (1 .. Len(q)) /\ Len(q) \in Nat
  OBVIOUS
<1>3. \E x \in S : \A y \in S : x <= y
  <2> HIDE DEF S
  <2> QED BY <1>1, <1>2, LeastElement
<1>4. Gate!Pick(v, q) \in S
  BY <1>1, <1>3 DEF Gate!Pick
<1> QED  BY <1>4

(* A pass of the loop starts nobody out of turn. *)
LEMMA PassInTurn ==
  ASSUME BoardTypeOK', kept' \subseteq HoldingTasks,
         NEW r, NEW c \in [Sessions -> CallStages], NEW q \in Seq(Sessions), NEW n, NEW d,
         Promote(r, c, q, n, d), Running(row') \subseteq Running(r),
         NEW s \in Sessions, c[s] \notin InCall, call'[s] \in InCall
  PROVE  InTurn(s)
<1> DEFINE i == NextIndex(r, c, q, n)
           v == ViewWith(r, c)
           w == QueueTasks(q)
           t == TaskOf[s]
<1>1. i # 0
  BY DEF Promote
<1>2. w \in Seq(Tasks) /\ DOMAIN w = DOMAIN q /\ \A j \in DOMAIN q : w[j] = TaskOf[q[j]]
  BY SessionAssumption DEF QueueTasks
<1>3. i = Gate!Pick(v, w) /\ Gate!Pick(v, w) # 0
  BY <1>1 DEF NextIndex
<1>4. i \in DOMAIN q /\ Gate!Startable(v, w, i)
  <2> HIDE DEF v, w
  <2>1. Gate!Pick(v, w) \in DOMAIN w /\ Gate!Startable(v, w, Gate!Pick(v, w))
    BY <1>2, <1>3, PickStarts
  <2> QED  BY <1>2, <1>3, <2>1
<1>5. queue' = RemoveAt(q, i) /\ call' = [c EXCEPT ![q[i]] = "shell"]
  BY <1>1 DEF Promote
<1> HIDE DEF i
<1>6. s = q[i] /\ w[i] = t /\ t \in Tasks
  BY <1>2, <1>4, <1>5, SessionAssumption
<1>7. /\ v.column = column' /\ v.maxAgents = maxAgents' /\ v.entered = entered'
      /\ v.holders = Holders(r, c, cancelled', kept')
  BY DEF ViewWith
<1> HIDE DEF v, w
<1> SUFFICES ASSUME t \notin Exempt, maxAgents'[column'[t]] # NoLimit
             PROVE  /\ Cardinality(PlacesTaken(t)') < maxAgents'[column'[t]]
                    /\ \A k \in DOMAIN queue' :
                         (TaskOf[queue'[k]] \notin Exempt /\ column'[TaskOf[queue'[k]]] = column'[t])
                           => entered'[t] <= entered'[TaskOf[queue'[k]]]
  BY DEF InTurn
<1>8. Gate!FirstInLine(v, w, i) /\ Gate!HasRoom(v, t)
  BY <1>4, <1>6, <1>7 DEF Gate!Startable, Gate!Capped
<1>9. v.holders \subseteq HoldingTasks
  BY <1>7 DEF Holders, HoldingTasks, Running
<1>10. PlacesTaken(t)' \subseteq v.holders
  <2> SUFFICES ASSUME NEW x \in Sessions, TaskOf[x] # t, TaskOf[x] \notin Exempt,
                      row'[x] = "running" \/ (call'[x] \in InCall /\ ~cancelled'[x])
               PROVE  TaskOf[x] \in v.holders
    BY DEF PlacesTaken
  <2>1. x # q[i] /\ call'[x] = c[x]
    BY <1>5, <1>6
  <2>2. x \in Running(r) \/ (Tracked(c, x) /\ ~cancelled'[x])
    BY <2>1 DEF Running, Tracked
  <2> QED  BY <1>7, <2>2 DEF Holders, Running
<1>11. Cardinality(PlacesTaken(t)') < maxAgents'[column'[t]]
  BY <1>6, <1>7, <1>8, <1>9, <1>10, RoomSeen
<1>12. ASSUME NEW k \in DOMAIN queue', TaskOf[queue'[k]] \notin Exempt,
              column'[TaskOf[queue'[k]]] = column'[t]
       PROVE  entered'[t] <= entered'[TaskOf[queue'[k]]]
  <2>1. PICK j \in DOMAIN q : j # i /\ queue'[k] = q[j]
    <3>1. /\ queue' \in Seq(Sessions) /\ Len(queue') = Len(q) - 1
          /\ \A m \in 1 .. Len(q) - 1 : queue'[m] = IF m < i THEN q[m] ELSE q[m + 1]
      BY <1>4, <1>5, RemoveAtProperties
    <3>2. k \in 1 .. Len(q) - 1 /\ Len(q) \in Nat /\ i \in 1 .. Len(q) /\ DOMAIN q = 1 .. Len(q)
      BY <1>4, <3>1
    <3>3. CASE k < i
      BY <3>1, <3>2, <3>3
    <3>4. CASE ~(k < i)
      BY <3>1, <3>2, <3>4, SMTT(30)
    <3> QED  BY <3>3, <3>4
  <2>2. w[j] = TaskOf[queue'[k]] /\ j \in DOMAIN w \ {i} /\ w[j] \in Tasks
    BY <1>2, <2>1, SessionAssumption
  <2>3. Gate!SameColumn(v, w[i], w[j])
    BY <1>6, <1>7, <1>12, <2>2 DEF Gate!SameColumn, Gate!Capped
  <2>4. Gate!EntersFirst(v, t, i, w[j], j)
    BY <1>6, <1>8, <2>2, <2>3 DEF Gate!FirstInLine
  <2>5. entered'[t] \in Nat /\ entered'[w[j]] \in Nat
    BY <1>6, <2>2 DEF BoardTypeOK
  <2> QED  BY <1>7, <2>2, <2>4, <2>5 DEF Gate!EntersFirst
<1> QED  BY <1>11, <1>12

(* Nobody starts, or one session does in its turn. *)
OnlyInTurn(c) == \A x \in Sessions : (c[x] \notin InCall /\ call'[x] \in InCall) => InTurn(x)

(* What a notification starts is in its turn. *)
LEMMA NotifyInTurn ==
  ASSUME BoardTypeOK', kept' \subseteq HoldingTasks,
         NEW r, NEW c \in [Sessions -> CallStages], NEW q \in Seq(Sessions), NEW n,
         NotifySlotFreed(r, c, q, n), Running(row') \subseteq Running(r)
  PROVE  OnlyInTurn(c)
BY PassInTurn DEF NotifySlotFreed, OnlyInTurn

(* What a returning spawn starts next is in its turn. *)
LEMMA ReturnInTurn ==
  ASSUME BoardTypeOK', kept' \subseteq HoldingTasks, QueueTypeOK,
         NEW s \in Sessions, NEW e \in {"done", "abandoned"}, call[s] \in InCall,
         NEW r, SpawnReturns(s, r, [call EXCEPT ![s] = e]), row' = r
  PROVE  OnlyInTurn(call)
<1> DEFINE c == [call EXCEPT ![s] = e]
<1>1. c \in [Sessions -> CallStages] /\ queue \in Seq(Sessions)
  BY DEF QueueTypeOK, CallStages
<1>2. \A x \in Sessions : call[x] \notin InCall => c[x] \notin InCall
  BY DEF QueueTypeOK, InCall
<1> HIDE DEF c
<1>3. OnlyInTurn(c)
  <2>1. SpawnReturns(s, r, c)
    BY DEF c
  <2> QED  BY <1>1, <2>1, PassInTurn, NotifyInTurn DEF SpawnReturns, OnlyInTurn
<1> QED  BY <1>2, <1>3 DEF OnlyInTurn

(* What the steps use of the invariant. *)
LEMMA TurnBasics ==
  ASSUME TurnInv
  PROVE  /\ CoreInv /\ QueueTypeOK /\ BoardTypeOK /\ RowTypeOK /\ kept \subseteq HoldingTasks
         /\ call \in [Sessions -> CallStages] /\ queue \in Seq(Sessions) /\ IsInjective(queue)
BY CoreBasics DEF TurnInv

(* A spawn that is not made to wait. *)
LEMMA SpawnInTurn ==
  ASSUME TurnInv, BoardTypeOK', NEW s \in Sessions, Spawn(s), TaskOf[s] \notin kept
  PROVE  OnlyInTurn(call)
<1> SUFFICES ASSUME NEW x \in Sessions, call[x] \notin InCall, call'[x] \in InCall
             PROVE  InTurn(x)
  BY DEF OnlyInTurn
<1>1. ~ShouldQueue(s)
  BY DEF Spawn
<1>2. /\ call' = [call EXCEPT ![s] = "shell"]
      /\ UNCHANGED <<row, cancelled, queue, boardVars, kept>>
  BY <1>1 DEF Spawn
<1>3. x = s
  BY <1>2, TurnBasics
<1>4. UNCHANGED <<column, maxAgents, entered>>
  BY <1>2 DEF boardVars
<1> DEFINE t == TaskOf[s]
           v == View
           w == QueueTasks(queue)
<1> SUFFICES ASSUME t \notin Exempt, maxAgents'[column'[t]] # NoLimit
             PROVE  /\ Cardinality(PlacesTaken(t)') < maxAgents'[column'[t]]
                    /\ \A k \in DOMAIN queue' :
                         (TaskOf[queue'[k]] \notin Exempt /\ column'[TaskOf[queue'[k]]] = column'[t])
                           => entered'[t] <= entered'[TaskOf[queue'[k]]]
  BY <1>3 DEF InTurn
<1>5. /\ v.column = column' /\ v.maxAgents = maxAgents' /\ v.entered = entered' /\ v.kept = kept
      /\ v.holders = Holders(row, call, cancelled, kept)
  BY <1>4 DEF View
<1>6. ~Gate!MustWait(v, w, t)
  BY <1>1 DEF ShouldQueue
<1>7. t \in Tasks /\ DOMAIN w = DOMAIN queue /\ Len(w) \in Nat /\ DOMAIN queue = 1 .. Len(w)
      /\ \A k \in DOMAIN queue : w[k] = TaskOf[queue[k]] /\ w[k] \in Tasks
  <2>1. \A k \in DOMAIN queue : queue[k] \in Sessions
    BY TurnBasics
  <2> QED  BY <2>1, TurnBasics, SessionAssumption DEF QueueTasks
<1> HIDE DEF v, w
<1>8. Gate!Capped(v, t)
  BY <1>5 DEF Gate!Capped
<1>9. Gate!HasRoom(v, t)
  BY <1>5, <1>6, <1>8 DEF Gate!MustWait
<1>10. v.holders \subseteq HoldingTasks
  BY <1>5, TurnBasics DEF Holders, HoldingTasks, Running
<1>11. PlacesTaken(t)' \subseteq v.holders
  <2> SUFFICES ASSUME NEW y \in Sessions, TaskOf[y] # t, TaskOf[y] \notin Exempt,
                      row'[y] = "running" \/ (call'[y] \in InCall /\ ~cancelled'[y])
               PROVE  TaskOf[y] \in v.holders
    BY DEF PlacesTaken
  <2>1. y # s /\ call'[y] = call[y] /\ row'[y] = row[y] /\ cancelled'[y] = cancelled[y]
    BY <1>2, TurnBasics
  <2>2. y \in Running(row) \/ (Tracked(call, y) /\ ~cancelled[y])
    BY <2>1 DEF Running, Tracked
  <2> QED  BY <1>5, <2>2 DEF Holders, Running
<1>12. Cardinality(PlacesTaken(t)') < maxAgents'[column'[t]]
  BY <1>5, <1>7, <1>9, <1>10, <1>11, RoomSeen
<1>13. ASSUME NEW k \in DOMAIN queue', TaskOf[queue'[k]] \notin Exempt,
              column'[TaskOf[queue'[k]]] = column'[t]
       PROVE  entered'[t] <= entered'[TaskOf[queue'[k]]]
  <2>1. k \in DOMAIN w /\ w[k] = TaskOf[queue'[k]] /\ w[k] \in Tasks
    BY <1>2, <1>7
  <2>2. entered'[t] \in Nat /\ entered'[w[k]] \in Nat
    BY <1>7, <2>1 DEF BoardTypeOK
  <2>3. CASE w[k] = t
    BY <2>1, <2>2, <2>3
  <2>4. CASE w[k] # t
    <3>1. Gate!SameColumn(v, w[k], t)
      BY <1>5, <1>8, <1>13, <2>1 DEF Gate!SameColumn, Gate!Capped
    <3>2. ~Gate!EntersFirst(v, w[k], k, t, Len(w) + 1)
      BY <1>5, <1>6, <1>8, <2>1, <2>4, <3>1 DEF Gate!MustWait
    <3> QED  BY <1>5, <2>1, <2>2, <3>2 DEF Gate!EntersFirst
  <2> QED  BY <2>3, <2>4
<1> QED  BY <1>12, <1>13

(* The steps of a spawn under way. *)
LEMMA PipelineInTurn ==
  ASSUME TurnInv, BoardTypeOK', NEW s \in Sessions, RefuseStart(s) \/ SpawnStep(s)
  PROVE  OnlyInTurn(call) /\ kept' \subseteq HoldingTasks
<1>c. call[s] \in InCall
  BY DEF RefuseStart, SpawnStep, ShellResolved, FilesReady, HostAnswers, HostFails, InCall
<1>k. kept' \subseteq HoldingTasks
  BY TurnBasics DEF RefuseStart, SpawnStep, ShellResolved, FilesReady, HostAnswers, HostFails
<1>1. CASE \E e \in {"done", "abandoned"} : SpawnReturns(s, row', [call EXCEPT ![s] = e])
  BY <1>1, <1>c, <1>k, TurnBasics, ReturnInTurn
<1>2. CASE \E e \in {"files", "host"} : QueueAside([call EXCEPT ![s] = e])
  <2>1. \A x \in Sessions : call'[x] = call[x] \/ x = s
    BY <1>2, TurnBasics DEF QueueAside
  <2> QED  BY <2>1, <1>c, <1>k DEF OnlyInTurn
<1>3. CASE RefuseStart(s)
  BY <1>1, <1>3 DEF RefuseStart
<1>4. CASE ShellResolved(s)
  <2>1. CASE cancelled[s]
    BY <1>1, <1>4, <2>1 DEF ShellResolved
  <2>2. CASE ~cancelled[s]
    <3>1. QueueAside([call EXCEPT ![s] = "files"])
      BY <1>4, <2>2 DEF ShellResolved
    <3> QED  BY <3>1, <1>2
  <2> QED  BY <2>1, <2>2
<1>5. CASE FilesReady(s)
  <2>1. CASE cancelled[s]
    BY <1>1, <1>5, <2>1 DEF FilesReady
  <2>2. CASE ~cancelled[s]
    <3>1. QueueAside([call EXCEPT ![s] = "host"])
      BY <1>5, <2>2 DEF FilesReady
    <3> QED  BY <3>1, <1>2
  <2> QED  BY <2>1, <2>2
<1>6. CASE HostAnswers(s)
  <2>1. CASE cancelled[s]
    <3>1. SpawnReturns(s, row', [call EXCEPT ![s] = "abandoned"])
      BY <1>6, <2>1 DEF HostAnswers, Overtaken
    <3> QED  BY <3>1, <1>1
  <2>2. CASE ~cancelled[s]
    <3>1. SpawnReturns(s, row', [call EXCEPT ![s] = "done"])
      BY <1>6, <2>2 DEF HostAnswers
    <3> QED  BY <3>1, <1>1
  <2> QED  BY <2>1, <2>2
<1>7. CASE HostFails(s)
  <2>1. SpawnReturns(s, row', [call EXCEPT ![s] = "done"])
    BY <1>7 DEF HostFails
  <2> QED  BY <2>1, <1>1
<1> QED  BY <1>3, <1>4, <1>5, <1>6, <1>7 DEF SpawnStep

(* Exits, kills and suspends. *)
LEMMA TeardownInTurn ==
  ASSUME TurnInv, BoardTypeOK', NEW s \in Sessions,
         PtyExit(s) \/ Kill(s) \/ RemoveSession(s) \/ Suspend(s) \/ SuspendStep(s) \/ PauseRefused(s)
  PROVE  OnlyInTurn(call) /\ kept' \subseteq HoldingTasks
<1>q. Without(queue, s) \in Seq(Sessions)
  BY TurnBasics, WithoutElements
<1>0. ASSUME kept' = kept, call' = call
      PROVE  OnlyInTurn(call) /\ kept' \subseteq HoldingTasks
  BY <1>0, TurnBasics DEF OnlyInTurn
<1>n. ASSUME kept' = kept, NEW r, NEW q \in Seq(Sessions), NotifySlotFreed(r, call, q, spawning),
             Running(row') \subseteq Running(r)
      PROVE  OnlyInTurn(call) /\ kept' \subseteq HoldingTasks
  BY <1>n, TurnBasics, NotifyInTurn
<1>b. ASSUME NEW k, BeginSuspend(s, k)
      PROVE  OnlyInTurn(call) /\ kept' \subseteq HoldingTasks
  <2>1. call' = call /\ kept' \subseteq kept \cup {TaskOf[s]}
    BY <1>b DEF BeginSuspend
  <2> QED  BY <2>1, TurnBasics DEF OnlyInTurn, HoldingTasks
<1>1. CASE PtyExit(s)
  <2>0. kept' = kept
    BY <1>1 DEF PtyExit
  <2>1. CASE call[s] = "abandoned"
    <3>1. call' = [call EXCEPT ![s] = "done"]
      BY <1>1, <2>1 DEF PtyExit, QueueAside
    <3>2. \A x \in Sessions : call'[x] \in InCall => call[x] \in InCall
      BY <3>1, TurnBasics DEF InCall
    <3> QED  BY <2>0, <3>2, TurnBasics DEF OnlyInTurn
  <2>2. CASE call[s] # "abandoned" /\ quitting
    BY <1>0, <1>1, <2>0, <2>2 DEF PtyExit, QueueAside
  <2>3. CASE call[s] # "abandoned" /\ ~quitting
    <3>1. NotifySlotFreed(row', call, queue, spawning)
      BY <1>1, <2>3 DEF PtyExit
    <3> QED  BY <1>n, <2>0, <3>1, TurnBasics
  <2> QED  BY <2>1, <2>2, <2>3
<1>2. CASE Kill(s)
  <2>1. kept' = kept /\ NotifySlotFreed(row', call, Without(queue, s), spawning)
    BY <1>2 DEF Kill
  <2> QED  BY <1>n, <1>q, <2>1
<1>3. CASE RemoveSession(s)
  <2>1. /\ kept' = kept /\ NotifySlotFreed(KilledRow(s), call, Without(queue, s), spawning)
        /\ row' = [row EXCEPT ![s] = "removed"]
    BY <1>3 DEF RemoveSession
  <2>2. Running(row') \subseteq Running(KilledRow(s))
    BY <2>1, TurnBasics DEF Running, KilledRow, RowTypeOK
  <2> QED  BY <1>n, <1>q, <2>1, <2>2
<1>4. CASE Suspend(s)
  BY <1>4, <1>b DEF Suspend
<1>5. CASE SuspendStep(s)
  <2>1. CASE SuspendFinishes(s)
    <3>1. kept' = kept /\ row' = row /\ NotifySlotFreed(row, call, Without(queue, s), spawning)
      BY <2>1 DEF SuspendFinishes
    <3> QED  BY <1>n, <1>q, <3>1
  <2>2. CASE SuspendKills(s) \/ SuspendSeesExit(s) \/ SuspendSettles(s)
    BY <1>0, <2>2 DEF SuspendKills, SuspendSeesExit, SuspendSettles, spawnVars
  <2> QED  BY <1>5, <2>1, <2>2 DEF SuspendStep
<1>6. CASE PauseRefused(s)
  BY <1>0, <1>6, <1>b DEF PauseRefused
<1> QED  BY <1>1, <1>2, <1>3, <1>4, <1>5, <1>6

(* The steps of a task, of the settings and of the board, and a stutter. *)
LEMMA BoardInTurn ==
  ASSUME TurnInv, BoardTypeOK',
         \/ \E t \in Tasks : CancelTaskSpawns(t) \/ ReleaseColumnSlot(t)
         \/ \E n \in Limits : SetMaxConcurrent(n)
         \/ \E t \in Tasks, c \in Columns : MoveTask(t, c)
         \/ \E c \in Columns, n \in ColumnLimits : SetColumnLimit(c, n)
         \/ DrainQueue
         \/ KillAll
         \/ UNCHANGED vars
  PROVE  OnlyInTurn(call) /\ kept' \subseteq HoldingTasks
<1>0. CASE kept' \subseteq kept /\ call' = call
  BY <1>0, TurnBasics DEF OnlyInTurn
<1>n. CASE kept' \subseteq kept /\ row' = row /\ NotifySlotFreed(row, call, queue, spawning)
  BY <1>n, TurnBasics, NotifyInTurn
<1>1. CASE \E t \in Tasks : CancelTaskSpawns(t)
  BY <1>0, <1>1 DEF CancelTaskSpawns
<1>2. CASE \E t \in Tasks : ReleaseColumnSlot(t)
  BY <1>0, <1>n, <1>2 DEF ReleaseColumnSlot, QueueAside
<1>3. CASE \E n \in Limits : SetMaxConcurrent(n)
  BY <1>n, <1>3 DEF SetMaxConcurrent
<1>4. CASE \/ \E t \in Tasks, c \in Columns : MoveTask(t, c)
           \/ \E c \in Columns, n \in ColumnLimits : SetColumnLimit(c, n)
  BY <1>0, <1>4 DEF MoveTask, SetColumnLimit, spawnVars, queueVars
<1>5. CASE DrainQueue
  BY <1>0, <1>n, <1>5 DEF DrainQueue, QueueAside
<1>6. CASE KillAll \/ UNCHANGED vars
  BY <1>0, <1>6 DEF KillAll, vars, spawnVars
<1> QED  BY <1>1, <1>2, <1>3, <1>4, <1>5, <1>6

(* Every agent that starts in a column with a limit has a place there, and the
   earlier arrivals that still wait are none. *)
THEOREM ColumnStartsAreInTurn == Spec => ColumnStartsInTurn
<1>1. Init => TurnInv
  BY InitSafe, SafeIsCore DEF Init, TurnInv
<1>2. ASSUME TurnInv, [Next]_vars
      PROVE  /\ TurnInv'
             /\ \A s \in Sessions :
                  (call[s] \notin InCall /\ call'[s] \in InCall /\ TaskOf[s] \notin kept) =>
                    InTurn(s)
  <2>1. CoreInv' /\ BoardTypeOK'
    <3>1. CoreInv'
      BY <1>2, NextKeepsCore DEF TurnInv
    <3> QED  BY <3>1 DEF CoreInv, TypeOK
  <2>2. ASSUME NEW s \in Sessions, Spawn(s)
        PROVE  /\ kept' \subseteq HoldingTasks
               /\ \A x \in Sessions :
                    (call[x] \notin InCall /\ call'[x] \in InCall /\ TaskOf[x] \notin kept) =>
                      InTurn(x)
    <3>1. kept' \subseteq HoldingTasks
      BY <1>2, <2>2 DEF Spawn, TurnInv
    <3>2. \A x \in Sessions : call'[x] = call[x] \/ x = s
      BY <1>2, <2>2, TurnBasics DEF Spawn
    <3>3. TaskOf[s] \notin kept => OnlyInTurn(call)
      BY <1>2, <2>1, <2>2, SpawnInTurn
    <3> QED  BY <3>1, <3>2, <3>3 DEF OnlyInTurn
  <2>3. CASE \E s \in Sessions :
               \/ RefuseStart(s) \/ SpawnStep(s) \/ PtyExit(s) \/ Kill(s)
               \/ RemoveSession(s) \/ Suspend(s) \/ SuspendStep(s) \/ PauseRefused(s)
    BY <1>2, <2>1, <2>3, PipelineInTurn, TeardownInTurn DEF OnlyInTurn, TurnInv
  <2>4. CASE \/ \E t \in Tasks : CancelTaskSpawns(t) \/ ReleaseColumnSlot(t)
             \/ \E n \in Limits : SetMaxConcurrent(n)
             \/ \E t \in Tasks, c \in Columns : MoveTask(t, c)
             \/ \E c \in Columns, n \in ColumnLimits : SetColumnLimit(c, n)
             \/ DrainQueue
             \/ KillAll
             \/ UNCHANGED vars
    BY <1>2, <2>1, <2>4, BoardInTurn DEF OnlyInTurn, TurnInv
  <2> QED  BY <1>2, <2>1, <2>2, <2>3, <2>4 DEF Next, TurnInv
<1> DEFINE StepInTurn ==
      \A s \in Sessions :
        LET t == TaskOf[s] IN
        (call[s] \notin InCall /\ call'[s] \in InCall /\ t \notin kept \cup Exempt
           /\ maxAgents'[column'[t]] # NoLimit)
          => /\ Cardinality(PlacesTaken(t)') < maxAgents'[column'[t]]
             /\ \A i \in DOMAIN queue' :
                  (TaskOf[queue'[i]] \notin Exempt /\ column'[TaskOf[queue'[i]]] = column'[t])
                    => entered'[t] <= entered'[TaskOf[queue'[i]]]
<1>3. TurnInv /\ [Next]_vars => [StepInTurn]_vars
  BY <1>2 DEF InTurn
<1>4. TurnInv /\ [Next]_vars => TurnInv'
  BY <1>2
<1> QED  BY <1>1, <1>3, <1>4, PTL DEF Spec, ColumnStartsInTurn
=============================================================================
