# Kangentic: a verification project

Kangentic is a desktop Kanban board whose cards run coding agents. An Electron main process owns
everything that matters: it keeps the board in SQLite, starts one agent per task in a pseudo-terminal
(PTY) that a utility process hosts, limits how many run at once, pauses and resumes them, types messages
into them, runs automations and workflows when cards move or turns end, and streams all of it to windows
and to a paired phone. Main is a single thread, but nearly every operation awaits something (the PTY
host, a file, git, a timer), so its correctness is a matter of what may happen between two awaits.

This directory holds TLA+ models of that core, the TLC configurations that check them and the proofs
TLAPS checks. All paths below are relative to `src/src/main/`.

## 1. Inventory

What each part keeps, does, talks to, and what would make it correct. "M" marks a part that a module
here models (wholly or in part), "P" one the plan still has, "-" one that is left out on purpose.

| Part | State | Operations | Talks to | Hard behaviour | Correct when |
|---|---|---|---|---|---|
| M Session queue (`pty/session-queue.ts`) | queue, `_processing`, `_dirty`, `maxConcurrent` | shouldQueue, enqueue, remove, notifySlotFreed, processQueue, setMaxConcurrent, clear | session manager (spawner, counts, gate) | notifications during the loop's await | no slot lost or overbooked; a startable entry starts |
| M Column gate (`transition-engine/column-capacity.ts`) | none (reads the board and the registry) | mustWait, pick, countBlocked, columnRoom, orderByColumnEntry | queue, startup, workflow engine | five functions that must agree with one another | limits kept, arrivals in turn, exact counts |
| M Session manager (`pty/session-manager.ts`) | registry, `spawningCount`, `spawnsInFlight`, column slot holds | spawn, kill, remove, suspend, drainQueue, holdColumnSlot, quit | queue, spawn flow, PTY host, handlers | a teardown overtakes a spawn at any of its awaits | one agent per task, no orphan PTY, nothing ended comes back |
| M Spawn flow (`pty/lifecycle/session-spawn-flow.ts`, `pty/spawn/`) | the in-flight entry | performSpawn, abandonCancelledSpawn, handleSpawnFailure, onPtyExit | registry, host | three awaits, each followed by a cancel check | as above |
| M Suspend and shutdown (`pty/shutdown/`) | suspend's stages, `isShuttingDown` | gracefulPtyShutdown, killAllSessions | host, queue | exits during the grace; spawns during the quit | suspends settle; the quit leaves no agent |
| P Quit drain and deferred kills (`pty/shutdown/`, `pty/lifecycle/deferred-kill.ts`) | parked kills with a grace, exit callbacks | schedule, flush, drain with a deadline | host, before-quit | the drain's deadline against the grace | no young agent survives the quit |
| M PTY host client and transport (`pty/host/`) | requests by id, handles, one or two hosts | spawn, post, lost host, in-process fallback | host process | timeouts that race answers, message order | a late spawn is killed; handles match processes |
| M PTY host process (`pty/host/`) | node-pty objects, the pid gate, retries | spawn, cancel, kill, write | operating system | a pid that is not known yet; its own death | no terminal starts twice, each ends audibly |
| M Buffers and backpressure (`pty/buffer/`; P `pty/write-queue.ts`) | unacknowledged bytes, paused PTYs | pause, ack, release | windows, host | lost accounting | a paused PTY resumes |
| M Held messages (`held-messages/`) | held rows, reservations, rides | hold, claim, commit, fail, release, clear, flush | starts, session events, the paste | a claim passes through several carriers | each message once; no claim dropped |
| M/P Task lock, handlers, moves (`ipc/`) | one promise chain per task, move controllers | pause, resume, move, reset, delete | everything | phases that give the lock up; rollback | a move that fails leaves what was there |
| M Session records (`transition-engine/session-lifecycle.ts`) | the `sessions` table | compare-and-set status changes | registry events, startup | a crash between the registry and the row | no record is running with no process |
| M Session startup (`transition-engine/session-startup/`) | none | what to resume, pause or retire | records, task lock | a startup that races the user's clicks | every card resumes once or stays down |
| P Terminal submit scheduler (`pty/terminal-submit.ts`, `transition-engine/`) | bursts per task, verification | schedule, supersede, cancel | PTY writes, agent hooks | a burst cancelled half way | one delivery at a time, in order |
| P Automations (`automations/`) | runs and their outcomes | enter, exit, turn-end groups | moves, agents | a turn end that races a move | a row runs once per visit |
| P Workflow engine (`workflows/`) | steps, waits, recovery | plan, start, wait, recover | moves, gate, agents | restart in mid-step | each step once; no hang |
| P Activity engine (`activity-engine/`) | one state machine per session | hooks, timeouts, reclaim | turn ends, notifications | missing and late hooks | idle only when idle |
| P Mobile bridge (`mobile-bridge/`, `packages/protocol/`) | pairings, streams, acks | verbs, feeds | session manager, board | reconnects, lost frames | the phone converges |
| - Worktrees and git, reaping | worktrees, a queue per project | create, remove | git, file system, processes | external programs | |
| - Adapters, MCP, browser, boards and PRs, search, usage, transcription, config, database migrations, renderer, tooling | | | | pure input and output, user interface or reporting | |

`PROJECT.json` lists every component with its files and, under `hazards`, everything in this code that
a test would hardly reach, at the line where it bites, with the properties that would catch it.

How the core interacts: a handler takes the task's lock and calls `spawn`. The manager asks the queue
(global limit) and the gate (column limit); the session waits as a `queued` row, or `doSpawn` runs with
`spawningCount` raised. When anything ends, `notifySlotFreed` runs `processQueue`, whose loop awaits one
promotion at a time. `kill`, `remove`, `suspend` and the quit may come at any await and leave only a mark
on the in-flight entry; each continuation of the spawn must notice it. The session's events
(`session-changed`, `exit`, `session-removed`, `agent-ran`) then drive the held messages, the database
records, the automations and the renderer.

## 2. Modules

| Module | What it is |
|---|---|
| `ColumnCapacity` | the gate's functions as operators on a view of the board |
| `MCColumnCapacity` | every small board, worked off through the gate |
| `AgentSlots` | abstract: an agent is new, waits, holds a slot, ends; no slot beyond the limit |
| `SessionManager` | queue, registry, spawn flow, teardowns, restarts, quit; uses `ColumnCapacity` by INSTANCE and implements `AgentSlots` |
| `SessionInvariant` | the inductive invariants, in named parts: `SessionInv`, and `CoreInv`, the part of it that holds whatever is paused |
| `MCSessionManager` | small instances of it |
| `SessionManager_steps`, `_proofs`, `_refinement` | the proofs about `SessionManager` |
| `MessageContract` | abstract: what the sender of a held message may rely on |
| `HeldMessages`, `MCHeldMessages` | the messages held for one task; implements `MessageContract`; small instances |
| `PtyContract` | abstract: what main may rely on when it asks for a pseudo-terminal |
| `PtyHost` | client, transport, host process, its deaths and the core in main; implements `PtyContract` |
| `SessionRecords` | one task's rows of the `sessions` table, from launch to quit or crash and over the next launch's passes |
| `Backpressure` | one session's output: buffer, flush, acknowledgements, pauses and what ends them |
| `PtyHost_proofs`, `Backpressure_proofs` | the proofs about these two, the refinement of `PtyContract` included |
| `HeldMessages_proofs`, `SessionRecords_proofs`, `ColumnCapacity_proofs` | the proofs about these; the last extends `MCColumnCapacity`, whose steps work a board off |

### SessionManager

One action is one turn of main: from an await to the next one, with every synchronous call in between.
Microtask hops between an answer and the `finally` blocks that wait for it are part of the same action.

| State | Code |
|---|---|
| `row` | `ManagedSession.status`; `none` before, `removed` after |
| `handle`, `proc` | `session.pty`; the process in the host |
| `call` | how far `doSpawn` is: `shell` (waiting for getShell), `files` (status files, launcher), `host` (waiting for the host), `abandoned` (cancelled, its PTY still to exit), `done` |
| `cancelled` | `InFlightSpawn.cancelled` |
| `siblings` | the task's rows this spawn drained and deletes when it registers |
| `refused` | promotions refused at their start, until the refusal's pause settles them |
| `susp` | `suspend()`: `exit` (grace), `propagate` (exit seen or to be seen), `scan` (scrollback read), `settle` (waiting for a cancelled spawn) |
| `queue`, `loop`, `dirty`, `spawning`, `limit` | `SessionQueue.queue`, `_processing`, `_dirty`, `spawningCount`, `maxConcurrent` |
| `column`, `maxAgents`, `entered`, `kept` | what the gate reads: the board and the column slot holds |
| `drainDue`, `quitting` | a board change whose `drainQueue()` is still to come; `isShuttingDown()` |

Each action that can free a slot ends in `NotifySlotFreed` or `SpawnReturns`, which contain the whole
pass of `processQueue` up to its next await; they are never steps of their own. The guard of `Spawn`
is the caller's: the task's lock, and no live session found in the registry. `TaskBusy` derives the lock
from the direct spawns and suspends in progress. `kill`, `remove` and the quit take no lock.

Choices made: a deferred kill of a young session counts as a kill (`proc = "killed"`, the exit comes
later); a host spawn that timed out leaves no PTY, since the kill posted after it reaches the host in
order; a lost host is its sessions' `PtyExit` and `HostFails` in any order; a task's teardown
(`removeByTaskId`, cancel, await, cancel again) is any sequence of `RemoveSession` and
`CancelTaskSpawns`, more behaviours than the code has; the placeholder of a refused direct start stands
under the session's own id. Left out: hidden early launches and their adoption, command rebuilding of a
queued entry, the waits of `awaitExit`, resizing, buffers and transcripts.

### HeldMessages

The module is about one task, since every map of `held-messages.ts` is keyed by it. `row` is a row of
`session_messages_sent`; `reserved` is the task's entry of `claimedRowIds`; `open` and `ids` are the
claims not settled yet; a claim is carried by the start in progress (`starting`, `startClaim`), by a ride
(`pendingRides` while the session is queued, `launchRides` until its agent shows that it started) or by
a delivery (`deliveries`: a background paste, a burst of keystrokes, or an opening that a start types
because its command line could not carry it). `taken` counts how often an agent took a message in; `stuck`,
`missed` and `replayed` record why a row may be where it is, and no guard reads them. A release with `flush` includes the claim for the live agent that it makes at once.

Starts run one at a time, under the task's lock, as do moves; the task has one live session at a time
(that is `OneAgentPerTask` above). A spawn's return and the hand-over of its claim are one action: only
microtasks lie between them. The agent of an adapter that reports its start takes its command line in
when, and only when, evidence of it comes; for any other adapter the code counts it at the launch.
A failed launch whose record will replay its prompt is a commit with its rows in `replayed`. A spawn may
return a session that has ended already; what was to ride it is released (`CommitWhenSessionRuns`). A paste or
a burst that reached nobody releases its claim; one that threw or was cancelled, before or after its first
write, may fail it (`DeliveryReports`).

A typed opening (`StartOpens`, `OpeningReports`) is awaited under the task's lock, or goes on in the background
for a session that is queued or at a boot screen. One that landed commits, or rides the launch like a command
line would. One that is not known to have landed gives its claim back with a flush, typed or not, so its
messages may be put to an agent again (Observations, 10). `TakenBack` starts their count over: `DeliveredOnce`
is stated for everything else. What an opening typed is with the agent before any evidence of its start, so a
launch ride on a bare command line counts as taken in (`Heard` in the proofs). A move out
of Done (`MoveOutOfDone`) commits and lets the lock go while the worktree is made; it may then fail and
be rolled back (`MoveEnds`). Left out: the text and its format, the length cap and the rate limit,
transient sessions, and the listeners' removal at quit (which forgets what a restart forgets).

### PtyHost

A terminal is one request of `PtyHostClient.spawn`, which mints its id; ids are never used again. The
module has main's half (`client`, `asked`, `unposted`), the host's (`entry`, `killed`, `cancelled`,
`retried`), the process, and three channels between: `pipe` and `inbox`, in order, and `waiting`
(`queuedWhileDown`). Both directions keep their order, and since every guard looks at one terminal, each
channel is kept as what it holds for each of them. `host = "dead"` is the time between the host's death and
main's hearing of it: what is posted then is lost. Past the crash cap the core runs in main (`"inMain"`)
through the same channels, with no budget on its answers and no death.

A spawn request at the host has one of three outcomes: it throws, the pid is known at once, or, with a
ConPTY, the answer waits behind `RootPidGate` (`entry = "gated"`), whose one retry asks whether the terminal
is still wanted. The gate's backstop (`GateTimesOut`) answers as started, with pid 0: the terminal is then
`pidless`, and a process is taken to run in it. When main hears of the host's death it sends a stop to the tree
of every terminal whose pid it has (`StopTree`: the process is "stopping") and reports the end at once. That the
stop works is a step of its own (`TreeStops`) with no fairness: on Windows it is a `taskkill` nobody waits for,
whose errors are dropped. So `PtyContract` promises of an end that was told only that no process main can name
was left unstopped behind it, not that it is gone. Left out: raw PTYs, command-line runs, the heartbeat,
batching, the decay of the crash count, and the shutdown.

### SessionRecords

The module is about one task: its records (`rec`), its row (`sid`, `column`), the registry's rows (`row`,
`placeholder`), and what is under way. `op` is what holds the task's lock across an await; `move` and
`resume` are those that gave the lock up to make a worktree, `stale` a move that was aborted by a later one
and has its rollback still to come, `pass` the startup's passes (gather, prepare, recheck and start; then the
auto-spawn's discover, find and start). A record names its conversation (`agent_session_id`; 0: none) by the
session that first had it. The ghosts `fate` and `held` remember how each conversation ended and which track
the user last paused, until a resume, a reset or a start of an agent on it; `unstarted` the sessions that a startup
pass recorded though their spawn had failed; `pass.newest` whether the record a pass looks at was the newest of
its track. No guard reads them.

The compare-and-set functions of `session-lifecycle.ts` are operators on a table; the handlers are composed of
them in the code's order. A spawn runs, is queued, throws, or *fails*: the host could not start it, and it answers
with a session that has exited (`handleSpawnFailure`). The board then records an exited session, a startup pass a
running one (`StatusFor`; Observations, 8 and 9). A spawn's answer and its record's insertion are one action (both under the lock), and
so are an agent's exit and the listener that settles its record. A crash comes between any two actions.

Choices made: gestures come after the first pass has gathered (the project's open and the gather are one
`setImmediate` apart); a quit is one action, since the database is closed before main's next turn; one pass
at a time; an idle auto-pause is the user's pause. Left out: the columns To Do and Done, forced fresh starts,
changes of agent and handoffs, tasks that never had an agent, folders that vanished, refused starts,
workflows, early agents, the phone's start, edits of columns, and the recovery after a lost host.

### Backpressure

`entry` is the controller's record of a session, and the operators on it are the controller's methods;
`pending` is the buffer in the host, `unread` what each renderer's page was sent and has not acknowledged.
Main's commands reach the host in order (`commands`), so `shows` (main's focus sets) and `focus` (the
host's) may differ. `lost` remembers, until the count is zero again, that a page went with output it had not
acknowledged; no guard reads it. Lengths are in flush slices. `CheckStalePauses(quiet)` is the timer's turn, when no ack
came for 10 s or before. A phone's tap is only a choice of how much one flush takes. Left out: a pause or
resume that throws, and a second PTY under one session id (a kill or suspend posts a release before it).

## 3. Runs

| Run | Instance and bounds | What it shows |
|---|---|---|
| `capacity` (387,072 states) | 4 tasks, 2 columns, limits 1, 2 or none, 2 entry times, every set of holders and every order of the queue | `countBlocked` is exactly what no free slot can start, and stays so as the queue is worked off (`BlockedCountIsExact`, `BlockedIsStable`); `mustWait`, `pick`, `columnRoom` and the startup's batch order agree (`OrdersAgree`) |
| `teardown` (784,736) | 2 tasks, one with 2 sessions; limits 1 and 2, changing; no queued session is paused | one agent per task, no orphan, nothing ended comes back, a clean quit, against spawns, teardowns, refusals and host failures; the inductive invariant `SessionInv`; the refinement of `AgentSlots` (`SlotsKept`) |
| `columns` (3.94 M) | 2 tasks, 2 columns, column limits 1 or none changing, two moves, global limit 0 or 2, queued sessions paused too | no wake-up lost, slots counted, no queued row stranded, starts in turn and within the column's limit |
| `live` (66,100) | 2 tasks, limits 0 and 1, queued sessions paused too, `FairSpec` | promotions happen, spawns and suspends settle |
| `pausequeued` | the `teardown` instance, queued sessions paused too | a finding, section 6 |
| `held` (1.88 M) | 2 messages, 2 sessions (one whose adapter reports its start), 2 claims; writes fail, moves roll back, main restarts | delivered at most once in one run of the app, but for what an opening typed and gave back; every open claim has exactly one carrier; rides wait only on sessions that can still settle them; nothing waits on a live agent; delivered means taken, or to be replayed; `MessageContract` is kept (`ContractKept`) |
| `heldlive` (29,425) | 1 message, 2 sessions, no rollbacks, `FairSpec` | Done holds nothing; claims move on, but for an opening that waits for a queued session |
| `heldrollback` | the same, moves roll back | a finding, section 6 |
| `ptyhost` (656,627) | 2 terminals, 2 deaths of the host before the core moves into main, processes may outlive a host, `FairSpec` | what main holds, gave up and the host runs agree (`HostAndClientAgree`); a request given up has its kill behind it and leaves the host; no terminal starts again once it ended or was sent a stop; killed terminals are reported ended; `PtyContract` is kept |
| `records` (1.63 M) | 3 sessions, 3 gestures, 2 quits or crashes; an ordinary, an isolated and an agentless column; resuming at launch on or off; spawns that run, queue, fail or throw; ids known at launch or reported later; `FairSpec` | table, registry and task row tell one story (`RecordsMatchRegistry`); a launch resumes nothing that ended, starts nothing afresh over an open conversation, nothing on a paused track, and leaves no untouched task without an agent or a row to resume it by; its passes end |
| `heldpause` | the same columns, 5 gestures, one outcome | a finding, section 6 |
| `backpressure` (586,452) | 2 renderers, high waters 2 and low waters 1, released high water 3, renderers at most 5 behind, at most 1 command under way when main posts more, `FairSpec` | a PTY stands still exactly while its counts say so (`PauseFollowsTheCounts`); what is counted in flight is owed by a reader (`CountIsOwed`); every pause ends though no renderer owes an ack |

Why the bounds are enough. A second session of one task is needed for anything to overtake an earlier
one (siblings, one agent per task, the lock), a second task for contention on the slot and for a loop that
is busy while something else frees a slot; no action involves a third. Limit 0 and a changing limit make a
full house without more sessions. The gate compares pairs in one column and counts holders, and four tasks
in two columns give two queued pairs, or a pair and a holder in each. A held message meets at most two deliveries at a time, and as many
claims as messages never run out, since open claims share no row that is held. Ids are minted once, so
the state spaces are finite; the only counter with a bound of its own is `MaxMoves` (moves between columns, which
`entered` orders). It is 2 in `columns`: the tasks start in one column with equal entry times, so the first
move into a column is what gives two of its tasks different ones, and the second lets a task come back behind
another that waits, or pass it. The held runs use the symmetry of messages and of claims, and `teardown` that of one
task's two sessions, which no property tells apart; no other run uses symmetry.

Two terminals are one more than any action of `PtyHost` looks at; two deaths give a request that meets a
dead host, one kept for the next, and the core in main. Three sessions give `SessionRecords` one on each
track and one more that supersedes; `MaxGestures` and `MaxStops` bound only the user and the stops: three
gestures are a start, and a resume and a pause of it while a pass prepares, and with two stops a launch also meets
what the launch before it made of a spawn that failed. In `Backpressure` the
high waters lie one above the low ones, so that one slice crosses each of them in either direction;
`MaxBehind` and `MaxCommands` cap what a renderer is behind and what main has posted.

`CHECK_DEADLOCK FALSE` stands where the system really may stop: when every session id is used and
everything has ended, nothing is left to do, and the same holds after the last entry of the gate's queue.

**Fairness.** Weak fairness on what the runtime owes: the steps of a spawn (each await has a timeout, and
`SpawnStep` leaves its outcome open), the exit of a PTY that was killed, the steps of a suspend (grace and
scan are bounded), the pause of a refused start, the release of a column slot (in a `finally`) and a drain
that is due. For held messages: reports of deliveries (each wait in a paste, a burst or an opening has a deadline, but
for an opening's wait for its session to leave the queue, which owes nothing: `OpensFromQueue`), the end of a start and the flush timer. For the host: both event loops turn, timers fire, the gate has a limit,
and a killed terminal ends (one without a pid by its first output, on which node-pty runs the kill, or by
node-pty's own limit for that); a stop sent to a lost tree owes nothing. For records: every await of a handler and of a pass ends, in success or not. For
backpressure: the flush's tick, the host's queue and a quiet stale check, since while a PTY is paused only
finitely many acks can come; never an ack. Users, queued sessions and agents left running owe nothing.

Every property of a passing run has a mutant: a definition `Mutant...` next to the one it mutates, a
plausible bug under which TLC finds the property violated.

## 4. Proofs

TLAPS proves no liveness, and nothing about `ENABLED`; what is proved is safety and refinement. Each invariant
named below was first checked by TLC on the instance of its module's run, `CoreInv` on that of `pausequeued`.

`SessionManager_proofs` proves, for any finite set of sessions over any tasks, columns and limits:

- whatever is paused and whenever: `CoreKept` (`Spec => []CoreInv`) and from it `TypesKept`, `SlotsCounted` (no
  slot leaks), `NoQueuedRowStranded` and `LoopNeverHangs`; `NoWakeupLost` (`Spec => []NoLostWakeup`), an entry
  that the queue could start has something under way that will look at it; and `ColumnStartsAreInTurn`
  (`Spec => ColumnStartsInTurn`), the action property that a start finds room in its column and that nobody who
  entered the column earlier is still queued;
- with `~PausesQueued`, that is as long as no session is paused while it is queued: `SessionsSafe`
  (`Spec => []SessionInv`) and from it `AgentsAlone` (one agent per task), `NoPtyOrphaned`, `QuitIsClean` and
  `QueueConsistent`; `EndedIsFinal` (`Spec => EndedStaysEnded`), the action property that no spawn overtaken by
  a teardown brings its session back; and, in `SessionManager_refinement`, `SlotsRefined` (`Spec => SlotsKept`),
  the session manager implements `AgentSlots`, with `Stage` as the refinement mapping.

Both rest on `SessionAssumption`, which types the constants and says that there are finitely many
sessions, and on `GateAssumption` of the gate's module, which the proofs do not need. `~PausesQueued` is no
technicality: without it TLC refutes `OneAgentPerTask`, `NoOrphanPty`, `QuitLeavesNoAgent`, `EndedStaysEnded` and
`SlotsKept` on the `pausequeued` instance, and a queue may hold a row that is paused (section 6). That the first
group survives says how far the damage of that finding goes: a paused session may run, but the bookkeeping
of slots, queue and loop stays right.

The argument. None of the properties is inductive. `OneAgentPerTask` needs to know that a session which
may still register (a call in flight, not cancelled) already *claims* its task (`AloneInv`), which in
turn needs to know which row a call will meet when it registers: none for a direct spawn, its own queued
placeholder for a promotion, unless a teardown took that over (`CallInv`). `NoOrphanPty` needs the rows that a
spawn replaces to have been drained and to have got no PTY since (`ProcInv`), a suspend to wait only for a PTY
that was there (`SuspInv`), and queue entries never to have been started (`QueueInv`). `SlotAccounting`
counts calls, so finite-set lemmas say what one call more or less does to it.

Nearly every action ends in the same synchronous pass of the promotion loop. The proof splits there: an
action does its own part, which leaves the intermediate maps in the states `Mid...` of
`SessionManager_steps` describe, and then a `Turn` runs. `TurnPreserves` is proved once for any
such middle. `SessionManager_steps` has one lemma per action (several for those with distinct outcomes),
`SessionManager_proofs` the induction over `Next` and the temporal step. `PickIsIndex` and the `RemoveAt`
lemmas are all that `SessionInv` needs to know of the gate and of sequences: it does not depend on which
entry is picked. Wake-ups and turns do.

`CoreInv` is what is left when a session in the queue may have been paused and the loop may promote it. It no
longer says which row a call will meet, only that the call is the loop's exactly when its session has a row, so
`spawning` is still the number of calls. Its induction splits by what a step does to spawns: those that end one
(`EndKeepsCore`), those that neither start nor end one (`CalmKeepsCore`), and the few that do something else.

A wake-up is lost when an entry could be promoted and nothing is under way that will look (`NothingUnderWay`). The
theorem rests on what a pass of the loop leaves behind: when it ends without a promotion, the gate picked
nothing, in a view that the end of the step still has (`PassLeavesNothing`). So every action that frees a slot
is covered by the pass it ends in, or leaves a suspend, a killed PTY, a kept slot or a drain that is due; and
one that only adds an entry adds one that has to wait (`ArrivalStartsNone`). A removal's pass still counts the
agent it removes, so the exit to come has to count as something under way, and the invariant has to know that
the process of a running row has not exited yet (`WakeFacts`), nor lost its handle (`RunningHeld`).
For turns, the gate counts in the middle of a step, and the step must not let another task come to hold a
place after that: `RoomSeen` compares the two counts as cardinalities of sets, one within the other
(`HoldingTasks` bounds both), and `PassInTurn` finds the entry that the gate picked to be the earliest of its
column in the queue that remains.

The refinement uses the same split. The part of its own of any action is `Quiet`: stages go forward and no
agent takes a slot (a removal notifies while the row still counts, which only makes the loop more
careful). The turn then lets at most one waiting agent in, when calls and running rows together are below the
limit (`TurnKeepsSlots`). The one action that takes a slot by itself is a direct spawn (`SpawnSlots`).

`PtyHost_proofs` proves, for any number of terminals and of deaths of the host (`PtyHostAssumption`, which
asks that at least one death is allowed before the core moves into main: the code's cap is positive):

- `HostAndClientAlwaysAgree`: `Spec => []HostAndClientAgree`;
- `GivenUpIsAlwaysFollowed`: `Spec => []GivenUpIsFollowedByAKill`;
- `NoSecondStart`: `Spec => StartsOnce`;
- `ContractRefined`: `Spec => ContractKept`, the client implements `PtyContract` with `Status` and `Unstopped` as
  the mapping.

The invariant (`Inv`) says that a request travels once. It is the first thing posted for its terminal, so once
it is handled the channel holds none (`RequestInv`), and while it is under way, or at the gate, its terminal
has no process and no news for main. What main is told is the answer and then the exit, and nothing else
(`NewsInv`). So a handle always has its terminal, or its end on the way (`EndInv`), and a request that timed
out while it waited for a host is cut out before the next one starts (`UnpostedInv`, `NextHostStep`). Every
guard looks at one terminal, so the invariant is stated for one, `Elsewhere` carries it to the others, and only
the three steps of a host's death speak of all. `GivenUpIsFollowedByAKill` is then inductive beside `Inv`: a
request main gave up is either rejected by the host, in which case the host has nothing of it, or main has
just posted the kill.

`Backpressure_proofs` proves `PauseAlwaysFollows` and `CountAlwaysOwed`, for any backlogs, finitely many renderers and
any water marks in their order (`BackpressureAssumption`). Each controller call leaves a record that *fits* the
buffer's length (`Fits`): it is paused only above a low water, and not paused only below the high ones. That
is proved once per call (`PendingFits`, `AcknowledgeFits`, `ReleaseFits`); a batch counted before the buffer is
noted fits only by half (`EmittedIsSound`), which is why a flush needs both. `AccountKeeps` then ties the
PTY's pause to the record, and an action only has to name its calls. `CountAlwaysOwed` counts what the readers
owe slice by slice (`Owed`): a flush of n adds at least n (`OwedGrows`), an ack of n takes at most n away
(`OwedShrinks`), and whatever else lowers what is owed sets `lost`.

`HeldMessages_proofs` proves, for any messages, sessions and claims (`HeldAssumption`, which types the constants
and keeps the words for no start and for a start with its claim apart from sessions):

- with no further assumption, `RidesAlwaysSettle` (`[]RidesCanSettle`), `NoClaimIsDropped` (`[]ClaimsAreCarried`)
  and `RowsSettleOnce` (`RowsMoveOnOnce`);
- with `~ClearsFail`, `BookkeepingHolds` (`[]HeldInv`), `NoMessageTwice` (`[]DeliveredOnce`),
  `LiveAgentsAreServed` (`[]NothingWaitsOnALiveAgent`) and `DeliveredMeansTaken` (`DeliveredWasTaken`);
- with `~ClearsFail` and `~MovesRollBack`, `DoneStaysEmpty` (`[]DoneHoldsNothing`). Section 6 has the behaviour
  that a rollback adds;
- with `~ClearsFail`, `MessagesKeepTheirContract` (`Spec => ContractKept`), `HeldMessages` implements
  `MessageContract`, with `Status` as the mapping. The contract has two ways to start a message over that an agent
  may have taken in, a restart and `TakeBack`, which is what a typed opening does.

Here one invariant carries the rest (`Inv`, `InvHolds`). `CarryOK` says that a claim is open exactly while one
carrier has it: the start under way, a pending ride, a launch ride or a delivery. `SessionOK` says what a
session's state and its prompt say of the ride on it, and `RowsOK` that every row is free, claimed by one open
claim, or stuck, and how often an agent has taken it in: once if the claim's carrier has shown its prompt,
never if the claim is fresh (`Fresh`). `DeliveredOnce` is then a count that no claim can raise twice. `OpeningInv`
is beside it: a session an opening is typed in has a bare command line and no ride, and one opening, so that one
which lands can ride its launch without superseding another claim. Most
actions move a claim from one carrier to the next before they settle or release it, so these parts are
operators over values and the lemmas about `Settle`, `Release` and `FlushHeldIfLive` start in the middle of a
step. What a flush hands out (`Handed`) is a new claim with every free row of the task, which is why nothing
is left waiting on an idle agent.

The refinement reads a message's status off the rows, the open claims and the count of takings. It follows the
status through the operators that move claims (`SettleMoves`, `GivenUp`, `FlushMoves`), each from a
state in the middle of a step, and each action is then a chain of one to three of those which the contract
allows as one move (`EveryMoveKeeps`). What makes the chain legal is that the rows of an open claim are held, or
were cleared under it: a carrier can give back, take in or settle only what it carries. A claim no agent has
taken in is given back as it is (`ReleaseMoves`), one that an opening typed only by counting it anew
(`TakeBackMoves`).

`SessionRecords_proofs` proves, for any number of sessions, columns, tracks, gestures, quits and crashes
(`RecordAssumption`; "none" and "main" are no isolated columns):

- `OneAgentAtMost`: at most one live agent, whose record is busy and which the task's row names;
- with `~LateRollbacks`, `RecordsAlwaysMatch` (`[]RecordsMatchRegistry`), `PausedStaysPaused`
  (`PausedTrackStaysDown`), `LaunchesFollow` (`LaunchesFollowTheRecords`) and `NothingStaysStranded`
  (`NothingIsStranded`).

`LateRollbacks` is behaviour of the code (Observations, 3): a rollback removes the rows of an agent that came
later, and no exit settles its record then. With it TLC refutes the first two; it refutes neither of the others
on the instance of the run, but their proofs rest on what the first two say. The argument has three layers.
`Inv` is about the present: a live session is the newest of the table, is named by the row, and nothing runs
under the lock meanwhile (`LoneOK`); conversely a busy record is a live session's, or says that a startup pass's failed spawn is running (`RunOK`). Each write of
`session-lifecycle.ts` *settles* the table (`Settles`: it makes no record, makes none busy or queued and moves none to
another track), which with what it does to the session at hand is all that most handlers need. `PauseInv` is about
pauses: while a track is held its newest record is the user's pause (`PausedOK`), and a pass that looked at an
older record, or at the same one before the pause, can see the change by the record's status, by `session_id`
or by a row (`PassFits`, `CardShows`, `SpawnFits`). `FateInv` is about conversations: the newest record of a
conversation's track has it while it is open, and is then no record of an agent that ended by itself; if it
has one that ended, it is such a record (`FateOK`). Every write carries conversations on (`Carries`), or drops one
that is not open (`Drops`). A pass takes up the conversation of the record it looks at if that is the
newest (`LooksOK`), and of a task that is left alone it is the newest for as long as a conversation is open
there (`UntouchedOK`).

`ColumnCapacity_proofs` proves, for any finite board (`GateAssumption`) and any choice of limits and entry times
(`BoardAssumption`), `OrdersAlwaysAgree` (`[]OrdersAgree`), `BlockedIsExact` (`[]BlockedCountIsExact`) and `BlockedStaysTheSame` (`BlockedIsStable`). `mustWait`,
`pick` and `columnRoom` agree by their definitions and a case split. The startup's batch order does not: it
sorts, while `pick` looks for a minimum. The link is a fact about ranks, proved by counting: the number of
entries before an entry numbers the entries from 1 to n, one each (`RanksFollowTheOrder`).

`countBlocked` sums a count per column by a fold. A fold is a recursive function chosen for its equations, and
induction over the set it runs through is out of reach. What can be proved is that another function satisfies
the equations: the number of units (a term of the sum and a number up to its value, `UnitsOfOneMore`), so that
the sum is a cardinality (`SumCounts`; a finite set on which they differed would have a smallest such subset).
`CountIsUnits` makes the count a set, with one unit for each queued task that a column's free room leaves
over. To show that this set is what no free slot can start, the work on the queue is followed one start at a
time: a start takes one place and shortens one line, and leaves the count (`StartLeavesTheCount`,
`BlockedIsStable`); when nothing is startable any more every task left is blocked (`WhatIsLeftIsBlocked`).

Only model-checked: the liveness properties, among them the ends of passes, claims, spawns and pauses, and the
findings' properties, which are false.

## 5. Assumptions to know of

- `PausesQueued = FALSE` in the run `teardown`, and `~PausesQueued` in the theorems that say so (section 4).
- `ClearsFail = FALSE` in the runs of `HeldMessages`, and `~ClearsFail` in the theorems that say so: `clearHeldMessages`
  drops the task's reservations before its write. If the database refuses the write, rows stay held with no reservation while a delivery
  has them, and neither `DeliveredOnce` nor `DoneHoldsNothing` holds.
- A restart forgets what was typed and not recorded: `DeliveredOnce` is about one run of the app. An opening that
  is not known to have landed forgets it too (`TakenBack`; Observations, 10).
- `LateRollbacks = FALSE` in the runs of `SessionRecords` and in four of its theorems (Observations, 3).
- For several stops, three statements about `SessionRecords` say what a longer history makes of the words: a track
  stays held until a session is recorded on it (`held`), a conversation is given up when a session is recorded over
  it (`fate`), and a launch is answerable for its track's newest record only (`newest`; Observations, 7).
- `SessionManager` assumes that a host spawn that timed out leaves no PTY; `PtyHost` discharges that
  (`GivenUpIsFollowedByAKill`, `GivenUpLeavesTheHost`) for a host that lives.

## 6. Findings

- **A session paused while queued can come back running** (`pausequeued`). `suspend()` marks the row and
  cancels a promotion in flight, then awaits the scrollback read, and only then takes the session out
  of the queue (`session-manager.ts:4254`). A slot freed in between promotes the paused session. If its task is
  resumed, it may have two agents; if the app quits, an agent may be left (section 4).
- **A move out of Done that fails leaves held messages in Done** (`heldrollback`). While the move makes the
  worktree the task is in its new column and a message sent to it is held; the rollback puts the task back
  (`task-move.ts:1827`) without clearing. The documentation says that a task in Done holds nothing.
- **A pause on an isolated track does not hold the task after a drag** (`heldpause`). Moves ask the task's
  latest record whether it is held, the startup pass only the record of the track the column is on
  (`resume-suspended.ts:401`), and so it starts an agent in a task the user has paused.

### Observations

Behaviours of the code met while modelling, which the properties exclude or state their way around:

1. The recheck before a recovered start sees a user's resume by the record it retires
   (`resume-suspended.ts:570`). A record without `agent_session_id`, or an interrupted one whose task had no
   `session_id` any more, shows no trace: after a resume and a pause during the preparation the pass
   starts the agent (`ShowsAResume`).
2. A resume and a pause of a task that was not running, made during the preparation, let the pass keep
   nothing; the auto-spawn then starts a fresh agent over the conversation. `NothingIsAbandoned` is stated for
   a task that was left alone.
3. The rollback of a failed or aborted move (`task-move.ts:1812`) removes every row of the task in a turn of
   its own, so an agent that was started since, or the pass's placeholder, goes with it (`LateRollbacks`).
4. A queued fresh start whose task is reset leaves an exited record with its minted id, which a later start
   resumes though nothing was written; a paused queued fresh start leaves no held pause.
5. When a host dies, `reportHostLost` sends a stop to the trees of the terminals main has a handle and a pid of,
   and tells their end without waiting: what outlived the host may still run, for a while or for good, beside
   the session that recovery resumes. A terminal answered with pid 0 is sent none, and so is a spawn not yet
   answered: the kill posted for it goes to the next host, where it is a no-op.
6. Two renderers that show one session each acknowledge the same units, which are counted once: a fast one
   hides a slow one's backlog. A straggling ack for output that a release had zeroed lowers the count of what
   was sent since. So the count is a lower bound of what the readers owe (`CountIsOwed`), and no water mark bounds
   what a reader is behind (`MaxBehind` is a bound of the run). And each release by main drops the record, so one
   more chunk is read though the buffer is above its high water (`PauseFollowsTheCounts` asks for a record).
7. A reset while a pass prepares leaves the record the pass looks at orphaned. If an agent is started on the
   track afterwards and ends by itself, the next launch gathers the old record, the only one of the track that
   looks interrupted, and then resumes the track's newest conversation, the one that ended.
8. A startup pass writes "running" for any spawn that was not queued (`resume-suspended.ts:650`,
   `auto-spawn.ts:510`), also for one that the host failed, whose session has exited (its exit was reported
   before there was a record). The record says so until the next launch orphans it; that launch
   then resumes its conversation (`RunningIsLive` has the exception; `NothingIsAbandoned` covers the launch).
9. A resume from the board that the host failed retires the record it was to continue and inserts an exited one
   without an exit code (`transition-engine.ts:1189`, `:1200`). `getInterruptedExited` asks for a code that is not zero, so the
   next launch gathers nothing and the auto-spawn starts a fresh agent over the conversation. (A queued
   resume that fails when it is promoted exits with a code, and is resumed.) The model calls that conversation
   "failed", and `NothingIsAbandoned` speaks of open ones; the user's own Resume still finds it in this run.
10. A typed opening that is cancelled or throws reports that it did not land, also when its text was written, and
   the start then releases its claim with a flush (`agent-spawn.ts:1105`, `:1117`): the messages may be given to
   the next agent a second time. So may those of one that landed before its launch was killed without having
   shown a start (`settleLaunchRide`). `HeldClaim` says `release` is for "when nothing of them reached the agent"
   (`held-messages.ts:160`). `DeliveredOnce` and `MessageContract` have the exception.

## 7. Plan

Done: `ColumnCapacity`, `SessionManager` over `AgentSlots`, `PtyHost` over `PtyContract`, `Backpressure`,
`HeldMessages` over `MessageContract` and `SessionRecords` with the startup's passes, each checked and with its
proofs.

1. `QuitDrain` with the deferred kills: parked kills with a grace, exit callbacks polled against a deadline.
   The model needs a clock, since the two deadlines are all that orders them.
2. `TerminalSubmitScheduler`: bursts per task, superseding and verification; an abstract queue of deliveries.
3. `TurnEndRuns` (automations) and `WorkflowEngine`: once-only effects against moves and restarts.
4. The activity engine, the mobile bridge's streams, and the columns To Do and Done in `SessionRecords`.

Not modelled, and not planned: parts whose difficulty is in external programs (git, worktrees, adapters, the
embedded browser, transcription), in data (search, database migrations, imports, usage statistics) or in the
user interface (renderer, preload, developer tools); `PROJECT.json` gives the reason for each.
