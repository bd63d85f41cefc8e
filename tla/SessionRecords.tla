--------------------------- MODULE SessionRecords ---------------------------
(***************************************************************************)
(* The records of one task's sessions in the database, from launch to quit *)
(* or crash and over the next launch: session-lifecycle.ts, the startup    *)
(* passes that resume and start agents (transition-engine/session-startup) *)
(* and the handlers that pause, resume, move and reset the task meanwhile. *)
(*                                                                         *)
(* A step is one turn of main.  What runs under the task's lock is `op`;   *)
(* a move or a resume that gave the lock up to make a worktree is `move`   *)
(* or `resume`; a startup pass that awaits a shell or a CLI is `pass`.     *)
(***************************************************************************)
EXTENDS Naturals, FiniteSets

CONSTANTS
  Columns, StartColumn,
  AutoSpawn,     \* columns that start agents
  Isolated,      \* columns whose agents keep a conversation of their own
  MaxSessions,   \* bound on sessions
  MaxStops,      \* bound on quits and crashes
  MaxGestures,   \* bound on what the user does
  AutoResume,    \* autoResumeSessionsOnRestart, as each launch reads it: choices
  IdsAtLaunch,   \* whether an agent's id is known at its launch: choices
  Outcomes,      \* of a spawn: "running", "queued", "fails", "throws"
  LateRollbacks  \* a move is also rolled back under an agent or a pass of later

ASSUME RecordAssumption ==
  /\ StartColumn \in Columns /\ AutoSpawn \subseteq Columns /\ Isolated \subseteq Columns
  /\ "main" \notin Isolated /\ "none" \notin Isolated
  /\ MaxSessions \in Nat /\ MaxStops \in Nat /\ MaxGestures \in Nat
  /\ AutoResume \subseteq BOOLEAN /\ LateRollbacks \in BOOLEAN
  /\ IdsAtLaunch \subseteq BOOLEAN
  /\ Outcomes \subseteq {"running", "queued", "fails", "throws"}

VARIABLES
  rec,          \* the table: status, track, conversation, suspended_by, exit code # 0
  sid, column,  \* the task's row: session_id and its column
  row,          \* the registry: the status of each session's row
  placeholder,  \* a suspended row of no session, so that the card shows Resume
  op, move, stale, resume, pass,
  up, stops, gestures,
  touched,      \* whether the user has made a gesture since the launch
  fate,         \* of each conversation some agent has written to
  unstarted,    \* the sessions that a startup pass recorded, whose spawn had failed
  held          \* the track the user last paused, until a resume, reset or start of it

tableVars == <<rec, sid, column>>
registryVars == <<row, placeholder>>
boardVars == <<move, stale, resume>>
lifeVars == <<up, stops, gestures, touched>>
ghostVars == <<fate, unstarted, held>>
vars == <<tableVars, registryVars, op, boardVars, pass, lifeVars, ghostVars>>

Sessions == 1..MaxSessions
NoSession == 0   \* also: no conversation
Tracks == {"main"} \cup Isolated
Track(c) == IF c \in Isolated THEN c ELSE "main"

Largest(S) == IF S = {} THEN NoSession ELSE CHOOSE s \in S : \A t \in S : t <= s

-----------------------------------------------------------------------------
(* session-lifecycle.ts: compare and set, on a table r.                     *)

NoRecord == [status |-> "none", track |-> "main", conv |-> NoSession, by |-> "none", bad |-> FALSE]

If(r, s, from, to) == IF s # NoSession /\ r[s].status \in from THEN [r EXCEPT ![s] = to] ELSE r

(* Mutant: an exit settles running records only. *)
MutantMarkExited(r, s, bad) ==
  If(r, s, {"running"}, [r[s] EXCEPT !.status = "exited", !.bad = bad])

MarkExited(r, s, bad) ==
  If(r, s, {"running", "queued"}, [r[s] EXCEPT !.status = "exited", !.bad = bad])

MarkSuspended(r, s, by) ==
  If(r, s, {"running", "exited", "orphaned"}, [r[s] EXCEPT !.status = "suspended", !.by = by])

(* Mutant: a queued resume exits like a queued fresh start. *)
MutantSettleQueued(r, s, by) ==
  If(r, s, {"queued"}, [r[s] EXCEPT !.status = "exited", !.conv = NoSession])

(* A queued resume, whose conversation is an older session's, keeps it; a   *)
(* queued fresh start has none.                                             *)
SettleQueued(r, s, by) ==
  IF r[s].conv \notin {NoSession, s}
    THEN If(r, s, {"queued"}, [r[s] EXCEPT !.status = "suspended", !.by = by])
    ELSE If(r, s, {"running", "queued"}, [r[s] EXCEPT !.status = "exited", !.conv = NoSession])

Retire(r, s) == If(r, s, {"suspended", "orphaned"}, [r[s] EXCEPT !.status = "exited"])

Promoted(r, s) == If(r, s, {"queued"}, [r[s] EXCEPT !.status = "running"])

(* decideSuspendDbAction and what its callers do. *)
SuspendWrites(r, s, by) ==
  IF s = NoSession THEN r
  ELSE IF r[s].status = "queued" THEN SettleQueued(r, s, by)
  ELSE IF r[s].conv # NoSession /\ r[s].status \in {"running", "exited"} THEN MarkSuspended(r, s, by)
  ELSE r

-----------------------------------------------------------------------------
Made(r) == {s \in Sessions : r[s].status # "none"}
OnTrack(r, t) == {s \in Made(r) : r[s].track = t}
Latest(r) == Largest(Made(r))
LatestOn(r, t) == Largest(OnTrack(r, t))

(* isResumeEligible, isHeldPause *)
Eligible(r, s) == s # NoSession /\ r[s].conv # NoSession /\ r[s].status # "queued"
HeldPause(r, s) == s # NoSession /\ r[s].status = "suspended" /\ r[s].by = "user"

Live == {s \in Sessions : row[s] \in {"queued", "running"}}
Rows == {s \in Sessions : row[s] # "none"}
NoRows == [s \in Sessions |-> "none"]

(* reconcileTaskSessionRef *)
Reconciled == Largest(Live)

(* resolveOwnSessionRecord *)
OwnRecord(s) == IF rec[s].status # "none" THEN s ELSE Latest(rec)

-----------------------------------------------------------------------------
Idle == [kind |-> "idle"]
NoMove == [to |-> "none"]
NoPass == [stage |-> "none"]
DonePass == [stage |-> "done"]

(* The task's lock is free. *)
Free == up /\ op = Idle

Told(conv, end) == [c \in Sessions |-> IF c = conv THEN end ELSE fate[c]]

(* A spawn under the task's lock, up to its await.  A fresh agent's         *)
(* conversation bears its session's number, at once or when it reports it.  *)
Starts(kind, track, conv, retire) ==
  LET s == Largest(Made(rec)) + 1 IN
  /\ s \in Sessions
  /\ \E known \in IdsAtLaunch :
       op' = [kind |-> kind, s |-> s, track |-> track, retire |-> retire,
              resumes |-> conv # NoSession,
              conv |-> IF conv # NoSession THEN conv ELSE IF known THEN s ELSE NoSession]

(* resolveSpawnIntent: the board's start on a track. *)
BoardStart(kind, track) ==
  LET m == LatestOn(rec, track) IN
  IF Eligible(rec, m) THEN Starts(kind, track, rec[m].conv, m)
                      ELSE Starts(kind, track, NoSession, NoSession)

BoardKinds == {"move", "resume"}

(* What the session's row says: a spawn that the host failed answers with   *)
(* an exited session, and throws nothing.                                   *)
Answered(outcome) == IF outcome = "fails" THEN "exited" ELSE outcome

(* The board records what the answer says; the startup passes "running".    *)
StatusFor(kind, outcome) == IF kind \in BoardKinds THEN Answered(outcome) ELSE "running"

PassAfter(kind) ==
  CASE kind = "recovery" -> [stage |-> "discover"]
    [] kind = "auto"     -> DonePass
    [] OTHER             -> pass

(* What a spawn that answered makes of its conversation.  A failed resume   *)
(* of a startup pass leaves it open, for the next launch; of the board, its *)
(* record is retired for one that no launch gathers.                        *)
FateAfter(c, outcome) ==
  CASE outcome = "fails" /\ op.kind = "recovery" /\ fate[c] # "none" -> "open"
    [] outcome = "fails" /\ op.kind \in BoardKinds /\ fate[c] = "open" -> "failed"
    [] outcome = "running" \/ (outcome = "queued" /\ op.resumes) -> "open"
    [] OTHER -> fate[c]

(* The spawn answered: the session is registered and its record written.    *)
(* What was open on the track is given up for the session's conversation.   *)
Committed(outcome) ==
  LET s == op.s IN
  /\ outcome \in Outcomes \ {"throws"}
  /\ row' = [NoRows EXCEPT ![s] = Answered(outcome)]
  /\ placeholder' = FALSE
  /\ rec' = [Retire(rec, op.retire) EXCEPT ![s] =
               [status |-> StatusFor(op.kind, outcome), track |-> op.track, conv |-> op.conv,
                by |-> "none", bad |-> FALSE]]
  /\ sid' = s
  /\ fate' = [c \in Sessions |->
       IF c = op.conv THEN FateAfter(c, outcome)
       ELSE IF c \in OnTrack(rec, op.track) /\ fate[c] = "open" THEN "given up" ELSE fate[c]]
  /\ unstarted' = IF outcome = "fails" /\ op.kind \notin BoardKinds THEN unstarted \cup {s} ELSE unstarted
  /\ move' = IF op.kind = "move" THEN NoMove ELSE move
  /\ held' = IF op.track = held THEN "none" ELSE held

(* It threw: recovery retires the record it was to resume, a move is rolled *)
(* back in a turn of its own.                                               *)
Thrown ==
  /\ "throws" \in Outcomes
  /\ rec' = IF op.kind = "recovery" THEN Retire(rec, op.retire) ELSE rec
  /\ move' = IF op.kind = "move" THEN [move EXCEPT !.failed = TRUE] ELSE move
  /\ fate' = IF op.kind = "recovery" THEN Told(op.conv, "given up") ELSE fate
  /\ UNCHANGED <<registryVars, sid, unstarted, held>>

StartReturns ==
  /\ op.kind \in {"move", "resume", "recovery", "auto"}
  /\ (\E o \in Outcomes : Committed(o)) \/ Thrown
  /\ resume' = (resume /\ op.kind # "resume")
  /\ pass' = PassAfter(op.kind)
  /\ op' = Idle
  /\ UNCHANGED <<column, stale, lifeVars>>

-----------------------------------------------------------------------------
(* The agents. *)

(* A promotion, and the listener that notes it. *)
Promote(s) ==
  /\ row[s] = "queued"
  /\ row' = [row EXCEPT ![s] = "running"]
  /\ rec' = Promoted(rec, s)
  /\ fate' = Told(rec[s].conv, "open")
  /\ UNCHANGED <<sid, column, placeholder, op, boardVars, pass, lifeVars, unstarted, held>>

(* recoverStaleSessionId: the agent reports its id. *)
Capture(s) ==
  /\ row[s] = "running" /\ rec[s].conv = NoSession
  /\ rec' = [rec EXCEPT ![s].conv = s]
  /\ fate' = Told(s, "open")
  /\ UNCHANGED <<sid, column, registryVars, op, boardVars, pass, lifeVars, unstarted, held>>

(* An agent ends, by itself or not, or its promotion fails; the exit        *)
(* listener settles its own record.                                         *)
AgentEnds(s, bad) ==
  /\ s \in Live /\ (row[s] = "queued" => bad)
  /\ row' = [row EXCEPT ![s] = "exited"]
  /\ rec' = MarkExited(rec, s, bad)
  /\ fate' = IF bad THEN fate ELSE Told(rec[s].conv, "ended")
  /\ UNCHANGED <<sid, column, placeholder, op, boardVars, pass, lifeVars, unstarted, held>>

-----------------------------------------------------------------------------
(* The user.  Each handler's turn under the lock starts from Reconciled.    *)

(* A gesture comes after the launch has looked at the records.              *)
Gesture ==
  /\ Free /\ pass.stage # "gather"
  /\ gestures < MaxGestures /\ gestures' = gestures + 1
  /\ touched' = TRUE

(* Phase 1 of a move.  A move under way is aborted, and its rollback is     *)
(* still to come.                                                           *)
MoveTo(c) ==
  /\ Gesture /\ c # column
  /\ column' = c
  /\ stale' = (stale \/ move # NoMove)
  /\ LET s == Reconciled
         own == IF c \in AutoSpawn THEN Latest(rec) ELSE OwnRecord(s)
         leaves == s # NoSession /\ (c \in AutoSpawn => rec[Latest(rec)].track # Track(c))
         starts == c \in AutoSpawn /\ (leaves \/ (s = NoSession /\ ~HeldPause(rec, Latest(rec))))
     IN
     /\ sid' = s
     /\ rec' = IF leaves THEN SuspendWrites(rec, own, "system") ELSE rec
     /\ row' = IF leaves THEN [row EXCEPT ![s] = "suspended"] ELSE row
     /\ op' = IF leaves THEN [kind |-> "suspend", s |-> s] ELSE Idle
     /\ move' = IF starts THEN [to |-> c, from |-> column, failed |-> FALSE] ELSE NoMove
  /\ UNCHANGED <<placeholder, resume, pass, up, stops, fate, unstarted, held>>

(* The move's suspend has ended, and with it the process: its exit settles  *)
(* a record that the move could not suspend.                                *)
SuspendEnds ==
  /\ op.kind = "suspend"
  /\ op' = Idle /\ sid' = NoSession
  /\ rec' = MarkExited(rec, op.s, TRUE)
  /\ UNCHANGED <<column, registryVars, boardVars, pass, lifeVars, ghostVars>>

(* Phase 3: not when the task has moved on or has a session, and spawnAgent *)
(* starts no held task. *)
MoveLands ==
  /\ Free /\ move # NoMove /\ ~move.failed
  /\ IF column # move.to \/ sid # NoSession \/ HeldPause(rec, Latest(rec))
       THEN move' = NoMove /\ op' = Idle
       ELSE BoardStart("move", Track(column)) /\ UNCHANGED move
  /\ UNCHANGED <<tableVars, registryVars, stale, resume, pass, lifeVars, ghostVars>>

(* A rollback removes every row of the task.  The process of a live one     *)
(* ends, but its exit finds no row to settle a record by.                   *)
RowsRemoved ==
  /\ LateRollbacks \/ (Live = {} /\ pass = DonePass)
  /\ row' = NoRows /\ placeholder' = FALSE /\ sid' = NoSession
  /\ UNCHANGED rec

MoveFails ==
  /\ Free /\ move # NoMove
  /\ RowsRemoved
  /\ column' = IF column = move.to THEN move.from ELSE column
  /\ move' = NoMove
  /\ UNCHANGED <<op, stale, resume, pass, lifeVars, ghostVars>>

StaleMoveEnds ==
  /\ Free /\ stale
  /\ RowsRemoved
  /\ stale' = FALSE
  /\ UNCHANGED <<column, op, move, resume, pass, lifeVars, ghostVars>>

(* Phase 1 of a resume. *)
Resume ==
  /\ Gesture /\ Live = {}
  /\ resume' = TRUE /\ sid' = NoSession
  /\ held' = "none"
  /\ UNCHANGED <<rec, column, registryVars, op, move, stale, pass, up, stops, fate, unstarted>>

(* Phase 3: on the track of the column the task is in by now. *)
ResumeLands ==
  /\ Free /\ resume
  /\ IF Live # {} THEN resume' = FALSE /\ op' = Idle /\ sid' = Reconciled
                  ELSE BoardStart("resume", Track(column)) /\ resume' = resume /\ sid' = NoSession
  /\ UNCHANGED <<rec, column, registryVars, move, stale, pass, lifeVars, ghostVars>>

ResumeFails ==
  /\ Free /\ resume
  /\ resume' = FALSE
  /\ UNCHANGED <<tableVars, registryVars, op, move, stale, pass, lifeVars, ghostVars>>

(* The record is written before the PTY goes down; the exit settles one     *)
(* that could not be suspended, having no conversation yet.                 *)
Pause ==
  /\ Gesture
  /\ resume' = FALSE
  /\ LET s == Reconciled
         r == SuspendWrites(rec, OwnRecord(s), "user")
     IN
     /\ s # NoSession
     /\ rec' = MarkExited(r, s, TRUE)
     /\ row' = [row EXCEPT ![s] = "suspended"]
     /\ held' = IF HeldPause(r, OwnRecord(s)) THEN r[OwnRecord(s)].track ELSE held
  /\ sid' = NoSession
  /\ UNCHANGED <<column, placeholder, op, move, stale, pass, up, stops, fate, unstarted>>

(* A pause of a task with no live session only cancels a resume. *)
CancelResume ==
  /\ Gesture /\ Live = {} /\ resume
  /\ resume' = FALSE /\ sid' = NoSession
  /\ UNCHANGED <<rec, column, registryVars, op, move, stale, pass, up, stops, fate, unstarted, held>>

(* A reset kills and removes the rows.  A queued session's kill reports its *)
(* exit at once; a running one's is reported when its row is gone.          *)
Reset ==
  /\ Gesture
  /\ resume' = FALSE
  /\ rec' = MarkExited(rec, Latest(rec), sid # NoSession /\ row[sid] = "queued")
  /\ sid' = NoSession /\ row' = NoRows /\ placeholder' = FALSE
  /\ fate' = [c \in Sessions |-> IF fate[c] = "none" THEN "none" ELSE "given up"]
  /\ held' = "none"
  /\ UNCHANGED <<column, op, move, stale, pass, up, stops, unstarted>>

-----------------------------------------------------------------------------
(* Ends of the app. *)

Down ==
  /\ up /\ stops < MaxStops
  /\ up' = FALSE /\ stops' = stops + 1
  /\ row' = NoRows /\ placeholder' = FALSE
  /\ op' = Idle /\ move' = NoMove /\ stale' = FALSE /\ resume' = FALSE /\ pass' = NoPass
  /\ UNCHANGED <<column, gestures, touched, ghostVars>>

Crash == Down /\ UNCHANGED <<rec, sid>>

(* syncShutdownCleanup; the database is closed before main's next turn.     *)
Quit ==
  /\ Down
  /\ rec' = [s \in Sessions |->
       CASE s \in Live /\ rec[s].status = "running" -> MarkSuspended(rec, s, "system")[s]
         [] s \in Live /\ rec[s].status = "queued"  -> SettleQueued(rec, s, "system")[s]
         [] OTHER -> rec[s]]
  /\ sid' = IF \E s \in Live : rec[s].status \in {"running", "queued"} THEN NoSession ELSE sid

Launch ==
  /\ ~up /\ up' = TRUE /\ touched' = FALSE
  /\ pass' = [stage |-> "gather"]
  /\ UNCHANGED <<tableVars, registryVars, op, boardVars, stops, gestures, fate, unstarted, held>>

-----------------------------------------------------------------------------
(* The pass that resumes: resumeSuspendedSessions. *)

Orphaned(r) ==
  [s \in Sessions |->
     IF r[s].status \in {"running", "queued"} THEN [r[s] EXCEPT !.status = "orphaned"] ELSE r[s]]

(* getInterruptedExited *)
Interrupted(r, s) ==
  /\ r[s].status = "exited" /\ r[s].conv # NoSession /\ r[s].bad
  /\ s = LatestOn(r, r[s].track)

(* What a pass that found the table r looks at. *)
Gathered(r) ==
  {s \in Made(r) : r[s].status \in {"suspended", "orphaned"} \/ Interrupted(r, s)}

NewestOf(r, s) == s = Largest({g \in Gathered(r) : r[g].track = r[s].track})

(* One record of each track is kept; one of another track than the task's   *)
(* is only preserved.                                                       *)
Deduplicated(r) ==
  [s \in Sessions |->
     IF s \notin Gathered(r) THEN r[s]
     ELSE IF ~NewestOf(r, s) THEN Retire(r, s)[s]
     ELSE IF r[s].track # Track(column) /\ r[s].status # "suspended" THEN MarkSuspended(r, s, "system")[s]
     ELSE r[s]]

(* registerSuspendedPlaceholder: not over a row that has not exited.        *)
ShowsPlaceholder ==
  IF placeholder \/ \E s \in Sessions : row[s] \notin {"none", "exited"}
    THEN UNCHANGED <<row, placeholder>>
    ELSE row' = NoRows /\ placeholder' = TRUE

(* Mutant: a record is kept, but its card is not told. *)
MutantKeepsResumable(r, s) ==
  /\ rec' = IF r[s].status = "suspended" THEN r ELSE MarkSuspended(r, s, "system")
  /\ sid' = NoSession
  /\ UNCHANGED <<row, placeholder>>

(* keepResumable, of a record of the table r. *)
KeepsResumable(r, s) ==
  /\ rec' = IF r[s].status = "suspended" THEN r ELSE MarkSuspended(r, s, "system")
  /\ ShowsPlaceholder
  /\ sid' = NoSession

GatherLeaves(r) ==
  /\ rec' = r
  /\ UNCHANGED <<row, placeholder, sid>>

Gather(autoResume) ==
  /\ pass.stage = "gather"
  /\ LET found == Orphaned(rec)
         r == Deduplicated(found)
         s == Largest({g \in Gathered(found) : found[g].track = Track(column)})
         on == [stage |-> "discover"]
     IN
     IF s = NoSession THEN GatherLeaves(r) /\ pass' = on /\ UNCHANGED fate
     ELSE IF column \notin AutoSpawn
       THEN /\ pass' = on
            /\ IF r[s].status = "orphaned" THEN GatherLeaves(Retire(r, s)) ELSE KeepsResumable(r, s)
            /\ fate' = IF r[s].status = "orphaned" THEN Told(r[s].conv, "given up") ELSE fate
     ELSE IF ~autoResume THEN KeepsResumable(r, s) /\ pass' = on /\ UNCHANGED fate
     ELSE IF HeldPause(r, s) THEN KeepsResumable(r, s) /\ pass' = on /\ UNCHANGED fate
     ELSE /\ GatherLeaves(r) /\ UNCHANGED fate
          /\ pass' = [stage |-> "prepare", s |-> s, status |-> r[s].status,
                      sid |-> sid, column |-> column, conv |-> NoSession,
                      newest |-> s = LatestOn(r, r[s].track)]
  /\ UNCHANGED <<column, op, boardVars, lifeVars, unstarted, held>>

(* The shell and the CLI are found, or not. *)
Prepare(ok) ==
  /\ pass.stage = "prepare"
  /\ LET m == LatestOn(rec, rec[pass.s].track)
         can == Eligible(rec, m)
     IN
     /\ pass' = IF ok THEN [pass EXCEPT !.stage = "start", !.conv = IF can THEN rec[m].conv ELSE NoSession]
                ELSE IF can THEN [pass EXCEPT !.stage = "keep"]
                ELSE [stage |-> "discover"]
     /\ rec' = IF ok \/ can THEN rec ELSE Retire(rec, pass.s)
  /\ UNCHANGED <<sid, column, registryVars, op, boardVars, lifeVars, ghostVars>>

(* Mutant: the recheck looks for a live session only. *)
MutantRecordUnchanged == Live = {}

RecordUnchanged == rec[pass.s].status = pass.status /\ sid = pass.sid /\ Live = {}

(* Mutant: a pass that keeps nothing waits for the task to be as it was. *)
MutantKeepsIfUnchanged ==
  /\ RecordUnchanged
  /\ KeepsResumable(rec, pass.s)
  /\ pass' = [stage |-> "discover"]
  /\ op' = Idle

(* keepResumableIfUnchanged *)
KeepsIfUnchanged ==
  /\ IF RecordUnchanged /\ (column # pass.column => column \notin AutoSpawn)
       THEN KeepsResumable(rec, pass.s)
       ELSE UNCHANGED <<rec, row, placeholder, sid>>
  /\ pass' = [stage |-> "discover"]
  /\ op' = Idle

Keep ==
  /\ Free /\ pass.stage = "keep"
  /\ KeepsIfUnchanged
  /\ UNCHANGED <<column, boardVars, lifeVars, ghostVars>>

StillToStart == RecordUnchanged /\ column = pass.column

StartRecovered ==
  /\ Free /\ pass.stage = "start"
  /\ IF StillToStart
       THEN /\ Starts("recovery", rec[pass.s].track, pass.conv, pass.s)
            /\ pass' = [stage |-> "starting"]
            /\ UNCHANGED <<rec, row, placeholder, sid>>
       ELSE KeepsIfUnchanged
  /\ UNCHANGED <<column, boardVars, lifeVars, ghostVars>>

-----------------------------------------------------------------------------
(* The pass that starts agents afresh: autoSpawnTasks. *)

HasRow == placeholder \/ Rows # {}
BoardIsOn == move # NoMove \/ resume

Discover ==
  /\ pass.stage = "discover"
  /\ pass' = IF column \in AutoSpawn /\ ~HasRow /\ ~BoardIsOn /\ Made(rec) # {}
               THEN [stage |-> "find", sid |-> sid, column |-> column]
               ELSE DonePass
  /\ UNCHANGED <<tableVars, registryVars, op, boardVars, lifeVars, ghostVars>>

Find(ok) ==
  /\ pass.stage = "find"
  /\ IF HasRow \/ ~HeldPause(rec, Latest(rec)) THEN UNCHANGED <<row, placeholder>> ELSE ShowsPlaceholder
  /\ pass' = IF HasRow \/ HeldPause(rec, Latest(rec)) \/ ~ok THEN DonePass ELSE [pass EXCEPT !.stage = "spawn"]
  /\ UNCHANGED <<tableVars, op, boardVars, lifeVars, ghostVars>>

StillToSpawn == column = pass.column /\ sid = pass.sid /\ ~HasRow /\ ~BoardIsOn

StartFresh ==
  /\ Free /\ pass.stage = "spawn"
  /\ IF StillToSpawn
       THEN Starts("auto", Track(column), NoSession, NoSession) /\ pass' = [pass EXCEPT !.stage = "spawning"]
       ELSE op' = Idle /\ pass' = DonePass
  /\ UNCHANGED <<tableVars, registryVars, boardVars, lifeVars, ghostVars>>

-----------------------------------------------------------------------------
Init ==
  /\ rec = [s \in Sessions |-> NoRecord] /\ sid = NoSession /\ column = StartColumn
  /\ row = NoRows /\ placeholder = FALSE
  /\ op = Idle /\ move = NoMove /\ stale = FALSE /\ resume = FALSE /\ pass = DonePass
  /\ up = TRUE /\ stops = 0 /\ gestures = 0
  /\ touched = TRUE /\ fate = [c \in Sessions |-> "none"]
  /\ unstarted = {} /\ held = "none"

Users == (\E c \in Columns : MoveTo(c)) \/ Resume \/ Pause \/ CancelResume \/ Reset

Agents == \E s \in Sessions : Promote(s) \/ Capture(s) \/ \E bad \in BOOLEAN : AgentEnds(s, bad)

Passes ==
  \/ \E autoResume \in AutoResume : Gather(autoResume)
  \/ Keep \/ StartRecovered \/ Discover \/ StartFresh
  \/ \E ok \in BOOLEAN : Prepare(ok) \/ Find(ok)

Operations ==
  StartReturns \/ SuspendEnds \/ MoveLands \/ MoveFails \/ StaleMoveEnds \/ ResumeLands \/ ResumeFails

Stops == Crash \/ Quit

Next == Launch \/ Users \/ Agents \/ Passes \/ Operations \/ Stops

Spec == Init /\ [][Next]_vars

(* Every await of a handler and of a pass ends: a CLI is found or not, a    *)
(* spawn answers or throws, a worktree is made or not.  Nothing is owed by  *)
(* users, agents and crashes.                                               *)
FairSpec == Spec /\ WF_vars(Operations) /\ WF_vars(Passes)

-----------------------------------------------------------------------------
Statuses == {"none", "queued", "running", "suspended", "exited", "orphaned"}

TypeOK ==
  /\ rec \in [Sessions -> [status : Statuses, track : Tracks, conv : Sessions \cup {NoSession},
                           by : {"none", "system", "user"}, bad : BOOLEAN]]
  /\ sid \in Sessions \cup {NoSession} /\ column \in Columns
  /\ row \in [Sessions -> Statuses \ {"orphaned"}]
  /\ placeholder \in BOOLEAN /\ stale \in BOOLEAN /\ resume \in BOOLEAN /\ up \in BOOLEAN
  /\ stops \in 0..MaxStops /\ gestures \in 0..MaxGestures /\ touched \in BOOLEAN
  /\ fate \in [Sessions -> {"none", "open", "failed", "ended", "given up"}]
  /\ unstarted \subseteq Sessions /\ held \in Tracks \cup {"none"}

StartKinds == {"move", "resume", "recovery", "auto"}

(* The board and the startup passes start at most one agent of the task     *)
(* between them, however their awaits interleave.                           *)
OneAgent == Cardinality(Live) <= 1 /\ (op.kind \in StartKinds => Live = {})

(* A live session has a record that says so.                                *)
LiveIsRecorded == \A s \in Live : rec[s].status \in {"running", "queued"}

(* It is also the one that the task's row names.                            *)
LiveIsTheTasks == Live # {} /\ op = Idle => sid \in Live

(* Conversely, once a launch has looked at what the last run left, a record *)
(* that says running or queued is a live session's (or one's whose suspend  *)
(* has not ended), or says that a startup pass's failed spawn is running.   *)
RunningIsLive ==
  up /\ pass.stage # "gather" =>
    \A s \in Made(rec) : rec[s].status \in {"running", "queued"} =>
      s \in Live \/ op.kind = "suspend" \/ (s \in unstarted /\ rec[s].status = "running")

(* The table, the registry and the task's row tell one story: exits, queued *)
(* sessions' ends, promotions, pauses, resets, quits and what a crash left  *)
(* are each noted in all three.                                             *)
RecordsMatchRegistry == TypeOK /\ OneAgent /\ LiveIsRecorded /\ LiveIsTheTasks /\ RunningIsLive

(* The newest conversation of a track that an agent has written to.         *)
LastWritten(t) == Largest({s \in OnTrack(rec, t) : rec[s].conv # NoSession /\ fate[rec[s].conv] # "none"})
OpenOn(t) == LET s == LastWritten(t) IN s # NoSession /\ fate[rec[s].conv] = "open"

StartsNow(kinds) == op.kind \notin kinds /\ op'.kind \in kinds

(* The recheck before a recovered start sees a resume of the user's only by *)
(* a session_id that it clears or a record that it retires: the one that    *)
(* the pass looks at, if that is the newest of its track, has a             *)
(* conversation and is not retired already.                                 *)
ShowsAResume ==
  \/ pass.sid # NoSession
  \/ pass.newest /\ rec[pass.s].conv # NoSession /\ pass.status # "exited"

PassStarts == StartsNow({"auto"}) \/ (StartsNow({"recovery"}) /\ ShowsAResume)

(* A launch never starts a fresh agent over an open conversation when the   *)
(* user leaves the task alone: whichever of a quit, a crash, a kill, a CLI  *)
(* not found or a spawn that the host failed its record went through, and   *)
(* queued or running (getInterruptedExited, settleQueuedRecord).  One whose *)
(* resume from the board the host failed is no longer open: "failed".       *)
NothingIsAbandoned == [][PassStarts /\ ~op'.resumes /\ ~touched => ~OpenOn(op'.track)]_vars

(* A launch never brings back an agent that ended by itself, if it looks at *)
(* its track's newest record: a reset while a pass prepares leaves the one  *)
(* the pass looks at orphaned, and the next launch gathers that one even if *)
(* an agent has been started and has ended on the track since.              *)
EndedStaysEnded == [][PassStarts /\ op'.resumes /\ pass.newest => fate[op'.conv] # "ended"]_vars

(* What a launch starts agrees with how each conversation ended.            *)
LaunchesFollowTheRecords == NothingIsAbandoned /\ EndedStaysEnded

(* A startup pass starts no agent on a track the user has paused, not even  *)
(* by a pause (or a resume and a pause) made while it prepared the start.   *)
PausedTrackStaysDown == [][PassStarts => op'.track # held]_vars

(* What held-pause.ts promises: a task the user paused is not started by a  *)
(* restart or a column move.  It is, when the pause was on another track.   *)
PausesStick == [][StartsNow({"move", "recovery", "auto"}) => held = "none"]_vars

(* When the passes of a launch are done with a task the user left alone,    *)
(* its open conversation has an agent, or its card a row that offers one.   *)
NothingIsStranded ==
  [][pass # DonePass /\ pass' = DonePass /\ ~touched /\ OpenOn(Track(column)) => HasRow']_vars

(* The passes of a launch end, whatever is found or not and whatever the    *)
(* user does meanwhile (in the model, while sessions are left to start).    *)
PassesEnd == up /\ pass # DonePass ~> pass = DonePass \/ ~up \/ Made(rec) = Sessions

=============================================================================
