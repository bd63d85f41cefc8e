---------------------------- MODULE HeldMessages ----------------------------
(***************************************************************************)
(* Messages held for one task until an agent runs on it                    *)
(* (held-messages/held-messages.ts).  The held row in the database is the  *)
(* hold; a delivery claims the rows it carries in memory, and settles its  *)
(* claim once: commit, fail, or release.  A claim is carried by a start in *)
(* progress, by a ride on a session's command line (pendingRides,          *)
(* launchRides), by a paste or a burst of keystrokes in the background, or *)
(* by the opening a start types because its command line could not.        *)
(*                                                                         *)
(* Everything is keyed by the task, so the module is about one task.  The  *)
(* session manager is its environment: the task has one live session at a  *)
(* time, and a session's events arrive in the turn in which its row        *)
(* changes.                                                                *)
(***************************************************************************)
EXTENDS Naturals, FiniteSets

CONSTANTS
  Messages,        \* rows of session_messages_sent held for the task
  Sessions,        \* the task's sessions; each starts once
  ReportsStart,    \* sessions whose adapter shows that its agent started
  Claims,          \* claims that can be open at once
  NoClaim, NoSession,
  WritesFail,      \* TRUE: the write that settles a claim can fail
  ClearsFail,      \* TRUE: the write that clears a task's rows can fail
  MovesRollBack    \* TRUE: a move out of Done can fail and be undone

ASSUME HeldAssumption ==
  /\ ReportsStart \subseteq Sessions
  /\ NoClaim \notin Claims /\ NoSession \notin Sessions
  /\ "no" \notin Sessions /\ "claimed" \notin Sessions
  /\ WritesFail \in BOOLEAN /\ ClearsFail \in BOOLEAN /\ MovesRollBack \in BOOLEAN

VARIABLES
  row,           \* the row's status; "new" before it is held
  done,          \* the task is in Done
  leaving,       \* a move out of Done is committed, and its start is still to come
  reserved,      \* claimedRowIds of the task
  open,          \* claims made and not settled
  ids,           \* HeldClaim.ids
  starting,      \* the start in progress: "no", "claimed", or the session it has spawned
  startClaim,    \* the claim that start carries
  pendingRides,  \* claims riding a queued session's command line
  launchRides,   \* claims riding the launch of an agent not seen to start
  deliveries,    \* claims a paste, a burst of keystrokes or a typed opening is carrying
  sess,          \* the sessions, as the registry shows them
  shown,         \* sessions whose agent has shown it started
  recap,         \* sessions that opened on an expired conversation's recap
  flushDue,      \* sessions whose flush timer is running
  prompt,        \* the messages on a session's command line
  taken,         \* how often an agent took a message in, since this run of the app
                 \* began or an opening that typed it gave it back
  stuck,         \* rows whose settling write failed
  missed,        \* rows put back for the next start while a session ran
  replayed       \* rows a launch marked failed leaves to its record's prompt

claimVars == <<row, reserved, open, ids, deliveries, stuck, missed>>
rideVars == <<pendingRides, launchRides>>
sessionVars == <<sess, shown, recap, flushDue, prompt>>
moveVars == <<done, leaving>>
vars == <<claimVars, moveVars, starting, startClaim, rideVars, sessionVars, taken, replayed>>

NoDelivery == [to |-> NoSession, flush |-> FALSE, stage |-> "none", opening |-> "no"]
Delivery(s, flush) == [to |-> s, flush |-> flush, stage |-> "waiting", opening |-> "no"]

(* A start's typed opening: awaited under the task's lock, or deferred past it. *)
Opening(s, kind) == [to |-> s, flush |-> TRUE, stage |-> "waiting", opening |-> kind]

(* The start that awaits its opening still has the task's lock. *)
Locked == \E c \in Claims : deliveries[c].opening = "awaited"

Live == {"queued", "running", "closing"}

-----------------------------------------------------------------------------
(* Mutant: a row moves on whatever its status. *)
MutantMoved(c, status) == [m \in Messages |-> IF m \in ids[c] THEN status ELSE row[m]]

(* The compare-and-set on 'held' of markDeliveredFromHold and markHeldFailed. *)
Moved(c, status) ==
  [m \in Messages |-> IF m \in ids[c] /\ row[m] = "held" THEN status ELSE row[m]]

(* commit and fail: the write, and the rows given up once it is made. *)
Settle(c, status) ==
  /\ open' = open \ {c}
  /\ \/ row' = Moved(c, status) /\ reserved' = reserved \ ids[c] /\ stuck' = stuck
     \/ /\ WritesFail
        /\ UNCHANGED <<row, reserved>>
        /\ stuck' = stuck \cup ids[c]
  /\ UNCHANGED <<ids, missed>>

(* The held rows no delivery has: what claimHeldMessages takes. *)
Claimable(res) == {m \in Messages : row'[m] = "held"} \ res

Claim(c, res, op) ==
  /\ c \in Claims \ op
  /\ open' = op \cup {c}
  /\ ids' = [ids EXCEPT ![c] = Claimable(res)]
  /\ reserved' = res \cup Claimable(res)

(* The session a flush finds: live, writable, not opened on a recap. *)
Receivers == {s \in Sessions : sess'[s] = "running" /\ s \notin recap'}

(* flushHeldIfLive, from reservations res, open claims op and deliveries d. *)
FlushHeldIfLive(res, op, d) ==
  IF Receivers # {} /\ Claimable(res) # {}
  THEN \E s \in Receivers, c \in Claims \ op :
         /\ Claim(c, res, op)
         /\ deliveries' = [d EXCEPT ![c] = Delivery(s, FALSE)]
  ELSE reserved' = res /\ open' = op /\ ids' = ids /\ deliveries' = d

(* Mutant: a claim is dropped without its rows being given up. *)
MutantRelease(c, flush, d) ==
  /\ open' = open \ {c} /\ deliveries' = d
  /\ UNCHANGED <<row, reserved, ids, stuck, missed>>

(* release: the rows go back on hold, or to a live agent at once. *)
Release(c, flush, d) ==
  /\ UNCHANGED <<row, stuck>>
  /\ IF flush
     THEN FlushHeldIfLive(reserved \ ids[c], open \ {c}, d) /\ missed' = missed
     ELSE /\ reserved' = reserved \ ids[c] /\ open' = open \ {c}
          /\ ids' = ids /\ deliveries' = d
          /\ missed' = missed \cup (ids[c] \X Receivers)

AgentStartPending(s) == s \in ReportsStart /\ s \notin shown

(* commitOnceAgentStarts: c rides s, whose row reads running. *)
CommitOnceAgentStarts(c, s, d) ==
  IF AgentStartPending(s)
  THEN /\ launchRides' = [launchRides EXCEPT ![s] = c]
       /\ IF launchRides[s] # NoClaim
          THEN Release(launchRides[s], FALSE, d)
          ELSE UNCHANGED <<row, reserved, open, ids, stuck, missed>> /\ deliveries' = d
  ELSE launchRides' = launchRides /\ deliveries' = d /\ Settle(c, "delivered")

(* The messages of a claim that are still held. *)
Load(c) == {m \in Messages : m \in ids[c] /\ row[m] = "held"}

(* M was typed and is given back as if it had not been: it is counted anew. *)
TakenBack(M) == taken' = [m \in Messages |-> IF m \in M THEN 0 ELSE taken[m]]

-----------------------------------------------------------------------------
Init ==
  /\ row = [m \in Messages |-> "new"]
  /\ done = FALSE /\ leaving = FALSE
  /\ reserved = {} /\ open = {} /\ ids = [c \in Claims |-> {}]
  /\ starting = "no" /\ startClaim = NoClaim
  /\ pendingRides = [s \in Sessions |-> NoClaim]
  /\ launchRides = [s \in Sessions |-> NoClaim]
  /\ deliveries = [c \in Claims |-> NoDelivery]
  /\ sess = [s \in Sessions |-> "none"]
  /\ shown = {} /\ recap = {} /\ flushDue = {}
  /\ prompt = [s \in Sessions |-> {}]
  /\ taken = [m \in Messages |-> 0]
  /\ stuck = {} /\ missed = {} /\ replayed = {}

(* Mutant: a message is held whatever column the task is in. *)
MutantHoldTaskMessage(m) ==
  /\ row[m] = "new"
  /\ row' = [row EXCEPT ![m] = "held"]
  /\ UNCHANGED <<moveVars, starting, startClaim, rideVars, sessionVars, taken, replayed, stuck, missed>>
  /\ FlushHeldIfLive(reserved, open, deliveries)

(* Mutant: a held message waits for the next start, whatever runs. *)
MutantHoldOnly(m) ==
  /\ row[m] = "new" /\ ~done
  /\ row' = [row EXCEPT ![m] = "held"]
  /\ UNCHANGED <<reserved, open, ids, deliveries, moveVars, starting, startClaim, rideVars,
                 sessionVars, taken, replayed, stuck, missed>>

(* holdTaskMessage: refused in Done; handed over at once to a live agent. *)
HoldTaskMessage(m) ==
  /\ row[m] = "new" /\ ~done
  /\ row' = [row EXCEPT ![m] = "held"]
  /\ UNCHANGED <<moveVars, starting, startClaim, rideVars, sessionVars, taken, replayed, stuck, missed>>
  /\ FlushHeldIfLive(reserved, open, deliveries)

(* clearHeldMessages: every reservation is dropped, then the rows cleared. *)
ClearHeldMessages ==
  /\ reserved' = {}
  /\ \/ row' = [m \in Messages |-> IF row[m] = "held" THEN "cleared" ELSE row[m]]
     \/ ClearsFail /\ row' = row
  /\ UNCHANGED <<open, ids, starting, startClaim, rideVars, deliveries, sessionVars,
                 taken, replayed, stuck, missed>>

(* The commit of a move to Done or To Do.  It holds the task's lock, as a start
   does, and a move it supersedes is not undone. *)
MoveAndClear ==
  /\ ~done /\ starting = "no" /\ ~Locked
  /\ done' \in BOOLEAN /\ leaving' = FALSE
  /\ ClearHeldMessages

(* The commit of a move out of Done; its worktree is made with the lock let go. *)
MoveOutOfDone ==
  /\ done /\ done' = FALSE
  /\ leaving' \in BOOLEAN
  /\ UNCHANGED <<claimVars, starting, startClaim, rideVars, sessionVars, taken, replayed>>

(* That move ends: it started an agent or found it may not, or it failed, and
   the rollback removes the session it made and puts the task back. *)
MoveEnds ==
  /\ leaving /\ leaving' = FALSE /\ starting = "no" /\ ~Locked
  /\ \/ done' = done
     \/ /\ MovesRollBack
        /\ \A s \in Sessions : sess[s] \notin Live
        /\ done' = TRUE
  /\ UNCHANGED <<claimVars, starting, startClaim, rideVars, sessionVars, taken, replayed>>

-----------------------------------------------------------------------------
(* A start (spawnAgent, resumeTaskSession) claims what is held. *)
BeginStart ==
  /\ starting = "no" /\ ~Locked /\ ~done
  /\ \A s \in Sessions : sess[s] \notin Live
  /\ starting' = "claimed"
  /\ row' = row
  /\ IF Claimable(reserved) = {}
     THEN startClaim' = NoClaim /\ UNCHANGED <<reserved, open, ids>>
     ELSE \E c \in Claims : startClaim' = c /\ Claim(c, reserved, open)
  /\ UNCHANGED <<moveVars, rideVars, deliveries, sessionVars, taken, replayed, stuck, missed>>

(* Mutant: a start that spawned nothing keeps its claim to itself. *)
MutantStartFails ==
  /\ starting = "claimed"
  /\ starting' = "no" /\ startClaim' = NoClaim
  /\ UNCHANGED <<moveVars, rideVars, sessionVars, taken, replayed, claimVars>>

(* The start spawned nothing: its finally puts the claim back. *)
StartFails ==
  /\ starting = "claimed"
  /\ starting' = "no" /\ startClaim' = NoClaim
  /\ UNCHANGED <<moveVars, rideVars, sessionVars, taken, replayed>>
  /\ IF startClaim = NoClaim THEN UNCHANGED claimVars
     ELSE \E flush \in BOOLEAN : Release(startClaim, flush, deliveries)

(* The row of s now reads status; one that runs has its flush timer set, and
   an agent that reports no start takes its command line in. *)
Spawned(s, status, line) ==
  /\ sess' = [sess EXCEPT ![s] = status]
  /\ prompt' = [prompt EXCEPT ![s] = line]
  /\ flushDue' = IF status = "running" THEN flushDue \cup {s} ELSE flushDue
  /\ taken' = IF status = "running" /\ ~AgentStartPending(s)
              THEN [m \in Messages |-> IF m \in line THEN taken[m] + 1 ELSE taken[m]]
              ELSE taken

(* commitWhenSessionRuns: a session that is already gone takes nothing. *)
CommitWhenSessionRuns(c, s, status, d) ==
  \/ /\ status = "running"
     /\ pendingRides' = pendingRides /\ CommitOnceAgentStarts(c, s, d)
  \/ /\ status = "queued"
     /\ pendingRides' = [pendingRides EXCEPT ![s] = c] /\ launchRides' = launchRides
     /\ IF pendingRides[s] # NoClaim
        THEN Release(pendingRides[s], FALSE, d)
        ELSE UNCHANGED <<row, reserved, open, ids, stuck, missed>> /\ deliveries' = d
  \/ /\ status = "ended"
     /\ UNCHANGED rideVars /\ Release(c, TRUE, d)

(* The spawn returned a session, which a failed launch has ended already, and
   the claim rides its command line. *)
StartRides(s, status) ==
  /\ starting = "claimed" /\ startClaim # NoClaim /\ sess[s] = "none"
  /\ starting' = "no" /\ startClaim' = NoClaim
  /\ Spawned(s, status, ids[startClaim])
  /\ UNCHANGED <<moveVars, shown, recap, replayed>>
  /\ CommitWhenSessionRuns(startClaim, s, status, deliveries)

(* The spawn returned a session whose command line carries none of it: there
   is no claim, the session opens on a recap alone, or the claim goes out
   later on. *)
StartKeeps(s, status) ==
  /\ starting = "claimed" /\ sess[s] = "none"
  /\ Spawned(s, status, {})
  /\ UNCHANGED <<moveVars, shown, rideVars, replayed>>
  /\ \/ /\ startClaim = NoClaim
        /\ starting' = "no" /\ startClaim' = NoClaim
        /\ UNCHANGED <<recap, claimVars>>
     \/ /\ startClaim # NoClaim
        /\ starting' = "no" /\ startClaim' = NoClaim
        /\ recap' = recap \cup {s}
        /\ Release(startClaim, FALSE, deliveries)
     \/ /\ startClaim # NoClaim
        /\ starting' = s /\ startClaim' = startClaim
        /\ UNCHANGED <<recap, claimVars>>

(* The claim is typed with a later message, or pasted after a turn, in the
   session the start spawned. *)
StartSends ==
  /\ starting \in Sessions
  /\ starting' = "no" /\ startClaim' = NoClaim
  /\ deliveries' = [deliveries EXCEPT ![startClaim] = Delivery(starting, TRUE)]
  /\ UNCHANGED <<row, reserved, open, ids, stuck, missed, moveVars, rideVars, sessionVars, taken, replayed>>

(* ... or as its opening.  The start waits for that under its lock, but for a
   session that is queued or that shows a boot screen. *)
StartOpens(kind) ==
  /\ starting \in Sessions
  /\ kind = "awaited" => sess[starting] # "queued"
  /\ kind = "deferred" => sess[starting] \in Live
  /\ starting' = "no" /\ startClaim' = NoClaim
  /\ deliveries' = [deliveries EXCEPT ![startClaim] = Opening(starting, kind)]
  /\ UNCHANGED <<row, reserved, open, ids, stuck, missed, moveVars, rideVars, sessionVars, taken, replayed>>

(* ... or nothing carried it, and the start's finally puts it back. *)
StartEnds ==
  /\ starting \in Sessions
  /\ starting' = "no" /\ startClaim' = NoClaim
  /\ UNCHANGED <<moveVars, rideVars, sessionVars, taken, replayed>>
  /\ Release(startClaim, TRUE, deliveries)

-----------------------------------------------------------------------------
(* The agent's input takes the message in. *)
DeliveryTypes(c) ==
  /\ deliveries[c].stage = "waiting" /\ sess[deliveries[c].to] = "running"
  /\ deliveries' = [deliveries EXCEPT ![c].stage = "typed"]
  /\ taken' = [m \in Messages |-> IF m \in ids[c] THEN taken[m] + 1 ELSE taken[m]]
  /\ UNCHANGED <<row, reserved, open, ids, stuck, missed, moveVars, starting, startClaim,
                 rideVars, sessionVars, replayed>>

(* Mutants: a delivery whose session is gone reports nothing; a delivery that
   typed and did not finish puts its messages back. *)
MutantDeliveryReports(c) ==
  /\ deliveries[c].opening = "no"
  /\ deliveries[c].stage # "none" /\ sess[deliveries[c].to] = "running"
  /\ UNCHANGED <<moveVars, starting, startClaim, rideVars, sessionVars, taken, replayed>>
  /\ LET d == [deliveries EXCEPT ![c] = NoDelivery] IN
     \/ deliveries[c].stage = "waiting" /\ Release(c, deliveries[c].flush, d)
     \/ deliveries[c].stage = "typed" /\ deliveries' = d /\ Settle(c, "delivered")
MutantResendingReports(c) ==
  /\ UNCHANGED <<moveVars, starting, startClaim, rideVars, sessionVars, taken, replayed>>
  /\ deliveries[c].stage # "none" /\ deliveries[c].opening = "no"
  /\ Release(c, deliveries[c].flush, [deliveries EXCEPT ![c] = NoDelivery])

(* settleClaimFromReport: nothing was typed, or it was and is not known to have
   failed, or it failed: half way, or so that it may have been. *)
DeliveryReports(c) ==
  /\ deliveries[c].opening = "no"
  /\ UNCHANGED <<moveVars, starting, startClaim, rideVars, sessionVars, taken, replayed>>
  /\ LET d == [deliveries EXCEPT ![c] = NoDelivery] IN
     \/ deliveries[c].stage = "waiting" /\ Release(c, deliveries[c].flush, d)
     \/ deliveries[c].stage = "typed" /\ deliveries' = d /\ Settle(c, "delivered")
     \/ deliveries[c].stage # "none" /\ deliveries' = d /\ Settle(c, "failed")

(* What became of a typed opening.  One that is not known to have landed gives
   its claim back, also what it has typed, and so does an awaited one that
   landed in a session that is gone since. *)
OpeningReports(c) ==
  /\ deliveries[c].opening # "no"
  /\ UNCHANGED <<moveVars, starting, startClaim, sessionVars, replayed>>
  /\ LET d == [deliveries EXCEPT ![c] = NoDelivery]
         s == deliveries[c].to
         landed == deliveries[c].stage = "typed"
     IN
     \/ /\ Release(c, TRUE, d) /\ UNCHANGED rideVars
        /\ TakenBack({m \in Load(c) : landed})
     \/ /\ landed /\ deliveries[c].opening = "deferred"
        /\ deliveries' = d /\ Settle(c, "delivered") /\ UNCHANGED <<rideVars, taken>>
     \/ /\ landed /\ deliveries[c].opening = "awaited" /\ sess[s] \in {"running", "closing"}
        /\ CommitWhenSessionRuns(c, s, "running", d) /\ taken' = taken

-----------------------------------------------------------------------------
(* A queued session's promotion: its first running status. *)
Promoted(s) ==
  /\ sess[s] = "queued"
  /\ Spawned(s, "running", prompt[s])
  /\ UNCHANGED <<moveVars, starting, startClaim, shown, recap, replayed>>
  /\ pendingRides' = [pendingRides EXCEPT ![s] = NoClaim]
  /\ IF pendingRides[s] # NoClaim
     THEN CommitOnceAgentStarts(pendingRides[s], s, deliveries)
     ELSE launchRides' = launchRides /\ UNCHANGED claimVars

(* The agent shows that it started, and has taken its command line in; an
   evidence that raises no event leaves the ride where it is. *)
AgentRan(s) ==
  /\ sess[s] = "running" /\ AgentStartPending(s)
  /\ shown' = shown \cup {s}
  /\ taken' = [m \in Messages |-> IF m \in prompt[s] THEN taken[m] + 1 ELSE taken[m]]
  /\ UNCHANGED <<moveVars, starting, startClaim, pendingRides, sess, recap, flushDue, prompt, replayed>>
  /\ \/ /\ launchRides[s] # NoClaim
        /\ launchRides' = [launchRides EXCEPT ![s] = NoClaim]
        /\ deliveries' = deliveries /\ Settle(launchRides[s], "delivered")
     \/ UNCHANGED <<launchRides, claimVars>>

(* kill() has sealed the PTY; the row reads running until it exits. *)
Closing(s) ==
  /\ sess[s] = "running"
  /\ sess' = [sess EXCEPT ![s] = "closing"]
  /\ UNCHANGED <<claimVars, moveVars, starting, startClaim, rideVars, shown, recap,
                 flushDue, prompt, taken, replayed>>

(* Mutant: what rode a launch nobody saw start is taken as delivered. *)
MutantSettleLaunchRide(s) ==
  /\ UNCHANGED <<replayed, taken, deliveries>> /\ Settle(launchRides[s], "delivered")

(* settleLaunchRide: evidence without an event commits, and so does a fresh
   launch marked failed, whose record replays its prompt.  What goes back and
   was not on the command line, an opening had typed. *)
SettleLaunchRide(s) ==
  \/ /\ AgentStartPending(s)
     /\ replayed' = replayed
     /\ Release(launchRides[s], TRUE, deliveries)
     /\ TakenBack(Load(launchRides[s]) \ prompt[s])
  \/ /\ replayed' = IF AgentStartPending(s) THEN replayed \cup ids[launchRides[s]] ELSE replayed
     /\ UNCHANGED <<deliveries, taken>>
     /\ Settle(launchRides[s], "delivered")

(* Mutant: a pause of a queued session tells nobody. *)
MutantRidesEnd(s) ==
  /\ UNCHANGED pendingRides
  /\ launchRides' = [launchRides EXCEPT ![s] = NoClaim]
  /\ IF launchRides[s] # NoClaim THEN SettleLaunchRide(s) ELSE UNCHANGED <<claimVars, replayed, taken>>

(* releaseRide, then settleLaunchRide: a session has at most one of the two. *)
RidesEnd(s) ==
  /\ pendingRides' = [pendingRides EXCEPT ![s] = NoClaim]
  /\ launchRides' = [launchRides EXCEPT ![s] = NoClaim]
  /\ IF pendingRides[s] # NoClaim
     THEN UNCHANGED <<replayed, taken>> /\ Release(pendingRides[s], TRUE, deliveries)
     ELSE IF launchRides[s] # NoClaim THEN SettleLaunchRide(s)
     ELSE UNCHANGED <<claimVars, replayed, taken>>

(* The session is suspended, exits, or is removed. *)
SessionGone(s) ==
  /\ sess[s] \in Live
  /\ sess' = [sess EXCEPT ![s] = "ended"]
  /\ UNCHANGED <<moveVars, starting, startClaim, shown, recap, flushDue, prompt>>
  /\ RidesEnd(s)

(* The second after a session first ran is over. *)
FlushTimer(s) ==
  /\ s \in flushDue
  /\ flushDue' = flushDue \ {s}
  /\ UNCHANGED <<row, stuck, missed, moveVars, starting, startClaim, rideVars, sess, shown,
                 recap, prompt, taken, replayed>>
  /\ FlushHeldIfLive(reserved, open, deliveries)

(* Main ends, in order or not, and starts again: memory is forgotten and no
   session survives; the rows are what is left. *)
Restart ==
  /\ reserved' = {} /\ open' = {} /\ ids' = [c \in Claims |-> {}]
  /\ starting' = "no" /\ startClaim' = NoClaim
  /\ pendingRides' = [s \in Sessions |-> NoClaim]
  /\ launchRides' = [s \in Sessions |-> NoClaim]
  /\ deliveries' = [c \in Claims |-> NoDelivery]
  /\ sess' = [s \in Sessions |-> IF sess[s] = "none" THEN "none" ELSE "ended"]
  /\ leaving' = FALSE /\ flushDue' = {} /\ taken' = [m \in Messages |-> 0]
  /\ stuck' = {} /\ missed' = {}
  /\ UNCHANGED <<row, done, shown, recap, prompt, replayed>>

Next ==
  \/ \E m \in Messages : HoldTaskMessage(m)
  \/ MoveAndClear \/ MoveOutOfDone \/ MoveEnds
  \/ BeginStart \/ StartFails \/ StartSends \/ StartEnds
  \/ \E kind \in {"awaited", "deferred"} : StartOpens(kind)
  \/ \E s \in Sessions, status \in {"queued", "running", "ended"} :
       StartRides(s, status) \/ StartKeeps(s, status)
  \/ \E c \in Claims : DeliveryTypes(c) \/ DeliveryReports(c) \/ OpeningReports(c)
  \/ \E s \in Sessions :
       Promoted(s) \/ AgentRan(s) \/ Closing(s) \/ SessionGone(s) \/ FlushTimer(s)
  \/ Restart

(* The opening of a session that is queued waits for its promotion. *)
OpensFromQueue(c) == deliveries[c].opening = "deferred" /\ sess[deliveries[c].to] = "queued"

(* Every delivery reports (each wait in it has a deadline, but an opening's for
   its session to leave the queue), a start goes on, and a timer fires.  A
   queued or a running session owes nothing. *)
Fairness ==
  /\ \A c \in Claims : /\ WF_vars(DeliveryReports(c))
                       /\ WF_vars(OpeningReports(c) /\ ~OpensFromQueue(c))
  /\ WF_vars(StartFails) /\ WF_vars(StartEnds)
  /\ \A s \in Sessions : WF_vars(FlushTimer(s))

Spec == Init /\ [][Next]_vars
FairSpec == Spec /\ Fairness
-----------------------------------------------------------------------------
(* Rows, claims, rides and deliveries keep their types; only the launch of an
   adapter that reports its start is waited for. *)
HeldTypeOK ==
  /\ row \in [Messages -> {"new", "held", "delivered", "failed", "cleared"}]
  /\ done \in BOOLEAN /\ leaving \in BOOLEAN
  /\ reserved \subseteq Messages /\ open \subseteq Claims
  /\ ids \in [Claims -> SUBSET Messages]
  /\ starting \in {"no", "claimed"} \cup Sessions /\ startClaim \in Claims \cup {NoClaim}
  /\ pendingRides \in [Sessions -> Claims \cup {NoClaim}]
  /\ launchRides \in [Sessions -> Claims \cup {NoClaim}]
  /\ \A s \in Sessions \ ReportsStart : launchRides[s] = NoClaim
  /\ deliveries \in [Claims -> [to : Sessions \cup {NoSession}, flush : BOOLEAN,
                                 stage : {"none", "waiting", "typed"},
                                 opening : {"no", "awaited", "deferred"}]]
  /\ sess \in [Sessions -> {"none", "ended"} \cup Live]
  /\ shown \subseteq Sessions /\ recap \subseteq Sessions /\ flushDue \subseteq Sessions
  /\ prompt \in [Sessions -> SUBSET Messages]
  /\ taken \in [Messages -> Nat]
  /\ stuck \subseteq Messages /\ missed \subseteq Messages \X Sessions
  /\ replayed \subseteq Messages

(* No message is put to an agent twice in one run of the app, whatever is
   superseded, replaced, paused or failed in between; only an opening that a
   start types, and does not see land, gives back what it may have typed. *)
DeliveredOnce == \A m \in Messages : taken[m] <= 1

(* The places a claim can be carried in. *)
Carriers(c) ==
  Cardinality({x \in {1} : startClaim = c})
    + Cardinality({s \in Sessions : pendingRides[s] = c})
    + Cardinality({s \in Sessions : launchRides[s] = c})
    + Cardinality({x \in {1} : deliveries[c].stage # "none"})

(* Every claim that is not settled is carried by exactly one thing that will
   settle it, and nothing carries a settled one: none is dropped with its rows
   reserved until a restart. *)
ClaimsAreCarried == \A c \in Claims : Carriers(c) = IF c \in open THEN 1 ELSE 0

(* A row is reserved by an open claim, or because its settling write failed;
   and no two deliveries have the same held row. *)
ReservationsAreOwned ==
  /\ reserved \subseteq stuck \cup UNION {ids[c] : c \in open}
  /\ \A c, d \in open : c # d => {m \in ids[c] \cap ids[d] : row[m] = "held"} = {}

(* The memory's bookkeeping: what is reserved belongs to a claim that will
   settle it, or to a write that failed. *)
HeldInv == HeldTypeOK /\ ReservationsAreOwned

(* A ride waits only on a session that can still settle it: one that is queued,
   or one whose PTY is up. *)
RidesCanSettle ==
  \A s \in Sessions :
    /\ pendingRides[s] # NoClaim => sess[s] = "queued"
    /\ launchRides[s] # NoClaim => sess[s] \in {"running", "closing"}

(* Nothing is held for a task in Done, whatever delivery was under way when it
   came there. *)
DoneHoldsNothing == done => \A m \in Messages : row[m] # "held"

(* A held message does not wait while an agent that could take it runs: a
   delivery has it, or had it and left it for the next start. *)
NothingWaitsOnALiveAgent ==
  \A s \in Sessions, m \in Messages :
    (sess[s] = "running" /\ s \notin recap \cup flushDue /\ row[m] = "held")
      => m \in reserved \/ <<m, s>> \in missed

(* A row moves on once: a message cleared with its task's move is not marked
   delivered by a delivery that settles later. *)
RowsMoveOnOnce ==
  [][\A m \in Messages : row[m] \in {"delivered", "failed", "cleared"} => row'[m] = row[m]]_vars

(* A message reads delivered only when an agent took it in, or when the record
   of the launch it rode will replay it. *)
DeliveredWasTaken ==
  [][\A m \in Messages :
       (row[m] = "held" /\ row'[m] = "delivered") => taken'[m] > 0 \/ m \in replayed']_vars

(* A row as its sender sees it. *)
Status == [m \in Messages |->
  CASE row[m] # "held" -> row[m]
    [] row[m] = "held" /\ m \in stuck -> "stuck"
    [] row[m] = "held" /\ m \notin stuck \cup reserved -> "waiting"
    [] OTHER -> IF taken[m] = 0 THEN "carried" ELSE "read"]

(* Starts, rides, pastes, flushes, clears and restarts together keep what
   MessageContract promises of each message. *)
Contract == INSTANCE MessageContract WITH status <- Status

ContractKept == Contract!ContractSpec

(* Every claim a start or a delivery carries is settled or handed on, but for
   the opening of a session that is queued. *)
ClaimsMoveOn ==
  \A c \in Claims :
    (startClaim = c \/ deliveries[c].stage # "none")
      ~> (startClaim # c /\ (deliveries[c].stage = "none" \/ OpensFromQueue(c)))
=============================================================================
