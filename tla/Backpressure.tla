----------------------------- MODULE Backpressure -----------------------------
(***************************************************************************)
(* One session's output in the pty host: read from its PTY into the        *)
(* pending buffer, flushed slice by slice to the renderers that show it,   *)
(* and acknowledged by them.  A reader that falls behind pauses the PTY    *)
(* (buffer/backpressure-controller.ts), and a paused PTY reads nothing, so *)
(* whatever is to resume it must come from somewhere else: an ack, a       *)
(* command from main, or the check for stale pauses.                       *)
(*                                                                         *)
(* Lengths are in flush slices.  Nothing obliges a renderer to acknowledge.*)
(***************************************************************************)
EXTENDS Integers, Sequences, FiniteSets, FiniteSetsExt

CONSTANTS
  Renderers,
  High, Low,          \* BACKPRESSURE_HIGH_WATER, BACKPRESSURE_LOW_WATER
  PendHigh, PendLow,  \* PENDING_HIGH_WATER, PENDING_LOW_WATER
  Released,           \* RELEASED_HIGH_WATER
  MaxBehind,          \* bound: how far a renderer may be behind for the PTY to be read
  MaxCommands         \* bound: commands under way when main posts another

ASSUME BackpressureAssumption ==
  /\ High \in Nat /\ Low \in Nat /\ PendHigh \in Nat /\ PendLow \in Nat /\ Released \in Nat
  /\ Low < High /\ High < Released /\ 0 < PendLow /\ PendLow < PendHigh
  /\ IsFiniteSet(Renderers)

VARIABLES
  pty,       \* "reading", "paused", "ended"
  pending,   \* the pending buffer
  entry,     \* the controller's record of the session, or NoEntry
  timer,     \* the stale-pause check is armed
  shows,     \* main: the renderers that show the session (focusedByRenderer)
  focus,     \* the same at the host (rendererFocus)
  ports,     \* the renderers whose port the host holds
  unread,    \* posted to a renderer's page and not acknowledged
  commands,  \* posted by main to the host, in order
  lost       \* history: since the count was last zero, a page went with output unread

vars == <<pty, pending, entry, timer, shows, focus, ports, unread, commands, lost>>

NoEntry == [tracked |-> FALSE, inFlight |-> 0, pending |-> 0, paused |-> FALSE, released |-> FALSE]

Fresh == [NoEntry EXCEPT !.tracked = TRUE]

Init ==
  /\ pty = "reading" /\ pending = 0 /\ entry = NoEntry /\ timer = FALSE
  /\ shows = {} /\ focus = {} /\ ports = Renderers
  /\ unread = [r \in Renderers |-> 0]
  /\ commands = << >>
  /\ lost = FALSE

-----------------------------------------------------------------------------
(* The controller, on a record e of the session.  There is a target to      *)
(* pause for as long as the PTY has not exited.                             *)

PauseIfBehind(e) ==
  LET high == IF e.released THEN Released ELSE High
  IN  IF ~e.paused /\ pty # "ended" /\ (e.inFlight >= high \/ e.pending >= PendHigh)
        THEN [e EXCEPT !.paused = TRUE] ELSE e

ResumeIfCaughtUp(e) ==
  IF e.paused /\ e.inFlight <= Low /\ e.pending <= PendLow
    THEN [e EXCEPT !.paused = FALSE] ELSE e

RecordEmitted(e, n) ==
  LET tracked == IF e.tracked THEN e ELSE Fresh
  IN  PauseIfBehind([tracked EXCEPT !.inFlight = @ + n])

(* Mutant: a drained buffer is noted, and resumes nothing. *)
MutantRecordPending(e, n) ==
  IF ~e.tracked /\ n < PendHigh THEN e
  ELSE PauseIfBehind([(IF e.tracked THEN e ELSE Fresh) EXCEPT !.pending = n])

RecordPending(e, n) ==
  IF ~e.tracked /\ n < PendHigh THEN e
  ELSE LET tracked == IF e.tracked THEN e ELSE Fresh
       IN  ResumeIfCaughtUp(PauseIfBehind([tracked EXCEPT !.pending = n]))

Acknowledge(e, n) ==
  IF ~e.tracked THEN e
  ELSE ResumeIfCaughtUp([e EXCEPT !.released = FALSE, !.inFlight = Max({0, @ - n})])

ReleaseStale(e) ==
  IF e.paused /\ e.inFlight > Low
    THEN ResumeIfCaughtUp([e EXCEPT !.inFlight = 0, !.released = TRUE]) ELSE e

(* The record after a call, and with it the PTY, which tryPause and         *)
(* tryResume pause and resume.                                              *)
Account(e) ==
  /\ entry' = e
  /\ pty' = CASE pty = "ended" -> "ended"
              [] ~entry.paused /\ e.paused -> "paused"
              [] entry.paused /\ ~e.paused -> "reading"
              [] OTHER -> pty

(* What no reader will acknowledge any more: the unread output of pages.    *)
Forget(pages) ==
  lost' = (entry'.inFlight > 0 /\ (lost \/ \E r \in pages : unread[r] > 0))

(* armStalePauseCheck, which every change that may pause the session ends in.*)
Arm == timer' = (timer \/ entry'.paused)

-----------------------------------------------------------------------------
(* A chunk from the PTY.                                                    *)
Read ==
  /\ pty = "reading"
  /\ \A r \in Renderers : unread[r] + pending < MaxBehind
  /\ pending' = pending + 1
  /\ Account(RecordPending(entry, pending')) /\ Arm /\ Forget({})
  /\ UNCHANGED <<shows, focus, ports, unread, commands>>

(* Mutant: what no port took is counted all the same. *)
MutantEmitted(takers, n) == RecordEmitted(entry, n)

(* What no port took is not counted.                                        *)
Emitted(takers, n) == IF takers = {} THEN entry ELSE RecordEmitted(entry, n)

(* The flush's tick: one slice if a renderer or a phone takes it, else the  *)
(* whole buffer.                                                            *)
Flush ==
  /\ pending > 0
  /\ \E n \in (IF focus # {} THEN {1} ELSE {1, pending}) :
       LET takers == focus \cap ports
       IN  /\ unread' = [r \in Renderers |-> unread[r] + (IF r \in takers THEN n ELSE 0)]
           /\ pending' = pending - n
           /\ Account(RecordPending(Emitted(takers, n), pending'))
  /\ Arm /\ Forget({})
  /\ UNCHANGED <<shows, focus, ports, commands>>

(* A replay takes the buffer into its answer (reportDrain).                 *)
Drain ==
  /\ pending > 0
  /\ pending' = 0
  /\ Account(RecordPending(entry, 0)) /\ Arm /\ Forget({})
  /\ UNCHANGED <<shows, focus, ports, unread, commands>>

(* An ack on a renderer's port (onPortMessage).                             *)
Ack(r) ==
  /\ r \in ports
  /\ \E n \in 1..unread[r] :
       /\ unread' = [unread EXCEPT ![r] = @ - n]
       /\ Account(Acknowledge(entry, n))
  /\ Forget({})
  /\ UNCHANGED <<pending, timer, shows, focus, ports, commands>>

(* Mutant: the check stops once it has looked. *)
MutantCheckStalePauses(quiet) ==
  /\ timer
  /\ Account(IF quiet THEN ReleaseStale(entry) ELSE entry) /\ Forget({})
  /\ timer' = FALSE
  /\ UNCHANGED <<pending, shows, focus, ports, unread, commands>>

(* checkStalePauses, with no ack for STALE_PAUSE_MS or before that.  It     *)
(* stops once nothing is paused.                                            *)
CheckStalePauses(quiet) ==
  /\ timer
  /\ Account(IF quiet THEN ReleaseStale(entry) ELSE entry) /\ Forget({})
  /\ timer' = entry'.paused
  /\ UNCHANGED <<pending, shows, focus, ports, unread, commands>>

(* The PTY's process exits (onPtyExit).                                     *)
PtyExit ==
  /\ pty # "ended"
  /\ pty' = "ended" /\ entry' = NoEntry /\ Forget({})
  /\ UNCHANGED <<pending, timer, shows, focus, ports, unread, commands>>

-----------------------------------------------------------------------------
(* Main, and the pages behind the ports.                                    *)

PostAll(cs) ==
  /\ Len(commands) <= MaxCommands
  /\ commands' = commands \o cs

(* setFocusedSessions: the renderer starts or stops to show the session, or *)
(* publishes its set again with the session in it.                          *)
SetFocusedSessions(r, on) ==
  /\ on \/ r \in shows
  /\ PostAll(<<<<IF on THEN "show" ELSE "hide", r>>, <<"release", r>>>>)
  /\ shows' = IF on THEN shows \cup {r} ELSE shows \ {r}
  /\ UNCHANGED <<pty, pending, entry, timer, focus, ports, unread, lost>>

(* A window is gone: clearFocusedSessionsFor rescues the session if no other*)
(* renderer shows it, then detachRendererPort.                              *)
CloseWindow(r) ==
  /\ PostAll((IF r \in shows THEN <<<<"hide", r>>>> ELSE << >>)
               \o (IF shows = {r} THEN <<<<"release", r>>>> ELSE << >>)
               \o <<<<"forget", r>>>>)
  /\ shows' = shows \ {r}
  /\ UNCHANGED <<pty, pending, entry, timer, focus, ports, unread, lost>>

(* A page that loads asks for a port (PTY_PORT_REQUEST).                    *)
AskForPort(r) ==
  /\ PostAll(<<<<"port", r>>>>)
  /\ UNCHANGED <<pty, pending, entry, timer, shows, focus, ports, unread, lost>>

(* A page goes, and its port closes with what it had not acknowledged.      *)
PortCloses(r) ==
  /\ r \in ports
  /\ ports' = ports \ {r}
  /\ unread' = [unread EXCEPT ![r] = 0]
  /\ UNCHANGED <<pty, pending, entry, timer, shows, focus, commands>>
  /\ Forget({r})

(* The host handles the next command.                                       *)
HostObeys ==
  /\ commands # << >>
  /\ commands' = Tail(commands)
  /\ LET what == Head(commands)[1]
         r == Head(commands)[2]
     IN  /\ focus' = CASE what = "show" -> focus \cup {r}
                       [] what \in {"hide", "forget"} -> focus \ {r}
                       [] OTHER -> focus
         /\ ports' = CASE what = "port" -> ports \cup {r}
                       [] what = "forget" -> ports \ {r}
                       [] OTHER -> ports
         /\ unread' = IF what \in {"port", "forget"} THEN [unread EXCEPT ![r] = 0] ELSE unread
         /\ Account(IF what = "release" THEN NoEntry ELSE entry)
         /\ Forget(IF what \in {"port", "forget"} THEN {r} ELSE {})
  /\ UNCHANGED <<pending, timer, shows>>

Next ==
  \/ Read \/ Flush \/ Drain \/ PtyExit \/ HostObeys
  \/ \E quiet \in BOOLEAN : CheckStalePauses(quiet)
  \/ \E r \in Renderers :
       \/ Ack(r) \/ CloseWindow(r) \/ AskForPort(r) \/ PortCloses(r)
       \/ \E on \in BOOLEAN : SetFocusedSessions(r, on)

Spec == Init /\ [][Next]_vars

(* The host's timers and its queue go on; a renderer owes nothing.          *)
FairSpec ==
  /\ Spec
  /\ WF_vars(Flush) /\ WF_vars(HostObeys) /\ WF_vars(CheckStalePauses(TRUE))

-----------------------------------------------------------------------------
TypeOK ==
  /\ pty \in {"reading", "paused", "ended"}
  /\ pending \in Nat
  /\ entry \in [tracked : BOOLEAN, inFlight : Nat, pending : Nat, paused : BOOLEAN,
                released : BOOLEAN]
  /\ timer \in BOOLEAN
  /\ shows \in SUBSET Renderers /\ focus \in SUBSET Renderers /\ ports \in SUBSET Renderers
  /\ unread \in [Renderers -> Nat]
  /\ commands \in Seq({"show", "hide", "release", "forget", "port"} \X Renderers)
  /\ lost \in BOOLEAN

(* The record and the PTY it is about agree, whatever flush, ack, release,
   command and exit came in between: a live PTY stands still exactly while
   its record says so and one of the counts is above its low water, and it is
   read only while the buffer, once there is a record, is below its high
   water; the record's view of the buffer is the buffer, and the check that is to find a
   stale pause is armed for as long as anything is paused. *)
PauseFollowsTheCounts ==
  /\ TypeOK
  /\ pty # "ended" => (pty = "paused" <=> entry.paused)
  /\ entry.paused => timer /\ (entry.inFlight > Low \/ entry.pending > PendLow)
  /\ entry.tracked => entry.pending = pending /\ (pty = "reading" => pending < PendHigh)
  /\ ~entry.tracked => entry = NoEntry

(* What the readers hold, slice by slice, of what they have not read yet.   *)
Owed(u) == UNION {{r} \X (1..u[r]) : r \in Renderers}

(* The count is owed by someone: as long as no page went with output unread,
   what is counted in flight is no more than the readers still hold and will
   acknowledge, however flushes nobody took, releases and the straggling acks
   of what a release zeroed come in between.  So a session whose readers have
   caught up is not paused against them until a stale check. *)
CountIsOwed == ~lost => entry.inFlight <= Cardinality(Owed(unread))

(* No pause is forever, even if no renderer ever acknowledges anything: not
   the one of a page whose terminals are gone while its port and its focus
   live on, nor of a window that closes while another shows the session, nor
   of a full buffer whose reader has gone. *)
PausesEnd == pty = "paused" ~> pty # "paused"

=============================================================================
