-------------------------- MODULE SessionRecords_proofs --------------------------
(***************************************************************************)
(* Proofs about SessionRecords, for any number of sessions, columns,       *)
(* tracks and stops.  At the centre is what one live session implies       *)
(* (LoneOK): it is the newest of the table, the task's row names it,       *)
(* nothing runs under the lock, and its record is busy, that is running or *)
(* queued.  The converse, that a busy record is a live session's (RunOK),  *)
(* is what each write to the table has to keep.  Two more invariants rest  *)
(* on these: what a pause of a track leaves to be seen (PauseInv), and     *)
(* which record has each conversation that is open or has ended (FateInv). *)
(***************************************************************************)
EXTENDS SessionRecords, FiniteSetTheorems, WellFoundedInduction, TLAPS

Ref == Sessions \cup {NoSession}

Record == [status : Statuses, track : Tracks, conv : Ref, by : {"none", "system", "user"},
           bad : BOOLEAN]
Tables == [Sessions -> Record]

Busy(r, s) == r[s].status \in {"running", "queued"}

(* What runs under the lock; a start's session is newer than any of the table. *)
OpOK(o, r, m) ==
  \/ o = Idle
  \/ o.kind = "suspend" /\ o.s \in Sessions
  \/ /\ o.kind \in StartKinds /\ o.s \in Sessions /\ o.track \in Tracks
     /\ o.retire \in Ref /\ o.conv \in Ref /\ o.resumes \in BOOLEAN
     /\ \A t \in Made(r) : t < o.s
     /\ o.kind = "move" => m # NoMove

MoveOK == move \in {NoMove} \cup [to : Columns, from : Columns, failed : BOOLEAN]

PassOK ==
  \/ pass \in [stage : {"none", "done", "gather", "discover", "starting"}]
  \/ pass \in [stage : {"find", "spawn", "spawning"}, sid : Ref, column : Columns]
  \/ pass \in [stage : {"prepare", "start", "keep"}, s : Sessions, status : Statuses, sid : Ref,
               column : Columns, conv : Ref, newest : BOOLEAN]

(* Nothing goes on before a launch has looked at the records. *)
QuietOK ==
  ~up \/ pass.stage = "gather" => op = Idle /\ row = NoRows /\ move = NoMove /\ ~resume

LoneOK ==
  \A s \in Live : op = Idle /\ sid = s /\ Busy(rec, s) /\ \A t \in Made(rec) : t <= s

(* A busy record is a live session's, or one whose suspend has not ended, or
   that a startup pass wrote of a spawn that had failed. *)
RunOK ==
  up /\ pass.stage # "gather" =>
    \A s \in Sessions : Busy(rec, s) =>
      \/ s \in Live
      \/ op.kind = "suspend" /\ op.s = s
      \/ s \in unstarted /\ rec[s].status = "running"

Inv ==
  /\ TypeOK /\ OpOK(op, rec, move) /\ MoveOK /\ PassOK /\ QuietOK /\ LoneOK
  /\ ~LateRollbacks => RunOK

-----------------------------------------------------------------------------
(* The largest of a set of sessions. *)
LEMMA HasLargest ==
  ASSUME NEW n \in Nat, NEW S \in SUBSET (1..n), S # {}
  PROVE  \E s \in S : \A t \in S : t <= s
<1> DEFINE T == {n - s : s \in S}
           R == {ss \in Nat \X Nat : ss[1] < ss[2]}
<1>1. T \subseteq Nat /\ T # {}
  <2>1. \A s \in S : n - s \in Nat
    OBVIOUS
  <2>2. PICK s \in S : TRUE
    OBVIOUS
  <2>3. n - s \in T
    OBVIOUS
  <2> QED  BY <2>1, <2>3
<1>2. PICK x \in T : \A y \in T : ~(<<y, x>> \in R)
  <2>1. IsWellFoundedOn(R, Nat)
    BY NatLessThanWellFounded DEF OpToRel
  <2> HIDE DEF R, T
  <2> QED  BY <1>1, <2>1, WFMin
<1>3. PICK s \in S : x = n - s
  OBVIOUS
<1>4. ASSUME NEW t \in S PROVE t <= s
  <2>1. n - t \in T /\ n - t \in Nat /\ x \in Nat
    BY <1>1
  <2>2. ~(n - t < x)
    BY <1>2, <2>1
  <2> QED  BY <1>3, <2>2
<1> QED  BY <1>4

(* It is one of them. *)
LEMMA LargestIs ==
  ASSUME NEW S \in SUBSET Sessions
  PROVE  /\ S = {} => Largest(S) = NoSession
         /\ S # {} => Largest(S) \in S /\ \A t \in S : t <= Largest(S)
         /\ Largest(S) \in Ref
<1>1. S # {} => \E s \in S : \A t \in S : t <= s
  BY HasLargest, RecordAssumption DEF Sessions
<1> QED  BY <1>1 DEF Largest, Ref

(* Of a table's sessions, of those on a track, and of the live ones. *)
LEMMA LatestIs ==
  ASSUME NEW r \in Tables, NEW track
  PROVE  /\ Latest(r) \in Ref /\ LatestOn(r, track) \in Ref
         /\ Made(r) # {} => Latest(r) \in Made(r)
         /\ \A t \in Made(r) : t <= Latest(r)
         /\ \A t \in OnTrack(r, track) : t <= LatestOn(r, track)
         /\ LatestOn(r, track) # NoSession => LatestOn(r, track) \in OnTrack(r, track)
<1>1. Made(r) \in SUBSET Sessions /\ OnTrack(r, track) \in SUBSET Sessions
  BY DEF Made, OnTrack
<1> QED  BY <1>1, LargestIs DEF Latest, LatestOn

(* What the task's row is reconciled to is a live session, if there is one. *)
LEMMA ReconciledIs ==
  /\ Live = {} => Reconciled = NoSession
  /\ Live # {} => Reconciled \in Live
  /\ Reconciled \in Ref /\ NoSession \notin Sessions /\ Live \subseteq Sessions
<1>1. Live \in SUBSET Sessions
  BY DEF Live
<1>2. NoSession \notin Sessions
  BY RecordAssumption DEF NoSession, Sessions
<1> QED  BY <1>1, <1>2, LargestIs DEF Reconciled

-----------------------------------------------------------------------------
(* The writes.  None makes a record or a busy or a queued one, or moves one
   to another track. *)
Settles(r, q) ==
  /\ q \in Tables
  /\ \A t \in Sessions : /\ q[t].status = "none" <=> r[t].status = "none"
                         /\ Busy(q, t) => Busy(r, t)
                         /\ q[t].status = "queued" => r[t].status = "queued"
                         /\ q[t].track = r[t].track

(* A settled table has the sessions it had. *)
LEMMA SettlesMade ==
  ASSUME NEW r \in Tables, NEW q, Settles(r, q)
  PROVE  Made(q) = Made(r)
BY DEF Settles, Made

(* A table settled twice is settled. *)
LEMMA SettlesTwice ==
  ASSUME NEW r, NEW p, NEW q, Settles(r, p), Settles(p, q)
  PROVE  Settles(r, q)
BY DEF Settles

(* A table is its own settling. *)
LEMMA SettlesSame == ASSUME NEW r \in Tables PROVE Settles(r, r)
BY DEF Settles

(* One record changes, to a status that is not busy. *)
LEMMA IfSettles ==
  ASSUME NEW r \in Tables, NEW s \in Ref, NEW from, "none" \notin from, NEW to,
         s \in Sessions => to \in Record /\ to.track = r[s].track
                           /\ to.status \in {"suspended", "exited", "orphaned"}
  PROVE  /\ Settles(r, If(r, s, from, to))
         /\ \A t \in Sessions : t # s \/ r[t].status \notin from => If(r, s, from, to)[t] = r[t]
         /\ s \in Sessions /\ r[s].status \in from => If(r, s, from, to)[s] = to
<1>1. CASE s # NoSession /\ r[s].status \in from
  <2>1. s \in Sessions /\ If(r, s, from, to) = [r EXCEPT ![s] = to]
    BY <1>1 DEF Ref, If
  <2>2. r[s] \in Record /\ [r EXCEPT ![s] = to] \in Tables
    BY <2>1 DEF Tables
  <2> QED  BY <1>1, <2>1, <2>2 DEF Settles, Busy, Tables, Record
<1>2. CASE ~(s # NoSession /\ r[s].status \in from)
  <2>1. If(r, s, from, to) = r
    BY <1>2 DEF If
  <2>2. s \in Sessions => r[s].status \notin from
    BY <1>2, ReconciledIs
  <2> QED  BY <2>1, <2>2, SettlesSame
<1> QED  BY <1>1, <1>2

(* markRecordExited: the record alone changes, and is not busy afterwards. *)
LEMMA MarkExitedFacts ==
  ASSUME NEW r \in Tables, NEW s \in Ref, NEW bad \in BOOLEAN
  PROVE  LET q == MarkExited(r, s, bad) IN
         /\ Settles(r, q)
         /\ \A t \in Sessions : t # s => q[t] = r[t]
         /\ s \in Sessions => ~Busy(q, s)
<1> DEFINE to == [r[s] EXCEPT !.status = "exited", !.bad = bad]
<1>1. s \in Sessions => to \in Record /\ to.track = r[s].track /\ to.status = "exited"
  BY DEF Tables, Record, Statuses
<1>2. /\ Settles(r, MarkExited(r, s, bad))
      /\ \A t \in Sessions : t # s \/ r[t].status \notin {"running", "queued"} =>
           MarkExited(r, s, bad)[t] = r[t]
      /\ s \in Sessions /\ r[s].status \in {"running", "queued"} => MarkExited(r, s, bad)[s] = to
  <2> HIDE DEF to
  <2>1. s \in Sessions => to \in Record /\ to.track = r[s].track
                          /\ to.status \in {"suspended", "exited", "orphaned"}
    BY <1>1
  <2> QED  BY <2>1, IfSettles DEF MarkExited, to
<1> HIDE DEF to
<1> QED  BY <1>1, <1>2 DEF Busy

(* markRecordSuspended: the record alone changes, and keeps its conversation. *)
LEMMA MarkSuspendedFacts ==
  ASSUME NEW r \in Tables, NEW s \in Ref, NEW by \in {"system", "user"}
  PROVE  LET q == MarkSuspended(r, s, by) IN
         /\ Settles(r, q)
         /\ \A t \in Sessions : t # s => q[t] = r[t]
         /\ s \in Sessions /\ r[s].status \in {"running", "exited", "orphaned"} =>
              q[s].status = "suspended" /\ q[s].by = by /\ q[s].conv = r[s].conv
<1> DEFINE to == [r[s] EXCEPT !.status = "suspended", !.by = by]
<1>1. s \in Sessions => /\ to \in Record /\ to.track = r[s].track /\ to.status = "suspended"
                       /\ to.by = by /\ to.conv = r[s].conv
  BY DEF Tables, Record, Statuses
<1> HIDE DEF to
<1>2. s \in Sessions => to \in Record /\ to.track = r[s].track
                        /\ to.status \in {"suspended", "exited", "orphaned"}
  BY <1>1
<1>3. /\ Settles(r, MarkSuspended(r, s, by))
      /\ \A t \in Sessions : t # s => MarkSuspended(r, s, by)[t] = r[t]
      /\ s \in Sessions /\ r[s].status \in {"running", "exited", "orphaned"} =>
           MarkSuspended(r, s, by)[s] = to
  <2> DEFINE from == {"running", "exited", "orphaned"}
  <2>1. MarkSuspended(r, s, by) = If(r, s, from, to) /\ "none" \notin from
    BY DEF MarkSuspended, to
  <2> HIDE DEF from
  <2>2. /\ Settles(r, If(r, s, from, to))
        /\ \A t \in Sessions : t # s \/ r[t].status \notin from => If(r, s, from, to)[t] = r[t]
        /\ s \in Sessions /\ r[s].status \in from => If(r, s, from, to)[s] = to
    BY <1>2, <2>1, IfSettles
  <2> QED  BY <2>1, <2>2 DEF from
<1> QED  BY <1>1, <1>3

(* settleQueuedRecord: the record alone changes, and a queued one is not busy. *)
LEMMA SettleQueuedFacts ==
  ASSUME NEW r \in Tables, NEW s \in Sessions, NEW by \in {"system", "user"}
  PROVE  LET q == SettleQueued(r, s, by) IN
         /\ Settles(r, q)
         /\ \A t \in Sessions : t # s => q[t] = r[t]
         /\ r[s].status = "queued" => ~Busy(q, s)
<1> DEFINE kept == [r[s] EXCEPT !.status = "suspended", !.by = by]
           gone == [r[s] EXCEPT !.status = "exited", !.conv = NoSession]
<1>1. /\ kept \in Record /\ kept.track = r[s].track /\ kept.status = "suspended"
      /\ gone \in Record /\ gone.track = r[s].track /\ gone.status = "exited"
      /\ s \in Ref
  BY DEF Tables, Record, Statuses, Ref
<1> HIDE DEF kept, gone
<1>2. CASE r[s].conv \notin {NoSession, s}
  <2>1. SettleQueued(r, s, by) = If(r, s, {"queued"}, kept)
    BY <1>2 DEF SettleQueued, kept
  <2>2. /\ Settles(r, If(r, s, {"queued"}, kept))
        /\ \A t \in Sessions : t # s => If(r, s, {"queued"}, kept)[t] = r[t]
        /\ r[s].status = "queued" => If(r, s, {"queued"}, kept)[s] = kept
    BY <1>1, IfSettles
  <2> QED  BY <1>1, <2>1, <2>2 DEF Busy
<1>3. CASE r[s].conv \in {NoSession, s}
  <2>1. SettleQueued(r, s, by) = If(r, s, {"running", "queued"}, gone)
    BY <1>3 DEF SettleQueued, gone
  <2> DEFINE from == {"running", "queued"}
  <2>2. "none" \notin from /\ "queued" \in from
    OBVIOUS
  <2>3. SettleQueued(r, s, by) = If(r, s, from, gone)
    BY <2>1
  <2> HIDE DEF from
  <2>4. /\ Settles(r, If(r, s, from, gone))
        /\ \A t \in Sessions : t # s => If(r, s, from, gone)[t] = r[t]
        /\ r[s].status \in from => If(r, s, from, gone)[s] = gone
    BY <1>1, <2>2, IfSettles
  <2> QED  BY <1>1, <2>2, <2>3, <2>4 DEF Busy
<1> QED  BY <1>2, <1>3

(* retireRecord: a busy record is left as it is. *)
LEMMA RetireFacts ==
  ASSUME NEW r \in Tables, NEW s \in Ref
  PROVE  LET q == Retire(r, s) IN
         /\ Settles(r, q)
         /\ \A t \in Sessions : t # s \/ Busy(r, t) => q[t] = r[t]
         /\ s \in Sessions => q[s].status # "orphaned" /\ q[s].status # "suspended"
<1> DEFINE to == [r[s] EXCEPT !.status = "exited"]
<1>1. s \in Sessions => to \in Record /\ to.track = r[s].track /\ to.status = "exited"
  BY DEF Tables, Record, Statuses
<1> HIDE DEF to
<1>2. /\ Settles(r, Retire(r, s))
      /\ \A t \in Sessions : t # s \/ r[t].status \notin {"suspended", "orphaned"} =>
           Retire(r, s)[t] = r[t]
      /\ s \in Sessions /\ r[s].status \in {"suspended", "orphaned"} => Retire(r, s)[s] = to
  <2>1. s \in Sessions => to \in Record /\ to.track = r[s].track
                          /\ to.status \in {"suspended", "exited", "orphaned"}
    BY <1>1
  <2> QED  BY <2>1, IfSettles DEF Retire, to
<1> QED  BY <1>1, <1>2 DEF Busy

(* What a suspend writes, by whichever of them, settles the table. *)
LEMMA SuspendFacts ==
  ASSUME NEW r \in Tables, NEW s \in Ref, NEW by \in {"system", "user"}
  PROVE  LET q == SuspendWrites(r, s, by) IN
         Settles(r, q) /\ \A t \in Sessions : t # s => q[t] = r[t]
<1>1. CASE s = NoSession
  BY <1>1, SettlesSame DEF SuspendWrites
<1>2. CASE s \in Sessions
  <2>1. s # NoSession
    BY <1>2, ReconciledIs
  <2>2. \/ SuspendWrites(r, s, by) = r
        \/ SuspendWrites(r, s, by) = SettleQueued(r, s, by)
        \/ SuspendWrites(r, s, by) = MarkSuspended(r, s, by)
    BY <2>1 DEF SuspendWrites
  <2>3. /\ Settles(r, SettleQueued(r, s, by))
        /\ \A t \in Sessions : t # s => SettleQueued(r, s, by)[t] = r[t]
    BY <1>2, SettleQueuedFacts
  <2>4. /\ Settles(r, MarkSuspended(r, s, by))
        /\ \A t \in Sessions : t # s => MarkSuspended(r, s, by)[t] = r[t]
    BY MarkSuspendedFacts
  <2> QED  BY <2>2, <2>3, <2>4, SettlesSame
<1> QED  BY <1>1, <1>2 DEF Ref

-----------------------------------------------------------------------------
(* What the steps read of the invariant, and what they have to show. *)
Fates == [Sessions -> {"none", "open", "failed", "ended", "given up"}]

Types ==
  /\ rec \in Tables /\ sid \in Ref /\ column \in Columns
  /\ row \in [Sessions -> Statuses \ {"orphaned"}]
  /\ placeholder \in BOOLEAN /\ stale \in BOOLEAN /\ resume \in BOOLEAN /\ up \in BOOLEAN
  /\ stops \in 0..MaxStops /\ gestures \in 0..MaxGestures /\ touched \in BOOLEAN
  /\ fate \in Fates /\ unstarted \subseteq Sessions /\ held \in Tracks \cup {"none"}

(* The type invariant, in the names used here. *)
LEMMA TypesAre ==
  /\ TypeOK <=> Types
  /\ TypeOK' <=> Types'
BY DEF TypeOK, Types, Tables, Record, Ref, Fates

(* What the invariant says, by variable. *)
LEMMA InvFacts ==
  ASSUME Inv
  PROVE  /\ Types /\ rec \in Tables /\ sid \in Ref /\ fate \in Fates /\ column \in Columns
         /\ OpOK(op, rec, move) /\ MoveOK /\ PassOK /\ QuietOK /\ LoneOK
         /\ op # Idle => Live = {}
         /\ \A s, t \in Live : s = t
<1>1. /\ Types /\ rec \in Tables /\ sid \in Ref /\ fate \in Fates /\ column \in Columns
      /\ OpOK(op, rec, move) /\ MoveOK /\ PassOK /\ QuietOK /\ LoneOK
  BY TypesAre DEF Inv, Types
<1> QED  BY <1>1 DEF LoneOK

(* Noting how a conversation ended keeps the type. *)
LEMMA ToldIs ==
  ASSUME fate \in Fates, NEW c, NEW end \in {"open", "ended", "given up"}
  PROVE  Told(c, end) \in Fates
BY DEF Told, Fates

(* An empty registry has no row and no live session. *)
LEMMA NoRowsIs ==
  /\ NoRows \in [Sessions -> Statuses \ {"orphaned"}]
  /\ row = NoRows => Live = {} /\ Rows = {}
  /\ row' = NoRows => Live' = {} /\ Rows' = {}
BY DEF NoRows, Statuses, Live, Rows

(* An idle lock runs no start. *)
LEMMA IdleIs == Idle.kind = "idle" /\ "idle" \notin StartKinds
BY DEF Idle, StartKinds

(* A step that leaves the lock and the task's session as they are. *)
LEMMA LoneKept ==
  ASSUME Inv, Settles(rec, rec'), op' = op, sid' = sid,
         \A s \in Live' : s \in Live /\ Busy(rec', s)
  PROVE  LoneOK'
<1>1. Made(rec') = Made(rec)
  BY InvFacts, SettlesMade
<1> QED  BY <1>1 DEF Inv, LoneOK

(* A step that leaves what runs under the lock. *)
LEMMA OpKept ==
  ASSUME Inv, Settles(rec, rec'), op' = op, move' = move
  PROVE  OpOK(op', rec', move')
<1>1. Made(rec') = Made(rec)
  BY InvFacts, SettlesMade
<1> QED  BY <1>1 DEF Inv, OpOK

(* No record is made busy, and none stays busy whose session has ended. *)
LEMMA RunKept ==
  ASSUME Inv, ~LateRollbacks, Settles(rec, rec'), up' => up, pass.stage # "gather",
         unstarted' = unstarted,
         \A s \in Live : s \in Live' \/ ~Busy(rec', s) \/ (op'.kind = "suspend" /\ op'.s = s),
         \A s \in Sessions : op.kind = "suspend" /\ op.s = s =>
           (op'.kind = "suspend" /\ op'.s = s) \/ ~Busy(rec', s)
  PROVE  RunOK'
BY DEF Inv, RunOK, Settles, Busy

(* With no live session there is nothing to say of one. *)
LEMMA CalmLone == ASSUME Live' = {} PROVE LoneOK'
BY DEF LoneOK

-----------------------------------------------------------------------------
(* The agents' steps. *)
LEMMA PromoteStep ==
  ASSUME Inv, NEW s \in Sessions, Promote(s)
  PROVE  Inv'
<1>0. /\ Types /\ rec \in Tables /\ fate \in Fates /\ MoveOK /\ PassOK /\ QuietOK /\ LoneOK
  BY InvFacts
<1>1. /\ UNCHANGED <<sid, column, placeholder, op, move, stale, resume, pass, up, stops, gestures,
                     touched, held, unstarted>>
      /\ row[s] = "queued" /\ row' = [row EXCEPT ![s] = "running"] /\ rec' = Promoted(rec, s)
      /\ fate' = Told(rec[s].conv, "open")
  BY DEF Promote, boardVars, lifeVars
<1>2. /\ rec' \in Tables /\ Busy(rec', s) /\ \A t \in Sessions : t # s => rec'[t] = rec[t]
      /\ Settles(rec, rec')
  <2>1. Busy(rec, s)
    BY <1>0, <1>1 DEF LoneOK, Live
  <2>2. \/ rec' = rec
        \/ rec[s].status = "queued" /\ rec' = [rec EXCEPT ![s] = [rec[s] EXCEPT !.status = "running"]]
    BY <1>1 DEF Promoted, If
  <2>3. [rec[s] EXCEPT !.status = "running"] \in Record
    BY <1>0 DEF Tables, Record, Statuses
  <2>4. CASE rec' = rec
    BY <1>0, <2>1, <2>4, SettlesSame
  <2>5. CASE /\ rec[s].status = "queued"
             /\ rec' = [rec EXCEPT ![s] = [rec[s] EXCEPT !.status = "running"]]
    BY <1>0, <2>3, <2>5 DEF Tables, Record, Settles, Busy
  <2> QED  BY <2>2, <2>4, <2>5
<1>3. row' \in [Sessions -> Statuses \ {"orphaned"}] /\ Live' = Live
  BY <1>0, <1>1 DEF Types, Statuses, Live
<1>4. Types'
  BY <1>0, <1>1, <1>2, <1>3, ToldIs DEF Types
<1>5. MoveOK' /\ PassOK'
  BY <1>0, <1>1 DEF MoveOK, PassOK
<1>6. QuietOK'
  BY <1>0, <1>1, NoRowsIs DEF QuietOK, NoRows
<1>7. LoneOK'
  <2>1. \A t \in Live : t \in Sessions /\ Busy(rec', t)
    BY <1>0, <1>2, ReconciledIs DEF LoneOK, Busy
  <2> QED  BY <1>1, <1>2, <1>3, <2>1, LoneKept
<1>8. ~LateRollbacks => RunOK'
  BY <1>0, <1>1, <1>2, <1>3, RunKept, NoRowsIs DEF QuietOK, Live, NoRows
<1> QED  BY <1>1, <1>2, <1>4, <1>5, <1>6, <1>7, <1>8, OpKept, TypesAre DEF Inv

(* The agent reports its id. *)
LEMMA CaptureStep ==
  ASSUME Inv, NEW s \in Sessions, Capture(s)
  PROVE  Inv'
<1>0. /\ Types /\ rec \in Tables /\ fate \in Fates /\ MoveOK /\ PassOK /\ QuietOK /\ LoneOK
  BY InvFacts
<1>1. /\ UNCHANGED <<sid, column, row, placeholder, op, move, stale, resume, pass, up, stops,
                     gestures, touched, held, unstarted>>
      /\ row[s] = "running" /\ rec' = [rec EXCEPT ![s].conv = s]
      /\ fate' = Told(s, "open")
  BY DEF Capture, boardVars, lifeVars, registryVars
<1>2. Settles(rec, rec') /\ rec' \in Tables /\ \A t \in Sessions : Busy(rec, t) => Busy(rec', t)
  <2>1. [rec[s] EXCEPT !.conv = s] \in Record
    BY <1>0 DEF Tables, Record, Ref
  <2> QED  BY <1>0, <1>1, <2>1 DEF Tables, Record, Settles, Busy
<1>3. Live' = Live
  BY <1>1 DEF Live
<1>4. Types'
  BY <1>0, <1>1, <1>2, ToldIs DEF Types
<1>5. MoveOK' /\ PassOK' /\ QuietOK'
  BY <1>0, <1>1 DEF MoveOK, PassOK, QuietOK
<1>7. LoneOK'
  BY <1>0, <1>1, <1>2, <1>3, LoneKept DEF LoneOK, Live
<1>8. ~LateRollbacks => RunOK'
  BY <1>0, <1>1, <1>2, <1>3, RunKept, NoRowsIs DEF QuietOK, NoRows
<1> QED  BY <1>1, <1>2, <1>4, <1>5, <1>7, <1>8, OpKept, TypesAre DEF Inv

(* An agent ends. *)
LEMMA EndStep ==
  ASSUME Inv, NEW s \in Sessions, NEW bad \in BOOLEAN, AgentEnds(s, bad)
  PROVE  Inv'
<1>0. /\ Types /\ rec \in Tables /\ fate \in Fates /\ MoveOK /\ PassOK /\ QuietOK /\ LoneOK
      /\ \A t, u \in Live : t = u
  BY InvFacts
<1>1. /\ UNCHANGED <<sid, column, placeholder, op, move, stale, resume, pass, up, stops,
                     gestures, touched, held, unstarted>>
      /\ s \in Live /\ row' = [row EXCEPT ![s] = "exited"] /\ rec' = MarkExited(rec, s, bad)
      /\ fate' = fate \/ fate' = Told(rec[s].conv, "ended")
  BY DEF AgentEnds, boardVars, lifeVars
<1>2. Settles(rec, rec') /\ rec' \in Tables /\ ~Busy(rec', s)
  BY <1>0, <1>1, MarkExitedFacts DEF Settles, Ref
<1>3. row' \in [Sessions -> Statuses \ {"orphaned"}] /\ Live' = {}
  BY <1>0, <1>1 DEF Types, Statuses, Live
<1>4. Types'
  BY <1>0, <1>1, <1>2, <1>3, ToldIs DEF Types
<1>5. MoveOK' /\ PassOK'
  BY <1>0, <1>1 DEF MoveOK, PassOK
<1>6. QuietOK' /\ pass.stage # "gather"
  BY <1>0, <1>1, NoRowsIs DEF QuietOK
<1>7. LoneOK'
  BY <1>3, CalmLone
<1>8. ~LateRollbacks => RunOK'
  BY <1>0, <1>1, <1>2, <1>6, RunKept
<1> QED  BY <1>1, <1>2, <1>4, <1>5, <1>6, <1>7, <1>8, OpKept, TypesAre DEF Inv

-----------------------------------------------------------------------------
(* The ends of the app. *)
LEMMA DownStep ==
  ASSUME Inv, Down, Settles(rec, rec'), sid' \in Ref
  PROVE  Inv'
<1>0. Types
  BY InvFacts
<1>1. /\ UNCHANGED <<column, gestures, touched, fate, held, unstarted>>
      /\ up' = FALSE /\ stops' = stops + 1 /\ stops < MaxStops
      /\ row' = NoRows /\ placeholder' = FALSE
      /\ op' = Idle /\ move' = NoMove /\ stale' = FALSE /\ resume' = FALSE /\ pass' = NoPass
  BY DEF Down, ghostVars
<1>2. Types'
  <2>1. stops' \in 0..MaxStops
    BY <1>0, <1>1, RecordAssumption DEF Types
  <2> QED  BY <1>0, <1>1, <2>1, NoRowsIs DEF Types, Settles
<1>3. OpOK(op', rec', move') /\ MoveOK'
  BY <1>1 DEF OpOK, MoveOK
<1>4. PassOK'
  BY <1>1 DEF PassOK, NoPass
<1>5. QuietOK' /\ RunOK'
  BY <1>1 DEF QuietOK, RunOK, NoRows
<1> QED  BY <1>1, <1>2, <1>3, <1>4, <1>5, CalmLone, NoRowsIs, TypesAre DEF Inv

(* A crash and a quit keep the invariant. *)
LEMMA StopStep ==
  ASSUME Inv, Crash \/ Quit
  PROVE  Inv'
<1>0. rec \in Tables /\ sid \in Ref
  BY InvFacts
<1>1. CASE Crash
  BY <1>0, <1>1, SettlesSame, DownStep DEF Crash
<1>2. CASE Quit
  <2>1. Down /\ sid' \in Ref
    BY <1>0, <1>2 DEF Quit, Ref
  <2>2. rec' = [s \in Sessions |->
           CASE s \in Live /\ rec[s].status = "running" -> MarkSuspended(rec, s, "system")[s]
             [] s \in Live /\ rec[s].status = "queued"  -> SettleQueued(rec, s, "system")[s]
             [] OTHER -> rec[s]]
    BY <1>2 DEF Quit
  <2>3. ASSUME NEW s \in Sessions
        PROVE  /\ rec'[s] \in Record /\ (rec'[s].status = "none" <=> rec[s].status = "none")
               /\ (Busy(rec', s) => Busy(rec, s)) /\ rec'[s].track = rec[s].track
               /\ rec'[s].status = "queued" => rec[s].status = "queued"
    <3>1. \/ rec'[s] = MarkSuspended(rec, s, "system")[s]
          \/ rec'[s] = SettleQueued(rec, s, "system")[s]
          \/ rec'[s] = rec[s]
      BY <2>2
    <3>2. Settles(rec, MarkSuspended(rec, s, "system"))
      BY <1>0, MarkSuspendedFacts DEF Ref
    <3>3. Settles(rec, SettleQueued(rec, s, "system"))
      BY <1>0, SettleQueuedFacts
    <3> QED  BY <1>0, <3>1, <3>2, <3>3 DEF Settles, Busy, Tables
  <2>4. Settles(rec, rec')
    BY <2>2, <2>3 DEF Settles, Tables
  <2> QED  BY <2>1, <2>4, DownStep
<1> QED  BY <1>1, <1>2

(* A launch keeps it. *)
LEMMA LaunchStep ==
  ASSUME Inv, Launch
  PROVE  Inv'
<1>0. Types /\ QuietOK /\ rec \in Tables /\ MoveOK
  BY InvFacts
<1>1. /\ UNCHANGED <<rec, sid, column, row, placeholder, op, move, stale, resume, stops, gestures,
                     fate, held, unstarted>>
      /\ ~up /\ up' = TRUE /\ touched' = FALSE /\ pass' = [stage |-> "gather"]
  BY DEF Launch, tableVars, registryVars, boardVars
<1>2. Types' /\ MoveOK'
  BY <1>0, <1>1 DEF Types, MoveOK
<1>3. PassOK'
  BY <1>1 DEF PassOK
<1>4. QuietOK'
  BY <1>0, <1>1 DEF QuietOK, NoRows
<1>5. OpOK(op', rec', move')
  BY <1>0, <1>1, SettlesSame, OpKept
<1>6. LoneOK'
  BY <1>0, <1>1, CalmLone, NoRowsIs DEF QuietOK
<1>7. RunOK'
  BY <1>1 DEF RunOK
<1> QED  BY <1>2, <1>3, <1>4, <1>5, <1>6, <1>7, TypesAre DEF Inv

-----------------------------------------------------------------------------
(* The user's gestures. *)
LEMMA GestureFacts ==
  ASSUME Inv, Gesture
  PROVE  /\ up /\ op = Idle /\ pass.stage # "gather"
         /\ gestures' \in 0..MaxGestures /\ touched' = TRUE
BY InvFacts, RecordAssumption DEF Gesture, Free, Types

(* The session that a turn under the lock starts from. *)
LEMMA LiveOne ==
  ASSUME Inv, Reconciled # NoSession
  PROVE  /\ Reconciled \in Live /\ Reconciled \in Sessions /\ Live = {Reconciled}
         /\ OwnRecord(Reconciled) = Reconciled /\ Latest(rec) = Reconciled
         /\ Busy(rec, Reconciled)
<1>0. rec \in Tables /\ LoneOK /\ \A s, t \in Live : s = t
  BY InvFacts
<1>1. Reconciled \in Live /\ Reconciled \in Sessions
  BY ReconciledIs
<1>2. Busy(rec, Reconciled) /\ \A t \in Made(rec) : t <= Reconciled
  BY <1>0, <1>1 DEF LoneOK
<1>3. OwnRecord(Reconciled) = Reconciled /\ Reconciled \in Made(rec)
  BY <1>1, <1>2 DEF OwnRecord, Busy, Made
<1>4. Latest(rec) \in Made(rec) /\ Reconciled <= Latest(rec)
  BY <1>0, <1>3, LatestIs
<1>5. Latest(rec) \in Int /\ Reconciled \in Int
  BY <1>1, <1>4 DEF Made, Sessions
<1>6. Latest(rec) = Reconciled
  BY <1>2, <1>4, <1>5
<1>7. Live = {Reconciled}
  BY <1>0, <1>1
<1> QED  BY <1>1, <1>2, <1>3, <1>6, <1>7

(* A resume begins, is cancelled or fails. *)
LEMMA ResumeStep ==
  ASSUME Inv, Resume \/ CancelResume \/ ResumeFails
  PROVE  Inv'
<1>0. /\ Types /\ rec \in Tables /\ MoveOK /\ PassOK /\ QuietOK /\ LoneOK
      /\ OpOK(op, rec, move)
  BY InvFacts
<1>1. /\ UNCHANGED <<rec, column, row, placeholder, op, move, stale, pass, up, stops, fate, unstarted>>
      /\ up /\ resume' \in BOOLEAN
      /\ \/ sid' = sid
         \/ Live = {} /\ sid' = NoSession
      /\ held' \in {held, "none"}
  BY DEF Resume, CancelResume, ResumeFails, Gesture, Free, tableVars, registryVars, lifeVars,
         ghostVars
<1>2. gestures' \in 0..MaxGestures /\ touched' \in BOOLEAN
  BY <1>0, GestureFacts DEF Resume, CancelResume, ResumeFails, lifeVars, Types
<1>3. pass.stage # "gather"
  BY <1>0, GestureFacts DEF Resume, CancelResume, ResumeFails, QuietOK
<1>4. Types'
  BY <1>0, <1>1, <1>2 DEF Types, Ref
<1>5. MoveOK' /\ PassOK' /\ OpOK(op', rec', move') /\ QuietOK'
  BY <1>0, <1>1, <1>3 DEF MoveOK, PassOK, QuietOK
<1>6. Live' = Live
  BY <1>1 DEF Live
<1>7. LoneOK'
  BY <1>0, <1>1, <1>6 DEF LoneOK, Made, Busy
<1>8. ~LateRollbacks => RunOK'
  BY <1>1, <1>6 DEF RunOK, Inv, Busy
<1> QED  BY <1>4, <1>5, <1>7, <1>8, TypesAre DEF Inv

(* A pause writes its record before the PTY goes down. *)
LEMMA PauseStep ==
  ASSUME Inv, Pause
  PROVE  Inv'
<1> DEFINE s == Reconciled
           r == SuspendWrites(rec, s, "user")
<1>0. /\ Types /\ rec \in Tables /\ MoveOK /\ PassOK /\ QuietOK /\ LoneOK
  BY InvFacts
<1>1. /\ UNCHANGED <<column, placeholder, op, move, stale, pass, up, stops, fate, unstarted>>
      /\ resume' = FALSE /\ s # NoSession
      /\ rec' = MarkExited(SuspendWrites(rec, OwnRecord(s), "user"), s, TRUE)
      /\ row' = [row EXCEPT ![s] = "suspended"] /\ sid' = NoSession
      /\ held' = IF HeldPause(SuspendWrites(rec, OwnRecord(s), "user"), OwnRecord(s))
                 THEN SuspendWrites(rec, OwnRecord(s), "user")[OwnRecord(s)].track ELSE held
      /\ Gesture
  BY DEF Pause
<1>2. up /\ op = Idle /\ pass.stage # "gather" /\ gestures' \in 0..MaxGestures /\ touched' = TRUE
  BY <1>1, GestureFacts
<1>3. s \in Sessions /\ s \in Ref /\ Live = {s} /\ OwnRecord(s) = s
  BY <1>1, LiveOne, ReconciledIs
<1>4. r \in Tables /\ Settles(rec, r) /\ r[s].track \in Tracks
  <2>1. Settles(rec, r)
    BY <1>0, <1>3, SuspendFacts
  <2> QED  BY <1>3, <2>1 DEF Settles, Tables, Record
<1>5. Settles(rec, rec') /\ ~Busy(rec', s) /\ rec' \in Tables
  <2>1. rec' = MarkExited(r, s, TRUE)
    BY <1>1, <1>3
  <2>2. Settles(r, rec') /\ ~Busy(rec', s)
    BY <1>3, <1>4, <2>1, MarkExitedFacts
  <2> QED  BY <1>4, <2>2, SettlesTwice DEF Settles
<1>6. row' \in [Sessions -> Statuses \ {"orphaned"}] /\ Live' = {}
  BY <1>0, <1>1, <1>3 DEF Types, Statuses, Live
<1>7. Types'
  <2>1. held' \in Tracks \cup {"none"}
    BY <1>0, <1>1, <1>3, <1>4 DEF Types
  <2> QED  BY <1>0, <1>1, <1>2, <1>5, <1>6, <2>1 DEF Types, Ref
<1>8. MoveOK' /\ PassOK' /\ QuietOK'
  BY <1>0, <1>1, <1>2 DEF MoveOK, PassOK, QuietOK
<1>9. OpOK(op', rec', move')
  BY <1>1, <1>5, OpKept
<1>10. ~LateRollbacks => RunOK'
  BY <1>1, <1>2, <1>3, <1>5, RunKept, IdleIs
<1> QED  BY <1>6, <1>7, <1>8, <1>9, <1>10, CalmLone, TypesAre DEF Inv

(* A reset kills and removes the rows. *)
LEMMA ResetStep ==
  ASSUME Inv, Reset
  PROVE  Inv'
<1>0. /\ Types /\ rec \in Tables /\ MoveOK /\ PassOK /\ QuietOK /\ fate \in Fates
  BY InvFacts
<1>1. /\ UNCHANGED <<column, op, move, stale, pass, up, stops, unstarted>>
      /\ resume' = FALSE /\ sid' = NoSession /\ row' = NoRows /\ placeholder' = FALSE
      /\ rec' = MarkExited(rec, Latest(rec), sid # NoSession /\ row[sid] = "queued")
      /\ fate' = [c \in Sessions |-> IF fate[c] = "none" THEN "none" ELSE "given up"]
      /\ held' = "none" /\ Gesture
  BY DEF Reset
<1>2. up /\ op = Idle /\ pass.stage # "gather" /\ gestures' \in 0..MaxGestures /\ touched' = TRUE
  BY <1>1, GestureFacts
<1>3. /\ Settles(rec, rec') /\ rec' \in Tables
      /\ Latest(rec) \in Sessions => ~Busy(rec', Latest(rec))
  <2> DEFINE bad == sid # NoSession /\ row[sid] = "queued"
  <2>1. bad \in BOOLEAN /\ Latest(rec) \in Ref /\ rec' = MarkExited(rec, Latest(rec), bad)
    BY <1>0, <1>1, LatestIs
  <2> HIDE DEF bad
  <2> QED  BY <1>0, <2>1, MarkExitedFacts DEF Settles
<1>4. \A s \in Live : s \in Sessions /\ s = Latest(rec)
  BY LiveOne, ReconciledIs
<1>5. fate' \in Fates
  BY <1>0, <1>1 DEF Fates
<1>6. Types'
  BY <1>0, <1>1, <1>2, <1>3, <1>5, NoRowsIs DEF Types, Ref
<1>7. MoveOK' /\ PassOK' /\ QuietOK'
  BY <1>0, <1>1, <1>2 DEF MoveOK, PassOK, QuietOK
<1>8. OpOK(op', rec', move')
  BY <1>1, <1>3, OpKept
<1>9. ~LateRollbacks => RunOK'
  BY <1>1, <1>2, <1>3, <1>4, RunKept, IdleIs
<1> QED  BY <1>1, <1>6, <1>7, <1>8, <1>9, CalmLone, NoRowsIs, TypesAre DEF Inv

(* The first phase of a move. *)
LEMMA MoveToStep ==
  ASSUME Inv, NEW c \in Columns, MoveTo(c)
  PROVE  Inv'
<1> DEFINE s == Reconciled
           own == IF c \in AutoSpawn THEN Latest(rec) ELSE OwnRecord(s)
           leaves == s # NoSession /\ (c \in AutoSpawn => rec[Latest(rec)].track # Track(c))
           starts == c \in AutoSpawn /\ (leaves \/ (s = NoSession /\ ~HeldPause(rec, Latest(rec))))
<1>0. /\ Types /\ rec \in Tables /\ MoveOK /\ PassOK /\ QuietOK /\ LoneOK
  BY InvFacts
<1>1. /\ UNCHANGED <<placeholder, resume, pass, up, stops, fate, held, unstarted>>
      /\ column' = c /\ stale' = (stale \/ move # NoMove) /\ sid' = s
      /\ rec' = IF leaves THEN SuspendWrites(rec, own, "system") ELSE rec
      /\ row' = IF leaves THEN [row EXCEPT ![s] = "suspended"] ELSE row
      /\ op' = IF leaves THEN [kind |-> "suspend", s |-> s] ELSE Idle
      /\ move' = IF starts THEN [to |-> c, from |-> column, failed |-> FALSE] ELSE NoMove
      /\ Gesture
  BY DEF MoveTo
<1>2. up /\ op = Idle /\ pass.stage # "gather" /\ gestures' \in 0..MaxGestures /\ touched' = TRUE
  BY <1>1, GestureFacts
<1>3. move' \in {NoMove} \cup [to : Columns, from : Columns, failed : BOOLEAN]
  BY <1>0, <1>1 DEF Types
<1>4. MoveOK' /\ PassOK' /\ QuietOK'
  BY <1>0, <1>1, <1>2, <1>3 DEF MoveOK, PassOK, QuietOK
<1>5. s \in Ref
  BY ReconciledIs
<1> HIDE DEF starts
<1>6. CASE leaves
  <2>1. s \in Sessions /\ Live = {s} /\ own = s
    BY <1>6, LiveOne
  <2>2. /\ rec' = SuspendWrites(rec, s, "system") /\ row' = [row EXCEPT ![s] = "suspended"]
        /\ op' = [kind |-> "suspend", s |-> s]
    BY <1>1, <1>6, <2>1
  <2> HIDE DEF own, leaves, s
  <2>3. Settles(rec, rec') /\ rec' \in Tables
    BY <1>0, <1>5, <2>2, SuspendFacts DEF Settles
  <2>4. row' \in [Sessions -> Statuses \ {"orphaned"}] /\ Live' = {}
    BY <1>0, <2>1, <2>2 DEF Types, Statuses, Live
  <2>5. Types'
    BY <1>0, <1>1, <1>2, <1>5, <2>3, <2>4 DEF Types
  <2>6. OpOK(op', rec', move')
    BY <2>1, <2>2 DEF OpOK
  <2>7. ~LateRollbacks => RunOK'
    BY <1>1, <1>2, <2>1, <2>2, <2>3, RunKept, IdleIs
  <2> QED  BY <1>4, <2>4, <2>5, <2>6, <2>7, CalmLone, TypesAre DEF Inv
<1>7. CASE ~leaves
  <2>1. rec' = rec /\ row' = row /\ op' = op
    BY <1>1, <1>2, <1>7
  <2>2. Live' = Live /\ \A t \in Live : t = s
    BY <2>1, LiveOne, ReconciledIs DEF Live
  <2> HIDE DEF own, leaves, s
  <2>3. Types'
    BY <1>0, <1>1, <1>2, <1>5, <2>1 DEF Types
  <2>4. OpOK(op', rec', move')
    BY <1>2, <2>1 DEF OpOK
  <2>5. LoneOK'
    BY <1>0, <1>1, <2>1, <2>2 DEF LoneOK, Busy, Made
  <2>6. ~LateRollbacks => RunOK'
    BY <1>0, <1>1, <1>2, <2>1, <2>2, SettlesSame, RunKept
  <2> QED  BY <1>4, <2>3, <2>4, <2>5, <2>6, TypesAre DEF Inv
<1> QED  BY <1>6, <1>7

(* The move's suspend has ended. *)
LEMMA SuspendEndStep ==
  ASSUME Inv, SuspendEnds
  PROVE  Inv'
<1>0. /\ Types /\ rec \in Tables /\ MoveOK /\ PassOK /\ QuietOK /\ OpOK(op, rec, move)
      /\ op # Idle => Live = {}
  BY InvFacts
<1>1. /\ UNCHANGED <<column, row, placeholder, move, stale, resume, pass, up, stops, gestures,
                     touched, fate, held, unstarted>>
      /\ op.kind = "suspend" /\ op' = Idle /\ sid' = NoSession
      /\ rec' = MarkExited(rec, op.s, TRUE)
  BY DEF SuspendEnds, registryVars, boardVars, lifeVars, ghostVars
<1>2. op # Idle /\ op.s \in Sessions /\ op.s \in Ref
  BY <1>0, <1>1, IdleIs DEF OpOK, StartKinds, Ref
<1>3. Settles(rec, rec') /\ rec' \in Tables /\ ~Busy(rec', op.s)
  <2> DEFINE s == op.s
  <2>1. s \in Sessions /\ s \in Ref /\ rec' = MarkExited(rec, s, TRUE) /\ rec \in Tables
    BY <1>0, <1>1, <1>2
  <2> HIDE DEF s
  <2>2. Settles(rec, rec') /\ ~Busy(rec', s)
    BY <2>1, MarkExitedFacts
  <2> QED  BY <2>2 DEF Settles, s
<1>4. Live' = {} /\ Live = {}
  BY <1>0, <1>1, <1>2 DEF Live
<1>5. Types'
  BY <1>0, <1>1, <1>3 DEF Types, Ref
<1>6. MoveOK' /\ PassOK' /\ OpOK(op', rec', move')
  BY <1>0, <1>1 DEF MoveOK, PassOK, OpOK
<1>7. QuietOK' /\ pass.stage # "gather"
  BY <1>0, <1>1, <1>2 DEF QuietOK, NoRows
<1>8. ~LateRollbacks => RunOK'
  BY <1>1, <1>3, <1>4, <1>7, RunKept, IdleIs
<1> QED  BY <1>4, <1>5, <1>6, <1>7, <1>8, CalmLone, TypesAre DEF Inv

-----------------------------------------------------------------------------
(* Starts. *)
LEMMA TrackIs == \A c \in Columns : Track(c) \in Tracks
BY DEF Track, Tracks

(* A start is of a session newer than those of the table. *)
LEMMA StartsFacts ==
  ASSUME rec \in Tables, NEW kind \in StartKinds, NEW track \in Tracks, NEW conv \in Ref,
         NEW retire \in Ref, kind = "move" => move # NoMove, Starts(kind, track, conv, retire)
  PROVE  /\ OpOK(op', rec, move) /\ op'.kind = kind /\ op'.track = track
         /\ op'.resumes = (conv # NoSession) /\ op'.retire = retire
         /\ op' # Idle /\ op'.s \in Sessions
<1>1. Largest(Made(rec)) \in Ref /\ \A t \in Made(rec) : t <= Largest(Made(rec))
  BY LatestIs DEF Latest
<1> DEFINE s == Largest(Made(rec)) + 1
<1>2. PICK known \in IdsAtLaunch :
        op' = [kind |-> kind, s |-> s, track |-> track, retire |-> retire,
               resumes |-> conv # NoSession,
               conv |-> IF conv # NoSession THEN conv ELSE IF known THEN s ELSE NoSession]
  BY DEF Starts
<1>3. s \in Sessions /\ \A t \in Made(rec) : t < s
  <2>1. s \in Sessions
    BY DEF Starts
  <2>2. Largest(Made(rec)) \in Int /\ \A t \in Made(rec) : t \in Int
    BY <1>1 DEF Ref, Sessions, NoSession, Made
  <2> QED  BY <1>1, <2>1, <2>2
<1> HIDE DEF s
<1>4. op'.conv \in Ref
  BY <1>2, <1>3 DEF Ref
<1> QED  BY <1>2, <1>3, <1>4, IdleIs DEF OpOK

(* What the board starts is newer than any session of the table. *)
LEMMA BoardStartFacts ==
  ASSUME rec \in Tables, NEW kind \in StartKinds, NEW track \in Tracks,
         kind = "move" => move # NoMove, BoardStart(kind, track)
  PROVE  OpOK(op', rec, move) /\ op'.kind = kind /\ op'.track = track /\ op' # Idle
<1> DEFINE m == LatestOn(rec, track)
<1>1. m \in Ref /\ NoSession \in Ref
  BY LatestIs DEF Ref
<1>2. CASE Eligible(rec, m)
  <2>1. Starts(kind, track, rec[m].conv, m)
    BY <1>2 DEF BoardStart
  <2>2. rec[m].conv \in Ref
    BY <1>1, <1>2 DEF Eligible, Tables, Record, Ref
  <2> HIDE DEF m
  <2> QED  BY <1>1, <2>1, <2>2, StartsFacts
<1>3. CASE ~Eligible(rec, m)
  <2>1. Starts(kind, track, NoSession, NoSession)
    BY <1>3 DEF BoardStart
  <2> QED  BY <1>1, <2>1, StartsFacts
<1> QED  BY <1>2, <1>3

(* The spawn answered. *)
LEMMA CommitStep ==
  ASSUME Inv, op.kind \in StartKinds, NEW outcome \in Outcomes, Committed(outcome),
         resume' \in BOOLEAN, pass' = PassAfter(op.kind), op' = Idle,
         UNCHANGED <<column, stale, up, stops, gestures, touched>>
  PROVE  Inv'
<1> DEFINE s == op.s
           new == [status |-> StatusFor(op.kind, outcome), track |-> op.track, conv |-> op.conv,
                   by |-> "none", bad |-> FALSE]
           r == Retire(rec, op.retire)
<1>0. /\ Types /\ rec \in Tables /\ fate \in Fates /\ MoveOK /\ PassOK /\ QuietOK
      /\ op # Idle /\ Live = {} /\ OpOK(op, rec, move)
  BY InvFacts, IdleIs
<1>1. /\ row' = [NoRows EXCEPT ![s] = Answered(outcome)] /\ placeholder' = FALSE
      /\ rec' = [r EXCEPT ![s] = new] /\ sid' = s
      /\ fate' \in Fates
      /\ move' = IF op.kind = "move" THEN NoMove ELSE move
      /\ outcome \in {"running", "queued", "fails"} /\ held' \in {held, "none"}
      /\ unstarted \subseteq unstarted' /\ unstarted' \subseteq unstarted \cup {s}
      /\ outcome = "fails" /\ op.kind \notin BoardKinds => s \in unstarted'
  <2>1. \A c \in Sessions : FateAfter(c, outcome) \in {"open", "failed", fate[c]}
    BY DEF FateAfter
  <2>2. fate' \in Fates
    BY <1>0, <2>1 DEF Committed, Fates
  <2> QED  BY <1>0, <2>2, RecordAssumption DEF Committed
<1>2. /\ s \in Sessions /\ op.track \in Tracks /\ op.retire \in Ref /\ op.conv \in Ref
      /\ \A t \in Made(rec) : t < s
  BY <1>0, IdleIs DEF OpOK, StartKinds
<1>3. /\ new \in Record /\ new.status \in {"running", "queued", "exited"}
      /\ outcome # "fails" => new.status \in {"running", "queued"}
      /\ outcome = "fails" => new.status = IF op.kind \in BoardKinds THEN "exited" ELSE "running"
  BY <1>1, <1>2 DEF Record, Statuses, StatusFor, Answered
<1>4. r \in Tables /\ Settles(rec, r)
  BY <1>0, <1>2, RetireFacts DEF Settles
<1> HIDE DEF new, r, s
<1>5. /\ rec' \in Tables /\ rec'[s] = new
      /\ \A t \in Sessions : t # s => rec'[t] = r[t]
  BY <1>1, <1>2, <1>3, <1>4 DEF Tables
<1>6. /\ row' \in [Sessions -> Statuses \ {"orphaned"}]
      /\ Live' = IF outcome = "fails" THEN {} ELSE {s}
  <2>1. /\ NoRows \in [Sessions -> Statuses \ {"orphaned"}]
        /\ Answered(outcome) = (IF outcome = "fails" THEN "exited" ELSE outcome)
        /\ Answered(outcome) \in Statuses \ {"orphaned"}
    BY <1>1, NoRowsIs DEF Statuses, Answered
  <2>2. row'[s] = Answered(outcome) /\ \A t \in Sessions : t # s => row'[t] = "none"
    BY <1>1, <1>2, <2>1 DEF NoRows
  <2> QED  BY <1>1, <1>2, <2>1, <2>2 DEF Live
<1>7. Types'
  BY <1>0, <1>1, <1>2, <1>5, <1>6, ToldIs DEF Types, Ref
<1>8. up /\ pass'.stage # "gather" /\ PassOK' /\ pass.stage # "gather"
  <2>1. up /\ pass.stage # "gather"
    BY <1>0 DEF QuietOK
  <2> QED  BY <1>0, <2>1 DEF PassAfter, DonePass, PassOK
<1>9. MoveOK' /\ QuietOK' /\ OpOK(op', rec', move')
  BY <1>0, <1>1, <1>8 DEF MoveOK, QuietOK, OpOK
<1>10. LoneOK'
  <2>1. ASSUME NEW t \in Made(rec') PROVE t <= s
    <3>1. t = s \/ t \in Made(rec)
      BY <1>4, <1>5 DEF Made, Settles
    <3>2. s \in Int /\ t \in Int
      BY <1>2 DEF Made, Sessions
    <3> QED  BY <1>2, <3>1, <3>2
  <2> QED  BY <1>1, <1>3, <1>5, <1>6, <2>1 DEF LoneOK, Busy
<1>11. ~LateRollbacks => RunOK'
  <2> SUFFICES ASSUME ~LateRollbacks, NEW t \in Sessions, Busy(rec', t)
               PROVE  t \in Live' \/ (t \in unstarted' /\ rec'[t].status = "running")
    BY DEF RunOK
  <2>1. CASE t # s
    <3>1. Busy(rec, t)
      BY <1>4, <1>5, <2>1 DEF Settles, Busy
    <3>2. op.kind # "suspend"
      BY DEF StartKinds
    <3>3. t \in unstarted /\ rec[t].status = "running"
      BY <1>0, <1>8, <3>1, <3>2 DEF Inv, RunOK
    <3> QED  BY <1>1, <1>4, <1>5, <2>1, <3>3 DEF Settles, Busy
  <2>2. CASE t = s
    BY <1>1, <1>3, <1>5, <1>6, <2>2 DEF Busy
  <2> QED  BY <2>1, <2>2
<1> QED  BY <1>7, <1>8, <1>9, <1>10, <1>11, TypesAre DEF Inv

(* It threw. *)
LEMMA ThrownStep ==
  ASSUME Inv, op.kind \in StartKinds, Thrown,
         resume' \in BOOLEAN, pass' = PassAfter(op.kind), op' = Idle,
         UNCHANGED <<column, stale, up, stops, gestures, touched>>
  PROVE  Inv'
<1>0. /\ Types /\ rec \in Tables /\ fate \in Fates /\ MoveOK /\ PassOK /\ QuietOK
      /\ op # Idle /\ Live = {} /\ OpOK(op, rec, move)
  BY InvFacts, IdleIs
<1>1. /\ UNCHANGED <<row, placeholder, sid, held, unstarted>>
      /\ rec' = rec \/ rec' = Retire(rec, op.retire)
      /\ fate' = fate \/ fate' = Told(op.conv, "given up")
      /\ move' = IF op.kind = "move" THEN [move EXCEPT !.failed = TRUE] ELSE move
  BY DEF Thrown, registryVars
<1>2. op.retire \in Ref /\ (op.kind = "move" => move # NoMove)
  BY <1>0, IdleIs DEF OpOK, StartKinds
<1>3. Settles(rec, rec') /\ rec' \in Tables
  <2>1. Settles(rec, Retire(rec, op.retire))
    BY <1>0, <1>2, RetireFacts
  <2> QED  BY <1>0, <1>1, <2>1, SettlesSame DEF Settles
<1>4. Live' = {} /\ Live = {}
  BY <1>0, <1>1 DEF Live
<1>5. Types'
  BY <1>0, <1>1, <1>3, ToldIs DEF Types
<1>6. up /\ pass'.stage # "gather" /\ PassOK' /\ pass.stage # "gather"
  <2>1. up /\ pass.stage # "gather"
    BY <1>0 DEF QuietOK
  <2> QED  BY <1>0, <2>1 DEF PassAfter, DonePass, PassOK
<1>7. MoveOK'
  BY <1>0, <1>1, <1>2 DEF MoveOK
<1>8. QuietOK' /\ OpOK(op', rec', move')
  BY <1>6 DEF QuietOK, OpOK
<1>9. ~LateRollbacks => RunOK'
  BY <1>1, <1>3, <1>4, <1>6, RunKept DEF StartKinds
<1> QED  BY <1>4, <1>5, <1>6, <1>7, <1>8, <1>9, CalmLone, TypesAre DEF Inv

(* A start that returns keeps the invariant, however it does. *)
LEMMA ReturnStep ==
  ASSUME Inv, StartReturns
  PROVE  Inv'
<1>1. /\ op.kind \in StartKinds /\ resume' \in BOOLEAN /\ pass' = PassAfter(op.kind) /\ op' = Idle
      /\ UNCHANGED <<column, stale, up, stops, gestures, touched>>
      /\ (\E o \in Outcomes : Committed(o)) \/ Thrown
  BY DEF StartReturns, StartKinds, lifeVars
<1> QED  BY <1>1, CommitStep, ThrownStep

-----------------------------------------------------------------------------
(* A step under the lock that starts something or nothing, and writes nothing:
   what it needs of the lock. *)
LEMMA LandStep ==
  ASSUME Inv, Free, op' = Idle \/ (OpOK(op', rec, move) /\ op'.kind \in StartKinds /\ Live = {}),
         UNCHANGED <<rec, column, row, placeholder, stale, up, stops, gestures, touched, fate, held, unstarted>>,
         move' \in {move, NoMove}, op' # Idle => move' = move, resume' \in BOOLEAN,
         PassOK', pass'.stage # "gather", pass.stage # "gather",
         sid' \in Ref, \A s \in Live : sid' = s /\ op' = Idle
  PROVE  Inv'
<1>0. Types /\ rec \in Tables /\ MoveOK /\ LoneOK
  BY InvFacts
<1>1. up /\ op = Idle /\ Live' = Live
  BY DEF Free, Live
<1>2. Types' /\ MoveOK'
  BY <1>0 DEF Types, MoveOK
<1>3. OpOK(op', rec', move')
  BY DEF OpOK
<1>4. QuietOK'
  BY <1>1 DEF QuietOK
<1>5. LoneOK'
  BY <1>0, <1>1 DEF LoneOK, Busy, Made
<1>6. ~LateRollbacks => RunOK'
  BY <1>0, <1>1, SettlesSame, RunKept, IdleIs
<1> QED  BY <1>2, <1>3, <1>4, <1>5, <1>6, TypesAre DEF Inv

(* The third phases of a move and of a resume. *)
LEMMA MoveLandStep ==
  ASSUME Inv, MoveLands
  PROVE  Inv'
<1>0. Types /\ rec \in Tables /\ LoneOK /\ QuietOK /\ PassOK
  BY InvFacts
<1>1. /\ Free /\ move # NoMove
      /\ UNCHANGED <<rec, sid, column, row, placeholder, stale, resume, pass, up, stops, gestures,
                     touched, fate, held, unstarted>>
      /\ \/ move' = NoMove /\ op' = Idle
         \/ sid = NoSession /\ BoardStart("move", Track(column)) /\ move' = move
  BY DEF MoveLands, tableVars, registryVars, lifeVars, ghostVars
<1>2. pass.stage # "gather"
  BY <1>0, <1>1 DEF QuietOK
<1>3. \A s \in Live : sid = s /\ s # NoSession
  BY <1>0, ReconciledIs DEF LoneOK
<1>4. "move" \in StartKinds /\ Track(column) \in Tracks
  BY <1>0, TrackIs DEF StartKinds, Types
<1>5. PassOK' /\ resume' \in BOOLEAN /\ sid' \in Ref
  BY <1>0, <1>1 DEF PassOK, Types
<1>6. CASE sid = NoSession /\ BoardStart("move", Track(column)) /\ move' = move
  <2>1. OpOK(op', rec, move) /\ op'.kind = "move"
    BY <1>0, <1>1, <1>4, <1>6, BoardStartFacts
  <2>2. Live = {}
    BY <1>3, <1>6
  <2> QED  BY <1>1, <1>2, <1>4, <1>5, <1>6, <2>1, <2>2, LandStep
<1>7. CASE move' = NoMove /\ op' = Idle
  BY <1>1, <1>2, <1>3, <1>5, <1>7, LandStep
<1> QED  BY <1>1, <1>6, <1>7

(* A resume's third phase keeps it. *)
LEMMA ResumeLandStep ==
  ASSUME Inv, ResumeLands
  PROVE  Inv'
<1>0. Types /\ rec \in Tables /\ LoneOK /\ QuietOK /\ PassOK /\ \A s, t \in Live : s = t
  BY InvFacts
<1>1. /\ Free /\ resume
      /\ UNCHANGED <<rec, column, row, placeholder, move, stale, pass, up, stops, gestures,
                     touched, fate, held, unstarted>>
      /\ \/ Live # {} /\ resume' = FALSE /\ op' = Idle /\ sid' = Reconciled
         \/ Live = {} /\ BoardStart("resume", Track(column)) /\ resume' = resume /\ sid' = NoSession
  BY DEF ResumeLands, registryVars, lifeVars, ghostVars
<1>2. pass.stage # "gather" /\ PassOK' /\ resume' \in BOOLEAN
  BY <1>0, <1>1 DEF QuietOK, PassOK
<1>3. "resume" \in StartKinds /\ "resume" # "move" /\ Track(column) \in Tracks
  BY <1>0, TrackIs DEF StartKinds, Types
<1>4. CASE Live # {} /\ resume' = FALSE /\ op' = Idle /\ sid' = Reconciled
  <2>1. sid' \in Ref /\ \A s \in Live : sid' = s
    BY <1>0, <1>4, ReconciledIs
  <2> QED  BY <1>1, <1>2, <1>4, <2>1, LandStep
<1>5. CASE Live = {} /\ BoardStart("resume", Track(column)) /\ sid' = NoSession
  <2>1. OpOK(op', rec, move) /\ op'.kind = "resume"
    BY <1>0, <1>3, <1>5, BoardStartFacts
  <2> QED  BY <1>1, <1>2, <1>3, <1>5, <2>1, LandStep DEF Ref
<1> QED  BY <1>1, <1>4, <1>5

(* A rollback removes the task's rows. *)
LEMMA RollbackStep ==
  ASSUME Inv, MoveFails \/ StaleMoveEnds
  PROVE  Inv'
<1>0. /\ Types /\ rec \in Tables /\ MoveOK /\ PassOK /\ QuietOK /\ LoneOK
      /\ OpOK(op, rec, move)
  BY InvFacts
<1>1. /\ UNCHANGED <<rec, op, resume, pass, up, stops, gestures, touched, fate, held, unstarted>>
      /\ row' = NoRows /\ placeholder' = FALSE /\ sid' = NoSession
      /\ LateRollbacks \/ (Live = {} /\ pass = DonePass)
      /\ up /\ op = Idle /\ stale' \in BOOLEAN
      /\ column' \in {column, move.from} /\ move' \in {move, NoMove}
      /\ MoveFails \/ column' = column
      /\ MoveFails => move # NoMove
  BY <1>0 DEF MoveFails, StaleMoveEnds, RowsRemoved, Free, lifeVars, ghostVars, Types
<1>2. column' \in Columns
  BY <1>0, <1>1 DEF Types, MoveOK
<1>3. Types'
  BY <1>0, <1>1, <1>2, NoRowsIs DEF Types, Ref
<1>4. MoveOK' /\ PassOK' /\ OpOK(op', rec', move')
  BY <1>0, <1>1 DEF MoveOK, PassOK, OpOK
<1>5. QuietOK'
  BY <1>0, <1>1 DEF QuietOK, NoRows
<1>6. ~LateRollbacks => RunOK'
  BY <1>0, <1>1, SettlesSame, RunKept DEF DonePass
<1> QED  BY <1>1, <1>3, <1>4, <1>5, <1>6, CalmLone, NoRowsIs, TypesAre DEF Inv

-----------------------------------------------------------------------------
(* The passes of a launch. *)
LEMMA OrphanedFacts ==
  ASSUME NEW r \in Tables
  PROVE  Settles(r, Orphaned(r)) /\ \A t \in Sessions : ~Busy(Orphaned(r), t)
<1>1. ASSUME NEW t \in Sessions
      PROVE  /\ [r[t] EXCEPT !.status = "orphaned"] \in Record /\ r[t] \in Record
             /\ [r[t] EXCEPT !.status = "orphaned"].status = "orphaned"
             /\ [r[t] EXCEPT !.status = "orphaned"].track = r[t].track
  BY DEF Tables, Record, Statuses
<1> QED  BY <1>1 DEF Orphaned, Settles, Tables, Busy

(* Keeping one record of each track settles the table. *)
LEMMA DeduplicatedFacts ==
  ASSUME NEW r \in Tables
  PROVE  Settles(r, Deduplicated(r))
<1>1. ASSUME NEW t \in Sessions
      PROVE  /\ Deduplicated(r)[t] \in Record
             /\ Deduplicated(r)[t].status = "none" <=> r[t].status = "none"
             /\ Busy(Deduplicated(r), t) => Busy(r, t)
             /\ Deduplicated(r)[t].status = "queued" => r[t].status = "queued"
             /\ Deduplicated(r)[t].track = r[t].track
  <2>1. \/ Deduplicated(r)[t] = r[t]
        \/ Deduplicated(r)[t] = Retire(r, t)[t]
        \/ Deduplicated(r)[t] = MarkSuspended(r, t, "system")[t]
    BY DEF Deduplicated
  <2>2. Settles(r, Retire(r, t))
    BY RetireFacts DEF Ref
  <2>3. Settles(r, MarkSuspended(r, t, "system"))
    BY MarkSuspendedFacts DEF Ref
  <2> QED  BY <2>1, <2>2, <2>3 DEF Settles, Tables, Busy
<1>2. Deduplicated(r) = [t \in Sessions |-> Deduplicated(r)[t]]
  BY DEF Deduplicated
<1> QED  BY <1>1, <1>2 DEF Settles, Tables

(* A record is kept, and its card shown. *)
LEMMA ShowsFacts ==
  ASSUME placeholder \in BOOLEAN, ShowsPlaceholder
  PROVE  placeholder' \in BOOLEAN /\ (row' = row \/ (row' = NoRows /\ Live = {}))
BY DEF ShowsPlaceholder, Live

(* keepResumable settles the table, and removes no live row. *)
LEMMA KeepsFacts ==
  ASSUME placeholder \in BOOLEAN, NEW r \in Tables, NEW s \in Sessions, KeepsResumable(r, s)
  PROVE  /\ Settles(r, rec') /\ sid' = NoSession /\ placeholder' \in BOOLEAN
         /\ row' = row \/ (row' = NoRows /\ Live = {})
<1>1. Settles(r, MarkSuspended(r, s, "system"))
  BY MarkSuspendedFacts DEF Ref
<1> QED  BY <1>1, ShowsFacts, SettlesSame DEF KeepsResumable

(* What a step of a pass needs: to make no record, to leave the row of a live
   session and its record. *)
LEMMA PassStep ==
  ASSUME Inv, Settles(rec, rec'), placeholder' \in BOOLEAN, fate' \in Fates, PassOK',
         sid' \in Ref,
         row' = row \/ (row' = NoRows /\ Live = {}),
         \A s \in Live : sid' = sid /\ Busy(rec', s),
         pass.stage = "gather" => \A s \in Sessions : ~Busy(rec', s),
         pass'.stage # "gather",
         UNCHANGED <<column, op, move, stale, resume, up, stops, gestures, touched, held, unstarted>>
  PROVE  Inv'
<1>0. Types /\ rec \in Tables /\ MoveOK /\ LoneOK /\ QuietOK
  BY InvFacts
<1>1. Live' = Live /\ row' \in [Sessions -> Statuses \ {"orphaned"}]
  BY <1>0, NoRowsIs DEF Types, Live
<1>2. Types' /\ MoveOK'
  BY <1>0, <1>1 DEF Types, MoveOK, Settles
<1>3. QuietOK'
  BY <1>0 DEF QuietOK
<1>4. LoneOK'
  <2>1. Made(rec') = Made(rec)
    BY <1>0, SettlesMade
  <2> QED  BY <1>0, <1>1, <2>1 DEF LoneOK
<1>5. ~LateRollbacks => RunOK'
  <2>1. CASE pass.stage = "gather"
    BY <2>1 DEF RunOK
  <2>2. CASE pass.stage # "gather"
    BY <1>1, <2>2, RunKept
  <2> QED  BY <2>1, <2>2
<1> QED  BY <1>2, <1>3, <1>4, <1>5, OpKept, TypesAre DEF Inv

(* Gathering keeps the invariant, and leaves no record busy. *)
LEMMA GatherStep ==
  ASSUME Inv, NEW autoResume, Gather(autoResume)
  PROVE  Inv' /\ Settles(rec, rec') /\ \A t \in Sessions : ~Busy(rec', t)
<1> DEFINE found == Orphaned(rec)
           r == Deduplicated(found)
           s == Largest({g \in Gathered(found) : found[g].track = Track(column)})
<1>0. Types /\ rec \in Tables /\ fate \in Fates /\ PassOK /\ sid \in Ref /\ column \in Columns
  BY InvFacts
<1>1. /\ UNCHANGED <<column, op, move, stale, resume, up, stops, gestures, touched, held, unstarted>>
      /\ pass.stage = "gather"
      /\ \/ GatherLeaves(r) /\ pass' = [stage |-> "discover"] /\ fate' = fate
         \/ /\ s # NoSession /\ pass' = [stage |-> "discover"]
            /\ fate' = Told(r[s].conv, "given up") /\ GatherLeaves(Retire(r, s))
         \/ /\ s # NoSession /\ pass' = [stage |-> "discover"] /\ fate' = fate
            /\ KeepsResumable(r, s)
         \/ /\ s # NoSession /\ GatherLeaves(r) /\ fate' = fate
            /\ pass' = [stage |-> "prepare", s |-> s, status |-> r[s].status,
                        sid |-> sid, column |-> column, conv |-> NoSession,
                        newest |-> s = LatestOn(r, r[s].track)]
  BY DEF Gather, boardVars, lifeVars
<1>2. Settles(rec, found) /\ found \in Tables /\ \A t \in Sessions : ~Busy(found, t)
  BY <1>0, OrphanedFacts DEF Settles
<1>3. Settles(found, r) /\ r \in Tables
  BY <1>2, DeduplicatedFacts DEF Settles
<1>4. s \in Ref
  <2>1. {g \in Gathered(found) : found[g].track = Track(column)} \in SUBSET Sessions
    BY DEF Gathered, Made
  <2> HIDE DEF found
  <2> QED  BY <2>1, LargestIs
<1>5. s # NoSession => s \in Sessions /\ r[s].status \in Statuses
  BY <1>3, <1>4 DEF Ref, Tables, Record
<1> HIDE DEF r, s, found
<1>6. /\ Settles(r, rec') /\ sid' \in Ref /\ placeholder' \in BOOLEAN
      /\ row' = row \/ (row' = NoRows /\ Live = {})
  <2>1. placeholder \in BOOLEAN
    BY <1>0 DEF Types
  <2>2. CASE GatherLeaves(r)
    BY <1>0, <1>3, <2>1, <2>2, SettlesSame DEF GatherLeaves
  <2>3. CASE s # NoSession /\ GatherLeaves(Retire(r, s))
    BY <1>0, <1>3, <1>4, <2>1, <2>3, RetireFacts DEF GatherLeaves
  <2>4. CASE s # NoSession /\ KeepsResumable(r, s)
    BY <1>3, <1>5, <2>1, <2>4, KeepsFacts DEF Ref
  <2> QED  BY <1>1, <2>2, <2>3, <2>4
<1>7. Settles(rec, rec') /\ \A t \in Sessions : ~Busy(rec', t)
  <2>1. Settles(found, rec')
    BY <1>3, <1>6, SettlesTwice
  <2> QED  BY <1>2, <2>1, SettlesTwice DEF Settles
<1>8. Live = {} /\ fate' \in Fates
  BY <1>0, <1>1, InvFacts, NoRowsIs, ToldIs DEF QuietOK
<1>9. PassOK' /\ pass'.stage # "gather"
  <2>1. CASE pass' = [stage |-> "discover"]
    BY <2>1 DEF PassOK
  <2>2. CASE /\ s # NoSession
             /\ pass' = [stage |-> "prepare", s |-> s, status |-> r[s].status,
                         sid |-> sid, column |-> column, conv |-> NoSession,
                        newest |-> s = LatestOn(r, r[s].track)]
    BY <1>0, <1>5, <2>2 DEF PassOK, Ref
  <2> QED  BY <1>1, <2>1, <2>2
<1> QED  BY <1>1, <1>6, <1>7, <1>8, <1>9, PassStep

(* What a pass that looks at a record carries. *)
LEMMA PassIs ==
  ASSUME Inv, pass.stage \in {"prepare", "start", "keep"}
  PROVE  /\ pass \in [stage : {"prepare", "start", "keep"}, s : Sessions, status : Statuses,
                      sid : Ref, column : Columns, conv : Ref, newest : BOOLEAN]
         /\ pass.s \in Sessions /\ pass.conv \in Ref
<1>1. PassOK
  BY InvFacts
<1> QED  BY <1>1 DEF PassOK

(* A preparation keeps the invariant. *)
LEMMA PrepareStep ==
  ASSUME Inv, NEW ok, Prepare(ok)
  PROVE  Inv'
<1> DEFINE m == LatestOn(rec, rec[pass.s].track)
<1>0. /\ Types /\ rec \in Tables /\ fate \in Fates /\ LoneOK
      /\ pass.s \in Sessions /\ pass.conv \in Ref /\ m \in Ref
      /\ pass \in [stage : {"prepare", "start", "keep"}, s : Sessions, status : Statuses,
                   sid : Ref, column : Columns, conv : Ref, newest : BOOLEAN]
  BY InvFacts, PassIs, LatestIs DEF Prepare
<1>1. /\ UNCHANGED <<sid, column, row, placeholder, op, move, stale, resume, up, stops, gestures,
                     touched, fate, held, unstarted>>
      /\ pass.stage = "prepare"
      /\ rec' = rec \/ rec' = Retire(rec, pass.s)
      /\ \/ /\ pass' = [pass EXCEPT !.stage = "start",
                                    !.conv = IF Eligible(rec, m) THEN rec[m].conv ELSE NoSession]
         \/ pass' = [pass EXCEPT !.stage = "keep"]
         \/ pass' = [stage |-> "discover"]
  BY DEF Prepare, registryVars, boardVars, lifeVars, ghostVars
<1>2. /\ Settles(rec, rec') /\ \A t \in Sessions : Busy(rec, t) => Busy(rec', t)
  <2> DEFINE s == pass.s
  <2>1. s \in Sessions /\ s \in Ref /\ (rec' = rec \/ rec' = Retire(rec, s))
    BY <1>0, <1>1 DEF Ref
  <2> HIDE DEF s
  <2>2. Settles(rec, Retire(rec, s)) /\ \A t \in Sessions : Busy(rec, t) =>
          Retire(rec, s)[t] = rec[t]
    BY <1>0, <2>1, RetireFacts
  <2> QED  BY <1>0, <2>1, <2>2, SettlesSame DEF Busy
<1>3. PassOK' /\ pass'.stage # "gather"
  <2> DEFINE conv == IF Eligible(rec, m) THEN rec[m].conv ELSE NoSession
  <2>1. conv \in Ref
    BY <1>0 DEF Eligible, Tables, Record, Ref
  <2>2. \/ pass' = [pass EXCEPT !.stage = "start", !.conv = conv]
        \/ pass' = [pass EXCEPT !.stage = "keep"]
        \/ pass' = [stage |-> "discover"]
    BY <1>1
  <2> HIDE DEF conv
  <2>3. CASE pass' = [pass EXCEPT !.stage = "start", !.conv = conv]
    <3>1. pass' \in [stage : {"prepare", "start", "keep"}, s : Sessions, status : Statuses,
                     sid : Ref, column : Columns, conv : Ref, newest : BOOLEAN]
      BY <1>0, <2>1, <2>3
    <3> QED  BY <2>3, <3>1, <1>0 DEF PassOK
  <2>4. CASE pass' = [pass EXCEPT !.stage = "keep"]
    BY <1>0, <2>4 DEF PassOK
  <2>5. CASE pass' = [stage |-> "discover"]
    BY <2>5 DEF PassOK
  <2> QED  BY <2>2, <2>3, <2>4, <2>5
<1>4. placeholder \in BOOLEAN /\ sid \in Ref /\ \A s \in Live : s \in Sessions /\ Busy(rec, s)
  BY <1>0, ReconciledIs DEF Types, LoneOK
<1> QED  BY <1>0, <1>1, <1>2, <1>3, <1>4, PassStep

(* A record is kept when it is as the pass found it. *)
LEMMA KeepStep ==
  ASSUME Inv, Free, pass.stage \in {"start", "keep"}, KeepsIfUnchanged,
         UNCHANGED <<column, move, stale, resume, up, stops, gestures, touched, fate, held, unstarted>>
  PROVE  Inv'
<1>0. /\ Types /\ rec \in Tables /\ fate \in Fates /\ LoneOK /\ pass.s \in Sessions
      /\ placeholder \in BOOLEAN /\ sid \in Ref
  BY InvFacts, PassIs DEF Types
<1>1. /\ op' = op /\ pass' = [stage |-> "discover"]
      /\ \/ rec' = rec /\ row' = row /\ placeholder' = placeholder /\ sid' = sid
         \/ Live = {} /\ KeepsResumable(rec, pass.s)
  BY DEF KeepsIfUnchanged, RecordUnchanged, Free
<1>2. PassOK' /\ pass'.stage # "gather"
  BY <1>1 DEF PassOK
<1>3. CASE rec' = rec /\ row' = row /\ placeholder' = placeholder /\ sid' = sid
  BY <1>0, <1>1, <1>2, <1>3, SettlesSame, PassStep DEF LoneOK
<1>4. CASE Live = {} /\ KeepsResumable(rec, pass.s)
  <2> DEFINE s == pass.s
  <2>1. s \in Sessions /\ KeepsResumable(rec, s)
    BY <1>0, <1>4
  <2> HIDE DEF s
  <2>2. /\ Settles(rec, rec') /\ sid' = NoSession /\ placeholder' \in BOOLEAN
        /\ row' = row \/ (row' = NoRows /\ Live = {})
    BY <1>0, <2>1, KeepsFacts
  <2> QED  BY <1>0, <1>1, <1>2, <1>4, <2>2, PassStep DEF Ref
<1> QED  BY <1>1, <1>3, <1>4

(* A recovered start, or the record it keeps instead, keeps it. *)
LEMMA StartRecoveredStep ==
  ASSUME Inv, Keep \/ StartRecovered
  PROVE  Inv'
<1>0. Types /\ rec \in Tables
  BY InvFacts
<1>1. /\ UNCHANGED <<column, move, stale, resume, up, stops, gestures, touched, fate, held, unstarted>>
      /\ Free /\ pass.stage \in {"start", "keep"}
      /\ \/ KeepsIfUnchanged
         \/ /\ StillToStart /\ Starts("recovery", rec[pass.s].track, pass.conv, pass.s)
            /\ pass' = [stage |-> "starting"]
            /\ UNCHANGED <<rec, row, placeholder, sid>>
  BY DEF Keep, StartRecovered, boardVars, lifeVars, ghostVars
<1>2. CASE KeepsIfUnchanged
  BY <1>1, <1>2, KeepStep
<1>3. CASE /\ StillToStart /\ Starts("recovery", rec[pass.s].track, pass.conv, pass.s)
           /\ pass' = [stage |-> "starting"]
           /\ UNCHANGED <<rec, row, placeholder, sid>>
  <2> DEFINE track == rec[pass.s].track
             conv == pass.conv
             s == pass.s
  <2>1. s \in Ref /\ conv \in Ref /\ track \in Tracks
    BY <1>0, <1>1, PassIs DEF Tables, Record, Ref
  <2>2. "recovery" \in StartKinds /\ "recovery" # "move"
    BY DEF StartKinds
  <2>3. Starts("recovery", track, conv, s)
    BY <1>3
  <2> HIDE DEF track, conv, s
  <2>4. OpOK(op', rec, move) /\ op'.kind = "recovery"
    BY <1>0, <2>1, <2>2, <2>3, StartsFacts
  <2>5. Live = {}
    BY <1>3 DEF StillToStart, RecordUnchanged
  <2>6. PassOK' /\ pass'.stage # "gather" /\ pass.stage # "gather"
    BY <1>1, <1>3 DEF PassOK
  <2>7. sid' \in Ref /\ resume' \in BOOLEAN /\ move' = move
    BY <1>0, <1>1, <1>3 DEF Types
  <2> QED  BY <1>1, <1>3, <2>2, <2>4, <2>5, <2>6, <2>7, LandStep
<1> QED  BY <1>1, <1>2, <1>3

(* The second pass keeps it: finding the task, *)
LEMMA DiscoverStep ==
  ASSUME Inv, Discover
  PROVE  Inv'
<1>0. Types /\ rec \in Tables /\ fate \in Fates /\ LoneOK /\ sid \in Ref /\ column \in Columns
  BY InvFacts
<1>1. /\ UNCHANGED <<rec, sid, column, row, placeholder, op, move, stale, resume, up, stops,
                     gestures, touched, fate, held, unstarted>>
      /\ pass.stage = "discover"
      /\ pass' = DonePass \/ pass' = [stage |-> "find", sid |-> sid, column |-> column]
  BY DEF Discover, tableVars, registryVars, boardVars, lifeVars, ghostVars
<1>2. PassOK' /\ pass'.stage # "gather"
  BY <1>0, <1>1 DEF PassOK, DonePass
<1> QED  BY <1>0, <1>1, <1>2, SettlesSame, PassStep DEF LoneOK, Types

(* its pause, *)
LEMMA FindStep ==
  ASSUME Inv, NEW ok, Find(ok)
  PROVE  Inv'
<1>0. /\ Types /\ rec \in Tables /\ fate \in Fates /\ LoneOK /\ PassOK /\ sid \in Ref
      /\ placeholder \in BOOLEAN
  BY InvFacts DEF Types
<1>1. /\ UNCHANGED <<rec, sid, column, op, move, stale, resume, up, stops, gestures, touched, fate,
                     held, unstarted>>
      /\ pass.stage = "find"
      /\ (row' = row /\ placeholder' = placeholder) \/ ShowsPlaceholder
      /\ pass' = DonePass \/ pass' = [pass EXCEPT !.stage = "spawn"]
  BY DEF Find, tableVars, boardVars, lifeVars, ghostVars
<1>2. PassOK' /\ pass'.stage # "gather"
  BY <1>0, <1>1 DEF PassOK, DonePass
<1>3. placeholder' \in BOOLEAN /\ (row' = row \/ (row' = NoRows /\ Live = {}))
  BY <1>0, <1>1, ShowsFacts
<1> QED  BY <1>0, <1>1, <1>2, <1>3, SettlesSame, PassStep DEF LoneOK

(* and starting its agent. *)
LEMMA StartFreshStep ==
  ASSUME Inv, StartFresh
  PROVE  Inv'
<1>0. Types /\ rec \in Tables /\ LoneOK /\ PassOK /\ sid \in Ref /\ column \in Columns
  BY InvFacts
<1>1. /\ UNCHANGED <<rec, sid, column, row, placeholder, move, stale, resume, up, stops, gestures,
                     touched, fate, held, unstarted>>
      /\ Free /\ pass.stage = "spawn"
      /\ \/ op' = Idle /\ pass' = DonePass
         \/ /\ StillToSpawn /\ Starts("auto", Track(column), NoSession, NoSession)
            /\ pass' = [pass EXCEPT !.stage = "spawning"]
  BY DEF StartFresh, tableVars, registryVars, boardVars, lifeVars, ghostVars
<1>2. PassOK' /\ pass'.stage # "gather"
  BY <1>0, <1>1 DEF PassOK, DonePass
<1>3. resume' \in BOOLEAN
  BY <1>0, <1>1 DEF Types
<1>4. CASE op' = Idle
  BY <1>0, <1>1, <1>2, <1>3, <1>4, LandStep DEF LoneOK
<1>5. CASE StillToSpawn /\ Starts("auto", Track(column), NoSession, NoSession)
  <2>1. "auto" \in StartKinds /\ "auto" # "move" /\ NoSession \in Ref /\ Track(column) \in Tracks
    BY <1>0, TrackIs DEF StartKinds, Ref
  <2>2. OpOK(op', rec, move) /\ op'.kind = "auto"
    BY <1>0, <1>5, <2>1, StartsFacts
  <2>3. Live = {}
    BY <1>5 DEF StillToSpawn, HasRow, Rows, Live
  <2> QED  BY <1>0, <1>1, <1>2, <1>3, <2>1, <2>2, <2>3, LandStep
<1> QED  BY <1>1, <1>4, <1>5

-----------------------------------------------------------------------------
(* The invariant holds at the start. *)
LEMMA InvInit == Init => Inv
<1> SUFFICES ASSUME Init PROVE Inv
  OBVIOUS
<1> USE DEF Init
<1>1. Types
  <2>1. NoRecord \in Record
    BY DEF NoRecord, Record, Statuses, Tracks, Ref
  <2>2. stops \in 0..MaxStops /\ gestures \in 0..MaxGestures
    BY RecordAssumption
  <2> QED  BY <2>1, <2>2, NoRowsIs, RecordAssumption DEF Types, Tables, Ref, Fates
<1>2. Made(rec) = {} /\ Live = {}
  BY NoRowsIs DEF Made, NoRecord
<1>3. OpOK(op, rec, move) /\ MoveOK /\ PassOK /\ LoneOK
  BY <1>2 DEF OpOK, MoveOK, PassOK, DonePass, LoneOK
<1>4. QuietOK
  BY DEF QuietOK, DonePass
<1>5. RunOK
  BY DEF RunOK, Busy, NoRecord
<1> QED  BY <1>1, <1>3, <1>4, <1>5, TypesAre DEF Inv

(* Every step keeps the invariant. *)
LEMMA InvNext == Inv /\ [Next]_vars => Inv'
<1> SUFFICES ASSUME Inv, [Next]_vars PROVE Inv'
  OBVIOUS
<1>1. CASE Launch
  BY <1>1, LaunchStep
<1>2. CASE Users
  BY <1>2, MoveToStep, ResumeStep, PauseStep, ResetStep DEF Users
<1>3. CASE Agents
  BY <1>3, PromoteStep, CaptureStep, EndStep DEF Agents
<1>4. CASE Passes
  BY <1>4, GatherStep, StartRecoveredStep, DiscoverStep, StartFreshStep, PrepareStep, FindStep
  DEF Passes
<1>5. CASE Operations
  BY <1>5, ReturnStep, SuspendEndStep, MoveLandStep, RollbackStep, ResumeLandStep, ResumeStep
  DEF Operations
<1>6. CASE Stops
  BY <1>6, StopStep DEF Stops
<1>7. CASE UNCHANGED vars
  <2>1. /\ UNCHANGED <<rec, sid, column, row, placeholder, op, move, stale, resume, pass, up,
                       stops, gestures, touched, fate, held, unstarted>>
        /\ Live' = Live
    BY <1>7 DEF vars, tableVars, registryVars, boardVars, lifeVars, ghostVars, Live
  <2>2. TypeOK' /\ OpOK(op', rec', move') /\ MoveOK' /\ PassOK' /\ QuietOK'
    BY <2>1, ZenonT(60) DEF Inv, TypeOK, MoveOK, PassOK, QuietOK
  <2>3. LoneOK' /\ (~LateRollbacks => RunOK')
    BY <2>1 DEF Inv, LoneOK, RunOK, Made, Busy
  <2> QED  BY <2>2, <2>3 DEF Inv
<1> QED  BY <1>1, <1>2, <1>3, <1>4, <1>5, <1>6, <1>7 DEF Next

(* The invariant, for all parameters. *)
THEOREM InvHolds == Spec => []Inv
BY InvInit, InvNext, PTL DEF Spec

(* What is checked of the registry follows. *)
LEMMA OneLive ==
  ASSUME Inv
  PROVE  OneAgent /\ LiveIsRecorded /\ LiveIsTheTasks
<1>1. LoneOK /\ (op # Idle => Live = {}) /\ \A s, t \in Live : s = t
  BY InvFacts
<1>2. Cardinality(Live) <= 1
  <2>1. CASE Live = {}
    BY <2>1, FS_EmptySet
  <2>2. CASE Live # {}
    <3>1. PICK s \in Live : TRUE
      BY <2>2
    <3>2. Live = {s}
      <4>1. \A t \in Live : t = s
        BY <1>1, <3>1
      <4> QED  BY <3>1, <4>1, Zenon
    <3> QED  BY <3>2, FS_Singleton
  <2> QED  BY <2>1, <2>2
<1>3. OneAgent
  BY <1>1, <1>2, IdleIs DEF OneAgent
<1>4. LiveIsRecorded /\ LiveIsTheTasks
  BY <1>1 DEF LoneOK, LiveIsRecorded, LiveIsTheTasks, Busy
<1> QED  BY <1>3, <1>4

(* The board and the passes of a launch start at most one agent of the task
   between them; while one is live, its record is busy and the task's row
   names it: whatever is moved, paused, resumed, reset, rolled back, stopped
   or found by a launch, and whichever awaits it crosses. *)
THEOREM OneAgentAtMost == Spec => [](TypeOK /\ OneAgent /\ LiveIsRecorded /\ LiveIsTheTasks)
<1>1. Inv => TypeOK /\ OneAgent /\ LiveIsRecorded /\ LiveIsTheTasks
  BY OneLive DEF Inv
<1> QED  BY <1>1, InvHolds, PTL

(* The table, the registry and the task's row tell one story at all times,
   when a move's rollback finds no agent and no pass that came after it. *)
THEOREM RecordsAlwaysMatch ==
  ASSUME ~LateRollbacks
  PROVE  Spec => []RecordsMatchRegistry
<1>1. Inv => RecordsMatchRegistry
  <2> SUFFICES ASSUME Inv PROVE RecordsMatchRegistry
    OBVIOUS
  <2>1. RunningIsLive
    BY DEF Inv, RunOK, RunningIsLive, Made, Busy
  <2> QED  BY <2>1, OneLive DEF Inv, RecordsMatchRegistry
<1> QED  BY <1>1, InvHolds, PTL

-----------------------------------------------------------------------------
(* Pauses.  A pause stays the newest record of its track until that track   *)
(* is started or reset (PausedOK).  A pass that may start on the track has  *)
(* then looked at an older record, and sees as much by that record or by    *)
(* session_id (PassFits); one that may start in the task's column finds a   *)
(* row, a move or the pause itself (CardShows, SpawnFits).                  *)
SidOK == sid # NoSession => sid \in Made(rec)

PausedOK == held # "none" => HeldPause(rec, LatestOn(rec, held))

MoveFits == move # NoMove => column = move.to /\ (sid # NoSession => HasRow)

(* What a start retires. *)
RetireOK ==
  op.kind \in StartKinds =>
    /\ op.retire # NoSession => rec[op.retire].track = op.track
    /\ op.kind = "recovery" => ~HeldPause(rec, op.retire) /\ pass.stage = "starting"
    /\ op.kind = "auto" => pass.stage = "spawning"
    /\ op.kind \in {"move", "resume"} /\ Eligible(rec, LatestOn(rec, op.track)) =>
         op.retire = LatestOn(rec, op.track)

PassFits ==
  pass.stage \in {"prepare", "start", "keep"} =>
    LET track == rec[pass.s].track IN
    /\ rec[pass.s].status \in {"suspended", "exited", "orphaned"} /\ ~HeldPause(rec, pass.s)
    /\ pass.sid # NoSession => pass.sid \in Made(rec) \ Live
    /\ held = track /\ pass.sid # NoSession => sid # pass.sid
    /\ pass.newest /\ rec[pass.s].conv # NoSession =>
         rec[pass.s].status = "exited" \/ LatestOn(rec, track) = pass.s

Rests(p) == p.stage \in {"none", "gather", "done"}

CardShows ==
  ~Rests(pass) /\ column \in AutoSpawn /\ Track(column) = held =>
    HasRow \/ move # NoMove \/ HeldPause(rec, Latest(rec))

SpawnFits ==
  /\ pass.stage \in {"find", "spawn"} => pass.column \in AutoSpawn
  /\ pass.stage = "spawn" /\ held # "none" /\ ~HasRow => ~HeldPause(rec, Latest(rec))

PauseInv ==
  SidOK /\ PausedOK /\ MoveFits /\ RetireOK /\ PassFits /\ CardShows /\ SpawnFits

(* Writes that make no pause and undo none, and those that leave every      *)
(* record that is not busy.                                                 *)
SamePauses(r, q) == \A t \in Sessions : HeldPause(q, t) <=> HeldPause(r, t)
SameAtRest(r, q) == \A t \in Sessions : ~Busy(r, t) => q[t] = r[t]

(* Settling a table changes none of its newest sessions. *)
LEMMA SameLatest ==
  ASSUME NEW r \in Tables, NEW q, Settles(r, q)
  PROVE  /\ Made(q) = Made(r) /\ Latest(q) = Latest(r)
         /\ \A track : LatestOn(q, track) = LatestOn(r, track)
<1>1. Made(q) = Made(r)
  BY SettlesMade
<1>2. ASSUME NEW track PROVE OnTrack(q, track) = OnTrack(r, track)
  BY <1>1 DEF OnTrack, Settles, Made
<1> QED  BY <1>1, <1>2 DEF Latest, LatestOn

(* No track is called "none". *)
LEMMA NoneIsNoTrack == "none" \notin Tracks /\ \A c \in Columns : Track(c) # "none"
BY RecordAssumption DEF Tracks, Track

(* One record changes that is no pause, to one that is none. *)
LEMMA IfPauses ==
  ASSUME NEW r \in Tables, NEW s \in Ref, NEW from, NEW to,
         s \in Sessions /\ r[s].status \in from => ~HeldPause(r, s),
         to.status # "suspended" \/ to.by # "user"
  PROVE  SamePauses(r, If(r, s, from, to))
<1>1. CASE s # NoSession /\ r[s].status \in from
  <2>1. s \in Sessions /\ If(r, s, from, to) = [r EXCEPT ![s] = to]
    BY <1>1 DEF Ref, If
  <2>2. ASSUME NEW t \in Sessions
        PROVE  [r EXCEPT ![s] = to][t] = IF t = s THEN to ELSE r[t]
    BY <2>1 DEF Tables
  <2> QED  BY <1>1, <2>1, <2>2 DEF SamePauses, HeldPause
<1>2. CASE ~(s # NoSession /\ r[s].status \in from)
  BY <1>2 DEF If, SamePauses
<1> QED  BY <1>1, <1>2

(* An exit undoes no pause. *)
LEMMA MarkExitedPauses ==
  ASSUME NEW r \in Tables, NEW s \in Ref, NEW bad \in BOOLEAN
  PROVE  SamePauses(r, MarkExited(r, s, bad)) /\ SameAtRest(r, MarkExited(r, s, bad))
<1> DEFINE to == [r[s] EXCEPT !.status = "exited", !.bad = bad]
<1>1. CASE s \in Sessions
  <2>1. to.status = "exited"
    BY <1>1 DEF Tables, Record
  <2> HIDE DEF to
  <2>2. SamePauses(r, If(r, s, {"running", "queued"}, to))
    BY <2>1, IfPauses DEF HeldPause
  <2>3. MarkExited(r, s, bad) = If(r, s, {"running", "queued"}, to)
    BY DEF MarkExited, to
  <2>4. SameAtRest(r, If(r, s, {"running", "queued"}, to))
    BY <1>1 DEF SameAtRest, If, Busy, Tables
  <2> QED  BY <2>2, <2>3, <2>4
<1>2. CASE s = NoSession
  BY <1>2 DEF MarkExited, If, SamePauses, SameAtRest
<1> QED  BY <1>1, <1>2 DEF Ref

(* Nor does a suspend of the system's, which leaves what is at rest. *)
LEMMA MarkSuspendedPauses ==
  ASSUME NEW r \in Tables, NEW s \in Ref
  PROVE  /\ SamePauses(r, MarkSuspended(r, s, "system"))
         /\ s \in Sessions /\ Busy(r, s) => SameAtRest(r, MarkSuspended(r, s, "system"))
<1> DEFINE to == [r[s] EXCEPT !.status = "suspended", !.by = "system"]
           from == {"running", "exited", "orphaned"}
<1>1. CASE s \in Sessions
  <2>1. to.by = "system"
    BY <1>1 DEF Tables, Record
  <2>2. MarkSuspended(r, s, "system") = If(r, s, from, to)
    BY DEF MarkSuspended
  <2>3. r[s].status \in from => ~HeldPause(r, s)
    BY DEF HeldPause
  <2> HIDE DEF to, from
  <2>4. SamePauses(r, If(r, s, from, to))
    BY <2>1, <2>3, IfPauses
  <2>5. Busy(r, s) => SameAtRest(r, If(r, s, from, to))
    BY <1>1 DEF SameAtRest, If, Tables
  <2> QED  BY <2>2, <2>4, <2>5
<1>2. CASE s = NoSession
  BY <1>2, ReconciledIs DEF MarkSuspended, If, SamePauses
<1> QED  BY <1>1, <1>2 DEF Ref

(* A queued session's end makes and undoes none. *)
LEMMA SettleQueuedPauses ==
  ASSUME NEW r \in Tables, NEW s \in Sessions
  PROVE  SamePauses(r, SettleQueued(r, s, "system")) /\ SameAtRest(r, SettleQueued(r, s, "system"))
<1> DEFINE kept == [r[s] EXCEPT !.status = "suspended", !.by = "system"]
           gone == [r[s] EXCEPT !.status = "exited", !.conv = NoSession]
<1>1. s \in Ref /\ kept.by = "system" /\ gone.status = "exited"
  BY DEF Tables, Record, Ref
<1>2. \/ SettleQueued(r, s, "system") = If(r, s, {"queued"}, kept)
      \/ SettleQueued(r, s, "system") = If(r, s, {"running", "queued"}, gone)
  BY DEF SettleQueued
<1> HIDE DEF kept, gone
<1>3. /\ SamePauses(r, If(r, s, {"queued"}, kept))
      /\ SamePauses(r, If(r, s, {"running", "queued"}, gone))
  BY <1>1, IfPauses DEF HeldPause
<1>4. /\ SameAtRest(r, If(r, s, {"queued"}, kept))
      /\ SameAtRest(r, If(r, s, {"running", "queued"}, gone))
  BY <1>1 DEF SameAtRest, If, Busy, Tables
<1> QED  BY <1>2, <1>3, <1>4

(* Retiring a record that no pause rests on undoes none. *)
LEMMA RetirePauses ==
  ASSUME NEW r \in Tables, NEW s \in Ref, ~HeldPause(r, s)
  PROVE  SamePauses(r, Retire(r, s)) /\ \A t \in Sessions : Eligible(Retire(r, s), t) <=>
           Eligible(r, t)
<1> DEFINE to == [r[s] EXCEPT !.status = "exited"]
<1>1. CASE s \in Sessions
  <2>1. to.status = "exited" /\ to.conv = r[s].conv
    BY <1>1 DEF Tables, Record
  <2>2. Retire(r, s) = If(r, s, {"suspended", "orphaned"}, to)
    BY DEF Retire
  <2> HIDE DEF to
  <2>3. SamePauses(r, If(r, s, {"suspended", "orphaned"}, to))
    BY <2>1, IfPauses
  <2>4. \A t \in Sessions : If(r, s, {"suspended", "orphaned"}, to)[t] =
          IF t = s /\ r[s].status \in {"suspended", "orphaned"} THEN to ELSE r[t]
    BY <1>1, ReconciledIs DEF If, Tables
  <2> QED  BY <2>1, <2>2, <2>3, <2>4 DEF Eligible
<1>2. CASE s = NoSession
  BY <1>2 DEF Retire, If, SamePauses
<1> QED  BY <1>1, <1>2 DEF Ref

(* What keeps each part of the invariant. *)
LEMMA PausedKept ==
  ASSUME Inv, PausedOK, Settles(rec, rec'), SamePauses(rec, rec'), held' \in {held, "none"}
  PROVE  PausedOK'
<1> SUFFICES ASSUME held' # "none" PROVE HeldPause(rec', LatestOn(rec', held'))
  BY DEF PausedOK
<1> DEFINE m == LatestOn(rec, held)
<1>1. rec \in Tables /\ held' = held /\ HeldPause(rec, m)
  BY InvFacts DEF PausedOK
<1>2. m \in Sessions /\ LatestOn(rec', held) = m
  <2>1. m \in Ref /\ LatestOn(rec', held) = m
    BY <1>1, LatestIs, SameLatest
  <2> QED  BY <1>1, <2>1 DEF HeldPause, Ref
<1> HIDE DEF m
<1>3. HeldPause(rec', m)
  BY <1>1, <1>2 DEF SamePauses
<1> QED  BY <1>1, <1>2, <1>3

(* Likewise each other part of the invariant: the session the task's row names, *)
LEMMA SidKept ==
  ASSUME Inv, SidOK, Settles(rec, rec'), sid' \in {sid, NoSession} \cup Live
  PROVE  SidOK'
<1>1. Made(rec') = Made(rec) /\ \A s \in Live : s \in Made(rec)
  BY InvFacts, SameLatest, ReconciledIs DEF LoneOK, Busy, Made
<1> QED  BY <1>1 DEF SidOK

(* a move under way, *)
LEMMA MoveKept ==
  ASSUME MoveFits, move' = move, column' = column,
         sid' # NoSession => HasRow' \/ (sid' = sid /\ (HasRow => HasRow'))
  PROVE  MoveFits'
BY DEF MoveFits

(* what a start retires, *)
LEMMA RetireKept ==
  ASSUME RetireOK,
         \/ op' = op /\ (op.kind \in StartKinds => rec' = rec /\ pass' = pass)
         \/ op'.kind \notin StartKinds
  PROVE  RetireOK'
<1>1. CASE op' = op /\ op.kind \in StartKinds /\ rec' = rec /\ pass' = pass
  BY <1>1 DEF RetireOK
<1>2. CASE op'.kind \notin StartKinds
  BY <1>2 DEF RetireOK
<1> QED  BY <1>1, <1>2

(* the record that a pass looks at, *)
LEMMA FitsKept ==
  ASSUME Inv, PassFits, Settles(rec, rec'), SameAtRest(rec, rec'), pass' = pass,
         Live' \subseteq Live,
         sid' \in {sid, NoSession} \cup Live, held' \in {held, "none"} \/ sid' = NoSession
  PROVE  PassFits'
<1> SUFFICES ASSUME pass.stage \in {"prepare", "start", "keep"}
             PROVE  PassFits'
  BY DEF PassFits
<1>1. pass.s \in Sessions /\ rec \in Tables
  BY InvFacts, PassIs
<1>2. rec'[pass.s] = rec[pass.s] /\ rec[pass.s].track \in Tracks
  BY <1>1 DEF PassFits, SameAtRest, Busy, Tables, Record
<1>3. /\ Made(rec') = Made(rec)
      /\ LatestOn(rec', rec[pass.s].track) = LatestOn(rec, rec[pass.s].track)
  BY <1>1, SameLatest
<1>4. held' = rec[pass.s].track => held = rec[pass.s].track \/ sid' = NoSession
  BY <1>2, NoneIsNoTrack
<1>5. held' = rec[pass.s].track /\ pass.sid # NoSession => sid' # pass.sid
  BY <1>4 DEF PassFits
<1>6. HeldPause(rec', pass.s) <=> HeldPause(rec, pass.s)
  BY <1>2 DEF HeldPause
<1> QED  BY <1>2, <1>3, <1>5, <1>6 DEF PassFits

(* what a paused task's card shows, *)
LEMMA CardKept ==
  ASSUME Inv, CardShows, Settles(rec, rec'), SamePauses(rec, rec'), held' \in {held, "none"},
         column' = column, move # NoMove => move' # NoMove, HasRow => HasRow' \/ held' = "none",
         Rests(pass) => Rests(pass')
  PROVE  CardShows'
<1> SUFFICES ASSUME ~Rests(pass'), column \in AutoSpawn, Track(column) = held'
             PROVE  HasRow' \/ move' # NoMove \/ HeldPause(rec', Latest(rec'))
  BY DEF CardShows
<1>1. held' = held /\ held # "none"
  BY NoneIsNoTrack, InvFacts
<1>2. CASE HeldPause(rec, Latest(rec))
  <2> DEFINE m == Latest(rec)
  <2>1. m \in Ref /\ Latest(rec') = m
    BY InvFacts, LatestIs, SameLatest
  <2>2. m \in Sessions /\ HeldPause(rec, m)
    BY <1>2, <2>1 DEF HeldPause, Ref
  <2> HIDE DEF m
  <2>3. HeldPause(rec', m)
    BY <2>2 DEF SamePauses
  <2> QED  BY <2>1, <2>3
<1> QED  BY <1>1, <1>2 DEF CardShows

(* and what a pass that is to start an agent has seen. *)
LEMMA SpawnKept ==
  ASSUME Inv, SpawnFits, Settles(rec, rec'), SamePauses(rec, rec'), held' \in {held, "none"},
         HasRow => HasRow' \/ held' = "none",
         pass'.stage \in {"find", "spawn"} => pass' = pass
  PROVE  SpawnFits'
<1>1. ASSUME pass'.stage = "spawn", held' # "none", ~HasRow', HeldPause(rec', Latest(rec'))
      PROVE  FALSE
  <2> DEFINE m == Latest(rec')
  <2>1. m \in Ref /\ Latest(rec) = m
    BY InvFacts, LatestIs, SameLatest
  <2>2. m \in Sessions /\ HeldPause(rec', m)
    BY <1>1, <2>1 DEF HeldPause, Ref
  <2> HIDE DEF m
  <2>3. HeldPause(rec, m)
    BY <2>2 DEF SamePauses
  <2> QED  BY <1>1, <2>1, <2>3 DEF SpawnFits
<1> QED  BY <1>1 DEF SpawnFits

(* A step that starts nothing, moves nothing and makes no pause. *)
LEMMA GentleStep ==
  ASSUME Inv, PauseInv, Settles(rec, rec'), SamePauses(rec, rec'), SameAtRest(rec, rec'),
         held' \in {held, "none"}, UNCHANGED <<column, move, pass>>, Live' \subseteq Live,
         sid' \in {sid, NoSession} \cup Live,
         HasRow => HasRow' \/ (held' = "none" /\ sid' = NoSession),
         sid' \in Live => HasRow',
         \/ op' = op /\ (op.kind \in StartKinds => rec' = rec)
         \/ op'.kind \notin StartKinds
  PROVE  PauseInv'
<1>1. SidOK' /\ PausedOK' /\ PassFits'
  BY SidKept, PausedKept, FitsKept DEF PauseInv
<1>2. MoveFits'
  BY MoveKept DEF PauseInv
<1>3. RetireOK'
  BY RetireKept DEF PauseInv
<1>4. CardShows'
  BY CardKept DEF PauseInv
<1>5. SpawnFits'
  BY SpawnKept DEF PauseInv
<1> QED  BY <1>1, <1>2, <1>3, <1>4, <1>5 DEF PauseInv

(* A row changes, and stays one. *)
LEMMA RowStays ==
  ASSUME Inv, NEW s \in Sessions, NEW to, to # "none", row' = [row EXCEPT ![s] = to],
         placeholder' = placeholder
  PROVE  HasRow'
<1>1. s \in Rows'
  BY InvFacts DEF Rows, Types
<1> QED  BY <1>1 DEF HasRow

(* An unchanged registry. *)
LEMMA RowsSame ==
  ASSUME row' = row, placeholder' = placeholder
  PROVE  Live' = Live /\ (HasRow => HasRow') /\ Rows' = Rows
BY DEF Live, HasRow, Rows

(* An unchanged table. *)
LEMMA SameTable ==
  ASSUME NEW r \in Tables
  PROVE  Settles(r, r) /\ SamePauses(r, r) /\ SameAtRest(r, r)
BY SettlesSame DEF SamePauses, SameAtRest

(* The agents' steps. *)
LEMMA AgentsPauses ==
  ASSUME Inv, PauseInv, Agents
  PROVE  PauseInv'
<1>1. PICK s \in Sessions : Promote(s) \/ Capture(s) \/ \E bad \in BOOLEAN : AgentEnds(s, bad)
  BY DEF Agents
<1>2. rec \in Tables /\ LoneOK /\ Types
  BY InvFacts
<1>3. UNCHANGED <<column, sid, op, move, pass, held, placeholder>>
  BY <1>1 DEF Promote, Capture, AgentEnds, boardVars, registryVars
<1>4. s \in Live /\ Busy(rec, s) /\ op = Idle /\ s \in Ref
  BY <1>1, <1>2 DEF Promote, Capture, AgentEnds, Live, LoneOK, Ref
<1>5. CASE Promote(s) \/ Capture(s)
  <2>1. \/ rec' = rec
        \/ /\ rec[s].status = "queued"
           /\ rec' = [rec EXCEPT ![s] = [rec[s] EXCEPT !.status = "running"]]
        \/ rec' = [rec EXCEPT ![s] = [rec[s] EXCEPT !.conv = s]]
    BY <1>2, <1>5 DEF Promote, Capture, Promoted, If, Tables
  <2>2. /\ rec[s] \in Record
        /\ [rec[s] EXCEPT !.status = "running"] \in Record
        /\ [rec[s] EXCEPT !.conv = s] \in Record
    BY <1>2, <1>4 DEF Tables, Record, Statuses
  <2>3. Settles(rec, rec') /\ SamePauses(rec, rec') /\ SameAtRest(rec, rec')
    <3>1. CASE rec' = rec
      BY <1>2, <3>1, SameTable
    <3>2. CASE rec' = [rec EXCEPT ![s] = [rec[s] EXCEPT !.status = "running"]]
      BY <1>2, <1>4, <2>2, <3>2 DEF Settles, SamePauses, SameAtRest, HeldPause, Busy, Tables,
         Record
    <3>3. CASE rec' = [rec EXCEPT ![s] = [rec[s] EXCEPT !.conv = s]]
      BY <1>2, <1>4, <2>2, <3>3 DEF Settles, SamePauses, SameAtRest, HeldPause, Busy, Tables,
         Record
    <3> QED  BY <2>1, <3>1, <3>2, <3>3
  <2>4. Live' = Live /\ (HasRow => HasRow') /\ HasRow'
    <3>1. row' = [row EXCEPT ![s] = "running"]
      BY <1>2, <1>5 DEF Promote, Capture, Types, registryVars
    <3>2. HasRow'
      BY <1>3, <3>1, RowStays
    <3> QED  BY <1>2, <1>4, <3>1, <3>2 DEF Types, Live
  <2> QED  BY <1>3, <1>4, <2>3, <2>4, GentleStep, IdleIs
<1>6. CASE \E bad \in BOOLEAN : AgentEnds(s, bad)
  <2>1. PICK bad \in BOOLEAN : AgentEnds(s, bad)
    BY <1>6
  <2>2. rec' = MarkExited(rec, s, bad) /\ row' = [row EXCEPT ![s] = "exited"]
    BY <2>1 DEF AgentEnds
  <2>3. Settles(rec, rec') /\ SamePauses(rec, rec') /\ SameAtRest(rec, rec')
    BY <1>2, <1>4, <2>2, MarkExitedFacts, MarkExitedPauses
  <2>4. HasRow' /\ Live' \subseteq Live
    <3>1. HasRow'
      BY <1>3, <2>2, RowStays
    <3> QED  BY <1>2, <2>2, <3>1 DEF Types, Live
  <2> QED  BY <1>3, <1>4, <2>3, <2>4, GentleStep, IdleIs
<1> QED  BY <1>1, <1>5, <1>6

(* A resume ends the pause, and clears session_id so that a pass sees it. *)
LEMMA ResumePauses ==
  ASSUME Inv, PauseInv, Resume \/ CancelResume \/ ResumeFails
  PROVE  PauseInv'
<1>1. /\ UNCHANGED <<rec, column, row, placeholder, op, move, pass>>
      /\ sid' = sid \/ sid' = NoSession
      /\ held' \in {held, "none"}
  BY DEF Resume, CancelResume, ResumeFails, tableVars, registryVars, ghostVars
<1>2. sid' \in Live => sid' \in Live /\ HasRow'
  BY <1>1 DEF Live, HasRow, Rows
<1> QED  BY <1>1, <1>2, InvFacts, SameTable, RowsSame, GentleStep

(* A reset ends it likewise. *)
LEMMA ResetPauses ==
  ASSUME Inv, PauseInv, Reset
  PROVE  PauseInv'
<1> DEFINE s == Latest(rec)
           bad == sid # NoSession /\ row[sid] = "queued"
<1>1. /\ UNCHANGED <<column, op, move, pass>> /\ op = Idle
      /\ sid' = NoSession /\ row' = NoRows /\ held' = "none" /\ rec' = MarkExited(rec, s, bad)
  BY DEF Reset, Gesture, Free
<1>2. s \in Ref /\ bad \in BOOLEAN /\ rec \in Tables
  BY InvFacts, LatestIs
<1> HIDE DEF s, bad
<1>3. Settles(rec, rec') /\ SamePauses(rec, rec') /\ SameAtRest(rec, rec')
  BY <1>1, <1>2, MarkExitedFacts, MarkExitedPauses
<1>4. Live' = {} /\ NoSession \notin Live
  BY <1>1, NoRowsIs, ReconciledIs
<1> QED  BY <1>1, <1>3, <1>4, GentleStep, IdleIs

(* The end of a move's suspend undoes no pause. *)
LEMMA SuspendEndsPauses ==
  ASSUME Inv, PauseInv, SuspendEnds
  PROVE  PauseInv'
<1> DEFINE s == op.s
<1>1. /\ UNCHANGED <<column, row, placeholder, move, pass, held>> /\ op' = Idle
      /\ sid' = NoSession /\ rec' = MarkExited(rec, s, TRUE) /\ op.kind = "suspend"
  BY DEF SuspendEnds, registryVars, boardVars, ghostVars
<1>2. s \in Ref /\ rec \in Tables
  BY <1>1, InvFacts, IdleIs DEF OpOK, Ref, StartKinds
<1> HIDE DEF s
<1>3. Settles(rec, rec') /\ SamePauses(rec, rec') /\ SameAtRest(rec, rec')
  BY <1>1, <1>2, MarkExitedFacts, MarkExitedPauses
<1> QED  BY <1>1, <1>3, RowsSame, ReconciledIs, GentleStep, IdleIs

(* The ends of the app, and a launch. *)
LEMMA DownPauses ==
  ASSUME Inv, PauseInv, Down, Settles(rec, rec'), SamePauses(rec, rec'), sid' \in {sid, NoSession}
  PROVE  PauseInv'
<1>1. held' = held /\ op' = Idle /\ move' = NoMove /\ pass' = NoPass
  BY DEF Down, ghostVars
<1>2. SidOK' /\ PausedOK'
  BY <1>1, SidKept, PausedKept DEF PauseInv
<1>3. MoveFits' /\ RetireOK'
  BY <1>1, IdleIs DEF MoveFits, RetireOK
<1>4. PassFits' /\ CardShows' /\ SpawnFits'
  BY <1>1 DEF PassFits, CardShows, SpawnFits, NoPass, Rests
<1> QED  BY <1>2, <1>3, <1>4 DEF PauseInv

(* A crash and a quit undo none: a quit suspends what runs as the system. *)
LEMMA StopPauses ==
  ASSUME Inv, PauseInv, Crash \/ Quit
  PROVE  PauseInv' /\ Settles(rec, rec')
<1>0. rec \in Tables
  BY InvFacts
<1>1. CASE Crash
  BY <1>0, <1>1, SameTable, DownPauses DEF Crash
<1>2. CASE Quit
  <2>1. Down /\ sid' \in {sid, NoSession}
    BY <1>2 DEF Quit
  <2>2. rec' = [s \in Sessions |->
           CASE s \in Live /\ rec[s].status = "running" -> MarkSuspended(rec, s, "system")[s]
             [] s \in Live /\ rec[s].status = "queued"  -> SettleQueued(rec, s, "system")[s]
             [] OTHER -> rec[s]]
    BY <1>2 DEF Quit
  <2>3. ASSUME NEW s \in Sessions
        PROVE  /\ rec'[s] \in Record /\ (rec'[s].status = "none" <=> rec[s].status = "none")
               /\ (Busy(rec', s) => Busy(rec, s)) /\ rec'[s].track = rec[s].track
               /\ rec'[s].status = "queued" => rec[s].status = "queued"
               /\ HeldPause(rec', s) <=> HeldPause(rec, s)
    <3>1. \/ rec'[s] = MarkSuspended(rec, s, "system")[s]
          \/ rec'[s] = SettleQueued(rec, s, "system")[s]
          \/ rec'[s] = rec[s]
      BY <2>2
    <3>2. LET q == MarkSuspended(rec, s, "system") IN Settles(rec, q) /\ SamePauses(rec, q)
      BY <1>0, MarkSuspendedFacts, MarkSuspendedPauses DEF Ref
    <3>3. LET q == SettleQueued(rec, s, "system") IN Settles(rec, q) /\ SamePauses(rec, q)
      BY <1>0, SettleQueuedFacts, SettleQueuedPauses
    <3>4. CASE rec'[s] = MarkSuspended(rec, s, "system")[s]
      BY <3>2, <3>4 DEF Settles, SamePauses, HeldPause, Busy, Tables
    <3>5. CASE rec'[s] = SettleQueued(rec, s, "system")[s]
      BY <3>3, <3>5 DEF Settles, SamePauses, HeldPause, Busy, Tables
    <3>6. CASE rec'[s] = rec[s]
      BY <1>0, <3>6 DEF HeldPause, Busy, Tables
    <3> QED  BY <3>1, <3>4, <3>5, <3>6
  <2>4. Settles(rec, rec') /\ SamePauses(rec, rec')
    BY <2>2, <2>3 DEF Settles, SamePauses, Tables
  <2> QED  BY <2>1, <2>4, DownPauses
<1> QED  BY <1>1, <1>2

(* A launch undoes none. *)
LEMMA LaunchPauses ==
  ASSUME Inv, PauseInv, Launch
  PROVE  PauseInv'
<1>1. /\ UNCHANGED <<rec, sid, column, row, placeholder, op, move, held>>
      /\ ~up /\ pass' = [stage |-> "gather"]
  BY DEF Launch, tableVars, registryVars, boardVars
<1>2. op = Idle /\ move = NoMove /\ rec \in Tables
  BY <1>1, InvFacts DEF QuietOK
<1>3. SidOK' /\ PausedOK'
  BY <1>1, <1>2, SameTable, SidKept, PausedKept DEF PauseInv
<1>4. MoveFits' /\ RetireOK'
  BY <1>1, <1>2, IdleIs DEF MoveFits, RetireOK
<1>5. PassFits' /\ CardShows' /\ SpawnFits'
  BY <1>1 DEF PassFits, CardShows, SpawnFits, Rests
<1> QED  BY <1>3, <1>4, <1>5 DEF PauseInv

(* A rollback comes when no pass is under way. *)
LEMMA RollbackPauses ==
  ASSUME Inv, PauseInv, ~LateRollbacks, MoveFails \/ StaleMoveEnds
  PROVE  PauseInv'
<1>1. /\ UNCHANGED <<rec, op, pass, held>> /\ sid' = NoSession
      /\ pass = DonePass /\ op = Idle
      /\ move' = NoMove \/ (move' = move /\ column' = column)
  BY DEF MoveFails, StaleMoveEnds, RowsRemoved, Free, lifeVars, ghostVars
<1>2. rec \in Tables
  BY InvFacts
<1>3. SidOK' /\ PausedOK'
  BY <1>1, <1>2, SameTable, SidKept, PausedKept DEF PauseInv
<1>4. MoveFits' /\ RetireOK'
  BY <1>1, <1>2, IdleIs DEF MoveFits, RetireOK, PauseInv
<1>5. PassFits' /\ CardShows' /\ SpawnFits'
  BY <1>1 DEF PassFits, CardShows, SpawnFits, DonePass, Rests
<1> QED  BY <1>3, <1>4, <1>5 DEF PauseInv

(* The board's starts. *)
LEMMA BoardStartRetires ==
  ASSUME Inv, NEW kind \in {"move", "resume"}, NEW track \in Tracks, BoardStart(kind, track),
         kind = "move" => move # NoMove, rec' = rec
  PROVE  RetireOK'
<1> DEFINE m == LatestOn(rec, track)
<1>1. rec \in Tables /\ kind \in StartKinds /\ m \in Ref
      /\ (m # NoSession => m \in OnTrack(rec, track))
  BY InvFacts, LatestIs DEF StartKinds
<1>2. m # NoSession => rec[m].track = track
  BY <1>1 DEF OnTrack
<1>3. CASE Eligible(rec, m)
  <2>1. Starts(kind, track, rec[m].conv, m) /\ rec[m].conv \in Ref
    BY <1>1, <1>3 DEF BoardStart, Eligible, Tables, Record, Ref
  <2>2. op'.kind = kind /\ op'.track = track /\ op'.retire = m
    <3> HIDE DEF m
    <3> QED  BY <1>1, <2>1, StartsFacts
  <2> QED  BY <1>2, <2>2 DEF RetireOK
<1>4. CASE ~Eligible(rec, m)
  <2>1. Starts(kind, track, NoSession, NoSession) /\ NoSession \in Ref
    BY <1>4 DEF BoardStart, Ref
  <2>2. op'.kind = kind /\ op'.track = track /\ op'.retire = NoSession
    BY <1>1, <2>1, StartsFacts
  <2> QED  BY <1>4, <2>2 DEF RetireOK
<1> QED  BY <1>3, <1>4

(* A move suspends as the system: it makes no pause and undoes none. *)
LEMMA MoveToPauses ==
  ASSUME Inv, PauseInv, NEW c \in Columns, MoveTo(c)
  PROVE  PauseInv'
<1> DEFINE s == Reconciled
           own == IF c \in AutoSpawn THEN Latest(rec) ELSE OwnRecord(s)
           leaves == s # NoSession /\ (c \in AutoSpawn => rec[Latest(rec)].track # Track(c))
           starts == c \in AutoSpawn /\ (leaves \/ (s = NoSession /\ ~HeldPause(rec, Latest(rec))))
<1>1. /\ UNCHANGED <<placeholder, pass, held>>
      /\ column' = c /\ sid' = s
      /\ rec' = IF leaves THEN SuspendWrites(rec, own, "system") ELSE rec
      /\ row' = IF leaves THEN [row EXCEPT ![s] = "suspended"] ELSE row
      /\ op' = IF leaves THEN [kind |-> "suspend", s |-> s] ELSE Idle
      /\ move' = IF starts THEN [to |-> c, from |-> column, failed |-> FALSE] ELSE NoMove
      /\ Gesture
  BY DEF MoveTo
<1>2. rec \in Tables /\ Types /\ s \in Ref /\ (s # NoSession => s \in Live) /\ NoSession \notin Sessions
      /\ op = Idle
  BY <1>1, InvFacts, ReconciledIs, GestureFacts
<1>3. /\ Settles(rec, rec') /\ SamePauses(rec, rec') /\ SameAtRest(rec, rec')
      /\ Live' \subseteq Live /\ (HasRow => HasRow') /\ (s # NoSession => HasRow')
  <2>1. CASE leaves
    <3>1. s \in Sessions /\ own = s /\ Live = {s} /\ Busy(rec, s)
      BY <2>1, LiveOne
    <3>2. rec' = SuspendWrites(rec, s, "system") /\ row' = [row EXCEPT ![s] = "suspended"]
      BY <1>1, <2>1, <3>1
    <3> HIDE DEF s, own, leaves, starts
    <3>3. \/ rec' = rec
          \/ rec' = SettleQueued(rec, s, "system")
          \/ rec' = MarkSuspended(rec, s, "system")
      BY <3>2 DEF SuspendWrites
    <3>4. Settles(rec, rec') /\ SamePauses(rec, rec') /\ SameAtRest(rec, rec')
      BY <1>2, <3>1, <3>3, SameTable, SettleQueuedFacts, SettleQueuedPauses, MarkSuspendedFacts,
         MarkSuspendedPauses
    <3>5. HasRow'
      BY <1>1, <3>1, <3>2, RowStays
    <3>6. Live' \subseteq Live
      BY <1>2, <3>1, <3>2 DEF Types, Live
    <3> QED  BY <3>4, <3>5, <3>6
  <2>2. CASE ~leaves
    <3>1. rec' = rec /\ row' = row
      BY <1>1, <2>2
    <3>2. s # NoSession => HasRow
      BY <1>2 DEF Live, HasRow, Rows
    <3> HIDE DEF s, own, leaves, starts
    <3> QED  BY <1>1, <1>2, <3>1, <3>2, SameTable, RowsSame
  <2> QED  BY <2>1, <2>2
<1>4. SidOK' /\ PausedOK' /\ PassFits'
  BY <1>1, <1>2, <1>3, SidKept, PausedKept, FitsKept DEF PauseInv
<1>5. MoveFits'
  BY <1>1, <1>3 DEF MoveFits
<1>6. RetireOK'
  BY <1>1, IdleIs DEF RetireOK, StartKinds
<1>7. CardShows'
  <2> SUFFICES ASSUME c \in AutoSpawn, s = NoSession, move' = NoMove
               PROVE  HeldPause(rec', Latest(rec'))
    BY <1>1, <1>3 DEF CardShows
  <2>1. ~starts /\ ~leaves
    BY <1>1 DEF NoMove
  <2>2. rec' = rec /\ HeldPause(rec, Latest(rec))
    BY <1>1, <2>1
  <2> QED  BY <2>2
<1>8. SpawnFits'
  BY <1>1, <1>2, <1>3, SpawnKept DEF PauseInv
<1> QED  BY <1>4, <1>5, <1>6, <1>7, <1>8 DEF PauseInv

(* A move's third phase starts no agent on a paused track. *)
LEMMA MoveLandPauses ==
  ASSUME Inv, PauseInv, MoveLands
  PROVE  PauseInv'
<1>0. rec \in Tables /\ column \in Columns
  BY InvFacts
<1>1. /\ Free /\ move # NoMove
      /\ UNCHANGED <<rec, sid, column, row, placeholder, pass, held>>
      /\ \/ /\ move' = NoMove /\ op' = Idle
            /\ column # move.to \/ sid # NoSession \/ HeldPause(rec, Latest(rec))
         \/ BoardStart("move", Track(column)) /\ move' = move
  BY DEF MoveLands, tableVars, registryVars, ghostVars
<1>2. Live' = Live /\ (HasRow => HasRow')
  BY <1>1, RowsSame
<1>3. SidOK' /\ PausedOK' /\ PassFits' /\ SpawnFits'
  BY <1>0, <1>1, <1>2, SameTable, SidKept, PausedKept, FitsKept, SpawnKept DEF PauseInv
<1>4. MoveFits'
  BY <1>1, <1>2 DEF MoveFits, PauseInv
<1>5. RetireOK'
  <2>1. Track(column) \in Tracks
    BY <1>0, TrackIs
  <2> QED  BY <1>1, <2>1, BoardStartRetires, IdleIs DEF RetireOK
<1>6. CardShows'
  <2>1. CASE move' = move
    BY <1>0, <1>1, <1>2, <2>1, SameTable, CardKept DEF PauseInv
  <2>2. CASE column # move.to \/ sid # NoSession \/ HeldPause(rec, Latest(rec))
    <3>1. HasRow' \/ HeldPause(rec', Latest(rec'))
      BY <1>1, <1>2, <2>2 DEF PauseInv, MoveFits
    <3> QED  BY <3>1 DEF CardShows
  <2> QED  BY <1>1, <2>1, <2>2
<1> QED  BY <1>3, <1>4, <1>5, <1>6 DEF PauseInv

(* A resume's third phase comes after the pause has ended. *)
LEMMA ResumeLandPauses ==
  ASSUME Inv, PauseInv, ResumeLands
  PROVE  PauseInv'
<1>0. rec \in Tables /\ column \in Columns
  BY InvFacts
<1>1. /\ Free
      /\ UNCHANGED <<rec, column, row, placeholder, move, pass, held>>
      /\ \/ Live # {} /\ op' = Idle /\ sid' = Reconciled
         \/ Live = {} /\ BoardStart("resume", Track(column)) /\ sid' = NoSession
  BY DEF ResumeLands, registryVars, ghostVars
<1>2. Live' = Live /\ (HasRow => HasRow') /\ sid' \in {NoSession} \cup Live
  BY <1>1, RowsSame, ReconciledIs
<1>3. sid' # NoSession => HasRow'
  BY <1>1, <1>2, RowsSame DEF HasRow, Live, Rows
<1>4. SidOK' /\ PausedOK' /\ PassFits' /\ SpawnFits' /\ MoveFits' /\ CardShows'
  BY <1>0, <1>1, <1>2, <1>3, SameTable, SidKept, PausedKept, FitsKept, SpawnKept, MoveKept,
     CardKept DEF PauseInv
<1>5. RetireOK'
  <2>1. Track(column) \in Tracks
    BY <1>0, TrackIs
  <2> QED  BY <1>1, <2>1, BoardStartRetires, IdleIs DEF RetireOK
<1> QED  BY <1>4, <1>5 DEF PauseInv

(* A record that is retired changes its status, if anything. *)
LEMMA RetiredIs ==
  ASSUME NEW r \in Tables, NEW s \in Ref, NEW t \in Sessions
  PROVE  LET q == Retire(r, s) IN
         /\ q[t].conv = r[t].conv /\ q[t].track = r[t].track
         /\ q[t].status = r[t].status \/ q[t].status = "exited"
         /\ t = s /\ r[t].status \in {"suspended", "orphaned"} => q[t].status = "exited"
         /\ q[t].status # "exited" => q[t] = r[t]
<1> DEFINE to == [r[s] EXCEPT !.status = "exited"]
<1>1. s \in Sessions => to.status = "exited" /\ to.conv = r[s].conv /\ to.track = r[s].track
  BY DEF Tables, Record
<1>2. Retire(r, s)[t] =
        IF t = s /\ r[s].status \in {"suspended", "orphaned"} THEN to ELSE r[t]
  <2>1. t # NoSession
    BY ReconciledIs
  <2> HIDE DEF to
  <2>2. Retire(r, s) = If(r, s, {"suspended", "orphaned"}, to)
    BY DEF Retire, to
  <2> QED  BY <2>1, <2>2 DEF If, Tables, Ref
<1> HIDE DEF to
<1> QED  BY <1>1, <1>2

(* A start that succeeds ends the pause of its track. *)
LEMMA CommitPauses ==
  ASSUME Inv, PauseInv, op.kind \in StartKinds, NEW outcome \in Outcomes, Committed(outcome),
         pass' = PassAfter(op.kind), op' = Idle, column' = column
  PROVE  PauseInv'
<1> DEFINE s == op.s
           new == [status |-> StatusFor(op.kind, outcome), track |-> op.track, conv |-> op.conv,
                   by |-> "none", bad |-> FALSE]
           r == Retire(rec, op.retire)
<1>0. rec \in Tables /\ OpOK(op, rec, move) /\ op # Idle
  BY InvFacts, IdleIs
<1>1. /\ row' = [NoRows EXCEPT ![s] = Answered(outcome)]
      /\ rec' = [r EXCEPT ![s] = new] /\ sid' = s
      /\ move' = IF op.kind = "move" THEN NoMove ELSE move
      /\ held' = IF op.track = held THEN "none" ELSE held
      /\ Answered(outcome) \in {"running", "queued", "exited"}
  BY RecordAssumption DEF Committed, Answered
<1>2. /\ s \in Sessions /\ op.track \in Tracks /\ op.retire \in Ref
      /\ s \notin Made(rec)
  <2>1. /\ s \in Sessions /\ op.track \in Tracks /\ op.retire \in Ref
        /\ \A t \in Made(rec) : t < s
    BY <1>0, IdleIs DEF OpOK, StartKinds
  <2> HIDE DEF s
  <2>2. ~(s < s)
    BY <2>1 DEF Sessions
  <2> QED  BY <2>1, <2>2
<1>3. new.status \in {"running", "queued", "exited"} /\ new.track = op.track
  BY <1>1 DEF StatusFor
<1>4. r \in Tables /\ Settles(rec, r)
  BY <1>0, <1>2, RetireFacts DEF Settles
<1> HIDE DEF new, r, s
<1>5. /\ \A t \in Sessions : t # s => rec'[t] = r[t]
      /\ rec'[s] = new
  BY <1>1, <1>2, <1>4 DEF Tables
<1>6. Live' \subseteq {s} /\ HasRow'
  <2>1. row'[s] = Answered(outcome) /\ \A t \in Sessions : t # s => row'[t] = "none"
    BY <1>1, <1>2 DEF NoRows
  <2>2. s \in Rows'
    BY <1>1, <1>2, <2>1 DEF Rows
  <2> QED  BY <1>1, <1>2, <2>1, <2>2 DEF Live, HasRow
<1>7. Made(rec') = Made(rec) \cup {s}
  BY <1>2, <1>3, <1>4, <1>5 DEF Made, Settles
<1>8. ASSUME NEW track, track # op.track
      PROVE  LatestOn(rec', track) = LatestOn(rec, track)
  <2>1. OnTrack(rec', track) = OnTrack(rec, track)
    BY <1>2, <1>3, <1>4, <1>5, <1>7, <1>8 DEF OnTrack, Settles, Made
  <2> QED  BY <2>1 DEF LatestOn
<1>9. SidOK' /\ MoveFits' /\ RetireOK'
  BY <1>1, <1>6, <1>7, IdleIs DEF SidOK, MoveFits, RetireOK, PauseInv
<1>10. PausedOK'
  <2> SUFFICES ASSUME held' # "none" PROVE HeldPause(rec', LatestOn(rec', held'))
    BY DEF PausedOK
  <2> DEFINE m == LatestOn(rec, held)
  <2>1. held' = held /\ held # op.track /\ HeldPause(rec, m) /\ LatestOn(rec', held) = m
    BY <1>1, <1>8 DEF PauseInv, PausedOK
  <2>2. m \in Made(rec) /\ rec[m].track = held
    BY <1>0, <2>1, LatestIs DEF OnTrack, HeldPause
  <2> HIDE DEF m
  <2>3. m # s /\ m # op.retire /\ m \in Sessions
    BY <1>2, <2>1, <2>2, ReconciledIs DEF PauseInv, RetireOK, Made
  <2>4. rec'[m] = rec[m]
    BY <1>0, <1>2, <1>5, <2>3, RetireFacts DEF r
  <2> QED  BY <2>1, <2>4 DEF HeldPause
<1>11. pass'.stage \in {"prepare", "start", "keep", "find", "spawn"} =>
         pass' = pass /\ op.kind \in {"move", "resume"}
  BY DEF PassAfter, DonePass, StartKinds
<1>12. PassFits'
  <2> SUFFICES ASSUME pass' = pass, op.kind \in {"move", "resume"},
                      pass.stage \in {"prepare", "start", "keep"}
               PROVE  PassFits'
    BY <1>11 DEF PassFits
  <2> DEFINE p == pass.s
             track == rec[p].track
  <2>1. p \in Sessions
    BY PassIs
  <2>2. /\ rec[p].status \in {"suspended", "exited", "orphaned"} /\ ~HeldPause(rec, p)
        /\ pass.sid # NoSession => pass.sid \in Made(rec)
        /\ pass.newest /\ rec[p].conv # NoSession =>
             rec[p].status = "exited" \/ LatestOn(rec, track) = p
    BY DEF PassFits, PauseInv
  <2> HIDE DEF p
  <2>3. p # s /\ p # NoSession
    BY <1>2, <2>1, <2>2, ReconciledIs DEF Made
  <2>4. /\ rec'[p].conv = rec[p].conv /\ rec'[p].track = track
        /\ rec'[p].status = rec[p].status \/ rec'[p].status = "exited"
        /\ p = op.retire => rec'[p].status = "exited"
        /\ rec'[p].status # "exited" => rec'[p] = rec[p]
    BY <1>0, <1>2, <1>5, <2>1, <2>2, <2>3, RetiredIs DEF r
  <2>5. ~HeldPause(rec', p)
    BY <2>2, <2>4 DEF HeldPause
  <2>6. pass.sid # NoSession => pass.sid \in Made(rec') \ Live' /\ sid' # pass.sid
    BY <1>1, <1>2, <1>6, <1>7, <2>2
  <2>7. ASSUME pass.newest, rec'[p].conv # NoSession, rec'[p].status # "exited"
        PROVE  LatestOn(rec', track) = p
    <3>1. LatestOn(rec, track) = p /\ p # op.retire
      BY <2>2, <2>4, <2>7
    <3>2. Eligible(rec, p)
      BY <2>2, <2>3, <2>4, <2>7 DEF Eligible
    <3>3. track # op.track
      BY <3>1, <3>2 DEF PauseInv, RetireOK
    <3> QED  BY <1>8, <3>1, <3>3
  <2> HIDE DEF track
  <2> QED  BY <2>2, <2>4, <2>5, <2>6, <2>7 DEF PassFits, p
<1>13. CardShows' /\ SpawnFits'
  BY <1>6, <1>11 DEF CardShows, SpawnFits, PauseInv
<1> QED  BY <1>9, <1>10, <1>12, <1>13 DEF PauseInv

(* One that throws undoes none: recovery retires no paused record. *)
LEMMA ThrownPauses ==
  ASSUME Inv, PauseInv, op.kind \in StartKinds, Thrown,
         pass' = PassAfter(op.kind), op' = Idle, column' = column
  PROVE  PauseInv'
<1>0. rec \in Tables /\ OpOK(op, rec, move) /\ op # Idle /\ MoveOK
  BY InvFacts, IdleIs
<1>1. /\ UNCHANGED <<row, placeholder, sid, held>>
      /\ rec' = IF op.kind = "recovery" THEN Retire(rec, op.retire) ELSE rec
      /\ move' = IF op.kind = "move" THEN [move EXCEPT !.failed = TRUE] ELSE move
  BY DEF Thrown, registryVars
<1>2. op.retire \in Ref /\ (op.kind = "move" => move # NoMove)
  BY <1>0, IdleIs DEF OpOK, StartKinds
<1>3. Settles(rec, rec') /\ SamePauses(rec, rec')
  <2> DEFINE s == op.retire
  <2>1. op.kind = "recovery" => ~HeldPause(rec, s) /\ rec' = Retire(rec, s)
    BY <1>1 DEF PauseInv, RetireOK
  <2>2. op.kind # "recovery" => rec' = rec
    BY <1>1
  <2>3. s \in Ref
    BY <1>2
  <2> HIDE DEF s
  <2>4. ~HeldPause(rec, s) => Settles(rec, Retire(rec, s)) /\ SamePauses(rec, Retire(rec, s))
    BY <1>0, <2>3, RetireFacts, RetirePauses
  <2> QED  BY <1>0, <2>1, <2>2, <2>4, SameTable
<1>4. Live' = Live /\ (HasRow => HasRow')
  BY <1>1, RowsSame
<1>5. (move # NoMove => move' # NoMove /\ move'.to = move.to) /\ (move = NoMove => move' = NoMove)
  BY <1>0, <1>1, <1>2 DEF MoveOK, NoMove
<1>6. /\ pass'.stage \in {"prepare", "start", "keep", "find", "spawn"} =>
           pass' = pass /\ rec' = rec
      /\ Rests(pass) => Rests(pass')
  <2>1. CASE op.kind = "recovery"
    BY <2>1 DEF PassAfter, PauseInv, RetireOK, Rests
  <2>2. CASE op.kind = "auto"
    BY <2>2 DEF PassAfter, DonePass, Rests
  <2>3. CASE op.kind \in {"move", "resume"}
    BY <1>1, <2>3 DEF PassAfter
  <2> QED  BY <2>1, <2>2, <2>3 DEF StartKinds
<1>7. SidOK' /\ PausedOK' /\ SpawnFits' /\ CardShows'
  BY <1>1, <1>3, <1>4, <1>5, <1>6, SidKept, PausedKept, SpawnKept, CardKept DEF PauseInv
<1>8. MoveFits' /\ RetireOK'
  BY <1>1, <1>4, <1>5, IdleIs DEF MoveFits, RetireOK, PauseInv
<1>9. PassFits'
  <2>1. CASE pass'.stage \in {"prepare", "start", "keep"}
    BY <1>0, <1>1, <1>3, <1>4, <1>6, <2>1, SameTable, FitsKept DEF PauseInv
  <2>2. CASE pass'.stage \notin {"prepare", "start", "keep"}
    BY <2>2 DEF PassFits
  <2> QED  BY <2>1, <2>2
<1> QED  BY <1>7, <1>8, <1>9 DEF PauseInv

(* A pause is written before its session goes down. *)
LEMMA PausePauses ==
  ASSUME Inv, PauseInv, Pause
  PROVE  PauseInv'
<1> DEFINE s == Reconciled
           r == SuspendWrites(rec, s, "user")
<1>1. /\ UNCHANGED <<column, placeholder, op, move, pass>>
      /\ sid' = NoSession /\ s # NoSession /\ op = Idle
      /\ rec' = MarkExited(SuspendWrites(rec, OwnRecord(s), "user"), s, TRUE)
      /\ row' = [row EXCEPT ![s] = "suspended"]
      /\ held' = IF HeldPause(SuspendWrites(rec, OwnRecord(s), "user"), OwnRecord(s))
                 THEN SuspendWrites(rec, OwnRecord(s), "user")[OwnRecord(s)].track ELSE held
  BY DEF Pause, Gesture, Free
<1>2. /\ s \in Sessions /\ s \in Ref /\ Live = {s} /\ OwnRecord(s) = s /\ Latest(rec) = s
      /\ Busy(rec, s) /\ rec \in Tables /\ Types
  BY <1>1, LiveOne, ReconciledIs, InvFacts
<1>3. Settles(rec, r) /\ r \in Tables /\ \A t \in Sessions : t # s => r[t] = rec[t]
  BY <1>2, SuspendFacts DEF Settles
<1>4. /\ rec' = MarkExited(r, s, TRUE)
      /\ held' = IF HeldPause(r, s) THEN r[s].track ELSE held
  BY <1>1, <1>2
<1> HIDE DEF s, r
<1>5. /\ Settles(r, rec') /\ SameAtRest(r, rec')
      /\ \A t \in Sessions : t # s => rec'[t] = r[t]
  BY <1>2, <1>3, <1>4, MarkExitedFacts, MarkExitedPauses
<1>6. Settles(rec, rec') /\ SameAtRest(rec, rec')
  BY <1>2, <1>3, <1>5, SettlesTwice DEF SameAtRest
<1>7. HasRow' /\ Live' \subseteq Live
  <2>1. HasRow'
    BY <1>1, <1>2, RowStays
  <2> QED  BY <1>1, <1>2, <2>1 DEF Types, Live
<1>8. PausedOK'
  <2>1. CASE HeldPause(r, s)
    <3> DEFINE track == r[s].track
    <3>1. rec'[s] = r[s] /\ held' = track
      BY <1>2, <1>4, <1>5, <2>1 DEF SameAtRest, HeldPause, Busy
    <3>2. s \in OnTrack(rec, track)
      BY <1>2, <1>3 DEF OnTrack, Made, Settles, Busy
    <3> HIDE DEF track
    <3>3. LatestOn(rec, track) \in OnTrack(rec, track) /\ s <= LatestOn(rec, track)
          /\ \A t \in Made(rec) : t <= s
      <4>1. /\ \A t \in OnTrack(rec, track) : t <= LatestOn(rec, track)
            /\ LatestOn(rec, track) # NoSession => LatestOn(rec, track) \in OnTrack(rec, track)
            /\ \A t \in Made(rec) : t <= s
        BY <1>2, LatestIs
      <4>2. LatestOn(rec, track) # NoSession
        BY <3>2, <4>1, <1>2 DEF Sessions, NoSession
      <4> QED  BY <3>2, <4>1, <4>2
    <3>4. LatestOn(rec, track) = s
      <4> DEFINE m == LatestOn(rec, track)
      <4>1. m \in Sessions /\ s <= m /\ m <= s
        BY <3>3 DEF OnTrack, Made
      <4> HIDE DEF m
      <4>2. m = s
        BY <1>2, <4>1 DEF Sessions
      <4> QED  BY <4>2 DEF m
    <3>5. LatestOn(rec', track) = s
      BY <1>2, <1>6, <3>4, SameLatest
    <3> QED  BY <2>1, <3>1, <3>5 DEF PausedOK, HeldPause
  <2>2. CASE ~HeldPause(r, s) /\ held # "none"
    <3> DEFINE m == LatestOn(rec, held)
    <3>1. HeldPause(rec, m) /\ m \in Sessions /\ held' = held
      BY <1>2, <1>4, <2>2, LatestIs DEF PauseInv, PausedOK, HeldPause, Ref
    <3>2. LatestOn(rec', held) = m
      BY <1>2, <1>6, SameLatest
    <3> HIDE DEF m
    <3>3. rec'[m] = rec[m]
      BY <1>6, <3>1 DEF SameAtRest, HeldPause, Busy
    <3> QED  BY <3>1, <3>2, <3>3 DEF PausedOK, HeldPause
  <2>3. CASE ~HeldPause(r, s) /\ held = "none"
    BY <1>4, <2>3 DEF PausedOK
  <2> QED  BY <2>1, <2>2, <2>3
<1>9. SidOK' /\ MoveFits' /\ RetireOK'
  BY <1>1, IdleIs DEF SidOK, MoveFits, RetireOK, PauseInv
<1>10. PassFits'
  BY <1>1, <1>6, <1>7, FitsKept DEF PauseInv
<1>11. CardShows' /\ SpawnFits'
  BY <1>1, <1>7 DEF CardShows, SpawnFits, PauseInv
<1> QED  BY <1>8, <1>9, <1>10, <1>11 DEF PauseInv

(* What the pass that resumes gathers. *)
LEMMA OrphanedIs ==
  ASSUME NEW r \in Tables, NEW t \in Sessions
  PROVE  /\ ~Busy(r, t) => Orphaned(r)[t] = r[t]
         /\ Orphaned(r)[t].track = r[t].track
         /\ HeldPause(Orphaned(r), t) => HeldPause(r, t)
<1>1. Orphaned(r)[t] =
        IF r[t].status \in {"running", "queued"} THEN [r[t] EXCEPT !.status = "orphaned"] ELSE r[t]
  BY DEF Orphaned
<1>2. [r[t] EXCEPT !.status = "orphaned"].track = r[t].track
      /\ [r[t] EXCEPT !.status = "orphaned"].status = "orphaned"
  BY DEF Tables, Record
<1> QED  BY <1>1, <1>2 DEF Busy, HeldPause

(* The newest of a track's records, if it is gathered, is the one kept. *)
LEMMA NewestIsKept ==
  ASSUME NEW r \in Tables, NEW m \in Gathered(r), m = LatestOn(r, r[m].track)
  PROVE  /\ m = Largest({g \in Gathered(r) : r[g].track = r[m].track})
         /\ r[m].status = "suspended" => Deduplicated(r)[m] = r[m]
<1> DEFINE track == r[m].track
           G == {g \in Gathered(r) : r[g].track = track}
<1>1. m \in Sessions /\ m \in G
  BY DEF Gathered, Made
<1>2. G \in SUBSET Sessions /\ G \subseteq OnTrack(r, track)
  BY DEF Gathered, Made, OnTrack
<1>3. \A t \in OnTrack(r, track) : t <= m
  BY LatestIs
<1> HIDE DEF G, track
<1>4. Largest(G) \in G /\ m <= Largest(G) /\ Largest(G) <= m
  BY <1>1, <1>2, <1>3, LargestIs
<1>5. m = Largest(G)
  <2> DEFINE l == Largest(G)
  <2>1. l \in Sessions /\ m <= l /\ l <= m
    BY <1>2, <1>4
  <2> HIDE DEF l
  <2>2. m = l
    BY <1>1, <2>1 DEF Sessions
  <2> QED  BY <2>2 DEF l
<1>6. NewestOf(r, m)
  BY <1>5 DEF NewestOf, G, track
<1> QED  BY <1>1, <1>5, <1>6 DEF Deduplicated, G, track

(* Gathering keeps a paused record, whatever it retires beside it. *)
LEMMA GatherPauses ==
  ASSUME Inv, PauseInv, NEW autoResume, Gather(autoResume), Settles(rec, rec')
  PROVE  PauseInv'
<1> DEFINE found == Orphaned(rec)
           r == Deduplicated(found)
           s == Largest({g \in Gathered(found) : found[g].track = Track(column)})
           m == LatestOn(rec, held)
<1>0. rec \in Tables /\ column \in Columns /\ sid \in Ref
  BY InvFacts
<1>1. /\ UNCHANGED <<column, op, move, held>> /\ pass.stage = "gather"
      /\ \/ s = NoSession /\ GatherLeaves(r) /\ pass' = [stage |-> "discover"]
         \/ /\ s # NoSession /\ column \notin AutoSpawn /\ r[s].status = "orphaned"
            /\ GatherLeaves(Retire(r, s)) /\ pass' = [stage |-> "discover"]
         \/ s # NoSession /\ KeepsResumable(r, s) /\ pass' = [stage |-> "discover"]
         \/ /\ s # NoSession /\ ~HeldPause(r, s) /\ GatherLeaves(r)
            /\ pass' = [stage |-> "prepare", s |-> s, status |-> r[s].status,
                        sid |-> sid, column |-> column, conv |-> NoSession,
                        newest |-> s = LatestOn(r, r[s].track)]
  BY DEF Gather, boardVars
<1>2. op = Idle /\ move = NoMove /\ Live = {}
  BY <1>1, InvFacts, NoRowsIs DEF QuietOK
<1>3. Settles(rec, found) /\ found \in Tables
  BY <1>0, OrphanedFacts DEF Settles
<1>4. Settles(found, r) /\ r \in Tables
  BY <1>3, DeduplicatedFacts DEF Settles
<1>5. s \in Ref /\ (s # NoSession => s \in Gathered(found) /\ found[s].track = Track(column))
  <2> DEFINE G == {g \in Gathered(found) : found[g].track = Track(column)}
  <2>1. G \in SUBSET Sessions
    BY DEF Gathered, Made
  <2>2. NoSession \notin Sessions
    BY ReconciledIs
  <2>3. \A g \in G : g \in Gathered(found) /\ found[g].track = Track(column)
    OBVIOUS
  <2> HIDE DEF G, found
  <2>4. Largest(G) \in Ref /\ (Largest(G) # NoSession => Largest(G) \in G)
    BY <2>1, <2>2, LargestIs
  <2> QED  BY <2>3, <2>4 DEF G
<1>6. held # "none" =>
        /\ m \in Sessions /\ HeldPause(rec, m) /\ r[m] = rec[m]
        /\ Track(column) = held => s = m
  <2> SUFFICES ASSUME held # "none"
               PROVE  /\ m \in Sessions /\ HeldPause(rec, m) /\ r[m] = rec[m]
                      /\ Track(column) = held => s = m
    OBVIOUS
  <2>1. HeldPause(rec, m)
    BY DEF PauseInv, PausedOK
  <2>2. m \in OnTrack(rec, held) /\ LatestOn(found, held) = m
    BY <1>0, <1>3, <2>1, LatestIs, SameLatest DEF HeldPause
  <2> HIDE DEF m, found
  <2>3. m \in Sessions /\ m \in Made(rec) /\ rec[m].track = held
    BY <2>2 DEF OnTrack, Made
  <2>4. found[m] = rec[m]
    BY <1>0, <2>1, <2>3, OrphanedIs DEF HeldPause, Busy, found
  <2>5. m \in Gathered(found) /\ found[m].track = held /\ found[m].status = "suspended"
    BY <2>1, <2>3, <2>4 DEF Gathered, Made, HeldPause
  <2>6. /\ m = Largest({g \in Gathered(found) : found[g].track = held})
        /\ Deduplicated(found)[m] = found[m]
    BY <1>3, <2>2, <2>5, NewestIsKept
  <2> QED  BY <2>1, <2>3, <2>4, <2>6
<1>7. s # NoSession =>
        /\ s \in Sessions /\ r[s].track = Track(column)
        /\ r[s].status \in {"suspended", "exited", "orphaned"}
  <2> SUFFICES ASSUME s # NoSession
               PROVE  /\ s \in Sessions /\ r[s].track = Track(column)
                      /\ r[s].status \in {"suspended", "exited", "orphaned"}
    OBVIOUS
  <2>1. /\ s \in Sessions /\ found[s].status \in {"suspended", "exited", "orphaned"}
        /\ NewestOf(found, s) /\ s \in Gathered(found) /\ found[s].track = Track(column)
    BY <1>5 DEF Gathered, Made, Interrupted, NewestOf
  <2> HIDE DEF s, found
  <2>2. Deduplicated(found)[s] = found[s]
    BY <2>1 DEF Deduplicated
  <2> QED  BY <2>1, <2>2
<1> HIDE DEF found, r, s, m
<1>8. /\ KeepsResumable(r, s) => HasRow' /\ sid' = NoSession
      /\ GatherLeaves(r) \/ GatherLeaves(Retire(r, s)) => sid' = sid
  BY DEF KeepsResumable, ShowsPlaceholder, HasRow, Rows, GatherLeaves
<1>9. SidOK'
  BY <1>1, <1>8, SidKept DEF PauseInv
<1>10. PausedOK'
  <2> SUFFICES ASSUME held # "none" PROVE HeldPause(rec', LatestOn(rec', held))
    BY <1>1 DEF PausedOK
  <2>1. LatestOn(rec', held) = m
    BY <1>0, SameLatest DEF m
  <2>2. HeldPause(r, m) /\ m \in Sessions
    BY <1>6 DEF HeldPause
  <2>3. CASE rec' = r
    BY <2>1, <2>2, <2>3
  <2>4. CASE s # NoSession /\ r[s].status = "orphaned" /\ rec' = Retire(r, s)
    <3>1. ~HeldPause(r, s)
      BY <2>4 DEF HeldPause
    <3>2. SamePauses(r, rec')
      BY <1>4, <1>5, <2>4, <3>1, RetirePauses
    <3> QED  BY <2>1, <2>2, <3>2 DEF SamePauses
  <2>5. CASE rec' = MarkSuspended(r, s, "system")
    BY <1>4, <1>5, <2>1, <2>2, <2>5, MarkSuspendedPauses DEF SamePauses
  <2> QED  BY <1>1, <2>3, <2>4, <2>5 DEF GatherLeaves, KeepsResumable
<1>11. MoveFits' /\ RetireOK' /\ SpawnFits'
  BY <1>1, <1>2, IdleIs DEF MoveFits, RetireOK, SpawnFits
<1>12. column \in AutoSpawn /\ Track(column) = held => HasRow'
  <2> SUFFICES ASSUME column \in AutoSpawn, Track(column) = held PROVE HasRow'
    OBVIOUS
  <2>1. s = m /\ s # NoSession /\ HeldPause(r, s)
    BY <1>0, <1>6, NoneIsNoTrack, ReconciledIs DEF HeldPause
  <2> QED  BY <1>1, <1>8, <2>1
<1>13. CardShows'
  BY <1>1, <1>12 DEF CardShows
<1>14. PassFits'
  <2> SUFFICES ASSUME s # NoSession, ~HeldPause(r, s), GatherLeaves(r),
                      pass' = [stage |-> "prepare", s |-> s, status |-> r[s].status,
                               sid |-> sid, column |-> column, conv |-> NoSession,
                               newest |-> s = LatestOn(r, r[s].track)]
               PROVE  PassFits'
    BY <1>1 DEF PassFits
  <2>1. rec' = r /\ Live' = {} /\ pass'.s = s /\ pass'.sid = sid
        /\ (pass'.newest => LatestOn(r, r[s].track) = s)
    BY <1>2 DEF GatherLeaves, Live
  <2>2. sid # NoSession => sid \in Made(rec')
    BY <1>0, SameLatest DEF PauseInv, SidOK
  <2>3. held # r[s].track
    <3>1. CASE held = "none"
      BY <1>0, <1>7, <3>1, NoneIsNoTrack
    <3>2. CASE held # "none" /\ held = Track(column)
      BY <1>6, <3>2 DEF HeldPause
    <3> QED  BY <1>7, <3>1, <3>2
  <2> QED  BY <1>1, <1>7, <2>1, <2>2, <2>3 DEF PassFits
<1> QED  BY <1>9, <1>10, <1>11, <1>13, <1>14 DEF PauseInv

(* A preparation retires no paused record. *)
LEMMA PreparePauses ==
  ASSUME Inv, PauseInv, NEW ok, Prepare(ok)
  PROVE  PauseInv'
<1> DEFINE s == pass.s
           m == LatestOn(rec, rec[s].track)
<1>0. /\ rec \in Tables /\ s \in Sessions /\ s \in Ref
      /\ pass \in [stage : {"prepare", "start", "keep"}, s : Sessions, status : Statuses,
                   sid : Ref, column : Columns, conv : Ref, newest : BOOLEAN]
  BY InvFacts, PassIs DEF Prepare, Ref
<1> DEFINE conv == IF Eligible(rec, m) THEN rec[m].conv ELSE NoSession
<1>1. /\ UNCHANGED <<sid, column, row, placeholder, op, move, held>> /\ pass.stage = "prepare"
      /\ \/ rec' = rec /\ pass' = [pass EXCEPT !.stage = "start", !.conv = conv]
         \/ rec' = rec /\ pass' = [pass EXCEPT !.stage = "keep"]
         \/ rec' = Retire(rec, s) /\ pass' = [stage |-> "discover"]
  BY DEF Prepare, registryVars, boardVars, ghostVars
<1>2. ~HeldPause(rec, s)
  BY <1>1 DEF PauseInv, PassFits
<1> HIDE DEF s, m, conv
<1>3. /\ Settles(rec, rec') /\ SamePauses(rec, rec')
      /\ \A t \in Sessions : Eligible(rec', t) <=> Eligible(rec, t)
  <2>1. CASE rec' = rec
    BY <1>0, <2>1, SameTable
  <2>2. CASE rec' = Retire(rec, s)
    <3>1. Settles(rec, Retire(rec, s))
      BY <1>0, RetireFacts
    <3>2. /\ SamePauses(rec, Retire(rec, s))
          /\ \A t \in Sessions : Eligible(Retire(rec, s), t) <=> Eligible(rec, t)
      BY <1>0, <1>2, RetirePauses
    <3> QED  BY <2>2, <3>1, <3>2
  <2> QED  BY <1>1, <2>1, <2>2
<1>4. Live' = Live /\ (HasRow => HasRow')
  BY <1>1, RowsSame
<1>5. /\ ~Rests(pass) /\ pass'.stage \in {"start", "keep", "discover"}
      /\ \/ pass' = [stage |-> "discover"]
         \/ /\ rec' = rec /\ pass'.stage \in {"start", "keep"}
            /\ pass'.s = pass.s /\ pass'.sid = pass.sid /\ pass'.newest = pass.newest
  <2>1. CASE rec' = rec /\ pass' = [pass EXCEPT !.stage = "start", !.conv = conv]
    BY <1>0, <1>1, <2>1 DEF Rests
  <2>2. CASE rec' = rec /\ pass' = [pass EXCEPT !.stage = "keep"]
    BY <1>0, <1>1, <2>2 DEF Rests
  <2>3. CASE pass' = [stage |-> "discover"]
    BY <1>1, <2>3 DEF Rests
  <2> QED  BY <1>1, <2>1, <2>2, <2>3
<1>6. SidOK' /\ PausedOK' /\ MoveFits' /\ CardShows' /\ SpawnFits'
  BY <1>1, <1>3, <1>4, <1>5, SidKept, PausedKept, MoveKept, CardKept, SpawnKept DEF PauseInv
<1>7. RetireOK'
  <2> SUFFICES ASSUME op.kind \in StartKinds PROVE RetireOK'
    BY <1>1 DEF RetireOK
  <2>1. op.kind \notin {"recovery", "auto"} /\ op.kind \in {"move", "resume"}
    BY <1>1 DEF PauseInv, RetireOK, StartKinds
  <2> DEFINE l == LatestOn(rec, op.track)
  <2>2. /\ op.retire # NoSession => rec[op.retire].track = op.track
        /\ Eligible(rec, l) => op.retire = l
    BY <2>1 DEF PauseInv, RetireOK
  <2>3. l \in Ref /\ LatestOn(rec', op.track) = l
    BY <1>0, <1>3, LatestIs, SameLatest
  <2>4. op.retire \in Ref
    BY <2>1, InvFacts, IdleIs DEF OpOK, StartKinds
  <2> HIDE DEF l
  <2>5. Eligible(rec', l) => Eligible(rec, l)
    BY <1>3, <2>3 DEF Eligible, Ref
  <2>6. op.retire # NoSession => rec'[op.retire].track = op.track
    BY <1>3, <2>2, <2>4 DEF Settles, Ref
  <2> QED  BY <1>1, <2>1, <2>2, <2>3, <2>5, <2>6 DEF RetireOK
<1>8. PassFits'
  <2>1. CASE pass' = [stage |-> "discover"]
    BY <2>1 DEF PassFits
  <2>2. CASE /\ rec' = rec /\ pass'.stage \in {"start", "keep"}
             /\ pass'.s = pass.s /\ pass'.sid = pass.sid /\ pass'.newest = pass.newest
    BY <1>1, <1>4, <2>2 DEF PassFits, PauseInv
  <2> QED  BY <1>5, <2>1, <2>2
<1> QED  BY <1>6, <1>7, <1>8 DEF PauseInv

(* Nor does a record kept as it was found undo a pause. *)
LEMMA KeepPauses ==
  ASSUME Inv, PauseInv, Free, pass.stage \in {"start", "keep"}, KeepsIfUnchanged,
         UNCHANGED <<column, move, held>>
  PROVE  PauseInv'
<1> DEFINE s == pass.s
<1>0. rec \in Tables /\ s \in Sessions /\ s \in Ref /\ NoSession \notin Live
  BY InvFacts, PassIs, ReconciledIs DEF Ref
<1>1. /\ op' = Idle /\ pass' = [stage |-> "discover"]
      /\ \/ rec' = rec /\ row' = row /\ placeholder' = placeholder /\ sid' = sid
         \/ KeepsResumable(rec, s)
  BY DEF KeepsIfUnchanged
<1> HIDE DEF s
<1>2. /\ Settles(rec, rec') /\ SamePauses(rec, rec') /\ (HasRow => HasRow')
      /\ sid' \in {sid, NoSession}
  <2>1. CASE rec' = rec /\ row' = row /\ placeholder' = placeholder /\ sid' = sid
    BY <1>0, <2>1, SameTable, RowsSame
  <2>2. CASE KeepsResumable(rec, s)
    <3>1. HasRow' /\ sid' = NoSession /\ (rec' = rec \/ rec' = MarkSuspended(rec, s, "system"))
      BY <2>2 DEF KeepsResumable, ShowsPlaceholder, HasRow, Rows
    <3> QED  BY <1>0, <3>1, SameTable, MarkSuspendedFacts, MarkSuspendedPauses
  <2> QED  BY <1>1, <2>1, <2>2
<1>3. ~Rests(pass)
  BY DEF Rests
<1>4. SidOK' /\ PausedOK' /\ MoveFits' /\ CardShows' /\ SpawnFits'
  BY <1>1, <1>2, <1>3, SidKept, PausedKept, MoveKept, CardKept, SpawnKept DEF PauseInv
<1>5. RetireOK' /\ PassFits'
  BY <1>1, IdleIs DEF RetireOK, PassFits
<1> QED  BY <1>4, <1>5 DEF PauseInv

(* A recovered start retires a record that no pause rests on. *)
LEMMA StartRecoveredPauses ==
  ASSUME Inv, PauseInv, Keep \/ StartRecovered
  PROVE  PauseInv'
<1>0. rec \in Tables
  BY InvFacts
<1>1. /\ UNCHANGED <<column, move, held>> /\ Free /\ pass.stage \in {"start", "keep"}
      /\ \/ KeepsIfUnchanged
         \/ /\ Starts("recovery", rec[pass.s].track, pass.conv, pass.s)
            /\ pass' = [stage |-> "starting"]
            /\ UNCHANGED <<rec, row, placeholder, sid>>
  BY DEF Keep, StartRecovered, boardVars, ghostVars
<1>2. CASE /\ Starts("recovery", rec[pass.s].track, pass.conv, pass.s)
           /\ pass' = [stage |-> "starting"]
           /\ UNCHANGED <<rec, row, placeholder, sid>>
  <2> DEFINE s == pass.s
             track == rec[s].track
             conv == pass.conv
  <2>1. s \in Ref /\ conv \in Ref /\ track \in Tracks
    BY <1>0, <1>1, PassIs DEF Tables, Record, Ref
  <2>2. Starts("recovery", track, conv, s) /\ "recovery" \in StartKinds /\ ~HeldPause(rec, s)
    BY <1>1, <1>2 DEF StartKinds, PauseInv, PassFits
  <2>3. (HasRow => HasRow') /\ ~Rests(pass)
    BY <1>1, <1>2, RowsSame DEF Rests
  <2>4. SidOK' /\ PausedOK' /\ MoveFits' /\ CardShows' /\ SpawnFits'
    BY <1>0, <1>1, <1>2, <2>3, SameTable, SidKept, PausedKept, MoveKept, CardKept, SpawnKept
    DEF PauseInv
  <2>5. PassFits'
    BY <1>2 DEF PassFits
  <2> HIDE DEF conv, s
  <2>6. op'.kind = "recovery" /\ op'.track = track /\ op'.retire = s
    <3> HIDE DEF track
    <3> QED  BY <1>0, <2>1, <2>2, StartsFacts
  <2>7. RetireOK'
    BY <1>2, <2>2, <2>6 DEF RetireOK
  <2> QED  BY <2>4, <2>5, <2>7 DEF PauseInv
<1> QED  BY <1>1, <1>2, KeepPauses

(* The second pass finds a paused task's row, a move, or the pause: *)
LEMMA DiscoverPauses ==
  ASSUME Inv, PauseInv, Discover
  PROVE  PauseInv'
<1>0. rec \in Tables
  BY InvFacts
<1>1. /\ UNCHANGED <<rec, sid, column, row, placeholder, op, move, held>>
      /\ pass.stage = "discover"
      /\ \/ pass' = DonePass
         \/ column \in AutoSpawn /\ pass' = [stage |-> "find", sid |-> sid, column |-> column]
  BY DEF Discover, tableVars, registryVars, boardVars, ghostVars
<1>2. Live' = Live /\ (HasRow => HasRow') /\ ~Rests(pass)
  BY <1>1, RowsSame DEF Rests
<1>3. SidOK' /\ PausedOK' /\ MoveFits' /\ CardShows'
  BY <1>0, <1>1, <1>2, SameTable, SidKept, PausedKept, MoveKept, CardKept DEF PauseInv
<1>4. PassFits' /\ SpawnFits'
  BY <1>1 DEF PassFits, SpawnFits, DonePass
<1>5. RetireOK'
  BY <1>1 DEF RetireOK, PauseInv
<1> QED  BY <1>3, <1>4, <1>5 DEF PauseInv

(* it then shows the pause, *)
LEMMA FindPauses ==
  ASSUME Inv, PauseInv, NEW ok, Find(ok)
  PROVE  PauseInv'
<1>0. rec \in Tables /\ PassOK
  BY InvFacts
<1>1. /\ UNCHANGED <<rec, sid, column, op, move, held>> /\ pass.stage = "find"
      /\ (row' = row /\ placeholder' = placeholder) \/ (~HasRow /\ ShowsPlaceholder)
      /\ \/ pass' = DonePass
         \/ /\ ~HasRow /\ ~HeldPause(rec, Latest(rec)) /\ pass' = [pass EXCEPT !.stage = "spawn"]
            /\ row' = row /\ placeholder' = placeholder
  BY DEF Find, tableVars, boardVars, ghostVars
<1>2. (HasRow => HasRow') /\ ~Rests(pass)
  BY <1>1, RowsSame DEF Rests
<1>3. SidOK' /\ PausedOK' /\ MoveFits' /\ CardShows'
  BY <1>0, <1>1, <1>2, SameTable, SidKept, PausedKept, MoveKept, CardKept DEF PauseInv
<1>4. PassFits' /\ SpawnFits'
  <2>1. CASE pass' = DonePass
    BY <2>1 DEF PassFits, SpawnFits, DonePass
  <2>2. CASE pass' = [pass EXCEPT !.stage = "spawn"] /\ ~HeldPause(rec, Latest(rec))
    <3>1. pass'.stage = "spawn" /\ pass'.column = pass.column
      BY <1>0, <1>1, <2>2 DEF PassOK
    <3> QED  BY <1>1, <2>2, <3>1 DEF PassFits, SpawnFits, PauseInv
  <2> QED  BY <1>1, <2>1, <2>2
<1>5. RetireOK'
  BY <1>1 DEF RetireOK, PauseInv
<1> QED  BY <1>3, <1>4, <1>5 DEF PauseInv

(* and starts no agent of a task it has shown. *)
LEMMA StartFreshPauses ==
  ASSUME Inv, PauseInv, StartFresh
  PROVE  PauseInv'
<1>0. rec \in Tables /\ column \in Columns /\ PassOK
  BY InvFacts
<1>1. /\ UNCHANGED <<rec, sid, column, row, placeholder, move, held>> /\ pass.stage = "spawn"
      /\ \/ op' = Idle /\ pass' = DonePass
         \/ /\ Starts("auto", Track(column), NoSession, NoSession)
            /\ pass' = [pass EXCEPT !.stage = "spawning"]
  BY DEF StartFresh, tableVars, registryVars, boardVars, ghostVars
<1>2. (HasRow => HasRow') /\ ~Rests(pass)
  BY <1>1, RowsSame DEF Rests
<1>3. SidOK' /\ PausedOK' /\ MoveFits' /\ CardShows'
  BY <1>0, <1>1, <1>2, SameTable, SidKept, PausedKept, MoveKept, CardKept DEF PauseInv
<1>4. pass'.stage \in {"done", "spawning"} /\ (op' = Idle \/ pass'.stage = "spawning")
  BY <1>0, <1>1 DEF PassOK, DonePass
<1>5. PassFits' /\ SpawnFits'
  BY <1>4 DEF PassFits, SpawnFits
<1>6. RetireOK'
  <2>1. CASE op' = Idle
    BY <2>1, IdleIs DEF RetireOK
  <2>2. CASE Starts("auto", Track(column), NoSession, NoSession) /\ pass'.stage = "spawning"
    <3>1. "auto" \in StartKinds /\ NoSession \in Ref /\ Track(column) \in Tracks
      BY <1>0, TrackIs DEF StartKinds, Ref
    <3>2. op'.kind = "auto" /\ op'.retire = NoSession
      BY <1>0, <2>2, <3>1, StartsFacts
    <3> QED  BY <2>2, <3>2 DEF RetireOK
  <2> QED  BY <1>1, <1>4, <2>1, <2>2 DEF DonePass
<1> QED  BY <1>3, <1>5, <1>6 DEF PauseInv

(* Nothing is paused at the start. *)
LEMMA PauseInit == Init => PauseInv
<1> SUFFICES ASSUME Init PROVE PauseInv
  OBVIOUS
<1>1. SidOK /\ PausedOK /\ MoveFits
  BY DEF Init, SidOK, PausedOK, MoveFits
<1>2. RetireOK
  BY IdleIs DEF Init, RetireOK
<1>3. PassFits /\ CardShows /\ SpawnFits
  BY DEF Init, PassFits, CardShows, SpawnFits, DonePass, Rests
<1> QED  BY <1>1, <1>2, <1>3 DEF PauseInv

(* Every step keeps the invariant about pauses. *)
LEMMA PauseNext ==
  ASSUME ~LateRollbacks, Inv, Inv', PauseInv, [Next]_vars
  PROVE  PauseInv'
<1>1. CASE Launch
  BY <1>1, LaunchPauses
<1>2. CASE Users
  BY <1>2, MoveToPauses, ResumePauses, PausePauses, ResetPauses DEF Users
<1>3. CASE Agents
  BY <1>3, AgentsPauses
<1>4. CASE Passes
  <2>1. ASSUME NEW autoResume \in AutoResume, Gather(autoResume) PROVE PauseInv'
    BY <2>1, GatherStep, GatherPauses
  <2> QED
    BY <1>4, <2>1, StartRecoveredPauses, DiscoverPauses, StartFreshPauses, PreparePauses,
       FindPauses DEF Passes
<1>5. CASE Operations
  <2>1. ASSUME StartReturns PROVE PauseInv'
    <3>1. /\ op.kind \in StartKinds /\ pass' = PassAfter(op.kind) /\ op' = Idle /\ column' = column
          /\ (\E o \in Outcomes : Committed(o)) \/ Thrown
      BY <2>1 DEF StartReturns, StartKinds
    <3> QED  BY <3>1, CommitPauses, ThrownPauses
  <2> QED
    BY <1>5, <2>1, SuspendEndsPauses, MoveLandPauses, RollbackPauses, ResumeLandPauses,
       ResumePauses
    DEF Operations
<1>6. CASE Stops
  BY <1>6, StopPauses DEF Stops
<1>7. CASE UNCHANGED vars
  <2>1. UNCHANGED <<rec, sid, column, row, placeholder, op, move, pass, held>>
    BY <1>7 DEF vars, tableVars, registryVars, boardVars, ghostVars
  <2>2. (HasRow => HasRow') /\ Live' = Live
    BY <2>1, RowsSame
  <2>3. sid \in Live => HasRow'
    BY <2>1 DEF HasRow, Rows, Live
  <2> QED  BY <2>1, <2>2, <2>3, InvFacts, SameTable, GentleStep
<1> QED  BY <1>1, <1>2, <1>3, <1>4, <1>5, <1>6, <1>7 DEF Next

(* Only the startup passes start agents of their kinds. *)
LEMMA StartersAre ==
  ASSUME [Next]_vars, op.kind # op'.kind, op'.kind \in {"auto", "recovery"}
  PROVE  /\ op'.kind = "auto" => StartFresh
         /\ op'.kind = "recovery" => StartRecovered
<1>0. op' # op /\ op' # Idle
  BY IdleIs
<1>1. ~(UNCHANGED vars) /\ ~Launch /\ ~Stops
  BY <1>0 DEF vars, Launch, Stops, Crash, Quit, Down
<1>2. ~Users
  <2>1. ASSUME NEW c \in Columns, MoveTo(c) PROVE FALSE
    <3>1. \/ op' = Idle
          \/ op' = [kind |-> "suspend", s |-> Reconciled]
      BY <2>1 DEF MoveTo
    <3> QED  BY <1>0, <3>1
  <2> QED  BY <1>0, <2>1 DEF Users, Resume, Pause, CancelResume, Reset
<1>3. ~Agents
  BY <1>0 DEF Agents, Promote, Capture, AgentEnds
<1>4. ~Operations
  <2>1. ASSUME NEW kind \in {"move", "resume"}, NEW track, BoardStart(kind, track) PROVE FALSE
    BY <2>1 DEF BoardStart, Starts
  <2> QED
    BY <1>0, <2>1 DEF Operations, StartReturns, SuspendEnds, MoveLands, MoveFails, StaleMoveEnds,
                      ResumeLands, ResumeFails
<1>5. CASE Passes
  <2>1. \/ StartRecovered /\ Starts("recovery", rec[pass.s].track, pass.conv, pass.s)
        \/ StartFresh /\ Starts("auto", Track(column), NoSession, NoSession)
    BY <1>0, <1>5 DEF Passes, Gather, Prepare, Keep, KeepsIfUnchanged, StartRecovered, Discover,
                      Find, StartFresh
  <2> QED  BY <2>1 DEF Starts
<1> QED  BY <1>1, <1>2, <1>3, <1>4, <1>5 DEF Next

(* A pass starts no agent on a track that the user has paused: what the
   invariant says of the state in which it starts one. *)
LEMMA PausedIsSeen ==
  ASSUME Inv, PauseInv, [Next]_vars, PassStarts
  PROVE  op'.track # held
<1>0. rec \in Tables /\ column \in Columns
  BY InvFacts
<1>1. CASE StartsNow({"auto"})
  <2>1. StartFresh /\ op'.kind = "auto"
    BY <1>1, StartersAre DEF StartsNow
  <2>2. /\ StillToSpawn /\ Starts("auto", Track(column), NoSession, NoSession)
        /\ pass.stage = "spawn"
    BY <2>1, IdleIs DEF StartFresh
  <2>3. op'.track = Track(column) /\ ~HasRow /\ move = NoMove /\ column = pass.column
    BY <2>2 DEF Starts, StillToSpawn, BoardIsOn
  <2>4. column \in AutoSpawn /\ ~Rests(pass)
    BY <2>2, <2>3 DEF PauseInv, SpawnFits, Rests
  <2>5. held = Track(column) => HeldPause(rec, Latest(rec)) /\ held # "none"
    BY <1>0, <2>3, <2>4, NoneIsNoTrack DEF PauseInv, CardShows
  <2> QED  BY <2>2, <2>3, <2>5 DEF PauseInv, SpawnFits
<1>2. CASE StartsNow({"recovery"}) /\ ShowsAResume
  <2> DEFINE s == pass.s
             track == rec[s].track
  <2>1. StartRecovered /\ op'.kind = "recovery"
    BY <1>2, StartersAre DEF StartsNow
  <2>2. /\ StillToStart /\ Starts("recovery", track, pass.conv, s) /\ pass.stage = "start"
    BY <2>1, IdleIs DEF StartRecovered, KeepsIfUnchanged
  <2>3. op'.track = track /\ rec[s].status = pass.status /\ sid = pass.sid
    BY <2>2 DEF Starts, StillToStart, RecordUnchanged
  <2>4. s \in Sessions /\ track \in Tracks
    BY <1>0, <2>2, PassIs DEF Tables, Record
  <2>5. /\ ~HeldPause(rec, s)
        /\ held = track /\ pass.sid # NoSession => sid # pass.sid
        /\ pass.newest /\ rec[s].conv # NoSession =>
             rec[s].status = "exited" \/ LatestOn(rec, track) = s
    BY <2>2 DEF PauseInv, PassFits
  <2>6. ASSUME held = track PROVE FALSE
    <3>1. HeldPause(rec, LatestOn(rec, track))
      BY <2>4, <2>6, NoneIsNoTrack DEF PauseInv, PausedOK
    <3>2. pass.newest /\ rec[s].conv # NoSession /\ pass.status # "exited"
      BY <1>2, <2>3, <2>5, <2>6 DEF ShowsAResume
    <3> QED  BY <2>3, <2>5, <3>1, <3>2
  <2> QED  BY <2>3, <2>6
<1> QED  BY <1>1, <1>2 DEF PassStarts

(* A startup pass starts no agent on a track the user has paused, however
   many quits, crashes and launches there have been, and whatever the user
   did while it prepared the start; when a move's rollback finds no agent
   and no pass that came after it. *)
THEOREM PausedStaysPaused ==
  ASSUME ~LateRollbacks
  PROVE  Spec => PausedTrackStaysDown
<1>1. Inv /\ PauseInv /\ [Next]_vars => Inv' /\ PauseInv'
  BY InvNext, PauseNext
<1>2. Inv /\ PauseInv /\ [Next]_vars => [PassStarts => op'.track # held]_vars
  BY PausedIsSeen
<1> QED  BY <1>1, <1>2, InvInit, PauseInit, PTL DEF Spec, PausedTrackStaysDown

-----------------------------------------------------------------------------
(* Conversations.  The newest record of a conversation's track has it while *)
(* it is open, and then no record of an agent that ended by itself; when it *)
(* has one that ended, it is such a record (FateOK).  A pass that recovers  *)
(* takes the conversation of the record it looks at, if that is the newest  *)
(* of its track (LooksOK); and of a task the user leaves alone, it is the   *)
(* newest for as long as a conversation is open there (UntouchedOK).        *)
Newest(c) == LatestOn(rec, rec[c].track)

(* The record of an agent that ended by itself. *)
Over(r, s) == r[s].status = "exited" /\ ~r[s].bad

ConvOK ==
  \A s \in Made(rec) : rec[s].conv # NoSession =>
    rec[s].conv \in Made(rec) /\ rec[rec[s].conv].track = rec[s].track

FateOK ==
  \A c \in Sessions :
    /\ fate[c] \in {"open", "ended"} => c \in Made(rec)
    /\ fate[c] = "open" => rec[Newest(c)].conv = c /\ ~Over(rec, Newest(c))
    /\ fate[c] = "ended" /\ rec[Newest(c)].conv = c => Over(rec, Newest(c))

(* A record that says queued is none of a running agent, and one with its   *)
(* own conversation has not begun it. *)
QueuedOK ==
  \A s \in Sessions :
    rec[s].status = "queued" => row[s] # "running" /\ (rec[s].conv = s => fate[s] # "open")

StartOK ==
  op.kind \in StartKinds =>
    /\ op.resumes => op.conv \in Made(rec) /\ rec[op.conv].track = op.track
    /\ ~op.resumes => op.conv \in {NoSession, op.s}
    /\ op.kind = "auto" => ~op.resumes
    /\ /\ op.kind = "recovery"
       /\ op.retire = LatestOn(rec, op.track) /\ rec[op.retire].conv # NoSession
       => op.conv = rec[op.retire].conv

Looking(p) == p.stage \in {"prepare", "start", "keep"}

LooksOK ==
  Looking(pass) =>
    LET track == rec[pass.s].track IN
    /\ pass.conv # NoSession => pass.conv \in Made(rec) /\ rec[pass.conv].track = track
    /\ pass.stage = "start" /\ LatestOn(rec, track) = pass.s => pass.conv = rec[pass.s].conv
    /\ pass.status = "exited" => rec[pass.s].bad
    /\ pass.newest /\ pass.sid # NoSession /\ sid = pass.sid => LatestOn(rec, track) = pass.s

(* The open conversations of the track that the task's column is on. *)
OpenHere == {c \in Sessions : fate[c] = "open" /\ rec[c].track = Track(column)}

Untouched == ~touched /\ pass.stage \notin {"none", "gather"}

UntouchedOK ==
  Untouched =>
    /\ move = NoMove /\ ~resume /\ op.kind \in {"idle", "recovery", "auto"}
    /\ Looking(pass) =>
         /\ RecordUnchanged /\ column = pass.column /\ rec[pass.s].track = Track(column)
         /\ \A c \in OpenHere : Newest(c) = pass.s
    /\ pass.stage \in {"discover", "find", "spawn", "spawning"} /\ OpenHere # {} => HasRow
    /\ op.kind = "recovery" =>
         op.track = Track(column) /\ \A c \in OpenHere : Newest(c) = op.retire

FateInv == ConvOK /\ FateOK /\ QueuedOK /\ StartOK /\ LooksOK /\ UntouchedOK

(* What a write does to a record: it carries its conversation on, or drops  *)
(* one that is not open (any more). *)
Carries(r, q, n) == q[n].conv = r[n].conv /\ (Over(q, n) <=> Over(r, n))

Drops(r, q, f, n) ==
  /\ ~Over(r, n) /\ q[n].conv \in {r[n].conv, NoSession}
  /\ n = LatestOn(r, r[n].track) /\ r[n].conv # NoSession => f[r[n].conv] # "open"

(* The newest record of a track is one of it. *)
LEMMA NewestIs ==
  ASSUME NEW r \in Tables, NEW c \in Made(r)
  PROVE  LET n == LatestOn(r, r[c].track) IN
         n \in Made(r) /\ n \in Sessions /\ r[n].track = r[c].track
<1> DEFINE track == r[c].track
<1>1. c \in OnTrack(r, track) /\ c \in Sessions
  BY DEF OnTrack, Made
<1> HIDE DEF track
<1>2. LatestOn(r, track) # NoSession
  <2>1. c <= LatestOn(r, track)
    BY <1>1, LatestIs
  <2> QED  BY <1>1, <2>1 DEF Sessions, NoSession
<1>3. LatestOn(r, track) \in OnTrack(r, track)
  BY <1>2, LatestIs
<1> QED  BY <1>3 DEF OnTrack, Made, track

(* A session newer than all others is the newest of its track. *)
LEMMA TopIsNewest ==
  ASSUME NEW r \in Tables, NEW s \in Made(r), \A t \in Made(r) : t <= s
  PROVE  LatestOn(r, r[s].track) = s
<1> DEFINE n == LatestOn(r, r[s].track)
<1>1. n \in Made(r) /\ n \in Sessions /\ s \in Sessions /\ s <= n
  <2>1. s \in OnTrack(r, r[s].track)
    BY DEF OnTrack
  <2> QED  BY <2>1, NewestIs, LatestIs DEF Made
<1> HIDE DEF n
<1>2. n <= s
  BY <1>1
<1>3. n = s
  BY <1>1, <1>2 DEF Sessions
<1> QED  BY <1>3 DEF n

(* What keeps each part of the invariant. *)
LEMMA ConvKept ==
  ASSUME Inv, ConvOK, Settles(rec, rec'),
         \A s \in Sessions : rec'[s].conv \in {rec[s].conv, NoSession, s}
  PROVE  ConvOK'
<1>1. Made(rec') = Made(rec)
  BY InvFacts, SameLatest
<1> SUFFICES ASSUME NEW s \in Made(rec), rec'[s].conv # NoSession
             PROVE  rec'[s].conv \in Made(rec) /\ rec'[rec'[s].conv].track = rec'[s].track
  BY <1>1 DEF ConvOK
<1>2. s \in Sessions
  BY DEF Made
<1>3. CASE rec'[s].conv = s
  BY <1>3
<1>4. CASE rec'[s].conv = rec[s].conv
  BY <1>2, <1>4 DEF ConvOK, Settles, Made
<1> QED  BY <1>2, <1>3, <1>4

(* A table whose writes each carry a conversation on, or drop one not open. *)
LEMMA FateKept ==
  ASSUME Inv, FateOK, Settles(rec, rec'),
         \A c \in Sessions : fate'[c] \in {"open", "ended"} => fate'[c] = fate[c],
         \A n \in Sessions : Carries(rec, rec', n) \/ Drops(rec, rec', fate', n)
  PROVE  FateOK'
<1>1. /\ rec \in Tables /\ Made(rec') = Made(rec)
      /\ \A track : LatestOn(rec', track) = LatestOn(rec, track)
  BY InvFacts, SameLatest
<1> SUFFICES ASSUME NEW c \in Sessions, fate'[c] \in {"open", "ended"}
             PROVE  LET n == LatestOn(rec', rec'[c].track) IN
                    /\ c \in Made(rec')
                    /\ fate'[c] = "open" => rec'[n].conv = c /\ ~Over(rec', n)
                    /\ fate'[c] = "ended" /\ rec'[n].conv = c => Over(rec', n)
  BY DEF FateOK, Newest
<1> DEFINE n == LatestOn(rec, rec[c].track)
<1>2. fate'[c] = fate[c] /\ c \in Made(rec)
  BY DEF FateOK
<1>3. /\ fate[c] = "open" => rec[n].conv = c /\ ~Over(rec, n)
      /\ fate[c] = "ended" /\ rec[n].conv = c => Over(rec, n)
  BY <1>2 DEF FateOK, Newest
<1>4. n \in Sessions /\ rec[n].track = rec[c].track /\ LatestOn(rec', rec'[c].track) = n
  BY <1>1, <1>2, NewestIs DEF Settles
<1>5. n = LatestOn(rec, rec[n].track) /\ c # NoSession
  BY <1>4, ReconciledIs
<1> HIDE DEF n
<1>6. CASE Carries(rec, rec', n)
  BY <1>1, <1>2, <1>3, <1>4, <1>6 DEF Carries
<1>7. CASE Drops(rec, rec', fate', n)
  BY <1>1, <1>2, <1>3, <1>4, <1>5, <1>7 DEF Drops
<1> QED  BY <1>4, <1>6, <1>7

(* A step that queues no record and begins no conversation of a queued one. *)
LEMMA QueuedKept ==
  ASSUME Inv, QueuedOK,
         \A s \in Sessions : rec'[s].status = "queued" =>
           /\ rec[s].status = "queued" /\ rec'[s].conv = rec[s].conv
           /\ row'[s] = "running" => row[s] = "running"
           /\ fate'[s] = "open" => fate[s] = "open"
  PROVE  QueuedOK'
BY DEF QueuedOK

(* A step that leaves what a start takes up. *)
LEMMA StartKept ==
  ASSUME Inv, StartOK, Settles(rec, rec'),
         \/ op' = op /\ (op.kind \in StartKinds => rec' = rec \/ op.kind # "recovery")
         \/ op'.kind \notin StartKinds
  PROVE  StartOK'
<1> SUFFICES ASSUME op' = op, op.kind \in StartKinds, rec' = rec \/ op.kind # "recovery"
             PROVE  StartOK'
  BY DEF StartOK
<1>1. Made(rec') = Made(rec)
  BY InvFacts, SameLatest
<1>2. \A s \in Made(rec) : rec'[s].track = rec[s].track
  BY DEF Settles, Made
<1> QED  BY <1>1, <1>2 DEF StartOK

(* A step that leaves the records at rest, while a pass looks at one. *)
LEMMA LooksKept ==
  ASSUME Inv, PassFits, LooksOK, Settles(rec, rec'), SameAtRest(rec, rec'), pass' = pass,
         sid' \in {sid, NoSession} \cup Live
  PROVE  LooksOK'
<1> SUFFICES ASSUME Looking(pass) PROVE LooksOK'
  BY DEF LooksOK
<1> DEFINE s == pass.s
           track == rec[s].track
<1>1. s \in Sessions /\ rec \in Tables
  BY InvFacts, PassIs DEF Looking
<1>2. rec'[s] = rec[s] /\ (pass.sid # NoSession => pass.sid \notin Live)
  BY <1>1 DEF PassFits, SameAtRest, Busy, Looking
<1>3. /\ Made(rec') = Made(rec) /\ LatestOn(rec', track) = LatestOn(rec, track)
      /\ \A c \in Made(rec) : rec'[c].track = rec[c].track
  <2>1. \A c \in Made(rec) : rec'[c].track = rec[c].track
    BY DEF Settles, Made
  <2> HIDE DEF track
  <2> QED  BY <1>1, <2>1, SameLatest
<1>4. pass.sid # NoSession /\ sid' = pass.sid => sid = pass.sid
  BY <1>2
<1> QED  BY <1>2, <1>3, <1>4 DEF LooksOK

(* An agent that ended is not running. *)
LEMMA OverIsNotBusy == \A r, s : Over(r, s) => ~Busy(r, s)
BY DEF Over, Busy

(* An unchanged record carries its conversation on. *)
LEMMA SameCarries == \A r, n : Carries(r, r, n)
BY DEF Carries

(* The writes carry conversations on. *)
LEMMA MarkExitedCarries ==
  ASSUME NEW r \in Tables, NEW s \in Ref, NEW bad \in BOOLEAN, NEW n \in Sessions
  PROVE  /\ MarkExited(r, s, bad)[n].conv = r[n].conv
         /\ bad => Carries(r, MarkExited(r, s, bad), n)
<1> DEFINE to == [r[s] EXCEPT !.status = "exited", !.bad = bad]
           from == {"running", "queued"}
<1>1. s \in Sessions => to.status = "exited" /\ to.bad = bad /\ to.conv = r[s].conv
  BY DEF Tables, Record
<1>2. MarkExited(r, s, bad) = IF s # NoSession /\ r[s].status \in from THEN [r EXCEPT ![s] = to] ELSE r
  BY DEF MarkExited, If
<1>3. r[n].status \in from => ~Over(r, n)
  BY DEF Over
<1> HIDE DEF to, from
<1>4. CASE s # NoSession /\ r[s].status \in from
  <2>1. s \in Sessions /\ MarkExited(r, s, bad)[n] = IF n = s THEN to ELSE r[n]
    BY <1>2, <1>4 DEF Ref, Tables
  <2> QED  BY <1>1, <1>3, <1>4, <2>1 DEF Carries, Over
<1>5. CASE ~(s # NoSession /\ r[s].status \in from)
  BY <1>2, <1>5, SameCarries
<1> QED  BY <1>4, <1>5

(* A suspend carries the conversation on, of an agent that has not ended. *)
LEMMA MarkSuspendedCarries ==
  ASSUME NEW r \in Tables, NEW s \in Ref, NEW by, NEW n \in Sessions, ~Over(r, s)
  PROVE  Carries(r, MarkSuspended(r, s, by), n)
<1> DEFINE to == [r[s] EXCEPT !.status = "suspended", !.by = by]
           from == {"running", "exited", "orphaned"}
<1>1. s \in Sessions => to.status = "suspended" /\ to.conv = r[s].conv
  BY DEF Tables, Record
<1>2. MarkSuspended(r, s, by) = IF s # NoSession /\ r[s].status \in from THEN [r EXCEPT ![s] = to] ELSE r
  BY DEF MarkSuspended, If
<1> HIDE DEF to, from
<1>3. CASE s # NoSession /\ r[s].status \in from
  <2>1. s \in Sessions /\ MarkSuspended(r, s, by)[n] = IF n = s THEN to ELSE r[n]
    BY <1>2, <1>3 DEF Ref, Tables
  <2> QED  BY <1>1, <2>1 DEF Carries, Over
<1>4. CASE ~(s # NoSession /\ r[s].status \in from)
  BY <1>2, <1>4, SameCarries
<1> QED  BY <1>3, <1>4

(* Retiring a record ends it as if its agent had ended by itself. *)
LEMMA RetireCarries ==
  ASSUME NEW r \in Tables, NEW s \in Ref, NEW n \in Sessions
  PROVE  /\ Retire(r, s)[n].conv = r[n].conv /\ Retire(r, s)[n].bad = r[n].bad
         /\ Over(r, n) => Over(Retire(r, s), n)
         /\ n # s \/ r[n].status \notin {"suspended", "orphaned"} =>
              Retire(r, s)[n] = r[n] /\ Carries(r, Retire(r, s), n)
<1> DEFINE to == [r[s] EXCEPT !.status = "exited"]
           from == {"suspended", "orphaned"}
<1>1. s \in Sessions => to.conv = r[s].conv /\ to.bad = r[s].bad
  BY DEF Tables, Record
<1>2. Retire(r, s) = IF s # NoSession /\ r[s].status \in from THEN [r EXCEPT ![s] = to] ELSE r
  BY DEF Retire, If
<1>3. Over(r, n) => r[n].status \notin from
  BY DEF Over
<1> HIDE DEF to
<1>4. Retire(r, s)[n] = IF n = s /\ r[n].status \in from THEN to ELSE r[n]
  BY <1>2, ReconciledIs DEF Ref, Tables
<1> HIDE DEF from
<1> QED  BY <1>1, <1>3, <1>4 DEF Carries, Over, from

(* A session that ends in the queue gives up a conversation of its own, which
   it has not begun. *)
LEMMA SettleQueuedCarries ==
  ASSUME NEW r \in Tables, NEW s \in Sessions, NEW by, NEW n \in Sessions, NEW f,
         r[s].status = "queued", r[s].conv = s => f[s] # "open"
  PROVE  LET q == SettleQueued(r, s, by) IN Carries(r, q, n) \/ Drops(r, q, f, n)
<1> DEFINE kept == [r[s] EXCEPT !.status = "suspended", !.by = by]
           gone == [r[s] EXCEPT !.status = "exited", !.conv = NoSession]
<1>1. /\ kept.status = "suspended" /\ kept.conv = r[s].conv
      /\ gone.conv = NoSession
  BY DEF Tables, Record
<1>2. ~Over(r, s) /\ s # NoSession
  BY ReconciledIs DEF Over
<1>3. CASE r[s].conv \notin {NoSession, s}
  <2>1. SettleQueued(r, s, by) = [r EXCEPT ![s] = kept]
    BY <1>2, <1>3 DEF SettleQueued, If
  <2> HIDE DEF kept
  <2>2. SettleQueued(r, s, by)[n] = IF n = s THEN kept ELSE r[n]
    BY <2>1 DEF Tables
  <2> QED  BY <1>1, <1>2, <2>2 DEF Carries, Over
<1>4. CASE r[s].conv \in {NoSession, s}
  <2>1. SettleQueued(r, s, by) = [r EXCEPT ![s] = gone]
    BY <1>2, <1>4 DEF SettleQueued, If
  <2> HIDE DEF gone
  <2>2. SettleQueued(r, s, by)[n] = IF n = s THEN gone ELSE r[n]
    BY <2>1 DEF Tables
  <2>3. CASE n = s
    BY <1>1, <1>2, <1>4, <2>2, <2>3 DEF Drops
  <2>4. CASE n # s
    BY <2>2, <2>4 DEF Carries, Over
  <2> QED  BY <2>3, <2>4
<1> QED  BY <1>3, <1>4

(* A suspend carries a conversation on, or drops one that was not begun. *)
LEMMA SuspendCarries ==
  ASSUME NEW r \in Tables, NEW s \in Sessions, NEW by, NEW n \in Sessions, NEW f, Busy(r, s),
         r[s].status = "queued" /\ r[s].conv = s => f[s] # "open"
  PROVE  LET q == SuspendWrites(r, s, by) IN Carries(r, q, n) \/ Drops(r, q, f, n)
<1>1. s # NoSession /\ s \in Ref /\ ~Over(r, s)
  BY ReconciledIs, OverIsNotBusy DEF Ref
<1>2. \/ SuspendWrites(r, s, by) = r
      \/ r[s].status = "queued" /\ SuspendWrites(r, s, by) = SettleQueued(r, s, by)
      \/ SuspendWrites(r, s, by) = MarkSuspended(r, s, by)
  BY <1>1 DEF SuspendWrites
<1>3. Carries(r, MarkSuspended(r, s, by), n)
  BY <1>1, MarkSuspendedCarries
<1>4. r[s].status = "queued" =>
        Carries(r, SettleQueued(r, s, by), n) \/ Drops(r, SettleQueued(r, s, by), f, n)
  BY SettleQueuedCarries
<1> QED  BY <1>2, <1>3, <1>4, SameCarries

(* A step under which every pass, start and gesture stays as it was. *)
LEMMA GentleFate ==
  ASSUME Inv, PauseInv, FateInv, Settles(rec, rec'), SameAtRest(rec, rec'), pass' = pass,
         sid' \in {sid, NoSession} \cup Live,
         \A s \in Sessions : rec'[s].conv \in {rec[s].conv, NoSession, s},
         \/ op' = op /\ (op.kind \in StartKinds => rec' = rec)
         \/ op'.kind \notin StartKinds,
         FateOK', QueuedOK', UntouchedOK'
  PROVE  FateInv'
<1>1. ConvOK'
  BY ConvKept DEF FateInv
<1>2. StartOK'
  BY StartKept DEF FateInv
<1>3. LooksOK'
  BY LooksKept DEF FateInv, PauseInv
<1> QED  BY <1>1, <1>2, <1>3 DEF FateInv

(* Of one live session: its conversation, and what a step of its agent
   leaves to the passes. *)
LEMMA LiveNewest ==
  ASSUME Inv, NEW s \in Live
  PROVE  /\ s \in Sessions /\ Busy(rec, s) /\ op = Idle /\ Live = {s} /\ up /\ pass.stage # "gather"
         /\ s \in Made(rec) /\ LatestOn(rec, rec[s].track) = s
         /\ ConvOK /\ rec[s].conv # NoSession => Newest(rec[s].conv) = s
<1>1. /\ rec \in Tables /\ LoneOK /\ QuietOK /\ \A t \in Live : t = s
  BY InvFacts
<1>2. s \in Sessions /\ Busy(rec, s) /\ op = Idle /\ \A t \in Made(rec) : t <= s
  BY <1>1 DEF LoneOK, Live
<1>3. up /\ pass.stage # "gather"
  BY <1>1, NoRowsIs DEF QuietOK
<1>4. s \in Made(rec)
  BY <1>2 DEF Busy, Made
<1>5. LatestOn(rec, rec[s].track) = s
  BY <1>1, <1>2, <1>4, TopIsNewest
<1> QED  BY <1>1, <1>2, <1>3, <1>4, <1>5 DEF ConvOK, Newest

(* An agent's own steps leave a task that the user leaves alone as it is. *)
LEMMA AgentUntouched ==
  ASSUME Inv, FateInv, NEW s \in Live, HasRow',
         UNCHANGED <<column, op, move, resume, pass, touched>>
  PROVE  UntouchedOK'
<1>1. op = Idle /\ Live # {}
  BY LiveNewest
<1> SUFFICES ASSUME Untouched PROVE UntouchedOK'
  BY DEF UntouchedOK, Untouched
<1>2. ~Looking(pass)
  BY <1>1 DEF FateInv, UntouchedOK, RecordUnchanged
<1> QED  BY <1>1, <1>2, IdleIs DEF FateInv, UntouchedOK

(* What an agent's step says of its conversation holds of its record. *)
LEMMA AgentFate ==
  ASSUME Inv, FateInv, NEW s \in Live, Settles(rec, rec'),
         \A t \in Sessions : t # s => rec'[t] = rec[t],
         \A c \in Sessions : fate'[c] \in {"open", "ended"} /\ fate'[c] # fate[c] =>
           c = rec'[s].conv,
         \A c \in Sessions : c = rec'[s].conv =>
           (fate'[c] = "open" => ~Over(rec', s)) /\ (fate'[c] = "ended" => Over(rec', s)),
         rec'[s].conv # rec[s].conv => rec[s].conv = NoSession /\ rec'[s].conv = s
  PROVE  FateOK'
<1>1. /\ rec \in Tables /\ Made(rec') = Made(rec)
      /\ \A track : LatestOn(rec', track) = LatestOn(rec, track)
  BY InvFacts, SameLatest
<1>2. /\ s \in Sessions /\ s \in Made(rec) /\ LatestOn(rec, rec[s].track) = s
      /\ rec[s].conv # NoSession => Newest(rec[s].conv) = s /\ rec[s].conv \in Made(rec)
  BY LiveNewest DEF FateInv, ConvOK
<1> SUFFICES ASSUME NEW c \in Sessions, fate'[c] \in {"open", "ended"}
             PROVE  LET n == LatestOn(rec', rec'[c].track) IN
                    /\ c \in Made(rec')
                    /\ fate'[c] = "open" => rec'[n].conv = c /\ ~Over(rec', n)
                    /\ fate'[c] = "ended" /\ rec'[n].conv = c => Over(rec', n)
  BY DEF FateOK, Newest
<1> DEFINE n == Newest(c)
<1>3. LatestOn(rec', rec'[c].track) = n /\ c # NoSession
  BY <1>1, ReconciledIs DEF Settles, Newest
<1>4. c = rec'[s].conv => n = s /\ c \in Made(rec)
  BY <1>2, <1>3 DEF Newest
<1>5. fate'[c] = fate[c] =>
        /\ c \in Made(rec)
        /\ fate[c] = "open" => rec[n].conv = c /\ ~Over(rec, n)
        /\ fate[c] = "ended" /\ rec[n].conv = c => Over(rec, n)
  BY DEF FateInv, FateOK
<1>6. c \in Made(rec)
  BY <1>4, <1>5
<1>7. n \in Sessions
  BY <1>1, <1>6, NewestIs DEF Newest
<1> HIDE DEF n
<1>8. CASE n = s
  BY <1>1, <1>3, <1>5, <1>6, <1>8
<1>9. CASE n # s
  BY <1>1, <1>3, <1>4, <1>5, <1>6, <1>7, <1>9 DEF Over
<1> QED  BY <1>8, <1>9

(* A promotion, a reported id and an exit keep the invariant. *)
LEMMA AgentsFate ==
  ASSUME ~LateRollbacks, Inv, PauseInv, FateInv, NEW s \in Sessions,
         Promote(s) \/ Capture(s) \/ \E bad \in BOOLEAN : AgentEnds(s, bad)
  PROVE  FateInv'
<1>0. rec \in Tables /\ Types /\ fate \in Fates
  BY InvFacts
<1>1. /\ UNCHANGED <<column, sid, placeholder, op, move, resume, pass, touched>>
      /\ s \in Live
  BY DEF Promote, Capture, AgentEnds, boardVars, registryVars, lifeVars, Live
<1>2. /\ Busy(rec, s) /\ op = Idle /\ Live = {s} /\ up /\ pass.stage # "gather" /\ s # NoSession
      /\ ~Over(rec, s)
  BY <1>1, LiveNewest, ReconciledIs, OverIsNotBusy
<1>3. HasRow'
  <2>1. row' = [row EXCEPT ![s] = "running"] \/ row' = [row EXCEPT ![s] = "exited"]
    BY <1>0, <1>1 DEF Promote, Capture, AgentEnds, Types, registryVars
  <2> QED  BY <1>1, <2>1, RowStays
<1>4. UntouchedOK'
  BY <1>1, <1>3, AgentUntouched
<1> SUFFICES /\ Settles(rec, rec') /\ SameAtRest(rec, rec')
             /\ \A t \in Sessions : rec'[t].conv \in {rec[t].conv, NoSession, t}
             /\ FateOK' /\ QueuedOK'
  BY <1>1, <1>2, <1>4, GentleFate, IdleIs
<1>5. CASE Promote(s)
  <2> DEFINE conv == rec[s].conv
  <2>1. /\ row' = [row EXCEPT ![s] = "running"] /\ fate' = Told(conv, "open")
        /\ rec' = IF rec[s].status = "queued" THEN [rec EXCEPT ![s] = [rec[s] EXCEPT !.status = "running"]]
                  ELSE rec
    BY <1>2, <1>5 DEF Promote, Promoted, If
  <2>2. /\ [rec[s] EXCEPT !.status = "running"] \in Record
        /\ [rec[s] EXCEPT !.status = "running"].status = "running"
        /\ [rec[s] EXCEPT !.status = "running"].track = rec[s].track
        /\ [rec[s] EXCEPT !.status = "running"].conv = conv
    BY <1>0 DEF Tables, Record, Statuses
  <2>3. /\ rec' \in Tables /\ rec'[s].status = "running" /\ rec'[s].conv = conv
        /\ rec'[s].track = rec[s].track /\ \A t \in Sessions : t # s => rec'[t] = rec[t]
    BY <1>0, <1>2, <2>1, <2>2 DEF Tables, Busy
  <2> HIDE DEF conv
  <2>4. Settles(rec, rec') /\ SameAtRest(rec, rec') /\ \A t \in Sessions : rec'[t].conv = rec[t].conv
    BY <1>2, <2>3 DEF Settles, SameAtRest, Busy, conv
  <2>5. \A c \in Sessions : fate'[c] = IF c = conv THEN "open" ELSE fate[c]
    BY <2>1 DEF Told
  <2>6. FateOK'
    BY <1>1, <2>3, <2>4, <2>5, AgentFate DEF Over
  <2>7. QueuedOK'
    <3>1. ASSUME NEW t \in Sessions, rec'[t].status = "queued" PROVE FALSE
      <4>1. t # s /\ Busy(rec, t) /\ rec[t].status = "queued"
        BY <2>3, <3>1 DEF Busy
      <4> QED  BY <1>2, <4>1, IdleIs DEF Inv, RunOK
    <3> QED  BY <3>1 DEF QueuedOK
  <2> QED  BY <2>4, <2>6, <2>7
<1>6. CASE Capture(s)
  <2>1. /\ row[s] = "running" /\ row' = row /\ fate' = Told(s, "open") /\ rec[s].conv = NoSession
        /\ rec' = [rec EXCEPT ![s] = [rec[s] EXCEPT !.conv = s]]
    BY <1>0, <1>6 DEF Capture, registryVars, Tables
  <2>2. /\ [rec[s] EXCEPT !.conv = s] \in Record
        /\ [rec[s] EXCEPT !.conv = s].status = rec[s].status
        /\ [rec[s] EXCEPT !.conv = s].track = rec[s].track
        /\ [rec[s] EXCEPT !.conv = s].conv = s
    BY <1>0 DEF Tables, Record, Ref
  <2>3. /\ rec' \in Tables /\ rec'[s].status = rec[s].status /\ rec'[s].conv = s
        /\ rec'[s].track = rec[s].track /\ \A t \in Sessions : t # s => rec'[t] = rec[t]
    BY <1>0, <2>1, <2>2 DEF Tables
  <2>4. /\ Settles(rec, rec') /\ SameAtRest(rec, rec')
        /\ \A t \in Sessions : rec'[t].conv \in {rec[t].conv, NoSession, t}
    BY <1>2, <2>3 DEF Settles, SameAtRest, Busy
  <2>5. \A c \in Sessions : fate'[c] = IF c = s THEN "open" ELSE fate[c]
    BY <2>1 DEF Told
  <2>6. ~Over(rec', s)
    BY <1>2, <2>3 DEF Over, Busy
  <2>7. FateOK'
    BY <1>1, <2>1, <2>3, <2>4, <2>5, <2>6, AgentFate
  <2>8. QueuedOK'
    <3>1. rec[s].status # "queued"
      BY <2>1 DEF FateInv, QueuedOK
    <3> QED  BY <2>1, <2>3, <2>5, <3>1, QueuedKept DEF FateInv
  <2> QED  BY <2>4, <2>7, <2>8
<1>7. ASSUME NEW bad \in BOOLEAN, AgentEnds(s, bad)
      PROVE  /\ Settles(rec, rec') /\ SameAtRest(rec, rec')
             /\ \A t \in Sessions : rec'[t].conv \in {rec[t].conv, NoSession, t}
             /\ FateOK' /\ QueuedOK'
  <2> DEFINE conv == rec[s].conv
  <2>1. /\ row' = [row EXCEPT ![s] = "exited"]
        /\ fate' = IF bad THEN fate ELSE Told(conv, "ended")
        /\ rec' = MarkExited(rec, s, bad)
    BY <1>7 DEF AgentEnds
  <2>2. /\ [rec[s] EXCEPT !.status = "exited", !.bad = bad].status = "exited"
        /\ [rec[s] EXCEPT !.status = "exited", !.bad = bad].bad = bad
        /\ [rec[s] EXCEPT !.status = "exited", !.bad = bad].conv = conv
    BY <1>0 DEF Tables, Record, Statuses
  <2>3. /\ rec'[s].status = "exited" /\ rec'[s].conv = conv /\ rec'[s].bad = bad
        /\ \A t \in Sessions : t # s => rec'[t] = rec[t]
    <3>1. rec' = [rec EXCEPT ![s] = [rec[s] EXCEPT !.status = "exited", !.bad = bad]]
      BY <1>2, <2>1 DEF MarkExited, If, Busy
    <3> QED  BY <1>0, <2>2, <3>1 DEF Tables
  <2>4. Settles(rec, rec') /\ SameAtRest(rec, rec')
    <3>1. s \in Ref
      BY DEF Ref
    <3> QED  BY <1>0, <2>1, <3>1, MarkExitedFacts, MarkExitedPauses
  <2>5. \A c \in Sessions : fate'[c] = IF c = conv /\ ~bad THEN "ended" ELSE fate[c]
    BY <2>1 DEF Told
  <2>6. ASSUME NEW c \in Sessions, c = conv
        PROVE  fate[c] # "ended"
    <3>1. Newest(c) = s /\ rec[s].conv = c
      BY <1>1, <2>6, LiveNewest, ReconciledIs DEF FateInv
    <3> QED  BY <1>2, <3>1 DEF FateInv, FateOK
  <2> HIDE DEF conv
  <2>7. FateOK'
    <3>1. \A c \in Sessions : c = rec'[s].conv =>
            (fate'[c] = "open" => ~Over(rec', s)) /\ (fate'[c] = "ended" => Over(rec', s))
      BY <2>3, <2>5, <2>6 DEF Over
    <3>2. \A c \in Sessions : fate'[c] \in {"open", "ended"} /\ fate'[c] # fate[c] =>
            c = rec'[s].conv
      BY <2>3, <2>5
    <3> QED  BY <1>1, <2>3, <2>4, <3>1, <3>2, AgentFate DEF conv
  <2>8. QueuedOK'
    <3>1. \A t \in Sessions : row'[t] = "running" => row[t] = "running"
      BY <1>0, <2>1 DEF Types
    <3> QED  BY <2>3, <2>5, <3>1, QueuedKept DEF FateInv
  <2> QED  BY <2>3, <2>4, <2>7, <2>8 DEF conv
<1> QED  BY <1>5, <1>6, <1>7

(* The ends of a session under the lock. *)
LEMMA SuspendLeaves ==
  ASSUME NEW r \in Tables, NEW s \in Sessions, NEW by \in {"system", "user"}, Busy(r, s)
  PROVE  SameAtRest(r, SuspendWrites(r, s, by)) /\ SuspendWrites(r, s, by)[s].status # "queued"
<1>1. s # NoSession /\ s \in Ref
  BY ReconciledIs DEF Ref
<1>2. SameAtRest(r, SuspendWrites(r, s, by))
  BY <1>1, SuspendFacts DEF SameAtRest
<1>3. CASE r[s].status = "queued"
  <2>1. SuspendWrites(r, s, by) = SettleQueued(r, s, by)
    BY <1>1, <1>3 DEF SuspendWrites
  <2> QED  BY <1>2, <1>3, <2>1, SettleQueuedFacts DEF Busy
<1>4. CASE r[s].status = "running"
  <2>1. SuspendWrites(r, s, by) \in {r, MarkSuspended(r, s, by)}
    BY <1>4 DEF SuspendWrites
  <2>2. MarkSuspended(r, s, by)[s].status = "suspended"
    BY <1>1, <1>4, MarkSuspendedFacts
  <2> QED  BY <1>2, <1>4, <2>1, <2>2
<1> QED  BY <1>3, <1>4 DEF Busy

(* Either way the record has the conversation it had, or none. *)
LEMMA DropsIsConv ==
  ASSUME NEW r, NEW q, NEW f, NEW n, Carries(r, q, n) \/ Drops(r, q, f, n)
  PROVE  q[n].conv \in {r[n].conv, NoSession}
BY DEF Carries, Drops

(* Nothing is written and nothing is told. *)
LEMMA SameFate ==
  ASSUME Inv, FateInv, rec' = rec, fate' = fate,
         \A s \in Sessions : row'[s] = "running" => row[s] = "running"
  PROVE  ConvOK' /\ FateOK' /\ QueuedOK'
<1>1. Settles(rec, rec') /\ \A n \in Sessions : Carries(rec, rec', n)
  BY InvFacts, SameTable, SameCarries
<1> QED  BY <1>1, ConvKept, FateKept, QueuedKept DEF FateInv

(* No agent runs in an empty registry. *)
LEMMA NoRowRuns == \A s \in Sessions : NoRows[s] # "running"
BY DEF NoRows

(* What the user does.  A resume leaves the records: *)
LEMMA ResumeFate ==
  ASSUME Inv, PauseInv, FateInv, Resume \/ CancelResume \/ ResumeFails
  PROVE  FateInv'
<1>1. /\ UNCHANGED <<rec, column, row, op, move, pass, fate>>
      /\ sid' = sid \/ sid' = NoSession
      /\ touched' = TRUE \/ (touched' = touched /\ resume)
  BY DEF Resume, CancelResume, ResumeFails, Gesture, tableVars, registryVars, ghostVars, lifeVars
<1>2. UntouchedOK'
  BY <1>1 DEF UntouchedOK, Untouched, FateInv
<1> QED  BY <1>1, <1>2, InvFacts, SameTable, SameFate, GentleFate

(* a reset gives every conversation up, *)
LEMMA ResetFate ==
  ASSUME Inv, PauseInv, FateInv, Reset
  PROVE  FateInv'
<1> DEFINE s == Latest(rec)
           bad == sid # NoSession /\ row[sid] = "queued"
<1>1. /\ UNCHANGED <<op, pass>> /\ op = Idle /\ touched' = TRUE
      /\ sid' = NoSession /\ row' = NoRows /\ rec' = MarkExited(rec, s, bad)
      /\ fate' = [c \in Sessions |-> IF fate[c] = "none" THEN "none" ELSE "given up"]
  BY DEF Reset, Gesture, Free
<1>2. s \in Ref /\ bad \in BOOLEAN /\ rec \in Tables
  BY InvFacts, LatestIs
<1> HIDE DEF s, bad
<1>3. /\ Settles(rec, rec') /\ SameAtRest(rec, rec')
      /\ \A t \in Sessions : t # s => rec'[t] = rec[t]
      /\ s \in Sessions => ~Busy(rec', s)
  BY <1>1, <1>2, MarkExitedFacts, MarkExitedPauses
<1>4. \A t \in Sessions : rec'[t].conv = rec[t].conv
  BY <1>1, <1>2, MarkExitedCarries
<1>5. \A c \in Sessions : fate'[c] \notin {"open", "ended"}
  BY <1>1
<1>6. QueuedOK' /\ FateOK'
  BY <1>1, <1>3, <1>5, QueuedKept, NoRowRuns DEF FateInv, Busy, FateOK
<1>7. UntouchedOK'
  BY <1>1 DEF UntouchedOK, Untouched
<1> QED  BY <1>1, <1>3, <1>4, <1>6, <1>7, GentleFate, IdleIs

(* a move's suspend, once it has ended, leaves no agent that ended by itself, *)
LEMMA SuspendEndsFate ==
  ASSUME Inv, PauseInv, FateInv, SuspendEnds
  PROVE  FateInv'
<1> DEFINE s == op.s
<1>1. /\ UNCHANGED <<column, row, pass, fate, touched>> /\ op' = Idle
      /\ sid' = NoSession /\ rec' = MarkExited(rec, s, TRUE) /\ op.kind = "suspend"
  BY DEF SuspendEnds, registryVars, boardVars, ghostVars, lifeVars
<1>2. s \in Ref /\ rec \in Tables
  BY <1>1, InvFacts, IdleIs DEF OpOK, Ref, StartKinds
<1> HIDE DEF s
<1>3. /\ Settles(rec, rec') /\ SameAtRest(rec, rec')
      /\ \A t \in Sessions : t # s => rec'[t] = rec[t]
      /\ s \in Sessions => ~Busy(rec', s)
  BY <1>1, <1>2, MarkExitedFacts, MarkExitedPauses
<1>4. \A t \in Sessions : rec'[t].conv = rec[t].conv /\ Carries(rec, rec', t)
  BY <1>1, <1>2, MarkExitedCarries
<1>5. FateOK' /\ QueuedOK'
  BY <1>1, <1>3, <1>4, FateKept, QueuedKept DEF FateInv, Busy
<1>6. UntouchedOK'
  BY <1>1 DEF FateInv, UntouchedOK, Untouched
<1> QED  BY <1>1, <1>3, <1>4, <1>5, <1>6, GentleFate, IdleIs

(* a move suspends the track it leaves, *)
LEMMA MoveToFate ==
  ASSUME Inv, PauseInv, FateInv, NEW c \in Columns, MoveTo(c)
  PROVE  FateInv'
<1> DEFINE s == Reconciled
           own == IF c \in AutoSpawn THEN Latest(rec) ELSE OwnRecord(s)
           leaves == s # NoSession /\ (c \in AutoSpawn => rec[Latest(rec)].track # Track(c))
<1>1. /\ UNCHANGED <<pass, fate>>
      /\ sid' = s /\ touched' = TRUE
      /\ rec' = IF leaves THEN SuspendWrites(rec, own, "system") ELSE rec
      /\ row' = IF leaves THEN [row EXCEPT ![s] = "suspended"] ELSE row
      /\ op' = IF leaves THEN [kind |-> "suspend", s |-> s] ELSE Idle
  BY DEF MoveTo, Gesture
<1>2. rec \in Tables /\ Types /\ (s # NoSession => s \in Live)
  BY InvFacts, ReconciledIs
<1>3. UntouchedOK'
  BY <1>1 DEF UntouchedOK, Untouched
<1>4. op'.kind \notin StartKinds /\ sid' \in {sid, NoSession} \cup Live
  BY <1>1, <1>2, IdleIs DEF StartKinds
<1>5. CASE leaves
  <2>1. s \in Sessions /\ own = s /\ Busy(rec, s)
    BY <1>5, LiveOne
  <2>2. rec' = SuspendWrites(rec, s, "system") /\ row' = [row EXCEPT ![s] = "suspended"]
    BY <1>1, <1>5, <2>1
  <2> HIDE DEF s, own, leaves
  <2>3. /\ Settles(rec, rec') /\ SameAtRest(rec, rec') /\ rec'[s].status # "queued"
        /\ \A t \in Sessions : t # s => rec'[t] = rec[t]
    BY <1>2, <2>1, <2>2, SuspendFacts, SuspendLeaves DEF Ref
  <2>4. \A n \in Sessions : Carries(rec, rec', n) \/ Drops(rec, rec', fate, n)
    BY <1>2, <2>1, <2>2, SuspendCarries DEF FateInv, QueuedOK
  <2>5. \A n \in Sessions : rec'[n].conv \in {rec[n].conv, NoSession}
    BY <2>4, DropsIsConv
  <2>6. \A t \in Sessions : row'[t] = "running" => row[t] = "running"
    BY <1>2, <2>2 DEF Types
  <2>7. FateOK' /\ QueuedOK'
    BY <1>1, <2>3, <2>4, <2>6, FateKept, QueuedKept DEF FateInv
  <2> QED  BY <1>1, <1>3, <1>4, <2>3, <2>5, <2>7, GentleFate
<1>6. CASE ~leaves
  <2>1. rec' = rec /\ row' = row
    BY <1>1, <1>6
  <2> HIDE DEF s, own, leaves
  <2> QED  BY <1>1, <1>2, <1>3, <1>4, <2>1, SameTable, SameFate, GentleFate
<1> QED  BY <1>5, <1>6

(* and a pause the agent that runs. *)
LEMMA PauseFate ==
  ASSUME Inv, PauseInv, FateInv, Pause
  PROVE  FateInv'
<1> DEFINE s == Reconciled
           r == SuspendWrites(rec, s, "user")
<1>1. /\ UNCHANGED <<op, pass, fate>>
      /\ sid' = NoSession /\ s # NoSession /\ op = Idle /\ touched' = TRUE
      /\ rec' = MarkExited(SuspendWrites(rec, OwnRecord(s), "user"), s, TRUE)
      /\ row' = [row EXCEPT ![s] = "suspended"]
  BY DEF Pause, Gesture, Free
<1>2. /\ s \in Sessions /\ s \in Ref /\ OwnRecord(s) = s
      /\ Busy(rec, s) /\ rec \in Tables /\ Types
  BY <1>1, LiveOne, ReconciledIs, InvFacts
<1>3. /\ Settles(rec, r) /\ r \in Tables /\ \A t \in Sessions : t # s => r[t] = rec[t]
      /\ SameAtRest(rec, r)
  BY <1>2, SuspendFacts, SuspendLeaves DEF Settles
<1>4. \A n \in Sessions : Carries(rec, r, n) \/ Drops(rec, r, fate, n)
  BY <1>2, SuspendCarries DEF FateInv, QueuedOK
<1>5. rec' = MarkExited(r, s, TRUE)
  BY <1>1, <1>2
<1> HIDE DEF s, r
<1>6. /\ Settles(r, rec') /\ SameAtRest(r, rec') /\ ~Busy(rec', s)
      /\ \A t \in Sessions : t # s => rec'[t] = r[t]
      /\ \A n \in Sessions : Carries(r, rec', n)
  BY <1>2, <1>3, <1>5, MarkExitedFacts, MarkExitedPauses, MarkExitedCarries
<1>7. Settles(rec, rec') /\ SameAtRest(rec, rec')
  BY <1>2, <1>3, <1>6, SettlesTwice DEF SameAtRest
<1>8. ASSUME NEW n \in Sessions
      PROVE  Carries(rec, rec', n) \/ Drops(rec, rec', fate, n)
  BY <1>4, <1>6 DEF Carries, Drops
<1>9. \A n \in Sessions : rec'[n].conv \in {rec[n].conv, NoSession}
  BY <1>8, DropsIsConv
<1>10. \A t \in Sessions : row'[t] = "running" => row[t] = "running"
  BY <1>1, <1>2 DEF Types
<1>11. FateOK' /\ QueuedOK'
  BY <1>1, <1>3, <1>6, <1>7, <1>8, <1>10, FateKept, QueuedKept DEF FateInv, Busy
<1>12. UntouchedOK'
  BY <1>1 DEF UntouchedOK, Untouched
<1> QED  BY <1>1, <1>7, <1>9, <1>11, <1>12, GentleFate, IdleIs

(* The ends of the app, and a launch. *)
LEMMA StopFate ==
  ASSUME Inv, PauseInv, FateInv, Crash \/ Quit, Settles(rec, rec')
  PROVE  FateInv'
<1>0. rec \in Tables
  BY InvFacts
<1>1. op' = Idle /\ pass' = NoPass /\ row' = NoRows /\ fate' = fate
  BY DEF Crash, Quit, Down, ghostVars
<1>2. ASSUME NEW n \in Sessions
      PROVE  /\ Carries(rec, rec', n) \/ Drops(rec, rec', fate, n)
             /\ rec'[n].status = "queued" => rec'[n] = rec[n]
  <2>1. CASE rec'[n] = rec[n]
    BY <2>1 DEF Carries, Over
  <2>2. CASE n \in Live /\ rec[n].status = "running" /\ rec'[n] = MarkSuspended(rec, n, "system")[n]
    <3> DEFINE q == MarkSuspended(rec, n, "system")
    <3>1. n \in Ref /\ ~Over(rec, n)
      BY <2>2 DEF Over, Ref
    <3>2. Carries(rec, q, n) /\ q[n].status = "suspended"
      BY <1>0, <2>2, <3>1, MarkSuspendedCarries, MarkSuspendedFacts
    <3> HIDE DEF q
    <3>3. rec'[n] = q[n]
      BY <2>2 DEF q
    <3> QED  BY <3>2, <3>3 DEF Carries, Over
  <2>3. CASE n \in Live /\ rec[n].status = "queued" /\ rec'[n] = SettleQueued(rec, n, "system")[n]
    <3> DEFINE q == SettleQueued(rec, n, "system")
    <3>1. ~Busy(q, n) /\ (Carries(rec, q, n) \/ Drops(rec, q, fate, n))
      BY <1>0, <2>3, SettleQueuedCarries, SettleQueuedFacts DEF FateInv, QueuedOK
    <3> HIDE DEF q
    <3>2. rec'[n] = q[n]
      BY <2>3 DEF q
    <3> QED  BY <3>1, <3>2 DEF Carries, Drops, Over, Busy
  <2> QED  BY <2>1, <2>2, <2>3 DEF Crash, Quit
<1>3. \A n \in Sessions : rec'[n].conv \in {rec[n].conv, NoSession}
  BY <1>2, DropsIsConv
<1>4. ConvOK' /\ FateOK' /\ QueuedOK'
  BY <1>1, <1>2, <1>3, ConvKept, FateKept, QueuedKept, NoRowRuns DEF FateInv
<1> QED  BY <1>1, <1>4, IdleIs DEF FateInv, StartOK, LooksOK, UntouchedOK, Untouched, Looking,
            NoPass

(* A launch finds what the last run left. *)
LEMMA LaunchFate ==
  ASSUME Inv, PauseInv, FateInv, Launch
  PROVE  FateInv'
<1>1. UNCHANGED <<rec, row, op, fate>> /\ ~up /\ pass' = [stage |-> "gather"]
  BY DEF Launch, tableVars, registryVars
<1>2. op = Idle
  BY <1>1, InvFacts DEF QuietOK
<1> QED
  BY <1>1, <1>2, SameFate, IdleIs DEF FateInv, StartOK, LooksOK, UntouchedOK, Untouched, Looking

(* A rollback that finds no agent and no pass changes no record. *)
LEMMA RollbackFate ==
  ASSUME Inv, PauseInv, FateInv, ~LateRollbacks, MoveFails \/ StaleMoveEnds
  PROVE  FateInv'
<1>1. /\ UNCHANGED <<rec, op, pass, fate, touched, resume>> /\ sid' = NoSession /\ row' = NoRows
      /\ pass = DonePass /\ op = Idle
      /\ move # NoMove \/ move' = move
  BY DEF MoveFails, StaleMoveEnds, RowsRemoved, Free, lifeVars, ghostVars
<1>2. UntouchedOK'
  BY <1>1, IdleIs DEF UntouchedOK, Untouched, Looking, DonePass, FateInv
<1> QED  BY <1>1, <1>2, InvFacts, SameTable, SameFate, NoRowRuns, GentleFate

(* The board's starts. *)
LEMMA StartsConv ==
  ASSUME NEW kind, NEW track, NEW conv, NEW retire, Starts(kind, track, conv, retire)
  PROVE  /\ op'.kind = kind /\ op'.track = track /\ op'.retire = retire
         /\ op'.resumes <=> conv # NoSession
         /\ op'.resumes => op'.conv = conv
         /\ ~op'.resumes => op'.conv \in {NoSession, op'.s}
<1> DEFINE s == Largest(Made(rec)) + 1
<1>1. PICK known \in IdsAtLaunch :
        op' = [kind |-> kind, s |-> s, track |-> track, retire |-> retire,
               resumes |-> conv # NoSession,
               conv |-> IF conv # NoSession THEN conv ELSE IF known THEN s ELSE NoSession]
  BY DEF Starts
<1> HIDE DEF s
<1> QED  BY <1>1

(* The board resumes the newest conversation of the track. *)
LEMMA BoardStartFate ==
  ASSUME Inv, ConvOK, NEW kind \in {"move", "resume"}, NEW track, BoardStart(kind, track),
         rec' = rec
  PROVE  StartOK'
<1> DEFINE m == LatestOn(rec, track)
<1>1. m # NoSession => m \in OnTrack(rec, track)
  BY InvFacts, LatestIs
<1>2. CASE Eligible(rec, m)
  <2>1. Starts(kind, track, rec[m].conv, m) /\ m \in Made(rec) /\ rec[m].track = track
        /\ rec[m].conv # NoSession
    BY <1>1, <1>2 DEF BoardStart, Eligible, OnTrack
  <2> HIDE DEF m
  <2>2. rec[m].conv \in Made(rec) /\ rec[rec[m].conv].track = track
    BY <2>1 DEF ConvOK
  <2> QED  BY <2>1, <2>2, StartsConv DEF StartOK
<1>3. CASE ~Eligible(rec, m)
  <2>1. Starts(kind, track, NoSession, NoSession)
    BY <1>3 DEF BoardStart
  <2> QED  BY <2>1, StartsConv DEF StartOK
<1> QED  BY <1>2, <1>3

(* A move and a resume land on it. *)
LEMMA LandFate ==
  ASSUME Inv, PauseInv, FateInv, MoveLands \/ ResumeLands
  PROVE  FateInv'
<1>1. /\ UNCHANGED <<rec, column, row, pass, fate, touched>>
      /\ sid' \in {sid, NoSession} \cup Live
      /\ move # NoMove \/ resume
      /\ op' = Idle \/ \E kind \in {"move", "resume"} : BoardStart(kind, Track(column))
  BY ReconciledIs DEF MoveLands, ResumeLands, tableVars, registryVars, lifeVars, ghostVars
<1>2. ConvOK' /\ FateOK' /\ QueuedOK'
  BY <1>1, SameFate
<1>3. StartOK'
  BY <1>1, BoardStartFate, IdleIs DEF FateInv, StartOK
<1>4. LooksOK'
  BY <1>1, InvFacts, SameTable, LooksKept DEF FateInv, PauseInv
<1>5. UntouchedOK'
  BY <1>1 DEF FateInv, UntouchedOK, Untouched
<1> QED  BY <1>2, <1>3, <1>4, <1>5 DEF FateInv

(* The spawn answered. *)
LEMMA CommitFate ==
  ASSUME ~LateRollbacks, Inv, PauseInv, FateInv, op.kind \in StartKinds, NEW outcome \in Outcomes,
         Committed(outcome), pass' = PassAfter(op.kind), op' = Idle,
         resume' = (resume /\ op.kind # "resume"), UNCHANGED <<column, touched>>
  PROVE  FateInv'
<1> DEFINE s == op.s
           conv == op.conv
           track == op.track
           new == [status |-> StatusFor(op.kind, outcome), track |-> op.track, conv |-> op.conv,
                   by |-> "none", bad |-> FALSE]
           r == Retire(rec, op.retire)
<1>0. rec \in Tables /\ OpOK(op, rec, move) /\ op # Idle /\ Live = {} /\ QuietOK
  BY InvFacts, IdleIs
<1>1. /\ row' = [NoRows EXCEPT ![s] = Answered(outcome)]
      /\ rec' = [r EXCEPT ![s] = new] /\ sid' = s
      /\ fate' = [c \in Sessions |->
           IF c = conv THEN FateAfter(c, outcome)
           ELSE IF c \in OnTrack(rec, track) /\ fate[c] = "open" THEN "given up" ELSE fate[c]]
      /\ move' = IF op.kind = "move" THEN NoMove ELSE move
      /\ outcome \in {"running", "queued", "fails"}
      /\ Answered(outcome) \in {"running", "queued", "exited"}
  BY RecordAssumption DEF Committed, Answered
<1>2. /\ s \in Sessions /\ track \in Tracks /\ op.retire \in Ref
      /\ s \notin Made(rec) /\ \A t \in Made(rec) : t < s
  <2>1. /\ s \in Sessions /\ track \in Tracks /\ op.retire \in Ref
        /\ \A t \in Made(rec) : t < s
    BY <1>0, IdleIs DEF OpOK, StartKinds
  <2> HIDE DEF s
  <2>2. ~(s < s)
    BY <2>1 DEF Sessions
  <2> QED  BY <2>1, <2>2
<1>3. /\ op.resumes => conv \in Made(rec) /\ rec[conv].track = track
      /\ ~op.resumes => conv \in {NoSession, s}
  BY DEF FateInv, StartOK
<1>4. /\ new.status \in {"running", "queued", "exited"} /\ new.track = track /\ new.conv = conv
      /\ new.status = "queued" => outcome = "queued"
      /\ new.status = "exited" => outcome = "fails" /\ op.kind \in BoardKinds
      /\ new.bad = FALSE
  BY <1>1 DEF StatusFor, Answered
<1>5. r \in Tables /\ Settles(rec, r)
  BY <1>0, <1>2, RetireFacts DEF Settles
<1>6. \A t \in Sessions :
        /\ r[t].conv = rec[t].conv /\ r[t].bad = rec[t].bad
        /\ t # op.retire => r[t] = rec[t]
        /\ r[t].status # "exited" => r[t] = rec[t]
  BY <1>0, <1>2, RetireCarries, RetiredIs
<1> HIDE DEF new, r, s, conv, track
<1>7. /\ \A t \in Sessions : t # s => rec'[t] = r[t]
      /\ rec'[s] = new
  BY <1>1, <1>2, <1>5 DEF Tables
<1>8. \A t \in Made(rec) : t # s /\ t \in Sessions /\ rec'[t].track = rec[t].track
  BY <1>2, <1>5, <1>7 DEF Made, Settles
<1>9. Made(rec') = Made(rec) \cup {s}
  BY <1>2, <1>4, <1>5, <1>7 DEF Made, Settles
<1>10. ASSUME NEW other, other # track
       PROVE  LatestOn(rec', other) = LatestOn(rec, other)
  <2>1. OnTrack(rec', other) = OnTrack(rec, other)
    BY <1>2, <1>4, <1>5, <1>7, <1>9, <1>10 DEF OnTrack, Settles, Made
  <2> QED  BY <2>1 DEF LatestOn
<1>11. LatestOn(rec', track) = s
  <2>1. rec' \in Tables
    <3>1. new \in Record
      BY <1>0, <1>1, IdleIs DEF new, OpOK, StartKinds, Record, Statuses, StatusFor
    <3> QED  BY <1>1, <1>2, <1>5, <3>1 DEF Tables
  <2>2. \A t \in Made(rec') : t <= s
    BY <1>2, <1>9 DEF Made, Sessions
  <2>3. s \in Made(rec')
    BY <1>9
  <2> QED  BY <1>4, <1>7, <2>1, <2>2, <2>3, TopIsNewest
<1>12. HasRow'
  <2>1. row'[s] = Answered(outcome)
    BY <1>1, <1>2 DEF NoRows
  <2>2. s \in Rows'
    BY <1>1, <1>2, <2>1 DEF Rows
  <2> QED  BY <2>2 DEF HasRow
<1>13. ConvOK'
  <2> SUFFICES ASSUME NEW t \in Made(rec'), rec'[t].conv # NoSession
               PROVE  rec'[t].conv \in Made(rec') /\ rec'[rec'[t].conv].track = rec'[t].track
    BY DEF ConvOK
  <2>1. CASE t = s
    BY <1>3, <1>4, <1>7, <1>8, <1>9, <2>1
  <2>2. CASE t # s
    <3>1. t \in Made(rec) /\ rec'[t].conv = rec[t].conv
      BY <1>6, <1>7, <1>8, <1>9, <2>2
    <3>2. rec[t].conv \in Made(rec) /\ rec[rec[t].conv].track = rec[t].track
      BY <2>2, <3>1 DEF FateInv, ConvOK
    <3> QED  BY <1>8, <1>9, <3>1, <3>2
  <2> QED  BY <2>1, <2>2
<1>14. FateOK'
  <2> SUFFICES ASSUME NEW c \in Sessions, fate'[c] \in {"open", "ended"}
               PROVE  LET n == LatestOn(rec', rec'[c].track) IN
                      /\ c \in Made(rec')
                      /\ fate'[c] = "open" => rec'[n].conv = c /\ ~Over(rec', n)
                      /\ fate'[c] = "ended" /\ rec'[n].conv = c => Over(rec', n)
    BY DEF FateOK, Newest
  <2>1. CASE c = conv
    <3>1. c \in Made(rec') /\ rec'[c].track = track
      BY <1>3, <1>4, <1>7, <1>8, <1>9, <2>1, ReconciledIs
    <3>2. rec'[s].conv = c /\ fate'[c] = FateAfter(c, outcome)
      BY <1>1, <1>4, <1>7, <2>1
    <3>3. CASE fate'[c] = "open"
      <4>1. ~(outcome = "fails" /\ op.kind \in BoardKinds)
        BY <3>2, <3>3 DEF FateAfter, BoardKinds
      <4>2. ~Over(rec', s)
        BY <1>4, <1>7, <4>1 DEF Over
      <4> QED  BY <1>11, <3>1, <3>2, <3>3, <4>2
    <3>4. CASE fate'[c] = "ended"
      <4>1. fate[c] = "ended" /\ outcome # "running" /\ ~(outcome = "queued" /\ op.resumes)
            /\ ~(outcome = "fails" /\ op.kind = "recovery")
        BY <3>2, <3>4 DEF FateAfter
      <4>2. c # s
        BY <1>2, <4>1 DEF FateInv, FateOK
      <4>3. op.resumes
        BY <1>3, <2>1, <4>2, ReconciledIs
      <4>4. op.kind # "auto"
        BY <4>3 DEF FateInv, StartOK
      <4>5. outcome = "fails" /\ op.kind \in BoardKinds
        BY <1>1, <4>1, <4>3, <4>4 DEF BoardKinds, StartKinds
      <4>6. new.status = "exited"
        BY <4>5 DEF new, StatusFor, Answered
      <4>7. Over(rec', s)
        BY <1>4, <1>7, <4>6 DEF Over
      <4> QED  BY <1>11, <3>1, <3>2, <3>4, <4>7
    <3> QED  BY <3>3, <3>4
  <2>2. CASE c # conv
    <3>1. fate'[c] = fate[c]
      BY <1>1, <2>2
    <3>2. c \in Made(rec)
      BY <3>1 DEF FateInv, FateOK
    <3>3. CASE rec[c].track = track
      <4>1. fate'[c] = "ended"
        BY <1>1, <2>2, <3>1, <3>2, <3>3 DEF OnTrack
      <4>2. rec'[s].conv # c
        BY <1>4, <1>7, <2>2
      <4> QED  BY <1>8, <1>9, <1>11, <3>2, <3>3, <4>1, <4>2
    <3>4. CASE rec[c].track # track
      <4> DEFINE n == LatestOn(rec, rec[c].track)
      <4>1. /\ fate[c] = "open" => rec[n].conv = c /\ ~Over(rec, n)
            /\ fate[c] = "ended" /\ rec[n].conv = c => Over(rec, n)
        BY <3>1 DEF FateInv, FateOK, Newest
      <4>2. n \in Made(rec) /\ rec[n].track # track /\ LatestOn(rec', rec'[c].track) = n
        BY <1>0, <1>8, <1>10, <3>2, <3>4, NewestIs
      <4> HIDE DEF n
      <4>3. n # op.retire
        BY <4>2, <1>0 DEF PauseInv, RetireOK, track, Made, NoSession, Sessions
      <4>4. rec'[n] = rec[n]
        BY <1>6, <1>7, <1>8, <4>2, <4>3
      <4> QED  BY <1>9, <3>1, <3>2, <4>1, <4>2, <4>4 DEF Over
    <3> QED  BY <3>3, <3>4
  <2> QED  BY <2>1, <2>2
<1>15. QueuedOK'
  <2> SUFFICES ASSUME NEW t \in Sessions, rec'[t].status = "queued"
               PROVE  row'[t] # "running" /\ (rec'[t].conv = t => fate'[t] # "open")
    BY DEF QueuedOK
  <2>1. CASE t = s
    <3>1. outcome = "queued" /\ row'[s] = outcome /\ rec'[s].conv = conv
      BY <1>1, <1>2, <1>4, <1>7, <2>1 DEF NoRows, Answered
    <3>2. ASSUME conv = s PROVE fate'[s] # "open"
      <4>1. ~op.resumes /\ fate[s] # "open"
        BY <1>2, <1>3, <3>2 DEF FateInv, FateOK
      <4> QED  BY <1>1, <1>2, <3>1, <3>2, <4>1 DEF FateAfter
    <3> QED  BY <2>1, <3>1, <3>2
  <2>2. CASE t # s
    <3>1. Busy(rec, t) /\ rec[t].status = "queued"
      BY <1>6, <1>7, <2>2 DEF Busy
    <3>2. up /\ pass.stage # "gather" /\ op.kind # "suspend"
      BY <1>0 DEF QuietOK, StartKinds
    <3> QED  BY <1>0, <3>1, <3>2 DEF Inv, RunOK
  <2> QED  BY <2>1, <2>2
<1>16. StartOK'
  BY IdleIs DEF StartOK
<1>17. Looking(pass') => pass' = pass /\ op.kind \in {"move", "resume"}
  BY DEF PassAfter, DonePass, StartKinds, Looking
<1>18. LooksOK'
  <2> SUFFICES ASSUME pass' = pass, Looking(pass)
               PROVE  LooksOK'
    BY <1>17 DEF LooksOK
  <2> DEFINE p == pass.s
             t == rec[p].track
  <2>1. p \in Sessions /\ p \in Made(rec) /\ (pass.sid # NoSession => pass.sid \in Made(rec))
    BY PassIs DEF PassFits, PauseInv, Made, Looking
  <2>2. /\ pass.conv # NoSession => pass.conv \in Made(rec) /\ rec[pass.conv].track = t
        /\ pass.stage = "start" /\ LatestOn(rec, t) = p => pass.conv = rec[p].conv
        /\ pass.status = "exited" => rec[p].bad
    BY DEF FateInv, LooksOK
  <2> HIDE DEF p
  <2>3. /\ rec'[p].track = t /\ rec'[p].conv = rec[p].conv /\ rec'[p].bad = rec[p].bad /\ p # s
    BY <1>6, <1>7, <1>8, <2>1
  <2> HIDE DEF t
  <2>4. LatestOn(rec', t) = p => LatestOn(rec, t) = p
    BY <1>10, <1>11, <2>3
  <2>5. pass.conv # NoSession => pass.conv \in Made(rec') /\ rec'[pass.conv].track = t
    BY <1>8, <1>9, <2>2
  <2>6. pass.sid # NoSession => sid' # pass.sid
    BY <1>1, <1>2, <2>1
  <2> QED  BY <2>2, <2>3, <2>4, <2>5, <2>6 DEF LooksOK, p
<1>19. UntouchedOK'
  <2> SUFFICES ASSUME Untouched' PROVE UntouchedOK'
    BY DEF UntouchedOK
  <2>1. Untouched
    <3>1. pass.stage # "gather"
      BY <1>0 DEF QuietOK
    <3>2. pass.stage # "none" \/ pass' # pass
      BY DEF Untouched
    <3>3. pass' # pass => op.kind \in {"recovery", "auto"}
      BY DEF PassAfter, StartKinds
    <3>4. pass' # pass => pass.stage \in {"starting", "spawning"}
      BY <3>3 DEF PauseInv, RetireOK
    <3> QED  BY <3>1, <3>2, <3>4 DEF Untouched
  <2>2. move = NoMove /\ ~resume /\ op.kind \in {"recovery", "auto"}
    BY <2>1, IdleIs, <1>0 DEF FateInv, UntouchedOK, StartKinds
  <2>3. ~Looking(pass')
    BY <1>17, <2>2
  <2> QED  BY <1>1, <1>12, <2>2, <2>3, IdleIs DEF UntouchedOK
<1> QED  BY <1>13, <1>14, <1>15, <1>16, <1>18, <1>19 DEF FateInv

(* It threw. *)
LEMMA ThrownFate ==
  ASSUME Inv, PauseInv, FateInv, op.kind \in StartKinds, Thrown,
         pass' = PassAfter(op.kind), op' = Idle,
         resume' = (resume /\ op.kind # "resume"), UNCHANGED <<column, touched>>
  PROVE  FateInv'
<1>0. rec \in Tables /\ OpOK(op, rec, move) /\ op # Idle /\ QuietOK
  BY InvFacts, IdleIs
<1>1. /\ UNCHANGED <<row, placeholder, sid>>
      /\ rec' = IF op.kind = "recovery" THEN Retire(rec, op.retire) ELSE rec
      /\ fate' = IF op.kind = "recovery" THEN Told(op.conv, "given up") ELSE fate
      /\ op.kind # "move" => move' = move
  BY DEF Thrown, registryVars
<1>2. op.retire \in Ref
  BY <1>0, IdleIs DEF OpOK, StartKinds
<1>3. Settles(rec, rec') /\ \A t \in Sessions : rec'[t].conv = rec[t].conv
  <2>1. CASE op.kind = "recovery"
    BY <1>0, <1>1, <1>2, <2>1, RetireFacts, RetireCarries
  <2>2. CASE op.kind # "recovery"
    BY <1>0, <1>1, <2>2, SettlesSame
  <2> QED  BY <2>1, <2>2
<1>4. \A c \in Sessions : fate'[c] = IF op.kind = "recovery" /\ c = op.conv THEN "given up" ELSE fate[c]
  BY <1>1 DEF Told
<1>5. FateOK'
  <2>1. ASSUME NEW n \in Sessions
        PROVE  Carries(rec, rec', n) \/ Drops(rec, rec', fate', n)
    <3>1. CASE op.kind = "recovery" /\ n = op.retire /\ rec[n].status \in {"suspended", "orphaned"}
      <4>1. ~Over(rec, n) /\ op.retire # NoSession /\ rec[n].track = op.track
        BY <3>1, ReconciledIs DEF Over, PauseInv, RetireOK
      <4>2. n = LatestOn(rec, rec[n].track) /\ rec[n].conv # NoSession => op.conv = rec[n].conv
        BY <3>1, <4>1 DEF FateInv, StartOK
      <4>3. rec[n].conv # NoSession => rec[n].conv \in Sessions
        BY <1>0 DEF Tables, Record, Ref
      <4> QED  BY <1>3, <1>4, <3>1, <4>1, <4>2, <4>3 DEF Drops
    <3>2. CASE op.kind = "recovery" /\ (n # op.retire \/ rec[n].status \notin {"suspended", "orphaned"})
      BY <1>0, <1>1, <1>2, <3>2, RetireCarries
    <3>3. CASE op.kind # "recovery"
      BY <1>1, <3>3, SameCarries
    <3> QED  BY <3>1, <3>2, <3>3
  <2> QED  BY <1>3, <1>4, <2>1, FateKept DEF FateInv
<1>6. ConvOK' /\ StartOK'
  BY <1>3, ConvKept, IdleIs DEF FateInv, StartOK
<1>7. QueuedOK'
  <2>1. ASSUME NEW t \in Sessions, rec'[t].status = "queued" PROVE rec[t].status = "queued"
    BY <1>0, <1>1, <1>2, <2>1, RetiredIs
  <2> QED  BY <1>1, <1>3, <1>4, <2>1, QueuedKept DEF FateInv
<1>8. Looking(pass') => pass' = pass /\ op.kind \in {"move", "resume"}
  BY DEF PassAfter, DonePass, StartKinds, Looking
<1>9. LooksOK'
  <2>1. CASE Looking(pass')
    BY <1>0, <1>1, <1>8, <2>1, SameTable, LooksKept DEF FateInv, PauseInv
  <2> QED  BY <2>1 DEF LooksOK
<1>10. UntouchedOK'
  <2> SUFFICES ASSUME Untouched' PROVE UntouchedOK'
    BY DEF UntouchedOK
  <2>1. Untouched
    <3>1. pass.stage # "gather"
      BY <1>0 DEF QuietOK
    <3>2. pass.stage # "none" \/ pass' # pass
      BY DEF Untouched
    <3>3. pass' # pass => op.kind \in {"recovery", "auto"}
      BY DEF PassAfter, StartKinds
    <3>4. pass' # pass => pass.stage \in {"starting", "spawning"}
      BY <3>3 DEF PauseInv, RetireOK
    <3> QED  BY <3>1, <3>2, <3>4 DEF Untouched
  <2>2. move = NoMove /\ ~resume /\ op.kind \in {"recovery", "auto"}
    BY <2>1, IdleIs, <1>0 DEF FateInv, UntouchedOK, StartKinds
  <2>3. ~Looking(pass') /\ move' = move
    BY <1>1, <1>8, <2>2
  <2>4. CASE op.kind = "recovery"
    <3> SUFFICES OpenHere' = {}
      BY <1>1, <2>2, <2>3, IdleIs DEF UntouchedOK
    <3> SUFFICES ASSUME NEW c \in Sessions, fate'[c] = "open", rec'[c].track = Track(column)
                 PROVE  FALSE
      BY DEF OpenHere
    <3>1. fate[c] = "open" /\ c # op.conv /\ rec[c].track = Track(column) /\ c # NoSession
      BY <1>3, <1>4, <2>4, ReconciledIs DEF Settles
    <3>2. op.track = Track(column) /\ Newest(c) = op.retire /\ rec[Newest(c)].conv = c
      BY <2>1, <2>4, <3>1 DEF FateInv, UntouchedOK, OpenHere, FateOK
    <3>3. op.retire = LatestOn(rec, op.track)
      BY <3>1, <3>2 DEF Newest
    <3> QED  BY <2>4, <3>1, <3>2, <3>3 DEF FateInv, StartOK
  <2>5. CASE op.kind = "auto"
    BY <2>2, <2>3, <2>5, IdleIs DEF UntouchedOK, PassAfter, DonePass
  <2> QED  BY <2>2, <2>4, <2>5
<1> QED  BY <1>5, <1>6, <1>7, <1>9, <1>10 DEF FateInv

(* The pass that starts agents afresh. *)
LEMMA FreshFate ==
  ASSUME Inv, PauseInv, FateInv, Discover \/ (\E ok \in BOOLEAN : Find(ok)) \/ StartFresh
  PROVE  FateInv' /\ (Untouched => (OpenHere # {} => HasRow'))
<1>1. /\ UNCHANGED <<rec, sid, column, fate, move, resume, touched>>
      /\ (row' = row /\ placeholder' = placeholder) \/ ShowsPlaceholder
      /\ pass.stage \in {"discover", "find", "spawn"}
      /\ pass'.stage \in {"find", "spawn", "spawning", "done"}
      /\ \/ op' = op
         \/ op' = Idle
         \/ Starts("auto", Track(column), NoSession, NoSession)
  <2>1. PassOK
    BY InvFacts
  <2> QED  BY <2>1 DEF Discover, Find, StartFresh, tableVars, registryVars, boardVars, lifeVars,
                       ghostVars, DonePass, PassOK
<1>2. HasRow => HasRow'
  BY <1>1 DEF ShowsPlaceholder, HasRow, Rows
<1>3. \A s \in Sessions : row'[s] = "running" => row[s] = "running"
  BY <1>1, NoRowRuns DEF ShowsPlaceholder
<1>4. ConvOK' /\ FateOK' /\ QueuedOK'
  BY <1>1, <1>3, SameFate
<1>5. StartOK'
  <2>1. CASE op' = op \/ op' = Idle
    BY <1>1, <2>1, InvFacts, SameTable, StartKept, IdleIs DEF FateInv
  <2>2. CASE Starts("auto", Track(column), NoSession, NoSession)
    <3>1. op'.kind = "auto" /\ ~op'.resumes /\ op'.conv \in {NoSession, op'.s}
      BY <2>2, StartsConv
    <3> QED  BY <3>1 DEF StartOK
  <2> QED  BY <1>1, <2>1, <2>2
<1>6. LooksOK'
  BY <1>1 DEF LooksOK, Looking
<1>7. OpenHere' = OpenHere
  BY <1>1 DEF OpenHere
<1>8. Untouched' => Untouched
  BY <1>1 DEF Untouched
<1>9. Untouched =>
        /\ move = NoMove /\ ~resume /\ op.kind \in {"idle", "recovery", "auto"}
        /\ OpenHere # {} => HasRow
        /\ op.kind # "recovery"
  BY <1>1 DEF FateInv, UntouchedOK, PauseInv, RetireOK, StartKinds
<1>10. op'.kind = op.kind \/ op'.kind \in {"idle", "auto"}
  BY <1>1, IdleIs, StartsConv
<1>11. UntouchedOK'
  BY <1>1, <1>2, <1>7, <1>8, <1>9, <1>10 DEF UntouchedOK, Looking
<1> QED  BY <1>2, <1>4, <1>5, <1>6, <1>9, <1>11 DEF FateInv

(* The pass that resumes. *)
LEMMA PrepareFate ==
  ASSUME Inv, PauseInv, FateInv, NEW ok, Prepare(ok)
  PROVE  FateInv'
<1> DEFINE s == pass.s
           m == LatestOn(rec, rec[s].track)
           conv == IF Eligible(rec, m) THEN rec[m].conv ELSE NoSession
           track == rec[s].track
<1>0. /\ rec \in Tables /\ s \in Sessions /\ s \in Ref /\ s # NoSession
      /\ pass \in [stage : {"prepare", "start", "keep"}, s : Sessions, status : Statuses,
                   sid : Ref, column : Columns, conv : Ref, newest : BOOLEAN]
  BY InvFacts, PassIs, ReconciledIs DEF Prepare, Ref
<1>1. /\ UNCHANGED <<sid, column, row, placeholder, op, move, resume, touched, fate>>
      /\ pass.stage = "prepare"
      /\ \/ rec' = rec /\ pass' = [pass EXCEPT !.stage = "start", !.conv = conv]
         \/ rec' = rec /\ pass' = [pass EXCEPT !.stage = "keep"]
         \/ rec' = Retire(rec, s) /\ pass' = [stage |-> "discover"] /\ ~Eligible(rec, m)
  BY DEF Prepare, registryVars, boardVars, ghostVars, lifeVars
<1>2. /\ op.kind # "recovery"
      /\ rec[s].status \in {"suspended", "exited", "orphaned"}
      /\ pass.conv # NoSession => pass.conv \in Made(rec) /\ rec[pass.conv].track = track
      /\ pass.status = "exited" => rec[s].bad
      /\ pass.newest /\ pass.sid # NoSession /\ sid = pass.sid => LatestOn(rec, track) = s
  BY <1>1 DEF PauseInv, RetireOK, StartKinds, PassFits, FateInv, LooksOK, Looking
<1>3. m = s /\ ~Eligible(rec, m) => rec[s].conv = NoSession
  BY <1>0, <1>2 DEF Eligible
<1>4. conv # NoSession => conv \in Made(rec) /\ rec[conv].track = track
  <2> SUFFICES ASSUME Eligible(rec, m)
               PROVE  rec[m].conv \in Made(rec) /\ rec[rec[m].conv].track = track
    OBVIOUS
  <2>1. m \in OnTrack(rec, track) /\ rec[m].conv # NoSession
    BY <1>0, LatestIs DEF Eligible
  <2> HIDE DEF m
  <2> QED  BY <2>1 DEF FateInv, ConvOK, OnTrack
<1>5. Untouched =>
        /\ move = NoMove /\ ~resume /\ op.kind \in {"idle", "recovery", "auto"}
        /\ RecordUnchanged /\ column = pass.column /\ track = Track(column)
        /\ \A c \in OpenHere : Newest(c) = s
  BY <1>1 DEF FateInv, UntouchedOK, Looking
<1>6. pass.stage \notin {"none", "gather"}
  BY <1>1
<1>7. CASE rec' = rec /\ pass' = [pass EXCEPT !.stage = "start", !.conv = conv]
  <2>1. m = s => conv = rec[s].conv
    BY <1>3
  <2> HIDE DEF conv
  <2>2. /\ pass'.s = s /\ pass'.status = pass.status /\ pass'.sid = pass.sid
        /\ pass'.column = pass.column /\ pass'.conv = conv /\ pass'.newest = pass.newest
        /\ pass'.stage = "start"
    BY <1>0, <1>7
  <2> HIDE DEF s
  <2>3. ConvOK' /\ FateOK' /\ QueuedOK' /\ StartOK'
    BY <1>0, <1>1, <1>2, <1>7, SameFate, SettlesSame, StartKept DEF FateInv
  <2>4. LooksOK'
    BY <1>2, <1>4, <1>7, <1>1, <2>1, <2>2 DEF LooksOK
  <2>5. Untouched' => Untouched
    BY <1>1, <1>6 DEF Untouched
  <2>6. OpenHere' = OpenHere /\ Live' = Live /\ \A c : Newest(c)' = Newest(c)
    BY <1>1, <1>7 DEF OpenHere, Live, Newest
  <2>7. UntouchedOK'
    BY <1>1, <1>2, <1>5, <1>7, <2>2, <2>5, <2>6 DEF UntouchedOK, RecordUnchanged
  <2> QED  BY <2>3, <2>4, <2>7 DEF FateInv
<1>8. CASE rec' = rec /\ pass' = [pass EXCEPT !.stage = "keep"]
  <2>2. /\ pass'.s = s /\ pass'.status = pass.status /\ pass'.sid = pass.sid
        /\ pass'.column = pass.column /\ pass'.conv = pass.conv /\ pass'.newest = pass.newest
        /\ pass'.stage = "keep"
    BY <1>0, <1>8
  <2> HIDE DEF s
  <2>3. ConvOK' /\ FateOK' /\ QueuedOK' /\ StartOK'
    BY <1>0, <1>1, <1>2, <1>8, SameFate, SettlesSame, StartKept DEF FateInv
  <2>4. LooksOK'
    BY <1>2, <1>8, <1>1, <2>2 DEF LooksOK
  <2>5. Untouched' => Untouched
    BY <1>1, <1>6 DEF Untouched
  <2>6. OpenHere' = OpenHere /\ Live' = Live /\ \A c : Newest(c)' = Newest(c)
    BY <1>1, <1>8 DEF OpenHere, Live, Newest
  <2>7. UntouchedOK'
    BY <1>1, <1>2, <1>5, <1>8, <2>2, <2>5, <2>6 DEF UntouchedOK, RecordUnchanged
  <2> QED  BY <2>3, <2>4, <2>7 DEF FateInv
<1>9. CASE rec' = Retire(rec, s) /\ pass' = [stage |-> "discover"] /\ ~Eligible(rec, m)
  <2>1. m = s => rec[s].conv = NoSession
    BY <1>3, <1>9
  <2> HIDE DEF s, conv
  <2>2. Settles(rec, rec') /\ \A t \in Sessions : rec'[t].conv = rec[t].conv
    BY <1>0, <1>9, RetireFacts, RetireCarries
  <2>3. ASSUME NEW n \in Sessions
        PROVE  Carries(rec, rec', n) \/ Drops(rec, rec', fate', n)
    <3>1. CASE n = s /\ rec[s].status \in {"suspended", "orphaned"}
      BY <2>1, <2>2, <3>1 DEF Drops, Over
    <3>2. CASE ~(n = s /\ rec[s].status \in {"suspended", "orphaned"})
      BY <1>0, <1>9, <3>2, RetireCarries
    <3> QED  BY <3>1, <3>2
  <2>4. ConvOK' /\ FateOK'
    BY <1>1, <2>2, <2>3, ConvKept, FateKept DEF FateInv
  <2>5. QueuedOK'
    <3>1. ASSUME NEW t \in Sessions, rec'[t].status = "queued" PROVE rec[t].status = "queued"
      BY <1>0, <1>9, <3>1, RetiredIs
    <3> QED  BY <1>1, <2>2, <3>1, QueuedKept DEF FateInv
  <2>6. StartOK' /\ LooksOK'
    BY <1>1, <1>2, <1>9, <2>2, StartKept DEF FateInv, LooksOK, Looking
  <2>7. UntouchedOK'
    <3> SUFFICES ASSUME Untouched PROVE OpenHere' = {}
      BY <1>1, <1>2, <1>5, <1>6, <1>9 DEF UntouchedOK, Untouched, Looking
    <3> SUFFICES ASSUME NEW c \in Sessions, fate'[c] = "open", rec'[c].track = Track(column)
                 PROVE  FALSE
      BY <1>1 DEF OpenHere
    <3>1. fate[c] = "open" /\ rec[c].track = Track(column) /\ c # NoSession
      BY <1>1, <2>2, ReconciledIs DEF Settles
    <3>2. Newest(c) = s /\ rec[Newest(c)].conv = c /\ track = rec[c].track
      BY <1>5, <3>1 DEF OpenHere, FateInv, FateOK
    <3> QED  BY <2>1, <3>1, <3>2 DEF Newest
  <2> QED  BY <2>4, <2>5, <2>6, <2>7 DEF FateInv
<1> QED  BY <1>1, <1>7, <1>8, <1>9

(* A pass that keeps a record, or starts its agent. *)
LEMMA KeepFate ==
  ASSUME Inv, PauseInv, FateInv, Keep \/ StartRecovered
  PROVE  FateInv'
<1> DEFINE s == pass.s
           track == rec[s].track
<1>0. rec \in Tables /\ s \in Sessions /\ s \in Ref /\ s # NoSession
  BY InvFacts, PassIs, ReconciledIs DEF Keep, StartRecovered, Ref
<1>1. /\ UNCHANGED <<column, move, resume, touched, fate>> /\ op = Idle
      /\ \/ KeepsIfUnchanged
         \/ /\ Starts("recovery", track, pass.conv, s) /\ pass.stage = "start"
            /\ pass' = [stage |-> "starting"]
            /\ UNCHANGED <<rec, row, placeholder, sid>>
  BY DEF Keep, StartRecovered, boardVars, ghostVars, lifeVars, Free
<1>2. /\ pass.conv # NoSession => pass.conv \in Made(rec) /\ rec[pass.conv].track = track
      /\ pass.stage = "start" /\ LatestOn(rec, track) = s => pass.conv = rec[s].conv
      /\ pass.status = "exited" => rec[s].bad
  BY DEF FateInv, LooksOK, Looking, Keep, StartRecovered
<1>3. Untouched =>
        /\ move = NoMove /\ ~resume
        /\ RecordUnchanged /\ column = pass.column /\ track = Track(column)
        /\ \A c \in OpenHere : Newest(c) = s
  BY DEF FateInv, UntouchedOK, Looking, Keep, StartRecovered
<1>4. pass.stage \notin {"none", "gather"}
  BY DEF Keep, StartRecovered
<1>5. CASE KeepsIfUnchanged
  <2>1. /\ op' = Idle /\ pass' = [stage |-> "discover"]
        /\ \/ /\ rec' = rec /\ row' = row /\ placeholder' = placeholder /\ sid' = sid
              /\ ~(RecordUnchanged /\ column = pass.column)
           \/ KeepsResumable(rec, s) /\ rec[s].status = pass.status
    BY <1>5 DEF KeepsIfUnchanged, RecordUnchanged
  <2> HIDE DEF s
  <2>2. CASE rec' = rec /\ row' = row /\ ~(RecordUnchanged /\ column = pass.column)
    <3>1. ConvOK' /\ FateOK' /\ QueuedOK'
      BY <1>1, <2>2, SameFate
    <3>2. StartOK' /\ LooksOK' /\ UntouchedOK'
      BY <1>1, <1>3, <1>4, <2>1, <2>2, IdleIs
      DEF StartOK, LooksOK, UntouchedOK, Untouched, Looking
    <3> QED  BY <3>1, <3>2 DEF FateInv
  <2>3. CASE KeepsResumable(rec, s) /\ rec[s].status = pass.status
    <3>1. ~Over(rec, s)
      BY <1>2, <2>3 DEF Over
    <3>2. HasRow' /\ \A t \in Sessions : row'[t] = "running" => row[t] = "running"
      BY <2>3, NoRowRuns DEF KeepsResumable, ShowsPlaceholder, HasRow, Rows
    <3>3. /\ Settles(rec, rec') /\ \A n \in Sessions : Carries(rec, rec', n)
          /\ \A t \in Sessions : rec'[t].status = "queued" => rec'[t] = rec[t]
      <4>1. rec' = rec \/ rec' = MarkSuspended(rec, s, "system")
        BY <2>3 DEF KeepsResumable
      <4>2. LET q == MarkSuspended(rec, s, "system") IN
            /\ Settles(rec, q) /\ \A n \in Sessions : Carries(rec, q, n)
            /\ \A t \in Sessions : t # s => q[t] = rec[t]
            /\ rec[s].status \in {"exited", "orphaned", "running"} => q[s].status = "suspended"
        BY <1>0, <3>1, MarkSuspendedFacts, MarkSuspendedCarries
      <4>3. rec[s].status \in {"suspended", "exited", "orphaned"}
        BY DEF s, PauseInv, PassFits, Keep, StartRecovered
      <4>4. rec' = rec \/ rec[s].status # "suspended"
        BY <2>3 DEF KeepsResumable
      <4> QED  BY <1>0, <4>1, <4>2, <4>3, <4>4, SettlesSame, SameCarries
    <3>4. ConvOK' /\ FateOK'
      BY <1>1, <3>3, ConvKept, FateKept DEF FateInv, Carries
    <3>5. QueuedOK'
      BY <1>1, <3>2, <3>3, QueuedKept DEF FateInv
    <3>6. StartOK' /\ LooksOK' /\ UntouchedOK'
      BY <1>1, <1>3, <1>4, <2>1, <3>2, IdleIs DEF StartOK, LooksOK, UntouchedOK, Untouched,
         Looking
    <3> QED  BY <3>4, <3>5, <3>6 DEF FateInv
  <2> QED  BY <2>1, <2>2, <2>3
<1>6. CASE /\ Starts("recovery", track, pass.conv, s) /\ pass.stage = "start"
           /\ pass' = [stage |-> "starting"]
           /\ UNCHANGED <<rec, row, placeholder, sid>>
  <2>1. ConvOK' /\ FateOK' /\ QueuedOK'
    BY <1>1, <1>6, SameFate
  <2>2. /\ op'.kind = "recovery" /\ op'.track = track /\ op'.retire = s
        /\ op'.resumes <=> pass.conv # NoSession
        /\ op'.resumes => op'.conv = pass.conv
        /\ ~op'.resumes => op'.conv \in {NoSession, op'.s}
    <3> DEFINE conv == pass.conv
    <3>1. Starts("recovery", track, conv, s)
      BY <1>6
    <3> HIDE DEF conv, track, s
    <3> QED  BY <3>1, StartsConv DEF conv
  <2> HIDE DEF s
  <2>3. StartOK'
    BY <1>2, <1>6, <2>2 DEF StartOK
  <2>4. LooksOK' /\ UntouchedOK'
    BY <1>1, <1>3, <1>4, <1>6, <2>2 DEF LooksOK, UntouchedOK, Untouched, Looking, OpenHere, Newest
  <2> QED  BY <2>1, <2>3, <2>4 DEF FateInv
<1> QED  BY <1>1, <1>5, <1>6

(* Gathering carries every conversation that its track's newest record has. *)
LEMMA OrphanedCarries ==
  ASSUME NEW r \in Tables, NEW n \in Sessions
  PROVE  /\ Carries(r, Orphaned(r), n)
         /\ Busy(r, n) => Orphaned(r)[n].status = "orphaned"
         /\ Orphaned(r)[n].bad = r[n].bad
<1>1. Orphaned(r)[n] =
        IF r[n].status \in {"running", "queued"} THEN [r[n] EXCEPT !.status = "orphaned"] ELSE r[n]
  BY DEF Orphaned
<1>2. /\ [r[n] EXCEPT !.status = "orphaned"].status = "orphaned"
      /\ [r[n] EXCEPT !.status = "orphaned"].conv = r[n].conv
      /\ [r[n] EXCEPT !.status = "orphaned"].bad = r[n].bad
  BY DEF Tables, Record
<1> QED  BY <1>1, <1>2 DEF Carries, Over, Busy

(* No agent that ended by itself is gathered. *)
LEMMA GatheredIsNotOver ==
  ASSUME NEW r, NEW n \in Gathered(r)
  PROVE  ~Over(r, n)
BY DEF Gathered, Interrupted, Over

(* Keeping one record of each track carries its newest's conversation on. *)
LEMMA DeduplicatedCarries ==
  ASSUME NEW r \in Tables, NEW n \in Sessions
  PROVE  LET q == Deduplicated(r) IN
         /\ q[n].conv = r[n].conv
         /\ Over(r, n) => Over(q, n)
         /\ n = LatestOn(r, r[n].track) => Carries(r, q, n)
<1> DEFINE q == Deduplicated(r)
<1>0. n \in Ref
  BY DEF Ref
<1>1. CASE n \notin Gathered(r)
  <2>1. q[n] = r[n]
    BY <1>1 DEF Deduplicated
  <2> QED  BY <2>1 DEF Carries, Over
<1>2. CASE n \in Gathered(r) /\ ~NewestOf(r, n)
  <2>1. q[n] = Retire(r, n)[n]
    BY <1>2 DEF Deduplicated
  <2>2. n # LatestOn(r, r[n].track)
    BY <1>2, NewestIsKept DEF NewestOf
  <2> QED  BY <1>0, <1>2, <2>1, <2>2, RetireCarries, GatheredIsNotOver
<1>3. CASE n \in Gathered(r) /\ NewestOf(r, n)
  <2>1. q[n] = r[n] \/ q[n] = MarkSuspended(r, n, "system")[n]
    BY <1>3 DEF Deduplicated
  <2>2. ~Over(r, n)
    BY <1>3, GatheredIsNotOver
  <2>3. Carries(r, MarkSuspended(r, n, "system"), n)
    BY <1>0, <2>2, MarkSuspendedCarries
  <2> QED  BY <2>1, <2>2, <2>3 DEF Carries, Over
<1> QED  BY <1>1, <1>2, <1>3

(* An open conversation is gathered with its track's newest record. *)
LEMMA OpenIsGathered ==
  ASSUME Inv, FateInv, NEW c \in Sessions, fate[c] = "open"
  PROVE  LET found == Orphaned(rec) IN
         /\ Newest(c) \in Sessions /\ rec[Newest(c)].conv = c
         /\ Newest(c) = Largest({g \in Gathered(found) : found[g].track = rec[c].track})
<1> DEFINE n == Newest(c)
           found == Orphaned(rec)
<1>1. rec \in Tables /\ c \in Made(rec) /\ rec[n].conv = c /\ ~Over(rec, n)
  BY InvFacts DEF FateInv, FateOK
<1>2. n \in Made(rec) /\ n \in Sessions /\ rec[n].track = rec[c].track
  BY <1>1, NewestIs DEF Newest
<1>3. found \in Tables /\ Settles(rec, found) /\ \A t \in Sessions : ~Busy(found, t)
  BY <1>1, OrphanedFacts DEF Settles
<1>4. /\ LatestOn(found, rec[c].track) = n /\ n \in Made(found)
      /\ found[n].track = rec[c].track /\ found[n].conv = c /\ ~Over(found, n)
  BY <1>1, <1>2, <1>3, SameLatest, OrphanedCarries DEF Newest, Settles, Carries
<1>5. found[n].status \in Statuses /\ found[n].status \notin {"none", "running", "queued"}
  BY <1>2, <1>3, <1>4 DEF Tables, Record, Made, Busy
<1> HIDE DEF n, found
<1>6. n \in Gathered(found)
  BY <1>4, <1>5, ReconciledIs DEF Gathered, Interrupted, Over, Statuses
<1>7. n = Largest({g \in Gathered(found) : found[g].track = found[n].track})
  BY <1>3, <1>4, <1>6, NewestIsKept
<1> QED  BY <1>1, <1>2, <1>4, <1>7 DEF n, found

(* Gathering keeps the invariant: an open conversation's record is looked at. *)
LEMMA GatherFate ==
  ASSUME Inv, PauseInv, FateInv, NEW autoResume, Gather(autoResume), Settles(rec, rec'),
         \A t \in Sessions : ~Busy(rec', t)
  PROVE  FateInv'
<1> DEFINE found == Orphaned(rec)
           r == Deduplicated(found)
           s == Largest({g \in Gathered(found) : found[g].track = Track(column)})
<1>0. rec \in Tables
  BY InvFacts
<1>1. /\ UNCHANGED <<column, op, move, resume, touched>> /\ pass.stage = "gather"
      /\ \/ /\ s = NoSession /\ GatherLeaves(r) /\ pass' = [stage |-> "discover"]
            /\ fate' = fate
         \/ /\ s # NoSession /\ r[s].status = "orphaned" /\ fate' = Told(r[s].conv, "given up")
            /\ GatherLeaves(Retire(r, s)) /\ pass' = [stage |-> "discover"]
         \/ /\ s # NoSession /\ KeepsResumable(r, s) /\ pass' = [stage |-> "discover"]
            /\ fate' = fate
         \/ /\ s # NoSession /\ GatherLeaves(r) /\ fate' = fate
            /\ pass' = [stage |-> "prepare", s |-> s, status |-> r[s].status,
                        sid |-> sid, column |-> column, conv |-> NoSession,
                        newest |-> s = LatestOn(r, r[s].track)]
  BY DEF Gather, boardVars, lifeVars
<1>2. op = Idle /\ move = NoMove /\ Live = {} /\ ~resume /\ row = NoRows
  BY <1>1, InvFacts, NoRowsIs DEF QuietOK
<1>3. Settles(rec, found) /\ found \in Tables
  BY <1>0, OrphanedFacts DEF Settles
<1>4. Settles(found, r) /\ r \in Tables
  BY <1>3, DeduplicatedFacts DEF Settles
<1>5. Settles(rec, r)
  BY <1>3, <1>4, SettlesTwice
<1>6. \A n \in Sessions :
        /\ r[n].conv = rec[n].conv
        /\ Over(rec, n) => Over(r, n)
        /\ n = LatestOn(rec, rec[n].track) => Carries(rec, r, n)
  <2>1. \A n \in Sessions : Carries(rec, found, n) /\ found[n].track = rec[n].track
    BY <1>0, <1>3, OrphanedCarries DEF Settles
  <2>2. \A t : LatestOn(found, t) = LatestOn(rec, t)
    BY <1>0, <1>3, SameLatest
  <2>3. \A n \in Sessions :
          /\ r[n].conv = found[n].conv
          /\ Over(found, n) => Over(r, n)
          /\ n = LatestOn(found, found[n].track) => Carries(found, r, n)
    BY <1>3, DeduplicatedCarries
  <2> HIDE DEF found, r
  <2> QED  BY <2>1, <2>2, <2>3 DEF Carries
<1>7. s # NoSession =>
        /\ s \in Sessions /\ s \in Ref /\ r[s] = found[s] /\ r[s].track = Track(column)
        /\ ~Over(r, s) /\ s \in Gathered(found)
  <2> SUFFICES ASSUME s # NoSession
               PROVE  /\ s \in Sessions /\ s \in Ref /\ r[s] = found[s]
                      /\ r[s].track = Track(column)
                      /\ ~Over(r, s) /\ s \in Gathered(found)
    OBVIOUS
  <2>1. s \in Gathered(found) /\ found[s].track = Track(column)
    <3> DEFINE G == {g \in Gathered(found) : found[g].track = Track(column)}
    <3>1. G \in SUBSET Sessions /\ \A g \in G : g \in Gathered(found) /\ found[g].track = Track(column)
      BY DEF Gathered, Made
    <3> HIDE DEF G, found
    <3>2. Largest(G) # NoSession => Largest(G) \in G
      BY <3>1, LargestIs
    <3> QED  BY <3>1, <3>2 DEF G
  <2>2. NewestOf(found, s) /\ s \in Sessions
    BY <2>1 DEF NewestOf, Gathered, Made
  <2> HIDE DEF s, found
  <2>3. Deduplicated(found)[s] = found[s]
    BY <2>1, <2>2 DEF Deduplicated
  <2> QED  BY <2>1, <2>2, <2>3, GatheredIsNotOver DEF Ref, Over
<1>8. \A c \in Sessions : fate[c] = "open" /\ rec[c].track = Track(column) =>
        s = Newest(c) /\ rec[s].conv = c /\ s # NoSession
  BY OpenIsGathered, ReconciledIs
<1> HIDE DEF found, r, s
<1>9. /\ \A c \in Sessions : fate'[c] \in {"open", "ended"} => fate'[c] = fate[c]
      /\ \A n \in Sessions : rec'[n].conv = rec[n].conv
      /\ \A n \in Sessions : Carries(rec, rec', n) \/ Drops(rec, rec', fate', n)
  <2>1. ASSUME NEW n \in Sessions, NEW f PROVE Carries(rec, r, n) \/ Drops(rec, r, f, n)
    BY <1>6 DEF Carries, Drops
  <2>2. CASE rec' = r /\ fate' = fate
    BY <1>6, <2>1, <2>2
  <2>3. CASE s # NoSession /\ KeepsResumable(r, s) /\ fate' = fate
    <3>1. \A n \in Sessions : Carries(r, rec', n)
      <4>1. rec' = r \/ rec' = MarkSuspended(r, s, "system")
        BY <2>3 DEF KeepsResumable
      <4>2. \A n \in Sessions : Carries(r, MarkSuspended(r, s, "system"), n)
        BY <1>4, <1>7, <2>3, MarkSuspendedCarries
      <4> QED  BY <4>1, <4>2, SameCarries
    <3>2. ASSUME NEW n \in Sessions PROVE Carries(rec, rec', n) \/ Drops(rec, rec', fate', n)
      <4>1. Carries(rec, r, n) \/ Drops(rec, r, fate', n)
        BY <2>1
      <4> QED  BY <3>1, <4>1 DEF Carries, Drops
    <3> QED  BY <1>6, <2>3, <3>1, <3>2 DEF Carries
  <2>4. CASE /\ s # NoSession /\ r[s].status = "orphaned" /\ fate' = Told(r[s].conv, "given up")
             /\ rec' = Retire(r, s)
    <3>1. \A c \in Sessions : fate'[c] = IF c = r[s].conv THEN "given up" ELSE fate[c]
      BY <2>4 DEF Told
    <3>2. \A n \in Sessions : rec'[n].conv = rec[n].conv
      BY <1>4, <1>6, <1>7, <2>4, RetireCarries
    <3>3. ASSUME NEW n \in Sessions PROVE Carries(rec, rec', n) \/ Drops(rec, rec', fate', n)
      <4>1. CASE n # s
        <5>1. rec'[n] = r[n]
          BY <1>4, <1>7, <2>4, <4>1, RetireCarries
        <5>2. Carries(rec, r, n) \/ Drops(rec, r, fate', n)
          BY <2>1
        <5> QED  BY <5>1, <5>2 DEF Carries, Drops, Over
      <4>2. CASE n = s
        <5>1. ~Over(rec, s) /\ rec[s].conv = r[s].conv
          BY <1>6, <1>7, <2>4
        <5>2. rec[s].conv # NoSession => rec[s].conv \in Sessions
          BY <1>0, <1>7, <2>4 DEF Tables, Record, Ref
        <5> QED  BY <3>1, <3>2, <4>2, <5>1, <5>2 DEF Drops
      <4> QED  BY <4>1, <4>2
    <3> QED  BY <3>1, <3>2, <3>3
  <2> QED  BY <1>1, <2>2, <2>3, <2>4 DEF GatherLeaves
<1>10. ConvOK' /\ FateOK'
  BY <1>9, ConvKept, FateKept DEF FateInv
<1>11. QueuedOK' /\ StartOK'
  BY <1>1, <1>2, IdleIs DEF QueuedOK, StartOK, Busy
<1>12. \A c \in Sessions : rec'[c].track = rec[c].track /\ Newest(c)' = Newest(c)
  BY <1>0, SameLatest DEF Newest, Settles
<1>14. LooksOK'
  <2> SUFFICES ASSUME s # NoSession, rec' = r,
                      pass' = [stage |-> "prepare", s |-> s, status |-> r[s].status,
                               sid |-> sid, column |-> column, conv |-> NoSession,
                               newest |-> s = LatestOn(r, r[s].track)]
               PROVE  LooksOK'
    <3>1. pass' = [stage |-> "discover"] => ~Looking(pass')
      BY DEF Looking
    <3>2. ~Looking(pass') => LooksOK'
      BY DEF LooksOK
    <3> QED  BY <1>1, <3>1, <3>2 DEF GatherLeaves
  <2>1. r[s].status = "exited" => r[s].bad
    BY <1>7 DEF Over
  <2>2. pass'.s = s /\ pass'.conv = NoSession /\ pass'.stage = "prepare" /\ pass'.status = r[s].status
        /\ (pass'.newest => LatestOn(r, r[s].track) = s)
    OBVIOUS
  <2> QED  BY <2>1, <2>2 DEF LooksOK
<1>15. UntouchedOK'
  <2>1. CASE pass' = [stage |-> "discover"]
    <3>1. OpenHere' # {} => HasRow'
      <4> SUFFICES ASSUME NEW c \in Sessions, fate'[c] = "open", rec'[c].track = Track(column)
                   PROVE  HasRow'
        BY <1>1 DEF OpenHere
      <4>1. fate[c] = "open" /\ rec[c].track = Track(column)
        BY <1>9, <1>12
      <4>2. s # NoSession /\ r[s].conv = c
        BY <1>6, <1>7, <1>8, <4>1
      <4>3. KeepsResumable(r, s)
        BY <1>1, <2>1, <4>2 DEF Told
      <4> QED  BY <4>3 DEF KeepsResumable, ShowsPlaceholder, HasRow, Rows
    <3> QED  BY <1>1, <1>2, <2>1, <3>1, IdleIs DEF UntouchedOK, Looking
  <2>2. CASE /\ s # NoSession /\ GatherLeaves(r) /\ fate' = fate
             /\ pass' = [stage |-> "prepare", s |-> s, status |-> r[s].status,
                         sid |-> sid, column |-> column, conv |-> NoSession,
                         newest |-> s = LatestOn(r, r[s].track)]
    <3>1. /\ pass'.s = s /\ pass'.stage = "prepare" /\ pass'.status = r[s].status
          /\ pass'.sid = sid /\ pass'.column = column
      BY <2>2
    <3>2. rec' = r /\ sid' = sid /\ Live' = {}
      BY <1>2, <2>2 DEF GatherLeaves, Live
    <3>3. \A c \in OpenHere' : Newest(c)' = s
      BY <1>1, <1>8, <1>12, <2>2 DEF OpenHere
    <3> QED  BY <1>1, <1>2, <1>7, <2>2, <3>1, <3>2, <3>3, IdleIs DEF UntouchedOK, RecordUnchanged
  <2> QED  BY <1>1, <2>1, <2>2
<1> QED  BY <1>10, <1>11, <1>14, <1>15 DEF FateInv

(* At the start no conversation is open, and no pass looks at a record. *)
LEMMA FateInit == Init => FateInv
<1> SUFFICES ASSUME Init PROVE FateInv
  OBVIOUS
<1>1. /\ Made(rec) = {} /\ op.kind \notin StartKinds /\ ~Looking(pass) /\ touched
      /\ \A c \in Sessions : fate[c] = "none" /\ rec[c].status # "queued"
  BY IdleIs DEF Init, Made, NoRecord, Looking, DonePass
<1>2. ConvOK /\ FateOK /\ QueuedOK
  BY <1>1 DEF ConvOK, FateOK, QueuedOK
<1>3. StartOK /\ LooksOK /\ UntouchedOK
  BY <1>1 DEF StartOK, LooksOK, UntouchedOK, Untouched
<1> QED  BY <1>2, <1>3 DEF FateInv

(* Every step keeps the invariant about conversations. *)
LEMMA FateNext ==
  ASSUME ~LateRollbacks, Inv, Inv', PauseInv, FateInv, [Next]_vars
  PROVE  FateInv'
<1>1. CASE Launch
  BY <1>1, LaunchFate
<1>2. CASE Users
  BY <1>2, MoveToFate, ResumeFate, PauseFate, ResetFate DEF Users
<1>3. CASE Agents
  BY <1>3, AgentsFate DEF Agents
<1>4. CASE Passes
  <2>1. ASSUME NEW autoResume \in AutoResume, Gather(autoResume) PROVE FateInv'
    BY <2>1, GatherStep, GatherFate
  <2> QED
    BY <1>4, <2>1, KeepFate, FreshFate, PrepareFate DEF Passes
<1>5. CASE Operations
  <2>1. ASSUME StartReturns PROVE FateInv'
    <3>1. /\ op.kind \in StartKinds /\ pass' = PassAfter(op.kind) /\ op' = Idle
          /\ (\E o \in Outcomes : Committed(o)) \/ Thrown
          /\ resume' = (resume /\ op.kind # "resume")
          /\ UNCHANGED <<column, touched>>
      BY <2>1 DEF StartReturns, StartKinds, lifeVars
    <3> QED  BY <3>1, CommitFate, ThrownFate
  <2> QED
    BY <1>5, <2>1, SuspendEndsFate, LandFate, RollbackFate, ResumeFate DEF Operations
<1>6. CASE Stops
  BY <1>6, StopPauses, StopFate DEF Stops
<1>7. CASE UNCHANGED vars
  <2>1. UNCHANGED <<rec, sid, column, row, placeholder, op, move, resume, pass, touched, fate>>
    BY <1>7 DEF vars, tableVars, registryVars, boardVars, lifeVars, ghostVars
  <2>2. UNCHANGED <<OpenHere, HasRow, RecordUnchanged>> /\ \A c \in Sessions : Newest(c)' = Newest(c)
    BY <2>1 DEF OpenHere, HasRow, Rows, RecordUnchanged, Live, Newest, LatestOn, OnTrack, Made
  <2>3. UntouchedOK'
    BY <2>1, <2>2 DEF FateInv, UntouchedOK, Untouched, OpenHere
  <2> QED  BY <2>1, <2>3, InvFacts, SameTable, SameFate, GentleFate
<1> QED  BY <1>1, <1>2, <1>3, <1>4, <1>5, <1>6, <1>7 DEF Next

(* What was last written on a track, if it is open, is an open conversation. *)
LEMMA OpenOnIs ==
  ASSUME Inv, FateInv, NEW track, OpenOn(track)
  PROVE  \E c \in Sessions : fate[c] = "open" /\ rec[c].track = track
<1> DEFINE S == {s \in OnTrack(rec, track) : rec[s].conv # NoSession /\ fate[rec[s].conv] # "none"}
<1>1. S \in SUBSET Sessions
  BY DEF OnTrack, Made
<1>2. LastWritten(track) # NoSession => LastWritten(track) \in S
  <2> HIDE DEF S
  <2>1. Largest(S) # NoSession => Largest(S) \in S
    BY <1>1, LargestIs
  <2> QED  BY <2>1 DEF LastWritten, S
<1>3. /\ LastWritten(track) \in Made(rec) /\ rec[LastWritten(track)].track = track
      /\ rec[LastWritten(track)].conv # NoSession /\ fate[rec[LastWritten(track)].conv] = "open"
  BY <1>2 DEF OpenOn, OnTrack
<1> QED  BY <1>3 DEF FateInv, ConvOK, Made

(* What a pass that starts an agent takes up: the invariant says of the
   state in which it starts one that it is on the track's conversation. *)
LEMMA NothingLeftOpen ==
  ASSUME Inv, FateInv, [Next]_vars, PassStarts, ~op'.resumes, ~touched
  PROVE  ~OpenOn(op'.track)
<1>1. CASE StartsNow({"auto"})
  <2>1. StartFresh /\ op'.kind = "auto"
    BY <1>1, StartersAre DEF StartsNow
  <2>2. /\ StillToSpawn /\ Starts("auto", Track(column), NoSession, NoSession)
        /\ pass.stage = "spawn"
    BY <2>1, IdleIs DEF StartFresh
  <2>3. op'.track = Track(column) /\ ~HasRow /\ Untouched
    BY <2>2 DEF Starts, StillToSpawn, Untouched
  <2>4. OpenHere = {}
    BY <2>2, <2>3 DEF FateInv, UntouchedOK
  <2> QED  BY <2>3, <2>4, OpenOnIs DEF OpenHere
<1>2. CASE StartsNow({"recovery"})
  <2> DEFINE s == pass.s
             track == rec[s].track
  <2>1. StartRecovered /\ op'.kind = "recovery"
    BY <1>2, StartersAre DEF StartsNow
  <2>2. Starts("recovery", track, pass.conv, s) /\ pass.stage = "start"
    BY <2>1, IdleIs DEF StartRecovered, KeepsIfUnchanged
  <2>3. op'.track = track /\ pass.conv = NoSession
    BY <2>2, StartsConv
  <2>4. Looking(pass) /\ Untouched
    BY <2>2 DEF Looking, Untouched
  <2>5. track = Track(column) /\ \A c \in OpenHere : Newest(c) = s
    BY <2>4 DEF FateInv, UntouchedOK
  <2>6. LatestOn(rec, track) = s => rec[s].conv = NoSession
    BY <2>2, <2>3, <2>4 DEF FateInv, LooksOK
  <2>7. ASSUME NEW c \in Sessions, fate[c] = "open", rec[c].track = track PROVE FALSE
    <3>1. rec[Newest(c)].conv = c /\ Newest(c) = s /\ LatestOn(rec, track) = s
      BY <2>5, <2>7 DEF FateInv, FateOK, OpenHere, Newest
    <3> QED  BY <2>6, <3>1, ReconciledIs
  <2> QED  BY <2>3, <2>7, OpenOnIs
<1> QED  BY <1>1, <1>2 DEF PassStarts

(* Nor does a pass take up the conversation of an agent that ended by itself. *)
LEMMA EndedIsSeen ==
  ASSUME Inv, PauseInv, FateInv, [Next]_vars, PassStarts, op'.resumes, pass.newest
  PROVE  fate[op'.conv] # "ended"
<1>1. CASE StartsNow({"auto"})
  <2>1. StartFresh /\ op'.kind = "auto"
    BY <1>1, StartersAre DEF StartsNow
  <2>2. Starts("auto", Track(column), NoSession, NoSession)
    BY <2>1, IdleIs DEF StartFresh
  <2> QED  BY <2>2, StartsConv
<1>2. CASE StartsNow({"recovery"}) /\ ShowsAResume
  <2> DEFINE s == pass.s
             track == rec[s].track
  <2>1. StartRecovered /\ op'.kind = "recovery"
    BY <1>2, StartersAre DEF StartsNow
  <2>2. /\ StillToStart /\ Starts("recovery", track, pass.conv, s) /\ pass.stage = "start"
    BY <2>1, IdleIs DEF StartRecovered, KeepsIfUnchanged
  <2>3. op'.conv = pass.conv /\ pass.conv # NoSession
    BY <2>2, StartsConv
  <2>4. rec[s].status = pass.status /\ sid = pass.sid
    BY <2>2 DEF StillToStart, RecordUnchanged
  <2>5. /\ pass.conv \in Made(rec) /\ rec[pass.conv].track = track
        /\ LatestOn(rec, track) = s => pass.conv = rec[s].conv
        /\ pass.status = "exited" => rec[s].bad
        /\ pass.sid # NoSession => LatestOn(rec, track) = s
    BY <2>2, <2>3, <2>4 DEF FateInv, LooksOK, Looking
  <2>6. LatestOn(rec, track) = s
    BY <1>2, <2>2, <2>4, <2>5 DEF ShowsAResume, PauseInv, PassFits
  <2>7. Newest(pass.conv) = s /\ rec[s].conv = pass.conv /\ pass.conv \in Sessions
    BY <2>5, <2>6 DEF Newest, Made
  <2>8. fate[pass.conv] = "ended" => Over(rec, s)
    BY <2>7 DEF FateInv, FateOK
  <2> QED  BY <2>3, <2>4, <2>5, <2>8 DEF Over
<1> QED  BY <1>1, <1>2 DEF PassStarts

(* What a launch starts agrees with how each conversation ended, over any
   number of quits, crashes and launches: it starts no fresh agent over a
   conversation that is open, when the user left the task alone, and brings
   none back that ended by itself; when a move's rollback finds no agent and
   no pass that came after it. *)
THEOREM LaunchesFollow ==
  ASSUME ~LateRollbacks
  PROVE  Spec => LaunchesFollowTheRecords
<1>1. Inv /\ PauseInv /\ FateInv /\ [Next]_vars => Inv' /\ PauseInv' /\ FateInv'
  BY InvNext, PauseNext, FateNext
<1>2. Inv /\ PauseInv /\ FateInv /\ [Next]_vars =>
        [PassStarts /\ ~op'.resumes /\ ~touched => ~OpenOn(op'.track)]_vars
  BY NothingLeftOpen
<1>3. Inv /\ PauseInv /\ FateInv /\ [Next]_vars =>
        [PassStarts /\ op'.resumes /\ pass.newest => fate[op'.conv] # "ended"]_vars
  BY EndedIsSeen
<1> QED  BY <1>1, <1>2, <1>3, InvInit, PauseInit, FateInit, PTL
         DEF Spec, LaunchesFollowTheRecords, NothingIsAbandoned, EndedStaysEnded

(* The steps with which the passes of a launch end. *)
LEMMA PassesEndBy ==
  ASSUME Inv, [Next]_vars, pass # DonePass, pass' = DonePass
  PROVE  \/ Discover \/ (\E ok \in BOOLEAN : Find(ok)) \/ StartFresh
         \/ StartReturns /\ op.kind = "auto"
<1>0. pass' # pass /\ pass'.stage = "done"
  BY DEF DonePass
<1>1. ~(UNCHANGED vars) /\ ~Launch /\ ~Stops
  BY <1>0 DEF vars, Launch, Stops, Crash, Quit, Down, NoPass
<1>2. ~Users
  BY <1>0 DEF Users, MoveTo, Resume, Pause, CancelResume, Reset
<1>3. ~Agents
  BY <1>0 DEF Agents, Promote, Capture, AgentEnds
<1>4. Operations => StartReturns /\ op.kind = "auto"
  <2>1. StartReturns => op.kind = "auto"
    BY <1>0 DEF StartReturns, PassAfter
  <2> QED
    BY <1>0, <2>1 DEF Operations, SuspendEnds, MoveLands, MoveFails, StaleMoveEnds, ResumeLands,
                      ResumeFails
<1>5. Passes => Discover \/ (\E ok \in BOOLEAN : Find(ok)) \/ StartFresh
  <2>1. ASSUME NEW autoResume, Gather(autoResume) PROVE FALSE
    <3> DEFINE r == Deduplicated(Orphaned(rec))
               s == Largest({g \in Gathered(Orphaned(rec)) : Orphaned(rec)[g].track = Track(column)})
               newest == s = LatestOn(r, r[s].track)
               looks == [stage |-> "prepare", s |-> s, status |-> r[s].status, sid |-> sid,
                         column |-> column, conv |-> NoSession, newest |-> newest]
    <3>1. pass' = [stage |-> "discover"] \/ pass' = looks
      BY <2>1 DEF Gather
    <3>2. looks.stage = "prepare"
      OBVIOUS
    <3> HIDE DEF looks
    <3> QED  BY <1>0, <3>1, <3>2
  <2>2. ASSUME NEW ok, Prepare(ok) PROVE FALSE
    <3> DEFINE m == LatestOn(rec, rec[pass.s].track)
               conv == IF Eligible(rec, m) THEN rec[m].conv ELSE NoSession
    <3>1. pass \in [stage : {"prepare", "start", "keep"}, s : Sessions, status : Statuses,
                    sid : Ref, column : Columns, conv : Ref, newest : BOOLEAN]
      BY <2>2, PassIs DEF Prepare
    <3>2. \/ pass' = [pass EXCEPT !.stage = "start", !.conv = conv]
          \/ pass' = [pass EXCEPT !.stage = "keep"]
          \/ pass' = [stage |-> "discover"]
      BY <2>2 DEF Prepare
    <3> HIDE DEF conv
    <3> DEFINE starts == [pass EXCEPT !.stage = "start", !.conv = conv]
               keeps == [pass EXCEPT !.stage = "keep"]
    <3>3. starts.stage = "start" /\ keeps.stage = "keep"
      BY <3>1
    <3>4. pass' = starts \/ pass' = keeps \/ pass' = [stage |-> "discover"]
      BY <3>2
    <3> HIDE DEF starts, keeps
    <3> QED  BY <1>0, <3>3, <3>4
  <2>3. ~Keep /\ ~StartRecovered
    BY <1>0 DEF Keep, StartRecovered, KeepsIfUnchanged
  <2> QED  BY <2>1, <2>2, <2>3 DEF Passes
<1> QED  BY <1>1, <1>2, <1>3, <1>4, <1>5 DEF Next

(* However the passes end, an open conversation has an agent or a row. *)
LEMMA NothingLeftAside ==
  ASSUME ~LateRollbacks, Inv, PauseInv, FateInv, [Next]_vars,
         pass # DonePass, pass' = DonePass, ~touched, OpenOn(Track(column))
  PROVE  HasRow'
<1>1. OpenHere # {}
  BY OpenOnIs DEF OpenHere
<1>2. CASE Discover \/ (\E ok \in BOOLEAN : Find(ok)) \/ StartFresh
  <2>1. Untouched
    BY <1>2 DEF Untouched, Discover, Find, StartFresh
  <2> QED  BY <1>1, <1>2, <2>1, FreshFate
<1>3. CASE StartReturns /\ op.kind = "auto"
  <2>1. pass.stage = "spawning" /\ op.s \in Sessions
    BY <1>3, InvFacts, IdleIs DEF PauseInv, RetireOK, StartKinds, OpOK
  <2>2. HasRow
    BY <1>1, <2>1 DEF FateInv, UntouchedOK, Untouched
  <2>3. ASSUME NEW outcome \in Outcomes, Committed(outcome) PROVE HasRow'
    <3>1. row' = [NoRows EXCEPT ![op.s] = Answered(outcome)] /\ Answered(outcome) # "none"
      BY <2>3, RecordAssumption DEF Committed, Answered
    <3>2. row'[op.s] = Answered(outcome)
      BY <2>1, <3>1 DEF NoRows
    <3> QED  BY <2>1, <3>1, <3>2 DEF HasRow, Rows
  <2>4. Thrown => HasRow'
    BY <2>2, RowsSame DEF Thrown, registryVars
  <2> QED  BY <1>3, <2>3, <2>4 DEF StartReturns
<1> QED  BY <1>2, <1>3, PassesEndBy

(* When the passes of a launch are done with a task that the user left
   alone, its open conversation has an agent, or its card a row that offers
   one; when a move's rollback finds no agent and no pass that came after it. *)
THEOREM NothingStaysStranded ==
  ASSUME ~LateRollbacks
  PROVE  Spec => NothingIsStranded
<1>1. Inv /\ PauseInv /\ FateInv /\ [Next]_vars => Inv' /\ PauseInv' /\ FateInv'
  BY InvNext, PauseNext, FateNext
<1>2. Inv /\ PauseInv /\ FateInv /\ [Next]_vars =>
        [pass # DonePass /\ pass' = DonePass /\ ~touched /\ OpenOn(Track(column)) => HasRow']_vars
  BY NothingLeftAside
<1> QED  BY <1>1, <1>2, InvInit, PauseInit, FateInit, PTL DEF Spec, NothingIsStranded
=============================================================================
