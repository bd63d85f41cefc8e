------------------------- MODULE Backpressure_proofs -------------------------
(***************************************************************************)
(* Proofs about Backpressure, for any renderers, any water marks in their  *)
(* order, and backlogs of any length.  A call of the controller is proved  *)
(* once to leave a record that fits the buffer; an action then only has to *)
(* name its calls.  What the readers owe is counted slice by slice.        *)
(***************************************************************************)
EXTENDS Backpressure, FiniteSetTheorems, TLAPS

Records ==
  [tracked : BOOLEAN, inFlight : Nat, pending : Nat, paused : BOOLEAN, released : BOOLEAN]

(* A record the controller works on: it has one for every pause, and none   *)
(* of a PTY that has exited is paused.                                      *)
Sound(e) ==
  /\ e \in Records
  /\ ~e.tracked => e = NoEntry
  /\ e.paused => pty # "ended"

Bounded(e) == ~e.paused /\ pty # "ended" => e.inFlight < Released

(* A record that fits a buffer of length n. *)
Fits(e, n) ==
  /\ Sound(e) /\ Bounded(e)
  /\ e.paused => e.inFlight > Low \/ e.pending > PendLow
  /\ e.tracked => e.pending = n
  /\ e.tracked /\ ~e.paused /\ pty # "ended" => n < PendHigh

Inv ==
  /\ TypeOK
  /\ Fits(entry, pending)
  /\ pty # "ended" => (pty = "paused" <=> entry.paused)
  /\ entry.paused => timer

-----------------------------------------------------------------------------
(* The controller's calls. *)
(* What an acknowledgement leaves in flight. *)
LEMMA MaxIsNat ==
  ASSUME NEW i \in Nat, NEW n \in Nat
  PROVE  /\ Max({0, i - n}) \in Nat /\ Max({0, i - n}) <= i
         /\ Max({0, i - n}) \in {0, i - n}
<1>1. \E x \in {0, i - n} : \A y \in {0, i - n} : x >= y
  <2>1. CASE i - n >= 0
    BY <2>1
  <2>2. CASE i - n < 0
    BY <2>2
  <2> QED  BY <2>1, <2>2
<1>2. Max({0, i - n}) \in {0, i - n} /\ \A y \in {0, i - n} : Max({0, i - n}) >= y
  BY <1>1 DEF Max
<1> QED  BY <1>2

(* A record that was looked at by pauseIfBehind is paused or below every water. *)
LEMMA PauseFacts ==
  ASSUME NEW e \in Records
  PROVE  LET f == PauseIfBehind(e)
         IN  /\ f \in Records
             /\ f.tracked = e.tracked /\ f.inFlight = e.inFlight /\ f.pending = e.pending
             /\ f.paused => e.paused \/ pty # "ended"
             /\ ~f.paused /\ pty # "ended" => f.inFlight < Released /\ f.pending < PendHigh
<1>1. CASE PauseIfBehind(e) = [e EXCEPT !.paused = TRUE] /\ pty # "ended"
  BY <1>1 DEF Records
<1>2. CASE /\ PauseIfBehind(e) = e
           /\ ~e.paused /\ pty # "ended" => e.inFlight < Released /\ e.pending < PendHigh
  BY <1>2
<1>3. /\ e.inFlight \in Nat /\ e.pending \in Nat
      /\ e.inFlight < High => e.inFlight < Released
  BY BackpressureAssumption DEF Records
<1> QED  BY <1>1, <1>2, <1>3, BackpressureAssumption DEF PauseIfBehind

(* resumeIfCaughtUp lets go only what is at its low waters. *)
LEMMA ResumeFacts ==
  ASSUME NEW e \in Records
  PROVE  LET f == ResumeIfCaughtUp(e)
         IN  /\ f \in Records
             /\ f.tracked = e.tracked /\ f.inFlight = e.inFlight /\ f.pending = e.pending
             /\ f.paused => e.paused /\ (e.inFlight > Low \/ e.pending > PendLow)
             /\ ~f.paused => ~e.paused \/ (e.inFlight <= Low /\ e.pending <= PendLow)
<1>1. CASE e.paused /\ e.inFlight <= Low /\ e.pending <= PendLow
  BY <1>1 DEF Records, ResumeIfCaughtUp
<1>2. CASE ~(e.paused /\ e.inFlight <= Low /\ e.pending <= PendLow)
  <2>1. e.inFlight \in Nat /\ e.pending \in Nat
    BY DEF Records
  <2> QED  BY <1>2, <2>1, BackpressureAssumption DEF ResumeIfCaughtUp
<1> QED  BY <1>1, <1>2

(* What a record that a call ends with has to satisfy. *)
LEMMA ResumedFits ==
  ASSUME NEW e \in Records, NEW m \in Nat, e.tracked, e.pending = m,
         e.paused => pty # "ended",
         ~e.paused /\ pty # "ended" => e.inFlight < Released /\ m < PendHigh
  PROVE  Fits(ResumeIfCaughtUp(e), m)
<1> DEFINE f == ResumeIfCaughtUp(e)
<1>1. /\ f \in Records
      /\ f.tracked = e.tracked /\ f.inFlight = e.inFlight /\ f.pending = e.pending
      /\ f.paused => e.paused /\ (e.inFlight > Low \/ e.pending > PendLow)
      /\ ~f.paused => ~e.paused \/ (e.inFlight <= Low /\ e.pending <= PendLow)
  BY ResumeFacts
<1>2. /\ e.inFlight \in Nat
      /\ e.inFlight <= Low => e.inFlight < Released
      /\ m <= PendLow => m < PendHigh
  BY BackpressureAssumption DEF Records
<1> HIDE DEF f
<1>3. Fits(f, m)
  BY <1>1, <1>2 DEF Fits, Sound, Bounded
<1> QED  BY <1>3 DEF f

(* No record fits any buffer. *)
LEMMA NoEntryFits ==
  ASSUME NEW n \in Nat
  PROVE  Fits(NoEntry, n)
BY BackpressureAssumption DEF Fits, Sound, Bounded, NoEntry, Records

(* A batch is counted before the buffer is, so only half of the record holds. *)
LEMMA EmittedIsSound ==
  ASSUME NEW e, Sound(e), Bounded(e), NEW n \in Nat
  PROVE  Sound(RecordEmitted(e, n)) /\ Bounded(RecordEmitted(e, n))
<1> DEFINE tracked == IF e.tracked THEN e ELSE Fresh
           counted == [tracked EXCEPT !.inFlight = @ + n]
<1>1. tracked \in Records /\ tracked.tracked /\ (tracked.paused => pty # "ended")
  BY DEF Sound, Records, Fresh, NoEntry
<1>2. /\ counted \in Records /\ counted.tracked
      /\ counted.paused => pty # "ended"
  BY <1>1 DEF Records
<1> HIDE DEF counted
<1>3. Sound(PauseIfBehind(counted)) /\ Bounded(PauseIfBehind(counted))
  BY <1>2, PauseFacts DEF Sound, Bounded
<1> QED  BY <1>3 DEF RecordEmitted, counted

(* The note of the buffer's length repairs whatever the batch left. *)
LEMMA PendingFits ==
  ASSUME NEW e, Sound(e), Bounded(e), NEW n \in Nat
  PROVE  Fits(RecordPending(e, n), n)
<1>1. CASE ~e.tracked /\ n < PendHigh
  BY <1>1, NoEntryFits DEF RecordPending, Sound
<1>2. CASE e.tracked \/ n >= PendHigh
  <2> DEFINE tracked == IF e.tracked THEN e ELSE Fresh
             noted == [tracked EXCEPT !.pending = n]
  <2>1. tracked \in Records /\ tracked.tracked /\ (tracked.paused => pty # "ended")
    BY DEF Sound, Records, Fresh, NoEntry
  <2>2. noted \in Records /\ noted.tracked /\ noted.pending = n /\ (noted.paused => pty # "ended")
    BY <2>1 DEF Records
  <2> HIDE DEF noted
  <2> DEFINE behind == PauseIfBehind(noted)
  <2>3. /\ behind \in Records /\ behind.tracked /\ behind.pending = n
        /\ behind.paused => pty # "ended"
        /\ ~behind.paused /\ pty # "ended" => behind.inFlight < Released /\ n < PendHigh
    BY <2>2, PauseFacts
  <2> HIDE DEF behind
  <2>4. Fits(ResumeIfCaughtUp(behind), n)
    BY <2>3, ResumedFits
  <2>5. RecordPending(e, n) = ResumeIfCaughtUp(behind)
    BY <1>2, BackpressureAssumption DEF RecordPending, behind, noted
  <2> QED  BY <2>4, <2>5
<1> QED  BY <1>1, <1>2, BackpressureAssumption

(* An acknowledgement takes away from what is in flight, and lifts the raise. *)
LEMMA AcknowledgeFits ==
  ASSUME NEW e, NEW m \in Nat, Fits(e, m), NEW n \in Nat
  PROVE  Fits(Acknowledge(e, n), m)
<1>1. CASE ~e.tracked
  BY <1>1 DEF Acknowledge
<1>2. CASE e.tracked
  <2> DEFINE acked == [e EXCEPT !.released = FALSE, !.inFlight = Max({0, @ - n})]
  <2>1. e \in Records /\ e.inFlight \in Nat
    BY DEF Fits, Sound, Records
  <2>2. Max({0, e.inFlight - n}) \in Nat /\ Max({0, e.inFlight - n}) <= e.inFlight
    BY <2>1, MaxIsNat
  <2>3. /\ acked \in Records /\ acked.tracked /\ acked.pending = e.pending
        /\ acked.paused = e.paused /\ acked.inFlight <= e.inFlight
    BY <1>2, <2>1, <2>2 DEF Records
  <2> HIDE DEF acked
  <2>4. ~acked.paused /\ pty # "ended" => acked.inFlight < Released /\ m < PendHigh
    BY <1>2, <2>1, <2>2, <2>3, BackpressureAssumption DEF Fits, Bounded, Records
  <2>5. Fits(ResumeIfCaughtUp(acked), m)
    BY <1>2, <2>3, <2>4, ResumedFits DEF Fits, Sound
  <2> QED  BY <1>2, <2>5 DEF Acknowledge, acked
<1> QED  BY <1>1, <1>2

(* A stale release forgets what is in flight and raises the high water. *)
LEMMA ReleaseFits ==
  ASSUME NEW e, NEW m \in Nat, Fits(e, m)
  PROVE  Fits(ReleaseStale(e), m)
<1>1. CASE ~(e.paused /\ e.inFlight > Low)
  BY <1>1 DEF ReleaseStale
<1>2. CASE e.paused /\ e.inFlight > Low
  <2> DEFINE let == [e EXCEPT !.inFlight = 0, !.released = TRUE]
  <2>0. e \in Records /\ (~e.tracked => e = NoEntry)
    BY DEF Fits, Sound
  <2>3. e.tracked
    BY <1>2, <2>0 DEF NoEntry
  <2>1. /\ let \in Records /\ let.tracked = e.tracked /\ let.pending = e.pending
        /\ let.paused /\ let.inFlight = 0
    BY <1>2, <2>0 DEF Records
  <2> HIDE DEF let
  <2>2. Fits(ResumeIfCaughtUp(let), m)
    BY <1>2, <2>1, <2>3, ResumedFits DEF Fits, Sound
  <2> QED  BY <1>2, <2>2 DEF ReleaseStale, let
<1> QED  BY <1>1, <1>2

-----------------------------------------------------------------------------
(* What the count owes its readers, slice by slice. *)

(* The slices r holds beyond its first i. *)
Beyond(r, i, n) == {r} \X ((i + 1)..(i + n))

LEMMA BeyondCounts ==
  ASSUME NEW r, NEW i \in Nat, NEW n \in Nat
  PROVE  IsFiniteSet(Beyond(r, i, n)) /\ Cardinality(Beyond(r, i, n)) = n
<1> DEFINE I == (i + 1)..(i + n)
<1>1. IsFiniteSet(I) /\ Cardinality(I) = n
  <2>1. /\ IsFiniteSet(I)
        /\ Cardinality(I) = IF i + 1 > i + n THEN 0 ELSE (i + n) - (i + 1) + 1
    BY FS_Interval
  <2> HIDE DEF I
  <2> QED  BY <2>1
<1>2. IsFiniteSet({r}) /\ Cardinality({r}) = 1
  BY FS_Singleton
<1> HIDE DEF I
<1>3. IsFiniteSet({r} \X I) /\ Cardinality({r} \X I) = 1 * Cardinality(I)
  BY <1>1, <1>2, FS_Product
<1> QED  BY <1>1, <1>3 DEF Beyond, I

LEMMA OwedIsFinite ==
  ASSUME NEW u \in [Renderers -> Nat]
  PROVE  IsFiniteSet(Owed(u)) /\ Cardinality(Owed(u)) \in Nat
<1> DEFINE slices(r) == {r} \X (1..u[r])
           all == {slices(r) : r \in Renderers}
<1>1. \A r \in Renderers : IsFiniteSet(slices(r))
  <2> SUFFICES ASSUME NEW r \in Renderers PROVE IsFiniteSet(slices(r))
    OBVIOUS
  <2>1. IsFiniteSet(Beyond(r, 0, u[r])) /\ Beyond(r, 0, u[r]) = slices(r)
    <3>1. u[r] \in Nat /\ (0 + 1)..(0 + u[r]) = 1..u[r]
      OBVIOUS
    <3> QED  BY <3>1, BeyondCounts DEF Beyond
  <2> QED  BY <2>1
<1>2. IsFiniteSet(all)
  <2> DEFINE f == [r \in Renderers |-> slices(r)]
  <2>1. f \in Surjection(Renderers, all)
    <3> HIDE DEF slices
    <3> QED  BY DEF Surjection
  <2> HIDE DEF f, all
  <2> QED  BY <2>1, BackpressureAssumption, FS_Surjection
<1>3. IsFiniteSet(UNION all)
  <2> HIDE DEF slices
  <2> QED  BY <1>1, <1>2, FS_UNION
<1> QED  BY <1>3, FS_CardinalityType DEF Owed

(* A flush that a port takes adds n slices at least. *)
LEMMA OwedGrows ==
  ASSUME NEW u \in [Renderers -> Nat], NEW v \in [Renderers -> Nat],
         NEW n \in Nat, NEW r \in Renderers,
         \A x \in Renderers : u[x] <= v[x], v[r] = u[r] + n
  PROVE  Cardinality(Owed(u)) + n <= Cardinality(Owed(v))
<1> DEFINE B == Beyond(r, u[r], n)
<1>1. IsFiniteSet(B) /\ Cardinality(B) = n
  BY BeyondCounts
<1>2. Owed(u) \cup B \subseteq Owed(v)
  BY DEF Owed, Beyond
<1>3. Owed(u) \cap B = {}
  BY DEF Owed, Beyond
<1> HIDE DEF B
<1>4. IsFiniteSet(Owed(u)) /\ IsFiniteSet(Owed(v)) /\ Cardinality(Owed(u)) \in Nat
  BY OwedIsFinite
<1>5. Cardinality(Owed(u) \cup B) = Cardinality(Owed(u)) + n
  <2>1. Cardinality(Owed(u) \cap B) = 0
    BY <1>3, FS_EmptySet
  <2>2. Cardinality(Owed(u) \cup B)
          = Cardinality(Owed(u)) + Cardinality(B) - Cardinality(Owed(u) \cap B)
    BY <1>1, <1>4, FS_Union
  <2> QED  BY <1>1, <1>4, <2>1, <2>2
<1> QED  BY <1>2, <1>4, <1>5, FS_Subset

(* An acknowledgement of n slices takes away no more than these. *)
LEMMA OwedShrinks ==
  ASSUME NEW u \in [Renderers -> Nat], NEW v \in [Renderers -> Nat],
         NEW r \in Renderers, NEW n \in Nat,
         u[r] = v[r] + n, \A x \in Renderers \ {r} : u[x] = v[x]
  PROVE  Cardinality(Owed(u)) <= Cardinality(Owed(v)) + n
<1> DEFINE B == Beyond(r, v[r], n)
<1>1. IsFiniteSet(B) /\ Cardinality(B) = n
  BY BeyondCounts
<1>2. Owed(u) \subseteq Owed(v) \cup B
  BY DEF Owed, Beyond
<1> HIDE DEF B
<1>3. IsFiniteSet(Owed(v)) /\ Cardinality(Owed(v)) \in Nat /\ Cardinality(Owed(u)) \in Nat
  BY OwedIsFinite
<1>4. IsFiniteSet(Owed(v) \cap B) /\ Cardinality(Owed(v) \cap B) \in Nat
  BY <1>1, FS_Subset, FS_CardinalityType
<1>5. /\ IsFiniteSet(Owed(v) \cup B)
      /\ Cardinality(Owed(v) \cup B) = Cardinality(Owed(v)) + n - Cardinality(Owed(v) \cap B)
  BY <1>1, <1>3, FS_Union
<1>6. Cardinality(Owed(u)) <= Cardinality(Owed(v) \cup B)
  BY <1>2, <1>5, FS_Subset
<1> QED  BY <1>3, <1>4, <1>5, <1>6

(* What the calls leave in flight. *)
LEMMA CallsCount ==
  ASSUME NEW e, Sound(e), Bounded(e), NEW n \in Nat
  PROVE  /\ e.inFlight \in Nat
         /\ RecordPending(e, n).inFlight = e.inFlight
         /\ RecordEmitted(e, n).inFlight = e.inFlight + n
         /\ Acknowledge(e, n).inFlight = Max({0, e.inFlight - n})
         /\ ReleaseStale(e).inFlight \in {0, e.inFlight}
<1>1. e \in Records /\ e.inFlight \in Nat
  BY DEF Sound, Records
<1>2. Max({0, e.inFlight - n}) \in Nat /\ Max({0, e.inFlight - n}) <= e.inFlight
  BY <1>1, MaxIsNat
<1> DEFINE tracked == IF e.tracked THEN e ELSE Fresh
<1>3. tracked \in Records /\ tracked.inFlight = e.inFlight
  BY <1>1 DEF Sound, Records, Fresh, NoEntry
<1>4. RecordPending(e, n).inFlight = e.inFlight
  <2> DEFINE noted == [tracked EXCEPT !.pending = n]
  <2>1. noted \in Records /\ noted.inFlight = e.inFlight
    BY <1>3 DEF Records
  <2>2. RecordPending(e, n) \in {e, ResumeIfCaughtUp(PauseIfBehind(noted))}
    BY DEF RecordPending
  <2> HIDE DEF noted
  <2> QED  BY <2>1, <2>2, PauseFacts, ResumeFacts
<1>5. RecordEmitted(e, n).inFlight = e.inFlight + n
  <2> DEFINE counted == [tracked EXCEPT !.inFlight = @ + n]
  <2>1. counted \in Records /\ counted.inFlight = e.inFlight + n
    BY <1>3 DEF Records
  <2>2. RecordEmitted(e, n) = PauseIfBehind(counted)
    BY DEF RecordEmitted
  <2> HIDE DEF counted
  <2> QED  BY <2>1, <2>2, PauseFacts
<1>6. Acknowledge(e, n).inFlight = Max({0, e.inFlight - n})
  <2> DEFINE acked == [e EXCEPT !.released = FALSE, !.inFlight = Max({0, @ - n})]
  <2>1. e.tracked => acked \in Records /\ acked.inFlight = Max({0, e.inFlight - n})
    BY <1>1, <1>2 DEF Records
  <2>2. Acknowledge(e, n) = IF ~e.tracked THEN e ELSE ResumeIfCaughtUp(acked)
    BY DEF Acknowledge
  <2> HIDE DEF acked
  <2>3. CASE e.tracked
    BY <2>1, <2>2, <2>3, ResumeFacts
  <2>4. CASE ~e.tracked
    <3>1. e.inFlight = 0
      BY <2>4 DEF Sound, NoEntry
    <3>2. Max({0, e.inFlight - n}) = 0
      BY <1>2, <3>1
    <3> QED  BY <2>2, <2>4, <3>1, <3>2
  <2> QED  BY <2>3, <2>4
<1>7. ReleaseStale(e).inFlight \in {0, e.inFlight}
  <2> DEFINE let == [e EXCEPT !.inFlight = 0, !.released = TRUE]
  <2>1. let \in Records /\ let.inFlight = 0
    BY <1>1 DEF Records
  <2>2. ReleaseStale(e) \in {e, ResumeIfCaughtUp(let)}
    BY DEF ReleaseStale
  <2> HIDE DEF let
  <2> QED  BY <2>1, <2>2, ResumeFacts
<1> QED  BY <1>1, <1>4, <1>5, <1>6, <1>7

-----------------------------------------------------------------------------
(* The steps. *)

(* A call that leaves a fitting record, accounted for. *)
LEMMA AccountKeeps ==
  ASSUME Inv, NEW e, NEW m \in Nat, Fits(e, m), Account(e), pending' = m
  PROVE  /\ Fits(entry, pending)'
         /\ pty' \in {"reading", "paused", "ended"} /\ entry' \in Records
         /\ pty' # "ended" => (pty' = "paused" <=> entry'.paused)
<1>3. e \in Records /\ e.paused \in BOOLEAN /\ entry.paused \in BOOLEAN
  BY DEF Fits, Sound, Records, Inv, TypeOK
<1>4. pty \in {"reading", "paused", "ended"} /\ (pty # "ended" => (pty = "paused" <=> entry.paused))
  BY DEF Inv, TypeOK
<1>5. /\ entry' = e
      /\ \/ pty = "ended" /\ pty' = "ended"
         \/ pty # "ended" /\ ~entry.paused /\ e.paused /\ pty' = "paused"
         \/ pty # "ended" /\ entry.paused /\ ~e.paused /\ pty' = "reading"
         \/ pty # "ended" /\ (entry.paused <=> e.paused) /\ pty' = pty
  <2>1. CASE pty = "ended"
    BY <1>3, <2>1 DEF Account, Inv, Fits, Sound
  <2>2. CASE pty # "ended" /\ ~entry.paused /\ e.paused
    BY <1>3, <2>2 DEF Account
  <2>3. CASE pty # "ended" /\ entry.paused /\ ~e.paused
    BY <1>3, <2>3 DEF Account
  <2>4. CASE pty # "ended" /\ (entry.paused <=> e.paused)
    BY <1>3, <2>4 DEF Account
  <2> QED  BY <1>3, <2>1, <2>2, <2>3, <2>4
<1>1. entry' = e /\ (pty' = "ended" <=> pty = "ended")
  BY <1>4, <1>5
<1>2. Fits(entry, pending)'
  BY <1>1 DEF Fits, Sound, Bounded
<1> QED  BY <1>1, <1>2, <1>3, <1>4, <1>5

(* No record, and nothing read yet. *)
LEMMA InvInit == Init => Inv
<1> SUFFICES ASSUME Init PROVE Inv
  OBVIOUS
<1>1. TypeOK
  <2>1. entry \in Records
    BY DEF Init, NoEntry, Records
  <2>2. unread \in [Renderers -> Nat]
    BY DEF Init
  <2>3. << >> \in Seq({"show", "hide", "release", "forget", "port"} \X Renderers)
    OBVIOUS
  <2> QED  BY <2>1, <2>2, <2>3 DEF Init, TypeOK, Records
<1>2. Fits(entry, pending)
  BY NoEntryFits DEF Init
<1> QED  BY <1>1, <1>2 DEF Init, Inv, NoEntry

(* Output is read: the buffer grows by one slice. *)
LEMMA ReadStep ==
  ASSUME Inv, Read
  PROVE  Inv'
<1>1. pending' = pending + 1 /\ pending' \in Nat
  BY DEF Read, Inv, TypeOK
<1>2. Fits(RecordPending(entry, pending'), pending')
  BY <1>1, PendingFits DEF Inv, Fits
<1>3. Account(RecordPending(entry, pending')) /\ (entry'.paused => timer')
  BY DEF Read, Arm
<1>4. timer' \in BOOLEAN
  BY DEF Read, Arm, Account, Inv, TypeOK, Fits, Sound, Records
<1> QED  BY <1>1, <1>2, <1>3, <1>4, AccountKeeps DEF Read, Inv, TypeOK, Records, Forget

(* A flush: the batch is counted, then what is left. *)
LEMMA FlushStep ==
  ASSUME Inv, Flush
  PROVE  Inv'
<1>1. PICK n \in (IF focus # {} THEN {1} ELSE {1, pending}) :
        LET takers == focus \cap ports
        IN  /\ unread' = [r \in Renderers |-> unread[r] + (IF r \in takers THEN n ELSE 0)]
            /\ pending' = pending - n
            /\ Account(RecordPending(Emitted(takers, n), pending'))
  BY DEF Flush
<1> DEFINE emitted == Emitted(focus \cap ports, n)
<1>2. pending \in Nat /\ pending > 0 /\ n \in Nat /\ pending' = pending - n /\ pending' \in Nat
  BY <1>1 DEF Flush, Inv, TypeOK
<1>3. Sound(emitted) /\ Bounded(emitted)
  BY <1>2, EmittedIsSound DEF Inv, Fits, Emitted
<1>4. Account(RecordPending(emitted, pending'))
  BY <1>1
<1> HIDE DEF emitted
<1>5. Fits(RecordPending(emitted, pending'), pending')
  BY <1>2, <1>3, PendingFits
<1>6. unread' \in [Renderers -> Nat]
  <2>1. unread \in [Renderers -> Nat]
    BY DEF Inv, TypeOK
  <2> QED  BY <1>1, <1>2, <2>1
<1>7. /\ Fits(entry, pending)' /\ pty' \in {"reading", "paused", "ended"} /\ entry' \in Records
      /\ pty' # "ended" => (pty' = "paused" <=> entry'.paused)
  BY <1>2, <1>4, <1>5, AccountKeeps
<1>8. (entry'.paused => timer') /\ timer' \in BOOLEAN
  BY <1>7 DEF Flush, Arm, Inv, TypeOK, Records
<1> QED  BY <1>2, <1>6, <1>7, <1>8 DEF Flush, Inv, TypeOK, Records, Forget

(* A drain empties the buffer. *)
LEMMA DrainStep ==
  ASSUME Inv, Drain
  PROVE  Inv'
<1>1. Fits(RecordPending(entry, 0), 0)
  BY PendingFits DEF Inv, Fits
<1>2. /\ Fits(entry, pending)' /\ pty' \in {"reading", "paused", "ended"} /\ entry' \in Records
      /\ pty' # "ended" => (pty' = "paused" <=> entry'.paused)
  BY <1>1, AccountKeeps DEF Drain
<1>3. (entry'.paused => timer') /\ timer' \in BOOLEAN
  BY <1>2 DEF Drain, Arm, Inv, TypeOK, Records
<1> QED  BY <1>2, <1>3 DEF Drain, Inv, TypeOK, Records, Forget

(* A renderer acknowledges. *)
LEMMA AckStep ==
  ASSUME Inv, NEW r \in Renderers, Ack(r)
  PROVE  Inv'
<1>1. unread \in [Renderers -> Nat] /\ pending \in Nat /\ pending' = pending
  BY DEF Ack, Inv, TypeOK
<1>2. PICK n \in 1..unread[r] :
        unread' = [unread EXCEPT ![r] = @ - n] /\ Account(Acknowledge(entry, n))
  BY DEF Ack
<1>3. n \in Nat /\ unread' \in [Renderers -> Nat]
  BY <1>1, <1>2
<1>4. Fits(Acknowledge(entry, n), pending)
  BY <1>1, <1>3, AcknowledgeFits DEF Inv
<1>5. /\ Fits(entry, pending)' /\ pty' \in {"reading", "paused", "ended"} /\ entry' \in Records
      /\ pty' # "ended" => (pty' = "paused" <=> entry'.paused)
  BY <1>1, <1>2, <1>4, AccountKeeps
<1>6. entry'.paused => entry.paused
  <2>1. entry \in Records
    BY DEF Inv, Fits, Sound
  <2>2. CASE ~entry.tracked
    BY <1>2, <2>2 DEF Account, Acknowledge
  <2>3. CASE entry.tracked
    <3> DEFINE acked == [entry EXCEPT !.released = FALSE, !.inFlight = Max({0, @ - n})]
    <3>1. acked \in Records /\ acked.paused = entry.paused
      BY <1>3, <2>1, MaxIsNat DEF Records
    <3>2. entry' = ResumeIfCaughtUp(acked)
      BY <1>2, <2>3 DEF Account, Acknowledge
    <3> HIDE DEF acked
    <3> QED  BY <3>1, <3>2, ResumeFacts
  <2> QED  BY <2>2, <2>3
<1> QED  BY <1>1, <1>3, <1>5, <1>6 DEF Ack, Inv, TypeOK, Records, Forget

(* The timer's turn, quiet or not. *)
LEMMA CheckStep ==
  ASSUME Inv, NEW quiet \in BOOLEAN, CheckStalePauses(quiet)
  PROVE  Inv'
<1> DEFINE e == IF quiet THEN ReleaseStale(entry) ELSE entry
<1>1. Fits(e, pending) /\ pending' = pending /\ pending \in Nat /\ Account(e)
  BY ReleaseFits DEF CheckStalePauses, Inv, TypeOK
<1> HIDE DEF e
<1>2. /\ Fits(entry, pending)' /\ pty' \in {"reading", "paused", "ended"} /\ entry' \in Records
      /\ pty' # "ended" => (pty' = "paused" <=> entry'.paused)
  BY <1>1, AccountKeeps
<1> QED  BY <1>1, <1>2 DEF CheckStalePauses, Inv, TypeOK, Records, Forget

(* The PTY exits, and its record goes. *)
LEMMA ExitStep ==
  ASSUME Inv, PtyExit
  PROVE  Inv'
<1>1. Fits(entry, pending)'
  <2>1. entry' \in Records /\ ~entry'.paused /\ ~entry'.tracked
    BY DEF PtyExit, NoEntry, Records
  <2> QED  BY <2>1 DEF PtyExit, Fits, Sound, Bounded
<1>2. ~entry'.paused /\ entry' \in Records
  BY DEF PtyExit, NoEntry, Records
<1> QED  BY <1>1, <1>2 DEF PtyExit, Inv, TypeOK, Records, Forget

(* What main and the pages do moves no count. *)
LEMMA CountsKept ==
  ASSUME Inv, UNCHANGED <<pty, pending, entry, timer>>,
         shows' \in SUBSET Renderers, focus' \in SUBSET Renderers, ports' \in SUBSET Renderers,
         unread' \in [Renderers -> Nat],
         commands' \in Seq({"show", "hide", "release", "forget", "port"} \X Renderers),
         lost' \in BOOLEAN
  PROVE  Inv'
<1>1. TypeOK'
  BY DEF Inv, TypeOK
<1>2. Fits(entry, pending)'
  BY DEF Inv, Fits, Sound, Bounded
<1> QED  BY <1>1, <1>2 DEF Inv

(* A window changes what it shows: two commands for the host. *)
LEMMA FocusStep ==
  ASSUME Inv, NEW r \in Renderers, NEW on \in BOOLEAN, SetFocusedSessions(r, on)
  PROVE  Inv'
<1> DEFINE Commands == {"show", "hide", "release", "forget", "port"} \X Renderers
           cs == <<<<IF on THEN "show" ELSE "hide", r>>, <<"release", r>>>>
<1>1. cs \in Seq(Commands) /\ commands \in Seq(Commands)
  BY DEF Inv, TypeOK
<1>2. commands' = commands \o cs
  BY DEF SetFocusedSessions, PostAll
<1> HIDE DEF Commands, cs
<1>3. commands' \in Seq(Commands)
  BY <1>1, <1>2
<1> QED  BY <1>3, CountsKept DEF SetFocusedSessions, Inv, TypeOK, Commands

(* A window closes: up to three commands. *)
LEMMA CloseStep ==
  ASSUME Inv, NEW r \in Renderers, CloseWindow(r)
  PROVE  Inv'
<1> DEFINE Commands == {"show", "hide", "release", "forget", "port"} \X Renderers
           a == IF r \in shows THEN <<<<"hide", r>>>> ELSE << >>
           b == IF shows = {r} THEN <<<<"release", r>>>> ELSE << >>
           c == <<<<"forget", r>>>>
<1>1. /\ a \in Seq(Commands) /\ b \in Seq(Commands) /\ c \in Seq(Commands)
      /\ commands \in Seq(Commands)
  <2>1. /\ <<"hide", r>> \in Commands /\ <<"release", r>> \in Commands
        /\ <<"forget", r>> \in Commands
    OBVIOUS
  <2>2. commands \in Seq(Commands)
    BY DEF Inv, TypeOK
  <2> HIDE DEF Commands
  <2>3. << >> \in Seq(Commands) /\ <<<<"hide", r>>>> \in Seq(Commands)
    BY <2>1
  <2>4. <<<<"release", r>>>> \in Seq(Commands) /\ c \in Seq(Commands)
    BY <2>1
  <2> QED  BY <2>2, <2>3, <2>4
<1>2. commands' = commands \o (a \o b \o c)
  BY DEF CloseWindow, PostAll
<1> HIDE DEF Commands, a, b, c
<1>3. commands' \in Seq(Commands)
  BY <1>1, <1>2
<1> QED  BY <1>3, CountsKept DEF CloseWindow, Inv, TypeOK, Commands

(* A page's port is asked for, or closes with what it had not read. *)
LEMMA PortStep ==
  ASSUME Inv, NEW r \in Renderers, AskForPort(r) \/ PortCloses(r)
  PROVE  Inv'
<1> DEFINE Commands == {"show", "hide", "release", "forget", "port"} \X Renderers
           cs == <<<<"port", r>>>>
<1>1. cs \in Seq(Commands) /\ commands \in Seq(Commands)
  BY DEF Inv, TypeOK
<1>2. CASE AskForPort(r)
  <2>1. commands' = commands \o cs
    BY <1>2 DEF AskForPort, PostAll
  <2> HIDE DEF Commands, cs
  <2>2. commands' \in Seq(Commands)
    BY <1>1, <2>1
  <2> QED  BY <1>2, <2>2, CountsKept DEF AskForPort, Inv, TypeOK, Commands
<1>3. CASE PortCloses(r)
  <2>1. unread' \in [Renderers -> Nat]
    BY <1>3 DEF PortCloses, Inv, TypeOK
  <2> QED  BY <1>3, <2>1, CountsKept DEF PortCloses, Forget, Inv, TypeOK
<1> QED  BY <1>2, <1>3

(* A release drops the record, whatever it said. *)
LEMMA ObeyStep ==
  ASSUME Inv, HostObeys
  PROVE  Inv'
<1> DEFINE Commands == {"show", "hide", "release", "forget", "port"} \X Renderers
           what == Head(commands)[1]
           r == Head(commands)[2]
           e == IF what = "release" THEN NoEntry ELSE entry
<1>1. commands \in Seq(Commands) /\ commands # << >>
  BY DEF Inv, TypeOK, HostObeys
<1>2. Head(commands) \in Commands /\ commands' \in Seq(Commands)
  <2> HIDE DEF Commands
  <2> QED  BY <1>1 DEF HostObeys
<1>3. r \in Renderers
  BY <1>2
<1>4. pending' = pending /\ pending \in Nat /\ timer' = timer /\ shows' = shows
  BY DEF HostObeys, Inv, TypeOK
<1>5. Account(e)
  BY DEF HostObeys
<1>6. focus' \in SUBSET Renderers /\ ports' \in SUBSET Renderers
  <2>1. /\ focus' \in {focus, focus \cup {r}, focus \ {r}}
        /\ ports' \in {ports, ports \cup {r}, ports \ {r}}
    BY DEF HostObeys
  <2> HIDE DEF r
  <2> QED  BY <1>3, <2>1 DEF Inv, TypeOK
<1>7. unread' \in [Renderers -> Nat]
  <2>1. unread' = [unread EXCEPT ![r] = 0] \/ unread' = unread
    BY DEF HostObeys
  <2> HIDE DEF r
  <2> QED  BY <1>3, <2>1 DEF Inv, TypeOK
<1>8. Fits(e, pending) /\ (e.paused => entry.paused)
  <2>1. ~NoEntry.paused
    BY DEF NoEntry
  <2> QED  BY <1>4, <2>1, NoEntryFits DEF Inv
<1> HIDE DEF e, what, r
<1>9. /\ Fits(entry, pending)' /\ pty' \in {"reading", "paused", "ended"} /\ entry' \in Records
      /\ pty' # "ended" => (pty' = "paused" <=> entry'.paused)
  BY <1>4, <1>5, <1>8, AccountKeeps
<1>10. entry' = e
  BY <1>5 DEF Account
<1>11. lost' \in BOOLEAN
  BY DEF HostObeys, Forget
<1> QED  BY <1>2, <1>4, <1>6, <1>7, <1>8, <1>9, <1>10, <1>11 DEF Inv, TypeOK, Records, Commands

(* Every step keeps the invariant. *)
LEMMA InvNext == Inv /\ [Next]_vars => Inv'
<1> SUFFICES ASSUME Inv, [Next]_vars PROVE Inv'
  OBVIOUS
<1>1. CASE Read \/ Flush \/ Drain \/ PtyExit \/ HostObeys
  BY <1>1, ReadStep, FlushStep, DrainStep, ExitStep, ObeyStep
<1>2. ASSUME NEW quiet \in BOOLEAN, CheckStalePauses(quiet) PROVE Inv'
  BY <1>2, CheckStep
<1>3. ASSUME NEW r \in Renderers, Ack(r) \/ CloseWindow(r) \/ AskForPort(r) \/ PortCloses(r)
      PROVE  Inv'
  BY <1>3, AckStep, CloseStep, PortStep
<1>4. ASSUME NEW r \in Renderers, NEW on \in BOOLEAN, SetFocusedSessions(r, on) PROVE Inv'
  BY <1>4, FocusStep
<1>5. CASE UNCHANGED vars
  BY <1>5, CountsKept DEF vars, Inv, TypeOK
<1> QED  BY <1>1, <1>2, <1>3, <1>4, <1>5 DEF Next

(* A step that leaves what the readers hold as it was, and counts no more than
   before, owes nothing new. *)
LEMMA OwedStays ==
  ASSUME Inv, CountIsOwed, ~lost => entry'.inFlight <= entry.inFlight, unread' = unread,
         entry' \in Records, lost' = lost \/ entry'.inFlight = 0
  PROVE  CountIsOwed'
<1>1. /\ entry.inFlight \in Nat /\ entry'.inFlight \in Nat
      /\ Cardinality(Owed(unread)) \in Nat /\ Owed(unread') = Owed(unread)
  BY OwedIsFinite DEF Inv, TypeOK, Records
<1> QED  BY <1>1 DEF CountIsOwed

(* Readers who went with nothing unread took nothing with them. *)
LEMMA OwedForgotten ==
  ASSUME Inv, CountIsOwed, NEW r \in Renderers, entry' \in Records,
         entry' = entry \/ entry'.inFlight = 0,
         \/ unread' = unread /\ Forget({})
         \/ unread' = unread /\ Forget({r})
         \/ unread' = [unread EXCEPT ![r] = 0] /\ Forget({r})
  PROVE  CountIsOwed'
<1>1. unread \in [Renderers -> Nat] /\ entry \in Records
  BY DEF Inv, TypeOK, Records
<1>2. unread' \in [Renderers -> Nat]
  BY <1>1
<1>3. Cardinality(Owed(unread')) \in Nat /\ entry'.inFlight \in Nat
  BY <1>2, OwedIsFinite DEF Records
<1>4. CASE entry'.inFlight = 0
  BY <1>3, <1>4 DEF CountIsOwed
<1>5. CASE entry'.inFlight > 0 /\ unread' = unread
  <2>1. entry' = entry /\ (lost => lost')
    <3>1. entry' = entry
      BY <1>3, <1>5
    <3>2. Forget({}) \/ Forget({r})
      OBVIOUS
    <3>3. lost => lost'
      BY <1>5, <3>2, Zenon DEF Forget
    <3> QED  BY <3>1, <3>3
  <2> QED  BY <1>5, <2>1 DEF CountIsOwed
<1>6. CASE entry'.inFlight > 0 /\ unread' = [unread EXCEPT ![r] = 0] /\ Forget({r})
  <2>1. entry' = entry /\ (lost => lost') /\ (unread[r] > 0 => lost')
    <3>1. entry' = entry
      BY <1>3, <1>6
    <3>2. (lost => lost') /\ (unread[r] > 0 => lost')
      BY <1>6, Zenon DEF Forget
    <3> QED  BY <3>1, <3>2
  <2>2. unread[r] = 0 => unread' = unread
    BY <1>1, <1>6
  <2>3. unread[r] \in Nat
    BY <1>1
  <2> QED  BY <2>1, <2>2, <2>3 DEF CountIsOwed
<1> QED  BY <1>3, <1>4, <1>5, <1>6

(* Every step leaves the count owed to the readers. *)
LEMMA OwedNext == Inv /\ Inv' /\ CountIsOwed /\ [Next]_vars => CountIsOwed'
<1> SUFFICES ASSUME Inv, Inv', CountIsOwed, [Next]_vars PROVE CountIsOwed'
  OBVIOUS
<1>1. /\ unread \in [Renderers -> Nat] /\ unread' \in [Renderers -> Nat]
      /\ entry \in Records /\ entry' \in Records /\ pending \in Nat /\ pending' \in Nat
      /\ focus \in SUBSET Renderers /\ Sound(entry) /\ Bounded(entry)
  BY DEF Inv, TypeOK, Fits, Records
<1>2. /\ entry.inFlight \in Nat /\ entry'.inFlight \in Nat
      /\ Cardinality(Owed(unread)) \in Nat /\ Cardinality(Owed(unread')) \in Nat
  BY <1>1, OwedIsFinite DEF Records
<1>3. ASSUME Forget({}), entry'.inFlight > 0 PROVE lost' = lost
  BY <1>3 DEF Forget, Inv, TypeOK
<1>4. CASE Read \/ Drain
  <2>1. entry' = RecordPending(entry, pending') /\ unread' = unread /\ Forget({})
    BY <1>4 DEF Read, Drain, Account
  <2>2. entry'.inFlight = entry.inFlight
    BY <1>1, <2>1, CallsCount
  <2> QED  BY <1>1, <1>2, <1>3, <2>1, <2>2, OwedStays
<1>5. CASE Flush
  <2>1. PICK n \in (IF focus # {} THEN {1} ELSE {1, pending}) :
          LET takers == focus \cap ports
          IN  /\ unread' = [r \in Renderers |-> unread[r] + (IF r \in takers THEN n ELSE 0)]
              /\ entry' = RecordPending(Emitted(takers, n), pending')
    BY <1>5 DEF Flush, Account
  <2>2. n \in Nat /\ Forget({})
    BY <1>1, <1>5 DEF Flush
  <2>3. CASE focus \cap ports = {}
    <3>1. unread' = unread
      BY <1>1, <2>1, <2>2, <2>3
    <3>2. entry'.inFlight = entry.inFlight
      BY <1>1, <2>1, <2>3, CallsCount DEF Emitted
    <3> QED  BY <1>1, <1>2, <1>3, <2>2, <3>1, <3>2, OwedStays
  <2>4. CASE focus \cap ports # {}
    <3>1. PICK r \in Renderers : r \in focus \cap ports
      BY <1>1, <2>4
    <3>2. /\ unread'[r] = unread[r] + n
          /\ \A x \in Renderers : unread[x] <= unread'[x]
      BY <1>1, <2>1, <2>2, <3>1
    <3>3. Cardinality(Owed(unread)) + n <= Cardinality(Owed(unread'))
      BY <1>1, <2>2, <3>2, OwedGrows
    <3>4. entry'.inFlight = entry.inFlight + n
      <4>1. entry' = RecordPending(RecordEmitted(entry, n), pending')
        BY <2>1, <2>4 DEF Emitted
      <4>2. RecordEmitted(entry, n).inFlight = entry.inFlight + n
        BY <1>1, <2>2, CallsCount
      <4>3. Sound(RecordEmitted(entry, n)) /\ Bounded(RecordEmitted(entry, n))
        BY <1>1, <2>2, EmittedIsSound
      <4> QED  BY <1>1, <4>1, <4>2, <4>3, CallsCount
    <3>5. entry'.inFlight = 0 \/ lost' = lost
      BY <1>2, <1>3, <2>2
    <3> QED  BY <1>2, <2>2, <3>3, <3>4, <3>5 DEF CountIsOwed
  <2> QED  BY <2>3, <2>4
<1>6. ASSUME NEW r \in Renderers, Ack(r) PROVE CountIsOwed'
  <2>1. PICK n \in 1..unread[r] :
          unread' = [unread EXCEPT ![r] = @ - n] /\ entry' = Acknowledge(entry, n)
    BY <1>6 DEF Ack, Account
  <2>2. n \in Nat /\ Forget({})
    BY <1>1, <1>6, <2>1 DEF Ack
  <2>3. Cardinality(Owed(unread)) <= Cardinality(Owed(unread')) + n
    <3>1. unread[r] = unread'[r] + n /\ \A x \in Renderers \ {r} : unread[x] = unread'[x]
      BY <1>1, <2>1
    <3> QED  BY <1>1, <2>2, <3>1, OwedShrinks
  <2>4. entry'.inFlight \in {0, entry.inFlight - n}
    <3>1. entry'.inFlight = Max({0, entry.inFlight - n})
      BY <1>1, <2>1, <2>2, CallsCount
    <3>2. Max({0, entry.inFlight - n}) \in {0, entry.inFlight - n}
      BY <1>2, <2>2, MaxIsNat
    <3> QED  BY <3>1, <3>2
  <2>5. entry'.inFlight = 0 \/ lost' = lost
    BY <1>2, <1>3, <2>2
  <2> QED  BY <1>2, <2>2, <2>3, <2>4, <2>5 DEF CountIsOwed
<1>7. ASSUME NEW quiet \in BOOLEAN, CheckStalePauses(quiet) PROVE CountIsOwed'
  <2>1. /\ entry' \in {entry, ReleaseStale(entry)} /\ unread' = unread /\ Forget({})
    BY <1>7 DEF CheckStalePauses, Account
  <2>2. entry'.inFlight \in {0, entry.inFlight}
    BY <1>1, <2>1, CallsCount
  <2> QED  BY <1>1, <1>2, <1>3, <2>1, <2>2, OwedStays
<1>8. CASE PtyExit
  <2>1. entry'.inFlight = 0
    BY <1>8 DEF PtyExit, NoEntry
  <2> QED  BY <1>2, <2>1 DEF CountIsOwed
<1>9. CASE HostObeys
  <2> DEFINE r == Head(commands)[2]
             Commands == {"show", "hide", "release", "forget", "port"} \X Renderers
  <2>1. r \in Renderers
    <3>1. commands \in Seq(Commands) /\ commands # << >>
      BY <1>9 DEF Inv, TypeOK, HostObeys
    <3>2. Head(commands) \in Commands
      <4> HIDE DEF Commands
      <4> QED  BY <3>1
    <3> QED  BY <3>2
  <2>2. entry' = entry \/ entry'.inFlight = 0
    BY <1>9 DEF HostObeys, Account, NoEntry
  <2>3. \/ unread' = unread /\ Forget({})
        \/ unread' = [unread EXCEPT ![r] = 0] /\ Forget({r})
    BY <1>9 DEF HostObeys
  <2> HIDE DEF r
  <2> QED  BY <1>1, <2>1, <2>2, <2>3, OwedForgotten
<1>10. ASSUME NEW r \in Renderers, PortCloses(r) PROVE CountIsOwed'
  <2>1. entry' = entry /\ unread' = [unread EXCEPT ![r] = 0] /\ Forget({r})
    BY <1>10 DEF PortCloses
  <2> QED  BY <1>1, <2>1, OwedForgotten
<1>11. CASE UNCHANGED <<entry, unread, lost>>
  BY <1>11 DEF CountIsOwed
<1>12. /\ \A r \in Renderers : CloseWindow(r) \/ AskForPort(r) => UNCHANGED <<entry, unread, lost>>
       /\ \A r \in Renderers, on \in BOOLEAN :
            SetFocusedSessions(r, on) => UNCHANGED <<entry, unread, lost>>
       /\ UNCHANGED vars => UNCHANGED <<entry, unread, lost>>
  BY DEF CloseWindow, AskForPort, SetFocusedSessions, vars
<1> QED  BY <1>4, <1>5, <1>6, <1>7, <1>8, <1>9, <1>10, <1>11, <1>12 DEF Next

(* The invariant holds, for any backlogs and any number of renderers.       *)
THEOREM InvHolds == Spec => []Inv
BY InvInit, InvNext, PTL DEF Spec

(* A live PTY stands still exactly while its record says so and a count is
   above its low water, and the check that is to find a stale pause is armed as
   long as anything is paused (tryPause, tryResume, armStalePauseCheck). *)
THEOREM PauseAlwaysFollows == Spec => []PauseFollowsTheCounts
<1>1. Inv => PauseFollowsTheCounts
  BY DEF Inv, PauseFollowsTheCounts, Fits, Sound, TypeOK
<1> QED  BY <1>1, InvHolds, PTL

(* What is counted in flight is no more than what the readers hold and will
   acknowledge, unless a page went with output unread since the count was last
   zero (onFlush counts only what a port took; ack, stale release, release). *)
THEOREM CountAlwaysOwed == Spec => []CountIsOwed
<1>1. Init => CountIsOwed
  <2> SUFFICES ASSUME Init PROVE CountIsOwed
    OBVIOUS
  <2>1. unread \in [Renderers -> Nat] /\ entry.inFlight = 0
    BY DEF Init, NoEntry
  <2>2. Cardinality(Owed(unread)) \in Nat
    BY <2>1, OwedIsFinite
  <2> QED  BY <2>1, <2>2 DEF CountIsOwed
<1>2. Inv /\ Inv' /\ CountIsOwed /\ [Next]_vars => CountIsOwed'
  BY OwedNext
<1> QED  BY <1>1, <1>2, InvHolds, PTL DEF Spec
=============================================================================
