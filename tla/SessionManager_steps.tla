------------------------ MODULE SessionManager_steps ------------------------
(***************************************************************************)
(* Each action of SessionManager preserves its invariant.  The first part  *)
(* is what the steps rest on: what the queue's operators do to its         *)
(* elements, that every handler ends in a turn of the promotion loop       *)
(* (Turn), and that a turn takes a state in which the invariant's parts    *)
(* hold of what the handler hands on (the Mid* definitions) to one in      *)
(* which the invariant holds (TurnPreserves).  The second establishes, for *)
(* each action, what holds before its turn.  The third does the same for   *)
(* CoreInv, which needs no assumption on what is paused.                   *)
(***************************************************************************)
EXTENDS SessionInvariant, TLAPS, FiniteSetTheorems, SequenceTheorems, WellFoundedInduction

(* A set of positions of a finite sequence has a least one: the place the
   queue is scanned to (findIndex in pick). *)
LEMMA LeastElement ==
  ASSUME NEW n \in Nat, NEW S \in SUBSET (1 .. n), S # {}
  PROVE  \E x \in S : \A y \in S : x <= y
<1> DEFINE D == 1 .. n
           upTo(i) == 1 .. i
           T == {upTo(i) : i \in S}
<1>1. IsFiniteSet(D)
  BY FS_Interval
<1>2. IsWellFoundedOn(StrictSubsetOrdering(D), FiniteSubsetsOf(D))
  BY <1>1, FS_StrictSubsetOrderingWellFounded
<1>3. T \subseteq FiniteSubsetsOf(D)
  <2>1. ASSUME NEW i \in S
        PROVE  upTo(i) \subseteq D /\ IsFiniteSet(upTo(i))
    BY FS_Interval
  <2> QED BY <2>1 DEF FiniteSubsetsOf
<1>4. \E X \in T : \A Y \in T : ~(<<Y, X>> \in StrictSubsetOrdering(D))
  <2>1. T # {}
    OBVIOUS
  <2> HIDE DEF T, D
  <2> QED BY <1>2, <1>3, <2>1, WFMin
<1>5. PICK m \in S : \A y \in S : ~(<<upTo(y), upTo(m)>> \in StrictSubsetOrdering(D))
  BY <1>4
<1>6. ASSUME NEW y \in S
      PROVE  m <= y
  <2>1. SUFFICES ASSUME y < m PROVE FALSE
    OBVIOUS
  <2>2. upTo(y) \subseteq upTo(m) /\ upTo(m) \subseteq D /\ upTo(y) \subseteq D
    BY <2>1
  <2>3. upTo(y) # upTo(m)
    <3>1. m \in upTo(m) /\ m \notin upTo(y)
      BY <2>1
    <3> QED BY <3>1
  <2>4. <<upTo(y), upTo(m)>> \in StrictSubsetOrdering(D)
    <3> HIDE DEF upTo, D
    <3> QED BY <2>2, <2>3 DEF StrictSubsetOrdering
  <2> QED BY <2>4, <1>5
<1> QED BY <1>6

(* The gate's pick names an entry of the queue it was given, or none. *)
LEMMA PickIsIndex ==
  ASSUME NEW v, NEW q \in Seq(Tasks)
  PROVE  Gate!Pick(v, q) \in {0} \cup DOMAIN q
<1> DEFINE S == {i \in DOMAIN q : Gate!Startable(v, q, i)}
<1>1. CASE S = {}
  BY <1>1 DEF Gate!Pick
<1>2. CASE S # {}
  <2>1. S \in SUBSET (1 .. Len(q)) /\ Len(q) \in Nat
    OBVIOUS
  <2>2. \E x \in S : \A y \in S : x <= y
    <3> HIDE DEF S
    <3> QED BY <1>2, <2>1, LeastElement
  <2> QED
    BY <1>2, <2>2 DEF Gate!Pick
<1> QED BY <1>1, <1>2

(* Taking entry i out of a sequence keeps the others in their order. *)
LEMMA RemoveAtProperties ==
  ASSUME NEW S, NEW q \in Seq(S), NEW i \in DOMAIN q
  PROVE  /\ RemoveAt(q, i) \in Seq(S)
         /\ Len(RemoveAt(q, i)) = Len(q) - 1
         /\ \A k \in 1 .. Len(q) - 1 : RemoveAt(q, i)[k] = IF k < i THEN q[k] ELSE q[k + 1]
<1> DEFINE l == SubSeq(q, 1, i - 1)
           r == SubSeq(q, i + 1, Len(q))
<1>1. i \in 1 .. Len(q) /\ Len(q) \in Nat
  BY LenProperties
<1>2. /\ l \in Seq(S) /\ Len(l) = i - 1
      /\ \A k \in 1 .. i - 1 : l[k] = q[k]
  <2>1. \A k \in 1 .. i - 1 : q[k] \in S
    BY <1>1, ElementOfSeq
  <2> QED BY <1>1, <2>1, SubSeqProperties
<1>3. /\ r \in Seq(S) /\ Len(r) = Len(q) - i
      /\ \A k \in 1 .. Len(q) - i : r[k] = q[i + k]
  <2>1. \A k \in i + 1 .. Len(q) : q[k] \in S
    BY <1>1, ElementOfSeq
  <2>2. /\ r \in Seq(S)
        /\ Len(r) = IF i + 1 <= Len(q) THEN Len(q) - (i + 1) + 1 ELSE 0
        /\ \A k \in 1 .. Len(q) - (i + 1) + 1 : r[k] = q[(i + 1) + k - 1]
    BY <1>1, <2>1, SubSeqProperties
  <2> QED BY <1>1, <2>2
<1> HIDE DEF l, r
<1>4. /\ l \o r \in Seq(S)
      /\ Len(l \o r) = Len(l) + Len(r)
      /\ \A k \in 1 .. Len(l) + Len(r) :
           (l \o r)[k] = IF k <= Len(l) THEN l[k] ELSE r[k - Len(l)]
  BY <1>2, <1>3, ConcatProperties
<1> DEFINE p == l \o r
<1>5. /\ p \in Seq(S)
      /\ Len(p) = Len(q) - 1
      /\ \A k \in 1 .. Len(q) - 1 : p[k] = IF k <= i - 1 THEN l[k] ELSE r[k - (i - 1)]
  <2>1. Len(l) + Len(r) = Len(q) - 1
    BY <1>1, <1>2, <1>3
  <2> QED BY <2>1, <1>2, <1>4
<1> HIDE DEF p
<1>6. ASSUME NEW k \in 1 .. Len(q) - 1
      PROVE  p[k] = IF k < i THEN q[k] ELSE q[k + 1]
  <2>1. CASE k < i
    BY <1>1, <1>2, <1>5, <2>1
  <2>2. CASE ~(k < i)
    <3> DEFINE d == k - (i - 1)
    <3>1. d \in 1 .. Len(q) - i /\ i + d = k + 1
      BY <1>1, <2>2
    <3>2. p[k] = r[d]
      BY <1>1, <1>5, <2>2
    <3>3. r[d] = q[i + d]
      BY <3>1, <1>3
    <3> QED BY <3>1, <3>2, <3>3, <2>2
  <2> QED BY <2>1, <2>2
<1>7. RemoveAt(q, i) = p
  BY DEF RemoveAt, l, r, p
<1> QED BY <1>5, <1>6, <1>7

(* Taking an entry out of a queue without duplicates removes that session and
   no other, as the splice of processQueue does. *)
LEMMA RemoveAtElements ==
  ASSUME NEW S, NEW q \in Seq(S), NEW i \in DOMAIN q, IsInjective(q)
  PROVE  /\ RemoveAt(q, i) \in Seq(S)
         /\ IsInjective(RemoveAt(q, i))
         /\ ToSet(RemoveAt(q, i)) = ToSet(q) \ {q[i]}
<1> DEFINE p == RemoveAt(q, i)
<1>1. /\ p \in Seq(S) /\ Len(p) = Len(q) - 1
      /\ \A k \in 1 .. Len(q) - 1 : p[k] = IF k < i THEN q[k] ELSE q[k + 1]
  BY RemoveAtProperties
<1> HIDE DEF p
<1>2. IsInjective(p)
  BY <1>1, SMTT(30) DEF IsInjective
<1>3. ToSet(p) \subseteq ToSet(q) \ {q[i]}
  BY <1>1 DEF ToSet, IsInjective
<1>4. ASSUME NEW k \in DOMAIN q, k # i
      PROVE  q[k] \in ToSet(p)
  <2>1. CASE k < i
    <3>1. k \in DOMAIN p /\ p[k] = q[k]
      BY <1>1, <2>1
    <3> QED BY <3>1 DEF ToSet
  <2>2. CASE k > i
    <3>1. k - 1 \in DOMAIN p /\ p[k - 1] = q[k]
      BY <1>1, <2>2
    <3> QED BY <3>1 DEF ToSet
  <2> QED BY <1>4, <2>1, <2>2
<1>5. ToSet(q) \ {q[i]} \subseteq ToSet(p)
  BY <1>4 DEF ToSet
<1> QED BY <1>1, <1>2, <1>3, <1>5 DEF p

(* A sequence without elements is empty. *)
LEMMA NoElements ==
  ASSUME NEW S, NEW q \in Seq(S), ToSet(q) \subseteq {}
  PROVE  q = <<>>
<1>1. SUFFICES ASSUME q # <<>> PROVE FALSE
  OBVIOUS
<1>2. 1 \in DOMAIN q
  BY <1>1, EmptySeq, LenProperties
<1> QED BY <1>2 DEF ToSet

(* Removing a session from the queue removes it and no other, whether or not
   it was queued (SessionQueue.remove). *)
LEMMA WithoutElements ==
  ASSUME NEW S, NEW q \in Seq(S), NEW s, IsInjective(q)
  PROVE  /\ Without(q, s) \in Seq(S)
         /\ IsInjective(Without(q, s))
         /\ ToSet(Without(q, s)) = ToSet(q) \ {s}
<1>1. CASE s \in ToSet(q)
  <2> DEFINE i == CHOOSE i \in DOMAIN q : q[i] = s
  <2>1. i \in DOMAIN q /\ q[i] = s
    BY <1>1 DEF ToSet
  <2>2. Without(q, s) = RemoveAt(q, i)
    BY <1>1 DEF Without
  <2> HIDE DEF i
  <2> QED BY <2>1, <2>2, RemoveAtElements
<1>2. CASE s \notin ToSet(q)
  BY <1>2 DEF Without, ToSet
<1> QED BY <1>1, <1>2

-----------------------------------------------------------------------------
(* What a turn leaves of the queue: r, c, q, n and l are the rows, calls,
   queue, spawningCount and promotion in progress it hands to the loop.  It
   leaves them as they are, or starts one entry of the queue. *)
Turn(r, c, q, n, l) ==
  /\ queue' \in Seq(Sessions) /\ IsInjective(queue') /\ dirty' \in BOOLEAN
  /\ \/ /\ ToSet(queue') = ToSet(q) /\ call' = c /\ spawning' = n
        /\ loop' = l /\ (l = Idle => dirty' = FALSE)
     \/ \E x \in ToSet(q) :
          /\ ToSet(queue') = ToSet(q) \ {x}
          /\ call' = [c EXCEPT ![x] = "shell"]
          /\ spawning' = n + 1
          /\ l = Idle /\ loop' = x
          /\ ~quitting' /\ ActiveCount(r, n) < limit'

(* A pass of processQueue starts at most one queued session, and only below
   the agent limit and not while quitting. *)
LEMMA PromoteIsTurn ==
  ASSUME NEW r, NEW c, NEW q \in Seq(Sessions), NEW n, NEW d \in BOOLEAN,
         IsInjective(q), Promote(r, c, q, n, d)
  PROVE  Turn(r, c, q, n, Idle)
<1> DEFINE i == NextIndex(r, c, q, n)
<1>1. QueueTasks(q) \in Seq(Tasks) /\ DOMAIN QueueTasks(q) = DOMAIN q
  BY SessionAssumption DEF QueueTasks
<1>2. Gate!Pick(ViewWith(r, c), QueueTasks(q)) \in {0} \cup DOMAIN q
  <2> DEFINE v == ViewWith(r, c)
  <2> HIDE DEF v
  <2> QED BY <1>1, PickIsIndex
<1>3. CASE i = 0
  BY <1>3 DEF Promote, Turn
<1>4. CASE i # 0
  <2>1. i \in DOMAIN q /\ ~quitting' /\ ActiveCount(r, n) < limit'
    BY <1>2, <1>4 DEF NextIndex
  <2>2. /\ loop' = q[i] /\ dirty' = d /\ queue' = RemoveAt(q, i)
        /\ call' = [c EXCEPT ![q[i]] = "shell"] /\ spawning' = n + 1
    BY <1>4 DEF Promote
  <2>3. /\ queue' \in Seq(Sessions) /\ IsInjective(queue')
        /\ ToSet(queue') = ToSet(q) \ {q[i]}
    <3> HIDE DEF i
    <3> QED BY <2>1, <2>2, RemoveAtElements
  <2>4. q[i] \in ToSet(q)
    BY <2>1 DEF ToSet
  <2> HIDE DEF i
  <2> QED BY <2>1, <2>2, <2>3, <2>4 DEF Turn
<1> QED BY <1>3, <1>4

(* A freed slot leads to a pass of the loop, or to nothing but the dirty flag
   when a pass is under way (the reentrancy guard of processQueue). *)
LEMMA NotifyIsTurn ==
  ASSUME NEW r, NEW c, NEW q \in Seq(Sessions), NEW n,
         IsInjective(q), NotifySlotFreed(r, c, q, n)
  PROVE  Turn(r, c, q, n, loop)
<1>1. CASE loop = Idle
  BY <1>1, PromoteIsTurn DEF NotifySlotFreed
<1>2. CASE loop # Idle
  BY <1>2 DEF NotifySlotFreed, Turn
<1> QED BY <1>1, <1>2

(* A spawn that returns gives its slot back and takes the queue on: from the
   loop when the loop awaited it, as a notification otherwise. *)
LEMMA SpawnReturnsIsTurn ==
  ASSUME NEW r, NEW c, NEW s, QueueTypeOK, IsInjective(queue), SpawnReturns(s, r, c)
  PROVE  Turn(r, c, queue, spawning - 1, IF loop = s THEN Idle ELSE loop)
<1>1. CASE loop = s
  BY <1>1, PromoteIsTurn DEF SpawnReturns, QueueTypeOK
<1>2. CASE loop # s
  BY <1>2, NotifyIsTurn DEF SpawnReturns, QueueTypeOK
<1> QED BY <1>1, <1>2

(* A step that does not touch the queue is a turn without a promotion. *)
LEMMA AsideIsTurn ==
  ASSUME NEW r, NEW c, QueueTypeOK, IsInjective(queue), loop = Idle => ~dirty, QueueAside(c)
  PROVE  Turn(r, c, queue, spawning, loop)
  BY DEF QueueAside, queueVars, QueueTypeOK, Turn

-----------------------------------------------------------------------------
(* The invariant in the middle of a turn: everything a turn changes before it
   comes to the queue is primed, and c, q, n and l stand for what it then
   hands on. *)
MidTypes(c, q, n, l) ==
  /\ RowTypeOK' /\ BoardTypeOK'
  /\ c \in [Sessions -> CallStages]
  /\ q \in Seq(Sessions) /\ IsInjective(q)
  /\ n \in Nat
  /\ l \in Sessions \cup {Idle}

InCalls(c) == {s \in Sessions : c[s] \in InCall}

MidQueue(c, q) ==
  \A s \in ToSet(q) : row'[s] = "queued" /\ c[s] = "none" /\ s \notin refused'

MidCalls(c, q, l) ==
  /\ \A s \in refused' : c[s] = "done"
  /\ \A s \in Sessions : c[s] \in InCall =>
       /\ l # s => row'[s] = "none"
       /\ l = s => row'[s] # "none"
       /\ (l = s /\ ~cancelled'[s] /\ ~quitting') => row'[s] = "queued"
  /\ \A s \in Sessions : row'[s] = "queued" => s \in ToSet(q) \/ l = s \/ s \in refused'
  /\ l # Idle => c[l] \in InCall

MidClaims(c, s) == IsLive(row'[s]) \/ (c[s] \in InCall /\ ~cancelled'[s])

MidAlone(c) ==
  \A s, x \in Sessions : (s # x /\ TaskOf[s] = TaskOf[x] /\ MidClaims(c, s)) => ~MidClaims(c, x)

MidProc(c) ==
  /\ \A s \in Sessions : c[s] \in InCall \cup {"none"} => proc'[s] = "none"
  /\ \A s \in Sessions : handle'[s] => proc'[s] # "none"
  /\ NoOrphanPty'
  /\ \A s \in Sessions : siblings'[s] \subseteq {x \in SessionsOf(TaskOf[s]) : row'[x] # "none"}
  /\ \A s \in Sessions :
       (c[s] \in {"files", "host"} /\ ~cancelled'[s] /\ ~quitting') =>
          \A x \in siblings'[s] : proc'[x] # "live"

MidQuit(q) ==
  quitting' => q = <<>> /\ \A s \in Sessions : proc'[s] # "live" /\ ~IsLive(row'[s])

(* The spawn calls that have not returned can be counted. *)
LEMMA InCallsFinite ==
  ASSUME NEW c
  PROVE  IsFiniteSet(InCalls(c)) /\ Cardinality(InCalls(c)) \in Nat
<1>1. IsFiniteSet(InCalls(c))
  BY SessionAssumption, FS_Subset DEF InCalls
<1> QED BY <1>1, FS_CardinalityType

(* A promotion adds one to the spawn calls that have not returned. *)
LEMMA OneMoreCall ==
  ASSUME NEW c \in [Sessions -> CallStages], NEW s \in Sessions, c[s] \notin InCall
  PROVE  Cardinality(InCalls([c EXCEPT ![s] = "shell"])) = Cardinality(InCalls(c)) + 1
<1>1. InCalls([c EXCEPT ![s] = "shell"]) = InCalls(c) \cup {s}
  BY DEF InCalls, InCall
<1>2. s \notin InCalls(c)
  BY DEF InCalls
<1> QED BY <1>1, <1>2, InCallsFinite, FS_AddElement

(* A spawn that returns takes one from them. *)
LEMMA OneLessCall ==
  ASSUME NEW c \in [Sessions -> CallStages], NEW s \in Sessions, NEW to \in {"done", "abandoned"},
         c[s] \in InCall
  PROVE  /\ Cardinality(InCalls([c EXCEPT ![s] = to])) = Cardinality(InCalls(c)) - 1
         /\ Cardinality(InCalls(c)) - 1 \in Nat
<1>1. InCalls([c EXCEPT ![s] = to]) = InCalls(c) \ {s}
  BY DEF InCalls, InCall
<1>2. s \in InCalls(c)
  BY DEF InCalls
<1>3. Cardinality(InCalls([c EXCEPT ![s] = to])) = Cardinality(InCalls(c)) - 1
  BY <1>1, <1>2, InCallsFinite, FS_RemoveElement
<1> QED BY <1>3, InCallsFinite

(* The rest of the turn preserves what holds in its middle. *)
LEMMA TurnPreserves ==
  ASSUME NEW r, NEW c, NEW q, NEW n, NEW l, Turn(r, c, q, n, l),
         MidTypes(c, q, n, l), n = Cardinality(InCalls(c)), MidQueue(c, q),
         MidCalls(c, q, l), MidAlone(c), MidProc(c), MidQuit(q), SuspInv'
  PROVE  SessionInv'
<1>0. ToSet(q) \subseteq Sessions
  BY DEF MidTypes, ToSet
<1>1. CASE /\ ToSet(queue') = ToSet(q) /\ call' = c /\ spawning' = n
           /\ loop' = l /\ (l = Idle => dirty' = FALSE)
  <2>1. TypeOK'
    BY <1>1 DEF Turn, MidTypes, TypeOK, QueueTypeOK
  <2>2. SlotAccounting'
    BY <1>1 DEF SlotAccounting, InCalls
  <2>3. QueueInv'
    BY <1>1 DEF Turn, MidQueue, QueueInv
  <2>4. CallInv'
    BY <1>1 DEF MidCalls, CallInv, InQueue
  <2>5. AloneInv' /\ ProcInv'
    BY <1>1 DEF MidAlone, MidClaims, AloneInv, Claims, MidProc, ProcInv
  <2>6. QuitLeavesNoAgent'
    <3>1. quitting' => queue' = <<>>
      <4>1. ToSet(<<>>) = {}
        BY DEF ToSet
      <4> QED BY <1>1, <4>1, NoElements DEF MidQuit, Turn
    <3> QED BY <3>1 DEF MidQuit, QuitLeavesNoAgent
  <2> QED BY <2>1, <2>2, <2>3, <2>4, <2>5, <2>6 DEF SessionInv
<1>2. CASE \E x \in ToSet(q) :
             /\ ToSet(queue') = ToSet(q) \ {x}
             /\ call' = [c EXCEPT ![x] = "shell"]
             /\ spawning' = n + 1
             /\ l = Idle /\ loop' = x
             /\ ~quitting' /\ ActiveCount(r, n) < limit'
  <2>0. PICK x \in ToSet(q) :
          /\ ToSet(queue') = ToSet(q) \ {x}
          /\ call' = [c EXCEPT ![x] = "shell"]
          /\ spawning' = n + 1
          /\ l = Idle /\ loop' = x
          /\ ~quitting'
    BY <1>2
  <2>a. x \in Sessions /\ c[x] = "none" /\ row'[x] = "queued" /\ x \notin refused' /\ x # Idle
    BY <1>0, SessionAssumption DEF MidQueue
  <2>b. c \in [Sessions -> CallStages]
    BY DEF MidTypes
  <2>1. TypeOK'
    BY <2>0, <2>a DEF Turn, MidTypes, TypeOK, QueueTypeOK, CallStages, InCall
  <2>2. SlotAccounting'
    <3>1. Cardinality(InCalls(call')) = n + 1
      BY <2>0, <2>a, <2>b, OneMoreCall DEF InCall
    <3> QED BY <2>0, <3>1 DEF SlotAccounting, InCalls
  <2>3. QueueInv'
    BY <2>0, <2>a, <2>b, <1>0 DEF Turn, MidQueue, QueueInv
  <2>4. CallInv'
    <3>1. \A s \in refused' : call'[s] = "done"
      BY <2>0, <2>a, <2>b DEF MidCalls, MidTypes, RowTypeOK
    <3>2. ASSUME NEW s \in Sessions, call'[s] \in InCall
          PROVE  /\ loop' # s => row'[s] = "none"
                 /\ loop' = s => row'[s] # "none"
                 /\ (loop' = s /\ ~cancelled'[s] /\ ~quitting') => row'[s] = "queued"
      BY <2>0, <2>a, <2>b, <3>2, SessionAssumption DEF MidCalls
    <3>3. \A s \in Sessions : row'[s] = "queued" => s \in ToSet(queue') \/ loop' = s \/ s \in refused'
      BY <2>0, <2>a, SessionAssumption DEF MidCalls
    <3>4. loop' # Idle /\ call'[loop'] \in InCall
      BY <2>0, <2>a, <2>b DEF InCall
    <3> QED BY <3>1, <3>2, <3>3, <3>4 DEF CallInv, InQueue
  <2>5. AloneInv'
    <3>1. \A s \in Sessions : Claims(s)' => MidClaims(c, s)
      BY <2>0, <2>a, <2>b DEF Claims, MidClaims, IsLive
    <3> QED BY <3>1 DEF AloneInv, MidAlone
  <2>6. ProcInv'
    BY <2>0, <2>a, <2>b DEF ProcInv, MidProc, InCall
  <2>7. QuitLeavesNoAgent'
    BY <2>0 DEF QuitLeavesNoAgent
  <2> QED BY <2>1, <2>2, <2>3, <2>4, <2>5, <2>6, <2>7 DEF SessionInv
<1> QED BY <1>1, <1>2 DEF Turn

-----------------------------------------------------------------------------
(* The actions. *)
(* A spawn that has to wait adds one row and one queue entry, for a task that
   had no session. *)
LEMMA QueuedSpawnPreserves ==
  ASSUME SessionInv, ~PausesQueued, NEW s \in Sessions, Spawn(s), ShouldQueue(s)
  PROVE  SessionInv'
<1> DEFINE c == call
           q == Append(queue, s)
           n == spawning
           l == loop
<1>a. /\ row[s] = "none" /\ call[s] = "none" /\ ~cancelled[s] /\ ~quitting
      /\ ~TaskBusy(TaskOf[s])
      /\ \A x \in SessionsOf(TaskOf[s]) : ~IsLive(row[x])
      /\ UNCHANGED <<handle, proc, cancelled, siblings, refused, susp, limit, boardVars, kept,
                     drainDue, quitting>>
  BY DEF Spawn
<1>b. \A x \in Sessions : TaskOf[x] = TaskOf[s] => ~Claims(x)
  <2>1. SUFFICES ASSUME NEW x \in Sessions, TaskOf[x] = TaskOf[s], Claims(x)
                 PROVE  FALSE
    OBVIOUS
  <2>2. call[x] \in InCall /\ ~cancelled[x] /\ row[x] # "queued"
    BY <1>a, <2>1 DEF Claims, SessionsOf, IsLive
  <2>3. loop = x
    BY <1>a, <2>1, <2>2 DEF TaskBusy, SessionsOf
  <2> QED BY <1>a, <2>2, <2>3 DEF CallInv, SessionInv
<1>c. s \notin ToSet(queue) /\ s \notin refused /\ loop # s /\ s # Idle
  BY <1>a, SessionAssumption DEF QueueInv, CallInv, InCall, SessionInv
<1>d. /\ row' = [row EXCEPT ![s] = "queued"] /\ queue' = Append(queue, s)
      /\ UNCHANGED <<call, loop, dirty, spawning>>
  BY DEF Spawn
<1>e. /\ q \in Seq(Sessions) /\ Len(q) = Len(queue) + 1 /\ q[Len(queue) + 1] = s
      /\ \A k \in 1 .. Len(queue) : q[k] = queue[k]
  BY AppendProperties DEF SessionInv, TypeOK, QueueTypeOK
<1>f. IsInjective(q) /\ ToSet(q) = ToSet(queue) \cup {s}
  <2>1. queue \in Seq(Sessions) /\ IsInjective(queue) /\ Len(queue) \in Nat
    BY LenProperties DEF SessionInv, TypeOK, QueueTypeOK, QueueInv
  <2> HIDE DEF q
  <2>2. IsInjective(q)
    BY <1>c, <1>e, <2>1 DEF IsInjective, ToSet
  <2>3. ToSet(q) \subseteq ToSet(queue) \cup {s}
    BY <1>e, <2>1 DEF ToSet
  <2>4. s \in ToSet(q)
    BY <1>e, <2>1 DEF ToSet
  <2>5. ASSUME NEW k \in DOMAIN queue
        PROVE  queue[k] \in ToSet(q)
    BY <1>e, <2>1 DEF ToSet
  <2>6. ToSet(queue) \subseteq ToSet(q)
    BY <2>5 DEF ToSet
  <2> QED BY <2>2, <2>3, <2>4, <2>6
<1>1. Turn(row, c, q, n, l)
  BY <1>d, <1>e, <1>f DEF Turn, CallInv, SessionInv, TypeOK, RowTypeOK, QueueTypeOK,
     BoardTypeOK
<1>2. MidTypes(c, q, n, l)
  BY <1>a, <1>d, <1>e, <1>f DEF MidTypes, boardVars, SessionInv, TypeOK, RowTypeOK,
     QueueTypeOK, BoardTypeOK
<1>3. n = Cardinality(InCalls(c))
  BY DEF InCalls, SlotAccounting, SessionInv
<1>4. MidQueue(c, q)
  <2>1. ToSet(queue) \subseteq Sessions
    BY DEF ToSet, SessionInv, TypeOK, RowTypeOK, QueueTypeOK, BoardTypeOK
  <2> HIDE DEF q
  <2> QED BY <1>a, <1>d, <1>c, <1>f, <2>1 DEF MidQueue, QueueInv, SessionInv,
     TypeOK, RowTypeOK, QueueTypeOK, BoardTypeOK
<1>5. MidCalls(c, q, l)
  <2> HIDE DEF q
  <2> QED BY <1>a, <1>d, <1>c, <1>f DEF MidCalls, CallInv, InQueue, InCall,
     SessionInv, TypeOK, RowTypeOK, QueueTypeOK, BoardTypeOK
<1>6. MidAlone(c)
  <2>1. \A y \in Sessions : MidClaims(c, y) => y = s \/ Claims(y)
    BY <1>a, <1>d DEF MidClaims, Claims, SessionInv, TypeOK, RowTypeOK, QueueTypeOK,
       BoardTypeOK
  <2> QED BY <1>b, <2>1 DEF MidAlone, AloneInv, SessionInv
<1>7. MidProc(c)
  BY <1>a, <1>d DEF MidProc, ProcInv, NoOrphanPty, SessionsOf, SessionInv, TypeOK,
     RowTypeOK, QueueTypeOK, BoardTypeOK
<1>8. MidQuit(q) /\ SuspInv'
  BY <1>a, <1>d, <1>c DEF MidQuit, QuitLeavesNoAgent, SuspInv, TaskBusy, SessionsOf,
     SessionInv, TypeOK, RowTypeOK, QueueTypeOK, BoardTypeOK
<1> QED
  <2> HIDE DEF c, q, n, l
  <2> QED BY <1>1, <1>2, <1>3, <1>4, <1>5, <1>6, <1>7, <1>8, TurnPreserves

(* A spawn with a slot adds one spawn under way, for a task that had no
   session. *)
LEMMA DirectSpawnPreserves ==
  ASSUME SessionInv, ~PausesQueued, NEW s \in Sessions, Spawn(s), ~ShouldQueue(s)
  PROVE  SessionInv'
<1> DEFINE c == [call EXCEPT ![s] = "shell"]
           q == queue
           n == spawning + 1
           l == loop
<1>a. /\ row[s] = "none" /\ call[s] = "none" /\ ~cancelled[s] /\ ~quitting
      /\ ~TaskBusy(TaskOf[s])
      /\ \A x \in SessionsOf(TaskOf[s]) : ~IsLive(row[x])
      /\ UNCHANGED <<handle, proc, cancelled, siblings, refused, susp, limit, boardVars, kept,
                     drainDue, quitting>>
  BY DEF Spawn
<1>b. \A x \in Sessions : TaskOf[x] = TaskOf[s] => ~Claims(x)
  <2>1. SUFFICES ASSUME NEW x \in Sessions, TaskOf[x] = TaskOf[s], Claims(x)
                 PROVE  FALSE
    OBVIOUS
  <2>2. call[x] \in InCall /\ ~cancelled[x] /\ row[x] # "queued"
    BY <1>a, <2>1 DEF Claims, SessionsOf, IsLive
  <2>3. loop = x
    BY <1>a, <2>1, <2>2 DEF TaskBusy, SessionsOf
  <2> QED BY <1>a, <2>2, <2>3 DEF CallInv, SessionInv
<1>c. s \notin ToSet(queue) /\ s \notin refused /\ loop # s /\ s # Idle
  BY <1>a, SessionAssumption DEF QueueInv, CallInv, InCall, SessionInv
<1>d. /\ call' = c /\ spawning' = n
      /\ UNCHANGED <<row, queue, loop, dirty>>
  BY DEF Spawn
<1>e. \A y \in Sessions : c[y] = IF y = s THEN "shell" ELSE call[y]
  BY DEF SessionInv, TypeOK, QueueTypeOK
<1>1. Turn(row, c, q, n, l)
  BY <1>d DEF Turn, QueueInv, CallInv, SessionInv, TypeOK, RowTypeOK, QueueTypeOK,
     BoardTypeOK
<1>2. MidTypes(c, q, n, l)
  BY <1>a, <1>d DEF MidTypes, boardVars, CallStages, InCall, QueueInv, SessionInv,
     TypeOK, RowTypeOK, QueueTypeOK, BoardTypeOK
<1>3. n = Cardinality(InCalls(c))
  BY <1>a, OneMoreCall DEF InCalls, InCall, SlotAccounting, SessionInv, TypeOK,
     QueueTypeOK
<1>4. MidQueue(c, q)
  <2> HIDE DEF c
  <2> QED BY <1>a, <1>d, <1>c, <1>e DEF MidQueue, QueueInv, ToSet, SessionInv,
     TypeOK, RowTypeOK, QueueTypeOK, BoardTypeOK
<1>5. MidCalls(c, q, l)
  <2> HIDE DEF c
  <2> QED BY <1>a, <1>d, <1>c, <1>e DEF MidCalls, CallInv, InQueue, InCall,
     SessionInv, TypeOK, RowTypeOK, QueueTypeOK, BoardTypeOK
<1>6. MidAlone(c)
  <2>1. \A y \in Sessions : MidClaims(c, y) => y = s \/ Claims(y)
    BY <1>a, <1>d, <1>e DEF MidClaims, Claims
  <2> HIDE DEF c
  <2> QED BY <1>b, <2>1 DEF MidAlone, AloneInv, SessionInv
<1>7. MidProc(c)
  <2> HIDE DEF c
  <2> QED BY <1>a, <1>d, <1>e DEF MidProc, ProcInv, NoOrphanPty, SessionsOf, InCall,
     SessionInv, TypeOK, RowTypeOK, QueueTypeOK, BoardTypeOK
<1>8. MidQuit(q) /\ SuspInv'
  BY <1>a, <1>d DEF MidQuit, QuitLeavesNoAgent, SuspInv, SessionInv, TypeOK,
     RowTypeOK, QueueTypeOK, BoardTypeOK
<1> QED
  <2> HIDE DEF c, q, n, l
  <2> QED BY <1>1, <1>2, <1>3, <1>4, <1>5, <1>6, <1>7, <1>8, TurnPreserves

(* A refused start ends its spawn; the row it leaves, if any, is not live. *)
LEMMA RefuseStartPreserves ==
  ASSUME SessionInv, ~PausesQueued, NEW s \in Sessions, RefuseStart(s)
  PROVE  SessionInv'
<1> DEFINE c == [call EXCEPT ![s] = "done"]
           q == queue
           n == spawning - 1
           l == IF loop = s THEN Idle ELSE loop
<1>a. n = Cardinality(InCalls(c)) /\ n \in Nat
  BY OneLessCall DEF SessionInv, TypeOK, QueueTypeOK, SlotAccounting, InCalls,
     InCall, RefuseStart, SessionsOf, boardVars
<1>1. Turn(row', c, q, n, l)
  BY SpawnReturnsIsTurn DEF SessionInv, TypeOK, QueueTypeOK, QueueInv, CallInv,
     RefuseStart, SessionsOf, boardVars
<1>2. MidTypes(c, q, n, l)
  BY <1>a, SessionAssumption DEF MidTypes, CallStages, InCall, SessionInv, TypeOK,
     RowTypeOK, QueueTypeOK, BoardTypeOK, QueueInv, RefuseStart, SessionsOf,
     boardVars
<1>3. n = Cardinality(InCalls(c))
  BY <1>a
<1>4. MidQueue(c, q)
  BY DEF MidQueue, InCall, QueueInv, ToSet, SessionInv, TypeOK, RowTypeOK,
     QueueTypeOK, BoardTypeOK, RefuseStart, SessionsOf, boardVars
<1>5. MidCalls(c, q, l)
  BY SessionAssumption DEF MidCalls, CallInv, QueueInv, InQueue, InCall, Tracked,
     SessionInv, TypeOK, RowTypeOK, QueueTypeOK, BoardTypeOK, RefuseStart,
     SessionsOf, boardVars
<1>6. MidAlone(c)
  BY DEF MidAlone, MidClaims, AloneInv, Claims, SessionsOf, IsLive, InCall, CallInv,
     Tracked, SessionInv, TypeOK, RowTypeOK, QueueTypeOK, BoardTypeOK, RefuseStart,
     SessionsOf, boardVars
<1>7. MidProc(c)
  BY DEF MidProc, ProcInv, NoOrphanPty, SuspInv, SessionsOf, QuitLeavesNoAgent,
     IsLive, InCall, Tracked, SessionInv, TypeOK, RowTypeOK, QueueTypeOK,
     BoardTypeOK, RefuseStart, SessionsOf, boardVars
<1>8. MidQuit(q) /\ SuspInv'
  BY DEF MidQuit, QuitLeavesNoAgent, SuspInv, ProcInv, NoOrphanPty, IsLive, Tracked,
     SessionInv, TypeOK, RowTypeOK, QueueTypeOK, BoardTypeOK, RefuseStart,
     SessionsOf, boardVars
<1> QED
  <2> HIDE DEF c, q, n, l
  <2> QED BY <1>1, <1>2, <1>3, <1>4, <1>5, <1>6, <1>7, <1>8, TurnPreserves

(* A spawn found cancelled once its shell is known ends, and settles its
   placeholder. *)
LEMMA ShellCancelledPreserves ==
  ASSUME SessionInv, ~PausesQueued, NEW s \in Sessions, ShellResolved(s), cancelled[s]
  PROVE  SessionInv'
<1> DEFINE c == [call EXCEPT ![s] = "done"]
           q == queue
           n == spawning - 1
           l == IF loop = s THEN Idle ELSE loop
<1>a. n = Cardinality(InCalls(c)) /\ n \in Nat
  BY OneLessCall DEF SessionInv, TypeOK, QueueTypeOK, SlotAccounting, InCalls,
     InCall, ShellResolved, AbandonedRow, SessionsOf, boardVars
<1>b. /\ call[s] \in InCall /\ c = [call EXCEPT ![s] = "done"]
      /\ UNCHANGED <<handle, proc, cancelled, refused, susp, quitting>>
      /\ siblings' \in [Sessions -> SUBSET Sessions]
      /\ \A x \in Sessions : siblings'[x] \subseteq siblings[x]
      /\ row' = IF row[s] = "queued" THEN [row EXCEPT ![s] = "exited"] ELSE row
  BY DEF ShellResolved, AbandonedRow, InCall, SessionInv, TypeOK, RowTypeOK
<1>1. Turn(row', c, q, n, l)
  BY SpawnReturnsIsTurn DEF SessionInv, TypeOK, QueueTypeOK, QueueInv, CallInv,
     ShellResolved, AbandonedRow, SessionsOf, boardVars
<1>2. MidTypes(c, q, n, l)
  BY <1>a, SessionAssumption DEF MidTypes, CallStages, InCall, SessionInv, TypeOK,
     RowTypeOK, QueueTypeOK, BoardTypeOK, QueueInv, ShellResolved, AbandonedRow,
     SessionsOf, boardVars
<1>3. n = Cardinality(InCalls(c))
  BY <1>a
<1>4. MidQueue(c, q)
  BY DEF MidQueue, InCall, QueueInv, ToSet, SessionInv, TypeOK, RowTypeOK,
     QueueTypeOK, BoardTypeOK, ShellResolved, AbandonedRow, SessionsOf, boardVars
<1>5. MidCalls(c, q, l)
  BY SessionAssumption DEF MidCalls, CallInv, QueueInv, InQueue, InCall, Tracked,
     SessionInv, TypeOK, RowTypeOK, QueueTypeOK, BoardTypeOK, ShellResolved,
     AbandonedRow, SessionsOf, boardVars
<1>6. MidAlone(c)
  BY DEF MidAlone, MidClaims, AloneInv, Claims, SessionsOf, IsLive, InCall, CallInv,
     Tracked, SessionInv, TypeOK, RowTypeOK, QueueTypeOK, BoardTypeOK,
     ShellResolved, AbandonedRow, SessionsOf, boardVars
<1>7. MidProc(c)
  BY <1>b DEF MidProc, ProcInv, NoOrphanPty, SessionsOf, InCall, SessionInv, TypeOK,
     RowTypeOK, QueueTypeOK, BoardTypeOK
<1>8. MidQuit(q) /\ SuspInv'
  BY DEF MidQuit, QuitLeavesNoAgent, SuspInv, ProcInv, NoOrphanPty, IsLive, Tracked,
     SessionInv, TypeOK, RowTypeOK, QueueTypeOK, BoardTypeOK, ShellResolved,
     AbandonedRow, SessionsOf, boardVars
<1> QED
  <2> HIDE DEF c, q, n, l
  <2> QED BY <1>1, <1>2, <1>3, <1>4, <1>5, <1>6, <1>7, <1>8, TurnPreserves

(* Draining the task's rows takes their PTYs, each of which is stopped first. *)
LEMMA ShellDrainsPreserves ==
  ASSUME SessionInv, ~PausesQueued, NEW s \in Sessions, ShellResolved(s), ~cancelled[s]
  PROVE  SessionInv'
<1> DEFINE c == [call EXCEPT ![s] = "files"]
           q == queue
           n == spawning
           l == loop
<1>a. /\ call[s] = "shell" /\ c = [call EXCEPT ![s] = "files"]
      /\ UNCHANGED <<row, cancelled, refused, susp, queueVars, quitting>>
  BY DEF ShellResolved, QueueAside
<1>b. InCalls(c) = InCalls(call)
  BY <1>a DEF InCalls, InCall, SessionInv, TypeOK, QueueTypeOK
<1> DEFINE rows == {x \in SessionsOf(TaskOf[s]) : row[x] \notin {"none", "removed"}}
<1>c. /\ siblings' = [siblings EXCEPT ![s] = rows]
      /\ handle' = [x \in Sessions |-> handle[x] /\ x \notin rows]
      /\ proc' = [x \in Sessions |-> IF x \in rows /\ handle[x] /\ proc[x] = "live"
                                     THEN "killed" ELSE proc[x]]
  BY DEF ShellResolved
<1>1. Turn(row, c, q, n, l)
  BY AsideIsTurn DEF SessionInv, TypeOK, QueueTypeOK, QueueInv, CallInv,
     ShellResolved, boardVars, queueVars
<1>2. MidTypes(c, q, n, l)
  <2>1. handle' \in [Sessions -> BOOLEAN]
    BY <1>c
  <2>2. proc' \in [Sessions -> {"none", "live", "killed", "gone"}]
    BY <1>c DEF SessionInv, TypeOK, RowTypeOK, QueueTypeOK, BoardTypeOK
  <2>3. siblings' \in [Sessions -> SUBSET Sessions]
    BY <1>c DEF SessionsOf, SessionInv, TypeOK, RowTypeOK, QueueTypeOK, BoardTypeOK
  <2>4. c \in [Sessions -> CallStages]
    BY DEF CallStages, InCall, SessionInv, TypeOK, RowTypeOK, QueueTypeOK, BoardTypeOK
  <2> HIDE DEF c, rows
  <2> QED BY <1>a, <2>1, <2>2, <2>3, <2>4 DEF MidTypes, ShellResolved, boardVars,
     QueueInv, SessionInv, TypeOK, RowTypeOK, QueueTypeOK, BoardTypeOK
<1>3. n = Cardinality(InCalls(c))
  BY <1>b DEF SlotAccounting, SessionInv, InCalls
<1>4. MidQueue(c, q)
  BY <1>a DEF MidQueue, QueueInv, InCall, ToSet, SessionInv, TypeOK, RowTypeOK,
     QueueTypeOK, BoardTypeOK
<1>5. MidCalls(c, q, l)
  BY <1>a DEF MidCalls, CallInv, InQueue, InCall, SessionInv, TypeOK, RowTypeOK,
     QueueTypeOK, BoardTypeOK
<1>6. MidAlone(c)
  BY <1>a DEF MidAlone, MidClaims, AloneInv, Claims, IsLive, InCall, SessionInv,
     TypeOK, RowTypeOK, QueueTypeOK, BoardTypeOK
<1>7. MidProc(c)
  <2>1. rows \subseteq {x \in SessionsOf(TaskOf[s]) : row[x] # "none"}
    OBVIOUS
  <2>2. \A x \in Sessions : proc'[x] = proc[x] \/ (proc[x] = "live" /\ proc'[x] = "killed")
    BY <1>c DEF SessionInv, TypeOK, RowTypeOK
  <2>3. \A x \in rows : proc'[x] # "live"
    BY <1>c DEF SessionsOf, NoOrphanPty, ProcInv, SessionInv
  <2>4. NoOrphanPty'
    BY <1>a, <1>c DEF NoOrphanPty, ProcInv, SessionInv
  <2>5. \A y \in Sessions : c[y] = IF y = s THEN "files" ELSE call[y]
    BY DEF SessionInv, TypeOK, QueueTypeOK
  <2>6. ASSUME NEW y \in Sessions, c[y] \in InCall \cup {"none"}
        PROVE  proc'[y] = "none"
    BY <1>a, <2>2, <2>5, <2>6 DEF ProcInv, SessionInv, InCall
  <2>7. ASSUME NEW y \in Sessions
        PROVE  /\ handle'[y] => proc'[y] # "none"
               /\ siblings'[y] \subseteq {x \in SessionsOf(TaskOf[y]) : row'[x] # "none"}
    BY <1>a, <1>c, <2>1, <2>2 DEF ProcInv, SessionInv, TypeOK, RowTypeOK,
       QueueTypeOK, BoardTypeOK
  <2>8. ASSUME NEW y \in Sessions, c[y] \in {"files", "host"}, ~cancelled'[y], ~quitting',
               NEW x \in siblings'[y]
        PROVE  proc'[x] # "live"
    <3>1. CASE y = s
      BY <1>c, <2>3, <2>8, <3>1 DEF SessionInv, TypeOK, RowTypeOK
    <3>2. CASE y # s
      <4>1. x \in Sessions /\ x \in siblings[y] /\ proc[x] # "live"
        BY <1>a, <1>c, <2>5, <2>8, <3>2 DEF ProcInv, SessionInv, TypeOK, RowTypeOK,
           QueueTypeOK, BoardTypeOK
      <4> QED BY <2>2, <4>1
    <3> QED BY <3>1, <3>2
  <2> HIDE DEF c, rows
  <2> QED BY <2>4, <2>6, <2>7, <2>8 DEF MidProc
<1>8. MidQuit(q) /\ SuspInv'
  BY <1>a, <1>c DEF MidQuit, QuitLeavesNoAgent, SuspInv, ProcInv, IsLive,
     SessionInv, TypeOK, RowTypeOK, QueueTypeOK, BoardTypeOK
<1> QED
  <2> HIDE DEF c, q, n, l
  <2> QED BY <1>1, <1>2, <1>3, <1>4, <1>5, <1>6, <1>7, <1>8, TurnPreserves

(* A spawn found cancelled before it asks the host ends, and settles its
   placeholder. *)
LEMMA FilesCancelledPreserves ==
  ASSUME SessionInv, ~PausesQueued, NEW s \in Sessions, FilesReady(s), cancelled[s]
  PROVE  SessionInv'
<1> DEFINE c == [call EXCEPT ![s] = "done"]
           q == queue
           n == spawning - 1
           l == IF loop = s THEN Idle ELSE loop
<1>a. n = Cardinality(InCalls(c)) /\ n \in Nat
  BY OneLessCall DEF SessionInv, TypeOK, QueueTypeOK, SlotAccounting, InCalls,
     InCall, FilesReady, AbandonedRow, SessionsOf, boardVars
<1>b. /\ call[s] \in InCall /\ c = [call EXCEPT ![s] = "done"]
      /\ UNCHANGED <<handle, proc, cancelled, refused, susp, quitting>>
      /\ siblings' \in [Sessions -> SUBSET Sessions]
      /\ \A x \in Sessions : siblings'[x] \subseteq siblings[x]
      /\ row' = IF row[s] = "queued" THEN [row EXCEPT ![s] = "exited"] ELSE row
  BY DEF FilesReady, AbandonedRow, InCall, SessionInv, TypeOK, RowTypeOK
<1>1. Turn(row', c, q, n, l)
  BY SpawnReturnsIsTurn DEF SessionInv, TypeOK, QueueTypeOK, QueueInv, CallInv,
     FilesReady, AbandonedRow, SessionsOf, boardVars
<1>2. MidTypes(c, q, n, l)
  BY <1>a, SessionAssumption DEF MidTypes, CallStages, InCall, SessionInv, TypeOK,
     RowTypeOK, QueueTypeOK, BoardTypeOK, QueueInv, FilesReady, AbandonedRow,
     SessionsOf, boardVars
<1>3. n = Cardinality(InCalls(c))
  BY <1>a
<1>4. MidQueue(c, q)
  BY DEF MidQueue, InCall, QueueInv, ToSet, SessionInv, TypeOK, RowTypeOK,
     QueueTypeOK, BoardTypeOK, FilesReady, AbandonedRow, SessionsOf, boardVars
<1>5. MidCalls(c, q, l)
  BY SessionAssumption DEF MidCalls, CallInv, QueueInv, InQueue, InCall, Tracked,
     SessionInv, TypeOK, RowTypeOK, QueueTypeOK, BoardTypeOK, FilesReady,
     AbandonedRow, SessionsOf, boardVars
<1>6. MidAlone(c)
  BY DEF MidAlone, MidClaims, AloneInv, Claims, SessionsOf, IsLive, InCall, CallInv,
     Tracked, SessionInv, TypeOK, RowTypeOK, QueueTypeOK, BoardTypeOK, FilesReady,
     AbandonedRow, SessionsOf, boardVars
<1>7. MidProc(c)
  BY <1>b DEF MidProc, ProcInv, NoOrphanPty, SessionsOf, InCall, SessionInv, TypeOK,
     RowTypeOK, QueueTypeOK, BoardTypeOK
<1>8. MidQuit(q) /\ SuspInv'
  BY DEF MidQuit, QuitLeavesNoAgent, SuspInv, ProcInv, NoOrphanPty, IsLive, Tracked,
     SessionInv, TypeOK, RowTypeOK, QueueTypeOK, BoardTypeOK, FilesReady,
     AbandonedRow, SessionsOf, boardVars
<1> QED
  <2> HIDE DEF c, q, n, l
  <2> QED BY <1>1, <1>2, <1>3, <1>4, <1>5, <1>6, <1>7, <1>8, TurnPreserves

(* A spawn that goes on to the host changes nothing but its own stage. *)
LEMMA FilesWrittenPreserves ==
  ASSUME SessionInv, ~PausesQueued, NEW s \in Sessions, FilesReady(s), ~cancelled[s]
  PROVE  SessionInv'
<1> DEFINE c == [call EXCEPT ![s] = "host"]
           q == queue
           n == spawning
           l == loop
<1>a. /\ call[s] = "files" /\ c = [call EXCEPT ![s] = "host"]
      /\ UNCHANGED <<row, handle, proc, siblings, cancelled, refused, susp, queueVars, quitting>>
  BY DEF FilesReady, QueueAside
<1>b. InCalls(c) = InCalls(call)
  BY <1>a DEF InCalls, InCall, SessionInv, TypeOK, QueueTypeOK
<1>1. Turn(row, c, q, n, l)
  BY AsideIsTurn DEF SessionInv, TypeOK, QueueTypeOK, QueueInv, CallInv, FilesReady,
     boardVars, queueVars
<1>2. MidTypes(c, q, n, l)
  BY SessionAssumption DEF MidTypes, CallStages, InCall, SessionInv, TypeOK,
     RowTypeOK, QueueTypeOK, BoardTypeOK, QueueInv, FilesReady, boardVars, queueVars
<1>3. n = Cardinality(InCalls(c))
  BY <1>b DEF SlotAccounting, SessionInv, InCalls
<1>4. MidQueue(c, q)
  BY <1>a DEF MidQueue, QueueInv, InCall, ToSet, SessionInv, TypeOK, RowTypeOK,
     QueueTypeOK, BoardTypeOK
<1>5. MidCalls(c, q, l)
  BY <1>a DEF MidCalls, CallInv, InQueue, InCall, SessionInv, TypeOK, RowTypeOK,
     QueueTypeOK, BoardTypeOK
<1>6. MidAlone(c)
  BY <1>a DEF MidAlone, MidClaims, AloneInv, Claims, IsLive, InCall, SessionInv,
     TypeOK, RowTypeOK, QueueTypeOK, BoardTypeOK
<1>7. MidProc(c)
  BY <1>a DEF MidProc, ProcInv, NoOrphanPty, SessionsOf, InCall, SessionInv, TypeOK,
     RowTypeOK, QueueTypeOK, BoardTypeOK
<1>8. MidQuit(q) /\ SuspInv'
  BY <1>a DEF MidQuit, QuitLeavesNoAgent, SuspInv, IsLive, SessionInv, TypeOK,
     RowTypeOK, QueueTypeOK, BoardTypeOK
<1> QED
  <2> HIDE DEF c, q, n, l
  <2> QED BY <1>1, <1>2, <1>3, <1>4, <1>5, <1>6, <1>7, <1>8, TurnPreserves

(* A PTY the host started for a cancelled spawn is stopped and registers no
   row. *)
LEMMA HostCancelledPreserves ==
  ASSUME SessionInv, ~PausesQueued, NEW s \in Sessions, HostAnswers(s), cancelled[s]
  PROVE  SessionInv'
<1> DEFINE c == [call EXCEPT ![s] = "abandoned"]
           q == queue
           n == spawning - 1
           l == IF loop = s THEN Idle ELSE loop
<1>a. n = Cardinality(InCalls(c)) /\ n \in Nat
  BY OneLessCall DEF SessionInv, TypeOK, QueueTypeOK, SlotAccounting, InCalls,
     InCall, HostAnswers, AbandonedRow, SessionsOf, boardVars
<1>b. /\ call[s] = "host" /\ c = [call EXCEPT ![s] = "abandoned"]
      /\ UNCHANGED <<handle, cancelled, refused, susp, quitting>>
      /\ siblings' = [siblings EXCEPT ![s] = {}]
      /\ proc' = [proc EXCEPT ![s] = "killed"]
      /\ row' = IF row[s] = "queued" THEN [row EXCEPT ![s] = "exited"] ELSE row
  BY DEF HostAnswers, Overtaken, AbandonedRow
<1>1. Turn(row', c, q, n, l)
  BY SpawnReturnsIsTurn DEF SessionInv, TypeOK, QueueInv, HostAnswers, Overtaken
<1>2. MidTypes(c, q, n, l)
  BY <1>b, <1>a, SessionAssumption DEF MidTypes, CallStages, InCall, SessionInv,
     TypeOK, RowTypeOK, QueueTypeOK, BoardTypeOK, QueueInv, HostAnswers, Overtaken,
     boardVars
<1>3. n = Cardinality(InCalls(c))
  BY <1>a
<1>4. MidQueue(c, q)
  BY <1>b DEF MidQueue, InCall, QueueInv, ToSet, SessionInv, TypeOK, RowTypeOK,
     QueueTypeOK, BoardTypeOK
<1>5. MidCalls(c, q, l)
  BY <1>b, SessionAssumption DEF MidCalls, CallInv, InQueue, InCall, SessionInv,
     TypeOK, RowTypeOK, QueueTypeOK, BoardTypeOK
<1>6. MidAlone(c)
  BY <1>b DEF MidAlone, MidClaims, AloneInv, Claims, IsLive, InCall, SessionInv,
     TypeOK, RowTypeOK, QueueTypeOK, BoardTypeOK
<1>7. MidProc(c)
  BY <1>b DEF MidProc, ProcInv, NoOrphanPty, SessionsOf, InCall, SessionInv, TypeOK,
     RowTypeOK, QueueTypeOK, BoardTypeOK
<1>8. MidQuit(q) /\ SuspInv'
  BY <1>b DEF MidQuit, QuitLeavesNoAgent, SuspInv, ProcInv, IsLive, SessionInv,
     TypeOK, RowTypeOK, QueueTypeOK, BoardTypeOK
<1> QED
  <2> HIDE DEF c, q, n, l
  <2> QED BY <1>1, <1>2, <1>3, <1>4, <1>5, <1>6, <1>7, <1>8, TurnPreserves

(* A PTY the host started while the app quits is stopped and registers no
   row. *)
LEMMA HostQuitPreserves ==
  ASSUME SessionInv, ~PausesQueued, NEW s \in Sessions, HostAnswers(s), ~cancelled[s], quitting
  PROVE  SessionInv'
<1> DEFINE c == [call EXCEPT ![s] = "done"]
           q == queue
           n == spawning - 1
           l == IF loop = s THEN Idle ELSE loop
<1>a. n = Cardinality(InCalls(c)) /\ n \in Nat
  BY OneLessCall DEF SessionInv, TypeOK, QueueTypeOK, SlotAccounting, InCalls,
     InCall, HostAnswers, AbandonedRow, SessionsOf, boardVars
<1>b. /\ call[s] = "host" /\ c = [call EXCEPT ![s] = "done"]
      /\ UNCHANGED <<row, handle, cancelled, refused, susp, quitting>>
      /\ siblings' = [siblings EXCEPT ![s] = {}]
      /\ proc' = [proc EXCEPT ![s] = "killed"]
  BY DEF HostAnswers, Overtaken
<1>1. Turn(row', c, q, n, l)
  BY SpawnReturnsIsTurn DEF SessionInv, TypeOK, QueueInv, HostAnswers, Overtaken
<1>2. MidTypes(c, q, n, l)
  BY <1>b, <1>a, SessionAssumption DEF MidTypes, CallStages, InCall, SessionInv,
     TypeOK, RowTypeOK, QueueTypeOK, BoardTypeOK, QueueInv, HostAnswers, Overtaken,
     boardVars
<1>3. n = Cardinality(InCalls(c))
  BY <1>a
<1>4. MidQueue(c, q)
  BY <1>b DEF MidQueue, InCall, QueueInv, ToSet, SessionInv, TypeOK, RowTypeOK,
     QueueTypeOK, BoardTypeOK
<1>5. MidCalls(c, q, l)
  BY <1>b, SessionAssumption DEF MidCalls, CallInv, InQueue, InCall,
     QuitLeavesNoAgent, IsLive, SessionInv, TypeOK, RowTypeOK, QueueTypeOK,
     BoardTypeOK
<1>6. MidAlone(c)
  BY <1>b DEF MidAlone, MidClaims, AloneInv, Claims, IsLive, InCall, SessionInv,
     TypeOK, RowTypeOK, QueueTypeOK, BoardTypeOK
<1>7. MidProc(c)
  BY <1>b DEF MidProc, ProcInv, NoOrphanPty, SessionsOf, InCall, SessionInv, TypeOK,
     RowTypeOK, QueueTypeOK, BoardTypeOK
<1>8. MidQuit(q) /\ SuspInv'
  BY <1>b DEF MidQuit, QuitLeavesNoAgent, SuspInv, ProcInv, IsLive, SessionInv,
     TypeOK, RowTypeOK, QueueTypeOK, BoardTypeOK
<1> QED
  <2> HIDE DEF c, q, n, l
  <2> QED BY <1>1, <1>2, <1>3, <1>4, <1>5, <1>6, <1>7, <1>8, TurnPreserves

(* A spawn nothing overtook registers its PTY; the rows it replaces had none
   running. *)
LEMMA HostRegistersPreserves ==
  ASSUME SessionInv, ~PausesQueued, NEW s \in Sessions, HostAnswers(s), ~cancelled[s], ~quitting
  PROVE  SessionInv'
<1> DEFINE c == [call EXCEPT ![s] = "done"]
           q == queue
           n == spawning - 1
           l == IF loop = s THEN Idle ELSE loop
<1>a. n = Cardinality(InCalls(c)) /\ n \in Nat
  BY OneLessCall DEF SessionInv, TypeOK, QueueTypeOK, SlotAccounting, InCalls,
     InCall, HostAnswers, AbandonedRow, SessionsOf, boardVars
<1>b. /\ call[s] = "host" /\ c = [call EXCEPT ![s] = "done"]
      /\ siblings' = [siblings EXCEPT ![s] = {}]
      /\ UNCHANGED <<cancelled, refused, susp, quitting>>
      /\ proc' = [proc EXCEPT ![s] = "live"]
      /\ row' = [x \in Sessions |-> IF x = s THEN "running"
                                     ELSE IF x \in siblings[s] THEN "removed" ELSE row[x]]
      /\ handle' = [x \in Sessions |-> x = s \/ (handle[x] /\ x \notin siblings[s])]
  BY DEF HostAnswers, Overtaken, Registered
<1>c. ASSUME NEW x \in siblings[s], x # s
      PROVE  /\ x \in Sessions /\ ~IsLive(row[x]) /\ row[x] # "none"
             /\ proc[x] # "live"
  BY <1>b, <1>c DEF AloneInv, Claims, ProcInv, QuitLeavesNoAgent, SessionsOf,
     InCall, SessionInv
<1>d. ASSUME NEW y \in Sessions
      PROVE  /\ row'[y] = "queued" <=> (row[y] = "queued" /\ y # s)
             /\ (y # s /\ IsLive(row'[y])) => IsLive(row[y])
             /\ y # s => (row'[y] = "none" <=> row[y] = "none")
             /\ c[y] = IF y = s THEN "done" ELSE call[y]
  BY <1>b, <1>c DEF IsLive, SessionInv, TypeOK, RowTypeOK, QueueTypeOK
<1>1. Turn(row', c, q, n, l)
  BY SpawnReturnsIsTurn DEF SessionInv, TypeOK, QueueInv, HostAnswers, Overtaken
<1>2. MidTypes(c, q, n, l)
  <2>1. handle' \in [Sessions -> BOOLEAN]
    BY <1>b
  <2>2. /\ row' \in [Sessions -> {"none", "queued", "running", "exited", "suspended", "removed"}]
        /\ proc' \in [Sessions -> {"none", "live", "killed", "gone"}]
        /\ siblings' \in [Sessions -> SUBSET Sessions]
        /\ c \in [Sessions -> CallStages]
    BY <1>b DEF CallStages, SessionInv, TypeOK, RowTypeOK, QueueTypeOK, BoardTypeOK
  <2>3. l \in Sessions \cup {Idle}
    BY DEF SessionInv, TypeOK, RowTypeOK, QueueTypeOK, BoardTypeOK
  <2> HIDE DEF c, l
  <2> QED BY <1>b, <1>a, <2>1, <2>2, <2>3 DEF MidTypes, HostAnswers, boardVars,
     QueueInv, SessionInv, TypeOK, RowTypeOK, QueueTypeOK, BoardTypeOK
<1>3. n = Cardinality(InCalls(c))
  BY <1>a
<1>4. MidQueue(c, q)
  <2>1. \A y \in ToSet(queue) : y \in Sessions /\ y # s
    BY <1>b DEF ToSet, QueueInv, SessionInv, TypeOK, RowTypeOK, QueueTypeOK, BoardTypeOK
  <2> HIDE DEF c
  <2> QED BY <1>b, <1>d, <2>1 DEF MidQueue, QueueInv, SessionInv
<1>5. MidCalls(c, q, l)
  <2>0. \A y \in Sessions : y # s => (l = y <=> loop = y)
    BY SessionAssumption
  <2> HIDE DEF c
  <2>1. \A y \in refused' : c[y] = "done"
    BY <1>b, <1>d DEF CallInv, SessionInv, TypeOK, RowTypeOK, QueueTypeOK, BoardTypeOK
  <2>2. ASSUME NEW y \in Sessions, c[y] \in InCall
        PROVE  /\ l # y => row'[y] = "none"
               /\ l = y => row'[y] # "none"
               /\ (l = y /\ ~cancelled'[y] /\ ~quitting') => row'[y] = "queued"
    <3>1. y # s /\ call[y] \in InCall
      BY <1>d, <2>2 DEF InCall
    <3>2. cancelled' = cancelled /\ quitting' = quitting
      BY <1>b
    <3> HIDE DEF l
    <3> QED BY <1>d, <2>0, <3>1, <3>2 DEF CallInv, SessionInv
  <2>3. ASSUME NEW y \in Sessions, row'[y] = "queued"
        PROVE  y \in ToSet(q) \/ l = y \/ y \in refused'
    <3>1. row[y] = "queued" /\ y # s /\ refused' = refused
      BY <1>b, <1>d, <2>3
    <3> HIDE DEF l
    <3> QED BY <3>1, <2>0 DEF CallInv, InQueue, SessionInv
  <2>4. l # Idle => c[l] \in InCall
    BY <1>d DEF CallInv, SessionInv, TypeOK, QueueTypeOK
  <2> QED BY <2>1, <2>2, <2>3, <2>4 DEF MidCalls
<1>6. MidAlone(c)
  <2>1. \A y \in Sessions : MidClaims(c, y) => Claims(y)
    BY <1>b, <1>d DEF MidClaims, Claims, InCall
  <2> QED BY <2>1 DEF MidAlone, AloneInv, SessionInv
<1>7. MidProc(c)
  <2>1. \A y \in Sessions : proc'[y] = IF y = s THEN "live" ELSE proc[y]
    BY <1>b DEF SessionInv, TypeOK, RowTypeOK, QueueTypeOK, BoardTypeOK
  <2>2. \A y \in Sessions : proc[y] = "live" => y # s /\ y \notin siblings[s]
    BY <1>b, <1>c DEF ProcInv, SessionInv, InCall
  <2>3. \A y \in Sessions : row[y] # "none" => row'[y] # "none"
    BY <1>b
  <2>4. NoOrphanPty'
    BY <1>b, <2>1, <2>2 DEF NoOrphanPty, ProcInv, SessionInv
  <2>5. ASSUME NEW y \in Sessions, handle'[y]
        PROVE  proc'[y] # "none"
    <3>1. y = s \/ handle[y]
      BY <1>b, <2>5
    <3> QED BY <2>1, <3>1 DEF ProcInv, SessionInv
  <2>6. \A y \in Sessions : siblings'[y] \subseteq siblings[y]
    BY <1>b DEF SessionInv, TypeOK, RowTypeOK
  <2>7. ASSUME NEW y \in Sessions, c[y] \in InCall \cup {"none"}
        PROVE  proc'[y] = "none"
    BY <1>d, <2>1, <2>7 DEF ProcInv, SessionInv, InCall
  <2>8. ASSUME NEW y \in Sessions, c[y] \in {"files", "host"}, ~cancelled'[y], ~quitting',
               NEW x \in siblings'[y]
        PROVE  proc'[x] # "live"
    <3>1. y # s /\ call[y] \in {"files", "host"} /\ ~cancelled[y]
      BY <1>b, <1>d, <2>8
    <3>2. x \in Sessions /\ TaskOf[x] = TaskOf[y] /\ proc[x] # "live"
      BY <2>6, <2>8, <3>1, <1>b DEF ProcInv, SessionInv, SessionsOf
    <3>3. TaskOf[y] # TaskOf[s]
      BY <1>b, <3>1 DEF AloneInv, Claims, InCall, SessionInv
    <3> QED BY <2>1, <3>2, <3>3
  <2> HIDE DEF c
  <2> QED BY <2>3, <2>4, <2>5, <2>6, <2>7, <2>8 DEF MidProc, ProcInv, SessionsOf,
     SessionInv
<1>8. MidQuit(q) /\ SuspInv'
  BY <1>b, <1>d DEF MidQuit, QuitLeavesNoAgent, SuspInv, ProcInv, SessionInv,
     TypeOK, RowTypeOK, QueueTypeOK, BoardTypeOK
<1> QED
  <2> HIDE DEF c, q, n, l
  <2> QED BY <1>1, <1>2, <1>3, <1>4, <1>5, <1>6, <1>7, <1>8, TurnPreserves

(* A spawn the host fails ends with an exited row, or with nothing when
   cancelled. *)
LEMMA HostFailsPreserves ==
  ASSUME SessionInv, ~PausesQueued, NEW s \in Sessions, HostFails(s)
  PROVE  SessionInv'
<1> DEFINE c == [call EXCEPT ![s] = "done"]
           q == queue
           n == spawning - 1
           l == IF loop = s THEN Idle ELSE loop
<1>a. n = Cardinality(InCalls(c)) /\ n \in Nat
  BY OneLessCall DEF SessionInv, TypeOK, QueueTypeOK, SlotAccounting, InCalls,
     InCall, HostFails, AbandonedRow, Registered, SessionsOf, boardVars
<1>b. /\ call[s] = "host" /\ c = [call EXCEPT ![s] = "done"]
      /\ siblings' = [siblings EXCEPT ![s] = {}]
      /\ UNCHANGED <<proc, cancelled, refused, quitting>>
      /\ \/ /\ cancelled[s]
            /\ row' = IF row[s] = "queued" THEN [row EXCEPT ![s] = "exited"] ELSE row
            /\ handle' = handle
         \/ /\ ~cancelled[s]
            /\ row' = [x \in Sessions |-> IF x = s THEN "exited"
                                           ELSE IF x \in siblings[s] THEN "removed" ELSE row[x]]
            /\ handle' = [x \in Sessions |-> handle[x] /\ x \notin siblings[s] \cup {s}]
  BY DEF HostFails, AbandonedRow, Registered
<1>c. ASSUME ~cancelled[s], NEW x \in siblings[s], x # s
      PROVE  /\ x \in Sessions /\ ~IsLive(row[x]) /\ row[x] # "none"
             /\ proc[x] # "live"
  BY <1>b, <1>c DEF AloneInv, Claims, ProcInv, QuitLeavesNoAgent, SessionsOf,
     InCall, SessionInv
<1>1. Turn(row', c, q, n, l)
  BY SpawnReturnsIsTurn DEF SessionInv, TypeOK, QueueTypeOK, QueueInv, CallInv,
     HostFails, AbandonedRow, Registered, SessionsOf, boardVars
<1>2. MidTypes(c, q, n, l)
  BY <1>a, SessionAssumption, ZenonT(60) DEF MidTypes, CallStages, InCall, SessionInv, TypeOK,
     RowTypeOK, QueueTypeOK, BoardTypeOK, QueueInv, HostFails, AbandonedRow,
     Registered, SessionsOf, boardVars
<1>3. n = Cardinality(InCalls(c))
  BY <1>a
<1>4. MidQueue(c, q)
  BY DEF MidQueue, InCall, QueueInv, AloneInv, Claims, IsLive, ProcInv, ToSet,
     SessionInv, TypeOK, RowTypeOK, QueueTypeOK, BoardTypeOK, HostFails,
     AbandonedRow, Registered, SessionsOf, boardVars
<1>5. MidCalls(c, q, l)
  <2>1. CASE cancelled[s]
    BY <1>b, <2>1, SessionAssumption DEF MidCalls, CallInv, InQueue, InCall,
       SessionInv, TypeOK, RowTypeOK, QueueTypeOK, BoardTypeOK
  <2>2. CASE ~cancelled[s]
    <3>1. ASSUME NEW y \in Sessions
          PROVE  /\ row'[y] = "queued" => (row[y] = "queued" /\ y # s)
                 /\ (row[y] = "queued" /\ y # s) => row'[y] = "queued"
                 /\ y # s => (row'[y] = "none" <=> row[y] = "none")
      BY <1>b, <1>c, <2>2 DEF IsLive, SessionInv, TypeOK, RowTypeOK
    <3>2. \A y \in Sessions : c[y] = IF y = s THEN "done" ELSE call[y]
      BY DEF SessionInv, TypeOK, QueueTypeOK
    <3>3. s \in refused => call[s] = "done"
      BY DEF SessionInv, CallInv
    <3> HIDE DEF c
    <3>4. \A y \in refused' : c[y] = "done"
      BY <1>b, <3>2 DEF CallInv, SessionInv, TypeOK, RowTypeOK
    <3>5. ASSUME NEW y \in Sessions, c[y] \in InCall
          PROVE  /\ l # y => row'[y] = "none"
                 /\ l = y => row'[y] # "none"
                 /\ (l = y /\ ~cancelled'[y] /\ ~quitting') => row'[y] = "queued"
      <4>1. y # s /\ call[y] \in InCall
        BY <3>2, <3>5 DEF InCall
      <4>2. l = y <=> loop = y
        BY <4>1, SessionAssumption
      <4>3. cancelled' = cancelled /\ quitting' = quitting
        BY <1>b
      <4> HIDE DEF l
      <4> QED BY <3>1, <4>1, <4>2, <4>3 DEF CallInv, SessionInv
    <3>6. ASSUME NEW y \in Sessions, row'[y] = "queued"
          PROVE  y \in ToSet(q) \/ l = y \/ y \in refused'
      <4>1. row[y] = "queued" /\ y # s
        BY <3>1, <3>6
      <4>2. l = y <=> loop = y
        BY <4>1, SessionAssumption
      <4>3. refused' = refused
        BY <1>b
      <4> HIDE DEF l
      <4> QED BY <4>1, <4>2, <4>3 DEF CallInv, InQueue, SessionInv
    <3>7. l # Idle => c[l] \in InCall
      BY <3>2 DEF CallInv, SessionInv, TypeOK, QueueTypeOK
    <3> QED BY <3>4, <3>5, <3>6, <3>7 DEF MidCalls
  <2> QED BY <2>1, <2>2
<1>6. MidAlone(c)
  BY DEF MidAlone, MidClaims, AloneInv, Claims, SessionsOf, IsLive, InCall, CallInv,
     Tracked, SessionInv, TypeOK, RowTypeOK, QueueTypeOK, BoardTypeOK, HostFails,
     AbandonedRow, Registered, SessionsOf, boardVars
<1>7. MidProc(c)
  <2>1. CASE cancelled[s]
    BY <1>b, <2>1 DEF MidProc, ProcInv, NoOrphanPty, SessionsOf, InCall, SessionInv,
       TypeOK, RowTypeOK, QueueTypeOK, BoardTypeOK
  <2>2. CASE ~cancelled[s]
    <3>1. \A y \in Sessions : c[y] = IF y = s THEN "done" ELSE call[y]
      BY DEF SessionInv, TypeOK, QueueTypeOK
    <3>2. \A y \in Sessions : proc[y] = "live" => y # s /\ y \notin siblings[s]
      BY <1>b, <1>c, <2>2 DEF ProcInv, SessionInv, InCall
    <3>3. \A y \in Sessions : row[y] # "none" => row'[y] # "none"
      BY <1>b, <2>2
    <3>4. NoOrphanPty'
      BY <1>b, <2>2, <3>2 DEF NoOrphanPty, ProcInv, SessionInv
    <3>5. \A y \in Sessions : handle'[y] => proc[y] # "none"
      BY <1>b, <2>2 DEF ProcInv, SessionInv
    <3>6. \A y \in Sessions : siblings'[y] \subseteq siblings[y]
      BY <1>b DEF SessionInv, TypeOK, RowTypeOK
    <3> HIDE DEF c
    <3> QED BY <1>b, <3>1, <3>3, <3>4, <3>5, <3>6 DEF MidProc, ProcInv, SessionsOf,
       InCall, SessionInv
  <2> QED BY <2>1, <2>2
<1>8. MidQuit(q) /\ SuspInv'
  BY SMTT(30)
     DEF MidQuit, QuitLeavesNoAgent, SuspInv, ProcInv, NoOrphanPty, IsLive, Tracked,
     SessionInv, TypeOK, RowTypeOK, QueueTypeOK, BoardTypeOK, HostFails,
     AbandonedRow, Registered, SessionsOf, boardVars
<1> QED
  <2> HIDE DEF c, q, n, l
  <2> QED BY <1>1, <1>2, <1>3, <1>4, <1>5, <1>6, <1>7, <1>8, TurnPreserves

(* A PTY's exit ends its row, and the slot is offered to the queue. *)
LEMMA PtyExitPreserves ==
  ASSUME SessionInv, ~PausesQueued, NEW s \in Sessions, PtyExit(s)
  PROVE  SessionInv'
<1> DEFINE c == IF call[s] = "abandoned" THEN [call EXCEPT ![s] = "done"] ELSE call
           q == queue
           n == spawning
           l == loop
<1>1. Turn(row', c, q, n, l)
  BY NotifyIsTurn, AsideIsTurn DEF SessionInv, TypeOK, QueueTypeOK, QueueInv,
     CallInv, PtyExit, boardVars
<1>2. MidTypes(c, q, n, l)
  BY SessionAssumption DEF MidTypes, CallStages, InCall, SessionInv, TypeOK,
     RowTypeOK, QueueTypeOK, BoardTypeOK, QueueInv, PtyExit, boardVars
<1>3. n = Cardinality(InCalls(c))
  BY DEF InCalls, InCall, SlotAccounting, SessionInv, TypeOK, RowTypeOK,
     QueueTypeOK, BoardTypeOK, PtyExit, boardVars
<1>4. MidQueue(c, q)
  BY DEF MidQueue, InCall, QueueInv, ToSet, SessionInv, TypeOK, RowTypeOK,
     QueueTypeOK, BoardTypeOK, PtyExit, boardVars
<1>5. MidCalls(c, q, l)
  BY SessionAssumption DEF MidCalls, CallInv, QueueInv, InQueue, InCall, Tracked,
     SessionInv, TypeOK, RowTypeOK, QueueTypeOK, BoardTypeOK, PtyExit, boardVars
<1>6. MidAlone(c)
  BY DEF MidAlone, MidClaims, AloneInv, Claims, SessionsOf, IsLive, InCall, CallInv,
     Tracked, SessionInv, TypeOK, RowTypeOK, QueueTypeOK, BoardTypeOK, PtyExit,
     boardVars
<1>7. MidProc(c)
  BY DEF MidProc, ProcInv, NoOrphanPty, SuspInv, SessionsOf, QuitLeavesNoAgent,
     IsLive, InCall, Tracked, SessionInv, TypeOK, RowTypeOK, QueueTypeOK,
     BoardTypeOK, PtyExit, boardVars
<1>8. MidQuit(q) /\ SuspInv'
  BY DEF MidQuit, QuitLeavesNoAgent, SuspInv, ProcInv, NoOrphanPty, IsLive, Tracked,
     SessionInv, TypeOK, RowTypeOK, QueueTypeOK, BoardTypeOK, PtyExit, boardVars
<1> QED
  <2> HIDE DEF c, q, n, l
  <2> QED BY <1>1, <1>2, <1>3, <1>4, <1>5, <1>6, <1>7, <1>8, TurnPreserves

(* kill() stops the PTY, cancels a spawn in flight and takes the session off
   the queue. *)
LEMMA KillPreserves ==
  ASSUME SessionInv, ~PausesQueued, NEW s \in Sessions, Kill(s)
  PROVE  SessionInv'
<1> DEFINE c == call
           q == Without(queue, s)
           n == spawning
           l == loop
<1>a. /\ q \in Seq(Sessions) /\ IsInjective(q) /\ ToSet(q) = ToSet(queue) \ {s}
      /\ queue = <<>> => q = <<>>
  <2>1. /\ q \in Seq(Sessions) /\ IsInjective(q) /\ ToSet(q) = ToSet(queue) \ {s}
    BY WithoutElements DEF SessionInv, TypeOK, QueueTypeOK, QueueInv
  <2>2. queue = <<>> => ToSet(q) \subseteq {}
    BY <2>1 DEF ToSet
  <2> HIDE DEF q
  <2> QED BY <2>1, <2>2, NoElements
<1>1. Turn(row', c, q, n, l)
  BY <1>a, NotifyIsTurn DEF SessionInv, TypeOK, QueueTypeOK, QueueInv, CallInv,
     Kill, KilledRow, KillPty, boardVars
<1>2. MidTypes(c, q, n, l)
  BY <1>a, SessionAssumption DEF MidTypes, CallStages, InCall, SessionInv, TypeOK,
     RowTypeOK, QueueTypeOK, BoardTypeOK, QueueInv, Kill, KilledRow, KillPty,
     boardVars
<1>3. n = Cardinality(InCalls(c))
  BY DEF InCalls, InCall, SlotAccounting, SessionInv, TypeOK, RowTypeOK,
     QueueTypeOK, BoardTypeOK, Kill, KilledRow, KillPty, boardVars
<1>4. MidQueue(c, q)
  BY <1>a DEF MidQueue, QueueInv, SessionInv, TypeOK, RowTypeOK, QueueTypeOK,
     BoardTypeOK, InQueue, Kill, KilledRow, KillPty, boardVars
<1>5. MidCalls(c, q, l)
  BY <1>a, SessionAssumption, ZenonT(60) DEF MidCalls, CallInv, QueueInv, InQueue, InCall,
     Tracked, SuspInv, SessionInv, TypeOK, RowTypeOK, QueueTypeOK, BoardTypeOK,
     Kill, KilledRow, KillPty, boardVars
<1>6. MidAlone(c)
  BY DEF MidAlone, MidClaims, AloneInv, Claims, SessionsOf, IsLive, InCall, CallInv,
     Tracked, SessionInv, TypeOK, RowTypeOK, QueueTypeOK, BoardTypeOK, Kill,
     KilledRow, KillPty, boardVars
<1>7. MidProc(c)
  BY DEF MidProc, ProcInv, NoOrphanPty, SuspInv, SessionsOf, QuitLeavesNoAgent,
     IsLive, InCall, Tracked, SessionInv, TypeOK, RowTypeOK, QueueTypeOK,
     BoardTypeOK, Kill, KilledRow, KillPty, boardVars
<1>8. MidQuit(q) /\ SuspInv'
  BY <1>a DEF MidQuit, QuitLeavesNoAgent, SuspInv, ProcInv, NoOrphanPty, IsLive,
     Tracked, SessionInv, TypeOK, RowTypeOK, QueueTypeOK, BoardTypeOK, Kill,
     KilledRow, KillPty, boardVars
<1> QED
  <2> HIDE DEF c, q, n, l
  <2> QED BY <1>1, <1>2, <1>3, <1>4, <1>5, <1>6, <1>7, <1>8, TurnPreserves

(* remove() does what kill() does, and the row goes. *)
LEMMA RemoveSessionPreserves ==
  ASSUME SessionInv, ~PausesQueued, NEW s \in Sessions, RemoveSession(s)
  PROVE  SessionInv'
<1> DEFINE c == call
           q == Without(queue, s)
           n == spawning
           l == loop
<1>a. /\ q \in Seq(Sessions) /\ IsInjective(q) /\ ToSet(q) = ToSet(queue) \ {s}
      /\ queue = <<>> => q = <<>>
  <2>1. /\ q \in Seq(Sessions) /\ IsInjective(q) /\ ToSet(q) = ToSet(queue) \ {s}
    BY WithoutElements DEF SessionInv, TypeOK, QueueTypeOK, QueueInv
  <2>2. queue = <<>> => ToSet(q) \subseteq {}
    BY <2>1 DEF ToSet
  <2> HIDE DEF q
  <2> QED BY <2>1, <2>2, NoElements
<1>1. Turn(KilledRow(s), c, q, n, l)
  BY <1>a, NotifyIsTurn DEF SessionInv, TypeOK, QueueTypeOK, QueueInv, CallInv,
     RemoveSession, KilledRow, KillPty, boardVars
<1>2. MidTypes(c, q, n, l)
  BY <1>a, SessionAssumption DEF MidTypes, CallStages, InCall, SessionInv, TypeOK,
     RowTypeOK, QueueTypeOK, BoardTypeOK, QueueInv, RemoveSession, KilledRow,
     KillPty, boardVars
<1>3. n = Cardinality(InCalls(c))
  BY DEF InCalls, InCall, SlotAccounting, SessionInv, TypeOK, RowTypeOK,
     QueueTypeOK, BoardTypeOK, RemoveSession, KilledRow, KillPty, boardVars
<1>4. MidQueue(c, q)
  BY <1>a DEF MidQueue, QueueInv, SessionInv, TypeOK, RowTypeOK, QueueTypeOK,
     BoardTypeOK, InQueue, RemoveSession, KilledRow, KillPty, boardVars
<1>5. MidCalls(c, q, l)
  BY <1>a, SessionAssumption DEF MidCalls, CallInv, QueueInv, InQueue, InCall,
     Tracked, SuspInv, SessionInv, TypeOK, RowTypeOK, QueueTypeOK, BoardTypeOK,
     RemoveSession, KilledRow, KillPty, boardVars
<1>6. MidAlone(c)
  BY DEF MidAlone, MidClaims, AloneInv, Claims, SessionsOf, IsLive, InCall, CallInv,
     Tracked, SessionInv, TypeOK, RowTypeOK, QueueTypeOK, BoardTypeOK,
     RemoveSession, KilledRow, KillPty, boardVars
<1>7. MidProc(c)
  BY DEF MidProc, ProcInv, NoOrphanPty, SuspInv, SessionsOf, QuitLeavesNoAgent,
     IsLive, InCall, Tracked, SessionInv, TypeOK, RowTypeOK, QueueTypeOK,
     BoardTypeOK, RemoveSession, KilledRow, KillPty, boardVars
<1>8. MidQuit(q) /\ SuspInv'
  BY <1>a DEF MidQuit, QuitLeavesNoAgent, SuspInv, ProcInv, NoOrphanPty, IsLive,
     Tracked, SessionInv, TypeOK, RowTypeOK, QueueTypeOK, BoardTypeOK,
     RemoveSession, KilledRow, KillPty, boardVars
<1> QED
  <2> HIDE DEF c, q, n, l
  <2> QED BY <1>1, <1>2, <1>3, <1>4, <1>5, <1>6, <1>7, <1>8, TurnPreserves

(* Cancelling a task's spawns only takes claims away. *)
LEMMA CancelTaskSpawnsPreserves ==
  ASSUME SessionInv, ~PausesQueued, NEW t \in Tasks, CancelTaskSpawns(t)
  PROVE  SessionInv'
<1> DEFINE c == call
           q == queue
           n == spawning
           l == loop
<1>1. Turn(row', c, q, n, l)
  BY DEF Turn, SessionInv, TypeOK, RowTypeOK, QueueTypeOK, BoardTypeOK, QueueInv,
     CallInv, CancelTaskSpawns, boardVars, spawnVars, queueVars
<1>2. MidTypes(c, q, n, l)
  BY SessionAssumption DEF MidTypes, CallStages, InCall, SessionInv, TypeOK,
     RowTypeOK, QueueTypeOK, BoardTypeOK, QueueInv, CancelTaskSpawns, boardVars,
     spawnVars, queueVars
<1>3. n = Cardinality(InCalls(c))
  BY DEF InCalls, InCall, SlotAccounting, SessionInv, TypeOK, RowTypeOK,
     QueueTypeOK, BoardTypeOK, CancelTaskSpawns, boardVars, spawnVars, queueVars
<1>4. MidQueue(c, q)
  BY DEF MidQueue, InCall, QueueInv, ToSet, SessionInv, TypeOK, RowTypeOK,
     QueueTypeOK, BoardTypeOK, CancelTaskSpawns, boardVars, spawnVars, queueVars
<1>5. MidCalls(c, q, l)
  BY SessionAssumption DEF MidCalls, CallInv, QueueInv, InQueue, InCall, Tracked,
     SessionInv, TypeOK, RowTypeOK, QueueTypeOK, BoardTypeOK, CancelTaskSpawns,
     boardVars, spawnVars, queueVars
<1>6. MidAlone(c)
  BY DEF MidAlone, MidClaims, AloneInv, Claims, SessionsOf, IsLive, InCall, CallInv,
     Tracked, SessionInv, TypeOK, RowTypeOK, QueueTypeOK, BoardTypeOK,
     CancelTaskSpawns, boardVars, spawnVars, queueVars
<1>7. MidProc(c)
  BY DEF MidProc, ProcInv, NoOrphanPty, SuspInv, SessionsOf, QuitLeavesNoAgent,
     IsLive, InCall, Tracked, SessionInv, TypeOK, RowTypeOK, QueueTypeOK,
     BoardTypeOK, CancelTaskSpawns, boardVars, spawnVars, queueVars
<1>8. MidQuit(q) /\ SuspInv'
  BY DEF MidQuit, QuitLeavesNoAgent, SuspInv, ProcInv, NoOrphanPty, IsLive, Tracked,
     SessionInv, TypeOK, RowTypeOK, QueueTypeOK, BoardTypeOK, CancelTaskSpawns,
     boardVars, spawnVars, queueVars
<1> QED
  <2> HIDE DEF c, q, n, l
  <2> QED BY <1>1, <1>2, <1>3, <1>4, <1>5, <1>6, <1>7, <1>8, TurnPreserves

(* suspend() marks a row that is not in the queue, and cancels its spawn. *)
LEMMA SuspendPreserves ==
  ASSUME SessionInv, ~PausesQueued, NEW s \in Sessions, Suspend(s)
  PROVE  SessionInv'
<1> DEFINE c == call
           q == queue
           n == spawning
           l == loop
<1>a. /\ row' = [row EXCEPT ![s] = "suspended"]
      /\ cancelled' = [cancelled EXCEPT ![s] = @ \/ Tracked(call, s)]
      /\ susp' = [susp EXCEPT ![s] = IF handle[s] THEN "exit" ELSE "scan"]
      /\ kept' \subseteq Tasks
      /\ refused' = refused
      /\ UNCHANGED <<handle, proc, call, siblings, queueVars, limit, boardVars, drainDue, quitting>>
  <2>1. PICK slotKept \in BOOLEAN : BeginSuspend(s, slotKept)
    BY DEF Suspend
  <2>2. kept' \subseteq Tasks
    BY <2>1, SessionAssumption DEF BeginSuspend, SessionInv, TypeOK, BoardTypeOK
  <2> QED BY <2>1, <2>2 DEF BeginSuspend, Suspend
<1>b. IsLive(row[s]) /\ s \notin refused /\ s \notin ToSet(queue)
  BY DEF Suspend, InQueue
<1>1. Turn(row', c, q, n, l)
  BY <1>a DEF Turn, SessionInv, TypeOK, RowTypeOK, QueueTypeOK, BoardTypeOK,
     QueueInv, CallInv, boardVars, spawnVars, queueVars
<1>2. MidTypes(c, q, n, l)
  BY <1>a DEF MidTypes, SessionInv, TypeOK, RowTypeOK, QueueTypeOK, BoardTypeOK,
     QueueInv, boardVars, spawnVars, queueVars
<1>3. n = Cardinality(InCalls(c))
  BY <1>a DEF InCalls, SlotAccounting, SessionInv, TypeOK, RowTypeOK, QueueTypeOK,
     BoardTypeOK
<1>4. MidQueue(c, q)
  BY <1>a, <1>b DEF MidQueue, QueueInv, ToSet, SessionInv, TypeOK, RowTypeOK,
     QueueTypeOK, BoardTypeOK
<1>5. MidCalls(c, q, l)
  BY <1>a, <1>b, SessionAssumption DEF MidCalls, CallInv, IsLive, InQueue, InCall,
     Tracked, SessionInv, TypeOK, RowTypeOK, QueueTypeOK, BoardTypeOK
<1>6. MidAlone(c)
  BY <1>a DEF MidAlone, MidClaims, AloneInv, Claims, IsLive, InCall, Tracked,
     SessionInv, TypeOK, RowTypeOK, QueueTypeOK, BoardTypeOK
<1>7. MidProc(c)
  BY <1>a DEF MidProc, ProcInv, NoOrphanPty, SessionInv, TypeOK, RowTypeOK,
     QueueTypeOK, BoardTypeOK
<1>8. MidQuit(q) /\ SuspInv'
  BY <1>a, <1>b DEF MidQuit, QuitLeavesNoAgent, SuspInv, ProcInv, IsLive,
     SessionInv, TypeOK, RowTypeOK, QueueTypeOK, BoardTypeOK
<1> QED
  <2> HIDE DEF c, q, n, l
  <2> QED BY <1>1, <1>2, <1>3, <1>4, <1>5, <1>6, <1>7, <1>8, TurnPreserves

(* The PTY is stopped once the grace is over. *)
LEMMA SuspendKillsPreserves ==
  ASSUME SessionInv, ~PausesQueued, NEW s \in Sessions, SuspendKills(s)
  PROVE  SessionInv'
<1> DEFINE c == call
           q == queue
           n == spawning
           l == loop
<1>1. Turn(row', c, q, n, l)
  BY DEF Turn, SessionInv, TypeOK, RowTypeOK, QueueTypeOK, BoardTypeOK, QueueInv,
     CallInv, SuspendKills, boardVars, spawnVars, queueVars
<1>2. MidTypes(c, q, n, l)
  BY SessionAssumption DEF MidTypes, CallStages, InCall, SessionInv, TypeOK,
     RowTypeOK, QueueTypeOK, BoardTypeOK, QueueInv, SuspendKills, boardVars,
     spawnVars, queueVars
<1>3. n = Cardinality(InCalls(c))
  BY DEF InCalls, InCall, SlotAccounting, SessionInv, TypeOK, RowTypeOK,
     QueueTypeOK, BoardTypeOK, SuspendKills, boardVars, spawnVars, queueVars
<1>4. MidQueue(c, q)
  BY DEF MidQueue, InCall, QueueInv, ToSet, SessionInv, TypeOK, RowTypeOK,
     QueueTypeOK, BoardTypeOK, SuspendKills, boardVars, spawnVars, queueVars
<1>5. MidCalls(c, q, l)
  BY SessionAssumption DEF MidCalls, CallInv, QueueInv, InQueue, InCall, Tracked,
     SessionInv, TypeOK, RowTypeOK, QueueTypeOK, BoardTypeOK, SuspendKills,
     boardVars, spawnVars, queueVars
<1>6. MidAlone(c)
  BY DEF MidAlone, MidClaims, AloneInv, Claims, SessionsOf, IsLive, InCall, CallInv,
     Tracked, SessionInv, TypeOK, RowTypeOK, QueueTypeOK, BoardTypeOK, SuspendKills,
     boardVars, spawnVars, queueVars
<1>7. MidProc(c)
  BY DEF MidProc, ProcInv, NoOrphanPty, SuspInv, SessionsOf, QuitLeavesNoAgent,
     IsLive, InCall, Tracked, SessionInv, TypeOK, RowTypeOK, QueueTypeOK,
     BoardTypeOK, SuspendKills, boardVars, spawnVars, queueVars
<1>8. MidQuit(q) /\ SuspInv'
  BY DEF MidQuit, QuitLeavesNoAgent, SuspInv, ProcInv, NoOrphanPty, IsLive, Tracked,
     SessionInv, TypeOK, RowTypeOK, QueueTypeOK, BoardTypeOK, SuspendKills,
     boardVars, spawnVars, queueVars
<1> QED
  <2> HIDE DEF c, q, n, l
  <2> QED BY <1>1, <1>2, <1>3, <1>4, <1>5, <1>6, <1>7, <1>8, TurnPreserves

(* The end of the wait for the exit changes only the suspend's own stage. *)
LEMMA SuspendSeesExitPreserves ==
  ASSUME SessionInv, ~PausesQueued, NEW s \in Sessions, SuspendSeesExit(s)
  PROVE  SessionInv'
<1> DEFINE c == call
           q == queue
           n == spawning
           l == loop
<1>1. Turn(row', c, q, n, l)
  BY DEF Turn, SessionInv, TypeOK, RowTypeOK, QueueTypeOK, BoardTypeOK, QueueInv,
     CallInv, SuspendSeesExit, boardVars, spawnVars, queueVars
<1>2. MidTypes(c, q, n, l)
  BY SessionAssumption DEF MidTypes, CallStages, InCall, SessionInv, TypeOK,
     RowTypeOK, QueueTypeOK, BoardTypeOK, QueueInv, SuspendSeesExit, boardVars,
     spawnVars, queueVars
<1>3. n = Cardinality(InCalls(c))
  BY DEF InCalls, InCall, SlotAccounting, SessionInv, TypeOK, RowTypeOK,
     QueueTypeOK, BoardTypeOK, SuspendSeesExit, boardVars, spawnVars, queueVars
<1>4. MidQueue(c, q)
  BY DEF MidQueue, InCall, QueueInv, ToSet, SessionInv, TypeOK, RowTypeOK,
     QueueTypeOK, BoardTypeOK, SuspendSeesExit, boardVars, spawnVars, queueVars
<1>5. MidCalls(c, q, l)
  BY SessionAssumption DEF MidCalls, CallInv, QueueInv, InQueue, InCall, Tracked,
     SessionInv, TypeOK, RowTypeOK, QueueTypeOK, BoardTypeOK, SuspendSeesExit,
     boardVars, spawnVars, queueVars
<1>6. MidAlone(c)
  BY DEF MidAlone, MidClaims, AloneInv, Claims, SessionsOf, IsLive, InCall, CallInv,
     Tracked, SessionInv, TypeOK, RowTypeOK, QueueTypeOK, BoardTypeOK,
     SuspendSeesExit, boardVars, spawnVars, queueVars
<1>7. MidProc(c)
  BY DEF MidProc, ProcInv, NoOrphanPty, SuspInv, SessionsOf, QuitLeavesNoAgent,
     IsLive, InCall, Tracked, SessionInv, TypeOK, RowTypeOK, QueueTypeOK,
     BoardTypeOK, SuspendSeesExit, boardVars, spawnVars, queueVars
<1>8. MidQuit(q) /\ SuspInv'
  BY DEF MidQuit, QuitLeavesNoAgent, SuspInv, ProcInv, NoOrphanPty, IsLive, Tracked,
     SessionInv, TypeOK, RowTypeOK, QueueTypeOK, BoardTypeOK, SuspendSeesExit,
     boardVars, spawnVars, queueVars
<1> QED
  <2> HIDE DEF c, q, n, l
  <2> QED BY <1>1, <1>2, <1>3, <1>4, <1>5, <1>6, <1>7, <1>8, TurnPreserves

(* The end of a suspend offers the slot to the queue. *)
LEMMA SuspendFinishesPreserves ==
  ASSUME SessionInv, ~PausesQueued, NEW s \in Sessions, SuspendFinishes(s)
  PROVE  SessionInv'
<1> DEFINE c == call
           q == Without(queue, s)
           n == spawning
           l == loop
<1>a. /\ q \in Seq(Sessions) /\ IsInjective(q) /\ ToSet(q) = ToSet(queue) \ {s}
      /\ queue = <<>> => q = <<>>
  <2>1. /\ q \in Seq(Sessions) /\ IsInjective(q) /\ ToSet(q) = ToSet(queue) \ {s}
    BY WithoutElements DEF SessionInv, TypeOK, QueueTypeOK, QueueInv
  <2>2. queue = <<>> => ToSet(q) \subseteq {}
    BY <2>1 DEF ToSet
  <2> HIDE DEF q
  <2> QED BY <2>1, <2>2, NoElements
<1>1. Turn(row, c, q, n, l)
  BY <1>a, NotifyIsTurn DEF SessionInv, TypeOK, QueueTypeOK, QueueInv, CallInv,
     SuspendFinishes, boardVars
<1>2. MidTypes(c, q, n, l)
  BY <1>a, SessionAssumption DEF MidTypes, CallStages, InCall, SessionInv, TypeOK,
     RowTypeOK, QueueTypeOK, BoardTypeOK, QueueInv, SuspendFinishes, boardVars
<1>3. n = Cardinality(InCalls(c))
  BY DEF InCalls, InCall, SlotAccounting, SessionInv, TypeOK, RowTypeOK,
     QueueTypeOK, BoardTypeOK, SuspendFinishes, boardVars
<1>4. MidQueue(c, q)
  BY <1>a DEF MidQueue, QueueInv, SessionInv, TypeOK, RowTypeOK, QueueTypeOK,
     BoardTypeOK, InQueue, SuspendFinishes, boardVars
<1>5. MidCalls(c, q, l)
  BY <1>a, SessionAssumption DEF MidCalls, CallInv, QueueInv, InQueue, InCall,
     Tracked, SuspInv, SessionInv, TypeOK, RowTypeOK, QueueTypeOK, BoardTypeOK,
     SuspendFinishes, boardVars
<1>6. MidAlone(c)
  BY DEF MidAlone, MidClaims, AloneInv, Claims, SessionsOf, IsLive, InCall, CallInv,
     Tracked, SessionInv, TypeOK, RowTypeOK, QueueTypeOK, BoardTypeOK,
     SuspendFinishes, boardVars
<1>7. MidProc(c)
  BY DEF MidProc, ProcInv, NoOrphanPty, SuspInv, SessionsOf, QuitLeavesNoAgent,
     IsLive, InCall, Tracked, SessionInv, TypeOK, RowTypeOK, QueueTypeOK,
     BoardTypeOK, SuspendFinishes, boardVars
<1>8. MidQuit(q) /\ SuspInv'
  BY <1>a DEF MidQuit, QuitLeavesNoAgent, SuspInv, ProcInv, NoOrphanPty, IsLive,
     Tracked, SessionInv, TypeOK, RowTypeOK, QueueTypeOK, BoardTypeOK,
     SuspendFinishes, boardVars
<1> QED
  <2> HIDE DEF c, q, n, l
  <2> QED BY <1>1, <1>2, <1>3, <1>4, <1>5, <1>6, <1>7, <1>8, TurnPreserves

(* A suspend that waited for the spawn it cancelled is over. *)
LEMMA SuspendSettlesPreserves ==
  ASSUME SessionInv, ~PausesQueued, NEW s \in Sessions, SuspendSettles(s)
  PROVE  SessionInv'
<1> DEFINE c == call
           q == queue
           n == spawning
           l == loop
<1>1. Turn(row', c, q, n, l)
  BY DEF Turn, SessionInv, TypeOK, RowTypeOK, QueueTypeOK, BoardTypeOK, QueueInv,
     CallInv, SuspendSettles, boardVars, spawnVars, queueVars
<1>2. MidTypes(c, q, n, l)
  BY SessionAssumption DEF MidTypes, CallStages, InCall, SessionInv, TypeOK,
     RowTypeOK, QueueTypeOK, BoardTypeOK, QueueInv, SuspendSettles, boardVars,
     spawnVars, queueVars
<1>3. n = Cardinality(InCalls(c))
  BY DEF InCalls, InCall, SlotAccounting, SessionInv, TypeOK, RowTypeOK,
     QueueTypeOK, BoardTypeOK, SuspendSettles, boardVars, spawnVars, queueVars
<1>4. MidQueue(c, q)
  BY DEF MidQueue, InCall, QueueInv, ToSet, SessionInv, TypeOK, RowTypeOK,
     QueueTypeOK, BoardTypeOK, SuspendSettles, boardVars, spawnVars, queueVars
<1>5. MidCalls(c, q, l)
  BY SessionAssumption DEF MidCalls, CallInv, QueueInv, InQueue, InCall, Tracked,
     SessionInv, TypeOK, RowTypeOK, QueueTypeOK, BoardTypeOK, SuspendSettles,
     boardVars, spawnVars, queueVars
<1>6. MidAlone(c)
  BY DEF MidAlone, MidClaims, AloneInv, Claims, SessionsOf, IsLive, InCall, CallInv,
     Tracked, SessionInv, TypeOK, RowTypeOK, QueueTypeOK, BoardTypeOK,
     SuspendSettles, boardVars, spawnVars, queueVars
<1>7. MidProc(c)
  BY DEF MidProc, ProcInv, NoOrphanPty, SuspInv, SessionsOf, QuitLeavesNoAgent,
     IsLive, InCall, Tracked, SessionInv, TypeOK, RowTypeOK, QueueTypeOK,
     BoardTypeOK, SuspendSettles, boardVars, spawnVars, queueVars
<1>8. MidQuit(q) /\ SuspInv'
  BY DEF MidQuit, QuitLeavesNoAgent, SuspInv, ProcInv, NoOrphanPty, IsLive, Tracked,
     SessionInv, TypeOK, RowTypeOK, QueueTypeOK, BoardTypeOK, SuspendSettles,
     boardVars, spawnVars, queueVars
<1> QED
  <2> HIDE DEF c, q, n, l
  <2> QED BY <1>1, <1>2, <1>3, <1>4, <1>5, <1>6, <1>7, <1>8, TurnPreserves

(* A refused promotion's row is paused or retired. *)
LEMMA PauseRefusedPreserves ==
  ASSUME SessionInv, ~PausesQueued, NEW s \in Sessions, PauseRefused(s)
  PROVE  SessionInv'
<1> DEFINE c == call
           q == queue
           n == spawning
           l == loop
<1>a. /\ \/ row' = row
         \/ row[s] = "queued" /\ row' = [row EXCEPT ![s] = "exited"]
         \/ row[s] = "queued" /\ row' = [row EXCEPT ![s] = "suspended"]
      /\ cancelled' \in [Sessions -> BOOLEAN]
      /\ \A x \in Sessions : cancelled[x] => cancelled'[x]
      /\ UNCHANGED <<handle, proc, call, siblings, quitting>>
  BY DEF PauseRefused, BeginSuspend, Tracked, SessionInv, TypeOK, RowTypeOK
<1>1. Turn(row', c, q, n, l)
  BY DEF Turn, SessionInv, TypeOK, RowTypeOK, QueueTypeOK, BoardTypeOK, QueueInv,
     CallInv, PauseRefused, BeginSuspend, PauseRefused, BeginSuspend, SessionsOf,
     boardVars, spawnVars, queueVars
<1>2. MidTypes(c, q, n, l)
  BY SessionAssumption DEF MidTypes, CallStages, InCall, SessionInv, TypeOK,
     RowTypeOK, QueueTypeOK, BoardTypeOK, QueueInv, PauseRefused, BeginSuspend,
     SessionsOf, boardVars, spawnVars, queueVars
<1>3. n = Cardinality(InCalls(c))
  BY DEF InCalls, InCall, SlotAccounting, SessionInv, TypeOK, RowTypeOK,
     QueueTypeOK, BoardTypeOK, PauseRefused, BeginSuspend, SessionsOf, boardVars,
     spawnVars, queueVars
<1>4. MidQueue(c, q)
  BY DEF MidQueue, InCall, QueueInv, ToSet, SessionInv, TypeOK, RowTypeOK,
     QueueTypeOK, BoardTypeOK, PauseRefused, BeginSuspend, SessionsOf, boardVars,
     spawnVars, queueVars
<1>5. MidCalls(c, q, l)
  BY SessionAssumption DEF MidCalls, CallInv, QueueInv, InQueue, InCall, Tracked,
     SessionInv, TypeOK, RowTypeOK, QueueTypeOK, BoardTypeOK, PauseRefused,
     BeginSuspend, SessionsOf, boardVars, spawnVars, queueVars
<1>6. MidAlone(c)
  BY DEF MidAlone, MidClaims, AloneInv, Claims, SessionsOf, IsLive, InCall, CallInv,
     Tracked, SessionInv, TypeOK, RowTypeOK, QueueTypeOK, BoardTypeOK, PauseRefused,
     BeginSuspend, SessionsOf, boardVars, spawnVars, queueVars
<1>7. MidProc(c)
  BY <1>a DEF MidProc, ProcInv, NoOrphanPty, SessionsOf, SessionInv, TypeOK,
     RowTypeOK, QueueTypeOK, BoardTypeOK
<1>8. MidQuit(q) /\ SuspInv'
  BY DEF MidQuit, QuitLeavesNoAgent, SuspInv, ProcInv, NoOrphanPty, IsLive, Tracked,
     SessionInv, TypeOK, RowTypeOK, QueueTypeOK, BoardTypeOK, PauseRefused,
     BeginSuspend, SessionsOf, boardVars, spawnVars, queueVars
<1> QED
  <2> HIDE DEF c, q, n, l
  <2> QED BY <1>1, <1>2, <1>3, <1>4, <1>5, <1>6, <1>7, <1>8, TurnPreserves

(* A restart's column slot is given back, and the queue drained. *)
LEMMA ReleaseColumnSlotPreserves ==
  ASSUME SessionInv, ~PausesQueued, NEW t \in Tasks, ReleaseColumnSlot(t)
  PROVE  SessionInv'
<1> DEFINE c == call
           q == queue
           n == spawning
           l == loop
<1>1. Turn(row, c, q, n, l)
  BY NotifyIsTurn, AsideIsTurn DEF SessionInv, TypeOK, QueueTypeOK, QueueInv,
     CallInv, ReleaseColumnSlot, boardVars
<1>2. MidTypes(c, q, n, l)
  BY SessionAssumption DEF MidTypes, CallStages, InCall, SessionInv, TypeOK,
     RowTypeOK, QueueTypeOK, BoardTypeOK, QueueInv, ReleaseColumnSlot, boardVars
<1>3. n = Cardinality(InCalls(c))
  BY DEF InCalls, InCall, SlotAccounting, SessionInv, TypeOK, RowTypeOK,
     QueueTypeOK, BoardTypeOK, ReleaseColumnSlot, boardVars
<1>4. MidQueue(c, q)
  BY DEF MidQueue, InCall, QueueInv, ToSet, SessionInv, TypeOK, RowTypeOK,
     QueueTypeOK, BoardTypeOK, ReleaseColumnSlot, boardVars
<1>5. MidCalls(c, q, l)
  BY SessionAssumption DEF MidCalls, CallInv, QueueInv, InQueue, InCall, Tracked,
     SessionInv, TypeOK, RowTypeOK, QueueTypeOK, BoardTypeOK, ReleaseColumnSlot,
     boardVars
<1>6. MidAlone(c)
  BY DEF MidAlone, MidClaims, AloneInv, Claims, SessionsOf, IsLive, InCall, CallInv,
     Tracked, SessionInv, TypeOK, RowTypeOK, QueueTypeOK, BoardTypeOK,
     ReleaseColumnSlot, boardVars
<1>7. MidProc(c)
  BY DEF MidProc, ProcInv, NoOrphanPty, SuspInv, SessionsOf, QuitLeavesNoAgent,
     IsLive, InCall, Tracked, SessionInv, TypeOK, RowTypeOK, QueueTypeOK,
     BoardTypeOK, ReleaseColumnSlot, boardVars
<1>8. MidQuit(q) /\ SuspInv'
  BY DEF MidQuit, QuitLeavesNoAgent, SuspInv, ProcInv, NoOrphanPty, IsLive, Tracked,
     SessionInv, TypeOK, RowTypeOK, QueueTypeOK, BoardTypeOK, ReleaseColumnSlot,
     boardVars
<1> QED
  <2> HIDE DEF c, q, n, l
  <2> QED BY <1>1, <1>2, <1>3, <1>4, <1>5, <1>6, <1>7, <1>8, TurnPreserves

(* A new concurrency limit drains the queue. *)
LEMMA SetMaxConcurrentPreserves ==
  ASSUME SessionInv, ~PausesQueued, NEW m \in Limits, SetMaxConcurrent(m)
  PROVE  SessionInv'
<1> DEFINE c == call
           q == queue
           n == spawning
           l == loop
<1>1. Turn(row, c, q, n, l)
  BY NotifyIsTurn, AsideIsTurn DEF SessionInv, TypeOK, QueueTypeOK, QueueInv,
     CallInv, SetMaxConcurrent, boardVars
<1>2. MidTypes(c, q, n, l)
  BY SessionAssumption DEF MidTypes, CallStages, InCall, SessionInv, TypeOK,
     RowTypeOK, QueueTypeOK, BoardTypeOK, QueueInv, SetMaxConcurrent, boardVars
<1>3. n = Cardinality(InCalls(c))
  BY DEF InCalls, InCall, SlotAccounting, SessionInv, TypeOK, RowTypeOK,
     QueueTypeOK, BoardTypeOK, SetMaxConcurrent, boardVars
<1>4. MidQueue(c, q)
  BY DEF MidQueue, InCall, QueueInv, ToSet, SessionInv, TypeOK, RowTypeOK,
     QueueTypeOK, BoardTypeOK, SetMaxConcurrent, boardVars
<1>5. MidCalls(c, q, l)
  BY SessionAssumption DEF MidCalls, CallInv, QueueInv, InQueue, InCall, Tracked,
     SessionInv, TypeOK, RowTypeOK, QueueTypeOK, BoardTypeOK, SetMaxConcurrent,
     boardVars
<1>6. MidAlone(c)
  BY DEF MidAlone, MidClaims, AloneInv, Claims, SessionsOf, IsLive, InCall, CallInv,
     Tracked, SessionInv, TypeOK, RowTypeOK, QueueTypeOK, BoardTypeOK,
     SetMaxConcurrent, boardVars
<1>7. MidProc(c)
  BY DEF MidProc, ProcInv, NoOrphanPty, SuspInv, SessionsOf, QuitLeavesNoAgent,
     IsLive, InCall, Tracked, SessionInv, TypeOK, RowTypeOK, QueueTypeOK,
     BoardTypeOK, SetMaxConcurrent, boardVars
<1>8. MidQuit(q) /\ SuspInv'
  BY DEF MidQuit, QuitLeavesNoAgent, SuspInv, ProcInv, NoOrphanPty, IsLive, Tracked,
     SessionInv, TypeOK, RowTypeOK, QueueTypeOK, BoardTypeOK, SetMaxConcurrent,
     boardVars
<1> QED
  <2> HIDE DEF c, q, n, l
  <2> QED BY <1>1, <1>2, <1>3, <1>4, <1>5, <1>6, <1>7, <1>8, TurnPreserves

(* A task's move changes nothing of the sessions. *)
LEMMA MoveTaskPreserves ==
  ASSUME SessionInv, ~PausesQueued, NEW t \in Tasks, NEW d \in Columns, MoveTask(t, d)
  PROVE  SessionInv'
<1> DEFINE c == call
           q == queue
           n == spawning
           l == loop
<1>1. Turn(row', c, q, n, l)
  BY DEF Turn, SessionInv, TypeOK, RowTypeOK, QueueTypeOK, BoardTypeOK, QueueInv,
     CallInv, MoveTask, boardVars, spawnVars, queueVars
<1>2. MidTypes(c, q, n, l)
  BY SessionAssumption DEF MidTypes, CallStages, InCall, SessionInv, TypeOK,
     RowTypeOK, QueueTypeOK, BoardTypeOK, QueueInv, MoveTask, boardVars, spawnVars,
     queueVars
<1>3. n = Cardinality(InCalls(c))
  BY DEF InCalls, InCall, SlotAccounting, SessionInv, TypeOK, RowTypeOK,
     QueueTypeOK, BoardTypeOK, MoveTask, boardVars, spawnVars, queueVars
<1>4. MidQueue(c, q)
  BY DEF MidQueue, InCall, QueueInv, ToSet, SessionInv, TypeOK, RowTypeOK,
     QueueTypeOK, BoardTypeOK, MoveTask, boardVars, spawnVars, queueVars
<1>5. MidCalls(c, q, l)
  BY SessionAssumption DEF MidCalls, CallInv, QueueInv, InQueue, InCall, Tracked,
     SessionInv, TypeOK, RowTypeOK, QueueTypeOK, BoardTypeOK, MoveTask, boardVars,
     spawnVars, queueVars
<1>6. MidAlone(c)
  BY DEF MidAlone, MidClaims, AloneInv, Claims, SessionsOf, IsLive, InCall, CallInv,
     Tracked, SessionInv, TypeOK, RowTypeOK, QueueTypeOK, BoardTypeOK, MoveTask,
     boardVars, spawnVars, queueVars
<1>7. MidProc(c)
  BY DEF MidProc, ProcInv, NoOrphanPty, SuspInv, SessionsOf, QuitLeavesNoAgent,
     IsLive, InCall, Tracked, SessionInv, TypeOK, RowTypeOK, QueueTypeOK,
     BoardTypeOK, MoveTask, boardVars, spawnVars, queueVars
<1>8. MidQuit(q) /\ SuspInv'
  BY DEF MidQuit, QuitLeavesNoAgent, SuspInv, ProcInv, NoOrphanPty, IsLive, Tracked,
     SessionInv, TypeOK, RowTypeOK, QueueTypeOK, BoardTypeOK, MoveTask, boardVars,
     spawnVars, queueVars
<1> QED
  <2> HIDE DEF c, q, n, l
  <2> QED BY <1>1, <1>2, <1>3, <1>4, <1>5, <1>6, <1>7, <1>8, TurnPreserves

(* A column's new limit changes nothing of the sessions. *)
LEMMA SetColumnLimitPreserves ==
  ASSUME SessionInv, ~PausesQueued, NEW d \in Columns, NEW m \in ColumnLimits, SetColumnLimit(d, m)
  PROVE  SessionInv'
<1> DEFINE c == call
           q == queue
           n == spawning
           l == loop
<1>1. Turn(row', c, q, n, l)
  BY DEF Turn, SessionInv, TypeOK, RowTypeOK, QueueTypeOK, BoardTypeOK, QueueInv,
     CallInv, SetColumnLimit, boardVars, spawnVars, queueVars
<1>2. MidTypes(c, q, n, l)
  BY SessionAssumption DEF MidTypes, CallStages, InCall, SessionInv, TypeOK,
     RowTypeOK, QueueTypeOK, BoardTypeOK, QueueInv, SetColumnLimit, boardVars,
     spawnVars, queueVars
<1>3. n = Cardinality(InCalls(c))
  BY DEF InCalls, InCall, SlotAccounting, SessionInv, TypeOK, RowTypeOK,
     QueueTypeOK, BoardTypeOK, SetColumnLimit, boardVars, spawnVars, queueVars
<1>4. MidQueue(c, q)
  BY DEF MidQueue, InCall, QueueInv, ToSet, SessionInv, TypeOK, RowTypeOK,
     QueueTypeOK, BoardTypeOK, SetColumnLimit, boardVars, spawnVars, queueVars
<1>5. MidCalls(c, q, l)
  BY SessionAssumption DEF MidCalls, CallInv, QueueInv, InQueue, InCall, Tracked,
     SessionInv, TypeOK, RowTypeOK, QueueTypeOK, BoardTypeOK, SetColumnLimit,
     boardVars, spawnVars, queueVars
<1>6. MidAlone(c)
  BY DEF MidAlone, MidClaims, AloneInv, Claims, SessionsOf, IsLive, InCall, CallInv,
     Tracked, SessionInv, TypeOK, RowTypeOK, QueueTypeOK, BoardTypeOK,
     SetColumnLimit, boardVars, spawnVars, queueVars
<1>7. MidProc(c)
  BY DEF MidProc, ProcInv, NoOrphanPty, SuspInv, SessionsOf, QuitLeavesNoAgent,
     IsLive, InCall, Tracked, SessionInv, TypeOK, RowTypeOK, QueueTypeOK,
     BoardTypeOK, SetColumnLimit, boardVars, spawnVars, queueVars
<1>8. MidQuit(q) /\ SuspInv'
  BY DEF MidQuit, QuitLeavesNoAgent, SuspInv, ProcInv, NoOrphanPty, IsLive, Tracked,
     SessionInv, TypeOK, RowTypeOK, QueueTypeOK, BoardTypeOK, SetColumnLimit,
     boardVars, spawnVars, queueVars
<1> QED
  <2> HIDE DEF c, q, n, l
  <2> QED BY <1>1, <1>2, <1>3, <1>4, <1>5, <1>6, <1>7, <1>8, TurnPreserves

(* A drain of the queue is a turn of the promotion loop, or none. *)
LEMMA DrainQueuePreserves ==
  ASSUME SessionInv, ~PausesQueued, DrainQueue
  PROVE  SessionInv'
<1> DEFINE c == call
           q == queue
           n == spawning
           l == loop
<1>1. Turn(row, c, q, n, l)
  BY NotifyIsTurn, AsideIsTurn DEF SessionInv, TypeOK, QueueTypeOK, QueueInv,
     CallInv, DrainQueue, boardVars
<1>2. MidTypes(c, q, n, l)
  BY SessionAssumption DEF MidTypes, CallStages, InCall, SessionInv, TypeOK,
     RowTypeOK, QueueTypeOK, BoardTypeOK, QueueInv, DrainQueue, boardVars
<1>3. n = Cardinality(InCalls(c))
  BY DEF InCalls, InCall, SlotAccounting, SessionInv, TypeOK, RowTypeOK,
     QueueTypeOK, BoardTypeOK, DrainQueue, boardVars
<1>4. MidQueue(c, q)
  BY DEF MidQueue, InCall, QueueInv, ToSet, SessionInv, TypeOK, RowTypeOK,
     QueueTypeOK, BoardTypeOK, DrainQueue, boardVars
<1>5. MidCalls(c, q, l)
  BY SessionAssumption DEF MidCalls, CallInv, QueueInv, InQueue, InCall, Tracked,
     SessionInv, TypeOK, RowTypeOK, QueueTypeOK, BoardTypeOK, DrainQueue, boardVars
<1>6. MidAlone(c)
  BY DEF MidAlone, MidClaims, AloneInv, Claims, SessionsOf, IsLive, InCall, CallInv,
     Tracked, SessionInv, TypeOK, RowTypeOK, QueueTypeOK, BoardTypeOK, DrainQueue,
     boardVars
<1>7. MidProc(c)
  BY DEF MidProc, ProcInv, NoOrphanPty, SuspInv, SessionsOf, QuitLeavesNoAgent,
     IsLive, InCall, Tracked, SessionInv, TypeOK, RowTypeOK, QueueTypeOK,
     BoardTypeOK, DrainQueue, boardVars
<1>8. MidQuit(q) /\ SuspInv'
  BY DEF MidQuit, QuitLeavesNoAgent, SuspInv, ProcInv, NoOrphanPty, IsLive, Tracked,
     SessionInv, TypeOK, RowTypeOK, QueueTypeOK, BoardTypeOK, DrainQueue, boardVars
<1> QED
  <2> HIDE DEF c, q, n, l
  <2> QED BY <1>1, <1>2, <1>3, <1>4, <1>5, <1>6, <1>7, <1>8, TurnPreserves

(* The quit stops every PTY that has a row, and empties the rows and the
   queue. *)
LEMMA KillAllPreserves ==
  ASSUME SessionInv, ~PausesQueued, KillAll
  PROVE  SessionInv'
<1> DEFINE c == call
           q == <<>>
           n == spawning
           l == loop
<1>1. Turn(row', c, q, n, l)
  BY EmptySeq DEF Turn, SessionInv, TypeOK, RowTypeOK, QueueTypeOK, BoardTypeOK,
     QueueInv, CallInv, IsInjective, ToSet, KillAll, boardVars, spawnVars, queueVars
<1>2. MidTypes(c, q, n, l)
  BY EmptySeq, SessionAssumption DEF MidTypes, IsInjective, SessionInv, TypeOK,
     RowTypeOK, QueueTypeOK, BoardTypeOK, KillAll, boardVars, spawnVars, queueVars
<1>3. n = Cardinality(InCalls(c))
  BY DEF InCalls, InCall, SlotAccounting, SessionInv, TypeOK, RowTypeOK,
     QueueTypeOK, BoardTypeOK, KillAll, boardVars, spawnVars, queueVars
<1>4. MidQueue(c, q)
  BY DEF MidQueue, InCall, QueueInv, ToSet, SessionInv, TypeOK, RowTypeOK,
     QueueTypeOK, BoardTypeOK, KillAll, boardVars, spawnVars, queueVars
<1>5. MidCalls(c, q, l)
  BY SessionAssumption DEF MidCalls, CallInv, QueueInv, InQueue, InCall, Tracked,
     SessionInv, TypeOK, RowTypeOK, QueueTypeOK, BoardTypeOK, KillAll, boardVars,
     spawnVars, queueVars
<1>6. MidAlone(c)
  BY DEF MidAlone, MidClaims, AloneInv, Claims, SessionsOf, IsLive, InCall, CallInv,
     Tracked, SessionInv, TypeOK, RowTypeOK, QueueTypeOK, BoardTypeOK, KillAll,
     boardVars, spawnVars, queueVars
<1>7. MidProc(c)
  BY DEF MidProc, ProcInv, NoOrphanPty, SuspInv, SessionsOf, QuitLeavesNoAgent,
     IsLive, InCall, Tracked, SessionInv, TypeOK, RowTypeOK, QueueTypeOK,
     BoardTypeOK, KillAll, boardVars, spawnVars, queueVars
<1>8. MidQuit(q) /\ SuspInv'
  BY DEF MidQuit, QuitLeavesNoAgent, SuspInv, ProcInv, NoOrphanPty, IsLive, Tracked,
     SessionInv, TypeOK, RowTypeOK, QueueTypeOK, BoardTypeOK, KillAll, boardVars,
     spawnVars, queueVars
<1> QED
  <2> HIDE DEF c, q, n, l
  <2> QED BY <1>1, <1>2, <1>3, <1>4, <1>5, <1>6, <1>7, <1>8, TurnPreserves

-----------------------------------------------------------------------------
(* What holds whether or not a queued session is paused.  A turn of the loop *)
(* is taken apart as in SessionManager_steps: r, c, q, n and l are what a    *)
(* handler hands on to it.                                                   *)
MidCore(c, q, l) ==
  /\ \A s \in ToSet(q) : row'[s] # "none" /\ c[s] = "none"
  /\ \A s \in refused' : c[s] = "done"
  /\ \A s \in Sessions : c[s] \in InCall => (l = s <=> row'[s] # "none")
  /\ \A s \in Sessions : row'[s] = "queued" => s \in ToSet(q) \/ l = s \/ s \in refused'
  /\ l # Idle => c[l] \in InCall
  /\ \A s \in Sessions : susp'[s] # "none" => row'[s] \notin {"none", "queued"}
  /\ \A s \in Sessions : \A x \in siblings'[s] : row'[x] # "none"
  /\ quitting' => q = <<>> /\ \A s \in Sessions : ~IsLive(row'[s])

(* The turn takes what holds in its middle to the invariant. *)
LEMMA TurnKeepsCore ==
  ASSUME NEW r, NEW c, NEW q, NEW n, NEW l, Turn(r, c, q, n, l),
         MidTypes(c, q, n, l), n = Cardinality(InCalls(c)), MidCore(c, q, l)
  PROVE  CoreInv'
<1>0. ToSet(q) \subseteq Sessions
  BY DEF MidTypes, ToSet
<1>1. CASE /\ ToSet(queue') = ToSet(q) /\ call' = c /\ spawning' = n
           /\ loop' = l /\ (l = Idle => dirty' = FALSE)
  <2>1. TypeOK' /\ SlotAccounting'
    BY <1>1 DEF Turn, MidTypes, TypeOK, QueueTypeOK, SlotAccounting, InCalls
  <2>2. QueueCore' /\ CallCore'
    BY <1>1 DEF Turn, MidCore, QueueCore, CallCore, InQueue, LoopAwaitsASpawn
  <2>3. quitting' => queue' = <<>>
    <3>1. ToSet(<<>>) = {}
      BY DEF ToSet
    <3> QED BY <1>1, <3>1, NoElements DEF MidCore, Turn
  <2>4. RowCore'
    BY <2>3 DEF MidCore, RowCore
  <2> QED BY <2>1, <2>2, <2>4 DEF CoreInv
<1>2. CASE \E x \in ToSet(q) :
             /\ ToSet(queue') = ToSet(q) \ {x}
             /\ call' = [c EXCEPT ![x] = "shell"]
             /\ spawning' = n + 1
             /\ l = Idle /\ loop' = x
             /\ ~quitting' /\ ActiveCount(r, n) < limit'
  <2>0. PICK x \in ToSet(q) :
          /\ ToSet(queue') = ToSet(q) \ {x}
          /\ call' = [c EXCEPT ![x] = "shell"]
          /\ spawning' = n + 1
          /\ l = Idle /\ loop' = x
          /\ ~quitting'
    BY <1>2
  <2>a. x \in Sessions /\ c[x] = "none" /\ row'[x] # "none" /\ x \notin refused' /\ x # Idle
    BY <1>0, SessionAssumption DEF MidCore
  <2>b. c \in [Sessions -> CallStages]
    BY DEF MidTypes
  <2>c. call'[x] = "shell" /\ \A y \in Sessions : y # x => call'[y] = c[y]
    BY <2>0, <2>a, <2>b
  <2>1. TypeOK'
    BY <2>0, <2>a DEF Turn, MidTypes, TypeOK, QueueTypeOK, CallStages, InCall
  <2>2. SlotAccounting'
    <3>1. Cardinality(InCalls(call')) = n + 1
      BY <2>0, <2>a, <2>b, OneMoreCall DEF InCall
    <3> QED BY <2>0, <3>1 DEF SlotAccounting, InCalls
  <2>3. QueueCore'
    BY <2>0, <2>a, <2>c, <1>0 DEF Turn, MidCore, QueueCore
  <2>4. CallCore'
    <3>1. \A s \in refused' : call'[s] = "done"
      BY <2>a, <2>c DEF MidCore, MidTypes, RowTypeOK
    <3>2. ASSUME NEW s \in Sessions, call'[s] \in InCall
          PROVE  loop' = s <=> row'[s] # "none"
      BY <2>0, <2>a, <2>c, <3>2, SessionAssumption DEF MidCore
    <3>3. \A s \in Sessions : row'[s] = "queued" => s \in ToSet(queue') \/ loop' = s \/ s \in refused'
      BY <2>0, <2>a, SessionAssumption DEF MidCore
    <3>4. loop' # Idle /\ call'[loop'] \in InCall
      BY <2>0, <2>a, <2>c DEF InCall
    <3> QED BY <3>1, <3>2, <3>3, <3>4 DEF CallCore, InQueue, LoopAwaitsASpawn
  <2>5. RowCore'
    BY <2>0 DEF MidCore, RowCore
  <2> QED BY <2>1, <2>2, <2>3, <2>4, <2>5 DEF CoreInv
<1> QED BY <1>1, <1>2 DEF Turn

(* What the steps use of the invariant. *)
LEMMA CoreBasics ==
  ASSUME CoreInv
  PROVE  /\ RowTypeOK /\ QueueTypeOK /\ BoardTypeOK /\ SlotAccounting
         /\ QueueCore /\ CallCore /\ RowCore
         /\ row \in [Sessions -> {"none", "queued", "running", "exited", "suspended", "removed"}]
         /\ call \in [Sessions -> CallStages] /\ susp \in [Sessions -> {"none", "exit", "propagate", "scan", "settle"}]
         /\ queue \in Seq(Sessions) /\ IsInjective(queue) /\ spawning \in Nat
         /\ (loop = Idle => ~dirty) /\ ToSet(queue) \subseteq Sessions
         /\ loop \in Sessions \cup {Idle} /\ spawning = Cardinality(InCalls(call))
<1>1. queue \in Seq(Sessions)
  BY DEF CoreInv, TypeOK, QueueTypeOK
<1>2. ToSet(queue) \subseteq Sessions
  BY <1>1 DEF ToSet
<1> QED  BY <1>1, <1>2 DEF CoreInv, TypeOK, RowTypeOK, QueueTypeOK, QueueCore, CallCore,
            LoopAwaitsASpawn, SlotAccounting, InCalls

(* The end of a spawn: of the rows it may write its own, which is settled or
   running, and retire some others. *)
LEMMA EndKeepsCore ==
  ASSUME CoreInv, RowTypeOK', BoardTypeOK', NEW s \in Sessions, NEW e \in {"done", "abandoned"},
         call[s] \in InCall, SpawnReturns(s, row', [call EXCEPT ![s] = e]),
         UNCHANGED <<susp, quitting>>,
         \A x \in Sessions : x # s => row'[x] = row[x] \/ (row'[x] = "removed" /\ row[x] # "none"),
         row[s] # "none" => row'[s] # "none",
         row'[s] = "queued" => row[s] = "queued" /\ s \in refused',
         refused' = refused \/ (refused' = refused \cup {s} /\ e = "done"),
         \A x \in Sessions : siblings'[x] \subseteq siblings[x],
         quitting => ~IsLive(row'[s])
  PROVE  CoreInv'
<1> DEFINE c == [call EXCEPT ![s] = e]
           q == queue
           n == spawning - 1
           l == IF loop = s THEN Idle ELSE loop
<1>1. Turn(row', c, q, n, l)
  BY CoreBasics, SpawnReturnsIsTurn
<1>2. n = Cardinality(InCalls(c)) /\ n \in Nat
  BY CoreBasics, OneLessCall
<1>3. c \in [Sessions -> CallStages] /\ c[s] = e /\ \A x \in Sessions : x # s => c[x] = call[x]
  BY CoreBasics DEF CallStages
<1>4. MidTypes(c, q, n, l)
  BY <1>2, <1>3, CoreBasics DEF MidTypes
<1>5. /\ l # s /\ s # Idle /\ \A x \in Sessions : x # s => (l = x <=> loop = x)
      /\ l # Idle => l = loop /\ loop # s
  BY SessionAssumption
<1> HIDE DEF c, n, l
<1>6. \A x \in ToSet(q) : row'[x] # "none" /\ c[x] = "none"
  BY <1>3, CoreBasics DEF QueueCore, InCall
<1>7. \A x \in refused' : c[x] = "done"
  BY <1>3, CoreBasics DEF CallCore, InCall, RowTypeOK
<1>8. ASSUME NEW x \in Sessions, c[x] \in InCall
      PROVE  l = x <=> row'[x] # "none"
  BY <1>3, <1>5, <1>8, CoreBasics DEF CallCore, InCall
<1>9. ASSUME NEW x \in Sessions, row'[x] = "queued"
      PROVE  x \in ToSet(q) \/ l = x \/ x \in refused'
  BY <1>5, <1>9, CoreBasics DEF CallCore, InQueue
<1>10. l # Idle => c[l] \in InCall
  BY <1>3, <1>5, CoreBasics DEF CallCore, LoopAwaitsASpawn
<1>11. ASSUME NEW x \in Sessions, susp'[x] # "none"
       PROVE  row'[x] \notin {"none", "queued"}
  BY <1>11, CoreBasics DEF RowCore
<1>12. ASSUME NEW y \in Sessions, NEW x \in siblings'[y]
       PROVE  row'[x] # "none"
  BY <1>12, CoreBasics DEF RowCore, RowTypeOK
<1>13. quitting' => q = <<>> /\ \A x \in Sessions : ~IsLive(row'[x])
  BY CoreBasics DEF RowCore, IsLive
<1>14. MidCore(c, q, l)
  BY <1>6, <1>7, <1>8, <1>9, <1>10, <1>11, <1>12, <1>13 DEF MidCore
<1> HIDE DEF q
<1> QED BY <1>1, <1>2, <1>4, <1>14, TurnKeepsCore

(* A step that starts and ends no spawn itself: it may take sessions out of the
   queue, settle waiting rows and begin suspends. *)
LEMMA CalmKeepsCore ==
  ASSUME CoreInv, RowTypeOK', BoardTypeOK',
         NEW r, NEW c \in [Sessions -> CallStages], NEW q \in Seq(Sessions),
         Turn(r, c, q, spawning, loop), IsInjective(q), ToSet(q) \subseteq ToSet(queue),
         \A x \in Sessions : \/ c[x] = call[x]
                             \/ call[x] \in InCall /\ c[x] \in InCall
                             \/ call[x] = "abandoned" /\ c[x] = "done",
         \A x \in Sessions : row'[x] = "none" <=> row[x] = "none",
         \A x \in Sessions : row'[x] = "queued" =>
            /\ row[x] = "queued"
            /\ x \in ToSet(queue) => x \in ToSet(q)
            /\ x \in refused => x \in refused',
         refused' \subseteq refused,
         \A x \in Sessions : susp'[x] # "none" => row'[x] \notin {"none", "queued"},
         \A x \in Sessions : \A y \in siblings'[x] : row'[y] # "none",
         quitting' => q = <<>> /\ \A x \in Sessions : ~IsLive(row'[x])
  PROVE  CoreInv'
<1>1. MidTypes(c, q, spawning, loop)
  BY CoreBasics DEF MidTypes
<1>2. InCalls(c) = InCalls(call)
  BY DEF InCalls, InCall
<1>3. \A x \in ToSet(q) : row'[x] # "none" /\ c[x] = "none"
  BY CoreBasics DEF QueueCore, InCall
<1>4. \A x \in refused' : c[x] = "done"
  BY CoreBasics DEF CallCore, InCall, RowTypeOK
<1>5. ASSUME NEW x \in Sessions, c[x] \in InCall
      PROVE  loop = x <=> row'[x] # "none"
  BY <1>5, CoreBasics DEF CallCore, InCall
<1>6. ASSUME NEW x \in Sessions, row'[x] = "queued"
      PROVE  x \in ToSet(q) \/ loop = x \/ x \in refused'
  BY <1>6, CoreBasics DEF CallCore, InQueue
<1>7. loop # Idle => c[loop] \in InCall
  BY CoreBasics DEF CallCore, LoopAwaitsASpawn, InCall
<1>8. MidCore(c, q, loop)
  BY <1>3, <1>4, <1>5, <1>6, <1>7 DEF MidCore
<1> QED BY <1>1, <1>2, <1>8, CoreBasics, TurnKeepsCore

(* The same of a step that is over with a notification, or leaves the queue
   aside. *)
LEMMA NotifyKeepsCore ==
  ASSUME CoreInv, RowTypeOK', BoardTypeOK', NEW r, NEW q \in Seq(Sessions),
         IsInjective(q), ToSet(q) \subseteq ToSet(queue),
         \/ NotifySlotFreed(r, call, q, spawning)
         \/ QueueAside(call) /\ q = queue,
         UNCHANGED siblings,
         \A x \in Sessions : row'[x] = "none" <=> row[x] = "none",
         \A x \in Sessions : row'[x] = "queued" =>
            /\ row[x] = "queued"
            /\ x \in ToSet(queue) => x \in ToSet(q)
            /\ x \in refused => x \in refused',
         refused' \subseteq refused,
         \A x \in Sessions : susp'[x] # "none" => row'[x] \notin {"none", "queued"},
         UNCHANGED quitting, quitting => \A x \in Sessions : ~IsLive(row'[x])
  PROVE  CoreInv'
<1>1. Turn(r, call, q, spawning, loop)
  BY CoreBasics, NotifyIsTurn, AsideIsTurn
<1>2. quitting' => q = <<>>
  <2>1. quitting => ToSet(queue) = {}
    BY CoreBasics DEF RowCore, ToSet
  <2> QED BY <2>1, NoElements
<1>3. \A x \in Sessions : \A y \in siblings'[x] : row'[y] # "none"
  BY CoreBasics DEF RowCore, RowTypeOK
<1> QED BY <1>1, <1>2, <1>3, CoreBasics, CalmKeepsCore

-----------------------------------------------------------------------------
(* A spawn adds a queue entry with its row, or a spawn under way without one. *)
LEMMA SpawnKeepsCore ==
  ASSUME CoreInv, NEW s \in Sessions, Spawn(s)
  PROVE  CoreInv'
<1>a. /\ row[s] = "none" /\ call[s] = "none" /\ ~quitting
      /\ UNCHANGED <<handle, proc, cancelled, siblings, refused, susp, limit, boardVars, kept,
                     drainDue, quitting>>
  BY DEF Spawn
<1>b. s \notin ToSet(queue) /\ s \notin refused /\ loop # s /\ s # Idle
  BY <1>a, CoreBasics, SessionAssumption DEF QueueCore, CallCore, LoopAwaitsASpawn, InCall
<1>c. BoardTypeOK'
  BY <1>a, CoreBasics DEF BoardTypeOK, boardVars
<1>1. CASE ShouldQueue(s)
  <2> DEFINE q == Append(queue, s)
  <2>1. /\ row' = [row EXCEPT ![s] = "queued"] /\ queue' = q
        /\ UNCHANGED <<call, loop, dirty, spawning>>
    BY <1>1 DEF Spawn
  <2>2. /\ q \in Seq(Sessions) /\ Len(q) = Len(queue) + 1 /\ q[Len(queue) + 1] = s
        /\ \A k \in 1 .. Len(queue) : q[k] = queue[k]
    BY AppendProperties, CoreBasics
  <2>3. queue \in Seq(Sessions) /\ IsInjective(queue) /\ Len(queue) \in Nat
    BY CoreBasics, LenProperties
  <2> HIDE DEF q
  <2>4. IsInjective(q)
    BY <1>b, <2>2, <2>3 DEF IsInjective, ToSet
  <2>5. ToSet(q) = ToSet(queue) \cup {s}
    <3>1. ToSet(q) \subseteq ToSet(queue) \cup {s} /\ s \in ToSet(q)
      BY <2>2, <2>3 DEF ToSet
    <3>2. ASSUME NEW k \in DOMAIN queue
          PROVE  queue[k] \in ToSet(q)
      BY <2>2, <2>3 DEF ToSet
    <3> QED BY <3>1, <3>2 DEF ToSet
  <2>6. Turn(row, call, q, spawning, loop)
    BY <2>1, <2>2, <2>4, CoreBasics DEF Turn, QueueTypeOK
  <2>7. RowTypeOK'
    BY <1>a, <2>1, CoreBasics DEF RowTypeOK
  <2>8. MidTypes(call, q, spawning, loop)
    BY <1>c, <2>2, <2>4, <2>7, CoreBasics DEF MidTypes
  <2>9. \A x \in Sessions : row'[x] = IF x = s THEN "queued" ELSE row[x]
    BY <2>1, CoreBasics
  <2>10. MidCore(call, q, loop)
    <3>1. \A x \in ToSet(q) : row'[x] # "none" /\ call[x] = "none"
      BY <1>a, <2>5, <2>9, CoreBasics DEF QueueCore
    <3>2. \A x \in Sessions : call[x] \in InCall => (loop = x <=> row'[x] # "none")
      BY <1>a, <2>9, CoreBasics DEF CallCore, InCall
    <3>3. \A x \in Sessions : row'[x] = "queued" => x \in ToSet(q) \/ loop = x \/ x \in refused'
      BY <1>a, <2>5, <2>9, CoreBasics DEF CallCore, InQueue
    <3>4. \A x \in Sessions : susp'[x] # "none" => row'[x] \notin {"none", "queued"}
      BY <1>a, <2>9, CoreBasics DEF RowCore
    <3>5. \A x \in Sessions : \A y \in siblings'[x] : row'[y] # "none"
      BY <1>a, <2>9, CoreBasics DEF RowCore, RowTypeOK
    <3> QED BY <1>a, <3>1, <3>2, <3>3, <3>4, <3>5, CoreBasics DEF MidCore, CallCore, LoopAwaitsASpawn
  <2> QED BY <2>6, <2>8, <2>10, CoreBasics, TurnKeepsCore
<1>2. CASE ~ShouldQueue(s)
  <2> DEFINE c == [call EXCEPT ![s] = "shell"]
  <2>1. call' = c /\ spawning' = spawning + 1 /\ UNCHANGED <<row, queue, loop, dirty>>
    BY <1>2 DEF Spawn
  <2>2. c \in [Sessions -> CallStages] /\ c[s] = "shell" /\ \A x \in Sessions : x # s => c[x] = call[x]
    BY CoreBasics DEF CallStages, InCall
  <2>3. spawning + 1 = Cardinality(InCalls(c))
    BY <1>a, CoreBasics, OneMoreCall DEF InCall
  <2> HIDE DEF c
  <2>4. Turn(row, c, queue, spawning + 1, loop)
    BY <2>1, CoreBasics DEF Turn, QueueTypeOK
  <2>5. RowTypeOK'
    BY <1>a, <2>1, CoreBasics DEF RowTypeOK
  <2>6. MidTypes(c, queue, spawning + 1, loop)
    BY <1>c, <2>2, <2>5, CoreBasics DEF MidTypes
  <2>7. MidCore(c, queue, loop)
    <3>1. \A x \in ToSet(queue) : row'[x] # "none" /\ c[x] = "none"
      BY <1>b, <2>1, <2>2, CoreBasics DEF QueueCore
    <3>2. \A x \in refused' : c[x] = "done"
      BY <1>a, <1>b, <2>2, CoreBasics DEF CallCore, RowTypeOK
    <3>3. \A x \in Sessions : c[x] \in InCall => (loop = x <=> row'[x] # "none")
      BY <1>a, <1>b, <2>1, <2>2, CoreBasics DEF CallCore
    <3>4. loop # Idle => c[loop] \in InCall
      BY <1>b, <2>2, CoreBasics DEF CallCore, LoopAwaitsASpawn
    <3> QED BY <1>a, <2>1, <3>1, <3>2, <3>3, <3>4, CoreBasics DEF MidCore, CallCore, InQueue, RowCore
  <2> QED BY <2>3, <2>4, <2>6, <2>7, TurnKeepsCore
<1> QED BY <1>1, <1>2

(* The steps of a spawn under way. *)
LEMMA PipelineKeepsCore ==
  ASSUME CoreInv, NEW s \in Sessions, RefuseStart(s) \/ SpawnStep(s)
  PROVE  CoreInv'
<1>t. BoardTypeOK' /\ susp' = susp /\ quitting' = quitting
  BY CoreBasics DEF BoardTypeOK, boardVars, RefuseStart, SpawnStep, ShellResolved, FilesReady,
     HostAnswers, HostFails
<1>a. /\ AbandonedRow(s) \in [Sessions -> {"none", "queued", "running", "exited", "suspended", "removed"}]
      /\ AbandonedRow(s)[s] # "queued" /\ \A x \in Sessions : x # s => AbandonedRow(s)[x] = row[x]
      /\ row[s] # "none" => AbandonedRow(s)[s] # "none"
      /\ quitting => ~IsLive(AbandonedRow(s)[s])
  BY CoreBasics DEF AbandonedRow, RowCore, IsLive
<1>r. ASSUME NEW status \in {"running", "exited"}
      PROVE  /\ Registered(s, status) \in
                  [Sessions -> {"none", "queued", "running", "exited", "suspended", "removed"}]
             /\ Registered(s, status)[s] = status
             /\ \A x \in Sessions : x # s =>
                  \/ Registered(s, status)[x] = row[x]
                  \/ Registered(s, status)[x] = "removed" /\ row[x] # "none"
  BY CoreBasics DEF Registered, RowCore
<1>s. /\ [siblings EXCEPT ![s] = {}] \in [Sessions -> SUBSET Sessions]
      /\ \A x \in Sessions : [siblings EXCEPT ![s] = {}][x] \subseteq siblings[x]
  BY CoreBasics DEF RowTypeOK
<1>k. [proc EXCEPT ![s] = "killed"] \in [Sessions -> {"none", "live", "killed", "gone"}]
  BY CoreBasics DEF RowTypeOK
<1>1. CASE RefuseStart(s)
  <2>1. /\ call[s] = "shell" /\ UNCHANGED <<handle, proc, cancelled, siblings>>
        /\ SpawnReturns(s, row', [call EXCEPT ![s] = "done"])
        /\ refused' = IF loop = s /\ row[s] # "none" /\ row[s] # "removed"
                      THEN refused \cup {s} ELSE refused
    BY <1>1 DEF RefuseStart
  <2>2. /\ row' \in [Sessions -> {"none", "queued", "running", "exited", "suspended", "removed"}]
        /\ \A x \in Sessions : x # s => row'[x] = row[x] \/ (row'[x] = "removed" /\ row[x] # "none")
        /\ row'[s] = row[s] \/ row'[s] = "suspended"
    BY <1>1, CoreBasics DEF RefuseStart
  <2>3. row'[s] = "queued" => s \in refused'
    BY <2>1, <2>2, CoreBasics DEF CallCore, InCall
  <2>4. RowTypeOK'
    BY <1>t, <2>1, <2>2, CoreBasics DEF RowTypeOK
  <2>5. quitting => ~IsLive(row'[s])
    BY <2>2, CoreBasics DEF RowCore, IsLive
  <2>6. call[s] \in InCall /\ (refused' = refused \/ refused' = refused \cup {s})
    BY <2>1 DEF InCall
  <2>7. /\ row[s] # "none" => row'[s] # "none"
        /\ row'[s] = "queued" => row[s] = "queued"
        /\ \A x \in Sessions : siblings'[x] \subseteq siblings[x]
    BY <2>1, <2>2
  <2> QED BY <1>t, <2>1, <2>2, <2>3, <2>4, <2>5, <2>6, <2>7, EndKeepsCore
<1>2. CASE (ShellResolved(s) \/ FilesReady(s)) /\ cancelled[s]
  <2>1. /\ call[s] \in InCall /\ UNCHANGED <<handle, proc, cancelled, refused>>
        /\ row' = AbandonedRow(s) /\ SpawnReturns(s, row', [call EXCEPT ![s] = "done"])
        /\ siblings' = siblings \/ siblings' = [siblings EXCEPT ![s] = {}]
    BY <1>2 DEF ShellResolved, FilesReady, InCall
  <2>2. RowTypeOK'
    BY <1>t, <1>a, <1>s, <2>1, CoreBasics DEF RowTypeOK
  <2>3. \A x \in Sessions : siblings'[x] \subseteq siblings[x]
    BY <1>s, <2>1
  <2> QED BY <1>t, <1>a, <2>1, <2>2, <2>3, EndKeepsCore
<1>3. CASE ShellResolved(s) /\ ~cancelled[s]
  <2> DEFINE rows == {x \in SessionsOf(TaskOf[s]) : row[x] \notin {"none", "removed"}}
             c == [call EXCEPT ![s] = "files"]
  <2>1. /\ call[s] = "shell" /\ UNCHANGED <<row, cancelled, refused>>
        /\ siblings' = [siblings EXCEPT ![s] = rows]
        /\ handle' = [x \in Sessions |-> handle[x] /\ x \notin rows]
        /\ proc' = [x \in Sessions |-> IF x \in rows /\ handle[x] /\ proc[x] = "live"
                                       THEN "killed" ELSE proc[x]]
        /\ QueueAside(c)
    BY <1>3 DEF ShellResolved
  <2>2. rows \subseteq Sessions /\ \A x \in rows : row[x] # "none"
    BY DEF SessionsOf
  <2> HIDE DEF rows
  <2>3. RowTypeOK'
    BY <1>t, <2>1, <2>2, CoreBasics DEF RowTypeOK
  <2>4. \A x \in Sessions : \A y \in siblings'[x] : row'[y] # "none"
    BY <2>1, <2>2, CoreBasics DEF RowCore, RowTypeOK
  <2>5. Turn(row, c, queue, spawning, loop)
    BY <2>1, CoreBasics, AsideIsTurn
  <2>6. c \in [Sessions -> CallStages] /\ \A x \in Sessions : c[x] = call[x] \/ (call[x] \in InCall /\ c[x] \in InCall)
    BY <2>1, CoreBasics DEF CallStages, InCall
  <2>7. \A x \in Sessions : susp'[x] # "none" => row'[x] \notin {"none", "queued"}
    BY <1>t, <2>1, CoreBasics DEF RowCore
  <2>8. quitting' => queue = <<>> /\ \A x \in Sessions : ~IsLive(row'[x])
    BY <1>t, <2>1, CoreBasics DEF RowCore
  <2> HIDE DEF c
  <2> QED BY <1>t, <2>1, <2>3, <2>4, <2>5, <2>6, <2>7, <2>8, CoreBasics, CalmKeepsCore
<1>4. CASE FilesReady(s) /\ ~cancelled[s]
  <2> DEFINE c == [call EXCEPT ![s] = "host"]
  <2>1. call[s] = "files" /\ UNCHANGED <<row, handle, proc, siblings, cancelled, refused>> /\ QueueAside(c)
    BY <1>4 DEF FilesReady
  <2>2. RowTypeOK'
    BY <1>t, <2>1, CoreBasics DEF RowTypeOK
  <2>3. Turn(row, c, queue, spawning, loop)
    BY <2>1, CoreBasics, AsideIsTurn
  <2>4. c \in [Sessions -> CallStages] /\ \A x \in Sessions : c[x] = call[x] \/ (call[x] \in InCall /\ c[x] \in InCall)
    BY <2>1, CoreBasics DEF CallStages, InCall
  <2>5. /\ \A x \in Sessions : susp'[x] # "none" => row'[x] \notin {"none", "queued"}
        /\ \A x \in Sessions : \A y \in siblings'[x] : row'[y] # "none"
        /\ quitting' => queue = <<>> /\ \A x \in Sessions : ~IsLive(row'[x])
    BY <1>t, <2>1, CoreBasics DEF RowCore
  <2> HIDE DEF c
  <2> QED BY <1>t, <2>1, <2>2, <2>3, <2>4, <2>5, CoreBasics, CalmKeepsCore
<1>5. CASE HostAnswers(s) /\ (cancelled[s] \/ quitting)
  <2>1. /\ call[s] = "host" /\ UNCHANGED <<handle, cancelled, refused>>
        /\ siblings' = [siblings EXCEPT ![s] = {}] /\ proc' = [proc EXCEPT ![s] = "killed"]
        /\ row' = AbandonedRow(s) \/ (quitting /\ row' = row)
        /\ \E e \in {"done", "abandoned"} : SpawnReturns(s, row', [call EXCEPT ![s] = e])
    BY <1>5 DEF HostAnswers, Overtaken
  <2>2. RowTypeOK'
    BY <1>t, <1>a, <1>s, <1>k, <2>1, CoreBasics DEF RowTypeOK
  <2>3. /\ \A x \in Sessions : x # s => row'[x] = row[x]
        /\ row'[s] # "queued" /\ (row[s] # "none" => row'[s] # "none")
        /\ quitting => ~IsLive(row'[s])
    BY <1>a, <2>1, CoreBasics DEF RowCore, IsLive
  <2>4. call[s] \in InCall
    BY <2>1 DEF InCall
  <2> QED BY <1>t, <1>s, <2>1, <2>2, <2>3, <2>4, EndKeepsCore
<1>6. CASE HostAnswers(s) /\ ~cancelled[s] /\ ~quitting
  <2>1. /\ call[s] = "host" /\ UNCHANGED <<cancelled, refused>>
        /\ siblings' = [siblings EXCEPT ![s] = {}] /\ proc' = [proc EXCEPT ![s] = "live"]
        /\ row' = Registered(s, "running")
        /\ handle' = [x \in Sessions |-> x = s \/ (handle[x] /\ x \notin siblings[s])]
        /\ SpawnReturns(s, row', [call EXCEPT ![s] = "done"])
    BY <1>6 DEF HostAnswers, Overtaken
  <2>2. RowTypeOK'
    <3>1. handle' \in [Sessions -> BOOLEAN] /\ proc' \in [Sessions -> {"none", "live", "killed", "gone"}]
      BY <2>1, CoreBasics DEF RowTypeOK
    <3> QED BY <1>t, <1>r, <1>s, <2>1, <3>1, CoreBasics DEF RowTypeOK
  <2>3. call[s] \in InCall
    BY <2>1 DEF InCall
  <2> QED BY <1>t, <1>r, <1>s, <1>6, <2>1, <2>2, <2>3, EndKeepsCore
<1>7. CASE HostFails(s)
  <2>1. /\ call[s] = "host" /\ UNCHANGED <<proc, cancelled, refused>>
        /\ siblings' = [siblings EXCEPT ![s] = {}]
        /\ row' = AbandonedRow(s) \/ row' = Registered(s, "exited")
        /\ handle' = handle \/ handle' = [x \in Sessions |-> handle[x] /\ x \notin siblings[s] \cup {s}]
        /\ SpawnReturns(s, row', [call EXCEPT ![s] = "done"])
    BY <1>7 DEF HostFails
  <2>2. RowTypeOK'
    <3>1. handle' \in [Sessions -> BOOLEAN]
      BY <2>1, CoreBasics DEF RowTypeOK
    <3> QED BY <1>t, <1>a, <1>r, <1>s, <2>1, <3>1, CoreBasics DEF RowTypeOK
  <2>3. /\ \A x \in Sessions : x # s => row'[x] = row[x] \/ (row'[x] = "removed" /\ row[x] # "none")
        /\ row'[s] # "queued" /\ (row[s] # "none" => row'[s] # "none")
        /\ quitting => ~IsLive(row'[s])
    BY <1>a, <1>r, <2>1 DEF IsLive
  <2>4. call[s] \in InCall
    BY <2>1 DEF InCall
  <2> QED BY <1>t, <1>s, <2>1, <2>2, <2>3, <2>4, EndKeepsCore
<1> QED BY <1>1, <1>2, <1>3, <1>4, <1>5, <1>6, <1>7 DEF SpawnStep

-----------------------------------------------------------------------------
(* Out of the queue goes the session and no other. *)
LEMMA CoreWithout ==
  ASSUME CoreInv, NEW s
  PROVE  /\ Without(queue, s) \in Seq(Sessions) /\ IsInjective(Without(queue, s))
         /\ ToSet(Without(queue, s)) = ToSet(queue) \ {s}
BY CoreBasics, WithoutElements

(* A kill settles the waiting row it takes out of the queue. *)
LEMMA KilledRowCore ==
  ASSUME CoreInv, NEW s \in Sessions
  PROVE  /\ KilledRow(s) \in [Sessions -> {"none", "queued", "running", "exited", "suspended", "removed"}]
         /\ \A x \in Sessions : x # s => KilledRow(s)[x] = row[x]
         /\ KilledRow(s)[s] = row[s] \/ (KilledRow(s)[s] = "exited" /\ row[s] # "none")
         /\ InQueue(s) => KilledRow(s)[s] # "queued"
BY CoreBasics DEF KilledRow

(* Exits, kills and removals. *)
LEMMA EndingKeepsCore ==
  ASSUME CoreInv, NEW s \in Sessions, PtyExit(s) \/ Kill(s) \/ RemoveSession(s)
  PROVE  CoreInv'
<1>t. BoardTypeOK' /\ UNCHANGED <<siblings, refused, susp, quitting>>
  BY CoreBasics DEF BoardTypeOK, boardVars, PtyExit, Kill, RemoveSession
<1>p. KillPty(s) => /\ handle' \in [Sessions -> BOOLEAN] /\ cancelled' \in [Sessions -> BOOLEAN]
                    /\ proc' \in [Sessions -> {"none", "live", "killed", "gone"}]
  BY CoreBasics DEF KillPty, RowTypeOK, Tracked
<1>1. CASE PtyExit(s)
  <2>1. /\ proc' = [proc EXCEPT ![s] = "gone"] /\ cancelled' = cancelled
        /\ row' = row \/ (row[s] = "running" /\ row' = [row EXCEPT ![s] = "exited"])
        /\ handle' = handle \/ handle' = [handle EXCEPT ![s] = FALSE]
    BY <1>1 DEF PtyExit
  <2>2. RowTypeOK'
    <3>1. /\ row' \in [Sessions -> {"none", "queued", "running", "exited", "suspended", "removed"}]
          /\ handle' \in [Sessions -> BOOLEAN]
          /\ proc' \in [Sessions -> {"none", "live", "killed", "gone"}]
      BY <2>1, CoreBasics DEF RowTypeOK
    <3> QED BY <1>t, <2>1, <3>1, CoreBasics DEF RowTypeOK
  <2>3. /\ \A x \in Sessions : row'[x] = "none" <=> row[x] = "none"
        /\ \A x \in Sessions : row'[x] = "queued" => row[x] = "queued"
        /\ \A x \in Sessions : susp'[x] # "none" => row'[x] \notin {"none", "queued"}
        /\ quitting => \A x \in Sessions : ~IsLive(row'[x])
    BY <1>t, <2>1, CoreBasics DEF RowCore, IsLive
  <2>4. CASE call[s] = "abandoned"
    <3> DEFINE c == [call EXCEPT ![s] = "done"]
    <3>1. QueueAside(c)
      BY <1>1, <2>4 DEF PtyExit
    <3>2. Turn(row, c, queue, spawning, loop)
      BY <3>1, CoreBasics, AsideIsTurn
    <3>3. c \in [Sessions -> CallStages] /\ \A x \in Sessions : c[x] = call[x] \/ (call[x] = "abandoned" /\ c[x] = "done")
      BY <2>4, CoreBasics DEF CallStages
    <3>4. \A x \in Sessions : \A y \in siblings'[x] : row'[y] # "none"
      BY <1>t, <2>3, CoreBasics DEF RowCore, RowTypeOK
    <3>5. quitting => queue = <<>>
      BY CoreBasics DEF RowCore
    <3> HIDE DEF c
    <3> QED BY <1>t, <2>2, <2>3, <3>2, <3>3, <3>4, <3>5, CoreBasics, CalmKeepsCore
  <2>5. CASE call[s] # "abandoned"
    <3>1. QueueAside(call) \/ NotifySlotFreed(row', call, queue, spawning)
      BY <1>1, <2>5 DEF PtyExit
    <3> QED BY <1>t, <2>2, <2>3, <3>1, CoreBasics, NotifyKeepsCore
  <2> QED BY <2>4, <2>5
<1>2. CASE Kill(s)
  <2>1. row' = KilledRow(s) /\ KillPty(s) /\ NotifySlotFreed(row', call, Without(queue, s), spawning)
    BY <1>2 DEF Kill
  <2>2. RowTypeOK'
    BY <1>t, <1>p, <2>1, KilledRowCore, CoreBasics DEF RowTypeOK
  <2>3. /\ \A x \in Sessions : row'[x] = "none" <=> row[x] = "none"
        /\ \A x \in Sessions : row'[x] = "queued" => row[x] = "queued" /\ (x = s => ~InQueue(s))
        /\ \A x \in Sessions : susp'[x] # "none" => row'[x] \notin {"none", "queued"}
        /\ quitting => \A x \in Sessions : ~IsLive(row'[x])
    BY <1>t, <2>1, KilledRowCore, CoreBasics DEF RowCore, IsLive
  <2> QED BY <1>t, <2>1, <2>2, <2>3, CoreWithout, NotifyKeepsCore DEF InQueue
<1>3. CASE RemoveSession(s)
  <2>1. /\ row' = [row EXCEPT ![s] = "removed"] /\ row[s] # "none" /\ KillPty(s)
        /\ NotifySlotFreed(KilledRow(s), call, Without(queue, s), spawning)
    BY <1>3 DEF RemoveSession
  <2>2. RowTypeOK'
    BY <1>t, <1>p, <2>1, CoreBasics DEF RowTypeOK
  <2>3. /\ \A x \in Sessions : row'[x] = "none" <=> row[x] = "none"
        /\ \A x \in Sessions : row'[x] = "queued" => row[x] = "queued" /\ x # s
        /\ \A x \in Sessions : susp'[x] # "none" => row'[x] \notin {"none", "queued"}
        /\ quitting => \A x \in Sessions : ~IsLive(row'[x])
    BY <1>t, <2>1, CoreBasics DEF RowCore, IsLive
  <2> QED BY <1>t, <2>1, <2>2, <2>3, CoreWithout, NotifyKeepsCore
<1> QED BY <1>1, <1>2, <1>3

(* A suspend that begins leaves its session where it waits; its row no longer
   reads queued. *)
LEMMA BeginSuspendKeepsCore ==
  ASSUME CoreInv, NEW s \in Sessions, NEW k \in BOOLEAN, BeginSuspend(s, k), row[s] # "none",
         refused' = refused \/ refused' = refused \ {s}
  PROVE  CoreInv'
<1>1. /\ row' = [row EXCEPT ![s] = "suspended"]
      /\ cancelled' = [cancelled EXCEPT ![s] = @ \/ Tracked(call, s)]
      /\ susp' = [susp EXCEPT ![s] = IF handle[s] THEN "exit" ELSE "scan"]
      /\ kept' \subseteq kept \cup {TaskOf[s]}
      /\ UNCHANGED <<handle, proc, call, siblings, queueVars, limit, boardVars, drainDue, quitting>>
  BY DEF BeginSuspend
<1>2. RowTypeOK'
  <2>1. /\ row' \in [Sessions -> {"none", "queued", "running", "exited", "suspended", "removed"}]
        /\ cancelled' \in [Sessions -> BOOLEAN]
        /\ susp' \in [Sessions -> {"none", "exit", "propagate", "scan", "settle"}]
    BY <1>1, CoreBasics DEF RowTypeOK, Tracked
  <2> QED BY <1>1, <2>1, CoreBasics DEF RowTypeOK
<1>3. BoardTypeOK'
  <2>1. TaskOf[s] \in Tasks
    BY SessionAssumption
  <2> QED BY <1>1, <2>1, CoreBasics DEF BoardTypeOK, boardVars
<1>4. QueueAside(call)
  BY <1>1 DEF QueueAside
<1>5. \A x \in Sessions : row'[x] = IF x = s THEN "suspended" ELSE row[x]
  BY <1>1, CoreBasics
<1>6. \A x \in Sessions : susp'[x] # "none" => row'[x] \notin {"none", "queued"}
  BY <1>1, <1>5, CoreBasics DEF RowCore
<1>7. quitting => \A x \in Sessions : ~IsLive(row'[x])
  BY <1>5, CoreBasics DEF RowCore, IsLive
<1> QED BY <1>1, <1>2, <1>3, <1>4, <1>5, <1>6, <1>7, CoreBasics, NotifyKeepsCore

(* The steps of a suspend: the last one takes its session out of the queue,
   where a paused one may have waited on. *)
LEMMA SuspendKeepsCore ==
  ASSUME CoreInv, NEW s \in Sessions, Suspend(s) \/ SuspendStep(s) \/ PauseRefused(s)
  PROVE  CoreInv'
<1>1. CASE Suspend(s)
  <2>1. row[s] # "none" /\ refused' = refused /\ \E k \in BOOLEAN : BeginSuspend(s, k)
    BY <1>1 DEF Suspend, IsLive
  <2> QED BY <2>1, BeginSuspendKeepsCore
<1>2. CASE SuspendStep(s)
  <2>1. /\ UNCHANGED <<row, cancelled, siblings, refused, quitting>> /\ BoardTypeOK' /\ susp[s] # "none"
        /\ \E p \in {"none", "propagate", "scan", "settle"} : susp' = [susp EXCEPT ![s] = p]
        /\ proc' = proc \/ proc' = [proc EXCEPT ![s] = "killed"]
        /\ handle' = handle \/ handle' = [handle EXCEPT ![s] = FALSE]
    BY <1>2, CoreBasics DEF SuspendStep, SuspendKills, SuspendSeesExit, SuspendFinishes, SuspendSettles,
       spawnVars, BoardTypeOK, boardVars
  <2>2. RowTypeOK'
    <3>1. susp' \in [Sessions -> {"none", "exit", "propagate", "scan", "settle"}]
      BY <2>1, CoreBasics
    <3>2. proc' \in [Sessions -> {"none", "live", "killed", "gone"}]
      BY <2>1, CoreBasics DEF RowTypeOK
    <3>3. handle' \in [Sessions -> BOOLEAN]
      BY <2>1, CoreBasics DEF RowTypeOK
    <3> QED BY <2>1, <3>1, <3>2, <3>3, CoreBasics DEF RowTypeOK
  <2>3. /\ \A x \in Sessions : susp'[x] # "none" => row'[x] \notin {"none", "queued"}
        /\ quitting => \A x \in Sessions : ~IsLive(row'[x])
    BY <2>1, CoreBasics DEF RowCore
  <2>4. row[s] # "queued"
    BY <2>1, CoreBasics DEF RowCore
  <2>5. CASE SuspendFinishes(s)
    <3>1. NotifySlotFreed(row, call, Without(queue, s), spawning)
      BY <2>5 DEF SuspendFinishes
    <3> QED BY <2>1, <2>2, <2>3, <2>4, <3>1, CoreWithout, NotifyKeepsCore
  <2>6. CASE ~SuspendFinishes(s)
    <3>1. QueueAside(call)
      BY <1>2, <2>6 DEF SuspendStep, SuspendKills, SuspendSeesExit, SuspendSettles, spawnVars, QueueAside
    <3> QED BY <2>1, <2>2, <2>3, <3>1, CoreBasics, NotifyKeepsCore
  <2> QED BY <2>5, <2>6
<1>3. CASE PauseRefused(s)
  <2>1. CASE row[s] = "queued" /\ BeginSuspend(s, FALSE)
    BY <1>3, <2>1, BeginSuspendKeepsCore DEF PauseRefused
  <2>2. CASE ~(row[s] = "queued" /\ BeginSuspend(s, FALSE))
    <3>1. /\ row' = IF row[s] = "queued" THEN [row EXCEPT ![s] = "exited"] ELSE row
          /\ refused' = refused \ {s}
          /\ UNCHANGED <<handle, proc, call, cancelled, siblings, susp, queueVars, limit, boardVars,
                         kept, drainDue, quitting>>
      BY <1>3, <2>2 DEF PauseRefused
    <3>2. RowTypeOK' /\ BoardTypeOK'
      BY <3>1, CoreBasics DEF RowTypeOK, BoardTypeOK, boardVars
    <3>3. /\ \A x \in Sessions : row'[x] = "none" <=> row[x] = "none"
          /\ \A x \in Sessions : row'[x] = "queued" => row[x] = "queued" /\ x # s
          /\ \A x \in Sessions : susp'[x] # "none" => row'[x] \notin {"none", "queued"}
          /\ quitting => \A x \in Sessions : ~IsLive(row'[x])
      BY <3>1, CoreBasics DEF RowCore, IsLive
    <3>4. QueueAside(call)
      BY <3>1 DEF QueueAside
    <3> QED BY <3>1, <3>2, <3>3, <3>4, CoreBasics, NotifyKeepsCore
  <2> QED BY <2>1, <2>2
<1> QED BY <1>1, <1>2, <1>3

(* The steps of a task, of the settings and of the board, and the quit. *)
LEMMA BoardKeepsCore ==
  ASSUME CoreInv,
         \/ \E t \in Tasks : CancelTaskSpawns(t) \/ ReleaseColumnSlot(t)
         \/ \E n \in Limits : SetMaxConcurrent(n)
         \/ \E t \in Tasks, c \in Columns : MoveTask(t, c)
         \/ \E c \in Columns, n \in ColumnLimits : SetColumnLimit(c, n)
         \/ DrainQueue
         \/ KillAll
         \/ UNCHANGED vars
  PROVE  CoreInv'
<1>0. ASSUME RowTypeOK', BoardTypeOK', UNCHANGED <<row, siblings, refused, susp, quitting>>,
             QueueAside(call) \/ NotifySlotFreed(row, call, queue, spawning)
      PROVE  CoreInv'
  <2>1. /\ \A x \in Sessions : susp'[x] # "none" => row'[x] \notin {"none", "queued"}
        /\ quitting => \A x \in Sessions : ~IsLive(row'[x])
    BY <1>0, CoreBasics DEF RowCore
  <2> QED BY <1>0, <2>1, CoreBasics, NotifyKeepsCore
<1>1. ASSUME NEW t \in Tasks, CancelTaskSpawns(t)
      PROVE  CoreInv'
  <2>1. RowTypeOK' /\ BoardTypeOK'
    BY <1>1, CoreBasics DEF CancelTaskSpawns, RowTypeOK, BoardTypeOK, boardVars, Tracked
  <2> QED BY <1>0, <1>1, <2>1 DEF CancelTaskSpawns, QueueAside
<1>2. ASSUME NEW t \in Tasks, ReleaseColumnSlot(t)
      PROVE  CoreInv'
  <2>1. RowTypeOK' /\ BoardTypeOK'
    BY <1>2, CoreBasics DEF ReleaseColumnSlot, RowTypeOK, BoardTypeOK, boardVars
  <2> QED BY <1>0, <1>2, <2>1 DEF ReleaseColumnSlot
<1>3. ASSUME NEW n \in Limits, SetMaxConcurrent(n)
      PROVE  CoreInv'
  <2>1. RowTypeOK' /\ BoardTypeOK'
    BY <1>3, CoreBasics DEF SetMaxConcurrent, RowTypeOK, BoardTypeOK, boardVars
  <2> QED BY <1>0, <1>3, <2>1 DEF SetMaxConcurrent
<1>4. ASSUME NEW t \in Tasks, NEW c \in Columns, MoveTask(t, c)
      PROVE  CoreInv'
  <2>1. RowTypeOK' /\ BoardTypeOK'
    BY <1>4, CoreBasics DEF MoveTask, RowTypeOK, BoardTypeOK, spawnVars
  <2> QED BY <1>0, <1>4, <2>1 DEF MoveTask, spawnVars, QueueAside
<1>5. ASSUME NEW c \in Columns, NEW n \in ColumnLimits, SetColumnLimit(c, n)
      PROVE  CoreInv'
  <2>1. RowTypeOK' /\ BoardTypeOK'
    BY <1>5, CoreBasics DEF SetColumnLimit, RowTypeOK, BoardTypeOK, spawnVars
  <2> QED BY <1>0, <1>5, <2>1 DEF SetColumnLimit, spawnVars, QueueAside
<1>6. ASSUME DrainQueue
      PROVE  CoreInv'
  <2>1. RowTypeOK' /\ BoardTypeOK'
    BY <1>6, CoreBasics DEF DrainQueue, RowTypeOK, BoardTypeOK, boardVars
  <2> QED BY <1>0, <1>6, <2>1 DEF DrainQueue
<1>7. ASSUME KillAll
      PROVE  CoreInv'
  <2>1. /\ row' = [s \in Sessions |-> IF row[s] = "none" THEN "none" ELSE "removed"]
        /\ handle' = [s \in Sessions |-> FALSE] /\ quitting' = TRUE /\ queue' = <<>>
        /\ proc' = [s \in Sessions |-> IF handle[s] /\ proc[s] = "live" THEN "killed" ELSE proc[s]]
        /\ UNCHANGED <<spawnVars, susp, loop, dirty, spawning, limit, boardVars, kept, drainDue>>
    BY <1>7 DEF KillAll
  <2>2. RowTypeOK'
    <3>1. /\ row' \in [Sessions -> {"none", "queued", "running", "exited", "suspended", "removed"}]
          /\ proc' \in [Sessions -> {"none", "live", "killed", "gone"}]
      BY <2>1, CoreBasics DEF RowTypeOK
    <3> QED BY <2>1, <3>1, CoreBasics DEF RowTypeOK, spawnVars
  <2>3. BoardTypeOK'
    BY <2>1, CoreBasics DEF BoardTypeOK, boardVars
  <2>4. /\ <<>> \in Seq(Sessions) /\ DOMAIN <<>> = {} /\ ToSet(<<>>) = {} /\ IsInjective(<<>>)
    BY EmptySeq DEF ToSet, IsInjective
  <2>5. Turn(row, call, <<>>, spawning, loop)
    BY <2>1, <2>4, CoreBasics DEF Turn, spawnVars, QueueTypeOK
  <2>6. /\ \A x \in Sessions : row'[x] = IF row[x] = "none" THEN "none" ELSE "removed"
        /\ \A x \in Sessions : \A y \in siblings'[x] : row'[y] # "none"
        /\ \A x \in Sessions : susp'[x] # "none" => row'[x] \notin {"none", "queued"}
    BY <2>1, CoreBasics DEF RowCore, spawnVars, RowTypeOK
  <2>7. \A x \in Sessions : ~IsLive(row'[x])
    BY <2>6 DEF IsLive
  <2> QED BY <2>1, <2>2, <2>3, <2>4, <2>5, <2>6, <2>7, CoreBasics, CalmKeepsCore DEF spawnVars
<1>8. ASSUME UNCHANGED vars
      PROVE  CoreInv'
  <2>1. RowTypeOK' /\ BoardTypeOK'
    BY <1>8, CoreBasics DEF vars, RowTypeOK, BoardTypeOK, boardVars, spawnVars
  <2> QED BY <1>0, <1>8, <2>1 DEF vars, spawnVars, QueueAside
<1> QED BY <1>1, <1>2, <1>3, <1>4, <1>5, <1>6, <1>7, <1>8

(* Every step, and every stutter, keeps it. *)
LEMMA NextKeepsCore ==
  ASSUME CoreInv, [Next]_vars
  PROVE  CoreInv'
<1>1. CASE \E s \in Sessions :
             \/ Spawn(s) \/ RefuseStart(s) \/ SpawnStep(s) \/ PtyExit(s) \/ Kill(s)
             \/ RemoveSession(s) \/ Suspend(s) \/ SuspendStep(s) \/ PauseRefused(s)
  BY <1>1, SpawnKeepsCore, PipelineKeepsCore, EndingKeepsCore, SuspendKeepsCore
<1>2. CASE ~\E s \in Sessions :
             \/ Spawn(s) \/ RefuseStart(s) \/ SpawnStep(s) \/ PtyExit(s) \/ Kill(s)
             \/ RemoveSession(s) \/ Suspend(s) \/ SuspendStep(s) \/ PauseRefused(s)
  BY <1>2, BoardKeepsCore DEF Next
<1> QED BY <1>1, <1>2
=============================================================================
