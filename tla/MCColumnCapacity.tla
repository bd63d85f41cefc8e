-------------------------- MODULE MCColumnCapacity --------------------------
(***************************************************************************)
(* Every view of a small board, and the queue worked off through the gate  *)
(* with a global slot always free: each step starts the entry Pick names,  *)
(* whose task then holds its column.                                       *)
(***************************************************************************)
EXTENDS ColumnCapacity

CONSTANTS MaxAgentsChoices, EntryTimes

ASSUME BoardAssumption == MaxAgentsChoices \subseteq Nat \cup {NoLimit} /\ EntryTimes \subseteq Nat

VARIABLES view, queue

vars == <<view, queue>>

Init ==
  /\ view \in [column : [Tasks -> Columns], maxAgents : [Columns -> MaxAgentsChoices],
               entered : [Tasks -> EntryTimes], holders : SUBSET Tasks, kept : {{}}]
  /\ queue \in UNION {SetToSeqs(S) : S \in SUBSET (Tasks \ view.holders)}

Start ==
  /\ Pick(view, queue) # 0
  /\ view' = [view EXCEPT !.holders = @ \cup {queue[Pick(view, queue)]}]
  /\ queue' = RemoveAt(queue, Pick(view, queue))

Next == Start

Spec == Init /\ [][Next]_vars /\ WF_vars(Next)

(* The count of blocked entries is what the workflow engine plans free slots
   with (getFreeAgentSlots).  It must be exactly the entries no free global
   slot could ever start: starting one that was not blocked leaves it alone. *)
BlockedIsStable == [][CountBlocked(view', queue') = CountBlocked(view, queue)]_vars

(* ... and when nothing more can start, everything left is blocked. *)
DrainEndsBlocked == Pick(view, queue) = 0 => Len(queue) = CountBlocked(view, queue)

(* mustWait admits a new arrival exactly when pick would start it from the
   end of the queue: an arrival neither overtakes the line nor is parked
   behind nothing. *)
AdmissionAgreesWithPick ==
  \A t \in Tasks :
    (\A i \in DOMAIN queue : queue[i] # t) =>
      (MustWait(view, queue, t) <=> ~Startable(view, Append(queue, t), Len(queue) + 1))

(* The startup batch keeps every task once, and its order agrees with the
   gate: of two tasks in one limited column the earlier arrival goes first. *)
BatchOrderAgreesWithGate ==
  LET batch == OrderByColumnEntry(view, queue)
  IN  /\ ToSet(batch) = ToSet(queue)
      /\ \A i, j \in DOMAIN batch :
           (i < j /\ SameColumn(view, batch[i], batch[j])) =>
              view.entered[batch[i]] <= view.entered[batch[j]]

(* The room the workflow engine plans with is exact: a further start in the
   column ends up blocked on it exactly when the column reported no room. *)
RoomIsExact ==
  LET claimed == view.holders \cup ToSet(queue)
  IN  \A t \in Tasks \ claimed :
        Capped(view, t) =>
          CountBlocked(view, Append(queue, t)) =
            CountBlocked(view, queue)
              + (IF ColumnRoom(view, view.column[t], claimed) > 0 THEN 0 ELSE 1)

(* What is counted as blocked and as room is what the gate will do with it:
   the workflow engine neither plans starts that cannot come nor leaves slots
   unused. *)
BlockedCountIsExact == DrainEndsBlocked /\ RoomIsExact

(* The three places that decide who is next (the gate for a new arrival, the
   pick from the queue, the order of a startup batch) agree with each other. *)
OrdersAgree == AdmissionAgreesWithPick /\ BatchOrderAgreesWithGate

=============================================================================
