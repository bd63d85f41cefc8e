--------------------------- MODULE ColumnCapacity ---------------------------
(***************************************************************************)
(* The gate a column's agent limit puts on the session queue               *)
(* (transition-engine/column-capacity.ts), as pure operators.              *)
(*                                                                         *)
(* A view v is what one pass of the gate reads:                            *)
(*   v.column[t]     the column task t is in (its swimlane)                *)
(*   v.maxAgents[c]  the agent limit of column c, or NoLimit               *)
(*   v.entered[t]    when t entered its column                             *)
(*   v.holders       the tasks holding an agent slot                       *)
(*   v.kept          the tasks whose slot an in-place restart is keeping   *)
(* The queue is read through its tasks: q is the sequence of the tasks of  *)
(* the waiting sessions.  A column belongs to one project, so "same        *)
(* column" stands for the code's project-and-swimlane key, and a project   *)
(* whose database is not open reads as columns without a limit.            *)
(***************************************************************************)
EXTENDS Naturals, Sequences, FiniteSets, SequencesExt, FiniteSetsExt

CONSTANTS Tasks,    \* every task id
          Columns,  \* every column
          Exempt,   \* tasks of Command Terminals and workflow agents
          NoLimit   \* the limit of a column that has none

ASSUME GateAssumption == Exempt \subseteq Tasks /\ NoLimit \notin Nat /\ IsFiniteSet(Tasks)

Views == [column : [Tasks -> Columns], maxAgents : [Columns -> Nat \cup {NoLimit}],
          entered : [Tasks -> Nat], holders : SUBSET Tasks, kept : SUBSET Tasks]

(* A task the gate looks at: no exempt session, and its column has a limit. *)
Capped(v, t) == t \notin Exempt /\ v.maxAgents[v.column[t]] # NoLimit

SameColumn(v, t, u) == Capped(v, t) /\ Capped(v, u) /\ v.column[t] = v.column[u]

(* Agents holding t's column, not counting t itself. *)
Occupants(v, t) == Cardinality({u \in v.holders \ {t} : SameColumn(v, u, t)})

(* Mutant: a full column still takes one more. *)
MutantHasRoom(v, t) == Occupants(v, t) <= v.maxAgents[v.column[t]]

HasRoom(v, t) == Occupants(v, t) < v.maxAgents[v.column[t]]

(* Queue order breaks a tie. *)
EntersFirst(v, t, i, u, j) ==
  v.entered[t] < v.entered[u] \/ (v.entered[t] = v.entered[u] /\ i < j)

(* Mutant: the line is kept in queue order. *)
MutantFirstInLine(v, q, i) == \A j \in DOMAIN q : SameColumn(v, q[i], q[j]) => i <= j

FirstInLine(v, q, i) ==
  \A j \in DOMAIN q \ {i} :
    SameColumn(v, q[i], q[j]) => EntersFirst(v, q[i], i, q[j], j)

(* Mutant: an arrival is admitted wherever its column has room. *)
MutantMustWait(v, q, t) == Capped(v, t) /\ t \notin v.kept /\ ~HasRoom(v, t)

(* Whether a new start of t waits although a global slot is free. *)
MustWait(v, q, t) ==
  /\ Capped(v, t)
  /\ t \notin v.kept
  /\ \/ ~HasRoom(v, t)
     \/ \E i \in DOMAIN q : /\ q[i] # t
                            /\ SameColumn(v, q[i], t)
                            /\ EntersFirst(v, q[i], i, t, Len(q) + 1)

Startable(v, q, i) ==
  \/ ~Capped(v, q[i])
  \/ FirstInLine(v, q, i) /\ HasRoom(v, q[i])

(* The index of the next entry to start; 0 stands for the code's -1. *)
Pick(v, q) ==
  LET startable == {i \in DOMAIN q : Startable(v, q, i)}
  IN  IF startable = {} THEN 0
      ELSE CHOOSE i \in startable : \A j \in startable : i <= j

-----------------------------------------------------------------------------
Minus(m, n) == IF m > n THEN m - n ELSE 0

(* The entries waiting in t's column; the first of them speaks for it. *)
WaitingWith(v, q, i) == {j \in DOMAIN q : SameColumn(v, q[i], q[j])}

SpeaksForColumn(v, q, i) ==
  Capped(v, q[i]) /\ \A j \in WaitingWith(v, q, i) : i <= j

(* How many entries wait on a column rather than on a global slot. *)
CountBlocked(v, q) ==
  MapThenSumSet(
    LAMBDA i : Minus(Cardinality(WaitingWith(v, q, i)),
                     Minus(v.maxAgents[v.column[q[i]]], Occupants(v, q[i]))),
    {i \in DOMAIN q : SpeaksForColumn(v, q, i)})

(* Mutant: a Command Terminal's task takes room too. *)
MutantColumnRoom(v, c, claimed) ==
  IF v.maxAgents[c] = NoLimit THEN NoLimit
  ELSE Minus(v.maxAgents[c], Cardinality({t \in claimed : v.column[t] = c}))

(* How many more starts column c can take: the workflow engine plans with it. *)
ColumnRoom(v, c, claimed) ==
  IF v.maxAgents[c] = NoLimit THEN NoLimit
  ELSE Minus(v.maxAgents[c],
             Cardinality({t \in claimed \ Exempt : v.column[t] = c}))

(* A startup's batch of starts, the earliest-entered first; a task in no
   limited column ranks ahead of every one that is in one. *)
OrderByColumnEntry(v, q) ==
  LET rank(t) == IF Capped(v, t) THEN v.entered[t] + 1 ELSE 0
      before(i, j) == rank(q[i]) < rank(q[j]) \/ (rank(q[i]) = rank(q[j]) /\ i < j)
      place(i) == Cardinality({j \in DOMAIN q : before(j, i)}) + 1
  IN  [k \in DOMAIN q |-> q[CHOOSE i \in DOMAIN q : place(i) = k]]
=============================================================================
