-------------------------- MODULE HeldMessages_proofs --------------------------
(***************************************************************************)
(* Proofs about HeldMessages, for any messages, sessions and claims.  The  *)
(* invariant has three parts: where each claim is carried (CarryOK), what  *)
(* the rows, the reservations and the claims say of one another (RowsOK),  *)
(* and what a session's state says of the ride on it (SessionOK).  The     *)
(* first two are operators over values, because most actions move a        *)
(* carrier first and settle, release or make claims from there: the lemmas *)
(* about Settle, Release and FlushHeldIfLive start in between.  OpeningInv *)
(* adds where a typed opening may be under way.                            *)
(***************************************************************************)
EXTENDS HeldMessages, TLAPS, FiniteSetTheorems

Statuses == {"new", "held", "delivered", "failed", "cleared"}

(* A claim is open exactly while something carries it, and one thing does:
   the start st, a pending ride pr, a launch ride lr, or a delivery d. *)
CarryOK(op, st, pr, lr, d) ==
  \A c \in Claims :
    /\ c \in op <=> \/ st = c \/ d[c].stage # "none"
                    \/ \E s \in Sessions : pr[s] = c \/ lr[s] = c
    /\ st = c => d[c].stage = "none" /\ \A s \in Sessions : pr[s] # c /\ lr[s] # c
    /\ \A s \in Sessions :
         /\ pr[s] = c => /\ d[c].stage = "none"
                         /\ \A t \in Sessions : lr[t] # c /\ (pr[t] = c => t = s)
         /\ lr[s] = c => d[c].stage = "none" /\ \A t \in Sessions : lr[t] = c => t = s

(* Nobody has taken in what c carries: it has not been typed, and it does not
   ride the launch of one of the sessions sh, where an agent has it. *)
Fresh(c, st, pr, lr, sh, d) ==
  \/ st = c \/ d[c].stage = "waiting"
  \/ \E s \in Sessions : pr[s] = c \/ (lr[s] = c /\ s \notin sh)

(* A message that nothing carries is free: new, or held and not reserved.   *)
Free(m, r, res) == r[m] = "new" \/ (r[m] = "held" /\ m \notin res)

(* What a row may be, given the reservations res, the open claims op with
   their rows i, the rows stk whose write failed and the counts tk.  F(c) is
   said by the set fresh: the claims nobody has taken in. *)
RowOK(m, r, res, op, i, stk, tk, fresh) ==
  /\ Free(m, r, res) => tk[m] = 0 /\ m \notin stk /\ \A c \in op : m \notin i[c]
  /\ r[m] = "new" => m \notin res
  /\ m \in res => m \in stk \/ \E c \in op : m \in i[c]
  /\ m \in stk /\ r[m] = "held" => \A c \in op : m \notin i[c]
  /\ \A c \in op : m \in i[c] => /\ tk[m] = IF c \in fresh THEN 0 ELSE 1
                                 /\ r[m] \in {"held", "cleared"}
                                 /\ \A e \in op : m \in i[e] => e = c
  /\ tk[m] \in {0, 1}

RowsOK(r, res, op, i, stk, tk, fresh) ==
  \A m \in Messages : RowOK(m, r, res, op, i, stk, tk, fresh)

FreshOnes(st, pr, lr, sh, d) == {c \in Claims : Fresh(c, st, pr, lr, sh, d)}

(* Sessions where what rides the launch was taken in: the agent has shown that
   it started, or its command line is bare and an opening was typed. *)
Heard == shown \cup {s \in Sessions : prompt[s] = {}}

(* A session and what rides on it. *)
SessionOK(s) ==
  /\ pendingRides[s] # NoClaim => sess[s] = "queued"
  /\ sess[s] = "queued" =>
       prompt[s] = IF pendingRides[s] # NoClaim THEN ids[pendingRides[s]] ELSE {}
  /\ launchRides[s] # NoClaim =>
       /\ sess[s] \in {"running", "closing"} /\ s \in ReportsStart
       /\ prompt[s] \in {{}, ids[launchRides[s]]}
  /\ sess[s] = "running" /\ AgentStartPending(s) /\ launchRides[s] = NoClaim => prompt[s] = {}

StartOK ==
  /\ starting = "no" => startClaim = NoClaim
  /\ starting \in Sessions => startClaim # NoClaim

CarryInv ==
  /\ HeldTypeOK /\ StartOK
  /\ CarryOK(open, startClaim, pendingRides, launchRides, deliveries)
  /\ \A s \in Sessions : SessionOK(s)
  /\ \A c \in open : ids[c] # {}

RowInv == RowsOK(row, reserved, open, ids, stuck, taken,
                 FreshOnes(startClaim, pendingRides, launchRides, Heard, deliveries))

WaitInv == NothingWaitsOnALiveAgent
-----------------------------------------------------------------------------
(* Carriers.  Each lemma moves, drops or adds one, and says whose freshness
   that leaves as it was. *)
Deliveries == [to : Sessions \cup {NoSession}, flush : BOOLEAN, stage : {"none", "waiting", "typed"},
               opening : {"no", "awaited", "deferred"}]
Rides == [Sessions -> Claims \cup {NoClaim}]

(* The start's claim is given up. *)
LEMMA DropStart ==
  ASSUME NEW op, NEW st \in Claims, NEW pr, NEW lr, NEW d, NEW sh, CarryOK(op, st, pr, lr, d)
  PROVE  /\ CarryOK(op \ {st}, NoClaim, pr, lr, d)
         /\ \A c \in Claims \ {st} : Fresh(c, NoClaim, pr, lr, sh, d) <=>
              Fresh(c, st, pr, lr, sh, d)
         /\ Fresh(st, st, pr, lr, sh, d) /\ st \in op
BY HeldAssumption DEF CarryOK, Fresh

(* A ride is given up. *)
LEMMA DropPending ==
  ASSUME NEW op, NEW st, NEW pr \in Rides, NEW lr, NEW d, NEW sh, NEW s \in Sessions,
         CarryOK(op, st, pr, lr, d), pr[s] # NoClaim
  PROVE  LET out == [pr EXCEPT ![s] = NoClaim] IN
         /\ CarryOK(op \ {pr[s]}, st, out, lr, d)
         /\ \A c \in Claims \ {pr[s]} : Fresh(c, st, out, lr, sh, d) <=>
              Fresh(c, st, pr, lr, sh, d)
         /\ Fresh(pr[s], st, pr, lr, sh, d) /\ pr[s] \in op
BY HeldAssumption DEF CarryOK, Fresh, Rides

(* A launch's claim that is settled or released leaves the other claims as they are. *)
LEMMA DropLaunch ==
  ASSUME NEW op, NEW st, NEW pr, NEW lr \in Rides, NEW d, NEW sh, NEW s \in Sessions,
         CarryOK(op, st, pr, lr, d), lr[s] # NoClaim
  PROVE  LET out == [lr EXCEPT ![s] = NoClaim] IN
         /\ CarryOK(op \ {lr[s]}, st, pr, out, d)
         /\ \A c \in Claims \ {lr[s]} : Fresh(c, st, pr, out, sh, d) <=>
              Fresh(c, st, pr, lr, sh, d)
         /\ lr[s] \in op /\ (s \notin sh => Fresh(lr[s], st, pr, lr, sh, d))
<1>1. lr[s] \in Claims
  BY DEF Rides
<1>2. s \notin sh => Fresh(lr[s], st, pr, lr, sh, d)
  BY DEF Fresh
<1>3. CarryOK(op \ {lr[s]}, st, pr, [lr EXCEPT ![s] = NoClaim], d) /\ lr[s] \in op
  BY <1>1, HeldAssumption DEF CarryOK, Rides
<1> QED  BY <1>1, <1>2, <1>3, HeldAssumption DEF Fresh, Rides

(* A delivery is over. *)
LEMMA DropDelivery ==
  ASSUME NEW op, NEW st, NEW pr, NEW lr, NEW d \in [Claims -> Deliveries], NEW sh,
         NEW c \in Claims, CarryOK(op, st, pr, lr, d), d[c].stage # "none"
  PROVE  LET out == [d EXCEPT ![c] = NoDelivery] IN
         /\ CarryOK(op \ {c}, st, pr, lr, out)
         /\ \A e \in Claims \ {c} : Fresh(e, st, pr, lr, sh, out) <=> Fresh(e, st, pr, lr, sh, d)
         /\ Fresh(c, st, pr, lr, sh, d) <=> d[c].stage = "waiting"
         /\ c \in op
BY DEF CarryOK, Fresh, NoDelivery

(* The start hands its claim to the ride on a queued session, ... *)
LEMMA StartToPending ==
  ASSUME NEW op, NEW st \in Claims, NEW pr \in Rides, NEW lr, NEW d, NEW sh,
         NEW s \in Sessions, CarryOK(op, st, pr, lr, d), pr[s] = NoClaim
  PROVE  LET out == [pr EXCEPT ![s] = st] IN
         /\ CarryOK(op, NoClaim, out, lr, d)
         /\ \A c \in Claims : Fresh(c, NoClaim, out, lr, sh, d) <=> Fresh(c, st, pr, lr, sh, d)
BY HeldAssumption DEF CarryOK, Fresh, Rides

(* ... to the ride on a launch, ... *)
LEMMA StartToLaunch ==
  ASSUME NEW op, NEW st \in Claims, NEW pr, NEW lr \in Rides, NEW d, NEW sh,
         NEW s \in Sessions, CarryOK(op, st, pr, lr, d), lr[s] = NoClaim, s \notin sh
  PROVE  LET out == [lr EXCEPT ![s] = st] IN
         /\ CarryOK(op, NoClaim, pr, out, d)
         /\ \A c \in Claims : Fresh(c, NoClaim, pr, out, sh, d) <=> Fresh(c, st, pr, lr, sh, d)
BY HeldAssumption DEF CarryOK, Fresh, Rides

(* ... or to a paste, a burst or a typed opening. *)
LEMMA StartToDelivery ==
  ASSUME NEW op, NEW st \in Claims, NEW pr, NEW lr, NEW d \in [Claims -> Deliveries], NEW sh,
         NEW x, x.stage = "waiting", CarryOK(op, st, pr, lr, d)
  PROVE  LET out == [d EXCEPT ![st] = x] IN
         /\ CarryOK(op, NoClaim, pr, lr, out)
         /\ \A c \in Claims : Fresh(c, NoClaim, pr, lr, sh, out) <=> Fresh(c, st, pr, lr, sh, d)
BY HeldAssumption DEF CarryOK, Fresh

(* An opening that landed rides the launch of the session it was typed in. *)
LEMMA OpeningToLaunch ==
  ASSUME NEW op, NEW st, NEW pr, NEW lr \in Rides, NEW d \in [Claims -> Deliveries], NEW sh,
         NEW c \in Claims, NEW s \in Sessions, CarryOK(op, st, pr, lr, d),
         d[c].stage = "typed", lr[s] = NoClaim, s \in sh
  PROVE  LET out == [d EXCEPT ![c] = NoDelivery]
             l2 == [lr EXCEPT ![s] = c]
         IN  /\ CarryOK(op, st, pr, l2, out)
             /\ \A e \in Claims : Fresh(e, st, pr, l2, sh, out) <=> Fresh(e, st, pr, lr, sh, d)
<1> DEFINE out == [d EXCEPT ![c] = NoDelivery]
           l2 == [lr EXCEPT ![s] = c]
<1>1. /\ out[c].stage = "none" /\ \A e \in Claims \ {c} : out[e] = d[e]
      /\ l2[s] = c /\ \A t \in Sessions \ {s} : l2[t] = lr[t]
  BY DEF NoDelivery, Rides
<1>2. /\ st # c /\ \A t \in Sessions : pr[t] # c /\ lr[t] # c
      /\ c \in op
  BY DEF CarryOK
<1> HIDE DEF out, l2
<1>3. CarryOK(op, st, pr, l2, out)
  BY <1>1, <1>2, HeldAssumption DEF CarryOK
<1>4. \A e \in Claims : Fresh(e, st, pr, l2, sh, out) <=> Fresh(e, st, pr, lr, sh, d)
  BY <1>1, <1>2, HeldAssumption DEF Fresh
<1> QED  BY <1>3, <1>4 DEF out, l2

(* The promotion of a queued session that carries one. *)
LEMMA PendingToLaunch ==
  ASSUME NEW op, NEW st, NEW pr \in Rides, NEW lr \in Rides, NEW d, NEW sh,
         NEW s \in Sessions, CarryOK(op, st, pr, lr, d),
         pr[s] # NoClaim, lr[s] = NoClaim, s \notin sh
  PROVE  LET p2 == [pr EXCEPT ![s] = NoClaim]
             l2 == [lr EXCEPT ![s] = pr[s]]
         IN  /\ CarryOK(op, st, p2, l2, d)
             /\ \A c \in Claims : Fresh(c, st, p2, l2, sh, d) <=> Fresh(c, st, pr, lr, sh, d)
BY HeldAssumption DEF CarryOK, Fresh, Rides

(* A claim made for a live agent, or by a start. *)
LEMMA NewDelivery ==
  ASSUME NEW op, NEW st, NEW pr, NEW lr, NEW d \in [Claims -> Deliveries], NEW sh,
         NEW n \in Claims \ op, NEW s, CarryOK(op, st, pr, lr, d)
  PROVE  LET out == [d EXCEPT ![n] = Delivery(s, FALSE)] IN
         /\ CarryOK(op \cup {n}, st, pr, lr, out)
         /\ \A c \in Claims \ {n} : Fresh(c, st, pr, lr, sh, out) <=> Fresh(c, st, pr, lr, sh, d)
         /\ Fresh(n, st, pr, lr, sh, out)
BY DEF CarryOK, Fresh, Delivery

(* A start takes a claim that nothing else carries, and it is a fresh one. *)
LEMMA NewStart ==
  ASSUME NEW op, NEW pr, NEW lr, NEW d, NEW sh,
         NEW n \in Claims \ op, CarryOK(op, NoClaim, pr, lr, d)
  PROVE  /\ CarryOK(op \cup {n}, n, pr, lr, d)
         /\ \A c \in Claims \ {n} : Fresh(c, n, pr, lr, sh, d) <=>
              Fresh(c, NoClaim, pr, lr, sh, d)
         /\ Fresh(n, n, pr, lr, sh, d)
BY HeldAssumption DEF CarryOK, Fresh

(* The agent's input takes a delivery in, or the agent shows that it started. *)
LEMMA TypedDelivery ==
  ASSUME NEW op, NEW st, NEW pr, NEW lr, NEW d \in [Claims -> Deliveries], NEW sh,
         NEW c \in Claims, CarryOK(op, st, pr, lr, d), d[c].stage = "waiting"
  PROVE  LET out == [d EXCEPT ![c].stage = "typed"] IN
         /\ CarryOK(op, st, pr, lr, out)
         /\ \A e \in Claims \ {c} : Fresh(e, st, pr, lr, sh, out) <=> Fresh(e, st, pr, lr, sh, d)
         /\ ~Fresh(c, st, pr, lr, sh, out) /\ Fresh(c, st, pr, lr, sh, d) /\ c \in op
BY DEF CarryOK, Fresh, Deliveries

(* A session whose launch has shown its prompt holds no fresh claim. *)
LEMMA ShownLaunch ==
  ASSUME NEW op, NEW st, NEW pr, NEW lr \in Rides, NEW d, NEW sh, NEW s \in Sessions,
         CarryOK(op, st, pr, lr, d)
  PROVE  /\ \A c \in Claims \ {lr[s]} : Fresh(c, st, pr, lr, sh \cup {s}, d) <=>
              Fresh(c, st, pr, lr, sh, d)
         /\ lr[s] # NoClaim => ~Fresh(lr[s], st, pr, lr, sh \cup {s}, d)
BY DEF CarryOK, Fresh, Rides

-----------------------------------------------------------------------------
(* Rows. *)
(* Only the freshness of open claims counts. *)
LEMMA RowsSameFresh ==
  ASSUME NEW r, NEW res, NEW op, NEW i, NEW stk, NEW tk, NEW fresh, NEW other,
         RowsOK(r, res, op, i, stk, tk, fresh),
         \A c \in op : c \in fresh <=> c \in other
  PROVE  RowsOK(r, res, op, i, stk, tk, other)
BY DEF RowsOK, RowOK

(* A claim nobody took in is released: its held rows are free. *)
LEMMA RowsReleased ==
  ASSUME NEW r, NEW res, NEW op, NEW i, NEW stk, NEW tk, NEW fresh, NEW c \in op,
         c \in fresh, RowsOK(r, res, op, i, stk, tk, fresh)
  PROVE  RowsOK(r, res \ i[c], op \ {c}, i, stk, tk, fresh)
BY DEF RowsOK, RowOK, Free

(* What a claim carries is given back, as if no agent had taken it in. *)
LEMMA RowsGivenBack ==
  ASSUME NEW r, NEW res, NEW op, NEW i, NEW stk, NEW tk, NEW fresh, NEW c \in op,
         RowsOK(r, res, op, i, stk, tk, fresh), NEW k,
         \A m \in Messages : k[m] = IF m \in i[c] /\ r[m] = "held" THEN 0 ELSE tk[m]
  PROVE  RowsOK(r, res \ i[c], op \ {c}, i, stk, k, fresh)
BY DEF RowsOK, RowOK, Free

(* A claim takes what is free. *)
LEMMA RowsClaimed ==
  ASSUME NEW r, NEW res, NEW op \in SUBSET Claims, NEW i \in [Claims -> SUBSET Messages],
         NEW stk, NEW tk, NEW fresh, NEW n \in Claims \ op, n \in fresh,
         RowsOK(r, res, op, i, stk, tk, fresh)
  PROVE  LET new == {m \in Messages : r[m] = "held"} \ res IN
         RowsOK(r, res \cup new, op \cup {n}, [i EXCEPT ![n] = new], stk, tk, fresh)
<1> DEFINE new == {m \in Messages : r[m] = "held"} \ res
           out == [i EXCEPT ![n] = new]
<1>1. out[n] = new /\ \A c \in op : out[c] = i[c]
  OBVIOUS
<1> HIDE DEF out
<1>2. ASSUME NEW m \in Messages
      PROVE  RowOK(m, r, res \cup new, op \cup {n}, out, stk, tk, fresh)
  BY <1>1 DEF RowsOK, RowOK, Free
<1> QED  BY <1>2 DEF RowsOK, out

(* A claim is settled, by a write that is made or by one that fails. *)
LEMMA RowsSettled ==
  ASSUME NEW r \in [Messages -> Statuses], NEW res, NEW op, NEW i, NEW stk, NEW tk, NEW fresh,
         NEW c \in op, NEW status \in {"delivered", "failed"}, NEW q,
         RowsOK(r, res, op, i, stk, tk, fresh),
         \A m \in Messages : q[m] = IF m \in i[c] /\ r[m] = "held" THEN status ELSE r[m]
  PROVE  RowsOK(q, res \ i[c], op \ {c}, i, stk, tk, fresh)
BY DEF RowsOK, RowOK, Free, Statuses

(* A settlement that fails leaves its claim's rows stuck in "held". *)
LEMMA RowsStuck ==
  ASSUME NEW r, NEW res, NEW op, NEW i, NEW stk, NEW tk, NEW fresh,
         NEW c \in op, RowsOK(r, res, op, i, stk, tk, fresh)
  PROVE  RowsOK(r, res, op \ {c}, i, stk \cup i[c], tk, fresh)
BY DEF RowsOK, RowOK, Free

(* An agent takes in what a claim carries. *)
LEMMA RowsTaken ==
  ASSUME NEW r, NEW res, NEW op, NEW i, NEW stk, NEW tk \in [Messages -> Nat], NEW fresh,
         NEW c \in op, c \in fresh, RowsOK(r, res, op, i, stk, tk, fresh), NEW k,
         \A m \in Messages : k[m] = IF m \in i[c] THEN tk[m] + 1 ELSE tk[m]
  PROVE  RowsOK(r, res, op, i, stk, k, fresh \ {c})
BY DEF RowsOK, RowOK, Free

(* A message is held, or the task's are cleared. *)
LEMMA RowsHeld ==
  ASSUME NEW r \in [Messages -> Statuses], NEW res, NEW op, NEW i, NEW stk, NEW tk, NEW fresh,
         NEW m \in Messages, r[m] = "new", RowsOK(r, res, op, i, stk, tk, fresh)
  PROVE  RowsOK([r EXCEPT ![m] = "held"], res, op, i, stk, tk, fresh)
BY DEF RowsOK, RowOK, Free, Statuses

(* A clear that succeeds settles every row that is held. *)
LEMMA RowsCleared ==
  ASSUME NEW r \in [Messages -> Statuses], NEW res, NEW op, NEW i, NEW stk, NEW tk, NEW fresh,
         RowsOK(r, res, op, i, stk, tk, fresh), NEW q,
         \A m \in Messages : q[m] = IF r[m] = "held" THEN "cleared" ELSE r[m]
  PROVE  RowsOK(q, {}, op, i, stk, tk, fresh)
BY DEF RowsOK, RowOK, Free, Statuses

-----------------------------------------------------------------------------
(* Settling, releasing and claiming, from the carriers a step leaves. *)
ClaimTypes ==
  /\ row \in [Messages -> Statuses]
  /\ reserved \subseteq Messages /\ open \subseteq Claims
  /\ ids \in [Claims -> SUBSET Messages]
  /\ deliveries \in [Claims -> Deliveries]
  /\ stuck \subseteq Messages /\ missed \subseteq Messages \X Sessions

(* What these do to the claims: open claims op and deliveries d are left, and
   at most one new claim is handed to a live agent. *)
Handed(op, d) ==
  \/ open' = op /\ deliveries' = d /\ ids' = ids
  \/ \E n \in Claims \ op, s \in Sessions, x \in (SUBSET Messages) \ {{}} :
       /\ open' = op \cup {n}
       /\ deliveries' = [d EXCEPT ![n] = Delivery(s, FALSE)]
       /\ ids' = [ids EXCEPT ![n] = x]

(* No live agent is left that could take a held row, or every held row is
   reserved. *)
NoneWaits == Receivers = {} \/ \A m \in Messages : row'[m] = "held" => m \in reserved'

(* A flush leaves no row waiting that an agent could take. *)
LEMMA FlushHands ==
  ASSUME NEW op \in SUBSET Claims, NEW res \in SUBSET Messages, NEW d \in [Claims -> Deliveries],
         ids \in [Claims -> SUBSET Messages], FlushHeldIfLive(res, op, d)
  PROVE  Handed(op, d) /\ NoneWaits /\ reserved' \subseteq Messages
<1>1. CASE Receivers # {} /\ Claimable(res) # {}
  <2>1. PICK s \in Receivers, n \in Claims \ op :
          Claim(n, res, op) /\ deliveries' = [d EXCEPT ![n] = Delivery(s, FALSE)]
    BY <1>1 DEF FlushHeldIfLive
  <2>2. s \in Sessions
    BY <2>1 DEF Receivers
  <2>3. /\ open' = op \cup {n} /\ ids' = [ids EXCEPT ![n] = Claimable(res)]
        /\ reserved' = res \cup Claimable(res)
        /\ Claimable(res) \in (SUBSET Messages) \ {{}}
        /\ \A m \in Messages : row'[m] = "held" => m \in reserved'
    BY <1>1, <2>1 DEF Claim, Claimable
  <2> QED  BY <2>1, <2>2, <2>3 DEF Handed, NoneWaits
<1>2. CASE ~(Receivers # {} /\ Claimable(res) # {})
  <2>1. reserved' = res /\ open' = op /\ ids' = ids /\ deliveries' = d
    BY <1>2 DEF FlushHeldIfLive
  <2>2. Claimable(res) = {} => \A m \in Messages : row'[m] = "held" => m \in reserved'
    BY <2>1 DEF Claimable
  <2> QED  BY <1>2, <2>1, <2>2 DEF Handed, NoneWaits
<1> QED  BY <1>1, <1>2

(* Handing rows out keeps the claims that are open, and what they claim. *)
LEMMA HandedTypes ==
  ASSUME NEW op \in SUBSET Claims, NEW d \in [Claims -> Deliveries], Handed(op, d),
         ids \in [Claims -> SUBSET Messages]
  PROVE  /\ open' \in SUBSET Claims /\ ids' \in [Claims -> SUBSET Messages]
         /\ deliveries' \in [Claims -> Deliveries]
         /\ op \subseteq open' /\ \A c \in op : ids'[c] = ids[c]
<1>1. CASE open' = op /\ deliveries' = d /\ ids' = ids
  BY <1>1
<1>2. ASSUME NEW n \in Claims \ op, NEW s \in Sessions, NEW x \in SUBSET Messages,
             open' = op \cup {n}, deliveries' = [d EXCEPT ![n] = Delivery(s, FALSE)],
             ids' = [ids EXCEPT ![n] = x]
      PROVE  /\ open' \in SUBSET Claims /\ ids' \in [Claims -> SUBSET Messages]
             /\ deliveries' \in [Claims -> Deliveries]
             /\ op \subseteq open' /\ \A c \in op : ids'[c] = ids[c]
  <2>1. Delivery(s, FALSE) \in Deliveries
    BY DEF Delivery, Deliveries
  <2> QED  BY <1>2, <2>1
<1> QED  BY <1>1, <1>2 DEF Handed

(* The carriers after it. *)
LEMMA HandedCarries ==
  ASSUME NEW op \in SUBSET Claims, NEW st, NEW pr, NEW lr, NEW d \in [Claims -> Deliveries],
         CarryOK(op, st, pr, lr, d), Handed(op, d)
  PROVE  CarryOK(open', st, pr, lr, deliveries')
<1>1. ASSUME NEW n \in Claims \ op, NEW s \in Sessions
      PROVE  CarryOK(op \cup {n}, st, pr, lr, [d EXCEPT ![n] = Delivery(s, FALSE)])
  BY NewDelivery
<1> QED  BY <1>1 DEF Handed

(* The rows after a flush. *)
LEMMA FlushKeepsRows ==
  ASSUME NEW op \in SUBSET Claims, NEW res \in SUBSET Messages, NEW st, NEW pr, NEW lr, NEW sh,
         NEW d \in [Claims -> Deliveries], NEW tk, NEW stk, ids \in [Claims -> SUBSET Messages],
         CarryOK(op, st, pr, lr, d), FlushHeldIfLive(res, op, d),
         RowsOK(row', res, op, ids, stk, tk, FreshOnes(st, pr, lr, sh, d))
  PROVE  RowsOK(row', reserved', open', ids', stk, tk, FreshOnes(st, pr, lr, sh, deliveries'))
<1>1. CASE Receivers # {} /\ Claimable(res) # {}
  <2>1. PICK s \in Receivers, n \in Claims \ op :
          Claim(n, res, op) /\ deliveries' = [d EXCEPT ![n] = Delivery(s, FALSE)]
    BY <1>1 DEF FlushHeldIfLive
  <2> DEFINE before == FreshOnes(st, pr, lr, sh, d)
             after == FreshOnes(st, pr, lr, sh, deliveries')
  <2>2. n \in after /\ \A c \in op : c \in after <=> c \in before
    <3>1. /\ Fresh(n, st, pr, lr, sh, deliveries')
          /\ \A c \in Claims \ {n} :
               Fresh(c, st, pr, lr, sh, deliveries') <=> Fresh(c, st, pr, lr, sh, d)
      BY <2>1, NewDelivery
    <3> QED  BY <3>1 DEF FreshOnes
  <2> HIDE DEF before, after
  <2>3. RowsOK(row', res, op, ids, stk, tk, after)
    BY <2>2, RowsSameFresh DEF before
  <2>4. RowsOK(row', res \cup Claimable(res), op \cup {n}, [ids EXCEPT ![n] = Claimable(res)],
               stk, tk, after)
    BY <2>2, <2>3, RowsClaimed DEF Claimable
  <2> QED  BY <2>1, <2>4 DEF Claim, after
<1>2. CASE ~(Receivers # {} /\ Claimable(res) # {})
  BY <1>2 DEF FlushHeldIfLive
<1> QED  BY <1>1, <1>2

(* A release of c, which nothing carries any more. *)
LEMMA ReleaseHands ==
  ASSUME ClaimTypes, NEW c \in Claims, NEW flush \in BOOLEAN, NEW d \in [Claims -> Deliveries],
         Release(c, flush, d)
  PROVE  /\ Handed(open \ {c}, d) /\ ClaimTypes'
         /\ row' = row /\ stuck' = stuck /\ missed \subseteq missed'
         /\ \/ NoneWaits
            \/ /\ reserved' = reserved \ ids[c] /\ (ids[c] \X Receivers) \subseteq missed'
<1>1. open \ {c} \in SUBSET Claims /\ reserved \ ids[c] \in SUBSET Messages
  BY DEF ClaimTypes
<1>2. CASE flush
  <2>1. FlushHeldIfLive(reserved \ ids[c], open \ {c}, d) /\ missed' = missed
    BY <1>2 DEF Release
  <2>2. Handed(open \ {c}, d) /\ NoneWaits /\ reserved' \subseteq Messages
    BY <1>1, <2>1, FlushHands DEF ClaimTypes
  <2> QED  BY <1>1, <2>1, <2>2, HandedTypes DEF Release, ClaimTypes
<1>3. CASE ~flush
  <2>1. /\ reserved' = reserved \ ids[c] /\ open' = open \ {c} /\ ids' = ids /\ deliveries' = d
        /\ missed' = missed \cup (ids[c] \X Receivers) /\ row' = row /\ stuck' = stuck
    BY <1>3 DEF Release
  <2>2. Receivers \subseteq Sessions /\ ids[c] \subseteq Messages
    BY DEF Receivers, ClaimTypes
  <2> QED  BY <1>1, <2>1, <2>2 DEF Handed, ClaimTypes
<1> QED  BY <1>2, <1>3

(* A claim that is given up hands its rows back, and they are offered again. *)
LEMMA ReleaseKeepsRows ==
  ASSUME ClaimTypes, NEW c \in open, NEW flush \in BOOLEAN, NEW d \in [Claims -> Deliveries],
         NEW st, NEW pr, NEW lr, NEW sh, NEW tk, NEW fresh,
         CarryOK(open \ {c}, st, pr, lr, d), Release(c, flush, d),
         RowsOK(row, reserved \ ids[c], open \ {c}, ids, stuck, tk, fresh),
         \A e \in open \ {c} : e \in fresh <=> e \in FreshOnes(st, pr, lr, sh, d)
  PROVE  RowsOK(row', reserved', open', ids', stuck', tk, FreshOnes(st, pr, lr, sh, deliveries'))
<1>2. RowsOK(row, reserved \ ids[c], open \ {c}, ids, stuck, tk, FreshOnes(st, pr, lr, sh, d))
  BY RowsSameFresh
<1>3. row' = row /\ stuck' = stuck
  BY DEF Release
<1>4. open \ {c} \in SUBSET Claims /\ reserved \ ids[c] \in SUBSET Messages
  BY DEF ClaimTypes
<1>5. CASE flush
  <2>1. FlushHeldIfLive(reserved \ ids[c], open \ {c}, d)
    BY <1>5 DEF Release
  <2> QED  BY <1>2, <1>3, <1>4, <2>1, FlushKeepsRows DEF ClaimTypes
<1>6. CASE ~flush
  BY <1>2, <1>3, <1>6 DEF Release
<1> QED  BY <1>5, <1>6

(* A claim that is settled. *)
LEMMA SettleHands ==
  ASSUME ClaimTypes, NEW c \in Claims, NEW status \in {"delivered", "failed"},
         Settle(c, status), NEW d, deliveries' = d, d \in [Claims -> Deliveries]
  PROVE  /\ Handed(open \ {c}, d) /\ ClaimTypes' /\ missed' = missed
         /\ \A m \in Messages : row'[m] = "held" => row[m] = "held" /\ (m \in reserved => m \in reserved')
<1>1. Moved(c, status) \in [Messages -> Statuses]
  BY DEF Moved, ClaimTypes, Statuses
<1>2. \A m \in Messages : Moved(c, status)[m] = "held" => row[m] = "held" /\ m \notin ids[c]
  BY DEF Moved
<1>3. \/ row' = Moved(c, status) /\ reserved' = reserved \ ids[c] /\ stuck' = stuck
      \/ row' = row /\ reserved' = reserved /\ stuck' = stuck \cup ids[c]
  BY DEF Settle
<1>4. open' = open \ {c} /\ ids' = ids /\ missed' = missed /\ ids[c] \subseteq Messages
  BY DEF Settle, ClaimTypes
<1> QED  BY <1>1, <1>2, <1>3, <1>4 DEF Handed, ClaimTypes

(* A claim that is settled moves its rows on, or leaves them stuck. *)
LEMMA SettleKeepsRows ==
  ASSUME ClaimTypes, NEW c \in open, NEW status \in {"delivered", "failed"}, Settle(c, status),
         NEW tk, NEW fresh, NEW other, RowsOK(row, reserved, open, ids, stuck, tk, fresh),
         \A e \in open \ {c} : e \in fresh <=> e \in other
  PROVE  RowsOK(row', reserved', open', ids', stuck', tk, other)
<1>1. RowsOK(Moved(c, status), reserved \ ids[c], open \ {c}, ids, stuck, tk, fresh)
  <2>1. row \in [Messages -> Statuses]
    BY DEF ClaimTypes
  <2>2. \A m \in Messages :
          Moved(c, status)[m] = IF m \in ids[c] /\ row[m] = "held" THEN status ELSE row[m]
    BY DEF Moved
  <2> QED  BY <2>1, <2>2, RowsSettled
<1>2. RowsOK(row, reserved, open \ {c}, ids, stuck \cup ids[c], tk, fresh)
  BY RowsStuck
<1>3. RowsOK(row', reserved', open', ids', stuck', tk, fresh)
  BY <1>1, <1>2 DEF Settle
<1>4. open' = open \ {c}
  BY DEF Settle
<1> QED  BY <1>3, <1>4, RowsSameFresh

-----------------------------------------------------------------------------
(* The invariant.  What a clear drops of its reservations before a write that
   fails (ClearsFail) is all that can spoil its second half. *)
Inv == CarryInv /\ (~ClearsFail => RowInv /\ WaitInv)

(* What the invariant says of the types, by variable. *)
LEMMA InvTypes ==
  ASSUME CarryInv
  PROVE  /\ ClaimTypes /\ open \in SUBSET Claims /\ reserved \in SUBSET Messages
         /\ ids \in [Claims -> SUBSET Messages] /\ deliveries \in [Claims -> Deliveries]
         /\ pendingRides \in Rides /\ launchRides \in Rides
         /\ startClaim \in Claims \cup {NoClaim}
         /\ taken \in [Messages -> Nat] /\ row \in [Messages -> Statuses]
BY DEF CarryInv, HeldTypeOK, ClaimTypes, Deliveries, Rides, Statuses

(* The rest of the types, once those of the claims are kept. *)
OtherTypes ==
  /\ done \in BOOLEAN /\ leaving \in BOOLEAN
  /\ starting \in {"no", "claimed"} \cup Sessions /\ startClaim \in Claims \cup {NoClaim}
  /\ pendingRides \in Rides /\ launchRides \in Rides
  /\ \A s \in Sessions \ ReportsStart : launchRides[s] = NoClaim
  /\ sess \in [Sessions -> {"none", "ended"} \cup Live]
  /\ shown \subseteq Sessions /\ recap \subseteq Sessions /\ flushDue \subseteq Sessions
  /\ prompt \in [Sessions -> SUBSET Messages]
  /\ taken \in [Messages -> Nat] /\ replayed \subseteq Messages

(* The type invariant, in the part about claims and the part about the rest. *)
LEMMA TypesSplit ==
  /\ HeldTypeOK <=> ClaimTypes /\ OtherTypes
  /\ HeldTypeOK' <=> ClaimTypes' /\ OtherTypes'
BY DEF HeldTypeOK, ClaimTypes, OtherTypes, Deliveries, Rides, Statuses

(* What rides keeps its rows when a claim is handed to a live agent. *)
LEMMA CarryStep ==
  ASSUME ids \in [Claims -> SUBSET Messages],
         NEW op \in SUBSET Claims, NEW d \in [Claims -> Deliveries], Handed(op, d),
         pendingRides' \in Rides, launchRides' \in Rides,
         CarryOK(op, startClaim', pendingRides', launchRides', d)
  PROVE  /\ CarryOK(open', startClaim', pendingRides', launchRides', deliveries')
         /\ \A s \in Sessions :
              /\ pendingRides'[s] # NoClaim => ids'[pendingRides'[s]] = ids[pendingRides'[s]]
              /\ launchRides'[s] # NoClaim => ids'[launchRides'[s]] = ids[launchRides'[s]]
<1>1. \A c \in op : ids'[c] = ids[c]
  BY HandedTypes
<1>2. \A s \in Sessions :
        /\ pendingRides'[s] # NoClaim => pendingRides'[s] \in op
        /\ launchRides'[s] # NoClaim => launchRides'[s] \in op
  BY DEF CarryOK, Rides
<1> QED  BY <1>1, <1>2, HandedCarries

(* A session after a step, with the rows that claims had before it. *)
SessionAfter(s) ==
  /\ pendingRides'[s] # NoClaim => sess'[s] = "queued"
  /\ sess'[s] = "queued" =>
       prompt'[s] = IF pendingRides'[s] # NoClaim THEN ids[pendingRides'[s]] ELSE {}
  /\ launchRides'[s] # NoClaim =>
       /\ sess'[s] \in {"running", "closing"} /\ s \in ReportsStart
       /\ prompt'[s] \in {{}, ids[launchRides'[s]]}
  /\ sess'[s] = "running" /\ s \in ReportsStart /\ s \notin shown' /\ launchRides'[s] = NoClaim
       => prompt'[s] = {}

(* A session nothing happened to. *)
LEMMA SessionSame ==
  ASSUME NEW s \in Sessions, SessionOK(s), sess'[s] = sess[s], prompt'[s] = prompt[s],
         pendingRides'[s] = pendingRides[s], launchRides'[s] = launchRides[s],
         s \in shown' <=> s \in shown
  PROVE  SessionAfter(s)
BY DEF SessionOK, SessionAfter, AgentStartPending

(* A step that leaves its carriers in order, and its sessions by the rows the
   claims had. *)
LEMMA CarryGlue ==
  ASSUME CarryInv, NEW op \in SUBSET open, NEW d \in [Claims -> Deliveries], Handed(op, d),
         CarryOK(op, startClaim', pendingRides', launchRides', d),
         ClaimTypes', OtherTypes', StartOK', \A s \in Sessions : SessionAfter(s)
  PROVE  CarryInv'
<1>0. op \in SUBSET Claims /\ ids \in [Claims -> SUBSET Messages]
  BY InvTypes
<1>1. pendingRides' \in Rides /\ launchRides' \in Rides
  BY DEF OtherTypes
<1>2. /\ CarryOK(open', startClaim', pendingRides', launchRides', deliveries')
      /\ \A s \in Sessions :
           /\ pendingRides'[s] # NoClaim => ids'[pendingRides'[s]] = ids[pendingRides'[s]]
           /\ launchRides'[s] # NoClaim => ids'[launchRides'[s]] = ids[launchRides'[s]]
  BY <1>0, <1>1, CarryStep
<1>3. ASSUME NEW s \in Sessions PROVE SessionOK(s)'
  BY <1>2 DEF SessionAfter, SessionOK, AgentStartPending
<1>4. \A c \in open' : ids'[c] # {}
  <2>1. \A c \in op : ids[c] # {}
    BY DEF CarryInv
  <2>2. ASSUME NEW n \in Claims \ op, NEW x \in (SUBSET Messages) \ {{}},
               open' = op \cup {n}, ids' = [ids EXCEPT ![n] = x]
        PROVE  \A c \in open' : ids'[c] # {}
    BY <1>0, <2>1, <2>2
  <2> QED  BY <2>1, <2>2 DEF Handed
<1> QED  BY <1>2, <1>3, <1>4, TypesSplit DEF CarryInv

(* Nothing waits after a flush, nor when what is given up is written down as
   missed by the agents that run. *)
LEMMA NoneWaitsNow ==
  ASSUME NoneWaits
  PROVE  WaitInv'
BY DEF NoneWaits, WaitInv, NothingWaitsOnALiveAgent, Receivers

(* A step after which no more agents are idle and no more rows wait. *)
LEMMA WaitKept ==
  ASSUME WaitInv, missed \subseteq missed',
         \A m \in Messages : row'[m] = "held" => row[m] = "held",
         \A s \in Sessions : sess'[s] = "running" /\ s \notin recap' \cup flushDue' =>
           sess[s] = "running" /\ s \notin recap \cup flushDue,
         \A m \in Messages, s \in Receivers :
           row'[m] = "held" /\ m \in reserved => m \in reserved' \/ <<m, s>> \in missed'
  PROVE  WaitInv'
BY DEF WaitInv, NothingWaitsOnALiveAgent, Receivers

(* After a release that flushes or not. *)
LEMMA ReleaseWaits ==
  ASSUME CarryInv, NEW c \in Claims, NEW flush \in BOOLEAN, NEW d \in [Claims -> Deliveries],
         Release(c, flush, d), WaitInv,
         \A s \in Sessions : sess'[s] = "running" /\ s \notin recap' \cup flushDue' =>
           sess[s] = "running" /\ s \notin recap \cup flushDue
  PROVE  WaitInv'
<1>1. /\ row' = row /\ missed \subseteq missed'
      /\ \/ NoneWaits
         \/ reserved' = reserved \ ids[c] /\ (ids[c] \X Receivers) \subseteq missed'
  BY ReleaseHands, InvTypes
<1>2. CASE reserved' = reserved \ ids[c] /\ (ids[c] \X Receivers) \subseteq missed'
  BY <1>1, <1>2, WaitKept
<1> QED  BY <1>1, <1>2, NoneWaitsNow

(* Settling a claim leaves no row waiting on a live agent. *)
LEMMA SettleWaits ==
  ASSUME CarryInv, NEW c \in Claims, NEW status \in {"delivered", "failed"}, Settle(c, status),
         deliveries' \in [Claims -> Deliveries], WaitInv,
         \A s \in Sessions : sess'[s] = "running" /\ s \notin recap' \cup flushDue' =>
           sess[s] = "running" /\ s \notin recap \cup flushDue
  PROVE  WaitInv'
<1>1. /\ missed' = missed
      /\ \A m \in Messages : row'[m] = "held" => row[m] = "held" /\ (m \in reserved => m \in reserved')
  BY SettleHands, InvTypes
<1> QED  BY <1>1, WaitKept

-----------------------------------------------------------------------------
(* The steps.  *)

(* What rides no launch, or the launch of a session that is as it was, is as
   fresh as before. *)
LEMMA HeardNow ==
  ASSUME RowInv,
         \A s \in Sessions : launchRides[s] # NoClaim =>
           (s \in shown' <=> s \in shown) /\ prompt'[s] = prompt[s]
  PROVE  RowsOK(row, reserved, open, ids, stuck, taken,
                FreshOnes(startClaim, pendingRides, launchRides, Heard', deliveries))
<1>1. \A s \in Sessions : launchRides[s] # NoClaim => (s \in Heard' <=> s \in Heard)
  BY DEF Heard
<1>2. FreshOnes(startClaim, pendingRides, launchRides, Heard', deliveries)
        = FreshOnes(startClaim, pendingRides, launchRides, Heard, deliveries)
  BY <1>1, HeldAssumption DEF FreshOnes, Fresh
<1> QED  BY <1>2 DEF RowInv

(* A message is held. *)
LEMMA HoldStep ==
  ASSUME Inv, NEW m \in Messages, HoldTaskMessage(m)
  PROVE  Inv'
<1>0. /\ ClaimTypes /\ open \in SUBSET Claims /\ reserved \in SUBSET Messages
      /\ ids \in [Claims -> SUBSET Messages] /\ deliveries \in [Claims -> Deliveries]
      /\ row \in [Messages -> Statuses]
  BY InvTypes DEF Inv
<1>1. /\ UNCHANGED <<done, leaving, starting, startClaim, pendingRides, launchRides, sess, shown,
                     recap, flushDue, prompt, taken, replayed, stuck, missed>>
      /\ row' = [row EXCEPT ![m] = "held"] /\ row[m] = "new"
      /\ FlushHeldIfLive(reserved, open, deliveries)
  BY DEF HoldTaskMessage, moveVars, rideVars, sessionVars
<1>2. Handed(open, deliveries) /\ NoneWaits /\ reserved' \subseteq Messages
  BY <1>0, <1>1, FlushHands
<1>3. ClaimTypes' /\ OtherTypes' /\ StartOK'
  <2>1. row' \in [Messages -> Statuses]
    BY <1>0, <1>1 DEF Statuses
  <2>2. ClaimTypes'
    BY <1>0, <1>1, <1>2, <2>1, HandedTypes DEF ClaimTypes
  <2> QED  BY <1>1, <2>2, TypesSplit DEF Inv, CarryInv, OtherTypes, StartOK
<1>4. CarryInv'
  <2>1. CarryOK(open, startClaim', pendingRides', launchRides', deliveries)
    BY <1>1 DEF Inv, CarryInv
  <2>2. \A s \in Sessions : SessionAfter(s)
    BY <1>1, SessionSame DEF Inv, CarryInv
  <2> QED  BY <1>0, <1>2, <1>3, <2>1, <2>2, CarryGlue DEF Inv
<1>5. RowInv => RowInv'
  <2> SUFFICES ASSUME RowInv PROVE RowInv'
    OBVIOUS
  <2>1. RowsOK(row', reserved, open, ids, stuck, taken,
               FreshOnes(startClaim, pendingRides, launchRides, Heard', deliveries))
    BY <1>0, <1>1, HeardNow, RowsHeld
  <2>2. CarryOK(open, startClaim, pendingRides, launchRides, deliveries)
    BY DEF Inv, CarryInv
  <2> QED  BY <1>0, <1>1, <2>1, <2>2, FlushKeepsRows DEF RowInv
<1> QED  BY <1>2, <1>4, <1>5, NoneWaitsNow DEF Inv

(* A flush timer fires. *)
LEMMA TimerStep ==
  ASSUME Inv, NEW s \in Sessions, FlushTimer(s)
  PROVE  Inv'
<1>0. /\ ClaimTypes /\ open \in SUBSET Claims /\ reserved \in SUBSET Messages
      /\ ids \in [Claims -> SUBSET Messages] /\ deliveries \in [Claims -> Deliveries]
  BY InvTypes DEF Inv
<1>1. /\ UNCHANGED <<row, done, leaving, starting, startClaim, pendingRides, launchRides, sess,
                     shown, recap, prompt, taken, replayed, stuck, missed>>
      /\ flushDue' = flushDue \ {s} /\ FlushHeldIfLive(reserved, open, deliveries)
  BY DEF FlushTimer, moveVars, rideVars
<1>2. Handed(open, deliveries) /\ NoneWaits /\ reserved' \subseteq Messages
  BY <1>0, <1>1, FlushHands
<1>3. ClaimTypes' /\ OtherTypes' /\ StartOK'
  <2>1. ClaimTypes'
    BY <1>0, <1>1, <1>2, HandedTypes DEF ClaimTypes
  <2> QED  BY <1>1, <2>1, TypesSplit DEF Inv, CarryInv, OtherTypes, StartOK
<1>4. CarryInv'
  <2>1. CarryOK(open, startClaim', pendingRides', launchRides', deliveries)
    BY <1>1 DEF Inv, CarryInv
  <2>2. \A t \in Sessions : SessionAfter(t)
    BY <1>1, SessionSame DEF Inv, CarryInv
  <2> QED  BY <1>0, <1>2, <1>3, <2>1, <2>2, CarryGlue DEF Inv
<1>5. RowInv => RowInv'
  BY <1>0, <1>1, HeardNow, FlushKeepsRows DEF RowInv, Inv, CarryInv
<1> QED  BY <1>2, <1>4, <1>5, NoneWaitsNow DEF Inv

(* A move to Done or To Do clears what is held. *)
LEMMA ClearStep ==
  ASSUME Inv, MoveAndClear
  PROVE  Inv'
<1>0. ClaimTypes /\ row \in [Messages -> Statuses] /\ OtherTypes
  BY InvTypes, TypesSplit DEF Inv, CarryInv
<1>1. /\ UNCHANGED <<open, ids, starting, startClaim, pendingRides, launchRides, deliveries, sess,
                     shown, recap, flushDue, prompt, taken, replayed, stuck, missed>>
      /\ done' \in BOOLEAN /\ leaving' = FALSE /\ reserved' = {}
      /\ \/ row' = [m \in Messages |-> IF row[m] = "held" THEN "cleared" ELSE row[m]]
         \/ ClearsFail /\ row' = row
  BY DEF MoveAndClear, ClearHeldMessages, rideVars, sessionVars
<1>2. ClaimTypes' /\ OtherTypes' /\ StartOK'
  <2>1. row' \in [Messages -> Statuses]
    BY <1>0, <1>1 DEF Statuses
  <2> QED  BY <1>0, <1>1, <2>1 DEF ClaimTypes, OtherTypes, StartOK, Inv, CarryInv
<1>3. CarryInv'
  BY <1>1, <1>2, TypesSplit DEF Inv, CarryInv, SessionOK, AgentStartPending
<1>4. ASSUME ~ClearsFail PROVE RowInv' /\ WaitInv'
  <2>1. \A m \in Messages : row'[m] = IF row[m] = "held" THEN "cleared" ELSE row[m]
    BY <1>1, <1>4
  <2>2. RowsOK(row', {}, open, ids, stuck, taken,
               FreshOnes(startClaim, pendingRides, launchRides, Heard', deliveries))
    BY <1>0, <1>1, <1>4, <2>1, HeardNow, RowsCleared DEF Inv
  <2>3. WaitInv'
    BY <2>1 DEF WaitInv, NothingWaitsOnALiveAgent
  <2> QED  BY <1>1, <2>2, <2>3 DEF RowInv
<1> QED  BY <1>3, <1>4 DEF Inv

(* A move out of Done, its end, and a PTY that is sealed touch no claim. *)
LEMMA IdleStep ==
  ASSUME Inv, \/ MoveOutOfDone \/ MoveEnds \/ UNCHANGED vars
              \/ \E s \in Sessions : Closing(s)
  PROVE  Inv'
<1>0. ClaimTypes /\ OtherTypes
  BY InvTypes, TypesSplit DEF Inv, CarryInv
<1>1. /\ UNCHANGED <<row, reserved, open, ids, deliveries, stuck, missed, starting, startClaim,
                     pendingRides, launchRides, shown, recap, flushDue, prompt, taken, replayed>>
      /\ done' \in BOOLEAN /\ leaving' \in BOOLEAN
      /\ \/ sess' = sess
         \/ \E s \in Sessions : sess[s] = "running" /\ sess' = [sess EXCEPT ![s] = "closing"]
  BY <1>0 DEF MoveOutOfDone, MoveEnds, Closing, vars, claimVars, rideVars, sessionVars, moveVars,
              OtherTypes
<1>2. ClaimTypes' /\ OtherTypes' /\ StartOK'
  BY <1>0, <1>1 DEF ClaimTypes, OtherTypes, StartOK, Inv, CarryInv, Live
<1>3. CarryInv'
  <2>1. CarryOK(open, startClaim, pendingRides, launchRides, deliveries)'
    BY <1>1 DEF Inv, CarryInv
  <2>2. ASSUME NEW s \in Sessions PROVE SessionOK(s)'
    BY <1>0, <1>1 DEF Inv, CarryInv, SessionOK, AgentStartPending, OtherTypes
  <2>3. \A c \in open' : ids'[c] # {}
    BY <1>1 DEF Inv, CarryInv
  <2> QED  BY <1>2, <2>1, <2>2, <2>3, TypesSplit DEF CarryInv
<1>4. RowInv => RowInv'
  BY <1>1, HeardNow DEF RowInv
<1>5. WaitInv => WaitInv'
  BY <1>0, <1>1 DEF WaitInv, NothingWaitsOnALiveAgent, OtherTypes
<1> QED  BY <1>3, <1>4, <1>5 DEF Inv

(* A start claims what is held. *)
LEMMA BeginStep ==
  ASSUME Inv, BeginStart
  PROVE  Inv'
<1>0. /\ ClaimTypes /\ OtherTypes /\ open \in SUBSET Claims /\ reserved \in SUBSET Messages
      /\ ids \in [Claims -> SUBSET Messages] /\ startClaim = NoClaim
      /\ CarryOK(open, startClaim, pendingRides, launchRides, deliveries)
  BY InvTypes, TypesSplit DEF Inv, CarryInv, StartOK, BeginStart
<1>1. /\ UNCHANGED <<row, done, leaving, pendingRides, launchRides, deliveries, sess, shown, recap,
                     flushDue, prompt, taken, replayed, stuck, missed>>
      /\ starting' = "claimed" /\ \A s \in Sessions : sess[s] \notin Live
  BY DEF BeginStart, moveVars, rideVars, sessionVars
<1>2. WaitInv'
  BY <1>1 DEF WaitInv, NothingWaitsOnALiveAgent, Live
<1>3. CASE startClaim' = NoClaim /\ UNCHANGED <<reserved, open, ids>>
  <2>1. ClaimTypes' /\ OtherTypes' /\ StartOK'
    BY <1>0, <1>1, <1>3, HeldAssumption DEF ClaimTypes, OtherTypes, StartOK
  <2>2. CarryInv'
    BY <1>0, <1>1, <1>3, <2>1, TypesSplit DEF Inv, CarryInv, SessionOK, AgentStartPending
  <2>3. RowInv => RowInv'
    BY <1>0, <1>1, <1>3, HeardNow DEF RowInv
  <2> QED  BY <1>2, <2>2, <2>3 DEF Inv
<1>4. ASSUME NEW c \in Claims, startClaim' = c, Claim(c, reserved, open),
             Claimable(reserved) # {}
      PROVE  Inv'
  <2>1. /\ c \notin open /\ open' = open \cup {c} /\ ids' = [ids EXCEPT ![c] = Claimable(reserved)]
        /\ reserved' = reserved \cup Claimable(reserved)
        /\ Claimable(reserved) = {m \in Messages : row[m] = "held"} \ reserved
    BY <1>1, <1>4 DEF Claim, Claimable
  <2> DEFINE before == FreshOnes(startClaim, pendingRides, launchRides, Heard', deliveries)
             after == FreshOnes(c, pendingRides, launchRides, Heard', deliveries)
  <2>2. /\ CarryOK(open', c, pendingRides, launchRides, deliveries)
        /\ c \in after /\ \A e \in open : e \in after <=> e \in before
    <3>1. /\ CarryOK(open \cup {c}, c, pendingRides, launchRides, deliveries)
          /\ \A e \in Claims \ {c} :
               Fresh(e, c, pendingRides, launchRides, Heard', deliveries)
                 <=> Fresh(e, NoClaim, pendingRides, launchRides, Heard', deliveries)
          /\ Fresh(c, c, pendingRides, launchRides, Heard', deliveries)
      BY <1>0, <2>1, NewStart
    <3> QED  BY <1>0, <2>1, <3>1 DEF FreshOnes
  <2> HIDE DEF before, after
  <2>3. ClaimTypes' /\ OtherTypes' /\ StartOK'
    BY <1>0, <1>1, <1>4, <2>1, HeldAssumption DEF ClaimTypes, OtherTypes, StartOK
  <2>4. ASSUME NEW s \in Sessions PROVE SessionOK(s)'
    <3>1. /\ pendingRides[s] # NoClaim => pendingRides[s] \in open
          /\ launchRides[s] # NoClaim => launchRides[s] \in open
      BY <1>0 DEF CarryOK, OtherTypes, Rides
    <3>2. \A e \in open : ids'[e] = ids[e]
      BY <1>0, <2>1
    <3> QED  BY <1>1, <3>1, <3>2 DEF Inv, CarryInv, SessionOK, AgentStartPending
  <2>5. CarryInv'
    <3>1. \A e \in open' : ids'[e] # {}
      BY <1>0, <1>4, <2>1 DEF Inv, CarryInv
    <3> QED  BY <1>1, <1>4, <2>2, <2>3, <2>4, <3>1, TypesSplit DEF CarryInv
  <2>6. RowInv => RowInv'
    <3> SUFFICES ASSUME RowInv PROVE RowInv'
      OBVIOUS
    <3>1. RowsOK(row, reserved, open, ids, stuck, taken, after)
      BY <1>1, <2>2, HeardNow, RowsSameFresh DEF before
    <3>2. RowsOK(row, reserved', open', ids', stuck, taken, after)
      BY <1>0, <2>1, <2>2, <3>1, RowsClaimed
    <3> QED  BY <1>1, <1>4, <3>2 DEF RowInv, after
  <2> QED  BY <1>2, <2>5, <2>6 DEF Inv
<1> QED  BY <1>3, <1>4 DEF BeginStart

-----------------------------------------------------------------------------
(* The steps that end or move a carrier.  What is common to them: the sessions
   that run without a flush timer ran so before, and what an agent takes in is
   counted before the claim is given up. *)
SameRunners ==
  \A s \in Sessions : sess'[s] = "running" /\ s \notin recap' \cup flushDue' =>
    sess[s] = "running" /\ s \notin recap \cup flushDue

After(d) == FreshOnes(startClaim', pendingRides', launchRides', Heard', d)

(* A step that releases c, whose rows are free by then. *)
LEMMA GiveUpStep ==
  ASSUME Inv, NEW c \in open, NEW flush \in BOOLEAN, NEW d \in [Claims -> Deliveries],
         Release(c, flush, d),
         CarryOK(open \ {c}, startClaim', pendingRides', launchRides', d),
         OtherTypes', StartOK', \A s \in Sessions : SessionAfter(s), SameRunners,
         NEW fresh, \A e \in open \ {c} : e \in fresh <=> e \in After(d),
         RowInv => RowsOK(row, reserved \ ids[c], open \ {c}, ids, stuck, taken', fresh)
  PROVE  Inv'
<1>0. ClaimTypes /\ open \in SUBSET Claims /\ CarryInv
  BY InvTypes DEF Inv
<1>1. Handed(open \ {c}, d) /\ ClaimTypes'
  BY <1>0, ReleaseHands
<1>2. open \ {c} \in SUBSET open
  BY <1>0
<1>3. CarryInv'
  BY <1>0, <1>1, <1>2, CarryGlue
<1>4. RowInv => RowInv'
  BY <1>0, ReleaseKeepsRows DEF RowInv, After
<1>5. WaitInv => WaitInv'
  BY <1>0, ReleaseWaits DEF SameRunners
<1> QED  BY <1>3, <1>4, <1>5 DEF Inv

(* They are when nobody has taken in what it carries. *)
LEMMA ReleaseStep ==
  ASSUME Inv, NEW c \in open, NEW flush \in BOOLEAN, NEW d \in [Claims -> Deliveries],
         Release(c, flush, d),
         CarryOK(open \ {c}, startClaim', pendingRides', launchRides', d),
         OtherTypes', StartOK', \A s \in Sessions : SessionAfter(s), SameRunners,
         NEW fresh, c \in fresh, \A e \in open \ {c} : e \in fresh <=> e \in After(d),
         RowInv => RowsOK(row, reserved, open, ids, stuck, taken', fresh)
  PROVE  Inv'
<1>1. RowInv => RowsOK(row, reserved \ ids[c], open \ {c}, ids, stuck, taken', fresh)
  BY RowsReleased
<1> QED  BY <1>1, GiveUpStep

(* A step that settles c. *)
LEMMA SettleStep ==
  ASSUME Inv, NEW c \in open, NEW status \in {"delivered", "failed"}, Settle(c, status),
         deliveries' \in [Claims -> Deliveries],
         CarryOK(open \ {c}, startClaim', pendingRides', launchRides', deliveries'),
         OtherTypes', StartOK', \A s \in Sessions : SessionAfter(s), SameRunners,
         NEW fresh, \A e \in open \ {c} : e \in fresh <=> e \in After(deliveries'),
         RowInv => RowsOK(row, reserved, open, ids, stuck, taken', fresh)
  PROVE  Inv'
<1>0. ClaimTypes /\ open \in SUBSET Claims /\ CarryInv
  BY InvTypes DEF Inv
<1>1. Handed(open \ {c}, deliveries') /\ ClaimTypes'
  BY <1>0, SettleHands
<1>2. open \ {c} \in SUBSET open
  BY <1>0
<1>3. CarryInv'
  BY <1>0, <1>1, <1>2, CarryGlue
<1>4. RowInv => RowInv'
  BY <1>0, SettleKeepsRows DEF RowInv, After
<1>5. WaitInv => WaitInv'
  BY <1>0, SettleWaits DEF SameRunners
<1> QED  BY <1>3, <1>4, <1>5 DEF Inv

(* A step that moves a carrier, and leaves the claims as they were. *)
LEMMA MoveStep ==
  ASSUME Inv, UNCHANGED <<row, reserved, open, ids, stuck, missed>>,
         deliveries' \in [Claims -> Deliveries],
         CarryOK(open, startClaim', pendingRides', launchRides', deliveries'),
         OtherTypes', StartOK', \A s \in Sessions : SessionAfter(s), SameRunners,
         RowInv => RowsOK(row, reserved, open, ids, stuck, taken', After(deliveries'))
  PROVE  Inv'
<1>0. ClaimTypes /\ open \in SUBSET Claims /\ CarryInv
  BY InvTypes DEF Inv
<1>1. Handed(open, deliveries') /\ ClaimTypes' /\ open \in SUBSET open
  BY <1>0 DEF Handed, ClaimTypes
<1>3. CarryInv'
  BY <1>0, <1>1, CarryGlue
<1>4. RowInv => RowInv'
  BY DEF RowInv, After
<1>5. WaitInv => WaitInv'
  BY WaitKept DEF SameRunners, Receivers
<1> QED  BY <1>3, <1>4, <1>5 DEF Inv

(* What the steps below read of the invariant. *)
LEMMA InvFacts ==
  ASSUME Inv
  PROVE  /\ ClaimTypes /\ OtherTypes /\ StartOK
         /\ CarryOK(open, startClaim, pendingRides, launchRides, deliveries)
         /\ \A s \in Sessions : SessionOK(s)
         /\ deliveries \in [Claims -> Deliveries] /\ open \in SUBSET Claims
         /\ ids \in [Claims -> SUBSET Messages]
BY InvTypes, TypesSplit DEF Inv, CarryInv

(* The start's claim goes back: it spawned nothing, or nothing carried it. *)
LEMMA StartGivesUp ==
  ASSUME Inv, startClaim # NoClaim, NEW flush \in BOOLEAN, Release(startClaim, flush, deliveries),
         starting' = "no", startClaim' = NoClaim,
         UNCHANGED <<done, leaving, pendingRides, launchRides, sess, shown, recap, flushDue,
                     prompt, taken, replayed>>
  PROVE  Inv'
<1>0. /\ ClaimTypes /\ OtherTypes /\ StartOK /\ \A s \in Sessions : SessionOK(s)
      /\ CarryOK(open, startClaim, pendingRides, launchRides, deliveries)
      /\ deliveries \in [Claims -> Deliveries] /\ startClaim \in Claims
  BY InvFacts DEF OtherTypes
<1> DEFINE c == startClaim
           before == FreshOnes(startClaim, pendingRides, launchRides, Heard', deliveries)
<1>1. /\ CarryOK(open \ {c}, startClaim', pendingRides', launchRides', deliveries)
      /\ c \in open /\ c \in before
      /\ \A e \in open \ {c} : e \in before <=> e \in After(deliveries)
  <2>1. /\ CarryOK(open \ {c}, NoClaim, pendingRides, launchRides, deliveries)
        /\ \A e \in Claims \ {c} :
             Fresh(e, NoClaim, pendingRides, launchRides, Heard', deliveries)
               <=> Fresh(e, c, pendingRides, launchRides, Heard', deliveries)
        /\ Fresh(c, c, pendingRides, launchRides, Heard', deliveries) /\ c \in open
    BY <1>0, DropStart
  <2> QED  BY <1>0, <2>1 DEF FreshOnes, After
<1>2. OtherTypes' /\ StartOK' /\ SameRunners
  BY <1>0, HeldAssumption DEF OtherTypes, StartOK, SameRunners
<1>3. \A s \in Sessions : SessionAfter(s)
  BY <1>0, SessionSame
<1>4. RowInv => RowsOK(row, reserved, open, ids, stuck, taken', before)
  BY HeardNow
<1> HIDE DEF before
<1> QED  BY <1>0, <1>1, <1>2, <1>3, <1>4, ReleaseStep

(* A start that fails, or ends before its session does, gives its claim up. *)
LEMMA FailStep ==
  ASSUME Inv, StartFails \/ StartEnds
  PROVE  Inv'
<1>1. /\ starting' = "no" /\ startClaim' = NoClaim
      /\ UNCHANGED <<done, leaving, pendingRides, launchRides, sess, shown, recap, flushDue,
                     prompt, taken, replayed>>
      /\ \/ /\ startClaim # NoClaim
            /\ \E flush \in BOOLEAN : Release(startClaim, flush, deliveries)
         \/ startClaim = NoClaim /\ UNCHANGED claimVars
  BY InvFacts DEF StartFails, StartEnds, moveVars, rideVars, sessionVars, StartOK
<1>2. CASE startClaim = NoClaim /\ UNCHANGED claimVars
  <2>1. ClaimTypes' /\ OtherTypes' /\ StartOK'
    BY <1>1, <1>2, InvFacts, HeldAssumption DEF ClaimTypes, OtherTypes, StartOK, claimVars
  <2>2. CarryInv'
    BY <1>1, <1>2, <2>1, InvFacts, TypesSplit
       DEF Inv, CarryInv, SessionOK, AgentStartPending, claimVars
  <2>3. RowInv => RowInv'
    BY <1>1, <1>2, HeardNow DEF RowInv, claimVars
  <2>4. WaitInv => WaitInv'
    BY <1>1, <1>2 DEF WaitInv, NothingWaitsOnALiveAgent, claimVars
  <2> QED  BY <2>2, <2>3, <2>4 DEF Inv
<1> QED  BY <1>1, <1>2, StartGivesUp

(* The start's claim goes on to a paste, a burst or a typed opening. *)
LEMMA SendStep ==
  ASSUME Inv, StartSends \/ \E kind \in {"awaited", "deferred"} : StartOpens(kind)
  PROVE  Inv'
<1>0. /\ ClaimTypes /\ OtherTypes /\ StartOK /\ \A s \in Sessions : SessionOK(s)
      /\ CarryOK(open, startClaim, pendingRides, launchRides, deliveries)
      /\ deliveries \in [Claims -> Deliveries] /\ open \in SUBSET Claims
  BY InvFacts
<1>1. /\ UNCHANGED <<row, reserved, open, ids, stuck, missed, done, leaving, pendingRides,
                     launchRides, sess, shown, recap, flushDue, prompt, taken, replayed>>
      /\ starting' = "no" /\ startClaim' = NoClaim /\ starting \in Sessions
      /\ startClaim \in Claims
  BY <1>0 DEF StartSends, StartOpens, moveVars, rideVars, sessionVars, StartOK, OtherTypes
<1> DEFINE sent(x) == deliveries' = [deliveries EXCEPT ![startClaim] = x]
<1>x. PICK x \in Deliveries : sent(x) /\ x.stage = "waiting"
  <2>1. CASE StartSends
    <3>1. /\ Delivery(starting, TRUE) \in Deliveries /\ Delivery(starting, TRUE).stage = "waiting"
          /\ sent(Delivery(starting, TRUE))
      BY <1>1, <2>1 DEF StartSends, Delivery, Deliveries
    <3> HIDE DEF sent
    <3> QED  BY <3>1
  <2>2. ASSUME NEW kind \in {"awaited", "deferred"}, StartOpens(kind)
        PROVE  \E x \in Deliveries : sent(x) /\ x.stage = "waiting"
    <3>1. /\ Opening(starting, kind) \in Deliveries /\ Opening(starting, kind).stage = "waiting"
          /\ sent(Opening(starting, kind))
      BY <1>1, <2>2 DEF StartOpens, Opening, Deliveries
    <3> HIDE DEF sent
    <3> QED  BY <3>1
  <2> QED  BY <2>1, <2>2
<1>2. deliveries' \in [Claims -> Deliveries]
  BY <1>0, <1>1, <1>x
<1>3. /\ CarryOK(open, startClaim', pendingRides', launchRides', deliveries')
      /\ \A e \in open :
           /\ e \in FreshOnes(startClaim, pendingRides, launchRides, Heard', deliveries)
           <=> e \in After(deliveries')
  BY <1>0, <1>1, <1>x, StartToDelivery DEF FreshOnes, After
<1> HIDE DEF sent
<1>4. OtherTypes' /\ StartOK' /\ SameRunners
  BY <1>0, <1>1, HeldAssumption DEF OtherTypes, StartOK, SameRunners
<1>5. \A s \in Sessions : SessionAfter(s)
  BY <1>0, <1>1, SessionSame
<1>6. RowInv => RowsOK(row, reserved, open, ids, stuck, taken', After(deliveries'))
  <2> SUFFICES ASSUME RowInv
               PROVE  RowsOK(row, reserved, open, ids, stuck, taken', After(deliveries'))
    OBVIOUS
  <2>1. RowsOK(row, reserved, open, ids, stuck, taken,
               FreshOnes(startClaim, pendingRides, launchRides, Heard', deliveries))
    BY <1>1, HeardNow
  <2> QED  BY <1>1, <1>3, <2>1, RowsSameFresh
<1> QED  BY <1>1, <1>2, <1>3, <1>4, <1>5, <1>6, MoveStep

(* A session's row reads status, and its command line carries line. *)
LEMMA SpawnFacts ==
  ASSUME OtherTypes, NEW s \in Sessions, NEW status \in {"queued", "running", "ended"},
         NEW line \in SUBSET Messages, Spawned(s, status, line), recap \subseteq recap'
  PROVE  /\ sess' \in [Sessions -> {"none", "ended"} \cup Live]
         /\ prompt' \in [Sessions -> SUBSET Messages] /\ flushDue' \subseteq Sessions
         /\ taken' \in [Messages -> Nat]
         /\ sess'[s] = status /\ prompt'[s] = line
         /\ \A t \in Sessions \ {s} : sess'[t] = sess[t] /\ prompt'[t] = prompt[t]
         /\ SameRunners
         /\ status # "running" \/ AgentStartPending(s) \/ line = {} => taken' = taken
         /\ status = "running" /\ ~AgentStartPending(s) =>
              \A m \in Messages : taken'[m] = IF m \in line THEN taken[m] + 1 ELSE taken[m]
<1>1. /\ sess' = [sess EXCEPT ![s] = status] /\ prompt' = [prompt EXCEPT ![s] = line]
      /\ flushDue' = IF status = "running" THEN flushDue \cup {s} ELSE flushDue
      /\ taken' = IF status = "running" /\ ~AgentStartPending(s)
                  THEN [m \in Messages |-> IF m \in line THEN taken[m] + 1 ELSE taken[m]]
                  ELSE taken
  BY DEF Spawned
<1>2. /\ sess' \in [Sessions -> {"none", "ended"} \cup Live]
      /\ prompt' \in [Sessions -> SUBSET Messages] /\ flushDue' \subseteq Sessions
      /\ sess'[s] = status /\ prompt'[s] = line
      /\ \A t \in Sessions \ {s} : sess'[t] = sess[t] /\ prompt'[t] = prompt[t]
  BY <1>1 DEF OtherTypes, Live
<1>3. taken' \in [Messages -> Nat]
  BY <1>1 DEF OtherTypes
<1>4. SameRunners
  <2> SUFFICES ASSUME NEW t \in Sessions, sess'[t] = "running", t \notin recap' \cup flushDue'
               PROVE  sess[t] = "running" /\ t \notin recap \cup flushDue
    BY DEF SameRunners
  <2>1. flushDue \subseteq flushDue' /\ (status = "running" => s \in flushDue')
    BY <1>1
  <2>2. t # s
    BY <1>2, <2>1
  <2> QED  BY <1>2, <2>1, <2>2
<1>5. line = {} => taken' = taken
  <2> SUFFICES ASSUME line = {} PROVE taken' = taken
    OBVIOUS
  <2>1. [m \in Messages |-> IF m \in line THEN taken[m] + 1 ELSE taken[m]] = taken
    BY DEF OtherTypes
  <2> QED  BY <1>1, <2>1
<1>6. status = "running" /\ ~AgentStartPending(s) =>
        \A m \in Messages : taken'[m] = IF m \in line THEN taken[m] + 1 ELSE taken[m]
  BY <1>1
<1> QED  BY <1>1, <1>2, <1>3, <1>4, <1>5, <1>6

(* The claim rides the command line of the session the start spawned. *)
LEMMA RideStep ==
  ASSUME Inv, NEW s \in Sessions, NEW status \in {"queued", "running", "ended"},
         StartRides(s, status)
  PROVE  Inv'
<1> DEFINE c == startClaim
           before == FreshOnes(startClaim, pendingRides, launchRides, Heard', deliveries)
<1>0. /\ ClaimTypes /\ OtherTypes /\ StartOK /\ \A t \in Sessions : SessionOK(t)
      /\ CarryOK(open, startClaim, pendingRides, launchRides, deliveries)
      /\ deliveries \in [Claims -> Deliveries] /\ ids \in [Claims -> SUBSET Messages]
      /\ pendingRides \in Rides /\ launchRides \in Rides /\ taken \in [Messages -> Nat]
  BY InvFacts DEF OtherTypes
<1>1. /\ starting' = "no" /\ startClaim' = NoClaim /\ c \in Claims /\ c # NoClaim
      /\ sess[s] = "none" /\ pendingRides[s] = NoClaim /\ launchRides[s] = NoClaim
      /\ Spawned(s, status, ids[c]) /\ ids[c] \in SUBSET Messages
      /\ UNCHANGED <<done, leaving, shown, recap, replayed>>
      /\ CommitWhenSessionRuns(c, s, status, deliveries)
      /\ ids[c] # {}
  <2>1. /\ startClaim # NoClaim /\ sess[s] = "none"
        /\ starting' = "no" /\ startClaim' = NoClaim
        /\ Spawned(s, status, ids[startClaim])
        /\ UNCHANGED <<done, leaving, shown, recap, replayed>>
        /\ CommitWhenSessionRuns(startClaim, s, status, deliveries)
    BY DEF StartRides, moveVars
  <2>2. c \in Claims /\ pendingRides[s] = NoClaim /\ launchRides[s] = NoClaim
    BY <1>0, <2>1 DEF OtherTypes, SessionOK
  <2>3. c \in open
    BY <1>0, <2>1, <2>2, DropStart
  <2>4. ids[c] # {}
    BY <2>3 DEF Inv, CarryInv
  <2> QED  BY <1>0, <2>1, <2>2, <2>4
<1>2. /\ sess' \in [Sessions -> {"none", "ended"} \cup Live]
      /\ prompt' \in [Sessions -> SUBSET Messages] /\ flushDue' \subseteq Sessions
      /\ taken' \in [Messages -> Nat]
      /\ sess'[s] = status /\ prompt'[s] = ids[c]
      /\ \A t \in Sessions \ {s} : sess'[t] = sess[t] /\ prompt'[t] = prompt[t]
      /\ SameRunners
      /\ status # "running" \/ AgentStartPending(s) => taken' = taken
      /\ status = "running" /\ ~AgentStartPending(s) =>
           \A m \in Messages : taken'[m] = IF m \in ids[c] THEN taken[m] + 1 ELSE taken[m]
  BY <1>0, <1>1, SpawnFacts
<1>h. RowInv => RowsOK(row, reserved, open, ids, stuck, taken, before)
  <2>1. \A t \in Sessions : launchRides[t] # NoClaim =>
          (t \in shown' <=> t \in shown) /\ prompt'[t] = prompt[t]
    BY <1>1, <1>2
  <2> QED  BY <2>1, HeardNow
<1>3. StartOK'
  BY <1>1, HeldAssumption DEF StartOK
<1>4. ASSUME pendingRides' \in Rides, launchRides' \in Rides,
             \A t \in Sessions \ ReportsStart : launchRides'[t] = NoClaim
      PROVE  OtherTypes'
  BY <1>0, <1>1, <1>2, <1>4 DEF OtherTypes
<1>5. ASSUME \A t \in Sessions \ {s} : /\ pendingRides'[t] = pendingRides[t]
                                       /\ launchRides'[t] = launchRides[t]
      PROVE  \A t \in Sessions \ {s} : SessionAfter(t)
  BY <1>0, <1>1, <1>2, <1>5, SessionSame
<1>6. CASE status = "queued"
  <2>1. pendingRides' = [pendingRides EXCEPT ![s] = c] /\ launchRides' = launchRides
        /\ UNCHANGED <<row, reserved, open, ids, deliveries, stuck, missed>>
    BY <1>1, <1>6 DEF CommitWhenSessionRuns
  <2>2. /\ CarryOK(open, startClaim', pendingRides', launchRides', deliveries')
        /\ \A e \in open : e \in before <=> e \in After(deliveries')
    BY <1>0, <1>1, <2>1, StartToPending DEF FreshOnes, After
  <2>3. OtherTypes'
    BY <1>0, <1>1, <1>4, <2>1 DEF Rides, OtherTypes
  <2>4. SessionAfter(s)
    BY <1>0, <1>1, <1>2, <1>6, <2>1 DEF SessionAfter, Rides
  <2>5. \A t \in Sessions : SessionAfter(t)
    BY <1>0, <1>5, <2>1, <2>4 DEF Rides
  <2>6. RowInv => RowsOK(row, reserved, open, ids, stuck, taken', After(deliveries'))
    <3> HIDE DEF before
    <3> QED  BY <1>2, <1>6, <1>h, <2>2, RowsSameFresh
  <2> QED  BY <1>0, <1>2, <1>3, <2>1, <2>2, <2>3, <2>5, <2>6, MoveStep
<1>7. CASE status = "running" /\ AgentStartPending(s)
  <2>1. pendingRides' = pendingRides /\ launchRides' = [launchRides EXCEPT ![s] = c]
        /\ UNCHANGED <<row, reserved, open, ids, deliveries, stuck, missed>>
    BY <1>1, <1>7 DEF CommitWhenSessionRuns, CommitOnceAgentStarts
  <2>2. /\ CarryOK(open, startClaim', pendingRides', launchRides', deliveries')
        /\ \A e \in open : e \in before <=> e \in After(deliveries')
    <3>1. s \notin Heard'
      BY <1>1, <1>2, <1>7 DEF AgentStartPending, Heard
    <3> QED  BY <1>0, <1>1, <2>1, <3>1, StartToLaunch DEF FreshOnes, After
  <2>3. OtherTypes'
    BY <1>0, <1>1, <1>4, <1>7, <2>1 DEF Rides, OtherTypes, AgentStartPending
  <2>4. SessionAfter(s)
    BY <1>0, <1>1, <1>2, <1>7, <2>1 DEF SessionAfter, Rides, AgentStartPending
  <2>5. \A t \in Sessions : SessionAfter(t)
    BY <1>0, <1>5, <2>1, <2>4 DEF Rides
  <2>6. RowInv => RowsOK(row, reserved, open, ids, stuck, taken', After(deliveries'))
    <3> HIDE DEF before
    <3> QED  BY <1>2, <1>7, <1>h, <2>2, RowsSameFresh
  <2> QED  BY <1>0, <1>2, <1>3, <2>1, <2>2, <2>3, <2>5, <2>6, MoveStep
<1>8. CASE status = "running" /\ ~AgentStartPending(s)
  <2>1. /\ UNCHANGED <<pendingRides, launchRides, deliveries>> /\ Settle(c, "delivered")
    BY <1>1, <1>8 DEF CommitWhenSessionRuns, CommitOnceAgentStarts
  <2>2. /\ CarryOK(open \ {c}, startClaim', pendingRides', launchRides', deliveries')
        /\ c \in open /\ c \in before
        /\ \A e \in open \ {c} : e \in before \ {c} <=> e \in After(deliveries')
    <3>1. /\ CarryOK(open \ {c}, NoClaim, pendingRides, launchRides, deliveries)
          /\ \A e \in Claims \ {c} :
               Fresh(e, NoClaim, pendingRides, launchRides, Heard', deliveries)
                 <=> Fresh(e, c, pendingRides, launchRides, Heard', deliveries)
          /\ Fresh(c, c, pendingRides, launchRides, Heard', deliveries) /\ c \in open
      BY <1>0, <1>1, DropStart
    <3> QED  BY <1>0, <1>1, <2>1, <3>1 DEF FreshOnes, After, ClaimTypes
  <2>3. OtherTypes'
    BY <1>0, <1>4, <2>1 DEF OtherTypes
  <2>4. SessionAfter(s)
    BY <1>0, <1>1, <1>2, <1>8, <2>1 DEF SessionAfter, AgentStartPending
  <2>5. \A t \in Sessions : SessionAfter(t)
    BY <1>5, <2>1, <2>4
  <2>6. RowInv => RowsOK(row, reserved, open, ids, stuck, taken', before \ {c})
    <3> HIDE DEF before
    <3> SUFFICES ASSUME RowsOK(row, reserved, open, ids, stuck, taken, before)
                 PROVE  RowsOK(row, reserved, open, ids, stuck, taken', before \ {c})
      BY <1>h
    <3> QED  BY <1>0, <1>2, <1>8, <2>2, RowsTaken
  <2> HIDE DEF before
  <2> DEFINE fresh == before \ {c}
  <2>7. \A e \in open \ {c} : e \in fresh <=> e \in After(deliveries')
    BY <2>2
  <2>8. deliveries' \in [Claims -> Deliveries]
    BY <1>0, <2>1
  <2>9. RowInv => RowsOK(row, reserved, open, ids, stuck, taken', fresh)
    BY <2>6
  <2> HIDE DEF fresh
  <2> QED  BY <1>2, <1>3, <2>1, <2>2, <2>3, <2>5, <2>7, <2>8, <2>9, SettleStep
<1>9. CASE status = "ended"
  <2>1. UNCHANGED <<pendingRides, launchRides>> /\ Release(c, TRUE, deliveries)
    BY <1>1, <1>9 DEF CommitWhenSessionRuns, rideVars
  <2>2. /\ CarryOK(open \ {c}, startClaim', pendingRides', launchRides', deliveries)
        /\ c \in open /\ c \in before
        /\ \A e \in open \ {c} : e \in before <=> e \in After(deliveries)
    <3>1. /\ CarryOK(open \ {c}, NoClaim, pendingRides, launchRides, deliveries)
          /\ \A e \in Claims \ {c} :
               Fresh(e, NoClaim, pendingRides, launchRides, Heard', deliveries)
                 <=> Fresh(e, c, pendingRides, launchRides, Heard', deliveries)
          /\ Fresh(c, c, pendingRides, launchRides, Heard', deliveries) /\ c \in open
      BY <1>0, <1>1, DropStart
    <3> QED  BY <1>0, <1>1, <2>1, <3>1 DEF FreshOnes, After, ClaimTypes
  <2>3. OtherTypes'
    BY <1>0, <1>4, <2>1 DEF OtherTypes
  <2>4. SessionAfter(s)
    BY <1>1, <1>2, <1>9, <2>1 DEF SessionAfter
  <2>5. \A t \in Sessions : SessionAfter(t)
    BY <1>5, <2>1, <2>4
  <2> HIDE DEF before
  <2>6. RowInv => RowsOK(row, reserved, open, ids, stuck, taken', before)
    BY <1>2, <1>9, <1>h
  <2> QED  BY <1>0, <1>2, <1>3, <2>1, <2>2, <2>3, <2>5, <2>6, ReleaseStep
<1> QED  BY <1>6, <1>7, <1>8, <1>9

(* The session's command line carries none of it. *)
LEMMA KeepStep ==
  ASSUME Inv, NEW s \in Sessions, NEW status \in {"queued", "running", "ended"},
         StartKeeps(s, status)
  PROVE  Inv'
<1> DEFINE c == startClaim
           before == FreshOnes(startClaim, pendingRides, launchRides, Heard', deliveries)
<1>0. /\ ClaimTypes /\ OtherTypes /\ StartOK /\ \A t \in Sessions : SessionOK(t)
      /\ CarryOK(open, startClaim, pendingRides, launchRides, deliveries)
      /\ deliveries \in [Claims -> Deliveries] /\ open \in SUBSET Claims
  BY InvFacts
<1>1. /\ sess[s] = "none" /\ pendingRides[s] = NoClaim /\ launchRides[s] = NoClaim
      /\ Spawned(s, status, {}) /\ recap \subseteq recap' /\ recap' \subseteq Sessions
      /\ UNCHANGED <<done, leaving, shown, pendingRides, launchRides, replayed>>
  BY <1>0 DEF StartKeeps, moveVars, rideVars, OtherTypes, SessionOK, claimVars
<1>2. /\ sess' \in [Sessions -> {"none", "ended"} \cup Live]
      /\ prompt' \in [Sessions -> SUBSET Messages] /\ flushDue' \subseteq Sessions
      /\ taken' \in [Messages -> Nat]
      /\ sess'[s] = status /\ prompt'[s] = {}
      /\ \A t \in Sessions \ {s} : sess'[t] = sess[t] /\ prompt'[t] = prompt[t]
      /\ SameRunners /\ taken' = taken
  BY <1>0, <1>1, SpawnFacts
<1>h. RowInv => RowsOK(row, reserved, open, ids, stuck, taken, before)
  <2>1. \A t \in Sessions : launchRides[t] # NoClaim =>
          (t \in shown' <=> t \in shown) /\ prompt'[t] = prompt[t]
    BY <1>1, <1>2
  <2> QED  BY <2>1, HeardNow
<1>3. \A t \in Sessions : SessionAfter(t)
  <2>1. SessionAfter(s)
    BY <1>1, <1>2 DEF SessionAfter
  <2> QED  BY <1>0, <1>1, <1>2, <2>1, SessionSame
<1>4. ASSUME UNCHANGED <<recap, claimVars, startClaim>>, StartOK',
             starting' \in {"no"} \cup Sessions
      PROVE  Inv'
  <2>1. UNCHANGED <<row, reserved, open, ids, deliveries, stuck, missed>>
    BY <1>4 DEF claimVars
  <2>2. OtherTypes'
    BY <1>0, <1>1, <1>2, <1>4 DEF OtherTypes
  <2>3. CarryOK(open, startClaim', pendingRides', launchRides', deliveries')
    BY <1>0, <1>1, <1>4, <2>1
  <2>4. RowInv => RowsOK(row, reserved, open, ids, stuck, taken', After(deliveries'))
    BY <1>1, <1>2, <1>4, <1>h, <2>1 DEF After
  <2> QED  BY <1>0, <1>2, <1>3, <1>4, <2>1, <2>2, <2>3, <2>4, MoveStep
<1>5. CASE startClaim = NoClaim
  BY <1>4, <1>5, HeldAssumption DEF StartKeeps, StartOK
<1>6. CASE startClaim # NoClaim /\ starting' = s /\ startClaim' = startClaim
           /\ UNCHANGED <<recap, claimVars>>
  BY <1>4, <1>6, HeldAssumption DEF StartOK
<1>7. CASE startClaim # NoClaim /\ starting' = "no" /\ startClaim' = NoClaim
           /\ Release(startClaim, FALSE, deliveries)
  <2>1. /\ CarryOK(open \ {c}, startClaim', pendingRides', launchRides', deliveries)
        /\ c \in open /\ c \in before
        /\ \A e \in open \ {c} : e \in before <=> e \in After(deliveries)
    <3>1. c \in Claims
      BY <1>0, <1>7 DEF OtherTypes
    <3>2. /\ CarryOK(open \ {c}, NoClaim, pendingRides, launchRides, deliveries)
          /\ \A e \in Claims \ {c} :
               Fresh(e, NoClaim, pendingRides, launchRides, Heard', deliveries)
                 <=> Fresh(e, c, pendingRides, launchRides, Heard', deliveries)
          /\ Fresh(c, c, pendingRides, launchRides, Heard', deliveries) /\ c \in open
      BY <1>0, <3>1, DropStart
    <3> QED  BY <1>0, <1>1, <1>7, <3>1, <3>2 DEF FreshOnes, After
  <2>2. OtherTypes' /\ StartOK'
    BY <1>0, <1>1, <1>2, <1>7, HeldAssumption DEF OtherTypes, StartOK
  <2>3. RowInv => RowsOK(row, reserved, open, ids, stuck, taken', before)
    BY <1>2, <1>h
  <2> HIDE DEF before
  <2> QED  BY <1>0, <1>2, <1>3, <1>7, <2>1, <2>2, <2>3, ReleaseStep
<1> QED  BY <1>5, <1>6, <1>7 DEF StartKeeps

(* The agent's input takes a delivery in. *)
LEMMA TypeStep ==
  ASSUME Inv, NEW c \in Claims, DeliveryTypes(c)
  PROVE  Inv'
<1> DEFINE before == FreshOnes(startClaim, pendingRides, launchRides, Heard', deliveries)
<1>0. /\ ClaimTypes /\ OtherTypes /\ StartOK /\ \A s \in Sessions : SessionOK(s)
      /\ CarryOK(open, startClaim, pendingRides, launchRides, deliveries)
      /\ deliveries \in [Claims -> Deliveries] /\ taken \in [Messages -> Nat]
      /\ open \in SUBSET Claims
  BY InvFacts DEF OtherTypes
<1>1. /\ UNCHANGED <<row, reserved, open, ids, stuck, missed, done, leaving, starting, startClaim,
                     pendingRides, launchRides, sess, shown, recap, flushDue, prompt, replayed>>
      /\ deliveries[c].stage = "waiting"
      /\ deliveries' = [deliveries EXCEPT ![c].stage = "typed"]
      /\ taken' = [m \in Messages |-> IF m \in ids[c] THEN taken[m] + 1 ELSE taken[m]]
  BY DEF DeliveryTypes, moveVars, rideVars, sessionVars
<1>2. /\ CarryOK(open, startClaim', pendingRides', launchRides', deliveries')
      /\ c \in open /\ c \in before
      /\ \A e \in open : e \in before \ {c} <=> e \in After(deliveries')
  BY <1>0, <1>1, TypedDelivery DEF FreshOnes, After
<1>3. deliveries' \in [Claims -> Deliveries]
  <2>1. [deliveries[c] EXCEPT !.stage = "typed"] \in Deliveries
    BY <1>0 DEF Deliveries
  <2> QED  BY <1>0, <1>1, <2>1
<1>4. OtherTypes' /\ StartOK' /\ SameRunners
  BY <1>0, <1>1 DEF OtherTypes, StartOK, SameRunners
<1>5. \A s \in Sessions : SessionAfter(s)
  BY <1>0, <1>1, SessionSame
<1> HIDE DEF before
<1>6. RowInv => RowsOK(row, reserved, open, ids, stuck, taken', After(deliveries'))
  <2> SUFFICES ASSUME RowsOK(row, reserved, open, ids, stuck, taken, before)
               PROVE  RowsOK(row, reserved, open, ids, stuck, taken', After(deliveries'))
    BY <1>1, HeardNow DEF before
  <2>1. \A m \in Messages : taken'[m] = IF m \in ids[c] THEN taken[m] + 1 ELSE taken[m]
    BY <1>1
  <2>2. RowsOK(row, reserved, open, ids, stuck, taken', before \ {c})
    BY <1>0, <1>2, <2>1, RowsTaken
  <2> QED  BY <1>2, <2>2, RowsSameFresh
<1> QED  BY <1>1, <1>2, <1>3, <1>4, <1>5, <1>6, MoveStep

(* A delivery reports: its claim goes back, or is settled. *)
LEMMA ReportStep ==
  ASSUME Inv, NEW c \in Claims, DeliveryReports(c)
  PROVE  Inv'
<1> DEFINE d == [deliveries EXCEPT ![c] = NoDelivery]
           before == FreshOnes(startClaim, pendingRides, launchRides, Heard', deliveries)
<1>0. /\ ClaimTypes /\ OtherTypes /\ StartOK /\ \A s \in Sessions : SessionOK(s)
      /\ CarryOK(open, startClaim, pendingRides, launchRides, deliveries)
      /\ deliveries \in [Claims -> Deliveries] /\ open \in SUBSET Claims
  BY InvFacts
<1>1. UNCHANGED <<done, leaving, starting, startClaim, pendingRides, launchRides, sess, shown,
                  recap, flushDue, prompt, taken, replayed>>
  BY DEF DeliveryReports, moveVars, rideVars, sessionVars
<1>2. d \in [Claims -> Deliveries] /\ deliveries[c].flush \in BOOLEAN
  BY <1>0 DEF Deliveries, NoDelivery
<1>3. deliveries[c].stage # "none"
  BY DEF DeliveryReports
<1>4. /\ CarryOK(open \ {c}, startClaim', pendingRides', launchRides', d) /\ c \in open
      /\ c \in before <=> deliveries[c].stage = "waiting"
      /\ \A e \in open \ {c} : e \in before <=> e \in After(d)
  <2>1. /\ CarryOK(open \ {c}, startClaim, pendingRides, launchRides, d)
        /\ \A e \in Claims \ {c} :
             Fresh(e, startClaim, pendingRides, launchRides, Heard', d)
               <=> Fresh(e, startClaim, pendingRides, launchRides, Heard', deliveries)
        /\ Fresh(c, startClaim, pendingRides, launchRides, Heard', deliveries)
             <=> deliveries[c].stage = "waiting"
        /\ c \in open
    BY <1>0, <1>3, DropDelivery
  <2> QED  BY <1>0, <1>1, <2>1 DEF FreshOnes, After
<1>5. OtherTypes' /\ StartOK' /\ SameRunners
  BY <1>0, <1>1 DEF OtherTypes, StartOK, SameRunners
<1>6. \A s \in Sessions : SessionAfter(s)
  BY <1>0, <1>1, SessionSame
<1>7. RowInv => RowsOK(row, reserved, open, ids, stuck, taken', before)
  BY <1>1, HeardNow
<1>8. \/ deliveries[c].stage = "waiting" /\ Release(c, deliveries[c].flush, d)
      \/ deliveries' = d /\ \E status \in {"delivered", "failed"} : Settle(c, status)
  BY DEF DeliveryReports
<1> HIDE DEF before, d
<1>9. CASE deliveries[c].stage = "waiting" /\ Release(c, deliveries[c].flush, d)
  BY <1>2, <1>4, <1>5, <1>6, <1>7, <1>9, ReleaseStep
<1>10. ASSUME NEW status \in {"delivered", "failed"}, Settle(c, status), deliveries' = d
       PROVE  Inv'
  BY <1>2, <1>4, <1>5, <1>6, <1>7, <1>10, SettleStep
<1> QED  BY <1>8, <1>9, <1>10

(* A queued session is promoted. *)
LEMMA PromoteStep ==
  ASSUME Inv, NEW s \in Sessions, Promoted(s)
  PROVE  Inv'
<1> DEFINE c == pendingRides[s]
           before == FreshOnes(startClaim, pendingRides, launchRides, Heard', deliveries)
<1>0. /\ ClaimTypes /\ OtherTypes /\ StartOK /\ \A t \in Sessions : SessionOK(t)
      /\ CarryOK(open, startClaim, pendingRides, launchRides, deliveries)
      /\ deliveries \in [Claims -> Deliveries] /\ open \in SUBSET Claims
      /\ pendingRides \in Rides /\ launchRides \in Rides /\ taken \in [Messages -> Nat]
  BY InvFacts DEF OtherTypes
<1>1. /\ UNCHANGED <<done, leaving, starting, startClaim, shown, recap, replayed>>
      /\ sess[s] = "queued" /\ launchRides[s] = NoClaim
      /\ Spawned(s, "running", prompt[s]) /\ prompt[s] \in SUBSET Messages
      /\ pendingRides' = [pendingRides EXCEPT ![s] = NoClaim]
      /\ prompt[s] = IF c # NoClaim THEN ids[c] ELSE {}
      /\ c # NoClaim => prompt[s] # {}
  <2>1. /\ UNCHANGED <<done, leaving, starting, startClaim, shown, recap, replayed>>
        /\ sess[s] = "queued" /\ launchRides[s] = NoClaim
        /\ Spawned(s, "running", prompt[s]) /\ prompt[s] \in SUBSET Messages
        /\ pendingRides' = [pendingRides EXCEPT ![s] = NoClaim]
        /\ prompt[s] = IF c # NoClaim THEN ids[c] ELSE {}
    BY <1>0 DEF Promoted, moveVars, OtherTypes, SessionOK
  <2>2. c # NoClaim => c \in open
    BY <1>0, DropPending
  <2>3. c # NoClaim => ids[c] # {}
    BY <2>2 DEF Inv, CarryInv
  <2> QED  BY <2>1, <2>3
<1>2. /\ sess' \in [Sessions -> {"none", "ended"} \cup Live]
      /\ prompt' \in [Sessions -> SUBSET Messages] /\ flushDue' \subseteq Sessions
      /\ taken' \in [Messages -> Nat]
      /\ sess'[s] = "running" /\ prompt'[s] = prompt[s]
      /\ \A t \in Sessions \ {s} : sess'[t] = sess[t] /\ prompt'[t] = prompt[t]
      /\ SameRunners
      /\ AgentStartPending(s) \/ prompt[s] = {} => taken' = taken
      /\ ~AgentStartPending(s) =>
           \A m \in Messages : taken'[m] = IF m \in prompt[s] THEN taken[m] + 1 ELSE taken[m]
  BY <1>0, <1>1, SpawnFacts
<1>h. RowInv => RowsOK(row, reserved, open, ids, stuck, taken, before)
  <2>1. \A t \in Sessions : prompt'[t] = prompt[t]
    BY <1>2
  <2> QED  BY <1>1, <2>1, HeardNow
<1>3. StartOK' /\ pendingRides' \in Rides
  BY <1>0, <1>1 DEF StartOK, Rides
<1>4. ASSUME launchRides' \in Rides, \A t \in Sessions \ ReportsStart : launchRides'[t] = NoClaim
      PROVE  OtherTypes'
  BY <1>0, <1>1, <1>2, <1>3, <1>4 DEF OtherTypes
<1>5. ASSUME \A t \in Sessions \ {s} : launchRides'[t] = launchRides[t]
      PROVE  \A t \in Sessions \ {s} : SessionAfter(t)
  BY <1>0, <1>1, <1>2, <1>5, SessionSame DEF Rides
<1>6. CASE c = NoClaim
  <2>1. /\ UNCHANGED <<pendingRides, launchRides, row, reserved, open, ids, deliveries, stuck,
                       missed>>
    BY <1>0, <1>1, <1>6 DEF Promoted, claimVars, Rides
  <2>2. taken' = taken
    BY <1>1, <1>2, <1>6
  <2>3. OtherTypes'
    BY <1>0, <1>4, <2>1 DEF OtherTypes
  <2>4. SessionAfter(s)
    BY <1>1, <1>2, <1>6, <2>1 DEF SessionAfter
  <2>5. \A t \in Sessions : SessionAfter(t)
    BY <1>5, <2>1, <2>4
  <2>6. CarryOK(open, startClaim', pendingRides', launchRides', deliveries')
    BY <1>0, <1>1, <2>1
  <2>7. RowInv => RowsOK(row, reserved, open, ids, stuck, taken', After(deliveries'))
    BY <1>1, <1>h, <2>1, <2>2 DEF After
  <2> QED  BY <1>0, <1>2, <1>3, <2>1, <2>3, <2>5, <2>6, <2>7, MoveStep
<1>7. CASE c # NoClaim /\ AgentStartPending(s)
  <2>1. /\ launchRides' = [launchRides EXCEPT ![s] = c]
        /\ UNCHANGED <<row, reserved, open, ids, deliveries, stuck, missed>>
    BY <1>1, <1>7 DEF Promoted, CommitOnceAgentStarts
  <2>2. /\ CarryOK(open, startClaim', pendingRides', launchRides', deliveries')
        /\ \A e \in open : e \in before <=> e \in After(deliveries')
    <3>1. s \notin Heard'
      BY <1>1, <1>2, <1>7 DEF AgentStartPending, Heard
    <3> QED  BY <1>0, <1>1, <1>7, <2>1, <3>1, PendingToLaunch DEF FreshOnes, After
  <2>3. OtherTypes'
    BY <1>0, <1>4, <1>7, <2>1 DEF Rides, OtherTypes, AgentStartPending
  <2>4. SessionAfter(s)
    BY <1>0, <1>1, <1>2, <1>7, <2>1 DEF SessionAfter, Rides, AgentStartPending
  <2>5. \A t \in Sessions : SessionAfter(t)
    BY <1>0, <1>5, <2>1, <2>4 DEF Rides
  <2>6. RowInv => RowsOK(row, reserved, open, ids, stuck, taken', After(deliveries'))
    <3> HIDE DEF before
    <3> QED  BY <1>2, <1>7, <1>h, <2>2, RowsSameFresh
  <2> QED  BY <1>0, <1>2, <1>3, <2>1, <2>2, <2>3, <2>5, <2>6, MoveStep
<1>8. CASE c # NoClaim /\ ~AgentStartPending(s)
  <2>1. UNCHANGED <<launchRides, deliveries>> /\ Settle(c, "delivered")
    BY <1>1, <1>8 DEF Promoted, CommitOnceAgentStarts
  <2>2. /\ CarryOK(open \ {c}, startClaim', pendingRides', launchRides', deliveries')
        /\ c \in open /\ c \in before
        /\ \A e \in open \ {c} : e \in before \ {c} <=> e \in After(deliveries')
    <3>1. c \in Claims
      BY <1>0, <1>8 DEF Rides
    <3> QED  BY <1>0, <1>1, <1>8, <2>1, <3>1, DropPending DEF FreshOnes, After
  <2>3. OtherTypes'
    BY <1>0, <1>4, <2>1 DEF OtherTypes
  <2>4. SessionAfter(s)
    BY <1>0, <1>1, <1>2, <1>8, <2>1 DEF SessionAfter, AgentStartPending, Rides
  <2>5. \A t \in Sessions : SessionAfter(t)
    BY <1>5, <2>1, <2>4
  <2> HIDE DEF before
  <2>6. RowInv => RowsOK(row, reserved, open, ids, stuck, taken', before \ {c})
    <3> SUFFICES ASSUME RowsOK(row, reserved, open, ids, stuck, taken, before)
                 PROVE  RowsOK(row, reserved, open, ids, stuck, taken', before \ {c})
      BY <1>h
    <3>1. \A m \in Messages : taken'[m] = IF m \in ids[c] THEN taken[m] + 1 ELSE taken[m]
      BY <1>1, <1>2, <1>8
    <3> QED  BY <1>0, <2>2, <3>1, RowsTaken
  <2> DEFINE fresh == before \ {c}
  <2>7. \A e \in open \ {c} : e \in fresh <=> e \in After(deliveries')
    BY <2>2
  <2>8. deliveries' \in [Claims -> Deliveries]
    BY <1>0, <2>1
  <2>9. RowInv => RowsOK(row, reserved, open, ids, stuck, taken', fresh)
    BY <2>6
  <2> HIDE DEF fresh
  <2> QED  BY <1>2, <1>3, <2>1, <2>2, <2>3, <2>5, <2>7, <2>8, <2>9, SettleStep
<1> QED  BY <1>6, <1>7, <1>8

(* The agent shows that it started, and what rode its launch is delivered. *)
LEMMA RanStep ==
  ASSUME Inv, NEW s \in Sessions, AgentRan(s)
  PROVE  Inv'
<1> DEFINE c == launchRides[s]
           before == FreshOnes(startClaim, pendingRides, launchRides, Heard, deliveries)
<1>0. /\ ClaimTypes /\ OtherTypes /\ StartOK /\ \A t \in Sessions : SessionOK(t)
      /\ CarryOK(open, startClaim, pendingRides, launchRides, deliveries)
      /\ deliveries \in [Claims -> Deliveries] /\ open \in SUBSET Claims
      /\ launchRides \in Rides /\ taken \in [Messages -> Nat]
  BY InvFacts DEF OtherTypes
<1>1. /\ UNCHANGED <<done, leaving, starting, startClaim, pendingRides, sess, recap, flushDue,
                     prompt, replayed>>
      /\ sess[s] = "running" /\ pendingRides[s] = NoClaim /\ s \notin shown
      /\ shown' = shown \cup {s}
      /\ c = NoClaim => prompt[s] = {}
      /\ c # NoClaim => prompt[s] \in {{}, ids[c]}
      /\ taken' = [m \in Messages |-> IF m \in prompt[s] THEN taken[m] + 1 ELSE taken[m]]
  BY <1>0 DEF AgentRan, AgentStartPending, moveVars, SessionOK
<1>h. /\ Heard' = Heard \cup {s}
      /\ s \in Heard => prompt[s] = {} /\ Heard' = Heard
      /\ s \notin Heard => prompt[s] # {}
  BY <1>1 DEF Heard
<1>2. \A m \in Messages : taken'[m] = IF m \in prompt[s] THEN taken[m] + 1 ELSE taken[m]
  BY <1>1
<1>3. /\ taken' \in [Messages -> Nat] /\ StartOK' /\ SameRunners
      /\ prompt[s] = {} => taken' = taken
  BY <1>0, <1>1 DEF StartOK, SameRunners
<1>4. ASSUME launchRides' \in Rides, \A t \in Sessions \ ReportsStart : launchRides'[t] = NoClaim
      PROVE  OtherTypes'
  BY <1>0, <1>1, <1>3, <1>4 DEF OtherTypes
<1>5. ASSUME \A t \in Sessions \ {s} : launchRides'[t] = launchRides[t]
      PROVE  \A t \in Sessions \ {s} : SessionAfter(t)
  BY <1>0, <1>1, <1>5, SessionSame
<1>6. /\ \A e \in Claims \ {c} :
           Fresh(e, startClaim, pendingRides, launchRides, Heard', deliveries) <=> e \in before
      /\ c # NoClaim => /\ ~Fresh(c, startClaim, pendingRides, launchRides, Heard', deliveries)
                        /\ c \in open /\ (c \in before <=> s \notin Heard)
  <2>1. /\ \A e \in Claims \ {c} :
             Fresh(e, startClaim, pendingRides, launchRides, Heard', deliveries)
               <=> Fresh(e, startClaim, pendingRides, launchRides, Heard, deliveries)
        /\ c # NoClaim => ~Fresh(c, startClaim, pendingRides, launchRides, Heard', deliveries)
    BY <1>0, <1>h, ShownLaunch
  <2>2. c # NoClaim =>
          /\ c \in open
          /\ s \notin Heard => Fresh(c, startClaim, pendingRides, launchRides, Heard, deliveries)
    <3> HIDE DEF before
    <3> QED  BY <1>0, DropLaunch
  <2> HIDE DEF c
  <2> QED  BY <1>0, <1>h, <2>1, <2>2 DEF FreshOnes
<1>7. RowInv /\ c # NoClaim => RowsOK(row, reserved, open, ids, stuck, taken', before \ {c})
  <2> SUFFICES ASSUME RowsOK(row, reserved, open, ids, stuck, taken, before), c # NoClaim
               PROVE  RowsOK(row, reserved, open, ids, stuck, taken', before \ {c})
    BY DEF RowInv
  <2> HIDE DEF before
  <2>1. CASE s \in Heard
    <3>1. before \ {c} = before /\ taken' = taken
      BY <1>3, <1>6, <1>h, <2>1
    <3> QED  BY <3>1
  <2>2. CASE s \notin Heard
    BY <1>0, <1>1, <1>2, <1>6, <1>h, <2>2, RowsTaken
  <2> QED  BY <2>1, <2>2
<1> DEFINE fresh == before \ {c}
<1>8. CASE c # NoClaim /\ launchRides' = [launchRides EXCEPT ![s] = NoClaim]
           /\ deliveries' = deliveries /\ Settle(c, "delivered")
  <2>1. /\ CarryOK(open \ {c}, startClaim', pendingRides', launchRides', deliveries')
        /\ \A e \in open \ {c} : e \in fresh <=> e \in After(deliveries')
    <3> DEFINE out == [launchRides EXCEPT ![s] = NoClaim]
    <3>0. launchRides' = out
      BY <1>8
    <3>1. /\ CarryOK(open \ {c}, startClaim, pendingRides, out, deliveries)
          /\ \A e \in Claims \ {c} :
               Fresh(e, startClaim, pendingRides, out, Heard', deliveries)
                 <=> Fresh(e, startClaim, pendingRides, launchRides, Heard', deliveries)
      <4> HIDE DEF before
      <4> QED  BY <1>0, <1>8, DropLaunch
    <3> HIDE DEF out
    <3> HIDE DEF before
    <3>2. \A e \in open \ {c} : e \in fresh <=> e \in After(deliveries')
      BY <1>0, <1>1, <1>6, <1>8, <3>0, <3>1 DEF FreshOnes, After
    <3> QED  BY <1>1, <1>8, <3>0, <3>1, <3>2
  <2>2. OtherTypes'
    BY <1>0, <1>4, <1>8 DEF OtherTypes, Rides
  <2>3. SessionAfter(s)
    BY <1>0, <1>1, <1>8 DEF SessionAfter, Rides
  <2>4. \A t \in Sessions : SessionAfter(t)
    BY <1>0, <1>5, <1>8, <2>3 DEF Rides
  <2>5. deliveries' \in [Claims -> Deliveries]
    BY <1>0, <1>8
  <2>6. RowInv => RowsOK(row, reserved, open, ids, stuck, taken', fresh)
    BY <1>7, <1>8
  <2> HIDE DEF before, fresh
  <2> QED  BY <1>3, <1>6, <1>8, <2>1, <2>2, <2>4, <2>5, <2>6, SettleStep
<1>9. CASE UNCHANGED <<launchRides, claimVars>>
  <2>1. UNCHANGED <<launchRides, row, reserved, open, ids, deliveries, stuck, missed>>
    BY <1>9 DEF claimVars
  <2>2. OtherTypes'
    BY <1>0, <1>4, <2>1 DEF OtherTypes
  <2>3. SessionAfter(s)
    BY <1>0, <1>1, <2>1 DEF SessionAfter, SessionOK
  <2>4. \A t \in Sessions : SessionAfter(t)
    BY <1>5, <2>1, <2>3
  <2>5. CarryOK(open, startClaim', pendingRides', launchRides', deliveries')
    BY <1>0, <1>1, <2>1
  <2>6. RowInv => RowsOK(row, reserved, open, ids, stuck, taken', After(deliveries'))
    <3>1. \A e \in Claims : e \in After(deliveries')
             <=> Fresh(e, startClaim, pendingRides, launchRides, Heard', deliveries)
      BY <1>1, <2>1 DEF After, FreshOnes
    <3> HIDE DEF before
    <3>2. CASE c # NoClaim
      <4>1. \A e \in open : e \in fresh <=> e \in After(deliveries')
        BY <1>0, <1>6, <3>1, <3>2
      <4> QED  BY <1>7, <3>2, <4>1, RowsSameFresh
    <3>3. CASE c = NoClaim
      <4>1. \A e \in open : e \in before <=> e \in After(deliveries')
        BY <1>0, <1>6, <3>1, <3>3, HeldAssumption
      <4> QED  BY <1>1, <1>3, <3>3, <4>1, RowsSameFresh DEF RowInv, before
    <3> QED  BY <3>2, <3>3
  <2>7. deliveries' \in [Claims -> Deliveries]
    BY <1>0, <2>1
  <2> QED  BY <1>3, <2>1, <2>2, <2>4, <2>5, <2>6, <2>7, MoveStep
<1> QED  BY <1>8, <1>9 DEF AgentRan

(* A session is suspended, exits or is removed, and what rides it goes back or
   is settled. *)
LEMMA GoneStep ==
  ASSUME Inv, NEW s \in Sessions, SessionGone(s)
  PROVE  Inv'
<1> DEFINE before == FreshOnes(startClaim, pendingRides, launchRides, Heard', deliveries)
<1>0. /\ ClaimTypes /\ OtherTypes /\ StartOK /\ \A t \in Sessions : SessionOK(t)
      /\ CarryOK(open, startClaim, pendingRides, launchRides, deliveries)
      /\ deliveries \in [Claims -> Deliveries] /\ open \in SUBSET Claims
      /\ pendingRides \in Rides /\ launchRides \in Rides
  BY InvFacts DEF OtherTypes
<1>1. /\ UNCHANGED <<done, leaving, starting, startClaim, shown, recap, flushDue, prompt>>
      /\ sess' = [sess EXCEPT ![s] = "ended"] /\ RidesEnd(s)
      /\ pendingRides' = [pendingRides EXCEPT ![s] = NoClaim]
      /\ launchRides' = [launchRides EXCEPT ![s] = NoClaim]
  BY DEF SessionGone, RidesEnd, moveVars
<1>2. StartOK' /\ SameRunners
  BY <1>0, <1>1 DEF StartOK, SameRunners, OtherTypes
<1>3. \A t \in Sessions : SessionAfter(t)
  <2>1. SessionAfter(s)
    BY <1>0, <1>1 DEF SessionAfter, OtherTypes, Rides
  <2>2. ASSUME NEW t \in Sessions \ {s} PROVE SessionAfter(t)
    BY <1>0, <1>1, <2>2, SessionSame DEF OtherTypes, Rides
  <2> QED  BY <2>1, <2>2
<1>4. replayed' \subseteq Messages
  <2>1. launchRides[s] # NoClaim => ids[launchRides[s]] \subseteq Messages
    BY <1>0 DEF ClaimTypes, Rides
  <2> QED  BY <1>0, <1>1, <2>1 DEF RidesEnd, SettleLaunchRide, OtherTypes
<1>5. OtherTypes'
  <2>1. sess' \in [Sessions -> {"none", "ended"} \cup Live]
    BY <1>0, <1>1 DEF OtherTypes
  <2>2. taken' \in [Messages -> Nat]
    <3>1. taken' = taken \/ \E M \in SUBSET Messages : TakenBack(M)
      BY <1>1 DEF RidesEnd, SettleLaunchRide, Load
    <3> QED  BY <1>0, <3>1 DEF TakenBack, OtherTypes
  <2> QED  BY <1>0, <1>1, <1>4, <2>1, <2>2 DEF OtherTypes, Rides
<1>6. RowInv => RowsOK(row, reserved, open, ids, stuck, taken, before)
  BY <1>1, HeardNow
<1>7. CASE pendingRides[s] # NoClaim
  <2> DEFINE c == pendingRides[s]
  <2>1. launchRides' = launchRides /\ c \in Claims
    BY <1>0, <1>1, <1>7 DEF SessionOK, Rides
  <2>2. /\ CarryOK(open \ {c}, startClaim', pendingRides', launchRides', deliveries)
        /\ c \in open /\ c \in before
        /\ \A e \in open \ {c} : e \in before <=> e \in After(deliveries)
    <3> DEFINE out == [pendingRides EXCEPT ![s] = NoClaim]
    <3>1. /\ CarryOK(open \ {c}, startClaim, out, launchRides, deliveries)
          /\ \A e \in Claims \ {c} :
               Fresh(e, startClaim, out, launchRides, Heard', deliveries)
                 <=> Fresh(e, startClaim, pendingRides, launchRides, Heard', deliveries)
          /\ Fresh(c, startClaim, pendingRides, launchRides, Heard', deliveries) /\ c \in open
      <4> HIDE DEF before
      <4> QED  BY <1>0, <1>7, DropPending
    <3>2. pendingRides' = out
      BY <1>1
    <3> HIDE DEF out
    <3> QED  BY <1>0, <1>1, <2>1, <3>1, <3>2 DEF FreshOnes, After
  <2>3. Release(c, TRUE, deliveries) /\ taken' = taken
    BY <1>1, <1>7 DEF RidesEnd
  <2> HIDE DEF before
  <2> QED  BY <1>0, <1>2, <1>3, <1>5, <1>6, <2>2, <2>3, ReleaseStep
<1>8. CASE pendingRides[s] = NoClaim /\ launchRides[s] # NoClaim
  <2> DEFINE c == launchRides[s]
  <2>1. pendingRides' = pendingRides /\ c \in Claims /\ SettleLaunchRide(s)
    BY <1>0, <1>1, <1>8 DEF RidesEnd, Rides
  <2>2. /\ CarryOK(open \ {c}, startClaim', pendingRides', launchRides', deliveries)
        /\ c \in open /\ (s \notin Heard' => c \in before)
        /\ \A e \in open \ {c} : e \in before <=> e \in After(deliveries)
    <3> DEFINE out == [launchRides EXCEPT ![s] = NoClaim]
    <3>1. /\ CarryOK(open \ {c}, startClaim, pendingRides, out, deliveries)
          /\ \A e \in Claims \ {c} :
               Fresh(e, startClaim, pendingRides, out, Heard', deliveries)
                 <=> Fresh(e, startClaim, pendingRides, launchRides, Heard', deliveries)
          /\ c \in open
          /\ s \notin Heard' => Fresh(c, startClaim, pendingRides, launchRides, Heard', deliveries)
      <4> HIDE DEF before
      <4> QED  BY <1>0, <1>8, DropLaunch
    <3>2. launchRides' = out
      BY <1>1
    <3> HIDE DEF out
    <3> QED  BY <1>0, <1>1, <2>1, <3>1, <3>2 DEF FreshOnes, After
  <2>3. \/ /\ AgentStartPending(s) /\ Release(c, TRUE, deliveries)
           /\ TakenBack(Load(c) \ prompt[s])
        \/ deliveries' = deliveries /\ Settle(c, "delivered") /\ taken' = taken
    BY <2>1 DEF SettleLaunchRide
  <2>h. prompt[s] \in {{}, ids[c]} /\ ids[c] # {} /\ prompt' = prompt
    BY <1>0, <1>1, <1>8, <2>2 DEF SessionOK, Inv, CarryInv
  <2> HIDE DEF before
  <2>4. CASE AgentStartPending(s) /\ Release(c, TRUE, deliveries) /\ TakenBack(Load(c) \ prompt[s])
    <3>1. CASE prompt[s] = ids[c]
      <4>1. taken' = taken
        BY <1>0, <2>4, <3>1 DEF TakenBack, Load, OtherTypes
      <4>2. c \in before
        BY <1>1, <2>2, <2>4, <2>h, <3>1 DEF AgentStartPending, Heard
      <4> QED  BY <1>0, <1>2, <1>3, <1>5, <1>6, <2>2, <2>4, <4>1, <4>2, ReleaseStep
    <3>2. CASE prompt[s] = {}
      <4>1. \A m \in Messages : taken'[m] = IF m \in ids[c] /\ row[m] = "held" THEN 0 ELSE taken[m]
        BY <2>4, <3>2 DEF TakenBack, Load
      <4>2. RowInv => RowsOK(row, reserved \ ids[c], open \ {c}, ids, stuck, taken', before)
        BY <1>6, <2>2, <4>1, RowsGivenBack
      <4> QED  BY <1>0, <1>2, <1>3, <1>5, <2>2, <2>4, <4>2, GiveUpStep
    <3> QED  BY <2>h, <3>1, <3>2
  <2>5. CASE deliveries' = deliveries /\ Settle(c, "delivered") /\ taken' = taken
    BY <1>0, <1>2, <1>3, <1>5, <1>6, <2>2, <2>5, SettleStep
  <2> QED  BY <2>3, <2>4, <2>5
<1>9. CASE pendingRides[s] = NoClaim /\ launchRides[s] = NoClaim
  <2>1. UNCHANGED <<row, reserved, open, ids, deliveries, stuck, missed, pendingRides, launchRides,
                    taken>>
    BY <1>0, <1>1, <1>9 DEF RidesEnd, claimVars, Rides
  <2>2. /\ CarryOK(open, startClaim', pendingRides', launchRides', deliveries')
        /\ before = After(deliveries')
    BY <1>0, <1>1, <2>1 DEF After
  <2> HIDE DEF before
  <2> QED  BY <1>0, <1>2, <1>3, <1>5, <1>6, <2>1, <2>2, MoveStep
<1> QED  BY <1>7, <1>8, <1>9

(* Where an opening is typed: a session the start spawned with a bare command
   line, which nothing rides. *)
Bare(s) ==
  /\ s \in Sessions /\ sess[s] # "none" /\ prompt[s] = {}
  /\ pendingRides[s] = NoClaim /\ launchRides[s] = NoClaim

(* Each session has one opening at most, and only the session of the start that
   is in progress may get one. *)
OpeningInv ==
  /\ starting \in Sessions => Bare(starting)
  /\ \A c \in Claims : deliveries[c].opening # "no" =>
       /\ deliveries[c].stage # "none" /\ Bare(deliveries[c].to) /\ deliveries[c].to # starting
       /\ \A e \in Claims :
            deliveries[e].opening # "no" /\ deliveries[e].to = deliveries[c].to => e = c

(* What became of a typed opening. *)
LEMMA OpeningStep ==
  ASSUME Inv, OpeningInv, NEW c \in Claims, OpeningReports(c)
  PROVE  Inv'
<1> DEFINE d == [deliveries EXCEPT ![c] = NoDelivery]
           s == deliveries[c].to
           before == FreshOnes(startClaim, pendingRides, launchRides, Heard', deliveries)
<1>0. /\ ClaimTypes /\ OtherTypes /\ StartOK /\ \A t \in Sessions : SessionOK(t)
      /\ CarryOK(open, startClaim, pendingRides, launchRides, deliveries)
      /\ deliveries \in [Claims -> Deliveries] /\ open \in SUBSET Claims
      /\ launchRides \in Rides /\ pendingRides \in Rides /\ taken \in [Messages -> Nat]
  BY InvFacts DEF OtherTypes
<1>1. /\ UNCHANGED <<done, leaving, starting, startClaim, sess, shown, recap, flushDue, prompt,
                     replayed>>
      /\ deliveries[c].stage # "none"
      /\ s \in Sessions /\ prompt[s] = {} /\ launchRides[s] = NoClaim
  BY DEF OpeningReports, moveVars, sessionVars, OpeningInv, Bare
<1>2. d \in [Claims -> Deliveries]
  BY <1>0 DEF Deliveries, NoDelivery
<1>3. /\ CarryOK(open \ {c}, startClaim, pendingRides, launchRides, d)
      /\ \A e \in Claims \ {c} :
           Fresh(e, startClaim, pendingRides, launchRides, Heard', d)
             <=> Fresh(e, startClaim, pendingRides, launchRides, Heard', deliveries)
      /\ Fresh(c, startClaim, pendingRides, launchRides, Heard', deliveries)
           <=> deliveries[c].stage = "waiting"
      /\ c \in open
  <2>1. /\ CarryOK(open, startClaim, pendingRides, launchRides, deliveries)
        /\ deliveries \in [Claims -> Deliveries] /\ deliveries[c].stage # "none"
    BY <1>0, <1>1
  <2> HIDE DEF before, s
  <2> QED  BY <2>1, DropDelivery
<1>4. ASSUME UNCHANGED rideVars
      PROVE  /\ CarryOK(open \ {c}, startClaim', pendingRides', launchRides', d)
             /\ \A e \in open \ {c} : e \in before <=> e \in After(d)
             /\ \A t \in Sessions : SessionAfter(t)
  <2>1. pendingRides' = pendingRides /\ launchRides' = launchRides
    BY <1>4 DEF rideVars
  <2> QED  BY <1>0, <1>1, <1>3, <2>1, SessionSame DEF FreshOnes, After
<1>5. StartOK' /\ SameRunners
  BY <1>0, <1>1 DEF StartOK, SameRunners
<1>6. RowInv => RowsOK(row, reserved, open, ids, stuck, taken, before)
  BY <1>1, HeardNow
<1>7. ASSUME taken' \in [Messages -> Nat], pendingRides' = pendingRides, launchRides' \in Rides,
             \A t \in Sessions \ ReportsStart : launchRides'[t] = NoClaim
      PROVE  OtherTypes'
  BY <1>0, <1>1, <1>7 DEF OtherTypes
<1> HIDE DEF before
<1>8. CASE /\ Release(c, TRUE, d) /\ UNCHANGED rideVars
           /\ TakenBack({m \in Load(c) : deliveries[c].stage = "typed"})
  <2>1. OtherTypes'
    <3>1. taken' \in [Messages -> Nat]
      BY <1>0, <1>8 DEF TakenBack
    <3> QED  BY <1>0, <1>7, <1>8, <3>1 DEF rideVars, OtherTypes
  <2>2. RowInv => RowsOK(row, reserved \ ids[c], open \ {c}, ids, stuck, taken', before)
    <3>1. CASE deliveries[c].stage = "typed"
      <4>1. \A m \in Messages : taken'[m] = IF m \in ids[c] /\ row[m] = "held" THEN 0 ELSE taken[m]
        BY <1>8, <3>1 DEF TakenBack, Load
      <4> QED  BY <1>3, <1>6, <4>1, RowsGivenBack
    <3>2. CASE deliveries[c].stage = "waiting"
      <4>1. taken' = taken
        BY <1>0, <1>8, <3>2 DEF TakenBack
      <4>2. c \in before
        BY <1>3, <3>2 DEF before, FreshOnes
      <4> QED  BY <1>3, <1>6, <4>1, <4>2, RowsReleased
    <3>3. deliveries[c].stage \in {"none", "waiting", "typed"}
      BY <1>0 DEF Deliveries
    <3> QED  BY <1>1, <3>1, <3>2, <3>3
  <2> HIDE DEF d
  <2> QED  BY <1>2, <1>3, <1>4, <1>5, <1>8, <2>1, <2>2, GiveUpStep
<1>9. ASSUME NEW st \in {"delivered"}, Settle(c, st), deliveries' = d, UNCHANGED rideVars,
             taken' = taken
      PROVE  Inv'
  <2>1. OtherTypes'
    BY <1>0, <1>7, <1>9 DEF rideVars, OtherTypes
  <2>2. RowInv => RowsOK(row, reserved, open, ids, stuck, taken', before)
    BY <1>6, <1>9
  <2> HIDE DEF d
  <2> QED  BY <1>2, <1>3, <1>4, <1>5, <1>9, <2>1, <2>2, SettleStep
<1>10. CASE /\ deliveries[c].stage = "typed" /\ sess[s] \in {"running", "closing"}
            /\ AgentStartPending(s)
            /\ pendingRides' = pendingRides /\ launchRides' = [launchRides EXCEPT ![s] = c]
            /\ UNCHANGED <<row, reserved, open, ids, stuck, missed>> /\ deliveries' = d
            /\ taken' = taken
  <2>1. /\ CarryOK(open, startClaim', pendingRides', launchRides', deliveries')
        /\ \A e \in open : e \in before <=> e \in After(deliveries')
    <3>1. s \in Heard'
      BY <1>1 DEF Heard
    <3> QED  BY <1>0, <1>1, <1>10, <3>1, OpeningToLaunch DEF before, FreshOnes, After
  <2>2. OtherTypes'
    BY <1>0, <1>1, <1>7, <1>10 DEF OtherTypes, Rides, AgentStartPending
  <2>3. \A t \in Sessions : SessionAfter(t)
    <3>1. ASSUME NEW t \in Sessions, t # s PROVE SessionAfter(t)
      BY <1>0, <1>1, <1>10, <3>1, SessionSame DEF Rides
    <3>2. SessionAfter(s)
      <4>1. launchRides'[s] = c /\ sess'[s] \in {"running", "closing"} /\ prompt'[s] = {}
        BY <1>0, <1>1, <1>10 DEF Rides
      <4>2. pendingRides'[s] = NoClaim /\ c # NoClaim
        BY <1>0, <1>1, <1>10, HeldAssumption DEF SessionOK
      <4> QED  BY <1>10, <4>1, <4>2 DEF SessionAfter, AgentStartPending
    <3> QED  BY <3>1, <3>2
  <2>4. RowInv => RowsOK(row, reserved, open, ids, stuck, taken', After(deliveries'))
    BY <1>6, <1>10, <2>1, RowsSameFresh
  <2>5. deliveries' \in [Claims -> Deliveries]
    BY <1>2, <1>10
  <2> QED  BY <1>5, <1>10, <2>1, <2>2, <2>3, <2>4, <2>5, MoveStep
<1>11. \/ /\ Release(c, TRUE, d) /\ UNCHANGED rideVars
          /\ TakenBack({m \in Load(c) : deliveries[c].stage = "typed"})
       \/ Settle(c, "delivered") /\ deliveries' = d /\ UNCHANGED rideVars /\ taken' = taken
       \/ /\ deliveries[c].stage = "typed" /\ sess[s] \in {"running", "closing"}
          /\ CommitWhenSessionRuns(c, s, "running", d) /\ taken' = taken
  BY DEF OpeningReports
<1>12. CASE /\ deliveries[c].stage = "typed" /\ sess[s] \in {"running", "closing"}
            /\ CommitWhenSessionRuns(c, s, "running", d) /\ taken' = taken
  <2> HIDE DEF d
  <2>1. pendingRides' = pendingRides /\ CommitOnceAgentStarts(c, s, d)
    BY <1>12 DEF CommitWhenSessionRuns
  <2>2. CASE AgentStartPending(s)
    BY <1>1, <1>10, <1>12, <2>1, <2>2 DEF CommitOnceAgentStarts
  <2>3. CASE ~AgentStartPending(s)
    BY <1>9, <1>12, <2>1, <2>3 DEF CommitOnceAgentStarts, rideVars
  <2> QED  BY <2>2, <2>3
<1> QED  BY <1>8, <1>9, <1>11, <1>12

(* The app restarts: memory is forgotten, and only the rows are left. *)
LEMMA RestartStep ==
  ASSUME Inv, Restart
  PROVE  Inv'
<1>0. ClaimTypes /\ OtherTypes
  BY InvFacts
<1>1. /\ reserved' = {} /\ open' = {} /\ ids' = [c \in Claims |-> {}]
      /\ starting' = "no" /\ startClaim' = NoClaim
      /\ pendingRides' = [s \in Sessions |-> NoClaim] /\ launchRides' = [s \in Sessions |-> NoClaim]
      /\ deliveries' = [c \in Claims |-> NoDelivery]
      /\ sess' = [s \in Sessions |-> IF sess[s] = "none" THEN "none" ELSE "ended"]
      /\ leaving' = FALSE /\ flushDue' = {} /\ taken' = [m \in Messages |-> 0]
      /\ stuck' = {} /\ missed' = {}
      /\ UNCHANGED <<row, done, shown, recap, prompt, replayed>>
  BY DEF Restart
<1>2. OtherTypes' /\ StartOK' /\ ClaimTypes'
  <2>1. NoDelivery \in Deliveries
    BY DEF NoDelivery, Deliveries
  <2> QED  BY <1>0, <1>1, <2>1, HeldAssumption DEF OtherTypes, StartOK, ClaimTypes, Rides
<1>3. CarryOK(open', startClaim', pendingRides', launchRides', deliveries')
  BY <1>1, HeldAssumption DEF CarryOK, NoDelivery
<1>4. \A s \in Sessions : SessionOK(s)'
  BY <1>1 DEF SessionOK
<1>5. CarryInv'
  BY <1>1, <1>2, <1>3, <1>4, TypesSplit DEF CarryInv
<1>6. RowInv'
  BY <1>0, <1>1 DEF RowInv, RowsOK, RowOK, Free
<1>7. WaitInv'
  BY <1>1 DEF WaitInv, NothingWaitsOnALiveAgent
<1> QED  BY <1>5, <1>6, <1>7 DEF Inv

-----------------------------------------------------------------------------
(* OpeningInv.  The openings in d are openings now, and go to the same sessions. *)
OpensOnly(d) ==
  \A c \in Claims : d[c].opening # "no" =>
    deliveries[c].opening # "no" /\ d[c].to = deliveries[c].to /\ d[c].stage # "none"

(* A session that is bare after a step. *)
BareAfter(s) ==
  /\ s \in Sessions /\ sess'[s] # "none" /\ prompt'[s] = {}
  /\ pendingRides'[s] = NoClaim /\ launchRides'[s] = NoClaim

(* What is handed out is no opening, ... *)
LEMMA HandedOpens ==
  ASSUME NEW op, NEW d \in [Claims -> Deliveries], Handed(op, d), OpensOnly(d)
  PROVE  OpensOnly(deliveries')
<1>1. ASSUME NEW n \in Claims, NEW s, deliveries' = [d EXCEPT ![n] = Delivery(s, FALSE)]
      PROVE  OpensOnly(deliveries')
  BY <1>1 DEF OpensOnly, Delivery
<1> QED  BY <1>1 DEF Handed

(* ... after a release as well, ... *)
LEMMA ReleaseOpens ==
  ASSUME ClaimTypes, NEW c \in Claims, NEW flush \in BOOLEAN, NEW d \in [Claims -> Deliveries],
         Release(c, flush, d), OpensOnly(d)
  PROVE  OpensOnly(deliveries')
BY ReleaseHands, HandedOpens

(* ... and when a claim is bound to a launch. *)
LEMMA CommitOpens ==
  ASSUME ClaimTypes, NEW c, NEW s \in Sessions, launchRides \in Rides,
         NEW d \in [Claims -> Deliveries], CommitOnceAgentStarts(c, s, d), OpensOnly(d)
  PROVE  OpensOnly(deliveries')
<1>1. CASE AgentStartPending(s) /\ launchRides[s] # NoClaim
  <2>1. launchRides[s] \in Claims /\ Release(launchRides[s], FALSE, d)
    BY <1>1 DEF CommitOnceAgentStarts, Rides
  <2> QED  BY <2>1, ReleaseOpens
<1>2. CASE ~(AgentStartPending(s) /\ launchRides[s] # NoClaim)
  BY <1>2 DEF CommitOnceAgentStarts
<1> QED  BY <1>1, <1>2

(* A step that opens no session, and keeps those bare that wait for an opening. *)
LEMMA OpeningSame ==
  ASSUME OpeningInv, OpensOnly(deliveries'), starting' \in Sessions => starting' = starting,
         \A s \in Sessions :
           /\ Bare(s)
           /\ s = starting' \/ \E e \in Claims : deliveries'[e].opening # "no" /\ deliveries'[e].to = s
           => BareAfter(s)
  PROVE  OpeningInv'
<1>1. starting' \in Sessions => BareAfter(starting')
  BY DEF OpeningInv, Bare
<1>2. ASSUME NEW c \in Claims, deliveries'[c].opening # "no"
      PROVE  /\ deliveries'[c].stage # "none" /\ BareAfter(deliveries'[c].to)
             /\ deliveries'[c].to # starting'
             /\ \A e \in Claims :
                  deliveries'[e].opening # "no" /\ deliveries'[e].to = deliveries'[c].to => e = c
  <2>1. /\ deliveries[c].opening # "no" /\ deliveries'[c].to = deliveries[c].to
        /\ deliveries'[c].stage # "none"
    BY <1>2 DEF OpensOnly
  <2>2. Bare(deliveries[c].to) /\ deliveries[c].to # starting /\ deliveries[c].to \in Sessions
    BY <2>1 DEF OpeningInv, Bare
  <2>3. BareAfter(deliveries'[c].to) /\ deliveries'[c].to # starting'
    BY <1>2, <2>1, <2>2
  <2>4. \A e \in Claims :
          deliveries'[e].opening # "no" /\ deliveries'[e].to = deliveries'[c].to => e = c
    BY <2>1 DEF OpensOnly, OpeningInv
  <2> QED  BY <2>1, <2>3, <2>4
<1> QED  BY <1>1, <1>2 DEF OpeningInv, Bare, BareAfter

(* Every step keeps the openings in order. *)
LEMMA OpeningKept ==
  ASSUME Inv, OpeningInv, [Next]_vars
  PROVE  OpeningInv'
<1>0. /\ ClaimTypes /\ OtherTypes /\ StartOK /\ \A t \in Sessions : SessionOK(t)
      /\ deliveries \in [Claims -> Deliveries] /\ open \in SUBSET Claims
      /\ ids \in [Claims -> SUBSET Messages] /\ reserved \in SUBSET Messages
      /\ CarryOK(open, startClaim, pendingRides, launchRides, deliveries)
      /\ pendingRides \in Rides /\ launchRides \in Rides
  BY InvFacts DEF OtherTypes, ClaimTypes
<1>1. OpensOnly(deliveries)
  BY DEF OpensOnly, OpeningInv
<1>2. ASSUME deliveries' = deliveries PROVE OpensOnly(deliveries')
  BY <1>1, <1>2
<1>3. ASSUME NEW c \in Claims, NEW flush \in BOOLEAN, Release(c, flush, deliveries)
      PROVE  OpensOnly(deliveries')
  BY <1>0, <1>1, <1>3, ReleaseOpens
<1>4. ASSUME FlushHeldIfLive(reserved, open, deliveries) PROVE OpensOnly(deliveries')
  BY <1>0, <1>1, <1>4, FlushHands, HandedOpens
<1>5. ASSUME OpensOnly(deliveries'), starting' \in {starting, "no", "claimed"},
             UNCHANGED <<pendingRides, launchRides, prompt>>,
             \A s \in Sessions : sess[s] # "none" => sess'[s] # "none"
      PROVE  OpeningInv'
  BY <1>5, HeldAssumption, OpeningSame DEF Bare, BareAfter
<1>6. ASSUME NEW m \in Messages, HoldTaskMessage(m) PROVE OpeningInv'
  BY <1>4, <1>5, <1>6 DEF HoldTaskMessage, rideVars, sessionVars
<1>7. CASE MoveAndClear \/ MoveOutOfDone \/ MoveEnds \/ BeginStart \/ UNCHANGED vars
  BY <1>2, <1>5, <1>7
     DEF MoveAndClear, ClearHeldMessages, MoveOutOfDone, MoveEnds, BeginStart, vars, claimVars,
         rideVars, sessionVars
<1>8. CASE StartFails \/ StartEnds
  <2>1. OpensOnly(deliveries')
    <3>1. startClaim # NoClaim => startClaim \in Claims
      BY <1>0 DEF OtherTypes
    <3>2. \/ UNCHANGED claimVars
          \/ startClaim # NoClaim /\ \E flush \in BOOLEAN : Release(startClaim, flush, deliveries)
      BY <1>0, <1>8 DEF StartFails, StartEnds, StartOK
    <3> QED  BY <1>2, <1>3, <3>1, <3>2 DEF claimVars
  <2> QED  BY <1>5, <1>8, <2>1 DEF StartFails, StartEnds, rideVars, sessionVars
<1>9. CASE StartSends
  <2>1. OpensOnly(deliveries')
    BY <1>0, <1>1, <1>9 DEF StartSends, OpensOnly, Delivery
  <2> QED  BY <1>5, <1>9, <2>1 DEF StartSends, rideVars, sessionVars
<1>10. ASSUME NEW kind \in {"awaited", "deferred"}, StartOpens(kind) PROVE OpeningInv'
  <2>1. /\ starting \in Sessions /\ starting' = "no" /\ starting' \notin Sessions
        /\ deliveries' = [deliveries EXCEPT ![startClaim] = Opening(starting, kind)]
        /\ UNCHANGED <<pendingRides, launchRides, sess, prompt>>
    BY <1>10, HeldAssumption DEF StartOpens, rideVars, sessionVars
  <2>2. Bare(starting) /\ \A s \in Sessions : Bare(s) => BareAfter(s)
    BY <2>1 DEF OpeningInv, Bare, BareAfter
  <2>3. startClaim \in Claims
    BY <1>0, <2>1 DEF StartOK, OtherTypes
  <2>4. /\ deliveries'[startClaim].to = starting /\ deliveries'[startClaim].stage = "waiting"
        /\ \A c \in Claims \ {startClaim} : deliveries'[c] = deliveries[c]
    BY <1>0, <2>1, <2>3 DEF Opening
  <2>5. ASSUME NEW c \in Claims, deliveries'[c].opening # "no"
        PROVE  /\ deliveries'[c].stage # "none" /\ BareAfter(deliveries'[c].to)
               /\ deliveries'[c].to # starting'
               /\ \A e \in Claims :
                    deliveries'[e].opening # "no" /\ deliveries'[e].to = deliveries'[c].to => e = c
    <3>1. CASE c = startClaim
      BY <2>1, <2>2, <2>4, <3>1 DEF OpeningInv
    <3>2. CASE c # startClaim
      BY <2>1, <2>2, <2>4, <2>5, <3>2 DEF OpeningInv, Bare, BareAfter
    <3> QED  BY <3>1, <3>2
  <2> QED  BY <2>1, <2>5 DEF OpeningInv, Bare, BareAfter
<1>11. ASSUME NEW s \in Sessions, NEW status \in {"queued", "running", "ended"}, NEW line,
              Spawned(s, status, line)
       PROVE  /\ \A t \in Sessions \ {s} : sess'[t] = sess[t] /\ prompt'[t] = prompt[t]
              /\ sess'[s] = status /\ prompt'[s] = line
  BY <1>0, <1>11 DEF Spawned, OtherTypes
<1>12. ASSUME NEW s \in Sessions, NEW status \in {"queued", "running", "ended"}, StartRides(s, status)
       PROVE  OpeningInv'
  <2>1. /\ CommitWhenSessionRuns(startClaim, s, status, deliveries) /\ startClaim \in Claims
        /\ Spawned(s, status, ids[startClaim]) /\ starting' \notin Sessions
        /\ sess[s] = "none" /\ pendingRides[s] = NoClaim
    BY <1>0, <1>12, HeldAssumption DEF StartRides, OtherTypes, SessionOK
  <2>2. OpensOnly(deliveries')
    <3>1. CASE status = "running"
      BY <1>0, <1>1, <2>1, <3>1, CommitOpens DEF CommitWhenSessionRuns
    <3>2. CASE status # "running"
      BY <1>2, <1>3, <2>1, <3>2 DEF CommitWhenSessionRuns
    <3> QED  BY <3>1, <3>2
  <2>3. \A t \in Sessions \ {s} : pendingRides'[t] = pendingRides[t] /\ launchRides'[t] = launchRides[t]
    BY <1>0, <2>1 DEF CommitWhenSessionRuns, CommitOnceAgentStarts, Rides, rideVars
  <2>4. \A t \in Sessions : Bare(t) => BareAfter(t)
    BY <1>11, <2>1, <2>3 DEF Bare, BareAfter
  <2> QED  BY <2>1, <2>2, <2>4, OpeningSame
<1>13. ASSUME NEW s \in Sessions, NEW status \in {"queued", "running", "ended"}, StartKeeps(s, status)
       PROVE  OpeningInv'
  <2>1. /\ Spawned(s, status, {}) /\ sess[s] = "none" /\ UNCHANGED <<pendingRides, launchRides>>
        /\ pendingRides[s] = NoClaim /\ launchRides[s] = NoClaim
        /\ starting' \in {"no", s}
    BY <1>0, <1>13 DEF StartKeeps, rideVars, SessionOK
  <2>2. OpensOnly(deliveries')
    <3>1. CASE UNCHANGED claimVars
      BY <1>2, <3>1 DEF claimVars
    <3>2. CASE startClaim # NoClaim /\ Release(startClaim, FALSE, deliveries)
      BY <1>0, <1>3, <3>2 DEF OtherTypes
    <3> QED  BY <1>13, <3>1, <3>2 DEF StartKeeps
  <2>3. BareAfter(s) /\ \A t \in Sessions : Bare(t) => BareAfter(t)
    BY <1>11, <2>1 DEF Bare, BareAfter
  <2>4. CASE starting' = "no"
    BY <2>2, <2>3, <2>4, HeldAssumption, OpeningSame
  <2>5. CASE starting' = s
    <3>1. ASSUME NEW c \in Claims, deliveries'[c].opening # "no"
          PROVE  /\ deliveries'[c].stage # "none" /\ BareAfter(deliveries'[c].to)
                 /\ deliveries'[c].to # s
                 /\ \A e \in Claims :
                      deliveries'[e].opening # "no" /\ deliveries'[e].to = deliveries'[c].to => e = c
      <4>1. /\ deliveries[c].opening # "no" /\ deliveries'[c].to = deliveries[c].to
            /\ deliveries'[c].stage # "none"
        BY <2>2, <3>1 DEF OpensOnly
      <4>2. Bare(deliveries[c].to) /\ deliveries[c].to # s /\ deliveries[c].to \in Sessions
        BY <2>1, <4>1 DEF OpeningInv, Bare
      <4>3. \A e \in Claims :
              deliveries'[e].opening # "no" /\ deliveries'[e].to = deliveries'[c].to => e = c
        BY <2>2, <4>1 DEF OpensOnly, OpeningInv
      <4> QED  BY <2>3, <4>1, <4>2, <4>3
    <3> QED  BY <2>3, <2>5, <3>1 DEF OpeningInv, Bare, BareAfter
  <2> QED  BY <2>1, <2>4, <2>5
<1>14. ASSUME NEW c \in Claims, DeliveryTypes(c) PROVE OpeningInv'
  <2>1. OpensOnly(deliveries')
    BY <1>0, <1>1, <1>14 DEF DeliveryTypes, OpensOnly, Deliveries
  <2> QED  BY <1>5, <1>14, <2>1 DEF DeliveryTypes, rideVars, sessionVars
<1>15. ASSUME NEW c \in Claims
       PROVE  LET d == [deliveries EXCEPT ![c] = NoDelivery] IN
              d \in [Claims -> Deliveries] /\ OpensOnly(d)
                /\ \A e \in Claims : d[e].opening # "no" => e # c
  BY <1>0, <1>1 DEF NoDelivery, Deliveries, OpensOnly
<1>16. ASSUME NEW c \in Claims, DeliveryReports(c) PROVE OpeningInv'
  <2> DEFINE d == [deliveries EXCEPT ![c] = NoDelivery]
  <2>1. d \in [Claims -> Deliveries] /\ OpensOnly(d)
    BY <1>15
  <2>2. deliveries[c].flush \in BOOLEAN
    BY <1>0 DEF Deliveries
  <2>3. Release(c, deliveries[c].flush, d) \/ deliveries' = d
    BY <1>16 DEF DeliveryReports
  <2> HIDE DEF d
  <2>4. OpensOnly(deliveries')
    BY <1>0, <2>1, <2>2, <2>3, ReleaseOpens
  <2> QED  BY <1>5, <1>16, <2>4 DEF DeliveryReports, rideVars, sessionVars
<1>17. ASSUME NEW c \in Claims, OpeningReports(c) PROVE OpeningInv'
  <2> DEFINE d == [deliveries EXCEPT ![c] = NoDelivery]
             s == deliveries[c].to
  <2>1. /\ d \in [Claims -> Deliveries] /\ OpensOnly(d)
        /\ \A e \in Claims : d[e].opening # "no" => e # c
    BY <1>15
  <2>2. /\ deliveries[c].opening # "no" /\ UNCHANGED <<starting, sess, prompt>>
        /\ s \in Sessions /\ Bare(s)
        /\ \/ Release(c, TRUE, d) /\ UNCHANGED rideVars
           \/ deliveries' = d /\ UNCHANGED rideVars
           \/ CommitWhenSessionRuns(c, s, "running", d)
    BY <1>17 DEF OpeningReports, sessionVars, OpeningInv, Bare
  <2> HIDE DEF d
  <2>3. /\ OpensOnly(deliveries') /\ pendingRides' = pendingRides
        /\ \A t \in Sessions \ {s} : launchRides'[t] = launchRides[t]
        /\ Handed(open, d) \/ Handed(open \ {c}, d)
    <3>1. CASE Release(c, TRUE, d) /\ UNCHANGED rideVars
      BY <1>0, <2>1, <3>1, ReleaseHands, ReleaseOpens DEF rideVars
    <3>2. CASE deliveries' = d /\ UNCHANGED rideVars
      <4>1. Release(c, TRUE, d) \/ Settle(c, "delivered")
              \/ CommitWhenSessionRuns(c, s, "running", d)
        BY <1>17 DEF OpeningReports, d
      <4>2. ASSUME Release(c, TRUE, d) PROVE Handed(open, d) \/ Handed(open \ {c}, d)
        BY <1>0, <2>1, <4>2, ReleaseHands
      <4>3. ASSUME Settle(c, "delivered") PROVE Handed(open, d) \/ Handed(open \ {c}, d)
        BY <3>2, <4>3 DEF Handed, Settle
      <4>4. ASSUME CommitWhenSessionRuns(c, s, "running", d) PROVE Handed(open, d) \/ Handed(open \ {c}, d)
        BY <2>2, <3>2, <4>4 DEF CommitWhenSessionRuns, CommitOnceAgentStarts, Bare, Handed, Settle
      <4> QED  BY <2>1, <3>2, <4>1, <4>2, <4>3, <4>4 DEF rideVars
    <3>3. CASE CommitWhenSessionRuns(c, s, "running", d)
      <4>1. pendingRides' = pendingRides /\ CommitOnceAgentStarts(c, s, d) /\ launchRides[s] = NoClaim
        BY <2>2, <3>3 DEF CommitWhenSessionRuns, Bare
      <4> QED  BY <1>0, <2>1, <2>2, <4>1, CommitOpens DEF CommitOnceAgentStarts, Rides, Handed, Settle
    <3> QED  BY <2>2, <3>1, <3>2, <3>3
  <2>4. deliveries'[c].opening = "no"
    <3>1. d[c].opening = "no"
      BY <1>0 DEF d, NoDelivery
    <3>2. ASSUME NEW n \in Claims, NEW t, deliveries' = [d EXCEPT ![n] = Delivery(t, FALSE)]
          PROVE  deliveries'[c].opening = "no"
      BY <2>1, <3>1, <3>2 DEF Delivery
    <3> QED  BY <2>3, <3>1, <3>2 DEF Handed
  <2>5. ASSUME NEW t \in Sessions, Bare(t),
               \/ t = starting'
               \/ \E e \in Claims : deliveries'[e].opening # "no" /\ deliveries'[e].to = t
        PROVE  BareAfter(t)
    <3>1. t # s
      BY <2>2, <2>3, <2>4, <2>5 DEF OpensOnly, OpeningInv
    <3> QED  BY <2>2, <2>3, <2>5, <3>1 DEF Bare, BareAfter
  <2> QED  BY <2>2, <2>3, <2>5, OpeningSame
<1>18. ASSUME NEW s \in Sessions, Promoted(s) PROVE OpeningInv'
  <2>1. /\ Spawned(s, "running", prompt[s]) /\ starting' = starting
        /\ pendingRides' = [pendingRides EXCEPT ![s] = NoClaim]
        /\ \/ pendingRides[s] # NoClaim /\ CommitOnceAgentStarts(pendingRides[s], s, deliveries)
           \/ pendingRides[s] = NoClaim /\ launchRides' = launchRides /\ UNCHANGED claimVars
    BY <1>18 DEF Promoted
  <2>2. OpensOnly(deliveries')
    BY <1>0, <1>1, <1>2, <2>1, CommitOpens DEF claimVars
  <2>3. \A t \in Sessions : t # s \/ pendingRides[s] = NoClaim => launchRides'[t] = launchRides[t]
    BY <1>0, <2>1 DEF CommitOnceAgentStarts, Rides
  <2>4. \A t \in Sessions : Bare(t) => BareAfter(t)
    BY <1>0, <1>11, <2>1, <2>3 DEF Bare, BareAfter, Rides
  <2> QED  BY <2>1, <2>2, <2>4, OpeningSame
<1>19. ASSUME NEW s \in Sessions, AgentRan(s) \/ Closing(s) PROVE OpeningInv'
  <2>1. /\ OpensOnly(deliveries') /\ starting' = starting /\ prompt' = prompt
        /\ pendingRides' = pendingRides
        /\ \A t \in Sessions : sess[t] # "none" => sess'[t] # "none"
        /\ \A t \in Sessions : launchRides[t] = NoClaim => launchRides'[t] = NoClaim
    BY <1>0, <1>2, <1>19 DEF AgentRan, Closing, claimVars, rideVars, Rides, OtherTypes
  <2> QED  BY <2>1, OpeningSame DEF Bare, BareAfter
<1>20. ASSUME NEW s \in Sessions, SessionGone(s) PROVE OpeningInv'
  <2>1. /\ starting' = starting /\ prompt' = prompt
        /\ \A t \in Sessions : sess[t] # "none" => sess'[t] # "none"
        /\ \A t \in Sessions : pendingRides[t] = NoClaim => pendingRides'[t] = NoClaim
        /\ \A t \in Sessions : launchRides[t] = NoClaim => launchRides'[t] = NoClaim
    BY <1>0, <1>20 DEF SessionGone, RidesEnd, Rides, OtherTypes
  <2>2. \/ deliveries' = deliveries
        \/ pendingRides[s] # NoClaim /\ Release(pendingRides[s], TRUE, deliveries)
        \/ launchRides[s] # NoClaim /\ Release(launchRides[s], TRUE, deliveries)
    BY <1>20 DEF SessionGone, RidesEnd, SettleLaunchRide, claimVars
  <2>3. OpensOnly(deliveries')
    BY <1>0, <1>2, <1>3, <2>2 DEF Rides
  <2> QED  BY <2>1, <2>3, OpeningSame DEF Bare, BareAfter
<1>21. ASSUME NEW s \in Sessions, FlushTimer(s) PROVE OpeningInv'
  BY <1>4, <1>5, <1>21 DEF FlushTimer, rideVars
<1>22. CASE Restart
  BY <1>22, HeldAssumption DEF Restart, NoDelivery, OpeningInv
<1> QED  BY <1>6, <1>7, <1>8, <1>9, <1>10, <1>12, <1>13, <1>14, <1>16, <1>17, <1>18, <1>19, <1>20,
            <1>21, <1>22 DEF Next

-----------------------------------------------------------------------------
(* The invariant holds at the start. *)
LEMMA InvInit ==
  ASSUME Init
  PROVE  Inv
<1>1. HeldTypeOK /\ StartOK
  BY HeldAssumption DEF Init, HeldTypeOK, StartOK, NoDelivery
<1>2. CarryOK(open, startClaim, pendingRides, launchRides, deliveries)
  BY HeldAssumption DEF Init, CarryOK, NoDelivery
<1>3. \A s \in Sessions : SessionOK(s)
  BY DEF Init, SessionOK
<1>4. RowInv /\ WaitInv
  BY DEF Init, RowInv, RowsOK, RowOK, Free, WaitInv, NothingWaitsOnALiveAgent
<1>5. open = {}
  BY DEF Init
<1> QED  BY <1>1, <1>2, <1>3, <1>4, <1>5 DEF Inv, CarryInv

(* Every step keeps the invariant. *)
LEMMA InvNext ==
  ASSUME Inv, OpeningInv, [Next]_vars
  PROVE  Inv'
<1>1. ASSUME NEW s \in Sessions, NEW status \in {"queued", "running", "ended"},
             StartRides(s, status) \/ StartKeeps(s, status)
      PROVE  Inv'
  BY <1>1, RideStep, KeepStep
<1>2. ASSUME NEW c \in Claims, DeliveryTypes(c) \/ DeliveryReports(c) \/ OpeningReports(c)
      PROVE  Inv'
  BY <1>2, TypeStep, ReportStep, OpeningStep
<1>3. ASSUME NEW s \in Sessions,
             Promoted(s) \/ AgentRan(s) \/ Closing(s) \/ SessionGone(s) \/ FlushTimer(s)
      PROVE  Inv'
  BY <1>3, PromoteStep, RanStep, IdleStep, GoneStep, TimerStep
<1> QED  BY <1>1, <1>2, <1>3, HoldStep, ClearStep, IdleStep, BeginStep, FailStep, SendStep,
            RestartStep DEF Next

(* Claims, rides, rows, reservations, openings and counts stay in step. *)
THEOREM InvHolds == Spec => [](Inv /\ OpeningInv)
<1>1. Init => OpeningInv
  BY HeldAssumption DEF Init, OpeningInv, NoDelivery
<1> QED  BY <1>1, InvInit, InvNext, OpeningKept, PTL DEF Spec

-----------------------------------------------------------------------------
(* What the runs check. *)
(* The bookkeeping of the memory holds as long as a clear's write does not
   fail after the reservations are dropped. *)
THEOREM BookkeepingHolds ==
  ASSUME ~ClearsFail
  PROVE  Spec => []HeldInv
<1>1. Inv => HeldInv
  <2> SUFFICES ASSUME Inv PROVE ReservationsAreOwned
    BY DEF HeldInv, Inv, CarryInv
  <2>1. ASSUME NEW m \in Messages
        PROVE  /\ m \in reserved => m \in stuck \/ \E c \in open : m \in ids[c]
               /\ \A c, e \in open : m \in ids[c] /\ m \in ids[e] => e = c
    BY DEF Inv, RowInv, RowsOK, RowOK
  <2>2. reserved \subseteq Messages /\ \A c \in open : ids[c] \subseteq Messages
    BY InvFacts DEF ClaimTypes
  <2> QED  BY <2>1, <2>2 DEF ReservationsAreOwned
<1> QED  BY <1>1, InvHolds, PTL

(* No agent is given a message twice in one run of the app, but for what an
   opening typed and gave back (Heard, TakenBack). *)
THEOREM NoMessageTwice ==
  ASSUME ~ClearsFail
  PROVE  Spec => []DeliveredOnce
<1>1. Inv => DeliveredOnce
  BY DEF Inv, RowInv, RowsOK, RowOK, DeliveredOnce
<1> QED  BY <1>1, InvHolds, PTL

(* A held message does not wait on an agent that runs. *)
THEOREM LiveAgentsAreServed ==
  ASSUME ~ClearsFail
  PROVE  Spec => []NothingWaitsOnALiveAgent
<1>1. Inv => NothingWaitsOnALiveAgent
  BY DEF Inv, WaitInv
<1> QED  BY <1>1, InvHolds, PTL

(* A ride waits on a session that can still settle it, whatever fails. *)
THEOREM RidesAlwaysSettle == Spec => []RidesCanSettle
<1>1. Inv => RidesCanSettle
  BY DEF Inv, CarryInv, SessionOK, RidesCanSettle
<1> QED  BY <1>1, InvHolds, PTL

(* At most one thing has a property: how many have it. *)
LEMMA CountOne ==
  ASSUME NEW S, NEW T, T \subseteq S, \A x, y \in T : x = y
  PROVE  Cardinality(T) = IF T = {} THEN 0 ELSE 1
<1>1. CASE T = {}
  BY <1>1, FS_EmptySet
<1>2. CASE T # {}
  <2>1. PICK x \in T : T = {x}
    BY <1>2
  <2> QED  BY <1>2, <2>1, FS_Singleton
<1> QED  BY <1>1, <1>2

(* No claim is dropped with its rows reserved: exactly one thing carries each
   open claim, and nothing carries a settled one.  No write that fails spoils
   that. *)
THEOREM NoClaimIsDropped == Spec => []ClaimsAreCarried
<1>1. ASSUME CarryOK(open, startClaim, pendingRides, launchRides, deliveries), NEW c \in Claims
      PROVE  Carriers(c) = IF c \in open THEN 1 ELSE 0
  <2> DEFINE A == {x \in {1} : startClaim = c}
             B == {s \in Sessions : pendingRides[s] = c}
             L == {s \in Sessions : launchRides[s] = c}
             D == {x \in {1} : deliveries[c].stage # "none"}
  <2>1. /\ Cardinality(A) = IF A = {} THEN 0 ELSE 1
        /\ Cardinality(D) = IF D = {} THEN 0 ELSE 1
    BY CountOne
  <2>2. /\ \A x, y \in B : x = y
        /\ \A x, y \in L : x = y
    BY <1>1 DEF CarryOK
  <2>3. Cardinality(B) = IF B = {} THEN 0 ELSE 1
    BY <2>2, CountOne
  <2>4. Cardinality(L) = IF L = {} THEN 0 ELSE 1
    BY <2>2, CountOne
  <2>5. /\ A # {} <=> startClaim = c
        /\ B # {} <=> \E s \in Sessions : pendingRides[s] = c
        /\ L # {} <=> \E s \in Sessions : launchRides[s] = c
        /\ D # {} <=> deliveries[c].stage # "none"
    OBVIOUS
  <2>6. /\ c \in open <=> A # {} \/ B # {} \/ L # {} \/ D # {}
        /\ A # {} => B = {} /\ L = {} /\ D = {}
        /\ B # {} => L = {} /\ D = {}
        /\ L # {} => D = {}
    BY <1>1, <2>5 DEF CarryOK
  <2>7. Carriers(c) = Cardinality(A) + Cardinality(B) + Cardinality(L) + Cardinality(D)
    BY DEF Carriers
  <2> HIDE DEF A, B, L, D
  <2> QED  BY <2>1, <2>3, <2>4, <2>6, <2>7
<1>2. Inv => ClaimsAreCarried
  BY <1>1 DEF Inv, CarryInv, ClaimsAreCarried
<1> QED  BY <1>2, InvHolds, PTL

-----------------------------------------------------------------------------
(* A row that a settled claim changes was held, and reads its status. *)
LEMMA SettledRows ==
  ASSUME row \in [Messages -> Statuses], NEW c, NEW status, Settle(c, status),
         NEW m \in Messages, row'[m] # row[m]
  PROVE  m \in ids[c] /\ row[m] = "held" /\ row'[m] = status
BY DEF Settle, Moved

(* Giving a claim up writes no row. *)
LEMMA ReleasedRows ==
  ASSUME NEW c, NEW flush, NEW d, Release(c, flush, d)
  PROVE  row' = row
BY DEF Release

(* A step that is neither a hold nor a clear settles one claim at most, and
   does not bring the task to Done, but for a move that is undone. *)
SettlesOnly ==
  /\ \A m \in Messages : row'[m] # row[m] =>
       row[m] = "held" /\ row'[m] \in {"delivered", "failed"}
  /\ done' => done \/ MovesRollBack

(* A row changes when it is held, cleared with its task's move, or settled. *)
LEMMA RowsChange ==
  ASSUME row \in [Messages -> Statuses], [Next]_vars
  PROVE  \/ \E m \in Messages : HoldTaskMessage(m)
         \/ MoveAndClear
         \/ SettlesOnly
<1>1. ASSUME UNCHANGED claimVars, UNCHANGED done
      PROVE  SettlesOnly
  BY <1>1 DEF SettlesOnly, claimVars
<1>2. ASSUME NEW c, NEW status \in {"delivered", "failed"}, Settle(c, status), UNCHANGED done
      PROVE  SettlesOnly
  BY <1>2, SettledRows DEF SettlesOnly
<1>3. ASSUME NEW c, NEW flush, NEW d, Release(c, flush, d), UNCHANGED done
      PROVE  SettlesOnly
  BY <1>3, ReleasedRows DEF SettlesOnly
<1>4. ASSUME UNCHANGED <<row, done>>
      PROVE  SettlesOnly
  BY <1>4 DEF SettlesOnly
<1>5. CASE MoveOutOfDone \/ MoveEnds
  BY <1>5 DEF MoveOutOfDone, MoveEnds, SettlesOnly, claimVars
<1>6. CASE \/ StartFails \/ StartEnds \/ StartSends \/ BeginStart \/ Restart \/ UNCHANGED vars
           \/ \E kind \in {"awaited", "deferred"} : StartOpens(kind)
  BY <1>1, <1>3, <1>4, <1>6
     DEF StartFails, StartEnds, StartSends, StartOpens, BeginStart, Restart, vars, moveVars, claimVars
<1>7. ASSUME NEW s, NEW c, NEW status, NEW d, CommitWhenSessionRuns(c, s, status, d), UNCHANGED done
      PROVE  SettlesOnly
  BY <1>2, <1>3, <1>4, <1>7 DEF CommitWhenSessionRuns, CommitOnceAgentStarts
<1>8. ASSUME NEW s \in Sessions, NEW status \in {"queued", "running", "ended"},
             StartRides(s, status) \/ StartKeeps(s, status)
      PROVE  SettlesOnly
  BY <1>1, <1>3, <1>7, <1>8 DEF StartRides, StartKeeps, moveVars
<1>9. ASSUME NEW c \in Claims, DeliveryTypes(c) \/ DeliveryReports(c) \/ OpeningReports(c)
      PROVE  SettlesOnly
  BY <1>2, <1>3, <1>4, <1>7, <1>9 DEF DeliveryTypes, DeliveryReports, OpeningReports, moveVars
<1>10. ASSUME NEW s \in Sessions,
              Promoted(s) \/ AgentRan(s) \/ Closing(s) \/ SessionGone(s) \/ FlushTimer(s)
       PROVE  SettlesOnly
  <2>1. CASE Promoted(s)
    <3>1. CASE UNCHANGED claimVars
      BY <1>1, <2>1, <3>1 DEF Promoted, moveVars
    <3>2. CASE CommitOnceAgentStarts(pendingRides[s], s, deliveries)
      BY <1>2, <1>3, <1>4, <2>1, <3>2 DEF Promoted, CommitOnceAgentStarts, moveVars
    <3> QED  BY <2>1, <3>1, <3>2 DEF Promoted
  <2>2. CASE AgentRan(s)
    BY <1>1, <1>2, <2>2 DEF AgentRan, moveVars
  <2>3. CASE SessionGone(s)
    BY <1>1, <1>2, <1>3, <2>3 DEF SessionGone, RidesEnd, SettleLaunchRide, moveVars
  <2>4. CASE Closing(s) \/ FlushTimer(s)
    BY <1>1, <1>4, <2>4 DEF Closing, FlushTimer, moveVars
  <2> QED  BY <1>10, <2>1, <2>2, <2>3, <2>4
<1> QED  BY <1>5, <1>6, <1>8, <1>9, <1>10 DEF Next

(* What is delivered, failed or cleared stays so, whatever settles later. *)
THEOREM RowsSettleOnce == Spec => RowsMoveOnOnce
<1>1. Inv /\ [Next]_vars =>
        [\A m \in Messages : row[m] \in {"delivered", "failed", "cleared"} =>
          row'[m] = row[m]]_vars
  <2> SUFFICES ASSUME Inv, [Next]_vars, NEW m \in Messages,
                      row[m] \in {"delivered", "failed", "cleared"}
               PROVE  row'[m] = row[m]
    OBVIOUS
  <2>1. row \in [Messages -> Statuses]
    BY InvFacts DEF ClaimTypes
  <2>2. CASE \E n \in Messages : HoldTaskMessage(n)
    BY <2>1, <2>2 DEF HoldTaskMessage
  <2>3. CASE MoveAndClear
    BY <2>3 DEF MoveAndClear, ClearHeldMessages
  <2>4. CASE SettlesOnly
    BY <2>4 DEF SettlesOnly
  <2> QED  BY <2>1, <2>2, <2>3, <2>4, RowsChange
<1> QED  BY <1>1, InvHolds, PTL DEF Spec, RowsMoveOnOnce

(* Done holds nothing, unless a clear's write fails or a move out of Done is
   undone. *)
THEOREM DoneStaysEmpty ==
  ASSUME ~ClearsFail, ~MovesRollBack
  PROVE  Spec => []DoneHoldsNothing
<1>1. Init => DoneHoldsNothing
  BY DEF Init, DoneHoldsNothing
<1>2. Inv /\ DoneHoldsNothing /\ [Next]_vars => DoneHoldsNothing'
  <2> SUFFICES ASSUME Inv, DoneHoldsNothing, [Next]_vars
               PROVE  DoneHoldsNothing'
    OBVIOUS
  <2>1. row \in [Messages -> Statuses]
    BY InvFacts DEF ClaimTypes
  <2>2. CASE \E n \in Messages : HoldTaskMessage(n)
    BY <2>2 DEF HoldTaskMessage, moveVars, DoneHoldsNothing
  <2>3. CASE MoveAndClear
    BY <2>3 DEF MoveAndClear, ClearHeldMessages, DoneHoldsNothing
  <2>4. CASE SettlesOnly
    BY <2>4 DEF SettlesOnly, DoneHoldsNothing
  <2> QED  BY <2>1, <2>2, <2>3, <2>4, RowsChange
<1> QED  BY <1>1, <1>2, InvHolds, PTL DEF Spec

(* What an agent took in: a claim that is open and that is not fresh any more
   has been counted once. *)
LEMMA TakenInOnce ==
  ASSUME RowInv, NEW c \in open, NEW m \in ids[c], m \in Messages,
         ~Fresh(c, startClaim, pendingRides, launchRides, Heard, deliveries)
  PROVE  taken[m] = 1
BY DEF RowInv, RowsOK, RowOK, FreshOnes

(* Whose claim is open, and which of them no agent has taken in. *)
LEMMA Carried ==
  ASSUME Inv
  PROVE  LET F(c) == Fresh(c, startClaim, pendingRides, launchRides, Heard, deliveries) IN
         /\ startClaim # NoClaim => startClaim \in open /\ F(startClaim)
         /\ \A s \in Sessions :
              /\ pendingRides[s] # NoClaim => pendingRides[s] \in open /\ F(pendingRides[s])
              /\ launchRides[s] # NoClaim =>
                   launchRides[s] \in open /\ (s \notin Heard => F(launchRides[s]))
         /\ \A c \in Claims :
              deliveries[c].stage # "none" =>
                c \in open /\ (F(c) <=> deliveries[c].stage = "waiting")
<1>1. /\ CarryOK(open, startClaim, pendingRides, launchRides, deliveries)
      /\ startClaim \in Claims \cup {NoClaim} /\ pendingRides \in Rides /\ launchRides \in Rides
      /\ deliveries \in [Claims -> Deliveries]
  BY InvTypes DEF Inv, CarryInv
<1>2. startClaim # NoClaim => startClaim \in open
  BY <1>1, DropStart
<1>3. ASSUME NEW c \in Claims, deliveries[c].stage # "none"
      PROVE  /\ c \in open
             /\ Fresh(c, startClaim, pendingRides, launchRides, Heard, deliveries) <=>
                  deliveries[c].stage = "waiting"
  BY <1>1, <1>3 DEF CarryOK, Fresh, Deliveries
<1>4. \A s \in Sessions :
        /\ pendingRides[s] # NoClaim => pendingRides[s] \in open
        /\ launchRides[s] # NoClaim => launchRides[s] \in open
  BY <1>1, DropPending, DropLaunch
<1>5. /\ startClaim # NoClaim =>
           Fresh(startClaim, startClaim, pendingRides, launchRides, Heard, deliveries)
      /\ \A s \in Sessions :
           /\ Fresh(pendingRides[s], startClaim, pendingRides, launchRides, Heard, deliveries)
           /\ s \notin Heard =>
                Fresh(launchRides[s], startClaim, pendingRides, launchRides, Heard, deliveries)
  BY DEF Fresh
<1> QED  BY <1>2, <1>3, <1>4, <1>5

(* A message that is marked delivered has been put to an agent, or its launch's
   record has it. *)
LEMMA DeliveredStep ==
  ASSUME Inv, OpeningInv, ~ClearsFail, [Next]_vars, NEW m \in Messages,
         row[m] = "held", row'[m] = "delivered"
  PROVE  taken'[m] > 0 \/ m \in replayed'
<1>0. /\ ClaimTypes /\ OtherTypes /\ StartOK /\ \A t \in Sessions : SessionOK(t)
      /\ CarryOK(open, startClaim, pendingRides, launchRides, deliveries)
      /\ deliveries \in [Claims -> Deliveries] /\ open \in SUBSET Claims
      /\ pendingRides \in Rides /\ launchRides \in Rides /\ taken[m] \in Nat
      /\ row \in [Messages -> Statuses] /\ RowInv
  BY InvFacts DEF Inv, OtherTypes, ClaimTypes
<1>1. row' # row /\ ~\E c, status : Settle(c, status) /\ status # "delivered"
  BY <1>0, SettledRows
<1>2. ASSUME NEW c, NEW status, Settle(c, status) PROVE m \in ids[c]
  BY <1>0, <1>2, SettledRows
<1>3. ASSUME NEW s \in Sessions, NEW line, Spawned(s, "running", line), ~AgentStartPending(s),
             m \in line
      PROVE  taken'[m] > 0
  BY <1>0, <1>3 DEF Spawned
<1>4. ASSUME NEW s \in Sessions, NEW c, NEW d, CommitOnceAgentStarts(c, s, d)
      PROVE  ~AgentStartPending(s) /\ m \in ids[c]
  BY <1>1, <1>2, <1>4, ReleasedRows DEF CommitOnceAgentStarts
<1>5. ASSUME NEW s \in Sessions, NEW status \in {"queued", "running", "ended"}, StartRides(s, status)
      PROVE  taken'[m] > 0
  <2>1. Spawned(s, status, ids[startClaim]) /\ CommitWhenSessionRuns(startClaim, s, status, deliveries)
    BY <1>5 DEF StartRides
  <2>2. status = "running" /\ CommitOnceAgentStarts(startClaim, s, deliveries)
    BY <1>1, <2>1, ReleasedRows DEF CommitWhenSessionRuns
  <2> QED  BY <1>3, <1>4, <2>1, <2>2
<1>6. ASSUME NEW s \in Sessions, Promoted(s) PROVE taken'[m] > 0
  <2>1. /\ Spawned(s, "running", prompt[s]) /\ CommitOnceAgentStarts(pendingRides[s], s, deliveries)
        /\ prompt[s] = ids[pendingRides[s]]
    BY <1>0, <1>1, <1>6 DEF Promoted, claimVars, SessionOK
  <2> QED  BY <1>3, <1>4, <2>1
<1>7. ASSUME NEW s \in Sessions, AgentRan(s) PROVE taken'[m] > 0
  <2>1. /\ launchRides[s] # NoClaim /\ Settle(launchRides[s], "delivered")
        /\ prompt[s] \in {{}, ids[launchRides[s]]}
    BY <1>0, <1>1, <1>7 DEF AgentRan, claimVars, SessionOK
  <2>2. m \in ids[launchRides[s]] /\ launchRides[s] \in open
    BY <1>2, <2>1, Carried
  <2>3. CASE m \in prompt[s]
    <3>1. taken'[m] = taken[m] + 1
      BY <1>7, <2>3 DEF AgentRan
    <3> QED  BY <1>0, <3>1
  <2>4. CASE m \notin prompt[s]
    <3>1. s \in Heard
      BY <2>1, <2>2, <2>4 DEF Heard
    <3>2. ~Fresh(launchRides[s], startClaim, pendingRides, launchRides, Heard, deliveries)
      BY <1>0, <2>1, <2>2, <3>1 DEF Fresh, CarryOK
    <3>3. taken[m] = 1
      BY <1>0, <2>2, <3>2, TakenInOnce
    <3> QED  BY <1>7, <2>4, <3>3 DEF AgentRan
  <2> QED  BY <2>3, <2>4
<1>8. ASSUME NEW s \in Sessions, SessionGone(s) PROVE taken'[m] > 0 \/ m \in replayed'
  <2> DEFINE c == launchRides[s]
  <2>1. /\ c # NoClaim /\ Settle(c, "delivered") /\ taken' = taken
        /\ replayed' = IF AgentStartPending(s) THEN replayed \cup ids[c] ELSE replayed
    BY <1>1, <1>8, ReleasedRows DEF SessionGone, RidesEnd, SettleLaunchRide, claimVars
  <2>2. m \in ids[c] /\ c \in Claims /\ s \in ReportsStart /\ c \in open
    BY <1>0, <1>2, <2>1, Carried DEF Rides, SessionOK
  <2>3. CASE AgentStartPending(s)
    BY <2>1, <2>2, <2>3
  <2>4. CASE s \in shown
    <3>1. s \in Heard
      BY <2>4 DEF Heard
    <3>2. ~Fresh(c, startClaim, pendingRides, launchRides, Heard, deliveries)
      BY <1>0, <2>1, <2>2, <3>1 DEF Fresh, CarryOK
    <3>3. taken[m] = 1
      BY <1>0, <2>2, <3>2, TakenInOnce
    <3> QED  BY <2>1, <3>3
  <2> QED  BY <2>2, <2>3, <2>4 DEF AgentStartPending
<1>9. ASSUME NEW c \in Claims, DeliveryReports(c) \/ OpeningReports(c) PROVE taken'[m] > 0
  <2>1. /\ deliveries[c].stage = "typed" /\ taken' = taken
        /\ \E e, status : Settle(e, status) /\ m \in ids[e] /\ e = c
    <3>1. CASE DeliveryReports(c)
      BY <1>1, <1>2, <3>1, ReleasedRows DEF DeliveryReports
    <3>2. CASE OpeningReports(c)
      <4>1. ASSUME CommitWhenSessionRuns(c, deliveries[c].to, "running",
                                         [deliveries EXCEPT ![c] = NoDelivery])
            PROVE  Settle(c, "delivered")
        BY <1>1, <4>1, ReleasedRows DEF CommitWhenSessionRuns, CommitOnceAgentStarts
      <4> QED  BY <1>1, <1>2, <3>2, <4>1, ReleasedRows DEF OpeningReports
    <3> QED  BY <1>9, <3>1, <3>2
  <2>2. m \in ids[c] /\ c \in open /\ ~Fresh(c, startClaim, pendingRides, launchRides, Heard, deliveries)
    BY <2>1, Carried
  <2>3. taken[m] = 1
    BY <1>0, <2>2, TakenInOnce
  <2> QED  BY <2>1, <2>3
<1>10. ASSUME NEW n \in Messages, HoldTaskMessage(n) PROVE FALSE
  BY <1>0, <1>10 DEF HoldTaskMessage
<1>11. CASE MoveAndClear
  BY <1>11 DEF MoveAndClear, ClearHeldMessages
<1>12. CASE \/ MoveOutOfDone \/ MoveEnds \/ BeginStart \/ StartSends \/ Restart \/ UNCHANGED vars
            \/ \E kind \in {"awaited", "deferred"} : StartOpens(kind)
  BY <1>1, <1>12 DEF MoveOutOfDone, MoveEnds, BeginStart, StartSends, StartOpens, Restart, vars, claimVars
<1>13. CASE StartFails \/ StartEnds
  BY <1>1, <1>13, ReleasedRows DEF StartFails, StartEnds, claimVars
<1>14. ASSUME NEW s \in Sessions, NEW status \in {"queued", "running", "ended"}, StartKeeps(s, status)
       PROVE  FALSE
  BY <1>1, <1>14, ReleasedRows DEF StartKeeps, claimVars
<1>15. ASSUME NEW c \in Claims, DeliveryTypes(c) PROVE FALSE
  BY <1>1, <1>15 DEF DeliveryTypes
<1>16. ASSUME NEW s \in Sessions, Closing(s) \/ FlushTimer(s) PROVE FALSE
  BY <1>1, <1>16 DEF Closing, FlushTimer, claimVars
<1> QED  BY <1>5, <1>6, <1>7, <1>8, <1>9, <1>10, <1>11, <1>12, <1>13, <1>14, <1>15, <1>16 DEF Next

(* "Delivered" is never said of a message that no agent took in, or that an
   opening gave back since, and that no record will replay, as long as no clear's
   write fails. *)
THEOREM DeliveredMeansTaken ==
  ASSUME ~ClearsFail
  PROVE  Spec => DeliveredWasTaken
<1>1. Inv /\ OpeningInv /\ [Next]_vars =>
        [\A m \in Messages :
           (row[m] = "held" /\ row'[m] = "delivered") => taken'[m] > 0 \/ m \in replayed']_vars
  BY DeliveredStep
<1> QED  BY <1>1, InvHolds, PTL DEF Spec, DeliveredWasTaken
-----------------------------------------------------------------------------
(* MessageContract.  Each message's status is followed through a settlement, a
   release and a flush; every action is then one step of the contract. *)

(* The status of m by the row r, the reservations res, the rows stk whose write
   failed and the counts tk. *)
StatusOf(m, r, res, stk, tk) ==
  IF r[m] # "held" THEN r[m]
  ELSE IF m \in stk THEN "stuck"
  ELSE IF m \notin res THEN "waiting"
  ELSE IF tk[m] = 0 THEN "carried" ELSE "read"

(* A step of the contract, or none. *)
Keeps == Contract!ContractNext \/ UNCHANGED Contract!contractVars

(* Status, read from the row and the memory. *)
LEMMA StatusIs ==
  /\ Status = [m \in Messages |-> StatusOf(m, row, reserved, stuck, taken)]
  /\ Status' = [m \in Messages |-> StatusOf(m, row', reserved', stuck', taken')]
BY DEF Status, StatusOf

(* What the invariant says of a message's status. *)
LEMMA StatusFacts ==
  ASSUME NEW r, NEW res, NEW op, NEW i, NEW stk, NEW tk, NEW fresh, NEW m,
         RowOK(m, r, res, op, i, stk, tk, fresh)
  PROVE  /\ r[m] = "held" /\ m \notin res => m \notin stk /\ tk[m] = 0 /\ \A c \in op : m \notin i[c]
         /\ \A c \in op : m \in i[c] =>
              /\ r[m] \in {"held", "cleared"}
              /\ r[m] = "held" => m \in res /\ m \notin stk
              /\ tk[m] = IF c \in fresh THEN 0 ELSE 1
BY DEF RowOK, Free

(* No agent has taken in what a fresh claim carries. *)
LEMMA FreshRows ==
  ASSUME Inv, ~ClearsFail, NEW c \in open,
         Fresh(c, startClaim, pendingRides, launchRides, Heard, deliveries)
  PROVE  \A m \in Messages : m \in ids[c] =>
           /\ row[m] \in {"held", "cleared"} /\ taken[m] = 0
           /\ row[m] = "held" => m \in reserved /\ m \notin stuck
<1> DEFINE fresh == FreshOnes(startClaim, pendingRides, launchRides, Heard, deliveries)
<1>1. c \in fresh /\ RowsOK(row, reserved, open, ids, stuck, taken, fresh)
  BY InvTypes DEF Inv, RowInv, FreshOnes
<1> HIDE DEF fresh
<1> QED  BY <1>1, StatusFacts DEF RowsOK

(* Nothing that is said of the messages changes. *)
LEMMA SameStatus ==
  ASSUME UNCHANGED <<row, reserved, stuck, taken>>
  PROVE  UNCHANGED Contract!contractVars
BY StatusIs DEF Contract!contractVars

(* A flush hands over all that waits, or nothing. *)
LEMMA FlushMoves ==
  ASSUME NEW res, NEW op, NEW d, FlushHeldIfLive(res, op, d), NEW fresh,
         RowsOK(row', res, op, ids, stuck, taken', fresh), stuck' = stuck,
         row' \in [Messages -> Statuses],
         NEW before, before = [m \in Messages |-> StatusOf(m, row', res, stuck, taken')]
  PROVE  \/ Status' = before
         \/ Status' = [m \in Messages |-> IF before[m] = "waiting" THEN "carried" ELSE before[m]]
<1>1. CASE reserved' = res
  BY <1>1, StatusIs
<1>2. CASE reserved' = res \cup Claimable(res)
  <2>1. ASSUME NEW m \in Messages
        PROVE  StatusOf(m, row', reserved', stuck', taken') =
                 IF before[m] = "waiting" THEN "carried" ELSE before[m]
    <3>1. row'[m] = "held" /\ m \notin res => m \notin stuck /\ taken'[m] = 0
      BY StatusFacts DEF RowsOK
    <3>2. m \in reserved' <=> m \in res \/ row'[m] = "held"
      BY <1>2 DEF Claimable
    <3>3. before[m] = StatusOf(m, row', res, stuck, taken')
      OBVIOUS
    <3>4. row'[m] # "waiting"
      BY DEF Statuses
    <3> QED  BY <3>1, <3>2, <3>3, <3>4 DEF StatusOf
  <2> QED  BY <2>1, StatusIs
<1> QED  BY <1>1, <1>2 DEF FlushHeldIfLive, Claim

(* A claim is given up, once what it carries counts as not taken in: its messages
   wait again, or go to the agent that runs, with all that waits. *)
LEMMA GivenUp ==
  ASSUME Inv, NEW c \in open, NEW flush \in BOOLEAN, NEW d, Release(c, flush, d), NEW fresh,
         RowsOK(row, reserved \ ids[c], open \ {c}, ids, stuck, taken', fresh),
         \A m \in Messages : m \notin Load(c) => taken'[m] = taken[m],
         \A m \in Load(c) : m \notin stuck
  PROVE  \/ Status' = [m \in Messages |-> IF m \in Load(c) THEN "waiting" ELSE Status[m]]
         \/ Status' = [m \in Messages |-> IF m \in Load(c) \/ Status[m] = "waiting"
                                          THEN "carried" ELSE Status[m]]
<1> DEFINE before == [m \in Messages |-> StatusOf(m, row, reserved \ ids[c], stuck, taken')]
<1>1. /\ row \in [Messages -> Statuses] /\ row' = row /\ stuck' = stuck
      /\ Load(c) \in SUBSET Messages
  BY InvFacts DEF Release, ClaimTypes, Load
<1>2. ASSUME NEW m \in Messages
      PROVE  /\ m \in Load(c) => before[m] = "waiting"
             /\ m \notin Load(c) => before[m] = Status[m]
  <2>1. Status[m] = StatusOf(m, row, reserved, stuck, taken)
    BY StatusIs
  <2>2. before[m] = StatusOf(m, row, reserved \ ids[c], stuck, taken')
    OBVIOUS
  <2> HIDE DEF before
  <2> QED  BY <1>1, <2>1, <2>2 DEF Load, StatusOf
<1>3. before = [m \in Messages |-> IF m \in Load(c) THEN "waiting" ELSE Status[m]]
  BY <1>2
<1>4. CASE ~flush
  BY <1>1, <1>3, <1>4, StatusIs DEF Release
<1>5. CASE flush
  <2>1. FlushHeldIfLive(reserved \ ids[c], open \ {c}, d)
    BY <1>5 DEF Release
  <2>2. before = [m \in Messages |-> StatusOf(m, row', reserved \ ids[c], stuck, taken')]
    BY <1>1
  <2>3. RowsOK(row', reserved \ ids[c], open \ {c}, ids, stuck, taken', fresh)
    BY <1>1
  <2>4. row' \in [Messages -> Statuses]
    BY <1>1
  <2> HIDE DEF before
  <2>5. \/ Status' = before
        \/ Status' = [m \in Messages |-> IF before[m] = "waiting" THEN "carried" ELSE before[m]]
    BY <1>1, <2>1, <2>2, <2>3, <2>4, FlushMoves
  <2> QED  BY <1>2, <1>3, <2>5
<1> QED  BY <1>4, <1>5

(* A claim that no agent took in is released. *)
LEMMA ReleaseMoves ==
  ASSUME Inv, ~ClearsFail, NEW c \in open, NEW flush \in BOOLEAN, NEW d, Release(c, flush, d),
         Fresh(c, startClaim, pendingRides, launchRides, Heard, deliveries), taken' = taken
  PROVE  Keeps
<1> DEFINE fresh == FreshOnes(startClaim, pendingRides, launchRides, Heard, deliveries)
<1>1. c \in fresh /\ RowsOK(row, reserved, open, ids, stuck, taken, fresh)
  BY InvTypes DEF Inv, RowInv, FreshOnes
<1> HIDE DEF fresh
<1>2. RowsOK(row, reserved \ ids[c], open \ {c}, ids, stuck, taken', fresh)
  BY <1>1, RowsReleased
<1>3. /\ Load(c) \in SUBSET Messages
      /\ \A m \in Load(c) : m \notin stuck /\ Status[m] = "carried"
  BY FreshRows, StatusIs DEF Load, StatusOf
<1>4. CASE Status' = [m \in Messages |-> IF m \in Load(c) THEN "waiting" ELSE Status[m]]
  BY <1>3, <1>4 DEF Keeps, Contract!ContractNext, Contract!GiveBack, Contract!Move,
                    Contract!Those
<1>5. CASE Status' = [m \in Messages |-> IF m \in Load(c) \/ Status[m] = "waiting"
                                         THEN "carried" ELSE Status[m]]
  <2>1. Status' = [m \in Messages |-> IF Status[m] = "waiting" THEN "carried" ELSE Status[m]]
    BY <1>3, <1>5
  <2> QED  BY <2>1 DEF Keeps, Contract!ContractNext, Contract!HandOver, Contract!Move,
                       Contract!Those
<1> QED  BY <1>2, <1>3, <1>4, <1>5, GivenUp

(* A claim that an opening typed is given back, and counted anew. *)
LEMMA TakeBackMoves ==
  ASSUME Inv, ~ClearsFail, NEW c \in open, NEW flush \in BOOLEAN, NEW d, Release(c, flush, d),
         ~Fresh(c, startClaim, pendingRides, launchRides, Heard, deliveries), TakenBack(Load(c))
  PROVE  Keeps
<1> DEFINE fresh == FreshOnes(startClaim, pendingRides, launchRides, Heard, deliveries)
<1>1. RowsOK(row, reserved, open, ids, stuck, taken, fresh) /\ RowInv
  BY DEF Inv, RowInv
<1> HIDE DEF fresh
<1>2. \A m \in Messages : taken'[m] = IF m \in ids[c] /\ row[m] = "held" THEN 0 ELSE taken[m]
  BY DEF TakenBack, Load
<1>3. RowsOK(row, reserved \ ids[c], open \ {c}, ids, stuck, taken', fresh)
  BY <1>1, <1>2, RowsGivenBack
<1>4. \A m \in Load(c) : m \in Messages /\ row[m] = "held" /\ m \in reserved /\ m \notin stuck
  BY <1>1, StatusFacts DEF RowsOK, Load
<1>5. Load(c) \in SUBSET Messages /\ \A m \in Load(c) : Status[m] = "read"
  <2>1. \A m \in Load(c) : taken[m] = 1
    BY <1>1, TakenInOnce DEF Load
  <2> QED  BY <1>4, <2>1, StatusIs DEF StatusOf
<1>6. \A m \in Messages : m \notin Load(c) => taken'[m] = taken[m]
  BY <1>2 DEF Load
<1>7. CASE Status' = [m \in Messages |-> IF m \in Load(c) THEN "waiting" ELSE Status[m]]
  BY <1>5, <1>7 DEF TakenBack, Keeps, Contract!ContractNext, Contract!TakeBack, Contract!Move,
                    Contract!Those
<1>8. CASE Status' = [m \in Messages |-> IF m \in Load(c) \/ Status[m] = "waiting"
                                         THEN "carried" ELSE Status[m]]
  <2>1. Status' = [m \in Messages |-> IF m \in Load(c) \cup Contract!Those({"waiting"})
                                      THEN "carried" ELSE Status[m]]
    BY <1>8 DEF Contract!Those
  <2> QED  BY <1>5, <2>1 DEF TakenBack, Keeps, Contract!ContractNext, Contract!TakeBack,
                             Contract!Move, Contract!Those
<1> QED  BY <1>3, <1>4, <1>6, <1>7, <1>8, GivenUp

(* A claim is settled: what of it is held reads as the write says, or stays
   held, and is not put to an agent again. *)
LEMMA SettleMoves ==
  ASSUME Inv, ~ClearsFail, NEW c \in open, NEW status \in {"delivered", "failed"},
         Settle(c, status),
         taken' \in [Messages -> Nat], \A m \in Messages : m \notin ids[c] => taken'[m] = taken[m]
  PROVE  /\ Load(c) \in SUBSET Messages
         /\ \E to \in {status, "stuck"} :
              Status' = [m \in Messages |-> IF m \in Load(c) THEN to ELSE Status[m]]
         /\ \A m \in Load(c) : Status[m] = IF taken[m] = 0 THEN "carried" ELSE "read"
         /\ \A m \in Messages : m \in ids[c] /\ m \notin Load(c) => Status[m] = "cleared"
<1>1. /\ ClaimTypes
      /\ \A m \in Messages : m \in ids[c] =>
           /\ row[m] \in {"held", "cleared"}
           /\ row[m] = "held" => m \in reserved /\ m \notin stuck
  BY InvFacts, StatusFacts DEF Inv, RowInv, RowsOK
<1>2. \A m \in Messages : Status[m] = StatusOf(m, row, reserved, stuck, taken)
  BY StatusIs
<1>3. CASE row' = Moved(c, status) /\ reserved' = reserved \ ids[c] /\ stuck' = stuck
  <2>1. ASSUME NEW m \in Messages
        PROVE  StatusOf(m, row', reserved', stuck', taken') =
                 IF m \in Load(c) THEN status ELSE Status[m]
    <3>1. row'[m] = IF m \in Load(c) THEN status ELSE row[m]
      BY <1>3 DEF Moved, Load
    <3> QED  BY <1>1, <1>2, <1>3, <3>1 DEF StatusOf, Load
  <2>2. Status' = [m \in Messages |-> IF m \in Load(c) THEN status ELSE Status[m]]
    BY <2>1, StatusIs
  <2> QED  BY <1>1, <1>2, <2>2 DEF Load, StatusOf
<1>4. CASE row' = row /\ reserved' = reserved /\ stuck' = stuck \cup ids[c]
  <2>1. ASSUME NEW m \in Messages
        PROVE  StatusOf(m, row', reserved', stuck', taken') =
                 IF m \in Load(c) THEN "stuck" ELSE Status[m]
    BY <1>1, <1>2, <1>4 DEF StatusOf, Load
  <2>2. Status' = [m \in Messages |-> IF m \in Load(c) THEN "stuck" ELSE Status[m]]
    BY <2>1, StatusIs
  <2> QED  BY <1>1, <1>2, <2>2 DEF Load, StatusOf
<1> QED  BY <1>3, <1>4 DEF Settle

(* A settlement in a step of its own: an agent has the messages, or the record
   of their launch has, or they failed. *)
LEMMA SettledMoves ==
  ASSUME Inv, ~ClearsFail, NEW c \in open, NEW status \in {"delivered", "failed"},
         Settle(c, status), taken' = taken
  PROVE  Keeps
<1>1. /\ Load(c) \in SUBSET Messages
      /\ \E to \in {status, "stuck"} :
           Status' = [m \in Messages |-> IF m \in Load(c) THEN to ELSE Status[m]]
      /\ \A m \in Load(c) : Status[m] = IF taken[m] = 0 THEN "carried" ELSE "read"
  BY SettleMoves, InvTypes DEF Inv
<1>2. CASE Fresh(c, startClaim, pendingRides, launchRides, Heard, deliveries)
  <2>1. \A m \in Messages : m \in ids[c] => taken[m] = 0
    BY <1>2, FreshRows
  <2>2. \A m \in Load(c) : m \in Messages /\ Status[m] = "carried"
    BY <1>1, <2>1 DEF Load
  <2> QED  BY <1>1, <1>2, <2>2 DEF Keeps, Contract!ContractNext, Contract!Settle, Contract!Move,
                                 Contract!Those
<1>3. CASE ~Fresh(c, startClaim, pendingRides, launchRides, Heard, deliveries)
  <2>1. \A m \in Messages : m \in ids[c] => taken[m] = 1
    BY <1>3, TakenInOnce DEF Inv
  <2>2. \A m \in Load(c) : m \in Messages /\ Status[m] = "read"
    BY <1>1, <2>1 DEF Load
  <2> QED  BY <1>1, <2>2 DEF Keeps, Contract!ContractNext, Contract!Settle, Contract!Move,
                                 Contract!Those
<1> QED  BY <1>2, <1>3

(* Once more is counted of what c carries. *)
TakenUp(c) == taken' = [m \in Messages |-> IF m \in ids[c] THEN taken[m] + 1 ELSE taken[m]]

(* An agent takes a claim in, and the claim is settled at once or later. *)
LEMMA TakeMoves ==
  ASSUME Inv, ~ClearsFail, NEW c \in open, TakenUp(c),
         Fresh(c, startClaim, pendingRides, launchRides, Heard, deliveries),
         Settle(c, "delivered") \/ UNCHANGED <<row, reserved, stuck>>
  PROVE  Keeps
<1>1. /\ taken \in [Messages -> Nat] /\ ids[c] \in SUBSET Messages
      /\ \A m \in Messages : m \in ids[c] =>
           /\ row[m] \in {"held", "cleared"} /\ taken[m] = 0
           /\ row[m] = "held" => m \in reserved /\ m \notin stuck
  BY InvTypes, FreshRows DEF Inv, ClaimTypes
<1>2. /\ taken' \in [Messages -> Nat]
      /\ \A m \in Messages : taken'[m] = IF m \in ids[c] THEN taken[m] + 1 ELSE taken[m]
  BY <1>1 DEF TakenUp
<1>3. \A m \in Messages : Status[m] = StatusOf(m, row, reserved, stuck, taken)
  BY StatusIs
<1>4. \A m \in ids[c] : Status[m] = IF m \in Load(c) THEN "carried" ELSE "cleared"
  BY <1>1, <1>3 DEF Load, StatusOf
<1>5. ids[c] \cap Contract!Those({"carried"}) = Load(c)
  BY <1>1, <1>4 DEF Load, Contract!Those
<1>6. /\ ids[c] \in SUBSET Messages
      /\ ids[c] \subseteq Contract!Those({"carried", "cleared"})
      /\ \A m \in ids[c] : taken[m] = 0
  BY <1>1, <1>4 DEF Contract!Those
<1>7. \E to \in {"read", "delivered", "stuck"} :
        Status' = [m \in Messages |-> IF m \in Load(c) THEN to ELSE Status[m]]
  <2>1. CASE Settle(c, "delivered")
    BY <1>2, <2>1, SettleMoves
  <2>2. CASE UNCHANGED <<row, reserved, stuck>>
    <3>1. ASSUME NEW m \in Messages
          PROVE  StatusOf(m, row', reserved', stuck', taken') =
                   IF m \in Load(c) THEN "read" ELSE Status[m]
      BY <1>1, <1>2, <1>3, <2>2 DEF StatusOf, Load
    <3>2. Status' = [m \in Messages |-> IF m \in Load(c) THEN "read" ELSE Status[m]]
      BY <3>1, StatusIs
    <3> QED  BY <3>2
  <2> QED  BY <2>1, <2>2
<1>8. Contract!TakeIn(ids[c])
  BY <1>5, <1>6, <1>7 DEF TakenUp, Contract!TakeIn, Contract!Move
<1> QED  BY <1>6, <1>8 DEF Keeps, Contract!ContractNext

(* The start's steps: a hold, a claim, a start that fails, ends or sends. *)
LEMMA HoldMoves ==
  ASSUME Inv, ~ClearsFail, NEW m \in Messages, HoldTaskMessage(m)
  PROVE  Keeps
<1> DEFINE fresh == FreshOnes(startClaim, pendingRides, launchRides, Heard, deliveries)
           before == [n \in Messages |-> StatusOf(n, row', reserved, stuck, taken')]
<1>1. /\ UNCHANGED <<taken, stuck>> /\ FlushHeldIfLive(reserved, open, deliveries)
      /\ row' = [row EXCEPT ![m] = "held"] /\ row[m] = "new"
      /\ row \in [Messages -> Statuses] /\ row' \in [Messages -> Statuses]
      /\ RowsOK(row, reserved, open, ids, stuck, taken, fresh)
  BY InvTypes DEF HoldTaskMessage, Inv, RowInv, Statuses
<1> HIDE DEF fresh
<1>2. RowsOK(row', reserved, open, ids, stuck, taken', fresh)
  BY <1>1, RowsHeld
<1>3. m \notin reserved /\ m \notin stuck
  BY <1>1 DEF RowsOK, RowOK, Free
<1>4. /\ Status[m] = "new" /\ before[m] = "waiting"
      /\ \A n \in Messages : n # m => before[n] = Status[n]
  BY <1>1, <1>3, StatusIs DEF StatusOf
<1>5. CASE Status' = before
  <2>1. Status' = [n \in Messages |-> IF n \in {m} THEN "waiting" ELSE Status[n]]
    BY <1>4, <1>5
  <2> QED  BY <1>1, <1>4, <2>1 DEF Keeps, Contract!ContractNext, Contract!Hold, Contract!Move
<1>6. CASE Status' = [n \in Messages |-> IF before[n] = "waiting" THEN "carried" ELSE before[n]]
  <2>1. Status' = [n \in Messages |-> IF n \in {m} \cup Contract!Those({"waiting"})
                                      THEN "carried" ELSE Status[n]]
    BY <1>4, <1>6 DEF Contract!Those
  <2> QED  BY <1>1, <1>4, <2>1 DEF Keeps, Contract!ContractNext, Contract!Hold, Contract!Move
<1> HIDE DEF before
<1>7. before = [n \in Messages |-> StatusOf(n, row', reserved, stuck, taken')]
  BY DEF before
<1>8. stuck' = stuck /\ row' \in [Messages -> Statuses]
  BY <1>1
<1>9. FlushHeldIfLive(reserved, open, deliveries)
  BY <1>1
<1>10. \/ Status' = before
       \/ Status' = [n \in Messages |-> IF before[n] = "waiting" THEN "carried" ELSE before[n]]
  BY <1>2, <1>7, <1>8, <1>9, FlushMoves
<1> QED  BY <1>5, <1>6, <1>10

(* A flush on its own, or a start's claim: all that waits is carried. *)
LEMMA HandOverMoves ==
  ASSUME Inv, ~ClearsFail, UNCHANGED <<row, stuck, taken>>,
         \/ FlushHeldIfLive(reserved, open, deliveries)
         \/ reserved' = reserved
         \/ reserved' = reserved \cup Claimable(reserved)
  PROVE  Keeps
<1> DEFINE fresh == FreshOnes(startClaim, pendingRides, launchRides, Heard, deliveries)
<1>1. row \in [Messages -> Statuses] /\ RowsOK(row, reserved, open, ids, stuck, taken, fresh)
  BY InvTypes DEF Inv, RowInv
<1> HIDE DEF fresh
<1>2. CASE reserved' = reserved
  BY <1>2, SameStatus DEF Keeps
<1>3. CASE reserved' = reserved \cup Claimable(reserved)
  <2>1. ASSUME NEW m \in Messages
        PROVE  StatusOf(m, row', reserved', stuck', taken') =
                 IF Status[m] = "waiting" THEN "carried" ELSE Status[m]
    <3>1. row[m] = "held" /\ m \notin reserved => m \notin stuck /\ taken[m] = 0
      BY <1>1, StatusFacts DEF RowsOK
    <3>2. m \in reserved' <=> m \in reserved \/ row[m] = "held"
      BY <1>3 DEF Claimable
    <3>3. Status[m] = StatusOf(m, row, reserved, stuck, taken)
      BY StatusIs
    <3>4. row[m] # "waiting"
      BY <1>1 DEF Statuses
    <3> QED  BY <3>1, <3>2, <3>3, <3>4 DEF StatusOf
  <2>2. Status' = [m \in Messages |-> IF Status[m] = "waiting" THEN "carried" ELSE Status[m]]
    BY <2>1, StatusIs
  <2> QED  BY <2>2 DEF Keeps, Contract!ContractNext, Contract!HandOver, Contract!Move,
                       Contract!Those
<1> QED  BY <1>2, <1>3 DEF FlushHeldIfLive, Claim

(* A clear takes all that is not settled, whoever carries it. *)
LEMMA ClearMoves ==
  ASSUME Inv, ~ClearsFail, MoveAndClear
  PROVE  Keeps
<1>1. /\ row' = [m \in Messages |-> IF row[m] = "held" THEN "cleared" ELSE row[m]]
      /\ UNCHANGED <<stuck, taken>> /\ row \in [Messages -> Statuses]
  BY InvTypes DEF MoveAndClear, ClearHeldMessages, Inv
<1>2. ASSUME NEW m \in Messages
      PROVE  StatusOf(m, row', reserved', stuck', taken') =
               IF Status[m] \in Contract!Unsettled THEN "cleared" ELSE Status[m]
  <2>1. Status[m] = StatusOf(m, row, reserved, stuck, taken)
    BY StatusIs
  <2> QED  BY <1>1, <2>1 DEF StatusOf, Statuses, Contract!Unsettled
<1>3. Status' = [m \in Messages |-> IF Status[m] \in Contract!Unsettled THEN "cleared" ELSE Status[m]]
  BY <1>2, StatusIs
<1> QED  BY <1>1, <1>3 DEF Keeps, Contract!ContractNext, Contract!Clear, Contract!Move,
                           Contract!Those

(* A restart puts back what is not settled. *)
LEMMA RestartMoves ==
  ASSUME Inv, Restart
  PROVE  Keeps
<1>1. /\ row' = row /\ reserved' = {} /\ stuck' = {} /\ taken' = [m \in Messages |-> 0]
      /\ row \in [Messages -> Statuses]
  BY InvTypes DEF Restart, Inv
<1>2. ASSUME NEW m \in Messages
      PROVE  StatusOf(m, row', reserved', stuck', taken') =
               IF Status[m] \in Contract!Unsettled THEN "waiting" ELSE Status[m]
  <2>1. Status[m] = StatusOf(m, row, reserved, stuck, taken)
    BY StatusIs
  <2> QED  BY <1>1, <2>1 DEF StatusOf, Statuses, Contract!Unsettled
<1>3. Status' = [m \in Messages |-> IF Status[m] \in Contract!Unsettled THEN "waiting" ELSE Status[m]]
  BY <1>2, StatusIs
<1> QED  BY <1>1, <1>3 DEF Keeps, Contract!ContractNext, Contract!StartOver, Contract!Move,
                           Contract!Those

(* The session's steps: what it spawns with, starts with, shows and ends with. *)
LEMMA SpawnMoves ==
  ASSUME Inv, ~ClearsFail, NEW s \in Sessions, NEW status \in {"queued", "running", "ended"},
         StartRides(s, status) \/ StartKeeps(s, status)
  PROVE  Keeps
<1>1. /\ startClaim # NoClaim =>
           /\ startClaim \in open
           /\ Fresh(startClaim, startClaim, pendingRides, launchRides, Heard, deliveries)
      /\ taken \in [Messages -> Nat] /\ pendingRides[s] = NoClaim /\ launchRides[s] = NoClaim
  <2>1. sess[s] = "none"
    BY DEF StartRides, StartKeeps
  <2>2. pendingRides[s] = NoClaim /\ launchRides[s] = NoClaim
    BY <2>1 DEF Inv, CarryInv, SessionOK
  <2> QED  BY <2>2, Carried, InvTypes DEF Inv
<1>2. CASE StartKeeps(s, status)
  <2>1. taken' = taken
    BY <1>1, <1>2 DEF StartKeeps, Spawned
  <2>2. CASE UNCHANGED claimVars
    BY <2>1, <2>2, SameStatus DEF claimVars, Keeps
  <2>3. CASE startClaim # NoClaim /\ Release(startClaim, FALSE, deliveries)
    BY <1>1, <2>1, <2>3, ReleaseMoves
  <2> QED  BY <1>2, <2>2, <2>3 DEF StartKeeps
<1>3. CASE StartRides(s, status)
  <2>1. /\ startClaim # NoClaim /\ Spawned(s, status, ids[startClaim])
        /\ CommitWhenSessionRuns(startClaim, s, status, deliveries)
    BY <1>3 DEF StartRides
  <2>2. CASE status = "running" /\ ~AgentStartPending(s)
    <3>1. TakenUp(startClaim) /\ Settle(startClaim, "delivered")
      BY <2>1, <2>2 DEF Spawned, CommitWhenSessionRuns, CommitOnceAgentStarts, TakenUp
    <3> QED  BY <1>1, <2>1, <3>1, TakeMoves
  <2>3. CASE status = "ended"
    <3>1. taken' = taken /\ Release(startClaim, TRUE, deliveries)
      BY <1>1, <2>1, <2>3 DEF Spawned, CommitWhenSessionRuns
    <3> QED  BY <1>1, <2>1, <3>1, ReleaseMoves
  <2>4. CASE status = "queued" \/ (status = "running" /\ AgentStartPending(s))
    <3>1. taken' = taken /\ UNCHANGED <<row, reserved, stuck>>
      BY <1>1, <2>1, <2>4 DEF Spawned, CommitWhenSessionRuns, CommitOnceAgentStarts
    <3> QED  BY <3>1, SameStatus DEF Keeps
  <2> QED  BY <2>2, <2>3, <2>4
<1> QED  BY <1>2, <1>3

(* A queued session runs. *)
LEMMA PromoteMoves ==
  ASSUME Inv, ~ClearsFail, NEW s \in Sessions, Promoted(s)
  PROVE  Keeps
<1>1. /\ taken \in [Messages -> Nat] /\ launchRides[s] = NoClaim
      /\ prompt[s] = IF pendingRides[s] # NoClaim THEN ids[pendingRides[s]] ELSE {}
  BY InvTypes DEF Inv, CarryInv, SessionOK, Promoted
<1>2. CASE pendingRides[s] # NoClaim /\ ~AgentStartPending(s)
  <2>1. TakenUp(pendingRides[s]) /\ Settle(pendingRides[s], "delivered")
    BY <1>1, <1>2 DEF Promoted, Spawned, CommitOnceAgentStarts, TakenUp
  <2> QED  BY <1>2, <2>1, Carried, TakeMoves
<1>3. CASE pendingRides[s] = NoClaim \/ AgentStartPending(s)
  <2>1. taken' = taken
    BY <1>1, <1>3 DEF Promoted, Spawned
  <2>2. UNCHANGED <<row, reserved, stuck>>
    BY <1>1, <1>3 DEF Promoted, CommitOnceAgentStarts, claimVars
  <2> QED  BY <2>1, <2>2, SameStatus DEF Keeps
<1> QED  BY <1>2, <1>3

(* An agent shows that it started, with its prompt; what an opening typed, it
   had taken in before. *)
LEMMA RanMoves ==
  ASSUME Inv, ~ClearsFail, NEW s \in Sessions, AgentRan(s)
  PROVE  Keeps
<1>1. /\ taken \in [Messages -> Nat] /\ s \notin shown
      /\ IF launchRides[s] # NoClaim THEN prompt[s] \in {{}, ids[launchRides[s]]} ELSE prompt[s] = {}
      /\ taken' = [m \in Messages |-> IF m \in prompt[s] THEN taken[m] + 1 ELSE taken[m]]
      /\ \/ launchRides[s] # NoClaim /\ Settle(launchRides[s], "delivered")
         \/ UNCHANGED <<row, reserved, stuck>>
  BY InvTypes DEF Inv, CarryInv, SessionOK, AgentRan, AgentStartPending, claimVars
<1>2. CASE launchRides[s] # NoClaim /\ prompt[s] # {}
  <2>1. s \notin Heard /\ TakenUp(launchRides[s])
    BY <1>1, <1>2 DEF TakenUp, Heard
  <2>2. /\ launchRides[s] \in open
        /\ Fresh(launchRides[s], startClaim, pendingRides, launchRides, Heard, deliveries)
    BY <1>2, <2>1, Carried
  <2> QED  BY <1>1, <2>1, <2>2, TakeMoves
<1>3. CASE prompt[s] = {}
  <2>1. taken' = taken
    BY <1>1, <1>3
  <2>2. CASE launchRides[s] # NoClaim /\ Settle(launchRides[s], "delivered")
    <3>1. launchRides[s] \in open
      BY <2>2, Carried
    <3> QED  BY <2>1, <2>2, <3>1, SettledMoves
  <2>3. CASE UNCHANGED <<row, reserved, stuck>>
    BY <2>1, <2>3, SameStatus DEF Keeps
  <2> QED  BY <1>1, <2>2, <2>3
<1> QED  BY <1>1, <1>2, <1>3

(* A session ends: what rides on it is given up, or its record replays it. *)
LEMMA GoneMoves ==
  ASSUME Inv, ~ClearsFail, NEW s \in Sessions, SessionGone(s)
  PROVE  Keeps
<1>1. RidesEnd(s)
  BY DEF SessionGone
<1>2. CASE pendingRides[s] # NoClaim
  <2>1. Release(pendingRides[s], TRUE, deliveries) /\ taken' = taken
    BY <1>1, <1>2 DEF RidesEnd
  <2> QED  BY <1>2, <2>1, Carried, ReleaseMoves
<1>3. CASE pendingRides[s] = NoClaim /\ launchRides[s] # NoClaim
  <2> DEFINE c == launchRides[s]
  <2>1. c \in open /\ (s \notin Heard =>
          Fresh(c, startClaim, pendingRides, launchRides, Heard, deliveries))
    BY <1>3, Carried
  <2>2. \/ /\ AgentStartPending(s) /\ Release(c, TRUE, deliveries)
           /\ TakenBack(Load(c) \ prompt[s])
        \/ Settle(c, "delivered") /\ taken' = taken
    BY <1>1, <1>3 DEF RidesEnd, SettleLaunchRide
  <2>3. /\ taken \in [Messages -> Nat] /\ prompt[s] \in {{}, ids[c]} /\ ids[c] # {}
        /\ CarryOK(open, startClaim, pendingRides, launchRides, deliveries)
    BY <1>3, <2>1, InvTypes DEF Inv, CarryInv, SessionOK
  <2>4. CASE Settle(c, "delivered") /\ taken' = taken
    BY <2>1, <2>4, SettledMoves
  <2>5. CASE /\ AgentStartPending(s) /\ Release(c, TRUE, deliveries)
             /\ TakenBack(Load(c) \ prompt[s]) /\ prompt[s] = ids[c]
    <3>1. taken' = taken
      BY <2>3, <2>5 DEF TakenBack, Load
    <3>2. s \notin Heard
      BY <2>3, <2>5 DEF AgentStartPending, Heard
    <3> QED  BY <2>1, <2>5, <3>1, <3>2, ReleaseMoves
  <2>6. CASE /\ AgentStartPending(s) /\ Release(c, TRUE, deliveries)
             /\ TakenBack(Load(c) \ prompt[s]) /\ prompt[s] = {}
    <3>1. TakenBack(Load(c))
      BY <2>6 DEF TakenBack
    <3>2. s \in Heard
      BY <2>6 DEF Heard
    <3>3. ~Fresh(c, startClaim, pendingRides, launchRides, Heard, deliveries)
      BY <1>3, <2>1, <2>3, <3>2, InvTypes DEF Fresh, CarryOK, Inv
    <3> QED  BY <2>1, <2>6, <3>1, <3>3, TakeBackMoves
  <2> QED  BY <2>2, <2>3, <2>4, <2>5, <2>6
<1>4. CASE pendingRides[s] = NoClaim /\ launchRides[s] = NoClaim
  BY <1>1, <1>4, SameStatus DEF RidesEnd, claimVars, Keeps
<1> QED  BY <1>2, <1>3, <1>4

(* A paste or a burst goes in, and reports. *)
LEMMA DeliveryMoves ==
  ASSUME Inv, ~ClearsFail, NEW c \in Claims, DeliveryTypes(c) \/ DeliveryReports(c)
  PROVE  Keeps
<1>1. /\ c \in open
      /\ Fresh(c, startClaim, pendingRides, launchRides, Heard, deliveries)
           <=> deliveries[c].stage = "waiting"
  BY Carried DEF DeliveryTypes, DeliveryReports
<1>2. CASE DeliveryTypes(c)
  <2>1. TakenUp(c) /\ UNCHANGED <<row, reserved, stuck>> /\ deliveries[c].stage = "waiting"
    BY <1>2 DEF DeliveryTypes, TakenUp
  <2> QED  BY <1>1, <2>1, TakeMoves
<1>3. CASE DeliveryReports(c)
  <2>1. taken' = taken /\ deliveries[c].flush \in BOOLEAN
    BY <1>3, InvTypes DEF DeliveryReports, Inv, Deliveries
  <2>2. CASE /\ deliveries[c].stage = "waiting"
             /\ Release(c, deliveries[c].flush, [deliveries EXCEPT ![c] = NoDelivery])
    BY <1>1, <2>1, <2>2, ReleaseMoves
  <2>3. CASE \E status \in {"delivered", "failed"} : Settle(c, status)
    BY <1>1, <2>1, <2>3, SettledMoves
  <2> QED  BY <1>3, <2>2, <2>3 DEF DeliveryReports
<1> QED  BY <1>2, <1>3

(* A typed opening reports: it landed, or is given back. *)
LEMMA OpeningMoves ==
  ASSUME Inv, OpeningInv, ~ClearsFail, NEW c \in Claims, OpeningReports(c)
  PROVE  Keeps
<1> DEFINE d == [deliveries EXCEPT ![c] = NoDelivery]
           s == deliveries[c].to
           landed == deliveries[c].stage = "typed"
<1>1. /\ deliveries[c].stage \in {"waiting", "typed"} /\ launchRides[s] = NoClaim
      /\ taken \in [Messages -> Nat]
  BY InvTypes DEF OpeningReports, OpeningInv, Bare, Inv, Deliveries
<1>2. /\ c \in open
      /\ Fresh(c, startClaim, pendingRides, launchRides, Heard, deliveries) <=> ~landed
  BY <1>1, Carried
<1>3. \/ Release(c, TRUE, d) /\ TakenBack({m \in Load(c) : landed})
      \/ Settle(c, "delivered") /\ taken' = taken
      \/ CommitWhenSessionRuns(c, s, "running", d) /\ taken' = taken
  BY DEF OpeningReports
<1> HIDE DEF d
<1>4. CASE Release(c, TRUE, d) /\ TakenBack({m \in Load(c) : landed})
  <2>1. CASE landed
    <3>1. TakenBack(Load(c))
      BY <1>4, <2>1 DEF TakenBack
    <3> QED  BY <1>2, <1>4, <2>1, <3>1, TakeBackMoves
  <2>2. CASE ~landed
    <3>1. taken' = taken
      BY <1>1, <1>4, <2>2 DEF TakenBack
    <3> QED  BY <1>2, <1>4, <2>2, <3>1, ReleaseMoves
  <2> QED  BY <2>1, <2>2
<1>5. CASE Settle(c, "delivered") /\ taken' = taken
  BY <1>2, <1>5, SettledMoves
<1>6. CASE CommitWhenSessionRuns(c, s, "running", d) /\ taken' = taken
  <2>1. Settle(c, "delivered") \/ UNCHANGED <<row, reserved, stuck>>
    BY <1>1, <1>6 DEF CommitWhenSessionRuns, CommitOnceAgentStarts
  <2>2. CASE UNCHANGED <<row, reserved, stuck>>
    BY <1>6, <2>2, SameStatus DEF Keeps
  <2> QED  BY <1>5, <1>6, <2>1, <2>2
<1> QED  BY <1>3, <1>4, <1>5, <1>6

(* The steps of the start and of the flush timer. *)
LEMMA StartMoves ==
  ASSUME Inv, ~ClearsFail,
         \/ BeginStart \/ StartFails \/ StartSends \/ StartEnds
         \/ \E kind \in {"awaited", "deferred"} : StartOpens(kind)
         \/ \E s \in Sessions : FlushTimer(s)
  PROVE  Keeps
<1>1. CASE BeginStart \/ \E s \in Sessions : FlushTimer(s)
  <2>1. /\ UNCHANGED <<row, stuck, taken>>
        /\ \/ FlushHeldIfLive(reserved, open, deliveries)
           \/ reserved' = reserved
           \/ reserved' = reserved \cup Claimable(reserved)
    BY <1>1 DEF BeginStart, FlushTimer, Claim
  <2> QED  BY <2>1, HandOverMoves
<1>2. CASE StartSends \/ \E kind \in {"awaited", "deferred"} : StartOpens(kind)
  BY <1>2, SameStatus DEF StartSends, StartOpens, Keeps
<1>3. CASE StartFails \/ StartEnds
  <2>1. /\ taken' = taken
        /\ \/ UNCHANGED claimVars
           \/ startClaim # NoClaim /\ \E flush \in BOOLEAN : Release(startClaim, flush, deliveries)
    BY <1>3 DEF StartFails, StartEnds, Inv, CarryInv, StartOK
  <2>2. CASE UNCHANGED claimVars
    BY <2>1, <2>2, SameStatus DEF claimVars, Keeps
  <2>3. CASE startClaim # NoClaim /\ \E flush \in BOOLEAN : Release(startClaim, flush, deliveries)
    BY <2>1, <2>3, Carried, ReleaseMoves
  <2> QED  BY <2>1, <2>2, <2>3
<1> QED  BY <1>1, <1>2, <1>3

(* Every step is a step of the contract, or none. *)
LEMMA EveryMoveKeeps ==
  ASSUME Inv, OpeningInv, ~ClearsFail, [Next]_vars
  PROVE  Keeps
<1>1. CASE \/ MoveOutOfDone \/ MoveEnds \/ UNCHANGED vars \/ \E s \in Sessions : Closing(s)
  BY <1>1, SameStatus DEF MoveOutOfDone, MoveEnds, Closing, vars, claimVars, Keeps
<1>2. ASSUME NEW s \in Sessions,
             Promoted(s) \/ AgentRan(s) \/ Closing(s) \/ SessionGone(s) \/ FlushTimer(s)
      PROVE  Keeps
  BY <1>1, <1>2, PromoteMoves, RanMoves, GoneMoves, StartMoves
<1> QED  BY <1>1, <1>2, HoldMoves, ClearMoves, StartMoves, SpawnMoves, DeliveryMoves, OpeningMoves,
            RestartMoves DEF Next

(* Whatever carries a message, whatever is superseded, cleared, killed, failed
   or restarted meanwhile, its sender may rely on MessageContract: one carrier
   at a time, settled once, and taken in by one agent at most until an opening
   that typed it gives it back (claimHeldMessages, release, commit and fail in
   held-messages.ts, deliverTypedOpening in agent-spawn.ts), as long as no clear's
   write fails. *)
THEOREM MessagesKeepTheirContract ==
  ASSUME ~ClearsFail
  PROVE  Spec => ContractKept
<1>1. Init => Contract!ContractInit
  <2> SUFFICES ASSUME Init PROVE Contract!ContractInit
    OBVIOUS
  <2>1. \A m \in Messages : StatusOf(m, row, reserved, stuck, taken) = "new"
    BY DEF Init, StatusOf
  <2> QED  BY <2>1, StatusIs DEF Init, Contract!ContractInit
<1>2. Inv /\ OpeningInv /\ [Next]_vars => [Contract!ContractNext]_(Contract!contractVars)
  BY EveryMoveKeeps DEF Keeps
<1> QED  BY <1>1, <1>2, InvHolds, PTL DEF Spec, ContractKept, Contract!ContractSpec
=============================================================================
