---------------------------- MODULE PtyHost_proofs ----------------------------
(***************************************************************************)
(* Proofs about PtyHost, for any number of terminals and of deaths of the  *)
(* host.  A request travels once: while it is under way its terminal has   *)
(* no process, no record at the host and no news for main.  The invariant  *)
(* says so for one terminal at a time, and so do the lemmas.               *)
(***************************************************************************)
EXTENDS PtyHost, SequenceTheorems, TLAPS

(* A request is the first thing posted for its terminal. *)
AsksFirst(s) == \A i \in 1..Len(s) : s[i] = "spawn" => i = 1

(* The request has reached no host yet. *)
UnderWay(p) == Contains(pipe[p], "spawn") \/ Contains(waiting[p], "spawn")

News == {<<>>, <<"ok">>, <<"failed">>, <<"exit">>, <<"ok", "exit">>}

HostInv ==
  /\ host = "up" => crashes < MaxCrashes
  /\ host \in {"dead", "down"} => \A p \in Ptys : pipe[p] = <<>> /\ entry[p] = "none"
  /\ host = "down" => \A p \in Ptys : inbox[p] = <<>>
  /\ host # "down" => \A p \in Ptys : waiting[p] = <<>>

NewInv(p) ==
  client[p] = "new" =>
    /\ pipe[p] = <<>> /\ waiting[p] = <<>> /\ inbox[p] = <<>>
    /\ entry[p] = "none" /\ proc[p] = "none" /\ p \notin unposted

RequestInv(p) ==
  /\ AsksFirst(pipe[p]) /\ AsksFirst(waiting[p])
  /\ UnderWay(p) \/ entry[p] = "gated" =>
       inbox[p] = <<>> /\ proc[p] = "none" /\ client[p] \in {"pending", "failed"}
  /\ UnderWay(p) => entry[p] = "none"

NewsInv(p) ==
  /\ inbox[p] \in News
  /\ entry[p] = "open" => inbox[p] \in {<<>>, <<"ok">>}
  /\ inbox[p] = <<"ok">> => entry[p] = "open" \/ host = "dead"
  /\ inbox[p] = <<"failed">> => entry[p] = "none"
  /\ Contains(inbox[p], "exit") => proc[p] # "running"

EndInv(p) ==
  /\ client[p] = "held" => entry[p] = "open" \/ Contains(inbox[p], "exit") \/ host = "dead"
  /\ client[p] = "ended" => ~Unstopped(p)

UnpostedInv(p) ==
  p \in unposted =>
    /\ client[p] = "failed" /\ ~Contains(pipe[p], "spawn")
    /\ proc[p] = "none" /\ entry[p] = "none"

PtyInv(p) ==
  NewInv(p) /\ RequestInv(p) /\ NewsInv(p) /\ EndInv(p) /\ UnpostedInv(p)

Inv == TypeOK /\ HostInv /\ \A p \in Ptys : PtyInv(p)

-----------------------------------------------------------------------------
(* What posting and handling a message does to a channel. *)
LEMMA AppendFacts ==
  ASSUME NEW S, NEW s \in Seq(S), NEW m \in S
  PROVE  /\ Append(s, m) \in Seq(S) /\ Append(s, m) # <<>>
         /\ Append(s, m)[Len(Append(s, m))] = m
         /\ \A x : Contains(Append(s, m), x) <=> Contains(s, x) \/ x = m
         /\ AsksFirst(s) /\ (m # "spawn" \/ s = <<>>) => AsksFirst(Append(s, m))
<1>1. /\ Append(s, m) \in Seq(S) /\ Len(Append(s, m)) = Len(s) + 1
      /\ Append(s, m)[Len(s) + 1] = m
      /\ \A i \in 1..Len(s) : Append(s, m)[i] = s[i]
  OBVIOUS
<1>2. Len(s) \in Nat
  OBVIOUS
<1>3. ASSUME NEW x PROVE Contains(Append(s, m), x) <=> Contains(s, x) \/ x = m
  BY <1>1, <1>2 DEF Contains
<1>4. AsksFirst(s) /\ (m # "spawn" \/ s = <<>>) => AsksFirst(Append(s, m))
  BY <1>1, <1>2 DEF AsksFirst
<1> QED  BY <1>1, <1>2, <1>3, <1>4

(* Taking the first message leaves the rest, and no second request. *)
LEMMA TailFacts ==
  ASSUME NEW S, NEW s \in Seq(S), s # <<>>
  PROVE  /\ Head(s) \in S /\ Tail(s) \in Seq(S)
         /\ \A x : Contains(s, x) <=> Contains(Tail(s), x) \/ x = Head(s)
         /\ AsksFirst(s) => ~Contains(Tail(s), "spawn") /\ AsksFirst(Tail(s))
         /\ Tail(s) # <<>> => Tail(s)[Len(Tail(s))] = s[Len(s)]
         /\ Tail(s) = <<>> => Head(s) = s[Len(s)]
<1>1. /\ Head(s) = s[1] /\ Head(s) \in S /\ Tail(s) \in Seq(S)
      /\ Len(s) \in Nat /\ Len(s) >= 1 /\ Len(Tail(s)) \in Nat
      /\ Len(Tail(s)) = Len(s) - 1 /\ Len(Tail(s)) + 1 = Len(s)
      /\ \A i \in 1..Len(Tail(s)) : Tail(s)[i] = s[i + 1]
  OBVIOUS
<1>2. ASSUME NEW x PROVE Contains(s, x) <=> Contains(Tail(s), x) \/ x = Head(s)
  <2>1. Contains(Tail(s), x) => Contains(s, x)
    BY <1>1 DEF Contains
  <2>2. x = Head(s) => Contains(s, x)
    BY <1>1 DEF Contains
  <2>3. ASSUME Contains(s, x), x # Head(s) PROVE Contains(Tail(s), x)
    <3>1. PICK i \in 1..Len(s) : s[i] = x
      BY <2>3 DEF Contains
    <3>2. i - 1 \in 1..Len(Tail(s)) /\ Tail(s)[i - 1] = x
      BY <1>1, <2>3, <3>1
    <3> QED  BY <3>2 DEF Contains
  <2> QED  BY <2>1, <2>2, <2>3
<1>3. AsksFirst(s) => ~Contains(Tail(s), "spawn") /\ AsksFirst(Tail(s))
  BY <1>1 DEF AsksFirst, Contains
<1>4. /\ Tail(s) # <<>> => Tail(s)[Len(Tail(s))] = s[Len(s)]
      /\ Tail(s) = <<>> => Head(s) = s[Len(s)]
  <2>1. Tail(s) = <<>> <=> Len(Tail(s)) = 0
    BY <1>1, EmptySeq
  <2>2. Len(Tail(s)) # 0 => Len(Tail(s)) \in 1..Len(Tail(s))
    BY <1>1
  <2>3. Tail(s) # <<>> => Tail(s)[Len(Tail(s))] = s[Len(s)]
    BY <1>1, <2>1, <2>2
  <2>4. Tail(s) = <<>> => Len(s) = 1
    <3>1. ASSUME Tail(s) = <<>> PROVE Len(Tail(s)) + 1 = 1
      BY <2>1, <3>1
    <3> QED  BY <1>1, <3>1
  <2> QED  BY <1>1, <2>3, <2>4
<1> QED  BY <1>1, <1>2, <1>3, <1>4

(* What the shortest channels hold. *)
LEMMA EmptyFacts ==
  /\ AsksFirst(<<>>)
  /\ \A x : ~Contains(<<>>, x)
  /\ Contains(<<"exit">>, "exit") /\ Contains(<<"ok", "exit">>, "exit")
  /\ ~Contains(<<"ok">>, "exit") /\ ~Contains(<<"failed">>, "exit")
BY DEF AsksFirst, Contains
-----------------------------------------------------------------------------
(* A step at one terminal leaves the others as they were. *)
LEMMA Elsewhere ==
  ASSUME NEW q \in Ptys, PtyInv(q), host' = host,
         client'[q] = client[q], q \in unposted' <=> q \in unposted,
         pipe'[q] = pipe[q], waiting'[q] = waiting[q], inbox'[q] = inbox[q],
         entry'[q] = entry[q], proc'[q] = proc[q],
         q \in pidless' <=> q \in pidless
  PROVE  PtyInv(q)'
BY DEF PtyInv, NewInv, RequestInv, NewsInv, EndInv, UnpostedInv, UnderWay, Unstopped

(* What posting m for p does to the two channels that carry it. *)
Posted(p, m) ==
  /\ pipe' \in [Ptys -> Seq(ToHost)] /\ waiting' \in [Ptys -> Seq(ToHost)]
  /\ \A q \in Ptys : q # p => pipe'[q] = pipe[q] /\ waiting'[q] = waiting[q]
  /\ AsksFirst(pipe'[p]) /\ AsksFirst(waiting'[p])
  /\ Contains(pipe'[p], "spawn") =>
       Contains(pipe[p], "spawn") \/ (m = "spawn" /\ HostRuns)
  /\ Contains(waiting'[p], "spawn") => Contains(waiting[p], "spawn") \/ m = "spawn"
  /\ HostRuns => pipe'[p] # <<>> /\ pipe'[p][Len(pipe'[p])] = m
  /\ ~HostRuns => pipe' = pipe
  /\ host # "down" => waiting' = waiting

(* Posting for a terminal, seen from the invariant. *)
LEMMA PostFacts ==
  ASSUME TypeOK, HostInv, NEW p \in Ptys, PtyInv(p), NEW m \in ToHost, Post(p, m),
         m = "spawn" => client[p] = "new"
  PROVE  Posted(p, m)
<1>1. /\ pipe[p] \in Seq(ToHost) /\ waiting[p] \in Seq(ToHost)
      /\ AsksFirst(pipe[p]) /\ AsksFirst(waiting[p])
      /\ m # "spawn" \/ (pipe[p] = <<>> /\ waiting[p] = <<>>)
  BY DEF TypeOK, PtyInv, RequestInv, NewInv
<1>2. /\ Append(pipe[p], m) \in Seq(ToHost) /\ Append(pipe[p], m) # <<>>
      /\ Append(pipe[p], m)[Len(Append(pipe[p], m))] = m
      /\ Contains(Append(pipe[p], m), "spawn") <=> Contains(pipe[p], "spawn") \/ m = "spawn"
      /\ AsksFirst(Append(pipe[p], m))
  BY <1>1, AppendFacts
<1>3. /\ Append(waiting[p], m) \in Seq(ToHost)
      /\ Contains(Append(waiting[p], m), "spawn") <=> Contains(waiting[p], "spawn") \/ m = "spawn"
      /\ AsksFirst(Append(waiting[p], m))
  BY <1>1, AppendFacts
<1>4. CASE HostRuns
  BY <1>1, <1>2, <1>4 DEF TypeOK, Posted, Post, HostRuns
<1>5. CASE ~HostRuns
  BY <1>1, <1>3, <1>5 DEF TypeOK, Posted, Post, HostRuns
<1> QED  BY <1>4, <1>5

(* The request: its terminal is new. *)
LEMMA AskStep ==
  ASSUME Inv, NEW p \in Ptys, Ask(p)
  PROVE  Inv'
<1> USE DEF Inv
<1>0. Posted(p, "spawn")
  BY PostFacts DEF Ask, ToHost
<1>1. TypeOK'
  BY <1>0, PtyHostAssumption
     DEF TypeOK, Ask, ToHost, ToMain, coreVars, mainVars, channelVars, Posted
<1>2. HostInv'
  BY <1>0 DEF HostInv, TypeOK, Ask, HostRuns, mainVars, coreVars, Posted
<1>3. ASSUME NEW q \in Ptys, q # p PROVE PtyInv(q)'
  BY <1>0, <1>3, Elsewhere DEF TypeOK, Ask, mainVars, coreVars, Posted
<1>4. PtyInv(p)'
  BY <1>0, EmptyFacts
     DEF TypeOK, HostInv, PtyInv, NewInv, RequestInv, NewsInv, EndInv, UnpostedInv, UnderWay, Unstopped,
         News, HostRuns, Ask, mainVars, coreVars, Posted
<1> QED  BY <1>1, <1>2, <1>3, <1>4

(* A time-out: what was under way stays so, with a kill behind it. *)
LEMMA TimeOutStep ==
  ASSUME Inv, NEW p \in Ptys, TimeOut(p)
  PROVE  Inv'
<1> USE DEF Inv
<1>0. Posted(p, "kill")
  BY PostFacts DEF TimeOut, ToHost
<1>1. TypeOK'
  BY <1>0, PtyHostAssumption
     DEF TypeOK, TimeOut, ToHost, ToMain, coreVars, mainVars, channelVars, Posted
<1>2. HostInv'
  BY <1>0 DEF HostInv, TypeOK, TimeOut, HostRuns, mainVars, coreVars, Posted
<1>3. ASSUME NEW q \in Ptys, q # p PROVE PtyInv(q)'
  BY <1>0, <1>3, Elsewhere DEF TypeOK, TimeOut, mainVars, coreVars, Posted
<1>5. p \in unposted' => Contains(waiting[p], "spawn") /\ ~Contains(pipe'[p], "spawn")
  <2>1. p \notin unposted
    BY DEF PtyInv, UnpostedInv, TimeOut
  <2>2. ASSUME p \in unposted' PROVE Contains(waiting[p], "spawn")
    BY <2>1, <2>2 DEF TimeOut, Contains
  <2>3. Contains(waiting[p], "spawn") => pipe'[p] = <<>>
    BY <1>0, EmptyFacts DEF HostInv, HostRuns, Posted
  <2> QED  BY <2>2, <2>3, EmptyFacts
<1>4. PtyInv(p)'
  BY <1>0, <1>5, EmptyFacts
     DEF TypeOK, HostInv, PtyInv, NewInv, RequestInv, NewsInv, EndInv, UnpostedInv, UnderWay, Unstopped,
         News, HostRuns, TimeOut, mainVars, coreVars, Posted
<1> QED  BY <1>1, <1>2, <1>3, <1>4

(* A cancellation changes nothing but the channels. *)
LEMMA CancelStep ==
  ASSUME Inv, NEW p \in Ptys, Cancel(p)
  PROVE  Inv'
<1> USE DEF Inv
<1>0. Posted(p, "cancel")
  BY PostFacts DEF Cancel, ToHost
<1>1. TypeOK'
  BY <1>0, PtyHostAssumption
     DEF TypeOK, Cancel, ToHost, ToMain, coreVars, mainVars, channelVars, Posted
<1>2. HostInv'
  BY <1>0 DEF HostInv, TypeOK, Cancel, HostRuns, mainVars, coreVars, Posted
<1>3. ASSUME NEW q \in Ptys, q # p PROVE PtyInv(q)'
  BY <1>0, <1>3, Elsewhere DEF TypeOK, Cancel, mainVars, coreVars, Posted
<1>4. PtyInv(p)'
  BY <1>0, EmptyFacts
     DEF TypeOK, HostInv, PtyInv, NewInv, RequestInv, NewsInv, EndInv, UnpostedInv, UnderWay, Unstopped,
         News, HostRuns, Cancel, mainVars, coreVars, Posted
<1> QED  BY <1>1, <1>2, <1>3, <1>4

(* A kill of a terminal main holds: its request has left every channel. *)
LEMMA KillStep ==
  ASSUME Inv, NEW p \in Ptys, Kill(p)
  PROVE  Inv'
<1> USE DEF Inv
<1>0. Posted(p, "kill")
  BY PostFacts DEF Kill, ToHost
<1>1. TypeOK'
  BY <1>0, PtyHostAssumption
     DEF TypeOK, Kill, ToHost, ToMain, coreVars, mainVars, channelVars, Posted
<1>2. HostInv'
  BY <1>0 DEF HostInv, TypeOK, Kill, HostRuns, mainVars, coreVars, Posted
<1>3. ASSUME NEW q \in Ptys, q # p PROVE PtyInv(q)'
  BY <1>0, <1>3, Elsewhere DEF TypeOK, Kill, mainVars, coreVars, Posted
<1>4. PtyInv(p)'
  BY <1>0, EmptyFacts
     DEF TypeOK, HostInv, PtyInv, NewInv, RequestInv, NewsInv, EndInv, UnpostedInv, UnderWay, Unstopped,
         News, HostRuns, Kill, mainVars, coreVars, Posted
<1> QED  BY <1>1, <1>2, <1>3, <1>4

(* What main is told of a terminal: the answer, then the exit. *)
LEMMA NewsFacts ==
  /\ News \subseteq Seq(ToMain)
  /\ Append(<<>>, "ok") = <<"ok">> /\ Append(<<>>, "failed") = <<"failed">>
  /\ Append(<<>>, "exit") = <<"exit">> /\ Append(<<"ok">>, "exit") = <<"ok", "exit">>
  /\ Head(<<"ok">>) = "ok" /\ Head(<<"failed">>) = "failed" /\ Head(<<"exit">>) = "exit"
  /\ Head(<<"ok", "exit">>) = "ok" /\ Tail(<<"ok", "exit">>) = <<"exit">>
  /\ Tail(<<"ok">>) = <<>> /\ Tail(<<"failed">>) = <<>> /\ Tail(<<"exit">>) = <<>>
<1>1. News \subseteq Seq(ToMain)
  BY DEF News, ToMain
<1>2. /\ Append(<<>>, "ok") = <<"ok">> /\ Append(<<>>, "failed") = <<"failed">>
      /\ Append(<<>>, "exit") = <<"exit">>
  OBVIOUS
<1>5. Append(<<"ok">>, "exit") = <<"ok", "exit">>
  <2> DEFINE told == Append(<<"ok">>, "exit")
             both == <<"ok", "exit">>
  <2>1. <<"ok">> \in Seq(ToMain) /\ both \in Seq(ToMain)
    BY DEF ToMain
  <2>2. /\ told \in Seq(ToMain) /\ Len(told) = 2 /\ Len(both) = 2
        /\ \A i \in 1..2 : told[i] = both[i]
    BY <2>1 DEF ToMain
  <2> HIDE DEF told, both
  <2>3. told = both
    BY <2>1, <2>2, SeqEqual
  <2> QED  BY <2>3 DEF told, both
<1>3. /\ Head(<<"ok">>) = "ok" /\ Head(<<"failed">>) = "failed" /\ Head(<<"exit">>) = "exit"
      /\ Head(<<"ok", "exit">>) = "ok"
  OBVIOUS
<1>4. /\ Tail(<<"ok">>) = <<>> /\ Tail(<<"failed">>) = <<>> /\ Tail(<<"exit">>) = <<>>
      /\ Tail(<<"ok", "exit">>) = <<"exit">>
  OBVIOUS
<1> QED  BY <1>1, <1>2, <1>3, <1>4, <1>5

(* What main may be told, told apart. *)
LEMMA NewsDiffer ==
  /\ <<"ok">> # <<>> /\ <<"failed">> # <<>> /\ <<"exit">> # <<>> /\ <<"ok", "exit">> # <<>>
  /\ <<"ok">> # <<"failed">> /\ <<"ok">> # <<"exit">> /\ <<"failed">> # <<"exit">>
  /\ <<"ok">> # <<"ok", "exit">> /\ <<"failed">> # <<"ok", "exit">> /\ <<"exit">> # <<"ok", "exit">>
OBVIOUS

(* Telling main of a terminal it has no unread news of. *)
LEMMA TellFacts ==
  ASSUME inbox \in [Ptys -> Seq(ToMain)], NEW p \in Ptys, NEW m \in ToMain,
         inbox[p] = <<>>, Tell(p, m)
  PROVE  /\ inbox' \in [Ptys -> Seq(ToMain)]
         /\ inbox'[p] = <<m>>
         /\ \A q \in Ptys : q # p => inbox'[q] = inbox[q]
<1>1. Append(<<>>, m) = <<m>> /\ <<m>> \in Seq(ToMain)
  OBVIOUS
<1> QED  BY <1>1 DEF Tell

(* The next message of the host. *)
LEMMA MainReadsStep ==
  ASSUME Inv, NEW p \in Ptys, MainReads(p)
  PROVE  Inv'
<1> USE DEF Inv
<1>0. /\ inbox' \in [Ptys -> Seq(ToMain)] /\ \A q \in Ptys : q # p => inbox'[q] = inbox[q]
      /\ notices' \in [Ptys -> Nat]
      /\ client' \in [Ptys -> {"new", "pending", "held", "failed", "ended"}]
      /\ \A q \in Ptys : q # p => client'[q] = client[q]
      /\ \/ inbox[p] = <<"ok">> /\ inbox'[p] = <<>> /\ client'[p] = Answered(p, "ok")
         \/ inbox[p] = <<"failed">> /\ inbox'[p] = <<>> /\ client'[p] = Answered(p, "failed")
         \/ /\ inbox[p] = <<"exit">> /\ inbox'[p] = <<>>
            /\ client'[p] = IF client[p] = "held" THEN "ended" ELSE client[p]
         \/ inbox[p] = <<"ok", "exit">> /\ inbox'[p] = <<"exit">> /\ client'[p] = Answered(p, "ok")
  <2>1. /\ inbox' = [inbox EXCEPT ![p] = Tail(@)]
        /\ \/ inbox[p] = <<"ok">> /\ Head(inbox[p]) = "ok" /\ Tail(inbox[p]) = <<>>
           \/ inbox[p] = <<"failed">> /\ Head(inbox[p]) = "failed" /\ Tail(inbox[p]) = <<>>
           \/ inbox[p] = <<"exit">> /\ Head(inbox[p]) = "exit" /\ Tail(inbox[p]) = <<>>
           \/ inbox[p] = <<"ok", "exit">> /\ Head(inbox[p]) = "ok" /\ Tail(inbox[p]) = <<"exit">>
    BY NewsFacts DEF MainReads, PtyInv, NewsInv, News
  <2>2. Tail(inbox[p]) \in Seq(ToMain)
    BY <2>1, NewsFacts DEF News
  <2>3. /\ inbox' \in [Ptys -> Seq(ToMain)] /\ inbox'[p] = Tail(inbox[p])
        /\ \A q \in Ptys : q # p => inbox'[q] = inbox[q]
    BY <2>1, <2>2 DEF TypeOK
  <2>4. CASE Head(inbox[p]) = "exit"
    <3>1. /\ client' \in [Ptys -> {"new", "pending", "held", "failed", "ended"}]
          /\ notices' \in [Ptys -> Nat]
          /\ \A q \in Ptys : q # p => client'[q] = client[q]
          /\ client'[p] = IF client[p] = "held" THEN "ended" ELSE client[p]
      <4>1. /\ client' = IF client[p] = "held" THEN [client EXCEPT ![p] = "ended"] ELSE client
            /\ notices' = IF client[p] = "held" THEN [notices EXCEPT ![p] = @ + 1] ELSE notices
        BY <2>4 DEF MainReads
      <4>2. client \in [Ptys -> {"new", "pending", "held", "failed", "ended"}]
        BY DEF TypeOK
      <4>3. notices \in [Ptys -> Nat] /\ notices[p] + 1 \in Nat
        BY DEF TypeOK
      <4> QED  BY <4>1, <4>2, <4>3
    <3> QED  BY <2>1, <2>3, <2>4, <3>1
  <2>5. CASE Head(inbox[p]) # "exit"
    <3>1. /\ client' \in [Ptys -> {"new", "pending", "held", "failed", "ended"}]
          /\ notices' = notices
          /\ \A q \in Ptys : q # p => client'[q] = client[q]
          /\ client'[p] = Answered(p, Head(inbox[p]))
      <4>1. client' = [client EXCEPT ![p] = Answered(p, Head(inbox[p]))] /\ notices' = notices
        BY <2>5 DEF MainReads
      <4>2. client \in [Ptys -> {"new", "pending", "held", "failed", "ended"}]
        BY DEF TypeOK
      <4>3. Answered(p, Head(inbox[p])) \in {"new", "pending", "held", "failed", "ended"}
        BY <4>2 DEF Answered
      <4> QED  BY <4>1, <4>2, <4>3
    <3> QED  BY <2>1, <2>3, <2>5, <3>1 DEF TypeOK
  <2> QED  BY <2>4, <2>5
<1>1. TypeOK'
  BY <1>0, NewsFacts, PtyHostAssumption
     DEF TypeOK, MainReads, ToHost, ToMain, coreVars, mainVars, channelVars, Answered
<1>2. HostInv'
  BY <1>0 DEF HostInv, TypeOK, MainReads, HostRuns, mainVars, coreVars, Answered
<1>3. ASSUME NEW q \in Ptys, q # p PROVE PtyInv(q)'
  BY <1>0, <1>3, Elsewhere DEF TypeOK, MainReads, mainVars, coreVars, Answered
<1>4. PtyInv(p)'
  <2>1. /\ pipe' = pipe /\ waiting' = waiting /\ entry' = entry /\ proc' = proc
        /\ host' = host /\ unposted' = unposted /\ pidless' = pidless
    BY DEF MainReads, coreVars
  <2>2. NewInv(p)'
    BY <1>0, <2>1, NewsDiffer DEF PtyInv, NewInv, Answered
  <2>3. RequestInv(p)'
    BY <1>0, <2>1, NewsDiffer DEF PtyInv, RequestInv, UnderWay, Answered
  <2>4. NewsInv(p)'
    BY <1>0, <2>1, EmptyFacts, NewsDiffer DEF PtyInv, NewsInv, News
  <2>5. EndInv(p)'
    BY <1>0, <2>1, EmptyFacts, NewsDiffer
       DEF PtyInv, EndInv, NewsInv, NewInv, RequestInv, Answered, Unstopped
  <2>6. UnpostedInv(p)'
    BY <1>0, <2>1 DEF PtyInv, UnpostedInv, Answered
  <2> QED  BY <2>2, <2>3, <2>4, <2>5, <2>6 DEF PtyInv
<1> QED  BY <1>1, <1>2, <1>3, <1>4

(* The request reaches the host: there was nothing of its terminal. *)
LEMMA HostSpawnsStep ==
  ASSUME Inv, NEW p \in Ptys, HostSpawns(p)
  PROVE  Inv'
<1> USE DEF Inv
<1>0. /\ inbox' \in [Ptys -> Seq(ToMain)] /\ \A q \in Ptys : q # p => inbox'[q] = inbox[q]
      /\ inbox[p] = <<>> /\ inbox'[p] \in {<<>>, <<"ok">>, <<"failed">>}
      /\ inbox'[p] = <<"ok">> => entry'[p] = "open"
      /\ inbox'[p] = <<"failed">> => entry'[p] = "none"
      /\ Tail(pipe[p]) \in Seq(ToHost) /\ AsksFirst(Tail(pipe[p]))
      /\ ~Contains(Tail(pipe[p]), "spawn") /\ Contains(pipe[p], Head(pipe[p]))
  <2>1. /\ Tail(pipe[p]) \in Seq(ToHost) /\ AsksFirst(Tail(pipe[p]))
        /\ ~Contains(Tail(pipe[p]), "spawn") /\ Contains(pipe[p], Head(pipe[p]))
    BY TailFacts DEF HostSpawns, TypeOK, PtyInv, RequestInv
  <2>2. inbox[p] = <<>> /\ entry[p] = "none"
    BY <2>1 DEF HostSpawns, PtyInv, RequestInv, UnderWay
  <2>3. CASE Tell(p, "failed") /\ entry' = entry
    BY <2>1, <2>2, <2>3, TellFacts, NewsDiffer DEF TypeOK, ToMain
  <2>4. CASE Tell(p, "ok") /\ entry'[p] = "open"
    BY <2>1, <2>2, <2>4, TellFacts, NewsDiffer DEF TypeOK, ToMain
  <2>5. CASE inbox' = inbox
    BY <2>1, <2>2, <2>5, NewsDiffer DEF TypeOK
  <2> QED  BY <2>3, <2>4, <2>5 DEF HostSpawns, TypeOK
<1>1. TypeOK'
  BY <1>0, NewsFacts, PtyHostAssumption
     DEF TypeOK, HostSpawns, ToHost, ToMain, coreVars, mainVars, channelVars, Tell
<1>2. HostInv'
  BY <1>0 DEF HostInv, TypeOK, HostSpawns, HostRuns, mainVars, coreVars, Tell
<1>3. ASSUME NEW q \in Ptys, q # p PROVE PtyInv(q)'
  BY <1>0, <1>3, Elsewhere DEF TypeOK, HostSpawns, mainVars, coreVars, Tell
<1>4. PtyInv(p)'
  <2>1. /\ pipe'[p] = Tail(pipe[p]) /\ waiting' = waiting /\ client' = client
        /\ unposted' = unposted /\ pidless' = pidless /\ host' = host /\ host # "dead"
        /\ Contains(pipe[p], "spawn") /\ waiting[p] = <<>>
    BY <1>0 DEF TypeOK, HostInv, HostRuns, HostSpawns, mainVars
  <2>2. client[p] \in {"pending", "failed"} /\ proc[p] = "none" /\ entry[p] = "none"
        /\ p \notin unposted
    BY <2>1 DEF PtyInv, RequestInv, UnpostedInv, UnderWay
  <2>3. \/ entry'[p] = "none" /\ proc'[p] = "none" /\ inbox'[p] = <<"failed">>
        \/ entry'[p] = "open" /\ proc'[p] = "running" /\ inbox'[p] = <<"ok">>
        \/ entry'[p] = "gated" /\ proc'[p] = "none" /\ inbox'[p] = <<>>
    <3>1. \A m \in ToMain : Tell(p, m) => inbox'[p] = <<m>>
      BY <1>0, TellFacts DEF TypeOK
    <3>2. entry \in [Ptys -> {"none", "gated", "open"}]
          /\ proc \in [Ptys -> {"none", "running", "stopping", "gone"}]
      BY DEF TypeOK
    <3> QED  BY <1>0, <2>2, <3>1, <3>2 DEF HostSpawns, ToMain
  <2>4. NewInv(p)' /\ UnpostedInv(p)'
    BY <2>1, <2>2 DEF NewInv, UnpostedInv
  <2>5. RequestInv(p)'
    BY <1>0, <2>1, <2>2, <2>3, EmptyFacts DEF RequestInv, UnderWay
  <2>6. NewsInv(p)'
    BY <2>1, <2>3, EmptyFacts, NewsDiffer DEF NewsInv, News
  <2>7. EndInv(p)'
    BY <2>1, <2>2 DEF EndInv
  <2> QED  BY <2>4, <2>5, <2>6, <2>7 DEF PtyInv
<1> QED  BY <1>1, <1>2, <1>3, <1>4

(* The pid is known: the terminal runs and its answer is sent. *)
LEMMA GateOpensStep ==
  ASSUME Inv, NEW p \in Ptys, GateOpens(p)
  PROVE  Inv'
<1> USE DEF Inv
<1>1. TypeOK'
  BY NewsFacts, PtyHostAssumption
     DEF TypeOK, GateOpens, ToHost, ToMain, coreVars, mainVars, channelVars, Tell
<1>2. HostInv'
  BY DEF HostInv, TypeOK, GateOpens, HostRuns, mainVars, coreVars, Tell
<1>3. ASSUME NEW q \in Ptys, q # p PROVE PtyInv(q)'
  BY <1>3, Elsewhere DEF TypeOK, GateOpens, mainVars, coreVars, Tell
<1>4. PtyInv(p)'
  BY EmptyFacts, NewsFacts, NewsDiffer
     DEF TypeOK, HostInv, PtyInv, NewInv, RequestInv, NewsInv, EndInv, UnpostedInv, UnderWay, Unstopped,
         News, HostRuns, GateOpens, mainVars, coreVars, Tell
<1> QED  BY <1>1, <1>2, <1>3, <1>4

(* No pid came: the terminal is handed out all the same. *)
LEMMA GateTimesOutStep ==
  ASSUME Inv, NEW p \in Ptys, GateTimesOut(p)
  PROVE  Inv'
<1> USE DEF Inv
<1>1. TypeOK'
  BY NewsFacts, PtyHostAssumption
     DEF TypeOK, GateTimesOut, ToHost, ToMain, coreVars, mainVars, channelVars, Tell
<1>2. HostInv'
  BY DEF HostInv, TypeOK, GateTimesOut, HostRuns, mainVars, coreVars, Tell
<1>3. ASSUME NEW q \in Ptys, q # p PROVE PtyInv(q)'
  BY <1>3, Elsewhere DEF TypeOK, GateTimesOut, mainVars, coreVars, Tell
<1>4. PtyInv(p)'
  BY EmptyFacts, NewsFacts, NewsDiffer
     DEF TypeOK, HostInv, PtyInv, NewInv, RequestInv, NewsInv, EndInv, UnpostedInv, UnderWay, Unstopped,
         News, HostRuns, GateTimesOut, mainVars, coreVars, Tell
<1> QED  BY <1>1, <1>2, <1>3, <1>4

(* Nothing started: the gate stays, or the spawn is answered as failed. *)
LEMMA GateFailsStep ==
  ASSUME Inv, NEW p \in Ptys, GateFails(p)
  PROVE  Inv'
<1> USE DEF Inv
<1>0. /\ inbox' \in [Ptys -> Seq(ToMain)] /\ \A q \in Ptys : q # p => inbox'[q] = inbox[q]
      /\ inbox[p] = <<>> /\ inbox'[p] \in {<<>>, <<"failed">>}
      /\ inbox'[p] = <<"failed">> => entry'[p] = "none"
  <2>1. inbox[p] = <<>>
    BY DEF GateFails, PtyInv, RequestInv
  <2>2. CASE Tell(p, "failed") /\ entry'[p] = "none"
    BY <2>1, <2>2, TellFacts DEF TypeOK, ToMain
  <2>3. CASE inbox' = inbox
    BY <2>1, <2>3, NewsDiffer DEF TypeOK
  <2> QED  BY <2>2, <2>3 DEF GateFails, TypeOK
<1>1. TypeOK'
  BY <1>0, NewsFacts, PtyHostAssumption, ZenonT(60)
     DEF TypeOK, GateFails, ToHost, ToMain, coreVars, mainVars, channelVars, Tell, MayRetry
<1>2. HostInv'
  BY <1>0 DEF HostInv, TypeOK, GateFails, HostRuns, mainVars, coreVars, Tell, MayRetry
<1>3. ASSUME NEW q \in Ptys, q # p PROVE PtyInv(q)'
  BY <1>0, <1>3, Elsewhere DEF TypeOK, GateFails, mainVars, coreVars, Tell, MayRetry
<1>4. PtyInv(p)'
  BY <1>0, EmptyFacts, NewsFacts, NewsDiffer
     DEF TypeOK, HostInv, PtyInv, NewInv, RequestInv, NewsInv, EndInv, UnpostedInv, UnderWay, Unstopped,
         News, HostRuns, GateFails, mainVars, coreVars, Tell, MayRetry
<1> QED  BY <1>1, <1>2, <1>3, <1>4

(* A cancellation or a kill takes nothing away but itself. *)
LEMMA HostObeysStep ==
  ASSUME Inv, NEW p \in Ptys, HostObeys(p)
  PROVE  Inv'
<1> USE DEF Inv
<1>0. /\ Tail(pipe[p]) \in Seq(ToHost) /\ AsksFirst(Tail(pipe[p]))
      /\ ~Contains(Tail(pipe[p]), "spawn") /\ Contains(pipe[p], Head(pipe[p]))
  BY TailFacts DEF HostObeys, TypeOK, PtyInv, RequestInv
<1>1. TypeOK'
  BY <1>0, NewsFacts, PtyHostAssumption
     DEF TypeOK, HostObeys, ToHost, ToMain, coreVars, mainVars, channelVars
<1>2. HostInv'
  BY <1>0 DEF HostInv, TypeOK, HostObeys, HostRuns, mainVars, coreVars
<1>3. ASSUME NEW q \in Ptys, q # p PROVE PtyInv(q)'
  BY <1>0, <1>3, Elsewhere DEF TypeOK, HostObeys, mainVars, coreVars
<1>4. PtyInv(p)'
  BY <1>0, EmptyFacts, NewsFacts, NewsDiffer
     DEF TypeOK, HostInv, PtyInv, NewInv, RequestInv, NewsInv, EndInv, UnpostedInv, UnderWay, Unstopped,
         News, HostRuns, HostObeys, mainVars, coreVars
<1> QED  BY <1>1, <1>2, <1>3, <1>4

(* The exit is told after the answer, if that is still unread. *)
LEMMA ProcessEndsStep ==
  ASSUME Inv, NEW p \in Ptys, ProcessEnds(p)
  PROVE  Inv'
<1> USE DEF Inv
<1>1. TypeOK'
  BY NewsFacts, PtyHostAssumption
     DEF TypeOK, ProcessEnds, ToHost, ToMain, coreVars, mainVars, channelVars, Tell
<1>2. HostInv'
  BY DEF HostInv, TypeOK, ProcessEnds, HostRuns, mainVars, coreVars, Tell
<1>3. ASSUME NEW q \in Ptys, q # p PROVE PtyInv(q)'
  BY <1>3, Elsewhere DEF TypeOK, ProcessEnds, mainVars, coreVars, Tell
<1>4. PtyInv(p)'
  BY EmptyFacts, NewsFacts, NewsDiffer
     DEF TypeOK, HostInv, PtyInv, NewInv, RequestInv, NewsInv, EndInv, UnpostedInv, UnderWay, Unstopped,
         News, HostRuns, ProcessEnds, mainVars, coreVars, Tell
<1> QED  BY <1>1, <1>2, <1>3, <1>4

(* The host dies: what it had of any terminal goes with it. *)
LEMMA HostDiesStep ==
  ASSUME Inv, HostDies
  PROVE  Inv'
<1> USE DEF Inv
<1>1. TypeOK'
  BY PtyHostAssumption DEF TypeOK, HostInv, HostDies, ToHost, coreVars, mainVars
<1>2. HostInv'
  BY EmptyFacts DEF HostInv, TypeOK, PtyInv, EndInv, HostDies, mainVars, coreVars
<1>3. ASSUME NEW p \in Ptys PROVE PtyInv(p)'
  BY EmptyFacts, NewsDiffer
     DEF TypeOK, HostInv, PtyInv, NewInv, RequestInv, NewsInv, EndInv, UnpostedInv, UnderWay, Unstopped,
         News, HostDies, mainVars, coreVars
<1> QED  BY <1>1, <1>2, <1>3

(* Main hears of it. *)
LEMMA HostExitSeenStep ==
  ASSUME Inv, HostExitSeen
  PROVE  Inv'
<1> USE DEF Inv
<1>0. /\ <<"kill">> \in Seq(ToHost) /\ <<>> \in Seq(ToHost) /\ <<>> \in Seq(ToMain)
      /\ AsksFirst(<<"kill">>) /\ ~Contains(<<"kill">>, "spawn")
  BY DEF ToHost, AsksFirst, Contains
<1>1. TypeOK'
  <2>1. client' \in [Ptys -> {"new", "pending", "held", "failed", "ended"}]
    BY DEF TypeOK, HostExitSeen, Lost
  <2>2. notices' \in [Ptys -> Nat]
    <3>1. \A p \in Ptys : notices[p] \in Nat /\ notices[p] + 1 \in Nat
      BY DEF TypeOK
    <3> QED  BY <3>1 DEF HostExitSeen
  <2>3. waiting' \in [Ptys -> Seq(ToHost)] /\ inbox' \in [Ptys -> Seq(ToMain)]
    BY <1>0 DEF HostExitSeen, Lost
  <2>4. proc' \in [Ptys -> {"none", "running", "stopping", "gone"}]
    BY DEF TypeOK, HostExitSeen, StopTree
  <2> QED  BY <2>1, <2>2, <2>3, <2>4 DEF TypeOK, HostExitSeen, coreVars
<1>2. HostInv'
  BY <1>0, EmptyFacts
     DEF HostInv, TypeOK, PtyInv, EndInv, HostExitSeen, Lost, StopTree, mainVars, coreVars
<1>3. ASSUME NEW p \in Ptys PROVE PtyInv(p)'
  BY <1>0, EmptyFacts, NewsDiffer
     DEF TypeOK, HostInv, PtyInv, NewInv, RequestInv, NewsInv, EndInv, UnpostedInv, UnderWay, Unstopped,
         News, HostExitSeen, Lost, StopTree, mainVars, coreVars
<1> QED  BY <1>1, <1>2, <1>3

(* A stopped tree goes, which main does not hear of. *)
LEMMA TreeStopsStep ==
  ASSUME Inv, NEW p \in Ptys, TreeStops(p)
  PROVE  Inv'
<1> USE DEF Inv
<1>1. TypeOK' /\ HostInv'
  BY DEF TypeOK, HostInv, TreeStops, coreVars, mainVars, channelVars
<1>2. ASSUME NEW q \in Ptys, q # p PROVE PtyInv(q)'
  BY <1>2, Elsewhere DEF TypeOK, TreeStops, mainVars, channelVars, coreVars
<1>3. PtyInv(p)'
  BY DEF TypeOK, PtyInv, NewInv, RequestInv, NewsInv, EndInv, UnpostedInv, UnderWay, Unstopped,
     TreeStops, mainVars, channelVars, coreVars
<1> QED  BY <1>1, <1>2, <1>3

(* The next host gets what waited for it. *)
LEMMA NextHostStep ==
  ASSUME Inv, NextHost
  PROVE  Inv'
<1> USE DEF Inv
<1>0. ASSUME NEW p \in Ptys
      PROVE  /\ StillWanted(p) \in Seq(ToHost) /\ AsksFirst(StillWanted(p))
             /\ Contains(StillWanted(p), "spawn") => UnderWay(p) /\ client[p] = "pending"
  <2>1. waiting[p] \in Seq(ToHost) /\ AsksFirst(waiting[p])
    BY DEF TypeOK, PtyInv, RequestInv
  <2>2. CASE waiting[p] # <<>> /\ Head(waiting[p]) = "spawn" /\ client[p] # "pending"
    <3>1. StillWanted(p) = Tail(waiting[p])
      BY <2>2 DEF StillWanted
    <3> QED  BY <2>1, <2>2, <3>1, TailFacts
  <2>3. CASE ~(waiting[p] # <<>> /\ Head(waiting[p]) = "spawn" /\ client[p] # "pending")
    <3>1. StillWanted(p) = waiting[p]
      BY <2>3 DEF StillWanted
    <3>2. Contains(waiting[p], "spawn") => client[p] = "pending"
      BY <2>1, <2>3, TailFacts, EmptyFacts
    <3> QED  BY <2>1, <3>1, <3>2 DEF UnderWay
  <2> QED  BY <2>2, <2>3
<1>1. TypeOK'
  BY <1>0, PtyHostAssumption DEF TypeOK, HostInv, NextHost, ToHost, coreVars, mainVars
<1>2. HostInv'
  BY <1>0, EmptyFacts DEF HostInv, TypeOK, PtyInv, EndInv, NextHost, mainVars, coreVars
<1>3. ASSUME NEW p \in Ptys PROVE PtyInv(p)'
  <2>1. /\ pipe'[p] = StillWanted(p) /\ waiting'[p] = <<>> /\ host = "down" /\ host' # "dead"
        /\ client' = client /\ unposted' = unposted /\ inbox' = inbox
        /\ entry' = entry /\ proc' = proc /\ pidless' = pidless
        /\ inbox[p] = <<>> /\ entry[p] = "none"
    BY DEF NextHost, mainVars, coreVars, HostInv
  <2>2. NewInv(p)'
    BY <2>1 DEF PtyInv, NewInv, StillWanted
  <2>3. RequestInv(p)'
    BY <1>0, <2>1, EmptyFacts DEF PtyInv, RequestInv, UnderWay
  <2>4. NewsInv(p)'
    BY <2>1, EmptyFacts, NewsDiffer DEF NewsInv, News
  <2>5. EndInv(p)'
    BY <2>1, EmptyFacts DEF PtyInv, EndInv, Unstopped
  <2>6. UnpostedInv(p)'
    BY <1>0, <2>1 DEF PtyInv, UnpostedInv
  <2> QED  BY <2>2, <2>3, <2>4, <2>5, <2>6 DEF PtyInv
<1> QED  BY <1>1, <1>2, <1>3

(* Nothing was asked for yet. *)
LEMMA InvInit == Init => Inv
<1> SUFFICES ASSUME Init PROVE Inv
  OBVIOUS
<1>1. TypeOK
  BY PtyHostAssumption DEF Init, TypeOK
<1>2. HostInv
  BY PtyHostAssumption DEF Init, HostInv
<1>3. ASSUME NEW p \in Ptys PROVE PtyInv(p)
  BY EmptyFacts, NewsDiffer DEF Init, PtyInv, NewInv, RequestInv, NewsInv, EndInv, UnpostedInv,
     UnderWay, Unstopped, News
<1> QED  BY <1>1, <1>2, <1>3 DEF Inv

(* A step of nothing. *)
LEMMA InvStutter ==
  ASSUME Inv, UNCHANGED vars
  PROVE  Inv'
<1> USE DEF vars, mainVars, channelVars, coreVars
<1>1. TypeOK' /\ HostInv'
  BY DEF Inv, TypeOK, HostInv
<1>2. ASSUME NEW p \in Ptys PROVE PtyInv(p)'
  BY Elsewhere DEF Inv
<1> QED  BY <1>1, <1>2 DEF Inv

(* Every step keeps the invariant. *)
LEMMA InvNext == Inv /\ [Next]_vars => Inv'
<1> SUFFICES ASSUME Inv, [Next]_vars PROVE Inv'
  OBVIOUS
<1>1. ASSUME NEW p \in Ptys,
             Ask(p) \/ TimeOut(p) \/ Cancel(p) \/ Kill(p) \/ MainReads(p)
      PROVE  Inv'
  BY <1>1, AskStep, TimeOutStep, CancelStep, KillStep, MainReadsStep
<1>2. ASSUME NEW p \in Ptys,
             \/ HostSpawns(p) \/ GateOpens(p) \/ GateTimesOut(p) \/ GateFails(p)
             \/ HostObeys(p) \/ ProcessEnds(p) \/ TreeStops(p)
      PROVE  Inv'
  BY <1>2, HostSpawnsStep, GateOpensStep, GateTimesOutStep, GateFailsStep, HostObeysStep,
     ProcessEndsStep, TreeStopsStep
<1>3. CASE HostDies \/ HostExitSeen \/ NextHost
  BY <1>3, HostDiesStep, HostExitSeenStep, NextHostStep
<1>4. CASE UNCHANGED vars
  BY <1>4, InvStutter
<1> QED  BY <1>1, <1>2, <1>3, <1>4 DEF Next

(* The invariant holds, for any number of terminals and of deaths.          *)
THEOREM InvHolds == Spec => []Inv
BY InvInit, InvNext, PTL DEF Spec

(* What main holds, what it gave up and what the host runs agree: a handle
   in main is a terminal in the host or the news of its end on the way, and a
   request rejected before any host had it is never run (the filter of
   queuedWhileDown, reportHostLost, onPtyExit). *)
THEOREM HostAndClientAlwaysAgree == Spec => []HostAndClientAgree
<1>1. Inv => HostAndClientAgree
  <2>1. Inv => HeldTerminalsEndAudibly
    BY DEF Inv, HeldTerminalsEndAudibly, PtyInv, EndInv
  <2>2. Inv => UnpostedNeverRuns
    BY DEF Inv, TypeOK, UnpostedNeverRuns, PtyInv, UnpostedInv
  <2> QED  BY <2>1, <2>2 DEF Inv, HostAndClientAgree
<1> QED  BY <1>1, InvHolds, PTL

-----------------------------------------------------------------------------
(* A process that is gone, or was sent a stop, has no request or gate left   *)
(* that could start it.                                                     *)
LEMMA GoneStep ==
  ASSUME Inv, [Next]_vars, NEW q \in Ptys, proc[q] \in {"stopping", "gone"}
  PROVE  proc'[q] \in {proc[q], "gone"}
<1>1. /\ proc \in [Ptys -> {"none", "running", "stopping", "gone"}]
      /\ entry[q] # "gated" /\ ~Contains(pipe[q], "spawn")
  BY DEF Inv, TypeOK, PtyInv, RequestInv, UnderWay
<1>2. ASSUME NEW p \in Ptys, HostSpawns(p) PROVE proc'[q] = proc[q]
  <2>1. Contains(pipe[p], "spawn")
    BY <1>2, TailFacts DEF Inv, TypeOK, HostSpawns
  <2> QED  BY <1>1, <1>2, <2>1 DEF HostSpawns
<1>3. ASSUME NEW p \in Ptys,
             GateOpens(p) \/ GateTimesOut(p) \/ ProcessEnds(p) \/ TreeStops(p)
      PROVE  proc'[q] \in {proc[q], "gone"}
  BY <1>1, <1>3 DEF GateOpens, GateTimesOut, ProcessEnds, TreeStops
<1>4. CASE HostDies \/ HostExitSeen
  BY <1>1, <1>4 DEF HostDies, HostExitSeen, StopTree
<1>5. CASE proc' = proc
  BY <1>5
<1>6. ASSUME NEW p \in Ptys,
             \/ Ask(p) \/ TimeOut(p) \/ Cancel(p) \/ Kill(p) \/ MainReads(p)
             \/ GateFails(p) \/ HostObeys(p)
      PROVE  proc' = proc
  BY <1>6 DEF Ask, TimeOut, Cancel, Kill, MainReads, GateFails, HostObeys
<1>7. NextHost \/ UNCHANGED vars => proc' = proc
  BY DEF NextHost, vars
<1> QED  BY <1>2, <1>3, <1>4, <1>5, <1>6, <1>7 DEF Next

(* No terminal is started twice, by however many hosts (the rejection of all
   requests when a host exits, against what is kept for the next one). *)
THEOREM NoSecondStart == Spec => StartsOnce
<1>1. Inv /\ [Next]_vars =>
        [\A p \in Ptys : proc[p] \in {"stopping", "gone"} => proc'[p] \in {proc[p], "gone"}]_vars
  BY GoneStep
<1> QED  BY <1>1, InvHolds, PTL DEF Spec, StartsOnce
-----------------------------------------------------------------------------
(* The kill behind a request that main gave up. *)
GivenUp(p) ==
  client[p] = "failed" /\ HostRuns /\ (entry[p] # "none" \/ Contains(pipe[p], "spawn"))
    => killed[p] \/ (pipe[p] # <<>> /\ pipe[p][Len(pipe[p])] = "kill")

(* The kill stays behind a request at the other terminals. *)
LEMMA GivenUpElsewhere ==
  ASSUME NEW q \in Ptys, GivenUp(q), host' = host, client'[q] = client[q],
         entry'[q] = entry[q], pipe'[q] = pipe[q], killed'[q] = killed[q]
  PROVE  GivenUp(q)'
BY DEF GivenUp, HostRuns

(* Main posts a kill with every time-out, and hears of no failure of a request
   that is still at the host. *)
LEMMA GivenUpByMain ==
  ASSUME Inv, NEW p \in Ptys, GivenUp(p),
         Ask(p) \/ TimeOut(p) \/ Cancel(p) \/ Kill(p) \/ MainReads(p)
  PROVE  GivenUp(p)'
<1>1. CASE Ask(p) \/ Cancel(p) \/ Kill(p)
  <2>1. client'[p] # "failed"
    BY <1>1 DEF Inv, TypeOK, Ask, Cancel, Kill
  <2> QED  BY <2>1 DEF GivenUp
<1>2. CASE TimeOut(p)
  <2>1. Posted(p, "kill")
    BY <1>2, PostFacts DEF Inv, TimeOut, ToHost
  <2> QED  BY <1>2, <2>1 DEF GivenUp, Posted, TimeOut, HostRuns
<1>3. CASE MainReads(p)
  <2>1. /\ host' = host /\ entry' = entry /\ pipe' = pipe /\ killed' = killed
        /\ client \in [Ptys -> {"new", "pending", "held", "failed", "ended"}]
    BY <1>3 DEF MainReads, coreVars, Inv, TypeOK
  <2>2. CASE client'[p] = client[p]
    BY <2>1, <2>2, GivenUpElsewhere
  <2>3. CASE client'[p] # client[p] /\ client'[p] = "failed"
    <3>1. Head(inbox[p]) \notin {"ok", "exit"}
      BY <1>3, <2>1, <2>3 DEF MainReads, Answered
    <3>2. inbox[p] = <<"failed">>
      BY <1>3, <3>1, NewsFacts DEF MainReads, Inv, PtyInv, NewsInv, News
    <3> QED  BY <2>1, <3>2, NewsDiffer DEF GivenUp, Inv, PtyInv, NewsInv, RequestInv, UnderWay
  <2>4. CASE client'[p] # "failed"
    BY <2>4 DEF GivenUp
  <2> QED  BY <2>2, <2>3, <2>4
<1> QED  BY <1>1, <1>2, <1>3

(* The host takes the kill out of the channel only to obey it. *)
LEMMA GivenUpByHost ==
  ASSUME Inv, NEW p \in Ptys, GivenUp(p),
         \/ HostSpawns(p) \/ GateOpens(p) \/ GateTimesOut(p) \/ GateFails(p)
         \/ HostObeys(p) \/ ProcessEnds(p)
  PROVE  GivenUp(p)'
<1> DEFINE s == pipe[p]
<1>1. s \in Seq(ToHost) /\ AsksFirst(s)
  BY DEF Inv, TypeOK, PtyInv, RequestInv
<1>2. s # <<>> =>
        /\ Contains(s, Head(s)) /\ ~Contains(Tail(s), "spawn")
        /\ Tail(s) # <<>> => Tail(s)[Len(Tail(s))] = s[Len(s)]
        /\ Tail(s) = <<>> => Head(s) = s[Len(s)]
  BY <1>1, TailFacts
<1>3. CASE HostSpawns(p)
  <2>1. s # <<>> /\ Head(s) = "spawn" /\ Contains(s, "spawn") /\ HostRuns
    BY <1>2, <1>3 DEF HostSpawns
  <2>2. pipe'[p] = Tail(s) /\ client' = client /\ killed' = killed /\ host' = host
    BY <1>3 DEF HostSpawns, mainVars, Inv, TypeOK
  <2> QED  BY <1>2, <2>1, <2>2 DEF GivenUp
<1>4. CASE HostObeys(p)
  <2>1. s # <<>> /\ Head(s) # "spawn" /\ HostRuns
    BY <1>4 DEF HostObeys
  <2>2. /\ pipe'[p] = Tail(s) /\ client' = client /\ entry' = entry /\ host' = host
        /\ killed[p] => killed'[p]
        /\ Head(s) = "kill" /\ entry[p] # "none" => killed'[p]
    BY <1>4 DEF HostObeys, mainVars, Inv, TypeOK
  <2> QED  BY <1>2, <2>1, <2>2 DEF GivenUp
<1>5. CASE GateOpens(p) \/ GateTimesOut(p) \/ GateFails(p)
  BY <1>5 DEF GivenUp, GateOpens, GateTimesOut, GateFails, HostRuns, mainVars
<1>6. CASE ProcessEnds(p)
  <2>1. /\ pipe' = pipe /\ entry'[p] = "none" /\ entry[p] = "open"
    BY <1>6 DEF ProcessEnds, Inv, TypeOK
  <2> QED  BY <2>1 DEF GivenUp, Inv, PtyInv, RequestInv, UnderWay
<1> QED  BY <1>3, <1>4, <1>5, <1>6

(* Every step, the deaths of the host included. *)
LEMMA GivenUpStep ==
  ASSUME Inv, [Next]_vars, NEW q \in Ptys, GivenUp(q)
  PROVE  GivenUp(q)'
<1>1. ASSUME NEW p \in Ptys,
             Ask(p) \/ TimeOut(p) \/ Cancel(p) \/ Kill(p) \/ MainReads(p)
      PROVE  GivenUp(q)'
  <2>1. CASE q = p
    BY <1>1, <2>1, GivenUpByMain
  <2>2. CASE q # p
    BY <1>1, <2>2, GivenUpElsewhere
       DEF Inv, TypeOK, Ask, TimeOut, Cancel, Kill, MainReads, Post, coreVars
  <2> QED  BY <2>1, <2>2
<1>2. ASSUME NEW p \in Ptys,
             \/ HostSpawns(p) \/ GateOpens(p) \/ GateTimesOut(p) \/ GateFails(p)
             \/ HostObeys(p) \/ ProcessEnds(p)
      PROVE  GivenUp(q)'
  <2>1. CASE q = p
    BY <1>2, <2>1, GivenUpByHost
  <2>2. CASE q # p
    BY <1>2, <2>2, GivenUpElsewhere
       DEF Inv, TypeOK, HostSpawns, GateOpens, GateTimesOut, GateFails, HostObeys, ProcessEnds,
           mainVars
  <2> QED  BY <2>1, <2>2
<1>3. CASE HostDies \/ HostExitSeen
  BY <1>3 DEF HostDies, HostExitSeen, GivenUp, HostRuns
<1>4. CASE NextHost
  <2>1. waiting[q] \in Seq(ToHost) /\ AsksFirst(waiting[q])
    BY DEF Inv, TypeOK, PtyInv, RequestInv
  <2>2. client[q] = "failed" => ~Contains(StillWanted(q), "spawn")
    BY <2>1, TailFacts, EmptyFacts DEF StillWanted
  <2>3. entry'[q] = "none" /\ client' = client /\ pipe'[q] = StillWanted(q)
    BY <1>4 DEF NextHost, mainVars, coreVars, Inv, HostInv
  <2> QED  BY <2>2, <2>3 DEF GivenUp
<1>5. CASE UNCHANGED vars \/ \E p \in Ptys : TreeStops(p)
  BY <1>5, GivenUpElsewhere DEF vars, mainVars, channelVars, coreVars, TreeStops
<1> QED  BY <1>1, <1>2, <1>3, <1>4, <1>5 DEF Next

(* A spawn that main gave up never stays in the host behind its back: its kill
   has come, or comes after all else that was posted (the catch of
   PtyHostClient.spawn, through time-outs, deaths and requests kept back). *)
THEOREM GivenUpIsAlwaysFollowed == Spec => []GivenUpIsFollowedByAKill
<1>1. Init => GivenUpIsFollowedByAKill
  BY DEF Init, GivenUpIsFollowedByAKill
<1>2. Inv /\ [Next]_vars /\ GivenUpIsFollowedByAKill => GivenUpIsFollowedByAKill'
  <2>1. GivenUpIsFollowedByAKill <=> \A p \in Ptys : GivenUp(p)
    BY DEF GivenUpIsFollowedByAKill, GivenUp
  <2>2. GivenUpIsFollowedByAKill' <=> \A p \in Ptys : GivenUp(p)'
    BY DEF GivenUpIsFollowedByAKill, GivenUp
  <2> QED  BY <2>1, <2>2, GivenUpStep
<1> QED  BY <1>1, <1>2, InvHolds, PTL DEF Spec

-----------------------------------------------------------------------------
(* The refinement. *)

(* A terminal's statuses come in the order of the contract, and a process   *)
(* starts only for one that was asked for.                                  *)
Moves(q) ==
  /\ client'[q] = client[q] \/ <<Status(q), Status(q)'>> \in Contract!Follows
  /\ Unstopped(q)' /\ ~Unstopped(q) => Status(q) \in {"asked", "failed"}

(* Main's steps start nothing and move a status on by one. *)
LEMMA MainMoves ==
  ASSUME Inv, NEW p \in Ptys, NEW q \in Ptys,
         Ask(p) \/ TimeOut(p) \/ Cancel(p) \/ Kill(p) \/ MainReads(p)
  PROVE  Moves(q)
<1>0. client \in [Ptys -> {"new", "pending", "held", "failed", "ended"}]
  BY DEF Inv, TypeOK
<1>1. proc' = proc /\ pidless' = pidless
  BY DEF Ask, TimeOut, Cancel, Kill, MainReads, coreVars
<1>2. \/ client'[q] = client[q]
      \/ client[q] = "new" /\ client'[q] = "pending"
      \/ client[q] = "pending" /\ client'[q] \in {"held", "failed"}
      \/ client[q] = "held" /\ client'[q] = "ended"
  BY <1>0 DEF Ask, TimeOut, Cancel, Kill, MainReads, Answered
<1> QED  BY <1>1, <1>2 DEF Moves, Status, Unstopped, Contract!Follows

(* The host's steps leave main's statuses alone, and start what was asked for. *)
LEMMA HostMoves ==
  ASSUME Inv, NEW p \in Ptys, NEW q \in Ptys,
         \/ HostSpawns(p) \/ GateOpens(p) \/ GateTimesOut(p) \/ GateFails(p)
         \/ HostObeys(p) \/ ProcessEnds(p) \/ TreeStops(p)
  PROVE  Moves(q)
<1>1. client' = client
  BY DEF HostSpawns, GateOpens, GateTimesOut, GateFails, HostObeys, ProcessEnds, TreeStops,
     mainVars
<1>2. HostSpawns(p) => Contains(pipe[p], "spawn")
  BY TailFacts DEF Inv, TypeOK, HostSpawns
<1>3. proc'[q] = "running" /\ proc[q] # "running" => client[q] \in {"pending", "failed"}
  BY <1>2 DEF Inv, TypeOK, PtyInv, RequestInv, UnderWay,
     HostSpawns, GateOpens, GateTimesOut, GateFails, HostObeys, ProcessEnds, TreeStops
<1>4. q \in pidless => q \in pidless'
  BY DEF HostSpawns, GateOpens, GateTimesOut, GateFails, HostObeys, ProcessEnds, TreeStops,
     coreVars
<1> QED  BY <1>1, <1>3, <1>4 DEF Moves, Status, Unstopped

(* A host's death ends statuses and processes, and starts none. *)
LEMMA LossMoves ==
  ASSUME Inv, NEW q \in Ptys, HostDies \/ HostExitSeen \/ NextHost
  PROVE  Moves(q)
<1>1. /\ proc'[q] = "running" => proc[q] = "running"
      /\ pidless' = pidless
  BY DEF HostDies, HostExitSeen, NextHost, StopTree, coreVars
<1>2. \/ client'[q] = client[q]
      \/ client[q] = "pending" /\ client'[q] = "failed"
      \/ client[q] = "held" /\ client'[q] = "ended"
  BY DEF HostDies, HostExitSeen, NextHost, Lost, mainVars
<1> QED  BY <1>1, <1>2 DEF Moves, Status, Unstopped, Contract!Follows

(* Every step is a step of the contract, or none. *)
LEMMA ContractStep ==
  ASSUME Inv, Inv', [Next]_vars
  PROVE  [Contract!ContractNext]_(Contract!contractVars)
<1>1. CASE UNCHANGED vars
  BY <1>1 DEF Contract!contractVars, Status, Unstopped, vars, mainVars, coreVars
<1>2. CASE Next
  <2>1. ASSUME NEW q \in Ptys PROVE Moves(q)
    BY <1>2, MainMoves, HostMoves, LossMoves DEF Next
  <2>2. ASSUME NEW q \in Ptys
        PROVE  /\ Status(q)' \in Contract!Statuses
               /\ Status(q)' = Status(q) \/ <<Status(q), Status(q)'>> \in Contract!Follows
               /\ Status(q)' = "ended" => ~Unstopped(q)'
    <3>1. client'[q] \in {"new", "pending", "held", "failed", "ended"}
      BY DEF Inv, TypeOK
    <3>2. client'[q] = "ended" => ~Unstopped(q)'
      BY DEF Inv, PtyInv, EndInv
    <3> QED  BY <2>1, <3>1, <3>2 DEF Moves, Status, Contract!Statuses
  <2>3. \A q \in Ptys : Unstopped(q)' \in BOOLEAN
    BY DEF Unstopped
  <2> QED  BY <2>1, <2>2, <2>3 DEF Moves, Contract!ContractNext
<1> QED  BY <1>1, <1>2

(* The client keeps its contract through every death of the host: answered once,
   ended once, and behind an end that was told no process main has the pid of
   that was not stopped (takeLiveHandles, the stop that reportHostLost sends
   before it, the answers nobody waits for any more). *)
THEOREM ContractRefined == Spec => ContractKept
<1>1. Init => Contract!ContractInit
  BY DEF Init, Contract!ContractInit, Status, Unstopped
<1>2. Inv /\ Inv' /\ [Next]_vars => [Contract!ContractNext]_(Contract!contractVars)
  BY ContractStep
<1> QED  BY <1>1, <1>2, InvHolds, PTL DEF Spec, ContractKept, Contract!ContractSpec
=============================================================================
