------------------------------- MODULE PtyHost -------------------------------
(***************************************************************************)
(* The client of the pty host in main, the transport under it and the host *)
(* process itself (pty/host/): requests that time out, a host that dies at *)
(* any moment and is forked again, and the host core that runs in main     *)
(* once that has happened too often.                                       *)
(*                                                                         *)
(* Both directions keep their order, and every guard below looks at one    *)
(* terminal, so each channel is split into what it holds for each of them. *)
(***************************************************************************)
EXTENDS Naturals, Sequences

CONSTANTS
  MaxPtys,     \* requests of a run: the ids the client mints, from 1 on
  MaxCrashes,  \* the host's deaths after which the core runs in main
  Outlives     \* TRUE: a process may go on after the host that started it died

ASSUME PtyHostAssumption ==
  /\ MaxPtys \in Nat
  /\ MaxCrashes \in Nat \ {0}
  /\ Outlives \in BOOLEAN

VARIABLES
  client,   \* what main knows of a terminal: PtyHostClient.handles, the request
  notices,  \* how often a terminal's exit listener was called
  asked,    \* what main's teardowns posted: cancelSpawn, kill
  unposted, \* requests that timed out while they still waited for a host
  pipe,     \* posted to the host and not handled
  waiting,  \* queuedWhileDown: kept for the next host
  inbox,    \* posted to main and not handled
  host,     \* "up", "dead" (main does not know yet), "down", "inMain"
  crashes,
  entry,    \* the host's record of a terminal
  killed, cancelled, retried,
  pidless,  \* answered as started with pid 0: main cannot name their processes
  proc      \* the process in the terminal; "stopping": its tree's stop was sent

mainVars == <<client, notices, asked, unposted>>
channelVars == <<pipe, waiting, inbox>>
coreVars == <<entry, killed, cancelled, retried, pidless>>
vars == <<mainVars, channelVars, host, crashes, coreVars, proc>>

Ptys == 1..MaxPtys

ToHost == {"spawn", "cancel", "kill"}
ToMain == {"ok", "failed", "exit"}

HostRuns == host \in {"up", "inMain"}

-----------------------------------------------------------------------------
(* send: to the host, or kept for the next one.  What is posted to a host   *)
(* that died unnoticed is lost with it.                                     *)
Post(p, m) ==
  /\ pipe' = IF HostRuns THEN [pipe EXCEPT ![p] = Append(@, m)] ELSE pipe
  /\ waiting' = IF host = "down" THEN [waiting EXCEPT ![p] = Append(@, m)] ELSE waiting

(* Mutant: a request that timed out is sent to the next host all the same. *)
MutantStillWanted(p) == waiting[p]

(* What the next host gets of what waited: not a request that timed out.    *)
(* A terminal's request is the first thing posted for it.                   *)
StillWanted(p) ==
  IF waiting[p] # <<>> /\ Head(waiting[p]) = "spawn" /\ client[p] # "pending"
    THEN Tail(waiting[p]) ELSE waiting[p]

Tell(p, m) == inbox' = [inbox EXCEPT ![p] = Append(@, m)]

-----------------------------------------------------------------------------
(* PtyHostClient.spawn: the next id, and the request. *)
Ask(p) ==
  /\ client[p] = "new" /\ \A q \in Ptys : q < p => client[q] # "new"
  /\ client' = [client EXCEPT ![p] = "pending"]
  /\ Post(p, "spawn")
  /\ UNCHANGED <<notices, asked, unposted, inbox, host, crashes, coreVars, proc>>

(* Mutant: a request that timed out is only reported. *)
MutantTimeOut(p) ==
  /\ client[p] = "pending" /\ host # "inMain"
  /\ client' = [client EXCEPT ![p] = "failed"]
  /\ unposted' = unposted
  /\ UNCHANGED <<notices, asked, pipe, waiting, inbox, host, crashes, coreVars, proc>>

(* The request's budget is spent: the spawn is reported failed, and a kill  *)
(* follows it.  The core in main answers with no budget.                    *)
TimeOut(p) ==
  /\ client[p] = "pending" /\ host # "inMain"
  /\ client' = [client EXCEPT ![p] = "failed"]
  /\ unposted' = IF "spawn" \in {waiting[p][i] : i \in 1..Len(waiting[p])}
                   THEN unposted \cup {p} ELSE unposted
  /\ Post(p, "kill")
  /\ UNCHANGED <<notices, asked, inbox, host, crashes, coreVars, proc>>

(* A teardown while the spawn is under way. *)
Cancel(p) ==
  /\ client[p] = "pending" /\ <<"cancel", p>> \notin asked
  /\ asked' = asked \cup {<<"cancel", p>>}
  /\ Post(p, "cancel")
  /\ UNCHANGED <<client, notices, unposted, inbox, host, crashes, coreVars, proc>>

(* RemotePty.kill *)
Kill(p) ==
  /\ client[p] = "held" /\ <<"kill", p>> \notin asked
  /\ asked' = asked \cup {<<"kill", p>>}
  /\ Post(p, "kill")
  /\ UNCHANGED <<client, notices, unposted, inbox, host, crashes, coreVars, proc>>

(* An answer nobody waits for any more changes nothing. *)
Answered(p, m) ==
  IF client[p] # "pending" THEN client[p] ELSE IF m = "ok" THEN "held" ELSE "failed"

(* onHostMessage and dispatch: the next message of the host. *)
MainReads(p) ==
  /\ inbox[p] # <<>>
  /\ inbox' = [inbox EXCEPT ![p] = Tail(@)]
  /\ LET m == Head(inbox[p]) IN
       IF m = "exit"
         THEN /\ client' = IF client[p] = "held" THEN [client EXCEPT ![p] = "ended"] ELSE client
              /\ notices' = IF client[p] = "held" THEN [notices EXCEPT ![p] = @ + 1] ELSE notices
         ELSE /\ client' = [client EXCEPT ![p] = Answered(p, m)]
              /\ UNCHANGED notices
  /\ UNCHANGED <<asked, unposted, pipe, waiting, host, crashes, coreVars, proc>>

-----------------------------------------------------------------------------
(* The host handles a spawn: it throws, starts the process, or, with a      *)
(* ConPTY, answers only once node-pty knows the pid (RootPidGate).          *)
HostSpawns(p) ==
  /\ HostRuns /\ pipe[p] # <<>> /\ Head(pipe[p]) = "spawn"
  /\ pipe' = [pipe EXCEPT ![p] = Tail(@)]
  /\ \/ Tell(p, "failed") /\ UNCHANGED <<entry, proc>>
     \/ /\ Tell(p, "ok")
        /\ entry' = [entry EXCEPT ![p] = "open"]
        /\ proc' = [proc EXCEPT ![p] = "running"]
     \/ entry' = [entry EXCEPT ![p] = "gated"] /\ UNCHANGED <<inbox, proc>>
  /\ UNCHANGED <<mainVars, waiting, host, crashes, killed, cancelled, retried, pidless>>

(* The pid is known; what the gate held back comes after the answer. *)
GateOpens(p) ==
  /\ HostRuns /\ entry[p] = "gated"
  /\ entry' = [entry EXCEPT ![p] = "open"]
  /\ proc' = [proc EXCEPT ![p] = "running"]
  /\ Tell(p, "ok")
  /\ UNCHANGED <<mainVars, pipe, waiting, host, crashes, killed, cancelled, retried, pidless>>

(* The gate's backstop: neither a pid nor an exit came, and the spawn is     *)
(* answered as started.  What runs in it, if anything, has no name in main. *)
GateTimesOut(p) ==
  /\ HostRuns /\ entry[p] = "gated"
  /\ entry' = [entry EXCEPT ![p] = "open"]
  /\ proc' = [proc EXCEPT ![p] = "running"]
  /\ pidless' = pidless \cup {p}
  /\ Tell(p, "ok")
  /\ UNCHANGED <<mainVars, pipe, waiting, host, crashes, killed, cancelled, retried>>

(* retryLimitFor: a ConPTY whose output never connected is tried once more, *)
(* if it is still wanted.                                                   *)
MayRetry(p) == ~killed[p] /\ ~cancelled[p] /\ ~retried[p]

(* Nothing started: one more attempt, or the spawn is answered as failed.   *)
GateFails(p) ==
  /\ HostRuns /\ entry[p] = "gated"
  /\ \/ /\ MayRetry(p)
        /\ retried' = [retried EXCEPT ![p] = TRUE]
        /\ UNCHANGED <<entry, inbox>>
     \/ /\ entry' = [entry EXCEPT ![p] = "none"]
        /\ Tell(p, "failed")
        /\ UNCHANGED retried
  /\ UNCHANGED <<mainVars, pipe, waiting, host, crashes, killed, cancelled, pidless, proc>>

(* Mutant: a terminal whose pid is not known yet is not found. *)
MutantHostObeys(p) ==
  /\ HostRuns /\ pipe[p] # <<>> /\ Head(pipe[p]) # "spawn"
  /\ pipe' = [pipe EXCEPT ![p] = Tail(@)]
  /\ killed' = [killed EXCEPT ![p] = @ \/ (Head(pipe[p]) = "kill" /\ entry[p] = "open")]
  /\ cancelled' = [cancelled EXCEPT ![p] = @ \/ (Head(pipe[p]) = "cancel" /\ entry[p] = "open")]
  /\ UNCHANGED <<mainVars, waiting, inbox, host, crashes, entry, retried, pidless, proc>>

(* cancelSpawn and kill: of a terminal the host does not have, nothing.     *)
(* A kill before the pid is held back by node-pty until the gate opens.     *)
HostObeys(p) ==
  /\ HostRuns /\ pipe[p] # <<>> /\ Head(pipe[p]) # "spawn"
  /\ pipe' = [pipe EXCEPT ![p] = Tail(@)]
  /\ LET known == entry[p] \in {"gated", "open"} IN
       IF Head(pipe[p]) = "kill"
         THEN killed' = [killed EXCEPT ![p] = @ \/ known] /\ UNCHANGED cancelled
         ELSE cancelled' = [cancelled EXCEPT ![p] = @ \/ known] /\ UNCHANGED killed
  /\ UNCHANGED <<mainVars, waiting, inbox, host, crashes, entry, retried, pidless, proc>>

(* Mutant: the exit of a terminal main killed is not told. *)
MutantProcessEnds(p) ==
  /\ HostRuns /\ entry[p] = "open"
  /\ proc' = [proc EXCEPT ![p] = "gone"]
  /\ entry' = [entry EXCEPT ![p] = "none"]
  /\ IF killed[p] THEN UNCHANGED inbox ELSE Tell(p, "exit")
  /\ UNCHANGED <<mainVars, pipe, waiting, host, crashes, killed, cancelled, retried, pidless>>

(* onPtyExit: the process ends, by itself or killed. *)
ProcessEnds(p) ==
  /\ HostRuns /\ entry[p] = "open"
  /\ proc' = [proc EXCEPT ![p] = "gone"]
  /\ entry' = [entry EXCEPT ![p] = "none"]
  /\ Tell(p, "exit")
  /\ UNCHANGED <<mainVars, pipe, waiting, host, crashes, killed, cancelled, retried, pidless>>

(* The host dies with all it holds; its processes usually go with it. *)
HostDies ==
  /\ host = "up"
  /\ host' = "dead" /\ crashes' = crashes + 1
  /\ pipe' = [p \in Ptys |-> <<>>]
  /\ entry' = [p \in Ptys |-> "none"]
  /\ \E left \in SUBSET {p \in Ptys : proc[p] = "running"} :
       /\ left # {} => Outlives
       /\ proc' = [p \in Ptys |-> IF proc[p] = "running" /\ p \notin left THEN "gone" ELSE proc[p]]
  /\ UNCHANGED <<mainVars, waiting, inbox, killed, cancelled, retried, pidless>>

(* Mutant: the exits are reported and nothing is stopped. *)
MutantStopTree(p) == proc[p]

(* stopLostPtyTree: a stop is sent, to what main has the pid of.  Nothing   *)
(* waits for it, and its errors are dropped.                                *)
StopTree(p) ==
  IF client[p] = "held" /\ proc[p] = "running" /\ p \notin pidless THEN "stopping" ELSE proc[p]

(* Mutant: what a dead host was asked for is kept for the next one. *)
MutantLost ==
  /\ client' = [p \in Ptys |-> IF client[p] = "held" THEN "ended" ELSE client[p]]
  /\ waiting' = [p \in Ptys |-> IF client[p] = "pending" THEN <<"spawn">> ELSE <<>>]

(* Every request rejected, with its kill; every terminal held ended. *)
Lost ==
  /\ client' = [p \in Ptys |-> CASE client[p] = "pending" -> "failed"
                                 [] client[p] = "held" -> "ended"
                                 [] OTHER -> client[p]]
  /\ waiting' = [p \in Ptys |-> IF client[p] = "pending" THEN <<"kill">> ELSE <<>>]

(* onHostExit and reportHostLost: what the dead host still had to say is    *)
(* ignored, and each terminal's tree is sent a stop before its exit is told. *)
HostExitSeen ==
  /\ host = "dead"
  /\ host' = "down"
  /\ inbox' = [p \in Ptys |-> <<>>]
  /\ Lost
  /\ proc' = [p \in Ptys |-> StopTree(p)]
  /\ notices' = [p \in Ptys |-> IF client[p] = "held" THEN notices[p] + 1 ELSE notices[p]]
  /\ UNCHANGED <<asked, unposted, pipe, crashes, coreVars>>

(* The stop arrives: taskkill, or the signal.  Nothing promises that it does. *)
TreeStops(p) ==
  /\ proc[p] = "stopping"
  /\ proc' = [proc EXCEPT ![p] = "gone"]
  /\ UNCHANGED <<mainVars, channelVars, host, crashes, coreVars>>

(* ensureChild after the backoff, or switchToFallback past the cap. *)
NextHost ==
  /\ host = "down"
  /\ host' = IF crashes < MaxCrashes THEN "up" ELSE "inMain"
  /\ pipe' = [p \in Ptys |-> StillWanted(p)]
  /\ waiting' = [p \in Ptys |-> <<>>]
  /\ UNCHANGED <<mainVars, inbox, crashes, coreVars, proc>>

-----------------------------------------------------------------------------
Init ==
  /\ client = [p \in Ptys |-> "new"] /\ notices = [p \in Ptys |-> 0]
  /\ asked = {} /\ unposted = {}
  /\ pipe = [p \in Ptys |-> <<>>] /\ waiting = pipe /\ inbox = pipe
  /\ host = "up" /\ crashes = 0
  /\ entry = [p \in Ptys |-> "none"] /\ pidless = {}
  /\ killed = [p \in Ptys |-> FALSE] /\ cancelled = killed /\ retried = killed
  /\ proc = [p \in Ptys |-> "none"]

Next ==
  \/ \E p \in Ptys :
       \/ Ask(p) \/ TimeOut(p) \/ Cancel(p) \/ Kill(p) \/ MainReads(p)
       \/ HostSpawns(p) \/ GateOpens(p) \/ GateTimesOut(p) \/ GateFails(p)
       \/ HostObeys(p) \/ ProcessEnds(p) \/ TreeStops(p)
  \/ HostDies \/ HostExitSeen \/ NextHost

Spec == Init /\ [][Next]_vars

(* Both processes' event loops turn, timers fire, the gate has a limit, and *)
(* a terminal that was killed ends: one without a pid on its first output,  *)
(* or by node-pty's own limit for it.  A tree that main stopped need not.   *)
Fairness ==
  /\ \A p \in Ptys :
       /\ WF_vars(TimeOut(p)) /\ WF_vars(MainReads(p))
       /\ WF_vars(HostSpawns(p) \/ HostObeys(p))
       /\ WF_vars(GateOpens(p) \/ GateTimesOut(p) \/ GateFails(p))
       /\ WF_vars(killed[p] /\ ProcessEnds(p))
  /\ WF_vars(HostExitSeen) /\ WF_vars(NextHost)

FairSpec == Spec /\ Fairness

-----------------------------------------------------------------------------
TypeOK ==
  /\ client \in [Ptys -> {"new", "pending", "held", "failed", "ended"}]
  /\ notices \in [Ptys -> Nat]
  /\ asked \subseteq {"cancel", "kill"} \X Ptys /\ unposted \subseteq Ptys
  /\ pipe \in [Ptys -> Seq(ToHost)] /\ waiting \in [Ptys -> Seq(ToHost)]
  /\ inbox \in [Ptys -> Seq(ToMain)]
  /\ host \in {"up", "dead", "down", "inMain"} /\ crashes \in 0..MaxCrashes
  /\ entry \in [Ptys -> {"none", "gated", "open"}]
  /\ killed \in [Ptys -> BOOLEAN] /\ cancelled \in [Ptys -> BOOLEAN]
  /\ retried \in [Ptys -> BOOLEAN] /\ pidless \subseteq Ptys
  /\ proc \in [Ptys -> {"none", "running", "stopping", "gone"}]

Contains(s, m) == \E i \in 1..Len(s) : s[i] = m

(* Of a spawn main gave up, the host either has nothing left to run, or has *)
(* the kill behind it: no terminal that main holds no handle of stays.      *)
(* (the catch in PtyHostClient.spawn)                                       *)
GivenUpIsFollowedByAKill ==
  \A p \in Ptys :
    client[p] = "failed" /\ HostRuns /\ (entry[p] # "none" \/ Contains(pipe[p], "spawn"))
      => killed[p] \/ (pipe[p] # <<>> /\ pipe[p][Len(pipe[p])] = "kill")

(* A terminal main holds runs, or the news of its end is on the way: its    *)
(* exit in the inbox, or a host whose death main is still to hear of.       *)
HeldTerminalsEndAudibly ==
  \A p \in Ptys :
    client[p] = "held" => entry[p] = "open" \/ Contains(inbox[p], "exit") \/ host = "dead"

(* A request rejected because no host ever had it is never run by a later   *)
(* one: its caller was told so, and may have asked again.                   *)
UnpostedNeverRuns == \A p \in unposted : proc[p] = "none" /\ entry[p] = "none"

(* What main holds, what it gave up and what the host runs agree at every
   step, through timeouts, deaths of the host and what was kept for the next. *)
HostAndClientAgree == TypeOK /\ HeldTerminalsEndAudibly /\ UnpostedNeverRuns

(* A terminal runs in at most one host, once: after its process was gone,   *)
(* or was sent a stop, no later host starts it again (the rejection of all  *)
(* requests on a host's exit, against what is kept for the next one).       *)
StartsOnce ==
  [][\A p \in Ptys : proc[p] \in {"stopping", "gone"} => proc'[p] \in {proc[p], "gone"}]_vars

(* The client keeps what PtyContract promises. *)
Status(p) ==
  CASE client[p] = "pending" -> "asked" [] client[p] = "held" -> "live" [] OTHER -> client[p]

(* A process that main has the pid of, and that nobody has stopped. *)
Unstopped(p) == proc[p] = "running" /\ p \notin pidless

Contract == INSTANCE PtyContract WITH
  status <- [p \in Ptys |-> Status(p)], unstopped <- [p \in Ptys |-> Unstopped(p)]

ContractKept == Contract!ContractSpec

(* A spawn that main gave up leaves the host again. *)
GivenUpLeavesTheHost ==
  \A p \in Ptys : client[p] = "failed" ~> entry[p] = "none" /\ ~Contains(pipe[p], "spawn")

(* A terminal that was killed is reported ended, whatever becomes of hosts. *)
KillsAreReported == \A p \in Ptys : (client[p] = "held" /\ <<"kill", p>> \in asked) ~> client[p] = "ended"

=============================================================================
