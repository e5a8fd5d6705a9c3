------------------------------ MODULE IpcControl ------------------------------
(***************************************************************************)
(* The IPC server (internal/ipc/server.go) and the host.* and join.*       *)
(* handlers (internal/ipc/methods_host.go), with the presence Broadcaster  *)
(* that host.start starts.  The server reads lines from stdin and gives    *)
(* each request a goroutine of its own, so two handlers may run at once.   *)
(*                                                                         *)
(* A handler is a sequence of critical sections of hostState.mu; pc[r] is  *)
(* the one request r comes to next, named after what it does.  A host is   *)
(* the signaling client, HostManager and Broadcaster host.start makes, a   *)
(* join the signaling client and JoinManager of join.start; a name is used *)
(* again once everything about it has ended.  presence.watch, which posts  *)
(* too, is in PresenceWatch.                                               *)
(***************************************************************************)
EXTENDS Naturals

CONSTANTS
    Requests,   \* request goroutines
    Hosts,      \* names for what host.start makes
    Joins,      \* names for what join.start makes
    MaxLines,   \* bound: the requests the other program sends
    None

ASSUME NoneAssumption == None \notin Hosts \cup Joins /\ Hosts \cap Joins = {}
ASSUME MaxLinesAssumption == MaxLines \in Nat

VARIABLES
    server,     \* Server.Run: reads, drains (wg.Wait) or has exited
    stdin,      \* "open" or "eof"
    lines,      \* lines read so far
    quit,       \* Server.quitCh is closed, or about to be
    cancelled,  \* the context of Run is cancelled
    pc, arg,    \* per request: its next step and the host or join it holds
    host,       \* hostState.sig, pm and bc; running is host # None
    hostSig,    \* per host: its signaling client
    running,    \* per host: Broadcaster.running
    stopCh,     \* per host: Broadcaster.stop is closed
    loop,       \* per host: Broadcaster.loop; "tick" has a POST in flight
    stuck,      \* hosts whose HostManager.mu is held for ever
    join,       \* hostState.jm and joinSig; joinRunning is join # None
    joinSig,    \* per join: its signaling client
    listening,  \* per join: the JoinManager's listener is open
    status,     \* watchState.currentStatus
    posted,     \* the status the presence service has
    unposted,   \* the ONLINE of the last host.stop did not arrive
    overlapped  \* kinds whose requests have overlapped in a harmful way

serverVars == <<server, stdin, lines, quit, cancelled>>
hostVars == <<host, hostSig, running, stopCh, loop, stuck>>
joinVars == <<join, joinSig, listening>>
presenceVars == <<status, posted, unposted>>
vars == <<serverVars, pc, arg, hostVars, joinVars, presenceVars, overlapped>>

HostStartPcs == {"host.start", "load", "connect", "broadcast", "hosting"}
HostStopPcs == {"host.stop", "bcClose", "bcWait", "pmClose", "stopped", "post"}
JoinStartPcs == {"join.start", "took", "resolve", "listen", "commit"}
JoinStopPcs == {"join.stop", "jmClose"}
Methods == {"host.start", "host.stop", "join.start", "join.stop", "quit"}
Pcs == {"idle", "quit"} \cup HostStartPcs \cup HostStopPcs \cup JoinStartPcs \cup JoinStopPcs
SigStates == {"none", "new", "up", "closed"}

TypeOK ==
    /\ server \in {"reads", "drains", "exited"}
    /\ stdin \in {"open", "eof"} /\ lines \in 0..MaxLines
    /\ quit \in BOOLEAN /\ cancelled \in BOOLEAN
    /\ pc \in [Requests -> Pcs]
    /\ arg \in [Requests -> Hosts \cup Joins \cup {None}]
    /\ \A r \in Requests :
          /\ pc[r] \in {"connect", "broadcast", "hosting", "bcClose", "bcWait", "pmClose"} =>
                arg[r] \in Hosts
          /\ pc[r] \in {"commit", "jmClose"} => arg[r] \in Joins
          /\ pc[r] = "took" => arg[r] \in Joins \cup {None}
    /\ host \in Hosts \cup {None}
    /\ hostSig \in [Hosts -> SigStates]
    /\ running \in [Hosts -> BOOLEAN] /\ stopCh \in [Hosts -> BOOLEAN]
    /\ loop \in [Hosts -> {"none", "tick", "wait", "done"}]
    /\ stuck \in SUBSET Hosts
    /\ join \in Joins \cup {None}
    /\ joinSig \in [Joins -> SigStates]
    /\ listening \in [Joins -> BOOLEAN]
    /\ status \in {"ONLINE", "HOSTING"} /\ posted \in {"ONLINE", "HOSTING"}
    /\ unposted \in BOOLEAN
    /\ overlapped \in SUBSET {"host", "join"}

Init ==
    /\ server = "reads" /\ stdin = "open" /\ lines = 0 /\ quit = FALSE /\ cancelled = FALSE
    /\ pc = [r \in Requests |-> "idle"] /\ arg = [r \in Requests |-> None]
    /\ host = None /\ hostSig = [h \in Hosts |-> "none"]
    /\ running = [h \in Hosts |-> FALSE] /\ stopCh = [h \in Hosts |-> FALSE]
    /\ loop = [h \in Hosts |-> "none"] /\ stuck = {}
    /\ join = None /\ joinSig = [j \in Joins |-> "none"]
    /\ listening = [j \in Joins |-> FALSE]
    /\ status = "ONLINE" /\ posted = "ONLINE" /\ unposted = FALSE
    /\ overlapped = {}

Under(Ps) == {r \in Requests : pc[r] \in Ps}
Goes(r, p) == pc' = [pc EXCEPT ![r] = p]
Holds(r, p, x) == Goes(r, p) /\ arg' = [arg EXCEPT ![r] = x]
\* The handler returns; dispatch writes the reply.
Reply(r) == Holds(r, "idle", None)

HostLive(h) == hostSig[h] = "up" \/ loop[h] \in {"tick", "wait"}
JoinLive(j) == joinSig[j] = "up" \/ listening[j]
InHand(x) == \E r \in Requests : arg[r] = x
Unused(h) == ~HostLive(h) /\ host # h /\ ~InHand(h)
UnusedJoin(j) == ~JoinLive(j) /\ join # j /\ ~InHand(j)

(***************************************************************************)
(* Server.                                                                 *)
(***************************************************************************)

\* Which overlaps can lose a host or a join: a host.start with any other
\* host.* request, and two join.starts.
Overlaps(m) ==
    (IF \/ m = "host.start" /\ Under(HostStartPcs \cup HostStopPcs) # {}
        \/ m = "host.stop" /\ Under(HostStartPcs) # {}
     THEN {"host"} ELSE {})
    \cup
    (IF m = "join.start" /\ Under(JoinStartPcs) # {} THEN {"join"} ELSE {})

\* Scan returns a line and its goroutine starts; Run looks at its context
\* only here, after a line.
ReadLine(r, m) ==
    /\ server = "reads" /\ stdin = "open"
    /\ lines < MaxLines /\ lines' = lines + 1
    /\ pc[r] = "idle"
    /\ Goes(r, m)
    /\ server' = IF cancelled THEN "drains" ELSE server
    /\ overlapped' = overlapped \cup Overlaps(m)
    /\ UNCHANGED <<stdin, quit, cancelled, arg, hostVars, joinVars, presenceVars>>

\* quit replies at once and calls Server.Quit 50 ms later.
QuitMethod(r) ==
    /\ pc[r] = "quit"
    /\ quit' = TRUE
    /\ Reply(r)
    /\ UNCHANGED <<server, stdin, lines, cancelled, hostVars, joinVars, presenceVars, overlapped>>

\* A signal: the goroutine of runIpcStdio calls Server.Quit.  It matters only
\* while Run still reads.
Signal ==
    /\ server = "reads" /\ stdin = "open" /\ ~quit
    /\ quit' = TRUE
    /\ UNCHANGED <<server, stdin, lines, cancelled, pc, arg, hostVars, joinVars, presenceVars, overlapped>>

\* Run's watcher goroutine cancels the context.
Cancel ==
    /\ server = "reads" /\ stdin = "open"
    /\ quit /\ ~cancelled
    /\ cancelled' = TRUE
    /\ UNCHANGED <<server, stdin, lines, quit, pc, arg, hostVars, joinVars, presenceVars, overlapped>>

\* The program at the other end closes our stdin.
Eof ==
    /\ stdin = "open"
    /\ stdin' = "eof"
    /\ UNCHANGED <<server, lines, quit, cancelled, pc, arg, hostVars, joinVars, presenceVars, overlapped>>

ScanEnds ==
    /\ server = "reads" /\ stdin = "eof"
    /\ server' = "drains"
    /\ UNCHANGED <<stdin, lines, quit, cancelled, pc, arg, hostVars, joinVars, presenceVars, overlapped>>

\* wg.Wait returns and Run with it: the process ends.
Exit ==
    /\ server = "drains"
    /\ Under(Pcs \ {"idle"}) = {}
    /\ server' = "exited"
    /\ UNCHANGED <<stdin, lines, quit, cancelled, pc, arg, hostVars, joinVars, presenceVars, overlapped>>

(***************************************************************************)
(* host.start.                                                             *)
(***************************************************************************)

\* Not authenticated, bad parameters or already running: an error.
HostStart(r) ==
    /\ pc[r] = "host.start"
    /\ \/ Reply(r)
       \/ host = None /\ Goes(r, "load") /\ arg' = arg
    /\ UNCHANGED <<serverVars, hostVars, joinVars, presenceVars, overlapped>>

\* The bypass key cannot be loaded.
HostKeyFails(r) ==
    /\ pc[r] = "load"
    /\ Reply(r)
    /\ UNCHANGED <<serverVars, hostVars, joinVars, presenceVars, overlapped>>

\* The second critical section stores the new host without looking again.
HostCommit(r, h) ==
    /\ pc[r] = "load" /\ Unused(h)
    /\ host' = h
    /\ hostSig' = [hostSig EXCEPT ![h] = "new"]
    /\ running' = [running EXCEPT ![h] = FALSE]
    /\ stopCh' = [stopCh EXCEPT ![h] = FALSE]
    /\ loop' = [loop EXCEPT ![h] = "none"]
    /\ Holds(r, "connect", h)
    /\ UNCHANGED <<serverVars, stuck, joinVars, presenceVars, overlapped>>

\* sig.Connect: nothing on a closed client.
HostConnect(r) ==
    /\ pc[r] = "connect"
    /\ hostSig' = [hostSig EXCEPT ![arg[r]] = IF @ = "closed" THEN @ ELSE "up"]
    /\ Goes(r, "broadcast")
    /\ UNCHANGED <<serverVars, arg, host, running, stopCh, loop, stuck, joinVars, presenceVars, overlapped>>

\* bc.Start: a Broadcaster that is not running starts its loop, which ticks.
BcStart(r) ==
    /\ pc[r] = "broadcast"
    /\ IF running[arg[r]]
       THEN UNCHANGED <<running, stopCh, loop>>
       ELSE /\ running' = [running EXCEPT ![arg[r]] = TRUE]
            /\ stopCh' = [stopCh EXCEPT ![arg[r]] = FALSE]
            /\ loop' = [loop EXCEPT ![arg[r]] = "tick"]
    /\ Goes(r, "hosting")
    /\ UNCHANGED <<serverVars, arg, host, hostSig, stuck, joinVars, presenceVars, overlapped>>

HostStarted(r) ==
    /\ pc[r] = "hosting"
    /\ status' = "HOSTING"
    /\ Reply(r)
    /\ UNCHANGED <<serverVars, hostVars, joinVars, posted, unposted, overlapped>>

(***************************************************************************)
(* host.stop.                                                              *)
(***************************************************************************)

HostStop(r) ==
    /\ pc[r] = "host.stop"
    /\ host' = None
    /\ IF host = None THEN Reply(r) ELSE Holds(r, "bcClose", host)
    /\ UNCHANGED <<serverVars, hostSig, running, stopCh, loop, stuck, joinVars, presenceVars, overlapped>>

\* Mutant of BcClose: the loop is not told to stop.
BcCloseKeepsStop(r) ==
    /\ pc[r] = "bcClose"
    /\ running' = [running EXCEPT ![arg[r]] = FALSE]
    /\ Goes(r, IF running[arg[r]] THEN "bcWait" ELSE "pmClose")
    /\ UNCHANGED <<serverVars, arg, host, hostSig, stopCh, loop, stuck, joinVars, presenceVars, overlapped>>

\* Broadcaster.Close: nothing unless running; else it stops the loop ...
BcClose(r) ==
    /\ pc[r] = "bcClose"
    /\ IF running[arg[r]]
       THEN /\ running' = [running EXCEPT ![arg[r]] = FALSE]
            /\ stopCh' = [stopCh EXCEPT ![arg[r]] = TRUE]
            /\ Goes(r, "bcWait")
       ELSE Goes(r, "pmClose") /\ UNCHANGED <<running, stopCh>>
    /\ UNCHANGED <<serverVars, arg, host, hostSig, loop, stuck, joinVars, presenceVars, overlapped>>

\* Mutant of BcWait: Close does not wait for the loop.
BcWaitNot(r) ==
    /\ pc[r] = "bcWait"
    /\ Goes(r, "pmClose")
    /\ UNCHANGED <<serverVars, arg, hostVars, joinVars, presenceVars, overlapped>>

\* ... and waits until it has ended.
BcWait(r) ==
    /\ pc[r] = "bcWait"
    /\ loop[arg[r]] = "done"
    /\ Goes(r, "pmClose")
    /\ UNCHANGED <<serverVars, arg, hostVars, joinVars, presenceVars, overlapped>>

\* A repeated session id makes handleOffer close the previous session with
\* HostManager.mu held, and the close comes back for it in removeSession
\* (HostManager, run host_repeat): OFFERs arrive while the client is up.
ManagerSticks(h) ==
    /\ server # "exited"
    /\ hostSig[h] = "up" /\ h \notin stuck
    /\ stuck' = stuck \cup {h}
    /\ UNCHANGED <<serverVars, pc, arg, host, hostSig, running, stopCh, loop, joinVars, presenceVars,
                   overlapped>>

\* pm.Close, which waits for HostManager.mu, and sig.Close.
PmClose(r) ==
    /\ pc[r] = "pmClose"
    /\ arg[r] \notin stuck
    /\ hostSig' = [hostSig EXCEPT ![arg[r]] = "closed"]
    /\ Holds(r, "stopped", None)
    /\ UNCHANGED <<serverVars, host, running, stopCh, loop, stuck, joinVars, presenceVars, overlapped>>

HostStopped(r) ==
    /\ pc[r] = "stopped"
    /\ status' = "ONLINE"
    /\ Goes(r, "post")
    /\ UNCHANGED <<serverVars, arg, hostVars, joinVars, posted, unposted, overlapped>>

\* PostPresence(ONLINE), whose error is ignored.
PostOnline(r) ==
    /\ pc[r] = "post"
    /\ \/ posted' = "ONLINE" /\ unposted' = FALSE
       \/ posted' = posted /\ unposted' = TRUE
    /\ Reply(r)
    /\ UNCHANGED <<serverVars, hostVars, joinVars, status, overlapped>>

(***************************************************************************)
(* Broadcaster.loop: a first tick, then one per interval until stop.  When *)
(* stop and the ticker are both ready, select takes either.                *)
(***************************************************************************)

\* The POST of a tick ends: skipped in a cooldown, failed, or done.
LoopTick(h) ==
    /\ server # "exited"
    /\ loop[h] = "tick"
    /\ posted' \in {posted, "HOSTING"}
    /\ loop' = [loop EXCEPT ![h] = "wait"]
    /\ UNCHANGED <<serverVars, pc, arg, host, hostSig, running, stopCh, stuck, joinVars, status, unposted, overlapped>>

LoopWakes(h) ==
    /\ server # "exited"
    /\ loop[h] = "wait"
    /\ loop' = [loop EXCEPT ![h] = "tick"]
    /\ UNCHANGED <<serverVars, pc, arg, host, hostSig, running, stopCh, stuck, joinVars, presenceVars, overlapped>>

LoopEnds(h) ==
    /\ server # "exited"
    /\ loop[h] = "wait" /\ stopCh[h]
    /\ loop' = [loop EXCEPT ![h] = "done"]
    /\ UNCHANGED <<serverVars, pc, arg, host, hostSig, running, stopCh, stuck, joinVars, presenceVars, overlapped>>

(***************************************************************************)
(* join.start and join.stop.                                               *)
(***************************************************************************)

\* Takes the previous join out of hostState, or fails before.
JoinStart(r) ==
    /\ pc[r] = "join.start"
    /\ \/ Reply(r) /\ join' = join
       \/ Holds(r, "took", join) /\ join' = None
    /\ UNCHANGED <<serverVars, hostVars, joinSig, listening, presenceVars, overlapped>>

\* It is a join with the same peer and address: put back.
JoinPutBack(r) ==
    /\ pc[r] = "took" /\ arg[r] # None
    /\ join' = arg[r]
    /\ Reply(r)
    /\ UNCHANGED <<serverVars, hostVars, joinSig, listening, presenceVars, overlapped>>

\* JoinManager.Close and Client.Close of join j, if there is one.
CloseJoin(j) ==
    /\ joinSig' = [x \in Joins |-> IF x = j THEN "closed" ELSE joinSig[x]]
    /\ listening' = [x \in Joins |-> x # j /\ listening[x]]

\* Mutant of JoinReplace: the previous join is forgotten, not closed.
JoinReplaceKeeps(r) ==
    /\ pc[r] = "took"
    /\ Holds(r, "resolve", None)
    /\ UNCHANGED <<serverVars, hostVars, joinVars, presenceVars, overlapped>>

JoinReplace(r) ==
    /\ pc[r] = "took"
    /\ CloseJoin(arg[r])
    /\ Holds(r, "resolve", None)
    /\ UNCHANGED <<serverVars, hostVars, join, presenceVars, overlapped>>

\* resolveJoinPeer: ResolvePeer posts ONLINE on the way, whoever is hosting.
JoinResolve(r) ==
    /\ pc[r] = "resolve"
    /\ posted' \in {posted, "ONLINE"}
    /\ \/ Reply(r)
       \/ Goes(r, "listen") /\ arg' = arg
    /\ UNCHANGED <<serverVars, hostVars, joinVars, status, unposted, overlapped>>

\* Neither the wanted address nor a random port can be listened on.
JoinListenFails(r) ==
    /\ pc[r] = "listen"
    /\ Reply(r)
    /\ UNCHANGED <<serverVars, hostVars, joinVars, presenceVars, overlapped>>

\* Listen and sig.Connect.
JoinListen(r, j) ==
    /\ pc[r] = "listen" /\ UnusedJoin(j)
    /\ listening' = [listening EXCEPT ![j] = TRUE]
    /\ joinSig' = [joinSig EXCEPT ![j] = "up"]
    /\ Holds(r, "commit", j)
    /\ UNCHANGED <<serverVars, hostVars, join, presenceVars, overlapped>>

JoinCommit(r) ==
    /\ pc[r] = "commit"
    /\ join' = arg[r]
    /\ Reply(r)
    /\ UNCHANGED <<serverVars, hostVars, joinSig, listening, presenceVars, overlapped>>

JoinStop(r) ==
    /\ pc[r] = "join.stop"
    /\ join' = None
    /\ IF join = None THEN Reply(r) ELSE Holds(r, "jmClose", join)
    /\ UNCHANGED <<serverVars, hostVars, joinSig, listening, presenceVars, overlapped>>

JmClose(r) ==
    /\ pc[r] = "jmClose"
    /\ CloseJoin(arg[r])
    /\ Reply(r)
    /\ UNCHANGED <<serverVars, hostVars, join, presenceVars, overlapped>>

(***************************************************************************)
(* Specification.                                                          *)
(***************************************************************************)

RequestStep(r) ==
    \/ QuitMethod(r)
    \/ HostStart(r) \/ HostKeyFails(r) \/ (\E h \in Hosts : HostCommit(r, h))
    \/ HostConnect(r) \/ BcStart(r) \/ HostStarted(r)
    \/ HostStop(r) \/ BcClose(r) \/ BcWait(r) \/ PmClose(r) \/ HostStopped(r) \/ PostOnline(r)
    \/ JoinStart(r) \/ JoinPutBack(r) \/ JoinReplace(r) \/ JoinResolve(r)
    \/ JoinListenFails(r) \/ (\E j \in Joins : JoinListen(r, j)) \/ JoinCommit(r)
    \/ JoinStop(r) \/ JmClose(r)

Next ==
    \/ \E r \in Requests, m \in Methods : ReadLine(r, m)
    \/ Signal \/ Cancel \/ Eof \/ ScanEnds \/ Exit
    \/ \E r \in Requests : RequestStep(r)
    \/ \E h \in Hosts : ManagerSticks(h) \/ LoopTick(h) \/ LoopWakes(h) \/ LoopEnds(h)

Spec == Init /\ [][Next]_vars

\* Handlers and the server keep running, HTTP calls end; only a host.stop whose
\* manager is stuck has no step to take.  select is not biased
\* for ever, so a loop that is told to stop again and again stops.
Fairness ==
    /\ WF_vars(Cancel) /\ WF_vars(ScanEnds) /\ WF_vars(Exit)
    /\ \A r \in Requests : WF_vars(RequestStep(r))
    /\ \A h \in Hosts : WF_vars(LoopTick(h)) /\ SF_vars(LoopEnds(h))

FairSpec == Spec /\ Fairness

(***************************************************************************)
(* Properties.                                                             *)
(***************************************************************************)

\* As long as requests did not overlap, every host and join that is alive is
\* the recorded one, which the stop handlers will find, or one that a handler
\* is about to record or to close.
NoOrphans ==
    /\ "host" \notin overlapped =>
          \A h \in Hosts : HostLive(h) => host = h \/ InHand(h)
    /\ "join" \notin overlapped =>
          \A j \in Joins : JoinLive(j) => join = j \/ InHand(j)

\* Once host.stop has returned and its POST has arrived, the presence service
\* does not show the player as hosting: Broadcaster.Close waits for the tick
\* that may still have a POST in flight before ONLINE is posted.
StoppedIsNotAdvertised ==
    /\ "host" \notin overlapped /\ ~unposted
    /\ host = None /\ Under(HostStartPcs \cup HostStopPcs) = {}
    => posted # "HOSTING"

\* A host.stop waits in pm.Close for a mutex that nobody gives back.
StopHangs == \E r \in Requests : pc[r] = "pmClose" /\ arg[r] \in stuck

\* When the program at the other end goes away, or a line is read after Quit,
\* every request ends, also one that waits for a Broadcaster, and so does Run.
\* The one exception is a host.stop of a manager that a repeated session id has
\* left stuck: wg.Wait then waits for ever.
ServerDrains == stdin = "eof" \/ server = "drains" ~> server = "exited" \/ StopHangs

===============================================================================
