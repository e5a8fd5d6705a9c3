---------------------------- MODULE IpcControlProofs ----------------------------
(***************************************************************************)
(* Proofs about the host.* and join.* handlers for any number of requests, *)
(* hosts and joins: nothing that is alive is forgotten, and a host that    *)
(* was stopped is not advertised, as long as requests do not overlap in    *)
(* the ways the handlers do not guard against.                             *)
(***************************************************************************)
EXTENDS IpcControl, TLAPS

\* What a handler holds while it is between two critical sections.
WithHost == {"connect", "broadcast", "hosting", "bcClose", "bcWait", "pmClose"}
Ending == {"bcClose", "bcWait", "pmClose", "stopped", "post"}
ArgKinds ==
    \A r \in Requests :
        /\ pc[r] \in WithHost => arg[r] \in Hosts
        /\ pc[r] = "took" => arg[r] \in Joins \cup {None}
        /\ pc[r] \in {"commit", "jmClose"} => arg[r] \in Joins
        /\ pc[r] \notin WithHost \cup {"took", "commit", "jmClose"} => arg[r] = None

FnType ==
    /\ pc \in [Requests -> Pcs]
    /\ arg = [r \in Requests |-> arg[r]]
    /\ host \in Hosts \cup {None} /\ join \in Joins \cup {None}
    /\ hostSig = [h \in Hosts |-> hostSig[h]]
    /\ running \in [Hosts -> BOOLEAN]
    /\ stopCh = [h \in Hosts |-> stopCh[h]]
    /\ loop = [h \in Hosts |-> loop[h]]
    /\ joinSig = [j \in Joins |-> joinSig[j]]
    /\ listening \in [Joins -> BOOLEAN]

\* A Broadcaster whose loop runs is marked as running until its Close waits.
Marked(h) == running[h] \/ loop[h] \notin {"tick", "wait"}

\* While host requests have not overlapped: host.start is alone ...
StartAlone ==
    \A r, q \in Requests :
        r # q /\ pc[r] \in HostStartPcs => pc[q] \notin HostStartPcs \cup HostStopPcs

\* ... a host belongs to one handler at most ...
OneHolder == \A r, q \in Requests : r # q /\ arg[r] \in Hosts => arg[q] # arg[r]

\* ... what host.start made is the recorded host, what host.stop took is not,
\* and the loop of its Broadcaster has ended before it is let go ...
HostStages ==
    /\ \A r \in Requests :
          /\ pc[r] = "load" => host = None
          /\ pc[r] \in {"connect", "broadcast", "hosting"} => host = arg[r]
          /\ pc[r] \in {"bcClose", "bcWait", "pmClose"} => host # arg[r]
          /\ pc[r] = "bcClose" => Marked(arg[r])
          /\ pc[r] = "pmClose" => loop[arg[r]] \notin {"tick", "wait"}
    /\ host # None => Marked(host)

\* ... and no living host is forgotten.
HostsHeld == \A h \in Hosts : HostLive(h) => host = h \/ InHand(h)

HostInv == StartAlone /\ OneHolder /\ HostStages /\ HostsHeld

\* While join.starts have not overlapped: there is one at a time, nobody records
\* a join while it works, and no living join is forgotten.
JoinAlone ==
    /\ \A r, q \in Requests : r # q /\ pc[r] \in JoinStartPcs => pc[q] \notin JoinStartPcs
    /\ \A r \in Requests : pc[r] \in JoinStartPcs \ {"join.start"} => join = None

JoinsHeld == \A j \in Joins : JoinLive(j) => join = j \/ InHand(j)

JoinInv == JoinAlone /\ JoinsHeld

\* The service shows the player as hosting only while there is a host or
\* host.stop has still to post ONLINE.
PostInv == ~unposted /\ posted = "HOSTING" => host # None \/ \E r \in Requests : pc[r] \in Ending

\* The inductive invariant.
IInv ==
    /\ FnType /\ ArgKinds
    /\ "host" \notin overlapped => HostInv /\ PostInv
    /\ "join" \notin overlapped => JoinInv

\* The other requests stay where they are.
Only(r) == \A q \in Requests \ {r} : pc'[q] = pc[q] /\ arg'[q] = arg[q]

USE NoneAssumption DEF Pcs, HostStartPcs, HostStopPcs, JoinStartPcs, JoinStopPcs, WithHost, Ending

\* A step of the server, or of a manager, that starts no handler.
LEMMA ServerKeeps ==
    ASSUME IInv,
           UNCHANGED <<pc, arg, host, hostSig, running, stopCh, loop, joinVars, presenceVars,
                       overlapped>>
    PROVE  IInv'
BY DEF IInv, FnType, ArgKinds, HostInv, StartAlone, OneHolder, HostStages, HostsHeld, JoinInv,
       JoinAlone, JoinsHeld, PostInv, Marked, HostLive, JoinLive, InHand, hostVars, joinVars, presenceVars

\* A step of a request that has no join and gets none leaves the joins alone.
LEMMA JoinQuiet ==
    ASSUME FnType, ArgKinds, JoinInv, NEW r \in Requests, Only(r), UNCHANGED joinVars,
           pc'[r] \notin JoinStartPcs, arg[r] \notin Joins
    PROVE  JoinInv'
BY DEF FnType, ArgKinds, JoinInv, JoinAlone, JoinsHeld, JoinLive, InHand, Only, joinVars

\* A step of a request that has no host and gets none leaves the hosts alone.
LEMMA HostQuiet ==
    ASSUME FnType, ArgKinds, HostInv, PostInv, NEW r \in Requests, Only(r), UNCHANGED hostVars,
           unposted' = unposted, posted' \in {posted, "ONLINE"},
           pc[r] \notin HostStartPcs \cup HostStopPcs, pc'[r] \notin HostStartPcs \cup HostStopPcs,
           arg[r] \notin Hosts, arg'[r] \notin Hosts
    PROVE  HostInv' /\ PostInv'
<1>1. StartAlone' /\ OneHolder'
  BY DEF HostInv, StartAlone, OneHolder, Only
<1>2. HostStages'
  BY DEF HostInv, HostStages, Marked, Only, hostVars
<1>3. HostsHeld'
  BY DEF HostInv, HostsHeld, HostLive, InHand, Only, hostVars
<1>4. PostInv'
  BY DEF PostInv, Only, hostVars
<1>5. QED
  BY <1>1, <1>2, <1>3, <1>4 DEF HostInv

\* A living host is not forgotten when request r hands it over.
LEMMA HostsHandedOver ==
    ASSUME HostsHeld, NEW r \in Requests, Only(r),
           \A h \in Hosts : HostLive(h)' =>
               \/ host' = h \/ arg'[r] = h
               \/ HostLive(h) /\ host # h /\ arg[r] # h
    PROVE  HostsHeld'
BY DEF HostsHeld, InHand, Only

\* The same for joins.
LEMMA JoinsHandedOver ==
    ASSUME JoinsHeld, NEW r \in Requests, Only(r),
           \A j \in Joins : JoinLive(j)' =>
               \/ join' = j \/ arg'[r] = j
               \/ JoinLive(j) /\ join # j /\ arg[r] # j
    PROVE  JoinsHeld'
BY DEF JoinsHeld, InHand, Only

\* A request begins.  An overlap that could do harm is recorded.
LEMMA ReadLineKeeps ==
    ASSUME IInv, NEW r \in Requests, NEW m \in Methods, ReadLine(r, m)
    PROVE  IInv'
<1> USE DEF ReadLine, Goes, hostVars, joinVars, presenceVars, Methods
<1>1. FnType' /\ ArgKinds'
  BY DEF IInv, FnType, ArgKinds
<1>2. ASSUME "host" \notin overlapped'
      PROVE  HostInv' /\ PostInv'
  BY SMTT(40), <1>2 DEF IInv, FnType, ArgKinds, HostInv, StartAlone, OneHolder, HostStages, HostsHeld,
              PostInv, Marked, HostLive, InHand, Overlaps, Under
<1>3. ASSUME "join" \notin overlapped'
      PROVE  JoinInv'
  BY <1>3 DEF IInv, FnType, ArgKinds, JoinInv, JoinAlone, JoinsHeld, JoinLive, InHand, Overlaps, Under
<1>4. QED
  BY <1>1, <1>2, <1>3 DEF IInv

\* The handler of host.start.
LEMMA HostStartKeeps ==
    ASSUME IInv, NEW r \in Requests,
           \/ HostStart(r) \/ HostKeyFails(r) \/ (\E h \in Hosts : HostCommit(r, h))
           \/ HostConnect(r) \/ BcStart(r) \/ HostStarted(r)
    PROVE  IInv'
<1> USE DEF Goes, Holds, Reply, serverVars, hostVars, joinVars, presenceVars
<1>0. FnType /\ ArgKinds
  BY DEF IInv
<1> USE <1>0
<1>1. CASE HostStart(r)
  <2> USE <1>1 DEF HostStart
  <2>1. FnType' /\ ArgKinds' /\ Only(r)
    BY DEF FnType, ArgKinds, Only
  <2>2. ASSUME HostInv, PostInv
        PROVE  HostInv' /\ PostInv'
    <3>1. StartAlone' /\ OneHolder'
      BY <2>1, <2>2 DEF FnType, ArgKinds, HostInv, StartAlone, OneHolder, HostStages, InHand, Only
    <3>2. HostStages'
      BY <2>1, <2>2 DEF FnType, ArgKinds, HostInv, StartAlone, OneHolder, HostStages, HostLive, Marked, Only
    <3>3. HostsHeld'
      <4>1. \A g \in Hosts : HostLive(g)' =>
               \/ host' = g \/ arg'[r] = g
               \/ HostLive(g) /\ host # g /\ arg[r] # g
        BY <2>1, <2>2 DEF FnType, ArgKinds, HostInv, HostStages, HostLive
      <4>2. QED
        BY <2>1, <2>2, <4>1, HostsHandedOver DEF HostInv
    <3>4. PostInv'
      BY <2>1, <2>2 DEF FnType, ArgKinds, HostInv, HostStages, PostInv, Only
    <3>5. QED
      BY <3>1, <3>2, <3>3, <3>4 DEF HostInv
  <2>3. ASSUME JoinInv
        PROVE  JoinInv'
    BY <2>1, <2>3, JoinQuiet DEF FnType, ArgKinds
  <2>4. QED
    BY <2>1, <2>2, <2>3 DEF IInv
<1>2. CASE HostKeyFails(r)
  <2> USE <1>2 DEF HostKeyFails
  <2>1. FnType' /\ ArgKinds' /\ Only(r)
    BY DEF FnType, ArgKinds, Only
  <2>2. ASSUME HostInv, PostInv
        PROVE  HostInv' /\ PostInv'
    <3>1. StartAlone' /\ OneHolder'
      BY <2>1, <2>2 DEF FnType, ArgKinds, HostInv, StartAlone, OneHolder, HostStages, InHand, Only
    <3>2. HostStages'
      BY <2>1, <2>2 DEF FnType, ArgKinds, HostInv, StartAlone, OneHolder, HostStages, HostLive, Marked, Only
    <3>3. HostsHeld'
      <4>1. \A g \in Hosts : HostLive(g)' =>
               \/ host' = g \/ arg'[r] = g
               \/ HostLive(g) /\ host # g /\ arg[r] # g
        BY <2>1, <2>2 DEF FnType, ArgKinds, HostInv, HostStages, HostLive
      <4>2. QED
        BY <2>1, <2>2, <4>1, HostsHandedOver DEF HostInv
    <3>4. PostInv'
      BY <2>1, <2>2 DEF FnType, ArgKinds, HostInv, HostStages, PostInv, Only
    <3>5. QED
      BY <3>1, <3>2, <3>3, <3>4 DEF HostInv
  <2>3. ASSUME JoinInv
        PROVE  JoinInv'
    BY <2>1, <2>3, JoinQuiet DEF FnType, ArgKinds
  <2>4. QED
    BY <2>1, <2>2, <2>3 DEF IInv
<1>3. ASSUME NEW h \in Hosts, HostCommit(r, h)
      PROVE  IInv'
  <2> USE <1>3 DEF HostCommit, Unused
  <2>1. FnType' /\ ArgKinds' /\ Only(r)
    BY DEF FnType, ArgKinds, Only
  <2>2. ASSUME HostInv, PostInv
        PROVE  HostInv' /\ PostInv'
    <3>1. StartAlone' /\ OneHolder'
      BY <2>1, <2>2 DEF FnType, ArgKinds, HostInv, StartAlone, OneHolder, HostStages, InHand, Only
    <3>2. HostStages'
      BY <2>1, <2>2 DEF FnType, ArgKinds, HostInv, StartAlone, OneHolder, HostStages, HostLive, Marked, Only
    <3>3. HostsHeld'
      <4>1. \A g \in Hosts : HostLive(g)' =>
               \/ host' = g \/ arg'[r] = g
               \/ HostLive(g) /\ host # g /\ arg[r] # g
        <5>1. host = None /\ arg[r] = None /\ host' = h
          BY <2>2 DEF FnType, ArgKinds, HostInv, HostStages
        <5>2. ASSUME NEW g \in Hosts, g # h, HostLive(g)'
              PROVE  HostLive(g)
          BY <5>2 DEF FnType, HostLive
        <5>3. QED
          BY <5>1, <5>2
      <4>2. QED
        BY <2>1, <2>2, <4>1, HostsHandedOver DEF HostInv
    <3>4. PostInv'
      BY <2>1, <2>2 DEF FnType, ArgKinds, HostInv, HostStages, PostInv, Only
    <3>5. QED
      BY <3>1, <3>2, <3>3, <3>4 DEF HostInv
  <2>3. ASSUME JoinInv
        PROVE  JoinInv'
    BY <2>1, <2>3, JoinQuiet DEF FnType, ArgKinds
  <2>4. QED
    BY <2>1, <2>2, <2>3 DEF IInv
<1>4. CASE HostConnect(r)
  <2> USE <1>4 DEF HostConnect
  <2>1. FnType' /\ ArgKinds' /\ Only(r)
    BY DEF FnType, ArgKinds, Only
  <2>2. ASSUME HostInv, PostInv
        PROVE  HostInv' /\ PostInv'
    <3>1. StartAlone' /\ OneHolder'
      BY <2>1, <2>2 DEF FnType, ArgKinds, HostInv, StartAlone, OneHolder, HostStages, InHand, Only
    <3>2. HostStages'
      BY SMTT(40), <2>1, <2>2 DEF FnType, ArgKinds, HostInv, StartAlone, OneHolder, HostStages, HostLive, Marked, Only
    <3>3. HostsHeld'
      <4>1. \A g \in Hosts : HostLive(g)' =>
               \/ host' = g \/ arg'[r] = g
               \/ HostLive(g) /\ host # g /\ arg[r] # g
        BY <2>1, <2>2 DEF FnType, ArgKinds, HostInv, HostStages, HostLive
      <4>2. QED
        BY <2>1, <2>2, <4>1, HostsHandedOver DEF HostInv
    <3>4. PostInv'
      BY <2>1, <2>2 DEF FnType, ArgKinds, HostInv, HostStages, PostInv, Only
    <3>5. QED
      BY <3>1, <3>2, <3>3, <3>4 DEF HostInv
  <2>3. ASSUME JoinInv
        PROVE  JoinInv'
    BY <2>1, <2>3, JoinQuiet DEF FnType, ArgKinds
  <2>4. QED
    BY <2>1, <2>2, <2>3 DEF IInv
<1>5. CASE BcStart(r)
  <2> USE <1>5 DEF BcStart
  <2>1. FnType' /\ ArgKinds' /\ Only(r)
    <3>1. /\ pc' = [pc EXCEPT ![r] = "hosting"] /\ pc[r] = "broadcast"
          /\ UNCHANGED <<arg, host, join, hostSig, joinSig, listening>>
      OBVIOUS
    <3>2. ArgKinds' /\ Only(r)
      BY <3>1 DEF FnType, ArgKinds, WithHost, Only
    <3>3. pc' \in [Requests -> Pcs]
      BY <3>1 DEF FnType, Pcs
    <3>4. /\ running' \in [Hosts -> BOOLEAN]
          /\ stopCh' = [h \in Hosts |-> stopCh'[h]] /\ loop' = [h \in Hosts |-> loop'[h]]
      <4>1. CASE running[arg[r]]
        <5>1. UNCHANGED <<running, stopCh, loop>>
          BY <4>1
        <5>2. QED
          BY <5>1 DEF FnType
      <4>2. CASE ~running[arg[r]]
        <5>1. /\ running' = [running EXCEPT ![arg[r]] = TRUE]
              /\ stopCh' = [stopCh EXCEPT ![arg[r]] = FALSE]
              /\ loop' = [loop EXCEPT ![arg[r]] = "tick"]
          BY <4>2
        <5>2. QED
          BY <5>1 DEF FnType
      <4>3. QED
        BY <4>1, <4>2
    <3>5. QED
      BY <3>1, <3>2, <3>3, <3>4 DEF FnType
  <2>2. ASSUME HostInv, PostInv
        PROVE  HostInv' /\ PostInv'
    <3>1. StartAlone' /\ OneHolder'
      BY <2>1, <2>2 DEF FnType, ArgKinds, HostInv, StartAlone, OneHolder, HostStages, InHand, Only
    <3>2. HostStages'
      BY SMTT(40), <2>1, <2>2 DEF FnType, ArgKinds, HostInv, StartAlone, OneHolder, HostStages, HostLive, Marked, Only
    <3>3. HostsHeld'
      <4>1. \A g \in Hosts : HostLive(g)' =>
               \/ host' = g \/ arg'[r] = g
               \/ HostLive(g) /\ host # g /\ arg[r] # g
        BY <2>1, <2>2 DEF FnType, ArgKinds, HostInv, HostStages, HostLive
      <4>2. QED
        BY <2>1, <2>2, <4>1, HostsHandedOver DEF HostInv
    <3>4. PostInv'
      BY <2>1, <2>2 DEF FnType, ArgKinds, HostInv, HostStages, PostInv, Only
    <3>5. QED
      BY <3>1, <3>2, <3>3, <3>4 DEF HostInv
  <2>3. ASSUME JoinInv
        PROVE  JoinInv'
    BY <2>1, <2>3, JoinQuiet DEF FnType, ArgKinds
  <2>4. QED
    BY <2>1, <2>2, <2>3 DEF IInv
<1>6. CASE HostStarted(r)
  <2> USE <1>6 DEF HostStarted
  <2>1. FnType' /\ ArgKinds' /\ Only(r)
    BY DEF FnType, ArgKinds, Only
  <2>2. ASSUME HostInv, PostInv
        PROVE  HostInv' /\ PostInv'
    <3>1. StartAlone' /\ OneHolder'
      BY <2>1, <2>2 DEF FnType, ArgKinds, HostInv, StartAlone, OneHolder, HostStages, InHand, Only
    <3>2. HostStages'
      BY <2>1, <2>2 DEF FnType, ArgKinds, HostInv, StartAlone, OneHolder, HostStages, HostLive, Marked, Only
    <3>3. HostsHeld'
      <4>1. \A g \in Hosts : HostLive(g)' =>
               \/ host' = g \/ arg'[r] = g
               \/ HostLive(g) /\ host # g /\ arg[r] # g
        BY <2>1, <2>2 DEF FnType, ArgKinds, HostInv, HostStages, HostLive
      <4>2. QED
        BY <2>1, <2>2, <4>1, HostsHandedOver DEF HostInv
    <3>4. PostInv'
      BY <2>1, <2>2 DEF FnType, ArgKinds, HostInv, HostStages, PostInv, Only
    <3>5. QED
      BY <3>1, <3>2, <3>3, <3>4 DEF HostInv
  <2>3. ASSUME JoinInv
        PROVE  JoinInv'
    BY <2>1, <2>3, JoinQuiet DEF FnType, ArgKinds
  <2>4. QED
    BY <2>1, <2>2, <2>3 DEF IInv
<1>7. QED
  BY <1>1, <1>2, <1>3, <1>4, <1>5, <1>6

\* The handler of host.stop.
LEMMA HostStopKeeps ==
    ASSUME IInv, NEW r \in Requests,
           \/ HostStop(r) \/ BcClose(r) \/ BcWait(r) \/ PmClose(r) \/ HostStopped(r)
           \/ PostOnline(r)
    PROVE  IInv'
<1> USE DEF Goes, Holds, Reply, serverVars, hostVars, joinVars, presenceVars
<1>0. FnType /\ ArgKinds
  BY DEF IInv
<1> USE <1>0
<1>1. CASE HostStop(r)
  <2> USE <1>1 DEF HostStop
  <2>1. FnType' /\ ArgKinds' /\ Only(r)
    BY DEF FnType, ArgKinds, Only
  <2>2. ASSUME HostInv, PostInv
        PROVE  HostInv' /\ PostInv'
    <3>0. \A q \in Requests \ {r} : host # None => arg[q] # host
      BY <2>2 DEF FnType, ArgKinds, HostInv, StartAlone, HostStages
    <3>1. StartAlone' /\ OneHolder'
      BY <2>1, <2>2, <3>0 DEF FnType, ArgKinds, HostInv, StartAlone, OneHolder, Only
    <3>2. HostStages'
      <4>1. \A q \in Requests \ {r} : pc'[q] = pc[q] /\ arg'[q] = arg[q]
        BY <2>1 DEF Only
      <4>2. host' = None /\ (pc'[r] = "idle" \/ (pc'[r] = "bcClose" /\ arg'[r] = host))
        BY DEF FnType
      <4>3. pc'[r] = "bcClose" => arg'[r] # None /\ Marked(arg[r])'
        <5>1. (host # None => Marked(host)) /\ UNCHANGED <<running, loop>>
          BY <2>2 DEF HostInv, HostStages
        <5>2. pc'[r] = "bcClose" => arg'[r] # None
          BY DEF FnType
        <5>3. QED
          BY <4>2, <5>1, <5>2 DEF Marked
      <4>4. host' # None => Marked(host)'
        BY <2>2 DEF HostInv, HostStages, Marked
      <4>5. QED
        BY <2>2, <4>1, <4>2, <4>3, <4>4, SMTT(40)
           DEF FnType, ArgKinds, HostInv, StartAlone, HostStages, Marked
    <3>3. HostsHeld'
      <4>1. \A g \in Hosts : HostLive(g)' =>
               \/ host' = g \/ arg'[r] = g
               \/ HostLive(g) /\ host # g /\ arg[r] # g
        BY <2>1, <2>2 DEF FnType, ArgKinds, HostInv, HostStages, HostLive
      <4>2. QED
        BY <2>1, <2>2, <4>1, HostsHandedOver DEF HostInv
    <3>4. PostInv'
      BY <2>1, <2>2 DEF FnType, ArgKinds, HostInv, HostStages, PostInv, Only
    <3>5. QED
      BY <3>1, <3>2, <3>3, <3>4 DEF HostInv
  <2>3. ASSUME JoinInv
        PROVE  JoinInv'
    BY <2>1, <2>3, JoinQuiet DEF FnType, ArgKinds
  <2>4. QED
    BY <2>1, <2>2, <2>3 DEF IInv
<1>2. CASE BcClose(r)
  <2> USE <1>2 DEF BcClose
  <2>1. FnType' /\ ArgKinds' /\ Only(r)
    <3>1. arg[r] \in Hosts
      BY DEF FnType, ArgKinds
    <3>2. pc' = [pc EXCEPT ![r] = IF running[arg[r]] THEN "bcWait" ELSE "pmClose"]
      OBVIOUS
    <3>3. running' \in [Hosts -> BOOLEAN] /\ stopCh' = [h \in Hosts |-> stopCh'[h]]
      BY <3>1 DEF FnType
    <3>4. QED
      BY <3>1, <3>2, <3>3 DEF FnType, ArgKinds, Only
  <2>2. ASSUME HostInv, PostInv
        PROVE  HostInv' /\ PostInv'
    <3>1. StartAlone' /\ OneHolder'
      BY <2>1, <2>2 DEF FnType, ArgKinds, HostInv, StartAlone, OneHolder, HostStages, InHand, Only
    <3>2. HostStages'
      <4>1. arg[r] \in Hosts /\ Marked(arg[r]) /\ host # arg[r]
        BY <2>2 DEF FnType, ArgKinds, HostInv, HostStages
      <4>2. /\ \A h \in Hosts \ {arg[r]} : running'[h] = running[h]
            /\ UNCHANGED <<arg, host, loop>>
        BY <4>1 DEF FnType
      <4>3. \A q \in Requests \ {r} : arg[q] # arg[r]
        BY <2>2, <4>1 DEF HostInv, OneHolder
      <4>4. pc'[r] = "bcWait" \/ (pc'[r] = "pmClose" /\ loop[arg[r]] \notin {"tick", "wait"})
        BY <4>1 DEF FnType, Marked
      <4> HIDE <1>2 DEF BcClose
      <4>5. \A q \in Requests \ {r} :
               /\ pc'[q] = pc[q]
               /\ pc[q] = "bcClose" => running'[arg[q]] = running[arg[q]]
        BY <2>1, <4>2, <4>3 DEF ArgKinds, Only
      <4>6. host # None => running'[host] = running[host]
        BY <4>1, <4>2 DEF FnType
      <4>7. QED
        BY <2>2, <4>1, <4>2, <4>4, <4>5, <4>6 DEF HostInv, HostStages, Marked
    <3>3. HostsHeld'
      <4>1. \A g \in Hosts : HostLive(g)' =>
               \/ host' = g \/ arg'[r] = g
               \/ HostLive(g) /\ host # g /\ arg[r] # g
        BY <2>1, <2>2 DEF FnType, ArgKinds, HostInv, HostStages, HostLive
      <4>2. QED
        BY <2>1, <2>2, <4>1, HostsHandedOver DEF HostInv
    <3>4. PostInv'
      BY <2>1, <2>2 DEF FnType, ArgKinds, HostInv, HostStages, PostInv, Only
    <3>5. QED
      BY <3>1, <3>2, <3>3, <3>4 DEF HostInv
  <2>3. ASSUME JoinInv
        PROVE  JoinInv'
    BY <2>1, <2>3, JoinQuiet DEF FnType, ArgKinds
  <2>4. QED
    BY <2>1, <2>2, <2>3 DEF IInv
<1>3. CASE BcWait(r)
  <2> USE <1>3 DEF BcWait
  <2>1. FnType' /\ ArgKinds' /\ Only(r)
    BY DEF FnType, ArgKinds, Only
  <2>2. ASSUME HostInv, PostInv
        PROVE  HostInv' /\ PostInv'
    <3>1. StartAlone' /\ OneHolder'
      BY <2>1, <2>2 DEF FnType, ArgKinds, HostInv, StartAlone, OneHolder, HostStages, InHand, Only
    <3>2. HostStages'
      BY SMTT(40), <2>1, <2>2 DEF FnType, ArgKinds, HostInv, StartAlone, OneHolder, HostStages, HostLive, Marked, Only
    <3>3. HostsHeld'
      <4>1. \A g \in Hosts : HostLive(g)' =>
               \/ host' = g \/ arg'[r] = g
               \/ HostLive(g) /\ host # g /\ arg[r] # g
        BY <2>1, <2>2 DEF FnType, ArgKinds, HostInv, HostStages, HostLive
      <4>2. QED
        BY <2>1, <2>2, <4>1, HostsHandedOver DEF HostInv
    <3>4. PostInv'
      BY <2>1, <2>2 DEF FnType, ArgKinds, HostInv, HostStages, PostInv, Only
    <3>5. QED
      BY <3>1, <3>2, <3>3, <3>4 DEF HostInv
  <2>3. ASSUME JoinInv
        PROVE  JoinInv'
    BY <2>1, <2>3, JoinQuiet DEF FnType, ArgKinds
  <2>4. QED
    BY <2>1, <2>2, <2>3 DEF IInv
<1>4. CASE PmClose(r)
  <2> USE <1>4 DEF PmClose
  <2>1. FnType' /\ ArgKinds' /\ Only(r)
    BY DEF FnType, ArgKinds, Only
  <2>2. ASSUME HostInv, PostInv
        PROVE  HostInv' /\ PostInv'
    <3>1. StartAlone' /\ OneHolder'
      BY <2>1, <2>2 DEF FnType, ArgKinds, HostInv, StartAlone, OneHolder, HostStages, InHand, Only
    <3>2. HostStages'
      <4>1. pc'[r] = "stopped" /\ UNCHANGED <<host, running, loop>>
        BY DEF FnType
      <4>2. \A q \in Requests \ {r} : pc'[q] = pc[q] /\ arg'[q] = arg[q]
        BY <2>1 DEF Only
      <4>3. \A h \in Hosts : Marked(h)' = Marked(h)
        BY <4>1 DEF Marked
      <4>4. (host # None => Marked(host))'
        BY <2>2, <4>1 DEF HostInv, HostStages, Marked
      <4>5. QED
        BY <2>2, <4>1, <4>2, <4>3, <4>4 DEF ArgKinds, HostInv, HostStages
    <3>3. HostsHeld'
      <4>1. \A g \in Hosts : HostLive(g)' =>
               \/ host' = g \/ arg'[r] = g
               \/ HostLive(g) /\ host # g /\ arg[r] # g
        BY <2>1, <2>2 DEF FnType, ArgKinds, HostInv, HostStages, HostLive
      <4>2. QED
        BY <2>1, <2>2, <4>1, HostsHandedOver DEF HostInv
    <3>4. PostInv'
      BY <2>1, <2>2 DEF FnType, ArgKinds, HostInv, HostStages, PostInv, Only
    <3>5. QED
      BY <3>1, <3>2, <3>3, <3>4 DEF HostInv
  <2>3. ASSUME JoinInv
        PROVE  JoinInv'
    BY <2>1, <2>3, JoinQuiet DEF FnType, ArgKinds
  <2>4. QED
    BY <2>1, <2>2, <2>3 DEF IInv
<1>5. CASE HostStopped(r)
  <2> USE <1>5 DEF HostStopped
  <2>1. FnType' /\ ArgKinds' /\ Only(r)
    BY DEF FnType, ArgKinds, Only
  <2>2. ASSUME HostInv, PostInv
        PROVE  HostInv' /\ PostInv'
    <3>1. StartAlone' /\ OneHolder'
      BY <2>1, <2>2 DEF FnType, ArgKinds, HostInv, StartAlone, OneHolder, HostStages, InHand, Only
    <3>2. HostStages'
      BY SMTT(40), <2>1, <2>2 DEF FnType, ArgKinds, HostInv, StartAlone, OneHolder, HostStages, HostLive, Marked, Only
    <3>3. HostsHeld'
      <4>1. \A g \in Hosts : HostLive(g)' =>
               \/ host' = g \/ arg'[r] = g
               \/ HostLive(g) /\ host # g /\ arg[r] # g
        BY <2>1, <2>2 DEF FnType, ArgKinds, HostInv, HostStages, HostLive
      <4>2. QED
        BY <2>1, <2>2, <4>1, HostsHandedOver DEF HostInv
    <3>4. PostInv'
      BY <2>1, <2>2 DEF FnType, ArgKinds, HostInv, HostStages, PostInv, Only
    <3>5. QED
      BY <3>1, <3>2, <3>3, <3>4 DEF HostInv
  <2>3. ASSUME JoinInv
        PROVE  JoinInv'
    BY <2>1, <2>3, JoinQuiet DEF FnType, ArgKinds
  <2>4. QED
    BY <2>1, <2>2, <2>3 DEF IInv
<1>6. CASE PostOnline(r)
  <2> USE <1>6 DEF PostOnline
  <2>1. FnType' /\ ArgKinds' /\ Only(r)
    BY DEF FnType, ArgKinds, Only
  <2>2. ASSUME HostInv, PostInv
        PROVE  HostInv' /\ PostInv'
    <3>1. StartAlone' /\ OneHolder'
      BY <2>1, <2>2 DEF FnType, ArgKinds, HostInv, StartAlone, OneHolder, HostStages, InHand, Only
    <3>2. HostStages'
      BY <2>1, <2>2 DEF FnType, ArgKinds, HostInv, StartAlone, OneHolder, HostStages, HostLive, Marked, Only
    <3>3. HostsHeld'
      <4>1. \A g \in Hosts : HostLive(g)' =>
               \/ host' = g \/ arg'[r] = g
               \/ HostLive(g) /\ host # g /\ arg[r] # g
        BY <2>1, <2>2 DEF FnType, ArgKinds, HostInv, HostStages, HostLive
      <4>2. QED
        BY <2>1, <2>2, <4>1, HostsHandedOver DEF HostInv
    <3>4. PostInv'
      BY <2>1, <2>2 DEF FnType, ArgKinds, HostInv, HostStages, PostInv, Only
    <3>5. QED
      BY <3>1, <3>2, <3>3, <3>4 DEF HostInv
  <2>3. ASSUME JoinInv
        PROVE  JoinInv'
    BY <2>1, <2>3, JoinQuiet DEF FnType, ArgKinds
  <2>4. QED
    BY <2>1, <2>2, <2>3 DEF IInv
<1>7. QED
  BY <1>1, <1>2, <1>3, <1>4, <1>5, <1>6

\* quit, join.start and join.stop.
LEMMA JoinKeeps ==
    ASSUME IInv, NEW r \in Requests,
           \/ QuitMethod(r)
           \/ JoinStart(r) \/ JoinPutBack(r) \/ JoinReplace(r) \/ JoinResolve(r)
           \/ JoinListenFails(r) \/ (\E j \in Joins : JoinListen(r, j)) \/ JoinCommit(r)
           \/ JoinStop(r) \/ JmClose(r)
    PROVE  IInv'
<1> USE DEF Goes, Holds, Reply, serverVars, hostVars, joinVars, presenceVars
<1>0. FnType /\ ArgKinds
  BY DEF IInv
<1> USE <1>0
<1>1. CASE QuitMethod(r)
  <2> USE <1>1 DEF QuitMethod
  <2>1. FnType' /\ ArgKinds' /\ Only(r)
    BY DEF FnType, ArgKinds, Only
  <2>2. ASSUME HostInv, PostInv
        PROVE  HostInv' /\ PostInv'
    BY <2>1, <2>2, HostQuiet DEF FnType, ArgKinds
  <2>3. ASSUME JoinInv
        PROVE  JoinInv'
    <3>1. JoinAlone'
      BY <2>1, <2>3 DEF FnType, ArgKinds, JoinInv, JoinAlone, Only
    <3>2. \A i \in Joins : JoinLive(i)' =>
               \/ join' = i \/ arg'[r] = i
               \/ JoinLive(i) /\ join # i /\ arg[r] # i
      BY <2>1, <2>3 DEF FnType, ArgKinds, JoinInv, JoinAlone, JoinLive
    <3>3. QED
      BY <2>1, <2>3, <3>1, <3>2, JoinsHandedOver DEF JoinInv
  <2>4. QED
    BY <2>1, <2>2, <2>3 DEF IInv
<1>2. CASE JoinStart(r)
  <2> USE <1>2 DEF JoinStart
  <2>1. FnType' /\ ArgKinds' /\ Only(r)
    BY DEF FnType, ArgKinds, Only
  <2>2. ASSUME HostInv, PostInv
        PROVE  HostInv' /\ PostInv'
    BY <2>1, <2>2, HostQuiet DEF FnType, ArgKinds
  <2>3. ASSUME JoinInv
        PROVE  JoinInv'
    <3>1. JoinAlone'
      BY <2>1, <2>3 DEF FnType, ArgKinds, JoinInv, JoinAlone, Only
    <3>2. \A i \in Joins : JoinLive(i)' =>
               \/ join' = i \/ arg'[r] = i
               \/ JoinLive(i) /\ join # i /\ arg[r] # i
      BY <2>1, <2>3 DEF FnType, ArgKinds, JoinInv, JoinAlone, JoinLive
    <3>3. QED
      BY <2>1, <2>3, <3>1, <3>2, JoinsHandedOver DEF JoinInv
  <2>4. QED
    BY <2>1, <2>2, <2>3 DEF IInv
<1>3. CASE JoinPutBack(r)
  <2> USE <1>3 DEF JoinPutBack
  <2>1. FnType' /\ ArgKinds' /\ Only(r)
    BY DEF FnType, ArgKinds, Only
  <2>2. ASSUME HostInv, PostInv
        PROVE  HostInv' /\ PostInv'
    BY <2>1, <2>2, HostQuiet DEF FnType, ArgKinds
  <2>3. ASSUME JoinInv
        PROVE  JoinInv'
    <3>1. JoinAlone'
      BY <2>1, <2>3 DEF FnType, ArgKinds, JoinInv, JoinAlone, Only
    <3>2. \A i \in Joins : JoinLive(i)' =>
               \/ join' = i \/ arg'[r] = i
               \/ JoinLive(i) /\ join # i /\ arg[r] # i
      BY <2>1, <2>3 DEF FnType, ArgKinds, JoinInv, JoinAlone, JoinLive
    <3>3. QED
      BY <2>1, <2>3, <3>1, <3>2, JoinsHandedOver DEF JoinInv
  <2>4. QED
    BY <2>1, <2>2, <2>3 DEF IInv
<1>4. CASE JoinReplace(r)
  <2> USE <1>4 DEF JoinReplace, CloseJoin
  <2>1. FnType' /\ ArgKinds' /\ Only(r)
    BY DEF FnType, ArgKinds, Only
  <2>2. ASSUME HostInv, PostInv
        PROVE  HostInv' /\ PostInv'
    BY <2>1, <2>2, HostQuiet DEF FnType, ArgKinds
  <2>3. ASSUME JoinInv
        PROVE  JoinInv'
    <3>1. JoinAlone'
      BY <2>1, <2>3 DEF FnType, ArgKinds, JoinInv, JoinAlone, Only
    <3>2. \A i \in Joins : JoinLive(i)' =>
               \/ join' = i \/ arg'[r] = i
               \/ JoinLive(i) /\ join # i /\ arg[r] # i
      BY <2>1, <2>3 DEF FnType, ArgKinds, JoinInv, JoinAlone, JoinLive
    <3>3. QED
      BY <2>1, <2>3, <3>1, <3>2, JoinsHandedOver DEF JoinInv
  <2>4. QED
    BY <2>1, <2>2, <2>3 DEF IInv
<1>5. CASE JoinResolve(r)
  <2> USE <1>5 DEF JoinResolve
  <2>1. FnType' /\ ArgKinds' /\ Only(r)
    BY DEF FnType, ArgKinds, Only
  <2>2. ASSUME HostInv, PostInv
        PROVE  HostInv' /\ PostInv'
    BY <2>1, <2>2, HostQuiet DEF FnType, ArgKinds
  <2>3. ASSUME JoinInv
        PROVE  JoinInv'
    <3>1. JoinAlone'
      BY <2>1, <2>3 DEF FnType, ArgKinds, JoinInv, JoinAlone, Only
    <3>2. \A i \in Joins : JoinLive(i)' =>
               \/ join' = i \/ arg'[r] = i
               \/ JoinLive(i) /\ join # i /\ arg[r] # i
      BY <2>1, <2>3 DEF FnType, ArgKinds, JoinInv, JoinAlone, JoinLive
    <3>3. QED
      BY <2>1, <2>3, <3>1, <3>2, JoinsHandedOver DEF JoinInv
  <2>4. QED
    BY <2>1, <2>2, <2>3 DEF IInv
<1>6. CASE JoinListenFails(r)
  <2> USE <1>6 DEF JoinListenFails
  <2>1. FnType' /\ ArgKinds' /\ Only(r)
    BY DEF FnType, ArgKinds, Only
  <2>2. ASSUME HostInv, PostInv
        PROVE  HostInv' /\ PostInv'
    BY <2>1, <2>2, HostQuiet DEF FnType, ArgKinds
  <2>3. ASSUME JoinInv
        PROVE  JoinInv'
    <3>1. JoinAlone'
      BY <2>1, <2>3 DEF FnType, ArgKinds, JoinInv, JoinAlone, Only
    <3>2. \A i \in Joins : JoinLive(i)' =>
               \/ join' = i \/ arg'[r] = i
               \/ JoinLive(i) /\ join # i /\ arg[r] # i
      BY <2>1, <2>3 DEF FnType, ArgKinds, JoinInv, JoinAlone, JoinLive
    <3>3. QED
      BY <2>1, <2>3, <3>1, <3>2, JoinsHandedOver DEF JoinInv
  <2>4. QED
    BY <2>1, <2>2, <2>3 DEF IInv
<1>7. ASSUME NEW j \in Joins, JoinListen(r, j)
      PROVE  IInv'
  <2> USE <1>7 DEF JoinListen, UnusedJoin
  <2>1. FnType' /\ ArgKinds' /\ Only(r)
    BY DEF FnType, ArgKinds, Only
  <2>2. ASSUME HostInv, PostInv
        PROVE  HostInv' /\ PostInv'
    BY <2>1, <2>2, HostQuiet DEF FnType, ArgKinds
  <2>3. ASSUME JoinInv
        PROVE  JoinInv'
    <3>1. JoinAlone'
      BY <2>1, <2>3 DEF FnType, ArgKinds, JoinInv, JoinAlone, Only
    <3>2. \A i \in Joins : JoinLive(i)' =>
               \/ join' = i \/ arg'[r] = i
               \/ JoinLive(i) /\ join # i /\ arg[r] # i
      BY <2>1, <2>3 DEF FnType, ArgKinds, JoinInv, JoinAlone, JoinLive
    <3>3. QED
      BY <2>1, <2>3, <3>1, <3>2, JoinsHandedOver DEF JoinInv
  <2>4. QED
    BY <2>1, <2>2, <2>3 DEF IInv
<1>8. CASE JoinCommit(r)
  <2> USE <1>8 DEF JoinCommit
  <2>1. FnType' /\ ArgKinds' /\ Only(r)
    BY DEF FnType, ArgKinds, Only
  <2>2. ASSUME HostInv, PostInv
        PROVE  HostInv' /\ PostInv'
    BY <2>1, <2>2, HostQuiet DEF FnType, ArgKinds
  <2>3. ASSUME JoinInv
        PROVE  JoinInv'
    <3>1. JoinAlone'
      BY <2>1, <2>3 DEF FnType, ArgKinds, JoinInv, JoinAlone, Only
    <3>2. \A i \in Joins : JoinLive(i)' =>
               \/ join' = i \/ arg'[r] = i
               \/ JoinLive(i) /\ join # i /\ arg[r] # i
      BY <2>1, <2>3 DEF FnType, ArgKinds, JoinInv, JoinAlone, JoinLive
    <3>3. QED
      BY <2>1, <2>3, <3>1, <3>2, JoinsHandedOver DEF JoinInv
  <2>4. QED
    BY <2>1, <2>2, <2>3 DEF IInv
<1>9. CASE JoinStop(r)
  <2> USE <1>9 DEF JoinStop
  <2>1. FnType' /\ ArgKinds' /\ Only(r)
    BY DEF FnType, ArgKinds, Only
  <2>2. ASSUME HostInv, PostInv
        PROVE  HostInv' /\ PostInv'
    BY <2>1, <2>2, HostQuiet DEF FnType, ArgKinds
  <2>3. ASSUME JoinInv
        PROVE  JoinInv'
    <3>1. JoinAlone'
      BY <2>1, <2>3 DEF FnType, ArgKinds, JoinInv, JoinAlone, Only
    <3>2. \A i \in Joins : JoinLive(i)' =>
               \/ join' = i \/ arg'[r] = i
               \/ JoinLive(i) /\ join # i /\ arg[r] # i
      BY <2>1, <2>3 DEF FnType, ArgKinds, JoinInv, JoinAlone, JoinLive
    <3>3. QED
      BY <2>1, <2>3, <3>1, <3>2, JoinsHandedOver DEF JoinInv
  <2>4. QED
    BY <2>1, <2>2, <2>3 DEF IInv
<1>10. CASE JmClose(r)
  <2> USE <1>10 DEF JmClose, CloseJoin
  <2>1. FnType' /\ ArgKinds' /\ Only(r)
    BY DEF FnType, ArgKinds, Only
  <2>2. ASSUME HostInv, PostInv
        PROVE  HostInv' /\ PostInv'
    BY <2>1, <2>2, HostQuiet DEF FnType, ArgKinds
  <2>3. ASSUME JoinInv
        PROVE  JoinInv'
    <3>1. JoinAlone'
      BY <2>1, <2>3 DEF FnType, ArgKinds, JoinInv, JoinAlone, Only
    <3>2. \A i \in Joins : JoinLive(i)' =>
               \/ join' = i \/ arg'[r] = i
               \/ JoinLive(i) /\ join # i /\ arg[r] # i
      BY <2>1, <2>3 DEF FnType, ArgKinds, JoinInv, JoinAlone, JoinLive
    <3>3. QED
      BY <2>1, <2>3, <3>1, <3>2, JoinsHandedOver DEF JoinInv
  <2>4. QED
    BY <2>1, <2>2, <2>3 DEF IInv
<1>11. QED
  BY <1>1, <1>2, <1>3, <1>4, <1>5, <1>6, <1>7, <1>8, <1>9, <1>10

\* The loop of a Broadcaster: while it has a POST in flight its host is known.
LEMMA LoopKeeps ==
    ASSUME IInv, NEW h \in Hosts, LoopTick(h) \/ LoopWakes(h) \/ LoopEnds(h)
    PROVE  IInv'
<1> USE DEF LoopTick, LoopWakes, LoopEnds, serverVars, hostVars, joinVars, presenceVars
<1>1. FnType' /\ ArgKinds'
  BY DEF IInv, FnType, ArgKinds
<1>2. ASSUME HostInv, PostInv
      PROVE  HostInv' /\ PostInv'
  <2>1. StartAlone' /\ OneHolder'
    BY <1>2 DEF HostInv, StartAlone, OneHolder
  <2>2. HostStages'
    BY <1>1, <1>2 DEF IInv, FnType, ArgKinds, HostInv, HostStages, Marked
  <2>3. HostsHeld'
    BY <1>1, <1>2 DEF IInv, FnType, HostInv, HostsHeld, HostLive, InHand
  <2>4. PostInv'
    BY SMTT(40), <1>1, <1>2 DEF IInv, FnType, ArgKinds, HostInv, HostStages, HostsHeld, HostLive, InHand, PostInv
  <2>5. QED
    BY <2>1, <2>2, <2>3, <2>4 DEF HostInv
<1>3. ASSUME JoinInv
      PROVE  JoinInv'
  BY <1>3 DEF JoinInv, JoinAlone, JoinsHeld, JoinLive, InHand
<1>4. QED
  BY <1>1, <1>2, <1>3 DEF IInv

\* The invariant is inductive.
LEMMA IInvHolds == Spec => []IInv
<1>1. Init => IInv
  BY DEF Init, IInv, FnType, ArgKinds, HostInv, StartAlone, OneHolder, HostStages, HostsHeld,
         JoinInv, JoinAlone, JoinsHeld, PostInv, Marked, HostLive, JoinLive, InHand
<1>2. IInv /\ [Next]_vars => IInv'
  <2> SUFFICES ASSUME IInv, [Next]_vars
               PROVE  IInv'
    OBVIOUS
  <2>1. ASSUME NEW r \in Requests, NEW m \in Methods, ReadLine(r, m)
        PROVE  IInv'
    BY <2>1, ReadLineKeeps
  <2>2. CASE Signal \/ Cancel \/ Eof \/ ScanEnds \/ Exit
    BY <2>2, ServerKeeps DEF Signal, Cancel, Eof, ScanEnds, Exit, hostVars
  <2>3. ASSUME NEW r \in Requests, RequestStep(r)
        PROVE  IInv'
    BY <2>3, HostStartKeeps, HostStopKeeps, JoinKeeps DEF RequestStep
  <2>4. ASSUME NEW h \in Hosts, LoopTick(h) \/ LoopWakes(h) \/ LoopEnds(h)
        PROVE  IInv'
    BY <2>4, LoopKeeps
  <2>5. CASE UNCHANGED vars \/ \E h \in Hosts : ManagerSticks(h)
    BY <2>5, ServerKeeps DEF vars, hostVars, ManagerSticks
  <2>6. QED
    BY <2>1, <2>2, <2>3, <2>4, <2>5 DEF Next
<1>3. QED
  BY <1>1, <1>2, PTL DEF Spec

\* As long as host.* requests (join.starts) do not overlap, every host (join)
\* that is alive is the recorded one or in the hands of a handler.
THEOREM NothingIsOrphaned == Spec => []NoOrphans
<1>1. IInv => NoOrphans
  BY DEF IInv, HostInv, HostsHeld, JoinInv, JoinsHeld, NoOrphans
<1>2. QED
  BY <1>1, IInvHolds, PTL

\* When host.stop has returned and its POST has arrived, no tick of a
\* Broadcaster can still show the player as hosting.
THEOREM StoppedIsOffline == Spec => []StoppedIsNotAdvertised
<1>1. IInv => StoppedIsNotAdvertised
  BY DEF IInv, PostInv, StoppedIsNotAdvertised, Under
<1>2. QED
  BY <1>1, IInvHolds, PTL

=================================================================================
