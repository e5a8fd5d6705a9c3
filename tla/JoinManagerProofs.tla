---------------------------- MODULE JoinManagerProofs ----------------------------
(***************************************************************************)
(* Proofs about the joining side for any number of connections of the      *)
(* Minecraft client: one join at a time, and nothing of a finished join    *)
(* stays open.                                                             *)
(***************************************************************************)
EXTENDS JoinManager, TLAPS

\* stage, once and pc are functions on the connections.
FnType ==
    /\ stage = [c \in Conns |-> stage[c]]
    /\ once = [c \in Conns |-> once[c]]
    /\ pc = [c \in Conns |-> pc[c]]

\* The recorded join is one that runs; only Close takes it away from others.
CurrentRuns ==
    /\ \A c \in Conns : current = c => Active(c)
    /\ stop \in {"no", "stopped"} => victim = None
    /\ \A c \in Conns : victim = c => stage[c] \notin {"away", "incoming"}

\* A peer connection exists from the end of startInitiator's TURN request on,
\* and only then can it call back.
PeerAfterTurn ==
    \A c \in Conns :
        /\ stage[c] \in {"away", "incoming", "ready", "await", "turn"} => pc[c] = "none"
        /\ pc[c] # "none" <=> c \in rtc
        /\ c \in firing => pc[c] # "none"

\* joinSession.close closes the local connection first, and is not called
\* before the join is current; before there is a peer connection only Close
\* calls it.
CloseOrder ==
    \A c \in Conns :
        /\ once[c] # "idle" => c \notin localOpen
        /\ stage[c] \in {"away", "incoming"} => once[c] = "idle"
        /\ stage[c] \in {"ready", "await", "turn"} /\ once[c] # "idle" => stop # "no"
        /\ stage[c] = "leave" => c \notin localOpen

\* A close that has ended has closed the peer connection, unless it was stored
\* after Close closed the session.
CloseEnds ==
    \A c \in Conns :
        pc[c] \notin {"none", "closed"} /\ (once[c] = "done" \/ stage[c] = "leave") => stop # "no"

\* The inductive invariant.
IInv ==
    /\ FnType /\ CurrentRuns /\ PeerAfterTurn /\ CloseOrder /\ CloseEnds
    /\ OneJoin /\ LocalNotLeaked /\ RtcNotLeaked

\* Every step of handleIncoming keeps it.
LEMMA HandlingKeeps ==
    ASSUME IInv, NEW c \in Conns, Handling(c)
    PROVE  IInv'
<1> USE ConnsAssumption
    DEF IInv, FnType, CurrentRuns, PeerAfterTurn, CloseOrder, CloseEnds, OneJoin,
        LocalNotLeaked, RtcNotLeaked, Active, Goes
<1>1. CASE TakeCurrent(c)
  BY <1>1 DEF TakeCurrent
<1>2. CASE SendJoinRequest(c)
  BY <1>2 DEF SendJoinRequest
<1>3. CASE AwaitHost(c)
  BY <1>3 DEF AwaitHost
<1>4. CASE NewInitiator(c)
  BY <1>4 DEF NewInitiator
<1>5. CASE SendOffer(c)
  BY <1>5 DEF SendOffer
<1>6. CASE WaitOpen(c)
  BY <1>6 DEF WaitOpen
<1>7. CASE Drain(c)
  BY <1>7 DEF Drain
<1>8. CASE ReadEnds(c)
  BY <1>8 DEF ReadEnds
<1>9. CASE Leave(c)
  BY <1>9 DEF Leave
<1>10. QED
  BY <1>1, <1>2, <1>3, <1>4, <1>5, <1>6, <1>7, <1>8, <1>9 DEF Handling

\* So does every step of joinSession.close, whoever called it.
LEMMA ClosingKeeps ==
    ASSUME IInv, NEW c \in Conns, Closing(c)
    PROVE  IInv'
<1> USE ConnsAssumption
    DEF IInv, FnType, CurrentRuns, PeerAfterTurn, CloseOrder, CloseEnds, OneJoin,
        LocalNotLeaked, RtcNotLeaked, Active, Goes
<1>1. CASE CloseLocal(c)
  BY <1>1 DEF CloseLocal
<1>2. CASE CloseRtc(c)
  BY <1>2 DEF CloseRtc
<1>3. CASE CloseReturns(c)
  BY <1>3 DEF CloseReturns
<1>4. CASE FireReturns(c)
  BY <1>4 DEF FireReturns
<1>5. QED
  BY <1>1, <1>2, <1>3, <1>4 DEF Closing

\* So do the host, pion and the Minecraft client.
LEMMA EnvironmentKeeps ==
    ASSUME IInv, NEW c \in Conns,
           \/ Environment(c)
           \/ \E r \in {"JOIN_ACCEPTED", "JOIN_REJECTED"} : OnFriendJoin(r, c)
    PROVE  IInv'
<1> USE ConnsAssumption
    DEF IInv, FnType, CurrentRuns, PeerAfterTurn, CloseOrder, CloseEnds, OneJoin,
        LocalNotLeaked, RtcNotLeaked, Active, Goes
<1>1. CASE Accept(c)
  BY <1>1 DEF Accept
<1>2. CASE ReadData(c)
  BY <1>2 DEF ReadData
<1>3. CASE HostAnswers(c)
  BY <1>3 DEF HostAnswers
<1>4. CASE HandleAnswer(c)
  BY <1>4 DEF HandleAnswer
<1>5. CASE ChannelOpens(c)
  BY <1>5 DEF ChannelOpens
<1>6. CASE PeerGone(c)
  BY <1>6 DEF PeerGone
<1>7. CASE ClientHangsUp(c)
  BY <1>7 DEF ClientHangsUp
<1>8. CASE \E r \in {"JOIN_ACCEPTED", "JOIN_REJECTED"} : OnFriendJoin(r, c)
  BY <1>8 DEF OnFriendJoin
<1>9. QED
  BY <1>1, <1>2, <1>3, <1>4, <1>5, <1>6, <1>7, <1>8 DEF Environment

\* And so does JoinManager.Close.
LEMMA StopKeeps ==
    ASSUME IInv, CloseListener \/ Stopping
    PROVE  IInv'
<1> USE ConnsAssumption
    DEF IInv, FnType, CurrentRuns, PeerAfterTurn, CloseOrder, CloseEnds, OneJoin,
        LocalNotLeaked, RtcNotLeaked, Active
<1>1. CASE CloseListener
  BY <1>1 DEF CloseListener
<1>2. CASE TakeVictim
  BY <1>2 DEF TakeVictim
<1>3. CASE StopReturns
  BY <1>3 DEF StopReturns
<1>4. QED
  BY <1>1, <1>2, <1>3 DEF Stopping

\* The invariant is inductive.
LEMMA IInvHolds == Spec => []IInv
<1>1. Init => IInv
  BY ConnsAssumption
     DEF Init, IInv, FnType, CurrentRuns, PeerAfterTurn, CloseOrder, CloseEnds, OneJoin,
         LocalNotLeaked, RtcNotLeaked, Active
<1>2. IInv /\ [Next]_vars => IInv'
  <2> SUFFICES ASSUME IInv, [Next]_vars
               PROVE  IInv'
    OBVIOUS
  <2>1. CASE Next
    BY <2>1, HandlingKeeps, ClosingKeeps, EnvironmentKeeps, StopKeeps DEF Next
  <2>2. CASE UNCHANGED vars
    BY <2>2 DEF vars, IInv, FnType, CurrentRuns, PeerAfterTurn, CloseOrder, CloseEnds, OneJoin,
                LocalNotLeaked, RtcNotLeaked, Active
  <2>3. QED
    BY <2>1, <2>2
<1>3. QED
  BY <1>1, <1>2, PTL DEF Spec

\* handleIncoming: however many clients connect, until Close is called the join
\* in progress is the one in JoinManager.current.
THEOREM OneJoinAtATime == Spec => []OneJoin
<1>1. IInv => OneJoin
  BY DEF IInv
<1>2. QED
  BY <1>1, IInvHolds, PTL

\* Every way out of handleIncoming closes the Minecraft client's connection.
THEOREM LocalIsClosed == Spec => []LocalNotLeaked
<1>1. IInv => LocalNotLeaked
  BY DEF IInv
<1>2. QED
  BY <1>1, IInvHolds, PTL

\* Every way out of handleIncoming leaves the peer connection closed, unless
\* JoinManager.Close closed the session before there was one.
THEOREM RtcIsClosed == Spec => []RtcNotLeaked
<1>1. IInv => RtcNotLeaked
  BY DEF IInv
<1>2. QED
  BY <1>1, IInvHolds, PTL

\* JoinManager.current is cleared only by the join's own goroutine or by Close.
THEOREM CurrentIsKept == Spec => CurrentStays
<1>1. IInv /\ [Next]_vars =>
          [\A c \in Conns : current = c /\ current' # c => stage'[c] = "done" \/ stop' # stop]_vars
  <2> SUFFICES ASSUME IInv, Next, NEW c \in Conns, current = c, current' # c
               PROVE  stage'[c] = "done" \/ stop' # stop
    OBVIOUS
  <2>1. CASE \E d \in Conns : Handling(d)
    <3>1. PICK d \in Conns : Handling(d)
      BY <2>1
    <3>2. Leave(d) \/ TakeCurrent(d)
      BY <3>1 DEF Handling, SendJoinRequest, AwaitHost, NewInitiator, SendOffer, WaitOpen,
                  Drain, ReadEnds
    <3>3. QED
      BY <3>2, ConnsAssumption DEF Leave, TakeCurrent, Goes, IInv, FnType
  <2>2. CASE \E d \in Conns : Closing(d)
    BY <2>2 DEF Closing, CloseLocal, CloseRtc, CloseReturns, FireReturns
  <2>3. CASE \E d \in Conns : Environment(d)
    BY <2>3 DEF Environment, Accept, ReadData, HostAnswers, HandleAnswer, ChannelOpens,
                PeerGone, ClientHangsUp
  <2>4. CASE \E r \in {"JOIN_ACCEPTED", "JOIN_REJECTED"}, d \in Conns : OnFriendJoin(r, d)
    BY <2>4 DEF OnFriendJoin
  <2>5. CASE CloseListener \/ Stopping
    BY <2>5 DEF CloseListener, Stopping, TakeVictim, StopReturns
  <2>6. QED
    BY <2>1, <2>2, <2>3, <2>4, <2>5 DEF Next
<1>2. QED
  BY <1>1, IInvHolds, PTL DEF Spec, CurrentStays

=================================================================================
