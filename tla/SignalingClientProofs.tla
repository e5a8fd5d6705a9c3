------------------------- MODULE SignalingClientProofs -------------------------
(***************************************************************************)
(* Proofs about SignalingConn and SignalingClient, for every number of     *)
(* attempts, every cap on the delay and every set of calls.  The           *)
(* connection's invariant ConnInv is inductive: that a single goroutine    *)
(* owns the connection carries the other two properties, and NotStarted    *)
(* gives the first attempt.  On top of it OneDeliverer follows the right   *)
(* to answer a call through pending and the readLoops' hands.              *)
(***************************************************************************)
EXTENDS SignalingClient, TLAPS

\* The two kinds of owners, without the tags of Owners.
Trying(k) == attempt[k] \notin {"none", "tail", "done"}
Busy(k) == reader[k] \notin {"none", "done"}

\* SingleOwner and NotStarted, attempt by attempt.
AtMostOne ==
    \A j, k \in Attempts :
        /\ Trying(j) /\ Trying(k) => j = k
        /\ Busy(j) /\ Busy(k) => j = k
        /\ ~(Trying(j) /\ Busy(k))
Idle == ~started => \A k \in Attempts : ~Trying(k) /\ ~Busy(k)

\* ConnInv in the form the steps below use.
PlainInv == ConnTypeOK /\ Idle /\ AtMostOne /\ WsIsOwned /\ ReadyMeansConnected

\* The tagged set Owners says the same as the two predicates.
LEMMA PlainConnInv == PlainInv <=> ConnInv
<1>1. \A k \in Attempts : /\ Trying(k) <=> <<"attempt", k>> \in Owners
                          /\ Busy(k) <=> <<"reader", k>> \in Owners
  BY DEF Trying, Busy, Owners
<1>2. \A a \in Owners : \E k \in Attempts : \/ a = <<"attempt", k>> /\ Trying(k)
                                            \/ a = <<"reader", k>> /\ Busy(k)
  BY DEF Trying, Busy, Owners
<1>3. \A j, k : <<"attempt", j>> # <<"reader", k>>
  OBVIOUS
<1>4. \A j, k : /\ <<"attempt", j>> = <<"attempt", k>> => j = k
                /\ <<"reader", j>> = <<"reader", k>> => j = k
  OBVIOUS
<1>5. AtMostOne => SingleOwner
  <2> SUFFICES ASSUME AtMostOne, NEW a \in Owners, NEW b \in Owners PROVE a = b
    BY DEF SingleOwner
  <2>1. PICK j \in Attempts : \/ a = <<"attempt", j>> /\ Trying(j)
                              \/ a = <<"reader", j>> /\ Busy(j)
    BY <1>2
  <2>2. PICK k \in Attempts : \/ b = <<"attempt", k>> /\ Trying(k)
                              \/ b = <<"reader", k>> /\ Busy(k)
    BY <1>2
  <2> QED
    BY <2>1, <2>2 DEF AtMostOne
<1>6. SingleOwner => AtMostOne
  <2> SUFFICES ASSUME SingleOwner, NEW j \in Attempts, NEW k \in Attempts
               PROVE /\ Trying(j) /\ Trying(k) => j = k
                     /\ Busy(j) /\ Busy(k) => j = k
                     /\ ~(Trying(j) /\ Busy(k))
    BY DEF AtMostOne
  <2>1. Trying(j) /\ Trying(k) => <<"attempt", j>> = <<"attempt", k>>
    BY <1>1 DEF SingleOwner
  <2>2. Busy(j) /\ Busy(k) => <<"reader", j>> = <<"reader", k>>
    BY <1>1 DEF SingleOwner
  <2>3. Trying(j) /\ Busy(k) => <<"attempt", j>> = <<"reader", k>>
    BY <1>1 DEF SingleOwner
  <2> QED
    BY <2>1, <2>2, <2>3, <1>3, <1>4
<1>7. Idle <=> NotStarted
  BY <1>1, <1>2 DEF Idle, NotStarted
<1> QED
  BY <1>5, <1>6, <1>7 DEF PlainInv, ConnInv

\* Nothing runs at first.
LEMMA InitPlain == ConnInit => PlainInv
<1> SUFFICES ASSUME ConnInit PROVE PlainInv
  OBVIOUS
<1>1. ConnTypeOK
  <2>1. 1 \in 1 .. MaxBackoff /\ 0 \in 0 .. MaxAttempts
    BY ConnAssumption
  <2> QED
    BY <2>1 DEF ConnInit, ConnTypeOK, AttemptStates, ReaderStates
<1>2. Idle /\ AtMostOne
  BY DEF ConnInit, Idle, AtMostOne, Trying, Busy
<1>3. WsIsOwned /\ ReadyMeansConnected
  BY DEF ConnInit, WsIsOwned, ReadyMeansConnected
<1> QED
  BY <1>1, <1>2, <1>3 DEF PlainInv

\* Every step of the connection keeps its invariant: one case per operation.
LEMMA NextPlain == PlainInv /\ [ConnNext]_connVars => PlainInv'
<1> SUFFICES ASSUME PlainInv, [ConnNext]_connVars PROVE PlainInv'
  OBVIOUS
<1> USE ConnAssumption DEF PlainInv
<1>1. CASE Connect
  <2>1. ConnTypeOK'
    BY <1>1 DEF ConnTypeOK, AttemptStates, ReaderStates, Attempts, Moves, Connect
  <2>2. Idle' /\ AtMostOne'
    BY <1>1 DEF Idle, AtMostOne, Trying, Busy, ConnTypeOK, Moves, Connect
  <2>3. WsIsOwned' /\ ReadyMeansConnected'
    BY <1>1 DEF WsIsOwned, ReadyMeansConnected, AtMostOne, Trying, Busy, ConnTypeOK,
        Attempts, Moves, Connect
  <2> QED
    BY <2>1, <2>2, <2>3
<1>2. CASE CloseMarks
  <2>1. ConnTypeOK'
    BY <1>2 DEF ConnTypeOK, AttemptStates, ReaderStates, Attempts, Moves, CloseMarks
  <2>2. Idle' /\ AtMostOne'
    BY <1>2 DEF Idle, AtMostOne, Trying, Busy, ConnTypeOK, Moves, CloseMarks
  <2>3. WsIsOwned' /\ ReadyMeansConnected'
    BY <1>2 DEF WsIsOwned, ReadyMeansConnected, AtMostOne, Trying, Busy, ConnTypeOK,
        Attempts, Moves, CloseMarks
  <2> QED
    BY <2>1, <2>2, <2>3
<1>3. CASE CloseCancels
  <2>1. ConnTypeOK'
    BY <1>3 DEF ConnTypeOK, AttemptStates, ReaderStates, Attempts, Moves, CloseCancels
  <2>2. Idle' /\ AtMostOne'
    BY <1>3 DEF Idle, AtMostOne, Trying, Busy, ConnTypeOK, Moves, CloseCancels
  <2>3. WsIsOwned' /\ ReadyMeansConnected'
    BY <1>3 DEF WsIsOwned, ReadyMeansConnected, AtMostOne, Trying, Busy, ConnTypeOK,
        Attempts, Moves, CloseCancels
  <2> QED
    BY <2>1, <2>2, <2>3
<1>4. ASSUME NEW k \in Attempts, CheckClosed(k) PROVE PlainInv'
  <2>1. ConnTypeOK'
    BY <1>4 DEF ConnTypeOK, AttemptStates, ReaderStates, Attempts, Moves, CheckClosed
  <2>2. Idle' /\ AtMostOne'
    BY <1>4 DEF Idle, AtMostOne, Trying, Busy, ConnTypeOK, Moves, CheckClosed
  <2>3. WsIsOwned' /\ ReadyMeansConnected'
    BY <1>4 DEF WsIsOwned, ReadyMeansConnected, AtMostOne, Trying, Busy, ConnTypeOK,
        Attempts, Moves, CheckClosed
  <2> QED
    BY <2>1, <2>2, <2>3
<1>5. ASSUME NEW k \in Attempts, DialFails(k) PROVE PlainInv'
  <2>1. ConnTypeOK'
    BY <1>5 DEF ConnTypeOK, AttemptStates, ReaderStates, Attempts, Moves, DialFails
  <2>2. Idle' /\ AtMostOne'
    BY <1>5 DEF Idle, AtMostOne, Trying, Busy, ConnTypeOK, Moves, DialFails
  <2>3. WsIsOwned' /\ ReadyMeansConnected'
    BY <1>5 DEF WsIsOwned, ReadyMeansConnected, AtMostOne, Trying, Busy, ConnTypeOK,
        Attempts, Moves, DialFails
  <2> QED
    BY <2>1, <2>2, <2>3
<1>6. ASSUME NEW k \in Attempts, StoreWs(k) PROVE PlainInv'
  <2>1. ConnTypeOK'
    BY <1>6 DEF ConnTypeOK, AttemptStates, ReaderStates, Attempts, Moves, StoreWs
  <2>2. Idle' /\ AtMostOne'
    BY <1>6 DEF Idle, AtMostOne, Trying, Busy, ConnTypeOK, Moves, StoreWs
  <2>3. WsIsOwned' /\ ReadyMeansConnected'
    BY <1>6 DEF WsIsOwned, ReadyMeansConnected, AtMostOne, Trying, Busy, ConnTypeOK,
        Attempts, Moves, StoreWs
  <2> QED
    BY <2>1, <2>2, <2>3
<1>7. ASSUME NEW k \in Attempts, MarkReady(k) PROVE PlainInv'
  <2>1. ConnTypeOK'
    BY <1>7 DEF ConnTypeOK, AttemptStates, ReaderStates, Attempts, Moves, MarkReady
  <2>2. Idle' /\ AtMostOne'
    BY <1>7 DEF Idle, AtMostOne, Trying, Busy, ConnTypeOK, Moves, MarkReady
  <2>3. WsIsOwned' /\ ReadyMeansConnected'
    BY <1>7 DEF WsIsOwned, ReadyMeansConnected, AtMostOne, Trying, Busy, ConnTypeOK,
        Attempts, Moves, MarkReady
  <2> QED
    BY <2>1, <2>2, <2>3
<1>8. ASSUME NEW k \in Attempts, ConnectSucceeded(k) PROVE PlainInv'
  <2>1. ConnTypeOK'
    <3>1. 1 \in 1 .. MaxBackoff
      OBVIOUS
    <3> QED
      BY <1>8, <3>1 DEF ConnTypeOK, AttemptStates, Moves, ConnectSucceeded
  <2>2. Idle' /\ AtMostOne'
    BY <1>8 DEF Idle, AtMostOne, Trying, Busy, ConnTypeOK, Moves, ConnectSucceeded
  <2>3. WsIsOwned' /\ ReadyMeansConnected'
    BY <1>8 DEF WsIsOwned, ReadyMeansConnected, AtMostOne, Trying, Busy, ConnTypeOK,
        Attempts, Moves, ConnectSucceeded
  <2> QED
    BY <2>1, <2>2, <2>3
<1>9. ASSUME NEW k \in Attempts, StopIfClosed(k) PROVE PlainInv'
  <2>1. ConnTypeOK'
    BY <1>9 DEF ConnTypeOK, AttemptStates, ReaderStates, Attempts, Moves, StopIfClosed
  <2>2. Idle' /\ AtMostOne'
    BY <1>9 DEF Idle, AtMostOne, Trying, Busy, ConnTypeOK, Moves, StopIfClosed
  <2>3. WsIsOwned' /\ ReadyMeansConnected'
    BY <1>9 DEF WsIsOwned, ReadyMeansConnected, AtMostOne, Trying, Busy, ConnTypeOK,
        Attempts, Moves, StopIfClosed
  <2> QED
    BY <2>1, <2>2, <2>3
<1>10. ASSUME NEW k \in Attempts, ScheduleReconnect(k) PROVE PlainInv'
  <2>1. ConnTypeOK'
    BY <1>10 DEF ConnTypeOK, AttemptStates, ReaderStates, Attempts, Moves,
        ScheduleReconnect, Doubled, Unused
  <2>2. Idle' /\ AtMostOne'
    BY <1>10 DEF Idle, AtMostOne, Trying, Busy, ConnTypeOK, Moves,
        ScheduleReconnect, Doubled, Unused
  <2>3. WsIsOwned' /\ ReadyMeansConnected'
    BY <1>10 DEF WsIsOwned, ReadyMeansConnected, AtMostOne, Trying, Busy, ConnTypeOK,
        Attempts, Moves,
        ScheduleReconnect, Doubled, Unused
  <2> QED
    BY <2>1, <2>2, <2>3
<1>11. ASSUME NEW k \in Attempts, TimerFires(k) PROVE PlainInv'
  <2>1. ConnTypeOK'
    BY <1>11 DEF ConnTypeOK, AttemptStates, ReaderStates, Attempts, Moves, TimerFires
  <2>2. Idle' /\ AtMostOne'
    BY <1>11 DEF Idle, AtMostOne, Trying, Busy, ConnTypeOK, Moves, TimerFires
  <2>3. WsIsOwned' /\ ReadyMeansConnected'
    BY <1>11 DEF WsIsOwned, ReadyMeansConnected, AtMostOne, Trying, Busy, ConnTypeOK,
        Attempts, Moves, TimerFires
  <2> QED
    BY <2>1, <2>2, <2>3
<1>12. ASSUME NEW k \in Attempts, ReadFails(k) PROVE PlainInv'
  <2>1. ConnTypeOK'
    BY <1>12 DEF ConnTypeOK, AttemptStates, ReaderStates, Attempts, Moves, ReadFails
  <2>2. Idle' /\ AtMostOne'
    BY <1>12 DEF Idle, AtMostOne, Trying, Busy, ConnTypeOK, Moves, ReadFails
  <2>3. WsIsOwned' /\ ReadyMeansConnected'
    BY <1>12 DEF WsIsOwned, ReadyMeansConnected, AtMostOne, Trying, Busy, ConnTypeOK,
        Attempts, Moves, ReadFails
  <2> QED
    BY <2>1, <2>2, <2>3
<1>13. ASSUME NEW k \in Attempts, ResetReady(k) PROVE PlainInv'
  <2>1. ConnTypeOK'
    BY <1>13 DEF ConnTypeOK, AttemptStates, ReaderStates, Attempts, Moves, ResetReady
  <2>2. Idle' /\ AtMostOne'
    BY <1>13 DEF Idle, AtMostOne, Trying, Busy, ConnTypeOK, Moves, ResetReady
  <2>3. WsIsOwned' /\ ReadyMeansConnected'
    BY <1>13 DEF WsIsOwned, ReadyMeansConnected, AtMostOne, Trying, Busy, ConnTypeOK,
        Attempts, Moves, ResetReady
  <2> QED
    BY <2>1, <2>2, <2>3
<1>14. ASSUME NEW k \in Attempts, DialOK(k) PROVE PlainInv'
  <2>1. ConnTypeOK'
    BY <1>14 DEF ConnTypeOK, AttemptStates, ReaderStates, Attempts, Moves, DialOK
  <2>2. Idle' /\ AtMostOne'
    BY <1>14 DEF Idle, AtMostOne, Trying, Busy, ConnTypeOK, Moves, DialOK
  <2>3. WsIsOwned' /\ ReadyMeansConnected'
    BY <1>14 DEF WsIsOwned, ReadyMeansConnected, AtMostOne, Trying, Busy, ConnTypeOK,
        Attempts, Moves, DialOK
  <2> QED
    BY <2>1, <2>2, <2>3
<1>15. ASSUME NEW k \in Attempts, ServerDrops(k) PROVE PlainInv'
  <2>1. ConnTypeOK'
    BY <1>15 DEF ConnTypeOK, AttemptStates, ReaderStates, Attempts, Moves, ServerDrops
  <2>2. Idle' /\ AtMostOne'
    BY <1>15 DEF Idle, AtMostOne, Trying, Busy, ConnTypeOK, Moves, ServerDrops
  <2>3. WsIsOwned' /\ ReadyMeansConnected'
    BY <1>15 DEF WsIsOwned, ReadyMeansConnected, AtMostOne, Trying, Busy, ConnTypeOK,
        Attempts, Moves, ServerDrops
  <2> QED
    BY <2>1, <2>2, <2>3
<1>16. CASE UNCHANGED connVars
  BY <1>16 DEF connVars, ConnTypeOK, Idle, AtMostOne, Trying, Busy, WsIsOwned,
      ReadyMeansConnected
<1> QED
  BY <1>1, <1>2, <1>3, <1>4, <1>5, <1>6, <1>7, <1>8, <1>9, <1>10,
     <1>11, <1>12, <1>13, <1>14, <1>15, <1>16 DEF ConnNext, Connecting, Reading

\* The connection, at every point of every run: one owner, c.ws its WebSocket, and
\* readyCh closed only for a connection somebody still reads.
THEOREM ConnInvariance == ConnSpec => []ConnInv
<1>1. ConnSpec => []PlainInv
  BY InitPlain, NextPlain, PTL DEF ConnSpec
<1> QED
  BY <1>1, PlainConnInv, PTL

\* The calls of jsonrpc.go do not disturb the connection: with them it is still a
\* connection of SignalingConn.
THEOREM ImplementsConn == Spec => ConnSpec
<1>1. Init => ConnInit
  BY DEF Init
<1>2. [Next]_vars => [ConnNext]_connVars
  <2>1. ASSUME ConnStep PROVE [ConnNext]_connVars
    BY <2>1 DEF ConnStep, ConnNext, Reading
  <2>2. ASSUME NEW k \in Attempts, ReaderFails(k) PROVE [ConnNext]_connVars
    BY <2>2 DEF ReaderFails, ConnNext, Reading
  <2>3. ASSUME NEW i \in Calls, Register(i) \/ Calling(i) PROVE UNCHANGED connVars
    BY <2>3 DEF Register, Calling, Send, Receive, Timeout
  <2>4. ASSUME NEW k \in Attempts, NEW i \in Calls, NEW kind \in {"result", "error"},
               AnswerArrives(k, i, kind)
        PROVE UNCHANGED connVars
    BY <2>4 DEF AnswerArrives
  <2>5. ASSUME NEW k \in Attempts, Deliver(k) PROVE UNCHANGED connVars
    BY <2>5 DEF Deliver
  <2>6. CASE UNCHANGED vars
    BY <2>6 DEF vars
  <2> QED
    BY <2>1, <2>2, <2>3, <2>4, <2>5, <2>6 DEF Next
<1> QED
  BY <1>1, <1>2, PTL DEF Spec, ConnSpec

\* The part of the invariant that is about the calls.
RpcTypeOK ==
    /\ pending \in SUBSET Calls
    /\ call \in [Calls -> CallStates]
    /\ chan \in [Calls -> Chan]
    /\ asked \in SUBSET (Attempts \X Calls)
    /\ hand \in [Attempts -> (Calls \X {"result", "error"}) \cup {None}]
    /\ panicked \in BOOLEAN
RpcInv == RpcTypeOK /\ PendingIsLive /\ OneDeliverer /\ ~panicked

\* No call has been made at first.
LEMMA InitRpc == Init => RpcInv
<1> SUFFICES ASSUME Init PROVE RpcInv
  OBVIOUS
<1>1. RpcTypeOK
  BY DEF Init, RpcTypeOK, CallStates, Chan
<1>2. PendingIsLive /\ OneDeliverer /\ ~panicked
  BY DEF Init, PendingIsLive, OneDeliverer, Fresh, Holds
<1> QED
  BY <1>1, <1>2 DEF RpcInv

\* Every step keeps the calls' part: the right to answer call i moves from
\* pending to one readLoop, or is given up, and is used once.
LEMMA NextRpc == ConnTypeOK /\ RpcInv /\ [Next]_vars => RpcInv'
<1> SUFFICES ASSUME ConnTypeOK, RpcInv, [Next]_vars PROVE RpcInv'
  OBVIOUS
<1> USE DEF RpcInv
<1>1. CASE UNCHANGED rpcVars
  BY <1>1 DEF rpcVars, RpcTypeOK, PendingIsLive, OneDeliverer, Fresh, Holds
<1>2. ASSUME NEW k \in Attempts, ReaderFails(k)
      PROVE RpcInv'
  <2>1. RpcTypeOK'
    BY <1>2 DEF RpcTypeOK, CallStates, Chan, ReaderFails
  <2>2. PendingIsLive'
    BY <1>2 DEF PendingIsLive, RpcTypeOK, ReaderFails
  <2>3. OneDeliverer' /\ ~panicked'
    BY <1>2 DEF OneDeliverer, Fresh, Holds, RpcTypeOK, Chan, ReaderFails
  <2> QED
    BY <2>1, <2>2, <2>3
<1>3. ASSUME NEW i \in Calls, Register(i)
      PROVE RpcInv'
  <2>1. RpcTypeOK'
    BY <1>3 DEF RpcTypeOK, CallStates, Chan, Register
  <2>2. PendingIsLive'
    BY <1>3 DEF PendingIsLive, RpcTypeOK, Register
  <2>3. OneDeliverer' /\ ~panicked'
    BY ZenonT(40), <1>3 DEF OneDeliverer, Fresh, Holds, RpcTypeOK, Chan, Register
  <2> QED
    BY <2>1, <2>2, <2>3
<1>4. ASSUME NEW i \in Calls, Send(i)
      PROVE RpcInv'
  <2>1. RpcTypeOK'
    <3>1. pending' \in SUBSET Calls
      BY <1>4 DEF RpcTypeOK, Send
    <3>2. call' \in [Calls -> CallStates]
      BY <1>4 DEF RpcTypeOK, CallStates, Send
    <3>3. ws \in open => <<ws, i>> \in Attempts \X Calls
      BY DEF ConnTypeOK
    <3>4. asked' \in SUBSET (Attempts \X Calls)
      BY <1>4, <3>3 DEF RpcTypeOK, Send
    <3> QED
      BY <1>4, <3>1, <3>2, <3>4 DEF RpcTypeOK, Send
  <2>2. PendingIsLive'
    BY <1>4 DEF PendingIsLive, RpcTypeOK, Send
  <2>3. OneDeliverer' /\ ~panicked'
    BY <1>4 DEF OneDeliverer, Fresh, Holds, RpcTypeOK, Chan, Send
  <2> QED
    BY <2>1, <2>2, <2>3
<1>5. ASSUME NEW i \in Calls, Receive(i)
      PROVE RpcInv'
  <2>1. RpcTypeOK'
    BY <1>5 DEF RpcTypeOK, CallStates, Chan, Receive
  <2>2. PendingIsLive'
    BY <1>5 DEF PendingIsLive, OneDeliverer, Fresh, RpcTypeOK, Receive
  <2>3. OneDeliverer' /\ ~panicked'
    BY <1>5 DEF OneDeliverer, Fresh, Holds, RpcTypeOK, Chan, Receive
  <2> QED
    BY <2>1, <2>2, <2>3
<1>6. ASSUME NEW i \in Calls, Timeout(i)
      PROVE RpcInv'
  <2>1. RpcTypeOK'
    BY <1>6 DEF RpcTypeOK, CallStates, Chan, Timeout
  <2>2. PendingIsLive'
    BY <1>6 DEF PendingIsLive, RpcTypeOK, Timeout
  <2>3. OneDeliverer' /\ ~panicked'
    BY <1>6 DEF OneDeliverer, Fresh, Holds, RpcTypeOK, Chan, Timeout
  <2> QED
    BY <2>1, <2>2, <2>3
<1>7. ASSUME NEW k \in Attempts, NEW i \in Calls, NEW kind \in {"result", "error"},
             AnswerArrives(k, i, kind)
      PROVE RpcInv'
  <2>1. RpcTypeOK'
    BY <1>7 DEF RpcTypeOK, CallStates, Chan, AnswerArrives
  <2>2. PendingIsLive'
    BY <1>7 DEF PendingIsLive, RpcTypeOK, AnswerArrives
  <2>3. OneDeliverer' /\ ~panicked'
    BY <1>7 DEF OneDeliverer, Fresh, Holds, RpcTypeOK, Chan, AnswerArrives
  <2> QED
    BY <2>1, <2>2, <2>3
<1>8. ASSUME NEW k \in Attempts, Deliver(k)
      PROVE RpcInv'
  <2>1. RpcTypeOK'
    BY <1>8 DEF RpcTypeOK, CallStates, Chan, Deliver
  <2>2. PendingIsLive'
    BY <1>8 DEF PendingIsLive, RpcTypeOK, Deliver
  <2>3. PICK i \in Calls : i = hand[k][1]
    BY <1>8 DEF RpcTypeOK, Deliver
  <2>4. /\ Fresh(i) /\ i \notin pending /\ call[i] # "idle"
        /\ \A j \in Attempts : Holds(j, i) => j = k
    BY <1>8, <2>3 DEF OneDeliverer, Holds, Deliver
  <2>5. ~panicked'
    BY <1>8, <2>3, <2>4 DEF Fresh, Deliver
  <2>6. \A c \in Calls \ {i} : chan'[c] = chan[c]
    BY <1>8, <2>3 DEF RpcTypeOK, Deliver
  <2>7. /\ \A j \in Attempts \ {k} : hand'[j] = hand[j]
        /\ hand'[k] = None
    BY <1>8 DEF RpcTypeOK, Deliver
  <2>8. UNCHANGED <<pending, call, asked>>
    BY <1>8 DEF Deliver
  <2>9. OneDeliverer'
    BY <2>4, <2>6, <2>7, <2>8 DEF OneDeliverer, Fresh, Holds
  <2> QED
    BY <2>1, <2>2, <2>5, <2>9
<1> QED
  BY <1>1, <1>2, <1>3, <1>4, <1>5, <1>6, <1>7, <1>8 DEF Next, ConnStep, Calling, vars

\* Spec keeps the inductive invariant of connection and calls.
THEOREM Invariance == Spec => []IInv
<1>1. Spec => []ConnInv
  BY ImplementsConn, ConnInvariance
<1>2. ConnInv => ConnTypeOK
  BY DEF ConnInv
<1>3. Spec => []RpcInv
  BY <1>1, <1>2, InitRpc, NextRpc, PTL DEF Spec
<1>4. ConnInv /\ RpcInv => IInv
  BY DEF ConnInv, RpcInv, RpcTypeOK, IInv, TypeOK
<1> QED
  BY <1>1, <1>3, <1>4, PTL

\* Type correctness: among others the delay stays between initialBackoff and
\* maxBackoff however often the connection is lost.
THEOREM TypeCorrect == Spec => []TypeOK
<1>1. IInv => TypeOK
  BY DEF IInv
<1> QED
  BY <1>1, Invariance, PTL

\* A client never runs two connections, or a connection and a reconnect.
THEOREM OneOwner == Spec => []SingleOwner
<1>1. IInv => SingleOwner
  BY DEF IInv, ConnInv
<1> QED
  BY <1>1, Invariance, PTL

\* c.ws is the WebSocket of the goroutine that owns the connection.
THEOREM WsOwned == Spec => []WsIsOwned
<1>1. IInv => WsIsOwned
  BY DEF IInv, ConnInv
<1> QED
  BY <1>1, Invariance, PTL

\* readyCh is closed only for a connection somebody reads or tears down.
THEOREM ReadyConnected == Spec => []ReadyMeansConnected
<1>1. IInv => ReadyMeansConnected
  BY DEF IInv, ConnInv
<1> QED
  BY <1>1, Invariance, PTL

\* handleMessage neither panics on a closed channel nor blocks on a full one,
\* however often the service repeats an answer.
THEOREM Deliverable == Spec => []AnswersDeliverable
<1>1. IInv => AnswersDeliverable
  <2> SUFFICES ASSUME IInv, NEW k \in Attempts, hand[k] # None
               PROVE ~chan[hand[k][1]].full
    BY DEF IInv, AnswersDeliverable
  <2>1. hand[k][1] \in Calls
    BY DEF IInv, TypeOK
  <2> QED
    BY <2>1 DEF IInv, OneDeliverer, Holds, Fresh
<1> QED
  BY <1>1, Invariance, PTL

\* No path out of sendRequestAwait leaves its entry in Client.pending.
THEOREM PendingLive == Spec => []PendingIsLive
<1>1. IInv => PendingIsLive
  BY DEF IInv
<1> QED
  BY <1>1, Invariance, PTL

================================================================================
