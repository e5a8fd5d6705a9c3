---------------------------- MODULE SignalingClient ----------------------------
(***************************************************************************)
(* SignalingConn together with the JSON-RPC calls that run over it:        *)
(* jsonrpc.go (sendRequestAwait, sendJSON) and dispatch.go (handleMessage).*)
(* Calls wait with a timeout for an answer the reader delivers; an answer  *)
(* may come late, twice, or never, and the connection may change meanwhile.*)
(***************************************************************************)
EXTENDS SignalingConn

CONSTANTS
    Calls,     \* calls of sendRequestAwait (RequestTurnAuth)
    None       \* no call

ASSUME CallsAssumption == None \notin Calls

VARIABLES
    pending,   \* Client.pending
    call,      \* where each caller is
    chan,      \* the call's channel, of capacity 1: [full, closed]
    asked,     \* requests the service has: <<connection, call>>
    hand,      \* hand[k]: the answer readLoop k is delivering
    panicked   \* a send on, or a close of, a closed channel

rpcVars == <<pending, call, chan, asked, hand, panicked>>
vars == <<connVars, rpcVars>>

CallStates == {"idle", "registered", "waiting", "answered", "rpcError", "timeout", "sendError"}
Chan == [full : BOOLEAN, closed : BOOLEAN]

TypeOK ==
    /\ ConnTypeOK
    /\ pending \in SUBSET Calls
    /\ call \in [Calls -> CallStates]
    /\ chan \in [Calls -> Chan]
    /\ asked \in SUBSET (Attempts \X Calls)
    /\ hand \in [Attempts -> (Calls \X {"result", "error"}) \cup {None}]
    /\ panicked \in BOOLEAN

Init ==
    /\ ConnInit
    /\ pending = {}
    /\ call = [i \in Calls |-> "idle"]
    /\ chan = [i \in Calls |-> [full |-> FALSE, closed |-> FALSE]]
    /\ asked = {}
    /\ hand = [k \in Attempts |-> None]
    /\ panicked = FALSE

\* sendRequestAwait: the channel is registered before the request is sent.
Register(i) ==
    /\ call[i] = "idle"
    /\ call' = [call EXCEPT ![i] = "registered"]
    /\ pending' = pending \cup {i}
    /\ UNCHANGED <<connVars, chan, asked, hand, panicked>>

\* Mutant: a failed send returns without deleting the entry.
SendKeepsPending(i) ==
    /\ call[i] = "registered"
    /\ call' = [call EXCEPT ![i] = "sendError"]
    /\ UNCHANGED <<connVars, pending, chan, asked, hand, panicked>>

\* sendJSON: no connection or a failed write deletes the entry and returns.
Send(i) ==
    /\ call[i] = "registered"
    /\ \/ /\ ws \in open
          /\ call' = [call EXCEPT ![i] = "waiting"]
          /\ asked' = asked \cup {<<ws, i>>}
          /\ UNCHANGED pending
       \/ /\ call' = [call EXCEPT ![i] = "sendError"]
          /\ pending' = pending \ {i}
          /\ UNCHANGED asked
    /\ UNCHANGED <<connVars, chan, hand, panicked>>

\* Mutant: the entry stays, so that a second answer finds it too.
AnswerKeepsPending(k, i, kind) ==
    /\ reader[k] = "reading" /\ k \in open /\ hand[k] = None
    /\ <<k, i>> \in asked
    /\ hand' = [hand EXCEPT ![k] = IF i \in pending THEN <<i, kind>> ELSE None]
    /\ UNCHANGED <<connVars, pending, call, chan, asked, panicked>>

\* handleMessage, the section under pendingMu.  The service may answer a
\* request more than once; an answer without an entry is ignored.
AnswerArrives(k, i, kind) ==
    /\ reader[k] = "reading" /\ k \in open /\ hand[k] = None
    /\ <<k, i>> \in asked
    /\ pending' = pending \ {i}
    /\ hand' = [hand EXCEPT ![k] = IF i \in pending THEN <<i, kind>> ELSE None]
    /\ UNCHANGED <<connVars, call, chan, asked, panicked>>

\* ch <- msg.Result and close(ch), or only close(ch).  A full channel would
\* block the reader, a closed one would panic.
Deliver(k) ==
    /\ hand[k] # None
    /\ LET i == hand[k][1]
           full == hand[k][2] = "result"
       IN
       /\ full => ~chan[i].full
       /\ panicked' = (panicked \/ chan[i].closed)
       /\ chan' = [chan EXCEPT ![i] = [full |-> full, closed |-> TRUE]]
    /\ hand' = [hand EXCEPT ![k] = None]
    /\ UNCHANGED <<connVars, pending, call, asked>>

\* The select of sendRequestAwait: the channel has a value or is closed ...
Receive(i) ==
    /\ call[i] = "waiting" /\ chan[i].closed
    /\ call' = [call EXCEPT ![i] = IF chan[i].full THEN "answered" ELSE "rpcError"]
    /\ chan' = [chan EXCEPT ![i].full = FALSE]
    /\ UNCHANGED <<connVars, pending, asked, hand, panicked>>

\* Mutant: a context without a deadline.
TimeoutNever(i) == call[i] = "timeout" /\ UNCHANGED vars

\* ... or the caller's context ends.
Timeout(i) ==
    /\ call[i] = "waiting"
    /\ call' = [call EXCEPT ![i] = "timeout"]
    /\ pending' = pending \ {i}
    /\ UNCHANGED <<connVars, chan, asked, hand, panicked>>

\* readLoop k handles one message at a time, so that it reads an error only
\* when it is not delivering; requests sent over a dead connection stay unanswered.
ReaderFails(k) ==
    /\ hand[k] = None
    /\ ReadFails(k)
    /\ asked' = {a \in asked : a[1] # k}
    /\ UNCHANGED <<pending, call, chan, hand, panicked>>

ConnStep ==
    /\ \/ Connect \/ CloseMarks \/ CloseCancels
       \/ \E k \in Attempts : Connecting(k) \/ ResetReady(k) \/ DialOK(k) \/ ServerDrops(k)
    /\ UNCHANGED rpcVars

Calling(i) == Send(i) \/ Receive(i) \/ Timeout(i)

Next ==
    \/ ConnStep
    \/ \E k \in Attempts : ReaderFails(k)
    \/ \E i \in Calls : Register(i) \/ Calling(i)
    \/ \E k \in Attempts, i \in Calls, kind \in {"result", "error"} : AnswerArrives(k, i, kind)
    \/ \E k \in Attempts : Deliver(k)

Spec == Init /\ [][Next]_vars

\* Goroutines run and timers end.  The service is reachable again and again
\* (strong fairness of DialOK), which is what reconnecting relies on; nobody has
\* to close the client, answer a call or drop a connection.
Fairness ==
    /\ \A k \in Attempts : WF_vars(Connecting(k) /\ UNCHANGED rpcVars)
    /\ \A k \in Attempts : WF_vars(ResetReady(k) /\ UNCHANGED rpcVars)
    /\ \A k \in Attempts : WF_vars(ReaderFails(k))
    /\ \A k \in Attempts : WF_vars(Deliver(k))
    /\ \A i \in Calls : WF_vars(Calling(i))
    /\ WF_vars((Connect \/ CloseCancels) /\ UNCHANGED rpcVars)
    /\ SF_vars((\E k \in Attempts : DialOK(k)) /\ UNCHANGED rpcVars)

FairSpec == Spec /\ Fairness

(***************************************************************************)
(* Properties.                                                             *)
(***************************************************************************)

\* handleMessage can always deliver: it never sends on or closes a channel that
\* is closed (a panic in readLoop that nothing recovers), and the one place in
\* the channel is free (or readLoop would block for ever), even when the service
\* repeats an answer and the caller has given up.
AnswersDeliverable ==
    /\ ~panicked
    /\ \A k \in Attempts :
          hand[k] # None /\ hand[k][2] = "result" => ~chan[hand[k][1]].full

\* Client.pending holds only calls that still wait: no path out of
\* sendRequestAwait leaves its entry behind, in any race with an answer.
PendingIsLive ==
    \A i \in pending : call[i] \in {"registered", "waiting"}

(***************************************************************************)
(* The inductive invariant behind the safety properties.                   *)
(***************************************************************************)

Fresh(i) == ~chan[i].full /\ ~chan[i].closed
Holds(k, i) == hand[k] # None /\ hand[k][1] = i

\* The right to deliver to call i is in one place: not there yet, the entry in
\* pending, or the hand of one readLoop; and until it is used up the channel is
\* untouched.
OneDeliverer ==
    \A i \in Calls :
        /\ call[i] = "idle" =>
              /\ Fresh(i) /\ i \notin pending
              /\ \A k \in Attempts : ~Holds(k, i) /\ <<k, i>> \notin asked
        /\ i \in pending => Fresh(i) /\ \A k \in Attempts : ~Holds(k, i)
        /\ \A k \in Attempts : Holds(k, i) =>
              Fresh(i) /\ \A j \in Attempts : Holds(j, i) => j = k

IInv == TypeOK /\ ConnInv /\ PendingIsLive /\ OneDeliverer /\ ~panicked

(***************************************************************************)
(* Liveness.                                                               *)
(***************************************************************************)

\* Every call returns: with the answer, an error or its timeout, whatever
\* happens to the connection and whatever Close does.
CallsReturn ==
    \A i \in Calls :
        call[i] = "registered" ~> call[i] \notin {"registered", "waiting"}

\* After Close nothing is left: every WebSocket is closed and every attempt and
\* readLoop has ended, for good, even if a dial succeeded while Close ran.
CloseEndsAll ==
    closed ~> [](open = {} /\ Owners = {})

\* A client that is not closed gets a connection (again), provided the service
\* can be reached again and again: no interleaving of a lost connection, a
\* finishing attempt and a timer leaves it without somebody trying.
Reconnects ==
    (started /\ ~closed) ~> (ws # 0 \/ closed)

================================================================================
