------------------------------ MODULE JoinManager ------------------------------
(***************************************************************************)
(* The joining side of the bridge: internal/bridge/join.go.  A local TCP   *)
(* listener takes the Minecraft client's connection, asks the host over    *)
(* signaling, negotiates WebRTC and pumps bytes.  One join at a time.      *)
(*                                                                         *)
(* Each local connection has its handleIncoming goroutine (stage), which   *)
(* races pion's close callback, the signaling reader and Close.            *)
(***************************************************************************)
EXTENDS Naturals

CONSTANTS
    Conns,    \* connections of the local Minecraft client
    None

ASSUME ConnsAssumption == None \notin Conns

VARIABLES
    stage,      \* where handleIncoming is
    current,    \* JoinManager.current
    requests,   \* JOIN_REQUESTs the host has not answered
    replies,    \* answers of the host on their way: <<type, session>>
    accepted,   \* acceptCh is closed
    rejected,   \* rejectCh is closed
    localOpen,  \* the local TCP connection is open
    hungup,     \* the Minecraft client has closed its end
    local,      \* joinSession.local # nil
    once,       \* joinSession.once: "idle", "mid" (before rtc.Close), "done"
    rtc,        \* joinSession.rtc # nil
    pc,         \* the peer connection
    firing,     \* pion's callback has s.close() still to call
    stop,       \* JoinManager.Close: "no", "stopped", "taken", "done"
    victim,     \* the session Close took out of current
    crashed     \* an unrecovered panic ended the process

vars == <<stage, current, requests, replies, accepted, rejected, localOpen,
          hungup, local, once, rtc, pc, firing, stop, victim, crashed>>

\* away: not connected.  incoming: accepted, goroutine started.  ready: waits
\* for signaling.  await: waits for the host.  turn: startInitiator before
\* s.rtc is set.  offer: CreateOffer and send.  open: waits for the channel.
\* drain, read: the two halves of startTcpBridge's loop.  closing: inside
\* s.close().  leave: the deferred function.  done.
Stages == {"away", "incoming", "ready", "await", "turn", "offer", "open",
           "drain", "read", "closing", "leave", "done"}
PcStates == {"none", "new", "answered", "open", "failed", "closed"}

TypeOK ==
    /\ stage \in [Conns -> Stages]
    /\ current \in Conns \cup {None}
    /\ requests \in SUBSET Conns
    /\ replies \in SUBSET ({"JOIN_ACCEPTED", "JOIN_REJECTED"} \X Conns)
    /\ accepted \in SUBSET Conns /\ rejected \in SUBSET Conns
    /\ localOpen \in SUBSET Conns /\ hungup \in SUBSET Conns /\ local \in SUBSET Conns
    /\ once \in [Conns -> {"idle", "mid", "done"}]
    /\ rtc \in SUBSET Conns
    /\ pc \in [Conns -> PcStates]
    /\ firing \in SUBSET Conns
    /\ stop \in {"no", "stopped", "taken", "done"}
    /\ victim \in Conns \cup {None}
    /\ crashed \in BOOLEAN

Init ==
    /\ stage = [c \in Conns |-> "away"]
    /\ current = None
    /\ requests = {} /\ replies = {} /\ accepted = {} /\ rejected = {}
    /\ localOpen = {} /\ hungup = {} /\ local = {}
    /\ once = [c \in Conns |-> "idle"]
    /\ rtc = {}
    /\ pc = [c \in Conns |-> "none"]
    /\ firing = {}
    /\ stop = "no" /\ victim = None /\ crashed = FALSE

Goes(c, s) == stage' = [stage EXCEPT ![c] = s]

(***************************************************************************)
(* handleIncoming.                                                         *)
(***************************************************************************)

\* acceptLoop accepts a connection and starts handleIncoming; only until the
\* listener is closed.
Accept(c) ==
    /\ stage[c] = "away" /\ stop = "no"
    /\ Goes(c, "incoming")
    /\ localOpen' = localOpen \cup {c}
    /\ UNCHANGED <<current, requests, replies, accepted, rejected, hungup, local,
                   once, rtc, pc, firing, stop, victim, crashed>>

\* Mutant: takes the place of the join in progress.
TakeCurrentAlways(c) ==
    /\ stage[c] = "incoming"
    /\ Goes(c, "ready")
    /\ current' = c /\ local' = local \cup {c}
    /\ UNCHANGED <<localOpen, requests, replies, accepted, rejected, hungup, once,
                   rtc, pc, firing, stop, victim, crashed>>

\* Mutant: the second client is sent away without closing its connection.
TakeCurrentLeaks(c) ==
    /\ stage[c] = "incoming"
    /\ IF current # None
       THEN Goes(c, "done") /\ UNCHANGED <<current, local>>
       ELSE Goes(c, "ready") /\ current' = c /\ local' = local \cup {c}
    /\ UNCHANGED <<localOpen, requests, replies, accepted, rejected, hungup, once,
                   rtc, pc, firing, stop, victim, crashed>>

\* Becomes the current join, or is sent away because there is one.
TakeCurrent(c) ==
    /\ stage[c] = "incoming"
    /\ IF current # None
       THEN /\ Goes(c, "done")
            /\ localOpen' = localOpen \ {c}
            /\ UNCHANGED <<current, local>>
       ELSE /\ Goes(c, "ready")
            /\ current' = c
            /\ local' = local \cup {c}
            /\ UNCHANGED localOpen
    /\ UNCHANGED <<requests, replies, accepted, rejected, hungup, once, rtc, pc,
                   firing, stop, victim, crashed>>

\* WaitReady, then JOIN_REQUEST; a timeout or a failed send gives up.
SendJoinRequest(c) ==
    /\ stage[c] = "ready"
    /\ \/ /\ Goes(c, "await")
          /\ requests' = requests \cup {c}
          /\ UNCHANGED localOpen
       \/ /\ Goes(c, "leave")
          /\ localOpen' = localOpen \ {c}
          /\ UNCHANGED requests
    /\ UNCHANGED <<current, replies, accepted, rejected, hungup, local, once, rtc,
                   pc, firing, stop, victim, crashed>>

\* Mutant: no time limit on the host's answer.
AwaitHostForever(c) ==
    /\ stage[c] = "await"
    /\ \/ c \in accepted /\ Goes(c, "turn") /\ UNCHANGED localOpen
       \/ c \in rejected /\ Goes(c, "leave") /\ localOpen' = localOpen \ {c}
    /\ UNCHANGED <<current, requests, replies, accepted, rejected, hungup, local,
                   once, rtc, pc, firing, stop, victim, crashed>>

\* The select: accepted; or rejected or 60 seconds without an answer, which end
\* the join in the same way.
AwaitHost(c) ==
    /\ stage[c] = "await"
    /\ \/ /\ c \in accepted
          /\ Goes(c, "turn")
          /\ UNCHANGED localOpen
       \/ /\ Goes(c, "leave")
          /\ localOpen' = localOpen \ {c}
    /\ UNCHANGED <<current, requests, replies, accepted, rejected, hungup, local,
                   once, rtc, pc, firing, stop, victim, crashed>>

\* startInitiator up to s.rtc = rtc; an error leads to s.close().
NewInitiator(c) ==
    /\ stage[c] = "turn"
    /\ \/ /\ Goes(c, "offer")
          /\ rtc' = rtc \cup {c}
          /\ pc' = [pc EXCEPT ![c] = "new"]
       \/ Goes(c, "closing") /\ UNCHANGED <<rtc, pc>>
    /\ UNCHANGED <<current, requests, replies, accepted, rejected, localOpen,
                   hungup, local, once, firing, stop, victim, crashed>>

\* CreateOffer and OFFER.  On a closed Session s.pc is nil: a panic, or, when
\* the pointer was read just before, an error.
SendOffer(c) ==
    /\ stage[c] = "offer"
    /\ \/ pc[c] # "closed" /\ Goes(c, "open") /\ UNCHANGED crashed
       \/ Goes(c, "closing") /\ UNCHANGED crashed
       \/ pc[c] = "closed" /\ crashed' = TRUE /\ UNCHANGED stage
    /\ UNCHANGED <<current, requests, replies, accepted, rejected, localOpen,
                   hungup, local, once, rtc, pc, firing, stop, victim>>

\* WaitDataChannelOpen: open, or the timeout.
WaitOpen(c) ==
    /\ stage[c] = "open"
    /\ \/ pc[c] = "open" /\ Goes(c, "drain")
       \/ Goes(c, "closing")
    /\ UNCHANGED <<current, requests, replies, accepted, rejected, localOpen,
                   hungup, local, once, rtc, pc, firing, stop, victim, crashed>>

\* startTcpBridge: WaitForBufferDrain, which fails when the channel is not open.
Drain(c) ==
    /\ stage[c] = "drain"
    /\ Goes(c, IF pc[c] = "open" THEN "read" ELSE "closing")
    /\ UNCHANGED <<current, requests, replies, accepted, rejected, localOpen,
                   hungup, local, once, rtc, pc, firing, stop, victim, crashed>>

\* s.local.Read returns data; rtc.Send fails when the channel is not open.
ReadData(c) ==
    /\ stage[c] = "read" /\ c \in localOpen /\ c \notin hungup
    /\ Goes(c, IF pc[c] = "open" THEN "drain" ELSE "closing")
    /\ UNCHANGED <<current, requests, replies, accepted, rejected, localOpen,
                   hungup, local, once, rtc, pc, firing, stop, victim, crashed>>

\* s.local.Read returns an error.  s.local is read without the lock: it is nil
\* once s.close() has begun, and then the call panics, unless the goroutine
\* was in Read already.
ReadEnds(c) ==
    /\ stage[c] = "read"
    /\ \/ /\ c \notin localOpen \/ c \in hungup
          /\ Goes(c, "closing")
          /\ UNCHANGED crashed
       \/ /\ c \notin local
          /\ crashed' = TRUE
          /\ UNCHANGED stage
    /\ UNCHANGED <<current, requests, replies, accepted, rejected, localOpen,
                   hungup, local, once, rtc, pc, firing, stop, victim>>

\* Mutant: clears current whatever it holds.
LeaveAlways(c) ==
    /\ stage[c] = "leave"
    /\ Goes(c, "done")
    /\ current' = None
    /\ UNCHANGED <<requests, replies, accepted, rejected, localOpen, hungup,
                   local, once, rtc, pc, firing, stop, victim, crashed>>

\* The deferred function.
Leave(c) ==
    /\ stage[c] = "leave"
    /\ Goes(c, "done")
    /\ current' = IF current = c THEN None ELSE current
    /\ UNCHANGED <<requests, replies, accepted, rejected, localOpen, hungup,
                   local, once, rtc, pc, firing, stop, victim, crashed>>

(***************************************************************************)
(* joinSession.close, a sync.Once entered by handleIncoming, by pion's     *)
(* callback (directly, or from signaling's handleAnswer) and by Close.     *)
(***************************************************************************)

\* Mutant: s.local is set to nil and not closed.
CloseKeepsLocal(c) ==
    /\ once[c] = "idle"
    /\ stage[c] = "closing" \/ c \in firing \/ (stop = "taken" /\ victim = c)
    /\ once' = [once EXCEPT ![c] = "mid"]
    /\ UNCHANGED <<stage, current, requests, replies, accepted, rejected, localOpen,
                   hungup, local, rtc, pc, firing, stop, victim, crashed>>

\* The first caller takes and closes the local connection ...
CloseLocal(c) ==
    /\ once[c] = "idle"
    /\ stage[c] = "closing" \/ c \in firing \/ (stop = "taken" /\ victim = c)
    /\ once' = [once EXCEPT ![c] = "mid"]
    /\ local' = local \ {c}
    /\ localOpen' = localOpen \ {c}
    /\ UNCHANGED <<stage, current, requests, replies, accepted, rejected, hungup,
                   rtc, pc, firing, stop, victim, crashed>>

\* Mutant: the peer connection is left to pion.
CloseForgetsRtc(c) ==
    /\ once[c] = "mid"
    /\ once' = [once EXCEPT ![c] = "done"]
    /\ UNCHANGED <<stage, current, requests, replies, accepted, rejected,
                   localOpen, hungup, local, rtc, pc, firing, stop, victim, crashed>>

\* ... and closes the peer connection if it is there.  pion's report of that
\* calls s.close() once more, to no effect.
CloseRtc(c) ==
    /\ once[c] = "mid"
    /\ once' = [once EXCEPT ![c] = "done"]
    /\ pc' = IF c \in rtc THEN [pc EXCEPT ![c] = "closed"] ELSE pc
    /\ UNCHANGED <<stage, current, requests, replies, accepted, rejected,
                   localOpen, hungup, local, rtc, firing, stop, victim, crashed>>

\* s.close() returns to handleIncoming, which returns.
CloseReturns(c) ==
    /\ stage[c] = "closing" /\ once[c] = "done"
    /\ Goes(c, "leave")
    /\ UNCHANGED <<current, requests, replies, accepted, rejected, localOpen,
                   hungup, local, once, rtc, pc, firing, stop, victim, crashed>>

\* s.close() returns to pion's goroutine.
FireReturns(c) ==
    /\ c \in firing /\ once[c] = "done"
    /\ firing' = firing \ {c}
    /\ UNCHANGED <<stage, current, requests, replies, accepted, rejected,
                   localOpen, hungup, local, once, rtc, pc, stop, victim, crashed>>

(***************************************************************************)
(* The host, the peer connection and the Minecraft client.                 *)
(***************************************************************************)

\* HostManager.OnFriendJoin: probes the target and answers.  The service may
\* deliver an answer more than once, so an answer stays in replies.
HostAnswers(c) ==
    /\ c \in requests
    /\ requests' = requests \ {c}
    /\ \E r \in {"JOIN_ACCEPTED", "JOIN_REJECTED"} : replies' = replies \cup {<<r, c>>}
    /\ UNCHANGED <<stage, current, accepted, rejected, localOpen, hungup, local,
                   once, rtc, pc, firing, stop, victim, crashed>>

\* OnFriendJoin: the answer is for the current session or is ignored.  A second
\* close of the channel panics; the signaling client recovers it.
OnFriendJoin(r, c) ==
    /\ <<r, c>> \in replies
    /\ current = c
    /\ IF r = "JOIN_ACCEPTED"
       THEN accepted' = accepted \cup {c} /\ UNCHANGED rejected
       ELSE rejected' = rejected \cup {c} /\ UNCHANGED accepted
    /\ UNCHANGED <<stage, current, requests, replies, localOpen, hungup, local,
                   once, rtc, pc, firing, stop, victim, crashed>>

\* handleAnswer: the ANSWER to the OFFER of the current session; an error closes
\* the session, in the signaling reader.  A second ANSWER is such an error: pion
\* takes none in its stable state.
HandleAnswer(c) ==
    /\ pc[c] \in {"new", "answered", "open"}
    /\ stage[c] \notin {"turn", "offer"} /\ current = c
    /\ \/ pc[c] = "new" /\ pc' = [pc EXCEPT ![c] = "answered"] /\ UNCHANGED firing
       \/ firing' = firing \cup {c} /\ UNCHANGED pc
    /\ UNCHANGED <<stage, current, requests, replies, accepted, rejected,
                   localOpen, hungup, local, once, rtc, stop, victim, crashed>>

\* The data channel opens.
ChannelOpens(c) ==
    /\ pc[c] = "answered"
    /\ pc' = [pc EXCEPT ![c] = "open"]
    /\ UNCHANGED <<stage, current, requests, replies, accepted, rejected,
                   localOpen, hungup, local, once, rtc, firing, stop, victim, crashed>>

\* The host leaves or ICE fails: s.close() in pion's goroutine.
PeerGone(c) ==
    /\ pc[c] \in {"answered", "open"}
    /\ pc' = [pc EXCEPT ![c] = "failed"]
    /\ firing' = firing \cup {c}
    /\ UNCHANGED <<stage, current, requests, replies, accepted, rejected,
                   localOpen, hungup, local, once, rtc, stop, victim, crashed>>

\* The Minecraft client disconnects.
ClientHangsUp(c) ==
    /\ c \in localOpen
    /\ hungup' = hungup \cup {c}
    /\ UNCHANGED <<stage, current, requests, replies, accepted, rejected,
                   localOpen, local, once, rtc, pc, firing, stop, victim, crashed>>

(***************************************************************************)
(* JoinManager.Close.                                                      *)
(***************************************************************************)

\* stopCh and the listener are closed; acceptLoop ends and closes doneCh.
CloseListener ==
    /\ stop = "no"
    /\ stop' = "stopped"
    /\ UNCHANGED <<stage, current, requests, replies, accepted, rejected,
                   localOpen, hungup, local, once, rtc, pc, firing, victim, crashed>>

\* Takes the current session.
TakeVictim ==
    /\ stop = "stopped"
    /\ stop' = "taken"
    /\ victim' = current
    /\ current' = None
    /\ UNCHANGED <<stage, requests, replies, accepted, rejected, localOpen,
                   hungup, local, once, rtc, pc, firing, crashed>>

\* Close returns, after sess.close() if there was a session.
StopReturns ==
    /\ stop = "taken"
    /\ victim # None => once[victim] = "done"
    /\ stop' = "done"
    /\ UNCHANGED <<stage, current, requests, replies, accepted, rejected,
                   localOpen, hungup, local, once, rtc, pc, firing, victim, crashed>>

Handling(c) == TakeCurrent(c) \/ SendJoinRequest(c) \/ AwaitHost(c) \/ NewInitiator(c)
                 \/ SendOffer(c) \/ WaitOpen(c) \/ Drain(c) \/ ReadEnds(c) \/ Leave(c)
Closing(c) == CloseLocal(c) \/ CloseRtc(c) \/ CloseReturns(c) \/ FireReturns(c)
Stopping == TakeVictim \/ StopReturns
Environment(c) == Accept(c) \/ ReadData(c) \/ HostAnswers(c) \/ HandleAnswer(c)
                    \/ ChannelOpens(c) \/ PeerGone(c) \/ ClientHangsUp(c)

Next ==
    /\ ~crashed
    /\ \/ \E c \in Conns : Handling(c) \/ Closing(c) \/ Environment(c)
       \/ \E r \in {"JOIN_ACCEPTED", "JOIN_REJECTED"}, c \in Conns : OnFriendJoin(r, c)
       \/ CloseListener \/ Stopping

Spec == Init /\ [][Next]_vars

\* Goroutines run, and their waits end (15 s, 60 s, 15 s); what is received is
\* handled.  Nothing of the environment is assumed to happen.
Fairness ==
    /\ \A c \in Conns : WF_vars(~crashed /\ Handling(c))
    /\ \A c \in Conns : WF_vars(~crashed /\ Closing(c))
    /\ WF_vars(~crashed /\ Stopping)

FairSpec == Spec /\ Fairness

(***************************************************************************)
(* Properties.                                                             *)
(***************************************************************************)
Active(c) == stage[c] \notin {"away", "incoming", "done"}

\* One join at a time: until Close takes it, the join in progress is the one in
\* current, so a second Minecraft connection cannot start another and answers
\* always reach the join they are for.
OneJoin ==
    stop \in {"no", "stopped"} => \A c \in Conns : Active(c) => current = c

\* A join is taken out of current only by its own goroutine or by Close: the end
\* of an earlier join does not open the door while a later one runs.
CurrentStays ==
    [][\A c \in Conns :
          current = c /\ current' # c => stage'[c] = "done" \/ stop' # stop]_vars

\* When handleIncoming has returned the Minecraft client's connection is closed,
\* on every path: rejection, timeout, failure, end of the bridge, Close.
LocalNotLeaked ==
    \A c \in Conns : stage[c] = "done" => c \notin localOpen

\* The peer connection of a finished join is closed, unless s.close() had run
\* before startInitiator stored it (Close during the TURN request).
RtcNotLeaked ==
    \A c \in Conns :
        stage[c] = "done" /\ pc[c] \notin {"none", "closed"} => stop # "no"

\* An attempt to join resolves: it ends, or the bridge runs.  The listener is not
\* blocked for ever by a host that stays silent.
JoinResolves ==
    \A c \in Conns :
        stage[c] = "incoming" ~> (stage[c] \in {"drain", "read", "done"} \/ crashed)

\* When the peer connection fails under a running bridge, the join ends and
\* the Minecraft client is disconnected.
PeerGoneEndsJoin ==
    \A c \in Conns :
        (pc[c] = "failed" /\ stage[c] \in {"drain", "read"}) ~> (stage[c] = "done" \/ crashed)

================================================================================
