------------------------------ MODULE HostManager ------------------------------
(***************************************************************************)
(* The host side of the bridge: internal/bridge/host.go with               *)
(* internal/bridge/tcp.go.  One hostSession per OFFER that gets its TURN   *)
(* credentials, kept in HostManager.sessions by signaling session id.      *)
(*                                                                         *)
(* Goroutines are explicit.  todo[t] is the sequence of calls goroutine t  *)
(* still has to make, the next one first; calling a function replaces the  *)
(* head by the calls the function makes.  So nested calls (close() called  *)
(* from a close handler, under a lock, inside a sync.Once) keep their real *)
(* order, and a goroutine that waits for itself is a head that can never   *)
(* be taken.  Each session has five goroutines:                            *)
(*   "offer"  handleOffer's goroutine, running startSession                *)
(*   "wait"   startSession's goroutine: wait for the channel, then dial    *)
(*   "read"   TCPBridge.readLoop                                           *)
(*   "data"   pion's message callback, running onPeerData                  *)
(*   "rtc"    pion's state callback, running fireClose                     *)
(* and Stopper is the caller of HostManager.Close.                         *)
(***************************************************************************)
EXTENDS Naturals, Sequences

CONSTANTS
    Offers,     \* OFFER messages delivered to this host; each starts one hostSession
    Sids,       \* signaling session ids
    SidOf,      \* [Offers -> Sids]; two offers with one id are a repeated OFFER
    None,       \* "no session" in the map, "no goroutine" on a lock or a sync.Once
    Done,       \* a sync.Once that has run
    HangUps,    \* offers whose game server may close its TCP connection first
    NewFails,   \* offers whose NewPeerConnection may fail
    CanStop     \* whether HostManager.Close is called

ASSUME ConstantsAssumption ==
    /\ SidOf \in [Offers -> Sids]
    /\ HangUps \subseteq Offers
    /\ NewFails \subseteq Offers
    /\ CanStop \in BOOLEAN

Kinds == {"offer", "wait", "read", "data", "rtc"}
Stopper == <<"stop", None>>
Goroutines == (Kinds \X Offers) \cup {Stopper}

ASSUME NoneAssumption == 
    /\ None \notin Offers
    /\ {None, Done} \cap Goroutines = {}
    /\ None # Done

VARIABLES
    sessions,   \* HostManager.sessions
    mgr,        \* holder of HostManager.mu across calls
    closing,    \* the slice "all" of HostManager.Close
    closed,     \* hostSession.closed
    rtc,        \* hostSession.rtc # nil
    tcp,        \* hostSession.tcp # nil
    pc,         \* the PeerConnection of the bridge.Session
    opened,     \* dcOpenCh is closed
    fired,      \* Session.closeOnce has been taken
    conn,       \* the TCP connection of the TCPBridge
    once,       \* TCPBridge.closeOnce: None, the goroutine inside, or Done
    todo,       \* what each goroutine still has to do
    crashed     \* HandleOffer's unrecovered panic ended the process

vars == <<sessions, mgr, closing, closed, rtc, tcp, pc, opened, fired, conn,
          once, todo, crashed>>

Ops == {"turn", "register", "commit", "new", "handleOffer", "answer",
        "waitOpen", "dial", "setTcp", "eof", "psClose", "tcpClose",
        "onceDone", "rtcClose", "remove", "stop"}
Calls == Ops \X (Offers \cup {None})

PcStates == {"none", "new", "answered", "open", "failed", "closed"}
ConnStates == {"none", "open", "hungup", "closed"}

TypeOK ==
    /\ sessions \in [Sids -> Offers \cup {None}]
    /\ mgr \in Goroutines \cup {None}
    /\ closing \subseteq Offers
    /\ closed \in [Offers -> BOOLEAN]
    /\ rtc \in [Offers -> BOOLEAN]
    /\ tcp \in [Offers -> BOOLEAN]
    /\ pc \in [Offers -> PcStates]
    /\ opened \in [Offers -> BOOLEAN]
    /\ fired \in [Offers -> BOOLEAN]
    /\ conn \in [Offers -> ConnStates]
    /\ once \in [Offers -> {None, Done} \cup Goroutines]
    /\ todo \in [Goroutines -> Seq(Calls)]
    /\ crashed \in BOOLEAN

Init ==
    /\ sessions = [s \in Sids |-> None]
    /\ mgr = None
    /\ closing = {}
    /\ closed = [o \in Offers |-> FALSE]
    /\ rtc = [o \in Offers |-> FALSE]
    /\ tcp = [o \in Offers |-> FALSE]
    /\ pc = [o \in Offers |-> "none"]
    /\ opened = [o \in Offers |-> FALSE]
    /\ fired = [o \in Offers |-> FALSE]
    /\ conn = [o \in Offers |-> "none"]
    /\ once = [o \in Offers |-> None]
    /\ todo = [t \in Goroutines |->
                 IF t = Stopper
                 THEN IF CanStop THEN << <<"stop", None>> >> ELSE << >>
                 ELSE IF t[1] = "offer" THEN << <<"turn", t[2]>> >> ELSE << >>]
    /\ crashed = FALSE

(***************************************************************************)
(* Control.                                                                *)
(***************************************************************************)
At(t, op, o) == todo[t] # << >> /\ Head(todo[t]) = <<op, o>>

\* Goroutine t makes the calls s in place of the one it is at.
Does(t, s) == [todo EXCEPT ![t] = s \o Tail(@)]

\* Whether goroutine t still has the call <<op, o>> to make.
Pending(t, op, o) == \E i \in 1 .. Len(todo[t]) : todo[t][i] = <<op, o>>

\* Mutant: the close handler closes the session but leaves it in the map.
FireCloseKeepsEntry(td, o) ==
    IF fired[o] THEN td ELSE [td EXCEPT ![<<"rtc", o>>] = << <<"psClose", o>> >>]

\* Session.fireClose: the first caller runs onClose, in a pion goroutine.
FireClose(td, o) ==
    IF fired[o] THEN td
    ELSE [td EXCEPT ![<<"rtc", o>>] = << <<"psClose", o>>, <<"remove", o>> >>]

(***************************************************************************)
(* startSession, in the "offer" goroutine.                                 *)
(***************************************************************************)

\* RequestTurnAuth answers, or fails and handleOffer's goroutine returns.
TurnAuth(o) ==
    LET t == <<"offer", o>> IN
    /\ At(t, "turn", o)
    /\ \E ok \in BOOLEAN :
          todo' = Does(t, IF ok THEN << <<"register", o>>, <<"new", o>>,
                                        <<"handleOffer", o>>, <<"answer", o>> >>
                                ELSE << >>)
    /\ UNCHANGED <<sessions, mgr, closing, closed, rtc, tcp, pc, opened, fired,
                   conn, once, crashed>>

\* The first half of RegisterByFriend: any other join is the previous session.
RegisterClosesOther(o) ==
    LET t == <<"offer", o>> IN
    /\ At(t, "register", o)
    /\ mgr = None
    /\ \E prev \in Offers :
          /\ \E s \in Sids : sessions[s] = prev
          /\ mgr' = t
          /\ todo' = Does(t, << <<"psClose", prev>>, <<"commit", o>> >>)
    /\ UNCHANGED <<sessions, closing, closed, rtc, tcp, pc, opened, fired, conn,
                   once, crashed>>

\* Mutant: sessions are not kept apart by id.
RegisterByFriend(o) ==
    \/ RegisterClosesOther(o)
    \/ /\ At(<<"offer", o>>, "register", o)
       /\ mgr = None
       /\ \A s \in Sids : sessions[s] = None
       /\ sessions' = [sessions EXCEPT ![SidOf[o]] = o]
       /\ todo' = Does(<<"offer", o>>, << >>)
       /\ UNCHANGED <<mgr, closing, closed, rtc, tcp, pc, opened, fired, conn,
                      once, crashed>>

\* p.mu.Lock(): a previous session of the same id is closed with p.mu held.
Register(o) ==
    LET t == <<"offer", o>>
        prev == sessions[SidOf[o]]
    IN
    /\ At(t, "register", o)
    /\ mgr = None
    /\ IF prev = None
       THEN /\ sessions' = [sessions EXCEPT ![SidOf[o]] = o]
            /\ todo' = Does(t, << >>)
            /\ UNCHANGED mgr
       ELSE /\ mgr' = t
            /\ todo' = Does(t, << <<"psClose", prev>>, <<"commit", o>> >>)
            /\ UNCHANGED sessions
    /\ UNCHANGED <<closing, closed, rtc, tcp, pc, opened, fired, conn, once, crashed>>

\* p.sessions[sid] = ps; p.mu.Unlock(), after prev.close() returned.
Commit(o) ==
    LET t == <<"offer", o>> IN
    /\ At(t, "commit", o)
    /\ sessions' = [sessions EXCEPT ![SidOf[o]] = o]
    /\ mgr' = None
    /\ todo' = Does(t, << >>)
    /\ UNCHANGED <<closing, closed, rtc, tcp, pc, opened, fired, conn, once, crashed>>

\* NewSession and ps.rtc = rtc.  An error returns, and leaves ps in the map.
NewSession(o) ==
    LET t == <<"offer", o>> IN
    /\ At(t, "new", o)
    /\ \/ /\ pc' = [pc EXCEPT ![o] = "new"]
          /\ rtc' = [rtc EXCEPT ![o] = TRUE]
          /\ todo' = Does(t, << >>)
       \/ /\ o \in NewFails
          /\ todo' = [todo EXCEPT ![t] = << >>]
          /\ UNCHANGED <<pc, rtc>>
    /\ UNCHANGED <<sessions, mgr, closing, closed, tcp, opened, fired, conn, once, crashed>>

\* rtc.HandleOffer.  Session.Close has set s.pc to nil if it ran before: the
\* call through s.pc then panics in a goroutine without a recover, or, when the
\* pointer had been read just before, fails like any other error.  The other
\* uses of s.pc after a Close are not steps of this model: AddRemoteICE's panic
\* is recovered by the signaling client, logSelectedCandidatePair's is not.
HandleOffer(o) ==
    LET t == <<"offer", o>> IN
    /\ At(t, "handleOffer", o)
    /\ \/ /\ pc[o] = "new"
          /\ pc' = [pc EXCEPT ![o] = "answered"]
          /\ todo' = Does(t, << >>)
          /\ UNCHANGED crashed
       \/ /\ todo' = [todo EXCEPT ![t] = << <<"psClose", o>> >>]
          /\ UNCHANGED <<pc, crashed>>
       \/ /\ pc[o] = "closed"
          /\ crashed' = TRUE
          /\ UNCHANGED <<pc, todo>>
    /\ UNCHANGED <<sessions, mgr, closing, closed, rtc, tcp, opened, fired, conn, once>>

\* SendClientMessage(ANSWER); success starts the goroutine that waits.
SendAnswer(o) ==
    LET t == <<"offer", o>> IN
    /\ At(t, "answer", o)
    /\ \/ todo' = [Does(t, << >>) EXCEPT ![<<"wait", o>>] = << <<"waitOpen", o>> >>]
       \/ todo' = Does(t, << <<"psClose", o>> >>)
    /\ UNCHANGED <<sessions, mgr, closing, closed, rtc, tcp, pc, opened, fired,
                   conn, once, crashed>>

(***************************************************************************)
(* The peer connection, driven by the friend's side and by pion.           *)
(***************************************************************************)

\* The friend's data channel opens.
DataChannelOpens(o) ==
    /\ pc[o] = "answered"
    /\ pc' = [pc EXCEPT ![o] = "open"]
    /\ opened' = [opened EXCEPT ![o] = TRUE]
    /\ UNCHANGED <<sessions, mgr, closing, closed, rtc, tcp, fired, conn, once,
                   todo, crashed>>

\* The friend leaves or ICE gives up: state Failed, or the channel closes.
PeerGone(o) ==
    /\ pc[o] \in {"answered", "open"}
    /\ pc' = [pc EXCEPT ![o] = "failed"]
    /\ todo' = FireClose(todo, o)
    /\ fired' = [fired EXCEPT ![o] = TRUE]
    /\ UNCHANGED <<sessions, mgr, closing, closed, rtc, tcp, opened, conn, once, crashed>>

(***************************************************************************)
(* The "wait" goroutine: WaitDataChannelOpen and attachTCP.                *)
(***************************************************************************)

\* The channel opened, or handshakeTimeout passed, or the channel was reset.
WaitOpen(o) ==
    LET t == <<"wait", o>> IN
    /\ At(t, "waitOpen", o)
    /\ \/ /\ opened[o] /\ pc[o] # "closed"
          /\ todo' = Does(t, << <<"dial", o>> >>)
       \/ todo' = Does(t, << <<"psClose", o>>, <<"remove", o>> >>)
    /\ UNCHANGED <<sessions, mgr, closing, closed, rtc, tcp, pc, opened, fired,
                   conn, once, crashed>>

\* Mutant: a failed dial returns without closing the session.
DialErrorReturns(o) ==
    LET t == <<"wait", o>> IN
    /\ At(t, "dial", o)
    /\ todo' = Does(t, << >>)
    /\ UNCHANGED <<sessions, mgr, closing, closed, rtc, tcp, pc, opened, fired,
                   conn, once, crashed>>

\* DialTCP: a connection and its readLoop, or an error.
Dial(o) ==
    LET t == <<"wait", o>> IN
    /\ At(t, "dial", o)
    /\ \/ /\ conn' = [conn EXCEPT ![o] = "open"]
          /\ todo' = [Does(t, << <<"setTcp", o>> >>)
                        EXCEPT ![<<"read", o>>] = << <<"eof", o>> >>]
       \/ /\ todo' = Does(t, << <<"psClose", o>> >>)
          /\ UNCHANGED conn
    /\ UNCHANGED <<sessions, mgr, closing, closed, rtc, tcp, pc, opened, fired,
                   once, crashed>>

\* ps.tcp = tcp, whether or not ps was closed meanwhile.
SetTcp(o) ==
    LET t == <<"wait", o>> IN
    /\ At(t, "setTcp", o)
    /\ tcp' = [tcp EXCEPT ![o] = TRUE]
    /\ todo' = Does(t, << >>)
    /\ UNCHANGED <<sessions, mgr, closing, closed, rtc, pc, opened, fired, conn,
                   once, crashed>>

(***************************************************************************)
(* The TCP connection to the game server.                                  *)
(***************************************************************************)

\* The game server closes its end.
TargetHangsUp(o) ==
    /\ o \in HangUps
    /\ conn[o] = "open"
    /\ conn' = [conn EXCEPT ![o] = "hungup"]
    /\ UNCHANGED <<sessions, mgr, closing, closed, rtc, tcp, pc, opened, fired,
                   once, todo, crashed>>

\* readLoop's Read fails; the deferred b.Close() runs.
ReadEnds(o) ==
    LET t == <<"read", o>> IN
    /\ At(t, "eof", o)
    /\ conn[o] # "open"
    /\ todo' = Does(t, << <<"tcpClose", o>> >>)
    /\ UNCHANGED <<sessions, mgr, closing, closed, rtc, tcp, pc, opened, fired,
                   conn, once, crashed>>

\* onPeerData: Feed fails on a connection the server, or readLoop, has closed.
FeedFails(o) ==
    LET t == <<"data", o>> IN
    /\ todo[t] = << >>
    /\ pc[o] = "open" /\ tcp[o] /\ conn[o] \in {"hungup", "closed"}
    /\ todo' = [todo EXCEPT ![t] = << <<"psClose", o>> >>]
    /\ UNCHANGED <<sessions, mgr, closing, closed, rtc, tcp, pc, opened, fired,
                   conn, once, crashed>>

(***************************************************************************)
(* Calls any goroutine makes.                                              *)
(***************************************************************************)

\* Mutant: the peer connection is closed only when there is no TCP bridge.
PsCloseElse(t, o) ==
    /\ At(t, "psClose", o)
    /\ closed' = [closed EXCEPT ![o] = TRUE]
    /\ tcp' = [tcp EXCEPT ![o] = FALSE]
    /\ rtc' = [rtc EXCEPT ![o] = FALSE]
    /\ todo' = Does(t, IF tcp[o] THEN << <<"tcpClose", o>> >>
                       ELSE IF rtc[o] THEN << <<"rtcClose", o>> >> ELSE << >>)
    /\ UNCHANGED <<sessions, mgr, closing, pc, opened, fired, conn, once, crashed>>

\* hostSession.close, up to the calls it makes after ps.mu.Unlock().
PsClose(t, o) ==
    /\ At(t, "psClose", o)
    /\ IF closed[o]
       THEN /\ todo' = Does(t, << >>)
            /\ UNCHANGED <<closed, rtc, tcp>>
       ELSE /\ closed' = [closed EXCEPT ![o] = TRUE]
            /\ tcp' = [tcp EXCEPT ![o] = FALSE]
            /\ rtc' = [rtc EXCEPT ![o] = FALSE]
            /\ todo' = Does(t, (IF tcp[o] THEN << <<"tcpClose", o>> >> ELSE << >>)
                               \o (IF rtc[o] THEN << <<"rtcClose", o>> >> ELSE << >>))
    /\ UNCHANGED <<sessions, mgr, closing, pc, opened, fired, conn, once, crashed>>

\* TCPBridge.Close.  A sync.Once makes every later caller wait for the first,
\* and a caller that is already inside waits for itself.
TcpClose(t, o) ==
    /\ At(t, "tcpClose", o)
    /\ \/ /\ once[o] = None
          /\ once' = [once EXCEPT ![o] = t]
          /\ conn' = [conn EXCEPT ![o] = "closed"]
          /\ todo' = Does(t, << <<"psClose", o>>, <<"remove", o>>, <<"onceDone", o>> >>)
       \/ /\ once[o] = Done
          /\ todo' = Does(t, << >>)
          /\ UNCHANGED <<once, conn>>
    /\ UNCHANGED <<sessions, mgr, closing, closed, rtc, tcp, pc, opened, fired, crashed>>

\* closeOnce.Do returns.
OnceDone(t, o) ==
    /\ At(t, "onceDone", o)
    /\ once' = [once EXCEPT ![o] = Done]
    /\ todo' = Does(t, << >>)
    /\ UNCHANGED <<sessions, mgr, closing, closed, rtc, tcp, pc, opened, fired,
                   conn, crashed>>

\* Session.Close; pion then reports state Closed.
RtcClose(t, o) ==
    /\ At(t, "rtcClose", o)
    /\ pc' = [pc EXCEPT ![o] = "closed"]
    /\ todo' = FireClose(Does(t, << >>), o)
    /\ fired' = [fired EXCEPT ![o] = TRUE]
    /\ UNCHANGED <<sessions, mgr, closing, closed, rtc, tcp, opened, conn, once, crashed>>

\* Mutant: deletes whatever session the map holds under the id.
RemoveAnySession(t, o) ==
    /\ At(t, "remove", o)
    /\ mgr = None
    /\ sessions' = [sessions EXCEPT ![SidOf[o]] = None]
    /\ todo' = Does(t, << >>)
    /\ UNCHANGED <<mgr, closing, closed, rtc, tcp, pc, opened, fired, conn, once, crashed>>

\* removeSession: takes p.mu, deletes the entry only if it is still this session.
RemoveSession(t, o) ==
    /\ At(t, "remove", o)
    /\ mgr = None
    /\ sessions' = IF sessions[SidOf[o]] = o
                   THEN [sessions EXCEPT ![SidOf[o]] = None] ELSE sessions
    /\ todo' = Does(t, << >>)
    /\ UNCHANGED <<mgr, closing, closed, rtc, tcp, pc, opened, fired, conn, once, crashed>>

(***************************************************************************)
(* HostManager.Close.                                                      *)
(***************************************************************************)

\* Mutant: the map is set to nil, so that the next session cannot be stored.
StopNilMap ==
    /\ At(Stopper, "stop", None)
    /\ mgr = None
    /\ closing' = {o \in Offers : sessions[SidOf[o]] = o}
    /\ sessions' = [s \in {} |-> None]
    /\ todo' = Does(Stopper, << >>)
    /\ UNCHANGED <<mgr, closed, rtc, tcp, pc, opened, fired, conn, once, crashed>>

\* Takes every session out of the map under p.mu ...
Stop ==
    /\ At(Stopper, "stop", None)
    /\ mgr = None
    /\ closing' = {o \in Offers : sessions[SidOf[o]] = o}
    /\ sessions' = [s \in Sids |-> None]
    /\ todo' = Does(Stopper, << >>)
    /\ UNCHANGED <<mgr, closed, rtc, tcp, pc, opened, fired, conn, once, crashed>>

\* ... and closes them one after the other, in map order.
StopNext(o) ==
    /\ o \in closing
    /\ todo[Stopper] = << >>
    /\ closing' = closing \ {o}
    /\ todo' = [todo EXCEPT ![Stopper] = << <<"psClose", o>> >>]
    /\ UNCHANGED <<sessions, mgr, closed, rtc, tcp, pc, opened, fired, conn, once, crashed>>

(***************************************************************************)
(* Steps the program takes by itself, and steps of its environment.        *)
(***************************************************************************)
Starting(o) == TurnAuth(o) \/ Register(o) \/ Commit(o) \/ NewSession(o)
                 \/ HandleOffer(o) \/ SendAnswer(o)
Attaching(o) == WaitOpen(o) \/ Dial(o) \/ SetTcp(o)
Calling(t, o) == PsClose(t, o) \/ TcpClose(t, o) \/ OnceDone(t, o)
                   \/ RtcClose(t, o) \/ RemoveSession(t, o)
Stopping == Stop \/ \E o \in Offers : StopNext(o)
Environment(o) == DataChannelOpens(o) \/ PeerGone(o) \/ TargetHangsUp(o) \/ FeedFails(o)

Next ==
    /\ ~crashed
    /\ \/ \E o \in Offers : Starting(o) \/ Attaching(o) \/ ReadEnds(o) \/ Environment(o)
       \/ \E t \in Goroutines, o \in Offers : Calling(t, o)
       \/ Stopping

Spec == Init /\ [][Next]_vars

\* The Go scheduler runs every goroutine that can go on; network calls and
\* waits end by an answer or by their timeout.
Fairness ==
    /\ \A o \in Offers : WF_vars(~crashed /\ Starting(o))
    /\ \A o \in Offers : WF_vars(~crashed /\ Attaching(o))
    /\ \A o \in Offers : WF_vars(~crashed /\ ReadEnds(o))
    /\ \A t \in Goroutines : WF_vars(~crashed /\ \E o \in Offers : Calling(t, o))
    /\ WF_vars(~crashed /\ Stopping)

FairSpec == Spec /\ Fairness

(***************************************************************************)
(* Properties.                                                             *)
(***************************************************************************)
SomeonePends(op, o) == \E t \in Goroutines : Pending(t, op, o)
PcLive(o) == pc[o] \in {"new", "answered", "open", "failed"}
ConnLive(o) == conn[o] \in {"open", "hungup"}
Registered(o) == sessions[SidOf[o]] = o

\* A session that has a peer connection and is not (or no longer) the one the
\* map holds has been closed, or some goroutine is about to close it: neither a
\* repeated OFFER, nor the late clean-up of a session that was replaced, nor
\* HostManager.Close drops a live session from the map and forgets it.
OrphanIsClosing ==
    \A o \in Offers :
        pc[o] # "none" /\ ~Registered(o)
          => closed[o] \/ o \in closing \/ SomeonePends("psClose", o)

\* What close() leaves behind.  After close() has marked the session, a peer
\* connection that is still alive is one that some goroutine goes on to close or
\* one that was stored after the mark; and the same for the TCP connection.
\* So close() itself, entered from any number of goroutines, forgets neither.
CloseReleases ==
    \A o \in Offers : closed[o] =>
        /\ PcLive(o) => SomeonePends("rtcClose", o) \/ rtc[o]
        /\ ConnLive(o) => SomeonePends("tcpClose", o) \/ tcp[o]
                             \/ SomeonePends("setTcp", o)

\* A call that takes HostManager.mu is never made by the goroutine that holds
\* it.  startSession's prev.close() runs with p.mu locked and TCPBridge.Close
\* calls removeSession, so a repeated OFFER for an established session breaks it.
ManagerNotReentered ==
    \A t \in Goroutines, o \in Offers : ~(mgr = t /\ At(t, "remove", o))

\* Sessions with different ids do not touch each other: only a session's own
\* goroutines close it, so a friend who joins twice keeps the first session.
SessionsIndependent ==
    [][\A o \in Offers :
          closed'[o] # closed[o]
            => \E k \in Kinds : At(<<k, o>>, "psClose", o)]_vars

\* Every session that close() has marked is released: the map no longer holds
\* it, its peer connection is closed, and so is its TCP connection unless
\* attachTCP stored it after the mark (the friend left while the host dialled).
ClosedIsReleased ==
    \A o \in Offers :
        closed[o] ~> (~PcLive(o) /\ (~ConnLive(o) \/ tcp[o]) /\ ~Registered(o))

\* startSession has returned from an error of NewSession: nothing takes the
\* session out of the map any more, except its id's next OFFER or Close.
Abandoned(o) == pc[o] = "none" /\ todo[<<"offer", o>>] = << >>

\* A session does not stay half-open: once in the map it either gets its TCP
\* bridge or is taken out again (WaitDataChannelOpen's timeout, failed dials,
\* failed negotiation).  The one exception is a session whose peer connection
\* could not be created: startSession returns and leaves it in the map.
HalfOpenEnds ==
    \A o \in Offers :
        Registered(o) ~> (tcp[o] \/ ~Registered(o) \/ Abandoned(o))

\* NewHostManager's comment on the ICE timeouts: a session abandoned by the
\* friend does not linger forever, its peer connection gets closed.
AbandonedSessionEnds ==
    \A o \in Offers : pc[o] = "failed" ~> pc[o] = "closed"

================================================================================
