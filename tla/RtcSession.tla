------------------------------ MODULE RtcSession ------------------------------
(***************************************************************************)
(* The WebRTC negotiation of one join: bridge.Session (session.go) at both *)
(* ends, with the signaling handlers of host.go and join.go that drive it. *)
(* Candidates trickle through the signaling service while the descriptions *)
(* are exchanged, so that a candidate can reach a Session before its       *)
(* remote description does; AddRemoteICE queues it and HandleOffer or      *)
(* HandleAnswer flushes the queue.                                         *)
(*                                                                         *)
(* At the acceptor (host) HandleOffer runs in the OFFER's goroutine, and   *)
(* handleICE in the signaling reader: the two race.  At the initiator      *)
(* (joiner) both handleAnswer and handleICE run in the reader.  The        *)
(* service is taken to deliver in any order.                               *)
(***************************************************************************)
EXTENDS Naturals

CONSTANTS
    Cands,   \* ICE candidates; each is gathered by at most one end
    None

ASSUME CandsAssumption == None \notin Cands

Sides == {"init", "acc"}
Peer(x) == IF x = "init" THEN "acc" ELSE "init"

VARIABLES
    sdp,        \* sdp[x]: the OFFER or ANSWER is on its way to x
    ice,        \* ice[x]: candidates on their way to x
    gathered,   \* candidates some end has gathered and sent
    neg,        \* where x is in its negotiation
    remoteDesc, \* pion has x's remote description
    remoteSet,  \* Session.remoteSet
    queued,     \* Session.queuedICE (the order is of no importance)
    flushing,   \* the local "queued" of HandleOffer / HandleAnswer
    inHand,     \* the candidate AddRemoteICE has let through, not added yet
    added,      \* candidates pion has accepted
    dropped,    \* candidates handleICE discarded: no Session to give them to
    refused,    \* candidates whose AddICECandidate failed
    pcNil,      \* Session.Close has run: s.pc = nil
    crashed     \* an unrecovered panic ended x's process

vars == <<sdp, ice, gathered, neg, remoteDesc, remoteSet, queued, flushing,
          inHand, added, dropped, refused, pcNil, crashed>>

\* none: no Session.  turn: waiting for TURN credentials.  rtc: Session stored.
\* remote: SetRemoteDescription done.  flush: adding the queue.  local: local
\* description set, so gathering.  offered: OFFER sent.  done: negotiated.
\* over: gave up.
NegStates == {"none", "turn", "rtc", "remote", "flush", "local", "offered", "done", "over"}

TypeOK ==
    /\ sdp \in [Sides -> BOOLEAN]
    /\ ice \in [Sides -> SUBSET Cands]
    /\ gathered \in SUBSET Cands
    /\ neg \in [Sides -> NegStates]
    /\ remoteDesc \in [Sides -> BOOLEAN]
    /\ remoteSet \in [Sides -> BOOLEAN]
    /\ queued \in [Sides -> SUBSET Cands]
    /\ flushing \in [Sides -> SUBSET Cands]
    /\ inHand \in [Sides -> Cands \cup {None}]
    /\ added \in [Sides -> SUBSET Cands]
    /\ dropped \in [Sides -> SUBSET Cands]
    /\ refused \in [Sides -> SUBSET Cands]
    /\ pcNil \in [Sides -> BOOLEAN]
    /\ crashed \in BOOLEAN

Init ==
    /\ sdp = [x \in Sides |-> FALSE]
    /\ ice = [x \in Sides |-> {}]
    /\ gathered = {}
    /\ neg = [x \in Sides |-> "none"]
    /\ remoteDesc = [x \in Sides |-> FALSE]
    /\ remoteSet = [x \in Sides |-> FALSE]
    /\ queued = [x \in Sides |-> {}]
    /\ flushing = [x \in Sides |-> {}]
    /\ inHand = [x \in Sides |-> None]
    /\ added = [x \in Sides |-> {}]
    /\ dropped = [x \in Sides |-> {}]
    /\ refused = [x \in Sides |-> {}]
    /\ pcNil = [x \in Sides |-> FALSE]
    /\ crashed = FALSE

\* The signaling reader of x is free to handle the next message: it is not
\* inside AddICECandidate, and at the initiator not inside HandleAnswer either.
ReaderFree(x) ==
    /\ inHand[x] = None
    /\ x = "init" => neg[x] \notin {"remote", "flush"}

\* sess.rtc / ps.rtc has been set.
Stored(x) == neg[x] \notin {"none", "turn"}

\* It is set and Session.Close has not run.
HasSession(x) == Stored(x) /\ ~pcNil[x]

(***************************************************************************)
(* The initiator: startInitiator, handleAnswer.                            *)
(***************************************************************************)

\* Mutant: the OFFER leaves before s.rtc is set.
StartInitiatorLate ==
    /\ neg["init"] = "none" /\ ~sdp["acc"] /\ neg["acc"] = "none"
    /\ sdp' = [sdp EXCEPT !["acc"] = TRUE]
    /\ UNCHANGED <<ice, gathered, neg, remoteDesc, remoteSet, queued, flushing,
                   inHand, added, dropped, refused, pcNil, crashed>>

\* RequestTurnAuth and NewSession, then s.rtc = rtc.  An error ends the join
\* ("turn" is then final: there is no Session).
StartInitiator ==
    /\ neg["init"] = "none"
    /\ \E n \in {"rtc", "turn"} : neg' = [neg EXCEPT !["init"] = n]
    /\ UNCHANGED <<sdp, ice, gathered, remoteDesc, remoteSet, queued, flushing,
                   inHand, added, dropped, refused, pcNil, crashed>>

\* CreateOffer: the local description is set and gathering starts; an error
\* closes the session.  After a close s.pc is nil and the call panics in the
\* accept goroutine, which has no recover.
CreateOffer ==
    /\ neg["init"] = "rtc"
    /\ \/ /\ neg' = [neg EXCEPT !["init"] = "local"]
          /\ crashed' = pcNil["init"]
          /\ UNCHANGED pcNil
       \/ /\ neg' = [neg EXCEPT !["init"] = "over"]
          /\ pcNil' = [pcNil EXCEPT !["init"] = TRUE]
          /\ UNCHANGED crashed
    /\ UNCHANGED <<sdp, ice, gathered, remoteDesc, remoteSet, queued, flushing,
                   inHand, added, dropped, refused>>

\* SendClientMessage(OFFER); an error closes the session.
SendOffer ==
    /\ neg["init"] = "local"
    /\ \/ /\ neg' = [neg EXCEPT !["init"] = "offered"]
          /\ sdp' = [sdp EXCEPT !["acc"] = TRUE]
          /\ UNCHANGED pcNil
       \/ /\ neg' = [neg EXCEPT !["init"] = "over"]
          /\ pcNil' = [pcNil EXCEPT !["init"] = TRUE]
          /\ UNCHANGED sdp
    /\ UNCHANGED <<ice, gathered, remoteDesc, remoteSet, queued, flushing,
                   inHand, added, dropped, refused, crashed>>

\* handleAnswer to the end of SetRemoteDescription, in the reader; an error
\* closes the session.  On a closed Session the call panics and is recovered.
HandleAnswer ==
    /\ sdp["init"] /\ ReaderFree("init")
    /\ sdp' = [sdp EXCEPT !["init"] = FALSE]
    /\ \/ /\ HasSession("init")
          /\ neg' = [neg EXCEPT !["init"] = "remote"]
          /\ remoteDesc' = [remoteDesc EXCEPT !["init"] = TRUE]
          /\ UNCHANGED pcNil
       \/ /\ HasSession("init")
          /\ neg' = [neg EXCEPT !["init"] = "over"]
          /\ pcNil' = [pcNil EXCEPT !["init"] = TRUE]
          /\ UNCHANGED remoteDesc
       \/ ~HasSession("init") /\ UNCHANGED <<neg, remoteDesc, pcNil>>
    /\ UNCHANGED <<ice, gathered, remoteSet, queued, flushing, inHand, added,
                   dropped, refused, crashed>>

(***************************************************************************)
(* The acceptor: handleOffer, startSession.                                *)
(***************************************************************************)

\* handleOffer hands the OFFER to a goroutine that asks for TURN credentials.
ReceiveOffer ==
    /\ sdp["acc"] /\ ReaderFree("acc")
    /\ sdp' = [sdp EXCEPT !["acc"] = FALSE]
    /\ neg' = [neg EXCEPT !["acc"] = "turn"]
    /\ UNCHANGED <<ice, gathered, remoteDesc, remoteSet, queued, flushing,
                   inHand, added, dropped, refused, pcNil, crashed>>

\* RequestTurnAuth fails, or startSession registers the session and stores rtc.
StartSession ==
    /\ neg["acc"] = "turn"
    /\ \E n \in {"rtc", "none"} : neg' = [neg EXCEPT !["acc"] = n]
    /\ UNCHANGED <<sdp, ice, gathered, remoteDesc, remoteSet, queued, flushing,
                   inHand, added, dropped, refused, pcNil, crashed>>

\* Mutant: remoteSet before SetRemoteDescription has succeeded.
HandleOfferEarly ==
    /\ neg["acc"] = "rtc" /\ ~pcNil["acc"]
    /\ neg' = [neg EXCEPT !["acc"] = "remote"]
    /\ remoteSet' = [remoteSet EXCEPT !["acc"] = TRUE]
    /\ UNCHANGED <<sdp, ice, gathered, remoteDesc, queued, flushing, inHand,
                   added, dropped, refused, pcNil, crashed>>

\* HandleOffer to the end of SetRemoteDescription; an error closes the session,
\* s.pc = nil panics in a goroutine without a recover.
HandleOffer ==
    /\ neg["acc"] = "rtc"
    /\ \/ /\ ~pcNil["acc"]
          /\ neg' = [neg EXCEPT !["acc"] = "remote"]
          /\ remoteDesc' = [remoteDesc EXCEPT !["acc"] = TRUE]
          /\ UNCHANGED <<pcNil, crashed>>
       \/ /\ neg' = [neg EXCEPT !["acc"] = "over"]
          /\ pcNil' = [pcNil EXCEPT !["acc"] = TRUE]
          /\ UNCHANGED <<remoteDesc, crashed>>
       \/ /\ pcNil["acc"]
          /\ crashed' = TRUE
          /\ UNCHANGED <<neg, remoteDesc, pcNil>>
    /\ UNCHANGED <<sdp, ice, gathered, remoteSet, queued, flushing, inHand,
                   added, dropped, refused>>

\* SendClientMessage(ANSWER); an error closes the session.
SendAnswer ==
    /\ neg["acc"] = "local"
    /\ \/ /\ neg' = [neg EXCEPT !["acc"] = "done"]
          /\ sdp' = [sdp EXCEPT !["init"] = TRUE]
          /\ UNCHANGED pcNil
       \/ /\ neg' = [neg EXCEPT !["acc"] = "over"]
          /\ pcNil' = [pcNil EXCEPT !["acc"] = TRUE]
          /\ UNCHANGED sdp
    /\ UNCHANGED <<ice, gathered, remoteDesc, remoteSet, queued, flushing,
                   inHand, added, dropped, refused, crashed>>

(***************************************************************************)
(* Both ends.                                                              *)
(***************************************************************************)

\* Mutant: the flushed candidates stay in queuedICE.
TakeQueueKeeps(x) ==
    /\ neg[x] = "remote"
    /\ neg' = [neg EXCEPT ![x] = "flush"]
    /\ remoteSet' = [remoteSet EXCEPT ![x] = TRUE]
    /\ flushing' = [flushing EXCEPT ![x] = queued[x]]
    /\ UNCHANGED <<sdp, ice, gathered, remoteDesc, queued, inHand, added, dropped,
                   refused, pcNil, crashed>>

\* Mutant: queuedICE is cleared without being flushed.
TakeQueueForgets(x) ==
    /\ neg[x] = "remote"
    /\ neg' = [neg EXCEPT ![x] = "flush"]
    /\ remoteSet' = [remoteSet EXCEPT ![x] = TRUE]
    /\ queued' = [queued EXCEPT ![x] = {}]
    /\ UNCHANGED <<sdp, ice, gathered, remoteDesc, flushing, inHand, added, dropped,
                   refused, pcNil, crashed>>

\* HandleOffer / HandleAnswer, the section under s.mu.
TakeQueue(x) ==
    /\ neg[x] = "remote"
    /\ neg' = [neg EXCEPT ![x] = "flush"]
    /\ remoteSet' = [remoteSet EXCEPT ![x] = TRUE]
    /\ flushing' = [flushing EXCEPT ![x] = queued[x]]
    /\ queued' = [queued EXCEPT ![x] = {}]
    /\ UNCHANGED <<sdp, ice, gathered, remoteDesc, inHand, added, dropped,
                   refused, pcNil, crashed>>

\* One round of the flush loop.  With s.pc nil it panics: recovered by the
\* signaling client's safeCall at the initiator, not recovered at the acceptor.
FlushOne(x, c) ==
    /\ neg[x] = "flush" /\ c \in flushing[x]
    /\ IF pcNil[x]
       THEN /\ refused' = [refused EXCEPT ![x] = @ \cup flushing[x]]
            /\ flushing' = [flushing EXCEPT ![x] = {}]
            /\ neg' = [neg EXCEPT ![x] = "over"]
            /\ crashed' = (x = "acc")
            /\ UNCHANGED added
       ELSE /\ IF remoteDesc[x]
               THEN added' = [added EXCEPT ![x] = @ \cup {c}] /\ UNCHANGED refused
               ELSE refused' = [refused EXCEPT ![x] = @ \cup {c}] /\ UNCHANGED added
            /\ flushing' = [flushing EXCEPT ![x] = @ \ {c}]
            /\ UNCHANGED <<neg, crashed>>
    /\ UNCHANGED <<sdp, ice, gathered, remoteDesc, remoteSet, queued, inHand,
                   dropped, pcNil>>

\* The queue is flushed: HandleAnswer returns; HandleOffer goes on to
\* CreateAnswer and SetLocalDescription, which may fail like SetRemoteDescription.
FlushDone(x) ==
    /\ neg[x] = "flush" /\ flushing[x] = {}
    /\ \/ /\ neg' = [neg EXCEPT ![x] = IF x = "init" THEN "done" ELSE "local"]
          /\ crashed' = (x = "acc" /\ pcNil[x])
          /\ UNCHANGED pcNil
       \/ /\ x = "acc"
          /\ neg' = [neg EXCEPT ![x] = "over"]
          /\ pcNil' = [pcNil EXCEPT ![x] = TRUE]
          /\ UNCHANGED crashed
    /\ UNCHANGED <<sdp, ice, gathered, remoteDesc, remoteSet, queued, flushing,
                   inHand, added, dropped, refused>>

\* The local description is set: at the initiator before the negotiation
\* proper, at the acceptor as its last step.
LocalSet(x) ==
    \/ neg[x] \in {"local", "offered", "done"}
    \/ x = "init" /\ neg[x] \in {"remote", "flush"}

\* pion gathers a local candidate; onLocalICE sends it.
GatherCandidate(x, c) ==
    /\ LocalSet(x) /\ ~pcNil[x]
    /\ c \notin gathered
    /\ gathered' = gathered \cup {c}
    /\ ice' = [ice EXCEPT ![Peer(x)] = @ \cup {c}]
    /\ UNCHANGED <<sdp, neg, remoteDesc, remoteSet, queued, flushing, inHand,
                   added, dropped, refused, pcNil, crashed>>

\* Mutant: remoteSet is read under s.mu but the candidate is queued after it.
HandleICEUnlocked(x, c) ==
    /\ c \in ice[x] /\ ReaderFree(x) /\ HasSession(x)
    /\ ice' = [ice EXCEPT ![x] = @ \ {c}]
    /\ queued' = [queued EXCEPT ![x] = @ \cup {c}]
    /\ UNCHANGED <<sdp, gathered, neg, remoteDesc, remoteSet, flushing, inHand,
                   added, dropped, refused, pcNil, crashed>>

\* handleICE and AddRemoteICE up to s.mu.Unlock().  Without a Session the
\* candidate is discarded.  A closed hostSession has no Session any more; a
\* closed joinSession keeps it until handleIncoming returns.
HandleICE(x, c) ==
    /\ c \in ice[x] /\ ReaderFree(x)
    /\ ice' = [ice EXCEPT ![x] = @ \ {c}]
    /\ \/ /\ ~HasSession(x)
          /\ dropped' = [dropped EXCEPT ![x] = @ \cup {c}]
          /\ UNCHANGED <<queued, inHand>>
       \/ /\ Stored(x) /\ (x = "acc" => ~pcNil[x])
          /\ IF remoteSet[x]
             THEN inHand' = [inHand EXCEPT ![x] = c] /\ UNCHANGED queued
             ELSE queued' = [queued EXCEPT ![x] = @ \cup {c}] /\ UNCHANGED inHand
          /\ UNCHANGED dropped
    /\ UNCHANGED <<sdp, gathered, neg, remoteDesc, remoteSet, flushing, added,
                   refused, pcNil, crashed>>

\* AddRemoteICE after the unlock.  pion refuses a candidate without a remote
\* description; with s.pc nil the call panics and safeCall recovers it.
AddICECandidate(x) ==
    /\ inHand[x] # None
    /\ inHand' = [inHand EXCEPT ![x] = None]
    /\ IF remoteDesc[x] /\ ~pcNil[x]
       THEN added' = [added EXCEPT ![x] = @ \cup {inHand[x]}] /\ UNCHANGED refused
       ELSE refused' = [refused EXCEPT ![x] = @ \cup {inHand[x]}] /\ UNCHANGED added
    /\ UNCHANGED <<sdp, ice, gathered, neg, remoteDesc, remoteSet, queued,
                   flushing, dropped, pcNil, crashed>>

\* Session.Close: a timeout, a failed send, the peer leaving, or the user.
Close(x) ==
    /\ HasSession(x)
    /\ pcNil' = [pcNil EXCEPT ![x] = TRUE]
    /\ UNCHANGED <<sdp, ice, gathered, neg, remoteDesc, remoteSet, queued,
                   flushing, inHand, added, dropped, refused, crashed>>

Initiating == StartInitiator \/ CreateOffer \/ SendOffer \/ HandleAnswer
Accepting == ReceiveOffer \/ StartSession \/ HandleOffer \/ SendAnswer
Negotiating(x) == TakeQueue(x) \/ FlushDone(x) \/ \E c \in Cands : FlushOne(x, c)
Reading(x) == AddICECandidate(x) \/ \E c \in Cands : HandleICE(x, c)

Next ==
    /\ ~crashed
    /\ \/ Initiating
       \/ Accepting
       \/ \E x \in Sides : Negotiating(x) \/ Reading(x) \/ Close(x)
       \/ \E x \in Sides, c \in Cands : GatherCandidate(x, c)

Spec == Init /\ [][Next]_vars

\* Goroutines run, and the signaling service delivers what was sent.
Fairness ==
    /\ WF_vars(~crashed /\ Initiating)
    /\ WF_vars(~crashed /\ Accepting)
    /\ \A x \in Sides : WF_vars(~crashed /\ Negotiating(x))
    /\ \A x \in Sides : WF_vars(~crashed /\ AddICECandidate(x))
    /\ \A x \in Sides, c \in Cands : WF_vars(~crashed /\ HandleICE(x, c))

FairSpec == Spec /\ Fairness

(***************************************************************************)
(* Properties.                                                             *)
(***************************************************************************)

Ind(b) == IF b THEN 1 ELSE 0

\* The number of places of x in which candidate c is.
Copies(x, c) ==
    Ind(c \in ice[x]) + Ind(c \in queued[x]) + Ind(c \in flushing[x])
      + Ind(c = inHand[x]) + Ind(c \in added[x]) + Ind(c \in dropped[x])
      + Ind(c \in refused[x])

\* AddRemoteICE and the flush between them neither lose a candidate nor handle
\* one twice, however they interleave: every candidate that was sent is in
\* exactly one place, and no other candidate is anywhere.
CandidatesConserved ==
    \A c \in Cands : Copies("init", c) + Copies("acc", c) = Ind(c \in gathered)

\* A queue that nobody will flush any more is empty: no candidate is left
\* behind in queuedICE after the flush.
NoneLeftQueued ==
    \A x \in Sides : remoteSet[x] => queued[x] = {}

\* pion never sees a candidate before the remote description, so it refuses
\* one only when the Session has been closed.
RefusedOnlyAfterClose ==
    \A x \in Sides : refused[x] # {} => pcNil[x]

\* The initiator stores its Session before its OFFER leaves, and the acceptor
\* gathers only after that OFFER: the joiner's handleICE discards no candidate of
\* the host unless the join was closed.
InitiatorDropsNone ==
    dropped["init"] # {} => pcNil["init"]

(***************************************************************************)
(* The inductive invariant behind the safety properties.                   *)
(***************************************************************************)

\* How far the negotiation is and what the Session holds: the flush list lives
\* inside the flush, remoteSet is set after the description is, and the reader
\* holds a candidate only when remoteSet is set.
Phases ==
    \A x \in Sides :
        /\ flushing[x] # {} => neg[x] = "flush"
        /\ neg[x] \in {"remote", "flush"} => remoteDesc[x]
        /\ remoteSet[x] => remoteDesc[x]
        /\ inHand[x] # None => remoteSet[x]

\* The host does nothing before the joiner's one OFFER: until then none of its
\* messages can reach the joiner, which by then has its Session.
OfferFirst ==
    /\ (sdp["acc"] \/ neg["acc"] # "none" \/ ice["init"] # {})
         => neg["init"] \notin {"none", "turn", "rtc", "local"}
    /\ sdp["acc"] => neg["acc"] = "none"

IInv == /\ TypeOK /\ CandidatesConserved /\ NoneLeftQueued /\ Phases
        /\ OfferFirst /\ RefusedOnlyAfterClose /\ InitiatorDropsNone

\* Every candidate the host gathers is applied by the joiner in the end, unless
\* an end closes its Session or a process dies.
HostCandidatesArrive ==
    \A c \in Cands :
        c \in ice["init"]
          ~> (c \in added["init"] \/ (\E x \in Sides : pcNil[x]) \/ crashed)

================================================================================
