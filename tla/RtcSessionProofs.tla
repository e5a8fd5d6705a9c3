--------------------------- MODULE RtcSessionProofs ----------------------------
(***************************************************************************)
(* Proofs about RtcSession, for every set of candidates.  IInv is          *)
(* inductive: the conservation of candidates needs to know where the flush *)
(* list can be non-empty (Phases), the absence of refusals needs remoteSet *)
(* to imply the remote description (Phases), and the joiner's side needs   *)
(* that nothing of the host's precedes its OFFER (OfferFirst).             *)
(***************************************************************************)
EXTENDS RtcSession, TLAPS

\* The initial state satisfies the invariant: nothing has been sent.
LEMMA InitIInv == Init => IInv
<1> SUFFICES ASSUME Init PROVE IInv
  OBVIOUS
<1> USE DEF Init
<1>1. TypeOK
  BY DEF TypeOK, Sides, NegStates
<1>2. CandidatesConserved
  BY CandsAssumption DEF CandidatesConserved, Copies, Ind, Sides
<1>3. NoneLeftQueued /\ Phases /\ RefusedOnlyAfterClose
  BY DEF NoneLeftQueued, Phases, RefusedOnlyAfterClose, Sides
<1>4. OfferFirst /\ InitiatorDropsNone
  BY DEF OfferFirst, InitiatorDropsNone, Stored, Sides
<1> QED
  BY <1>1, <1>2, <1>3, <1>4 DEF IInv

\* Every step keeps the invariant: one case per operation of either end.
LEMMA NextIInv == IInv /\ [Next]_vars => IInv'
<1> SUFFICES ASSUME IInv, [Next]_vars PROVE IInv'
  OBVIOUS
<1> USE DEF IInv
<1>1. CASE StartInitiator
  <2>1. TypeOK'
    BY <1>1 DEF TypeOK, NegStates, Sides, StartInitiator
  <2>2. CandidatesConserved'
    BY <1>1, CandsAssumption DEF CandidatesConserved, Copies, Ind, TypeOK, Sides, Phases,
        StartInitiator
  <2>3. NoneLeftQueued' /\ Phases'
    BY <1>1 DEF OfferFirst, NoneLeftQueued, Phases, TypeOK, Sides, StartInitiator
  <2>4. RefusedOnlyAfterClose'
    BY <1>1 DEF RefusedOnlyAfterClose, Phases, TypeOK, Sides, StartInitiator
  <2>5. OfferFirst' /\ InitiatorDropsNone'
    BY <1>1 DEF OfferFirst, InitiatorDropsNone, TypeOK, Sides, Stored, StartInitiator
  <2> QED
    BY <2>1, <2>2, <2>3, <2>4, <2>5
<1>2. CASE CreateOffer
  <2>1. TypeOK'
    <3>1. neg' \in [Sides -> NegStates]
      BY <1>2 DEF TypeOK, NegStates, Sides, CreateOffer
    <3>2. pcNil' \in [Sides -> BOOLEAN]
      BY <1>2 DEF TypeOK, Sides, CreateOffer
    <3> QED
      BY <1>2, <3>1, <3>2 DEF TypeOK, Sides, CreateOffer
  <2>2. CandidatesConserved'
    BY <1>2, CandsAssumption DEF CandidatesConserved, Copies, Ind, TypeOK, Sides, Phases,
        CreateOffer
  <2>3. NoneLeftQueued' /\ Phases'
    BY <1>2 DEF OfferFirst, NoneLeftQueued, Phases, TypeOK, Sides, CreateOffer
  <2>4. RefusedOnlyAfterClose'
    BY <1>2 DEF RefusedOnlyAfterClose, Phases, TypeOK, Sides, CreateOffer
  <2>5. OfferFirst' /\ InitiatorDropsNone'
    BY <1>2 DEF OfferFirst, InitiatorDropsNone, TypeOK, Sides, Stored, CreateOffer
  <2> QED
    BY <2>1, <2>2, <2>3, <2>4, <2>5
<1>3. CASE SendOffer
  <2>1. TypeOK'
    <3>1. neg' \in [Sides -> NegStates]
      BY <1>3 DEF TypeOK, NegStates, Sides, SendOffer
    <3>2. sdp' \in [Sides -> BOOLEAN]
      BY <1>3 DEF TypeOK, Sides, SendOffer
    <3>3. pcNil' \in [Sides -> BOOLEAN]
      BY <1>3 DEF TypeOK, Sides, SendOffer
    <3> QED
      BY <1>3, <3>1, <3>2, <3>3 DEF TypeOK, SendOffer
  <2>2. CandidatesConserved'
    BY <1>3, CandsAssumption DEF CandidatesConserved, Copies, Ind, TypeOK, Sides, Phases,
        SendOffer
  <2>3. NoneLeftQueued' /\ Phases'
    BY <1>3 DEF OfferFirst, NoneLeftQueued, Phases, TypeOK, Sides, SendOffer
  <2>4. RefusedOnlyAfterClose'
    BY <1>3 DEF RefusedOnlyAfterClose, Phases, TypeOK, Sides, SendOffer
  <2>5. OfferFirst' /\ InitiatorDropsNone'
    BY <1>3 DEF OfferFirst, InitiatorDropsNone, TypeOK, Sides, Stored, SendOffer
  <2> QED
    BY <2>1, <2>2, <2>3, <2>4, <2>5
<1>4. CASE HandleAnswer
  <2>1. TypeOK'
    <3>1. sdp' \in [Sides -> BOOLEAN]
      BY <1>4 DEF TypeOK, Sides, HandleAnswer
    <3>2. neg' \in [Sides -> NegStates]
      BY <1>4 DEF TypeOK, NegStates, Sides, HandleAnswer
    <3>3. remoteDesc' \in [Sides -> BOOLEAN]
      BY <1>4 DEF TypeOK, Sides, HandleAnswer
    <3>4. pcNil' \in [Sides -> BOOLEAN]
      BY <1>4 DEF TypeOK, Sides, HandleAnswer
    <3> QED
      BY <1>4, <3>1, <3>2, <3>3, <3>4 DEF TypeOK, HandleAnswer
  <2>2. CandidatesConserved'
    BY <1>4, CandsAssumption DEF CandidatesConserved, Copies, Ind, TypeOK, Sides, Phases,
        HandleAnswer, HasSession, ReaderFree
  <2>3. NoneLeftQueued' /\ Phases'
    BY <1>4 DEF OfferFirst, NoneLeftQueued, Phases, TypeOK, Sides, HandleAnswer,
        HasSession, ReaderFree
  <2>4. RefusedOnlyAfterClose'
    BY <1>4 DEF RefusedOnlyAfterClose, Phases, TypeOK, Sides, HandleAnswer, HasSession,
        ReaderFree
  <2>5. OfferFirst' /\ InitiatorDropsNone'
    BY <1>4 DEF OfferFirst, InitiatorDropsNone, TypeOK, Sides, Stored, HandleAnswer,
        HasSession, ReaderFree
  <2> QED
    BY <2>1, <2>2, <2>3, <2>4, <2>5
<1>5. CASE ReceiveOffer
  <2>1. TypeOK'
    BY <1>5 DEF TypeOK, NegStates, Sides, ReceiveOffer, ReaderFree
  <2>2. CandidatesConserved'
    BY <1>5, CandsAssumption DEF CandidatesConserved, Copies, Ind, TypeOK, Sides, Phases,
        ReceiveOffer, ReaderFree
  <2>3. NoneLeftQueued' /\ Phases'
    BY <1>5 DEF OfferFirst, NoneLeftQueued, Phases, TypeOK, Sides, ReceiveOffer, ReaderFree
  <2>4. RefusedOnlyAfterClose'
    BY <1>5 DEF RefusedOnlyAfterClose, Phases, TypeOK, Sides, ReceiveOffer, ReaderFree
  <2>5. OfferFirst' /\ InitiatorDropsNone'
    BY <1>5 DEF OfferFirst, InitiatorDropsNone, TypeOK, Sides, Stored, ReceiveOffer,
        ReaderFree
  <2> QED
    BY <2>1, <2>2, <2>3, <2>4, <2>5
<1>6. CASE StartSession
  <2>1. TypeOK'
    BY <1>6 DEF TypeOK, NegStates, Sides, StartSession
  <2>2. CandidatesConserved'
    BY <1>6, CandsAssumption DEF CandidatesConserved, Copies, Ind, TypeOK, Sides, Phases,
        StartSession
  <2>3. NoneLeftQueued' /\ Phases'
    BY <1>6 DEF OfferFirst, NoneLeftQueued, Phases, TypeOK, Sides, StartSession
  <2>4. RefusedOnlyAfterClose'
    BY <1>6 DEF RefusedOnlyAfterClose, Phases, TypeOK, Sides, StartSession
  <2>5. OfferFirst' /\ InitiatorDropsNone'
    BY <1>6 DEF OfferFirst, InitiatorDropsNone, TypeOK, Sides, Stored, StartSession
  <2> QED
    BY <2>1, <2>2, <2>3, <2>4, <2>5
<1>7. CASE HandleOffer
  <2>1. TypeOK'
    <3>1. neg' \in [Sides -> NegStates]
      BY <1>7 DEF TypeOK, NegStates, Sides, HandleOffer
    <3>2. remoteDesc' \in [Sides -> BOOLEAN]
      BY <1>7 DEF TypeOK, Sides, HandleOffer
    <3>3. pcNil' \in [Sides -> BOOLEAN]
      BY <1>7 DEF TypeOK, Sides, HandleOffer
    <3> QED
      BY <1>7, <3>1, <3>2, <3>3 DEF TypeOK, Sides, HandleOffer
  <2>2. CandidatesConserved'
    BY <1>7, CandsAssumption DEF CandidatesConserved, Copies, Ind, TypeOK, Sides, Phases,
        HandleOffer
  <2>3. NoneLeftQueued' /\ Phases'
    BY <1>7 DEF OfferFirst, NoneLeftQueued, Phases, TypeOK, Sides, HandleOffer
  <2>4. RefusedOnlyAfterClose'
    BY <1>7 DEF RefusedOnlyAfterClose, Phases, TypeOK, Sides, HandleOffer
  <2>5. OfferFirst' /\ InitiatorDropsNone'
    BY <1>7 DEF OfferFirst, InitiatorDropsNone, TypeOK, Sides, Stored, HandleOffer
  <2> QED
    BY <2>1, <2>2, <2>3, <2>4, <2>5
<1>8. CASE SendAnswer
  <2>1. TypeOK'
    <3>1. neg' \in [Sides -> NegStates]
      BY <1>8 DEF TypeOK, NegStates, Sides, SendAnswer
    <3>2. sdp' \in [Sides -> BOOLEAN]
      BY <1>8 DEF TypeOK, Sides, SendAnswer
    <3>3. pcNil' \in [Sides -> BOOLEAN]
      BY <1>8 DEF TypeOK, Sides, SendAnswer
    <3> QED
      BY <1>8, <3>1, <3>2, <3>3 DEF TypeOK, SendAnswer
  <2>2. CandidatesConserved'
    BY <1>8, CandsAssumption DEF CandidatesConserved, Copies, Ind, TypeOK, Sides, Phases,
        SendAnswer
  <2>3. NoneLeftQueued' /\ Phases'
    BY <1>8 DEF OfferFirst, NoneLeftQueued, Phases, TypeOK, Sides, SendAnswer
  <2>4. RefusedOnlyAfterClose'
    BY <1>8 DEF RefusedOnlyAfterClose, Phases, TypeOK, Sides, SendAnswer
  <2>5. OfferFirst' /\ InitiatorDropsNone'
    BY <1>8 DEF OfferFirst, InitiatorDropsNone, TypeOK, Sides, Stored, SendAnswer
  <2> QED
    BY <2>1, <2>2, <2>3, <2>4, <2>5
<1>9. ASSUME NEW x \in Sides, TakeQueue(x) PROVE IInv'
  <2>1. TypeOK'
    BY <1>9 DEF TypeOK, NegStates, TakeQueue
  <2>2. CandidatesConserved'
    BY <1>9, CandsAssumption DEF CandidatesConserved, Copies, Ind, TypeOK, Sides, Phases,
        TakeQueue
  <2>3. NoneLeftQueued' /\ Phases'
    BY <1>9 DEF OfferFirst, NoneLeftQueued, Phases, TypeOK, Sides, TakeQueue
  <2>4. RefusedOnlyAfterClose'
    BY <1>9 DEF RefusedOnlyAfterClose, Phases, TypeOK, Sides, TakeQueue
  <2>5. OfferFirst' /\ InitiatorDropsNone'
    BY <1>9 DEF OfferFirst, InitiatorDropsNone, TypeOK, Sides, Stored, TakeQueue
  <2> QED
    BY <2>1, <2>2, <2>3, <2>4, <2>5
<1>10. ASSUME NEW x \in Sides, FlushDone(x) PROVE IInv'
  <2>1. TypeOK'
    <3>1. neg' \in [Sides -> NegStates]
      BY <1>10 DEF TypeOK, NegStates, Sides, FlushDone
    <3>2. pcNil' \in [Sides -> BOOLEAN]
      BY ZenonT(40), <1>10 DEF TypeOK, Sides, FlushDone
    <3>3. crashed' \in BOOLEAN
      BY <1>10 DEF TypeOK, FlushDone
    <3> QED
      BY <1>10, <3>1, <3>2, <3>3 DEF TypeOK, FlushDone
  <2>2. CandidatesConserved'
    BY <1>10, CandsAssumption DEF CandidatesConserved, Copies, Ind, TypeOK, Sides,
        Phases, FlushDone
  <2>3. NoneLeftQueued' /\ Phases'
    BY <1>10 DEF OfferFirst, NoneLeftQueued, Phases, TypeOK, Sides, FlushDone
  <2>4. RefusedOnlyAfterClose'
    BY <1>10 DEF RefusedOnlyAfterClose, Phases, TypeOK, Sides, FlushDone
  <2>5. OfferFirst' /\ InitiatorDropsNone'
    BY <1>10 DEF OfferFirst, InitiatorDropsNone, TypeOK, Sides, Stored, FlushDone
  <2> QED
    BY <2>1, <2>2, <2>3, <2>4, <2>5
<1>11. ASSUME NEW x \in Sides, NEW c \in Cands, FlushOne(x, c) PROVE IInv'
  <2>1. TypeOK'
    <3>1. neg' \in [Sides -> NegStates]
      BY <1>11 DEF TypeOK, NegStates, Sides, FlushOne
    <3>2. /\ refused' \in [Sides -> SUBSET Cands]
          /\ added' \in [Sides -> SUBSET Cands]
          /\ flushing' \in [Sides -> SUBSET Cands]
      BY <1>11 DEF TypeOK, FlushOne
    <3>3. crashed' \in BOOLEAN
      BY <1>11 DEF TypeOK, FlushOne
    <3> QED
      BY <1>11, <3>1, <3>2, <3>3 DEF TypeOK, FlushOne
  <2>2. CandidatesConserved'
    BY <1>11, CandsAssumption DEF CandidatesConserved, Copies, Ind, TypeOK, Sides,
        Phases, FlushOne
  <2>3. NoneLeftQueued' /\ Phases'
    BY <1>11 DEF OfferFirst, NoneLeftQueued, Phases, TypeOK, Sides, FlushOne
  <2>4. RefusedOnlyAfterClose'
    BY <1>11 DEF RefusedOnlyAfterClose, Phases, TypeOK, Sides, FlushOne
  <2>5. OfferFirst' /\ InitiatorDropsNone'
    BY <1>11 DEF OfferFirst, InitiatorDropsNone, TypeOK, Sides, Stored, FlushOne
  <2> QED
    BY <2>1, <2>2, <2>3, <2>4, <2>5
<1>12. ASSUME NEW x \in Sides, AddICECandidate(x) PROVE IInv'
  <2>1. TypeOK'
    BY <1>12 DEF TypeOK, NegStates, AddICECandidate
  <2>2. CandidatesConserved'
    BY <1>12, CandsAssumption DEF CandidatesConserved, Copies, Ind, TypeOK, Sides,
        Phases, AddICECandidate
  <2>3. NoneLeftQueued' /\ Phases'
    BY <1>12 DEF OfferFirst, NoneLeftQueued, Phases, TypeOK, Sides, AddICECandidate
  <2>4. RefusedOnlyAfterClose'
    BY <1>12 DEF RefusedOnlyAfterClose, Phases, TypeOK, Sides, AddICECandidate
  <2>5. OfferFirst' /\ InitiatorDropsNone'
    BY <1>12 DEF OfferFirst, InitiatorDropsNone, TypeOK, Sides, Stored, AddICECandidate
  <2> QED
    BY <2>1, <2>2, <2>3, <2>4, <2>5
<1>13. ASSUME NEW x \in Sides, NEW c \in Cands, HandleICE(x, c) PROVE IInv'
  <2>1. TypeOK'
    BY <1>13 DEF TypeOK, NegStates, HandleICE, HasSession, ReaderFree, Stored
  <2>2. CandidatesConserved'
    BY <1>13, CandsAssumption DEF CandidatesConserved, Copies, Ind, TypeOK, Sides,
        Phases, HandleICE, HasSession, ReaderFree, Stored
  <2>3. NoneLeftQueued' /\ Phases'
    BY <1>13 DEF OfferFirst, NoneLeftQueued, Phases, TypeOK, Sides, HandleICE,
        HasSession, ReaderFree, Stored
  <2>4. RefusedOnlyAfterClose'
    BY <1>13 DEF RefusedOnlyAfterClose, Phases, TypeOK, Sides, HandleICE, HasSession,
        ReaderFree, Stored
  <2>5. OfferFirst' /\ InitiatorDropsNone'
    BY <1>13 DEF OfferFirst, InitiatorDropsNone, TypeOK, Sides, HandleICE, HasSession,
        ReaderFree, Stored
  <2> QED
    BY <2>1, <2>2, <2>3, <2>4, <2>5
<1>14. ASSUME NEW x \in Sides, Close(x) PROVE IInv'
  <2>1. TypeOK'
    BY <1>14 DEF TypeOK, NegStates, Close, HasSession, Stored
  <2>2. CandidatesConserved'
    BY <1>14, CandsAssumption DEF CandidatesConserved, Copies, Ind, TypeOK, Sides,
        Phases, Close, HasSession, Stored
  <2>3. NoneLeftQueued' /\ Phases'
    BY <1>14 DEF OfferFirst, NoneLeftQueued, Phases, TypeOK, Sides, Close, HasSession,
        Stored
  <2>4. RefusedOnlyAfterClose'
    BY <1>14 DEF RefusedOnlyAfterClose, Phases, TypeOK, Sides, Close, HasSession, Stored
  <2>5. OfferFirst' /\ InitiatorDropsNone'
    BY <1>14 DEF OfferFirst, InitiatorDropsNone, TypeOK, Sides, Close, HasSession, Stored
  <2> QED
    BY <2>1, <2>2, <2>3, <2>4, <2>5
<1>15. ASSUME NEW x \in Sides, NEW c \in Cands, GatherCandidate(x, c) PROVE IInv'
  <2>1. TypeOK'
    <3>1. gathered' \in SUBSET Cands
      BY <1>15 DEF TypeOK, GatherCandidate
    <3>2. ice' \in [Sides -> SUBSET Cands]
      BY <1>15 DEF TypeOK, GatherCandidate
    <3> QED
      BY <1>15, <3>1, <3>2 DEF TypeOK, GatherCandidate
  <2>2. CandidatesConserved'
    BY <1>15, CandsAssumption DEF CandidatesConserved, Copies, Ind, TypeOK, Sides,
        Phases, GatherCandidate, LocalSet, Peer
  <2>3. NoneLeftQueued' /\ Phases'
    BY <1>15 DEF OfferFirst, NoneLeftQueued, Phases, TypeOK, Sides, GatherCandidate,
        LocalSet, Peer
  <2>4. RefusedOnlyAfterClose'
    BY <1>15 DEF RefusedOnlyAfterClose, Phases, TypeOK, Sides, GatherCandidate, LocalSet,
        Peer
  <2>5. OfferFirst' /\ InitiatorDropsNone'
    BY <1>15 DEF OfferFirst, InitiatorDropsNone, TypeOK, Sides, Stored, GatherCandidate,
        LocalSet, Peer
  <2> QED
    BY <2>1, <2>2, <2>3, <2>4, <2>5
<1>16. CASE UNCHANGED vars
  BY <1>16 DEF vars, TypeOK, CandidatesConserved, NoneLeftQueued, Phases, OfferFirst,
     RefusedOnlyAfterClose, InitiatorDropsNone, Copies, Stored
<1> QED
  BY <1>1, <1>2, <1>3, <1>4, <1>5, <1>6, <1>7, <1>8, <1>9, <1>10, <1>11, <1>12, <1>13,
      <1>14, <1>15, <1>16
     DEF Next, Initiating, Accepting, Negotiating, Reading

\* IInv holds in every reachable state, whatever the candidates are.
THEOREM Invariance == Spec => []IInv
  BY InitIInv, NextIInv, PTL DEF Spec

\* The state of both ends, which HandleOffer, HandleAnswer and AddRemoteICE
\* (session.go) update between them, keeps its type.
THEOREM TypeCorrect == Spec => []TypeOK
  BY Invariance, PTL DEF IInv

\* AddRemoteICE (session.go) and the flush of HandleOffer / HandleAnswer neither
\* lose nor duplicate a candidate, for any number of candidates and interleaving.
THEOREM CandidatesAreConserved == Spec => []CandidatesConserved
  BY Invariance, PTL DEF IInv

\* After the flush queuedICE stays empty, so no candidate waits for a second one.
THEOREM QueueStaysEmpty == Spec => []NoneLeftQueued
  BY Invariance, PTL DEF IInv

\* AddICECandidate fails for want of a remote description in no interleaving.
THEOREM RefusalMeansClosed == Spec => []RefusedOnlyAfterClose
  BY Invariance, PTL DEF IInv

\* The joiner's handleICE always finds the Session the host's candidates are for,
\* until the join is closed.
THEOREM JoinerDropsNone == Spec => []InitiatorDropsNone
  BY Invariance, PTL DEF IInv

================================================================================
