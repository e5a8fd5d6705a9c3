-------------------------------- MODULE Watches --------------------------------
(***************************************************************************)
(* The two watches with one specification.  They share watchState.mu and   *)
(* nothing else, so a behaviour is one of the friends watch or one of the  *)
(* presence watch.  A friends behaviour is followed up to its first race,  *)
(* after which nothing is claimed about it.                                *)
(***************************************************************************)
EXTENDS FriendsWatch, PresenceWatch

vars == <<loopVars, friendsVars, presenceVars>>

TypeOK == LoopTypeOK /\ FriendsTypeOK /\ PresenceTypeOK

Init == LoopInit /\ FriendsInit /\ PresenceInit
        /\ (kind = "presence" => etag = NoETag /\ cache = Nil)

Next ==
    \/ kind = "friends" /\ ~raced /\ FriendsNext /\ UNCHANGED presenceVars
    \/ kind = "presence" /\ PresenceNext /\ UNCHANGED friendsVars

Spec == Init /\ [][Next]_vars

\* A step of the friends (presence) watch with the other left alone.
F(A) == kind = "friends" /\ ~raced /\ A /\ UNCHANGED presenceVars
P(A) == kind = "presence" /\ A /\ UNCHANGED friendsVars

\* Goroutines run, calls end, time passes.  A service that is asked again and
\* again answers at some time, and select takes a ready stop at some time.
Fairness ==
    /\ WF_vars(F(CooldownEnds) \/ P(CooldownOver)) /\ WF_vars(P(Ages))
    /\ \A k \in Loops :
          /\ WF_vars(F(TickStep(k) \/ CallStep(k)) \/ P(PresenceTickStep(k) \/ PostStep(k)))
          /\ SF_vars(F(Answer(k)) \/ P(PostOk(k)))
    /\ \A r \in Requests :
          WF_vars(F(CallStep(r)) \/ P(PostStep(r) \/ PresenceRequestStep(r)))
    /\ WF_vars(P(Announce \/ AnnounceOk \/ AnnounceFails)) /\ SF_vars(P(AnnounceOk))

FairSpec == Spec /\ Fairness

================================================================================
