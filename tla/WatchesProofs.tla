------------------------------ MODULE WatchesProofs ------------------------------
(***************************************************************************)
(* Proof that unwatch reaches every loop, for any number of loops and      *)
(* requests.  A step of a watch other than watch, unwatch and the end of a *)
(* loop neither starts nor ends a loop (Quiet), so only the steps of       *)
(* WatchLoop matter for the invariant.  The second part proves that        *)
(* observer, Refresher and API client agree until calls overlap.           *)
(***************************************************************************)
EXTENDS Watches, TLAPS

\* The loop that unwatch would stop has been started and nobody has stopped it;
\* a name that is free has been forgotten by whoever stopped its last loop.
Handed ==
    /\ watching => cur \in Loops /\ at[cur] # "none" /\ cur \notin stopped /\ cur \notin awaited
    /\ \A k \in Loops : at[k] = "none" => k \notin stopped /\ k \notin awaited

\* at is a function on the actors.
AtType == at = [a \in Actors |-> at[a]]

\* The inductive invariant.
IInv == AtType /\ Handed /\ LoopsStoppable

\* A step that leaves the life cycle of every loop alone.
Quiet ==
    /\ UNCHANGED <<watching, cur, stopped, awaited>>
    /\ AtType'
    /\ \A k \in Loops : at'[k] = at[k] \/ (Live(k) /\ at'[k] \notin {"none", "done"})

\* A quiet step keeps the invariant.
LEMMA QuietKeeps ==
    ASSUME IInv, Quiet
    PROVE  IInv'
BY DEF IInv, Quiet, AtType, Handed, LoopsStoppable, Live

\* Leaving the life cycle and every stage alone is quiet ...
LEMMA StillQuiet ==
    ASSUME AtType, UNCHANGED <<watching, cur, stopped, awaited, at>>
    PROVE  Quiet
BY DEF Quiet, AtType

\* ... as is moving an actor between two stages in which a loop is alive ...
LEMMA MoveQuiet ==
    ASSUME AtType, NEW a \in Actors, NEW s,
           at[a] \notin {"none", "done"}, s \notin {"none", "done"}, Moves(a, s)
    PROVE  Quiet
BY DEF Quiet, AtType, Moves, Goes, Live, Actors

\* ... and so is every move of a request.
LEMMA RequestQuiet ==
    ASSUME AtType, NEW r \in Requests, NEW s, Moves(r, s) \/ Calls(r, s)
    PROVE  Quiet
BY ActorsAssumption DEF Quiet, AtType, Moves, Calls, Goes, Live, Actors

\* friends.watch, friends.unwatch and the end of a loop (and the presence ones).
LEMMA LoopStepKeeps ==
    ASSUME IInv, LoopStep
    PROVE  IInv'
<1> USE DEF IInv, AtType, Handed, LoopsStoppable, Live, Goes, Actors
<1>1. CASE Unwatch
  BY <1>1 DEF Unwatch
<1>2. ASSUME NEW k \in Loops, Watch(k)
      PROVE  IInv'
  BY <1>2 DEF Watch
<1>3. ASSUME NEW k \in Loops, Unwatched(k)
      PROVE  IInv'
  BY <1>3 DEF Unwatched
<1>4. ASSUME NEW k \in Loops, LoopEnds(k)
      PROVE  IInv'
  BY <1>4 DEF LoopEnds
<1>5. QED
  BY <1>1, <1>2, <1>3, <1>4 DEF LoopStep

\* GetFriends and PutFriendAction, called by a loop or a request.
LEMMA CallStepQuiet ==
    ASSUME AtType, NEW a \in Actors, CallStep(a)
    PROVE  Quiet
<1>1. CASE CallCached(a)
  BY <1>1, MoveQuiet DEF CallCached, Back
<1>2. CASE CallGet(a)
  BY <1>2, MoveQuiet DEF CallGet
<1>3. CASE Answer(a)
  BY <1>3, MoveQuiet DEF Answer
<1>4. CASE AnswerFails(a)
  BY <1>4, MoveQuiet DEF AnswerFails, Back
<1>5. CASE Store(a)
  BY <1>5, MoveQuiet DEF Store, Back
<1>6. CASE Put(a)
  BY <1>6, MoveQuiet DEF Put
<1>7. CASE PutFails(a)
  BY <1>7, MoveQuiet DEF PutFails
<1>8. CASE PutDone(a)
  BY <1>8, MoveQuiet DEF PutDone
<1>9. QED
  BY <1>1, <1>2, <1>3, <1>4, <1>5, <1>6, <1>7, <1>8 DEF CallStep

\* runFriendsWatch and Refresher.tick.
LEMMA TickStepQuiet ==
    ASSUME AtType, NEW k \in Loops, TickStep(k)
    PROVE  Quiet
<1>0. k \in Actors
  BY DEF Actors
<1>1. CASE FriendsLoopStarts(k)
  BY <1>0, <1>1, MoveQuiet DEF FriendsLoopStarts
<1>2. CASE FriendsWakes(k)
  BY <1>0, <1>2, MoveQuiet DEF FriendsWakes
<1>3. CASE FriendsTick(k)
  BY <1>0, <1>3, MoveQuiet DEF FriendsTick
<1>4. CASE Diff(k)
  BY <1>0, <1>4, MoveQuiet DEF Diff
<1>5. CASE DiffWrites(k)
  BY <1>0, <1>5, MoveQuiet DEF DiffWrites
<1>6. QED
  BY <1>1, <1>2, <1>3, <1>4, <1>5 DEF TickStep

\* PostPresence, called by a loop or a request.
LEMMA PostStepQuiet ==
    ASSUME AtType, NEW a \in Actors, PostStep(a)
    PROVE  Quiet
<1> USE DEF Sends, Succeeds, Fails
<1>1. CASE PostCached(a)
  BY <1>1, MoveQuiet DEF PostCached
<1>2. CASE PostOk(a)
  BY <1>2, MoveQuiet DEF PostOk
<1>3. CASE PostFails(a)
  BY <1>3, MoveQuiet DEF PostFails
<1>4. QED
  BY <1>1, <1>2, <1>3 DEF PostStep

\* runPresenceWatch.
LEMMA PresenceTickStepQuiet ==
    ASSUME AtType, NEW k \in Loops, PresenceTickStep(k)
    PROVE  Quiet
<1>0. k \in Actors
  BY DEF Actors
<1>1. CASE PresenceLoopStarts(k)
  BY <1>0, <1>1, MoveQuiet DEF PresenceLoopStarts
<1>2. CASE PresenceWakes(k)
  BY <1>0, <1>2, MoveQuiet DEF PresenceWakes
<1>3. CASE PresenceTick(k)
  BY <1>0, <1>3, MoveQuiet DEF PresenceTick
<1>4. CASE PresenceRecord(k)
  BY <1>0, <1>4, MoveQuiet DEF PresenceRecord
<1>5. QED
  BY <1>1, <1>2, <1>3, <1>4 DEF PresenceTickStep

\* A step of the friends watch.
LEMMA FriendsNextKeeps ==
    ASSUME IInv, FriendsNext
    PROVE  IInv'
<1>0. AtType
  BY DEF IInv
<1>1. CASE FriendsLoopStep
  BY <1>1, LoopStepKeeps DEF FriendsLoopStep
<1>2. CASE ListChanges \/ CooldownEnds
  BY <1>0, <1>2, StillQuiet, QuietKeeps DEF ListChanges, CooldownEnds, loopVars
<1>3. CASE \E a \in Actors : CallStep(a)
  BY <1>0, <1>3, CallStepQuiet, QuietKeeps
<1>4. CASE \E k \in Loops : TickStep(k)
  BY <1>0, <1>4, TickStepQuiet, QuietKeeps
<1>5. ASSUME NEW r \in Requests,
             FriendsList(r) \/ FriendsAction(r) \/ FriendsSetAutoAccept(r) \/ ResetCache(r)
      PROVE  IInv'
  <2>1. CASE FriendsSetAutoAccept(r)
    BY <1>0, <2>1, StillQuiet, QuietKeeps DEF FriendsSetAutoAccept, loopVars
  <2>2. CASE FriendsList(r)
    BY <1>0, <2>2, RequestQuiet, QuietKeeps DEF FriendsList
  <2>3. CASE FriendsAction(r)
    BY <1>0, <2>3, RequestQuiet, QuietKeeps DEF FriendsAction
  <2>4. CASE ResetCache(r)
    BY <1>0, <2>4, RequestQuiet, QuietKeeps DEF ResetCache
  <2>5. QED
    BY <1>5, <2>1, <2>2, <2>3, <2>4
<1>6. QED
  BY <1>1, <1>2, <1>3, <1>4, <1>5 DEF FriendsNext

\* A step of the presence watch.
LEMMA PresenceNextKeeps ==
    ASSUME IInv, PresenceNext
    PROVE  IInv'
<1>0. AtType
  BY DEF IInv
<1>1. CASE LoopStep
  BY <1>1, LoopStepKeeps
<1>2. CASE CooldownOver \/ Ages \/ Announce \/ AnnounceOk \/ AnnounceFails
  BY <1>0, <1>2, StillQuiet, QuietKeeps
     DEF CooldownOver, Ages, Announce, AnnounceOk, AnnounceFails, loopVars
<1>3. CASE \E a \in Actors : PostStep(a)
  BY <1>0, <1>3, PostStepQuiet, QuietKeeps
<1>4. CASE \E k \in Loops : PresenceTickStep(k)
  BY <1>0, <1>4, PresenceTickStepQuiet, QuietKeeps
<1>5. ASSUME NEW r \in Requests,
             \/ \E s \in Statuses : PresenceSet(r, s)
             \/ ResolvePost(r) \/ HostStarts(r) \/ HostStops(r)
             \/ PresenceRequestStep(r)
      PROVE  IInv'
  <2>1. CASE \E s \in Statuses : PresenceSet(r, s)
    BY <1>0, <2>1, RequestQuiet, QuietKeeps DEF PresenceSet
  <2>2. CASE ResolvePost(r)
    BY <1>0, <2>2, RequestQuiet, QuietKeeps DEF ResolvePost
  <2>3. CASE HostStarts(r)
    BY <1>0, <2>3, RequestQuiet, QuietKeeps DEF HostStarts
  <2>4. CASE HostStops(r)
    BY <1>0, <2>4, RequestQuiet, QuietKeeps DEF HostStops
  <2>5. CASE PresenceSetDone(r)
    BY <1>0, <2>5, RequestQuiet, QuietKeeps DEF PresenceSetDone
  <2>6. CASE HostStopped(r)
    BY <1>0, <2>6, RequestQuiet, QuietKeeps DEF HostStopped
  <2>7. QED
    BY <1>5, <2>1, <2>2, <2>3, <2>4, <2>5, <2>6 DEF PresenceRequestStep
<1>6. QED
  BY <1>1, <1>2, <1>3, <1>4, <1>5 DEF PresenceNext

\* However many times the watches are turned on and off, and whatever their
\* requests do in between, no loop runs that unwatch cannot stop: it is the one
\* friendsStop (presenceStop) belongs to, or it is stopped and waited for.
THEOREM UnwatchReachesEveryLoop == Spec => []LoopsStoppable
<1>1. Init => IInv
  BY DEF Init, LoopInit, IInv, AtType, Handed, LoopsStoppable, Live, Actors
<1>2. IInv /\ [Next]_vars => IInv'
  <2> SUFFICES ASSUME IInv, [Next]_vars
               PROVE  IInv'
    OBVIOUS
  <2>1. CASE Next
    BY <2>1, FriendsNextKeeps, PresenceNextKeeps DEF Next
  <2>2. CASE UNCHANGED vars
    BY <2>2, StillQuiet, QuietKeeps DEF vars, loopVars, IInv
  <2>3. QED
    BY <2>1, <2>2
<1>3. IInv => LoopsStoppable
  BY DEF IInv
<1>4. QED
  BY <1>1, <1>2, <1>3, PTL DEF Spec

(***************************************************************************)
(* The friends watch before its first race.                                *)
(***************************************************************************)

\* One loop ticks, and one GET is under way.
OneLoop == \A k, l \in Loops : Live(k) /\ Live(l) => k = l
OneGet == \A a, b \in InGet : a = b

\* The ETag a GET carries still names the cached list.
Carried == \A a \in InGet : etagIn[a] # NoETag => cache = etagIn[a]

\* Between its two critical sections applyDiff has told the list it will record.
Told == \A k \in Loops : at[k] \in {"put", "clear", "write"} => view = resp[k]

FriendsOK == OneLoop /\ OneGet /\ Carried /\ CacheHasItsETag /\ Told /\ ViewFollows

\* etagIn and resp are functions on the actors.
GetType == etagIn = [a \in Actors |-> etagIn[a]] /\ resp = [a \in Actors |-> resp[a]]

\* The inductive invariant.
FInv == AtType /\ GetType /\ (kind = "friends" /\ ~raced => FriendsOK)

\* A step that moves one actor between stages outside a GET and outside applyDiff,
\* and leaves the list, its cache and what was told alone.
LEMMA PlainMove ==
    ASSUME FInv, kind = "friends", ~raced, NEW a \in Actors, NEW s,
           at' = [at EXCEPT ![a] = s], UNCHANGED <<kind, etagIn, resp, known, primed, view>>,
           s \notin {"get", "got"},
           a \in Loops => at[a] \notin {"none", "done"},
           a \in Loops /\ s \in {"put", "clear", "write"} => at[a] \in {"put", "clear", "write"},
           a \in Loops /\ at[a] \in {"put", "clear", "write"} => s \in {"put", "clear", "write"},
           \/ etag' = NoETag /\ (cache' = cache \/ InGet = {})
           \/ UNCHANGED <<etag, cache>>
    PROVE  FInv'
<1> USE DEF FInv, AtType, GetType, Actors
<1>1. AtType' /\ GetType' /\ FriendsOK
  OBVIOUS
<1>2. OneLoop'
  BY <1>1, ActorsAssumption DEF FriendsOK, OneLoop, Live
<1>3. InGet' \subseteq InGet
  BY <1>1 DEF InGet
<1>4. OneGet' /\ Carried' /\ CacheHasItsETag'
  BY <1>1, <1>3 DEF FriendsOK, OneGet, Carried, CacheHasItsETag
<1>5. Told'
  BY <1>1, ActorsAssumption DEF FriendsOK, Told
<1>6. ViewFollows'
  BY <1>1, ActorsAssumption DEF FriendsOK, ViewFollows
<1>7. QED
  BY <1>1, <1>2, <1>4, <1>5, <1>6 DEF FriendsOK

\* Turning the watch on and off.  A loop started while another one runs is a race.
LEMMA FriendsLoopStepKeeps ==
    ASSUME FInv, kind = "friends", ~raced, FriendsLoopStep
    PROVE  FInv'
<1> USE DEF FInv, AtType, GetType, Actors, Goes
<1>0. FriendsOK
  OBVIOUS
<1>1. CASE Unwatch
  <2>1. UNCHANGED <<kind, at, etag, cache, etagIn, resp, known, primed, view>>
    BY <1>1 DEF FriendsLoopStep, Unwatch, clientVars, refresherVars
  <2>2. QED
    BY <1>0, <2>1 DEF FriendsOK, OneLoop, OneGet, InGet, Carried, CacheHasItsETag, Told,
                       ViewFollows, Live
<1>2. ASSUME NEW k \in Loops, Watch(k)
      PROVE  FInv'
  <2>1. /\ UNCHANGED <<kind, etag, cache, etagIn, resp, known, primed, view>>
        /\ ~watching /\ watching' /\ at[k] = "none" /\ at' = [at EXCEPT ![k] = "new"]
    BY <1>2 DEF FriendsLoopStep, Watch, clientVars, refresherVars
  <2>2. AtType' /\ GetType'
    BY <2>1
  <2>3. raced' \/ \A l \in Loops : ~Live(l)
    BY <2>1 DEF FriendsLoopStep
  <2>4. ASSUME ~raced'
        PROVE  FriendsOK'
    <3>1. OneLoop'
      BY <2>1, <2>3, <2>4 DEF OneLoop, Live
    <3>2. InGet' \subseteq InGet
      BY <2>1 DEF InGet
    <3>3. OneGet' /\ Carried' /\ CacheHasItsETag'
      BY <1>0, <2>1, <3>2 DEF FriendsOK, OneGet, Carried, CacheHasItsETag
    <3>4. Told' /\ ViewFollows'
      BY <1>0, <2>1 DEF FriendsOK, Told, ViewFollows
    <3>5. QED
      BY <3>1, <3>3, <3>4 DEF FriendsOK
  <2>5. QED
    BY <2>2, <2>4
<1>3. ASSUME NEW k \in Loops, Unwatched(k) \/ LoopEnds(k)
      PROVE  FInv'
  <2>1. /\ UNCHANGED <<kind, etag, cache, etagIn, resp, known, primed, view>>
        /\ at[k] \in {"done", "wait"}
        /\ \E s \in {"none", "done"} : at' = [at EXCEPT ![k] = s]
    BY <1>3 DEF FriendsLoopStep, Unwatched, LoopEnds, clientVars, refresherVars
  <2>2. AtType' /\ GetType'
    BY <2>1
  <2>3. OneLoop'
    BY <1>0, <2>1 DEF FriendsOK, OneLoop, Live
  <2>4. InGet' \subseteq InGet
    BY <2>1 DEF InGet
  <2>5. OneGet' /\ Carried' /\ CacheHasItsETag'
    BY <1>0, <2>1, <2>4 DEF FriendsOK, OneGet, Carried, CacheHasItsETag
  <2>6. Told' /\ ViewFollows'
    BY <1>0, <2>1 DEF FriendsOK, Told, ViewFollows
  <2>7. QED
    BY <2>2, <2>3, <2>5, <2>6 DEF FriendsOK
<1>4. QED
  BY <1>1, <1>2, <1>3 DEF FriendsLoopStep, LoopStep

\* A step of GetFriends that ends or advances the GET of actor a, or answers from the
\* cache: it says nothing to the observer, and the ETag stays the cached list's.
LEMMA GetMove ==
    ASSUME FInv, kind = "friends", ~raced, NEW a \in Actors, NEW s,
           at' = [at EXCEPT ![a] = s], UNCHANGED <<kind, known, primed, view>>,
           at[a] \in {"call", "get", "got"},
           s \in {"get", "got", "diff", "wait", "idle"},
           GetType', \A b \in Actors \ {a} : etagIn'[b] = etagIn[b] /\ resp'[b] = resp[b],
           OneGet', Carried', CacheHasItsETag'
    PROVE  FInv'
<1> USE DEF FInv, AtType, Actors
<1>1. AtType' /\ FriendsOK
  OBVIOUS
<1>2. OneLoop'
  BY <1>1 DEF FriendsOK, OneLoop, Live
<1>3. Told'
  BY <1>1 DEF FriendsOK, Told
<1>4. ViewFollows'
  BY <1>1 DEF FriendsOK, ViewFollows
<1>5. QED
  BY <1>1, <1>2, <1>3, <1>4 DEF FriendsOK

\* Client.GetFriends.
LEMMA GetStepKeeps ==
    ASSUME FInv, kind = "friends", ~raced, NEW a \in Actors,
           CallCached(a) \/ CallGet(a) \/ Answer(a) \/ AnswerFails(a) \/ Store(a)
    PROVE  FInv'
<1> USE DEF Moves, Goes, Back, Forget, clientVars, refresherVars
<1>0. AtType /\ GetType /\ FriendsOK
  BY DEF FInv
<1>1. CASE CallCached(a)
  <2>1. \E s \in {"diff", "wait", "idle"} :
           /\ at' = [at EXCEPT ![a] = s] /\ UNCHANGED <<kind, known, primed, view>>
           /\ at[a] = "call" /\ UNCHANGED <<etag, cache, etagIn>>
    BY <1>1 DEF CallCached
  <2>2. GetType' /\ \A b \in Actors \ {a} : etagIn'[b] = etagIn[b] /\ resp'[b] = resp[b]
    BY <1>0, <1>1 DEF CallCached, GetType
  <2>3. InGet' \subseteq InGet
    BY <1>0, <2>1 DEF InGet, AtType
  <2>4. OneGet' /\ Carried' /\ CacheHasItsETag'
    BY <1>0, <2>1, <2>3 DEF FriendsOK, OneGet, Carried, CacheHasItsETag
  <2>5. QED
    BY <2>1, <2>2, <2>4, GetMove
<1>2. CASE CallGet(a)
  <2>1. /\ at' = [at EXCEPT ![a] = "get"] /\ UNCHANGED <<kind, known, primed, view>>
        /\ at[a] = "call" /\ UNCHANGED <<etag, cache, resp>>
        /\ etagIn' = [etagIn EXCEPT ![a] = etag]
    BY <1>2 DEF CallGet
  <2>2. GetType' /\ \A b \in Actors \ {a} : etagIn'[b] = etagIn[b] /\ resp'[b] = resp[b]
    BY <1>0, <2>1 DEF GetType
  <2>3. CASE InGet = {}
    <3>1. \A b \in InGet' : b = a
      BY <1>0, <2>1, <2>3 DEF InGet, AtType
    <3>2. OneGet' /\ Carried' /\ CacheHasItsETag'
      BY <1>0, <2>1, <3>1 DEF FriendsOK, GetType, OneGet, Carried, CacheHasItsETag
    <3>3. QED
      BY <2>1, <2>2, <3>2, GetMove
  <2>4. CASE InGet # {}
    <3>1. raced'
      BY <1>2, <2>4 DEF CallGet
    <3>2. QED
      BY <1>0, <2>1, <2>2, <3>1 DEF FInv, AtType
  <2>5. QED
    BY <2>3, <2>4
<1>3. CASE Answer(a)
  <2>1. /\ at' = [at EXCEPT ![a] = "got"] /\ UNCHANGED <<kind, known, primed, view>>
        /\ at[a] = "get" /\ UNCHANGED <<etag, cache, etagIn>>
    BY <1>3 DEF Answer
  <2>2. GetType' /\ \A b \in Actors \ {a} : etagIn'[b] = etagIn[b] /\ resp'[b] = resp[b]
    BY <1>0, <1>3 DEF Answer, GetType
  <2>3. InGet' = InGet
    BY <1>0, <2>1 DEF InGet, AtType
  <2>4. OneGet' /\ Carried' /\ CacheHasItsETag'
    BY <1>0, <2>1, <2>3 DEF FriendsOK, OneGet, Carried, CacheHasItsETag
  <2>5. QED
    BY <2>1, <2>2, <2>4, GetMove
<1>4. CASE AnswerFails(a)
  <2>1. \E s \in {"wait", "idle"} :
           /\ at' = [at EXCEPT ![a] = s] /\ UNCHANGED <<kind, known, primed, view>>
           /\ at[a] = "get" /\ UNCHANGED <<etag, cache>>
    BY <1>4 DEF AnswerFails
  <2>2. GetType' /\ \A b \in Actors \ {a} : etagIn'[b] = etagIn[b] /\ resp'[b] = resp[b]
    BY <1>0, <1>4 DEF AnswerFails, GetType
  <2>3. InGet' \subseteq InGet \ {a}
    BY <1>0, <2>1 DEF InGet, AtType
  <2>4. OneGet' /\ Carried' /\ CacheHasItsETag'
    BY <1>0, <2>1, <2>2, <2>3 DEF FriendsOK, OneGet, Carried, CacheHasItsETag, InGet
  <2>5. QED
    BY <2>1, <2>2, <2>4, GetMove
<1>5. CASE Store(a)
  <2>1. \E s \in {"diff", "wait", "idle"} :
           /\ at' = [at EXCEPT ![a] = s] /\ UNCHANGED <<kind, known, primed, view>>
           /\ at[a] = "got"
    BY <1>5 DEF Store
  <2>2. GetType' /\ \A b \in Actors \ {a} : etagIn'[b] = etagIn[b] /\ resp'[b] = resp[b]
    BY <1>0, <1>5 DEF Store, GetType
  <2>3. a \in InGet
    BY <2>1 DEF InGet
  <2>4. InGet' = {}
    BY <1>0, <2>1, <2>3 DEF FriendsOK, OneGet, InGet, AtType
  <2>5. etagIn[a] # NoETag => cache = etagIn[a]
    BY <1>0, <2>3 DEF FriendsOK, Carried
  <2>6. CacheHasItsETag'
    BY <1>0, <1>5, <2>5 DEF Store, FriendsOK, CacheHasItsETag
  <2>7. OneGet' /\ Carried'
    BY <2>4 DEF OneGet, Carried
  <2>8. QED
    BY <2>1, <2>2, <2>6, <2>7, GetMove
<1>6. QED
  BY <1>1, <1>2, <1>3, <1>4, <1>5

\* Client.PutFriendAction.
LEMMA PutStepKeeps ==
    ASSUME FInv, kind = "friends", ~raced, NEW a \in Actors,
           Put(a) \/ PutFails(a) \/ PutDone(a)
    PROVE  FInv'
<1>1. \E s \in {"clear", "write", "idle"} :
         /\ at' = [at EXCEPT ![a] = s] /\ UNCHANGED <<kind, etagIn, resp, known, primed, view>>
         /\ at[a] \in {"put", "clear"} /\ (a \in Loops => s # "idle")
         /\ cache' = cache /\ (etag' = etag \/ etag' = NoETag)
  BY DEF Put, PutFails, PutDone, Moves, Goes, refresherVars
<1>2. QED
  BY <1>1, PlainMove

\* runFriendsWatch and Refresher.tick.
LEMMA TickStepKeeps ==
    ASSUME FInv, kind = "friends", ~raced, NEW k \in Loops, TickStep(k)
    PROVE  FInv'
<1> USE DEF Moves, Goes, Forget, clientVars, friendsVars
<1>0. k \in Actors /\ AtType /\ GetType /\ FriendsOK
  BY DEF FInv, Actors
<1>1. CASE FriendsLoopStarts(k)
  BY <1>0, <1>1, PlainMove DEF FriendsLoopStarts
<1>2. CASE FriendsWakes(k)
  BY <1>0, <1>2, PlainMove DEF FriendsWakes
<1>3. CASE FriendsTick(k)
  <2>1. \E s \in {"wait", "call"} : at' = [at EXCEPT ![k] = s]
    BY <1>3 DEF FriendsTick
  <2>2. at[k] = "tick" /\ UNCHANGED <<kind, etagIn, resp, known, primed, view, etag, cache>>
    BY <1>3 DEF FriendsTick
  <2>3. QED
    BY <1>0, <2>1, <2>2, PlainMove
<1>4. CASE Diff(k)
  <2>1. \E s \in {"put", "write"} : at' = [at EXCEPT ![k] = s]
    BY <1>4 DEF Diff
  <2>2. /\ at[k] = "diff" /\ UNCHANGED <<kind, etag, cache, etagIn, resp, known, primed>>
        /\ view' = IF primed THEN (view \cup (resp[k] \ known)) \ (known \ resp[k]) ELSE resp[k]
    BY <1>4 DEF Diff
  <2>3. \A l \in Loops : l # k => ~Live(l)
    BY <1>0, <2>2 DEF FriendsOK, OneLoop, Live
  <2>4. primed => view = known
    BY <1>0, <2>2, <2>3 DEF FriendsOK, ViewFollows, Live
  <2>5. (known \cup (resp[k] \ known)) \ (known \ resp[k]) = resp[k]
    OBVIOUS
  <2>6. view' = resp[k]
    BY <2>2, <2>4, <2>5
  <2>7. InGet' \subseteq InGet
    BY <1>0, <2>1 DEF InGet, AtType
  <2>8. OneGet' /\ Carried' /\ CacheHasItsETag'
    BY <1>0, <2>2, <2>7 DEF FriendsOK, OneGet, Carried, CacheHasItsETag
  <2>9. OneLoop'
    BY <1>0, <2>1, <2>3 DEF OneLoop, Live, AtType
  <2>10. Told' /\ ViewFollows'
    BY <1>0, <2>1, <2>2, <2>3, <2>6 DEF Told, ViewFollows, Live, AtType
  <2>11. AtType' /\ GetType'
    BY <1>0, <2>1, <2>2 DEF AtType, GetType
  <2>12. QED
    BY <2>8, <2>9, <2>10, <2>11 DEF FInv, FriendsOK
<1>5. CASE DiffWrites(k)
  <2>1. /\ at[k] = "write" /\ at' = [at EXCEPT ![k] = "wait"]
        /\ UNCHANGED <<kind, etag, cache, view>> /\ known' = resp[k]
    BY <1>5 DEF DiffWrites
  <2>2. GetType' /\ \A b \in Actors \ {k} : etagIn'[b] = etagIn[b] /\ resp'[b] = resp[b]
    BY <1>0, <1>5 DEF DiffWrites, GetType
  <2>3. \A l \in Loops : l # k => ~Live(l)
    BY <1>0, <2>1 DEF FriendsOK, OneLoop, Live
  <2>4. view' = known'
    BY <1>0, <2>1 DEF FriendsOK, Told
  <2>5. InGet' \subseteq InGet \ {k}
    BY <1>0, <2>1 DEF InGet, AtType
  <2>6. OneGet' /\ Carried' /\ CacheHasItsETag'
    BY <1>0, <2>1, <2>2, <2>5 DEF FriendsOK, OneGet, Carried, CacheHasItsETag, InGet
  <2>7. OneLoop'
    BY <1>0, <2>1, <2>3 DEF OneLoop, Live, AtType
  <2>8. Told' /\ ViewFollows'
    BY <1>0, <2>1, <2>3, <2>4 DEF Told, ViewFollows, Live, AtType
  <2>9. AtType'
    BY <1>0, <2>1 DEF AtType
  <2>10. QED
    BY <2>2, <2>6, <2>7, <2>8, <2>9 DEF FInv, FriendsOK
<1>6. QED
  BY <1>1, <1>2, <1>3, <1>4, <1>5 DEF TickStep

\* A step that changes neither a stage nor what the refresher and the client know.
LEMMA StillKeeps ==
    ASSUME FInv, kind' = kind, raced' = raced,
           UNCHANGED <<at, etag, cache, etagIn, resp, known, primed, view>>
    PROVE  FInv'
BY DEF FInv, AtType, GetType, FriendsOK, OneLoop, OneGet, InGet, Carried, CacheHasItsETag,
       Told, ViewFollows, Live

\* friends.list, friends.add and the like, friends.setAutoAccept, and ResetCache.
LEMMA FriendsRequestKeeps ==
    ASSUME FInv, kind = "friends", ~raced, NEW r \in Requests,
           FriendsList(r) \/ FriendsAction(r) \/ FriendsSetAutoAccept(r) \/ ResetCache(r)
    PROVE  FInv'
<1> USE DEF Calls, Goes, clientVars, refresherVars, friendsVars
<1>0. r \in Actors /\ r \notin Loops
  BY ActorsAssumption DEF Actors
<1>1. CASE FriendsList(r) \/ FriendsAction(r)
  <2>1. \E s \in {"call", "put"} : at' = [at EXCEPT ![r] = s]
    BY <1>1 DEF FriendsList, FriendsAction
  <2>2. UNCHANGED <<kind, etagIn, resp, known, primed, view, etag, cache>>
    BY <1>1 DEF FriendsList, FriendsAction
  <2>3. QED
    BY <1>0, <2>1, <2>2, PlainMove
<1>2. CASE FriendsSetAutoAccept(r)
  BY <1>2, StillKeeps DEF FriendsSetAutoAccept, loopVars
<1>3. CASE ResetCache(r)
  <2>1. /\ at' = [at EXCEPT ![r] = "idle"] /\ etag' = NoETag
        /\ UNCHANGED <<kind, etagIn, resp, known, primed, view>>
    BY <1>3 DEF ResetCache
  <2>2. CASE InGet = {}
    BY <1>0, <2>1, <2>2, PlainMove
  <2>3. CASE InGet # {}
    <3>1. raced'
      BY <1>3, <2>3 DEF ResetCache
    <3>2. QED
      BY <2>1, <3>1 DEF FInv, AtType, GetType
  <2>4. QED
    BY <2>2, <2>3
<1>4. QED
  BY <1>1, <1>2, <1>3

\* A step of the friends watch.
LEMMA FriendsNextAgrees ==
    ASSUME FInv, kind = "friends", ~raced, FriendsNext
    PROVE  FInv'
<1>1. CASE FriendsLoopStep
  BY <1>1, FriendsLoopStepKeeps
<1>2. CASE ListChanges \/ CooldownEnds
  BY <1>2, StillKeeps DEF ListChanges, CooldownEnds, loopVars, refresherVars
<1>3. CASE \E a \in Actors : CallStep(a)
  BY <1>3, GetStepKeeps, PutStepKeeps DEF CallStep
<1>4. CASE \E k \in Loops : TickStep(k)
  BY <1>4, TickStepKeeps
<1>5. CASE \E r \in Requests :
              FriendsList(r) \/ FriendsAction(r) \/ FriendsSetAutoAccept(r) \/ ResetCache(r)
  BY <1>5, FriendsRequestKeeps
<1>6. QED
  BY <1>1, <1>2, <1>3, <1>4, <1>5 DEF FriendsNext

\* A watch stays the watch it is.
LEMMA PresenceKind ==
    ASSUME PresenceNext
    PROVE  kind' = kind
<1> USE DEF Moves, Calls, loopVars
<1>1. CASE LoopStep
  BY <1>1 DEF LoopStep, Unwatch, Watch, Unwatched, LoopEnds
<1>2. CASE CooldownOver \/ Ages \/ Announce \/ AnnounceOk \/ AnnounceFails
  BY <1>2 DEF CooldownOver, Ages, Announce, AnnounceOk, AnnounceFails
<1>3. CASE \E a \in Actors : PostStep(a)
  BY <1>3 DEF PostStep, PostCached, PostOk, PostFails, Sends, Succeeds, Fails
<1>4. CASE \E k \in Loops : PresenceTickStep(k)
  BY <1>4 DEF PresenceTickStep, PresenceLoopStarts, PresenceWakes, PresenceTick, PresenceRecord
<1>5. CASE \E r \in Requests :
              \/ \E s \in Statuses : PresenceSet(r, s)
              \/ ResolvePost(r) \/ HostStarts(r) \/ HostStops(r)
              \/ PresenceRequestStep(r)
  BY <1>5 DEF PresenceSet, ResolvePost, HostStarts, HostStops, PresenceRequestStep,
              PresenceSetDone, HostStopped
<1>6. QED
  BY <1>1, <1>2, <1>3, <1>4, <1>5 DEF PresenceNext

\* For any number of loops and requests, and whatever the order of answers, failures,
\* PUTs, cooldowns and account changes: until two calls overlap, the observer has been
\* told what the Refresher knows and the cached list is the one its ETag names.
THEOREM FriendsAgree == Spec => []FriendsConsistent
<1>1. Init => IInv /\ FInv
  <2> SUFFICES ASSUME Init PROVE IInv /\ FInv
    OBVIOUS
  <2>1. IInv
    BY DEF Init, LoopInit, IInv, AtType, Handed, LoopsStoppable, Live, Actors
  <2>2. GetType /\ InGet = {} /\ \A k \in Loops : at[k] = "none"
    BY DEF Init, LoopInit, FriendsInit, GetType, InGet, Actors
  <2>3. OneLoop /\ OneGet /\ Carried /\ Told
    BY <2>2 DEF OneLoop, OneGet, Carried, Told, Live
  <2>4. CacheHasItsETag /\ ViewFollows
    BY DEF Init, FriendsInit, CacheHasItsETag, ViewFollows
  <2>5. QED
    BY <2>1, <2>2, <2>3, <2>4 DEF FInv, IInv, FriendsOK
<1>2. IInv /\ FInv /\ [Next]_vars => IInv' /\ FInv'
  <2> SUFFICES ASSUME IInv, FInv, [Next]_vars
               PROVE  IInv' /\ FInv'
    OBVIOUS
  <2>1. CASE kind = "friends" /\ ~raced /\ FriendsNext
    BY <2>1, FriendsNextKeeps, FriendsNextAgrees
  <2>2. CASE kind = "presence" /\ PresenceNext /\ UNCHANGED friendsVars
    <3>1. IInv' /\ kind' = "presence"
      BY <2>2, PresenceNextKeeps, PresenceKind
    <3>2. AtType' /\ GetType'
      BY <2>2, <3>1 DEF IInv, FInv, GetType, friendsVars
    <3>3. QED
      BY <3>1, <3>2 DEF FInv
  <2>3. CASE UNCHANGED vars
    <3>1. IInv'
      BY <2>3, StillQuiet, QuietKeeps DEF vars, loopVars, IInv
    <3>2. FInv'
      BY <2>3, StillKeeps DEF vars, loopVars, friendsVars
    <3>3. QED
      BY <3>1, <3>2
  <2>4. QED
    BY <2>1, <2>2, <2>3 DEF Next
<1>3. FInv => FriendsConsistent
  BY DEF FInv, FriendsOK, FriendsConsistent
<1>4. QED
  BY <1>1, <1>2, <1>3, PTL DEF Spec

=================================================================================
