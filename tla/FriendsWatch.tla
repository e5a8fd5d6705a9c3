------------------------------ MODULE FriendsWatch ------------------------------
(***************************************************************************)
(* friends.watch: a loop that fetches the friends list and reports what    *)
(* changed (internal/presence/refresher.go) through a client that keeps an *)
(* ETag and the last list (internal/api/friends.go, client.go), while      *)
(* friends.* requests use and change the same list.                        *)
(*                                                                         *)
(* One other player is enough to tell lists apart: a list is the set of    *)
(* the sections that player is in.  The service's ETag is a function of    *)
(* the list, so the list stands for it; NoETag is "".  A GET is sent, then *)
(* answered, then its answer is handled: three steps, others in between.   *)
(***************************************************************************)
EXTENDS WatchLoop

CONSTANTS Nil, NoETag

VARIABLES
    list,       \* the list at the service
    etag,       \* Client.friendsETag
    cache,      \* Client.friendsCache
    cooldown,   \* before Client.friendsCooldownEnd
    etagIn,     \* per actor: the ETag its GET carries
    resp,       \* per actor: the answer; Nil is 304
    known,      \* Refresher.known*
    primed,     \* Refresher.primed
    autoAccept, \* Refresher.autoAccept
    view,       \* what the observer has been told
    raced       \* two GETs, two loops or a GET and a ResetCache overlapped

friendsVars == <<list, etag, cache, cooldown, etagIn, resp, known, primed, autoAccept,
                 view, raced>>
clientVars == <<list, etag, cache, cooldown>>
refresherVars == <<known, primed, autoAccept, view>>

Lists == {{}, {"incoming"}, {"friends"}}

FriendsTypeOK ==
    /\ list \in Lists /\ etag \in Lists \cup {NoETag} /\ cache \in Lists \cup {Nil}
    /\ cooldown \in BOOLEAN
    /\ etagIn \in [Actors -> Lists \cup {NoETag}]
    /\ resp \in [Actors -> Lists \cup {Nil}]
    /\ known \in Lists /\ primed \in BOOLEAN /\ autoAccept \in BOOLEAN
    /\ view \in SUBSET {"incoming", "friends"}
    /\ raced \in BOOLEAN

\* LoadCacheFromDisk gives a list with its ETag, or one without after a PUT.
FriendsInit ==
    /\ list = {}
    /\ \/ etag = NoETag /\ cache \in {{}, Nil}
       \/ etag \in {{}, {"friends"}} /\ cache = etag
    /\ cooldown = FALSE
    /\ etagIn = [a \in Actors |-> NoETag] /\ resp = [a \in Actors |-> Nil]
    /\ known = {} /\ primed = FALSE /\ autoAccept = FALSE /\ view = {}
    /\ raced = FALSE

InGet == {a \in Actors : at[a] \in {"get", "got"}}
\* Where an actor goes when its call has nothing for it.
Back(a) == IF a \in Loops THEN "wait" ELSE "idle"
Forget(a) == etagIn' = [etagIn EXCEPT ![a] = NoETag] /\ resp' = [resp EXCEPT ![a] = Nil]

(***************************************************************************)
(* The service (external) and the clock.                                   *)
(***************************************************************************)

\* The other player, or this one elsewhere, changes the list.
ListChanges ==
    /\ calls < MaxCalls /\ calls' = calls + 1
    /\ list' \in Lists \ {list}
    /\ UNCHANGED <<kind, watching, cur, stopped, awaited, at, etag, cache, cooldown, etagIn,
                   resp, refresherVars, raced>>

CooldownEnds ==
    /\ cooldown /\ cooldown' = FALSE
    /\ UNCHANGED <<loopVars, list, etag, cache, etagIn, resp, refresherVars, raced>>

(***************************************************************************)
(* Client.GetFriends.                                                      *)
(***************************************************************************)

\* In a cooldown the cached list answers; otherwise the GET goes out.
CallCached(a) ==
    /\ at[a] = "call" /\ cooldown
    /\ IF cache # Nil /\ a \in Loops
       THEN Moves(a, "diff") /\ resp' = [resp EXCEPT ![a] = cache]
       ELSE Moves(a, Back(a)) /\ resp' = resp
    /\ UNCHANGED <<clientVars, etagIn, refresherVars, raced>>

CallGet(a) ==
    /\ at[a] = "call" /\ ~cooldown
    /\ etagIn' = [etagIn EXCEPT ![a] = etag]
    /\ Moves(a, "get")
    /\ raced' = (raced \/ InGet # {})
    /\ UNCHANGED <<clientVars, resp, refresherVars>>

\* The service answers 200 with the list, or 304 when the ETag is the list's.
\* A 401 before it makes doWithRetry send the same GET again.
Answer(a) ==
    /\ at[a] = "get"
    /\ resp' = [resp EXCEPT ![a] = IF etagIn[a] = list THEN Nil ELSE list]
    /\ Moves(a, "got")
    /\ UNCHANGED <<clientVars, etagIn, refresherVars, raced>>

\* No connection, 429, or another error.
AnswerFails(a) ==
    /\ at[a] = "get"
    /\ cooldown' \in {cooldown, TRUE}
    /\ Forget(a)
    /\ Moves(a, Back(a))
    /\ UNCHANGED <<list, etag, cache, refresherVars, raced>>

\* Mutant of Store: the new list is stored without its ETag.
StoreNoETag(a) ==
    /\ at[a] = "got"
    /\ etag' = IF resp[a] = Nil \/ etag = NoETag THEN etagIn[a] ELSE etag
    /\ cache' = IF resp[a] = Nil THEN cache ELSE resp[a]
    /\ IF a \in Requests \/ cache' = Nil
       THEN Forget(a) /\ Moves(a, Back(a))
       ELSE /\ resp' = [resp EXCEPT ![a] = cache']
            /\ etagIn' = [etagIn EXCEPT ![a] = NoETag]
            /\ Moves(a, "diff")
    /\ UNCHANGED <<list, cooldown, refresherVars, raced>>

\* The answer is handled: 304 puts back the ETag that was sent and returns
\* whatever is cached by now, 200 stores the list and its ETag.
Store(a) ==
    /\ at[a] = "got"
    /\ IF resp[a] = Nil
       THEN cache' = cache /\ etag' = IF etagIn[a] = NoETag THEN etag ELSE etagIn[a]
       ELSE cache' = resp[a] /\ etag' = resp[a]
    /\ IF a \in Requests \/ cache' = Nil
       THEN Forget(a) /\ Moves(a, Back(a))
       ELSE /\ resp' = [resp EXCEPT ![a] = cache']
            /\ etagIn' = [etagIn EXCEPT ![a] = NoETag]
            /\ Moves(a, "diff")
    /\ UNCHANGED <<list, cooldown, refresherVars, raced>>

(***************************************************************************)
(* Client.PutFriendAction.                                                 *)
(***************************************************************************)

\* Accepting or adding makes the player a friend, removing or declining
\* removes the player; the automatic accept only accepts.
Applied(a) ==
    IF a \in Requests THEN {{}, {"friends"}}
    ELSE {IF list = {"incoming"} THEN {"friends"} ELSE list}

\* An error, or an answer that is lost after the change; 429, or a cooldown.
PutFails(a) ==
    /\ at[a] = "put"
    /\ \/ list' \in {list} \cup (IF cooldown THEN {} ELSE Applied(a)) /\ cooldown' = cooldown
       \/ list' = list /\ cooldown' = TRUE
    /\ Moves(a, IF a \in Loops THEN "write" ELSE "idle")
    /\ UNCHANGED <<etag, cache, etagIn, resp, refresherVars, raced>>

Put(a) ==
    /\ at[a] = "put" /\ ~cooldown
    /\ list' \in Applied(a)
    /\ Moves(a, "clear")
    /\ UNCHANGED <<etag, cache, cooldown, etagIn, resp, refresherVars, raced>>

\* After the answer the ETag is dropped.
PutDone(a) ==
    /\ at[a] = "clear"
    /\ etag' = NoETag
    /\ Moves(a, IF a \in Loops THEN "write" ELSE "idle")
    /\ UNCHANGED <<list, cache, cooldown, etagIn, resp, refresherVars, raced>>

(***************************************************************************)
(* The loop: runFriendsWatch and Refresher.tick.                           *)
(***************************************************************************)

\* friends.watch turns the automatic accept off and starts the loop.
FriendsLoopStarts(k) ==
    /\ at[k] = "new"
    /\ autoAccept' = FALSE
    /\ Moves(k, "tick")
    /\ UNCHANGED <<clientVars, etagIn, resp, known, primed, view, raced>>

FriendsWakes(k) ==
    /\ at[k] = "wait"
    /\ Moves(k, "tick")
    /\ UNCHANGED friendsVars

\* A cooldown skips the tick.
FriendsTick(k) ==
    /\ at[k] = "tick"
    /\ Moves(k, IF cooldown THEN "wait" ELSE "call")
    /\ UNCHANGED friendsVars

\* Mutant of Diff: only additions are reported.
DiffNoRemovals(k) ==
    /\ at[k] = "diff"
    /\ view' = IF primed THEN view \cup (resp[k] \ known) ELSE resp[k]
    /\ Moves(k, IF autoAccept /\ "incoming" \in resp[k] \ known THEN "put" ELSE "write")
    /\ UNCHANGED <<clientVars, etagIn, resp, known, primed, autoAccept, raced>>

\* applyDiff tells the observer what is new and what is gone against the
\* known lists, or the whole list the first time, and accepts new requests.
Diff(k) ==
    /\ at[k] = "diff"
    /\ view' = IF primed THEN (view \cup (resp[k] \ known)) \ (known \ resp[k]) ELSE resp[k]
    /\ Moves(k, IF autoAccept /\ "incoming" \in resp[k] \ known THEN "put" ELSE "write")
    /\ UNCHANGED <<clientVars, etagIn, resp, known, primed, autoAccept, raced>>

\* ... and in a second critical section writes the known lists.
DiffWrites(k) ==
    /\ at[k] = "write"
    /\ known' = resp[k] /\ primed' = TRUE
    /\ Forget(k)
    /\ Moves(k, "wait")
    /\ UNCHANGED <<clientVars, autoAccept, view, raced>>

(***************************************************************************)
(* Requests.                                                               *)
(***************************************************************************)

\* friends.list, friends.search, ResolvePeer.
FriendsList(r) ==
    /\ at[r] = "idle"
    /\ Calls(r, "call")
    /\ UNCHANGED friendsVars

\* friends.add, friends.remove, friends.accept, friends.decline.
FriendsAction(r) ==
    /\ at[r] = "idle"
    /\ Calls(r, "put")
    /\ UNCHANGED friendsVars

FriendsSetAutoAccept(r) ==
    /\ at[r] = "idle"
    /\ autoAccept' = ~autoAccept
    /\ UNCHANGED <<loopVars, clientVars, etagIn, resp, known, primed, view, raced>>

\* Client.ResetCache, called when the account changes.
ResetCache(r) ==
    /\ at[r] = "idle"
    /\ etag' = NoETag /\ cache' = Nil
    /\ raced' = (raced \/ InGet # {})
    /\ Calls(r, "idle")
    /\ UNCHANGED <<list, cooldown, etagIn, resp, refresherVars>>

(***************************************************************************)
(* Specification.                                                          *)
(***************************************************************************)

CallStep(a) ==
    \/ CallCached(a) \/ CallGet(a) \/ Answer(a) \/ AnswerFails(a) \/ Store(a)
    \/ Put(a) \/ PutFails(a) \/ PutDone(a)
TickStep(k) ==
    FriendsLoopStarts(k) \/ FriendsWakes(k) \/ FriendsTick(k) \/ Diff(k) \/ DiffWrites(k)

FriendsLoopStep ==
    /\ LoopStep
    /\ raced' = (raced \/ (~watching /\ watching' /\ \E k \in Loops : Live(k)))
    /\ UNCHANGED <<clientVars, etagIn, resp, refresherVars>>

FriendsNext ==
    \/ FriendsLoopStep
    \/ ListChanges \/ CooldownEnds
    \/ \E a \in Actors : CallStep(a)
    \/ \E k \in Loops : TickStep(k)
    \/ \E r \in Requests :
          FriendsList(r) \/ FriendsAction(r) \/ FriendsSetAutoAccept(r) \/ ResetCache(r)

\* What the observer was told is what the Refresher knows, between ticks: two
\* overlapping ticks would compare with the same known list and lose a removal.
ViewFollows ==
    (primed /\ \A k \in Loops : at[k] \notin {"put", "clear", "write"}) => view = known

\* The cached list is the one its ETag names: else a 304 would return another
\* list for as long as the list at the service does not change.
CacheHasItsETag == etag # NoETag => cache = etag

\* Observer, Refresher and API client agree about the list whatever the order
\* of answers, failures, PUTs and cooldowns, as long as calls did not overlap.
FriendsConsistent == (kind = "friends" /\ ~raced) => ViewFollows /\ CacheHasItsETag

\* While the watch stays on and the service answers now and then, what the
\* observer was told becomes the list at the service and stays it.
FriendsConverge ==
    (kind = "friends" /\ <>[]watching) => <>[](raced \/ (primed /\ view = list))

================================================================================
