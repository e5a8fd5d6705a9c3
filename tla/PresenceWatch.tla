----------------------------- MODULE PresenceWatch -----------------------------
(***************************************************************************)
(* presence.watch: a loop that posts watchState.currentStatus when it has  *)
(* changed, and again after a minute (internal/ipc/methods_watch.go),      *)
(* against presence.set, the Broadcaster of a running host, host.stop and  *)
(* the ONLINE that ResolvePeer posts.  A POST is sent, applied by the      *)
(* service, and its answer handled, in separate steps.                     *)
(*                                                                         *)
(* Join value and invites belong to the status here: currentStatus stands  *)
(* for the three fields that are read and written together.                *)
(***************************************************************************)
EXTENDS WatchLoop

VARIABLES
    server,     \* the status at the presence service
    current,    \* watchState.currentStatus
    lastPosted, \* watchState.lastPostedStatus
    age,        \* of lastPostedAt: 0 below 10 s, 1 below 60 s, 2 more or never
    limited,    \* before Client.presenceCooldownEnd
    answered,   \* Client.presenceCache # nil
    sending,    \* per actor: the status it posts
    hosting,    \* a host runs, and its Broadcaster
    announcing  \* the Broadcaster has a POST in flight

presenceVars == <<server, current, lastPosted, age, limited, answered, sending, hosting, announcing>>

Statuses == {"ONLINE", "HOSTING"}

PresenceTypeOK ==
    /\ server \in Statuses \cup {"OFFLINE"} /\ current \in Statuses
    /\ lastPosted \in Statuses \cup {"none"}
    /\ age \in 0..2
    /\ limited \in BOOLEAN /\ answered \in BOOLEAN
    /\ sending \in [Actors -> Statuses \cup {"none"}]
    /\ hosting \in BOOLEAN /\ announcing \in BOOLEAN

PresenceInit ==
    /\ server = "OFFLINE" /\ current = "ONLINE" /\ lastPosted = "none" /\ age = 2
    /\ limited = FALSE /\ answered = FALSE
    /\ sending = [a \in Actors |-> "none"]
    /\ hosting = FALSE /\ announcing = FALSE

(***************************************************************************)
(* Client.PostPresence.                                                    *)
(***************************************************************************)

\* Where actor a goes when PostPresence has answered or failed: the loop
\* records the post, presence.set (which sends from "post") sets the current
\* status, host.stop and ResolvePeer (which send from "put") only reply.
Succeeds(a) == IF a \in Loops THEN "record" ELSE IF at[a] = "post" THEN "set" ELSE "idle"
Fails(a) == IF a \in Loops THEN "wait" ELSE "idle"
Sends(a) == at[a] \in {"post", "put"}
Done(a) == sending' = [sending EXCEPT ![a] = "none"]

\* In a cooldown the cached answer, if any, counts as an answer.
PostCached(a) ==
    /\ Sends(a) /\ limited
    /\ IF answered
       THEN Moves(a, Succeeds(a)) /\ (IF Succeeds(a) = "idle" THEN Done(a) ELSE sending' = sending)
       ELSE Moves(a, Fails(a)) /\ Done(a)
    /\ UNCHANGED <<server, current, lastPosted, age, limited, answered, hosting, announcing>>

\* The service applies the status; the answer arrives.  A 304 leaves the
\* cached answer, a 200 replaces it.
PostOk(a) ==
    /\ Sends(a) /\ ~limited
    /\ server' = sending[a]
    /\ answered' \in {answered, TRUE}
    /\ Moves(a, Succeeds(a))
    /\ IF Succeeds(a) = "idle" THEN Done(a) ELSE sending' = sending
    /\ UNCHANGED <<current, lastPosted, age, limited, hosting, announcing>>

\* 429, an error, or an answer that is lost after the status was applied.
PostFails(a) ==
    /\ Sends(a) /\ ~limited
    /\ \/ server' \in {server, sending[a]} /\ limited' = limited
       \/ server' = server /\ limited' = TRUE
    /\ Moves(a, Fails(a)) /\ Done(a)
    /\ UNCHANGED <<current, lastPosted, age, answered, hosting, announcing>>

\* Time passes.
CooldownOver ==
    /\ limited /\ limited' = FALSE
    /\ UNCHANGED <<loopVars, server, current, lastPosted, age, answered, sending, hosting, announcing>>

Ages ==
    /\ age < 2 /\ age' = age + 1
    /\ UNCHANGED <<loopVars, server, current, lastPosted, limited, answered, sending, hosting, announcing>>

(***************************************************************************)
(* The loop: runPresenceWatch.                                             *)
(***************************************************************************)

PresenceLoopStarts(k) ==
    /\ at[k] = "new"
    /\ Moves(k, "tick")
    /\ UNCHANGED presenceVars

\* Mutant of Due: nothing is posted again unless the status has changed.
DueDirty == age > 0 /\ current # lastPosted

\* presenceTickIfDue, once a second: not within 10 s of the last post, and an
\* unchanged status only after 60 s.
Due == age > 0 /\ (current # lastPosted \/ age = 2)

PresenceWakes(k) ==
    /\ at[k] = "wait" /\ Due
    /\ Moves(k, "tick")
    /\ UNCHANGED presenceVars

\* presenceTickNow reads the status ...
PresenceTick(k) ==
    /\ at[k] = "tick"
    /\ sending' = [sending EXCEPT ![k] = current]
    /\ Moves(k, "post")
    /\ UNCHANGED <<server, current, lastPosted, age, limited, answered, hosting, announcing>>

\* ... and after the POST records what it read as posted.
PresenceRecord(k) ==
    /\ at[k] = "record"
    /\ lastPosted' = sending[k] /\ age' = 0
    /\ Done(k)
    /\ Moves(k, "wait")
    /\ UNCHANGED <<server, current, limited, answered, hosting, announcing>>

(***************************************************************************)
(* Requests.                                                               *)
(***************************************************************************)

\* presence.set posts first and sets the current status after the answer.
PresenceSet(r, s) ==
    /\ at[r] = "idle"
    /\ Calls(r, "post")
    /\ sending' = [sending EXCEPT ![r] = s]
    /\ UNCHANGED <<server, current, lastPosted, age, limited, answered, hosting, announcing>>

PresenceSetDone(r) ==
    /\ at[r] = "set"
    /\ current' = sending[r]
    /\ Done(r)
    /\ Moves(r, "idle")
    /\ UNCHANGED <<server, lastPosted, age, limited, answered, hosting, announcing>>

\* ResolvePeer for a join.
ResolvePost(r) ==
    /\ at[r] = "idle"
    /\ Calls(r, "put")
    /\ sending' = [sending EXCEPT ![r] = "ONLINE"]
    /\ UNCHANGED <<server, current, lastPosted, age, limited, answered, hosting, announcing>>

\* host.start and host.stop, one at a time (IpcControl has their steps).
HostStarts(r) ==
    /\ at[r] = "idle" /\ ~hosting
    /\ \A q \in Requests : at[q] # "stopping"
    /\ hosting' = TRUE /\ announcing' = TRUE
    /\ current' = "HOSTING"
    /\ Calls(r, "idle")
    /\ UNCHANGED <<server, lastPosted, age, limited, answered, sending>>

HostStops(r) ==
    /\ at[r] = "idle" /\ hosting
    /\ hosting' = FALSE
    /\ Calls(r, "stopping")
    /\ UNCHANGED <<server, current, lastPosted, age, limited, answered, sending, announcing>>

\* Broadcaster.Close has seen the last tick end.
HostStopped(r) ==
    /\ at[r] = "stopping" /\ ~announcing
    /\ current' = "ONLINE"
    /\ sending' = [sending EXCEPT ![r] = "ONLINE"]
    /\ Moves(r, "put")
    /\ UNCHANGED <<server, lastPosted, age, limited, answered, hosting, announcing>>

\* Broadcaster.tick, skipped in a cooldown.
Announce ==
    /\ hosting /\ ~announcing /\ ~limited
    /\ announcing' = TRUE
    /\ UNCHANGED <<loopVars, server, current, lastPosted, age, limited, answered, sending, hosting>>

AnnounceOk ==
    /\ announcing
    /\ announcing' = FALSE
    /\ server' = "HOSTING" /\ answered' \in {answered, TRUE}
    /\ UNCHANGED <<loopVars, current, lastPosted, age, limited, sending, hosting>>

AnnounceFails ==
    /\ announcing
    /\ announcing' = FALSE
    /\ \/ server' \in {server, "HOSTING"} /\ limited' = limited
       \/ server' = server /\ limited' = TRUE
    /\ UNCHANGED <<loopVars, current, lastPosted, age, answered, sending, hosting>>

(***************************************************************************)
(* Specification.                                                          *)
(***************************************************************************)

PostStep(a) == PostCached(a) \/ PostOk(a) \/ PostFails(a)
PresenceTickStep(k) ==
    PresenceLoopStarts(k) \/ PresenceWakes(k) \/ PresenceTick(k) \/ PresenceRecord(k)
PresenceRequestStep(r) == PresenceSetDone(r) \/ HostStopped(r)

PresenceNext ==
    \/ LoopStep /\ UNCHANGED presenceVars
    \/ CooldownOver \/ Ages
    \/ \E a \in Actors : PostStep(a)
    \/ \E k \in Loops : PresenceTickStep(k)
    \/ \E r \in Requests :
          \/ \E s \in Statuses : PresenceSet(r, s)
          \/ ResolvePost(r) \/ HostStarts(r) \/ HostStops(r)
          \/ PresenceRequestStep(r)
    \/ Announce \/ AnnounceOk \/ AnnounceFails

\* Whatever order POSTs and their answers took, once requests stop and the
\* watch stays on, the service gets the current status and keeps it: also when
\* a cached answer or a late POST made lastPosted wrong.  A host whose player
\* set another status is left out: Broadcaster and loop then disagree for ever.
StatusSettles ==
    (kind = "presence" /\ <>[]watching)
        => <>[](server = current \/ (hosting /\ current # "HOSTING"))

================================================================================
