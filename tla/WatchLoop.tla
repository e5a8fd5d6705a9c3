------------------------------- MODULE WatchLoop -------------------------------
(***************************************************************************)
(* The life cycle the two watches of internal/ipc/methods_watch.go share:  *)
(* friends.watch and presence.watch start a loop goroutine with its own    *)
(* stop and done channels, friends.unwatch and presence.unwatch close stop *)
(* under watchState.mu and wait for done outside it.  FriendsWatch and     *)
(* PresenceWatch say what a tick does.                                     *)
(*                                                                         *)
(* at[a] is where loop or request a is; a loop name is used again once the *)
(* loop has ended and unwatch has seen it.  An unwatch request is the loop *)
(* it waits for: each loop is stopped once.                                *)
(***************************************************************************)
EXTENDS Naturals

CONSTANTS
    Loops,      \* names for loop goroutines
    Requests,   \* request goroutines other than watch and unwatch
    MaxCalls,   \* bound: requests and changes of the friends list
    None

ASSUME ActorsAssumption == Loops \cap Requests = {} /\ None \notin Loops \cup Requests
ASSUME MaxCallsAssumption == MaxCalls \in Nat

VARIABLES
    kind,       \* which watch this is; the two share only the mutex
    watching,   \* watchState.friendsRunning (presenceRunning)
    cur,        \* the loop that friendsStop and friendsDone belong to; they are
                \* read only while watching, so None otherwise
    stopped,    \* loops whose stop channel is closed
    awaited,    \* loops whose done channel an unwatch waits for
    at,
    calls       \* outside events so far

loopVars == <<kind, watching, cur, stopped, awaited, at, calls>>

Actors == Loops \cup Requests
\* new: before the go statement.  tick .. write: in a tick.  wait: in select.
LoopStages == {"none", "new", "tick", "call", "get", "got", "diff", "put",
               "clear", "write", "post", "record", "wait", "done"}
RequestStages == {"idle", "call", "get", "got", "put", "clear", "post", "set", "stopping"}

LoopTypeOK ==
    /\ kind \in {"friends", "presence"}
    /\ watching \in BOOLEAN
    /\ cur \in Loops \cup {None} /\ (watching => cur \in Loops)
    /\ stopped \in SUBSET Loops /\ awaited \in SUBSET Loops
    /\ at \in [Actors -> LoopStages \cup RequestStages]
    /\ \A k \in Loops : at[k] \in LoopStages
    /\ \A r \in Requests : at[r] \in RequestStages
    /\ calls \in 0..MaxCalls

LoopInit ==
    /\ kind \in {"friends", "presence"}
    /\ watching = FALSE /\ cur = None /\ stopped = {} /\ awaited = {}
    /\ at = [a \in Actors |-> IF a \in Loops THEN "none" ELSE "idle"]
    /\ calls = 0

Goes(a, s) == at' = [at EXCEPT ![a] = s]
Live(k) == at[k] \notin {"none", "done"}
\* The name the next loop gets.
Fresh == CHOOSE k \in Loops : at[k] = "none"

\* Mutant of Watch: it does not look whether a loop is running.
WatchAgain(k) ==
    /\ at[k] = "none" /\ k = Fresh
    /\ watching' = TRUE /\ cur' = k
    /\ calls < MaxCalls /\ calls' = calls + 1
    /\ Goes(k, "new")
    /\ UNCHANGED <<kind, stopped, awaited>>

\* friends.watch, presence.watch: with a loop running they only reply.
Watch(k) ==
    /\ ~watching
    /\ at[k] = "none" /\ k = Fresh
    /\ watching' = TRUE /\ cur' = k
    /\ calls < MaxCalls /\ calls' = calls + 1
    /\ Goes(k, "new")
    /\ UNCHANGED <<kind, stopped, awaited>>

\* friends.unwatch, presence.unwatch: the critical section ...
Unwatch ==
    /\ watching
    /\ watching' = FALSE /\ cur' = None
    /\ stopped' = stopped \cup {cur}
    /\ awaited' = awaited \cup {cur}
    /\ UNCHANGED <<kind, at, calls>>

\* ... and the wait for done, outside it.
Unwatched(k) ==
    /\ k \in awaited /\ at[k] = "done"
    /\ awaited' = awaited \ {k} /\ stopped' = stopped \ {k}
    /\ Goes(k, "none")
    /\ UNCHANGED <<kind, watching, cur, calls>>

\* select takes the stop channel.
LoopEnds(k) ==
    /\ at[k] = "wait" /\ k \in stopped
    /\ Goes(k, "done")
    /\ UNCHANGED <<kind, watching, cur, stopped, awaited, calls>>

LoopStep ==
    \/ Unwatch
    \/ \E k \in Loops : Watch(k) \/ Unwatched(k) \/ LoopEnds(k)

\* Goes(a, s) in a step of the other modules that leaves the rest alone.
Moves(a, s) == Goes(a, s) /\ UNCHANGED <<kind, watching, cur, stopped, awaited, calls>>
\* A step that counts against the bound.
Calls(a, s) ==
    /\ calls < MaxCalls /\ calls' = calls + 1
    /\ Goes(a, s)
    /\ UNCHANGED <<kind, watching, cur, stopped, awaited>>

\* unwatch reaches every loop: one that runs is the one friendsStop belongs to,
\* or it has been told to stop and a request waits for it.
LoopsStoppable ==
    \A k \in Loops : Live(k) =>
        IF k \in stopped THEN k \in awaited ELSE watching /\ cur = k

================================================================================
