---------------------------- MODULE SignalingConn -----------------------------
(***************************************************************************)
(* The signaling client's WebSocket: internal/signaling client.go and      *)
(* transport.go.  Connect starts a goroutine that dials; a failed dial or  *)
(* a broken connection schedules the next attempt after a growing delay;   *)
(* Close may come at any point.                                            *)
(*                                                                         *)
(* Attempt k is the goroutine of one attemptConnect, with the timer that   *)
(* precedes it; if it succeeds its WebSocket and readLoop are also called  *)
(* k.  A name is used again when all three have ended, so that the number  *)
(* of reconnects is not bounded.                                           *)
(***************************************************************************)
EXTENDS Naturals

CONSTANTS
    MaxAttempts,  \* number of attempts that can have something running at a time
    MaxBackoff    \* maxBackoff, in units of initialBackoff (30)

ASSUME ConnAssumption == MaxAttempts \in Nat /\ MaxBackoff \in Nat \ {0}

Attempts == 1 .. MaxAttempts

VARIABLES
    closed,      \* Client.closed
    cancelled,   \* Client.ctx is done
    closeStep,   \* the caller of Close: "no", "marked", "done"
    dying,       \* the WebSocket Close has taken out of c.ws (0: nil)
    ws,          \* Client.ws (0: nil)
    connecting,  \* Client.connecting
    backoff,     \* Client.backoff
    ready,       \* readyCh is closed
    attempt,     \* where goroutine k is in attemptConnect
    reader,      \* where readLoop k is
    open,        \* WebSockets that are open on the wire
    started      \* Connect has been called

connVars == <<closed, cancelled, closeStep, dying, ws, connecting, backoff,
              ready, attempt, reader, open, started>>

AttemptStates == {"none", "timer", "start", "dialing", "failed", "sched",
                  "dialed", "stored", "tail", "done"}
ReaderStates == {"none", "reading", "reset", "failed", "sched", "done"}

ConnTypeOK ==
    /\ closed \in BOOLEAN /\ cancelled \in BOOLEAN
    /\ closeStep \in {"no", "marked", "done"}
    /\ dying \in 0 .. MaxAttempts
    /\ ws \in 0 .. MaxAttempts
    /\ connecting \in BOOLEAN
    /\ backoff \in 1 .. MaxBackoff
    /\ ready \in BOOLEAN
    /\ attempt \in [Attempts -> AttemptStates]
    /\ reader \in [Attempts -> ReaderStates]
    /\ open \in SUBSET Attempts
    /\ started \in BOOLEAN

ConnInit ==
    /\ closed = FALSE /\ cancelled = FALSE /\ closeStep = "no" /\ dying = 0
    /\ ws = 0 /\ connecting = FALSE /\ backoff = 1 /\ ready = FALSE
    /\ attempt = [k \in Attempts |-> "none"]
    /\ reader = [k \in Attempts |-> "none"]
    /\ open = {} /\ started = FALSE

Moves(f, k, s) == [f EXCEPT ![k] = s]

\* Client.Connect.
Connect ==
    /\ ~closed /\ ws = 0 /\ ~connecting
    /\ ~started
    /\ connecting' = TRUE
    /\ started' = TRUE
    /\ \E k \in Attempts : attempt' = Moves(attempt, k, "start")
    /\ UNCHANGED <<closed, cancelled, closeStep, dying, ws, backoff, ready, reader, open>>

\* attemptConnect's isClosed test.
CheckClosed(k) ==
    /\ attempt[k] = "start"
    /\ attempt' = Moves(attempt, k, IF closed THEN "done" ELSE "dialing")
    /\ UNCHANGED <<closed, cancelled, closeStep, dying, ws, connecting, backoff,
                   ready, reader, open, started>>

\* fetchSignalingURI or websocket.Dial fails (network, 401 after a refresh,
\* bad reply, timeout, or the context cancelled by Close).
DialFails(k) ==
    /\ attempt[k] = "dialing"
    /\ attempt' = Moves(attempt, k, "failed")
    /\ UNCHANGED <<closed, cancelled, closeStep, dying, ws, connecting, backoff,
                   ready, reader, open, started>>

\* websocket.Dial succeeds; its context is a child of c.ctx.
DialOK(k) ==
    /\ attempt[k] = "dialing" /\ ~cancelled
    /\ attempt' = Moves(attempt, k, "dialed")
    /\ open' = open \cup {k}
    /\ UNCHANGED <<closed, cancelled, closeStep, dying, ws, connecting, backoff,
                   ready, reader, started>>

\* doConnect stores the connection, without looking at c.closed.
StoreWs(k) ==
    /\ attempt[k] = "dialed"
    /\ ws' = k
    /\ attempt' = Moves(attempt, k, "stored")
    /\ UNCHANGED <<closed, cancelled, closeStep, dying, connecting, backoff,
                   ready, reader, open, started>>

\* markReady, go readLoop(conn), go pingLoop(ctx).
MarkReady(k) ==
    /\ attempt[k] = "stored"
    /\ ready' = TRUE
    /\ reader' = Moves(reader, k, "reading")
    /\ attempt' = Moves(attempt, k, "tail")
    /\ UNCHANGED <<closed, cancelled, closeStep, dying, ws, connecting, backoff,
                   open, started>>

\* attemptConnect after a successful doConnect; the readLoop is running already.
ConnectSucceeded(k) ==
    /\ attempt[k] = "tail"
    /\ backoff' = 1
    /\ connecting' = FALSE
    /\ attempt' = Moves(attempt, k, "done")
    /\ UNCHANGED <<closed, cancelled, closeStep, dying, ws, ready, reader, open, started>>

\* The connection breaks, or the service closes it.
ServerDrops(k) ==
    /\ k \in open
    /\ open' = open \ {k}
    /\ UNCHANGED <<closed, cancelled, closeStep, dying, ws, connecting, backoff,
                   ready, attempt, reader, started>>

\* Mutant: c.ws keeps the dead connection.
ReadFailsKeepsWs(k) ==
    /\ reader[k] = "reading"
    /\ k \notin open \/ cancelled
    /\ open' = open \ {k}
    /\ reader' = Moves(reader, k, "reset")
    /\ UNCHANGED <<closed, cancelled, closeStep, dying, ws, connecting, backoff,
                   ready, attempt, started>>

\* ws.Read returns an error (a cancelled context also closes the WebSocket);
\* handleClose cancels the ping loop and clears c.ws.
ReadFails(k) ==
    /\ reader[k] = "reading"
    /\ k \notin open \/ cancelled
    /\ open' = open \ {k}
    /\ ws' = 0
    /\ reader' = Moves(reader, k, "reset")
    /\ UNCHANGED <<closed, cancelled, closeStep, dying, connecting, backoff,
                   ready, attempt, started>>

\* Mutant: readyCh is not renewed.
ResetNothing(k) ==
    /\ reader[k] = "reset"
    /\ reader' = Moves(reader, k, "failed")
    /\ UNCHANGED <<closed, cancelled, closeStep, dying, ws, connecting, backoff,
                   ready, attempt, open, started>>

\* handleClose's resetReady.
ResetReady(k) ==
    /\ reader[k] = "reset"
    /\ ready' = FALSE
    /\ reader' = Moves(reader, k, "failed")
    /\ UNCHANGED <<closed, cancelled, closeStep, dying, ws, connecting, backoff,
                   attempt, open, started>>

\* scheduleReconnect's isClosed test, in the goroutine of a failed attempt or
\* of a readLoop.
StopIfClosed(k) ==
    \/ /\ attempt[k] = "failed"
       /\ attempt' = Moves(attempt, k, IF closed THEN "done" ELSE "sched")
       /\ UNCHANGED <<closed, cancelled, closeStep, dying, ws, connecting, backoff,
                      ready, reader, open, started>>
    \/ /\ reader[k] = "failed"
       /\ reader' = Moves(reader, k, IF closed THEN "done" ELSE "sched")
       /\ UNCHANGED <<closed, cancelled, closeStep, dying, ws, connecting, backoff,
                      ready, attempt, open, started>>

Doubled(b) == IF 2 * b > MaxBackoff THEN MaxBackoff ELSE 2 * b

\* Names whose goroutines have all ended.
Unused == {k \in Attempts : attempt[k] \in {"none", "done"} /\ reader[k] \in {"none", "done"}
                              /\ k \notin open}

\* Mutant: two goroutines wait for the delay.
ScheduleTwice(k) ==
    /\ reader[k] = "sched"
    /\ ws' = 0 /\ connecting' = TRUE /\ backoff' = Doubled(backoff)
    /\ attempt' = [j \in Attempts |-> IF j \in Unused THEN "timer" ELSE attempt[j]]
    /\ reader' = Moves(reader, k, "done")
    /\ UNCHANGED <<closed, cancelled, closeStep, dying, ready, open, started>>

\* Mutant: after a lost connection nobody starts the next attempt.
ScheduleForgets(k) ==
    /\ reader[k] = "sched"
    /\ ws' = 0 /\ connecting' = TRUE /\ backoff' = Doubled(backoff)
    /\ reader' = Moves(reader, k, "done")
    /\ UNCHANGED <<closed, cancelled, closeStep, dying, ready, attempt, open, started>>

\* The rest of scheduleReconnect: the delay doubles up to maxBackoff and a
\* goroutine waits for it.
ScheduleReconnect(k) ==
    /\ ws' = 0
    /\ connecting' = TRUE
    /\ backoff' = Doubled(backoff)
    /\ \E j \in Unused :
          \/ /\ attempt[k] = "sched"
             /\ attempt' = [attempt EXCEPT ![k] = "done", ![j] = "timer"]
             /\ UNCHANGED reader
          \/ /\ reader[k] = "sched"
             /\ reader' = Moves(reader, k, "done")
             /\ attempt' = Moves(attempt, j, "timer")
    /\ UNCHANGED <<closed, cancelled, closeStep, dying, ready, open, started>>

\* The delay passes, or c.ctx is done first.
TimerFires(k) ==
    /\ attempt[k] = "timer"
    /\ \/ attempt' = Moves(attempt, k, "start")
       \/ cancelled /\ attempt' = Moves(attempt, k, "done")
    /\ UNCHANGED <<closed, cancelled, closeStep, dying, ws, connecting, backoff,
                   ready, reader, open, started>>

\* Client.Close, the section under c.mu.
CloseMarks ==
    /\ closeStep = "no"
    /\ closeStep' = "marked"
    /\ closed' = TRUE
    /\ dying' = ws
    /\ ws' = 0
    /\ UNCHANGED <<cancelled, connecting, backoff, ready, attempt, reader, open, started>>

\* Mutant: the context is not cancelled, only the known WebSocket closed.
CloseKeepsContext ==
    /\ closeStep = "marked"
    /\ closeStep' = "done"
    /\ open' = open \ {dying}
    /\ UNCHANGED <<closed, cancelled, dying, ws, connecting, backoff, ready,
                   attempt, reader, started>>

\* c.cancel() and ws.Close().
CloseCancels ==
    /\ closeStep = "marked"
    /\ closeStep' = "done"
    /\ cancelled' = TRUE
    /\ open' = open \ {dying}
    /\ UNCHANGED <<closed, dying, ws, connecting, backoff, ready, attempt,
                   reader, started>>

Connecting(k) == CheckClosed(k) \/ DialFails(k) \/ StoreWs(k) \/ MarkReady(k)
                   \/ ConnectSucceeded(k) \/ StopIfClosed(k) \/ ScheduleReconnect(k)
                   \/ TimerFires(k)
Reading(k) == ReadFails(k) \/ ResetReady(k)

ConnNext ==
    \/ Connect \/ CloseMarks \/ CloseCancels
    \/ \E k \in Attempts : Connecting(k) \/ Reading(k) \/ DialOK(k) \/ ServerDrops(k)

ConnSpec == ConnInit /\ [][ConnNext]_connVars

(***************************************************************************)
(* Properties.                                                             *)
(***************************************************************************)

\* Goroutines that own the connection: an attempt under way, or a readLoop.
\* Between MarkReady and the end of attemptConnect the readLoop already owns it.
Owners == {<<"attempt", k>> : k \in {j \in Attempts : attempt[j] \notin {"none", "tail", "done"}}}
            \cup {<<"reader", k>> : k \in {j \in Attempts : reader[j] \notin {"none", "done"}}}

\* A client never runs two connections, or a connection and a reconnect, side
\* by side: a message is not received twice, nor the service contacted by two
\* loops at once.
SingleOwner == \A a, b \in Owners : a = b

\* c.ws is the WebSocket of the goroutine that owns the connection: neither a late
\* handleClose nor scheduleReconnect clears a newer connection, and what is
\* sent goes where answers are read.
WsIsOwned ==
    ws # 0 => \/ attempt[ws] = "stored"
              \/ reader[ws] = "reading"

\* readyCh is closed only while a connection is stored or being torn down, so
\* that WaitReady does not return for a connection lost long ago.
ReadyMeansConnected ==
    ready => \E k \in Attempts : reader[k] \in {"reading", "reset"}

(***************************************************************************)
(* The inductive invariant behind the safety properties.                   *)
(***************************************************************************)

\* Before Connect no goroutine owns anything, so that the first attempt is alone.
NotStarted == ~started => Owners = {}

ConnInv == ConnTypeOK /\ NotStarted /\ SingleOwner /\ WsIsOwned /\ ReadyMeansConnected

================================================================================
