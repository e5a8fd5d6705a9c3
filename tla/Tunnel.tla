--------------------------------- MODULE Tunnel ---------------------------------
(***************************************************************************)
(* The bytes of an established join, both ways:                            *)
(*   up    Minecraft client -> joinSession.startTcpBridge (join.go)        *)
(*         -> data channel -> hostSession.onPeerData (host.go) -> server   *)
(*   down  server -> TCPBridge.readLoop -> attachTCP's callback            *)
(*         -> data channel -> the joiner's onData -> Minecraft client      *)
(* with the warm-up bytes of session.go, the back-pressure against the     *)
(* SCTP send queue, and the rewriting of the Minecraft handshake packet    *)
(* that carries the bypass marker.                                         *)
(*                                                                         *)
(* A byte is its position in its stream.  The data channel is ordered and  *)
(* reliable; receiving takes any number of bytes off it, which includes    *)
(* every way of cutting the stream into messages.                          *)
(***************************************************************************)
EXTENDS Integers, Sequences

CONSTANTS
    UpLen, DownLen,  \* bytes the client and the server send
    HsLen,           \* length of the client's framed handshake packet
    WarmLen,         \* len(warmupMagic)
    ChunkMax,        \* size of the read buffers
    MaxBuffered,     \* the send queue length that stops the sender
    Capacity,        \* what the send queue holds; pion drops what exceeds it
    EarlyData        \* whether client data may reach the host before it has dialled

ASSUME TunnelAssumption ==
    /\ UpLen \in Nat /\ DownLen \in Nat /\ HsLen \in 1 .. UpLen
    /\ WarmLen \in Nat /\ ChunkMax \in Nat \ {0} /\ MaxBuffered \in Nat
    /\ Capacity \in Nat /\ Capacity >= MaxBuffered + ChunkMax
    /\ MaxBuffered >= WarmLen
    /\ EarlyData \in BOOLEAN

Dirs == {"up", "down"}
WarmByte == 0
Marker == -1       \* the re-encoded handshake packet

\* What the host finds at the start of the client's stream: no bypass key is
\* loaded; a handshake it rewrites; a packet it cannot decode or whose address
\* has no room for the marker; bytes that are no frame at all.
Kinds == {"noKey", "good", "badPacket", "badFrame"}

VARIABLES
    kind,      \* constant in a behaviour
    opened,    \* the senders whose OnOpen has run
    wire,      \* the data channel, by direction
    sent,      \* bytes read from the sending socket so far
    gate,      \* the sending loop: "idle", "clear" (drained), "hold" (has a chunk)
    chunk,     \* the chunk attachTCP's callback holds
    warm,      \* Session.warmupRemaining of the receiver
    dial,      \* attachTCP: "no", "dialled" (readLoop runs), "set" (ps.tcp = tcp)
    hsDone,    \* hostSession.handshakeDone
    hsBuf,     \* hostSession.handshakeBuf
    out        \* bytes written to the receiving socket

vars == <<kind, opened, wire, sent, gate, chunk, warm, dial, hsDone, hsBuf, out>>

Bytes == -1 .. IF UpLen > DownLen THEN UpLen ELSE DownLen

TypeOK ==
    /\ kind \in Kinds
    /\ opened \in SUBSET Dirs
    /\ wire \in [Dirs -> Seq(Bytes)]
    /\ sent \in [Dirs -> Nat] /\ sent["up"] <= UpLen /\ sent["down"] <= DownLen
    /\ gate \in [Dirs -> {"idle", "clear", "hold"}]
    /\ chunk \in Seq(Bytes)
    /\ warm \in [Dirs -> 0 .. WarmLen]
    /\ dial \in {"no", "dialled", "set"}
    /\ hsDone \in BOOLEAN
    /\ hsBuf \in Seq(Bytes)
    /\ out \in [Dirs -> Seq(Bytes)]

Init ==
    /\ kind \in Kinds
    /\ opened = {}
    /\ wire = [d \in Dirs |-> << >>]
    /\ sent = [d \in Dirs |-> 0]
    /\ gate = [d \in Dirs |-> "idle"]
    /\ chunk = << >>
    /\ warm = [d \in Dirs |-> WarmLen]
    /\ dial = "no"
    /\ hsDone = FALSE
    /\ hsBuf = << >>
    /\ out = [d \in Dirs |-> << >>]

\* n bytes of a stream, from the position after k.
Slice(k, n) == [i \in 1 .. n |-> k + i]

\* dc.Send; a full queue swallows the message.
Queued(d, data) ==
    IF Len(wire[d]) + Len(data) > Capacity THEN wire
    ELSE [wire EXCEPT ![d] = @ \o data]

(***************************************************************************)
(* The data channel opens.                                                 *)
(***************************************************************************)

\* OnOpen at the sender of d: the magic goes out before dcOpenCh is closed, so
\* before any data.
OnOpen(d) ==
    /\ d \notin opened
    /\ opened' = opened \cup {d}
    /\ wire' = Queued(d, [i \in 1 .. WarmLen |-> WarmByte])
    /\ UNCHANGED <<kind, sent, gate, chunk, warm, dial, hsDone, hsBuf, out>>

\* attachTCP: the target is dialled and readLoop started ...
DialTCP ==
    /\ "down" \in opened /\ dial = "no"
    /\ dial' = "dialled"
    /\ UNCHANGED <<kind, opened, wire, sent, gate, chunk, warm, hsDone, hsBuf, out>>

\* ... and only then ps.tcp set.
SetTcp ==
    /\ dial = "dialled"
    /\ dial' = "set"
    /\ UNCHANGED <<kind, opened, wire, sent, gate, chunk, warm, hsDone, hsBuf, out>>

(***************************************************************************)
(* Up: startTcpBridge waits, reads, sends.                                 *)
(***************************************************************************)

\* WaitForBufferDrain returns.
DrainUp ==
    /\ "up" \in opened /\ gate["up"] = "idle"
    /\ Len(wire["up"]) <= MaxBuffered
    /\ gate' = [gate EXCEPT !["up"] = "clear"]
    /\ UNCHANGED <<kind, opened, wire, sent, chunk, warm, dial, hsDone, hsBuf, out>>

\* local.Read returns n bytes and rtc.Send takes them.
ReadUp(n) ==
    /\ gate["up"] = "clear" /\ n <= UpLen - sent["up"]
    /\ sent' = [sent EXCEPT !["up"] = @ + n]
    /\ wire' = Queued("up", Slice(sent["up"], n))
    /\ gate' = [gate EXCEPT !["up"] = "idle"]
    /\ UNCHANGED <<kind, opened, chunk, warm, dial, hsDone, hsBuf, out>>

(***************************************************************************)
(* Down: readLoop reads, the callback waits, then sends.                   *)
(***************************************************************************)

\* conn.Read returns n bytes.
ReadDown(n) ==
    /\ dial # "no" /\ gate["down"] = "idle" /\ n <= DownLen - sent["down"]
    /\ sent' = [sent EXCEPT !["down"] = @ + n]
    /\ chunk' = Slice(sent["down"], n)
    /\ gate' = [gate EXCEPT !["down"] = "hold"]
    /\ UNCHANGED <<kind, opened, wire, warm, dial, hsDone, hsBuf, out>>

\* Mutant: no back-pressure.
SendDownAtOnce ==
    /\ gate["down"] = "hold"
    /\ wire' = Queued("down", chunk)
    /\ gate' = [gate EXCEPT !["down"] = "idle"]
    /\ chunk' = << >>
    /\ UNCHANGED <<kind, opened, sent, warm, dial, hsDone, hsBuf, out>>

\* Mutant: the comparison with maxBuffered is the wrong way round.
SendDownNever ==
    /\ gate["down"] = "hold" /\ Len(wire["down"]) > MaxBuffered
    /\ wire' = Queued("down", chunk)
    /\ gate' = [gate EXCEPT !["down"] = "idle"]
    /\ chunk' = << >>
    /\ UNCHANGED <<kind, opened, sent, warm, dial, hsDone, hsBuf, out>>

\* WaitForBufferDrain, then rtc.Send.
SendDown ==
    /\ gate["down"] = "hold"
    /\ Len(wire["down"]) <= MaxBuffered
    /\ wire' = Queued("down", chunk)
    /\ gate' = [gate EXCEPT !["down"] = "idle"]
    /\ chunk' = << >>
    /\ UNCHANGED <<kind, opened, sent, warm, dial, hsDone, hsBuf, out>>

(***************************************************************************)
(* Receiving: OnMessage, then onPeerData at the host or the joiner's write.*)
(***************************************************************************)

\* The bytes left of the first n on the wire after the warm-up ones are dropped.
Payload(d, n) ==
    SubSeq(wire[d], (IF n < warm[d] THEN n ELSE warm[d]) + 1, n)

\* OnMessage takes n bytes off the channel and counts the warm-up bytes down.
Received(d, n) ==
    /\ wire' = [wire EXCEPT ![d] = SubSeq(@, n + 1, Len(@))]
    /\ warm' = [warm EXCEPT ![d] = IF n < @ THEN @ - n ELSE 0]

\* readFramedPacket has a whole frame, or finds that it is none.
Decided(buf) ==
    IF kind = "badFrame" THEN Len(buf) >= 1 ELSE Len(buf) >= HsLen

\* What feedHandshake writes once it has decided: the packet re-encoded with the
\* marker and the rest as it came, or everything as it came.
Rewritten(buf) ==
    IF kind = "good" /\ SubSeq(buf, 1, HsLen) = Slice(0, HsLen)
    THEN <<Marker>> \o SubSeq(buf, HsLen + 1, Len(buf))
    ELSE buf

\* Mutant: what follows the handshake in the same buffer is not forwarded.
OnPeerDataDropsRest(data) ==
    LET buf == hsBuf \o data IN
    IF dial # "set" \/ data = << >>
    THEN UNCHANGED <<hsDone, hsBuf, out>>
    ELSE IF hsDone \/ kind = "noKey"
    THEN out' = [out EXCEPT !["up"] = @ \o data] /\ UNCHANGED <<hsDone, hsBuf>>
    ELSE IF Decided(buf)
    THEN /\ out' = [out EXCEPT !["up"] = @ \o SubSeq(Rewritten(buf), 1, 1)]
         /\ hsDone' = TRUE
         /\ hsBuf' = << >>
    ELSE hsBuf' = buf /\ UNCHANGED <<hsDone, out>>

\* hostSession.onPeerData with feedHandshake: without a TCP bridge the data is
\* dropped; the first packet is held back until it is whole.
OnPeerData(data) ==
    LET buf == hsBuf \o data IN
    IF dial # "set" \/ data = << >>
    THEN UNCHANGED <<hsDone, hsBuf, out>>
    ELSE IF hsDone \/ kind = "noKey"
    THEN out' = [out EXCEPT !["up"] = @ \o data] /\ UNCHANGED <<hsDone, hsBuf>>
    ELSE IF Decided(buf)
    THEN /\ out' = [out EXCEPT !["up"] = @ \o Rewritten(buf)]
         /\ hsDone' = TRUE
         /\ hsBuf' = << >>
    ELSE hsBuf' = buf /\ UNCHANGED <<hsDone, out>>

\* The host receives.  EarlyData = FALSE is the assumption that the dial is over
\* before the client's first byte arrives.
ReceiveUp(n) ==
    /\ n <= Len(wire["up"])
    /\ Payload("up", n) # << >> => EarlyData \/ dial = "set"
    /\ Received("up", n)
    /\ OnPeerData(Payload("up", n))
    /\ UNCHANGED <<kind, opened, sent, gate, chunk, dial>>

\* The joiner receives and writes to the Minecraft client.
ReceiveDown(n) ==
    /\ n <= Len(wire["down"])
    /\ Received("down", n)
    /\ out' = [out EXCEPT !["down"] = @ \o Payload("down", n)]
    /\ UNCHANGED <<kind, opened, sent, gate, chunk, dial, hsDone, hsBuf>>

Opening == DialTCP \/ SetTcp \/ \E d \in Dirs : OnOpen(d)
Sizes == 1 .. ChunkMax
Up == DrainUp \/ \E n \in Sizes : ReadUp(n) \/ ReceiveUp(n)
Down == SendDown \/ \E n \in Sizes : ReadDown(n) \/ ReceiveDown(n)

Next == Opening \/ Up \/ Down

Spec == Init /\ [][Next]_vars

\* Both ends stay and their sockets are read and written: every loop goes on.
FairSpec == /\ Spec
            /\ \A d \in Dirs : WF_vars(OnOpen(d))
            /\ WF_vars(DialTCP) /\ WF_vars(SetTcp)
            /\ WF_vars(DrainUp \/ \E n \in Sizes : ReadUp(n))
            /\ WF_vars(SendDown \/ \E n \in Sizes : ReadDown(n))
            /\ WF_vars(\E n \in Sizes : ReceiveUp(n))
            /\ WF_vars(\E n \in Sizes : ReceiveDown(n))

(***************************************************************************)
(* Properties.                                                             *)
(***************************************************************************)

\* The stream the server should see, and the one the client should see.
UpSource == IF kind = "good" THEN <<Marker>> \o SubSeq(Slice(0, UpLen), HsLen + 1, UpLen)
            ELSE Slice(0, UpLen)

UpPipe == INSTANCE BytePipe WITH source <- UpSource, got <- out["up"]
DownPipe == INSTANCE BytePipe WITH source <- Slice(0, DownLen), got <- out["down"]

\* The way up implements BytePipe: the server reads the client's bytes in order,
\* none lost or repeated, no warm-up byte among them, and exactly the handshake
\* packet replaced when it can be.
UpIsPipe == UpPipe!Spec

\* The way down implements BytePipe: the back-pressure of attachTCP's callback
\* keeps the send queue from dropping data and the warm-up bytes are removed.
DownIsPipe == DownPipe!Spec

\* Everything both sides send arrives in the end: waiting for the queue to drain
\* and holding back an incomplete handshake never stop a stream for good.
AllArrives == <>(out["up"] = UpSource /\ out["down"] = Slice(0, DownLen))

================================================================================
