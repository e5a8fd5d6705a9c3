------------------------------- MODULE TunnelProofs -------------------------------
(***************************************************************************)
(* The two directions of the tunnel implement BytePipe, for streams, read  *)
(* buffers, warm-up, handshake and send queue of any length.               *)
(***************************************************************************)
EXTENDS Tunnel, SequenceTheorems, TLAPS

(***************************************************************************)
(* Sequences of bytes.                                                     *)
(***************************************************************************)

\* Bytes of a stream, from the position after g.
From(s, g) == \A i \in 1 .. Len(s) : s[i] = g + i

\* A slice of a stream is a sequence of consecutive positions.
LEMMA SliceIsSeq ==
    ASSUME NEW k \in Int, NEW n \in Nat
    PROVE  /\ Slice(k, n) \in Seq(Int) /\ Len(Slice(k, n)) = n
           /\ From(Slice(k, n), k)
<1>1. Slice(k, n) \in [1 .. n -> Int]
  BY DEF Slice
<1>2. Slice(k, n) \in Seq(Int)
  BY <1>1, SeqDef
<1>3. DOMAIN Slice(k, n) = 1 .. n
  BY DEF Slice
<1>4. Len(Slice(k, n)) = n
  BY <1>2, <1>3, LenProperties
<1>5. QED
  BY <1>2, <1>4 DEF Slice, From

\* The magic that OnOpen sends.
LEMMA WarmIsSeq ==
    /\ [i \in 1 .. WarmLen |-> WarmByte] \in Seq(Int)
    /\ Len([i \in 1 .. WarmLen |-> WarmByte]) = WarmLen
<1> DEFINE w == [i \in 1 .. WarmLen |-> WarmByte]
<1>0. WarmLen \in Nat
  BY TunnelAssumption
<1>1. w \in [1 .. WarmLen -> Int]
  BY DEF WarmByte
<1>2. w \in Seq(Int)
  BY <1>0, <1>1, SeqDef
<1>3. DOMAIN w = 1 .. WarmLen
  OBVIOUS
<1>4. Len(w) = WarmLen
  BY <1>0, <1>2, <1>3, LenProperties
<1>5. QED
  BY <1>2, <1>4

\* What is left of a sequence behind position m, up to position n.
LEMMA CutIsSeq ==
    ASSUME NEW s \in Seq(Int), NEW m \in Nat, NEW n \in Nat, m <= n, n <= Len(s)
    PROVE  /\ SubSeq(s, m + 1, n) \in Seq(Int)
           /\ Len(SubSeq(s, m + 1, n)) = n - m
           /\ \A i \in 1 .. n - m : SubSeq(s, m + 1, n)[i] = s[m + i]
<1>1. \A i \in m + 1 .. n : s[i] \in Int
  BY LenProperties
<1>2. m + 1 \in Int /\ n \in Int
  OBVIOUS
<1>3. /\ SubSeq(s, m + 1, n) \in Seq(Int)
      /\ Len(SubSeq(s, m + 1, n)) = IF m + 1 <= n THEN n - (m + 1) + 1 ELSE 0
      /\ \A i \in 1 .. n - (m + 1) + 1 : SubSeq(s, m + 1, n)[i] = s[(m + 1) + i - 1]
  BY <1>1, <1>2, SubSeqProperties
<1>4. QED
  BY <1>3

\* A channel with a warm-up bytes left to drop, and then the stream from g on.
OnWire(w, a, g) == a <= Len(w) /\ \A i \in a + 1 .. Len(w) : w[i] = g + (i - a)

\* Appending the next piece of a stream.
LEMMA JoinFrom ==
    ASSUME NEW s \in Seq(Int), NEW t \in Seq(Int), NEW g \in Int, NEW h \in Int,
           From(s, g), From(t, h), h = g + Len(s)
    PROVE  s \o t \in Seq(Int) /\ Len(s \o t) = Len(s) + Len(t) /\ From(s \o t, g)
<1>1. Len(s) \in Nat /\ Len(t) \in Nat
  BY LenProperties
<1>2. /\ s \o t \in Seq(Int)
      /\ Len(s \o t) = Len(s) + Len(t)
      /\ \A i \in 1 .. Len(s) + Len(t) : (s \o t)[i] =
             IF i <= Len(s) THEN s[i] ELSE t[i - Len(s)]
  BY ConcatProperties
<1>3. ASSUME NEW i \in 1 .. Len(s) + Len(t)
      PROVE  (s \o t)[i] = g + i
  <2>1. CASE i <= Len(s)
    BY <2>1, <1>1, <1>2 DEF From
  <2>2. CASE ~(i <= Len(s))
    <3>1. i - Len(s) \in 1 .. Len(t) /\ i \in Int
      BY <2>2, <1>1
    <3>2. t[i - Len(s)] = (g + Len(s)) + (i - Len(s))
      BY <3>1 DEF From
    <3>3. QED
      BY <2>2, <3>1, <3>2, <1>1, <1>2
  <2>3. QED
    BY <2>1, <2>2
<1>4. QED
  BY <1>2, <1>3 DEF From

(***************************************************************************)
(* The invariant.                                                          *)
(***************************************************************************)

Types ==
    /\ kind \in Kinds
    /\ opened \subseteq Dirs
    /\ wire \in [Dirs -> Seq(Int)]
    /\ sent \in [Dirs -> Nat] /\ sent["up"] <= UpLen /\ sent["down"] <= DownLen
    /\ gate \in [Dirs -> {"idle", "clear", "hold"}]
    /\ chunk \in Seq(Int)
    /\ warm \in [Dirs -> Nat]
    /\ dial \in {"no", "dialled", "set"}
    /\ hsDone \in BOOLEAN
    /\ hsBuf \in Seq(Int)
    /\ out \in [Dirs -> Seq(Int)]

\* Bytes of the stream on the wire, read but not yet sent, and received.
Load(d) == IF d \in opened THEN Len(wire[d]) - warm[d] ELSE 0
Held(d) == IF d = "down" THEN Len(chunk) ELSE 0
Gone(d) == sent[d] - Held(d) - Load(d)

\* The wire holds what is left of the warm-up bytes, then the stream from the
\* first byte that has not been received on.
WireOrdered ==
    \A d \in Dirs :
        /\ d \notin opened => wire[d] = << >> /\ warm[d] = WarmLen
        /\ d \in opened => OnWire(wire[d], warm[d], Gone(d))
        /\ Gone(d) \in Nat

\* The sending loops: there is room for what they are about to send.
Senders ==
    /\ "up" \notin opened => gate["up"] = "idle" /\ sent["up"] = 0
    /\ gate["up"] = "clear" => Len(wire["up"]) <= MaxBuffered
    /\ dial = "no" => gate["down"] = "idle" /\ sent["down"] = 0
    /\ dial # "no" => "down" \in opened
    /\ gate["down"] # "hold" => chunk = << >>
    /\ Len(chunk) <= ChunkMax
    /\ From(chunk, sent["down"] - Len(chunk))

\* The client has got what was received.
DownOut ==
    /\ Len(out["down"]) = Gone("down")
    /\ From(out["down"], 0)

\* Byte i of what the server should see of a client's stream of kind k, and a
\* beginning of it.
UpByte(k, i) == IF k = "good" THEN IF i = 1 THEN Marker ELSE HsLen + (i - 1) ELSE i
FromUp(k, s) == \A i \in 1 .. Len(s) : s[i] = UpByte(k, i)

\* The server has got what was received, or it is in handshakeBuf.
UpOut ==
    /\ dial # "set" => Gone("up") = 0
    /\ From(hsBuf, 0)
    /\ FromUp(kind, out["up"])
    /\ IF hsDone \/ kind = "noKey"
       THEN /\ hsBuf = << >>
            /\ IF kind = "good"
               THEN Gone("up") >= HsLen /\ Len(out["up"]) = (Gone("up") - HsLen) + 1
               ELSE Len(out["up"]) = Gone("up")
       ELSE Len(out["up"]) = 0 /\ Len(hsBuf) = Gone("up")

\* The inductive invariant of the way down, and of both ways.
DInv == Types /\ WireOrdered /\ Senders /\ DownOut
IInv == DInv /\ UpOut

\* The two directions.
LEMMA UpDown == Dirs = {"up", "down"} /\ "up" # "down" /\ "up" \in Dirs /\ "down" \in Dirs
BY DEF Dirs

\* Nothing has been read, sent or received at the start.
LEMMA InitInv == Init => IInv
<1> SUFFICES ASSUME Init
             PROVE  IInv
  OBVIOUS
<1>1. << >> \in Seq(Int) /\ Len(<< >>) = 0
  BY EmptySeq
<1>2. Types
  <2>1. wire \in [Dirs -> Seq(Int)] /\ out \in [Dirs -> Seq(Int)]
    BY <1>1 DEF Init
  <2>2. sent \in [Dirs -> Nat] /\ warm \in [Dirs -> Nat]
        /\ gate \in [Dirs -> {"idle", "clear", "hold"}]
    BY TunnelAssumption DEF Init
  <2>3. sent["up"] <= UpLen /\ sent["down"] <= DownLen
    BY TunnelAssumption, UpDown DEF Init
  <2>4. chunk \in Seq(Int) /\ hsBuf \in Seq(Int)
    BY <1>1 DEF Init
  <2>5. QED
    BY <2>1, <2>2, <2>3, <2>4 DEF Init, Types
<1>3. \A d \in Dirs : Gone(d) = 0
  BY <1>1, UpDown DEF Init, Gone, Held, Load
<1>4. WireOrdered /\ Senders /\ DownOut /\ UpOut
  BY <1>1, <1>3, TunnelAssumption, UpDown DEF Init, WireOrdered, Senders, DownOut, UpOut, From, FromUp, Kinds
<1>5. QED
  BY <1>2, <1>4 DEF IInv, DInv

\* dc.Send of data that fits.
LEMMA SendFits ==
    ASSUME Types, NEW d \in Dirs, NEW data \in Seq(Int),
           Len(wire[d]) + Len(data) <= Capacity, wire' = Queued(d, data)
    PROVE  /\ wire' \in [Dirs -> Seq(Int)]
           /\ Len(wire'[d]) = Len(wire[d]) + Len(data)
           /\ \A i \in 1 .. Len(wire[d]) : wire'[d][i] = wire[d][i]
           /\ \A i \in 1 .. Len(data) : wire'[d][Len(wire[d]) + i] = data[i]
           /\ \A e \in Dirs \ {d} : wire'[e] = wire[e]
<1>1. wire[d] \in Seq(Int) /\ Len(wire[d]) \in Nat /\ Len(data) \in Nat
  BY LenProperties DEF Types
<1>2. wire' = [wire EXCEPT ![d] = wire[d] \o data]
  BY <1>1, TunnelAssumption DEF Queued
<1>3. /\ wire[d] \o data \in Seq(Int)
      /\ Len(wire[d] \o data) = Len(wire[d]) + Len(data)
      /\ \A i \in 1 .. Len(wire[d]) + Len(data) : (wire[d] \o data)[i] =
             IF i <= Len(wire[d]) THEN wire[d][i] ELSE data[i - Len(wire[d])]
  BY <1>1, ConcatProperties
<1>4. wire'[d] = wire[d] \o data /\ wire' \in [Dirs -> Seq(Int)]
      /\ \A e \in Dirs \ {d} : wire'[e] = wire[e]
  BY <1>2, <1>3 DEF Types
<1>5. \A i \in 1 .. Len(data) : Len(wire[d]) + i \in 1 .. Len(wire[d]) + Len(data)
                                /\ ~(Len(wire[d]) + i <= Len(wire[d]))
                                /\ Len(wire[d]) + i - Len(wire[d]) = i
  BY <1>1
<1>6. QED
  BY <1>1, <1>3, <1>4, <1>5

\* A channel cut after n bytes, m of them warm-up bytes: the front is the next
\* piece of the stream, the rest is again such a channel.
CutAt(w, a, g, n, m) ==
    /\ SubSeq(w, m + 1, n) \in Seq(Int) /\ Len(SubSeq(w, m + 1, n)) = n - m
    /\ From(SubSeq(w, m + 1, n), g)
    /\ SubSeq(w, n + 1, Len(w)) \in Seq(Int)
    /\ Len(SubSeq(w, n + 1, Len(w))) = Len(w) - n
    /\ OnWire(SubSeq(w, n + 1, Len(w)), a - m, g + (n - m))

\* Cutting off no more than the warm-up bytes there are, or all of them.
LEMMA CutWire ==
    ASSUME NEW w \in Seq(Int), NEW a \in Nat, NEW n \in Nat, NEW g \in Nat, NEW m \in Nat,
           n <= Len(w), OnWire(w, a, g), m <= n, m <= a, m = n \/ m = a
    PROVE  CutAt(w, a, g, n, m)
<1> DEFINE p == SubSeq(w, m + 1, n)
           r == SubSeq(w, n + 1, Len(w))
<1>1. Len(w) \in Nat /\ a <= Len(w)
  BY LenProperties DEF OnWire
<1>2. /\ p \in Seq(Int) /\ Len(p) = n - m
      /\ \A i \in 1 .. n - m : p[i] = w[m + i]
  BY <1>1, CutIsSeq
<1>3. /\ r \in Seq(Int) /\ Len(r) = Len(w) - n
      /\ \A i \in 1 .. Len(w) - n : r[i] = w[n + i]
  BY <1>1, CutIsSeq
<1> HIDE DEF p, r
<1>4. ASSUME NEW i \in 1 .. n - m
      PROVE  p[i] = g + i
  <2>1. i \in Nat /\ m = a /\ m + i \in a + 1 .. Len(w) /\ (m + i) - a = i
    BY <1>1
  <2>2. w[m + i] = g + ((m + i) - a)
    BY <2>1 DEF OnWire
  <2>3. QED
    BY <2>1, <2>2, <1>2
<1>5. ASSUME NEW i \in (a - m) + 1 .. Len(w) - n
      PROVE  r[i] = (g + (n - m)) + (i - (a - m))
  <2>1. i \in 1 .. Len(w) - n /\ i \in Nat
    BY <1>1
  <2>2. n + i \in a + 1 .. Len(w)
    BY <2>1, <1>1
  <2>3. w[n + i] = g + ((n + i) - a)
    BY <2>2 DEF OnWire
  <2>4. r[i] = w[n + i]
    BY <2>1, <1>3
  <2>5. QED
    BY <2>1, <2>3, <2>4, <1>1
<1>6. From(p, g) /\ OnWire(r, a - m, g + (n - m))
  BY <1>1, <1>2, <1>3, <1>4, <1>5 DEF From, OnWire
<1>7. QED
  BY <1>2, <1>3, <1>6 DEF p, r, CutAt

\* OnMessage: what is left of the first n bytes once the warm-up ones are gone is
\* the next piece of the stream, and the channel keeps the rest.
LEMMA TakeInOrder ==
    ASSUME Types, WireOrdered, NEW d \in Dirs, NEW n \in Sizes, n <= Len(wire[d]),
           Received(d, n), UNCHANGED <<opened, sent, chunk>>
    PROVE  /\ wire' \in [Dirs -> Seq(Int)] /\ warm' \in [Dirs -> Nat]
           /\ Payload(d, n) \in Seq(Int) /\ From(Payload(d, n), Gone(d))
           /\ Gone(d)' = Gone(d) + Len(Payload(d, n))
           /\ \A e \in Dirs \ {d} : Gone(e)' = Gone(e) /\ wire'[e] = wire[e]
           /\ Len(wire'[d]) <= Len(wire[d])
           /\ WireOrdered'
<1> DEFINE m == IF n < warm[d] THEN n ELSE warm[d]
           p == SubSeq(wire[d], m + 1, n)
           r == SubSeq(wire[d], n + 1, Len(wire[d]))
<1>1. /\ n \in Nat /\ n >= 1
      /\ wire[d] \in Seq(Int) /\ Len(wire[d]) \in Nat /\ warm[d] \in Nat
      /\ sent[d] \in Nat /\ Len(chunk) \in Nat
  BY LenProperties, TunnelAssumption DEF Types, Sizes
<1>2. d \in opened /\ OnWire(wire[d], warm[d], Gone(d)) /\ Gone(d) \in Nat
  BY <1>1, EmptySeq DEF WireOrdered
<1>3. m \in Nat /\ m <= n /\ m <= warm[d]
  BY <1>1
<1>4. m = n \/ m = warm[d]
  OBVIOUS
<1>5. p = Payload(d, n)
  BY DEF Payload
<1>6. wire' = [wire EXCEPT ![d] = r]
  BY DEF Received
<1>7. warm' = [warm EXCEPT ![d] = warm[d] - m]
  <2>1. (IF n < warm[d] THEN warm[d] - n ELSE 0) = warm[d] - m
    BY <1>1
  <2>2. warm' = [warm EXCEPT ![d] = IF n < warm[d] THEN warm[d] - n ELSE 0]
    BY DEF Received
  <2>3. QED
    BY <2>1, <2>2
<1> HIDE DEF m
<1>8. /\ p \in Seq(Int) /\ Len(p) = n - m /\ From(p, Gone(d))
      /\ r \in Seq(Int) /\ Len(r) = Len(wire[d]) - n
      /\ OnWire(r, warm[d] - m, Gone(d) + (n - m))
  <2>1. CutAt(wire[d], warm[d], Gone(d), n, m)
    BY <1>1, <1>2, <1>3, <1>4, CutWire
  <2>2. QED
    BY <2>1 DEF CutAt
<1> HIDE DEF p, r
<1>9. /\ wire'[d] = r /\ wire' \in [Dirs -> Seq(Int)]
      /\ \A e \in Dirs \ {d} : wire'[e] = wire[e]
  BY <1>6, <1>8 DEF Types
<1>10. warm[d] - m \in Nat
  BY <1>1, <1>3
<1>11. /\ warm'[d] = warm[d] - m /\ warm' \in [Dirs -> Nat]
       /\ \A e \in Dirs \ {d} : warm'[e] = warm[e]
  BY <1>7, <1>10 DEF Types
<1>12. Gone(d)' = Gone(d) + (n - m)
  <2>1. Load(d) = Len(wire[d]) - warm[d]
    BY <1>2 DEF Load
  <2>2. Load(d)' = (Len(wire[d]) - n) - (warm[d] - m)
    BY <1>2, <1>8, <1>9, <1>11 DEF Load
  <2>3. Held(d)' = Held(d) /\ Held(d) \in Nat
    BY <1>1 DEF Held
  <2>4. Gone(d) = sent[d] - Held(d) - Load(d) /\ Gone(d)' = sent[d] - Held(d) - Load(d)'
    BY <2>3 DEF Gone
  <2>5. Load(d)' = Load(d) - (n - m) /\ Load(d) \in Int
    BY SMTT(40), <2>1, <2>2, <1>1, <1>3
  <2>6. sent[d] \in Int /\ n - m \in Int
    BY <1>1, <1>3
  <2>7. QED
    BY <2>3, <2>4, <2>5, <2>6
<1>13. \A e \in Dirs \ {d} : Gone(e)' = Gone(e)
  BY <1>9, <1>11 DEF Gone, Load, Held
<1>14. Gone(d)' \in Nat /\ Len(wire'[d]) <= Len(wire[d])
  <2>1. Gone(d) \in Nat /\ n - m \in Nat
    BY <1>1, <1>2, <1>3
  <2>2. Gone(d)' \in Nat
    BY <2>1, <1>12
  <2>3. Len(wire'[d]) <= Len(wire[d])
    BY <1>1, <1>8, <1>9
  <2>4. QED
    BY <2>2, <2>3
<1>15. OnWire(wire'[d], warm'[d], Gone(d)')
  BY <1>8, <1>9, <1>11, <1>12
<1>16. WireOrdered'
  <2> SUFFICES ASSUME NEW e \in Dirs
               PROVE  /\ e \notin opened' => wire'[e] = << >> /\ warm'[e] = WarmLen
                      /\ e \in opened' => OnWire(wire'[e], warm'[e], Gone(e)')
                      /\ Gone(e)' \in Nat
    BY DEF WireOrdered, OnWire
  <2>1. CASE e = d
    BY <2>1, <1>2, <1>14, <1>15
  <2>2. CASE e # d
    <3>1. wire'[e] = wire[e] /\ warm'[e] = warm[e] /\ Gone(e)' = Gone(e) /\ opened' = opened
      BY <2>2, <1>9, <1>11, <1>13
    <3>2. QED
      BY <3>1 DEF WireOrdered
  <2>3. QED
    BY <2>1, <2>2
<1>17. QED
  BY <1>5, <1>8, <1>9, <1>11, <1>12, <1>13, <1>14, <1>16

\* dc.Send of the bytes that follow the ones on the channel.
LEMMA SendInOrder ==
    ASSUME Types, WireOrdered, NEW d \in Dirs, d \in opened, NEW data \in Seq(Int),
           From(data, Gone(d) + Load(d)),
           Len(wire[d]) + Len(data) <= Capacity, wire' = Queued(d, data),
           UNCHANGED <<opened, warm>>, \A e \in Dirs : Gone(e)' = Gone(e)
    PROVE  WireOrdered'
<1>1. /\ wire[d] \in Seq(Int) /\ Len(wire[d]) \in Nat /\ Len(data) \in Nat
      /\ warm[d] \in Nat /\ Gone(d) \in Nat
      /\ OnWire(wire[d], warm[d], Gone(d)) /\ Load(d) = Len(wire[d]) - warm[d]
  BY LenProperties DEF Types, WireOrdered, Load
<1>2. /\ Len(wire'[d]) = Len(wire[d]) + Len(data)
      /\ \A i \in 1 .. Len(wire[d]) : wire'[d][i] = wire[d][i]
      /\ \A i \in 1 .. Len(data) : wire'[d][Len(wire[d]) + i] = data[i]
      /\ \A e \in Dirs \ {d} : wire'[e] = wire[e]
  BY SendFits
<1>3. ASSUME NEW i \in warm[d] + 1 .. Len(wire[d]) + Len(data)
      PROVE  wire'[d][i] = Gone(d) + (i - warm[d])
  <2>1. CASE i <= Len(wire[d])
    <3>1. i \in 1 .. Len(wire[d]) /\ i \in warm[d] + 1 .. Len(wire[d])
      BY <2>1, <1>1
    <3>2. QED
      BY <3>1, <1>1, <1>2 DEF OnWire
  <2>2. CASE ~(i <= Len(wire[d]))
    <3> DEFINE j == i - Len(wire[d])
    <3>0. i \in Int /\ i <= Len(wire[d]) + Len(data) /\ i > Len(wire[d])
      BY <2>2, <1>1
    <3>1. j \in 1 .. Len(data) /\ i = Len(wire[d]) + j /\ j \in Nat
      BY <3>0, <1>1
    <3> HIDE DEF j
    <3>2. wire'[d][i] = data[j] /\ data[j] = (Gone(d) + Load(d)) + j
      BY <3>1, <1>2 DEF From
    <3>3. QED
      BY SMTT(40), <3>1, <3>2, <1>1
  <2>3. QED
    BY <2>1, <2>2
<1>4. OnWire(wire'[d], warm[d], Gone(d))
  BY <1>1, <1>2, <1>3 DEF OnWire
<1>5. ASSUME NEW e \in Dirs
      PROVE  /\ e \notin opened => wire'[e] = << >> /\ warm[e] = WarmLen
             /\ e \in opened => OnWire(wire'[e], warm[e], Gone(e))
             /\ Gone(e) \in Nat
  BY <1>2, <1>4 DEF WireOrdered
<1>6. QED
  BY <1>5 DEF WireOrdered, OnWire

\* What the other steps leave alone of the way up.
Quiet == /\ Gone("up")' = Gone("up")
         /\ out'["up"] = out["up"]
         /\ UNCHANGED <<kind, hsDone, hsBuf>>
         /\ dial = "set" => dial' = "set"

\* OnOpen: the magic fits and is all there is on the channel.
LEMMA OnOpenKeeps ==
    ASSUME DInv, NEW d \in Dirs, OnOpen(d)
    PROVE  DInv' /\ Quiet
<1> DEFINE w == [i \in 1 .. WarmLen |-> WarmByte]
<1> USE DEF DInv
<1>1. w \in Seq(Int) /\ Len(w) = WarmLen
  BY WarmIsSeq
<1>2. wire[d] = << >> /\ Len(wire[d]) = 0 /\ warm[d] = WarmLen
  BY EmptySeq DEF OnOpen, WireOrdered
<1>3. wire' = Queued(d, w)
  BY DEF OnOpen
<1> HIDE DEF w
<1>4. Len(wire[d]) + Len(w) <= Capacity /\ WarmLen <= MaxBuffered
  BY <1>1, <1>2, TunnelAssumption
<1>5. /\ wire' \in [Dirs -> Seq(Int)] /\ Len(wire'[d]) = WarmLen
      /\ \A e \in Dirs \ {d} : wire'[e] = wire[e]
  <2>1. Len(wire[d]) + Len(w) = WarmLen
    BY <1>1, <1>2, TunnelAssumption
  <2>2. QED
    BY <2>1, <1>1, <1>3, <1>4, SendFits
<1>6. /\ opened' = opened \cup {d} /\ d \notin opened
      /\ UNCHANGED <<kind, sent, gate, chunk, warm, dial, hsDone, hsBuf, out>>
  BY DEF OnOpen
<1>7. \A e \in Dirs : Gone(e)' = Gone(e)
  <2>1. Load(d) = 0 /\ Load(d)' = 0
    BY <1>2, <1>5, <1>6, TunnelAssumption DEF Load
  <2>2. \A e \in Dirs \ {d} : Load(e)' = Load(e)
    BY <1>5, <1>6 DEF Load
  <2>3. QED
    BY <2>1, <2>2, <1>6 DEF Gone, Held
<1>8. Types'
  BY <1>5, <1>6 DEF Types
<1>9. WireOrdered'
  <2>1. OnWire(wire'[d], WarmLen, Gone(d))
    BY <1>5, TunnelAssumption DEF OnWire
  <2>2. \A e \in Dirs : /\ e \notin opened' => wire'[e] = << >> /\ warm[e] = WarmLen
                        /\ e \in opened' => OnWire(wire'[e], warm[e], Gone(e))
                        /\ Gone(e) \in Nat
    BY <2>1, <1>2, <1>5, <1>6 DEF WireOrdered
  <2>3. QED
    BY <2>2, <1>6, <1>7 DEF WireOrdered, OnWire
<1>10. Senders'
  BY <1>1, <1>2, <1>4, <1>5, <1>6, UpDown DEF Senders, From
<1>11. DownOut'
  BY <1>6, <1>7, UpDown DEF DownOut, From
<1>12. QED
  BY <1>6, <1>7, <1>8, <1>9, <1>10, <1>11, UpDown DEF Quiet

\* DialTCP, SetTcp and DrainUp move no byte.
LEMMA ControlKeeps ==
    ASSUME DInv, DialTCP \/ SetTcp \/ DrainUp \/ UNCHANGED vars
    PROVE  DInv' /\ Quiet
<1> USE DEF DInv
<1>1. /\ UNCHANGED <<kind, opened, wire, sent, chunk, warm, hsDone, hsBuf, out>>
      /\ gate' = gate \/ DrainUp
      /\ dial' = dial \/ DialTCP \/ SetTcp
  BY DEF DialTCP, SetTcp, DrainUp, vars
<1>2. \A e \in Dirs : Gone(e)' = Gone(e)
  BY <1>1 DEF Gone, Load, Held
<1>3. Types' /\ WireOrdered' /\ DownOut'
  <2>1. Types'
    BY <1>1, UpDown DEF Types, DialTCP, SetTcp, DrainUp
  <2>2. WireOrdered'
    BY <1>1, <1>2 DEF WireOrdered, OnWire
  <2>3. DownOut'
    BY <1>1, <1>2, UpDown DEF DownOut, From
  <2>4. QED
    BY <2>1, <2>2, <2>3
<1>4. Senders'
  <2>1. CASE DialTCP
    BY <2>1, <1>1 DEF DialTCP, Senders, From
  <2>2. CASE SetTcp
    BY <2>2, <1>1 DEF SetTcp, Senders, From
  <2>3. CASE DrainUp
    <3>1. "up" \in opened /\ Len(wire["up"]) <= MaxBuffered /\ dial' = dial
          /\ gate' = [gate EXCEPT !["up"] = "clear"]
      BY <2>3 DEF DrainUp
    <3>2. gate'["down"] = gate["down"]
      BY <3>1, UpDown DEF Types
    <3>3. QED
      BY <3>1, <3>2, <1>1 DEF Senders, From
  <2>4. CASE UNCHANGED vars
    BY <2>4 DEF vars, Senders, From
  <2>5. QED
    BY <2>1, <2>2, <2>3, <2>4
<1>5. dial = "set" => dial' = "set"
  BY <1>1 DEF DialTCP, SetTcp
<1>6. QED
  BY <1>1, <1>2, <1>3, <1>4, <1>5, UpDown DEF Quiet

\* The read buffer holds at most ChunkMax bytes, so the chunk fits.
LEMMA ReadUpKeeps ==
    ASSUME DInv, NEW n \in Sizes, ReadUp(n)
    PROVE  DInv' /\ Quiet
<1> USE DEF DInv
<1> DEFINE data == Slice(sent["up"], n)
<1>1. /\ n \in Nat /\ n >= 1 /\ n <= ChunkMax
      /\ sent["up"] \in Nat /\ Len(wire["up"]) \in Nat /\ warm["up"] \in Nat
      /\ wire["up"] \in Seq(Int)
  BY UpDown, LenProperties, TunnelAssumption DEF Sizes, Types
<1>2. /\ "up" \in opened /\ Len(wire["up"]) <= MaxBuffered /\ n <= UpLen - sent["up"]
      /\ sent' = [sent EXCEPT !["up"] = sent["up"] + n]
      /\ gate' = [gate EXCEPT !["up"] = "idle"]
      /\ wire' = Queued("up", data)
      /\ UNCHANGED <<kind, opened, chunk, warm, dial, hsDone, hsBuf, out>>
  BY DEF ReadUp, Senders
<1>3. data \in Seq(Int) /\ Len(data) = n /\ From(data, sent["up"])
  <2>1. sent["up"] \in Int
    BY <1>1
  <2>2. QED
    BY <2>1, <1>1, SliceIsSeq
<1> HIDE DEF data
<1>4. Len(wire["up"]) + Len(data) <= Capacity
  BY <1>1, <1>2, <1>3, TunnelAssumption
<1>5. /\ wire' \in [Dirs -> Seq(Int)] /\ Len(wire'["up"]) = Len(wire["up"]) + n
      /\ wire'["down"] = wire["down"]
  BY <1>2, <1>3, <1>4, SendFits, UpDown
<1>6. /\ sent'["up"] = sent["up"] + n /\ sent'["down"] = sent["down"]
      /\ gate'["up"] = "idle" /\ gate'["down"] = gate["down"]
      /\ sent' \in [Dirs -> Nat] /\ gate' \in [Dirs -> {"idle", "clear", "hold"}]
  BY <1>1, <1>2, UpDown DEF Types
<1>7. Gone("up") = sent["up"] - Load("up") /\ Load("up") = Len(wire["up"]) - warm["up"]
  BY <1>1, <1>2, UpDown DEF Gone, Held, Load
<1>8. Gone("up")' = Gone("up")
  <2>1. Gone("up")' = sent'["up"] - Load("up")' /\ Load("up")' = Len(wire'["up"]) - warm["up"]
    BY <1>1, <1>2, <1>5, <1>6, UpDown DEF Gone, Held, Load
  <2>2. QED
    BY <2>1, <1>1, <1>5, <1>6, <1>7
<1>9. Gone("down")' = Gone("down")
  BY <1>2, <1>5, <1>6 DEF Gone, Held, Load
<1>10. From(data, Gone("up") + Load("up"))
  <2>1. Gone("up") + Load("up") = sent["up"]
    BY <1>1, <1>7
  <2>2. QED
    BY <2>1, <1>3
<1>11. WireOrdered'
  BY <1>2, <1>3, <1>4, <1>8, <1>9, <1>10, UpDown, SendInOrder
<1>12. Types'
  <2>1. sent'["up"] <= UpLen
    BY <1>1, <1>2, <1>6, TunnelAssumption
  <2>2. QED
    BY <2>1, <1>2, <1>5, <1>6 DEF Types
<1>13. Senders'
  BY <1>2, <1>6 DEF Senders, From
<1>14. DownOut'
  BY <1>2, <1>9 DEF DownOut, From
<1>15. QED
  BY <1>2, <1>8, <1>11, <1>12, <1>13, <1>14 DEF Quiet

\* readLoop reads the next chunk and keeps it.
LEMMA ReadDownKeeps ==
    ASSUME DInv, NEW n \in Sizes, ReadDown(n)
    PROVE  DInv' /\ Quiet
<1> USE DEF DInv
<1>1. /\ n \in Nat /\ n >= 1 /\ n <= ChunkMax /\ sent["down"] \in Nat
      /\ Len(wire["down"]) \in Nat /\ warm["down"] \in Nat
  BY UpDown, LenProperties, TunnelAssumption DEF Sizes, Types
<1>2. /\ "down" \in opened /\ dial # "no" /\ Len(chunk) = 0 /\ n <= DownLen - sent["down"]
      /\ sent' = [sent EXCEPT !["down"] = sent["down"] + n]
      /\ gate' = [gate EXCEPT !["down"] = "hold"]
      /\ chunk' = Slice(sent["down"], n)
      /\ UNCHANGED <<kind, opened, wire, warm, dial, hsDone, hsBuf, out>>
  BY EmptySeq DEF ReadDown, Senders
<1>3. chunk' \in Seq(Int) /\ Len(chunk') = n /\ From(chunk', sent["down"])
  <2>1. sent["down"] \in Int
    BY <1>1
  <2>2. QED
    BY <2>1, <1>1, <1>2, SliceIsSeq
<1>4. /\ sent'["down"] = sent["down"] + n /\ sent'["up"] = sent["up"]
      /\ gate'["down"] = "hold" /\ gate'["up"] = gate["up"]
      /\ sent' \in [Dirs -> Nat] /\ gate' \in [Dirs -> {"idle", "clear", "hold"}]
  BY <1>1, <1>2, UpDown DEF Types
<1>5. Gone("up")' = Gone("up")
  BY <1>2, <1>4, UpDown DEF Gone, Held, Load
<1>6. Gone("down")' = Gone("down")
  <2>1. Load("down")' = Load("down") /\ Load("down") \in Int
    BY <1>1, <1>2 DEF Load
  <2>2. Held("down") = 0 /\ Held("down")' = n
    BY <1>2, <1>3 DEF Held
  <2>3. QED
    BY <2>1, <2>2, <1>1, <1>4 DEF Gone
<1>7. WireOrdered'
  BY <1>2, <1>5, <1>6, UpDown DEF WireOrdered, OnWire
<1>8. Types'
  <2>1. sent'["down"] <= DownLen
    BY <1>1, <1>2, <1>4, TunnelAssumption
  <2>2. QED
    BY <2>1, <1>2, <1>3, <1>4 DEF Types
<1>9. From(chunk', sent'["down"] - Len(chunk'))
  <2>1. sent'["down"] - Len(chunk') = sent["down"]
    BY <1>1, <1>3, <1>4
  <2>2. QED
    BY <2>1, <1>3
<1>10. Senders'
  BY <1>1, <1>2, <1>3, <1>4, <1>9 DEF Senders, From
<1>11. DownOut'
  BY <1>2, <1>6 DEF DownOut, From
<1>12. QED
  BY <1>2, <1>5, <1>7, <1>8, <1>10, <1>11 DEF Quiet

\* The callback sends the chunk it waited with.
LEMMA SendDownKeeps ==
    ASSUME DInv, SendDown
    PROVE  DInv' /\ Quiet
<1> USE DEF DInv
<1>1. /\ sent["down"] \in Nat /\ Len(wire["down"]) \in Nat /\ warm["down"] \in Nat
      /\ wire["down"] \in Seq(Int) /\ chunk \in Seq(Int) /\ Len(chunk) \in Nat
  BY UpDown, LenProperties DEF Types
<1>2. /\ "down" \in opened /\ dial # "no" /\ Len(wire["down"]) <= MaxBuffered
      /\ Len(chunk) <= ChunkMax
      /\ gate' = [gate EXCEPT !["down"] = "idle"]
      /\ wire' = Queued("down", chunk) /\ chunk' = << >>
      /\ UNCHANGED <<kind, opened, sent, warm, dial, hsDone, hsBuf, out>>
  BY DEF SendDown, Senders
<1>3. chunk' \in Seq(Int) /\ Len(chunk') = 0
  BY <1>2, EmptySeq
<1>4. Len(wire["down"]) + Len(chunk) <= Capacity
  BY <1>1, <1>2, TunnelAssumption
<1>5. /\ wire' \in [Dirs -> Seq(Int)]
      /\ Len(wire'["down"]) = Len(wire["down"]) + Len(chunk)
      /\ wire'["up"] = wire["up"]
  BY <1>1, <1>2, <1>4, SendFits, UpDown
<1>6. /\ gate'["down"] = "idle" /\ gate'["up"] = gate["up"]
      /\ gate' \in [Dirs -> {"idle", "clear", "hold"}]
  BY <1>2, UpDown DEF Types
<1>7. Gone("up")' = Gone("up")
  BY <1>2, <1>5, UpDown DEF Gone, Held, Load
<1>8. /\ Load("down") = Len(wire["down"]) - warm["down"] /\ Held("down") = Len(chunk)
      /\ Load("down")' = Len(wire'["down"]) - warm["down"] /\ Held("down")' = Len(chunk')
  BY <1>2 DEF Load, Held
<1>9. Gone("down")' = Gone("down")
  <2>1. Gone("down") = sent["down"] - Held("down") - Load("down")
        /\ Gone("down")' = sent["down"] - Held("down")' - Load("down")'
    BY <1>2 DEF Gone
  <2>2. QED
    <3>1. Load("down")' = Load("down") + Held("down") /\ Held("down")' = 0
      BY <1>1, <1>3, <1>5, <1>8, SMTT(40)
    <3>2. Load("down") \in Int /\ Held("down") \in Int /\ sent["down"] \in Int
      BY <1>1, <1>8
    <3>3. QED
      BY <2>1, <3>1, <3>2
<1>10. From(chunk, Gone("down") + Load("down"))
  <2>1. Gone("down") + Load("down") = sent["down"] - Len(chunk)
    BY <1>1, <1>8 DEF Gone
  <2>2. QED
    BY <2>1 DEF Senders
<1>11. WireOrdered'
  BY <1>1, <1>2, <1>4, <1>7, <1>9, <1>10, UpDown, SendInOrder
<1>12. Types'
  BY <1>2, <1>3, <1>5, <1>6 DEF Types
<1>13. Senders'
  <2>1. From(chunk', sent'["down"] - Len(chunk')) /\ Len(chunk') <= ChunkMax
    BY <1>3, TunnelAssumption DEF From
  <2>2. QED
    BY <2>1, <1>2, <1>5, <1>6 DEF Senders, From
<1>14. DownOut'
  BY <1>2, <1>9 DEF DownOut, From
<1>15. QED
  BY <1>2, <1>7, <1>11, <1>12, <1>13, <1>14 DEF Quiet

\* The joiner writes what it received behind what it wrote before.
LEMMA ReceiveDownKeeps ==
    ASSUME DInv, NEW n \in Sizes, ReceiveDown(n)
    PROVE  /\ DInv' /\ Quiet
           /\ Len(out'["down"]) >= Len(out["down"])
<1> USE DEF DInv
<1> DEFINE p == Payload("down", n)
<1>1. /\ n <= Len(wire["down"]) /\ Received("down", n)
      /\ out' = [out EXCEPT !["down"] = out["down"] \o p]
      /\ UNCHANGED <<kind, opened, sent, gate, chunk, dial, hsDone, hsBuf>>
  BY DEF ReceiveDown
<1>2. UNCHANGED <<opened, sent, chunk>>
  BY <1>1
<1>3. /\ wire' \in [Dirs -> Seq(Int)] /\ warm' \in [Dirs -> Nat]
      /\ p \in Seq(Int) /\ From(p, Gone("down"))
      /\ Gone("down")' = Gone("down") + Len(p)
      /\ Gone("up")' = Gone("up") /\ wire'["up"] = wire["up"]
      /\ WireOrdered'
  BY <1>1, <1>2, UpDown, TakeInOrder
<1> HIDE DEF p
<1>4. /\ out["down"] \in Seq(Int) /\ Len(out["down"]) \in Nat /\ Len(p) \in Nat
      /\ From(out["down"], 0) /\ Len(out["down"]) = Gone("down")
  BY <1>3, UpDown, LenProperties DEF Types, DownOut
<1>5. Gone("down") = 0 + Len(out["down"]) /\ Gone("down") \in Int /\ 0 \in Int
  BY <1>4
<1>6. /\ out["down"] \o p \in Seq(Int) /\ From(out["down"] \o p, 0)
      /\ Len(out["down"] \o p) = Len(out["down"]) + Len(p)
  BY <1>3, <1>4, <1>5, JoinFrom
<1>7. /\ out' \in [Dirs -> Seq(Int)] /\ out'["up"] = out["up"]
      /\ out'["down"] = out["down"] \o p
  BY <1>1, <1>6, UpDown DEF Types
<1>8. DownOut'
  BY <1>3, <1>4, <1>6, <1>7 DEF DownOut, From
<1>9. Types'
  BY <1>1, <1>3, <1>7 DEF Types
<1>10. Senders'
  BY <1>1, <1>3 DEF Senders, From
<1>11. Len(out'["down"]) >= Len(out["down"])
  BY <1>4, <1>6, <1>7
<1>12. QED
  BY <1>1, <1>3, <1>7, <1>8, <1>9, <1>10, <1>11 DEF Quiet

(***************************************************************************)
(* onPeerData and feedHandshake.                                           *)
(***************************************************************************)

\* The packet at the start of the stream is the handshake, and it is replaced.
LEMMA RewriteFront ==
    ASSUME NEW buf \in Seq(Int), Decided(buf)
    PROVE  /\ Rewritten(buf) \in Seq(Int)
           /\ kind # "good" => Rewritten(buf) = buf
           /\ kind = "good" /\ From(buf, 0) =>
                 /\ Len(buf) >= HsLen
                 /\ Rewritten(buf) = <<Marker>> \o SubSeq(buf, HsLen + 1, Len(buf))
                 /\ Len(Rewritten(buf)) = (Len(buf) - HsLen) + 1
                 /\ FromUp("good", Rewritten(buf))
<1>1. HsLen \in Nat /\ HsLen >= 1 /\ Len(buf) \in Nat
  BY TunnelAssumption, LenProperties
<1>2. CASE kind # "good"
  BY <1>2 DEF Rewritten
<1>3. CASE kind = "good"
  <2> DEFINE hs == SubSeq(buf, 1, HsLen)
             rest == SubSeq(buf, HsLen + 1, Len(buf))
             new == <<Marker>> \o rest
  <2>1. Len(buf) >= HsLen
    BY <1>3 DEF Decided
  <2>2. /\ rest \in Seq(Int) /\ Len(rest) = Len(buf) - HsLen
        /\ \A i \in 1 .. Len(buf) - HsLen : rest[i] = buf[HsLen + i]
    BY <1>1, <2>1, CutIsSeq, SMTT(40)
  <2>3. <<Marker>> \in Seq(Int) /\ Len(<<Marker>>) = 1 /\ <<Marker>>[1] = Marker
    BY DEF Marker
  <2>4. /\ new \in Seq(Int) /\ Len(new) = 1 + Len(rest)
        /\ \A i \in 1 .. 1 + Len(rest) : new[i] = IF i <= 1 THEN <<Marker>>[i] ELSE rest[i - 1]
    BY <2>2, <2>3, ConcatProperties
  <2>5. /\ Rewritten(buf) = IF hs = Slice(0, HsLen) THEN new ELSE buf
    BY <1>3 DEF Rewritten
  <2>6. ASSUME From(buf, 0)
        PROVE  hs = Slice(0, HsLen)
    <3>1. /\ hs \in Seq(Int) /\ Len(hs) = HsLen
          /\ \A i \in 1 .. HsLen : hs[i] = buf[i]
      <4>1. /\ SubSeq(buf, 0 + 1, HsLen) \in Seq(Int)
            /\ Len(SubSeq(buf, 0 + 1, HsLen)) = HsLen - 0
            /\ \A i \in 1 .. HsLen - 0 : SubSeq(buf, 0 + 1, HsLen)[i] = buf[0 + i]
        BY <1>1, <2>1, CutIsSeq
      <4>2. QED
        BY <4>1, <1>1
    <3>2. /\ Slice(0, HsLen) \in Seq(Int) /\ Len(Slice(0, HsLen)) = HsLen
          /\ From(Slice(0, HsLen), 0)
      BY <1>1, SliceIsSeq
    <3> HIDE DEF hs
    <3>3. \A i \in 1 .. HsLen : hs[i] = Slice(0, HsLen)[i]
      BY <3>1, <3>2, <2>1, <2>6, <1>1 DEF From
    <3>4. QED
      BY <3>1, <3>2, <3>3, SeqEqual
  <2> HIDE DEF hs, rest, new
  <2>7. ASSUME From(buf, 0)
        PROVE  FromUp("good", new)
    <3> SUFFICES ASSUME NEW i \in 1 .. Len(new)
                 PROVE  new[i] = UpByte("good", i)
      BY DEF FromUp
    <3>1. CASE i = 1
      <4>1. 1 \in 1 .. 1 + Len(rest) /\ 1 <= 1
        BY <2>1, <2>2, <1>1
      <4>2. new[1] = <<Marker>>[1]
        BY <4>1, <2>4
      <4>3. new[1] = Marker
        BY <4>2, <2>3
      <4>4. QED
        BY <3>1, <4>3 DEF UpByte
    <3>2. CASE i # 1
      <4>1. i - 1 \in 1 .. Len(buf) - HsLen /\ ~(i <= 1) /\ i \in Int /\ i \in 1 .. 1 + Len(rest)
        BY <3>2, <2>1, <2>2, <2>4, <1>1
      <4>2. new[i] = rest[i - 1] /\ rest[i - 1] = buf[HsLen + (i - 1)]
        BY <4>1, <2>2, <2>4
      <4>3. HsLen + (i - 1) \in 1 .. Len(buf)
        BY <4>1, <1>1
      <4>4. buf[HsLen + (i - 1)] = HsLen + (i - 1)
        BY <4>3, <4>1, <1>1, <2>7 DEF From
      <4>5. QED
        BY <3>2, <4>2, <4>4 DEF UpByte
    <3>3. QED
      BY <3>1, <3>2
  <2>8. Len(new) = (Len(buf) - HsLen) + 1
    BY <2>2, <2>4, <1>1
  <2>9. QED
    BY <1>3, <2>1, <2>4, <2>5, <2>6, <2>7, <2>8 DEF new, rest
<1>4. QED
  BY <1>2, <1>3

\* Once the handshake is decided the rest of the stream follows as it comes.
LEMMA JoinUp ==
    ASSUME NEW k, NEW s \in Seq(Int), NEW t \in Seq(Int), NEW h \in Nat,
           FromUp(k, s), From(t, h),
           k = "good" => h >= HsLen /\ Len(s) = (h - HsLen) + 1,
           k # "good" => Len(s) = h
    PROVE  s \o t \in Seq(Int) /\ Len(s \o t) = Len(s) + Len(t) /\ FromUp(k, s \o t)
<1>1. Len(s) \in Nat /\ Len(t) \in Nat /\ HsLen \in Nat
  BY LenProperties, TunnelAssumption
<1>2. /\ s \o t \in Seq(Int)
      /\ Len(s \o t) = Len(s) + Len(t)
      /\ \A i \in 1 .. Len(s) + Len(t) : (s \o t)[i] =
             IF i <= Len(s) THEN s[i] ELSE t[i - Len(s)]
  BY ConcatProperties
<1>3. ASSUME NEW i \in 1 .. Len(s) + Len(t)
      PROVE  (s \o t)[i] = UpByte(k, i)
  <2>1. CASE i <= Len(s)
    BY <2>1, <1>1, <1>2 DEF FromUp
  <2>2. CASE ~(i <= Len(s))
    <3>1. i - Len(s) \in 1 .. Len(t) /\ i \in Int
      BY <2>2, <1>1
    <3>2. t[i - Len(s)] = h + (i - Len(s))
      BY <3>1 DEF From
    <3>3. h + (i - Len(s)) = UpByte(k, i)
      <4>1. CASE k = "good"
        <5>1. UpByte(k, i) = HsLen + (i - 1)
          BY <4>1, <2>2, <3>1, <1>1 DEF UpByte
        <5>2. Len(s) = (h - HsLen) + 1
          BY <4>1
        <5>3. QED
          BY <5>1, <5>2, <3>1, <1>1
      <4>2. CASE k # "good"
        <5>1. Len(s) = h /\ UpByte(k, i) = i
          BY <4>2 DEF UpByte
        <5>2. QED
          BY <5>1, <3>1, <1>1
      <4>3. QED
        BY <4>1, <4>2
    <3>4. QED
      BY <2>2, <3>2, <3>3, <1>2
  <2>3. QED
    BY <2>1, <2>2
<1>4. QED
  BY <1>2, <1>3 DEF FromUp

\* onPeerData writes to the server only.
LEMMA PeerDataTypes ==
    ASSUME Types, NEW data \in Seq(Int), OnPeerData(data)
    PROVE  /\ hsDone' \in BOOLEAN /\ hsBuf' \in Seq(Int)
           /\ out' \in [Dirs -> Seq(Int)] /\ out'["down"] = out["down"]
<1> DEFINE buf == hsBuf \o data
<1>1. /\ hsBuf \in Seq(Int) /\ out \in [Dirs -> Seq(Int)] /\ out["up"] \in Seq(Int)
      /\ hsDone \in BOOLEAN /\ buf \in Seq(Int)
  BY ConcatProperties, UpDown DEF Types
<1>2. CASE UNCHANGED <<hsDone, hsBuf, out>>
  BY <1>2, <1>1
<1>3. CASE out' = [out EXCEPT !["up"] = out["up"] \o data] /\ UNCHANGED <<hsDone, hsBuf>>
  <2>1. out["up"] \o data \in Seq(Int)
    BY <1>1, ConcatProperties
  <2>2. QED
    BY <1>1, <1>3, <2>1, UpDown
<1>4. CASE /\ Decided(buf) /\ out' = [out EXCEPT !["up"] = out["up"] \o Rewritten(buf)]
           /\ hsDone' = TRUE /\ hsBuf' = << >>
  <2>1. Rewritten(buf) \in Seq(Int)
    BY <1>1, <1>4, RewriteFront
  <2>2. out["up"] \o Rewritten(buf) \in Seq(Int)
    BY <1>1, <2>1, ConcatProperties
  <2>3. << >> \in Seq(Int)
    BY EmptySeq
  <2>4. QED
    BY <1>1, <1>4, <2>2, <2>3, UpDown
<1>5. CASE hsBuf' = buf /\ UNCHANGED <<hsDone, out>>
  BY <1>1, <1>5
<1>6. QED
  BY <1>2, <1>3, <1>4, <1>5 DEF OnPeerData

\* The host receives: nothing of the way down changes.
LEMMA ReceiveUpKeeps ==
    ASSUME DInv, NEW n \in Sizes, ReceiveUp(n)
    PROVE  /\ DInv' /\ out'["down"] = out["down"]
           /\ Payload("up", n) \in Seq(Int) /\ From(Payload("up", n), Gone("up"))
           /\ Gone("up")' = Gone("up") + Len(Payload("up", n))
<1> USE DEF DInv
<1> DEFINE p == Payload("up", n)
<1>1. /\ n <= Len(wire["up"]) /\ Received("up", n) /\ OnPeerData(p)
      /\ UNCHANGED <<kind, opened, sent, gate, chunk, dial>>
  BY DEF ReceiveUp
<1>2. UNCHANGED <<opened, sent, chunk>>
  BY <1>1
<1>3. /\ wire' \in [Dirs -> Seq(Int)] /\ warm' \in [Dirs -> Nat]
      /\ p \in Seq(Int) /\ From(p, Gone("up"))
      /\ Gone("up")' = Gone("up") + Len(p)
      /\ Gone("down")' = Gone("down")
      /\ Len(wire'["up"]) <= Len(wire["up"])
      /\ WireOrdered'
  BY <1>1, <1>2, UpDown, TakeInOrder
<1> HIDE DEF p
<1>4. /\ hsDone' \in BOOLEAN /\ hsBuf' \in Seq(Int)
      /\ out' \in [Dirs -> Seq(Int)] /\ out'["down"] = out["down"]
  BY <1>1, <1>3, PeerDataTypes
<1>5. Types'
  BY <1>1, <1>3, <1>4 DEF Types
<1>6. DownOut'
  BY <1>3, <1>4 DEF DownOut, From
<1>7. Senders'
  <2>1. Len(wire["up"]) <= MaxBuffered => Len(wire'["up"]) <= MaxBuffered
    <3>1. Len(wire["up"]) \in Nat /\ Len(wire'["up"]) \in Nat /\ MaxBuffered \in Nat
      BY <1>3, UpDown, LenProperties, TunnelAssumption DEF Types
    <3>2. QED
      BY <3>1, <1>3
  <2>2. QED
    BY <2>1, <1>1 DEF Senders, From
<1>8. QED
  BY <1>3, <1>4, <1>5, <1>6, <1>7 DEF p

\* The server has got the next bytes, or handshakeBuf has.
LEMMA PeerDataKeeps ==
    ASSUME Types, UpOut, kind' = kind, dial' = dial, dial = "set",
           NEW data \in Seq(Int), data # << >>, OnPeerData(data), From(data, Gone("up")),
           Gone("up") \in Nat, Gone("up")' = Gone("up") + Len(data)
    PROVE  UpOut' /\ Len(out'["up"]) >= Len(out["up"])
<1> DEFINE buf == hsBuf \o data
           o == out["up"]
           g == Gone("up")
<1>1. /\ hsBuf \in Seq(Int) /\ out \in [Dirs -> Seq(Int)] /\ o \in Seq(Int)
      /\ Len(o) \in Nat /\ Len(data) \in Nat /\ Len(hsBuf) \in Nat /\ g \in Nat
      /\ HsLen \in Nat /\ HsLen >= 1 /\ hsDone \in BOOLEAN
  BY LenProperties, UpDown, TunnelAssumption DEF Types
<1>2. CASE hsDone \/ kind = "noKey"
  <2>1. out' = [out EXCEPT !["up"] = o \o data] /\ UNCHANGED <<hsDone, hsBuf>>
    BY <1>2 DEF OnPeerData
  <2>2. /\ FromUp(kind, o) /\ hsBuf = << >>
        /\ kind = "good" => g >= HsLen /\ Len(o) = (g - HsLen) + 1
        /\ kind # "good" => Len(o) = g
    BY <1>2 DEF UpOut
  <2>3. From(data, g)
    OBVIOUS
  <2> HIDE DEF o, g
  <2>4. /\ o \o data \in Seq(Int) /\ Len(o \o data) = Len(o) + Len(data)
        /\ FromUp(kind, o \o data)
    BY <1>1, <2>2, <2>3, JoinUp
  <2>5. out'["up"] = o \o data
    BY <2>1, <1>1, UpDown
  <2>6. Gone("up")' = g + Len(data)
    BY DEF g
  <2>7. Len(out'["up"]) >= Len(out["up"])
    BY <2>4, <2>5, <1>1 DEF o
  <2>8. FromUp(kind, out'["up"]) /\ From(hsBuf', 0)
    BY <2>1, <2>4, <2>5 DEF UpOut
  <2>9. IF kind = "good"
        THEN Gone("up")' >= HsLen /\ Len(out'["up"]) = (Gone("up")' - HsLen) + 1
        ELSE Len(out'["up"]) = Gone("up")'
    <3>1. Len(out'["up"]) = Len(o) + Len(data)
      BY <2>4, <2>5
    <3>2. CASE kind = "good"
      <4>1. g + Len(data) >= HsLen /\ Len(o) + Len(data) = ((g + Len(data)) - HsLen) + 1
        <5>1. g >= HsLen /\ Len(o) = (g - HsLen) + 1
          BY <3>2, <2>2
        <5>2. Len(data) \in Nat /\ g \in Nat /\ HsLen \in Nat
          BY <1>1
        <5>3. QED
          BY <5>1, <5>2
      <4>2. QED
        BY <3>1, <3>2, <4>1, <2>6
    <3>3. CASE kind # "good"
      BY <3>1, <3>3, <2>2, <2>6
    <3>4. QED
      BY <3>2, <3>3
  <2>10. QED
    BY <1>2, <2>1, <2>2, <2>7, <2>8, <2>9 DEF UpOut, From, FromUp, UpByte
<1>3. CASE ~(hsDone \/ kind = "noKey")
  <2>1. From(hsBuf, 0) /\ Len(o) = 0 /\ Len(hsBuf) = g /\ From(data, g)
    BY <1>3 DEF UpOut
  <2>2. o = << >>
    BY <2>1, <1>1, EmptySeq
  <2>3. g = 0 + Len(hsBuf) /\ g \in Int /\ 0 \in Int
    BY <2>1, <1>1
  <2>4. Gone("up")' = g + Len(data)
    OBVIOUS
  <2>5. IF Decided(buf)
        THEN /\ out' = [out EXCEPT !["up"] = o \o Rewritten(buf)]
             /\ hsDone' = TRUE /\ hsBuf' = << >>
        ELSE hsBuf' = buf /\ UNCHANGED <<hsDone, out>>
    BY <1>3 DEF OnPeerData
  <2> HIDE DEF g
  <2>6. buf \in Seq(Int) /\ Len(buf) = Len(hsBuf) + Len(data) /\ From(buf, 0)
    BY <1>1, <2>1, <2>3, JoinFrom
  <2> HIDE DEF buf
  <2>7. Len(buf) = Gone("up")'
    BY <2>1, <2>4, <2>6
  <2>8. CASE Decided(buf)
    <3> DEFINE r == Rewritten(buf)
    <3>1. /\ r \in Seq(Int)
          /\ kind # "good" => r = buf
          /\ kind = "good" => /\ Len(buf) >= HsLen /\ Len(r) = (Len(buf) - HsLen) + 1
                              /\ FromUp("good", r)
      BY <2>6, <2>8, RewriteFront
    <3> HIDE DEF r
    <3>2. o \o r = r
      BY <2>2, <3>1, ConcatEmptySeq
    <3>3. out'["up"] = r /\ hsDone' = TRUE /\ hsBuf' = << >>
      BY <2>5, <2>8, <3>2, <1>1, UpDown DEF r
    <3>4. FromUp(kind, r)
      BY SMTT(40), <3>1, <2>6 DEF From, FromUp, UpByte
    <3>5. Len(r) \in Nat
      BY <3>1, LenProperties
    <3>6. Len(out'["up"]) >= Len(out["up"])
      BY <3>3, <3>5, <2>1 DEF o
    <3>7. From(hsBuf', 0)
      BY <3>3, EmptySeq DEF From
    <3>8. QED
      BY <3>1, <3>3, <3>4, <3>6, <3>7, <2>7 DEF UpOut, From, FromUp, UpByte
  <2>9. CASE ~Decided(buf)
    <3>1. hsBuf' = buf /\ UNCHANGED <<hsDone, out>>
      BY <2>5, <2>9
    <3>2. FromUp(kind, out["up"]) /\ Len(out'["up"]) = 0 /\ Len(out["up"]) = 0
      BY <3>1, <2>1 DEF UpOut, o
    <3>3. QED
      BY <1>3, <3>1, <3>2, <2>6, <2>7 DEF UpOut, From, FromUp, UpByte
  <2>10. QED
    BY <2>8, <2>9
<1>4. QED
  BY <1>2, <1>3

\* The steps that leave the way up alone keep what holds of it.
LEMMA QuietKeeps ==
    ASSUME UpOut, Quiet
    PROVE  UpOut'
<1>1. /\ Gone("up")' = Gone("up") /\ out'["up"] = out["up"] /\ kind' = kind
      /\ hsDone' = hsDone /\ hsBuf' = hsBuf
      /\ (dial' # "set" => dial # "set")
  BY DEF Quiet
<1>2. dial' # "set" => Gone("up")' = 0
  BY <1>1 DEF UpOut
<1>3. From(hsBuf', 0) /\ FromUp(kind', out'["up"])
  BY <1>1 DEF UpOut
<1>4. IF hsDone' \/ kind' = "noKey"
      THEN /\ hsBuf' = << >>
           /\ IF kind' = "good"
              THEN Gone("up")' >= HsLen /\ Len(out'["up"]) = (Gone("up")' - HsLen) + 1
              ELSE Len(out'["up"]) = Gone("up")'
      ELSE Len(out'["up"]) = 0 /\ Len(hsBuf') = Gone("up")'
  BY <1>1 DEF UpOut
<1>5. QED
  BY <1>2, <1>3, <1>4 DEF UpOut, From, FromUp, UpByte

\* The host receives once the dial is over.
LEMMA ReceiveUpInOrder ==
    ASSUME IInv, EarlyData = FALSE, NEW n \in Sizes, ReceiveUp(n)
    PROVE  UpOut' /\ Len(out'["up"]) >= Len(out["up"])
<1> DEFINE p == Payload("up", n)
<1>1. /\ p \in Seq(Int) /\ From(p, Gone("up"))
      /\ Gone("up")' = Gone("up") + Len(p)
  BY ReceiveUpKeeps DEF IInv
<1>2. /\ p # << >> => dial = "set"
      /\ OnPeerData(p) /\ kind' = kind /\ dial' = dial
  BY DEF ReceiveUp
<1>3. Types /\ UpOut /\ Gone("up") \in Nat /\ out["up"] \in Seq(Int)
  BY UpDown DEF IInv, DInv, WireOrdered, Types
<1> HIDE DEF p
<1>4. CASE p = << >>
  <2>1. UNCHANGED <<hsDone, hsBuf, out>>
    BY <1>2, <1>4 DEF OnPeerData
  <2>2. Gone("up")' = Gone("up")
    BY <1>1, <1>3, <1>4, EmptySeq
  <2>3. UpOut'
    BY <2>1, <2>2, <1>2, <1>3, QuietKeeps DEF Quiet
  <2>4. Len(out["up"]) \in Nat
    BY <1>3, LenProperties
  <2>5. QED
    BY <2>1, <2>3, <2>4
<1>5. CASE p # << >>
  BY <1>1, <1>2, <1>3, <1>5, PeerDataKeeps
<1>6. QED
  BY <1>4, <1>5

\* Every step keeps the invariant of the way down, and the client's stream grows.
LEMMA DownStep ==
    ASSUME DInv, [Next]_vars
    PROVE  DInv' /\ Len(out'["down"]) >= Len(out["down"])
<1>1. out["down"] \in Seq(Int) /\ Len(out["down"]) \in Nat
  BY UpDown, LenProperties DEF DInv, Types
<1>2. CASE Opening
  <2>1. CASE DialTCP \/ SetTcp
    BY <2>1, <1>1, ControlKeeps DEF DialTCP, SetTcp
  <2>2. ASSUME NEW d \in Dirs, OnOpen(d)
        PROVE  DInv' /\ Len(out'["down"]) >= Len(out["down"])
    BY <2>2, <1>1, OnOpenKeeps DEF OnOpen
  <2>3. QED
    BY <1>2, <2>1, <2>2 DEF Opening
<1>3. CASE Up
  <2>1. CASE DrainUp
    BY <2>1, <1>1, ControlKeeps DEF DrainUp
  <2>2. ASSUME NEW n \in Sizes, ReadUp(n)
        PROVE  DInv' /\ Len(out'["down"]) >= Len(out["down"])
    <3>1. DInv' /\ out' = out
      BY <2>2, ReadUpKeeps DEF ReadUp
    <3>2. QED
      BY <3>1, <1>1
  <2>3. ASSUME NEW n \in Sizes, ReceiveUp(n)
        PROVE  DInv' /\ Len(out'["down"]) >= Len(out["down"])
    BY <2>3, <1>1, ReceiveUpKeeps
  <2>4. QED
    BY <1>3, <2>1, <2>2, <2>3 DEF Up
<1>4. CASE Down
  <2>1. CASE SendDown
    BY <2>1, <1>1, SendDownKeeps DEF SendDown
  <2>2. ASSUME NEW n \in Sizes, ReadDown(n)
        PROVE  DInv' /\ Len(out'["down"]) >= Len(out["down"])
    <3>1. DInv' /\ out' = out
      BY <2>2, ReadDownKeeps DEF ReadDown
    <3>2. QED
      BY <3>1, <1>1
  <2>3. ASSUME NEW n \in Sizes, ReceiveDown(n)
        PROVE  DInv' /\ Len(out'["down"]) >= Len(out["down"])
    BY <2>3, ReceiveDownKeeps
  <2>4. QED
    BY <1>4, <2>1, <2>2, <2>3 DEF Down
<1>5. CASE UNCHANGED vars
  BY <1>5, <1>1, ControlKeeps DEF vars
<1>6. QED
  BY <1>2, <1>3, <1>4, <1>5 DEF Next

\* With the dial over in time, every step keeps the invariant of both ways, and
\* the server's stream grows.
LEMMA UpStep ==
    ASSUME IInv, EarlyData = FALSE, [Next]_vars
    PROVE  IInv' /\ kind' = kind /\ Len(out'["up"]) >= Len(out["up"])
<1>1. DInv /\ UpOut /\ DInv'
  BY DownStep DEF IInv
<1>2. out["up"] \in Seq(Int) /\ Len(out["up"]) \in Nat
  BY <1>1, UpDown, LenProperties DEF DInv, Types
<1>3. CASE \E n \in Sizes : ReceiveUp(n)
  BY <1>1, <1>3, ReceiveUpInOrder DEF IInv, ReceiveUp
<1>4. CASE Quiet
  BY <1>1, <1>2, <1>4, QuietKeeps DEF IInv, Quiet
<1>5. Quiet \/ \E n \in Sizes : ReceiveUp(n)
  <2>1. CASE DialTCP \/ SetTcp \/ DrainUp \/ UNCHANGED vars
    BY <2>1, <1>1, ControlKeeps
  <2>2. CASE \E d \in Dirs : OnOpen(d)
    BY <2>2, <1>1, OnOpenKeeps
  <2>3. CASE SendDown
    BY <2>3, <1>1, SendDownKeeps
  <2>4. CASE \E n \in Sizes : ReadUp(n)
    BY <2>4, <1>1, ReadUpKeeps
  <2>5. CASE \E n \in Sizes : ReadDown(n)
    BY <2>5, <1>1, ReadDownKeeps
  <2>6. CASE \E n \in Sizes : ReceiveDown(n)
    BY <2>6, <1>1, ReceiveDownKeeps
  <2>7. QED
    BY <2>1, <2>2, <2>3, <2>4, <2>5, <2>6 DEF Next, Opening, Up, Down
<1>6. QED
  BY <1>3, <1>4, <1>5

(***************************************************************************)
(* The refinement: what was written out is always a beginning of the       *)
(* source, and it only grows.                                              *)
(***************************************************************************)

\* A longer beginning of the same source is a delivery.
LEMMA PrefixGrows ==
    ASSUME NEW src \in Seq(Int), NEW s \in Seq(Int), NEW t \in Seq(Int),
           \A i \in 1 .. Len(s) : s[i] = src[i], \A i \in 1 .. Len(t) : t[i] = src[i],
           Len(s) <= Len(t), Len(t) <= Len(src)
    PROVE  t = s \/ \E k \in Len(s) + 1 .. Len(src) : t = SubSeq(src, 1, k)
<1>1. Len(s) \in Nat /\ Len(t) \in Nat /\ Len(src) \in Nat
  BY LenProperties
<1>2. CASE Len(t) = Len(s)
  <2>1. \A i \in 1 .. Len(s) : t[i] = s[i]
    BY <1>2
  <2>2. QED
    BY <1>2, <2>1, SeqEqual
<1>3. CASE Len(t) # Len(s)
  <2> DEFINE u == SubSeq(src, 1, Len(t))
  <2>1. u \in Seq(Int) /\ Len(u) = Len(t) /\ \A i \in 1 .. Len(t) : u[i] = src[i]
    <3>1. /\ SubSeq(src, 0 + 1, Len(t)) \in Seq(Int)
          /\ Len(SubSeq(src, 0 + 1, Len(t))) = Len(t) - 0
          /\ \A i \in 1 .. Len(t) - 0 : SubSeq(src, 0 + 1, Len(t))[i] = src[0 + i]
      BY <1>1, CutIsSeq
    <3>2. QED
      BY <3>1, <1>1
  <2> HIDE DEF u
  <2>2. t = u
    <3>1. \A i \in 1 .. Len(t) : t[i] = u[i]
      BY <2>1
    <3>2. QED
      BY <2>1, <3>1, SeqEqual
  <2>3. Len(t) \in Len(s) + 1 .. Len(src)
    BY <1>1, <1>3
  <2>4. QED
    BY <2>2, <2>3 DEF u
<1>4. QED
  BY <1>2, <1>3

\* No more bytes are received than were read from the sending socket.
LEMMA GoneBound ==
    ASSUME DInv
    PROVE  Gone("up") <= UpLen /\ Gone("down") <= DownLen
<1>1. ASSUME NEW d \in Dirs
      PROVE  Gone(d) <= sent[d]
  <2>1. /\ sent[d] \in Nat /\ Len(wire[d]) \in Nat /\ warm[d] \in Nat /\ Len(chunk) \in Nat
        /\ d \in opened => warm[d] <= Len(wire[d])
    BY LenProperties DEF DInv, Types, WireOrdered, OnWire
  <2>2. Load(d) \in Nat /\ Held(d) \in Nat
    BY <2>1 DEF Load, Held
  <2>3. QED
    BY <2>1, <2>2 DEF Gone
<1>2. /\ sent["up"] \in Nat /\ sent["down"] \in Nat /\ sent["up"] <= UpLen
      /\ sent["down"] <= DownLen /\ Gone("up") \in Nat /\ Gone("down") \in Nat
  BY UpDown DEF DInv, Types, WireOrdered
<1>3. Gone("up") <= sent["up"] /\ Gone("down") <= sent["down"]
  BY <1>1, UpDown
<1>4. QED
  BY <1>2, <1>3, TunnelAssumption

\* What the client has got is a beginning of the server's stream.
LEMMA DownPrefix ==
    ASSUME DInv
    PROVE  /\ out["down"] \in Seq(Int) /\ Len(out["down"]) <= DownLen
           /\ \A i \in 1 .. Len(out["down"]) : out["down"][i] = Slice(0, DownLen)[i]
<1>1. /\ out["down"] \in Seq(Int) /\ Len(out["down"]) \in Nat /\ DownLen \in Nat
      /\ Len(out["down"]) = Gone("down") /\ From(out["down"], 0)
  BY UpDown, LenProperties, TunnelAssumption DEF DInv, Types, DownOut
<1>2. Len(out["down"]) <= DownLen
  BY <1>1, GoneBound
<1>3. Len(Slice(0, DownLen)) = DownLen /\ From(Slice(0, DownLen), 0)
  BY <1>1, SliceIsSeq
<1>4. QED
  BY <1>1, <1>2, <1>3 DEF From

\* The stream the server should see, byte by byte.
LEMMA UpSourceBytes ==
    ASSUME kind \in Kinds
    PROVE  /\ UpSource \in Seq(Int) /\ FromUp(kind, UpSource)
           /\ Len(UpSource) = IF kind = "good" THEN (UpLen - HsLen) + 1 ELSE UpLen
<1> DEFINE src == Slice(0, UpLen)
<1>1. UpLen \in Nat /\ HsLen \in Nat /\ HsLen >= 1 /\ UpLen >= HsLen
  BY TunnelAssumption
<1>2. src \in Seq(Int) /\ Len(src) = UpLen /\ From(src, 0)
  BY <1>1, SliceIsSeq
<1>3. UpSource = IF kind = "good" THEN <<Marker>> \o SubSeq(src, HsLen + 1, UpLen) ELSE src
  BY DEF UpSource
<1> HIDE DEF src
<1>4. CASE kind = "good"
  <2>1. Decided(src)
    BY <1>1, <1>2, <1>4 DEF Decided
  <2>2. /\ Rewritten(src) \in Seq(Int)
        /\ Rewritten(src) = <<Marker>> \o SubSeq(src, HsLen + 1, Len(src))
        /\ Len(Rewritten(src)) = (Len(src) - HsLen) + 1
        /\ FromUp("good", Rewritten(src))
    BY <2>1, <1>2, <1>4, RewriteFront
  <2>3. QED
    BY <2>2, <1>2, <1>3, <1>4
<1>5. CASE kind # "good"
  BY <1>2, <1>3, <1>5 DEF From, FromUp, UpByte
<1>6. QED
  BY <1>4, <1>5

\* What the server has got is a beginning of it.
LEMMA UpPrefix ==
    ASSUME IInv
    PROVE  /\ out["up"] \in Seq(Int) /\ Len(out["up"]) <= Len(UpSource)
           /\ \A i \in 1 .. Len(out["up"]) : out["up"][i] = UpSource[i]
<1>1. /\ out["up"] \in Seq(Int) /\ Len(out["up"]) \in Nat /\ kind \in Kinds
      /\ UpLen \in Nat /\ HsLen \in Nat /\ HsLen <= UpLen /\ Gone("up") \in Nat
      /\ hsDone \in BOOLEAN
  BY UpDown, LenProperties, TunnelAssumption DEF IInv, DInv, Types, WireOrdered
<1>2. Gone("up") <= UpLen
  BY GoneBound DEF IInv
<1>3. /\ UpSource \in Seq(Int) /\ FromUp(kind, UpSource)
      /\ Len(UpSource) = IF kind = "good" THEN (UpLen - HsLen) + 1 ELSE UpLen
  BY <1>1, UpSourceBytes
<1>4. FromUp(kind, out["up"])
  BY DEF IInv, UpOut
<1>5. \/ Len(out["up"]) = 0
      \/ kind = "good" /\ Len(out["up"]) = (Gone("up") - HsLen) + 1
      \/ kind # "good" /\ Len(out["up"]) = Gone("up")
  BY <1>1 DEF IInv, UpOut
<1>6. Len(out["up"]) <= Len(UpSource)
  <2>1. CASE kind = "good"
    BY <2>1, <1>1, <1>2, <1>3, <1>5
  <2>2. CASE kind # "good"
    BY <2>2, <1>1, <1>2, <1>3, <1>5
  <2>3. QED
    BY <2>1, <2>2
<1>7. ASSUME NEW i \in 1 .. Len(out["up"])
      PROVE  out["up"][i] = UpSource[i]
  <2>1. i \in 1 .. Len(UpSource)
    <3>1. Len(UpSource) \in Nat
      BY <1>3, LenProperties
    <3>2. QED
      BY <3>1, <1>1, <1>6
  <2>2. QED
    BY <2>1, <1>3, <1>4 DEF FromUp
<1>8. QED
  BY <1>1, <1>6, <1>7

\* The way down implements BytePipe: whatever the sizes of the reads and of the
\* messages, the Minecraft client reads the server's bytes in order, each once; the
\* wait for the send queue in attachTCP's callback leaves room for every chunk, so
\* no dc.Send is swallowed, and exactly the warm-up bytes are removed.
THEOREM DownImplementsPipe == Spec => DownIsPipe
<1>1. Init => DInv /\ DownPipe!Init
  <2>1. Init => out["down"] = << >>
    BY UpDown DEF Init
  <2>2. QED
    BY <2>1, InitInv DEF IInv, DownPipe!Init
<1>2. DInv /\ [Next]_vars => DInv'
  BY DownStep
<1>3. DInv /\ DInv' /\ [Next]_vars =>
        [DownPipe!Deliver]_<<Slice(0, DownLen), out["down"]>>
  <2> SUFFICES ASSUME DInv, DInv', [Next]_vars
               PROVE  [DownPipe!Deliver]_<<Slice(0, DownLen), out["down"]>>
    OBVIOUS
  <2> DEFINE src == Slice(0, DownLen)
             s == out["down"]
             t == out'["down"]
  <2>1. src \in Seq(Int) /\ Len(src) = DownLen
    BY SliceIsSeq, TunnelAssumption
  <2>2. /\ s \in Seq(Int) /\ Len(s) <= DownLen
        /\ \A i \in 1 .. Len(s) : s[i] = src[i]
    BY DownPrefix
  <2>3. /\ t \in Seq(Int) /\ Len(t) <= DownLen
        /\ \A i \in 1 .. Len(t) : t[i] = src[i]
    <3>1. (/\ out["down"] \in Seq(Int) /\ Len(out["down"]) <= DownLen
           /\ \A i \in 1 .. Len(out["down"]) : out["down"][i] = Slice(0, DownLen)[i])'
      BY DownPrefix, PTL
    <3>2. QED
      BY <3>1 DEF Slice
  <2>4. Len(s) <= Len(t)
    <3>1. Len(s) \in Nat /\ Len(t) \in Nat /\ Len(t) >= Len(s)
      BY <2>2, <2>3, LenProperties, DownStep
    <3>2. QED
      BY <3>1
  <2> HIDE DEF src, s, t
  <2>5. t = s \/ \E k \in Len(s) + 1 .. Len(src) : t = SubSeq(src, 1, k)
    BY <2>1, <2>2, <2>3, <2>4, PrefixGrows
  <2>6. src' = src
    BY DEF src, Slice
  <2>7. QED
    BY <2>5, <2>6 DEF src, s, t, DownPipe!Deliver
<1>4. QED
  BY <1>1, <1>2, <1>3, PTL DEF Spec, DownIsPipe, DownPipe!Spec

\* The way up implements BytePipe when the host's dial is over before the client's
\* first byte arrives (without that, the run tunnel_early loses data): the
\* Minecraft server reads the client's bytes in order, each once, with exactly the
\* handshake packet replaced, and only when it can be decoded; holding back an
\* incomplete packet in handshakeBuf neither loses nor reorders what follows it.
THEOREM UpImplementsPipe ==
    ASSUME EarlyData = FALSE
    PROVE  Spec => UpIsPipe
<1>1. Init => IInv /\ UpPipe!Init
  <2>1. Init => out["up"] = << >>
    BY UpDown DEF Init
  <2>2. QED
    BY <2>1, InitInv DEF UpPipe!Init
<1>2. IInv /\ [Next]_vars => IInv'
  BY UpStep
<1>3. IInv /\ IInv' /\ [Next]_vars => [UpPipe!Deliver]_<<UpSource, out["up"]>>
  <2> SUFFICES ASSUME IInv, IInv', [Next]_vars
               PROVE  [UpPipe!Deliver]_<<UpSource, out["up"]>>
    OBVIOUS
  <2> DEFINE src == UpSource
             s == out["up"]
             t == out'["up"]
  <2>1. kind \in Kinds
    BY DEF IInv, DInv, Types
  <2>2. src \in Seq(Int)
    BY <2>1, UpSourceBytes
  <2>3. src' = src
    <3>1. kind' = kind
      BY UpStep
    <3>2. QED
      BY <3>1 DEF UpSource, Slice, Marker
  <2>4. /\ s \in Seq(Int) /\ Len(s) <= Len(src)
        /\ \A i \in 1 .. Len(s) : s[i] = src[i]
    BY UpPrefix
  <2>5. /\ t \in Seq(Int) /\ Len(t) <= Len(src)
        /\ \A i \in 1 .. Len(t) : t[i] = src[i]
    <3>1. (/\ out["up"] \in Seq(Int) /\ Len(out["up"]) <= Len(UpSource)
           /\ \A i \in 1 .. Len(out["up"]) : out["up"][i] = UpSource[i])'
      BY UpPrefix, PTL
    <3>2. QED
      BY <3>1, <2>3
  <2>6. Len(s) <= Len(t)
    <3>1. Len(s) \in Nat /\ Len(t) \in Nat /\ Len(t) >= Len(s)
      BY <2>4, <2>5, LenProperties, UpStep
    <3>2. QED
      BY <3>1
  <2> HIDE DEF src, s, t
  <2>7. t = s \/ \E k \in Len(s) + 1 .. Len(src) : t = SubSeq(src, 1, k)
    BY <2>2, <2>4, <2>5, <2>6, PrefixGrows
  <2>8. QED
    BY <2>3, <2>7 DEF src, s, t, UpPipe!Deliver
<1>4. QED
  BY <1>1, <1>2, <1>3, PTL DEF Spec, UpIsPipe, UpPipe!Spec

===================================================================================
