----------------------------- MODULE HostManagerProofs -----------------------------
(***************************************************************************)
(* The host bridge keeps track of its sessions, for any set of OFFERs, any  *)
(* assignment of session ids, any interleaving of their goroutines and of   *)
(* HostManager.Close.  The proofs look at the set of calls a goroutine      *)
(* still has to make, Left, and at what may follow a call, After.  The last *)
(* part is about OFFERs with distinct ids while the manager is not closed   *)
(* (Apart): sessions then leave each other alone.                           *)
(***************************************************************************)
EXTENDS HostManager, SequenceTheorems, TLAPS

\* The calls in a sequence of calls, and those goroutine t still has to make.
Rng(q) == {q[i] : i \in 1 .. Len(q)}
Left(t) == Rng(todo[t])
Someone(op, o) == \E t \in Goroutines : <<op, o>> \in Left(t)

StartOps == {"turn", "register", "commit", "new", "handleOffer", "answer"}

\* What may still have to be done after the call x: startSession goes on in its
\* order, the waiting goroutine and HostManager.Close are at their last call.
After(x) ==
    IF x[1] \in {"turn", "answer", "waitOpen", "dial", "stop"} THEN {}
    ELSE IF x[1] = "handleOffer" THEN {<<"answer", x[2]>>}
    ELSE IF x[1] = "new" THEN {<<"handleOffer", x[2]>>, <<"answer", x[2]>>}
    ELSE IF x[1] \in {"register", "commit"}
         THEN {<<"new", x[2]>>, <<"handleOffer", x[2]>>, <<"answer", x[2]>>}
    ELSE Calls

Ordered(q) == \A i, j \in 1 .. Len(q) : i < j => q[j] \in After(q[i])
Orders == \A t \in Goroutines : Ordered(todo[t])

(***************************************************************************)
(* Sequences of calls.                                                     *)
(***************************************************************************)

\* The calls of a sequence are its head and those of its tail.
LEMMA RngHead ==
    ASSUME NEW q \in Seq(Calls), q # << >>
    PROVE  /\ Head(q) \in Calls /\ Tail(q) \in Seq(Calls)
           /\ Rng(q) = {Head(q)} \cup Rng(Tail(q)) /\ Rng(q) \subseteq Calls
<1>1. Len(q) \in Nat /\ Len(q) >= 1 /\ \A i \in 1 .. Len(q) : q[i] \in Calls
  BY LenProperties, EmptySeq
<1>2. /\ Head(q) = q[1] /\ Tail(q) \in Seq(Calls) /\ Len(Tail(q)) = Len(q) - 1
      /\ \A i \in 1 .. Len(q) - 1 : Tail(q)[i] = q[i + 1]
  BY HeadTailProperties
<1>3. \A i \in 2 .. Len(q) : i - 1 \in 1 .. Len(q) - 1 /\ Tail(q)[i - 1] = q[i]
  BY <1>1, <1>2
<1>4. \A i \in 1 .. Len(q) - 1 : i + 1 \in 1 .. Len(q)
  BY <1>1
<1>5. 1 \in 1 .. Len(q) /\ \A i \in 1 .. Len(q) : i = 1 \/ i \in 2 .. Len(q)
  BY <1>1
<1>6. Rng(q) = {Head(q)} \cup Rng(Tail(q))
  <2> DEFINE r == Tail(q)
  <2>1. Len(r) = Len(q) - 1 /\ \A i \in 1 .. Len(q) - 1 : r[i] = q[i + 1]
    BY <1>2
  <2>2. \A i \in 2 .. Len(q) : i - 1 \in 1 .. Len(r) /\ r[i - 1] = q[i]
    BY <1>3, <2>1
  <2> HIDE DEF r
  <2>3. ASSUME NEW i \in 1 .. Len(q)
        PROVE  q[i] \in {Head(q)} \cup Rng(r)
    <3>1. CASE i = 1
      BY <3>1, <1>2
    <3>2. CASE i \in 2 .. Len(q)
      <4>1. i - 1 \in 1 .. Len(r) /\ r[i - 1] = q[i]
        BY <3>2, <2>2
      <4>2. QED
        BY <4>1 DEF Rng
    <3>3. QED
      BY <3>1, <3>2, <1>5
  <2>4. ASSUME NEW i \in 1 .. Len(r)
        PROVE  r[i] \in Rng(q)
    <3>1. i + 1 \in 1 .. Len(q) /\ r[i] = q[i + 1]
      BY <2>1, <1>4
    <3>2. QED
      BY <3>1 DEF Rng
  <2>5. Head(q) \in Rng(q)
    BY <1>2, <1>5 DEF Rng
  <2>6. Rng(q) \subseteq {Head(q)} \cup Rng(r)
    BY <2>3 DEF Rng
  <2>7. Rng(r) \subseteq Rng(q)
    BY <2>4 DEF Rng
  <2>8. QED
    BY <2>5, <2>6, <2>7 DEF r
<1>7. QED
  BY <1>1, <1>2, <1>5, <1>6 DEF Rng

\* The calls of a concatenation.
LEMMA RngConcat ==
    ASSUME NEW s \in Seq(Calls), NEW q \in Seq(Calls)
    PROVE  s \o q \in Seq(Calls) /\ Rng(s \o q) = Rng(s) \cup Rng(q)
<1>1. Len(s) \in Nat /\ Len(q) \in Nat
  BY LenProperties
<1>2. /\ s \o q \in Seq(Calls) /\ Len(s \o q) = Len(s) + Len(q)
      /\ \A i \in 1 .. Len(s) + Len(q) : (s \o q)[i] =
             IF i <= Len(s) THEN s[i] ELSE q[i - Len(s)]
  BY ConcatProperties
<1>3. \A i \in 1 .. Len(s) : i \in 1 .. Len(s) + Len(q) /\ (s \o q)[i] = s[i]
  BY <1>1, <1>2
<1>4. \A i \in 1 .. Len(q) : /\ Len(s) + i \in 1 .. Len(s) + Len(q)
                             /\ (s \o q)[Len(s) + i] = q[i]
  BY <1>1, <1>2
<1>5. \A i \in 1 .. Len(s) + Len(q) : \/ i \in 1 .. Len(s) /\ (s \o q)[i] = s[i]
                                      \/ /\ i - Len(s) \in 1 .. Len(q)
                                         /\ (s \o q)[i] = q[i - Len(s)]
  BY <1>1, <1>2
<1> DEFINE z == s \o q
<1>6. Len(z) = Len(s) + Len(q)
  BY <1>2
<1>7. \A i \in 1 .. Len(s) : s[i] \in Rng(z)
  BY <1>3, <1>6 DEF Rng
<1>8. \A i \in 1 .. Len(q) : q[i] \in Rng(z)
  BY <1>4, <1>6 DEF Rng
<1>9. \A i \in 1 .. Len(z) : z[i] \in Rng(s) \cup Rng(q)
  BY <1>5, <1>6 DEF Rng
<1> HIDE DEF z
<1>10. Rng(z) = Rng(s) \cup Rng(q)
  BY <1>7, <1>8, <1>9 DEF Rng
<1>11. QED
  BY <1>2, <1>10 DEF z

\* A goroutine that goes on with s where it was at a call behind which s may stand.
LEMMA OrderedDoes ==
    ASSUME NEW q \in Seq(Calls), NEW s \in Seq(Calls), q # << >>, Ordered(q), Ordered(s),
           \A x \in Rng(s) : After(Head(q)) \subseteq After(x)
    PROVE  Ordered(s \o Tail(q)) /\ Rng(Tail(q)) \subseteq After(Head(q))
<1>1. Len(q) \in Nat /\ Len(q) >= 1 /\ Len(s) \in Nat
  BY LenProperties, EmptySeq
<1> DEFINE r == Tail(q)
<1>2. /\ Head(q) = q[1] /\ r \in Seq(Calls) /\ Len(r) = Len(q) - 1
      /\ \A i \in 1 .. Len(q) - 1 : r[i] = q[i + 1]
  BY HeadTailProperties
<1> HIDE DEF r
<1>3. Ordered(r)
  <2> SUFFICES ASSUME NEW i \in 1 .. Len(r), NEW j \in 1 .. Len(r), i < j
               PROVE  r[j] \in After(r[i])
    BY DEF Ordered
  <2>1. i + 1 \in 1 .. Len(q) /\ j + 1 \in 1 .. Len(q) /\ i + 1 < j + 1
    BY <1>1, <1>2
  <2>2. q[j + 1] \in After(q[i + 1])
    BY <2>1 DEF Ordered
  <2>3. QED
    BY <2>2, <1>2
<1>4. ASSUME NEW i \in 1 .. Len(r)
      PROVE  r[i] \in After(Head(q))
  <2>1. i + 1 \in 1 .. Len(q) /\ 1 \in 1 .. Len(q) /\ 1 < i + 1
    BY <1>1, <1>2
  <2>2. q[i + 1] \in After(q[1])
    BY <2>1 DEF Ordered
  <2>3. QED
    BY <2>2, <1>2
<1>5. /\ Len(s \o r) = Len(s) + Len(r)
      /\ \A i \in 1 .. Len(s) + Len(r) : (s \o r)[i] =
             IF i <= Len(s) THEN s[i] ELSE r[i - Len(s)]
  BY <1>2, ConcatProperties
<1>6. Ordered(s \o r)
  <2> SUFFICES ASSUME NEW i \in 1 .. Len(s) + Len(r), NEW j \in 1 .. Len(s) + Len(r), i < j
               PROVE  (s \o r)[j] \in After((s \o r)[i])
    BY <1>5 DEF Ordered
  <2>1. Len(r) \in Nat
    BY <1>1, <1>2
  <2>2. CASE j <= Len(s)
    <3>1. i \in 1 .. Len(s) /\ j \in 1 .. Len(s) /\ i <= Len(s)
      BY <2>1, <2>2, <1>1
    <3>2. s[j] \in After(s[i])
      BY <3>1 DEF Ordered
    <3>3. QED
      BY <2>2, <3>1, <3>2, <1>5
  <2>3. CASE i <= Len(s) /\ ~(j <= Len(s))
    <3>1. i \in 1 .. Len(s) /\ j - Len(s) \in 1 .. Len(r)
      BY <2>1, <2>3, <1>1
    <3>2. s[i] \in Rng(s)
      BY <3>1 DEF Rng
    <3>3. r[j - Len(s)] \in After(s[i])
      BY <3>1, <3>2, <1>4
    <3>4. QED
      BY <2>3, <3>3, <1>5
  <2>4. CASE ~(i <= Len(s)) /\ ~(j <= Len(s))
    <3>1. /\ i - Len(s) \in 1 .. Len(r) /\ j - Len(s) \in 1 .. Len(r)
          /\ i - Len(s) < j - Len(s)
      BY <2>1, <2>4, <1>1
    <3>2. r[j - Len(s)] \in After(r[i - Len(s)])
      BY <3>1, <1>3 DEF Ordered
    <3>3. QED
      BY <2>4, <3>2, <1>5
  <2>5. QED
    BY <2>1, <2>2, <2>3, <2>4, <1>1
<1>7. QED
  BY <1>4, <1>6 DEF r, Rng

(***************************************************************************)
(* The invariant.                                                          *)
(***************************************************************************)

\* The kind of goroutine that makes a call which only one kind makes.
Home(op) == IF op \in StartOps THEN "offer"
            ELSE IF op \in {"waitOpen", "dial", "setTcp"} THEN "wait" ELSE "read"
Homed == StartOps \cup {"waitOpen", "dial", "setTcp", "eof"}

\* Those calls are made by the goroutine of their own session.
Places == \A t \in Goroutines : \A x \in Left(t) :
    /\ x[1] \in Homed => t = <<Home(x[1]), x[2]>>
    /\ x[1] = "stop" => t = Stopper
    /\ x[1] # "stop" => x[2] \in Offers

\* Whoever replaces a session holds HostManager.mu, and the session it replaces is
\* closed or about to be.
Replaced == \A o \in Offers : <<"commit", o>> \in Left(<<"offer", o>>) =>
    /\ mgr = <<"offer", o>>
    /\ \A p \in Offers : sessions[SidOf[o]] = p => closed[p] \/ Someone("psClose", p)

\* removeSession is called behind close(), and Session.Close by close() itself.
RemoveLast == \A o \in Offers :
    /\ Someone("remove", o) => closed[o] \/ Someone("psClose", o)
    /\ Someone("rtcClose", o) => closed[o]

\* The session has been in the map and its startSession goes on.
Past(o) == \/ pc[o] # "none"
           \/ /\ <<"new", o>> \in Left(<<"offer", o>>)
              /\ <<"register", o>> \notin Left(<<"offer", o>>)
              /\ <<"commit", o>> \notin Left(<<"offer", o>>)
Orphans == \A o \in Offers : Past(o) /\ ~Registered(o)
               => closed[o] \/ o \in closing \/ Someone("psClose", o)

\* HostManager.Close has collected nothing before it takes the map.
StopFirst == <<"stop", None>> \in Left(Stopper) => closing = {}

\* pion's callback has nothing to call before Session.closeOnce is taken.
FireFirst == \A o \in Offers : ~fired[o] => Left(<<"rtc", o>>) = {}

\* startSession is not over; the host has not dialled yet.
Start(o) == \E op \in StartOps : <<op, o>> \in Left(<<"offer", o>>)
Before(o) == Start(o) \/ <<"waitOpen", o>> \in Left(<<"wait", o>>)
                      \/ <<"dial", o>> \in Left(<<"wait", o>>)
StartFirst == \A o \in Offers : Start(o) => Left(<<"wait", o>>) = {}
DialOnce == \A o \in Offers : Before(o) =>
    /\ conn[o] = "none" /\ ~tcp[o] /\ once[o] = None
    /\ Left(<<"read", o>>) = {} /\ ~Someone("tcpClose", o) /\ ~Someone("setTcp", o)
OnceCloses == \A o \in Offers :
    /\ once[o] # None => conn[o] = "closed"
    /\ Someone("onceDone", o) => once[o] # None

\* A peer connection, or a TCP connection, that is alive is known to somebody.
PcKnown == \A o \in Offers : PcLive(o) => rtc[o] \/ Someone("rtcClose", o)
ConnKnown == \A o \in Offers :
    ConnLive(o) => tcp[o] \/ Someone("tcpClose", o) \/ Someone("setTcp", o)

\* The inductive invariant.
IInv == /\ TypeOK /\ Orders /\ Places
        /\ Replaced /\ RemoveLast /\ Orphans /\ StopFirst
        /\ FireFirst /\ StartFirst /\ DialOnce /\ OnceCloses
        /\ PcKnown /\ ConnKnown

(***************************************************************************)
(* Sessions with different ids, without HostManager.Close.                 *)
(***************************************************************************)
Apart == ~CanStop /\ \A o, p \in Offers : SidOf[o] = SidOf[p] => o = p

\* A goroutine only calls into its own session.
Own == /\ Left(Stopper) = {} /\ closing = {}
       /\ \A k \in Kinds, o \in Offers : \A x \in Left(<<k, o>>) : x[2] = o

\* The map holds a session under its own id, and only after Register.
MapOwn == \A s \in Sids : \A o \in Offers : sessions[s] = o =>
    /\ SidOf[o] = s
    /\ \A op \in {"turn", "register", "commit"} : <<op, o>> \notin Left(<<"offer", o>>)

\* The inductive invariant of such a host.
JInv == IInv /\ Own /\ MapOwn

(***************************************************************************)
(* How a step changes what the goroutines have left to do.                 *)
(***************************************************************************)

\* The call c was made; A holds the calls that goroutines have to make anew.  Of
\* the others, at most the end of startSession is given up.
LateOps == {"handleOffer", "answer"}
Shifts(c, A) ==
    /\ \A u \in Goroutines : \A x \in Left(u) : x # c /\ x[1] \notin LateOps => x \in Left(u)'
    /\ \A u \in Goroutines : \A x \in Left(u)' : x \in Left(u) \/ <<u, x>> \in A
    /\ \A u \in Goroutines, x \in Calls : <<u, x>> \in A => x \in Left(u)'

\* Goroutine t made it.
Moves(t, c, A) ==
    /\ c \in Left(t)
    /\ Shifts(c, A)
    /\ \A x \in Left(t)' : x \in After(c) \/ <<t, x>> \in A

\* No goroutine made a call.
Gains(A) ==
    /\ \A u \in Goroutines : \A x \in Left(u) : x \in Left(u)'
    /\ \A u \in Goroutines : \A x \in Left(u)' : x \in Left(u) \/ <<u, x>> \in A
    /\ \A u \in Goroutines, x \in Calls : <<u, x>> \in A => x \in Left(u)'

\* The calls that remain well-formed and ordered.
TodoOK == todo \in [Goroutines -> Seq(Calls)] /\ Orders

\* Sequences of at most four calls.
LEMMA SomeCalls ==
    /\ << >> \in Seq(Calls) /\ Rng(<< >>) = {} /\ Ordered(<< >>)
    /\ \A a \in Calls : <<a>> \in Seq(Calls) /\ Rng(<<a>>) = {a} /\ Ordered(<<a>>)
    /\ \A a, b \in Calls : b \in After(a) =>
          <<a, b>> \in Seq(Calls) /\ Rng(<<a, b>>) = {a, b} /\ Ordered(<<a, b>>)
    /\ \A a, b, c \in Calls : {b, c} \subseteq After(a) /\ c \in After(b) =>
          <<a, b, c>> \in Seq(Calls) /\ Rng(<<a, b, c>>) = {a, b, c} /\ Ordered(<<a, b, c>>)
    /\ \A a, b, c, d \in Calls :
          {b, c, d} \subseteq After(a) /\ {c, d} \subseteq After(b) /\ d \in After(c) =>
          /\ <<a, b, c, d>> \in Seq(Calls)
          /\ Rng(<<a, b, c, d>>) = {a, b, c, d} /\ Ordered(<<a, b, c, d>>)
<1>1. << >> \in Seq(Calls) /\ Rng(<< >>) = {} /\ Ordered(<< >>)
  BY EmptySeq DEF Rng, Ordered
<1>2. ASSUME NEW a \in Calls
      PROVE  <<a>> \in Seq(Calls) /\ Rng(<<a>>) = {a} /\ Ordered(<<a>>)
  <2> DEFINE q == <<a>>
  <2>1. q \in Seq(Calls) /\ Len(q) = 1 /\ q[1] = a
    OBVIOUS
  <2>2. 1 .. 1 = {1}
    OBVIOUS
  <2> HIDE DEF q
  <2>3. Rng(q) = {a} /\ Ordered(q)
    BY <2>1, <2>2 DEF Rng, Ordered
  <2>4. QED
    BY <2>1, <2>3 DEF q
<1>3. ASSUME NEW a \in Calls, NEW b \in Calls, b \in After(a)
      PROVE  <<a, b>> \in Seq(Calls) /\ Rng(<<a, b>>) = {a, b} /\ Ordered(<<a, b>>)
  <2> DEFINE q == <<a, b>>
  <2>1. q \in Seq(Calls) /\ Len(q) = 2 /\ q[1] = a /\ q[2] = b
    OBVIOUS
  <2>2. 1 .. 2 = {1, 2}
    OBVIOUS
  <2> HIDE DEF q
  <2>3. Rng(q) = {a, b} /\ Ordered(q)
    BY <1>3, <2>1, <2>2 DEF Rng, Ordered
  <2>4. QED
    BY <2>1, <2>3 DEF q
<1>4. ASSUME NEW a \in Calls, NEW b \in Calls, NEW c \in Calls,
             {b, c} \subseteq After(a), c \in After(b)
      PROVE  /\ <<a, b, c>> \in Seq(Calls)
             /\ Rng(<<a, b, c>>) = {a, b, c} /\ Ordered(<<a, b, c>>)
  <2> DEFINE q == <<a, b, c>>
  <2>1. q \in Seq(Calls) /\ Len(q) = 3 /\ q[1] = a /\ q[2] = b /\ q[3] = c
    OBVIOUS
  <2>2. 1 .. 3 = {1, 2, 3}
    OBVIOUS
  <2> HIDE DEF q
  <2>3. Rng(q) = {a, b, c} /\ Ordered(q)
    BY <1>4, <2>1, <2>2 DEF Rng, Ordered
  <2>4. QED
    BY <2>1, <2>3 DEF q
<1>5. ASSUME NEW a \in Calls, NEW b \in Calls, NEW c \in Calls, NEW d \in Calls,
             {b, c, d} \subseteq After(a), {c, d} \subseteq After(b), d \in After(c)
      PROVE  /\ <<a, b, c, d>> \in Seq(Calls)
             /\ Rng(<<a, b, c, d>>) = {a, b, c, d} /\ Ordered(<<a, b, c, d>>)
  <2> DEFINE q == <<a, b, c, d>>
  <2>1. /\ q \in Seq(Calls) /\ Len(q) = 4
        /\ q[1] = a /\ q[2] = b /\ q[3] = c /\ q[4] = d
    OBVIOUS
  <2>2. 1 .. 4 = {1, 2, 3, 4}
    OBVIOUS
  <2> HIDE DEF q
  <2>3. Rng(q) = {a, b, c, d} /\ Ordered(q)
    BY <1>5, <2>1, <2>2 DEF Rng, Ordered
  <2>4. QED
    BY <2>1, <2>3 DEF q
<1>6. QED
  BY <1>1, <1>2, <1>3, <1>4, <1>5

\* A goroutine at the call c goes on with s.
LEMMA DoesMoves ==
    ASSUME TodoOK, NEW t \in Goroutines, NEW s \in Seq(Calls), Ordered(s),
           todo[t] # << >>,
           \A x \in Rng(s) : After(Head(todo[t])) \subseteq After(x),
           todo' = Does(t, s)
    PROVE  TodoOK' /\ Moves(t, Head(todo[t]), {t} \X Rng(s))
<1> DEFINE q == todo[t]
           r == Tail(q)
           c == Head(q)
<1>1. /\ q \in Seq(Calls) /\ q # << >> /\ Ordered(q)
      /\ \A x \in Rng(s) : After(c) \subseteq After(x)
  BY DEF TodoOK, Orders
<1>2. todo' = [todo EXCEPT ![t] = s \o r]
  BY DEF Does
<1>3. Left(t) = Rng(q)
  BY DEF Left
<1> HIDE DEF q
<1>4. /\ c \in Calls /\ r \in Seq(Calls)
      /\ Rng(q) = {c} \cup Rng(r) /\ Rng(q) \subseteq Calls
  BY <1>1, RngHead
<1>5. s \o r \in Seq(Calls) /\ Rng(s \o r) = Rng(s) \cup Rng(r)
  BY <1>4, RngConcat
<1>6. Ordered(s \o r) /\ Rng(r) \subseteq After(c)
  BY <1>1, OrderedDoes
<1> HIDE DEF r, c
<1>7. /\ todo'[t] = s \o r /\ todo' \in [Goroutines -> Seq(Calls)]
      /\ \A u \in Goroutines \ {t} : todo'[u] = todo[u]
  BY <1>2, <1>5 DEF TodoOK
<1>8. Left(t)' = Rng(s) \cup Rng(r) /\ \A u \in Goroutines \ {t} : Left(u)' = Left(u)
  BY <1>5, <1>7 DEF Left
<1>9. TodoOK'
  BY <1>6, <1>7 DEF TodoOK, Orders
<1>10. Moves(t, c, {t} \X Rng(s))
  BY <1>3, <1>4, <1>6, <1>8 DEF Moves, Shifts
<1>11. QED
  BY <1>9, <1>10 DEF c, q

\* It also starts goroutine u with s2.
LEMMA DoesStarts ==
    ASSUME TodoOK, NEW t \in Goroutines, NEW s \in Seq(Calls), Ordered(s),
           todo[t] # << >>,
           \A x \in Rng(s) : After(Head(todo[t])) \subseteq After(x),
           NEW u \in Goroutines, NEW s2 \in Seq(Calls), Ordered(s2), Left(u) = {}, u # t,
           todo' = [Does(t, s) EXCEPT ![u] = s2]
    PROVE  TodoOK' /\ Moves(t, Head(todo[t]), ({t} \X Rng(s)) \cup ({u} \X Rng(s2)))
<1> DEFINE q == todo[t]
           r == Tail(q)
           c == Head(q)
<1>1. /\ q \in Seq(Calls) /\ q # << >> /\ Ordered(q)
      /\ \A x \in Rng(s) : After(c) \subseteq After(x)
  BY DEF TodoOK, Orders
<1>2. todo' = [[todo EXCEPT ![t] = s \o r] EXCEPT ![u] = s2]
  BY DEF Does
<1>3. Left(t) = Rng(q)
  BY DEF Left
<1> HIDE DEF q
<1>4. /\ c \in Calls /\ r \in Seq(Calls)
      /\ Rng(q) = {c} \cup Rng(r) /\ Rng(q) \subseteq Calls
  BY <1>1, RngHead
<1>5. s \o r \in Seq(Calls) /\ Rng(s \o r) = Rng(s) \cup Rng(r)
  BY <1>4, RngConcat
<1>6. Ordered(s \o r) /\ Rng(r) \subseteq After(c)
  BY <1>1, OrderedDoes
<1> HIDE DEF r, c
<1>7. /\ todo'[t] = s \o r /\ todo'[u] = s2 /\ todo' \in [Goroutines -> Seq(Calls)]
      /\ \A v \in Goroutines \ {t, u} : todo'[v] = todo[v]
  BY <1>2, <1>5 DEF TodoOK
<1>8. /\ Left(t)' = Rng(s) \cup Rng(r) /\ Left(u)' = Rng(s2)
      /\ \A v \in Goroutines \ {t, u} : Left(v)' = Left(v)
  BY <1>5, <1>7 DEF Left
<1>9. TodoOK'
  BY <1>6, <1>7 DEF TodoOK, Orders
<1>10. Moves(t, c, ({t} \X Rng(s)) \cup ({u} \X Rng(s2)))
  BY <1>3, <1>4, <1>6, <1>8 DEF Moves, Shifts
<1>11. QED
  BY <1>9, <1>10 DEF c, q

\* startSession returns early: what it had left is given up.
LEMMA DropMoves ==
    ASSUME TodoOK, NEW t \in Goroutines, NEW o, todo[t] # << >>,
           Head(todo[t]) = <<"new", o>> \/ Head(todo[t]) = <<"handleOffer", o>>,
           NEW s \in Seq(Calls), Ordered(s), todo' = [todo EXCEPT ![t] = s]
    PROVE  TodoOK' /\ Moves(t, Head(todo[t]), {t} \X Rng(s))
<1> DEFINE q == todo[t]
           c == Head(q)
<1>1. /\ q \in Seq(Calls) /\ q # << >> /\ Ordered(q)
      /\ c = <<"new", o>> \/ c = <<"handleOffer", o>>
  BY DEF TodoOK, Orders
<1>2. Left(t) = Rng(q)
  BY DEF Left
<1> HIDE DEF q
<1>3. c \in Calls /\ Rng(q) = {c} \cup Rng(Tail(q)) /\ Rng(q) \subseteq Calls
  BY <1>1, RngHead
<1>4. Rng(Tail(q)) \subseteq After(c)
  <2>1. << >> \in Seq(Calls) /\ Ordered(<< >>) /\ Rng(<< >>) = {}
    BY SomeCalls
  <2>2. QED
    BY <1>1, <2>1, OrderedDoes
<1>5. \A x \in After(c) : x[1] \in LateOps
  BY <1>1 DEF After, LateOps
<1> HIDE DEF c
<1>6. /\ todo'[t] = s /\ todo' \in [Goroutines -> Seq(Calls)]
      /\ \A u \in Goroutines \ {t} : todo'[u] = todo[u]
  BY DEF TodoOK
<1>7. Left(t)' = Rng(s) /\ \A u \in Goroutines \ {t} : Left(u)' = Left(u)
  BY <1>6 DEF Left
<1>8. TodoOK'
  BY <1>6 DEF TodoOK, Orders
<1>9. Moves(t, c, {t} \X Rng(s))
  BY <1>2, <1>3, <1>4, <1>5, <1>7 DEF Moves, Shifts
<1>10. QED
  BY <1>8, <1>9 DEF c, q

\* A goroutine starts.
LEMMA StartGains ==
    ASSUME TodoOK, NEW u \in Goroutines, NEW s \in Seq(Calls), Ordered(s), Left(u) = {},
           todo' = [todo EXCEPT ![u] = s]
    PROVE  TodoOK' /\ Gains({u} \X Rng(s))
<1>1. /\ todo'[u] = s /\ todo' \in [Goroutines -> Seq(Calls)]
      /\ \A v \in Goroutines \ {u} : todo'[v] = todo[v]
  BY DEF TodoOK
<1>2. Left(u)' = Rng(s) /\ \A v \in Goroutines \ {u} : Left(v)' = Left(v)
  BY <1>1 DEF Left
<1>3. TodoOK'
  BY <1>1 DEF TodoOK, Orders
<1>4. QED
  BY <1>2, <1>3 DEF Gains

\* Nothing changes.
LEMMA StillGains ==
    ASSUME TodoOK, todo' = todo
    PROVE  TodoOK' /\ Gains({})
<1>1. \A u \in Goroutines : Left(u)' = Left(u)
  BY DEF Left
<1>2. QED
  BY <1>1 DEF TodoOK, Orders, Gains

\* A step without a call keeps everything.
LEMMA GainsShifts ==
    ASSUME NEW A, Gains(A), NEW c
    PROVE  Shifts(c, A)
BY DEF Gains, Shifts

\* A goroutine that has nothing to do.
LEMMA IdleLeft ==
    ASSUME NEW t, todo[t] = << >>
    PROVE  Left(t) = {}
BY SomeCalls DEF Left

\* The goroutines.
LEMMA GoroutineFacts ==
    /\ Stopper \in Goroutines
    /\ \A k \in Kinds, o \in Offers : <<k, o>> \in Goroutines
    /\ \A k, l \in Kinds, o, p \in Offers : <<k, o>> = <<l, p>> => k = l /\ o = p
    /\ \A k \in Kinds, o \in Offers : <<k, o>> # Stopper
    /\ \A o \in Offers : o # None
BY NoneAssumption DEF Goroutines, Kinds, Stopper

\* Every step but those that change the map, the lock, Close's list or the steps
\* of startSession keeps the sessions accounted for.
Additions(A) == \A u \in Goroutines : \A x : <<u, x>> \in A =>
    /\ x \in Calls
    /\ x[1] \notin StartOps /\ x[1] # "stop" /\ x[2] \in Offers
    /\ x[1] \in Homed => u = <<Home(x[1]), x[2]>>
    /\ x[1] = "remove" => \E v \in Goroutines : <<v, <<"psClose", x[2]>> >> \in A
    /\ x[1] = "rtcClose" => closed'[x[2]]

LEMMA SessionsKept ==
    ASSUME IInv, NEW c, NEW A, Shifts(c, A), Additions(A),
           UNCHANGED <<sessions, mgr>>,
           closing' \subseteq closing, \A o \in closing \ closing' : Someone("psClose", o)',
           \A o \in Offers : closed[o] \/ c = <<"psClose", o>> => closed'[o],
           \A o \in Offers : Past(o)' => Past(o) \/ closed'[o]
    PROVE  Places' /\ Replaced' /\ RemoveLast' /\ Orphans' /\ StopFirst'
<1>1. Places'
  BY DEF IInv, Places, Shifts, Additions
<1>2. ASSUME NEW o \in Offers, closed[o] \/ Someone("psClose", o)
      PROVE  closed'[o] \/ Someone("psClose", o)'
  <2>1. CASE closed[o]
    BY <2>1
  <2>2. CASE Someone("psClose", o)
    <3>1. PICK t \in Goroutines : <<"psClose", o>> \in Left(t)
      BY <2>2 DEF Someone
    <3>2. c # <<"psClose", o>> => <<"psClose", o>> \in Left(t)'
      BY <3>1 DEF Shifts, LateOps
    <3>3. QED
      BY <3>1, <3>2 DEF Someone
  <2>3. QED
    BY <1>2, <2>1, <2>2
<1>3. Replaced'
  <2> SUFFICES ASSUME NEW o \in Offers, <<"commit", o>> \in Left(<<"offer", o>>)'
               PROVE  /\ mgr' = <<"offer", o>>
                      /\ \A p \in Offers : sessions'[SidOf[o]] = p
                            => closed'[p] \/ Someone("psClose", p)'
    BY DEF Replaced
  <2>1. <<"commit", o>> \in Left(<<"offer", o>>)
    <3> DEFINE u == <<"offer", o>>
               x == <<"commit", o>>
    <3>1. u \in Goroutines /\ x[1] \in StartOps
      BY GoroutineFacts DEF Kinds, StartOps
    <3> HIDE DEF u, x
    <3>2. x \in Left(u) \/ <<u, x>> \in A
      BY <3>1 DEF Shifts, u, x
    <3>3. QED
      BY <3>1, <3>2 DEF Additions, u, x
  <2>2. QED
    BY <2>1, <1>2 DEF IInv, Replaced
<1>4. RemoveLast'
  <2>5. ASSUME NEW o \in Offers, Someone("rtcClose", o)'
        PROVE  closed'[o]
    <3> DEFINE x == <<"rtcClose", o>>
    <3>1. PICK t \in Goroutines : x \in Left(t)'
      BY <2>5 DEF Someone
    <3>2. x[1] = "rtcClose" /\ x[2] = o
      OBVIOUS
    <3>3. x \in Left(t) => closed[o]
      BY DEF IInv, RemoveLast, Someone
    <3> HIDE DEF x
    <3>4. QED
      BY <3>1, <3>2, <3>3 DEF Shifts, Additions
  <2> SUFFICES ASSUME NEW o \in Offers, Someone("remove", o)'
               PROVE  closed'[o] \/ Someone("psClose", o)'
    BY <2>5 DEF RemoveLast
  <2>1. PICK t \in Goroutines : <<"remove", o>> \in Left(t)'
    BY DEF Someone
  <2>2. CASE <<"remove", o>> \in Left(t)
    BY <2>2, <1>2 DEF IInv, RemoveLast, Someone
  <2>3. CASE <<t, <<"remove", o>> >> \in A
    <3>1. PICK v \in Goroutines : <<v, <<"psClose", o>> >> \in A
      <4> DEFINE x == <<"remove", o>>
      <4>1. x[1] = "remove" /\ x[2] = o /\ <<t, x>> \in A
        BY <2>3
      <4> HIDE DEF x
      <4>2. QED
        BY <4>1 DEF Additions
    <3>2. <<"psClose", o>> \in Left(v)'
      BY <3>1 DEF Shifts, Additions
    <3>3. QED
      BY <3>2 DEF Someone
  <2>4. QED
    BY <2>1, <2>2, <2>3 DEF Shifts
<1>5. Orphans'
  <2> SUFFICES ASSUME NEW o \in Offers, Past(o)', ~Registered(o)'
               PROVE  closed'[o] \/ o \in closing' \/ Someone("psClose", o)'
    BY DEF Orphans
  <2>1. (Past(o) \/ closed'[o]) /\ ~Registered(o)
    BY DEF Registered
  <2>2. QED
    BY <2>1, <1>2 DEF IInv, Orphans
<1>6. StopFirst'
  <2> SUFFICES ASSUME <<"stop", None>> \in Left(Stopper)'
               PROVE  closing' = {}
    BY DEF StopFirst
  <2> DEFINE x == <<"stop", None>>
  <2>1. Stopper \in Goroutines /\ x[1] = "stop"
    BY GoroutineFacts
  <2> HIDE DEF x
  <2>2. x \in Left(Stopper) \/ <<Stopper, x>> \in A
    BY <2>1 DEF Shifts, x
  <2>3. QED
    BY <2>1, <2>2 DEF IInv, StopFirst, Additions, x
<1>7. QED
  BY <1>1, <1>3, <1>4, <1>5, <1>6

\* No goroutine starts twice, and the host dials at most once, when what is new
\* goes to goroutines that are running or whose predecessor is over.
LEMMA GoroutinesKept ==
    ASSUME IInv, NEW c, NEW A, Shifts(c, A),
           \A o \in Offers : fired[o] => fired'[o],
           \A o \in Offers : \A x : <<<<"rtc", o>>, x>> \in A => fired'[o],
           \A o \in Offers : Start(o)' =>
               /\ Start(o)
               /\ \A x : <<<<"wait", o>>, x>> \notin A,
           \A o \in Offers : Before(o)' =>
               /\ Before(o)
               /\ conn'[o] = conn[o] /\ (tcp'[o] => tcp[o]) /\ once'[o] = once[o]
               /\ \A x : <<<<"read", o>>, x>> \notin A
               /\ \A u \in Goroutines : /\ <<u, <<"tcpClose", o>> >> \notin A
                                       /\ <<u, <<"setTcp", o>> >> \notin A
    PROVE  FireFirst' /\ StartFirst' /\ DialOnce'
<1>1. \A o \in Offers : /\ <<"rtc", o>> \in Goroutines /\ <<"wait", o>> \in Goroutines
                        /\ <<"read", o>> \in Goroutines
  BY GoroutineFacts DEF Kinds
<1>2. FireFirst'
  <2> SUFFICES ASSUME NEW o \in Offers, ~fired'[o]
               PROVE  Left(<<"rtc", o>>)' = {}
    BY DEF FireFirst
  <2>1. Left(<<"rtc", o>>) = {}
    BY DEF IInv, FireFirst
  <2>2. QED
    BY <2>1, <1>1 DEF Shifts
<1>3. StartFirst'
  <2> SUFFICES ASSUME NEW o \in Offers, Start(o)'
               PROVE  Left(<<"wait", o>>)' = {}
    BY DEF StartFirst
  <2>1. Left(<<"wait", o>>) = {}
    BY DEF IInv, StartFirst
  <2>2. QED
    BY <2>1, <1>1 DEF Shifts
<1>4. DialOnce'
  <2> SUFFICES ASSUME NEW o \in Offers, Before(o)'
               PROVE  /\ conn'[o] = "none" /\ ~tcp'[o] /\ once'[o] = None
                      /\ Left(<<"read", o>>)' = {}
                      /\ ~Someone("tcpClose", o)' /\ ~Someone("setTcp", o)'
    BY DEF DialOnce
  <2>1. /\ conn[o] = "none" /\ ~tcp[o] /\ once[o] = None
        /\ Left(<<"read", o>>) = {} /\ ~Someone("tcpClose", o) /\ ~Someone("setTcp", o)
    BY DEF IInv, DialOnce
  <2>2. Left(<<"read", o>>)' = {}
    BY <2>1, <1>1 DEF Shifts
  <2>3. ~Someone("tcpClose", o)' /\ ~Someone("setTcp", o)'
    BY <2>1 DEF Shifts, Someone
  <2>4. QED
    BY <2>1, <2>2, <2>3
<1>5. QED
  BY <1>2, <1>3, <1>4

\* startSession's steps and the wait for the channel are not begun again.
LEMMA NotAgain ==
    ASSUME NEW c, NEW A, Shifts(c, A), Additions(A)
    PROVE  /\ \A o \in Offers : Start(o)' => Start(o)
           /\ \A o \in Offers : Before(o)' =>
                 \/ Before(o)
                 \/ <<<<"wait", o>>, <<"waitOpen", o>> >> \in A
                 \/ <<<<"wait", o>>, <<"dial", o>> >> \in A
           /\ \A o \in Offers : c # <<"register", o>> /\ c # <<"commit", o>> /\ Past(o)' =>
                 \/ Past(o)
                 \/ pc'[o] # pc[o]
           /\ c[1] \notin {"register", "commit"} => \A o \in Offers : Past(o)' =>
                 \/ Past(o)
                 \/ pc'[o] # pc[o]
<1>1. \A o \in Offers : <<"offer", o>> \in Goroutines /\ <<"wait", o>> \in Goroutines
  BY GoroutineFacts DEF Kinds
<1>2. ASSUME NEW o \in Offers, NEW op \in StartOps, <<op, o>> \in Left(<<"offer", o>>)'
      PROVE  <<op, o>> \in Left(<<"offer", o>>)
  <2> DEFINE u == <<"offer", o>>
             x == <<op, o>>
  <2>1. u \in Goroutines /\ x[1] \in StartOps
    BY <1>1
  <2> HIDE DEF u, x
  <2>2. x \in Left(u) \/ <<u, x>> \in A
    BY <1>2, <2>1 DEF Shifts, u, x
  <2>3. QED
    BY <2>1, <2>2 DEF Additions, u, x
<1>3. \A o \in Offers : Start(o)' => Start(o)
  BY <1>2 DEF Start
<1>4. ASSUME NEW o \in Offers, Before(o)'
      PROVE  \/ Before(o)
             \/ <<<<"wait", o>>, <<"waitOpen", o>> >> \in A
             \/ <<<<"wait", o>>, <<"dial", o>> >> \in A
  BY <1>1, <1>3, <1>4 DEF Before, Shifts
<1>5. ASSUME NEW o \in Offers, c # <<"register", o>>, c # <<"commit", o>>,
             Past(o)', pc'[o] = pc[o]
      PROVE  Past(o)
  <2> DEFINE u == <<"offer", o>>
  <2>1. <<"new", o>> \in Left(u)' => <<"new", o>> \in Left(u)
    BY <1>2 DEF StartOps
  <2>2. ASSUME NEW op \in {"register", "commit"}, <<op, o>> \in Left(u)
        PROVE  <<op, o>> \in Left(u)'
    <3> DEFINE x == <<op, o>>
    <3>1. x[1] = op /\ u \in Goroutines /\ x # c
      BY <1>1, <1>5
    <3> HIDE DEF x, u
    <3>2. x # c /\ x[1] \notin LateOps
      BY <3>1 DEF LateOps
    <3>3. QED
      BY <2>2, <3>1, <3>2 DEF Shifts, x
  <2>3. /\ <<"register", o>> \in Left(u) => <<"register", o>> \in Left(u)'
        /\ <<"commit", o>> \in Left(u) => <<"commit", o>> \in Left(u)'
    BY <2>2
  <2>4. QED
    BY <1>5, <2>1, <2>2, <2>3 DEF Past
<1>6. c[1] \notin {"register", "commit"} =>
          \A o \in Offers : c # <<"register", o>> /\ c # <<"commit", o>>
  OBVIOUS
<1>7. QED
  BY <1>3, <1>4, <1>5, <1>6

\* A goroutine at a call goes on with s.
LEMMA CallMoves ==
    ASSUME IInv, NEW t \in Goroutines, NEW op, NEW o, At(t, op, o),
           NEW s \in Seq(Calls), Ordered(s),
           \A x \in Rng(s) : After(<<op, o>>) \subseteq After(x), todo' = Does(t, s)
    PROVE  TodoOK' /\ Moves(t, <<op, o>>, {t} \X Rng(s))
<1>1. TodoOK
  BY DEF IInv, TypeOK, TodoOK
<1>2. todo[t] # << >> /\ Head(todo[t]) = <<op, o>>
  BY DEF At
<1>3. \A x \in Rng(s) : After(Head(todo[t])) \subseteq After(x)
  BY <1>2
<1>4. TodoOK' /\ Moves(t, Head(todo[t]), {t} \X Rng(s))
  BY <1>1, <1>2, <1>3, DoesMoves
<1>5. QED
  BY <1>2, <1>4

\* What is known of a session one of whose goroutines runs.
LEMMA Running ==
    ASSUME IInv, NEW t \in Goroutines, NEW c \in Left(t), NEW o \in Offers
    PROVE  /\ t = <<"rtc", o>> => fired[o]
           /\ t = <<"wait", o>> => ~Start(o)
           /\ t = <<"read", o>> => ~Before(o)
           /\ c = <<"tcpClose", o>> => ~Before(o)
           /\ c = <<"setTcp", o>> => ~Before(o)
<1>1. t = <<"rtc", o>> => fired[o]
  BY DEF IInv, FireFirst
<1>2. t = <<"wait", o>> => ~Start(o)
  BY DEF IInv, StartFirst
<1>3. t = <<"read", o>> => ~Before(o)
  BY DEF IInv, DialOnce
<1>4. c = <<"tcpClose", o>> => ~Before(o)
  BY DEF IInv, DialOnce, Someone
<1>5. c = <<"setTcp", o>> => ~Before(o)
  BY DEF IInv, DialOnce, Someone
<1>6. QED
  BY <1>1, <1>2, <1>3, <1>4, <1>5

\* A call c by goroutine t, which goes on with the calls S, that touches no other
\* session's start and neither the map nor the lock.
CallSafe(t, c, S) ==
    /\ c[1] \notin {"register", "commit"}
    /\ UNCHANGED <<sessions, mgr, closing, fired>>
    /\ \A o \in Offers : closed[o] \/ c = <<"psClose", o>> => closed'[o]
    /\ \A o \in Offers : pc'[o] # pc[o] => Past(o)
    /\ \A x \in S : /\ x \in Calls /\ x[1] \notin StartOps /\ x[1] # "stop" /\ x[2] \in Offers
                    /\ x[1] \in Homed => t = <<Home(x[1]), x[2]>>
                    /\ x[1] = "remove" => <<"psClose", x[2]>> \in S
                    /\ x[1] = "rtcClose" => closed'[x[2]]
    /\ \A o \in Offers : /\ <<"waitOpen", o>> \notin S /\ <<"setTcp", o>> \notin S
                         /\ <<"dial", o>> \in S => Before(o)
                         /\ <<"tcpClose", o>> \in S => ~Before(o)
    /\ \A o \in Offers : Before(o) =>
           conn'[o] = conn[o] /\ (tcp'[o] => tcp[o]) /\ once'[o] = once[o]

LEMMA CallKeeps ==
    ASSUME IInv, NEW t \in Goroutines, NEW c, NEW S, Moves(t, c, {t} \X S), CallSafe(t, c, S)
    PROVE  /\ Places' /\ Replaced' /\ RemoveLast' /\ Orphans' /\ StopFirst'
           /\ FireFirst' /\ StartFirst' /\ DialOnce'
<1> DEFINE A == {t} \X S
<1>1. Shifts(c, A) /\ c \in Left(t)
  BY DEF Moves
<1>2. \A u, x : <<u, x>> \in A <=> u = t /\ x \in S
  OBVIOUS
<1> HIDE DEF A
<1>3. Additions(A)
  BY <1>2 DEF Additions, CallSafe
<1>4. /\ \A o \in Offers : Start(o)' => Start(o)
      /\ \A o \in Offers : Before(o)' => Before(o)
      /\ \A o \in Offers : Past(o)' => Past(o)
  <2>1. \A o \in Offers : Start(o)' => Start(o)
    BY <1>1, <1>3, NotAgain
  <2>2. \A o \in Offers : Before(o)' => Before(o)
    BY <1>1, <1>2, <1>3, NotAgain DEF CallSafe
  <2>3. \A o \in Offers : Past(o)' => Past(o)
    BY <1>1, <1>3, NotAgain DEF CallSafe
  <2>4. QED
    BY <2>1, <2>2, <2>3
<1>5. Places' /\ Replaced' /\ RemoveLast' /\ Orphans' /\ StopFirst'
  BY <1>1, <1>3, <1>4, SessionsKept DEF CallSafe
<1>6. \A o \in Offers : \A x : <<<<"rtc", o>>, x>> \in A => fired'[o]
  BY <1>1, <1>2, Running DEF CallSafe
<1>7. \A o \in Offers : Start(o)' => Start(o) /\ \A x : <<<<"wait", o>>, x>> \notin A
  BY <1>1, <1>2, <1>4, Running
<1>8. \A o \in Offers : Before(o)' =>
               /\ Before(o)
               /\ conn'[o] = conn[o] /\ (tcp'[o] => tcp[o]) /\ once'[o] = once[o]
               /\ \A x : <<<<"read", o>>, x>> \notin A
               /\ \A u \in Goroutines : /\ <<u, <<"tcpClose", o>> >> \notin A
                                       /\ <<u, <<"setTcp", o>> >> \notin A
  <2> SUFFICES ASSUME NEW o \in Offers, Before(o)'
               PROVE  /\ Before(o)
                      /\ conn'[o] = conn[o] /\ (tcp'[o] => tcp[o]) /\ once'[o] = once[o]
                      /\ \A x : <<<<"read", o>>, x>> \notin A
                      /\ \A u \in Goroutines : /\ <<u, <<"tcpClose", o>> >> \notin A
                                               /\ <<u, <<"setTcp", o>> >> \notin A
    OBVIOUS
  <2>1. Before(o)
    BY <1>4
  <2>2. \A x : <<<<"read", o>>, x>> \notin A
    BY <2>1, <1>1, <1>2, Running
  <2>3. \A u \in Goroutines : /\ <<u, <<"tcpClose", o>> >> \notin A
                              /\ <<u, <<"setTcp", o>> >> \notin A
    BY <2>1, <1>2 DEF CallSafe
  <2>4. QED
    BY <2>1, <2>2, <2>3 DEF CallSafe
<1>9. \A o \in Offers : fired[o] => fired'[o]
  BY DEF CallSafe
<1>10. FireFirst' /\ StartFirst' /\ DialOnce'
  BY <1>1, <1>6, <1>7, <1>8, <1>9, GoroutinesKept
<1>11. QED
  BY <1>5, <1>10

\* After(x), by the call.
CloseOps == {"setTcp", "eof", "psClose", "tcpClose", "onceDone", "rtcClose", "remove"}
LEMMA AfterFacts ==
    /\ \A op \in CloseOps : \A o : After(<<op, o>>) = Calls
    /\ \A op \in {"turn", "answer", "waitOpen", "dial", "stop"} : \A o : After(<<op, o>>) = {}
    /\ \A o : After(<<"handleOffer", o>>) = {<<"answer", o>>}
    /\ \A o : After(<<"new", o>>) = {<<"handleOffer", o>>, <<"answer", o>>}
    /\ \A op \in {"register", "commit"} : \A o :
          After(<<op, o>>) = {<<"new", o>>, <<"handleOffer", o>>, <<"answer", o>>}
    /\ \A op \in Ops, o \in Offers : <<op, o>> \in Calls
    /\ <<"stop", None>> \in Calls
BY DEF After, CloseOps, Calls, Ops

\* Closing calls may stand in any order.
LEMMA AllOrdered ==
    ASSUME NEW s \in Seq(Calls), \A x \in Rng(s) : After(x) = Calls
    PROVE  Ordered(s)
<1>1. \A i \in 1 .. Len(s) : s[i] \in Rng(s) /\ s[i] \in Calls
  BY LenProperties DEF Rng
<1>2. QED
  BY <1>1 DEF Ordered

\* A call that somebody has to make stays to be made until it is.
LEMMA Remains ==
    ASSUME NEW c, NEW A, Shifts(c, A), NEW op, op \notin LateOps, NEW o,
           Someone(op, o), c # <<op, o>>
    PROVE  Someone(op, o)'
<1>1. PICK t \in Goroutines : <<op, o>> \in Left(t)
  BY DEF Someone
<1> DEFINE x == <<op, o>>
<1>2. x[1] \notin LateOps /\ x # c /\ x \in Left(t)
  BY <1>1
<1> HIDE DEF x
<1>3. x \in Left(t)'
  BY <1>2 DEF Shifts
<1>4. QED
  BY <1>3 DEF Someone, x

\* Connections stay known.
LEMMA PcKept ==
    ASSUME IInv, NEW c, NEW A, Shifts(c, A),
           \A o \in Offers : PcLive(o)' =>
               \/ rtc'[o]
               \/ /\ PcLive(o) /\ c # <<"rtcClose", o>>
                  /\ rtc[o] => Someone("rtcClose", o)'
    PROVE  PcKnown'
<1> SUFFICES ASSUME NEW o \in Offers, PcLive(o)', ~rtc'[o]
             PROVE  Someone("rtcClose", o)'
  BY DEF PcKnown
<1>1. PcLive(o) /\ c # <<"rtcClose", o>> /\ (rtc[o] => Someone("rtcClose", o)')
  OBVIOUS
<1>2. rtc[o] \/ Someone("rtcClose", o)
  BY <1>1 DEF IInv, PcKnown
<1>3. "rtcClose" \notin LateOps
  BY DEF LateOps
<1>4. QED
  BY <1>1, <1>2, <1>3, Remains

LEMMA ConnKept ==
    ASSUME IInv, NEW c, NEW A, Shifts(c, A),
           \A o \in Offers : ConnLive(o)' =>
               \/ tcp'[o] \/ Someone("setTcp", o)'
               \/ /\ ConnLive(o) /\ c # <<"tcpClose", o>> /\ c # <<"setTcp", o>>
                  /\ tcp[o] => Someone("tcpClose", o)'
    PROVE  ConnKnown'
<1> SUFFICES ASSUME NEW o \in Offers, ConnLive(o)', ~tcp'[o], ~Someone("setTcp", o)'
             PROVE  Someone("tcpClose", o)'
  BY DEF ConnKnown
<1>1. /\ ConnLive(o) /\ c # <<"tcpClose", o>> /\ c # <<"setTcp", o>>
      /\ tcp[o] => Someone("tcpClose", o)'
  OBVIOUS
<1>2. tcp[o] \/ Someone("tcpClose", o) \/ Someone("setTcp", o)
  BY <1>1 DEF IInv, ConnKnown
<1>3. "tcpClose" \notin LateOps /\ "setTcp" \notin LateOps
  BY DEF LateOps
<1>4. QED
  BY <1>1, <1>2, <1>3, Remains

\* closeOnce is taken for good.
LEMMA OnceKept ==
    ASSUME IInv, NEW c, NEW A, Shifts(c, A),
           \A o \in Offers : once[o] # None => once'[o] # None,
           \A o \in Offers : once'[o] # None => conn'[o] = "closed",
           \A o \in Offers : \A u \in Goroutines :
               <<u, <<"onceDone", o>> >> \in A => once'[o] # None
    PROVE  OnceCloses'
<1> SUFFICES ASSUME NEW o \in Offers, Someone("onceDone", o)'
             PROVE  once'[o] # None
  BY DEF OnceCloses
<1>1. PICK u \in Goroutines : <<"onceDone", o>> \in Left(u)'
  BY DEF Someone
<1>2. <<"onceDone", o>> \in Left(u) \/ <<u, <<"onceDone", o>> >> \in A
  BY <1>1 DEF Shifts
<1>3. QED
  BY <1>1, <1>2 DEF IInv, OnceCloses, Someone

(***************************************************************************)
(* The calls any goroutine makes.                                          *)
(***************************************************************************)

\* hostSession.close hands each connection it forgets to the call that closes it.
LEMMA PsCloseKeeps ==
    ASSUME IInv, NEW t \in Goroutines, NEW o \in Offers, PsClose(t, o)
    PROVE  IInv'
<1> DEFINE c == <<"psClose", o>>
           a == <<"tcpClose", o>>
           b == <<"rtcClose", o>>
<1>1. /\ UNCHANGED <<sessions, mgr, closing, pc, opened, fired, conn, once, crashed>>
      /\ At(t, "psClose", o)
  BY DEF PsClose
<1>2. /\ a \in Calls /\ b \in Calls /\ a # b
      /\ After(a) = Calls /\ After(b) = Calls /\ After(c) = Calls
  BY AfterFacts DEF CloseOps, Ops
<1>3. PICK s \in Seq(Calls) :
        /\ todo' = Does(t, s) /\ Ordered(s) /\ Rng(s) \subseteq {a, b}
        /\ closed' = [closed EXCEPT ![o] = TRUE]
        /\ \/ UNCHANGED <<rtc, tcp>>
           \/ /\ rtc' = [rtc EXCEPT ![o] = FALSE] /\ tcp' = [tcp EXCEPT ![o] = FALSE]
              /\ rtc[o] => b \in Rng(s)
              /\ tcp[o] => a \in Rng(s)
        /\ a \in Rng(s) => tcp[o]
  <2>1. CASE closed[o]
    <3>1. closed' = [closed EXCEPT ![o] = TRUE]
      BY <2>1 DEF PsClose, IInv, TypeOK
    <3>2. todo' = Does(t, << >>) /\ UNCHANGED <<rtc, tcp>>
      BY <2>1 DEF PsClose
    <3>3. QED
      BY <3>1, <3>2, SomeCalls
  <2>2. CASE ~closed[o]
    <3> DEFINE s == (IF tcp[o] THEN <<a>> ELSE << >>) \o (IF rtc[o] THEN <<b>> ELSE << >>)
    <3>1. /\ closed' = [closed EXCEPT ![o] = TRUE]
          /\ rtc' = [rtc EXCEPT ![o] = FALSE] /\ tcp' = [tcp EXCEPT ![o] = FALSE]
          /\ todo' = Does(t, s)
      BY <2>2 DEF PsClose
    <3> HIDE DEF a, b
    <3>2. /\ s \in Seq(Calls) /\ Ordered(s) /\ Rng(s) \subseteq {a, b}
          /\ rtc[o] => b \in Rng(s)
          /\ tcp[o] => a \in Rng(s)
          /\ a \in Rng(s) => tcp[o]
      <4> DEFINE s1 == IF tcp[o] THEN <<a>> ELSE << >>
                 s2 == IF rtc[o] THEN <<b>> ELSE << >>
      <4>1. s1 \in Seq(Calls) /\ Rng(s1) = IF tcp[o] THEN {a} ELSE {}
        BY <1>2, SomeCalls
      <4>2. s2 \in Seq(Calls) /\ Rng(s2) = IF rtc[o] THEN {b} ELSE {}
        BY <1>2, SomeCalls
      <4>3. s \in Seq(Calls) /\ Rng(s) = Rng(s1) \cup Rng(s2)
        BY <4>1, <4>2, RngConcat
      <4> HIDE DEF s, s1, s2
      <4>4. Rng(s) \subseteq {a, b}
        BY <4>1, <4>2, <4>3
      <4>5. \A x \in Rng(s) : After(x) = Calls
        BY <4>4, <1>2
      <4>6. QED
        BY <4>1, <4>2, <4>3, <4>4, <4>5, <1>2, AllOrdered
    <3>3. QED
      BY <3>1, <3>2
  <2>3. QED
    BY <2>1, <2>2
<1>4. TodoOK' /\ Moves(t, c, {t} \X Rng(s))
  BY <1>1, <1>2, <1>3, CallMoves
<1>5. Shifts(c, {t} \X Rng(s))
  BY <1>4 DEF Moves
<1>6. /\ closed' \in [Offers -> BOOLEAN] /\ closed'[o]
      /\ \A p \in Offers : closed[p] => closed'[p]
      /\ rtc' \in [Offers -> BOOLEAN] /\ tcp' \in [Offers -> BOOLEAN]
      /\ \A p \in Offers : p # o => rtc'[p] = rtc[p] /\ tcp'[p] = tcp[p]
      /\ tcp'[o] => tcp[o]
  BY <1>3 DEF IInv, TypeOK
<1>7. TypeOK' /\ Orders'
  BY <1>1, <1>4, <1>6 DEF IInv, TypeOK, TodoOK
<1>8. tcp[o] => ~Before(o)
  BY DEF IInv, DialOnce
<1>9. CallSafe(t, c, Rng(s))
  <2>1. /\ a[1] = "tcpClose" /\ a[2] = o /\ b[1] = "rtcClose" /\ b[2] = o /\ c[1] = "psClose"
        /\ \A p \in Offers : /\ <<"waitOpen", p>> \notin {a, b} /\ <<"setTcp", p>> \notin {a, b}
                             /\ <<"dial", p>> \notin {a, b}
                             /\ <<"tcpClose", p>> \in {a, b} => p = o
                             /\ c = <<"psClose", p>> => p = o
    OBVIOUS
  <2> HIDE DEF a, b, c
  <2>2. \A x \in Rng(s) : /\ x \in Calls /\ x[1] \notin StartOps /\ x[1] # "stop"
                          /\ x[2] \in Offers /\ x[1] \notin Homed /\ x[1] # "remove"
    BY <2>1, <1>2, <1>3 DEF StartOps, Homed
  <2>3. \A p \in Offers : <<"tcpClose", p>> \in Rng(s) => ~Before(p)
    BY <2>1, <1>3, <1>8 DEF a
  <2>4. \A p \in Offers : Before(p) =>
            conn'[p] = conn[p] /\ (tcp'[p] => tcp[p]) /\ once'[p] = once[p]
    BY <1>1, <1>6
  <2>5. QED
    BY <2>1, <2>2, <2>3, <2>4, <1>1, <1>3, <1>6 DEF CallSafe
<1>15. /\ Places' /\ Replaced' /\ RemoveLast' /\ Orphans' /\ StopFirst'
       /\ FireFirst' /\ StartFirst' /\ DialOnce'
  BY <1>4, <1>9, CallKeeps
<1>10. \A x \in Rng(s) : x \in Left(t)'
  BY ZenonT(40), <1>2, <1>3, <1>5 DEF Shifts
<1>11. PcKnown'
  <2>1. ASSUME NEW p \in Offers, PcLive(p)', ~rtc'[p], rtc[p]
        PROVE  Someone("rtcClose", p)'
    BY <2>1, <1>3, <1>6, <1>10 DEF Someone
  <2>2. \A p \in Offers : PcLive(p)' => PcLive(p) /\ c # <<"rtcClose", p>>
    BY <1>1 DEF PcLive
  <2>3. QED
    BY <1>5, <2>1, <2>2, PcKept
<1>12. ConnKnown'
  <2>1. ASSUME NEW p \in Offers, ConnLive(p)', ~tcp'[p], tcp[p]
        PROVE  Someone("tcpClose", p)'
    BY <2>1, <1>3, <1>6, <1>10 DEF Someone
  <2>2. \A p \in Offers : ConnLive(p)' =>
            ConnLive(p) /\ c # <<"tcpClose", p>> /\ c # <<"setTcp", p>>
    BY <1>1 DEF ConnLive
  <2>3. QED
    BY <1>5, <2>1, <2>2, ConnKept
<1>13. OnceCloses'
  <2>1. \A p \in Offers : \A u \in Goroutines : <<u, <<"onceDone", p>> >> \notin {t} \X Rng(s)
    BY <1>3
  <2>2. \A p \in Offers : once'[p] = once[p] /\ (once[p] # None => conn'[p] = "closed")
    BY <1>1 DEF IInv, OnceCloses
  <2>3. QED
    BY <2>1, <2>2, <1>5, OnceKept
<1>14. QED
  BY <1>7, <1>11, <1>12, <1>13, <1>15 DEF IInv

\* TCPBridge.Close: the first caller closes the connection, and goes on with the
\* close handler.
LEMMA TcpCloseKeeps ==
    ASSUME IInv, NEW t \in Goroutines, NEW o \in Offers, TcpClose(t, o)
    PROVE  IInv'
<1> DEFINE c == <<"tcpClose", o>>
           x1 == <<"psClose", o>>
           x2 == <<"remove", o>>
           x3 == <<"onceDone", o>>
<1>1. /\ UNCHANGED <<sessions, mgr, closing, closed, rtc, tcp, pc, opened, fired, crashed>>
      /\ At(t, "tcpClose", o)
  BY DEF TcpClose
<1>2. /\ {x1, x2, x3} \subseteq Calls /\ After(c) = Calls
      /\ After(x1) = Calls /\ After(x2) = Calls /\ After(x3) = Calls
  BY AfterFacts DEF CloseOps, Ops
<1>3. PICK s \in Seq(Calls) :
        /\ todo' = Does(t, s) /\ Ordered(s)
        /\ \/ /\ once' = [once EXCEPT ![o] = t] /\ conn' = [conn EXCEPT ![o] = "closed"]
              /\ Rng(s) = {x1, x2, x3}
           \/ once[o] = Done /\ UNCHANGED <<once, conn>> /\ Rng(s) = {}
  <2>1. CASE once[o] = None
    <3>1. /\ once' = [once EXCEPT ![o] = t] /\ conn' = [conn EXCEPT ![o] = "closed"]
          /\ todo' = Does(t, <<x1, x2, x3>>)
      BY <2>1, NoneAssumption DEF TcpClose
    <3>2. /\ <<x1, x2, x3>> \in Seq(Calls) /\ Ordered(<<x1, x2, x3>>)
          /\ Rng(<<x1, x2, x3>>) = {x1, x2, x3}
      <4> HIDE DEF x1, x2, x3
      <4>1. {x2, x3} \subseteq After(x1) /\ x3 \in After(x2)
        BY <1>2
      <4>2. QED
        BY <4>1, <1>2, SomeCalls
    <3>3. QED
      BY <3>1, <3>2
  <2>2. CASE once[o] = Done
    <3>1. todo' = Does(t, << >>) /\ UNCHANGED <<once, conn>>
      BY <2>2, NoneAssumption DEF TcpClose
    <3>2. QED
      BY <2>2, <3>1, SomeCalls
  <2>3. QED
    BY <2>1, <2>2 DEF TcpClose
<1>4. TodoOK' /\ Moves(t, c, {t} \X Rng(s))
  BY <1>1, <1>2, <1>3, CallMoves
<1>5. Shifts(c, {t} \X Rng(s)) /\ c \in Left(t)
  BY <1>4 DEF Moves
<1>6. ~Before(o)
  BY <1>5, Running
<1>7. /\ once' \in [Offers -> {None, Done} \cup Goroutines] /\ conn' \in [Offers -> ConnStates]
      /\ conn'[o] = "closed"
      /\ \A p \in Offers : p # o => once'[p] = once[p] /\ conn'[p] = conn[p]
  <2>1. once[o] = Done => conn[o] = "closed"
    BY NoneAssumption DEF IInv, OnceCloses
  <2>2. QED
    BY <2>1, <1>3, ZenonT(40) DEF IInv, TypeOK, ConnStates
<1>8. TypeOK' /\ Orders'
  BY <1>1, <1>4, <1>7 DEF IInv, TypeOK, TodoOK
<1>9. CallSafe(t, c, Rng(s))
  <2>1. /\ x1[1] = "psClose" /\ x1[2] = o /\ x2[1] = "remove" /\ x2[2] = o
        /\ x3[1] = "onceDone" /\ x3[2] = o /\ c[1] = "tcpClose"
        /\ \A p \in Offers : /\ <<"waitOpen", p>> \notin {x1, x2, x3}
                             /\ <<"setTcp", p>> \notin {x1, x2, x3}
                             /\ <<"dial", p>> \notin {x1, x2, x3}
                             /\ <<"tcpClose", p>> \notin {x1, x2, x3}
                             /\ c # <<"psClose", p>>
    OBVIOUS
  <2>2. x1 = <<"psClose", o>>
    OBVIOUS
  <2> HIDE DEF x1, x2, x3, c
  <2>3. \A x \in Rng(s) : /\ x \in Calls /\ x[1] \notin StartOps /\ x[1] # "stop"
                          /\ x[2] \in Offers /\ x[1] \notin Homed
                          /\ x[1] = "remove" => <<"psClose", x[2]>> \in Rng(s)
    BY <2>1, <2>2, <1>2, <1>3 DEF StartOps, Homed
  <2>4. \A p \in Offers : Before(p) =>
            conn'[p] = conn[p] /\ (tcp'[p] => tcp[p]) /\ once'[p] = once[p]
    BY <1>1, <1>6, <1>7
  <2>5. QED
    BY <2>1, <2>3, <2>4, <1>1, <1>3 DEF CallSafe
<1>10. /\ Places' /\ Replaced' /\ RemoveLast' /\ Orphans' /\ StopFirst'
       /\ FireFirst' /\ StartFirst' /\ DialOnce'
  BY <1>4, <1>9, CallKeeps
<1>11. PcKnown'
  <2>1. \A p \in Offers : rtc'[p] = rtc[p] /\ (PcLive(p)' => PcLive(p)) /\ c # <<"rtcClose", p>>
    BY <1>1 DEF PcLive
  <2>2. QED
    BY <1>5, <2>1, PcKept
<1>12. ConnKnown'
  <2>1. \A p \in Offers : ConnLive(p)' =>
            p # o /\ ConnLive(p) /\ c # <<"tcpClose", p>> /\ c # <<"setTcp", p>>
    BY <1>7 DEF ConnLive
  <2>2. QED
    BY <1>1, <1>5, <2>1, ConnKept
<1>13. OnceCloses'
  <2>1. once'[o] # None
    BY <1>3, NoneAssumption DEF IInv, TypeOK
  <2>2. \A p \in Offers : p # o => once'[p] = once[p] /\ (once[p] # None => conn'[p] = "closed")
    BY <1>7 DEF IInv, OnceCloses
  <2>3. \A p \in Offers : \A u \in Goroutines :
            <<u, <<"onceDone", p>> >> \in {t} \X Rng(s) => p = o
    BY <1>3
  <2>4. QED
    BY <2>1, <2>2, <2>3, <1>5, <1>7, OnceKept
<1>14. QED
  BY <1>8, <1>10, <1>11, <1>12, <1>13 DEF IInv

\* A call that changes nothing but its own goroutine: closeOnce.Do returns, the
\* wait for the channel ends, readLoop ends, a step fails and close() is called.
LEMMA PlainKeeps ==
    ASSUME IInv, NEW t \in Goroutines, NEW op \in Ops, NEW o \in Offers,
           op \notin {"register", "commit", "psClose", "rtcClose", "tcpClose", "setTcp"},
           NEW S, Moves(t, <<op, o>>, {t} \X S), TodoOK',
           UNCHANGED <<sessions, mgr, closing, closed, rtc, tcp, pc, opened, fired, conn, crashed>>,
           once' \in [Offers -> {None, Done} \cup Goroutines],
           \A p \in Offers : once'[p] = once[p] \/ (once[p] # None /\ once'[p] # None),
           \/ S = {}
           \/ S = {<<"dial", o>>} /\ t = <<"wait", o>> /\ Before(o)
           \/ S = {<<"psClose", o>>}
           \/ S = {<<"psClose", o>>, <<"remove", o>>}
           \/ S = {<<"tcpClose", o>>} /\ ~Before(o)
    PROVE  IInv'
<1> DEFINE c == <<op, o>>
<1>1. Shifts(c, {t} \X S)
  BY DEF Moves
<1>2. TypeOK' /\ Orders'
  BY DEF IInv, TypeOK, TodoOK
<1>3. CallSafe(t, c, S)
  <2>1. c[1] = op /\ \A p \in Offers : c # <<"psClose", p>>
    OBVIOUS
  <2> HIDE DEF c
  <2>2. \A x \in S : \/ x = <<"psClose", o>> \/ x = <<"remove", o>>
                     \/ x = <<"tcpClose", o>> \/ x = <<"dial", o>>
    OBVIOUS
  <2>3. \A x \in S : x[2] = o /\ x[1] \in {"psClose", "remove", "tcpClose", "dial"} /\ x \in Calls
    BY <2>2 DEF Calls, Ops
  <2>4. \A x \in S : x[1] = "remove" => <<"psClose", x[2]>> \in S
    OBVIOUS
  <2>5. \A x \in S : x[1] \in Homed => t = <<Home(x[1]), x[2]>>
    BY <2>2 DEF Homed, StartOps, Home
  <2>6. \A x \in S : x[1] \notin StartOps /\ x[1] # "stop"
    BY <2>3 DEF StartOps
  <2>7. \A p \in Offers : /\ <<"waitOpen", p>> \notin S /\ <<"setTcp", p>> \notin S
                          /\ <<"dial", p>> \in S => Before(p)
                          /\ <<"tcpClose", p>> \in S => ~Before(p)
    OBVIOUS
  <2>8. \A p \in Offers : Before(p) =>
            conn'[p] = conn[p] /\ (tcp'[p] => tcp[p]) /\ once'[p] = once[p]
    BY DEF IInv, DialOnce
  <2>9. QED
    BY <2>1, <2>3, <2>4, <2>5, <2>6, <2>7, <2>8 DEF CallSafe
<1>4. /\ Places' /\ Replaced' /\ RemoveLast' /\ Orphans' /\ StopFirst'
      /\ FireFirst' /\ StartFirst' /\ DialOnce'
  BY <1>3, CallKeeps
<1>5. PcKnown'
  <2>1. \A p \in Offers : rtc'[p] = rtc[p] /\ (PcLive(p)' => PcLive(p)) /\ c # <<"rtcClose", p>>
    BY DEF PcLive
  <2>2. QED
    BY <1>1, <2>1, PcKept
<1>6. ConnKnown'
  <2>1. \A p \in Offers : ConnLive(p)' =>
            ConnLive(p) /\ c # <<"tcpClose", p>> /\ c # <<"setTcp", p>> /\ tcp'[p] = tcp[p]
    BY DEF ConnLive
  <2>2. QED
    BY <1>1, <2>1, ConnKept
<1>7. OnceCloses'
  <2>1. \A p \in Offers : \A u \in Goroutines : <<u, <<"onceDone", p>> >> \notin {t} \X S
    OBVIOUS
  <2>2. \A p \in Offers : /\ once[p] # None => once'[p] # None /\ conn'[p] = "closed"
                          /\ once[p] = None => once'[p] = None
    BY DEF IInv, OnceCloses
  <2>3. QED
    BY <2>1, <2>2, <1>1, OnceKept
<1>8. QED
  BY <1>2, <1>4, <1>5, <1>6, <1>7 DEF IInv

\* closeOnce.Do returns.
LEMMA OnceDoneKeeps ==
    ASSUME IInv, NEW t \in Goroutines, NEW o \in Offers, OnceDone(t, o)
    PROVE  IInv'
<1>1. /\ UNCHANGED <<sessions, mgr, closing, closed, rtc, tcp, pc, opened, fired, conn, crashed>>
      /\ At(t, "onceDone", o) /\ once' = [once EXCEPT ![o] = Done] /\ todo' = Does(t, << >>)
  BY DEF OnceDone
<1>2. TodoOK' /\ Moves(t, <<"onceDone", o>>, {t} \X {})
  <2>1. << >> \in Seq(Calls) /\ Ordered(<< >>) /\ Rng(<< >>) = {}
    BY SomeCalls
  <2>2. QED
    BY <1>1, <2>1, CallMoves
<1>3. once[o] # None
  BY <1>2 DEF Moves, IInv, OnceCloses, Someone
<1>4. /\ once' \in [Offers -> {None, Done} \cup Goroutines]
      /\ \A p \in Offers : once'[p] = once[p] \/ (once[p] # None /\ once'[p] # None)
  BY <1>1, <1>3, NoneAssumption DEF IInv, TypeOK
<1>5. "onceDone" \in Ops
  BY DEF Ops
<1>6. QED
  BY <1>1, <1>2, <1>4, <1>5, PlainKeeps

\* A goroutine goes on, with close() or without, after a call that changes nothing.
LEMMA GoesOn ==
    ASSUME IInv, NEW t \in Goroutines, NEW op \in {"waitOpen", "eof", "answer", "dial"},
           NEW o \in Offers, At(t, op, o), NEW s \in Seq(Calls), todo' = Does(t, s),
           UNCHANGED <<sessions, mgr, closing, closed, rtc, tcp, pc, opened, fired, conn, once, crashed>>,
           \/ s = << <<"dial", o>> >> /\ t = <<"wait", o>> /\ Before(o) /\ op = "waitOpen"
           \/ s = << <<"psClose", o>> >>
           \/ s = << <<"psClose", o>>, <<"remove", o>> >>
           \/ s = << <<"tcpClose", o>> >> /\ ~Before(o)
    PROVE  IInv'
<1> DEFINE d == <<"dial", o>>
           a == <<"psClose", o>>
           b == <<"remove", o>>
           e == <<"tcpClose", o>>
<1>1. /\ {a, b, d, e} \subseteq Calls /\ b \in After(a)
      /\ After(a) = Calls /\ After(b) = Calls /\ After(e) = Calls
      /\ After(d) = {} /\ After(<<"waitOpen", o>>) = {}
      /\ After(<<op, o>>) \subseteq Calls
  BY AfterFacts DEF CloseOps, Ops
<1>2. op \in Ops
  BY DEF Ops
<1>3. Ordered(s) /\ \/ s = <<d>> /\ Rng(s) = {d}
                    \/ s = <<a>> /\ Rng(s) = {a}
                    \/ s = <<a, b>> /\ Rng(s) = {a, b}
                    \/ s = <<e>> /\ Rng(s) = {e}
  <2>1. s = <<d>> \/ s = <<a>> \/ s = <<a, b>> \/ s = <<e>>
    OBVIOUS
  <2> HIDE DEF a, b, d, e
  <2>2. QED
    BY <1>1, <2>1, SomeCalls
<1>4. \/ Rng(s) = {d} /\ t = <<"wait", o>> /\ Before(o) /\ op = "waitOpen"
      \/ Rng(s) = {a}
      \/ Rng(s) = {a, b}
      \/ Rng(s) = {e} /\ ~Before(o)
  <2>1. /\ s = <<d>> => t = <<"wait", o>> /\ Before(o) /\ op = "waitOpen"
        /\ s = <<e>> => ~Before(o)
    OBVIOUS
  <2> HIDE DEF a, b, d, e
  <2>2. QED
    BY <1>3, <2>1
<1>5. \A x \in Rng(s) : After(<<op, o>>) \subseteq After(x)
  <2> HIDE DEF a, b, d, e
  <2>1. QED
    BY <1>1, <1>4
<1>6. TodoOK' /\ Moves(t, <<op, o>>, {t} \X Rng(s))
  BY <1>3, <1>5, CallMoves
<1>7. /\ once' \in [Offers -> {None, Done} \cup Goroutines]
      /\ \A p \in Offers : once'[p] = once[p]
  BY DEF IInv, TypeOK
<1>8. QED
  <2> DEFINE S == Rng(s)
  <2>1. /\ Moves(t, <<op, o>>, {t} \X S)
        /\ \/ S = {<<"dial", o>>} /\ t = <<"wait", o>> /\ Before(o)
           \/ S = {<<"psClose", o>>}
           \/ S = {<<"psClose", o>>, <<"remove", o>>}
           \/ S = {<<"tcpClose", o>>} /\ ~Before(o)
    BY <1>4, <1>6
  <2> HIDE DEF S
  <2>2. QED
    BY <2>1, <1>2, <1>6, <1>7, PlainKeeps

\* The steps of the waiting goroutine and of readLoop that only go on.
LEMMA WaitOpenKeeps ==
    ASSUME IInv, NEW o \in Offers, WaitOpen(o)
    PROVE  IInv'
<1> DEFINE t == <<"wait", o>>
<1>1. /\ At(t, "waitOpen", o) /\ t \in Goroutines
      /\ UNCHANGED <<sessions, mgr, closing, closed, rtc, tcp, pc, opened, fired, conn, once, crashed>>
  BY GoroutineFacts DEF WaitOpen, Kinds
<1>2. Before(o)
  <2>1. TodoOK /\ todo[t] # << >> /\ Head(todo[t]) = <<"waitOpen", o>>
    BY <1>1 DEF IInv, TypeOK, TodoOK, At
  <2>2. Head(todo[t]) \in Rng(todo[t])
    BY <1>1, <2>1, RngHead DEF TodoOK
  <2>3. QED
    BY <2>1, <2>2 DEF Before, Left
<1>3. /\ << <<"dial", o>> >> \in Seq(Calls)
      /\ << <<"psClose", o>>, <<"remove", o>> >> \in Seq(Calls)
  BY DEF Calls, Ops
<1>4. \/ todo' = Does(t, << <<"dial", o>> >>)
      \/ todo' = Does(t, << <<"psClose", o>>, <<"remove", o>> >>)
  BY DEF WaitOpen
<1> HIDE DEF t
<1>5. CASE todo' = Does(t, << <<"dial", o>> >>)
  BY <1>1, <1>2, <1>3, <1>5, GoesOn DEF t
<1>6. CASE todo' = Does(t, << <<"psClose", o>>, <<"remove", o>> >>)
  BY <1>1, <1>3, <1>6, GoesOn
<1>7. QED
  BY <1>4, <1>5, <1>6

LEMMA ReadEndsKeeps ==
    ASSUME IInv, NEW o \in Offers, ReadEnds(o)
    PROVE  IInv'
<1> DEFINE t == <<"read", o>>
<1>1. /\ At(t, "eof", o) /\ t \in Goroutines /\ todo' = Does(t, << <<"tcpClose", o>> >>)
      /\ UNCHANGED <<sessions, mgr, closing, closed, rtc, tcp, pc, opened, fired, conn, once, crashed>>
  BY GoroutineFacts DEF ReadEnds, Kinds
<1>2. ~Before(o)
  <2>1. TodoOK /\ todo[t] # << >>
    BY <1>1 DEF IInv, TypeOK, TodoOK, At
  <2>2. Head(todo[t]) \in Left(t)
    BY <1>1, <2>1, RngHead DEF TodoOK, Left
  <2>3. QED
    BY <1>1, <2>2, Running
<1>3. << <<"tcpClose", o>> >> \in Seq(Calls)
  BY DEF Calls, Ops
<1>4. QED
  BY <1>1, <1>2, <1>3, GoesOn

\* attachTCP stores the connection.
LEMMA SetTcpKeeps ==
    ASSUME IInv, NEW o \in Offers, SetTcp(o)
    PROVE  IInv'
<1> DEFINE t == <<"wait", o>>
           c == <<"setTcp", o>>
<1>1. /\ At(t, "setTcp", o) /\ t \in Goroutines /\ todo' = Does(t, << >>)
      /\ tcp' = [tcp EXCEPT ![o] = TRUE]
      /\ UNCHANGED <<sessions, mgr, closing, closed, rtc, pc, opened, fired, conn, once, crashed>>
  BY GoroutineFacts DEF SetTcp, Kinds
<1> HIDE DEF t
<1>2. TodoOK' /\ Moves(t, c, {t} \X {})
  <2>1. << >> \in Seq(Calls) /\ Ordered(<< >>) /\ Rng(<< >>) = {}
    BY SomeCalls
  <2>2. QED
    BY <1>1, <2>1, CallMoves
<1>3. Shifts(c, {t} \X {}) /\ c \in Left(t)
  BY <1>2 DEF Moves
<1>4. ~Before(o)
  BY <1>1, <1>3, Running
<1>5. /\ tcp' \in [Offers -> BOOLEAN] /\ tcp'[o]
      /\ \A p \in Offers : p # o => tcp'[p] = tcp[p]
  BY <1>1 DEF IInv, TypeOK
<1>6. TypeOK' /\ Orders'
  BY <1>1, <1>2, <1>5 DEF IInv, TypeOK, TodoOK
<1>7. CallSafe(t, c, {})
  <2>1. c[1] = "setTcp" /\ \A p \in Offers : c # <<"psClose", p>>
    OBVIOUS
  <2> HIDE DEF c
  <2>2. QED
    BY <1>1, <1>4, <1>5, <2>1 DEF CallSafe
<1>8. /\ Places' /\ Replaced' /\ RemoveLast' /\ Orphans' /\ StopFirst'
      /\ FireFirst' /\ StartFirst' /\ DialOnce'
  BY <1>1, <1>2, <1>7, CallKeeps
<1>9. PcKnown'
  <2>1. \A p \in Offers : rtc'[p] = rtc[p] /\ (PcLive(p)' => PcLive(p)) /\ c # <<"rtcClose", p>>
    BY <1>1 DEF PcLive
  <2>2. QED
    BY <1>3, <2>1, PcKept
<1>10. ConnKnown'
  <2>1. \A p \in Offers : ConnLive(p)' =>
            \/ tcp'[p]
            \/ ConnLive(p) /\ c # <<"tcpClose", p>> /\ c # <<"setTcp", p>> /\ tcp'[p] = tcp[p]
    BY <1>1, <1>5 DEF ConnLive
  <2>2. QED
    BY <1>3, <2>1, ConnKept
<1>11. OnceCloses'
  <2>1. \A p \in Offers : once'[p] = once[p] /\ (once[p] # None => conn'[p] = "closed")
    BY <1>1 DEF IInv, OnceCloses
  <2>2. QED
    BY <2>1, <1>3, OnceKept
<1>12. QED
  BY <1>6, <1>8, <1>9, <1>10, <1>11 DEF IInv

\* NewSession stores a peer connection, or fails.
LEMMA NewSessionKeeps ==
    ASSUME IInv, NEW o \in Offers, NewSession(o)
    PROVE  IInv'
<1> DEFINE t == <<"offer", o>>
           c == <<"new", o>>
<1>1. /\ At(t, "new", o) /\ t \in Goroutines /\ todo[t] # << >> /\ Head(todo[t]) = c
      /\ UNCHANGED <<sessions, mgr, closing, closed, tcp, opened, fired, conn, once, crashed>>
  BY GoroutineFacts DEF NewSession, Kinds, At
<1>2. << >> \in Seq(Calls) /\ Ordered(<< >>) /\ Rng(<< >>) = {}
  BY SomeCalls
<1>3. \/ /\ pc' = [pc EXCEPT ![o] = "new"] /\ rtc' = [rtc EXCEPT ![o] = TRUE]
         /\ todo' = Does(t, << >>)
      \/ todo' = [todo EXCEPT ![t] = << >>] /\ UNCHANGED <<pc, rtc>>
  BY DEF NewSession
<1> HIDE DEF t
<1>4. CASE /\ pc' = [pc EXCEPT ![o] = "new"] /\ rtc' = [rtc EXCEPT ![o] = TRUE]
           /\ todo' = Does(t, << >>)
  <2>1. TodoOK' /\ Moves(t, c, {t} \X {})
    BY <1>1, <1>2, <1>4, CallMoves
  <2>2. Shifts(c, {t} \X {}) /\ c \in Left(t) /\ \A x \in Left(t)' : x \in After(c)
    BY <2>1 DEF Moves
  <2>3. Past(o)
    <3>1. ASSUME NEW op \in {"register", "commit"}, <<op, o>> \in Left(t)
          PROVE  FALSE
      <4> DEFINE x == <<op, o>>
      <4>1. x[1] = op /\ x # c /\ x \notin After(c)
        BY AfterFacts
      <4> HIDE DEF x, c
      <4>2. x \in Left(t)'
        BY <1>1, <2>2, <3>1, <4>1 DEF Shifts, LateOps, x
      <4>3. QED
        BY <2>2, <4>1, <4>2
    <3>2. QED
      BY <2>2, <3>1 DEF Past, t
  <2>4. /\ pc' \in [Offers -> PcStates] /\ rtc' \in [Offers -> BOOLEAN] /\ rtc'[o]
        /\ \A p \in Offers : p # o => pc'[p] = pc[p] /\ rtc'[p] = rtc[p]
    BY <1>4 DEF IInv, TypeOK, PcStates
  <2>5. TypeOK' /\ Orders'
    BY <1>1, <2>1, <2>4 DEF IInv, TypeOK, TodoOK
  <2>6. CallSafe(t, c, {})
    <3>1. c[1] = "new" /\ \A p \in Offers : c # <<"psClose", p>>
      OBVIOUS
    <3> HIDE DEF c
    <3>2. QED
      BY <1>1, <2>3, <2>4, <3>1 DEF CallSafe
  <2>7. /\ Places' /\ Replaced' /\ RemoveLast' /\ Orphans' /\ StopFirst'
        /\ FireFirst' /\ StartFirst' /\ DialOnce'
    BY <1>1, <2>1, <2>6, CallKeeps
  <2>8. PcKnown'
    <3>1. \A p \in Offers : PcLive(p)' =>
              \/ rtc'[p]
              \/ PcLive(p) /\ c # <<"rtcClose", p>> /\ rtc'[p] = rtc[p]
      BY <2>4 DEF PcLive
    <3>2. QED
      BY <2>2, <3>1, PcKept
  <2>9. ConnKnown'
    <3>1. \A p \in Offers : ConnLive(p)' =>
              ConnLive(p) /\ c # <<"tcpClose", p>> /\ c # <<"setTcp", p>> /\ tcp'[p] = tcp[p]
      BY <1>1 DEF ConnLive
    <3>2. QED
      BY <2>2, <3>1, ConnKept
  <2>10. OnceCloses'
    <3>1. \A p \in Offers : once'[p] = once[p] /\ (once[p] # None => conn'[p] = "closed")
      BY <1>1 DEF IInv, OnceCloses
    <3>2. QED
      BY <3>1, <2>2, OnceKept
  <2>11. QED
    BY <2>5, <2>7, <2>8, <2>9, <2>10 DEF IInv
<1>5. CASE todo' = [todo EXCEPT ![t] = << >>] /\ UNCHANGED <<pc, rtc>>
  <2>1. TodoOK
    BY DEF IInv, TypeOK, TodoOK
  <2>2. TodoOK' /\ Moves(t, Head(todo[t]), {t} \X {})
    BY <1>1, <1>2, <1>5, <2>1, DropMoves
  <2>3. Moves(t, <<"new", o>>, {t} \X {})
    BY <1>1, <2>2
  <2>4. "new" \in Ops /\ once' \in [Offers -> {None, Done} \cup Goroutines]
    BY <1>1 DEF IInv, TypeOK, Ops
  <2>5. QED
    BY <1>1, <1>5, <2>2, <2>3, <2>4, PlainKeeps
<1>6. QED
  BY <1>3, <1>4, <1>5

(***************************************************************************)
(* Steps in which no goroutine makes a call.                               *)
(***************************************************************************)

\* A peer or a server does something, and may start goroutine u, which has
\* nothing to do, with close() and what follows it.
Quiet(u, S) ==
    /\ UNCHANGED <<sessions, mgr, closed, rtc, tcp, once>>
    /\ closing' \subseteq closing /\ \A o \in closing \ closing' : <<"psClose", o>> \in S
    /\ \A o \in Offers : pc'[o] # pc[o] => pc[o] # "none" /\ (PcLive(o)' => PcLive(o))
    /\ \A o \in Offers : conn'[o] # conn[o] => conn[o] = "open"
    /\ \A o \in Offers : fired[o] => fired'[o]
    /\ \E o \in Offers : /\ S = {} \/ S = {<<"psClose", o>>} \/ S = {<<"psClose", o>>, <<"remove", o>>}
                         /\ u = <<"data", o>> \/ (u = <<"rtc", o>> /\ fired'[o])
                              \/ u = Stopper \/ S = {}

LEMMA QuietKeeps ==
    ASSUME IInv, NEW u \in Goroutines, NEW S, Gains({u} \X S), TypeOK', TodoOK', Quiet(u, S)
    PROVE  IInv'
<1> DEFINE A == {u} \X S
           c == <<"none", None>>
<1>1. \A v, x : <<v, x>> \in A <=> v = u /\ x \in S
  OBVIOUS
<1>2. Shifts(c, A)
  BY GainsShifts
<1>3. c[1] = "none" /\ \A op \in Ops, o \in Offers : c # <<op, o>>
  BY DEF Ops
<1> HIDE DEF A, c
<1>4. PICK q \in Offers :
        /\ S = {} \/ S = {<<"psClose", q>>} \/ S = {<<"psClose", q>>, <<"remove", q>>}
        /\ u = <<"data", q>> \/ (u = <<"rtc", q>> /\ fired'[q]) \/ u = Stopper \/ S = {}
  BY DEF Quiet
<1>5. /\ \A x \in S : x = <<"psClose", q>> \/ x = <<"remove", q>>
      /\ S # {} => <<"psClose", q>> \in S
  BY <1>4
<1>6. \A x \in S : x[2] = q /\ x[1] \in {"psClose", "remove"} /\ x \in Calls
  BY <1>5 DEF Calls, Ops
<1>7. Additions(A)
  <2>1. \A x \in S : /\ x[1] \notin StartOps /\ x[1] # "stop" /\ x[1] \notin Homed /\ x[1] # "rtcClose"
                     /\ x[2] = q /\ x \in Calls
    BY <1>6 DEF StartOps, Homed
  <2>2. \A x \in S : <<"psClose", x[2]>> \in S
    BY <1>5, <1>6
  <2>3. QED
    BY <1>1, <2>1, <2>2 DEF Additions
<1>8. \A o \in Offers : \A x : x \in S => /\ u # <<"wait", o>> /\ u # <<"read", o>>
                                          /\ u = <<"rtc", o>> => fired'[o]
  BY <1>4, GoroutineFacts DEF Kinds
<1>9. \A o \in Offers : /\ <<"waitOpen", o>> \notin S /\ <<"dial", o>> \notin S
                        /\ <<"tcpClose", o>> \notin S /\ <<"setTcp", o>> \notin S
                        /\ <<"onceDone", o>> \notin S
  BY <1>5
<1>10. /\ \A o \in Offers : Start(o)' => Start(o)
       /\ \A o \in Offers : Before(o)' => Before(o)
  BY <1>1, <1>2, <1>7, <1>9, NotAgain
<1>11. \A o \in Offers : Past(o)' => Past(o)
  <2>1. \A o \in Offers : pc'[o] # pc[o] => Past(o)
    BY DEF Quiet, Past
  <2>2. QED
    BY <1>2, <1>3, <1>7, <2>1, NotAgain
<1>12. \A o \in Offers : c # <<"psClose", o>> /\ c # <<"rtcClose", o>>
                      /\ c # <<"tcpClose", o>> /\ c # <<"setTcp", o>>
  BY <1>3 DEF Ops
<1>13. Places' /\ Replaced' /\ RemoveLast' /\ Orphans' /\ StopFirst'
  <2>1. \A o \in closing \ closing' : Someone("psClose", o)'
    BY <1>1, <1>2, <1>6 DEF Quiet, Shifts, Someone
  <2>2. QED
    BY <1>2, <1>7, <1>11, <1>12, <2>1, SessionsKept DEF Quiet
<1>14. FireFirst' /\ StartFirst' /\ DialOnce'
  <2>1. \A o \in Offers : \A x : <<<<"rtc", o>>, x>> \in A => fired'[o]
    BY <1>1, <1>8
  <2>2. \A o \in Offers : Start(o)' => Start(o) /\ \A x : <<<<"wait", o>>, x>> \notin A
    BY <1>1, <1>8, <1>10
  <2>3. ASSUME NEW o \in Offers, Before(o)'
        PROVE  /\ Before(o)
               /\ conn'[o] = conn[o] /\ (tcp'[o] => tcp[o]) /\ once'[o] = once[o]
               /\ \A x : <<<<"read", o>>, x>> \notin A
               /\ \A v \in Goroutines : /\ <<v, <<"tcpClose", o>> >> \notin A
                                        /\ <<v, <<"setTcp", o>> >> \notin A
    <3>1. Before(o)
      BY <2>3, <1>10
    <3>2. conn'[o] = conn[o] /\ (tcp'[o] => tcp[o]) /\ once'[o] = once[o]
      BY <3>1 DEF Quiet, IInv, DialOnce
    <3>3. \A x : <<<<"read", o>>, x>> \notin A
      BY <1>1, <1>8
    <3>4. \A v \in Goroutines : /\ <<v, <<"tcpClose", o>> >> \notin A
                               /\ <<v, <<"setTcp", o>> >> \notin A
      BY <1>1, <1>9
    <3>5. QED
      BY <3>1, <3>2, <3>3, <3>4
  <2>4. QED
    BY <1>2, <2>1, <2>2, <2>3, GoroutinesKept DEF Quiet
<1>15. PcKnown'
  <2>1. \A p \in Offers : PcLive(p)' => PcLive(p) /\ rtc'[p] = rtc[p]
    BY DEF Quiet, PcLive
  <2>2. QED
    BY <1>2, <1>12, <2>1, PcKept
<1>16. ConnKnown'
  <2>1. \A p \in Offers : ConnLive(p)' => ConnLive(p) /\ tcp'[p] = tcp[p]
    BY DEF Quiet, ConnLive
  <2>2. QED
    BY <1>2, <1>12, <2>1, ConnKept
<1>17. OnceCloses'
  <2>1. \A p \in Offers : once'[p] = once[p] /\ (once[p] # None => conn'[p] = "closed")
    BY DEF Quiet, IInv, OnceCloses
  <2>2. QED
    BY <1>1, <1>2, <1>9, <2>1, OnceKept
<1>18. QED
  BY <1>13, <1>14, <1>15, <1>16, <1>17 DEF IInv, TodoOK

\* Nothing the invariant looks at changes but states of the connections.
LEMMA StillKeeps ==
    ASSUME IInv, TypeOK', UNCHANGED todo,
           UNCHANGED <<sessions, mgr, closing, closed, rtc, tcp, fired, once>>,
           \A o \in Offers : pc'[o] # pc[o] => pc[o] # "none" /\ (PcLive(o)' => PcLive(o)),
           \A o \in Offers : conn'[o] # conn[o] => conn[o] = "open",
           Offers # {}
    PROVE  IInv'
<1>1. TodoOK
  BY DEF IInv, TypeOK, TodoOK
<1>2. TodoOK' /\ Gains({})
  BY <1>1, StillGains
<1>3. Gains({Stopper} \X {}) /\ Stopper \in Goroutines
  BY <1>2, GoroutineFacts
<1>4. Quiet(Stopper, {})
  BY DEF Quiet
<1>5. QED
  BY <1>2, <1>3, <1>4, QuietKeeps

LEMMA DataChannelOpensKeeps ==
    ASSUME IInv, NEW o \in Offers, DataChannelOpens(o)
    PROVE  IInv'
<1>1. /\ pc[o] = "answered" /\ pc' = [pc EXCEPT ![o] = "open"]
      /\ opened' = [opened EXCEPT ![o] = TRUE]
      /\ UNCHANGED <<sessions, mgr, closing, closed, rtc, tcp, fired, conn, once, todo, crashed>>
  BY DEF DataChannelOpens
<1>2. TypeOK'
  BY <1>1 DEF IInv, TypeOK, PcStates
<1>3. \A p \in Offers : pc'[p] # pc[p] => pc[p] # "none" /\ (PcLive(p)' => PcLive(p))
  BY <1>1 DEF IInv, TypeOK, PcLive
<1>4. QED
  BY <1>1, <1>2, <1>3, StillKeeps

LEMMA TargetHangsUpKeeps ==
    ASSUME IInv, NEW o \in Offers, TargetHangsUp(o)
    PROVE  IInv'
<1>1. /\ conn[o] = "open" /\ conn' = [conn EXCEPT ![o] = "hungup"]
      /\ UNCHANGED <<sessions, mgr, closing, closed, rtc, tcp, pc, opened, fired, once, todo, crashed>>
  BY DEF TargetHangsUp
<1>2. TypeOK'
  BY <1>1 DEF IInv, TypeOK, ConnStates
<1>3. \A p \in Offers : conn'[p] # conn[p] => conn[p] = "open"
  BY <1>1 DEF IInv, TypeOK
<1>4. QED
  BY <1>1, <1>2, <1>3, StillKeeps

\* The friend leaves: pion's goroutine runs the close handler, once.
LEMMA PeerGoneKeeps ==
    ASSUME IInv, NEW o \in Offers, PeerGone(o)
    PROVE  IInv'
<1> DEFINE u == <<"rtc", o>>
           a == <<"psClose", o>>
           b == <<"remove", o>>
<1>1. /\ pc[o] \in {"answered", "open"} /\ pc' = [pc EXCEPT ![o] = "failed"]
      /\ fired' = [fired EXCEPT ![o] = TRUE]
      /\ todo' = IF fired[o] THEN todo ELSE [todo EXCEPT ![u] = <<a, b>>]
      /\ UNCHANGED <<sessions, mgr, closing, closed, rtc, tcp, opened, conn, once, crashed>>
  BY DEF PeerGone, FireClose
<1>2. u \in Goroutines /\ TodoOK
  BY GoroutineFacts DEF Kinds, IInv, TypeOK, TodoOK
<1>3. /\ {a, b} \subseteq Calls /\ b \in After(a)
  BY AfterFacts DEF CloseOps, Ops
<1>4. PICK S : /\ TodoOK' /\ Gains({u} \X S)
               /\ S = {} \/ S = {a, b}
  <2>1. CASE fired[o]
    <3>1. TodoOK' /\ Gains({})
      BY <1>1, <1>2, <2>1, StillGains
    <3>2. Gains({u} \X {})
      BY <3>1
    <3>3. QED
      BY <3>1, <3>2
  <2>2. CASE ~fired[o]
    <3>1. Left(u) = {}
      BY <2>2 DEF IInv, FireFirst
    <3> HIDE DEF a, b, u
    <3>2. <<a, b>> \in Seq(Calls) /\ Rng(<<a, b>>) = {a, b} /\ Ordered(<<a, b>>)
      BY <1>3, SomeCalls
    <3>3. TodoOK' /\ Gains({u} \X {a, b})
      BY <1>1, <1>2, <2>2, <3>1, <3>2, StartGains
    <3>4. QED
      BY <3>3
  <2>3. QED
    BY <2>1, <2>2
<1>5. TypeOK'
  BY <1>1, <1>4 DEF IInv, TypeOK, PcStates, TodoOK
<1>6. Quiet(u, S)
  <2>1. \A p \in Offers : pc'[p] # pc[p] => pc[p] # "none" /\ (PcLive(p)' => PcLive(p))
    BY <1>1 DEF IInv, TypeOK, PcLive
  <2>2. fired'[o] /\ \A p \in Offers : fired[p] => fired'[p]
    BY <1>1 DEF IInv, TypeOK
  <2>3. QED
    BY <1>1, <1>4, <2>1, <2>2 DEF Quiet
<1>7. QED
  BY <1>2, <1>4, <1>5, <1>6, QuietKeeps

\* Feed fails.
LEMMA FeedFailsKeeps ==
    ASSUME IInv, NEW o \in Offers, FeedFails(o)
    PROVE  IInv'
<1> DEFINE u == <<"data", o>>
           a == <<"psClose", o>>
<1>1. /\ todo[u] = << >> /\ todo' = [todo EXCEPT ![u] = <<a>>]
      /\ UNCHANGED <<sessions, mgr, closing, closed, rtc, tcp, pc, opened, fired, conn, once, crashed>>
  BY DEF FeedFails
<1>2. u \in Goroutines /\ TodoOK
  BY GoroutineFacts DEF Kinds, IInv, TypeOK, TodoOK
<1>3. a \in Calls
  BY AfterFacts DEF Ops
<1>4. TodoOK' /\ Gains({u} \X {a})
  <2> HIDE DEF a, u
  <2>1. <<a>> \in Seq(Calls) /\ Rng(<<a>>) = {a} /\ Ordered(<<a>>)
    BY <1>3, SomeCalls
  <2>2. Left(u) = {}
    BY <1>1, IdleLeft
  <2>3. QED
    BY <1>1, <1>2, <2>1, <2>2, StartGains
<1>5. TypeOK'
  BY <1>1, <1>4 DEF IInv, TypeOK, TodoOK
<1>6. Quiet(u, {a})
  BY <1>1 DEF Quiet
<1>7. QED
  BY <1>2, <1>4, <1>5, <1>6, QuietKeeps

(***************************************************************************)
(* The steps of startSession.                                              *)
(***************************************************************************)

\* HandleOffer succeeds, fails, or dies.
LEMMA HandleOfferKeeps ==
    ASSUME IInv, NEW o \in Offers, HandleOffer(o)
    PROVE  IInv'
<1> DEFINE t == <<"offer", o>>
           c == <<"handleOffer", o>>
           a == <<"psClose", o>>
<1>1. /\ At(t, "handleOffer", o) /\ t \in Goroutines /\ todo[t] # << >> /\ Head(todo[t]) = c
      /\ UNCHANGED <<sessions, mgr, closing, closed, rtc, tcp, opened, fired, conn, once>>
  BY GoroutineFacts DEF HandleOffer, Kinds, At
<1>2. \/ /\ pc[o] = "new" /\ pc' = [pc EXCEPT ![o] = "answered"]
         /\ todo' = Does(t, << >>) /\ UNCHANGED crashed
      \/ todo' = [todo EXCEPT ![t] = <<a>>] /\ UNCHANGED <<pc, crashed>>
      \/ crashed' = TRUE /\ UNCHANGED <<pc, todo>>
  BY DEF HandleOffer
<1> HIDE DEF t
<1>3. CASE /\ pc[o] = "new" /\ pc' = [pc EXCEPT ![o] = "answered"]
           /\ todo' = Does(t, << >>) /\ UNCHANGED crashed
  <2>1. TodoOK' /\ Moves(t, c, {t} \X {})
    <3>1. << >> \in Seq(Calls) /\ Ordered(<< >>) /\ Rng(<< >>) = {}
      BY SomeCalls
    <3>2. QED
      BY <1>1, <1>3, <3>1, CallMoves
  <2>2. Shifts(c, {t} \X {})
    BY <2>1 DEF Moves
  <2>3. /\ pc' \in [Offers -> PcStates] /\ Past(o) /\ PcLive(o)
        /\ \A p \in Offers : p # o => pc'[p] = pc[p]
    BY <1>3 DEF IInv, TypeOK, PcStates, Past, PcLive
  <2>4. TypeOK' /\ Orders'
    BY <1>1, <1>3, <2>1, <2>3 DEF IInv, TypeOK, TodoOK
  <2>5. CallSafe(t, c, {})
    <3>1. c[1] = "handleOffer" /\ \A p \in Offers : c # <<"psClose", p>>
      OBVIOUS
    <3> HIDE DEF c
    <3>2. QED
      BY <1>1, <2>3, <3>1 DEF CallSafe
  <2>6. /\ Places' /\ Replaced' /\ RemoveLast' /\ Orphans' /\ StopFirst'
        /\ FireFirst' /\ StartFirst' /\ DialOnce'
    BY <1>1, <2>1, <2>5, CallKeeps
  <2>7. PcKnown'
    <3>1. \A p \in Offers : PcLive(p)' => PcLive(p) /\ c # <<"rtcClose", p>> /\ rtc'[p] = rtc[p]
      BY <1>1, <2>3 DEF PcLive
    <3>2. QED
      BY <2>2, <3>1, PcKept
  <2>8. ConnKnown'
    <3>1. \A p \in Offers : ConnLive(p)' =>
              ConnLive(p) /\ c # <<"tcpClose", p>> /\ c # <<"setTcp", p>> /\ tcp'[p] = tcp[p]
      BY <1>1 DEF ConnLive
    <3>2. QED
      BY <2>2, <3>1, ConnKept
  <2>9. OnceCloses'
    <3>1. \A p \in Offers : once'[p] = once[p] /\ (once[p] # None => conn'[p] = "closed")
      BY <1>1 DEF IInv, OnceCloses
    <3>2. QED
      BY <3>1, <2>2, OnceKept
  <2>10. QED
    BY <2>4, <2>6, <2>7, <2>8, <2>9 DEF IInv
<1>4. CASE todo' = [todo EXCEPT ![t] = <<a>>] /\ UNCHANGED <<pc, crashed>>
  <2>1. TodoOK /\ a \in Calls
    BY AfterFacts DEF IInv, TypeOK, TodoOK, Ops
  <2>2. <<a>> \in Seq(Calls) /\ Ordered(<<a>>) /\ Rng(<<a>>) = {a}
    <3> HIDE DEF a
    <3>1. QED
      BY <2>1, SomeCalls
  <2>3. TodoOK' /\ Moves(t, Head(todo[t]), {t} \X {a})
    <3> HIDE DEF a
    <3>1. QED
      BY <1>1, <1>4, <2>1, <2>2, DropMoves
  <2>4. Moves(t, <<"handleOffer", o>>, {t} \X {a})
    BY <1>1, <2>3
  <2>5. "handleOffer" \in Ops /\ once' \in [Offers -> {None, Done} \cup Goroutines]
    BY <1>1 DEF IInv, TypeOK, Ops
  <2>6. QED
    BY <1>1, <1>4, <2>3, <2>4, <2>5, PlainKeeps
<1>5. CASE crashed' = TRUE /\ UNCHANGED <<pc, todo>>
  <2>1. TypeOK'
    BY <1>1, <1>5 DEF IInv, TypeOK
  <2>2. QED
    BY <1>1, <1>5, <2>1, StillKeeps
<1>6. QED
  BY <1>2, <1>3, <1>4, <1>5

\* The ANSWER is sent: startSession is over and the waiting goroutine starts.
LEMMA SendAnswerKeeps ==
    ASSUME IInv, NEW o \in Offers, SendAnswer(o)
    PROVE  IInv'
<1> DEFINE t == <<"offer", o>>
           u == <<"wait", o>>
           c == <<"answer", o>>
           w == <<"waitOpen", o>>
<1>1. /\ At(t, "answer", o) /\ t \in Goroutines /\ u \in Goroutines /\ u # t
      /\ todo[t] # << >> /\ Head(todo[t]) = c
      /\ \A p \in Offers : u # <<"rtc", p>> /\ u # <<"read", p>> /\ (u = <<"wait", p>> => p = o)
      /\ UNCHANGED <<sessions, mgr, closing, closed, rtc, tcp, pc, opened, fired, conn, once, crashed>>
  BY GoroutineFacts DEF SendAnswer, Kinds, At
<1>2. \/ todo' = [Does(t, << >>) EXCEPT ![u] = <<w>>]
      \/ todo' = Does(t, << <<"psClose", o>> >>)
  BY DEF SendAnswer
<1>3. TodoOK
  BY DEF IInv, TypeOK, TodoOK
<1>4. c \in Left(t)
  BY <1>1, <1>3, RngHead DEF TodoOK, Left
<1>5. Start(o) /\ Before(o) /\ Left(u) = {}
  BY <1>4 DEF Start, Before, StartOps, IInv, StartFirst
<1> HIDE DEF t
<1>6. CASE todo' = [Does(t, << >>) EXCEPT ![u] = <<w>>]
  <2>1. /\ w \in Calls /\ w[1] = "waitOpen" /\ w[2] = o /\ c[1] = "answer" /\ After(c) = {}
        /\ \A p \in Offers : /\ c # <<"psClose", p>> /\ c # <<"rtcClose", p>>
                             /\ c # <<"tcpClose", p>> /\ c # <<"setTcp", p>>
                             /\ w # <<"tcpClose", p>> /\ w # <<"setTcp", p>>
                             /\ w # <<"onceDone", p>> /\ w # <<"dial", p>>
                             /\ w = <<"waitOpen", p>> => p = o
    BY AfterFacts DEF Ops
  <2>2. /\ << >> \in Seq(Calls) /\ Ordered(<< >>) /\ Rng(<< >>) = {}
        /\ <<w>> \in Seq(Calls) /\ Ordered(<<w>>) /\ Rng(<<w>>) = {w}
    <3> HIDE DEF w
    <3>1. QED
      BY <2>1, SomeCalls
  <2> DEFINE A == {u} \X {w}
  <2>3. TodoOK' /\ Moves(t, c, A)
    <3> HIDE DEF w, u
    <3>1. TodoOK' /\ Moves(t, Head(todo[t]), ({t} \X {}) \cup ({u} \X {w}))
      BY <1>1, <1>3, <1>5, <1>6, <2>2, DoesStarts
    <3>2. ({t} \X {}) \cup ({u} \X {w}) = {u} \X {w}
      OBVIOUS
    <3>3. QED
      BY <1>1, <3>1, <3>2
  <2>4. \A v, x : <<v, x>> \in A <=> v = u /\ x = w
    OBVIOUS
  <2>5. Shifts(c, A) /\ \A x \in Left(t)' : x \in After(c) \/ <<t, x>> \in A
    BY <2>3 DEF Moves
  <2>6. Left(t)' = {}
    <3> HIDE DEF A, u
    <3>1. QED
      BY <1>1, <2>1, <2>4, <2>5
  <2>7. ~Start(o)'
    BY <2>6 DEF Start, t
  <2>8. Additions(A)
    <3>1. w[1] \notin StartOps /\ u = <<Home(w[1]), w[2]>>
      BY <2>1 DEF StartOps, Home
    <3> HIDE DEF A, w, u
    <3>2. QED
      BY <2>1, <2>4, <3>1 DEF Additions
  <2>9. TypeOK' /\ Orders'
    BY <1>1, <2>3 DEF IInv, TypeOK, TodoOK
  <2>10. /\ \A p \in Offers : Start(p)' => Start(p)
         /\ \A p \in Offers : Before(p)' => Before(p)
         /\ \A p \in Offers : Past(p)' => Past(p)
    <3>0. \A p \in Offers : <<"wait", p>> = u => p = o
      BY <1>1
    <3> HIDE DEF A, w, u, c
    <3>1. \A p \in Offers : Start(p)' => Start(p)
      BY <2>5, <2>8, NotAgain
    <3>2. ASSUME NEW p \in Offers, Before(p)'
          PROVE  Before(p)
      <4>1. \/ Before(p)
            \/ <<<<"wait", p>>, <<"waitOpen", p>> >> \in A
            \/ <<<<"wait", p>>, <<"dial", p>> >> \in A
        BY <3>2, <2>5, <2>8, NotAgain
      <4>2. Before(p) \/ <<"wait", p>> = u
        BY <4>1, <2>4
      <4>3. QED
        BY <4>2, <3>0, <1>5
    <3>3. \A p \in Offers : Past(p)' => Past(p)
      BY <1>1, <2>1, <2>5, <2>8, NotAgain
    <3>4. QED
      BY <3>1, <3>2, <3>3
  <2> HIDE DEF A, w, u, c
  <2>11. Places' /\ Replaced' /\ RemoveLast' /\ Orphans' /\ StopFirst'
    BY <1>1, <2>1, <2>5, <2>8, <2>10, SessionsKept
  <2>12. FireFirst' /\ StartFirst' /\ DialOnce'
    <3>1. \A p \in Offers : Start(p)' => Start(p) /\ \A x : <<<<"wait", p>>, x>> \notin A
      BY <1>1, <2>4, <2>7, <2>10
    <3>2. \A p \in Offers : \A x : <<<<"rtc", p>>, x>> \notin A
      BY <1>1, <2>4
    <3>3. \A p \in Offers : \A x : <<<<"read", p>>, x>> \notin A
      BY <1>1, <2>4
    <3>4. \A p \in Offers : \A v \in Goroutines : /\ <<v, <<"tcpClose", p>> >> \notin A
                                                  /\ <<v, <<"setTcp", p>> >> \notin A
      BY <2>1, <2>4
    <3>5. \A p \in Offers : conn'[p] = conn[p] /\ tcp'[p] = tcp[p] /\ once'[p] = once[p]
                            /\ fired'[p] = fired[p]
      BY <1>1
    <3>6. QED
      BY <2>5, <2>10, <3>1, <3>2, <3>3, <3>4, <3>5, GoroutinesKept
  <2>13. PcKnown'
    <3>1. \A p \in Offers : (PcLive(p)' => PcLive(p)) /\ rtc'[p] = rtc[p]
      BY <1>1 DEF PcLive
    <3>2. QED
      BY <2>1, <2>5, <3>1, PcKept
  <2>14. ConnKnown'
    <3>1. \A p \in Offers : (ConnLive(p)' => ConnLive(p)) /\ tcp'[p] = tcp[p]
      BY <1>1 DEF ConnLive
    <3>2. QED
      BY <2>1, <2>5, <3>1, ConnKept
  <2>15. OnceCloses'
    <3>1. \A p \in Offers : once'[p] = once[p] /\ (once[p] # None => conn'[p] = "closed")
      BY <1>1 DEF IInv, OnceCloses
    <3>2. \A p \in Offers : \A v \in Goroutines : <<v, <<"onceDone", p>> >> \notin A
      BY <2>1, <2>4
    <3>3. QED
      BY <2>5, <3>1, <3>2, OnceKept
  <2>16. QED
    BY <2>9, <2>11, <2>12, <2>13, <2>14, <2>15 DEF IInv
<1>7. CASE todo' = Does(t, << <<"psClose", o>> >>)
  <2>1. << <<"psClose", o>> >> \in Seq(Calls)
    BY DEF Calls, Ops
  <2>2. QED
    BY <1>1, <1>7, <2>1, GoesOn
<1>8. QED
  BY <1>2, <1>6, <1>7

\* DialTCP succeeds, and readLoop starts; or it fails.
LEMMA DialKeeps ==
    ASSUME IInv, NEW o \in Offers, Dial(o)
    PROVE  IInv'
<1> DEFINE t == <<"wait", o>>
           u == <<"read", o>>
           c == <<"dial", o>>
           a == <<"setTcp", o>>
           e == <<"eof", o>>
<1>1. /\ At(t, "dial", o) /\ t \in Goroutines /\ u \in Goroutines /\ u # t
      /\ todo[t] # << >> /\ Head(todo[t]) = c
      /\ \A p \in Offers : /\ u # <<"rtc", p>> /\ t # <<"rtc", p>>
                           /\ u # <<"wait", p>> /\ (t = <<"wait", p>> => p = o)
                           /\ t # <<"read", p>> /\ (u = <<"read", p>> => p = o)
      /\ UNCHANGED <<sessions, mgr, closing, closed, rtc, tcp, pc, opened, fired, once, crashed>>
  BY GoroutineFacts DEF Dial, Kinds, At
<1>2. \/ /\ conn' = [conn EXCEPT ![o] = "open"]
         /\ todo' = [Does(t, <<a>>) EXCEPT ![u] = <<e>>]
      \/ todo' = Does(t, << <<"psClose", o>> >>) /\ UNCHANGED conn
  BY DEF Dial
<1>3. TodoOK
  BY DEF IInv, TypeOK, TodoOK
<1>4. c \in Left(t)
  BY <1>1, <1>3, RngHead DEF TodoOK, Left
<1>5. /\ Before(o) /\ ~Start(o)
      /\ Left(u) = {} /\ once[o] = None
  BY <1>1, <1>4, Running DEF Before, IInv, DialOnce
<1>6. CASE /\ conn' = [conn EXCEPT ![o] = "open"]
           /\ todo' = [Does(t, <<a>>) EXCEPT ![u] = <<e>>]
  <2>1. /\ a \in Calls /\ a[1] = "setTcp" /\ a[2] = o /\ c[1] = "dial" /\ After(c) = {}
        /\ e \in Calls /\ e[1] = "eof" /\ e[2] = o
        /\ \A p \in Offers : /\ c # <<"psClose", p>> /\ c # <<"rtcClose", p>>
                             /\ c # <<"tcpClose", p>> /\ c # <<"setTcp", p>>
                             /\ e # <<"tcpClose", p>> /\ e # <<"setTcp", p>>
                             /\ a # <<"tcpClose", p>> /\ (a = <<"setTcp", p>> => p = o)
                             /\ e # <<"onceDone", p>> /\ e # <<"dial", p>> /\ e # <<"waitOpen", p>>
                             /\ a # <<"onceDone", p>> /\ a # <<"dial", p>> /\ a # <<"waitOpen", p>>
    BY AfterFacts DEF Ops
  <2>2. /\ <<a>> \in Seq(Calls) /\ Ordered(<<a>>) /\ Rng(<<a>>) = {a}
        /\ <<e>> \in Seq(Calls) /\ Ordered(<<e>>) /\ Rng(<<e>>) = {e}
    <3> HIDE DEF a, e
    <3>1. QED
      BY <2>1, SomeCalls
  <2> DEFINE A == ({t} \X {a}) \cup ({u} \X {e})
  <2>3. TodoOK' /\ Moves(t, c, A)
    <3> HIDE DEF a, e, u, t, c
    <3>1. TodoOK' /\ Moves(t, Head(todo[t]), A)
      BY <1>1, <1>3, <1>5, <1>6, <2>1, <2>2, DoesStarts
    <3>2. QED
      BY <1>1, <3>1
  <2>4. \A v, x : <<v, x>> \in A <=> \/ v = t /\ x = a
                                     \/ v = u /\ x = e
    OBVIOUS
  <2>5. Shifts(c, A) /\ \A x \in Left(t)' : x \in After(c) \/ <<t, x>> \in A
    BY <2>3 DEF Moves
  <2>6. \A x \in Left(t)' : x = a
    <3> HIDE DEF A, t, u, c, a, e
    <3>1. QED
      BY <1>1, <2>1, <2>4, <2>5
  <2>7. Additions(A)
    <3>1. /\ a[1] \notin StartOps /\ t = <<Home(a[1]), a[2]>>
          /\ e[1] \notin StartOps /\ u = <<Home(e[1]), e[2]>>
      BY <2>1 DEF StartOps, Home
    <3> HIDE DEF A, a, e, t, u
    <3>2. QED
      BY <2>1, <2>4, <3>1 DEF Additions
  <2>8. /\ \A p \in Offers : Start(p)' => Start(p)
        /\ \A p \in Offers : Before(p)' => Before(p) /\ p # o
        /\ \A p \in Offers : Past(p)' => Past(p)
    <3>1. \A p \in Offers : Start(p)' => Start(p)
      BY <2>5, <2>7, NotAgain
    <3>2. ASSUME NEW p \in Offers, Before(p)'
          PROVE  Before(p)
      <4>1. \/ Before(p)
            \/ <<<<"wait", p>>, <<"waitOpen", p>> >> \in A
            \/ <<<<"wait", p>>, <<"dial", p>> >> \in A
        BY <3>2, <2>5, <2>7, NotAgain
      <4> HIDE DEF A, a, e, u, t
      <4>2. QED
        BY <4>1, <2>1, <2>4
    <3>3. ~Before(o)'
      <4>1. ~Start(o)'
        BY <1>5, <3>1
      <4>2. <<"waitOpen", o>> \notin Left(t)' /\ <<"dial", o>> \notin Left(t)'
        <5> HIDE DEF a
        <5>1. QED
          BY <2>1, <2>6
      <4>3. QED
        BY <4>1, <4>2 DEF Before
    <3>4. \A p \in Offers : Past(p)' => Past(p)
      <4> HIDE DEF A, c
      <4>1. QED
        BY <1>1, <2>1, <2>5, <2>7, NotAgain
    <3>5. QED
      BY <3>1, <3>2, <3>3, <3>4
  <2>9. /\ conn' \in [Offers -> ConnStates]
        /\ \A p \in Offers : p # o => conn'[p] = conn[p]
    BY <1>6 DEF IInv, TypeOK, ConnStates
  <2>10. TypeOK' /\ Orders'
    BY <1>1, <2>3, <2>9 DEF IInv, TypeOK, TodoOK
  <2>11. Someone("setTcp", o)'
    <3>1. a \in Left(t)'
      <4> HIDE DEF A, t, a, u, e
      <4>1. QED
        BY <1>1, <2>1, <2>4, <2>5 DEF Shifts
    <3>2. QED
      BY <1>1, <3>1 DEF Someone
  <2> HIDE DEF A, a, e, u, t, c
  <2>12. Places' /\ Replaced' /\ RemoveLast' /\ Orphans' /\ StopFirst'
    BY <1>1, <2>1, <2>5, <2>7, <2>8, SessionsKept
  <2>13. FireFirst' /\ StartFirst' /\ DialOnce'
    <3>1. \A p \in Offers : Start(p)' => Start(p) /\ \A x : <<<<"wait", p>>, x>> \notin A
      BY <1>1, <1>5, <2>4, <2>8
    <3>2. \A p \in Offers : \A x : <<<<"rtc", p>>, x>> \notin A
      BY <1>1, <2>4
    <3>3. \A p \in Offers : p # o => \A x : <<<<"read", p>>, x>> \notin A
      BY <1>1, <2>4
    <3>4. \A p \in Offers : p # o => \A v \in Goroutines :
              <<v, <<"tcpClose", p>> >> \notin A /\ <<v, <<"setTcp", p>> >> \notin A
      BY <2>1, <2>4
    <3>5. \A p \in Offers : tcp'[p] = tcp[p] /\ once'[p] = once[p] /\ fired'[p] = fired[p]
      BY <1>1
    <3>6. QED
      BY <2>5, <2>8, <2>9, <3>1, <3>2, <3>3, <3>4, <3>5, GoroutinesKept
  <2>14. PcKnown'
    <3>1. \A p \in Offers : (PcLive(p)' => PcLive(p)) /\ rtc'[p] = rtc[p]
      BY <1>1 DEF PcLive
    <3>2. QED
      BY <2>1, <2>5, <3>1, PcKept
  <2>15. ConnKnown'
    <3>1. \A p \in Offers : ConnLive(p)' => (ConnLive(p) /\ tcp'[p] = tcp[p]) \/ p = o
      BY <1>1, <2>9 DEF ConnLive
    <3>2. QED
      BY <2>1, <2>5, <2>11, <3>1, ConnKept
  <2>16. OnceCloses'
    <3>1. \A p \in Offers : once'[p] = once[p] /\ (once[p] # None => conn'[p] = "closed")
      BY <1>1, <1>5, <2>9 DEF IInv, OnceCloses
    <3>2. \A p \in Offers : \A v \in Goroutines : <<v, <<"onceDone", p>> >> \notin A
      BY <2>1, <2>4
    <3>3. QED
      BY <2>5, <3>1, <3>2, OnceKept
  <2>17. QED
    BY <2>10, <2>12, <2>13, <2>14, <2>15, <2>16 DEF IInv
<1>7. CASE todo' = Does(t, << <<"psClose", o>> >>) /\ UNCHANGED conn
  <2>1. << <<"psClose", o>> >> \in Seq(Calls)
    BY DEF Calls, Ops
  <2>2. QED
    BY <1>1, <1>7, <2>1, GoesOn
<1>8. QED
  BY <1>2, <1>6, <1>7

\* Session.Close: pion reports state Closed, and its goroutine runs the close
\* handler unless it did before.
LEMMA RtcCloseKeeps ==
    ASSUME IInv, NEW t \in Goroutines, NEW o \in Offers, RtcClose(t, o)
    PROVE  IInv'
<1> DEFINE u == <<"rtc", o>>
           c == <<"rtcClose", o>>
           a == <<"psClose", o>>
           b == <<"remove", o>>
<1>1. /\ At(t, "rtcClose", o) /\ u \in Goroutines
      /\ todo[t] # << >> /\ Head(todo[t]) = c
      /\ \A p \in Offers : /\ u # <<"wait", p>> /\ u # <<"read", p>> /\ (u = <<"rtc", p>> => p = o)
      /\ pc' = [pc EXCEPT ![o] = "closed"] /\ fired' = [fired EXCEPT ![o] = TRUE]
      /\ todo' = IF fired[o] THEN Does(t, << >>) ELSE [Does(t, << >>) EXCEPT ![u] = <<a, b>>]
      /\ UNCHANGED <<sessions, mgr, closing, closed, rtc, tcp, opened, conn, once, crashed>>
  BY GoroutineFacts DEF RtcClose, FireClose, Kinds, At
<1>2. TodoOK
  BY DEF IInv, TypeOK, TodoOK
<1>3. c \in Left(t)
  BY <1>1, <1>2, RngHead DEF TodoOK, Left
<1>4. closed[o]
  BY <1>3 DEF IInv, RemoveLast, Someone
<1>5. /\ {a, b} \subseteq Calls /\ b \in After(a) /\ a[1] = "psClose" /\ a[2] = o
      /\ b[1] = "remove" /\ b[2] = o /\ c[1] = "rtcClose" /\ a = <<"psClose", b[2]>>
      /\ \A p \in Offers : /\ c # <<"psClose", p>> /\ (c = <<"rtcClose", p>> => p = o)
                           /\ c # <<"tcpClose", p>> /\ c # <<"setTcp", p>>
                           /\ a # <<"tcpClose", p>> /\ a # <<"setTcp", p>> /\ a # <<"onceDone", p>>
                           /\ b # <<"tcpClose", p>> /\ b # <<"setTcp", p>> /\ b # <<"onceDone", p>>
                           /\ a # <<"waitOpen", p>> /\ a # <<"dial", p>>
                           /\ b # <<"waitOpen", p>> /\ b # <<"dial", p>>
  BY AfterFacts DEF CloseOps, Ops
<1>6. /\ << >> \in Seq(Calls) /\ Ordered(<< >>) /\ Rng(<< >>) = {}
      /\ <<a, b>> \in Seq(Calls) /\ Ordered(<<a, b>>) /\ Rng(<<a, b>>) = {a, b}
  <2> HIDE DEF a, b
  <2>1. QED
    BY <1>5, SomeCalls
<1>7. ~fired[o] => Left(u) = {}
  BY DEF IInv, FireFirst
<1> HIDE DEF a, b, c, u
<1>8. PICK S : /\ TodoOK' /\ Moves(t, c, {u} \X S)
               /\ S = {} \/ S = {a, b}
  <2>1. CASE fired[o]
    <3>1. TodoOK' /\ Moves(t, Head(todo[t]), {t} \X {})
      BY <1>1, <1>2, <1>6, <2>1, DoesMoves
    <3>2. {t} \X {} = {u} \X {}
      OBVIOUS
    <3>3. Moves(t, c, {u} \X {})
      BY <1>1, <3>1, <3>2
    <3>4. QED
      BY <3>1, <3>3
  <2>2. CASE ~fired[o]
    <3>1. u # t
      BY <1>3, <1>7, <2>2
    <3>2. TodoOK' /\ Moves(t, Head(todo[t]), ({t} \X {}) \cup ({u} \X {a, b}))
      BY <1>1, <1>2, <1>6, <1>7, <2>2, <3>1, DoesStarts
    <3>3. ({t} \X {}) \cup ({u} \X {a, b}) = {u} \X {a, b}
      OBVIOUS
    <3>4. Moves(t, c, {u} \X {a, b})
      BY <1>1, <3>2, <3>3
    <3>5. QED
      BY <3>2, <3>4
  <2>3. QED
    BY <2>1, <2>2
<1> DEFINE A == {u} \X S
<1>9. \A v, x : <<v, x>> \in A => v = u /\ (x = a \/ x = b)
  BY <1>8
<1>10. <<u, b>> \in A => <<u, a>> \in A
  BY <1>8
<1>11. Shifts(c, A)
  BY <1>8 DEF Moves
<1> HIDE DEF A
<1>12. Additions(A)
  <2>1. \A x : x = a \/ x = b => /\ x \in Calls /\ x[1] \in {"psClose", "remove"} /\ x[2] \in Offers
                                 /\ x[1] = "remove" => x = b
    BY <1>5
  <2>2. \A x : x = a \/ x = b => /\ x[1] \notin StartOps /\ x[1] # "stop"
                                 /\ x[1] \notin Homed /\ x[1] # "rtcClose"
    BY <2>1 DEF StartOps, Homed
  <2>3. \A v \in Goroutines : \A x : <<v, x>> \in A /\ x[1] = "remove" =>
            \E w \in Goroutines : <<w, <<"psClose", x[2]>> >> \in A
    BY <1>1, <1>5, <1>9, <1>10, <2>1
  <2>4. QED
    BY <1>9, <2>1, <2>2, <2>3 DEF Additions
<1>13. /\ pc' \in [Offers -> PcStates] /\ fired' \in [Offers -> BOOLEAN]
       /\ \A p \in Offers : p # o => pc'[p] = pc[p] /\ fired'[p] = fired[p]
       /\ fired'[o] /\ pc'[o] = "closed"
  BY <1>1 DEF IInv, TypeOK, PcStates
<1>14. TypeOK' /\ Orders'
  BY <1>1, <1>8, <1>13 DEF IInv, TypeOK, TodoOK
<1>15. /\ \A p \in Offers : Start(p)' => Start(p)
       /\ \A p \in Offers : Before(p)' => Before(p)
       /\ \A p \in Offers : Past(p)' => Past(p) \/ closed'[p]
  <2>1. \A p \in Offers : Start(p)' => Start(p)
    BY <1>11, <1>12, NotAgain
  <2>2. ASSUME NEW p \in Offers, Before(p)'
        PROVE  Before(p)
    <3>1. \/ Before(p)
          \/ <<<<"wait", p>>, <<"waitOpen", p>> >> \in A
          \/ <<<<"wait", p>>, <<"dial", p>> >> \in A
      BY <2>2, <1>11, <1>12, NotAgain
    <3>2. QED
      BY <3>1, <1>1, <1>9
  <2>3. \A p \in Offers : Past(p)' => Past(p) \/ closed'[p]
    <3>1. \A p \in Offers : Past(p)' => Past(p) \/ pc'[p] # pc[p]
      BY <1>5, <1>11, <1>12, NotAgain
    <3>2. QED
      BY <1>1, <1>4, <1>13, <3>1
  <2>4. QED
    BY <2>1, <2>2, <2>3
<1>16. Places' /\ Replaced' /\ RemoveLast' /\ Orphans' /\ StopFirst'
  BY <1>1, <1>5, <1>11, <1>12, <1>15, SessionsKept
<1>17. FireFirst' /\ StartFirst' /\ DialOnce'
  <2>1. \A p \in Offers : \A x : <<<<"wait", p>>, x>> \notin A /\ <<<<"read", p>>, x>> \notin A
    BY <1>1, <1>9
  <2>2. \A p \in Offers : \A x : <<<<"rtc", p>>, x>> \in A => fired'[p]
    BY <1>1, <1>9, <1>13
  <2>3. \A p \in Offers : \A v \in Goroutines : /\ <<v, <<"tcpClose", p>> >> \notin A
                                                /\ <<v, <<"setTcp", p>> >> \notin A
    BY <1>5, <1>9
  <2>4. \A p \in Offers : /\ conn'[p] = conn[p] /\ tcp'[p] = tcp[p] /\ once'[p] = once[p]
                          /\ fired[p] => fired'[p]
    BY <1>1, <1>13
  <2>5. QED
    BY <1>11, <1>15, <2>1, <2>2, <2>3, <2>4, GoroutinesKept
<1>18. PcKnown'
  <2>1. \A p \in Offers : rtc'[p] = rtc[p] /\ (PcLive(p)' => p # o /\ PcLive(p))
    BY <1>1, <1>13 DEF PcLive
  <2>2. QED
    BY <1>5, <1>11, <2>1, PcKept
<1>19. ConnKnown'
  <2>1. \A p \in Offers : (ConnLive(p)' => ConnLive(p)) /\ tcp'[p] = tcp[p]
    BY <1>1 DEF ConnLive
  <2>2. QED
    BY <1>5, <1>11, <2>1, ConnKept
<1>20. OnceCloses'
  <2>1. \A p \in Offers : once'[p] = once[p] /\ (once[p] # None => conn'[p] = "closed")
    BY <1>1 DEF IInv, OnceCloses
  <2>2. \A p \in Offers : \A v \in Goroutines : <<v, <<"onceDone", p>> >> \notin A
    BY <1>5, <1>9
  <2>3. QED
    BY <1>11, <2>1, <2>2, OnceKept
<1>21. QED
  BY <1>14, <1>16, <1>17, <1>18, <1>19, <1>20 DEF IInv

\* HostManager.Close closes the next session it collected.
LEMMA StopNextKeeps ==
    ASSUME IInv, NEW o \in Offers, StopNext(o)
    PROVE  IInv'
<1> DEFINE a == <<"psClose", o>>
<1>1. /\ todo[Stopper] = << >> /\ todo' = [todo EXCEPT ![Stopper] = <<a>>]
      /\ closing' = closing \ {o}
      /\ UNCHANGED <<sessions, mgr, closed, rtc, tcp, pc, opened, fired, conn, once, crashed>>
  BY DEF StopNext
<1>2. Stopper \in Goroutines /\ TodoOK
  BY GoroutineFacts DEF IInv, TypeOK, TodoOK
<1>3. a \in Calls
  BY AfterFacts DEF Ops
<1>4. TodoOK' /\ Gains({Stopper} \X {a})
  <2> HIDE DEF a
  <2>1. <<a>> \in Seq(Calls) /\ Rng(<<a>>) = {a} /\ Ordered(<<a>>)
    BY <1>3, SomeCalls
  <2>2. Left(Stopper) = {}
    BY <1>1, IdleLeft
  <2>3. QED
    BY <1>1, <1>2, <2>1, <2>2, StartGains
<1>5. TypeOK'
  BY <1>1, <1>4 DEF IInv, TypeOK, TodoOK
<1>6. Quiet(Stopper, {a})
  BY <1>1 DEF Quiet
<1>7. QED
  BY <1>2, <1>4, <1>5, <1>6, QuietKeeps

(***************************************************************************)
(* The steps that change the map.                                          *)
(***************************************************************************)

\* A goroutine makes a call under HostManager.mu and nobody is left replacing a
\* session.  A session that is not in the map then was not in it before, or
\* somebody has to close it.
MapSafe(c) ==
    /\ c[1] \in {"register", "commit", "remove", "stop"}
    /\ UNCHANGED <<closed, rtc, tcp, pc, opened, fired, conn, once, crashed>>
    /\ \A o \in Offers : <<"commit", o>> \notin Left(<<"offer", o>>)'
    /\ <<"stop", None>> \in Left(Stopper)' => closing' = {}
    /\ \A o \in Offers : Past(o)' /\ ~Registered(o)' =>
           \/ Past(o) /\ ~Registered(o) /\ closing \subseteq closing'
           \/ closed[o] \/ o \in closing' \/ Someone("psClose", o)

LEMMA MapKeeps ==
    ASSUME IInv, NEW c, Shifts(c, {}), TypeOK', TodoOK', MapSafe(c)
    PROVE  IInv'
<1>1. \A o \in Offers : /\ c # <<"psClose", o>> /\ c # <<"rtcClose", o>>
                        /\ c # <<"tcpClose", o>> /\ c # <<"setTcp", o>>
  BY DEF MapSafe
<1>2. Additions({})
  BY DEF Additions
<1>3. Places'
  BY DEF IInv, Places, Shifts
<1>4. ASSUME NEW o \in Offers, Someone("psClose", o)
      PROVE  Someone("psClose", o)'
  BY <1>1, <1>4, Remains DEF LateOps
<1>5. Replaced'
  BY DEF MapSafe, Replaced
<1>6. RemoveLast'
  <2>1. ASSUME NEW op, NEW o \in Offers, Someone(op, o)'
        PROVE  Someone(op, o)
    BY <2>1 DEF Someone, Shifts
  <2>2. QED
    BY <1>4, <2>1 DEF MapSafe, IInv, RemoveLast
<1>7. Orphans'
  BY <1>4 DEF MapSafe, IInv, Orphans
<1>8. StopFirst'
  BY DEF MapSafe, StopFirst
<1>9. /\ \A o \in Offers : Start(o)' => Start(o)
      /\ \A o \in Offers : Before(o)' => Before(o)
  <2> DEFINE A == {}
  <2>1. Shifts(c, A) /\ Additions(A) /\ \A x : x \notin A
    BY <1>2
  <2> HIDE DEF A
  <2>2. QED
    BY <2>1, NotAgain
<1>10. FireFirst' /\ StartFirst' /\ DialOnce'
  BY <1>9, GoroutinesKept DEF MapSafe
<1>11. PcKnown'
  <2>1. \A p \in Offers : (PcLive(p)' => PcLive(p)) /\ rtc'[p] = rtc[p]
    BY DEF MapSafe, PcLive
  <2>2. QED
    BY <1>1, <2>1, PcKept
<1>12. ConnKnown'
  <2>1. \A p \in Offers : (ConnLive(p)' => ConnLive(p)) /\ tcp'[p] = tcp[p]
    BY DEF MapSafe, ConnLive
  <2>2. QED
    BY <1>1, <2>1, ConnKept
<1>13. OnceCloses'
  <2>1. \A p \in Offers : once'[p] = once[p] /\ (once[p] # None => conn'[p] = "closed")
    BY DEF MapSafe, IInv, OnceCloses
  <2>2. QED
    BY <2>1, OnceKept
<1>14. QED
  BY <1>3, <1>5, <1>6, <1>7, <1>8, <1>10, <1>11, <1>12, <1>13 DEF IInv, TodoOK

\* A goroutine returns from a call.
LEMMA Returns ==
    ASSUME IInv, NEW t \in Goroutines, NEW op, NEW o, At(t, op, o), todo' = Does(t, << >>)
    PROVE  /\ TodoOK' /\ Shifts(<<op, o>>, {}) /\ <<op, o>> \in Left(t)
           /\ Left(t)' \subseteq After(<<op, o>>)
           /\ \A u \in Goroutines : Left(u)' \subseteq Left(u)
<1>1. << >> \in Seq(Calls) /\ Ordered(<< >>) /\ Rng(<< >>) = {}
  BY SomeCalls
<1>2. TodoOK' /\ Moves(t, <<op, o>>, {t} \X {})
  BY <1>1, CallMoves
<1>3. {t} \X {} = {}
  OBVIOUS
<1>4. TodoOK' /\ Moves(t, <<op, o>>, {})
  BY <1>2, <1>3
<1>5. QED
  BY <1>4 DEF Moves, Shifts

\* Nobody replaces a session while nobody holds the lock.
LEMMA LockFree ==
    ASSUME IInv, mgr = None, NEW o \in Offers
    PROVE  <<"commit", o>> \notin Left(<<"offer", o>>)
<1>1. <<"offer", o>> \in Goroutines
  BY GoroutineFacts DEF Kinds
<1>2. QED
  BY <1>1, NoneAssumption DEF IInv, Replaced

\* removeSession.
LEMMA RemoveSessionKeeps ==
    ASSUME IInv, NEW t \in Goroutines, NEW o \in Offers, RemoveSession(t, o)
    PROVE  IInv'
<1> DEFINE c == <<"remove", o>>
<1>1. /\ At(t, "remove", o) /\ mgr = None /\ todo' = Does(t, << >>)
      /\ sessions' = IF sessions[SidOf[o]] = o
                     THEN [sessions EXCEPT ![SidOf[o]] = None] ELSE sessions
      /\ UNCHANGED <<mgr, closing, closed, rtc, tcp, pc, opened, fired, conn, once, crashed>>
  BY DEF RemoveSession
<1>2. /\ TodoOK' /\ Shifts(c, {}) /\ c \in Left(t)
      /\ \A u \in Goroutines : Left(u)' \subseteq Left(u)
  BY <1>1, Returns
<1>3. TypeOK'
  BY <1>1, <1>2, ConstantsAssumption DEF IInv, TypeOK, TodoOK
<1>4. closed[o] \/ Someone("psClose", o)
  BY <1>2 DEF IInv, RemoveLast, Someone
<1>5. MapSafe(c)
  <2>1. c[1] = "remove" /\ \A p \in Offers : c # <<"register", p>> /\ c # <<"commit", p>>
    OBVIOUS
  <2>2. \A p \in Offers : <<"commit", p>> \notin Left(<<"offer", p>>)'
    BY <1>1, <1>2, LockFree, GoroutineFacts DEF Kinds
  <2>3. <<"stop", None>> \in Left(Stopper)' => closing' = {}
    BY <1>1, <1>2, GoroutineFacts DEF IInv, StopFirst
  <2>4. ASSUME NEW p \in Offers, Past(p)', ~Registered(p)', p # o
        PROVE  Past(p) /\ ~Registered(p)
    <3>1. Additions({})
      BY DEF Additions
    <3>2. Past(p)
      BY <1>1, <1>2, <2>1, <2>4, <3>1, NotAgain
    <3>3. SidOf[p] \in Sids /\ SidOf[o] \in Sids
      BY ConstantsAssumption
    <3>4. ~Registered(p)
      BY <1>1, <2>4, <3>3 DEF Registered, IInv, TypeOK
    <3>5. QED
      BY <3>2, <3>4
  <2>5. QED
    BY <1>1, <1>4, <2>1, <2>2, <2>3, <2>4 DEF MapSafe
<1>6. QED
  BY <1>2, <1>3, <1>5, MapKeeps

\* HostManager.Close takes the sessions out of the map.
LEMMA StopKeeps ==
    ASSUME IInv, Stop
    PROVE  IInv'
<1> DEFINE c == <<"stop", None>>
<1>1. /\ At(Stopper, "stop", None) /\ mgr = None /\ todo' = Does(Stopper, << >>)
      /\ Stopper \in Goroutines
      /\ closing' = {p \in Offers : Registered(p)} /\ sessions' = [s \in Sids |-> None]
      /\ UNCHANGED <<mgr, closed, rtc, tcp, pc, opened, fired, conn, once, crashed>>
  BY GoroutineFacts DEF Stop, Registered
<1>2. /\ TodoOK' /\ Shifts(c, {}) /\ c \in Left(Stopper) /\ Left(Stopper)' \subseteq After(c)
      /\ \A u \in Goroutines : Left(u)' \subseteq Left(u)
  BY <1>1, Returns
<1>3. TypeOK'
  BY <1>1, <1>2 DEF IInv, TypeOK, TodoOK
<1>4. closing = {} /\ After(c) = {}
  BY <1>2, AfterFacts DEF IInv, StopFirst
<1>5. MapSafe(c)
  <2>1. c[1] = "stop" /\ \A p \in Offers : c # <<"register", p>> /\ c # <<"commit", p>>
    OBVIOUS
  <2>2. \A p \in Offers : <<"commit", p>> \notin Left(<<"offer", p>>)'
    BY <1>1, <1>2, LockFree, GoroutineFacts DEF Kinds
  <2>3. <<"stop", None>> \notin Left(Stopper)'
    BY <1>2, <1>4
  <2>4. \A p \in Offers : Past(p)' => Past(p)
    <3>1. Additions({})
      BY DEF Additions
    <3>2. QED
      BY <1>1, <1>2, <2>1, <3>1, NotAgain
  <2>5. QED
    BY <1>1, <1>4, <2>1, <2>2, <2>3, <2>4 DEF MapSafe
<1>6. QED
  BY <1>2, <1>3, <1>5, MapKeeps

\* startSession stores its session, in place of one that is closed or about to be.
LEMMA StoresKeeps ==
    ASSUME IInv, NEW o \in Offers, NEW op \in {"register", "commit"}, At(<<"offer", o>>, op, o),
           todo' = Does(<<"offer", o>>, << >>),
           \A p \in Offers : <<"commit", p>> \in Left(<<"offer", p>>) => p = o /\ op = "commit",
           sessions' = [sessions EXCEPT ![SidOf[o]] = o], mgr' = None,
           \A p \in Offers : sessions[SidOf[o]] = p => closed[p] \/ Someone("psClose", p),
           UNCHANGED <<closing, closed, rtc, tcp, pc, opened, fired, conn, once, crashed>>
    PROVE  IInv'
<1> DEFINE t == <<"offer", o>>
           c == <<op, o>>
<1>1. t \in Goroutines
  BY GoroutineFacts DEF Kinds
<1>2. /\ TodoOK' /\ Shifts(c, {}) /\ Left(t)' \subseteq After(c)
      /\ \A u \in Goroutines : Left(u)' \subseteq Left(u)
  BY <1>1, Returns
<1>3. TypeOK'
  BY <1>2, ConstantsAssumption DEF IInv, TypeOK, TodoOK
<1>4. MapSafe(c)
  <2>1. /\ c[1] \in {"register", "commit"}
        /\ \A p \in Offers : p # o => c # <<"register", p>> /\ c # <<"commit", p>>
    OBVIOUS
  <2>2. <<"commit", o>> \notin After(c)
    BY AfterFacts
  <2>3. \A p \in Offers : <<"commit", p>> \notin Left(<<"offer", p>>)'
    BY <1>2, <2>2, GoroutineFacts DEF Kinds
  <2>4. <<"stop", None>> \in Left(Stopper)' => closing' = {}
    BY <1>2, GoroutineFacts DEF IInv, StopFirst
  <2>5. Registered(o)'
    BY ConstantsAssumption DEF Registered, IInv, TypeOK
  <2>6. ASSUME NEW p \in Offers, Past(p)', ~Registered(p)'
        PROVE  \/ Past(p) /\ ~Registered(p)
               \/ closed[p] \/ Someone("psClose", p)
    <3>1. Additions({})
      BY DEF Additions
    <3>2. p # o
      BY <2>5, <2>6
    <3>3. Past(p)
      BY <1>2, <2>1, <2>6, <3>1, <3>2, NotAgain
    <3>4. Registered(p) => SidOf[p] = SidOf[o]
      BY <2>6, ConstantsAssumption DEF Registered, IInv, TypeOK
    <3>5. QED
      BY <3>3, <3>4 DEF Registered
  <2>7. QED
    BY <2>1, <2>3, <2>4, <2>6 DEF MapSafe
<1>5. QED
  BY <1>2, <1>3, <1>4, MapKeeps

LEMMA CommitKeeps ==
    ASSUME IInv, NEW o \in Offers, Commit(o)
    PROVE  IInv'
<1> DEFINE t == <<"offer", o>>
<1>1. /\ At(t, "commit", o) /\ todo' = Does(t, << >>)
      /\ sessions' = [sessions EXCEPT ![SidOf[o]] = o] /\ mgr' = None
      /\ UNCHANGED <<closing, closed, rtc, tcp, pc, opened, fired, conn, once, crashed>>
  BY DEF Commit
<1>2. t \in Goroutines
  BY GoroutineFacts DEF Kinds
<1>3. <<"commit", o>> \in Left(t)
  BY <1>1, <1>2, Returns
<1>4. /\ mgr = t
      /\ \A p \in Offers : sessions[SidOf[o]] = p => closed[p] \/ Someone("psClose", p)
  BY <1>3 DEF IInv, Replaced
<1>5. \A p \in Offers : <<"commit", p>> \in Left(<<"offer", p>>) => p = o
  BY <1>4, GoroutineFacts DEF IInv, Replaced, Kinds
<1>6. QED
  BY <1>1, <1>4, <1>5, StoresKeeps

\* startSession goes on with its own later steps, or with close() for the session
\* it replaces.
LEMMA StartsKeep ==
    ASSUME IInv, NEW o \in Offers, NEW op \in {"turn", "register"}, NEW S,
           Moves(<<"offer", o>>, <<op, o>>, {<<"offer", o>>} \X S), TodoOK', TypeOK',
           UNCHANGED <<sessions, closing, closed, rtc, tcp, pc, opened, fired, conn, once, crashed>>,
           \/ S = {} /\ UNCHANGED mgr /\ op = "turn"
           \/ /\ S = {<<"register", o>>, <<"new", o>>, <<"handleOffer", o>>, <<"answer", o>>}
              /\ UNCHANGED mgr /\ op = "turn"
           \/ /\ mgr = None /\ mgr' = <<"offer", o>>
              /\ \E prev \in Offers : /\ S = {<<"psClose", prev>>, <<"commit", o>>}
                                      /\ sessions[SidOf[o]] = prev
    PROVE  IInv'
<1> DEFINE t == <<"offer", o>>
           c == <<op, o>>
           A == {t} \X S
<1>1. Shifts(c, A) /\ c \in Left(t)
  BY DEF Moves
<1>2. /\ t \in Goroutines
      /\ \A p \in Offers : /\ <<"offer", p>> \in Goroutines /\ <<"wait", p>> \in Goroutines
                           /\ t # <<"wait", p>> /\ t # <<"read", p>> /\ t # <<"rtc", p>>
                           /\ t = <<"offer", p>> => p = o
      /\ t # Stopper /\ Stopper \in Goroutines
  BY GoroutineFacts DEF Kinds
<1>3. \A u, x : <<u, x>> \in A <=> u = t /\ x \in S
  OBVIOUS
<1>4. /\ c[1] \in {"turn", "register"} /\ c[2] = o
      /\ \A p \in Offers : /\ c # <<"psClose", p>> /\ c # <<"rtcClose", p>>
                           /\ c # <<"tcpClose", p>> /\ c # <<"setTcp", p>> /\ c # <<"commit", p>>
                           /\ c = <<"register", p>> => p = o
  OBVIOUS
<1>5. Start(o) /\ Before(o)
  <2>1. op \in StartOps
    BY DEF StartOps
  <2>2. QED
    BY <1>1, <2>1 DEF Start, Before
<1>6. /\ \A x \in S : \/ x[1] \in StartOps \ {"turn"} /\ x[2] = o
                      \/ x[1] = "psClose" /\ x[2] \in Offers
      /\ \A p \in Offers : /\ <<"waitOpen", p>> \notin S /\ <<"dial", p>> \notin S
                           /\ <<"tcpClose", p>> \notin S /\ <<"setTcp", p>> \notin S
                           /\ <<"onceDone", p>> \notin S /\ <<"remove", p>> \notin S
                           /\ <<"rtcClose", p>> \notin S
      /\ <<"stop", None>> \notin S
  BY DEF StartOps
<1>7. /\ <<"new", o>> \in S => <<"register", o>> \in S
      /\ \A p \in Offers : <<"commit", p>> \in S =>
            /\ p = o /\ mgr = None /\ mgr' = t
            /\ \A q \in Offers : sessions[SidOf[o]] = q => <<"psClose", q>> \in S
      /\ op = "register" => <<"commit", o>> \in S
      /\ <<"commit", o>> \notin S => UNCHANGED mgr
      /\ \A p \in Offers : <<"commit", p>> \in Left(<<"offer", p>>) => <<"commit", o>> \notin S
  <2>1. \A p \in Offers : mgr = None => <<"commit", p>> \notin Left(<<"offer", p>>)
    BY LockFree
  <2>2. <<"commit", o>> \in S => mgr = None
    OBVIOUS
  <2>3. QED
    BY <2>1, <2>2
<1> HIDE DEF A, c, t
<1>8. S \subseteq Calls
  BY DEF Calls, Ops
<1>9. /\ \A x \in S : x \in Left(t)'
      /\ \A u \in Goroutines : \A x \in Left(u)' : x \in Left(u) \/ (u = t /\ x \in S)
      /\ \A u \in Goroutines : u # t => \A x \in Left(u)' : x \in Left(u)
  BY <1>1, <1>2, <1>3, <1>8 DEF Shifts
<1>10. Places'
  <2>1. \A x \in S : /\ x[1] \in Homed => t = <<Home(x[1]), x[2]>>
                     /\ x[1] # "stop" /\ x[2] \in Offers
    BY <1>6 DEF StartOps, Homed, Home, t
  <2>2. QED
    BY <1>9, <2>1 DEF IInv, Places
<1>11. ASSUME NEW p \in Offers, Someone("psClose", p)
       PROVE  Someone("psClose", p)'
  BY <1>1, <1>4, <1>11, Remains DEF LateOps
<1>12. Replaced'
  <2> SUFFICES ASSUME NEW p \in Offers, <<"commit", p>> \in Left(<<"offer", p>>)'
               PROVE  /\ mgr' = <<"offer", p>>
                      /\ \A q \in Offers : sessions'[SidOf[p]] = q
                            => closed'[q] \/ Someone("psClose", q)'
    BY DEF Replaced
  <2>1. CASE <<"commit", p>> \in Left(<<"offer", p>>)
    <3>1. mgr' = mgr
      BY <2>1, <1>7
    <3>2. QED
      BY <2>1, <3>1, <1>11 DEF IInv, Replaced
  <2>2. CASE <<"commit", p>> \in S
    <3>1. p = o /\ mgr' = t /\ \A q \in Offers : sessions[SidOf[o]] = q => <<"psClose", q>> \in S
      BY <2>2, <1>7
    <3>2. \A q \in Offers : <<"psClose", q>> \in S => Someone("psClose", q)'
      BY <1>2, <1>9 DEF Someone
    <3>3. QED
      BY <3>1, <3>2 DEF t
  <2>3. QED
    BY <2>1, <2>2, <1>2, <1>9
<1>13. RemoveLast'
  <2>1. ASSUME NEW p \in Offers, NEW q \in {"remove", "rtcClose"}, Someone(q, p)'
        PROVE  Someone(q, p)
    BY <2>1, <1>6, <1>9 DEF Someone
  <2>2. QED
    BY <2>1, <1>11 DEF IInv, RemoveLast
<1>14. Orphans'
  <2>1. ASSUME NEW p \in Offers, Past(p)'
        PROVE  Past(p)
    <3>1. CASE pc[p] # "none"
      BY <3>1 DEF Past
    <3>2. CASE /\ <<"new", p>> \in Left(<<"offer", p>>)'
               /\ <<"register", p>> \notin Left(<<"offer", p>>)'
               /\ <<"commit", p>> \notin Left(<<"offer", p>>)'
      <4>1. p = o => <<"new", p>> \notin S
        BY <3>2, <1>7, <1>9 DEF t
      <4>2. <<"new", p>> \in Left(<<"offer", p>>)
        BY <3>2, <4>1, <1>2, <1>9
      <4>3. ASSUME NEW x \in {<<"register", p>>, <<"commit", p>>},
                   x \in Left(<<"offer", p>>), x \notin Left(<<"offer", p>>)'
            PROVE  FALSE
        <5>1. x[1] \in {"register", "commit"} /\ x[2] = p
          OBVIOUS
        <5>2. x = c
          BY <4>3, <5>1, <1>1, <1>2 DEF Shifts, LateOps
        <5>3. p = o /\ op = "register"
          BY <5>1, <5>2, <1>4 DEF c
        <5>4. <<"commit", p>> \in Left(<<"offer", p>>)'
          BY <5>3, <1>7, <1>9 DEF t
        <5>5. QED
          BY <5>4, <3>2
      <4>4. QED
        BY <3>2, <4>2, <4>3 DEF Past
    <3>3. QED
      BY <2>1, <3>1, <3>2 DEF Past
  <2>2. QED
    BY <2>1, <1>11 DEF IInv, Orphans, Registered
<1>15. StopFirst'
  BY <1>2, <1>9 DEF IInv, StopFirst
<1>16. /\ \A p \in Offers : Start(p)' => Start(p)
       /\ \A p \in Offers : Before(p)' => Before(p)
  <2>1. \A p \in Offers : Start(p)' => Start(p)
    BY <1>2, <1>5, <1>9 DEF Start
  <2>2. QED
    BY <2>1, <1>2, <1>9 DEF Before
<1>17. FireFirst' /\ StartFirst' /\ DialOnce'
  <2>1. \A p \in Offers : \A x : /\ <<<<"wait", p>>, x>> \notin A /\ <<<<"read", p>>, x>> \notin A
                                 /\ <<<<"rtc", p>>, x>> \notin A
    BY <1>2, <1>3
  <2>2. \A p \in Offers : \A v \in Goroutines : /\ <<v, <<"tcpClose", p>> >> \notin A
                                                /\ <<v, <<"setTcp", p>> >> \notin A
    BY <1>3, <1>6
  <2>3. QED
    BY <1>1, <1>16, <2>1, <2>2, GoroutinesKept
<1>18. PcKnown'
  <2>1. \A p \in Offers : (PcLive(p)' => PcLive(p)) /\ rtc'[p] = rtc[p]
    BY DEF PcLive
  <2>2. QED
    BY <1>1, <1>4, <2>1, PcKept
<1>19. ConnKnown'
  <2>1. \A p \in Offers : (ConnLive(p)' => ConnLive(p)) /\ tcp'[p] = tcp[p]
    BY DEF ConnLive
  <2>2. QED
    BY <1>1, <1>4, <2>1, ConnKept
<1>20. OnceCloses'
  <2>1. \A p \in Offers : once'[p] = once[p] /\ (once[p] # None => conn'[p] = "closed")
    BY DEF IInv, OnceCloses
  <2>2. \A p \in Offers : \A v \in Goroutines : <<v, <<"onceDone", p>> >> \notin A
    BY <1>3, <1>6
  <2>3. QED
    BY <1>1, <2>1, <2>2, OnceKept
<1>21. QED
  BY <1>10, <1>12, <1>13, <1>14, <1>15, <1>17, <1>18, <1>19, <1>20 DEF IInv, TodoOK

\* RequestTurnAuth answers or fails.
LEMMA TurnAuthKeeps ==
    ASSUME IInv, NEW o \in Offers, TurnAuth(o)
    PROVE  IInv'
<1> DEFINE t == <<"offer", o>>
           x1 == <<"register", o>>
           x2 == <<"new", o>>
           x3 == <<"handleOffer", o>>
           x4 == <<"answer", o>>
<1>1. /\ At(t, "turn", o)
      /\ UNCHANGED <<sessions, mgr, closing, closed, rtc, tcp, pc, opened, fired, conn, once, crashed>>
      /\ todo' = Does(t, <<x1, x2, x3, x4>>) \/ todo' = Does(t, << >>)
  BY DEF TurnAuth
<1>2. t \in Goroutines
  BY GoroutineFacts DEF Kinds
<1>3. /\ {x1, x2, x3, x4} \subseteq Calls /\ After(<<"turn", o>>) = {}
      /\ {x2, x3, x4} \subseteq After(x1) /\ {x3, x4} \subseteq After(x2) /\ x4 \in After(x3)
  BY AfterFacts DEF Ops
<1>4. PICK s \in Seq(Calls) : /\ todo' = Does(t, s) /\ Ordered(s)
                              /\ Rng(s) = {} \/ Rng(s) = {x1, x2, x3, x4}
  <2>1. << >> \in Seq(Calls) /\ Ordered(<< >>) /\ Rng(<< >>) = {}
    BY SomeCalls
  <2> HIDE DEF x1, x2, x3, x4, t
  <2> DEFINE q == <<x1, x2, x3, x4>>
  <2>2. q \in Seq(Calls) /\ Ordered(q) /\ Rng(q) = {x1, x2, x3, x4}
    BY <1>3, SomeCalls
  <2>3. todo' = Does(t, q) \/ todo' = Does(t, << >>)
    BY <1>1
  <2> HIDE DEF q
  <2>4. CASE todo' = Does(t, q)
    BY <2>2, <2>4
  <2>5. CASE todo' = Does(t, << >>)
    BY <2>1, <2>5
  <2>6. QED
    BY <2>3, <2>4, <2>5
<1>5. TodoOK' /\ Moves(t, <<"turn", o>>, {t} \X Rng(s))
  <2>1. \A x \in Rng(s) : After(<<"turn", o>>) \subseteq After(x)
    BY <1>3
  <2>2. QED
    BY <1>1, <1>2, <1>4, <2>1, CallMoves
<1>6. TypeOK'
  BY <1>1, <1>5 DEF IInv, TypeOK, TodoOK
<1>7. QED
  BY <1>1, <1>4, <1>5, <1>6, StartsKeep

\* startSession stores its session, or first closes the one under the same id.
LEMMA RegisterKeeps ==
    ASSUME IInv, NEW o \in Offers, Register(o)
    PROVE  IInv'
<1> DEFINE t == <<"offer", o>>
           prev == sessions[SidOf[o]]
           b == <<"commit", o>>
<1>1. /\ At(t, "register", o) /\ mgr = None /\ t \in Goroutines
      /\ prev \in Offers \cup {None}
      /\ UNCHANGED <<closing, closed, rtc, tcp, pc, opened, fired, conn, once, crashed>>
  BY GoroutineFacts, ConstantsAssumption DEF Register, Kinds, IInv, TypeOK
<1>2. CASE prev = None
  <2>1. /\ sessions' = [sessions EXCEPT ![SidOf[o]] = o] /\ mgr' = None
        /\ todo' = Does(t, << >>)
    BY <1>1, <1>2 DEF Register
  <2>2. \A p \in Offers : <<"commit", p>> \notin Left(<<"offer", p>>) /\ sessions[SidOf[o]] # p
    BY <1>1, <1>2, LockFree, NoneAssumption
  <2>3. QED
    BY <1>1, <2>1, <2>2, StoresKeeps
<1>3. CASE prev \in Offers
  <2> DEFINE a == <<"psClose", prev>>
  <2>1. /\ UNCHANGED sessions /\ mgr' = t /\ todo' = Does(t, <<a, b>>)
    BY <1>3, NoneAssumption DEF Register
  <2>2. /\ {a, b} \subseteq Calls /\ b \in After(a)
        /\ After(<<"register", o>>) \subseteq After(a)
        /\ After(<<"register", o>>) \subseteq After(b)
    BY <1>3, AfterFacts DEF CloseOps, Ops
  <2>3. <<a, b>> \in Seq(Calls) /\ Ordered(<<a, b>>) /\ Rng(<<a, b>>) = {a, b}
    <3> HIDE DEF a, b
    <3>1. QED
      BY <2>2, SomeCalls
  <2>4. TodoOK' /\ Moves(t, <<"register", o>>, {t} \X {a, b})
    <3> HIDE DEF a, b, t
    <3>1. \A x \in Rng(<<a, b>>) : After(<<"register", o>>) \subseteq After(x)
      BY <2>2, <2>3
    <3>2. TodoOK' /\ Moves(t, <<"register", o>>, {t} \X Rng(<<a, b>>))
      BY <1>1, <2>1, <2>3, <3>1, CallMoves
    <3>3. QED
      BY <2>3, <3>2
  <2>5. TypeOK'
    BY <1>1, <2>1, <2>4 DEF IInv, TypeOK, TodoOK
  <2>6. QED
    <3> DEFINE S == {a, b}
    <3>1. /\ Moves(t, <<"register", o>>, {t} \X S)
          /\ S = {<<"psClose", prev>>, <<"commit", o>>} /\ sessions[SidOf[o]] = prev
      BY <2>4
    <3> HIDE DEF S, prev
    <3>2. QED
      BY <1>1, <1>3, <2>1, <2>4, <2>5, <3>1, StartsKeep
<1>4. QED
  BY <1>1, <1>2, <1>3

(***************************************************************************)
(* The theorems.                                                           *)
(***************************************************************************)
LEMMA InitInv == Init => IInv
<1> SUFFICES ASSUME Init PROVE IInv
  OBVIOUS
<1> DEFINE go == [t \in Goroutines |->
                    IF t = Stopper
                    THEN IF CanStop THEN << <<"stop", None>> >> ELSE << >>
                    ELSE IF t[1] = "offer" THEN << <<"turn", t[2]>> >> ELSE << >>]
<1>1. todo = go
  BY DEF Init
<1>2. \A t \in Goroutines : t # Stopper => \E k \in Kinds, o \in Offers : t = <<k, o>>
  BY DEF Goroutines
<1>3. /\ todo[Stopper] \in {<< >>, << <<"stop", None>> >>}
      /\ \A o \in Offers : todo[<<"offer", o>>] = << <<"turn", o>> >>
      /\ \A k \in Kinds \ {"offer"}, o \in Offers : todo[<<k, o>>] = << >>
  <2>1. todo[Stopper] \in {<< >>, << <<"stop", None>> >>}
    BY <1>1, GoroutineFacts
  <2>2. ASSUME NEW o \in Offers
        PROVE  todo[<<"offer", o>>] = << <<"turn", o>> >>
    <3> DEFINE t == <<"offer", o>>
    <3>1. t \in Goroutines /\ t # Stopper /\ t[1] = "offer" /\ t[2] = o
      BY GoroutineFacts DEF Kinds
    <3> HIDE DEF t
    <3>2. QED
      BY <1>1, <3>1 DEF t
  <2>3. ASSUME NEW k \in Kinds \ {"offer"}, NEW o \in Offers
        PROVE  todo[<<k, o>>] = << >>
    <3> DEFINE t == <<k, o>>
    <3>1. t \in Goroutines /\ t # Stopper /\ t[1] # "offer"
      BY GoroutineFacts
    <3> HIDE DEF t
    <3>2. QED
      BY <1>1, <3>1 DEF t
  <2>4. QED
    BY <2>1, <2>2, <2>3
<1>4. /\ <<"stop", None>> \in Calls /\ \A o \in Offers : <<"turn", o>> \in Calls
  BY AfterFacts DEF Ops
<1>5. /\ todo[Stopper] \in Seq(Calls) /\ Ordered(todo[Stopper])
      /\ Left(Stopper) \subseteq {<<"stop", None>>}
  <2> DEFINE x == <<"stop", None>>
  <2>1. x \in Calls /\ (todo[Stopper] = << >> \/ todo[Stopper] = <<x>>)
    BY <1>3, <1>4
  <2> HIDE DEF x
  <2>2. /\ todo[Stopper] \in Seq(Calls) /\ Ordered(todo[Stopper])
        /\ Left(Stopper) \subseteq {x}
    BY <2>1, SomeCalls DEF Left
  <2>3. QED
    BY <2>2 DEF x
<1>6. ASSUME NEW o \in Offers
      PROVE  /\ todo[<<"offer", o>>] \in Seq(Calls) /\ Ordered(todo[<<"offer", o>>])
             /\ Left(<<"offer", o>>) = {<<"turn", o>>}
  <2> DEFINE x == <<"turn", o>>
             q == todo[<<"offer", o>>]
  <2>1. x \in Calls /\ q = <<x>>
    BY <1>3, <1>4
  <2>2. Left(<<"offer", o>>) = Rng(q)
    BY DEF Left
  <2> HIDE DEF x, q
  <2>3. q \in Seq(Calls) /\ Ordered(q) /\ Rng(q) = {x}
    BY <2>1, SomeCalls
  <2>4. QED
    BY <2>2, <2>3 DEF x, q
<1>7. ASSUME NEW k \in Kinds \ {"offer"}, NEW o \in Offers
      PROVE  /\ todo[<<k, o>>] \in Seq(Calls) /\ Ordered(todo[<<k, o>>])
             /\ Left(<<k, o>>) = {}
  BY <1>3, SomeCalls DEF Left
<1>8. ASSUME NEW t \in Goroutines
      PROVE  /\ todo[t] \in Seq(Calls) /\ Ordered(todo[t])
             /\ \A x \in Left(t) : \/ x = <<"stop", None>> /\ t = Stopper
                                   \/ \E o \in Offers : x = <<"turn", o>> /\ t = <<"offer", o>>
  <2>1. CASE t = Stopper
    BY <2>1, <1>5
  <2>2. CASE t # Stopper
    <3>1. PICK k \in Kinds, o \in Offers : t = <<k, o>>
      BY <2>2, <1>2
    <3>2. CASE k = "offer"
      BY <3>1, <3>2, <1>6
    <3>3. CASE k # "offer"
      BY <3>1, <3>3, <1>7
    <3>4. QED
      BY <3>2, <3>3
  <2>3. QED
    BY <2>1, <2>2
<1>9. TypeOK
  <2>1. todo \in [Goroutines -> Seq(Calls)]
    <3>1. todo = [t \in Goroutines |-> todo[t]]
      BY <1>1
    <3>2. QED
      BY <1>8, <3>1
  <2>2. QED
    BY <2>1 DEF Init, TypeOK, PcStates, ConnStates
<1>10. Orders
  BY <1>8 DEF Orders
<1>11. Places
  BY <1>8 DEF Places, Homed, Home, StartOps
<1>12. \A op : \A o \in Offers : op \notin {"turn", "stop"} => ~Someone(op, o)
  BY <1>8 DEF Someone
<1>13. \A o \in Offers : /\ <<"commit", o>> \notin Left(<<"offer", o>>)
                         /\ <<"new", o>> \notin Left(<<"offer", o>>)
                         /\ Left(<<"rtc", o>>) = {} /\ Left(<<"wait", o>>) = {}
                         /\ Left(<<"read", o>>) = {}
  <2>1. \A o \in Offers : /\ <<"commit", o>> \notin Left(<<"offer", o>>)
                          /\ <<"new", o>> \notin Left(<<"offer", o>>)
    <3>1. \A o \in Offers : <<"commit", o>> # <<"turn", o>> /\ <<"new", o>> # <<"turn", o>>
      OBVIOUS
    <3>2. \A o \in Offers : Left(<<"offer", o>>) = {<<"turn", o>>}
      BY <1>6
    <3>3. QED
      BY <3>1, <3>2
  <2>2. {"rtc", "wait", "read"} \subseteq Kinds \ {"offer"}
    BY DEF Kinds
  <2>3. QED
    BY <2>1, <2>2, <1>7
<1>14. Replaced /\ RemoveLast /\ Orphans /\ StopFirst
  BY <1>12, <1>13 DEF Init, Replaced, RemoveLast, Orphans, Past, StopFirst
<1>15. FireFirst /\ StartFirst /\ DialOnce /\ OnceCloses
  BY <1>12, <1>13 DEF Init, FireFirst, StartFirst, DialOnce, OnceCloses
<1>16. PcKnown /\ ConnKnown
  BY DEF Init, PcKnown, PcLive, ConnKnown, ConnLive
<1>17. QED
  BY <1>9, <1>10, <1>11, <1>14, <1>15, <1>16 DEF IInv

LEMMA NextInv == IInv /\ [Next]_vars => IInv'
<1> SUFFICES ASSUME IInv, [Next]_vars PROVE IInv'
  OBVIOUS
<1>1. ASSUME NEW o \in Offers, Starting(o)
      PROVE  IInv'
  BY <1>1, TurnAuthKeeps, RegisterKeeps, CommitKeeps, NewSessionKeeps, HandleOfferKeeps,
     SendAnswerKeeps DEF Starting
<1>2. ASSUME NEW o \in Offers, Attaching(o)
      PROVE  IInv'
  BY <1>2, WaitOpenKeeps, DialKeeps, SetTcpKeeps DEF Attaching
<1>3. ASSUME NEW o \in Offers, ReadEnds(o)
      PROVE  IInv'
  BY <1>3, ReadEndsKeeps
<1>4. ASSUME NEW o \in Offers, Environment(o)
      PROVE  IInv'
  BY <1>4, DataChannelOpensKeeps, PeerGoneKeeps, TargetHangsUpKeeps, FeedFailsKeeps DEF Environment
<1>5. ASSUME NEW t \in Goroutines, NEW o \in Offers, Calling(t, o)
      PROVE  IInv'
  BY <1>5, PsCloseKeeps, TcpCloseKeeps, OnceDoneKeeps, RtcCloseKeeps, RemoveSessionKeeps DEF Calling
<1>6. ASSUME Stopping
      PROVE  IInv'
  BY <1>6, StopKeeps, StopNextKeeps DEF Stopping
<1>7. CASE UNCHANGED vars
  BY <1>7 DEF vars, IInv, TypeOK, Orders, Places, Replaced, RemoveLast, Orphans, Past, Registered,
     StopFirst, FireFirst, Start, Before, StartFirst, DialOnce, OnceCloses, PcKnown, PcLive,
     ConnKnown, ConnLive, Someone, Left
<1>8. QED
  BY <1>1, <1>2, <1>3, <1>4, <1>5, <1>6, <1>7 DEF Next

\* Pending is membership in Left.
LEMMA PendingLeft ==
    ASSUME NEW op, NEW o
    PROVE  SomeonePends(op, o) <=> Someone(op, o)
BY DEF SomeonePends, Pending, Someone, Left, Rng

\* HostManager, its sessions and their goroutines keep the types of their fields.
THEOREM TypeCorrect == Spec => []TypeOK
<1>1. IInv => TypeOK
  BY DEF IInv
<1>2. QED
  BY <1>1, InitInv, NextInv, PTL DEF Spec

\* A repeated OFFER, a late clean-up and HostManager.Close never forget a live
\* session: one that is not in the map is closed or about to be, for any number of
\* OFFERs with any session ids.
THEOREM OrphansAreClosing == Spec => []OrphanIsClosing
<1>1. IInv => OrphanIsClosing
  BY PendingLeft DEF IInv, Orphans, Past, OrphanIsClosing
<1>2. QED
  BY <1>1, InitInv, NextInv, PTL DEF Spec

\* close(), entered from any number of goroutines, leaves no connection that
\* nobody knows of.
THEOREM CloseReleasesAll == Spec => []CloseReleases
<1>1. IInv => CloseReleases
  BY PendingLeft DEF IInv, PcKnown, ConnKnown, CloseReleases
<1>2. QED
  BY <1>1, InitInv, NextInv, PTL DEF Spec

(***************************************************************************)
(* Sessions apart: no session is closed by another's goroutine.            *)
(***************************************************************************)

\* What a step adds to the goroutines is among the calls N of session o's own.
Adds(o, N) == \A u \in Goroutines : \A x \in Left(u)' :
                  x \in Left(u) \/ (x \in N /\ \E k \in Kinds : u = <<k, o>>)

LEMMA AddsDoes ==
    ASSUME TodoOK, NEW k \in Kinds, NEW o \in Offers, NEW s \in Seq(Calls),
           todo[<<k, o>>] # << >>, todo' = Does(<<k, o>>, s)
    PROVE  Adds(o, Rng(s))
<1> DEFINE t == <<k, o>>
           r == Tail(todo[t])
<1>1. t \in Goroutines /\ todo[t] \in Seq(Calls)
  BY GoroutineFacts DEF TodoOK
<1>2. r \in Seq(Calls) /\ Rng(r) \subseteq Left(t)
  BY <1>1, RngHead DEF Left
<1>3. s \o r \in Seq(Calls) /\ Rng(s \o r) = Rng(s) \cup Rng(r)
  BY <1>2, RngConcat
<1>4. todo' = [todo EXCEPT ![t] = s \o r]
  BY DEF Does
<1>5. \E l \in Kinds : t = <<l, o>>
  OBVIOUS
<1> HIDE DEF t, r
<1>6. Left(t)' = Rng(s) \cup Rng(r) /\ \A u \in Goroutines \ {t} : Left(u)' = Left(u)
  BY <1>1, <1>3, <1>4 DEF Left, TodoOK
<1>7. QED
  BY <1>2, <1>5, <1>6 DEF Adds

LEMMA AddsDoesStarts ==
    ASSUME TodoOK, NEW k \in Kinds, NEW o \in Offers, NEW s \in Seq(Calls),
           todo[<<k, o>>] # << >>, NEW l \in Kinds, NEW s2 \in Seq(Calls),
           todo' = [Does(<<k, o>>, s) EXCEPT ![<<l, o>>] = s2]
    PROVE  Adds(o, Rng(s) \cup Rng(s2))
<1> DEFINE t == <<k, o>>
           v == <<l, o>>
           r == Tail(todo[t])
<1>1. t \in Goroutines /\ v \in Goroutines /\ todo[t] \in Seq(Calls)
  BY GoroutineFacts DEF TodoOK
<1>2. r \in Seq(Calls) /\ Rng(r) \subseteq Left(t)
  BY <1>1, RngHead DEF Left
<1>3. s \o r \in Seq(Calls) /\ Rng(s \o r) = Rng(s) \cup Rng(r)
  BY <1>2, RngConcat
<1>4. todo' = [[todo EXCEPT ![t] = s \o r] EXCEPT ![v] = s2]
  BY DEF Does
<1>5. (\E m \in Kinds : t = <<m, o>>) /\ \E m \in Kinds : v = <<m, o>>
  OBVIOUS
<1> HIDE DEF t, r, v
<1>6. /\ Left(v)' = Rng(s2) /\ (t # v => Left(t)' = Rng(s) \cup Rng(r))
      /\ \A u \in Goroutines \ {t, v} : Left(u)' = Left(u)
  BY <1>1, <1>3, <1>4 DEF Left, TodoOK
<1>7. QED
  BY <1>2, <1>5, <1>6 DEF Adds

LEMMA AddsStarts ==
    ASSUME TodoOK, NEW k \in Kinds, NEW o \in Offers, NEW s \in Seq(Calls),
           todo' = [todo EXCEPT ![<<k, o>>] = s]
    PROVE  Adds(o, Rng(s))
<1> DEFINE t == <<k, o>>
<1>1. t \in Goroutines /\ \E l \in Kinds : t = <<l, o>>
  BY GoroutineFacts
<1> HIDE DEF t
<1>2. Left(t)' = Rng(s) /\ \A u \in Goroutines \ {t} : Left(u)' = Left(u)
  BY <1>1 DEF Left, TodoOK, t
<1>3. QED
  BY <1>1, <1>2 DEF Adds

LEMMA AddsNothing ==
    ASSUME todo' = todo, NEW o
    PROVE  Adds(o, {})
BY DEF Adds, Left

\* Who is at a call of session o is one of its goroutines.
LEMMA OwnCaller ==
    ASSUME JInv, NEW t \in Goroutines, NEW op, NEW o \in Offers, At(t, op, o)
    PROVE  /\ TodoOK /\ todo[t] # << >> /\ <<op, o>> \in Left(t)
           /\ \E k \in Kinds : t = <<k, o>>
<1>1. TodoOK /\ todo[t] # << >> /\ Head(todo[t]) = <<op, o>>
  BY DEF JInv, IInv, TypeOK, TodoOK, At
<1>2. <<op, o>> \in Left(t)
  BY <1>1, RngHead DEF TodoOK, Left
<1>3. t # Stopper
  BY <1>2 DEF JInv, Own
<1>4. PICK k \in Kinds, p \in Offers : t = <<k, p>>
  BY <1>3 DEF Goroutines
<1> DEFINE x == <<op, o>>
<1>5. x[2] = o
  OBVIOUS
<1> HIDE DEF x
<1>6. p = o
  BY <1>2, <1>4, <1>5 DEF JInv, Own, x
<1>7. QED
  BY <1>1, <1>2, <1>4, <1>6

\* A step of session o that adds nothing to the map keeps the sessions apart.
LEMMA OwnStep ==
    ASSUME JInv, IInv', NEW o \in Offers, NEW N, Adds(o, N),
           UNCHANGED closing,
           \A i \in Sids, p \in Offers : sessions'[i] = p => sessions[i] = p,
           \A x \in N : x[2] = o /\ x[1] \notin StartOps
    PROVE  JInv'
<1>1. \A k \in Kinds, p \in Offers : \A x \in Left(<<k, p>>)' :
          x \in Left(<<k, p>>) \/ (x \in N /\ p = o)
  BY GoroutineFacts DEF Adds
<1>2. Own'
  <2>1. Left(Stopper)' = {}
    BY GoroutineFacts DEF Adds, JInv, Own
  <2>2. QED
    BY <1>1, <2>1 DEF JInv, Own
<1>3. ASSUME NEW op \in StartOps, NEW p \in Offers, <<op, p>> \in Left(<<"offer", p>>)'
      PROVE  <<op, p>> \in Left(<<"offer", p>>)
  <2> DEFINE x == <<op, p>>
  <2>1. x[1] \in StartOps /\ "offer" \in Kinds
    BY DEF Kinds
  <2> HIDE DEF x
  <2>2. QED
    BY <1>1, <1>3, <2>1 DEF x
<1>4. MapOwn'
  BY <1>3 DEF JInv, MapOwn, StartOps
<1>5. QED
  BY <1>2, <1>4 DEF JInv

\* The calls of session o outside startSession, and sequences of them.
OwnCalls(o) == {<<op, o>> : op \in Ops \ StartOps}

LEMMA OwnSeqs ==
    ASSUME NEW o \in Offers
    PROVE  /\ \A x \in OwnCalls(o) : x[2] = o /\ x[1] \notin StartOps
           /\ << >> \in Seq(Calls) /\ Rng(<< >>) = {}
           /\ \A a \in OwnCalls(o) : <<a>> \in Seq(Calls) /\ Rng(<<a>>) = {a}
           /\ \A op \in Ops \ StartOps : <<op, o>> \in OwnCalls(o)
<1>1. /\ \A x \in OwnCalls(o) : x[2] = o /\ x[1] \notin StartOps /\ x \in Calls
      /\ \A op \in Ops \ StartOps : <<op, o>> \in OwnCalls(o)
  BY DEF OwnCalls, Calls
<1>2. /\ << >> \in Seq(Calls) /\ Rng(<< >>) = {}
      /\ \A a \in OwnCalls(o) : <<a>> \in Seq(Calls) /\ Rng(<<a>>) = {a}
  BY <1>1, SomeCalls
<1>3. QED
  BY <1>1, <1>2

LEMMA CallingApart ==
    ASSUME JInv, IInv', NEW t \in Goroutines, NEW o \in Offers, Calling(t, o)
    PROVE  JInv'
<1> DEFINE a == <<"psClose", o>>
           b == <<"remove", o>>
           d == <<"onceDone", o>>
           e == <<"tcpClose", o>>
           f == <<"rtcClose", o>>
<1>1. {a, b, d, e, f} \subseteq OwnCalls(o)
  BY DEF OwnCalls, Ops, StartOps
<1>2. {a, b, d, e, f} \subseteq Calls /\ {b, d} \subseteq After(a) /\ d \in After(b)
  BY AfterFacts DEF CloseOps, Ops
<1>3. IInv
  BY DEF JInv
<1>4. /\ \A x \in OwnCalls(o) : x[2] = o /\ x[1] \notin StartOps
      /\ << >> \in Seq(Calls) /\ Rng(<< >>) = {}
      /\ <<a, b>> \in Seq(Calls) /\ Rng(<<a, b>>) = {a, b}
      /\ <<a, b, d>> \in Seq(Calls) /\ Rng(<<a, b, d>>) = {a, b, d}
  <2> HIDE DEF a, b, d, e, f
  <2>1. \A x \in OwnCalls(o) : x[2] = o /\ x[1] \notin StartOps
    BY OwnSeqs
  <2>2. << >> \in Seq(Calls) /\ Rng(<< >>) = {}
    BY OwnSeqs
  <2>3. /\ <<a, b>> \in Seq(Calls) /\ Rng(<<a, b>>) = {a, b}
        /\ <<a, b, d>> \in Seq(Calls) /\ Rng(<<a, b, d>>) = {a, b, d}
    BY <1>2, SomeCalls
  <2>4. QED
    BY <2>1, <2>2, <2>3
<1>5. CASE PsClose(t, o)
  <2>1. /\ At(t, "psClose", o) /\ UNCHANGED <<sessions, closing>>
    BY <1>5 DEF PsClose
  <2>2. PICK s \in Seq(Calls) : todo' = Does(t, s) /\ Rng(s) \subseteq OwnCalls(o)
    <3>1. CASE closed[o]
      BY <1>4, <1>5, <3>1 DEF PsClose
    <3>2. CASE ~closed[o]
      <4> DEFINE s == (IF tcp[o] THEN <<e>> ELSE << >>) \o (IF rtc[o] THEN <<f>> ELSE << >>)
      <4>1. todo' = Does(t, s)
        BY <1>5, <3>2 DEF PsClose
      <4> HIDE DEF e, f
      <4> DEFINE s1 == IF tcp[o] THEN <<e>> ELSE << >>
                 s2 == IF rtc[o] THEN <<f>> ELSE << >>
      <4>2. /\ s1 \in Seq(Calls) /\ Rng(s1) \subseteq OwnCalls(o)
            /\ s2 \in Seq(Calls) /\ Rng(s2) \subseteq OwnCalls(o)
        <5>1. /\ <<e>> \in Seq(Calls) /\ Rng(<<e>>) \subseteq OwnCalls(o)
              /\ <<f>> \in Seq(Calls) /\ Rng(<<f>>) \subseteq OwnCalls(o)
          BY ZenonT(40), <1>1, OwnSeqs
        <5>2. (s1 = <<e>> \/ s1 = << >>) /\ (s2 = <<f>> \/ s2 = << >>)
          OBVIOUS
        <5>3. QED
          BY <1>4, <5>1, <5>2
      <4>3. s \in Seq(Calls) /\ Rng(s) \subseteq OwnCalls(o)
        <5>1. s = s1 \o s2
          OBVIOUS
        <5> HIDE DEF s, s1, s2
        <5>2. QED
          BY <4>2, <5>1, RngConcat
      <4>4. QED
        BY <4>1, <4>3
    <3>3. QED
      BY <3>1, <3>2
  <2>3. PICK k \in Kinds : t = <<k, o>> /\ TodoOK /\ todo[t] # << >> /\ a \in Left(t)
    BY <2>1, OwnCaller
  <2>4. Adds(o, Rng(s))
    BY <2>2, <2>3, AddsDoes
  <2>5. QED
    BY <1>4, <2>1, <2>2, <2>4, OwnStep
<1>6. CASE TcpClose(t, o)
  <2>1. /\ At(t, "tcpClose", o) /\ UNCHANGED <<sessions, closing>>
        /\ todo' = Does(t, <<a, b, d>>) \/ todo' = Does(t, << >>)
    BY <1>6 DEF TcpClose
  <2>2. PICK s \in Seq(Calls) : todo' = Does(t, s) /\ Rng(s) \subseteq OwnCalls(o)
    <3> HIDE DEF a, b, d
    <3> DEFINE q == <<a, b, d>>
    <3>1. /\ todo' = Does(t, q) \/ todo' = Does(t, << >>)
          /\ q \in Seq(Calls) /\ Rng(q) \subseteq OwnCalls(o)
      BY <1>1, <1>4, <2>1
    <3> HIDE DEF q
    <3>2. CASE todo' = Does(t, q)
      BY <3>1, <3>2
    <3>3. CASE todo' = Does(t, << >>)
      BY <1>4, <3>3
    <3>4. QED
      BY <3>1, <3>2, <3>3
  <2>3. PICK k \in Kinds : t = <<k, o>> /\ TodoOK /\ todo[t] # << >> /\ e \in Left(t)
    BY <2>1, OwnCaller
  <2>4. Adds(o, Rng(s))
    BY <2>2, <2>3, AddsDoes
  <2>5. QED
    BY <1>4, <2>1, <2>2, <2>4, OwnStep
<1>7. CASE OnceDone(t, o) \/ RemoveSession(t, o)
  <2>1. /\ At(t, "onceDone", o) \/ At(t, "remove", o)
        /\ UNCHANGED closing /\ todo' = Does(t, << >>)
    BY <1>7 DEF OnceDone, RemoveSession
  <2>2. \A i \in Sids, p \in Offers : sessions'[i] = p => sessions[i] = p
    BY <1>3, <1>7, NoneAssumption DEF OnceDone, RemoveSession, IInv, TypeOK
  <2>3. PICK k \in Kinds : t = <<k, o>> /\ TodoOK /\ todo[t] # << >>
    BY <2>1, OwnCaller
  <2>4. Adds(o, {})
    <3>1. Adds(o, Rng(<< >>))
      BY <1>4, <2>1, <2>3, AddsDoes
    <3>2. QED
      BY <1>4, <3>1
  <2>5. QED
    <3> DEFINE N == {}
    <3>1. Adds(o, N) /\ \A x : x \notin N
      BY <2>4
    <3> HIDE DEF N
    <3>2. QED
      BY <2>1, <2>2, <3>1, OwnStep
<1>8. CASE RtcClose(t, o)
  <2>1. /\ At(t, "rtcClose", o) /\ UNCHANGED <<sessions, closing>>
        /\ todo' = IF fired[o] THEN Does(t, << >>)
                   ELSE [Does(t, << >>) EXCEPT ![<<"rtc", o>>] = <<a, b>>]
    BY <1>8 DEF RtcClose, FireClose
  <2>2. PICK k \in Kinds : t = <<k, o>> /\ TodoOK /\ todo[t] # << >> /\ f \in Left(t)
    BY <2>1, OwnCaller
  <2>3. PICK N : Adds(o, N) /\ N \subseteq OwnCalls(o)
    <3> HIDE DEF a, b
    <3>1. CASE fired[o]
      <4>1. Adds(o, Rng(<< >>))
        BY <1>4, <2>1, <2>2, <3>1, AddsDoes
      <4>2. QED
        BY <1>4, <4>1
    <3>2. CASE ~fired[o]
      <4>1. "rtc" \in Kinds
        BY DEF Kinds
      <4>2. Adds(o, Rng(<< >>) \cup Rng(<<a, b>>))
        BY <1>4, <2>1, <2>2, <3>2, <4>1, AddsDoesStarts
      <4>3. QED
        BY <1>1, <1>4, <4>2
    <3>3. QED
      BY <3>1, <3>2
  <2>4. QED
    BY <1>4, <2>1, <2>3, OwnStep
<1>9. QED
  BY <1>5, <1>6, <1>7, <1>8 DEF Calling

LEMMA AttachingApart ==
    ASSUME JInv, IInv', NEW o \in Offers, Attaching(o) \/ ReadEnds(o)
    PROVE  JInv'
<1> DEFINE a == <<"psClose", o>>
           b == <<"remove", o>>
           d == <<"dial", o>>
           e == <<"tcpClose", o>>
           f == <<"setTcp", o>>
           g == <<"eof", o>>
           t == <<"wait", o>>
           r == <<"read", o>>
<1>1. /\ {a, b, d, e, f, g} \subseteq OwnCalls(o) /\ t \in Goroutines /\ r \in Goroutines
      /\ "wait" \in Kinds /\ "read" \in Kinds
  BY GoroutineFacts DEF OwnCalls, Ops, StartOps, Kinds
<1>2. IInv /\ \A x \in OwnCalls(o) : x[2] = o /\ x[1] \notin StartOps
  BY OwnSeqs DEF JInv
<1>3. UNCHANGED <<sessions, closing>>
  BY DEF Attaching, WaitOpen, Dial, SetTcp, ReadEnds
<1>4. TodoOK
  BY <1>2 DEF IInv, TypeOK, TodoOK
<1>5. /\ << >> \in Seq(Calls) /\ Rng(<< >>) = {}
      /\ <<a>> \in Seq(Calls) /\ Rng(<<a>>) = {a}
      /\ <<d>> \in Seq(Calls) /\ Rng(<<d>>) = {d}
      /\ <<e>> \in Seq(Calls) /\ Rng(<<e>>) = {e}
      /\ <<f>> \in Seq(Calls) /\ Rng(<<f>>) = {f}
      /\ <<g>> \in Seq(Calls) /\ Rng(<<g>>) = {g}
      /\ <<a, b>> \in Seq(Calls) /\ Rng(<<a, b>>) = {a, b}
  <2>1. {a, b} \subseteq Calls /\ b \in After(a)
    BY AfterFacts DEF CloseOps, Ops
  <2> HIDE DEF a, b, d, e, f, g
  <2>2. <<a, b>> \in Seq(Calls) /\ Rng(<<a, b>>) = {a, b}
    BY <2>1, SomeCalls
  <2>3. \A x \in {a, d, e, f, g} : <<x>> \in Seq(Calls) /\ Rng(<<x>>) = {x}
    BY <1>1, OwnSeqs
  <2>4. QED
    BY <2>2, <2>3, OwnSeqs
<1>6. \/ todo[t] # << >> /\ todo' = Does(t, <<d>>)
      \/ todo[t] # << >> /\ todo' = Does(t, <<a, b>>)
      \/ todo[t] # << >> /\ todo' = [Does(t, <<f>>) EXCEPT ![r] = <<g>>]
      \/ todo[t] # << >> /\ todo' = Does(t, <<a>>)
      \/ todo[t] # << >> /\ todo' = Does(t, << >>)
      \/ todo[r] # << >> /\ todo' = Does(r, <<e>>)
  BY DEF Attaching, WaitOpen, Dial, SetTcp, ReadEnds, At
<1>7. PICK N : Adds(o, N) /\ N \subseteq OwnCalls(o)
  <2> HIDE DEF a, b, d, e, f, g
  <2>1. CASE todo[t] # << >> /\ todo' = Does(t, <<d>>)
    <3>1. Adds(o, Rng(<<d>>))
      BY <1>1, <1>4, <1>5, <2>1, AddsDoes
    <3>2. QED
      BY <1>1, <1>5, <3>1
  <2>2. CASE todo[t] # << >> /\ todo' = Does(t, <<a, b>>)
    <3>1. Adds(o, Rng(<<a, b>>))
      BY <1>1, <1>4, <1>5, <2>2, AddsDoes
    <3>2. QED
      BY <1>1, <1>5, <3>1
  <2>3. CASE todo[t] # << >> /\ todo' = [Does(t, <<f>>) EXCEPT ![r] = <<g>>]
    <3>1. Adds(o, Rng(<<f>>) \cup Rng(<<g>>))
      BY <1>1, <1>4, <1>5, <2>3, AddsDoesStarts
    <3>2. QED
      BY <1>1, <1>5, <3>1
  <2>4. CASE todo[t] # << >> /\ todo' = Does(t, <<a>>)
    <3>1. Adds(o, Rng(<<a>>))
      BY <1>1, <1>4, <1>5, <2>4, AddsDoes
    <3>2. QED
      BY <1>1, <1>5, <3>1
  <2>5. CASE todo[t] # << >> /\ todo' = Does(t, << >>)
    <3>1. Adds(o, Rng(<< >>))
      BY <1>1, <1>4, <1>5, <2>5, AddsDoes
    <3>2. QED
      BY <1>5, <3>1
  <2>6. CASE todo[r] # << >> /\ todo' = Does(r, <<e>>)
    <3>1. Adds(o, Rng(<<e>>))
      BY <1>1, <1>4, <1>5, <2>6, AddsDoes
    <3>2. QED
      BY <1>1, <1>5, <3>1
  <2>7. QED
    BY <1>6, <2>1, <2>2, <2>3, <2>4, <2>5, <2>6
<1>8. QED
  BY <1>2, <1>3, <1>7, OwnStep

LEMMA EnvironmentApart ==
    ASSUME JInv, IInv', NEW o \in Offers, Environment(o)
    PROVE  JInv'
<1> DEFINE a == <<"psClose", o>>
           b == <<"remove", o>>
<1>1. {a, b} \subseteq OwnCalls(o) /\ "rtc" \in Kinds /\ "data" \in Kinds
  BY DEF OwnCalls, Ops, StartOps, Kinds
<1>2. IInv /\ TodoOK /\ \A x \in OwnCalls(o) : x[2] = o /\ x[1] \notin StartOps
  BY OwnSeqs DEF JInv, IInv, TypeOK, TodoOK
<1>3. UNCHANGED <<sessions, closing>>
  BY DEF Environment, DataChannelOpens, PeerGone, TargetHangsUp, FeedFails
<1>4. \/ todo' = todo
      \/ todo' = [todo EXCEPT ![<<"rtc", o>>] = <<a, b>>]
      \/ todo' = [todo EXCEPT ![<<"data", o>>] = <<a>>]
  BY DEF Environment, DataChannelOpens, PeerGone, FireClose, TargetHangsUp, FeedFails
<1>5. /\ <<a>> \in Seq(Calls) /\ Rng(<<a>>) = {a}
      /\ <<a, b>> \in Seq(Calls) /\ Rng(<<a, b>>) = {a, b}
  <2>1. {a, b} \subseteq Calls /\ b \in After(a)
    BY AfterFacts DEF CloseOps, Ops
  <2> HIDE DEF a, b
  <2>2. QED
    BY <2>1, SomeCalls
<1>6. PICK N : Adds(o, N) /\ N \subseteq OwnCalls(o)
  <2> HIDE DEF a, b
  <2>1. CASE todo' = todo
    BY <2>1, AddsNothing
  <2>2. CASE todo' = [todo EXCEPT ![<<"rtc", o>>] = <<a, b>>]
    <3>1. Adds(o, Rng(<<a, b>>))
      BY <1>1, <1>2, <1>5, <2>2, AddsStarts
    <3>2. QED
      BY <1>1, <1>5, <3>1
  <2>3. CASE todo' = [todo EXCEPT ![<<"data", o>>] = <<a>>]
    <3>1. Adds(o, Rng(<<a>>))
      BY <1>1, <1>2, <1>5, <2>3, AddsStarts
    <3>2. QED
      BY <1>1, <1>5, <3>1
  <2>4. QED
    BY <1>4, <2>1, <2>2, <2>3
<1>7. QED
  BY <1>2, <1>3, <1>6, OwnStep

LEMMA NegotiatingApart ==
    ASSUME JInv, IInv', NEW o \in Offers, NewSession(o) \/ HandleOffer(o) \/ SendAnswer(o)
    PROVE  JInv'
<1> DEFINE t == <<"offer", o>>
           a == <<"psClose", o>>
           w == <<"waitOpen", o>>
<1>1. /\ a \in OwnCalls(o) /\ w \in OwnCalls(o)
      /\ t \in Goroutines /\ "offer" \in Kinds /\ "wait" \in Kinds
  BY GoroutineFacts DEF OwnCalls, Ops, StartOps, Kinds
<1>2. IInv /\ TodoOK /\ \A x \in OwnCalls(o) : x[2] = o /\ x[1] \notin StartOps
  BY OwnSeqs DEF JInv, IInv, TypeOK, TodoOK
<1>3. /\ << >> \in Seq(Calls) /\ Rng(<< >>) = {}
      /\ <<a>> \in Seq(Calls) /\ Rng(<<a>>) = {a}
      /\ <<w>> \in Seq(Calls) /\ Rng(<<w>>) = {w}
  <2> HIDE DEF a, w
  <2>1. QED
    BY <1>1, OwnSeqs
<1>4. CASE NewSession(o)
  <2>1. /\ At(t, "new", o) /\ UNCHANGED <<sessions, closing>>
        /\ todo' = Does(t, << >>) \/ todo' = [todo EXCEPT ![t] = << >>]
    BY <1>4 DEF NewSession
  <2>2. Adds(o, {})
    <3>1. todo[t] # << >>
      BY <2>1 DEF At
    <3>2. Adds(o, Rng(<< >>))
      BY <1>1, <1>2, <1>3, <2>1, <3>1, AddsDoes, AddsStarts
    <3>3. QED
      BY <1>3, <3>2
  <2>3. QED
    <3> DEFINE N == {}
    <3>1. Adds(o, N) /\ \A x : x \notin N
      BY <2>2
    <3> HIDE DEF N
    <3>2. QED
      BY <2>1, <3>1, OwnStep
<1>5. CASE HandleOffer(o)
  <2>1. /\ At(t, "handleOffer", o) /\ UNCHANGED <<sessions, closing>>
        /\ \/ todo' = Does(t, << >>)
           \/ todo' = [todo EXCEPT ![t] = <<a>>]
           \/ todo' = todo
    BY <1>5 DEF HandleOffer
  <2>2. PICK N : Adds(o, N) /\ N \subseteq OwnCalls(o)
    <3>1. todo[t] # << >>
      BY <2>1 DEF At
    <3> HIDE DEF a
    <3>2. CASE todo' = Does(t, << >>)
      <4>1. Adds(o, Rng(<< >>))
        BY <1>1, <1>2, <1>3, <3>1, <3>2, AddsDoes
      <4>2. QED
        BY <1>3, <4>1
    <3>3. CASE todo' = [todo EXCEPT ![t] = <<a>>]
      <4>1. Adds(o, Rng(<<a>>))
        BY <1>1, <1>2, <1>3, <3>3, AddsStarts
      <4>2. QED
        BY <1>1, <1>3, <4>1
    <3>4. CASE todo' = todo
      BY <3>4, AddsNothing
    <3>5. QED
      BY <2>1, <3>2, <3>3, <3>4
  <2>3. QED
    BY <1>2, <2>1, <2>2, OwnStep
<1>6. CASE SendAnswer(o)
  <2>1. /\ At(t, "answer", o) /\ UNCHANGED <<sessions, closing>>
        /\ \/ todo' = [Does(t, << >>) EXCEPT ![<<"wait", o>>] = <<w>>]
           \/ todo' = Does(t, <<a>>)
    BY <1>6 DEF SendAnswer
  <2>2. PICK N : Adds(o, N) /\ N \subseteq OwnCalls(o)
    <3>1. todo[t] # << >>
      BY <2>1 DEF At
    <3> HIDE DEF a, w
    <3>2. CASE todo' = [Does(t, << >>) EXCEPT ![<<"wait", o>>] = <<w>>]
      <4>1. Adds(o, Rng(<< >>) \cup Rng(<<w>>))
        BY <1>1, <1>2, <1>3, <3>1, <3>2, AddsDoesStarts
      <4>2. QED
        BY <1>1, <1>3, <4>1
    <3>3. CASE todo' = Does(t, <<a>>)
      <4>1. Adds(o, Rng(<<a>>))
        BY <1>1, <1>2, <1>3, <3>1, <3>3, AddsDoes
      <4>2. QED
        BY <1>1, <1>3, <4>1
    <3>4. QED
      BY <2>1, <3>2, <3>3
  <2>3. QED
    BY <1>2, <2>1, <2>2, OwnStep
<1>7. QED
  BY <1>4, <1>5, <1>6

\* startSession before NewSession: it finds no session under its own id.
LEMMA StartStep ==
    ASSUME JInv, IInv', NEW o \in Offers, NEW N, Adds(o, N), UNCHANGED closing,
           \A x \in N : x[2] = o, MapOwn'
    PROVE  JInv'
<1>1. \A k \in Kinds, p \in Offers : \A x \in Left(<<k, p>>)' :
          x \in Left(<<k, p>>) \/ (x \in N /\ p = o)
  BY GoroutineFacts DEF Adds
<1>2. Own'
  <2>1. Left(Stopper)' = {}
    BY GoroutineFacts DEF Adds, JInv, Own
  <2>2. QED
    BY <1>1, <2>1 DEF JInv, Own
<1>3. QED
  BY <1>2 DEF JInv

LEMMA RegisteringApart ==
    ASSUME Apart, JInv, IInv', NEW o \in Offers, TurnAuth(o) \/ Register(o) \/ Commit(o)
    PROVE  JInv'
<1> DEFINE t == <<"offer", o>>
<1>1. /\ t \in Goroutines /\ "offer" \in Kinds /\ SidOf[o] \in Sids
      /\ \A p \in Offers : <<"offer", p>> \in Goroutines /\ (<<"offer", p>> = t => p = o)
  BY GoroutineFacts, ConstantsAssumption DEF Kinds
<1>2. IInv /\ TodoOK /\ << >> \in Seq(Calls) /\ Rng(<< >>) = {}
  BY SomeCalls DEF JInv, IInv, TypeOK, TodoOK
<1>3. CASE TurnAuth(o)
  <2> DEFINE x1 == <<"register", o>>
             x2 == <<"new", o>>
             x3 == <<"handleOffer", o>>
             x4 == <<"answer", o>>
             N == {x1, x2, x3, x4}
  <2>1. /\ At(t, "turn", o) /\ UNCHANGED <<sessions, closing>>
        /\ todo' = Does(t, <<x1, x2, x3, x4>>) \/ todo' = Does(t, << >>)
    BY <1>3 DEF TurnAuth
  <2>2. <<"turn", o>> \in Left(t) /\ todo[t] # << >>
    BY <1>1, <2>1, OwnCaller
  <2>3. /\ {x1, x2, x3, x4} \subseteq Calls
        /\ {x2, x3, x4} \subseteq After(x1) /\ {x3, x4} \subseteq After(x2) /\ x4 \in After(x3)
        /\ \A x \in N : x[2] = o
    BY AfterFacts DEF Ops
  <2>4. Adds(o, N)
    <3> HIDE DEF x1, x2, x3, x4
    <3> DEFINE q == <<x1, x2, x3, x4>>
    <3>1. q \in Seq(Calls) /\ Rng(q) = N
      BY <2>3, SomeCalls
    <3>2. todo' = Does(t, q) \/ todo' = Does(t, << >>)
      BY <2>1
    <3> HIDE DEF q, N
    <3>3. CASE todo' = Does(t, q)
      BY <1>1, <1>2, <2>2, <3>1, <3>3, AddsDoes
    <3>4. CASE todo' = Does(t, << >>)
      <4>1. Adds(o, Rng(<< >>))
        BY <1>1, <1>2, <2>2, <3>4, AddsDoes
      <4>2. QED
        BY <1>2, <4>1 DEF Adds
    <3>5. QED
      BY <3>2, <3>3, <3>4
  <2>5. MapOwn'
    <3> SUFFICES ASSUME NEW s \in Sids, NEW p \in Offers, sessions'[s] = p
                 PROVE  /\ SidOf[p] = s
                        /\ \A op \in {"turn", "register", "commit"} :
                              <<op, p>> \notin Left(<<"offer", p>>)'
      BY DEF MapOwn
    <3>1. /\ SidOf[p] = s
          /\ \A op \in {"turn", "register", "commit"} : <<op, p>> \notin Left(<<"offer", p>>)
      BY <2>1 DEF JInv, MapOwn
    <3>2. p # o
      BY <2>2, <3>1
    <3>3. Left(<<"offer", p>>)' \subseteq Left(<<"offer", p>>)
      <4> HIDE DEF N
      <4>1. \A k \in Kinds : <<"offer", p>> # <<k, o>>
        BY <3>2
      <4>2. QED
        BY <1>1, <2>4, <4>1 DEF Adds
    <3>4. QED
      BY <3>1, <3>3
  <2> HIDE DEF N
  <2>6. QED
    BY <2>1, <2>3, <2>4, <2>5, StartStep
<1>4. ASSUME NEW op \in {"register", "commit"}, At(t, op, o), todo' = Does(t, << >>),
             sessions' = [sessions EXCEPT ![SidOf[o]] = o], UNCHANGED closing
      PROVE  JInv'
  <2>1. <<op, o>> \in Left(t) /\ todo[t] # << >>
    BY <1>1, <1>4, OwnCaller
  <2>2. Adds(o, {})
    <3>1. Adds(o, Rng(<< >>))
      BY <1>1, <1>2, <1>4, <2>1, AddsDoes
    <3>2. QED
      BY <1>2, <3>1
  <2>3. /\ Left(t)' \subseteq After(<<op, o>>)
        /\ \A u \in Goroutines : Left(u)' \subseteq Left(u)
    BY <1>1, <1>2, <1>4, Returns
  <2>4. \A q \in {"turn", "register", "commit"} : <<q, o>> \notin After(<<op, o>>)
    BY AfterFacts
  <2>5. MapOwn'
    <3> SUFFICES ASSUME NEW s \in Sids, NEW p \in Offers, sessions'[s] = p
                 PROVE  /\ SidOf[p] = s
                        /\ \A q \in {"turn", "register", "commit"} :
                              <<q, p>> \notin Left(<<"offer", p>>)'
      BY DEF MapOwn
    <3>1. CASE s = SidOf[o]
      <4>1. p = o
        BY <1>2, <1>4, <3>1 DEF IInv, TypeOK
      <4>2. QED
        BY <2>3, <2>4, <3>1, <4>1
    <3>2. CASE s # SidOf[o]
      <4>1. sessions[s] = p
        BY <1>2, <1>4, <3>2 DEF IInv, TypeOK
      <4>2. QED
        BY <1>1, <2>3, <4>1 DEF JInv, MapOwn
    <3>3. QED
      BY <3>1, <3>2
  <2>6. QED
    <3> DEFINE N == {}
    <3>1. Adds(o, N) /\ \A x : x \notin N
      BY <2>2
    <3> HIDE DEF N
    <3>2. QED
      BY <1>4, <2>5, <3>1, StartStep
<1>5. CASE Register(o)
  <2>1. At(t, "register", o) /\ UNCHANGED closing
    BY <1>5 DEF Register
  <2>2. <<"register", o>> \in Left(t)
    BY <1>1, <2>1, OwnCaller
  <2>3. sessions[SidOf[o]] = None
    <3> SUFFICES ASSUME NEW p \in Offers, sessions[SidOf[o]] = p
                 PROVE  FALSE
      BY <1>1, <1>2 DEF IInv, TypeOK
    <3>1. SidOf[p] = SidOf[o] /\ <<"register", p>> \notin Left(<<"offer", p>>)
      BY <1>1 DEF JInv, MapOwn
    <3>2. p = o
      BY <3>1 DEF Apart
    <3>3. QED
      BY <2>2, <3>1, <3>2
  <2>4. QED
    BY <1>4, <1>5, <2>1, <2>3 DEF Register
<1>6. CASE Commit(o)
  BY <1>4, <1>6 DEF Commit
<1>7. QED
  BY <1>3, <1>5, <1>6

LEMMA InitApart == Apart /\ Init => JInv
<1> SUFFICES ASSUME Apart, Init PROVE JInv
  OBVIOUS
<1>1. IInv
  BY InitInv
<1>2. todo[Stopper] = << >>
  BY GoroutineFacts DEF Init, Apart
<1>3. Left(Stopper) = {}
  BY <1>2, IdleLeft
<1>4. ASSUME NEW k \in Kinds, NEW o \in Offers
      PROVE  Left(<<k, o>>) \subseteq {<<"turn", o>>}
  <2> DEFINE t == <<k, o>>
             x == <<"turn", o>>
  <2>1. t \in Goroutines /\ t # Stopper /\ t[1] = k /\ t[2] = o /\ x \in Calls
    BY GoroutineFacts, AfterFacts DEF Ops
  <2>2. todo[t] = << >> \/ todo[t] = << <<"turn", t[2]>> >>
    <3> HIDE DEF t
    <3>1. QED
      BY <2>1 DEF Init
  <2>3. todo[t] = << >> \/ todo[t] = <<x>>
    BY <2>1, <2>2
  <2> HIDE DEF t, x
  <2>4. Left(t) \subseteq {x}
    BY <2>1, <2>3, SomeCalls DEF Left
  <2>5. QED
    BY <2>4 DEF t, x
<1>5. \A k \in Kinds, o \in Offers : \A x \in Left(<<k, o>>) : x = <<"turn", o>>
  BY <1>4
<1>6. Own
  <2>1. \A k \in Kinds, o \in Offers : \A x \in Left(<<k, o>>) : x[2] = o
    BY <1>5
  <2>2. QED
    BY <1>3, <2>1 DEF Init, Own
<1>7. MapOwn
  BY NoneAssumption DEF Init, MapOwn
<1>8. QED
  BY <1>1, <1>6, <1>7 DEF JInv

LEMMA NextApart == Apart /\ JInv /\ [Next]_vars => JInv'
<1> SUFFICES ASSUME Apart, JInv, [Next]_vars PROVE JInv'
  OBVIOUS
<1>1. IInv'
  BY NextInv DEF JInv
<1>2. ASSUME NEW o \in Offers, Starting(o)
      PROVE  JInv'
  BY <1>1, <1>2, RegisteringApart, NegotiatingApart DEF Starting
<1>3. ASSUME NEW o \in Offers, Attaching(o) \/ ReadEnds(o)
      PROVE  JInv'
  BY <1>1, <1>3, AttachingApart
<1>4. ASSUME NEW o \in Offers, Environment(o)
      PROVE  JInv'
  BY <1>1, <1>4, EnvironmentApart
<1>5. ASSUME NEW t \in Goroutines, NEW o \in Offers, Calling(t, o)
      PROVE  JInv'
  BY <1>1, <1>5, CallingApart
<1>6. ~Stopping
  <2>1. ASSUME Stop
        PROVE  FALSE
    <3>1. At(Stopper, "stop", None) /\ Stopper \in Goroutines /\ IInv /\ todo' = Does(Stopper, << >>)
      BY <2>1, GoroutineFacts DEF Stop, JInv
    <3>2. <<"stop", None>> \in Left(Stopper)
      BY <3>1, Returns
    <3>3. QED
      BY <3>2 DEF JInv, Own
  <2>2. \A o \in Offers : ~StopNext(o)
    BY DEF StopNext, JInv, Own
  <2>3. QED
    BY <2>1, <2>2 DEF Stopping
<1>7. CASE UNCHANGED vars
  BY <1>1, <1>7 DEF vars, JInv, Own, MapOwn, Left
<1>8. QED
  BY <1>2, <1>3, <1>4, <1>5, <1>6, <1>7 DEF Next

\* Sessions with distinct ids are only closed by their own goroutines.
THEOREM ApartIndependent ==
    ASSUME Apart
    PROVE  Spec => SessionsIndependent
<1> DEFINE Step == \A o \in Offers : closed'[o] # closed[o]
                       => \E k \in Kinds : At(<<k, o>>, "psClose", o)
<1>1. ASSUME JInv, [Next]_vars
      PROVE  [Step]_vars
  <2> SUFFICES ASSUME Next, NEW o \in Offers, closed'[o] # closed[o]
               PROVE  \E k \in Kinds : At(<<k, o>>, "psClose", o)
    BY <1>1
  <2>1. PICK t \in Goroutines, p \in Offers : PsClose(t, p)
    <3>1. ASSUME NEW q \in Offers, Starting(q) \/ Attaching(q)
          PROVE  closed' = closed
      BY <3>1 DEF Starting, TurnAuth, Register, Commit, NewSession, HandleOffer, SendAnswer,
                  Attaching, WaitOpen, Dial, SetTcp
    <3>2. ASSUME NEW q \in Offers, ReadEnds(q) \/ Environment(q)
          PROVE  closed' = closed
      BY <3>2 DEF ReadEnds, Environment, DataChannelOpens, PeerGone, TargetHangsUp, FeedFails
    <3>3. ASSUME NEW g \in Goroutines, NEW q \in Offers, Calling(g, q)
          PROVE  closed' = closed \/ PsClose(g, q)
      BY <3>3 DEF Calling, TcpClose, OnceDone, RtcClose, RemoveSession
    <3>4. ASSUME Stopping
          PROVE  closed' = closed
      BY <3>4 DEF Stopping, Stop, StopNext
    <3>5. QED
      BY <3>1, <3>2, <3>3, <3>4 DEF Next
  <2>2. p = o /\ At(t, "psClose", o)
    BY <1>1, <2>1 DEF PsClose, JInv, IInv, TypeOK
  <2>3. QED
    BY <1>1, <2>2, OwnCaller
<1>2. [][Step]_vars <=> SessionsIndependent
  BY DEF SessionsIndependent
<1>3. QED
  BY <1>1, <1>2, InitApart, NextApart, PTL DEF Spec

=====================================================================================
