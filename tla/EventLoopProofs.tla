--------------------------- MODULE EventLoopProofs --------------------------
(***************************************************************************)
(* Proofs about Wire and EventLoop, for every number of clones, every      *)
(* capacity of the channels and every script.                              *)
(***************************************************************************)
EXTENDS EventLoop, FiniteSetTheorems, NaturalsInduction, WellFoundedInduction,
        TLAPS

-----------------------------------------------------------------------------
(* Full channels                                                           *)

CallersInv == DOMAIN todo = Callers /\ DOMAIN held = Callers

LEMMA CallersNext == CallersInv /\ [Next]_vars => CallersInv'
<1> SUFFICES ASSUME CallersInv, [Next]_vars PROVE CallersInv'
  OBVIOUS
<1>1. CASE UNCHANGED tasks
  BY <1>1 DEF CallersInv, tasks
<1>2. ASSUME NEW c \in Callers, Caller(c) PROVE CallersInv'
  BY <1>2 DEF Caller, Connect, ConnectPeer, Request, Relay, Close, Refuse, Panic,
              Queue, QueueFails, Call, Hold, CallersInv
<1>3. ASSUME NEW event, Yield(event) PROVE CallersInv'
  BY <1>3 DEF Yield, CallersInv
<1>4. CASE LoopStep
  BY <1>1, <1>3, <1>4
     DEF LoopStep, ReadFrame, QueueResponse, WriteFrame, TakeResponse,
         TakeError, TakeServerHandshake, TakeUnhandled, TakeServerMessage,
         TakePeer, NoEvent, HandlerPanics,
         PeerHandshakeResponder, QueueReply, PeerHandshakeAck,
         HandleRelayedMessage
<1> QED
  BY <1>1, <1>2, <1>4 DEF Next, Poll, vars

\* A call leaves the event loop alone, unless the driver panics in it.
LEMMA CallerLoop ==
    ASSUME NEW c \in Callers, Caller(c)
    PROVE  \/ UNCHANGED loop
           \/ /\ c = Driver /\ Panic(c) /\ loop.pc = "idle"
              /\ loop' = [loop EXCEPT !.pc = "panicked"]
<1>1. CASE Panic(c)
  BY <1>1 DEF Panic, Turn
<1>2. CASE ~Panic(c)
  BY <1>2 DEF Caller, Connect, ConnectPeer, Request, Relay, Close, Refuse, Queue,
         QueueFails
<1> QED
  BY <1>1, <1>2

LEMMA BlockedCaller ==
    ASSUME CallersInv, BlockedOnRoom, NEW c \in Callers, Caller(c)
    PROVE  BlockedOnRoom'
<1>0. /\ Capacity \in Nat /\ NoOne \notin Clones /\ Driver \in Callers
  BY EventLoopAssumption DEF Callers
<1>1. loop' = loop /\ inbound' = inbound
  <2>1. ~(c = Driver /\ Panic(c) /\ loop.pc = "idle")
    BY DEF BlockedOnRoom, NeedsPeers, Panic, Turn
  <2> QED
    BY <2>1, CallerLoop
       DEF Caller, Connect, ConnectPeer, Request, Relay, Close, Refuse, Panic,
           Queue, QueueFails, channels
<1>2. CASE loop.pc = "read" /\ Len(inbound) = Capacity
  BY <1>1, <1>2 DEF BlockedOnRoom
<1>3. ASSUME Len(outbound) = Capacity, ~Ended
      PROVE  /\ outbound' = outbound
             /\ lock \in Clones => lock' = lock
             /\ ~Queue(c) /\ ~QueueFails(c)
  <2>1. ~Queue(c) /\ ~QueueFails(c)
    BY <1>0, <1>3 DEF Queue, QueueFails
  <2>2. outbound' = outbound
    BY <2>1 DEF Caller, Connect, ConnectPeer, Request, Relay, Close, Refuse, Panic,
           channels
  <2>3. lock \in Clones => lock' = lock
    BY <1>0, <2>1 DEF Caller, Connect, ConnectPeer, Request, Relay, Close,
           Refuse, Panic
  <2> QED
    BY <2>1, <2>2, <2>3
<1>4. c # Driver => held'[Driver] = held[Driver] /\ todo'[Driver] = todo[Driver]
  BY <1>0 DEF Caller, Connect, ConnectPeer, Request, Relay, Close, Refuse, Panic,
         Queue, QueueFails, Call, Hold, CallersInv
<1>5. CASE Len(outbound) = Capacity /\ loop.pc = "idle" /\ held[Driver] # {}
  <2>1. c # Driver
    BY <1>3, <1>5 DEF Ended, Caller, Connect, ConnectPeer, Request, Relay, Close,
           Refuse, Panic, Call, Turn
  <2> QED
    BY <1>1, <1>3, <1>4, <1>5, <2>1 DEF BlockedOnRoom, Ended
<1>6. CASE /\ Len(outbound) = Capacity /\ loop.pc = "idle"
           /\ NeedsPeers(Driver) /\ lock \in Clones
  <2>1. c # Driver
    BY <1>0, <1>3, <1>6 DEF Ended, Caller, Connect, ConnectPeer, Request, Relay,
           Close, Refuse, Panic, Refused, Call, Turn, NeedsPeers
  <2> QED
    BY <1>1, <1>3, <1>4, <1>6, <2>1 DEF BlockedOnRoom, NeedsPeers, Ended
<1>7. CASE Len(outbound) = Capacity /\ loop.pc = "lock" /\ lock \in Clones
  BY <1>1, <1>3, <1>7 DEF BlockedOnRoom, Ended
<1>8. CASE Len(outbound) = Capacity /\ loop.pc = "reply"
  BY <1>1, <1>3, <1>8 DEF BlockedOnRoom, Ended
<1> QED
  BY <1>2, <1>5, <1>6, <1>7, <1>8 DEF BlockedOnRoom

LEMMA BlockedLoop == BlockedOnRoom => ~Poll /\ ~LoopStep
<1> SUFFICES ASSUME BlockedOnRoom PROVE ~Poll /\ ~LoopStep
  OBVIOUS
<1>0. Capacity \in Nat /\ NoOne \notin Clones
  BY EventLoopAssumption
<1>1. ~Poll
  BY DEF BlockedOnRoom, Poll, NeedsPeers
<1>2. ~LoopStep
  BY <1>0
     DEF BlockedOnRoom, LoopStep, ReadFrame, QueueResponse, WriteFrame,
         TakeResponse, TakeError, TakeServerHandshake, TakeUnhandled,
         TakeServerMessage,
         TakePeer, Take, PeerHandshakeResponder, QueueReply, PeerHandshakeAck,
         HandleRelayedMessage
<1> QED
  BY <1>1, <1>2

\* A client whose event loop waits for room in a channel that only the event
\* loop empties waits for ever, whatever its clones do: there is no timeout
\* on outbound_tx.send() and inbound_tx.send() (client.rs, event_loop.rs).
THEOREM BlockedStays == Spec => BlockedForEver
<1>1. Init => CallersInv
  BY DEF Init, CallersInv
<1>2. CallersInv /\ [Next]_vars => [BlockedOnRoom => BlockedOnRoom']_vars
  BY BlockedCaller, BlockedLoop DEF Next
<1> QED
  BY <1>1, <1>2, CallersNext, PTL DEF Spec, BlockedForEver

-----------------------------------------------------------------------------
(* Sequences of sequences, flattened                                       *)

LEMMA Least ==
    ASSUME NEW T, T \subseteq Nat, T # {}
    PROVE  \E x \in T : \A y \in T : x <= y
<1> DEFINE R == OpToRel(<, Nat)
<1>1. IsWellFoundedOn(R, Nat)
  BY NatLessThanWellFounded
<1>2. \A x, y \in Nat : y < x => <<y, x>> \in R
  BY DEF OpToRel
<1> HIDE DEF R
<1>3. \E x \in T : \A y \in T : ~(<<y, x>> \in R)
  BY <1>1, WFMin
<1>4. PICK x \in T : \A y \in T : ~(<<y, x>> \in R)
  BY <1>3
<1>5. ASSUME NEW y \in T PROVE x <= y
  <2>1. ~(y < x)
    BY <1>2, <1>4
  <2> QED
    BY <2>1
<1> QED
  BY <1>5

\* The recursive function inside FlattenSeq.
Flattens(f, ss) ==
    f = [i \in 1..Len(ss) |-> IF i = 1 THEN ss[i] ELSE f[i - 1] \o ss[i]]

LEMMA FlattenDef ==
    ASSUME NEW ss, Len(ss) # 0
    PROVE  FlattenSeq(ss) = (CHOOSE f : Flattens(f, ss))[Len(ss)]
  BY DEF FlattenSeq, Flattens

LEMMA FlattensAt ==
    ASSUME NEW ss, Len(ss) \in Nat, NEW f, Flattens(f, ss), NEW i \in 1..Len(ss)
    PROVE  f[i] = IF i = 1 THEN ss[i] ELSE f[i - 1] \o ss[i]
  BY DEF Flattens

LEMMA FlattenUnique ==
    ASSUME NEW ss, Len(ss) \in Nat, NEW f, NEW g, Flattens(f, ss), Flattens(g, ss)
    PROVE  f = g
<1> DEFINE n == Len(ss)
           T == {i \in 1..n : f[i] # g[i]}
<1>1. ASSUME T # {} PROVE FALSE
  <2>0. T \subseteq Nat
    OBVIOUS
  <2>1. PICK i \in T : \A j \in T : i <= j
    BY <1>1, <2>0, Least
  <2>2. i # 1
    BY <2>1 DEF Flattens
  <2>3. i - 1 \in 1..n /\ ~(i <= i - 1)
    BY <2>1, <2>2
  <2>4. f[i - 1] = g[i - 1]
    BY <2>1, <2>3
  <2>5. f[i] = g[i]
    BY <2>2, <2>4, FlattensAt
  <2> QED
    BY <2>1, <2>5
<1>2. \A i \in 1..n : f[i] = g[i]
  BY <1>1
<1>3. f = [i \in 1..n |-> f[i]] /\ g = [i \in 1..n |-> g[i]]
  BY DEF Flattens
<1> QED
  BY <1>2, <1>3

LEMMA FlattenIs ==
    ASSUME NEW ss, Len(ss) \in Nat \ {0}, NEW f, Flattens(f, ss)
    PROVE  FlattenSeq(ss) = f[Len(ss)]
<1> DEFINE g == CHOOSE h : Flattens(h, ss)
<1>1. Flattens(g, ss)
  OBVIOUS
<1>2. g = f
  BY <1>1, FlattenUnique
<1> QED
  BY <1>2, FlattenDef

LEMMA FlattenNone == FlattenSeq(<<>>) = <<>>
  BY DEF FlattenSeq

FlattensTo(f, ss, n) ==
    \A i \in 1..n : f[i] = IF i = 1 THEN ss[i] ELSE f[i - 1] \o ss[i]

\* Such a function exists for every prefix of a sequence of sequences.
LEMMA FlattensExtend ==
    ASSUME NEW S, NEW ss \in Seq(Seq(S)), NEW n \in 1..Len(ss), NEW f,
           f \in [1..n -> Seq(S)],
           FlattensTo(f, ss, n), n + 1 \in 1..Len(ss), NEW g,
           g = [i \in 1..(n + 1) |-> IF i = n + 1 THEN f[n] \o ss[n + 1] ELSE f[i]]
    PROVE  /\ g \in [1..(n + 1) -> Seq(S)]
           /\ FlattensTo(g, ss, n + 1)
<1>0. n \in Nat /\ n >= 1 /\ ss[n + 1] \in Seq(S) /\ f[n] \in Seq(S)
  OBVIOUS
<1>1. f[n] \o ss[n + 1] \in Seq(S)
  BY <1>0
<1>2. \A i \in 1..(n + 1) : i # n + 1 => i \in 1..n
  BY <1>0
<1>3. g \in [1..(n + 1) -> Seq(S)]
  BY <1>1, <1>2
<1>4. ASSUME NEW i \in 1..(n + 1)
      PROVE  g[i] = IF i = 1 THEN ss[i] ELSE g[i - 1] \o ss[i]
  <2>1. CASE i = n + 1
    <3>1. i # 1 /\ i - 1 = n /\ n \in 1..(n + 1) /\ n # n + 1
      BY <1>0, <2>1
    <3>2. g[n] = f[n] /\ g[i] = f[n] \o ss[n + 1]
      BY <2>1, <3>1
    <3> QED
      BY <2>1, <3>1, <3>2
  <2>2. CASE i # n + 1
    <3>1. i \in 1..n /\ g[i] = f[i]
      BY <1>2, <2>2
    <3>2. i # 1 => i - 1 \in 1..(n + 1) /\ i - 1 # n + 1
      BY <1>0, <3>1
    <3>3. i # 1 => g[i - 1] = f[i - 1]
      BY <3>2
    <3> QED
      BY <3>1, <3>3 DEF FlattensTo
  <2> QED
    BY <2>1, <2>2
<1> QED
  BY <1>3, <1>4 DEF FlattensTo

LEMMA FlattensExists ==
    ASSUME NEW S, NEW ss \in Seq(Seq(S))
    PROVE  \E f \in [1..Len(ss) -> Seq(S)] : Flattens(f, ss)
<1> DEFINE Good(n) == \E f \in [1..n -> Seq(S)] : FlattensTo(f, ss, n)
           T == {n \in 0..Len(ss) : ~Good(n)}
<1>0. Len(ss) \in Nat
  OBVIOUS
<1>1. Good(0)
  <2>1. [i \in 1..0 |-> <<>>] \in [1..0 -> Seq(S)]
    OBVIOUS
  <2>2. \A i \in 1..0 : FALSE
    OBVIOUS
  <2> QED
    BY <2>1, <2>2 DEF FlattensTo
<1>2. Len(ss) # 0 => Good(1)
  <2> HAVE Len(ss) # 0
  <2>1. [i \in 1..1 |-> ss[1]] \in [1..1 -> Seq(S)]
    BY <1>0
  <2>2. \A i \in 1..1 : [j \in 1..1 |-> ss[1]][i] = ss[i] /\ i = 1
    OBVIOUS
  <2> QED
    BY <2>1, <2>2 DEF FlattensTo
<1>3. ASSUME NEW n \in 1..Len(ss), Good(n), n + 1 \in 1..Len(ss)
      PROVE  Good(n + 1)
  <2>1. PICK f \in [1..n -> Seq(S)] : FlattensTo(f, ss, n)
    BY <1>3
  <2> DEFINE g == [i \in 1..(n + 1) |-> IF i = n + 1 THEN f[n] \o ss[n + 1] ELSE f[i]]
  <2>2. g \in [1..(n + 1) -> Seq(S)] /\ FlattensTo(g, ss, n + 1)
    BY <1>3, <2>1, FlattensExtend
  <2> QED
    BY <2>2
<1> HIDE DEF Good
<1>4. ASSUME T # {} PROVE FALSE
  <2>1. T \subseteq Nat
    BY <1>0
  <2>2. PICK n \in T : \A m \in T : n <= m
    BY <1>4, <2>1, Least
  <2>3. n \in 0..Len(ss) /\ ~Good(n)
    OBVIOUS
  <2>4. n # 0 /\ n # 1
    BY <1>0, <1>1, <1>2, <2>3
  <2>5. n - 1 \in 1..Len(ss) /\ ~(n <= n - 1) /\ n - 1 \in 0..Len(ss)
    BY <1>0, <2>3, <2>4
  <2>6. Good(n - 1)
    BY <2>2, <2>5
  <2>7. n - 1 + 1 = n /\ n \in 1..Len(ss)
    BY <1>0, <2>3, <2>4
  <2> QED
    BY <1>3, <2>3, <2>5, <2>6, <2>7
<1>5. Len(ss) \in 0..Len(ss)
  BY <1>0
<1>6. Good(Len(ss))
  BY <1>4, <1>5
<1>7. PICK f \in [1..Len(ss) -> Seq(S)] : FlattensTo(f, ss, Len(ss))
  BY <1>6 DEF Good
<1>8. f = [i \in 1..Len(ss) |-> IF i = 1 THEN ss[i] ELSE f[i - 1] \o ss[i]]
  BY <1>7 DEF FlattensTo
<1> QED
  BY <1>8 DEF Flattens

LEMMA FlattenType ==
    ASSUME NEW S, NEW ss \in Seq(Seq(S))
    PROVE  FlattenSeq(ss) \in Seq(S)
<1>0. Len(ss) \in Nat
  OBVIOUS
<1>1. CASE Len(ss) = 0
  <2>1. ss = <<>> /\ <<>> \in Seq(S)
    BY <1>1
  <2> QED
    BY <2>1, FlattenNone
<1>2. CASE Len(ss) # 0
  <2>1. PICK f \in [1..Len(ss) -> Seq(S)] : Flattens(f, ss)
    BY FlattensExists
  <2>2. FlattenSeq(ss) = f[Len(ss)]
    BY <1>0, <1>2, <2>1, FlattenIs
  <2>3. Len(ss) \in 1..Len(ss)
    BY <1>0, <1>2
  <2>4. f[Len(ss)] \in Seq(S)
    BY <2>1, <2>3
  <2> QED
    BY <2>2, <2>4
<1> QED
  BY <1>1, <1>2

\* Flattening what one more sequence was appended to.
LEMMA FlattenAppend ==
    ASSUME NEW S, NEW ss \in Seq(Seq(S)), NEW s \in Seq(S)
    PROVE  FlattenSeq(Append(ss, s)) = FlattenSeq(ss) \o s
<1> DEFINE n == Len(ss)
           tt == Append(ss, s)
<1>0. /\ n \in Nat /\ Len(tt) = n + 1 /\ tt[n + 1] = s /\ tt \in Seq(Seq(S))
      /\ \A i \in 1..n : tt[i] = ss[i] /\ i \in 1..(n + 1)
  OBVIOUS
<1> HIDE DEF tt
<1>1. PICK f \in [1..(n + 1) -> Seq(S)] : Flattens(f, tt)
  BY <1>0, FlattensExists
<1>2. FlattenSeq(tt) = f[n + 1]
  BY <1>0, <1>1, FlattenIs
<1>3. f[n + 1] = IF n + 1 = 1 THEN s ELSE f[n] \o s
  <2>1. n + 1 \in 1..Len(tt) /\ n + 1 - 1 = n /\ Len(tt) \in Nat
    BY <1>0
  <2>2. f[n + 1] = IF n + 1 = 1 THEN tt[n + 1] ELSE f[n + 1 - 1] \o tt[n + 1]
    BY <1>1, <2>1, FlattensAt
  <2> QED
    BY <1>0, <2>1, <2>2
<1>4. CASE n = 0
  <2>1. ss = <<>> /\ FlattenSeq(ss) = <<>>
    BY <1>4, FlattenNone
  <2>2. <<>> \o s = s
    OBVIOUS
  <2> QED
    BY <1>2, <1>3, <1>4, <2>1, <2>2 DEF tt
<1>5. CASE n # 0
  <2> DEFINE g == [i \in 1..n |-> f[i]]
  <2>1. ASSUME NEW i \in 1..n
        PROVE  g[i] = IF i = 1 THEN ss[i] ELSE g[i - 1] \o ss[i]
    <3>0. i \in 1..Len(tt) /\ tt[i] = ss[i]
      BY <1>0
    <3>1. f[i] = IF i = 1 THEN tt[i] ELSE f[i - 1] \o tt[i]
      <4>1. Len(tt) \in Nat
        BY <1>0
      <4> QED
        BY ONLY <1>1, <3>0, <4>1, FlattensAt
    <3>2. i # 1 => i - 1 \in 1..n
      BY <1>0
    <3> QED
      BY <3>0, <3>1, <3>2
  <2>2. g = [i \in 1..n |-> IF i = 1 THEN ss[i] ELSE g[i - 1] \o ss[i]]
    BY <2>1
  <2>3. Flattens(g, ss)
    BY <2>2 DEF Flattens
  <2> HIDE DEF g
  <2>4. FlattenSeq(ss) = g[n]
    BY <1>0, <1>5, <2>3, FlattenIs
  <2>5. g[n] = f[n] /\ n + 1 # 1
    BY <1>0, <1>5 DEF g
  <2> QED
    BY <1>2, <1>3, <2>4, <2>5 DEF tt
<1> QED
  BY <1>4, <1>5

LEMMA Associative ==
    ASSUME NEW S, NEW a \in Seq(S), NEW b \in Seq(S), NEW c \in Seq(S)
    PROVE  (a \o b) \o c = a \o (b \o c)
  OBVIOUS

LEMMA ConcatIs ==
    ASSUME NEW S, NEW a \in Seq(S), NEW b \in Seq(S), NEW c \in Seq(S),
           Len(c) = Len(a) + Len(b),
           \A q \in 1..Len(a) : c[q] = a[q],
           \A q \in 1..Len(b) : c[Len(a) + q] = b[q]
    PROVE  c = a \o b
<1>1. a \o b \in Seq(S) /\ Len(a \o b) = Len(c)
  OBVIOUS
<1>2. ASSUME NEW q \in 1..Len(c) PROVE c[q] = (a \o b)[q]
  <2>1. CASE q \in 1..Len(a)
    BY <2>1
  <2>2. CASE q \notin 1..Len(a)
    <3>1. q - Len(a) \in 1..Len(b) /\ Len(a) + (q - Len(a)) = q
      BY <2>2
    <3>2. c[q] = b[q - Len(a)]
      BY <3>1
    <3> QED
      BY <2>2, <3>1, <3>2
  <2> QED
    BY <2>1, <2>2
<1> QED
  BY <1>1, <1>2

\* Flattening what begins with a given sequence.
LEMMA FlattenCons ==
    ASSUME NEW S, NEW ss \in Seq(Seq(S)), ss # <<>>
    PROVE  FlattenSeq(ss) = Head(ss) \o FlattenSeq(Tail(ss))
<1> DEFINE n == Len(ss)
           tt == Tail(ss)
           s == ss[1]
<1>0. /\ n \in Nat /\ n >= 1 /\ Len(tt) = n - 1 /\ Head(ss) = s
      /\ tt \in Seq(Seq(S)) /\ s \in Seq(S)
      /\ \A i \in 1..(n - 1) : tt[i] = ss[i + 1] /\ tt[i] \in Seq(S)
  OBVIOUS
<1> HIDE DEF tt, s
<1>1. CASE n = 1
  <2>1. tt = <<>> /\ s \o <<>> = s
    BY <1>0, <1>1
  <2>2. PICK f \in [1..Len(ss) -> Seq(S)] : Flattens(f, ss)
    BY FlattensExists
  <2>3. FlattenSeq(ss) = f[1] /\ f[1] = ss[1]
    BY <1>0, <1>1, <2>2, FlattenIs, FlattensAt
  <2> QED
    BY <1>0, <2>1, <2>3, FlattenNone DEF tt, s
<1>2. CASE n # 1
  <2>1. PICK f \in [1..(n - 1) -> Seq(S)] : Flattens(f, tt)
    BY <1>0, FlattensExists
  <2>2. FlattenSeq(tt) = f[n - 1]
    <3>1. Len(tt) \in Nat \ {0} /\ Len(tt) = n - 1
      BY <1>0, <1>2
    <3> QED
      BY <2>1, <3>1, FlattenIs
  <2> DEFINE g == [i \in 1..n |-> IF i = 1 THEN s ELSE s \o f[i - 1]]
  <2>3. ASSUME NEW i \in 1..n
        PROVE  g[i] = IF i = 1 THEN ss[i] ELSE g[i - 1] \o ss[i]
    <3>1. CASE i = 1
      BY <3>1 DEF s
    <3>2. CASE i # 1
      <4>0. i - 1 \in 1..(n - 1) /\ i - 1 \in 1..n /\ i - 1 + 1 = i
        BY <1>0, <3>2
      <4>1. g[i] = s \o f[i - 1] /\ tt[i - 1] = ss[i] /\ tt[i - 1] \in Seq(S)
        BY <1>0, <3>2, <4>0
      <4>2. f[i - 1] = IF i - 1 = 1 THEN tt[i - 1] ELSE f[i - 1 - 1] \o tt[i - 1]
        <5>1. Len(tt) \in Nat /\ i - 1 \in 1..Len(tt)
          BY <1>0, <4>0
        <5> QED
          BY ONLY <2>1, <5>1, FlattensAt
      <4>3. CASE i - 1 = 1
        <5>1. g[i - 1] = s /\ f[i - 1] = ss[i]
          BY <4>0, <4>1, <4>2, <4>3
        <5> QED
          BY <3>2, <4>1, <5>1
      <4>4. CASE i - 1 # 1
        <5>0. i - 1 - 1 \in 1..(n - 1) /\ i - 1 # 1
          BY <1>0, <4>0, <4>4
        <5>1. g[i - 1] = s \o f[i - 1 - 1]
          BY <4>0, <5>0
        <5>2. f[i - 1 - 1] \in Seq(S) /\ ss[i] \in Seq(S)
          BY <1>0, <2>1, <4>1, <5>0
        <5>3. g[i] = s \o (f[i - 1 - 1] \o ss[i])
          BY <4>1, <4>2, <4>4
        <5>4. (s \o f[i - 1 - 1]) \o ss[i] = s \o (f[i - 1 - 1] \o ss[i])
          <6> DEFINE x == f[i - 1 - 1]
                     y == ss[i]
          <6>1. s \in Seq(S) /\ x \in Seq(S) /\ y \in Seq(S)
            BY <1>0, <5>2
          <6> HIDE DEF x, y
          <6>2. (s \o x) \o y = s \o (x \o y)
            BY ONLY <6>1
          <6> QED
            BY ONLY <6>2 DEF x, y
        <5> QED
          BY <3>2, <5>1, <5>3, <5>4
      <4> QED
        BY <4>3, <4>4
    <3> QED
      BY <3>1, <3>2
  <2>4. g = [i \in 1..n |-> IF i = 1 THEN ss[i] ELSE g[i - 1] \o ss[i]]
    BY <2>3
  <2>5. Flattens(g, ss)
    BY <2>4 DEF Flattens
  <2>7. g[n] = s \o f[n - 1]
    BY <1>0, <1>2
  <2> HIDE DEF g
  <2>6. FlattenSeq(ss) = g[n]
    BY <1>0, <2>5, FlattenIs
  <2> QED
    BY <1>0, <2>2, <2>7, <2>6 DEF tt
<1> QED
  BY <1>1, <1>2

\* Pieces of two elements: u, and an element of v.
Pairs(u, v, n) == [q \in 1..(2 * n) |-> IF q % 2 = 1 THEN u ELSE v[q \div 2]]

LEMMA PairsNext ==
    ASSUME NEW u, NEW v, NEW n \in Nat, n >= 1
    PROVE  Pairs(u, v, n) = Pairs(u, v, n - 1) \o <<u, v[n]>>
<1> DEFINE a == Pairs(u, v, n - 1)
           b == <<u, v[n]>>
           c == Pairs(u, v, n)
           S == {u} \cup {v[i] : i \in Nat}
<1>1. a \in Seq(S) /\ Len(a) = 2 * (n - 1) /\ c \in Seq(S) /\ Len(c) = 2 * n
  BY DEF Pairs
<1>2. b \in Seq(S) /\ Len(b) = 2 /\ b[1] = u /\ b[2] = v[n]
  OBVIOUS
<1>3. c[2 * (n - 1) + 1] = u /\ c[2 * (n - 1) + 2] = v[n]
  BY DEF Pairs
<1>4. \A q \in 1..(2 * (n - 1)) : c[q] = a[q]
  BY DEF Pairs
<1>5. 2 * n = 2 * (n - 1) + 2
  OBVIOUS
<1> HIDE DEF a, b, c, S
<1>6. \A q \in 1..Len(b) : c[Len(a) + q] = b[q]
  BY <1>1, <1>2, <1>3
<1>7. Len(c) = Len(a) + Len(b) /\ \A q \in 1..Len(a) : c[q] = a[q]
  BY <1>1, <1>2, <1>4, <1>5
<1>8. c = a \o b
  BY ONLY <1>1, <1>2, <1>6, <1>7, ConcatIs
<1> QED
  BY <1>8 DEF a, b, c

LEMMA FlattenPairs ==
    ASSUME NEW u, NEW v, NEW n \in Nat
    PROVE  FlattenSeq([j \in 1..n |-> <<u, v[j]>>]) = Pairs(u, v, n)
<1> DEFINE ss == [j \in 1..n |-> <<u, v[j]>>]
           f == [i \in 1..n |-> Pairs(u, v, i)]
<1>1. Len(ss) = n
  OBVIOUS
<1>2. CASE n = 0
  <2>1. ss = <<>> /\ Pairs(u, v, n) = <<>>
    BY <1>2 DEF Pairs
  <2> QED
    BY <2>1, FlattenNone
<1>3. CASE n # 0
  <2>1. Pairs(u, v, 0) = <<>>
    BY DEF Pairs
  <2>2. ASSUME NEW i \in 1..n
        PROVE  f[i] = IF i = 1 THEN ss[i] ELSE f[i - 1] \o ss[i]
    <3>1. Pairs(u, v, i) = Pairs(u, v, i - 1) \o <<u, v[i]>>
      <4>1. i \in Nat /\ i >= 1
        OBVIOUS
      <4> QED
        BY ONLY <4>1, PairsNext
    <3>2. CASE i = 1
      <4>1. i - 1 = 0 /\ <<>> \o <<u, v[i]>> = <<u, v[i]>>
        BY <3>2
      <4> QED
        BY <2>1, <3>1, <3>2, <4>1
    <3>3. CASE i # 1
      <4>1. i - 1 \in 1..n
        BY <3>3
      <4> QED
        BY <3>1, <3>3, <4>1
    <3> QED
      BY <3>2, <3>3
  <2>3. Flattens(f, ss)
    <3>1. f = [i \in 1..n |-> IF i = 1 THEN ss[i] ELSE f[i - 1] \o ss[i]]
      BY <2>2
    <3> QED
      BY <1>1, <3>1 DEF Flattens
  <2>4. f[n] = Pairs(u, v, n)
    BY <1>3
  <2> HIDE DEF ss, f
  <2> QED
    BY <1>1, <1>3, <2>3, <2>4, FlattenIs DEF ss
<1> QED
  BY <1>2, <1>3

\* Pieces of three elements: an element of w twice, and one of v.
Triples(w, v, n) ==
    [q \in 1..(3 * n) |-> IF q % 3 = 0 THEN v[q \div 3] ELSE w[(q + 2) \div 3]]

LEMMA TriplesNext ==
    ASSUME NEW w, NEW v, NEW n \in Nat, n >= 1
    PROVE  Triples(w, v, n) = Triples(w, v, n - 1) \o <<w[n], w[n], v[n]>>
<1> DEFINE a == Triples(w, v, n - 1)
           b == <<w[n], w[n], v[n]>>
           c == Triples(w, v, n)
           S == {w[i] : i \in Nat} \cup {v[i] : i \in Nat}
<1>0. /\ \A q \in Nat : q \div 3 \in Nat /\ (q + 2) \div 3 \in Nat
      /\ 3 * (n - 1) \in Nat /\ 3 * n \in Nat
  OBVIOUS
<1>1. a \in Seq(S) /\ Len(a) = 3 * (n - 1) /\ c \in Seq(S) /\ Len(c) = 3 * n
  <2>1. ASSUME NEW q \in Nat
        PROVE (IF q % 3 = 0 THEN v[q \div 3] ELSE w[(q + 2) \div 3]) \in S
    BY <1>0
  <2> HIDE DEF S
  <2> QED
    BY <1>0, <2>1 DEF Triples
<1>2. b \in Seq(S) /\ Len(b) = 3 /\ b[1] = w[n] /\ b[2] = w[n] /\ b[3] = v[n]
  OBVIOUS
<1>3. /\ c[3 * (n - 1) + 1] = w[n] /\ c[3 * (n - 1) + 2] = w[n]
      /\ c[3 * (n - 1) + 3] = v[n]
  BY DEF Triples
<1>4. \A q \in 1..(3 * (n - 1)) : c[q] = a[q]
  BY DEF Triples
<1>5. 3 * n = 3 * (n - 1) + 3
  OBVIOUS
<1> HIDE DEF a, b, c, S
<1>6. ASSUME NEW q \in 1..Len(b) PROVE c[Len(a) + q] = b[q]
  <2>1. q = 1 \/ q = 2 \/ q = 3
    BY <1>2
  <2> QED
    BY <1>1, <1>2, <1>3, <2>1
<1>7. Len(c) = Len(a) + Len(b) /\ \A q \in 1..Len(a) : c[q] = a[q]
  BY <1>1, <1>2, <1>4, <1>5
<1>8. c = a \o b
  BY ONLY <1>1, <1>2, <1>6, <1>7, ConcatIs
<1> QED
  BY <1>8 DEF a, b, c

LEMMA FlattenTriples ==
    ASSUME NEW w, NEW v, NEW n \in Nat
    PROVE  FlattenSeq([j \in 1..n |-> <<w[j], w[j], v[j]>>]) = Triples(w, v, n)
<1> DEFINE ss == [j \in 1..n |-> <<w[j], w[j], v[j]>>]
           f == [i \in 1..n |-> Triples(w, v, i)]
<1>1. Len(ss) = n
  OBVIOUS
<1>2. CASE n = 0
  <2>1. ss = <<>> /\ Triples(w, v, n) = <<>>
    BY <1>2 DEF Triples
  <2> QED
    BY <2>1, FlattenNone
<1>3. CASE n # 0
  <2>1. Triples(w, v, 0) = <<>>
    BY DEF Triples
  <2>2. ASSUME NEW i \in 1..n
        PROVE  f[i] = IF i = 1 THEN ss[i] ELSE f[i - 1] \o ss[i]
    <3>1. Triples(w, v, i) = Triples(w, v, i - 1) \o <<w[i], w[i], v[i]>>
      <4>1. i \in Nat /\ i >= 1
        OBVIOUS
      <4> QED
        BY ONLY <4>1, TriplesNext
    <3>2. CASE i = 1
      <4>1. i - 1 = 0 /\ <<>> \o <<w[i], w[i], v[i]>> = <<w[i], w[i], v[i]>>
        BY <3>2
      <4> QED
        BY <2>1, <3>1, <3>2, <4>1
    <3>3. CASE i # 1
      <4>1. i - 1 \in 1..n
        BY <3>3
      <4> QED
        BY <3>1, <3>3, <4>1
    <3> QED
      BY <3>2, <3>3
  <2>3. Flattens(f, ss)
    <3>1. f = [i \in 1..n |-> IF i = 1 THEN ss[i] ELSE f[i - 1] \o ss[i]]
      BY <2>2
    <3> QED
      BY <1>1, <3>1 DEF Flattens
  <2>4. f[n] = Triples(w, v, n)
    BY <1>3
  <2> HIDE DEF ss, f
  <2> QED
    BY <1>1, <1>3, <2>3, <2>4, FlattenIs DEF ss
<1> QED
  BY <1>2, <1>3

LEMMA SubSeqJoin ==
    ASSUME NEW S, NEW p \in Seq(S), NEW a \in 0..Len(p), NEW b \in a..Len(p)
    PROVE  SubSeq(p, 1, b) = SubSeq(p, 1, a) \o SubSeq(p, a + 1, b)
<1> DEFINE x == SubSeq(p, 1, a)
           y == SubSeq(p, a + 1, b)
           z == SubSeq(p, 1, b)
<1>1. x \in Seq(S) /\ Len(x) = a /\ \A q \in 1..a : x[q] = p[q]
  OBVIOUS
<1>2. y \in Seq(S) /\ Len(y) = b - a /\ \A q \in 1..(b - a) : y[q] = p[a + q]
  OBVIOUS
<1>3. z \in Seq(S) /\ Len(z) = b /\ \A q \in 1..b : z[q] = p[q]
  OBVIOUS
<1> HIDE DEF x, y, z
<1>4. \A q \in 1..Len(x) : z[q] = x[q]
  BY <1>1, <1>3
<1>5. ASSUME NEW q \in 1..Len(y) PROVE z[Len(x) + q] = y[q]
  <2>1. q \in 1..(b - a) /\ a + q \in 1..b
    BY <1>2
  <2> QED
    BY <1>1, <1>2, <1>3, <2>1
<1>6. Len(z) = Len(x) + Len(y)
  BY <1>1, <1>2, <1>3
<1>7. z = x \o y
  BY ONLY <1>1, <1>2, <1>3, <1>4, <1>5, <1>6, ConcatIs
<1> QED
  BY <1>7 DEF x, y, z

\* How many pieces there are, and where they end.
LEMMA CountPieces ==
    ASSUME NEW L \in Nat, NEW C \in Nat \ {0}, NEW n, n = (L + C - 1) \div C
    PROVE  /\ n \in Nat /\ (n = 0 <=> L = 0)
           /\ \A j \in 0..(n - 1) : j * C \in 0..L
<1>1. n \in Int /\ n * C <= L + C - 1 /\ L + C - 1 < n * C + C
  OBVIOUS
<1>2. n \in Nat
  OBVIOUS
<1>3. L = 0 => n = 0
  OBVIOUS
<1>4. n = 0 => L = 0
  BY <1>1
<1>5. ASSUME NEW j \in 0..(n - 1) PROVE j * C \in 0..L
  <2>1. j \in Nat /\ j + 1 <= n
    BY <1>2
  <2>2. (n - (j + 1)) * C >= 0
    BY <1>2, <2>1
  <2>3. (n - (j + 1)) * C = n * C - j * C - C
    BY <1>2, <2>1
  <2>4. j * C \in Nat /\ n * C \in Nat
    BY <1>2, <2>1
  <2> QED
    BY <1>1, <2>2, <2>3, <2>4
<1> QED
  BY <1>2, <1>3, <1>4, <1>5

-----------------------------------------------------------------------------
(* Frames: what is written at a place is read from it                      *)

LEMMA VecIsSeq ==
    ASSUME NEW s, IsVec(s)
    PROVE  s \in Seq({s[j] : j \in 1..Len(s)}) /\ DOMAIN s = 1..Len(s)
<1> DEFINE S == {s[j] : j \in 1..Len(s)}
<1>1. \A j \in 1..Len(s) : s[j] \in S
  OBVIOUS
<1> HIDE DEF S
<1>2. s \in Seq(S)
  BY <1>1 DEF IsVec
<1> QED
  BY <1>2 DEF S, IsVec

LEMMA SeqIsVec ==
    ASSUME NEW S, NEW s \in Seq(S)
    PROVE  IsVec(s)
  BY DEF IsVec

LEMMA ConcatVec ==
    ASSUME NEW a, NEW b, IsVec(a), IsVec(b)
    PROVE  /\ IsVec(a \o b) /\ Len(a \o b) = Len(a) + Len(b)
           /\ \A q \in 1..Len(a) : (a \o b)[q] = a[q]
           /\ \A q \in 1..Len(b) : (a \o b)[Len(a) + q] = b[q]
<1> DEFINE A == {a[j] : j \in 1..Len(a)}
           B == {b[j] : j \in 1..Len(b)}
           S == A \cup B
<1>1. a \in Seq(A) /\ b \in Seq(B)
  BY VecIsSeq
<1> HIDE DEF A, B
<1>2. a \in Seq(S) /\ b \in Seq(S)
  BY <1>1
<1> HIDE DEF S
<1>3. a \o b \in Seq(S) /\ Len(a \o b) = Len(a) + Len(b)
  BY <1>2
<1>4. \A q \in 1..Len(a) : (a \o b)[q] = a[q]
  BY <1>2
<1>5. ASSUME NEW q \in 1..Len(b) PROVE (a \o b)[Len(a) + q] = b[q]
  BY <1>2
<1> QED
  BY <1>3, <1>4, <1>5, SeqIsVec

\* Frame t has x at position i.
Holds(t, i, x) == \A q \in 1..Len(x) : t[i + q - 1] = x[q]

LEMMA HoldsParts ==
    ASSUME NEW t, NEW i \in Nat, NEW a, NEW b, IsVec(a), IsVec(b),
           Holds(t, i, a \o b)
    PROVE  Holds(t, i, a) /\ Holds(t, i + Len(a), b)
<1>0. Len(a) \in Nat /\ Len(b) \in Nat
  BY DEF IsVec
<1>1. ASSUME NEW q \in 1..Len(a) PROVE t[i + q - 1] = a[q]
  <2>1. q \in 1..Len(a \o b) /\ (a \o b)[q] = a[q]
    BY <1>0, ConcatVec
  <2> QED
    BY <2>1 DEF Holds
<1>2. ASSUME NEW q \in 1..Len(b) PROVE t[i + Len(a) + q - 1] = b[q]
  <2>1. Len(a) + q \in 1..Len(a \o b) /\ (a \o b)[Len(a) + q] = b[q]
    BY <1>0, ConcatVec
  <2>2. t[i + (Len(a) + q) - 1] = b[q]
    BY <2>1 DEF Holds
  <2>3. i + (Len(a) + q) - 1 = i + Len(a) + q - 1
    BY <1>0
  <2> QED
    BY <2>2, <2>3
<1> QED
  BY <1>1, <1>2 DEF Holds

LEMMA HoldsItself ==
    ASSUME NEW t, IsVec(t)
    PROVE  Holds(t, 1, t)
<1> SUFFICES ASSUME NEW q \in 1..Len(t) PROVE t[1 + q - 1] = t[q]
  BY DEF Holds
<1>1. 1 + q - 1 = q
  BY DEF IsVec
<1> QED
  BY <1>1

LEMMA Holds1 ==
    ASSUME NEW t, NEW i \in Nat, NEW a, Holds(t, i, <<a>>)
    PROVE  t[i] = a
<1>1. t[i + 1 - 1] = a
  BY DEF Holds
<1>2. i + 1 - 1 = i
  OBVIOUS
<1> QED
  BY <1>1, <1>2

LEMMA Holds2 ==
    ASSUME NEW t, NEW i \in Nat, NEW a, NEW b, Holds(t, i, <<a, b>>)
    PROVE  t[i] = a /\ t[i + 1] = b
<1>1. t[i + 1 - 1] = a /\ t[i + 2 - 1] = b
  BY DEF Holds
<1>2. i + 1 - 1 = i /\ i + 2 - 1 = i + 1
  OBVIOUS
<1> QED
  BY <1>1, <1>2

LEMMA Holds3 ==
    ASSUME NEW t, NEW i \in Nat, NEW a, NEW b, NEW c, Holds(t, i, <<a, b, c>>)
    PROVE  t[i] = a /\ t[i + 1] = b /\ t[i + 2] = c
<1>1. t[i + 1 - 1] = a /\ t[i + 2 - 1] = b /\ t[i + 3 - 1] = c
  BY DEF Holds
<1>2. i + 1 - 1 = i /\ i + 2 - 1 = i + 1 /\ i + 3 - 1 = i + 2
  OBVIOUS
<1> QED
  BY <1>1, <1>2

LEMMA TupleVec ==
    ASSUME NEW a, NEW b, NEW c
    PROVE  /\ IsVec(<<>>) /\ Len(<<>>) = 0
           /\ IsVec(<<a>>) /\ Len(<<a>>) = 1
           /\ IsVec(<<a, b>>) /\ Len(<<a, b>>) = 2
           /\ IsVec(<<a, b, c>>) /\ Len(<<a, b, c>>) = 3
  BY DEF IsVec

-----------------------------------------------------------------------------
(* Lists of keys                                                           *)

LEMMA CountRange ==
    ASSUME NEW n \in Nat
    PROVE  u16(n) \in 0..n
<1> DEFINE d == 2^CountBits
<1>1. d \in Nat \ {0}
  BY WireAssumption
<1> HIDE DEF d
<1>2. n % d \in 0..n
  BY <1>1
<1> QED
  BY <1>2 DEF u16, d

LEMMA KeysShape ==
    ASSUME NEW keys, IsVec(keys)
    PROVE  /\ encode_keys(keys) = <<u16(Len(keys))>> \o Pairs(KeyLen, keys, Len(keys))
           /\ IsVec(Pairs(KeyLen, keys, Len(keys)))
           /\ Len(Pairs(KeyLen, keys, Len(keys))) = 2 * Len(keys)
           /\ IsVec(encode_keys(keys))
<1> DEFINE n == Len(keys)
           p == Pairs(KeyLen, keys, n)
<1>0. n \in Nat /\ DOMAIN keys = 1..n
  BY VecIsSeq DEF IsVec
<1>1. FlattenSeq([j \in 1..n |-> <<KeyLen, keys[j]>>]) = p
  BY <1>0, FlattenPairs
<1>2. encode_keys(keys) = <<u16(n)>> \o p
  BY <1>0, <1>1 DEF encode_keys, encode_buffer
<1>3. IsVec(p) /\ Len(p) = 2 * n
  BY <1>0 DEF Pairs, IsVec
<1> HIDE DEF p
<1>4. IsVec(encode_keys(keys))
  BY <1>2, <1>3, ConcatVec, TupleVec
<1> QED
  BY <1>2, <1>3, <1>4 DEF p

LEMMA KeysBack ==
    ASSUME NEW t, NEW i \in Nat, NEW keys, IsVec(keys),
           Holds(t, i, encode_keys(keys))
    PROVE  decode_keys(t, i) = SubSeq(keys, 1, u16(Len(keys)))
<1> DEFINE n == Len(keys)
           p == Pairs(KeyLen, keys, n)
<1>0. n \in Nat /\ u16(n) \in 0..n
  BY CountRange DEF IsVec
<1>1. IsVec(<<u16(n)>>) /\ Len(<<u16(n)>>) = 1 /\ IsVec(p) /\ Len(p) = 2 * n
  BY KeysShape, TupleVec
<1>2. Holds(t, i, <<u16(n)>> \o p)
  BY KeysShape
<1> HIDE DEF p
<1>3. Holds(t, i, <<u16(n)>>) /\ Holds(t, i + 1, p)
  BY <1>1, <1>2, HoldsParts
<1>4. t[i] = u16(n)
  BY <1>3, Holds1
<1>5. ASSUME NEW j \in 1..n PROVE t[i + 2 * j - 1 + 1] = keys[j]
  <2>1. 2 * j \in 1..(2 * n) /\ (2 * j) % 2 = 0 /\ (2 * j) \div 2 = j
    BY <1>0
  <2>2. p[2 * j] = keys[j]
    BY <2>1 DEF p, Pairs
  <2>3. t[i + 1 + 2 * j - 1] = p[2 * j]
    BY <1>1, <1>3, <2>1 DEF Holds
  <2>4. i + 1 + 2 * j - 1 = i + 2 * j - 1 + 1
    OBVIOUS
  <2> QED
    BY <2>2, <2>3, <2>4
<1>6. decode_keys(t, i) = [j \in 1..u16(n) |-> keys[j]]
  <2>1. \A j \in 1..u16(n) : j \in 1..n
    BY <1>0
  <2>2. \A j \in 1..u16(n) : t[i + 2 * j - 1 + 1] = keys[j]
    BY <1>5, <2>1
  <2> QED
    BY <1>4, <2>2 DEF decode_keys, decode_buffer
<1>7. SubSeq(keys, 1, u16(n)) = [j \in 1..u16(n) |-> keys[j]]
  <2> DEFINE m == u16(n)
             S == {keys[j] : j \in 1..n}
  <2>1. keys \in Seq(S)
    BY VecIsSeq
  <2> HIDE DEF m, S
  <2>2. m \in 0..n
    BY <1>0 DEF m
  <2>3. SubSeq(keys, 1, m) = [j \in 1..m |-> keys[j]]
    BY <1>0, <2>1, <2>2
  <2> QED
    BY <2>3 DEF m
<1> QED
  BY <1>6, <1>7

-----------------------------------------------------------------------------
(* Sets written as lists                                                   *)

LEMMA ListOfSet ==
    ASSUME NEW S, IsFiniteSet(S)
    PROVE  /\ SetToSeq(S) \in [1..Cardinality(S) -> S]
           /\ IsVec(SetToSeq(S)) /\ Len(SetToSeq(S)) = Cardinality(S)
           /\ S = {SetToSeq(S)[j] : j \in 1..Cardinality(S)}
<1> DEFINE n == Cardinality(S)
           s == SetToSeq(S)
<1>1. n \in Nat /\ ExistsBijection(1..n, S)
  BY FS_CardinalityType
<1>2. PICK f : f \in Bijection(1..n, S)
  BY <1>1 DEF ExistsBijection
<1>3. f \in [1..n -> S] /\ IsInjective(f)
  BY <1>2 DEF Bijection, Injection
<1>4. s \in [1..n -> S] /\ IsInjective(s)
  BY <1>3 DEF SetToSeq
<1> HIDE DEF s
<1>5. s \in Injection(1..n, S)
  BY <1>4 DEF Injection
<1>6. IsFiniteSet(1..n) /\ Cardinality(1..n) = n
  BY <1>1, FS_Interval
<1>7. s \in Surjection(1..n, S)
  BY <1>5, <1>6, FS_Injection
<1>8. \A x \in S : \E j \in 1..n : s[j] = x
  BY <1>7 DEF Surjection
<1> HIDE DEF n
<1>9. IsVec(s) /\ Len(s) = n
  BY <1>1, <1>4 DEF IsVec
<1> QED
  BY <1>4, <1>8, <1>9 DEF s, n

LEMMA ListOfNone == SetToSeq({}) = <<>>
<1>1. IsFiniteSet({}) /\ Cardinality({}) = 0
  BY FS_EmptySet
<1>2. IsVec(SetToSeq({})) /\ Len(SetToSeq({})) = 0
  BY <1>1, ListOfSet
<1> QED
  BY <1>2 DEF IsVec

LEMMA ListOfOne ==
    ASSUME NEW x
    PROVE  SetToSeq({x}) = <<x>>
<1> DEFINE s == SetToSeq({x})
<1>1. IsFiniteSet({x}) /\ Cardinality({x}) = 1
  BY FS_Singleton
<1>2. IsVec(s) /\ Len(s) = 1 /\ s \in [1..1 -> {x}]
  BY <1>1, ListOfSet
<1> HIDE DEF s
<1>3. s[1] = x
  BY <1>2
<1>4. s = [j \in 1..1 |-> s[j]]
  BY <1>2 DEF IsVec
<1> QED
  BY <1>3, <1>4 DEF s

-----------------------------------------------------------------------------
(* Messages of the server channel                                          *)

LEMMA ServerIdBack ==
    ASSUME NEW type \in DOMAIN ServerId
    PROVE  (CHOOSE k \in DOMAIN ServerId : ServerId[k] = ServerId[type]) = type
<1>1. \A k \in DOMAIN ServerId : ServerId[k] = ServerId[type] => k = type
  BY DEF ServerId
<1> HIDE DEF ServerId
<1> QED
  BY <1>1

LEMMA ServerTypes ==
    /\ WithState \subseteq DOMAIN ServerId /\ WithId \subseteq DOMAIN ServerId
    /\ {"NewSession", "SessionConnection", "JoinMeeting", "NewMeeting", "Error"}
           \subseteq DOMAIN ServerId
    /\ WithState \cap WithId = {}
    /\ {"NewSession", "SessionConnection", "JoinMeeting", "NewMeeting", "Error"}
           \cap (WithState \cup WithId) = {}
  BY DEF ServerId, WithState, WithId

\* Whatever follows the identifier of a message, it is read from place 2.
LEMMA ServerFrame ==
    ASSUME NEW id, NEW body, IsVec(body)
    PROVE  /\ IsVec(<<id>> \o body)
           /\ (<<id>> \o body)[1] = id
           /\ Holds(<<id>> \o body, 2, body)
<1> DEFINE t == <<id>> \o body
<1>1. IsVec(<<id>>) /\ Len(<<id>>) = 1
  BY TupleVec
<1>2. IsVec(t)
  BY <1>1, ConcatVec
<1>3. Holds(t, 1, t)
  BY <1>2, HoldsItself
<1>4. Holds(t, 1, <<id>>) /\ Holds(t, 1 + 1, body)
  BY <1>1, <1>3, HoldsParts
<1> HIDE DEF t
<1>5. t[1] = id
  BY <1>4, Holds1
<1> QED
  BY <1>2, <1>4, <1>5 DEF t

\* The relay decodes what the client encoded, except for the keys that do not
\* fit the count.
THEOREM ServerMessageBack ==
    ASSUME NEW m, IsServerMessage(m)
    PROVE  /\ IsVec(encode_server(m))
           /\ decode_server(encode_server(m)) = Received(m)
<1> DEFINE t == encode_server(m)
           type == CHOOSE k \in DOMAIN ServerId : ServerId[k] = t[1]
<1>0. ASSUME NEW body, IsVec(body), m.type \in DOMAIN ServerId,
             t = <<ServerId[m.type]>> \o body
      PROVE  IsVec(t) /\ Holds(t, 2, body) /\ type = m.type
  <2>1. IsVec(t) /\ Holds(t, 2, body) /\ t[1] = ServerId[m.type]
    BY <1>0, ServerFrame
  <2> HIDE DEF t
  <2>2. type = m.type
    BY <1>0, <2>1, ServerIdBack
  <2> QED
    BY <2>1, <2>2
<1>1. CASE /\ m.type \in WithState
           /\ m = [type |-> m.type, id |-> m.id, keys |-> m.keys]
           /\ IsVec(m.keys)
  <2> DEFINE body == <<m.id>> \o encode_keys(m.keys)
  <2>1. t = <<ServerId[m.type]>> \o body
    BY <1>1, ServerTypes DEF encode_server
  <2>2. IsVec(<<m.id>>) /\ Len(<<m.id>>) = 1 /\ IsVec(encode_keys(m.keys))
    BY <1>1, TupleVec, KeysShape
  <2>3. IsVec(body)
    BY <2>2, ConcatVec
  <2>4. IsVec(t) /\ Holds(t, 2, body) /\ type = m.type
    BY <1>0, <1>1, <2>1, <2>3, ServerTypes
  <2> HIDE DEF t
  <2>5. Holds(t, 2, <<m.id>>) /\ Holds(t, 2 + 1, encode_keys(m.keys))
    BY <2>2, <2>4, HoldsParts
  <2>6. t[2] = m.id /\ decode_keys(t, 3) = SubSeq(m.keys, 1, u16(Len(m.keys)))
    BY <1>1, <2>5, Holds1, KeysBack
  <2>7. decode_server(t) = [type |-> m.type, id |-> m.id,
                            keys |-> SubSeq(m.keys, 1, u16(Len(m.keys)))]
    BY <1>1, <2>4, <2>6, ServerTypes DEF decode_server
  <2>8. Received(m) = [type |-> m.type, id |-> m.id,
                       keys |-> SubSeq(m.keys, 1, u16(Len(m.keys)))]
    BY <1>1 DEF Received
  <2> QED
    BY <2>4, <2>7, <2>8 DEF t
<1>2. CASE m.type \in WithId /\ m = [type |-> m.type, id |-> m.id]
  <2>1. t = <<ServerId[m.type]>> \o <<m.id>> /\ IsVec(<<m.id>>)
    BY <1>2, ServerTypes, TupleVec DEF encode_server
  <2>2. IsVec(t) /\ Holds(t, 2, <<m.id>>) /\ type = m.type
    BY <1>0, <1>2, <2>1, ServerTypes
  <2> HIDE DEF t
  <2>3. t[2] = m.id
    BY <2>2, Holds1
  <2>4. decode_server(t) = [type |-> m.type, id |-> m.id]
    BY <1>2, <2>2, <2>3, ServerTypes DEF decode_server
  <2>5. Received(m) = m
    BY <1>2 DEF Received
  <2> QED
    BY <1>2, <2>2, <2>4, <2>5 DEF t
<1>3. CASE /\ m.type = "NewSession"
           /\ m = [type |-> m.type, keys |-> m.keys] /\ IsVec(m.keys)
  <2>1. t = <<ServerId[m.type]>> \o encode_keys(m.keys)
    BY <1>3, ServerTypes DEF encode_server
  <2>2. IsVec(encode_keys(m.keys))
    BY <1>3, KeysShape
  <2>3. IsVec(t) /\ Holds(t, 2, encode_keys(m.keys)) /\ type = m.type
    BY <1>0, <1>3, <2>1, <2>2, ServerTypes
  <2> HIDE DEF t
  <2>4. decode_keys(t, 2) = SubSeq(m.keys, 1, u16(Len(m.keys)))
    BY <1>3, <2>3, KeysBack
  <2>5. decode_server(t) = [type |-> m.type,
                            keys |-> SubSeq(m.keys, 1, u16(Len(m.keys)))]
    BY <1>3, <2>3, <2>4, ServerTypes DEF decode_server
  <2>6. Received(m) = [type |-> m.type,
                       keys |-> SubSeq(m.keys, 1, u16(Len(m.keys)))]
    BY <1>3 DEF Received
  <2> QED
    BY <2>3, <2>5, <2>6 DEF t
<1>4. CASE /\ m.type = "SessionConnection"
           /\ m = [type |-> m.type, id |-> m.id, key |-> m.key]
  <2> DEFINE body == <<m.id>> \o <<KeyLen, m.key>>
  <2>1. t = <<ServerId[m.type]>> \o body
    BY <1>4, ServerTypes DEF encode_server, encode_buffer
  <2>2. IsVec(<<m.id>>) /\ Len(<<m.id>>) = 1 /\ IsVec(<<KeyLen, m.key>>)
    BY TupleVec
  <2>3. IsVec(body)
    BY <2>2, ConcatVec
  <2>4. IsVec(t) /\ Holds(t, 2, body) /\ type = m.type
    BY <1>0, <1>4, <2>1, <2>3, ServerTypes
  <2> HIDE DEF t
  <2>5. Holds(t, 2, <<m.id>>) /\ Holds(t, 2 + 1, <<KeyLen, m.key>>)
    BY <2>2, <2>4, HoldsParts
  <2>6. t[2] = m.id /\ t[3 + 1] = m.key
    BY <2>5, Holds1, Holds2
  <2>7. decode_server(t) = [type |-> m.type, id |-> m.id, key |-> m.key]
    BY <1>4, <2>4, <2>6, ServerTypes DEF decode_server, decode_buffer
  <2>8. Received(m) = m
    BY <1>4 DEF Received
  <2> QED
    BY <1>4, <2>4, <2>7, <2>8 DEF t
<1>5. CASE /\ m.type = "JoinMeeting"
           /\ m = [type |-> m.type, id |-> m.id, user |-> m.user]
  <2>1. t = <<ServerId[m.type]>> \o <<m.id, m.user>> /\ IsVec(<<m.id, m.user>>)
    BY <1>5, ServerTypes, TupleVec DEF encode_server
  <2>2. IsVec(t) /\ Holds(t, 2, <<m.id, m.user>>) /\ type = m.type
    BY <1>0, <1>5, <2>1, ServerTypes
  <2> HIDE DEF t
  <2>3. t[2] = m.id /\ t[3] = m.user
    BY <2>2, Holds2
  <2>4. decode_server(t) = [type |-> m.type, id |-> m.id, user |-> m.user]
    BY <1>5, <2>2, <2>3, ServerTypes DEF decode_server
  <2>5. Received(m) = m
    BY <1>5 DEF Received
  <2> QED
    BY <1>5, <2>2, <2>4, <2>5 DEF t
<1>6. CASE /\ m.type = "NewMeeting"
           /\ m = [type |-> m.type, user |-> m.user, slots |-> m.slots]
           /\ IsFiniteSet(m.slots)
  <2> DEFINE n == Cardinality(m.slots)
             list == SetToSeq(m.slots)
             body == <<m.user, n>> \o list
  <2>1. t = <<ServerId[m.type]>> \o body
    BY <1>6, ServerTypes DEF encode_server
  <2>2. /\ IsVec(list) /\ Len(list) = n /\ n \in Nat
        /\ m.slots = {list[j] : j \in 1..n}
    BY <1>6, ListOfSet, FS_CardinalityType
  <2> HIDE DEF list, n
  <2>3. IsVec(<<m.user, n>>) /\ Len(<<m.user, n>>) = 2
    BY TupleVec
  <2>4. IsVec(body)
    BY <2>2, <2>3, ConcatVec
  <2>5. IsVec(t) /\ Holds(t, 2, body) /\ type = m.type
    BY <1>0, <1>6, <2>1, <2>4, ServerTypes
  <2> HIDE DEF t
  <2>6. Holds(t, 2, <<m.user, n>>) /\ Holds(t, 2 + 2, list)
    BY <2>2, <2>3, <2>5, HoldsParts
  <2>7. t[2] = m.user /\ t[3] = n
    BY <2>6, Holds2
  <2>8. \A j \in 1..n : t[3 + j] = list[j]
    <3> SUFFICES ASSUME NEW j \in 1..n PROVE t[3 + j] = list[j]
      OBVIOUS
    <3>1. t[4 + j - 1] = list[j] /\ 4 + j - 1 = 3 + j
      BY <2>2, <2>6 DEF Holds
    <3> QED
      BY <3>1
  <2>9. {t[3 + j] : j \in 1..n} = m.slots
    BY <2>2, <2>8
  <2>10. decode_server(t) = [type |-> m.type, user |-> m.user, slots |-> m.slots]
    BY <1>6, <2>5, <2>7, <2>9, ServerTypes DEF decode_server
  <2>11. Received(m) = m
    BY <1>6 DEF Received
  <2> QED
    BY <1>6, <2>5, <2>10, <2>11 DEF t
<1>7. CASE /\ m.type = "Error"
           /\ m = [type |-> m.type, code |-> m.code, text |-> m.text]
  <2>1. t = <<ServerId[m.type]>> \o <<m.code, m.text>> /\ IsVec(<<m.code, m.text>>)
    BY <1>7, ServerTypes, TupleVec DEF encode_server
  <2>2. IsVec(t) /\ Holds(t, 2, <<m.code, m.text>>) /\ type = m.type
    BY <1>0, <1>7, <2>1, ServerTypes
  <2> HIDE DEF t
  <2>3. t[2] = m.code /\ t[3] = m.text
    BY <2>2, Holds2
  <2>4. decode_server(t) = [type |-> m.type, code |-> m.code, text |-> m.text]
    BY <1>7, <2>2, <2>3, ServerTypes DEF decode_server
  <2>5. Received(m) = m
    BY <1>7 DEF Received
  <2> QED
    BY <1>7, <2>2, <2>4, <2>5 DEF t
<1> QED
  BY <1>1, <1>2, <1>3, <1>4, <1>5, <1>6, <1>7 DEF IsServerMessage

-----------------------------------------------------------------------------
(* Envelopes                                                               *)

LEMMA EncodingBack ==
    ASSUME NEW e \in DOMAIN EncodingId
    PROVE  (CHOOSE k \in DOMAIN EncodingId : EncodingId[k] = EncodingId[e]) = e
<1>1. \A k \in DOMAIN EncodingId : EncodingId[k] = EncodingId[e] => k = e
  BY DEF EncodingId
<1> HIDE DEF EncodingId
<1> QED
  BY <1>1

LEMMA SideBack ==
    ASSUME NEW e \in DOMAIN HandshakeId
    PROVE  (CHOOSE k \in DOMAIN HandshakeId : HandshakeId[k] = HandshakeId[e]) = e
<1>1. \A k \in DOMAIN HandshakeId : HandshakeId[k] = HandshakeId[e] => k = e
  BY DEF HandshakeId
<1> HIDE DEF HandshakeId
<1> QED
  BY <1>1

LEMMA TransparentBack ==
    ASSUME NEW e \in DOMAIN TransparentId
    PROVE  (CHOOSE k \in DOMAIN TransparentId : TransparentId[k] = TransparentId[e]) = e
<1>1. \A k \in DOMAIN TransparentId : TransparentId[k] = TransparentId[e] => k = e
  BY DEF TransparentId
<1> HIDE DEF TransparentId
<1> QED
  BY <1>1

LEMMA EnvelopeShape ==
    ASSUME NEW e, IsEnvelope(e)
    PROVE  LET n == Len(e.chunks)
               w == [j \in 1..n |-> e.chunks[j].length]
               v == [j \in 1..n |-> e.chunks[j].contents]
               p == Triples(w, v, n)
           IN /\ n \in Nat
              /\ encode_envelope(e) =
                     <<EncodingId[e.encoding], e.broadcast, n>> \o p
              /\ IsVec(p) /\ Len(p) = 3 * n
              /\ IsVec(encode_envelope(e))
<1> DEFINE n == Len(e.chunks)
           w == [j \in 1..n |-> e.chunks[j].length]
           v == [j \in 1..n |-> e.chunks[j].contents]
           p == Triples(w, v, n)
<1>0. n \in Nat /\ DOMAIN e.chunks = 1..n
  BY VecIsSeq DEF IsEnvelope, IsVec
<1>1. FlattenSeq([j \in 1..n |-> <<w[j], w[j], v[j]>>]) = p
  <2> HIDE DEF w, v, n
  <2> QED
    BY <1>0, FlattenTriples
<1>2. [j \in 1..n |-> <<e.chunks[j].length>>
                          \o <<e.chunks[j].length, e.chunks[j].contents>>]
      = [j \in 1..n |-> <<w[j], w[j], v[j]>>]
  <2>1. ASSUME NEW a, NEW b PROVE <<a>> \o <<a, b>> = <<a, a, b>>
    <3> DEFINE x == <<a>>
               y == <<a, b>>
               z == <<a, a, b>>
               S == {a, b}
    <3>1. /\ x \in Seq(S) /\ y \in Seq(S) /\ z \in Seq(S)
          /\ Len(x) = 1 /\ Len(y) = 2 /\ Len(z) = 3
          /\ z[1] = x[1] /\ z[2] = y[1] /\ z[3] = y[2]
      OBVIOUS
    <3> HIDE DEF x, y, z, S
    <3>2. ASSUME NEW q \in 1..Len(y) PROVE z[Len(x) + q] = y[q]
      <4>1. q = 1 \/ q = 2
        BY <3>1
      <4> QED
        BY <3>1, <4>1
    <3>3. \A q \in 1..Len(x) : z[q] = x[q]
      BY <3>1
    <3>4. Len(z) = Len(x) + Len(y)
      BY <3>1
    <3>5. z = x \o y
      BY ONLY <3>1, <3>2, <3>3, <3>4, ConcatIs
    <3> QED
      BY <3>5 DEF x, y, z
  <2> QED
    BY <2>1
<1>3. encode_envelope(e) = <<EncodingId[e.encoding], e.broadcast, n>> \o p
  BY <1>0, <1>1, <1>2 DEF encode_envelope, encode_buffer
<1>4. IsVec(p) /\ Len(p) = 3 * n
  <2> HIDE DEF w, v, n
  <2> QED
    BY <1>0 DEF Triples, IsVec
<1> HIDE DEF p
<1>5. IsVec(encode_envelope(e))
  BY <1>3, <1>4, ConcatVec, TupleVec
<1> QED
  BY <1>0, <1>3, <1>4, <1>5 DEF p

LEMMA EnvelopeBack ==
    ASSUME NEW t, NEW i \in Nat, NEW e, IsEnvelope(e),
           Holds(t, i, encode_envelope(e))
    PROVE  decode_envelope(t, i) = e
<1> DEFINE n == Len(e.chunks)
           w == [j \in 1..n |-> e.chunks[j].length]
           v == [j \in 1..n |-> e.chunks[j].contents]
           p == Triples(w, v, n)
           a == <<EncodingId[e.encoding], e.broadcast, n>>
<1>0. n \in Nat /\ encode_envelope(e) = a \o p /\ IsVec(p) /\ Len(p) = 3 * n
  BY EnvelopeShape
<1>1. IsVec(a) /\ Len(a) = 3
  BY TupleVec
<1> HIDE DEF p
<1>2. Holds(t, i, a) /\ Holds(t, i + 3, p)
  BY <1>0, <1>1, HoldsParts
<1>3. t[i] = EncodingId[e.encoding] /\ t[i + 1] = e.broadcast /\ t[i + 2] = n
  BY <1>2, Holds3
<1>4. ASSUME NEW j \in 1..n
      PROVE  t[i + 3 * j] = w[j] /\ t[i + 3 * j + 1 + 1] = v[j]
  <2>1. /\ 3 * j - 2 \in 1..(3 * n) /\ (3 * j - 2) % 3 # 0
        /\ ((3 * j - 2) + 2) \div 3 = j
        /\ 3 * j \in 1..(3 * n) /\ (3 * j) % 3 = 0 /\ (3 * j) \div 3 = j
    BY <1>0
  <2> HIDE DEF w, v, n
  <2>2. p[3 * j - 2] = w[j] /\ p[3 * j] = v[j]
    BY <2>1 DEF p, Triples
  <2>3. t[i + 3 + (3 * j - 2) - 1] = p[3 * j - 2] /\ t[i + 3 + 3 * j - 1] = p[3 * j]
    BY <1>0, <1>2, <2>1 DEF Holds
  <2>4. i + 3 + (3 * j - 2) - 1 = i + 3 * j /\ i + 3 + 3 * j - 1 = i + 3 * j + 1 + 1
    BY <1>0
  <2> QED
    BY <2>2, <2>3, <2>4
<1>5. [j \in 1..n |-> [length |-> t[i + 3 * j], contents |-> t[i + 3 * j + 1 + 1]]]
      = e.chunks
  <2>1. ASSUME NEW j \in 1..n
        PROVE  e.chunks[j] = [length |-> t[i + 3 * j],
                              contents |-> t[i + 3 * j + 1 + 1]]
    <3>1. e.chunks[j] = [length |-> e.chunks[j].length,
                         contents |-> e.chunks[j].contents]
      BY VecIsSeq DEF IsEnvelope
    <3>2. w[j] = e.chunks[j].length /\ v[j] = e.chunks[j].contents
      OBVIOUS
    <3> QED
      BY <1>4, <3>1, <3>2
  <2>2. e.chunks = [j \in 1..n |-> e.chunks[j]]
    BY DEF IsEnvelope, IsVec
  <2> QED
    BY <2>1, <2>2
<1>6. (CHOOSE k \in DOMAIN EncodingId : EncodingId[k] = t[i]) = e.encoding
  BY <1>3, EncodingBack DEF IsEnvelope
<1>7. decode_envelope(t, i) =
          [encoding |-> e.encoding, broadcast |-> e.broadcast, chunks |-> e.chunks]
  BY <1>3, <1>5, <1>6 DEF decode_envelope, decode_buffer
<1> QED
  BY <1>7 DEF IsEnvelope

-----------------------------------------------------------------------------
(* Chunks                                                                  *)

LEMMA Products ==
    ASSUME NEW j \in Int, j >= 1, NEW c \in Nat
    PROVE  (j - 1) * c = j * c - c /\ (j - 1) * c \in Nat /\ j * c \in Nat
  OBVIOUS

LEMMA SplitShape ==
    ASSUME NEW payload, IsVec(payload), NEW nonce \in Nat
    PROVE  LET s == split(payload, nonce)
           IN /\ IsVec(s)
              /\ (Len(s) = 0 <=> payload = <<>>)
              /\ DOMAIN s = 1..Len(s)
              /\ \A j \in 1..Len(s) :
                     /\ s[j] = [length |-> s[j].length, contents |-> s[j].contents]
                     /\ s[j].contents.nonce = nonce + j - 1
              /\ \A other \in Nat : Len(split(payload, other)) = Len(s)
<1> DEFINE L == Len(payload)
           C == ChunkSize
           n == (L + C - 1) \div C
<1>0. L \in Nat /\ C \in Nat \ {0}
  BY WireAssumption DEF ChunkSize, IsVec
<1> HIDE DEF L, C
<1>1. n \in Nat /\ (n = 0 <=> L = 0)
  BY <1>0, CountPieces
<1>2. L = 0 <=> payload = <<>>
  BY DEF L, IsVec
<1>3. ASSUME NEW k \in Nat
      PROVE  LET s == split(payload, k)
             IN /\ IsVec(s) /\ Len(s) = n /\ DOMAIN s = 1..n
                /\ \A j \in 1..n :
                       /\ s[j] = [length |-> s[j].length, contents |-> s[j].contents]
                       /\ s[j].contents.nonce = k + j - 1
  <2> DEFINE Piece(j) == SubSeq(payload, (j - 1) * C + 1, IF j < n THEN j * C ELSE L)
             s == [j \in 1..n |-> [length   |-> Len(Piece(j)) + TagLen,
                                   contents |-> [nonce |-> k + j - 1,
                                                 plain |-> Piece(j)]]]
  <2>1. split(payload, k) = s
    BY DEF split, L, C
  <2> HIDE DEF Piece, n
  <2>2. IsVec(s) /\ Len(s) = n /\ DOMAIN s = 1..n
    BY <1>1 DEF IsVec
  <2>3. \A j \in 1..n :
            /\ s[j] = [length |-> s[j].length, contents |-> s[j].contents]
            /\ s[j].contents.nonce = k + j - 1
    OBVIOUS
  <2> QED
    BY <2>1, <2>2, <2>3
<1> HIDE DEF n
<1> QED
  BY <1>1, <1>2, <1>3

\* The pieces of a payload, put together, are the payload.
THEOREM SplitJoins ==
    ASSUME NEW payload, IsVec(payload), NEW nonce \in Nat
    PROVE  join_chunks(split(payload, nonce)) = payload
<1> DEFINE L == Len(payload)
           C == ChunkSize
           n == (L + C - 1) \div C
           S == {payload[j] : j \in 1..L}
           End(j) == IF j < n THEN j * C ELSE L
           Piece(j) == SubSeq(payload, (j - 1) * C + 1, End(j))
           ss == [j \in 1..n |-> Piece(j)]
           f == [i \in 1..n |-> SubSeq(payload, 1, End(i))]
<1>0. L \in Nat /\ C \in Nat \ {0} /\ payload \in Seq(S)
  BY WireAssumption, VecIsSeq DEF ChunkSize, IsVec
<1>1. join_chunks(split(payload, nonce)) = FlattenSeq(ss)
  <2>1. split(payload, nonce) =
            [j \in 1..n |-> [length   |-> Len(Piece(j)) + TagLen,
                             contents |-> [nonce |-> nonce + j - 1,
                                           plain |-> Piece(j)]]]
    BY DEF split
  <2> HIDE DEF Piece, n
  <2>2. [j \in DOMAIN split(payload, nonce) |->
             split(payload, nonce)[j].contents.plain] = ss
    BY <2>1
  <2> QED
    BY <2>2 DEF join_chunks
<1> HIDE DEF C, S
<1>2. n \in Nat /\ (n = 0 <=> L = 0) /\ \A j \in 0..(n - 1) : j * C \in 0..L
  <2> HIDE DEF L
  <2> QED
    BY <1>0, CountPieces
<1> HIDE DEF n
<1>3. CASE n = 0
  <2>1. ss = <<>> /\ payload = <<>>
    BY <1>0, <1>2, <1>3
  <2> QED
    BY <1>1, <2>1, FlattenNone
<1>4. CASE n # 0
  <2>1. ASSUME NEW i \in 1..n
        PROVE  f[i] = IF i = 1 THEN ss[i] ELSE f[i - 1] \o ss[i]
    <3> DEFINE a == (i - 1) * C
               b == End(i)
    <3>1. i - 1 \in 0..(n - 1) /\ a \in 0..L
      BY <1>2
    <3>2. CASE i = 1
      <4>1. a = 0
        BY <1>0, <3>2
      <4>2. f[i] = SubSeq(payload, 1, b) /\ ss[i] = SubSeq(payload, a + 1, b)
        OBVIOUS
      <4> HIDE DEF a, b
      <4>3. a + 1 = 1
        BY <4>1
      <4> HIDE DEF f, ss
      <4> QED
        BY <3>2, <4>2, <4>3
    <3>3. CASE i # 1
      <4>1. f[i] = SubSeq(payload, 1, b) /\ ss[i] = SubSeq(payload, a + 1, b)
        OBVIOUS
      <4>2. f[i - 1] = SubSeq(payload, 1, a)
        <5>1. i - 1 \in 1..n /\ i - 1 < n
          BY <1>2, <3>3
        <5> QED
          BY <5>1
      <4>3. b \in a..L
        <5>1. CASE i < n
          <6>1. i \in 0..(n - 1) /\ i \in Int /\ i >= 1 /\ C \in Nat
            BY <1>0, <1>2, <5>1
          <6>2. i * C \in 0..L /\ a = i * C - C
            BY <1>2, <6>1, Products
          <6> HIDE DEF a
          <6> QED
            BY <1>0, <3>1, <5>1, <6>1, <6>2
        <5>2. CASE ~(i < n)
          <6> HIDE DEF a
          <6> QED
            BY <1>0, <3>1, <5>2
        <5> QED
          BY <5>1, <5>2
      <4> HIDE DEF a, b, f, ss
      <4>4. SubSeq(payload, 1, b) = SubSeq(payload, 1, a) \o SubSeq(payload, a + 1, b)
        BY <1>0, <3>1, <4>3, SubSeqJoin
      <4> QED
        BY <3>3, <4>1, <4>2, <4>4
    <3> QED
      BY <3>2, <3>3
  <2>2. Len(ss) = n
    BY <1>2
  <2>3. Flattens(f, ss)
    <3>1. f = [i \in 1..n |-> IF i = 1 THEN ss[i] ELSE f[i - 1] \o ss[i]]
      BY <2>1
    <3> HIDE DEF f, ss
    <3> QED
      BY <2>2, <3>1 DEF Flattens
  <2>4. f[n] = payload
    <3>1. f[n] = SubSeq(payload, 1, L)
      BY <1>2, <1>4
    <3> HIDE DEF f
    <3> QED
      BY <1>0, <3>1
  <2> HIDE DEF ss, f
  <2>5. FlattenSeq(ss) = f[n]
    BY <1>2, <1>4, <2>2, <2>3, FlattenIs
  <2> QED
    BY <1>1, <2>4, <2>5
<1> QED
  BY <1>3, <1>4

-----------------------------------------------------------------------------
(* Requests and responses                                                  *)

LEMMA FrameParts ==
    ASSUME NEW class, NEW id, NEW rest, IsVec(rest)
    PROVE  LET t == <<Identity, Version, class>> \o (<<id>> \o rest)
           IN /\ IsVec(t) /\ 2 \in DOMAIN t
              /\ t[1] = Identity /\ t[2] = Version /\ t[3] = class /\ t[4] = id
              /\ Holds(t, 5, rest)
<1> DEFINE a == <<Identity, Version, class>>
           body == <<id>> \o rest
           t == a \o body
<1>1. IsVec(<<id>>) /\ Len(<<id>>) = 1 /\ IsVec(a) /\ Len(a) = 3
  BY TupleVec
<1>2. IsVec(body) /\ Len(body) = 1 + Len(rest)
  BY <1>1, ConcatVec
<1> HIDE DEF body
<1>3. IsVec(t) /\ Len(t) = 3 + (1 + Len(rest))
  BY <1>1, <1>2, ConcatVec
<1>4. Holds(t, 1, a) /\ Holds(t, 1 + 3, body)
  BY <1>1, <1>2, <1>3, HoldsItself, HoldsParts
<1> HIDE DEF t
<1>5. t[1] = Identity /\ t[1 + 1] = Version /\ t[1 + 2] = class
  BY <1>4, Holds3
<1>6. Holds(t, 4, <<id>>) /\ Holds(t, 4 + 1, rest)
  <2>1. Holds(t, 4, <<id>> \o rest)
    BY <1>4 DEF body
  <2> QED
    BY <1>1, <2>1, HoldsParts
<1>7. t[4] = id
  BY <1>6, Holds1
<1>8. 2 \in DOMAIN t
  <2>1. Len(rest) \in Nat /\ DOMAIN t = 1..Len(t)
    BY <1>3, VecIsSeq DEF IsVec
  <2> QED
    BY <1>3, <2>1
<1> QED
  BY <1>3, <1>5, <1>6, <1>7, <1>8 DEF t, body

\* The frame of a message, up to what follows its kind.
FrameOf(m, id, rest) ==
    /\ IsVec(rest)
    /\ encode(m) = <<Identity, Version, ClassId[m.class]>> \o (<<id>> \o rest)

LEMMA HandshakeParts ==
    ASSUME NEW t, NEW i \in Nat, NEW m, m.side \in DOMAIN HandshakeId
    PROVE  /\ IsVec(encode_handshake(m))
           /\ Holds(t, i, encode_handshake(m)) =>
                  /\ t[i] = HandshakeId[m.side]
                  /\ t[i + 1] = m.length /\ t[i + 2 + 1] = m.noise
<1> DEFINE a == <<HandshakeId[m.side], m.length>>
           b == <<HandshakeBuffer, m.noise>>
<1>1. IsVec(a) /\ Len(a) = 2 /\ IsVec(b) /\ encode_handshake(m) = a \o b
  BY TupleVec DEF encode_handshake, encode_buffer
<1>2. IsVec(encode_handshake(m))
  BY <1>1, ConcatVec
<1>3. ASSUME Holds(t, i, encode_handshake(m))
      PROVE  /\ t[i] = HandshakeId[m.side] /\ t[i + 1] = m.length
             /\ t[i + 2 + 1] = m.noise
  <2>1. Holds(t, i, a) /\ Holds(t, i + 2, b)
    BY <1>1, <1>3, HoldsParts
  <2> QED
    BY <2>1, Holds2
<1> QED
  BY <1>2, <1>3

\* What one end encodes, the other decodes.
THEOREM MessageBack ==
    ASSUME NEW m, IsMessage(m)
    PROVE  /\ IsVec(encode(m)) /\ 2 \in DOMAIN encode(m)
           /\ encode(m)[1] = Identity /\ encode(m)[2] = Version
           /\ decode(encode(m)) = m
<1> DEFINE t == encode(m)
<1>0. ASSUME NEW id, NEW rest, FrameOf(m, id, rest)
      PROVE  /\ IsVec(t) /\ 2 \in DOMAIN t
             /\ t[1] = Identity /\ t[2] = Version /\ t[3] = ClassId[m.class]
             /\ t[4] = id /\ Holds(t, 5, rest)
  BY <1>0, FrameParts DEF FrameOf
<1>1. CASE /\ m.type = "Error"
           /\ m = [class |-> "Transparent", type |-> m.type, code |-> m.code,
                   text |-> m.text]
  <2>0. m.class = "Transparent" /\ m.type \in DOMAIN TransparentId
    BY <1>1 DEF TransparentId
  <2>1. FrameOf(m, TransparentId[m.type], <<m.code, m.text>>)
    BY <1>1, <2>0, TupleVec DEF FrameOf, encode, encode_transparent
  <2>2. /\ IsVec(t) /\ 2 \in DOMAIN t
        /\ t[1] = Identity /\ t[2] = Version /\ t[3] = ClassId[m.class]
        /\ t[4] = TransparentId[m.type] /\ Holds(t, 5, <<m.code, m.text>>)
    BY <1>0, <2>1
  <2> HIDE DEF t
  <2>3. t[4 + 1] = m.code /\ t[4 + 2] = m.text
    BY <2>2, Holds2
  <2>4. (CHOOSE k \in DOMAIN TransparentId : TransparentId[k] = t[4]) = m.type
    BY <2>0, <2>2, TransparentBack
  <2>5. decode_transparent(t, 4) = m
    BY <1>1, <2>3, <2>4 DEF decode_transparent
  <2>6. decode(t) = m
    BY <2>0, <2>2, <2>5 DEF decode, ClassId
  <2> QED
    BY <2>2, <2>6 DEF t
<1>2. CASE /\ m.type = "ServerHandshake"
           /\ m = [class |-> "Transparent", type |-> m.type, side |-> m.side,
                   length |-> m.length, noise |-> m.noise]
           /\ m.side \in DOMAIN HandshakeId
  <2>0. m.class = "Transparent" /\ m.type \in DOMAIN TransparentId
    BY <1>2 DEF TransparentId
  <2>1. FrameOf(m, TransparentId[m.type], encode_handshake(m))
    <3>1. IsVec(encode_handshake(m))
      BY <1>2, HandshakeParts
    <3> QED
      BY <1>2, <2>0, <3>1 DEF FrameOf, encode, encode_transparent
  <2>2. /\ IsVec(t) /\ 2 \in DOMAIN t
        /\ t[1] = Identity /\ t[2] = Version /\ t[3] = ClassId[m.class]
        /\ t[4] = TransparentId[m.type] /\ Holds(t, 5, encode_handshake(m))
    BY <1>0, <2>1
  <2> HIDE DEF t
  <2>3. /\ (CHOOSE k \in DOMAIN HandshakeId : HandshakeId[k] = t[4 + 1]) = m.side
        /\ t[4 + 2] = m.length /\ t[4 + 3 + 1] = m.noise
    <3>1. /\ t[5] = HandshakeId[m.side]
          /\ t[5 + 1] = m.length /\ t[5 + 2 + 1] = m.noise
      BY <1>2, <2>2, HandshakeParts
    <3>2. t[4 + 1] = HandshakeId[m.side]
      BY <3>1
    <3> QED
      BY <1>2, <3>1, <3>2, SideBack
  <2>4. (CHOOSE k \in DOMAIN TransparentId : TransparentId[k] = t[4]) = m.type
    BY <2>0, <2>2, TransparentBack
  <2>5. decode_transparent(t, 4) = m
    BY <1>2, <2>3, <2>4 DEF decode_transparent, decode_buffer
  <2>6. decode(t) = m
    BY <2>0, <2>2, <2>5 DEF decode, ClassId
  <2> QED
    BY <2>2, <2>6 DEF t
<1>3. CASE /\ m.type = "PeerHandshake"
           /\ m = [class |-> "Transparent", type |-> m.type, side |-> m.side,
                   length |-> m.length, noise |-> m.noise, key |-> m.key]
           /\ m.side \in DOMAIN HandshakeId
  <2> DEFINE a == <<KeyLen, m.key>>
             b == encode_handshake(m)
  <2>0. m.class = "Transparent" /\ m.type \in DOMAIN TransparentId
    BY <1>3 DEF TransparentId
  <2>1. IsVec(a) /\ Len(a) = 2 /\ IsVec(b)
    BY <1>3, TupleVec, HandshakeParts
  <2>2. FrameOf(m, TransparentId[m.type], a \o b)
    <3>1. IsVec(a \o b)
      BY <2>1, ConcatVec
    <3> QED
      BY <1>3, <2>0, <3>1
         DEF FrameOf, encode, encode_transparent, encode_buffer
  <2>3. /\ IsVec(t) /\ 2 \in DOMAIN t
        /\ t[1] = Identity /\ t[2] = Version /\ t[3] = ClassId[m.class]
        /\ t[4] = TransparentId[m.type] /\ Holds(t, 5, a \o b)
    BY <1>0, <2>2
  <2> HIDE DEF t, b
  <2>4. Holds(t, 5, a) /\ Holds(t, 5 + 2, b)
    BY <2>1, <2>3, HoldsParts
  <2>5. t[4 + 1 + 1] = m.key
    BY <2>4, Holds2
  <2>6. /\ (CHOOSE k \in DOMAIN HandshakeId : HandshakeId[k] = t[4 + 3]) = m.side
        /\ t[4 + 4] = m.length /\ t[4 + 5 + 1] = m.noise
    <3>1. /\ t[7] = HandshakeId[m.side]
          /\ t[7 + 1] = m.length /\ t[7 + 2 + 1] = m.noise
      BY <1>3, <2>4, HandshakeParts DEF b
    <3>2. t[4 + 3] = HandshakeId[m.side]
      BY <3>1
    <3> QED
      BY <1>3, <3>1, <3>2, SideBack
  <2>7. (CHOOSE k \in DOMAIN TransparentId : TransparentId[k] = t[4]) = m.type
    BY <2>0, <2>3, TransparentBack
  <2>8. decode_transparent(t, 4) = m
    BY <1>3, <2>5, <2>6, <2>7 DEF decode_transparent, decode_buffer
  <2>9. decode(t) = m
    BY <2>0, <2>3, <2>8 DEF decode, ClassId
  <2> QED
    BY <2>3, <2>9 DEF t
<1>4. CASE /\ m.type = "ServerMessage"
           /\ m = [class |-> "Opaque", type |-> m.type, envelope |-> m.envelope]
           /\ IsEnvelope(m.envelope)
  <2>0. m.class = "Opaque"
    BY <1>4
  <2>1. FrameOf(m, OpaqueId[m.type], encode_envelope(m.envelope))
    <3>1. IsVec(encode_envelope(m.envelope))
      BY <1>4, EnvelopeShape
    <3> QED
      BY <1>4, <2>0, <3>1 DEF FrameOf, encode, encode_opaque
  <2>2. /\ IsVec(t) /\ 2 \in DOMAIN t
        /\ t[1] = Identity /\ t[2] = Version /\ t[3] = ClassId[m.class]
        /\ t[4] = OpaqueId[m.type] /\ Holds(t, 5, encode_envelope(m.envelope))
    BY <1>0, <2>1
  <2> HIDE DEF t
  <2>3. decode_envelope(t, 4 + 1) = m.envelope
    BY <1>4, <2>2, EnvelopeBack
  <2>4. decode_opaque(t, 4) = m
    BY <1>4, <2>2, <2>3 DEF decode_opaque, OpaqueId
  <2>5. decode(t) = m
    BY <2>0, <2>2, <2>4 DEF decode, ClassId
  <2> QED
    BY <2>2, <2>5 DEF t
<1>5. CASE /\ m.type = "PeerMessage"
           /\ m = [class |-> "Opaque", type |-> m.type, key |-> m.key,
                   session |-> m.session, envelope |-> m.envelope]
           /\ IsOption(m.session) /\ IsEnvelope(m.envelope)
  <2> DEFINE a == <<KeyLen, m.key>>
             b == <<m.session # {}>>
             c == SetToSeq(m.session)
             d == encode_envelope(m.envelope)
             rest == a \o b \o c \o d
  <2>0. m.class = "Opaque"
    BY <1>5
  <2>1. IsVec(a) /\ Len(a) = 2 /\ IsVec(b) /\ Len(b) = 1 /\ IsVec(d)
    BY <1>5, TupleVec, EnvelopeShape
  <2>2. /\ IsVec(c)
        /\ m.session = {} => Len(c) = 0
        /\ \A x : m.session = {x} => c = <<x>> /\ Len(c) = 1
    BY <1>5, ListOfNone, ListOfOne, TupleVec DEF IsOption
  <2> HIDE DEF c, d
  <2>3. /\ IsVec(a \o b) /\ Len(a \o b) = 3
        /\ IsVec(a \o b \o c) /\ Len(a \o b \o c) = 3 + Len(c)
        /\ IsVec(rest)
    <3>1. IsVec(a \o b) /\ Len(a \o b) = 3
      BY <2>1, ConcatVec
    <3>2. IsVec(a \o b \o c) /\ Len(a \o b \o c) = 3 + Len(c)
      BY <2>2, <3>1, ConcatVec
    <3> QED
      BY <2>1, <3>1, <3>2, ConcatVec
  <2>4. FrameOf(m, OpaqueId[m.type], rest)
    BY <1>5, <2>0, <2>3 DEF FrameOf, encode, encode_opaque, encode_buffer, c, d
  <2>5. /\ IsVec(t) /\ 2 \in DOMAIN t
        /\ t[1] = Identity /\ t[2] = Version /\ t[3] = ClassId[m.class]
        /\ t[4] = OpaqueId[m.type] /\ Holds(t, 5, rest)
    BY <1>0, <2>4
  <2> HIDE DEF t
  <2>6. /\ Holds(t, 5, a) /\ Holds(t, 7, b) /\ Holds(t, 8, c)
        /\ Holds(t, 8 + Len(c), d) /\ Len(c) \in Nat
    <3>1. Holds(t, 5, a \o b \o c) /\ Holds(t, 5 + (3 + Len(c)), d)
      BY <2>1, <2>3, <2>5, HoldsParts
    <3>2. Holds(t, 5, a \o b) /\ Holds(t, 5 + 3, c)
      BY <2>2, <2>3, <3>1, HoldsParts
    <3>3. Holds(t, 5, a) /\ Holds(t, 5 + 2, b)
      BY <2>1, <3>2, HoldsParts
    <3>4. Len(c) \in Nat /\ 5 + (3 + Len(c)) = 8 + Len(c)
      BY <2>2 DEF IsVec
    <3> QED
      BY <3>1, <3>2, <3>3, <3>4
  <2>7. t[4 + 1 + 1] = m.key /\ t[4 + 3] = (m.session # {})
    BY <2>6, Holds1, Holds2
  <2>8. decode_envelope(t, 8 + Len(c)) = m.envelope
    BY <1>5, <2>6, EnvelopeBack DEF d
  <2>9. /\ (IF t[4 + 3] THEN {t[4 + 4]} ELSE {}) = m.session
        /\ (IF t[4 + 3] THEN 4 + 5 ELSE 4 + 4) = 8 + Len(c)
    <3>1. CASE m.session = {}
      <4>1. t[4 + 3] = FALSE
        BY <2>7, <3>1, Zenon
      <4>2. Len(c) = 0
        BY <2>2, <3>1
      <4> QED
        BY <3>1, <4>1, <4>2
    <3>2. CASE \E x \in m.session : m.session = {x}
      <4>1. PICK x : m.session = {x}
        BY <3>2
      <4>2. t[8] = x /\ Len(c) = 1
        <5>1. c = <<x>> /\ Len(c) = 1
          BY <2>2, <4>1
        <5> QED
          BY <2>6, <5>1, Holds1
      <4>3. t[4 + 3] = TRUE
        BY <2>7, <4>1, Zenon
      <4> QED
        BY <4>1, <4>2, <4>3
    <3> QED
      BY <1>5, <3>1, <3>2 DEF IsOption
  <2>10. decode_opaque(t, 4) = m
    <3>1. t[4] # OpaqueId.ServerMessage
      BY <1>5, <2>5 DEF OpaqueId
    <3>2. decode_opaque(t, 4) =
              [class    |-> "Opaque", type |-> "PeerMessage", key |-> t[4 + 1 + 1],
               session  |-> IF t[4 + 3] THEN {t[4 + 4]} ELSE {},
               envelope |-> decode_envelope(t, IF t[4 + 3] THEN 4 + 5 ELSE 4 + 4)]
      BY <3>1 DEF decode_opaque, decode_buffer
    <3> QED
      BY <1>5, <2>7, <2>8, <2>9, <3>2
  <2>11. decode(t) = m
    BY <2>0, <2>5, <2>10 DEF decode, ClassId
  <2> QED
    BY <2>5, <2>11 DEF t
<1> QED
  BY <1>1, <1>2, <1>3, <1>4, <1>5 DEF IsMessage

-----------------------------------------------------------------------------
(* Vectors                                                                 *)

LEMMA VecEqual ==
    ASSUME NEW a, NEW b, IsVec(a), IsVec(b), Len(a) = Len(b),
           \A q \in 1..Len(a) : a[q] = b[q]
    PROVE  a = b
<1>1. a = [q \in 1..Len(a) |-> a[q]] /\ b = [q \in 1..Len(a) |-> b[q]]
  BY DEF IsVec
<1> QED
  BY <1>1

LEMMA VecAppend ==
    ASSUME NEW s, IsVec(s), NEW e
    PROVE  /\ IsVec(Append(s, e)) /\ Len(Append(s, e)) = Len(s) + 1
           /\ DOMAIN Append(s, e) = 1..(Len(s) + 1)
           /\ \A q \in 1..Len(s) : Append(s, e)[q] = s[q]
           /\ Append(s, e)[Len(s) + 1] = e
           /\ Append(s, e) = s \o <<e>>
<1> DEFINE S == {s[j] : j \in 1..Len(s)} \cup {e}
<1>1. s \in Seq({s[j] : j \in 1..Len(s)})
  BY VecIsSeq
<1>2. s \in Seq(S) /\ e \in S
  BY <1>1
<1> HIDE DEF S
<1>3. /\ Append(s, e) \in Seq(S) /\ Len(Append(s, e)) = Len(s) + 1
      /\ DOMAIN Append(s, e) = 1..(Len(s) + 1)
      /\ \A q \in 1..Len(s) : Append(s, e)[q] = s[q]
      /\ Append(s, e)[Len(s) + 1] = e
  BY <1>2
<1>4. IsVec(Append(s, e))
  BY <1>3, SeqIsVec
<1>5. Append(s, e) = s \o <<e>>
  BY <1>2
<1> QED
  BY <1>3, <1>4, <1>5

LEMMA VecTail ==
    ASSUME NEW s, IsVec(s), s # <<>>
    PROVE  /\ IsVec(Tail(s)) /\ Len(Tail(s)) = Len(s) - 1
           /\ DOMAIN Tail(s) = 1..(Len(s) - 1)
           /\ \A q \in 1..(Len(s) - 1) : Tail(s)[q] = s[q + 1]
           /\ Head(s) = s[1] /\ Len(s) \in Nat /\ Len(s) >= 1
<1> DEFINE S == {s[j] : j \in 1..Len(s)}
<1>1. s \in Seq(S)
  BY VecIsSeq
<1> HIDE DEF S
<1>2. /\ Tail(s) \in Seq(S) /\ Len(Tail(s)) = Len(s) - 1
      /\ DOMAIN Tail(s) = 1..(Len(s) - 1)
      /\ \A q \in 1..(Len(s) - 1) : Tail(s)[q] = s[q + 1]
      /\ Head(s) = s[1] /\ Len(s) \in Nat /\ Len(s) >= 1
  BY <1>1
<1>3. IsVec(Tail(s))
  BY <1>2, SeqIsVec
<1> QED
  BY <1>2, <1>3

LEMMA VecConcat ==
    ASSUME NEW a, NEW b, NEW c, IsVec(a), IsVec(b), IsVec(c)
    PROVE  /\ IsVec(a \o b)
           /\ (a \o b) \o c = a \o (b \o c)
           /\ a \o <<>> = a /\ <<>> \o a = a
<1> DEFINE A == {a[j] : j \in 1..Len(a)}
           B == {b[j] : j \in 1..Len(b)}
           C == {c[j] : j \in 1..Len(c)}
           S == A \cup B \cup C
<1>1. a \in Seq(A) /\ b \in Seq(B) /\ c \in Seq(C)
  BY VecIsSeq
<1> HIDE DEF A, B, C
<1>2. a \in Seq(S) /\ b \in Seq(S) /\ c \in Seq(S)
  BY <1>1
<1> HIDE DEF S
<1>3. (a \o b) \o c = a \o (b \o c)
  BY ONLY <1>2
<1>4. a \o <<>> = a /\ <<>> \o a = a
  BY ONLY <1>2
<1> QED
  BY <1>3, <1>4, ConcatVec

\* Vectors of vectors, flattened.
Vecs(ss) == IsVec(ss) /\ \A j \in 1..Len(ss) : IsVec(ss[j])

LEMMA VecsAreSeqs ==
    ASSUME NEW ss, Vecs(ss)
    PROVE  ss \in Seq(Seq(UNION {{ss[j][q] : q \in 1..Len(ss[j])} : j \in 1..Len(ss)}))
<1> DEFINE S == UNION {{ss[j][q] : q \in 1..Len(ss[j])} : j \in 1..Len(ss)}
<1>1. ASSUME NEW j \in 1..Len(ss) PROVE ss[j] \in Seq(S)
  <2>1. IsVec(ss[j])
    BY DEF Vecs
  <2>2. ss[j] \in Seq({ss[j][q] : q \in 1..Len(ss[j])})
    BY <2>1, VecIsSeq
  <2>3. {ss[j][q] : q \in 1..Len(ss[j])} \subseteq S
    OBVIOUS
  <2> HIDE DEF S
  <2> QED
    BY <2>2, <2>3
<1> HIDE DEF S
<1>2. ss \in Seq(Seq(S))
  BY <1>1 DEF Vecs, IsVec
<1> QED
  BY <1>2 DEF S

LEMMA FlattenVec ==
    ASSUME NEW ss, Vecs(ss)
    PROVE  IsVec(FlattenSeq(ss))
<1> DEFINE S == UNION {{ss[j][q] : q \in 1..Len(ss[j])} : j \in 1..Len(ss)}
<1>1. ss \in Seq(Seq(S))
  BY VecsAreSeqs
<1> HIDE DEF S
<1> QED
  BY <1>1, FlattenType, SeqIsVec

LEMMA FlattenVecAppend ==
    ASSUME NEW ss, Vecs(ss), NEW s, IsVec(s)
    PROVE  Vecs(Append(ss, s)) /\ FlattenSeq(Append(ss, s)) = FlattenSeq(ss) \o s
<1> DEFINE A == UNION {{ss[j][q] : q \in 1..Len(ss[j])} : j \in 1..Len(ss)}
           B == {s[q] : q \in 1..Len(s)}
           S == A \cup B
<1>1. ss \in Seq(Seq(A)) /\ s \in Seq(B)
  BY VecsAreSeqs, VecIsSeq
<1> HIDE DEF A, B
<1>2. Seq(A) \subseteq Seq(S) /\ Seq(B) \subseteq Seq(S)
  OBVIOUS
<1> HIDE DEF S
<1>3. ss \in Seq(Seq(S)) /\ s \in Seq(S)
  BY <1>1, <1>2
<1>4. FlattenSeq(Append(ss, s)) = FlattenSeq(ss) \o s
  BY <1>3, FlattenAppend
<1>5. Vecs(Append(ss, s))
  <2>1. IsVec(ss) /\ Len(ss) \in Nat
    BY DEF Vecs, IsVec
  <2>2. ASSUME NEW j \in 1..Len(Append(ss, s)) PROVE IsVec(Append(ss, s)[j])
    <3>1. j \in 1..Len(ss) \/ j = Len(ss) + 1
      BY <2>1, VecAppend
    <3> QED
      BY <2>1, <3>1, VecAppend DEF Vecs
  <2> QED
    BY <2>1, <2>2, VecAppend DEF Vecs
<1> QED
  BY <1>4, <1>5

LEMMA FlattenVecCons ==
    ASSUME NEW ss, Vecs(ss), ss # <<>>
    PROVE  /\ Vecs(Tail(ss)) /\ IsVec(Head(ss))
           /\ FlattenSeq(ss) = Head(ss) \o FlattenSeq(Tail(ss))
<1> DEFINE S == UNION {{ss[j][q] : q \in 1..Len(ss[j])} : j \in 1..Len(ss)}
<1>1. ss \in Seq(Seq(S))
  BY VecsAreSeqs
<1> HIDE DEF S
<1>2. FlattenSeq(ss) = Head(ss) \o FlattenSeq(Tail(ss))
  BY <1>1, FlattenCons
<1>3. IsVec(ss)
  BY DEF Vecs
<1>4. /\ IsVec(Tail(ss)) /\ Len(Tail(ss)) = Len(ss) - 1
      /\ \A q \in 1..(Len(ss) - 1) : Tail(ss)[q] = ss[q + 1]
      /\ Head(ss) = ss[1] /\ Len(ss) \in Nat /\ Len(ss) >= 1
  BY <1>3, VecTail
<1>5. IsVec(Head(ss))
  BY <1>4 DEF Vecs
<1>6. ASSUME NEW q \in 1..Len(Tail(ss)) PROVE IsVec(Tail(ss)[q])
  <2>1. q + 1 \in 1..Len(ss) /\ q \in 1..(Len(ss) - 1)
    BY <1>4
  <2> QED
    BY <1>4, <2>1 DEF Vecs
<1> QED
  BY <1>2, <1>4, <1>5, <1>6 DEF Vecs

-----------------------------------------------------------------------------
(* Chunks fit their buffer                                                 *)

\* Chunk::split: no piece is longer than a chunk may be.
LEMMA SplitFits ==
    ASSUME NEW S, NEW payload \in Seq(S), NEW nonce,
           NEW j \in DOMAIN split(payload, nonce)
    PROVE  split(payload, nonce)[j].length <= MaxBuffer
<1> DEFINE L == Len(payload)
           C == ChunkSize
           count == (L + C - 1) \div C
           last == IF j < count THEN j * C ELSE L
           Piece == SubSeq(payload, (j - 1) * C + 1, last)
<1>0. /\ L \in Nat /\ C \in Nat /\ C > 0 /\ C + TagLen = MaxBuffer
      /\ TagLen \in Nat /\ MaxBuffer \in Nat
  BY WireAssumption DEF ChunkSize
<1>1. split(payload, nonce)[j].length = Len(Piece) + TagLen /\ j \in 1..count
  BY DEF split
<1>2. count \in Int /\ L + C - 1 < count * C + C
  BY <1>0
<1>3. j \in Int /\ j >= 1 /\ j <= count /\ (j - 1) * C \in Nat /\ j * C \in Nat
      /\ (j - 1) * C = j * C - C
  <2> HIDE DEF C, count
  <2> QED
    BY <1>0, <1>1, <1>2, Products
<1>4. last - (j - 1) * C <= C /\ last \in Nat
  <2>1. CASE j < count
    BY <1>0, <1>3, <2>1
  <2>2. CASE ~(j < count)
    BY <1>0, <1>2, <1>3, <2>2
  <2> QED
    BY <2>1, <2>2
<1>5. Len(Piece) <= C /\ Len(Piece) \in Nat
  <2> DEFINE first == (j - 1) * C + 1
  <2>0. first \in Nat /\ first > 0 /\ last \in Nat /\ last - first + 1 <= C
    BY <1>0, <1>3, <1>4
  <2> HIDE DEF first, last, C
  <2>1. Len(SubSeq(payload, first, last)) =
            IF first <= last THEN last - first + 1 ELSE 0
    BY <2>0
  <2> QED
    BY <1>0, <2>0, <2>1 DEF first
<1> QED
  BY <1>0, <1>1, <1>5

LEMMA EnvelopeFits ==
    ASSUME NEW S, NEW payload \in Seq(S), NEW channel, NEW encoding, NEW broadcast
    PROVE  Fits(Envelope(payload, channel, encoding, broadcast))
  BY SplitFits DEF Fits, Envelope

\* A sequence of things that satisfy a predicate keeps satisfying it when one
\* more of them is appended and when its head is taken off; the predicate is
\* the set S.
LEMMA AppendOne ==
    ASSUME NEW S, NEW s \in Seq(S), NEW e
    PROVE  Append(s, e) \in Seq(S \cup {e})
<1>1. s \in Seq(S \cup {e})
  OBVIOUS
<1> QED
  BY <1>1

LEMMA TakeOne ==
    ASSUME NEW S, NEW s \in Seq(S), s # <<>>
    PROVE  Head(s) \in S /\ Tail(s) \in Seq(S)
  OBVIOUS

Fine(request) == request.class = "Opaque" => Fits(request.envelope)
TooLong == Err("MaxBufferSize")

TodoInv ==
    /\ script \in Scripts
    /\ todo \in [Callers -> Seq(CallsOf(script))]

HeldInv == DOMAIN held = Callers /\ \A c \in Callers : \A r \in held[c] : Fine(r)

OutboundInv == \E S : outbound \in Seq(S) /\ \A r \in S : Fine(r)

EventsInv == \E S : events \in Seq(S) /\ TooLong \notin S

LoopInv ==
    /\ loop = [pc |-> loop.pc, message |-> loop.message]
    /\ loop.pc = "reply" => loop.message.class = "Transparent"

\* Every request on its way to send_message fits the buffer, be it in the
\* hands of a task or in the channel.
FitInv == TodoInv /\ HeldInv /\ OutboundInv /\ LoopInv /\ EventsInv

LEMMA FitInit == Init => FitInv
<1> SUFFICES ASSUME Init PROVE FitInv
  OBVIOUS
<1>1. TodoInv
  <2>1. script \in Scripts
    BY DEF Init
  <2>2. script.calls \in Seq(CallsOf(script))
    BY <2>1, ScriptsAssumption
  <2>3. script.bursts[1] \in Seq(CallsOf(script))
    <3>1. script.bursts \in Seq(Seq(CallsOf(script))) /\ script.bursts # <<>>
      BY <2>1, ScriptsAssumption
    <3> QED
      BY <3>1
  <2> QED
    BY <2>1, <2>2, <2>3 DEF Init, TodoInv
<1>2. HeldInv /\ LoopInv
  BY DEF Init, HeldInv, LoopInv
<1>3. OutboundInv /\ EventsInv
  <2>1. outbound \in Seq({}) /\ events \in Seq({})
    BY DEF Init
  <2> QED
    BY <2>1 DEF OutboundInv, EventsInv
<1> QED
  BY <1>1, <1>2, <1>3 DEF FitInv

\* A method of the client encrypts what fits.
LEMMA FitHold ==
    ASSUME FitInv, NEW c \in Callers, NEW request, Fine(request),
           Hold(c, request)
    PROVE  HeldInv'
  BY DEF FitInv, HeldInv, Hold

LEMMA FitCall ==
    ASSUME FitInv, NEW c \in Callers, NEW type, Call(c, type), UNCHANGED script
    PROVE  /\ TodoInv'
           /\ Head(todo[c]) \in CallsOf(script)
           /\ Head(todo[c]).call = type
<1>1. todo[c] \in Seq(CallsOf(script)) /\ todo[c] # <<>>
  BY DEF FitInv, TodoInv, Call, Turn
<1>2. Head(todo[c]) \in CallsOf(script) /\ Tail(todo[c]) \in Seq(CallsOf(script))
  BY <1>1, TakeOne
<1>3. todo' \in [Callers -> Seq(CallsOf(script))]
  BY <1>2 DEF FitInv, TodoInv, Call
<1> QED
  BY <1>2, <1>3 DEF FitInv, TodoInv, Call, CallsOf

Payload(call) ==
    IF call.call = "request" THEN encode_server(call.message) ELSE call.payload

LEMMA PayloadVec ==
    ASSUME FitInv, NEW call \in CallsOf(script), call.call \in {"request", "relay"}
    PROVE  IsVec(Payload(call))
<1>1. IsCall(call)
  BY ScriptsAssumption DEF FitInv, TodoInv
<1>2. CASE call.call = "request"
  <2>1. IsServerMessage(call.message)
    BY <1>1, <1>2 DEF IsCall
  <2> QED
    BY <1>2, <2>1, ServerMessageBack DEF Payload
<1>3. CASE call.call = "relay"
  BY <1>1, <1>3 DEF IsCall, Payload
<1> QED
  BY <1>2, <1>3

LEMMA FitPayload ==
    ASSUME FitInv, NEW call \in CallsOf(script),
           call.call \in {"request", "relay"}, NEW channel, NEW encoding,
           NEW broadcast
    PROVE  Fits(Envelope(Payload(call), channel, encoding, broadcast))
<1> DEFINE payload == Payload(call)
           S == {payload[j] : j \in 1..Len(payload)}
<1>1. payload \in Seq(S)
  BY PayloadVec, VecIsSeq
<1> HIDE DEF payload, S
<1> QED
  BY <1>1, EnvelopeFits DEF payload

LEMMA FitCaller ==
    ASSUME FitInv, NEW c \in Callers, Caller(c)
    PROVE  FitInv'
<1>0. UNCHANGED <<script, events>>
  BY DEF Caller, Connect, ConnectPeer, Request, Relay, Close, Refuse, Panic, Queue,
         QueueFails
<1>1. LoopInv' /\ EventsInv'
  <2>1. EventsInv'
    BY <1>0 DEF FitInv, EventsInv
  <2>2. LoopInv'
    BY CallerLoop DEF FitInv, LoopInv
  <2> QED
    BY <2>1, <2>2
<1>2. CASE Connect(c) \/ ConnectPeer(c) \/ Close(c)
  <2>1. TodoInv'
    BY <1>0, <1>2, FitCall DEF Connect, ConnectPeer, Close
  <2>2. HeldInv'
    BY <1>2, FitHold
       DEF Connect, ConnectPeer, Close, Fine, ServerHandshake, Handshake
  <2>3. OutboundInv'
    BY <1>2 DEF Connect, ConnectPeer, Close, channels, FitInv, OutboundInv
  <2> QED
    BY <1>1, <2>1, <2>2, <2>3 DEF FitInv
<1>3. CASE Request(c)
  <2> DEFINE call == Head(todo[c])
             envelope == Envelope(encode_server(call.message), server, "Blob", FALSE)
             request == [class |-> "Opaque", type |-> "ServerMessage",
                         envelope |-> envelope]
  <2>1. TodoInv' /\ call \in CallsOf(script) /\ call.call = "request"
    BY <1>0, <1>3, FitCall DEF Request
  <2>2. Fits(envelope)
    BY <2>1, FitPayload DEF Payload
  <2>3. HeldInv'
    <3>1. Hold(c, request)
      BY <1>3 DEF Request
    <3>2. Fine(request)
      BY <2>2 DEF Fine
    <3> QED
      BY <3>1, <3>2, FitHold
  <2>4. OutboundInv'
    BY <1>3 DEF Request, channels, FitInv, OutboundInv
  <2> QED
    BY <1>1, <2>1, <2>3, <2>4 DEF FitInv
<1>4. CASE Relay(c)
  <2> DEFINE call == Head(todo[c])
             envelope == Envelope(call.payload, peers[call.key], call.encoding,
                                  call.broadcast)
             request == [class |-> "Opaque", type |-> "PeerMessage",
                         key |-> call.key, session |-> call.session,
                         envelope |-> envelope]
  <2>1. TodoInv' /\ call \in CallsOf(script) /\ call.call = "relay"
    BY <1>0, <1>4, FitCall DEF Relay
  <2>2. Fits(envelope)
    BY <2>1, FitPayload DEF Payload
  <2>3. HeldInv'
    <3>1. Hold(c, request)
      BY <1>4 DEF Relay
    <3>2. Fine(request)
      BY <2>2 DEF Fine
    <3> QED
      BY <3>1, <3>2, FitHold
  <2>4. OutboundInv'
    BY <1>4 DEF Relay, channels, FitInv, OutboundInv
  <2> QED
    BY <1>1, <2>1, <2>3, <2>4 DEF FitInv
<1>5. CASE Refuse(c) \/ Panic(c)
  <2>1. TodoInv'
    <3>1. todo' = [todo EXCEPT ![c] = <<>>]
      BY <1>5 DEF Refuse, Panic
    <3> QED
      BY <1>0, <3>1 DEF FitInv, TodoInv, CallsOf
  <2>2. HeldInv' /\ OutboundInv'
    BY <1>5 DEF Refuse, Panic, channels, FitInv, HeldInv, OutboundInv
  <2> QED
    BY <1>1, <2>1, <2>2 DEF FitInv
<1>6. CASE Queue(c)
  <2>1. TodoInv' /\ HeldInv'
    BY <1>0, <1>6 DEF Queue, FitInv, TodoInv, HeldInv, CallsOf
  <2>2. PICK request \in held[c] : outbound' = Append(outbound, request)
    BY <1>6 DEF Queue
  <2>3. PICK S : outbound \in Seq(S) /\ \A r \in S : Fine(r)
    BY DEF FitInv, OutboundInv
  <2>4. outbound' \in Seq(S \cup {request}) /\ Fine(request)
    BY <2>2, <2>3, AppendOne DEF FitInv, HeldInv
  <2>5. OutboundInv'
    BY <2>3, <2>4 DEF OutboundInv
  <2> QED
    BY <1>1, <2>1, <2>5 DEF FitInv
<1>7. CASE QueueFails(c)
  <2>1. TodoInv'
    BY <1>0, <1>7 DEF QueueFails, FitInv, TodoInv, CallsOf
  <2>2. HeldInv' /\ OutboundInv'
    BY <1>7 DEF QueueFails, channels, FitInv, HeldInv, OutboundInv
  <2> QED
    BY <1>1, <2>1, <2>2 DEF FitInv
<1> QED
  BY <1>2, <1>3, <1>4, <1>5, <1>6, <1>7 DEF Caller

LEMMA FitYield ==
    ASSUME FitInv, NEW event, Yield(event), event # TooLong, UNCHANGED script
    PROVE  TodoInv' /\ HeldInv' /\ LoopInv' /\ EventsInv'
<1>1. TodoInv'
  <2> DEFINE next == IF Len(events) + 2 \in DOMAIN script.bursts
                     THEN script.bursts[Len(events) + 2] ELSE <<>>
  <2>1. script.bursts \in Seq(Seq(CallsOf(script)))
    BY ScriptsAssumption DEF FitInv, TodoInv
  <2>2. next \in Seq(CallsOf(script))
    BY <2>1
  <2>3. todo' = [todo EXCEPT ![Driver] = next]
    BY DEF Yield
  <2> HIDE DEF next
  <2>4. todo' \in [Callers -> Seq(CallsOf(script))]
    BY <2>2, <2>3 DEF FitInv, TodoInv
  <2> QED
    BY <2>4 DEF FitInv, TodoInv, CallsOf
<1>2. HeldInv' /\ LoopInv'
  BY DEF Yield, FitInv, HeldInv, LoopInv
<1>3. EventsInv'
  <2>1. PICK S : events \in Seq(S) /\ TooLong \notin S
    BY DEF FitInv, EventsInv
  <2>2. events' \in Seq(S \cup {event})
    BY <2>1, AppendOne DEF Yield
  <2> QED
    BY <2>1, <2>2 DEF EventsInv, TooLong, Err
<1> QED
  BY <1>1, <1>2, <1>3

LEMMA FitStill ==
    ASSUME FitInv, UNCHANGED <<script, events, tasks>>
    PROVE  TodoInv' /\ HeldInv' /\ EventsInv'
  BY DEF FitInv, TodoInv, HeldInv, EventsInv, tasks, CallsOf, TooLong, Err

LEMMA FitLoop ==
    ASSUME FitInv, LoopStep
    PROVE  FitInv'
<1>0. UNCHANGED script
  BY DEF LoopStep, ReadFrame, QueueResponse, WriteFrame, TakeResponse,
         TakeError, TakeServerHandshake, TakeUnhandled, TakeServerMessage,
         TakePeer, Take,
         PeerHandshakeResponder, QueueReply, PeerHandshakeAck,
         HandleRelayedMessage
<1>1. ASSUME UNCHANGED outbound PROVE OutboundInv'
  BY <1>1 DEF FitInv, OutboundInv
<1>2. ASSUME NEW event, Yield(event), event # TooLong, UNCHANGED outbound
      PROVE  FitInv'
  BY <1>0, <1>1, <1>2, FitYield DEF FitInv
<1>3. ASSUME NoEvent \/ HandlerPanics
      PROVE  TodoInv' /\ HeldInv' /\ EventsInv' /\ LoopInv'
  BY <1>0, <1>3, FitStill DEF NoEvent, HandlerPanics, LoopInv
<1>4. CASE ReadFrame
  <2>1. UNCHANGED outbound
    BY <1>4 DEF ReadFrame, channels
  <2>2. Err("Decode") # TooLong
    BY DEF Err, TooLong
  <2>3. CASE Yield(Err("Decode"))
    BY <1>2, <2>1, <2>2, <2>3
  <2>4. ASSUME NEW message, loop' = [pc |-> "read", message |-> message],
               UNCHANGED <<events, tasks>>
        PROVE  FitInv'
    BY <1>0, <1>1, <2>1, <2>4, FitStill DEF LoopInv, FitInv
  <2> QED
    BY <1>4, <2>3, <2>4 DEF ReadFrame
<1>5. CASE QueueResponse
  <2>1. LoopInv' /\ OutboundInv'
    BY <1>1, <1>5 DEF QueueResponse, LoopInv
  <2> QED
    BY <1>5, <2>1, FitStill DEF QueueResponse, FitInv
<1>6. CASE WriteFrame
  <2>1. PICK S : outbound \in Seq(S) /\ \A r \in S : Fine(r)
    BY DEF FitInv, OutboundInv
  <2>2. /\ outbound' = Tail(outbound)
        /\ Fine(Head(outbound))
        /\ OutboundInv'
    BY <1>6, <2>1, TakeOne DEF WriteFrame, OutboundInv
  <2>3. CASE Head(outbound).class = "Close"
    <3>1. /\ loop' = [pc |-> "closed", message |-> NoMessage]
          /\ events' = Append(events, [event |-> "Close"])
          /\ UNCHANGED tasks
      BY <1>6, <2>3 DEF WriteFrame
    <3>2. LoopInv' /\ HeldInv' /\ TodoInv'
      BY <1>0, <3>1 DEF FitInv, LoopInv, HeldInv, TodoInv, CallsOf, tasks
    <3>3. EventsInv'
      <4>1. PICK E : events \in Seq(E) /\ TooLong \notin E
        BY DEF FitInv, EventsInv
      <4>2. events' \in Seq(E \cup {[event |-> "Close"]})
        BY <3>1, <4>1, AppendOne
      <4>3. [event |-> "Close"] # TooLong
        BY DEF TooLong, Err
      <4> QED
        BY <4>1, <4>2, <4>3 DEF EventsInv, TooLong, Err
    <3> QED
      BY <2>2, <3>2, <3>3 DEF FitInv
  <2>4. CASE Head(outbound).class # "Close"
    <3>1. NoEvent
      BY <1>6, <2>2, <2>4 DEF WriteFrame, Fine
    <3> QED
      BY <1>3, <2>2, <3>1 DEF FitInv
  <2> QED
    BY <2>3, <2>4
<1>7. CASE TakeError
  <2>1. ServerError(Head(inbound).code) # TooLong
    BY DEF ServerError, TooLong, Err
  <2> QED
    BY <1>2, <1>7, <2>1 DEF TakeError, Take
<1>8. CASE TakeServerHandshake
  <2>1. [event |-> "ServerConnected"] # TooLong /\ Err("NotHandshakeState") # TooLong
    BY DEF TooLong, Err
  <2> QED
    BY <1>2, <1>8, <2>1 DEF TakeServerHandshake, Take
<1>9. CASE TakeServerMessage
  <2>1. /\ Err("Decrypt") # TooLong
        /\ \A message : [event |-> "Server", message |-> message] # TooLong
        /\ \A code : ServerError(code) # TooLong
    BY DEF TooLong, Err, ServerError
  <2>2. UNCHANGED outbound
    BY <1>9 DEF TakeServerMessage, Take
  <2>3. \/ NoEvent \/ HandlerPanics \/ Yield(Err("Decrypt"))
        \/ \E message : Yield([event |-> "Server", message |-> message])
        \/ \E code : Yield(ServerError(code))
    BY <1>9 DEF TakeServerMessage
  <2> QED
    BY <1>1, <1>2, <1>3, <2>1, <2>2, <2>3 DEF FitInv
<1>u. CASE TakeUnhandled
  BY <1>1, <1>3, <1>u DEF TakeUnhandled, Take, FitInv
<1>10. CASE TakePeer
  <2>1. LoopInv' /\ OutboundInv'
    BY <1>1, <1>10 DEF TakePeer, Take, LoopInv
  <2> QED
    BY <1>0, <1>10, <2>1, FitStill DEF TakePeer, FitInv
<1>11. CASE PeerHandshakeResponder
  <2>1. UNCHANGED outbound /\ OutboundInv'
    BY <1>1, <1>11 DEF PeerHandshakeResponder, channels
  <2>2. Err("PeerAlreadyExistsMaybeRace") # TooLong
    BY DEF TooLong, Err
  <2>3. ASSUME NEW key, UNCHANGED <<events, tasks>>,
               loop' = [pc |-> "reply",
                        message |-> Handshake("PeerHandshake", "Responder", key)]
        PROVE  FitInv'
    BY <1>0, <2>1, <2>3, FitStill DEF LoopInv, FitInv, Handshake
  <2> QED
    BY <1>2, <1>11, <2>1, <2>2, <2>3 DEF PeerHandshakeResponder
<1>12. CASE QueueReply
  <2>1. Yield([event |-> "PeerConnected", key |-> loop.message.key])
    BY <1>12 DEF QueueReply
  <2>2. [event |-> "PeerConnected", key |-> loop.message.key] # TooLong
    BY DEF TooLong, Err
  <2>3. PICK S : outbound \in Seq(S) /\ \A r \in S : Fine(r)
    BY DEF FitInv, OutboundInv
  <2>4. outbound' \in Seq(S \cup {loop.message})
    BY <1>12, <2>3, AppendOne DEF QueueReply
  <2>5. Fine(loop.message)
    BY <1>12 DEF QueueReply, FitInv, LoopInv, Fine
  <2>6. OutboundInv'
    BY <2>3, <2>4, <2>5 DEF OutboundInv
  <2> QED
    BY <1>0, <2>1, <2>2, <2>6, FitYield DEF FitInv
<1>13. CASE PeerHandshakeAck
  <2>1. /\ \A key : [event |-> "PeerConnected", key |-> key] # TooLong
        /\ Err("PeerNotFound") # TooLong /\ Err("NotHandshakeState") # TooLong
    BY DEF TooLong, Err
  <2>2. UNCHANGED outbound
    BY <1>13 DEF PeerHandshakeAck, channels
  <2>3. \/ \E key : Yield([event |-> "PeerConnected", key |-> key])
        \/ Yield(Err("PeerNotFound")) \/ Yield(Err("NotHandshakeState"))
    BY <1>13 DEF PeerHandshakeAck
  <2> QED
    BY <1>2, <2>1, <2>2, <2>3
<1>14. CASE HandleRelayedMessage
  <2>1. /\ \A key, encoding, payload, session :
               [event |-> "Message", key |-> key, encoding |-> encoding,
                payload |-> payload, session |-> session] # TooLong
        /\ Err("Decrypt") # TooLong
    BY DEF TooLong, Err
  <2>2. UNCHANGED outbound
    BY <1>14 DEF HandleRelayedMessage, channels
  <2>3. \/ \E key, encoding, payload, session :
               Yield([event |-> "Message", key |-> key, encoding |-> encoding,
                      payload |-> payload, session |-> session])
        \/ Yield(Err("Decrypt"))
    BY <1>14 DEF HandleRelayedMessage
  <2> QED
    BY <1>2, <2>1, <2>2, <2>3
<1> QED
  BY <1>u, <1>4, <1>5, <1>6, <1>7, <1>8, <1>9, <1>10, <1>11, <1>12, <1>13, <1>14
     DEF LoopStep, TakeResponse

LEMMA FitNext == FitInv /\ [Next]_vars => FitInv'
<1> SUFFICES ASSUME FitInv, [Next]_vars PROVE FitInv'
  OBVIOUS
<1>1. CASE Poll
  BY <1>1, FitStill DEF Poll, FitInv, LoopInv, OutboundInv, channels
<1>2. CASE UNCHANGED vars
  BY <1>2, FitStill DEF vars, FitInv, LoopInv, OutboundInv, channels
<1> QED
  BY <1>1, <1>2, FitCaller, FitLoop DEF Next

\* Whatever the tasks ask to be sent, send_message never finds a chunk that is
\* longer than encode_buffer accepts: Chunk::split leaves room for the tag of
\* every chunk, the last one included, for every MAX_BUFFER_SIZE and TAGLEN.
THEOREM AlwaysFits == Spec => []ChunksFit
<1>1. FitInv => ChunksFit
  <2> SUFFICES ASSUME FitInv, NEW j \in DOMAIN events
               PROVE  events[j] # TooLong
    BY DEF ChunksFit, TooLong
  <2>1. PICK S : events \in Seq(S) /\ TooLong \notin S
    BY DEF FitInv, EventsInv
  <2>2. events[j] \in S
    BY <2>1
  <2> QED
    BY <2>1, <2>2
<1> QED
  BY <1>1, FitInit, FitNext, PTL DEF Spec

-----------------------------------------------------------------------------
(* Types                                                                   *)

Channels == [status : Status, sent : Nat, received : Nat]

\* A message of or to this client.
IsFor(m) ==
    /\ IsMessage(m)
    /\ m.type \in {"PeerHandshake", "PeerMessage"} => m.key \in Keys

IsRequest(r) == r = [class |-> "Close"] \/ IsFor(r)

ChannelsInv ==
    /\ server \in Channels /\ peers \in [Keys -> Channels]
    /\ lock \in Callers \cup {Loop, NoOne}

RequestsInv ==
    /\ \A c \in Callers : held[c] = {} \/ \E r : IsRequest(r) /\ held[c] = {r}
    /\ IsVec(outbound) /\ Len(outbound) <= Capacity
    /\ \A j \in 1..Len(outbound) : IsRequest(outbound[j])

InboundInv ==
    /\ IsVec(inbound) /\ Len(inbound) <= Capacity
    /\ \A j \in 1..Len(inbound) : IsFor(inbound[j])

HandlerInv ==
    /\ loop.pc \in {"idle", "select", "read", "lock", "reply", "closed", "panicked"}
    /\ loop.pc \in {"read", "lock"} => IsFor(loop.message)
    /\ loop.pc = "lock" => loop.message.type \in {"PeerHandshake", "PeerMessage"}
    /\ loop.pc = "reply" =>
           \E k \in Keys : loop.message = Handshake("PeerHandshake", "Responder", k)

FramesInv ==
    /\ read \in 0..Len(script.replies)
    /\ IsVec(written) /\ \A j \in 1..Len(written) : IsFor(decode(written[j]))
    /\ IsVec(events)

HistoryInv ==
    /\ asked = [server |-> asked.server, peers |-> asked.peers]
    /\ asked.peers = [k \in Keys |-> asked.peers[k]]
    /\ IsVec(asked.server)
    /\ \A j \in 1..Len(asked.server) : IsServerMessage(asked.server[j])
    /\ \A k \in Keys : IsVec(asked.peers[k])

TypeInv ==
    /\ ChannelsInv /\ RequestsInv /\ InboundInv /\ HandlerInv /\ FramesInv
    /\ HistoryInv

LEMMA EmptyVec == IsVec(<<>>) /\ Len(<<>>) = 0
  BY DEF IsVec

LEMMA TypeInit == Init => TypeInv
<1> SUFFICES ASSUME Init PROVE TypeInv
  OBVIOUS
<1>0. Capacity \in Nat
  BY EventLoopAssumption
<1>1. script \in Scripts
  BY DEF Init
<1>2. ChannelsInv
  <2>1. script.server \in Status /\ \A k \in Keys : script.peers[k] \in Status
    BY <1>1, ScriptsAssumption
  <2> QED
    BY <2>1 DEF Init, ChannelsInv, Channels, Channel
<1>3. RequestsInv /\ InboundInv
  BY <1>0, EmptyVec DEF Init, RequestsInv, InboundInv
<1>4. HandlerInv
  BY DEF Init, HandlerInv
<1>5. FramesInv
  <2>1. Len(script.replies) \in Nat
    BY <1>1, ScriptsAssumption DEF IsVec
  <2> QED
    BY <2>1, EmptyVec DEF Init, FramesInv
<1>6. HistoryInv
  BY EmptyVec DEF Init, HistoryInv
<1> QED
  BY <1>2, <1>3, <1>4, <1>5, <1>6 DEF TypeInv

LEMMA EnvelopeOfPayload ==
    ASSUME NEW payload, IsVec(payload), NEW nonce \in Nat,
           NEW encoding \in DOMAIN EncodingId, NEW broadcast
    PROVE  IsEnvelope([encoding |-> encoding, broadcast |-> broadcast,
                       chunks |-> split(payload, nonce)])
<1> DEFINE s == split(payload, nonce)
<1>1. /\ IsVec(s) /\ DOMAIN s = 1..Len(s)
      /\ \A j \in 1..Len(s) :
             s[j] = [length |-> s[j].length, contents |-> s[j].contents]
  BY SplitShape
<1> HIDE DEF s
<1>2. IsEnvelope([encoding |-> encoding, broadcast |-> broadcast, chunks |-> s])
  BY <1>1 DEF IsEnvelope
<1> QED
  BY <1>2 DEF s

\* The nonces the relay has used for a channel before reply n + 1.
EarlierChunks(n, from) ==
    [j \in 1..n |-> IF script.replies[j].from = from
                    THEN split(script.replies[j].payload, 0) ELSE <<>>]

LEMMA Replies ==
    ASSUME FitInv
    PROVE  /\ IsVec(script.replies) /\ Len(script.replies) \in Nat
           /\ DOMAIN script.replies = 1..Len(script.replies)
           /\ \A i \in 1..Len(script.replies) : IsReply(script.replies[i])
<1>1. /\ IsVec(script.replies)
      /\ \A i \in DOMAIN script.replies : IsReply(script.replies[i])
  BY ScriptsAssumption DEF FitInv, TodoInv
<1>2. Len(script.replies) \in Nat /\ DOMAIN script.replies = 1..Len(script.replies)
  BY <1>1, VecIsSeq DEF IsVec
<1> QED
  BY <1>1, <1>2

LEMMA OpaqueReply ==
    ASSUME FitInv, NEW i \in 1..Len(script.replies),
           script.replies[i].from \in Keys \cup {"server"}
    PROVE  LET reply == script.replies[i]
           IN IsVec(reply.payload) /\ IsOption(reply.session)
              /\ reply.encoding \in DOMAIN EncodingId
<1>1. IsReply(script.replies[i]) /\ script.replies[i].from # "transparent"
  BY Replies, EventLoopAssumption
<1> QED
  BY <1>1 DEF IsReply

LEMMA EarlierVecs ==
    ASSUME FitInv, NEW n \in 0..Len(script.replies), NEW from \in Keys \cup {"server"}
    PROVE  /\ Vecs(EarlierChunks(n, from)) /\ Len(EarlierChunks(n, from)) = n
           /\ Len(FlattenSeq(EarlierChunks(n, from))) \in Nat
<1> DEFINE ss == EarlierChunks(n, from)
<1>0. n \in Nat /\ Len(script.replies) \in Nat
  BY Replies
<1>1. IsVec(ss) /\ Len(ss) = n
  BY <1>0 DEF EarlierChunks, IsVec
<1>2. ASSUME NEW j \in 1..n PROVE IsVec(ss[j])
  <2>1. j \in 1..Len(script.replies)
    BY <1>0
  <2>2. CASE script.replies[j].from = from
    <3>1. IsVec(script.replies[j].payload)
      BY <2>1, <2>2, OpaqueReply
    <3>2. IsVec(split(script.replies[j].payload, 0))
      BY <3>1, SplitShape
    <3> QED
      BY <2>2, <3>2 DEF EarlierChunks
  <2>3. CASE script.replies[j].from # from
    BY <2>3, EmptyVec DEF EarlierChunks
  <2> QED
    BY <2>2, <2>3
<1> HIDE DEF ss
<1>3. Vecs(ss)
  BY <1>1, <1>2 DEF Vecs
<1>4. Len(FlattenSeq(ss)) \in Nat
  BY <1>3, FlattenVec DEF IsVec
<1> QED
  BY <1>1, <1>3, <1>4 DEF ss

LEMMA EarlierNat ==
    ASSUME FitInv, NEW i \in 1..Len(script.replies), NEW from \in Keys \cup {"server"}
    PROVE  /\ Earlier(i, from) = Len(FlattenSeq(EarlierChunks(i - 1, from)))
           /\ Earlier(i, from) \in Nat
<1>1. i - 1 \in 0..Len(script.replies)
  BY Replies
<1>2. Earlier(i, from) = Len(FlattenSeq(EarlierChunks(i - 1, from)))
  BY DEF Earlier, EarlierChunks
<1> QED
  BY <1>1, <1>2, EarlierVecs

LEMMA ReplyIsMessage ==
    ASSUME FitInv, NEW i \in 1..Len(script.replies)
    PROVE  IsFor(ReplyMessage(i))
<1> DEFINE reply == script.replies[i]
           envelope == [encoding |-> reply.encoding, broadcast |-> FALSE,
                        chunks |-> split(reply.payload, Earlier(i, reply.from))]
<1>0. IsReply(reply)
  BY Replies
<1>1. CASE reply.from = "transparent"
  <2>1. /\ IsMessage(reply.message) /\ reply.message.class = "Transparent"
        /\ reply.message.type = "PeerHandshake" => reply.message.key \in Keys
    BY <1>0, <1>1, EventLoopAssumption DEF IsReply
  <2>2. reply.message.type # "PeerMessage"
    BY <2>1 DEF IsMessage
  <2>3. ReplyMessage(i) = reply.message
    BY <1>1 DEF ReplyMessage
  <2> QED
    BY <2>1, <2>2, <2>3 DEF IsFor
<1>2. CASE reply.from # "transparent"
  <2>1. reply.from \in Keys \cup {"server"}
    BY <1>0, <1>2 DEF IsReply
  <2>2. /\ IsVec(reply.payload) /\ IsOption(reply.session)
        /\ reply.encoding \in DOMAIN EncodingId
    BY <2>1, OpaqueReply
  <2>3. IsEnvelope(envelope)
    BY <2>1, <2>2, EarlierNat, EnvelopeOfPayload
  <2> HIDE DEF envelope
  <2>4. CASE reply.from = "server"
    <3>1. ReplyMessage(i) = [class |-> "Opaque", type |-> "ServerMessage",
                             envelope |-> envelope]
      BY <2>4 DEF ReplyMessage, envelope
    <3> QED
      BY <2>3, <3>1 DEF IsFor, IsMessage
  <2>5. CASE reply.from # "server"
    <3>1. ReplyMessage(i) = [class |-> "Opaque", type |-> "PeerMessage",
                             key |-> reply.from, session |-> reply.session,
                             envelope |-> envelope]
      BY <1>2, <2>5 DEF ReplyMessage, envelope
    <3> QED
      BY <2>1, <2>2, <2>3, <2>5, <3>1 DEF IsFor, IsMessage
  <2> QED
    BY <2>4, <2>5
<1> QED
  BY <1>1, <1>2

\* read_message: a frame of another version is refused, and the others are
\* what the relay sent.
LEMMA FrameDecoded ==
    ASSUME FitInv, NEW i \in 1..Len(script.replies)
    PROVE  IF script.replies[i].version = Version
           THEN decode(ReplyFrame(i)) = ReplyMessage(i) /\ ReplyMessage(i) # DecodeError
           ELSE decode(ReplyFrame(i)) = DecodeError
<1> DEFINE m == ReplyMessage(i)
           t == encode(m)
           v == script.replies[i].version
<1>1. IsMessage(m)
  BY ReplyIsMessage DEF IsFor
<1> HIDE DEF m
<1>2. /\ IsVec(t) /\ 2 \in DOMAIN t /\ t[1] = Identity /\ t[2] = Version
      /\ decode(t) = m
  BY <1>1, MessageBack
<1>3. ReplyFrame(i) = [t EXCEPT ![2] = v]
  BY DEF ReplyFrame, m
<1>4. CASE v = Version
  <2>1. [t EXCEPT ![2] = v] = t
    BY <1>2, <1>4 DEF IsVec
  <2>2. m # DecodeError
    BY <1>1 DEF IsMessage, DecodeError
  <2> QED
    BY <1>2, <1>3, <1>4, <2>1, <2>2 DEF m
<1>5. CASE v # Version
  <2>1. ReplyFrame(i)[2] = v
    BY <1>2, <1>3
  <2> QED
    BY <1>5, <2>1 DEF decode
<1> QED
  BY <1>4, <1>5

LEMMA HeldOne ==
    ASSUME TypeInv, FitInv, NEW c \in Callers, NEW request, IsRequest(request),
           Hold(c, request), UNCHANGED outbound
    PROVE  RequestsInv'
<1>1. held' = [held EXCEPT ![c] = {request}] /\ DOMAIN held = Callers
  BY DEF Hold, FitInv, HeldInv
<1>2. ASSUME NEW d \in Callers
      PROVE  held'[d] = {} \/ \E r : IsRequest(r) /\ held'[d] = {r}
  BY <1>1 DEF TypeInv, RequestsInv
<1> QED
  BY <1>2 DEF TypeInv, RequestsInv

LEMMA HeldNone ==
    ASSUME TypeInv, FitInv, NEW c \in Callers, held' = [held EXCEPT ![c] = {}]
    PROVE  \A d \in Callers : held'[d] = {} \/ \E r : IsRequest(r) /\ held'[d] = {r}
  BY DEF TypeInv, RequestsInv, FitInv, HeldInv

LEMMA TypeCaller ==
    ASSUME TypeInv, FitInv, NEW c \in Callers, Caller(c)
    PROVE  TypeInv'
<1>0. /\ UNCHANGED <<script, inbound, read, written, events>>
      /\ InboundInv' /\ HandlerInv' /\ FramesInv'
  <2>1. UNCHANGED <<script, inbound, read, written, events>>
    BY DEF Caller, Connect, ConnectPeer, Request, Relay, Close, Refuse, Panic, Queue,
           QueueFails, channels
  <2>2. loop = [pc |-> loop.pc, message |-> loop.message]
    BY DEF FitInv, LoopInv
  <2>3. HandlerInv'
    BY <2>2, CallerLoop DEF TypeInv, HandlerInv
  <2> QED
    BY <2>1, <2>3 DEF TypeInv, InboundInv, FramesInv
<1>1. ASSUME UNCHANGED <<held, outbound>> PROVE RequestsInv'
  BY <1>1 DEF TypeInv, RequestsInv
<1>2. ASSUME UNCHANGED asked PROVE HistoryInv'
  BY <1>2 DEF TypeInv, HistoryInv
<1>3. ASSUME UNCHANGED <<server, peers, lock>> PROVE ChannelsInv'
  BY <1>3 DEF TypeInv, ChannelsInv
<1>4. CASE Connect(c)
  <2>1. IsRequest(ServerHandshake("Initiator"))
    BY DEF IsRequest, IsFor, IsMessage, ServerHandshake, HandshakeId
  <2> QED
    BY <1>0, <1>2, <1>3, <1>4, <2>1, HeldOne DEF Connect, channels, TypeInv
<1>5. CASE ConnectPeer(c)
  <2> DEFINE key == Head(todo[c]).key
  <2>1. key \in Keys
    <3>1. Head(todo[c]) \in CallsOf(script) /\ Head(todo[c]).call = "connect_peer"
      BY <1>0, <1>5, FitCall DEF ConnectPeer
    <3>2. IsCall(Head(todo[c]))
      BY <3>1, ScriptsAssumption DEF FitInv, TodoInv
    <3> QED
      BY <3>1, <3>2 DEF IsCall
  <2>2. IsRequest(Handshake("PeerHandshake", "Initiator", key))
    BY <2>1 DEF IsRequest, IsFor, IsMessage, Handshake, HandshakeId
  <2>3. ChannelsInv'
    <3>1. peers' = [peers EXCEPT ![key].status = "handshake"] /\ UNCHANGED <<server, lock>>
      BY <1>5 DEF ConnectPeer
    <3> HIDE DEF key
    <3> QED
      BY <2>1, <3>1 DEF TypeInv, ChannelsInv, Channels, Status
  <2> QED
    BY <1>0, <1>2, <1>5, <2>2, <2>3, HeldOne DEF ConnectPeer, channels, TypeInv
<1>6. CASE Request(c)
  <2> DEFINE message == Head(todo[c]).message
             envelope == Envelope(encode_server(message), server, "Blob", FALSE)
             request == [class |-> "Opaque", type |-> "ServerMessage",
                         envelope |-> envelope]
  <2>1. IsServerMessage(message)
    <3>1. Head(todo[c]) \in CallsOf(script) /\ Head(todo[c]).call = "request"
      BY <1>0, <1>6, FitCall DEF Request
    <3>2. IsCall(Head(todo[c]))
      BY <3>1, ScriptsAssumption DEF FitInv, TodoInv
    <3> QED
      BY <3>1, <3>2 DEF IsCall
  <2>2. /\ server' = Encrypted(server, envelope) /\ Hold(c, request)
        /\ asked' = [asked EXCEPT !.server = Append(@, message)]
        /\ UNCHANGED <<peers, lock, outbound>>
    BY <1>6 DEF Request, channels
  <2>3. IsVec(encode_server(message)) /\ server.sent \in Nat
    BY <2>1, ServerMessageBack DEF TypeInv, ChannelsInv, Channels
  <2> HIDE DEF message
  <2>4. IsEnvelope(envelope) /\ Len(envelope.chunks) \in Nat
    <3>1. IsEnvelope(envelope)
      BY <2>3, EnvelopeOfPayload DEF Envelope, EncodingId
    <3> QED
      BY <3>1 DEF IsEnvelope, IsVec
  <2> HIDE DEF envelope
  <2>5. IsRequest(request)
    BY <2>4 DEF IsRequest, IsFor, IsMessage
  <2>6. RequestsInv'
    BY <2>2, <2>5, HeldOne
  <2>7. ChannelsInv'
    BY <2>2, <2>4 DEF TypeInv, ChannelsInv, Channels, Encrypted
  <2>8. HistoryInv'
    <3>1. IsVec(asked.server) /\ Len(asked.server) \in Nat
      BY DEF TypeInv, HistoryInv, IsVec
    <3>0. asked = [server |-> asked.server, peers |-> asked.peers]
      BY DEF TypeInv, HistoryInv
    <3>5. /\ asked' = [server |-> Append(asked.server, message),
                       peers |-> asked.peers]
      <4> DEFINE list == Append(asked.server, message)
      <4>1. asked' = [asked EXCEPT !.server = list]
        BY <2>2
      <4> HIDE DEF list
      <4>2. asked' = [server |-> list, peers |-> asked.peers]
        BY ONLY <3>0, <4>1
      <4> QED
        BY <4>2 DEF list
    <3>2. asked'.server = Append(asked.server, message)
      BY <3>5
    <3>6. asked'.peers = asked.peers
      BY <3>5
    <3> DEFINE list == Append(asked.server, message)
    <3>8. /\ IsVec(list) /\ Len(list) = Len(asked.server) + 1
          /\ \A j \in 1..Len(asked.server) : list[j] = asked.server[j]
          /\ list[Len(asked.server) + 1] = message
      BY <3>1, VecAppend
    <3> HIDE DEF list
    <3>9. asked'.server = list
      BY <3>2 DEF list
    <3>3. IsVec(asked'.server)
      BY <3>8, <3>9
    <3>4. ASSUME NEW j \in 1..Len(asked'.server) PROVE IsServerMessage(asked'.server[j])
      <4>1. j \in 1..Len(asked.server) \/ j = Len(asked.server) + 1
        BY <3>1, <3>8, <3>9
      <4>2. CASE j \in 1..Len(asked.server)
        BY <3>8, <3>9, <4>2 DEF TypeInv, HistoryInv
      <4>3. CASE j = Len(asked.server) + 1
        BY <2>1, <3>8, <3>9, <4>3 DEF message
      <4> QED
        BY <4>1, <4>2, <4>3
    <3>7. asked' = [server |-> asked'.server, peers |-> asked'.peers]
      BY <3>5
    <3> QED
      BY <3>3, <3>4, <3>6, <3>7 DEF TypeInv, HistoryInv
  <2> QED
    BY <1>0, <2>6, <2>7, <2>8 DEF TypeInv
<1>7. CASE Relay(c)
  <2> DEFINE call == Head(todo[c])
             envelope == Envelope(call.payload, peers[call.key], call.encoding,
                                  call.broadcast)
             request == [class |-> "Opaque", type |-> "PeerMessage",
                         key |-> call.key, session |-> call.session,
                         envelope |-> envelope]
  <2>1. /\ call.key \in Keys /\ IsVec(call.payload) /\ IsOption(call.session)
        /\ call.encoding \in DOMAIN EncodingId
    <3>1. call \in CallsOf(script) /\ call.call = "relay"
      BY <1>0, <1>7, FitCall DEF Relay
    <3>2. IsCall(call)
      BY <3>1, ScriptsAssumption DEF FitInv, TodoInv
    <3> QED
      BY <3>1, <3>2 DEF IsCall
  <2>2. /\ peers' = [peers EXCEPT ![call.key] = Encrypted(@, envelope)]
        /\ Hold(c, request) /\ lock' = c
        /\ asked' = [asked EXCEPT !.peers[call.key] = Append(@, call.payload)]
        /\ UNCHANGED <<server, outbound>>
    BY <1>7 DEF Relay, channels
  <2> HIDE DEF call
  <2>3. IsEnvelope(envelope) /\ Len(envelope.chunks) \in Nat
    <3>1. peers[call.key].sent \in Nat
      BY <2>1 DEF TypeInv, ChannelsInv, Channels
    <3>2. IsEnvelope(envelope)
      BY <2>1, <3>1, EnvelopeOfPayload DEF Envelope
    <3> QED
      BY <3>2 DEF IsEnvelope, IsVec
  <2> HIDE DEF envelope
  <2>4. IsRequest(request)
    BY <2>1, <2>3 DEF IsRequest, IsFor, IsMessage
  <2>5. RequestsInv'
    BY <2>2, <2>4, HeldOne
  <2>6. ChannelsInv'
    BY <2>1, <2>2, <2>3 DEF TypeInv, ChannelsInv, Channels, Encrypted
  <2>7. HistoryInv'
    <3>1. IsVec(Append(asked.peers[call.key], call.payload))
      BY <2>1, VecAppend DEF TypeInv, HistoryInv
    <3>2. /\ asked'.server = asked.server
          /\ asked'.peers = [asked.peers EXCEPT ![call.key] = Append(@, call.payload)]
          /\ asked' = [server |-> asked'.server, peers |-> asked'.peers]
      BY <2>2 DEF TypeInv, HistoryInv
    <3> QED
      BY <3>1, <3>2 DEF TypeInv, HistoryInv
  <2> QED
    BY <1>0, <2>5, <2>6, <2>7 DEF TypeInv
<1>8. CASE Close(c)
  <2>1. IsRequest([class |-> "Close"])
    BY DEF IsRequest
  <2> QED
    BY <1>0, <1>2, <1>3, <1>8, <2>1, HeldOne DEF Close, channels, TypeInv
<1>9. CASE Refuse(c) \/ Panic(c)
  BY <1>0, <1>1, <1>2, <1>3, <1>9 DEF Refuse, Panic, channels, TypeInv
<1>10. CASE Queue(c)
  <2>1. PICK request \in held[c] : outbound' = Append(outbound, request)
    BY <1>10 DEF Queue
  <2>2. IsRequest(request)
    BY DEF TypeInv, RequestsInv
  <2>3. /\ IsVec(outbound) /\ Len(outbound) \in Nat /\ Capacity \in Nat
        /\ Len(outbound) < Capacity
    BY <1>10, EventLoopAssumption DEF Queue, TypeInv, RequestsInv, IsVec
  <2>4. /\ IsVec(outbound') /\ Len(outbound') <= Capacity
        /\ \A j \in 1..Len(outbound') : IsRequest(outbound'[j])
    <3>1. Len(outbound') = Len(outbound) + 1 /\ IsVec(outbound')
      BY <2>1, <2>3, VecAppend
    <3>2. ASSUME NEW j \in 1..Len(outbound') PROVE IsRequest(outbound'[j])
      <4>1. j \in 1..Len(outbound) \/ j = Len(outbound) + 1
        BY <2>3, <3>1
      <4> QED
        BY <2>1, <2>2, <2>3, <4>1, VecAppend DEF TypeInv, RequestsInv
    <3> QED
      BY <2>3, <3>1, <3>2
  <2>5. RequestsInv'
    BY <1>10, <2>4, HeldNone DEF Queue, RequestsInv
  <2>6. ChannelsInv'
    BY <1>10 DEF Queue, TypeInv, ChannelsInv
  <2> QED
    BY <1>0, <1>2, <1>10, <2>5, <2>6 DEF Queue, TypeInv
<1>11. CASE QueueFails(c)
  <2>1. RequestsInv'
    BY <1>11, HeldNone DEF QueueFails, channels, TypeInv, RequestsInv
  <2>2. ChannelsInv'
    BY <1>11 DEF QueueFails, TypeInv, ChannelsInv
  <2> QED
    BY <1>0, <1>2, <1>11, <2>1, <2>2 DEF QueueFails, TypeInv
<1> QED
  BY <1>4, <1>5, <1>6, <1>7, <1>8, <1>9, <1>10, <1>11 DEF Caller

\* What a step of the event loop that ends in an event, or in none, leaves.
LEMMA TypeYield ==
    ASSUME TypeInv, NEW event, Yield(event)
    PROVE  HandlerInv' /\ IsVec(events') /\ UNCHANGED held
  BY VecAppend DEF Yield, HandlerInv, TypeInv, FramesInv

LEMMA TypeNoEvent ==
    ASSUME TypeInv, NoEvent \/ HandlerPanics
    PROVE  HandlerInv' /\ IsVec(events') /\ UNCHANGED held
  BY DEF NoEvent, HandlerPanics, HandlerInv, TypeInv, FramesInv, tasks

LEMMA InboundHead ==
    ASSUME TypeInv, inbound # <<>>
    PROVE  /\ IsFor(Head(inbound))
           /\ inbound' = Tail(inbound) => InboundInv'
<1>1. IsVec(inbound) /\ Capacity \in Nat
  BY EventLoopAssumption DEF TypeInv, InboundInv
<1>2. /\ IsVec(Tail(inbound)) /\ Len(Tail(inbound)) = Len(inbound) - 1
      /\ \A q \in 1..(Len(inbound) - 1) : Tail(inbound)[q] = inbound[q + 1]
      /\ Head(inbound) = inbound[1] /\ Len(inbound) \in Nat /\ Len(inbound) >= 1
  BY <1>1, VecTail
<1>3. IsFor(Head(inbound))
  BY <1>2 DEF TypeInv, InboundInv
<1>4. ASSUME NEW q \in 1..Len(Tail(inbound)) PROVE IsFor(Tail(inbound)[q])
  <2>1. q \in 1..(Len(inbound) - 1) /\ q + 1 \in 1..Len(inbound)
    BY <1>2
  <2> QED
    BY <1>2, <2>1 DEF TypeInv, InboundInv
<1>5. Len(Tail(inbound)) <= Capacity
  BY <1>1, <1>2 DEF TypeInv, InboundInv
<1> QED
  BY <1>2, <1>3, <1>4, <1>5 DEF InboundInv

LEMMA OutboundHead ==
    ASSUME TypeInv, outbound # <<>>
    PROVE  /\ IsRequest(Head(outbound))
           /\ outbound' = Tail(outbound) /\ UNCHANGED held => RequestsInv'
<1>1. IsVec(outbound) /\ Capacity \in Nat
  BY EventLoopAssumption DEF TypeInv, RequestsInv
<1>2. /\ IsVec(Tail(outbound)) /\ Len(Tail(outbound)) = Len(outbound) - 1
      /\ \A q \in 1..(Len(outbound) - 1) : Tail(outbound)[q] = outbound[q + 1]
      /\ Head(outbound) = outbound[1] /\ Len(outbound) \in Nat /\ Len(outbound) >= 1
  BY <1>1, VecTail
<1>3. IsRequest(Head(outbound))
  BY <1>2 DEF TypeInv, RequestsInv
<1>4. ASSUME NEW q \in 1..Len(Tail(outbound)) PROVE IsRequest(Tail(outbound)[q])
  <2>1. q \in 1..(Len(outbound) - 1) /\ q + 1 \in 1..Len(outbound)
    BY <1>2
  <2> QED
    BY <1>2, <2>1 DEF TypeInv, RequestsInv
<1>5. Len(Tail(outbound)) <= Capacity
  BY <1>1, <1>2 DEF TypeInv, RequestsInv
<1>6. ASSUME outbound' = Tail(outbound), UNCHANGED held PROVE RequestsInv'
  BY <1>2, <1>4, <1>5, <1>6 DEF TypeInv, RequestsInv
<1> QED
  BY <1>3, <1>6

\* A decoded envelope adds a number of chunks to the count of its channel.
LEMMA DecryptedChannel ==
    ASSUME NEW channel \in Channels, NEW e, IsEnvelope(e)
    PROVE  Decrypted(channel, e) \in Channels
<1>1. Len(e.chunks) \in Nat
  BY DEF IsEnvelope, IsVec
<1> QED
  BY <1>1 DEF Decrypted, Channels

\* send_message writes a request that fits; the others are not messages.
LEMMA WriteCases ==
    ASSUME FitInv, TypeInv, WriteFrame
    PROVE  /\ outbound # <<>> /\ outbound' = Tail(outbound)
           /\ UNCHANGED <<script, server, peers, lock, inbound, read, asked>>
           /\ \/ /\ Head(outbound).class = "Close"
                 /\ loop' = [pc |-> "closed", message |-> NoMessage]
                 /\ events' = Append(events, [event |-> "Close"])
                 /\ UNCHANGED <<tasks, written>>
              \/ /\ IsFor(Head(outbound))
                 /\ NoEvent /\ written' = Append(written, encode(Head(outbound)))
<1>1. /\ outbound # <<>> /\ outbound' = Tail(outbound)
      /\ UNCHANGED <<script, server, peers, lock, inbound, read, asked>>
  BY DEF WriteFrame
<1>2. Fine(Head(outbound))
  <2>1. PICK S : outbound \in Seq(S) /\ \A r \in S : Fine(r)
    BY DEF FitInv, OutboundInv
  <2> QED
    BY <1>1, <2>1, TakeOne
<1>3. CASE Head(outbound).class = "Close"
  BY <1>1, <1>3 DEF WriteFrame
<1>4. CASE Head(outbound).class # "Close"
  <2>1. NoEvent /\ written' = Append(written, encode(Head(outbound)))
    BY <1>2, <1>4 DEF WriteFrame, Fine
  <2>2. IsFor(Head(outbound))
    BY <1>1, <1>4, OutboundHead DEF IsRequest
  <2> QED
    BY <1>1, <2>1, <2>2
<1> QED
  BY <1>3, <1>4

LEMMA TypeLoop ==
    ASSUME TypeInv, FitInv, LoopStep
    PROVE  TypeInv'
<1>1. ASSUME UNCHANGED <<held, outbound>> PROVE RequestsInv'
  BY <1>1 DEF TypeInv, RequestsInv
<1>2. ASSUME UNCHANGED asked PROVE HistoryInv'
  BY <1>2 DEF TypeInv, HistoryInv
<1>3. ASSUME UNCHANGED <<server, peers, lock>> PROVE ChannelsInv'
  BY <1>3 DEF TypeInv, ChannelsInv
<1>4. ASSUME UNCHANGED inbound PROVE InboundInv'
  BY <1>4 DEF TypeInv, InboundInv
<1>5. ASSUME UNCHANGED <<script, read, written>>, IsVec(events') PROVE FramesInv'
  BY <1>5 DEF TypeInv, FramesInv
<1>6. IsVec(events)
  BY DEF TypeInv, FramesInv
<1>7. CASE ReadFrame
  <2>0. /\ read' = read + 1
        /\ UNCHANGED <<script, server, peers, lock, inbound, outbound, written, asked>>
    BY <1>7 DEF ReadFrame, channels
  <2>1. read + 1 \in 1..Len(script.replies)
    BY <1>7, Replies DEF ReadFrame, Available
  <2> DEFINE message == decode(ReplyFrame(read + 1))
  <2>2. message = DecodeError \/ IsFor(message)
    BY <2>1, FrameDecoded, ReplyIsMessage
  <2>3. HandlerInv' /\ IsVec(events') /\ UNCHANGED held
    <3>1. CASE message = DecodeError
      BY <1>7, <3>1, TypeYield DEF ReadFrame
    <3>2. CASE message # DecodeError
      <4>1. loop' = [pc |-> "read", message |-> message] /\ UNCHANGED <<events, held>>
        BY <1>7, <3>2 DEF ReadFrame, tasks
      <4> HIDE DEF message
      <4> QED
        BY <1>6, <2>2, <3>2, <4>1 DEF HandlerInv
    <3> QED
      BY <3>1, <3>2
  <2>4. FramesInv'
    <3>1. read + 1 \in 0..Len(script.replies)
      BY <2>1
    <3> QED
      BY <2>0, <2>3, <3>1 DEF TypeInv, FramesInv
  <2> QED
    BY <1>1, <1>2, <1>3, <1>4, <2>0, <2>3, <2>4 DEF TypeInv
<1>8. CASE QueueResponse
  <2>0. /\ inbound' = Append(inbound, loop.message) /\ Len(inbound) < Capacity
        /\ loop.pc = "read" /\ loop' = [pc |-> "select", message |-> NoMessage]
        /\ UNCHANGED <<script, server, peers, lock, held, outbound, read, written,
                       events, asked>>
    BY <1>8 DEF QueueResponse, tasks
  <2>1. IsFor(loop.message) /\ HandlerInv'
    BY <2>0 DEF TypeInv, HandlerInv
  <2>2. IsVec(inbound) /\ Len(inbound) \in Nat /\ Capacity \in Nat
    BY EventLoopAssumption DEF TypeInv, InboundInv, IsVec
  <2>3. InboundInv'
    <3>1. Len(inbound') = Len(inbound) + 1 /\ IsVec(inbound')
      BY <2>0, <2>2, VecAppend
    <3>2. ASSUME NEW j \in 1..Len(inbound') PROVE IsFor(inbound'[j])
      <4>1. j \in 1..Len(inbound) \/ j = Len(inbound) + 1
        BY <2>2, <3>1
      <4> QED
        BY <2>0, <2>1, <2>2, <4>1, VecAppend DEF TypeInv, InboundInv
    <3> QED
      BY <2>0, <2>2, <3>1, <3>2 DEF InboundInv
  <2> QED
    BY <1>1, <1>2, <1>3, <1>5, <1>6, <2>0, <2>1, <2>3 DEF TypeInv
<1>9. CASE WriteFrame
  <2>0. /\ outbound # <<>> /\ outbound' = Tail(outbound)
        /\ UNCHANGED <<script, server, peers, lock, inbound, read, asked>>
    BY <1>9, WriteCases
  <2>1. HandlerInv' /\ FramesInv' /\ UNCHANGED held
    <3>1. CASE /\ loop' = [pc |-> "closed", message |-> NoMessage]
               /\ events' = Append(events, [event |-> "Close"])
               /\ UNCHANGED <<tasks, written>>
      <4>1. IsVec(events')
        BY <1>6, <3>1, VecAppend
      <4> QED
        BY <1>5, <2>0, <3>1, <4>1 DEF HandlerInv, tasks
    <3>2. CASE /\ IsFor(Head(outbound))
               /\ NoEvent /\ written' = Append(written, encode(Head(outbound)))
      <4> DEFINE t == encode(Head(outbound))
      <4>1. decode(t) = Head(outbound)
        BY <3>2, MessageBack DEF IsFor
      <4>2. IsVec(written) /\ Len(written) \in Nat
        BY DEF TypeInv, FramesInv, IsVec
      <4> HIDE DEF t
      <4>3. written' = Append(written, t) /\ IsFor(decode(t))
        BY <3>2, <4>1 DEF t
      <4>4. IsVec(written') /\ Len(written') = Len(written) + 1
        BY <4>2, <4>3, VecAppend
      <4>5. ASSUME NEW j \in 1..Len(written') PROVE IsFor(decode(written'[j]))
        <5>1. j \in 1..Len(written) \/ j = Len(written) + 1
          BY <4>2, <4>4
        <5>2. CASE j \in 1..Len(written)
          <6>1. written'[j] = written[j]
            BY <4>2, <4>3, <5>2, VecAppend
          <6> QED
            BY <5>2, <6>1 DEF TypeInv, FramesInv
        <5>3. CASE j = Len(written) + 1
          BY <4>2, <4>3, <5>3, VecAppend
        <5> QED
          BY <5>1, <5>2, <5>3
      <4>6. HandlerInv' /\ IsVec(events') /\ UNCHANGED held
        BY <3>2, TypeNoEvent
      <4> QED
        BY <2>0, <4>4, <4>5, <4>6 DEF TypeInv, FramesInv
    <3> QED
      BY <1>9, <3>1, <3>2, WriteCases
  <2>2. RequestsInv'
    BY <2>0, <2>1, OutboundHead
  <2> QED
    BY <1>2, <1>3, <1>4, <2>0, <2>1, <2>2 DEF TypeInv
<1>10. ASSUME NEW types, Take(types)
       PROVE  /\ inbound # <<>> /\ inbound' = Tail(inbound) /\ IsFor(Head(inbound))
              /\ InboundInv' /\ Head(inbound).type \in types
              /\ UNCHANGED <<script, peers, lock, outbound, read, written, asked>>
  BY <1>10, InboundHead DEF Take
<1>11. ASSUME NEW types, Take(types), HandlerInv', IsVec(events'), UNCHANGED held,
              server' \in Channels
       PROVE  TypeInv'
  <2>1. ChannelsInv'
    BY <1>10, <1>11 DEF TypeInv, ChannelsInv
  <2> QED
    BY <1>1, <1>2, <1>5, <1>10, <1>11, <2>1 DEF TypeInv
<1>12. server \in Channels
  BY DEF TypeInv, ChannelsInv
<1>13. CASE TakeError
  BY <1>11, <1>12, <1>13, TypeYield DEF TakeError
<1>14. CASE TakeServerHandshake
  <2>1. server' \in Channels
    BY <1>12, <1>14 DEF TakeServerHandshake, Channels, Status
  <2> QED
    BY <1>11, <1>14, <2>1, TypeYield DEF TakeServerHandshake
<1>u. CASE TakeUnhandled
  BY <1>11, <1>12, <1>u, TypeNoEvent DEF TakeUnhandled
<1>15. CASE TakeServerMessage
  <2> DEFINE envelope == Head(inbound).envelope
  <2>1. Take({"ServerMessage"})
    BY <1>15 DEF TakeServerMessage
  <2>2. IsEnvelope(envelope)
    <3>1. IsFor(Head(inbound)) /\ Head(inbound).type = "ServerMessage"
      BY <1>10, <2>1
    <3> QED
      BY <3>1 DEF IsFor, IsMessage
  <2>3. server' = server \/ server' = Decrypted(server, envelope)
    BY <1>15 DEF TakeServerMessage
  <2>4. server' \in Channels
    <3> HIDE DEF envelope
    <3> QED
      BY <1>12, <2>2, <2>3, DecryptedChannel
  <2>5. NoEvent \/ HandlerPanics \/ \E event : Yield(event)
    BY <1>15 DEF TakeServerMessage
  <2> QED
    BY <1>11, <2>1, <2>4, <2>5, TypeYield, TypeNoEvent
<1>16. CASE TakePeer
  <2>1. HandlerInv' /\ IsVec(events') /\ UNCHANGED held /\ server' = server
    <3>1. /\ Take({"PeerHandshake", "PeerMessage"})
          /\ loop' = [pc |-> "lock", message |-> Head(inbound)]
          /\ UNCHANGED <<server, events, held>>
      BY <1>16 DEF TakePeer, tasks
    <3>2. IsFor(Head(inbound)) /\ Head(inbound).type \in {"PeerHandshake", "PeerMessage"}
      BY <1>10, <3>1
    <3> QED
      BY <1>6, <3>1, <3>2 DEF HandlerInv
  <2> QED
    BY <1>11, <1>12, <1>16, <2>1 DEF TakePeer
<1>17. CASE PeerHandshakeResponder
  <2> DEFINE key == loop.message.key
  <2>0. /\ UNCHANGED <<script, server, inbound, outbound, read, written, asked>>
        /\ key \in Keys
    BY <1>17 DEF PeerHandshakeResponder, channels, TypeInv, HandlerInv, IsFor
  <2>1. CASE peers[key].status # "none"
    <3>1. Yield(Err("PeerAlreadyExistsMaybeRace")) /\ UNCHANGED <<peers, lock>>
      BY <1>17, <2>1 DEF PeerHandshakeResponder
    <3> QED
      BY <1>1, <1>2, <1>3, <1>4, <1>5, <2>0, <3>1, TypeYield DEF TypeInv
  <2>2. CASE peers[key].status = "none"
    <3>1. /\ peers' = [peers EXCEPT ![key].status = "transport"] /\ lock' = Loop
          /\ loop' = [pc |-> "reply",
                      message |-> Handshake("PeerHandshake", "Responder", key)]
          /\ UNCHANGED <<events, held>>
      BY <1>17, <2>2 DEF PeerHandshakeResponder, tasks
    <3> HIDE DEF key
    <3>2. HandlerInv'
      BY <2>0, <3>1 DEF HandlerInv
    <3>3. ChannelsInv'
      BY <2>0, <3>1 DEF TypeInv, ChannelsInv, Channels, Status
    <3> QED
      BY <1>1, <1>2, <1>4, <1>5, <1>6, <2>0, <3>1, <3>2, <3>3 DEF TypeInv
  <2> QED
    BY <2>1, <2>2
<1>18. CASE QueueReply
  <2>0. /\ outbound' = Append(outbound, loop.message) /\ Len(outbound) < Capacity
        /\ loop.pc = "reply" /\ lock' = NoOne
        /\ UNCHANGED <<script, server, peers, inbound, read, written, asked>>
        /\ HandlerInv' /\ IsVec(events') /\ UNCHANGED held
    BY <1>18, TypeYield DEF QueueReply
  <2>1. IsRequest(loop.message)
    <3>1. PICK k \in Keys : loop.message = Handshake("PeerHandshake", "Responder", k)
      BY <2>0 DEF TypeInv, HandlerInv
    <3> QED
      BY <3>1 DEF IsRequest, IsFor, IsMessage, Handshake, HandshakeId
  <2>2. IsVec(outbound) /\ Len(outbound) \in Nat /\ Capacity \in Nat
    BY EventLoopAssumption DEF TypeInv, RequestsInv, IsVec
  <2>3. RequestsInv'
    <3>1. Len(outbound') = Len(outbound) + 1 /\ IsVec(outbound')
      BY <2>0, <2>2, VecAppend
    <3>2. ASSUME NEW j \in 1..Len(outbound') PROVE IsRequest(outbound'[j])
      <4>1. j \in 1..Len(outbound) \/ j = Len(outbound) + 1
        BY <2>2, <3>1
      <4> QED
        BY <2>0, <2>1, <2>2, <4>1, VecAppend DEF TypeInv, RequestsInv
    <3>3. Len(outbound') <= Capacity
      BY <2>0, <2>2, <3>1
    <3> QED
      BY <2>0, <3>1, <3>2, <3>3 DEF TypeInv, RequestsInv
  <2>4. ChannelsInv'
    BY <2>0 DEF TypeInv, ChannelsInv
  <2> QED
    BY <1>2, <1>4, <1>5, <2>0, <2>3, <2>4 DEF TypeInv
<1>19. CASE PeerHandshakeAck
  <2> DEFINE key == loop.message.key
  <2>0. /\ UNCHANGED <<script, server, lock, inbound, outbound, read, written, asked>>
        /\ key \in Keys /\ \E event : Yield(event)
        /\ \/ peers' = [peers EXCEPT ![key].status = "transport"]
           \/ peers' = [peers EXCEPT ![key] = Channel("none")]
    BY <1>19 DEF PeerHandshakeAck, channels, TypeInv, HandlerInv, IsFor
  <2>1. ChannelsInv'
    <3> HIDE DEF key
    <3> QED
      BY <2>0 DEF TypeInv, ChannelsInv, Channels, Status, Channel
  <2> QED
    BY <1>1, <1>2, <1>4, <1>5, <2>0, <2>1, TypeYield DEF TypeInv
<1>20. CASE HandleRelayedMessage
  <2> DEFINE key == loop.message.key
             envelope == loop.message.envelope
  <2>0. /\ UNCHANGED <<script, server, lock, inbound, outbound, read, written, asked>>
        /\ \E event : Yield(event)
        /\ peers' = peers \/ peers' = [peers EXCEPT ![key] = Decrypted(@, envelope)]
    BY <1>20 DEF HandleRelayedMessage, channels
  <2>1. key \in Keys /\ IsEnvelope(envelope)
    <3>1. IsFor(loop.message) /\ loop.message.type = "PeerMessage"
      BY <1>20 DEF HandleRelayedMessage, TypeInv, HandlerInv
    <3> QED
      BY <3>1 DEF IsFor, IsMessage
  <2>2. ChannelsInv'
    <3> HIDE DEF key, envelope
    <3>1. peers[key] \in Channels
      BY <2>1 DEF TypeInv, ChannelsInv
    <3>2. Decrypted(peers[key], envelope) \in Channels
      BY <2>1, <3>1, DecryptedChannel
    <3> QED
      BY <2>0, <3>2 DEF TypeInv, ChannelsInv
  <2> QED
    BY <1>1, <1>2, <1>4, <1>5, <2>0, <2>2, TypeYield DEF TypeInv
<1> QED
  BY <1>7, <1>8, <1>9, <1>13, <1>u, <1>14, <1>15, <1>16, <1>17, <1>18, <1>19, <1>20
     DEF LoopStep, TakeResponse

LEMMA TypeNext == FitInv /\ TypeInv /\ [Next]_vars => TypeInv'
<1> SUFFICES ASSUME FitInv, TypeInv, [Next]_vars PROVE TypeInv'
  OBVIOUS
<1>1. CASE Poll
  BY <1>1
     DEF Poll, TypeInv, ChannelsInv, RequestsInv, InboundInv, HandlerInv, FramesInv,
         HistoryInv, FitInv, LoopInv, tasks, channels
<1>2. CASE UNCHANGED vars
  BY <1>2
     DEF vars, TypeInv, ChannelsInv, RequestsInv, InboundInv, HandlerInv, FramesInv,
         HistoryInv, tasks, channels
<1> QED
  BY <1>1, <1>2, TypeCaller, TypeLoop DEF Next

\* The variables of a client have their types, whatever its tasks call and
\* whatever the relay sends: neither channel of run() holds more than its
\* capacity, every nonce is a number, and no reader is handed less than the
\* writer wrote.
THEOREM TypeCorrect == Spec => []TypeOK
<1>1. TypeInv => TypeOK
  <2> SUFFICES ASSUME TypeInv PROVE TypeOK
    OBVIOUS
  <2>1. \A c \in Callers : Cardinality(held[c]) <= 1
    <3> SUFFICES ASSUME NEW c \in Callers PROVE Cardinality(held[c]) <= 1
      OBVIOUS
    <3>1. held[c] = {} \/ \E r : held[c] = {r}
      BY DEF TypeInv, RequestsInv
    <3>2. CASE held[c] = {}
      <4>1. Cardinality({}) = 0
        BY FS_EmptySet
      <4> QED
        BY <3>2, <4>1
    <3>3. CASE held[c] # {}
      <4>1. PICK r : held[c] = {r}
        BY <3>1, <3>3
      <4>2. Cardinality({r}) = 1
        BY FS_Singleton
      <4> QED
        BY <4>1, <4>2
    <3> QED
      BY <3>2, <3>3
  <2>2. IsChannel(server) /\ \A k \in Keys : IsChannel(peers[k])
    BY DEF TypeInv, ChannelsInv, Channels, IsChannel
  <2> QED
    BY <2>1, <2>2
       DEF TypeOK, TypeInv, ChannelsInv, RequestsInv, InboundInv, HandlerInv,
           FramesInv
<1> QED
  BY <1>1, FitInit, FitNext, TypeInit, TypeNext, PTL DEF Spec

-----------------------------------------------------------------------------
(* The messages the event loop has read and not handled                    *)

InFlight ==
    IF loop.pc = "lock" THEN <<loop.message>> \o inbound
    ELSE IF loop.pc = "read" THEN Append(inbound, loop.message)
    ELSE inbound

\* They are replies of the relay in the order it sent them, and all come after
\* reply p, the last that was handled.
Flight(idx, p) ==
    /\ IsVec(idx) /\ Len(idx) = Len(InFlight) /\ p \in 0..read
    /\ \A j \in 1..Len(idx) : idx[j] \in (p + 1)..read
                              /\ InFlight[j] = ReplyMessage(idx[j])
    /\ \A i, j \in 1..Len(idx) : i < j => idx[i] < idx[j]

LEMMA OneVec ==
    ASSUME NEW e
    PROVE  IsVec(<<e>>) /\ Len(<<e>>) = 1 /\ <<e>>[1] = e /\ <<e>> # <<>>
  BY DEF IsVec

LEMMA ConsVec ==
    ASSUME NEW e, NEW s, IsVec(s)
    PROVE  /\ IsVec(<<e>> \o s) /\ Len(<<e>> \o s) = Len(s) + 1
           /\ (<<e>> \o s)[1] = e
           /\ \A q \in 1..Len(s) : (<<e>> \o s)[q + 1] = s[q]
<1> DEFINE a == <<e>>
<1>1. IsVec(a) /\ Len(a) = 1 /\ a[1] = e
  BY OneVec
<1> HIDE DEF a
<1>0. IsVec(a) /\ IsVec(s)
  BY <1>1
<1>2. /\ IsVec(a \o s) /\ Len(a \o s) = Len(a) + Len(s)
      /\ \A q \in 1..Len(a) : (a \o s)[q] = a[q]
      /\ \A q \in 1..Len(s) : (a \o s)[Len(a) + q] = s[q]
  BY ONLY <1>0, ConcatVec
<1>3. Len(s) \in Nat /\ 1 \in 1..Len(a)
  BY <1>1 DEF IsVec
<1>4. Len(a \o s) = Len(s) + 1 /\ (a \o s)[1] = e
  BY <1>1, <1>2, <1>3
<1>5. ASSUME NEW q \in 1..Len(s) PROVE (a \o s)[q + 1] = s[q]
  <2>1. Len(a) + q = q + 1
    BY <1>1, <1>3
  <2> QED
    BY <1>2, <2>1
<1> QED
  BY <1>2, <1>4, <1>5 DEF a

LEMMA HeadTail ==
    ASSUME NEW s, IsVec(s), s # <<>>
    PROVE  <<Head(s)>> \o Tail(s) = s
<1> DEFINE t == <<Head(s)>> \o Tail(s)
           e == Head(s)
           r == Tail(s)
<1>1. /\ IsVec(r) /\ Len(r) = Len(s) - 1
      /\ \A q \in 1..(Len(s) - 1) : r[q] = s[q + 1]
      /\ e = s[1] /\ Len(s) \in Nat /\ Len(s) >= 1
  BY VecTail
<1> HIDE DEF e, r
<1>2. /\ IsVec(t) /\ Len(t) = Len(r) + 1 /\ t[1] = e
      /\ \A q \in 1..Len(r) : t[q + 1] = r[q]
  BY <1>1, ConsVec DEF e, r
<1> HIDE DEF t
<1>3. ASSUME NEW q \in 1..Len(t) PROVE t[q] = s[q]
  <2>1. CASE q = 1
    BY <1>1, <1>2, <2>1
  <2>2. CASE q # 1
    <3>1. q - 1 \in 1..Len(r) /\ (q - 1) + 1 = q /\ q - 1 \in 1..(Len(s) - 1)
      BY <1>1, <1>2, <2>2
    <3>2. t[q] = r[q - 1] /\ r[q - 1] = s[q]
      BY <1>1, <1>2, <3>1
    <3> QED
      BY <3>2
  <2> QED
    BY <2>1, <2>2
<1>4. Len(t) = Len(s)
  BY <1>1, <1>2
<1>5. t = s
  BY <1>2, <1>3, <1>4, VecEqual
<1> QED
  BY <1>5 DEF t

LEMMA FlightVec == TypeInv => IsVec(InFlight)
  BY VecAppend, ConsVec DEF TypeInv, InboundInv, InFlight

\* What is handled next.
LEMMA FlightPop ==
    ASSUME TypeInv, NEW idx, NEW p, Flight(idx, p), InFlight # <<>>,
           InFlight' = Tail(InFlight), UNCHANGED <<script, read>>
    PROVE  /\ Flight(Tail(idx), idx[1])'
           /\ Len(idx) >= 1 /\ idx[1] \in (p + 1)..read
           /\ InFlight[1] = ReplyMessage(idx[1])
<1> DEFINE m == InFlight
<1>1. IsVec(m) /\ IsVec(idx) /\ Len(idx) = Len(m) /\ p \in 0..read /\ read \in Nat
  BY FlightVec DEF Flight, TypeInv, FramesInv
<1>2. /\ IsVec(Tail(m)) /\ Len(Tail(m)) = Len(m) - 1
      /\ \A q \in 1..(Len(m) - 1) : Tail(m)[q] = m[q + 1]
      /\ Len(m) \in Nat /\ Len(m) >= 1
  BY <1>1, VecTail
<1>3. idx # <<>>
  BY <1>1, <1>2, EmptyVec
<1>4. /\ IsVec(Tail(idx)) /\ Len(Tail(idx)) = Len(idx) - 1
      /\ \A q \in 1..(Len(idx) - 1) : Tail(idx)[q] = idx[q + 1]
  BY <1>1, <1>3, VecTail
<1>5. \A i : ReplyMessage(i)' = ReplyMessage(i)
  BY DEF ReplyMessage, Earlier
<1>6. /\ \A j \in 1..Len(idx) : idx[j] \in (p + 1)..read /\ m[j] = ReplyMessage(idx[j])
      /\ \A i, j \in 1..Len(idx) : i < j => idx[i] < idx[j]
  BY DEF Flight
<1> DEFINE a == Tail(idx)
           b == Tail(m)
<1> HIDE DEF m, a, b
<1>7. idx[1] \in (p + 1)..read /\ m[1] = ReplyMessage(idx[1])
  BY <1>1, <1>2, <1>6
<1>8. ASSUME NEW j \in 1..Len(a)
      PROVE  a[j] \in (idx[1] + 1)..read /\ b[j] = ReplyMessage(a[j])
  <2>1. j \in 1..(Len(idx) - 1) /\ j + 1 \in 1..Len(idx) /\ 1 < j + 1 /\ 1 \in 1..Len(idx)
    BY <1>1, <1>2, <1>4 DEF a
  <2>2. a[j] = idx[j + 1] /\ b[j] = m[j + 1]
    BY <1>1, <1>2, <1>4, <2>1 DEF a, b
  <2>3. idx[1] < idx[j + 1] /\ idx[j + 1] \in (p + 1)..read /\ m[j + 1] = ReplyMessage(idx[j + 1])
    BY <1>6, <2>1
  <2> QED
    BY <1>1, <1>7, <2>2, <2>3
<1>9. ASSUME NEW i \in 1..Len(a), NEW j \in 1..Len(a), i < j
      PROVE  a[i] < a[j]
  <2>1. /\ i \in 1..(Len(idx) - 1) /\ j \in 1..(Len(idx) - 1)
        /\ i + 1 \in 1..Len(idx) /\ j + 1 \in 1..Len(idx) /\ i + 1 < j + 1
    BY <1>1, <1>2, <1>4, <1>9 DEF a
  <2> QED
    BY <1>4, <1>6, <2>1 DEF a
<1>10. IsVec(a) /\ Len(a) = Len(b)
  BY <1>1, <1>2, <1>4 DEF a, b
<1>11. idx[1] \in 0..read
  BY <1>1, <1>7
<1>12. InFlight' = b
  BY DEF b, m
<1>13. Flight(a, idx[1])'
  BY <1>5, <1>8, <1>9, <1>10, <1>11, <1>12 DEF Flight
<1> QED
  BY <1>1, <1>2, <1>7, <1>13 DEF a, m

LEMMA FlightPush ==
    ASSUME TypeInv, NEW idx, NEW p, Flight(idx, p), NEW last, last = read + 1,
           InFlight' = Append(InFlight, ReplyMessage(last)), read' = last,
           UNCHANGED script
    PROVE  Flight(Append(idx, last), p)'
<1> DEFINE m == InFlight
           n == Len(idx)
           a == Append(idx, last)
           x == ReplyMessage(last)
           b == Append(m, x)
<1>1. IsVec(m) /\ IsVec(idx) /\ Len(m) = n /\ p \in 0..read /\ read \in Nat /\ n \in Nat
  BY FlightVec DEF Flight, TypeInv, FramesInv, IsVec
<1> HIDE DEF m
<1>0. IsVec(idx)
  BY <1>1
<1>2. /\ IsVec(a) /\ Len(a) = Len(idx) + 1 /\ a[Len(idx) + 1] = last
      /\ \A q \in 1..Len(idx) : a[q] = idx[q]
  BY ONLY <1>0, VecAppend
<1> HIDE DEF x
<1>3. /\ IsVec(b) /\ Len(b) = Len(m) + 1 /\ b[Len(m) + 1] = x
      /\ \A q \in 1..Len(m) : b[q] = m[q]
  BY <1>1, VecAppend
<1>5. \A i : ReplyMessage(i)' = ReplyMessage(i)
  BY DEF ReplyMessage, Earlier
<1>6. /\ \A j \in 1..n : idx[j] \in (p + 1)..read /\ m[j] = ReplyMessage(idx[j])
      /\ \A i, j \in 1..n : i < j => idx[i] < idx[j]
  BY DEF Flight, m
<1>7. /\ Len(a) = n + 1 /\ a[n + 1] = last /\ \A q \in 1..n : a[q] = idx[q]
      /\ Len(b) = n + 1 /\ b[n + 1] = x /\ \A q \in 1..n : b[q] = m[q]
  BY <1>1, <1>2, <1>3
<1> HIDE DEF a, b, n
<1>8. ASSUME NEW j \in 1..Len(a)
      PROVE  a[j] \in (p + 1)..last /\ b[j] = ReplyMessage(a[j])
  <2>1. CASE j = n + 1
    BY <1>1, <1>7, <2>1 DEF x
  <2>2. CASE j # n + 1
    <3>1. j \in 1..n
      BY <1>1, <1>7, <2>2
    <3>2. a[j] = idx[j] /\ b[j] = m[j] /\ idx[j] \in (p + 1)..read
          /\ m[j] = ReplyMessage(idx[j])
      BY <1>6, <1>7, <3>1
    <3> QED
      BY <1>1, <3>2
  <2> QED
    BY <2>1, <2>2
<1>9. ASSUME NEW i \in 1..Len(a), NEW j \in 1..Len(a), i < j
      PROVE  a[i] < a[j]
  <2>1. i \in 1..n
    BY <1>1, <1>7, <1>9
  <2>2. a[i] = idx[i] /\ idx[i] \in (p + 1)..read
    BY <1>6, <1>7, <2>1
  <2>3. CASE j = n + 1
    BY <1>1, <1>7, <2>2, <2>3
  <2>4. CASE j # n + 1
    <3>1. j \in 1..n
      BY <1>1, <1>7, <2>4
    <3> QED
      BY <1>6, <1>7, <1>9, <2>1, <3>1
  <2> QED
    BY <2>3, <2>4
<1>10. IsVec(a) /\ Len(a) = Len(b)
  BY <1>2, <1>7
<1>11. p \in 0..last
  BY <1>1
<1>12. InFlight' = b
  BY DEF b, m, x
<1>13. Flight(a, p)'
  BY <1>5, <1>8, <1>9, <1>10, <1>11, <1>12 DEF Flight
<1> QED
  BY <1>13 DEF a

LEMMA FlightStill ==
    ASSUME TypeInv, NEW idx, NEW p, Flight(idx, p), InFlight' = InFlight,
           read' \in {read, read + 1}, UNCHANGED script
    PROVE  Flight(idx, p)'
<1>1. p \in 0..read /\ read \in Nat
  BY DEF Flight, TypeInv, FramesInv
<1>2. \A i : ReplyMessage(i)' = ReplyMessage(i)
  BY DEF ReplyMessage, Earlier
<1>3. /\ IsVec(idx) /\ Len(idx) = Len(InFlight)
      /\ \A j \in 1..Len(idx) : idx[j] \in (p + 1)..read
                              /\ InFlight[j] = ReplyMessage(idx[j])
      /\ \A i, j \in 1..Len(idx) : i < j => idx[i] < idx[j]
  BY DEF Flight
<1>4. p \in 0..read' /\ \A j \in 1..Len(idx) : idx[j] \in (p + 1)..read'
  BY <1>1, <1>3
<1> QED
  BY <1>2, <1>3, <1>4 DEF Flight

-----------------------------------------------------------------------------
(* The messages of a peer                                                  *)

\* Flattening one vector more.
LEMMA FlattenStep ==
    ASSUME NEW a, NEW b, IsVec(a), Vecs(b), Len(b) = Len(a) + 1,
           \A q \in 1..Len(a) : b[q] = a[q]
    PROVE  Vecs(a) /\ IsVec(FlattenSeq(a)) /\ IsVec(b[Len(b)])
           /\ FlattenSeq(b) = FlattenSeq(a) \o b[Len(b)]
<1> DEFINE e == b[Len(b)]
           c == Append(a, e)
<1>0. IsVec(b) /\ Len(a) \in Nat
  BY DEF Vecs, IsVec
<1>1. Vecs(a) /\ IsVec(e)
  BY <1>0 DEF Vecs
<1> HIDE DEF e
<1>2. /\ IsVec(c) /\ Len(c) = Len(a) + 1 /\ \A q \in 1..Len(a) : c[q] = a[q]
      /\ c[Len(a) + 1] = e
  BY ONLY <1>1, VecAppend DEF Vecs
<1> HIDE DEF c
<1>3. ASSUME NEW q \in 1..Len(b) PROVE b[q] = c[q]
  <2>1. q \in 1..Len(a) \/ q = Len(a) + 1
    BY <1>0
  <2> QED
    BY <1>2, <2>1 DEF e
<1>4. b = c
  BY <1>0, <1>2, <1>3, VecEqual
<1>5. FlattenSeq(c) = FlattenSeq(a) \o e
  BY ONLY <1>1, FlattenVecAppend DEF c
<1> QED
  BY <1>1, <1>4, <1>5, FlattenVec DEF e

\* The replies of a peer among the first n, and the nonces they took.
SentBy(n, k) ==
    [j \in 1..n |-> IF script.replies[j].from = k THEN <<script.replies[j]>>
                                                  ELSE <<>>]

Before(n, k) == FlattenSeq(SentBy(n, k))
Nonces(n, k) == Len(FlattenSeq(EarlierChunks(n, k)))

NonEmpty(k) ==
    \A j \in 1..Len(script.replies) :
        script.replies[j].from = k => script.replies[j].payload # <<>>

LEMMA SentVecs ==
    ASSUME NEW n \in Nat, NEW k
    PROVE  Vecs(SentBy(n, k)) /\ Len(SentBy(n, k)) = n /\ IsVec(Before(n, k))
           /\ Len(Before(n, k)) \in Nat
<1> DEFINE ss == SentBy(n, k)
<1>1. IsVec(ss) /\ Len(ss) = n
  BY DEF SentBy, IsVec
<1>2. ASSUME NEW j \in 1..n PROVE IsVec(ss[j])
  BY OneVec, EmptyVec DEF SentBy
<1> HIDE DEF ss
<1>3. Vecs(ss)
  BY <1>1, <1>2 DEF Vecs
<1>4. IsVec(FlattenSeq(ss))
  BY <1>3, FlattenVec
<1> QED
  BY <1>1, <1>3, <1>4 DEF ss, Before, IsVec

LEMMA SentNext ==
    ASSUME FitInv, NEW k \in Keys, NEW n \in Nat, n + 1 <= Len(script.replies)
    PROVE  IF script.replies[n + 1].from = k
           THEN /\ Before(n + 1, k) = Append(Before(n, k), script.replies[n + 1])
                /\ Nonces(n + 1, k) =
                       Nonces(n, k) + Len(split(script.replies[n + 1].payload, 0))
           ELSE Before(n + 1, k) = Before(n, k) /\ Nonces(n + 1, k) = Nonces(n, k)
<1> DEFINE a == SentBy(n, k)
           b == SentBy(n + 1, k)
           c == EarlierChunks(n, k)
           d == EarlierChunks(n + 1, k)
           reply == script.replies[n + 1]
<1>0. Len(script.replies) \in Nat /\ n \in 0..Len(script.replies)
      /\ n + 1 \in 0..Len(script.replies) /\ n + 1 \in Nat
  BY Replies
<1>1. IsVec(a) /\ Len(a) = n /\ Vecs(b) /\ Len(b) = n + 1
  BY <1>0, SentVecs DEF Vecs
<1>2. IsVec(c) /\ Len(c) = n /\ Vecs(d) /\ Len(d) = n + 1
  BY <1>0, EarlierVecs DEF Vecs
<1>3. \A q \in 1..n : b[q] = a[q] /\ d[q] = c[q]
  BY DEF SentBy, EarlierChunks
<1>4. /\ b[n + 1] = IF reply.from = k THEN <<reply>> ELSE <<>>
      /\ d[n + 1] = IF reply.from = k THEN split(reply.payload, 0) ELSE <<>>
  BY DEF SentBy, EarlierChunks
<1> HIDE DEF a, b, c, d, reply
<1>5. /\ FlattenSeq(b) = FlattenSeq(a) \o b[n + 1]
      /\ FlattenSeq(d) = FlattenSeq(c) \o d[n + 1]
      /\ IsVec(FlattenSeq(a)) /\ IsVec(FlattenSeq(c)) /\ IsVec(d[n + 1])
  BY <1>1, <1>2, <1>3, FlattenStep
<1>6. /\ Before(n + 1, k) = FlattenSeq(b) /\ Before(n, k) = FlattenSeq(a)
      /\ Nonces(n + 1, k) = Len(FlattenSeq(d)) /\ Nonces(n, k) = Len(FlattenSeq(c))
  BY DEF Before, Nonces, a, b, c, d
<1> DEFINE x == FlattenSeq(a)
           y == FlattenSeq(c)
           z == d[n + 1]
<1>7. Len(FlattenSeq(d)) = Len(y) + Len(z) /\ Len(y) \in Nat
  <2>1. IsVec(y) /\ IsVec(z) /\ FlattenSeq(d) = y \o z
    BY <1>5
  <2> HIDE DEF y, z
  <2> QED
    BY <2>1, ConcatVec DEF IsVec
<1>8. CASE reply.from = k
  <2>1. IsVec(x) /\ FlattenSeq(b) = x \o <<reply>>
    BY <1>4, <1>5, <1>8
  <2> HIDE DEF x
  <2>2. FlattenSeq(b) = Append(x, reply)
    BY <2>1, VecAppend
  <2> QED
    BY <1>4, <1>6, <1>7, <1>8, <2>2 DEF reply, x
<1>9. CASE reply.from # k
  <2>1. IsVec(x) /\ FlattenSeq(b) = x \o <<>>
    BY <1>4, <1>5, <1>9
  <2>2. Len(z) = 0
    BY <1>4, <1>9, EmptyVec
  <2> HIDE DEF x, z
  <2>3. FlattenSeq(b) = x
    BY <2>1, VecConcat
  <2> QED
    BY <1>6, <1>7, <1>9, <2>2, <2>3 DEF reply, x
<1> QED
  BY <1>8, <1>9 DEF reply

\* What a peer sent first stays first, and each message takes a nonce.
LEMMA SentMono ==
    ASSUME FitInv, NEW k \in Keys, NEW i \in Nat, NEW n \in Nat,
           i <= n, n <= Len(script.replies)
    PROVE  /\ Len(Before(i, k)) <= Len(Before(n, k))
           /\ \A j \in 1..Len(Before(i, k)) : Before(n, k)[j] = Before(i, k)[j]
           /\ NonEmpty(k) => Len(Before(n, k)) - Len(Before(i, k))
                                 <= Nonces(n, k) - Nonces(i, k)
           /\ Nonces(n, k) \in Nat /\ Nonces(i, k) \in Nat
<1> DEFINE N == Len(script.replies)
           F(x) == Before(x, k)
           L(x) == Len(Before(x, k))
           E(x) == Nonces(x, k)
           P(x) == /\ L(i) <= L(x)
                   /\ \A j \in 1..L(i) : F(x)[j] = F(i)[j]
                   /\ NonEmpty(k) => L(x) - L(i) <= E(x) - E(i)
           T == {x \in Nat : i <= x /\ x <= N /\ ~P(x)}
<1>0. N \in Nat /\ \A x \in Nat : x <= N => E(x) \in Nat
  BY Replies, EarlierVecs DEF Nonces
<1>1. \A x \in Nat : IsVec(F(x)) /\ L(x) \in Nat
  BY SentVecs
<1>2. \A x \in Nat : x + 1 <= N =>
          IF script.replies[x + 1].from = k
          THEN /\ F(x + 1) = Append(F(x), script.replies[x + 1])
               /\ E(x + 1) = E(x) + Len(split(script.replies[x + 1].payload, 0))
          ELSE F(x + 1) = F(x) /\ E(x + 1) = E(x)
  BY SentNext
<1>3. ASSUME NEW x \in Nat, x + 1 <= N, script.replies[x + 1].from = k
      PROVE  /\ Len(split(script.replies[x + 1].payload, 0)) \in Nat
             /\ NonEmpty(k) => Len(split(script.replies[x + 1].payload, 0)) # 0
  <2>1. x + 1 \in 1..N /\ (NonEmpty(k) => script.replies[x + 1].payload # <<>>)
    BY <1>0, <1>3 DEF NonEmpty
  <2>2. IsVec(script.replies[x + 1].payload)
    BY <1>3, <2>1, OpaqueReply
  <2> QED
    BY <2>1, <2>2, SplitShape DEF IsVec
<1> HIDE DEF N, F, E
<1>4. ASSUME NEW x \in Nat, i <= x, x + 1 <= N, P(x)
      PROVE  P(x + 1)
  <2> DEFINE reply == script.replies[x + 1]
             s == F(x)
  <2>a. i <= N /\ x <= N
    BY <1>0, <1>4
  <2>b. E(x) \in Nat /\ E(i) \in Nat
    BY <1>0, <2>a
  <2>c. IsVec(s) /\ L(x) \in Nat /\ L(i) \in Nat
    BY <1>1
  <2>0. IsVec(s) /\ Len(s) \in Nat /\ L(i) \in Nat /\ E(x) \in Nat /\ E(i) \in Nat
    BY <2>b, <2>c DEF F
  <2> HIDE DEF reply
  <2>1. CASE reply.from = k
    <3>1. /\ F(x + 1) = Append(s, reply)
          /\ E(x + 1) = E(x) + Len(split(reply.payload, 0))
          /\ Len(split(reply.payload, 0)) \in Nat
          /\ NonEmpty(k) => Len(split(reply.payload, 0)) # 0
      BY <1>2, <1>3, <1>4, <2>1 DEF reply
    <3> HIDE DEF s
    <3>2. Len(F(x + 1)) = Len(s) + 1 /\ \A q \in 1..Len(s) : F(x + 1)[q] = s[q]
      BY <2>0, <3>1, VecAppend
    <3>3. /\ L(x + 1) = Len(F(x + 1)) /\ L(x) = Len(s)
      BY DEF F, s
    <3> HIDE DEF L
    <3>4. ASSUME NEW j \in 1..L(i) PROVE F(x + 1)[j] = F(i)[j]
      <4>1. j \in 1..Len(s) /\ s[j] = F(i)[j]
        BY <1>4, <2>0, <3>3 DEF s
      <4> QED
        BY <3>2, <4>1
    <3> QED
      BY <1>4, <2>0, <3>1, <3>2, <3>3, <3>4
  <2>2. CASE reply.from # k
    <3>1. F(x + 1) = F(x) /\ E(x + 1) = E(x)
      BY <1>2, <1>4, <2>2 DEF reply
    <3>2. L(x + 1) = L(x)
      BY <3>1 DEF F
    <3> QED
      BY <1>4, <3>1, <3>2
  <2> QED
    BY <2>1, <2>2
<1>5. P(i)
  <2>1. i <= N
    BY <1>0 DEF N
  <2>2. E(i) \in Nat /\ L(i) \in Nat
    BY <1>0, <1>1, <2>1
  <2> HIDE DEF L
  <2> QED
    BY <2>2
<1>6. T = {}
  <2> SUFFICES ASSUME T # {} PROVE FALSE
    OBVIOUS
  <2> HIDE DEF P
  <2>1. PICK x \in T : \A y \in T : x <= y
    BY Least
  <2>2. x \in Nat /\ i <= x /\ x <= N /\ ~P(x) /\ x # i
    BY <1>5
  <2>3. x - 1 \in Nat /\ i <= x - 1 /\ x - 1 <= N /\ (x - 1) + 1 = x
    BY <1>0, <2>2
  <2>4. x - 1 \notin T
    BY <2>1, <2>2
  <2>5. P(x - 1)
    BY <2>3, <2>4
  <2>6. P((x - 1) + 1)
    BY <1>4, <2>2, <2>3, <2>5
  <2> QED
    BY <2>2, <2>3, <2>6
<1>7. P(n)
  BY <1>6 DEF N
<1> QED
  BY <1>0, <1>7 DEF F, E, N

LEMMA SentAll ==
    ASSUME FitInv, NEW k \in Keys, NEW i \in 1..Len(script.replies),
           script.replies[i].from = k
    PROVE  \E j \in 1..Len(Before(Len(script.replies), k)) :
               Before(Len(script.replies), k)[j] = script.replies[i]
<1> DEFINE N == Len(script.replies)
           reply == script.replies[i]
           a == Before(i - 1, k)
           b == Before(i, k)
           c == Before(N, k)
<1>1. N \in Nat /\ i \in Nat /\ i <= N /\ N <= N /\ i - 1 \in Nat /\ i - 1 + 1 = i
  BY Replies
<1>2. b = Append(a, reply)
  <2>1. IF script.replies[(i - 1) + 1].from = k
        THEN Before((i - 1) + 1, k) = Append(Before(i - 1, k), script.replies[(i - 1) + 1])
        ELSE TRUE
    BY <1>1, SentNext
  <2> QED
    BY <1>1, <2>1
<1>3. IsVec(a) /\ Len(a) \in Nat /\ Len(b) \in Nat /\ Len(c) \in Nat
  BY <1>1, SentVecs
<1>4. Len(b) <= Len(c) /\ \A j \in 1..Len(b) : c[j] = b[j]
  BY <1>1, SentMono
<1> HIDE DEF a, b, c, reply
<1>5. Len(b) = Len(a) + 1 /\ b[Len(a) + 1] = reply
  BY <1>2, <1>3, VecAppend
<1>6. Len(a) + 1 \in 1..Len(b) /\ Len(a) + 1 \in 1..Len(c)
  BY <1>3, <1>4, <1>5
<1>7. c[Len(a) + 1] = reply
  BY <1>4, <1>5, <1>6
<1> QED
  BY <1>6, <1>7 DEF c, reply

\* The messages of a peer the driver was given.
IsMine(k, e) == e.event = "Message" /\ e.key = k

Mine(k) == [j \in DOMAIN events |-> IF IsMine(k, events[j]) THEN <<events[j]>>
                                                           ELSE <<>>]
Given(k) == FlattenSeq(Mine(k))

LEMMA GivenVec ==
    ASSUME NEW k, IsVec(events)
    PROVE  Vecs(Mine(k)) /\ Len(Mine(k)) = Len(events)
           /\ IsVec(Given(k)) /\ Len(Given(k)) \in Nat
<1> DEFINE ss == Mine(k)
<1>0. DOMAIN events = 1..Len(events) /\ Len(events) \in Nat
  BY VecIsSeq DEF IsVec
<1>1. IsVec(ss) /\ Len(ss) = Len(events)
  BY <1>0 DEF Mine, IsVec
<1>2. ASSUME NEW j \in 1..Len(events) PROVE IsVec(ss[j])
  BY <1>0, OneVec, EmptyVec DEF Mine
<1> HIDE DEF ss
<1>3. Vecs(ss)
  BY <1>1, <1>2 DEF Vecs
<1>4. IsVec(FlattenSeq(ss))
  BY <1>3, FlattenVec
<1> QED
  BY <1>1, <1>3, <1>4 DEF ss, Given, IsVec

LEMMA GivenAppend ==
    ASSUME NEW k, IsVec(events), NEW e, events' = Append(events, e)
    PROVE  Given(k)' = IF IsMine(k, e) THEN Append(Given(k), e) ELSE Given(k)
<1> DEFINE a == Mine(k)
           b == [j \in DOMAIN events' |-> IF IsMine(k, events'[j]) THEN <<events'[j]>>
                                                                  ELSE <<>>]
           n == Len(events)
<1>v. /\ IsVec(Append(events, e)) /\ Len(Append(events, e)) = Len(events) + 1
      /\ DOMAIN Append(events, e) = 1..(Len(events) + 1)
      /\ \A q \in 1..Len(events) : Append(events, e)[q] = events[q]
      /\ Append(events, e)[Len(events) + 1] = e
  BY ONLY IsVec(events), VecAppend
<1>w. n \in Nat /\ DOMAIN events = 1..n
  BY VecIsSeq DEF IsVec
<1>0. /\ IsVec(events') /\ Len(events') = n + 1 /\ n \in Nat
      /\ \A q \in 1..n : events'[q] = events[q]
      /\ events'[n + 1] = e
      /\ DOMAIN events' = 1..(n + 1) /\ DOMAIN events = 1..n
  BY <1>v, <1>w
<1>1. Vecs(a) /\ Len(a) = n /\ IsVec(a)
  BY GivenVec DEF Vecs
<1>2. IsVec(b) /\ Len(b) = n + 1
  BY <1>0 DEF IsVec
<1>3. ASSUME NEW j \in 1..(n + 1) PROVE IsVec(b[j])
  BY <1>0, OneVec, EmptyVec
<1>4. \A q \in 1..n : b[q] = a[q]
  BY <1>0 DEF Mine
<1>5. b[n + 1] = IF IsMine(k, e) THEN <<e>> ELSE <<>>
  BY <1>0
<1>6. Given(k)' = FlattenSeq(b) /\ Given(k) = FlattenSeq(a)
  BY DEF Given, Mine, IsMine
<1> HIDE DEF a, b, n
<1>7. Vecs(b)
  BY <1>2, <1>3 DEF Vecs
<1>8. FlattenSeq(b) = FlattenSeq(a) \o b[n + 1] /\ IsVec(FlattenSeq(a))
  BY <1>1, <1>2, <1>4, <1>7, FlattenStep
<1> DEFINE x == FlattenSeq(a)
<1>9. IsVec(x) /\ FlattenSeq(b) = x \o b[n + 1]
  BY <1>8
<1> HIDE DEF x
<1>10. x \o <<e>> = Append(x, e) /\ x \o <<>> = x
  BY <1>9, VecAppend, VecConcat
<1> QED
  BY <1>5, <1>6, <1>9, <1>10 DEF x

Same(e, reply) ==
    /\ e.payload = reply.payload /\ e.session = reply.session
    /\ e.encoding = reply.encoding

\* What a peer sent after reply p can be decrypted only if the driver has all
\* that the peer sent before it.
GivenInv(k, p) ==
    /\ Len(Given(k)) <= Len(Before(p, k))
    /\ \A j \in 1..Len(Given(k)) :
           Same(Given(k)[j], Before(Len(script.replies), k)[j])
    /\ \A n \in p..Len(script.replies) :
           peers[k].received = Nonces(n, k) => Len(Before(n, k)) = Len(Given(k))

OrderInv ==
    \E idx, p : Flight(idx, p) /\ \A k \in Keys : NonEmpty(k) => GivenInv(k, p)

LEMMA Unmoved ==
    ASSUME UNCHANGED script
    PROVE  /\ \A n, k : Before(n, k)' = Before(n, k) /\ Nonces(n, k)' = Nonces(n, k)
           /\ \A k : NonEmpty(k)' <=> NonEmpty(k)
  BY DEF Before, SentBy, Nonces, EarlierChunks, NonEmpty

LEMMA GivenStill ==
    ASSUME NEW k, NEW p, GivenInv(k, p), UNCHANGED script,
           Given(k)' = Given(k), peers'[k].received = peers[k].received
    PROVE  GivenInv(k, p)'
  BY Unmoved DEF GivenInv

LEMMA GivenLater ==
    ASSUME FitInv, NEW k \in Keys, NonEmpty(k), NEW p \in Nat, NEW i \in Nat,
           p <= i, i <= Len(script.replies), IsVec(events),
           GivenInv(k, p), UNCHANGED script, Given(k)' = Given(k),
           peers'[k].received \in {peers[k].received, 0}
    PROVE  GivenInv(k, i)'
<1> DEFINE N == Len(script.replies)
           g == Len(Given(k))
           L(n) == Len(Before(n, k))
           E(n) == Nonces(n, k)
<1>0. N \in Nat /\ g \in Nat /\ \A n \in Nat : L(n) \in Nat
  BY Replies, GivenVec, SentVecs
<1>1. /\ g <= L(p)
      /\ \A n \in p..N : peers[k].received = E(n) => L(n) = g
  BY DEF GivenInv
<1>2. \A a, n \in Nat : a <= n /\ n <= N =>
          L(a) <= L(n) /\ L(n) - L(a) <= E(n) - E(a) /\ E(n) \in Nat /\ E(a) \in Nat
  BY SentMono
<1>3. Len(Given(k)') = g
  OBVIOUS
<1> HIDE DEF N, g, L, E
<1>4. g <= L(i)
  BY <1>0, <1>1, <1>2 DEF N
<1>5. ASSUME NEW n \in i..N, peers'[k].received = E(n) PROVE L(n) = g
  <2>1. n \in p..N /\ n \in Nat /\ p <= n /\ n <= N
    BY <1>0
  <2>2. CASE peers'[k].received = peers[k].received
    BY <1>1, <1>5, <2>1, <2>2
  <2>3. CASE peers'[k].received = 0
    <3>1. L(0) <= L(n) /\ L(n) - L(0) <= E(n) - E(0) /\ E(n) \in Nat /\ E(0) \in Nat
      BY <1>2, <2>1
    <3>2. L(p) <= L(n)
      BY <1>2, <2>1
    <3>3. L(0) = 0
      BY EmptyVec, FlattenNone DEF L, Before, SentBy
    <3> QED
      BY <1>0, <1>1, <1>5, <2>1, <2>3, <3>1, <3>2, <3>3
  <2> QED
    BY <2>2, <2>3
<1> QED
  BY <1>3, <1>4, <1>5, Unmoved DEF GivenInv, N, L, E, g

LEMMA GivenMore ==
    ASSUME FitInv, NEW k \in Keys, NonEmpty(k), NEW p \in Nat, NEW i \in Nat,
           p < i, i <= Len(script.replies), IsVec(events), NEW e,
           GivenInv(k, p), UNCHANGED script, Given(k)' = Append(Given(k), e),
           script.replies[i].from = k, Same(e, script.replies[i]),
           peers[k].received = Nonces(i - 1, k),
           peers'[k].received = Nonces(i, k)
    PROVE  GivenInv(k, i)'
<1> DEFINE N == Len(script.replies)
           s == Given(k)
           g == Len(s)
           t == Append(s, e)
           reply == script.replies[i]
           F(n) == Before(n, k)
           L(n) == Len(Before(n, k))
           E(n) == Nonces(n, k)
<1>0. N \in Nat /\ g \in Nat /\ IsVec(s) /\ \A n \in Nat : L(n) \in Nat /\ IsVec(F(n))
  BY Replies, GivenVec, SentVecs
<1>1. /\ \A j \in 1..g : Same(s[j], F(N)[j])
      /\ \A n \in p..N : peers[k].received = E(n) => L(n) = g
  BY DEF GivenInv
<1>2. \A a, n \in Nat : a <= n /\ n <= N =>
          /\ L(a) <= L(n) /\ L(n) - L(a) <= E(n) - E(a)
          /\ E(n) \in Nat /\ E(a) \in Nat
          /\ \A j \in 1..L(a) : F(n)[j] = F(a)[j]
  BY SentMono
<1>c. N \in Nat /\ i <= N
  BY <1>0
<1>3. i - 1 \in Nat /\ (i - 1) + 1 = i /\ i - 1 \in p..N /\ i <= N
  BY ONLY <1>c, p \in Nat, i \in Nat, p < i
<1>4. F(i) = Append(F(i - 1), reply)
  <2>1. F((i - 1) + 1) = Append(F(i - 1), script.replies[(i - 1) + 1])
    BY ONLY FitInv, k \in Keys, <1>3, script.replies[i].from = k, SentNext
       DEF N
  <2> QED
    BY <1>3, <2>1
<1>5. peers[k].received = E(i - 1) /\ peers'[k].received = E(i)
  OBVIOUS
<1> HIDE DEF N, s, E, reply, t
<1>6. L(i - 1) = g
  BY <1>1, <1>3, <1>5
<1>7. L(i) = g + 1 /\ F(i)[g + 1] = reply
  <2> DEFINE b == F(i - 1)
  <2>1. IsVec(b) /\ Len(b) = g
    BY <1>0, <1>3, <1>6
  <2> HIDE DEF b, F
  <2>2. Len(Append(b, reply)) = g + 1 /\ Append(b, reply)[g + 1] = reply
    BY <2>1, VecAppend
  <2>3. F(i) = Append(b, reply)
    BY <1>4 DEF b
  <2> QED
    BY <2>2, <2>3 DEF F
<1>v. IsVec(s)
  BY <1>0
<1>8. Len(t) = g + 1 /\ t[g + 1] = e /\ \A q \in 1..g : t[q] = s[q]
  BY ONLY <1>v, VecAppend DEF t
<1> HIDE DEF F, L, g
<1>9. ASSUME NEW j \in 1..Len(t) PROVE Same(t[j], F(N)[j])
  <2>g. g \in Nat /\ Len(t) = g + 1
    BY <1>0, <1>8 DEF g
  <2>1. j \in 1..g \/ j = g + 1
    BY ONLY <2>g, j \in 1..Len(t)
  <2>2. CASE j = g + 1
    <3>1. g + 1 \in 1..L(i)
      BY <1>0, <1>7
    <3>2. F(N)[g + 1] = F(i)[g + 1]
      BY <1>0, <1>2, <1>3, <3>1
    <3> QED
      BY <1>7, <1>8, <2>2, <3>2 DEF reply
  <2> QED
    BY <1>1, <1>8, <2>1, <2>2
<1>10. ASSUME NEW n \in i..N, peers'[k].received = E(n) PROVE L(n) = Len(t)
  <2>1. n \in Nat /\ i <= n /\ n <= N
    BY <1>0
  <2>2. L(i) <= L(n) /\ L(n) - L(i) <= E(n) - E(i) /\ E(n) \in Nat /\ E(i) \in Nat
    BY <1>2, <2>1
  <2>3. E(n) = E(i)
    BY <1>5, <1>10
  <2> QED
    BY <1>0, <1>7, <1>8, <2>1, <2>2, <2>3
<1>11. Len(t) <= L(i)
  BY <1>0, <1>7, <1>8
<1>12. Given(k)' = t
  BY DEF t, s
<1> QED
  BY <1>9, <1>10, <1>11, <1>12, Unmoved DEF GivenInv, N, L, E, F

LEMMA TailCons ==
    ASSUME NEW e, NEW s, IsVec(s)
    PROVE  <<e>> \o s # <<>> /\ Tail(<<e>> \o s) = s
<1> DEFINE t == <<e>> \o s
           r == Tail(t)
<1>0. /\ IsVec(t) /\ Len(t) = Len(s) + 1
      /\ \A q \in 1..Len(s) : t[q + 1] = s[q]
  BY ConsVec
<1> HIDE DEF t
<1>1. Len(s) \in Nat /\ t # <<>>
  BY <1>0, EmptyVec DEF IsVec
<1>2. /\ IsVec(r) /\ Len(r) = Len(t) - 1
      /\ \A q \in 1..(Len(t) - 1) : r[q] = t[q + 1]
  BY <1>0, <1>1, VecTail
<1> HIDE DEF r
<1>3. Len(r) = Len(s) /\ \A q \in 1..Len(r) : r[q] = s[q]
  BY <1>0, <1>1, <1>2
<1>4. r = s
  BY <1>2, <1>3, VecEqual
<1> QED
  BY <1>1, <1>4 DEF t, r

\* What a step does to the messages read and to those given to the driver.
Quiet ==
    \A k \in Keys : Given(k)' = Given(k) /\ peers'[k].received = peers[k].received

StepStill == InFlight' = InFlight /\ UNCHANGED <<script, read>> /\ Quiet

StepRefused ==
    /\ InFlight' = InFlight /\ UNCHANGED script /\ Quiet
    /\ read' = read + 1 /\ read + 1 <= Len(script.replies)

StepPush ==
    /\ InFlight' = Append(InFlight, ReplyMessage(read + 1)) /\ UNCHANGED script
    /\ read' = read + 1 /\ read + 1 <= Len(script.replies) /\ Quiet

StepPop ==
    /\ InFlight # <<>> /\ InFlight' = Tail(InFlight) /\ UNCHANGED <<script, read>>
    /\ \A k \in Keys : /\ Given(k)' = Given(k)
                       /\ peers'[k].received \in {peers[k].received, 0}

StepGive ==
    /\ InFlight # <<>> /\ InFlight' = Tail(InFlight) /\ UNCHANGED <<script, read>>
    /\ HandleRelayedMessage /\ InFlight[1] = loop.message
    /\ CanDecrypt(peers[loop.message.key], loop.message.envelope)

LEMMA QuietYield ==
    ASSUME TypeInv, NEW event, Yield(event), event.event # "Message"
    PROVE  \A k : Given(k)' = Given(k)
<1>1. IsVec(events) /\ events' = Append(events, event)
  BY DEF TypeInv, FramesInv, Yield
<1>2. \A k : ~IsMine(k, event)
  BY DEF IsMine
<1> QED
  BY <1>1, <1>2, GivenAppend

LEMMA QuietEvents ==
    ASSUME UNCHANGED events
    PROVE  \A k : Given(k)' = Given(k)
  BY DEF Given, Mine, IsMine

LEMMA StepsCaller ==
    ASSUME TypeInv, FitInv, NEW c \in Callers, Caller(c)
    PROVE  StepStill
<1>1. UNCHANGED <<script, inbound, read, events>>
  BY DEF Caller, Connect, ConnectPeer, Request, Relay, Close, Refuse, Panic, Queue,
         QueueFails, channels
<1>2. InFlight' = InFlight
  <2>1. loop = [pc |-> loop.pc, message |-> loop.message]
    BY DEF FitInv, LoopInv
  <2> QED
    BY <1>1, <2>1, CallerLoop DEF InFlight
<1>3. peers \in [Keys -> Channels]
  BY DEF TypeInv, ChannelsInv
<1>4. \A k \in Keys : peers'[k].received = peers[k].received
  <2>1. CASE ConnectPeer(c)
    BY <1>3, <2>1 DEF ConnectPeer, Channels
  <2>2. CASE Relay(c)
    BY <1>3, <2>2 DEF Relay, Encrypted, Channels
  <2>3. CASE UNCHANGED peers
    BY <2>3
  <2> QED
    BY <2>1, <2>2, <2>3
       DEF Caller, Connect, Request, Close, Refuse, Panic, Queue, QueueFails
<1> QED
  BY <1>1, <1>2, <1>4, QuietEvents DEF StepStill, Quiet

LEMMA TakesHead ==
    ASSUME TypeInv, NEW types, Take(types),
           loop'.pc \in {"idle", "select", "panicked"}
    PROVE  InFlight # <<>> /\ InFlight' = Tail(InFlight)
           /\ UNCHANGED <<script, read, peers>> /\ InFlight[1] = Head(inbound)
<1>1. InFlight = inbound /\ InFlight' = inbound'
  BY DEF Take, InFlight
<1>2. inbound # <<>> /\ inbound' = Tail(inbound) /\ UNCHANGED <<script, read, peers>>
  BY DEF Take
<1>3. Head(inbound) = inbound[1]
  BY <1>2, VecTail DEF TypeInv, InboundInv
<1> QED
  BY <1>1, <1>2, <1>3

LEMMA LockHead ==
    ASSUME TypeInv, loop.pc = "lock", loop'.pc \in {"idle", "reply"},
           UNCHANGED <<script, read, inbound>>
    PROVE  InFlight # <<>> /\ InFlight' = Tail(InFlight)
           /\ UNCHANGED <<script, read>> /\ InFlight[1] = loop.message
<1>1. InFlight = <<loop.message>> \o inbound /\ InFlight' = inbound
  BY DEF InFlight
<1>2. IsVec(inbound)
  BY DEF TypeInv, InboundInv
<1> DEFINE e == loop.message
<1> HIDE DEF e
<1>3. <<e>> \o inbound # <<>> /\ Tail(<<e>> \o inbound) = inbound
      /\ (<<e>> \o inbound)[1] = e
  BY <1>2, TailCons, ConsVec
<1> QED
  BY <1>1, <1>3 DEF e

LEMMA StepsLoop ==
    ASSUME TypeInv, FitInv, LoopStep
    PROVE  StepStill \/ StepRefused \/ StepPush \/ StepPop \/ StepGive
<1>0. /\ peers \in [Keys -> Channels] /\ IsVec(inbound)
      /\ read \in 0..Len(script.replies) /\ Len(script.replies) \in Nat
  BY Replies DEF TypeInv, ChannelsInv, InboundInv, FramesInv
<1>1. CASE ReadFrame
  <2>1. /\ loop.pc = "select" /\ read' = read + 1
        /\ UNCHANGED <<script, peers, inbound>>
    BY <1>1 DEF ReadFrame, channels
  <2>2. read + 1 \in 1..Len(script.replies) /\ read + 1 <= Len(script.replies)
    <3>1. read + 1 \in DOMAIN script.replies
      BY <1>1 DEF ReadFrame, Available
    <3> QED
      BY <1>0, <3>1, Replies
  <2>3. InFlight = inbound
    BY <2>1 DEF InFlight
  <2> DEFINE message == decode(ReplyFrame(read + 1))
  <2>4. CASE message = DecodeError
    <3>1. Yield(Err("Decode"))
      BY <1>1, <2>4 DEF ReadFrame
    <3>2. loop'.pc = "idle" /\ InFlight' = inbound
      BY <2>1, <3>1 DEF Yield, InFlight
    <3>3. \A k : Given(k)' = Given(k)
      BY <3>1, QuietYield DEF Err
    <3> QED
      BY <2>1, <2>2, <2>3, <3>2, <3>3 DEF StepRefused, Quiet
  <2>5. CASE message # DecodeError
    <3>1. message = ReplyMessage(read + 1)
      BY <2>2, <2>5, FrameDecoded
    <3>2. loop' = [pc |-> "read", message |-> message] /\ UNCHANGED events
      BY <1>1, <2>5 DEF ReadFrame
    <3> HIDE DEF message
    <3>3. InFlight' = Append(inbound, message)
      BY <2>1, <3>2 DEF InFlight
    <3> QED
      BY <2>1, <2>2, <2>3, <3>1, <3>2, <3>3, QuietEvents DEF StepPush, Quiet
  <2> QED
    BY <2>4, <2>5
<1>2. CASE QueueResponse
  <2>1. /\ loop.pc = "read" /\ inbound' = Append(inbound, loop.message)
        /\ loop' = [pc |-> "select", message |-> NoMessage]
        /\ UNCHANGED <<script, peers, read, events>>
    BY <1>2 DEF QueueResponse
  <2>2. InFlight' = InFlight
    BY <2>1 DEF InFlight
  <2> QED
    BY <2>1, <2>2, QuietEvents DEF StepStill, Quiet
<1>3. CASE WriteFrame
  <2>1. UNCHANGED <<script, peers, inbound, read>> /\ loop.pc = "select"
    BY <1>3 DEF WriteFrame
  <2>2. loop'.pc \in {"closed", "select"} /\ \A k : Given(k)' = Given(k)
    <3>1. CASE /\ loop' = [pc |-> "closed", message |-> NoMessage]
               /\ events' = Append(events, [event |-> "Close"])
      <4>1. \A k : ~IsMine(k, [event |-> "Close"])
        BY DEF IsMine
      <4>2. IsVec(events)
        BY DEF TypeInv, FramesInv
      <4> QED
        BY <3>1, <4>1, <4>2, GivenAppend
    <3>2. CASE NoEvent
      BY <3>2, QuietEvents DEF NoEvent
    <3> QED
      BY <1>3, <3>1, <3>2, WriteCases
  <2>3. InFlight' = InFlight
    BY <2>1, <2>2 DEF InFlight
  <2> QED
    BY <2>1, <2>2, <2>3 DEF StepStill, Quiet
<1>4. CASE TakeError \/ TakeServerHandshake \/ TakeUnhandled \/ TakeServerMessage
  <2>1. PICK types : Take(types)
    BY <1>4 DEF TakeError, TakeServerHandshake, TakeUnhandled, TakeServerMessage
  <2>2. \/ NoEvent \/ HandlerPanics
        \/ \E event : Yield(event) /\ event.event # "Message"
    BY <1>4 DEF TakeError, TakeServerHandshake, TakeUnhandled, TakeServerMessage,
                ServerError, Err
  <2>3. /\ loop'.pc \in {"idle", "select", "panicked"}
        /\ \A k : Given(k)' = Given(k)
    <3>1. CASE NoEvent \/ HandlerPanics
      BY <3>1, QuietEvents DEF NoEvent, HandlerPanics
    <3>2. CASE \E event : Yield(event) /\ event.event # "Message"
      BY <3>2, QuietYield DEF Yield
    <3> QED
      BY <2>2, <3>1, <3>2
  <2> QED
    BY <2>1, <2>3, TakesHead DEF StepPop
<1>5. CASE TakePeer
  <2>1. /\ loop.pc = "select" /\ inbound # <<>> /\ inbound' = Tail(inbound)
        /\ loop' = [pc |-> "lock", message |-> Head(inbound)]
        /\ UNCHANGED <<script, peers, read, events>>
    BY <1>5 DEF TakePeer, Take
  <2>2. InFlight' = InFlight
    BY <1>0, <2>1, HeadTail DEF InFlight
  <2> QED
    BY <2>1, <2>2, QuietEvents DEF StepStill, Quiet
<1>6. CASE PeerHandshakeResponder
  <2>1. loop.pc = "lock" /\ UNCHANGED <<script, inbound, read>>
    BY <1>6 DEF PeerHandshakeResponder, channels
  <2>2. /\ loop'.pc \in {"idle", "reply"} /\ \A k : Given(k)' = Given(k)
        /\ \A k \in Keys : peers'[k].received = peers[k].received
    <3>1. CASE Yield(Err("PeerAlreadyExistsMaybeRace")) /\ UNCHANGED peers
      <4>1. Err("PeerAlreadyExistsMaybeRace").event # "Message"
        BY DEF Err
      <4> QED
        BY <3>1, <4>1, QuietYield DEF Yield
    <3>2. CASE /\ peers' = [peers EXCEPT ![loop.message.key].status = "transport"]
               /\ loop' = [pc |-> "reply",
                           message |-> Handshake("PeerHandshake", "Responder",
                                                 loop.message.key)]
               /\ UNCHANGED events
      BY <1>0, <3>2, QuietEvents DEF Channels
    <3> QED
      BY <1>6, <3>1, <3>2 DEF PeerHandshakeResponder
  <2> QED
    BY <2>1, <2>2, LockHead DEF StepPop
<1>7. CASE QueueReply
  <2> DEFINE event == [event |-> "PeerConnected", key |-> loop.message.key]
  <2>1. /\ loop.pc = "reply" /\ UNCHANGED <<script, peers, inbound, read>>
        /\ Yield(event) /\ event.event # "Message"
    BY <1>7 DEF QueueReply
  <2> HIDE DEF event
  <2>2. \A k : Given(k)' = Given(k)
    BY <2>1, QuietYield
  <2>3. InFlight' = InFlight
    BY <2>1 DEF InFlight, Yield
  <2> QED
    BY <2>1, <2>2, <2>3 DEF StepStill, Quiet
<1>8. CASE PeerHandshakeAck
  <2>1. loop.pc = "lock" /\ UNCHANGED <<script, inbound, read>>
    BY <1>8 DEF PeerHandshakeAck, channels
  <2>2. \E event : Yield(event) /\ event.event # "Message"
    BY <1>8 DEF PeerHandshakeAck, Err
  <2>3. loop'.pc = "idle" /\ \A k : Given(k)' = Given(k)
    BY <2>2, QuietYield DEF Yield
  <2>4. ASSUME NEW k \in Keys PROVE peers'[k].received \in {peers[k].received, 0}
    <3>1. CASE peers' = [peers EXCEPT ![loop.message.key].status = "transport"]
      BY <1>0, <3>1 DEF Channels
    <3>2. CASE peers' = [peers EXCEPT ![loop.message.key] = Channel("none")]
      BY <1>0, <3>2 DEF Channels, Channel
    <3> QED
      BY <1>8, <3>1, <3>2 DEF PeerHandshakeAck
  <2> QED
    BY <2>1, <2>3, <2>4, LockHead DEF StepPop
<1>9. CASE HandleRelayedMessage
  <2>1. loop.pc = "lock" /\ UNCHANGED <<script, inbound, read>>
    BY <1>9 DEF HandleRelayedMessage, channels
  <2>2. loop'.pc = "idle"
    BY <1>9 DEF HandleRelayedMessage, Yield
  <2>3. CASE CanDecrypt(peers[loop.message.key], loop.message.envelope)
    BY <1>9, <2>1, <2>2, <2>3, LockHead DEF StepGive
  <2>4. CASE ~CanDecrypt(peers[loop.message.key], loop.message.envelope)
    <3>1. Yield(Err("Decrypt")) /\ UNCHANGED peers /\ Err("Decrypt").event # "Message"
      BY <1>9, <2>4 DEF HandleRelayedMessage, Err
    <3>2. \A k : Given(k)' = Given(k)
      BY <3>1, QuietYield
    <3> QED
      BY <2>1, <2>2, <3>1, <3>2, LockHead DEF StepPop
  <2> QED
    BY <2>3, <2>4
<1> QED
  BY <1>1, <1>2, <1>3, <1>4, <1>5, <1>6, <1>7, <1>8, <1>9 DEF LoopStep, TakeResponse

LEMMA Steps ==
    ASSUME TypeInv, FitInv, [Next]_vars
    PROVE  StepStill \/ StepRefused \/ StepPush \/ StepPop \/ StepGive
<1>1. CASE Poll
  <2>1. /\ UNCHANGED <<script, peers, inbound, read, events>>
        /\ loop.pc = "idle" /\ loop'.pc = "select"
    BY <1>1 DEF Poll, channels, FitInv, LoopInv
  <2>2. InFlight' = InFlight
    BY <2>1 DEF InFlight
  <2> QED
    BY <2>1, <2>2, QuietEvents DEF StepStill, Quiet
<1>2. CASE UNCHANGED vars
  <2>1. UNCHANGED <<script, peers, inbound, read, events, loop>>
    BY <1>2 DEF vars, channels
  <2>2. InFlight' = InFlight
    BY <2>1 DEF InFlight
  <2> QED
    BY <2>1, <2>2, QuietEvents DEF StepStill, Quiet
<1> QED
  BY <1>1, <1>2, StepsCaller, StepsLoop DEF Next

\* A relayed message among the replies.
LEMMA PeerReply ==
    ASSUME FitInv, NEW i \in 1..Len(script.replies),
           ReplyMessage(i).type = "PeerMessage"
    PROVE  LET reply == script.replies[i]
               m == ReplyMessage(i)
           IN /\ reply.from \in Keys /\ m.key = reply.from
              /\ m.session = reply.session /\ m.envelope.encoding = reply.encoding
              /\ m.envelope.chunks = split(reply.payload, Earlier(i, reply.from))
              /\ IsVec(reply.payload)
<1> DEFINE reply == script.replies[i]
           envelope == [encoding |-> reply.encoding, broadcast |-> FALSE,
                        chunks |-> split(reply.payload, Earlier(i, reply.from))]
<1>0. IsReply(reply)
  BY Replies
<1>1. reply.from # "transparent"
  <2> SUFFICES ASSUME reply.from = "transparent" PROVE FALSE
    OBVIOUS
  <2>1. IsMessage(reply.message) /\ reply.message.class = "Transparent"
    BY <1>0, EventLoopAssumption DEF IsReply
  <2>2. ReplyMessage(i) = reply.message
    BY DEF ReplyMessage
  <2> QED
    BY <2>1, <2>2 DEF IsMessage
<1>2. reply.from \in Keys \cup {"server"}
  BY <1>0, <1>1 DEF IsReply
<1>3. IsVec(reply.payload)
  BY <1>2, OpaqueReply
<1> HIDE DEF envelope
<1>4. reply.from # "server"
  <2> SUFFICES ASSUME reply.from = "server" PROVE FALSE
    OBVIOUS
  <2>1. ReplyMessage(i) = [class |-> "Opaque", type |-> "ServerMessage",
                           envelope |-> envelope]
    BY DEF ReplyMessage, envelope
  <2> QED
    BY <2>1
<1>5. ReplyMessage(i) = [class |-> "Opaque", type |-> "PeerMessage",
                         key |-> reply.from, session |-> reply.session,
                         envelope |-> envelope]
  BY <1>1, <1>4 DEF ReplyMessage, envelope
<1>6. /\ envelope.encoding = reply.encoding
      /\ envelope.chunks = split(reply.payload, Earlier(i, reply.from))
  BY DEF envelope
<1> QED
  BY <1>2, <1>3, <1>4, <1>5, <1>6

LEMMA OrderGive ==
    ASSUME TypeInv, FitInv, StepGive, NEW idx, NEW p, Flight(idx, p),
           \A k \in Keys : NonEmpty(k) => GivenInv(k, p)
    PROVE  OrderInv'
<1> DEFINE i == idx[1]
           N == Len(script.replies)
           m == loop.message
           k == script.replies[i].from
           reply == script.replies[i]
           n == Nonces(i - 1, k)
           s == split(reply.payload, n)
           e == [event |-> "Message", key |-> m.key,
                 encoding |-> m.envelope.encoding,
                 payload |-> decrypt_peer_channel(m.envelope),
                 session |-> m.session]
<1>1. /\ Flight(Tail(idx), i)' /\ i \in (p + 1)..read /\ m = ReplyMessage(i)
      /\ UNCHANGED script
  BY FlightPop DEF StepGive
<1>2. /\ N \in Nat /\ read \in 0..N /\ p \in 0..read /\ IsVec(events)
      /\ peers \in [Keys -> Channels]
  BY Replies DEF Flight, TypeInv, FramesInv, ChannelsInv
<1>3. i \in 1..N /\ p \in Nat /\ i \in Nat /\ p < i /\ p <= i /\ i <= N /\ i - 1 \in Nat
      /\ i - 1 + 1 = i
  BY <1>1, <1>2
<1>4. /\ m.type = "PeerMessage"
      /\ CanDecrypt(peers[m.key], m.envelope)
      /\ peers' = [peers EXCEPT ![m.key] = Decrypted(@, m.envelope)]
      /\ Yield(e)
  BY DEF StepGive, HandleRelayedMessage
<1>5. /\ k \in Keys /\ m.key = k
      /\ m.session = reply.session /\ m.envelope.encoding = reply.encoding
      /\ m.envelope.chunks = split(reply.payload, Earlier(i, k))
      /\ IsVec(reply.payload)
  BY <1>1, <1>3, <1>4, PeerReply
<1>6. Earlier(i, k) = n /\ n \in Nat
  BY <1>3, <1>5, EarlierNat DEF Nonces
<1>7. /\ s = m.envelope.chunks /\ join_chunks(s) = reply.payload
      /\ DOMAIN s = 1..Len(s) /\ Len(s) \in Nat
      /\ (Len(s) = 0 <=> reply.payload = <<>>)
      /\ \A j \in 1..Len(s) : s[j].contents.nonce = n + j - 1
      /\ Len(split(reply.payload, 0)) = Len(s)
  <2>1. s = m.envelope.chunks
    BY <1>5, <1>6
  <2>2. join_chunks(s) = reply.payload
    BY <1>5, <1>6, SplitJoins
  <2>3. /\ IsVec(s) /\ DOMAIN s = 1..Len(s)
        /\ (Len(s) = 0 <=> reply.payload = <<>>)
        /\ \A j \in 1..Len(s) : s[j].contents.nonce = n + j - 1
        /\ Len(split(reply.payload, 0)) = Len(s)
    <3> DEFINE payload == reply.payload
    <3>1. IsVec(payload) /\ n \in Nat
      BY <1>5, <1>6
    <3> HIDE DEF payload, n
    <3>2. LET t == split(payload, n)
          IN /\ IsVec(t) /\ DOMAIN t = 1..Len(t)
             /\ (Len(t) = 0 <=> payload = <<>>)
             /\ \A j \in 1..Len(t) : t[j].contents.nonce = n + j - 1
             /\ Len(split(payload, 0)) = Len(t)
      BY ONLY <3>1, 0 \in Nat, SplitShape
    <3> QED
      BY <3>2 DEF payload
  <2> QED
    BY <2>1, <2>2, <2>3 DEF IsVec
<1> HIDE DEF s, n
<1>8. /\ e.event = "Message" /\ e.key = k /\ e.payload = reply.payload
      /\ e.session = reply.session /\ e.encoding = reply.encoding
  BY <1>5, <1>7 DEF decrypt_peer_channel
<1>9. events' = Append(events, e)
  BY <1>4 DEF Yield
<1>10. Nonces(i, k) = n + Len(s)
  <2>1. IF script.replies[(i - 1) + 1].from = k
        THEN Nonces((i - 1) + 1, k) = Nonces(i - 1, k)
                 + Len(split(script.replies[(i - 1) + 1].payload, 0))
        ELSE TRUE
    BY <1>3, <1>5, SentNext
  <2> QED
    BY <1>3, <1>7, <2>1 DEF n
<1> HIDE DEF e, reply, m, k, i
<1>11. peers'[k].received = peers[k].received + Len(s)
  BY <1>2, <1>4, <1>5, <1>7 DEF Decrypted, Channels
<1>12. \A q \in Keys : q # k => peers'[q].received = peers[q].received
  BY <1>2, <1>4, <1>5
<1>13. \A q : Given(q)' = IF IsMine(q, e) THEN Append(Given(q), e) ELSE Given(q)
  BY <1>2, <1>9, GivenAppend
<1>14. ASSUME NEW q \in Keys, NonEmpty(q) PROVE GivenInv(q, i)'
  <2>0. GivenInv(q, p)
    BY <1>14
  <2>1. CASE q = k
    <3>1. Len(s) >= 1
      <4>1. reply.payload # <<>>
        BY <1>3, <1>14, <2>1 DEF NonEmpty, k, reply
      <4> QED
        BY <1>7, <4>1
    <3>2. peers[k].received = n
      <4>1. peers[k].received \in Nat
        BY <1>2, <1>5 DEF Channels
      <4>2. s[1].contents.nonce = peers[k].received + 1 - 1
        BY <1>4, <1>5, <1>7, <3>1 DEF CanDecrypt, CanJoin
      <4>3. s[1].contents.nonce = n + 1 - 1
        BY <1>7, <3>1
      <4> QED
        BY <1>6, <4>1, <4>2, <4>3
    <3>3. /\ peers[q].received = Nonces(i - 1, q)
          /\ peers'[q].received = Nonces(i, q)
      BY <1>10, <1>11, <2>1, <3>2 DEF n
    <3>4. Given(q)' = Append(Given(q), e) /\ Same(e, script.replies[i])
          /\ script.replies[i].from = q
      BY <1>8, <1>13, <2>1 DEF IsMine, Same, reply, k
    <3> QED
      BY <1>1, <1>2, <1>3, <1>14, <2>0, <3>3, <3>4, GivenMore
  <2>2. CASE q # k
    <3>1. Given(q)' = Given(q) /\ peers'[q].received \in {peers[q].received, 0}
      BY <1>8, <1>12, <1>13, <2>2 DEF IsMine
    <3> QED
      BY <1>1, <1>2, <1>3, <1>14, <2>0, <3>1, GivenLater
  <2> QED
    BY <2>1, <2>2
<1>15. \A q : NonEmpty(q)' <=> NonEmpty(q)
  BY <1>1, Unmoved
<1>16. \A q \in Keys : NonEmpty(q)' => GivenInv(q, i)'
  BY <1>14, <1>15
<1>17. (Flight(Tail(idx), idx[1]) /\ \A q \in Keys : NonEmpty(q) => GivenInv(q, idx[1]))'
  BY <1>1, <1>16 DEF i
<1> DEFINE rest == Tail(idx)
           first == idx[1]
<1> HIDE DEF rest, first
<1>18. (Flight(rest, first) /\ \A q \in Keys : NonEmpty(q) => GivenInv(q, first))'
  BY <1>17 DEF rest, first
<1> QED
  BY <1>18 DEF OrderInv

LEMMA OrderInit == Init => OrderInv
<1> SUFFICES ASSUME Init PROVE OrderInv
  OBVIOUS
<1>0. FitInv /\ TypeInv
  BY FitInit, TypeInit
<1>1. /\ inbound = <<>> /\ loop.pc = "idle" /\ read = 0 /\ events = <<>>
      /\ \A k \in Keys : peers[k].received = 0
  BY DEF Init, Channel
<1>2. InFlight = <<>>
  BY <1>1 DEF InFlight
<1>3. Flight(<<>>, 0)
  BY <1>1, <1>2, EmptyVec DEF Flight
<1>4. ASSUME NEW k \in Keys, NonEmpty(k) PROVE GivenInv(k, 0)
  <2>1. Given(k) = <<>>
    BY <1>1, FlattenNone DEF Given, Mine
  <2>2. Before(0, k) = <<>>
    BY FlattenNone DEF Before, SentBy
  <2>3. Len(Given(k)) = 0 /\ Len(Before(0, k)) = 0
    BY <2>1, <2>2, EmptyVec
  <2>4. ASSUME NEW n \in 0..Len(script.replies), peers[k].received = Nonces(n, k)
        PROVE  Len(Before(n, k)) = Len(Given(k))
    <3>1. n \in Nat /\ 0 <= n /\ n <= Len(script.replies) /\ Nonces(n, k) = 0
      BY <1>0, <1>1, <2>4, Replies
    <3>2. /\ Len(Before(n, k)) - Len(Before(0, k)) <= Nonces(n, k) - Nonces(0, k)
          /\ Nonces(0, k) \in Nat
      BY <1>0, <1>4, <3>1, SentMono
    <3>3. Len(Before(n, k)) \in Nat
      BY <3>1, SentVecs
    <3> QED
      BY <2>3, <3>1, <3>2, <3>3
  <2> QED
    BY <2>3, <2>4 DEF GivenInv
<1> QED
  BY <1>3, <1>4 DEF OrderInv

LEMMA OrderNext == TypeInv /\ FitInv /\ OrderInv /\ [Next]_vars => OrderInv'
<1> SUFFICES ASSUME TypeInv, FitInv, OrderInv, [Next]_vars PROVE OrderInv'
  OBVIOUS
<1>1. PICK idx, p : Flight(idx, p) /\ \A k \in Keys : NonEmpty(k) => GivenInv(k, p)
  BY DEF OrderInv
<1>2. UNCHANGED script /\ \A k : NonEmpty(k)' <=> NonEmpty(k)
  <2>1. UNCHANGED script
    BY Steps DEF StepStill, StepRefused, StepPush, StepPop, StepGive
  <2> QED
    BY <2>1, Unmoved
<1>3. CASE Quiet /\ InFlight' = InFlight /\ read' \in {read, read + 1}
  <2>1. Flight(idx, p)'
    BY <1>1, <1>2, <1>3, FlightStill
  <2>2. \A k \in Keys : NonEmpty(k)' => GivenInv(k, p)'
    BY <1>1, <1>2, <1>3, GivenStill DEF Quiet
  <2> QED
    BY <2>1, <2>2 DEF OrderInv
<1>4. CASE StepPush
  <2> DEFINE last == read + 1
  <2>1. PICK more : more = Append(idx, last)
    OBVIOUS
  <2>2. PICK x : x = read + 1
    OBVIOUS
  <2>3. /\ InFlight' = Append(InFlight, ReplyMessage(x)) /\ read' = x /\ Quiet
        /\ x = read + 1
    BY <1>4, <2>2 DEF StepPush
  <2>4. Flight(Append(idx, x), p)'
    BY <1>1, <1>2, <2>3, FlightPush
  <2>5. Flight(more, p)'
    BY <2>1, <2>2, <2>4
  <2>6. \A k \in Keys : NonEmpty(k)' => GivenInv(k, p)'
    BY <1>1, <1>2, <2>3, GivenStill DEF Quiet
  <2> QED
    BY <2>5, <2>6 DEF OrderInv
<1>5. CASE StepPop
  <2>1. PICK rest, first : rest = Tail(idx) /\ first = idx[1]
    OBVIOUS
  <2>2. Flight(Tail(idx), idx[1])' /\ idx[1] \in (p + 1)..read
    BY <1>1, <1>5, FlightPop DEF StepPop
  <2>3. Flight(rest, first)' /\ first \in (p + 1)..read
    BY <2>1, <2>2
  <2>4. /\ read \in 0..Len(script.replies) /\ Len(script.replies) \in Nat
        /\ p \in 0..read /\ IsVec(events)
    BY <1>1, Replies DEF TypeInv, FramesInv, Flight
  <2>5. p \in Nat /\ first \in Nat /\ p <= first /\ first <= Len(script.replies)
    BY <2>3, <2>4
  <2>6. ASSUME NEW k \in Keys, NonEmpty(k) PROVE GivenInv(k, first)'
    <3>1. /\ GivenInv(k, p) /\ Given(k)' = Given(k)
          /\ peers'[k].received \in {peers[k].received, 0}
      BY <1>1, <1>5, <2>6 DEF StepPop
    <3> QED
      BY <1>2, <2>4, <2>5, <2>6, <3>1, GivenLater
  <2>7. \A k \in Keys : NonEmpty(k)' => GivenInv(k, first)'
    BY <1>2, <2>6
  <2> QED
    BY <2>3, <2>7 DEF OrderInv
<1>6. CASE StepGive
  BY <1>1, <1>6, OrderGive
<1> QED
  BY <1>3, <1>4, <1>5, <1>6, Steps DEF StepStill, StepRefused

\* The driver gets a peer's messages whole, in the order the relay sent them,
\* none twice and none after a gap, however the frames, the handshakes that
\* come again and the refused frames between them fall.
THEOREM OrderedEvents == Spec => []EventsInOrder
<1>1. TypeInv /\ FitInv /\ OrderInv => EventsInOrder
  <2> SUFFICES ASSUME TypeInv, FitInv, OrderInv, NEW k \in Keys
               PROVE  LET given == FlattenSeq([j \in DOMAIN events |->
                                       IF events[j].event = "Message" /\ events[j].key = k
                                       THEN <<events[j]>> ELSE <<>>])
                          sent == FlattenSeq([j \in DOMAIN script.replies |->
                                       IF script.replies[j].from = k
                                       THEN <<script.replies[j]>> ELSE <<>>])
                      IN (\A j \in DOMAIN sent : sent[j].payload # <<>>) =>
                         /\ Len(given) <= Len(sent)
                         /\ \A j \in DOMAIN given :
                                /\ given[j].payload = sent[j].payload
                                /\ given[j].session = sent[j].session
                                /\ given[j].encoding = sent[j].encoding
    BY DEF EventsInOrder
  <2> DEFINE N == Len(script.replies)
             given == FlattenSeq([j \in DOMAIN events |->
                          IF events[j].event = "Message" /\ events[j].key = k
                          THEN <<events[j]>> ELSE <<>>])
             sent == FlattenSeq([j \in DOMAIN script.replies |->
                          IF script.replies[j].from = k
                          THEN <<script.replies[j]>> ELSE <<>>])
  <2>1. given = Given(k)
    BY DEF Given, Mine, IsMine
  <2>2. sent = Before(N, k)
    BY Replies DEF Before, SentBy
  <2> HIDE DEF given, sent
  <2>3. N \in Nat /\ IsVec(sent) /\ IsVec(given)
    BY <2>1, <2>2, Replies, SentVecs, GivenVec DEF TypeInv, FramesInv
  <2>4. DOMAIN given = 1..Len(given) /\ DOMAIN sent = 1..Len(sent)
    BY <2>3, VecIsSeq
  <2> SUFFICES ASSUME \A j \in DOMAIN sent : sent[j].payload # <<>>
               PROVE  /\ Len(given) <= Len(sent)
                      /\ \A j \in DOMAIN given :
                             /\ given[j].payload = sent[j].payload
                             /\ given[j].session = sent[j].session
                             /\ given[j].encoding = sent[j].encoding
    BY DEF given, sent
  <2>5. NonEmpty(k)
    <3> SUFFICES ASSUME NEW i \in 1..N, script.replies[i].from = k
                 PROVE  script.replies[i].payload # <<>>
      BY DEF NonEmpty
    <3>1. PICK j \in 1..Len(sent) : sent[j] = script.replies[i]
      BY <2>2, SentAll
    <3> QED
      BY <2>4, <3>1
  <2>6. PICK idx, p : Flight(idx, p) /\ GivenInv(k, p)
    BY <2>5 DEF OrderInv
  <2>7. p \in Nat /\ p <= N
    BY <2>3, <2>6 DEF Flight, TypeInv, FramesInv
  <2>8. Len(Before(p, k)) <= Len(Before(N, k)) /\ Len(Before(p, k)) \in Nat
    BY <2>3, <2>5, <2>7, SentMono, SentVecs
  <2>9. Len(given) <= Len(Before(p, k)) /\ \A j \in 1..Len(given) : Same(given[j], sent[j])
    BY <2>1, <2>2, <2>6 DEF GivenInv
  <2>10. Len(given) \in Nat /\ Len(sent) \in Nat
    BY <2>3 DEF IsVec
  <2> QED
    BY <2>2, <2>4, <2>8, <2>9, <2>10 DEF Same
<1> QED
  BY <1>1, FitInit, FitNext, TypeInit, TypeNext, OrderInit, OrderNext, PTL DEF Spec

-----------------------------------------------------------------------------
(* Requests on their way to the socket                                     *)

\* An encrypted message to a peer or to the relay, its chunks and its payload.
IsTo(who, m) ==
    /\ m.class = "Opaque"
    /\ IF who = "server" THEN m.type = "ServerMessage"
                         ELSE m.type = "PeerMessage" /\ m.key = who

Piece(kind, who, m) ==
    IF ~IsTo(who, m) THEN <<>>
    ELSE IF kind = "chunks" THEN m.envelope.chunks
    ELSE <<join_chunks(m.envelope.chunks)>>

Pieces(kind, who, list) == [j \in DOMAIN list |-> Piece(kind, who, list[j])]
On(kind, who, list) == FlattenSeq(Pieces(kind, who, list))

\* What the peer or the relay decodes.
Decoded == [j \in DOMAIN written |-> decode(written[j])]

Stream(kind, who) == On(kind, who, Decoded) \o On(kind, who, outbound)

Requests(list) == IsVec(list) /\ \A j \in 1..Len(list) : IsRequest(list[j])

LEMMA PieceVec ==
    ASSUME NEW kind, NEW who, NEW m, IsRequest(m)
    PROVE  IsVec(Piece(kind, who, m))
<1>1. CASE IsTo(who, m)
  <2>1. m.class = "Opaque" /\ IsMessage(m)
    BY <1>1 DEF IsTo, IsRequest, IsFor
  <2>2. IsEnvelope(m.envelope)
    BY <2>1 DEF IsMessage
  <2>3. IsVec(m.envelope.chunks)
    BY <2>2 DEF IsEnvelope
  <2> QED
    BY <1>1, <2>3, OneVec DEF Piece
<1>2. CASE ~IsTo(who, m)
  BY <1>2, EmptyVec DEF Piece
<1> QED
  BY <1>1, <1>2

LEMMA PiecesVecs ==
    ASSUME NEW kind, NEW who, NEW list, Requests(list)
    PROVE  /\ Vecs(Pieces(kind, who, list)) /\ IsVec(On(kind, who, list))
           /\ Len(Pieces(kind, who, list)) = Len(list) /\ DOMAIN list = 1..Len(list)
<1> DEFINE ss == Pieces(kind, who, list)
<1>1. IsVec(list) /\ Len(list) \in Nat /\ DOMAIN list = 1..Len(list)
  BY VecIsSeq DEF Requests, IsVec
<1>2. IsVec(ss) /\ Len(ss) = Len(list)
  BY <1>1 DEF Pieces, IsVec
<1>3. ASSUME NEW j \in 1..Len(list) PROVE IsVec(ss[j])
  BY <1>1, <1>3, PieceVec DEF Requests, Pieces
<1> HIDE DEF ss
<1>4. Vecs(ss)
  BY <1>2, <1>3 DEF Vecs
<1>5. IsVec(FlattenSeq(ss))
  BY <1>4, FlattenVec
<1> QED
  BY <1>1, <1>2, <1>4, <1>5 DEF On, ss

LEMMA OnAppend ==
    ASSUME NEW kind, NEW who, NEW list, Requests(list), NEW m, IsRequest(m)
    PROVE  /\ Requests(Append(list, m))
           /\ On(kind, who, Append(list, m)) = On(kind, who, list) \o Piece(kind, who, m)
<1> DEFINE t == Append(list, m)
           n == Len(list)
<1>1. IsVec(list) /\ Len(list) \in Nat
  BY DEF Requests, IsVec
<1>2. /\ IsVec(t) /\ Len(t) = Len(list) + 1 /\ DOMAIN t = 1..(Len(list) + 1)
      /\ \A q \in 1..Len(list) : t[q] = list[q]
      /\ t[Len(list) + 1] = m
  BY <1>1, VecAppend
<1> HIDE DEF t
<1>3. Requests(t)
  <2>1. ASSUME NEW j \in 1..Len(t) PROVE IsRequest(t[j])
    <3>1. j \in 1..Len(list) \/ j = Len(list) + 1
      BY <1>1, <1>2
    <3> QED
      BY <1>2, <3>1 DEF Requests
  <2> QED
    BY <1>2, <2>1 DEF Requests
<1> DEFINE a == Pieces(kind, who, list)
           b == Pieces(kind, who, t)
<1>4. IsVec(a) /\ Len(a) = n /\ Vecs(b) /\ Len(b) = n + 1
  BY <1>2, <1>3, PiecesVecs DEF Vecs
<1>5. \A q \in 1..n : b[q] = a[q]
  BY <1>1, <1>2, VecIsSeq DEF Pieces
<1>6. b[n + 1] = Piece(kind, who, m)
  BY <1>1, <1>2 DEF Pieces
<1> HIDE DEF a, b, n
<1>7. FlattenSeq(b) = FlattenSeq(a) \o b[n + 1]
  BY <1>4, <1>5, FlattenStep
<1> QED
  BY <1>3, <1>6, <1>7 DEF On, a, b, t

LEMMA OnTail ==
    ASSUME NEW kind, NEW who, NEW list, Requests(list), list # <<>>
    PROVE  /\ Requests(Tail(list)) /\ IsRequest(Head(list))
           /\ On(kind, who, list) = Piece(kind, who, Head(list)) \o On(kind, who, Tail(list))
<1> DEFINE t == Tail(list)
           n == Len(list)
<1>1. IsVec(list)
  BY DEF Requests
<1>2. /\ IsVec(t) /\ Len(t) = n - 1 /\ DOMAIN t = 1..(n - 1)
      /\ \A q \in 1..(n - 1) : t[q] = list[q + 1]
      /\ Head(list) = list[1] /\ n \in Nat /\ n >= 1
  BY <1>1, VecTail
<1> HIDE DEF t
<1>3. Requests(t)
  <2>1. ASSUME NEW j \in 1..Len(t) PROVE IsRequest(t[j])
    <3>1. j \in 1..(n - 1) /\ j + 1 \in 1..n
      BY <1>2
    <3> QED
      BY <1>2, <3>1 DEF Requests
  <2> QED
    BY <1>2, <2>1 DEF Requests
<1> DEFINE a == Pieces(kind, who, list)
           b == Pieces(kind, who, t)
<1>4. Vecs(a) /\ IsVec(a) /\ Len(a) = n /\ IsVec(b) /\ Len(b) = n - 1
      /\ DOMAIN list = 1..n
  BY <1>2, <1>3, PiecesVecs DEF Vecs
<1>5. ASSUME NEW q \in 1..(n - 1) PROVE b[q] = a[q + 1]
  <2>1. q + 1 \in 1..n
    BY <1>2
  <2> QED
    BY <1>2, <1>4, <2>1 DEF Pieces
<1>6. a[1] = Piece(kind, who, Head(list))
  BY <1>2, <1>4 DEF Pieces
<1> HIDE DEF a, b
<1>7. a # <<>>
  BY <1>2, <1>4, EmptyVec
<1> DEFINE c == Tail(a)
<1>8. /\ IsVec(c) /\ Len(c) = Len(a) - 1 /\ Head(a) = a[1]
      /\ \A q \in 1..(Len(a) - 1) : c[q] = a[q + 1]
  BY ONLY <1>4, <1>7, VecTail
<1>9. FlattenSeq(a) = Head(a) \o FlattenSeq(c)
  BY ONLY <1>4, <1>7, FlattenVecCons
<1> HIDE DEF c
<1>10. Len(c) = Len(b) /\ \A q \in 1..Len(c) : c[q] = b[q]
  BY <1>4, <1>5, <1>8
<1>11. c = b
  BY <1>4, <1>8, <1>10, VecEqual
<1>12. IsRequest(Head(list))
  BY <1>2 DEF Requests
<1> QED
  BY <1>3, <1>6, <1>8, <1>9, <1>11, <1>12 DEF On, a, b, t

LEMMA DecodedRequests ==
    TypeInv => Requests(Decoded) /\ Requests(outbound) /\ Len(Decoded) = Len(written)
<1> SUFFICES ASSUME TypeInv
             PROVE  Requests(Decoded) /\ Requests(outbound) /\ Len(Decoded) = Len(written)
  OBVIOUS
<1>1. /\ IsVec(written) /\ Len(written) \in Nat /\ DOMAIN written = 1..Len(written)
      /\ \A j \in 1..Len(written) : IsFor(decode(written[j]))
  BY VecIsSeq DEF TypeInv, FramesInv, IsVec
<1>2. IsVec(Decoded) /\ Len(Decoded) = Len(written)
  BY <1>1 DEF Decoded, IsVec
<1>3. \A j \in 1..Len(written) : Decoded[j] = decode(written[j])
  BY <1>1 DEF Decoded
<1>4. Requests(Decoded)
  BY <1>1, <1>2, <1>3 DEF Requests, IsRequest
<1> QED
  BY <1>2, <1>4 DEF TypeInv, RequestsInv, Requests

LEMMA DecodedAppend ==
    ASSUME TypeInv, NEW m, IsMessage(m), written' = Append(written, encode(m))
    PROVE  Decoded' = Append(Decoded, m)
<1> DEFINE t == encode(m)
           n == Len(written)
           a == Append(Decoded, m)
<1>1. decode(t) = m
  BY MessageBack
<1>2. /\ IsVec(written) /\ n \in Nat /\ DOMAIN written = 1..n
      /\ IsVec(Decoded) /\ Len(Decoded) = n
  BY DecodedRequests, VecIsSeq DEF TypeInv, FramesInv, IsVec, Requests
<1> HIDE DEF t
<1>3. written' = Append(written, t)
  BY DEF t
<1>4. /\ IsVec(written') /\ Len(written') = Len(written) + 1
      /\ DOMAIN written' = 1..(Len(written) + 1)
      /\ \A q \in 1..Len(written) : written'[q] = written[q]
      /\ written'[Len(written) + 1] = t
  <2>1. IsVec(written)
    BY <1>2
  <2>2. LET w == Append(written, t)
        IN /\ IsVec(w) /\ Len(w) = Len(written) + 1
           /\ DOMAIN w = 1..(Len(written) + 1)
           /\ \A q \in 1..Len(written) : w[q] = written[q]
           /\ w[Len(written) + 1] = t
    BY ONLY <2>1, VecAppend
  <2> QED
    BY <1>3, <2>2
<1>5. /\ IsVec(Decoded') /\ Len(Decoded') = n + 1
      /\ \A q \in 1..(n + 1) : Decoded'[q] = decode(written'[q])
  BY <1>2, <1>4 DEF Decoded, IsVec
<1>6. \A q \in 1..n : Decoded[q] = decode(written[q])
  BY <1>2 DEF Decoded
<1> DEFINE d == Decoded
<1>7. IsVec(d) /\ Len(d) = n
  BY <1>2
<1> HIDE DEF d, n
<1>8. /\ IsVec(Append(d, m)) /\ Len(Append(d, m)) = Len(d) + 1
      /\ \A q \in 1..Len(d) : Append(d, m)[q] = d[q]
      /\ Append(d, m)[Len(d) + 1] = m
  BY ONLY <1>7, VecAppend
<1>9. ASSUME NEW q \in 1..(n + 1) PROVE Decoded'[q] = a[q]
  <2>1. q \in 1..n \/ q = n + 1
    BY <1>2
  <2>2. CASE q \in 1..n
    BY <1>4, <1>5, <1>6, <1>7, <1>8, <2>2 DEF d, n
  <2>3. CASE q = n + 1
    BY <1>1, <1>4, <1>5, <1>7, <1>8, <2>3 DEF d, n
  <2> QED
    BY <2>1, <2>2, <2>3
<1>10. IsVec(a) /\ Len(a) = n + 1
  BY <1>7, <1>8 DEF d
<1> HIDE DEF a
<1>11. Decoded' = a
  BY <1>5, <1>9, <1>10, VecEqual
<1> QED
  BY <1>11 DEF a

LEMMA StreamVec ==
    ASSUME TypeInv, NEW kind, NEW who
    PROVE  /\ IsVec(On(kind, who, Decoded)) /\ IsVec(On(kind, who, outbound))
           /\ IsVec(Stream(kind, who))
<1> DEFINE a == On(kind, who, Decoded)
           b == On(kind, who, outbound)
<1>1. IsVec(a) /\ IsVec(b)
  BY DecodedRequests, PiecesVecs
<1> HIDE DEF a, b
<1>2. IsVec(a \o b)
  BY <1>1, ConcatVec
<1> QED
  BY <1>1, <1>2 DEF a, b, Stream

\* outbound_tx.send(..)
LEMMA StreamQueue ==
    ASSUME TypeInv, NEW kind, NEW who, NEW m, IsRequest(m),
           outbound' = Append(outbound, m), UNCHANGED written
    PROVE  Stream(kind, who)' = Stream(kind, who) \o Piece(kind, who, m)
<1> DEFINE a == On(kind, who, Decoded)
           b == On(kind, who, outbound)
           c == Piece(kind, who, m)
<1>1. Requests(outbound) /\ Decoded' = Decoded
  BY DecodedRequests DEF Decoded
<1>2. On(kind, who, Append(outbound, m)) = b \o c
  BY <1>1, OnAppend
<1>3. Stream(kind, who)' = On(kind, who, Decoded') \o On(kind, who, outbound')
  BY DEF Stream
<1>4. IsVec(a) /\ IsVec(b) /\ IsVec(c)
  BY StreamVec, PieceVec
<1>5. Stream(kind, who)' = a \o (b \o c)
  BY <1>1, <1>2, <1>3
<1> HIDE DEF a, b, c
<1>6. (a \o b) \o c = a \o (b \o c)
  BY <1>4, VecConcat
<1> QED
  BY <1>5, <1>6 DEF Stream, a, b, c

\* send_message
LEMMA StreamWrite ==
    ASSUME TypeInv, NEW kind, NEW who, outbound # <<>>, outbound' = Tail(outbound),
           IsFor(Head(outbound)), written' = Append(written, encode(Head(outbound)))
    PROVE  Stream(kind, who)' = Stream(kind, who)
<1> DEFINE m == Head(outbound)
           a == On(kind, who, Decoded)
           b == Piece(kind, who, m)
           c == On(kind, who, Tail(outbound))
<1>1. Requests(outbound) /\ Requests(Decoded)
  BY DecodedRequests
<1>2. Requests(Tail(outbound)) /\ On(kind, who, outbound) = b \o c
  BY <1>1, OnTail
<1>3. IsMessage(m) /\ IsRequest(m)
  BY DEF IsFor, IsRequest
<1>4. Decoded' = Append(Decoded, m)
  BY <1>3, DecodedAppend
<1>5. On(kind, who, Append(Decoded, m)) = a \o b
  BY <1>1, <1>3, OnAppend
<1>6. Stream(kind, who)' = On(kind, who, Decoded') \o On(kind, who, outbound')
  BY DEF Stream
<1>7. Stream(kind, who)' = (a \o b) \o c /\ Stream(kind, who) = a \o (b \o c)
  BY <1>2, <1>4, <1>5, <1>6 DEF Stream
<1>8. IsVec(a) /\ IsVec(b) /\ IsVec(c)
  BY <1>1, <1>2, <1>3, PiecesVecs, PieceVec
<1> HIDE DEF a, b, c
<1>9. (a \o b) \o c = a \o (b \o c)
  BY <1>8, VecConcat
<1> QED
  BY <1>7, <1>9

-----------------------------------------------------------------------------
(* The handshakes of a peer                                                *)

\* The handshake with a peer is over: none is to come, and none is in flight.
IsHandshake(k, m) ==
    m.class = "Transparent" /\ m.type = "PeerHandshake" /\ m.key = k

NoneLeft(k) ==
    /\ \A i \in Handshakes(k) : i <= read
    /\ \A j \in 1..Len(InFlight) : ~IsHandshake(k, InFlight[j])

OneHandshake(k) == \A i, j \in Handshakes(k) : i = j

\* Such a channel cannot be used again.
Over(k) == peers[k].status # "transport" /\ NoneLeft(k)

LEMMA HandshakeReply ==
    ASSUME FitInv, NEW i \in 1..Len(script.replies), NEW k,
           IsHandshake(k, ReplyMessage(i))
    PROVE  i \in Handshakes(k)
<1> DEFINE reply == script.replies[i]
           envelope == [encoding |-> reply.encoding, broadcast |-> FALSE,
                        chunks |-> split(reply.payload, Earlier(i, reply.from))]
<1>1. reply.from = "transparent"
  <2> SUFFICES ASSUME reply.from # "transparent" PROVE FALSE
    OBVIOUS
  <2>1. ReplyMessage(i) =
            IF reply.from = "server"
            THEN [class |-> "Opaque", type |-> "ServerMessage", envelope |-> envelope]
            ELSE [class |-> "Opaque", type |-> "PeerMessage", key |-> reply.from,
                  session |-> reply.session, envelope |-> envelope]
    BY DEF ReplyMessage
  <2> HIDE DEF envelope
  <2>2. ReplyMessage(i).class = "Opaque"
    BY <2>1
  <2> QED
    BY <2>2 DEF IsHandshake
<1>2. ReplyMessage(i) = reply.message
  BY <1>1 DEF ReplyMessage
<1> QED
  BY <1>1, <1>2, Replies DEF IsHandshake, Handshakes

LEMMA SomeLeft ==
    ASSUME TypeInv, NEW k, NoneLeft(k), loop.pc = "lock",
           IsHandshake(k, loop.message)
    PROVE  FALSE
<1> DEFINE e == loop.message
<1>1. InFlight = <<e>> \o inbound
  BY DEF InFlight
<1>2. IsVec(inbound) /\ Len(inbound) \in Nat
  BY DEF TypeInv, InboundInv, IsVec
<1>3. IsHandshake(k, e)
  OBVIOUS
<1> HIDE DEF e
<1>4. (<<e>> \o inbound)[1] = e /\ Len(<<e>> \o inbound) = Len(inbound) + 1
  BY <1>2, ConsVec
<1>5. 1 \in 1..Len(InFlight) /\ InFlight[1] = e
  BY <1>1, <1>2, <1>4
<1> QED
  BY <1>3, <1>5 DEF NoneLeft

LEMMA NoneLeftStays ==
    ASSUME TypeInv, FitInv, [Next]_vars, NEW k \in Keys, NoneLeft(k)
    PROVE  NoneLeft(k)'
<1>0. /\ read \in Nat /\ IsVec(InFlight) /\ Len(InFlight) \in Nat
      /\ DOMAIN script.replies = 1..Len(script.replies)
  BY FlightVec, Replies DEF TypeInv, FramesInv, IsVec
<1>1. UNCHANGED script /\ Handshakes(k)' = Handshakes(k)
  <2>1. UNCHANGED script
    BY Steps DEF StepStill, StepRefused, StepPush, StepPop, StepGive
  <2> QED
    BY <2>1 DEF Handshakes
<1>2. \A i \in Handshakes(k) : i \in Nat /\ i <= read
  BY <1>0 DEF Handshakes, NoneLeft
<1>3. CASE StepStill \/ StepRefused
  <2>1. InFlight' = InFlight /\ read' \in {read, read + 1}
    BY <1>3 DEF StepStill, StepRefused
  <2>2. \A i \in Handshakes(k) : i <= read'
    BY <1>0, <1>2, <2>1
  <2> QED
    BY <1>1, <2>1, <2>2 DEF NoneLeft
<1>4. CASE StepPush
  <2> DEFINE x == ReplyMessage(read + 1)
             s == InFlight
  <2>1. /\ InFlight' = Append(s, x) /\ read' = read + 1
        /\ read + 1 \in 1..Len(script.replies)
    BY <1>0, <1>4, Replies DEF StepPush
  <2>2. ~IsHandshake(k, x)
    <3> SUFFICES ASSUME IsHandshake(k, x) PROVE FALSE
      OBVIOUS
    <3>1. read + 1 \in Handshakes(k)
      BY <2>1, HandshakeReply
    <3> QED
      BY <1>0, <1>2, <3>1
  <2>3. IsVec(s) /\ Len(s) \in Nat /\ \A j \in 1..Len(s) : ~IsHandshake(k, s[j])
    BY <1>0 DEF NoneLeft
  <2> HIDE DEF x, s
  <2>4. /\ Len(Append(s, x)) = Len(s) + 1 /\ Append(s, x)[Len(s) + 1] = x
        /\ \A q \in 1..Len(s) : Append(s, x)[q] = s[q]
    BY ONLY <2>3, VecAppend
  <2>5. ASSUME NEW j \in 1..Len(Append(s, x)) PROVE ~IsHandshake(k, Append(s, x)[j])
    <3>1. j \in 1..Len(s) \/ j = Len(s) + 1
      BY <2>3, <2>4
    <3> QED
      BY <2>2, <2>3, <2>4, <3>1
  <2>6. \A i \in Handshakes(k) : i <= read'
    BY <1>0, <1>2, <2>1
  <2>7. \A j \in 1..Len(InFlight') : ~IsHandshake(k, InFlight'[j])
    BY <2>1, <2>5
  <2> QED
    BY <1>1, <2>6, <2>7 DEF NoneLeft, IsHandshake
<1>5. CASE StepPop \/ StepGive
  <2> DEFINE s == InFlight
  <2>1. s # <<>> /\ InFlight' = Tail(s) /\ UNCHANGED read
    BY <1>5 DEF StepPop, StepGive
  <2>2. IsVec(s) /\ \A j \in 1..Len(s) : ~IsHandshake(k, s[j])
    BY <1>0 DEF NoneLeft
  <2> HIDE DEF s
  <2>3. /\ Len(Tail(s)) = Len(s) - 1 /\ Len(s) \in Nat
        /\ \A q \in 1..(Len(s) - 1) : Tail(s)[q] = s[q + 1]
    BY <2>1, <2>2, VecTail
  <2>4. ASSUME NEW j \in 1..Len(Tail(s)) PROVE ~IsHandshake(k, Tail(s)[j])
    <3>1. j \in 1..(Len(s) - 1) /\ j + 1 \in 1..Len(s)
      BY <2>3
    <3> QED
      BY <2>2, <2>3, <3>1
  <2>7. \A j \in 1..Len(InFlight') : ~IsHandshake(k, InFlight'[j])
    BY <2>1, <2>4
  <2> QED
    BY <1>1, <1>2, <2>1, <2>7 DEF NoneLeft, IsHandshake
<1> QED
  BY <1>3, <1>4, <1>5, Steps

\* If there is one handshake, none is left after it.
LEMMA LastHandshake ==
    ASSUME TypeInv, FitInv, OrderInv, NEW k \in Keys, OneHandshake(k),
           InFlight # <<>>, IsHandshake(k, InFlight[1]), InFlight' = Tail(InFlight),
           UNCHANGED <<script, read>>
    PROVE  NoneLeft(k)'
<1> DEFINE s == InFlight
           N == Len(script.replies)
<1>1. PICK idx, p : Flight(idx, p)
  BY DEF OrderInv
<1>2. /\ IsVec(s) /\ Len(s) \in Nat /\ Len(idx) = Len(s) /\ p \in 0..read
      /\ read \in 0..N /\ N \in Nat
      /\ \A j \in 1..Len(s) : idx[j] \in (p + 1)..read /\ s[j] = ReplyMessage(idx[j])
      /\ \A i, j \in 1..Len(s) : i < j => idx[i] < idx[j]
  BY <1>1, FlightVec, Replies DEF Flight, TypeInv, FramesInv, IsVec
<1>3. \A j \in 1..Len(s) : idx[j] \in 1..N /\ idx[j] <= read /\ idx[j] \in Nat
  BY <1>2
<1>4. \A j \in 1..Len(s) : IsHandshake(k, s[j]) => idx[j] \in Handshakes(k)
  BY <1>2, <1>3, HandshakeReply
<1>5. s # <<>> /\ IsHandshake(k, s[1]) /\ InFlight' = Tail(s)
  OBVIOUS
<1> HIDE DEF s
<1>6. /\ Len(Tail(s)) = Len(s) - 1 /\ Len(s) >= 1
      /\ \A q \in 1..(Len(s) - 1) : Tail(s)[q] = s[q + 1]
  BY <1>2, <1>5, VecTail
<1>7. idx[1] \in Handshakes(k) /\ 1 \in 1..Len(s)
  BY <1>2, <1>4, <1>5, <1>6
<1>8. \A i \in Handshakes(k) : i <= read
  BY <1>3, <1>7 DEF OneHandshake
<1>9. ASSUME NEW j \in 1..Len(Tail(s)), IsHandshake(k, Tail(s)[j]) PROVE FALSE
  <2>1. j \in 1..(Len(s) - 1) /\ j + 1 \in 1..Len(s) /\ 1 < j + 1
    BY <1>2, <1>6
  <2>2. IsHandshake(k, s[j + 1])
    BY <1>6, <1>9, <2>1
  <2>3. idx[j + 1] = idx[1]
    BY <1>4, <1>7, <2>1, <2>2 DEF OneHandshake
  <2>4. idx[1] < idx[j + 1]
    BY <1>2, <1>7, <2>1
  <2> QED
    BY <1>3, <1>7, <2>1, <2>3, <2>4
<1>10. Handshakes(k)' = Handshakes(k)
  BY DEF Handshakes
<1>11. \A j \in 1..Len(InFlight') : ~IsHandshake(k, InFlight'[j])
  BY <1>5, <1>9
<1> QED
  BY <1>8, <1>10, <1>11 DEF NoneLeft, IsHandshake

LEMMA OverStays ==
    ASSUME TypeInv, FitInv, [Next]_vars, NEW k \in Keys, Over(k)
    PROVE  Over(k)'
<1>0. peers \in [Keys -> Channels]
  BY DEF TypeInv, ChannelsInv
<1>1. NoneLeft(k) /\ NoneLeft(k)' /\ peers[k].status # "transport"
  BY NoneLeftStays DEF Over
<1>2. CASE UNCHANGED peers
  BY <1>1, <1>2 DEF Over
<1>3. ASSUME NEW c \in Callers, ConnectPeer(c) PROVE Over(k)'
  <2> DEFINE key == Head(todo[c]).key
  <2>1. peers' = [peers EXCEPT ![key].status = "handshake"]
    BY <1>3 DEF ConnectPeer
  <2> HIDE DEF key
  <2> QED
    BY <1>0, <1>1, <2>1 DEF Over, Channels
<1>4. ASSUME NEW c \in Callers, Relay(c) PROVE Over(k)'
  <2> DEFINE key == Head(todo[c]).key
             envelope == Envelope(Head(todo[c]).payload, peers[key],
                                  Head(todo[c]).encoding, Head(todo[c]).broadcast)
  <2>1. /\ peers' = [peers EXCEPT ![key] = Encrypted(@, envelope)]
        /\ peers[key].status = "transport"
    BY <1>4 DEF Relay
  <2> HIDE DEF key, envelope
  <2>2. peers'[k] = peers[k]
    BY <1>0, <1>1, <2>1
  <2> QED
    BY <1>1, <2>2 DEF Over
<1>5. CASE HandleRelayedMessage
  <2> DEFINE key == loop.message.key
             envelope == loop.message.envelope
  <2>1. \/ UNCHANGED peers
        \/ peers' = [peers EXCEPT ![key] = Decrypted(@, envelope)]
    BY <1>5 DEF HandleRelayedMessage
  <2> HIDE DEF key, envelope
  <2>2. peers'[k].status = peers[k].status
    BY <1>0, <2>1 DEF Decrypted, Channels
  <2> QED
    BY <1>1, <2>2 DEF Over
<1>6. CASE PeerHandshakeResponder \/ PeerHandshakeAck
  <2> DEFINE key == loop.message.key
  <2>1. /\ loop.pc = "lock" /\ loop.message.type = "PeerHandshake"
        /\ \/ UNCHANGED peers
           \/ peers' = [peers EXCEPT ![key].status = "transport"]
           \/ peers' = [peers EXCEPT ![key] = Channel("none")]
    BY <1>6 DEF PeerHandshakeResponder, PeerHandshakeAck
  <2>2. loop.message.class = "Transparent"
    BY <2>1 DEF TypeInv, HandlerInv, IsFor, IsMessage
  <2>3. key # k
    BY <1>1, <2>1, <2>2, SomeLeft DEF IsHandshake
  <2> HIDE DEF key
  <2>4. peers'[k] = peers[k]
    BY <1>0, <2>1, <2>3
  <2> QED
    BY <1>1, <2>4 DEF Over
<1> QED
  BY <1>2, <1>3, <1>4, <1>5, <1>6
     DEF Next, Caller, Connect, Request, Close, Refuse, Panic, Queue, QueueFails, Poll,
         LoopStep, ReadFrame, QueueResponse, WriteFrame, TakeResponse, TakeError,
         TakeServerHandshake, TakeUnhandled, TakeServerMessage, TakePeer, Take,
         QueueReply, vars

-----------------------------------------------------------------------------
(* What was encrypted, in the order it will be written                     *)

\* The task that may have a request to this peer, or to the relay, in hand.
Carrier(who) == IF who = "server" THEN Driver ELSE lock

One(S) == CHOOSE r : r \in S

HeldPiece(kind, who) ==
    IF Carrier(who) \in Callers /\ held[Carrier(who)] # {}
    THEN Piece(kind, who, One(held[Carrier(who)])) ELSE <<>>

\* All that was encrypted for it, in the order it will be written.
Line(kind, who) == Stream(kind, who) \o HeldPiece(kind, who)

AskedOf(who) ==
    IF who = "server"
    THEN [j \in DOMAIN asked.server |-> encode_server(asked.server[j])]
    ELSE asked.peers[who]

Nonce(who) == IF who = "server" THEN server.sent ELSE peers[who].sent
Spent(who) == who # "server" /\ Over(who)

Counted(s) == \A j \in 1..Len(s) : s[j].contents.nonce = j - 1

Flow(who) ==
    /\ Counted(Line("chunks", who))
    /\ Line("payloads", who) = AskedOf(who)
    /\ Nonce(who) = Len(Line("chunks", who)) \/ Spent(who)

Begins(s, t) == Len(s) <= Len(t) /\ \A j \in 1..Len(s) : s[j] = t[j]

Arrived(who) ==
    /\ Counted(On("chunks", who, Decoded))
    /\ Begins(On("payloads", who, Decoded), AskedOf(who))

Carried(who) ==
    \A c \in Callers : \A r \in held[c] : IsTo(who, r) => c = Carrier(who)

Single(who) ==
    IF who = "server"
    THEN \A i \in DOMAIN script.calls : script.calls[i].call # "request"
    ELSE OneHandshake(who)

LEMMA HeldRequest ==
    ASSUME TypeInv, NEW c \in Callers, held[c] # {}
    PROVE  \E r : IsRequest(r) /\ held[c] = {r} /\ One(held[c]) = r
<1>1. PICK r : IsRequest(r) /\ held[c] = {r}
  BY DEF TypeInv, RequestsInv
<1>2. One({r}) = r
  BY DEF One
<1> QED
  BY <1>1, <1>2

LEMMA LineVec ==
    ASSUME TypeInv, NEW kind, NEW who
    PROVE  IsVec(HeldPiece(kind, who)) /\ IsVec(Line(kind, who))
<1> DEFINE a == Stream(kind, who)
           b == HeldPiece(kind, who)
<1>1. IsVec(a)
  BY StreamVec
<1>2. IsVec(b)
  <2>1. CASE Carrier(who) \in Callers /\ held[Carrier(who)] # {}
    <3>1. PICK r : IsRequest(r) /\ One(held[Carrier(who)]) = r
      BY <2>1, HeldRequest
    <3> QED
      BY <2>1, <3>1, PieceVec DEF HeldPiece
  <2>2. CASE ~(Carrier(who) \in Callers /\ held[Carrier(who)] # {})
    BY <2>2, EmptyVec DEF HeldPiece
  <2> QED
    BY <2>1, <2>2
<1> HIDE DEF a, b
<1>3. IsVec(a \o b)
  BY <1>1, <1>2, ConcatVec
<1> QED
  BY <1>2, <1>3 DEF a, b, Line

\* A task has made a request.
LEMMA HoldPiece ==
    ASSUME FitInv, NEW kind, NEW who, NEW c \in Callers, NEW r, held[c] = {},
           Hold(c, r), Carrier(who)' = Carrier(who)
    PROVE  /\ Carrier(who) = c => /\ HeldPiece(kind, who) = <<>>
                                  /\ HeldPiece(kind, who)' = Piece(kind, who, r)
           /\ Carrier(who) # c => HeldPiece(kind, who)' = HeldPiece(kind, who)
           /\ ~IsTo(who, r) => HeldPiece(kind, who)' = HeldPiece(kind, who)
<1>1. DOMAIN held = Callers /\ held' = [held EXCEPT ![c] = {r}]
  BY DEF FitInv, HeldInv, Hold
<1>2. HeldPiece(kind, who)' =
          IF Carrier(who) \in Callers /\ held'[Carrier(who)] # {}
          THEN Piece(kind, who, One(held'[Carrier(who)])) ELSE <<>>
  BY DEF HeldPiece, Piece, IsTo
<1>3. CASE Carrier(who) = c
  <2>1. HeldPiece(kind, who) = <<>>
    BY <1>3 DEF HeldPiece
  <2>2. held'[Carrier(who)] = {r} /\ {r} # {} /\ Carrier(who) \in Callers
    BY <1>1, <1>3
  <2>3. One({r}) = r
    BY DEF One
  <2>4. HeldPiece(kind, who)' = Piece(kind, who, r)
    BY <1>2, <2>2, <2>3
  <2> QED
    BY <1>3, <2>1, <2>4 DEF Piece
<1>4. CASE Carrier(who) # c
  <2>1. Carrier(who) \in Callers => held'[Carrier(who)] = held[Carrier(who)]
    BY <1>1, <1>4
  <2>2. HeldPiece(kind, who)' = HeldPiece(kind, who)
    BY <1>2, <2>1 DEF HeldPiece
  <2> QED
    BY <1>4, <2>2
<1> QED
  BY <1>3, <1>4

LEMMA StreamStill ==
    ASSUME NEW kind, NEW who, UNCHANGED <<written, outbound>>
    PROVE  Stream(kind, who)' = Stream(kind, who)
<1>1. Decoded' = Decoded
  BY DEF Decoded
<1>2. Stream(kind, who)' = On(kind, who, Decoded') \o On(kind, who, outbound')
  BY DEF Stream
<1> QED
  BY <1>1, <1>2 DEF Stream

LEMMA HeldStill ==
    ASSUME NEW kind, NEW who, UNCHANGED <<held, lock>>
    PROVE  HeldPiece(kind, who)' = HeldPiece(kind, who) /\ Carrier(who)' = Carrier(who)
<1>1. Carrier(who)' = Carrier(who)
  BY DEF Carrier
<1>2. HeldPiece(kind, who)' =
          IF Carrier(who)' \in Callers /\ held'[Carrier(who)'] # {}
          THEN Piece(kind, who, One(held'[Carrier(who)'])) ELSE <<>>
  BY DEF HeldPiece
<1> QED
  BY <1>1, <1>2 DEF HeldPiece

LEMMA LineNow ==
    ASSUME NEW kind, NEW who
    PROVE  Line(kind, who)' = Stream(kind, who)' \o HeldPiece(kind, who)'
  BY DEF Line

\* Queueing a request moves it from the hand of its task to the channel.
LEMMA LineQueue ==
    ASSUME TypeInv, FitInv, NEW c \in Callers, Queue(c), NEW kind,
           NEW who \in Keys \cup {"server"}, Carried(who)
    PROVE  Line(kind, who)' = Line(kind, who)
<1>1. PICK r : IsRequest(r) /\ held[c] = {r} /\ One(held[c]) = r
  BY HeldRequest DEF Queue
<1>2. /\ outbound' = Append(outbound, r) /\ UNCHANGED written
      /\ held' = [held EXCEPT ![c] = {}] /\ DOMAIN held = Callers
      /\ lock' = IF lock = c THEN NoOne ELSE lock
  BY <1>1 DEF Queue, FitInv, HeldInv
<1> DEFINE s == Stream(kind, who)
           x == Piece(kind, who, r)
           h == HeldPiece(kind, who)
<1>3. Stream(kind, who)' = s \o x
  BY <1>1, <1>2, StreamQueue
<1>4. IsVec(s) /\ IsVec(x) /\ IsVec(h)
  BY <1>1, StreamVec, PieceVec, LineVec
<1>5. Line(kind, who)' = (s \o x) \o HeldPiece(kind, who)' /\ Line(kind, who) = s \o h
  BY <1>3, LineNow DEF Line
<1>6. HeldPiece(kind, who)' =
          IF Carrier(who)' \in Callers /\ held'[Carrier(who)'] # {}
          THEN Piece(kind, who, One(held'[Carrier(who)'])) ELSE <<>>
  BY DEF HeldPiece
<1>7. NoOne \notin Callers /\ Driver \in Callers
  BY EventLoopAssumption DEF Callers
<1>8. CASE Carrier(who) = c
  <2>1. h = x
    BY <1>1, <1>8 DEF HeldPiece
  <2>2. Carrier(who)' = c \/ Carrier(who)' = NoOne
    BY <1>2, <1>8 DEF Carrier
  <2>3. HeldPiece(kind, who)' = <<>>
    BY <1>2, <1>6, <1>7, <2>2
  <2> HIDE DEF s, x, h
  <2>4. (s \o x) \o <<>> = s \o x
    <3>1. IsVec(s \o x)
      BY <1>4, ConcatVec
    <3> DEFINE t == s \o x
    <3> HIDE DEF t
    <3>2. t \o <<>> = t
      BY <3>1, VecConcat DEF t
    <3> QED
      BY <3>2 DEF t
  <2> QED
    BY <1>5, <2>1, <2>3, <2>4
<1>9. CASE Carrier(who) # c
  <2>1. ~IsTo(who, r)
    BY <1>1, <1>9 DEF Carried
  <2>2. x = <<>>
    BY <2>1 DEF Piece
  <2>3. Carrier(who)' = Carrier(who)
    BY <1>2, <1>9 DEF Carrier
  <2>4. Carrier(who) \in Callers => held'[Carrier(who)] = held[Carrier(who)]
    BY <1>2, <1>9
  <2>5. HeldPiece(kind, who)' = h
    BY <1>6, <2>3, <2>4 DEF HeldPiece
  <2> HIDE DEF s, x, h
  <2>6. s \o <<>> = s
    <3>1. IsVec(s)
      BY <1>4
    <3> QED
      BY ONLY <3>1, VecConcat
  <2> QED
    BY <1>5, <2>2, <2>5, <2>6
<1> QED
  BY <1>8, <1>9

\* A request more.
LEMMA FlowMore ==
    ASSUME TypeInv, NEW who, Flow(who), ~Spent(who), NEW payload, IsVec(payload),
           NEW nonce \in Nat, nonce = Nonce(who), NEW r, IsTo(who, r),
           r.envelope.chunks = split(payload, nonce),
           \A kind \in {"chunks", "payloads"} :
               Line(kind, who)' = Line(kind, who) \o Piece(kind, who, r),
           Nonce(who)' = nonce + Len(split(payload, nonce)),
           AskedOf(who)' = Append(AskedOf(who), payload)
    PROVE  Flow(who)'
<1> DEFINE s == split(payload, nonce)
           a == Line("chunks", who)
           b == Line("payloads", who)
<1>1. IsVec(a) /\ IsVec(b)
  BY LineVec
<1>2. /\ IsVec(s) /\ Len(s) \in Nat /\ join_chunks(s) = payload
      /\ \A j \in 1..Len(s) : s[j].contents.nonce = nonce + j - 1
  BY SplitShape, SplitJoins DEF IsVec
<1>3. nonce = Len(a) /\ Counted(a) /\ b = AskedOf(who)
  BY DEF Flow
<1>4. Piece("chunks", who, r) = s /\ Piece("payloads", who, r) = <<payload>>
  BY <1>2 DEF Piece
<1>5. Line("chunks", who)' = a \o s /\ Line("payloads", who)' = b \o <<payload>>
  BY <1>4
<1>6. Nonce(who)' = nonce + Len(s)
  OBVIOUS
<1> HIDE DEF a, b, s
<1>7. /\ Len(a \o s) = Len(a) + Len(s)
      /\ \A q \in 1..Len(a) : (a \o s)[q] = a[q]
      /\ \A q \in 1..Len(s) : (a \o s)[Len(a) + q] = s[q]
  BY ONLY <1>1, <1>2, ConcatVec
<1>8. ASSUME NEW j \in 1..Len(a \o s) PROVE (a \o s)[j].contents.nonce = j - 1
  <2>0. Len(a) \in Nat
    BY <1>3
  <2>1. CASE j \in 1..Len(a)
    BY <1>3, <1>7, <2>1 DEF Counted
  <2>2. CASE j \notin 1..Len(a)
    <3>1. j - Len(a) \in 1..Len(s) /\ Len(a) + (j - Len(a)) = j
      BY <1>2, <1>7, <2>0, <2>2
    <3>2. (a \o s)[j] = s[j - Len(a)]
      BY <1>7, <3>1
    <3>3. s[j - Len(a)].contents.nonce = nonce + (j - Len(a)) - 1
      BY <1>2, <3>1
    <3> QED
      BY <1>3, <2>0, <3>1, <3>2, <3>3
  <2> QED
    BY <2>1, <2>2
<1>9. b \o <<payload>> = Append(b, payload)
  BY <1>1, VecAppend
<1>10. Counted(Line("chunks", who)')
  BY <1>5, <1>8 DEF Counted
<1>11. Line("payloads", who)' = AskedOf(who)'
  BY <1>3, <1>5, <1>9
<1>12. Nonce(who)' = Len(Line("chunks", who)')
  BY <1>3, <1>5, <1>6, <1>7
<1> QED
  BY <1>10, <1>11, <1>12 DEF Flow, Counted

LEMMA FlowStill ==
    ASSUME NEW who, Flow(who),
           \A kind \in {"chunks", "payloads"} : Line(kind, who)' = Line(kind, who),
           AskedOf(who)' = AskedOf(who),
           Nonce(who)' = Nonce(who) \/ Spent(who)', Spent(who) => Spent(who)'
    PROVE  Flow(who)'
<1>1. Line("chunks", who)' = Line("chunks", who) /\ Line("payloads", who)' = Line("payloads", who)
  OBVIOUS
<1> QED
  BY <1>1 DEF Flow, Counted

\* What was written can be read.
LEMMA FlowArrives ==
    ASSUME TypeInv, NEW who, Flow(who)
    PROVE  Arrived(who)
<1> DEFINE A(kind) == On(kind, who, Decoded)
           B(kind) == On(kind, who, outbound)
           C(kind) == HeldPiece(kind, who)
           L(kind) == Line(kind, who)
<1>1. ASSUME NEW kind
      PROVE  /\ IsVec(A(kind)) /\ Len(A(kind)) <= Len(L(kind))
             /\ \A j \in 1..Len(A(kind)) : L(kind)[j] = A(kind)[j]
             /\ Len(A(kind)) \in Nat /\ Len(L(kind)) \in Nat
  <2> DEFINE a == A(kind)
             b == B(kind)
             c == C(kind)
  <2>1. IsVec(a) /\ IsVec(b) /\ IsVec(c)
    BY StreamVec, LineVec
  <2>2. L(kind) = (a \o b) \o c
    BY DEF Line, Stream
  <2> HIDE DEF a, b, c
  <2>3. (a \o b) \o c = a \o (b \o c) /\ IsVec(b \o c)
    BY <2>1, VecConcat
  <2> DEFINE d == b \o c
  <2> HIDE DEF d
  <2>4. IsVec(d) /\ L(kind) = a \o d
    BY <2>2, <2>3 DEF d
  <2>5. Len(a \o d) = Len(a) + Len(d) /\ \A q \in 1..Len(a) : (a \o d)[q] = a[q]
    BY <2>1, <2>4, ConcatVec
  <2>6. Len(a) \in Nat /\ Len(d) \in Nat
    BY <2>1, <2>4 DEF IsVec
  <2> HIDE DEF L
  <2> QED
    BY <2>1, <2>4, <2>5, <2>6 DEF a
<1>2. Counted(L("chunks")) /\ L("payloads") = AskedOf(who)
  BY DEF Flow
<1> HIDE DEF A, L
<1>3. Counted(A("chunks"))
  <2> SUFFICES ASSUME NEW j \in 1..Len(A("chunks"))
               PROVE  A("chunks")[j].contents.nonce = j - 1
    BY DEF Counted
  <2>1. j \in 1..Len(L("chunks")) /\ L("chunks")[j] = A("chunks")[j]
    BY <1>1
  <2> QED
    BY <1>2, <2>1 DEF Counted
<1>4. Begins(A("payloads"), AskedOf(who))
  <2>1. /\ Len(A("payloads")) <= Len(L("payloads"))
        /\ \A j \in 1..Len(A("payloads")) : L("payloads")[j] = A("payloads")[j]
    BY <1>1
  <2> QED
    BY <1>2, <2>1 DEF Begins
<1> QED
  BY <1>3, <1>4 DEF Arrived, A

LEMMA CallTyped ==
    ASSUME FitInv, NEW c \in Callers, NEW type, Call(c, type), UNCHANGED script
    PROVE  IsCall(Head(todo[c])) /\ Head(todo[c]).call = type /\ held[c] = {}
           /\ todo[c] # <<>>
<1>1. Head(todo[c]) \in CallsOf(script) /\ Head(todo[c]).call = type
  BY FitCall
<1> QED
  BY <1>1, ScriptsAssumption DEF FitInv, TodoInv, Call, Turn

\* request(): the payload, the envelope and what is remembered of them.
LEMMA RequestFacts ==
    ASSUME TypeInv, FitInv, NEW c \in Callers, Request(c)
    PROVE  \E payload, r :
               /\ IsVec(payload) /\ held[c] = {} /\ Hold(c, r)
               /\ r.class = "Opaque" /\ r.type = "ServerMessage"
               /\ r.envelope.chunks = split(payload, server.sent)
               /\ server'.sent = server.sent + Len(split(payload, server.sent))
               /\ AskedOf("server")' = Append(AskedOf("server"), payload)
               /\ asked'.peers = asked.peers
               /\ UNCHANGED <<script, peers, lock, outbound, written, loop>>
<1> DEFINE message == Head(todo[c]).message
           payload == encode_server(message)
           envelope == Envelope(payload, server, "Blob", FALSE)
           r == [class |-> "Opaque", type |-> "ServerMessage", envelope |-> envelope]
<1>1. /\ IsServerMessage(message) /\ held[c] = {}
  BY CallTyped DEF Request, IsCall
<1>2. /\ server' = Encrypted(server, envelope) /\ Hold(c, r)
      /\ asked' = [asked EXCEPT !.server = Append(@, message)]
      /\ UNCHANGED <<script, peers, lock, outbound, written, loop>>
  BY DEF Request, channels
<1>3. IsVec(payload) /\ server \in Channels
  BY <1>1, ServerMessageBack DEF TypeInv, ChannelsInv
<1>4. envelope.chunks = split(payload, server.sent)
  BY DEF Envelope
<1>5. server'.sent = server.sent + Len(split(payload, server.sent))
  <2> HIDE DEF payload, envelope
  <2> QED
    BY <1>2, <1>3, <1>4 DEF Encrypted, Channels
<1>6. asked'.server = Append(asked.server, message) /\ asked'.peers = asked.peers
  <2> DEFINE list == Append(asked.server, message)
  <2>1. asked = [server |-> asked.server, peers |-> asked.peers]
    BY DEF TypeInv, HistoryInv
  <2>2. asked' = [asked EXCEPT !.server = list]
    BY <1>2
  <2> HIDE DEF list
  <2>3. asked' = [server |-> list, peers |-> asked.peers]
    BY ONLY <2>1, <2>2
  <2>4. asked'.server = list /\ asked'.peers = asked.peers
    BY <2>3
  <2> QED
    BY <2>4 DEF list
<1>7. AskedOf("server")' = Append(AskedOf("server"), payload)
  <2> DEFINE a == asked.server
             n == Len(a)
             b == [j \in DOMAIN a |-> encode_server(a[j])]
             d == Append(a, message)
             e == [j \in DOMAIN d |-> encode_server(d[j])]
  <2>1. AskedOf("server") = b /\ AskedOf("server")' = e
    BY <1>6 DEF AskedOf
  <2>2. IsVec(a) /\ n \in Nat /\ DOMAIN a = 1..n
    BY VecIsSeq DEF TypeInv, HistoryInv, IsVec
  <2> HIDE DEF a, message
  <2>3. /\ IsVec(d) /\ Len(d) = Len(a) + 1 /\ DOMAIN d = 1..(Len(a) + 1)
        /\ \A q \in 1..Len(a) : d[q] = a[q]
        /\ d[Len(a) + 1] = message
    <3>1. IsVec(a)
      BY <2>2
    <3> QED
      BY ONLY <3>1, VecAppend
  <2> HIDE DEF d
  <2>4. IsVec(b) /\ Len(b) = n /\ \A q \in 1..n : b[q] = encode_server(a[q])
    BY <2>2 DEF IsVec
  <2>5. IsVec(e) /\ Len(e) = n + 1 /\ \A q \in 1..(n + 1) : e[q] = encode_server(d[q])
    BY <2>2, <2>3 DEF IsVec
  <2> HIDE DEF b, e, payload, n
  <2> DEFINE f == Append(b, payload)
  <2>6. /\ IsVec(f) /\ Len(f) = Len(b) + 1 /\ f[Len(b) + 1] = payload
        /\ \A q \in 1..Len(b) : f[q] = b[q]
    <3>1. IsVec(b)
      BY <2>4
    <3> QED
      BY ONLY <3>1, VecAppend
  <2> HIDE DEF f
  <2>7. ASSUME NEW q \in 1..Len(e) PROVE e[q] = f[q]
    <3>1. q \in 1..n \/ q = n + 1
      BY <2>2, <2>5
    <3>2. CASE q \in 1..n
      <4>1. e[q] = encode_server(d[q]) /\ d[q] = a[q]
        BY <2>2, <2>3, <2>5, <3>2 DEF n
      <4>2. f[q] = encode_server(a[q])
        BY <2>4, <2>6, <3>2
      <4> QED
        BY <4>1, <4>2
    <3>3. CASE q = n + 1
      <4>1. e[q] = encode_server(d[q]) /\ d[q] = message
        BY <2>2, <2>5, <2>3, <3>3 DEF n
      <4> QED
        BY <2>4, <2>6, <3>3, <4>1 DEF payload
    <3> QED
      BY <3>1, <3>2, <3>3
  <2>8. e = f
    BY <2>4, <2>5, <2>6, <2>7, VecEqual
  <2> QED
    BY <2>1, <2>8 DEF f
<1>8. r.class = "Opaque" /\ r.type = "ServerMessage" /\ r.envelope.chunks = split(payload, server.sent)
  <2> HIDE DEF envelope
  <2> QED
    BY <1>4
<1> HIDE DEF payload, r
<1> QED
  BY <1>1, <1>2, <1>3, <1>5, <1>6, <1>7, <1>8

\* relay() for this peer: what it takes, and what it leaves behind.
Relayed(c, k, payload, r) ==
    /\ IsVec(payload) /\ held[c] = {} /\ Hold(c, r)
    /\ lock = NoOne /\ lock' = c
    /\ r.class = "Opaque" /\ r.type = "PeerMessage" /\ r.key = k
    /\ r.envelope.chunks = split(payload, peers[k].sent)
    /\ peers[k].status = "transport"
    /\ peers'[k].sent = peers[k].sent + Len(split(payload, peers[k].sent))
    /\ asked'.peers[k] = Append(asked.peers[k], payload)
    /\ \A q \in Keys : q # k => /\ peers'[q] = peers[q]
                                /\ asked'.peers[q] = asked.peers[q]
    /\ asked'.server = asked.server
    /\ UNCHANGED <<script, server, outbound, written, loop>>

LEMMA RelayFacts ==
    ASSUME TypeInv, FitInv, NEW c \in Callers, Relay(c)
    PROVE  \E k \in Keys : \E payload, r : Relayed(c, k, payload, r)
<1> DEFINE call == Head(todo[c])
           k == call.key
           payload == call.payload
           envelope == Envelope(payload, peers[k], call.encoding, call.broadcast)
           r == [class |-> "Opaque", type |-> "PeerMessage", key |-> k,
                 session |-> call.session, envelope |-> envelope]
<1>1. IsCall(call) /\ call.call = "relay" /\ held[c] = {}
  BY CallTyped DEF Relay
<1>2. k \in Keys /\ IsVec(payload)
  BY <1>1 DEF IsCall
<1>3. /\ peers' = [peers EXCEPT ![k] = Encrypted(@, envelope)]
      /\ peers[k].status = "transport"
      /\ Hold(c, r) /\ lock = NoOne /\ lock' = c
      /\ asked' = [asked EXCEPT !.peers[k] = Append(@, payload)]
      /\ UNCHANGED <<script, server, outbound, written, loop>>
  BY DEF Relay, channels
<1>4. envelope.chunks = split(payload, peers[k].sent)
  BY DEF Envelope
<1>5. peers \in [Keys -> Channels]
  BY DEF TypeInv, ChannelsInv
<1> HIDE DEF call, k, payload, envelope
<1>6. /\ peers'[k].sent = peers[k].sent + Len(split(payload, peers[k].sent))
      /\ \A q \in Keys : q # k => peers'[q] = peers[q]
  BY <1>2, <1>3, <1>4, <1>5 DEF Encrypted, Channels
<1>7. /\ asked'.server = asked.server
      /\ asked'.peers = [asked.peers EXCEPT ![k] = Append(@, payload)]
  BY <1>3 DEF TypeInv, HistoryInv
<1>8. /\ asked'.peers[k] = Append(asked.peers[k], payload)
      /\ \A q \in Keys : q # k => asked'.peers[q] = asked.peers[q]
  <2>1. DOMAIN asked.peers = Keys
    BY DEF TypeInv, HistoryInv
  <2> QED
    BY <1>2, <1>7, <2>1
<1>9. /\ r.class = "Opaque" /\ r.type = "PeerMessage" /\ r.key = k
      /\ r.envelope.chunks = split(payload, peers[k].sent)
  BY <1>4
<1> HIDE DEF r
<1>10. Relayed(c, k, payload, r)
  BY <1>1, <1>2, <1>3, <1>6, <1>7, <1>8, <1>9 DEF Relayed
<1> QED
  BY <1>2, <1>10

-----------------------------------------------------------------------------
(* The guard of the peers and the tasks that carry requests                *)

\* The guard of the peers is with the handler that queues an answer, or with
\* the task that has a relayed message in hand; clones make the calls of the
\* script.
LockInv == loop.pc = "reply" => lock = Loop

CloneInv == \A c \in Clones : todo[c] \in Seq(Range(script.calls))

TaskInv ==
    /\ LockInv /\ CloneInv
    /\ \A who \in Keys \cup {"server"} : Single(who) => Carried(who)

LEMMA KeysAreKeys ==
    /\ "server" \notin Keys
    /\ NoOne \notin Callers /\ Loop \notin Callers /\ Driver \in Callers
    /\ NoOne # Loop
  BY EventLoopAssumption DEF Callers

LEMMA TaskInit == Init => TaskInv
<1> SUFFICES ASSUME Init PROVE TaskInv
  OBVIOUS
<1>1. LockInv
  BY DEF Init, LockInv
<1>2. CloneInv
  <2>1. script.calls \in Seq(CallsOf(script))
    BY ScriptsAssumption DEF Init
  <2>2. \A j \in 1..Len(script.calls) : script.calls[j] \in Range(script.calls)
    BY <2>1 DEF Range
  <2>3. script.calls \in Seq(Range(script.calls))
    BY <2>1, <2>2
  <2>4. ASSUME NEW c \in Clones PROVE todo[c] = script.calls
    BY EventLoopAssumption DEF Init, Callers
  <2> QED
    BY <2>3, <2>4 DEF CloneInv
<1>3. ASSUME NEW who PROVE Carried(who)
  BY DEF Init, Carried
<1> QED
  BY <1>1, <1>2, <1>3 DEF TaskInv

LEMMA SingleStays ==
    ASSUME UNCHANGED script, NEW who
    PROVE  Single(who)' <=> Single(who)
  BY DEF Single, OneHandshake, Handshakes

\* A request in the hand of a task, if it is one to this peer.
LEMMA CarriedHold ==
    ASSUME FitInv, NEW who, NEW c \in Callers, NEW r, Hold(c, r), Carried(who),
           IsTo(who, r) => Carrier(who)' = c,
           \/ Carrier(who)' = Carrier(who)
           \/ Carrier(who) \notin Callers
    PROVE  Carried(who)'
<1>1. DOMAIN held = Callers /\ held' = [held EXCEPT ![c] = {r}]
  BY DEF FitInv, HeldInv, Hold
<1>2. ASSUME NEW d \in Callers, NEW q \in held'[d], IsTo(who, q)
      PROVE  d = Carrier(who)'
  <2>1. CASE d = c
    BY <1>1, <1>2, <2>1
  <2>2. CASE d # c
    <3>1. q \in held[d]
      BY <1>1, <2>2
    <3> QED
      BY <1>2, <3>1 DEF Carried
  <2> QED
    BY <2>1, <2>2
<1> QED
  BY <1>2 DEF Carried, IsTo

LEMMA CarriedQueued ==
    ASSUME FitInv, NEW who, NEW c \in Callers, held' = [held EXCEPT ![c] = {}],
           lock' = IF lock = c THEN NoOne ELSE lock, Carried(who)
    PROVE  Carried(who)'
<1>1. DOMAIN held = Callers
  BY DEF FitInv, HeldInv
<1>2. ASSUME NEW d \in Callers, NEW q \in held'[d], IsTo(who, q)
      PROVE  d = Carrier(who)'
  <2>1. d # c /\ q \in held[d]
    BY <1>1
  <2>2. d = Carrier(who)
    BY <1>2, <2>1 DEF Carried
  <2> QED
    BY <2>1, <2>2 DEF Carrier
<1> QED
  BY <1>2 DEF Carried, IsTo

LEMMA CarriedStill ==
    ASSUME NEW who, UNCHANGED held, Carried(who),
           Carrier(who)' = Carrier(who) \/ Carrier(who) \notin Callers
    PROVE  Carried(who)'
  BY DEF Carried, IsTo

LEMMA TaskCaller ==
    ASSUME TypeInv, FitInv, TaskInv, NEW c \in Callers, Caller(c)
    PROVE  TaskInv'
<1>0. loop = [pc |-> loop.pc, message |-> loop.message]
  BY DEF FitInv, LoopInv
<1>1. UNCHANGED script /\ (loop'.pc = "reply" <=> loop.pc = "reply")
  <2>1. UNCHANGED script
    BY DEF Caller, Connect, ConnectPeer, Request, Relay, Close, Refuse, Panic, Queue,
           QueueFails
  <2> QED
    BY <1>0, <2>1, CallerLoop
<1>2. LockInv'
  BY <1>1, KeysAreKeys
     DEF TaskInv, LockInv, Caller, Connect, ConnectPeer, Request, Relay, Close,
         Refuse, Panic, Queue, QueueFails
<1>3. CloneInv'
  <2>1. ASSUME NEW d \in Clones PROVE todo'[d] \in Seq(Range(script.calls))
    <3>0. d \in Callers /\ DOMAIN todo = Callers /\ todo[d] \in Seq(Range(script.calls))
      BY DEF Callers, FitInv, TodoInv, TaskInv, CloneInv
    <3>1. CASE \E type : Call(c, type)
      <4>1. todo' = [todo EXCEPT ![c] = Tail(@)] /\ todo[c] # <<>>
        BY <3>1 DEF Call, Turn
      <4>2. CASE d = c
        <5>1. todo'[d] = Tail(todo[d]) /\ todo[d] # <<>>
          BY <3>0, <4>1, <4>2
        <5> QED
          BY <3>0, <5>1, TakeOne
      <4>3. CASE d # c
        BY <3>0, <4>1, <4>3
      <4> QED
        BY <4>2, <4>3
    <3>2. CASE todo' = [todo EXCEPT ![c] = <<>>]
      <4>1. <<>> \in Seq(Range(script.calls))
        OBVIOUS
      <4>2. todo'[d] = <<>> \/ todo'[d] = todo[d]
        BY <3>0, <3>2
      <4> QED
        BY <3>0, <4>1, <4>2
    <3>3. CASE UNCHANGED todo
      BY <3>0, <3>3
    <3> QED
      BY <3>1, <3>2, <3>3
         DEF Caller, Connect, ConnectPeer, Request, Relay, Close, Refuse, Panic, Queue,
             QueueFails
  <2> QED
    BY <1>1, <2>1 DEF CloneInv
<1>4. ASSUME NEW who \in Keys \cup {"server"}, Single(who), Carried(who)
      PROVE  Carried(who)'
  <2>1. CASE Connect(c) \/ ConnectPeer(c) \/ Close(c)
    <3>1. \E r : Hold(c, r) /\ r.class # "Opaque"
      BY <2>1 DEF Connect, ConnectPeer, Close, ServerHandshake, Handshake
    <3>2. UNCHANGED lock
      BY <2>1 DEF Connect, ConnectPeer, Close
    <3>3. Carrier(who)' = Carrier(who)
      BY <3>2 DEF Carrier
    <3> QED
      BY <1>4, <3>1, <3>3, CarriedHold DEF IsTo
  <2>2. CASE Request(c)
    <3>1. PICK r : Hold(c, r) /\ r.type = "ServerMessage" /\ UNCHANGED lock
      BY <2>2, RequestFacts
    <3>2. Carrier(who)' = Carrier(who)
      BY <3>1 DEF Carrier
    <3>3. IsTo(who, r) => Carrier(who) = c
      <4> SUFFICES ASSUME IsTo(who, r) PROVE Carrier(who) = c
        OBVIOUS
      <4>1. who = "server"
        BY <3>1 DEF IsTo
      <4>2. c \notin Clones
        <5> SUFFICES ASSUME c \in Clones PROVE FALSE
          OBVIOUS
        <5>1. todo[c] \in Seq(Range(script.calls)) /\ todo[c] # <<>>
              /\ Head(todo[c]).call = "request"
          BY <2>2 DEF Request, Call, Turn, TaskInv, CloneInv
        <5>2. Head(todo[c]) \in Range(script.calls)
          BY <5>1, TakeOne
        <5> QED
          BY <1>4, <4>1, <5>1, <5>2 DEF Single, Range
      <4> QED
        BY <4>1, <4>2 DEF Callers, Carrier
    <3> QED
      BY <1>4, <3>1, <3>2, <3>3, CarriedHold
  <2>3. CASE Relay(c)
    <3>1. PICK r : Hold(c, r) /\ r.type = "PeerMessage" /\ lock = NoOne /\ lock' = c
      BY <2>3, RelayFacts DEF Relayed
    <3>2. CASE who = "server"
      BY <1>4, <3>1, <3>2, CarriedHold DEF Carrier, IsTo
    <3>3. CASE who # "server"
      BY <1>4, <3>1, <3>3, CarriedHold, KeysAreKeys DEF Carrier
    <3> QED
      BY <3>2, <3>3
  <2>4. CASE Refuse(c) \/ Panic(c)
    BY <1>4, <2>4, CarriedStill DEF Refuse, Panic, Carrier
  <2>5. CASE Queue(c) \/ QueueFails(c)
    BY <1>4, <2>5, CarriedQueued DEF Queue, QueueFails
  <2> QED
    BY <2>1, <2>2, <2>3, <2>4, <2>5 DEF Caller
<1> QED
  BY <1>1, <1>2, <1>3, <1>4, SingleStays DEF TaskInv

LEMMA TaskLoop ==
    ASSUME TypeInv, FitInv, TaskInv, LoopStep \/ Poll \/ UNCHANGED vars
    PROVE  TaskInv'
<1>0. loop = [pc |-> loop.pc, message |-> loop.message] /\ DOMAIN todo = Callers
  BY DEF FitInv, LoopInv, TodoInv
<1>a. ASSUME NEW event, Yield(event)
      PROVE  /\ UNCHANGED held /\ loop'.pc = "idle"
             /\ \E list : todo' = [todo EXCEPT ![Driver] = list]
  BY <1>a DEF Yield
<1>b. ASSUME NoEvent PROVE UNCHANGED <<held, todo>> /\ loop'.pc = "select"
  BY <1>b DEF NoEvent, tasks
<1>c. \/ \E event : Yield(event)
      \/ NoEvent
      \/ UNCHANGED <<held, todo>> /\ loop'.pc # "reply"
      \/ UNCHANGED <<held, todo>> /\ UNCHANGED loop
      \/ UNCHANGED <<held, todo>> /\ PeerHandshakeResponder /\ lock' = Loop
  BY <1>0
     DEF LoopStep, Poll, vars, tasks, ReadFrame, QueueResponse, WriteFrame,
         TakeResponse, TakeError, TakeServerHandshake, TakeUnhandled,
         TakeServerMessage, TakePeer, HandlerPanics, PeerHandshakeResponder,
         QueueReply, PeerHandshakeAck, HandleRelayedMessage
<1>d. /\ UNCHANGED script
      /\ \/ UNCHANGED lock
         \/ PeerHandshakeResponder /\ lock' = Loop
         \/ QueueReply
  BY DEF LoopStep, Poll, vars, ReadFrame, QueueResponse, WriteFrame,
         TakeResponse, TakeError, TakeServerHandshake, TakeUnhandled,
         TakeServerMessage, TakePeer,
         Take, PeerHandshakeResponder, QueueReply, PeerHandshakeAck,
         HandleRelayedMessage
<1>e. PeerHandshakeResponder => lock = NoOne
  BY DEF PeerHandshakeResponder
<1>f. QueueReply => loop.pc = "reply" /\ loop'.pc = "idle"
  BY DEF QueueReply, Yield
<1>1. /\ UNCHANGED <<script, held>>
      /\ \/ UNCHANGED todo
         \/ \E list : todo' = [todo EXCEPT ![Driver] = list]
      /\ \/ UNCHANGED lock /\ (loop'.pc = "reply" => loop.pc = "reply")
         \/ lock = NoOne /\ lock' = Loop
         \/ loop.pc = "reply" /\ loop'.pc = "idle"
  BY <1>a, <1>b, <1>c, <1>d, <1>e, <1>f
<1>2. LockInv'
  BY <1>1 DEF TaskInv, LockInv
<1>3. CloneInv'
  <2>1. \A d \in Clones : d # Driver /\ d \in Callers
    BY EventLoopAssumption DEF Callers
  <2>2. \A d \in Clones : todo'[d] = todo[d]
    BY <1>0, <1>1, <2>1
  <2> QED
    BY <1>1, <2>2 DEF TaskInv, CloneInv
<1>4. ASSUME NEW who \in Keys \cup {"server"}, Carried(who) PROVE Carried(who)'
  <2>1. Carrier(who)' = Carrier(who) \/ Carrier(who) \notin Callers
    BY <1>1, KeysAreKeys DEF Carrier, TaskInv, LockInv
  <2> QED
    BY <1>1, <1>4, <2>1, CarriedStill
<1> QED
  BY <1>1, <1>2, <1>3, <1>4, SingleStays DEF TaskInv

LEMMA TaskNext == TypeInv /\ FitInv /\ TaskInv /\ [Next]_vars => TaskInv'
  BY TaskCaller, TaskLoop DEF Next

-----------------------------------------------------------------------------
(* What was asked for arrives                                              *)

\* What was asked for is on its way in order until the event loop ends, and what
\* was written by then stays readable.
FlowOf(who) == IF Ended THEN Arrived(who) ELSE Flow(who)

FlowInv == \A who \in Keys \cup {"server"} : Single(who) => FlowOf(who)

LEMMA FlowInit == Init => FlowInv
<1> SUFFICES ASSUME Init, NEW who \in Keys \cup {"server"} PROVE Flow(who) /\ ~Ended
  BY DEF FlowInv, FlowOf
<1>1. /\ written = <<>> /\ outbound = <<>> /\ lock = NoOne /\ loop.pc = "idle"
      /\ held = [c \in Callers |-> {}]
      /\ asked.server = <<>> /\ \A k \in Keys : asked.peers[k] = <<>>
      /\ server.sent = 0 /\ \A k \in Keys : peers[k].sent = 0
  BY DEF Init, Channel
<1>2. Decoded = <<>>
  BY <1>1 DEF Decoded
<1>3. ASSUME NEW kind PROVE Line(kind, who) = <<>>
  <2>1. On(kind, who, <<>>) = <<>>
    BY FlattenNone DEF On, Pieces
  <2>2. HeldPiece(kind, who) = <<>>
    BY <1>1 DEF HeldPiece
  <2>3. <<>> \o <<>> = <<>>
    BY EmptyVec, VecConcat
  <2> QED
    BY <1>1, <1>2, <2>1, <2>2, <2>3 DEF Line, Stream
<1>4. AskedOf(who) = <<>>
  BY <1>1 DEF AskedOf
<1>5. Nonce(who) = 0
  BY <1>1 DEF Nonce
<1>6. Counted(<<>>)
  BY EmptyVec DEF Counted
<1> QED
  BY <1>1, <1>3, <1>4, <1>5, <1>6, EmptyVec DEF Flow, Ended

LEMMA SpentStays ==
    ASSUME TypeInv, FitInv, [Next]_vars, NEW who \in Keys \cup {"server"}, Spent(who)
    PROVE  Spent(who)'
<1>1. who \in Keys /\ Over(who)
  BY DEF Spent
<1>2. Over(who)'
  BY <1>1, OverStays
<1> QED
  BY <1>2 DEF Spent

\* A step that leaves the requests alone.
LEMMA FlowIdle ==
    ASSUME TypeInv, FitInv, [Next]_vars, NEW who \in Keys \cup {"server"}, Flow(who),
           UNCHANGED <<written, outbound, asked>>,
           \A kind : HeldPiece(kind, who)' = HeldPiece(kind, who),
           Nonce(who)' = Nonce(who) \/ Spent(who)'
    PROVE  Flow(who)'
<1>1. ASSUME NEW kind PROVE Line(kind, who)' = Line(kind, who)
  BY StreamStill, LineNow DEF Line
<1>2. AskedOf(who)' = AskedOf(who)
  BY DEF AskedOf
<1> QED
  BY <1>1, <1>2, SpentStays, FlowStill

\* A request that a task has made and not yet queued.
LEMMA LineMore ==
    ASSUME TypeInv, NEW kind, NEW who, UNCHANGED <<written, outbound>>, NEW x,
           HeldPiece(kind, who) = <<>>, HeldPiece(kind, who)' = x
    PROVE  Line(kind, who)' = Line(kind, who) \o x
<1> DEFINE s == Stream(kind, who)
<1>1. IsVec(s)
  BY StreamVec
<1>2. Line(kind, who)' = s \o x /\ Line(kind, who) = s \o <<>>
  BY StreamStill, LineNow DEF Line
<1> HIDE DEF s
<1>3. s \o <<>> = s
  BY ONLY <1>1, VecConcat
<1> QED
  BY <1>2, <1>3

LEMMA FlowRequest ==
    ASSUME TypeInv, FitInv, TaskInv, NEW c \in Callers, Request(c), [Next]_vars,
           NEW who \in Keys \cup {"server"}, Flow(who), Carried(who)', Single(who)
    PROVE  Flow(who)'
<1>1. PICK payload, r :
          /\ IsVec(payload) /\ held[c] = {} /\ Hold(c, r)
          /\ r.class = "Opaque" /\ r.type = "ServerMessage"
          /\ r.envelope.chunks = split(payload, server.sent)
          /\ server'.sent = server.sent + Len(split(payload, server.sent))
          /\ AskedOf("server")' = Append(AskedOf("server"), payload)
          /\ asked'.peers = asked.peers
          /\ UNCHANGED <<script, peers, lock, outbound, written, loop>>
  BY RequestFacts
<1>2. Carrier(who)' = Carrier(who)
  BY <1>1 DEF Carrier
<1>3. CASE who = "server"
  <2>1. IsTo(who, r)
    BY <1>1, <1>3 DEF IsTo
  <2>2. r \in held'[c]
    BY <1>1 DEF Hold, FitInv, HeldInv
  <2>3. Carrier(who) = c
    BY <1>2, <2>1, <2>2 DEF Carried, IsTo
  <2>4. ASSUME NEW kind
        PROVE  Line(kind, who)' = Line(kind, who) \o Piece(kind, who, r)
    <3> DEFINE x == Piece(kind, who, r)
    <3>1. HeldPiece(kind, who) = <<>> /\ HeldPiece(kind, who)' = x
      BY <1>1, <1>2, <2>3, HoldPiece
    <3>2. UNCHANGED <<written, outbound>>
      BY <1>1
    <3> HIDE DEF x
    <3>3. Line(kind, who)' = Line(kind, who) \o x
      BY <3>1, <3>2, LineMore
    <3> QED
      BY <3>3 DEF x
  <2>5. /\ Nonce(who) = server.sent /\ Nonce(who)' = server'.sent
        /\ server.sent \in Nat /\ ~Spent(who)
    BY <1>3 DEF Nonce, Spent, TypeInv, ChannelsInv, Channels
  <2>6. Nonce(who)' = server.sent + Len(split(payload, server.sent))
    BY <1>1, <2>5
  <2>7. AskedOf(who)' = Append(AskedOf(who), payload)
    BY <1>1, <1>3
  <2>8. \A kind \in {"chunks", "payloads"} :
            Line(kind, who)' = Line(kind, who) \o Piece(kind, who, r)
    BY <2>4
  <2> DEFINE nonce == server.sent
  <2>9. /\ nonce \in Nat /\ nonce = Nonce(who) /\ ~Spent(who)
        /\ IsVec(payload) /\ r.envelope.chunks = split(payload, nonce)
        /\ Nonce(who)' = nonce + Len(split(payload, nonce))
    BY <1>1, <2>5, <2>6
  <2> HIDE DEF nonce
  <2> QED
    BY <2>1, <2>7, <2>8, <2>9, FlowMore
<1>4. CASE who # "server"
  <2>1. ~IsTo(who, r)
    BY <1>1, <1>4 DEF IsTo
  <2>2. ASSUME NEW kind PROVE Line(kind, who)' = Line(kind, who)
    BY <1>1, <1>2, <2>1, HoldPiece, StreamStill, LineNow DEF Line
  <2>3. AskedOf(who)' = AskedOf(who) /\ Nonce(who)' = Nonce(who)
    BY <1>1, <1>4 DEF AskedOf, Nonce
  <2> QED
    BY <2>2, <2>3, SpentStays, FlowStill
<1> QED
  BY <1>3, <1>4

LEMMA FlowRelay ==
    ASSUME TypeInv, FitInv, NEW c \in Callers, Relay(c), [Next]_vars,
           NEW who \in Keys \cup {"server"}, Flow(who)
    PROVE  Flow(who)'
<1>1. PICK k \in Keys : \E payload, r : Relayed(c, k, payload, r)
  BY RelayFacts
<1>2. PICK payload, r : Relayed(c, k, payload, r)
  BY <1>1
<1> USE DEF Relayed
<1>3. CASE who = "server"
  <2>1. Carrier(who)' = Carrier(who) /\ ~IsTo(who, r)
    BY <1>2, <1>3 DEF Carrier, IsTo
  <2>2. ASSUME NEW kind PROVE Line(kind, who)' = Line(kind, who)
    BY <1>2, <2>1, HoldPiece, StreamStill, LineNow DEF Line
  <2>3. AskedOf(who)' = AskedOf(who) /\ Nonce(who)' = Nonce(who)
    BY <1>2, <1>3 DEF AskedOf, Nonce
  <2> QED
    BY <2>2, <2>3, SpentStays, FlowStill
<1>4. CASE who # "server"
  <2>0. who \in Keys /\ Carrier(who) = NoOne /\ Carrier(who)' = c
    BY <1>2, <1>4 DEF Carrier
  <2>1. ASSUME NEW kind PROVE HeldPiece(kind, who) = <<>>
    BY <2>0, KeysAreKeys DEF HeldPiece
  <2>2. held'[c] = {r} /\ {r} # {} /\ One({r}) = r
    BY <1>2 DEF Hold, FitInv, HeldInv, One
  <2>3. ASSUME NEW kind PROVE HeldPiece(kind, who)' = Piece(kind, who, r)
    <3>1. HeldPiece(kind, who)' =
              IF Carrier(who)' \in Callers /\ held'[Carrier(who)'] # {}
              THEN Piece(kind, who, One(held'[Carrier(who)'])) ELSE <<>>
      BY DEF HeldPiece
    <3> QED
      BY <2>0, <2>2, <3>1
  <2>4. ASSUME NEW kind
        PROVE  Line(kind, who)' = Line(kind, who) \o Piece(kind, who, r)
    BY <1>2, <2>1, <2>3, LineMore
  <2>5. CASE who = k
    <3>1. IsTo(who, r)
      BY <1>2, <1>4, <2>5 DEF IsTo
    <3>2. /\ Nonce(who) = peers[k].sent /\ Nonce(who)' = peers'[k].sent
          /\ peers[k].sent \in Nat /\ ~Spent(who)
      BY <1>2, <1>4, <2>5 DEF Nonce, Spent, Over, TypeInv, ChannelsInv, Channels
    <3>3. Nonce(who)' = peers[k].sent + Len(split(payload, peers[k].sent))
      BY <1>2, <3>2
    <3>4. AskedOf(who)' = Append(AskedOf(who), payload)
      BY <1>2, <1>4, <2>5 DEF AskedOf
    <3>5. \A kind \in {"chunks", "payloads"} :
              Line(kind, who)' = Line(kind, who) \o Piece(kind, who, r)
      BY <2>4
    <3> DEFINE nonce == peers[k].sent
    <3>6. /\ nonce \in Nat /\ nonce = Nonce(who) /\ ~Spent(who)
          /\ IsVec(payload) /\ r.envelope.chunks = split(payload, nonce)
          /\ Nonce(who)' = nonce + Len(split(payload, nonce))
      BY <1>2, <3>2, <3>3
    <3> HIDE DEF nonce
    <3> QED
      BY <3>1, <3>4, <3>5, <3>6, FlowMore
  <2>6. CASE who # k
    <3>1. ASSUME NEW kind PROVE Piece(kind, who, r) = <<>>
      BY <1>2, <1>4, <2>6 DEF Piece, IsTo
    <3>2. ASSUME NEW kind PROVE Line(kind, who)' = Line(kind, who)
      <4> DEFINE s == Line(kind, who)
      <4>1. IsVec(s)
        BY LineVec
      <4>a. Line(kind, who)' = s \o Piece(kind, who, r)
        BY <2>4
      <4>b. Piece(kind, who, r) = <<>>
        BY <3>1
      <4>2. Line(kind, who)' = s \o <<>>
        BY <4>a, <4>b
      <4> HIDE DEF s
      <4>3. s \o <<>> = s
        BY ONLY <4>1, VecConcat
      <4> QED
        BY <4>2, <4>3 DEF s
    <3>3. AskedOf(who)' = AskedOf(who) /\ Nonce(who)' = Nonce(who)
      BY <1>2, <1>4, <2>0, <2>6 DEF AskedOf, Nonce
    <3> QED
      BY <3>2, <3>3, SpentStays, FlowStill
  <2> QED
    BY <2>5, <2>6
<1> QED
  BY <1>3, <1>4

LEMMA FlowCaller ==
    ASSUME TypeInv, FitInv, TaskInv, TaskInv', [Next]_vars, NEW c \in Callers, Caller(c),
           NEW who \in Keys \cup {"server"}, Single(who), Flow(who), ~Ended
    PROVE  Flow(who)'
<1>0. UNCHANGED script
  BY DEF Caller, Connect, ConnectPeer, Request, Relay, Close, Refuse, Panic, Queue,
         QueueFails
<1>1. Carried(who) /\ Carried(who)'
  BY <1>0, SingleStays DEF TaskInv
<1>2. CASE Connect(c) \/ ConnectPeer(c) \/ Close(c)
  <2>1. \E r : Hold(c, r) /\ r.class # "Opaque"
    BY <1>2 DEF Connect, ConnectPeer, Close, ServerHandshake, Handshake
  <2>2. held[c] = {} /\ UNCHANGED <<server, lock, written, outbound, asked>>
    BY <1>2 DEF Connect, ConnectPeer, Close, Call, Turn, channels
  <2>3. ASSUME NEW kind PROVE HeldPiece(kind, who)' = HeldPiece(kind, who)
    <3>1. PICK r : Hold(c, r) /\ r.class # "Opaque"
      BY <2>1
    <3>2. ~IsTo(who, r) /\ Carrier(who)' = Carrier(who)
      BY <2>2, <3>1 DEF IsTo, Carrier
    <3> QED
      BY <2>2, <3>1, <3>2, HoldPiece
  <2>4. Nonce(who)' = Nonce(who)
    <3>0. peers \in [Keys -> Channels]
      BY DEF TypeInv, ChannelsInv
    <3>1. UNCHANGED peers \/ \E key : peers' = [peers EXCEPT ![key].status = "handshake"]
      BY <1>2 DEF Connect, ConnectPeer, Close
    <3>2. \A k \in Keys : peers'[k].sent = peers[k].sent
      BY <3>0, <3>1 DEF Channels
    <3> QED
      BY <2>2, <3>2 DEF Nonce
  <2> QED
    BY <2>2, <2>3, <2>4, FlowIdle
<1>3. CASE Request(c)
  BY <1>1, <1>3, FlowRequest
<1>4. CASE Relay(c)
  BY <1>4, FlowRelay
<1>5. CASE Refuse(c) \/ Panic(c)
  <2>1. UNCHANGED <<server, peers, lock, held, written, outbound, asked>>
    BY <1>5 DEF Refuse, Panic, channels
  <2>2. Nonce(who)' = Nonce(who)
    BY <2>1 DEF Nonce
  <2>3. ASSUME NEW kind PROVE HeldPiece(kind, who)' = HeldPiece(kind, who)
    BY <2>1, HeldStill
  <2> QED
    BY <2>1, <2>2, <2>3, FlowIdle
<1>6. CASE Queue(c)
  <2>1. \A kind \in {"chunks", "payloads"} : Line(kind, who)' = Line(kind, who)
    BY <1>1, <1>6, LineQueue
  <2>2. Nonce(who)' = Nonce(who) /\ AskedOf(who)' = AskedOf(who)
    BY <1>6 DEF Queue, Nonce, AskedOf
  <2> QED
    BY <2>1, <2>2, SpentStays, FlowStill
<1>7. CASE QueueFails(c)
  BY <1>7 DEF QueueFails
<1> QED
  BY <1>2, <1>3, <1>4, <1>5, <1>6, <1>7 DEF Caller

\* What was asked for only grows.
LEMMA AskedGrows ==
    ASSUME TypeInv, FitInv, [Next]_vars, NEW who \in Keys \cup {"server"}
    PROVE  \/ AskedOf(who)' = AskedOf(who)
           \/ \E payload : AskedOf(who)' = Append(AskedOf(who), payload)
<1>1. ASSUME NEW c \in Callers, Request(c)
      PROVE  \/ AskedOf(who)' = AskedOf(who)
             \/ \E payload : AskedOf(who)' = Append(AskedOf(who), payload)
  <2>1. \E payload : /\ AskedOf("server")' = Append(AskedOf("server"), payload)
                     /\ asked'.peers = asked.peers
    BY <1>1, RequestFacts
  <2>2. CASE who = "server"
    BY <2>1, <2>2
  <2>3. CASE who # "server"
    BY <2>1, <2>3 DEF AskedOf
  <2> QED
    BY <2>2, <2>3
<1>2. ASSUME NEW c \in Callers, Relay(c)
      PROVE  \/ AskedOf(who)' = AskedOf(who)
             \/ \E payload : AskedOf(who)' = Append(AskedOf(who), payload)
  <2>0. PICK k \in Keys : \E payload, r : Relayed(c, k, payload, r)
    BY <1>2, RelayFacts
  <2>1. PICK payload, r : Relayed(c, k, payload, r)
    BY <2>0
  <2>2. CASE who = k
    BY <2>1, <2>2, KeysAreKeys DEF AskedOf, Relayed
  <2>3. CASE who # k
    BY <2>1, <2>3 DEF AskedOf, Relayed
  <2> QED
    BY <2>2, <2>3
<1>3. CASE UNCHANGED asked
  BY <1>3 DEF AskedOf
<1> QED
  BY <1>1, <1>2, <1>3
     DEF Next, Caller, Connect, ConnectPeer, Close, Refuse, Panic, Queue, QueueFails, Poll,
         LoopStep, ReadFrame, QueueResponse, WriteFrame, TakeResponse, TakeError,
         TakeServerHandshake, TakeUnhandled, TakeServerMessage, TakePeer, Take,
         PeerHandshakeResponder, QueueReply, PeerHandshakeAck, HandleRelayedMessage,
         vars

LEMMA AskedVec ==
    ASSUME TypeInv, NEW who \in Keys \cup {"server"}
    PROVE  IsVec(AskedOf(who))
<1>1. CASE who = "server"
  <2>1. IsVec(asked.server) /\ DOMAIN asked.server = 1..Len(asked.server)
        /\ Len(asked.server) \in Nat
    BY VecIsSeq DEF TypeInv, HistoryInv, IsVec
  <2> QED
    BY <1>1, <2>1 DEF AskedOf, IsVec
<1>2. CASE who # "server"
  BY <1>2 DEF AskedOf, TypeInv, HistoryInv
<1> QED
  BY <1>1, <1>2

\* What has arrived stays as it is when the event loop writes no more.
LEMMA ArrivedStays ==
    ASSUME TypeInv, FitInv, [Next]_vars, NEW who \in Keys \cup {"server"}, Arrived(who),
           UNCHANGED written
    PROVE  Arrived(who)'
<1> DEFINE a == On("payloads", who, Decoded)
           t == AskedOf(who)
<1>1. Decoded' = Decoded
  BY DEF Decoded
<1>2. \A kind : On(kind, who, Decoded)' = On(kind, who, Decoded)
  BY <1>1 DEF On, Pieces, Piece, IsTo
<1>3. /\ On("chunks", who, Decoded)' = On("chunks", who, Decoded)
      /\ On("payloads", who, Decoded)' = a
  BY <1>2
<1>4. IsVec(t) /\ IsVec(a) /\ Begins(a, t)
  BY AskedVec, StreamVec DEF Arrived
<1>5. AskedOf(who)' = t \/ \E payload : AskedOf(who)' = Append(t, payload)
  BY AskedGrows
<1> HIDE DEF a, t
<1>6. Begins(a, AskedOf(who)')
  <2>1. CASE AskedOf(who)' = t
    BY <1>4, <2>1
  <2>2. ASSUME NEW payload, AskedOf(who)' = Append(t, payload)
        PROVE  Begins(a, AskedOf(who)')
    <3>1. IsVec(t)
      BY <1>4
    <3>2. Len(Append(t, payload)) = Len(t) + 1
          /\ \A q \in 1..Len(t) : Append(t, payload)[q] = t[q]
      BY ONLY <3>1, VecAppend
    <3>3. Len(t) \in Nat /\ Len(a) \in Nat
      BY <1>4 DEF IsVec
    <3>4. Begins(a, Append(t, payload))
      BY <1>4, <3>2, <3>3 DEF Begins
    <3> QED
      BY <2>2, <3>4
  <2> QED
    BY <1>5, <2>1, <2>2
<1>7. Counted(On("chunks", who, Decoded)')
  BY <1>3 DEF Arrived
<1>8. Begins(On("payloads", who, Decoded)', AskedOf(who)')
  BY <1>3, <1>6
<1> QED
  BY <1>7, <1>8 DEF Arrived, Counted, Begins

\* The steps of the event loop that queue, write or end nothing.
LEMMA FlowQuiet ==
    ASSUME TypeInv, FitInv, TaskInv, OrderInv, [Next]_vars,
           NEW who \in Keys \cup {"server"}, Single(who), Flow(who),
           LoopStep \/ Poll \/ UNCHANGED vars, ~QueueReply, ~WriteFrame
    PROVE  Flow(who)'
<1>0. server \in Channels /\ peers \in [Keys -> Channels]
  BY DEF TypeInv, ChannelsInv
<1>1. UNCHANGED <<written, outbound, asked, held>>
  BY DEF LoopStep, Poll, vars, tasks, channels, ReadFrame, QueueResponse,
         TakeResponse, TakeError, TakeServerHandshake, TakeUnhandled,
         TakeServerMessage, TakePeer,
         Take, PeerHandshakeResponder, PeerHandshakeAck, HandleRelayedMessage,
         Yield, NoEvent, HandlerPanics
<1>2. UNCHANGED lock \/ (lock = NoOne /\ lock' = Loop)
  <2>1. CASE PeerHandshakeResponder
    BY <2>1 DEF PeerHandshakeResponder
  <2>2. CASE ~PeerHandshakeResponder
    BY <2>2
       DEF LoopStep, Poll, vars, ReadFrame, QueueResponse, TakeResponse, TakeError,
           TakeServerHandshake, TakeUnhandled, TakeServerMessage, TakePeer, Take,
           PeerHandshakeAck,
           HandleRelayedMessage
  <2> QED
    BY <2>1, <2>2
<1>3. ASSUME NEW kind PROVE HeldPiece(kind, who)' = HeldPiece(kind, who)
  <2>1. CASE UNCHANGED lock
    BY <1>1, <2>1, HeldStill
  <2>2. CASE lock = NoOne /\ lock' = Loop
    <3>1. CASE who = "server"
      <4>1. Carrier(who)' = Carrier(who)
        BY <3>1 DEF Carrier
      <4>2. HeldPiece(kind, who)' =
                IF Carrier(who)' \in Callers /\ held'[Carrier(who)'] # {}
                THEN Piece(kind, who, One(held'[Carrier(who)'])) ELSE <<>>
        BY DEF HeldPiece
      <4> QED
        BY <1>1, <4>1, <4>2 DEF HeldPiece
    <3>2. CASE who # "server"
      BY <2>2, <3>2, KeysAreKeys DEF HeldPiece, Carrier
    <3> QED
      BY <3>1, <3>2
  <2> QED
    BY <1>2, <2>1, <2>2
<1>4. server'.sent = server.sent
  <2>1. \/ UNCHANGED server
        \/ \E status : server' = [server EXCEPT !.status = status]
        \/ \E envelope : server' = Decrypted(server, envelope)
    BY DEF LoopStep, Poll, vars, ReadFrame, QueueResponse,
           TakeResponse, TakeError, TakeServerHandshake, TakeUnhandled,
           TakeServerMessage, TakePeer,
           PeerHandshakeResponder, PeerHandshakeAck, HandleRelayedMessage
  <2> QED
    BY <1>0, <2>1 DEF Decrypted, Channels
<1>5. CASE who = "server"
  <2>1. Nonce(who)' = Nonce(who)
    BY <1>4, <1>5 DEF Nonce
  <2> QED
    BY <1>1, <1>3, <2>1, FlowIdle
<1>6. CASE who # "server"
  <2>0. who \in Keys /\ OneHandshake(who)
    BY <1>6 DEF Single
  <2>1. \/ UNCHANGED peers
        \/ \E key : peers' = [peers EXCEPT ![key].status = "transport"]
        \/ \E key, envelope : peers' = [peers EXCEPT ![key] = Decrypted(@, envelope)]
        \/ /\ PeerHandshakeAck
           /\ peers' = [peers EXCEPT ![loop.message.key] = Channel("none")]
    BY DEF LoopStep, Poll, vars, ReadFrame, QueueResponse,
           TakeResponse, TakeError, TakeServerHandshake, TakeUnhandled,
           TakeServerMessage, TakePeer,
           Take, PeerHandshakeResponder, PeerHandshakeAck, HandleRelayedMessage
  <2>2. CASE PeerHandshakeAck /\ loop.message.key = who
             /\ peers' = [peers EXCEPT ![loop.message.key] = Channel("none")]
    <3>1. /\ loop.pc = "lock" /\ loop.message.type = "PeerHandshake"
          /\ loop'.pc = "idle" /\ UNCHANGED <<script, read, inbound>>
      BY <2>2 DEF PeerHandshakeAck, Yield, channels
    <3>2. loop.message.class = "Transparent"
      BY <3>1 DEF TypeInv, HandlerInv, IsFor, IsMessage
    <3>3. InFlight # <<>> /\ InFlight' = Tail(InFlight) /\ InFlight[1] = loop.message
      BY <3>1, LockHead
    <3>4. NoneLeft(who)'
      BY <2>0, <2>2, <3>1, <3>2, <3>3, LastHandshake DEF IsHandshake
    <3>5. peers'[who].status = "none"
      BY <1>0, <2>0, <2>2 DEF Channel
    <3>6. Spent(who)'
      BY <1>6, <3>4, <3>5 DEF Spent, Over
    <3> QED
      BY <1>1, <1>3, <3>6, FlowIdle
  <2>3. CASE ~(PeerHandshakeAck /\ loop.message.key = who
               /\ peers' = [peers EXCEPT ![loop.message.key] = Channel("none")])
    <3>1. peers'[who].sent = peers[who].sent
      <4>1. CASE UNCHANGED peers
        BY <4>1
      <4>2. ASSUME NEW key, peers' = [peers EXCEPT ![key].status = "transport"]
            PROVE  peers'[who].sent = peers[who].sent
        BY <1>0, <2>0, <4>2 DEF Channels
      <4>3. ASSUME NEW key, NEW envelope,
                   peers' = [peers EXCEPT ![key] = Decrypted(@, envelope)]
            PROVE  peers'[who].sent = peers[who].sent
        BY <1>0, <2>0, <4>3 DEF Decrypted, Channels
      <4>4. ASSUME NEW key, key # who,
                   peers' = [peers EXCEPT ![key] = Channel("none")]
            PROVE  peers'[who].sent = peers[who].sent
        BY <1>0, <2>0, <4>4
      <4> QED
        BY <2>1, <2>3, <4>1, <4>2, <4>3, <4>4
    <3>2. Nonce(who)' = Nonce(who)
      BY <1>6, <3>1 DEF Nonce
    <3> QED
      BY <1>1, <1>3, <3>2, FlowIdle
  <2> QED
    BY <2>2, <2>3
<1> QED
  BY <1>5, <1>6

\* peer_handshake_responder queues its answer.
LEMMA FlowReply ==
    ASSUME TypeInv, FitInv, TaskInv, [Next]_vars, QueueReply,
           NEW who \in Keys \cup {"server"}, Flow(who)
    PROVE  Flow(who)'
<1> DEFINE m == loop.message
<1>1. /\ loop.pc = "reply" /\ lock' = NoOne /\ outbound' = Append(outbound, m)
      /\ UNCHANGED <<server, peers, written, asked, held>>
  BY DEF QueueReply, Yield
<1>2. PICK k \in Keys : m = Handshake("PeerHandshake", "Responder", k)
  BY <1>1 DEF TypeInv, HandlerInv
<1>3. RequestsInv'
  BY TypeNext DEF TypeInv
<1>4. IsRequest(m)
  <2>1. IsVec(outbound) /\ Len(outbound) \in Nat
    BY DEF TypeInv, RequestsInv, IsVec
  <2>2. outbound' = Append(outbound, m)
    BY <1>1
  <2> HIDE DEF m
  <2>3. /\ Len(Append(outbound, m)) = Len(outbound) + 1
        /\ Append(outbound, m)[Len(outbound) + 1] = m
    BY ONLY <2>1, VecAppend
  <2>4. IsRequest(outbound'[Len(outbound) + 1])
    BY <1>3, <2>1, <2>2, <2>3 DEF RequestsInv, IsRequest
  <2> QED
    BY <2>2, <2>3, <2>4
<1>5. ~IsTo(who, m)
  BY <1>2 DEF Handshake, IsTo
<1>6. lock = Loop
  BY <1>1 DEF TaskInv, LockInv
<1> HIDE DEF m
<1>7. ASSUME NEW kind PROVE HeldPiece(kind, who)' = HeldPiece(kind, who)
  <2>1. CASE who = "server"
    <3>1. Carrier(who)' = Carrier(who)
      BY <2>1 DEF Carrier
    <3>2. HeldPiece(kind, who)' =
              IF Carrier(who)' \in Callers /\ held'[Carrier(who)'] # {}
              THEN Piece(kind, who, One(held'[Carrier(who)'])) ELSE <<>>
      BY DEF HeldPiece
    <3> QED
      BY <1>1, <3>1, <3>2 DEF HeldPiece
  <2>2. CASE who # "server"
    BY <1>1, <1>6, <2>2, KeysAreKeys DEF HeldPiece, Carrier
  <2> QED
    BY <2>1, <2>2
<1>8. ASSUME NEW kind PROVE Line(kind, who)' = Line(kind, who)
  <2> DEFINE s == Stream(kind, who)
  <2>1. Stream(kind, who)' = s \o Piece(kind, who, m)
    BY <1>1, <1>4, StreamQueue
  <2>2. Piece(kind, who, m) = <<>>
    BY <1>5 DEF Piece
  <2>3. IsVec(s)
    BY StreamVec
  <2>4. Stream(kind, who)' = s \o <<>>
    BY <2>1, <2>2
  <2> HIDE DEF s
  <2>5. s \o <<>> = s
    BY ONLY <2>3, VecConcat
  <2>6. Stream(kind, who)' = Stream(kind, who)
    BY <2>4, <2>5 DEF s
  <2> QED
    BY <1>7, <2>6, LineNow DEF Line
<1>9. Nonce(who)' = Nonce(who) /\ AskedOf(who)' = AskedOf(who)
  BY <1>1 DEF Nonce, AskedOf
<1> QED
  BY <1>8, <1>9, SpentStays, FlowStill

LEMMA FlowWrite ==
    ASSUME TypeInv, FitInv, [Next]_vars, WriteFrame,
           NEW who \in Keys \cup {"server"}, Flow(who)
    PROVE  FlowOf(who)'
<1>1. /\ outbound # <<>> /\ outbound' = Tail(outbound)
      /\ UNCHANGED <<script, server, peers, lock, inbound, read, asked>>
      /\ \/ /\ Head(outbound).class = "Close"
            /\ loop' = [pc |-> "closed", message |-> NoMessage]
            /\ UNCHANGED <<tasks, written>>
         \/ /\ IsFor(Head(outbound))
            /\ NoEvent /\ written' = Append(written, encode(Head(outbound)))
  BY WriteCases
<1>2. CASE /\ loop' = [pc |-> "closed", message |-> NoMessage]
           /\ UNCHANGED <<tasks, written>>
  <2>1. Arrived(who)'
    BY <1>2, FlowArrives, ArrivedStays
  <2> QED
    BY <1>2, <2>1 DEF FlowOf, Ended
<1>3. CASE /\ IsFor(Head(outbound))
           /\ NoEvent /\ written' = Append(written, encode(Head(outbound)))
  <2>1. UNCHANGED held /\ loop'.pc = "select"
    BY <1>3 DEF NoEvent, tasks
  <2>2. ASSUME NEW kind PROVE Line(kind, who)' = Line(kind, who)
    <3>1. Stream(kind, who)' = Stream(kind, who)
      BY <1>1, <1>3, StreamWrite
    <3>2. HeldPiece(kind, who)' = HeldPiece(kind, who)
      BY <1>1, <2>1, HeldStill
    <3> QED
      BY <3>1, <3>2, LineNow DEF Line
  <2>3. Nonce(who)' = Nonce(who) /\ AskedOf(who)' = AskedOf(who)
    BY <1>1 DEF Nonce, AskedOf
  <2>4. Flow(who)'
    BY <2>2, <2>3, SpentStays, FlowStill
  <2> QED
    BY <2>1, <2>4 DEF FlowOf, Ended
<1> QED
  BY <1>1, <1>2, <1>3

LEMMA EndedStays ==
    ASSUME [Next]_vars, Ended
    PROVE  UNCHANGED <<loop, written, script>>
<1>1. loop.pc \in {"closed", "panicked"}
  BY DEF Ended
<1>2. ASSUME NEW c \in Callers, Caller(c) PROVE UNCHANGED <<loop, written, script>>
  <2>1. UNCHANGED <<written, script>>
    BY <1>2 DEF Caller, Connect, ConnectPeer, Request, Relay, Close, Refuse,
                Panic, Queue, QueueFails
  <2> QED
    BY <1>1, <1>2, <2>1, CallerLoop
<1>3. ~Poll /\ ~LoopStep
  BY <1>1
     DEF Poll, LoopStep, ReadFrame, QueueResponse, WriteFrame, TakeResponse,
         TakeError, TakeServerHandshake, TakeUnhandled, TakeServerMessage,
         TakePeer, Take, PeerHandshakeResponder, QueueReply, PeerHandshakeAck,
         HandleRelayedMessage
<1> QED
  BY <1>2, <1>3 DEF Next, vars

LEMMA FlowNext ==
    TypeInv /\ FitInv /\ OrderInv /\ TaskInv /\ FlowInv /\ [Next]_vars => FlowInv'
<1> SUFFICES ASSUME TypeInv, FitInv, OrderInv, TaskInv, FlowInv, [Next]_vars,
                    NEW who \in Keys \cup {"server"}, Single(who)'
             PROVE  FlowOf(who)'
  BY DEF FlowInv
<1>0. UNCHANGED script
  BY Steps DEF StepStill, StepRefused, StepPush, StepPop, StepGive
<1>1. Single(who) /\ FlowOf(who) /\ TaskInv'
  BY <1>0, SingleStays, TaskNext DEF FlowInv
<1>2. CASE Ended
  <2>1. UNCHANGED <<loop, written>>
    BY <1>2, EndedStays
  <2>2. Arrived(who)'
    BY <1>1, <1>2, <2>1, ArrivedStays DEF FlowOf
  <2> QED
    BY <1>2, <2>1, <2>2 DEF FlowOf, Ended
<1>3. CASE ~Ended
  <2>0. Flow(who)
    BY <1>1, <1>3 DEF FlowOf
  <2>1. UNCHANGED written => Arrived(who)'
    BY <2>0, FlowArrives, ArrivedStays
  <2>2. ASSUME NEW c \in Callers, Caller(c) PROVE FlowOf(who)'
    <3>1. UNCHANGED written
      BY <2>2 DEF Caller, Connect, ConnectPeer, Request, Relay, Close, Refuse,
                  Panic, Queue, QueueFails
    <3>2. Flow(who)'
      BY <1>1, <1>3, <2>0, <2>2, FlowCaller
    <3> QED
      BY <2>1, <3>1, <3>2 DEF FlowOf
  <2>3. CASE WriteFrame
    BY <2>0, <2>3, FlowWrite
  <2>4. CASE QueueReply
    BY <2>0, <2>1, <2>4, FlowReply DEF FlowOf, QueueReply
  <2>5. CASE (LoopStep \/ Poll \/ UNCHANGED vars) /\ ~WriteFrame /\ ~QueueReply
    <3>1. UNCHANGED written
      BY <2>5
         DEF LoopStep, Poll, vars, ReadFrame, QueueResponse, TakeResponse,
             TakeError, TakeServerHandshake, TakeUnhandled, TakeServerMessage,
             TakePeer, Take, PeerHandshakeResponder, PeerHandshakeAck,
             HandleRelayedMessage
    <3>2. Flow(who)'
      BY <1>1, <2>0, <2>5, FlowQuiet
    <3> QED
      BY <2>1, <3>1, <3>2 DEF FlowOf
  <2> QED
    BY <2>2, <2>3, <2>4, <2>5 DEF Next
<1> QED
  BY <1>2, <1>3

FlowAll == TypeInv /\ FitInv /\ OrderInv /\ TaskInv /\ FlowInv

LEMMA FlowInvariant == Spec => []FlowAll
<1>1. Init => FlowAll
  BY TypeInit, FitInit, OrderInit, TaskInit, FlowInit DEF FlowAll
<1>2. FlowAll /\ [Next]_vars => FlowAll'
  BY TypeNext, FitNext, OrderNext, TaskNext, FlowNext DEF FlowAll
<1> QED
  BY <1>1, <1>2, PTL DEF Spec

LEMMA AllArrived ==
    ASSUME FlowAll, NEW who \in Keys \cup {"server"}, Single(who)
    PROVE  /\ Arrived(who)
           /\ DOMAIN On("chunks", who, Decoded) = 1..Len(On("chunks", who, Decoded))
           /\ IsVec(On("payloads", who, Decoded)) /\ IsVec(AskedOf(who))
<1>1. IsVec(On("chunks", who, Decoded)) /\ IsVec(On("payloads", who, Decoded))
  BY StreamVec DEF FlowAll
<1>2. DOMAIN On("chunks", who, Decoded) = 1..Len(On("chunks", who, Decoded))
  BY <1>1, VecIsSeq
<1>3. Arrived(who)
  BY FlowArrives DEF FlowAll, FlowInv, FlowOf
<1> QED
  BY <1>1, <1>2, <1>3, AskedVec DEF FlowAll

LEMMA BeginsIsPrefix ==
    ASSUME NEW s, NEW t, IsVec(s), IsVec(t), Begins(s, t)
    PROVE  IsPrefix(s, t)
<1> DEFINE T == {t[j] : j \in 1..Len(t)}
           u == SubSeq(t, 1, Len(s))
<1>1. Len(s) \in Nat /\ Len(t) \in Nat /\ Len(s) <= Len(t) /\ t \in Seq(T)
  BY VecIsSeq DEF Begins, IsVec
<1> HIDE DEF T
<1>2. u \in Seq(T) /\ Len(u) = Len(s) /\ \A q \in 1..Len(s) : u[q] = t[q]
  BY <1>1
<1>3. IsVec(u)
  BY <1>2, SeqIsVec
<1> HIDE DEF u
<1>4. u = s
  BY <1>2, <1>3, VecEqual DEF Begins
<1> QED
  BY <1>1, <1>4 DEF IsPrefix, u

\* Whatever clones relay, in whatever order their tasks get on: a peer with one
\* handshake can decrypt what is written for it, in the order it was asked for.
THEOREM PeersRead == Spec => []PeersCanRead
<1>1. FlowAll => PeersCanRead
  <2> SUFFICES ASSUME FlowAll, NEW k \in Keys,
                      \A i, j \in Handshakes(k) : i = j
               PROVE  LET ToPeer(m) == m.type = "PeerMessage" /\ m.key = k
                      IN /\ CanJoin(Chunks(ToPeer), 0)
                         /\ IsPrefix(Payloads(ToPeer), asked.peers[k])
    BY DEF PeersCanRead
  <2> DEFINE ToPeer(m) == m.type = "PeerMessage" /\ m.key = k
             chunks == On("chunks", k, Decoded)
             payloads == On("payloads", k, Decoded)
  <2>1. k # "server" /\ Single(k) /\ AskedOf(k) = asked.peers[k]
    BY KeysAreKeys DEF Single, OneHandshake, AskedOf
  <2>2. /\ Arrived(k) /\ DOMAIN chunks = 1..Len(chunks)
        /\ IsVec(payloads) /\ IsVec(asked.peers[k])
    BY <2>1, AllArrived
  <2>3. DOMAIN Decoded = DOMAIN written
        /\ \A j \in DOMAIN written : Decoded[j] = decode(written[j])
    BY DEF Decoded
  <2>4. Chunks(ToPeer) = chunks /\ Payloads(ToPeer) = payloads
    BY <2>1, <2>3 DEF Chunks, Payloads, On, Pieces, Piece, IsTo
  <2>5. Counted(chunks) /\ Begins(payloads, asked.peers[k])
    BY <2>1, <2>2 DEF Arrived
  <2> HIDE DEF chunks, payloads
  <2>6. CanJoin(chunks, 0)
    <3> SUFFICES ASSUME NEW j \in 1..Len(chunks)
                 PROVE  chunks[j].contents.nonce = 0 + j - 1
      BY <2>2 DEF CanJoin
    <3>1. 0 + j - 1 = j - 1
      OBVIOUS
    <3> QED
      BY <2>5, <3>1 DEF Counted
  <2>7. IsPrefix(payloads, asked.peers[k])
    BY <2>2, <2>5, BeginsIsPrefix
  <2> QED
    BY <2>4, <2>6, <2>7
<1> QED
  BY <1>1, FlowInvariant, PTL

\* If one task makes the requests, the relay can decrypt what is written for it
\* and decodes each request as it was made, but for keys beyond the count.
THEOREM RequestsRead == Spec => []RequestsArrive
<1>1. FlowAll => RequestsArrive
  <2> SUFFICES ASSUME FlowAll,
                      \A i \in DOMAIN script.calls : script.calls[i].call # "request"
               PROVE  LET ToServer(m) == m.type = "ServerMessage"
                          decoded == Payloads(ToServer)
                      IN /\ CanJoin(Chunks(ToServer), 0)
                         /\ Len(decoded) <= Len(asked.server)
                         /\ \A j \in DOMAIN decoded :
                                decode_server(decoded[j]) = Received(asked.server[j])
    BY DEF RequestsArrive
  <2> DEFINE ToServer(m) == m.type = "ServerMessage"
             chunks == On("chunks", "server", Decoded)
             payloads == On("payloads", "server", Decoded)
             list == AskedOf("server")
  <2>1. Single("server") /\ list = [j \in DOMAIN asked.server |-> encode_server(asked.server[j])]
    BY DEF Single, AskedOf
  <2>2. /\ Arrived("server") /\ DOMAIN chunks = 1..Len(chunks)
        /\ IsVec(payloads) /\ IsVec(list)
    BY <2>1, AllArrived
  <2>3. DOMAIN Decoded = DOMAIN written
        /\ \A j \in DOMAIN written : Decoded[j] = decode(written[j])
    BY DEF Decoded
  <2>4. Chunks(ToServer) = chunks /\ Payloads(ToServer) = payloads
    BY <2>3 DEF Chunks, Payloads, On, Pieces, Piece, IsTo
  <2>5. Counted(chunks) /\ Begins(payloads, list)
    BY <2>2 DEF Arrived
  <2> HIDE DEF chunks, payloads, list
  <2>6. CanJoin(chunks, 0)
    <3> SUFFICES ASSUME NEW j \in 1..Len(chunks)
                 PROVE  chunks[j].contents.nonce = 0 + j - 1
      BY <2>2 DEF CanJoin
    <3>1. 0 + j - 1 = j - 1
      OBVIOUS
    <3> QED
      BY <2>5, <3>1 DEF Counted
  <2>7. /\ DOMAIN asked.server = 1..Len(asked.server) /\ Len(asked.server) \in Nat
        /\ \A j \in 1..Len(asked.server) : IsServerMessage(asked.server[j])
    BY VecIsSeq DEF FlowAll, TypeInv, HistoryInv, IsVec
  <2>8. Len(list) = Len(asked.server)
    BY <2>1, <2>7
  <2>9. DOMAIN payloads = 1..Len(payloads) /\ Len(payloads) \in Nat
    BY <2>2, VecIsSeq DEF IsVec
  <2>10. Len(payloads) <= Len(asked.server)
    BY <2>5, <2>8 DEF Begins
  <2>11. ASSUME NEW j \in DOMAIN payloads
         PROVE  decode_server(payloads[j]) = Received(asked.server[j])
    <3>1. j \in 1..Len(payloads) /\ j \in 1..Len(asked.server)
      BY <2>7, <2>9, <2>10
    <3>2. payloads[j] = list[j] /\ list[j] = encode_server(asked.server[j])
      BY <2>1, <2>5, <2>7, <3>1 DEF Begins
    <3> QED
      BY <2>7, <3>1, <3>2, ServerMessageBack
  <2> QED
    BY <2>4, <2>6, <2>10, <2>11
<1> QED
  BY <1>1, FlowInvariant, PTL

-----------------------------------------------------------------------------
(* What makes a client panic                                               *)

\* Up to reply p the handshake has been answered, or the client still waits
\* for the answer.
Greeted(p) ==
    script.server = "handshake" /\ server.status # "handshake" =>
        \E i \in 1..p : i \in Greetings

ServerInv ==
    /\ PanicsAreProvoked
    /\ \E idx, p : Flight(idx, p) /\ Greeted(p)

LEMMA GreetingReply ==
    ASSUME FitInv, NEW i \in 1..Len(script.replies),
           ReplyMessage(i).type = "ServerHandshake"
    PROVE  i \in Greetings /\ script.replies[i].message = ReplyMessage(i)
<1> DEFINE reply == script.replies[i]
           envelope == [encoding |-> reply.encoding, broadcast |-> FALSE,
                        chunks |-> split(reply.payload, Earlier(i, reply.from))]
<1>1. reply.from = "transparent"
  <2> SUFFICES ASSUME reply.from # "transparent" PROVE FALSE
    OBVIOUS
  <2>1. ReplyMessage(i) =
            IF reply.from = "server"
            THEN [class |-> "Opaque", type |-> "ServerMessage", envelope |-> envelope]
            ELSE [class |-> "Opaque", type |-> "PeerMessage", key |-> reply.from,
                  session |-> reply.session, envelope |-> envelope]
    BY DEF ReplyMessage
  <2> HIDE DEF envelope
  <2> QED
    BY <2>1
<1>2. ReplyMessage(i) = reply.message
  BY <1>1 DEF ReplyMessage
<1> QED
  BY <1>1, <1>2, Replies DEF Greetings

LEMMA ServerReply ==
    ASSUME FitInv, NEW i \in 1..Len(script.replies),
           ReplyMessage(i).type = "ServerMessage"
    PROVE  /\ script.replies[i].from = "server"
           /\ ReplyMessage(i).envelope.encoding = script.replies[i].encoding
<1> DEFINE reply == script.replies[i]
           envelope == [encoding |-> reply.encoding, broadcast |-> FALSE,
                        chunks |-> split(reply.payload, Earlier(i, reply.from))]
<1>0. IsReply(reply)
  BY Replies
<1>1. reply.from # "transparent"
  <2> SUFFICES ASSUME reply.from = "transparent" PROVE FALSE
    OBVIOUS
  <2>1. IsMessage(reply.message) /\ reply.message.class = "Transparent"
    BY <1>0, EventLoopAssumption DEF IsReply
  <2>2. ReplyMessage(i) = reply.message
    BY DEF ReplyMessage
  <2> QED
    BY <2>1, <2>2 DEF IsMessage
<1>2. ReplyMessage(i) =
          IF reply.from = "server"
          THEN [class |-> "Opaque", type |-> "ServerMessage", envelope |-> envelope]
          ELSE [class |-> "Opaque", type |-> "PeerMessage", key |-> reply.from,
                session |-> reply.session, envelope |-> envelope]
  BY <1>1 DEF ReplyMessage
<1>3. envelope.encoding = reply.encoding
  OBVIOUS
<1> HIDE DEF envelope
<1>4. reply.from = "server"
  BY <1>2
<1> QED
  BY <1>2, <1>3, <1>4

\* What is handled last only moves on.
LEMMA FlightMoves ==
    ASSUME TypeInv, FitInv, [Next]_vars, NEW idx, NEW p, Flight(idx, p)
    PROVE  \E rest, q : Flight(rest, q)' /\ p \in Nat /\ q \in Nat /\ p <= q
<1>0. p \in 0..read /\ read \in Nat /\ p \in Nat
  BY DEF Flight, TypeInv, FramesInv
<1>1. CASE InFlight' = InFlight /\ read' \in {read, read + 1} /\ UNCHANGED script
  BY <1>0, <1>1, FlightStill
<1>2. CASE StepPush
  <2>1. PICK x : x = read + 1
    OBVIOUS
  <2>2. /\ InFlight' = Append(InFlight, ReplyMessage(x)) /\ read' = x
        /\ x = read + 1 /\ UNCHANGED script
    BY <1>2, <2>1 DEF StepPush
  <2>3. Flight(Append(idx, x), p)'
    BY <2>2, FlightPush
  <2>4. PICK more : more = Append(idx, x)
    OBVIOUS
  <2>5. Flight(more, p)'
    BY <2>3, <2>4
  <2> QED
    BY <1>0, <2>5
<1>3. CASE StepPop \/ StepGive
  <2>1. PICK rest, first : rest = Tail(idx) /\ first = idx[1]
    OBVIOUS
  <2>2. Flight(Tail(idx), idx[1])' /\ idx[1] \in (p + 1)..read
    BY <1>3, FlightPop DEF StepPop, StepGive
  <2>3. Flight(rest, first)' /\ first \in (p + 1)..read
    BY <2>1, <2>2
  <2>4. first \in Nat /\ p <= first
    BY <1>0, <2>3
  <2> QED
    BY <1>0, <2>3, <2>4
<1> QED
  BY <1>1, <1>2, <1>3, Steps DEF StepStill, StepRefused

\* The steps that leave the state of the server channel where it is, and that
\* panic, if they do, because there is none.
Calm ==
    /\ server'.status = server.status
    /\ loop'.pc = "panicked" => loop.pc = "panicked" \/ server.status = "none"

\* A server message that is no blob.
NoBlob ==
    /\ Take({"ServerMessage"}) /\ Head(inbound).envelope.encoding # "Blob"
    /\ server'.status = server.status /\ HandlerPanics

LEMMA CalmCaller ==
    ASSUME TypeInv, FitInv, NEW c \in Callers, Caller(c)
    PROVE  Calm
<1>0. server \in Channels /\ loop = [pc |-> loop.pc, message |-> loop.message]
  BY DEF TypeInv, ChannelsInv, FitInv, LoopInv
<1>1. UNCHANGED server \/ \E envelope : server' = Encrypted(server, envelope)
  BY DEF Caller, Connect, ConnectPeer, Request, Relay, Close, Refuse, Panic,
         Queue, QueueFails
<1>2. server'.status = server.status
  BY <1>0, <1>1 DEF Encrypted, Channels
<1>3. UNCHANGED loop \/ server.status = "none"
  BY CallerLoop DEF Panic
<1> QED
  BY <1>2, <1>3 DEF Calm

LEMMA ServerSteps ==
    ASSUME TypeInv, FitInv, [Next]_vars
    PROVE  Calm \/ TakeServerHandshake \/ TakeUnhandled \/ NoBlob
<1>0. server \in Channels /\ loop = [pc |-> loop.pc, message |-> loop.message]
  BY DEF TypeInv, ChannelsInv, FitInv, LoopInv
<1>1. CASE TakeServerMessage
  <2> DEFINE envelope == Head(inbound).envelope
  <2>1. server' = server \/ server' = Decrypted(server, envelope)
    BY <1>1 DEF TakeServerMessage
  <2>2. server'.status = server.status
    <3> HIDE DEF envelope
    <3> QED
      BY <1>0, <2>1 DEF Decrypted, Channels
  <2>3. CASE HandlerPanics /\ server.status # "none"
    <3>1. Take({"ServerMessage"}) /\ envelope.encoding # "Blob"
      BY <1>1, <2>3 DEF TakeServerMessage, HandlerPanics, Yield, NoEvent
    <3> QED
      BY <2>2, <2>3, <3>1 DEF NoBlob
  <2>4. CASE ~HandlerPanics
    <3>1. NoEvent \/ \E event : Yield(event)
      BY <1>1, <2>4 DEF TakeServerMessage
    <3> QED
      BY <2>2, <3>1 DEF Calm, NoEvent, Yield
  <2> QED
    BY <2>2, <2>3, <2>4 DEF Calm
<1>2. CASE WriteFrame
  <2>1. server' = server /\ loop'.pc # "panicked"
    BY <1>2, WriteCases DEF NoEvent
  <2> QED
    BY <2>1 DEF Calm
<1>3. CASE /\ LoopStep \/ Poll \/ UNCHANGED vars
           /\ ~TakeServerMessage /\ ~WriteFrame /\ ~TakeServerHandshake
           /\ ~TakeUnhandled
  <2>1. server' = server /\ (loop'.pc # "panicked" \/ UNCHANGED loop)
    BY <1>0, <1>3
       DEF LoopStep, Poll, vars, ReadFrame, QueueResponse, TakeResponse, TakeError,
           TakePeer, PeerHandshakeResponder, QueueReply, PeerHandshakeAck,
           HandleRelayedMessage, Yield
  <2> QED
    BY <2>1 DEF Calm
<1> QED
  BY <1>1, <1>2, <1>3, CalmCaller DEF Next

LEMMA ServerInit == Init => ServerInv
<1> SUFFICES ASSUME Init PROVE ServerInv
  OBVIOUS
<1>1. script.server \in Status \ {"none"}
  BY ScriptsAssumption DEF Init
<1>2. /\ inbound = <<>> /\ loop.pc = "idle" /\ read = 0
      /\ server.status = script.server
  BY DEF Init, Channel
<1>3. PanicsAreProvoked
  BY <1>1, <1>2 DEF PanicsAreProvoked
<1>4. Flight(<<>>, 0)
  BY <1>2, EmptyVec DEF Flight, InFlight
<1>5. Greeted(0)
  BY <1>2 DEF Greeted
<1> QED
  BY <1>3, <1>4, <1>5 DEF ServerInv

\* The message that is handled is a reply that was read, and the ones that were
\* handled before came before it.
LEMMA HandledReply ==
    ASSUME TypeInv, FitInv, NEW types, Take(types),
           loop'.pc \in {"idle", "select", "panicked"},
           NEW idx, NEW p, Flight(idx, p)
    PROVE  \E i, rest :
               /\ Flight(rest, i)' /\ Head(inbound) = ReplyMessage(i)
               /\ i \in 1..read /\ i \in 1..Len(script.replies)
               /\ i \in Nat /\ p \in Nat /\ p < i /\ UNCHANGED <<script, read>>
<1>1. /\ InFlight # <<>> /\ InFlight' = Tail(InFlight)
      /\ UNCHANGED <<script, read>> /\ InFlight[1] = Head(inbound)
  BY TakesHead
<1>2. PICK rest, i : rest = Tail(idx) /\ i = idx[1]
  OBVIOUS
<1>3. /\ Flight(Tail(idx), idx[1])' /\ idx[1] \in (p + 1)..read
      /\ InFlight[1] = ReplyMessage(idx[1])
  BY <1>1, FlightPop
<1>4. /\ Flight(rest, i)' /\ i \in (p + 1)..read /\ Head(inbound) = ReplyMessage(i)
  BY <1>1, <1>2, <1>3
<1>5. p \in 0..read /\ read \in 0..Len(script.replies) /\ Len(script.replies) \in Nat
  BY Replies DEF Flight, TypeInv, FramesInv
<1>6. i \in 1..read /\ i \in 1..Len(script.replies) /\ i \in Nat /\ p \in Nat /\ p < i
  BY <1>4, <1>5
<1> QED
  BY <1>1, <1>4, <1>6

LEMMA ServerNext == TypeInv /\ FitInv /\ ServerInv /\ [Next]_vars => ServerInv'
<1> SUFFICES ASSUME TypeInv, FitInv, ServerInv, [Next]_vars PROVE ServerInv'
  OBVIOUS
<1>1. PICK idx, p : Flight(idx, p) /\ Greeted(p)
  BY DEF ServerInv
<1>2. UNCHANGED script /\ read' \in {read, read + 1}
  BY Steps DEF StepStill, StepRefused, StepPush, StepPop, StepGive
<1>3. Greetings' = Greetings /\ \A i : Unexpected(i)' <=> Unexpected(i)
  BY <1>2 DEF Greetings, Unexpected
<1>4. server \in Channels /\ read \in Nat /\ script.server \in {"handshake", "transport"}
  BY ScriptsAssumption
     DEF TypeInv, ChannelsInv, FramesInv, FitInv, TodoInv, Status
<1>5. (\E i \in 1..read : Unexpected(i)) => PanicsAreProvoked'
  <2> SUFFICES ASSUME NEW i \in 1..read, Unexpected(i) PROVE PanicsAreProvoked'
    OBVIOUS
  <2>1. i \in 1..read' /\ Unexpected(i)'
    BY <1>2, <1>3, <1>4
  <2> QED
    BY <2>1 DEF PanicsAreProvoked
<1>6. ASSUME server'.status = server.status, NEW rest, NEW q, Flight(rest, q)',
             p \in Nat, q \in Nat, p <= q, PanicsAreProvoked'
      PROVE  ServerInv'
  <2>1. Greeted(q)'
    BY <1>1, <1>2, <1>3, <1>6 DEF Greeted
  <2> QED
    BY <1>6, <2>1 DEF ServerInv
<1>7. CASE Calm
  <2>1. PICK rest, q : Flight(rest, q)' /\ p \in Nat /\ q \in Nat /\ p <= q
    BY <1>1, FlightMoves
  <2>2. PanicsAreProvoked'
    <3>1. CASE loop.pc = "panicked" \/ server.status = "none"
      BY <1>5, <3>1 DEF ServerInv, PanicsAreProvoked
    <3>2. CASE ~(loop.pc = "panicked" \/ server.status = "none")
      BY <1>7, <3>2 DEF PanicsAreProvoked, Calm
    <3> QED
      BY <3>1, <3>2
  <2> QED
    BY <1>6, <1>7, <2>1, <2>2 DEF Calm
<1>8. CASE TakeServerHandshake
  <2>1. Take({"ServerHandshake"}) /\ loop'.pc = "idle"
    BY <1>8 DEF TakeServerHandshake, Yield
  <2>2. PICK i, rest :
            /\ Flight(rest, i)' /\ Head(inbound) = ReplyMessage(i)
            /\ i \in 1..read /\ i \in 1..Len(script.replies)
            /\ i \in Nat /\ p \in Nat /\ p < i
    BY <1>1, <2>1, HandledReply
  <2>3. i \in Greetings
    BY <2>1, <2>2, GreetingReply DEF Take
  <2>4. Greeted(i)'
    <3>1. i \in 1..i
      BY <2>2
    <3> QED
      BY <1>3, <2>3, <3>1 DEF Greeted
  <2>5. PanicsAreProvoked'
    <3>1. CASE server.status = "handshake"
      <4>1. server'.status = "transport"
        BY <1>4, <1>8, <3>1 DEF TakeServerHandshake, Channels
      <4> QED
        BY <2>1, <4>1 DEF PanicsAreProvoked
    <3>2. CASE server.status # "handshake"
      <4>1. script.server = "transport" \/ \E j \in Greetings : j < i
        <5>1. CASE script.server = "handshake"
          <6>1. PICK j \in 1..p : j \in Greetings
            BY <1>1, <3>2, <5>1 DEF Greeted
          <6>2. j < i
            BY <2>2
          <6> QED
            BY <6>1, <6>2
        <5> QED
          BY <1>4, <5>1
      <4>2. Unexpected(i)
        BY <2>3, <4>1 DEF Unexpected
      <4> QED
        BY <1>5, <2>2, <4>2
    <3> QED
      BY <3>1, <3>2
  <2> QED
    BY <2>2, <2>4, <2>5 DEF ServerInv
<1>9. CASE TakeUnhandled \/ NoBlob
  <2>1. PICK type \in {"ServerHandshake", "ServerMessage"} :
            /\ Take({type})
            /\ type = "ServerHandshake" => Head(inbound).side = "Initiator"
            /\ type = "ServerMessage" => Head(inbound).envelope.encoding # "Blob"
    BY <1>9 DEF TakeUnhandled, NoBlob
  <2>2. loop'.pc = "panicked" /\ server'.status = server.status
    BY <1>9 DEF TakeUnhandled, NoBlob, HandlerPanics
  <2>3. PICK i, rest :
            /\ Flight(rest, i)' /\ Head(inbound) = ReplyMessage(i)
            /\ i \in 1..read /\ i \in 1..Len(script.replies)
            /\ i \in Nat /\ p \in Nat /\ p < i
    BY <1>1, <2>1, <2>2, HandledReply
  <2>4. ReplyMessage(i).type = type
    BY <2>1, <2>3 DEF Take
  <2>5. Unexpected(i)
    <3>1. CASE type = "ServerHandshake"
      BY <2>1, <2>3, <2>4, <3>1, GreetingReply DEF Unexpected
    <3>2. CASE type = "ServerMessage"
      BY <2>1, <2>3, <2>4, <3>2, ServerReply DEF Unexpected
    <3> QED
      BY <2>1, <3>1, <3>2
  <2>6. PanicsAreProvoked' /\ p <= i
    BY <1>5, <2>3, <2>5
  <2> QED
    BY <1>6, <2>2, <2>3, <2>6
<1> QED
  BY <1>7, <1>8, <1>9, ServerSteps

\* A client panics, or loses the state of its server channel, only after a
\* reply the relay never makes, whatever the tasks ask for, in whatever order
\* the frames and the calls fall.
THEOREM OnlyProvoked == Spec => []PanicsAreProvoked
<1> DEFINE I == TypeInv /\ FitInv /\ ServerInv
<1>1. Init => I
  BY TypeInit, FitInit, ServerInit
<1>2. I /\ [Next]_vars => I'
  BY TypeNext, FitNext, ServerNext
<1>3. I => PanicsAreProvoked
  BY DEF ServerInv
<1> QED
  BY <1>1, <1>2, <1>3, PTL DEF Spec

=============================================================================
