------------------------- MODULE RouterClientProofs -------------------------
(***************************************************************************)
(* That RouterBridge is a remote procedure call, for any timeouts, buffer  *)
(* size and number of frames, and for ids that wrap after any number of    *)
(* calls (IdMask >= 2).                                                    *)
(*                                                                         *)
(* An answer is recognised by its id alone, ids come round again, and a    *)
(* connection is kept from call to call.  What saves the client is that    *)
(* the Router answers a request in one go: on an open connection answers   *)
(* of the present call come behind those of older calls (OrderInv), so     *)
(* when a call returns only repetitions of its own answer can still come   *)
(* (IdleInv), and the next call has another id (IdsAlwaysDiffer).  After a *)
(* failure there is no connection on which an old answer could come.       *)
(***************************************************************************)
EXTENDS RouterClient, SequenceTheorems, TLAPS

\* What is on its way to the client, in order.
Frames == buffer \o wire

\* An answer that a call with this id would take for its own.
Own(f, id) == f.kind = "answer" /\ f.id = id
IsAnswer(f) == f.kind = "answer"

Counters ==
    /\ next_id \in Nat \ {0} /\ message_id = IdOf(next_id - 1)
    /\ conns <= calls /\ (phase = "connecting" => conns < calls)
    /\ phase \in {"sending", "waiting"} => conn # 0
    /\ phase # "connecting" => left <= ResponseTimeout
    /\ \A r \in held : r.conn <= conns

\* The time that a call has taken and may still take in its phase.
TimeInv ==
    /\ phase = "idle" => elapsed = 0
    /\ phase = "connecting" => elapsed + left <= ConnectTimeout
    /\ phase = "sending" => elapsed + left <= ConnectTimeout + ResponseTimeout
    /\ phase = "waiting" => elapsed + left <= ConnectTimeout + 2 * ResponseTimeout

\* A call has one request, and it is carried out at most once.
OnceInv ==
    /\ \A r \in held : r.call <= calls /\ r.call \notin executed
    /\ \A r, s \in held : r.call = s.call => r = s
    /\ executed \subseteq 1..calls
    /\ phase \in {"connecting", "sending"} =>
          calls \notin executed /\ \A r \in held : r.call # calls

\* An answer with the id of the present call is the answer to it.
OwnInv ==
    \A i \in DOMAIN Frames : Own(Frames[i], message_id) =>
        /\ phase \in {"waiting", "idle"}
        /\ Frames[i].call = calls
        /\ Frames[i].ok => calls \in executed
\* Behind an answer to the present call there is none to an older one.
OrderInv ==
    \A i, j \in DOMAIN Frames :
        i < j /\ Own(Frames[i], message_id) /\ IsAnswer(Frames[j]) => Own(Frames[j], message_id)
\* Between calls only repetitions of the last answer are on their way.
IdleInv ==
    phase = "idle" =>
        \A i \in DOMAIN Frames : IsAnswer(Frames[i]) => Own(Frames[i], message_id)
\* A request the Router may still answer is the present one, and it has not
\* been answered yet.
HeldInv ==
    \A r \in held : r.conn = conn =>
        /\ phase = "waiting" /\ r.call = calls /\ r.id = message_id
        /\ \A i \in DOMAIN Frames : ~Own(Frames[i], message_id)

FrameInv == OwnInv /\ OrderInv /\ IdleInv /\ HeldInv
-----------------------------------------------------------------------------
\* The constants, as the numbers that the provers calculate with.
LEMMA ConstantTypes ==
    /\ IdMask \in Nat /\ IdMask >= 2
    /\ ConnectTimeout \in Nat /\ ResponseTimeout \in Nat
    /\ ConnectTimeout > 0 /\ ResponseTimeout > 0
    /\ MaxBuffer \in Nat /\ MaxBuffer > 0
    /\ MaxCalls \in Nat /\ MaxWire \in Nat /\ MaxStrays \in Nat
BY RouterClientAssumption

\* The remainder of a successor.
LEMMA NextRemainder ==
    ASSUME NEW m \in Nat, m >= 2, NEW n \in Nat
    PROVE  /\ n % m \in 0..(m - 1)
           /\ (n + 1) % m = IF n % m = m - 1 THEN 0 ELSE (n % m) + 1
<1> DEFINE q == n \div m  p == (n + 1) \div m  d == p - q
           r == n % m     s == (n + 1) % m
<1>1. r \in 0..(m - 1) /\ s \in 0..(m - 1)
    OBVIOUS
<1>2. q \in Int /\ p \in Int /\ n = m * q + r /\ n + 1 = m * p + s
    OBVIOUS
<1>3. d \in Int /\ m * d = (1 + r) - s
  <2>1. m * d = m * p - m * q
    BY <1>2
  <2> QED
    BY <1>1, <1>2, <2>1
<1>4. d = 0 \/ d = 1
  <2> HIDE DEF r, s, q, p, d
  <2>1. CASE d >= 2
    <3>1. m * d >= m * 2 BY <2>1, <1>3
    <3> QED BY <1>1, <1>3, <3>1
  <2>2. CASE d <= -1
    <3>1. m * d <= -m BY <2>2, <1>3
    <3> QED BY <1>1, <1>3, <3>1
  <2> QED
    BY <1>3, <2>1, <2>2
<1>5. (d = 0 => s = r + 1) /\ (d = 1 => s = (r + 1) - m)
    BY <1>1, <1>3
<1> QED
    BY <1>1, <1>4, <1>5

\* The ids of two calls in a row differ, and none is 0.
LEMMA FreshId ==
    ASSUME NEW n \in Nat \ {0}
    PROVE  LET drawn == IF IdOf(n) = 0 THEN n + 1 ELSE n
           IN  /\ drawn \in Nat \ {0}
               /\ IdOf(drawn) \in 1..IdMask
               /\ IdOf(drawn) # IdOf(n - 1)
<1> DEFINE m == IdMask + 1
<1>1. m \in Nat /\ m >= 3
    BY ConstantTypes
<1>0. m >= 2
    BY <1>1
<1>2. /\ (n - 1) % m \in 0..(m - 1)
      /\ n % m = IF (n - 1) % m = m - 1 THEN 0 ELSE ((n - 1) % m) + 1
  <2>1. n - 1 \in Nat OBVIOUS
  <2>2. (n - 1) + 1 = n OBVIOUS
  <2> HIDE DEF m
  <2> QED BY <1>0, <1>1, <2>1, <2>2, NextRemainder
<1>3. /\ n % m \in 0..(m - 1)
      /\ (n + 1) % m = IF n % m = m - 1 THEN 0 ELSE (n % m) + 1
  <2> HIDE DEF m
  <2> QED BY <1>0, <1>1, NextRemainder
<1>4. m - 1 = IdMask
    BY ConstantTypes
<1>5. IdOf(n) = n % m /\ IdOf(n - 1) = (n - 1) % m /\ IdOf(n + 1) = (n + 1) % m
    BY DEF IdOf
<1> HIDE DEF m
<1>6. CASE n % m = 0
    BY <1>1, <1>2, <1>3, <1>4, <1>5, <1>6
<1>7. CASE n % m # 0
    BY <1>1, <1>2, <1>3, <1>4, <1>5, <1>7
<1> QED
    BY <1>6, <1>7

\* The frames behind the first n, and the frames looked at when n are read.
Behind(s, n) == SubSeq(s, n + 1, Len(s))
WithRead(b, w, n) == b \o SubSeq(w, 1, n)

LEMMA BehindElements ==
    ASSUME NEW s \in Seq(Frame), NEW n \in 0..Len(s)
    PROVE  /\ Behind(s, n) \in Seq(Frame) /\ Len(Behind(s, n)) = Len(s) - n
           /\ \A k \in 1..(Len(s) - n) : Behind(s, n)[k] = s[n + k]
<1>1. Len(s) \in Nat /\ \A k \in (n + 1)..Len(s) : s[k] \in Frame
    BY LenProperties, ElementOfSeq
<1>2. /\ Behind(s, n) \in Seq(Frame)
      /\ Len(Behind(s, n)) = IF n + 1 <= Len(s) THEN (Len(s) - (n + 1)) + 1 ELSE 0
      /\ \A k \in 1..((Len(s) - (n + 1)) + 1) : Behind(s, n)[k] = s[((n + 1) + k) - 1]
    BY <1>1, SubSeqProperties DEF Behind
<1> QED
    BY <1>1, <1>2

LEMMA WithReadElements ==
    ASSUME NEW b \in Seq(Frame), NEW w \in Seq(Frame), NEW n \in 0..Len(w)
    PROVE  /\ WithRead(b, w, n) \in Seq(Frame)
           /\ Len(WithRead(b, w, n)) = Len(b) + n
           /\ \A k \in 1..(Len(b) + n) : WithRead(b, w, n)[k] = (b \o w)[k]
<1> DEFINE first == SubSeq(w, 1, n)
<1>0. Len(w) \in Nat /\ Len(b) \in Nat
    BY LenProperties
<1>1. \A k \in 1..n : w[k] \in Frame
    BY <1>0, ElementOfSeq
<1>2. /\ first \in Seq(Frame) /\ Len(first) = n
      /\ \A k \in 1..n : first[k] = w[k]
  <2>2. /\ first \in Seq(Frame) /\ Len(first) = IF 1 <= n THEN (n - 1) + 1 ELSE 0
        /\ \A k \in 1..((n - 1) + 1) : first[k] = w[(1 + k) - 1]
    BY <1>0, <1>1, SubSeqProperties
  <2> HIDE DEF first
  <2> QED BY <1>0, <2>2
<1>3. WithRead(b, w, n) = b \o first
    BY DEF WithRead
<1> HIDE DEF first
<1>4. /\ b \o first \in Seq(Frame) /\ Len(b \o first) = Len(b) + n
      /\ \A k \in 1..(Len(b) + n) :
            (b \o first)[k] = IF k <= Len(b) THEN b[k] ELSE first[k - Len(b)]
    BY <1>2, ConcatProperties
<1>5. \A k \in 1..(Len(b) + Len(w)) :
            (b \o w)[k] = IF k <= Len(b) THEN b[k] ELSE w[k - Len(b)]
    BY ConcatProperties
<1> QED
    BY <1>0, <1>2, <1>3, <1>4, <1>5

\* What is left when n frames were read and the first i looked at.
LEMMA RestOfFrames ==
    ASSUME NEW b \in Seq(Frame), NEW w \in Seq(Frame), NEW n \in 0..Len(w),
           NEW i \in 0..(Len(b) + n)
    PROVE  LET rest == Behind(WithRead(b, w, n), i) \o Behind(w, n)
           IN  /\ rest \in Seq(Frame) /\ Len(rest) = (Len(b) + Len(w)) - i
               /\ \A k \in 1..Len(rest) : rest[k] = (b \o w)[i + k]
<1> DEFINE u == WithRead(b, w, n)  tail == Behind(u, i)  last == Behind(w, n)
           rest == tail \o last
<1>0. Len(w) \in Nat /\ Len(b) \in Nat
    BY LenProperties
<1>1. /\ u \in Seq(Frame) /\ Len(u) = Len(b) + n
      /\ \A k \in 1..(Len(b) + n) : u[k] = (b \o w)[k]
    BY WithReadElements
<1>2. /\ tail \in Seq(Frame) /\ Len(tail) = (Len(b) + n) - i
      /\ \A k \in 1..((Len(b) + n) - i) : tail[k] = u[i + k]
  <2> HIDE DEF u
  <2>1. i \in 0..Len(u) BY <1>1
  <2> QED BY <1>1, <2>1, BehindElements
<1>3. /\ last \in Seq(Frame) /\ Len(last) = Len(w) - n
      /\ \A k \in 1..(Len(w) - n) : last[k] = w[n + k]
    BY BehindElements
<1>4. /\ rest \in Seq(Frame) /\ Len(rest) = Len(tail) + Len(last)
      /\ \A k \in 1..(Len(tail) + Len(last)) :
            rest[k] = IF k <= Len(tail) THEN tail[k] ELSE last[k - Len(tail)]
  <2> HIDE DEF tail, last
  <2> QED BY <1>2, <1>3, ConcatProperties
<1>5. \A k \in 1..(Len(b) + Len(w)) :
            (b \o w)[k] = IF k <= Len(b) THEN b[k] ELSE w[k - Len(b)]
    BY ConcatProperties
<1> HIDE DEF u, tail, last, rest
<1>6. Len(rest) = (Len(b) + Len(w)) - i
    BY <1>0, <1>2, <1>3, <1>4
<1>7. ASSUME NEW k \in 1..Len(rest) PROVE rest[k] = (b \o w)[i + k]
  <2>1. i + k \in 1..(Len(b) + Len(w)) /\ k \in Nat
    BY <1>0, <1>6
  <2>2. CASE k <= Len(tail)
    <3>1. rest[k] = u[i + k] /\ i + k \in 1..(Len(b) + n)
      BY <1>0, <1>2, <1>3, <1>4, <2>1, <2>2
    <3> QED BY <3>1, <1>1
  <2>3. CASE ~(k <= Len(tail))
    <3>1. k - Len(tail) \in 1..(Len(w) - n)
      BY <1>0, <1>2, <1>3, <1>4, <2>1, <2>3
    <3>2. rest[k] = last[k - Len(tail)]
      BY <1>4, <2>1, <2>3
    <3>3. last[k - Len(tail)] = w[n + (k - Len(tail))]
      BY <1>3, <3>1
    <3>4. n + (k - Len(tail)) = (i + k) - Len(b) /\ ~(i + k <= Len(b))
      BY <1>0, <1>2, <2>1, <2>3
    <3>5. (b \o w)[i + k] = w[(i + k) - Len(b)]
      BY <1>5, <2>1, <3>4
    <3> QED BY <3>2, <3>3, <3>4, <3>5
  <2> QED BY <2>2, <2>3
<1> QED
    BY <1>4, <1>6, <1>7 DEF u, tail, last, rest
-----------------------------------------------------------------------------
(* Types, counters and what was carried out.                                *)
\* TypeOK, by what its parts are proved from.
NumberTypes ==
    /\ phase \in {"idle", "connecting", "sending", "waiting"}
    /\ calls \in 0..MaxCalls /\ message_id \in 0..IdMask /\ next_id \in Nat
    /\ left \in 0..(ConnectTimeout + ResponseTimeout)
    /\ sock_timeout \in 0..ResponseTimeout
    /\ conns \in 0..MaxCalls /\ conn \in {0, conns}
    /\ failed \in BOOLEAN /\ hung_up \in BOOLEAN
    /\ strays \in 0..MaxStrays /\ result \in 0..MaxCalls /\ elapsed \in Nat
FrameTypes ==
    /\ wire \in Seq(Frame) /\ Len(wire) <= MaxWire
    /\ buffer \in Seq(Frame) /\ Len(buffer) < MaxBuffer
SetTypes ==
    /\ held \subseteq [call: 1..MaxCalls, id: 0..IdMask, conn: 1..MaxCalls]
    /\ executed \subseteq 1..MaxCalls
LEMMA TypeParts == TypeOK <=> NumberTypes /\ FrameTypes /\ SetTypes
BY DEF TypeOK, NumberTypes, FrameTypes, SetTypes

Base == NumberTypes /\ FrameTypes /\ SetTypes /\ Counters /\ OnceInv

\* A closed connection leaves nothing to receive.
LEMMA FramesHaveType ==
    ASSUME TypeOK
    PROVE  /\ Frames \in Seq(Frame) /\ Len(Frames) = Len(buffer) + Len(wire)
           /\ Len(Frames) \in Nat /\ DOMAIN Frames = 1..Len(Frames)
           /\ \A i \in DOMAIN Frames : Frames[i] \in Frame
<1>1. buffer \in Seq(Frame) /\ wire \in Seq(Frame)
    BY DEF TypeOK
<1>2. Frames \in Seq(Frame) /\ Len(Frames) = Len(buffer) + Len(wire)
    BY <1>1, ConcatProperties DEF Frames
<1> QED
    BY <1>2, LenProperties, ElementOfSeq

LEMMA InitBase == Init => Base
<1> SUFFICES ASSUME Init PROVE Base OBVIOUS
<1>1. NumberTypes /\ FrameTypes /\ SetTypes
  <2>1. <<>> \in Seq(Frame) /\ Len(<<>>) = 0
    BY EmptySeq
  <2>2. /\ wire \in Seq(Frame) /\ Len(wire) <= MaxWire
        /\ buffer \in Seq(Frame) /\ Len(buffer) < MaxBuffer
    BY <2>1, ConstantTypes DEF Init
  <2>3. /\ held \subseteq [call: 1..MaxCalls, id: 0..IdMask, conn: 1..MaxCalls]
        /\ executed \subseteq 1..MaxCalls
    BY DEF Init
  <2>4. /\ calls \in 0..MaxCalls /\ message_id \in 0..IdMask /\ next_id \in Nat
        /\ left \in 0..(ConnectTimeout + ResponseTimeout)
        /\ sock_timeout \in 0..ResponseTimeout
        /\ conns \in 0..MaxCalls /\ conn \in {0, conns}
        /\ strays \in 0..MaxStrays /\ result \in 0..MaxCalls /\ elapsed \in Nat
    BY ConstantTypes DEF Init
  <2>5. /\ phase \in {"idle", "connecting", "sending", "waiting"}
        /\ failed \in BOOLEAN /\ hung_up \in BOOLEAN
    BY DEF Init
  <2> QED BY <2>2, <2>3, <2>4, <2>5 DEF NumberTypes, FrameTypes, SetTypes
<1>2. IdOf(0) = 0
    BY ConstantTypes DEF IdOf
<1>3. Counters /\ OnceInv
    BY <1>2, ConstantTypes DEF Init, Counters, OnceInv
<1> QED
    BY <1>1, <1>3 DEF Base

\* What a receive leaves has its type.
LEMMA ReceiveTypes ==
    ASSUME TypeOK, NEW n \in 1..MaxWire, Reads(n), Len(Unpacked(n)) <= MaxBuffer
    PROVE  /\ Unpacked(n) = WithRead(buffer, wire, n)
           /\ Unpacked(n) \in Seq(Frame) /\ Len(Unpacked(n)) = Len(buffer) + n
           /\ DOMAIN Unpacked(n) = 1..Len(Unpacked(n))
           /\ \A i \in 1..Len(Unpacked(n)) :
                 /\ Unpacked(n)[i] \in Frame /\ Unpacked(n)[i] = Frames[i]
                 /\ SubSeq(Unpacked(n), i + 1, Len(Unpacked(n))) \in Seq(Frame)
                 /\ Len(SubSeq(Unpacked(n), i + 1, Len(Unpacked(n)))) < MaxBuffer
           /\ SubSeq(wire, n + 1, Len(wire)) \in Seq(Frame)
           /\ Len(SubSeq(wire, n + 1, Len(wire))) <= MaxWire
<1> DEFINE u == Unpacked(n)
<1>1. buffer \in Seq(Frame) /\ wire \in Seq(Frame) /\ n \in 0..Len(wire)
      /\ Len(wire) \in Nat /\ Len(buffer) \in Nat
    BY ConstantTypes, LenProperties DEF TypeOK, Reads
<1>2. u = WithRead(buffer, wire, n)
    BY DEF Unpacked, WithRead
<1>3. /\ u \in Seq(Frame) /\ Len(u) = Len(buffer) + n
      /\ \A k \in 1..Len(u) : u[k] = Frames[k]
  <2>1. /\ WithRead(buffer, wire, n) \in Seq(Frame)
        /\ Len(WithRead(buffer, wire, n)) = Len(buffer) + n
        /\ \A k \in 1..(Len(buffer) + n) :
              WithRead(buffer, wire, n)[k] = (buffer \o wire)[k]
    BY <1>1, WithReadElements
  <2> HIDE DEF u
  <2> QED BY <1>2, <2>1 DEF Frames
<1>4. DOMAIN u = 1..Len(u) /\ \A k \in 1..Len(u) : u[k] \in Frame
    BY <1>3, LenProperties, ElementOfSeq
<1>5. /\ Behind(wire, n) \in Seq(Frame) /\ Len(Behind(wire, n)) <= MaxWire
  <2>1. Len(Behind(wire, n)) = Len(wire) - n /\ Behind(wire, n) \in Seq(Frame)
    BY <1>1, BehindElements
  <2> QED BY <1>1, <2>1, ConstantTypes DEF TypeOK
<1> HIDE DEF u
<1>6. ASSUME NEW i \in 1..Len(u)
      PROVE  Behind(u, i) \in Seq(Frame) /\ Len(Behind(u, i)) < MaxBuffer
  <2>1. i \in 0..Len(u) /\ Len(u) \in Nat
    BY <1>1, <1>3
  <2>2. Behind(u, i) \in Seq(Frame) /\ Len(Behind(u, i)) = Len(u) - i
    BY <1>3, <2>1, BehindElements
  <2>3. Len(u) <= MaxBuffer
    BY DEF u
  <2> QED BY <2>1, <2>2, <2>3, ConstantTypes
<1> QED
    BY <1>2, <1>3, <1>4, <1>5, <1>6 DEF u, Behind

\* Nothing to receive is well typed.
LEMMA EmptyFrames ==
    <<>> \in Seq(Frame) /\ Len(<<>>) = 0 /\ Len(<<>>) <= MaxWire /\ Len(<<>>) < MaxBuffer
<1>1. <<>> \in Seq(Frame) /\ Len(<<>>) = 0
    BY EmptySeq
<1> QED
    BY <1>1, ConstantTypes

\* A call, by whatever it ends or goes on, and a tick keep the basic facts.
LEMMA CallBase ==
    ASSUME Base, Call PROVE Base'
<1> USE ConstantTypes DEF Base
<1>1. IdOf(Drawn) \in 1..IdMask /\ Drawn \in Nat \ {0}
  <2>1. next_id \in Nat \ {0}
    BY DEF Counters
  <2> QED BY <2>1, FreshId DEF Drawn
<1>2. NumberTypes'
    BY <1>1 DEF NumberTypes, Call, Counters, router
<1>3. FrameTypes' /\ SetTypes'
    BY DEF FrameTypes, SetTypes, Call, router
<1>4. Counters'
  <2>1. next_id' \in Nat \ {0} /\ message_id' = IdOf(next_id' - 1)
    BY <1>1 DEF Call
  <2> QED BY <2>1 DEF NumberTypes, Call, Counters, router
<1>5. OnceInv'
    BY DEF NumberTypes, SetTypes, Call, OnceInv, router
<1> QED
    BY <1>2, <1>3, <1>4, <1>5

LEMMA FailsBase ==
    ASSUME Base, phase # "idle", Fails PROVE Base'
<1> USE ConstantTypes DEF Base
<1>1. NumberTypes'
  <2>1. failed' \in BOOLEAN /\ hung_up' \in BOOLEAN
    BY DEF Fails, Closed
  <2> QED BY <2>1 DEF NumberTypes, Fails, Closed, router
<1>2. FrameTypes' /\ SetTypes'
    BY EmptyFrames DEF FrameTypes, SetTypes, Fails, Closed, router
<1>3. Counters' /\ OnceInv'
    BY DEF NumberTypes, Counters, OnceInv, Fails, Closed, router
<1> QED
    BY <1>1, <1>2, <1>3

LEMMA ConnectionBase ==
    ASSUME Base, Connect \/ Send \/ Close PROVE Base'
<1> USE ConstantTypes DEF Base
<1>1. NumberTypes'
  <2>1. failed' \in BOOLEAN /\ hung_up' \in BOOLEAN
    BY DEF NumberTypes, Connect, Send, Close, Closed
  <2>2. CASE Connect
    BY <2>1, <2>2 DEF NumberTypes, Counters, Connect, router
  <2>3. CASE Send \/ Close
    BY <2>1, <2>3 DEF NumberTypes, Counters, Send, Close, Closed, router
  <2> QED BY <2>2, <2>3
<1>2. FrameTypes'
    BY EmptyFrames DEF FrameTypes, Connect, Send, Close, Closed
<1>3. SetTypes'
  <2>1. CASE Send
    <3>1. calls \in 1..MaxCalls /\ message_id \in 0..IdMask /\ conn \in 1..MaxCalls
      BY <2>1 DEF NumberTypes, Counters, Send
    <3> QED BY <2>1, <3>1 DEF SetTypes, Send
  <2> QED BY <2>1 DEF SetTypes, Connect, Close, router
<1>4. Counters'
  <2>1. CASE Send
    BY <2>1 DEF NumberTypes, Counters, Send
  <2>2. CASE Connect
    BY <2>2 DEF NumberTypes, SetTypes, Counters, Connect, router
  <2>3. CASE Close
    BY <2>3 DEF NumberTypes, Counters, Close, Closed, router
  <2> QED BY <2>1, <2>2, <2>3
<1>5. OnceInv'
  <2>1. CASE Send
    <3> DEFINE new == [call |-> calls, id |-> message_id, conn |-> conn]
    <3>1. held' = held \cup {new} /\ new.call = calls
      BY <2>1 DEF Send
    <3> HIDE DEF new
    <3> QED BY <2>1, <3>1 DEF NumberTypes, OnceInv, Send
  <2> QED BY <2>1 DEF OnceInv, Connect, Close, Closed, router
<1> QED
    BY <1>1, <1>2, <1>3, <1>4, <1>5

LEMMA ReceiveBase ==
    ASSUME Base, NEW n \in 1..MaxWire,
           ReceiveOther(n) \/ \E i \in 1..MaxBuffer : ReceiveAnswer(n, i)
    PROVE  Base'
<1> USE ConstantTypes DEF Base
<1>1. TypeOK /\ Reads(n) /\ Len(Unpacked(n)) <= MaxBuffer
    BY TypeParts DEF ReceiveOther, ReceiveAnswer
<1>2. NumberTypes' /\ FrameTypes'
  <2>1. CASE ReceiveOther(n)
    <3>1. FrameTypes'
      BY <1>1, <2>1, EmptyFrames, ReceiveTypes DEF FrameTypes, ReceiveOther
    <3>2. left \in 0..ResponseTimeout
      BY <2>1 DEF NumberTypes, Counters, ReceiveOther, Reads
    <3>3. NumberTypes'
      BY <2>1, <3>2 DEF NumberTypes, ReceiveOther, Remaining, router
    <3> QED BY <3>1, <3>3
  <2>2. ASSUME NEW i \in 1..MaxBuffer, ReceiveAnswer(n, i)
        PROVE  NumberTypes' /\ FrameTypes'
    <3>1. i \in 1..Len(Unpacked(n)) /\ Unpacked(n)[i].call \in 0..MaxCalls
      <4>1. i \in DOMAIN Unpacked(n)
        BY <2>2 DEF ReceiveAnswer, FirstEnd
      <4>2. i \in 1..Len(Unpacked(n)) /\ Unpacked(n)[i] \in Frame
        BY <1>1, <4>1, ReceiveTypes
      <4> QED BY <4>2 DEF Frame
    <3>2. FrameTypes'
      BY <1>1, <2>2, <3>1, ReceiveTypes DEF FrameTypes, ReceiveAnswer
    <3>3. NumberTypes'
      <4>1. failed' \in BOOLEAN /\ hung_up' \in BOOLEAN
        BY <2>2 DEF NumberTypes, ReceiveAnswer
      <4>2. result' \in 0..MaxCalls
        BY <2>2, <3>1 DEF ReceiveAnswer
      <4>3. /\ phase' = "idle" /\ left' = 0 /\ elapsed' = 0
            /\ UNCHANGED <<calls, message_id, next_id, sock_timeout, conn, conns, strays>>
        BY <2>2 DEF ReceiveAnswer, router
      <4> QED BY <4>1, <4>2, <4>3 DEF NumberTypes
    <3> QED BY <3>2, <3>3
  <2> QED BY <2>1, <2>2
<1>3. SetTypes' /\ OnceInv'
    BY DEF SetTypes, OnceInv, ReceiveOther, ReceiveAnswer, Reads, router
<1>4. Counters'
  <2>1. CASE ReceiveOther(n)
    BY <2>1 DEF NumberTypes, Counters, ReceiveOther, Reads, Remaining, router
  <2>2. ASSUME NEW i \in 1..MaxBuffer, ReceiveAnswer(n, i) PROVE Counters'
    BY <2>2 DEF NumberTypes, Counters, ReceiveAnswer, Reads, router
  <2> QED BY <2>1, <2>2
<1> QED
    BY <1>2, <1>3, <1>4

\* Frames that the Router sends are behind those it sent before.
LEMMA SendsAppends ==
    ASSUME FrameTypes, NEW s \in Seq(Frame), Sends(s), UNCHANGED buffer
    PROVE  /\ FrameTypes'
           /\ Frames' \in Seq(Frame) /\ Len(Frames') = Len(Frames) + Len(s)
           /\ \A i \in 1..Len(Frames') :
                 Frames'[i] = IF i <= Len(Frames) THEN Frames[i]
                              ELSE s[i - Len(Frames)]
<1>1. wire' = wire \o s /\ wire' \in Seq(Frame) /\ Len(wire') = Len(wire) + Len(s)
    BY ConcatProperties DEF FrameTypes, Sends
<1>2. FrameTypes'
    BY <1>1 DEF FrameTypes, Sends
<1>3. Frames' = Frames \o s /\ Frames \in Seq(Frame)
    BY <1>1, ConcatAssociative, ConcatProperties DEF FrameTypes, Frames
<1>4. /\ Frames \o s \in Seq(Frame) /\ Len(Frames \o s) = Len(Frames) + Len(s)
      /\ \A i \in 1..(Len(Frames) + Len(s)) :
            (Frames \o s)[i] = IF i <= Len(Frames) THEN Frames[i]
                               ELSE s[i - Len(Frames)]
    BY <1>3, ConcatProperties
<1> QED
    BY <1>2, <1>3, <1>4

\* What the Router may send, one answer or two, or one frame of another kind.
LEMMA SingleFrame ==
    ASSUME NEW f \in Frame
    PROVE  <<f>> \in Seq(Frame) /\ Len(<<f>>) = 1 /\ <<f>>[1] = f
OBVIOUS
LEMMA AnswerFrames ==
    ASSUME SetTypes, NEW r \in held, NEW n \in 1..2, NEW ok \in BOOLEAN,
           NEW s, s = [i \in 1..n |-> Answer(r.id, r.call, ok)]
    PROVE  /\ Answer(r.id, r.call, ok) \in Frame
           /\ s \in Seq(Frame) /\ Len(s) = n
           /\ \A i \in 1..n : s[i] = Answer(r.id, r.call, ok)
<1>1. Answer(r.id, r.call, ok) \in Frame
    BY ConstantTypes DEF SetTypes, Answer, Frame
<1>2. s \in [1..n -> Frame] /\ \A i \in 1..n : s[i] = Answer(r.id, r.call, ok)
    BY <1>1
<1>3. s \in Seq(Frame) /\ Len(s) = n
    BY <1>2
<1> QED
    BY <1>1, <1>2, <1>3

LEMMA RouterBase ==
    ASSUME Base, RouterStep PROVE Base'
<1> USE ConstantTypes DEF Base
<1>1. ASSUME NEW r \in held, Execute(r) \/ Refuse(r) PROVE Base'
  <2>1. NumberTypes' /\ UNCHANGED buffer
    BY <1>1 DEF NumberTypes, Execute, Refuse, client
  <2>2. FrameTypes'
    <3>1. CASE UNCHANGED wire
      BY <2>1, <3>1 DEF FrameTypes
    <3>2. CASE ~UNCHANGED wire
      <4>1. CASE Execute(r)
        <5>1. PICK n \in 1..2 : Sends([i \in 1..n |-> Answer(r.id, r.call, TRUE)])
          BY <3>2, <4>1 DEF Execute
        <5>2. [i \in 1..n |-> Answer(r.id, r.call, TRUE)] \in Seq(Frame)
          BY AnswerFrames
        <5> QED BY <2>1, <5>1, <5>2, SendsAppends
      <4>2. CASE Refuse(r)
        <5>1. Sends(<<Answer(r.id, r.call, FALSE)>>)
          BY <3>2, <4>2 DEF Refuse
        <5>2. <<Answer(r.id, r.call, FALSE)>> \in Seq(Frame)
          <6>1. Answer(r.id, r.call, FALSE) \in Frame
            BY DEF SetTypes, Answer, Frame
          <6> QED BY <6>1, SingleFrame
        <5> QED BY <2>1, <5>1, <5>2, SendsAppends
      <4> QED BY <1>1, <4>1, <4>2
    <3> QED BY <3>1, <3>2
  <2>3. SetTypes'
    BY <1>1 DEF SetTypes, Execute, Refuse
  <2>4. Counters'
    BY <1>1 DEF Counters, Execute, Refuse, client
  <2>5. OnceInv'
    <3>1. CASE Execute(r)
      <4>1. /\ held' = held \ {r} /\ executed' = executed \cup {r.call}
            /\ UNCHANGED <<calls, phase>> /\ r.call \in 1..calls
        BY <3>1 DEF NumberTypes, SetTypes, OnceInv, Execute, client
      <4>2. \A q \in held' : q.call \notin executed'
        BY <4>1 DEF OnceInv
      <4> QED BY <4>1, <4>2 DEF OnceInv
    <3>2. CASE Refuse(r)
      BY <3>2 DEF OnceInv, Refuse, client
    <3> QED BY <1>1, <3>1, <3>2
  <2> QED BY <2>1, <2>2, <2>3, <2>4, <2>5
<1>2. ASSUME NEW f \in {Request(id) : id \in 0..IdMask} \cup {Garbage}, Stray(f)
      PROVE  Base'
  <2>1. f \in Frame
    <3>1. CASE f = Garbage
      BY <3>1 DEF Garbage, Frame
    <3>2. CASE f # Garbage
      <4>1. PICK id \in 0..IdMask : f = Request(id)
        BY <3>2
      <4> QED BY <4>1 DEF Request, Frame
    <3> QED BY <3>1, <3>2
  <2>2. FrameTypes'
    BY <1>2, <2>1, SingleFrame, SendsAppends DEF Stray, client
  <2> QED BY <1>2, <2>2 DEF NumberTypes, SetTypes, Counters, OnceInv, Stray, client
<1>3. ASSUME HangUp PROVE Base'
    BY <1>3 DEF NumberTypes, FrameTypes, SetTypes, Counters, OnceInv, HangUp, client, router
<1> QED
    BY <1>1, <1>2, <1>3 DEF RouterStep

LEMMA TickBase ==
    ASSUME Base, Tick \/ UNCHANGED vars PROVE Base'
<1> USE ConstantTypes DEF Base
<1>1. CASE Tick
  <2>1. NumberTypes'
    BY <1>1 DEF NumberTypes, Tick, router
  <2>2. FrameTypes' /\ SetTypes'
    BY <1>1 DEF FrameTypes, SetTypes, Tick, router
  <2>3. Counters' /\ OnceInv'
    BY <1>1 DEF NumberTypes, Counters, OnceInv, Tick, router
  <2> QED BY <2>1, <2>2, <2>3
<1>2. CASE UNCHANGED vars
    BY <1>2 DEF NumberTypes, FrameTypes, SetTypes, Counters, OnceInv, vars, client, router
<1> QED
    BY <1>1, <1>2
-----------------------------------------------------------------------------
(* Whose answers are on their way.                                          *)

\* Without a connection there are none, and there is nothing to answer on.
LEMMA NothingComes ==
    ASSUME buffer = <<>>, wire = <<>>, \A r \in held : r.conn # conn
    PROVE  FrameInv
<1>1. Frames = <<>>
    BY ConcatEmptySeq, EmptySeq DEF Frames
<1>2. DOMAIN Frames = {}
    BY <1>1
<1> QED
    BY <1>2 DEF FrameInv, OwnInv, OrderInv, IdleInv, HeldInv

LEMMA InitFrames == Init => FrameInv
BY NothingComes DEF Init

LEMMA CloseFrames ==
    ASSUME Base, buffer' = <<>>, wire' = <<>>, UNCHANGED held,
           conn' = 0 \/ conn' = conns + 1
    PROVE  FrameInv'
<1>1. \A r \in held' : r.conn # conn'
    BY DEF Base, NumberTypes, SetTypes, Counters
<1>2. Frames' = <<>>
    BY ConcatEmptySeq, EmptySeq DEF Frames
<1>3. DOMAIN Frames' = {}
    BY <1>2
<1> QED
    BY <1>1, <1>3 DEF FrameInv, OwnInv, OrderInv, IdleInv, HeldInv

\* A new call has a new id: what is still on its way is not for it.
LEMMA CallFrames ==
    ASSUME Base, FrameInv, Call PROVE FrameInv'
<1>1. Frames' = Frames /\ UNCHANGED <<held, executed, conn>> /\ phase = "idle"
    BY DEF Call, Frames, router
<1>2. message_id' # message_id
  <2>1. next_id \in Nat \ {0} /\ message_id = IdOf(next_id - 1)
    BY DEF Base, Counters
  <2> QED BY <2>1, FreshId DEF Call, Drawn
<1>3. \A i \in DOMAIN Frames : ~Own(Frames[i], message_id')
    BY <1>1, <1>2 DEF FrameInv, IdleInv, Own, IsAnswer, Matches
<1>4. \A r \in held : r.conn # conn
    BY <1>1 DEF FrameInv, HeldInv
<1>5. phase' # "idle"
    BY DEF Call
<1> QED
    BY <1>1, <1>3, <1>4, <1>5 DEF FrameInv, OwnInv, OrderInv, IdleInv, HeldInv

\* The request of a call is the only one on its connection.
LEMMA SendFrames ==
    ASSUME Base, FrameInv, Send PROVE FrameInv'
<1> DEFINE new == [call |-> calls, id |-> message_id, conn |-> conn]
<1>1. /\ Frames' = Frames /\ UNCHANGED <<calls, message_id, executed, conn>>
      /\ phase = "sending" /\ phase' = "waiting"
      /\ held' = held \cup {new}
    BY DEF Send, Frames
<1>2. new.call = calls /\ new.id = message_id
    OBVIOUS
<1> HIDE DEF new
<1>3. \A i \in DOMAIN Frames : ~Own(Frames[i], message_id)
    BY <1>1 DEF FrameInv, OwnInv
<1>4. \A i \in DOMAIN Frames : Own(Frames[i], message_id') <=> Own(Frames[i], message_id)
    BY <1>1 DEF Own, Matches
<1>5. \A r \in held : r.conn # conn
    BY <1>1 DEF FrameInv, HeldInv
<1> QED
    BY <1>1, <1>2, <1>3, <1>4, <1>5
       DEF FrameInv, OwnInv, OrderInv, IdleInv, HeldInv

\* What is behind a frame keeps its order and its owners.
LEMMA SuffixFrames ==
    ASSUME Base, FrameInv, NEW n \in 0..Len(Frames),
           Frames' \in Seq(Frame), Len(Frames') = Len(Frames) - n,
           \A k \in 1..Len(Frames') : Frames'[k] = Frames[n + k],
           phase = "waiting", phase' \in {"waiting", "idle"},
           phase' = "idle" => IdleInv', phase' = "idle" => HeldInv',
           UNCHANGED <<calls, message_id, executed, conn, held>>
    PROVE  FrameInv'
<1>1. /\ Len(Frames) \in Nat /\ DOMAIN Frames = 1..Len(Frames)
      /\ Len(Frames') \in Nat /\ DOMAIN Frames' = 1..Len(Frames')
    BY TypeParts, FramesHaveType, LenProperties DEF Base
<1>2. \A k \in DOMAIN Frames' : n + k \in DOMAIN Frames /\ Frames'[k] = Frames[n + k]
    BY <1>1
<1>3. \A k \in DOMAIN Frames' :
          /\ Own(Frames'[k], message_id') <=> Own(Frames[n + k], message_id)
          /\ IsAnswer(Frames'[k]) <=> IsAnswer(Frames[n + k])
    BY <1>2 DEF Own, Matches, IsAnswer
<1>4. OwnInv'
    BY <1>2, <1>3 DEF FrameInv, OwnInv
<1>5. OrderInv'
  <2> SUFFICES ASSUME NEW i \in DOMAIN Frames', NEW j \in DOMAIN Frames', i < j,
                      Own(Frames'[i], message_id'), IsAnswer(Frames'[j])
               PROVE  Own(Frames'[j], message_id')
    BY DEF OrderInv
  <2>1. n + i < n + j
    BY <1>1
  <2> QED BY <1>2, <1>3, <2>1 DEF FrameInv, OrderInv
<1>6. CASE phase' = "idle"
    BY <1>4, <1>5, <1>6 DEF FrameInv
<1>7. CASE phase' = "waiting"
    BY <1>2, <1>3, <1>4, <1>5, <1>7 DEF FrameInv, IdleInv, HeldInv
<1> QED
    BY <1>6, <1>7

\* After a receive the frames that were not looked at are left.
LEMMA ReceiveFrames ==
    ASSUME Base, FrameInv, NEW n \in 1..MaxWire,
           ReceiveOther(n) \/ \E i \in 1..MaxBuffer : ReceiveAnswer(n, i)
    PROVE  FrameInv'
<1>1. TypeOK /\ Reads(n) /\ Len(Unpacked(n)) <= MaxBuffer
    BY TypeParts DEF Base, ReceiveOther, ReceiveAnswer
<1>2. /\ buffer \in Seq(Frame) /\ wire \in Seq(Frame) /\ n \in 0..Len(wire)
      /\ Len(wire) \in Nat /\ Len(buffer) \in Nat
    BY <1>1, ConstantTypes, LenProperties DEF TypeOK, Reads
<1>3. /\ Unpacked(n) = WithRead(buffer, wire, n)
      /\ Len(Unpacked(n)) = Len(buffer) + n
    BY <1>1, ReceiveTypes
<1>4. Len(Frames) = Len(buffer) + Len(wire)
    BY <1>1, FramesHaveType
<1>5. phase = "waiting" /\ UNCHANGED <<calls, message_id, executed, conn, held>>
    BY <1>1 DEF Reads, ReceiveOther, ReceiveAnswer, router
<1>6. ASSUME NEW i \in 0..(Len(buffer) + n),
             buffer' = Behind(Unpacked(n), i), wire' = Behind(wire, n)
      PROVE  /\ i \in 0..Len(Frames)
             /\ Frames' \in Seq(Frame) /\ Len(Frames') = Len(Frames) - i
             /\ \A k \in 1..Len(Frames') : Frames'[k] = Frames[i + k]
  <2> DEFINE rest == Behind(WithRead(buffer, wire, n), i) \o Behind(wire, n)
  <2>1. /\ rest \in Seq(Frame) /\ Len(rest) = (Len(buffer) + Len(wire)) - i
        /\ \A k \in 1..Len(rest) : rest[k] = (buffer \o wire)[i + k]
    BY <1>2, RestOfFrames
  <2>2. Frames' = rest
    BY <1>3, <1>6 DEF Frames
  <2>3. i \in 0..Len(Frames)
    BY <1>2, <1>4
  <2> HIDE DEF rest
  <2> QED BY <1>4, <2>1, <2>2, <2>3 DEF Frames
<1>7. CASE ReceiveOther(n)
  <2>1. Behind(Unpacked(n), Len(buffer) + n) = <<>>
    BY <1>2, <1>3, SubSeqEmpty DEF Behind
  <2>2. buffer' = Behind(Unpacked(n), Len(buffer) + n) /\ wire' = Behind(wire, n)
    BY <1>7, <2>1 DEF ReceiveOther, Behind
  <2>3. Len(buffer) + n \in 0..(Len(buffer) + n)
    BY <1>2
  <2>4. phase' = "waiting"
    BY <1>5, <1>7 DEF ReceiveOther
  <2> DEFINE i == Len(buffer) + n
  <2>5. /\ i \in 0..Len(Frames)
        /\ Frames' \in Seq(Frame) /\ Len(Frames') = Len(Frames) - i
        /\ \A k \in 1..Len(Frames') : Frames'[k] = Frames[i + k]
    BY <1>6, <2>2, <2>3
  <2> HIDE DEF i
  <2> QED BY <1>5, <2>4, <2>5, SuffixFrames
<1>8. ASSUME NEW i \in 1..MaxBuffer, ReceiveAnswer(n, i)
      PROVE  FrameInv'
  <2>1. i \in DOMAIN Unpacked(n) /\ i \in 1..Len(Unpacked(n))
    BY <1>1, <1>8, ReceiveTypes DEF ReceiveAnswer, FirstEnd
  <2>2. /\ i \in 0..Len(Frames)
        /\ Frames' \in Seq(Frame) /\ Len(Frames') = Len(Frames) - i
        /\ \A k \in 1..Len(Frames') : Frames'[k] = Frames[i + k]
    <3>1. i \in 0..(Len(buffer) + n)
      BY <1>2, <1>3, <2>1
    <3>2. buffer' = Behind(Unpacked(n), i) /\ wire' = Behind(wire, n)
      BY <1>8 DEF ReceiveAnswer, Behind
    <3> QED BY <1>6, <3>1, <3>2
  <2>3. i \in DOMAIN Frames /\ Own(Frames[i], message_id)
    <3>1. Unpacked(n)[i] = Frames[i]
      BY <1>1, <2>1, ReceiveTypes
    <3>2. Matches(Unpacked(n)[i])
      BY <1>8 DEF ReceiveAnswer, FirstEnd, Ends
    <3>3. i \in 1..Len(Frames) /\ DOMAIN Frames = 1..Len(Frames)
      BY <1>1, <2>2, FramesHaveType
    <3> QED BY <3>1, <3>2, <3>3 DEF Own, Matches
  <2>4. phase' = "idle"
    BY <1>8 DEF ReceiveAnswer
  <2>5. IdleInv'
    <3> SUFFICES ASSUME NEW k \in DOMAIN Frames', IsAnswer(Frames'[k])
                 PROVE  Own(Frames'[k], message_id')
      BY DEF IdleInv, IsAnswer
    <3>1. k \in 1..Len(Frames') /\ Len(Frames) \in Nat
      BY <1>1, <2>2, LenProperties, FramesHaveType
    <3>2. Frames'[k] = Frames[i + k] /\ i + k \in DOMAIN Frames /\ i < i + k
      BY <1>1, <2>2, <3>1, FramesHaveType
    <3>3. Own(Frames[i + k], message_id)
      BY <2>3, <3>2 DEF FrameInv, OrderInv, IsAnswer
    <3> QED BY <1>5, <3>2, <3>3 DEF Own, Matches
  <2>6. HeldInv'
    BY <1>5, <2>3 DEF FrameInv, HeldInv
  <2> QED BY <1>5, <2>2, <2>4, <2>5, <2>6, SuffixFrames
<1> QED
    BY <1>7, <1>8

\* What the Router adds comes last; an answer ends its request.
LEMMA RouterFrames ==
    ASSUME Base, FrameInv, RouterStep PROVE FrameInv'
<1>1. /\ Frames \in Seq(Frame) /\ Len(Frames) \in Nat
      /\ DOMAIN Frames = 1..Len(Frames)
    BY TypeParts, FramesHaveType DEF Base
<1>2. UNCHANGED <<phase, calls, message_id, conn, buffer>>
    BY DEF RouterStep, Execute, Refuse, Stray, HangUp, client
<1>3. executed \subseteq executed'
    BY DEF RouterStep, Execute, Refuse, Stray, HangUp, client, router
<1>4. held' \subseteq held
    BY DEF RouterStep, Execute, Refuse, Stray, HangUp, client, router
<1>5. CASE UNCHANGED wire
  <2>1. Frames' = Frames
    BY <1>2, <1>5 DEF Frames
  <2> QED BY <1>2, <1>3, <1>4, <2>1 DEF FrameInv, OwnInv, OrderInv, IdleInv, HeldInv
\* Frames that are no answers, behind the others.
<1>6. ASSUME NEW f \in Frame, Sends(<<f>>), ~IsAnswer(f) PROVE FrameInv'
  <2>1. /\ Frames' \in Seq(Frame) /\ Len(Frames') = Len(Frames) + 1
        /\ \A i \in 1..Len(Frames') :
              Frames'[i] = IF i <= Len(Frames) THEN Frames[i]
                           ELSE <<f>>[i - Len(Frames)]
    BY <1>2, <1>6, SingleFrame, SendsAppends DEF Base
  <2>2. DOMAIN Frames' = 1..Len(Frames')
    BY <2>1, LenProperties
  <2>3. \A i \in DOMAIN Frames' : i \in DOMAIN Frames \/ i = Len(Frames) + 1
    BY <1>1, <2>1, <2>2
  <2>4. \A i \in DOMAIN Frames : Frames'[i] = Frames[i]
    BY <1>1, <2>1
  <2>5. Frames'[Len(Frames) + 1] = f
    BY <1>1, <2>1
  <2>6. ~IsAnswer(f) /\ ~Own(f, message_id)
    BY <1>6 DEF IsAnswer, Own
  <2> QED BY <1>2, <1>3, <1>4, <2>3, <2>4, <2>5, <2>6
             DEF FrameInv, OwnInv, OrderInv, IdleInv, HeldInv
\* Answers to the request of the present call, on its connection.
<1>7. ASSUME NEW r \in held, r.conn = conn, held' = held \ {r},
             NEW n \in 1..2, NEW ok \in BOOLEAN, ok => r.call \in executed',
             NEW s \in Seq(Frame), Len(s) = n, Sends(s),
             \A i \in 1..n : s[i] = Answer(r.id, r.call, ok)
      PROVE  FrameInv'
  <2>1. /\ Frames' \in Seq(Frame) /\ Len(Frames') = Len(Frames) + n
        /\ \A i \in 1..Len(Frames') :
              Frames'[i] = IF i <= Len(Frames) THEN Frames[i]
                           ELSE s[i - Len(Frames)]
    BY <1>2, <1>7, SendsAppends DEF Base
  <2>2. DOMAIN Frames' = 1..Len(Frames')
    BY <2>1, LenProperties
  <2>3. \A i \in DOMAIN Frames : i \in DOMAIN Frames' /\ Frames'[i] = Frames[i]
    BY <1>1, <2>1, <2>2
  <2>4. \A i \in DOMAIN Frames' \ DOMAIN Frames :
            Frames'[i] = Answer(r.id, r.call, ok)
    BY <1>1, <1>7, <2>1, <2>2
  <2>5. \A i, j \in DOMAIN Frames' :
            i < j /\ j \in DOMAIN Frames => i \in DOMAIN Frames
    BY <1>1, <2>2
  <2>6. /\ phase = "waiting" /\ r.call = calls /\ r.id = message_id
        /\ \A i \in DOMAIN Frames : ~Own(Frames[i], message_id)
    BY <1>7 DEF FrameInv, HeldInv
  <2>7. Own(Answer(r.id, r.call, ok), message_id)
    BY <2>6 DEF Own, Answer
  <2>8. Answer(r.id, r.call, ok).call = calls /\ Answer(r.id, r.call, ok).ok = ok
    BY <2>6 DEF Answer
  <2>9. OwnInv'
    BY <1>2, <1>7, <2>3, <2>4, <2>6, <2>8 DEF OwnInv
  <2>10. OrderInv'
    BY <1>2, <2>3, <2>4, <2>5, <2>6, <2>7 DEF OrderInv
  <2>11. HeldInv'
    <3>1. \A q \in held' : q.conn # conn
      BY <1>7, <2>6 DEF Base, OnceInv, FrameInv, HeldInv
    <3> QED BY <1>2, <3>1 DEF HeldInv
  <2>12. IdleInv'
    BY <1>2, <2>6 DEF IdleInv
  <2> QED BY <2>9, <2>10, <2>11, <2>12 DEF FrameInv
<1>8. ASSUME NEW r \in held, Execute(r), ~UNCHANGED wire PROVE FrameInv'
  <2>1. /\ Reaches(r) /\ held' = held \ {r} /\ executed' = executed \cup {r.call}
        /\ \E n \in 1..2 : Sends([i \in 1..n |-> Answer(r.id, r.call, TRUE)])
    BY <1>8 DEF Execute
  <2>2. PICK n \in 1..2 : Sends([i \in 1..n |-> Answer(r.id, r.call, TRUE)])
    BY <2>1
  <2> DEFINE s == [i \in 1..n |-> Answer(r.id, r.call, TRUE)]
  <2>3. /\ s \in Seq(Frame) /\ Len(s) = n
        /\ \A i \in 1..n : s[i] = Answer(r.id, r.call, TRUE)
    BY AnswerFrames DEF Base
  <2>4. Sends(s) /\ r.call \in executed' /\ r.conn = conn
    BY <2>1, <2>2 DEF Reaches
  <2> HIDE DEF s
  <2> QED BY <1>7, <2>1, <2>3, <2>4
<1>9. ASSUME NEW r \in held, Refuse(r), ~UNCHANGED wire PROVE FrameInv'
  <2> DEFINE f == Answer(r.id, r.call, FALSE)
  <2>1. Reaches(r) /\ held' = held \ {r} /\ Sends(<<f>>)
    BY <1>9 DEF Refuse
  <2>2. f \in Frame
    BY ConstantTypes DEF Base, SetTypes, Answer, Frame
  <2> HIDE DEF f
  <2>3. <<f>> \in Seq(Frame) /\ Len(<<f>>) = 1 /\ <<f>>[1] = f
    BY <2>2, SingleFrame
  <2>4. \A i \in 1..1 : <<f>>[i] = Answer(r.id, r.call, FALSE)
    <3>1. f = Answer(r.id, r.call, FALSE)
      BY DEF f
    <3>2. \A i \in 1..1 : <<f>>[i] = f
      BY <2>3
    <3> QED BY <3>1, <3>2
  <2>5. r.conn = conn /\ 1 \in 1..2
    BY <2>1 DEF Reaches
  <2> QED BY <1>7, <2>1, <2>3, <2>4, <2>5
<1>10. ASSUME NEW f \in {Request(id) : id \in 0..IdMask} \cup {Garbage}, Stray(f)
       PROVE  FrameInv'
  <2>1. f \in Frame /\ ~IsAnswer(f)
    <3>1. CASE f = Garbage
      BY <3>1, ConstantTypes DEF Garbage, Frame, IsAnswer
    <3>2. CASE f # Garbage
      <4>1. PICK id \in 0..IdMask : f = Request(id)
        BY <3>2
      <4> QED BY <4>1, ConstantTypes DEF Request, Frame, IsAnswer
    <3> QED BY <3>1, <3>2
  <2> QED BY <1>6, <1>10, <2>1 DEF Stray
<1>11. CASE HangUp
    BY <1>5, <1>11 DEF HangUp
<1> QED
    BY <1>5, <1>8, <1>9, <1>10, <1>11 DEF RouterStep

LEMMA TickFrames ==
    ASSUME FrameInv, Tick \/ UNCHANGED vars PROVE FrameInv'
<1>1. UNCHANGED <<phase, calls, message_id, conn, executed, held>> /\ Frames' = Frames
    BY DEF Tick, vars, client, router, Frames
<1> QED
    BY <1>1 DEF FrameInv, OwnInv, OrderInv, IdleInv, HeldInv
-----------------------------------------------------------------------------
\* What a step of the system is to the proofs: one of a few kinds.
LEMMA StepKinds ==
    ASSUME [Next]_vars
    PROVE  \/ Call \/ Connect \/ Send \/ Close \/ RouterStep \/ Tick
           \/ phase # "idle" /\ Fails
           \/ \E n \in 1..MaxWire : \/ ReceiveOther(n)
                                    \/ \E i \in 1..MaxBuffer : ReceiveAnswer(n, i)
           \/ UNCHANGED vars
<1>1. CASE ConnectRefused \/ SendBroken \/ Disconnected \/ TimesOut
    BY <1>1 DEF ConnectRefused, SendBroken, Disconnected, TimesOut
<1>2. ASSUME NEW n \in 1..MaxWire, ReceiveFails(n) PROVE phase # "idle" /\ Fails
    BY <1>2 DEF ReceiveFails, Reads
<1> QED
    BY <1>1, <1>2 DEF Next, ClientStep, Receive

\* The invariant is inductive.
LEMMA BaseStep == Base /\ [Next]_vars => Base'
BY StepKinds, CallBase, FailsBase, ConnectionBase, ReceiveBase, RouterBase, TickBase

LEMMA FrameStep == Base /\ FrameInv /\ [Next]_vars => FrameInv'
<1> SUFFICES ASSUME Base, FrameInv, [Next]_vars PROVE FrameInv' OBVIOUS
<1>1. CASE Connect \/ Close \/ Fails
    BY <1>1, CloseFrames DEF Connect, Close, Fails, Closed, router
<1> QED
    BY <1>1, StepKinds, CallFrames, SendFrames, ReceiveFrames, RouterFrames, TickFrames

IInv == Base /\ FrameInv
THEOREM InvariantHolds == Spec => []IInv
BY InitBase, InitFrames, BaseStep, FrameStep, PTL DEF Spec, IInv

\* The type invariant.
THEOREM TypeCorrect == Spec => []TypeOK
<1>1. Base => TypeOK
    BY TypeParts DEF Base
<1> QED BY <1>1, InvariantHolds, PTL DEF IInv

\* Time passes only while something is left of the timeout in force, and there
\* are at most three: of connecting, of sending and of waiting.
THEOREM CallsEndInTime == Spec => []CallInTime
<1>1. Init => TimeInv
    BY DEF Init, TimeInv
<1>2. ASSUME Base, TimeInv, [Next]_vars PROVE TimeInv'
  <2> USE <1>2, ConstantTypes DEF Base, NumberTypes, TimeInv
  <2>1. CASE Call
    BY <2>1 DEF Call
  <2>2. CASE Connect
    BY <2>2 DEF Connect
  <2>3. CASE Send
    BY <2>3 DEF Send
  <2>4. CASE Fails
    BY <2>4 DEF Fails
  <2>5. CASE Close
    BY <2>5 DEF Close
  <2>6. CASE Tick
    BY <2>6 DEF Tick
  <2>7. CASE RouterStep
    BY <2>7 DEF RouterStep, Execute, Refuse, Stray, HangUp, client
  <2>8. ASSUME NEW n \in 1..MaxWire,
               ReceiveOther(n) \/ \E i \in 1..MaxBuffer : ReceiveAnswer(n, i)
        PROVE  TimeInv'
    BY <2>8 DEF ReceiveOther, ReceiveAnswer, Remaining
  <2>9. CASE UNCHANGED vars
    BY <2>9 DEF vars, client
  <2> HIDE DEF Base, NumberTypes, TimeInv
  <2> QED BY <1>2, <2>1, <2>2, <2>3, <2>4, <2>5, <2>6, <2>7, <2>8, <2>9, StepKinds
<1>3. Base /\ TimeInv => CallInTime
    BY ConstantTypes DEF Base, NumberTypes, TimeInv, CallInTime
<1> QED
    BY <1>1, <1>2, <1>3, InvariantHolds, PTL DEF IInv, Spec

\* close() is part of every failure.
THEOREM FailuresClose == Spec => []OpenOnlyAfterSuccess
<1>1. Init => OpenOnlyAfterSuccess
    BY DEF Init, OpenOnlyAfterSuccess
<1>2. ASSUME OpenOnlyAfterSuccess, [Next]_vars PROVE OpenOnlyAfterSuccess'
  <2>1. CASE Call \/ Connect \/ Send \/ Close \/ Tick \/ Fails
    BY <1>2, <2>1 DEF OpenOnlyAfterSuccess, Call, Connect, Send, Close, Tick, Fails, Closed
  <2>2. CASE RouterStep \/ UNCHANGED vars
    BY <1>2, <2>2 DEF OpenOnlyAfterSuccess, RouterStep, Execute, Refuse, Stray, HangUp, client, vars
  <2>3. ASSUME NEW n \in 1..MaxWire,
               ReceiveOther(n) \/ \E i \in 1..MaxBuffer : ReceiveAnswer(n, i)
        PROVE  OpenOnlyAfterSuccess'
    BY <2>3 DEF OpenOnlyAfterSuccess, ReceiveOther, ReceiveAnswer, Reads
  <2> QED BY <1>2, <2>1, <2>2, <2>3, StepKinds
<1> QED
    BY <1>1, <1>2, PTL DEF Spec

\* Also where _ids wraps and 0 is passed over.
THEOREM IdsAlwaysDiffer == Spec => IdsDiffer
<1>1. ASSUME Base, Call PROVE message_id' \notin {0, message_id}
  <2>1. next_id \in Nat \ {0} /\ message_id = IdOf(next_id - 1)
    BY <1>1 DEF Base, Counters
  <2>2. message_id' \in 1..IdMask /\ message_id' # message_id
    BY <1>1, <2>1, FreshId DEF Call, Drawn
  <2> QED BY <2>2, ConstantTypes
<1>2. Base => (Call => message_id' \notin {0, message_id})
    BY <1>1
<1>3. Base /\ [Next]_vars => [Call => message_id' \notin {0, message_id}]_vars
    BY <1>2
<1> QED
    BY <1>3, InvariantHolds, PTL DEF IInv, Spec, IdsDiffer

\* Every call of request() returns the result of its own execution or fails, and
\* none is carried out twice: whatever frames arrive, a returned answer is the
\* first the Router gave to this very request.
THEOREM ClientImplementsRpc == Spec => ImplementsRpc
<1>1. Init => Contract!Init
    BY DEF Init, Contract!Init
<1>2. ASSUME Base, FrameInv, [Next]_vars
      PROVE  [Contract!Next]_(<<calls, phase # "idle", executed, result>>)
  <2> DEFINE open == phase # "idle"
             observed == <<calls, open, executed, result>>
  <2>1. CASE Call
    BY <2>1 DEF Call, router, Contract!Next, Contract!Call
  <2>2. CASE phase # "idle" /\ Fails
    BY <2>2 DEF Fails, router, Contract!Next, Contract!Fail
  <2>3. CASE Connect \/ Send \/ Close \/ Tick \/ UNCHANGED vars
    BY <2>3 DEF Connect, Send, Close, Tick, vars, client, router
  <2>4. ASSUME NEW n \in 1..MaxWire, ReceiveOther(n) PROVE UNCHANGED observed
    BY <2>4 DEF ReceiveOther, router
  <2>5. ASSUME NEW n \in 1..MaxWire, NEW i \in 1..MaxBuffer, ReceiveAnswer(n, i)
        PROVE  Contract!Return
    <3>1. TypeOK /\ Reads(n) /\ Len(Unpacked(n)) <= MaxBuffer
      BY <1>2, <2>5, TypeParts DEF Base, ReceiveAnswer
    <3>2. i \in 1..Len(Unpacked(n))
      BY <2>5, <3>1, ReceiveTypes DEF ReceiveAnswer, FirstEnd
    <3>3. Unpacked(n)[i] = Frames[i] /\ i \in DOMAIN Frames
      <4>1. Len(Unpacked(n)) = Len(buffer) + n /\ n <= Len(wire)
        BY <3>1, ReceiveTypes DEF Reads
      <4>2. Len(buffer) \in Nat /\ Len(wire) \in Nat
        BY <3>1, LenProperties DEF TypeOK
      <4>3. DOMAIN Frames = 1..Len(Frames) /\ Len(Frames) = Len(buffer) + Len(wire)
        BY <3>1, FramesHaveType
      <4>4. Unpacked(n)[i] = Frames[i]
        BY <3>1, <3>2, ReceiveTypes
      <4>5. i \in DOMAIN Frames
        BY <3>2, <4>1, <4>2, <4>3, ConstantTypes
      <4> QED BY <4>4, <4>5
    <3>4. Own(Frames[i], message_id) /\ Frames[i].ok
      BY <2>5, <3>3 DEF ReceiveAnswer, FirstEnd, Ends, Matches, Own
    <3>5. Frames[i].call = calls /\ calls \in executed
      BY <1>2, <3>3, <3>4 DEF FrameInv, OwnInv
    <3>6. result' = calls /\ phase = "waiting" /\ phase' = "idle"
          /\ UNCHANGED <<calls, executed>>
      BY <2>5, <3>1, <3>3, <3>5 DEF ReceiveAnswer, Reads, router
    <3> QED BY <3>5, <3>6 DEF Contract!Return
  <2>6. ASSUME NEW r \in held, Execute(r)
        PROVE  \E c \in (1..calls) \ executed : Contract!Execute(c)
    <3>1. r.call \in (1..calls) \ executed
      BY <1>2 DEF Base, NumberTypes, SetTypes, OnceInv
    <3>2. Contract!Execute(r.call)
      BY <2>6 DEF Execute, client, Contract!Execute
    <3> QED BY <3>1, <3>2
  <2>7. CASE RouterStep
    <3>1. ASSUME NEW r \in held, Refuse(r) PROVE UNCHANGED observed
      BY <3>1 DEF Refuse, client
    <3>2. ASSUME NEW f, Stray(f) PROVE UNCHANGED observed
      BY <3>2 DEF Stray, client
    <3>3. CASE HangUp
      BY <3>3 DEF HangUp, client, router
    <3> QED BY <2>6, <2>7, <3>1, <3>2, <3>3 DEF RouterStep, Contract!Next
  <2> QED BY <1>2, <2>1, <2>2, <2>3, <2>4, <2>5, <2>7, StepKinds DEF Contract!Next
<1> QED
    BY <1>1, <1>2, InvariantHolds, PTL DEF IInv, Spec, ImplementsRpc, Contract!Spec
=============================================================================
