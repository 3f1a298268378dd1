---------------------------- MODULE RouterClient ----------------------------
(***************************************************************************)
(* RouterBridge: a MessagePack-RPC client over a connection to the Arduino *)
(* Router that is kept from call to call and closed by any failure.  The   *)
(* Router is external: it may be away, hang up, lose a request, carry it   *)
(* out after the client gave it up, answer twice, and put frames of other  *)
(* kinds, or bytes that are no frame, between its answers.  A chunk read   *)
(* from the socket is a number of frames; a frame read in pieces counts    *)
(* when its last piece is read.                                            *)
(***************************************************************************)
EXTENDS Integers, Sequences

CONSTANTS
    IdMask,           \* 0xFFFFFFFF
    ConnectTimeout,   \* connect_timeout
    ResponseTimeout,  \* response_timeout
    MaxBuffer,        \* MAX_RPC_BUFFER, in frames
    MaxCalls,         \* bound: calls made
    MaxWire,          \* bound: frames on their way to the client
    MaxStrays         \* bound: frames that answer no call

ASSUME RouterClientAssumption ==
    /\ IdMask \in Nat /\ IdMask >= 2
    /\ ConnectTimeout \in Nat \ {0}
    /\ ResponseTimeout \in Nat \ {0}
    /\ MaxBuffer \in Nat \ {0}
    /\ MaxCalls \in Nat /\ MaxWire \in Nat /\ MaxStrays \in Nat

VARIABLES
    phase,         \* where request() is
    calls,         \* calls made so far; the one being made has this number
    message_id,    \* the id of that call
    next_id,       \* _ids
    left,          \* what remains of the timeout of the blocking call
    sock_timeout,  \* the timeout the socket was given last
    conn,          \* _socket: the number of the connection, 0 for None
    conns,         \* how many connections were made
    buffer,        \* frames in _unpacker that were not looked at
    failed,        \* last_error is not None
    wire,          \* frames sent by the Router on this connection, not read
    hung_up,       \* the Router has closed this connection
    held,          \* requests the Router has and the board has not
    executed,      \* the calls the board has carried out
    strays,        \* bound: stray frames so far
    result,        \* history: the call whose answer was returned last
    elapsed        \* history: how long the call has taken

client == <<phase, calls, message_id, next_id, left, sock_timeout, conn, conns,
            buffer, failed, result, elapsed>>
router == <<held, executed, strays>>
vars == <<client, wire, hung_up, router>>

\* The elements of a msgpack array that request() looks at; `call' is the call
\* an answer is the result of.  A request of the Router may carry any id.
Answer(id, call, ok) == [kind |-> "answer", id |-> id, call |-> call, ok |-> ok]
Request(id) == [kind |-> "request", id |-> id, call |-> 0, ok |-> TRUE]
Garbage == [kind |-> "garbage", id |-> 0, call |-> 0, ok |-> FALSE]
Frame ==
    [kind: {"answer", "request", "garbage"}, id: 0..IdMask, call: 0..MaxCalls,
     ok: BOOLEAN]
-----------------------------------------------------------------------------
Init ==
    /\ phase = "idle"
    /\ calls = 0 /\ message_id = 0 /\ next_id = 1
    /\ left = 0 /\ sock_timeout = 0
    /\ conn = 0 /\ conns = 0
    /\ buffer = <<>> /\ failed = FALSE
    /\ wire = <<>> /\ hung_up = FALSE
    /\ held = {} /\ executed = {}
    /\ strays = 0 /\ result = 0 /\ elapsed = 0

IdOf(n) == n % (IdMask + 1)
\* The number the next id is taken from: one that masks to 0 is passed over.
Drawn == IF IdOf(next_id) = 0 THEN next_id + 1 ELSE next_id

\* request(): a connection that is open is used as it is, with the timeout its
\* last recv was given.
Call ==
    /\ phase = "idle" /\ calls < MaxCalls
    /\ calls' = calls + 1
    /\ message_id' = IdOf(Drawn)
    /\ next_id' = Drawn + 1
    /\ IF conn = 0 THEN phase' = "connecting" /\ left' = ConnectTimeout
                   ELSE phase' = "sending" /\ left' = sock_timeout
    /\ UNCHANGED <<sock_timeout, conn, conns, buffer, failed, result, elapsed>>
    /\ UNCHANGED <<wire, hung_up, router>>

\* close(): whatever was on its way on this connection is gone.
Closed ==
    /\ conn' = 0 /\ buffer' = <<>> /\ wire' = <<>> /\ hung_up' = FALSE
    /\ sock_timeout' = 0
\* The except clauses of request().
Fails ==
    /\ phase' = "idle" /\ failed' = TRUE /\ left' = 0 /\ elapsed' = 0
    /\ Closed
    /\ UNCHANGED <<calls, message_id, next_id, conns, result, router>>

\* _connect.
Connect ==
    /\ phase = "connecting"
    /\ phase' = "sending"
    /\ conn' = conns + 1 /\ conns' = conns + 1
    /\ buffer' = <<>> /\ wire' = <<>> /\ hung_up' = FALSE
    /\ left' = ResponseTimeout /\ sock_timeout' = ResponseTimeout
    /\ UNCHANGED <<calls, message_id, next_id, failed, result, elapsed, router>>
ConnectRefused == phase = "connecting" /\ Fails

\* sendall, and the deadline set after it.
Send ==
    /\ phase = "sending" /\ ~hung_up
    /\ phase' = "waiting"
    /\ left' = ResponseTimeout /\ sock_timeout' = ResponseTimeout
    /\ held' = held \cup {[call |-> calls, id |-> message_id, conn |-> conn]}
    /\ UNCHANGED <<calls, message_id, next_id, conn, conns, buffer, failed,
                   result, elapsed, wire, hung_up, executed, strays>>
SendBroken == phase = "sending" /\ hung_up /\ Fails

\* Plausible bug: the first answer is taken for this call's.
Bug_AnyId(f) == f.kind = "answer"
\* The filters of the response loop.
Matches(f) == f.kind = "answer" /\ f.id = message_id

\* Plausible bug: every recv may take the whole response timeout.
Bug_FullWait == ResponseTimeout
\* The deadline is not moved by frames that are passed over.
Remaining == left

\* One recv, and the loop over what the unpacker then holds.  The loop ends at
\* the answer or at bytes that do not decode; what is behind stays for later.
Unpacked(n) == buffer \o SubSeq(wire, 1, n)
Ends(f) == f.kind = "garbage" \/ Matches(f)
FirstEnd(frames, i) ==
    /\ i \in DOMAIN frames
    /\ Ends(frames[i])
    /\ \A j \in 1..(i - 1) : ~Ends(frames[j])
NoEnd(frames) == \A i \in DOMAIN frames : ~Ends(frames[i])

Reads(n) == phase = "waiting" /\ n <= Len(wire) /\ n <= MaxBuffer
ReceiveOther(n) ==
    /\ Reads(n) /\ Len(Unpacked(n)) <= MaxBuffer
    /\ NoEnd(Unpacked(n)) /\ left > 0
    /\ buffer' = <<>> /\ wire' = SubSeq(wire, n + 1, Len(wire))
    /\ left' = Remaining /\ sock_timeout' = Remaining
    /\ UNCHANGED <<phase, calls, message_id, next_id, conn, conns, failed, result,
                   elapsed, hung_up, router>>
ReceiveAnswer(n, i) ==
    /\ Reads(n) /\ Len(Unpacked(n)) <= MaxBuffer
    /\ FirstEnd(Unpacked(n), i)
    /\ Unpacked(n)[i].kind = "answer" /\ Unpacked(n)[i].ok
    /\ phase' = "idle" /\ failed' = FALSE /\ left' = 0 /\ elapsed' = 0
    /\ result' = Unpacked(n)[i].call
    /\ buffer' = SubSeq(Unpacked(n), i + 1, Len(Unpacked(n)))
    /\ wire' = SubSeq(wire, n + 1, Len(wire))
    /\ UNCHANGED <<calls, message_id, next_id, sock_timeout, conn, conns,
                   hung_up, router>>
\* Too much for the unpacker, an error, no MessagePack, or no time left to
\* read on.
ReceiveFails(n) ==
    /\ Reads(n)
    /\ \/ Len(Unpacked(n)) > MaxBuffer
       \/ NoEnd(Unpacked(n)) /\ left = 0
       \/ \E i \in DOMAIN Unpacked(n) :
             FirstEnd(Unpacked(n), i) /\ ~Unpacked(n)[i].ok
    /\ Fails
Receive(n) ==
    \/ ReceiveOther(n) \/ ReceiveFails(n)
    \/ \E i \in 1..MaxBuffer : ReceiveAnswer(n, i)

\* recv returns nothing, or the connection was reset.
Disconnected == phase = "waiting" /\ hung_up /\ Fails

\* Plausible bug: connecting has no timeout of its own.
Bug_ConnectWaits == phase \in {"sending", "waiting"} /\ left = 0 /\ Fails
\* connect, sendall or recv used up its timeout.
TimesOut == phase # "idle" /\ left = 0 /\ Fails

\* close() between two calls.
Close ==
    /\ phase = "idle" /\ conn # 0
    /\ Closed
    /\ UNCHANGED <<phase, calls, message_id, next_id, left, conns, failed,
                   result, elapsed, router>>

Tick ==
    /\ phase # "idle" /\ left > 0
    /\ left' = left - 1 /\ elapsed' = elapsed + 1
    /\ UNCHANGED <<phase, calls, message_id, next_id, sock_timeout, conn, conns,
                   buffer, failed, result, wire, hung_up, router>>
-----------------------------------------------------------------------------
(* The Router and the board.                                                *)
Sends(frames) ==
    /\ Len(wire) + Len(frames) <= MaxWire
    /\ wire' = wire \o frames
Reaches(r) == r.conn = conn /\ ~hung_up

\* A request is carried out; if its connection is still there it is answered,
\* perhaps twice.
Execute(r) ==
    /\ held' = held \ {r} /\ executed' = executed \cup {r.call}
    /\ \/ UNCHANGED wire
       \/ /\ Reaches(r)
          /\ \E n \in 1..2 : Sends([i \in 1..n |-> Answer(r.id, r.call, TRUE)])
    /\ UNCHANGED <<client, hung_up, strays>>
\* The Router answers with an error, or the request is lost.
Refuse(r) ==
    /\ held' = held \ {r}
    /\ \/ UNCHANGED wire
       \/ Reaches(r) /\ Sends(<<Answer(r.id, r.call, FALSE)>>)
    /\ UNCHANGED <<client, hung_up, executed, strays>>
Stray(f) ==
    /\ conn # 0 /\ ~hung_up /\ strays < MaxStrays
    /\ Sends(<<f>>)
    /\ strays' = strays + 1
    /\ UNCHANGED <<client, hung_up, held, executed>>
HangUp ==
    /\ conn # 0 /\ ~hung_up
    /\ hung_up' = TRUE
    /\ UNCHANGED <<client, wire, router>>

ClientStep ==
    \/ Connect \/ ConnectRefused \/ Send \/ SendBroken \/ Disconnected
    \/ \E n \in 1..MaxWire : Receive(n)
RouterStep ==
    \/ \E r \in held : Execute(r) \/ Refuse(r)
    \/ \E f \in {Request(id) : id \in 0..IdMask} \cup {Garbage} : Stray(f)
    \/ HangUp
Next == Call \/ ClientStep \/ TimesOut \/ Close \/ Tick \/ RouterStep

\* Only the client's own timeouts are sure to happen.
Spec == Init /\ [][Next]_vars /\ WF_vars(Tick) /\ WF_vars(TimesOut)
-----------------------------------------------------------------------------
TypeOK ==
    /\ phase \in {"idle", "connecting", "sending", "waiting"}
    /\ calls \in 0..MaxCalls /\ message_id \in 0..IdMask /\ next_id \in Nat
    /\ left \in 0..(ConnectTimeout + ResponseTimeout)
    /\ sock_timeout \in 0..ResponseTimeout
    /\ conns \in 0..MaxCalls /\ conn \in {0, conns}
    /\ wire \in Seq(Frame) /\ Len(wire) <= MaxWire
    /\ buffer \in Seq(Frame) /\ Len(buffer) < MaxBuffer
    /\ failed \in BOOLEAN /\ hung_up \in BOOLEAN
    /\ held \subseteq [call: 1..MaxCalls, id: 0..IdMask, conn: 1..MaxCalls]
    /\ executed \subseteq 1..MaxCalls
    /\ strays \in 0..MaxStrays /\ result \in 0..MaxCalls
    /\ elapsed \in Nat

\* Every call ends with its own result or fails, whatever late, repeated or
\* foreign frames arrive on a connection that is kept from call to call.
Contract == INSTANCE Rpc WITH open <- phase # "idle"
ImplementsRpc == Contract!Spec

\* A call takes no longer than connecting, sending and waiting may take
\* together, whatever the Router sends in the meantime.
CallInTime == elapsed <= ConnectTimeout + 2 * ResponseTimeout

\* And so every call ends.
CallEnds == phase # "idle" ~> phase = "idle"

\* Between calls a connection is open only if the last call succeeded: what a
\* failed call leaves on its way never meets a later one.
OpenOnlyAfterSuccess == phase = "idle" /\ conn # 0 => ~failed

\* Two calls in a row differ in their ids, and none has the id 0, also where
\* the ids wrap.
IdsDiffer == [][Call => message_id' \notin {0, message_id}]_vars
=============================================================================
