--------------------------- MODULE ControlServer ---------------------------
(***************************************************************************)
(* The runtime sockets and the control protocol.  A daemon binds the event *)
(* and the control socket at fixed paths, accepts command-line clients and *)
(* serves them from one thread: a batch of ready descriptors at a time,    *)
(* one request and one response per connection.  Daemons, the service and  *)
(* any started by hand, may run one after the other or side by side, be    *)
(* stopped, or be killed between any two steps.                            *)
(*                                                                         *)
(* Datagrams are in Aggregator; of the event socket only the file matters  *)
(* here.  A request is two chunks of bytes; what becomes of it depends on  *)
(* its kind, and a `partial' one never gets its newline.                   *)
(***************************************************************************)
EXTENDS Naturals, FiniteSets

CONSTANTS
    Daemons,      \* processes that may run the daemon
    Service,      \* the one systemd starts
    Peers,        \* command-line clients
    Kinds,        \* the requests that each of them makes
    Absent,       \* no file, no connection, nothing to respond to
    Listener,     \* the control socket, in a batch
    MaxClients,   \* descriptors left for accepted clients
    Backlog,      \* listen(16)
    Budgets       \* bounds: how many daemons are started by somebody and are
                  \* killed, and how many calls each peer makes, together

Paths == {"events", "control"}
Kind == {"good", "partial", "malformed", "large"}
\* The connection of the n-th call of p is <<p, n>>.
Calls == UNION {{p} \X (1..b.calls[p]) : p \in Peers, b \in Budgets}
Connection ==
    [at: Daemons, open: BOOLEAN, kind: Kind, sent: 0..2, got: 0..2, gone: BOOLEAN]

ASSUME ControlServerAssumption ==
    /\ Service \in Daemons
    /\ Kinds \in [Peers -> SUBSET Kind \ {{}}]
    /\ {Absent, "stale"} \cap Daemons = {} /\ {Absent, Listener} \cap Calls = {}
    /\ Absent \notin Connection
    /\ MaxClients \in Nat \ {0} /\ Backlog \in Nat \ {0}
    /\ Budgets \subseteq [starts: Nat, kills: Nat, calls: [Peers -> Nat]]

VARIABLES
    path,      \* whose socket is at a path, or one that nobody holds: "stale"
    pc,        \* where a daemon is
    failed,    \* the service ended last, or is ending, by itself or by a kill
    stopping,  \* ~running
    batch,     \* what select returned and is still to be handled
    busy,      \* the call that was carried out and not responded to
    link,      \* connections: in the backlog, or `open': in self.clients
    phase,     \* where a peer's request() is
    calls,     \* how many calls it made
    kind,      \* the request it is making
    reply,     \* the response on its way to it
    executed,  \* its calls that were carried out
    result,    \* history: its call that succeeded last
    left,      \* what is left of the budget
    alone      \* history: no other daemon existed since this one started

process == <<path, pc, failed, left, alone>>
loop == <<stopping, batch, busy>>
peer == <<phase, calls, kind, result>>
vars == <<process, loop, link, peer, reply, executed>>

Alive(d) == pc[d] \notin {"down", "exited"}
Links(d) == {k \in Calls : link[k] # Absent /\ link[k].at = d}
Clients(d) == {k \in Links(d) : link[k].open}
Waiting(d) == Links(d) \ Clients(d)
-----------------------------------------------------------------------------
Init ==
    /\ path = [s \in Paths |-> Absent]
    /\ pc = [d \in Daemons |-> "down"] /\ failed = FALSE
    /\ stopping = [d \in Daemons |-> FALSE]
    /\ batch = [d \in Daemons |-> {}] /\ busy = [d \in Daemons |-> Absent]
    /\ link = [k \in Calls |-> Absent]
    /\ phase = [p \in Peers |-> "idle"] /\ calls = [p \in Peers |-> 0]
    /\ kind = [p \in Peers |-> "good"] /\ reply = [p \in Peers |-> "none"]
    /\ executed = [p \in Peers |-> {}] /\ result = [p \in Peers |-> 0]
    /\ left \in Budgets
    /\ alone = [d \in Daemons |-> FALSE]

(* The life of a process.                                                   *)
At(d, place) == pc' = [pc EXCEPT ![d] = place]
Begin(d) ==
    /\ pc[d] = "down" /\ At(d, "open_events")
    /\ alone' = [x \in Daemons |-> x = d /\ \A y \in Daemons : pc[y] = "down"]
    /\ UNCHANGED <<path, failed, loop, link, peer, reply, executed>>
Start(d) == Begin(d) /\ left.starts > 0 /\ left' = [left EXCEPT !.starts = @ - 1]
\* Plausible bug: no Restart= in the unit.
Bug_Restarts == FALSE
\* Restart=on-failure.
Restarts == failed
Restart ==
    /\ Restarts /\ Begin(Service) /\ UNCHANGED left

\* The kernel closes what a process held; the files of its sockets remain.
Ends(d) ==
    /\ At(d, IF d = Service THEN "exited" ELSE "down")
    /\ stopping' = [stopping EXCEPT ![d] = FALSE]
    /\ batch' = [batch EXCEPT ![d] = {}] /\ busy' = [busy EXCEPT ![d] = Absent]
    /\ link' = [k \in Calls |-> IF k \in Links(d) THEN Absent ELSE link[k]]
    /\ alone' = [alone EXCEPT ![d] = FALSE]
    /\ UNCHANGED <<peer, reply, executed>>
Fails(d) ==
    /\ Ends(d)
    /\ failed' = (failed \/ d = Service)
    /\ path' = [s \in Paths |-> IF path[s] = d THEN "stale" ELSE path[s]]
Kill(d) ==
    /\ Alive(d) /\ left.kills > 0
    /\ left' = [left EXCEPT !.kills = @ - 1]
    /\ Fails(d)
\* An exception in setup(), which nothing in run() catches.
SetupFails(d) == Fails(d) /\ UNCHANGED left
\* RuntimeDirectory= is removed when the service has ended.
Cleanup ==
    /\ pc[Service] = "exited" /\ At(Service, "down")
    /\ path' = [s \in Paths |-> Absent]
    /\ UNCHANGED <<failed, left, alone, loop, link, peer, reply,
                   executed>>

(* setup().                                                                 *)
Proceed(d, place) ==
    /\ At(d, place)
    /\ UNCHANGED <<failed, left, alone, loop, link, peer, reply,
                   executed>>
\* CodexHooksSource.open: a file that vanishes after the look is an error.
LookAtEvents(d) ==
    /\ pc[d] = "open_events"
    /\ Proceed(d, IF path["events"] = Absent THEN "bind_events" ELSE "unlink_events")
    /\ UNCHANGED path
UnlinkEvents(d) ==
    /\ pc[d] = "unlink_events"
    /\ IF path["events"] = Absent THEN SetupFails(d)
       ELSE path' = [path EXCEPT !["events"] = Absent] /\ Proceed(d, "bind_events")
Bind(d, s, next) ==
    IF path[s] # Absent THEN SetupFails(d)
    ELSE path' = [path EXCEPT ![s] = d] /\ Proceed(d, next)
BindEvents(d) == pc[d] = "bind_events" /\ Bind(d, "events", "remove_control")
\* Plausible bug: a socket left by another process is not removed.
Bug_RemoveSocket == path
RemoveSocket == [path EXCEPT !["control"] = Absent]
RemoveControl(d) ==
    /\ pc[d] = "remove_control"
    /\ path' = RemoveSocket /\ Proceed(d, "bind_control")
BindControl(d) == pc[d] = "bind_control" /\ Bind(d, "control", "serving")
Setup(d) ==
    \/ LookAtEvents(d) \/ UnlinkEvents(d) \/ BindEvents(d)
    \/ RemoveControl(d) \/ BindControl(d)

(* stop() and close().                                                      *)
\* Plausible bug: the handler closes the sockets itself.
Bug_Stop(d) ==
    /\ pc[d] = "serving" /\ ~stopping[d]
    /\ stopping' = [stopping EXCEPT ![d] = TRUE]
    /\ path' = [s \in Paths |-> Absent]
    /\ UNCHANGED <<pc, failed, left, alone, batch, busy, link,
                   peer, reply, executed>>
\* A signal; one that is handled in setup() has no effect, as in Publisher.
Stop(d) ==
    /\ pc[d] = "serving" /\ ~stopping[d]
    /\ stopping' = [stopping EXCEPT ![d] = TRUE]
    /\ UNCHANGED <<process, batch, busy, link, peer, reply, executed>>
\* close() up to the wait for the quota source: whoever's socket it is, the
\* file of the event socket goes.
BeginClose(d, by_itself) ==
    /\ At(d, "closing")
    /\ failed' = IF d = Service THEN by_itself ELSE failed
    /\ path' = [path EXCEPT !["events"] = Absent]
    /\ batch' = [batch EXCEPT ![d] = {}]
    /\ link' = [k \in Calls |-> IF k \in Clients(d) THEN Absent ELSE link[k]]
    /\ UNCHANGED <<stopping, busy, left, alone, peer, reply, executed>>
LeaveLoop(d) ==
    /\ pc[d] = "serving" /\ stopping[d] /\ batch[d] = {} /\ busy[d] = Absent
    /\ BeginClose(d, FALSE)
EndClose(d) ==
    /\ pc[d] = "closing" /\ Ends(d)
    /\ path' = [path EXCEPT !["control"] = Absent]
    /\ UNCHANGED <<failed, left>>
-----------------------------------------------------------------------------
(* The loop.                                                                *)
Handles(d, x) == pc[d] = "serving" /\ busy[d] = Absent /\ x \in batch[d]
Handled(d, x) == batch' = [batch EXCEPT ![d] = @ \ {x}]

Unread(k) == link[k].sent > link[k].got
\* Plausible bug: nobody is accepted while a client is connected.
Bug_Ready(d) ==
    {k \in Clients(d) : Unread(k) \/ link[k].gone}
        \cup (IF Waiting(d) = {} \/ Clients(d) # {} THEN {} ELSE {Listener})
Ready(d) ==
    {k \in Clients(d) : Unread(k) \/ link[k].gone}
        \cup (IF Waiting(d) = {} THEN {} ELSE {Listener})
Select(d) ==
    /\ pc[d] = "serving" /\ ~stopping[d]
    /\ batch[d] = {} /\ busy[d] = Absent /\ Ready(d) # {}
    /\ batch' = [batch EXCEPT ![d] = Ready(d)]
    /\ UNCHANGED <<process, stopping, busy, link, peer, reply, executed>>

AcceptClient(d) ==
    /\ Handles(d, Listener) /\ Cardinality(Clients(d)) < MaxClients
    /\ \E k \in Waiting(d) : link' = [link EXCEPT ![k].open = TRUE]
    /\ Handled(d, Listener)
    /\ UNCHANGED <<process, stopping, busy, peer, reply, executed>>
\* No descriptor is left: the OSError of accept() ends the loop.
AcceptFails(d) ==
    /\ Handles(d, Listener) /\ Cardinality(Clients(d)) >= MaxClients
    /\ BeginClose(d, TRUE)

\* _send_response: an answer for a client that has hung up is dropped.
Respond(k, answer) ==
    /\ link' = [link EXCEPT ![k] = Absent]
    /\ reply' = IF link[k].gone THEN reply ELSE [reply EXCEPT ![k[1]] = answer]

Complete(k, bytes) == bytes = 2
Obeyed(k) == link[k].kind = "good"

\* _read_client, by what recv returns: a part of a request, ...
ReadPart(d, k, bytes) ==
    /\ Handles(d, k) /\ bytes \in (link[k].got + 1)..link[k].sent
    /\ ~Complete(k, bytes)
    /\ link' = [link EXCEPT ![k].got = bytes]
    /\ Handled(d, k)
    /\ UNCHANGED <<process, stopping, busy, peer, reply, executed>>
\* ... the end of one that is carried out, while the client waits, ...
Obey(d, k) ==
    /\ Handles(d, k) /\ Unread(k)
    /\ Complete(k, link[k].sent) /\ Obeyed(k)
    /\ busy' = [busy EXCEPT ![d] = k]
    /\ executed' = [executed EXCEPT ![k[1]] = @ \cup {k[2]}]
    /\ link' = [link EXCEPT ![k].got = link[k].sent]
    /\ Handled(d, k)
    /\ UNCHANGED <<process, stopping, peer, reply>>
\* Plausible bug: whatever was asked, the answer is that it was done.
Bug_Refusal == "ok"
Refusal == "error"
\* ... the end of one that is not understood or too large, ...
Refuse(d, k) ==
    /\ Handles(d, k) /\ Unread(k)
    /\ Complete(k, link[k].sent) /\ ~Obeyed(k)
    /\ Respond(k, Refusal)
    /\ Handled(d, k)
    /\ UNCHANGED <<process, stopping, busy, peer, executed>>
Hangup(k) == [link EXCEPT ![k] = Absent]
\* ... or the end of the stream.
ReadEnd(d, k) ==
    /\ Handles(d, k) /\ ~Unread(k)
    /\ link' = Hangup(k)
    /\ Handled(d, k)
    /\ UNCHANGED <<process, stopping, busy, peer, reply, executed>>
Answer(d) ==
    /\ busy[d] # Absent
    /\ Respond(busy[d], "ok")
    /\ busy' = [busy EXCEPT ![d] = Absent]
    /\ UNCHANGED <<process, stopping, batch, peer, executed>>

Iterate(d) ==
    \/ Select(d) \/ AcceptClient(d) \/ AcceptFails(d) \/ Answer(d)
    \/ \E k \in Clients(d) :
          \/ Obey(d, k) \/ Refuse(d, k) \/ ReadEnd(d, k)
          \/ \E bytes \in 1..2 : ReadPart(d, k, bytes)
-----------------------------------------------------------------------------
(* request() of a command-line client.                                      *)
This(p) == <<p, calls[p]>>
Linked(p) == phase[p] = "waiting" /\ link[This(p)] # Absent
In(p, place) == phase' = [phase EXCEPT ![p] = place]

Request(p, x) ==
    /\ phase[p] = "idle" /\ left.calls[p] > 0
    /\ In(p, "connecting")
    /\ calls' = [calls EXCEPT ![p] = @ + 1] /\ kind' = [kind EXCEPT ![p] = x]
    /\ left' = [left EXCEPT !.calls[p] = @ - 1]
    /\ UNCHANGED <<path, pc, failed, alone, loop, link, result, reply, executed>>
Server == path["control"]
Accepts == Server \in Daemons /\ Cardinality(Waiting(Server)) < Backlog
Connect(p) ==
    /\ phase[p] = "connecting" /\ Accepts
    /\ In(p, "waiting")
    /\ link' = [link EXCEPT ![This(p)] =
                  [at |-> Server, open |-> FALSE, kind |-> kind[p], sent |-> 0,
                   got |-> 0, gone |-> FALSE]]
    /\ UNCHANGED <<process, loop, calls, kind, result, reply, executed>>
Chunks(x) == IF x = "partial" THEN 1 ELSE 2
Send(p) ==
    /\ Linked(p) /\ link[This(p)].sent < Chunks(kind[p])
    /\ link' = [link EXCEPT ![This(p)].sent = @ + 1]
    /\ UNCHANGED <<process, loop, peer, reply, executed>>

\* The call is over: the socket is closed in any case.
Over(p) ==
    /\ In(p, "idle") /\ kind' = [kind EXCEPT ![p] = "good"]
    /\ reply' = [reply EXCEPT ![p] = "none"]
    /\ link' = IF Linked(p) THEN [link EXCEPT ![This(p)].gone = TRUE] ELSE link
    /\ UNCHANGED <<process, loop, calls, executed>>
Succeed(p) ==
    /\ reply[p] = "ok" /\ Over(p)
    /\ result' = [result EXCEPT ![p] = calls[p]]
\* Nobody listens, the answer is an error, or the connection ends without one.
Fail(p) ==
    /\ \/ phase[p] = "connecting" /\ ~Accepts
       \/ reply[p] = "error"
       \/ phase[p] = "waiting" /\ ~Linked(p) /\ reply[p] = "none"
    /\ Over(p) /\ UNCHANGED result
\* The two seconds are over, or somebody interrupts the client.
GiveUp(p) == phase[p] # "idle" /\ Over(p) /\ UNCHANGED result

PeerStep(p) == Connect(p) \/ Send(p) \/ Succeed(p) \/ Fail(p)
DaemonStep(d) == Setup(d) \/ Iterate(d) \/ LeaveLoop(d) \/ EndClose(d)
Next ==
    \/ \E d \in Daemons : DaemonStep(d) \/ Start(d) \/ Kill(d) \/ Stop(d)
    \/ Restart \/ Cleanup
    \/ \E p \in Peers : PeerStep(p) \/ GiveUp(p) \/ \E x \in Kinds[p] : Request(p, x)

\* Processes run, systemd does its part, and clients read what they are sent;
\* nobody has to start, stop, kill or give up anything.
Spec ==
    /\ Init /\ [][Next]_vars
    /\ \A d \in Daemons : WF_vars(DaemonStep(d))
    /\ WF_vars(Restart) /\ WF_vars(Cleanup)
    /\ \A p \in Peers : WF_vars(PeerStep(p))
-----------------------------------------------------------------------------
TypeOK ==
    /\ path \in [Paths -> Daemons \cup {Absent, "stale"}]
    /\ pc \in [Daemons -> {"down", "open_events", "unlink_events", "bind_events",
                           "remove_control", "bind_control", "serving", "closing",
                           "exited"}]
    /\ failed \in BOOLEAN /\ stopping \in [Daemons -> BOOLEAN]
    /\ link \in [Calls -> Connection \cup {Absent}]
    /\ \A d \in Daemons :
          /\ batch[d] \subseteq Clients(d) \cup {Listener}
          /\ busy[d] \in Clients(d) \cup {Absent}
          /\ Cardinality(Clients(d)) <= MaxClients
          \* A buffer holds no more than a part of a request.
          /\ \A k \in Links(d) : link[k].got <= 1 \/ k = busy[d]
    /\ phase \in [Peers -> {"idle", "connecting", "waiting"}]
    /\ kind \in [Peers -> Kind] /\ reply \in [Peers -> {"none", "ok", "error"}]
    /\ \A p \in Peers :
          /\ calls[p] \in Nat /\ result[p] \in 0..calls[p]
          /\ executed[p] \subseteq 1..calls[p]
    /\ left \in [starts: Nat, kills: Nat, calls: [Peers -> Nat]]
    /\ alone \in [Daemons -> BOOLEAN]

\* As long as no second daemon was started beside it, a daemon that serves is
\* where hooks and clients look for it, whatever its predecessors left.
ReachableWhenAlone ==
    \A d \in Daemons : pc[d] = "serving" /\ alone[d] => \A s \in Paths : path[s] = d

\* Each client's calls keep the contract of RouterBridge.request: success means
\* that this very command was carried out, and failure says nothing of it.
Contract(p) == INSTANCE Rpc WITH calls <- calls[p], open <- phase[p] # "idle",
                                 executed <- executed[p], result <- result[p]
Call(p) == <<calls[p], phase[p] # "idle", executed[p], result[p]>>
ImplementsRpc ==
    /\ \A p \in Peers : Contract(p)!Init
    /\ [][\A p \in Peers : [Contract(p)!Next]_(Call(p))]_vars

\* A client that makes a complete request is answered, or loses its connection,
\* however many others are connected and silent.
CallEnds ==
    \A p \in Peers : phase[p] # "idle" /\ kind[p] # "partial" ~> phase[p] = "idle"

\* A daemon that is started alone always comes up, whatever a killed one left.
AloneComesUp ==
    [][\A d \in Daemons : alone[d] /\ Alive(d) /\ pc[d] \notin {"serving", "closing"}
          => Alive(d)' \/ left'.kills < left.kills]_vars

\* A service that fails serves again, whatever made it fail: a kill, a second
\* daemon, or clients that took all of its descriptors.
ServiceComesBack ==
    pc[Service] = "down" /\ failed ~> pc[Service] = "serving"
=============================================================================
