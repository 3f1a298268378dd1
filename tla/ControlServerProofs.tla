------------------------- MODULE ControlServerProofs -------------------------
(***************************************************************************)
(* The runtime sockets and the control protocol, for any number of daemons *)
(* and clients, any kinds of requests and any kills, starts and stops.     *)
(*                                                                         *)
(* Two arguments that have little to do with each other.  A daemon that    *)
(* has been alone since its start finds at each step of setup() what the   *)
(* step before left (AloneInv).  And an answer that reaches a client is    *)
(* the answer to its present call, because a connection that the client    *)
(* has not closed is the one of that call (OwnInv), and the daemon answers *)
(* only what it has carried out (BusyInv, ReplyInv).                       *)
(***************************************************************************)
EXTENDS ControlServer, FiniteSetTheorems, TLAPS

Places == {"down", "open_events", "unlink_events", "bind_events",
           "remove_control", "bind_control", "serving", "closing", "exited"}
\* Setup, after the event socket has been bound.
EventsBound == {"remove_control", "bind_control", "serving"}

ProcessType ==
    /\ path \in [Paths -> Daemons \cup {Absent, "stale"}]
    /\ pc \in [Daemons -> Places]
    /\ failed \in BOOLEAN /\ stopping \in [Daemons -> BOOLEAN]
    /\ alone \in [Daemons -> BOOLEAN]
    /\ left \in [starts: Nat, kills: Nat, calls: [Peers -> Nat]]

\* While a daemon is alone nobody else touches the paths.
AloneInv ==
    \A d \in Daemons : alone[d] =>
        /\ Alive(d) /\ \A y \in Daemons \ {d} : pc[y] = "down"
        /\ pc[d] = "unlink_events" => path["events"] # Absent
        /\ pc[d] = "bind_events" => path["events"] = Absent
        /\ pc[d] \in EventsBound => path["events"] = d
        /\ pc[d] = "bind_control" => path["control"] = Absent
        /\ pc[d] = "serving" => path["control"] = d

ProcessInv == ProcessType /\ AloneInv
-----------------------------------------------------------------------------
LEMMA ProcessInit == Init => ProcessInv
<1> SUFFICES ASSUME Init PROVE ProcessInv
    OBVIOUS
<1>1. left \in [starts: Nat, kills: Nat, calls: [Peers -> Nat]]
    BY ControlServerAssumption DEF Init
<1>2. ProcessType
    BY <1>1 DEF Init, ProcessType, Places
<1>3. AloneInv
    BY DEF Init, AloneInv
<1> QED
    BY <1>2, <1>3 DEF ProcessInv

LEMMA BeginKeepsProcess ==
    ASSUME ProcessInv, NEW d \in Daemons, Start(d) \/ (Restart /\ d = Service)
    PROVE  ProcessInv'
<1>1. ProcessType /\ AloneInv
    BY DEF ProcessInv
<1>2. Begin(d) /\ (left' = left \/ (left.starts > 0 /\ left' = [left EXCEPT !.starts = @ - 1]))
    BY DEF Start, Restart
<1>3. ProcessType'
    BY <1>1, <1>2 DEF ProcessType, Begin, At, loop, Places
<1>4. AloneInv'
  <2>1. /\ pc[d] = "down" /\ pc' = [pc EXCEPT ![d] = "open_events"]
        /\ \A x \in Daemons :
              alone'[x] = (x = d /\ \A y \in Daemons : pc[y] = "down")
        /\ path' = path /\ pc \in [Daemons -> Places]
    BY <1>1, <1>2 DEF Begin, At, ProcessType
  <2> QED
    BY <2>1 DEF AloneInv, Alive, EventsBound
<1> QED
    BY <1>3, <1>4 DEF ProcessInv

\* A process that ends takes nothing away from one that is alone.
LEMMA EndKeepsProcess ==
    ASSUME ProcessInv, NEW d \in Daemons, Ends(d), failed' \in BOOLEAN,
           path' \in [Paths -> Daemons \cup {Absent, "stale"}],
           left' \in [starts: Nat, kills: Nat, calls: [Peers -> Nat]],
           Alive(d)
    PROVE  ProcessInv'
<1>1. ProcessType /\ AloneInv
    BY DEF ProcessInv
<1>2. /\ pc' = [pc EXCEPT ![d] = IF d = Service THEN "exited" ELSE "down"]
      /\ stopping' = [stopping EXCEPT ![d] = FALSE]
      /\ alone' = [alone EXCEPT ![d] = FALSE]
    BY DEF Ends, At
<1>3. ProcessType'
    BY <1>1, <1>2 DEF ProcessType, Places
<1>4. \A x \in Daemons : ~alone'[x]
  <2> SUFFICES ASSUME NEW x \in Daemons, alone[x], x # d PROVE FALSE
    BY <1>1, <1>2 DEF ProcessType
  <2>1. pc[d] = "down"
    BY <1>1 DEF AloneInv
  <2> QED
    BY <2>1 DEF Alive
<1> QED
    BY <1>3, <1>4 DEF ProcessInv, AloneInv

\* A step of a daemon that goes on; of one that is alone, nobody else is up.
LEMMA MoveKeepsProcess ==
    ASSUME ProcessInv, NEW d \in Daemons, Alive(d), NEW place \in Places,
           At(d, place), place \notin {"down", "exited"},
           UNCHANGED <<alone, left>>, failed' \in BOOLEAN,
           stopping' \in [Daemons -> BOOLEAN],
           path' \in [Paths -> Daemons \cup {Absent, "stale"}],
           alone[d] =>
               /\ place = "unlink_events" => path'["events"] # Absent
               /\ place = "bind_events" => path'["events"] = Absent
               /\ place \in EventsBound => path'["events"] = d
               /\ place = "bind_control" => path'["control"] = Absent
               /\ place = "serving" => path'["control"] = d
    PROVE  ProcessInv'
<1>1. ProcessType /\ AloneInv
    BY DEF ProcessInv
<1>2. pc' = [pc EXCEPT ![d] = place] /\ pc \in [Daemons -> Places]
    BY <1>1 DEF At, ProcessType
<1>3. ProcessType'
    BY <1>1, <1>2 DEF ProcessType
<1>4. AloneInv'
  <2> SUFFICES ASSUME NEW x \in Daemons, alone[x]
               PROVE  /\ Alive(x)' /\ \A y \in Daemons \ {x} : pc'[y] = "down"
                      /\ pc'[x] = "unlink_events" => path'["events"] # Absent
                      /\ pc'[x] = "bind_events" => path'["events"] = Absent
                      /\ pc'[x] \in EventsBound => path'["events"] = x
                      /\ pc'[x] = "bind_control" => path'["control"] = Absent
                      /\ pc'[x] = "serving" => path'["control"] = x
    BY DEF AloneInv
  <2>1. x = d /\ \A y \in Daemons \ {d} : pc[y] = "down"
    BY <1>1 DEF AloneInv, Alive
  <2> QED
    BY <2>1, <1>2 DEF Alive
<1> QED
    BY <1>3, <1>4 DEF ProcessInv

LEMMA SetupKeepsProcess ==
    ASSUME ProcessInv, NEW d \in Daemons, Setup(d)
    PROVE  ProcessInv' /\ (alone[d] => Alive(d)')
<1>1. ProcessType /\ AloneInv
    BY DEF ProcessInv
<1>2. Alive(d) /\ Absent \notin Daemons /\ pc \in [Daemons -> Places]
    BY <1>1, ControlServerAssumption
    DEF Setup, LookAtEvents, UnlinkEvents, BindEvents, RemoveControl,
        BindControl, Alive, ProcessType
<1>3. ASSUME SetupFails(d) PROVE ProcessInv'
  <2>1. /\ Ends(d) /\ failed' \in BOOLEAN /\ left' = left
        /\ path' \in [Paths -> Daemons \cup {Absent, "stale"}]
    BY <1>1, <1>3 DEF SetupFails, Fails, ProcessType
  <2> QED
    BY <1>1, <1>2, <2>1, EndKeepsProcess DEF ProcessType
<1>4. ASSUME NEW place \in Places \ {"down", "exited"}, Proceed(d, place)
      PROVE  /\ At(d, place) /\ UNCHANGED <<alone, left>> /\ failed' \in BOOLEAN
             /\ stopping' \in [Daemons -> BOOLEAN] /\ Alive(d)'
    BY <1>1, <1>2, <1>4 DEF Proceed, ProcessType, loop, At, Alive
<1>5. CASE LookAtEvents(d)
  <2>1. PICK place \in {"bind_events", "unlink_events"} :
            /\ Proceed(d, place) /\ path' = path
            /\ place = "bind_events" <=> path["events"] = Absent
    BY <1>5 DEF LookAtEvents
  <2>2. place \in Places \ {"down", "exited"}
    BY DEF Places
  <2> QED
    BY <1>1, <1>2, <1>4, <2>1, <2>2, MoveKeepsProcess DEF ProcessType, EventsBound
<1>6. CASE UnlinkEvents(d)
  <2>1. CASE path["events"] = Absent
    <3>1. SetupFails(d) /\ ~alone[d]
      BY <1>1, <1>6, <2>1 DEF UnlinkEvents, AloneInv
    <3> QED
      BY <1>3, <3>1
  <2>2. CASE path["events"] # Absent
    <3>1. /\ path' = [path EXCEPT !["events"] = Absent]
          /\ Proceed(d, "bind_events")
          /\ "bind_events" \in Places \ {"down", "exited"}
      BY <1>6, <2>2 DEF UnlinkEvents, Places
    <3>2. /\ path' \in [Paths -> Daemons \cup {Absent, "stale"}]
          /\ path'["events"] = Absent
      BY <1>1, <3>1 DEF ProcessType, Paths
    <3> QED
      BY <1>2, <1>4, <3>1, <3>2, MoveKeepsProcess DEF EventsBound
  <2> QED
    BY <2>1, <2>2
<1>7. CASE BindEvents(d)
  <2>1. CASE path["events"] # Absent
    <3>1. SetupFails(d) /\ ~alone[d]
      BY <1>1, <1>7, <2>1 DEF BindEvents, Bind, AloneInv
    <3> QED
      BY <1>3, <3>1
  <2>2. CASE path["events"] = Absent
    <3>1. /\ path' = [path EXCEPT !["events"] = d]
          /\ Proceed(d, "remove_control")
          /\ "remove_control" \in Places \ {"down", "exited"}
      BY <1>7, <2>2 DEF BindEvents, Bind, Places
    <3>2. /\ path' \in [Paths -> Daemons \cup {Absent, "stale"}]
          /\ path'["events"] = d
      BY <1>1, <3>1 DEF ProcessType, Paths
    <3> QED
      BY <1>2, <1>4, <3>1, <3>2, MoveKeepsProcess DEF EventsBound
  <2> QED
    BY <2>1, <2>2
<1>8. CASE RemoveControl(d)
  <2>1. /\ path' = [path EXCEPT !["control"] = Absent]
        /\ Proceed(d, "bind_control") /\ pc[d] = "remove_control"
        /\ "bind_control" \in Places \ {"down", "exited"}
    BY <1>8 DEF RemoveControl, RemoveSocket, Places
  <2>2. /\ path' \in [Paths -> Daemons \cup {Absent, "stale"}]
        /\ path'["control"] = Absent /\ path'["events"] = path["events"]
    BY <1>1, <2>1 DEF ProcessType, Paths
  <2>3. alone[d] => path["events"] = d
    BY <1>1, <2>1 DEF AloneInv, EventsBound
  <2> QED
    BY <1>2, <1>4, <2>1, <2>2, <2>3, MoveKeepsProcess DEF EventsBound
<1>9. CASE BindControl(d)
  <2>1. CASE path["control"] # Absent
    <3>1. SetupFails(d) /\ ~alone[d]
      BY <1>1, <1>9, <2>1 DEF BindControl, Bind, AloneInv
    <3> QED
      BY <1>3, <3>1
  <2>2. CASE path["control"] = Absent
    <3>1. /\ path' = [path EXCEPT !["control"] = d] /\ pc[d] = "bind_control"
          /\ Proceed(d, "serving")
          /\ "serving" \in Places \ {"down", "exited"}
      BY <1>9, <2>2 DEF BindControl, Bind, Places
    <3>2. /\ path' \in [Paths -> Daemons \cup {Absent, "stale"}]
          /\ path'["control"] = d /\ path'["events"] = path["events"]
      BY <1>1, <3>1 DEF ProcessType, Paths
    <3>3. alone[d] => path["events"] = d
      BY <1>1, <3>1 DEF AloneInv, EventsBound
    <3> QED
      BY <1>2, <1>4, <3>1, <3>2, <3>3, MoveKeepsProcess DEF EventsBound
  <2> QED
    BY <2>1, <2>2
<1> QED
    BY <1>5, <1>6, <1>7, <1>8, <1>9 DEF Setup

LEMMA CloseKeepsProcess ==
    ASSUME ProcessInv, NEW d \in Daemons, NEW how \in BOOLEAN,
           pc[d] = "serving", BeginClose(d, how)
    PROVE  ProcessInv'
<1>1. ProcessType /\ Alive(d)
    BY DEF ProcessInv, Alive
<1>2. /\ At(d, "closing") /\ UNCHANGED <<alone, left>> /\ failed' \in BOOLEAN
      /\ stopping' \in [Daemons -> BOOLEAN]
      /\ path' \in [Paths -> Daemons \cup {Absent, "stale"}]
    BY <1>1 DEF BeginClose, ProcessType
<1>3. "closing" \in Places /\ "closing" \notin EventsBound
    BY DEF Places, EventsBound
<1> QED
    BY <1>1, <1>2, <1>3, MoveKeepsProcess

\* What leaves processes and paths alone.
LEMMA RestKeepsProcess ==
    ASSUME ProcessInv, UNCHANGED <<path, pc, failed, alone>>,
           stopping' \in [Daemons -> BOOLEAN],
           left' \in [starts: Nat, kills: Nat, calls: [Peers -> Nat]]
    PROVE  ProcessInv'
BY DEF ProcessInv, ProcessType, AloneInv, Alive

LEMMA ProcessStep == ProcessInv /\ [Next]_vars => ProcessInv'
<1> SUFFICES ASSUME ProcessInv, [Next]_vars PROVE ProcessInv'
    OBVIOUS
<1>1. ProcessType
    BY DEF ProcessInv
<1>2. ASSUME NEW d \in Daemons, Setup(d) PROVE ProcessInv'
    BY <1>2, SetupKeepsProcess
<1>3. ASSUME NEW d \in Daemons, Iterate(d) PROVE ProcessInv'
  <2>1. CASE AcceptFails(d)
    BY <2>1, CloseKeepsProcess DEF AcceptFails, Handles
  <2>2. CASE ~AcceptFails(d)
    <3>1. UNCHANGED <<path, pc, failed, alone, left, stopping>>
      BY <1>3, <2>2 DEF Iterate, Select, AcceptClient, Answer, Obey, Refuse,
                        ReadEnd, ReadPart, process
    <3> QED
      BY <1>1, <3>1, RestKeepsProcess DEF ProcessType
  <2> QED
    BY <2>1, <2>2
<1>4. ASSUME NEW d \in Daemons, LeaveLoop(d) PROVE ProcessInv'
    BY <1>4, CloseKeepsProcess DEF LeaveLoop
<1>5. ASSUME NEW d \in Daemons, EndClose(d) PROVE ProcessInv'
  <2>1. Alive(d) /\ Ends(d) /\ failed' = failed /\ left' = left
    BY <1>5 DEF EndClose, Alive
  <2>2. path' \in [Paths -> Daemons \cup {Absent, "stale"}]
    BY <1>1, <1>5 DEF EndClose, ProcessType
  <2> QED
    BY <1>1, <2>1, <2>2, EndKeepsProcess DEF ProcessType
<1>6. ASSUME NEW d \in Daemons, Start(d) \/ (Restart /\ d = Service)
      PROVE  ProcessInv'
    BY <1>6, BeginKeepsProcess
<1>7. ASSUME NEW d \in Daemons, Kill(d) PROVE ProcessInv'
  <2>1. Alive(d) /\ Ends(d) /\ failed' \in BOOLEAN
    BY <1>1, <1>7 DEF Kill, Fails, ProcessType
  <2>2. /\ path' \in [Paths -> Daemons \cup {Absent, "stale"}]
        /\ left' \in [starts: Nat, kills: Nat, calls: [Peers -> Nat]]
    BY <1>1, <1>7 DEF Kill, Fails, ProcessType
  <2> QED
    BY <2>1, <2>2, EndKeepsProcess
<1>8. ASSUME NEW d \in Daemons, Stop(d) PROVE ProcessInv'
  <2>1. /\ UNCHANGED <<path, pc, failed, alone, left>>
        /\ stopping' \in [Daemons -> BOOLEAN]
    BY <1>1, <1>8 DEF Stop, process, ProcessType
  <2> QED
    BY <1>1, <2>1, RestKeepsProcess DEF ProcessType
<1>9. CASE Cleanup
  <2>1. /\ pc[Service] = "exited" /\ pc' = [pc EXCEPT ![Service] = "down"]
        /\ path' = [s \in Paths |-> Absent]
        /\ UNCHANGED <<failed, left, alone, stopping>>
    BY <1>9 DEF Cleanup, At, loop
  <2>2. ProcessType'
    BY <1>1, <2>1 DEF ProcessType, Places
  <2>3. Service \in Daemons /\ "exited" # "down"
    BY ControlServerAssumption
  <2>4. \A x \in Daemons : ~alone[x]
    BY <2>1, <2>3 DEF ProcessInv, AloneInv, Alive
  <2> QED
    BY <2>1, <2>2, <2>4 DEF ProcessInv, AloneInv
<1>10. ASSUME NEW p \in Peers,
              PeerStep(p) \/ GiveUp(p) \/ \E x \in Kinds[p] : Request(p, x)
       PROVE  ProcessInv'
  <2>1. /\ UNCHANGED <<path, pc, failed, alone, stopping>>
        /\ \/ left' = left
           \/ left.calls[p] > 0 /\ left' = [left EXCEPT !.calls[p] = @ - 1]
    BY <1>10 DEF PeerStep, Connect, Send, Succeed, Fail, GiveUp, Over, Request,
                 process, loop
  <2>2. left' \in [starts: Nat, kills: Nat, calls: [Peers -> Nat]]
    BY <1>1, <2>1 DEF ProcessType
  <2> QED
    BY <1>1, <2>1, <2>2, RestKeepsProcess DEF ProcessType
<1>11. CASE UNCHANGED vars
    BY <1>1, <1>11, RestKeepsProcess DEF vars, process, loop, ProcessType
<1> QED
    BY <1>2, <1>3, <1>4, <1>5, <1>6, <1>7, <1>8, <1>9, <1>10, <1>11,
       ControlServerAssumption DEF Next, DaemonStep

LEMMA ProcessHolds == Spec => []ProcessInv
BY ProcessInit, ProcessStep, PTL DEF Spec
-----------------------------------------------------------------------------
(* Connections, calls and answers.                                         *)

LEMMA CallParts ==
    \A k \in Calls : k[1] \in Peers /\ k[2] \in Nat \ {0} /\ k = <<k[1], k[2]>>
<1> SUFFICES ASSUME NEW k \in Calls
             PROVE  k[1] \in Peers /\ k[2] \in Nat \ {0} /\ k = <<k[1], k[2]>>
    OBVIOUS
<1>1. PICK p \in Peers, b \in Budgets : k \in {p} \X (1..b.calls[p])
    BY DEF Calls
<1>2. b.calls[p] \in Nat
    BY ControlServerAssumption
<1> QED
    BY <1>1, <1>2

LEMMA CallOfBudget ==
    ASSUME NEW p \in Peers, NEW b \in Budgets, NEW n \in 1..b.calls[p]
    PROVE  <<p, n>> \in Calls
<1> DEFINE made == {{q} \X (1..c.calls[q]) : q \in Peers, c \in Budgets}
<1>1. {p} \X (1..b.calls[p]) \in made
    OBVIOUS
<1>2. <<p, n>> \in {p} \X (1..b.calls[p])
    OBVIOUS
<1>3. Calls = UNION made
    BY DEF Calls
<1> HIDE DEF made
<1> QED
    BY <1>1, <1>2, <1>3

PeerType ==
    /\ link \in [Calls -> Connection \cup {Absent}]
    /\ batch \in [Daemons -> SUBSET (Calls \cup {Listener})]
    /\ busy \in [Daemons -> Calls \cup {Absent}]
    /\ phase \in [Peers -> {"idle", "connecting", "waiting"}]
    /\ kind \in [Peers -> Kind] /\ reply \in [Peers -> {"none", "ok", "error"}]
    /\ calls \in [Peers -> Nat] /\ result \in [Peers -> Nat]
    /\ executed \in [Peers -> SUBSET Nat]

\* Calls are counted, and a call that is being made is one of those.
CountInv ==
    \A p \in Peers :
        /\ executed[p] \subseteq 1..calls[p] /\ result[p] <= calls[p]
        /\ phase[p] # "idle" => calls[p] > 0
\* Each call has its connection.
BudgetInv ==
    \E b \in Budgets : \A p \in Peers : left.calls[p] + calls[p] = b.calls[p]

\* What a daemon handles and carries out are requests of its clients.
ServedInv ==
    \A d \in Daemons :
        /\ batch[d] \subseteq Clients(d) \cup {Listener}
        /\ busy[d] \in Clients(d) \cup {Absent}
        /\ busy[d] # Absent => busy[d] \notin batch[d]
        /\ \A k \in Links(d) : link[k].got <= 1 \/ k = busy[d]
RoomInv ==
    \A d \in Daemons :
        IsFiniteSet(Clients(d)) /\ Cardinality(Clients(d)) <= MaxClients

\* A connection that its client has not closed is that of its present call.
OwnInv ==
    \A k \in Calls : link[k] # Absent =>
        /\ k[2] <= calls[k[1]]
        /\ phase[k[1]] = "connecting" => k[2] < calls[k[1]]
        /\ link[k].gone \/ (phase[k[1]] = "waiting" /\ k[2] = calls[k[1]])
\* The answer that is due or on its way is to a call that was carried out.
BusyInv ==
    \A d \in Daemons : busy[d] # Absent => busy[d][2] \in executed[busy[d][1]]
ReplyInv ==
    \A p \in Peers :
        /\ reply[p] # "none" => phase[p] = "waiting"
        /\ reply[p] = "ok" => calls[p] \in executed[p]

LinkInv ==
    /\ PeerType /\ CountInv /\ BudgetInv /\ ServedInv /\ RoomInv
    /\ OwnInv /\ BusyInv /\ ReplyInv

\* Plain facts of the constants and of what a connection is.
LEMMA Basics ==
    /\ Absent \notin Calls /\ Listener \notin Calls /\ Absent \notin Daemons
    /\ MaxClients \in Nat
    /\ \A d \in Daemons : Clients(d) \subseteq Links(d) /\ Links(d) \subseteq Calls
BY ControlServerAssumption DEF Clients, Links

LEMMA AbsentIsNoConnection == Absent \notin Connection
BY ControlServerAssumption

LEMMA LinkInit == Init => LinkInv
<1> SUFFICES ASSUME Init PROVE LinkInv
    OBVIOUS
<1>1. PeerType /\ CountInv
    BY DEF Init, PeerType, CountInv, Kind
<1>2. BudgetInv
  <2>1. left \in Budgets /\ \A p \in Peers : left.calls[p] \in Nat /\ calls[p] = 0
    BY ControlServerAssumption DEF Init
  <2> QED
    BY <2>1 DEF BudgetInv
<1>3. \A d \in Daemons : Links(d) = {} /\ Clients(d) = {}
    BY DEF Init, Links, Clients
<1>4. ServedInv
    BY <1>3 DEF Init, ServedInv
<1>5. RoomInv
    BY <1>3, Basics, FS_EmptySet DEF RoomInv
<1>6. OwnInv /\ BusyInv /\ ReplyInv
    BY DEF Init, OwnInv, BusyInv, ReplyInv
<1> QED
    BY <1>1, <1>2, <1>4, <1>5, <1>6 DEF LinkInv

\* Steps of processes, and those in which a daemon chooses what to do next.
LEMMA SelectKeepsLinks ==
    ASSUME LinkInv, UNCHANGED <<link, busy, peer, reply, executed>>,
           left'.calls = left.calls,
           \/ batch' = batch
           \/ \E d \in Daemons : Select(d)
    PROVE  LinkInv'
<1>1. PeerType /\ CountInv /\ BudgetInv /\ ServedInv /\ RoomInv
      /\ OwnInv /\ BusyInv /\ ReplyInv
    BY DEF LinkInv
<1>2. \A d \in Daemons : Links(d)' = Links(d) /\ Clients(d)' = Clients(d)
    BY DEF Links, Clients
<1>3. CountInv' /\ BudgetInv' /\ RoomInv' /\ OwnInv' /\ BusyInv' /\ ReplyInv'
    BY <1>1, <1>2 DEF peer, CountInv, BudgetInv, RoomInv, OwnInv, BusyInv, ReplyInv
<1>4. PeerType' /\ ServedInv'
  <2>1. CASE batch' = batch
    BY <1>1, <1>2, <2>1 DEF PeerType, ServedInv, peer
  <2>2. CASE \E d \in Daemons : Select(d)
    <3>1. PICK d \in Daemons : Select(d)
      BY <2>2
    <3>2. Ready(d) \subseteq Clients(d) \cup {Listener}
      BY DEF Ready
    <3>3. batch' = [batch EXCEPT ![d] = Ready(d)] /\ busy[d] = Absent
      BY <3>1 DEF Select
    <3>4. PeerType'
      BY <1>1, <3>2, <3>3, Basics DEF PeerType, peer
    <3>5. \A x \in Daemons : batch'[x] = IF x = d THEN Ready(d) ELSE batch[x]
      BY <1>1, <3>3 DEF PeerType
    <3> QED
      BY <1>1, <1>2, <3>2, <3>3, <3>4, <3>5 DEF ServedInv
  <2> QED
    BY <2>1, <2>2
<1> QED
    BY <1>3, <1>4 DEF LinkInv

\* A process that ends or closes drops its clients, and perhaps its backlog.
LEMMA DropKeepsLinks ==
    ASSUME LinkInv, NEW d \in Daemons, NEW K \in SUBSET Links(d),
           Clients(d) \subseteq K,
           link' = [k \in Calls |-> IF k \in K THEN Absent ELSE link[k]],
           batch' = [batch EXCEPT ![d] = {}], busy' = [busy EXCEPT ![d] = Absent],
           UNCHANGED <<peer, reply, executed>>, left'.calls = left.calls
    PROVE  LinkInv'
<1>1. PeerType /\ CountInv /\ BudgetInv /\ ServedInv /\ RoomInv
      /\ OwnInv /\ BusyInv /\ ReplyInv
    BY DEF LinkInv
<1>2. \A k \in Calls : link'[k] = IF k \in K THEN Absent ELSE link[k]
    OBVIOUS
<1>3. \A x \in Daemons : /\ batch'[x] = IF x = d THEN {} ELSE batch[x]
                         /\ busy'[x] = IF x = d THEN Absent ELSE busy[x]
    BY <1>1 DEF PeerType
<1>4. \A x \in Daemons : /\ Links(x)' = Links(x) \ K
                         /\ Clients(x)' = IF x = d THEN {} ELSE Clients(x)
    BY <1>2 DEF Links, Clients
<1>5. CountInv' /\ BudgetInv' /\ ReplyInv'
    BY <1>1 DEF peer, CountInv, BudgetInv, ReplyInv
<1>6. OwnInv' /\ BusyInv'
    BY <1>1, <1>2, <1>3 DEF peer, OwnInv, BusyInv
<1>7. PeerType'
  <2>1. link' \in [Calls -> Connection \cup {Absent}]
    BY <1>1, <1>2 DEF PeerType
  <2> QED
    BY <1>1, <2>1 DEF PeerType, peer
<1>8. RoomInv'
    BY <1>1, <1>4, FS_EmptySet, Basics DEF RoomInv
<1>9. ServedInv'
  <2> SUFFICES ASSUME NEW x \in Daemons
               PROVE  /\ batch'[x] \subseteq Clients(x)' \cup {Listener}
                      /\ busy'[x] \in Clients(x)' \cup {Absent}
                      /\ busy'[x] # Absent => busy'[x] \notin batch'[x]
                      /\ \A k \in Links(x)' : link'[k].got <= 1 \/ k = busy'[x]
    BY DEF ServedInv
  <2>1. \A k \in Links(x)' : k \in Links(x) /\ link'[k] = link[k] /\ k \notin Clients(d)
    BY <1>2, <1>4, Basics
  <2> QED
    BY <1>1, <1>3, <1>4, <2>1, Basics DEF ServedInv
<1> QED
    BY <1>5, <1>6, <1>7, <1>8, <1>9 DEF LinkInv

\* A client is accepted if there is room.
LEMMA AcceptKeepsLinks ==
    ASSUME LinkInv, NEW d \in Daemons, AcceptClient(d)
    PROVE  LinkInv'
<1>1. PeerType /\ CountInv /\ BudgetInv /\ ServedInv /\ RoomInv
      /\ OwnInv /\ BusyInv /\ ReplyInv
    BY DEF LinkInv
<1>2. PICK k \in Waiting(d) : link' = [link EXCEPT ![k].open = TRUE]
    BY DEF AcceptClient
<1>3. /\ batch' = [batch EXCEPT ![d] = @ \ {Listener}]
      /\ UNCHANGED <<busy, peer, reply, executed, left>>
      /\ Cardinality(Clients(d)) < MaxClients
    BY DEF AcceptClient, Handled, process
<1>4. /\ k \in Calls /\ link[k] # Absent /\ link[k] \in Connection
      /\ link[k].at = d /\ k \notin Clients(d)
    BY <1>1, <1>2 DEF Waiting, Links, PeerType
<1> DEFINE c == [link[k] EXCEPT !.open = TRUE]
<1>5. /\ c \in Connection /\ c.at = d /\ c.open /\ c.gone = link[k].gone
      /\ c.got = link[k].got
    BY <1>4 DEF Connection
<1>6. link' = [link EXCEPT ![k] = c]
    BY <1>2
<1> HIDE DEF c
<1>7. \A x \in Calls : link'[x] = IF x = k THEN c ELSE link[x]
    BY <1>1, <1>6 DEF PeerType
<1>8. \A x \in Daemons : /\ batch'[x] \subseteq batch[x] /\ busy'[x] = busy[x]
                         /\ Links(x)' \subseteq Links(x)
                         /\ Clients(x) \ {k} \subseteq Clients(x)'
    BY <1>1, <1>3, <1>4, <1>5, <1>7 DEF PeerType, Links, Clients
<1>9. /\ Clients(d)' = Clients(d) \cup {k}
      /\ \A x \in Daemons \ {d} : Clients(x)' = Clients(x)
    BY <1>4, <1>5, <1>7, AbsentIsNoConnection DEF Links, Clients
<1>10. CountInv' /\ BudgetInv' /\ ReplyInv' /\ BusyInv'
    BY <1>1, <1>3 DEF peer, CountInv, BudgetInv, ReplyInv, BusyInv
<1>11. OwnInv'
    BY <1>1, <1>3, <1>4, <1>5, <1>7 DEF peer, OwnInv
<1>12. PeerType'
  <2>1. link' \in [Calls -> Connection \cup {Absent}]
    BY <1>1, <1>5, <1>6 DEF PeerType
  <2>2. batch' \in [Daemons -> SUBSET (Calls \cup {Listener})]
    BY <1>1, <1>3 DEF PeerType
  <2> QED
    BY <1>1, <1>3, <2>1, <2>2 DEF PeerType, peer
<1>13. RoomInv'
  <2>1. IsFiniteSet(Clients(d)) /\ Cardinality(Clients(d)) \in Nat
    BY <1>1, FS_CardinalityType DEF RoomInv
  <2>2. /\ IsFiniteSet(Clients(d) \cup {k})
        /\ Cardinality(Clients(d) \cup {k}) = Cardinality(Clients(d)) + 1
    BY <1>4, <2>1, FS_AddElement
  <2>3. Cardinality(Clients(d)) + 1 <= MaxClients
    BY <1>3, <2>1, Basics
  <2> QED
    BY <1>1, <1>9, <2>2, <2>3 DEF RoomInv
<1>14. ServedInv'
  <2> SUFFICES ASSUME NEW x \in Daemons
               PROVE  /\ batch'[x] \subseteq Clients(x)' \cup {Listener}
                      /\ busy'[x] \in Clients(x)' \cup {Absent}
                      /\ busy'[x] # Absent => busy'[x] \notin batch'[x]
                      /\ \A y \in Links(x)' : link'[y].got <= 1 \/ y = busy'[x]
    BY DEF ServedInv
  <2>1. \A y \in Links(x)' : y \in Links(x) /\ link'[y].got = link[y].got
    BY <1>5, <1>7, <1>8, Basics
  <2>2. Clients(x) \subseteq Clients(x)'
    BY <1>9
  <2> QED
    BY <1>1, <1>8, <2>1, <2>2 DEF ServedInv
<1> QED
    BY <1>10, <1>11, <1>12, <1>13, <1>14 DEF LinkInv

\* The connection of k ends, answered or not.
LEMMA HangupKeepsLinks ==
    ASSUME LinkInv, NEW d \in Daemons, NEW k \in Clients(d),
           link' = [link EXCEPT ![k] = Absent],
           UNCHANGED <<peer, executed>>, left'.calls = left.calls,
           \/ /\ k = busy[d] /\ busy' = [busy EXCEPT ![d] = Absent]
              /\ batch' = batch
           \/ /\ busy[d] = Absent /\ busy' = busy
              /\ batch' = [batch EXCEPT ![d] = @ \ {k}],
           \/ reply' = reply
           \/ \E a \in {"ok", "error"} :
                 /\ reply' = [reply EXCEPT ![k[1]] = a] /\ ~link[k].gone
                 /\ a = "ok" => k[2] \in executed[k[1]]
    PROVE  LinkInv'
<1>1. PeerType /\ CountInv /\ BudgetInv /\ ServedInv /\ RoomInv
      /\ OwnInv /\ BusyInv /\ ReplyInv
    BY DEF LinkInv
<1>2. k \in Calls /\ link[k] # Absent /\ link[k].at = d /\ k[1] \in Peers
    BY CallParts DEF Clients, Links
<1>3. \A x \in Calls : link'[x] = IF x = k THEN Absent ELSE link[x]
    BY <1>1 DEF PeerType
<1>4. \A x \in Daemons : Links(x)' = Links(x) \ {k} /\ Clients(x)' = Clients(x) \ {k}
    BY <1>2, <1>3 DEF Links, Clients
<1>5. \A x \in Daemons \ {d} : batch'[x] = batch[x] /\ busy'[x] = busy[x]
                               /\ k \notin Links(x)
    BY <1>1, <1>2 DEF PeerType, Links
<1>6. busy'[d] = Absent /\ batch'[d] \subseteq batch[d] \ {k}
    BY <1>1, <1>2, Basics DEF PeerType, ServedInv
<1>7. CountInv' /\ BudgetInv'
    BY <1>1 DEF peer, CountInv, BudgetInv
<1>8. OwnInv'
    BY <1>1, <1>3 DEF peer, OwnInv
<1>9. BusyInv'
    BY <1>1, <1>5, <1>6 DEF BusyInv
<1>10. PeerType' /\ ReplyInv'
  <2>1. link' \in [Calls -> Connection \cup {Absent}]
    BY <1>1 DEF PeerType
  <2>2. /\ batch' \in [Daemons -> SUBSET (Calls \cup {Listener})]
        /\ busy' \in [Daemons -> Calls \cup {Absent}]
    BY <1>1 DEF PeerType
  <2>3. reply' \in [Peers -> {"none", "ok", "error"}] /\ ReplyInv'
    <3>1. CASE reply' = reply
      BY <1>1, <3>1 DEF PeerType, ReplyInv, peer
    <3>2. CASE reply' # reply
      <4>1. PICK a \in {"ok", "error"} :
                /\ reply' = [reply EXCEPT ![k[1]] = a] /\ ~link[k].gone
                /\ a = "ok" => k[2] \in executed[k[1]]
        BY <3>2
      <4>2. phase[k[1]] = "waiting" /\ k[2] = calls[k[1]]
        BY <1>1, <1>2, <4>1 DEF OwnInv
      <4> QED
        BY <1>1, <1>2, <4>1, <4>2 DEF PeerType, ReplyInv, peer
    <3> QED
      BY <3>1, <3>2
  <2> QED
    BY <1>1, <2>1, <2>2, <2>3 DEF PeerType, peer
<1>11. RoomInv'
  <2> SUFFICES ASSUME NEW x \in Daemons
               PROVE  /\ IsFiniteSet(Clients(x)')
                      /\ Cardinality(Clients(x)') <= MaxClients
    BY DEF RoomInv
  <2>1. IsFiniteSet(Clients(x)) /\ Clients(x)' \subseteq Clients(x)
    BY <1>1, <1>4 DEF RoomInv
  <2>2. /\ IsFiniteSet(Clients(x)') /\ Cardinality(Clients(x)') \in Nat
        /\ Cardinality(Clients(x)) \in Nat
        /\ Cardinality(Clients(x)') <= Cardinality(Clients(x))
    BY <2>1, FS_Subset, FS_CardinalityType
  <2> QED
    BY <1>1, <2>2, Basics DEF RoomInv
<1>12. ServedInv'
  <2> SUFFICES ASSUME NEW x \in Daemons
               PROVE  /\ batch'[x] \subseteq Clients(x)' \cup {Listener}
                      /\ busy'[x] \in Clients(x)' \cup {Absent}
                      /\ busy'[x] # Absent => busy'[x] \notin batch'[x]
                      /\ \A y \in Links(x)' : link'[y].got <= 1 \/ y = busy'[x]
    BY DEF ServedInv
  <2>1. \A y \in Links(x)' : y \in Links(x) /\ link'[y] = link[y] /\ y # k
    BY <1>3, <1>4, Basics
  <2>2. CASE x = d
    BY <1>1, <1>4, <1>6, <2>1, <2>2 DEF ServedInv
  <2>3. CASE x # d
    BY <1>1, <1>4, <1>5, <2>1, <2>3, Basics DEF ServedInv
  <2> QED
    BY <2>2, <2>3
<1> QED
    BY <1>7, <1>8, <1>9, <1>10, <1>11, <1>12 DEF LinkInv

\* A part of a request is read, or one is complete and carried out.
LEMMA ReadKeepsLinks ==
    ASSUME LinkInv, NEW d \in Daemons, NEW k \in Clients(d), NEW bytes \in 0..2,
           busy[d] = Absent, link' = [link EXCEPT ![k].got = bytes],
           batch' = [batch EXCEPT ![d] = @ \ {k}],
           UNCHANGED <<peer, reply>>, left'.calls = left.calls,
           \/ bytes <= 1 /\ busy' = busy /\ executed' = executed
           \/ /\ busy' = [busy EXCEPT ![d] = k]
              /\ executed' = [executed EXCEPT ![k[1]] = @ \cup {k[2]}]
    PROVE  LinkInv'
<1>1. PeerType /\ CountInv /\ BudgetInv /\ ServedInv /\ RoomInv
      /\ OwnInv /\ BusyInv /\ ReplyInv
    BY DEF LinkInv
<1>2. /\ k \in Calls /\ link[k] # Absent /\ link[k].at = d /\ k[1] \in Peers
      /\ k[2] \in Nat \ {0} /\ link[k] \in Connection
    BY <1>1, CallParts DEF Clients, Links, PeerType
<1> DEFINE c == [link[k] EXCEPT !.got = bytes]
<1>3. /\ c \in Connection /\ c.at = d /\ c.open = link[k].open
      /\ c.gone = link[k].gone /\ c.got = bytes
    BY <1>2 DEF Connection
<1>4. link' = [link EXCEPT ![k] = c]
    OBVIOUS
<1> HIDE DEF c
<1>5. \A x \in Calls : link'[x] = IF x = k THEN c ELSE link[x]
    BY <1>1, <1>4 DEF PeerType
<1>6. \A x \in Daemons :
          /\ Links(x)' \subseteq Links(x) /\ Clients(x)' \subseteq Clients(x)
          /\ Clients(x) \ {k} \subseteq Clients(x)'
          /\ x # d => Clients(x)' = Clients(x) /\ k \notin Links(x)
    BY <1>2, <1>3, <1>5 DEF Links, Clients
<1>7. /\ \A x \in Daemons \ {d} : batch'[x] = batch[x] /\ busy'[x] = busy[x]
      /\ batch'[d] = batch[d] \ {k}
      /\ busy'[d] = k \/ (busy'[d] = Absent /\ bytes <= 1)
    BY <1>1 DEF PeerType
<1>8. \A p \in Peers : executed[p] \subseteq executed'[p]
    BY <1>1 DEF PeerType
<1>9. busy'[d] = k => k[2] \in executed'[k[1]]
    BY <1>1, <1>2, Basics DEF PeerType
<1>10. BudgetInv' /\ ReplyInv'
    BY <1>1, <1>8 DEF peer, BudgetInv, ReplyInv
<1>11. CountInv'
  <2>1. k[2] <= calls[k[1]]
    BY <1>1, <1>2 DEF OwnInv
  <2> QED
    BY <1>1, <1>2, <2>1 DEF peer, CountInv, PeerType
<1>12. OwnInv'
    BY <1>1, <1>2, <1>3, <1>5 DEF peer, OwnInv
<1>13. BusyInv'
  <2> SUFFICES ASSUME NEW x \in Daemons, busy'[x] # Absent
               PROVE  busy'[x][2] \in executed'[busy'[x][1]]
    BY DEF BusyInv
  <2>1. CASE x = d
    BY <1>7, <1>9, <2>1
  <2>2. CASE x # d
    <3>1. busy'[x] = busy[x] /\ busy[x] \in Calls
      BY <1>1, <1>7, <2>2 DEF PeerType
    <3>2. busy[x][1] \in Peers
      BY <3>1, CallParts
    <3> QED
      BY <1>1, <1>8, <3>1, <3>2 DEF BusyInv
  <2> QED
    BY <2>1, <2>2
<1>14. PeerType'
  <2>1. link' \in [Calls -> Connection \cup {Absent}]
    BY <1>1, <1>3, <1>4 DEF PeerType
  <2>2. /\ batch' \in [Daemons -> SUBSET (Calls \cup {Listener})]
        /\ busy' \in [Daemons -> Calls \cup {Absent}]
        /\ executed' \in [Peers -> SUBSET Nat]
    BY <1>1, <1>2 DEF PeerType
  <2> QED
    BY <1>1, <2>1, <2>2 DEF PeerType, peer
<1>15. RoomInv'
  <2> SUFFICES ASSUME NEW x \in Daemons
               PROVE  /\ IsFiniteSet(Clients(x)')
                      /\ Cardinality(Clients(x)') <= MaxClients
    BY DEF RoomInv
  <2>1. IsFiniteSet(Clients(x)) /\ Clients(x)' \subseteq Clients(x)
    BY <1>1, <1>6 DEF RoomInv
  <2>2. /\ IsFiniteSet(Clients(x)') /\ Cardinality(Clients(x)') \in Nat
        /\ Cardinality(Clients(x)) \in Nat
        /\ Cardinality(Clients(x)') <= Cardinality(Clients(x))
    BY <2>1, FS_Subset, FS_CardinalityType
  <2> QED
    BY <1>1, <2>2, Basics DEF RoomInv
<1>16. ServedInv'
  <2> SUFFICES ASSUME NEW x \in Daemons
               PROVE  /\ batch'[x] \subseteq Clients(x)' \cup {Listener}
                      /\ busy'[x] \in Clients(x)' \cup {Absent}
                      /\ busy'[x] # Absent => busy'[x] \notin batch'[x]
                      /\ \A y \in Links(x)' : link'[y].got <= 1 \/ y = busy'[x]
    BY DEF ServedInv
  <2>1. CASE x = d
    <3>1. k \in Clients(d)'
      BY <1>2, <1>3, <1>5, AbsentIsNoConnection DEF Clients, Links
    <3>2. \A y \in Links(d)' : link'[y].got <= 1 \/ y = busy'[d]
      <4> SUFFICES ASSUME NEW y \in Links(d)'
                   PROVE  link'[y].got <= 1 \/ y = busy'[d]
        OBVIOUS
      <4>1. y \in Links(d) /\ y \in Calls
        BY <1>6, Basics
      <4>2. CASE y = k
        BY <1>3, <1>5, <1>7, <4>1, <4>2
      <4>3. CASE y # k
        BY <1>1, <1>5, <4>1, <4>3, Basics DEF ServedInv
      <4> QED
        BY <4>2, <4>3
    <3> QED
      BY <1>1, <1>6, <1>7, <2>1, <3>1, <3>2 DEF ServedInv
  <2>2. CASE x # d
    <3>1. \A y \in Links(x)' : y \in Links(x) /\ link'[y] = link[y]
      BY <1>5, <1>6, <2>2, Basics
    <3> QED
      BY <1>1, <1>6, <1>7, <2>2, <3>1 DEF ServedInv
  <2> QED
    BY <2>1, <2>2
<1> QED
    BY <1>10, <1>11, <1>12, <1>13, <1>14, <1>15, <1>16 DEF LinkInv

\* What a client does to its connection is of no concern to the daemon's tables.
LEMMA ClientsOwnEnd ==
    ASSUME LinkInv, UNCHANGED <<batch, busy>>,
           NEW k \in Calls, NEW c \in Connection, link' = [link EXCEPT ![k] = c],
           IF link[k] = Absent THEN ~c.open /\ c.got = 0
           ELSE c.at = link[k].at /\ c.open = link[k].open /\ c.got = link[k].got
    PROVE  /\ ServedInv' /\ RoomInv'
           /\ link' \in [Calls -> Connection \cup {Absent}]
           /\ \A x \in Calls : link'[x] = IF x = k THEN c ELSE link[x]
<1>1. PeerType /\ ServedInv /\ RoomInv
    BY DEF LinkInv
<1>2. \A x \in Calls : link'[x] = IF x = k THEN c ELSE link[x]
    BY <1>1 DEF PeerType
<1>3. link' \in [Calls -> Connection \cup {Absent}]
    BY <1>1 DEF PeerType
<1>4. \A d \in Daemons :
          /\ Clients(d)' = Clients(d)
          /\ \A y \in Links(d)' : y \in Links(d) \/ (y = k /\ link[k] = Absent)
    BY <1>2, AbsentIsNoConnection DEF Links, Clients
<1>5. RoomInv'
    BY <1>1, <1>4 DEF RoomInv
<1>6. ServedInv'
  <2> SUFFICES ASSUME NEW d \in Daemons
               PROVE  /\ batch[d] \subseteq Clients(d)' \cup {Listener}
                      /\ busy[d] \in Clients(d)' \cup {Absent}
                      /\ busy[d] # Absent => busy[d] \notin batch[d]
                      /\ \A y \in Links(d)' : link'[y].got <= 1 \/ y = busy[d]
    BY DEF ServedInv
  <2>1. \A y \in Links(d)' : link'[y].got <= 1 \/ y = busy[d]
    <3> SUFFICES ASSUME NEW y \in Links(d)'
                 PROVE  link'[y].got <= 1 \/ y = busy[d]
      OBVIOUS
    <3>1. CASE y \in Links(d)
      <4>1. y \in Calls /\ link[y] # Absent
        BY <3>1 DEF Links
      <4>2. link'[y].got = link[y].got
        BY <1>2, <4>1
      <4> QED
        BY <1>1, <3>1, <4>2 DEF ServedInv
    <3>2. CASE y = k /\ link[k] = Absent
      BY <1>2, <3>2
    <3> QED
      BY <1>4, <3>1, <3>2
  <2> QED
    BY <1>1, <1>4, <2>1 DEF ServedInv
<1> QED
    BY <1>2, <1>3, <1>5, <1>6

\* The call that a client is making has a connection of its own.
LEMMA ThisIsACall ==
    ASSUME LinkInv, ProcessType, NEW p \in Peers, phase[p] # "idle"
    PROVE  /\ This(p) \in Calls /\ This(p)[1] = p /\ This(p)[2] = calls[p]
           /\ \A k \in Calls : k[1] = p /\ k[2] = calls[p] => k = This(p)
<1>1. PICK b \in Budgets : \A q \in Peers : left.calls[q] + calls[q] = b.calls[q]
    BY DEF LinkInv, BudgetInv
<1>2. /\ calls[p] \in Nat /\ calls[p] > 0 /\ left.calls[p] \in Nat
      /\ b.calls[p] \in Nat
    BY ControlServerAssumption
    DEF LinkInv, PeerType, CountInv, ProcessType
<1>3. calls[p] \in 1..b.calls[p]
    BY <1>1, <1>2
<1>4. This(p) \in Calls
    BY <1>3, CallOfBudget DEF This
<1> QED
    BY <1>4, CallParts DEF This

LEMMA RequestKeepsLinks ==
    ASSUME LinkInv, ProcessType, NEW p \in Peers, NEW x \in Kinds[p], Request(p, x)
    PROVE  LinkInv'
<1>1. PeerType /\ CountInv /\ BudgetInv /\ ServedInv /\ RoomInv
      /\ OwnInv /\ BusyInv /\ ReplyInv
    BY DEF LinkInv
<1>2. /\ phase[p] = "idle" /\ left.calls[p] > 0
      /\ phase' = [phase EXCEPT ![p] = "connecting"]
      /\ calls' = [calls EXCEPT ![p] = @ + 1] /\ kind' = [kind EXCEPT ![p] = x]
      /\ left' = [left EXCEPT !.calls[p] = @ - 1]
      /\ UNCHANGED <<batch, busy, link, result, reply, executed>>
      /\ x \in Kind
    BY ControlServerAssumption DEF Request, In, loop
<1>3. \A d \in Daemons : Links(d)' = Links(d) /\ Clients(d)' = Clients(d)
    BY <1>2 DEF Links, Clients
<1>4. ServedInv' /\ RoomInv' /\ BusyInv'
    BY <1>1, <1>2, <1>3 DEF ServedInv, RoomInv, BusyInv
<1>5. /\ calls[p] \in Nat
      /\ \A q \in Peers : calls'[q] = IF q = p THEN calls[p] + 1 ELSE calls[q]
      /\ \A q \in Peers : phase'[q] = IF q = p THEN "connecting" ELSE phase[q]
    BY <1>1, <1>2 DEF PeerType
<1>6. PeerType'
    BY <1>1, <1>2, <1>5 DEF PeerType
<1>7. CountInv' /\ ReplyInv'
    BY <1>1, <1>2, <1>5 DEF CountInv, ReplyInv, PeerType
<1>8. BudgetInv'
  <2>1. PICK b \in Budgets : \A q \in Peers : left.calls[q] + calls[q] = b.calls[q]
    BY <1>1 DEF BudgetInv
  <2>2. /\ left.calls \in [Peers -> Nat]
        /\ left'.calls = [left.calls EXCEPT ![p] = @ - 1]
    BY <1>2 DEF ProcessType
  <2>3. \A q \in Peers : left'.calls[q] + calls'[q] = b.calls[q]
    BY <1>1, <1>5, <2>1, <2>2 DEF PeerType
  <2> QED
    BY <2>3 DEF BudgetInv
<1>9. OwnInv'
  <2> SUFFICES ASSUME NEW k \in Calls, link[k] # Absent
               PROVE  /\ k[2] <= calls'[k[1]]
                      /\ phase'[k[1]] = "connecting" => k[2] < calls'[k[1]]
                      /\ link[k].gone \/ /\ phase'[k[1]] = "waiting"
                                         /\ k[2] = calls'[k[1]]
    BY <1>2 DEF OwnInv
  <2>1. /\ k[1] \in Peers /\ k[2] \in Nat /\ k[2] <= calls[k[1]]
        /\ phase[k[1]] = "connecting" => k[2] < calls[k[1]]
        /\ link[k].gone \/ (phase[k[1]] = "waiting" /\ k[2] = calls[k[1]])
    BY <1>1, CallParts DEF OwnInv
  <2> QED
    BY <1>2, <1>5, <2>1
<1> QED
    BY <1>4, <1>6, <1>7, <1>8, <1>9 DEF LinkInv

LEMMA ConnectKeepsLinks ==
    ASSUME LinkInv, ProcessType, NEW p \in Peers, Connect(p) \/ Send(p)
    PROVE  LinkInv'
<1>1. PeerType /\ CountInv /\ BudgetInv /\ ServedInv /\ RoomInv
      /\ OwnInv /\ BusyInv /\ ReplyInv
    BY DEF LinkInv
<1> DEFINE k == This(p)
<1>2. /\ k \in Calls /\ k[1] = p /\ k[2] = calls[p]
      /\ phase[p] # "idle" /\ kind[p] \in Kind
    BY <1>1, ThisIsACall DEF Connect, Send, Linked, PeerType
<1>3. UNCHANGED <<batch, busy, calls, kind, result, reply, executed, left>>
    BY DEF Connect, Send, process, loop, peer
<1> HIDE DEF k
<1>4. PICK c \in Connection :
          /\ link' = [link EXCEPT ![k] = c]
          /\ IF link[k] = Absent THEN ~c.open /\ c.got = 0 /\ Connect(p) /\ ~c.gone
             ELSE /\ c.at = link[k].at /\ c.open = link[k].open
                  /\ c.got = link[k].got /\ Send(p) /\ c.gone = link[k].gone
  <2>1. CASE Connect(p)
    <3> DEFINE c == [at |-> Server, open |-> FALSE, kind |-> kind[p],
                     sent |-> 0, got |-> 0, gone |-> FALSE]
    <3>1. c \in Connection
      BY <1>2, <2>1 DEF Connect, Accepts, Connection
    <3>2. link[k] = Absent
      BY <1>1, <1>2, <2>1 DEF Connect, OwnInv, PeerType
    <3> QED
      BY <2>1, <3>1, <3>2 DEF Connect, k
  <2>2. CASE Send(p)
    <3> DEFINE c == [link[k] EXCEPT !.sent = @ + 1]
    <3>1. link[k] \in Connection /\ link[k] # Absent /\ link[k].sent < Chunks(kind[p])
      BY <1>1, <1>2, <2>2 DEF Send, Linked, PeerType, k
    <3>2. link[k].sent + 1 \in 0..2
      BY <3>1 DEF Chunks, Connection
    <3>3. c \in Connection
      BY <3>1, <3>2 DEF Connection
    <3>4. /\ link' = [link EXCEPT ![k] = c] /\ c.gone = link[k].gone
          /\ c.at = link[k].at /\ c.open = link[k].open /\ c.got = link[k].got
      BY <2>2, <3>1 DEF Send, k, Connection
    <3> HIDE DEF c
    <3> QED
      BY <2>2, <3>1, <3>3, <3>4
  <2> QED
    BY <2>1, <2>2
<1>5. /\ ServedInv' /\ RoomInv'
      /\ link' \in [Calls -> Connection \cup {Absent}]
      /\ \A x \in Calls : link'[x] = IF x = k THEN c ELSE link[x]
    BY <1>2, <1>3, <1>4, ClientsOwnEnd
<1>6. /\ \A q \in Peers : phase'[q] = IF q = p THEN "waiting" ELSE phase[q]
      /\ phase' \in [Peers -> {"idle", "connecting", "waiting"}]
    BY <1>1 DEF Connect, Send, Linked, In, PeerType, peer
<1>7. PeerType'
    BY <1>1, <1>3, <1>5, <1>6 DEF PeerType
<1>8. CountInv' /\ BudgetInv' /\ BusyInv' /\ ReplyInv'
    BY <1>1, <1>2, <1>3, <1>6 DEF CountInv, BudgetInv, BusyInv, ReplyInv
<1>9. OwnInv'
  <2> SUFFICES ASSUME NEW x \in Calls, link'[x] # Absent
               PROVE  /\ x[2] <= calls[x[1]]
                      /\ phase'[x[1]] = "connecting" => x[2] < calls[x[1]]
                      /\ link'[x].gone \/ /\ phase'[x[1]] = "waiting"
                                          /\ x[2] = calls[x[1]]
    BY <1>3 DEF OwnInv
  <2>1. x[1] \in Peers /\ x[2] \in Nat /\ calls[x[1]] \in Nat
    BY <1>1, CallParts DEF PeerType
  <2>2. CASE x = k
    BY <1>2, <1>6, <2>1, <2>2
  <2>3. CASE x # k
    BY <1>1, <1>5, <1>6, <2>1, <2>3 DEF OwnInv
  <2> QED
    BY <2>2, <2>3
<1> QED
    BY <1>5, <1>7, <1>8, <1>9 DEF LinkInv

LEMMA OverKeepsLinks ==
    ASSUME LinkInv, ProcessType, NEW p \in Peers, phase[p] # "idle", Over(p),
           \/ result' = result
           \/ result' = [result EXCEPT ![p] = calls[p]]
    PROVE  LinkInv'
<1>1. PeerType /\ CountInv /\ BudgetInv /\ ServedInv /\ RoomInv
      /\ OwnInv /\ BusyInv /\ ReplyInv
    BY DEF LinkInv
<1> DEFINE k == This(p)
<1>2. /\ k \in Calls /\ k[1] = p /\ k[2] = calls[p]
      /\ \A x \in Calls : x[1] = p /\ x[2] = calls[p] => x = k
    BY ThisIsACall
<1>3. /\ UNCHANGED <<batch, busy, calls, executed, left>>
      /\ phase' = [phase EXCEPT ![p] = "idle"]
      /\ kind' = [kind EXCEPT ![p] = "good"]
      /\ reply' = [reply EXCEPT ![p] = "none"]
      /\ link' = IF phase[p] = "waiting" /\ link[k] # Absent
                 THEN [link EXCEPT ![k].gone = TRUE] ELSE link
    BY DEF Over, In, Linked, process, loop
<1> HIDE DEF k
<1>4. /\ ServedInv' /\ RoomInv'
      /\ link' \in [Calls -> Connection \cup {Absent}]
      /\ \A x \in Calls \ {k} : link'[x] = link[x]
      /\ link[k] = Absent => link'[k] = Absent
      /\ phase[p] = "waiting" /\ link[k] # Absent => link'[k].gone
      /\ phase[p] # "waiting" => link' = link
  <2>1. CASE phase[p] = "waiting" /\ link[k] # Absent
    <3> DEFINE c == [link[k] EXCEPT !.gone = TRUE]
    <3>1. link[k] \in Connection
      BY <1>1, <1>2, <2>1 DEF PeerType
    <3>2. /\ c \in Connection /\ c.gone /\ c.at = link[k].at
          /\ c.open = link[k].open /\ c.got = link[k].got
      BY <3>1 DEF Connection
    <3>3. link' = [link EXCEPT ![k] = c]
      BY <1>3, <2>1
    <3> HIDE DEF c
    <3> QED
      BY <1>2, <1>3, <2>1, <3>2, <3>3, ClientsOwnEnd
  <2>2. CASE ~(phase[p] = "waiting" /\ link[k] # Absent)
    <3>1. link' = link
      BY <1>3, <2>2
    <3>2. \A d \in Daemons : Links(d)' = Links(d) /\ Clients(d)' = Clients(d)
      BY <3>1 DEF Links, Clients
    <3>3. ServedInv' /\ RoomInv'
      BY <1>1, <1>3, <3>1, <3>2 DEF ServedInv, RoomInv
    <3> QED
      BY <1>1, <2>2, <3>1, <3>3 DEF PeerType
  <2> QED
    BY <2>1, <2>2
<1>5. /\ \A q \in Peers : phase'[q] = IF q = p THEN "idle" ELSE phase[q]
      /\ \A q \in Peers : reply'[q] = IF q = p THEN "none" ELSE reply[q]
      /\ \A q \in Peers : result'[q] = result[q] \/ result'[q] = calls[q]
    BY <1>1, <1>3 DEF PeerType
<1>6. PeerType'
    BY <1>1, <1>3, <1>4 DEF PeerType, Kind
<1>7. CountInv' /\ BudgetInv' /\ BusyInv' /\ ReplyInv'
    BY <1>1, <1>3, <1>5 DEF CountInv, BudgetInv, BusyInv, ReplyInv, PeerType
<1>8. OwnInv'
  <2> SUFFICES ASSUME NEW x \in Calls, link'[x] # Absent
               PROVE  /\ x[2] <= calls[x[1]]
                      /\ phase'[x[1]] = "connecting" => x[2] < calls[x[1]]
                      /\ link'[x].gone \/ /\ phase'[x[1]] = "waiting"
                                          /\ x[2] = calls[x[1]]
    BY <1>3 DEF OwnInv
  <2>1. x[1] \in Peers /\ x[2] \in Nat /\ calls[x[1]] \in Nat
    BY <1>1, CallParts DEF PeerType
  <2>2. CASE x = k
    BY <1>1, <1>2, <1>4, <1>5, <2>1, <2>2 DEF OwnInv
  <2>3. CASE x # k
    BY <1>1, <1>2, <1>4, <1>5, <2>1, <2>3 DEF OwnInv
  <2> QED
    BY <2>2, <2>3
<1> QED
    BY <1>4, <1>6, <1>7, <1>8 DEF LinkInv

\* A step of a daemon's loop.
LEMMA IterateKeepsLinks ==
    ASSUME LinkInv, NEW d \in Daemons, Iterate(d)
    PROVE  LinkInv'
<1>1. PeerType /\ ServedInv /\ BusyInv /\ OwnInv
    BY DEF LinkInv
<1>2. CASE Select(d)
    BY <1>2, SelectKeepsLinks DEF Select, process
<1>3. CASE AcceptClient(d)
    BY <1>3, AcceptKeepsLinks
<1>4. CASE AcceptFails(d)
  <2>1. /\ BeginClose(d, TRUE) /\ busy[d] = Absent
    BY <1>4 DEF AcceptFails, Handles
  <2>2. busy' = [busy EXCEPT ![d] = Absent]
    BY <1>1, <2>1 DEF BeginClose, PeerType
  <2>3. Clients(d) \in SUBSET Links(d)
    BY Basics
  <2> QED
    BY <2>1, <2>2, <2>3, DropKeepsLinks DEF BeginClose
<1>5. CASE Answer(d)
  <2> DEFINE k == busy[d]
  <2>1. k # Absent /\ k \in Clients(d) /\ k[2] \in executed[k[1]]
    BY <1>1, <1>5 DEF Answer, ServedInv, BusyInv
  <2>2. /\ link' = [link EXCEPT ![k] = Absent]
        /\ busy' = [busy EXCEPT ![d] = Absent] /\ batch' = batch
        /\ UNCHANGED <<peer, executed, left>>
        /\ reply' = IF link[k].gone THEN reply ELSE [reply EXCEPT ![k[1]] = "ok"]
    BY <1>5 DEF Answer, Respond, process
  <2>3. \/ reply' = reply
        \/ \E a \in {"ok", "error"} :
              /\ reply' = [reply EXCEPT ![k[1]] = a] /\ ~link[k].gone
              /\ a = "ok" => k[2] \in executed[k[1]]
    BY <2>1, <2>2
  <2> HIDE DEF k
  <2>4. k = busy[d]
    BY DEF k
  <2> QED
    BY <2>1, <2>2, <2>3, <2>4, HangupKeepsLinks
<1>6. ASSUME NEW k \in Clients(d), Obey(d, k) PROVE LinkInv'
  <2>1. /\ busy[d] = Absent /\ link' = [link EXCEPT ![k].got = 2]
        /\ batch' = [batch EXCEPT ![d] = @ \ {k}]
        /\ UNCHANGED <<peer, reply, left>>
        /\ busy' = [busy EXCEPT ![d] = k]
        /\ executed' = [executed EXCEPT ![k[1]] = @ \cup {k[2]}]
        /\ 2 \in 0..2
    BY <1>6 DEF Obey, Handles, Handled, Complete, process
  <2> QED
    BY <2>1, ReadKeepsLinks
<1>7. ASSUME NEW k \in Clients(d), Refuse(d, k) PROVE LinkInv'
  <2>1. /\ link' = [link EXCEPT ![k] = Absent]
        /\ busy[d] = Absent /\ busy' = busy
        /\ batch' = [batch EXCEPT ![d] = @ \ {k}]
        /\ UNCHANGED <<peer, executed, left>>
        /\ reply' = IF link[k].gone THEN reply
                    ELSE [reply EXCEPT ![k[1]] = "error"]
    BY <1>7 DEF Refuse, Respond, Refusal, Handles, Handled, process
  <2>2. \/ reply' = reply
        \/ \E a \in {"ok", "error"} :
              /\ reply' = [reply EXCEPT ![k[1]] = a] /\ ~link[k].gone
              /\ a = "ok" => k[2] \in executed[k[1]]
    BY <2>1
  <2> QED
    BY <2>1, <2>2, HangupKeepsLinks
<1>8. ASSUME NEW k \in Clients(d), ReadEnd(d, k) PROVE LinkInv'
    BY <1>8, HangupKeepsLinks DEF ReadEnd, Hangup, Handles, Handled, process
<1>9. ASSUME NEW k \in Clients(d), NEW bytes \in 1..2, ReadPart(d, k, bytes)
      PROVE  LinkInv'
  <2>1. /\ busy[d] = Absent /\ link' = [link EXCEPT ![k].got = bytes]
        /\ batch' = [batch EXCEPT ![d] = @ \ {k}]
        /\ UNCHANGED <<peer, reply, left, busy, executed>>
        /\ bytes \in 0..2 /\ bytes <= 1
    BY <1>9 DEF ReadPart, Handles, Handled, Complete, process
  <2> QED
    BY <2>1, ReadKeepsLinks
<1> QED
    BY <1>2, <1>3, <1>4, <1>5, <1>6, <1>7, <1>8, <1>9 DEF Iterate

LEMMA EndKeepsLinks ==
    ASSUME LinkInv, NEW d \in Daemons, Ends(d), left'.calls = left.calls
    PROVE  LinkInv'
<1>1. Clients(d) \subseteq Links(d) /\ Links(d) \in SUBSET Links(d)
    BY Basics
<1> QED
    BY <1>1, DropKeepsLinks DEF Ends

LEMMA LinkStep == LinkInv /\ ProcessInv /\ [Next]_vars => LinkInv'
<1> SUFFICES ASSUME LinkInv, ProcessInv, [Next]_vars PROVE LinkInv'
    OBVIOUS
<1>1. ProcessType /\ PeerType
    BY DEF ProcessInv, LinkInv
<1>2. ASSUME NEW d \in Daemons, Setup(d) PROVE LinkInv'
  <2>1. CASE SetupFails(d)
    BY <2>1, EndKeepsLinks DEF SetupFails, Fails
  <2>2. CASE ~SetupFails(d)
    <3>1. UNCHANGED <<batch, link, busy, peer, reply, executed, left>>
      BY <1>2, <2>2 DEF Setup, LookAtEvents, UnlinkEvents, BindEvents, Bind,
                        RemoveControl, BindControl, Proceed, loop
    <3> QED
      BY <3>1, SelectKeepsLinks
  <2> QED
    BY <2>1, <2>2
<1>3. ASSUME NEW d \in Daemons, Iterate(d) PROVE LinkInv'
    BY <1>3, IterateKeepsLinks
<1>4. ASSUME NEW d \in Daemons, LeaveLoop(d) PROVE LinkInv'
  <2>1. busy' = [busy EXCEPT ![d] = Absent]
    BY <1>1, <1>4 DEF LeaveLoop, BeginClose, PeerType
  <2>2. Clients(d) \in SUBSET Links(d)
    BY Basics
  <2> QED
    BY <1>4, <2>1, <2>2, DropKeepsLinks DEF LeaveLoop, BeginClose
<1>5. ASSUME NEW d \in Daemons, EndClose(d) PROVE LinkInv'
    BY <1>5, EndKeepsLinks DEF EndClose
<1>6. ASSUME NEW d \in Daemons, Start(d) \/ Restart \/ Stop(d) \/ Cleanup
      PROVE  LinkInv'
  <2>1. /\ UNCHANGED <<batch, link, busy, peer, reply, executed>>
        /\ left'.calls = left.calls
    BY <1>1, <1>6 DEF Start, Restart, Begin, Stop, Cleanup, loop, process, ProcessType
  <2> QED
    BY <2>1, SelectKeepsLinks
<1>7. ASSUME NEW d \in Daemons, Kill(d) PROVE LinkInv'
  <2>1. Ends(d) /\ left'.calls = left.calls
    BY <1>1, <1>7 DEF Kill, Fails, ProcessType
  <2> QED
    BY <2>1, EndKeepsLinks
<1>8. ASSUME NEW p \in Peers, PeerStep(p) \/ GiveUp(p) PROVE LinkInv'
  <2>1. CASE Connect(p) \/ Send(p)
    BY <1>1, <2>1, ConnectKeepsLinks
  <2>2. CASE Succeed(p) \/ Fail(p) \/ GiveUp(p)
    <3>1. phase[p] # "idle"
      BY <2>2 DEF Succeed, Fail, GiveUp, LinkInv, ReplyInv
    <3> QED
      BY <1>1, <2>2, <3>1, OverKeepsLinks DEF Succeed, Fail, GiveUp
  <2> QED
    BY <1>8, <2>1, <2>2 DEF PeerStep
<1>9. ASSUME NEW p \in Peers, NEW x \in Kinds[p], Request(p, x) PROVE LinkInv'
    BY <1>1, <1>9, RequestKeepsLinks
<1>10. CASE UNCHANGED vars
    BY <1>10, SelectKeepsLinks DEF vars, process, loop
<1> QED
    BY <1>2, <1>3, <1>4, <1>5, <1>6, <1>7, <1>8, <1>9, <1>10,
       ControlServerAssumption DEF Next, DaemonStep
-----------------------------------------------------------------------------
\* The inductive invariant, of processes and paths and of calls and connections.
THEOREM InvariantHolds == Spec => [](ProcessInv /\ LinkInv)
<1>1. ProcessInv /\ LinkInv /\ [Next]_vars => LinkInv'
    BY LinkStep
<1> QED
    BY <1>1, LinkInit, ProcessInit, ProcessStep, PTL DEF Spec

\* Types; no daemon has more clients than descriptors, what it handles and
\* carries out are requests of clients that it has, and a buffer holds no more
\* than a part of a request (_read_client and accept_client).
THEOREM TypeCorrect == Spec => []TypeOK
<1>1. ProcessInv /\ LinkInv => TypeOK
  <2> SUFFICES ASSUME ProcessInv, LinkInv PROVE TypeOK
    OBVIOUS
  <2>1. /\ path \in [Paths -> Daemons \cup {Absent, "stale"}]
        /\ pc \in [Daemons -> Places]
        /\ failed \in BOOLEAN /\ stopping \in [Daemons -> BOOLEAN]
        /\ left \in [starts: Nat, kills: Nat, calls: [Peers -> Nat]]
        /\ alone \in [Daemons -> BOOLEAN]
    BY DEF ProcessInv, ProcessType
  <2>2. \A d \in Daemons :
          /\ batch[d] \subseteq Clients(d) \cup {Listener}
          /\ busy[d] \in Clients(d) \cup {Absent}
          /\ Cardinality(Clients(d)) <= MaxClients
          /\ \A k \in Links(d) : link[k].got <= 1 \/ k = busy[d]
    BY DEF LinkInv, ServedInv, RoomInv
  <2>3. \A p \in Peers :
          /\ calls[p] \in Nat /\ result[p] \in 0..calls[p]
          /\ executed[p] \subseteq 1..calls[p]
    BY DEF LinkInv, PeerType, CountInv
  <2> QED
    BY <2>1, <2>2, <2>3 DEF TypeOK, Places, LinkInv, PeerType
<1> QED
    BY <1>1, InvariantHolds, PTL

\* A daemon beside which none was started since it was is where hooks and
\* clients look for it, whatever killed ones left (open, setup and close).
THEOREM AloneIsReachable == Spec => []ReachableWhenAlone
<1>1. ProcessInv => ReachableWhenAlone
    BY DEF ProcessInv, AloneInv, ReachableWhenAlone, EventsBound, Paths
<1> QED
    BY <1>1, ProcessHolds, PTL

\* A daemon that is alone never fails in setup(), but only if it is killed.
THEOREM AloneStarts == Spec => AloneComesUp
<1> DEFINE Up ==
        \A d \in Daemons : alone[d] /\ Alive(d) /\ pc[d] \notin {"serving", "closing"}
            => Alive(d)' \/ left'.kills < left.kills
<1>1. ProcessInv /\ [Next]_vars => Up
  <2> SUFFICES ASSUME ProcessInv, [Next]_vars, NEW d \in Daemons,
                      alone[d], Alive(d), pc[d] \notin {"serving", "closing"}
               PROVE  Alive(d)' \/ left'.kills < left.kills
    OBVIOUS
  <2>1. ProcessType /\ \A y \in Daemons \ {d} : pc[y] = "down"
    BY DEF ProcessInv, AloneInv
  <2>2. ASSUME NEW x \in Daemons, Setup(x) PROVE Alive(d)'
    <3>1. x = d
      BY <2>1, <2>2 DEF Setup, LookAtEvents, UnlinkEvents, BindEvents,
                        RemoveControl, BindControl
    <3> QED
      BY <2>2, <3>1, SetupKeepsProcess
  <2>3. ASSUME NEW x \in Daemons, Kill(x) PROVE left'.kills < left.kills
    BY <2>1, <2>3 DEF Kill, ProcessType
  <2>4. ASSUME NEW x \in Daemons, Iterate(x) \/ LeaveLoop(x) \/ EndClose(x)
        PROVE  Alive(d)'
    <3>1. pc' = pc \/ pc[x] \in {"serving", "closing"}
      BY <2>4 DEF Iterate, Select, AcceptClient, AcceptFails, Answer, Obey,
                  Refuse, ReadEnd, ReadPart, Handles, LeaveLoop, EndClose, process
    <3>2. CASE pc' = pc
      BY <3>2 DEF Alive
    <3>3. CASE pc[x] \in {"serving", "closing"}
      BY <2>1, <3>3
    <3> QED
      BY <3>1, <3>2, <3>3
  <2>5. ASSUME NEW x \in Daemons, Start(x) \/ (Restart /\ x = Service) \/ Stop(x)
        PROVE  Alive(d)'
    <3>1. pc' = pc \/ pc' = [pc EXCEPT ![x] = "open_events"]
      BY <2>5 DEF Start, Restart, Begin, At, Stop, process
    <3> QED
      BY <2>1, <3>1 DEF Alive, ProcessType
  <2>6. ASSUME Cleanup PROVE Alive(d)'
    BY <2>1, <2>6, ControlServerAssumption DEF Cleanup, At, Alive, ProcessType
  <2>7. ASSUME NEW p \in Peers,
               PeerStep(p) \/ GiveUp(p) \/ \E x \in Kinds[p] : Request(p, x)
        PROVE  Alive(d)'
    BY <2>7 DEF PeerStep, Connect, Send, Succeed, Fail, GiveUp, Over, Request,
                process, Alive
  <2>8. CASE UNCHANGED vars
    BY <2>8 DEF vars, process, Alive
  <2> QED
    BY <2>2, <2>3, <2>4, <2>5, <2>6, <2>7, <2>8, ControlServerAssumption
       DEF Next, DaemonStep
<1> QED
    BY <1>1, ProcessHolds, PTL DEF Spec, AloneComesUp

\* What a client is told is true: a call that succeeds was itself carried out,
\* however requests and answers of others, kills and hangups interleave
\* (request(), _read_client and _send_response).
THEOREM ClientsAreToldTheTruth == Spec => ImplementsRpc
<1>1. Init => \A p \in Peers : Contract(p)!Init
    BY DEF Init, Contract!Init
<1>2. LinkInv /\ [Next]_vars => \A p \in Peers : [Contract(p)!Next]_(Call(p))
  <2> SUFFICES ASSUME LinkInv, [Next]_vars, NEW p \in Peers
               PROVE  [Contract(p)!Next]_(Call(p))
    OBVIOUS
  <2>1. PeerType /\ CountInv /\ OwnInv /\ ReplyInv
    BY DEF LinkInv
  <2>2. ASSUME UNCHANGED <<peer, executed>> PROVE [Contract(p)!Next]_(Call(p))
    BY <2>2 DEF peer, Call
  <2>3. ASSUME NEW d \in Daemons, NEW k \in Clients(d), Obey(d, k)
        PROVE  [Contract(p)!Next]_(Call(p))
    <3>1. /\ k[1] \in Peers /\ k[2] \in Nat \ {0} /\ link[k] # Absent /\ k \in Calls
      BY CallParts DEF Clients, Links
    <3>2. k[2] \in 1..calls[k[1]]
      BY <2>1, <3>1 DEF OwnInv, PeerType
    <3>3. UNCHANGED peer /\ executed' = [executed EXCEPT ![k[1]] = @ \cup {k[2]}]
      BY <2>3 DEF Obey
    <3>4. CASE k[1] = p /\ k[2] \notin executed[p]
      BY <2>1, <3>2, <3>3, <3>4
      DEF peer, PeerType, Contract!Next, Contract!Execute
    <3>5. CASE ~(k[1] = p /\ k[2] \notin executed[p])
      <4>1. executed'[p] = executed[p]
        BY <2>1, <3>1, <3>3, <3>5 DEF PeerType
      <4> QED
        BY <3>3, <4>1 DEF peer, Call
    <3> QED
      BY <3>4, <3>5
  <2>4. ASSUME NEW q \in Peers, NEW x \in Kinds[q], Request(q, x)
        PROVE  [Contract(p)!Next]_(Call(p))
    <3>1. /\ phase[q] = "idle" /\ phase' = [phase EXCEPT ![q] = "connecting"]
          /\ calls' = [calls EXCEPT ![q] = @ + 1]
          /\ UNCHANGED <<result, executed>>
      BY <2>4 DEF Request, In
    <3>2. CASE q = p
      BY <2>1, <3>1, <3>2 DEF PeerType, Contract!Next, Contract!Call
    <3>3. CASE q # p
      BY <2>1, <3>1, <3>3 DEF PeerType, Call
    <3> QED
      BY <3>2, <3>3
  <2>5. ASSUME NEW q \in Peers, Connect(q) \/ Send(q)
        PROVE  [Contract(p)!Next]_(Call(p))
    <3>1. /\ UNCHANGED <<calls, result, executed>>
          /\ (phase'[p] # "idle") = (phase[p] # "idle")
      BY <2>1, <2>5 DEF Connect, Send, In, PeerType, peer
    <3> QED
      BY <3>1 DEF Call
  <2>6. ASSUME NEW q \in Peers, Succeed(q) \/ Fail(q) \/ GiveUp(q)
        PROVE  [Contract(p)!Next]_(Call(p))
    <3>1. phase[q] # "idle"
      BY <2>1, <2>6 DEF Succeed, Fail, GiveUp, ReplyInv
    <3>2. /\ UNCHANGED <<calls, executed>> /\ phase' = [phase EXCEPT ![q] = "idle"]
          /\ \/ result' = result
             \/ result' = [result EXCEPT ![q] = calls[q]] /\ reply[q] = "ok"
      BY <2>6 DEF Succeed, Fail, GiveUp, Over, In
    <3>3. CASE q = p
      <4>1. CASE result' = result
        BY <2>1, <3>1, <3>2, <3>3, <4>1
        DEF PeerType, Contract!Next, Contract!Fail
      <4>2. CASE result' # result
        <5>1. calls[p] \in executed[p] /\ result'[p] = calls[p]
          BY <2>1, <3>2, <3>3, <4>2 DEF ReplyInv, PeerType
        <5> QED
          BY <2>1, <3>1, <3>2, <3>3, <5>1
          DEF PeerType, Contract!Next, Contract!Return
      <4> QED
        BY <4>1, <4>2
    <3>4. CASE q # p
      BY <2>1, <3>2, <3>4 DEF PeerType, Call
    <3> QED
      BY <3>3, <3>4
  <2>7. CASE \/ \E d \in Daemons : \/ Setup(d) \/ LeaveLoop(d) \/ EndClose(d)
                                   \/ Start(d) \/ Kill(d) \/ Stop(d)
             \/ Restart \/ Cleanup
    BY <2>2, <2>7
    DEF Setup, LookAtEvents, UnlinkEvents, BindEvents, Bind, RemoveControl,
        BindControl, Proceed, SetupFails, Fails, Ends, LeaveLoop, BeginClose,
        EndClose, Start, Restart, Begin, Kill, Stop, Cleanup
  <2>8. ASSUME NEW d \in Daemons, Iterate(d) PROVE [Contract(p)!Next]_(Call(p))
    <3>1. \/ UNCHANGED <<peer, executed>>
          \/ \E k \in Clients(d) : Obey(d, k)
      BY <2>8 DEF Iterate, Select, AcceptClient, AcceptFails, BeginClose, Answer,
                  Refuse, ReadEnd, ReadPart
    <3> QED
      BY <2>2, <2>3, <3>1
  <2>9. CASE UNCHANGED vars
    BY <2>2, <2>9 DEF vars
  <2> QED
    BY <2>4, <2>5, <2>6, <2>7, <2>8, <2>9 DEF Next, DaemonStep, PeerStep
<1> QED
    BY <1>1, <1>2, InvariantHolds, PTL DEF Spec, ImplementsRpc
=============================================================================
