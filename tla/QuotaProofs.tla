---------------------------- MODULE QuotaProofs ----------------------------
(***************************************************************************)
(* What close() and the poller of CodexQuotaSource guarantee about child   *)
(* processes, for all timeouts that satisfy the assumptions, any queue     *)
(* size and any number of sessions.                                        *)
(*                                                                         *)
(* Two facts carry the proof.  A child is alive only within its session    *)
(* (OnlyOwnChild), because the poller leaves a session through `finally'.  *)
(* And once close() waits in join, the longest the poller can still take   *)
(* is less than what is left of the join (JoinSuffices).                   *)
(*                                                                         *)
(* The last section is about load_config, which gives the source and the   *)
(* daemon their times.                                                     *)
(***************************************************************************)
EXTENDS QuotaSource, TLAPS

\* The lines of _session between Popen and the end of its `finally'.
InSession ==
    {"publish", "write", "await", "get", "next", "pause", "teardown", "reap"}

\* The parts of the type invariant the argument needs.
Types ==
    /\ session \in 0..MaxSessions
    /\ child \in [Session -> {"unborn", "running", "terminated", "dead"}]
    /\ {timer, deadline, join} \subseteq Nat
    /\ pc \in InSession \cup {"check", "spawn", "clear", "retry", "ended"}
    /\ main \in {"open", "look", "terminate", "join", "kill", "closed"}

\* Only the child of the running session is alive.
OnlyOwnChild ==
    \A s \in Session : Alive(s) => s = session /\ pc \in InSession

\* The waits the poller is in are no longer than the code makes them.
WaitsAreBounded ==
    /\ pc = "spawn" => timer <= SpawnTicks
    /\ pc = "get" => timer <= GetTimeout
    /\ pc = "reap" => timer <= KillWait

\* How long the poller may take to end after _stop is set.
Remaining ==
    CASE pc \in {"spawn", "get"} -> timer + KillWait
      [] pc = "reap" -> timer
      [] pc \in {"publish", "write", "await", "next", "pause", "teardown"}
            -> KillWait
      [] OTHER -> 0

\* While close() waits, the poller ends before the join gives up.
JoinSuffices ==
    /\ main # "open" => stop
    /\ main = "join" => pc = "ended" \/ Remaining < join
    /\ main \in {"kill", "closed"} => pc = "ended"

IInv == Types /\ OnlyOwnChild /\ WaitsAreBounded /\ JoinSuffices

\* The constants are the natural numbers the comparisons need.
LEMMA ConstantsAreNatural ==
    /\ SpawnTicks \in Nat /\ GetTimeout \in Nat /\ ResponseTimeout \in Nat
    /\ KillWait \in Nat /\ JoinTimeout \in Nat /\ Refresh \in Nat
    /\ RetryLimit \in Nat /\ MaxSessions \in Nat
    /\ KillWait + GetTimeout < JoinTimeout
    /\ KillWait + SpawnTicks < JoinTimeout
    /\ KillWait > 0 /\ SpawnTicks > 0 /\ GetTimeout > 0
BY QuotaAssumption, JoinAssumption

\* Initially no child exists and nobody has called close().
LEMMA InitEstablishes == Init => IInv
<1> SUFFICES ASSUME Init PROVE IInv OBVIOUS
<1>1. Types
  <2>2. session \in 0..MaxSessions
    BY ConstantsAreNatural DEF Init
  <2>3. child \in [Session -> {"unborn", "running", "terminated", "dead"}]
    BY DEF Init
  <2>4. {timer, deadline, join} \subseteq Nat
    BY DEF Init
  <2>5. pc = "check" /\ main = "open"
    BY DEF Init
  <2> QED
    BY <2>2, <2>3, <2>4, <2>5 DEF Types
<1>2. OnlyOwnChild
    BY DEF Init, OnlyOwnChild, Alive
<1>3. WaitsAreBounded /\ JoinSuffices
    BY DEF Init, WaitsAreBounded, JoinSuffices
<1> QED
    BY <1>1, <1>2, <1>3 DEF IInv

\* No step of the poller breaks the invariant.
LEMMA PollerPreserves == IInv /\ Poller => IInv'
<1> SUFFICES ASSUME IInv, Poller PROVE IInv' OBVIOUS
<1> USE ConstantsAreNatural
    DEF IInv, Types, OnlyOwnChild, WaitsAreBounded, JoinSuffices, Remaining,
        Alive, InSession, Goto, shared, processes, streams, closer
<1>1. CASE CheckStop
    BY <1>1 DEF CheckStop
<1>2. CASE Spawn
    BY <1>2 DEF Session, Spawn
<1>3. CASE SpawnFails
    BY <1>3 DEF RetryDelay, Smaller, SpawnFails
<1>4. CASE Publish
    BY <1>4 DEF Publish
<1>5. CASE WriteRequest
    BY <1>5 DEF Raise, WriteRequest
<1>6. CASE Await
    BY <1>6 DEF Raise, Smaller, Await
<1>7. CASE GetNothing
    BY <1>7 DEF GetNothing
<1>8. CASE GetLine
    BY <1>8 DEF Raise, Skip, GetLine
<1>9. CASE Pause
    BY <1>9 DEF Pause
<1>10. CASE NextRequest
    BY <1>10 DEF NextRequest
<1>11. CASE Teardown
    BY <1>11 DEF Teardown
<1>12. CASE Reap
  <2>1. \A s \in Session : ~Alive(s)'
    BY <1>12 DEF Reap
  <2>2. child' \in [Session -> {"unborn", "running", "terminated", "dead"}]
    BY <1>12 DEF Reap
  <2> QED
    BY <1>12, <2>1, <2>2 DEF Reap
<1>13. CASE Clear
    BY <1>13 DEF RetryDelay, Smaller, AfterSession, Clear
<1>14. CASE Retry
    BY <1>14 DEF Retry
<1> QED
    BY <1>1, <1>2, <1>3, <1>4, <1>5, <1>6, <1>7, <1>8, <1>9, <1>10, <1>11,
       <1>12, <1>13, <1>14 DEF Poller

\* Nor does a step of a reader, of a child or of close(), nor a tick.
LEMMA OthersPreserve ==
    ASSUME IInv,
           \/ \E s \in Session : Reader(s) \/ ChildWrites(s) \/ ChildDies(s)
           \/ Close \/ Closing \/ Tick
    PROVE  IInv'
<1> USE ConstantsAreNatural
    DEF IInv, Types, OnlyOwnChild, WaitsAreBounded, JoinSuffices, Remaining,
        Alive, InSession, shared, poller, processes, streams, closer
<1>1. ASSUME NEW s \in Session, Reader(s) \/ ChildWrites(s)
      PROVE  IInv'
    BY <1>1 DEF Reader, ReaderMoves, ReaderEnds, ChildWrites
<1>2. ASSUME NEW s \in Session, ChildDies(s)
      PROVE  IInv'
    BY <1>2 DEF ChildDies
<1>3. CASE Close
    BY <1>3 DEF Close
<1>4. CASE CloseLooks
    BY <1>4 DEF CloseLooks
<1>5. CASE CloseTerminates
  <2>1. child' \in [Session -> {"unborn", "running", "terminated", "dead"}]
    BY <1>5 DEF CloseTerminates, Signal
  <2>2. \A s \in Session : Alive(s)' => Alive(s)
    BY <1>5 DEF CloseTerminates, Signal
  <2>3. Remaining' < JoinTimeout
    BY <1>5 DEF CloseTerminates
  <2> QED
    BY <1>5, <2>1, <2>2, <2>3 DEF CloseTerminates
<1>6. CASE CloseJoins
    BY <1>6 DEF CloseJoins
<1>7. CASE CloseKills
    BY <1>7 DEF CloseKills, Signal
<1>8. CASE Tick
  <2>1. Types' /\ OnlyOwnChild' /\ WaitsAreBounded'
    BY <1>8 DEF Tick, Less
  <2>2. CASE main = "open"
    BY <2>1, <2>2, <1>8 DEF Tick
  <2>3. CASE main = "join" /\ join > 0 /\ pc # "ended"
    <3>1. pc \in {"spawn", "get", "reap"} /\ timer > 0
      BY <2>3, <1>8 DEF Tick, PollerWaits
    <3>2. timer' = timer - 1 /\ join' = join - 1
      BY <2>3, <3>1, <1>8 DEF Tick, Less
    <3>3. Remaining' = Remaining - 1 /\ Remaining \in Nat
      BY <3>1, <3>2, <1>8 DEF Tick
    <3> QED
      BY <2>1, <2>3, <3>2, <3>3, <1>8 DEF Tick
  <2> QED
    BY <2>2, <2>3, <1>8 DEF Tick, CloserWaits
<1> QED
    BY <1>1, <1>2, <1>3, <1>4, <1>5, <1>6, <1>7, <1>8 DEF Closing

\* The invariant holds always.
THEOREM InvariantHolds == Spec => []IInv
<1>1. IInv /\ UNCHANGED vars => IInv'
    BY DEF vars, shared, poller, processes, streams, closer, IInv, Types,
           OnlyOwnChild, WaitsAreBounded, JoinSuffices, Remaining, Alive,
           InSession
<1>2. IInv /\ [Next]_vars => IInv'
    BY <1>1, PollerPreserves, OthersPreserve DEF Next
<1> QED
    BY InitEstablishes, <1>2, PTL DEF Spec

\* No session starts beside a living child of an older one: _session's
\* `finally' does not return before the child is dead.
THEOREM ChildrenNeverOverlap == Spec => []AtMostOneChild
<1>1. IInv => AtMostOneChild
    BY DEF IInv, OnlyOwnChild, AtMostOneChild
<1> QED
    BY <1>1, InvariantHolds, PTL

\* close() returns after the poller, and the poller takes its child along,
\* also one that started between the stop and close()'s look at _process.
THEOREM CloseLeavesNothing == Spec => []NothingOutlivesClose
<1>1. IInv => NothingOutlivesClose
    BY DEF IInv, OnlyOwnChild, JoinSuffices, InSession, NothingOutlivesClose
<1> QED
    BY <1>1, InvariantHolds, PTL
-----------------------------------------------------------------------------
(* How old a snapshot can be.  While nothing fails and nobody stops the    *)
(* source, the poller is never further from its last good answer than a    *)
(* pause, a request that times out and the end of the session together;    *)
(* what then becomes known is an error.                                    *)

\* A snapshot is new only until its pause begins to pass, unless the pause
\* is cut short by a stop.
Fresh ==
    snapshot = 0 =>
        \/ pc = "pause" /\ timer = Refresh
        \/ stop /\ pc \in {"pause", "next", "teardown", "reap", "clear", "retry", "ended"}

\* The snapshot's age at each line of the session that renews it.
Renewing ==
    ~error /\ ~stop /\ snapshot # None =>
        /\ pc \in {"pause", "next", "write", "await", "get", "teardown", "reap", "clear"}
        /\ pc \in {"pause", "next", "write", "await", "get"} => request = "quota"
        /\ pc = "pause" => snapshot + timer <= Refresh
        /\ pc \in {"next", "write"} => snapshot <= Refresh
        /\ pc \in {"await", "get"} => snapshot + deadline <= Refresh + ResponseTimeout
        /\ pc = "teardown" => snapshot <= Refresh + ResponseTimeout
        /\ pc = "reap" => snapshot + timer <= Refresh + ResponseTimeout + KillWait
        /\ pc = "clear" => snapshot <= Refresh + ResponseTimeout + KillWait

AgeInv ==
    /\ snapshot \in Nat \cup {None}
    /\ request \in {"none", "initialize", "quota"}
    /\ pc \in {"await", "get"} => request # "none"
    /\ pc = "get" => timer <= deadline
    /\ Fresh /\ Renewing

LEMMA TimesFit ==
    /\ None \notin Nat /\ StaleAfter \in Nat /\ Refresh > 0
    /\ Refresh + ResponseTimeout + KillWait <= StaleAfter
BY QuotaAssumption, ConstantsAreNatural

LEMMA PollerAges == IInv /\ AgeInv /\ Poller => AgeInv'
<1> SUFFICES ASSUME IInv, AgeInv, Poller PROVE AgeInv' OBVIOUS
<1>0. timer \in Nat /\ deadline \in Nat /\ session \in 0..MaxSessions
    BY DEF IInv, Types
<1> USE <1>0, ConstantsAreNatural, TimesFit
    DEF AgeInv, Fresh, Renewing, Goto, shared
<1>1. CASE CheckStop
    BY <1>1 DEF CheckStop
<1>2. CASE Spawn
    BY <1>2 DEF Spawn
<1>3. CASE SpawnFails
    BY <1>3 DEF SpawnFails
<1>4. CASE Publish
    BY <1>4 DEF Publish
<1>5. CASE WriteRequest
    BY <1>5 DEF Raise, WriteRequest
<1>6. CASE Await
    BY <1>6 DEF Raise, Smaller, Await
<1>7. CASE GetNothing
    BY <1>7 DEF GetNothing
<1>8. CASE GetLine
    BY <1>8 DEF Raise, Skip, GetLine
<1>9. CASE Pause
    BY <1>9 DEF Pause
<1>10. CASE NextRequest
    BY <1>10 DEF NextRequest
<1>11. CASE Teardown
    BY <1>11 DEF Teardown
<1>12. CASE Reap
    BY <1>12 DEF Reap
<1>13. CASE Clear
    BY <1>13 DEF AfterSession, Clear
<1>14. CASE Retry
    BY <1>14 DEF Retry
<1> QED
    BY <1>1, <1>2, <1>3, <1>4, <1>5, <1>6, <1>7, <1>8, <1>9, <1>10, <1>11,
       <1>12, <1>13, <1>14 DEF Poller

\* Time passes only while the poller waits.
LEMMA TickAges == IInv /\ AgeInv /\ Tick => AgeInv'
<1> SUFFICES ASSUME IInv, AgeInv, Tick PROVE AgeInv' OBVIOUS
<1>1. /\ timer \in Nat /\ deadline \in Nat /\ snapshot \in Nat \cup {None}
      /\ timer' = Less(timer) /\ deadline' = Less(deadline)
      /\ snapshot' = IF snapshot = None THEN None ELSE Smaller(snapshot + 1, StaleAfter + 1)
      /\ UNCHANGED <<stop, error, pc, request>>
    BY DEF IInv, Types, AgeInv, Tick
<1>2. /\ timer' \in Nat /\ deadline' \in Nat
      /\ timer > 0 => timer' = timer - 1
      /\ deadline > 0 => deadline' = deadline - 1
    BY <1>1 DEF Less
<1>3. /\ snapshot = None => snapshot' = None
      /\ snapshot # None => snapshot' \in Nat /\ snapshot' > 0 /\ snapshot' <= snapshot + 1
    BY <1>1, TimesFit DEF Smaller
<1>4. pc = "ended" \/ (timer > 0 /\ pc \in {"spawn", "get", "pause", "retry", "reap"})
    BY DEF Tick, PollerWaits
<1>5. Fresh'
    BY <1>1, <1>3, TimesFit DEF Fresh
<1>6. pc = "get" => timer <= deadline
    BY DEF AgeInv
<1>7. Renewing'
  <2> SUFFICES ASSUME ~error, ~stop, snapshot # None PROVE Renewing'
    BY <1>1, <1>3 DEF Renewing
  <2>1. /\ pc \in {"get", "pause", "reap"} /\ timer > 0
        /\ pc \in {"pause", "get"} => request = "quota"
        /\ pc = "pause" => snapshot + timer <= Refresh
        /\ pc = "get" => snapshot + deadline <= Refresh + ResponseTimeout
        /\ pc = "reap" => snapshot + timer <= Refresh + ResponseTimeout + KillWait
    BY <1>4 DEF AgeInv, Renewing
  <2> QED
    BY <1>1, <1>2, <1>3, <1>6, <2>1, ConstantsAreNatural DEF Renewing
<1> QED
    BY <1>1, <1>2, <1>3, <1>4, <1>5, <1>6, <1>7 DEF AgeInv

\* Nobody else touches the snapshot or the poller.
LEMMA OthersAge ==
    ASSUME AgeInv,
           \/ \E s \in Session : Reader(s) \/ ChildWrites(s) \/ ChildDies(s)
           \/ Close \/ Closing \/ UNCHANGED vars
    PROVE  AgeInv'
<1>1. UNCHANGED <<snapshot, error, poller>> /\ (stop' = stop \/ stop' = TRUE)
  <2>1. ASSUME NEW s \in Session, Reader(s) \/ ChildWrites(s) \/ ChildDies(s)
        PROVE  UNCHANGED <<snapshot, error, poller, stop>>
    BY <2>1 DEF Reader, ReaderMoves, ReaderEnds, ChildWrites, ChildDies, shared
  <2>2. CASE Close
    BY <2>2 DEF Close
  <2>3. CASE Closing
    BY <2>3 DEF Closing, CloseLooks, CloseTerminates, CloseJoins, CloseKills, shared
  <2>4. CASE UNCHANGED vars
    BY <2>4 DEF vars, shared
  <2> QED
    BY <2>1, <2>2, <2>3, <2>4
<1> QED
    BY <1>1 DEF AgeInv, Fresh, Renewing, poller

THEOREM AgesAreBounded == Spec => []AgeInv
<1>1. Init => AgeInv
    BY TimesFit DEF Init, AgeInv, Fresh, Renewing
<1>2. IInv /\ AgeInv /\ [Next]_vars => AgeInv'
    BY PollerAges, TickAges, OthersAge DEF Next
<1> QED
    BY <1>1, <1>2, InvariantHolds, PTL DEF Spec

\* The quota bar does not vanish while all goes well: 2 * Refresh <= StaleAfter
\* leaves room for a pause, a request and the wait for a child.
THEOREM StaleNeedsError == Spec => []StaleOnlyAfterError
<1>1. IInv /\ AgeInv => StaleOnlyAfterError
  <2> SUFFICES ASSUME IInv, AgeInv, snapshot # None, ~error, ~stop
               PROVE  ~(snapshot > StaleAfter)
    BY DEF StaleOnlyAfterError, status
  <2>1. snapshot \in Nat /\ timer \in Nat /\ deadline \in Nat
    BY DEF IInv, Types, AgeInv
  <2> QED
    BY <2>1, ConstantsAreNatural, TimesFit DEF AgeInv, Renewing
<1> QED
    BY <1>1, InvariantHolds, AgesAreBounded, PTL

\* What _session stores is the answer to the request it made last: an answer
\* to an older one, or a repetition, is skipped, whatever the child says.
THEOREM StoredAnswers == Spec => StoredAnswerIsCurrent
<1> DEFINE Current ==
        snapshot' = 0 /\ pc = "get" =>
            /\ request = "quota"
            /\ Head(queue[session]) = [kind |-> "good", old |-> FALSE]
<1>1. AgeInv /\ [Next]_vars => Current
  <2> SUFFICES ASSUME AgeInv, [Next]_vars, snapshot' = 0, pc = "get"
               PROVE  /\ request = "quota"
                      /\ Head(queue[session]) = [kind |-> "good", old |-> FALSE]
    OBVIOUS
  <2>1. snapshot # 0 /\ request \in {"initialize", "quota"} /\ snapshot \in Nat \cup {None}
    BY DEF AgeInv, Fresh
  <2>2. CASE UNCHANGED snapshot
    BY <2>1, <2>2
  <2>3. CASE GetLine
    <3> DEFINE line == Head(queue[session])
    <3>1. Answers(line) /\ line.kind = "good" /\ request # "initialize"
      BY <2>1, <2>3 DEF GetLine
    <3>2. line \in Message /\ line.old = FALSE
      BY <3>1 DEF Answers, Message
    <3>3. line = [kind |-> "good", old |-> FALSE]
      <4> HIDE DEF line
      <4> QED
        BY <3>1, <3>2 DEF Message
    <3> QED
      BY <2>1, <3>1, <3>3
  <2>4. CASE Tick
    BY <2>1, <2>4, TimesFit DEF Tick, Smaller
  <2>5. UNCHANGED snapshot \/ GetLine \/ Tick
    <3>1. CASE Poller
      BY <3>1 DEF Poller, CheckStop, Spawn, SpawnFails, Publish, WriteRequest, Await, GetNothing,
                  Pause, NextRequest, Teardown, Reap, Clear, Retry, shared
    <3>2. ASSUME NEW s \in Session, Reader(s) \/ ChildWrites(s) \/ ChildDies(s)
          PROVE  UNCHANGED snapshot
      BY <3>2 DEF Reader, ReaderMoves, ReaderEnds, ChildWrites, ChildDies, shared
    <3>3. CASE Close \/ Closing
      BY <3>3 DEF Close, Closing, CloseLooks, CloseTerminates, CloseJoins, CloseKills, shared
    <3>4. CASE UNCHANGED vars
      BY <3>4 DEF vars, shared
    <3> QED
      BY <3>1, <3>2, <3>3, <3>4 DEF Next
  <2> QED
    BY <2>2, <2>3, <2>4, <2>5
<1> QED
    BY <1>1, AgesAreBounded, PTL DEF Spec, StoredAnswerIsCurrent
-----------------------------------------------------------------------------
(* The rest of the types: what is in the pipes and the queues, and whom    *)
(* close() and the poller may call the child.                              *)

Line == Message \cup {Noise, Eof}

StreamInv ==
    /\ pipe \in [Session -> Seq(Line)] /\ queue \in [Session -> Seq(Line)]
    /\ \A s \in Session : Len(pipe[s]) <= PipeSize /\ Len(queue[s]) <= QueueSize
    /\ reader \in [Session -> {"none", "running", "done"}]

NameInv ==
    /\ {stop, error, raised} \subseteq BOOLEAN /\ written \in Nat
    /\ snapshot \in 0..(StaleAfter + 1) \cup {None}
    /\ process \in Session \cup {None} /\ closing \in Session \cup {None}
    /\ pc \in InSession \cup {"clear"} => session \in Session

\* What becomes of the lines of a request that is over, or of a session.
LEMMA RewrittenLines ==
    ASSUME NEW lines \in Seq(Line)
    PROVE  /\ Outdated(lines) \in Seq(Line) /\ Len(Outdated(lines)) = Len(lines)
           /\ Ignored(lines) \in Seq(Line) /\ Len(Ignored(lines)) = Len(lines)
<1>1. DOMAIN lines = 1..Len(lines) /\ Len(lines) \in Nat /\ \A i \in 1..Len(lines) : lines[i] \in Line
    OBVIOUS
<1>2. \A m \in Message : [m EXCEPT !.old = TRUE] \in Message
    BY DEF Message
<1>3. ASSUME NEW f, f \in [1..Len(lines) -> Line]
      PROVE  f \in Seq(Line) /\ Len(f) = Len(lines)
    BY <1>1, <1>3
<1>4. Outdated(lines) \in [1..Len(lines) -> Line]
    BY <1>1, <1>2 DEF Outdated, Line
<1>5. Ignored(lines) \in [1..Len(lines) -> Line]
    BY <1>1 DEF Ignored, Line
<1> QED
    BY <1>3, <1>4, <1>5

LEMMA StreamStep == IInv /\ NameInv /\ StreamInv /\ [Next]_vars => StreamInv'
<1> SUFFICES ASSUME IInv, NameInv, StreamInv, [Next]_vars PROVE StreamInv'
    OBVIOUS
<1>c. QueueSize \in Nat /\ PipeSize \in Nat
    BY QuotaAssumption
<1>1. CASE UNCHANGED streams
    BY <1>1 DEF streams, StreamInv
<1>2. CASE Publish
    BY <1>2 DEF Publish, StreamInv
<1>3. CASE WriteRequest
  <2>1. CASE UNCHANGED <<pipe, queue>>
    BY <1>3, <2>1 DEF WriteRequest, StreamInv
  <2>2. CASE Alive(session)
    <3>1. session \in Session
      BY <1>3 DEF WriteRequest, NameInv, InSession
    <3> DEFINE p == Outdated(pipe[session])  q == Outdated(queue[session])
    <3>2. /\ p \in Seq(Line) /\ Len(p) = Len(pipe[session])
          /\ q \in Seq(Line) /\ Len(q) = Len(queue[session])
      BY <3>1, RewrittenLines DEF StreamInv
    <3>3. /\ pipe' = [pipe EXCEPT ![session] = p] /\ queue' = [queue EXCEPT ![session] = q]
          /\ reader' = reader
      BY <1>3, <2>2 DEF WriteRequest
    <3> HIDE DEF p, q
    <3> QED
      BY <3>1, <3>2, <3>3 DEF StreamInv
  <2> QED
    BY <1>3, <2>1, <2>2 DEF WriteRequest
<1>4. CASE GetLine
  <2>1. session \in Session
    BY <1>4 DEF GetLine, NameInv, InSession
  <2>2. queue[session] \in Seq(Line) /\ queue[session] # <<>>
    BY <1>4, <2>1 DEF GetLine, StreamInv
  <2> DEFINE q == Tail(queue[session])
  <2>3. q \in Seq(Line) /\ Len(q) <= Len(queue[session]) /\ Len(q) \in Nat
    BY <2>2
  <2>4. queue' = [queue EXCEPT ![session] = q] /\ UNCHANGED <<pipe, reader>>
    BY <1>4 DEF GetLine
  <2>5. Len(queue[session]) <= QueueSize /\ Len(queue[session]) \in Nat
    BY <2>1, <2>2 DEF StreamInv
  <2> HIDE DEF q
  <2>6. Len(q) <= QueueSize
    BY <1>c, <2>3, <2>5
  <2> QED
    BY <2>1, <2>3, <2>4, <2>6 DEF StreamInv
<1>5. CASE Clear
  <2>1. session \in Session
    BY <1>5 DEF Clear, NameInv
  <2> DEFINE p == Ignored(pipe[session])  q == Ignored(queue[session])
  <2>2. /\ p \in Seq(Line) /\ Len(p) = Len(pipe[session])
        /\ q \in Seq(Line) /\ Len(q) = Len(queue[session])
    BY <2>1, RewrittenLines DEF StreamInv
  <2>3. /\ pipe' = [pipe EXCEPT ![session] = p] /\ queue' = [queue EXCEPT ![session] = q]
        /\ reader' = reader
    BY <1>5 DEF Clear
  <2> HIDE DEF p, q
  <2> QED
    BY <2>1, <2>2, <2>3 DEF StreamInv
<1>6. ASSUME NEW s \in Session, NEW line \in Line, Put(s, line)
      PROVE  /\ queue' \in [Session -> Seq(Line)]
             /\ \A r \in Session : Len(queue'[r]) <= QueueSize
  <2> DEFINE q == Append(queue[s], line)
  <2>1. queue[s] \in Seq(Line) /\ Len(queue[s]) < QueueSize
    BY <1>6 DEF StreamInv, Put
  <2>2. q \in Seq(Line) /\ Len(q) <= QueueSize
    BY <1>c, <2>1
  <2>3. queue' = [queue EXCEPT ![s] = q]
    BY <1>6 DEF Put
  <2> HIDE DEF q
  <2> QED
    BY <2>2, <2>3 DEF StreamInv
<1>7. ASSUME NEW s \in Session, ReaderMoves(s) PROVE StreamInv'
  <2>1. pipe[s] \in Seq(Line) /\ pipe[s] # <<>>
    BY <1>7 DEF ReaderMoves, StreamInv
  <2>2. Head(pipe[s]) \in Line /\ Tail(pipe[s]) \in Seq(Line)
        /\ Len(Tail(pipe[s])) <= Len(pipe[s]) /\ Len(Tail(pipe[s])) \in Nat
    BY <2>1
  <2> DEFINE p == Tail(pipe[s])
  <2>3. pipe' = [pipe EXCEPT ![s] = p] /\ reader' = reader /\ Put(s, Head(pipe[s]))
    BY <1>7 DEF ReaderMoves
  <2>4. Len(pipe[s]) <= PipeSize /\ Len(pipe[s]) \in Nat
    BY <2>1 DEF StreamInv
  <2>5. p \in Seq(Line) /\ Len(p) <= PipeSize
    BY <1>c, <2>2, <2>4
  <2>6. queue' \in [Session -> Seq(Line)] /\ \A r \in Session : Len(queue'[r]) <= QueueSize
    BY <1>6, <2>2, <2>3
  <2> HIDE DEF p
  <2> QED
    BY <2>3, <2>5, <2>6 DEF StreamInv
<1>8. ASSUME NEW s \in Session, ReaderEnds(s) PROVE StreamInv'
  <2>1. /\ queue' \in [Session -> Seq(Line)] /\ \A r \in Session : Len(queue'[r]) <= QueueSize
    BY <1>6, <1>8 DEF ReaderEnds, Line
  <2> QED
    BY <1>8, <2>1 DEF ReaderEnds, StreamInv
<1>9. ASSUME NEW s \in Session, ChildWrites(s) PROVE StreamInv'
  <2>1. Sayings(s) \subseteq Line
    BY DEF Sayings, Line
  <2>2. PICK line \in Sayings(s) : pipe' = [pipe EXCEPT ![s] = Append(@, line)]
    BY <1>9 DEF ChildWrites
  <2> DEFINE p == Append(pipe[s], line)
  <2>3. pipe[s] \in Seq(Line) /\ Len(pipe[s]) < PipeSize /\ line \in Line
    BY <1>9, <2>1 DEF ChildWrites, StreamInv
  <2>4. p \in Seq(Line) /\ Len(p) <= PipeSize
    BY <1>c, <2>3
  <2>5. pipe' = [pipe EXCEPT ![s] = p] /\ UNCHANGED <<queue, reader>>
    BY <1>9, <2>2 DEF ChildWrites
  <2> HIDE DEF p
  <2> QED
    BY <2>4, <2>5 DEF StreamInv
<1>10. \/ UNCHANGED streams \/ Publish \/ WriteRequest \/ GetLine \/ Clear
       \/ \E s \in Session : ReaderMoves(s) \/ ReaderEnds(s) \/ ChildWrites(s)
  <2>1. CASE Poller
    BY <2>1 DEF Poller, CheckStop, Spawn, SpawnFails, Await, GetNothing, Pause, NextRequest,
                Teardown, Reap, Retry
  <2>2. CASE Close \/ Closing \/ Tick
    BY <2>2 DEF Close, Closing, CloseLooks, CloseTerminates, CloseJoins, CloseKills, Tick
  <2>3. ASSUME NEW s \in Session, ChildDies(s) PROVE UNCHANGED streams
    BY <2>3 DEF ChildDies
  <2>4. CASE UNCHANGED vars
    BY <2>4 DEF vars, streams
  <2> QED
    BY <2>1, <2>2, <2>3, <2>4 DEF Next, Reader
<1> QED
    BY <1>1, <1>2, <1>3, <1>4, <1>5, <1>7, <1>8, <1>9, <1>10

LEMMA NameStep == IInv /\ NameInv /\ [Next]_vars => NameInv'
<1> SUFFICES ASSUME IInv, NameInv, [Next]_vars PROVE NameInv'
    OBVIOUS
<1>0. session \in 0..MaxSessions /\ MaxSessions \in Nat /\ StaleAfter \in Nat /\ None \notin Nat
    BY QuotaAssumption, ConstantsAreNatural DEF IInv, Types
<1> USE DEF InSession
<1>1. CASE Poller
  <2> USE DEF Goto, shared, processes, closer, NameInv
  <2>1. CASE CheckStop
    BY <2>1 DEF CheckStop
  <2>2. CASE Spawn
    BY <2>2, <1>0 DEF Spawn, Session
  <2>3. CASE SpawnFails
    BY <2>3 DEF SpawnFails
  <2>4. CASE Publish
    BY <2>4 DEF Publish
  <2>5. CASE WriteRequest
    BY <2>5 DEF WriteRequest, Raise
  <2>6. CASE Await
    BY <2>6 DEF Await, Raise
  <2>7. CASE GetNothing
    BY <2>7 DEF GetNothing
  <2>8. CASE GetLine
    <3>1. 0 \in 0..(StaleAfter + 1)
      BY <1>0
    <3>2. pc' \in {"teardown", "await", "next", "pause"} /\ session' = session
      BY <2>8 DEF GetLine, Raise, Skip
    <3>3. snapshot' \in {snapshot, 0} /\ error' \in BOOLEAN /\ raised' \in BOOLEAN
      BY <2>8 DEF GetLine, Raise, Skip
    <3>4. pc = "get" /\ UNCHANGED <<stop, process, written, closing>>
      BY <2>8 DEF GetLine
    <3> QED
      BY <3>1, <3>2, <3>3, <3>4
  <2>9. CASE Pause
    BY <2>9 DEF Pause
  <2>10. CASE NextRequest
    BY <2>10 DEF NextRequest
  <2>11. CASE Teardown
    BY <2>11 DEF Teardown
  <2>12. CASE Reap
    BY <2>12 DEF Reap
  <2>13. CASE Clear
    BY <2>13 DEF Clear, AfterSession
  <2>14. CASE Retry
    BY <2>14 DEF Retry
  <2> QED
    BY <1>1, <2>1, <2>2, <2>3, <2>4, <2>5, <2>6, <2>7, <2>8, <2>9, <2>10, <2>11, <2>12, <2>13,
       <2>14 DEF Poller
<1>2. ASSUME NEW s \in Session, Reader(s) \/ ChildWrites(s) \/ ChildDies(s) PROVE NameInv'
    BY <1>2 DEF Reader, ReaderMoves, ReaderEnds, ChildWrites, ChildDies, shared, poller, processes,
                closer, NameInv
<1>3. CASE Close
    BY <1>3 DEF Close, poller, processes, NameInv
<1>4. CASE Closing
    BY <1>4 DEF Closing, CloseLooks, CloseTerminates, CloseJoins, CloseKills, shared, poller,
                processes, NameInv
<1>5. CASE Tick
  <2>1. snapshot' \in 0..(StaleAfter + 1) \cup {None} /\ written' \in Nat
    BY <1>5, <1>0 DEF Tick, Smaller, NameInv
  <2> QED
    BY <1>5, <2>1 DEF Tick, NameInv
<1>6. CASE UNCHANGED vars
    BY <1>6 DEF vars, shared, poller, processes, closer, NameInv
<1> QED
    BY <1>1, <1>2, <1>3, <1>4, <1>5, <1>6 DEF Next

\* TypeOK, for every value of the constants: no queue or pipe outgrows its
\* bound, and close() never signals a child that was never started.
THEOREM TypeCorrect == Spec => []TypeOK
<1>1. Init => NameInv /\ StreamInv
  <2>1. QueueSize \in Nat /\ PipeSize \in Nat
    BY QuotaAssumption
  <2>2. Init => NameInv
    <3>1. Init => stop \in BOOLEAN /\ error \in BOOLEAN /\ raised \in BOOLEAN
      BY DEF Init
    <3>2. Init => pc = "check" /\ snapshot = None /\ process = None /\ closing = None /\ written = 0
      BY DEF Init
    <3> QED
      BY <3>1, <3>2 DEF NameInv, InSession
  <2>3. <<>> \in Seq(Line) /\ Len(<<>>) = 0
    OBVIOUS
  <2>4. Init => StreamInv
    BY <2>1, <2>3 DEF Init, StreamInv
  <2> QED
    BY <2>2, <2>4
<1>2. IInv /\ (NameInv /\ StreamInv) /\ [Next]_vars => (NameInv /\ StreamInv)'
    BY NameStep, StreamStep
<1>3. IInv /\ AgeInv /\ NameInv /\ StreamInv => TypeOK
  <2> SUFFICES ASSUME IInv, AgeInv, NameInv, StreamInv PROVE TypeOK
    OBVIOUS
  <2>1. ASSUME NEW lines \in Seq(Line) PROVE ToSet(lines) \subseteq Line
    BY <2>1 DEF ToSet
  <2>2. /\ {stop, error, raised} \subseteq BOOLEAN
        /\ snapshot \in 0..(StaleAfter + 1) \cup {None}
        /\ process \in Session \cup {None} /\ closing \in Session \cup {None}
        /\ written \in Nat
    BY DEF NameInv
  <2>3. \A s \in Session :
          /\ ToSet(pipe[s]) \subseteq Message \cup {Noise, Eof}
          /\ ToSet(queue[s]) \subseteq Message \cup {Noise, Eof}
          /\ Len(pipe[s]) <= PipeSize /\ Len(queue[s]) <= QueueSize
    BY <2>1 DEF StreamInv, Line
  <2> QED
    BY <2>2, <2>3 DEF TypeOK, IInv, Types, AgeInv, StreamInv, InSession
<1> QED
    BY <1>1, <1>2, <1>3, InvariantHolds, AgesAreBounded, PTL DEF Spec

-----------------------------------------------------------------------------
(* The configuration: what load_config guarantees of any file whatever, and  *)
(* for which files the daemon is sure to start.                              *)

CONSTANTS Files, TooLarge
VARIABLES config_file, config, service
Config == INSTANCE DaemonConfig WITH file <- config_file, process <- service

LEMMA FieldsListed ==
    Config!Field = {"brightness", "frame_interval_ms", "heartbeat_interval_s",
             "offline_timeout_s", "success_hold_s", "transient_error_s",
             "stale_session_s", "quota_refresh_interval_s", "quota_stale_after_s"}
BY DEF Config!Field, Config!Ranges

\* The default of every field is within its limits, and so is the field once
\* it fits.
LEMMA FittingInRange ==
    ASSUME NEW f \in Config!Field, NEW value \in Int
    PROVE  /\ Config!InRange(f, Config!Fitting(f, value))
           /\ Config!Fitting(f, value) \in Int
BY FieldsListed DEF Config!Fitting, Config!InRange, Config!Ranges, Config!Limits

LEMMA NumbersAreIntegers ==
    ASSUME NEW raw \in Config!File, Config!Loadable(raw), NEW f \in Config!Field
    PROVE  raw[f] \in Int
BY DEF Config!File, Config!Loadable

\* The result field by field: two are repaired, the others only fitted.
LEMMA LoadedFields ==
    ASSUME NEW raw \in Config!File
    PROVE  LET loaded == Config!LoadConfig(raw)
               fitted(f) == Config!Fitting(f, raw[f])
           IN  /\ loaded["offline_timeout_s"] =
                      Config!Repaired("offline_timeout_s", fitted("offline_timeout_s"),
                               fitted("heartbeat_interval_s"))
               /\ loaded["quota_stale_after_s"] =
                      Config!Repaired("quota_stale_after_s", fitted("quota_stale_after_s"),
                               fitted("quota_refresh_interval_s"))
               /\ \A f \in Config!Field \ {"offline_timeout_s", "quota_stale_after_s"} :
                      loaded[f] = fitted(f)
BY FieldsListed DEF Config!LoadConfig

\* Every field of a loaded configuration is within the limits the code gives
\* for it, repairs included, whatever the file held that load_config could read.
THEOREM LoadedInRange ==
    ASSUME NEW raw \in Config!File, Config!Loadable(raw), NEW f \in Config!Field
    PROVE  Config!InRange(f, Config!LoadConfig(raw)[f])
<1> DEFINE fitted(g) == Config!Fitting(g, raw[g])
<1>1. \A g \in Config!Field : Config!InRange(g, fitted(g)) /\ fitted(g) \in Int
  BY FittingInRange, NumbersAreIntegers
<1>2. CASE f = "offline_timeout_s"
  <2>1. Config!LoadConfig(raw)[f] =
            Config!Repaired(f, fitted(f), fitted("heartbeat_interval_s"))
    BY <1>2, LoadedFields
  <2>2. Config!LoadConfig(raw)[f] \in {fitted(f), 120}
    BY <1>2, <2>1 DEF Config!Repaired, Config!Ranges, Config!Limits
  <2>3. Config!InRange(f, 120)
    BY <1>2 DEF Config!InRange, Config!Ranges, Config!Limits
  <2> QED
    BY <1>1, <2>2, <2>3
<1>3. CASE f = "quota_stale_after_s"
  <2>1. Config!LoadConfig(raw)[f] =
            Config!Repaired(f, fitted(f), fitted("quota_refresh_interval_s"))
    BY <1>3, LoadedFields
  <2>2. Config!LoadConfig(raw)[f] \in {fitted(f), 9000}
    BY <1>3, <2>1 DEF Config!Repaired, Config!Ranges, Config!Limits
  <2>3. Config!InRange(f, 9000)
    BY <1>3 DEF Config!InRange, Config!Ranges, Config!Limits
  <2> QED
    BY <1>1, <2>2, <2>3
<1>4. CASE f \notin {"offline_timeout_s", "quota_stale_after_s"}
  <2>1. Config!LoadConfig(raw)[f] = fitted(f)
    BY <1>4, LoadedFields
  <2> QED
    BY <1>1, <2>1
<1> QED
  BY <1>2, <1>3, <1>4

\* The OFFLINE timeout the daemon works with is two heartbeats or more: the
\* default it is repaired with covers the longest heartbeat.
THEOREM OfflineCoversHeartbeats ==
    ASSUME NEW raw \in Config!File, Config!Loadable(raw)
    PROVE  Config!LoadConfig(raw)["offline_timeout_s"]
               >= 2 * Config!LoadConfig(raw)["heartbeat_interval_s"]
<1> DEFINE beat == Config!Fitting("heartbeat_interval_s", raw["heartbeat_interval_s"])
           timeout == Config!Fitting("offline_timeout_s", raw["offline_timeout_s"])
<1>1. Config!InRange("heartbeat_interval_s", beat) /\ beat \in Int /\ timeout \in Int
  BY FittingInRange, FieldsListed, NumbersAreIntegers
<1>2. beat \in 20 .. 50
  BY <1>1 DEF Config!InRange, Config!Ranges, Config!Limits
<1>3. Config!LoadConfig(raw)["heartbeat_interval_s"] = beat
  BY LoadedFields, FieldsListed
<1>4. Config!LoadConfig(raw)["offline_timeout_s"] =
          Config!Repaired("offline_timeout_s", timeout, beat)
  BY LoadedFields
<1>5. Config!Repaired("offline_timeout_s", timeout, beat) >= 2 * beat
  BY <1>1, <1>2 DEF Config!Repaired, Config!Ranges, Config!Limits
<1> QED
  BY <1>3, <1>4, <1>5

LEMMA RepairedStaleTime ==
    ASSUME NEW stale \in Int, NEW refresh \in Int, refresh > 0,
           NEW n \in 1 .. 2, n * refresh <= 9000
    PROVE  Config!Repaired("quota_stale_after_s", stale, refresh) >= n * refresh
<1>1. Config!Repaired("quota_stale_after_s", stale, refresh) =
          IF stale < 2 * refresh THEN 9000 ELSE stale
  BY DEF Config!Repaired, Config!Ranges, Config!Limits
<1>2. CASE n = 1
  BY <1>1, <1>2
<1>3. CASE n = 2
  BY <1>1, <1>3
<1> QED
  BY <1>2, <1>3

LEMMA FittingRefresh ==
    ASSUME NEW value \in Int
    PROVE  /\ Config!Fitting("quota_refresh_interval_s", value) \in Int
           /\ Config!Fitting("quota_refresh_interval_s", value) >= 300
           /\ \/ Config!Fitting("quota_refresh_interval_s", value) = value
              \/ Config!Fitting("quota_refresh_interval_s", value) = 600
<1>1. Config!InRange("quota_refresh_interval_s", value) <=> 300 <= value /\ value <= 36000
  BY SMT DEF Config!InRange, Config!Ranges, Config!Limits
<1>2. Config!Fitting("quota_refresh_interval_s", value) =
          IF 300 <= value /\ value <= 36000 THEN value ELSE 600
  BY <1>1, SMT DEF Config!Fitting, Config!Ranges, Config!Limits
<1> QED
  BY <1>2, SMT

\* The same does not hold of the quota times.  A refresh interval of up to 900
\* seconds is covered by the stale time, one of up to 450 seconds twice.
LEMMA StaleCoversRefresh ==
    ASSUME NEW raw \in Config!File, Config!Loadable(raw), NEW n \in 1 .. 2,
           n * raw["quota_refresh_interval_s"] <= 9000
    PROVE  /\ Config!LoadConfig(raw)["quota_refresh_interval_s"] > 0
           /\ Config!LoadConfig(raw)["quota_stale_after_s"]
                  >= n * Config!LoadConfig(raw)["quota_refresh_interval_s"]
<1> raw["quota_refresh_interval_s"] \in Int
  BY FieldsListed, NumbersAreIntegers
<1>1. PICK refresh \in Int :
          refresh = Config!Fitting("quota_refresh_interval_s",
                                   raw["quota_refresh_interval_s"])
  BY FittingRefresh
<1>2. PICK stale \in Int :
          stale = Config!Fitting("quota_stale_after_s",
                                 raw["quota_stale_after_s"])
  <2>1. "quota_stale_after_s" \in Config!Field
    BY FieldsListed
  <2>2. raw["quota_stale_after_s"] \in Int
    BY <2>1, NumbersAreIntegers
  <2> QED
    BY <2>1, <2>2, FittingInRange
<1>3. refresh > 0
  BY <1>1, FittingRefresh
<1>4. n * refresh <= 9000
  <2>1. refresh = raw["quota_refresh_interval_s"] \/ refresh = 600
    BY <1>1, FittingRefresh
  <2> QED
    BY <2>1
<1>5. Config!LoadConfig(raw)["quota_refresh_interval_s"] = refresh
  BY <1>1, LoadedFields, FieldsListed
<1>6. Config!LoadConfig(raw)["quota_stale_after_s"] =
          Config!Repaired("quota_stale_after_s", stale, refresh)
  BY <1>1, <1>2, LoadedFields
<1>7. Config!Repaired("quota_stale_after_s", stale, refresh) >= n * refresh
  BY <1>3, <1>4, RepairedStaleTime
<1> QED
  BY <1>3, <1>5, <1>6, <1>7

\* With such a refresh interval a configured quota never grows stale between
\* two answers: what QuotaSource assumes of its times.
THEOREM QuotaTimesFit ==
    ASSUME NEW raw \in Config!File, Config!Loadable(raw),
           raw["quota_refresh_interval_s"] <= 4500
    PROVE  Config!LoadConfig(raw)["quota_stale_after_s"]
               >= 2 * Config!LoadConfig(raw)["quota_refresh_interval_s"]
<1>1. raw["quota_refresh_interval_s"] \in Int
  BY FieldsListed, NumbersAreIntegers
<1>2. 2 * raw["quota_refresh_interval_s"] <= 9000
  BY <1>1
<1> QED
  BY <1>2, StaleCoversRefresh

\* The service fails for one of two files only: one with a number that is too
\* large for float(), on which load_config raises, and one that asks for a refresh
\* interval of more than 900 seconds, whose result a constructor may refuse.
FailsWithCause ==
    service = "failed" =>
        ~Config!Loadable(config_file) \/ config_file["quota_refresh_interval_s"] > 9000

\* Every other file, whatever it holds, is one the daemon starts with, at the
\* first start, after an edit and at every restart (load_config and the
\* constructors that check its result).
THEOREM FailsForTwoFilesOnly ==
    Files \subseteq Config!File => (Config!Spec => []FailsWithCause)
<1> SUFFICES ASSUME Files \subseteq Config!File PROVE Config!Spec => []FailsWithCause
  OBVIOUS
<1> DEFINE Loaded ==
        /\ config_file \in Files
        /\ service = "constructing" =>
              Config!Loadable(config_file) /\ config = Config!LoadConfig(config_file)
<1>1. ASSUME NEW raw \in Files, Config!Loadable(raw),
             ~(raw["quota_refresh_interval_s"] > 9000)
      PROVE  /\ Config!QuotaTimingOK(Config!LoadConfig(raw))
             /\ Config!DurationsOK(Config!LoadConfig(raw))
  <2>1. raw \in Config!File /\ raw["quota_refresh_interval_s"] \in Int
    BY <1>1, FieldsListed, NumbersAreIntegers
  <2>2. 1 * raw["quota_refresh_interval_s"] <= 9000
    BY <1>1, <2>1
  <2>3. Config!LoadConfig(raw)["quota_refresh_interval_s"] \in Int
    BY <2>1, LoadedFields, FittingInRange, FieldsListed
  <2>4. Config!QuotaTimingOK(Config!LoadConfig(raw))
    BY <1>1, <2>1, <2>2, <2>3, StaleCoversRefresh DEF Config!QuotaTimingOK
  <2>5. ASSUME NEW f \in {"success_hold_s", "transient_error_s", "stale_session_s"}
        PROVE  /\ Config!LoadConfig(raw)[f] \in Int
               /\ Config!InRange(f, Config!LoadConfig(raw)[f])
    <3>1. f \in Config!Field /\ f \notin {"offline_timeout_s", "quota_stale_after_s"}
      BY FieldsListed
    <3>2. Config!LoadConfig(raw)[f] = Config!Fitting(f, raw[f]) /\ raw[f] \in Int
      BY <1>1, <2>1, <3>1, LoadedFields, NumbersAreIntegers
    <3> QED
      BY <3>1, <3>2, FittingInRange
  <2>6. Config!DurationsOK(Config!LoadConfig(raw))
    BY <2>5 DEF Config!DurationsOK, Config!InRange, Config!Ranges, Config!Limits
  <2> QED
    BY <2>4, <2>6
<1>2. Config!Init => Loaded /\ FailsWithCause
  BY DEF Config!Init, FailsWithCause
<1>3. Loaded /\ FailsWithCause /\ [Config!Next]_Config!vars
          => (Loaded /\ FailsWithCause)'
  <2> SUFFICES ASSUME Loaded, FailsWithCause, [Config!Next]_Config!vars
               PROVE  (Loaded /\ FailsWithCause)'
    OBVIOUS
  <2>1. CASE Config!Load
    BY <2>1 DEF Config!Load, FailsWithCause
  <2>2. CASE Config!Construct
    BY <1>1, <2>2 DEF Config!Construct, FailsWithCause
  <2>3. CASE Config!Restart
    BY <2>3 DEF Config!Restart, FailsWithCause
  <2>4. ASSUME NEW new \in Files, Config!Edit(new)
        PROVE  (Loaded /\ FailsWithCause)'
    BY <2>4 DEF Config!Edit, FailsWithCause
  <2>5. CASE UNCHANGED Config!vars
    BY <2>5 DEF Config!vars, FailsWithCause
  <2> QED
    BY <2>1, <2>2, <2>3, <2>4, <2>5 DEF Config!Next
<1> QED
  BY <1>2, <1>3, PTL DEF Config!Spec
=============================================================================
