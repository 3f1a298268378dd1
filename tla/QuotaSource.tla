---------------------------- MODULE QuotaSource ----------------------------
(***************************************************************************)
(* CodexQuotaSource: a background thread (the poller) talks to a child     *)
(* process, the Codex app server, over its pipes.  One reader thread per   *)
(* session moves the lines of the child's stdout to a bounded queue.  The  *)
(* daemon's main thread reads the latest snapshot and, at the end, closes  *)
(* the source: it stops the poller and must leave no child behind.         *)
(*                                                                         *)
(* Sessions are numbered in the order of their Popen.  Every wait of the   *)
(* code is a countdown in ticks; a tick passes only when no thread has     *)
(* anything to do, so a thread is late by less than a tick.  Popen takes   *)
(* SpawnTicks at most.  The child may answer, refuse, talk nonsense,       *)
(* repeat itself, ignore SIGTERM, or die at any time.                      *)
(***************************************************************************)
EXTENDS Integers, Sequences, SequencesExt

CONSTANTS
    SpawnTicks,       \* longest Popen
    GetTimeout,       \* the 0.5 s of messages.get
    ResponseTimeout,  \* response_timeout_s
    KillWait,         \* the 1.0 s of process.wait
    JoinTimeout,      \* the 2.0 s of thread.join
    Refresh,          \* refresh_interval_s
    RetryLimit,       \* the 30 s that cap the retry delay
    StaleAfter,       \* stale_after_s
    QueueSize,        \* maxsize of the queue
    None,
    MaxSessions,      \* bound: children started
    PipeSize,         \* bound: lines in a pipe and in the reader's hand
    LinesPerTick      \* bound: lines a child writes in one tick

\* __init__ demands positive intervals.  load_config asks for a refresh
\* interval of 30 s or more, longer than the response timeout and the wait
\* for the child together, and, as long as it is 450 s or less, for a stale
\* time of two such intervals (QuotaProofs!QuotaTimesFit).
ASSUME QuotaAssumption ==
    /\ {SpawnTicks, GetTimeout, ResponseTimeout, KillWait, JoinTimeout,
        Refresh, RetryLimit, StaleAfter, QueueSize, MaxSessions, PipeSize,
        LinesPerTick} \subseteq Nat \ {0}
    /\ Refresh >= ResponseTimeout + KillWait
    /\ StaleAfter >= 2 * Refresh
    /\ None \notin Nat

\* 1.0 s for the child and half a second to notice the stop are less than the
\* 2.0 s of the join; of Popen the code expects as much.
ASSUME JoinAssumption ==
    /\ GetTimeout + KillWait < JoinTimeout
    /\ SpawnTicks + KillWait < JoinTimeout

Smaller(a, b) == IF a < b THEN a ELSE b

RetryDelay == Smaller(RetryLimit, Refresh)

Session == 1..MaxSessions

\* What a line of stdout is to _read_response.  A message has the id of a
\* request, the last one or an `old' one, and carries what that request asks
\* for or not (an error, no result, percentages that are none).  All other
\* lines, messages without a request's id or no messages at all, are noise.
Message == [kind : {"good", "bad"}, old : BOOLEAN]
Noise == [kind |-> "noise"]
Eof == [kind |-> "end"]

VARIABLES
    stop,      \* the event _stop
    snapshot,  \* age of _snapshot, or None
    error,     \* whether _last_error is set
    process,   \* the session whose child _process holds, or None
    pc,        \* where the poller is
    timer,     \* what is left of the poller's present wait
    deadline,  \* what is left of the response timeout
    request,   \* what was asked last: nothing, `initialize' or the quota
    raised,    \* the session ends with an exception
    session,   \* sessions started
    child,     \* per session: alive, told to terminate, or dead
    written,   \* lines written by children in this tick
    pipe,      \* per session: lines the reader has not put in the queue
    queue,     \* per session: the queue `messages'
    reader,    \* per session: whether the reader runs
    main,      \* where close() is
    closing,   \* close's local variable `process'
    join       \* what is left of thread.join

shared == <<stop, snapshot, error, process>>
poller == <<pc, timer, deadline, request, raised, session>>
processes == <<child, written>>
streams == <<pipe, queue, reader>>
closer == <<main, closing, join>>
vars == <<shared, poller, processes, streams, closer>>

Alive(s) == child[s] \in {"running", "terminated"}

Init ==
    /\ stop = FALSE /\ snapshot = None /\ error = FALSE /\ process = None
    /\ pc = "check" /\ timer = 0 /\ deadline = 0 /\ request = "none"
    /\ raised = FALSE /\ session = 0
    /\ child = [s \in Session |-> "unborn"] /\ written = 0
    /\ pipe = [s \in Session |-> <<>>] /\ queue = [s \in Session |-> <<>>]
    /\ reader = [s \in Session |-> "none"]
    /\ main = "open" /\ closing = None /\ join = 0

-----------------------------------------------------------------------------
(* The poller: _run and _session *)

\* The poller goes on at p, where it may have to wait for t ticks.
Goto(p, t) == pc' = p /\ timer' = t

\* An exception leaves the session: its `finally' is next.
Raise == Goto("teardown", 0) /\ raised' = TRUE /\ deadline' = 0

\* while not self._stop.is_set(), in _run
CheckStop ==
    /\ pc = "check"
    /\ IF stop THEN Goto("ended", 0) ELSE Goto("spawn", SpawnTicks)
    /\ UNCHANGED <<shared, deadline, request, raised, session, processes,
                   streams, closer>>

\* Popen returns with a running child that nobody else knows of yet.
Spawn ==
    /\ pc = "spawn" /\ session < MaxSessions
    /\ session' = session + 1
    /\ child' = [child EXCEPT ![session + 1] = "running"]
    /\ Goto("publish", 0)
    /\ UNCHANGED <<shared, deadline, request, raised, written, streams,
                   closer>>

\* Popen raises OSError: there is nothing to clean up.
SpawnFails ==
    /\ pc = "spawn"
    /\ error' = TRUE
    /\ Goto("retry", RetryDelay)
    /\ UNCHANGED <<stop, snapshot, process, deadline, request, raised,
                   session, processes, streams, closer>>

\* The child becomes visible to close(), and the reader starts.
Publish ==
    /\ pc = "publish"
    /\ process' = session
    /\ reader' = [reader EXCEPT ![session] = "running"]
    /\ Goto("write", 0)
    /\ UNCHANGED <<stop, snapshot, error, deadline, request, raised, session,
                   processes, pipe, queue, closer>>

\* What the child said to earlier requests.
Outdated(lines) ==
    [i \in DOMAIN lines |->
        IF lines[i] \in Message THEN [lines[i] EXCEPT !.old = TRUE]
        ELSE lines[i]]

\* _write_message, for `initialize' or, once that is answered, for the
\* notification and each quota request.  A dead child is a broken pipe.
WriteRequest ==
    /\ pc = "write"
    /\ IF Alive(session)
       THEN /\ request' = IF request = "none" THEN "initialize" ELSE "quota"
            /\ deadline' = ResponseTimeout
            /\ pipe' = [pipe EXCEPT ![session] = Outdated(@)]
            /\ queue' = [queue EXCEPT ![session] = Outdated(@)]
            /\ Goto("await", 0) /\ UNCHANGED raised
       ELSE Raise /\ UNCHANGED <<request, pipe, queue>>
    /\ UNCHANGED <<shared, session, processes, reader, closer>>

\* Plausible bug: the wait for a line is not cut into half seconds.
Bug_WholeDeadline ==
    /\ pc = "await"
    /\ IF stop \/ deadline = 0
       THEN Raise
       ELSE Goto("get", deadline) /\ UNCHANGED <<deadline, raised>>
    /\ UNCHANGED <<shared, request, session, processes, streams, closer>>
\* The head of _read_response's loop: stopped, timed out, or wait for a line.
Await ==
    /\ pc = "await"
    /\ IF stop \/ deadline = 0
       THEN Raise
       ELSE Goto("get", Smaller(deadline, GetTimeout))
            /\ UNCHANGED <<deadline, raised>>
    /\ UNCHANGED <<shared, request, session, processes, streams, closer>>

\* queue.Empty
GetNothing ==
    /\ pc = "get" /\ timer = 0 /\ queue[session] = <<>>
    /\ Goto("await", 0)
    /\ UNCHANGED <<shared, deadline, request, raised, session, processes,
                   streams, closer>>

\* Plausible bug: the id of an answer is not compared.
Bug_AnyId(line) == line \in Message
Answers(line) == line \in Message /\ ~line.old

\* Plausible bug: the timeout starts again with every line.
Bug_DeadlineRenewed ==
    Goto("await", 0) /\ deadline' = ResponseTimeout /\ UNCHANGED raised
\* A line that is not the answer leaves the deadline where it was.
Skip == Goto("await", 0) /\ UNCHANGED <<deadline, raised>>

\* A line is taken from the queue: the end of stdout, one to skip, an answer
\* that is no use, or the answer.  The answer to a quota request is parsed
\* and becomes the snapshot.
GetLine ==
    /\ pc = "get" /\ queue[session] # <<>>
    /\ LET line == Head(queue[session])
       IN  \/ /\ line = Eof \/ (Answers(line) /\ line.kind = "bad")
              /\ Raise /\ UNCHANGED <<snapshot, error>>
           \/ /\ line # Eof /\ ~Answers(line)
              /\ Skip /\ UNCHANGED <<snapshot, error>>
           \/ /\ Answers(line) /\ line.kind = "good"
              /\ IF request = "initialize"
                 THEN Goto("next", 0) /\ UNCHANGED <<snapshot, error>>
                 ELSE /\ snapshot' = 0 /\ error' = FALSE
                      /\ Goto("pause", Refresh)
              /\ deadline' = 0 /\ UNCHANGED raised
    /\ queue' = [queue EXCEPT ![session] = Tail(@)]
    /\ UNCHANGED <<stop, process, request, session, processes, pipe, reader,
                   closer>>

\* if self._stop.wait(self.refresh_interval_s): break
Pause ==
    /\ pc = "pause" /\ (stop \/ timer = 0)
    /\ Goto("next", 0)
    /\ UNCHANGED <<shared, deadline, request, raised, session, processes,
                   streams, closer>>

\* while not self._stop.is_set(), in _session
NextRequest ==
    /\ pc = "next"
    /\ Goto(IF stop THEN "teardown" ELSE "write", 0)
    /\ UNCHANGED <<shared, deadline, request, raised, session, processes,
                   streams, closer>>

\* Plausible bug: a child that was told to terminate is taken for dead.
Bug_NoReap ==
    /\ pc = "teardown"
    /\ child' = [child EXCEPT ![session] =
                    IF Alive(session) THEN "terminated" ELSE @]
    /\ Goto("clear", 0)
    /\ UNCHANGED <<shared, deadline, request, raised, session, written,
                   streams, closer>>
\* finally: a child that still runs is told to terminate and given KillWait.
Teardown ==
    /\ pc = "teardown"
    /\ IF Alive(session)
       THEN /\ child' = [child EXCEPT ![session] = "terminated"]
            /\ Goto("reap", KillWait)
       ELSE Goto("clear", 0) /\ UNCHANGED child
    /\ UNCHANGED <<shared, deadline, request, raised, session, written,
                   streams, closer>>

\* process.wait returns, or times out and the child is killed.
Reap ==
    /\ pc = "reap" /\ (~Alive(session) \/ timer = 0)
    /\ child' = [child EXCEPT ![session] = "dead"]
    /\ Goto("clear", 0)
    /\ UNCHANGED <<shared, deadline, request, raised, session, written,
                   streams, closer>>

\* The lines left of a session are never looked at again.
Ignored(lines) == [i \in DOMAIN lines |-> Noise]

\* Plausible bug: only a Popen that fails is recorded as an error.
Bug_ErrorForgotten ==
    /\ IF ~raised /\ stop THEN Goto("ended", 0) ELSE Goto("retry", RetryDelay)
    /\ UNCHANGED error
\* _run after a session: a return because of a stop ends the loop, anything
\* else is an error.
AfterSession ==
    IF ~raised /\ stop THEN Goto("ended", 0) /\ UNCHANGED error
    ELSE Goto("retry", RetryDelay) /\ error' = TRUE

\* The end of the session.
Clear ==
    /\ pc = "clear"
    /\ process' = IF process = session THEN None ELSE process
    /\ AfterSession
    /\ request' = "none" /\ raised' = FALSE
    /\ pipe' = [pipe EXCEPT ![session] = Ignored(@)]
    /\ queue' = [queue EXCEPT ![session] = Ignored(@)]
    /\ UNCHANGED <<stop, snapshot, deadline, session, processes, reader,
                   closer>>

\* if self._stop.wait(retry_delay): break
Retry ==
    /\ pc = "retry" /\ (stop \/ timer = 0)
    /\ Goto(IF stop THEN "ended" ELSE "check", 0)
    /\ UNCHANGED <<shared, deadline, request, raised, session, processes,
                   streams, closer>>

Poller ==
    \/ CheckStop \/ Spawn \/ SpawnFails \/ Publish \/ WriteRequest \/ Await
    \/ GetNothing \/ GetLine \/ Pause \/ NextRequest \/ Teardown \/ Reap
    \/ Clear \/ Retry

-----------------------------------------------------------------------------
(* The reader of session s: _read_stdout *)

\* messages.put blocks while the queue is full.
Put(s, line) ==
    /\ reader[s] = "running" /\ Len(queue[s]) < QueueSize
    /\ queue' = [queue EXCEPT ![s] = Append(@, line)]

ReaderMoves(s) ==
    /\ pipe[s] # <<>>
    /\ Put(s, Head(pipe[s]))
    /\ pipe' = [pipe EXCEPT ![s] = Tail(@)]
    /\ UNCHANGED <<shared, poller, processes, reader, closer>>

\* finally: messages.put(None)
ReaderEnds(s) ==
    /\ pipe[s] = <<>> /\ child[s] = "dead"
    /\ Put(s, Eof)
    /\ reader' = [reader EXCEPT ![s] = "done"]
    /\ UNCHANGED <<shared, poller, processes, pipe, closer>>

Reader(s) == ReaderMoves(s) \/ ReaderEnds(s)

-----------------------------------------------------------------------------
(* The child of session s *)

\* What a child may say: nonsense, and once it was asked, anything about any
\* request, for the first time or again.
Sayings(s) ==
    {Noise} \cup
    (CASE s # session \/ request = "none" -> {}
       [] request = "initialize" -> {m \in Message : ~m.old}
       [] OTHER -> Message)

ChildWrites(s) ==
    /\ Alive(s) /\ written < LinesPerTick /\ Len(pipe[s]) < PipeSize
    /\ \E line \in Sayings(s) : pipe' = [pipe EXCEPT ![s] = Append(@, line)]
    /\ written' = written + 1
    /\ UNCHANGED <<shared, poller, child, queue, reader, closer>>

ChildDies(s) ==
    /\ Alive(s)
    /\ child' = [child EXCEPT ![s] = "dead"]
    /\ UNCHANGED <<shared, poller, written, streams, closer>>

-----------------------------------------------------------------------------
(* The main thread: close *)

Close ==
    /\ main = "open"
    /\ stop' = TRUE
    /\ main' = "look"
    /\ UNCHANGED <<snapshot, error, process, poller, processes, streams,
                   closing, join>>

CloseLooks ==
    /\ main = "look"
    /\ closing' = process
    /\ main' = "terminate"
    /\ UNCHANGED <<shared, poller, processes, streams, join>>

\* What close does to the child it saw, if that still runs.
Signal(state) ==
    child' = IF closing # None /\ Alive(closing)
             THEN [child EXCEPT ![closing] = state] ELSE child

CloseTerminates ==
    /\ main = "terminate"
    /\ Signal("terminated")
    /\ main' = "join" /\ join' = JoinTimeout
    /\ UNCHANGED <<shared, poller, written, streams, closing>>

CloseJoins ==
    /\ main = "join" /\ (pc = "ended" \/ join = 0)
    /\ main' = "kill" /\ join' = 0
    /\ UNCHANGED <<shared, poller, processes, streams, closing>>

CloseKills ==
    /\ main = "kill"
    /\ Signal("dead")
    /\ main' = "closed" /\ closing' = None
    /\ UNCHANGED <<shared, poller, written, streams, join>>

Closing == CloseLooks \/ CloseTerminates \/ CloseJoins \/ CloseKills

-----------------------------------------------------------------------------
(* Time *)

PollerWaits ==
    \/ pc = "ended"
    \/ /\ timer > 0
       /\ \/ pc = "spawn"
          \/ pc = "get" /\ queue[session] = <<>>
          \/ pc \in {"pause", "retry"} /\ ~stop
          \/ pc = "reap" /\ Alive(session)

ReaderWaits(s) ==
    \/ reader[s] # "running"
    \/ Len(queue[s]) = QueueSize
    \/ pipe[s] = <<>> /\ child[s] # "dead"

CloserWaits == main = "open" \/ (main = "join" /\ join > 0 /\ pc # "ended")

Less(n) == IF n = 0 THEN 0 ELSE n - 1

Tick ==
    /\ PollerWaits /\ CloserWaits /\ \A s \in Session : ReaderWaits(s)
    /\ timer' = Less(timer) /\ deadline' = Less(deadline) /\ join' = Less(join)
    /\ snapshot' = IF snapshot = None THEN None
                   ELSE Smaller(snapshot + 1, StaleAfter + 1)
    /\ written' = 0
    /\ UNCHANGED <<stop, error, process, pc, request, raised, session, child,
                   streams, main, closing>>

Next ==
    \/ Poller
    \/ \E s \in Session : Reader(s) \/ ChildWrites(s) \/ ChildDies(s)
    \/ Close \/ Closing
    \/ Tick

\* Threads run and time passes; nothing makes a child answer or die, and
\* nothing makes the daemon close the source.
Spec ==
    /\ Init /\ [][Next]_vars
    /\ WF_vars(Poller) /\ WF_vars(Closing) /\ WF_vars(Tick)
    /\ \A s \in Session : WF_vars(Reader(s))

-----------------------------------------------------------------------------
(* Properties *)

status ==
    IF snapshot = None THEN (IF error THEN "unavailable" ELSE "starting")
    ELSE IF snapshot > StaleAfter THEN "stale" ELSE "available"

\* The type invariant of the four threads' state and the pipes and queues
\* between them.
TypeOK ==
    /\ {stop, error, raised} \subseteq BOOLEAN
    /\ snapshot \in 0..(StaleAfter + 1) \cup {None}
    /\ process \in Session \cup {None} /\ closing \in Session \cup {None}
    /\ pc \in {"check", "spawn", "publish", "write", "await", "get", "next",
               "pause", "teardown", "reap", "clear", "retry", "ended"}
    /\ {timer, deadline, written, join} \subseteq Nat
    /\ request \in {"none", "initialize", "quota"}
    /\ session \in 0..MaxSessions
    /\ child \in [Session -> {"unborn", "running", "terminated", "dead"}]
    /\ \A s \in Session :
          /\ ToSet(pipe[s]) \subseteq Message \cup {Noise, Eof}
          /\ ToSet(queue[s]) \subseteq Message \cup {Noise, Eof}
          /\ Len(pipe[s]) <= PipeSize /\ Len(queue[s]) <= QueueSize
    /\ reader \in [Session -> {"none", "running", "done"}]
    /\ main \in {"open", "look", "terminate", "join", "kill", "closed"}

\* When close() has returned, the poller has ended and no child is alive,
\* whatever the poller was doing when it was told to stop: also between its
\* check of _stop and the line that makes the new child visible to close().
NothingOutlivesClose ==
    main = "closed" => pc = "ended" /\ \A s \in Session : ~Alive(s)

\* A new session never starts beside a child of an older one, however
\* stubborn that child is.
AtMostOneChild ==
    \A s, t \in Session : Alive(s) /\ Alive(t) => s = t

\* With load_config's times the quota bar does not vanish while all goes
\* well: a snapshot grows stale only after an error, or a stop.
StaleOnlyAfterError == status = "stale" => error \/ stop

\* A snapshot comes from a good answer to the quota request made last, never
\* from the answer to an older request or a repetition of one.
StoredAnswerIsCurrent ==
    [][snapshot' = 0 /\ pc = "get" =>
          /\ request = "quota"
          /\ Head(queue[session]) = [kind |-> "good", old |-> FALSE]]_vars

\* However much a child talks, a request is over within its timeout: it is
\* answered, or the session is given up.
NoEndlessWait == pc \in {"await", "get"} ~> pc \notin {"await", "get"}

\* The reader of a session that is over ends, unless the queue that nobody
\* empties any more is full.
ReaderEndsUnlessFull ==
    \A s \in Session :
        s < session \/ pc = "ended" ~>
            reader[s] # "running" \/ Len(queue[s]) = QueueSize
=============================================================================
