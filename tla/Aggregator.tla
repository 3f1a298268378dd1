----------------------------- MODULE Aggregator -----------------------------
(***************************************************************************)
(* The session aggregator and the datagrams that reach it.  A short-lived  *)
(* hook process stamps each lifecycle event with the monotonic clock and   *)
(* then sends it; hooks run concurrently, so datagrams arrive in any       *)
(* order, late, or not at all.  The daemon rejects stamps outside a        *)
(* window, drops duplicate keys, ignores events older than what the        *)
(* session already shows, and lets SUCCESS, ERROR, silent sessions,        *)
(* tombstones and keys expire on a timer.                                  *)
(***************************************************************************)
EXTENDS MatrixProtocol, Sequences, FiniteSets, FiniteSetsExt

CONSTANTS
    Session,           \* session identifiers
    Ref,               \* the (turn, tool_use) part of a deduplication key
    Invocation,        \* the hook invocations Codex may make
    Absent,            \* a key missing from a dict
    SuccessHold,       \* success_hold_s
    TransientError,    \* transient_error_s
    StaleSession,      \* stale_session_s
    FutureTolerance,   \* how far ahead of the daemon a stamp may be
    DedupCapacity,     \* dedup_capacity
    MaxTime,           \* bound: the clock stops here
    MaxInFlight        \* bound: datagrams waiting at once

Time == Nat
Never == -1            \* an expiry that is None

Event ==
    [event: EventCategory, session: Session, ref: Ref, state: State,
     failed: BOOLEAN, time: Time]
SessionStatus ==
    [current_state: State, updated: Time,
     completion_expiry: Time \cup {Never},
     transient_error_expiry: Time \cup {Never}]
Lease == [expiry: Time, time: Time]
Tombstone == [time: Time, received: Time]
\* What a hook can send: the state follows from the category, and only a tool
\* result can have failed.
WellFormed(e) ==
    /\ e.failed => e.event = "post_tool"
    /\ e.state \in StatesOfEvent(e.event, e.failed)
Key == Session \X Ref \X EventCategory

ASSUME DurationAssumption ==
    /\ SuccessHold \in Nat
    /\ TransientError \in Nat
    /\ StaleSession \in Nat \ {0}
    /\ FutureTolerance \in Nat
    /\ DedupCapacity \in Nat \ {0}
    /\ MaxTime \in Nat
    /\ MaxInFlight \in Nat

\* normalize_hook_payload derives state and failed from the payload.
ASSUME InvocationAssumption ==
    /\ Invocation \subseteq [event: EventCategory, session: Session, ref: Ref,
                             state: State, failed: BOOLEAN]
    /\ \A i \in Invocation : WellFormed(i)

ASSUME AbsentAssumption ==
    Absent \notin Event \cup SessionStatus \cup Lease \cup Tombstone

VARIABLES
    now,          \* the monotonic clock shared by hooks and daemon
    inflight,     \* datagrams stamped and not yet read
    sessions,     \* SessionAggregator.sessions
    completions,  \* SessionAggregator._completions
    ended,        \* SessionAggregator._ended
    seen,         \* SessionAggregator._seen, oldest position first
    applied       \* history: per session the last event that took effect

tables == <<sessions, completions, ended, seen, applied>>
vars == <<now, inflight, tables>>
-----------------------------------------------------------------------------
Init ==
    /\ now = 0
    /\ inflight = {}
    /\ sessions = [s \in Session |-> Absent]
    /\ completions = [s \in Session |-> Absent]
    /\ ended = [s \in Session |-> Absent]
    /\ seen = <<>>
    /\ applied = [s \in Session |-> Absent]

ErrorIsOver(x) ==
    /\ x.current_state = "ERROR"
    /\ x.transient_error_expiry # Never
    /\ now >= x.transient_error_expiry
SuccessIsOver(x) ==
    /\ x.current_state = "SUCCESS"
    /\ x.completion_expiry # Never
    /\ now >= x.completion_expiry
FadedError(x) ==
    [x EXCEPT !.current_state = "THINKING", !.updated = now,
              !.transient_error_expiry = Never]
\* Plausible bug: the fade target copied from the error timer.
Bug_FadesToThinking(x) ==
    [x EXCEPT !.current_state = "THINKING", !.updated = now,
              !.completion_expiry = Never]
FadedSuccess(x) ==
    [x EXCEPT !.current_state = "IDLE", !.updated = now,
              !.completion_expiry = Never]

\* Plausible bug: a record is kept one instant too long.
Bug_StaleAfter(x) == now - x.updated > StaleSession
IsStale(x) == now - x.updated >= StaleSession

\* _expire: what each table holds once the current time is taken into account.
\* A record that fades takes the current time as its update time.
ExpiredStatus(x) ==
    IF IsStale(x) THEN Absent
    ELSE IF ErrorIsOver(x) THEN FadedError(x)
    ELSE IF SuccessIsOver(x) THEN FadedSuccess(x)
    ELSE x
LiveSessions ==
    [s \in Session |-> IF sessions[s] = Absent THEN Absent
                       ELSE ExpiredStatus(sessions[s])]
LiveCompletions ==
    [s \in Session |-> IF completions[s] # Absent /\ now < completions[s].expiry
                       THEN completions[s] ELSE Absent]
\* Plausible bug: a tombstone lives no longer than a completion lease.
Bug_TombstoneLikeLease ==
    [s \in Session |-> IF /\ ended[s] # Absent
                          /\ now - ended[s].received < SuccessHold
                       THEN ended[s] ELSE Absent]
LiveEnded ==
    [s \in Session |-> IF /\ ended[s] # Absent
                          /\ now - ended[s].received < StaleSession
                       THEN ended[s] ELSE Absent]
\* Keys are popped from the front until the first one that is young enough.
LiveSeen ==
    LET young == {i \in 1..Len(seen) : seen[i].received > now - StaleSession}
    IN  IF young = {} THEN <<>> ELSE SubSeq(seen, Min(young), Len(seen))
-----------------------------------------------------------------------------
KeyOf(e) == <<e.session, e.ref, e.event>>

\* A repeated key moves to the back and keeps its receipt time; a new one is
\* appended and the front makes room for it.
IsDuplicate(e) == \E i \in 1..Len(LiveSeen) : LiveSeen[i].key = KeyOf(e)
MovedToEnd(e) ==
    LET i == CHOOSE j \in 1..Len(LiveSeen) : LiveSeen[j].key = KeyOf(e)
    IN  SubSeq(LiveSeen, 1, i - 1) \o SubSeq(LiveSeen, i + 1, Len(LiveSeen))
          \o <<LiveSeen[i]>>
\* Plausible bug: a full cache evicts one insertion early.
Bug_EvictsEarly(e) ==
    LET q == Append(LiveSeen, [key |-> KeyOf(e), received |-> now])
    IN  IF Len(q) >= DedupCapacity THEN Tail(q) ELSE q
Remembered(e) ==
    LET q == Append(LiveSeen, [key |-> KeyOf(e), received |-> now])
    IN  IF Len(q) > DedupCapacity
        THEN SubSeq(q, Len(q) - DedupCapacity + 1, Len(q)) ELSE q

\* Plausible bugs: late datagrams are not compared with the session, and a
\* stamp equal to the tombstone gets through.
Bug_NeverBefore(e) == FALSE
Bug_BuriedStrictly(e) ==
    LiveEnded[e.session] # Absent /\ e.time < LiveEnded[e.session].time

\* The early returns of process that compare timestamps.
BeforeSession(e) ==
    LiveSessions[e.session] # Absent /\ e.time < LiveSessions[e.session].updated
BeforeCompletion(e) ==
    /\ LiveSessions[e.session] = Absent
    /\ LiveCompletions[e.session] # Absent
    /\ e.time < LiveCompletions[e.session].time
EndsTooLate(e) ==
    \/ BeforeSession(e)
    \/ BeforeCompletion(e)
    \/ /\ LiveSessions[e.session] = Absent
       /\ LiveEnded[e.session] # Absent
       /\ e.time < LiveEnded[e.session].time
BuriedByTombstone(e) ==
    LiveEnded[e.session] # Absent /\ e.time <= LiveEnded[e.session].time

\* What an accepted event leaves in the session record and in the lease.
NextState(e) ==
    IF e.event = "post_tool" /\ e.failed THEN "ERROR" ELSE e.state
\* Plausible bugs: the hold subtracted from the stamp, receipt time recorded in
\* place of the stamp, and a lease that resumed work does not cancel.
Bug_HoldSubtracted(e) ==
    [current_state |-> NextState(e), updated |-> e.time,
     completion_expiry |->
        IF NextState(e) = "SUCCESS" THEN e.time - SuccessHold ELSE Never,
     transient_error_expiry |->
        IF NextState(e) = "ERROR" THEN now + TransientError ELSE Never]
Bug_StampedOnReceipt(e) ==
    [current_state |-> NextState(e), updated |-> now,
     completion_expiry |->
        IF NextState(e) = "SUCCESS" THEN now + SuccessHold ELSE Never,
     transient_error_expiry |->
        IF NextState(e) = "ERROR" THEN now + TransientError ELSE Never]
Bug_LeaseKept(e) ==
    IF NextState(e) = "SUCCESS" /\ SuccessHold > 0
    THEN [expiry |-> now + SuccessHold, time |-> e.time]
    ELSE LiveCompletions[e.session]
StatusAfter(e) ==
    [current_state |-> NextState(e),
     updated |-> e.time,
     completion_expiry |->
        IF NextState(e) = "SUCCESS" THEN now + SuccessHold ELSE Never,
     transient_error_expiry |->
        IF NextState(e) = "ERROR" THEN now + TransientError ELSE Never]
LeaseAfter(e) ==
    IF NextState(e) = "SUCCESS" /\ SuccessHold > 0
    THEN [expiry |-> now + SuccessHold, time |-> e.time]
    ELSE IF e.event = "stop" THEN LiveCompletions[e.session] ELSE Absent

\* process(e) when the key is already known.
ProcessDuplicate(e) ==
    /\ IsDuplicate(e)
    /\ seen' = MovedToEnd(e)
    /\ sessions' = LiveSessions
    /\ completions' = LiveCompletions
    /\ ended' = LiveEnded
    /\ UNCHANGED applied

\* process(e) for session_end.
ProcessEnd(e) ==
    /\ ~IsDuplicate(e)
    /\ e.event = "session_end"
    /\ seen' = Remembered(e)
    /\ completions' = LiveCompletions
    /\ IF EndsTooLate(e)
       THEN sessions' = LiveSessions /\ ended' = LiveEnded /\ UNCHANGED applied
       ELSE /\ sessions' = [LiveSessions EXCEPT ![e.session] = Absent]
            /\ ended' = [LiveEnded EXCEPT
                           ![e.session] = [time |-> e.time, received |-> now]]
            /\ applied' = [applied EXCEPT ![e.session] = e]

\* process(e) for every other category.  A tombstone older than the event is
\* deleted even when a later check turns the event away.
ProcessActivity(e) ==
    /\ ~IsDuplicate(e)
    /\ e.event # "session_end"
    /\ seen' = Remembered(e)
    /\ ended' = IF BuriedByTombstone(e) THEN LiveEnded
                ELSE [LiveEnded EXCEPT ![e.session] = Absent]
    /\ IF BuriedByTombstone(e) \/ BeforeSession(e) \/ BeforeCompletion(e)
       THEN /\ sessions' = LiveSessions
            /\ completions' = LiveCompletions
            /\ UNCHANGED applied
       ELSE /\ sessions' = [LiveSessions EXCEPT ![e.session] = StatusAfter(e)]
            /\ completions' = [LiveCompletions EXCEPT
                                 ![e.session] = LeaseAfter(e)]
            /\ applied' = [applied EXCEPT ![e.session] = e]
-----------------------------------------------------------------------------
\* A hook process reads the clock and sends; nothing orders two hooks.
Hook(i) ==
    /\ Cardinality(inflight) < MaxInFlight
    /\ inflight' = inflight \cup
         {[event |-> i.event, session |-> i.session, ref |-> i.ref,
           state |-> i.state, failed |-> i.failed, time |-> now]}
    /\ UNCHANGED <<now, tables>>

\* sendto without blocking fails, or the hook dies before it.
Lose(e) ==
    /\ inflight' = inflight \ {e}
    /\ UNCHANGED <<now, tables>>

InWindow(e) ==
    /\ e.time <= now + FutureTolerance
    /\ e.time >= now - StaleSession

\* _receive_events for one datagram.
Reject(e) ==
    /\ ~InWindow(e)
    /\ inflight' = inflight \ {e}
    /\ UNCHANGED <<now, tables>>
Receive(e) ==
    /\ InWindow(e)
    /\ inflight' = inflight \ {e}
    /\ ProcessDuplicate(e) \/ ProcessEnd(e) \/ ProcessActivity(e)
    /\ UNCHANGED now

\* tick, and the expiry half of snapshot.
Tick ==
    /\ sessions' = LiveSessions
    /\ completions' = LiveCompletions
    /\ ended' = LiveEnded
    /\ seen' = LiveSeen
    /\ UNCHANGED <<now, inflight, applied>>

AdvanceClock ==
    /\ now < MaxTime
    /\ now' = now + 1
    /\ UNCHANGED <<inflight, tables>>

Next ==
    \/ \E i \in Invocation : Hook(i)
    \/ \E e \in inflight : Lose(e) \/ Reject(e) \/ Receive(e)
    \/ Tick
    \/ AdvanceClock

\* The daemon's loop ticks at least every 0.1 s, and time passes.
Spec == Init /\ [][Next]_vars /\ WF_vars(Tick) /\ WF_vars(AdvanceClock)

\* snapshot(): the state on display and the number of active sessions.  Leases
\* compete with sessions as SUCCESS; the largest (priority, update) wins.
Snapshot ==
    LET live == {s \in Session : LiveSessions[s] # Absent}
        bids == {[state |-> LiveSessions[s].current_state,
                  updated |-> LiveSessions[s].updated] : s \in live}
                \cup {[state |-> "SUCCESS", updated |-> LiveCompletions[s].time] :
                      s \in {r \in Session : LiveCompletions[r] # Absent}}
        Beats(a, b) ==
            \/ STATE_PRIORITY[a.state] > STATE_PRIORITY[b.state]
            \/ a.state = b.state /\ a.updated >= b.updated
    IN  [winner |-> IF bids = {} THEN [state |-> "IDLE", updated |-> now]
                    ELSE CHOOSE a \in bids : \A b \in bids : Beats(a, b),
         active |-> Cardinality(live)]
-----------------------------------------------------------------------------
SeenEntry == [key: Key, received: Time]

\* Every table holds what its Python annotation says, no stamp is in the
\* future, and a datagram cannot be read before it was stamped.
TypeOK ==
    /\ now \in Time
    /\ inflight \subseteq {e \in Event : WellFormed(e) /\ e.time <= now}
    /\ sessions \in [Session -> SessionStatus \cup {Absent}]
    /\ completions \in [Session -> Lease \cup {Absent}]
    /\ ended \in [Session -> Tombstone \cup {Absent}]
    /\ seen \in Seq(SeenEntry)
    /\ applied \in [Session -> Event \cup {Absent}]

\* The newest event applied to a session is remembered by something that still
\* turns older events away: the live record, a tombstone at least as new, or,
\* once both have expired, the daemon's timestamp window.
Guarded(newest, record, tombstone) ==
    IF newest = Absent
    THEN record = Absent /\ tombstone = Absent
    ELSE /\ newest.time <= now
         /\ \/ /\ record # Absent /\ tombstone = Absent
               /\ newest.event # "session_end"
               /\ newest.time <= record.updated
               /\ record.updated <= now
            \/ /\ record = Absent /\ tombstone # Absent
               /\ newest.event = "session_end"
               /\ newest.time = tombstone.time
               /\ tombstone.time <= tombstone.received
               /\ tombstone.received <= now
            \/ /\ record = Absent /\ tombstone = Absent
               /\ now - newest.time >= StaleSession
NewestIsGuarded ==
    \A s \in Session : Guarded(applied[s], sessions[s], ended[s])

\* A SUCCESS session and its completion lease are the same fact kept twice: they
\* expire together, work that resumes cancels the lease, and a lease that
\* outlives its session's record still belongs to a stop nothing has followed
\* but the end of the session.
LeaseAgrees(newest, record, lease) ==
    /\ lease # Absent =>
          /\ newest # Absent /\ SuccessHold > 0
          /\ newest.event \in {"stop", "session_end"}
          /\ lease.time <= newest.time
    /\ record # Absent =>
          IF record.current_state = "SUCCESS" /\ SuccessHold > 0
          THEN lease = [expiry |-> record.completion_expiry,
                        time |-> record.updated]
          ELSE lease = Absent
LeaseAgreesWithSession ==
    \A s \in Session : LeaseAgrees(applied[s], sessions[s], completions[s])

\* A session that ended comes back only for an event stamped after its end.
\* The one exception is the instant at which tombstone and window both run out.
NoResurrection ==
    [][\A s \in Session :
          /\ applied[s] # Absent
          /\ applied[s].event = "session_end"
          /\ sessions'[s] # Absent
          => \/ applied'[s].time > applied[s].time
             \/ /\ applied'[s].time = applied[s].time
                /\ now - applied[s].time = StaleSession]_vars

\* Nothing newer is thrown away: a first delivery newer than everything applied
\* to its session takes effect, unless a timer has faded the session's state
\* and so moved its update time past its last event.
NewerEventIsApplied ==
    [][\A e \in inflight :
          /\ Receive(e)
          /\ ~IsDuplicate(e)
          /\ applied[e.session] # Absent
          /\ e.time > applied[e.session].time
          /\ \/ LiveSessions[e.session] = Absent
             \/ LiveSessions[e.session].current_state
                  = NextState(applied[e.session])
          => applied'[e.session] = e]_vars

\* A key is forgotten only when it has outlived stale_session_s or when a full
\* cache needs the place of its front entry, so a repeated hook takes effect
\* once while the cache has room.
KeyForgottenOnlyWhenOldOrFull ==
    [][\A i \in 1..Len(seen) :
          (\A j \in 1..Len(seen') : seen'[j].key # seen[i].key)
          => \/ now - seen[i].received >= StaleSession
             \/ i = 1 /\ Len(seen) = DedupCapacity]_vars

\* The display becomes more urgent only because an event took effect: fading,
\* expiring leases, forgotten sessions and events turned away never raise it.
DisplayRisesOnlyOnEvent ==
    [][STATE_PRIORITY[Snapshot.winner.state]
         < STATE_PRIORITY[Snapshot'.winner.state]
       => \E e \in inflight : Receive(e) /\ applied'[e.session] = e]_vars

\* Expiry timers run out: neither SUCCESS nor ERROR is shown for good, and no
\* record keeps one update time for longer than stale_session_s.
TimerPending(s, x) ==
    /\ sessions[s] # Absent
    /\ x \in {sessions[s].completion_expiry,
              sessions[s].transient_error_expiry,
              sessions[s].updated + StaleSession}
TimersRunOut ==
    \A s \in Session, x \in 0..MaxTime :
        TimerPending(s, x) ~> ~TimerPending(s, x)

\* The aggregator implements the timestamp-ordered register of SessionLedger.
shown == [s \in Session |-> IF sessions[s] = Absent THEN Absent
                            ELSE sessions[s].current_state]
Ledger == INSTANCE SessionLedger WITH last <- applied
ImplementsLedger == Ledger!Spec
-----------------------------------------------------------------------------
\* Statements of the documentation that the code does not keep.

\* "SessionEnd removes the active record" (protocol.md), here for an end that
\* is no older than the record.  Refuted where every datagram arrives at once
\* and in order and nothing fades: a session ends, is resumed by a newer prompt
\* and ends again, with a key that _remember already knows.
EndRemovesRecord ==
    [][\A e \in inflight :
          /\ Receive(e)
          /\ e.event = "session_end"
          /\ sessions[e.session] # Absent
          /\ e.time >= sessions[e.session].updated
          => sessions'[e.session] = Absent]_vars
=============================================================================
