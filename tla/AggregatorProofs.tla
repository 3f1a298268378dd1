-------------------------- MODULE AggregatorProofs --------------------------
(***************************************************************************)
(* Proofs about Aggregator for every set of sessions and invocations, all  *)
(* durations and every capacity of the key cache.  The inductive invariant *)
(* is TypeOK /\ IInv, where IInv joins the two invariants the runs check:  *)
(* what guards the newest event, and how lease and record agree.  Each     *)
(* needs the other when an event is received: ReceiveOutcome uses both to  *)
(* show that process either takes an event whole or leaves no trace of it  *)
(* but its key.                                                            *)
(***************************************************************************)
EXTENDS Aggregator, SequenceTheorems, WellFoundedInduction, TLAPS

\* A non-empty set of naturals has a least member.
LEMMA LeastExists ==
    ASSUME NEW S, S \subseteq Nat, S # {}
    PROVE  \E x \in S : \A y \in S : x <= y
<1> DEFINE R == OpToRel(<, Nat)
<1>1. IsWellFoundedOn(R, Nat)
  BY NatLessThanWellFounded
<1>2. \E x \in S : \A y \in S : ~ (<<y, x>> \in R)
  <2> HIDE DEF R
  <2> QED BY <1>1, WFMin
<1>3. \A x \in S, y \in S : <<y, x>> \in R <=> y < x
  BY DEF OpToRel
<1> HIDE DEF R
<1>4. PICK x \in S : \A y \in S : ~ (<<y, x>> \in R)
  BY <1>2
<1>5. \A y \in S : ~ (y < x)
  BY <1>3, <1>4
<1> QED BY <1>5

\* The minimum taken by LiveSeen is that least member.
LEMMA LeastNatural ==
    ASSUME NEW S, S \subseteq Nat, S # {}
    PROVE  Min(S) \in S /\ \A y \in S : Min(S) <= y
BY LeastExists DEF Min

-----------------------------------------------------------------------------
(* Types.                                                                  *)

\* What _expire makes of a session record is a record or nothing.
LEMMA ExpiredStatusType ==
    ASSUME now \in Time, NEW x \in SessionStatus
    PROVE  ExpiredStatus(x) \in SessionStatus \cup {Absent}
<1>1. FadedError(x) \in SessionStatus
  BY DEF FadedError, SessionStatus, Time, Never, State
<1>2. FadedSuccess(x) \in SessionStatus
  BY DEF FadedSuccess, SessionStatus, Time, Never, State
<1> QED BY <1>1, <1>2 DEF ExpiredStatus

\* Looking at the clock keeps every table of its type: the four tables after
\* _expire.
LEMMA LiveTypes ==
    ASSUME TypeOK
    PROVE  /\ LiveSessions \in [Session -> SessionStatus \cup {Absent}]
           /\ LiveCompletions \in [Session -> Lease \cup {Absent}]
           /\ LiveEnded \in [Session -> Tombstone \cup {Absent}]
           /\ LiveSeen \in Seq(SeenEntry)
<1> USE DEF TypeOK
<1>1. LiveSessions \in [Session -> SessionStatus \cup {Absent}]
  BY ExpiredStatusType DEF LiveSessions
<1>2. LiveCompletions \in [Session -> Lease \cup {Absent}]
  BY DEF LiveCompletions
<1>3. LiveEnded \in [Session -> Tombstone \cup {Absent}]
  BY DEF LiveEnded
<1>4. LiveSeen \in Seq(SeenEntry)
  <2> DEFINE young ==
        {i \in 1..Len(seen) : seen[i].received > now - StaleSession}
  <2>1. CASE young = {}
    BY <2>1 DEF LiveSeen
  <2>2. CASE young # {}
    <3>1. Min(young) \in 1..Len(seen)
      <4>1. young \subseteq Nat
        OBVIOUS
      <4>2. Min(young) \in young
        BY <4>1, <2>2, LeastNatural
      <4> QED BY <4>2
    <3>2. LiveSeen = SubSeq(seen, Min(young), Len(seen))
      BY <2>2 DEF LiveSeen
    <3> HIDE DEF young
    <3> QED BY <3>1, <3>2
  <2> QED BY <2>1, <2>2
<1> QED BY <1>1, <1>2, <1>3, <1>4

\* Remembering a key and moving a repeated one both leave a sequence of keys.
LEMMA KeyCacheTypes ==
    ASSUME TypeOK, NEW e \in inflight
    PROVE  /\ Remembered(e) \in Seq(SeenEntry)
           /\ IsDuplicate(e) => MovedToEnd(e) \in Seq(SeenEntry)
<1>1. LiveSeen \in Seq(SeenEntry) /\ now \in Nat /\ e \in Event
  BY LiveTypes DEF TypeOK, Time
<1>2. KeyOf(e) \in Key
  BY <1>1 DEF KeyOf, Key, Event
<1>3. Remembered(e) \in Seq(SeenEntry)
  <2> DEFINE q == Append(LiveSeen, [key |-> KeyOf(e), received |-> now])
  <2>1. q \in Seq(SeenEntry)
    BY <1>1, <1>2 DEF SeenEntry, Time
  <2>2. Len(q) > DedupCapacity =>
           SubSeq(q, Len(q) - DedupCapacity + 1, Len(q)) \in Seq(SeenEntry)
    <3> HIDE DEF q
    <3> QED BY <2>1, DurationAssumption
  <2> QED BY <2>1, <2>2 DEF Remembered
<1>4. ASSUME IsDuplicate(e) PROVE MovedToEnd(e) \in Seq(SeenEntry)
  <2> DEFINE i == CHOOSE j \in 1..Len(LiveSeen) : LiveSeen[j].key = KeyOf(e)
  <2>1. i \in 1..Len(LiveSeen)
    BY <1>4 DEF IsDuplicate
  <2>2. MovedToEnd(e) = SubSeq(LiveSeen, 1, i - 1)
                          \o SubSeq(LiveSeen, i + 1, Len(LiveSeen))
                          \o <<LiveSeen[i]>>
    BY DEF MovedToEnd
  <2> HIDE DEF i
  <2> QED BY <1>1, <2>1, <2>2
<1> QED BY <1>3, <1>4

\* A datagram that is waiting is a well-formed event not stamped in the future.
LEMMA InflightIsEvent ==
    ASSUME TypeOK, NEW e \in inflight
    PROVE  e \in Event /\ e.time <= now /\ e.session \in Session
                       /\ e.time \in Nat /\ now \in Nat /\ WellFormed(e)
BY DEF TypeOK, Event, Time

\* The record and the lease an accepted event leaves are a record and a lease.
LEMMA OutcomeTypes ==
    ASSUME TypeOK, NEW e \in inflight
    PROVE  /\ StatusAfter(e) \in SessionStatus
           /\ LeaseAfter(e) \in Lease \cup {Absent}
<1>1. e \in Event /\ now \in Nat
  BY InflightIsEvent
<1>2. NextState(e) \in State
  BY <1>1 DEF NextState, State, Event
<1>3. StatusAfter(e) \in SessionStatus
  BY <1>1, <1>2, DurationAssumption
     DEF StatusAfter, SessionStatus, Event, Time, Never
<1>4. LeaseAfter(e) \in Lease \cup {Absent}
  BY <1>1, LiveTypes, DurationAssumption DEF LeaseAfter, Lease, Event, Time
<1> QED BY <1>3, <1>4

\* The type invariant holds in every reachable state, for every choice of the
\* constants: in particular no datagram is ever stamped in the daemon's future.
THEOREM TypeCorrect == Spec => []TypeOK
<1>1. Init => TypeOK
  BY DEF Init, TypeOK, Time
<1>2. ASSUME TypeOK, [Next]_vars PROVE TypeOK'
  <2> USE <1>2
  <2>1. ASSUME NEW i \in Invocation, Hook(i) PROVE TypeOK'
    <3> DEFINE stamped ==
          [event |-> i.event, session |-> i.session, ref |-> i.ref,
           state |-> i.state, failed |-> i.failed, time |-> now]
    <3>1. i \in [event: EventCategory, session: Session, ref: Ref,
                 state: State, failed: BOOLEAN] /\ WellFormed(i)
      BY InvocationAssumption
    <3>2. stamped \in Event /\ WellFormed(stamped) /\ stamped.time <= now
      BY <3>1 DEF Event, Time, TypeOK, WellFormed
    <3>3. inflight' = inflight \cup {stamped} /\ UNCHANGED <<now, tables>>
      BY <2>1 DEF Hook
    <3>4. inflight' \subseteq {x \in Event : WellFormed(x) /\ x.time <= now}
      <4> HIDE DEF stamped
      <4> QED BY <3>2, <3>3 DEF TypeOK
    <3>5. UNCHANGED <<now, sessions, completions, ended, seen, applied>>
      BY <3>3 DEF tables
    <3> QED BY <3>4, <3>5 DEF TypeOK
  <2>2. ASSUME NEW e \in inflight, Lose(e) PROVE TypeOK'
    BY <2>2 DEF Lose, TypeOK, tables
  <2>3. ASSUME NEW e \in inflight, Reject(e) PROVE TypeOK'
    BY <2>3 DEF Reject, TypeOK, tables
  <2>4. ASSUME NEW e \in inflight, Receive(e) PROVE TypeOK'
    <3>1. now' = now /\ inflight' = inflight \ {e}
      BY <2>4 DEF Receive
    <3>2. CASE ProcessDuplicate(e)
      BY <3>1, <3>2, LiveTypes, KeyCacheTypes DEF ProcessDuplicate, TypeOK
    <3>3. CASE ProcessEnd(e)
      <4>1. [time |-> e.time, received |-> now] \in Tombstone
        BY InflightIsEvent DEF Tombstone, Time
      <4>2. /\ sessions' \in [Session -> SessionStatus \cup {Absent}]
            /\ completions' \in [Session -> Lease \cup {Absent}]
            /\ ended' \in [Session -> Tombstone \cup {Absent}]
            /\ applied' \in [Session -> Event \cup {Absent}]
        <5>1. /\ LiveSessions \in [Session -> SessionStatus \cup {Absent}]
              /\ LiveCompletions \in [Session -> Lease \cup {Absent}]
              /\ LiveEnded \in [Session -> Tombstone \cup {Absent}]
              /\ applied \in [Session -> Event \cup {Absent}]
              /\ e \in Event
          BY LiveTypes, InflightIsEvent DEF TypeOK
        <5>2. completions' = LiveCompletions
          BY <3>3 DEF ProcessEnd
        <5>3. CASE EndsTooLate(e)
          BY <3>3, <5>1, <5>2, <5>3 DEF ProcessEnd
        <5>4. CASE ~EndsTooLate(e)
          <6> DEFINE tomb == [time |-> e.time, received |-> now]
          <6>1. /\ sessions' = [LiveSessions EXCEPT ![e.session] = Absent]
                /\ ended' = [LiveEnded EXCEPT ![e.session] = tomb]
                /\ applied' = [applied EXCEPT ![e.session] = e]
            BY <3>3, <5>4 DEF ProcessEnd
          <6>2. tomb \in Tombstone
            BY <4>1
          <6> HIDE DEF tomb
          <6> QED BY <5>1, <5>2, <6>1, <6>2
        <5> QED BY <5>3, <5>4
      <4>3. seen' \in Seq(SeenEntry)
        BY <3>3, KeyCacheTypes DEF ProcessEnd
      <4> QED BY <3>1, <4>2, <4>3 DEF TypeOK
    <3>4. CASE ProcessActivity(e)
      <4>1. ended' \in [Session -> Tombstone \cup {Absent}]
        BY <3>4, LiveTypes DEF ProcessActivity
      <4>2. /\ sessions' \in [Session -> SessionStatus \cup {Absent}]
            /\ completions' \in [Session -> Lease \cup {Absent}]
            /\ applied' \in [Session -> Event \cup {Absent}]
        <5>1. /\ LiveSessions \in [Session -> SessionStatus \cup {Absent}]
              /\ LiveCompletions \in [Session -> Lease \cup {Absent}]
              /\ applied \in [Session -> Event \cup {Absent}]
              /\ e \in Event
              /\ StatusAfter(e) \in SessionStatus
              /\ LeaseAfter(e) \in Lease \cup {Absent}
          BY LiveTypes, InflightIsEvent, OutcomeTypes DEF TypeOK
        <5> QED BY <3>4, <5>1 DEF ProcessActivity
      <4>3. seen' \in Seq(SeenEntry)
        BY <3>4, KeyCacheTypes DEF ProcessActivity
      <4> QED BY <3>1, <4>1, <4>2, <4>3 DEF TypeOK
    <3> QED BY <2>4, <3>2, <3>3, <3>4 DEF Receive
  <2>5. CASE Tick
    BY <2>5, LiveTypes DEF Tick, TypeOK
  <2>6. CASE AdvanceClock
    BY <2>6 DEF AdvanceClock, TypeOK, tables, Time, Event
  <2>7. CASE UNCHANGED vars
    BY <2>7 DEF vars, tables, TypeOK
  <2> QED BY <2>1, <2>2, <2>3, <2>4, <2>5, <2>6, <2>7 DEF Next
<1> QED BY <1>1, <1>2, PTL DEF Spec

-----------------------------------------------------------------------------
(* Ordering and leases.                                                    *)

\* A session shows SUCCESS exactly because of a stop event: no tool result and no
\* other category leads there, so only a stop opens a completion lease.
LEMMA StopIsSuccess ==
    ASSUME NEW e \in Event, WellFormed(e)
    PROVE  NextState(e) = "SUCCESS" <=> e.event = "stop"
<1>1. CASE e.event = "pre_tool"
  BY <1>1 DEF WellFormed, StatesOfEvent, ToolState, NextState
<1>2. CASE e.event # "pre_tool" /\ e.failed
  BY <1>2 DEF WellFormed, StatesOfEvent, NextState
<1>3. CASE e.event # "pre_tool" /\ ~e.failed
  <2>1. e.event \in EventCategory \ {"pre_tool"}
    BY <1>3 DEF Event
  <2>2. e.state = STATE_BY_EVENT[e.event] /\ NextState(e) = e.state
    BY <1>3 DEF WellFormed, StatesOfEvent, NextState
  <2> QED BY <2>1, <2>2 DEF EventCategory, STATE_BY_EVENT
<1> QED BY <1>1, <1>2, <1>3

\* Expiry does not uncover the newest event: a record that fades is younger than
\* before, and a record or tombstone is dropped only when the timestamp window
\* has taken over.
LEMMA ExpiryKeepsGuard ==
    ASSUME TypeOK, NEW s \in Session,
           Guarded(applied[s], sessions[s], ended[s])
    PROVE  Guarded(applied[s], LiveSessions[s], LiveEnded[s])
<1>1. /\ now \in Nat /\ StaleSession \in Nat \ {0}
      /\ applied[s] \in Event \cup {Absent}
      /\ sessions[s] \in SessionStatus \cup {Absent}
      /\ ended[s] \in Tombstone \cup {Absent}
  BY DurationAssumption DEF TypeOK, Time
<1>2. /\ LiveSessions[s] = IF sessions[s] = Absent THEN Absent
                           ELSE ExpiredStatus(sessions[s])
      /\ LiveEnded[s] = IF /\ ended[s] # Absent
                           /\ now - ended[s].received < StaleSession
                        THEN ended[s] ELSE Absent
  BY DEF LiveSessions, LiveEnded
<1>3. CASE applied[s] = Absent
  BY <1>2, <1>3 DEF Guarded
<1>4. CASE applied[s] # Absent /\ sessions[s] # Absent
  <2>1. sessions[s].updated \in Nat /\ applied[s].time \in Nat
    BY <1>1, <1>4 DEF SessionStatus, Event, Time
  <2>2. CASE IsStale(sessions[s])
    BY <1>1, <1>2, <1>4, <2>1, <2>2 DEF Guarded, ExpiredStatus, IsStale
  <2>3. CASE ~IsStale(sessions[s])
    <3>1. LiveSessions[s] \in {sessions[s], FadedError(sessions[s]),
                               FadedSuccess(sessions[s])}
      BY <1>2, <1>4, <2>3 DEF ExpiredStatus
    <3>2. /\ FadedError(sessions[s]).updated = now
          /\ FadedSuccess(sessions[s]).updated = now
          /\ FadedError(sessions[s]) \in SessionStatus
          /\ FadedSuccess(sessions[s]) \in SessionStatus
      BY <1>1, <1>4
         DEF FadedError, FadedSuccess, SessionStatus, State, Time, Never
    <3>3. LiveSessions[s] # Absent
      BY <1>4, <3>1, <3>2, AbsentAssumption
    <3> QED BY <1>1, <1>2, <1>4, <2>1, <3>1, <3>2, <3>3 DEF Guarded
  <2> QED BY <2>2, <2>3
<1>5. CASE applied[s] # Absent /\ sessions[s] = Absent
  <2>1. applied[s].time \in Nat
    BY <1>1, <1>5 DEF Event, Time
  <2>2. ended[s] # Absent => /\ ended[s].time \in Nat
                             /\ ended[s].received \in Nat
    BY <1>1 DEF Tombstone, Time
  <2> QED BY <1>1, <1>2, <1>5, <2>1, <2>2 DEF Guarded
<1> QED BY <1>3, <1>4, <1>5

\* Expiry keeps record and lease in agreement: SUCCESS fades at the instant its
\* lease ends, and a fade never leads to SUCCESS.
LEMMA ExpiryKeepsLease ==
    ASSUME TypeOK, NEW s \in Session,
           LeaseAgrees(applied[s], sessions[s], completions[s])
    PROVE  LeaseAgrees(applied[s], LiveSessions[s], LiveCompletions[s])
<1>1. /\ now \in Nat /\ SuccessHold \in Nat
      /\ sessions[s] \in SessionStatus \cup {Absent}
      /\ completions[s] \in Lease \cup {Absent}
  BY DurationAssumption DEF TypeOK, Time
<1>2. /\ LiveSessions[s] = IF sessions[s] = Absent THEN Absent
                           ELSE ExpiredStatus(sessions[s])
      /\ LiveCompletions[s] = IF /\ completions[s] # Absent
                                 /\ now < completions[s].expiry
                              THEN completions[s] ELSE Absent
  BY DEF LiveSessions, LiveCompletions
<1>3. CASE LiveSessions[s] = Absent
  BY <1>2, <1>3 DEF LeaseAgrees
<1>4. CASE LiveSessions[s] # Absent
  <2>1. /\ sessions[s] # Absent
        /\ sessions[s] \in SessionStatus
        /\ LiveSessions[s] = ExpiredStatus(sessions[s])
        /\ ~IsStale(sessions[s])
    BY <1>1, <1>2, <1>4 DEF ExpiredStatus
  <2>2. CASE ErrorIsOver(sessions[s])
    <3>1. LiveSessions[s].current_state = "THINKING"
      BY <2>1, <2>2 DEF ExpiredStatus, FadedError, SessionStatus
    <3>2. completions[s] = Absent
      BY <2>1, <2>2 DEF ErrorIsOver, LeaseAgrees
    <3> QED BY <1>2, <3>1, <3>2 DEF LeaseAgrees
  <2>3. CASE SuccessIsOver(sessions[s])
    <3>1. LiveSessions[s].current_state = "IDLE"
      BY <2>1, <2>3 DEF ExpiredStatus, FadedSuccess, SessionStatus,
                        ErrorIsOver, SuccessIsOver
    <3>2. completions[s] # Absent => now >= completions[s].expiry
      BY <2>1, <2>3 DEF SuccessIsOver, LeaseAgrees
    <3>3. LiveCompletions[s] = Absent
      <4>1. completions[s] # Absent => completions[s].expiry \in Nat
        BY <1>1 DEF Lease, Time
      <4> QED BY <1>1, <1>2, <3>2, <4>1
    <3> QED BY <3>1, <3>3 DEF LeaseAgrees
  <2>4. CASE ~ErrorIsOver(sessions[s]) /\ ~SuccessIsOver(sessions[s])
    <3>1. LiveSessions[s] = sessions[s]
      BY <2>1, <2>4 DEF ExpiredStatus
    <3>2. completions[s] # Absent => now < completions[s].expiry
      <4>1. SUFFICES ASSUME completions[s] # Absent
                     PROVE  now < completions[s].expiry
        OBVIOUS
      <4>2. /\ sessions[s].current_state = "SUCCESS"
            /\ completions[s].expiry = sessions[s].completion_expiry
        BY <2>1, <4>1 DEF LeaseAgrees
      <4>3. completions[s].expiry \in Nat
        BY <1>1, <4>1 DEF Lease, Time
      <4> QED BY <1>1, <2>4, <4>2, <4>3 DEF SuccessIsOver, Never
    <3> QED BY <1>2, <3>1, <3>2 DEF LeaseAgrees
  <2> QED BY <2>2, <2>3, <2>4
<1> QED BY <1>3, <1>4

\* The three ways a received datagram can leave the tables, apart from the keys.
TurnedAway ==
    /\ sessions' = LiveSessions
    /\ completions' = LiveCompletions
    /\ ended' = LiveEnded
    /\ applied' = applied
EndedBy(e) ==
    /\ e.event = "session_end" /\ ~EndsTooLate(e)
    /\ sessions' = [LiveSessions EXCEPT ![e.session] = Absent]
    /\ completions' = LiveCompletions
    /\ ended' = [LiveEnded EXCEPT
                   ![e.session] = [time |-> e.time, received |-> now]]
    /\ applied' = [applied EXCEPT ![e.session] = e]
WrittenBy(e) ==
    /\ e.event # "session_end"
    /\ ~BuriedByTombstone(e) /\ ~BeforeSession(e)
    /\ sessions' = [LiveSessions EXCEPT ![e.session] = StatusAfter(e)]
    /\ completions' = [LiveCompletions EXCEPT ![e.session] = LeaseAfter(e)]
    /\ ended' = [LiveEnded EXCEPT ![e.session] = Absent]
    /\ applied' = [applied EXCEPT ![e.session] = e]

\* An event that passed the tombstone is never turned away by the checks after
\* it, so no tombstone is lost to a rejected event.
LEMMA ReceiveOutcome ==
    ASSUME TypeOK, NewestIsGuarded, LeaseAgreesWithSession,
           NEW e \in inflight, Receive(e)
    PROVE  TurnedAway \/ EndedBy(e) \/ WrittenBy(e)
<1>1. CASE ProcessDuplicate(e)
  BY <1>1 DEF ProcessDuplicate, TurnedAway
<1>2. CASE ProcessEnd(e)
  BY <1>2 DEF ProcessEnd, TurnedAway, EndedBy
<1>3. CASE ProcessActivity(e)
  <2>1. CASE ~(BuriedByTombstone(e) \/ BeforeSession(e) \/ BeforeCompletion(e))
    BY <1>3, <2>1 DEF ProcessActivity, WrittenBy
  <2>2. CASE BuriedByTombstone(e)
    BY <1>3, <2>2 DEF ProcessActivity, TurnedAway
  <2>3. CASE ~BuriedByTombstone(e) /\ (BeforeSession(e) \/ BeforeCompletion(e))
    <3> DEFINE s == e.session
    <3>1. s \in Session /\ e.time \in Nat
      BY InflightIsEvent
    <3>2. /\ Guarded(applied[s], LiveSessions[s], LiveEnded[s])
          /\ LeaseAgrees(applied[s], LiveSessions[s], LiveCompletions[s])
      BY <3>1, ExpiryKeepsGuard, ExpiryKeepsLease
         DEF NewestIsGuarded, LeaseAgreesWithSession
    <3>3. LiveEnded[s] = Absent
      <4>1. SUFFICES ASSUME LiveEnded[s] # Absent PROVE FALSE
        OBVIOUS
      <4>2. /\ applied[s] # Absent /\ LiveSessions[s] = Absent
            /\ LiveEnded[s].time = applied[s].time
        BY <3>2, <4>1 DEF Guarded
      <4>3. LiveCompletions[s] # Absent /\ e.time < LiveCompletions[s].time
        BY <2>3, <4>2 DEF BeforeSession, BeforeCompletion
      <4>4. LiveCompletions[s].time <= applied[s].time
        BY <3>2, <4>3 DEF LeaseAgrees
      <4>5. e.time > LiveEnded[s].time
        <5>1. LiveEnded[s].time \in Nat
          BY <3>1, <4>1, LiveTypes DEF Tombstone, Time
        <5> QED BY <2>3, <3>1, <4>1, <5>1 DEF BuriedByTombstone
      <4>6. applied[s].time \in Nat /\ LiveCompletions[s].time \in Nat
        BY <3>1, <4>2, <4>3, LiveTypes DEF Lease, TypeOK, Event, Time
      <4> QED BY <3>1, <4>2, <4>3, <4>4, <4>5, <4>6
    <3>4. [LiveEnded EXCEPT ![s] = Absent] = LiveEnded
      BY <3>1, <3>3, LiveTypes
    <3>5. /\ sessions' = LiveSessions
          /\ completions' = LiveCompletions
          /\ applied' = applied
          /\ ended' = [LiveEnded EXCEPT ![s] = Absent]
      BY <1>3, <2>3 DEF ProcessActivity
    <3> QED BY <3>4, <3>5 DEF TurnedAway
  <2> QED BY <2>1, <2>2, <2>3
<1> QED BY <1>1, <1>2, <1>3 DEF Receive

\* Once a time-stamped comparison lets an event through, nothing the session
\* still holds is newer.
LEMMA AcceptedIsNewest ==
    ASSUME TypeOK, NewestIsGuarded, LeaseAgreesWithSession,
           NEW e \in inflight, InWindow(e), EndedBy(e) \/ WrittenBy(e),
           applied[e.session] # Absent
    PROVE  /\ applied[e.session].time <= e.time
           /\ e.event # "session_end" /\ applied[e.session].event = "session_end"
              => \/ applied[e.session].time < e.time
                 \/ /\ applied[e.session].time = e.time
                    /\ now - applied[e.session].time = StaleSession
<1> DEFINE s == e.session
           last == applied[s]
<1>1. /\ s \in Session /\ e.time \in Nat /\ now \in Nat
      /\ StaleSession \in Nat
      /\ e.time >= now - StaleSession
  BY InflightIsEvent, DurationAssumption DEF InWindow
<1>2. Guarded(last, LiveSessions[s], LiveEnded[s])
  BY <1>1, ExpiryKeepsGuard DEF NewestIsGuarded
<1>3. last.time \in Nat
  BY <1>1 DEF TypeOK, Event, Time
<1>4. /\ LiveSessions[s] # Absent => LiveSessions[s].updated \in Nat
      /\ LiveEnded[s] # Absent => LiveEnded[s].time \in Nat
  BY <1>1, LiveTypes DEF SessionStatus, Tombstone, Time
<1>5. LiveSessions[s] # Absent => LiveSessions[s].updated <= e.time
  BY <1>1, <1>4 DEF EndedBy, WrittenBy, EndsTooLate, BeforeSession
<1>6. LiveSessions[s] = Absent /\ LiveEnded[s] # Absent
        => /\ LiveEnded[s].time <= e.time
           /\ e.event # "session_end" => LiveEnded[s].time < e.time
  BY <1>1, <1>4 DEF EndedBy, WrittenBy, EndsTooLate, BuriedByTombstone
<1>7. CASE LiveSessions[s] # Absent
  BY <1>1, <1>2, <1>3, <1>4, <1>5, <1>7 DEF Guarded
<1>8. CASE LiveSessions[s] = Absent /\ LiveEnded[s] # Absent
  BY <1>1, <1>2, <1>3, <1>4, <1>6, <1>8 DEF Guarded
<1>9. CASE LiveSessions[s] = Absent /\ LiveEnded[s] = Absent
  BY <1>1, <1>2, <1>3, <1>9 DEF Guarded
<1> QED BY <1>7, <1>8, <1>9

-----------------------------------------------------------------------------
(* The invariants.                                                         *)

\* The part of the inductive invariant beside the types.
IInv == NewestIsGuarded /\ LeaseAgreesWithSession

\* The record an accepted event leaves guards that event and agrees with the
\* lease it leaves, but for a stop without a hold beside a lease still live,
\* which LeaseAgreesWithSession rules out.
LEMMA WrittenGuard ==
    ASSUME TypeOK, NEW e \in inflight, e.event # "session_end"
    PROVE  /\ Guarded(e, StatusAfter(e), Absent)
           /\ LeaseAgrees(e, StatusAfter(e), LeaseAfter(e))
                \/ (SuccessHold = 0 /\ LiveCompletions[e.session] # Absent)
<1>1. /\ e \in Event /\ e # Absent /\ e.time <= now /\ e.time \in Nat
      /\ StatusAfter(e) \in SessionStatus /\ StatusAfter(e) # Absent
      /\ now \in Nat
  BY InflightIsEvent, OutcomeTypes, AbsentAssumption
<1>2. /\ StatusAfter(e).updated = e.time
      /\ StatusAfter(e).current_state = NextState(e)
      /\ NextState(e) = "SUCCESS" =>
           StatusAfter(e).completion_expiry = now + SuccessHold
  BY DEF StatusAfter
<1>3. Guarded(e, StatusAfter(e), Absent)
  BY <1>1, <1>2 DEF Guarded
<1>4. NextState(e) = "SUCCESS" <=> e.event = "stop"
  BY InflightIsEvent, StopIsSuccess
<1>5. CASE NextState(e) = "SUCCESS" /\ SuccessHold > 0
  <2>1. LeaseAfter(e) = [expiry |-> now + SuccessHold, time |-> e.time]
    BY <1>5 DEF LeaseAfter
  <2>2. LeaseAfter(e).time = e.time
    BY <2>1
  <2> QED BY <1>1, <1>2, <1>3, <1>4, <1>5, <2>1, <2>2 DEF LeaseAgrees
<1>6. CASE NextState(e) # "SUCCESS"
  BY <1>1, <1>2, <1>3, <1>4, <1>6 DEF LeaseAgrees, LeaseAfter
<1>7. CASE NextState(e) = "SUCCESS" /\ ~(SuccessHold > 0)
  <2>1. SuccessHold = 0
    BY <1>7, DurationAssumption
  <2>2. LeaseAfter(e) = LiveCompletions[e.session]
    BY <1>4, <1>7 DEF LeaseAfter
  <2> QED BY <1>1, <1>2, <1>3, <1>4, <1>7, <2>1, <2>2 DEF LeaseAgrees
<1> QED BY <1>5, <1>6, <1>7

\* Receiving a datagram preserves the invariant, whichever of the three outcomes
\* of ReceiveOutcome it has.
LEMMA ReceiveKeepsInvariant ==
    ASSUME TypeOK, IInv, NEW e \in inflight, Receive(e)
    PROVE  IInv'
<1>1. /\ now' = now /\ InWindow(e)
      /\ e.session \in Session /\ e.time \in Nat /\ e.time <= now /\ now \in Nat
      /\ e # Absent
  BY InflightIsEvent, AbsentAssumption DEF Receive
<1>2. \A s \in Session :
         /\ Guarded(applied[s], LiveSessions[s], LiveEnded[s])
         /\ LeaseAgrees(applied[s], LiveSessions[s], LiveCompletions[s])
  BY ExpiryKeepsGuard, ExpiryKeepsLease
     DEF IInv, NewestIsGuarded, LeaseAgreesWithSession
<1>3. /\ LiveSessions \in [Session -> SessionStatus \cup {Absent}]
      /\ LiveCompletions \in [Session -> Lease \cup {Absent}]
      /\ LiveEnded \in [Session -> Tombstone \cup {Absent}]
      /\ applied \in [Session -> Event \cup {Absent}]
  BY LiveTypes DEF TypeOK
<1>4. CASE TurnedAway
  BY <1>1, <1>2, <1>4
     DEF TurnedAway, IInv, NewestIsGuarded, LeaseAgreesWithSession, Guarded,
         LeaseAgrees
<1>5. CASE EndedBy(e)
  <2> DEFINE tomb == [time |-> e.time, received |-> now]
  <2>1. \A s \in Session :
           IF s = e.session
           THEN /\ applied'[s] = e /\ sessions'[s] = Absent
                /\ ended'[s] = tomb /\ completions'[s] = LiveCompletions[s]
           ELSE /\ applied'[s] = applied[s] /\ sessions'[s] = LiveSessions[s]
                /\ ended'[s] = LiveEnded[s]
                /\ completions'[s] = LiveCompletions[s]
    BY <1>3, <1>5 DEF EndedBy
  <2>2. e.event = "session_end" /\ ~EndsTooLate(e)
    BY <1>5 DEF EndedBy
  <2>3. Guarded(e, Absent, tomb)
    <3>1. tomb # Absent
      <4>1. tomb \in Tombstone
        BY <1>1 DEF Tombstone, Time
      <4> QED BY <4>1, AbsentAssumption
    <3>2. tomb.time = e.time /\ tomb.received = now
      OBVIOUS
    <3> HIDE DEF tomb
    <3> QED BY <1>1, <2>2, <3>1, <3>2 DEF Guarded
  <2>4. LeaseAgrees(e, Absent, LiveCompletions[e.session])
    <3> DEFINE lease == LiveCompletions[e.session]
    <3>1. lease # Absent => lease.time \in Nat /\ SuccessHold > 0
      BY <1>1, <1>2, <1>3 DEF Lease, Time, LeaseAgrees
    <3>2. lease # Absent => lease.time <= e.time
      <4>1. CASE LiveSessions[e.session] = Absent
        BY <1>1, <2>2, <3>1, <4>1 DEF EndsTooLate, BeforeCompletion
      <4>2. CASE LiveSessions[e.session] # Absent
        <5>1. LiveSessions[e.session].updated <= e.time
          <6>1. LiveSessions[e.session].updated \in Nat
            BY <1>1, <1>3, <4>2 DEF SessionStatus, Time
          <6> QED BY <1>1, <2>2, <4>2, <6>1 DEF EndsTooLate, BeforeSession
        <5>2. lease # Absent => lease.time = LiveSessions[e.session].updated
          <6>1. SUFFICES ASSUME lease # Absent
                         PROVE  lease.time = LiveSessions[e.session].updated
            OBVIOUS
          <6>2. LeaseAgrees(applied[e.session], LiveSessions[e.session], lease)
            BY <1>1, <1>2
          <6>3. lease = [expiry |-> LiveSessions[e.session].completion_expiry,
                         time |-> LiveSessions[e.session].updated]
            <7> HIDE DEF lease
            <7> QED BY <4>2, <6>1, <6>2 DEF LeaseAgrees
          <6> HIDE DEF lease
          <6> QED BY <6>3
        <5> QED BY <5>1, <5>2
      <4> QED BY <4>1, <4>2
    <3> QED BY <1>1, <2>2, <3>1, <3>2 DEF LeaseAgrees
  <2>5. \A s \in Session :
           /\ Guarded(applied'[s], sessions'[s], ended'[s])
           /\ LeaseAgrees(applied'[s], sessions'[s], completions'[s])
    <3> HIDE DEF tomb
    <3> QED BY <1>2, <2>1, <2>3, <2>4
  <2> QED BY <1>1, <2>5
     DEF IInv, NewestIsGuarded, LeaseAgreesWithSession, Guarded, LeaseAgrees
<1>6. CASE WrittenBy(e)
  <2>1. \A s \in Session :
           IF s = e.session
           THEN /\ applied'[s] = e /\ sessions'[s] = StatusAfter(e)
                /\ ended'[s] = Absent /\ completions'[s] = LeaseAfter(e)
           ELSE /\ applied'[s] = applied[s] /\ sessions'[s] = LiveSessions[s]
                /\ ended'[s] = LiveEnded[s]
                /\ completions'[s] = LiveCompletions[s]
    BY <1>3, <1>6 DEF WrittenBy
  <2>2. SuccessHold = 0 => LiveCompletions[e.session] = Absent
    BY <1>1, <1>2 DEF LeaseAgrees
  <2>3. /\ Guarded(e, StatusAfter(e), Absent)
        /\ LeaseAgrees(e, StatusAfter(e), LeaseAfter(e))
    BY <1>6, <2>2, WrittenGuard DEF WrittenBy
  <2>4. \A s \in Session :
           /\ Guarded(applied'[s], sessions'[s], ended'[s])
           /\ LeaseAgrees(applied'[s], sessions'[s], completions'[s])
    BY <1>2, <2>1, <2>3
  <2> QED BY <1>1, <2>4
     DEF IInv, NewestIsGuarded, LeaseAgreesWithSession, Guarded, LeaseAgrees
<1> QED BY <1>4, <1>5, <1>6, ReceiveOutcome DEF IInv

\* Every step preserves the invariant.
LEMMA StepKeepsInvariant ==
    ASSUME TypeOK, IInv, [Next]_vars
    PROVE  IInv'
<1> USE DEF IInv, NewestIsGuarded, LeaseAgreesWithSession
<1>1. ASSUME NEW i \in Invocation, Hook(i) PROVE IInv'
  BY <1>1 DEF Hook, tables, Guarded, LeaseAgrees
<1>2. ASSUME NEW e \in inflight, Lose(e) \/ Reject(e) PROVE IInv'
  BY <1>2 DEF Lose, Reject, tables, Guarded, LeaseAgrees
<1>3. ASSUME NEW e \in inflight, Receive(e) PROVE IInv'
  BY <1>3, ReceiveKeepsInvariant
<1>4. CASE Tick
  <2>1. \A s \in Session :
           /\ Guarded(applied[s], LiveSessions[s], LiveEnded[s])
           /\ LeaseAgrees(applied[s], LiveSessions[s], LiveCompletions[s])
    BY ExpiryKeepsGuard, ExpiryKeepsLease
  <2>2. /\ sessions' = LiveSessions /\ completions' = LiveCompletions
        /\ ended' = LiveEnded /\ UNCHANGED <<now, applied>>
    BY <1>4 DEF Tick
  <2> QED BY <2>1, <2>2 DEF Guarded, LeaseAgrees
<1>5. CASE AdvanceClock
  <2>1. /\ now \in Nat /\ now' = now + 1 /\ StaleSession \in Nat
        /\ UNCHANGED <<sessions, completions, ended, applied>>
    BY <1>5, DurationAssumption DEF AdvanceClock, tables, TypeOK, Time
  <2>2. LeaseAgreesWithSession'
    BY <2>1 DEF LeaseAgrees
  <2>3. ASSUME NEW s \in Session PROVE Guarded(applied[s], sessions[s], ended[s])'
    <3>1. /\ applied[s] # Absent => applied[s].time \in Nat
          /\ sessions[s] # Absent => sessions[s].updated \in Nat
          /\ ended[s] # Absent => /\ ended[s].time \in Nat
                                  /\ ended[s].received \in Nat
      BY DEF TypeOK, Event, SessionStatus, Tombstone, Time
    <3>2. Guarded(applied[s], sessions[s], ended[s])
      OBVIOUS
    <3> QED BY <2>1, <3>1, <3>2 DEF Guarded
  <2> QED BY <2>2, <2>3
<1>6. CASE UNCHANGED vars
  BY <1>6 DEF vars, tables, Guarded, LeaseAgrees
<1> QED BY <1>1, <1>2, <1>3, <1>4, <1>5, <1>6 DEF Next

\* The inductive invariant holds in every reachable state.
LEMMA InvariantHolds == Spec => [](TypeOK /\ IInv)
<1>1. Init => IInv
  BY DEF Init, IInv, NewestIsGuarded, LeaseAgreesWithSession, Guarded,
         LeaseAgrees
<1>2. TypeOK /\ IInv /\ [Next]_vars => IInv'
  BY StepKeepsInvariant
<1> QED BY <1>1, <1>2, TypeCorrect, PTL DEF Spec

\* Whatever was applied last to a session, something still turns older events
\* away: the record, the tombstone or the timestamp window.
THEOREM NewestAlwaysGuarded == Spec => []NewestIsGuarded
<1>1. TypeOK /\ IInv => NewestIsGuarded
  BY DEF IInv
<1> QED BY <1>1, InvariantHolds, PTL

\* The SUCCESS record and the completion lease never disagree.
THEOREM LeaseAlwaysAgrees == Spec => []LeaseAgreesWithSession
<1>1. TypeOK /\ IInv => LeaseAgreesWithSession
  BY DEF IInv
<1> QED BY <1>1, InvariantHolds, PTL

-----------------------------------------------------------------------------
(* Steps: resurrection and the ledger.                                     *)

\* An ended session never comes back for an event that is not newer than its
\* end, for any sessions, durations, cache size and interleaving; an equal stamp
\* passes only at the instant the tombstone and the window expire together.
THEOREM NothingResurrects == Spec => NoResurrection
<1> DEFINE Kept(s) ==
      /\ applied[s] # Absent
      /\ applied[s].event = "session_end"
      /\ sessions'[s] # Absent
      => \/ applied'[s].time > applied[s].time
         \/ /\ applied'[s].time = applied[s].time
            /\ now - applied[s].time = StaleSession
<1>1. ASSUME TypeOK, IInv, Next, NEW s \in Session PROVE Kept(s)
  <2>1. SUFFICES ASSUME applied[s] # Absent,
                        applied[s].event = "session_end",
                        sessions'[s] # Absent
                 PROVE  \/ applied'[s].time > applied[s].time
                        \/ /\ applied'[s].time = applied[s].time
                           /\ now - applied[s].time = StaleSession
    OBVIOUS
  <2>2. sessions[s] = Absent
    BY <1>1, <2>1 DEF IInv, NewestIsGuarded, Guarded
  <2>3. LiveSessions[s] = Absent
    BY <2>2 DEF LiveSessions
  <2>4. ASSUME sessions' = sessions \/ sessions' = LiveSessions PROVE FALSE
    BY <2>1, <2>2, <2>3, <2>4
  <2>5. PICK e \in inflight : Receive(e)
    BY <1>1, <2>4 DEF Next, Hook, Lose, Reject, Tick, AdvanceClock, tables
  <2>6. EndedBy(e) \/ WrittenBy(e)
    BY <1>1, <2>4, <2>5, ReceiveOutcome DEF TurnedAway, IInv
  <2>7. InWindow(e) /\ e.session \in Session /\ e.time \in Nat
    BY <1>1, <2>5, InflightIsEvent DEF Receive
  <2>8. /\ LiveSessions \in [Session -> SessionStatus \cup {Absent}]
        /\ applied \in [Session -> Event \cup {Absent}]
    BY <1>1, LiveTypes DEF TypeOK
  <2>9. WrittenBy(e) /\ s = e.session
    BY <2>1, <2>3, <2>6, <2>7, <2>8 DEF EndedBy, WrittenBy
  <2>10. applied'[s] = e /\ e.event # "session_end"
    BY <2>7, <2>8, <2>9 DEF WrittenBy
  <2>11. \/ applied[s].time < e.time
         \/ /\ applied[s].time = e.time
            /\ now - applied[s].time = StaleSession
    BY <1>1, <2>1, <2>5, <2>7, <2>9, <2>10, AcceptedIsNewest DEF IInv
  <2>12. applied[s].time \in Nat
    BY <2>1, <2>8 DEF Event, Time
  <2> QED BY <2>7, <2>10, <2>11, <2>12
<1>2. TypeOK /\ IInv /\ [Next]_vars => [\A s \in Session : Kept(s)]_vars
  BY <1>1
<1> QED BY <1>2, InvariantHolds, PTL DEF Spec, NoResurrection

\* How the record of one session shows in the ledger.
Face(record) == IF record = Absent THEN Absent ELSE record.current_state

\* Expiry is a fade of the ledger: the state a session contributes stays, goes
\* from ERROR to THINKING or from SUCCESS to IDLE, or disappears.
LEMMA ExpiryIsFade ==
    ASSUME TypeOK, NEW s \in Session
    PROVE  /\ Face(LiveSessions[s]) \in Ledger!Fade(shown[s])
           /\ Face(LiveSessions[s]) \in State \cup {Absent}
<1>1. LiveSessions[s] = IF sessions[s] = Absent THEN Absent
                        ELSE ExpiredStatus(sessions[s])
  BY DEF LiveSessions
<1>2. shown[s] = Face(sessions[s])
  BY DEF shown, Face
<1>3. LiveSessions[s] \in SessionStatus \cup {Absent}
  BY LiveTypes
<1>4. CASE LiveSessions[s] = Absent
  BY <1>4 DEF Face, Ledger!Fade
<1>5. CASE LiveSessions[s] # Absent
  <2>1. /\ sessions[s] # Absent /\ sessions[s] \in SessionStatus
        /\ LiveSessions[s] = ExpiredStatus(sessions[s])
        /\ ~IsStale(sessions[s])
    BY <1>1, <1>5 DEF ExpiredStatus, TypeOK
  <2>2. Face(LiveSessions[s]) \in State
    BY <1>3, <1>5 DEF Face, SessionStatus
  <2>3. CASE ErrorIsOver(sessions[s])
    <3>1. /\ LiveSessions[s].current_state = "THINKING"
          /\ shown[s] = "ERROR"
      BY <1>2, <2>1, <2>3 DEF ExpiredStatus, FadedError, SessionStatus,
                              ErrorIsOver, Face
    <3> QED BY <1>5, <2>2, <3>1 DEF Face, Ledger!Fade
  <2>4. CASE ~ErrorIsOver(sessions[s]) /\ SuccessIsOver(sessions[s])
    <3>1. /\ LiveSessions[s].current_state = "IDLE"
          /\ shown[s] = "SUCCESS"
      BY <1>2, <2>1, <2>4 DEF ExpiredStatus, FadedSuccess, SessionStatus,
                              SuccessIsOver, Face
    <3> QED BY <1>5, <2>2, <3>1 DEF Face, Ledger!Fade
  <2>5. CASE ~ErrorIsOver(sessions[s]) /\ ~SuccessIsOver(sessions[s])
    BY <1>2, <2>1, <2>2, <2>5 DEF ExpiredStatus, Ledger!Fade
  <2> QED BY <2>3, <2>4, <2>5
<1> QED BY <1>4, <1>5

\* The aggregator implements the timestamp-ordered register: the detailed tables
\* with their timers, leases, tombstones and key cache can be replaced by one
\* ordered write per accepted event and fading in between.
THEOREM AggregatorImplementsLedger == Spec => ImplementsLedger
<1>1. Init => Ledger!Init
  BY DEF Init, Ledger!Init, shown
<1>2. ASSUME TypeOK, IInv, [Next]_vars
      PROVE  [Ledger!Next]_<<applied, shown>>
  <2>1. CASE UNCHANGED <<sessions, applied>>
    BY <2>1 DEF shown
  <2>2. CASE sessions' = LiveSessions /\ applied' = applied
    <3>1. shown' = [s \in Session |-> Face(LiveSessions[s])]
      BY <2>2 DEF shown, Face
    <3>2. Ledger!Expire
      BY <1>2, <2>2, <3>1, ExpiryIsFade DEF Ledger!Expire, Ledger!State, State
    <3> QED BY <3>2 DEF Ledger!Next
  <2>3. ASSUME NEW e \in inflight, InWindow(e), EndedBy(e) \/ WrittenBy(e)
        PROVE  Ledger!Next
    <3> DEFINE s == e.session
    <3>1. /\ s \in Session /\ e \in Event /\ e \in Ledger!Event
          /\ WellFormed(e)
      BY <1>2, InflightIsEvent
         DEF Event, Ledger!Event, Ledger!State, State, Ledger!EventCategory,
             EventCategory, Time
    <3>2. /\ LiveSessions \in [Session -> SessionStatus \cup {Absent}]
          /\ applied \in [Session -> Event \cup {Absent}]
      BY <1>2, LiveTypes DEF TypeOK
    <3>3. applied' = [applied EXCEPT ![s] = e] /\ applied'[s] = e
      BY <2>3, <3>1, <3>2 DEF EndedBy, WrittenBy
    <3>4. applied[s] # Absent => e.time >= applied[s].time
      <4>1. SUFFICES ASSUME applied[s] # Absent PROVE e.time >= applied[s].time
        OBVIOUS
      <4>2. applied[s].time <= e.time
        BY <1>2, <2>3, <4>1, AcceptedIsNewest DEF IInv
      <4>3. applied[s].time \in Nat /\ e.time \in Nat
        BY <3>1, <3>2, <4>1 DEF Event, Time
      <4> QED BY <4>2, <4>3
    <3>5. shown'[s] = IF e.event = "session_end" THEN Absent ELSE e.state
      <4>1. CASE EndedBy(e)
        BY <3>1, <3>2, <4>1 DEF EndedBy, shown
      <4>2. CASE WrittenBy(e)
        <5>1. NextState(e) = e.state
          BY <3>1 DEF NextState, WellFormed, StatesOfEvent
        <5>2. sessions'[s] = StatusAfter(e) /\ e.event # "session_end"
          BY <3>1, <3>2, <4>2 DEF WrittenBy
        <5>3. StatusAfter(e) # Absent
              /\ StatusAfter(e).current_state = NextState(e)
          BY <1>2, OutcomeTypes, AbsentAssumption DEF StatusAfter
        <5> QED BY <3>1, <5>1, <5>2, <5>3 DEF shown
      <4> QED BY <2>3, <4>1, <4>2
    <3>6. \A r \in Session \ {s} : shown'[r] = Face(LiveSessions[r])
      BY <2>3, <3>1, <3>2 DEF EndedBy, WrittenBy, shown, Face
    <3>7. shown' \in [Session -> Ledger!State \cup {Absent}]
      <4>1. ASSUME NEW r \in Session PROVE shown'[r] \in State \cup {Absent}
        BY <1>2, <3>1, <3>5, <3>6, ExpiryIsFade DEF Event
      <4>2. shown' = [r \in Session |-> shown'[r]]
        BY DEF shown
      <4> QED BY <4>1, <4>2 DEF State, Ledger!State
    <3>8. \A r \in Session \ {s} : shown'[r] \in Ledger!Fade(shown[r])
      BY <1>2, <3>6, ExpiryIsFade
    <3>9. Ledger!Write(s)
      <4>1. e \in {applied'[s]} /\ e.session = s
        BY <3>3
      <4> HIDE DEF s
      <4> QED BY <3>1, <3>3, <3>4, <3>5, <3>7, <3>8, <4>1 DEF Ledger!Write
    <3> QED BY <3>1, <3>9 DEF Ledger!Next
  <2>4. ASSUME NEW e \in inflight, Receive(e)
        PROVE  \/ sessions' = LiveSessions /\ applied' = applied
               \/ InWindow(e) /\ (EndedBy(e) \/ WrittenBy(e))
    BY <1>2, <2>4, ReceiveOutcome DEF Receive, TurnedAway, IInv
  <2>5. \/ UNCHANGED <<sessions, applied>>
        \/ sessions' = LiveSessions /\ applied' = applied
        \/ \E e \in inflight : Receive(e)
    BY <1>2 DEF Next, Hook, Lose, Reject, Tick, AdvanceClock, vars, tables
  <2> QED BY <2>1, <2>2, <2>3, <2>4, <2>5
<1> QED BY <1>1, <1>2, InvariantHolds, PTL
        DEF Spec, ImplementsLedger, Ledger!Spec
-----------------------------------------------------------------------------
(* Steps: nothing newer is thrown away.                                    *)

\* A record shows its session's newest event with that event's stamp, or what
\* a timer has made of it; and nothing that was ever shown ranks below IDLE.
ShowsNewest(newest, record) ==
    record # Absent =>
        /\ \/ /\ record.current_state = NextState(newest)
              /\ record.updated = newest.time
           \/ NextState(newest) = "ERROR" /\ record.current_state = "THINKING"
           \/ NextState(newest) = "SUCCESS" /\ record.current_state = "IDLE"
        /\ record.current_state # "OFF"
RecordsShowNewest == \A s \in Session : ShowsNewest(applied[s], sessions[s])

LEMMA ExpiryKeepsShown ==
    ASSUME TypeOK, NEW s \in Session, ShowsNewest(applied[s], sessions[s])
    PROVE  ShowsNewest(applied[s], LiveSessions[s])
<1>1. LiveSessions[s] = IF sessions[s] = Absent THEN Absent ELSE ExpiredStatus(sessions[s])
  BY DEF LiveSessions
<1>2. CASE sessions[s] = Absent
  BY <1>1, <1>2 DEF ShowsNewest
<1>3. CASE sessions[s] # Absent
  <2>1. sessions[s] \in SessionStatus
    BY <1>3 DEF TypeOK
  <2>2. CASE IsStale(sessions[s])
    BY <1>1, <1>3, <2>2 DEF ExpiredStatus, ShowsNewest
  <2>3. CASE ~IsStale(sessions[s]) /\ ErrorIsOver(sessions[s])
    <3>1. LiveSessions[s].current_state = "THINKING" /\ sessions[s].current_state = "ERROR"
      BY <1>1, <1>3, <2>1, <2>3 DEF ExpiredStatus, FadedError, SessionStatus, ErrorIsOver
    <3> QED BY <1>3, <3>1 DEF ShowsNewest
  <2>4. CASE ~IsStale(sessions[s]) /\ ~ErrorIsOver(sessions[s]) /\ SuccessIsOver(sessions[s])
    <3>1. LiveSessions[s].current_state = "IDLE" /\ sessions[s].current_state = "SUCCESS"
      BY <1>1, <1>3, <2>1, <2>4 DEF ExpiredStatus, FadedSuccess, SessionStatus, SuccessIsOver
    <3> QED BY <1>3, <3>1 DEF ShowsNewest
  <2>5. CASE ~IsStale(sessions[s]) /\ ~ErrorIsOver(sessions[s]) /\ ~SuccessIsOver(sessions[s])
    BY <1>1, <1>3, <2>5 DEF ExpiredStatus
  <2> QED BY <2>2, <2>3, <2>4, <2>5
<1> QED BY <1>2, <1>3

\* No event shows OFF, and what the fades lead to is not OFF either.
LEMMA EventsAreNotOff ==
    ASSUME NEW e \in Event, WellFormed(e) PROVE NextState(e) # "OFF"
<1>1. e.event \in EventCategory
  BY DEF Event
<1>2. CASE e.event = "pre_tool"
  BY <1>2 DEF WellFormed, StatesOfEvent, NextState, ToolState
<1>3. CASE e.event # "pre_tool" /\ e.failed
  BY <1>3 DEF WellFormed, StatesOfEvent, NextState
<1>4. CASE e.event # "pre_tool" /\ ~e.failed
  <2>1. NextState(e) = STATE_BY_EVENT[e.event]
    BY <1>4 DEF WellFormed, StatesOfEvent, NextState
  <2> QED BY <1>1, <1>4, <2>1 DEF EventCategory, STATE_BY_EVENT
<1> QED BY <1>2, <1>3, <1>4

THEOREM RecordsAlwaysShowNewest == Spec => []RecordsShowNewest
<1>1. Init => RecordsShowNewest
  BY DEF Init, RecordsShowNewest, ShowsNewest
<1>2. TypeOK /\ IInv /\ RecordsShowNewest /\ [Next]_vars => RecordsShowNewest'
  <2> SUFFICES ASSUME TypeOK, IInv, RecordsShowNewest, [Next]_vars, NEW s \in Session
               PROVE  ShowsNewest(applied'[s], sessions'[s])
    BY DEF RecordsShowNewest
  <2>1. ShowsNewest(applied[s], sessions[s]) /\ ShowsNewest(applied[s], LiveSessions[s])
    BY ExpiryKeepsShown DEF RecordsShowNewest
  <2>2. CASE UNCHANGED <<sessions, applied>>
    BY <2>1, <2>2
  <2>3. CASE sessions' = LiveSessions /\ applied' = applied
    BY <2>1, <2>3
  <2>4. ASSUME NEW e \in inflight, EndedBy(e) \/ WrittenBy(e)
        PROVE  ShowsNewest(applied'[s], sessions'[s])
    <3>1. /\ LiveSessions \in [Session -> SessionStatus \cup {Absent}]
          /\ applied \in [Session -> Event \cup {Absent}]
          /\ e \in Event /\ WellFormed(e) /\ e.session \in Session
      BY LiveTypes, InflightIsEvent DEF TypeOK
    <3>2. CASE s # e.session
      BY <2>1, <2>4, <3>1, <3>2 DEF EndedBy, WrittenBy
    <3>3. CASE s = e.session /\ EndedBy(e)
      BY <3>1, <3>3 DEF EndedBy, ShowsNewest
    <3>4. CASE s = e.session /\ WrittenBy(e)
      <4>1. sessions'[s] = StatusAfter(e) /\ applied'[s] = e
        BY <3>1, <3>4 DEF WrittenBy
      <4>2. StatusAfter(e).current_state = NextState(e) /\ StatusAfter(e).updated = e.time
        BY DEF StatusAfter
      <4> QED BY <3>1, <4>1, <4>2, EventsAreNotOff DEF ShowsNewest
    <3> QED BY <2>4, <3>2, <3>3, <3>4
  <2>5. ASSUME NEW e \in inflight, Receive(e)
        PROVE  (sessions' = LiveSessions /\ applied' = applied) \/ EndedBy(e) \/ WrittenBy(e)
    BY <2>5, ReceiveOutcome DEF TurnedAway, IInv
  <2>6. \/ UNCHANGED <<sessions, applied>>
        \/ sessions' = LiveSessions /\ applied' = applied
        \/ \E e \in inflight : Receive(e)
    BY DEF Next, Hook, Lose, Reject, Tick, AdvanceClock, vars, tables
  <2> QED BY <2>2, <2>3, <2>4, <2>5, <2>6
<1> QED BY <1>1, <1>2, InvariantHolds, PTL DEF Spec

\* A first delivery that is newer than everything applied to its session passes
\* every timestamp comparison of process, unless a timer has faded the record.
THEOREM NewerIsApplied == Spec => NewerEventIsApplied
<1> DEFINE Applied ==
      \A e \in inflight :
          /\ Receive(e)
          /\ ~IsDuplicate(e)
          /\ applied[e.session] # Absent
          /\ e.time > applied[e.session].time
          /\ \/ LiveSessions[e.session] = Absent
             \/ LiveSessions[e.session].current_state
                  = NextState(applied[e.session])
          => applied'[e.session] = e
<1>1. TypeOK /\ IInv /\ RecordsShowNewest => Applied
  <2> SUFFICES ASSUME TypeOK, IInv, RecordsShowNewest, NEW e \in inflight, Receive(e),
                      ~IsDuplicate(e), applied[e.session] # Absent,
                      e.time > applied[e.session].time,
                      \/ LiveSessions[e.session] = Absent
                      \/ LiveSessions[e.session].current_state = NextState(applied[e.session])
               PROVE  applied'[e.session] = e
    OBVIOUS
  <2> DEFINE s == e.session
             last == applied[s]
  <2>1. /\ s \in Session /\ e.time \in Nat /\ last.time \in Nat
        /\ applied \in [Session -> Event \cup {Absent}]
    BY InflightIsEvent DEF TypeOK, Event, Time
  <2>2. /\ Guarded(last, LiveSessions[s], LiveEnded[s])
        /\ LeaseAgrees(last, LiveSessions[s], LiveCompletions[s])
        /\ ShowsNewest(last, LiveSessions[s])
    BY <2>1, ExpiryKeepsGuard, ExpiryKeepsLease, ExpiryKeepsShown
       DEF IInv, NewestIsGuarded, LeaseAgreesWithSession, RecordsShowNewest
  <2>3. LiveSessions[s] # Absent => LiveSessions[s].updated = last.time
    BY <2>2 DEF ShowsNewest
  <2>4. LiveEnded[s] # Absent => LiveEnded[s].time = last.time
    BY <2>2 DEF Guarded
  <2>5. LiveCompletions[s] # Absent => /\ LiveCompletions[s].time <= last.time
                                       /\ LiveCompletions[s].time \in Nat
    BY <2>1, <2>2, LiveTypes DEF LeaseAgrees, Lease, Time
  <2>6. ~BeforeSession(e) /\ ~BeforeCompletion(e) /\ ~BuriedByTombstone(e) /\ ~EndsTooLate(e)
    BY <2>1, <2>3, <2>4, <2>5
       DEF BeforeSession, BeforeCompletion, BuriedByTombstone, EndsTooLate
  <2>7. applied' = [applied EXCEPT ![s] = e]
    BY <2>6 DEF Receive, ProcessDuplicate, ProcessEnd, ProcessActivity
  <2> QED BY <2>1, <2>7
<1> QED BY <1>1, InvariantHolds, RecordsAlwaysShowNewest, PTL DEF Spec, NewerEventIsApplied
-----------------------------------------------------------------------------
(* Steps: the key cache.                                                   *)

Holds(cache, key) == \E j \in 1..Len(cache) : cache[j].key = key

\* What LiveSeen drops from the front is old.
LEMMA LiveSeenDropsOld ==
    ASSUME TypeOK
    PROVE  \E k \in Nat :
              /\ k <= Len(seen) /\ Len(LiveSeen) = Len(seen) - k
              /\ \A j \in 1..Len(LiveSeen) : LiveSeen[j] = seen[j + k]
              /\ \A i \in 1..k : now - seen[i].received >= StaleSession
<1> DEFINE young == {i \in 1..Len(seen) : seen[i].received > now - StaleSession}
<1>1. seen \in Seq(SeenEntry) /\ Len(seen) \in Nat /\ now \in Nat /\ StaleSession \in Nat
  BY DurationAssumption DEF TypeOK, Time
<1>2. \A i \in 1..Len(seen) : seen[i].received \in Nat
  <2>1. \A i \in 1..Len(seen) : seen[i] \in SeenEntry
    BY <1>1
  <2> QED BY <2>1 DEF SeenEntry, Time
<1>3. \A i \in 1..Len(seen) : i \notin young => now - seen[i].received >= StaleSession
  BY <1>1, <1>2
<1>4. CASE young = {}
  <2>1. LiveSeen = <<>>
    BY <1>4 DEF LiveSeen
  <2>2. Len(LiveSeen) = Len(seen) - Len(seen)
    BY <1>1, <2>1
  <2>3. \A i \in 1..Len(seen) : now - seen[i].received >= StaleSession
    BY <1>3, <1>4
  <2>4. \A j \in 1..Len(LiveSeen) : LiveSeen[j] = seen[j + Len(seen)]
    BY <1>1, <2>2
  <2> QED BY <1>1, <2>2, <2>3, <2>4
<1>5. CASE young # {}
  <2> DEFINE m == Min(young)
  <2>1. m \in young /\ \A y \in young : m <= y
    <3>1. young \subseteq Nat
      OBVIOUS
    <3> HIDE DEF young
    <3> QED BY <3>1, <1>5, LeastNatural
  <2>2. LiveSeen = SubSeq(seen, m, Len(seen))
    BY <1>5 DEF LiveSeen
  <2>3. m \in 1..Len(seen)
    BY <2>1
  <2>4. \A i \in 1..(m - 1) : now - seen[i].received >= StaleSession
    <3> SUFFICES ASSUME NEW i \in 1..(m - 1) PROVE now - seen[i].received >= StaleSession
      OBVIOUS
    <3>1. i \in 1..Len(seen) /\ i < m
      BY <1>1, <2>3
    <3>2. i \notin young
      <4> HIDE DEF young
      <4> QED BY <2>1, <2>3, <3>1
    <3> QED BY <1>3, <3>1, <3>2
  <2> HIDE DEF m
  <2>5. Len(LiveSeen) = Len(seen) - (m - 1)
    BY <1>1, <2>2, <2>3
  <2>6. \A j \in 1..Len(LiveSeen) : LiveSeen[j] = seen[j + (m - 1)]
    BY <1>1, <2>2, <2>3, <2>5
  <2>7. m - 1 \in Nat /\ m - 1 <= Len(seen)
    BY <1>1, <2>3
  <2> QED BY <2>4, <2>5, <2>6, <2>7
<1> QED BY <1>4, <1>5

\* A repeated key moves, and no key is lost by it.
LEMMA MovingKeeps ==
    ASSUME TypeOK, NEW e \in inflight, IsDuplicate(e)
    PROVE  /\ Len(MovedToEnd(e)) = Len(LiveSeen)
           /\ \A j \in 1..Len(LiveSeen) : Holds(MovedToEnd(e), LiveSeen[j].key)
<1> DEFINE i == CHOOSE j \in 1..Len(LiveSeen) : LiveSeen[j].key = KeyOf(e)
           q == LiveSeen
           front == SubSeq(q, 1, i - 1)
           back == SubSeq(q, i + 1, Len(q))
           moved == front \o back \o <<q[i]>>
<1>1. q \in Seq(SeenEntry) /\ Len(q) \in Nat
  BY LiveTypes
<1>2. i \in 1..Len(q)
  BY DEF IsDuplicate
<1>3. MovedToEnd(e) = moved
  BY DEF MovedToEnd
<1> HIDE DEF q, i
<1>4. /\ front \in Seq(SeenEntry) /\ Len(front) = i - 1
      /\ \A j \in 1..(i - 1) : front[j] = q[j]
  BY <1>1, <1>2
<1>5. /\ back \in Seq(SeenEntry) /\ Len(back) = Len(q) - i
      /\ \A j \in 1..(Len(q) - i) : back[j] = q[j + i]
  BY <1>1, <1>2
<1>6. <<q[i]>> \in Seq(SeenEntry) /\ Len(<<q[i]>>) = 1 /\ <<q[i]>>[1] = q[i]
  BY <1>1, <1>2
<1> HIDE DEF front, back
<1>7. /\ front \o back \in Seq(SeenEntry) /\ Len(front \o back) = Len(q) - 1
      /\ \A j \in 1..(i - 1) : (front \o back)[j] = q[j]
      /\ \A j \in i..(Len(q) - 1) : (front \o back)[j] = q[j + 1]
  <2>1. Len(front \o back) = Len(q) - 1
    BY <1>1, <1>2, <1>4, <1>5
  <2>2. \A j \in i..(Len(q) - 1) : (front \o back)[j] = q[j + 1]
    <3> SUFFICES ASSUME NEW j \in i..(Len(q) - 1) PROVE (front \o back)[j] = q[j + 1]
      OBVIOUS
    <3>1. (front \o back)[j] = back[j - (i - 1)]
      BY <1>1, <1>2, <1>4, <1>5
    <3>2. j - (i - 1) \in 1..(Len(q) - i) /\ (j - (i - 1)) + i = j + 1
      BY <1>1, <1>2
    <3> QED BY <1>5, <3>1, <3>2
  <2>3. \A j \in 1..(i - 1) : (front \o back)[j] = q[j]
    BY <1>1, <1>2, <1>4, <1>5
  <2>4. front \o back \in Seq(SeenEntry)
    BY <1>4, <1>5
  <2> QED BY <2>1, <2>2, <2>3, <2>4
<1> DEFINE both == front \o back
<1> HIDE DEF both
<1>8. moved = both \o <<q[i]>>
  BY DEF both
<1>9. /\ both \in Seq(SeenEntry) /\ Len(both) = Len(q) - 1
      /\ \A j \in 1..(i - 1) : both[j] = q[j]
      /\ \A j \in i..(Len(q) - 1) : both[j] = q[j + 1]
  BY <1>7 DEF both
<1> HIDE DEF moved
<1>10. /\ Len(moved) = Len(q) /\ moved[Len(q)] = q[i]
       /\ \A j \in 1..(Len(q) - 1) : moved[j] = both[j]
  BY <1>1, <1>2, <1>6, <1>8, <1>9
<1>11. ASSUME NEW j \in 1..Len(q) PROVE \E k \in 1..Len(moved) : moved[k] = q[j]
  <2>1. CASE j < i
    <3>1. j \in 1..(i - 1) /\ j \in 1..(Len(q) - 1)
      BY <1>1, <1>2, <2>1
    <3> QED BY <1>1, <1>9, <1>10, <3>1
  <2>2. CASE j = i
    BY <1>1, <1>2, <1>10, <2>2
  <2>3. CASE j > i
    <3>1. j - 1 \in i..(Len(q) - 1) /\ (j - 1) + 1 = j /\ j - 1 \in 1..(Len(q) - 1)
      BY <1>1, <1>2, <2>3
    <3> QED BY <1>1, <1>9, <1>10, <3>1
  <2> QED BY <1>1, <1>2, <2>1, <2>2, <2>3
<1>12. \A j \in 1..Len(q) : Holds(moved, q[j].key)
  BY <1>11 DEF Holds
<1> QED BY <1>3, <1>10, <1>12 DEF q

\* A new key costs at most the place at the front, and that of a full cache.
LEMMA RememberingKeeps ==
    ASSUME TypeOK, NEW e \in inflight, Len(LiveSeen) <= DedupCapacity
    PROVE  /\ Len(Remembered(e)) <= DedupCapacity
           /\ \A j \in 1..Len(LiveSeen) :
                 \/ Holds(Remembered(e), LiveSeen[j].key)
                 \/ j = 1 /\ Len(LiveSeen) = DedupCapacity
<1> DEFINE new == [key |-> KeyOf(e), received |-> now]
           q == LiveSeen
           p == Append(q, new)
           n == Len(q)
<1>1. /\ q \in Seq(SeenEntry) /\ n \in Nat /\ n <= DedupCapacity
      /\ DedupCapacity \in Nat \ {0}
  BY LiveTypes, DurationAssumption
<1>2. new \in SeenEntry
  BY InflightIsEvent DEF KeyOf, Key, Event, SeenEntry, Time
<1>3. Remembered(e) = IF Len(p) > DedupCapacity
                      THEN SubSeq(p, Len(p) - DedupCapacity + 1, Len(p)) ELSE p
  BY DEF Remembered
<1> HIDE DEF q, new
<1>4. p \in Seq(SeenEntry) /\ Len(p) = n + 1 /\ \A j \in 1..n : p[j] = q[j]
  BY <1>1, <1>2
<1> HIDE DEF p, n
<1>5. CASE n < DedupCapacity
  <2>1. Remembered(e) = p
    BY <1>1, <1>3, <1>4, <1>5
  <2>2. Len(p) <= DedupCapacity
    BY <1>1, <1>4, <1>5
  <2>3. \A j \in 1..n : Holds(p, q[j].key)
    BY <1>1, <1>4 DEF Holds
  <2> QED BY <2>1, <2>2, <2>3 DEF n, q
<1>6. CASE n = DedupCapacity
  <2>1. Remembered(e) = SubSeq(p, 2, n + 1)
    BY <1>1, <1>3, <1>4, <1>6
  <2> DEFINE r == SubSeq(p, 2, n + 1)
  <2>2. Len(r) = n /\ \A j \in 1..n : r[j] = p[j + 1]
    BY <1>1, <1>4
  <2> HIDE DEF r
  <2>3. ASSUME NEW j \in 1..n, j # 1 PROVE Holds(r, q[j].key)
    <3>1. j - 1 \in 1..n /\ (j - 1) + 1 = j
      BY <1>1, <2>3
    <3>2. r[j - 1] = q[j]
      BY <1>4, <2>2, <3>1
    <3> QED BY <2>2, <3>1, <3>2 DEF Holds
  <2> QED BY <1>1, <1>6, <2>1, <2>2, <2>3 DEF n, q, r
<1> QED BY <1>1, <1>5, <1>6

SeenFits == Len(seen) <= DedupCapacity

\* What a step may do to the key cache.
LEMMA SeenChanges ==
    ASSUME [Next]_vars
    PROVE  \/ seen' = seen \/ seen' = LiveSeen
           \/ \E e \in inflight : \/ IsDuplicate(e) /\ seen' = MovedToEnd(e)
                                  \/ seen' = Remembered(e)
BY DEF Next, Hook, Lose, Reject, Receive, ProcessDuplicate, ProcessEnd, ProcessActivity, Tick,
       AdvanceClock, vars, tables

LEMMA LiveSeenFits == ASSUME TypeOK, SeenFits PROVE Len(LiveSeen) <= DedupCapacity
<1>1. PICK k \in Nat : Len(LiveSeen) = Len(seen) - k
  BY LiveSeenDropsOld
<1>2. Len(seen) \in Nat /\ DedupCapacity \in Nat
  BY DurationAssumption DEF TypeOK
<1> QED BY <1>1, <1>2 DEF SeenFits

\* The cache never outgrows dedup_capacity.
THEOREM CacheFits == Spec => []SeenFits
<1>1. Init => SeenFits
  BY DurationAssumption DEF Init, SeenFits
<1>2. TypeOK /\ SeenFits /\ [Next]_vars => SeenFits'
  <2> SUFFICES ASSUME TypeOK, SeenFits, [Next]_vars PROVE SeenFits'
    OBVIOUS
  <2>1. Len(LiveSeen) <= DedupCapacity
    BY LiveSeenFits
  <2>2. CASE seen' = seen \/ seen' = LiveSeen
    BY <2>1, <2>2 DEF SeenFits
  <2>3. ASSUME NEW e \in inflight, IsDuplicate(e), seen' = MovedToEnd(e) PROVE SeenFits'
    BY <2>1, <2>3, MovingKeeps DEF SeenFits
  <2>4. ASSUME NEW e \in inflight, seen' = Remembered(e) PROVE SeenFits'
    BY <2>1, <2>4, RememberingKeeps DEF SeenFits
  <2> QED BY <2>2, <2>3, <2>4, SeenChanges
<1> QED BY <1>1, <1>2, TypeCorrect, PTL DEF Spec

\* A repeated hook takes effect once: its key is forgotten only when it is old,
\* or at the front of a full cache.
THEOREM KeysAreKept == Spec => KeyForgottenOnlyWhenOldOrFull
<1> DEFINE Kept ==
      \A i \in 1..Len(seen) :
          (\A j \in 1..Len(seen') : seen'[j].key # seen[i].key)
          => \/ now - seen[i].received >= StaleSession
             \/ i = 1 /\ Len(seen) = DedupCapacity
<1>1. TypeOK /\ SeenFits /\ [Next]_vars => Kept
  <2> SUFFICES ASSUME TypeOK, SeenFits, [Next]_vars, NEW i \in 1..Len(seen),
                      ~Holds(seen', seen[i].key), ~(now - seen[i].received >= StaleSession)
               PROVE  i = 1 /\ Len(seen) = DedupCapacity
    BY DEF Holds
  <2>1. Len(seen) \in Nat /\ DedupCapacity \in Nat /\ Len(LiveSeen) \in Nat
        /\ Len(seen) <= DedupCapacity /\ Len(LiveSeen) <= DedupCapacity
    BY LiveTypes, LiveSeenFits, DurationAssumption DEF TypeOK, SeenFits
  <2>2. PICK k \in Nat :
           /\ k <= Len(seen) /\ Len(LiveSeen) = Len(seen) - k
           /\ \A j \in 1..Len(LiveSeen) : LiveSeen[j] = seen[j + k]
           /\ \A j \in 1..k : now - seen[j].received >= StaleSession
    BY LiveSeenDropsOld
  <2>3. i \notin 1..k
    BY <2>2
  <2>4. i - k \in 1..Len(LiveSeen) /\ (i - k) + k = i
    BY <2>1, <2>2, <2>3
  <2>5. LiveSeen[i - k] = seen[i]
    BY <2>2, <2>4
  <2>6. seen' # seen /\ seen' # LiveSeen
    BY <2>4, <2>5 DEF Holds
  <2>7. ASSUME NEW e \in inflight, IsDuplicate(e), seen' = MovedToEnd(e) PROVE FALSE
    BY <2>4, <2>5, <2>7, MovingKeeps
  <2>8. ASSUME NEW e \in inflight, seen' = Remembered(e)
        PROVE  i - k = 1 /\ Len(LiveSeen) = DedupCapacity
    BY <2>1, <2>4, <2>5, <2>8, RememberingKeeps
  <2>9. i - k = 1 /\ Len(LiveSeen) = DedupCapacity
    BY <2>6, <2>7, <2>8, SeenChanges
  <2> QED BY <2>1, <2>2, <2>9
<1> QED BY <1>1, TypeCorrect, CacheFits, PTL DEF Spec, KeyForgottenOnlyWhenOldOrFull
-----------------------------------------------------------------------------
(* Steps: what the display shows.                                          *)

Outranks(a, b) ==
    \/ STATE_PRIORITY[a.state] > STATE_PRIORITY[b.state]
    \/ a.state = b.state /\ a.updated >= b.updated

\* The claims that compete for the display in snapshot().
SessionBids ==
    {[state |-> LiveSessions[s].current_state, updated |-> LiveSessions[s].updated] :
        s \in {r \in Session : LiveSessions[r] # Absent}}
LeaseBids ==
    {[state |-> "SUCCESS", updated |-> LiveCompletions[s].time] :
        s \in {r \in Session : LiveCompletions[r] # Absent}}
Bids == SessionBids \cup LeaseBids

\* The ranking is one of integers, and no two states share a rank.
LEMMA RanksDiffer ==
    /\ \A s \in State : STATE_PRIORITY[s] \in -1..120
    /\ \A s, t \in State : STATE_PRIORITY[s] = STATE_PRIORITY[t] => s = t
    /\ \A s \in State \ {"OFF"} : STATE_PRIORITY[s] >= 0
    /\ STATE_PRIORITY["IDLE"] = 0 /\ STATE_PRIORITY["SUCCESS"] = 10
    /\ STATE_PRIORITY["THINKING"] = 20 /\ STATE_PRIORITY["ERROR"] = 110
BY DEF State, STATE_PRIORITY

\* Among claims whose times are bounded one outranks all others.
LEMMA BestBid ==
    ASSUME NEW n \in Nat, NEW B, B \subseteq [state: State, updated: 0..n], B # {}
    PROVE  \E a \in B : \A b \in B : Outranks(a, b)
<1> DEFINE rank(b) == 120 - STATE_PRIORITY[b.state]
           ranks == {rank(b) : b \in B}
<1>1. \A b \in B : b.state \in State /\ b.updated \in 0..n
  OBVIOUS
<1>2. \A b \in B : rank(b) \in Nat /\ STATE_PRIORITY[b.state] \in Int
  BY <1>1, RanksDiffer
<1>3. ranks \subseteq Nat /\ ranks # {}
  BY <1>2
<1>4. PICK c \in B : \A b \in B : rank(c) <= rank(b)
  <2>1. \E x \in ranks : \A y \in ranks : x <= y
    <3> HIDE DEF ranks
    <3> QED BY <1>3, LeastExists
  <2> QED BY <2>1
<1> DEFINE top == {b \in B : b.state = c.state}
           ages == {n - b.updated : b \in top}
<1>5. ages \subseteq Nat /\ ages # {}
  BY <1>1
<1>6. PICK a \in top : \A b \in top : n - a.updated <= n - b.updated
  <2>1. \E x \in ages : \A y \in ages : x <= y
    <3> HIDE DEF ages
    <3> QED BY <1>5, LeastExists
  <2> QED BY <2>1
<1>7. ASSUME NEW b \in B PROVE Outranks(a, b)
  <2>1. CASE b.state = a.state
    <3>1. b \in top
      BY <2>1, <1>6
    <3>2. n - a.updated <= n - b.updated
      BY <1>6, <3>1
    <3>3. a.updated \in Nat /\ b.updated \in Nat
      BY <1>1, <1>6
    <3>4. a.updated >= b.updated
      BY <3>2, <3>3
    <3> QED BY <2>1, <3>4 DEF Outranks
  <2>2. CASE b.state # a.state
    <3>1. a.state = c.state /\ a \in B /\ rank(c) <= rank(b)
      BY <1>4, <1>6
    <3>2. STATE_PRIORITY[a.state] # STATE_PRIORITY[b.state]
      BY <1>1, <2>2, <3>1, RanksDiffer
    <3>3. STATE_PRIORITY[a.state] \in Int /\ STATE_PRIORITY[b.state] \in Int
      BY <1>2, <3>1
    <3>4. 120 - STATE_PRIORITY[a.state] <= 120 - STATE_PRIORITY[b.state]
      BY <3>1
    <3>5. STATE_PRIORITY[a.state] > STATE_PRIORITY[b.state]
      BY <3>2, <3>3, <3>4
    <3> QED BY <3>5 DEF Outranks
  <2> QED BY <2>1, <2>2
<1> QED BY <1>6, <1>7

\* No claim is later than the clock.
LEMMA BidsAreBounded == TypeOK /\ IInv => Bids \subseteq [state: State, updated: 0..now]
<1> SUFFICES ASSUME TypeOK, IInv PROVE Bids \subseteq [state: State, updated: 0..now]
  OBVIOUS
<1>1. \A s \in Session :
         /\ Guarded(applied[s], LiveSessions[s], LiveEnded[s])
         /\ LeaseAgrees(applied[s], LiveSessions[s], LiveCompletions[s])
  BY ExpiryKeepsGuard, ExpiryKeepsLease DEF IInv, NewestIsGuarded, LeaseAgreesWithSession
<1>2. now \in Nat
  BY DEF TypeOK, Time
<1>3. ASSUME NEW s \in Session, LiveSessions[s] # Absent
      PROVE  LiveSessions[s].current_state \in State /\ LiveSessions[s].updated \in 0..now
  <2>1. LiveSessions[s] \in SessionStatus
    BY <1>3, LiveTypes
  <2>2. LiveSessions[s].updated <= now
    BY <1>1, <1>3 DEF Guarded
  <2> QED BY <1>2, <2>1, <2>2 DEF SessionStatus, Time
<1>4. ASSUME NEW s \in Session, LiveCompletions[s] # Absent
      PROVE  LiveCompletions[s].time \in 0..now
  <2>1. LiveCompletions[s].time \in Nat
    BY <1>4, LiveTypes DEF Lease, Time
  <2>2. /\ applied[s] # Absent /\ LiveCompletions[s].time <= applied[s].time
        /\ applied[s].time <= now
    BY <1>1, <1>4 DEF Guarded, LeaseAgrees
  <2>3. applied[s].time \in Nat
    BY <2>2 DEF TypeOK, Event, Time
  <2> QED BY <1>2, <2>1, <2>2, <2>3
<1>5. "SUCCESS" \in State
  BY DEF State
<1>6. SessionBids \subseteq [state: State, updated: 0..now]
  BY <1>3 DEF SessionBids
<1>7. LeaseBids \subseteq [state: State, updated: 0..now]
  BY <1>4, <1>5 DEF LeaseBids
<1> QED BY <1>6, <1>7 DEF Bids

\* The winner is one of the claims and ranks no lower than any other; without
\* a claim it is IDLE.
WinnerLeads ==
    /\ Bids = {} => Snapshot.winner.state = "IDLE"
    /\ Bids # {} =>
          /\ Snapshot.winner \in Bids
          /\ \A b \in Bids : STATE_PRIORITY[b.state] <= STATE_PRIORITY[Snapshot.winner.state]
    /\ Snapshot.winner.state \in State
LEMMA WinnerIsBest == TypeOK /\ IInv => WinnerLeads
<1> SUFFICES ASSUME TypeOK, IInv PROVE WinnerLeads
  OBVIOUS
<1>1. Bids \subseteq [state: State, updated: 0..now] /\ now \in Nat
  BY BidsAreBounded DEF TypeOK, Time
<1>2. Snapshot.winner = IF Bids = {} THEN [state |-> "IDLE", updated |-> now]
                        ELSE CHOOSE a \in Bids : \A b \in Bids : Outranks(a, b)
  BY DEF Snapshot, Bids, SessionBids, LeaseBids, Outranks
<1>3. CASE Bids = {}
  BY <1>2, <1>3 DEF WinnerLeads, State
<1>4. CASE Bids # {}
  <2>1. \E a \in Bids : \A b \in Bids : Outranks(a, b)
    BY <1>1, <1>4, BestBid
  <2>2. Snapshot.winner \in Bids /\ \A b \in Bids : Outranks(Snapshot.winner, b)
    BY <1>2, <1>4, <2>1
  <2>3. \A b \in Bids : b.state \in State /\ STATE_PRIORITY[b.state] \in Int
    BY <1>1, RanksDiffer
  <2>4. \A b \in Bids : STATE_PRIORITY[b.state] <= STATE_PRIORITY[Snapshot.winner.state]
    BY <2>2, <2>3 DEF Outranks
  <2> QED BY <1>4, <2>2, <2>3, <2>4 DEF WinnerLeads
<1> QED BY <1>3, <1>4

LEMMA WinnerIsBestNext == TypeOK' /\ IInv' => WinnerLeads'
BY WinnerIsBest, PTL

\* ExpiredStatus with the clock as a parameter.
StatusAt(t, x) ==
    IF t - x.updated >= StaleSession THEN Absent
    ELSE IF /\ x.current_state = "ERROR" /\ x.transient_error_expiry # Never
            /\ t >= x.transient_error_expiry
         THEN [x EXCEPT !.current_state = "THINKING", !.updated = t,
                        !.transient_error_expiry = Never]
    ELSE IF /\ x.current_state = "SUCCESS" /\ x.completion_expiry # Never
            /\ t >= x.completion_expiry
         THEN [x EXCEPT !.current_state = "IDLE", !.updated = t,
                        !.completion_expiry = Never]
    ELSE x
LEMMA ExpiredStatusAt ==
    LiveSessions = [s \in Session |-> IF sessions[s] = Absent THEN Absent
                                      ELSE StatusAt(now, sessions[s])]
BY DEF LiveSessions, ExpiredStatus, StatusAt, IsStale, ErrorIsOver, SuccessIsOver, FadedError,
       FadedSuccess
LEMMA ExpiredStatusAtNext ==
    LiveSessions' = [s \in Session |-> IF sessions'[s] = Absent THEN Absent
                                       ELSE StatusAt(now', sessions'[s])]
BY DEF LiveSessions, ExpiredStatus, StatusAt, IsStale, ErrorIsOver, SuccessIsOver, FadedError,
       FadedSuccess

\* Time never makes a record more urgent.
LEMMA FadingLowers ==
    ASSUME NEW t \in Nat, NEW v \in Nat, v = t + 1, NEW x \in SessionStatus
    PROVE  /\ StatusAt(t, x) # Absent =>
                 STATE_PRIORITY[StatusAt(t, x).current_state] <= STATE_PRIORITY[x.current_state]
           /\ StatusAt(v, x) # Absent =>
                 /\ StatusAt(t, x) # Absent
                 /\ STATE_PRIORITY[StatusAt(v, x).current_state]
                      <= STATE_PRIORITY[StatusAt(t, x).current_state]
<1>1. /\ x.updated \in Nat /\ StaleSession \in Nat /\ x # Absent
      /\ x.transient_error_expiry \in Nat \cup {Never}
      /\ x.completion_expiry \in Nat \cup {Never}
      /\ x.current_state \in State
  BY DurationAssumption, AbsentAssumption DEF SessionStatus, Time
<1> DEFINE error(u) == /\ x.current_state = "ERROR" /\ x.transient_error_expiry # Never
                       /\ u >= x.transient_error_expiry
           success(u) == /\ x.current_state = "SUCCESS" /\ x.completion_expiry # Never
                         /\ u >= x.completion_expiry
           faded(u) == IF error(u) THEN "THINKING" ELSE IF success(u) THEN "IDLE"
                       ELSE x.current_state
<1>2. ASSUME NEW u \in Nat
      PROVE  /\ u - x.updated < StaleSession =>
                   StatusAt(u, x) # Absent /\ StatusAt(u, x).current_state = faded(u)
             /\ u - x.updated >= StaleSession => StatusAt(u, x) = Absent
  <2> DEFINE e == [x EXCEPT !.current_state = "THINKING", !.updated = u,
                            !.transient_error_expiry = Never]
             f == [x EXCEPT !.current_state = "IDLE", !.updated = u,
                            !.completion_expiry = Never]
  <2>1. /\ e \in SessionStatus /\ e.current_state = "THINKING"
        /\ f \in SessionStatus /\ f.current_state = "IDLE"
    BY DEF SessionStatus, State, Time
  <2>2. StatusAt(u, x) = IF u - x.updated >= StaleSession THEN Absent
                         ELSE IF error(u) THEN e ELSE IF success(u) THEN f ELSE x
    BY DEF StatusAt
  <2>3. e # Absent /\ f # Absent
    BY <2>1, AbsentAssumption
  <2> HIDE DEF e, f
  <2> QED BY <1>1, <2>1, <2>2, <2>3
<1>3. \A u \in Nat : STATE_PRIORITY[faded(u)] <= STATE_PRIORITY[x.current_state]
  <2>1. STATE_PRIORITY[x.current_state] \in Int
    BY <1>1, RanksDiffer
  <2> QED BY <2>1, RanksDiffer
<1>4. (error(t) => error(v)) /\ (success(t) => success(v))
  BY <1>1 DEF Never
<1>5. STATE_PRIORITY[faded(v)] <= STATE_PRIORITY[faded(t)]
  <2>1. CASE error(t) \/ success(t)
    <3>1. faded(v) = faded(t)
      BY <1>4, <2>1
    <3>2. STATE_PRIORITY[faded(t)] \in Int
      BY <2>1, RanksDiffer
    <3> HIDE DEF faded
    <3> QED BY <3>1, <3>2
  <2>2. CASE ~error(t) /\ ~success(t)
    <3>1. faded(t) = x.current_state /\ v \in Nat
      BY <2>2
    <3> HIDE DEF faded
    <3> QED BY <1>3, <3>1
  <2> QED BY <2>1, <2>2
<1>6. v - x.updated < StaleSession => t - x.updated < StaleSession
  BY <1>1
<1> HIDE DEF faded
<1>7. t - x.updated \in Int /\ v - x.updated \in Int /\ v \in Nat
  BY <1>1
<1>8. StatusAt(v, x) # Absent => v - x.updated < StaleSession
  BY <1>1, <1>2, <1>7
<1>9. StatusAt(t, x) # Absent => t - x.updated < StaleSession
  BY <1>1, <1>2, <1>7
<1>10. StatusAt(t, x) # Absent => StatusAt(t, x).current_state = faded(t)
  BY <1>2, <1>9
<1>11. StatusAt(v, x) # Absent =>
         /\ StatusAt(t, x) # Absent
         /\ StatusAt(v, x).current_state = faded(v)
         /\ StatusAt(t, x).current_state = faded(t)
  <2>1. v - x.updated < StaleSession =>
          StatusAt(v, x).current_state = faded(v)
    BY <1>2
  <2>2. t - x.updated < StaleSession =>
          StatusAt(t, x) # Absent /\ StatusAt(t, x).current_state = faded(t)
    BY <1>2
  <2> QED BY <2>1, <2>2, <1>6, <1>8
<1>12. STATE_PRIORITY[faded(t)] <= STATE_PRIORITY[x.current_state]
  BY <1>3
<1> QED BY <1>5, <1>10, <1>11, <1>12

\* Every claim to the display was already there, no less urgent.
Falls ==
    \A s \in Session :
        /\ LiveSessions'[s] # Absent =>
              /\ LiveSessions[s] # Absent
              /\ STATE_PRIORITY[LiveSessions'[s].current_state]
                   <= STATE_PRIORITY[LiveSessions[s].current_state]
        /\ LiveCompletions'[s] # Absent => LiveCompletions[s] # Absent

LEMMA QuietStepsFall ==
    ASSUME TypeOK,
           \/ UNCHANGED <<now, sessions, completions>>
           \/ now' = now /\ sessions' = LiveSessions /\ completions' = LiveCompletions
           \/ now' = now + 1 /\ UNCHANGED <<sessions, completions>>
    PROVE  Falls
<1>1. /\ now \in Nat /\ LiveSessions \in [Session -> SessionStatus \cup {Absent}]
      /\ LiveCompletions \in [Session -> Lease \cup {Absent}]
      /\ sessions \in [Session -> SessionStatus \cup {Absent}]
      /\ completions \in [Session -> Lease \cup {Absent}]
  BY LiveTypes DEF TypeOK, Time
<1>2. LiveCompletions' = [s \in Session |->
            IF completions'[s] # Absent /\ now' < completions'[s].expiry
            THEN completions'[s] ELSE Absent]
  BY DEF LiveCompletions
<1> SUFFICES ASSUME NEW s \in Session
             PROVE  /\ LiveSessions'[s] # Absent =>
                          /\ LiveSessions[s] # Absent
                          /\ STATE_PRIORITY[LiveSessions'[s].current_state]
                               <= STATE_PRIORITY[LiveSessions[s].current_state]
                    /\ LiveCompletions'[s] # Absent => LiveCompletions[s] # Absent
  BY DEF Falls
<1>3. CASE UNCHANGED <<now, sessions, completions>>
  <2>1. LiveSessions' = LiveSessions
    BY <1>3, ExpiredStatusAt, ExpiredStatusAtNext
  <2>2. LiveCompletions' = LiveCompletions
    BY <1>2, <1>3 DEF LiveCompletions
  <2>3. LiveSessions[s] # Absent => STATE_PRIORITY[LiveSessions[s].current_state] \in Int
    BY <1>1, RanksDiffer DEF SessionStatus
  <2> QED BY <2>1, <2>2, <2>3
<1>4. CASE now' = now /\ sessions' = LiveSessions /\ completions' = LiveCompletions
  <2>1. LiveSessions'[s] = IF LiveSessions[s] = Absent THEN Absent
                           ELSE StatusAt(now, LiveSessions[s])
    BY <1>4, ExpiredStatusAtNext
  <2>2. LiveCompletions'[s] # Absent => LiveCompletions[s] # Absent
    BY <1>2, <1>4
  <2>3. LiveSessions[s] # Absent => LiveSessions[s] \in SessionStatus
    BY <1>1
  <2> QED BY <1>1, <2>1, <2>2, <2>3, FadingLowers
<1>5. CASE now' = now + 1 /\ UNCHANGED <<sessions, completions>>
  <2>1. /\ LiveSessions[s] = IF sessions[s] = Absent THEN Absent ELSE StatusAt(now, sessions[s])
        /\ LiveSessions'[s] = IF sessions[s] = Absent THEN Absent
                              ELSE StatusAt(now + 1, sessions[s])
    BY <1>5, ExpiredStatusAt, ExpiredStatusAtNext
  <2>2. LiveCompletions'[s] # Absent => LiveCompletions[s] # Absent
    <3>1. completions[s] # Absent => completions[s].expiry \in Nat
      BY <1>1 DEF Lease, Time
    <3>2. now + 1 < completions[s].expiry /\ completions[s] # Absent => now < completions[s].expiry
      BY <1>1, <3>1
    <3>3. LiveCompletions'[s] = IF completions[s] # Absent /\ now + 1 < completions[s].expiry
                                THEN completions[s] ELSE Absent
      BY <1>2, <1>5
    <3>4. LiveCompletions[s] = IF completions[s] # Absent /\ now < completions[s].expiry
                               THEN completions[s] ELSE Absent
      BY DEF LiveCompletions
    <3> QED BY <3>2, <3>3, <3>4
  <2>3. sessions[s] # Absent => sessions[s] \in SessionStatus
    BY <1>1
  <2> QED BY <1>1, <2>1, <2>2, <2>3, FadingLowers
<1> QED BY <1>3, <1>4, <1>5

\* When no claim rises, neither does the display.
LEMMA FallingDisplay ==
    ASSUME TypeOK, IInv, RecordsShowNewest, TypeOK', IInv', Falls
    PROVE  ~(STATE_PRIORITY[Snapshot.winner.state] < STATE_PRIORITY[Snapshot'.winner.state])
<1>1. WinnerLeads /\ WinnerLeads'
  BY WinnerIsBest, WinnerIsBestNext
<1> DEFINE rank == STATE_PRIORITY[Snapshot.winner.state]
           next == STATE_PRIORITY[Snapshot'.winner.state]
<1>2. rank \in Int /\ next \in Int
  BY <1>1, RanksDiffer DEF WinnerLeads
<1>3. rank >= 0
  <2>1. \A s \in Session : LiveSessions[s] # Absent => LiveSessions[s].current_state # "OFF"
    BY ExpiryKeepsShown DEF RecordsShowNewest, ShowsNewest
  <2>2. \A b \in Bids : b.state # "OFF"
    BY <2>1 DEF Bids, SessionBids, LeaseBids
  <2>3. Snapshot.winner.state # "OFF"
    BY <1>1, <2>2 DEF WinnerLeads
  <2> QED BY <1>1, <2>3, RanksDiffer DEF WinnerLeads
<1>4. CASE Bids' = {}
  <2>1. next = 0
    BY <1>1, <1>4, RanksDiffer DEF WinnerLeads
  <2> HIDE DEF rank, next
  <2>2. ~(rank < next)
    BY <1>2, <1>3, <2>1
  <2> QED BY <2>2 DEF rank, next
<1>5. CASE Bids' # {}
  <2>1. Snapshot'.winner \in SessionBids' \cup LeaseBids'
    BY <1>1, <1>5 DEF WinnerLeads, Bids
  <2>2. \E b \in Bids : next <= STATE_PRIORITY[b.state]
    <3>1. CASE Snapshot'.winner \in SessionBids'
      <4>1. PICK s \in Session : /\ LiveSessions'[s] # Absent
                                 /\ Snapshot'.winner.state = LiveSessions'[s].current_state
        BY <3>1 DEF SessionBids
      <4> DEFINE b == [state |-> LiveSessions[s].current_state,
                       updated |-> LiveSessions[s].updated]
      <4>2. b \in Bids /\ b.state = LiveSessions[s].current_state
        BY <4>1 DEF Falls, Bids, SessionBids
      <4>3. next <= STATE_PRIORITY[LiveSessions[s].current_state]
        BY <4>1 DEF Falls
      <4> QED BY <4>2, <4>3
    <3>2. CASE Snapshot'.winner \in LeaseBids'
      <4>1. PICK s \in Session : /\ LiveCompletions'[s] # Absent
                                 /\ Snapshot'.winner.state = "SUCCESS"
        BY <3>2 DEF LeaseBids
      <4> DEFINE b == [state |-> "SUCCESS", updated |-> LiveCompletions[s].time]
      <4>2. b \in Bids /\ b.state = "SUCCESS"
        BY <4>1 DEF Falls, Bids, LeaseBids
      <4>3. next <= STATE_PRIORITY[b.state]
        BY <4>1, <4>2, RanksDiffer
      <4> QED BY <4>2, <4>3
    <3> QED BY <2>1, <3>1, <3>2
  <2>3. PICK b \in Bids : next <= STATE_PRIORITY[b.state]
    BY <2>2
  <2>4. b.state \in State /\ STATE_PRIORITY[b.state] \in Int
    BY BidsAreBounded, RanksDiffer
  <2>5. STATE_PRIORITY[b.state] <= rank
    BY <1>1, <2>3 DEF WinnerLeads
  <2> DEFINE middle == STATE_PRIORITY[b.state]
  <2>6. middle \in Int /\ next <= middle /\ middle <= rank
    BY <2>3, <2>4, <2>5
  <2> HIDE DEF rank, next, middle
  <2>7. ~(rank < next)
    BY <1>2, <2>6
  <2> QED BY <2>7 DEF rank, next
<1> QED BY <1>4, <1>5

\* Only an event that takes effect makes the display more urgent: not the
\* clock, not a tick, and no datagram that process turns away.
THEOREM DisplayFollowsEvents == Spec => DisplayRisesOnlyOnEvent
<1> DEFINE Quiet ==
      STATE_PRIORITY[Snapshot.winner.state] < STATE_PRIORITY[Snapshot'.winner.state]
      => \E e \in inflight : Receive(e) /\ applied'[e.session] = e
<1>1. TypeOK /\ IInv /\ RecordsShowNewest /\ TypeOK' /\ IInv' /\ [Next]_vars => Quiet
  <2> SUFFICES ASSUME TypeOK, IInv, RecordsShowNewest, TypeOK', IInv', [Next]_vars,
                      ~(\E e \in inflight : Receive(e) /\ applied'[e.session] = e)
               PROVE  ~(STATE_PRIORITY[Snapshot.winner.state]
                          < STATE_PRIORITY[Snapshot'.winner.state])
    OBVIOUS
  <2>1. ASSUME NEW e \in inflight, Receive(e)
        PROVE  now' = now /\ sessions' = LiveSessions /\ completions' = LiveCompletions
    <3>1. e.session \in Session /\ applied \in [Session -> Event \cup {Absent}]
      BY InflightIsEvent DEF TypeOK
    <3>2. ~EndedBy(e) /\ ~WrittenBy(e)
      BY <2>1, <3>1 DEF EndedBy, WrittenBy
    <3>3. TurnedAway
      BY <2>1, <3>2, ReceiveOutcome DEF IInv
    <3> QED BY <2>1, <3>3 DEF TurnedAway, Receive
  <2>2. \/ UNCHANGED <<now, sessions, completions>>
        \/ now' = now /\ sessions' = LiveSessions /\ completions' = LiveCompletions
        \/ now' = now + 1 /\ UNCHANGED <<sessions, completions>>
    BY <2>1 DEF Next, Hook, Lose, Reject, Tick, AdvanceClock, vars, tables
  <2> QED BY <2>2, QuietStepsFall, FallingDisplay
<1> QED
  BY <1>1, InvariantHolds, RecordsAlwaysShowNewest, PTL DEF Spec, DisplayRisesOnlyOnEvent
=============================================================================
