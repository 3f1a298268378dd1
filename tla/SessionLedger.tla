---------------------------- MODULE SessionLedger ----------------------------
(***************************************************************************)
(* What the session aggregator promises, without deduplication, leases,    *)
(* tombstones or expiry timers.  Each session is a register written by     *)
(* lifecycle events in the order of their hook timestamps: a write older   *)
(* than the last one is never taken, whatever order the datagrams arrive   *)
(* in.  Between writes the shown state may only fade: ERROR to THINKING,   *)
(* SUCCESS to IDLE, and any state to no record at all.                     *)
(***************************************************************************)
EXTENDS MatrixProtocol

CONSTANTS
    Session,   \* session identifiers
    Ref,       \* the (turn, tool_use) parts of deduplication keys
    Absent     \* "no entry"

Event ==
    [event: EventCategory, session: Session, ref: Ref, state: State,
     failed: BOOLEAN, time: Nat]

VARIABLES
    last,      \* per session, the event written last, or Absent
    shown      \* per session, the state it contributes, or Absent

Fade(x) ==
    {x, Absent} \cup (IF x = "ERROR" THEN {"THINKING"} ELSE {})
                \cup (IF x = "SUCCESS" THEN {"IDLE"} ELSE {})

Init ==
    /\ last = [s \in Session |-> Absent]
    /\ shown = [s \in Session |-> Absent]

\* Time passes: every session may fade.
Expire ==
    /\ UNCHANGED last
    /\ shown' \in [Session -> State \cup {Absent}]
    /\ \A s \in Session : shown'[s] \in Fade(shown[s])

\* An event of session s is written; the others may fade in the same step.
Write(s) ==
    /\ \E e \in {last'[s]} :
          /\ e \in Event
          /\ e.session = s
          /\ last[s] # Absent => e.time >= last[s].time
          /\ last' = [last EXCEPT ![s] = e]
          /\ shown'[s] = IF e.event = "session_end" THEN Absent ELSE e.state
    /\ shown' \in [Session -> State \cup {Absent}]
    /\ \A r \in Session \ {s} : shown'[r] \in Fade(shown[r])

Next == Expire \/ \E s \in Session : Write(s)

Spec == Init /\ [][Next]_<<last, shown>>
=============================================================================
