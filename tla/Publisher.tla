----------------------------- MODULE Publisher -----------------------------
(***************************************************************************)
(* The daemon's single thread and the board behind the Arduino Router.     *)
(* The loop decides what to display (a demo, an operator's override or the *)
(* aggregate), skips what the board is already showing, and otherwise      *)
(* publishes it as a sequence of blocking RPCs.  Any RPC may fail before   *)
(* it takes effect, after it, or so that it takes effect late, behind      *)
(* newer ones; the board may reset, or come back with another firmware,    *)
(* and the daemon may crash, between any two of them.                      *)
(*                                                                         *)
(* Times are kept relative to the monotonic clock: `since_attempt' is      *)
(* now - last_publish_attempt, `retry_in' is _next_router_attempt - now,   *)
(* `override_left' is override_expiry - now, and `demo' is                 *)
(* now - demo_started.  The firmware is taken at its word, as Firmware     *)
(* checks it: the last state it was given, or OFFLINE after a silence.     *)
(***************************************************************************)
EXTENDS MatrixProtocol, Sequences, FiniteSets

CONSTANTS
    Aggregates,         \* what snapshot() and quota_source.current() may say
    Overrides,          \* states an operator may set
    Durations,          \* override durations an operator may ask for
    DemoStates,         \* DEMO_STATES
    DemoStep,           \* demo_step_s
    HeartbeatInterval,  \* heartbeat_interval_s
    RetryDelay,         \* the two seconds in _publish
    OfflineTimeout,     \* offline_timeout_s
    Bars,               \* does the firmware on the board draw a quota bar?
    None,
    MaxDisturbances,    \* bound: failures, resets, stops, commands, new wishes
    MaxCalm             \* bound: how long a calm stretch is measured

Aggregate == [state: State, active: Nat, quota: Nat \cup {None}]
\* What a daemon that has seen no event and no quota has to show.
NothingKnown == [state |-> "IDLE", active |-> 0, quota |-> None]

\* load_config keeps the offline timeout at two heartbeats or more and the
\* heartbeat interval at the 2 s of the retry delay or more; a tick is a second,
\* and no RPC lasts two.
ASSUME PublisherAssumption ==
    /\ Aggregates \subseteq Aggregate
    /\ Overrides \subseteq State
    /\ Durations \subseteq Nat \ {0}
    /\ DemoStates \in Seq(State) \ {<<>>} /\ DemoStep \in Nat \ {0}
    /\ RetryDelay \in Nat /\ HeartbeatInterval \in Nat \ {0, 1}
    /\ RetryDelay <= HeartbeatInterval
    /\ OfflineTimeout \in Nat /\ OfflineTimeout >= 2 * HeartbeatInterval
    /\ Bars \subseteq BOOLEAN
    /\ MaxDisturbances \in Nat
    /\ MaxCalm \in Nat /\ RetryDelay <= MaxCalm
    /\ None \notin State \cup Nat \cup Aggregate

Rpcs == {"version", "state", "brightness", "quota", "heartbeat", "status"}

VARIABLES
    pc,             \* where the thread is: an RPC in flight, or between them
    running,        \* MatrixDaemon.running
    want,           \* the aggregate and the quota as they are now
    demo,           \* demo_started
    override,       \* override_state
    override_left,  \* override_expiry
    last_display,   \* last_display
    since_attempt,  \* last_publish_attempt
    retry_in,       \* _next_router_attempt
    publish_ok,     \* last_publish_ok
    sending,        \* the display being published
    firmware_bar,   \* version.supports_quota_bar in bridge.publish
    rest,           \* a command's publish: the iteration's own is still to come
    board,          \* what the firmware holds, and whether it draws a bar
    late,           \* an RPC given up that the Router still holds, or None
    due,            \* the loop has not run since the clock last moved
    waited,         \* the RPC in flight has taken its share of time
    disturbances,   \* bound: disturbances so far
    asked,          \* history: this process was told to stop
    calm,           \* history: time since the last disturbance or new display
    intact,         \* history: no reset, no late effect since a publish began
    clean           \* history: nothing failed since an intact publish

daemon == <<pc, running, want, demo, override, override_left, last_display,
            since_attempt, retry_in, publish_ok, sending, firmware_bar, rest>>
history == <<asked, calm, intact, clean>>
vars == <<daemon, board, late, due, waited, disturbances, history>>

Idle == pc = "select"
Publishing == pc \in Rpcs
Bounded(n, max) == IF n > max THEN max ELSE n
Countdown(n) == IF n > 0 THEN n - 1 ELSE 0
\* An age beyond every limit it is compared with is not counted further.
AttemptAge == HeartbeatInterval + 1
DemoLength == Len(DemoStates) * DemoStep
-----------------------------------------------------------------------------
\* _display_state: what is to be shown, and what asking changes.
DemoRuns == demo # None /\ demo < DemoLength
DemoOver == demo # None /\ demo >= DemoLength
Overridden == override # None /\ override_left > 0
Display ==
    LET fixed(s) == [state |-> s, active |-> 0, quota |-> want.quota]
    IN  IF DemoRuns THEN fixed(DemoStates[demo \div DemoStep + 1])
        ELSE IF DemoOver THEN fixed("IDLE")
        ELSE IF Overridden THEN fixed(override)
        ELSE want
AskDisplay ==
    IF DemoOver
    THEN demo' = None /\ override' = "IDLE" /\ override_left' = DemoStep
    ELSE /\ override' = IF DemoRuns \/ Overridden THEN override ELSE None
         /\ UNCHANGED <<demo, override_left>>

\* The board as the firmware initialises it: brightness 5, no state, no bar.
Reset(bar) ==
    [state |-> "IDLE", active |-> 0, quota |-> None, brightness |-> FALSE,
     heard |-> FALSE, silent |-> 0, bar |-> bar]
\* The visible state: Firmware!DisplayTellsTheTruth.
Visible ==
    IF ~board.heard \/ board.silent > OfflineTimeout THEN "OFFLINE"
    ELSE board.state
Shows(d) ==
    /\ Visible = d.state
    /\ board.active = d.active
    /\ board.brightness
    /\ board.bar => board.quota = d.quota

\* What an RPC that reaches the board does there.
Effect(rpc, d) ==
    CASE rpc = "state" -> [board EXCEPT !.state = d.state, !.active = d.active,
                                        !.heard = TRUE, !.silent = 0]
      [] rpc = "brightness" -> [board EXCEPT !.brightness = TRUE]
      [] rpc = "quota" /\ board.bar -> [board EXCEPT !.quota = d.quota]
      [] rpc = "heartbeat" -> [board EXCEPT !.heard = TRUE, !.silent = 0]
      [] OTHER -> board
NextRpc(rpc) ==
    CASE rpc = "version" -> "state"
      [] rpc = "state" -> "brightness"
      [] rpc = "brightness" -> IF firmware_bar THEN "quota" ELSE "heartbeat"
      [] rpc = "quota" -> "heartbeat"
      [] OTHER -> "status"
-----------------------------------------------------------------------------
Init ==
    /\ pc = "setup" /\ running = FALSE
    /\ want = NothingKnown
    /\ demo = None /\ override = None /\ override_left = 0
    /\ last_display = None
    /\ since_attempt = AttemptAge /\ retry_in = 0
    /\ publish_ok = FALSE
    /\ sending = NothingKnown /\ firmware_bar = FALSE /\ rest = FALSE
    /\ \E bar \in Bars : board = Reset(bar)
    /\ late = None
    /\ due = FALSE /\ waited = FALSE
    /\ disturbances = 0
    /\ asked = FALSE /\ calm = 0
    /\ intact = FALSE /\ clean = FALSE

\* The end of _publish past its early returns: the first RPC is in flight.
BeginPublish(d, command) ==
    /\ pc' = "version"
    /\ since_attempt' = 0
    /\ sending' = d
    /\ rest' = command
    /\ waited' = FALSE
    /\ intact' = TRUE
    /\ UNCHANGED <<retry_in, publish_ok, firmware_bar, late>>

\* The while condition, evaluated as soon as an iteration is over.
\* Plausible bug: a loop that never looks at `running' again.
Bug_NoStopCheck == "select"
NextIteration == IF running THEN "select" ELSE "stopped"
\* A publish that a command forced is not its iteration's last step.
AfterPublish == IF rest THEN "select" ELSE NextIteration

HeartbeatDue == since_attempt >= HeartbeatInterval
\* Plausible bug: nothing is sent unless the display changed.
Bug_OnlyOnChange == Display # last_display /\ retry_in = 0
\* _publish without force.
MayPublish ==
    /\ Display # last_display \/ HeartbeatDue
    /\ retry_in = 0

\* Plausible bug: a publish that is skipped counts as an attempt.
Bug_SkipCounts ==
    /\ Idle
    /\ AskDisplay
    /\ due' = FALSE
    /\ IF MayPublish THEN BeginPublish(Display, FALSE)
       ELSE /\ pc' = NextIteration
            /\ since_attempt' = 0
            /\ rest' = FALSE
            /\ UNCHANGED <<retry_in, publish_ok, sending, firmware_bar, late,
                           waited, intact>>
    /\ UNCHANGED <<running, want, last_display, board, disturbances, asked,
                   calm, clean>>
\* One iteration of the loop in which no command arrives.
Iterate ==
    /\ Idle
    /\ AskDisplay
    /\ due' = FALSE
    /\ IF MayPublish THEN BeginPublish(Display, FALSE)
       ELSE /\ pc' = NextIteration
            /\ rest' = FALSE
            /\ UNCHANGED <<since_attempt, retry_in, publish_ok, sending,
                           firmware_bar, late, waited, intact>>
    /\ UNCHANGED <<running, want, last_display, board, disturbances, asked,
                   calm, clean>>

\* An RPC that succeeds; the last one ends the publish.  A firmware without the
\* quota bar does not provide the quota method.
RpcSucceeds ==
    /\ Publishing
    /\ pc = "quota" => board.bar
    /\ board' = Effect(pc, sending)
    /\ waited' = FALSE
    /\ IF pc # "status"
       THEN /\ pc' = NextRpc(pc)
            /\ firmware_bar' = IF pc = "version" THEN board.bar ELSE firmware_bar
            /\ UNCHANGED <<last_display, publish_ok, retry_in, sending, clean>>
       ELSE /\ pc' = AfterPublish
            /\ last_display' = sending
            /\ publish_ok' = TRUE
            /\ retry_in' = 0
            /\ sending' = NothingKnown /\ firmware_bar' = FALSE
            /\ clean' = intact
    /\ UNCHANGED <<running, want, demo, override, override_left, since_attempt,
                   rest, late, due, disturbances, asked, calm, intact>>
-----------------------------------------------------------------------------
(* Disturbances: everything that is not the daemon's own routine.           *)
Disturbed ==
    /\ disturbances < MaxDisturbances
    /\ disturbances' = disturbances + 1
    /\ calm' = 0

\* Plausible bugs: a failed publish is not followed by a delay, or by one that
\* counts from the failure.
Bug_NoDelay ==
    /\ pc' = AfterPublish
    /\ publish_ok' = FALSE
    /\ sending' = NothingKnown /\ firmware_bar' = FALSE /\ waited' = FALSE
    /\ clean' = FALSE
    /\ UNCHANGED <<running, want, demo, override, override_left, last_display,
                   since_attempt, rest, due, asked, intact, retry_in>>
Bug_DelayFromFailure ==
    /\ pc' = AfterPublish
    /\ publish_ok' = FALSE
    /\ retry_in' = RetryDelay
    /\ sending' = NothingKnown /\ firmware_bar' = FALSE /\ waited' = FALSE
    /\ clean' = FALSE
    /\ UNCHANGED <<running, want, demo, override, override_left, last_display,
                   since_attempt, rest, due, asked, intact>>
\* The except clause of _publish.  The delay counts from the moment the publish
\* began.
PublishFails ==
    /\ pc' = AfterPublish
    /\ publish_ok' = FALSE
    /\ retry_in' = RetryDelay - Bounded(since_attempt, RetryDelay)
    /\ sending' = NothingKnown /\ firmware_bar' = FALSE /\ waited' = FALSE
    /\ clean' = FALSE
    /\ UNCHANGED <<running, want, demo, override, override_left, last_display,
                   since_attempt, rest, due, asked, intact>>

\* An RPC that fails: lost on the way, rejected, answered too late or not at
\* all.  The board has carried it out, never will, or will later.
RpcFails ==
    /\ Publishing
    /\ Disturbed
    /\ \/ board' \in {board, Effect(pc, sending)} /\ UNCHANGED late
       \/ /\ Effect(pc, sending) # board
          /\ late' = [rpc |-> pc, display |-> sending]
          /\ UNCHANGED board
    /\ PublishFails
\* The firmware changed after its version was read.
RpcUnknown ==
    /\ pc = "quota" /\ ~board.bar
    /\ PublishFails
    /\ calm' = 0
    /\ UNCHANGED <<board, late, disturbances>>
\* The Router delivers a request whose client has given it up.
LateEffect ==
    /\ late # None
    /\ board' = Effect(late.rpc, late.display)
    /\ late' = None
    /\ intact' = FALSE /\ calm' = 0
    /\ UNCHANGED <<daemon, due, waited, disturbances, asked, clean>>

\* Hooks, timers and the quota source change what there is to show.
WishChanges(w) ==
    /\ Disturbed
    /\ want' = w
    /\ UNCHANGED <<pc, running, demo, override, override_left, last_display,
                   since_attempt, retry_in, publish_ok, sending, firmware_bar,
                   rest, board, late, due, waited, asked, intact, clean>>

\* _handle_control: set, demo, doctor (a forced publish) and status.
ControlSet(s, duration) ==
    /\ Idle /\ Disturbed
    /\ demo' = None /\ override' = s /\ override_left' = duration
    /\ last_display' = None
    /\ BeginPublish([state |-> s, active |-> 0, quota |-> want.quota],
                    TRUE)
    /\ UNCHANGED <<running, want, board, due, asked, clean>>
ControlDemo ==
    /\ Idle /\ Disturbed
    /\ demo' = 0 /\ override' = None
    /\ last_display' = None
    /\ BeginPublish([state |-> DemoStates[1], active |-> 0,
                     quota |-> want.quota], TRUE)
    /\ UNCHANGED <<running, want, override_left, board, due, asked,
                   clean>>
ControlDoctor ==
    /\ Idle /\ Disturbed
    /\ AskDisplay
    /\ BeginPublish(Display, TRUE)
    /\ UNCHANGED <<running, want, last_display, board, due, asked,
                   clean>>
ControlStatus ==
    /\ Idle
    /\ AskDisplay
    /\ UNCHANGED <<pc, running, want, last_display, since_attempt, retry_in,
                   publish_ok, sending, firmware_bar, rest, board, late, due,
                   waited, disturbances, history>>

\* The board loses power, or is flashed with another firmware.
BoardResets(bar) ==
    /\ Disturbed
    /\ board' = Reset(bar)
    /\ intact' = FALSE /\ clean' = FALSE
    /\ UNCHANGED <<daemon, late, due, waited, asked>>

\* stop(): SIGTERM or SIGINT, at any moment the process lives.
Terminate ==
    /\ pc \in Rpcs \cup {"setup", "select"}
    /\ Disturbed
    /\ running' = FALSE
    /\ asked' = TRUE
    /\ UNCHANGED <<pc, want, demo, override, override_left, last_display,
                   since_attempt, retry_in, publish_ok, sending, firmware_bar,
                   rest, board, late, due, waited, intact, clean>>
Crash ==
    /\ pc \in Rpcs \cup {"setup", "select"}
    /\ Disturbed
    /\ pc' = "crashed"
    /\ clean' = FALSE
    /\ UNCHANGED <<running, want, demo, override, override_left, last_display,
                   since_attempt, retry_in, publish_ok, sending, firmware_bar,
                   rest, board, late, due, waited, asked, intact>>

\* The service manager starts the daemon again after a crash.  Everything the
\* daemon knew is gone: __init__.
Restart ==
    /\ pc = "crashed"
    /\ pc' = "setup" /\ running' = FALSE
    /\ want' = NothingKnown
    /\ demo' = None /\ override' = None /\ override_left' = 0
    /\ last_display' = None
    /\ since_attempt' = AttemptAge /\ retry_in' = 0
    /\ publish_ok' = FALSE
    /\ sending' = NothingKnown /\ firmware_bar' = FALSE /\ rest' = FALSE
    /\ due' = FALSE /\ waited' = FALSE
    /\ asked' = FALSE /\ calm' = 0 /\ clean' = FALSE
    /\ UNCHANGED <<board, late, disturbances, intact>>

\* run() after setup(): running is set, then the first publish is forced.
Run ==
    /\ pc = "setup"
    /\ running' = TRUE
    /\ AskDisplay
    /\ BeginPublish(Display, FALSE)
    /\ UNCHANGED <<want, last_display, board, due, disturbances, asked, calm,
                   clean>>

\* Time passes.  The loop runs at least once per tick, and an RPC is answered or
\* given up before its second one, as RouterClient's timeouts demand.
Tick ==
    /\ ~(Idle /\ due) /\ ~(Publishing /\ waited)
    /\ pc # "setup"
    /\ due' = (Idle \/ Publishing)
    /\ waited' = Publishing
    /\ demo' = IF demo = None THEN None ELSE Bounded(demo + 1, DemoLength)
    /\ override_left' = Countdown(override_left)
    /\ since_attempt' = Bounded(since_attempt + 1, AttemptAge)
    /\ retry_in' = Countdown(retry_in)
    /\ board' = [board EXCEPT !.silent = Bounded(@ + 1, OfflineTimeout + 1)]
    /\ UNCHANGED <<pc, running, want, override, last_display, publish_ok,
                   sending, firmware_bar, rest, late, disturbances, asked,
                   intact, clean>>
    /\ calm' = IF Display' = Display THEN Bounded(calm + 1, MaxCalm) ELSE 0

Next ==
    \/ Iterate \/ RpcSucceeds \/ RpcFails \/ RpcUnknown \/ LateEffect
    \/ \E w \in Aggregates : WishChanges(w)
    \/ \E s \in Overrides, d \in Durations : ControlSet(s, d)
    \/ ControlDemo \/ ControlDoctor \/ ControlStatus
    \/ \E bar \in Bars : BoardResets(bar)
    \/ Terminate \/ Crash \/ Restart \/ Run
    \/ Tick

\* The thread keeps running, an RPC comes back or times out, and the service
\* manager restarts a daemon that crashed.
Spec ==
    /\ Init /\ [][Next]_vars
    /\ WF_vars(Iterate) /\ WF_vars(RpcSucceeds) /\ WF_vars(RpcUnknown)
    /\ WF_vars(Run)
    /\ WF_vars(Restart) /\ WF_vars(Tick)
-----------------------------------------------------------------------------
Alive == running /\ (Idle \/ Publishing)

TypeOK ==
    /\ pc \in Rpcs \cup {"setup", "select", "stopped", "crashed"}
    /\ running \in BOOLEAN
    /\ want \in Aggregate /\ sending \in Aggregate
    /\ demo \in 0..DemoLength \cup {None}
    /\ override \in State \cup {None} /\ override_left \in Nat
    /\ last_display \in Aggregate \cup {None}
    /\ since_attempt \in 0..AttemptAge
    /\ retry_in \in 0..RetryDelay
    /\ publish_ok \in BOOLEAN /\ rest \in BOOLEAN
    /\ board \in [state: State, active: Nat, quota: Nat \cup {None},
                  brightness: BOOLEAN, heard: BOOLEAN,
                  silent: 0..(OfflineTimeout + 1), bar: BOOLEAN]
    /\ firmware_bar \in BOOLEAN
    /\ late \in [rpc: Rpcs, display: Aggregate] \cup {None}
    /\ due \in BOOLEAN /\ waited \in BOOLEAN
    /\ disturbances \in 0..MaxDisturbances
    /\ calm \in 0..MaxCalm
    /\ asked \in BOOLEAN /\ intact \in BOOLEAN /\ clean \in BOOLEAN

\* A skip goes by last_display, which is a belief: a publish that fails after
\* its first RPCs leaves it standing, and a reset of the board or a late request
\* falsifies it unseen.  However wrong it is, and whatever publishes failed,
\* were forced or took longer than the interval, a loop that has just skipped
\* began an attempt less than a heartbeat interval ago: neither the belief nor
\* the retry delay may put the next one off any further.
BeliefIsRechecked == Idle /\ ~due => since_attempt < HeartbeatInterval

\* Whatever went wrong before, a failed or half-delivered publish, a board that
\* reset in the middle of one, a display that changed and changed back, the
\* board shows the right display once nothing has disturbed the daemon for the
\* longer of a heartbeat interval and one publish, and then the time the next
\* publish needs for the RPCs that carry the display.
PublishTime == Cardinality(Rpcs)
HealTime == (IF HeartbeatInterval > PublishTime THEN HeartbeatInterval
             ELSE PublishTime) + PublishTime - 1
HealsInTime == Alive /\ calm >= HealTime => Shows(Display)

\* The board never falls back to OFFLINE as long as no RPC fails after a publish
\* that nothing from outside has disturbed: heartbeats
\* come often enough, slow RPCs and skipped publishes included.
NoFalseOffline == Alive /\ clean => board.silent <= OfflineTimeout

\* A board or a Router that is out of order is left alone: after a publish
\* that failed, the loop begins the next one at least the retry delay after the
\* failed one began, whatever commands forced a publish in between.
RetriesAreSpaced ==
    [][Iterate /\ pc' = "version" /\ ~publish_ok
       => since_attempt >= RetryDelay]_vars

\* A stop request that finds the loop running ends the process.
StopIsHonoured ==
    (asked /\ ~running /\ (Idle \/ Publishing))
        ~> pc \in {"stopped", "crashed"}
-----------------------------------------------------------------------------
\* Statements of the documentation that the code does not keep.

\* "handle SIGTERM/SIGINT and remove its sockets" (architecture.md): a process
\* told to stop, stops.
StopRequestEndsProcess == asked ~> pc \in {"stopped", "crashed"}
=============================================================================
