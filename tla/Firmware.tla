------------------------------ MODULE Firmware ------------------------------
(***************************************************************************)
(* The microcontroller sketch.  RPC callbacks run between iterations of    *)
(* loop() and only stage values in `pending'; each iteration reads         *)
(* millis(), applies what is staged, decides what to display from the age  *)
(* of the last heartbeat, ends a crossfade that is over, and draws when a  *)
(* frame is due.  millis() is an unsigned counter that wraps, and every    *)
(* age is an unsigned difference.                                          *)
(***************************************************************************)
EXTENDS MatrixProtocol

CONSTANTS
    Wrap,              \* 2^32: millis() and differences are modulo this
    Publishes,         \* argument lists set_state may carry, states valid
    Brightnesses,      \* levels set_brightness may stage
    Quotas,            \* quota displays set_quota may stage
    Steps,             \* how much millis() may grow between iterations
    Thinking,          \* kThinkingFrameIntervalMs
    FadeIn,            \* kThinkingFadeInMs
    FadeOut,           \* kThinkingFadeOutMs
    IdleFade,          \* kIdleFadeInMs
    IdleFadeInterval,  \* kIdleFadeFrameIntervalMs
    IdleStatic,        \* kIdleStaticRefreshIntervalMs
    BlinkInterval,     \* kQuotaBlinkFrameIntervalMs
    DefaultInterval,   \* kDefaultFrameIntervalMs
    DefaultTimeout,    \* kDefaultOfflineTimeoutMs
    DefaultBrightness, \* the initial brightness, 5
    MaxSilence,        \* bound: real time without a heartbeat
    None               \* nothing staged

Millis == 0..(Wrap - 1)
\* "blinking" is a visible bar at ten percent or less.
QuotaBar == {"hidden", "steady", "blinking"}

ASSUME FirmwareAssumption ==
    /\ Wrap \in Nat \ {0}
    /\ Publishes \subseteq
         [state: State, frame_interval: 1..(Wrap - 1),
          offline_timeout: 1..(Wrap - 1)]
    /\ Brightnesses \subseteq Nat /\ DefaultBrightness \in Nat
    /\ Quotas \subseteq QuotaBar
    /\ Steps \subseteq 0..(Wrap - 1)
    /\ \A c \in {Thinking, FadeIn, FadeOut, IdleFade, IdleFadeInterval,
                 IdleStatic, BlinkInterval, DefaultInterval, DefaultTimeout} :
          c \in 1..(Wrap - 1)
    /\ MaxSilence \in Nat
    /\ None \notin State
    /\ None \notin Publishes /\ None \notin Brightnesses /\ None \notin QuotaBar

\* 32 and 750 ms; an iteration takes milliseconds; and millis() needs 49 days to
\* come round, after which a silent board would count the heartbeat as fresh.
ASSUME TimesAssumption ==
    /\ IdleFadeInterval <= IdleStatic
    /\ \A d \in Steps : d + IdleStatic <= Wrap
    /\ MaxSilence < Wrap

VARIABLES
    now,        \* millis() as the last iteration read it
    mcu,        \* the sketch's globals
    pending,    \* PendingUpdates
    frame,      \* what the drawn frame was rendered from
    silence,    \* history: real time since an iteration took a heartbeat in
    latest      \* history: the state the last set_state asked to see

vars == <<now, mcu, pending, frame, silence, latest>>

Elapsed(t, since) == (t - since) % Wrap
Before(t, d) == (t - d) % Wrap

NothingPending ==
    [state |-> None, invalid |-> FALSE, heartbeat |-> FALSE,
     brightness |-> None, quota |-> None]

ShouldCrossfade(from, to) ==
    \/ from = "IDLE" /\ to = "THINKING"
    \/ from = "THINKING" /\ to \in {"SUCCESS", "IDLE"}
TransitionDuration(from, to) ==
    IF from = "IDLE" /\ to = "THINKING" THEN FadeIn ELSE FadeOut

Lesser(a, b) == IF a < b THEN a ELSE b
\* currentFrameIntervalMs
FrameInterval(m, t) ==
    LET fading == \/ Elapsed(t, m.state_entered) <= IdleFade
                  \/ Elapsed(m.last_frame, m.state_entered) < IdleFade
        interval ==
            IF m.transition_active THEN Thinking
            ELSE IF m.displayed = "IDLE"
                 THEN IF fading THEN IdleFadeInterval ELSE IdleStatic
            ELSE IF m.displayed = "THINKING"
                 THEN Lesser(Thinking, m.frame_interval)
            ELSE m.frame_interval
    IN  IF m.quota = "blinking" THEN Lesser(BlinkInterval, interval)
        ELSE interval

\* The next iteration finds a frame due.
FrameForced(m, t) == [m EXCEPT !.last_frame = Before(t, FrameInterval(m, t))]

Heard(m, t) == [m EXCEPT !.last_heartbeat = t, !.have_heartbeat = TRUE]
-----------------------------------------------------------------------------
\* applyPendingUpdates, one staged value after the other.
WithInvalid(m, t) ==
    IF pending.invalid
    THEN Heard([m EXCEPT !.requested = "ERROR", !.have_requested = TRUE], t)
    ELSE m
WithState(m, t) ==
    IF pending.state # None
    THEN Heard([m EXCEPT !.requested = pending.state.state,
                         !.have_requested = TRUE,
                         !.frame_interval = pending.state.frame_interval,
                         !.offline_timeout = pending.state.offline_timeout], t)
    ELSE m
WithBrightness(m, t) ==
    IF pending.brightness # None
    THEN FrameForced([m EXCEPT !.brightness = pending.brightness], t) ELSE m
\* Plausible bug: a new quota waits for the next regular frame.
Bug_QuotaNotForced(m, t) ==
    IF pending.quota # None THEN [m EXCEPT !.quota = pending.quota] ELSE m
WithQuota(m, t) ==
    IF pending.quota # None
    THEN FrameForced([m EXCEPT !.quota = pending.quota], t) ELSE m
WithHeartbeat(m, t) == IF pending.heartbeat THEN Heard(m, t) ELSE m
ApplyPending(m, t) ==
    WithHeartbeat(WithQuota(WithBrightness(WithState(WithInvalid(m, t),
                                                     t), t), t), t)

\* Plausible bug: a fade that an urgent state cuts short stays active.
Bug_FadeNotCut(m, s, t) ==
    IF m.displayed = s THEN m
    ELSE LET fades == ShouldCrossfade(m.displayed, s)
         IN  FrameForced(
               [m EXCEPT !.displayed = s, !.state_entered = t,
                         !.transition_active = @ \/ fades,
                         !.transition_from = IF fades THEN m.displayed ELSE @,
                         !.transition_started = IF fades THEN t ELSE @], t)
EnterState(m, s, t) ==
    IF m.displayed = s THEN m
    ELSE LET fades == ShouldCrossfade(m.displayed, s)
         IN  FrameForced(
               [m EXCEPT !.displayed = s, !.state_entered = t,
                         !.transition_active = fades,
                         !.transition_from = IF fades THEN m.displayed ELSE @,
                         !.transition_started = IF fades THEN t ELSE @], t)

UpdateDisplayed(m, t) ==
    IF m.have_heartbeat /\ Elapsed(t, m.last_heartbeat) <= m.offline_timeout
    THEN EnterState(m, IF m.have_requested THEN m.requested ELSE "IDLE", t)
    ELSE EnterState(m, "OFFLINE", t)

\* A fade into THINKING has already run its clock; others start it now.
FinishTransition(m, t) ==
    IF /\ m.transition_active
       /\ Elapsed(t, m.transition_started)
            >= TransitionDuration(m.transition_from, m.displayed)
    THEN FrameForced(
           [m EXCEPT !.transition_active = FALSE,
                     !.state_entered =
                        IF m.transition_from = "IDLE" /\ m.displayed = "THINKING"
                        THEN m.transition_started ELSE t], t)
    ELSE m

FrameDue(m, t) == Elapsed(t, m.last_frame) >= FrameInterval(m, t)
\* The cadence stays phase-locked unless a whole frame was missed.
Drawn(m, t) ==
    LET interval == FrameInterval(m, t)
        lateness == Elapsed(t, m.last_frame) - interval
    IN  [m EXCEPT !.last_frame = IF lateness >= interval THEN t
                                 ELSE (m.last_frame + interval) % Wrap]
Rendered(m) ==
    [state |-> m.displayed, fading |-> m.transition_active,
     brightness |-> m.brightness, quota |-> m.quota]
-----------------------------------------------------------------------------
\* Global initialisers followed by setup(), which draws OFFLINE.
Booted(t) ==
    [requested |-> "IDLE", displayed |-> "OFFLINE",
     brightness |-> DefaultBrightness, frame_interval |-> DefaultInterval,
     offline_timeout |-> DefaultTimeout, quota |-> "hidden",
     have_requested |-> FALSE, have_heartbeat |-> FALSE, last_heartbeat |-> 0,
     state_entered |-> t, last_frame |-> Before(t, DefaultInterval),
     transition_active |-> FALSE, transition_from |-> "IDLE",
     transition_started |-> 0]

Init ==
    /\ now \in Millis
    /\ mcu = Booted(now)
    /\ pending = NothingPending
    /\ frame = Rendered(mcu)
    /\ silence = 0
    /\ latest = None
-----------------------------------------------------------------------------
(* RPC callbacks, run between iterations.  Every other rejected call changes *)
(* nothing.                                                                  *)

SetState(p) ==
    /\ pending' = [pending EXCEPT !.state = p, !.invalid = FALSE]
    /\ latest' = p.state
    /\ UNCHANGED <<now, mcu, frame, silence>>
\* setStateRpc with the right version and a state that does not exist.
\* Plausible bug: a valid state staged before stays staged and wins.
Bug_ValidStateKept ==
    /\ pending' = [pending EXCEPT !.invalid = TRUE]
    /\ latest' = "ERROR"
    /\ UNCHANGED <<now, mcu, frame, silence>>
SetInvalidState ==
    /\ pending' = [pending EXCEPT !.state = None, !.invalid = TRUE]
    /\ latest' = "ERROR"
    /\ UNCHANGED <<now, mcu, frame, silence>>
Heartbeat ==
    /\ pending' = [pending EXCEPT !.heartbeat = TRUE]
    /\ UNCHANGED <<now, mcu, frame, silence, latest>>
SetBrightness(b) ==
    /\ pending' = [pending EXCEPT !.brightness = b]
    /\ UNCHANGED <<now, mcu, frame, silence, latest>>
SetQuota(q) ==
    /\ pending' = [pending EXCEPT !.quota = q]
    /\ UNCHANGED <<now, mcu, frame, silence, latest>>

\* One iteration of loop(), d milliseconds after the previous one.
Alive == pending.invalid \/ pending.state # None \/ pending.heartbeat
Loop(d) ==
    LET t == (now + d) % Wrap
        m == FinishTransition(UpdateDisplayed(ApplyPending(mcu, t), t), t)
    IN  /\ Alive \/ silence + d <= MaxSilence
        /\ pending' = NothingPending
        /\ now' = t
        /\ UNCHANGED latest
        /\ silence' = IF Alive THEN 0 ELSE silence + d
        /\ IF FrameDue(m, t)
           THEN mcu' = Drawn(m, t) /\ frame' = Rendered(m)
           ELSE mcu' = m /\ UNCHANGED frame

\* The board resets; the clock restarts anywhere a later boot may read it.
Restart ==
    /\ now' \in Millis
    /\ mcu' = Booted(now')
    /\ pending' = NothingPending
    /\ frame' = Rendered(mcu')
    /\ silence' = 0
    /\ latest' = None

Next ==
    \/ \E p \in Publishes : SetState(p)
    \/ SetInvalidState
    \/ Heartbeat
    \/ \E b \in Brightnesses : SetBrightness(b)
    \/ \E q \in Quotas : SetQuota(q)
    \/ \E d \in Steps : Loop(d)
    \/ Restart

Spec == Init /\ [][Next]_vars
-----------------------------------------------------------------------------
Mcu == [requested : State, displayed : State, brightness : Nat,
        frame_interval : 1..(Wrap - 1), offline_timeout : 1..(Wrap - 1),
        quota : QuotaBar, have_requested : BOOLEAN, have_heartbeat : BOOLEAN,
        last_heartbeat : Millis, state_entered : Millis, last_frame : Millis,
        transition_active : BOOLEAN, transition_from : State,
        transition_started : Millis]

TypeOK ==
    /\ now \in Millis
    /\ mcu \in Mcu
    /\ pending \in [state : Publishes \cup {None}, invalid : BOOLEAN,
                    heartbeat : BOOLEAN, brightness : Brightnesses \cup {None},
                    quota : Quotas \cup {None}]
    /\ frame \in [state : State, fading : BOOLEAN, brightness : Nat,
                  quota : QuotaBar]
    /\ silence \in 0..MaxSilence
    /\ latest \in State \cup {None}

\* What an observer may conclude from the display after an iteration: OFFLINE
\* exactly when real time without a sign of life exceeds the timeout in force,
\* and otherwise the state asked for last, an invalid request counting as ERROR,
\* in whatever order calls arrived since the previous iteration.
DisplayTellsTheTruth ==
    [][\A d \in Steps : Loop(d) =>
          mcu'.displayed =
             IF ~mcu'.have_heartbeat \/ silence' > mcu'.offline_timeout
             THEN "OFFLINE"
             ELSE IF latest = None THEN "IDLE" ELSE latest]_vars

\* A crossfade joins the two states it was made for and is over in time, so an
\* urgent state interrupts it at once.
CrossfadeIsBounded ==
    mcu.transition_active =>
        /\ ShouldCrossfade(mcu.transition_from, mcu.displayed)
        /\ Elapsed(now, mcu.transition_started)
             < TransitionDuration(mcu.transition_from, mcu.displayed)

\* What an iteration changes is on the pixels when it ends: the state, the end of
\* a crossfade, brightness and quota.  The one exception is IDLE just past its
\* entry fade: a frame forced for brightness or quota is dated back by the fade's
\* short interval and then judged with the static one, so it may wait, but not
\* longer than the static refresh.
UpdateIsDrawn ==
    /\ frame.state = mcu.displayed
    /\ frame.fading <=> mcu.transition_active
    /\ \/ frame.brightness = mcu.brightness /\ frame.quota = mcu.quota
       \/ /\ mcu.displayed = "IDLE"
          /\ Elapsed(now, mcu.state_entered) > IdleFade
          /\ Elapsed(now, mcu.last_frame) < IdleStatic
=============================================================================
