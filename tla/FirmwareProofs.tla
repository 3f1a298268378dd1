--------------------------- MODULE FirmwareProofs ---------------------------
(***************************************************************************)
(* That the sketch shows the truth and draws it, for every set of          *)
(* intervals, publications and iteration lengths.  Ages are remainders of  *)
(* a counter that comes round: they agree with real time only for what is  *)
(* younger than a turn, which is what HeartbeatAge carries from iteration  *)
(* to iteration; and a frame that is forced by dating the last one back    *)
(* is due only if it is judged with the interval it was dated back by,     *)
(* which is what DrawnOrWaiting is about.                                  *)
(***************************************************************************)
EXTENDS Firmware, TLAPS

\* The state asked for last is staged, or has been taken in.
LatestInv ==
    /\ pending.state # None =>
          latest = pending.state.state /\ ~pending.invalid
    /\ pending.invalid => latest = "ERROR"
    /\ pending.state = None /\ ~pending.invalid =>
          latest = IF mcu.have_requested THEN mcu.requested ELSE None

\* The age of the last heartbeat is the real silence.
HeartbeatAge ==
    mcu.have_heartbeat => Elapsed(now, mcu.last_heartbeat) = silence

\* The interval of a frame, whether IDLE is still in its entry fade or not.
Interval(m, fading) ==
    LET interval ==
            IF m.transition_active THEN Thinking
            ELSE IF m.displayed = "IDLE"
                 THEN IF fading THEN IdleFadeInterval ELSE IdleStatic
            ELSE IF m.displayed = "THINKING"
                 THEN Lesser(Thinking, m.frame_interval)
            ELSE m.frame_interval
    IN  IF m.quota = "blinking" THEN Lesser(BlinkInterval, interval)
        ELSE interval

\* A frame dated back by the short interval of the fade, judged with the static
\* one.  It is old enough to be due as soon as the fade interval counts again.
Waiting(m, t) ==
    /\ m.displayed = "IDLE" /\ ~m.transition_active
    /\ Elapsed(t, m.state_entered) > IdleFade
    /\ Elapsed(t, m.last_frame) < IdleStatic
    /\ Elapsed(t, m.last_frame) >= Interval(m, TRUE)

DrawnOrWaiting ==
    /\ frame.state = mcu.displayed
    /\ frame.fading = mcu.transition_active
    /\ \/ frame.brightness = mcu.brightness /\ frame.quota = mcu.quota
       \/ Waiting(mcu, now)

\* A crossfade of m at time t is one of the crossfades and not over yet.
Bounded(m, t) ==
    m.transition_active =>
        /\ ShouldCrossfade(m.transition_from, m.displayed)
        /\ Elapsed(t, m.transition_started)
             < TransitionDuration(m.transition_from, m.displayed)

IInv ==
    TypeOK /\ LatestInv /\ HeartbeatAge /\ DrawnOrWaiting /\ Bounded(mcu, now)
-----------------------------------------------------------------------------
(* The clock.                                                              *)

\* A remainder of a number at most one turn away.
LEMMA NearRemainder ==
    ASSUME NEW m \in Nat \ {0}, NEW a \in Int, -m <= a, a < 2 * m
    PROVE  a % m = IF a < 0 THEN a + m ELSE IF a >= m THEN a - m ELSE a
<1> DEFINE q == a \div m  r == a % m
<1>1. q \in Int /\ r \in 0..(m - 1) /\ a = m * q + r
    OBVIOUS
<1> HIDE DEF q, r
<1>2. -1 <= q /\ q <= 1
  <2>1. CASE q >= 2
    <3>1. m * q >= m * 2 BY <1>1, <2>1
    <3> QED BY <1>1, <3>1
  <2>2. CASE q <= -2
    <3>1. m * q <= -(m * 2) BY <1>1, <2>2
    <3> QED BY <1>1, <3>1
  <2> QED
    BY <1>1, <2>1, <2>2
<1>3. (q = -1 => r = a + m) /\ (q = 0 => r = a) /\ (q = 1 => r = a - m)
    BY <1>1
<1>4. r = IF a < 0 THEN a + m ELSE IF a >= m THEN a - m ELSE a
    BY <1>1, <1>2, <1>3
<1> QED
    BY <1>4 DEF r

\* What the sketch's times are.
LEMMA ConstantTypes ==
    /\ Wrap \in Nat \ {0} /\ MaxSilence \in Nat /\ MaxSilence < Wrap
    /\ Thinking \in 1..(Wrap - 1) /\ FadeIn \in 1..(Wrap - 1)
    /\ FadeOut \in 1..(Wrap - 1) /\ IdleFade \in 1..(Wrap - 1)
    /\ IdleFadeInterval \in 1..(Wrap - 1) /\ IdleStatic \in 1..(Wrap - 1)
    /\ BlinkInterval \in 1..(Wrap - 1) /\ DefaultInterval \in 1..(Wrap - 1)
    /\ DefaultTimeout \in 1..(Wrap - 1) /\ IdleFadeInterval <= IdleStatic
    /\ \A d \in Steps : d \in Millis /\ d + IdleStatic <= Wrap
BY FirmwareAssumption, TimesAssumption DEF Millis

LEMMA ElapsedValue ==
    ASSUME NEW t \in Millis, NEW s \in Millis
    PROVE  Elapsed(t, s) = IF t < s THEN (t - s) + Wrap ELSE t - s
<1>1. Wrap \in Nat \ {0} /\ t \in 0..(Wrap - 1) /\ s \in 0..(Wrap - 1)
    BY ConstantTypes DEF Millis
<1>2. t - s \in Int /\ -Wrap <= t - s /\ t - s < 2 * Wrap /\ ~(t - s >= Wrap)
    BY <1>1
<1>3. (t - s) % Wrap = IF t - s < 0 THEN (t - s) + Wrap
                       ELSE IF t - s >= Wrap THEN (t - s) - Wrap ELSE t - s
    BY <1>1, <1>2, NearRemainder
<1> QED
    BY <1>1, <1>2, <1>3 DEF Elapsed

\* An age is a time; just now is no time ago; dating back by d makes it d old.
LEMMA Ages ==
    ASSUME NEW t \in Millis, NEW s \in Millis, NEW d \in Millis
    PROVE  /\ Elapsed(t, s) \in Millis
           /\ Elapsed(t, t) = 0
           /\ Before(t, d) \in Millis
           /\ Elapsed(t, Before(t, d)) = d
<1>1. /\ Wrap \in Nat \ {0}
      /\ t \in 0..(Wrap - 1) /\ s \in 0..(Wrap - 1) /\ d \in 0..(Wrap - 1)
    BY ConstantTypes DEF Millis
<1>2. Elapsed(t, s) \in Millis /\ Elapsed(t, t) = 0
    BY <1>1, ElapsedValue DEF Millis
<1>3. Before(t, d) = IF t < d THEN (t - d) + Wrap ELSE t - d
    BY <1>1, ElapsedValue DEF Before, Elapsed
<1>4. Before(t, d) \in Millis
    BY <1>1, <1>3 DEF Millis
<1>5. Elapsed(t, Before(t, d)) = d
    BY <1>1, <1>3, <1>4, ElapsedValue
<1> QED
    BY <1>2, <1>4, <1>5

\* An iteration makes everything older that does not come round.
LEMMA Older ==
    ASSUME NEW t \in Millis, NEW s \in Millis, NEW d \in Millis
    PROVE  /\ (t + d) % Wrap \in Millis
           /\ Elapsed(t, s) + d < Wrap =>
                 Elapsed((t + d) % Wrap, s) = Elapsed(t, s) + d
<1>1. /\ Wrap \in Nat \ {0}
      /\ t \in 0..(Wrap - 1) /\ s \in 0..(Wrap - 1) /\ d \in 0..(Wrap - 1)
    BY ConstantTypes DEF Millis
<1>2. (t + d) % Wrap = IF t + d >= Wrap THEN (t + d) - Wrap ELSE t + d
  <2>1. t + d \in Int /\ -Wrap <= t + d /\ t + d < 2 * Wrap /\ ~(t + d < 0)
    BY <1>1
  <2> QED
    BY <1>1, <2>1, NearRemainder
<1>3. (t + d) % Wrap \in Millis
    BY <1>1, <1>2 DEF Millis
<1> DEFINE u == (t + d) % Wrap
<1>4. Elapsed(u, s) = IF u < s THEN (u - s) + Wrap ELSE u - s
    BY <1>3, ElapsedValue
<1>5. Elapsed(t, s) = IF t < s THEN (t - s) + Wrap ELSE t - s
    BY ElapsedValue
<1> QED
    BY <1>1, <1>2, <1>3, <1>4, <1>5

-----------------------------------------------------------------------------
(* The frame interval.                                                     *)

Fading(m, t) ==
    \/ Elapsed(t, m.state_entered) <= IdleFade
    \/ Elapsed(m.last_frame, m.state_entered) < IdleFade

\* The interval depends on the last frame only through the entry fade of IDLE.
LEMMA IntervalOfFading ==
    ASSUME NEW m, NEW t
    PROVE  FrameInterval(m, t) = Interval(m, Fading(m, t))
BY DEF FrameInterval, Interval, Fading

LEMMA IntervalValue ==
    ASSUME NEW m \in Mcu, NEW f \in BOOLEAN
    PROVE  /\ Interval(m, f) \in Millis \ {0}
           /\ Interval(m, TRUE) <= Interval(m, f)
           /\ Interval(m, f) <= Interval(m, FALSE)
           /\ m.displayed # "IDLE" \/ m.transition_active =>
                 Interval(m, TRUE) = Interval(m, FALSE)
           /\ m.displayed = "IDLE" /\ ~m.transition_active =>
                 Interval(m, f) <= IdleStatic
BY ConstantTypes DEF Interval, Lesser, Mcu, Millis, QuotaBar

\* m and n differ at most in when they drew last.
ButFrame(m, n) ==
    /\ m.requested = n.requested /\ m.displayed = n.displayed
    /\ m.brightness = n.brightness /\ m.frame_interval = n.frame_interval
    /\ m.offline_timeout = n.offline_timeout /\ m.quota = n.quota
    /\ m.have_requested = n.have_requested
    /\ m.have_heartbeat = n.have_heartbeat
    /\ m.last_heartbeat = n.last_heartbeat
    /\ m.state_entered = n.state_entered
    /\ m.transition_active = n.transition_active
    /\ m.transition_from = n.transition_from
    /\ m.transition_started = n.transition_started

\* The last frame of m is dated back by its interval with or without the fade.
Forced(m, t) ==
    \E f \in BOOLEAN : Elapsed(t, m.last_frame) = Interval(m, f)

LEMMA FrameForcedIsForced ==
    ASSUME NEW m \in Mcu, NEW t \in Millis
    PROVE  /\ FrameForced(m, t) \in Mcu
           /\ ButFrame(FrameForced(m, t), m)
           /\ Forced(FrameForced(m, t), t)
<1> DEFINE n == FrameForced(m, t)  d == Interval(m, Fading(m, t))
<1>1. Fading(m, t) \in BOOLEAN
    BY DEF Fading
<1>2. n = [m EXCEPT !.last_frame = Before(t, d)]
    BY IntervalOfFading DEF FrameForced
<1>3. d \in Millis
    BY <1>1, IntervalValue
<1>4. Before(t, d) \in Millis /\ Elapsed(t, Before(t, d)) = d
    BY <1>3, Ages
<1> HIDE DEF d
<1>5. n \in Mcu /\ ButFrame(n, m) /\ n.last_frame = Before(t, d)
    BY <1>2, <1>4 DEF Mcu, ButFrame
<1>6. Interval(n, Fading(m, t)) = d
    BY <1>5 DEF ButFrame, Interval, d
<1> QED
    BY <1>1, <1>4, <1>5, <1>6 DEF Forced

\* A forced frame is due now, or the display is IDLE just past its entry fade.
LEMMA ForcedIsDueOrWaits ==
    ASSUME NEW m \in Mcu, NEW t \in Millis, Forced(m, t)
    PROVE  FrameDue(m, t) \/ Waiting(m, t)
<1>1. PICK f \in BOOLEAN : Elapsed(t, m.last_frame) = Interval(m, f)
    BY DEF Forced
<1> DEFINE e == Elapsed(t, m.last_frame)
           i == Interval(m, Fading(m, t))
<1>2. e \in Millis /\ e = Interval(m, f) /\ FrameDue(m, t) = (e >= i)
  <2>1. m.last_frame \in Millis BY DEF Mcu
  <2> QED
    BY <1>1, <2>1, Ages, IntervalOfFading DEF FrameDue
<1>3. Fading(m, t) \in BOOLEAN
    BY DEF Fading
<1>4. /\ Interval(m, f) \in Millis /\ Interval(m, TRUE) <= Interval(m, f)
      /\ i \in Millis /\ i <= Interval(m, FALSE)
      /\ Interval(m, TRUE) \in Millis /\ Interval(m, FALSE) \in Millis
      /\ Interval(m, f) <= Interval(m, FALSE) /\ Interval(m, TRUE) <= i
      /\ m.displayed # "IDLE" \/ m.transition_active =>
            Interval(m, TRUE) = Interval(m, FALSE)
      /\ m.displayed = "IDLE" /\ ~m.transition_active =>
            i <= IdleStatic
    BY <1>3, IntervalValue
<1>5. ASSUME ~(e >= i) PROVE Waiting(m, t)
  <2>1. m.displayed = "IDLE" /\ ~m.transition_active
    <3>1. CASE m.displayed # "IDLE" \/ m.transition_active
      <4>1. Interval(m, f) = Interval(m, FALSE) /\ i = Interval(m, FALSE)
        BY <1>3, <3>1, <1>4 DEF Interval
      <4> QED BY <4>1, <1>2, <1>5, <1>4 DEF Millis
    <3> QED BY <3>1
  <2>2. ~Fading(m, t)
    <3>1. CASE Fading(m, t)
      <4>1. i = Interval(m, TRUE) BY <3>1
      <4> QED BY <4>1, <1>2, <1>4, <1>5 DEF Millis
    <3> QED BY <3>1
  <2>3. Elapsed(t, m.state_entered) \in Millis
    <3>1. m.state_entered \in Millis BY DEF Mcu
    <3> QED BY <3>1, Ages
  <2>4. Elapsed(t, m.state_entered) > IdleFade
    BY <2>2, <2>3, ConstantTypes DEF Fading, Millis
  <2>5. e < IdleStatic /\ e >= Interval(m, TRUE)
    <3> HIDE DEF e, i
    <3>1. i <= IdleStatic BY <1>4, <2>1
    <3>2. e < IdleStatic BY <3>1, <1>2, <1>4, <1>5, ConstantTypes DEF Millis
    <3> QED BY <3>2, <1>2, <1>4 DEF Millis
  <2> QED
    BY <2>1, <2>4, <2>5 DEF Waiting
<1> QED
    BY <1>2, <1>5
-----------------------------------------------------------------------------
(* The stages of an iteration: what each makes of the globals m.           *)

\* What the stages before EnterState leave alone.
SameDisplay(m, n) ==
    /\ m.displayed = n.displayed /\ m.state_entered = n.state_entered
    /\ m.transition_active = n.transition_active
    /\ m.transition_from = n.transition_from
    /\ m.transition_started = n.transition_started

Staged == pending.brightness # None \/ pending.quota # None

\* The staged state, in either order of the calls, and the staged sign of life.
LEMMA StateTakenIn ==
    ASSUME TypeOK, NEW t \in Millis,
           NEW m, m = WithState(WithInvalid(mcu, t), t)
    PROVE  /\ m \in Mcu /\ SameDisplay(m, mcu)
           /\ m.last_frame = mcu.last_frame
           /\ m.brightness = mcu.brightness /\ m.quota = mcu.quota
           /\ m.requested = IF pending.state # None THEN pending.state.state
                            ELSE IF pending.invalid THEN "ERROR"
                            ELSE mcu.requested
           /\ m.have_requested = (\/ mcu.have_requested \/ pending.invalid
                                  \/ pending.state # None)
           /\ m.have_heartbeat = (\/ mcu.have_heartbeat \/ pending.invalid
                                  \/ pending.state # None)
           /\ m.last_heartbeat = IF pending.invalid \/ pending.state # None
                                 THEN t ELSE mcu.last_heartbeat
<1> DEFINE n == WithInvalid(mcu, t)
<1>1. /\ mcu \in Mcu /\ pending.invalid \in BOOLEAN
      /\ pending.state # None =>
            /\ pending.state.state \in State
            /\ pending.state.frame_interval \in 1..(Wrap - 1)
            /\ pending.state.offline_timeout \in 1..(Wrap - 1)
    BY FirmwareAssumption DEF TypeOK
<1>2. n = IF pending.invalid
          THEN [mcu EXCEPT !.requested = "ERROR", !.have_requested = TRUE,
                           !.last_heartbeat = t, !.have_heartbeat = TRUE]
          ELSE mcu
    BY <1>1 DEF WithInvalid, Heard, Mcu
<1>3. /\ n \in Mcu /\ SameDisplay(n, mcu) /\ n.last_frame = mcu.last_frame
      /\ n.brightness = mcu.brightness /\ n.quota = mcu.quota
      /\ n.requested = IF pending.invalid THEN "ERROR" ELSE mcu.requested
      /\ n.have_requested = (mcu.have_requested \/ pending.invalid)
      /\ n.have_heartbeat = (mcu.have_heartbeat \/ pending.invalid)
      /\ n.last_heartbeat = IF pending.invalid THEN t ELSE mcu.last_heartbeat
    BY <1>1, <1>2 DEF Mcu, SameDisplay, State
<1> HIDE DEF n
<1>4. m = IF pending.state # None
          THEN [n EXCEPT !.requested = pending.state.state,
                         !.have_requested = TRUE,
                         !.frame_interval = pending.state.frame_interval,
                         !.offline_timeout = pending.state.offline_timeout,
                         !.last_heartbeat = t, !.have_heartbeat = TRUE]
          ELSE n
    BY <1>3 DEF WithState, Heard, Mcu, n
<1> QED
    BY <1>1, <1>3, <1>4 DEF Mcu, SameDisplay

\* All that is staged; a new brightness or quota forces a frame.
LEMMA AllTakenIn ==
    ASSUME TypeOK, NEW t \in Millis
    PROVE  LET m == ApplyPending(mcu, t) IN
           /\ m \in Mcu /\ SameDisplay(m, mcu)
           /\ Staged => Forced(m, t)
           /\ ~Staged => /\ m.last_frame = mcu.last_frame
                         /\ m.brightness = mcu.brightness
                         /\ m.quota = mcu.quota
           /\ m.requested = IF pending.state # None THEN pending.state.state
                            ELSE IF pending.invalid THEN "ERROR"
                            ELSE mcu.requested
           /\ m.have_requested = (\/ mcu.have_requested \/ pending.invalid
                                  \/ pending.state # None)
           /\ m.have_heartbeat = (mcu.have_heartbeat \/ Alive)
           /\ m.last_heartbeat = IF Alive THEN t ELSE mcu.last_heartbeat
<1> DEFINE a == WithState(WithInvalid(mcu, t), t)
           b == WithBrightness(a, t)
           c == WithQuota(b, t)
           m == ApplyPending(mcu, t)
           Kept(n) == /\ SameDisplay(n, mcu)
                      /\ n.requested = a.requested
                      /\ n.have_requested = a.have_requested
                      /\ n.have_heartbeat = a.have_heartbeat
                      /\ n.last_heartbeat = a.last_heartbeat
<1>1. /\ pending.brightness # None => pending.brightness \in Nat
      /\ pending.quota # None => pending.quota \in QuotaBar
      /\ pending.heartbeat \in BOOLEAN /\ pending.invalid \in BOOLEAN
    BY FirmwareAssumption DEF TypeOK
<1>2. /\ a \in Mcu /\ Kept(a)
      /\ a.last_frame = mcu.last_frame
      /\ a.brightness = mcu.brightness /\ a.quota = mcu.quota
    BY StateTakenIn
<1>3. /\ b \in Mcu /\ Kept(b)
      /\ pending.brightness # None => Forced(b, t)
      /\ pending.brightness = None => b = a
      /\ b.quota = mcu.quota
  <2>1. CASE pending.brightness = None
    BY <2>1, <1>2 DEF WithBrightness
  <2>2. CASE pending.brightness # None
    <3> DEFINE n == [a EXCEPT !.brightness = pending.brightness]
    <3>1. n \in Mcu /\ Kept(n) /\ n.quota = mcu.quota
      <4> HIDE DEF a
      <4> QED BY <2>2, <1>1, <1>2 DEF Mcu, SameDisplay
    <3>2. b = FrameForced(n, t)
      BY <2>2 DEF WithBrightness
    <3> HIDE DEF n, b
    <3>3. b \in Mcu /\ ButFrame(b, n) /\ Forced(b, t)
      BY <3>1, <3>2, FrameForcedIsForced
    <3> HIDE DEF a
    <3> QED
      BY <2>2, <3>1, <3>3 DEF ButFrame, SameDisplay
  <2> QED
    BY <2>1, <2>2
<1>4. /\ c \in Mcu /\ Kept(c)
      /\ Staged => Forced(c, t)
      /\ ~Staged => c = a
  <2>1. CASE pending.quota = None
    BY <2>1, <1>3 DEF WithQuota, Staged
  <2>2. CASE pending.quota # None
    <3> DEFINE n == [b EXCEPT !.quota = pending.quota]
    <3>1. n \in Mcu /\ Kept(n)
      <4> HIDE DEF a, b
      <4> QED BY <2>2, <1>1, <1>3 DEF Mcu, SameDisplay
    <3>2. c = FrameForced(n, t)
      BY <2>2 DEF WithQuota
    <3> HIDE DEF n, c
    <3>3. c \in Mcu /\ ButFrame(c, n) /\ Forced(c, t)
      BY <3>1, <3>2, FrameForcedIsForced
    <3> HIDE DEF a, b
    <3> QED
      BY <2>2, <3>1, <3>3 DEF ButFrame, SameDisplay, Staged
  <2> QED
    BY <2>1, <2>2
<1>5. m = WithHeartbeat(c, t)
    BY DEF ApplyPending
<1>6. /\ a.requested = IF pending.state # None THEN pending.state.state
                       ELSE IF pending.invalid THEN "ERROR"
                       ELSE mcu.requested
      /\ a.have_requested = (\/ mcu.have_requested \/ pending.invalid
                             \/ pending.state # None)
      /\ a.have_heartbeat = (\/ mcu.have_heartbeat \/ pending.invalid
                             \/ pending.state # None)
      /\ a.last_heartbeat = IF pending.invalid \/ pending.state # None
                            THEN t ELSE mcu.last_heartbeat
    BY StateTakenIn
<1> HIDE DEF a, b, c, m
<1>7. /\ m \in Mcu /\ m.last_frame = c.last_frame
      /\ m.have_heartbeat = (c.have_heartbeat \/ pending.heartbeat)
      /\ m.last_heartbeat = IF pending.heartbeat THEN t ELSE c.last_heartbeat
      /\ SameDisplay(m, c) /\ m.requested = c.requested
      /\ m.have_requested = c.have_requested
      /\ m.brightness = c.brightness /\ m.quota = c.quota
      /\ m.frame_interval = c.frame_interval
    BY <1>1, <1>4, <1>5 DEF WithHeartbeat, Heard, Mcu, SameDisplay
<1>8. Forced(c, t) => Forced(m, t)
    BY <1>7 DEF Forced, Interval, SameDisplay
<1>9. m \in Mcu /\ SameDisplay(m, mcu) /\ (Staged => Forced(m, t))
    BY <1>4, <1>7, <1>8 DEF SameDisplay
<1>10. ~Staged => /\ m.last_frame = mcu.last_frame
                  /\ m.brightness = mcu.brightness /\ m.quota = mcu.quota
    BY <1>2, <1>4, <1>7
<1>11. /\ m.requested = a.requested /\ m.have_requested = a.have_requested
       /\ m.have_heartbeat = (a.have_heartbeat \/ pending.heartbeat)
       /\ m.last_heartbeat = IF pending.heartbeat THEN t ELSE a.last_heartbeat
    BY <1>4, <1>7
<1>12. /\ m.have_heartbeat = (mcu.have_heartbeat \/ Alive)
       /\ m.last_heartbeat = IF Alive THEN t ELSE mcu.last_heartbeat
    BY <1>6, <1>11, <1>1 DEF Alive
<1> QED
    BY <1>6, <1>9, <1>10, <1>11, <1>12 DEF m

\* What the stages from EnterState on leave alone.
SameWish(m, n) ==
    /\ m.requested = n.requested /\ m.have_requested = n.have_requested
    /\ m.brightness = n.brightness /\ m.quota = n.quota
    /\ m.frame_interval = n.frame_interval
    /\ m.offline_timeout = n.offline_timeout
    /\ m.have_heartbeat = n.have_heartbeat
    /\ m.last_heartbeat = n.last_heartbeat

Joins(m) ==
    m.transition_active => ShouldCrossfade(m.transition_from, m.displayed)

LEMMA StateEntered ==
    ASSUME NEW m \in Mcu, NEW s \in State, NEW t \in Millis, Joins(m)
    PROVE  LET n == EnterState(m, s, t) IN
           /\ n \in Mcu /\ SameWish(n, m) /\ Joins(n) /\ n.displayed = s
           /\ n = m \/ (Forced(n, t) /\ n.state_entered = t)
<1> DEFINE fades == ShouldCrossfade(m.displayed, s)
           e == [m EXCEPT !.displayed = s, !.state_entered = t,
                          !.transition_active = fades,
                          !.transition_from = IF fades THEN m.displayed ELSE @,
                          !.transition_started = IF fades THEN t ELSE @]
           n == EnterState(m, s, t)
<1>1. CASE m.displayed = s
    BY <1>1 DEF EnterState, SameWish
<1>2. CASE m.displayed # s
  <2>1. fades \in BOOLEAN
    BY DEF ShouldCrossfade
  <2>2. n = FrameForced(e, t)
    BY <1>2 DEF EnterState
  <2>3. /\ e \in Mcu /\ SameWish(e, m) /\ Joins(e) /\ e.displayed = s
        /\ e.state_entered = t
    <3>1. /\ e \in Mcu /\ SameWish(e, m) /\ e.displayed = s
          /\ e.state_entered = t
          /\ e.transition_active = fades
          /\ fades => e.transition_from = m.displayed
      <4> HIDE DEF fades
      <4> QED BY <2>1 DEF Mcu, SameWish
    <3> QED
      BY <3>1 DEF Joins
  <2> HIDE DEF e, n
  <2>4. n \in Mcu /\ ButFrame(n, e) /\ Forced(n, t)
    BY <2>2, <2>3, FrameForcedIsForced
  <2> QED
    BY <2>3, <2>4 DEF ButFrame, SameWish, Joins, n
<1> QED
    BY <1>1, <1>2

\* What an iteration at time t makes of the wish and the heartbeats in m.
Shown(m, t) ==
    IF m.have_heartbeat /\ Elapsed(t, m.last_heartbeat) <= m.offline_timeout
    THEN IF m.have_requested THEN m.requested ELSE "IDLE"
    ELSE "OFFLINE"

LEMMA DisplayUpdated ==
    ASSUME NEW m \in Mcu, NEW t \in Millis, Joins(m)
    PROVE  LET n == UpdateDisplayed(m, t) IN
           /\ n \in Mcu /\ SameWish(n, m) /\ Joins(n)
           /\ n.displayed = Shown(m, t)
           /\ n = m \/ (Forced(n, t) /\ n.state_entered = t)
<1>1. Shown(m, t) \in State
    BY DEF Shown, Mcu, State
<1>2. UpdateDisplayed(m, t) = EnterState(m, Shown(m, t), t)
    BY DEF UpdateDisplayed, Shown
<1> QED
    BY <1>1, <1>2, StateEntered

LEMMA TransitionFinished ==
    ASSUME NEW m \in Mcu, NEW t \in Millis, Joins(m)
    PROVE  LET n == FinishTransition(m, t) IN
           /\ n \in Mcu /\ SameWish(n, m) /\ Bounded(n, t)
           /\ n.displayed = m.displayed
           /\ n = m \/ /\ Forced(n, t)
                       /\ n.displayed = "IDLE" => n.state_entered = t
<1> DEFINE n == FinishTransition(m, t)
           over == /\ m.transition_active
                   /\ Elapsed(t, m.transition_started)
                        >= TransitionDuration(m.transition_from, m.displayed)
           since == IF m.transition_from = "IDLE" /\ m.displayed = "THINKING"
                    THEN m.transition_started ELSE t
           e == [m EXCEPT !.transition_active = FALSE, !.state_entered = since]
<1>1. CASE over
  <2>1. n = FrameForced(e, t)
    BY <1>1 DEF FinishTransition
  <2>2. /\ e \in Mcu /\ SameWish(e, m) /\ ~e.transition_active
        /\ e.displayed = m.displayed
        /\ e.displayed = "IDLE" => e.state_entered = t
    <3>1. since \in Millis /\ (m.displayed = "IDLE" => since = t)
      BY DEF Mcu
    <3> HIDE DEF since
    <3> QED BY <3>1 DEF Mcu, SameWish
  <2> HIDE DEF e, n
  <2>3. n \in Mcu /\ ButFrame(n, e) /\ Forced(n, t)
    BY <2>1, <2>2, FrameForcedIsForced
  <2> QED
    BY <2>2, <2>3 DEF ButFrame, SameWish, Bounded, n
<1>2. CASE ~over
  <2>1. n = m
    BY <1>2 DEF FinishTransition
  <2>2. Elapsed(t, m.transition_started) \in Millis
    <3>1. m.transition_started \in Millis BY DEF Mcu
    <3> QED BY <3>1, Ages
  <2>3. TransitionDuration(m.transition_from, m.displayed) \in Millis
    BY ConstantTypes DEF TransitionDuration, Millis
  <2>4. Bounded(m, t)
    BY <1>2, <2>2, <2>3, ConstantTypes DEF Bounded, Joins, Millis
  <2> QED
    BY <2>1, <2>4 DEF SameWish
<1> QED
    BY <1>1, <1>2

\* What an iteration at time t has decided before it draws.
Decided(t) == FinishTransition(UpdateDisplayed(ApplyPending(mcu, t), t), t)
\* Nothing that is drawn has changed, nor when to draw it.
Untouched(m, n) ==
    /\ m.displayed = n.displayed /\ m.state_entered = n.state_entered
    /\ m.transition_active = n.transition_active
    /\ m.brightness = n.brightness /\ m.quota = n.quota
    /\ m.last_frame = n.last_frame

LEMMA WhatIsDecided ==
    ASSUME TypeOK, Joins(mcu), NEW t \in Millis
    PROVE  LET m == Decided(t) IN
           /\ m \in Mcu /\ Bounded(m, t) /\ m.displayed = Shown(m, t)
           /\ Untouched(m, mcu) \/ Forced(m, t)
           /\ \/ /\ m.displayed = mcu.displayed
                 /\ m.transition_active = mcu.transition_active
              \/ m.displayed = "IDLE" => m.state_entered = t
           /\ m.requested = IF pending.state # None THEN pending.state.state
                            ELSE IF pending.invalid THEN "ERROR"
                            ELSE mcu.requested
           /\ m.have_requested = (\/ mcu.have_requested \/ pending.invalid
                                  \/ pending.state # None)
           /\ m.have_heartbeat = (mcu.have_heartbeat \/ Alive)
           /\ m.last_heartbeat = IF Alive THEN t ELSE mcu.last_heartbeat
<1> DEFINE a == ApplyPending(mcu, t)  u == UpdateDisplayed(a, t)
           m == FinishTransition(u, t)
<1>1. /\ a \in Mcu /\ SameDisplay(a, mcu)
      /\ Staged => Forced(a, t)
      /\ ~Staged => /\ a.last_frame = mcu.last_frame
                    /\ a.brightness = mcu.brightness
                    /\ a.quota = mcu.quota
      /\ a.requested = IF pending.state # None THEN pending.state.state
                       ELSE IF pending.invalid THEN "ERROR"
                       ELSE mcu.requested
      /\ a.have_requested = (\/ mcu.have_requested \/ pending.invalid
                             \/ pending.state # None)
      /\ a.have_heartbeat = (mcu.have_heartbeat \/ Alive)
      /\ a.last_heartbeat = IF Alive THEN t ELSE mcu.last_heartbeat
    BY AllTakenIn
<1> HIDE DEF a
<1>2. Joins(a)
    BY <1>1 DEF Joins, SameDisplay
<1>3. /\ u \in Mcu /\ SameWish(u, a) /\ Joins(u) /\ u.displayed = Shown(a, t)
      /\ u = a \/ (Forced(u, t) /\ u.state_entered = t)
    BY <1>1, <1>2, DisplayUpdated
<1> HIDE DEF u
<1>4. /\ m \in Mcu /\ SameWish(m, u) /\ Bounded(m, t)
      /\ m.displayed = u.displayed
      /\ m = u \/ /\ Forced(m, t)
                  /\ m.displayed = "IDLE" => m.state_entered = t
    BY <1>3, TransitionFinished
<1> HIDE DEF m
<1>5. SameWish(m, a) /\ m.displayed = Shown(m, t)
    BY <1>3, <1>4 DEF SameWish, Shown
<1>6. Untouched(m, mcu) \/ Forced(m, t)
  <2>1. (m = a /\ ~Staged) \/ Forced(m, t)
    BY <1>1, <1>3, <1>4
  <2> QED
    BY <1>1, <2>1 DEF Untouched, SameDisplay
<1>7. \/ /\ m.displayed = mcu.displayed
         /\ m.transition_active = mcu.transition_active
      \/ m.displayed = "IDLE" => m.state_entered = t
    BY <1>1, <1>3, <1>4 DEF SameDisplay
<1>8. m = Decided(t)
    BY DEF m, u, a, Decided
<1> QED
    BY <1>1, <1>4, <1>5, <1>6, <1>7, <1>8 DEF SameWish
-----------------------------------------------------------------------------
(* The steps.                                                              *)

LEMMA DrawnKeeps ==
    ASSUME NEW m \in Mcu, NEW t \in Millis
    PROVE  Drawn(m, t) \in Mcu /\ ButFrame(Drawn(m, t), m)
<1> DEFINE interval == FrameInterval(m, t)
           late == Elapsed(t, m.last_frame) - interval >= interval
           last == IF late THEN t ELSE (m.last_frame + interval) % Wrap
<1>1. interval \in Millis
  <2>1. Fading(m, t) \in BOOLEAN BY DEF Fading
  <2> QED BY <2>1, IntervalOfFading, IntervalValue
<1>2. m.last_frame \in Millis
    BY DEF Mcu
<1>3. last \in Millis
  <2> HIDE DEF interval
  <2>1. (m.last_frame + interval) % Wrap \in Millis BY <1>1, <1>2, Older
  <2> QED BY <2>1
<1>4. Drawn(m, t) = [m EXCEPT !.last_frame = last]
    BY DEF Drawn
<1> HIDE DEF last
<1> QED
    BY <1>3, <1>4 DEF Mcu, ButFrame

\* A waiting frame waits on or is due: the fade interval has passed for it.
LEMMA WaitsOn ==
    ASSUME TypeOK, Waiting(mcu, now), NEW d \in Steps,
           NEW m \in Mcu, Untouched(m, mcu)
    PROVE  LET t == (now + d) % Wrap IN FrameDue(m, t) \/ Waiting(m, t)
<1> DEFINE t == (now + d) % Wrap
           e == Elapsed(t, m.last_frame)
<1>1. /\ now \in Millis /\ mcu.last_frame \in Millis /\ m.last_frame \in Millis
      /\ m.state_entered \in Millis /\ d \in Millis /\ d + IdleStatic <= Wrap
    BY ConstantTypes DEF TypeOK, Mcu
<1>2. t \in Millis
    BY <1>1, Older
<1>3. e = Elapsed(now, mcu.last_frame) + d /\ e \in Millis
  <2>1. Elapsed(now, mcu.last_frame) \in Millis /\ e \in Millis
    BY <1>1, <1>2, Ages
  <2>2. Elapsed(now, mcu.last_frame) < IdleStatic
    BY DEF Waiting
  <2>3. Elapsed(now, mcu.last_frame) + d < Wrap
    BY <1>1, <2>1, <2>2, ConstantTypes DEF Millis
  <2> QED
    BY <1>1, <2>1, <2>3, Older DEF Untouched
<1>4. Interval(m, TRUE) = Interval(mcu, TRUE)
    BY DEF Interval, Untouched, Waiting
<1>5. Interval(m, TRUE) \in Millis /\ Interval(m, FALSE) \in Millis
    BY IntervalValue
<1>6. Interval(m, FALSE) <= IdleStatic
    BY IntervalValue DEF Untouched, Waiting
<1>7. Elapsed(now, mcu.last_frame) >= Interval(mcu, TRUE)
      /\ Elapsed(now, mcu.last_frame) \in Millis
    BY <1>1, Ages DEF Waiting
<1>8. Elapsed(t, m.state_entered) \in Millis
    BY <1>1, <1>2, Ages
<1> HIDE DEF t, e
<1>9. e >= Interval(m, TRUE)
  <2> DEFINE x == Elapsed(now, mcu.last_frame)  i == Interval(m, TRUE)
  <2>1. e = x + d /\ x \in Millis /\ d \in Millis /\ i \in Millis /\ x >= i
    BY <1>1, <1>3, <1>4, <1>5, <1>7
  <2> HIDE DEF x, i
  <2>2. e >= i
    BY <2>1, ConstantTypes DEF Millis
  <2> QED
    BY <2>2 DEF i
<1>10. ASSUME ~FrameDue(m, t) PROVE Waiting(m, t)
  <2>1. ~(e >= Interval(m, Fading(m, t)))
    BY <1>10, IntervalOfFading DEF FrameDue, e
  <2>2. ~Fading(m, t)
    BY <1>9, <2>1 DEF Fading
  <2>3. Elapsed(t, m.state_entered) > IdleFade
    BY <1>8, <2>2, ConstantTypes DEF Fading, Millis
  <2>4. ~(e >= Interval(m, FALSE))
    BY <2>1, <2>2 DEF Fading
  <2>5. e < IdleStatic
    <3> DEFINE i == Interval(m, FALSE)
    <3>1. e \in Millis /\ i \in Millis /\ i <= IdleStatic /\ ~(e >= i)
      BY <1>3, <1>5, <1>6, <2>4
    <3> HIDE DEF i
    <3> QED
      BY <3>1, ConstantTypes DEF Millis
  <2> QED
    BY <1>9, <2>3, <2>5 DEF Waiting, Untouched, e
<1> QED
    BY <1>10 DEF t

LEMMA LoopKeeps ==
    ASSUME IInv, NEW d \in Steps, Loop(d)
    PROVE  /\ IInv'
           /\ mcu'.displayed = Shown(mcu', now')
<1> DEFINE t == (now + d) % Wrap
           m == Decided(t)
<1>1. TypeOK /\ LatestInv /\ HeartbeatAge /\ DrawnOrWaiting /\ Joins(mcu)
    BY DEF IInv, Bounded, Joins
<1>2. now \in Millis /\ d \in Millis /\ t \in Millis
  <2>1. now \in Millis /\ d \in Millis BY <1>1, ConstantTypes DEF TypeOK
  <2> QED BY <2>1, Older
<1>3. /\ Alive \/ silence + d <= MaxSilence
      /\ pending' = NothingPending /\ now' = t /\ latest' = latest
      /\ silence' = IF Alive THEN 0 ELSE silence + d
      /\ IF FrameDue(m, t) THEN mcu' = Drawn(m, t) /\ frame' = Rendered(m)
                           ELSE mcu' = m /\ frame' = frame
    BY DEF Loop, Decided
<1> HIDE DEF t
<1>4. /\ m \in Mcu /\ Bounded(m, t) /\ m.displayed = Shown(m, t)
      /\ Untouched(m, mcu) \/ Forced(m, t)
      /\ \/ /\ m.displayed = mcu.displayed
            /\ m.transition_active = mcu.transition_active
         \/ m.displayed = "IDLE" => m.state_entered = t
      /\ m.requested = IF pending.state # None THEN pending.state.state
                       ELSE IF pending.invalid THEN "ERROR"
                       ELSE mcu.requested
      /\ m.have_requested = (\/ mcu.have_requested \/ pending.invalid
                             \/ pending.state # None)
      /\ m.have_heartbeat = (mcu.have_heartbeat \/ Alive)
      /\ m.last_heartbeat = IF Alive THEN t ELSE mcu.last_heartbeat
    BY <1>1, <1>2, WhatIsDecided
<1> HIDE DEF m
<1>5. /\ mcu' \in Mcu /\ ButFrame(mcu', m)
      /\ Drawn(m, t) \in Mcu /\ ButFrame(Drawn(m, t), m)
  <2>1. Drawn(m, t) \in Mcu /\ ButFrame(Drawn(m, t), m) /\ m \in Mcu
    BY <1>2, <1>4, DrawnKeeps
  <2>2. ButFrame(m, m)
    BY DEF ButFrame
  <2>3. mcu' = m \/ mcu' = Drawn(m, t)
    BY <1>3
  <2> QED
    BY <2>1, <2>2, <2>3
<1>6. TypeOK'
  <2>1. now' \in Millis /\ mcu' \in Mcu
    BY <1>2, <1>3, <1>5
  <2>2. pending' \in [state : Publishes \cup {None}, invalid : BOOLEAN,
                      heartbeat : BOOLEAN, brightness : Brightnesses \cup {None},
                      quota : Quotas \cup {None}]
    BY <1>3 DEF NothingPending
  <2>3. frame' \in [state : State, fading : BOOLEAN, brightness : Nat,
                    quota : QuotaBar]
    BY <1>1, <1>3, <1>4 DEF TypeOK, Rendered, Mcu
  <2>4. silence' \in 0..MaxSilence
    BY <1>1, <1>2, <1>3, ConstantTypes DEF TypeOK, Millis
  <2>5. latest' \in State \cup {None}
    BY <1>1, <1>3 DEF TypeOK
  <2> QED
    BY <2>1, <2>2, <2>3, <2>4, <2>5 DEF TypeOK
<1>7. LatestInv'
  <2>1. pending'.state = None /\ pending'.invalid = FALSE
    BY <1>3 DEF NothingPending
  <2>2. latest' = IF mcu'.have_requested THEN mcu'.requested ELSE None
    BY <1>1, <1>3, <1>4, <1>5 DEF LatestInv, ButFrame
  <2> QED
    BY <2>1, <2>2 DEF LatestInv
<1>8. HeartbeatAge'
  <2> SUFFICES ASSUME mcu'.have_heartbeat
               PROVE  Elapsed(now', mcu'.last_heartbeat) = silence'
    BY DEF HeartbeatAge
  <2>1. CASE Alive
    BY <2>1, <1>2, <1>3, <1>4, <1>5, Ages DEF ButFrame
  <2>2. CASE ~Alive
    <3>1. mcu.have_heartbeat /\ mcu'.last_heartbeat = mcu.last_heartbeat
      BY <2>2, <1>4, <1>5 DEF ButFrame
    <3>2. Elapsed(now, mcu.last_heartbeat) = silence
      BY <1>1, <3>1 DEF HeartbeatAge
    <3>3. silence + d < Wrap
      BY <2>2, <1>1, <1>2, <1>3, ConstantTypes DEF TypeOK, Millis
    <3>4. mcu.last_heartbeat \in Millis
      BY <1>1 DEF TypeOK, Mcu
    <3>5. Elapsed(t, mcu.last_heartbeat) = silence + d
      BY <1>2, <3>2, <3>3, <3>4, Older DEF t
    <3> QED
      BY <2>2, <1>3, <3>1, <3>5
  <2> QED
    BY <2>1, <2>2
<1>9. DrawnOrWaiting'
  <2>1. CASE FrameDue(m, t)
    BY <2>1, <1>3, <1>5 DEF DrawnOrWaiting, Rendered, ButFrame
  <2>2. CASE ~FrameDue(m, t)
    <3>1. mcu' = m /\ frame' = frame /\ now' = t
      BY <2>2, <1>3
    <3>2. Untouched(m, mcu) \/ Waiting(m, t)
      BY <2>2, <1>2, <1>4, ForcedIsDueOrWaits
    <3>3. CASE Untouched(m, mcu)
      <4>1. Waiting(mcu, now) => Waiting(m, t)
        BY <1>1, <1>4, <2>2, <3>3, WaitsOn DEF t
      <4> QED
        BY <1>1, <3>1, <3>3, <4>1 DEF DrawnOrWaiting, Untouched
    <3>4. CASE ~Untouched(m, mcu)
      <4>1. Waiting(m, t)
        BY <3>2, <3>4
      <4>2. Elapsed(t, t) = 0 /\ ~(0 > IdleFade)
        BY <1>2, Ages, ConstantTypes
      <4>3. /\ m.displayed = mcu.displayed
            /\ m.transition_active = mcu.transition_active
        BY <1>4, <4>1, <4>2 DEF Waiting
      <4> QED
        BY <1>1, <3>1, <4>1, <4>3 DEF DrawnOrWaiting
    <3> QED
      BY <3>3, <3>4
  <2> QED
    BY <2>1, <2>2
<1>10. Bounded(mcu', now')
    BY <1>3, <1>4, <1>5 DEF Bounded, ButFrame
<1>11. mcu'.displayed = Shown(mcu', now')
    BY <1>3, <1>4, <1>5 DEF Shown, ButFrame
<1> QED
    BY <1>6, <1>7, <1>8, <1>9, <1>10, <1>11 DEF IInv

LEMMA BootKeeps ==
    ASSUME NEW t \in Millis
    PROVE  /\ Booted(t) \in Mcu /\ ~Booted(t).transition_active
           /\ ~Booted(t).have_heartbeat /\ ~Booted(t).have_requested
           /\ Rendered(Booted(t)) \in
                 [state : State, fading : BOOLEAN, brightness : Nat,
                  quota : QuotaBar]
<1>1. 0 \in Millis /\ Before(t, DefaultInterval) \in Millis
    BY Ages, ConstantTypes DEF Millis
<1> QED
    BY <1>1, FirmwareAssumption DEF Booted, Mcu, State, QuotaBar, Rendered

LEMMA NothingPendingType ==
    NothingPending \in
        [state : Publishes \cup {None}, invalid : BOOLEAN,
         heartbeat : BOOLEAN, brightness : Brightnesses \cup {None},
         quota : Quotas \cup {None}]
BY DEF NothingPending

LEMMA InitHolds == Init => IInv
<1> SUFFICES ASSUME Init PROVE IInv
    OBVIOUS
<1>1. /\ mcu \in Mcu /\ ~mcu.transition_active
      /\ ~mcu.have_heartbeat /\ ~mcu.have_requested
      /\ frame \in [state : State, fading : BOOLEAN, brightness : Nat,
                    quota : QuotaBar]
    BY BootKeeps DEF Init
<1>2. TypeOK
    BY <1>1, NothingPendingType, ConstantTypes DEF Init, TypeOK
<1>3. LatestInv /\ HeartbeatAge /\ Bounded(mcu, now)
    BY <1>1 DEF Init, LatestInv, HeartbeatAge, Bounded, NothingPending
<1>4. DrawnOrWaiting
    BY DEF Init, DrawnOrWaiting, Rendered
<1> QED
    BY <1>2, <1>3, <1>4 DEF IInv

LEMMA RestartKeeps ==
    ASSUME Restart
    PROVE  IInv'
<1>1. /\ mcu' \in Mcu /\ ~mcu'.transition_active
      /\ ~mcu'.have_heartbeat /\ ~mcu'.have_requested
      /\ frame' \in [state : State, fading : BOOLEAN, brightness : Nat,
                     quota : QuotaBar]
    BY BootKeeps DEF Restart
<1>2. TypeOK'
    BY <1>1, NothingPendingType, ConstantTypes DEF Restart, TypeOK
<1>3. LatestInv' /\ HeartbeatAge' /\ Bounded(mcu, now)'
    BY <1>1 DEF Restart, LatestInv, HeartbeatAge, Bounded, NothingPending
<1>4. DrawnOrWaiting'
    BY DEF Restart, DrawnOrWaiting, Rendered
<1> QED
    BY <1>2, <1>3, <1>4 DEF IInv

\* A callback stages a value and touches nothing that has been taken in.
LEMMA CallbacksKeep ==
    ASSUME IInv,
           \/ \E p \in Publishes : SetState(p)
           \/ SetInvalidState
           \/ Heartbeat
           \/ \E b \in Brightnesses : SetBrightness(b)
           \/ \E q \in Quotas : SetQuota(q)
    PROVE  IInv'
<1>1. TypeOK /\ LatestInv /\ HeartbeatAge /\ DrawnOrWaiting /\ Bounded(mcu, now)
    BY DEF IInv
<1>2. now' = now /\ mcu' = mcu /\ frame' = frame /\ silence' = silence
    BY DEF SetState, SetInvalidState, Heartbeat, SetBrightness, SetQuota
<1>3. HeartbeatAge' /\ DrawnOrWaiting' /\ Bounded(mcu, now)'
    BY <1>1, <1>2 DEF HeartbeatAge, DrawnOrWaiting, Bounded, Waiting, Interval
<1>4. /\ pending' \in [state : Publishes \cup {None}, invalid : BOOLEAN,
                       heartbeat : BOOLEAN, brightness : Brightnesses \cup {None},
                       quota : Quotas \cup {None}]
      /\ latest' \in State \cup {None}
      /\ LatestInv'
  <2>1. CASE \E p \in Publishes : SetState(p)
    <3>1. PICK p \in Publishes : SetState(p)
      BY <2>1
    <3>2. p \in Publishes /\ p.state \in State /\ p # None
      BY FirmwareAssumption
    <3> QED
      BY <1>1, <3>1, <3>2 DEF SetState, TypeOK, LatestInv
  <2>2. CASE SetInvalidState
    BY <1>1, <2>2 DEF SetInvalidState, TypeOK, LatestInv, State
  <2>3. CASE Heartbeat
    BY <1>1, <2>3 DEF Heartbeat, TypeOK, LatestInv
  <2>4. CASE \E b \in Brightnesses : SetBrightness(b)
    BY <1>1, <2>4 DEF SetBrightness, TypeOK, LatestInv
  <2>5. CASE \E q \in Quotas : SetQuota(q)
    BY <1>1, <2>5 DEF SetQuota, TypeOK, LatestInv
  <2> QED
    BY <2>1, <2>2, <2>3, <2>4, <2>5
<1>5. TypeOK'
    BY <1>1, <1>2, <1>4 DEF TypeOK
<1> QED
    BY <1>3, <1>4, <1>5 DEF IInv
-----------------------------------------------------------------------------
\* The inductive invariant, of the globals, the staged values and the history.
THEOREM InvariantHolds == Spec => []IInv
<1>1. IInv /\ [Next]_vars => IInv'
  <2> SUFFICES ASSUME IInv, [Next]_vars PROVE IInv'
    OBVIOUS
  <2>1. CASE \E d \in Steps : Loop(d)
    BY <2>1, LoopKeeps
  <2>2. CASE Restart
    BY <2>2, RestartKeeps
  <2>3. CASE UNCHANGED vars
    BY <2>3 DEF vars, IInv, TypeOK, LatestInv, HeartbeatAge, DrawnOrWaiting,
                Bounded, Waiting, Interval
  <2> QED
    BY <2>1, <2>2, <2>3, CallbacksKeep DEF Next
<1> QED
    BY <1>1, InitHolds, PTL DEF Spec

\* Types: every global, staged value and clock keeps its range, so no age is
\* ever taken of anything but a time (lines 12 to 56 of the sketch).
THEOREM TypeCorrect == Spec => []TypeOK
BY InvariantHolds, PTL DEF IInv

\* However calls, iterations and resets interleave, a crossfade is one of the two
\* kinds the sketch makes, joins the states it was made for, and is over in time.
THEOREM CrossfadesEnd == Spec => []CrossfadeIsBounded
<1>1. IInv => CrossfadeIsBounded
    BY DEF IInv, Bounded, CrossfadeIsBounded
<1> QED
    BY <1>1, InvariantHolds, PTL

\* The pixels show the state and the fade of the globals after every step, and
\* their brightness and quota but for a wait of less than the static refresh of
\* IDLE, for any intervals with the fade's no longer than the static one.
THEOREM UpdatesAreDrawn == Spec => []UpdateIsDrawn
<1>1. IInv => UpdateIsDrawn
  <2> SUFFICES ASSUME IInv PROVE UpdateIsDrawn
    OBVIOUS
  <2>1. frame.fading \in BOOLEAN /\ mcu.transition_active \in BOOLEAN
    BY DEF IInv, TypeOK, Mcu
  <2> QED
    BY <2>1 DEF IInv, DrawnOrWaiting, Waiting, UpdateIsDrawn
<1> QED
    BY <1>1, InvariantHolds, PTL

\* An iteration shows OFFLINE exactly when the real time without a sign of life
\* exceeds the timeout in force, and else the state asked for last, in whatever
\* order the calls came, for any silence shorter than a turn of millis().
THEOREM DisplayIsTrue == Spec => DisplayTellsTheTruth
<1> DEFINE Truth ==
        \A d \in Steps : Loop(d) =>
            mcu'.displayed =
               IF ~mcu'.have_heartbeat \/ silence' > mcu'.offline_timeout
               THEN "OFFLINE"
               ELSE IF latest = None THEN "IDLE" ELSE latest
<1>1. IInv /\ IInv' /\ [Next]_vars => Truth
  <2> SUFFICES ASSUME IInv, NEW d \in Steps, Loop(d)
               PROVE  mcu'.displayed =
                         IF ~mcu'.have_heartbeat
                            \/ silence' > mcu'.offline_timeout
                         THEN "OFFLINE"
                         ELSE IF latest = None THEN "IDLE" ELSE latest
    OBVIOUS
  <2>1. /\ TypeOK' /\ LatestInv' /\ HeartbeatAge'
        /\ mcu'.displayed = Shown(mcu', now')
    BY LoopKeeps DEF IInv
  <2>2. latest = IF mcu'.have_requested THEN mcu'.requested ELSE None
    <3>1. pending'.state = None /\ pending'.invalid = FALSE /\ latest' = latest
      BY DEF Loop, NothingPending
    <3> QED
      BY <2>1, <3>1 DEF LatestInv
  <2>3. mcu'.have_requested => mcu'.requested # None
    BY <2>1, FirmwareAssumption DEF TypeOK, Mcu
  <2>4. mcu'.have_heartbeat =>
            (Elapsed(now', mcu'.last_heartbeat) <= mcu'.offline_timeout
               <=> ~(silence' > mcu'.offline_timeout))
    <3>1. silence' \in 0..MaxSilence /\ mcu'.offline_timeout \in 1..(Wrap - 1)
      BY <2>1 DEF TypeOK, Mcu
    <3>2. silence' \in Int /\ mcu'.offline_timeout \in Int
      BY <3>1, ConstantTypes
    <3> QED
      BY <2>1, <3>2 DEF HeartbeatAge
  <2> QED
    BY <2>1, <2>2, <2>3, <2>4 DEF Shown
<1> QED
    BY <1>1, InvariantHolds, PTL DEF Spec, DisplayTellsTheTruth
=============================================================================
