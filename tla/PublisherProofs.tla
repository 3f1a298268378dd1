-------------------------- MODULE PublisherProofs --------------------------
(***************************************************************************)
(* That the daemon heals, for any display, any heartbeat interval of two   *)
(* ticks or more, any retry delay within it and any offline timeout of two *)
(* intervals or more, whatever fails, resets, crashes or is commanded.     *)
(*                                                                         *)
(* The hard part is a publish that straddles the last disturbance: it      *)
(* carries an old display, or carries the right one to a board that has    *)
(* reset behind it, and when it ends the daemon believes all is well.      *)
(* HealInv follows the daemon from there.  The publish in flight ends      *)
(* (Stale), the loop waits for the next attempt (Waiting), the next        *)
(* publish carries the display (Carrying), and from its fourth RPC on the  *)
(* board shows it and goes on showing it (Healed).  Each phase bounds the  *)
(* calm that can have passed.                                              *)
(***************************************************************************)
EXTENDS Publisher, FiniteSetTheorems, TLAPS

\* The ticks that an RPC in flight has seen, and those that can have come
\* before it in its publish.
Seen(w) == IF w THEN 1 ELSE 0
Before(rpc) ==
    CASE rpc = "version" -> 0
      [] rpc = "state" -> 1
      [] rpc = "brightness" -> 2
      [] rpc = "quota" -> 3
      [] rpc = "heartbeat" -> 4
      [] OTHER -> 5
Longer == IF HeartbeatInterval > 6 THEN HeartbeatInterval ELSE 6

\* What a publish that no reset has disturbed has achieved so far.
ProgressInv ==
    intact /\ Publishing =>
        /\ pc # "version" => firmware_bar = board.bar
        /\ pc \notin {"version", "state"} =>
              /\ board.state = sending.state /\ board.active = sending.active
              /\ board.heard
        /\ pc \in {"quota", "heartbeat", "status"} => board.brightness
        /\ pc \in {"heartbeat", "status"} =>
              (board.bar => board.quota = sending.quota)

\* An attempt's age, the delay after it and the ticks of the loop.
ClockInv ==
    /\ Publishing /\ waited => since_attempt >= 1
    /\ Publishing /\ ~due => since_attempt = 0
    /\ Idle => retry_in = 0 \/ since_attempt + retry_in <= RetryDelay
    /\ Idle /\ ~publish_ok => since_attempt + retry_in >= RetryDelay
    /\ Idle /\ ~due => since_attempt < HeartbeatInterval
    /\ pc = "setup" => calm = 0 /\ ~clean

\* How long the board has not been spoken to, behind the RPC that did.
SilentInv ==
    /\ pc = "brightness" => board.silent <= Seen(waited)
    /\ pc = "quota" => board.silent <= 1 + Seen(waited)
    /\ pc = "heartbeat" => board.silent <= 2 + Seen(waited)
    /\ pc = "status" => board.silent <= Seen(waited)
\* And before it, when the publish before this one succeeded.
SteadySilence ==
    /\ Idle => board.silent <= since_attempt /\ board.silent <= HeartbeatInterval
    /\ pc = "version" => board.silent <= HeartbeatInterval + Seen(waited)
    /\ pc = "state" => board.silent <= HeartbeatInterval + 1 + Seen(waited)

Stale ==
    /\ Publishing
    /\ calm <= Before(pc) + Seen(waited)
    /\ calm <= since_attempt \/ since_attempt = AttemptAge
Waiting ==
    /\ Idle
    /\ \/ calm <= since_attempt /\ since_attempt <= HeartbeatInterval
       \/ since_attempt >= HeartbeatInterval /\ calm <= 6
Carrying ==
    /\ pc \in {"version", "state", "brightness", "quota"}
    /\ sending = Display /\ intact
    /\ calm <= Longer + Before(pc) + Seen(waited)
Healed ==
    /\ board.state = Display.state /\ board.active = Display.active
    /\ board.brightness /\ board.heard
    /\ board.bar => board.quota = Display.quota
    /\ Publishing => sending = Display /\ intact
    /\ SteadySilence
HealInv == Idle \/ Publishing => Stale \/ Waiting \/ Carrying \/ Healed

CleanInv == clean => SteadySilence

IInv ==
    /\ TypeOK /\ ProgressInv
    /\ ClockInv /\ SilentInv /\ CleanInv /\ HealInv
-----------------------------------------------------------------------------
(* What the operators return.                                              *)

Board == [state: State, active: Nat, quota: Nat \cup {None},
          brightness: BOOLEAN, heard: BOOLEAN,
          silent: 0..(OfflineTimeout + 1), bar: BOOLEAN]

LEMMA ConstantsTyped ==
    /\ HeartbeatInterval \in Nat /\ HeartbeatInterval >= 2
    /\ RetryDelay \in Nat /\ RetryDelay <= HeartbeatInterval
    /\ OfflineTimeout \in Nat /\ OfflineTimeout >= 2 * HeartbeatInterval
    /\ MaxCalm \in Nat /\ MaxDisturbances \in Nat
    /\ AttemptAge = HeartbeatInterval + 1 /\ AttemptAge \in Nat
    /\ Longer \in Nat /\ Longer >= 6 /\ Longer >= HeartbeatInterval
    /\ DemoStep \in Nat /\ DemoStep >= 1
    /\ None \notin State /\ None \notin Nat /\ None \notin Aggregate
BY PublisherAssumption DEF AttemptAge, Longer

\* A demo that is not over is in one of its steps.
LEMMA StepOfDemo ==
    ASSUME NEW n \in Nat, NEW k \in Nat \ {0}, NEW length \in Nat, n < length * k
    PROVE  n \div k \in Nat /\ n \div k < length
<1> DEFINE q == n \div k
<1>1. q \in Int /\ k * q <= n
  OBVIOUS
<1>2. n < k * (q + 1)
  OBVIOUS
<1>3. q >= 0
  OBVIOUS
<1>4. CASE q >= length
  <2>1. k * q >= k * length
    BY <1>1, <1>4
  <2>2. QED
    BY <1>1, <2>1
<1>5. QED
  BY <1>1, <1>3, <1>4

LEMMA DemoTyped ==
    /\ DemoLength \in Nat
    /\ \A n \in Nat : n < DemoLength => DemoStates[n \div DemoStep + 1] \in State
    /\ DemoStates[1] \in State
<1>1. DemoStates \in Seq(State) /\ DemoStates # <<>> /\ DemoStep \in Nat \ {0}
  BY PublisherAssumption
<1>2. Len(DemoStates) \in Nat \ {0} /\ \A i \in 1..Len(DemoStates) : DemoStates[i] \in State
  BY <1>1
<1>3. DemoLength \in Nat
  BY <1>1, <1>2 DEF DemoLength
<1>4. ASSUME NEW n \in Nat, n < DemoLength PROVE DemoStates[n \div DemoStep + 1] \in State
  <2>1. n \div DemoStep \in Nat /\ n \div DemoStep < Len(DemoStates)
    BY <1>1, <1>2, <1>4, StepOfDemo DEF DemoLength
  <2> QED
    BY <1>2, <2>1
<1> QED
  BY <1>2, <1>3, <1>4

LEMMA DisplayTyped == TypeOK => Display \in Aggregate
<1> SUFFICES ASSUME TypeOK PROVE Display \in Aggregate
  OBVIOUS
<1>1. \A s \in State : [state |-> s, active |-> 0, quota |-> want.quota] \in Aggregate
  BY DEF TypeOK, Aggregate
<1>2. DemoRuns => DemoStates[demo \div DemoStep + 1] \in State
  BY DemoTyped DEF TypeOK, DemoRuns
<1>3. Overridden => override \in State
  BY DEF TypeOK, Overridden
<1>4. "IDLE" \in State
  BY DEF State
<1> QED
  BY <1>1, <1>2, <1>3, <1>4 DEF Display, TypeOK

\* Asking what to display does not change it.
LEMMA AskingKeepsDisplay ==
    ASSUME TypeOK, AskDisplay, want' = want
    PROVE  /\ Display' = Display
           /\ demo' \in 0..DemoLength \cup {None}
           /\ override' \in State \cup {None} /\ override_left' \in Nat
<1>1. "IDLE" \in State
  BY DEF State
<1>2. demo' \in 0..DemoLength \cup {None} /\ override' \in State \cup {None} /\ override_left' \in Nat
  BY <1>1, ConstantsTyped DEF TypeOK, AskDisplay
<1>3. ASSUME DemoOver PROVE Display' = Display
  <2>1. ~DemoRuns
    BY <1>3, DemoTyped, ConstantsTyped DEF DemoOver, DemoRuns, TypeOK
  <2>2. ~DemoRuns' /\ ~DemoOver' /\ Overridden' /\ override' = "IDLE"
    BY <1>1, <1>3, ConstantsTyped DEF AskDisplay, DemoRuns, DemoOver, Overridden
  <2> QED
    BY <1>3, <2>1, <2>2 DEF Display
<1>4. ASSUME ~DemoOver PROVE Display' = Display
  <2>1. DemoRuns' = DemoRuns /\ DemoOver' = DemoOver /\ demo' = demo
    BY <1>4 DEF AskDisplay, DemoRuns, DemoOver
  <2>2. ~DemoRuns => Overridden' = Overridden /\ (Overridden => override' = override)
    BY <1>4 DEF AskDisplay, Overridden
  <2> QED
    BY <1>4, <2>1, <2>2 DEF Display
<1> QED
  BY <1>2, <1>3, <1>4

LEMMA SameDisplay ==
    ASSUME UNCHANGED <<want, demo, override, override_left>>
    PROVE  Display' = Display
BY DEF Display, DemoRuns, DemoOver, Overridden

LEMMA EffectTyped ==
    ASSUME TypeOK, NEW rpc \in Rpcs, NEW d \in Aggregate
    PROVE  Effect(rpc, d) \in Board
<1>1. board \in Board /\ d.state \in State /\ d.active \in Nat /\ d.quota \in Nat \cup {None}
  BY DEF TypeOK, Board, Aggregate
<1>2. 0 \in 0..(OfflineTimeout + 1)
  BY ConstantsTyped
<1> QED
  BY <1>1, <1>2 DEF Effect, Board

LEMMA ResetTyped == \A bar \in BOOLEAN : Reset(bar) \in Board
<1>1. 0 \in 0..(OfflineTimeout + 1) /\ "IDLE" \in State
  BY ConstantsTyped DEF State
<1> QED
  BY <1>1 DEF Reset, Board

LEMMA PublishTakesSix == PublishTime = 6
<1> DEFINE a == {"version"}  b == a \cup {"state"}  c == b \cup {"brightness"}
           d == c \cup {"quota"}  e == d \cup {"heartbeat"}  f == e \cup {"status"}
<1>1. IsFiniteSet(a) /\ Cardinality(a) = 1
  BY FS_Singleton
<1>2. IsFiniteSet(b) /\ Cardinality(b) = 2
  <2>1. "state" \notin a
    OBVIOUS
  <2> QED
    BY <1>1, <2>1, FS_AddElement
<1>3. IsFiniteSet(c) /\ Cardinality(c) = 3
  <2>1. "brightness" \notin b
    OBVIOUS
  <2> QED
    BY <1>2, <2>1, FS_AddElement
<1>4. IsFiniteSet(d) /\ Cardinality(d) = 4
  <2>1. "quota" \notin c
    OBVIOUS
  <2> QED
    BY <1>3, <2>1, FS_AddElement
<1>5. IsFiniteSet(e) /\ Cardinality(e) = 5
  <2>1. "heartbeat" \notin d
    OBVIOUS
  <2> QED
    BY <1>4, <2>1, FS_AddElement
<1>6. IsFiniteSet(f) /\ Cardinality(f) = 6
  <2>1. "status" \notin e
    OBVIOUS
  <2> QED
    BY <1>5, <2>1, FS_AddElement
<1>7. Rpcs = f
  BY DEF Rpcs
<1> QED
  BY <1>6, <1>7 DEF PublishTime
-----------------------------------------------------------------------------
(* Every variable keeps its type.                                          *)

\* Where the thread is and the loop's clocks, apart from the rest of TypeOK.
LEMMA BeginTyped ==
    ASSUME TypeOK, NEW d \in Aggregate, NEW c \in BOOLEAN, BeginPublish(d, c)
    PROVE  /\ pc' \in Rpcs /\ since_attempt' \in 0..AttemptAge
           /\ sending' \in Aggregate /\ rest' \in BOOLEAN /\ waited' \in BOOLEAN
           /\ intact' \in BOOLEAN /\ retry_in' \in 0..RetryDelay
           /\ publish_ok' \in BOOLEAN /\ firmware_bar' \in BOOLEAN
           /\ late' = late
<1>1. 0 \in 0..AttemptAge /\ "version" \in Rpcs
  BY ConstantsTyped DEF Rpcs
<1> QED
  BY <1>1 DEF BeginPublish, TypeOK

LEMMA FailTyped ==
    ASSUME TypeOK, PublishFails
    PROVE  /\ pc' \in {"select", "stopped"} /\ publish_ok' = FALSE /\ retry_in' \in 0..RetryDelay
           /\ sending' \in Aggregate /\ firmware_bar' = FALSE /\ waited' = FALSE
           /\ clean' = FALSE
<1>1. pc' \in {"select", "stopped"}
  BY DEF PublishFails, AfterPublish, NextIteration
<1>2. since_attempt \in Nat
  BY ConstantsTyped DEF TypeOK
<1>3. retry_in' \in 0..RetryDelay
  BY <1>2, ConstantsTyped DEF PublishFails, Bounded
<1>4. NothingKnown \in Aggregate
  BY DEF NothingKnown, Aggregate, State
<1> QED
  BY <1>1, <1>3, <1>4 DEF PublishFails

LEMMA NothingTyped == NothingKnown \in Aggregate
BY DEF NothingKnown, Aggregate, State

LEMMA DisturbedTyped ==
    ASSUME TypeOK, Disturbed PROVE disturbances' \in 0..MaxDisturbances /\ calm' \in 0..MaxCalm
BY ConstantsTyped DEF TypeOK, Disturbed

LEMMA TypeStep == TypeOK /\ [Next]_vars => TypeOK'
<1> SUFFICES ASSUME TypeOK, [Next]_vars PROVE TypeOK'
  OBVIOUS
<1> USE DEF Board
<1>a. board \in Board /\ pc \in Rpcs \cup {"setup", "select", "stopped", "crashed"}
  BY DEF TypeOK
<1>b. 0 \in 0..AttemptAge /\ 0 \in 0..RetryDelay /\ 0 \in 0..MaxCalm /\ 0 \in Nat
      /\ AttemptAge \in 0..AttemptAge /\ 0 \in 0..DemoLength
  BY ConstantsTyped, DemoTyped
<1>1. CASE Iterate
  <2>1. Display \in Aggregate /\ want' = want
    BY <1>1, DisplayTyped DEF Iterate
  <2>2. demo' \in 0..DemoLength \cup {None} /\ override' \in State \cup {None} /\ override_left' \in Nat
    BY <1>1, <2>1, AskingKeepsDisplay DEF Iterate
  <2>3. CASE MayPublish
    BY <1>1, <2>1, <2>2, <2>3, BeginTyped DEF Iterate, TypeOK
  <2>4. CASE ~MayPublish
    <3>1. pc' \in {"select", "stopped"}
      BY <1>1, <2>4 DEF Iterate, NextIteration
    <3>2. /\ due' \in BOOLEAN /\ rest' \in BOOLEAN
          /\ UNCHANGED <<running, want, last_display, since_attempt, retry_in,
                    publish_ok, sending, firmware_bar, board, late, waited,
                    disturbances, asked, calm, intact, clean>>
      BY <1>1, <2>4 DEF Iterate
    <3> QED
      BY <2>2, <3>1, <3>2 DEF TypeOK
  <2> QED
    BY <2>3, <2>4
<1>2. CASE RpcSucceeds
  <2>1. pc \in Rpcs /\ sending \in Aggregate /\ board' \in Board
    BY <1>2, EffectTyped DEF RpcSucceeds, Publishing, TypeOK
  <2>2. CASE pc # "status"
    <3>1. pc' \in Rpcs
      BY <1>2, <2>2 DEF RpcSucceeds, NextRpc, Rpcs
    <3>2. firmware_bar' \in BOOLEAN
      BY <1>2, <2>2, <1>a DEF RpcSucceeds, TypeOK
    <3> QED
      BY <1>2, <2>1, <2>2, <3>1, <3>2 DEF RpcSucceeds, TypeOK
  <2>3. CASE pc = "status"
    <3>1. pc' \in {"select", "stopped"}
      BY <1>2, <2>3 DEF RpcSucceeds, AfterPublish, NextIteration
    <3> QED
      BY <1>2, <2>1, <2>3, <3>1, <1>b, NothingTyped DEF RpcSucceeds, TypeOK
  <2> QED
    BY <2>2, <2>3
<1>3. CASE RpcFails
  <2>1. pc \in Rpcs /\ sending \in Aggregate /\ Effect(pc, sending) \in Board
    BY <1>3, EffectTyped DEF RpcFails, Publishing, TypeOK
  <2>2. board' \in Board
    BY <1>3, <1>a, <2>1 DEF RpcFails
  <2>3. late' \in [rpc: Rpcs, display: Aggregate] \cup {None}
    BY <1>3, <2>1 DEF RpcFails, TypeOK
  <2>4. PublishFails /\ Disturbed
    BY <1>3 DEF RpcFails
  <2> QED
    BY <2>2, <2>3, <2>4, FailTyped, DisturbedTyped DEF PublishFails, TypeOK
<1>4. CASE RpcUnknown
  <2>1. PublishFails
    BY <1>4 DEF RpcUnknown
  <2>2. /\ calm' = 0
        /\ UNCHANGED <<running, want, demo, override, override_left, last_display,
                  since_attempt, rest, board, late, due, disturbances,
                  asked, intact>>
    BY <1>4, <2>1 DEF RpcUnknown, PublishFails
  <2>3. /\ pc' \in {"select", "stopped"} /\ publish_ok' \in BOOLEAN /\ retry_in' \in 0..RetryDelay
        /\ sending' \in Aggregate /\ firmware_bar' \in BOOLEAN /\ waited' \in BOOLEAN
        /\ clean' \in BOOLEAN
    BY <2>1, FailTyped
  <2> QED
    BY <2>2, <2>3, <1>b DEF TypeOK
<1>5. CASE LateEffect
  <2>1. late.rpc \in Rpcs /\ late.display \in Aggregate
    BY <1>5 DEF LateEffect, TypeOK
  <2>2. board' \in Board
    BY <1>5, <2>1, EffectTyped DEF LateEffect
  <2>3. /\ late' = None /\ intact' \in BOOLEAN /\ calm' = 0
        /\ UNCHANGED <<pc, running, want, demo, override, override_left, last_display,
                  since_attempt, retry_in, publish_ok, sending,
                  firmware_bar, rest, due, waited, disturbances, asked,
                  clean>>
    BY <1>5 DEF LateEffect, daemon
  <2> QED
    BY <2>2, <2>3, <1>b DEF TypeOK
<1>6. ASSUME NEW w \in Aggregates, WishChanges(w) PROVE TypeOK'
  <2>1. w \in Aggregate /\ Disturbed
    BY <1>6, PublisherAssumption DEF WishChanges
  <2> QED
    BY <1>6, <2>1, DisturbedTyped DEF WishChanges, TypeOK
<1>7. ASSUME NEW s \in Overrides, NEW d \in Durations, ControlSet(s, d) PROVE TypeOK'
  <2> DEFINE shown == [state |-> s, active |-> 0, quota |-> want.quota]
  <2>1. s \in State /\ d \in Nat /\ Disturbed
    BY <1>7, PublisherAssumption DEF ControlSet
  <2>2. shown \in Aggregate
    BY <2>1 DEF TypeOK, Aggregate
  <2>3. BeginPublish(shown, TRUE)
    BY <1>7 DEF ControlSet
  <2> HIDE DEF shown
  <2> QED
    BY <1>7, <2>1, <2>2, <2>3, BeginTyped, DisturbedTyped DEF ControlSet, TypeOK
<1>8. CASE ControlDemo
  <2> DEFINE shown == [state |-> DemoStates[1], active |-> 0, quota |-> want.quota]
  <2>1. shown \in Aggregate
    BY DemoTyped DEF TypeOK, Aggregate
  <2>2. BeginPublish(shown, TRUE) /\ Disturbed
    BY <1>8 DEF ControlDemo
  <2> HIDE DEF shown
  <2> QED
    BY <1>8, <1>b, <2>1, <2>2, BeginTyped, DisturbedTyped DEF ControlDemo, TypeOK
<1>9. CASE ControlDoctor
  <2>1. Display \in Aggregate /\ want' = want /\ Disturbed /\ BeginPublish(Display, TRUE)
    BY <1>9, DisplayTyped DEF ControlDoctor
  <2>2. demo' \in 0..DemoLength \cup {None} /\ override' \in State \cup {None} /\ override_left' \in Nat
    BY <1>9, <2>1, AskingKeepsDisplay DEF ControlDoctor
  <2> QED
    BY <1>9, <2>1, <2>2, BeginTyped, DisturbedTyped DEF ControlDoctor, TypeOK
<1>10. CASE ControlStatus
  <2>1. want' = want
    BY <1>10 DEF ControlStatus
  <2>2. demo' \in 0..DemoLength \cup {None} /\ override' \in State \cup {None} /\ override_left' \in Nat
    BY <1>10, <2>1, AskingKeepsDisplay DEF ControlStatus
  <2> QED
    BY <1>10, <2>1, <2>2 DEF ControlStatus, history, TypeOK
<1>11. ASSUME NEW bar \in Bars, BoardResets(bar) PROVE TypeOK'
  <2>1. bar \in BOOLEAN /\ Disturbed /\ board' = Reset(bar)
    BY <1>11, PublisherAssumption DEF BoardResets
  <2>2. board' \in Board
    BY <2>1, ResetTyped
  <2>3. /\ intact' \in BOOLEAN /\ clean' \in BOOLEAN
        /\ UNCHANGED <<pc, running, want, demo, override, override_left, last_display,
                  since_attempt, retry_in, publish_ok, sending,
                  firmware_bar, rest, late, due, waited, asked>>
    BY <1>11 DEF BoardResets, daemon
  <2> QED
    BY <2>1, <2>2, <2>3, DisturbedTyped DEF TypeOK
<1>12. CASE Terminate
  <2>1. Disturbed
    BY <1>12 DEF Terminate
  <2>2. /\ running' \in BOOLEAN /\ asked' \in BOOLEAN
        /\ UNCHANGED <<pc, want, demo, override, override_left, last_display,
                  since_attempt, retry_in, publish_ok, sending,
                  firmware_bar, rest, board, late, due, waited, intact,
                  clean>>
    BY <1>12 DEF Terminate
  <2> QED
    BY <2>1, <2>2, DisturbedTyped DEF TypeOK
<1>13. CASE Crash
  <2>1. Disturbed
    BY <1>13 DEF Crash
  <2>2. /\ pc' = "crashed" /\ clean' \in BOOLEAN
        /\ UNCHANGED <<running, want, demo, override, override_left, last_display,
                  since_attempt, retry_in, publish_ok, sending,
                  firmware_bar, rest, board, late, due, waited, asked,
                  intact>>
    BY <1>13 DEF Crash
  <2> QED
    BY <2>1, <2>2, DisturbedTyped DEF TypeOK
<1>14. CASE Restart
  BY <1>14, <1>b, NothingTyped DEF Restart, TypeOK
<1>15. CASE Run
  <2>1. Display \in Aggregate /\ want' = want /\ BeginPublish(Display, FALSE)
    BY <1>15, DisplayTyped DEF Run
  <2>2. demo' \in 0..DemoLength \cup {None} /\ override' \in State \cup {None} /\ override_left' \in Nat
    BY <1>15, <2>1, AskingKeepsDisplay DEF Run
  <2> QED
    BY <1>15, <2>1, <2>2, BeginTyped DEF Run, TypeOK
<1>16. CASE Tick
  <2>1. demo' \in 0..DemoLength \cup {None}
    BY <1>16, DemoTyped, ConstantsTyped DEF Tick, TypeOK, Bounded
  <2>2. override_left' \in Nat /\ since_attempt' \in 0..AttemptAge /\ retry_in' \in 0..RetryDelay
    BY <1>16, ConstantsTyped DEF Tick, TypeOK, Bounded, Countdown
  <2>3. calm' \in 0..MaxCalm
    BY <1>16, ConstantsTyped DEF Tick, TypeOK, Bounded
  <2>4. Bounded(board.silent + 1, OfflineTimeout + 1) \in 0..(OfflineTimeout + 1)
    BY <1>a, ConstantsTyped DEF Bounded
  <2>5. board' \in Board
    BY <1>16, <1>a, <2>4 DEF Tick
  <2>6. due' \in BOOLEAN /\ waited' \in BOOLEAN
    BY <1>16 DEF Tick, Idle, Publishing
  <2> QED
    BY <1>16, <2>1, <2>2, <2>3, <2>5, <2>6 DEF Tick, TypeOK
<1>17. CASE UNCHANGED vars
  BY <1>17 DEF vars, daemon, history, TypeOK
<1> QED
  BY <1>1, <1>2, <1>3, <1>4, <1>5, <1>6, <1>7, <1>8, <1>9, <1>10, <1>11, <1>12, <1>13, <1>14,
     <1>15, <1>16, <1>17 DEF Next
-----------------------------------------------------------------------------
(* What steps of several actions have in common.                           *)

\* The invariant apart from types and healing.
Rest == ProgressInv /\ ClockInv /\ SilentInv /\ CleanInv

\* Everything is well with a calm that has just begun.
LEMMA CalmBegins == ASSUME TypeOK', calm' = 0 PROVE HealInv'
<1>1. since_attempt' \in 0..(HeartbeatInterval + 1) /\ HeartbeatInterval \in Nat
  BY ConstantsTyped DEF TypeOK
<1>2. CASE Idle'
  BY <1>1, <1>2 DEF HealInv, Waiting
<1>3. CASE Publishing'
  <2>1. Before(pc') \in Nat /\ Seen(waited') \in Nat
    BY DEF Before, Seen
  <2>2. Stale'
    BY <1>1, <1>3, <2>1 DEF Stale
  <2> QED
    BY <2>2 DEF HealInv
<1> QED
  BY <1>2, <1>3 DEF HealInv

\* A step that moves neither the thread, nor its clocks, nor the board.
LEMMA Unmoved ==
    ASSUME Rest, UNCHANGED <<pc, last_display, since_attempt, retry_in, publish_ok, sending,
                             firmware_bar, board, due, waited, intact, clean>>,
           calm' = calm \/ calm' = 0
    PROVE  Rest'
<1>1. ProgressInv' /\ SilentInv' /\ CleanInv'
  BY DEF Rest, ProgressInv, SilentInv, CleanInv, SteadySilence, Idle,
         Publishing
<1>2. ClockInv'
  BY DEF Rest, ClockInv, Idle, Publishing
<1> QED
  BY <1>1, <1>2 DEF Rest

\* A publish begins: the display is carried, or the calm begins anew.
LEMMA BeginKeeps ==
    ASSUME IInv, TypeOK', NEW d, NEW c, BeginPublish(d, c), Idle \/ pc = "setup",
           board' = board, clean' = clean,
           calm' = 0 \/ (calm' = calm /\ d = Display /\ Display' = Display)
    PROVE  Rest' /\ HealInv'
<1>1. /\ pc' = "version" /\ since_attempt' = 0 /\ sending' = d
      /\ waited' = FALSE /\ intact' = TRUE
  BY DEF BeginPublish
<1>2. ~Idle' /\ Publishing' /\ ~Publishing
  BY <1>1 DEF Idle, Publishing, Rpcs
<1>3. Before(pc') = 0 /\ Seen(waited') = 0
  BY <1>1 DEF Before, Seen
<1>4. /\ calm \in Nat /\ board.silent \in Nat /\ since_attempt \in Nat
  BY ConstantsTyped DEF IInv, TypeOK
<1>5. ProgressInv' /\ SilentInv'
  BY <1>1, <1>2 DEF ProgressInv, SilentInv
<1>6. ClockInv'
  BY <1>1, <1>2 DEF ClockInv
<1>7. CleanInv'
  <2>1. clean => Idle
    BY DEF IInv, ClockInv
  <2>2. clean => board.silent <= HeartbeatInterval
    BY <2>1 DEF IInv, CleanInv, SteadySilence
  <2> QED
    BY <1>1, <1>2, <1>3, <1>4, <2>2, ConstantsTyped DEF CleanInv, SteadySilence, Idle
<1>8. HealInv'
  <2>1. CASE calm' = 0
    BY <2>1, CalmBegins
  <2>2. CASE calm' = calm /\ d = Display /\ Display' = Display
    <3>1. CASE pc = "setup"
      BY <2>2, <3>1, CalmBegins DEF IInv, ClockInv
    <3>2. CASE Idle
      <4>1. Waiting \/ Healed
        BY <1>2, <3>2 DEF IInv, HealInv, Stale, Carrying, Idle
      <4>2. CASE Waiting
        <5>1. calm <= Longer
          BY <1>4, <4>2, ConstantsTyped DEF Waiting
        <5>2. Carrying'
          BY <1>1, <1>3, <1>4, <2>2, <5>1, ConstantsTyped DEF Carrying
        <5> QED
          BY <5>2 DEF HealInv
      <4>3. CASE Healed
        <5>1. board.silent <= HeartbeatInterval
          BY <3>2, <4>3 DEF Healed, SteadySilence
        <5>2. SteadySilence'
          BY <1>1, <1>2, <1>3, <1>4, <5>1, ConstantsTyped DEF SteadySilence, Idle
        <5>3. Healed'
          BY <1>1, <2>2, <4>3, <5>2 DEF Healed
        <5> QED
          BY <5>3 DEF HealInv
      <4> QED
        BY <4>1, <4>2, <4>3
    <3> QED
      BY <3>1, <3>2
  <2> QED
    BY <2>1, <2>2
<1> QED
  BY <1>5, <1>6, <1>7, <1>8 DEF Rest

\* A publish fails: the next one is put off, whatever became of the RPC.
LEMMA FailKeeps ==
    ASSUME IInv, TypeOK', PublishFails, Publishing, calm' = 0
    PROVE  Rest' /\ HealInv'
<1>1. /\ pc' \in {"select", "stopped"} /\ publish_ok' = FALSE /\ clean' = FALSE
      /\ UNCHANGED <<since_attempt, due>>
      /\ retry_in' = RetryDelay - Bounded(since_attempt, RetryDelay)
  BY FailTyped DEF IInv, PublishFails
<1>2. ~Publishing'
  BY <1>1 DEF Publishing, Rpcs
<1>3. since_attempt \in Nat
  BY ConstantsTyped DEF IInv, TypeOK
<1>4. ProgressInv' /\ SilentInv' /\ CleanInv'
  BY <1>1, <1>2 DEF ProgressInv, SilentInv, CleanInv
<1>5. /\ retry_in' = 0 \/ since_attempt + retry_in' <= RetryDelay
      /\ since_attempt + retry_in' >= RetryDelay
  BY <1>1, <1>3, ConstantsTyped DEF Bounded
<1>6. ~due => since_attempt = 0
  BY DEF IInv, ClockInv
<1>7. ClockInv'
  BY <1>1, <1>2, <1>5, <1>6, ConstantsTyped DEF ClockInv, Idle
<1> QED
  BY <1>4, <1>7, CalmBegins DEF Rest
\* What an RPC does to each thing the board holds.
LEMMA EffectFields ==
    ASSUME TypeOK, NEW rpc \in Rpcs, NEW d
    PROVE  LET b == Effect(rpc, d) IN
           /\ b.bar = board.bar
           /\ b.state = IF rpc = "state" THEN d.state ELSE board.state
           /\ b.active = IF rpc = "state" THEN d.active ELSE board.active
           /\ b.silent = IF rpc \in {"state", "heartbeat"} THEN 0 ELSE board.silent
           /\ b.heard <=> rpc \in {"state", "heartbeat"} \/ board.heard
           /\ b.brightness <=> rpc = "brightness" \/ board.brightness
           /\ b.quota = IF rpc = "quota" /\ board.bar THEN d.quota ELSE board.quota
<1>1. board \in Board
  BY DEF TypeOK, Board
<1>2. CASE rpc = "state"
  BY <1>1, <1>2 DEF Effect, Board
<1>3. CASE rpc = "brightness"
  BY <1>1, <1>3 DEF Effect, Board
<1>4. CASE rpc = "quota"
  BY <1>1, <1>4 DEF Effect, Board
<1>5. CASE rpc = "heartbeat"
  BY <1>1, <1>5 DEF Effect, Board
<1>6. CASE rpc \in {"version", "status"}
  BY <1>1, <1>6 DEF Effect, Board
<1> QED
  BY <1>2, <1>3, <1>4, <1>5, <1>6 DEF Rpcs

\* An RPC that succeeds takes the publish one step on, or ends it.
LEMMA SuccessKeeps == ASSUME IInv, TypeOK', RpcSucceeds PROVE Rest' /\ HealInv'
<1>1. /\ pc \in Rpcs /\ Publishing /\ ~Idle /\ waited' = FALSE /\ board' = Effect(pc, sending)
      /\ pc = "quota" => board.bar
      /\ UNCHANGED <<want, demo, override, override_left, since_attempt, due, calm, intact>>
  BY DEF RpcSucceeds, Publishing, Idle, Rpcs
<1>2. Display' = Display
  BY <1>1, SameDisplay
<1>3. /\ board'.bar = board.bar
      /\ board'.state = IF pc = "state" THEN sending.state ELSE board.state
      /\ board'.active = IF pc = "state" THEN sending.active ELSE board.active
      /\ board'.silent = IF pc \in {"state", "heartbeat"} THEN 0 ELSE board.silent
      /\ board'.heard <=> pc \in {"state", "heartbeat"} \/ board.heard
      /\ board'.brightness <=> pc = "brightness" \/ board.brightness
      /\ board'.quota = IF pc = "quota" /\ board.bar THEN sending.quota ELSE board.quota
  BY <1>1, EffectFields DEF IInv
<1>4. /\ board.silent \in Nat /\ since_attempt \in Nat /\ calm \in Nat
      /\ Seen(waited) \in 0..1 /\ (Seen(waited) = 1 => waited) /\ Seen(waited') = 0
  BY <1>1, ConstantsTyped DEF IInv, TypeOK, Seen
<1>5. Seen(waited) <= since_attempt
  BY <1>1, <1>4 DEF IInv, ClockInv
<1>6. CASE pc # "status"
  <2>1. /\ pc' = NextRpc(pc) /\ firmware_bar' = IF pc = "version" THEN board.bar ELSE firmware_bar
        /\ UNCHANGED <<sending, clean>>
    BY <1>6 DEF RpcSucceeds
  <2>2. /\ pc = "version" => pc' = "state"
        /\ pc = "state" => pc' = "brightness"
        /\ pc = "brightness" => pc' = IF firmware_bar THEN "quota" ELSE "heartbeat"
        /\ pc = "quota" => pc' = "heartbeat"
        /\ pc = "heartbeat" => pc' = "status"
    BY <2>1 DEF NextRpc
  <2>3. pc \in {"version", "state", "brightness", "quota", "heartbeat"}
    BY <1>1, <1>6 DEF Rpcs
  <2>4. ~Idle' /\ Publishing' /\ pc' # "version"
    BY <2>2, <2>3 DEF Idle, Publishing, Rpcs
  <2>5. /\ Before(pc) \in Nat /\ Before(pc') \in Nat /\ Before(pc') >= Before(pc) + 1
    BY <2>2, <2>3 DEF Before
  <2>6. ProgressInv'
    <3> SUFFICES ASSUME intact', Publishing'
                 PROVE  /\ firmware_bar' = board'.bar
                        /\ pc' \notin {"version", "state"} =>
                              /\ board'.state = sending'.state /\ board'.active = sending'.active
                              /\ board'.heard
                        /\ pc' \in {"quota", "heartbeat", "status"} => board'.brightness
                        /\ pc' \in {"heartbeat", "status"} =>
                              (board'.bar => board'.quota = sending'.quota)
      BY DEF ProgressInv
    <3>1. intact /\ Publishing
      BY <1>1
    <3>2. /\ pc # "version" => firmware_bar = board.bar
          /\ pc \notin {"version", "state"} =>
                board.state = sending.state /\ board.active = sending.active /\ board.heard
          /\ pc \in {"quota", "heartbeat", "status"} => board.brightness
          /\ pc \in {"heartbeat", "status"} => (board.bar => board.quota = sending.quota)
      BY <3>1 DEF IInv, ProgressInv
    <3>3. firmware_bar' = board'.bar
      BY <1>3, <2>1, <3>2
    <3>4. pc' \notin {"version", "state"} =>
              board'.state = sending'.state /\ board'.active = sending'.active /\ board'.heard
      BY <1>3, <2>1, <2>2, <2>3, <3>2
    <3>5. pc' \in {"quota", "heartbeat", "status"} => board'.brightness
      BY <1>3, <2>2, <2>3, <3>2
    <3>6. pc' \in {"heartbeat", "status"} => (board'.bar => board'.quota = sending'.quota)
      BY <1>1, <1>3, <2>1, <2>2, <2>3, <3>2
    <3> QED
      BY <3>3, <3>4, <3>5, <3>6
  <2>8. ClockInv'
    BY <1>1, <2>4 DEF IInv, ClockInv, Publishing, Rpcs
  <2>9. SilentInv'
    <3>1. /\ pc = "brightness" => board.silent <= Seen(waited)
          /\ pc = "quota" => board.silent <= 1 + Seen(waited)
          /\ pc = "heartbeat" => board.silent <= 2 + Seen(waited)
      BY DEF IInv, SilentInv
    <3> QED
      BY <1>3, <1>4, <2>2, <2>3, <3>1 DEF SilentInv
  <2>10. SteadySilence => SteadySilence'
    BY <1>3, <1>4, <2>2, <2>3, <2>4, ConstantsTyped DEF SteadySilence
  <2>11. CleanInv'
    BY <2>1, <2>10 DEF IInv, CleanInv
  <2>12. Stale \/ Carrying \/ Healed
    BY <1>1 DEF IInv, HealInv, Waiting
  <2>13. Stale => Stale'
    BY <1>1, <1>4, <2>4, <2>5 DEF Stale
  <2>14. Healed => Healed'
    BY <1>1, <1>2, <1>3, <2>1, <2>10 DEF Healed
  <2>15. Carrying /\ pc' # "heartbeat" => Carrying'
    <3> SUFFICES ASSUME Carrying, pc' # "heartbeat" PROVE Carrying'
      OBVIOUS
    <3>1. pc' \in {"version", "state", "brightness", "quota"}
      BY <2>2 DEF Carrying
    <3> QED
      BY <1>1, <1>2, <1>4, <2>1, <2>5, <3>1, ConstantsTyped DEF Carrying
  <2>16. Carrying /\ pc' = "heartbeat" => Healed'
    <3> SUFFICES ASSUME Carrying, pc' = "heartbeat" PROVE Healed'
      OBVIOUS
    <3>1. sending' = Display' /\ intact'
      BY <1>1, <1>2, <2>1 DEF Carrying
    <3>2. /\ board'.state = sending'.state /\ board'.active = sending'.active
          /\ board'.heard /\ board'.brightness /\ (board'.bar => board'.quota = sending'.quota)
      BY <2>4, <2>6, <3>1 DEF ProgressInv
    <3>3. SteadySilence'
      BY <2>4 DEF SteadySilence
    <3> QED
      BY <3>1, <3>2, <3>3 DEF Healed
  <2> QED
    BY <2>6, <2>8, <2>9, <2>11, <2>12, <2>13, <2>14, <2>15, <2>16 DEF Rest, HealInv
<1>7. CASE pc = "status"
  <2>1. /\ last_display' = sending /\ publish_ok' = TRUE /\ retry_in' = 0 /\ clean' = intact
        /\ pc' = AfterPublish
    BY <1>7 DEF RpcSucceeds
  <2>2. pc' \in {"select", "stopped"} /\ ~Publishing'
    BY <2>1 DEF AfterPublish, NextIteration, Publishing, Rpcs
  <2>3. board'.silent = board.silent /\ board.silent <= Seen(waited)
    BY <1>3, <1>7 DEF IInv, SilentInv
  <2>4. SteadySilence'
    BY <1>1, <1>4, <1>5, <2>2, <2>3, ConstantsTyped DEF SteadySilence, Idle
  <2>6. ClockInv'
    BY <1>1, <2>1, <2>2, ConstantsTyped DEF IInv, ClockInv, Idle
  <2>7. ProgressInv' /\ SilentInv' /\ CleanInv'
    BY <2>2, <2>4 DEF ProgressInv, SilentInv, CleanInv
  <2>8. Stale \/ Healed
    BY <1>1, <1>7 DEF IInv, HealInv, Waiting, Carrying
  <2>9. Stale /\ Idle' => Waiting'
    <3>1. Before(pc) = 5
      BY <1>7 DEF Before
    <3>2. since_attempt <= HeartbeatInterval \/ since_attempt = AttemptAge
      BY ConstantsTyped DEF IInv, TypeOK
    <3> QED
      BY <1>1, <1>4, <3>1, <3>2, ConstantsTyped DEF Stale, Waiting
  <2>10. Healed => Healed'
    BY <1>2, <1>3, <1>7, <2>2, <2>4 DEF Healed
  <2> QED
    BY <2>2, <2>6, <2>7, <2>8, <2>9, <2>10 DEF Rest, HealInv
<1> QED
  BY <1>6, <1>7
\* Time passes.
LEMMA TickKeeps == ASSUME IInv, TypeOK', Tick PROVE Rest' /\ HealInv'
<1>1. /\ pc' = pc /\ pc # "setup" /\ ~(Idle /\ due) /\ ~(Publishing /\ waited)
      /\ due' = (Idle \/ Publishing) /\ waited' = Publishing
      /\ since_attempt' = Bounded(since_attempt + 1, AttemptAge)
      /\ retry_in' = Countdown(retry_in)
      /\ board' = [board EXCEPT !.silent = Bounded(@ + 1, OfflineTimeout + 1)]
      /\ calm' = IF Display' = Display THEN Bounded(calm + 1, MaxCalm) ELSE 0
      /\ UNCHANGED <<last_display, publish_ok, sending, firmware_bar, intact, clean>>
  BY DEF Tick
<1>2. /\ Idle' = Idle /\ Publishing' = Publishing /\ ~(Idle /\ Publishing)
  BY <1>1 DEF Idle, Publishing, Rpcs
<1>3. board \in Board
  BY DEF IInv, TypeOK, Board
<1>4. /\ UNCHANGED <<board.state, board.active, board.quota, board.brightness, board.heard, board.bar>>
      /\ board'.silent = Bounded(board.silent + 1, OfflineTimeout + 1)
  BY <1>1, <1>3 DEF Board
<1>5. /\ board.silent \in Nat /\ since_attempt \in 0..AttemptAge /\ calm \in Nat
      /\ retry_in \in 0..RetryDelay /\ board'.silent \in Nat /\ calm' \in Nat
  BY ConstantsTyped DEF IInv, TypeOK
<1>6. /\ board'.silent <= board.silent + 1
      /\ since_attempt' = IF since_attempt + 1 > HeartbeatInterval + 1 THEN HeartbeatInterval + 1
                          ELSE since_attempt + 1
      /\ retry_in' = IF retry_in > 0 THEN retry_in - 1 ELSE 0
  BY <1>1, <1>4, <1>5, ConstantsTyped DEF Bounded, Countdown
<1>7. Publishing => Seen(waited) = 0 /\ Seen(waited') = 1
  BY <1>1 DEF Seen
<1>8. ProgressInv'
  BY <1>1, <1>2, <1>4 DEF IInv, ProgressInv
<1>9. Idle => since_attempt < HeartbeatInterval
  BY <1>1 DEF IInv, ClockInv
<1>10. ClockInv'
  <2>1. (Publishing' => due') /\ since_attempt' >= 1
    <3>1. Publishing' => due'
      BY <1>1, <1>2
    <3>2. since_attempt' >= 1
      BY <1>5, <1>6, ConstantsTyped
    <3> QED
      BY <3>1, <3>2
  <2>2. Idle' => due'
    BY <1>1, <1>2
  <2>3. Idle' => retry_in' = 0 \/ since_attempt' + retry_in' <= RetryDelay
    <3>1. Idle => retry_in = 0 \/ since_attempt + retry_in <= RetryDelay
      BY DEF IInv, ClockInv
    <3> QED
      BY <1>2, <1>5, <1>6, <1>9, <3>1, ConstantsTyped
  <2>4. Idle' /\ ~publish_ok' => since_attempt' + retry_in' >= RetryDelay
    <3>1. Idle /\ ~publish_ok => since_attempt + retry_in >= RetryDelay
      BY DEF IInv, ClockInv
    <3> QED
      BY <1>1, <1>2, <1>5, <1>6, <1>9, <3>1, ConstantsTyped
  <2> QED
    BY <1>1, <2>1, <2>2, <2>3, <2>4 DEF ClockInv
<1>11. SilentInv'
  <2>1. /\ pc = "brightness" => board.silent <= Seen(waited)
        /\ pc = "quota" => board.silent <= 1 + Seen(waited)
        /\ pc = "heartbeat" => board.silent <= 2 + Seen(waited)
        /\ pc = "status" => board.silent <= Seen(waited)
    BY DEF IInv, SilentInv
  <2>2. pc \in {"brightness", "quota", "heartbeat", "status"} => Publishing
    BY DEF Publishing, Rpcs
  <2> QED
    BY <1>1, <1>5, <1>6, <1>7, <2>1, <2>2 DEF SilentInv
<1>12. SteadySilence => SteadySilence'
  <2>1. pc \in {"version", "state"} => Publishing
    BY DEF Publishing, Rpcs
  <2> QED
    BY <1>1, <1>2, <1>5, <1>6, <1>7, <1>9, <2>1, ConstantsTyped DEF SteadySilence
<1>13. CleanInv'
  BY <1>1, <1>12 DEF IInv, CleanInv
<1>14. HealInv'
  <2>1. CASE calm' = 0
    BY <2>1, CalmBegins
  <2>2. CASE calm' # 0
    <3>1. Display' = Display /\ calm' <= calm + 1
      BY <1>1, <1>5, <2>2, ConstantsTyped DEF Bounded
    <3>2. Before(pc) \in Nat
      BY DEF Before
    <3>3. Stale => Stale'
      <4> SUFFICES ASSUME Stale PROVE Stale'
        OBVIOUS
      <4>1. Publishing /\ Publishing'
        BY <1>2 DEF Stale
      <4>2. calm' <= Before(pc') + Seen(waited')
        <5>1. Seen(waited) = 0 /\ Seen(waited') = 1
          BY <1>7, <4>1
        <5>2. calm <= Before(pc) + Seen(waited)
          BY DEF Stale
        <5>3. calm' <= Before(pc) + 1
          BY <1>5, <3>1, <3>2, <5>1, <5>2
        <5> QED
          BY <1>1, <5>1, <5>3
      <4>3. calm' <= since_attempt' \/ since_attempt' = AttemptAge
        BY <1>5, <1>6, <3>1, ConstantsTyped DEF Stale
      <4> QED
        BY <4>1, <4>2, <4>3 DEF Stale
    <3>4. Waiting => Waiting'
      BY <1>1, <1>2, <1>5, <1>6, <1>9, <3>1, ConstantsTyped DEF Waiting
    <3>5. Carrying => Carrying'
      <4>1. Carrying => Publishing
        BY DEF Carrying, Publishing, Rpcs
      <4> QED
        BY <1>1, <1>5, <1>7, <3>1, <3>2, <4>1, ConstantsTyped DEF Carrying
    <3>6. Healed => Healed'
      BY <1>1, <1>2, <1>4, <1>12, <3>1 DEF Healed
    <3> QED
      BY <1>2, <3>3, <3>4, <3>5, <3>6 DEF IInv, HealInv
  <2> QED
    BY <2>1, <2>2
<1> QED
  BY <1>8, <1>10, <1>11, <1>13, <1>14 DEF Rest
-----------------------------------------------------------------------------
LEMMA InitInv == Init => IInv
<1> SUFFICES ASSUME Init PROVE IInv
  OBVIOUS
<1> USE DEF Init
<1>1. PICK bar \in Bars : board = Reset(bar)
  OBVIOUS
<1>2. board \in Board
  BY <1>1, ResetTyped, PublisherAssumption
<1>3. ~Idle /\ ~Publishing
  BY DEF Idle, Publishing, Rpcs
<1>4. TypeOK
  <2>1. /\ AttemptAge \in 0..AttemptAge /\ 0 \in 0..RetryDelay /\ 0 \in 0..MaxCalm
        /\ 0 \in 0..MaxDisturbances
    BY ConstantsTyped
  <2> QED
    BY <1>2, <2>1, NothingTyped DEF TypeOK, Board
<1> QED
  BY <1>3, <1>4 DEF IInv, ProgressInv, ClockInv, SilentInv, CleanInv,
     HealInv

LEMMA NextInv == IInv /\ [Next]_vars => IInv'
<1> SUFFICES ASSUME IInv, [Next]_vars PROVE IInv'
  OBVIOUS
<1>t. TypeOK /\ TypeOK'
  BY TypeStep DEF IInv
<1>r. Rest /\ HealInv
  BY DEF IInv, Rest
<1> SUFFICES Rest' /\ HealInv'
  BY <1>t DEF IInv, Rest
<1>1. CASE Iterate
  <2>1. /\ Idle /\ AskDisplay /\ UNCHANGED <<want, last_display, board, calm, clean>>
        /\ due' = FALSE
    BY <1>1 DEF Iterate
  <2>2. Display' = Display
    BY <2>1, <1>t, AskingKeepsDisplay
  <2>3. CASE MayPublish
    <3>1. BeginPublish(Display, FALSE)
      BY <1>1, <2>3 DEF Iterate
    <3> QED
      BY <2>1, <2>2, <3>1, <1>t, BeginKeeps
  <2>4. CASE ~MayPublish
    <3>1. /\ pc' \in {"select", "stopped"}
          /\ UNCHANGED <<since_attempt, retry_in, publish_ok, sending, firmware_bar, waited, intact>>
      BY <1>1, <2>4 DEF Iterate, NextIteration
    <3>2. ~Publishing /\ ~Publishing'
      BY <2>1, <3>1 DEF Idle, Publishing, Rpcs
    <3>3. since_attempt \in Nat /\ retry_in \in Nat
      BY <1>t, ConstantsTyped DEF TypeOK
    <3>4. since_attempt < HeartbeatInterval
      <4>1. retry_in = 0 \/ since_attempt + retry_in <= RetryDelay
        BY <2>1 DEF IInv, ClockInv
      <4>2. ~(since_attempt >= HeartbeatInterval) \/ retry_in # 0
        BY <2>4 DEF MayPublish, HeartbeatDue
      <4> QED
        BY <3>3, <4>1, <4>2, ConstantsTyped
    <3>5. ClockInv'
      BY <2>1, <3>1, <3>2, <3>4 DEF IInv, ClockInv, Idle
    <3>6. ProgressInv' /\ SilentInv'
      BY <2>1, <3>1, <3>2 DEF IInv, ProgressInv, SilentInv, Idle
    <3>7. SteadySilence => SteadySilence'
      BY <2>1, <3>1, <3>2 DEF SteadySilence, Idle
    <3>8. CleanInv'
      BY <2>1, <3>7 DEF IInv, CleanInv
    <3>9. Waiting \/ Healed
      BY <2>1, <3>2 DEF IInv, HealInv, Stale, Carrying, Idle
    <3>10. Waiting /\ Idle' => Waiting'
      BY <2>1, <3>1 DEF Waiting
    <3>11. Healed => Healed'
      BY <2>1, <2>2, <3>1, <3>2, <3>7 DEF Healed
    <3> QED
      BY <3>2, <3>5, <3>6, <3>8, <3>9, <3>10, <3>11 DEF Rest, HealInv
  <2> QED
    BY <2>3, <2>4
<1>2. CASE RpcSucceeds
  BY <1>2, <1>t, SuccessKeeps
<1>3. CASE RpcFails
  BY <1>3, <1>t, FailKeeps DEF RpcFails, Disturbed
<1>4. CASE RpcUnknown
  <2>1. Publishing
    BY <1>4 DEF RpcUnknown, Publishing, Rpcs
  <2> QED
    BY <1>4, <2>1, <1>t, FailKeeps DEF RpcUnknown
<1>5. CASE LateEffect
  <2>1. /\ board' = Effect(late.rpc, late.display) /\ intact' = FALSE /\ calm' = 0
        /\ UNCHANGED <<pc, last_display, since_attempt, retry_in, publish_ok, sending,
                       firmware_bar, due, waited, clean>>
    BY <1>5 DEF LateEffect, daemon
  <2>2. late.rpc \in Rpcs
    BY <1>5, <1>t DEF LateEffect, TypeOK
  <2>3. board'.silent \in {0, board.silent} /\ board.silent \in Nat
    BY <2>1, <2>2, <1>t, EffectFields DEF TypeOK
  <2>4. ProgressInv'
    BY <2>1 DEF ProgressInv
  <2>5. ClockInv'
    BY <2>1 DEF IInv, ClockInv, Idle, Publishing
  <2>6. since_attempt \in Nat /\ Seen(waited) \in Nat /\ Seen(waited') = Seen(waited)
    BY <1>t, <2>1, ConstantsTyped DEF TypeOK, Seen
  <2>7. SilentInv'
    BY <2>1, <2>3, <2>6 DEF IInv, SilentInv
  <2>8. CleanInv'
    BY <2>1, <2>3, <2>6, ConstantsTyped DEF IInv, CleanInv, SteadySilence, Idle
  <2> QED
    BY <2>1, <2>4, <2>5, <2>7, <2>8, <1>t, CalmBegins DEF Rest
<1>6. ASSUME NEW w \in Aggregates, WishChanges(w) PROVE Rest' /\ HealInv'
  BY <1>6, <1>t, <1>r, Unmoved, CalmBegins DEF WishChanges, Disturbed
<1>7. ASSUME NEW s \in Overrides, NEW d \in Durations, ControlSet(s, d) PROVE Rest' /\ HealInv'
  BY <1>7, <1>t, BeginKeeps DEF ControlSet, Disturbed
<1>8. CASE ControlDemo
  BY <1>8, <1>t, BeginKeeps DEF ControlDemo, Disturbed
<1>9. CASE ControlDoctor
  BY <1>9, <1>t, BeginKeeps DEF ControlDoctor, Disturbed
<1>10. CASE ControlStatus
  <2>1. /\ Idle /\ AskDisplay /\ calm' = calm /\ want' = want
        /\ UNCHANGED <<pc, last_display, since_attempt, retry_in, publish_ok, sending,
                       firmware_bar, board, due, waited, intact, clean>>
    BY <1>10 DEF ControlStatus, history
  <2>2. Rest'
    BY <2>1, <1>r, Unmoved
  <2>3. Display' = Display
    BY <2>1, <1>t, AskingKeepsDisplay
  <2>4. Waiting \/ Healed
    BY <2>1, <1>r DEF HealInv, Stale, Carrying, Idle, Publishing, Rpcs
  <2>5. Waiting => Waiting'
    BY <2>1 DEF Waiting, Idle
  <2>6. Healed => Healed'
    BY <2>1, <2>3 DEF Healed, SteadySilence, Idle, Publishing, Rpcs
  <2> QED
    BY <2>2, <2>4, <2>5, <2>6 DEF HealInv
<1>11. ASSUME NEW bar \in Bars, BoardResets(bar) PROVE Rest' /\ HealInv'
  <2>1. /\ board' = Reset(bar) /\ intact' = FALSE /\ clean' = FALSE /\ calm' = 0
        /\ UNCHANGED <<pc, since_attempt, retry_in, publish_ok, due, waited>>
    BY <1>11 DEF BoardResets, Disturbed, daemon
  <2>2. board'.silent = 0 /\ Seen(waited') \in Nat
    BY <2>1 DEF Reset, Seen
  <2>3. ProgressInv' /\ CleanInv'
    BY <2>1 DEF ProgressInv, CleanInv
  <2>4. ClockInv'
    BY <2>1 DEF IInv, ClockInv, Idle, Publishing
  <2>5. SilentInv'
    BY <2>2 DEF SilentInv
  <2> QED
    BY <2>1, <2>3, <2>4, <2>5, <1>t, CalmBegins DEF Rest
<1>12. CASE Terminate
  BY <1>12, <1>t, <1>r, Unmoved, CalmBegins DEF Terminate, Disturbed
<1>13. CASE Crash
  <2>1. pc' = "crashed" /\ clean' = FALSE
    BY <1>13 DEF Crash
  <2> QED
    BY <2>1 DEF Rest, ProgressInv, ClockInv, SilentInv, CleanInv, HealInv,
                Idle, Publishing, Rpcs
<1>14. CASE Restart
  <2>1. pc' = "setup" /\ clean' = FALSE /\ calm' = 0
    BY <1>14 DEF Restart
  <2> QED
    BY <2>1 DEF Rest, ProgressInv, ClockInv, SilentInv, CleanInv, HealInv,
                Idle, Publishing, Rpcs
<1>15. CASE Run
  <2>1. /\ pc = "setup" /\ AskDisplay /\ BeginPublish(Display, FALSE)
        /\ UNCHANGED <<want, board, calm, clean>>
    BY <1>15 DEF Run
  <2>2. Display' = Display
    BY <2>1, <1>t, AskingKeepsDisplay
  <2> QED
    BY <2>1, <2>2, <1>t, BeginKeeps
<1>16. CASE Tick
  BY <1>16, <1>t, TickKeeps
<1>17. CASE UNCHANGED vars
  <2>1. /\ calm' = calm
        /\ UNCHANGED <<pc, last_display, since_attempt, retry_in, publish_ok, sending,
                       firmware_bar, board, due, waited, intact, clean>>
        /\ UNCHANGED <<want, demo, override, override_left>>
    BY <1>17 DEF vars, daemon, history
  <2>2. Display' = Display
    BY <2>1, SameDisplay
  <2>3. HealInv'
    BY <2>1, <2>2, <1>r DEF HealInv, Stale, Waiting, Carrying, Healed, SteadySilence, Idle,
                            Publishing
  <2> QED
    BY <2>1, <2>3, <1>r, Unmoved
<1> QED
  BY <1>1, <1>2, <1>3, <1>4, <1>5, <1>6, <1>7, <1>8, <1>9, <1>10, <1>11, <1>12, <1>13, <1>14,
     <1>15, <1>16, <1>17 DEF Next

THEOREM InvariantHolds == Spec => []IInv
BY InitInv, NextInv, PTL DEF Spec

\* TypeOK, for every value of the constants.
THEOREM TypeCorrect == Spec => []TypeOK
BY InvariantHolds, PTL DEF IInv

\* However its publishes end, and however wrong last_display is, the loop is
\* never idle for a heartbeat interval without beginning one (_publish's
\* comparison with last_display and its retry time).
THEOREM BeliefRechecked == Spec => []BeliefIsRechecked
<1>1. IInv => BeliefIsRechecked
  BY DEF IInv, ClockInv, BeliefIsRechecked
<1> QED
  BY <1>1, InvariantHolds, PTL

\* With every RPC answered, the firmware's offline timeout never expires,
\* whatever intervals load_config lets through.
THEOREM NeverFalselyOffline == Spec => []NoFalseOffline
<1>1. IInv => NoFalseOffline
  <2> SUFFICES ASSUME IInv, Alive, clean PROVE board.silent <= OfflineTimeout
    BY DEF NoFalseOffline
  <2>1. /\ board.silent \in Nat /\ since_attempt \in Nat /\ Seen(waited) \in 0..1
        /\ SteadySilence /\ SilentInv
    BY ConstantsTyped DEF IInv, TypeOK, CleanInv, Seen
  <2>2. CASE pc \in {"select", "version", "state"}
    BY <2>1, <2>2, ConstantsTyped DEF SteadySilence, Idle
  <2>3. CASE pc \in {"brightness", "quota", "heartbeat", "status"}
    BY <2>1, <2>3, ConstantsTyped DEF SilentInv
  <2> QED
    BY <2>2, <2>3 DEF Alive, Idle, Publishing, Rpcs
<1> QED
  BY <1>1, InvariantHolds, PTL

\* A calm of HealTime is enough, whatever came before it: failed, late and
\* half-delivered publishes, resets, crashes, commands (bridge.publish and
\* _publish with their except clauses).
THEOREM Heals == Spec => []HealsInTime
<1>1. IInv => HealsInTime
  <2> SUFFICES ASSUME IInv, Alive, calm >= HealTime PROVE Shows(Display)
    BY DEF HealsInTime
  <2>1. /\ calm \in Nat /\ board.silent \in Nat /\ since_attempt \in Nat
        /\ Seen(waited) \in 0..1 /\ (Idle \/ Publishing)
    BY ConstantsTyped DEF IInv, TypeOK, Seen, Alive
  <2>2. HealTime = Longer + 5
    BY PublishTakesSix, ConstantsTyped DEF HealTime, Longer
  <2>3. ~Stale
    <3>1. Before(pc) \in 0..5
      BY DEF Before
    <3> QED
      BY <2>1, <2>2, <3>1, ConstantsTyped DEF Stale
  <2>4. ~Waiting
    BY <2>1, <2>2, ConstantsTyped DEF Waiting
  <2>5. ~Carrying
    <3> SUFFICES ASSUME Carrying PROVE FALSE
      OBVIOUS
    <3>1. Before(pc) \in 0..3
      BY DEF Before, Carrying
    <3> QED
      BY <2>1, <2>2, <3>1, ConstantsTyped DEF Carrying
  <2>6. Healed
    BY <2>1, <2>3, <2>4, <2>5 DEF IInv, HealInv
  <2>7. board.silent <= OfflineTimeout
    <3>1. SteadySilence /\ SilentInv
      BY <2>6 DEF Healed, IInv
    <3>2. CASE pc \in {"select", "version", "state"}
      BY <2>1, <3>1, <3>2, ConstantsTyped DEF SteadySilence, Idle
    <3>3. CASE pc \in {"brightness", "quota", "heartbeat", "status"}
      BY <2>1, <3>1, <3>3, ConstantsTyped DEF SilentInv
    <3> QED
      BY <2>1, <3>2, <3>3 DEF Idle, Publishing, Rpcs
  <2> QED
    BY <2>1, <2>6, <2>7, ConstantsTyped DEF Healed, Shows, Visible
<1> QED
  BY <1>1, InvariantHolds, PTL

\* After a failure the loop leaves the Router alone for the whole delay.
THEOREM RetriesSpaced == Spec => RetriesAreSpaced
<1> DEFINE Spaced == Iterate /\ pc' = "version" /\ ~publish_ok => since_attempt >= RetryDelay
<1>1. IInv /\ [Next]_vars => Spaced
  <2> SUFFICES ASSUME IInv, Iterate, pc' = "version", ~publish_ok
               PROVE  since_attempt >= RetryDelay
    OBVIOUS
  <2>1. MayPublish
    BY DEF Iterate, NextIteration
  <2>2. retry_in = 0 /\ since_attempt \in Nat
    BY <2>1, ConstantsTyped DEF MayPublish, IInv, TypeOK
  <2>3. since_attempt + retry_in >= RetryDelay
    BY DEF Iterate, IInv, ClockInv
  <2> QED
    BY <2>2, <2>3, ConstantsTyped
<1> QED
  BY <1>1, InvariantHolds, PTL DEF Spec, RetriesAreSpaced
=============================================================================
