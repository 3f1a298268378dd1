----------------------------- MODULE MCFirmware -----------------------------
(***************************************************************************)
(* Firmware with a millis() that wraps every few ticks, so that every age  *)
(* crosses the wrap, and with the sketch's time constants scaled down in   *)
(* the same order.                                                         *)
(***************************************************************************)
EXTENDS Firmware

Publish(s, i, o) ==
    [state |-> s, frame_interval |-> i, offline_timeout |-> o]

\* Two states with a crossfade either way; ERROR, of an invalid request, and
\* OFFLINE are the urgent states that interrupt it.
TwoStates == {Publish(s, 2, 2) : s \in {"IDLE", "THINKING"}}
OneOrTwo == {1, 2}
OneLevel == {0}
Blinking == {"blinking"}
=============================================================================
