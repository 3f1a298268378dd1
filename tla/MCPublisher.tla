---------------------------- MODULE MCPublisher ----------------------------
(***************************************************************************)
(* Publisher in one-second ticks, at the tightest times the configuration  *)
(* allows: a heartbeat and a retry every 2 s, OFFLINE after 6 s.  An RPC    *)
(* takes up to 1.25 s (connecting, sending and waiting at their limits).    *)
(***************************************************************************)
EXTENDS Publisher

Show(s, n, q) == [state |-> s, active |-> n, quota |-> q]

Busy == {Show("THINKING", 1, 60)}
IdleAgain == {Show("IDLE", 0, None), Show("WAITING", 1, 60)}
OneOverride == {"WAITING"}
ShortDuration == {2}
OneSecondDemo == <<"OFF", "ERROR">>
Nothing == {}
BothFirmwares == BOOLEAN
BarFirmware == {TRUE}
=============================================================================
